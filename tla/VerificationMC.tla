--------------------------- MODULE VerificationMC ---------------------------
(* Instances of Verification for TLC. *)
EXTENDS Verification

CONSTANT r1

OneRequest == {r1}
AllOperations == {"cancel", "retry", "reprocess", "remove", "adminRetry"}
NoOperation == {}
SomeFaults == {"workerCrash", "apiCrash", "queue", "database"}
WorkerFault == {"workerCrash"}
=============================================================================
