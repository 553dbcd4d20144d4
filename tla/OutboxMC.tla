------------------------------ MODULE OutboxMC ------------------------------
(* Small instances of the outbox: values of its constants.                 *)
EXTENDS Outbox

CONSTANTS d1, d2, e1, e2, none

TwoDispatchers == {d1, d2}
OnlyD1 == {d1}
TwoEvents == {e1, e2}
OneEvent == {e1}
=============================================================================
