----------------------------- MODULE KeyRotation -----------------------------
(***************************************************************************)
(* Calls outside the AI router that take the credentials of a provider in  *)
(* turn: the searches of tavily.provider, with its health check, and the   *)
(* transcriptions of groq-transcription.service, whose pool the AI         *)
(* adapter of Groq uses as well. One provider is chosen at the start.      *)
(***************************************************************************)
EXTENDS ProviderKeyPool

CONSTANTS
  KeyCalls,             \* calls to the provider
  TranscriptionAttempts \* groq.credentialAttempts

ASSUME KeyAssumption ==
  /\ IsFiniteSet(Keys) /\ IsFiniteSet(KeyCalls)
  /\ TranscriptionAttempts \in Nat
  /\ "none" \notin Keys

VARIABLES keyProvider, keyPool, keyCall

keyVars == <<keyProvider, keyPool, keyCall>>

NoHolder == "none"
NewKeyCall == [at |-> "try", tried |-> 0, lease |-> NoHolder, held |-> FALSE, code |-> "none"]

KeyInit ==
  /\ keyProvider \in {"TAVILY", "GROQ"}
  /\ keyPool = FreshPool(Keys)
  /\ keyCall = [c \in KeyCalls |-> NewKeyCall]

\* A search tries as many times as there are keys, a transcription a few times.
Attempts ==
  IF keyProvider = "GROQ" /\ TranscriptionAttempts < Cardinality(Keys)
  THEN TranscriptionAttempts ELSE Cardinality(Keys)

Takes(c) ==
  /\ keyCall[c].at = "try" /\ keyCall[c].tried < Attempts
  /\ \E key \in Acquirable(keyPool) :
       /\ keyPool' = Acquired(keyPool, key)
       /\ keyCall' = [keyCall EXCEPT ![c].at = "sent", ![c].tried = @ + 1,
                                     ![c].lease = key, ![c].held = TRUE]
  /\ UNCHANGED keyProvider

\* No key is left to try: the last failure, or the rate limit, is the answer.
GivesUp(c) ==
  /\ keyCall[c].at = "try"
  /\ keyCall[c].tried = Attempts \/ Healthy(keyPool) = {}
  /\ keyCall' = [keyCall EXCEPT ![c].at = "ended",
                   ![c].code = IF @ = "none" THEN "RATE_LIMITED" ELSE @]
  /\ UNCHANGED <<keyProvider, keyPool>>

\* An answer is an HTTP status, a body without results ("odd"), one that is no JSON
\* ("garbled"), none in time ("late") or none at all.
KeyAnswers == {"ok", "odd", "garbled", "401", "429", "500", "late", "none"}
Rejected(answer) == answer \in {"401", "429", "500"}

KeyCode(answer) ==
  CASE answer = "ok" -> "OK"
    [] answer = "401" -> "AUTHENTICATION_FAILED"
    [] answer = "429" -> "RATE_LIMITED"
    [] answer = "late" -> "TIMEOUT"
    [] answer = "odd" -> "INVALID_RESPONSE"
    [] answer = "garbled" /\ keyProvider = "TAVILY" -> "INVALID_RESPONSE"
    [] OTHER -> "UNAVAILABLE"

\* fail() of a lease: nothing happens when it has ended before.
\* Mutant: every failure ends the lease again.
FailsAgain(pool, call, code) == Failed(pool, call.lease, code)
FailsOnce(pool, call, code) == IF call.held THEN Failed(pool, call.lease, code) ELSE pool

\* A rejected search fails its lease where the status is seen and again where the
\* failure is caught. A transcription ends its lease well before it looks into the body.
Answered(c) ==
  /\ keyCall[c].at = "sent"
  /\ \E answer \in KeyAnswers :
       LET code == KeyCode(answer)
           call == keyCall[c]
           well == answer = "ok" \/ (answer = "odd" /\ keyProvider = "GROQ")
           twice == keyProvider = "TAVILY" /\ Rejected(answer)
           seen == IF twice THEN FailsOnce(keyPool, call, code) ELSE keyPool
           caught == FailsOnce(seen, [call EXCEPT !.held = ~twice], code)
       IN /\ keyPool' = IF well THEN Released(keyPool, call.lease) ELSE caught
          /\ keyCall' = [keyCall EXCEPT ![c].held = FALSE, ![c].lease = NoHolder, ![c].code = code,
                           ![c].at = IF IsKeyRecoverableProviderFailure(code) THEN "try" ELSE "ended"]
  /\ UNCHANGED keyProvider

CredentialCools(key) ==
  /\ keyPool[key].cooling
  /\ keyPool' = CooledDown(keyPool, key)
  /\ UNCHANGED <<keyProvider, keyCall>>

\* What a health check makes of its search.
StateForCode(code) ==
  IF code = "OK" THEN "OPERATIONAL"
  ELSE IF code \in {"RATE_LIMITED", "AUTHENTICATION_FAILED", "TIMEOUT"} THEN code
  ELSE "UNAVAILABLE"

KeyNext ==
  \/ \E c \in KeyCalls : Takes(c) \/ GivesUp(c) \/ Answered(c)
  \/ \E key \in Keys : CredentialCools(key)

-----------------------------------------------------------------------------
(* Properties.                                                             *)

\* provider-key-pool.service.ts:84-102 (a lease ends once): keys are taken by their
\* load, and a key counts exactly the calls that hold it, though a rejected search
\* fails its lease twice; a health check that reports AUTHENTICATION_FAILED leaves a
\* key disabled.
HoldersAreCounted ==
  /\ \A key \in Keys : keyPool[key].inFlight = Cardinality({c \in KeyCalls : keyCall[c].lease = key})
  /\ \A c \in KeyCalls : /\ keyCall[c].at = "ended"
                         /\ StateForCode(keyCall[c].code) = "AUTHENTICATION_FAILED"
                         => \E key \in Keys : keyPool[key].disabled
=============================================================================
