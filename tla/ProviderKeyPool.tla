--------------------------- MODULE ProviderKeyPool ---------------------------
(***************************************************************************)
(* provider-key-pool.service.ts: the credentials of one provider.  A key   *)
(* is disabled, cooling down or healthy, and counts the calls that hold    *)
(* it; a lease is the use of a key by one call.  A code is the last part   *)
(* of the provider's failure code; every code is of one kind.              *)
(***************************************************************************)
EXTENDS Naturals, FiniteSets

CONSTANT Keys          \* credentials of a provider

FreshPool(keys) == [key \in keys |-> [disabled |-> FALSE, cooling |-> FALSE, inFlight |-> 0]]

HealthFailures ==
  {"AUTHENTICATION_FAILED", "RATE_LIMITED", "BILLING_REQUIRED", "INVALID_MODEL",
   "UNAVAILABLE", "TIMEOUT"}

IsKeyRecoverableProviderFailure(code) ==
  code \in {"AUTHENTICATION_FAILED", "RATE_LIMITED", "BILLING_REQUIRED"}

Healthy(pool) == {key \in Keys : ~pool[key].disabled /\ ~pool[key].cooling}

\* The keys acquire() may lease: the healthy ones with the fewest calls under
\* way; among those the code takes the least recently used, the model any.
Acquirable(pool) ==
  {key \in Healthy(pool) : \A k \in Healthy(pool) : pool[key].inFlight <= pool[k].inFlight}

Acquired(pool, key) == [pool EXCEPT ![key].inFlight = @ + 1]

\* release(): the first of succeed, release and fail ends the lease.
Released(pool, key) ==
  [pool EXCEPT ![key].inFlight = IF @ = 0 THEN 0 ELSE @ - 1]

Failed(pool, key, code) ==
  [Released(pool, key) EXCEPT
     ![key].disabled = @ \/ code \in {"AUTHENTICATION_FAILED", "BILLING_REQUIRED", "INVALID_MODEL"},
     ![key].cooling  = @ \/ code \in {"RATE_LIMITED", "UNAVAILABLE", "TIMEOUT"}]

\* cooldownUntil passes.
CooledDown(pool, key) == [pool EXCEPT ![key].cooling = FALSE]
=============================================================================
