------------------------------ MODULE AiRouting ------------------------------
(***************************************************************************)
(* ai-router.service.ts with the services it calls: the budget snapshot    *)
(* (ai-budget.service.ts), the circuit breaker (ai-provider-circuit.       *)
(* service.ts), the gate (AiGate), the adapters and their credentials      *)
(* (ProviderKeyPool).  A request is one execute(): it picks an ordered     *)
(* list of providers and tries them one after the other until an output    *)
(* passes validation.  Everything here is memory of one worker process,    *)
(* but for the executions the database records, of which the model keeps   *)
(* what they cost.                                                         *)
(***************************************************************************)
EXTENDS AiGate, ProviderKeyPool, Adapters

CONSTANTS
  Requests,           \* calls of execute(), each made once
  BudgetEnabled,      \* budget.enabled
  Failures,           \* the kinds of failure the instance lets happen
  Models,             \* the model slots that are configured
  Probed,             \* pooled providers whose health is probed
  ConserveAt, CriticalAt, ExhaustedAt, \* the budget's thresholds, in units of cost;
                      \* bound: past the last one nothing more is counted
  InitialSpend,       \* what earlier calls may have cost, a set
  MaxFaults           \* bound: database calls that fail

ASSUME RoutingAssumption ==
  /\ {ConserveAt, CriticalAt, ExhaustedAt, MaxFaults} \subseteq Nat
  /\ ConserveAt <= CriticalAt /\ CriticalAt <= ExhaustedAt
  /\ BudgetEnabled \in BOOLEAN
  /\ InitialSpend \subseteq 0..ExhaustedAt
  /\ Probed \subseteq AiProviders \ {"VERTEX", "BEDROCK"}
  /\ IsFiniteSet(Requests) /\ IsFiniteSet(Keys) /\ "none" \notin Keys
  /\ Capabilities \subseteq GeminiCapabilities   \* Gemini serves every AiCapability

NoKey == "none"

Paid == {"VERTEX", "BEDROCK"}

Pooled(provider) == provider \notin Paid

\* DEFAULT_CAPABILITY_ROUTES.
Route(capability) ==
  CASE capability = "CLAIM_EXTRACTION" ->
         <<"GROQ", "VERTEX", "BEDROCK", "GEMINI", "OPENROUTER">>
    [] capability \in {"STRUCTURED_EXTRACTION", "TEXT_REASONING", "SUMMARIZATION",
                       "MANIPULATION_ANALYSIS", "BIAS_ANALYSIS"} ->
         <<"GROQ", "GEMINI", "VERTEX", "BEDROCK", "OPENROUTER">>
    [] capability = "EVIDENCE_SYNTHESIS" ->
         <<"VERTEX", "BEDROCK", "GEMINI", "OPENROUTER">>
    [] capability \in {"REPORT_GENERATION", "CONTEXT_ANALYSIS"} ->
         <<"VERTEX", "BEDROCK", "OPENROUTER", "GEMINI">>
    [] capability = "TRANSLATION" ->
         <<"VERTEX", "BEDROCK", "GROQ", "GEMINI", "OPENROUTER">>
    [] capability \in {"IMAGE_UNDERSTANDING", "OCR_FALLBACK"} ->
         <<"VERTEX", "GEMINI", "OPENROUTER">>
    [] capability = "VIDEO_UNDERSTANDING" -> <<"VERTEX", "GEMINI">>
    [] capability = "AUDIO_REASONING" -> <<"GEMINI">>
    [] capability = "DAILY_CHALLENGE_GENERATION" ->
         <<"GROQ", "GEMINI", "VERTEX", "OPENROUTER">>

MaxProviderCallsFor(capability) ==
  CASE capability = "VIDEO_UNDERSTANDING" -> 1
    [] capability \in {"CLAIM_EXTRACTION", "STRUCTURED_EXTRACTION", "EVIDENCE_SYNTHESIS",
                       "REPORT_GENERATION", "TRANSLATION", "IMAGE_UNDERSTANDING",
                       "OCR_FALLBACK"} -> 3
    [] OTHER -> 2

CredentialAttempts(keys) == LET n == Cardinality(keys) IN IF n < 3 THEN n ELSE 3

\* What a probe may come to.
HttpFailures == {FetchCode(answer) : answer \in ProviderAnswers} \ {"none"}

VARIABLES
  req,        \* [Requests -> record], the execute() calls
  gate,       \* AiConcurrencyService
  pools,      \* [provider -> pool]
  circuit,    \* keys whose circuit is open: <<provider>> or <<provider, capability>>
  probe,      \* the provider and key an administrator's health check is probing
  spent,      \* [Paid -> units], the cost of the recorded executions
  snapshot,   \* AiBudgetService: cached value, and the calculation under way
  faults      \* database calls that failed so far

vars == <<req, gate, pools, circuit, probe, spent, snapshot, faults>>

NoSnapshot == [v \in Paid |-> ExhaustedAt + 1]
NoProbe == [provider |-> "none", key |-> NoKey]

Waits == {"mode_wait", "allows_wait"}
InGate == {"admitted", "call"}

Fresh == [pc |-> "idle", capability |-> "none", mode |-> "NORMAL", value |-> NoSnapshot,
          selected |-> << >>, key |-> NoKey, turns |-> 0, code |-> "none"]

\* What is left of a request that returned or threw.
Over == [Fresh EXCEPT !.pc = "over"]

Init ==
  /\ req = [r \in Requests |-> Fresh]
  /\ gate = EmptyGate
  /\ pools = [p \in {a \in AiProviders : Pooled(a)} |-> FreshPool(Keys)]
  /\ circuit = {}
  /\ probe = NoProbe
  /\ spent \in [Paid -> InitialSpend]
  /\ snapshot = [cached |-> NoSnapshot, pending |-> "none", value |-> NoSnapshot]
  /\ faults = 0

Fault == faults < MaxFaults /\ faults' = faults + 1
-----------------------------------------------------------------------------
(***************************************************************************)
(* The budget.                                                             *)
(***************************************************************************)
ModeFor(units) ==
  CASE units >= ExhaustedAt -> "EXHAUSTED"
    [] units \in CriticalAt..(ExhaustedAt - 1) -> "CRITICAL"
    [] units \in ConserveAt..(CriticalAt - 1) -> "CONSERVE"
    [] OTHER -> "NORMAL"

Mode(value) == ModeFor(value["VERTEX"] + value["BEDROCK"])

Allows(value, provider, capability) ==
  BudgetEnabled =>
  /\ capability = "DAILY_CHALLENGE_GENERATION" => Mode(value) = "NORMAL"
  /\ provider \in Paid =>
       /\ "EXHAUSTED" \notin {Mode(value), ModeFor(value[provider])}
       /\ ~(capability = "VIDEO_UNDERSTANDING" /\ Mode(value) = "CRITICAL")
       /\ provider = "BEDROCK" /\ Mode(value) = "CRITICAL" =>
            capability \in {"EVIDENCE_SYNTHESIS", "REPORT_GENERATION", "TRANSLATION"}
-----------------------------------------------------------------------------
(***************************************************************************)
(* The circuit breaker.  With failureThreshold 1 every failure opens a     *)
(* circuit, so a circuit is open or it is not.                             *)
(***************************************************************************)
CircuitAllows(provider, capability) ==
  circuit \cap {<<provider>>, <<provider, capability>>} = {}

CircuitKey(provider, capability, code) ==
  IF FailureClass(code) \in {"AUTHENTICATION", "BILLING", "RATE_LIMIT", "TEMPORARY"}
    THEN <<provider>> ELSE <<provider, capability>>

CircuitSucceed(provider, capability) ==
  circuit' = circuit \ {<<provider>>, <<provider, capability>>}

CircuitFail(provider, capability, code) ==
  circuit' = circuit \cup {CircuitKey(provider, capability, code)}

\* openUntil passes.
CircuitCloses(key) ==
  /\ key \in circuit
  /\ circuit' = circuit \ {key}
  /\ UNCHANGED <<req, gate, pools, probe, spent, snapshot, faults>>

KeyCools(provider, key) ==
  /\ pools[provider][key].cooling
  /\ pools' = [pools EXCEPT ![provider] = CooledDown(@, key)]
  /\ UNCHANGED <<req, gate, circuit, probe, spent, snapshot, faults>>
-----------------------------------------------------------------------------
(***************************************************************************)
(* candidates(): two reads of the snapshot, then the list.                 *)
(***************************************************************************)
Ask(r, capability) ==
  /\ req[r].pc = "idle"
  /\ req' = [req EXCEPT ![r].pc = IF BudgetEnabled THEN "mode" ELSE "select",
                        ![r].capability = capability]
  /\ UNCHANGED <<gate, pools, circuit, probe, spent, snapshot, faults>>

\* The administrator's list of enabled providers, as the request read it.
Runtime == SUBSET AiProviders

\* filter(): the members of a list that are in S, and those that are not.
Those(seq, S) == Entries(seq, {i \in DOMAIN seq : seq[i] \in S})
Without(seq, S) == Entries(seq, {i \in DOMAIN seq : seq[i] \notin S})

PreferredFirst(seq, preferred) == Those(seq, {preferred}) \o Without(seq, {preferred})

FreeFirst(seq) == Without(seq, Paid) \o Those(seq, Paid)

Candidates(capability, enabled, preferred, mode, value) ==
  LET ordered == PreferredFirst(Those(Route(capability), enabled), preferred)
      eligible == {p \in AiProviders : /\ ModelFor(p, capability, Models)
                                       /\ Allows(value, p, capability)
                                       /\ CircuitAllows(p, capability)}
  IN  Those(IF mode \in {"CONSERVE", "CRITICAL"} THEN FreeFirst(ordered) ELSE ordered, eligible)

Shortened(seq, n) == SubSeq(seq, 1, IF Len(seq) < n THEN Len(seq) ELSE n)

Given(r, value) ==
  IF req[r].pc \in {"mode", "mode_wait"}
    THEN [req[r] EXCEPT !.pc = "allows", !.mode = Mode(value)]
    ELSE [req[r] EXCEPT !.pc = "select", !.value = value]

\* The filters and the sort run in one turn, on the circuits as they are then.  A caller
\* may ask for fewer calls than the capability's own limit.
Select(r) ==
  /\ req[r].pc = "select"
  /\ \E enabled \in Runtime, preferred \in AiProviders \cup {"none"},
        limit \in 1..MaxProviderCallsFor(req[r].capability) :
       LET capability == req[r].capability
           all == Candidates(capability, enabled, preferred, req[r].mode, req[r].value)
       IN  req' = [req EXCEPT ![r] =
                     IF all = << >> THEN Over
                     ELSE [Fresh EXCEPT !.pc = "prompt", !.capability = capability,
                             !.selected = Shortened(all, limit)]]
  /\ UNCHANGED <<gate, pools, circuit, probe, spent, snapshot, faults>>

\* snapshot() with a cached value that is still valid.
ReadCached(r) ==
  /\ req[r].pc \in {"mode", "allows"}
  /\ snapshot.cached # NoSnapshot
  /\ req' = [req EXCEPT ![r] = Given(r, snapshot.cached)]
  /\ UNCHANGED <<gate, pools, circuit, probe, spent, snapshot, faults>>

\* snapshot() without: it joins the calculation under way, or starts one.
AskSnapshot(r) ==
  /\ req[r].pc \in {"mode", "allows"}
  /\ snapshot.cached = NoSnapshot
  /\ req' = [req EXCEPT ![r].pc = IF @ = "mode" THEN "mode_wait" ELSE "allows_wait"]
  /\ snapshot' = [snapshot EXCEPT !.pending = IF @ = "none" THEN "asked" ELSE @]
  /\ UNCHANGED <<gate, pools, circuit, probe, spent, faults>>

\* The database evaluates the aggregate.
Aggregate ==
  /\ snapshot.pending = "asked"
  /\ snapshot' = [snapshot EXCEPT !.pending = "read", !.value = spent]
  /\ UNCHANGED <<req, gate, pools, circuit, probe, spent, faults>>

\* Its answer arrives: the value is cached and everyone who waits goes on.
SnapshotArrives ==
  /\ snapshot.pending = "read"
  /\ req' = [r \in Requests |->
               IF req[r].pc \in Waits THEN Given(r, snapshot.value) ELSE req[r]]
  /\ snapshot' = [cached |-> snapshot.value, pending |-> "none", value |-> NoSnapshot]
  /\ UNCHANGED <<gate, pools, circuit, probe, spent, faults>>

\* Mutant: the failed calculation stays pending.
StillPending == [snapshot EXCEPT !.pending = "failed", !.value = NoSnapshot]

\* finally: a calculation that failed is forgotten too.
Forgotten == [snapshot EXCEPT !.pending = "none", !.value = NoSnapshot]

\* The aggregate fails: everyone who waits throws.
SnapshotFails ==
  /\ snapshot.pending \in {"asked", "read"}
  /\ Fault
  /\ req' = [r \in Requests |-> IF req[r].pc \in Waits THEN Over ELSE req[r]]
  /\ snapshot' = Forgotten
  /\ UNCHANGED <<gate, pools, circuit, probe, spent>>

CacheExpires ==
  /\ snapshot.cached # NoSnapshot
  /\ snapshot' = [snapshot EXCEPT !.cached = NoSnapshot]
  /\ UNCHANGED <<req, gate, pools, circuit, probe, spent, faults>>
-----------------------------------------------------------------------------
(***************************************************************************)
(* One provider after the other.                                           *)
(***************************************************************************)
Provider(r) == Head(req[r].selected)

\* continue: the loop goes on with the next provider, or gives up.
Onwards(r) ==
  IF Len(req[r].selected) = 1 THEN Over
  ELSE [Fresh EXCEPT !.pc = "prompt", !.capability = req[r].capability,
                     !.selected = Tail(req[r].selected)]

\* drain(): those it starts are admitted, the others wait on.
Starts(reqs, g) ==
  [r \in Requests |-> IF r \in StartedBy(g)
                        THEN [reqs[r] EXCEPT !.pc = "admitted", !.turns = CredentialAttempts(Keys)]
                        ELSE reqs[r]]

\* The published prompt is found and concurrency.run() queues the call.
PromptFound(r) ==
  /\ req[r].pc = "prompt"
  /\ LET item == [id |-> r, provider |-> Provider(r), capability |-> req[r].capability]
         g == Queued(gate, item)
     IN  /\ gate' = Drained(g)
         /\ req' = Starts([req EXCEPT ![r].pc = "queued"], g)
  /\ UNCHANGED <<pools, circuit, probe, spent, snapshot, faults>>

\* No published prompt supports the provider: it is passed over.
PromptMissing(r) ==
  /\ req[r].pc = "prompt"
  /\ req' = [req EXCEPT ![r] = Onwards(r)]
  /\ UNCHANGED <<gate, pools, circuit, probe, spent, snapshot, faults>>

\* The prompt cannot be read or rendered: execute() throws.
PromptFails(r) ==
  /\ req[r].pc = "prompt"
  /\ Fault
  /\ req' = [req EXCEPT ![r] = Over]
  /\ UNCHANGED <<gate, pools, circuit, probe, spent, snapshot>>

\* The call of the adapter settles as `next`: its slots are given back.
Leave(r, next) ==
  LET g == Decrement(gate, Provider(r), req[r].capability)
  IN  /\ gate' = Drained(g)
      /\ req' = Starts([req EXCEPT ![r] = next], g)

\* catch: the failure is classified and opens a circuit, then it is recorded.
Recording(r) ==
  [req[r] EXCEPT !.pc = "record_failed", !.key = NoKey, !.turns = 0, !.code = "none"]

Fails(r, code) ==
  /\ Leave(r, Recording(r))
  /\ CircuitFail(Provider(r), req[r].capability, code)

\* The adapter takes a credential; one without a pool has its own.  It does so in
\* the turn that admitted it or saw the last call fail; that others may come in
\* between only adds behaviours.
Acquire(r) ==
  /\ req[r].pc = "admitted"
  /\ IF Pooled(Provider(r))
       THEN \E key \in Acquirable(pools[Provider(r)]) :
              /\ req[r].turns > 0
              /\ pools' = [pools EXCEPT ![Provider(r)] = Acquired(@, key)]
              /\ req' = [req EXCEPT ![r].pc = "call", ![r].key = key, ![r].turns = @ - 1]
       ELSE /\ req' = [req EXCEPT ![r].pc = "call"]
            /\ UNCHANGED pools
  /\ UNCHANGED <<gate, circuit, probe, spent, snapshot, faults>>

\* No attempt or no healthy key is left: the last failure is thrown, or RATE_LIMITED.
NoCredential(r) ==
  /\ req[r].pc = "admitted"
  /\ Pooled(Provider(r))
  /\ req[r].turns = 0 \/ Healthy(pools[Provider(r)]) = {}
  /\ Fails(r, IF req[r].code = "none" THEN "RATE_LIMITED" ELSE req[r].code)
  /\ UNCHANGED <<pools, probe, spent, snapshot, faults>>

KeyAfterFailure(pool, key, code) ==
  IF code \in HealthFailures THEN Failed(pool, key, code) ELSE Released(pool, key)

\* The call fails: with another credential if that may help, else for good.
CallFails(r, code) ==
  /\ req[r].pc = "call"
  /\ code \in FailureCodes[Provider(r)] \cap Failures
  /\ IF Pooled(Provider(r))
       THEN pools' = [pools EXCEPT ![Provider(r)] = KeyAfterFailure(@, req[r].key, code)]
       ELSE UNCHANGED pools
  /\ IF Pooled(Provider(r)) /\ IsKeyRecoverableProviderFailure(code)
       THEN /\ req' = [req EXCEPT ![r].pc = "admitted", ![r].key = NoKey, ![r].code = code]
            /\ UNCHANGED <<gate, circuit>>
       ELSE Fails(r, code)
  /\ UNCHANGED <<probe, spent, snapshot, faults>>

\* The call returns JSON, which the validator accepts or rejects.
CallReturns(r, valid) ==
  /\ req[r].pc = "call"
  /\ IF Pooled(Provider(r))
       THEN pools' = [pools EXCEPT ![Provider(r)] = Released(@, req[r].key)]
       ELSE UNCHANGED pools
  /\ Leave(r, [req[r] EXCEPT !.pc = IF valid THEN "record_valid" ELSE "record_invalid",
                             !.key = NoKey, !.turns = 0, !.code = "none"])
  /\ UNCHANGED <<circuit, probe, spent, snapshot, faults>>
-----------------------------------------------------------------------------
(***************************************************************************)
(* record(): the execution is stored and the cached budget forgotten.      *)
(***************************************************************************)
RecordPcs == {"record_valid", "record_invalid", "record_failed"}

\* An output was measured and costs a unit; a failure may report its usage.
UnitsSpent(r) ==
  IF Provider(r) \notin Paid THEN {0}
  ELSE IF req[r].pc = "record_failed" THEN {0, 1} ELSE {1}

Stored(r) ==
  /\ \E units \in IF BudgetEnabled THEN UnitsSpent(r) ELSE {0} :
       spent' = IF units = 0 THEN spent
                ELSE [spent EXCEPT ![Provider(r)] = IF @ < ExhaustedAt THEN @ + units ELSE @]
  /\ snapshot' = [snapshot EXCEPT !.cached = NoSnapshot]

Record(r) ==
  /\ req[r].pc \in RecordPcs
  /\ Stored(r)
  /\ CASE req[r].pc = "record_valid" ->
            /\ CircuitSucceed(Provider(r), req[r].capability)
            /\ req' = [req EXCEPT ![r] = Over]
       [] req[r].pc = "record_invalid" ->
            /\ CircuitFail(Provider(r), req[r].capability, "OUTPUT_VALIDATION_FAILED")
            /\ req' = [req EXCEPT ![r] = Onwards(r)]
       [] req[r].pc = "record_failed" ->
            /\ UNCHANGED circuit
            /\ req' = [req EXCEPT ![r] = Onwards(r)]
  /\ UNCHANGED <<gate, pools, probe, faults>>

\* The record cannot be stored.  In the try block that is one more failure of
\* the provider, in the catch block execute() throws it.
RecordFails(r) ==
  /\ req[r].pc \in RecordPcs
  /\ Fault
  /\ IF req[r].pc = "record_failed"
       THEN /\ req' = [req EXCEPT ![r] = Over]
            /\ UNCHANGED circuit
       ELSE /\ req' = [req EXCEPT ![r] = Recording(r)]
            /\ CircuitFail(Provider(r), req[r].capability, "EXECUTION_FAILED")
  /\ UNCHANGED <<gate, pools, probe, spent, snapshot>>
-----------------------------------------------------------------------------
(***************************************************************************)
(* The health check of an administrator probes a pooled provider.          *)
(***************************************************************************)
ProbeStarts(provider) ==
  /\ probe = NoProbe
  /\ provider \in Probed
  /\ \E key \in Acquirable(pools[provider]) :
       /\ probe' = [provider |-> provider, key |-> key]
       /\ pools' = [pools EXCEPT ![provider] = Acquired(@, key)]
  /\ UNCHANGED <<req, gate, circuit, spent, snapshot, faults>>

\* Every failure of a probe counts against the key.
ProbeEnds ==
  /\ probe # NoProbe
  /\ probe' = NoProbe
  /\ \/ pools' = [pools EXCEPT ![probe.provider] = Released(@, probe.key)]
     \/ \E code \in HttpFailures \cap Failures :
          pools' = [pools EXCEPT ![probe.provider] = Failed(@, probe.key, code)]
  /\ UNCHANGED <<req, gate, circuit, spent, snapshot, faults>>
-----------------------------------------------------------------------------
CallEnds(r) ==
  \/ \E code \in Failures : CallFails(r, code)
  \/ \E valid \in BOOLEAN : CallReturns(r, valid)

Works(r) ==
  \/ ReadCached(r) \/ AskSnapshot(r) \/ Select(r)
  \/ PromptFound(r) \/ PromptMissing(r) \/ PromptFails(r)
  \/ Acquire(r) \/ NoCredential(r)
  \/ CallEnds(r)
  \/ Record(r) \/ RecordFails(r)

Next ==
  \/ \E r \in Requests : Works(r) \/ \E c \in Capabilities : Ask(r, c)
  \/ Aggregate \/ SnapshotArrives \/ SnapshotFails
  \/ CacheExpires
  \/ \E key \in circuit : CircuitCloses(key)
  \/ \E p \in DOMAIN pools : ProbeStarts(p) \/ \E key \in Keys : KeyCools(p, key)
  \/ ProbeEnds

\* A call ends at its timeout at the latest, and promises are settled in turn.
Fairness ==
  /\ \A r \in Requests :
       /\ WF_vars(ReadCached(r) \/ AskSnapshot(r))
       /\ WF_vars(Select(r))
       /\ WF_vars(PromptFound(r) \/ PromptMissing(r))
       /\ WF_vars(Acquire(r) \/ NoCredential(r))
       /\ WF_vars(CallEnds(r))
       /\ WF_vars(Record(r))
  /\ WF_vars(Aggregate)
  /\ WF_vars(SnapshotArrives)

Spec == Init /\ [][Next]_vars

FairSpec == Spec /\ Fairness
-----------------------------------------------------------------------------
Holders(p, key) ==
  {r \in Requests : req[r].pc = "call" /\ Provider(r) = p /\ req[r].key = key}

Calling(p, class) ==
  {r \in Requests : req[r].pc \in InGate /\ ProviderKey(Provider(r), req[r].capability) = <<p, class>>}

\* The two counters of the gate are the calls that are inside it and pass no
\* limit, and its queue holds each waiting request once: no way out of an
\* adapter forgets a slot or gives one back twice (ai-concurrency.service.ts:60).
SlotsAgree ==
  /\ \A p \in AiProviders, class \in {"TEXT", "MEDIA"} :
       /\ gate.providerActive[<<p, class>>] = Cardinality(Calling(p, class))
       /\ Cardinality(Calling(p, class)) <= ProviderLimit[<<p, class>>]
  /\ \A c \in Capabilities :
       LET inside == {r \in Requests : req[r].pc \in InGate /\ req[r].capability = c}
       IN  /\ gate.capabilityActive[c] = Cardinality(inside)
           /\ Cardinality(inside) <= CapabilityLimit[c]
  /\ Waiting(gate) = {r \in Requests : req[r].pc = "queued"}
  /\ Len(gate.queue) = Cardinality(Waiting(gate))

\* No call waits while both its limits have room: every slot given back is
\* offered to the queue in the same turn (ai-concurrency.service.ts:73).
NoneStartable == \A i \in DOMAIN gate.queue : ~CanStart(gate, gate.queue[i])

\* docs/provider-routing.md:79 "An in-process FIFO gate": of two calls for the
\* same provider and capability the one queued first is admitted first.
FifoPerClass ==
  [][\A i, j \in DOMAIN gate.queue :
       (/\ i < j
        /\ gate.queue[i].provider = gate.queue[j].provider
        /\ gate.queue[i].capability = gate.queue[j].capability
        /\ req'[gate.queue[j].id].pc # "queued")
       => req'[gate.queue[i].id].pc # "queued"]_vars

\* inFlight counts the calls and probes that hold the key, on every path out of
\* an adapter: an idle key never looks busy, a busy one never idle
\* (provider-key-pool.service.ts:86).
LeasesAgree ==
  \A p \in DOMAIN pools, key \in Keys :
    pools[p][key].inFlight =
      Cardinality(Holders(p, key)) + (IF probe = [provider |-> p, key |-> key] THEN 1 ELSE 0)

\* Places and credentials are counted right, and no place is left empty that a
\* waiting call could take.
PlacesAgree == SlotsAgree /\ LeasesAgree /\ NoneStartable

\* execute() always returns or throws: neither a full gate, exhausted keys nor a
\* failed budget calculation leaves a request waiting (ai-budget.service.ts:82).
Answers == \A r \in Requests : (req[r].pc # "idle") ~> (req[r].pc = "over")
=============================================================================
