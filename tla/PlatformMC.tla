----------------------------- MODULE PlatformMC -----------------------------
(* What the program stands on, in one scene chosen at the start: calls of   *)
(* the AI router (AiRouting), other calls that take keys in turn            *)
(* (KeyRotation), the versions of a prompt (PromptRegistry), processes that *)
(* start (Indexes), and a publisher (Publishers).                           *)
EXTENDS AiRouting, KeyRotation, PromptRegistry, Indexes, Publishers, TLC

CONSTANTS r1, r2, r3, k1, k2

VARIABLE scene

BothProviders == {"VERTEX", "GEMINI"}
OneCapability == {"EVIDENCE_SYNTHESIS"}
\* Three calls, at most two at a time, at most one of them at VERTEX: either
\* limit can be the one that holds a call back.
OneAtVertex ==
  [key \in BothProviders \X {"TEXT", "MEDIA"} |-> IF key = <<"GEMINI", "TEXT">> THEN 2 ELSE 1]
TwoAtOnce == [c \in OneCapability |-> 2]
Symmetry == Permutations({k1, k2}) \cup Permutations({r1, r2, r3})

\* Two releases that differ in the options of an index, and databases that hold
\* nothing, an index with other options, or duplicates.
Index(c, k, o) == [collection |-> c, keys |-> k, options |-> o]
TwoManifests ==
  <<<<Index("users", "email", {"unique"}), Index("users", "name", {}), Index("sessions", "user", {"partial"})>>,
    <<Index("users", "email", {"unique"}), Index("sessions", "user", {}), Index("reports", "slug", {"unique"})>>>>
BadgeCatalog == <<Index("badges", "code", {"unique"}), Index("badges", "order", {})>>
FoundDatabases ==
  [indexes : {{}, {Index("users", "email", {})}, {Index("badges", "code", {"unique", "partial"})},
              {Index("badges", "code", {})}, {Index("sessions", "user", {}), Index("users", "name", {})}},
   dirty : {{}, {"users"}, {"badges"}}]

Scenes == {"router", "keys", "prompts", "start", "publisher"}
platformVars == <<scene, vars, keyVars, promptVars, indexVars, publisherVars>>

\* Where a scene is not played, its only choices are made for it.
MCInit ==
  /\ scene \in Scenes
  /\ Init /\ KeyInit /\ PromptInit /\ IndexInit /\ PublisherInit
  /\ scene # "keys" => keyProvider = "GROQ"
  /\ scene # "start" => database = [indexes |-> {}, dirty |-> {}]

MCNext ==
  /\ UNCHANGED scene
  /\ \/ /\ scene = "router" /\ Next
        /\ UNCHANGED <<keyVars, promptVars, indexVars, publisherVars>>
     \/ /\ scene = "keys" /\ KeyNext
        /\ UNCHANGED <<vars, promptVars, indexVars, publisherVars>>
     \/ /\ scene = "prompts" /\ PromptNext
        /\ UNCHANGED <<vars, keyVars, indexVars, publisherVars>>
     \/ /\ scene = "start" /\ IndexNext
        /\ UNCHANGED <<vars, keyVars, promptVars, publisherVars>>
     \/ /\ scene = "publisher" /\ PublisherNext
        /\ UNCHANGED <<vars, keyVars, promptVars, indexVars>>

MCSpec == MCInit /\ [][MCNext]_platformVars

\* Whoever holds a place or a key is counted, once: of the AI gate (AiRouting) and of the
\* pools of keys that other calls take in turn (KeyRotation).
HoldersAgree == PlacesAgree /\ HoldersAreCounted

\* What the configuration promises its readers: the prompt published last is served, a
\* process that started has its indexes, an administrator's override of a publisher stands.
ConfigurationHolds == LastPublishedServes /\ StartedHasIndexes /\ OverrideStands
=============================================================================
