----------------------------- MODULE PromptRegistry -----------------------------
(***************************************************************************)
(* The versions of one prompt (prompt-registry.service): releases of the   *)
(* program seed the versions they need, already published                  *)
(* (core-prompt-seed.service), administrators write drafts, publish them   *)
(* and go back, and the AI router asks for the newest published version    *)
(* of the output schema its caller parses.                                 *)
(***************************************************************************)
EXTENDS Integers, FiniteSets

CONSTANTS
  Releases,      \* 1..n; release r seeds the versions 1..r and parses the schema r
  Admins,        \* administrators, one request at a time each
  MaxEdits,      \* requests of administrators in all
  MaxPrompts     \* versions

ASSUME PromptAssumption == MaxPrompts \in Nat /\ Releases \subseteq 1..MaxPrompts

VARIABLES
  prompts,       \* by version: [status, schema, system, providers]
  starting,      \* by release: the versions it has still to seed, and "providers"
  admin,         \* by administrator: [at, version, status]: what the request has read
  edits,
  chosen,        \* history: the version whose publication deprecated the others last, 0 before any
  since,         \* history: versions published or seeded since then
  lost           \* history: that version is not published, and no request is left to write it

PromptVersions == 1..MaxPrompts
promptVars == <<prompts, starting, admin, edits, chosen, since, lost>>

NoPrompt == [status |-> "none", schema |-> 0, system |-> FALSE, providers |-> {}]
NoEdit == [at |-> "free", version |-> 0, status |-> "none"]

PromptInit ==
  /\ prompts = [v \in PromptVersions |-> NoPrompt]
  /\ starting = [r \in Releases |-> 0..r]
  /\ admin = [a \in Admins |-> NoEdit]
  /\ edits = 0 /\ chosen = 0 /\ since = {} /\ lost = FALSE

PromptExists(v) == prompts[v].status # "none"
NewestPrompt(vs) == IF vs = {} THEN 0 ELSE CHOOSE v \in vs : \A w \in vs : w <= v

-----------------------------------------------------------------------------
(* A release starts. The upserts are sent together.                        *)

\* $setOnInsert: a version of that number is left as it is, whoever wrote it.
SeedPrompt(r) ==
  /\ \E v \in starting[r] \ {0} :
       /\ starting' = [starting EXCEPT ![r] = @ \ {v}]
       /\ IF PromptExists(v) THEN UNCHANGED <<prompts, since>>
          ELSE /\ prompts' = [prompts EXCEPT ![v] =
                    [status |-> "PUBLISHED", schema |-> v, system |-> TRUE, providers |-> 1..r]]
               /\ since' = since \cup {v}
  /\ UNCHANGED <<admin, edits, chosen, lost>>

\* Then the system's own versions learn of the release's providers.
AddProviders(r) ==
  /\ starting[r] = {0} /\ starting' = [starting EXCEPT ![r] = {}]
  /\ prompts' = [v \in PromptVersions |->
       IF prompts[v].system THEN [prompts[v] EXCEPT !.providers = @ \cup 1..r] ELSE prompts[v]]
  /\ UNCHANGED <<admin, edits, chosen, since, lost>>

-----------------------------------------------------------------------------
(* Administrators.                                                         *)

Publishing(a) == admin[a].at \in {"deprecate", "save"}

ReadLatest(a) ==
  /\ admin[a].at = "free" /\ edits < MaxEdits /\ edits' = edits + 1
  /\ admin' = [admin EXCEPT ![a] =
       [NoEdit EXCEPT !.at = "create", !.version = NewestPrompt({v \in PromptVersions : PromptExists(v)}) + 1]]
  /\ UNCHANGED <<prompts, starting, chosen, since, lost>>

\* The unique index on key and version refuses a number taken meanwhile.
CreatePromptVersion(a) ==
  /\ admin[a].at = "create" /\ admin' = [admin EXCEPT ![a] = NoEdit]
  /\ LET v == admin[a].version
     IN IF v \in PromptVersions /\ ~PromptExists(v)
        THEN \E schema \in Releases :
               prompts' = [prompts EXCEPT ![v] =
                 [status |-> "DRAFT", schema |-> schema, system |-> FALSE, providers |-> {1}]]
        ELSE UNCHANGED prompts
  /\ UNCHANGED <<starting, edits, chosen, since, lost>>

\* publish() and rollback differ in the audit only.
ReadPrompt(a) ==
  /\ admin[a].at = "free" /\ edits < MaxEdits /\ edits' = edits + 1
  /\ \E v \in PromptVersions :
       /\ PromptExists(v)
       /\ admin' = [admin EXCEPT ![a] = [at |-> "deprecate", version |-> v, status |-> prompts[v].status]]
  /\ UNCHANGED <<prompts, starting, chosen, since, lost>>

PublishedOthers(v) == {w \in PromptVersions \ {v} : prompts[w].status = "PUBLISHED"}

\* A status that was read as PUBLISHED is no modified path, and is not written.
WritesStatus(a) == admin[a].status # "PUBLISHED"

DeprecateOthers(a) ==
  /\ admin[a].at = "deprecate" /\ admin' = [admin EXCEPT ![a].at = "save"]
  /\ LET mine == admin[a].version
     IN /\ prompts' = [v \in PromptVersions |->
             IF v \in PublishedOthers(mine) THEN [prompts[v] EXCEPT !.status = "DEPRECATED"] ELSE prompts[v]]
        /\ chosen' = mine /\ since' = {}
        /\ lost' = ~(WritesStatus(a) \/ prompts[mine].status = "PUBLISHED")
  /\ UNCHANGED <<starting, edits>>

SavePublished(a) ==
  /\ admin[a].at = "save" /\ admin' = [admin EXCEPT ![a] = NoEdit]
  /\ IF WritesStatus(a)
     THEN /\ prompts' = [prompts EXCEPT ![admin[a].version].status = "PUBLISHED"]
          /\ since' = since \cup {admin[a].version}
          /\ lost' = (lost /\ admin[a].version # chosen)
     ELSE UNCHANGED <<prompts, since, lost>>
  /\ UNCHANGED <<starting, edits, chosen>>

EditDies(a) ==
  /\ admin[a].at # "free" /\ admin' = [admin EXCEPT ![a] = NoEdit]
  /\ lost' = (lost \/ (admin[a].at = "save" /\ admin[a].version = chosen /\ prompts[chosen].status # "PUBLISHED"))
  /\ UNCHANGED <<prompts, starting, edits, chosen, since>>

PromptNext ==
  \/ \E r \in Releases : SeedPrompt(r) \/ AddProviders(r)
  \/ \E a \in Admins : \/ ReadLatest(a) \/ CreatePromptVersion(a) \/ ReadPrompt(a)
                       \/ DeprecateOthers(a) \/ SavePublished(a) \/ EditDies(a)

-----------------------------------------------------------------------------
(* What the router is given (resolvePublished).                            *)

ResolvePublished(schema, provider) ==
  NewestPrompt({v \in PromptVersions : /\ prompts[v].status = "PUBLISHED" /\ prompts[v].schema = schema
                                       /\ provider \in prompts[v].providers})

\* prompt-registry.service.ts:95-162: when nobody publishes, whatever requests of
\* administrators overlapped or died before, the version whose publication deprecated the
\* others last is published, unless that publication was lost; nothing is published but
\* what was published or seeded since, and the schema resolves to one of those.
LastPublishedServes ==
  chosen # 0 /\ (\A a \in Admins : ~Publishing(a)) =>
    LET last == prompts[chosen]
        standing == {chosen} \cup since
    IN /\ \A v \in PromptVersions : prompts[v].status = "PUBLISHED" => v \in standing
       /\ ~lost => /\ last.status = "PUBLISHED"
                   /\ \A p \in last.providers : ResolvePublished(last.schema, p) \in standing
=============================================================================
