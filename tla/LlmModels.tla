----------------------------- MODULE LlmModels -----------------------------
(***************************************************************************)
(* LLM providers and models: the administration handlers                   *)
(* (admin_providers.go, admin_llm.go), their repositories                  *)
(* (llm_provider.go, llm.go), and the three ways a model is resolved when  *)
(* it is needed: by role (llmresolver), for the moderator                  *)
(* (orchestrator/resolver.go) and for an MCP chat (mcp.ResolveModel).      *)
(*                                                                         *)
(* Postgres runs the transactions at READ COMMITTED: a statement sees what *)
(* is committed when it runs, waits for rows another transaction updated,  *)
(* and a foreign key holds at every commit.  One role is modelled.         *)
(***************************************************************************)
EXTENDS Naturals, FiniteSets

CONSTANTS
    Models,         \* identifiers of models, in the order of ORDER BY name, id
    Providers,      \* identifiers of providers
    Keys,           \* API keys
    Limits,         \* values of max_tokens
    Editors,        \* requests of administrators
    Calls,          \* resolutions of a model
    NoRow, NoModel

ASSUME ModelsAssumption == Models \subseteq Nat
ASSUME NoRowAssumption == NoRow \notin Keys
\* There are always names for what may be made.
ASSUME NamesAssumption == Models # {} /\ Providers # {} /\ Keys # {} /\ Limits # {}

VARIABLES
    providers,      \* llm_providers
    models,         \* llm_models
    edit,           \* per request: where it is and what it holds
    call,           \* per resolution: likewise
    roleCache,      \* the Resolver's provider for the role
    moderator       \* the ModeratorResolver's

llmVars == <<providers, models, edit, call, roleCache, moderator>>

ProviderRows == [key: Keys, enabled: BOOLEAN]
ModelRows == [prov: Providers, key: Keys, limit: Limits, enabled: BOOLEAN, default: BOOLEAN]
ASSUME NoRowsAssumption == NoRow \notin ProviderRows \cup ModelRows
Effective == [id: Models, prov: Providers, key: Keys, limit: Limits]

Edits == [at: {"idle", "insert", "delete", "done"}, id: Models, row: ModelRows \cup {NoRow},
          cleared: SUBSET Models, kept: Keys \cup {NoRow}, prov: Providers]
Resolutions == [at: {"idle", "build", "done"}, of: {"role", "moderator", "chat"},
          wanted: Models \cup {NoModel}, chosen: BOOLEAN,
          seen: Effective \cup {NoModel}, used: Effective \cup {NoModel}]

LlmTypeOK ==
    /\ providers \in [Providers -> ProviderRows \cup {NoRow}]
    /\ models \in [Models -> ModelRows \cup {NoRow}]
    /\ edit \in [Editors -> Edits]
    /\ call \in [Calls -> Resolutions]
    /\ roleCache \in Effective \cup {NoModel}
    /\ moderator \in Effective \cup {NoModel}

IdleEdit == [at |-> "idle", id |-> CHOOSE m \in Models: TRUE, row |-> NoRow, cleared |-> {},
         kept |-> NoRow, prov |-> CHOOSE p \in Providers: TRUE]

\* A provider and perhaps one of its models, from before.
SeededKey == CHOOSE k \in Keys: TRUE
Seeded == [prov |-> CHOOSE p \in Providers: TRUE, key |-> SeededKey,
           limit |-> CHOOSE l \in Limits: TRUE, enabled |-> TRUE, default |-> FALSE]

LlmInit ==
    /\ providers \in [Providers -> [key: {SeededKey}, enabled: {TRUE}]]
    /\ \E there \in SUBSET {CHOOSE m \in Models: TRUE}:
         models = [m \in Models |-> IF m \in there THEN Seeded ELSE NoRow]
    /\ edit = [e \in Editors |-> IdleEdit]
    /\ call = [c \in Calls |-> [at |-> "idle", of |-> "role", wanted |-> NoModel,
                                chosen |-> FALSE, seen |-> NoModel, used |-> NoModel]]
    /\ roleCache = NoModel
    /\ moderator = NoModel

ModelExists(m) == models[m] # NoRow
\* Rows an open transaction has updated.
Locked == UNION {edit[e].cleared: e \in Editors}
EditDone(e) == edit' = [edit EXCEPT ![e] = [IdleEdit EXCEPT !.at = "done"]]

-----------------------------------------------------------------------------
(* Models.                                                                 *)

\* CreateLLMModel up to the INSERT: the old default is cleared, the provider
\* read.
LLMCreateBegin(e) ==
    /\ edit[e].at = "idle"
    /\ \E m \in Models, p \in Providers, l \in Limits, on, def \in BOOLEAN:
         LET old == {x \in Models: def /\ ModelExists(x) /\ models[x].default} IN
         /\ old \cap Locked = {}
         /\ IF providers[p] = NoRow THEN EditDone(e)
            ELSE edit' = [edit EXCEPT ![e].at = "insert", ![e].id = m, ![e].cleared = old,
                    ![e].row = [prov |-> p, key |-> providers[p].key, limit |-> l,
                                enabled |-> on, default |-> def]]
    /\ UNCHANGED <<providers, models, call, roleCache, moderator>>

\* The INSERT and its commit: the id is free and the provider still there, or
\* everything is rolled back.
LLMCreateCommit(e) ==
    /\ edit[e].at = "insert"
    /\ IF ModelExists(edit[e].id) \/ providers[edit[e].row.prov] = NoRow
       THEN UNCHANGED models
       ELSE models' = [m \in Models |->
              IF m = edit[e].id THEN edit[e].row
              ELSE IF m \in edit[e].cleared /\ ModelExists(m)
                   THEN [models[m] EXCEPT !.default = FALSE] ELSE models[m]]
    /\ EditDone(e)
    /\ UNCHANGED <<providers, call, roleCache, moderator>>

\* UpdateLLMModel reads the model first, and Get never returns one: it scans
\* sixteen columns into fifteen variables.  The answer is 404.
UpdateLLMModel(e) ==
    /\ edit[e].at = "idle"
    /\ EditDone(e)
    /\ UNCHANGED <<providers, models, call, roleCache, moderator>>

DeleteLLMModel(e) ==
    /\ edit[e].at = "idle"
    /\ \E m \in Models \ Locked:
         models' = [models EXCEPT ![m] = NoRow]
    /\ EditDone(e)
    /\ UNCHANGED <<providers, call, roleCache, moderator>>

-----------------------------------------------------------------------------
(* Providers.                                                              *)

CreateProvider(e) ==
    /\ edit[e].at = "idle"
    /\ \E p \in Providers, k \in Keys, on \in BOOLEAN:
         /\ providers[p] = NoRow
         /\ providers' = [providers EXCEPT ![p] = [key |-> k, enabled |-> on]]
    /\ EditDone(e)
    /\ UNCHANGED <<models, call, roleCache, moderator>>

\* Update's first step: the stored key is read, to be kept if the body brings
\* none or a masked one.
UpdateProviderRead(e) ==
    /\ edit[e].at = "idle"
    /\ \E p \in Providers:
         /\ providers[p] # NoRow
         /\ edit' = [edit EXCEPT ![e].at = "insert", ![e].prov = p,
                                 ![e].kept = providers[p].key]
    /\ UNCHANGED <<providers, models, call, roleCache, moderator>>

\* Its transaction: the provider and the legacy copies in its models.
UpdateProvider(e) ==
    /\ edit[e].at = "insert" /\ edit[e].kept # NoRow
    /\ LET p == edit[e].prov IN
         IF providers[p] = NoRow THEN UNCHANGED <<providers, models>>
         ELSE /\ \A m \in Locked: ModelExists(m) => models[m].prov # p
              /\ \E k \in Keys \cup {edit[e].kept}, on \in BOOLEAN:
                   /\ providers' = [providers EXCEPT ![p] = [key |-> k, enabled |-> on]]
                   /\ models' = [m \in Models |-> IF ModelExists(m) /\ models[m].prov = p
                                   THEN [models[m] EXCEPT !.key = k] ELSE models[m]]
    /\ EditDone(e)
    /\ UNCHANGED <<call, roleCache, moderator>>

UsedBy(p) == {m \in Models: ModelExists(m) /\ models[m].prov = p}

\* Delete counts the models first ...
DeleteProviderCount(e) ==
    /\ edit[e].at = "idle"
    /\ \E p \in Providers:
         IF UsedBy(p) # {} THEN EditDone(e)
         ELSE edit' = [edit EXCEPT ![e].at = "delete", ![e].prov = p]
    /\ UNCHANGED <<providers, models, call, roleCache, moderator>>

\* ... and the foreign key has the last word (23503 is "in use" too).
DeleteProvider(e) ==
    /\ edit[e].at = "delete"
    /\ providers' = IF UsedBy(edit[e].prov) = {}
                    THEN [providers EXCEPT ![edit[e].prov] = NoRow] ELSE providers
    /\ EditDone(e)
    /\ UNCHANGED <<models, call, roleCache, moderator>>

-----------------------------------------------------------------------------
(* Resolution.                                                             *)

Usable == {m \in Models: ModelExists(m) /\ models[m].enabled /\ providers[models[m].prov].enabled}
Config(m) == [id |-> m, prov |-> models[m].prov, limit |-> models[m].limit,
              key |-> providers[models[m].prov].key]  \* the key is the provider's

\* ListByRole: enabled models of enabled providers, the default one first.
First == LET def == {m \in Usable: models[m].default}
             best == IF def # {} THEN def ELSE Usable
         IN CHOOSE m \in best: \A n \in best: m <= n
ListByRole == IF Usable = {} THEN NoModel ELSE Config(First)

\* LLMModelRepository.Get: see UpdateLLMModel.
GetModel(m) == NoModel

ReadModels(c, of, wanted, seen, to) ==
    /\ call[c].at = "idle"
    /\ call' = [call EXCEPT ![c] = [at |-> to, of |-> of, wanted |-> wanted,
         chosen |-> wanted \in Usable, seen |-> seen, used |-> IF to = "done" THEN seen ELSE NoModel]]
    /\ UNCHANGED <<providers, models, edit, roleCache, moderator>>

ReadRole(c) == ReadModels(c, "role", NoModel, ListByRole, IF Usable = {} THEN "done" ELSE "build")
ReadModerator(c) ==
    ReadModels(c, "moderator", NoModel, ListByRole, IF Usable = {} THEN "done" ELSE "build")

\* ResolveModel: the model asked for if it can be had, else the default one.
ResolveModel(c) ==
    \E w \in Models \cup {NoModel}:
      ReadModels(c, "chat", w, IF w # NoModel /\ GetModel(w) # NoModel THEN GetModel(w) ELSE ListByRole,
           "done")

\* What a cached provider is known by.  For the moderator the code takes the
\* provider's kind and not its ID, which is the same for what is called then.
RoleKey(e) == <<e.id, e.prov, e.key>>
ModeratorKeyShort(e) == <<e.id, e.prov, e.key>>
ModeratorKey(e) == <<e.id, e.prov, e.key, e.limit>>

\* Under the mutex: the cached provider if its key is that of the row read,
\* else a new one.
ResolveRole(c) ==
    /\ call[c].at = "build" /\ call[c].of = "role"
    /\ LET seen == call[c].seen
           hit == roleCache # NoModel /\ RoleKey(roleCache) = RoleKey(seen) IN
         /\ roleCache' = IF hit THEN roleCache ELSE seen
         /\ call' = [call EXCEPT ![c].at = "done", ![c].used = roleCache']
    /\ UNCHANGED <<providers, models, edit, moderator>>

ResolveModerator(c) ==
    /\ call[c].at = "build" /\ call[c].of = "moderator"
    /\ LET seen == call[c].seen
           hit == moderator # NoModel /\ ModeratorKey(moderator) = ModeratorKey(seen) IN
         /\ moderator' = IF hit THEN moderator ELSE seen
         /\ call' = [call EXCEPT ![c].at = "done", ![c].used = moderator']
    /\ UNCHANGED <<providers, models, edit, roleCache>>

Edit(e) ==
    \/ LLMCreateBegin(e) \/ (edit[e].row # NoRow /\ LLMCreateCommit(e))
    \/ UpdateLLMModel(e) \/ DeleteLLMModel(e)
    \/ CreateProvider(e) \/ UpdateProviderRead(e) \/ UpdateProvider(e)
    \/ DeleteProviderCount(e) \/ DeleteProvider(e)

LlmNext ==
    \/ \E e \in Editors: Edit(e)
    \/ \E c \in Calls: ReadRole(c) \/ ReadModerator(c) \/ ResolveModel(c)
                       \/ ResolveRole(c) \/ ResolveModerator(c)

LlmSpec == LlmInit /\ [][LlmNext]_llmVars

-----------------------------------------------------------------------------
\* No model is left without its provider, although a delete that counted no
\* model may be overtaken by the creation of one (llm_provider.go:131).
ProviderKept == \A m \in Models: ModelExists(m) => providers[models[m].prov] # NoRow

\* A moderator is built from the row read for it, in everything that has an
\* effect, and the provider of a role in everything but the output limit,
\* whoever else resolves, edits or fills the cache in between.
ResolvedAsRead ==
    \A c \in Calls: call[c].at = "done" =>
        \/ call[c].used = call[c].seen
        \/ /\ call[c].of = "role"
           /\ RoleKey(call[c].used) = RoleKey(call[c].seen)

\* What a model is resolved to is there and is what was read.
ModelsSound == ProviderKept /\ ResolvedAsRead
=============================================================================
