----------------------------- MODULE Catalogue -----------------------------
(***************************************************************************)
(* What administrators keep in Postgres: agents, MCP servers, groups and   *)
(* skills.  A request to /api/admin is served by one handler: it validates,*)
(* writes in one transaction or two, logs, and, for agents and MCP         *)
(* servers, reloads the registry its pod serves them from.  A ticker       *)
(* reloads every pod's registry each 30 s.  The admin tools of the MCP     *)
(* server replay a request against the same router after putting back the  *)
(* credentials the client saw as "***" (mcpserver/admin.go).               *)
(*                                                                         *)
(* The four kinds share no rows: a behaviour is about one of them.  A      *)
(* resource is the stamps of its columns, a stamp being the transaction    *)
(* that wrote the column; 0 is "no rows" in a satellite table.             *)
(***************************************************************************)
EXTENDS Naturals, FiniteSets

CONSTANTS
    Servers,        \* pods
    Requests,       \* requests to /api/admin
    ServedBy,       \* the pod each request reaches
    Ids,            \* identifiers of resources; rows are ORDER BY name
    Kinds,          \* the kinds of resources to look at
    Absent,         \* no row
    Masked,         \* the stored text "***"
    MaxFaults,      \* bound: statements that fail
    MaxStops        \* bound: pods that restart

ASSUME ServedByAssumption == ServedBy \in [Requests -> Servers]
ASSUME RequestsAssumption == IsFiniteSet(Requests)
ASSUME IdsAssumption == Ids \subseteq Nat /\ Ids # {} /\ Masked \notin Nat
ASSUME AbsentAssumption ==
    Absent \notin [cfg: Nat, kept: Nat \cup {Masked}, users: Nat, groups: Nat, rules: Nat]
ASSUME KindsAssumption == Kinds \subseteq {"agent", "mcp", "group", "skill"}

Loaders == Requests \cup Servers         \* the ticker is named after its pod
Pod(t)  == IF t \in Requests THEN ServedBy[t] ELSE t

VARIABLES
    kind, rows, clock,
    served,     \* per pod: the registry
    pc,         \* per loader: where it is
    op,         \* per request: what it asks
    held,       \* per request: what it read in order to keep it
    got, todo,  \* per loader: the list read so far, and what is left of it
    behind,     \* per loader: another load ended since its list was read (history)
    changed,    \* per request: a transaction of it took effect (history)
    recorded,   \* per request: what became of its audit event
    faults, stops

adminVars == <<kind, rows, clock, served, pc, op, held, got, todo,
               behind, changed, recorded, faults, stops>>
threadVars == <<op, held, got, todo, behind>>

Stamps  == 0 .. 2 * Cardinality(Requests) + 1
Columns == {"users", "groups", "rules"}  \* read one statement each, in this order
Rows == [cfg: Stamps, kept: Stamps \cup {Masked}, users: Stamps, groups: Stamps, rules: Stamps]
Operations == [do: {"create", "update", "delete", "permit"}, id: Ids,
               rules: BOOLEAN, keeps: BOOLEAN]

CatalogueTypeOK ==
    /\ kind \in Kinds
    /\ rows \in [Ids -> Rows \cup {Absent}]
    /\ clock \in Stamps
    /\ served \in [Servers -> [Ids -> Rows \cup {Absent}]]
    /\ pc \in [Loaders -> {"start", "keep", "write", "rules", "log", "query", "columns",
                           "install", "record", "done", "wait"}]
    /\ \A r \in Requests: op[r] \in Operations
    /\ held \in [Requests -> Stamps \cup {Masked}]
    /\ got \in [Loaders -> [Ids -> Rows \cup {Absent}]]
    /\ \A t \in Loaders: todo[t] \subseteq Ids \X Columns
    /\ behind \in [Loaders -> BOOLEAN]
    /\ recorded \in [Requests -> {"no", "yes", "lost"}]

Fresh(s) == [cfg |-> s, kept |-> s, users |-> s, groups |-> s, rules |-> s]
Empty == [i \in Ids |-> Absent]

NoOp == [do |-> "create", id |-> CHOOSE i \in Ids: TRUE, rules |-> FALSE, keeps |-> FALSE]

CatalogueInit ==
    /\ kind \in Kinds
    /\ rows \in [Ids -> {Absent, Fresh(1)}]
    /\ clock = 1
    /\ served = [p \in Servers |-> rows]
    /\ pc = [t \in Loaders |-> IF t \in Requests THEN "start" ELSE "wait"]
    /\ op = [r \in Requests |-> NoOp]
    /\ held = [r \in Requests |-> 0]
    /\ got = [t \in Loaders |-> Empty]
    /\ todo = [t \in Loaders |-> {}]
    /\ behind = [t \in Loaders |-> FALSE]
    /\ changed = [r \in Requests |-> FALSE]
    /\ recorded = [r \in Requests |-> "no"]
    /\ faults = MaxFaults
    /\ stops = MaxStops

Registered == kind \in {"agent", "mcp"}  \* served from a registry, not from Postgres
Goto(t, to) == pc' = [pc EXCEPT ![t] = to]
Faulty == faults > 0 /\ faults' = faults - 1
Answer(r) == Goto(r, "record")   \* whatever the status; the middleware goes on
Id(r) == op[r].id
Here(r) == rows[Id(r)]

-----------------------------------------------------------------------------
(* The request up to its write.                                            *)

\* A new value for everything, or an update that keeps one: through a tool, a
\* credential still "***"; of a group, the description the body leaves out.
Begin(r) ==
    /\ pc[r] = "start"
    /\ \E o \in Operations:
         /\ o.keeps => o.do = "update" /\ kind # "skill"
         /\ o.rules => o.do = "update" /\ Registered
         /\ op' = [op EXCEPT ![r] = o]
         /\ Goto(r, IF o.keeps THEN "keep" ELSE "write")
    /\ UNCHANGED <<kind, rows, clock, served, held, got, todo, behind,
                   changed, recorded, faults, stops>>

\* A body that does not validate, or a role that is too low.
Refuse(r) ==
    /\ pc[r] = "start"
    /\ Answer(r)
    /\ UNCHANGED <<kind, rows, clock, served, threadVars, changed,
                   recorded, faults, stops>>

\* adminToolResult reads the resource to restore what is masked; when it
\* cannot, the body goes on as it is.
RestoreRedacted(r) ==
    /\ pc[r] = "keep" /\ Registered
    /\ \/ Here(r) # Absent /\ held' = [held EXCEPT ![r] = Here(r).kept] /\ UNCHANGED faults
       \/ Here(r) = Absent /\ held' = [held EXCEPT ![r] = Masked] /\ UNCHANGED faults
       \/ Faulty /\ held' = [held EXCEPT ![r] = Masked]
    /\ Goto(r, "write")
    /\ UNCHANGED <<kind, rows, clock, served, op, got, todo, behind,
                   changed, recorded, stops>>

\* UpdateGroup reads the group, whose description it may keep, or gives up.
ReadGroup(r) ==
    /\ pc[r] = "keep" /\ kind = "group"
    /\ \/ /\ Here(r) # Absent
          /\ held' = [held EXCEPT ![r] = Here(r).kept]
          /\ Goto(r, "write")
          /\ UNCHANGED faults
       \/ Here(r) = Absent /\ Answer(r) /\ UNCHANGED <<held, faults>>
       \/ Faulty /\ Answer(r) /\ UNCHANGED held
    /\ UNCHANGED <<kind, rows, clock, served, op, got, todo, behind,
                   changed, recorded, stops>>

-----------------------------------------------------------------------------
(* The transactions.  A commit may take effect and report failure.         *)

Put(r, row) ==
    /\ rows' = [rows EXCEPT ![Id(r)] = row]
    /\ clock' = clock + 1
    /\ changed' = [changed EXCEPT ![r] = TRUE]

\* A failed request that leaves past the middleware.
TransactionUnrecorded(r, row, next) ==
    /\ \/ Put(r, row) /\ Goto(r, next) /\ UNCHANGED faults
       \/ Put(r, row) /\ Faulty /\ Goto(r, "done")
       \/ Faulty /\ Goto(r, "done") /\ UNCHANGED <<rows, clock, changed>>
    /\ UNCHANGED <<kind, served, threadVars, recorded, stops>>

Transaction(r, row, next) ==
    /\ \/ Put(r, row) /\ Goto(r, next) /\ UNCHANGED faults
       \/ Put(r, row) /\ Faulty /\ Answer(r)
       \/ Faulty /\ Answer(r) /\ UNCHANGED <<rows, clock, changed>>
    /\ UNCHANGED <<kind, served, threadVars, recorded, stops>>

NotFound(r) ==
    /\ Answer(r)
    /\ UNCHANGED <<kind, rows, clock, served, threadVars, changed,
                   recorded, faults, stops>>

NoEffect(r, next) ==
    /\ Goto(r, next)
    /\ UNCHANGED <<kind, rows, clock, served, threadVars, changed,
                   recorded, faults, stops>>

Stamp == clock + 1
Kept(r) == IF op[r].keeps THEN held[r] ELSE Stamp
Asks(r, k, do) == pc[r] = "write" /\ kind = k /\ op[r].do = do

Insert(r) == IF Here(r) = Absent THEN Transaction(r, Fresh(Stamp), "log") ELSE NotFound(r)
Remove(r) == IF Here(r) = Absent THEN NotFound(r) ELSE Transaction(r, Absent, "log")
Replace(r, row, next) ==
    IF Here(r) = Absent THEN NotFound(r) ELSE Transaction(r, row, next)
\* The lists of a resource that is gone: empty ones violate no foreign key.
Permit(r) ==
    IF Here(r) = Absent
    THEN NotFound(r) \/ NoEffect(r, "log")
    ELSE Transaction(r, [Here(r) EXCEPT !.users = Stamp, !.groups = Stamp], "log")
AfterUpdate(r) == IF op[r].rules THEN "rules" ELSE "log"

\* The repositories: what one transaction of each writes.
AgentCreate(r) == Insert(r)
AgentUpdate(r) == Replace(r, [Here(r) EXCEPT !.cfg = Stamp, !.kept = Kept(r)], AfterUpdate(r))
AgentDelete(r) == Remove(r)
AgentPermissions(r) == Permit(r)
ServerCreate(r) == Insert(r)
ServerUpdate(r) ==      \* the permissions too
    Replace(r, [Here(r) EXCEPT !.cfg = Stamp, !.kept = Kept(r), !.users = Stamp,
                               !.groups = Stamp], AfterUpdate(r))
ServerDelete(r) == Remove(r)
ServerPermissions(r) == Permit(r)
GroupCreate(r) == Insert(r)
GroupUpdate(r) == Replace(r, [Here(r) EXCEPT !.cfg = Stamp, !.kept = Kept(r)], "log")
GroupDelete(r) == Remove(r)
GroupPermissions(r) == Permit(r)
SkillCreate(r) == Insert(r)
SkillUpdate(r) == Replace(r, Fresh(Stamp), "log")
SkillDelete(r) == Remove(r)
SkillPermissions(r) == Permit(r)

\* The handlers.
CreateAgent(r) == Asks(r, "agent", "create") /\ AgentCreate(r)
UpdateAgent(r) == Asks(r, "agent", "update") /\ AgentUpdate(r)
DeleteAgent(r) == Asks(r, "agent", "delete") /\ AgentDelete(r)
UpdatePermissions(r) == Asks(r, "agent", "permit") /\ AgentPermissions(r)
CreateMCPServer(r) == Asks(r, "mcp", "create") /\ ServerCreate(r)
UpdateMCPServer(r) == Asks(r, "mcp", "update") /\ ServerUpdate(r)
DeleteMCPServer(r) == Asks(r, "mcp", "delete") /\ ServerDelete(r)
UpdateMCPPermissions(r) == Asks(r, "mcp", "permit") /\ ServerPermissions(r)
CreateGroup(r) == Asks(r, "group", "create") /\ GroupCreate(r)
UpdateGroup(r) == Asks(r, "group", "update") /\ GroupUpdate(r)
DeleteGroup(r) == Asks(r, "group", "delete") /\ GroupDelete(r)
UpdateGroupPermissions(r) == Asks(r, "group", "permit") /\ GroupPermissions(r)
CreateSkill(r) == Asks(r, "skill", "create") /\ SkillCreate(r)
UpdateSkill(r) == Asks(r, "skill", "update") /\ SkillUpdate(r)
DeleteSkill(r) == Asks(r, "skill", "delete") /\ SkillDelete(r)
UpdateSkillPermissions(r) == Asks(r, "skill", "permit") /\ SkillPermissions(r)

\* A second transaction that writes back the agent its registry shows.
\* One that is repeated.
ReplaceAPIKeyRulesAgain(r) ==
    /\ pc[r] = "rules"
    /\ IF Here(r) = Absent THEN NotFound(r) \/ NoEffect(r, "log")
       ELSE Transaction(r, [Here(r) EXCEPT !.rules = Stamp], "rules")

\* The rules are a second transaction; when it fails the first one stays, and
\* the handler neither logs nor reloads.
ReplaceAPIKeyRules(r) ==
    /\ pc[r] = "rules"
    /\ IF Here(r) = Absent THEN NotFound(r) \/ NoEffect(r, "log")
       ELSE Transaction(r, [Here(r) EXCEPT !.rules = Stamp], "log")

\* auditRepo.Log: its result is ignored.
Log(r) ==
    /\ pc[r] = "log"
    /\ IF Registered THEN Goto(r, "query") ELSE Answer(r)
    /\ UNCHANGED <<kind, rows, clock, served, threadVars, changed, recorded,
                   faults, stops>>

-----------------------------------------------------------------------------
(* LoadFromDB: on a request's context (Refresh) or the ticker's.           *)

Tick(p) ==
    /\ pc[p] = "wait" /\ Registered
    /\ Goto(p, "query")
    /\ UNCHANGED <<kind, rows, clock, served, threadVars, changed,
                   recorded, faults, stops>>

Drop(ts) ==
    /\ got' = [t \in Loaders |-> IF t \in ts THEN Empty ELSE got[t]]
    /\ todo' = [t \in Loaders |-> IF t \in ts THEN {} ELSE todo[t]]
    /\ behind' = [t \in Loaders |-> t \notin ts /\ behind[t]]
Loaded(t) == IF t \in Requests THEN Answer(t) ELSE Goto(t, "wait")

\* List: the resources in one statement.  A connection that breaks meanwhile
\* ends the rows early, and rows.Err is not looked at.
ListRows(t) ==
    /\ pc[t] = "query"
    /\ \E seen \in SUBSET Ids:
         /\ \/ seen = Ids /\ UNCHANGED faults
            \/ seen # Ids /\ Faulty
         /\ got' = [got EXCEPT ![t] = [i \in Ids |->
              IF i \notin seen \/ rows[i] = Absent THEN Absent
              ELSE [rows[i] EXCEPT !.users = 0, !.groups = 0, !.rules = 0]]]
         /\ todo' = [todo EXCEPT ![t] = {i \in seen: rows[i] # Absent} \X Columns]
    /\ behind' = [behind EXCEPT ![t] = FALSE]
    /\ Goto(t, "columns")
    /\ UNCHANGED <<kind, rows, clock, served, op, held, changed,
                   recorded, stops>>

ListAgents(t) == kind = "agent" /\ ListRows(t)
ListServers(t) == kind = "mcp" /\ ListRows(t)

Before == [users |-> {}, groups |-> {"users"}, rules |-> {"users", "groups"}]

\* GetPermissions and ListAPIKeyRules: a statement per resource and column.
ReadColumn(t, i, c) ==
    /\ pc[t] = "columns"
    /\ <<i, c>> \in todo[t]
    /\ \A j \in Ids, d \in Columns: <<j, d>> \in todo[t] =>
         i < j \/ (i = j /\ d \notin Before[c])
    /\ got' = [got EXCEPT ![t][i][c] = IF rows[i] = Absent THEN 0 ELSE rows[i][c]]
    /\ todo' = [todo EXCEPT ![t] = @ \ {<<i, c>>}]
    /\ UNCHANGED <<kind, rows, clock, served, pc, op, held, behind, changed,
                   recorded, faults, stops>>

\* A load that adds to the map and removes nothing.
InstallMerged(t) ==
    /\ pc[t] = "columns" /\ todo[t] = {}
    /\ served' = [served EXCEPT ![Pod(t)] =
                    [i \in Ids |-> IF got[t][i] = Absent THEN @[i] ELSE got[t][i]]]
    /\ behind' = [u \in Loaders |->
                    u # t /\ (behind[u] \/ (Pod(u) = Pod(t) /\ pc[u] = "columns"))]
    /\ got' = [got EXCEPT ![t] = Empty]
    /\ Loaded(t)
    /\ UNCHANGED <<kind, rows, clock, op, held, todo, changed, recorded, faults, stops>>

\* Under the registry's mutex: the map is replaced as a whole.
Install(t) ==
    /\ pc[t] = "columns" /\ todo[t] = {}
    /\ served' = [served EXCEPT ![Pod(t)] = got[t]]
    /\ behind' = [u \in Loaders |->
                    u # t /\ (behind[u] \/ (Pod(u) = Pod(t) /\ pc[u] = "columns"))]
    /\ got' = [got EXCEPT ![t] = Empty]
    /\ Loaded(t)
    /\ UNCHANGED <<kind, rows, clock, op, held, todo, changed, recorded, faults, stops>>

\* An error keeps the registry as it is; Refresh's callers ignore it.
LoadFails(t) ==
    /\ pc[t] \in {"query", "columns"} /\ (pc[t] = "columns" => todo[t] # {})
    /\ Faulty
    /\ Loaded(t)
    /\ Drop({t})
    /\ UNCHANGED <<kind, rows, clock, served, op, held, changed, recorded, stops>>

-----------------------------------------------------------------------------
InsertEvent(r) ==
    \/ recorded' = [recorded EXCEPT ![r] = "yes"] /\ UNCHANGED faults
    \/ recorded' = [recorded EXCEPT ![r] = "lost"] /\ Faulty

\* The middleware's goroutine inserts the audit event, whatever the response.
Record(r) ==
    /\ pc[r] = "record"
    /\ Goto(r, "done")
    /\ op' = [op EXCEPT ![r] = NoOp] /\ held' = [held EXCEPT ![r] = 0]
    /\ InsertEvent(r)
    /\ UNCHANGED <<kind, rows, clock, served, got, todo, behind, changed, stops>>

\* A pod restarts: what it was doing is lost; it loads before it serves.
Restart(p) ==
    /\ stops > 0
    /\ stops' = stops - 1
    /\ served' = [served EXCEPT ![p] = Empty]
    /\ pc' = [t \in Loaders |->
                IF Pod(t) # p \/ pc[t] \in {"start", "done"} THEN pc[t]
                ELSE IF t \in Requests THEN "done"
                ELSE IF Registered THEN "query" ELSE "wait"]
    /\ recorded' = [r \in Requests |->
                IF ServedBy[r] = p /\ pc[r] \notin {"start", "done"} THEN "lost" ELSE recorded[r]]
    /\ op' = [r \in Requests |-> IF Pod(r) = p /\ pc[r] # "start" THEN NoOp ELSE op[r]]
    /\ held' = [r \in Requests |-> IF Pod(r) = p THEN 0 ELSE held[r]]
    /\ Drop({t \in Loaders: Pod(t) = p})
    /\ UNCHANGED <<kind, rows, clock, changed, faults>>

Request(r) ==
    \/ Begin(r) \/ Refuse(r) \/ RestoreRedacted(r) \/ ReadGroup(r)
    \/ CreateAgent(r) \/ UpdateAgent(r) \/ DeleteAgent(r) \/ UpdatePermissions(r)
    \/ CreateMCPServer(r) \/ UpdateMCPServer(r) \/ DeleteMCPServer(r) \/ UpdateMCPPermissions(r)
    \/ CreateGroup(r) \/ UpdateGroup(r) \/ DeleteGroup(r) \/ UpdateGroupPermissions(r)
    \/ CreateSkill(r) \/ UpdateSkill(r) \/ DeleteSkill(r) \/ UpdateSkillPermissions(r)
    \/ ReplaceAPIKeyRules(r) \/ Log(r) \/ Record(r)

Load(t) ==
    \/ ListAgents(t) \/ ListServers(t) \/ Install(t) \/ LoadFails(t)
    \/ \E i \in Ids, c \in Columns: ReadColumn(t, i, c)

CatalogueNext ==
    \/ \E r \in Requests: Request(r)
    \/ \E t \in Loaders: Load(t)
    \/ \E p \in Servers: Tick(p) \/ Restart(p)

\* A started request goes on, a load ends (10 s), the ticker fires.
CatalogueFairness ==
    /\ \A r \in Requests: WF_adminVars(pc[r] # "start" /\ Request(r))
    /\ \A t \in Loaders: WF_adminVars(Load(t))
    /\ \A p \in Servers: WF_adminVars(Tick(p))

-----------------------------------------------------------------------------
\* A registry goes back to an older configuration, permission list or rule
\* list only by a load that overlapped another one: its list was read before
\* the last install (registry.go:56 reads outside the mutex).  No change of an
\* administrator is undone by the loads that begin after it was served.
OldOnlyByOverlap ==
    [][\A p \in Servers, i \in Ids:
         served[p][i] # Absent /\ served'[p][i] # Absent =>
           \/ \A c \in Columns \cup {"cfg"}:
                served'[p][i][c] >= served[p][i][c] \/ served'[p][i][c] = 0
           \/ \E t \in Loaders: Pod(t) = p /\ pc[t] = "columns" /\ behind[t]
      ]_adminVars

\* Every change is recorded in the end, also one whose request failed half
\* way; only a failing insert or a pod that stops loses the record
\* (docs/MCP.md:166).
ChangesRecorded == \A r \in Requests: changed[r] ~> recorded[r] # "no"

\* Whatever was read torn, late or cut short, the registries show the rows in
\* the end, once administrators leave them alone.
RegistriesConverge == Registered => \A p \in Servers: <>[](served[p] = rows)
=============================================================================
