--------------------------- MODULE SettingsProofs ---------------------------
(***************************************************************************)
(* Proofs about Settings for any number of pods and requests: a pod's      *)
(* values never go back, and a request that was answered lists what it     *)
(* saved.  Both rest on loadMu: whoever fetched rows and has not applied   *)
(* them holds it, so that nobody replaces the values in between.           *)
(*                                                                         *)
(* Then about Catalogue, whose registries have no such lock: a copy goes   *)
(* back only where loads of a pod overlap, for any finite set of requests, *)
(* and both of the two parts side by side.                                 *)
(***************************************************************************)
EXTENDS MCCatalogue, FiniteSetTheorems, TLAPS

LEMMA HomeIsPod == \A t \in Threads: Home(t) \in Pods
BY PodOfAssumption DEF Threads, Home

\* Every variable has a value of its type.
THEOREM SettingsTyped == SettingsSpec => []SettingsTypeOK
<1>1. SettingsInit => SettingsTypeOK
  BY BudgetAssumption DEF SettingsInit, SettingsTypeOK, Threads, SaverAt, TickerAt
<1>2. SettingsTypeOK /\ [SettingsNext]_settingsVars => SettingsTypeOK'
  <2> SUFFICES ASSUME SettingsTypeOK, [SettingsNext]_settingsVars PROVE SettingsTypeOK'
    OBVIOUS
  <2> USE HomeIsPod, BudgetAssumption
      DEF SettingsTypeOK, Move, CommandFails, SaverAt, TickerAt
  <2>1. ASSUME NEW s \in Savers, Reject(s) PROVE SettingsTypeOK'
    BY <2>1 DEF Reject
  <2>2. ASSUME NEW s \in Savers, SetMany(s) PROVE SettingsTypeOK'
    BY <2>2 DEF SetMany, Threads
  <2>3. ASSUME NEW s \in Savers, AuditChange(s) PROVE SettingsTypeOK'
    BY <2>3 DEF AuditChange
  <2>4. ASSUME NEW s \in Savers, ListSettings(s) PROVE SettingsTypeOK'
    <3>1. PodOf[s] \in Pods
      BY PodOfAssumption
    <3> QED BY <2>4, <3>1 DEF ListSettings
  <2>5. ASSUME NEW t \in Threads, LockLoad(t) PROVE SettingsTypeOK'
    BY <2>5 DEF LockLoad
  <2>6. ASSUME NEW t \in Threads, GetAll(t) PROVE SettingsTypeOK'
    BY <2>6 DEF GetAll
  <2>7. ASSUME NEW t \in Threads, ApplyValues(t) PROVE SettingsTypeOK'
    BY <2>7 DEF ApplyValues
  <2>8. ASSUME NEW p \in Pods, ReloadTick(p) PROVE SettingsTypeOK'
    BY <2>8 DEF ReloadTick
  <2>9. ASSUME NEW p \in Pods, RestartService(p) PROVE SettingsTypeOK'
    BY <2>9 DEF RestartService
  <2>10. CASE UNCHANGED settingsVars
    BY <2>10 DEF settingsVars
  <2> QED
    BY <2>1, <2>2, <2>3, <2>4, <2>5, <2>6, <2>7, <2>8, <2>9, <2>10
    DEF SettingsNext, Save, Reload
<1> QED BY <1>1, <1>2, PTL DEF SettingsSpec

-----------------------------------------------------------------------------
\* A thread between the lock and the replacement of the values is the one
\* that holds loadMu of its pod, and the only one.
LockHeld == \A t \in Threads: step[t] \in {"query", "apply"} <=> loadMu[Home(t)] = t

\* Nothing is newer than the table.
NoneNewer ==
    /\ \A p \in Pods: values[p] <= table
    /\ \A t \in Threads: fetched[t] <= table
    /\ \A s \in Savers: wrote[s] <= table

\* What is about to be applied is no older than what it replaces.
FetchedNewer == \A t \in Threads: step[t] = "apply" => values[Home(t)] <= fetched[t]

\* From its reload on, a request finds what it saved.
SavedKept ==
    \A s \in Savers:
        /\ step[s] = "apply" => wrote[s] <= fetched[s]
        /\ step[s] \in {"audit", "list"} => wrote[s] <= values[PodOf[s]]
        /\ step[s] = "ok" => wrote[s] <= listed[s]

SettingsInv == SettingsTypeOK /\ LockHeld /\ NoneNewer /\ FetchedNewer /\ SavedKept

THEOREM SettingsInvariant == SettingsSpec => []SettingsInv
<1>1. SettingsInit => SettingsInv
  <2> SUFFICES ASSUME SettingsInit PROVE SettingsInv
    OBVIOUS
  <2> USE HomeIsPod, PodOfAssumption, ThreadsAssumption, BudgetAssumption DEF SettingsInit, Threads
  <2>1. SettingsTypeOK
    BY DEF SettingsTypeOK, SaverAt, TickerAt
  <2>2. LockHeld
    BY DEF LockHeld
  <2>3. NoneNewer
    BY DEF NoneNewer
  <2>4. FetchedNewer /\ SavedKept
    BY DEF FetchedNewer, SavedKept
  <2> QED BY <2>1, <2>2, <2>3, <2>4 DEF SettingsInv
<1>2. SettingsTypeOK /\ SettingsTypeOK' /\ SettingsInv /\ [SettingsNext]_settingsVars
      => SettingsInv'
  <2> SUFFICES ASSUME SettingsTypeOK, SettingsTypeOK', SettingsInv,
                      [SettingsNext]_settingsVars
               PROVE  LockHeld' /\ NoneNewer' /\ FetchedNewer' /\ SavedKept'
    BY DEF SettingsInv
  <2> USE HomeIsPod, PodOfAssumption, ThreadsAssumption
      DEF SettingsInv, SettingsTypeOK, Move, CommandFails, LockHeld, NoneNewer, FetchedNewer,
          SavedKept
  <2>1. ASSUME NEW s \in Savers, Reject(s)
        PROVE LockHeld' /\ NoneNewer' /\ FetchedNewer' /\ SavedKept'
    BY <2>1 DEF Reject, Threads
  <2>2. ASSUME NEW s \in Savers, SetMany(s)
        PROVE LockHeld' /\ NoneNewer' /\ FetchedNewer' /\ SavedKept'
    <3>1. LockHeld'
      BY <2>2 DEF SetMany, Threads
    <3>2. NoneNewer'
      BY <2>2 DEF SetMany, Threads
    <3>3. FetchedNewer'
      BY <2>2 DEF SetMany, Threads
    <3>4. SavedKept'
      BY <2>2 DEF SetMany, Threads
    <3> QED BY <3>1, <3>2, <3>3, <3>4
  <2>3. ASSUME NEW s \in Savers, AuditChange(s)
        PROVE LockHeld' /\ NoneNewer' /\ FetchedNewer' /\ SavedKept'
    BY <2>3 DEF AuditChange, Threads
  <2>4. ASSUME NEW s \in Savers, ListSettings(s)
        PROVE LockHeld' /\ NoneNewer' /\ FetchedNewer' /\ SavedKept'
    BY <2>4 DEF ListSettings, Threads
  <2>5. ASSUME NEW t \in Threads, LockLoad(t)
        PROVE LockHeld' /\ NoneNewer' /\ FetchedNewer' /\ SavedKept'
    BY <2>5 DEF LockLoad, Threads
  <2>6. ASSUME NEW t \in Threads, GetAll(t)
        PROVE LockHeld' /\ NoneNewer' /\ FetchedNewer' /\ SavedKept'
    <3>1. LockHeld'
      BY <2>6 DEF GetAll, Threads
    <3>2. NoneNewer'
      BY <2>6 DEF GetAll, Threads
    <3>3. FetchedNewer'
      BY <2>6 DEF GetAll, Threads
    <3>4. SavedKept'
      BY <2>6 DEF GetAll, Threads
    <3> QED BY <3>1, <3>2, <3>3, <3>4
  <2>7. ASSUME NEW t \in Threads, ApplyValues(t)
        PROVE LockHeld' /\ NoneNewer' /\ FetchedNewer' /\ SavedKept'
    <3>1. LockHeld'
      BY <2>7 DEF ApplyValues, Threads
    <3>2. NoneNewer'
      BY <2>7 DEF ApplyValues, Threads
    <3>3. FetchedNewer'
      BY <2>7 DEF ApplyValues, Threads
    <3>4. SavedKept'
      <4>1. \A s \in Savers: Home(s) = PodOf[s]
        BY DEF Home
      <4>2. values[Home(t)] <= fetched[t] /\ values'[Home(t)] = fetched[t]
        BY <2>7 DEF ApplyValues
      <4> QED BY <2>7, <4>1, <4>2 DEF ApplyValues, Threads
    <3> QED BY <3>1, <3>2, <3>3, <3>4
  <2>8. ASSUME NEW p \in Pods, ReloadTick(p)
        PROVE LockHeld' /\ NoneNewer' /\ FetchedNewer' /\ SavedKept'
    BY <2>8 DEF ReloadTick, Threads, Home
  <2>9. ASSUME NEW p \in Pods, RestartService(p)
        PROVE LockHeld' /\ NoneNewer' /\ FetchedNewer' /\ SavedKept'
    BY <2>9 DEF RestartService, Threads, Home, SaverEnds
  <2>10. CASE UNCHANGED settingsVars
    BY <2>10 DEF settingsVars
  <2> QED
    BY <2>1, <2>2, <2>3, <2>4, <2>5, <2>6, <2>7, <2>8, <2>9, <2>10
    DEF SettingsNext, Save, Reload
<1> QED BY <1>1, <1>2, SettingsTyped, PTL DEF SettingsSpec

\* A 200 lists a table at least as new as the one the request committed
\* (UpdateSettings, ListSettings), for any number of pods and requests.
THEOREM SavedListed == SettingsSpec => []SavedIsListed
<1>1. SettingsInv => SavedIsListed
  BY DEF SettingsInv, SettingsTypeOK, SavedKept, SavedIsListed
<1> QED BY <1>1, SettingsInvariant, PTL

\* The settings implement Freshness: while its pod lives a pod's values are
\* only ever replaced by ones at least as new (Reload under loadMu).
THEOREM NeverGoesBack == SettingsSpec => NeverBack
<1>1. SettingsInit => View!FreshInit
  BY DEF SettingsInit, View!FreshInit
<1>2. SettingsInv /\ [SettingsNext]_settingsVars
      => [View!FreshNext]_<<table, values>>
  <2> SUFFICES ASSUME SettingsInv, [SettingsNext]_settingsVars
               PROVE  [View!FreshNext]_<<table, values>>
    OBVIOUS
  <2>1. ASSUME NEW s \in Savers, SetMany(s) PROVE View!Commit \/ UNCHANGED <<table, values>>
    BY <2>1 DEF SetMany, View!Commit
  <2>2. ASSUME NEW t \in Threads, ApplyValues(t) PROVE View!CatchUp(Home(t)) /\ Home(t) \in Pods
    <3>1. fetched[t] \in values[Home(t)] .. table
      BY <2>2, HomeIsPod
      DEF ApplyValues, SettingsInv, SettingsTypeOK, NoneNewer, FetchedNewer
    <3> QED BY <2>2, <3>1, HomeIsPod DEF ApplyValues, View!CatchUp
  <2>3. ASSUME NEW p \in Pods, RestartService(p) PROVE View!StartAgain(p)
    BY <2>3 DEF RestartService, View!StartAgain
  <2>4. ASSUME NEW s \in Savers, Reject(s) \/ AuditChange(s) \/ ListSettings(s)
        PROVE UNCHANGED <<table, values>>
    BY <2>4 DEF Reject, AuditChange, ListSettings
  <2>5. ASSUME NEW t \in Threads, LockLoad(t) \/ GetAll(t) PROVE UNCHANGED <<table, values>>
    BY <2>5 DEF LockLoad, GetAll
  <2>6. ASSUME NEW p \in Pods, ReloadTick(p) PROVE UNCHANGED <<table, values>>
    BY <2>6 DEF ReloadTick
  <2>7. CASE UNCHANGED settingsVars
    BY <2>7 DEF settingsVars
  <2> QED
    BY <2>1, <2>2, <2>3, <2>4, <2>5, <2>6, <2>7 DEF SettingsNext, Save, Reload, View!FreshNext
<1> QED BY <1>1, <1>2, SettingsInvariant, PTL DEF SettingsSpec, NeverBack, View!Freshness
-----------------------------------------------------------------------------
(* The registries of agents and MCP servers. *)

CatalogueSpec == CatalogueInit /\ [][CatalogueNext]_adminVars

\* A stamp is of a transaction that has been.
UpTo(n) == [cfg : 0 .. n, kept : (0 .. n) \cup {Masked},
            users : 0 .. n, groups : 0 .. n, rules : 0 .. n]
Copies(n) == [Ids -> UpTo(n) \cup {Absent}]
Places == {"start", "keep", "write", "rules", "log", "query", "columns",
           "install", "record", "done", "wait"}
CatalogueTyped ==
    /\ kind \in Kinds
    /\ clock \in Nat
    /\ rows \in Copies(clock)
    /\ served \in [Servers -> Copies(clock)]
    /\ pc \in [Loaders -> Places]
    /\ op \in [Requests -> Operations]
    /\ held \in [Requests -> (0 .. clock) \cup {Masked}]
    /\ got \in [Loaders -> Copies(clock)]
    /\ todo \in [Loaders -> SUBSET (Ids \X Columns)]
    /\ behind \in [Loaders -> BOOLEAN]
    /\ recorded \in [Requests -> {"no", "yes", "lost"}]

\* A column is read into a row that has been read.
RowFirst ==
    \A t \in Loaders, i \in Ids, c \in Columns : <<i, c>> \in todo[t] => got[t][i] \in UpTo(clock)

\* A copy is no newer than the rows; of two copies the one is no older than
\* the other, as far as it has been read.
Leq(a, b) == a.cfg <= b.cfg /\ a.users <= b.users /\ a.groups <= b.groups /\ a.rules <= b.rules
Since(a, b) ==
    /\ a.cfg <= b.cfg
    /\ b.users = 0 \/ a.users <= b.users
    /\ b.groups = 0 \/ a.groups <= b.groups
    /\ b.rules = 0 \/ a.rules <= b.rules
Reflects(copy) == \A i \in Ids : copy[i] # Absent /\ rows[i] # Absent => Leq(copy[i], rows[i])
CopiesReflect ==
    /\ \A p \in Servers : Reflects(served[p])
    /\ \A t \in Loaders : Reflects(got[t])

\* A load that no other one overtook replaces a copy by one no older.
LoadsNewer ==
    \A t \in Loaders : pc[t] = "columns" /\ ~behind[t] =>
        \A i \in Ids : got[t][i] # Absent /\ served[Pod(t)][i] # Absent =>
            Since(served[Pod(t)][i], got[t][i])

\* A request has two transactions at most.
Firsts == {r \in Requests : pc[r] \in {"start", "keep", "write"}}
Seconds == {r \in Requests : pc[r] \in {"start", "keep", "write", "rules"}}
StampsLeft == clock + Cardinality(Firsts) + Cardinality(Seconds) <= 2 * Cardinality(Requests) + 1

CatalogueInv == CatalogueTyped /\ RowFirst /\ CopiesReflect /\ LoadsNewer /\ StampsLeft

LEMMA PodIsServer == \A t \in Loaders : Pod(t) \in Servers
BY ServedByAssumption DEF Loaders, Pod

LEMMA StampsGrow ==
  ASSUME NEW n \in Nat
  PROVE  UpTo(n) \subseteq UpTo(n + 1) /\ Copies(n) \subseteq Copies(n + 1)
<1>1. 0 .. n \subseteq 0 .. n + 1
  OBVIOUS
<1>2. UpTo(n) \subseteq UpTo(n + 1)
  BY <1>1 DEF UpTo
<1> QED BY <1>2 DEF Copies

-----------------------------------------------------------------------------
\* What a step of a request is to the rows.  What was no newer than the row it
\* writes, or anything if there was none, is no newer than what it puts there.
Supersedes(r, row) ==
    \/ row = Absent
    \/ /\ row \in UpTo(clock + 1)
       /\ \A a \in UpTo(clock) : Here(r) = Absent \/ Leq(a, Here(r)) => Leq(a, row)
Writes(r) ==
    /\ clock' = clock + 1
    /\ \E row : rows' = [rows EXCEPT ![Id(r)] = row] /\ Supersedes(r, row)
Early == {"start", "keep", "write"}
Proceeds(r, x) ==
    \/ /\ UNCHANGED <<rows, clock>>
       /\ held' \in [Requests -> (0 .. clock) \cup {Masked}]
       /\ x \in Early => pc[r] \in Early
       /\ x # "rules"
    \/ /\ Writes(r) /\ UNCHANGED held /\ x \notin Early
       /\ pc[r] = "write" \/ (pc[r] = "rules" /\ x # "rules")
RequestStep(r) ==
    /\ pc[r] # "columns"
    /\ UNCHANGED <<kind, served, got, todo, behind>>
    /\ op' \in [Requests -> Operations]
    /\ recorded' \in [Requests -> {"no", "yes", "lost"}]
    /\ \E x \in Places \ {"columns"} : pc' = [pc EXCEPT ![r] = x] /\ Proceeds(r, x)

LEMMA FreshSupersedes ==
  ASSUME CatalogueTyped, NEW r \in Requests
  PROVE  Supersedes(r, Fresh(Stamp))
<1>1. clock \in Nat
  BY DEF CatalogueTyped
<1> QED BY <1>1 DEF Supersedes, Fresh, Stamp, UpTo, Leq

LEMMA HereTyped ==
  ASSUME CatalogueTyped, NEW r \in Requests
  PROVE  /\ Id(r) \in Ids /\ clock \in Nat
         /\ Here(r) # Absent => Here(r) \in UpTo(clock)
         /\ Kept(r) \in (0 .. clock + 1) \cup {Masked}
<1>1. Id(r) \in Ids /\ clock \in Nat /\ held[r] \in (0 .. clock) \cup {Masked}
  BY DEF CatalogueTyped, Operations, Id
<1>2. Here(r) # Absent => Here(r) \in UpTo(clock)
  BY <1>1 DEF CatalogueTyped, Here, Copies
<1>3. Kept(r) \in (0 .. clock + 1) \cup {Masked}
  BY <1>1 DEF Kept, Stamp
<1> QED BY <1>1, <1>2, <1>3

LEMMA ColumnsChanged ==
  ASSUME NEW A, NEW B, NEW m \in A, NEW k \in B,
         NEW old \in [cfg : A, kept : B, users : A, groups : A, rules : A]
  PROVE  /\ [old EXCEPT !.cfg = m, !.kept = k] \in [cfg : A, kept : B, users : A, groups : A, rules : A]
         /\ [old EXCEPT !.users = m, !.groups = m]
              \in [cfg : A, kept : B, users : A, groups : A, rules : A]
         /\ [old EXCEPT !.cfg = m, !.kept = k, !.users = m, !.groups = m]
              \in [cfg : A, kept : B, users : A, groups : A, rules : A]
         /\ [old EXCEPT !.rules = m] \in [cfg : A, kept : B, users : A, groups : A, rules : A]
         /\ [old EXCEPT !.users = m, !.groups = m, !.rules = m]
              \in [cfg : A, kept : B, users : A, groups : A, rules : A]
OBVIOUS

LEMMA RowIsThere == \A n \in Nat : Absent \notin UpTo(n)
<1>1. \A n \in Nat : UpTo(n) \subseteq [cfg: Nat, kept: Nat \cup {Masked}, users: Nat, groups: Nat, rules: Nat]
  BY DEF UpTo
<1> QED BY <1>1, AbsentAssumption

\* A column that is written gets a stamp newer than all.
LEMMA ChangeSupersedes ==
  ASSUME CatalogueTyped, NEW r \in Requests, Here(r) # Absent
  PROVE  /\ Supersedes(r, [Here(r) EXCEPT !.cfg = Stamp, !.kept = Kept(r)])
         /\ Supersedes(r, [Here(r) EXCEPT !.users = Stamp, !.groups = Stamp])
         /\ Supersedes(r, [Here(r) EXCEPT !.cfg = Stamp, !.kept = Kept(r), !.users = Stamp,
                                          !.groups = Stamp])
         /\ Supersedes(r, [Here(r) EXCEPT !.rules = Stamp])
<1> DEFINE old == Here(r)
<1>1. old \in UpTo(clock) /\ clock \in Nat /\ Stamp = clock + 1 /\ old = Here(r) /\ old # Absent
  BY HereTyped DEF Stamp
<1>2. PICK kept : kept = Kept(r) /\ kept \in (0 .. clock + 1) \cup {Masked}
  BY HereTyped
<1> HIDE DEF old
<1>8. PICK m : m = clock + 1 /\ m = Stamp /\ m \in 0 .. m
  BY <1>1
<1>9. old \in UpTo(m) /\ kept \in (0 .. m) \cup {Masked}
  BY <1>1, <1>2, <1>8, StampsGrow
<1>3. [old EXCEPT !.cfg = m, !.kept = kept] \in UpTo(m)
  BY <1>8, <1>9, ColumnsChanged DEF UpTo
<1>4. [old EXCEPT !.users = m, !.groups = m] \in UpTo(m)
  BY <1>8, <1>9, ColumnsChanged DEF UpTo
<1>5. [old EXCEPT !.cfg = m, !.kept = kept, !.users = m, !.groups = m] \in UpTo(m)
  BY <1>8, <1>9, ColumnsChanged DEF UpTo
<1>6. [old EXCEPT !.rules = m] \in UpTo(m)
  BY <1>8, <1>9, ColumnsChanged DEF UpTo
<1>7. ASSUME NEW a \in UpTo(clock), Leq(a, old)
      PROVE  /\ Leq(a, [old EXCEPT !.cfg = Stamp, !.kept = kept])
             /\ Leq(a, [old EXCEPT !.users = Stamp, !.groups = Stamp])
             /\ Leq(a, [old EXCEPT !.cfg = Stamp, !.kept = kept, !.users = Stamp, !.groups = Stamp])
             /\ Leq(a, [old EXCEPT !.rules = Stamp])
  BY <1>1, <1>7 DEF UpTo, Leq
<1> QED BY <1>1, <1>2, <1>8, <1>3, <1>4, <1>5, <1>6, <1>7 DEF Supersedes

\* The transactions.
LEMMA PutSteps ==
  ASSUME CatalogueTyped, NEW r \in Requests, NEW row, NEW x \in Places \ {"columns"},
         Supersedes(r, row), Put(r, row), Goto(r, x), x \notin Early,
         pc[r] = "write" \/ (pc[r] = "rules" /\ x # "rules"),
         UNCHANGED <<kind, served, threadVars, recorded, stops>>
  PROVE  RequestStep(r)
BY DEF CatalogueTyped, Put, Goto, threadVars, RequestStep, Proceeds, Writes

LEMMA NoEffectSteps ==
  ASSUME CatalogueTyped, NEW r \in Requests, NEW x \in Places \ {"columns", "rules"},
         x \in Early => pc[r] \in Early, pc[r] # "columns", Goto(r, x),
         UNCHANGED <<kind, rows, clock, served, threadVars, recorded>>
  PROVE  RequestStep(r)
BY DEF CatalogueTyped, Goto, threadVars, RequestStep, Proceeds

LEMMA TransactionSteps ==
  ASSUME CatalogueTyped, NEW r \in Requests, NEW row, NEW next \in {"log", "rules"},
         Supersedes(r, row), pc[r] = "write" \/ (pc[r] = "rules" /\ next # "rules"),
         Transaction(r, row, next)
  PROVE  RequestStep(r)
<1>1. CASE Put(r, row) /\ Goto(r, next)
  BY <1>1, PutSteps DEF Transaction, Places, Early
<1>2. CASE Put(r, row) /\ Goto(r, "record")
  BY <1>2, PutSteps DEF Transaction, Places, Early
<1>3. CASE Goto(r, "record") /\ UNCHANGED <<rows, clock>>
  BY <1>3, NoEffectSteps DEF Transaction, Places, Early
<1> QED BY <1>1, <1>2, <1>3 DEF Transaction, Answer

LEMMA GivesUpSteps ==
  ASSUME CatalogueTyped, NEW r \in Requests, pc[r] # "columns",
         NotFound(r) \/ NoEffect(r, "log")
  PROVE  RequestStep(r)
BY NoEffectSteps DEF NotFound, NoEffect, Answer, Places, Early

LEMMA WriteSteps ==
  ASSUME CatalogueTyped, NEW r \in Requests, pc[r] = "write",
         \/ Insert(r) \/ Remove(r) \/ Permit(r)
         \/ AgentUpdate(r) \/ ServerUpdate(r) \/ GroupUpdate(r) \/ SkillUpdate(r)
  PROVE  RequestStep(r)
<1>0. pc[r] # "columns" /\ AfterUpdate(r) \in {"log", "rules"}
  BY DEF AfterUpdate
<1>1. CASE NotFound(r) \/ NoEffect(r, "log")
  BY <1>0, <1>1, GivesUpSteps
<1>2. CASE Transaction(r, Fresh(Stamp), "log")
  BY <1>2, FreshSupersedes, TransactionSteps
<1>3. CASE Transaction(r, Absent, "log")
  BY <1>3, TransactionSteps DEF Supersedes
<1>4. CASE /\ Here(r) # Absent
           /\ Transaction(r, [Here(r) EXCEPT !.users = Stamp, !.groups = Stamp], "log")
  BY <1>4, ChangeSupersedes, TransactionSteps
<1>5. CASE /\ Here(r) # Absent
           /\ \/ Transaction(r, [Here(r) EXCEPT !.cfg = Stamp, !.kept = Kept(r)], AfterUpdate(r))
              \/ Transaction(r, [Here(r) EXCEPT !.cfg = Stamp, !.kept = Kept(r)], "log")
  BY <1>0, <1>5, ChangeSupersedes, TransactionSteps
<1>6. CASE /\ Here(r) # Absent
           /\ Transaction(r, [Here(r) EXCEPT !.cfg = Stamp, !.kept = Kept(r), !.users = Stamp,
                                             !.groups = Stamp], AfterUpdate(r))
  BY <1>0, <1>6, ChangeSupersedes, TransactionSteps
<1> QED BY <1>1, <1>2, <1>3, <1>4, <1>5, <1>6
    DEF Insert, Remove, Permit, AgentUpdate, ServerUpdate, GroupUpdate, SkillUpdate, Replace

LEMMA RequestSteps ==
  ASSUME CatalogueTyped, NEW r \in Requests, Request(r)
  PROVE  RequestStep(r)
<1>1. CASE Begin(r)
  <2>1. PICK o \in Operations : /\ op' = [op EXCEPT ![r] = o]
                                /\ Goto(r, IF o.keeps THEN "keep" ELSE "write")
    BY <1>1 DEF Begin
  <2>2. op' \in [Requests -> Operations]
    BY <2>1 DEF CatalogueTyped
  <2>3. PICK x \in {"keep", "write"} : pc' = [pc EXCEPT ![r] = x]
    BY <2>1 DEF Goto
  <2> QED BY <1>1, <2>2, <2>3 DEF Begin, CatalogueTyped, RequestStep, Proceeds, Places, Early
<1>2. CASE Refuse(r)
  BY <1>2, NoEffectSteps DEF Refuse, Answer, Places, Early
<1>3. CASE RestoreRedacted(r) \/ ReadGroup(r)
  <2>1. Here(r) # Absent => Here(r).kept \in (0 .. clock) \cup {Masked}
    BY HereTyped DEF UpTo
  <2>2. held' \in [Requests -> (0 .. clock) \cup {Masked}]
    BY <1>3, <2>1 DEF RestoreRedacted, ReadGroup, CatalogueTyped
  <2>3. PICK x \in {"write", "record"} : pc' = [pc EXCEPT ![r] = x]
    BY <1>3 DEF RestoreRedacted, ReadGroup, Goto, Answer
  <2> QED BY <1>3, <2>2, <2>3 DEF RestoreRedacted, ReadGroup, CatalogueTyped, RequestStep, Proceeds,
          Places, Early
<1>4. CASE \/ CreateAgent(r) \/ UpdateAgent(r) \/ DeleteAgent(r) \/ UpdatePermissions(r)
           \/ CreateMCPServer(r) \/ UpdateMCPServer(r) \/ DeleteMCPServer(r) \/ UpdateMCPPermissions(r)
           \/ CreateGroup(r) \/ UpdateGroup(r) \/ DeleteGroup(r) \/ UpdateGroupPermissions(r)
           \/ CreateSkill(r) \/ UpdateSkill(r) \/ DeleteSkill(r) \/ UpdateSkillPermissions(r)
  <2>1. /\ pc[r] = "write"
        /\ \/ Insert(r) \/ Remove(r) \/ Permit(r)
           \/ AgentUpdate(r) \/ ServerUpdate(r) \/ GroupUpdate(r) \/ SkillUpdate(r)
    BY <1>4 DEF Asks, CreateAgent, UpdateAgent, DeleteAgent, UpdatePermissions, CreateMCPServer,
         UpdateMCPServer, DeleteMCPServer, UpdateMCPPermissions, CreateGroup, UpdateGroup,
         DeleteGroup, UpdateGroupPermissions, CreateSkill, UpdateSkill, DeleteSkill,
         UpdateSkillPermissions, AgentCreate, AgentDelete, AgentPermissions, ServerCreate,
         ServerDelete, ServerPermissions, GroupCreate, GroupDelete, GroupPermissions, SkillCreate,
         SkillDelete, SkillPermissions
  <2> QED BY <2>1, WriteSteps
<1>5. CASE ReplaceAPIKeyRules(r)
  <2>1. pc[r] = "rules"
    BY <1>5 DEF ReplaceAPIKeyRules
  <2>2. CASE NotFound(r) \/ NoEffect(r, "log")
    BY <2>1, <2>2, GivesUpSteps
  <2>3. CASE Here(r) # Absent /\ Transaction(r, [Here(r) EXCEPT !.rules = Stamp], "log")
    BY <2>1, <2>3, ChangeSupersedes, TransactionSteps
  <2> QED BY <1>5, <2>2, <2>3 DEF ReplaceAPIKeyRules
<1>6. CASE Log(r)
  BY <1>6, NoEffectSteps DEF Log, Answer, Places, Early
<1>7. CASE Record(r)
  <2>1. NoOp \in Operations
    BY IdsAssumption DEF NoOp, Operations
  <2>2. op' \in [Requests -> Operations] /\ held' \in [Requests -> (0 .. clock) \cup {Masked}]
    BY <1>7, <2>1 DEF Record, CatalogueTyped
  <2>3. recorded' \in [Requests -> {"no", "yes", "lost"}]
    BY <1>7 DEF Record, InsertEvent, CatalogueTyped
  <2>4. pc' = [pc EXCEPT ![r] = "done"] /\ "done" \in Places \ {"columns"} /\ Proceeds(r, "done")
    BY <1>7, <2>2 DEF Record, Goto, Proceeds, Places, Early
  <2>5. pc[r] # "columns" /\ UNCHANGED <<kind, served, got, todo, behind>>
    BY <1>7 DEF Record
  <2> QED BY <2>2, <2>3, <2>4, <2>5 DEF RequestStep
<1> QED BY <1>1, <1>2, <1>3, <1>4, <1>5, <1>6, <1>7 DEF Request

-----------------------------------------------------------------------------
(* Every step preserves the invariant.  First the count of transactions.    *)

LEMMA NoMoreLeft ==
  ASSUME CatalogueInv, UNCHANGED clock, Firsts' \subseteq Firsts, Seconds' \subseteq Seconds
  PROVE  StampsLeft'
<1>1. IsFiniteSet(Firsts) /\ IsFiniteSet(Seconds) /\ IsFiniteSet(Requests)
  BY RequestsAssumption, FS_Subset DEF Firsts, Seconds
<1>2. IsFiniteSet(Firsts') /\ Cardinality(Firsts') <= Cardinality(Firsts)
  BY <1>1, FS_Subset
<1>3. IsFiniteSet(Seconds') /\ Cardinality(Seconds') <= Cardinality(Seconds)
  BY <1>1, FS_Subset
<1>4. /\ Cardinality(Firsts) \in Nat /\ Cardinality(Seconds) \in Nat /\ Cardinality(Requests) \in Nat
      /\ Cardinality(Firsts') \in Nat /\ Cardinality(Seconds') \in Nat /\ clock \in Nat
  BY <1>1, <1>2, <1>3, FS_CardinalityType DEF CatalogueInv, CatalogueTyped
<1> QED BY <1>2, <1>3, <1>4 DEF CatalogueInv, StampsLeft

LEMMA OneLessLeft ==
  ASSUME CatalogueInv, NEW r \in Requests, clock' = clock + 1,
         \/ r \in Firsts /\ Firsts' \subseteq Firsts \ {r} /\ Seconds' \subseteq Seconds
         \/ r \in Seconds /\ Firsts' \subseteq Firsts /\ Seconds' \subseteq Seconds \ {r}
  PROVE  StampsLeft'
<1>1. IsFiniteSet(Firsts) /\ IsFiniteSet(Seconds) /\ IsFiniteSet(Requests)
  BY RequestsAssumption, FS_Subset DEF Firsts, Seconds
<1>2. /\ Cardinality(Firsts) \in Nat /\ Cardinality(Seconds) \in Nat /\ Cardinality(Requests) \in Nat
      /\ clock \in Nat
  BY <1>1, FS_CardinalityType DEF CatalogueInv, CatalogueTyped
<1>3. /\ IsFiniteSet(Firsts') /\ Cardinality(Firsts') <= Cardinality(Firsts)
      /\ IsFiniteSet(Seconds') /\ Cardinality(Seconds') <= Cardinality(Seconds)
  <2>1. Firsts' \subseteq Firsts /\ Seconds' \subseteq Seconds
    OBVIOUS
  <2> QED BY <1>1, <2>1, FS_Subset
<1>4. Cardinality(Firsts') \in Nat /\ Cardinality(Seconds') \in Nat
  BY <1>3, FS_CardinalityType
<1>5. CASE r \in Firsts /\ Firsts' \subseteq Firsts \ {r}
  <2>1. IsFiniteSet(Firsts \ {r}) /\ Cardinality(Firsts \ {r}) = Cardinality(Firsts) - 1
    BY <1>1, <1>5, FS_RemoveElement
  <2>2. Cardinality(Firsts') <= Cardinality(Firsts \ {r})
    BY <1>5, <2>1, FS_Subset
  <2> QED BY <1>2, <1>3, <1>4, <2>1, <2>2 DEF CatalogueInv, StampsLeft
<1>6. CASE r \in Seconds /\ Seconds' \subseteq Seconds \ {r}
  <2>1. IsFiniteSet(Seconds \ {r}) /\ Cardinality(Seconds \ {r}) = Cardinality(Seconds) - 1
    BY <1>1, <1>6, FS_RemoveElement
  <2>2. Cardinality(Seconds') <= Cardinality(Seconds \ {r})
    BY <1>6, <2>1, FS_Subset
  <2> QED BY <1>2, <1>3, <1>4, <2>1, <2>2 DEF CatalogueInv, StampsLeft
<1> QED BY <1>5, <1>6

\* A request changes the rows or nothing that is copied from them.
LEMMA RequestKeeps ==
  ASSUME CatalogueInv, NEW r \in Requests, RequestStep(r)
  PROVE  CatalogueInv'
<1>1. PICK x \in Places \ {"columns"} : pc' = [pc EXCEPT ![r] = x] /\ Proceeds(r, x)
  BY DEF RequestStep
<1>2. /\ pc[r] # "columns" /\ UNCHANGED <<kind, served, got, todo, behind>>
      /\ op' \in [Requests -> Operations] /\ recorded' \in [Requests -> {"no", "yes", "lost"}]
  BY DEF RequestStep
<1>3. CatalogueTyped /\ RowFirst /\ CopiesReflect /\ LoadsNewer /\ StampsLeft /\ r \in Loaders
  BY DEF CatalogueInv, Loaders
<1>4. /\ pc' \in [Loaders -> Places]
      /\ \A t \in Loaders : pc'[t] = (IF t = r THEN x ELSE pc[t])
  BY <1>1, <1>3 DEF CatalogueTyped
<1>5. LoadsNewer'
  BY <1>2, <1>3, <1>4 DEF LoadsNewer
<1>6. CASE UNCHANGED <<rows, clock>> /\ held' \in [Requests -> (0 .. clock) \cup {Masked}]
           /\ (x \in Early => pc[r] \in Early) /\ x # "rules"
  <2>1. CatalogueTyped'
    BY <1>2, <1>3, <1>4, <1>6 DEF CatalogueTyped
  <2>2. RowFirst'
    BY <1>2, <1>3, <1>6 DEF RowFirst
  <2>3. CopiesReflect'
    BY <1>2, <1>3, <1>6 DEF CopiesReflect, Reflects
  <2>4. Firsts' \subseteq Firsts /\ Seconds' \subseteq Seconds
    BY <1>4, <1>6 DEF Firsts, Seconds, Early, Loaders
  <2>5. StampsLeft'
    BY <1>6, <2>4, NoMoreLeft
  <2> QED BY <1>5, <2>1, <2>2, <2>3, <2>5 DEF CatalogueInv
<1>7. CASE Writes(r) /\ UNCHANGED held /\ x \notin Early
           /\ (pc[r] = "write" \/ (pc[r] = "rules" /\ x # "rules"))
  <2>1. PICK row : rows' = [rows EXCEPT ![Id(r)] = row] /\ Supersedes(r, row)
    BY <1>7 DEF Writes
  <2>2. clock \in Nat /\ clock' = clock + 1 /\ Id(r) \in Ids
    BY <1>3, <1>7, HereTyped DEF Writes
  <2>3. UpTo(clock) \subseteq UpTo(clock') /\ Copies(clock) \subseteq Copies(clock')
    BY <2>2, StampsGrow
  <2>4. rows' \in Copies(clock')
    BY <1>3, <2>1, <2>2, <2>3 DEF CatalogueTyped, Copies, Supersedes
  <2>5. held' \in [Requests -> (0 .. clock') \cup {Masked}]
    BY <1>3, <1>7, <2>2 DEF CatalogueTyped
  <2>6. served' \in [Servers -> Copies(clock')] /\ got' \in [Loaders -> Copies(clock')]
    BY <1>2, <1>3, <2>3 DEF CatalogueTyped
  <2>7. CatalogueTyped'
    BY <1>2, <1>3, <1>4, <2>2, <2>4, <2>5, <2>6 DEF CatalogueTyped
  <2>8. RowFirst'
    BY <1>2, <1>3, <2>3 DEF RowFirst
  <2>9. ASSUME NEW copy \in Copies(clock), Reflects(copy), NEW i \in Ids,
               copy[i] # Absent, rows'[i] # Absent
        PROVE  Leq(copy[i], rows'[i])
    <3>1. copy[i] \in UpTo(clock)
      BY <2>9 DEF Copies
    <3>2. CASE i # Id(r)
      BY <1>3, <2>1, <2>9, <3>2 DEF Reflects, CatalogueTyped, Copies
    <3>3. CASE i = Id(r)
      <4>1. rows'[i] = row /\ Here(r) = rows[i]
        BY <1>3, <2>1, <2>2, <3>3 DEF CatalogueTyped, Copies, Here
      <4>2. Here(r) = Absent \/ Leq(copy[i], Here(r))
        BY <2>9, <4>1 DEF Reflects
      <4> QED BY <2>1, <2>9, <3>1, <4>1, <4>2 DEF Supersedes
    <3> QED BY <3>2, <3>3
  <2>10. CopiesReflect'
    <3>1. \A p \in Servers : served[p] \in Copies(clock) /\ Reflects(served[p])
      BY <1>3 DEF CatalogueTyped, CopiesReflect
    <3>2. \A t \in Loaders : got[t] \in Copies(clock) /\ Reflects(got[t])
      BY <1>3 DEF CatalogueTyped, CopiesReflect
    <3> QED BY <1>2, <2>9, <3>1, <3>2 DEF CopiesReflect, Reflects
  <2>11. StampsLeft'
    <3>1. \/ r \in Firsts /\ Firsts' \subseteq Firsts \ {r} /\ Seconds' \subseteq Seconds
          \/ r \in Seconds /\ Firsts' \subseteq Firsts /\ Seconds' \subseteq Seconds \ {r}
      BY <1>4, <1>7 DEF Firsts, Seconds, Early, Loaders
    <3> QED BY <2>2, <3>1, OneLessLeft
  <2> QED BY <1>5, <2>7, <2>8, <2>10, <2>11 DEF CatalogueInv
<1> QED BY <1>1, <1>6, <1>7 DEF Proceeds

-----------------------------------------------------------------------------
(* The steps of a load.                                                     *)

\* What a step that leaves the rows and their registries alone has to show.
LEMMA LoadKeeps ==
  ASSUME CatalogueInv, NEW t \in Loaders, NEW x \in Places,
         UNCHANGED <<kind, rows, clock, served, op, held, recorded>>,
         x \in {"start", "keep", "write", "rules"} => pc[t] = x,
         pc' = [pc EXCEPT ![t] = x],
         got' \in [Loaders -> Copies(clock)],
         todo' \in [Loaders -> SUBSET (Ids \X Columns)],
         behind' \in [Loaders -> BOOLEAN],
         \A u \in Loaders \ {t} : got'[u] = got[u] /\ todo'[u] = todo[u] /\ behind'[u] = behind[u],
         \A i \in Ids, c \in Columns : <<i, c>> \in todo'[t] => got'[t][i] \in UpTo(clock),
         Reflects(got'[t]),
         x = "columns" /\ ~behind'[t] =>
            \A i \in Ids : got'[t][i] # Absent /\ served[Pod(t)][i] # Absent =>
                Since(served[Pod(t)][i], got'[t][i])
  PROVE  CatalogueInv'
<1>1. CatalogueTyped /\ RowFirst /\ CopiesReflect /\ LoadsNewer
  BY DEF CatalogueInv
<1>2. /\ pc' \in [Loaders -> Places]
      /\ \A u \in Loaders : pc'[u] = (IF u = t THEN x ELSE pc[u])
  BY <1>1 DEF CatalogueTyped
<1>3. CatalogueTyped'
  BY <1>1, <1>2 DEF CatalogueTyped
<1>4. RowFirst'
  BY <1>1 DEF RowFirst
<1>5. CopiesReflect'
  BY <1>1 DEF CopiesReflect, Reflects
<1>6. LoadsNewer'
  BY <1>1, <1>2 DEF LoadsNewer, Pod
<1>7. Firsts' \subseteq Firsts /\ Seconds' \subseteq Seconds
  BY <1>2 DEF Firsts, Seconds, Loaders
<1>8. StampsLeft'
  BY <1>7, NoMoreLeft
<1> QED BY <1>3, <1>4, <1>5, <1>6, <1>8 DEF CatalogueInv

\* What List returns of a resource: its columns are not read yet.
LEMMA Unread ==
  ASSUME NEW n \in Nat, NEW row \in UpTo(n)
  PROVE  /\ [row EXCEPT !.users = 0, !.groups = 0, !.rules = 0] \in UpTo(n)
         /\ Leq([row EXCEPT !.users = 0, !.groups = 0, !.rules = 0], row)
         /\ \A a \in UpTo(n) : Leq(a, row) =>
              Since(a, [row EXCEPT !.users = 0, !.groups = 0, !.rules = 0])
<1> DEFINE new == [row EXCEPT !.users = 0, !.groups = 0, !.rules = 0]
<1>1. new.cfg = row.cfg /\ new.users = 0 /\ new.groups = 0 /\ new.rules = 0
  BY DEF UpTo
<1>2. new \in UpTo(n)
  <2>1. PICK m : m = 0 /\ m \in 0 .. n
    OBVIOUS
  <2> QED BY <2>1, ColumnsChanged DEF UpTo
<1> HIDE DEF new
<1>3. Leq(new, row) /\ (\A a \in UpTo(n) : Leq(a, row) => Since(a, new))
  BY <1>1 DEF Leq, Since, UpTo
<1> QED BY <1>2, <1>3 DEF new

LEMMA ListKeeps ==
  ASSUME CatalogueInv, NEW t \in Loaders, ListRows(t)
  PROVE  CatalogueInv'
<1>1. CatalogueTyped /\ CopiesReflect /\ clock \in Nat /\ rows \in Copies(clock)
  BY DEF CatalogueInv, CatalogueTyped
<1> DEFINE Listed(i) == [rows[i] EXCEPT !.users = 0, !.groups = 0, !.rules = 0]
           Result(s) == [i \in Ids |-> IF i \notin s \/ rows[i] = Absent THEN Absent ELSE Listed(i)]
           Left(s) == {i \in s : rows[i] # Absent} \X Columns
<1>2. PICK seen \in SUBSET Ids : got' = [got EXCEPT ![t] = Result(seen)]
                                 /\ todo' = [todo EXCEPT ![t] = Left(seen)]
  BY DEF ListRows
<1>3. \A i \in Ids : rows[i] # Absent =>
        /\ rows[i] \in UpTo(clock)
        /\ Listed(i) \in UpTo(clock) /\ Leq(Listed(i), rows[i])
        /\ \A a \in UpTo(clock) : Leq(a, rows[i]) => Since(a, Listed(i))
  BY <1>1, Unread DEF Copies
<1> HIDE DEF Listed
<1>4. Result(seen) \in Copies(clock)
  BY <1>3 DEF Copies
<1>5. \A i \in Ids : Result(seen)[i] = IF i \notin seen \/ rows[i] = Absent THEN Absent ELSE Listed(i)
  OBVIOUS
<1> HIDE DEF Result
<1>6. Left(seen) \subseteq Ids \X Columns
      /\ \A i, c : <<i, c>> \in Left(seen) => i \in seen /\ rows[i] # Absent
  OBVIOUS
<1> HIDE DEF Left
<1>7. /\ got' \in [Loaders -> Copies(clock)] /\ todo' \in [Loaders -> SUBSET (Ids \X Columns)]
      /\ got'[t] = Result(seen) /\ todo'[t] = Left(seen)
      /\ \A u \in Loaders \ {t} : got'[u] = got[u] /\ todo'[u] = todo[u]
  BY <1>1, <1>2, <1>4, <1>6 DEF CatalogueTyped
<1>8. /\ behind' \in [Loaders -> BOOLEAN]
      /\ \A u \in Loaders \ {t} : behind'[u] = behind[u]
  BY <1>1 DEF ListRows, CatalogueTyped
<1>9. \A i \in Ids, c \in Columns : <<i, c>> \in todo'[t] => got'[t][i] \in UpTo(clock)
  BY <1>3, <1>5, <1>6, <1>7
<1>10. Reflects(got'[t])
  BY <1>3, <1>5, <1>7 DEF Reflects
<1>11. \A i \in Ids : got'[t][i] # Absent /\ served[Pod(t)][i] # Absent =>
         Since(served[Pod(t)][i], got'[t][i])
  <2> SUFFICES ASSUME NEW i \in Ids, got'[t][i] # Absent, served[Pod(t)][i] # Absent
               PROVE  Since(served[Pod(t)][i], got'[t][i])
    OBVIOUS
  <2>1. got'[t][i] = Listed(i) /\ rows[i] # Absent
    BY <1>5, <1>7
  <2>2. served[Pod(t)][i] \in UpTo(clock) /\ Leq(served[Pod(t)][i], rows[i])
    BY <1>1, <2>1, PodIsServer DEF CatalogueTyped, Copies, CopiesReflect, Reflects
  <2> QED BY <1>3, <2>1, <2>2
<1>12. /\ UNCHANGED <<kind, rows, clock, served, op, held, recorded>>
       /\ pc' = [pc EXCEPT ![t] = "columns"] /\ "columns" \in Places
  BY DEF ListRows, Goto, Places
<1> QED BY <1>7, <1>8, <1>9, <1>10, <1>11, <1>12, LoadKeeps

\* A column read now is that of the row now.
LEMMA ColumnRead ==
  ASSUME NEW n \in Nat, NEW c \in Columns, NEW v \in 0 .. n, NEW old \in UpTo(n)
  PROVE  LET new == [old EXCEPT ![c] = v] IN
         /\ new \in UpTo(n)
         /\ \A row \in UpTo(n) : Leq(old, row) /\ v = row[c] => Leq(new, row)
         /\ \A a \in UpTo(n) : Since(a, old) /\ (v = 0 \/ a[c] <= v) => Since(a, new)
<1> DEFINE new == [old EXCEPT ![c] = v]
<1>1. new \in UpTo(n)
  BY DEF UpTo, Columns
<1>2. CASE c = "users"
  <2>1. new.cfg = old.cfg /\ new.users = v /\ new.groups = old.groups /\ new.rules = old.rules
    BY <1>2 DEF UpTo
  <2> HIDE DEF new
  <2>2. /\ \A row \in UpTo(n) : Leq(old, row) /\ v = row.users => Leq(new, row)
        /\ \A a \in UpTo(n) : Since(a, old) /\ (v = 0 \/ a.users <= v) => Since(a, new)
    BY <2>1 DEF UpTo, Leq, Since
  <2> QED BY <1>1, <1>2, <2>2 DEF new
<1>3. CASE c = "groups"
  <2>1. new.cfg = old.cfg /\ new.users = old.users /\ new.groups = v /\ new.rules = old.rules
    BY <1>3 DEF UpTo
  <2> HIDE DEF new
  <2>2. /\ \A row \in UpTo(n) : Leq(old, row) /\ v = row.groups => Leq(new, row)
        /\ \A a \in UpTo(n) : Since(a, old) /\ (v = 0 \/ a.groups <= v) => Since(a, new)
    BY <2>1 DEF UpTo, Leq, Since
  <2> QED BY <1>1, <1>3, <2>2 DEF new
<1>4. CASE c = "rules"
  <2>1. new.cfg = old.cfg /\ new.users = old.users /\ new.groups = old.groups /\ new.rules = v
    BY <1>4 DEF UpTo
  <2> HIDE DEF new
  <2>2. /\ \A row \in UpTo(n) : Leq(old, row) /\ v = row.rules => Leq(new, row)
        /\ \A a \in UpTo(n) : Since(a, old) /\ (v = 0 \/ a.rules <= v) => Since(a, new)
    BY <2>1 DEF UpTo, Leq, Since
  <2> QED BY <1>1, <1>4, <2>2 DEF new
<1> QED BY <1>2, <1>3, <1>4 DEF Columns

LEMMA ReadKeeps ==
  ASSUME CatalogueInv, NEW t \in Loaders, NEW i \in Ids, NEW c \in Columns, ReadColumn(t, i, c)
  PROVE  CatalogueInv'
<1>1. /\ CatalogueTyped /\ RowFirst /\ CopiesReflect /\ LoadsNewer /\ clock \in Nat
      /\ rows \in Copies(clock) /\ got \in [Loaders -> Copies(clock)]
      /\ got[t] \in [Ids -> UpTo(clock) \cup {Absent}]
  BY DEF CatalogueInv, CatalogueTyped, Copies
<1>2. got[t][i] \in UpTo(clock) /\ pc[t] = "columns"
  BY <1>1 DEF RowFirst, ReadColumn
<1>3. PICK v : v = (IF rows[i] = Absent THEN 0 ELSE rows[i][c])
  OBVIOUS
<1>4. v \in 0 .. clock
  BY <1>1, <1>3 DEF Copies, UpTo, Columns
<1>5. PICK new : new = [got[t][i] EXCEPT ![c] = v]
  OBVIOUS
<1>6. /\ new \in UpTo(clock)
      /\ \A row \in UpTo(clock) : Leq(got[t][i], row) /\ v = row[c] => Leq(new, row)
      /\ \A a \in UpTo(clock) : Since(a, got[t][i]) /\ (v = 0 \/ a[c] <= v) => Since(a, new)
  BY <1>1, <1>2, <1>4, <1>5, ColumnRead
<1>7. got' = [got EXCEPT ![t] = [got[t] EXCEPT ![i] = new]]
  BY <1>3, <1>5 DEF ReadColumn
<1>8. /\ \A j \in Ids : got'[t][j] = IF j = i THEN new ELSE got[t][j]
      /\ \A u \in Loaders \ {t} : got'[u] = got[u]
  BY <1>1, <1>7
<1>9. got' \in [Loaders -> Copies(clock)]
  <2>1. [got[t] EXCEPT ![i] = new] \in Copies(clock)
    BY <1>1, <1>6 DEF Copies
  <2> QED BY <1>1, <1>7, <2>1
<1>10. /\ todo' \in [Loaders -> SUBSET (Ids \X Columns)] /\ todo'[t] \subseteq todo[t]
       /\ \A u \in Loaders \ {t} : todo'[u] = todo[u]
  BY <1>1 DEF ReadColumn, CatalogueTyped
<1>11. \A j \in Ids, d \in Columns : <<j, d>> \in todo'[t] => got'[t][j] \in UpTo(clock)
  BY <1>1, <1>6, <1>8, <1>10 DEF RowFirst
<1>12. Reflects(got'[t])
  <2> SUFFICES ASSUME NEW j \in Ids, got'[t][j] # Absent, rows[j] # Absent
               PROVE  Leq(got'[t][j], rows[j])
    BY DEF Reflects
  <2>1. CASE j # i
    BY <1>1, <1>8, <2>1 DEF CopiesReflect, Reflects
  <2>2. CASE j = i
    <3>1. rows[i] \in UpTo(clock) /\ v = rows[i][c]
      BY <1>1, <1>3, <2>2 DEF Copies
    <3>2. got[t][i] # Absent
      BY <1>1, <1>2, RowIsThere
    <3>3. Leq(got[t][i], rows[i])
      BY <1>1, <2>2, <3>2 DEF CopiesReflect, Reflects
    <3> QED BY <1>6, <1>8, <2>2, <3>1, <3>3
  <2> QED BY <2>1, <2>2
<1>13. /\ UNCHANGED <<kind, rows, clock, served, op, held, recorded, behind>>
       /\ pc' = [pc EXCEPT ![t] = "columns"] /\ "columns" \in Places
  BY <1>1, <1>2 DEF ReadColumn, CatalogueTyped, Places
<1>14. ~behind'[t] => \A j \in Ids : got'[t][j] # Absent /\ served[Pod(t)][j] # Absent =>
         Since(served[Pod(t)][j], got'[t][j])
  <2> SUFFICES ASSUME ~behind[t], NEW j \in Ids, got'[t][j] # Absent, served[Pod(t)][j] # Absent
               PROVE  Since(served[Pod(t)][j], got'[t][j])
    BY <1>13
  <2>1. CASE j # i
    BY <1>1, <1>2, <1>8, <2>1 DEF LoadsNewer
  <2>2. CASE j = i
    <3>1. got[t][i] # Absent
      BY <1>1, <1>2, RowIsThere
    <3>2. PICK a : a = served[Pod(t)][i]
      OBVIOUS
    <3>3. Since(a, got[t][i])
      BY <1>1, <1>2, <2>2, <3>1, <3>2 DEF LoadsNewer
    <3>4. a \in UpTo(clock) /\ (rows[i] # Absent => rows[i] \in UpTo(clock) /\ Leq(a, rows[i]))
      BY <1>1, <2>2, <3>2, PodIsServer DEF CatalogueTyped, Copies, CopiesReflect, Reflects
    <3>5. v = 0 \/ a[c] <= v
      BY <1>3, <3>4 DEF Leq, Columns, UpTo
    <3> QED BY <1>6, <1>8, <2>2, <3>2, <3>3, <3>4, <3>5
  <2> QED BY <2>1, <2>2
<1>15. behind' \in [Loaders -> BOOLEAN]
  BY <1>1, <1>13 DEF CatalogueTyped
<1> QED BY <1>9, <1>8, <1>10, <1>11, <1>12, <1>13, <1>14, <1>15, LoadKeeps

\* A load's end: what it read is served, or it is dropped; and a ticker's start.
LEMMA EmptyTyped == \A n \in Nat : Empty \in Copies(n)
BY DEF Empty, Copies

LEMMA EmptyReflects == Reflects(Empty)
BY DEF Reflects, Empty

LEMMA LoadedPlace ==
  ASSUME NEW t \in Loaders, Loaded(t)
  PROVE  \E x \in {"record", "wait"} : pc' = [pc EXCEPT ![t] = x]
BY DEF Loaded, Answer, Goto

LEMMA FailKeeps ==
  ASSUME CatalogueInv, NEW t \in Loaders, LoadFails(t)
  PROVE  CatalogueInv'
<1>1. CatalogueTyped /\ clock \in Nat
  BY DEF CatalogueInv, CatalogueTyped
<1>2. PICK x \in {"record", "wait"} : pc' = [pc EXCEPT ![t] = x]
  BY LoadedPlace DEF LoadFails
<1>3. /\ got' = [u \in Loaders |-> IF u \in {t} THEN Empty ELSE got[u]]
      /\ todo' = [u \in Loaders |-> IF u \in {t} THEN {} ELSE todo[u]]
      /\ behind' = [u \in Loaders |-> u \notin {t} /\ behind[u]]
  BY DEF LoadFails, Drop
<1>4. got' \in [Loaders -> Copies(clock)] /\ got'[t] = Empty
      /\ \A u \in Loaders \ {t} : got'[u] = got[u]
  BY <1>1, <1>3, EmptyTyped DEF CatalogueTyped
<1>5. todo' \in [Loaders -> SUBSET (Ids \X Columns)] /\ todo'[t] = {}
      /\ \A u \in Loaders \ {t} : todo'[u] = todo[u]
  BY <1>1, <1>3 DEF CatalogueTyped
<1>6. behind' \in [Loaders -> BOOLEAN] /\ \A u \in Loaders \ {t} : behind'[u] = behind[u]
  BY <1>1, <1>3 DEF CatalogueTyped
<1>7. UNCHANGED <<kind, rows, clock, served, op, held, recorded>> /\ x \in Places /\ x # "columns"
      /\ x \notin {"start", "keep", "write", "rules"}
  BY DEF LoadFails, Places
<1> QED BY <1>2, <1>4, <1>5, <1>6, <1>7, EmptyReflects, LoadKeeps

LEMMA TickKeeps ==
  ASSUME CatalogueInv, NEW p \in Servers, Tick(p)
  PROVE  CatalogueInv'
<1>1. CatalogueTyped /\ RowFirst /\ CopiesReflect /\ p \in Loaders
  BY DEF CatalogueInv, Loaders
<1>2. UNCHANGED <<kind, rows, clock, served, op, held, recorded, got, todo, behind>>
      /\ pc' = [pc EXCEPT ![p] = "query"] /\ "query" \in Places
  BY DEF Tick, Goto, threadVars, Places
<1>3. Reflects(got'[p]) /\ \A i \in Ids, c \in Columns : <<i, c>> \in todo'[p] => got'[p][i] \in UpTo(clock)
  BY <1>1, <1>2 DEF CopiesReflect, Reflects, RowFirst
<1>4. /\ got' \in [Loaders -> Copies(clock)] /\ todo' \in [Loaders -> SUBSET (Ids \X Columns)]
      /\ behind' \in [Loaders -> BOOLEAN]
  BY <1>1, <1>2 DEF CatalogueTyped
<1> QED BY <1>1, <1>2, <1>3, <1>4, LoadKeeps

LEMMA InstallKeeps ==
  ASSUME CatalogueInv, NEW t \in Loaders, Install(t)
  PROVE  CatalogueInv'
<1>1. CatalogueTyped /\ RowFirst /\ CopiesReflect /\ LoadsNewer /\ clock \in Nat /\ Pod(t) \in Servers
  BY PodIsServer DEF CatalogueInv, CatalogueTyped
<1>2. PICK x \in {"record", "wait"} : pc' = [pc EXCEPT ![t] = x]
  BY LoadedPlace DEF Install
<1>3. /\ served' = [served EXCEPT ![Pod(t)] = got[t]] /\ got' = [got EXCEPT ![t] = Empty]
      /\ UNCHANGED <<kind, rows, clock, op, held, todo, recorded>> /\ todo[t] = {}
      /\ behind' = [u \in Loaders |->
                     u # t /\ (behind[u] \/ (Pod(u) = Pod(t) /\ pc[u] = "columns"))]
  BY DEF Install
<1>4. /\ served' \in [Servers -> Copies(clock)]
      /\ \A p \in Servers : served'[p] = IF p = Pod(t) THEN got[t] ELSE served[p]
  BY <1>1, <1>3 DEF CatalogueTyped
<1>5. /\ got' \in [Loaders -> Copies(clock)]
      /\ \A u \in Loaders : got'[u] = IF u = t THEN Empty ELSE got[u]
  BY <1>1, <1>3, EmptyTyped DEF CatalogueTyped
<1>6. /\ pc' \in [Loaders -> Places]
      /\ \A u \in Loaders : pc'[u] = IF u = t THEN x ELSE pc[u]
  BY <1>1, <1>2 DEF CatalogueTyped, Places
<1>7. behind' \in [Loaders -> BOOLEAN]
  <2>1. \A u \in Loaders : (u # t /\ (behind[u] \/ (Pod(u) = Pod(t) /\ pc[u] = "columns"))) \in BOOLEAN
    OBVIOUS
  <2> QED BY <1>3, <2>1
<1>8. CatalogueTyped'
  BY <1>1, <1>3, <1>4, <1>5, <1>6, <1>7 DEF CatalogueTyped
<1>9. RowFirst'
  BY <1>1, <1>3, <1>5 DEF RowFirst
<1>10. CopiesReflect'
  <2>1. \A p \in Servers : Reflects(served[p])
    BY <1>1 DEF CopiesReflect
  <2>2. \A u \in Loaders : Reflects(got[u])
    BY <1>1 DEF CopiesReflect
  <2>3. \A p \in Servers : Reflects(served'[p])
    BY <1>4, <2>1, <2>2
  <2>4. \A u \in Loaders : Reflects(got'[u])
    BY <1>5, <2>2, EmptyReflects
  <2>5. \A i \in Ids : rows'[i] = rows[i]
    BY <1>3
  <2> QED BY <2>3, <2>4, <2>5 DEF CopiesReflect, Reflects
<1>11. LoadsNewer'
  <2> SUFFICES ASSUME NEW u \in Loaders, pc'[u] = "columns", ~behind'[u], NEW i \in Ids,
                      got'[u][i] # Absent, served'[Pod(u)][i] # Absent
               PROVE  Since(served'[Pod(u)][i], got'[u][i])
    BY DEF LoadsNewer, Pod
  <2>1. u # t /\ pc[u] = "columns"
    BY <1>6
  <2>2. ~behind[u] /\ Pod(u) # Pod(t)
    BY <1>3, <2>1
  <2>3. Pod(u) \in Servers
    BY PodIsServer
  <2> QED BY <1>1, <1>4, <1>5, <2>1, <2>2, <2>3 DEF LoadsNewer
<1>12. Firsts' \subseteq Firsts /\ Seconds' \subseteq Seconds
  BY <1>6 DEF Firsts, Seconds, Loaders
<1>13. StampsLeft'
  BY <1>3, <1>12, NoMoreLeft
<1> QED BY <1>8, <1>9, <1>10, <1>11, <1>13 DEF CatalogueInv

LEMMA RestartKeeps ==
  ASSUME CatalogueInv, NEW p \in Servers, Restart(p)
  PROVE  CatalogueInv'
<1>1. CatalogueTyped /\ RowFirst /\ CopiesReflect /\ LoadsNewer /\ clock \in Nat
  BY DEF CatalogueInv, CatalogueTyped
<1>2. /\ served' = [served EXCEPT ![p] = Empty]
      /\ UNCHANGED <<kind, rows, clock>>
      /\ got' = [t \in Loaders |-> IF t \in {u \in Loaders : Pod(u) = p} THEN Empty ELSE got[t]]
      /\ todo' = [t \in Loaders |-> IF t \in {u \in Loaders : Pod(u) = p} THEN {} ELSE todo[t]]
      /\ behind' = [t \in Loaders |-> t \notin {u \in Loaders : Pod(u) = p} /\ behind[t]]
  BY DEF Restart, Drop
<1>3. /\ served' \in [Servers -> Copies(clock)]
      /\ \A q \in Servers : served'[q] = IF q = p THEN Empty ELSE served[q]
  BY <1>1, <1>2, EmptyTyped DEF CatalogueTyped
<1>4. /\ got' \in [Loaders -> Copies(clock)]
      /\ \A t \in Loaders : got'[t] = IF Pod(t) = p THEN Empty ELSE got[t]
  BY <1>1, <1>2, EmptyTyped DEF CatalogueTyped
<1>5. /\ todo' \in [Loaders -> SUBSET (Ids \X Columns)]
      /\ \A t \in Loaders : todo'[t] = IF Pod(t) = p THEN {} ELSE todo[t]
  BY <1>1, <1>2 DEF CatalogueTyped
<1>6. /\ behind' \in [Loaders -> BOOLEAN]
      /\ \A t \in Loaders : Pod(t) # p => behind'[t] = behind[t]
  <2>1. \A t \in Loaders : (t \notin {u \in Loaders : Pod(u) = p} /\ behind[t]) \in BOOLEAN
    OBVIOUS
  <2>2. behind' \in [Loaders -> BOOLEAN]
    BY <1>2, <2>1
  <2>3. \A t \in Loaders : behind[t] \in BOOLEAN
    BY <1>1 DEF CatalogueTyped
  <2> QED BY <1>2, <2>2, <2>3
<1>7. /\ pc' \in [Loaders -> Places]
      /\ \A t \in Loaders : pc'[t] = pc[t] \/ (Pod(t) = p /\ pc'[t] \in {"done", "query", "wait"})
  BY <1>1 DEF Restart, CatalogueTyped, Places
<1>8. /\ op' \in [Requests -> Operations]
      /\ held' \in [Requests -> (0 .. clock) \cup {Masked}]
      /\ recorded' \in [Requests -> {"no", "yes", "lost"}]
  <2>1. NoOp \in Operations
    BY IdsAssumption DEF NoOp, Operations
  <2> QED BY <1>1, <2>1 DEF Restart, CatalogueTyped
<1>9. CatalogueTyped'
  BY <1>1, <1>2, <1>3, <1>4, <1>5, <1>6, <1>7, <1>8 DEF CatalogueTyped
<1>10. RowFirst'
  BY <1>1, <1>2, <1>4, <1>5 DEF RowFirst
<1>11. CopiesReflect'
  <2>1. \A q \in Servers : Reflects(served[q])
    BY <1>1 DEF CopiesReflect
  <2>2. \A u \in Loaders : Reflects(got[u])
    BY <1>1 DEF CopiesReflect
  <2>3. \A q \in Servers : Reflects(served'[q])
    BY <1>3, <2>1, EmptyReflects
  <2>4. \A u \in Loaders : Reflects(got'[u])
    BY <1>4, <2>2, EmptyReflects
  <2>5. \A i \in Ids : rows'[i] = rows[i]
    BY <1>2
  <2> QED BY <2>3, <2>4, <2>5 DEF CopiesReflect, Reflects
<1>12. LoadsNewer'
  <2> SUFFICES ASSUME NEW u \in Loaders, pc'[u] = "columns", ~behind'[u], NEW i \in Ids,
                      got'[u][i] # Absent, served'[Pod(u)][i] # Absent
               PROVE  Since(served'[Pod(u)][i], got'[u][i])
    BY DEF LoadsNewer, Pod
  <2>1. Pod(u) # p
    BY <1>4 DEF Empty
  <2>2. pc[u] = "columns" /\ ~behind[u] /\ Pod(u) \in Servers
    BY <1>6, <1>7, <2>1, PodIsServer
  <2> QED BY <1>1, <1>3, <1>4, <2>1, <2>2 DEF LoadsNewer
<1>13. Firsts' \subseteq Firsts /\ Seconds' \subseteq Seconds
  BY <1>7 DEF Firsts, Seconds, Loaders
<1>14. StampsLeft'
  BY <1>2, <1>13, NoMoreLeft
<1> QED BY <1>9, <1>10, <1>11, <1>12, <1>14 DEF CatalogueInv

LEMMA CatalogueStep ==
  ASSUME CatalogueInv, [CatalogueNext]_adminVars
  PROVE  CatalogueInv'
<1>1. ASSUME NEW r \in Requests, Request(r) PROVE CatalogueInv'
  BY <1>1, RequestSteps, RequestKeeps DEF CatalogueInv
<1>2. ASSUME NEW t \in Loaders, Load(t) PROVE CatalogueInv'
  <2>1. CASE ListAgents(t) \/ ListServers(t)
    BY <2>1, ListKeeps DEF ListAgents, ListServers
  <2>2. CASE Install(t)
    BY <2>2, InstallKeeps
  <2>3. CASE LoadFails(t)
    BY <2>3, FailKeeps
  <2>4. ASSUME NEW i \in Ids, NEW c \in Columns, ReadColumn(t, i, c) PROVE CatalogueInv'
    BY <2>4, ReadKeeps
  <2> QED BY <1>2, <2>1, <2>2, <2>3, <2>4 DEF Load
<1>3. ASSUME NEW p \in Servers, Tick(p) \/ Restart(p) PROVE CatalogueInv'
  BY <1>3, TickKeeps, RestartKeeps
<1>4. CASE UNCHANGED adminVars
  BY <1>4 DEF adminVars, CatalogueInv, CatalogueTyped, RowFirst, CopiesReflect, Reflects, LoadsNewer,
       StampsLeft, Firsts, Seconds
<1> QED BY <1>1, <1>2, <1>3, <1>4 DEF CatalogueNext

LEMMA CatalogueStart ==
  ASSUME CatalogueInit
  PROVE  CatalogueInv
<1>1. Fresh(1) \in UpTo(1) /\ Leq(Fresh(1), Fresh(1))
  BY DEF Fresh, UpTo, Leq
<1>2. /\ clock = 1 /\ kind \in Kinds /\ rows \in [Ids -> {Absent, Fresh(1)}]
      /\ served = [p \in Servers |-> rows] /\ got = [t \in Loaders |-> Empty]
      /\ todo = [t \in Loaders |-> {}] /\ behind = [t \in Loaders |-> FALSE]
      /\ pc = [t \in Loaders |-> IF t \in Requests THEN "start" ELSE "wait"]
  BY DEF CatalogueInit
<1>3. rows \in Copies(1)
  BY <1>1, <1>2 DEF Copies
<1>4. served \in [Servers -> Copies(1)] /\ got \in [Loaders -> Copies(1)]
  BY <1>2, <1>3, EmptyTyped
<1>5. op \in [Requests -> Operations] /\ held \in [Requests -> (0 .. 1) \cup {Masked}]
      /\ recorded \in [Requests -> {"no", "yes", "lost"}]
  <2>1. NoOp \in Operations
    BY IdsAssumption DEF NoOp, Operations
  <2> QED BY <2>1 DEF CatalogueInit
<1>6. pc \in [Loaders -> Places] /\ todo \in [Loaders -> SUBSET (Ids \X Columns)]
      /\ behind \in [Loaders -> BOOLEAN]
  BY <1>2 DEF Places
<1>7. CatalogueTyped
  BY <1>2, <1>3, <1>4, <1>5, <1>6 DEF CatalogueTyped
<1>8. RowFirst
  BY <1>2 DEF RowFirst
<1>9. CopiesReflect
  <2>1. Reflects(rows)
    BY <1>1, <1>2 DEF Reflects
  <2> QED BY <1>2, <2>1, EmptyReflects DEF CopiesReflect
<1>10. LoadsNewer
  BY <1>2 DEF LoadsNewer
<1>11. StampsLeft
  <2>1. Firsts \subseteq Requests /\ Seconds \subseteq Requests
    BY DEF Firsts, Seconds
  <2>2. /\ IsFiniteSet(Firsts) /\ Cardinality(Firsts) <= Cardinality(Requests)
        /\ IsFiniteSet(Seconds) /\ Cardinality(Seconds) <= Cardinality(Requests)
    BY <2>1, RequestsAssumption, FS_Subset
  <2>3. Cardinality(Firsts) \in Nat /\ Cardinality(Seconds) \in Nat /\ Cardinality(Requests) \in Nat
    BY <2>2, RequestsAssumption, FS_CardinalityType
  <2> QED BY <1>2, <2>2, <2>3 DEF StampsLeft
<1> QED BY <1>7, <1>8, <1>9, <1>10, <1>11 DEF CatalogueInv

\* What is stored, served and about to be served is made of columns that some
\* transaction wrote; a copy is never ahead of the rows.
THEOREM CopiesAreTrue == CatalogueSpec => []CatalogueInv
<1>1. CatalogueInit => CatalogueInv
  BY CatalogueStart
<1>2. CatalogueInv /\ [CatalogueNext]_adminVars => CatalogueInv'
  BY CatalogueStep
<1> QED BY <1>1, <1>2, PTL DEF CatalogueSpec

\* Every variable has a value of its type; in particular each request has two
\* transactions at most, whatever fails and however often pods restart.
THEOREM CatalogueTypeCorrect == CatalogueSpec => []CatalogueTypeOK
<1>1. CatalogueInv => CatalogueTypeOK
  <2> SUFFICES ASSUME CatalogueInv PROVE CatalogueTypeOK
    OBVIOUS
  <2>1. CatalogueTyped /\ StampsLeft /\ clock \in Nat
    BY DEF CatalogueInv, CatalogueTyped
  <2>2. /\ Cardinality(Firsts) \in Nat /\ Cardinality(Seconds) \in Nat
        /\ Cardinality(Requests) \in Nat
    <3>1. IsFiniteSet(Firsts) /\ IsFiniteSet(Seconds)
      BY RequestsAssumption, FS_Subset DEF Firsts, Seconds
    <3> QED BY <3>1, RequestsAssumption, FS_CardinalityType
  <2>3. clock \in Stamps /\ 0 .. clock \subseteq Stamps
    BY <2>1, <2>2 DEF StampsLeft, Stamps
  <2>4. UpTo(clock) \subseteq Rows /\ Copies(clock) \subseteq [Ids -> Rows \cup {Absent}]
    <3>1. UpTo(clock) \subseteq Rows
      BY <2>3 DEF UpTo, Rows
    <3> QED BY <3>1 DEF Copies
  <2>5. /\ rows \in [Ids -> Rows \cup {Absent}]
        /\ served \in [Servers -> [Ids -> Rows \cup {Absent}]]
        /\ got \in [Loaders -> [Ids -> Rows \cup {Absent}]]
    BY <2>1, <2>4 DEF CatalogueTyped
  <2>6. held \in [Requests -> Stamps \cup {Masked}]
    BY <2>1, <2>3 DEF CatalogueTyped
  <2>7. \A t \in Loaders : todo[t] \subseteq Ids \X Columns
    BY <2>1 DEF CatalogueTyped
  <2>8. \A r \in Requests : op[r] \in Operations
    BY <2>1 DEF CatalogueTyped
  <2> QED BY <2>1, <2>3, <2>5, <2>6, <2>7, <2>8 DEF CatalogueTyped, CatalogueTypeOK, Places
<1> QED BY <1>1, CopiesAreTrue, PTL

\* A registry shows something older only by a load that another one overtook.
LEMMA StepsGoForward ==
  ASSUME CatalogueInv, [CatalogueNext]_adminVars, NEW p \in Servers, NEW i \in Ids,
         served[p][i] # Absent, served'[p][i] # Absent
  PROVE  \/ \A c \in Columns \cup {"cfg"} :
              served'[p][i][c] >= served[p][i][c] \/ served'[p][i][c] = 0
         \/ \E t \in Loaders : Pod(t) = p /\ pc[t] = "columns" /\ behind[t]
<1> DEFINE Forward(a, b) == \A c \in Columns \cup {"cfg"} : b[c] >= a[c] \/ b[c] = 0
<1>1. /\ CatalogueTyped /\ LoadsNewer /\ clock \in Nat
      /\ served[p] \in Copies(clock) /\ served[p][i] \in UpTo(clock)
  BY DEF CatalogueInv, CatalogueTyped, Copies
<1>2. \A a, b \in UpTo(clock) : Since(a, b) => Forward(a, b)
  BY <1>1 DEF Since, UpTo, Columns
<1>3. Forward(served[p][i], served[p][i])
  BY <1>1 DEF UpTo, Columns
<1>4. CASE UNCHANGED served
  BY <1>3, <1>4
<1>5. ASSUME NEW t \in Loaders, Install(t)
      PROVE  \/ Forward(served[p][i], served'[p][i])
             \/ \E u \in Loaders : Pod(u) = p /\ pc[u] = "columns" /\ behind[u]
  <2>1. /\ served' = [served EXCEPT ![Pod(t)] = got[t]] /\ pc[t] = "columns"
    BY <1>5 DEF Install
  <2>2. CASE Pod(t) # p
    BY <1>1, <1>3, <2>1, <2>2 DEF CatalogueTyped
  <2>3. CASE Pod(t) = p /\ ~behind[t]
    <3>1. served'[p] = got[t]
      BY <1>1, <2>1, <2>3 DEF CatalogueTyped
    <3>2. got[t][i] \in UpTo(clock)
      BY <1>1, <3>1 DEF CatalogueTyped, Copies
    <3>3. Since(served[p][i], got[t][i])
      BY <1>1, <2>1, <2>3, <3>1 DEF LoadsNewer
    <3> QED BY <1>1, <1>2, <3>1, <3>2, <3>3
  <2>4. CASE Pod(t) = p /\ behind[t]
    BY <2>1, <2>4
  <2> QED BY <2>2, <2>3, <2>4
<1>6. ASSUME NEW q \in Servers, Restart(q)
      PROVE  Forward(served[p][i], served'[p][i])
  <2>1. served' = [served EXCEPT ![q] = Empty]
    BY <1>6 DEF Restart
  <2>2. p # q
    BY <1>1, <2>1 DEF CatalogueTyped, Empty
  <2>3. served'[p] = served[p]
    BY <1>1, <2>1, <2>2 DEF CatalogueTyped
  <2> QED BY <1>3, <2>3
<1>7. ASSUME NEW r \in Requests, Request(r) PROVE UNCHANGED served
  BY <1>1, <1>7, RequestSteps DEF RequestStep
<1>8. ASSUME NEW t \in Loaders, Load(t), ~Install(t) PROVE UNCHANGED served
  BY <1>8 DEF Load, ListAgents, ListServers, ListRows, ReadColumn, LoadFails
<1>9. ASSUME NEW q \in Servers, Tick(q) PROVE UNCHANGED served
  BY <1>9 DEF Tick
<1> QED BY <1>4, <1>5, <1>6, <1>7, <1>8, <1>9 DEF CatalogueNext, adminVars

\* A registry goes back to an older configuration, permission or rule list
\* only by loads of its pod that overlap (LoadFromDB reads outside the mutex).
THEOREM OldOnlyWhereLoadsOverlap == CatalogueSpec => OldOnlyByOverlap
<1>1. CatalogueInv /\ [CatalogueNext]_adminVars =>
        \A p \in Servers, i \in Ids:
         served[p][i] # Absent /\ served'[p][i] # Absent =>
           \/ \A c \in Columns \cup {"cfg"}:
                served'[p][i][c] >= served[p][i][c] \/ served'[p][i][c] = 0
           \/ \E t \in Loaders: Pod(t) = p /\ pc[t] = "columns" /\ behind[t]
  BY StepsGoForward
<1> QED BY <1>1, CopiesAreTrue, PTL DEF CatalogueSpec, OldOnlyByOverlap

-----------------------------------------------------------------------------
\* Settings and registries side by side, as the runs check them: each keeps
\* what was proved of it alone, for they share nothing.
THEOREM ConfigPartsCorrect ==
    ConfigSpec => []ConfigTypeOK /\ []SavedIsListed /\ NeverBack /\ OldOnlyByOverlap
<1>1. ConfigInit => SettingsInit /\ CatalogueInit
  BY DEF ConfigInit
<1>2. [ConfigNext]_configVars => [SettingsNext]_settingsVars /\ [CatalogueNext]_adminVars
  BY DEF ConfigNext, configVars
<1>3. ConfigSpec => SettingsSpec /\ CatalogueSpec
  BY <1>1, <1>2, PTL DEF ConfigSpec, SettingsSpec, CatalogueSpec
<1>4. SettingsTypeOK /\ CatalogueTypeOK => ConfigTypeOK
  BY DEF ConfigTypeOK
<1> QED BY <1>3, <1>4, SettingsTyped, SavedListed, NeverGoesBack, CatalogueTypeCorrect,
        OldOnlyWhereLoadsOverlap, PTL
=============================================================================
