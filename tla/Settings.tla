------------------------------ MODULE Settings ------------------------------
(***************************************************************************)
(* The runtime settings (settings/settings.go, handlers/admin_settings.go, *)
(* repository/postgres/settings.go).  They are rows of runtime_config;     *)
(* every pod serves a copy of them from memory.  A copy is replaced by     *)
(* Reload, which the handler of PUT /api/admin/settings calls on its own   *)
(* pod and a ticker calls on every pod each 30 s.                          *)
(*                                                                         *)
(* A version of the table is the number of transactions that changed it:   *)
(* the effective values are a function of it.  Version 0 is the defaults.  *)
(***************************************************************************)
EXTENDS Naturals

CONSTANTS
    Pods,
    Savers,         \* requests to PUT /api/admin/settings
    PodOf,          \* the pod that serves each of them
    Nobody,         \* not a thread: a free loadMu
    MaxFailures,    \* bound: commands that fail
    MaxRestarts     \* bound: pods that restart

ASSUME PodOfAssumption == PodOf \in [Savers -> Pods]
ASSUME ThreadsAssumption ==
    /\ Pods \cap Savers = {}
    /\ Nobody \notin Pods \cup Savers
ASSUME BudgetAssumption == MaxFailures \in Nat /\ MaxRestarts \in Nat

\* The ticker of a pod is named after the pod.
Threads == Savers \cup Pods
Home(t) == IF t \in Savers THEN PodOf[t] ELSE t

VARIABLES
    table,      \* runtime_config: the number of transactions that changed it
    values,     \* per pod, the version its Service serves
    loadMu,     \* per pod, the thread that holds loadMu, or Nobody
    step,       \* where each thread is
    fetched,    \* the version a thread's GetAll returned
    wrote,      \* the version a saver's transaction produced, 0 if none
    listed,     \* the version the saver's response lists, 0 before it answers
    failures, restarts

settingsVars == <<table, values, loadMu, step, fetched, wrote, listed, failures, restarts>>

SaverAt  == {"decode", "lock", "query", "apply", "audit", "list", "ok",
             "invalid", "notSaved", "notReloaded", "gone"}
TickerAt == {"wait", "lock", "query", "apply"}

SettingsTypeOK ==
    /\ table \in Nat
    /\ values \in [Pods -> Nat]
    /\ loadMu \in [Pods -> Threads \cup {Nobody}]
    /\ step \in [Threads -> SaverAt \cup TickerAt]
    /\ fetched \in [Threads -> Nat]
    /\ wrote \in [Savers -> Nat]
    /\ listed \in [Savers -> Nat]
    /\ failures \in 0 .. MaxFailures
    /\ restarts \in 0 .. MaxRestarts

\* New: the defaults; the first Reload is the ticker's first.
SettingsInit ==
    /\ table = 0
    /\ values = [p \in Pods |-> 0]
    /\ loadMu = [p \in Pods |-> Nobody]
    /\ step = [t \in Threads |-> IF t \in Savers THEN "decode" ELSE "lock"]
    /\ fetched = [t \in Threads |-> 0]
    /\ wrote = [s \in Savers |-> 0]
    /\ listed = [s \in Savers |-> 0]
    /\ failures = MaxFailures
    /\ restarts = MaxRestarts

Move(t, to) == step' = [step EXCEPT ![t] = to]
CommandFails == failures > 0 /\ failures' = failures - 1

\* Validate: everything is checked before anything is written.
Reject(s) ==
    /\ step[s] = "decode"
    /\ Move(s, "invalid")
    /\ UNCHANGED <<table, values, loadMu, fetched, wrote, listed, failures, restarts>>

\* SetMany: one transaction, or nothing to write.  Its commit may also take
\* effect and report failure.
SetMany(s) ==
    /\ step[s] = "decode"
    /\ \/ /\ table' = table + 1
          /\ wrote' = [wrote EXCEPT ![s] = table']
          /\ \/ Move(s, "lock") /\ UNCHANGED failures
             \/ Move(s, "notSaved") /\ CommandFails
       \/ Move(s, "notSaved") /\ CommandFails /\ UNCHANGED <<table, wrote>>
       \/ Move(s, "lock") /\ UNCHANGED <<table, wrote, failures>>
    /\ UNCHANGED <<values, loadMu, fetched, listed, restarts>>

\* The ticker fires.
ReloadTick(p) ==
    /\ step[p] = "wait"
    /\ Move(p, "lock")
    /\ UNCHANGED <<table, values, loadMu, fetched, wrote, listed, failures, restarts>>

\* Without loadMu, a reload would start whatever the others are doing.
LockLoadShared(t) ==
    /\ step[t] = "lock"
    /\ loadMu' = [loadMu EXCEPT ![Home(t)] = t]
    /\ Move(t, "query")
    /\ UNCHANGED <<table, values, fetched, wrote, listed, failures, restarts>>

\* Reload: loadMu is taken before the rows are read ...
LockLoad(t) ==
    /\ step[t] = "lock"
    /\ loadMu[Home(t)] = Nobody
    /\ loadMu' = [loadMu EXCEPT ![Home(t)] = t]
    /\ Move(t, "query")
    /\ UNCHANGED <<table, values, fetched, wrote, listed, failures, restarts>>

\* A handler that takes a failed reload for a done one.
GetAllIgnored(t) ==
    /\ step[t] = "query"
    /\ \/ /\ fetched' = [fetched EXCEPT ![t] = table]
          /\ Move(t, "apply")
          /\ UNCHANGED <<loadMu, failures>>
       \/ /\ CommandFails
          /\ loadMu' = [loadMu EXCEPT ![Home(t)] = Nobody]
          /\ Move(t, IF t \in Savers THEN "audit" ELSE "wait")
          /\ UNCHANGED fetched
    /\ UNCHANGED <<table, values, wrote, listed, restarts>>

\* ... GetAll returns them, or an error, which gives loadMu back ...
GetAll(t) ==
    /\ step[t] = "query"
    /\ \/ /\ fetched' = [fetched EXCEPT ![t] = table]
          /\ Move(t, "apply")
          /\ UNCHANGED <<loadMu, failures>>
       \/ /\ CommandFails
          /\ loadMu' = [loadMu EXCEPT ![Home(t)] = Nobody]
          /\ Move(t, IF t \in Savers THEN "notReloaded" ELSE "wait")
          /\ UNCHANGED fetched
    /\ UNCHANGED <<table, values, wrote, listed, restarts>>

\* ... and they replace the values served, still under loadMu.
ApplyValues(t) ==
    /\ step[t] = "apply"
    /\ values' = [values EXCEPT ![Home(t)] = fetched[t]]
    /\ loadMu' = [loadMu EXCEPT ![Home(t)] = Nobody]
    /\ Move(t, IF t \in Savers THEN "audit" ELSE "wait")
    /\ UNCHANGED <<table, fetched, wrote, listed, failures, restarts>>

\* UpdateSettings logs on a context of its own and ignores the result.
AuditChange(s) ==
    /\ step[s] = "audit"
    /\ Move(s, "list")
    /\ UNCHANGED <<table, values, loadMu, fetched, wrote, listed, failures, restarts>>

\* ListSettings answers with what the Service serves by then.
ListSettings(s) ==
    /\ step[s] = "list"
    /\ listed' = [listed EXCEPT ![s] = values[PodOf[s]]]
    /\ Move(s, "ok")
    /\ UNCHANGED <<table, values, loadMu, fetched, wrote, failures, restarts>>

SaverEnds == {"ok", "invalid", "notSaved", "notReloaded", "gone"}

\* A pod stops and starts again: its requests are gone, its Service is new.
RestartService(p) ==
    /\ restarts > 0
    /\ restarts' = restarts - 1
    /\ values' = [values EXCEPT ![p] = 0]
    /\ loadMu' = [loadMu EXCEPT ![p] = Nobody]
    /\ step' = [t \in Threads |->
                IF Home(t) # p THEN step[t]
                ELSE IF t = p THEN "lock"
                ELSE IF step[t] \in SaverEnds \cup {"decode"} THEN step[t] ELSE "gone"]
    /\ UNCHANGED <<table, fetched, wrote, listed, failures>>

Save(s) == Reject(s) \/ SetMany(s) \/ AuditChange(s) \/ ListSettings(s)
Reload(t) == LockLoad(t) \/ GetAll(t) \/ ApplyValues(t)

SettingsNext ==
    \/ \E s \in Savers: Save(s)
    \/ \E t \in Threads: Reload(t)
    \/ \E p \in Pods: ReloadTick(p) \/ RestartService(p)

SettingsSpec == SettingsInit /\ [][SettingsNext]_settingsVars

\* The ticker fires, and every call of a Reload returns.
SettingsFairness ==
    /\ \A t \in Threads: WF_settingsVars(Reload(t))
    /\ \A p \in Pods: WF_settingsVars(ReloadTick(p))

-----------------------------------------------------------------------------
\* What the Service promises: a pod's values never go back to an older table
\* while it lives, although a ticker and any number of requests reload them
\* and commits happen in between (settings.go:152, "a periodic tick can't
\* clobber a PUT").
View == INSTANCE Freshness WITH latest <- table, view <- values
NeverBack == View!Freshness

\* A 200 lists a table at least as new as the one the request committed,
\* whatever its pod's ticker and the other requests did in between.
SavedIsListed == \A s \in Savers: step[s] = "ok" => listed[s] >= wrote[s]

\* After the last change every pod, also one that restarted or whose reload
\* failed, serves it in the end.
SettingsConverge == \A p \in Pods: <>[](values[p] = table)
=============================================================================
