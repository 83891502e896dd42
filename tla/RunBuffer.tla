----------------------------- MODULE RunBuffer -----------------------------
(***************************************************************************)
(* The per-session run buffer kept in Redis (store/redis.go): the          *)
(* active-run flag, holding the token of the run that set it last, and the *)
(* capped stream of AG-UI events a reconnecting client replays.            *)
(*                                                                         *)
(* An entry's Redis stream ID is its index in log, the history of every    *)
(* event ever appended: IDs grow over the life of the session and are not  *)
(* reused when the stream is deleted.  stream is the set of IDs Redis      *)
(* still holds.                                                            *)
(***************************************************************************)
EXTENDS Integers, Sequences, FiniteSets

CONSTANTS
    Runs,       \* the runs (request IDs) of one session
    NoRun,      \* the flag's value when the key is absent
    StreamCap,  \* runEventsMaxLen: entries an approximate trim must keep
    MaxFaults   \* bound: Redis commands that may fail in one behaviour

ASSUME NoRunAssumption == NoRun \notin Runs
ASSUME StreamCapAssumption == StreamCap \in Nat \ {0}
ASSUME MaxFaultsAssumption == MaxFaults \in Nat

VARIABLES
    flag,    \* active_run:<session>: a run or NoRun
    stream,  \* run_events:<session>: the IDs still buffered
    log,     \* history: every entry appended, in ID order
    faults   \* Redis failures left in the budget

bufferVars == <<flag, stream, log, faults>>

Kinds == {"started", "content", "finished", "error"}
Entry == [run : Runs, kind : Kinds]

BufferTypeOK ==
    /\ flag \in Runs \cup {NoRun}
    /\ log \in Seq(Entry)
    /\ stream \subseteq DOMAIN log
    /\ faults \in 0 .. MaxFaults

BufferInit ==
    /\ flag = NoRun
    /\ stream = {}
    /\ log = <<>>
    /\ faults = MaxFaults

(* A Redis command that fails, and one that does not. *)
Fails == faults > 0 /\ faults' = faults - 1
Succeeds == UNCHANGED faults

HasActiveRun == flag # NoRun

IsTerminal(id) == log[id].kind \in {"finished", "error"}

(* XADD ... MAXLEN ~ StreamCap: the approximate trim drops any number of   *)
(* the oldest entries, as long as StreamCap of them remain.                *)
Trims(ids) ==
    {ids} \cup
    {kept \in {{i \in ids : i > cut} : cut \in ids} : Cardinality(kept) >= StreamCap}

(* Mutant: the entry's ID is off by one. *)
AppendRunEventSkippingId(r, kind) ==
    /\ log' = Append(log, [run |-> r, kind |-> kind])
    /\ stream' = stream \cup {Len(log) + 2}
    /\ Succeeds

(* AppendRunEvent: the entry is added, or the command fails; every caller  *)
(* ignores the error.                                                      *)
AppendRunEvent(r, kind) ==
    \/ /\ log' = Append(log, [run |-> r, kind |-> kind])
       /\ stream' \in Trims(stream \cup {Len(log) + 1})
       /\ Succeeds
    \/ /\ UNCHANGED <<log, stream>>
       /\ Fails

(* SetActiveRun sends two commands: the leftover stream is deleted, then   *)
(* the flag takes the new run's token.                                     *)
DropStream == stream' = {}
SetFlag(r) == flag' = r

(* Mutant: a plain DEL. *)
ClearAnyRun(r) == flag' = NoRun

(* ClearActiveRun: compare-and-delete, in one script. *)
ClearActiveRun(r) == flag' = IF flag = r THEN NoRun ELSE flag
=============================================================================
