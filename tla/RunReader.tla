----------------------------- MODULE RunReader -----------------------------
(***************************************************************************)
(* GET .../sessions/{id}/stream (handlers/run_stream.go): a client that    *)
(* reloaded replays the buffered events of the session and then follows    *)
(* the live ones.                                                          *)
(***************************************************************************)
EXTENDS RunBuffer

CONSTANTS
    Readers,   \* reconnecting clients
    ReadCount  \* XREAD COUNT: most entries one read returns

ASSUME ReadCountAssumption == ReadCount \in Nat \ {0}

VARIABLES
    rpc,   \* where each Stream handler is
    last,  \* lastID of each reader
    got    \* the IDs each reader has written to its client

readerVars == <<rpc, last, got>>

ReaderStates ==
    {"idle",      \* not connected yet
     "check",     \* XLEN returned 0: the flag decides
     "open",      \* in the XREAD loop
     "nil",       \* the block window expired with nothing new
     "empty",     \* 204: nothing to replay
     "terminal",  \* closed after writing a terminal event
     "inactive",  \* closed because no run is active
     "dropped"}   \* client gone, time limit or Redis error
ReaderStopped == {"empty", "terminal", "inactive", "dropped"}

ReaderTypeOK ==
    /\ rpc \in [Readers -> ReaderStates]
    /\ last \in [Readers -> Nat]
    /\ got \in [Readers -> SUBSET (DOMAIN log)]

ReaderInit ==
    /\ rpc = [k \in Readers |-> "idle"]
    /\ last = [k \in Readers |-> 0]
    /\ got = [k \in Readers |-> {}]

Goto(k, state) ==
    /\ rpc' = [rpc EXCEPT ![k] = state]
    /\ UNCHANGED <<last, got, flag, stream, log>>

(* XLEN decides before the flag is looked at; its error counts as empty. *)
Connect(k) ==
    /\ rpc[k] = "idle"
    /\ \/ stream # {} /\ Succeeds /\ Goto(k, "open")
       \/ stream = {} /\ Succeeds /\ Goto(k, "check")
       \/ Fails /\ Goto(k, "check")

(* HasActiveRun; its error counts as no active run. *)
CheckFlag(k) ==
    /\ rpc[k] = "check"
    /\ \/ HasActiveRun /\ Succeeds /\ Goto(k, "open")
       \/ ~HasActiveRun /\ Succeeds /\ Goto(k, "empty")
       \/ Fails /\ Goto(k, "empty")

Pending(k) == {i \in stream : i > last[k]}

(* The entries one XREAD returns, up to the first terminal event, after    *)
(* which the handler returns without looking at the rest of the batch.     *)
Batch(k) ==
    {i \in Pending(k) :
        /\ Cardinality({j \in Pending(k) : j < i}) < ReadCount
        /\ \A j \in Pending(k) : j < i => ~IsTerminal(j)}

(* Mutant: the cursor jumps to the newest entry instead of the last one read. *)
ReadSkippingRest(k) ==
    /\ rpc[k] = "open"
    /\ \E newest \in Batch(k), tail \in Pending(k) :
        /\ \A i \in Batch(k) : i <= newest
        /\ \A i \in Pending(k) : i <= tail
        /\ last' = [last EXCEPT ![k] = tail]
        /\ got' = [got EXCEPT ![k] = @ \cup Batch(k)]
        /\ rpc' = [rpc EXCEPT ![k] = IF IsTerminal(newest) THEN "terminal" ELSE "open"]
    /\ Succeeds
    /\ UNCHANGED <<flag, stream, log>>

(* XREAD returns entries: they are written in ID order. *)
Read(k) ==
    /\ rpc[k] = "open"
    /\ \E newest \in Batch(k) :
        /\ \A i \in Batch(k) : i <= newest
        /\ last' = [last EXCEPT ![k] = newest]
        /\ got' = [got EXCEPT ![k] = @ \cup Batch(k)]
        /\ rpc' = [rpc EXCEPT ![k] = IF IsTerminal(newest) THEN "terminal" ELSE "open"]
    /\ Succeeds
    /\ UNCHANGED <<flag, stream, log>>

(* XREAD returns Nil: nothing arrived in the block window. *)
BlockExpires(k) ==
    /\ rpc[k] = "open"
    /\ Pending(k) = {}
    /\ Goto(k, "nil")
    /\ Succeeds

(* Mutant: Nil always means try again. *)
CheckNothing(k) ==
    /\ rpc[k] = "nil"
    /\ Succeeds /\ Goto(k, "open")

(* After Nil the flag alone decides whether to go on. *)
CheckIdle(k) ==
    /\ rpc[k] = "nil"
    /\ \/ HasActiveRun /\ Succeeds /\ Goto(k, "open")
       \/ ~HasActiveRun /\ Succeeds /\ Goto(k, "inactive")
       \/ Fails /\ Goto(k, "inactive")

(* The client leaves, the time limit passes, or XREAD fails. *)
Drop(k) ==
    /\ rpc[k] \in {"check", "open", "nil"}
    /\ Goto(k, "dropped")
    /\ Succeeds

ReaderStep(k) ==
    Connect(k) \/ CheckFlag(k) \/ Read(k) \/ BlockExpires(k) \/ CheckIdle(k) \/ Drop(k)
=============================================================================
