----------------------------- MODULE ReadState -----------------------------
(***************************************************************************)
(* How many messages of a conversation the user has read, in several tabs  *)
(* (handlers/readstate.go, pubsub/hub.go, store/redis.go, the web client's *)
(* ReadStateContext).  A tab stores its number and the server publishes it *)
(* to the tabs that are connected; nothing numbers the events, a slow tab  *)
(* misses some, and one that connects again asks for nothing.              *)
(***************************************************************************)
EXTENDS Naturals, Sequences

CONSTANTS
    Tabs,
    QueueCap,       \* events the hub keeps for a slow tab (64)
    MaxRead,        \* bound: highest number of messages
    MaxLosses       \* bound: requests and publications that fail

ASSUME ReadStateAssumption == QueueCap \in Nat \ {0} /\ MaxRead \in Nat /\ MaxLosses \in Nat

VARIABLES
    stored,         \* the number in Redis
    tab,            \* per tab: the number it shows, its connection, the
                    \* events on their way to it
    mark,           \* per tab: its PUT, overtaken if another one was stored
                    \* before it was published
    poll,           \* per tab: its GET, stale if one was stored since
    missed,         \* tabs an event has not reached, in its order, since
                    \* they asked last (history)
    losses

readVars == <<stored, tab, mark, poll, missed, losses>>

Counts == 0 .. MaxRead
NoMark == [at |-> "idle", count |-> 0, overtaken |-> FALSE]
NoPoll == [at |-> "idle", count |-> 0, stale |-> FALSE]

ReadTypeOK ==
    /\ stored \in Counts
    /\ \A t \in Tabs : /\ tab[t].shown \in Counts
                       /\ tab[t].line \in {"lost", "open"}
                       /\ tab[t].queue \in Seq(Counts) /\ Len(tab[t].queue) <= QueueCap
    /\ mark \in [Tabs -> [at: {"idle", "set", "publish"}, count: Counts, overtaken: BOOLEAN]]
    /\ poll \in [Tabs -> [at: {"idle", "asked", "read"}, count: Counts, stale: BOOLEAN]]
    /\ missed \subseteq Tabs
    /\ losses \in 0 .. MaxLosses

(* A tab asks before its connection is there.                              *)
ReadInit ==
    /\ stored = 0
    /\ tab = [t \in Tabs |-> [shown |-> 0, line |-> "lost", queue |-> <<>>]]
    /\ mark = [t \in Tabs |-> NoMark]
    /\ poll = [t \in Tabs |-> [NoPoll EXCEPT !.at = "asked"]]
    /\ missed = Tabs
    /\ losses = 0

Lose == losses < MaxLosses /\ losses' = losses + 1

-----------------------------------------------------------------------------
(* markAsRead shows the number at once and sends it, unless it is shown.   *)
MarkAsRead(t, n) ==
    /\ tab[t].shown # n
    /\ mark[t].at = "idle"
    /\ tab' = [tab EXCEPT ![t].shown = n]
    /\ mark' = [mark EXCEPT ![t] = [NoMark EXCEPT !.at = "set", !.count = n]]
    /\ UNCHANGED <<stored, poll, missed, losses>>

(* MarkRead stores the number, whatever is stored.                         *)
SetReadCount(t) ==
    /\ mark[t].at = "set"
    /\ stored' = mark[t].count
    /\ mark' = [u \in Tabs |->
                 IF u = t THEN [mark[t] EXCEPT !.at = "publish"]
                 ELSE [mark[u] EXCEPT !.overtaken = @ \/ mark[u].at = "publish"]]
    /\ poll' = [u \in Tabs |-> [poll[u] EXCEPT !.stale = @ \/ poll[u].at = "read"]]
    /\ UNCHANGED <<tab, missed, losses>>

(* The tab goes on showing a number that could not be stored.              *)
SetReadCountFails(t) ==
    /\ mark[t].at = "set" /\ Lose
    /\ mark' = [mark EXCEPT ![t] = NoMark]
    /\ missed' = missed \cup {t}
    /\ UNCHANGED <<stored, tab, poll>>

Reached == {u \in Tabs : tab[u].line = "open" /\ Len(tab[u].queue) < QueueCap}

(* A mutant: a slow tab's events are kept however many they are.           *)
PublishUnbounded(t) ==
    /\ mark[t].at = "publish"
    /\ tab' = [u \in Tabs |-> IF tab[u].line = "open"
                              THEN [tab[u] EXCEPT !.queue = Append(@, mark[t].count)] ELSE tab[u]]
    /\ mark' = [mark EXCEPT ![t] = NoMark]
    /\ UNCHANGED <<stored, poll, missed, losses>>

(* PublishReadState: every connected tab, but one whose queue is full.     *)
PublishReadState(t) ==
    /\ mark[t].at = "publish"
    /\ tab' = [u \in Tabs |-> IF u \in Reached
                              THEN [tab[u] EXCEPT !.queue = Append(@, mark[t].count)] ELSE tab[u]]
    /\ missed' = IF mark[t].overtaken THEN Tabs ELSE missed \cup (Tabs \ Reached)
    /\ mark' = [mark EXCEPT ![t] = NoMark]
    /\ UNCHANGED <<stored, poll, losses>>

(* A failure to publish is only logged.                                    *)
PublishFails(t) ==
    /\ mark[t].at = "publish" /\ Lose
    /\ mark' = [mark EXCEPT ![t] = NoMark]
    /\ missed' = Tabs
    /\ UNCHANGED <<stored, tab, poll>>

-----------------------------------------------------------------------------
(* Subscribe is confirmed by Redis before the stream begins.               *)
Subscribe(t) ==
    /\ tab[t].line = "lost"
    /\ tab' = [tab EXCEPT ![t].line = "open"]
    /\ UNCHANGED <<stored, mark, poll, missed, losses>>

Deliver(t) ==
    /\ tab[t].line = "open" /\ tab[t].queue # <<>>
    /\ tab' = [tab EXCEPT ![t].shown = Head(tab[t].queue), ![t].queue = Tail(@)]
    /\ UNCHANGED <<stored, mark, poll, missed, losses>>

(* The connection breaks, or the tab is hidden and closes it; the events   *)
(* on their way are gone.  Connecting again asks for nothing.              *)
CloseLine(t) ==
    /\ tab[t].line = "open"
    /\ tab' = [tab EXCEPT ![t].line = "lost", ![t].queue = <<>>]
    /\ missed' = IF tab[t].queue = <<>> THEN missed ELSE missed \cup {t}
    /\ UNCHANGED <<stored, mark, poll, losses>>

(* A tab that is looked at again asks, and one that stays unconnected for  *)
(* the polling interval.                                                   *)
Poll(t) ==
    /\ tab[t].line = "lost" /\ poll[t].at = "idle"
    /\ poll' = [poll EXCEPT ![t] = [NoPoll EXCEPT !.at = "asked"]]
    /\ UNCHANGED <<stored, tab, mark, missed, losses>>

(* GetReadState, and what the tab shows of it.  The answer makes up for    *)
(* what was missed, unless events from before it are still to come.        *)
GetReadState(t) ==
    /\ poll[t].at = "asked"
    /\ poll' = [poll EXCEPT ![t] = [at |-> "read", count |-> stored, stale |-> FALSE]]
    /\ missed' = IF tab[t].queue = <<>> THEN missed \ {t} ELSE missed
    /\ UNCHANGED <<stored, tab, mark, losses>>

ShowState(t) ==
    /\ poll[t].at = "read"
    /\ tab' = [tab EXCEPT ![t].shown = poll[t].count]
    /\ missed' = IF poll[t].stale THEN missed \cup {t} ELSE missed
    /\ poll' = [poll EXCEPT ![t] = NoPoll]
    /\ UNCHANGED <<stored, mark, losses>>

PollFails(t) ==
    /\ poll[t].at # "idle" /\ Lose
    /\ poll' = [poll EXCEPT ![t] = NoPoll]
    /\ missed' = missed \cup {t}
    /\ UNCHANGED <<stored, tab, mark>>

ReadNext == \E t \in Tabs :
    \/ \E n \in Counts : MarkAsRead(t, n)
    \/ SetReadCount(t) \/ SetReadCountFails(t) \/ PublishReadState(t) \/ PublishFails(t)
    \/ Subscribe(t) \/ Deliver(t) \/ CloseLine(t)
    \/ Poll(t) \/ GetReadState(t) \/ ShowState(t) \/ PollFails(t)

(* Nothing is under way.                                                   *)
Still == \A t \in Tabs : mark[t].at = "idle" /\ poll[t].at = "idle" /\ tab[t].queue = <<>>

(* Once nothing is under way a tab shows the number that is stored,        *)
(* whichever tab it came from and however their requests, events and polls *)
(* overlapped; unless it missed an event since it asked, or events came    *)
(* in another order than their numbers were stored.                        *)
TabsAgree == Still => \A t \in Tabs \ missed : tab[t].shown = stored

=============================================================================
