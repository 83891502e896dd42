------------------------------ MODULE ChatRun ------------------------------
(***************************************************************************)
(* POST /api/agents/{id}/chat (handlers/proxy.go, ProxyHandler.Chat) on    *)
(* one session: each run loads or creates the session, stores the user's   *)
(* message, raises the active-run flag, streams the agent's events into    *)
(* the run buffer, stores the reply, emits the terminal event and lowers   *)
(* the flag.  Several runs overlap on one session whenever the web client  *)
(* sends one message to several agents.  Around them: clients that reload  *)
(* (RunReader, and the GET of the session), deletion of the session,       *)
(* expiring keys, failing Redis commands and crashing servers.             *)
(***************************************************************************)
EXTENDS RunReader

CONSTANTS
    Loaders,     \* clients that GET the session once
    NoDoc,       \* the session key is absent
    Creator,     \* the run that creates the session, or NoRun: it exists
    Upgrading,   \* runs whose request carries send_context = true
    Naming,      \* runs of a server whose session namer is configured
    Leaving,     \* runs whose client may go away before the end
    Draining,    \* runs of agents whose proxy keeps reading without a client
    LongRuns,    \* runs that may outlive the TTL of the active-run flag
    Text,        \* the user message of each run
    Agent,       \* the agent each run addresses
    Endings,     \* how agent calls may end: a subset of Outcomes
    MaxContent,  \* bound: content events of one run
    MaxCrashes,  \* bound: server crashes
    MayDelete    \* whether the user deletes the session

ASSUME CreatorAssumption == Creator \in Runs \cup {NoRun}
ASSUME RunSetsAssumption ==
    Upgrading \cup Naming \cup Leaving \cup Draining \cup LongRuns \subseteq Runs
ASSUME MaxContentAssumption == MaxContent \in Nat
ASSUME MaxCrashesAssumption == MaxCrashes \in Nat
ASSUME MayDeleteAssumption == MayDelete \in BOOLEAN

VARIABLES
    doc,        \* session:<id>: NoDoc, or the JSON document Redis holds
    mapped,     \* agents with an agent_session_map key for the session
    pc,         \* the next step of each run
    copy,       \* the session document each run, then its namer, holds
    connected,  \* whether the client of each run is still there
    sent,       \* content events each run has emitted
    outcome,    \* how the agent call of each run ended
    failed,     \* whether the run's terminal event must be RUN_ERROR
    sawMapping, \* hasAgentSession, as read before the agent call
    naming,     \* the session namer goroutine of each run
    crashes,    \* crashes left in the budget
    page,       \* what each loader's GET has read
    deleting,   \* where the DeleteSession call is
    victims,    \* the mapping keys its SCAN found
    owner,      \* history: the run that emptied the stream last, or NoRun
    latest,     \* history: the run that set the flag last, or NoRun
    saved       \* history: runs whose reply AddMessage acknowledged

docVars == <<doc, mapped>>
runVars == <<pc, copy, connected, sent, outcome, failed, sawMapping, naming>>
deleteVars == <<deleting, victims>>
historyVars == <<owner, latest, saved>>
vars == <<bufferVars, readerVars, docVars, runVars, crashes, page, deleteVars, historyVars>>

RunStates ==
    {"idle", "upgrade", "user", "mappingRead", "drop", "flag", "start", "stream",
     "rotation", "reply", "mapping", "finish", "clear", "done", "rejected", "crashed"}
RunStopped == {"done", "rejected", "crashed"}

(* none: still running, or nothing came back; empty: success with nothing  *)
(* to store; partial: an error after some content; rotated: a reply, after *)
(* the agent's own session was replaced.                                   *)
Outcomes == {"none", "empty", "reply", "rotated", "partial"}
Persistable == {"reply", "rotated", "partial"}
ASSUME EndingsAssumption == Endings # {} /\ Endings \subseteq Outcomes

UserMessage(r) == [role |-> "user", by |-> Text[r]]
Notice(r) == [role |-> "notice", by |-> r]
Reply(r) == [role |-> "assistant", by |-> r]
Message ==
    {UserMessage(r) : r \in Runs} \cup {Notice(r) : r \in Runs} \cup {Reply(r) : r \in Runs}
Document == [multi : BOOLEAN, msgs : Seq(Message)]
ASSUME NoDocAssumption == NoDoc \notin Document

EmptyDoc == [multi |-> FALSE, msgs |-> <<>>]
EmptyPage == [state |-> "idle", msgs |-> <<>>, active |-> FALSE]

Has(d, m) == d # NoDoc /\ \E i \in DOMAIN d.msgs : d.msgs[i] = m

TypeOK ==
    /\ BufferTypeOK
    /\ ReaderTypeOK
    /\ doc \in Document \cup {NoDoc}
    /\ mapped \subseteq {Agent[r] : r \in Runs}
    /\ pc \in [Runs -> RunStates]
    /\ copy \in [Runs -> Document \cup {NoDoc}]
    /\ connected \in [Runs -> BOOLEAN]
    /\ sent \in [Runs -> 0 .. MaxContent]
    /\ outcome \in [Runs -> Outcomes]
    /\ failed \in [Runs -> BOOLEAN]
    /\ sawMapping \in [Runs -> BOOLEAN]
    /\ naming \in [Runs -> {"off", "get", "set"}]
    /\ crashes \in 0 .. MaxCrashes
    /\ page \in [Loaders -> [state : {"idle", "loaded", "shown"},
                             msgs : Seq(Message), active : BOOLEAN]]
    /\ deleting \in {"idle", "scanned", "done"}
    /\ victims \subseteq {Agent[r] : r \in Runs}
    /\ owner \in Runs \cup {NoRun}
    /\ latest \in Runs \cup {NoRun}
    /\ saved \subseteq Runs

Init ==
    /\ BufferInit
    /\ ReaderInit
    /\ doc = IF Creator = NoRun THEN EmptyDoc ELSE NoDoc
    /\ mapped = {}
    /\ pc = [r \in Runs |-> "idle"]
    /\ copy = [r \in Runs |-> NoDoc]
    /\ connected = [r \in Runs |-> TRUE]
    /\ sent = [r \in Runs |-> 0]
    /\ outcome = [r \in Runs |-> "none"]
    /\ failed = [r \in Runs |-> FALSE]
    /\ sawMapping = [r \in Runs |-> FALSE]
    /\ naming = [r \in Runs |-> "off"]
    /\ crashes = MaxCrashes
    /\ page = [l \in Loaders |-> EmptyPage]
    /\ deleting = "idle"
    /\ victims = {}
    /\ owner = NoRun
    /\ latest = NoRun
    /\ saved = {}

-----------------------------------------------------------------------------
(* What a run's step leaves alone when it touches neither buffer nor session. *)
Quiet == UNCHANGED <<readerVars, crashes, page, deleteVars>>
SameBuffer == UNCHANGED <<flag, stream, log>>
SameRun == UNCHANGED <<connected, sent, naming>>

Goes(r, state) == pc' = [pc EXCEPT ![r] = state]

(* A command on the request's context fails with Redis, or because the     *)
(* client is gone and the context is cancelled.                            *)
CommandFails(r) == Fails \/ (~connected[r] /\ Succeeds)

Lookback == 5

(* addMessageLua: atomic append; a user message equal to one of the last   *)
(* five is not repeated.                                                   *)
Duplicate(d, m) ==
    /\ m.role = "user"
    /\ \E i \in DOMAIN d.msgs : i > Len(d.msgs) - Lookback /\ d.msgs[i] = m
AddMessage(m) ==
    /\ doc # NoDoc
    /\ doc' = IF Duplicate(doc, m) THEN doc ELSE [doc EXCEPT !.msgs = Append(@, m)]

(* Chat without a session_id: CreateSession. *)
CreateSession(r) ==
    /\ r = Creator
    /\ pc[r] = "idle"
    /\ \/ /\ doc' = EmptyDoc
          /\ copy' = [copy EXCEPT ![r] = EmptyDoc]
          /\ Goes(r, IF r \in Upgrading THEN "upgrade" ELSE "user")
          /\ Succeeds
       \/ /\ Goes(r, "rejected")
          /\ UNCHANGED <<doc, copy>>
          /\ CommandFails(r)
    /\ UNCHANGED <<mapped, outcome, failed, sawMapping, historyVars>>
    /\ SameRun /\ SameBuffer /\ Quiet

(* Chat with a session_id: GetSession; an absent session is a 404. *)
LoadSession(r) ==
    /\ r # Creator
    /\ Creator # NoRun => pc[Creator] # "idle"
    /\ pc[r] = "idle"
    /\ \/ /\ doc # NoDoc
          /\ copy' = [copy EXCEPT ![r] = doc]
          /\ Goes(r, IF r \in Upgrading /\ ~doc.multi THEN "upgrade" ELSE "user")
          /\ Succeeds
       \/ doc = NoDoc /\ Goes(r, "rejected") /\ UNCHANGED copy /\ Succeeds
       \/ Goes(r, "rejected") /\ UNCHANGED copy /\ CommandFails(r)
    /\ UNCHANGED <<docVars, outcome, failed, sawMapping, historyVars>>
    /\ SameRun /\ SameBuffer /\ Quiet

(* SaveSession of the run's own copy, now multi-agent; its error is logged. *)
UpgradeSession(r) ==
    /\ pc[r] = "upgrade"
    /\ \/ doc' = [copy[r] EXCEPT !.multi = TRUE] /\ Succeeds
       \/ UNCHANGED doc /\ CommandFails(r)
    /\ Goes(r, "user")
    /\ UNCHANGED <<mapped, copy, outcome, failed, sawMapping, historyVars>>
    /\ SameRun /\ SameBuffer /\ Quiet

(* Mutant: a failure to store the question is only logged. *)
AddUserMessageLogged(r) ==
    /\ pc[r] = "user"
    /\ \/ AddMessage(UserMessage(r)) /\ Succeeds
       \/ UNCHANGED doc /\ CommandFails(r)
    /\ Goes(r, "mappingRead")
    /\ UNCHANGED <<mapped, copy, outcome, failed, sawMapping, historyVars>>
    /\ SameRun /\ SameBuffer /\ Quiet

(* AddMessage of the user's message; any error is a 500. *)
AddUserMessage(r) ==
    /\ pc[r] = "user"
    /\ \/ AddMessage(UserMessage(r)) /\ Goes(r, "mappingRead") /\ Succeeds
       \/ doc = NoDoc /\ Goes(r, "rejected") /\ UNCHANGED doc /\ Succeeds
       \/ Goes(r, "rejected") /\ UNCHANGED doc /\ CommandFails(r)
    /\ UNCHANGED <<mapped, copy, outcome, failed, sawMapping, historyVars>>
    /\ SameRun /\ SameBuffer /\ Quiet

(* GetAgentSessionID; its error reads as no mapping. *)
ReadMapping(r) ==
    /\ pc[r] = "mappingRead"
    /\ \/ sawMapping' = [sawMapping EXCEPT ![r] = Agent[r] \in mapped] /\ Succeeds
       \/ UNCHANGED sawMapping /\ CommandFails(r)
    /\ Goes(r, "drop")
    /\ UNCHANGED <<docVars, copy, outcome, failed, historyVars>>
    /\ SameRun /\ SameBuffer /\ Quiet

(* SetActiveRun's DEL; its error is ignored. *)
DropOldStream(r) ==
    /\ pc[r] = "drop"
    /\ \/ DropStream /\ owner' = r /\ Succeeds
       \/ UNCHANGED <<stream, owner>> /\ CommandFails(r)
    /\ Goes(r, "flag")
    /\ UNCHANGED <<flag, log, docVars, copy, outcome, failed, sawMapping, latest, saved>>
    /\ SameRun /\ Quiet

(* SetActiveRun's SET; Chat ignores its error. *)
RaiseFlag(r) ==
    /\ pc[r] = "flag"
    /\ \/ SetFlag(r) /\ latest' = r /\ Succeeds
       \/ UNCHANGED <<flag, latest>> /\ CommandFails(r)
    /\ Goes(r, "start")
    /\ UNCHANGED <<stream, log, docVars, copy, outcome, failed, sawMapping, owner, saved>>
    /\ SameRun /\ Quiet

(* SendRunStarted: buffered first, then written; when the write fails Chat *)
(* returns, and only the deferred clear of the flag is left to do.         *)
SendRunStarted(r) ==
    /\ pc[r] = "start"
    /\ AppendRunEvent(r, "started")
    /\ \/ Goes(r, "stream")
       \/ ~connected[r] /\ Goes(r, "clear")
    /\ UNCHANGED <<flag, docVars, copy, outcome, failed, sawMapping, historyVars>>
    /\ SameRun /\ Quiet

(* SendAGUIEvent during the agent call: buffered first, then written.  The *)
(* first failing write ends the call of a proxy that does not drain, and   *)
(* nothing of the answer is left to store.                                 *)
EmitContent(r) ==
    /\ pc[r] = "stream"
    /\ sent[r] < MaxContent
    /\ AppendRunEvent(r, "content")
    /\ sent' = [sent EXCEPT ![r] = @ + 1]
    /\ \/ UNCHANGED <<pc, failed>>
       \/ /\ ~connected[r] /\ r \notin Draining
          /\ Goes(r, "finish")
          /\ failed' = [failed EXCEPT ![r] = TRUE]
    /\ UNCHANGED <<flag, docVars, copy, connected, outcome, sawMapping, naming, historyVars>>
    /\ Quiet

(* proxy.Handle returns; a result with nothing to store skips persistence. *)
AgentReturns(r) ==
    /\ pc[r] = "stream"
    /\ \E how \in Endings :
        /\ outcome' = [outcome EXCEPT ![r] = how]
        /\ failed' = [failed EXCEPT ![r] = how \in {"none", "partial"}]
        /\ Goes(r, IF how = "rotated" THEN "rotation"
                   ELSE IF how \in Persistable THEN "reply" ELSE "finish")
    /\ UNCHANGED <<docVars, copy, sawMapping, historyVars, faults>>
    /\ SameRun /\ SameBuffer /\ Quiet

(* persistTurnResult, when the agent's session was rotated: a notice. *)
StoreNotice(r) ==
    /\ pc[r] = "rotation"
    /\ \/ AddMessage(Notice(r)) /\ UNCHANGED failed /\ Succeeds
       \/ /\ UNCHANGED doc
          /\ failed' = [failed EXCEPT ![r] = TRUE]
          /\ (doc = NoDoc /\ Succeeds) \/ Fails
    /\ Goes(r, "reply")
    /\ UNCHANGED <<mapped, copy, outcome, sawMapping, historyVars>>
    /\ SameRun /\ SameBuffer /\ Quiet

(* Mutant: a reply that could not be stored is only logged. *)
StoreReplyLogged(r) ==
    /\ pc[r] = "reply"
    /\ \/ AddMessage(Reply(r)) /\ saved' = saved \cup {r} /\ Succeeds
       \/ UNCHANGED <<doc, saved>> /\ ((doc = NoDoc /\ Succeeds) \/ Fails)
    /\ Goes(r, "finish")
    /\ UNCHANGED <<mapped, copy, outcome, failed, sawMapping, owner, latest>>
    /\ SameRun /\ SameBuffer /\ Quiet

(* persistTurnResult: the reply; the mapping follows only a success. *)
StoreReply(r) ==
    /\ pc[r] = "reply"
    /\ \/ /\ AddMessage(Reply(r))
          /\ saved' = saved \cup {r}
          /\ Goes(r, IF outcome[r] = "partial" THEN "finish" ELSE "mapping")
          /\ UNCHANGED failed
          /\ Succeeds
       \/ /\ Goes(r, "finish")
          /\ failed' = [failed EXCEPT ![r] = TRUE]
          /\ UNCHANGED <<doc, saved>>
          /\ (doc = NoDoc /\ Succeeds) \/ Fails
    /\ UNCHANGED <<mapped, copy, outcome, sawMapping, owner, latest>>
    /\ SameRun /\ SameBuffer /\ Quiet

(* persistTurnResult: SetAgentSessionID, needed when the run saw no        *)
(* mapping or the agent answered with another session of its own.          *)
StoreMapping(r) ==
    /\ pc[r] = "mapping"
    /\ \/ mapped' = mapped \cup {Agent[r]} /\ UNCHANGED failed /\ Succeeds
       \/ sawMapping[r] /\ UNCHANGED <<mapped, failed>> /\ Succeeds
       \/ UNCHANGED mapped /\ failed' = [failed EXCEPT ![r] = TRUE] /\ Fails
    /\ Goes(r, "finish")
    /\ UNCHANGED <<doc, copy, outcome, sawMapping, historyVars>>
    /\ SameRun /\ SameBuffer /\ Quiet

(* The terminal event, and the goroutine that names a new session. *)
SendTerminal(r) ==
    /\ pc[r] = "finish"
    /\ AppendRunEvent(r, IF failed[r] THEN "error" ELSE "finished")
    /\ naming' = [naming EXCEPT ![r] =
           IF r = Creator /\ r \in Naming /\ outcome[r] \in Persistable THEN "get" ELSE "off"]
    /\ Goes(r, "clear")
    /\ UNCHANGED <<flag, docVars, copy, connected, sent, outcome, failed, sawMapping, historyVars>>
    /\ Quiet

(* The deferred ClearActiveRun, on a context of its own. *)
LowerFlag(r) ==
    /\ pc[r] = "clear"
    /\ (ClearActiveRun(r) /\ Succeeds) \/ (UNCHANGED flag /\ Fails)
    /\ Goes(r, "done")
    /\ UNCHANGED <<stream, log, docVars, copy, outcome, failed, sawMapping, historyVars>>
    /\ SameRun /\ Quiet

(* RenameSession, reading the document ... *)
NamerReads(r) ==
    /\ naming[r] = "get"
    /\ IF doc = NoDoc
       THEN naming' = [naming EXCEPT ![r] = "off"] /\ UNCHANGED copy
       ELSE naming' = [naming EXCEPT ![r] = "set"] /\ copy' = [copy EXCEPT ![r] = doc]
    /\ UNCHANGED <<docVars, pc, connected, sent, outcome, failed, sawMapping, historyVars, faults>>
    /\ SameBuffer /\ Quiet

(* ... and writing it back, renamed. *)
NamerWrites(r) ==
    /\ naming[r] = "set"
    /\ doc' = copy[r]
    /\ naming' = [naming EXCEPT ![r] = "off"]
    /\ UNCHANGED <<mapped, pc, copy, connected, sent, outcome, failed, sawMapping, historyVars, faults>>
    /\ SameBuffer /\ Quiet

(* The LLM, Redis or the server fails the namer. *)
NamerFails(r) ==
    /\ naming[r] # "off"
    /\ naming' = [naming EXCEPT ![r] = "off"]
    /\ UNCHANGED <<docVars, pc, copy, connected, sent, outcome, failed, sawMapping, historyVars, faults>>
    /\ SameBuffer /\ Quiet

-----------------------------------------------------------------------------
(* The client of a run goes away: its writes and its context may now fail. *)
Disconnect(r) ==
    /\ r \in Leaving
    /\ connected[r]
    /\ pc[r] \notin {"idle"} \cup RunStopped
    /\ connected' = [connected EXCEPT ![r] = FALSE]
    /\ UNCHANGED <<bufferVars, docVars, pc, copy, sent, outcome, failed, sawMapping, naming, historyVars>>
    /\ Quiet

(* The server handling a run dies. *)
Crash(r) ==
    /\ crashes > 0
    /\ pc[r] \notin {"idle"} \cup RunStopped
    /\ crashes' = crashes - 1
    /\ pc' = [pc EXCEPT ![r] = "crashed"]
    /\ naming' = [naming EXCEPT ![r] = "off"]
    /\ UNCHANGED <<bufferVars, readerVars, docVars, copy, connected, sent, outcome, failed,
                   sawMapping, page, deleteVars, historyVars>>

(* activeRunTTL: set once, with the flag, and as long as an agent call may *)
(* take; only a run of LongRuns is still at work when it passes.           *)
ExpireFlag ==
    /\ HasActiveRun
    /\ flag \in LongRuns \/ pc[flag] \in RunStopped
    /\ flag' = NoRun
    /\ UNCHANGED <<stream, log, faults, docVars, runVars, historyVars>>
    /\ Quiet

(* runEventsTTL: renewed by every event, so no short run is still emitting. *)
Emitting == {"stream", "rotation", "reply", "mapping", "finish", "clear"}
ExpireStream ==
    /\ stream # {}
    /\ \A r \in Runs \ LongRuns : pc[r] \notin Emitting
    /\ stream' = {}
    /\ UNCHANGED <<flag, log, faults, docVars, runVars, historyVars>>
    /\ Quiet

(* DeleteSession scans the mapping keys, then deletes everything it found. *)
ScanMappings ==
    /\ MayDelete
    /\ deleting = "idle"
    /\ doc # NoDoc
    /\ deleting' = "scanned"
    /\ victims' = mapped
    /\ UNCHANGED <<bufferVars, readerVars, docVars, runVars, crashes, page, historyVars>>
DeleteKeys ==
    /\ deleting = "scanned"
    /\ deleting' = "done"
    /\ doc' = NoDoc
    /\ mapped' = mapped \ victims
    /\ UNCHANGED <<bufferVars, readerVars, runVars, crashes, page, victims, historyVars>>

(* GET of the session: GetSessionPaginated first, HasActiveRun second; an  *)
(* error of the latter counts as no active run.                            *)
LoadMessages(l) ==
    /\ page[l].state = "idle"
    /\ doc # NoDoc
    /\ page' = [page EXCEPT ![l] = [@ EXCEPT !.state = "loaded", !.msgs = doc.msgs]]
    /\ UNCHANGED <<bufferVars, readerVars, docVars, runVars, crashes, deleteVars, historyVars>>
LoadActive(l) ==
    /\ page[l].state = "loaded"
    /\ \/ page' = [page EXCEPT ![l] = [@ EXCEPT !.state = "shown", !.active = HasActiveRun]] /\ Succeeds
       \/ page' = [page EXCEPT ![l] = [@ EXCEPT !.state = "shown", !.active = FALSE]] /\ Fails
    /\ SameBuffer
    /\ UNCHANGED <<readerVars, docVars, runVars, crashes, deleteVars, historyVars>>

-----------------------------------------------------------------------------
(* What the handler of a run does by itself once the request is in. *)
RunStep(r) ==
    \/ UpgradeSession(r) \/ AddUserMessage(r) \/ ReadMapping(r)
    \/ DropOldStream(r) \/ RaiseFlag(r) \/ SendRunStarted(r)
    \/ EmitContent(r) \/ AgentReturns(r)
    \/ StoreNotice(r) \/ StoreReply(r) \/ StoreMapping(r)
    \/ SendTerminal(r) \/ LowerFlag(r)
NamerStep(r) == NamerReads(r) \/ NamerWrites(r) \/ NamerFails(r)
ReaderMoves(k) ==
    /\ ReaderStep(k)
    /\ UNCHANGED <<docVars, runVars, crashes, page, deleteVars, historyVars>>

Next ==
    \/ \E r \in Runs : CreateSession(r) \/ LoadSession(r) \/ RunStep(r) \/ NamerStep(r)
    \/ \E r \in Runs : Disconnect(r) \/ Crash(r)
    \/ \E k \in Readers : ReaderMoves(k)
    \/ \E l \in Loaders : LoadMessages(l) \/ LoadActive(l)
    \/ ExpireFlag \/ ExpireStream \/ ScanMappings \/ DeleteKeys

Spec == Init /\ [][Next]_vars

(* Handlers and agent calls are bounded by timeouts, keys expire, and an   *)
(* XREAD returns within its block window.  No client is made to act.       *)
ReaderServed(k) ==
    /\ CheckFlag(k) \/ Read(k) \/ BlockExpires(k) \/ CheckIdle(k)
    /\ UNCHANGED <<docVars, runVars, crashes, page, deleteVars, historyVars>>
Fairness ==
    /\ \A r \in Runs : WF_vars(RunStep(r))
    /\ \A k \in Readers : WF_vars(ReaderServed(k))
    /\ WF_vars(ExpireFlag)
FairSpec == Spec /\ Fairness

-----------------------------------------------------------------------------
(* RUN_FINISHED is emitted only when the run's reply has been acknowledged *)
(* by AddMessage, or when the agent returned nothing to store (the order   *)
(* persistTurnResult, terminal event in Chat).                             *)
FinishedMeansSaved ==
    \A i \in DOMAIN log :
        log[i].kind = "finished" =>
            log[i].run \in saved \/ outcome[log[i].run] = "empty"

(* Without a flag, the run that raised it last is over: its reply, if any, *)
(* is stored or its failure was recorded before the flag went (the order   *)
(* persist, terminal, deferred clear in Chat, and the token compare of     *)
(* clearActiveRunScript).  Crashes and runs outliving the TTL excepted.    *)
LatestIsSettled ==
    (~HasActiveRun /\ latest # NoRun /\ latest \notin LongRuns /\ pc[latest] # "crashed") =>
        /\ pc[latest] = "done"
        /\ outcome[latest] \in Persistable => latest \in saved \/ failed[latest]

(* The flag of a run at work is taken from it only by its own clear or by  *)
(* a newer run raising its own (the token of ClearActiveRun).              *)
FlagLostOnlyToNewer ==
    [][\A r \in Runs \ LongRuns :
           (flag = r /\ flag' # r /\ pc[r] \notin RunStopped) =>
               \/ pc[r] = "clear" /\ pc'[r] = "done"
               \/ \E q \in Runs \ {r} : pc[q] = "flag" /\ flag' = q]_vars

(* The run that emptied the stream last loses no event to a reader: of its *)
(* events up to a reader's position, all were written, as long as nothing  *)
(* had to be trimmed; and a reader closed by its terminal event has them   *)
(* all (SetActiveRun's DEL before the run's first event, and XREAD's       *)
(* exclusive IDs).                                                         *)
OwnerReplayed ==
    \A k \in Readers :
        (/\ owner # NoRun /\ owner \notin LongRuns /\ Len(log) <= StreamCap
         /\ \/ pc[owner] \in Emitting
            \/ rpc[k] = "terminal" /\ log[last[k]].run = owner) =>
        {i \in DOMAIN log : log[i].run = owner /\ i <= last[k]} \subseteq got[k]

(* An agent is mapped to a session of its own only after a run of it ended *)
(* without error and its reply was stored (persistTurnResult).             *)
MappedMeansAnswered ==
    \A a \in mapped :
        \E r \in saved : Agent[r] = a /\ outcome[r] \in {"reply", "rotated"}

(* The parallel requests of a broadcast store their common message once    *)
(* (the lookback of addMessageLua), whatever stale copies of the document  *)
(* were written back in between.                                           *)
BroadcastStoredOnce ==
    doc # NoDoc =>
        \A i, j \in DOMAIN doc.msgs :
            (i < j /\ j <= i + Lookback /\ doc.msgs[i].role = "user") => doc.msgs[i] # doc.msgs[j]

(* A reply in the session, or on a page served from it, follows the        *)
(* question it answers (Chat stores the user's message first and gives up  *)
(* when that fails).  Only while no stale document is written back over a  *)
(* question: see RepliesSurvive.                                           *)
AnswersInOrder(msgs) ==
    \A r \in Runs, j \in DOMAIN msgs :
        msgs[j] = Reply(r) => \E i \in 1 .. j : msgs[i] = UserMessage(r)
QuestionPrecedesReply ==
    /\ doc # NoDoc => AnswersInOrder(doc.msgs)
    /\ \A l \in Loaders : AnswersInOrder(page[l].msgs)

(* A flag does not stay: its run lowers it, a newer run replaces it, or    *)
(* its TTL removes it after a crash or a failed clear.                     *)
FlagFalls == \A r \in Runs : flag = r ~> flag # r

(* A reader in the XREAD loop is not kept there for ever: it meets a       *)
(* terminal event or finds the session idle, crashes and lost terminal     *)
(* events included.                                                        *)
ReaderEnds == \A k \in Readers : rpc[k] = "open" ~> rpc[k] \in ReaderStopped

(* What a crash leaves behind goes away: the flag and the waiting readers. *)
Recovers == FlagFalls /\ ReaderEnds

(* Questions, replies and mapped agent sessions come in that order.        *)
RepliesInOrder == QuestionPrecedesReply /\ MappedMeansAnswered

(* Of a broadcast the common message is stored once and the run that owns  *)
(* the stream is replayed whole.                                           *)
BroadcastWhole == BroadcastStoredOnce /\ OwnerReplayed
=============================================================================
