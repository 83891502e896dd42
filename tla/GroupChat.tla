------------------------------ MODULE GroupChat ------------------------------
(***************************************************************************)
(* POST /api/groups/{id}/chat (handlers/group_chat.go): one moderated      *)
(* debate from the request to its terminal event.  The handler opens or    *)
(* resumes the personal group session, stores the question, raises the     *)
(* active-run flag, runs each turn of the Debate through an agent's proxy, *)
(* stores what comes back, adds the moderator's own messages, and tells    *)
(* the client how the debate ended.  Every command may fail, the deadline  *)
(* may pass, the client may leave and the user may delete the session at   *)
(* any point in between.                                                   *)
(***************************************************************************)
EXTENDS Debate, RunBuffer

CONSTANTS
    ThisRun,    \* the request ID of the run
    Calls,      \* how an agent's call may end: a subset of CallResult
    Draining,   \* agents whose proxy keeps reading without a client
    MayExpire,  \* whether the debate's deadline may pass
    MayLeave,   \* whether the client may go away
    MayDelete   \* whether the user may delete the session

ASSUME ThisRunAssumption == ThisRun \in Runs

(* What proxy.Handle leaves behind: the text of the answer, whether the    *)
(* call or its stream failed, whether there is anything to store (text,    *)
(* charts, tool calls, a stream error), and whether the agent's own        *)
(* session was rotated on the way.                                         *)
CallResult == [text : Texts, err : BOOLEAN, content : BOOLEAN, rotated : BOOLEAN]
Failure == [text |-> "none", err |-> TRUE, content |-> FALSE, rotated |-> FALSE]
ASSUME CallsAssumption ==
    Calls # {} /\ Calls \subseteq {c \in CallResult : c.text # "none" => c.content}
ASSUME FlagsAssumption == {MayExpire, MayLeave, MayDelete} \subseteq BOOLEAN

VARIABLES
    pc,         \* the handler's next step
    resuming,   \* whether the request names an existing session
    session,    \* session:<id>: absent, bare (just created), or group
    indexed,    \* whether agent_group_sessions lists the session
    stored,     \* the messages this run has added to the session
    known,      \* session.Messages: the handler's own copy of them
    mapped,     \* agents with an agent_session_map key
    sawMapping, \* hasAgentSession of the turn
    call,       \* what the turn's proxy call returned
    kinds,      \* the failures of the turn so far
    saying,     \* what the moderator's next message is about
    connected,  \* whether the client is still there
    told,       \* history: the events emitted, in order
    leaks       \* history: what a failed command left behind

storeVars == <<session, indexed, stored, mapped>>
turnVars == <<sawMapping, call, kinds>>
vars == <<debateVars, bufferVars, pc, resuming, storeVars, known, turnVars, saying,
          connected, told, leaks>>

States ==
    {"create", "save", "index", "load", "question", "unindex", "undo", "drop",
     "flag", "start", "debate", "select", "mappingRead", "call", "rotation",
     "reply", "mapping", "record", "verdict", "summary", "say", "show", "lost",
     "fail", "finish", "clear", "done", "rejected"}
Stopped == {"done", "rejected"}

Reasons ==
    {"timeout", "max_turns", "moderator_error", "persistence_error",
     "session_mapping_error", "all_agents_failed"}
Summaries == {"no_agent", "all_failed", "synthesis"}

(* A message, by the turn it belongs to (0: none) and what it is about. *)
Message == [turn : 0 .. MaxTurns,
            about : {"question", "notice", "reply"} \cup Reasons \cup Summaries]
Question == [turn |-> 0, about |-> "question"]
Notice == [turn |-> Len(turns) + 1, about |-> "notice"]
Reply(k) == [turn |-> k, about |-> "reply"]
Said(what) == [turn |-> 0, about |-> what]

(* What the client is told: the run's lifecycle, the choice of a speaker,  *)
(* a failed turn, a message, the reason why the debate is incomplete.      *)
Event == [kind : {"started", "select", "failed", "message", "incomplete", "finished", "error"},
          turn : 0 .. MaxTurns, about : {"", "reply"} \cup Reasons \cup Summaries]
Told(kind, k, about) == [kind |-> kind, turn |-> k, about |-> about]
Shows(m) == Told("message", m.turn, m.about)

In(x, s) == \E i \in DOMAIN s : s[i] = x

TypeOK ==
    /\ DebateTypeOK
    /\ BufferTypeOK
    /\ pc \in States
    /\ resuming \in BOOLEAN
    /\ session \in {"absent", "bare", "group"}
    /\ indexed \in BOOLEAN
    /\ stored \in Seq(Message)
    /\ known \in Seq(Message)
    /\ mapped \subseteq Members
    /\ sawMapping \in BOOLEAN
    /\ call \in CallResult
    /\ kinds \subseteq FailureKinds
    /\ saying \in Reasons \cup Summaries \cup {""}
    /\ connected \in BOOLEAN
    /\ told \in Seq(Event)
    /\ leaks \subseteq {"index", "session"}

Init ==
    /\ DebateInit
    /\ BufferInit
    /\ resuming \in BOOLEAN
    /\ pc = IF resuming THEN "load" ELSE "create"
    /\ session = IF resuming THEN "group" ELSE "absent"
    /\ indexed = resuming
    /\ stored = <<>>
    /\ known = <<>>
    /\ mapped = {}
    /\ sawMapping = FALSE
    /\ call = Failure
    /\ kinds = {}
    /\ saying = ""
    /\ connected = TRUE
    /\ told = <<>>
    /\ leaks = {}

-----------------------------------------------------------------------------
SameStore == UNCHANGED storeVars
SameTurn == UNCHANGED turnVars
SameBuffer == UNCHANGED <<flag, stream, log>>
SameClient == UNCHANGED <<resuming, connected, told>>

(* A command on the debate's context fails with its server, or for the     *)
(* deadline; those that store an answer have a time limit of their own.    *)
CommandFails == Fails \/ (expired /\ Succeeds)
AddFails == Fails \/ (session = "absent" /\ Succeeds)

AddMessage(m) == session # "absent" /\ stored' = Append(stored, m)

(* SendAGUIEvent: into the run buffer, then to the client if it is there. *)
Emit(kind, event) == AppendRunEvent(ThisRun, kind) /\ told' = Append(told, event)

(* getOrCreateGroupSession, without a session_id: the session, by commands *)
(* in a pipeline that is no transaction, so that its key may be there      *)
(* though it failed; nobody removes it then ...                            *)
CreateSession ==
    /\ pc = "create"
    /\ \/ session' = "bare" /\ UNCHANGED leaks /\ pc' = "save" /\ Succeeds
       \/ /\ \/ UNCHANGED <<session, leaks>>
             \/ session' = "bare" /\ leaks' = leaks \cup {"session"}
          /\ pc' = "rejected"
          /\ CommandFails
    /\ UNCHANGED <<debateVars, indexed, stored, mapped, known, saying>>
    /\ SameTurn /\ SameBuffer /\ SameClient

(* ... its group flags, written over whatever the key holds ... *)
SaveFlags ==
    /\ pc = "save"
    /\ \/ session' = "group" /\ pc' = "index" /\ Succeeds
       \/ UNCHANGED session /\ pc' = "unindex" /\ CommandFails
    /\ UNCHANGED <<debateVars, indexed, stored, mapped, known, saying, leaks>>
    /\ SameTurn /\ SameBuffer /\ SameClient

(* ... and its row in agent_group_sessions; a failed insert may be there. *)
IndexSession ==
    /\ pc = "index"
    /\ \/ indexed' = TRUE /\ pc' = "question" /\ Succeeds
       \/ indexed' \in {indexed, TRUE} /\ pc' = "unindex" /\ CommandFails
    /\ UNCHANGED <<debateVars, session, stored, mapped, known, saying, leaks>>
    /\ SameTurn /\ SameBuffer /\ SameClient

(* getOrCreateGroupSession, with a session_id: GetSession. *)
LoadSession ==
    /\ pc = "load"
    /\ \/ session # "absent" /\ pc' = "question" /\ Succeeds
       \/ session = "absent" /\ pc' = "rejected" /\ Succeeds
       \/ pc' = "rejected" /\ CommandFails
    /\ UNCHANGED <<debateVars, known, saying, leaks>>
    /\ SameStore /\ SameTurn /\ SameBuffer /\ SameClient

(* AddMessage of the question, which drops a repetition of a recent one; a *)
(* new session that cannot take it is removed again.                       *)
StoreQuestion ==
    /\ pc = "question"
    /\ \/ /\ \/ AddMessage(Question)
             \/ resuming /\ session # "absent" /\ UNCHANGED stored
          /\ known' = Append(known, Question)
          /\ pc' = "drop"
          /\ Succeeds
       \/ /\ pc' = IF resuming THEN "rejected" ELSE "unindex"
          /\ UNCHANGED <<stored, known>>
          /\ AddFails \/ CommandFails
    /\ UNCHANGED <<debateVars, session, indexed, mapped, saying, leaks>>
    /\ SameTurn /\ SameBuffer /\ SameClient

(* Mutant: only the session is removed. *)
SkipIndex ==
    /\ pc = "unindex"
    /\ pc' = "undo"
    /\ UNCHANGED <<debateVars, session, indexed, stored, mapped, known, saying, leaks, faults>>
    /\ SameTurn /\ SameBuffer /\ SameClient

(* deleteOrphanSession: RemoveSession ... *)
RemoveIndex ==
    /\ pc = "unindex"
    /\ pc' = "undo"
    /\ \/ indexed' = FALSE /\ UNCHANGED leaks /\ Succeeds
       \/ UNCHANGED indexed /\ leaks' = leaks \cup {"index"} /\ Fails
    /\ UNCHANGED <<debateVars, session, stored, mapped, known, saying>>
    /\ SameTurn /\ SameBuffer /\ SameClient

(* ... then DeleteSession, whatever became of the first. *)
UndoCreate ==
    /\ pc = "undo"
    /\ pc' = "rejected"
    /\ \/ session' = "absent" /\ stored' = <<>> /\ mapped' = {} /\ UNCHANGED leaks /\ Succeeds
       \/ UNCHANGED <<session, stored, mapped>> /\ leaks' = leaks \cup {"session"} /\ Fails
    /\ UNCHANGED <<debateVars, indexed, known, saying>>
    /\ SameTurn /\ SameBuffer /\ SameClient

-----------------------------------------------------------------------------
(* SetActiveRun, before the first event; its errors are ignored. *)
DropOldStream ==
    /\ pc = "drop"
    /\ pc' = "flag"
    /\ \/ DropStream /\ Succeeds
       \/ UNCHANGED stream /\ CommandFails
    /\ UNCHANGED <<debateVars, flag, log, known, saying, leaks>>
    /\ SameStore /\ SameTurn /\ SameClient

RaiseFlag ==
    /\ pc = "flag"
    /\ pc' = "start"
    /\ \/ SetFlag(ThisRun) /\ Succeeds
       \/ UNCHANGED flag /\ CommandFails
    /\ UNCHANGED <<debateVars, stream, log, known, saying, leaks>>
    /\ SameStore /\ SameTurn /\ SameClient

(* RUN_STARTED; if writing it fails the handler returns.  Else the debate  *)
(* begins.                                                                 *)
SendRunStarted ==
    /\ pc = "start"
    /\ Emit("started", Told("started", 0, ""))
    /\ \/ pc' = "debate" /\ Begin
       \/ ~connected /\ pc' = "clear" /\ UNCHANGED debateVars
    /\ UNCHANGED <<flag, known, saying, resuming, connected, leaks>>
    /\ SameStore /\ SameTurn

(* A step of the loop in Debate that involves no agent. *)
Moderate ==
    /\ pc = "debate"
    /\ NextRound \/ AskModerator \/ AskAgain
    /\ pc' = CASE dpc' = "turn" -> "select"
                [] dpc' = "over" -> "verdict"
                [] OTHER -> "debate"
    /\ UNCHANGED <<faults, known, saying, leaks>>
    /\ SameStore /\ SameTurn /\ SameBuffer /\ SameClient

-----------------------------------------------------------------------------
ThisTurn == Len(turns) + 1

(* moderator.select, and the check of the time that remains. *)
AnnounceTurn ==
    /\ pc = "select"
    /\ Emit("content", Told("select", ThisTurn, ""))
    /\ call' = Failure
    /\ \/ expired /\ kinds' = {"agent"} /\ pc' = "record"
       \/ ~expired /\ kinds' = {} /\ pc' = "mappingRead"
    /\ UNCHANGED <<debateVars, flag, known, sawMapping, saying, resuming, connected, leaks>>
    /\ SameStore

(* GetAgentSessionID; its failure is the turn's. *)
ReadMapping ==
    /\ pc = "mappingRead"
    /\ \/ /\ sawMapping' = (speaker \in mapped)
          /\ pc' = "call"
          /\ UNCHANGED kinds
          /\ Succeeds
       \/ /\ kinds' = {"mapping"}
          /\ pc' = "record"
          /\ UNCHANGED sawMapping
          /\ CommandFails
    /\ UNCHANGED <<debateVars, call, known, saying, leaks>>
    /\ SameStore /\ SameBuffer /\ SameClient

(* A call fails for its own reasons, for the deadline, or, when its proxy  *)
(* stops at the first event it cannot write, because the client has left.  *)
Outcomes ==
    IF expired \/ (~connected /\ speaker \notin Draining)
    THEN Calls \cup {Failure} ELSE Calls

(* proxy.Handle: the agent's events, or turn.error, go to the client. *)
CallAgent ==
    /\ pc = "call"
    /\ \E c \in Outcomes :
        /\ call' = c
        /\ kinds' = IF c.err THEN {"agent"} ELSE {}
        /\ pc' = IF ~c.content THEN "record" ELSE IF c.rotated THEN "rotation" ELSE "reply"
        /\ CASE c.text # "none" -> Emit("content", Shows(Reply(ThisTurn)))
             [] c.text = "none" /\ c.err -> Emit("content", Told("failed", ThisTurn, ""))
             [] OTHER -> UNCHANGED <<log, stream, told, faults>>
    /\ UNCHANGED <<debateVars, flag, known, sawMapping, saying, resuming, connected, leaks>>
    /\ SameStore

(* persistTurnResult: the notice of a rotation, ... *)
StoreNotice ==
    /\ pc = "rotation"
    /\ pc' = "reply"
    /\ \/ AddMessage(Notice) /\ UNCHANGED kinds /\ Succeeds
       \/ UNCHANGED stored /\ kinds' = kinds \cup {"persistence"} /\ AddFails
    /\ UNCHANGED <<debateVars, session, indexed, mapped, known, sawMapping, call, saying, leaks>>
    /\ SameBuffer /\ SameClient

(* Mutant: the handler's copy of the session is not kept up. *)
StoreReplyOnly ==
    /\ pc = "reply"
    /\ AddMessage(Reply(ThisTurn))
    /\ pc' = IF call.err THEN "record" ELSE "mapping"
    /\ Succeeds
    /\ UNCHANGED <<debateVars, session, indexed, mapped, known, sawMapping, call, kinds, saying, leaks>>
    /\ SameBuffer /\ SameClient

(* ... the reply, with the handler's copy of it, ... *)
StoreReply ==
    /\ pc = "reply"
    /\ \/ /\ AddMessage(Reply(ThisTurn))
          /\ known' = Append(known, Reply(ThisTurn))
          /\ pc' = IF call.err THEN "record" ELSE "mapping"
          /\ UNCHANGED kinds
          /\ Succeeds
       \/ /\ UNCHANGED <<stored, known>>
          /\ kinds' = kinds \cup {"persistence"}
          /\ pc' = "record"
          /\ AddFails
    /\ UNCHANGED <<debateVars, session, indexed, mapped, sawMapping, call, saying, leaks>>
    /\ SameBuffer /\ SameClient

(* ... and, after a good one, the agent's session: when it is a new one    *)
(* or the turn saw none.                                                   *)
StoreMapping ==
    /\ pc = "mapping"
    /\ pc' = "record"
    /\ \/ mapped' = mapped \cup {speaker} /\ UNCHANGED kinds /\ Succeeds
       \/ sawMapping /\ UNCHANGED <<mapped, kinds>> /\ Succeeds
       \/ UNCHANGED mapped /\ kinds' = kinds \cup {"mapping"} /\ Fails
    /\ UNCHANGED <<debateVars, session, indexed, stored, known, sawMapping, call, saying, leaks>>
    /\ SameBuffer /\ SameClient

EndTurn ==
    /\ pc = "record"
    /\ pc' = "debate"
    /\ RecordTurn(call.text, kinds)
    /\ UNCHANGED <<expired, faults, known, saying, leaks>>
    /\ SameStore /\ SameTurn /\ SameBuffer /\ SameClient

-----------------------------------------------------------------------------
(* distinctRespondingSpeakers: a reply that could not be stored counts. *)
Speakers ==
    {turns[i].agent : i \in {j \in DOMAIN turns :
                               turns[j].text # "none" /\ "agent" \notin turns[j].kinds}}

Broken(i) == turns[i].kinds \cap {"persistence", "mapping"} # {}

(* debateIncompleteReason: how the loop ended, else what befell the first  *)
(* turn whose outcome was not stored, else that nobody answered; {} when   *)
(* the debate is complete.                                                 *)
IncompleteReason ==
    IF verdict # "finish" THEN {verdict}
    ELSE IF \E i \in DOMAIN turns : Broken(i) THEN
        LET first == CHOOSE i \in DOMAIN turns : Broken(i) /\ \A j \in 1 .. i - 1 : ~Broken(j)
        IN  {IF "persistence" \in turns[first].kinds THEN "persistence_error"
             ELSE "session_mapping_error"}
    ELSE IF turns # <<>> /\ Speakers = {} THEN {"all_agents_failed"}
    ELSE {}

(* A debate that failed before any turn is a run error; an incomplete one  *)
(* is announced, with a note unless the summary says it all.               *)
Conclude ==
    /\ pc = "verdict"
    /\ \/ /\ verdict # "finish" /\ turns = <<>>
          /\ pc' = "fail"
          /\ UNCHANGED <<log, stream, told, faults, saying>>
       \/ /\ IncompleteReason = {}
          /\ pc' = "summary"
          /\ UNCHANGED <<log, stream, told, faults, saying>>
       \/ \E reason \in IncompleteReason :
             /\ verdict = "finish" \/ turns # <<>>
             /\ Emit("content", Told("incomplete", 0, reason))
             /\ saying' = reason
             /\ pc' = IF reason = "all_agents_failed" THEN "summary" ELSE "say"
    /\ UNCHANGED <<debateVars, flag, known, resuming, connected, leaks>>
    /\ SameStore /\ SameTurn

(* Mutant: an incomplete debate is summed up like a complete one. *)
SummarizeAll ==
    /\ pc = "summary"
    /\ \/ Speakers # {} /\ saying' = "synthesis" /\ pc' = "say"
       \/ UNCHANGED saying /\ pc' = "finish"
    /\ UNCHANGED <<debateVars, faults, known, leaks>>
    /\ SameStore /\ SameTurn /\ SameBuffer /\ SameClient

(* Mutant: several speakers without a synthesis are not provided for. *)
SummarizeOne ==
    /\ pc = "summary"
    /\ \/ turns = <<>> /\ saying' = "no_agent" /\ pc' = "say"
       \/ turns # <<>> /\ Speakers = {} /\ saying' = "all_failed" /\ pc' = "say"
       \/ (\E a \in Members : Speakers = {a}) /\ UNCHANGED saying /\ pc' = "finish"
    /\ UNCHANGED <<debateVars, faults, known, leaks>>
    /\ SameStore /\ SameTurn /\ SameBuffer /\ SameClient

(* Nobody was asked, nobody answered, or several did: then the moderator   *)
(* may add a synthesis, unless its call fails or it has nothing to add.    *)
Summarize ==
    /\ pc = "summary"
    /\ \/ turns = <<>> /\ saying' = "no_agent" /\ pc' = "say"
       \/ turns # <<>> /\ Speakers = {} /\ saying' = "all_failed" /\ pc' = "say"
       \/ /\ \E a, b \in Speakers : a # b
          /\ IncompleteReason = {}
          /\ ~expired
          /\ saying' = "synthesis"
          /\ pc' = "say"
       \/ Speakers # {} /\ UNCHANGED saying /\ pc' = "finish"
    /\ UNCHANGED <<debateVars, faults, known, leaks>>
    /\ SameStore /\ SameTurn /\ SameBuffer /\ SameClient

(* emitModeratorMessage: stored first, ... *)
StoreSaying ==
    /\ pc = "say"
    /\ \/ /\ AddMessage(Said(saying))
          /\ known' = Append(known, Said(saying))
          /\ pc' = "show"
          /\ Succeeds
       \/ UNCHANGED <<stored, known>> /\ pc' = "lost" /\ AddFails
    /\ UNCHANGED <<debateVars, session, indexed, mapped, saying, leaks>>
    /\ SameTurn /\ SameBuffer /\ SameClient

(* ... then streamed; after the note on the ending comes the summary. *)
ShowSaying ==
    /\ pc = "show"
    /\ Emit("content", Shows(Said(saying)))
    /\ pc' = IF saying \in Reasons THEN "summary" ELSE "finish"
    /\ UNCHANGED <<debateVars, flag, known, saying, resuming, connected, leaks>>
    /\ SameStore /\ SameTurn

(* failModeratorPersistence, and RUN_ERROR. *)
ReportLoss ==
    /\ pc = "lost"
    /\ pc' = "fail"
    /\ Emit("content", Told("incomplete", 0, "persistence_error"))
    /\ UNCHANGED <<debateVars, flag, known, saying, resuming, connected, leaks>>
    /\ SameStore /\ SameTurn

SendRunError ==
    /\ pc = "fail"
    /\ pc' = "clear"
    /\ Emit("error", Told("error", 0, ""))
    /\ UNCHANGED <<debateVars, flag, known, saying, resuming, connected, leaks>>
    /\ SameStore /\ SameTurn

SendRunFinished ==
    /\ pc = "finish"
    /\ pc' = "clear"
    /\ Emit("finished", Told("finished", 0, ""))
    /\ UNCHANGED <<debateVars, flag, known, saying, resuming, connected, leaks>>
    /\ SameStore /\ SameTurn

(* The deferred ClearActiveRun. *)
LowerFlag ==
    /\ pc = "clear"
    /\ pc' = "done"
    /\ \/ ClearActiveRun(ThisRun) /\ Succeeds
       \/ UNCHANGED flag /\ Fails
    /\ UNCHANGED <<debateVars, stream, log, known, saying, leaks>>
    /\ SameStore /\ SameTurn /\ SameClient

-----------------------------------------------------------------------------
Others == UNCHANGED <<bufferVars, pc, resuming, known, turnVars, saying, told, leaks>>

PassDeadline ==
    /\ MayExpire
    /\ pc \notin Stopped
    /\ Expire
    /\ UNCHANGED <<storeVars, connected>>
    /\ Others

Leave ==
    /\ MayLeave
    /\ connected
    /\ pc \notin Stopped
    /\ connected' = FALSE
    /\ UNCHANGED <<debateVars, storeVars>>
    /\ Others

(* DeleteSession, from the sidebar: agent_group_sessions keeps its row. *)
DeleteSession ==
    /\ MayDelete
    /\ session = "group"
    /\ session' = "absent"
    /\ stored' = <<>>
    /\ mapped' = {}
    /\ UNCHANGED <<debateVars, indexed, connected>>
    /\ Others

Step ==
    \/ CreateSession \/ SaveFlags \/ IndexSession \/ LoadSession
    \/ StoreQuestion \/ RemoveIndex \/ UndoCreate
    \/ DropOldStream \/ RaiseFlag \/ SendRunStarted
    \/ Moderate \/ AnnounceTurn \/ ReadMapping \/ CallAgent
    \/ StoreNotice \/ StoreReply \/ StoreMapping \/ EndTurn
    \/ Conclude \/ Summarize \/ StoreSaying \/ ShowSaying \/ ReportLoss
    \/ SendRunError \/ SendRunFinished \/ LowerFlag

Next == Step \/ PassDeadline \/ Leave \/ DeleteSession

Spec == Init /\ [][Next]_vars

(* The handler runs on; model and agent calls end by the deadline. *)
FairSpec == Spec /\ WF_vars(Step)

-----------------------------------------------------------------------------
Terminal == {"finished", "error"}
Incomplete == \E i \in DOMAIN told : told[i].kind = "incomplete"
ToldFinished == \E i \in DOMAIN told : told[i].kind = "finished"

(* group_chat.go:212: nothing follows a terminal event, and a handler that *)
(* began its debate does not return without one.                           *)
OneTerminal ==
    /\ \A i \in DOMAIN told : told[i].kind \in Terminal => i = Len(told)
    /\ (pc = "done" /\ dpc # "idle") => told[Len(told)].kind \in Terminal

(* What the client saw is what it finds again: after RUN_FINISHED with no  *)
(* debate.incomplete, every reply it was shown is in the session, in that  *)
(* order, unless the user has deleted the session.                         *)
SavedOrSignalled ==
    (ToldFinished /\ ~Incomplete /\ session # "absent") =>
        LET Kept(k) == CHOOSE i \in DOMAIN stored : stored[i] = Reply(k)
            seen == {told[i].turn : i \in {j \in DOMAIN told : told[j].about = "reply"}}
        IN  /\ \A k \in seen : In(Reply(k), stored)
            /\ \A k, l \in seen : k < l => Kept(k) < Kept(l)

(* group_chat.go:365-371: every message of the moderator that is shown has *)
(* been stored before.                                                     *)
ModeratorStoredFirst ==
    session # "absent" =>
        \A i \in DOMAIN told :
            (told[i].kind = "message" /\ told[i].turn = 0) => In(Said(told[i].about), stored)

(* group_chat.go:556-582: a request refused before its run began leaves    *)
(* neither a session nor a row of the group's index behind, but for what   *)
(* the cleanup itself, or the pipeline that creates the session (store/    *)
(* redis.go:116-122), failed on half-way.                                  *)
NoOrphan ==
    (pc = "rejected" /\ ~resuming) =>
        /\ session # "absent" => "session" \in leaks
        /\ indexed => "index" \in leaks

(* group_chat.go:324-330: the copy of the session that the next agent's    *)
(* context and the synthesis are made from has the replies Redis has.      *)
MemoryMatchesStore ==
    (pc \in {"call", "verdict", "say"} /\ session # "absent") =>
        \A k \in 1 .. MaxTurns : In(Reply(k), known) <=> In(Reply(k), stored)

(* handlers/proxy.go:701-702: an agent's session is mapped only for an     *)
(* answer that came without an error and was stored.                       *)
MappedMeansAnswered ==
    \A a \in mapped :
        \/ a = speaker /\ pc = "record" /\ ~call.err
        \/ \E i \in DOMAIN turns :
              /\ turns[i].agent = a
              /\ "agent" \notin turns[i].kinds
              /\ In(Reply(i), known)

(* debateIncompleteReason: the reason the client is given is true of the   *)
(* debate it was given for.                                                *)
ReasonTrue ==
    \A i \in DOMAIN told :
        LET reason == told[i].about
            Befell(kind) == \E t \in DOMAIN turns : kind \in turns[t].kinds
        IN  told[i].kind = "incomplete" =>
              /\ reason = "timeout" => expired
              /\ reason = "max_turns" => Len(turns) = MaxTurns
              /\ reason = "session_mapping_error" => Befell("mapping")
              /\ reason = "persistence_error" =>
                     Befell("persistence") \/ pc \in {"fail", "clear", "done"}
              /\ reason = "all_agents_failed" =>
                     \A t \in DOMAIN turns : turns[t].text = "none" \/ "agent" \in turns[t].kinds

(* group_chat.go:423-434: a synthesis is made only of a complete debate in *)
(* which two agents' replies are in the session.                           *)
SynthesisJustified ==
    (In(Shows(Said("synthesis")), told) /\ session # "absent") =>
        /\ ~Incomplete
        /\ \E i, j \in DOMAIN turns :
              /\ turns[i].agent # turns[j].agent
              /\ In(Reply(i), stored) /\ In(Reply(j), stored)

Announced(k) == In(Told("select", k, ""), told)
Answers(k) == In(Told("message", k, "reply"), told)

(* orchestrator.go:254-262, group_chat.go:244-247: the limits of a group   *)
(* hold of what its client sees.  Turns are announced in order, each once, *)
(* and no more than the limit.  When the deadline passes, one more may be  *)
(* announced, for a speaker who had been chosen; nobody answers in it, and *)
(* no synthesis is made of a debate that it ended.                         *)
TurnsInOrder ==
    \A i \in DOMAIN told : told[i].kind = "select" =>
        /\ told[i].turn \in 1 .. MaxTurns
        /\ \A j \in 1 .. i - 1 : told[j].kind = "select" => told[j].turn < told[i].turn
LimitsHeld ==
    /\ []TurnsInOrder
    /\ \A k \in 1 .. MaxTurns :
          [](expired /\ ~Announced(k) => [](~Announced(k + 1) /\ ~Answers(k)))
    /\ [](expired /\ dpc # "over" => []~In(Shows(Said("synthesis")), told))

(* What the client is told: one end, after all else, a true reason, and of *)
(* the moderator only what is stored and justified.                        *)
ToldTruly == OneTerminal /\ ModeratorStoredFirst /\ ReasonTrue /\ SynthesisJustified

(* What is kept of the replies: those the client saw, in the session, in   *)
(* the debate's own copy of it and, for their agents, in the mappings.     *)
RepliesKept == SavedOrSignalled /\ MemoryMatchesStore /\ MappedMeansAnswered

(* Every request is answered, whatever fails; a debate that began ends in  *)
(* a terminal event.                                                       *)
EveryRunEnds == <>(pc \in Stopped)
=============================================================================
