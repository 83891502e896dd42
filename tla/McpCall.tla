------------------------------- MODULE McpCall -------------------------------
(***************************************************************************)
(* tools/call of the MCP server (mcpserver/handler.go, session.go): the    *)
(* request's handler, which waits for a goroutine that does the work and   *)
(* gives up when the client leaves, and the goroutine of an ask_<agent>    *)
(* tool, callAgent.  The goroutine of a group__<id> tool is McpGroup.      *)
(*                                                                         *)
(* A call works on one chat session: the one it names, by argument or by   *)
(* what the MCP session remembers of an earlier call, or a new one.        *)
(***************************************************************************)
EXTENDS Debate

CONSTANTS
    Calls,      \* how an agent's call may end: a subset of CallResult
    MaxFaults   \* bound: store commands that may fail in one behaviour

(* What proxy.Handle leaves behind: the text, whether the call or its      *)
(* stream failed, the result (nil, with nothing to store, or with          *)
(* something), and whether the agent's session is another one than before. *)
CallResult == [text : Texts, err : BOOLEAN, result : {"nil", "empty", "content"}, rotated : BOOLEAN]
Failure == [text |-> "none", err |-> TRUE, result |-> "nil", rotated |-> FALSE]

ASSUME McpCallsAssumption ==
    /\ Calls # {}
    /\ Calls \subseteq {c \in CallResult : /\ c.text # "none" => c.result = "content"
                                           /\ c.result = "nil" => c.err}
ASSUME McpFaultsAssumption == MaxFaults \in Nat

VARIABLES
    tool,       \* the tool called: ask (an agent) or group
    named,      \* how the request names its session
    handler,    \* the handler: before, while or after it waits
    pc,         \* the goroutine's next step
    outcome,    \* what the goroutine has returned
    connected,  \* whether the client is still there
    answer,     \* what the client was told
    mcpKnown,   \* whether the request carries a live MCP session
    remembered, \* the chat session its AgentSessions names for the tool
    session,    \* the chat session the call works on
    home,       \* which one that is: the named one or a new one
    indexed,    \* whether agent_group_sessions lists it
    stored,     \* the messages this call has added to it
    known,      \* session.Messages: the goroutine's copy of them
    mapped,     \* agents with an agent_session_map key
    sawMapping, \* hasAgentSession of the turn
    call,       \* what the turn's proxy call returned
    kinds,      \* the failures of the turn so far
    synthesis,  \* the moderator's synthesis: none, saved or unsaved
    cleanup,    \* cleanupOrphanSession's next step
    leaks,      \* history: what the cleanup failed to remove
    faults      \* failing store commands left in the budget

requestVars == <<tool, named>>
clientVars == <<handler, connected, answer, mcpKnown, remembered>>
storeVars == <<session, indexed, stored, mapped>>
turnVars == <<sawMapping, call, kinds>>
cleanupVars == <<cleanup, leaks>>
vars == <<debateVars, requestVars, clientVars, pc, outcome, storeVars, home, known,
          turnVars, synthesis, cleanupVars, faults>>

(* A message: the question, the reply of a turn (an ask has one), or the   *)
(* moderator's synthesis.                                                  *)
Message == [about : {"question", "reply", "synthesis"}, turn : 0 .. MaxTurns]
Question == [about |-> "question", turn |-> 0]
Synthesis == [about |-> "synthesis", turn |-> 0]
Reply(k) == [about |-> "reply", turn |-> k]
ThisTurn == Len(turns) + 1

In(x, s) == \E i \in DOMAIN s : s[i] = x

TypeOK ==
    /\ DebateTypeOK
    /\ tool \in {"ask", "group"}
    /\ named \in {"nothing", "argument", "mapping"}
    /\ handler \in {"preflight", "waiting", "over"}
    /\ pc \in {"idle", "create", "save", "index", "load", "question", "cleaning", "debate",
               "turn", "call", "reply", "mapping", "record", "collect", "synthesis", "returned"}
    /\ outcome \in {"pending", "error", "error_with_id", "incomplete", "complete"}
    /\ {connected, mcpKnown, sawMapping, indexed} \subseteq BOOLEAN
    /\ answer \in {"nothing", "refused", "error", "error_with_id", "incomplete", "complete"}
    /\ remembered \in {"nothing", "named", "new"}
    /\ session \in {"absent", "fresh", "group", "foreign"}
    /\ home \in {"none", "named", "new"}
    /\ stored \in Seq(Message)
    /\ known \in Seq(Message)
    /\ mapped \subseteq Members
    /\ call \in CallResult
    /\ kinds \subseteq FailureKinds
    /\ synthesis \in {"none", "saved", "unsaved"}
    /\ cleanup \in {"none", "index", "session", "over"}
    /\ leaks \subseteq {"index", "session"}
    /\ faults \in 0 .. MaxFaults

(* What earlier calls, and the user, may have left: the MCP session        *)
(* remembers a chat session, which may be gone by now; the argument may    *)
(* name another user's.                                                    *)
Init ==
    /\ DebateInit
    /\ tool \in {"ask", "group"}
    /\ named \in {"nothing", "argument", "mapping"}
    /\ mcpKnown \in BOOLEAN
    /\ remembered \in IF mcpKnown THEN {"nothing", "named"} ELSE {"nothing"}
    /\ named = "mapping" => remembered = "named"
    /\ named = "nothing" => remembered = "nothing"
    /\ session \in IF tool = "group" /\ named # "nothing"
                   THEN {"absent", "group", "foreign"} ELSE {"absent"}
    /\ named = "mapping" => session # "foreign"
    /\ indexed = (session = "group")
    /\ handler = "preflight"
    /\ pc = "idle"
    /\ outcome = "pending"
    /\ connected = TRUE
    /\ answer = "nothing"
    /\ home = "none"
    /\ stored = <<>>
    /\ known = <<>>
    /\ mapped = {}
    /\ sawMapping = FALSE
    /\ call = Failure
    /\ kinds = {}
    /\ synthesis = "none"
    /\ cleanup = "none"
    /\ leaks = {}
    /\ faults = MaxFaults

-----------------------------------------------------------------------------
SameRequest == UNCHANGED requestVars
SameClient == UNCHANGED clientVars
SameStore == UNCHANGED storeVars
SameTurn == UNCHANGED turnVars
SameCleanup == UNCHANGED cleanupVars

Fails == faults > 0 /\ faults' = faults - 1
Succeeds == UNCHANGED faults

(* A command on the call's context fails with its server, or for the       *)
(* deadline; those that store an answer have a time limit of their own.    *)
CommandFails == Fails \/ (expired /\ Succeeds)
AddFails == Fails \/ (session = "absent" /\ Succeeds)
AddMessage(m) == session # "absent" /\ stored' = Append(stored, m)

Return(what) == pc' = "returned" /\ outcome' = what
GoOn(next) == pc' = next /\ UNCHANGED outcome

-----------------------------------------------------------------------------
(* The handler, before it waits: arguments, access, moderator and roster;  *)
(* then the goroutine starts, for an ask always with a new session.        *)
Admit ==
    /\ handler = "preflight"
    /\ \/ handler' = "over" /\ answer' = "refused" /\ UNCHANGED pc
       \/ /\ handler' = "waiting"
          /\ pc' = IF tool = "group" /\ named # "nothing" THEN "load" ELSE "create"
          /\ UNCHANGED answer
    /\ UNCHANGED <<debateVars, connected, mcpKnown, remembered, outcome, home, known, synthesis, faults>>
    /\ SameRequest /\ SameStore /\ SameTurn /\ SameCleanup

(* Mutant: whatever the call came to, its session is remembered. *)
AnswerRemembering ==
    /\ handler = "waiting"
    /\ outcome # "pending"
    /\ handler' = "over"
    /\ answer' = outcome
    /\ remembered' = IF mcpKnown /\ home # "none" THEN home ELSE remembered
    /\ UNCHANGED <<debateVars, connected, mcpKnown, pc, outcome, home, known, synthesis, faults>>
    /\ SameRequest /\ SameStore /\ SameTurn /\ SameCleanup

(* The result is passed on, and the session it came with remembered: for   *)
(* an ask after a failure too, for a group only with a result.             *)
Answer ==
    /\ handler = "waiting"
    /\ outcome # "pending"
    /\ handler' = "over"
    /\ answer' = outcome
    /\ remembered' = IF mcpKnown /\ outcome # "error" THEN home ELSE remembered
    /\ UNCHANGED <<debateVars, connected, mcpKnown, pc, outcome, home, known, synthesis, faults>>
    /\ SameRequest /\ SameStore /\ SameTurn /\ SameCleanup

(* Mutant: the goroutine is stopped with the handler. *)
GiveUpBoth ==
    /\ handler = "waiting"
    /\ ~connected
    /\ handler' = "over"
    /\ pc' = "idle"
    /\ UNCHANGED <<debateVars, connected, answer, mcpKnown, remembered, outcome, home, known, synthesis, faults>>
    /\ SameRequest /\ SameStore /\ SameTurn /\ SameCleanup

(* The client has left: the handler returns, the goroutine goes on. *)
GiveUp ==
    /\ handler = "waiting"
    /\ ~connected
    /\ handler' = "over"
    /\ UNCHANGED <<debateVars, connected, answer, mcpKnown, remembered, pc, outcome, home, known, synthesis, faults>>
    /\ SameRequest /\ SameStore /\ SameTurn /\ SameCleanup

Leave ==
    /\ connected
    /\ handler # "over"
    /\ connected' = FALSE
    /\ UNCHANGED <<debateVars, handler, answer, mcpKnown, remembered, pc, outcome, home, known, synthesis, faults>>
    /\ SameRequest /\ SameStore /\ SameTurn /\ SameCleanup

(* The MCP sessions are in memory: a week's age ends one. *)
ForgetMcpSession ==
    /\ mcpKnown
    /\ mcpKnown' = FALSE
    /\ remembered' = "nothing"
    /\ UNCHANGED <<debateVars, handler, connected, answer, pc, outcome, home, known, synthesis, faults>>
    /\ SameRequest /\ SameStore /\ SameTurn /\ SameCleanup

(* The user deletes the session: agent_group_sessions keeps its row. *)
DeleteSession ==
    /\ session \in {"fresh", "group"}
    /\ session' = "absent"
    /\ stored' = <<>>
    /\ mapped' = {}
    /\ UNCHANGED <<debateVars, indexed, pc, outcome, home, known, synthesis, faults>>
    /\ SameRequest /\ SameClient /\ SameTurn /\ SameCleanup

(* The call's deadline passes; an ask's begins with the agent's call. *)
PassDeadline ==
    /\ IF tool = "ask" THEN pc = "call" ELSE pc \notin {"idle", "returned"}
    /\ Expire
    /\ UNCHANGED <<pc, outcome, home, known, synthesis, faults>>
    /\ SameRequest /\ SameClient /\ SameStore /\ SameTurn /\ SameCleanup

-----------------------------------------------------------------------------
(* CreateSession: an ask's runs on the request's context, which the        *)
(* client's departure cancels, a group's on the call's own.  A session     *)
(* that is left behind though the command failed is none of the call's:    *)
(* nobody has its ID, and GroupChat says what becomes of it.               *)
CreateSession ==
    /\ pc = "create"
    /\ \/ /\ session' = "fresh"
          /\ home' = "new"
          /\ GoOn(IF tool = "ask" THEN "question" ELSE "save")
          /\ Succeeds
       \/ /\ UNCHANGED <<session, home>>
          /\ Return("error")
          /\ \/ tool = "group" /\ CommandFails
             \/ tool = "ask" /\ (Fails \/ (~connected /\ Succeeds))
    /\ UNCHANGED <<debateVars, indexed, stored, mapped, known, synthesis>>
    /\ SameRequest /\ SameClient /\ SameTurn /\ SameCleanup

(* callAgent: the question; without it the new session is deleted ... *)
AskQuestion ==
    /\ tool = "ask" /\ pc = "question"
    /\ \/ /\ AddMessage(Question)
          /\ known' = Append(known, Question)
          /\ GoOn("call")
          /\ UNCHANGED cleanup
          /\ Succeeds
       \/ /\ UNCHANGED <<stored, known>>
          /\ cleanup' = "session"
          /\ GoOn("cleaning")
          /\ AddFails
    /\ UNCHANGED <<debateVars, session, indexed, mapped, home, synthesis, leaks>>
    /\ SameRequest /\ SameClient /\ SameTurn

Outcomes == IF expired THEN Calls \cup {Failure} ELSE Calls

(* ... the agent, whose reply goes to a buffer that never fails ... *)
AskAgent ==
    /\ tool = "ask" /\ pc = "call"
    /\ call' \in Outcomes
    /\ IF call'.result = "content" THEN GoOn("reply")
       ELSE Return(IF call'.err THEN "error_with_id" ELSE "complete")
    /\ UNCHANGED <<debateVars, sawMapping, kinds, home, known, synthesis, faults>>
    /\ SameRequest /\ SameClient /\ SameStore /\ SameCleanup

(* ... and the reply, if there is anything to store. *)
AskReply ==
    /\ tool = "ask" /\ pc = "reply"
    /\ \/ AddMessage(Reply(1)) /\ Succeeds
          /\ Return(IF call.err THEN "error_with_id" ELSE "complete")
       \/ UNCHANGED stored /\ Return("error_with_id") /\ AddFails
    /\ UNCHANGED <<debateVars, session, indexed, mapped, home, known, synthesis>>
    /\ SameRequest /\ SameClient /\ SameTurn /\ SameCleanup

-----------------------------------------------------------------------------
(* Mutant: the group's index is left as it is. *)
RemoveNothing ==
    /\ cleanup = "index"
    /\ cleanup' = "session"
    /\ UNCHANGED <<debateVars, leaks, pc, outcome, home, known, synthesis, faults>>
    /\ SameRequest /\ SameClient /\ SameStore /\ SameTurn

(* deleteOrphanSession: RemoveSession, for a group ... *)
RemoveIndex ==
    /\ cleanup = "index"
    /\ cleanup' = "session"
    /\ \/ indexed' = FALSE /\ UNCHANGED leaks /\ Succeeds
       \/ UNCHANGED indexed /\ leaks' = leaks \cup {"index"} /\ Fails
    /\ UNCHANGED <<debateVars, session, stored, mapped, pc, outcome, home, known, synthesis>>
    /\ SameRequest /\ SameClient /\ SameTurn

(* ... and DeleteSession, each whatever becomes of the other. *)
UndoCreate ==
    /\ cleanup = "session"
    /\ cleanup' = "over"
    /\ \/ session' = "absent" /\ stored' = <<>> /\ mapped' = {} /\ UNCHANGED leaks /\ Succeeds
       \/ SameStore /\ leaks' = leaks \cup {"session"} /\ Fails
    /\ UNCHANGED <<debateVars, indexed, pc, outcome, home, known, synthesis>>
    /\ SameRequest /\ SameClient /\ SameTurn

Cleaned ==
    /\ pc = "cleaning"
    /\ cleanup = "over"
    /\ Return(IF tool = "ask" THEN "error_with_id" ELSE "error")
    /\ UNCHANGED <<debateVars, home, known, synthesis, faults>>
    /\ SameRequest /\ SameClient /\ SameStore /\ SameTurn /\ SameCleanup

CallStep ==
    \/ Admit \/ Answer \/ GiveUp
    \/ CreateSession \/ AskQuestion \/ AskAgent \/ AskReply
    \/ RemoveIndex \/ UndoCreate \/ Cleaned

Environment == Leave \/ ForgetMcpSession \/ DeleteSession \/ PassDeadline
=============================================================================
