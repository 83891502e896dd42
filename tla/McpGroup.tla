------------------------------ MODULE McpGroup ------------------------------
(***************************************************************************)
(* The goroutine of a group__<id> tool call (mcpserver/group.go,           *)
(* callGroupWithModerator): the session is resumed or made, the debate of  *)
(* Debate is run with the agents' replies collected in a buffer, and its   *)
(* result put together for the handler of McpCall, which may be gone.      *)
(***************************************************************************)
EXTENDS McpCall

SameTurnResult == UNCHANGED <<sawMapping, call>>

(* GetSession: it must be there and be a session of this group and user. *)
LoadSession ==
    /\ pc = "load"
    /\ \/ session = "group" /\ home' = "named" /\ GoOn("question") /\ Succeeds
       \/ session # "group" /\ UNCHANGED home /\ Return("error") /\ Succeeds
       \/ UNCHANGED home /\ Return("error") /\ CommandFails
    /\ UNCHANGED <<debateVars, known, synthesis>>
    /\ SameRequest /\ SameClient /\ SameStore /\ SameTurn /\ SameCleanup

(* cleanupOrphanSession: near the deadline the call does not wait for it. *)
AbandonNewSession ==
    /\ cleanup' = "index"
    /\ Return("error") \/ (~expired /\ GoOn("cleaning"))

(* The flags of a group session, written over whatever the key holds ... *)
SaveFlags ==
    /\ pc = "save"
    /\ \/ session' = "group" /\ GoOn("index") /\ UNCHANGED cleanup /\ Succeeds
       \/ UNCHANGED session /\ AbandonNewSession /\ CommandFails
    /\ UNCHANGED <<debateVars, indexed, stored, mapped, home, known, synthesis, leaks>>
    /\ SameRequest /\ SameClient /\ SameTurn

(* ... its row in agent_group_sessions; a failed insert may be there ... *)
IndexSession ==
    /\ pc = "index"
    /\ \/ indexed' = TRUE /\ GoOn("question") /\ UNCHANGED cleanup /\ Succeeds
       \/ indexed' \in {indexed, TRUE} /\ AbandonNewSession /\ CommandFails
    /\ UNCHANGED <<debateVars, session, stored, mapped, home, known, synthesis, leaks>>
    /\ SameRequest /\ SameClient /\ SameTurn

(* ... and the question, dropped when it repeats a recent one.  Then the   *)
(* debate begins.                                                          *)
StoreQuestion ==
    /\ tool = "group" /\ pc = "question"
    /\ \/ /\ \/ AddMessage(Question)
             \/ home = "named" /\ session # "absent" /\ UNCHANGED stored
          /\ known' = Append(known, Question)
          /\ GoOn("debate")
          /\ Begin
          /\ UNCHANGED cleanup
          /\ Succeeds
       \/ /\ AddFails \/ CommandFails
          /\ IF home = "new" THEN AbandonNewSession ELSE Return("error") /\ UNCHANGED cleanup
          /\ UNCHANGED <<debateVars, stored, known>>
    /\ UNCHANGED <<session, indexed, mapped, home, synthesis, leaks>>
    /\ SameRequest /\ SameClient /\ SameTurn

-----------------------------------------------------------------------------
(* A step of the loop in Debate that involves no agent. *)
Moderate ==
    /\ pc = "debate"
    /\ NextRound \/ AskModerator \/ AskAgain
    /\ GoOn(CASE dpc' = "turn" -> "turn"
              [] dpc' = "over" -> "collect"
              [] OTHER -> "debate")
    /\ UNCHANGED <<home, known, synthesis, faults>>
    /\ SameRequest /\ SameClient /\ SameStore /\ SameTurn /\ SameCleanup

(* The time that remains, and GetAgentSessionID; without either the turn   *)
(* has failed.                                                             *)
StartTurn ==
    /\ pc = "turn"
    /\ call' = Failure
    /\ \/ /\ ~expired
          /\ sawMapping' = (speaker \in mapped)
          /\ kinds' = {}
          /\ GoOn("call")
          /\ Succeeds
       \/ expired /\ kinds' = {"agent"} /\ UNCHANGED sawMapping /\ GoOn("record") /\ Succeeds
       \/ kinds' = {"mapping"} /\ UNCHANGED sawMapping /\ GoOn("record") /\ CommandFails
    /\ UNCHANGED <<debateVars, home, known, synthesis>>
    /\ SameRequest /\ SameClient /\ SameStore /\ SameCleanup

(* proxy.Handle, into a buffer. *)
CallAgent ==
    /\ tool = "group" /\ pc = "call"
    /\ call' \in Outcomes
    /\ kinds' = IF call'.err THEN {"agent"} ELSE {}
    /\ GoOn(IF call'.result = "nil" THEN "record" ELSE "reply")
    /\ UNCHANGED <<debateVars, sawMapping, home, known, synthesis, faults>>
    /\ SameRequest /\ SameClient /\ SameStore /\ SameCleanup

(* Mutant: a reply that could not be stored is only logged. *)
StoreReplyLogged ==
    /\ tool = "group" /\ pc = "reply"
    /\ \/ AddMessage(Reply(ThisTurn)) /\ known' = Append(known, Reply(ThisTurn)) /\ Succeeds
       \/ UNCHANGED <<stored, known>> /\ AddFails
    /\ GoOn(IF call.err THEN "record" ELSE "mapping")
    /\ UNCHANGED <<debateVars, session, indexed, mapped, kinds, home, synthesis>>
    /\ SameTurnResult /\ SameRequest /\ SameClient /\ SameCleanup

(* The reply is stored even when it is empty or broken off; ... *)
StoreReply ==
    /\ tool = "group" /\ pc = "reply"
    /\ \/ /\ AddMessage(Reply(ThisTurn))
          /\ known' = Append(known, Reply(ThisTurn))
          /\ GoOn(IF call.err THEN "record" ELSE "mapping")
          /\ UNCHANGED kinds
          /\ Succeeds
       \/ /\ UNCHANGED <<stored, known>>
          /\ kinds' = kinds \cup {"persistence"}
          /\ GoOn("record")
          /\ AddFails
    /\ UNCHANGED <<debateVars, session, indexed, mapped, home, synthesis>>
    /\ SameTurnResult /\ SameRequest /\ SameClient /\ SameCleanup

(* ... after a good one the agent's session is, when it is a new one or    *)
(* the turn saw none.                                                      *)
StoreMapping ==
    /\ pc = "mapping"
    /\ \/ mapped' = mapped \cup {speaker} /\ UNCHANGED kinds /\ Succeeds
       \/ sawMapping /\ ~call.rotated /\ UNCHANGED <<mapped, kinds>> /\ Succeeds
       \/ UNCHANGED mapped /\ kinds' = {"mapping"} /\ Fails
    /\ GoOn("record")
    /\ UNCHANGED <<debateVars, session, indexed, stored, home, known, synthesis>>
    /\ SameTurnResult /\ SameRequest /\ SameClient /\ SameCleanup

EndTurn ==
    /\ pc = "record"
    /\ RecordTurn(call.text, kinds)
    /\ GoOn("debate")
    /\ UNCHANGED <<expired, home, known, synthesis, faults>>
    /\ SameRequest /\ SameClient /\ SameStore /\ SameTurn /\ SameCleanup

-----------------------------------------------------------------------------
(* distinctSpeakers: a reply that could not be stored counts. *)
Speakers ==
    {turns[i].agent : i \in {j \in DOMAIN turns :
                               turns[j].text # "none" /\ "agent" \notin turns[j].kinds}}

(* resultIncomplete: the loop did not finish, or an outcome was not kept. *)
Incomplete ==
    \/ verdict # "finish"
    \/ \E i \in DOMAIN turns : turns[i].kinds \cap {"persistence", "mapping"} # {}

(* The result: an error when the debate failed before any turn, an         *)
(* information when no agent applied, else the replies, to which the       *)
(* moderator adds a synthesis of two speakers or more, unless that fails   *)
(* or is empty.                                                            *)
Collect ==
    /\ pc = "collect"
    /\ \/ turns = <<>> /\ Return(IF verdict = "finish" THEN "complete" ELSE "error")
       \/ /\ turns # <<>>
          /\ Return(IF Incomplete \/ Speakers = {} THEN "incomplete" ELSE "complete")
       \/ ~Incomplete /\ ~expired /\ (\E a, b \in Speakers : a # b) /\ GoOn("synthesis")
    /\ UNCHANGED <<debateVars, home, known, synthesis, faults>>
    /\ SameRequest /\ SameClient /\ SameStore /\ SameTurn /\ SameCleanup

(* The synthesis is part of the result, and stored. *)
StoreSynthesis ==
    /\ pc = "synthesis"
    /\ \/ AddMessage(Synthesis) /\ synthesis' = "saved" /\ Return("complete") /\ Succeeds
       \/ UNCHANGED stored /\ synthesis' = "unsaved" /\ Return("incomplete") /\ AddFails
    /\ UNCHANGED <<debateVars, session, indexed, mapped, home, known>>
    /\ SameRequest /\ SameClient /\ SameTurn /\ SameCleanup

GroupStep ==
    \/ LoadSession \/ SaveFlags \/ IndexSession \/ StoreQuestion
    \/ Moderate \/ StartTurn \/ CallAgent \/ StoreReply \/ StoreMapping \/ EndTurn
    \/ Collect \/ StoreSynthesis

Step == CallStep \/ GroupStep
Next == Step \/ Environment

Spec == Init /\ [][Next]_vars

(* Handler and goroutines run on; agents and the moderator answer by the   *)
(* call's deadline.                                                        *)
FairSpec == Spec /\ WF_vars(Step)

-----------------------------------------------------------------------------
(* The replies the result shows: of an ask, its agent's; of a group, those *)
(* of every turn with a text.                                              *)
ShownReplies ==
    IF tool = "ask" THEN IF call.text = "none" THEN {} ELSE {1}
    ELSE {k \in DOMAIN turns : turns[k].text # "none"}

(* What a result without isError shows is in the session, in the order it  *)
(* was said, and the debate behind it was finished by the moderator        *)
(* (group.go:500-531, handler.go:1041-1048), unless the user has deleted     *)
(* the session.                                                            *)
CompleteMeansStored ==
    (outcome = "complete" /\ session # "absent") =>
        LET Kept(k) == CHOOSE i \in DOMAIN stored : stored[i] = Reply(k)
        IN  /\ \A k \in ShownReplies : In(Reply(k), stored)
            /\ \A k, l \in ShownReplies : k < l => Kept(k) < Kept(l)
            /\ synthesis = "saved" => stored[Len(stored)] = Synthesis
            /\ tool = "group" => verdict = "finish" /\ synthesis # "unsaved"

(* A call that made a session and could not store its question leaves      *)
(* neither the session nor its index row behind when its cleanup is over,  *)
(* but for what the cleanup itself failed to remove (group.go:316-330,     *)
(* handler.go:940-948).                                                    *)
NoOrphan ==
    (home = "new" /\ outcome # "pending" /\ ~In(Question, known) /\ cleanup \in {"none", "over"}) =>
        /\ session # "absent" => "session" \in leaks
        /\ indexed => "index" \in leaks

(* group.go:316: a group's session that a client is given, or that its MCP *)
(* session remembers for the next call, is one it can use: made with its   *)
(* flags, listed, and with the question in it; and a request that named a  *)
(* session was not answered from another (group.go:286).                   *)
HandedBackUsable ==
    (tool = "group" /\ (answer \in {"complete", "incomplete"} \/ remembered = "new")) =>
        /\ named # "nothing" <=> home = "named"
        /\ indexed
        /\ In(Question, known)
        /\ session # "absent" => session = "group" /\ (home = "new" => In(Question, stored))

(* The work of a call comes to its end whether or not its client waits,    *)
(* with its cleanup done, and a client that waits is answered.             *)
EveryCallEnds ==
    <>[](/\ handler = "over"
         /\ answer = "refused" \/ outcome # "pending"
         /\ cleanup \in {"none", "over"}
         /\ connected => answer # "nothing")
=============================================================================
