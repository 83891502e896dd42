------------------------------- MODULE Debate -------------------------------
(***************************************************************************)
(* The moderated turn loop of a group (orchestrator/orchestrator.go): the  *)
(* moderator, a language model, names the next speaker; the agent takes    *)
(* its turn; until the moderator says FINISH, a turn or time limit is      *)
(* reached, or the moderator fails.  How a turn is run is the caller's     *)
(* business (GroupChat); here a turn may have any result.                  *)
(***************************************************************************)
EXTENDS Integers, Sequences

CONSTANTS
    Agents,
    Roster,     \* the agents of the debate, in the group's priority order
    MaxTurns    \* turn limit of the group

ASSUME RosterAssumption == Roster \in Seq(Agents) /\ Roster # <<>>
ASSUME MaxTurnsAssumption == MaxTurns \in Nat \ {0}

VARIABLES
    dpc,      \* the loop's next step
    speaker,  \* the agent whose turn it is
    turns,    \* results: the turns taken
    verdict,  \* why the loop ended: Debate's error, "finish" when nil
    expired   \* whether the debate's deadline has passed

debateVars == <<dpc, speaker, turns, verdict, expired>>

Members == {Roster[i] : i \in DOMAIN Roster}

(* A reply's text, told apart only by handoffMarkers: a limited one says   *)
(* that the agent had no access or could not verify.                       *)
Texts == {"none", "plain", "limited"}
FailureKinds == {"agent", "persistence", "mapping"}
TurnResult == [agent : Members, text : Texts, kinds : SUBSET FailureKinds]
Verdicts == {"none", "finish", "timeout", "max_turns", "moderator_error"}

DebateTypeOK ==
    /\ dpc \in {"idle", "loop", "ask", "reask", "turn", "over"}
    /\ speaker \in Members
    /\ turns \in Seq(TurnResult)
    /\ verdict \in Verdicts
    /\ expired \in BOOLEAN

DebateInit ==
    /\ dpc = "idle"
    /\ speaker = Roster[1]
    /\ turns = <<>>
    /\ verdict = "none"
    /\ expired = FALSE

Attempted == {turns[i].agent : i \in DOMAIN turns}
Remaining == Members \ Attempted

replyNeedsHandoff == turns # <<>> /\ turns[Len(turns)].text = "limited"

(* remaining[0]: the agent of highest priority that has had no turn, as a  *)
(* set of at most one.                                                     *)
FirstRemaining ==
    {Roster[i] : i \in {k \in DOMAIN Roster :
                           /\ Roster[k] \in Remaining
                           /\ \A j \in 1 .. k - 1 : Roster[j] \notin Remaining}}

-----------------------------------------------------------------------------
Ends(why) == dpc' = "over" /\ verdict' = why /\ UNCHANGED speaker
GivesTurnTo(a) == dpc' = "turn" /\ speaker' = a /\ UNCHANGED verdict

Begin ==
    /\ dpc = "idle"
    /\ dpc' = "loop"
    /\ UNCHANGED <<speaker, turns, verdict, expired>>

(* Mutant: the deadline is left to the calls. *)
NextRoundUntimed ==
    /\ dpc = "loop"
    /\ \/ Len(turns) = MaxTurns /\ Ends("max_turns")
       \/ Len(turns) < MaxTurns /\ dpc' = "ask" /\ UNCHANGED <<speaker, verdict>>
    /\ UNCHANGED <<turns, expired>>

(* The loop's condition, and the check of the deadline. *)
NextRound ==
    /\ dpc = "loop"
    /\ \/ Len(turns) = MaxTurns /\ Ends("max_turns")
       \/ Len(turns) < MaxTurns /\ expired /\ Ends("timeout")
       \/ Len(turns) < MaxTurns /\ ~expired /\ dpc' = "ask" /\ UNCHANGED <<speaker, verdict>>
    /\ UNCHANGED <<turns, expired>>

(* NextSpeaker fails: the call, perhaps for the deadline; or the answer is *)
(* empty or unknown.                                                       *)
ModeratorFails ==
    \/ Ends("moderator_error")
    \/ expired /\ Ends("timeout")

(* NextSpeaker over the whole roster. *)
AskModerator ==
    /\ dpc = "ask"
    /\ \/ ModeratorFails
       \/ \E a \in Members : GivesTurnTo(a)
       \/ ~(replyNeedsHandoff /\ Remaining # {}) /\ Ends("finish")
       \/ replyNeedsHandoff /\ Remaining # {} /\ dpc' = "reask" /\ UNCHANGED <<speaker, verdict>>
    /\ UNCHANGED <<turns, expired>>

(* Mutant: the second FINISH is taken at its word. *)
AskAgainOnly ==
    /\ dpc = "reask"
    /\ ModeratorFails \/ Ends("finish") \/ \E a \in Remaining : GivesTurnTo(a)
    /\ UNCHANGED <<turns, expired>>

(* The routing safeguard: FINISH after a limited reply makes the moderator *)
(* choose again among the agents left; another FINISH means the first.     *)
AskAgain ==
    /\ dpc = "reask"
    /\ \/ ModeratorFails
       \/ \E a \in Remaining : GivesTurnTo(a)
       \/ \E a \in FirstRemaining : GivesTurnTo(a)
    /\ UNCHANGED <<turns, expired>>

(* A turn is over, well or not: it is recorded and the loop goes on. *)
RecordTurn(text, kinds) ==
    /\ dpc = "turn"
    /\ turns' = Append(turns, [agent |-> speaker, text |-> text, kinds |-> kinds])
    /\ dpc' = "loop"
    /\ UNCHANGED <<speaker, verdict>>

TakeTurn ==
    /\ \E text \in Texts, kinds \in SUBSET FailureKinds : RecordTurn(text, kinds)
    /\ UNCHANGED expired

(* The context's deadline passes. *)
Expire ==
    /\ ~expired
    /\ expired' = TRUE
    /\ UNCHANGED <<dpc, speaker, turns, verdict>>

DebateNext ==
    \/ Begin
    \/ NextRound
    \/ AskModerator
    \/ AskAgain
    \/ TakeTurn
    \/ Expire

DebateSpec == DebateInit /\ [][DebateNext]_debateVars

-----------------------------------------------------------------------------
(* orchestrator.go:281-284: a debate the moderator finished never ends on  *)
(* a reply that admits it could not help while a member of the roster has  *)
(* not been asked.                                                         *)
HandoffHonoured ==
    (verdict = "finish" /\ replyNeedsHandoff) => Remaining = {}
=============================================================================
