---------------------------- MODULE DebateProofs ----------------------------
(***************************************************************************)
(* Proofs about Debate, for every roster and turn limit.                   *)
(***************************************************************************)
EXTENDS Debate, TLAPS

(* The speakers of the roster, and those that have had no turn yet.        *)
LEMMA MembersFacts ==
  /\ Roster[1] \in Members
  /\ Remaining \subseteq Members
  /\ FirstRemaining \subseteq Remaining
  BY RosterAssumption DEF Members, Remaining, FirstRemaining

(* The debate begins well typed (Debate, before its loop).                 *)
THEOREM DebateInitTyped == DebateInit => DebateTypeOK
  <1> SUFFICES ASSUME DebateInit PROVE DebateTypeOK
    OBVIOUS
  <1>1. speaker \in Members
    BY MembersFacts DEF DebateInit
  <1>2. turns \in Seq(TurnResult)
    BY DEF DebateInit
  <1> QED
    BY <1>1, <1>2 DEF DebateInit, DebateTypeOK, Verdicts

(* Every round, answer of the moderator and turn keeps its type.           *)
THEOREM DebateStepTyped == DebateTypeOK /\ [DebateNext]_debateVars => DebateTypeOK'
  <1> SUFFICES ASSUME DebateTypeOK, [DebateNext]_debateVars PROVE DebateTypeOK'
    OBVIOUS
  <1> USE DEF DebateTypeOK, Verdicts
  <1>1. CASE Begin
    BY <1>1 DEF Begin
  <1>2. CASE NextRound
    BY <1>2 DEF NextRound, Ends
  <1>3. CASE AskModerator
    BY <1>3 DEF AskModerator, ModeratorFails, Ends, GivesTurnTo
  <1>4. CASE AskAgain
    BY <1>4, MembersFacts DEF AskAgain, ModeratorFails, Ends, GivesTurnTo
  <1>5. CASE TakeTurn
    <2>1. PICK text \in Texts, kinds \in SUBSET FailureKinds : RecordTurn(text, kinds)
      BY <1>5 DEF TakeTurn
    <2>2. [agent |-> speaker, text |-> text, kinds |-> kinds] \in TurnResult
      BY DEF TurnResult
    <2> QED
      BY <1>5, <2>1, <2>2 DEF TakeTurn, RecordTurn
  <1>6. CASE Expire
    BY <1>6 DEF Expire
  <1>7. CASE UNCHANGED debateVars
    BY <1>7 DEF debateVars
  <1> QED
    BY <1>1, <1>2, <1>3, <1>4, <1>5, <1>6, <1>7 DEF DebateNext

(* The debate's state is well typed, whatever the moderator answers.       *)
THEOREM DebateTyped == DebateSpec => []DebateTypeOK
  BY DebateInitTyped, DebateStepTyped, PTL DEF DebateSpec

(***************************************************************************)
(* The routing safeguard.  The verdict alone does not show who was asked   *)
(* when it was given; the loop must not have gone on since, so the         *)
(* invariant adds that a verdict is given exactly when the loop is over,   *)
(* and that a limit given as the verdict has been reached.                 *)
(***************************************************************************)
VerdictEnds == verdict # "none" <=> dpc = "over"
TurnsBounded == Len(turns) <= MaxTurns /\ (dpc \in {"ask", "reask", "turn"} => Len(turns) < MaxTurns)
VerdictTrue == (verdict = "timeout" => expired) /\ (verdict = "max_turns" => Len(turns) = MaxTurns)
DebateInv == VerdictEnds /\ VerdictTrue /\ TurnsBounded /\ HandoffHonoured

(* A debate that has not begun has no verdict to justify.                  *)
THEOREM DebateInvInit == DebateInit => DebateInv
  BY MaxTurnsAssumption
  DEF DebateInit, DebateInv, VerdictEnds, VerdictTrue, TurnsBounded, HandoffHonoured

(* A step that leaves the turns alone and does not finish keeps the        *)
(* safeguard's promise.                                                    *)
LEMMA OthersHonour ==
  ASSUME HandoffHonoured, UNCHANGED turns, verdict' \in {verdict} \cup (Verdicts \ {"finish"})
  PROVE  HandoffHonoured'
  BY DEF HandoffHonoured, replyNeedsHandoff, Remaining, Attempted, Verdicts

(* Every round, answer and turn keeps what a verdict stands for.           *)
THEOREM DebateInvStep == DebateTypeOK /\ DebateInv /\ [DebateNext]_debateVars => DebateInv'
  <1> SUFFICES ASSUME DebateTypeOK, DebateInv, [DebateNext]_debateVars PROVE DebateInv'
    OBVIOUS
  <1> USE DEF DebateInv
  <1>1. CASE Begin
    <2>1. HandoffHonoured'
      BY <1>1, OthersHonour DEF Begin
    <2> QED
      BY <1>1, <2>1 DEF Begin, VerdictEnds, VerdictTrue, TurnsBounded
  <1>2. CASE NextRound
    <2>1. HandoffHonoured'
      BY <1>2, OthersHonour DEF NextRound, Ends, Verdicts
    <2> QED
      BY <1>2, <2>1, MaxTurnsAssumption DEF NextRound, Ends, VerdictEnds, VerdictTrue, TurnsBounded
  <1>3. CASE AskModerator
    <2>1. HandoffHonoured'
      <3>1. CASE ~(replyNeedsHandoff /\ Remaining # {}) /\ Ends("finish")
        BY <1>3, <3>1 DEF AskModerator, Ends, HandoffHonoured, replyNeedsHandoff, Remaining, Attempted
      <3>2. CASE verdict' \in {verdict} \cup (Verdicts \ {"finish"})
        BY <1>3, <3>2, OthersHonour DEF AskModerator
      <3> QED
        BY <1>3, <3>1, <3>2 DEF AskModerator, ModeratorFails, Ends, GivesTurnTo, Verdicts
    <2> QED
      BY <1>3, <2>1 DEF AskModerator, ModeratorFails, Ends, GivesTurnTo, VerdictEnds, VerdictTrue, TurnsBounded
  <1>4. CASE AskAgain
    <2>1. HandoffHonoured'
      BY <1>4, OthersHonour DEF AskAgain, ModeratorFails, Ends, GivesTurnTo, Verdicts
    <2> QED
      BY <1>4, <2>1 DEF AskAgain, ModeratorFails, Ends, GivesTurnTo, VerdictEnds, VerdictTrue, TurnsBounded
  <1>5. CASE TakeTurn
    <2>1. PICK text \in Texts, kinds \in SUBSET FailureKinds : RecordTurn(text, kinds)
      BY <1>5 DEF TakeTurn
    <2>2. verdict' = "none"
      BY <2>1 DEF RecordTurn, VerdictEnds
    <2>3. Len(turns') = Len(turns) + 1
      BY <2>1 DEF RecordTurn, DebateTypeOK
    <2> QED
      BY <2>1, <2>2, <2>3, MaxTurnsAssumption
      DEF RecordTurn, HandoffHonoured, VerdictEnds, VerdictTrue, TurnsBounded, DebateTypeOK
  <1>6. CASE Expire
    <2>1. HandoffHonoured'
      BY <1>6, OthersHonour DEF Expire
    <2> QED
      BY <1>6, <2>1 DEF Expire, VerdictEnds, VerdictTrue, TurnsBounded
  <1>7. CASE UNCHANGED debateVars
    <2>1. HandoffHonoured'
      BY <1>7, OthersHonour DEF debateVars
    <2> QED
      BY <1>7, <2>1 DEF debateVars, VerdictEnds, VerdictTrue, TurnsBounded
  <1> QED
    BY <1>1, <1>2, <1>3, <1>4, <1>5, <1>6, <1>7 DEF DebateNext

(* In every state of a debate its verdict, turns and safeguard agree.      *)
THEOREM DebateInvariant == DebateSpec => []DebateInv
  BY DebateInvInit, DebateInvStep, DebateTyped, PTL DEF DebateSpec

(* A debate the moderator finished never ends on a reply that admits it    *)
(* could not help while a member of the roster has not been asked.         *)
THEOREM Handoff == DebateSpec => []HandoffHonoured
  BY DebateInvariant, PTL DEF DebateInv

(* No debate takes more turns than its group allows.                       *)
THEOREM TurnLimit == DebateSpec => [](Len(turns) <= MaxTurns)
  BY DebateInvariant, PTL DEF DebateInv, TurnsBounded
=============================================================================
