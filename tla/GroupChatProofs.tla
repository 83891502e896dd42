-------------------------- MODULE GroupChatProofs --------------------------
(***************************************************************************)
(* Proofs about GroupChat, for every roster, turn limit, set of answers    *)
(* and number of failures:                                                 *)
(*   - the handler's steps on the debate are Debate's own, hence its       *)
(*     routing safeguard;                                                  *)
(*   - types, and where the debate stands at each step of the handler;     *)
(*   - a refused request leaves nothing behind (NoOrphan);                 *)
(*   - what the client is told is true (ToldTruly);                        *)
(*   - what it was shown is kept (RepliesKept);                            *)
(*   - the group's limits hold of what the client sees (LimitsHeld).       *)
(* The last three share one inductive invariant, GroupInv: it says of      *)
(* every step of the handler what has been told and stored by then.        *)
(***************************************************************************)
EXTENDS GroupChat, DebateProofs, WellFoundedInduction

(* The steps of the handler that drive the debate, and the one that ends   *)
(* its time; every other step leaves the debate's state alone.             *)
LEMMA ModerateDebates == Moderate => DebateNext
  BY DEF Moderate, DebateNext

(* A turn recorded by the handler is a turn of the debate.                 *)
LEMMA EndTurnDebates ==
  ASSUME DebateTypeOK, call \in CallResult, kinds \subseteq FailureKinds, EndTurn
  PROVE  DebateNext
  <1>1. call.text \in Texts
    BY DEF CallResult
  <1>2. TakeTurn
    BY <1>1 DEF EndTurn, TakeTurn
  <1> QED
    BY <1>2 DEF DebateNext

TurnTypeOK == call \in CallResult /\ kinds \subseteq FailureKinds

(* A call that the deadline cuts off has a result like any other.          *)
LEMMA FailureTyped == Failure \in CallResult
  BY DEF Failure, CallResult, Texts

(* The turn's own variables stay well typed, which is what recording it    *)
(* in the debate takes.                                                    *)
LEMMA TurnTypedStep == TurnTypeOK /\ [Next]_vars => TurnTypeOK'
  <1> SUFFICES ASSUME TurnTypeOK, [Next]_vars PROVE TurnTypeOK'
    OBVIOUS
  <1> USE DEF TurnTypeOK
  <1>1. CASE AnnounceTurn
    BY <1>1, FailureTyped DEF AnnounceTurn, FailureKinds
  <1>2. CASE ReadMapping
    BY <1>2 DEF ReadMapping, FailureKinds
  <1>3. CASE CallAgent
    <2>1. PICK c \in Outcomes : call' = c /\ kinds' = IF c.err THEN {"agent"} ELSE {}
      BY <1>3 DEF CallAgent
    <2>2. c \in CallResult
      BY <2>1, FailureTyped, CallsAssumption DEF Outcomes
    <2> QED
      BY <2>1, <2>2 DEF FailureKinds
  <1>4. CASE StoreNotice
    BY <1>4 DEF StoreNotice, FailureKinds
  <1>5. CASE StoreReply
    BY <1>5 DEF StoreReply, FailureKinds
  <1>6. CASE StoreMapping
    BY <1>6 DEF StoreMapping, FailureKinds
  <1>7. CASE UNCHANGED <<call, kinds>>
    BY <1>7
  <1>8. \/ AnnounceTurn \/ ReadMapping \/ CallAgent \/ StoreNotice \/ StoreReply \/ StoreMapping
        \/ UNCHANGED <<call, kinds>>
    BY DEF Next, Step, vars, turnVars, SameTurn, Others, CreateSession, SaveFlags, IndexSession,
       LoadSession, StoreQuestion, RemoveIndex, UndoCreate, DropOldStream, RaiseFlag,
       SendRunStarted, Moderate, EndTurn, Conclude, Summarize, StoreSaying, ShowSaying,
       ReportLoss, SendRunError, SendRunFinished, LowerFlag, PassDeadline, Leave, DeleteSession
  <1> QED
    BY <1>1, <1>2, <1>3, <1>4, <1>5, <1>6, <1>7, <1>8

(* Whatever ends it, a turn of the handler leaves a result to record.      *)
THEOREM TurnTyped == Spec => []TurnTypeOK
  <1>1. Init => TurnTypeOK
    BY FailureTyped DEF Init, TurnTypeOK
  <1> QED
    BY <1>1, TurnTypedStep, PTL DEF Spec

(* Every step of the handler is a step of the debate or none.              *)
LEMMA StepDebates ==
  DebateTypeOK /\ TurnTypeOK /\ [Next]_vars => [DebateNext]_debateVars
  <1> SUFFICES ASSUME DebateTypeOK, TurnTypeOK, [Next]_vars,
                      ~UNCHANGED debateVars
               PROVE  DebateNext
    OBVIOUS
  <1>1. SendRunStarted \/ Moderate \/ EndTurn \/ PassDeadline
    BY DEF Next, Step, vars, Others, CreateSession, SaveFlags, IndexSession,
       LoadSession, StoreQuestion, RemoveIndex, UndoCreate, DropOldStream, RaiseFlag,
       AnnounceTurn, ReadMapping, CallAgent, StoreNotice, StoreReply, StoreMapping,
       Conclude, Summarize, StoreSaying, ShowSaying,
       ReportLoss, SendRunError, SendRunFinished, LowerFlag, Leave, DeleteSession
  <1>2. CASE SendRunStarted
    BY <1>2 DEF SendRunStarted, DebateNext
  <1>3. CASE Moderate
    BY <1>3, ModerateDebates
  <1>4. CASE EndTurn
    BY <1>4, EndTurnDebates DEF TurnTypeOK
  <1>5. CASE PassDeadline
    BY <1>5 DEF PassDeadline, DebateNext
  <1> QED
    BY <1>1, <1>2, <1>3, <1>4, <1>5

(* The handler's module is built from Debate's actions and touches its     *)
(* state by them alone, so this is no claim about the code: it carries the *)
(* facts proved of Debate by itself over to the handler.                   *)
LEMMA GroupRunsDebate == Spec => DebateSpec
  <1>1. Init => DebateInit
    BY DEF Init
  <1>2. DebateTypeOK /\ TurnTypeOK /\ [Next]_vars => DebateTypeOK'
    BY StepDebates, DebateStepTyped
  <1>3. Spec => []DebateTypeOK
    BY <1>1, <1>2, TurnTyped, DebateInitTyped, PTL DEF Spec
  <1> QED
    BY <1>1, <1>3, StepDebates, TurnTyped, PTL DEF Spec, DebateSpec

(* The routing safeguard, carried over to the handler.                     *)
THEOREM GroupHandoff == Spec => []HandoffHonoured
  BY GroupRunsDebate, Handoff, PTL

-----------------------------------------------------------------------------
(***************************************************************************)
(* The types of the handler's variables.                                   *)
(***************************************************************************)
LEMMA MembersTyped == Members \subseteq Agents /\ Roster[1] \in Members
  BY RosterAssumption DEF Members

(* Appending an event keeps the buffer a buffer, whatever is trimmed.      *)
LEMMA AppendTyped ==
  ASSUME BufferTypeOK, NEW kind \in Kinds, AppendRunEvent(ThisRun, kind), UNCHANGED flag
  PROVE  BufferTypeOK'
  <1>1. CASE UNCHANGED <<log, stream>> /\ Fails
    BY <1>1, MaxFaultsAssumption DEF BufferTypeOK, Fails
  <1>2. CASE /\ log' = Append(log, [run |-> ThisRun, kind |-> kind])
             /\ stream' \in Trims(stream \cup {Len(log) + 1})
             /\ Succeeds
    <2>1. log' \in Seq(Entry) /\ DOMAIN log' = DOMAIN log \cup {Len(log) + 1}
      BY <1>2, ThisRunAssumption DEF BufferTypeOK, Entry
    <2>2. stream' \subseteq stream \cup {Len(log) + 1}
      BY <1>2 DEF Trims
    <2> QED
      BY <1>2, <2>1, <2>2 DEF BufferTypeOK, Succeeds
  <1> QED
    BY <1>1, <1>2 DEF AppendRunEvent

Appends ==
  \/ AppendRunEvent(ThisRun, "started") \/ AppendRunEvent(ThisRun, "content")
  \/ AppendRunEvent(ThisRun, "finished") \/ AppendRunEvent(ThisRun, "error")

(* What a step does to the buffer.                                         *)
BufferStep ==
  \/ UNCHANGED <<log, stream, flag>>
  \/ UNCHANGED <<log, flag>> /\ stream' = {}
  \/ UNCHANGED <<log, stream>> /\ flag' \in {ThisRun, NoRun}
  \/ UNCHANGED flag /\ Appends
LEMMA StepBuffer == [Next]_vars => BufferStep
  <1> SUFFICES ASSUME [Next]_vars PROVE BufferStep
    OBVIOUS
  <1> USE DEF BufferStep
  <1>1. CASE UNCHANGED <<log, stream, flag>>
    BY <1>1
  <1>2. CASE DropOldStream \/ RaiseFlag \/ LowerFlag
    BY <1>2 DEF DropOldStream, RaiseFlag, LowerFlag, DropStream, SetFlag, ClearActiveRun
  <1>3. CASE SendRunStarted \/ AnnounceTurn \/ CallAgent \/ Conclude \/ ShowSaying
             \/ ReportLoss \/ SendRunError \/ SendRunFinished
    BY <1>3 DEF SendRunStarted, AnnounceTurn, CallAgent, Conclude, ShowSaying, SameBuffer,
       ReportLoss, SendRunError, SendRunFinished, Emit, Appends
  <1> QED
    BY <1>1, <1>2, <1>3 DEF Next, Step, vars, bufferVars, SameBuffer, Others, CreateSession,
       SaveFlags, IndexSession, LoadSession, StoreQuestion, RemoveIndex, UndoCreate, Moderate,
       ReadMapping, StoreNotice, StoreReply, StoreMapping, EndTurn, Summarize, StoreSaying,
       PassDeadline, Leave, DeleteSession

LEMMA FaultsTyped ==
  BufferTypeOK /\ [Next]_vars => faults' \in 0 .. MaxFaults
  <1> SUFFICES ASSUME BufferTypeOK, [Next]_vars PROVE faults' \in 0 .. MaxFaults
    OBVIOUS
  <1>1. Fails \/ UNCHANGED faults
    BY DEF Next, Step, vars, bufferVars, SameBuffer, Others, CreateSession, Succeeds, CommandFails,
       SaveFlags, IndexSession, LoadSession, StoreQuestion, RemoveIndex, UndoCreate, Moderate,
       ReadMapping, StoreNotice, StoreReply, StoreMapping, EndTurn, Summarize, StoreSaying,
       PassDeadline, Leave, DeleteSession, DropOldStream, RaiseFlag, LowerFlag, AddFails,
       SendRunStarted, AnnounceTurn, CallAgent, Conclude, ShowSaying,
       ReportLoss, SendRunError, SendRunFinished, Emit, AppendRunEvent
  <1> QED
    BY <1>1, MaxFaultsAssumption DEF Fails, BufferTypeOK

(* The messages of the handler are well formed.                            *)
LEMMA MessagesTyped ==
  /\ Question \in Message
  /\ \A what \in Reasons \cup Summaries : Said(what) \in Message
  /\ \A k \in 1 .. MaxTurns : Reply(k) \in Message
  /\ ThisTurn \in 1 .. MaxTurns => Notice \in Message
  BY MaxTurnsAssumption DEF Question, Message, Said, Reply, Notice, ThisTurn

LEMMA SeqTyped ==
  /\ \A S : <<>> \in Seq(S)
  /\ \A S : \A s \in Seq(S), x \in S : Append(s, x) \in Seq(S)
  OBVIOUS

(* So are the events.                                                      *)
LEMMA ToldTyped ==
  \A k \in 0 .. MaxTurns, about \in {"", "reply"} \cup Reasons \cup Summaries :
    /\ Told("started", k, about) \in Event /\ Told("select", k, about) \in Event
    /\ Told("failed", k, about) \in Event /\ Told("message", k, about) \in Event
    /\ Told("incomplete", k, about) \in Event
    /\ Told("finished", k, about) \in Event /\ Told("error", k, about) \in Event
  BY DEF Told, Event

LEMMA TurnNumbers == 0 \in 0 .. MaxTurns /\ 1 .. MaxTurns \subseteq 0 .. MaxTurns
  BY MaxTurnsAssumption

(* A turn in progress is within the group's limit.                         *)
LEMMA TurnInRange ==
  ASSUME DebateTypeOK, TurnsBounded, dpc = "turn"
  PROVE  ThisTurn \in 1 .. MaxTurns
  BY MaxTurnsAssumption DEF DebateTypeOK, TurnsBounded, ThisTurn

-----------------------------------------------------------------------------
(***************************************************************************)
(* What the properties of the handler need to know of its states: where    *)
(* the debate stands when the handler is at a step, what has been told by  *)
(* then, and what has become of every reply.                               *)
(***************************************************************************)
Before == {"create", "save", "index", "load", "question", "unindex", "undo", "rejected",
           "drop", "flag", "start"}
InTurn == {"select", "mappingRead", "call", "rotation", "reply", "mapping", "record"}
Ending == {"verdict", "summary", "say", "show", "lost", "fail", "finish"}
After == {"clear", "done"}

InPlace ==
    /\ pc \in Before => dpc = "idle"
    /\ pc = "debate" => dpc \in {"loop", "ask", "reask"}
    /\ pc \in InTurn => dpc = "turn"
    /\ pc \in Ending => dpc = "over"
    /\ pc \in After => dpc \in {"idle", "over"}

(* Setting up, moderating, taking a turn and ending each have their place  *)
(* in the debate.                                                          *)
LEMMA PlacesInit == Init => InPlace
  BY DEF Init, InPlace, Before, InTurn, Ending, After, DebateInit

LEMMA PlacesStep ==
  ASSUME pc \in States, InPlace, [Next]_vars
  PROVE  InPlace'
  <1> USE DEF InPlace, Before, InTurn, Ending, After, States
  <1>1. CASE Moderate
    BY <1>1 DEF Moderate, NextRound, AskModerator, AskAgain, Ends, GivesTurnTo, ModeratorFails
  <1>2. CASE SendRunStarted
    BY <1>2 DEF SendRunStarted, Begin, debateVars
  <1>3. CASE EndTurn
    BY <1>3 DEF EndTurn, RecordTurn
  <1>4. CASE PassDeadline
    BY <1>4 DEF PassDeadline, Expire, Others
  <1>5. CASE UNCHANGED debateVars
    BY <1>1, <1>2, <1>3, <1>4, <1>5 DEF debateVars,
           Next, Step, CreateSession, SaveFlags, IndexSession, LoadSession,
           StoreQuestion, RemoveIndex, UndoCreate, DropOldStream, RaiseFlag,
           AnnounceTurn, ReadMapping, CallAgent, StoreNotice, StoreReply, StoreMapping,
           Conclude, Summarize, StoreSaying, ShowSaying, ReportLoss, SendRunError,
           SendRunFinished, LowerFlag, Leave, DeleteSession, vars, storeVars, turnVars,
           bufferVars, SameStore, SameTurn, SameBuffer, SameClient, Others
  <1>6. Moderate \/ SendRunStarted \/ EndTurn \/ PassDeadline \/ UNCHANGED debateVars
    BY DEF Next, Step, CreateSession, SaveFlags, IndexSession, LoadSession,
           StoreQuestion, RemoveIndex, UndoCreate, DropOldStream, RaiseFlag,
           AnnounceTurn, ReadMapping, CallAgent, StoreNotice, StoreReply, StoreMapping,
           Conclude, Summarize, StoreSaying, ShowSaying, ReportLoss, SendRunError,
           SendRunFinished, LowerFlag, Leave, DeleteSession, vars, storeVars, turnVars,
           bufferVars, SameStore, SameTurn, SameBuffer, SameClient, Others
  <1> QED
    BY <1>1, <1>2, <1>3, <1>4, <1>5, <1>6

(* The reason given for an incomplete debate is one of the handler's.      *)
LEMMA ReasonTyped ==
  ASSUME DebateTypeOK, VerdictEnds, dpc = "over"
  PROVE  IncompleteReason \subseteq Reasons
  BY DEF IncompleteReason, VerdictEnds, DebateTypeOK, Verdicts, Reasons

LEMMA ReadingTyped == ReadMapping /\ sawMapping \in BOOLEAN => sawMapping' \in BOOLEAN
  <1> SUFFICES ASSUME ReadMapping, sawMapping \in BOOLEAN PROVE sawMapping' \in BOOLEAN
    OBVIOUS
  <1>1. sawMapping' = sawMapping \/ sawMapping' = (speaker \in mapped)
    BY DEF ReadMapping
  <1>2. (speaker \in mapped) \in BOOLEAN
    OBVIOUS
  <1> QED
    BY <1>1, <1>2, Zenon

(* The handler stays at one of its steps, and its flags keep their types.  *)
LEMMA StepFlags ==
  ASSUME TypeOK, InPlace, DebateInv, [Next]_vars
  PROVE  /\ pc' \in States
         /\ resuming' = resuming
         /\ session' \in {"absent", "bare", "group"}
         /\ indexed' \in BOOLEAN
         /\ leaks' \subseteq {"index", "session"}
         /\ sawMapping' \in BOOLEAN
         /\ connected' \in BOOLEAN
         /\ mapped' \subseteq Members
         /\ saying' \in Reasons \cup Summaries \cup {""}
  <1>0. /\ pc \in States
        /\ session \in {"absent", "bare", "group"} /\ indexed \in BOOLEAN
        /\ leaks \subseteq {"index", "session"} /\ sawMapping \in BOOLEAN /\ connected \in BOOLEAN
        /\ mapped \subseteq Members /\ speaker \in Members
        /\ saying \in Reasons \cup Summaries \cup {""}
    BY DEF TypeOK, DebateTypeOK
  <1> USE DEF
           Next, Step, CreateSession, SaveFlags, IndexSession, LoadSession,
           StoreQuestion, RemoveIndex, UndoCreate, DropOldStream, RaiseFlag,
           SendRunStarted, Moderate, AnnounceTurn, ReadMapping, CallAgent, StoreNotice,
           StoreReply, StoreMapping, EndTurn, Conclude, Summarize, StoreSaying,
           ShowSaying, ReportLoss, SendRunError, SendRunFinished, LowerFlag,
           PassDeadline, Leave, DeleteSession, vars, storeVars, turnVars, bufferVars,
           SameStore, SameTurn, SameBuffer, SameClient, Others
  <1>1. pc' \in States
    BY <1>0 DEF States
  <1>2. resuming' = resuming
    OBVIOUS
  <1>3. session' \in {"absent", "bare", "group"}
    BY <1>0
  <1>4. indexed' \in BOOLEAN
    BY <1>0
  <1>5. leaks' \subseteq {"index", "session"}
    BY <1>0
  <1>6. sawMapping' \in BOOLEAN
    BY <1>0, ReadingTyped
  <1>7. connected' \in BOOLEAN
    BY <1>0
  <1>8. mapped' \subseteq Members
    BY <1>0
  <1>9. saying' \in Reasons \cup Summaries \cup {""}
    <2>1. CASE Conclude
      <3>1. dpc = "over"
        BY <2>1 DEF InPlace, Ending
      <3> QED
        BY <1>0, <2>1, <3>1, ReasonTyped DEF DebateInv, TypeOK
    <2> QED
      BY <1>0, <2>1 DEF Summaries
  <1> QED
    BY <1>1, <1>2, <1>3, <1>4, <1>5, <1>6, <1>7, <1>8, <1>9

(* A message about to be stored or shown says something.                   *)
HasSaying == pc \in {"say", "show"} => saying \in Reasons \cup Summaries

LEMMA SayingStep ==
  ASSUME TypeOK, InPlace, DebateInv, HasSaying, [Next]_vars
  PROVE  HasSaying'
  <1>1. CASE Conclude
    <2>1. dpc = "over"
      BY <1>1 DEF InPlace, Ending, Conclude
    <2> QED
      BY <1>1, <2>1, ReasonTyped DEF DebateInv, TypeOK, HasSaying, Conclude
  <1> QED
    BY <1>1 DEF HasSaying, Summaries,
           Next, Step, CreateSession, SaveFlags, IndexSession, LoadSession,
           StoreQuestion, RemoveIndex, UndoCreate, DropOldStream, RaiseFlag,
           SendRunStarted, Moderate, AnnounceTurn, ReadMapping, CallAgent, StoreNotice,
           StoreReply, StoreMapping, EndTurn, Summarize, StoreSaying, ShowSaying,
           ReportLoss, SendRunError, SendRunFinished, LowerFlag, PassDeadline, Leave,
           DeleteSession, vars, storeVars, turnVars, bufferVars, SameStore, SameTurn,
           SameBuffer, SameClient, Others

(* What a step does to the session's messages and to the handler's copy.   *)
LEMMA StoresTyped ==
  ASSUME TypeOK, InPlace, DebateInv, HasSaying, [Next]_vars
  PROVE  stored' \in Seq(Message) /\ known' \in Seq(Message)
  <1>0. /\ stored \in Seq(Message) /\ known \in Seq(Message) /\ <<>> \in Seq(Message)
        /\ \A m \in Message : Append(stored, m) \in Seq(Message) /\ Append(known, m) \in Seq(Message)
    BY SeqTyped DEF TypeOK
  <1>1. CASE StoreQuestion
    BY <1>0, <1>1, MessagesTyped DEF StoreQuestion, AddMessage
  <1>2. pc \in InTurn => ThisTurn \in 1 .. MaxTurns
    BY TurnInRange DEF InPlace, TypeOK, DebateInv
  <1>3. CASE StoreNotice
    BY <1>0, <1>2, <1>3, MessagesTyped DEF StoreNotice, AddMessage, InTurn
  <1>4. CASE StoreReply
    BY <1>0, <1>2, <1>4, MessagesTyped DEF StoreReply, AddMessage, InTurn
  <1>5. CASE StoreSaying
    BY <1>0, <1>5, MessagesTyped DEF StoreSaying, AddMessage, HasSaying
  <1>6. CASE stored' \in {stored, <<>>} /\ UNCHANGED known
    BY <1>0, <1>6
  <1>7. StoreQuestion \/ StoreNotice \/ StoreReply \/ StoreSaying
        \/ (stored' \in {stored, <<>>} /\ UNCHANGED known)
    BY DEF Next, Step, CreateSession, SaveFlags, IndexSession, LoadSession,
           RemoveIndex, UndoCreate, DropOldStream, RaiseFlag, SendRunStarted, Moderate,
           AnnounceTurn, ReadMapping, CallAgent, StoreMapping, EndTurn, Conclude,
           Summarize, ShowSaying, ReportLoss, SendRunError, SendRunFinished, LowerFlag,
           PassDeadline, Leave, DeleteSession, vars, storeVars, turnVars, bufferVars,
           SameStore, SameTurn, SameBuffer, SameClient, Others
  <1> QED
    BY <1>1, <1>3, <1>4, <1>5, <1>6, <1>7

(* What the client is told is an event.                                    *)
LEMMA EventsTyped ==
  ASSUME TypeOK, InPlace, DebateInv, HasSaying, [Next]_vars
  PROVE  told' \in Seq(Event)
  <1>0. told \in Seq(Event) /\ \A e \in Event : Append(told, e) \in Seq(Event)
    BY SeqTyped DEF TypeOK
  <1>1. \A kind \in {"started", "finished", "error"} : Told(kind, 0, "") \in Event
    BY TurnNumbers, ToldTyped
  <1>2. pc \in InTurn => ThisTurn \in 1 .. MaxTurns
    BY TurnInRange DEF InPlace, TypeOK, DebateInv
  <1>3. CASE SendRunStarted \/ SendRunError \/ SendRunFinished
    BY <1>0, <1>1, <1>3 DEF SendRunStarted, SendRunError, SendRunFinished, Emit
  <1>4. CASE AnnounceTurn
    <2>1. Told("select", ThisTurn, "") \in Event
      BY <1>2, <1>4, ToldTyped, TurnNumbers DEF AnnounceTurn, InTurn
    <2> QED
      BY <1>0, <1>4, <2>1 DEF AnnounceTurn, Emit
  <1>5. CASE CallAgent
    <2>1. Shows(Reply(ThisTurn)) \in Event /\ Told("failed", ThisTurn, "") \in Event
      BY <1>2, <1>5, ToldTyped, TurnNumbers DEF CallAgent, InTurn, Shows, Reply
    <2> QED
      BY <1>0, <1>5, <2>1 DEF CallAgent, Emit
  <1>6. CASE Conclude
    <2>1. dpc = "over"
      BY <1>6 DEF InPlace, Ending, Conclude
    <2>2. \A reason \in IncompleteReason : Told("incomplete", 0, reason) \in Event
      BY <2>1, ReasonTyped, ToldTyped, TurnNumbers DEF DebateInv, TypeOK
    <2> QED
      BY <1>0, <1>6, <2>2 DEF Conclude, Emit
  <1>7. CASE ShowSaying
    <2>1. Shows(Said(saying)) \in Event
      BY <1>7, ToldTyped, TurnNumbers DEF ShowSaying, HasSaying, Shows, Said
    <2> QED
      BY <1>0, <1>7, <2>1 DEF ShowSaying, Emit
  <1>8. CASE ReportLoss
    <2>1. Told("incomplete", 0, "persistence_error") \in Event
      <3>1. "persistence_error" \in Reasons
        BY DEF Reasons
      <3> QED
        BY <3>1, ToldTyped, TurnNumbers
    <2> QED
      BY <1>0, <1>8, <2>1 DEF ReportLoss, Emit
  <1>9. CASE UNCHANGED told
    BY <1>0, <1>9
  <1> QED
    BY <1>3, <1>4, <1>5, <1>6, <1>7, <1>8, <1>9
    DEF Next, Step, CreateSession, SaveFlags, IndexSession, LoadSession, StoreQuestion,
        RemoveIndex, UndoCreate, DropOldStream, RaiseFlag, Moderate, ReadMapping,
        StoreNotice, StoreReply, StoreMapping, EndTurn, Summarize, StoreSaying,
        LowerFlag, PassDeadline, Leave, DeleteSession, vars, storeVars, turnVars,
        bufferVars, SameStore, SameTurn, SameBuffer, SameClient, Others

GroupTypes == TypeOK /\ InPlace /\ HasSaying /\ DebateInv

LEMMA GroupTypesInit == Init => GroupTypes
  <1> SUFFICES ASSUME Init PROVE GroupTypes
    OBVIOUS
  <1>1. DebateTypeOK /\ DebateInv
    BY DebateInitTyped, DebateInvInit DEF Init
  <1>2. BufferTypeOK
    <2>1. log \in Seq(Entry) /\ stream \subseteq DOMAIN log
      BY SeqTyped DEF Init, BufferInit
    <2>2. flag = NoRun /\ faults = MaxFaults
      BY DEF Init, BufferInit
    <2> QED
      BY <2>1, <2>2, MaxFaultsAssumption DEF BufferTypeOK
  <1>3. call \in CallResult /\ kinds \subseteq FailureKinds
    BY FailureTyped DEF Init
  <1>4. TypeOK
    BY <1>1, <1>2, <1>3, SeqTyped DEF Init, TypeOK, States
  <1> QED
    BY <1>1, <1>4, PlacesInit DEF Init, GroupTypes, HasSaying

LEMMA GroupTypesStep == GroupTypes /\ [Next]_vars => GroupTypes'
  <1> SUFFICES ASSUME GroupTypes, [Next]_vars PROVE GroupTypes'
    OBVIOUS
  <1> USE DEF GroupTypes
  <1>1. DebateTypeOK /\ BufferTypeOK /\ TurnTypeOK /\ pc \in States
    BY DEF TypeOK, TurnTypeOK
  <1>2. DebateTypeOK' /\ DebateInv'
    BY <1>1, StepDebates, DebateStepTyped, DebateInvStep
  <1>3. BufferTypeOK'
    <2>1. faults' \in 0 .. MaxFaults
      BY <1>1, FaultsTyped
    <2>2. CASE UNCHANGED flag /\ Appends
      BY <1>1, <2>2, AppendTyped DEF Appends, Kinds
    <2> QED
      BY <1>1, <2>1, <2>2, StepBuffer, ThisRunAssumption DEF BufferStep, BufferTypeOK
  <1>4. TurnTypeOK'
    BY <1>1, TurnTypedStep
  <1>5. TypeOK'
    BY <1>2, <1>3, <1>4, StepFlags, StoresTyped, EventsTyped DEF TypeOK, TurnTypeOK
  <1> QED
    BY <1>1, <1>2, <1>5, PlacesStep, SayingStep

(* Every variable of the group chat handler keeps its type, and the debate *)
(* is at the place its handler's step says.                                *)
THEOREM GroupTypeCorrect == Spec => [](TypeOK /\ InPlace)
  <1>1. Spec => []GroupTypes
    BY GroupTypesInit, GroupTypesStep, PTL DEF Spec
  <1> QED
    BY <1>1, PTL DEF GroupTypes

-----------------------------------------------------------------------------
(***************************************************************************)
(* A refused request.  The session and the row of the index are undone     *)
(* apart, and only what was made is to be undone: the invariant follows    *)
(* both through the steps that make them.                                  *)
(***************************************************************************)
SetupInv ==
    ~resuming =>
        /\ pc # "load"
        /\ pc = "create" => session = "absent" /\ ~indexed
        /\ pc = "save" => ~indexed
        /\ pc \in {"undo", "rejected"} => (indexed => "index" \in leaks)
        /\ pc = "rejected" => (session # "absent" => "session" \in leaks)


LEMMA SetupStep ==
  ASSUME TypeOK, SetupInv, [Next]_vars
  PROVE  SetupInv'
  <1>0. pc \in States /\ resuming' = resuming /\ session \in {"absent", "bare", "group"}
    BY DEF TypeOK,
           Next, Step, CreateSession, SaveFlags, IndexSession, LoadSession,
           StoreQuestion, RemoveIndex, UndoCreate, DropOldStream, RaiseFlag,
           SendRunStarted, Moderate, AnnounceTurn, ReadMapping, CallAgent, StoreNotice,
           StoreReply, StoreMapping, EndTurn, Conclude, Summarize, StoreSaying,
           ShowSaying, ReportLoss, SendRunError, SendRunFinished, LowerFlag,
           PassDeadline, Leave, DeleteSession, vars, storeVars, turnVars, bufferVars,
           SameStore, SameTurn, SameBuffer, SameClient, Others
  <1>1. CASE CreateSession \/ SaveFlags \/ IndexSession
    BY <1>0, <1>1 DEF SetupInv, CreateSession, SaveFlags, IndexSession
  <1>2. CASE LoadSession \/ StoreQuestion
    BY <1>0, <1>2 DEF SetupInv, LoadSession, StoreQuestion, SameStore, storeVars
  <1>3. CASE RemoveIndex \/ UndoCreate
    BY <1>0, <1>3 DEF SetupInv, RemoveIndex, UndoCreate
  <1>4. CASE DeleteSession
    BY <1>0, <1>4 DEF SetupInv, DeleteSession, Others
  <1>5. CASE /\ UNCHANGED <<session, indexed, leaks>>
             /\ pc' = pc \/ pc' \notin {"create", "save", "load", "undo", "rejected"}
    BY <1>0, <1>5 DEF SetupInv
  <1>6. \/ CreateSession \/ SaveFlags \/ IndexSession \/ LoadSession \/ StoreQuestion
        \/ RemoveIndex \/ UndoCreate \/ DeleteSession
        \/ /\ UNCHANGED <<session, indexed, leaks>>
           /\ pc' = pc \/ pc' \notin {"create", "save", "load", "undo", "rejected"}
    BY DEF Next, Step, DropOldStream, RaiseFlag, SendRunStarted, Moderate,
           AnnounceTurn, ReadMapping, CallAgent, StoreNotice, StoreReply, StoreMapping,
           EndTurn, Conclude, Summarize, StoreSaying, ShowSaying, ReportLoss,
           SendRunError, SendRunFinished, LowerFlag, PassDeadline, Leave, vars,
           storeVars, turnVars, bufferVars, SameStore, SameTurn, SameBuffer,
           SameClient, Others
  <1> QED
    BY <1>1, <1>2, <1>3, <1>4, <1>5, <1>6

(* A request refused before its run began leaves neither a session nor a   *)
(* row of the index behind, but for what the cleanup itself failed to      *)
(* remove (group_chat.go:556-582): whatever fails, and if the user deletes *)
(* the session meanwhile.                                                  *)
THEOREM GroupNoOrphan == Spec => []NoOrphan
  <1>1. Init => SetupInv
    <2> SUFFICES ASSUME Init, ~resuming PROVE SetupInv
      BY DEF SetupInv
    <2>1. ~indexed
      BY Zenon DEF Init
    <2> QED
      BY <2>1 DEF Init, SetupInv
  <1>2. TypeOK /\ SetupInv /\ [Next]_vars => SetupInv'
    BY SetupStep
  <1>3. SetupInv => NoOrphan
    BY DEF SetupInv, NoOrphan
  <1> QED
    BY <1>1, <1>2, <1>3, GroupTypeCorrect, PTL DEF Spec

-----------------------------------------------------------------------------
(***************************************************************************)
(* What the client is told.  The handler says how a debate ended by what   *)
(* the loop's result says when it ends, and nothing may change that once   *)
(* the loop is over.                                                       *)
(***************************************************************************)
LifeCycle ==
    /\ pc \in Before => told = <<>>
    /\ \A i \in DOMAIN told : told[i].kind \in Terminal => i = Len(told) /\ pc \in After
    /\ (pc \in After /\ dpc # "idle") => told # <<>> /\ told[Len(told)].kind \in Terminal

(* A debate whose IncompleteReason is {}, and the debates a reason fits.   *)
Complete ==
    verdict = "finish" /\ (\A i \in DOMAIN turns : ~Broken(i)) /\ (turns = <<>> \/ Speakers # {})
Fits(reason) ==
    /\ ~Complete
    /\ reason \in {"timeout", "max_turns"} => verdict = reason
    /\ reason = "session_mapping_error" => \E t \in DOMAIN turns : "mapping" \in turns[t].kinds
    /\ reason = "persistence_error" => \E t \in DOMAIN turns : "persistence" \in turns[t].kinds
    /\ reason = "all_agents_failed" =>
           \A t \in DOMAIN turns : turns[t].text = "none" \/ "agent" \in turns[t].kinds

(* What an incomplete debate was called, it still is. *)
ReasonStands ==
    \A i \in DOMAIN told : told[i].kind = "incomplete" =>
        /\ dpc = "over"
        /\ \/ told[i].about = "persistence_error" /\ pc \in {"fail", "clear", "done"}
           \/ Fits(told[i].about)

(* A debate is wound up as a complete one only if it is. *)
EndsWell ==
    /\ pc \in {"summary", "say", "show", "lost", "finish"} => Incomplete \/ Complete
    /\ ToldFinished => pc \in After /\ dpc = "over" /\ (Incomplete \/ Complete)

(* A synthesis is of a complete debate of several speakers. *)
Justified == Complete /\ \E x, y \in Speakers : x # y
SynthesisHeld ==
    /\ (pc \in {"say", "show"} /\ saying = "synthesis") => Justified
    /\ In(Shows(Said("synthesis")), told) =>
           dpc = "over" /\ pc \in {"finish", "clear", "done"} /\ Justified /\ ~Incomplete

(* The moderator's message about to be shown is stored. *)
SayingStored == (pc = "show" /\ session # "absent") => In(Said(saying), stored)

(* The first of some indices.                                              *)
LEMMA FirstExists ==
  ASSUME NEW T, T \subseteq Nat, T # {}
  PROVE  \E n \in T : \A m \in T : ~(m < n)
  <1>1. \E Less : IsWellFoundedOn(Less, Nat) /\ \A m, n \in Nat : m < n => <<m, n>> \in Less
    <2>1. \A m, n \in Nat : m < n => <<m, n>> \in OpToRel(<, Nat)
      BY DEF OpToRel
    <2> QED
      BY <2>1, NatLessThanWellFounded
  <1>2. PICK Less : IsWellFoundedOn(Less, Nat) /\ \A m, n \in Nat : m < n => <<m, n>> \in Less
    BY <1>1
  <1>3. IsWellFoundedOn(Less, Nat)
    BY <1>2
  <1>4. PICK n \in T : \A m \in T : ~(<<m, n>> \in Less)
    BY <1>3, WFMin, Zenon
  <1> QED
    BY <1>2, <1>4

(* An appended event is the last one, and nothing else changes.            *)
LEMMA AppendFacts ==
  ASSUME NEW S, NEW s \in Seq(S), NEW e \in S
  PROVE  /\ Len(Append(s, e)) = Len(s) + 1 /\ Len(s) \in Nat
         /\ DOMAIN s = 1 .. Len(s) /\ DOMAIN Append(s, e) = 1 .. Len(s) + 1
         /\ \A i \in DOMAIN s : Append(s, e)[i] = s[i]
         /\ Append(s, e)[Len(s) + 1] = e
  OBVIOUS

LEMMA AppendIn ==
  ASSUME NEW S, NEW s \in Seq(S), NEW e \in S, NEW x
  PROVE  In(x, Append(s, e)) <=> In(x, s) \/ x = e
  <1>1. /\ Len(s) \in Nat /\ DOMAIN s = 1 .. Len(s) /\ DOMAIN Append(s, e) = 1 .. Len(s) + 1
        /\ \A i \in DOMAIN s : Append(s, e)[i] = s[i]
        /\ Append(s, e)[Len(s) + 1] = e
    BY AppendFacts
  <1> QED
    BY <1>1 DEF In

(* debateIncompleteReason gives a reason that fits, and none for a debate  *)
(* that is complete.                                                       *)
LEMMA ReasonFits ==
  ASSUME DebateTypeOK, VerdictEnds, dpc = "over"
  PROVE  /\ \A reason \in IncompleteReason : Fits(reason)
         /\ IncompleteReason = {} => Complete
  <1>0. verdict \in {"finish", "timeout", "max_turns", "moderator_error"}
    BY DEF VerdictEnds, DebateTypeOK, Verdicts
  <1>1. CASE verdict # "finish"
    BY <1>0, <1>1 DEF IncompleteReason, Fits, Complete
  <1>2. CASE verdict = "finish" /\ \E i \in DOMAIN turns : Broken(i)
    <2> DEFINE First(i) == Broken(i) /\ \A j \in 1 .. i - 1 : ~Broken(j)
    <2>1. \E i \in DOMAIN turns : First(i)
      <3>1. DOMAIN turns \subseteq Nat /\ \A i \in DOMAIN turns : 1 .. i - 1 \subseteq DOMAIN turns
        BY DEF DebateTypeOK
      <3>2. PICK i \in {k \in DOMAIN turns : Broken(k)} :
                   \A j \in {k \in DOMAIN turns : Broken(k)} : ~(j < i)
        BY <1>2, <3>1, FirstExists
      <3> QED
        BY <3>1, <3>2
    <2> DEFINE first == CHOOSE i \in DOMAIN turns : First(i)
    <2>2. first \in DOMAIN turns /\ First(first)
      BY <2>1
    <2>3. IncompleteReason = {IF "persistence" \in turns[first].kinds THEN "persistence_error"
                                ELSE "session_mapping_error"}
      BY <1>2 DEF IncompleteReason
    <2>4. "persistence" \in turns[first].kinds \/ "mapping" \in turns[first].kinds
      BY <2>2 DEF Broken
    <2> HIDE DEF first, First
    <2> QED
      BY <1>2, <2>2, <2>3, <2>4 DEF Fits, Complete
  <1>3. CASE verdict = "finish" /\ ~(\E i \in DOMAIN turns : Broken(i)) /\ turns # <<>> /\ Speakers = {}
    <2>1. \A t \in DOMAIN turns : turns[t].text = "none" \/ "agent" \in turns[t].kinds
      BY <1>3 DEF Speakers
    <2>2. IncompleteReason = {"all_agents_failed"}
      BY <1>3 DEF IncompleteReason
    <2> QED
      BY <1>3, <2>1, <2>2 DEF Fits, Complete
  <1>4. CASE verdict = "finish" /\ ~(\E i \in DOMAIN turns : Broken(i)) /\ (turns = <<>> \/ Speakers # {})
    BY <1>4 DEF IncompleteReason, Complete
  <1> QED
    BY <1>1, <1>2, <1>3, <1>4

(* Once the loop is over its result stands, and an ending handler ends.    *)
LEMMA OverStays ==
  ASSUME pc \in States, InPlace, dpc = "over", [Next]_vars
  PROVE  /\ UNCHANGED <<dpc, turns, verdict>>
         /\ pc \in After => pc' \in After
         /\ pc \in {"fail", "clear", "done"} => pc' \in {"fail", "clear", "done"}
  BY DEF InPlace, Before, InTurn, Ending, After, States, debateVars, Expire, Begin,
       Next, Step, CreateSession, SaveFlags, IndexSession, LoadSession, StoreQuestion,
       RemoveIndex, UndoCreate, DropOldStream, RaiseFlag, SendRunStarted, Moderate,
       AnnounceTurn, ReadMapping, CallAgent, StoreNotice, StoreReply, StoreMapping,
       EndTurn, Conclude, Summarize, StoreSaying, ShowSaying, ReportLoss, SendRunError,
       SendRunFinished, LowerFlag, PassDeadline, Leave, DeleteSession, vars, storeVars,
       turnVars, bufferVars, SameStore, SameTurn, SameBuffer, SameClient, Others

LEMMA ResultStands ==
  ASSUME UNCHANGED <<turns, verdict>>
  PROVE  /\ (Complete <=> Complete') /\ UNCHANGED Speakers
         /\ \A reason : Fits(reason) <=> Fits(reason)'
  <1>1. UNCHANGED Speakers /\ \A i : Broken(i) <=> Broken(i)'
    BY DEF Speakers, Broken
  <1>2. Complete <=> Complete'
    BY <1>1 DEF Complete
  <1> QED
    BY <1>1, <1>2 DEF Fits

(* How a step may add to what the client has been told.                    *)
TellsNothing ==
  /\ UNCHANGED told
  /\ pc \in After <=> pc' \in After
  /\ pc' \in Before => pc \in Before
  /\ pc \in After => UNCHANGED dpc
TellsOnTheWay(e) ==
  /\ pc \notin After /\ pc' \notin After \cup Before
  /\ told' = Append(told, e) /\ e.kind \notin Terminal
TellsTheEnd(e) ==
  /\ pc \notin After /\ pc' \in After
  /\ told' = Append(told, e) /\ e.kind \in Terminal
TellsAndLeaves(e) ==
  /\ pc = "start" /\ pc' = "clear" /\ UNCHANGED dpc
  /\ told' = Append(told, e) /\ e.kind \notin Terminal

(* Which step tells what.                                                  *)
ToldBy(e) ==
  /\ e.kind = "incomplete" =>
         \/ pc = "verdict" /\ e.about \in IncompleteReason
         \/ pc = "lost" /\ pc' = "fail" /\ e.about = "persistence_error"
  /\ e.kind = "finished" => pc = "finish"
  /\ (e.kind = "message" /\ e.turn = 0) =>
         /\ pc = "show" /\ e = Shows(Said(saying))
         /\ pc' = IF saying \in Reasons THEN "summary" ELSE "finish"
         /\ UNCHANGED <<session, stored>>
  /\ e.about = "reply" =>
         /\ pc = "call" /\ pc' \in {"rotation", "reply"}
         /\ e.turn = ThisTurn /\ call'.text # "none" /\ UNCHANGED turns

Tells(e) == (TellsOnTheWay(e) \/ TellsTheEnd(e) \/ TellsAndLeaves(e)) /\ ToldBy(e)

LEMMA StepTells ==
  ASSUME GroupTypes, [Next]_vars
  PROVE  TellsNothing \/ \E e \in Event : Tells(e)
  <1>0. pc \in States /\ told \in Seq(Event) /\ told' \in Seq(Event)
    BY EventsTyped DEF GroupTypes, TypeOK
  <1> USE DEF Before, After, States
  <1>1. ASSUME NEW e, told' = Append(told, e) PROVE e \in Event
    <2>1. Len(told) + 1 \in DOMAIN told' /\ told'[Len(told) + 1] = e
      BY <1>0, <1>1
    <2> QED
      BY <1>0, <2>1
  <1>2. CASE SendRunStarted
    <2> DEFINE e == Told("started", 0, "")
    <2>1. told' = Append(told, e) /\ e.kind \notin Terminal
      BY <1>2 DEF SendRunStarted, Emit, Told, Terminal
    <2>2. e \in Event
      BY <1>1, <2>1
    <2>3. pc = "start" /\ (pc' = "debate" \/ (pc' = "clear" /\ UNCHANGED dpc))
      BY <1>2 DEF SendRunStarted, debateVars
    <2>4. ToldBy(e)
      BY DEF ToldBy, Told
    <2> HIDE DEF e
    <2> QED
      BY <2>1, <2>2, <2>3, <2>4 DEF Tells, TellsOnTheWay, TellsAndLeaves
  <1>3. CASE AnnounceTurn
    <2> DEFINE e == Told("select", ThisTurn, "")
    <2>1. told' = Append(told, e) /\ e.kind \notin Terminal
      BY <1>3 DEF AnnounceTurn, Emit, Told, Terminal
    <2>2. e \in Event
      BY <1>1, <2>1
    <2>3. pc = "select" /\ pc' \in {"record", "mappingRead"}
      BY <1>3 DEF AnnounceTurn
    <2>4. ToldBy(e)
      BY DEF ToldBy, Told
    <2> HIDE DEF e
    <2> QED
      BY <2>1, <2>2, <2>3, <2>4 DEF Tells, TellsOnTheWay
  <1>4. CASE CallAgent
    <2>1. pc = "call" /\ pc' \in {"record", "rotation", "reply"}
      BY <1>4 DEF CallAgent
    <2>2. CASE UNCHANGED told
      BY <2>1, <2>2 DEF TellsNothing
    <2>3. CASE /\ told' = Append(told, Shows(Reply(ThisTurn)))
               /\ pc' \in {"rotation", "reply"} /\ call'.text # "none" /\ UNCHANGED turns
      <3> DEFINE e == Shows(Reply(ThisTurn))
      <3>1. told' = Append(told, e) /\ e.kind \notin Terminal
        BY <2>3 DEF Shows, Told, Terminal
      <3>2. e \in Event
        BY <1>1, <3>1
      <3>3. e.turn = ThisTurn /\ e.kind = "message"
        BY DEF Shows, Told, Reply
      <3>4. ThisTurn # 0
        <4>0. turns \in Seq(TurnResult)
          BY DEF GroupTypes, TypeOK, DebateTypeOK
        <4>1. Len(turns) \in Nat
          BY <4>0
        <4> QED
          BY <4>1 DEF ThisTurn
      <3>5. ToldBy(e)
        BY <2>1, <2>3, <3>3, <3>4 DEF ToldBy
      <3> HIDE DEF e
      <3> QED
        BY <2>1, <3>1, <3>2, <3>5 DEF Tells, TellsOnTheWay
    <2>4. CASE told' = Append(told, Told("failed", ThisTurn, ""))
      <3> DEFINE e == Told("failed", ThisTurn, "")
      <3>1. told' = Append(told, e) /\ e.kind \notin Terminal
        BY <2>4 DEF Told, Terminal
      <3>2. e \in Event
        BY <1>1, <3>1
      <3>3. ToldBy(e)
        BY DEF ToldBy, Told
      <3> HIDE DEF e
      <3> QED
        BY <2>1, <3>1, <3>2, <3>3 DEF Tells, TellsOnTheWay
    <2>5. PICK c \in Outcomes :
            /\ call' = c
            /\ pc' = IF ~c.content THEN "record" ELSE IF c.rotated THEN "rotation" ELSE "reply"
            /\ CASE c.text # "none" -> Emit("content", Shows(Reply(ThisTurn)))
                 [] c.text = "none" /\ c.err -> Emit("content", Told("failed", ThisTurn, ""))
                 [] OTHER -> UNCHANGED <<log, stream, told, faults>>
      BY <1>4 DEF CallAgent
    <2>6. c.text # "none" => c.content
      BY CallsAssumption DEF Outcomes, Failure
    <2>7. UNCHANGED turns
      BY <1>4 DEF CallAgent, debateVars
    <2> QED
      BY <2>2, <2>3, <2>4, <2>5, <2>6, <2>7 DEF Emit
  <1>5. CASE Conclude
    <2>1. pc = "verdict" /\ pc' \in {"fail", "summary", "say"}
      BY <1>5 DEF Conclude
    <2>2. CASE UNCHANGED told
      BY <2>1, <2>2 DEF TellsNothing
    <2>3. CASE \E reason \in IncompleteReason : told' = Append(told, Told("incomplete", 0, reason))
      <3>1. PICK reason \in IncompleteReason : told' = Append(told, Told("incomplete", 0, reason))
        BY <2>3
      <3> DEFINE e == Told("incomplete", 0, reason)
      <3>2. e \in Event /\ e.kind \notin Terminal
        BY <1>1, <3>1 DEF Told, Terminal
      <3>3. told' = Append(told, e)
        BY <3>1
      <3>4. reason \in Reasons
        BY <2>1, ReasonTyped DEF GroupTypes, InPlace, Ending, TypeOK, DebateInv
      <3>5. e.kind = "incomplete" /\ e.about = reason /\ reason # "reply"
        BY <3>4 DEF Told, Reasons
      <3>6. ToldBy(e)
        BY <2>1, <3>1, <3>5 DEF ToldBy
      <3> HIDE DEF e
      <3> QED
        BY <2>1, <3>2, <3>3, <3>6 DEF Tells, TellsOnTheWay
    <2> QED
      BY <1>5, <2>2, <2>3 DEF Conclude, Emit
  <1>6. CASE ShowSaying
    <2> DEFINE e == Shows(Said(saying))
    <2>1. told' = Append(told, e) /\ e.kind \notin Terminal
      BY <1>6 DEF ShowSaying, Emit, Shows, Told, Terminal
    <2>2. e \in Event
      BY <1>1, <2>1
    <2>3. pc = "show" /\ pc' \in {"summary", "finish"}
      BY <1>6 DEF ShowSaying
    <2>4. e.kind = "message" /\ e.about = saying /\ saying # "reply"
      BY <2>3 DEF Shows, Told, Said, GroupTypes, HasSaying, Reasons, Summaries
    <2>5. /\ pc' = IF saying \in Reasons THEN "summary" ELSE "finish"
          /\ UNCHANGED <<session, stored>>
      BY <1>6 DEF ShowSaying, SameStore, storeVars
    <2>6. ToldBy(e)
      BY <2>3, <2>4, <2>5 DEF ToldBy
    <2> HIDE DEF e
    <2> QED
      BY <2>1, <2>2, <2>3, <2>6 DEF Tells, TellsOnTheWay
  <1>7. CASE ReportLoss
    <2> DEFINE e == Told("incomplete", 0, "persistence_error")
    <2>1. told' = Append(told, e) /\ e.kind \notin Terminal
      BY <1>7 DEF ReportLoss, Emit, Told, Terminal
    <2>2. e \in Event
      BY <1>1, <2>1
    <2>3. pc = "lost" /\ pc' = "fail"
      BY <1>7 DEF ReportLoss
    <2>4. ToldBy(e)
      BY <2>3 DEF ToldBy, Told
    <2> HIDE DEF e
    <2> QED
      BY <2>1, <2>2, <2>3, <2>4 DEF Tells, TellsOnTheWay
  <1>8. CASE SendRunError \/ SendRunFinished
    <2>1. PICK e \in {Told("error", 0, ""), Told("finished", 0, "")} :
                 /\ told' = Append(told, e)
                 /\ \/ SendRunError /\ e = Told("error", 0, "")
                    \/ SendRunFinished /\ e = Told("finished", 0, "")
      BY <1>8 DEF SendRunError, SendRunFinished, Emit
    <2>2. e \in Event
      BY <1>1, <2>1
    <2>4. e.kind \in Terminal
      <3>1. Told("error", 0, "").kind \in Terminal /\ Told("finished", 0, "").kind \in Terminal
        BY DEF Told, Terminal
      <3> QED
        BY <2>1, <3>1
    <2>3. pc \in {"fail", "finish"} /\ pc' = "clear"
      BY <1>8 DEF SendRunError, SendRunFinished
    <2>5. ToldBy(e)
      <3>1. CASE SendRunError /\ e = Told("error", 0, "")
        BY <3>1 DEF ToldBy, Told
      <3>2. CASE SendRunFinished /\ e = Told("finished", 0, "")
        BY <3>2 DEF ToldBy, Told, SendRunFinished
      <3> QED
        BY <2>1, <3>1, <3>2
    <2> QED
      BY <2>1, <2>2, <2>3, <2>4, <2>5 DEF Tells, TellsTheEnd
  <1>9. CASE TellsNothing
    BY <1>9
  <1>10. \/ SendRunStarted \/ AnnounceTurn \/ CallAgent \/ Conclude \/ ShowSaying \/ ReportLoss
         \/ SendRunError \/ SendRunFinished \/ TellsNothing
    <2>1. CASE PassDeadline
      BY <2>1 DEF PassDeadline, Expire, Others, TellsNothing
    <2>2. CASE Moderate
      BY <2>2 DEF Moderate, SameClient, TellsNothing
    <2>3. CASE EndTurn
      BY <2>3 DEF EndTurn, SameClient, TellsNothing
    <2>4. ASSUME ~(SendRunStarted \/ AnnounceTurn \/ CallAgent \/ Conclude \/ ShowSaying \/ ReportLoss
                   \/ SendRunError \/ SendRunFinished \/ PassDeadline \/ Moderate \/ EndTurn)
          PROVE  TellsNothing
      <3> USE <2>4 DEF
         Next, Step, CreateSession, SaveFlags, IndexSession, LoadSession,
         StoreQuestion, RemoveIndex, UndoCreate, DropOldStream, RaiseFlag, ReadMapping,
         StoreNotice, StoreReply, StoreMapping, Summarize, StoreSaying, LowerFlag,
         Leave, DeleteSession, vars, storeVars, turnVars, bufferVars, SameStore,
         SameTurn, SameBuffer, SameClient, Others
      <3>1. UNCHANGED told
        OBVIOUS
      <3>2. UNCHANGED dpc
        BY DEF debateVars
      <3>3. pc \in After <=> pc' \in After
        BY <1>0
      <3>4. pc' \in Before => pc \in Before
        BY <1>0
      <3> QED
        BY <3>1, <3>2, <3>3, <3>4 DEF TellsNothing
    <2> QED
      BY <2>1, <2>2, <2>3, <2>4
  <1> QED
    BY <1>2, <1>3, <1>4, <1>5, <1>6, <1>7, <1>8, <1>9, <1>10

LEMMA LifeCycleStep ==
  ASSUME GroupTypes, LifeCycle, [Next]_vars
  PROVE  LifeCycle'
  <1>0. told \in Seq(Event)
    BY DEF GroupTypes, TypeOK
  <1>1. CASE TellsNothing
    BY <1>1 DEF TellsNothing, LifeCycle
  <1>2. CASE \E e \in Event : Tells(e)
    <2>1. PICK e \in Event : TellsOnTheWay(e) \/ TellsTheEnd(e) \/ TellsAndLeaves(e)
      BY <1>2 DEF Tells
    <2>2. /\ pc \notin After /\ pc' \notin Before
          /\ told' = Append(told, e)
          /\ e.kind \in Terminal => pc' \in After
          /\ (pc' \in After /\ dpc' # "idle") => e.kind \in Terminal
      BY <2>1 DEF TellsOnTheWay, TellsTheEnd, TellsAndLeaves, Before, After, GroupTypes, InPlace
    <2>3. /\ Len(told') = Len(told) + 1 /\ Len(told) \in Nat
          /\ DOMAIN told = 1 .. Len(told) /\ DOMAIN told' = 1 .. Len(told) + 1
          /\ \A i \in DOMAIN told : told'[i] = told[i]
          /\ told'[Len(told) + 1] = e
      BY <1>0, <2>2, AppendFacts
    <2>4. \A i \in DOMAIN told : told[i].kind \notin Terminal
      BY <2>2 DEF LifeCycle
    <2>5. told' # <<>>
      BY <2>3
    <2> QED
      BY <2>2, <2>3, <2>4, <2>5 DEF LifeCycle, Terminal
  <1> QED
    BY <1>1, <1>2, StepTells

(* What a step that tells something changes, as a fact about indices.      *)
LEMMA TellingFacts ==
  ASSUME GroupTypes, [Next]_vars, NEW e \in Event, Tells(e)
  PROVE  /\ Len(told) \in Nat /\ DOMAIN told = 1 .. Len(told)
         /\ DOMAIN told' = 1 .. Len(told) + 1 /\ told'[Len(told) + 1] = e
         /\ \A i \in DOMAIN told : told'[i] = told[i]
         /\ Incomplete' <=> Incomplete \/ e.kind = "incomplete"
         /\ ToldFinished' <=> ToldFinished \/ e.kind = "finished"
         /\ \A x : In(x, told') <=> In(x, told) \/ x = e
  <1>0. told \in Seq(Event) /\ told' = Append(told, e)
    BY DEF GroupTypes, TypeOK, Tells, TellsOnTheWay, TellsTheEnd, TellsAndLeaves
  <1>1. /\ Len(told) \in Nat /\ DOMAIN told = 1 .. Len(told)
        /\ DOMAIN told' = 1 .. Len(told) + 1 /\ told'[Len(told) + 1] = e
        /\ \A i \in DOMAIN told : told'[i] = told[i]
    BY <1>0, AppendFacts
  <1>2. Incomplete' <=> Incomplete \/ e.kind = "incomplete"
    BY <1>1 DEF Incomplete
  <1>3. ToldFinished' <=> ToldFinished \/ e.kind = "finished"
    BY <1>1 DEF ToldFinished
  <1>4. \A x : In(x, told') <=> In(x, told) \/ x = e
    BY <1>1 DEF In
  <1> QED
    BY <1>1, <1>2, <1>3, <1>4

LEMMA SilentFacts ==
  ASSUME TellsNothing
  PROVE  /\ (Incomplete' <=> Incomplete) /\ (ToldFinished' <=> ToldFinished)
         /\ \A x : In(x, told') <=> In(x, told)
  BY DEF TellsNothing, Incomplete, ToldFinished, In

LEMMA ReasonStep ==
  ASSUME GroupTypes, ReasonStands, [Next]_vars
  PROVE  ReasonStands'
  <1>0. pc \in States /\ InPlace /\ DebateTypeOK /\ VerdictEnds
    BY DEF GroupTypes, TypeOK, DebateInv
  <1>1. ASSUME NEW i \in DOMAIN told, told[i].kind = "incomplete", told'[i] = told[i]
        PROVE  /\ dpc' = "over"
               /\ \/ told'[i].about = "persistence_error" /\ pc' \in {"fail", "clear", "done"}
                  \/ Fits(told[i].about)'
    <2>1. dpc = "over"
      BY <1>1 DEF ReasonStands
    <2>2. /\ UNCHANGED <<dpc, turns, verdict>>
          /\ pc \in {"fail", "clear", "done"} => pc' \in {"fail", "clear", "done"}
      BY <1>0, <2>1, OverStays
    <2>3. PICK r : r = told[i].about
      OBVIOUS
    <2>4. Fits(r) => Fits(r)'
      BY <2>2, ResultStands
    <2>5. Fits(r)' => Fits(told[i].about)'
      BY <1>1, <2>3 DEF Fits
    <2>6. (r = "persistence_error" /\ pc \in {"fail", "clear", "done"}) \/ Fits(r)
      BY <1>1, <2>3 DEF ReasonStands
    <2> QED
      BY <1>1, <2>1, <2>2, <2>3, <2>4, <2>5, <2>6
  <1>2. CASE TellsNothing
    BY <1>1, <1>2 DEF TellsNothing, ReasonStands
  <1>3. ASSUME NEW e \in Event, Tells(e) PROVE ReasonStands'
    <2>1. /\ Len(told) \in Nat /\ DOMAIN told = 1 .. Len(told)
          /\ DOMAIN told' = 1 .. Len(told) + 1 /\ told'[Len(told) + 1] = e
          /\ \A i \in DOMAIN told : told'[i] = told[i]
      BY <1>3, TellingFacts
    <2>2. ASSUME e.kind = "incomplete"
          PROVE  /\ dpc' = "over"
                 /\ \/ e.about = "persistence_error" /\ pc' \in {"fail", "clear", "done"}
                    \/ Fits(e.about)'
      <3>1. \/ pc = "verdict" /\ e.about \in IncompleteReason
            \/ pc = "lost" /\ pc' = "fail" /\ e.about = "persistence_error"
        BY <1>3, <2>2 DEF Tells, ToldBy
      <3>2. dpc = "over"
        BY <1>0, <3>1 DEF InPlace, Ending
      <3>3. UNCHANGED <<dpc, turns, verdict>>
        BY <1>0, <3>2, OverStays
      <3>4. e.about \in IncompleteReason => Fits(e.about)
        BY <1>0, <3>2, ReasonFits
      <3>5. Fits(e.about) => Fits(e.about)'
        BY <3>3, ResultStands
      <3> QED
        BY <3>1, <3>2, <3>3, <3>4, <3>5
    <2> SUFFICES ASSUME NEW i \in DOMAIN told', told'[i].kind = "incomplete"
                 PROVE  /\ dpc' = "over"
                        /\ \/ told'[i].about = "persistence_error" /\ pc' \in {"fail", "clear", "done"}
                           \/ Fits(told[i].about)'
      BY DEF ReasonStands
    <2>3. CASE i \in DOMAIN told
      BY <1>1, <2>1, <2>3
    <2>4. CASE told'[i] = e
      <3>1. Fits(e.about)' => Fits(told[i].about)'
        BY <2>4 DEF Fits
      <3> QED
        BY <2>2, <2>4, <3>1
    <2> QED
      BY <2>1, <2>3, <2>4
  <1> QED
    BY <1>2, <1>3, StepTells

(* How the handler comes to wind a debate up.                              *)
LEMMA WindingUp ==
  ASSUME GroupTypes, [Next]_vars,
         pc' \in {"summary", "say", "show", "lost", "finish"}
  PROVE  /\ dpc = "over"
         /\ \/ pc \in {"summary", "say", "show", "lost", "finish"}
            \/ pc = "verdict" /\ IncompleteReason = {}
            \/ pc = "verdict" /\ Incomplete'
  <1>0. pc \in States /\ InPlace
    BY DEF GroupTypes, TypeOK
  <1>1. CASE Conclude
    <2>1. dpc = "over" /\ pc = "verdict"
      BY <1>0, <1>1 DEF Conclude, InPlace, Ending
    <2>2. IncompleteReason = {} \/ \E reason \in IncompleteReason :
                                       told' = Append(told, Told("incomplete", 0, reason))
      BY <1>1 DEF Conclude, Emit
    <2>3. CASE \E reason \in IncompleteReason : told' = Append(told, Told("incomplete", 0, reason))
      <3>1. PICK reason \in IncompleteReason : told' = Append(told, Told("incomplete", 0, reason))
        BY <2>3
      <3>2. told \in Seq(Event)
        BY DEF GroupTypes, TypeOK
      <3>3. told'[Len(told) + 1] = Told("incomplete", 0, reason) /\ Len(told) + 1 \in DOMAIN told'
        BY <3>1, <3>2
      <3>4. Incomplete'
        BY <3>3 DEF Incomplete, Told
      <3> QED
        BY <2>1, <3>4
    <2> QED
      BY <2>1, <2>2, <2>3
  <1>2. CASE ~Conclude
    <2>1. pc \in {"summary", "say", "show", "lost", "finish"}
      BY <1>0, <1>2 DEF States,
         Next, Step, CreateSession, SaveFlags, IndexSession, LoadSession,
         StoreQuestion, RemoveIndex, UndoCreate, DropOldStream, RaiseFlag,
         SendRunStarted, Moderate, AnnounceTurn, ReadMapping, CallAgent, StoreNotice,
         StoreReply, StoreMapping, EndTurn, Summarize, StoreSaying, ShowSaying,
         ReportLoss, SendRunError, SendRunFinished, LowerFlag, PassDeadline, Leave,
         DeleteSession, vars, storeVars, turnVars, bufferVars, SameStore, SameTurn,
         SameBuffer, SameClient, Others
    <2> QED
      BY <1>0, <2>1 DEF InPlace, Ending
  <1> QED
    BY <1>1, <1>2

LEMMA EndsWellStep ==
  ASSUME GroupTypes, EndsWell, [Next]_vars
  PROVE  EndsWell'
  <1>0. pc \in States /\ InPlace /\ DebateTypeOK /\ VerdictEnds
    BY DEF GroupTypes, TypeOK, DebateInv
  <1>1. dpc = "over" => UNCHANGED <<dpc, turns, verdict>> /\ (pc \in After => pc' \in After)
    BY <1>0, OverStays
  <1>2. dpc = "over" /\ Complete => Complete'
    BY <1>1, ResultStands
  <1>3. Incomplete => Incomplete'
    BY StepTells, SilentFacts, TellingFacts
  <1>4. pc' \in {"summary", "say", "show", "lost", "finish"} => Incomplete' \/ Complete'
    BY <1>0, <1>2, <1>3, WindingUp, ReasonFits DEF EndsWell
  <1>5. ASSUME ToldFinished'
        PROVE  pc' \in After /\ dpc' = "over" /\ (Incomplete' \/ Complete')
    <2>1. CASE ToldFinished
      BY <1>1, <1>2, <1>3, <2>1 DEF EndsWell
    <2>2. CASE ~ToldFinished
      <3>1. PICK e \in Event : Tells(e)
        BY <1>5, <2>2, StepTells, SilentFacts
      <3>2. e.kind = "finished"
        BY <1>5, <2>2, <3>1, TellingFacts
      <3>3. pc = "finish" /\ pc' \in After
        BY <3>1, <3>2 DEF Tells, ToldBy, TellsOnTheWay, TellsTheEnd, TellsAndLeaves, Terminal
      <3>4. dpc = "over"
        BY <1>0, <3>3 DEF InPlace, Ending
      <3> QED
        BY <1>1, <1>2, <1>3, <3>3, <3>4 DEF EndsWell
    <2> QED
      BY <2>1, <2>2
  <1> QED
    BY <1>4, <1>5 DEF EndsWell

(* How the handler comes to add a synthesis.                               *)
LEMMA Synthesizing ==
  ASSUME GroupTypes, [Next]_vars, pc' \in {"say", "show"}, saying' = "synthesis"
  PROVE  \/ Summarize /\ IncompleteReason = {} /\ \E x, y \in Speakers : x # y
         \/ pc \in {"say", "show"} /\ saying = "synthesis" /\ UNCHANGED <<turns, verdict>>
  <1>0. pc \in States /\ InPlace
    BY DEF GroupTypes, TypeOK
  <1>1. CASE Conclude
    <2>1. dpc = "over"
      BY <1>0, <1>1 DEF Conclude, InPlace, Ending
    <2>2. saying' \in Reasons
      BY <1>1, <2>1, ReasonTyped DEF Conclude, GroupTypes, DebateInv, TypeOK
    <2> QED
      BY <2>2 DEF Reasons
  <1>2. CASE Summarize
    BY <1>2 DEF Summarize
  <1>3. CASE ~Conclude /\ ~Summarize
    <2>1. pc \in {"say", "show"} /\ saying = "synthesis"
      BY <1>0, <1>3 DEF States,
         Next, Step, CreateSession, SaveFlags, IndexSession, LoadSession,
         StoreQuestion, RemoveIndex, UndoCreate, DropOldStream, RaiseFlag,
         SendRunStarted, Moderate, AnnounceTurn, ReadMapping, CallAgent, StoreNotice,
         StoreReply, StoreMapping, EndTurn, StoreSaying, ShowSaying, ReportLoss,
         SendRunError, SendRunFinished, LowerFlag, PassDeadline, Leave, DeleteSession,
         vars, storeVars, turnVars, bufferVars, SameStore, SameTurn, SameBuffer,
         SameClient, Others
    <2>2. dpc = "over"
      BY <1>0, <2>1 DEF InPlace, Ending
    <2> QED
      BY <1>0, <2>1, <2>2, OverStays
  <1> QED
    BY <1>1, <1>2, <1>3

LEMMA SynthesisStep ==
  ASSUME GroupTypes, ReasonStands, SynthesisHeld, [Next]_vars
  PROVE  SynthesisHeld'
  <1>0. pc \in States /\ InPlace /\ DebateTypeOK /\ VerdictEnds
    BY DEF GroupTypes, TypeOK, DebateInv
  <1>1. dpc = "over" => UNCHANGED <<dpc, turns, verdict>>
    BY <1>0, OverStays
  <1>2. ASSUME UNCHANGED <<turns, verdict>>, Justified PROVE Justified'
    BY <1>2, ResultStands DEF Justified
  <1>3. ASSUME pc' \in {"say", "show"}, saying' = "synthesis" PROVE Justified'
    <2>1. CASE pc \in {"say", "show"} /\ saying = "synthesis"
      <3>1. dpc = "over"
        BY <1>0, <2>1 DEF InPlace, Ending
      <3> QED
        BY <1>1, <1>2, <2>1, <3>1 DEF SynthesisHeld
    <2>2. CASE Summarize /\ IncompleteReason = {} /\ \E x, y \in Speakers : x # y
      <3>1. dpc = "over"
        BY <1>0, <2>2 DEF InPlace, Ending, Summarize
      <3>2. Justified
        BY <1>0, <2>2, <3>1, ReasonFits DEF Justified
      <3> QED
        BY <1>1, <1>2, <3>1, <3>2
    <2> QED
      BY <1>3, <2>1, <2>2, Synthesizing
  <1> DEFINE synthesis == Shows(Said("synthesis"))
  <1>4. synthesis.kind = "message" /\ synthesis.turn = 0 /\ synthesis.about = "synthesis"
    BY DEF Shows, Said, Told
  <1>5. synthesis = Shows(Said("synthesis"))
    OBVIOUS
  <1> HIDE DEF synthesis
  <1>6. ASSUME In(synthesis, told')
        PROVE  dpc' = "over" /\ pc' \in {"finish", "clear", "done"} /\ Justified' /\ ~Incomplete'
    <2>1. CASE In(synthesis, told)
      <3>1. dpc = "over" /\ pc \in {"finish", "clear", "done"} /\ Justified /\ ~Incomplete
        BY <1>5, <2>1 DEF SynthesisHeld
      <3>2. pc' \in {"finish", "clear", "done"}
        BY <3>1 DEF
           Next, Step, CreateSession, SaveFlags, IndexSession, LoadSession,
           StoreQuestion, RemoveIndex, UndoCreate, DropOldStream, RaiseFlag,
           SendRunStarted, Moderate, AnnounceTurn, ReadMapping, CallAgent, StoreNotice,
           StoreReply, StoreMapping, EndTurn, Conclude, Summarize, StoreSaying,
           ShowSaying, ReportLoss, SendRunError, SendRunFinished, LowerFlag,
           PassDeadline, Leave, DeleteSession, vars, storeVars, turnVars, bufferVars,
           SameStore, SameTurn, SameBuffer, SameClient, Others
      <3>3. ASSUME NEW e \in Event, Tells(e) PROVE e.kind # "incomplete"
        BY <3>1, <3>3 DEF Tells, ToldBy
      <3>4. ~Incomplete'
        BY <3>1, <3>3, StepTells, SilentFacts, TellingFacts
      <3> QED
        BY <1>1, <1>2, <3>1, <3>2, <3>4
    <2>2. CASE ~In(synthesis, told)
      <3>1. PICK e \in Event : Tells(e)
        BY <1>6, <2>2, StepTells, SilentFacts
      <3>2. e = synthesis
        BY <1>6, <2>2, <3>1, TellingFacts
      <3>3. pc = "show" /\ e = Shows(Said(saying)) /\ pc' = IF saying \in Reasons THEN "summary" ELSE "finish"
        BY <1>4, <3>1, <3>2 DEF Tells, ToldBy
      <3>4. saying = "synthesis"
        BY <1>4, <3>2, <3>3 DEF Shows, Said, Told
      <3>5. Justified /\ pc' = "finish"
        BY <3>3, <3>4 DEF SynthesisHeld, Reasons
      <3>6. dpc = "over"
        BY <1>0, <3>3 DEF InPlace, Ending
      <3>7. ~Incomplete
        BY <3>3, <3>5 DEF ReasonStands, Justified, Fits, Incomplete
      <3>8. ~Incomplete'
        BY <1>4, <3>1, <3>2, <3>7, TellingFacts
      <3> QED
        BY <1>1, <1>2, <3>5, <3>6, <3>8
    <2> QED
      BY <2>1, <2>2
  <1> QED
    BY <1>3, <1>5, <1>6 DEF SynthesisHeld

(* A session that is there keeps its messages, and one that comes to be    *)
(* there does so before anything is told.                                  *)
LEMMA StoreKeeps ==
  ASSUME GroupTypes, [Next]_vars, session' # "absent"
  PROVE  \/ UNCHANGED <<told, stored, known>> /\ pc \in {"create", "save"} /\ pc' \in Before
         \/ session # "absent" /\ stored' = stored
         \/ session # "absent" /\ \E m \in Message : stored' = Append(stored, m)
  <1>0. pc \in States /\ stored \in Seq(Message) /\ stored' \in Seq(Message)
    BY StoresTyped DEF GroupTypes, TypeOK
  <1>1. ASSUME NEW m, stored' = Append(stored, m) PROVE m \in Message
    <2>1. Len(stored) + 1 \in DOMAIN stored' /\ stored'[Len(stored) + 1] = m
      BY <1>0, <1>1
    <2> QED
      BY <1>0, <2>1
  <1>2. CASE CreateSession \/ SaveFlags \/ UndoCreate
    BY <1>2 DEF CreateSession, SaveFlags, UndoCreate, SameClient, Before
  <1>3. CASE DeleteSession
    BY <1>3 DEF DeleteSession
  <1>4. CASE StoreQuestion
    BY <1>1, <1>4 DEF StoreQuestion, AddMessage
  <1>5. CASE StoreNotice
    <2>1. stored' = Append(stored, Notice) => Notice \in Message
      BY <1>1
    <2> QED
      BY <1>5, <2>1 DEF StoreNotice, AddMessage, AddFails
  <1>6. CASE StoreReply
    BY <1>1, <1>6 DEF StoreReply, AddMessage
  <1>7. CASE StoreSaying
    BY <1>1, <1>7 DEF StoreSaying, AddMessage
  <1>8. CASE UNCHANGED <<session, stored>>
    BY <1>8
  <1>9. \/ CreateSession \/ SaveFlags \/ UndoCreate \/ DeleteSession \/ StoreQuestion
        \/ StoreNotice \/ StoreReply \/ StoreSaying \/ UNCHANGED <<session, stored>>
    BY DEF
       Next, Step, IndexSession, LoadSession, RemoveIndex, DropOldStream, RaiseFlag,
       SendRunStarted, Moderate, AnnounceTurn, ReadMapping, CallAgent, StoreMapping,
       EndTurn, Conclude, Summarize, ShowSaying, ReportLoss, SendRunError,
       SendRunFinished, LowerFlag, PassDeadline, Leave, vars, storeVars, turnVars,
       bufferVars, SameStore, SameTurn, SameBuffer, SameClient, Others
  <1> QED
    BY <1>2, <1>3, <1>4, <1>5, <1>6, <1>7, <1>8, <1>9

LEMMA InGrows ==
  ASSUME GroupTypes, NEW x,
         stored' = stored \/ \E m \in Message : stored' = Append(stored, m), In(x, stored)
  PROVE  In(x, stored')
  <1>1. CASE stored' = stored
    BY <1>1 DEF In
  <1>2. CASE \E m \in Message : stored' = Append(stored, m)
    <2>1. stored \in Seq(Message)
      BY DEF GroupTypes, TypeOK
    <2> QED
      BY <1>2, <2>1, AppendIn
  <1> QED
    BY <1>1, <1>2

LEMMA SayingStoredStep ==
  ASSUME GroupTypes, SayingStored, [Next]_vars
  PROVE  SayingStored'
  <1> SUFFICES ASSUME pc' = "show", session' # "absent" PROVE In(Said(saying)', stored')
    BY DEF SayingStored, In
  <1>0. pc \in States /\ stored \in Seq(Message)
    BY DEF GroupTypes, TypeOK
  <1>1. CASE StoreSaying
    <2>1. stored' = Append(stored, Said(saying)) /\ saying' = saying /\ pc = "say"
      BY <1>1 DEF StoreSaying, AddMessage
    <2>2. Said(saying) \in Message
      BY <2>1, MessagesTyped DEF GroupTypes, HasSaying
    <2>3. In(Said(saying), stored')
      BY <1>0, <2>1, <2>2, AppendIn
    <2> QED
      BY <2>1, <2>3 DEF Said
  <1>2. CASE ~StoreSaying
    <2>1. pc = "show" /\ saying' = saying
      BY <1>0, <1>2 DEF States,
         Next, Step, CreateSession, SaveFlags, IndexSession, LoadSession,
         StoreQuestion, RemoveIndex, UndoCreate, DropOldStream, RaiseFlag,
         SendRunStarted, Moderate, AnnounceTurn, ReadMapping, CallAgent, StoreNotice,
         StoreReply, StoreMapping, EndTurn, Conclude, Summarize, ShowSaying,
         ReportLoss, SendRunError, SendRunFinished, LowerFlag, PassDeadline, Leave,
         DeleteSession, vars, storeVars, turnVars, bufferVars, SameStore, SameTurn,
         SameBuffer, SameClient, Others
    <2>2. /\ session # "absent"
          /\ stored' = stored \/ \E m \in Message : stored' = Append(stored, m)
      BY <2>1, StoreKeeps DEF Before
    <2>3. In(Said(saying), stored')
      BY <2>1, <2>2, InGrows DEF SayingStored
    <2> QED
      BY <2>1, <2>3 DEF Said
  <1> QED
    BY <1>1, <1>2

LEMMA ModeratorStep ==
  ASSUME GroupTypes, LifeCycle, SayingStored, ModeratorStoredFirst, [Next]_vars
  PROVE  ModeratorStoredFirst'
  <1> SUFFICES ASSUME session' # "absent", NEW i \in DOMAIN told',
                      told'[i].kind = "message", told'[i].turn = 0
               PROVE  In(Said(told'[i].about), stored')
    BY DEF ModeratorStoredFirst
  <1>1. CASE UNCHANGED told /\ pc \in {"create", "save"}
    BY <1>1 DEF LifeCycle, Before
  <1>2. CASE /\ session # "absent"
             /\ stored' = stored \/ \E m \in Message : stored' = Append(stored, m)
    <2>1. CASE i \in DOMAIN told /\ told'[i] = told[i]
      <3>1. In(Said(told[i].about), stored)
        BY <1>2, <2>1 DEF ModeratorStoredFirst
      <3> QED
        BY <1>2, <2>1, <3>1, InGrows
    <2>2. CASE \E e \in Event : Tells(e) /\ told'[i] = e
      <3>1. PICK e \in Event : Tells(e) /\ told'[i] = e
        BY <2>2
      <3>2. pc = "show" /\ e = Shows(Said(saying))
        BY <3>1 DEF Tells, ToldBy
      <3>3. e.about = saying
        BY <3>2 DEF Shows, Said, Told
      <3>4. In(Said(saying), stored)
        BY <1>2, <3>2 DEF SayingStored
      <3> QED
        BY <1>2, <3>1, <3>3, <3>4, InGrows
    <2>3. TellsNothing \/ \E e \in Event : Tells(e)
      BY StepTells
    <2>4. ASSUME NEW e \in Event, Tells(e)
          PROVE  (i \in DOMAIN told /\ told'[i] = told[i]) \/ told'[i] = e
      BY <2>4, TellingFacts
    <2> QED
      BY <2>1, <2>2, <2>3, <2>4 DEF TellsNothing
  <1> QED
    BY <1>1, <1>2, StepTells, StoreKeeps

(***************************************************************************)
(* The invariant behind what the client is told.                           *)
(***************************************************************************)
ToldInv ==
  LifeCycle /\ ReasonStands /\ EndsWell /\ SynthesisHeld /\ SayingStored /\ ModeratorStoredFirst

LEMMA ToldInit == Init => ToldInv
  <1> SUFFICES ASSUME Init PROVE ToldInv
    OBVIOUS
  <1>1. told = <<>> /\ DOMAIN told = {} /\ pc \in {"create", "load"} /\ saying = ""
    <2>1. told = <<>>
      BY DEF Init
    <2>2. DOMAIN told = {}
      BY <2>1
    <2>3. saying = "" /\ pc \in {"create", "load"}
      BY DEF Init
    <2> QED
      BY <2>1, <2>2, <2>3, Zenon
  <1>2. (\A x : ~In(x, told)) /\ ~Incomplete /\ ~ToldFinished
    BY <1>1 DEF In, Incomplete, ToldFinished
  <1> QED
    BY <1>1, <1>2 DEF ToldInv, LifeCycle, ReasonStands, EndsWell, SynthesisHeld, SayingStored,
       ModeratorStoredFirst, Before, After

LEMMA ToldStep == GroupTypes /\ ToldInv /\ [Next]_vars => ToldInv'
  BY LifeCycleStep, ReasonStep, EndsWellStep, SynthesisStep, SayingStoredStep, ModeratorStep
  DEF ToldInv

-----------------------------------------------------------------------------
(***************************************************************************)
(* What is kept of the replies.                                            *)
(***************************************************************************)
(* Nothing is there before the run begins. *)
Fresh ==
    /\ pc \in Before => turns = <<>>
    /\ pc \in {"create", "save", "index"} => stored = <<>> /\ known = <<>>

(* The turn at hand: until it is recorded, its failures are known to the   *)
(* handler only.                                                           *)
ReplyStored(k) == session # "absent" => In(Reply(k), stored)
TurnAtHand ==
    /\ pc \in {"mappingRead", "call"} => call = Failure
    /\ pc \in {"rotation", "reply", "mapping"} => ("agent" \in kinds <=> call.err)
    /\ pc = "mapping" => ~call.err /\ ReplyStored(ThisTurn) /\ In(Reply(ThisTurn), known)
    /\ (pc = "record" /\ call.text # "none" /\ "persistence" \notin kinds) => ReplyStored(ThisTurn)

(* Every turn recorded with a text, and without a failure to store it. *)
TurnsStored ==
    \A k \in DOMAIN turns :
        (turns[k].text # "none" /\ "persistence" \notin turns[k].kinds) => ReplyStored(k)

(* A reply that was shown belongs to a turn with a text. *)
ShownSpoken ==
    \A j \in DOMAIN told : told[j].about = "reply" =>
        \/ told[j].turn \in DOMAIN turns /\ turns[told[j].turn].text # "none"
        \/ /\ pc \in {"rotation", "reply", "mapping", "record"}
           /\ told[j].turn = ThisTurn
           /\ call.text # "none"

(* The replies in the session are in the order of their turns. *)
StoredInOrder ==
    /\ \A i \in DOMAIN stored : stored[i].about = "reply" =>
           \/ stored[i].turn \in DOMAIN turns
           \/ stored[i].turn = ThisTurn /\ pc \in {"mapping", "record"}
    /\ \A i, j \in DOMAIN stored :
           (i < j /\ stored[i].about = "reply" /\ stored[j].about = "reply") =>
               stored[i].turn < stored[j].turn

(* The handler's copy has the replies the session has. *)
CopyInv ==
    session # "absent" =>
        \A k \in 1 .. MaxTurns : In(Reply(k), known) <=> In(Reply(k), stored)

(* An agent with a mapping has answered, in a recorded turn or in this one. *)
Answered(x) ==
    \E i \in DOMAIN turns :
        turns[i].agent = x /\ "agent" \notin turns[i].kinds /\ In(Reply(i), known)
MappedInv ==
    \A x \in mapped :
        \/ /\ x = speaker /\ pc = "record" /\ ~call.err
           /\ "agent" \notin kinds /\ In(Reply(ThisTurn), known)
        \/ Answered(x)

LEMMA EndTurnFacts ==
  ASSUME GroupTypes, EndTurn
  PROVE  /\ pc = "record" /\ pc' = "debate"
         /\ UNCHANGED <<session, stored, known, mapped, told>>
         /\ Len(turns) \in Nat /\ DOMAIN turns = 1 .. Len(turns)
         /\ DOMAIN turns' = 1 .. ThisTurn
         /\ \A k \in DOMAIN turns : turns'[k] = turns[k]
         /\ turns'[ThisTurn] = [agent |-> speaker, text |-> call.text, kinds |-> kinds]
  <1>1. /\ turns \in Seq(TurnResult) /\ speaker \in Members
        /\ call.text \in Texts /\ kinds \in SUBSET FailureKinds
    BY DEF GroupTypes, TypeOK, DebateTypeOK, CallResult
  <1>2. turns' = Append(turns, [agent |-> speaker, text |-> call.text, kinds |-> kinds])
    BY DEF EndTurn, RecordTurn
  <1>3. [agent |-> speaker, text |-> call.text, kinds |-> kinds] \in TurnResult
    BY <1>1 DEF TurnResult
  <1>4. /\ pc = "record" /\ pc' = "debate" /\ UNCHANGED <<session, stored, known, mapped, told>>
    BY DEF EndTurn, SameStore, storeVars, SameClient
  <1> QED
    BY <1>1, <1>2, <1>3, <1>4, AppendFacts DEF ThisTurn

(* Only the end of a turn adds to the turns.                               *)
LEMMA TurnsStay == [Next]_vars => EndTurn \/ UNCHANGED turns
  BY DEF debateVars, Begin, Expire, NextRound, AskModerator, AskAgain,
     Next, Step, CreateSession, SaveFlags, IndexSession, LoadSession, StoreQuestion,
     RemoveIndex, UndoCreate, DropOldStream, RaiseFlag, SendRunStarted, Moderate,
     AnnounceTurn, ReadMapping, CallAgent, StoreNotice, StoreReply, StoreMapping,
     Conclude, Summarize, StoreSaying, ShowSaying, ReportLoss, SendRunError,
     SendRunFinished, LowerFlag, PassDeadline, Leave, DeleteSession, vars, storeVars,
     turnVars, bufferVars, SameStore, SameTurn, SameBuffer, SameClient, Others

LEMMA FreshStep ==
  ASSUME GroupTypes, Fresh, [Next]_vars
  PROVE  Fresh'
  <1>0. pc \in States
    BY DEF GroupTypes, TypeOK
  <1>1. pc' \in Before => pc \in Before
    BY <1>0 DEF Before, States,
       Next, Step, CreateSession, SaveFlags, IndexSession, LoadSession, StoreQuestion,
       RemoveIndex, UndoCreate, DropOldStream, RaiseFlag, SendRunStarted, Moderate,
       AnnounceTurn, ReadMapping, CallAgent, StoreNotice, StoreReply, StoreMapping,
       EndTurn, Conclude, Summarize, StoreSaying, ShowSaying, ReportLoss, SendRunError,
       SendRunFinished, LowerFlag, PassDeadline, Leave, DeleteSession, vars, storeVars,
       turnVars, bufferVars, SameStore, SameTurn, SameBuffer, SameClient, Others
  <1>2. pc' \in Before => UNCHANGED turns
    BY <1>1, TurnsStay DEF EndTurn, Before
  <1>3. pc' \in {"create", "save", "index"} =>
           /\ pc \in {"create", "save", "index"}
           /\ UNCHANGED known /\ stored' \in {stored, <<>>}
    BY <1>0 DEF States,
       Next, Step, CreateSession, SaveFlags, IndexSession, LoadSession, StoreQuestion,
       RemoveIndex, UndoCreate, DropOldStream, RaiseFlag, SendRunStarted, Moderate,
       AnnounceTurn, ReadMapping, CallAgent, StoreNotice, StoreReply, StoreMapping,
       EndTurn, Conclude, Summarize, StoreSaying, ShowSaying, ReportLoss, SendRunError,
       SendRunFinished, LowerFlag, PassDeadline, Leave, DeleteSession, vars, storeVars,
       turnVars, bufferVars, SameStore, SameTurn, SameBuffer, SameClient, Others
  <1> QED
    BY <1>1, <1>2, <1>3 DEF Fresh

(* What is in the session, or in the handler's copy, stays there.          *)
LEMMA StoredStays ==
  ASSUME GroupTypes, [Next]_vars, pc \notin {"create", "save"}, session' # "absent"
  PROVE  session # "absent" /\ \A x : In(x, stored) => In(x, stored')
  BY StoreKeeps, InGrows

LEMMA KnownStays ==
  ASSUME GroupTypes, [Next]_vars
  PROVE  \A x : In(x, known) => In(x, known')
  <1>0. known \in Seq(Message) /\ known' \in Seq(Message)
    BY StoresTyped DEF GroupTypes, TypeOK
  <1>1. CASE UNCHANGED known
    BY <1>1 DEF In
  <1>2. ASSUME NEW m, known' = Append(known, m) PROVE \A x : In(x, known) => In(x, known')
    <2>1. /\ DOMAIN known = 1 .. Len(known) /\ Len(known) \in Nat
          /\ DOMAIN known' = 1 .. Len(known) + 1 /\ \A i \in DOMAIN known : known'[i] = known[i]
      BY <1>0, <1>2
    <2> QED
      BY <2>1 DEF In
  <1>3. UNCHANGED known \/ known' = Append(known, Question)
        \/ known' = Append(known, Reply(ThisTurn)) \/ known' = Append(known, Said(saying))
    BY DEF
       Next, Step, CreateSession, SaveFlags, IndexSession, LoadSession, StoreQuestion,
       RemoveIndex, UndoCreate, DropOldStream, RaiseFlag, SendRunStarted, Moderate,
       AnnounceTurn, ReadMapping, CallAgent, StoreNotice, StoreReply, StoreMapping,
       EndTurn, Conclude, Summarize, StoreSaying, ShowSaying, ReportLoss, SendRunError,
       SendRunFinished, LowerFlag, PassDeadline, Leave, DeleteSession, vars, storeVars,
       turnVars, bufferVars, SameStore, SameTurn, SameBuffer, SameClient, Others
  <1> QED
    BY <1>1, <1>2, <1>3

LEMMA ReplyStays ==
  ASSUME GroupTypes, [Next]_vars, NEW k, ReplyStored(k), pc \notin {"create", "save"}
  PROVE  ReplyStored(k)'
  <1> SUFFICES ASSUME session' # "absent" PROVE In(Reply(k), stored')
    BY DEF ReplyStored, Reply
  <1> QED
    BY StoredStays DEF ReplyStored

LEMMA TurnAtHandStep ==
  ASSUME GroupTypes, TurnAtHand, [Next]_vars
  PROVE  TurnAtHand'
  <1>0. pc \in States /\ stored \in Seq(Message) /\ known \in Seq(Message)
        /\ call \in CallResult /\ kinds \subseteq FailureKinds
    BY DEF GroupTypes, TypeOK
  <1>1. CASE AnnounceTurn
    BY <1>1 DEF AnnounceTurn, TurnAtHand, Failure
  <1>2. CASE ReadMapping
    BY <1>2 DEF ReadMapping, TurnAtHand, Failure
  <1>3. CASE CallAgent
    <2>1. PICK c \in Outcomes :
            /\ call' = c
            /\ kinds' = IF c.err THEN {"agent"} ELSE {}
            /\ pc' = IF ~c.content THEN "record" ELSE IF c.rotated THEN "rotation" ELSE "reply"
      BY <1>3 DEF CallAgent
    <2>2. c.text # "none" => c.content
      BY CallsAssumption DEF Outcomes, Failure
    <2> QED
      BY <2>1, <2>2 DEF TurnAtHand
  <1>4. CASE StoreNotice
    BY <1>4 DEF StoreNotice, TurnAtHand
  <1>5. CASE StoreReply
    <2>1. Reply(ThisTurn) \in Message
      BY <1>5, TurnInRange, MessagesTyped
      DEF StoreReply, GroupTypes, TypeOK, InPlace, InTurn, DebateInv
    <2>2. UNCHANGED <<session, call, turns>> /\ pc = "reply"
      BY <1>5 DEF StoreReply, debateVars
    <2>3. CASE /\ AddMessage(Reply(ThisTurn)) /\ known' = Append(known, Reply(ThisTurn))
               /\ pc' = IF call.err THEN "record" ELSE "mapping"
               /\ UNCHANGED kinds
      <3>1. In(Reply(ThisTurn), stored') /\ In(Reply(ThisTurn), known')
        BY <1>0, <2>1, <2>3, AppendIn DEF AddMessage
      <3>2. Reply(ThisTurn)' = Reply(ThisTurn) /\ ThisTurn' = ThisTurn
        BY <2>2 DEF Reply, ThisTurn
      <3>3. ReplyStored(ThisTurn)' /\ In(Reply(ThisTurn), known)'
        BY <3>1, <3>2 DEF ReplyStored, In
      <3> QED
        BY <2>2, <2>3, <3>3 DEF TurnAtHand
    <2>4. CASE pc' = "record" /\ "persistence" \in kinds'
      BY <2>4 DEF TurnAtHand
    <2> QED
      BY <1>5, <2>3, <2>4 DEF StoreReply
  <1>6. CASE StoreMapping
    <2>1. UNCHANGED <<session, stored, known, call, turns>> /\ pc = "mapping" /\ pc' = "record"
      BY <1>6 DEF StoreMapping, debateVars
    <2>2. ReplyStored(ThisTurn)'
      BY <2>1 DEF TurnAtHand, ReplyStored, In, Reply, ThisTurn
    <2> QED
      BY <2>1, <2>2 DEF TurnAtHand
  <1>7. CASE UNCHANGED <<pc, call, kinds, turns>>
    <2>1. ASSUME pc \in {"mapping", "record"}, ReplyStored(ThisTurn)
          PROVE  ReplyStored(ThisTurn)'
      <3>1. PICK k : k = ThisTurn
        OBVIOUS
      <3>2. ReplyStored(k)'
        BY <2>1, <3>1, ReplyStays
      <3> QED
        BY <1>7, <3>1, <3>2 DEF ReplyStored, ThisTurn, Reply
    <2>2. In(Reply(ThisTurn), known) => In(Reply(ThisTurn), known)'
      <3>1. Reply(ThisTurn)' = Reply(ThisTurn)
        BY <1>7 DEF Reply, ThisTurn
      <3> QED
        BY <3>1, KnownStays DEF In
    <2> QED
      BY <1>7, <2>1, <2>2 DEF TurnAtHand
  <1>8. CASE pc' \notin InTurn \ {"select"}
    BY <1>8 DEF TurnAtHand, InTurn
  <1>9. \/ AnnounceTurn \/ ReadMapping \/ CallAgent \/ StoreNotice \/ StoreReply \/ StoreMapping
        \/ UNCHANGED <<pc, call, kinds, turns>> \/ pc' \notin InTurn \ {"select"}
    BY <1>0 DEF InTurn, debateVars, Expire,
       Next, Step, CreateSession, SaveFlags, IndexSession, LoadSession, StoreQuestion,
       RemoveIndex, UndoCreate, DropOldStream, RaiseFlag, SendRunStarted, Moderate,
       EndTurn, Conclude, Summarize, StoreSaying, ShowSaying, ReportLoss, SendRunError,
       SendRunFinished, LowerFlag, PassDeadline, Leave, DeleteSession, vars, storeVars,
       turnVars, bufferVars, SameStore, SameTurn, SameBuffer, SameClient, Others
  <1> QED
    BY <1>1, <1>2, <1>3, <1>4, <1>5, <1>6, <1>7, <1>8, <1>9

LEMMA TurnsStoredStep ==
  ASSUME GroupTypes, Fresh, TurnAtHand, TurnsStored, [Next]_vars
  PROVE  TurnsStored'
  <1>1. CASE pc \in {"create", "save"}
    <2>1. UNCHANGED turns /\ turns = <<>>
      BY <1>1, TurnsStay DEF Fresh, Before, EndTurn
    <2>2. DOMAIN turns' = {}
      BY <2>1
    <2> QED
      BY <2>2 DEF TurnsStored
  <1>2. CASE pc \notin {"create", "save"} /\ UNCHANGED turns
    BY <1>2, ReplyStays DEF TurnsStored
  <1>3. CASE EndTurn
    <2> SUFFICES ASSUME NEW k \in DOMAIN turns', turns'[k].text # "none",
                        "persistence" \notin turns'[k].kinds
                 PROVE  ReplyStored(k)'
      BY DEF TurnsStored
    <2>1. CASE k \in DOMAIN turns
      BY <1>3, <2>1, EndTurnFacts, ReplyStays DEF TurnsStored
    <2>2. CASE k = ThisTurn
      <3>1. ReplyStored(ThisTurn)
        BY <1>3, <2>2, EndTurnFacts DEF TurnAtHand
      <3> QED
        BY <1>3, <2>2, <3>1, EndTurnFacts, ReplyStays
    <2> QED
      BY <1>3, <2>1, <2>2, EndTurnFacts DEF ThisTurn
  <1> QED
    BY <1>1, <1>2, <1>3, TurnsStay

(* A called agent's turn is at hand until it ends.                         *)
LEMMA TurnGoesOn ==
  ASSUME GroupTypes, pc \in {"rotation", "reply", "mapping", "record"}, [Next]_vars
  PROVE  \/ EndTurn
         \/ /\ pc' \in {"rotation", "reply", "mapping", "record"}
            /\ UNCHANGED <<call, speaker, turns>>
            /\ pc \in {"mapping", "record"} => pc' \in {"mapping", "record"}
            /\ pc = "record" => UNCHANGED <<pc, kinds>>
  BY DEF debateVars, Expire,
     Next, Step, CreateSession, SaveFlags, IndexSession, LoadSession, StoreQuestion,
     RemoveIndex, UndoCreate, DropOldStream, RaiseFlag, SendRunStarted, Moderate,
     AnnounceTurn, ReadMapping, CallAgent, StoreNotice, StoreReply, StoreMapping,
     Conclude, Summarize, StoreSaying, ShowSaying, ReportLoss, SendRunError,
     SendRunFinished, LowerFlag, PassDeadline, Leave, DeleteSession, vars, storeVars,
     turnVars, bufferVars, SameStore, SameTurn, SameBuffer, SameClient, Others

LEMMA ShownStep ==
  ASSUME GroupTypes, ShownSpoken, [Next]_vars
  PROVE  ShownSpoken'
  <1> SUFFICES ASSUME NEW j \in DOMAIN told', told'[j].about = "reply"
               PROVE  \/ told'[j].turn \in DOMAIN turns' /\ turns'[told'[j].turn].text # "none"
                      \/ /\ pc' \in {"rotation", "reply", "mapping", "record"}
                         /\ told'[j].turn = ThisTurn'
                         /\ call'.text # "none"
    BY DEF ShownSpoken
  <1>1. CASE \E e \in Event : Tells(e) /\ told'[j] = e
    <2>1. PICK e \in Event : Tells(e) /\ told'[j] = e
      BY <1>1
    <2>2. /\ pc' \in {"rotation", "reply"} /\ e.turn = ThisTurn
          /\ call'.text # "none" /\ UNCHANGED turns
      BY <2>1 DEF Tells, ToldBy
    <2> QED
      BY <2>1, <2>2 DEF ThisTurn
  <1>2. CASE j \in DOMAIN told /\ told'[j] = told[j]
    <2>1. CASE told[j].turn \in DOMAIN turns /\ turns[told[j].turn].text # "none"
      BY <1>2, <2>1, TurnsStay, EndTurnFacts DEF ThisTurn
    <2>2. CASE /\ pc \in {"rotation", "reply", "mapping", "record"}
               /\ told[j].turn = ThisTurn /\ call.text # "none"
      <3>1. CASE EndTurn
        <4>1. ThisTurn \in DOMAIN turns' /\ turns'[ThisTurn].text = call.text
          BY <3>1, EndTurnFacts DEF ThisTurn
        <4> QED
          BY <1>2, <2>2, <4>1
      <3>2. CASE /\ pc' \in {"rotation", "reply", "mapping", "record"}
                 /\ UNCHANGED <<call, speaker, turns>>
        BY <1>2, <2>2, <3>2 DEF ThisTurn
      <3> QED
        BY <2>2, <3>1, <3>2, TurnGoesOn
    <2> QED
      BY <1>2, <2>1, <2>2 DEF ShownSpoken
  <1>3. ASSUME NEW e \in Event, Tells(e) PROVE (j \in DOMAIN told /\ told'[j] = told[j]) \/ told'[j] = e
    BY <1>3, TellingFacts
  <1> QED
    BY <1>1, <1>2, <1>3, StepTells DEF TellsNothing

LEMMA OrderStep ==
  ASSUME GroupTypes, StoredInOrder, [Next]_vars
  PROVE  StoredInOrder'
  <1>0. /\ stored \in Seq(Message) /\ stored' \in Seq(Message)
        /\ Len(turns) \in Nat /\ DOMAIN turns = 1 .. Len(turns)
    <2>1. turns \in Seq(TurnResult)
      BY DEF GroupTypes, TypeOK, DebateTypeOK
    <2>2. stored \in Seq(Message) /\ stored' \in Seq(Message)
      BY StoresTyped DEF GroupTypes, TypeOK
    <2>3. Len(turns) \in Nat /\ DOMAIN turns = 1 .. Len(turns)
      BY <2>1
    <2> QED
      BY <2>2, <2>3
  <1> DEFINE Placed(m) ==
               m.turn \in DOMAIN turns \/ (m.turn = ThisTurn /\ pc \in {"mapping", "record"})
  <1>1. ASSUME NEW m, Placed(m), pc' # "reply" \/ pc # "reply"
        PROVE  Placed(m)'
    <2>1. CASE m.turn \in DOMAIN turns
      BY <2>1, TurnsStay, EndTurnFacts DEF ThisTurn
    <2>2. CASE m.turn = ThisTurn /\ pc \in {"mapping", "record"}
      <3>1. CASE EndTurn
        <4>1. ThisTurn \in DOMAIN turns'
          BY <1>0, <3>1, EndTurnFacts DEF ThisTurn
        <4> QED
          BY <2>2, <4>1
      <3>2. CASE pc' \in {"mapping", "record"} /\ UNCHANGED turns
        BY <2>2, <3>2 DEF ThisTurn
      <3> QED
        BY <2>2, <3>1, <3>2, TurnGoesOn
    <2> QED
      BY <1>1, <2>1, <2>2
  <1>2. \A m : Placed(m) => Placed(m)'
    <2>1. ASSUME NEW m, Placed(m), pc = "reply" PROVE Placed(m)'
      BY <2>1, TurnsStay, EndTurnFacts DEF ThisTurn
    <2> QED
      BY <1>1, <2>1
  <1> DEFINE Reps(s) == \A i, j \in DOMAIN s :
           (i < j /\ s[i].about = "reply" /\ s[j].about = "reply") => s[i].turn < s[j].turn
  <1>3. /\ \A i \in DOMAIN stored : stored[i].about = "reply" => Placed(stored[i])
        /\ Reps(stored)
    BY DEF StoredInOrder
  <1>4. SUFFICES /\ \A i \in DOMAIN stored' : stored'[i].about = "reply" => Placed(stored[i])'
                 /\ Reps(stored')
    BY DEF StoredInOrder
  <1>5. ASSUME NEW i, i \in DOMAIN stored, stored[i].about = "reply", stored'[i] = stored[i]
        PROVE  Placed(stored[i])'
    <2>1. PICK m : m = stored[i]
      OBVIOUS
    <2>2. Placed(m)'
      BY <1>2, <1>3, <1>5, <2>1
    <2> QED
      BY <1>5, <2>1, <2>2
  <1>6. CASE UNCHANGED stored
    BY <1>3, <1>5, <1>6
  <1>7. CASE stored' = <<>>
    BY <1>7
  <1>8. CASE \E m : m.about # "reply" /\ stored' = Append(stored, m)
    <2>1. PICK m : m.about # "reply" /\ stored' = Append(stored, m)
      BY <1>8
    <2>2. /\ DOMAIN stored = 1 .. Len(stored) /\ Len(stored) \in Nat
          /\ DOMAIN stored' = 1 .. Len(stored) + 1 /\ stored'[Len(stored) + 1] = m
          /\ \A i \in DOMAIN stored : stored'[i] = stored[i]
      BY <1>0, <2>1
    <2>3. \A i \in DOMAIN stored' : stored'[i].about = "reply" => i \in DOMAIN stored
      BY <2>1, <2>2
    <2> QED
      BY <1>3, <1>5, <2>2, <2>3
  <1>9. CASE StoreReply /\ stored' = Append(stored, Reply(ThisTurn)) /\ pc' \in {"mapping", "record"}
    <2>1. /\ DOMAIN stored = 1 .. Len(stored) /\ Len(stored) \in Nat
          /\ DOMAIN stored' = 1 .. Len(stored) + 1 /\ stored'[Len(stored) + 1] = Reply(ThisTurn)
          /\ \A i \in DOMAIN stored : stored'[i] = stored[i]
      BY <1>0, <1>9
    <2>2. pc = "reply" /\ UNCHANGED turns
      BY <1>9 DEF StoreReply, debateVars
    <2>3. \A i \in DOMAIN stored : stored[i].about = "reply" => stored[i].turn \in DOMAIN turns
      BY <1>3, <2>2
    <2>4. Reply(ThisTurn).turn = ThisTurn /\ ThisTurn' = ThisTurn
      BY <2>2 DEF Reply, ThisTurn
    <2>5. \A i \in DOMAIN stored : stored[i].about = "reply" => stored[i].turn < ThisTurn
      BY <1>0, <2>3 DEF ThisTurn
    <2>6. Reps(stored')
      BY <1>3, <2>1, <2>4, <2>5
    <2>7. ASSUME NEW i \in DOMAIN stored', stored'[i].about = "reply" PROVE Placed(stored[i])'
      <3>1. CASE i \in DOMAIN stored
        BY <1>5, <2>1, <2>7, <3>1
      <3>2. CASE i = Len(stored) + 1
        BY <1>9, <2>1, <2>4, <3>2
      <3> QED
        BY <2>1, <3>1, <3>2
    <2> QED
      BY <2>6, <2>7
  <1>10. \/ UNCHANGED stored \/ stored' = <<>>
         \/ (\E m : m.about # "reply" /\ stored' = Append(stored, m))
         \/ /\ StoreReply /\ stored' = Append(stored, Reply(ThisTurn))
            /\ pc' \in {"mapping", "record"}
    <2>1. CASE StoreQuestion
      BY <2>1 DEF StoreQuestion, AddMessage, Question
    <2>2. CASE StoreNotice
      BY <2>2 DEF StoreNotice, AddMessage, Notice
    <2>3. CASE StoreReply
      BY <2>3 DEF StoreReply, AddMessage
    <2>4. CASE StoreSaying
      BY <2>4 DEF StoreSaying, AddMessage, Said, GroupTypes, HasSaying, Reasons, Summaries
    <2>5. CASE UndoCreate \/ DeleteSession
      BY <2>5 DEF UndoCreate, DeleteSession
    <2>6. StoreQuestion \/ StoreNotice \/ StoreReply \/ StoreSaying \/ UndoCreate \/ DeleteSession
          \/ UNCHANGED stored
      BY DEF
         Next, Step, CreateSession, SaveFlags, IndexSession, LoadSession, RemoveIndex,
         DropOldStream, RaiseFlag, SendRunStarted, Moderate, AnnounceTurn, ReadMapping,
         CallAgent, StoreMapping, EndTurn, Conclude, Summarize, ShowSaying, ReportLoss,
         SendRunError, SendRunFinished, LowerFlag, PassDeadline, Leave, vars,
         storeVars, turnVars, bufferVars, SameStore, SameTurn, SameBuffer, SameClient,
         Others
    <2> QED
      BY <2>1, <2>2, <2>3, <2>4, <2>5, <2>6
  <1> QED
    BY <1>6, <1>7, <1>8, <1>9, <1>10

LEMMA CopyStep ==
  ASSUME GroupTypes, Fresh, CopyInv, [Next]_vars
  PROVE  CopyInv'
  <1> SUFFICES ASSUME session' # "absent", NEW k \in 1 .. MaxTurns
               PROVE  In(Reply(k), known') <=> In(Reply(k), stored')
    BY DEF CopyInv, Reply
  <1>0. /\ \A m \in Message : In(Reply(k), Append(stored, m)) <=> In(Reply(k), stored) \/ Reply(k) = m
        /\ \A m \in Message : In(Reply(k), Append(known, m)) <=> In(Reply(k), known) \/ Reply(k) = m
    <2>1. stored \in Seq(Message) /\ known \in Seq(Message)
      BY DEF GroupTypes, TypeOK
    <2> QED
      BY <2>1, AppendIn
  <1>1. CASE UNCHANGED <<stored, known>> /\ pc \in {"create", "save"}
    BY <1>1 DEF Fresh
  <1>2. CASE session # "absent"
    <2>0. In(Reply(k), known) <=> In(Reply(k), stored)
      BY <1>2 DEF CopyInv
    <2>1. CASE StoreQuestion
      <3>1. Question # Reply(k) /\ Question \in Message
        BY MessagesTyped DEF Question, Reply
      <3>2. stored' = stored \/ stored' = Append(stored, Question)
        BY <2>1 DEF StoreQuestion, AddMessage
      <3>3. known' = known \/ known' = Append(known, Question)
        BY <2>1 DEF StoreQuestion
      <3> QED
        BY <1>0, <2>0, <3>1, <3>2, <3>3
    <2>2. CASE StoreNotice
      <3>1. Notice # Reply(k) /\ known' = known
        BY <2>2 DEF StoreNotice, Notice, Reply
      <3>2. Notice \in Message
        BY <2>2, TurnInRange, MessagesTyped
        DEF StoreNotice, GroupTypes, TypeOK, InPlace, InTurn, DebateInv
      <3>3. stored' = stored \/ stored' = Append(stored, Notice)
        BY <2>2 DEF StoreNotice, AddMessage
      <3> QED
        BY <1>0, <2>0, <3>1, <3>2, <3>3
    <2>3. CASE StoreReply
      <3>1. Reply(ThisTurn) \in Message
        BY <2>3, TurnInRange, MessagesTyped
        DEF StoreReply, GroupTypes, TypeOK, InPlace, InTurn, DebateInv
      <3>2. \/ stored' = stored /\ known' = known
            \/ stored' = Append(stored, Reply(ThisTurn)) /\ known' = Append(known, Reply(ThisTurn))
        BY <2>3 DEF StoreReply, AddMessage
      <3> QED
        BY <1>0, <2>0, <3>1, <3>2
    <2>4. CASE StoreSaying
      <3>1. Said(saying) \in Message
        BY <2>4, MessagesTyped DEF StoreSaying, GroupTypes, HasSaying
      <3>2. \/ stored' = stored /\ known' = known
            \/ stored' = Append(stored, Said(saying)) /\ known' = Append(known, Said(saying))
        BY <2>4 DEF StoreSaying, AddMessage
      <3> QED
        BY <1>0, <2>0, <3>1, <3>2
    <2>5. CASE UndoCreate \/ DeleteSession
      BY <2>0, <2>5 DEF UndoCreate, DeleteSession, Others
    <2>6. CASE UNCHANGED <<stored, known>>
      BY <2>0, <2>6
    <2>7. StoreQuestion \/ StoreNotice \/ StoreReply \/ StoreSaying \/ UndoCreate \/ DeleteSession
          \/ UNCHANGED <<stored, known>>
      BY DEF
         Next, Step, CreateSession, SaveFlags, IndexSession, LoadSession, RemoveIndex,
         DropOldStream, RaiseFlag, SendRunStarted, Moderate, AnnounceTurn, ReadMapping,
         CallAgent, StoreMapping, EndTurn, Conclude, Summarize, ShowSaying, ReportLoss,
         SendRunError, SendRunFinished, LowerFlag, PassDeadline, Leave, vars,
         storeVars, turnVars, bufferVars, SameStore, SameTurn, SameBuffer, SameClient,
         Others
    <2> QED
      BY <2>1, <2>2, <2>3, <2>4, <2>5, <2>6, <2>7
  <1> QED
    BY <1>1, <1>2, StoreKeeps

LEMMA MappedStep ==
  ASSUME GroupTypes, TurnAtHand, MappedInv, [Next]_vars
  PROVE  MappedInv'
  <1> SUFFICES ASSUME NEW x \in mapped'
               PROVE  \/ /\ x = speaker' /\ pc' = "record" /\ ~call'.err
                         /\ "agent" \notin kinds' /\ In(Reply(ThisTurn), known)'
                      \/ Answered(x)'
    BY DEF MappedInv, In
  <1>1. CASE StoreMapping /\ x \notin mapped
    <2>1. /\ x = speaker /\ pc = "mapping" /\ pc' = "record"
          /\ UNCHANGED <<call, kinds, known, speaker, turns>>
      BY <1>1 DEF StoreMapping, debateVars
    <2>2. ~call.err /\ "agent" \notin kinds /\ In(Reply(ThisTurn), known)
      BY <2>1 DEF TurnAtHand
    <2>3. In(Reply(ThisTurn), known)'
      BY <2>1, <2>2 DEF In, Reply, ThisTurn
    <2> QED
      BY <2>1, <2>2, <2>3
  <1>2. CASE Answered(x)
    <2>1. PICK i \in DOMAIN turns :
             turns[i].agent = x /\ "agent" \notin turns[i].kinds /\ In(Reply(i), known)
      BY <1>2 DEF Answered
    <2>2. i \in DOMAIN turns' /\ turns'[i] = turns[i]
      BY <2>1, TurnsStay, EndTurnFacts DEF ThisTurn
    <2>3. In(Reply(i), known)'
      BY <2>1, KnownStays DEF In, Reply
    <2> QED
      BY <2>1, <2>2, <2>3 DEF Answered
  <1>3. CASE /\ x = speaker /\ pc = "record" /\ ~call.err
             /\ "agent" \notin kinds /\ In(Reply(ThisTurn), known)
    <2>1. CASE EndTurn
      <3>1. PICK i : i = ThisTurn
        OBVIOUS
      <3>2. /\ i \in DOMAIN turns' /\ turns'[i].agent = x /\ turns'[i].kinds = kinds
            /\ UNCHANGED known
        BY <1>3, <2>1, <3>1, EndTurnFacts DEF ThisTurn
      <3>3. In(Reply(i), known)'
        BY <1>3, <3>1, <3>2 DEF In, Reply
      <3> QED
        BY <1>3, <3>2, <3>3 DEF Answered
    <2>2. CASE UNCHANGED <<call, speaker, turns, pc, kinds>>
      <3>1. In(Reply(ThisTurn), known)'
        <4>1. In(Reply(ThisTurn), known')
          BY <1>3, KnownStays
        <4> QED
          BY <2>2, <4>1 DEF In, Reply, ThisTurn
      <3> QED
        BY <1>3, <2>2, <3>1
    <2> QED
      BY <1>3, <2>1, <2>2, TurnGoesOn
  <1>4. x \in mapped \/ StoreMapping
    BY DEF
       Next, Step, CreateSession, SaveFlags, IndexSession, LoadSession, StoreQuestion,
       RemoveIndex, UndoCreate, DropOldStream, RaiseFlag, SendRunStarted, Moderate,
       AnnounceTurn, ReadMapping, CallAgent, StoreNotice, StoreReply, EndTurn,
       Conclude, Summarize, StoreSaying, ShowSaying, ReportLoss, SendRunError,
       SendRunFinished, LowerFlag, PassDeadline, Leave, DeleteSession, vars, storeVars,
       turnVars, bufferVars, SameStore, SameTurn, SameBuffer, SameClient, Others
  <1> QED
    BY <1>1, <1>2, <1>3, <1>4 DEF MappedInv

(***************************************************************************)
(* The invariant behind what is kept, and both invariants as consequences  *)
(* of the specification.                                                   *)
(***************************************************************************)
KeptInv ==
  /\ Fresh /\ TurnAtHand /\ TurnsStored /\ ShownSpoken
  /\ StoredInOrder /\ CopyInv /\ MappedInv

LEMMA KeptInit == Init => KeptInv
  <1> SUFFICES ASSUME Init PROVE KeptInv
    OBVIOUS
  <1>1. turns = <<>> /\ told = <<>> /\ stored = <<>> /\ known = <<>>
    BY DEF Init, DebateInit
  <1>2. DOMAIN turns = {} /\ DOMAIN told = {} /\ DOMAIN stored = {} /\ DOMAIN known = {}
    BY <1>1
  <1>3. pc \in {"create", "load"} /\ mapped = {}
    BY DEF Init
  <1>4. Fresh
    BY <1>1 DEF Fresh
  <1>5. TurnAtHand
    BY <1>3 DEF TurnAtHand
  <1>6. TurnsStored /\ ShownSpoken /\ StoredInOrder /\ CopyInv /\ MappedInv
    BY <1>2, <1>3 DEF TurnsStored, ShownSpoken, StoredInOrder, CopyInv, MappedInv, In
  <1> QED
    BY <1>4, <1>5, <1>6 DEF KeptInv

LEMMA KeptStep == GroupTypes /\ KeptInv /\ [Next]_vars => KeptInv'
  BY FreshStep, TurnAtHandStep, TurnsStoredStep, ShownStep, OrderStep, CopyStep, MappedStep
  DEF KeptInv

GroupInv == GroupTypes /\ ToldInv /\ KeptInv

(* In every state of a group chat, what the client was told, what is kept  *)
(* and what the debate did agree (handlers/group_chat.go, from the run's   *)
(* beginning to its last event).                                           *)
THEOREM GroupInvariant == Spec => []GroupInv
  <1>1. Init => GroupInv
    BY GroupTypesInit, ToldInit, KeptInit DEF GroupInv
  <1>2. GroupInv /\ [Next]_vars => GroupInv'
    BY GroupTypesStep, ToldStep, KeptStep DEF GroupInv
  <1> QED
    BY <1>1, <1>2, PTL DEF Spec

LEMMA InvReasonTrue == ASSUME GroupInv PROVE ReasonTrue
  <1> SUFFICES ASSUME NEW i \in DOMAIN told, told[i].kind = "incomplete"
               PROVE  /\ told[i].about = "timeout" => expired
                      /\ told[i].about = "max_turns" => Len(turns) = MaxTurns
                      /\ told[i].about = "session_mapping_error" =>
                             \E t \in DOMAIN turns : "mapping" \in turns[t].kinds
                      /\ told[i].about = "persistence_error" =>
                             \/ \E t \in DOMAIN turns : "persistence" \in turns[t].kinds
                             \/ pc \in {"fail", "clear", "done"}
                      /\ told[i].about = "all_agents_failed" =>
                             \A t \in DOMAIN turns : turns[t].text = "none" \/ "agent" \in turns[t].kinds
    BY DEF ReasonTrue
  <1>1. \/ told[i].about = "persistence_error" /\ pc \in {"fail", "clear", "done"}
        \/ Fits(told[i].about)
    BY DEF GroupInv, ToldInv, ReasonStands
  <1>2. VerdictTrue
    BY DEF GroupInv, GroupTypes, DebateInv
  <1> QED
    BY <1>1, <1>2 DEF Fits, VerdictTrue

(* A complete debate has stored every reply it was given.                  *)
LEMMA CompleteStored ==
  ASSUME GroupInv, Complete, session # "absent", NEW k \in DOMAIN turns, turns[k].text # "none"
  PROVE  In(Reply(k), stored)
  <1>1. "persistence" \notin turns[k].kinds
    BY DEF Complete, Broken
  <1> QED
    BY <1>1 DEF GroupInv, KeptInv, TurnsStored, ReplyStored

LEMMA InvSynthesis == ASSUME GroupInv PROVE SynthesisJustified
  <1> SUFFICES ASSUME In(Shows(Said("synthesis")), told), session # "absent"
               PROVE  /\ ~Incomplete
                      /\ \E i, j \in DOMAIN turns :
                            /\ turns[i].agent # turns[j].agent
                            /\ In(Reply(i), stored) /\ In(Reply(j), stored)
    BY DEF SynthesisJustified
  <1>1. ~Incomplete /\ Justified
    BY DEF GroupInv, ToldInv, SynthesisHeld
  <1>2. PICK x, y \in Speakers : x # y
    BY <1>1 DEF Justified
  <1>3. PICK i \in DOMAIN turns : turns[i].agent = x /\ turns[i].text # "none"
    BY <1>2 DEF Speakers
  <1>4. PICK j \in DOMAIN turns : turns[j].agent = y /\ turns[j].text # "none"
    BY <1>2 DEF Speakers
  <1> QED
    BY <1>1, <1>2, <1>3, <1>4, CompleteStored DEF Justified

LEMMA InvSaved == ASSUME GroupInv PROVE SavedOrSignalled
  <1> DEFINE Kept(k) == CHOOSE i \in DOMAIN stored : stored[i] = Reply(k)
             seen == {told[i].turn : i \in {j \in DOMAIN told : told[j].about = "reply"}}
  <1> SUFFICES ASSUME ToldFinished, ~Incomplete, session # "absent"
               PROVE  /\ \A k \in seen : In(Reply(k), stored)
                      /\ \A k, l \in seen : k < l => Kept(k) < Kept(l)
    BY DEF SavedOrSignalled
  <1>1. pc \in After /\ Complete
    BY DEF GroupInv, ToldInv, EndsWell
  <1>2. ASSUME NEW k \in seen PROVE k \in DOMAIN turns /\ In(Reply(k), stored)
    <2>1. k \in DOMAIN turns /\ turns[k].text # "none"
      BY <1>1 DEF GroupInv, KeptInv, ShownSpoken, After
    <2> QED
      BY <1>1, <2>1, CompleteStored
  <1>3. ASSUME NEW k \in seen PROVE Kept(k) \in DOMAIN stored /\ stored[Kept(k)] = Reply(k)
    BY <1>2, <1>3 DEF In
  <1>4. \A i, j \in DOMAIN stored :
           (i < j /\ stored[i].about = "reply" /\ stored[j].about = "reply") =>
               stored[i].turn < stored[j].turn
    BY DEF GroupInv, KeptInv, StoredInOrder
  <1>5. DOMAIN turns \subseteq Nat /\ DOMAIN stored \subseteq Nat
    <2>1. turns \in Seq(TurnResult) /\ stored \in Seq(Message)
      BY DEF GroupInv, GroupTypes, TypeOK, DebateTypeOK
    <2> QED
      BY <2>1
  <1>6. \A k : Reply(k).turn = k /\ Reply(k).about = "reply"
    BY DEF Reply
  <1> HIDE DEF seen, Kept
  <1>7. ASSUME NEW k \in seen, NEW l \in seen, k < l PROVE Kept(k) < Kept(l)
    <2>1. k \in Nat /\ l \in Nat
      BY <1>2, <1>5
    <2>2. PICK i \in DOMAIN stored : i = Kept(k) /\ stored[i] = Reply(k)
      BY <1>3
    <2>3. PICK j \in DOMAIN stored : j = Kept(l) /\ stored[j] = Reply(l)
      BY <1>3
    <2>4. stored[i].turn = k /\ stored[j].turn = l
      BY <1>6, <2>2, <2>3
    <2>5. ~(j < i)
      BY <1>4, <1>6, <1>7, <2>1, <2>2, <2>3, <2>4
    <2>6. i # j
      BY <1>7, <2>1, <2>4
    <2> QED
      BY <1>5, <2>2, <2>3, <2>5, <2>6
  <1> QED
    BY <1>2, <1>7

(* The client of a debate is told the truth (group_chat.go:212, 365-371,   *)
(* 423-434): one terminal event, after everything else; a reason that is   *)
(* true of the debate; a message of the moderator only when it is in the   *)
(* session; a synthesis only of a complete debate in which two agents'     *)
(* replies were kept.  This holds for every roster and turn limit and      *)
(* whichever commands fail, and also when the client leaves or the user    *)
(* deletes the session on the way.                                         *)
THEOREM GroupToldTruly == Spec => []ToldTruly
  <1>1. GroupInv => OneTerminal /\ ModeratorStoredFirst
    BY DEF GroupInv, ToldInv, LifeCycle, OneTerminal, After
  <1>2. GroupInv => ToldTruly
    BY <1>1, InvReasonTrue, InvSynthesis DEF ToldTruly
  <1> QED
    BY <1>2, GroupInvariant, PTL

(* What the client was shown is kept (group_chat.go:324-330,               *)
(* handlers/proxy.go:701-702): after RUN_FINISHED without a                *)
(* debate.incomplete every reply it saw is in the session, in that order;  *)
(* the handler's own copy has the same replies as the session; and an      *)
(* agent's session is mapped only for an answer that came without an error *)
(* and was stored.                                                         *)
THEOREM GroupRepliesKept == Spec => []RepliesKept
  <1>1. GroupInv => MemoryMatchesStore
    BY DEF GroupInv, KeptInv, CopyInv, MemoryMatchesStore
  <1>2. GroupInv => MappedMeansAnswered
    BY DEF GroupInv, KeptInv, MappedInv, Answered, MappedMeansAnswered
  <1>3. GroupInv => RepliesKept
    BY <1>1, <1>2, InvSaved DEF RepliesKept
  <1> QED
    BY <1>3, GroupInvariant, PTL

-----------------------------------------------------------------------------
(***************************************************************************)
(* The limits of a debate as its client sees them.                         *)
(***************************************************************************)
(* The turns announced: those taken, and the one at hand.                  *)
Turned(k) == k \in 1 .. Len(turns) \/ (k = ThisTurn /\ pc \in InTurn \ {"select"})
AnnouncedInv ==
    /\ \A i \in DOMAIN told : told[i].kind = "select" => Turned(told[i].turn)
    /\ \A k \in Nat : Turned(k) => Announced(k)
    /\ \A i, j \in DOMAIN told :
           (i < j /\ told[i].kind = "select" /\ told[j].kind = "select") =>
               told[i].turn < told[j].turn

(* Only the announcement of a turn tells of a choice.                      *)
LEMMA OthersTell ==
  ASSUME [Next]_vars
  PROVE  \/ AnnounceTurn
         \/ UNCHANGED told
         \/ \E e : told' = Append(told, e) /\ e.kind # "select"
  <1>0. \A kind, k, about : kind # "select" => Told(kind, k, about).kind # "select"
    BY DEF Told
  <1>1. CASE CallAgent
    <2>1. \/ UNCHANGED told
          \/ told' = Append(told, Shows(Reply(ThisTurn)))
          \/ told' = Append(told, Told("failed", ThisTurn, ""))
      BY <1>1 DEF CallAgent, Emit
    <2> QED
      BY <1>0, <2>1 DEF Shows
  <1>2. CASE Conclude
    <2>1. UNCHANGED told \/ \E reason : told' = Append(told, Told("incomplete", 0, reason))
      BY <1>2 DEF Conclude, Emit
    <2> QED
      BY <1>0, <2>1
  <1>3. CASE SendRunStarted \/ ShowSaying \/ ReportLoss \/ SendRunError \/ SendRunFinished
    <2>1. \/ told' = Append(told, Told("started", 0, ""))
          \/ told' = Append(told, Shows(Said(saying)))
          \/ told' = Append(told, Told("incomplete", 0, "persistence_error"))
          \/ told' = Append(told, Told("error", 0, ""))
          \/ told' = Append(told, Told("finished", 0, ""))
      BY <1>3 DEF SendRunStarted, ShowSaying, ReportLoss, SendRunError, SendRunFinished, Emit
    <2> QED
      BY <1>0, <2>1 DEF Shows
  <1> QED
    BY <1>1, <1>2, <1>3 DEF
       Next, Step, CreateSession, SaveFlags, IndexSession, LoadSession, StoreQuestion,
       RemoveIndex, UndoCreate, DropOldStream, RaiseFlag, Moderate, ReadMapping,
       StoreNotice, StoreReply, StoreMapping, EndTurn, Summarize, StoreSaying, LowerFlag,
       PassDeadline, Leave, DeleteSession, vars, storeVars, turnVars, bufferVars,
       SameStore, SameTurn, SameBuffer, SameClient, Others

LEMMA OthersStay ==
  ASSUME pc \in States, [Next]_vars, ~AnnounceTurn, ~EndTurn
  PROVE  UNCHANGED turns /\ (pc \in InTurn \ {"select"} <=> pc' \in InTurn \ {"select"})
  <1>1. UNCHANGED turns
    BY TurnsStay
  <1>2. pc \in InTurn \ {"select"} <=> pc' \in InTurn \ {"select"}
    BY DEF InTurn, States, Ends, GivesTurnTo,
       Next, Step, CreateSession, SaveFlags, IndexSession, LoadSession, StoreQuestion,
       RemoveIndex, UndoCreate, DropOldStream, RaiseFlag, SendRunStarted, Moderate,
       ReadMapping, CallAgent, StoreNotice, StoreReply, StoreMapping,
       Conclude, Summarize, StoreSaying, ShowSaying, ReportLoss, SendRunError,
       SendRunFinished, LowerFlag, PassDeadline, Leave, DeleteSession, vars, storeVars,
       turnVars, bufferVars, SameStore, SameTurn, SameBuffer, SameClient, Others
  <1> QED
    BY <1>1, <1>2

LEMMA TurnsCounted ==
  ASSUME GroupTypes
  PROVE  /\ Len(turns) \in Nat /\ DOMAIN turns = 1 .. Len(turns)
         /\ EndTurn => Len(turns') = Len(turns) + 1
  <1>1. turns \in Seq(TurnResult)
    BY DEF GroupTypes, TypeOK, DebateTypeOK
  <1>2. ASSUME EndTurn PROVE Len(turns') = Len(turns) + 1
    <2>1. PICK r : turns' = Append(turns, r)
      BY <1>2 DEF EndTurn, RecordTurn
    <2> QED
      BY <1>1, <2>1
  <1> QED
    BY <1>1, <1>2

(* A turn counts from its announcement on.                                 *)
LEMMA TurnedStep ==
  ASSUME GroupTypes, [Next]_vars, NEW k \in Nat
  PROVE  Turned(k)' <=> Turned(k) \/ (AnnounceTurn /\ k = ThisTurn)
  <1>0. Len(turns) \in Nat /\ pc \in States
    BY TurnsCounted DEF GroupTypes, TypeOK
  <1>1. CASE AnnounceTurn
    BY <1>0, <1>1 DEF AnnounceTurn, Turned, InTurn, ThisTurn, debateVars
  <1>2. CASE EndTurn
    <2>1. Len(turns') = Len(turns) + 1
      BY <1>2, TurnsCounted
    <2> QED
      BY <1>0, <1>2, <2>1 DEF EndTurn, AnnounceTurn, Turned, InTurn, ThisTurn
  <1>3. CASE ~AnnounceTurn /\ ~EndTurn
    BY <1>0, <1>3, OthersStay DEF Turned, ThisTurn
  <1> QED
    BY <1>1, <1>2, <1>3

LEMMA AnnouncedStep ==
  ASSUME GroupTypes, AnnouncedInv, [Next]_vars
  PROVE  AnnouncedInv'
  <1>0. told \in Seq(Event) /\ told' \in Seq(Event) /\ Len(turns) \in Nat
    BY EventsTyped, TurnsCounted DEF GroupTypes, TypeOK
  <1>1. \A i \in DOMAIN told : told[i].turn \in Nat
    <2>1. \A i \in DOMAIN told : told[i] \in Event
      BY <1>0
    <2>2. \A e \in Event : e.turn \in 0 .. MaxTurns
      BY DEF Event
    <2> QED
      BY <2>1, <2>2, MaxTurnsAssumption
  <1>2. CASE UNCHANGED told /\ ~AnnounceTurn
    BY <1>1, <1>2, TurnedStep DEF AnnouncedInv, Announced
  <1>3. ASSUME NEW e, told' = Append(told, e),
               (e.kind = "select" \/ AnnounceTurn) => AnnounceTurn /\ e = Told("select", ThisTurn, "")
        PROVE  AnnouncedInv'
    <2>1. e \in Event
      <3>1. Len(told) + 1 \in DOMAIN told' /\ told'[Len(told) + 1] = e
        <4>1. told' = Append(told, e)
          BY <1>3
        <4> QED
          BY <1>0, <4>1
      <3> QED
        BY <1>0, <3>1
    <2>2. /\ Len(told) \in Nat /\ DOMAIN told = 1 .. Len(told)
          /\ DOMAIN told' = 1 .. Len(told) + 1 /\ told'[Len(told) + 1] = e
          /\ \A i \in DOMAIN told : told'[i] = told[i]
      <3>1. told' = Append(told, e)
        BY <1>3
      <3> QED
        BY <1>0, <2>1, <3>1, AppendFacts
    <2>3. \A x : In(x, told') <=> In(x, told) \/ x = e
      BY <2>2 DEF In
    <2>4. e.kind = "select" => e.turn = ThisTurn /\ AnnounceTurn
      <3>1. Told("select", ThisTurn, "").turn = ThisTurn
        BY DEF Told
      <3> QED
        BY <1>3, <3>1
    <2>5. ASSUME NEW i \in DOMAIN told', told'[i].kind = "select", NEW n, n = told'[i].turn
          PROVE  Turned(n)'
      <3>1. CASE i \in DOMAIN told
        <4>1. n \in Nat /\ Turned(n)
          <5>1. told[i].kind = "select" /\ n = told[i].turn
            BY <2>2, <2>5, <3>1
          <5>2. Turned(told[i].turn)
            BY <3>1, <5>1 DEF AnnouncedInv
          <5> QED
            BY <1>1, <3>1, <5>1, <5>2
        <4> QED
          BY <4>1, TurnedStep
      <3>2. CASE told'[i] = e
        <4>1. n = ThisTurn /\ AnnounceTurn /\ n \in Nat
          BY <1>0, <2>4, <2>5, <3>2 DEF ThisTurn
        <4> QED
          BY <4>1, TurnedStep
      <3> QED
        BY <2>2, <3>1, <3>2
    <2>6. ASSUME NEW k \in Nat, Turned(k)' PROVE Announced(k)'
      BY <1>3, <2>3, <2>6, TurnedStep DEF AnnouncedInv, Announced
    <2>7. ASSUME NEW i \in DOMAIN told', NEW j \in DOMAIN told',
                 i < j, told'[i].kind = "select", told'[j].kind = "select"
          PROVE  told'[i].turn < told'[j].turn
      <3>1. CASE j \in DOMAIN told
        BY <2>2, <2>7, <3>1 DEF AnnouncedInv
      <3>2. CASE i \in DOMAIN told /\ told'[j] = e
        <4>1. Turned(told[i].turn) /\ told'[i] = told[i]
          BY <2>2, <2>7, <3>2 DEF AnnouncedInv
        <4>2. told[i].turn \in 1 .. Len(turns)
          BY <2>4, <2>7, <3>2, <4>1 DEF Turned, AnnounceTurn
        <4> QED
          BY <1>0, <2>4, <2>7, <3>2, <4>1, <4>2 DEF ThisTurn
      <3> QED
        BY <2>2, <2>7, <3>1, <3>2
    <2>8. \A i \in DOMAIN told' : told'[i].kind = "select" => Turned(told[i].turn)'
      BY <2>5
    <2> QED
      BY <2>6, <2>7, <2>8 DEF AnnouncedInv
  <1>4. CASE AnnounceTurn
    BY <1>3, <1>4 DEF AnnounceTurn, Emit
  <1>5. CASE \E e : told' = Append(told, e) /\ e.kind # "select" /\ ~AnnounceTurn
    BY <1>3, <1>5
  <1> QED
    BY <1>2, <1>4, <1>5, OthersTell

(* Out of time: turn k has not begun and will not be answered, and with it *)
(* the turns end.                                                          *)
Held(k) ==
    /\ expired
    /\ \/ ThisTurn < k
       \/ ThisTurn = k /\ (dpc = "turn" => pc \in {"select", "record"})
       \/ ThisTurn = k + 1 /\ dpc \in {"loop", "over"}
    /\ ~Answers(k)

LEMMA OutOfTime ==
  ASSUME GroupTypes, [Next]_vars, expired
  PROVE  /\ expired'
         /\ \/ EndTurn
            \/ /\ UNCHANGED turns
               /\ dpc \in {"loop", "over"} => dpc' \in {"loop", "over"}
               /\ (/\ dpc = "turn" => pc \in {"select", "record"}
                   /\ dpc' = "turn") => pc' \in {"select", "record"}
  <1>0. pc \in States /\ InPlace
    BY DEF GroupTypes, TypeOK
  <1>1. expired'
    BY DEF debateVars, Begin, Expire, NextRound, AskModerator, AskAgain,
       Next, Step, CreateSession, SaveFlags, IndexSession, LoadSession, StoreQuestion,
       RemoveIndex, UndoCreate, DropOldStream, RaiseFlag, SendRunStarted, Moderate,
       AnnounceTurn, ReadMapping, CallAgent, StoreNotice, StoreReply, StoreMapping, EndTurn,
       Conclude, Summarize, StoreSaying, ShowSaying, ReportLoss, SendRunError,
       SendRunFinished, LowerFlag, PassDeadline, Leave, DeleteSession, vars, storeVars,
       turnVars, bufferVars, SameStore, SameTurn, SameBuffer, SameClient, Others
  <1>2. CASE Moderate
    BY <1>2, TurnsStay DEF Moderate, NextRound, AskModerator, AskAgain, Ends, GivesTurnTo,
       ModeratorFails
  <1>3. CASE SendRunStarted \/ PassDeadline
    BY <1>0, <1>3, TurnsStay DEF SendRunStarted, PassDeadline, Begin, Expire, InPlace, Before,
       debateVars, Others
  <1>4. CASE AnnounceTurn
    BY <1>4 DEF AnnounceTurn, debateVars
  <1>5. CASE /\ dpc' = dpc /\ turns' = turns
             /\ (dpc = "turn" /\ pc \in {"select", "record"}) => pc' \in {"select", "record"}
    BY <1>1, <1>5
  <1>6. \/ Moderate \/ SendRunStarted \/ PassDeadline \/ AnnounceTurn \/ EndTurn
        \/ /\ dpc' = dpc /\ turns' = turns
           /\ (dpc = "turn" /\ pc \in {"select", "record"}) => pc' \in {"select", "record"}
    BY <1>0 DEF debateVars, InPlace, States,
       Next, Step, CreateSession, SaveFlags, IndexSession, LoadSession, StoreQuestion,
       RemoveIndex, UndoCreate, DropOldStream, RaiseFlag,
       ReadMapping, CallAgent, StoreNotice, StoreReply, StoreMapping,
       Conclude, Summarize, StoreSaying, ShowSaying, ReportLoss, SendRunError,
       SendRunFinished, LowerFlag, Leave, DeleteSession, vars, storeVars,
       turnVars, bufferVars, SameStore, SameTurn, SameBuffer, SameClient, Others
  <1> QED
    BY <1>1, <1>2, <1>3, <1>4, <1>5, <1>6

(* An answer is shown by the call of its turn.                             *)
LEMMA AnswerShown ==
  ASSUME GroupTypes, [Next]_vars, NEW k \in Nat, Answers(k)', ~Answers(k)
  PROVE  pc = "call" /\ k = ThisTurn
  <1>1. ~TellsNothing
    BY SilentFacts DEF Answers
  <1>2. PICK e \in Event : Tells(e)
    BY <1>1, StepTells
  <1>3. e = Told("message", k, "reply")
    BY <1>2, TellingFacts DEF Answers
  <1>4. e.about = "reply" /\ e.turn = k
    BY <1>3 DEF Told
  <1> QED
    BY <1>2, <1>4 DEF Tells, ToldBy

LEMMA HeldStep ==
  ASSUME GroupTypes, [Next]_vars, NEW k \in Nat, Held(k)
  PROVE  Held(k)'
  <1>0. Len(turns) \in Nat /\ expired /\ InPlace
    BY TurnsCounted DEF Held, GroupTypes
  <1>1. ~Answers(k)'
    <2>1. SUFFICES ASSUME Answers(k)' PROVE FALSE
      OBVIOUS
    <2>2. pc = "call" /\ k = ThisTurn
      BY <2>1, AnswerShown DEF Held
    <2> QED
      BY <1>0, <2>2 DEF Held, ThisTurn, InPlace, InTurn
  <1>2. CASE EndTurn
    <2>1. Len(turns') = Len(turns) + 1 /\ dpc = "turn" /\ dpc' = "loop"
      BY <1>2, TurnsCounted DEF EndTurn, RecordTurn
    <2> QED
      BY <1>0, <1>1, <2>1, OutOfTime DEF Held, ThisTurn
  <1>3. CASE ~EndTurn
    BY <1>0, <1>1, <1>3, OutOfTime DEF Held, ThisTurn
  <1> QED
    BY <1>2, <1>3

(* A turn that was not announced when the time was up is held.             *)
LEMMA HeldFirst ==
  ASSUME GroupInv, AnnouncedInv, NEW k \in 1 .. MaxTurns, expired, ~Announced(k)
  PROVE  Held(k)
  <1>0. Len(turns) \in Nat /\ pc \in States /\ InPlace
    BY TurnsCounted DEF GroupInv, GroupTypes, TypeOK
  <1>1. ~Turned(k) /\ k \in Nat
    BY MaxTurnsAssumption DEF AnnouncedInv
  <1>2. ~Answers(k)
    <2>1. SUFFICES ASSUME NEW j \in DOMAIN told, told[j] = Told("message", k, "reply") PROVE FALSE
      BY DEF Answers, In
    <2>2. told[j].about = "reply" /\ told[j].turn = k
      BY <2>1 DEF Told
    <2>3. k \in DOMAIN turns \/ (pc \in {"rotation", "reply", "mapping", "record"} /\ k = ThisTurn)
      BY <2>2 DEF GroupInv, KeptInv, ShownSpoken
    <2>4. DOMAIN turns = 1 .. Len(turns)
      BY TurnsCounted DEF GroupInv
    <2> QED
      BY <1>1, <2>3, <2>4 DEF Turned, InTurn
  <1>3. ThisTurn < k \/ ThisTurn = k
    BY <1>0, <1>1 DEF Turned, ThisTurn
  <1>4. (ThisTurn = k /\ dpc = "turn") => pc = "select"
    BY <1>0, <1>1 DEF Turned, InTurn, InPlace, States, Before, Ending, After
  <1> QED
    BY <1>2, <1>3, <1>4 DEF Held

LEMMA HeldTells ==
  ASSUME GroupTypes, AnnouncedInv, NEW k \in 1 .. MaxTurns, Held(k)
  PROVE  ~Announced(k + 1) /\ ~Answers(k)
  <1>0. Len(turns) \in Nat /\ InPlace /\ k \in Nat
    BY MaxTurnsAssumption, TurnsCounted DEF GroupTypes
  <1>1. Announced(k + 1) => Turned(k + 1)
    <2>1. /\ Told("select", k + 1, "").kind = "select"
          /\ Told("select", k + 1, "").turn = k + 1
      BY DEF Told
    <2> QED
      BY <2>1 DEF Announced, In, AnnouncedInv
  <1>2. ~Turned(k + 1)
    BY <1>0 DEF Turned, Held, ThisTurn, InPlace, InTurn
  <1> QED
    BY <1>1, <1>2 DEF Held

(* Out of time before the loop was over: no synthesis is under way.        *)
NoSynthesis ==
    /\ expired
    /\ ~In(Shows(Said("synthesis")), told)
    /\ pc \in {"say", "show"} => saying # "synthesis"

LEMMA NoSynthesisStep ==
  ASSUME GroupTypes, [Next]_vars, NoSynthesis
  PROVE  NoSynthesis'
  <1>0. pc \in States /\ InPlace /\ DebateTypeOK /\ VerdictEnds
    BY DEF GroupTypes, TypeOK, DebateInv
  <1>1. expired'
    BY OutOfTime DEF NoSynthesis
  <1>2. ~In(Shows(Said("synthesis")), told')
    <2>1. SUFFICES ASSUME In(Shows(Said("synthesis")), told') PROVE FALSE
      OBVIOUS
    <2>2. ~TellsNothing
      BY <2>1, SilentFacts DEF NoSynthesis
    <2>3. PICK e \in Event : Tells(e)
      BY <2>2, StepTells
    <2>4. e = Shows(Said("synthesis"))
      BY <2>1, <2>3, TellingFacts DEF NoSynthesis
    <2>5. e.kind = "message" /\ e.turn = 0 /\ e.about = "synthesis"
      BY <2>4 DEF Shows, Said, Told
    <2>6. pc = "show" /\ e = Shows(Said(saying))
      BY <2>3, <2>5 DEF Tells, ToldBy
    <2>7. saying = "synthesis"
      BY <2>5, <2>6 DEF Shows, Said, Told
    <2> QED
      BY <2>6, <2>7 DEF NoSynthesis
  <1>3. (pc' \in {"say", "show"}) => saying' # "synthesis"
    <2>1. CASE Conclude
      <3>1. IncompleteReason \subseteq Reasons
        BY <1>0, <2>1, ReasonTyped DEF Conclude, InPlace, Ending
      <3> QED
        BY <2>1, <3>1 DEF Conclude, Reasons
    <2>2. CASE Summarize
      BY <2>2 DEF Summarize, NoSynthesis
    <2>3. CASE UNCHANGED saying /\ (pc' \in {"say", "show"} => pc \in {"say", "show"})
      BY <2>3 DEF NoSynthesis
    <2> QED
      BY <1>0, <2>1, <2>2, <2>3 DEF States,
         Next, Step, CreateSession, SaveFlags, IndexSession, LoadSession, StoreQuestion,
         RemoveIndex, UndoCreate, DropOldStream, RaiseFlag, SendRunStarted, Moderate,
         AnnounceTurn, ReadMapping, CallAgent, StoreNotice, StoreReply, StoreMapping, EndTurn,
         StoreSaying, ShowSaying, ReportLoss, SendRunError,
         SendRunFinished, LowerFlag, PassDeadline, Leave, DeleteSession, vars, storeVars,
         turnVars, bufferVars, SameStore, SameTurn, SameBuffer, SameClient, Others
  <1> QED
    BY <1>1, <1>2, <1>3 DEF NoSynthesis

LEMMA NoSynthesisFirst ==
  ASSUME GroupInv, expired, dpc # "over"
  PROVE  NoSynthesis
  BY DEF GroupInv, GroupTypes, ToldInv, SynthesisHeld, NoSynthesis, InPlace, Ending

(* The limits of a group (orchestrator.go:254-262, group_chat.go:244-247), *)
(* for every roster and turn limit, whatever fails and whoever leaves: its *)
(* client sees the turns announced in order, each once and no more than    *)
(* the limit; of the turns not announced when the deadline passes, the     *)
(* next one at most still is, for a speaker who had been chosen, and       *)
(* nobody answers in it; and a debate that the deadline ended is not       *)
(* summed up.                                                              *)
THEOREM GroupLimits == Spec => LimitsHeld
  <1>1. Init => AnnouncedInv
    <2>1. Init => told = <<>> /\ turns = <<>> /\ pc \in {"create", "load"}
      BY DEF Init, DebateInit
    <2>2. told = <<>> /\ turns = <<>> /\ pc \in {"create", "load"} => AnnouncedInv
      BY DEF AnnouncedInv, Turned, InTurn
    <2> QED
      BY <2>1, <2>2
  <1>2. GroupInv => GroupTypes
    BY DEF GroupInv
  <1>3. Spec => []AnnouncedInv
    BY <1>1, <1>2, AnnouncedStep, GroupInvariant, PTL DEF Spec
  <1>4. GroupInv /\ AnnouncedInv => TurnsInOrder
    <2> SUFFICES ASSUME GroupInv, AnnouncedInv, NEW i \in DOMAIN told, told[i].kind = "select"
                 PROVE  /\ told[i].turn \in 1 .. MaxTurns
                        /\ \A j \in 1 .. i - 1 :
                              told[j].kind = "select" => told[j].turn < told[i].turn
      BY DEF TurnsInOrder
    <2>1. /\ Turned(told[i].turn) /\ DOMAIN told = 1 .. Len(told) /\ Len(told) \in Nat
          /\ Len(turns) \in Nat /\ TurnsBounded /\ InPlace /\ DebateTypeOK
      <3>1. told \in Seq(Event) /\ TurnsBounded /\ InPlace /\ DebateTypeOK
        BY DEF GroupInv, GroupTypes, TypeOK, DebateInv
      <3>2. Turned(told[i].turn)
        BY DEF AnnouncedInv
      <3> QED
        BY <3>1, <3>2, TurnsCounted DEF GroupInv
    <2>2. told[i].turn \in 1 .. MaxTurns
      BY <2>1, TurnInRange, MaxTurnsAssumption DEF Turned, TurnsBounded, InPlace, InTurn
    <2>3. \A j \in 1 .. i - 1 : j \in DOMAIN told /\ j < i
      BY <2>1
    <2> QED
      BY <2>2, <2>3 DEF AnnouncedInv
  <1>5. ASSUME NEW k \in 1 .. MaxTurns
        PROVE  Spec => [](expired /\ ~Announced(k) => [](~Announced(k + 1) /\ ~Answers(k)))
    <2>1. GroupInv /\ AnnouncedInv /\ expired /\ ~Announced(k) => Held(k)
      BY HeldFirst
    <2>2. GroupInv /\ Held(k) /\ [Next]_vars => Held(k)'
      <3>1. k \in Nat
        BY MaxTurnsAssumption
      <3> QED
        BY <1>2, <3>1, HeldStep
    <2>3. GroupInv /\ AnnouncedInv /\ Held(k) => ~Announced(k + 1) /\ ~Answers(k)
      BY <1>2, HeldTells
    <2> QED
      BY <1>3, <2>1, <2>2, <2>3, GroupInvariant, PTL DEF Spec
  <1>6. Spec => [](expired /\ dpc # "over" => []~In(Shows(Said("synthesis")), told))
    <2>1. GroupInv /\ expired /\ dpc # "over" => NoSynthesis
      BY NoSynthesisFirst
    <2>2. GroupInv /\ NoSynthesis /\ [Next]_vars => NoSynthesis'
      BY <1>2, NoSynthesisStep
    <2>3. NoSynthesis => ~In(Shows(Said("synthesis")), told)
      BY DEF NoSynthesis
    <2> QED
      BY <2>1, <2>2, <2>3, GroupInvariant, PTL DEF Spec
  <1>7. Spec => \A k \in 1 .. MaxTurns :
                   [](expired /\ ~Announced(k) => [](~Announced(k + 1) /\ ~Answers(k)))
    BY <1>5
  <1>8. Spec => []TurnsInOrder
    BY <1>3, <1>4, GroupInvariant, PTL
  <1> QED
    BY <1>6, <1>7, <1>8 DEF LimitsHeld
=============================================================================
