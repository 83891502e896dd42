--------------------------- MODULE McpGroupProofs ---------------------------
(***************************************************************************)
(* Proofs about McpGroup, for every roster, turn limit, set of answers and *)
(* number of failures.                                                     *)
(***************************************************************************)
EXTENDS McpGroup, DebateProofs

(* The turn's own variables stay well typed, which is what recording it in *)
(* the debate takes.                                                       *)
TurnTypeOK == call \in CallResult /\ kinds \subseteq FailureKinds

(* A call the deadline cuts off has a result of the same type as others.   *)
LEMMA FailureTyped == Failure \in CallResult
  BY DEF Failure, CallResult, Texts

(* What a call may return, with the deadline passed or not.                *)
LEMMA OutcomesTyped == Outcomes \subseteq CallResult
  BY FailureTyped, McpCallsAssumption DEF Outcomes

(* Only the steps of a turn change what it returned.                       *)
LEMMA TurnTypedStep == TurnTypeOK /\ [Next]_vars => TurnTypeOK'
  <1> SUFFICES ASSUME TurnTypeOK, [Next]_vars PROVE TurnTypeOK'
    OBVIOUS
  <1> USE DEF TurnTypeOK
  <1>1. CASE AskAgent
    BY <1>1, OutcomesTyped DEF AskAgent
  <1>2. CASE StartTurn
    BY <1>2, FailureTyped DEF StartTurn, FailureKinds
  <1>3. CASE CallAgent
    BY <1>3, OutcomesTyped DEF CallAgent, FailureKinds
  <1>4. CASE StoreReply
    BY <1>4 DEF StoreReply, SameTurnResult, FailureKinds
  <1>5. CASE StoreMapping
    BY <1>5 DEF StoreMapping, SameTurnResult, FailureKinds
  <1>6. CASE UNCHANGED <<call, kinds>>
    BY <1>6
  <1>7. \/ AskAgent \/ StartTurn \/ CallAgent \/ StoreReply \/ StoreMapping
        \/ UNCHANGED <<call, kinds>>
    BY DEF Next, Step, CallStep, GroupStep, Environment, vars, turnVars, SameTurn, Admit, Answer,
       GiveUp, CreateSession, AskQuestion, AskReply, RemoveIndex, UndoCreate, Cleaned,
       LoadSession, SaveFlags, IndexSession, StoreQuestion, Moderate, EndTurn, Collect,
       StoreSynthesis, Leave, ForgetMcpSession, DeleteSession, PassDeadline
  <1> QED
    BY <1>1, <1>2, <1>3, <1>4, <1>5, <1>6, <1>7

(* What a turn returns is always a result of an agent's call, and its      *)
(* failures are of the known kinds.                                        *)
THEOREM TurnTyped == Spec => []TurnTypeOK
  <1>1. Init => TurnTypeOK
    BY FailureTyped DEF Init, TurnTypeOK
  <1> QED
    BY <1>1, TurnTypedStep, PTL DEF Spec

(* Every step of a call is a step of the debate or none.                   *)
LEMMA StepDebates ==
  DebateTypeOK /\ TurnTypeOK /\ [Next]_vars => [DebateNext]_debateVars
  <1> SUFFICES ASSUME DebateTypeOK, TurnTypeOK, [Next]_vars, ~UNCHANGED debateVars
               PROVE  DebateNext
    OBVIOUS
  <1>1. StoreQuestion \/ Moderate \/ EndTurn \/ PassDeadline
    BY DEF Next, Step, CallStep, GroupStep, Environment, vars, Admit, Answer, GiveUp,
       CreateSession, AskQuestion, AskAgent, AskReply, RemoveIndex, UndoCreate, Cleaned,
       LoadSession, SaveFlags, IndexSession, StartTurn, CallAgent, StoreReply, StoreMapping,
       Collect, StoreSynthesis, Leave, ForgetMcpSession, DeleteSession
  <1>2. CASE StoreQuestion
    BY <1>2 DEF StoreQuestion, DebateNext
  <1>3. CASE Moderate
    BY <1>3 DEF Moderate, DebateNext
  <1>4. CASE EndTurn
    <2>1. call.text \in Texts /\ kinds \in SUBSET FailureKinds
      BY DEF TurnTypeOK, CallResult
    <2>2. TakeTurn
      BY <1>4, <2>1 DEF EndTurn, TakeTurn
    <2> QED
      BY <2>2 DEF DebateNext
  <1>5. CASE PassDeadline
    BY <1>5 DEF PassDeadline, DebateNext
  <1> QED
    BY <1>1, <1>2, <1>3, <1>4, <1>5

(* A group tool's call touches the debate's state by Debate's own actions  *)
(* only, as the web's handler does (GroupChatProofs): what is proved of    *)
(* Debate by itself holds of it.                                           *)
LEMMA McpRunsDebate == Spec => DebateSpec
  <1>1. Init => DebateInit
    BY DEF Init
  <1>2. DebateTypeOK /\ TurnTypeOK /\ [Next]_vars => DebateTypeOK'
    BY StepDebates, DebateStepTyped
  <1>3. Spec => []DebateTypeOK
    BY <1>1, <1>2, TurnTyped, DebateInitTyped, PTL DEF Spec
  <1> QED
    BY <1>1, <1>3, StepDebates, TurnTyped, PTL DEF Spec, DebateSpec

(* The routing safeguard, carried over to the tool.                        *)
THEOREM McpHandoff == Spec => []HandoffHonoured
  BY McpRunsDebate, Handoff, PTL

(***************************************************************************)
(* Type correctness, with what the goroutine's position says.              *)
(***************************************************************************)
SettingUp == {"save", "index", "question"}
Debating == {"debate", "turn", "mapping", "record", "collect", "synthesis"}
Talking == Debating \cup {"call", "reply"}

(* Where the goroutine can be: before the handler let it start nothing has *)
(* happened; an ask takes no step of a group; while a turn is taken, and   *)
(* only then, the debate waits for one.                                    *)
Control ==
    /\ handler = "preflight" => pc = "idle"
    /\ outcome # "pending" <=> pc = "returned"
    /\ pc \in {"idle", "create", "load"} => home = "none"
    /\ home = "none" => pc \in {"idle", "create", "load"} \/ outcome = "error"
    /\ pc \in {"save", "index"} => home = "new"
    /\ tool = "ask" => pc \notin Debating \cup {"load", "save", "index"} /\ ~indexed
    /\ tool = "group" => outcome # "error_with_id"
    /\ (tool = "group" /\ pc \in {"turn", "call", "reply", "mapping", "record"}) => dpc = "turn"

(* The messages a call can store: the turns are bounded, so is their number. *)
LEMMA MessagesTyped ==
  ASSUME DebateTypeOK, TurnsBounded
  PROVE  /\ Question \in Message
         /\ Synthesis \in Message
         /\ Reply(1) \in Message
         /\ dpc = "turn" => Reply(ThisTurn) \in Message
  <1>1. MaxTurns \in Nat /\ 1 \in 0 .. MaxTurns /\ 0 \in 0 .. MaxTurns
    BY MaxTurnsAssumption
  <1>2. dpc = "turn" => ThisTurn \in 0 .. MaxTurns
    BY <1>1 DEF DebateTypeOK, TurnsBounded, ThisTurn
  <1> QED
    BY <1>1, <1>2 DEF Message, Question, Synthesis, Reply

(* A message added to well-typed messages.                                 *)
LEMMA AppendTyped ==
  ASSUME NEW S, NEW s \in Seq(S), NEW x \in S
  PROVE  Append(s, x) \in Seq(S)
  OBVIOUS

(* A failing command takes one from what is left of the failures.          *)
LEMMA FaultsTyped ==
  ASSUME faults \in 0 .. MaxFaults, Fails \/ Succeeds
  PROVE  faults' \in 0 .. MaxFaults
  BY McpFaultsAssumption DEF Fails, Succeeds

(* The parts of TypeOK beside the debate's: the request and its answer,    *)
(* the goroutine, and the messages.                                        *)
RequestTypeOK ==
    /\ tool \in {"ask", "group"}
    /\ named \in {"nothing", "argument", "mapping"}
    /\ handler \in {"preflight", "waiting", "over"}
    /\ {connected, mcpKnown} \subseteq BOOLEAN
    /\ answer \in {"nothing", "refused", "error", "error_with_id", "incomplete", "complete"}
    /\ remembered \in {"nothing", "named", "new"}

WorkTypeOK ==
    /\ pc \in {"idle", "create", "save", "index", "load", "question", "cleaning", "debate",
               "turn", "call", "reply", "mapping", "record", "collect", "synthesis", "returned"}
    /\ outcome \in {"pending", "error", "error_with_id", "incomplete", "complete"}
    /\ synthesis \in {"none", "saved", "unsaved"}
    /\ cleanup \in {"none", "index", "session", "over"}
    /\ leaks \subseteq {"index", "session"}
    /\ faults \in 0 .. MaxFaults

SessionTypeOK ==
    /\ {sawMapping, indexed} \subseteq BOOLEAN
    /\ session \in {"absent", "fresh", "group", "foreign"}
    /\ home \in {"none", "named", "new"}
    /\ mapped \subseteq Members

MessagesTypeOK == stored \in Seq(Message) /\ known \in Seq(Message)

(* TypeOK is its parts.                                                    *)
LEMMA TypeParts ==
  TypeOK <=> DebateTypeOK /\ TurnTypeOK /\ RequestTypeOK /\ WorkTypeOK /\ SessionTypeOK /\ MessagesTypeOK
  BY DEF TypeOK, TurnTypeOK, RequestTypeOK, WorkTypeOK, SessionTypeOK, MessagesTypeOK

(* The request and its answer keep their types.                            *)
LEMMA RequestStep ==
  ASSUME TypeOK, Control, [Next]_vars
  PROVE  RequestTypeOK'
  <1> USE DEF RequestTypeOK
  <1>1. RequestTypeOK /\ WorkTypeOK /\ SessionTypeOK
    BY TypeParts
  <1>2. CASE Admit
    BY <1>1, <1>2 DEF Admit, SameRequest, requestVars
  <1>3. CASE Answer
    BY <1>1, <1>3 DEF Answer, SameRequest, requestVars, Control, WorkTypeOK, SessionTypeOK
  <1>4. CASE GiveUp
    BY <1>1, <1>4 DEF GiveUp, SameRequest, requestVars
  <1>5. CASE Leave
    BY <1>1, <1>5 DEF Leave, SameRequest, requestVars
  <1>6. CASE ForgetMcpSession
    BY <1>1, <1>6 DEF ForgetMcpSession, SameRequest, requestVars
  <1>7. CASE UNCHANGED <<requestVars, clientVars>>
    BY <1>1, <1>7 DEF requestVars, clientVars
  <1>8. \/ Admit \/ Answer \/ GiveUp \/ Leave \/ ForgetMcpSession
        \/ UNCHANGED <<requestVars, clientVars>>
    BY DEF Next, Step, CallStep, GroupStep, Environment, vars, SameRequest, SameClient,
       CreateSession, AskQuestion, AskAgent, AskReply, RemoveIndex, UndoCreate, Cleaned,
       LoadSession, SaveFlags, IndexSession, StoreQuestion, Moderate, StartTurn, CallAgent,
       StoreReply, StoreMapping, EndTurn, Collect, StoreSynthesis, DeleteSession, PassDeadline
  <1> QED
    BY <1>2, <1>3, <1>4, <1>5, <1>6, <1>7, <1>8

(* The steps that leave the messages, the session and the goroutine alone. *)
LEMMA NextCases ==
  ASSUME [Next]_vars
  PROVE  \/ Admit \/ CreateSession \/ AskQuestion \/ AskAgent \/ AskReply
         \/ RemoveIndex \/ UndoCreate \/ Cleaned
         \/ LoadSession \/ SaveFlags \/ IndexSession \/ StoreQuestion
         \/ Moderate \/ StartTurn \/ CallAgent \/ StoreReply \/ StoreMapping \/ EndTurn
         \/ Collect \/ StoreSynthesis
         \/ DeleteSession \/ PassDeadline
         \/ Answer \/ GiveUp \/ Leave \/ ForgetMcpSession \/ UNCHANGED vars
  BY DEF Next, Step, CallStep, GroupStep, Environment

(* The goroutine's position, outcome and cleanup keep their types.         *)
LEMMA WorkStep ==
  ASSUME TypeOK, [Next]_vars
  PROVE  WorkTypeOK'
  <1>1. WorkTypeOK /\ faults \in 0 .. MaxFaults
    BY TypeParts DEF WorkTypeOK
  <1> USE DEF WorkTypeOK, GoOn, Return
  <1>2. Fails \/ Succeeds => faults' \in 0 .. MaxFaults
    BY <1>1, FaultsTyped
  <1> USE DEF Succeeds, CommandFails, AddFails, SameCleanup, cleanupVars
  <1>3. CASE Admit
    BY <1>1, <1>3 DEF Admit
  <1>4. CASE CreateSession
    BY <1>1, <1>2, <1>4 DEF CreateSession
  <1>5. CASE AskQuestion
    BY <1>1, <1>2, <1>5 DEF AskQuestion
  <1>6. CASE AskAgent
    BY <1>1, <1>6 DEF AskAgent
  <1>7. CASE AskReply
    BY <1>1, <1>2, <1>7 DEF AskReply
  <1>8. CASE RemoveIndex
    BY <1>1, <1>2, <1>8 DEF RemoveIndex
  <1>9. CASE UndoCreate
    BY <1>1, <1>2, <1>9 DEF UndoCreate
  <1>10. CASE Cleaned
    BY <1>1, <1>10 DEF Cleaned
  <1>11. CASE LoadSession
    BY <1>1, <1>2, <1>11 DEF LoadSession
  <1>12. CASE SaveFlags
    BY <1>1, <1>2, <1>12 DEF SaveFlags, AbandonNewSession
  <1>13. CASE IndexSession
    BY <1>1, <1>2, <1>13 DEF IndexSession, AbandonNewSession
  <1>14. CASE StoreQuestion
    BY <1>1, <1>2, <1>14 DEF StoreQuestion, AbandonNewSession
  <1>15. CASE Moderate
    BY <1>1, <1>15 DEF Moderate
  <1>16. CASE StartTurn
    BY <1>1, <1>2, <1>16 DEF StartTurn
  <1>17. CASE CallAgent
    BY <1>1, <1>17 DEF CallAgent
  <1>18. CASE StoreReply
    BY <1>1, <1>2, <1>18 DEF StoreReply
  <1>19. CASE StoreMapping
    BY <1>1, <1>2, <1>19 DEF StoreMapping
  <1>20. CASE EndTurn
    BY <1>1, <1>20 DEF EndTurn
  <1>21. CASE Collect
    BY <1>1, <1>21 DEF Collect
  <1>22. CASE StoreSynthesis
    BY <1>1, <1>2, <1>22 DEF StoreSynthesis
  <1>23. CASE DeleteSession \/ PassDeadline \/ Answer \/ GiveUp \/ Leave \/ ForgetMcpSession \/ UNCHANGED vars
    BY <1>1, <1>23 DEF DeleteSession, PassDeadline, Answer, GiveUp, Leave, ForgetMcpSession, vars
  <1> QED
    BY <1>3, <1>4, <1>5, <1>6, <1>7, <1>8, <1>9, <1>10, <1>11, <1>12, <1>13, <1>14, <1>15,
       <1>16, <1>17, <1>18, <1>19, <1>20, <1>21, <1>22, <1>23, NextCases

(* The session and its mappings keep their types.                          *)
LEMMA SessionStep ==
  ASSUME TypeOK, [Next]_vars
  PROVE  SessionTypeOK'
  <1>1. SessionTypeOK /\ speaker \in Members
    BY TypeParts DEF SessionTypeOK, DebateTypeOK
  <1> USE DEF SessionTypeOK
  <1>2. CASE CreateSession
    BY <1>1, <1>2 DEF CreateSession, SameTurn, turnVars
  <1>3. CASE UndoCreate
    BY <1>1, <1>3 DEF UndoCreate, SameTurn, turnVars, SameStore, storeVars
  <1>4. CASE RemoveIndex
    BY <1>1, <1>4 DEF RemoveIndex, SameTurn, turnVars
  <1>5. CASE LoadSession
    BY <1>1, <1>5 DEF LoadSession, SameTurn, turnVars, SameStore, storeVars
  <1>6. CASE SaveFlags
    BY <1>1, <1>6 DEF SaveFlags, SameTurn, turnVars
  <1>7. CASE IndexSession
    BY <1>1, <1>7 DEF IndexSession, SameTurn, turnVars
  <1>8. CASE StartTurn
    <2>1. sawMapping' = (speaker \in mapped) \/ sawMapping' = sawMapping
      BY <1>8 DEF StartTurn
    <2>2. (speaker \in mapped) \in BOOLEAN /\ sawMapping \in BOOLEAN
      BY <1>1
    <2>3. sawMapping' \in BOOLEAN
      BY <2>1, <2>2, Zenon
    <2> QED
      BY <1>1, <1>8, <2>3 DEF StartTurn, SameStore, storeVars
  <1>9. CASE StoreMapping
    BY <1>1, <1>9 DEF StoreMapping, SameTurnResult
  <1>10. CASE DeleteSession
    BY <1>1, <1>10 DEF DeleteSession, SameTurn, turnVars
  <1>11. CASE UNCHANGED <<session, indexed, mapped, home, sawMapping>>
    BY <1>1, <1>11
  <1>12. \/ CreateSession \/ UndoCreate \/ RemoveIndex \/ LoadSession \/ SaveFlags \/ IndexSession
         \/ StartTurn \/ StoreMapping \/ DeleteSession
         \/ UNCHANGED <<session, indexed, mapped, home, sawMapping>>
    BY NextCases DEF vars, SameStore, storeVars, SameTurn, turnVars, SameTurnResult,
       Admit, AskQuestion, AskAgent, AskReply, Cleaned, StoreQuestion, Moderate, CallAgent,
       StoreReply, EndTurn, Collect, StoreSynthesis, PassDeadline, Answer, GiveUp, Leave,
       ForgetMcpSession
  <1> QED
    BY <1>2, <1>3, <1>4, <1>5, <1>6, <1>7, <1>8, <1>9, <1>10, <1>11, <1>12

(* Messages are only appended, by the steps that store one, and removed    *)
(* with their session.                                                     *)
LEMMA MessageCases ==
  ASSUME DebateTypeOK, TurnsBounded, Control, [Next]_vars
  PROVE  /\ \/ UNCHANGED stored
            \/ stored' = <<>> /\ session' = "absent"
            \/ \E m \in Message : stored' = Append(stored, m)
         /\ \/ UNCHANGED known
            \/ \E m \in Message : known' = Append(known, m)
  <1>1. /\ Question \in Message
        /\ Synthesis \in Message
        /\ Reply(1) \in Message
        /\ dpc = "turn" => Reply(ThisTurn) \in Message
    BY MessagesTyped
  <1>2. CASE AskQuestion
    BY <1>1, <1>2 DEF AskQuestion, AddMessage
  <1>3. CASE AskReply
    BY <1>1, <1>3 DEF AskReply, AddMessage
  <1>4. CASE StoreQuestion
    BY <1>1, <1>4 DEF StoreQuestion, AddMessage
  <1>5. CASE StoreReply
    BY <1>1, <1>5 DEF StoreReply, AddMessage, Control
  <1>6. CASE StoreSynthesis
    BY <1>1, <1>6 DEF StoreSynthesis, AddMessage
  <1>7. CASE UndoCreate
    BY <1>7 DEF UndoCreate, SameStore, storeVars
  <1>8. CASE DeleteSession
    BY <1>8 DEF DeleteSession
  <1>9. CASE UNCHANGED <<stored, known>>
    BY <1>9
  <1>10. \/ AskQuestion \/ AskReply \/ StoreQuestion \/ StoreReply \/ StoreSynthesis
         \/ UndoCreate \/ DeleteSession \/ UNCHANGED <<stored, known>>
    BY NextCases DEF vars, SameStore, storeVars, Admit, CreateSession, AskAgent, RemoveIndex,
       Cleaned, LoadSession, SaveFlags, IndexSession, Moderate, StartTurn, CallAgent,
       StoreMapping, EndTurn, Collect, PassDeadline, Answer, GiveUp, Leave, ForgetMcpSession
  <1> QED
    BY <1>2, <1>3, <1>4, <1>5, <1>6, <1>7, <1>8, <1>9, <1>10

(* The messages keep their types.                                          *)
LEMMA MessagesStep ==
  ASSUME TypeOK, TurnsBounded, Control, [Next]_vars
  PROVE  MessagesTypeOK'
  <1>1. MessagesTypeOK /\ DebateTypeOK
    BY TypeParts
  <1>2. <<>> \in Seq(Message)
    OBVIOUS
  <1>3. stored' \in Seq(Message)
    BY <1>1, <1>2, MessageCases, AppendTyped DEF MessagesTypeOK
  <1>4. known' \in Seq(Message)
    BY <1>1, MessageCases, AppendTyped DEF MessagesTypeOK
  <1> QED
    BY <1>3, <1>4 DEF MessagesTypeOK

(* Every step keeps the goroutine where Control says.                      *)
LEMMA ControlStep ==
  ASSUME TypeOK, Control, [Next]_vars
  PROVE  Control'
  <1>1. WorkTypeOK /\ RequestTypeOK /\ SessionTypeOK
    BY TypeParts
  <1> USE <1>1 DEF Control, Debating, WorkTypeOK, RequestTypeOK, SessionTypeOK, GoOn, Return,
      SameRequest, requestVars, SameClient, clientVars, SameStore, storeVars, debateVars
  <1>2. CASE Admit
    BY <1>2 DEF Admit
  <1>3. CASE CreateSession
    BY <1>3 DEF CreateSession
  <1>4. CASE AskQuestion
    BY <1>4 DEF AskQuestion
  <1>5. CASE AskAgent
    BY <1>5 DEF AskAgent
  <1>6. CASE AskReply
    BY <1>6 DEF AskReply
  <1>7. CASE RemoveIndex
    BY <1>7 DEF RemoveIndex
  <1>8. CASE UndoCreate
    BY <1>8 DEF UndoCreate
  <1>9. CASE Cleaned
    BY <1>9 DEF Cleaned
  <1>10. CASE LoadSession
    BY <1>10 DEF LoadSession
  <1>11. CASE SaveFlags
    BY <1>11 DEF SaveFlags, AbandonNewSession
  <1>12. CASE IndexSession
    BY <1>12 DEF IndexSession, AbandonNewSession
  <1>13. CASE StoreQuestion
    BY <1>13 DEF StoreQuestion, AbandonNewSession
  <1>14. CASE Moderate
    BY <1>14 DEF Moderate
  <1>15. CASE StartTurn
    BY <1>15 DEF StartTurn
  <1>16. CASE CallAgent
    BY <1>16 DEF CallAgent
  <1>17. CASE StoreReply
    BY <1>17 DEF StoreReply
  <1>18. CASE StoreMapping
    BY <1>18 DEF StoreMapping
  <1>19. CASE EndTurn
    BY <1>19 DEF EndTurn
  <1>20. CASE Collect
    BY <1>20 DEF Collect
  <1>21. CASE StoreSynthesis
    BY <1>21 DEF StoreSynthesis
  <1>22. CASE DeleteSession
    BY <1>22 DEF DeleteSession
  <1>23. CASE PassDeadline
    BY <1>23 DEF PassDeadline, Expire
  <1>24. CASE Answer
    BY <1>24 DEF Answer
  <1>25. CASE GiveUp
    BY <1>25 DEF GiveUp
  <1>26. CASE Leave
    BY <1>26 DEF Leave
  <1>27. CASE ForgetMcpSession
    BY <1>27 DEF ForgetMcpSession
  <1>28. CASE UNCHANGED vars
    BY <1>28 DEF vars, debateVars
  <1> QED
    BY <1>2, <1>3, <1>4, <1>5, <1>6, <1>7, <1>8, <1>9, <1>10, <1>11, <1>12, <1>13, <1>14, <1>15,
       <1>16, <1>17, <1>18, <1>19, <1>20, <1>21, <1>22, <1>23, <1>24, <1>25, <1>26, <1>27, <1>28, NextCases

(* A call begins well typed, with nothing done.                            *)
LEMMA InitialCall == Init => TypeOK /\ Control
  <1> SUFFICES ASSUME Init PROVE TypeOK /\ Control
    OBVIOUS
  <1>1. DebateTypeOK
    BY DebateInitTyped DEF Init
  <1>2. TurnTypeOK
    BY FailureTyped DEF Init, TurnTypeOK
  <1>3. RequestTypeOK
    BY DEF Init, RequestTypeOK
  <1>4. WorkTypeOK
    BY McpFaultsAssumption DEF Init, WorkTypeOK
  <1>5. SessionTypeOK
    <2>1. indexed \in BOOLEAN
      <3>1. indexed = (session = "group") /\ (session = "group") \in BOOLEAN
        BY DEF Init
      <3> QED
        BY <3>1, Zenon
    <2> QED
      BY <2>1 DEF Init, SessionTypeOK
  <1>6. MessagesTypeOK
    <2>1. <<>> \in Seq(Message)
      OBVIOUS
    <2> QED
      BY <2>1 DEF Init, MessagesTypeOK
  <1>7. TypeOK
    BY <1>1, <1>2, <1>3, <1>4, <1>5, <1>6, TypeParts
  <1>8. tool = "ask" => ~indexed
    <2>1. indexed = (session = "group") /\ (tool = "ask" => session = "absent")
      BY DEF Init
    <2> QED
      BY <2>1
  <1>9. Control
    BY <1>8 DEF Init, Control, Debating
  <1> QED
    BY <1>7, <1>9

(* The variables of a call hold values of their types, and the goroutine,  *)
(* the debate and the handler are where each says the others are.          *)
THEOREM McpTypeCorrect == Spec => [](TypeOK /\ Control)
  <1>1. TypeOK /\ Control /\ TurnsBounded /\ [Next]_vars => TypeOK' /\ Control'
    <2> SUFFICES ASSUME TypeOK, Control, TurnsBounded, [Next]_vars PROVE TypeOK' /\ Control'
      OBVIOUS
    <2>1. DebateTypeOK /\ TurnTypeOK
      BY TypeParts
    <2>2. DebateTypeOK'
      BY <2>1, StepDebates, DebateStepTyped
    <2>3. TurnTypeOK'
      BY <2>1, TurnTypedStep
    <2>4. RequestTypeOK' /\ WorkTypeOK' /\ SessionTypeOK' /\ MessagesTypeOK'
      BY RequestStep, WorkStep, SessionStep, MessagesStep
    <2>5. TypeOK'
      BY <2>2, <2>3, <2>4 DEF TypeOK, TurnTypeOK, RequestTypeOK, WorkTypeOK, SessionTypeOK, MessagesTypeOK
    <2> QED
      BY <2>5, ControlStep
  <1>2. DebateInv => TurnsBounded
    BY DEF DebateInv
  <1> QED
    BY <1>1, <1>2, InitialCall, McpRunsDebate, DebateInvariant, PTL DEF Spec

(***************************************************************************)
(* What a call leaves behind.  The inductive invariant adds to Control     *)
(* where the question and the session of a call are at each step.          *)
(***************************************************************************)

(* The cleanup of a new session that has not got its question.             *)
CleaningUp ==
    /\ cleanup # "none" => pc \in {"cleaning", "returned"}
    /\ (cleanup # "none" /\ tool = "group") => pc = "cleaning" \/ outcome = "error"
    /\ (home = "new" /\ ~In(Question, known)) => pc \in SettingUp \/ cleanup # "none"
    /\ (cleanup \in {"session", "over"} /\ indexed) => "index" \in leaks
    /\ (cleanup = "over" /\ session # "absent") => "session" \in leaks

(* A group's session on its way to being usable, and once it is.           *)
Usable ==
    /\ named # "nothing" <=> home = "named"
    /\ indexed
    /\ session # "absent" => session = "group"

UsableWithQuestion ==
    /\ Usable
    /\ In(Question, known)
    /\ (session # "absent" /\ home = "new") => In(Question, stored)

GroupSession ==
    tool = "group" =>
        /\ pc \in {"idle", "load"} /\ session = "group" => indexed
        /\ pc = "load" => named # "nothing"
        /\ pc \in {"create", "save", "index"} => named = "nothing"
        /\ pc = "index" => session \in {"absent", "group"}
        /\ pc = "question" => Usable
        /\ (pc \in Talking \/ outcome \in {"complete", "incomplete"}) => UsableWithQuestion
        /\ (answer \in {"complete", "incomplete"} \/ remembered = "new") =>
               outcome \in {"complete", "incomplete"}

AskQuestionKnown == (tool = "ask" /\ pc \in {"call", "reply"}) => In(Question, known)

CallInv == CleaningUp /\ GroupSession /\ AskQuestionKnown

(* Appending a message keeps those before it, and adds it.                 *)
LEMMA InAppend ==
  ASSUME NEW S, NEW s \in Seq(S), NEW x \in S
  PROVE  /\ In(x, Append(s, x))
         /\ \A y : In(y, s) => In(y, Append(s, x))
  <1>1. In(x, Append(s, x))
    <2>1. Len(s) + 1 \in DOMAIN Append(s, x) /\ Append(s, x)[Len(s) + 1] = x
      OBVIOUS
    <2> QED
      BY <2>1 DEF In
  <1>2. ASSUME NEW y, In(y, s) PROVE In(y, Append(s, x))
    <2>1. PICK i \in DOMAIN s : s[i] = y
      BY <1>2 DEF In
    <2>2. i \in DOMAIN Append(s, x) /\ Append(s, x)[i] = y
      BY <2>1
    <2> QED
      BY <2>2 DEF In
  <1> QED
    BY <1>1, <1>2

(* A question stays where it is, but for a session that is deleted.        *)
LEMMA QuestionKept ==
  ASSUME TypeOK, TurnsBounded, Control, [Next]_vars
  PROVE  /\ In(Question, known) => In(Question, known)'
         /\ In(Question, stored) => In(Question, stored)' \/ session' = "absent"
         /\ known' = Append(known, Question) => In(Question, known)'
         /\ stored' = Append(stored, Question) => In(Question, stored)'
  <1>1. MessagesTypeOK /\ DebateTypeOK
    BY TypeParts
  <1>2. Question \in Message
    BY <1>1, MessagesTyped
  <1>3. /\ In(Question, known)' <=> In(Question, known')
        /\ In(Question, stored)' <=> In(Question, stored')
    BY DEF In, Question
  <1>4. \A m \in Message : In(Question, known) => In(Question, Append(known, m))
    BY <1>1, InAppend DEF MessagesTypeOK
  <1>5. \A m \in Message : In(Question, stored) => In(Question, Append(stored, m))
    BY <1>1, InAppend DEF MessagesTypeOK
  <1>6. In(Question, Append(known, Question)) /\ In(Question, Append(stored, Question))
    BY <1>1, <1>2, InAppend DEF MessagesTypeOK
  <1> QED
    BY <1>1, <1>3, <1>4, <1>5, <1>6, MessageCases

(* Each part of the invariant is kept by every step.                       *)
LEMMA CleaningStep ==
  ASSUME TypeOK, TurnsBounded, Control, CleaningUp, AskQuestionKnown, GroupSession, [Next]_vars
  PROVE  CleaningUp'
  <1>1. WorkTypeOK /\ SessionTypeOK
    BY TypeParts
  <1>2. /\ In(Question, known) => In(Question, known)'
        /\ known' = Append(known, Question) => In(Question, known)'
    BY QuestionKept
  <1> USE <1>1, <1>2 DEF CleaningUp, SettingUp, Control, AskQuestionKnown, WorkTypeOK, SessionTypeOK, GoOn, Return,
      SameRequest, requestVars, SameClient, clientVars, SameStore, storeVars, SameCleanup, cleanupVars
  <1>3. CASE Admit
    BY <1>3 DEF Admit
  <1>4. CASE CreateSession
    BY <1>4 DEF CreateSession
  <1>5. CASE AskQuestion
    BY <1>5 DEF AskQuestion
  <1>6. CASE AskAgent
    BY <1>6 DEF AskAgent
  <1>7. CASE AskReply
    BY <1>7 DEF AskReply
  <1>8. CASE RemoveIndex
    BY <1>8 DEF RemoveIndex
  <1>9. CASE UndoCreate
    BY <1>9 DEF UndoCreate
  <1>10. CASE Cleaned
    BY <1>10 DEF Cleaned
  <1>11. CASE LoadSession
    BY <1>11 DEF LoadSession
  <1>12. CASE SaveFlags
    BY <1>12 DEF SaveFlags, AbandonNewSession
  <1>13. CASE IndexSession
    BY <1>13 DEF IndexSession, AbandonNewSession
  <1>14. CASE StoreQuestion
    BY <1>14 DEF StoreQuestion, AbandonNewSession
  <1>15. CASE Moderate
    BY <1>15 DEF Moderate
  <1>16. CASE StartTurn
    BY <1>16 DEF StartTurn
  <1>17. CASE CallAgent
    BY <1>17 DEF CallAgent
  <1>18. CASE StoreReply
    BY <1>18 DEF StoreReply
  <1>19. CASE StoreMapping
    BY <1>19 DEF StoreMapping
  <1>20. CASE EndTurn
    BY <1>20 DEF EndTurn
  <1>21. CASE Collect
    BY <1>21 DEF Collect
  <1>22. CASE StoreSynthesis
    BY <1>22 DEF StoreSynthesis
  <1>23. CASE DeleteSession
    BY <1>23 DEF DeleteSession
  <1>24. CASE PassDeadline
    BY <1>24 DEF PassDeadline
  <1>25. CASE Answer
    BY <1>25 DEF Answer
  <1>26. CASE GiveUp
    BY <1>26 DEF GiveUp
  <1>27. CASE Leave
    BY <1>27 DEF Leave
  <1>28. CASE ForgetMcpSession
    BY <1>28 DEF ForgetMcpSession
  <1>29. CASE UNCHANGED vars
    BY <1>29 DEF vars, cleanupVars, In, Question
  <1> QED
    BY <1>3, <1>4, <1>5, <1>6, <1>7, <1>8, <1>9, <1>10, <1>11, <1>12, <1>13, <1>14, <1>15,
       <1>16, <1>17, <1>18, <1>19, <1>20, <1>21, <1>22, <1>23, <1>24, <1>25, <1>26, <1>27,
       <1>28, <1>29, NextCases

(* The session is set up step by step, and its question stays in it.       *)
LEMMA GroupSessionStep ==
  ASSUME TypeOK, TurnsBounded, Control, CleaningUp, GroupSession, [Next]_vars
  PROVE  GroupSession'
  <1>1. WorkTypeOK /\ SessionTypeOK /\ RequestTypeOK
    BY TypeParts
  <1>2. /\ In(Question, known) => In(Question, known)'
        /\ known' = Append(known, Question) => In(Question, known)'
        /\ In(Question, stored) => In(Question, stored)' \/ session' = "absent"
        /\ stored' = Append(stored, Question) => In(Question, stored)'
    BY QuestionKept
  <1> USE <1>1, <1>2 DEF GroupSession, Usable, UsableWithQuestion, Talking, Debating, CleaningUp,
      Control, WorkTypeOK, SessionTypeOK, RequestTypeOK, GoOn, Return, AddMessage,
      SameRequest, requestVars, SameClient, clientVars, SameStore, storeVars, SameCleanup, cleanupVars
  <1>3. CASE Admit
    BY <1>3 DEF Admit
  <1>4. CASE CreateSession
    BY <1>4 DEF CreateSession
  <1>5. CASE AskQuestion
    BY <1>5 DEF AskQuestion
  <1>6. CASE AskAgent
    BY <1>6 DEF AskAgent
  <1>7. CASE AskReply
    BY <1>7 DEF AskReply
  <1>8. CASE RemoveIndex
    BY <1>8 DEF RemoveIndex
  <1>9. CASE UndoCreate
    BY <1>9 DEF UndoCreate
  <1>10. CASE Cleaned
    BY <1>10 DEF Cleaned
  <1>11. CASE LoadSession
    BY <1>11 DEF LoadSession
  <1>12. CASE SaveFlags
    BY <1>12 DEF SaveFlags, AbandonNewSession
  <1>13. CASE IndexSession
    BY <1>13 DEF IndexSession, AbandonNewSession
  <1>14. CASE StoreQuestion
    BY <1>14 DEF StoreQuestion, AbandonNewSession
  <1>15. CASE Moderate
    BY <1>15 DEF Moderate
  <1>16. CASE StartTurn
    BY <1>16 DEF StartTurn
  <1>17. CASE CallAgent
    BY <1>17 DEF CallAgent
  <1>18. CASE StoreReply
    BY <1>18 DEF StoreReply
  <1>19. CASE StoreMapping
    BY <1>19 DEF StoreMapping
  <1>20. CASE EndTurn
    BY <1>20 DEF EndTurn
  <1>21. CASE Collect
    BY <1>21 DEF Collect
  <1>22. CASE StoreSynthesis
    BY <1>22 DEF StoreSynthesis
  <1>23. CASE DeleteSession
    BY <1>23 DEF DeleteSession
  <1>24. CASE PassDeadline
    BY <1>24 DEF PassDeadline
  <1>25. CASE Answer
    BY <1>25 DEF Answer
  <1>26. CASE GiveUp
    BY <1>26 DEF GiveUp
  <1>27. CASE Leave
    BY <1>27 DEF Leave
  <1>28. CASE ForgetMcpSession
    BY <1>28 DEF ForgetMcpSession
  <1>29. CASE UNCHANGED vars
    BY <1>29 DEF vars, cleanupVars, In, Question
  <1> QED
    BY <1>3, <1>4, <1>5, <1>6, <1>7, <1>8, <1>9, <1>10, <1>11, <1>12, <1>13, <1>14, <1>15,
       <1>16, <1>17, <1>18, <1>19, <1>20, <1>21, <1>22, <1>23, <1>24, <1>25, <1>26, <1>27,
       <1>28, <1>29, NextCases

(* An agent is only asked once the question is stored.                     *)
LEMMA AskQuestionStep ==
  ASSUME TypeOK, TurnsBounded, Control, AskQuestionKnown, [Next]_vars
  PROVE  AskQuestionKnown'
  <1>1. /\ In(Question, known) => In(Question, known)'
        /\ known' = Append(known, Question) => In(Question, known)'
    BY QuestionKept
  <1> SUFFICES ASSUME tool' = "ask", pc' \in {"call", "reply"} PROVE In(Question, known)'
    BY DEF AskQuestionKnown
  <1>2. tool' = tool
    BY NextCases DEF vars, SameRequest, requestVars, Admit, CreateSession, AskQuestion, AskAgent,
       AskReply, RemoveIndex, UndoCreate, Cleaned, LoadSession, SaveFlags, IndexSession,
       StoreQuestion, Moderate, StartTurn, CallAgent, StoreReply, StoreMapping, EndTurn,
       Collect, StoreSynthesis, DeleteSession, PassDeadline, Answer, GiveUp, Leave, ForgetMcpSession
  <1>3. pc = pc' \/ AskQuestion \/ AskAgent
    BY <1>2, NextCases DEF vars, Control, Debating, GoOn, Return, Admit, CreateSession, AskReply,
       RemoveIndex, UndoCreate, Cleaned, LoadSession, SaveFlags, IndexSession, StoreQuestion,
       Moderate, StartTurn, CallAgent, StoreReply, StoreMapping, EndTurn, Collect,
       StoreSynthesis, DeleteSession, PassDeadline, Answer, GiveUp, Leave, ForgetMcpSession
  <1>4. CASE AskQuestion
    BY <1>1, <1>4 DEF AskQuestion, GoOn
  <1>5. CASE AskAgent \/ pc = pc'
    BY <1>1, <1>2, <1>5 DEF AskAgent, AskQuestionKnown
  <1> QED
    BY <1>3, <1>4, <1>5

(* Nothing is done yet, so there is nothing to leave behind.               *)
LEMMA InitialCallInv == Init => CallInv
  BY DEF Init, CallInv, CleaningUp, GroupSession, AskQuestionKnown, Talking, Debating

(* In every state of every call the question and the session are where the *)
(* goroutine's step says they are.                                         *)
THEOREM CallInvariant == Spec => [](TypeOK /\ Control /\ CallInv)
  <1>1. TypeOK /\ Control /\ TurnsBounded /\ CallInv /\ [Next]_vars => CallInv'
    BY CleaningStep, GroupSessionStep, AskQuestionStep DEF CallInv
  <1>2. DebateInv => TurnsBounded
    BY DEF DebateInv
  <1> QED
    BY <1>1, <1>2, InitialCallInv, McpTypeCorrect, McpRunsDebate, DebateInvariant, PTL DEF Spec

(* A call that made a session and could not store its question leaves      *)
(* nothing behind but what the cleanup failed to remove: whether the       *)
(* handler waits, the user deletes the session meanwhile or the call's     *)
(* time runs out (group.go:316-330, handler.go:940-948).                   *)
THEOREM McpNoOrphan == Spec => []NoOrphan
  <1>1. TypeOK /\ Control /\ CallInv => NoOrphan
    <2> SUFFICES ASSUME TypeOK, Control, CallInv, home = "new", outcome # "pending",
                        ~In(Question, known), cleanup \in {"none", "over"}
                 PROVE  /\ session # "absent" => "session" \in leaks
                        /\ indexed => "index" \in leaks
      BY DEF NoOrphan
    <2>1. pc = "returned"
      BY DEF Control
    <2>2. cleanup = "over"
      BY <2>1 DEF CallInv, CleaningUp, SettingUp
    <2> QED
      BY <2>2 DEF CallInv, CleaningUp
  <1> QED
    BY <1>1, CallInvariant, PTL

(* The group session a client is given, or that its MCP session remembers, *)
(* was made with its flags, is listed and has the question, and is the one *)
(* the request named (group.go:286, 316).                                  *)
THEOREM McpHandedBackUsable == Spec => []HandedBackUsable
  <1>1. CallInv => HandedBackUsable
    <2> SUFFICES ASSUME CallInv, tool = "group",
                        answer \in {"complete", "incomplete"} \/ remembered = "new"
                 PROVE  UsableWithQuestion
      BY DEF HandedBackUsable, UsableWithQuestion, Usable
    <2> QED
      BY DEF CallInv, GroupSession
  <1> QED
    BY <1>1, CallInvariant, PTL

(***************************************************************************)
(* What a call's result says has been kept.                                *)
(***************************************************************************)

(* Before the debate there is no turn.                                     *)
Undebated == pc \in SettingUp \cup {"idle", "create", "load"} => turns = <<>>

(* What an ask shows after a good answer is stored.                        *)
AskKept ==
    (tool = "ask" /\ outcome = "complete" /\ session # "absent" /\ call.text # "none") =>
        In(Reply(1), stored)

(* The reply at hand is stored once its turn goes on to the mapping, and   *)
(* when it is recorded without the failure that says it is not.            *)
TurnAtHand ==
    (tool = "group" /\ session # "absent") =>
        /\ pc = "mapping" => In(Reply(ThisTurn), stored)
        /\ (pc = "record" /\ call.text # "none" /\ "persistence" \notin kinds) =>
               In(Reply(ThisTurn), stored)

(* So it is of every turn taken, ...                                       *)
TurnsStored ==
    (tool = "group" /\ session # "absent") =>
        \A k \in DOMAIN turns :
            (turns[k].text # "none" /\ "persistence" \notin turns[k].kinds) => In(Reply(k), stored)

(* ... in the order the turns were taken: no reply is of a turn to come,   *)
(* and each is of a later turn than those before it.                       *)
Taken(k) == k <= Len(turns) \/ (k = ThisTurn /\ pc \in {"mapping", "record"})

StoredInOrder ==
    tool = "group" =>
        /\ \A i \in DOMAIN stored : stored[i].about = "reply" => Taken(stored[i].turn)
        /\ \A i, j \in DOMAIN stored :
              (i < j /\ stored[i].about = "reply" /\ stored[j].about = "reply") =>
                  stored[i].turn < stored[j].turn

(* The result is complete, and a synthesis asked for, only of a debate     *)
(* that was finished and kept; the synthesis is the last message.          *)
ResultHonest ==
    /\ (tool = "group" /\ (pc = "synthesis" \/ outcome = "complete")) => ~Incomplete
    /\ synthesis # "none" => pc = "returned"
    /\ synthesis = "unsaved" => outcome = "incomplete"
    /\ (synthesis = "saved" /\ session # "absent") =>
           stored # <<>> /\ stored[Len(stored)] = Synthesis

KeptInv == Undebated /\ AskKept /\ TurnAtHand /\ TurnsStored /\ StoredInOrder /\ ResultHonest

-----------------------------------------------------------------------------
(* An appended message is the last one, and the others stay where they are. *)
LEMMA AppendFacts ==
  ASSUME NEW S, NEW s \in Seq(S), NEW e \in S
  PROVE  /\ Len(Append(s, e)) = Len(s) + 1 /\ Len(s) \in Nat
         /\ DOMAIN s = 1 .. Len(s) /\ DOMAIN Append(s, e) = 1 .. Len(s) + 1
         /\ \A i \in DOMAIN s : Append(s, e)[i] = s[i]
         /\ Append(s, e)[Len(s) + 1] = e
  OBVIOUS

(* A turn is only added by its record.                                     *)
LEMMA TurnsStay == [Next]_vars => EndTurn \/ UNCHANGED turns
  BY DEF vars, debateVars, storeVars, turnVars, requestVars, clientVars, cleanupVars,
       SameStore, SameTurn, SameRequest, SameClient, SameCleanup, SameTurnResult,
       AbandonNewSession, Next, Step, CallStep, GroupStep, Environment, Admit, Answer,
       GiveUp, CreateSession, AskQuestion, AskAgent, AskReply, RemoveIndex, UndoCreate,
       Cleaned, LoadSession, SaveFlags, IndexSession, StoreQuestion, Moderate, StartTurn,
       CallAgent, StoreReply, StoreMapping, Collect, StoreSynthesis, Leave,
       ForgetMcpSession, DeleteSession, PassDeadline, Begin, Expire, NextRound,
       AskModerator, AskAgain

(* What the record adds to the turns.                                      *)
LEMMA EndTurnFacts ==
  ASSUME TypeOK, EndTurn
  PROVE  /\ Len(turns) \in Nat /\ DOMAIN turns = 1 .. Len(turns)
         /\ Len(turns') = Len(turns) + 1 /\ DOMAIN turns' = 1 .. Len(turns) + 1
         /\ \A k \in DOMAIN turns : turns'[k] = turns[k]
         /\ turns'[ThisTurn].text = call.text /\ turns'[ThisTurn].kinds = kinds
         /\ pc = "record" /\ pc' = "debate" /\ UNCHANGED <<session, stored, tool>>
  <1>1. turns \in Seq(TurnResult) /\ speaker \in Members /\ call.text \in Texts /\ kinds \in SUBSET FailureKinds
    BY DEF TypeOK, DebateTypeOK, CallResult
  <1> DEFINE r == [agent |-> speaker, text |-> call.text, kinds |-> kinds]
  <1>2. r \in TurnResult
    BY <1>1 DEF TurnResult
  <1>3. turns' = Append(turns, r)
    BY DEF EndTurn, RecordTurn
  <1>4. r.text = call.text /\ r.kinds = kinds
    OBVIOUS
  <1>5. pc = "record" /\ pc' = "debate" /\ UNCHANGED <<session, stored, tool>>
    BY DEF EndTurn, GoOn, SameStore, storeVars, SameRequest, requestVars
  <1> HIDE DEF r
  <1> QED
    BY <1>1, <1>2, <1>3, <1>4, <1>5, AppendFacts DEF ThisTurn

(* The goroutine's variables a step leaves alone: the tool always, the     *)
(* turn but in a turn's steps.                                             *)
LEMMA TurnAlone ==
  ASSUME [Next]_vars
  PROVE  /\ UNCHANGED tool
         /\ \/ AskAgent \/ StartTurn \/ CallAgent \/ StoreReply \/ StoreMapping \/ EndTurn
            \/ UNCHANGED <<turns, call, kinds>> /\ (pc' = pc \/ pc' \notin {"mapping", "record"})
  BY DEF vars, debateVars, storeVars, turnVars, requestVars, clientVars, cleanupVars,
       SameStore, SameTurn, SameRequest, SameClient, SameCleanup, SameTurnResult, GoOn,
       Return, AbandonNewSession, Next, Step, CallStep, GroupStep, Environment, Admit,
       Answer, GiveUp, CreateSession, AskQuestion, AskReply, RemoveIndex, UndoCreate,
       Cleaned, LoadSession, SaveFlags, IndexSession, StoreQuestion, Moderate, Collect,
       StoreSynthesis, Leave, ForgetMcpSession, DeleteSession, PassDeadline, debateVars, Begin, Expire,
       NextRound, AskModerator, AskAgain, AskAgent, StartTurn, CallAgent, StoreReply, StoreMapping, EndTurn

(* A session that is there was there before, but for one that is made.     *)
LEMMA SessionStays ==
  ASSUME [Next]_vars, session' # "absent"
  PROVE  session # "absent" \/ pc \in {"create", "save"}
  BY DEF vars, debateVars, storeVars, turnVars, requestVars, clientVars, cleanupVars,
       SameStore, SameTurn, SameRequest, SameClient, SameCleanup, SameTurnResult, GoOn,
       Return, AbandonNewSession, Next, Step, CallStep, GroupStep, Environment, Admit,
       Answer, GiveUp, CreateSession, AskQuestion, AskAgent, AskReply, RemoveIndex,
       UndoCreate, Cleaned, LoadSession, SaveFlags, IndexSession, StoreQuestion, Moderate,
       StartTurn, CallAgent, StoreReply, StoreMapping, EndTurn, Collect, StoreSynthesis,
       Leave, ForgetMcpSession, DeleteSession, PassDeadline

(* What is in the session stays there.                                     *)
LEMMA StoredStays ==
  ASSUME TypeOK, TurnsBounded, Control, [Next]_vars, session' # "absent"
  PROVE  \A x : In(x, stored) => In(x, stored')
  <1>1. stored \in Seq(Message) /\ DebateTypeOK
    BY DEF TypeOK
  <1>2. CASE UNCHANGED stored
    BY <1>2
  <1>3. CASE \E m \in Message : stored' = Append(stored, m)
    BY <1>1, <1>3, InAppend
  <1> QED
    BY <1>1, <1>2, <1>3, MessageCases

(* Before the debate there is no turn.                                     *)
LEMMA UndebatedStep ==
  ASSUME TypeOK, Control, Undebated, [Next]_vars
  PROVE  Undebated'
  <1>0. pc \in {"idle", "create", "save", "index", "load", "question", "cleaning", "debate",
               "turn", "call", "reply", "mapping", "record", "collect", "synthesis", "returned"}
    BY DEF TypeOK
  <1>1. pc' \in SettingUp \cup {"idle", "create", "load"} => pc \in SettingUp \cup {"idle", "create", "load"}
    BY <1>0 DEF SettingUp, Control,
       vars, debateVars, storeVars, turnVars, requestVars, clientVars, cleanupVars,
       SameStore, SameTurn, SameRequest, SameClient, SameCleanup, SameTurnResult, GoOn,
       Return, AbandonNewSession, Next, Step, CallStep, GroupStep, Environment, Admit,
       Answer, GiveUp, CreateSession, AskQuestion, AskAgent, AskReply, RemoveIndex,
       UndoCreate, Cleaned, LoadSession, SaveFlags, IndexSession, StoreQuestion, Moderate,
       StartTurn, CallAgent, StoreReply, StoreMapping, EndTurn, Collect, StoreSynthesis,
       Leave, ForgetMcpSession, DeleteSession, PassDeadline
  <1>2. pc' \in SettingUp \cup {"idle", "create", "load"} => UNCHANGED turns
    BY TurnsStay, EndTurnFacts DEF SettingUp
  <1> QED
    BY <1>1, <1>2 DEF Undebated

(* An ask's reply stays stored once it is.                                 *)
LEMMA AskKeptStep ==
  ASSUME TypeOK, TurnsBounded, Control, AskKept, [Next]_vars
  PROVE  AskKept'
  <1> SUFFICES ASSUME tool' = "ask", outcome' = "complete", session' # "absent", call'.text # "none"
               PROVE  In(Reply(1), stored')
    BY DEF AskKept, Reply
  <1>1. tool = "ask" /\ pc \notin {"save", "turn", "mapping", "record"}
    BY TurnAlone DEF Control, Debating
  <1>2. CASE AskAgent
    <2>1. call' \in Outcomes /\ ~(call'.result = "content")
      BY <1>2 DEF AskAgent, GoOn, Control
    <2>2. call' = Failure \/ call' \in Calls
      BY <2>1 DEF Outcomes
    <2> QED
      BY <2>1, <2>2, McpCallsAssumption DEF Failure
  <1>3. CASE AskReply
    <2>1. stored' = Append(stored, Reply(1))
      BY <1>3 DEF AskReply, AddMessage, Return
    <2>2. stored \in Seq(Message) /\ Reply(1) \in Message
      BY MessagesTyped DEF TypeOK
    <2> QED
      BY <2>1, <2>2, InAppend
  <1>4. CASE ~AskAgent /\ ~AskReply
    <2>1. UNCHANGED call
      BY <1>1, <1>4, TurnAlone DEF StartTurn, CallAgent, StoreReply, StoreMapping, EndTurn, SameTurn, turnVars
    <2>2. outcome = "complete"
      BY <1>1, <1>4 DEF Control, Debating,
       vars, debateVars, storeVars, turnVars, requestVars, clientVars, cleanupVars,
       SameStore, SameTurn, SameRequest, SameClient, SameCleanup, SameTurnResult, GoOn,
       Return, AbandonNewSession, Next, Step, CallStep, GroupStep, Environment, Admit,
       Answer, GiveUp, CreateSession, AskQuestion, AskAgent, AskReply, RemoveIndex,
       UndoCreate, Cleaned, LoadSession, SaveFlags, IndexSession, StoreQuestion, Moderate,
       StartTurn, CallAgent, StoreReply, StoreMapping, EndTurn, Collect, StoreSynthesis,
       Leave, ForgetMcpSession, DeleteSession, PassDeadline
    <2>3. session # "absent"
      BY <2>2, SessionStays DEF Control
    <2> QED
      BY <1>1, <2>1, <2>2, <2>3, StoredStays DEF AskKept
  <1> QED
    BY <1>2, <1>3, <1>4

(* The reply at hand is stored when the turn's position says so.           *)
LEMMA TurnAtHandStep ==
  ASSUME TypeOK, TurnsBounded, Control, TurnAtHand, [Next]_vars
  PROVE  TurnAtHand'
  <1> SUFFICES ASSUME tool' = "group", session' # "absent",
                      \/ pc' = "mapping"
                      \/ pc' = "record" /\ call'.text # "none" /\ "persistence" \notin kinds'
               PROVE  In(Reply(ThisTurn), stored)'
    BY DEF TurnAtHand
  <1>1. tool = "group" /\ DebateTypeOK
    BY TurnAlone DEF TypeOK
  <1>2. CASE StoreReply
    <2>1. UNCHANGED turns /\ stored' = Append(stored, Reply(ThisTurn))
      BY <1>2 DEF StoreReply, AddMessage, GoOn, debateVars
    <2>2. stored \in Seq(Message) /\ Reply(ThisTurn) \in Message
      BY <1>1, <1>2, MessagesTyped DEF TypeOK, Control, StoreReply
    <2>3. In(Reply(ThisTurn), stored')
      BY <2>1, <2>2, InAppend
    <2> QED
      BY <2>1, <2>3 DEF Reply, ThisTurn, In
  <1>3. CASE StoreMapping
    <2>1. pc = "mapping" /\ UNCHANGED <<turns, stored, session>>
      BY <1>3 DEF StoreMapping, debateVars
    <2> QED
      BY <1>1, <2>1 DEF TurnAtHand, Reply, ThisTurn, In
  <1>4. CASE StartTurn
    BY <1>4 DEF StartTurn, Failure, GoOn
  <1>5. CASE CallAgent
    <2>1. call' \in Outcomes /\ call'.result = "nil" /\ call'.text # "none"
      BY <1>5 DEF CallAgent, GoOn
    <2>2. call' = Failure \/ call' \in Calls
      BY <2>1 DEF Outcomes
    <2> QED
      BY <2>1, <2>2, McpCallsAssumption DEF Failure
  <1>6. CASE EndTurn
    BY <1>6, EndTurnFacts
  <1>7. CASE UNCHANGED <<turns, call, kinds>> /\ pc' = pc
    <2>1. session # "absent"
      BY <1>7, SessionStays
    <2>2. In(Reply(ThisTurn), stored)
      BY <1>1, <1>7, <2>1 DEF TurnAtHand
    <2>3. In(Reply(ThisTurn), stored')
      BY <2>2, StoredStays
    <2> QED
      BY <1>7, <2>3 DEF Reply, ThisTurn, In
  <1>8. CASE AskAgent
    BY <1>1, <1>8 DEF AskAgent
  <1> QED
    BY <1>2, <1>3, <1>4, <1>5, <1>6, <1>7, <1>8, TurnAlone

(* A turn recorded without a failure to store it has its reply stored.     *)
LEMMA TurnsStoredStep ==
  ASSUME TypeOK, TurnsBounded, Control, Undebated, TurnAtHand, TurnsStored, [Next]_vars
  PROVE  TurnsStored'
  <1> SUFFICES ASSUME tool' = "group", session' # "absent", NEW k \in DOMAIN turns',
                      turns'[k].text # "none", "persistence" \notin turns'[k].kinds
               PROVE  In(Reply(k), stored')
    BY DEF TurnsStored, Reply
  <1>1. tool = "group"
    BY TurnAlone
  <1>2. CASE UNCHANGED turns
    <2>1. pc \notin {"create", "save"}
      BY <1>2 DEF Undebated, SettingUp
    <2>2. session # "absent"
      BY <2>1, SessionStays
    <2> QED
      BY <1>1, <1>2, <2>2, StoredStays DEF TurnsStored
  <1>3. CASE EndTurn
    <2>1. session # "absent" /\ UNCHANGED stored
      BY <1>3, EndTurnFacts
    <2>2. CASE k \in DOMAIN turns
      BY <1>1, <1>3, <2>1, <2>2, EndTurnFacts DEF TurnsStored
    <2>3. CASE k = ThisTurn
      BY <1>1, <1>3, <2>1, <2>3, EndTurnFacts DEF TurnAtHand
    <2> QED
      BY <1>3, <2>2, <2>3, EndTurnFacts DEF ThisTurn
  <1> QED
    BY <1>2, <1>3, TurnsStay

(* What has been taken stays taken.                                        *)
LEMMA TakenStays ==
  ASSUME TypeOK, Control, tool = "group", [Next]_vars, NEW k \in Int, Taken(k)
  PROVE  Taken(k)'
  <1>0. Len(turns) \in Nat
    BY DEF TypeOK, DebateTypeOK
  <1>1. CASE EndTurn
    <2>1. Len(turns') = Len(turns) + 1
      BY <1>1, EndTurnFacts
    <2>2. k = ThisTurn \/ k <= Len(turns)
      BY DEF Taken
    <2> QED
      BY <1>0, <2>1, <2>2 DEF Taken, ThisTurn
  <1>2. CASE UNCHANGED turns /\ k <= Len(turns)
    BY <1>2 DEF Taken
  <1>3. CASE k = ThisTurn /\ pc \in {"mapping", "record"} /\ ~EndTurn
    <2>1. UNCHANGED turns /\ pc' \in {"mapping", "record"}
      BY <1>3, TurnsStay DEF Control,
       vars, debateVars, storeVars, turnVars, requestVars, clientVars, cleanupVars,
       SameStore, SameTurn, SameRequest, SameClient, SameCleanup, SameTurnResult, GoOn,
       Return, AbandonNewSession, Next, Step, CallStep, GroupStep, Environment, Admit,
       Answer, GiveUp, CreateSession, AskQuestion, AskAgent, AskReply, RemoveIndex,
       UndoCreate, Cleaned, LoadSession, SaveFlags, IndexSession, StoreQuestion, Moderate,
       StartTurn, CallAgent, StoreReply, StoreMapping, EndTurn, Collect, StoreSynthesis,
       Leave, ForgetMcpSession, DeleteSession, PassDeadline
    <2> QED
      BY <1>3, <2>1 DEF Taken, ThisTurn
  <1> QED
    BY <1>1, <1>2, <1>3, TurnsStay DEF Taken

(* What a step of a group's call does to the messages: its reply is stored *)
(* by the turn at hand, and by nothing else.                               *)
LEMMA StoredCases ==
  ASSUME TypeOK, TurnsBounded, Control, tool = "group", [Next]_vars
  PROVE  \/ UNCHANGED stored
         \/ stored' = <<>>
         \/ \E m \in Message : m.about # "reply" /\ stored' = Append(stored, m)
         \/ /\ StoreReply
            /\ stored' = Append(stored, Reply(ThisTurn)) /\ Reply(ThisTurn) \in Message
            /\ UNCHANGED turns /\ pc' \in {"mapping", "record"}
  <1>1. /\ Question \in Message
        /\ Synthesis \in Message
        /\ dpc = "turn" => Reply(ThisTurn) \in Message
    BY MessagesTyped DEF TypeOK
  <1>2. CASE StoreQuestion
    BY <1>1, <1>2 DEF StoreQuestion, AddMessage, Question
  <1>3. CASE StoreReply
    BY <1>1, <1>3 DEF StoreReply, AddMessage, Control, GoOn, debateVars
  <1>4. CASE StoreSynthesis
    BY <1>1, <1>4 DEF StoreSynthesis, AddMessage, Synthesis
  <1>5. CASE UndoCreate \/ DeleteSession
    BY <1>5 DEF UndoCreate, DeleteSession, SameStore, storeVars
  <1>6. StoreQuestion \/ StoreReply \/ StoreSynthesis \/ UndoCreate \/ DeleteSession \/ UNCHANGED stored
    BY NextCases DEF vars, SameStore, storeVars, Admit, CreateSession, AskQuestion, AskAgent, AskReply,
       RemoveIndex, Cleaned, LoadSession, SaveFlags, IndexSession, Moderate, StartTurn, CallAgent,
       StoreMapping, EndTurn, Collect, PassDeadline, Answer, GiveUp, Leave, ForgetMcpSession
  <1> QED
    BY <1>2, <1>3, <1>4, <1>5, <1>6

(* The replies are stored in the order of their turns.                     *)
LEMMA OrderStep ==
  ASSUME TypeOK, TurnsBounded, Control, StoredInOrder, [Next]_vars
  PROVE  StoredInOrder'
  <1> DEFINE Ordered(s) == \A i, j \in DOMAIN s :
                 (i < j /\ s[i].about = "reply" /\ s[j].about = "reply") => s[i].turn < s[j].turn
  <1> SUFFICES ASSUME tool' = "group"
               PROVE  /\ \A i \in DOMAIN stored' : stored'[i].about = "reply" => Taken(stored[i].turn)'
                      /\ Ordered(stored')
    BY DEF StoredInOrder
  <1>1. tool = "group" /\ stored \in Seq(Message) /\ Len(turns) \in Nat
    BY TurnAlone DEF TypeOK, DebateTypeOK
  <1>2. /\ \A i \in DOMAIN stored : stored[i].about = "reply" => Taken(stored[i].turn)
        /\ Ordered(stored)
    BY <1>1 DEF StoredInOrder
  <1>0. \A i \in DOMAIN stored : stored[i].turn \in Int
    <2>1. \A m \in Message : m.turn \in Int
      BY MaxTurnsAssumption DEF Message
    <2> QED
      BY <1>1, <2>1
  <1>3. ASSUME NEW i \in DOMAIN stored, stored[i].about = "reply", stored'[i] = stored[i]
        PROVE  Taken(stored[i].turn)'
    <2>1. PICK k \in Int : k = stored[i].turn
      BY <1>0
    <2>2. Taken(k)'
      BY <1>1, <1>2, <1>3, <2>1, TakenStays
    <2> QED
      BY <1>3, <2>1, <2>2
  <1>4. CASE UNCHANGED stored
    BY <1>2, <1>3, <1>4
  <1>5. CASE stored' = <<>>
    BY <1>5
  <1>6. CASE \E m \in Message : m.about # "reply" /\ stored' = Append(stored, m)
    <2>1. PICK m \in Message : m.about # "reply" /\ stored' = Append(stored, m)
      BY <1>6
    <2>2. /\ DOMAIN stored = 1 .. Len(stored) /\ Len(stored) \in Nat
          /\ DOMAIN stored' = 1 .. Len(stored) + 1 /\ stored'[Len(stored) + 1] = m
          /\ \A i \in DOMAIN stored : stored'[i] = stored[i]
      BY <1>1, <2>1, AppendFacts
    <2>3. \A i \in DOMAIN stored' : stored'[i].about = "reply" => i \in DOMAIN stored
      BY <2>1, <2>2
    <2> QED
      BY <1>2, <1>3, <2>2, <2>3
  <1>7. CASE /\ StoreReply
             /\ stored' = Append(stored, Reply(ThisTurn)) /\ Reply(ThisTurn) \in Message
             /\ UNCHANGED turns /\ pc' \in {"mapping", "record"}
    <2>1. /\ DOMAIN stored = 1 .. Len(stored) /\ Len(stored) \in Nat
          /\ DOMAIN stored' = 1 .. Len(stored) + 1 /\ stored'[Len(stored) + 1] = Reply(ThisTurn)
          /\ \A i \in DOMAIN stored : stored'[i] = stored[i]
      BY <1>1, <1>7, AppendFacts
    <2>2. pc = "reply" /\ ThisTurn' = ThisTurn
      BY <1>7 DEF StoreReply, ThisTurn
    <2>3. Reply(ThisTurn).turn = ThisTurn
      BY DEF Reply
    <2>4. \A i \in DOMAIN stored : stored[i].turn \in Int
      BY <1>0
    <2>5. \A i \in DOMAIN stored : stored[i].about = "reply" => stored[i].turn < ThisTurn
      BY <1>1, <1>2, <2>2, <2>4 DEF Taken, ThisTurn
    <2>6. Ordered(stored')
      BY <1>2, <2>1, <2>3, <2>5
    <2>7. ASSUME NEW i \in DOMAIN stored', stored'[i].about = "reply" PROVE Taken(stored[i].turn)'
      <3>1. CASE i \in DOMAIN stored
        BY <1>3, <2>1, <2>7, <3>1
      <3>2. CASE i = Len(stored) + 1
        BY <1>7, <2>1, <2>2, <2>3, <3>2 DEF Taken
      <3> QED
        BY <2>1, <3>1, <3>2
    <2> QED
      BY <2>6, <2>7
  <1> QED
    BY <1>1, <1>4, <1>5, <1>6, <1>7, StoredCases

(* A result stands once it is given: nothing is recorded after it, and a   *)
(* synthesis is the last message stored.                                   *)
LEMMA ResultStep ==
  ASSUME TypeOK, TurnsBounded, Control, ResultHonest, [Next]_vars
  PROVE  ResultHonest'
  <1>0. stored \in Seq(Message) /\ Synthesis \in Message /\ UNCHANGED tool
    BY MessagesTyped, TurnAlone DEF TypeOK
  <1>1. CASE Collect
    <2>1. UNCHANGED <<turns, verdict, synthesis, stored, session>> /\ pc = "collect"
      BY <1>1 DEF Collect, debateVars, SameStore, storeVars
    <2>2. Incomplete' <=> Incomplete
      BY <2>1 DEF Incomplete
    <2>3. turns = <<>> /\ verdict = "finish" => ~Incomplete
      BY DEF Incomplete
    <2>4. pc' = "synthesis" \/ outcome' = "complete" => ~Incomplete
      BY <1>1, <2>3 DEF Collect, Return, GoOn, Control
    <2>5. synthesis = "none"
      BY <2>1 DEF ResultHonest, TypeOK
    <2> QED
      BY <2>1, <2>2, <2>4, <2>5 DEF ResultHonest
  <1>2. CASE StoreSynthesis
    <2>1. UNCHANGED <<turns, verdict, session>> /\ pc = "synthesis" /\ pc' = "returned"
      BY <1>2 DEF StoreSynthesis, debateVars, Return
    <2>2. Incomplete' <=> Incomplete
      BY <2>1 DEF Incomplete
    <2>3. tool = "group" => ~Incomplete
      BY <2>1 DEF ResultHonest
    <2>4. \/ synthesis' = "saved" /\ outcome' = "complete" /\ stored' = Append(stored, Synthesis)
          \/ synthesis' = "unsaved" /\ outcome' = "incomplete"
      BY <1>2 DEF StoreSynthesis, AddMessage, Return
    <2>5. stored' = Append(stored, Synthesis) => stored' # <<>> /\ stored'[Len(stored')] = Synthesis
      BY <1>0, AppendFacts
    <2> QED
      BY <1>0, <2>1, <2>2, <2>3, <2>4, <2>5 DEF ResultHonest, Synthesis
  <1>3. CASE ~Collect /\ ~StoreSynthesis
    <2>1. UNCHANGED synthesis /\ (pc = "returned" => pc' = "returned" /\ UNCHANGED outcome)
      BY <1>3 DEF Control,
       vars, debateVars, storeVars, turnVars, requestVars, clientVars, cleanupVars,
       SameStore, SameTurn, SameRequest, SameClient, SameCleanup, SameTurnResult, GoOn,
       Return, AbandonNewSession, Next, Step, CallStep, GroupStep, Environment, Admit,
       Answer, GiveUp, CreateSession, AskQuestion, AskAgent, AskReply, RemoveIndex,
       UndoCreate, Cleaned, LoadSession, SaveFlags, IndexSession, StoreQuestion, Moderate,
       StartTurn, CallAgent, StoreReply, StoreMapping, EndTurn, Collect, StoreSynthesis,
       Leave, ForgetMcpSession, DeleteSession, PassDeadline
    <2>2. (pc' = "synthesis" => pc = "synthesis") /\ (tool = "group" /\ outcome' = "complete" => outcome = "complete")
      BY <1>0, <1>3 DEF Control, Debating,
       vars, debateVars, storeVars, turnVars, requestVars, clientVars, cleanupVars,
       SameStore, SameTurn, SameRequest, SameClient, SameCleanup, SameTurnResult, GoOn,
       Return, AbandonNewSession, Next, Step, CallStep, GroupStep, Environment, Admit,
       Answer, GiveUp, CreateSession, AskQuestion, AskAgent, AskReply, RemoveIndex,
       UndoCreate, Cleaned, LoadSession, SaveFlags, IndexSession, StoreQuestion, Moderate,
       StartTurn, CallAgent, StoreReply, StoreMapping, EndTurn, Collect, StoreSynthesis,
       Leave, ForgetMcpSession, DeleteSession, PassDeadline
    <2>3. pc \in {"synthesis", "returned"} => UNCHANGED <<turns, verdict>>
      BY <1>3 DEF Control,
       vars, debateVars, storeVars, turnVars, requestVars, clientVars, cleanupVars,
       SameStore, SameTurn, SameRequest, SameClient, SameCleanup, SameTurnResult, GoOn,
       Return, AbandonNewSession, Next, Step, CallStep, GroupStep, Environment, Admit,
       Answer, GiveUp, CreateSession, AskQuestion, AskAgent, AskReply, RemoveIndex,
       UndoCreate, Cleaned, LoadSession, SaveFlags, IndexSession, StoreQuestion, Moderate,
       StartTurn, CallAgent, StoreReply, StoreMapping, EndTurn, Collect, StoreSynthesis,
       Leave, ForgetMcpSession, DeleteSession, PassDeadline, Begin, Expire,
       NextRound, AskModerator, AskAgain, RecordTurn
    <2>4. pc = "returned" /\ session' # "absent" => UNCHANGED stored /\ session # "absent"
      BY <1>3, SessionStays DEF Control,
       vars, debateVars, storeVars, turnVars, requestVars, clientVars, cleanupVars,
       SameStore, SameTurn, SameRequest, SameClient, SameCleanup, SameTurnResult, GoOn,
       Return, AbandonNewSession, Next, Step, CallStep, GroupStep, Environment, Admit,
       Answer, GiveUp, CreateSession, AskQuestion, AskAgent, AskReply, RemoveIndex,
       UndoCreate, Cleaned, LoadSession, SaveFlags, IndexSession, StoreQuestion, Moderate,
       StartTurn, CallAgent, StoreReply, StoreMapping, EndTurn, Collect, StoreSynthesis,
       Leave, ForgetMcpSession, DeleteSession, PassDeadline
    <2>5. tool' = "group" /\ (pc' = "synthesis" \/ outcome' = "complete") => ~Incomplete'
      <3> SUFFICES ASSUME tool' = "group", pc' = "synthesis" \/ outcome' = "complete" PROVE ~Incomplete'
        OBVIOUS
      <3>1. ~Incomplete /\ pc \in {"synthesis", "returned"}
        BY <1>0, <2>2 DEF ResultHonest, Control
      <3> QED
        BY <2>3, <3>1 DEF Incomplete
    <2>6. synthesis' # "none" => pc = "returned"
      BY <2>1 DEF ResultHonest
    <2> QED
      BY <2>1, <2>4, <2>5, <2>6 DEF ResultHonest, Synthesis
  <1> QED
    BY <1>1, <1>2, <1>3

LEMMA InitialKept == Init => KeptInv
  <1> SUFFICES ASSUME Init PROVE KeptInv
    OBVIOUS
  <1>1. turns = <<>> /\ stored = <<>> /\ pc = "idle" /\ outcome = "pending" /\ synthesis = "none"
    BY DEF Init, DebateInit
  <1>2. DOMAIN turns = {} /\ DOMAIN stored = {}
    BY <1>1
  <1> QED
    BY <1>1, <1>2 DEF KeptInv, Undebated, AskKept, TurnAtHand, TurnsStored, StoredInOrder, ResultHonest

(* In every state the session holds what the turns taken so far, and the   *)
(* result, say it holds.                                                   *)
THEOREM KeptInvariant == Spec => [](TypeOK /\ Control /\ KeptInv)
  <1>1. TypeOK /\ Control /\ TurnsBounded /\ KeptInv /\ [Next]_vars => KeptInv'
    BY UndebatedStep, AskKeptStep, TurnAtHandStep, TurnsStoredStep, OrderStep, ResultStep DEF KeptInv
  <1>2. DebateInv => TurnsBounded
    BY DEF DebateInv
  <1> QED
    BY <1>1, <1>2, InitialKept, McpTypeCorrect, McpRunsDebate, DebateInvariant, PTL DEF Spec

(* A result without isError is the truth (group.go:500-531,                *)
(* handler.go:1041-1048): every reply it shows is in the session, in the   *)
(* order it was said, with the synthesis last, and the moderator finished  *)
(* the debate; whatever failed on the way, unless the user has deleted the *)
(* session.                                                                *)
THEOREM McpCompleteStored == Spec => []CompleteMeansStored
  <1>1. TypeOK /\ Control /\ KeptInv => CompleteMeansStored
    <2> DEFINE Kept(k) == CHOOSE i \in DOMAIN stored : stored[i] = Reply(k)
    <2> SUFFICES ASSUME TypeOK, Control, KeptInv, outcome = "complete", session # "absent"
                 PROVE  /\ \A k \in ShownReplies : In(Reply(k), stored)
                        /\ \A k, l \in ShownReplies : k < l => Kept(k) < Kept(l)
                        /\ synthesis = "saved" => stored[Len(stored)] = Synthesis
                        /\ tool = "group" => verdict = "finish" /\ synthesis # "unsaved"
      BY DEF CompleteMeansStored
    <2>1. synthesis = "saved" => stored[Len(stored)] = Synthesis
      BY DEF KeptInv, ResultHonest
    <2>2. tool = "group" => ~Incomplete /\ synthesis # "unsaved"
      BY DEF KeptInv, ResultHonest
    <2>3. ASSUME NEW k \in ShownReplies PROVE In(Reply(k), stored)
      <3>1. CASE tool = "ask"
        BY <2>3, <3>1 DEF KeptInv, AskKept, ShownReplies
      <3>2. CASE tool = "group"
        <4>1. k \in DOMAIN turns /\ turns[k].text # "none"
          BY <2>3, <3>2 DEF ShownReplies
        <4>2. "persistence" \notin turns[k].kinds
          BY <2>2, <3>2, <4>1 DEF Incomplete
        <4> QED
          BY <3>2, <4>1, <4>2 DEF KeptInv, TurnsStored
      <3> QED
        BY <3>1, <3>2 DEF TypeOK
    <2>4. ASSUME NEW k \in ShownReplies PROVE Kept(k) \in DOMAIN stored /\ stored[Kept(k)] = Reply(k)
      BY <2>3, <2>4 DEF In
    <2>5. ShownReplies \subseteq Nat /\ DOMAIN stored \subseteq Nat
      <3>1. turns \in Seq(TurnResult) /\ stored \in Seq(Message)
        BY DEF TypeOK, DebateTypeOK
      <3> QED
        BY <3>1 DEF ShownReplies
    <2>6. \A k : Reply(k).turn = k /\ Reply(k).about = "reply"
      BY DEF Reply
    <2>7. tool = "ask" => \A k, l \in ShownReplies : ~(k < l)
      BY DEF ShownReplies
    <2>8. tool = "group" => \A i, j \in DOMAIN stored :
             (i < j /\ stored[i].about = "reply" /\ stored[j].about = "reply") =>
                 stored[i].turn < stored[j].turn
      BY DEF KeptInv, StoredInOrder
    <2> HIDE DEF Kept
    <2>9. ASSUME NEW k \in ShownReplies, NEW l \in ShownReplies, k < l PROVE Kept(k) < Kept(l)
      <3>1. k \in Nat /\ l \in Nat /\ tool = "group"
        BY <2>5, <2>7, <2>9 DEF TypeOK
      <3>2. PICK i \in DOMAIN stored : i = Kept(k) /\ stored[i] = Reply(k)
        BY <2>4
      <3>3. PICK j \in DOMAIN stored : j = Kept(l) /\ stored[j] = Reply(l)
        BY <2>4
      <3>4. stored[i].turn = k /\ stored[j].turn = l
        BY <2>6, <3>2, <3>3
      <3>5. ~(j < i)
        BY <2>6, <2>8, <2>9, <3>1, <3>2, <3>3, <3>4
      <3>6. i # j
        BY <2>9, <3>1, <3>4
      <3> QED
        BY <2>5, <3>2, <3>3, <3>5, <3>6
    <2> QED
      BY <2>1, <2>2, <2>3, <2>9 DEF Incomplete
  <1> QED
    BY <1>1, KeptInvariant, PTL
=============================================================================
