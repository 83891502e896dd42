---------------------------- MODULE ChatRunProofs ----------------------------
(***************************************************************************)
(* Proofs about ChatRun, for every set of runs, readers and loaders.       *)
(***************************************************************************)
EXTENDS ChatRun, FiniteSetTheorems, TLAPS

(* The part of the type invariant that is ChatRun's own, by groups. *)
StoreTypeOK ==
    /\ doc \in Document \cup {NoDoc}
    /\ copy \in [Runs -> Document \cup {NoDoc}]
    /\ page \in [Loaders -> [state : {"idle", "loaded", "shown"},
                             msgs : Seq(Message), active : BOOLEAN]]
RunTypeOK ==
    /\ mapped \subseteq {Agent[r] : r \in Runs}
    /\ pc \in [Runs -> RunStates]
    /\ connected \in [Runs -> BOOLEAN]
    /\ sent \in [Runs -> 0 .. MaxContent]
    /\ outcome \in [Runs -> Outcomes]
    /\ failed \in [Runs -> BOOLEAN]
    /\ sawMapping \in [Runs -> BOOLEAN]
    /\ naming \in [Runs -> {"off", "get", "set"}]
    /\ crashes \in 0 .. MaxCrashes
    /\ deleting \in {"idle", "scanned", "done"}
    /\ victims \subseteq {Agent[r] : r \in Runs}
    /\ owner \in Runs \cup {NoRun}
    /\ latest \in Runs \cup {NoRun}
    /\ saved \subseteq Runs

(* The type invariant is its four parts.                                   *)
LEMMA TypeParts == TypeOK <=> BufferTypeOK /\ ReaderTypeOK /\ StoreTypeOK /\ RunTypeOK
  BY DEF TypeOK, StoreTypeOK, RunTypeOK

(* A trim keeps a subset of the entries. *)
LEMMA TrimsKeep == ASSUME NEW ids, NEW kept \in Trims(ids) PROVE kept \subseteq ids
  BY DEF Trims

(* Appending keeps the buffer well typed and loses no entry of the log. *)
LEMMA AppendTyped ==
  ASSUME BufferTypeOK, NEW r \in Runs, NEW kind \in Kinds, AppendRunEvent(r, kind),
         UNCHANGED flag
  PROVE  /\ BufferTypeOK'
         /\ DOMAIN log \subseteq DOMAIN log'
  <1>1. CASE Fails /\ UNCHANGED <<log, stream>>
    BY <1>1, MaxFaultsAssumption DEF BufferTypeOK, Fails
  <1>2. CASE /\ log' = Append(log, [run |-> r, kind |-> kind])
             /\ stream' \in Trims(stream \cup {Len(log) + 1})
             /\ Succeeds
    <2>1. [run |-> r, kind |-> kind] \in Entry
      BY DEF Entry
    <2>2. log' \in Seq(Entry) /\ DOMAIN log' = DOMAIN log \cup {Len(log) + 1}
      BY <1>2, <2>1 DEF BufferTypeOK
    <2>3. stream' \subseteq stream \cup {Len(log) + 1}
      BY <1>2, TrimsKeep
    <2> QED
      BY <1>2, <2>2, <2>3 DEF BufferTypeOK, Succeeds
  <1> QED
    BY <1>1, <1>2 DEF AppendRunEvent

(* A message added to a well-typed session leaves it well typed. *)
LEMMA AddMessageTyped ==
  ASSUME doc \in Document \cup {NoDoc}, NEW m \in Message, AddMessage(m)
  PROVE  doc' \in Document
  <1>1. doc \in Document
    BY DEF AddMessage
  <1>2. Append(doc.msgs, m) \in Seq(Message)
    BY <1>1 DEF Document
  <1> QED
    BY <1>1, <1>2 DEF AddMessage, Document

(* The messages a run can store.                                           *)
LEMMA MessagesTyped ==
  ASSUME NEW r \in Runs
  PROVE  UserMessage(r) \in Message /\ Notice(r) \in Message /\ Reply(r) \in Message
  BY DEF Message

(* A new session is a session.                                             *)
LEMMA EmptyTyped == EmptyDoc \in Document
  BY DEF EmptyDoc, Document

(* The first requests find the store well typed.                           *)
THEOREM InitTyped == Init => TypeOK
  <1> SUFFICES ASSUME Init PROVE TypeOK
    OBVIOUS
  <1>1. BufferTypeOK
    BY MaxFaultsAssumption DEF Init, BufferInit, BufferTypeOK
  <1>2. ReaderTypeOK
    BY DEF Init, ReaderInit, ReaderTypeOK, ReaderStates
  <1>3. StoreTypeOK
    BY EmptyTyped DEF Init, StoreTypeOK, EmptyPage
  <1>4. RunTypeOK
    BY MaxCrashesAssumption, MaxContentAssumption DEF Init, RunTypeOK, RunStates, Outcomes
  <1> QED
    BY <1>1, <1>2, <1>3, <1>4, TypeParts

(* A failing or succeeding command keeps the fault budget in range. *)
LEMMA FaultsTyped ==
  ASSUME faults \in 0 .. MaxFaults, Fails \/ Succeeds
  PROVE  faults' \in 0 .. MaxFaults
  BY MaxFaultsAssumption DEF Fails, Succeeds

(* A run's step that leaves the buffer alone leaves the readers well typed. *)
LEMMA QuietTyped ==
  ASSUME ReaderTypeOK, StoreTypeOK, Quiet, DOMAIN log \subseteq DOMAIN log'
  PROVE  /\ ReaderTypeOK'
         /\ page' \in [Loaders -> [state : {"idle", "loaded", "shown"},
                                   msgs : Seq(Message), active : BOOLEAN]]
  BY DEF ReaderTypeOK, StoreTypeOK, Quiet, readerVars

(* A run about to write its copy back holds one. *)
CopyHeld == \A r \in Runs : pc[r] = "upgrade" => copy[r] \in Document
TypeInv == TypeOK /\ CopyHeld

(* The steps of a run keep the buffer well typed ... *)
LEMMA RunStepBuffer ==
  ASSUME BufferTypeOK, NEW r \in Runs, RunStep(r)
  PROVE  BufferTypeOK' /\ DOMAIN log \subseteq DOMAIN log'
  <1>1. CASE SendRunStarted(r) \/ EmitContent(r) \/ SendTerminal(r)
    BY <1>1, AppendTyped DEF SendRunStarted, EmitContent, SendTerminal, Kinds
  <1>2. CASE \/ UpgradeSession(r) \/ AddUserMessage(r) \/ ReadMapping(r) \/ AgentReturns(r)
             \/ StoreNotice(r) \/ StoreReply(r) \/ StoreMapping(r)
    BY <1>2, FaultsTyped DEF BufferTypeOK, SameBuffer, CommandFails, UpgradeSession, Succeeds,
       AddUserMessage, ReadMapping, AgentReturns, StoreNotice, StoreReply, StoreMapping
  <1>3. CASE DropOldStream(r) \/ RaiseFlag(r) \/ LowerFlag(r)
    BY <1>3, FaultsTyped DEF BufferTypeOK, CommandFails, DropOldStream, RaiseFlag, LowerFlag,
       DropStream, SetFlag, ClearActiveRun
  <1> QED
    BY <1>1, <1>2, <1>3 DEF RunStep

(* ... the session and the copies of it ... *)
LEMMA RunStepStore ==
  ASSUME StoreTypeOK, CopyHeld, NEW r \in Runs, RunStep(r)
  PROVE  StoreTypeOK'
  <1> USE DEF StoreTypeOK, Quiet
  <1>1. CASE UpgradeSession(r)
    BY <1>1 DEF UpgradeSession, CopyHeld, Document
  <1>2. CASE AddUserMessage(r) \/ StoreNotice(r) \/ StoreReply(r)
    BY <1>2, AddMessageTyped, MessagesTyped DEF AddUserMessage, StoreNotice, StoreReply
  <1>3. CASE \/ ReadMapping(r) \/ DropOldStream(r) \/ RaiseFlag(r) \/ SendRunStarted(r)
             \/ EmitContent(r) \/ AgentReturns(r) \/ StoreMapping(r) \/ SendTerminal(r)
             \/ LowerFlag(r)
    BY <1>3 DEF ReadMapping, DropOldStream, RaiseFlag, SendRunStarted, EmitContent,
       AgentReturns, StoreMapping, SendTerminal, LowerFlag, docVars
  <1> QED
    BY <1>1, <1>2, <1>3 DEF RunStep

(* ... and what the runs remember. *)
LEMMA RunStepRuns ==
  ASSUME RunTypeOK, NEW r \in Runs, RunStep(r)
  PROVE  RunTypeOK'
  <1> USE DEF RunTypeOK, RunStates, Quiet, SameRun, Goes, docVars, historyVars, deleteVars
  <1>1. CASE UpgradeSession(r) \/ AddUserMessage(r)
    BY <1>1 DEF UpgradeSession, AddUserMessage
  <1>7. CASE ReadMapping(r)
    <2>1. (Agent[r] \in mapped) \in BOOLEAN
      OBVIOUS
    <2>2. sawMapping' \in [Runs -> BOOLEAN]
      BY <1>7, <2>1, Zenon DEF ReadMapping
    <2> QED
      BY <1>7, <2>2 DEF ReadMapping
  <1>2. CASE DropOldStream(r) \/ RaiseFlag(r) \/ LowerFlag(r)
    BY <1>2 DEF DropOldStream, RaiseFlag, LowerFlag
  <1>3. CASE SendRunStarted(r)
    BY <1>3 DEF SendRunStarted
  <1>8. CASE SendTerminal(r)
    <2> DEFINE next == IF r = Creator /\ r \in Naming /\ outcome[r] \in Persistable
                      THEN "get" ELSE "off"
    <2>1. next \in {"off", "get", "set"}
      OBVIOUS
    <2>2. naming' = [naming EXCEPT ![r] = next]
      BY <1>8 DEF SendTerminal
    <2> HIDE DEF next
    <2>3. naming' \in [Runs -> {"off", "get", "set"}]
      BY <2>1, <2>2
    <2> QED
      BY <1>8, <2>3 DEF SendTerminal
  <1>4. CASE EmitContent(r)
    <2>1. sent' \in [Runs -> 0 .. MaxContent]
      BY <1>4, MaxContentAssumption DEF EmitContent
    <2>2. failed' \in [Runs -> BOOLEAN] /\ pc' \in [Runs -> RunStates]
      BY <1>4 DEF EmitContent
    <2> QED
      BY <1>4, <2>1, <2>2 DEF EmitContent
  <1>5. CASE AgentReturns(r)
    BY <1>5, EndingsAssumption DEF AgentReturns, Outcomes
  <1>6. CASE StoreNotice(r) \/ StoreReply(r) \/ StoreMapping(r)
    BY <1>6 DEF StoreNotice, StoreReply, StoreMapping
  <1> QED
    BY <1>1, <1>2, <1>3, <1>4, <1>5, <1>6, <1>7, <1>8 DEF RunStep

(* Every step of a run keeps the type invariant. *)
LEMMA RunStepTyped ==
  ASSUME TypeInv, NEW r \in Runs, RunStep(r) PROVE TypeInv'
  <1>1. BufferTypeOK /\ ReaderTypeOK /\ StoreTypeOK /\ RunTypeOK /\ CopyHeld
    BY TypeParts DEF TypeInv
  <1>2. BufferTypeOK' /\ DOMAIN log \subseteq DOMAIN log'
    BY <1>1, RunStepBuffer
  <1>3. StoreTypeOK' /\ RunTypeOK'
    BY <1>1, RunStepStore, RunStepRuns
  <1>4. Quiet /\ copy' = copy
    BY DEF RunStep, UpgradeSession, AddUserMessage, ReadMapping, DropOldStream, RaiseFlag,
       SendRunStarted, EmitContent, AgentReturns, StoreNotice, StoreReply, StoreMapping,
       SendTerminal, LowerFlag
  <1>5. ReaderTypeOK'
    BY <1>1, <1>2, <1>4, QuietTyped
  <1>6. \A q \in Runs : pc'[q] = "upgrade" => pc[q] = "upgrade"
    BY <1>1 DEF RunTypeOK, RunStep, UpgradeSession, AddUserMessage, ReadMapping, DropOldStream,
       RaiseFlag, SendRunStarted, EmitContent, AgentReturns, StoreNotice, StoreReply,
       StoreMapping, SendTerminal, LowerFlag, Goes
  <1> QED
    BY <1>1, <1>2, <1>3, <1>4, <1>5, <1>6
       DEF TypeInv, TypeOK, StoreTypeOK, RunTypeOK, CopyHeld

(* The steps that take a request in, and those of the namer, do as well. *)
LEMMA RequestTyped ==
  ASSUME TypeInv, NEW r \in Runs, CreateSession(r) \/ LoadSession(r) \/ NamerStep(r)
  PROVE  TypeInv'
  <1> USE DEF Quiet, SameRun, SameBuffer, Goes
  <1>1. BufferTypeOK /\ ReaderTypeOK /\ StoreTypeOK /\ RunTypeOK /\ CopyHeld
    BY TypeParts DEF TypeInv
  <1>2. BufferTypeOK' /\ ReaderTypeOK'
    BY <1>1, FaultsTyped DEF BufferTypeOK, ReaderTypeOK, readerVars, CommandFails, Succeeds,
       CreateSession, LoadSession, NamerStep, NamerReads, NamerWrites, NamerFails
  <1>3. StoreTypeOK'
    BY <1>1, EmptyTyped DEF StoreTypeOK, docVars,
       CreateSession, LoadSession, NamerStep, NamerReads, NamerWrites, NamerFails
  <1>4. RunTypeOK'
    BY <1>1 DEF RunTypeOK, RunStates, docVars, historyVars, deleteVars,
       CreateSession, LoadSession, NamerStep, NamerReads, NamerWrites, NamerFails
  <1>5. CopyHeld'
    <2>1. CASE CreateSession(r)
      BY <1>1, <2>1, EmptyTyped DEF CopyHeld, StoreTypeOK, RunTypeOK, CreateSession
    <2>2. CASE LoadSession(r)
      BY <1>1, <2>2 DEF CopyHeld, StoreTypeOK, RunTypeOK, LoadSession
    <2>3. CASE NamerStep(r)
      BY <1>1, <2>3 DEF CopyHeld, StoreTypeOK, RunTypeOK, NamerStep, NamerReads, NamerWrites,
         NamerFails
    <2> QED
      BY <2>1, <2>2, <2>3
  <1> QED
    BY <1>2, <1>3, <1>4, <1>5 DEF TypeInv, TypeOK, StoreTypeOK, RunTypeOK

(* A reader's step keeps the type invariant. *)
LEMMA ReaderTyped ==
  ASSUME TypeInv, NEW k \in Readers, ReaderMoves(k) PROVE TypeInv'
  <1> USE DEF Goto
  <1>1. BufferTypeOK /\ ReaderTypeOK /\ StoreTypeOK /\ RunTypeOK /\ CopyHeld
    BY TypeParts DEF TypeInv
  <1>2. ReaderStep(k) /\ UNCHANGED <<docVars, runVars, crashes, page, deleteVars, historyVars>>
    BY DEF ReaderMoves
  <1>3. UNCHANGED <<flag, stream, log>> /\ (Fails \/ Succeeds)
    BY <1>2 DEF ReaderStep, Connect, CheckFlag, Read, BlockExpires, CheckIdle, Drop
  <1>4. BufferTypeOK'
    BY <1>1, <1>3, FaultsTyped DEF BufferTypeOK
  <1>5. ReaderTypeOK'
    <2>1. CASE Read(k)
      <3>1. Batch(k) \subseteq DOMAIN log /\ Batch(k) \subseteq Nat
        BY <1>1 DEF Batch, Pending, BufferTypeOK
      <3> QED
        BY <1>1, <2>1, <3>1 DEF Read, ReaderTypeOK, ReaderStates
    <2>2. CASE ~Read(k)
      BY <1>1, <1>2, <2>2 DEF ReaderStep, Connect, CheckFlag, BlockExpires, CheckIdle, Drop,
         ReaderTypeOK, ReaderStates
    <2> QED
      BY <2>1, <2>2
  <1> QED
    BY <1>1, <1>2, <1>4, <1>5 DEF TypeInv, TypeOK, StoreTypeOK, RunTypeOK, CopyHeld,
       docVars, runVars, deleteVars, historyVars

(* The environment's steps do: clients, keys, servers, deletion, page loads. *)
Environment ==
    \/ \E r \in Runs : Disconnect(r) \/ Crash(r)
    \/ \E l \in Loaders : LoadMessages(l) \/ LoadActive(l)
    \/ ExpireFlag \/ ExpireStream \/ ScanMappings \/ DeleteKeys

(* Departures, crashes, page loads, expiries and deletion keep the types.  *)
LEMMA EnvironmentTyped == ASSUME TypeInv, Environment PROVE TypeInv'
  <1> USE DEF bufferVars, readerVars, docVars, runVars, deleteVars, historyVars, Quiet
  <1>1. BufferTypeOK /\ ReaderTypeOK /\ StoreTypeOK /\ RunTypeOK /\ CopyHeld
    BY TypeParts DEF TypeInv
  <1>2. CASE \E r \in Runs : Disconnect(r) \/ Crash(r)
    <2>1. PICK r \in Runs : Disconnect(r) \/ Crash(r)
      BY <1>2
    <2>2. pc' \in [Runs -> RunStates] /\ connected' \in [Runs -> BOOLEAN]
      BY <1>1, <2>1 DEF Disconnect, Crash, RunTypeOK, RunStates
    <2>3. naming' \in [Runs -> {"off", "get", "set"}] /\ crashes' \in 0 .. MaxCrashes
      BY <1>1, <2>1, MaxCrashesAssumption DEF Disconnect, Crash, RunTypeOK
    <2>4. CopyHeld'
      BY <1>1, <2>1 DEF Disconnect, Crash, RunTypeOK, CopyHeld
    <2> QED
      BY <1>1, <2>1, <2>2, <2>3, <2>4 DEF Disconnect, Crash, BufferTypeOK, ReaderTypeOK,
         StoreTypeOK, RunTypeOK, TypeInv, TypeOK
  <1>3. CASE \E l \in Loaders : LoadMessages(l) \/ LoadActive(l)
    <2>1. PICK l \in Loaders : LoadMessages(l) \/ LoadActive(l)
      BY <1>3
    <2>2. HasActiveRun \in BOOLEAN
      BY DEF HasActiveRun
    <2> DEFINE Page == [state : {"idle", "loaded", "shown"},
                        msgs : Seq(Message), active : BOOLEAN]
    <2>3. page' \in [Loaders -> Page]
      <3>1. page \in [Loaders -> Page] /\ page[l] \in Page
        BY <1>1 DEF StoreTypeOK
      <3>2. CASE LoadMessages(l)
        <4>1. doc.msgs \in Seq(Message)
          BY <1>1, <3>2 DEF LoadMessages, StoreTypeOK, Document
        <4>2. [page[l] EXCEPT !.state = "loaded", !.msgs = doc.msgs] \in Page
          BY <3>1, <4>1
        <4> QED
          BY <3>1, <3>2, <4>2 DEF LoadMessages
      <3>3. CASE LoadActive(l)
        <4>1. \A b \in BOOLEAN : [page[l] EXCEPT !.state = "shown", !.active = b] \in Page
          BY <3>1
        <4>2. \E b \in BOOLEAN :
                 page' = [page EXCEPT ![l] = [@ EXCEPT !.state = "shown", !.active = b]]
          BY <2>2, <3>3 DEF LoadActive
        <4> QED
          BY <3>1, <4>1, <4>2
      <3> QED
        BY <2>1, <3>2, <3>3
    <2>4. BufferTypeOK'
      BY <1>1, <2>1, FaultsTyped DEF LoadMessages, LoadActive, BufferTypeOK, SameBuffer, Succeeds
    <2> QED
      BY <1>1, <2>1, <2>3, <2>4 DEF LoadMessages, LoadActive, ReaderTypeOK, SameBuffer,
         StoreTypeOK, RunTypeOK, TypeInv, TypeOK, CopyHeld
  <1>4. CASE ExpireFlag \/ ExpireStream
    BY <1>1, <1>4 DEF ExpireFlag, ExpireStream, BufferTypeOK, ReaderTypeOK, StoreTypeOK,
       RunTypeOK, TypeInv, TypeOK, CopyHeld
  <1>5. CASE ScanMappings \/ DeleteKeys
    BY <1>1, <1>5 DEF ScanMappings, DeleteKeys, BufferTypeOK, ReaderTypeOK, StoreTypeOK,
       RunTypeOK, TypeInv, TypeOK, CopyHeld
  <1> QED
    BY <1>2, <1>3, <1>4, <1>5 DEF Environment

(* Next by who takes the step.                                             *)
LEMMA NextCases ==
  ASSUME Next
  PROVE  \/ \E r \in Runs : RunStep(r)
         \/ \E r \in Runs : CreateSession(r) \/ LoadSession(r) \/ NamerStep(r)
         \/ \E k \in Readers : ReaderMoves(k)
         \/ Environment
  BY DEF Next, Environment

(* Nothing happening changes nothing.                                      *)
LEMMA StutterTyped == ASSUME TypeInv, UNCHANGED vars PROVE TypeInv'
  BY DEF TypeInv, CopyHeld, TypeOK, BufferTypeOK, ReaderTypeOK, vars, bufferVars, readerVars,
     docVars, runVars, deleteVars, historyVars

(* Every variable keeps its type, and a run about to upgrade holds a copy  *)
(* of the session.                                                         *)
THEOREM TypeInvariant == Spec => []TypeInv
  <1>1. Init => TypeInv
    BY InitTyped DEF TypeInv, CopyHeld, Init
  <1>2. TypeInv /\ [Next]_vars => TypeInv'
    BY NextCases, RunStepTyped, RequestTyped, ReaderTyped, EnvironmentTyped, StutterTyped
  <1> QED
    BY <1>1, <1>2, PTL DEF Spec

(* Every variable keeps its type. *)
THEOREM TypeCorrect == Spec => []TypeOK
  BY TypeInvariant, PTL DEF TypeInv

-----------------------------------------------------------------------------
(* What a run's place in Chat says about its reply.  No conjunct of        *)
(* FinishedMeansSaved or LatestIsSettled is inductive without it: the      *)
(* terminal event and the clear only look at failed, the flag and the      *)
(* order of the steps.                                                     *)
Unanswered == {"idle", "upgrade", "user", "mappingRead", "drop", "flag", "start", "stream"}
Raised == {"start", "stream", "rotation", "reply", "mapping", "finish", "clear", "done", "crashed"}

ReplyRecorded ==
    \A r \in Runs :
        /\ pc[r] \in Unanswered => outcome[r] = "none"
        /\ pc[r] = "mapping" => r \in saved
        /\ (pc[r] = "finish" /\ ~failed[r]) => r \in saved \/ outcome[r] = "empty"
        /\ (pc[r] \in {"mapping", "finish", "clear", "done"} /\ outcome[r] \in Persistable) =>
               r \in saved \/ failed[r]
FinishedIsOver ==
    \A i \in DOMAIN log :
        log[i].kind = "finished" => pc[log[i].run] \in {"clear", "done", "crashed"}
FlagIsLatest ==
    /\ flag \in {NoRun, latest}
    /\ latest # NoRun => pc[latest] \in Raised
    /\ (flag = NoRun /\ latest # NoRun /\ latest \notin LongRuns) =>
           pc[latest] \in {"done", "crashed"}

ChatInv == ReplyRecorded /\ FinishedIsOver /\ FinishedMeansSaved /\ FlagIsLatest

(* The log after AppendRunEvent: unchanged, or one entry longer. *)
LEMMA AppendedEntry ==
  ASSUME BufferTypeOK, NEW r \in Runs, NEW kind \in Kinds, AppendRunEvent(r, kind)
  PROVE  \A i \in DOMAIN log' :
            \/ i \in DOMAIN log /\ log'[i] = log[i]
            \/ log'[i] = [run |-> r, kind |-> kind]
  BY DEF AppendRunEvent, BufferTypeOK

(* An entry of the log is one of a run.                                    *)
LEMMA EntryTyped ==
  ASSUME BufferTypeOK PROVE \A i \in DOMAIN log : log[i].run \in Runs /\ log[i].kind \in Kinds
  <1>1. \A i \in DOMAIN log : log[i] \in Entry
    BY DEF BufferTypeOK
  <1> QED
    BY <1>1 DEF Entry

(* Every step keeps what a run's position says of its reply.               *)
LEMMA ReplyStep ==
  ASSUME TypeInv, ReplyRecorded, NEW r \in Runs, RunStep(r)
  PROVE  ReplyRecorded'
  <1> USE DEF Goes, SameRun, historyVars, Unanswered, Persistable
  <1>1. RunTypeOK
    BY TypeParts DEF TypeInv
  <1>2. CASE UpgradeSession(r) \/ AddUserMessage(r) \/ ReadMapping(r) \/ DropOldStream(r)
    BY <1>1, <1>2 DEF RunTypeOK, ReplyRecorded, UpgradeSession, AddUserMessage, ReadMapping,
       DropOldStream
  <1>3. CASE RaiseFlag(r) \/ SendRunStarted(r) \/ LowerFlag(r)
    BY <1>1, <1>3 DEF RunTypeOK, ReplyRecorded, RaiseFlag, SendRunStarted, LowerFlag
  <1>4. CASE EmitContent(r)
    BY <1>1, <1>4 DEF RunTypeOK, ReplyRecorded, EmitContent
  <1>5. CASE AgentReturns(r)
    <2>1. PICK how \in Endings :
            /\ outcome' = [outcome EXCEPT ![r] = how]
            /\ failed' = [failed EXCEPT ![r] = how \in {"none", "partial"}]
            /\ pc' = [pc EXCEPT ![r] = IF how = "rotated" THEN "rotation"
                                      ELSE IF how \in Persistable THEN "reply" ELSE "finish"]
      BY <1>5 DEF AgentReturns
    <2>2. how \in Outcomes /\ pc[r] = "stream" /\ saved' = saved
      BY <1>5, EndingsAssumption DEF AgentReturns
    <2>3. \A q \in Runs \ {r} :
             pc'[q] = pc[q] /\ outcome'[q] = outcome[q] /\ failed'[q] = failed[q]
      BY <1>1, <2>1 DEF RunTypeOK
    <2>4. /\ outcome'[r] = how
          /\ pc'[r] \in {"rotation", "reply", "finish"}
          /\ pc'[r] = "finish" => how \in {"none", "empty"}
          /\ failed'[r] <=> how \in {"none", "partial"}
      BY <1>1, <2>1, <2>2 DEF RunTypeOK, Outcomes
    <2> QED
      BY <2>2, <2>3, <2>4 DEF ReplyRecorded
  <1>6. CASE StoreNotice(r) \/ StoreReply(r) \/ StoreMapping(r)
    BY <1>1, <1>6 DEF RunTypeOK, ReplyRecorded, StoreNotice, StoreReply, StoreMapping
  <1>7. CASE SendTerminal(r)
    BY <1>1, <1>7 DEF RunTypeOK, ReplyRecorded, SendTerminal
  <1> QED
    BY <1>2, <1>3, <1>4, <1>5, <1>6, <1>7 DEF RunStep

(* Every step keeps what RUN_FINISHED says of its run.                     *)
LEMMA FinishedStep ==
  ASSUME TypeInv, ReplyRecorded, FinishedIsOver, FinishedMeansSaved, NEW r \in Runs, RunStep(r)
  PROVE  FinishedIsOver' /\ FinishedMeansSaved'
  <1> USE DEF Goes, SameRun, SameBuffer, historyVars
  <1>1. RunTypeOK /\ BufferTypeOK
    BY TypeParts DEF TypeInv
  <1>2. CASE SendTerminal(r)
    <2>1. \A i \in DOMAIN log' :
             \/ i \in DOMAIN log /\ log'[i] = log[i]
             \/ log'[i] = [run |-> r, kind |-> IF failed[r] THEN "error" ELSE "finished"]
      BY <1>1, <1>2, AppendedEntry DEF SendTerminal, Kinds
    <2> QED
      BY <1>1, <1>2, <2>1, EntryTyped DEF SendTerminal, RunTypeOK, ReplyRecorded,
         FinishedIsOver, FinishedMeansSaved
  <1>3. CASE SendRunStarted(r)
    <2>1. \A i \in DOMAIN log' :
             log'[i].kind = "finished" => i \in DOMAIN log /\ log'[i] = log[i]
      BY <1>1, <1>3, AppendedEntry DEF SendRunStarted, Kinds
    <2> QED
      BY <1>1, <1>3, <2>1, EntryTyped DEF SendRunStarted, RunTypeOK, FinishedIsOver,
         FinishedMeansSaved
  <1>4. CASE EmitContent(r)
    <2>1. \A i \in DOMAIN log' :
             log'[i].kind = "finished" => i \in DOMAIN log /\ log'[i] = log[i]
      BY <1>1, <1>4, AppendedEntry DEF EmitContent, Kinds
    <2> QED
      BY <1>1, <1>4, <2>1, EntryTyped DEF EmitContent, RunTypeOK, FinishedIsOver,
         FinishedMeansSaved
  <1>5. CASE \/ UpgradeSession(r) \/ AddUserMessage(r) \/ ReadMapping(r) \/ DropOldStream(r)
             \/ RaiseFlag(r) \/ AgentReturns(r) \/ StoreNotice(r) \/ StoreReply(r)
             \/ StoreMapping(r) \/ LowerFlag(r)
    BY <1>1, <1>5, EntryTyped DEF RunTypeOK, FinishedIsOver, FinishedMeansSaved, UpgradeSession,
       AddUserMessage, ReadMapping, DropOldStream, RaiseFlag, AgentReturns, StoreNotice,
       StoreReply, StoreMapping, LowerFlag
  <1> QED
    BY <1>2, <1>3, <1>4, <1>5 DEF RunStep

(* Every step keeps what the flag says of the run that raised it last.     *)
LEMMA FlagStep ==
  ASSUME TypeInv, FlagIsLatest, NEW r \in Runs, RunStep(r)
  PROVE  FlagIsLatest'
  <1> USE DEF Goes, SameBuffer, historyVars, Raised
  <1>1. RunTypeOK /\ flag \in Runs \cup {NoRun}
    BY TypeParts DEF TypeInv, BufferTypeOK
  <1>2. CASE RaiseFlag(r) \/ LowerFlag(r)
    BY <1>1, <1>2, NoRunAssumption DEF RunTypeOK, FlagIsLatest, RaiseFlag, LowerFlag, SetFlag,
       ClearActiveRun
  <1>3. CASE \/ UpgradeSession(r) \/ AddUserMessage(r) \/ ReadMapping(r) \/ DropOldStream(r)
             \/ SendRunStarted(r) \/ EmitContent(r) \/ AgentReturns(r) \/ StoreNotice(r)
             \/ StoreReply(r) \/ StoreMapping(r) \/ SendTerminal(r)
    BY <1>1, <1>3 DEF RunTypeOK, FlagIsLatest, UpgradeSession, AddUserMessage, ReadMapping,
       DropOldStream, SendRunStarted, EmitContent, AgentReturns, StoreNotice, StoreReply,
       StoreMapping, SendTerminal
  <1> QED
    BY <1>2, <1>3 DEF RunStep

(* The steps that are not a run's: only requests, crashes and expiry touch *)
(* anything ChatInv speaks of.                                             *)
LEMMA OtherStep ==
  ASSUME TypeInv, ChatInv,
         \/ \E r \in Runs : CreateSession(r) \/ LoadSession(r) \/ NamerStep(r)
         \/ \E k \in Readers : ReaderMoves(k)
         \/ Environment
  PROVE  ChatInv'
  <1> USE DEF ChatInv, docVars, runVars, historyVars, deleteVars, bufferVars
  <1>1. RunTypeOK /\ BufferTypeOK
    BY TypeParts DEF TypeInv
  <1>2. CASE \E r \in Runs : CreateSession(r) \/ LoadSession(r) \/ NamerStep(r)
    <2>1. PICK r \in Runs : CreateSession(r) \/ LoadSession(r) \/ NamerStep(r)
      BY <1>2
    <2>2. UNCHANGED <<flag, log, outcome, failed, saved, latest>>
      BY <2>1 DEF CreateSession, LoadSession, NamerStep, NamerReads, NamerWrites, NamerFails,
         SameBuffer
    <2>3. \A q \in Runs : \/ pc'[q] = pc[q]
                          \/ pc[q] = "idle" /\ pc'[q] \in {"upgrade", "user", "rejected"}
      BY <1>1, <2>1 DEF RunTypeOK, Goes, CreateSession, LoadSession, NamerStep, NamerReads,
         NamerWrites, NamerFails
    <2>4. ReplyRecorded'
      BY <2>2, <2>3 DEF ReplyRecorded, Unanswered
    <2>5. FinishedIsOver' /\ FinishedMeansSaved'
      BY <1>1, <2>2, <2>3, EntryTyped DEF FinishedIsOver, FinishedMeansSaved
    <2>6. FlagIsLatest'
      BY <1>1, <2>2, <2>3 DEF FlagIsLatest, RunTypeOK, Raised
    <2> QED
      BY <2>4, <2>5, <2>6
  <1>3. CASE \E k \in Readers : ReaderMoves(k)
    BY <1>3 DEF ReaderMoves, ReaderStep, Connect, CheckFlag, Read, BlockExpires, CheckIdle, Drop,
       Goto, ReplyRecorded, FinishedIsOver, FinishedMeansSaved, FlagIsLatest
  <1>4. CASE Environment
    <2>1. CASE \E r \in Runs : Disconnect(r) \/ Crash(r)
      <3>1. PICK r \in Runs : Disconnect(r) \/ Crash(r)
        BY <2>1
      <3>2. /\ UNCHANGED <<flag, log, outcome, failed, saved, latest>>
            /\ \A q \in Runs : pc'[q] = pc[q] \/ pc'[q] = "crashed"
        BY <1>1, <3>1 DEF Disconnect, Crash, RunTypeOK
      <3>3. ReplyRecorded'
        BY <3>2 DEF ReplyRecorded, Unanswered
      <3>4. FinishedIsOver' /\ FinishedMeansSaved' /\ FlagIsLatest'
        BY <1>1, <3>2, EntryTyped DEF FinishedIsOver, FinishedMeansSaved, FlagIsLatest,
           RunTypeOK, Raised
      <3> QED
        BY <3>3, <3>4
    <2>2. CASE ExpireFlag
      <3>1. UNCHANGED <<log, outcome, failed, saved, latest, pc>> /\ flag' = NoRun
        BY <2>2 DEF ExpireFlag
      <3>2. flag = latest /\ flag \in Runs /\ (flag \in LongRuns \/ pc[flag] \in RunStopped)
        BY <1>1, <2>2 DEF ExpireFlag, HasActiveRun, FlagIsLatest, BufferTypeOK
      <3>3. FlagIsLatest'
        BY <3>1, <3>2, NoRunAssumption DEF FlagIsLatest, Raised, RunStopped
      <3> QED
        BY <3>1, <3>3 DEF ReplyRecorded, FinishedIsOver, FinishedMeansSaved
    <2>3. CASE \/ \E l \in Loaders : LoadMessages(l) \/ LoadActive(l)
               \/ ExpireStream \/ ScanMappings \/ DeleteKeys
      BY <2>3 DEF LoadMessages, LoadActive, ExpireStream, ScanMappings, DeleteKeys, SameBuffer,
         ReplyRecorded, FinishedIsOver, FinishedMeansSaved, FlagIsLatest
    <2> QED
      BY <1>4, <2>1, <2>2, <2>3 DEF Environment
  <1> QED
    BY <1>2, <1>3, <1>4

(* Every step keeps the invariant.                                         *)
LEMMA ChatInvStep == ASSUME TypeInv, ChatInv, [Next]_vars PROVE ChatInv'
  <1>1. CASE \E r \in Runs : RunStep(r)
    BY <1>1, ReplyStep, FinishedStep, FlagStep DEF ChatInv
  <1>2. CASE UNCHANGED vars
    BY <1>2 DEF vars, bufferVars, runVars, historyVars, ChatInv, ReplyRecorded, FinishedIsOver,
       FinishedMeansSaved, FlagIsLatest
  <1> QED
    BY <1>1, <1>2, NextCases, OtherStep

(* In every state the replies, the terminal events and the flag agree on   *)
(* which runs are over and what is stored of them.                         *)
THEOREM ChatInvariant == Spec => []ChatInv
  <1>1. Init => ChatInv
    BY NoRunAssumption DEF Init, BufferInit, ChatInv, ReplyRecorded, FinishedIsOver,
       FinishedMeansSaved, FlagIsLatest, Unanswered, Persistable
  <1>2. TypeInv /\ ChatInv /\ [Next]_vars => ChatInv'
    BY ChatInvStep
  <1> QED
    BY <1>1, <1>2, TypeInvariant, PTL DEF Spec

(* RUN_FINISHED implies an acknowledged reply, whatever the number of      *)
(* overlapping runs, failures, crashes and departing clients.              *)
THEOREM FinishedReplies == Spec => []FinishedMeansSaved
  BY ChatInvariant, PTL DEF ChatInv

(* When no run is active, the run that raised the flag last is settled.    *)
THEOREM LatestSettled == Spec => []LatestIsSettled
  <1>1. TypeInv /\ ChatInv => LatestIsSettled
    <2> SUFFICES ASSUME TypeInv, ChatInv, ~HasActiveRun, latest # NoRun,
                        latest \notin LongRuns, pc[latest] # "crashed"
                 PROVE  /\ pc[latest] = "done"
                        /\ outcome[latest] \in Persistable => latest \in saved \/ failed[latest]
      BY DEF LatestIsSettled
    <2>1. latest \in Runs
      BY TypeParts DEF TypeInv, RunTypeOK
    <2>2. pc[latest] = "done"
      BY DEF ChatInv, FlagIsLatest, HasActiveRun
    <2> QED
      BY <2>1, <2>2 DEF ChatInv, ReplyRecorded
  <1> QED
    BY <1>1, TypeInvariant, ChatInvariant, PTL

(* No step takes the flag of a run at work but its own clear or a newer    *)
(* run's set.                                                              *)
THEOREM FlagOnlyToNewer == Spec => FlagLostOnlyToNewer
  <1> DEFINE Kept ==
        \A r \in Runs \ LongRuns :
            (flag = r /\ flag' # r /\ pc[r] \notin RunStopped) =>
                \/ pc[r] = "clear" /\ pc'[r] = "done"
                \/ \E q \in Runs \ {r} : pc[q] = "flag" /\ flag' = q
  <1>1. TypeInv /\ [Next]_vars => [Kept]_vars
    <2> SUFFICES ASSUME TypeInv, Next, NEW r \in Runs \ LongRuns,
                        flag = r, flag' # r, pc[r] \notin RunStopped
                 PROVE  \/ pc[r] = "clear" /\ pc'[r] = "done"
                        \/ \E q \in Runs \ {r} : pc[q] = "flag" /\ flag' = q
      OBVIOUS
    <2> USE DEF SameBuffer, bufferVars
    <2>1. pc \in [Runs -> RunStates]
      BY TypeParts DEF TypeInv, RunTypeOK
    <2>2. CASE \E q \in Runs : RunStep(q)
      <3>1. PICK q \in Runs : RunStep(q)
        BY <2>2
      <3>2. RaiseFlag(q) \/ LowerFlag(q)
        BY <3>1 DEF RunStep, UpgradeSession, AddUserMessage, ReadMapping, DropOldStream,
           SendRunStarted, EmitContent, AgentReturns, StoreNotice, StoreReply, StoreMapping,
           SendTerminal
      <3> QED
        BY <2>1, <3>2 DEF RaiseFlag, LowerFlag, SetFlag, ClearActiveRun, Goes
    <2>3. ~\E q \in Runs : CreateSession(q) \/ LoadSession(q) \/ NamerStep(q)
      BY DEF CreateSession, LoadSession, NamerStep, NamerReads, NamerWrites, NamerFails
    <2>4. ~\E k \in Readers : ReaderMoves(k)
      BY DEF ReaderMoves, ReaderStep, Connect, CheckFlag, Read, BlockExpires, CheckIdle, Drop, Goto
    <2>5. ~Environment
      BY DEF Environment, Disconnect, Crash, LoadMessages, LoadActive, ExpireFlag, ExpireStream,
         ScanMappings, DeleteKeys
    <2> QED
      BY <2>2, <2>3, <2>4, <2>5, NextCases
  <1> QED
    BY <1>1, TypeInvariant, PTL DEF Spec, FlagLostOnlyToNewer

-----------------------------------------------------------------------------
(***************************************************************************)
(* Questions, replies and mapped agent sessions.                           *)
(***************************************************************************)

(* An agent's session is mapped in the step after its reply was stored,    *)
(* and how the agent's call ended does not change any more.                *)
AnsweredFirst ==
    /\ \A r \in Runs :
         /\ pc[r] = "reply" => outcome[r] \in Persistable
         /\ pc[r] = "rotation" => outcome[r] = "rotated"
         /\ pc[r] = "mapping" => r \in saved /\ outcome[r] \in {"reply", "rotated"}
         /\ r \in saved => pc[r] \in {"mapping", "finish", "clear", "done", "crashed"}
    /\ MappedMeansAnswered

(* The others wait for the run that creates the session; a session is      *)
(* written back by a run that upgrades it, before it asks anything, or     *)
(* that names it, once it is over.                                         *)
CreatorFirst ==
    (Creator # NoRun /\ pc[Creator] = "idle") => \A r \in Runs : pc[r] = "idle"
WritesBack ==
    \A r \in Runs :
        /\ pc[r] = "upgrade" => r \in Upgrading
        /\ naming[r] # "off" => r \in Naming /\ pc[r] \in {"clear", "done"}

(* A run goes on to its agent with its question in the session, ...        *)
Asking == {"mappingRead", "drop", "flag", "start", "stream", "rotation", "reply"}
Asked == \A r \in Runs : (pc[r] \in Asking /\ doc # NoDoc) => Has(doc, UserMessage(r))

(* ... and every copy of the session is one it once was.                   *)
CopiesInOrder == \A r \in Runs : copy[r] # NoDoc => AnswersInOrder(copy[r].msgs)

OrderInv == CreatorFirst /\ WritesBack /\ Asked /\ CopiesInOrder /\ QuestionPrecedesReply

(***************************************************************************)
(* The common message of a broadcast, and the stream's owner.              *)
(***************************************************************************)
StoredOnce(msgs) ==
    \A i, j \in DOMAIN msgs :
        (i < j /\ j <= i + Lookback /\ msgs[i].role = "user") => msgs[i] # msgs[j]

OnceInv ==
    /\ doc # NoDoc => StoredOnce(doc.msgs)
    /\ \A r \in Runs : copy[r] # NoDoc => StoredOnce(copy[r].msgs)

(* A run has no event before it starts, and no reader is past the log.     *)
Unstarted == {"idle", "upgrade", "user", "mappingRead", "drop", "flag", "start"}
Events(r) == {i \in DOMAIN log : log[i].run = r}
Silent == \A r \in Runs : pc[r] \in Unstarted => Events(r) = {}
InLog == \A k \in Readers : last[k] <= Len(log)

(* Of the owner's events the stream holds all while the owner emits, and   *)
(* afterwards all or none: no trim is due and another run's DEL takes the  *)
(* ownership with it; ...                                                  *)
Replayable == owner # NoRun /\ owner \notin LongRuns /\ Len(log) <= StreamCap
Buffered == pc[owner] \in Emitting \/ Events(owner) \cap stream # {}
OwnerBuffered == Replayable /\ Buffered => Events(owner) \subseteq stream

(* ... so a reader that reads on, or has read to the owner's end, has them *)
(* up to its position.                                                     *)
OwnerRead ==
    \A k \in Readers :
        (Replayable /\ (Buffered \/ (rpc[k] = "terminal" /\ log[last[k]].run = owner))) =>
            {i \in Events(owner) : i <= last[k]} \subseteq got[k]

ReplayInv == Silent /\ InLog /\ OwnerBuffered /\ OwnerRead

-----------------------------------------------------------------------------
(* What the steps that are not a run's leave alone: how its call ended and *)
(* what is saved; a run only leaves its first state, or crashes.           *)
LEMMA OthersQuiet ==
  ASSUME TypeInv,
         \/ \E r \in Runs : CreateSession(r) \/ LoadSession(r) \/ NamerStep(r)
         \/ \E k \in Readers : ReaderMoves(k)
         \/ Environment
         \/ UNCHANGED vars
  PROVE  /\ UNCHANGED <<outcome, saved>> /\ mapped' \subseteq mapped
         /\ \A q \in Runs : \/ pc'[q] = pc[q]
                            \/ pc[q] = "idle" /\ pc'[q] \in {"upgrade", "user", "rejected"}
                            \/ pc[q] # "idle" /\ pc'[q] = "crashed"
  <1>1. RunTypeOK
    BY TypeParts DEF TypeInv
  <1>2. CASE \E r \in Runs : CreateSession(r) \/ LoadSession(r) \/ NamerStep(r)
    BY <1>1, <1>2 DEF RunTypeOK, Goes, CreateSession, LoadSession, NamerStep, NamerReads,
       NamerWrites, NamerFails, docVars, historyVars
  <1>3. CASE \E k \in Readers : ReaderMoves(k)
    BY <1>3 DEF ReaderMoves, docVars, runVars, historyVars
  <1>4. CASE Environment
    BY <1>1, <1>4 DEF RunTypeOK, Environment, Disconnect, Crash, LoadMessages, LoadActive, ExpireFlag,
       ExpireStream, ScanMappings, DeleteKeys, docVars, runVars, historyVars
  <1>5. CASE UNCHANGED vars
    BY <1>5 DEF vars, docVars, runVars, historyVars
  <1> QED
    BY <1>2, <1>3, <1>4, <1>5

(* Every step keeps what is mapped to what was answered.                   *)
LEMMA AnsweredStep ==
  ASSUME TypeInv, AnsweredFirst, [Next]_vars
  PROVE  AnsweredFirst'
  <1> USE DEF AnsweredFirst
  <1>1. RunTypeOK
    BY TypeParts DEF TypeInv
  <1>2. ASSUME NEW r \in Runs, RunStep(r) PROVE AnsweredFirst'
    <2> USE DEF Goes, SameRun, historyVars, docVars, Persistable, MappedMeansAnswered
    <2>1. CASE \/ UpgradeSession(r) \/ AddUserMessage(r) \/ ReadMapping(r) \/ DropOldStream(r)
               \/ RaiseFlag(r) \/ SendRunStarted(r) \/ LowerFlag(r)
      <3>1. UNCHANGED <<outcome, saved, mapped>>
        BY <2>1 DEF UpgradeSession, AddUserMessage, ReadMapping, DropOldStream, RaiseFlag,
           SendRunStarted, LowerFlag
      <3>2. \A q \in Runs : \/ pc'[q] = pc[q]
                            \/ /\ pc'[q] \notin {"reply", "rotation", "mapping"}
                               /\ pc[q] \in {"upgrade", "user", "mappingRead", "drop", "flag", "start", "clear"}
                               /\ pc[q] = "clear" => pc'[q] = "done"
        BY <1>1, <2>1 DEF RunTypeOK, UpgradeSession, AddUserMessage, ReadMapping, DropOldStream,
           RaiseFlag, SendRunStarted, LowerFlag
      <3> QED
        BY <3>1, <3>2
    <2>2. CASE EmitContent(r)
      BY <1>1, <2>2 DEF RunTypeOK, EmitContent
    <2>3. CASE AgentReturns(r)
      <3>1. PICK how \in Endings :
              /\ outcome' = [outcome EXCEPT ![r] = how]
              /\ pc' = [pc EXCEPT ![r] = IF how = "rotated" THEN "rotation"
                                        ELSE IF how \in Persistable THEN "reply" ELSE "finish"]
        BY <2>3 DEF AgentReturns
      <3>2. pc[r] = "stream" /\ UNCHANGED <<saved, mapped>>
        BY <2>3 DEF AgentReturns
      <3>3. \A q \in Runs \ {r} : pc'[q] = pc[q] /\ outcome'[q] = outcome[q]
        BY <1>1, <3>1 DEF RunTypeOK
      <3>4. /\ outcome'[r] = how /\ pc'[r] \in {"rotation", "reply", "finish"}
            /\ pc'[r] = "rotation" => how = "rotated"
            /\ pc'[r] = "reply" => how \in Persistable
        BY <1>1, <3>1 DEF RunTypeOK
      <3>5. r \notin saved
        BY <3>2
      <3>6. MappedMeansAnswered'
        BY <1>1, <3>2, <3>3, <3>5 DEF RunTypeOK
      <3> QED
        BY <3>2, <3>3, <3>4, <3>5, <3>6
    <2>4. CASE StoreNotice(r)
      BY <1>1, <2>4 DEF RunTypeOK, StoreNotice
    <2>5. CASE StoreReply(r)
      <3>1. UNCHANGED <<outcome, mapped>> /\ saved \subseteq saved' /\ saved' \subseteq saved \cup {r}
        BY <2>5 DEF StoreReply
      <3>2. \/ saved' = saved /\ pc' = [pc EXCEPT ![r] = "finish"]
            \/ /\ saved' = saved \cup {r}
               /\ pc' = [pc EXCEPT ![r] = IF outcome[r] = "partial" THEN "finish" ELSE "mapping"]
        BY <2>5 DEF StoreReply
      <3>3. pc[r] = "reply" /\ outcome[r] \in Persistable
        BY <2>5 DEF StoreReply
      <3>4. \A q \in Runs \ {r} : pc'[q] = pc[q]
        BY <1>1, <3>2 DEF RunTypeOK
      <3>5. \/ pc'[r] = "finish"
            \/ pc'[r] = "mapping" /\ saved' = saved \cup {r} /\ outcome[r] # "partial"
        BY <1>1, <3>2 DEF RunTypeOK
      <3>6. MappedMeansAnswered'
        BY <3>1
      <3> QED
        BY <3>1, <3>3, <3>4, <3>5, <3>6
    <2>6. CASE StoreMapping(r)
      <3>1. UNCHANGED <<outcome, saved>> /\ mapped' \subseteq mapped \cup {Agent[r]} /\ pc[r] = "mapping"
        BY <2>6 DEF StoreMapping
      <3>2. \A q \in Runs : pc'[q] = IF q = r THEN "finish" ELSE pc[q]
        BY <1>1, <2>6 DEF RunTypeOK, StoreMapping
      <3>3. MappedMeansAnswered'
        BY <3>1
      <3> QED
        BY <3>1, <3>2, <3>3
    <2>7. CASE SendTerminal(r)
      BY <1>1, <2>7 DEF RunTypeOK, SendTerminal
    <2> QED
      BY <1>2, <2>1, <2>2, <2>3, <2>4, <2>5, <2>6, <2>7 DEF RunStep
  <1>3. CASE ~\E r \in Runs : RunStep(r)
    <2>1. /\ UNCHANGED <<outcome, saved>> /\ mapped' \subseteq mapped
          /\ \A q \in Runs : \/ pc'[q] = pc[q]
                             \/ pc[q] = "idle" /\ pc'[q] \in {"upgrade", "user", "rejected"}
                             \/ pc[q] # "idle" /\ pc'[q] = "crashed"
      BY <1>3, NextCases, OthersQuiet
    <2>2. MappedMeansAnswered'
      BY <2>1 DEF MappedMeansAnswered
    <2> QED
      BY <2>1, <2>2
  <1> QED
    BY <1>2, <1>3

(* An agent is mapped to a session of its own only after one of its runs   *)
(* ended without an error and stored its reply (persistTurnResult,         *)
(* handlers/proxy.go): a failed, partial or lost answer leaves no agent    *)
(* session for the next turn to resume.                                    *)
THEOREM MappedAnswered == Spec => []MappedMeansAnswered
  <1>1. Init => AnsweredFirst
    BY DEF Init, AnsweredFirst, MappedMeansAnswered
  <1>2. TypeInv /\ AnsweredFirst /\ [Next]_vars => AnsweredFirst'
    BY AnsweredStep
  <1>3. AnsweredFirst => MappedMeansAnswered
    BY DEF AnsweredFirst
  <1> QED
    BY <1>1, <1>2, <1>3, TypeInvariant, PTL DEF Spec

-----------------------------------------------------------------------------
(* What AddMessage makes of a session: nothing new is said, or one message *)
(* more at its end.                                                        *)
LEMMA Added ==
  ASSUME doc \in Document \cup {NoDoc}, NEW m \in Message, AddMessage(m)
  PROVE  /\ doc \in Document /\ doc' \in Document /\ doc # NoDoc /\ doc' # NoDoc
         /\ \/ doc' = doc /\ Duplicate(doc, m)
            \/ /\ ~Duplicate(doc, m) /\ Len(doc.msgs) \in Nat
               /\ DOMAIN doc.msgs = 1 .. Len(doc.msgs)
               /\ DOMAIN doc'.msgs = 1 .. Len(doc.msgs) + 1
               /\ \A i \in DOMAIN doc.msgs : doc'.msgs[i] = doc.msgs[i]
               /\ doc'.msgs[Len(doc.msgs) + 1] = m
  <1>1. doc \in Document /\ doc' \in Document /\ doc # NoDoc /\ doc' # NoDoc
    BY AddMessageTyped, NoDocAssumption DEF AddMessage
  <1>2. CASE Duplicate(doc, m)
    BY <1>1, <1>2 DEF AddMessage
  <1>3. CASE ~Duplicate(doc, m)
    <2>1. doc.msgs \in Seq(Message)
      BY <1>1 DEF Document
    <2>2. doc' = [doc EXCEPT !.msgs = Append(doc.msgs, m)]
      BY <1>3 DEF AddMessage
    <2>3. doc'.msgs = Append(doc.msgs, m)
      BY <1>1, <2>2 DEF Document
    <2> QED
      BY <1>1, <1>3, <2>1, <2>3
  <1> QED
    BY <1>2, <1>3

(* So what is in the session stays there, the new message included, ...    *)
LEMMA AddedHas ==
  ASSUME doc \in Document \cup {NoDoc}, NEW m \in Message, AddMessage(m)
  PROVE  Has(doc', m) /\ \A x : Has(doc, x) => Has(doc', x)
  <1>1. /\ doc \in Document /\ doc' \in Document /\ doc # NoDoc /\ doc' # NoDoc
        /\ \/ doc' = doc /\ Duplicate(doc, m)
           \/ /\ Len(doc.msgs) \in Nat
              /\ DOMAIN doc.msgs = 1 .. Len(doc.msgs)
              /\ DOMAIN doc'.msgs = 1 .. Len(doc.msgs) + 1
              /\ \A i \in DOMAIN doc.msgs : doc'.msgs[i] = doc.msgs[i]
              /\ doc'.msgs[Len(doc.msgs) + 1] = m
    BY Added
  <1>2. CASE doc' = doc /\ Duplicate(doc, m)
    BY <1>1, <1>2 DEF Has, Duplicate
  <1>3. CASE doc' # doc
    <2>1. Len(doc.msgs) + 1 \in DOMAIN doc'.msgs
      BY <1>1, <1>3
    <2>2. Has(doc', m)
      BY <1>1, <1>3, <2>1 DEF Has
    <2>3. ASSUME NEW x, Has(doc, x) PROVE Has(doc', x)
      <3>1. PICK i \in DOMAIN doc.msgs : doc.msgs[i] = x
        BY <2>3 DEF Has
      <3>2. i \in DOMAIN doc'.msgs /\ doc'.msgs[i] = x
        BY <1>1, <1>3, <3>1
      <3> QED
        BY <1>1, <3>2 DEF Has
    <2> QED
      BY <2>2, <2>3
  <1> QED
    BY <1>1, <1>2, <1>3 DEF Has, Duplicate

(* ... answers stay in order when a reply comes after its question, ...    *)
LEMMA AddedInOrder ==
  ASSUME doc \in Document \cup {NoDoc}, NEW m \in Message, AddMessage(m), AnswersInOrder(doc.msgs),
         \A r \in Runs : m = Reply(r) => Has(doc, UserMessage(r))
  PROVE  AnswersInOrder(doc'.msgs)
  <1>1. /\ doc # NoDoc
        /\ \/ doc' = doc
           \/ /\ Len(doc.msgs) \in Nat
              /\ DOMAIN doc.msgs = 1 .. Len(doc.msgs)
              /\ DOMAIN doc'.msgs = 1 .. Len(doc.msgs) + 1
              /\ \A i \in DOMAIN doc.msgs : doc'.msgs[i] = doc.msgs[i]
              /\ doc'.msgs[Len(doc.msgs) + 1] = m
    BY Added
  <1>2. CASE doc' = doc
    BY <1>2
  <1>3. CASE doc' # doc
    <2> SUFFICES ASSUME NEW r \in Runs, NEW j \in DOMAIN doc'.msgs, doc'.msgs[j] = Reply(r)
                 PROVE  \E i \in 1 .. j : doc'.msgs[i] = UserMessage(r)
      BY DEF AnswersInOrder
    <2>1. CASE j \in DOMAIN doc.msgs
      <3>1. PICK i \in 1 .. j : doc.msgs[i] = UserMessage(r)
        BY <1>1, <1>3, <2>1 DEF AnswersInOrder
      <3>2. i \in DOMAIN doc.msgs
        BY <1>1, <1>3, <2>1, <3>1
      <3> QED
        BY <1>1, <1>3, <3>1, <3>2
    <2>2. CASE j = Len(doc.msgs) + 1
      <3>1. PICK i \in DOMAIN doc.msgs : doc.msgs[i] = UserMessage(r)
        BY <1>1, <1>3, <2>2 DEF Has
      <3>2. i \in 1 .. j /\ doc'.msgs[i] = UserMessage(r)
        BY <1>1, <1>3, <2>2, <3>1
      <3> QED
        BY <3>2
    <2> QED
      BY <1>1, <1>3, <2>1, <2>2
  <1> QED
    BY <1>2, <1>3

(* ... and a user's message is not repeated within the lookback.           *)
LEMMA AddedOnce ==
  ASSUME doc \in Document \cup {NoDoc}, NEW m \in Message, AddMessage(m), StoredOnce(doc.msgs)
  PROVE  StoredOnce(doc'.msgs)
  <1>1. /\ doc # NoDoc
        /\ \/ doc' = doc
           \/ /\ ~Duplicate(doc, m) /\ Len(doc.msgs) \in Nat
              /\ DOMAIN doc.msgs = 1 .. Len(doc.msgs)
              /\ DOMAIN doc'.msgs = 1 .. Len(doc.msgs) + 1
              /\ \A i \in DOMAIN doc.msgs : doc'.msgs[i] = doc.msgs[i]
              /\ doc'.msgs[Len(doc.msgs) + 1] = m
    BY Added
  <1>2. CASE doc' = doc
    BY <1>2
  <1>3. CASE doc' # doc
    <2> SUFFICES ASSUME NEW i \in DOMAIN doc'.msgs, NEW j \in DOMAIN doc'.msgs, i < j, j <= i + Lookback,
                        doc'.msgs[i].role = "user", doc'.msgs[i] = doc'.msgs[j]
                 PROVE  FALSE
      BY DEF StoredOnce
    <2>1. i \in DOMAIN doc.msgs
      BY <1>1, <1>3
    <2>2. CASE j \in DOMAIN doc.msgs
      BY <1>1, <1>3, <2>1, <2>2 DEF StoredOnce
    <2>3. CASE j = Len(doc.msgs) + 1
      <3>1. m.role = "user" /\ doc.msgs[i] = m /\ i > Len(doc.msgs) - Lookback
        BY <1>1, <1>3, <2>1, <2>3 DEF Lookback
      <3> QED
        BY <1>1, <1>3, <2>1, <3>1 DEF Duplicate
    <2> QED
      BY <1>1, <1>3, <2>2, <2>3
  <1> QED
    BY <1>2, <1>3

(* How a step changes the session: it is written back whole, as it was     *)
(* read, or one message is added to it.                                    *)
Rewritten(r) ==
    \/ UpgradeSession(r) /\ copy[r] \in Document /\ doc' = [copy[r] EXCEPT !.multi = TRUE]
    \/ NamerWrites(r) /\ doc' = copy[r]

Adds(r) ==
    \/ AddUserMessage(r) /\ AddMessage(UserMessage(r))
    \/ StoreNotice(r) /\ AddMessage(Notice(r))
    \/ StoreReply(r) /\ AddMessage(Reply(r))

LEMMA DocCases ==
  ASSUME TypeInv, [Next]_vars
  PROVE  \/ doc' = doc \/ doc' = NoDoc
         \/ \E r \in Runs : CreateSession(r) /\ doc' = EmptyDoc
         \/ \E r \in Runs : Rewritten(r)
         \/ \E r \in Runs : Adds(r)
  <1>1. CopyHeld
    BY DEF TypeInv
  <1>2. ASSUME NEW r \in Runs, RunStep(r) PROVE doc' = doc \/ Rewritten(r) \/ Adds(r)
    BY <1>1, <1>2 DEF RunStep, Rewritten, Adds, CopyHeld, UpgradeSession, AddUserMessage, ReadMapping,
       DropOldStream, RaiseFlag, SendRunStarted, EmitContent, AgentReturns, StoreNotice,
       StoreReply, StoreMapping, SendTerminal, LowerFlag, docVars
  <1>3. ASSUME NEW r \in Runs, CreateSession(r) \/ LoadSession(r) \/ NamerStep(r)
        PROVE  doc' = doc \/ (CreateSession(r) /\ doc' = EmptyDoc) \/ Rewritten(r)
    BY <1>3 DEF CreateSession, LoadSession, NamerStep, NamerReads, NamerWrites, NamerFails,
       Rewritten, docVars
  <1>4. (\E k \in Readers : ReaderMoves(k)) => doc' = doc
    BY DEF ReaderMoves, docVars
  <1>5. Environment => doc' = doc \/ doc' = NoDoc
    BY DEF Environment, Disconnect, Crash, LoadMessages, LoadActive, ExpireFlag,
       ExpireStream, ScanMappings, DeleteKeys, docVars
  <1>6. UNCHANGED vars => doc' = doc
    BY DEF vars, docVars
  <1> QED
    BY <1>2, <1>3, <1>4, <1>5, <1>6, NextCases

(* A run's copy, and a page, is the session as it is at that moment.       *)
LEMMA CopyCases ==
  ASSUME TypeInv, [Next]_vars
  PROVE  /\ \A r \in Runs : copy'[r] \in {copy[r], EmptyDoc, doc}
         /\ \A l \in Loaders : \/ page'[l].msgs = page[l].msgs
                               \/ doc # NoDoc /\ page'[l].msgs = doc.msgs
  <1>1. StoreTypeOK
    BY TypeParts DEF TypeInv
  <1>2. ASSUME NEW r \in Runs, RunStep(r) PROVE UNCHANGED <<copy, page>>
    BY <1>2 DEF RunStep, Quiet, UpgradeSession, AddUserMessage, ReadMapping, DropOldStream, RaiseFlag,
       SendRunStarted, EmitContent, AgentReturns, StoreNotice, StoreReply, StoreMapping,
       SendTerminal, LowerFlag
  <1>3. ASSUME NEW q \in Runs, CreateSession(q) \/ LoadSession(q) \/ NamerStep(q)
        PROVE  UNCHANGED page /\ \A r \in Runs : copy'[r] \in {copy[r], EmptyDoc, doc}
    BY <1>1, <1>3 DEF StoreTypeOK, Quiet, CreateSession, LoadSession, NamerStep, NamerReads, NamerWrites,
       NamerFails
  <1>4. (\E k \in Readers : ReaderMoves(k)) => UNCHANGED <<copy, page>>
    BY DEF ReaderMoves, runVars
  <1>5. CASE Environment
    <2>1. UNCHANGED copy
      BY <1>5 DEF Environment, Disconnect, Crash, LoadMessages, LoadActive, ExpireFlag,
         ExpireStream, ScanMappings, DeleteKeys, runVars
    <2>2. CASE \E q \in Loaders : LoadMessages(q)
      BY <1>1, <2>1, <2>2 DEF LoadMessages, StoreTypeOK
    <2>3. CASE \E q \in Loaders : LoadActive(q)
      <3>1. PICK q \in Loaders : LoadActive(q)
        BY <2>3
      <3>2. \E b : page' = [page EXCEPT ![q] = [@ EXCEPT !.state = "shown", !.active = b]]
        BY <3>1 DEF LoadActive
      <3> QED
        BY <1>1, <2>1, <3>2 DEF StoreTypeOK
    <2>4. CASE ~\E q \in Loaders : LoadMessages(q) \/ LoadActive(q)
      BY <1>5, <2>1, <2>4 DEF Environment, Disconnect, Crash, ExpireFlag, ExpireStream, ScanMappings,
         DeleteKeys, Quiet
    <2> QED
      BY <2>1, <2>2, <2>3, <2>4
  <1>6. UNCHANGED vars => UNCHANGED <<copy, page>>
    BY DEF vars, runVars
  <1> QED
    BY <1>2, <1>3, <1>4, <1>5, <1>6, NextCases

(* Every step keeps the common message stored once.                        *)
LEMMA OnceStep ==
  ASSUME TypeInv, OnceInv, [Next]_vars
  PROVE  OnceInv'
  <1>1. doc \in Document \cup {NoDoc}
    BY TypeParts DEF TypeInv, StoreTypeOK
  <1>2. StoredOnce(EmptyDoc.msgs)
    BY DEF StoredOnce, EmptyDoc
  <1>3. ASSUME doc' # NoDoc PROVE StoredOnce(doc'.msgs)
    <2>1. CASE doc' = doc
      BY <1>3, <2>1 DEF OnceInv
    <2>2. CASE doc' = EmptyDoc
      BY <1>2, <2>2
    <2>3. ASSUME NEW r \in Runs, Rewritten(r) PROVE StoredOnce(doc'.msgs)
      <3>1. copy[r] \in Document => [copy[r] EXCEPT !.multi = TRUE].msgs = copy[r].msgs
        BY DEF Document
      <3> QED
        BY <1>3, <2>3, <3>1, NoDocAssumption DEF Rewritten, OnceInv
    <2>4. ASSUME NEW r \in Runs, Adds(r) PROVE StoredOnce(doc'.msgs)
      <3>1. doc # NoDoc
        BY <2>4 DEF Adds, AddMessage
      <3>2. StoredOnce(doc.msgs)
        BY <3>1 DEF OnceInv
      <3> QED
        BY <1>1, <2>4, <3>2, AddedOnce, MessagesTyped DEF Adds
    <2> QED
      BY <1>3, <2>1, <2>2, <2>3, <2>4, DocCases
  <1>4. ASSUME NEW r \in Runs, copy'[r] # NoDoc PROVE StoredOnce(copy'[r].msgs)
    BY <1>2, <1>4, CopyCases DEF OnceInv
  <1>5. StoredOnce(doc'.msgs) <=> StoredOnce(doc.msgs)'
    BY DEF StoredOnce
  <1>6. \A r \in Runs : StoredOnce(copy'[r].msgs) <=> StoredOnce(copy[r].msgs)'
    BY DEF StoredOnce
  <1> QED
    BY <1>3, <1>4, <1>5, <1>6 DEF OnceInv

(* The message common to the parallel requests of a broadcast is stored    *)
(* once (the lookback of addMessageLua), in the session and in every stale *)
(* copy of it that an upgrade or the namer may write back.                 *)
THEOREM StoredOnceOnly == Spec => []BroadcastStoredOnce
  <1>1. Init => OnceInv
    BY NoDocAssumption DEF Init, OnceInv, StoredOnce, EmptyDoc
  <1>2. TypeInv /\ OnceInv /\ [Next]_vars => OnceInv'
    BY OnceStep
  <1>3. OnceInv => BroadcastStoredOnce
    BY DEF OnceInv, StoredOnce, BroadcastStoredOnce
  <1> QED
    BY <1>1, <1>2, <1>3, TypeInvariant, PTL DEF Spec

(* A run comes to ask its agent by storing its question.                   *)
LEMMA AskingCases ==
  ASSUME TypeInv, [Next]_vars, NEW r \in Runs, pc'[r] \in Asking
  PROVE  pc[r] \in Asking \/ (AddUserMessage(r) /\ AddMessage(UserMessage(r)))
  <1>1. RunTypeOK
    BY TypeParts DEF TypeInv
  <1>2. CASE \E q \in Runs : RunStep(q)
    <2>1. PICK q \in Runs : RunStep(q)
      BY <1>2
    <2>2. CASE q # r
      <3>1. pc'[r] = pc[r]
        BY <1>1, <2>1, <2>2 DEF RunTypeOK, Goes, SameRun, RunStep, UpgradeSession, AddUserMessage,
           ReadMapping, DropOldStream, RaiseFlag, SendRunStarted, EmitContent, AgentReturns,
           StoreNotice, StoreReply, StoreMapping, SendTerminal, LowerFlag
      <3> QED
        BY <3>1
    <2>3. CASE q = r
      <3>1. CASE AddUserMessage(r)
        BY <1>1, <3>1 DEF RunTypeOK, AddUserMessage, Goes, Asking
      <3>2. CASE ~AddUserMessage(r)
        BY <1>1, <2>1, <2>3, <3>2 DEF RunTypeOK, Goes, Asking, RunStep, UpgradeSession,
           ReadMapping, DropOldStream, RaiseFlag, SendRunStarted, EmitContent, AgentReturns,
           StoreNotice, StoreReply, StoreMapping, SendTerminal, LowerFlag
      <3> QED
        BY <3>1, <3>2
    <2> QED
      BY <2>2, <2>3
  <1>3. CASE ~\E q \in Runs : RunStep(q)
    BY <1>3, OthersQuiet, NextCases DEF Asking
  <1> QED
    BY <1>2, <1>3

(* Until its creator has made the session nothing else happens to a run.   *)
LEMMA CreatorStep ==
  ASSUME TypeInv, CreatorFirst, [Next]_vars
  PROVE  CreatorFirst'
  <1> SUFFICES ASSUME Creator # NoRun, pc'[Creator] = "idle", NEW r \in Runs PROVE pc'[r] = "idle"
    BY DEF CreatorFirst
  <1>1. RunTypeOK /\ Creator \in Runs
    BY TypeParts, CreatorAssumption DEF TypeInv
  <1>2. \A q \in Runs : RunStep(q) => pc[q] # "idle"
    BY DEF RunStep, UpgradeSession, AddUserMessage, ReadMapping, DropOldStream, RaiseFlag,
       SendRunStarted, EmitContent, AgentReturns, StoreNotice, StoreReply, StoreMapping,
       SendTerminal, LowerFlag
  <1>3. \A q \in Runs : RunStep(q) => \A p \in Runs \ {q} : pc'[p] = pc[p]
    BY <1>1 DEF RunTypeOK, Goes, SameRun, RunStep, UpgradeSession, AddUserMessage,
       ReadMapping, DropOldStream, RaiseFlag, SendRunStarted, EmitContent, AgentReturns,
       StoreNotice, StoreReply, StoreMapping, SendTerminal, LowerFlag
  <1>4. \A q \in Runs : RunStep(q) => pc'[q] # "idle"
    BY <1>1 DEF RunTypeOK, Goes, RunStep, UpgradeSession, AddUserMessage,
       ReadMapping, DropOldStream, RaiseFlag, SendRunStarted, EmitContent, AgentReturns,
       StoreNotice, StoreReply, StoreMapping, SendTerminal, LowerFlag
  <1>5. pc[Creator] = "idle"
    <2>1. CASE \E q \in Runs : RunStep(q)
      BY <1>1, <1>3, <1>4, <2>1
    <2>2. CASE ~\E q \in Runs : RunStep(q)
      BY <1>1, <2>2, OthersQuiet, NextCases
    <2> QED
      BY <2>1, <2>2
  <1>6. \A q \in Runs : pc[q] = "idle"
    BY <1>5 DEF CreatorFirst
  <1>7. ~\E q \in Runs : RunStep(q)
    BY <1>2, <1>6
  <1>8. CASE \E q \in Runs : CreateSession(q) \/ LoadSession(q)
    BY <1>1, <1>5, <1>8 DEF CreateSession, LoadSession, RunTypeOK, Goes
  <1>9. CASE ~\E q \in Runs : CreateSession(q) \/ LoadSession(q)
    <2>1. pc' = pc
      <3>1. (\E q \in Runs : NamerStep(q)) \/ (\E k \in Readers : ReaderMoves(k)) \/ Environment \/ UNCHANGED vars
        BY <1>7, <1>9, NextCases
      <3>2. ~\E q \in Runs : Crash(q)
        BY <1>6 DEF Crash
      <3> QED
        BY <3>1, <3>2 DEF NamerStep, NamerReads, NamerWrites, NamerFails, ReaderMoves, Environment, Disconnect,
           LoadMessages, LoadActive, ExpireFlag, ExpireStream, ScanMappings, DeleteKeys, vars, runVars
    <2> QED
      BY <1>6, <2>1
  <1> QED
    BY <1>8, <1>9

(* Who writes the session back, and when.                                  *)
LEMMA WritesBackStep ==
  ASSUME TypeInv, WritesBack, [Next]_vars
  PROVE  WritesBack'
  <1>1. RunTypeOK
    BY TypeParts DEF TypeInv
  <1> USE <1>1 DEF WritesBack
  <1>2. CASE \E q \in Runs : RunStep(q)
    <2>1. PICK q \in Runs : RunStep(q)
      BY <1>2
    <2>2. CASE SendTerminal(q)
      <3>1. pc[q] = "finish" /\ naming[q] = "off"
        BY <2>2 DEF SendTerminal, RunTypeOK
      <3>2. pc' = [pc EXCEPT ![q] = "clear"]
        BY <2>2 DEF SendTerminal, Goes
      <3>3. \A p \in Runs \ {q} : naming'[p] = naming[p]
        BY <2>2 DEF SendTerminal, RunTypeOK
      <3>4. naming'[q] # "off" => q \in Naming
        BY <2>2 DEF SendTerminal, RunTypeOK
      <3> QED
        BY <3>1, <3>2, <3>3, <3>4 DEF RunTypeOK
    <2>3. CASE ~SendTerminal(q)
      <3>1. naming' = naming
        BY <2>1, <2>3 DEF SameRun, RunStep, UpgradeSession, AddUserMessage,
           ReadMapping, DropOldStream, RaiseFlag, SendRunStarted, EmitContent, AgentReturns,
           StoreNotice, StoreReply, StoreMapping, LowerFlag
      <3>2. \A p \in Runs \ {q} : pc'[p] = pc[p]
        BY <2>1, <2>3 DEF RunTypeOK, Goes, SameRun, RunStep, UpgradeSession, AddUserMessage,
           ReadMapping, DropOldStream, RaiseFlag, SendRunStarted, EmitContent, AgentReturns,
           StoreNotice, StoreReply, StoreMapping, LowerFlag
      <3>3. pc'[q] # "upgrade" /\ pc[q] # "done" /\ (pc[q] = "clear" => pc'[q] = "done")
        BY <2>1, <2>3 DEF RunTypeOK, Goes, RunStep, UpgradeSession, AddUserMessage,
           ReadMapping, DropOldStream, RaiseFlag, SendRunStarted, EmitContent, AgentReturns,
           StoreNotice, StoreReply, StoreMapping, LowerFlag
      <3> QED
        BY <3>1, <3>2, <3>3
    <2> QED
      BY <2>2, <2>3
  <1>3. CASE \E q \in Runs : CreateSession(q) \/ LoadSession(q)
    <2>1. PICK q \in Runs : CreateSession(q) \/ LoadSession(q)
      BY <1>3
    <2>2. /\ naming' = naming /\ pc[q] = "idle" /\ \A p \in Runs \ {q} : pc'[p] = pc[p]
          /\ pc'[q] = "upgrade" => q \in Upgrading
      BY <2>1 DEF CreateSession, LoadSession, RunTypeOK, Goes, SameRun
    <2> QED
      BY <2>2
  <1>4. CASE \E q \in Runs : NamerStep(q)
    BY <1>4 DEF NamerStep, NamerReads, NamerWrites, NamerFails, RunTypeOK
  <1>5. CASE (\E k \in Readers : ReaderMoves(k)) \/ Environment \/ UNCHANGED vars
    <2>1. CASE \E q \in Runs : Crash(q)
      BY <2>1 DEF Crash, RunTypeOK
    <2>2. CASE ~\E q \in Runs : Crash(q)
      <3>1. UNCHANGED <<pc, naming>>
        BY <1>5, <2>2 DEF ReaderMoves, Environment, Disconnect, LoadMessages, LoadActive, ExpireFlag,
           ExpireStream, ScanMappings, DeleteKeys, vars, runVars
      <3> QED
        BY <3>1
    <2> QED
      BY <2>1, <2>2
  <1> QED
    BY <1>2, <1>3, <1>4, <1>5, NextCases

(* What is written back is written by the only run there is.               *)
RewrittenAlone == \A r \in Upgrading \cup Naming : Runs = {r}

LEMMA AskedStep ==
  ASSUME RewrittenAlone, TypeInv, OrderInv, [Next]_vars
  PROVE  Asked'
  <1> SUFFICES ASSUME NEW r \in Runs, pc'[r] \in Asking, doc' # NoDoc
               PROVE  Has(doc', UserMessage(r))
    BY DEF Asked, Has, UserMessage
  <1>1. RunTypeOK /\ doc \in Document \cup {NoDoc}
    BY TypeParts DEF TypeInv, StoreTypeOK
  <1>2. CASE AddUserMessage(r) /\ AddMessage(UserMessage(r))
    BY <1>1, <1>2, AddedHas, MessagesTyped
  <1>3. CASE pc[r] \in Asking
    <2>1. doc # NoDoc => Has(doc, UserMessage(r))
      BY <1>3 DEF OrderInv, Asked
    <2>2. CASE doc' = doc
      BY <2>1, <2>2
    <2>3. ASSUME NEW q \in Runs, Adds(q) PROVE Has(doc', UserMessage(r))
      <3>1. doc # NoDoc
        BY <2>3 DEF Adds, AddMessage
      <3> QED
        BY <1>1, <2>1, <2>3, <3>1, AddedHas, MessagesTyped DEF Adds
    <2>4. ~\E q \in Runs : CreateSession(q)
      BY <1>3, NoRunAssumption DEF CreateSession, OrderInv, CreatorFirst, Asking
    <2>5. ASSUME NEW q \in Runs, Rewritten(q) PROVE FALSE
      <3>1. q \in Upgrading \/ q \in Naming
        BY <2>5 DEF Rewritten, UpgradeSession, NamerWrites, OrderInv, WritesBack
      <3>2. q = r
        BY <3>1 DEF RewrittenAlone
      <3> QED
        BY <1>3, <2>5, <3>2 DEF Rewritten, UpgradeSession, NamerWrites, OrderInv, WritesBack, Asking
    <2> QED
      BY <2>2, <2>3, <2>4, <2>5, DocCases
  <1> QED
    BY <1>2, <1>3, AskingCases

(* Messages of different kinds, or of different runs, are different.       *)
LEMMA RepliesDistinct ==
  ASSUME NEW r, NEW q
  PROVE  UserMessage(r) # Reply(q) /\ Notice(r) # Reply(q) /\ (Reply(r) = Reply(q) => r = q)
  <1>1. UserMessage(r).role = "user" /\ Notice(r).role = "notice" /\ Reply(q).role = "assistant"
    BY DEF UserMessage, Notice, Reply
  <1>2. Reply(r).by = r /\ Reply(q).by = q
    BY DEF Reply
  <1> QED
    BY <1>1, <1>2

LEMMA InOrderStep ==
  ASSUME TypeInv, OrderInv, [Next]_vars
  PROVE  CopiesInOrder' /\ QuestionPrecedesReply'
  <1>1. RunTypeOK /\ doc \in Document \cup {NoDoc}
    BY TypeParts DEF TypeInv, StoreTypeOK
  <1>2. AnswersInOrder(EmptyDoc.msgs)
    BY DEF AnswersInOrder, EmptyDoc
  <1>3. ASSUME doc' # NoDoc PROVE AnswersInOrder(doc'.msgs)
    <2>1. CASE doc' = doc
      BY <1>3, <2>1 DEF OrderInv, QuestionPrecedesReply
    <2>2. CASE doc' = EmptyDoc
      BY <1>2, <2>2
    <2>3. ASSUME NEW r \in Runs, Rewritten(r) PROVE AnswersInOrder(doc'.msgs)
      <3>1. copy[r] \in Document => [copy[r] EXCEPT !.multi = TRUE].msgs = copy[r].msgs
        BY DEF Document
      <3> QED
        BY <1>3, <2>3, <3>1, NoDocAssumption DEF Rewritten, OrderInv, CopiesInOrder
    <2>4. ASSUME NEW r \in Runs, Adds(r) PROVE AnswersInOrder(doc'.msgs)
      <3>1. doc # NoDoc
        BY <2>4 DEF Adds, AddMessage
      <3>2. AnswersInOrder(doc.msgs)
        BY <3>1 DEF OrderInv, QuestionPrecedesReply
      <3>3. CASE AddMessage(UserMessage(r)) \/ AddMessage(Notice(r))
        BY <1>1, <3>2, <3>3, AddedInOrder, MessagesTyped, RepliesDistinct
      <3>4. CASE StoreReply(r) /\ AddMessage(Reply(r))
        <4>1. Has(doc, UserMessage(r))
          BY <3>1, <3>4 DEF StoreReply, OrderInv, Asked, Asking
        <4>2. \A q \in Runs : Reply(r) = Reply(q) => Has(doc, UserMessage(q))
          BY <4>1, RepliesDistinct
        <4> QED
          BY <1>1, <3>2, <3>4, <4>2, AddedInOrder, MessagesTyped
      <3> QED
        BY <2>4, <3>3, <3>4 DEF Adds
    <2> QED
      BY <1>3, <2>1, <2>2, <2>3, <2>4, DocCases
  <1>4. ASSUME NEW r \in Runs, copy'[r] # NoDoc PROVE AnswersInOrder(copy'[r].msgs)
    BY <1>2, <1>4, CopyCases DEF OrderInv, CopiesInOrder, QuestionPrecedesReply
  <1>5. ASSUME NEW l \in Loaders PROVE AnswersInOrder(page'[l].msgs)
    BY CopyCases DEF OrderInv, QuestionPrecedesReply
  <1>6. /\ AnswersInOrder(doc'.msgs) <=> AnswersInOrder(doc.msgs)'
        /\ \A r \in Runs : AnswersInOrder(copy'[r].msgs) <=> AnswersInOrder(copy[r].msgs)'
        /\ \A l \in Loaders : AnswersInOrder(page'[l].msgs) <=> AnswersInOrder(page[l].msgs)'
    BY DEF AnswersInOrder, Reply, UserMessage
  <1> QED
    BY <1>3, <1>4, <1>5, <1>6 DEF CopiesInOrder, QuestionPrecedesReply

(* A reply in the session, or on a page served from it, follows its        *)
(* question, and an agent is mapped only after it answered: for every      *)
(* number of runs, whatever fails, crashes, is deleted or is reloaded on   *)
(* the way.  It takes that no stale copy of the session is written back    *)
(* over another run's question: an upgrade or the namer of one of several  *)
(* runs loses messages (RepliesSurvive in ChatRunClaims).                  *)
THEOREM OrderKept ==
  ASSUME \A r \in Upgrading \cup Naming : Runs = {r}
  PROVE  Spec => []RepliesInOrder
  <1>0. RewrittenAlone
    BY DEF RewrittenAlone
  <1>1. Init => OrderInv
    <2> SUFFICES ASSUME Init PROVE OrderInv
      OBVIOUS
    <2>1. AnswersInOrder(EmptyDoc.msgs) /\ AnswersInOrder(<<>>)
      BY DEF AnswersInOrder, EmptyDoc
    <2>2. \A l \in Loaders : page[l].msgs = <<>>
      BY DEF Init, EmptyPage
    <2>3. QuestionPrecedesReply
      BY <2>1, <2>2 DEF Init, QuestionPrecedesReply
    <2> QED
      BY <2>3, CreatorAssumption DEF Init, OrderInv, CreatorFirst, WritesBack, Asked, Asking, CopiesInOrder
  <1>2. TypeInv /\ OrderInv /\ [Next]_vars => OrderInv'
    <2> SUFFICES ASSUME TypeInv, OrderInv, [Next]_vars PROVE OrderInv'
      OBVIOUS
    <2>1. CreatorFirst' /\ WritesBack'
      BY CreatorStep, WritesBackStep DEF OrderInv
    <2>2. Asked'
      BY <1>0, AskedStep
    <2>3. CopiesInOrder' /\ QuestionPrecedesReply'
      BY InOrderStep
    <2> QED
      BY <2>1, <2>2, <2>3 DEF OrderInv
  <1>3. OrderInv => QuestionPrecedesReply
    BY DEF OrderInv
  <1> QED
    BY <1>1, <1>2, <1>3, TypeInvariant, MappedAnswered, PTL DEF Spec, RepliesInOrder

-----------------------------------------------------------------------------
(* A trim has nothing to drop from a log that the stream has room for.     *)
LEMMA TrimsNothing ==
  ASSUME NEW n \in Nat, n <= StreamCap, NEW ids, ids \subseteq 1 .. n, NEW kept \in Trims(ids)
  PROVE  kept = ids
  <1> SUFFICES ASSUME kept # ids PROVE FALSE
    OBVIOUS
  <1>1. PICK cut \in ids : kept = {i \in ids : i > cut} /\ Cardinality(kept) >= StreamCap
    BY DEF Trims
  <1>2. IsFiniteSet(1 .. n) /\ Cardinality(1 .. n) = n
    BY FS_Interval
  <1>3. IsFiniteSet(ids) /\ Cardinality(ids) <= n
    BY <1>2, FS_Subset
  <1>4. cut \notin kept /\ kept \subseteq ids
    BY <1>1, <1>2
  <1>5. /\ IsFiniteSet(kept) /\ Cardinality(kept) <= Cardinality(ids)
        /\ Cardinality(ids) = Cardinality(kept) => ids = kept
    BY <1>3, <1>4, FS_Subset
  <1>6. Cardinality(kept) \in Nat /\ Cardinality(ids) \in Nat
    BY <1>3, <1>5, FS_CardinalityType
  <1> QED
    BY <1>1, <1>3, <1>5, <1>6, StreamCapAssumption

(* The log after an event: as it was, or one entry of the run longer, and  *)
(* the stream then holds it as well, unless it is full.                    *)
LEMMA AppendCases ==
  ASSUME BufferTypeOK, NEW r \in Runs, NEW kind \in Kinds, AppendRunEvent(r, kind)
  PROVE  \/ UNCHANGED <<log, stream>>
         \/ /\ Len(log) \in Nat /\ DOMAIN log = 1 .. Len(log)
            /\ Len(log') = Len(log) + 1 /\ DOMAIN log' = 1 .. Len(log) + 1
            /\ \A i \in DOMAIN log : log'[i] = log[i]
            /\ log'[Len(log) + 1].run = r
            /\ stream' \subseteq stream \cup {Len(log) + 1}
            /\ Len(log') <= StreamCap => stream' = stream \cup {Len(log) + 1}
  <1>1. CASE UNCHANGED <<log, stream>>
    BY <1>1
  <1>2. CASE /\ log' = Append(log, [run |-> r, kind |-> kind])
             /\ stream' \in Trims(stream \cup {Len(log) + 1})
    <2>1. log \in Seq(Entry) /\ [run |-> r, kind |-> kind] \in Entry /\ stream \subseteq DOMAIN log
      BY DEF BufferTypeOK, Entry
    <2>2. /\ Len(log) \in Nat /\ DOMAIN log = 1 .. Len(log)
          /\ Len(log') = Len(log) + 1 /\ DOMAIN log' = 1 .. Len(log) + 1
          /\ \A i \in DOMAIN log : log'[i] = log[i]
          /\ log'[Len(log) + 1] = [run |-> r, kind |-> kind]
      BY <1>2, <2>1
    <2>3. stream \cup {Len(log) + 1} \subseteq 1 .. Len(log')
      BY <2>1, <2>2
    <2>4. /\ stream' \subseteq stream \cup {Len(log) + 1}
          /\ Len(log') <= StreamCap => stream' = stream \cup {Len(log) + 1}
      BY <1>2, <2>2, <2>3, TrimsNothing, TrimsKeep
    <2> QED
      BY <2>2, <2>4
  <1> QED
    BY <1>1, <1>2 DEF AppendRunEvent

(* The steps by what they do to the stream: a run's event, a run's DEL, a  *)
(* read, an expiry, or nothing.                                            *)
Emits(r) ==
    /\ pc[r] \in {"start"} \cup Emitting
    /\ \E kind \in Kinds : AppendRunEvent(r, kind)
    /\ pc'[r] \notin Unstarted
Drops(r) == pc[r] = "drop" /\ stream' = {} /\ owner' = r /\ UNCHANGED log

LEMMA StreamCases ==
  ASSUME TypeInv, [Next]_vars
  PROVE  \/ /\ \/ \E r \in Runs : Emits(r)
               \/ UNCHANGED <<log, stream>>
               \/ UNCHANGED log /\ stream' = {} /\ ~\E r \in Runs \ LongRuns : pc[r] \in Emitting
            /\ UNCHANGED <<owner, readerVars>>
         \/ (\E r \in Runs : Drops(r)) /\ UNCHANGED readerVars
         \/ \E k \in Readers : ReaderStep(k) /\ UNCHANGED <<log, stream, owner, pc>>
  <1>1. RunTypeOK
    BY TypeParts DEF TypeInv
  <1>2. ASSUME NEW r \in Runs, RunStep(r)
        PROVE  \/ Emits(r) /\ UNCHANGED <<owner, readerVars>>
               \/ UNCHANGED <<log, stream, owner, readerVars>>
               \/ Drops(r) /\ UNCHANGED readerVars
    <2>1. CASE SendRunStarted(r)
      BY <1>1, <2>1 DEF SendRunStarted, Emits, Kinds, Goes, RunTypeOK, Unstarted, Quiet, historyVars
    <2>2. CASE EmitContent(r)
      BY <1>1, <2>2 DEF EmitContent, Emits, Kinds, Goes, RunTypeOK, Unstarted, Emitting, Quiet, historyVars
    <2>3. CASE SendTerminal(r)
      BY <1>1, <2>3 DEF SendTerminal, Emits, Kinds, Goes, RunTypeOK, Unstarted, Emitting, Quiet, historyVars
    <2>4. CASE DropOldStream(r)
      BY <2>4 DEF DropOldStream, Drops, DropStream, Quiet
    <2>5. CASE ~(SendRunStarted(r) \/ EmitContent(r) \/ SendTerminal(r) \/ DropOldStream(r))
      BY <1>2, <2>5 DEF RunStep, Quiet, SameBuffer, historyVars, UpgradeSession, AddUserMessage, ReadMapping,
         RaiseFlag, AgentReturns, StoreNotice, StoreReply, StoreMapping, LowerFlag
    <2> QED
      BY <2>1, <2>2, <2>3, <2>4, <2>5
  <1>3. ASSUME NEW r \in Runs, CreateSession(r) \/ LoadSession(r) \/ NamerStep(r)
        PROVE  UNCHANGED <<log, stream, owner, readerVars>>
    BY <1>3 DEF CreateSession, LoadSession, NamerStep, NamerReads, NamerWrites, NamerFails, Quiet,
       SameBuffer, historyVars
  <1>4. ASSUME NEW k \in Readers, ReaderMoves(k)
        PROVE  ReaderStep(k) /\ UNCHANGED <<log, stream, owner, pc>>
    BY <1>4 DEF ReaderMoves, ReaderStep, Connect, CheckFlag, Read, BlockExpires, CheckIdle, Drop, Goto,
       historyVars, runVars
  <1>5. CASE Environment
    <2>1. CASE ExpireStream
      BY <2>1 DEF ExpireStream, Quiet, historyVars
    <2>2. CASE ~ExpireStream
      BY <1>5, <2>2 DEF Environment, Disconnect, Crash, LoadMessages, LoadActive, ExpireFlag,
         ScanMappings, DeleteKeys, Quiet, SameBuffer, bufferVars, historyVars
    <2> QED
      BY <2>1, <2>2
  <1>6. UNCHANGED vars => UNCHANGED <<log, stream, owner, readerVars>>
    BY DEF vars, bufferVars, historyVars
  <1> QED
    BY <1>2, <1>3, <1>4, <1>5, <1>6, NextCases

(* Where a run can come from.                                              *)
LEMMA PlaceCases ==
  ASSUME TypeInv, [Next]_vars, NEW r \in Runs
  PROVE  /\ pc'[r] \in Unstarted => pc[r] \in Unstarted
         /\ pc'[r] \in Emitting => pc[r] \in Emitting \/ pc[r] = "start"
  <1>1. RunTypeOK
    BY TypeParts DEF TypeInv
  <1> USE <1>1 DEF RunTypeOK, Unstarted, Emitting
  <1>2. CASE \E q \in Runs : RunStep(q)
    BY <1>2 DEF Goes, SameRun, RunStep, UpgradeSession, AddUserMessage, ReadMapping, DropOldStream,
       RaiseFlag, SendRunStarted, EmitContent, AgentReturns, StoreNotice, StoreReply,
       StoreMapping, SendTerminal, LowerFlag
  <1>3. CASE ~\E q \in Runs : RunStep(q)
    BY <1>3, OthersQuiet, NextCases
  <1> QED
    BY <1>2, <1>3

(* The log only grows, and a run's part of it only by its own events.      *)
LEMMA LogGrows ==
  ASSUME TypeInv, [Next]_vars
  PROVE  /\ Len(log) \in Nat /\ DOMAIN log = 1 .. Len(log) /\ Len(log') \in Nat
         /\ Len(log) <= Len(log')
         /\ \A i \in DOMAIN log : i \in DOMAIN log' /\ log'[i] = log[i]
         /\ \A i \in DOMAIN log' :
               i \in DOMAIN log \/ (i = Len(log) + 1 /\ log'[i].run \in Runs /\ Emits(log'[i].run))
         /\ stream' \subseteq stream \cup {Len(log) + 1}
  <1>1. BufferTypeOK /\ log \in Seq(Entry) /\ Len(log) \in Nat /\ DOMAIN log = 1 .. Len(log)
    BY TypeParts DEF TypeInv, BufferTypeOK
  <1>2. CASE UNCHANGED log /\ stream' \in {stream, {}}
    BY <1>1, <1>2
  <1>3. ASSUME NEW r \in Runs, Emits(r) PROVE
             \/ UNCHANGED <<log, stream>>
             \/ /\ Len(log') = Len(log) + 1 /\ DOMAIN log' = 1 .. Len(log) + 1
                /\ \A i \in DOMAIN log : log'[i] = log[i]
                /\ log'[Len(log) + 1].run = r
                /\ stream' \subseteq stream \cup {Len(log) + 1}
    BY <1>1, <1>3, AppendCases DEF Emits
  <1>4. CASE \E r \in Runs : Emits(r)
    <2>1. PICK r \in Runs : Emits(r)
      BY <1>4
    <2>2. CASE /\ Len(log') = Len(log) + 1 /\ DOMAIN log' = 1 .. Len(log) + 1
               /\ \A i \in DOMAIN log : log'[i] = log[i]
               /\ log'[Len(log) + 1].run = r
               /\ stream' \subseteq stream \cup {Len(log) + 1}
      <3>1. \A i \in DOMAIN log' : i \in DOMAIN log \/ (i = Len(log) + 1 /\ log'[i].run = r)
        BY <1>1, <2>2
      <3> QED
        BY <1>1, <2>1, <2>2, <3>1
    <2> QED
      BY <1>2, <1>3, <2>1, <2>2
  <1> QED
    BY <1>2, <1>4, StreamCases DEF Drops

(* A run's events after a step.                                            *)
LEMMA EventsStep ==
  ASSUME TypeInv, [Next]_vars, NEW r \in Runs
  PROVE  \A i \in Events(r)' : i \in Events(r) \/ (i = Len(log) + 1 /\ Emits(r))
  BY LogGrows DEF Events

(* No event precedes its run's start.                                      *)
LEMMA SilentStep ==
  ASSUME TypeInv, Silent, [Next]_vars
  PROVE  Silent'
  <1> SUFFICES ASSUME NEW r \in Runs, pc'[r] \in Unstarted PROVE Events(r)' = {}
    BY DEF Silent
  <1>1. Events(r) = {}
    BY PlaceCases DEF Silent
  <1> QED
    BY <1>1, EventsStep DEF Emits

(* Entries that a read passes over are part of it.                         *)
LEMMA BatchClosed ==
  ASSUME TypeInv, NEW k \in Readers, NEW newest \in Batch(k), NEW i \in Pending(k), i <= newest
  PROVE  i \in Batch(k)
  <1>1. stream \subseteq 1 .. Len(log) /\ Len(log) \in Nat
    <2>1. log \in Seq(Entry) /\ stream \subseteq DOMAIN log
      BY TypeParts DEF TypeInv, BufferTypeOK
    <2> QED
      BY <2>1
  <1> DEFINE below(n) == {j \in Pending(k) : j < n}
  <1>2. newest \in Pending(k) /\ Cardinality(below(newest)) < ReadCount
        /\ \A j \in Pending(k) : j < newest => ~IsTerminal(j)
    BY DEF Batch
  <1>3. newest \in Nat /\ i \in Nat /\ Pending(k) \subseteq 1 .. Len(log)
    <2>1. Pending(k) \subseteq 1 .. Len(log)
      BY <1>1 DEF Pending
    <2> QED
      BY <1>1, <1>2, <2>1
  <1>4. below(i) \subseteq below(newest) /\ below(newest) \subseteq 1 .. Len(log)
    BY <1>3
  <1>5. IsFiniteSet(below(newest))
    <2>1. IsFiniteSet(1 .. Len(log))
      BY <1>1, FS_Interval
    <2> QED
      BY <1>4, <2>1, FS_Subset
  <1>6. IsFiniteSet(below(i)) /\ Cardinality(below(i)) <= Cardinality(below(newest))
    BY <1>4, <1>5, FS_Subset
  <1>7. Cardinality(below(i)) \in Nat /\ Cardinality(below(newest)) \in Nat
    BY <1>5, <1>6, FS_CardinalityType
  <1>8. Cardinality(below(i)) < ReadCount
    BY <1>2, <1>6, <1>7, ReadCountAssumption
  <1>9. \A j \in Pending(k) : j < i => ~IsTerminal(j)
    BY <1>2, <1>3
  <1> QED
    BY <1>8, <1>9 DEF Batch

(* What a reader's step does: it reads a batch, or goes to another state   *)
(* that is not the end of a run.                                           *)
LEMMA ReaderCases ==
  ASSUME TypeInv, NEW k \in Readers, ReaderStep(k)
  PROVE  /\ \A j \in Readers \ {k} : rpc'[j] = rpc[j] /\ last'[j] = last[j] /\ got'[j] = got[j]
         /\ \/ /\ last'[k] = last[k] /\ got'[k] = got[k]
               /\ rpc'[k] # "terminal"
            \/ /\ last'[k] \in Batch(k) /\ \A i \in Batch(k) : i <= last'[k]
               /\ got'[k] = got[k] \cup Batch(k)
  <1>1. ReaderTypeOK
    BY TypeParts DEF TypeInv
  <1>2. CASE Read(k)
    <2>1. PICK newest \in Batch(k) :
            /\ \A i \in Batch(k) : i <= newest
            /\ last' = [last EXCEPT ![k] = newest]
            /\ got' = [got EXCEPT ![k] = @ \cup Batch(k)]
            /\ rpc' = [rpc EXCEPT ![k] = IF IsTerminal(newest) THEN "terminal" ELSE "open"]
      BY <1>2 DEF Read
    <2> QED
      BY <1>1, <2>1 DEF ReaderTypeOK
  <1>3. CASE ~Read(k)
    BY <1>1, <1>3 DEF ReaderStep, Connect, CheckFlag, BlockExpires, CheckIdle, Drop, Goto, ReaderTypeOK
  <1> QED
    BY <1>2, <1>3

(* No reader is past the log.                                              *)
LEMMA InLogStep ==
  ASSUME TypeInv, InLog, [Next]_vars
  PROVE  InLog'
  <1> SUFFICES ASSUME NEW k \in Readers PROVE last'[k] <= Len(log')
    BY DEF InLog
  <1>1. /\ Len(log) \in Nat /\ Len(log') \in Nat /\ Len(log) <= Len(log')
        /\ last[k] \in Nat /\ last[k] <= Len(log)
        /\ stream \subseteq 1 .. Len(log)
    BY LogGrows, TypeParts DEF TypeInv, InLog, ReaderTypeOK, BufferTypeOK
  <1>2. CASE UNCHANGED last
    BY <1>1, <1>2
  <1>3. ASSUME NEW j \in Readers, ReaderStep(j) PROVE last'[k] <= Len(log')
    <2>1. Batch(j) \subseteq stream
      BY DEF Batch, Pending
    <2>2. last'[k] = last[k] \/ last'[k] \in stream
      BY <1>3, <2>1, ReaderCases
    <2>3. \A x \in stream \cup {last[k]} : x \in Nat /\ x <= Len(log)
      BY <1>1
    <2>4. last'[k] \in Nat /\ last'[k] <= Len(log)
      BY <2>2, <2>3
    <2> QED
      BY <1>1, <2>4
  <1> QED
    BY <1>2, <1>3, StreamCases DEF readerVars

(* If the owner's events are buffered after a step that leaves it the      *)
(* owner, they were before, or there were none.                            *)
LEMMA BufferedBefore ==
  ASSUME TypeInv, Silent, [Next]_vars, owner \in Runs, owner' = owner, Buffered'
  PROVE  Buffered \/ Events(owner) = {}
  <1>1. PICK r \in Runs : r = owner
    OBVIOUS
  <1>2. CASE pc'[r] \in Emitting
    BY <1>1, <1>2, PlaceCases DEF Buffered, Silent, Unstarted
  <1>3. CASE pc'[r] \notin Emitting
    <2>1. PICK i \in Events(r)' : i \in stream'
      BY <1>1, <1>3 DEF Buffered
    <2>2. CASE i \in Events(r)
      <3>1. i \in stream
        BY <2>1, <2>2, LogGrows DEF Events
      <3> QED
        BY <1>1, <2>2, <3>1 DEF Buffered
    <2>3. CASE Emits(r)
      BY <1>1, <2>3 DEF Emits, Buffered, Silent, Unstarted
    <2> QED
      BY <2>2, <2>3, EventsStep
  <1> QED
    BY <1>2, <1>3

(* A step that makes another run the owner finds it without events.        *)
LEMMA OwnerCases ==
  ASSUME TypeInv, Silent, [Next]_vars
  PROVE  owner' = owner \/ (owner' \in Runs /\ Events(owner)' = {})
  <1>1. CASE \E r \in Runs : Drops(r)
    <2>1. PICK r \in Runs : Drops(r)
      BY <1>1
    <2>2. Events(r) = {} /\ UNCHANGED log /\ owner' = r
      BY <2>1 DEF Drops, Silent, Unstarted
    <2> QED
      BY <2>2 DEF Events
  <1> QED
    BY <1>1, StreamCases

(* The stream keeps all of its owner's events while they are replayed.     *)
LEMMA OwnerBufferedStep ==
  ASSUME TypeInv, ReplayInv, [Next]_vars
  PROVE  OwnerBuffered'
  <1> SUFFICES ASSUME Replayable', Buffered' PROVE (Events(owner) \subseteq stream)'
    BY DEF OwnerBuffered
  <1>1. CASE owner' # owner
    BY <1>1, OwnerCases DEF ReplayInv
  <1>2. CASE owner' = owner
    <2>1. PICK r \in Runs : r = owner
      BY <1>2, TypeParts DEF Replayable, TypeInv, RunTypeOK
    <2>2. Replayable
      BY <1>2, LogGrows, StreamCapAssumption DEF Replayable
    <2>3. Events(r) \subseteq stream
      <3>1. Buffered \/ Events(owner) = {}
        BY <1>2, <2>1, BufferedBefore DEF ReplayInv
      <3> QED
        BY <2>1, <2>2, <3>1 DEF ReplayInv, OwnerBuffered
    <2>4. SUFFICES Events(r)' \subseteq stream'
      BY <1>2, <2>1 DEF Events
    <2>5. CASE UNCHANGED <<log, stream>>
      BY <2>3, <2>5 DEF Events
    <2>6. ASSUME NEW q \in Runs, Emits(q) PROVE Events(r)' \subseteq stream'
      <3>1. PICK kind \in Kinds : AppendRunEvent(q, kind)
        BY <2>6 DEF Emits
      <3>2. BufferTypeOK /\ Len(log') <= StreamCap
        BY TypeParts DEF TypeInv, Replayable
      <3>3. UNCHANGED <<log, stream>> \/ stream' = stream \cup {Len(log) + 1}
        BY <3>1, <3>2, AppendCases
      <3> QED
        BY <2>3, <2>5, <3>3, EventsStep
    <2>7. CASE UNCHANGED log /\ stream' = {} /\ ~\E q \in Runs \ LongRuns : pc[q] \in Emitting
      <3>1. owner \notin LongRuns
        BY <2>2 DEF Replayable
      <3>2. pc'[r] \in Emitting
        BY <1>2, <2>1, <2>7 DEF Buffered
      <3>3. pc[r] = "start"
        BY <2>1, <2>7, <3>1, <3>2, PlaceCases
      <3>4. Events(r) = {}
        BY <3>3 DEF ReplayInv, Silent, Unstarted
      <3> QED
        BY <2>7, <3>4 DEF Events
    <2>8. ASSUME NEW q \in Runs, Drops(q) PROVE Events(r)' \subseteq stream'
      <3>1. r = q /\ Events(q) = {} /\ UNCHANGED log
        BY <1>2, <2>1, <2>8 DEF Drops, ReplayInv, Silent, Unstarted
      <3> QED
        BY <3>1 DEF Events
    <2> QED
      BY <2>5, <2>6, <2>7, <2>8, StreamCases
  <1> QED
    BY <1>1, <1>2

(* A reader misses none of them.                                           *)
LEMMA OwnerReadStep ==
  ASSUME TypeInv, ReplayInv, [Next]_vars
  PROVE  OwnerRead'
  <1> SUFFICES ASSUME NEW k \in Readers, Replayable',
                      Buffered' \/ (rpc'[k] = "terminal" /\ log'[last'[k]].run = owner'),
                      NEW i \in Events(owner)', i <= last'[k]
               PROVE  i \in got'[k]
    BY DEF OwnerRead
  <1>1. owner' = owner
    BY OwnerCases DEF ReplayInv
  <1>2. PICK r \in Runs : r = owner
    BY <1>1, TypeParts DEF Replayable, TypeInv, RunTypeOK
  <1>3. Replayable /\ i \in Events(r)'
    BY <1>1, <1>2, LogGrows, StreamCapAssumption DEF Replayable, Events
  <1>4. /\ Len(log) \in Nat /\ DOMAIN log = 1 .. Len(log)
        /\ last[k] \in Nat /\ last[k] <= Len(log) /\ stream \subseteq DOMAIN log
    BY LogGrows, TypeParts DEF TypeInv, ReaderTypeOK, ReplayInv, InLog, BufferTypeOK
  <1>5. Buffered' => Buffered \/ Events(r) = {}
    BY <1>1, <1>2, BufferedBefore DEF ReplayInv
  <1>6. CASE last'[k] = last[k] /\ got'[k] = got[k] /\ (rpc'[k] = "terminal" => rpc[k] = "terminal")
    <2>1. i \in Events(r)
      BY <1>3, <1>4, <1>6, EventsStep
    <2>2. i \in DOMAIN log /\ last[k] \in DOMAIN log
      BY <1>4, <1>6, <2>1 DEF Events
    <2>3. Buffered \/ (rpc[k] = "terminal" /\ log[last[k]].run = owner)
      BY <1>1, <1>5, <1>6, <2>1, <2>2, LogGrows
    <2> QED
      BY <1>2, <1>3, <1>6, <2>1, <2>3 DEF ReplayInv, OwnerRead
  <1>7. CASE /\ last'[k] \in Batch(k) /\ got'[k] = got[k] \cup Batch(k)
             /\ UNCHANGED <<log, stream, owner, pc>>
    <2>1. last'[k] \in stream /\ last'[k] \in DOMAIN log
      BY <1>4, <1>7 DEF Batch, Pending
    <2>2. i \in Events(r) /\ i \in DOMAIN log
      BY <1>3, <1>7 DEF Events
    <2>3. Buffered
      <3>1. CASE Buffered'
        BY <1>5, <2>2, <3>1
      <3>2. CASE log'[last'[k]].run = owner'
        <4>1. last'[k] \in Events(owner)
          BY <1>7, <2>1, <3>2 DEF Events
        <4> QED
          BY <2>1, <4>1 DEF Buffered
      <3> QED
        BY <3>1, <3>2
    <2>4. CASE i <= last[k]
      BY <1>2, <1>3, <1>7, <2>2, <2>3, <2>4 DEF ReplayInv, OwnerRead
    <2>5. CASE ~(i <= last[k])
      <3>1. i \in stream
        BY <1>2, <1>3, <2>2, <2>3 DEF ReplayInv, OwnerBuffered
      <3>2. i \in Pending(k)
        BY <1>4, <2>2, <2>5, <3>1 DEF Pending
      <3> QED
        BY <1>7, <3>2, BatchClosed
    <2> QED
      BY <2>4, <2>5
  <1>8. ASSUME NEW j \in Readers, ReaderStep(j), UNCHANGED <<log, stream, owner, pc>>
        PROVE  i \in got'[k]
    BY <1>6, <1>7, <1>8, ReaderCases
  <1>9. CASE UNCHANGED readerVars
    BY <1>6, <1>9 DEF readerVars
  <1> QED
    BY <1>8, <1>9, StreamCases

(* Of a broadcast nothing is stored twice and the run that owns the stream *)
(* is replayed whole (SetActiveRun's DEL before a run's first event, the   *)
(* XREAD's exclusive IDs): a reader that follows it, or was closed by its  *)
(* terminal event, has every event of it up to its position, for every     *)
(* number of overlapping runs and of readers, and of entries read at once. *)
THEOREM BroadcastKept == Spec => []BroadcastWhole
  <1>1. Init => ReplayInv
    BY DEF Init, BufferInit, ReaderInit, ReplayInv, Silent, Events, InLog, OwnerBuffered, OwnerRead,
       Replayable
  <1>2. TypeInv /\ ReplayInv /\ [Next]_vars => ReplayInv'
    BY SilentStep, InLogStep, OwnerBufferedStep, OwnerReadStep DEF ReplayInv
  <1>3. ReplayInv => OwnerReplayed
    BY DEF ReplayInv, OwnerRead, Replayable, Buffered, Events, OwnerReplayed
  <1> QED
    BY <1>1, <1>2, <1>3, TypeInvariant, StoredOnceOnly, PTL DEF Spec, BroadcastWhole
=============================================================================
