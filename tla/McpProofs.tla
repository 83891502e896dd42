----------------------------- MODULE McpProofs -----------------------------
(***************************************************************************)
(* Proofs about what an MCP chat is made of, part by part.                 *)
(*                                                                         *)
(* The connection to a server, for any number of requests, clients and     *)
(* sessions: what a server's status says of it holds.                      *)
(*                                                                         *)
(* The grants, for any number of requests and tokens: a token that is      *)
(* about to be stored is accepted and, where tokens are rotated, in one    *)
(* request's hands only, so nobody can have it replaced; and what is       *)
(* stored is accepted, or its successor is about to be stored.             *)
(*                                                                         *)
(* The client of a server: what a request has found fits together at each  *)
(* of its steps.                                                           *)
(*                                                                         *)
(* The models: no row is without its provider, hence a resolution finds    *)
(* what it names.                                                          *)
(*                                                                         *)
(* The chat, for any number of chats, rounds and tools: a stored reply is  *)
(* what its client was shown.                                              *)
(***************************************************************************)
EXTENDS MCMcpChat, FiniteSetTheorems, SequenceTheorems, WellFoundedInduction, TLAPS

\* A set of natural numbers that has a member has a least one.
LEMMA LeastExists ==
    ASSUME NEW T, T \subseteq Nat, T # {}
    PROVE  \E n \in T: \A m \in T: n <= m
<1>1. \E Less: /\ IsWellFoundedOn(Less, Nat)
               /\ \A m, n \in Nat: m < n => <<m, n>> \in Less
  <2>1. \A m, n \in Nat: m < n => <<m, n>> \in OpToRel(<, Nat)
    BY DEF OpToRel
  <2> QED BY <2>1, NatLessThanWellFounded
<1>2. PICK Less: /\ IsWellFoundedOn(Less, Nat)
                 /\ \A m, n \in Nat: m < n => <<m, n>> \in Less
  BY <1>1
<1>3. PICK n \in T: \A m \in T: ~(<<m, n>> \in Less)
  <2>1. IsWellFoundedOn(Less, Nat)
    BY <1>2
  <2> QED BY <2>1, WFMin, Zenon
<1>4. \A m \in T: ~(m < n)
  BY <1>2, <1>3
<1>5. \A m \in T: n <= m
  BY <1>4
<1> QED BY <1>5

\* A new session has a name of its own.
LEMMA NewSessionIsNew ==
    ASSUME NewSessions # {}
    PROVE  NewSession \in NewSessions /\ NewSession \in 1 .. MaxSessions
<1>1. NewSessions \subseteq 1 .. MaxSessions /\ NewSessions \subseteq Nat
  BY ClientBoundsAssumption DEF NewSessions
<1>2. \E s \in NewSessions: \A r \in NewSessions: s <= r
  BY <1>1, LeastExists
<1>3. NewSession \in NewSessions
  BY <1>2 DEF NewSession
<1> QED BY <1>1, <1>3

-----------------------------------------------------------------------------
LEMMA TypesBegin == ServersInit => ServersTypeOK
<1> SUFFICES ASSUME ServersInit PROVE ServersTypeOK
  OBVIOUS
<1>1. PICK a \in Addresses: TRUE
  BY AddressesAssumption
<1>2. [address |-> a, lazy |-> FALSE] \in Configs /\ ~[address |-> a, lazy |-> FALSE].lazy
  BY DEF Configs
<1>3. (CHOOSE c \in Configs: ~c.lazy) \in Configs
  BY <1>2
<1>4. config \in [Clients -> Configs]
  BY <1>3 DEF ServersInit
<1>5. Idling \in Works
  BY ClientBoundsAssumption DEF Idling, Works
<1> QED BY <1>4, <1>5, ClientBoundsAssumption DEF ServersInit, ServersTypeOK

\* A thread's new task has the type of one.
LEMMA TakeOnTyped ==
    ASSUME ServersTypeOK, NEW t \in Workers, NEW g \in Clients,
           NEW does \in {"initialize", "ensure", "reconnect"},
           NEW first \in {"terminate", "hello"},
           TakeOn(t, g, does, first)
    PROVE  work' \in [Workers -> Works] /\ overlapped' \in [Clients -> BOOLEAN]
<1>1. [does |-> does, client |-> g, at |-> first, retried |-> FALSE, got |-> 0] \in Works
  BY ClientBoundsAssumption DEF Works, Clients
<1>2. work' \in [Workers -> Works]
  BY <1>1 DEF ServersTypeOK, TakeOn
<1>3. overlapped' \in [Clients -> BOOLEAN]
  BY DEF ServersTypeOK, TakeOn
<1> QED BY <1>2, <1>3

LEMMA ReportTyped ==
    ASSUME ServersTypeOK, NEW t \in Workers,
           NEW says \in {"error", "connected"}, NEW listed \in 0 .. MaxSessions,
           Report(t, says, listed)
    PROVE  /\ status' \in [Clients -> {"disconnected", "error", "connected"}]
           /\ toolsOf' \in [Clients -> 0 .. MaxSessions]
           /\ work' \in [Workers -> Works]
<1>1. Idling \in Works
  BY ClientBoundsAssumption DEF Idling, Works
<1> QED BY <1>1 DEF ServersTypeOK, Report

\* Position and client of a thread agree.
Posts == \A t \in Workers: work[t].client = 0 <=> work[t].at = "idle"

\* What is not made yet is untouched, and has no goroutine.
Unmade ==
    /\ entry <= made
    /\ \A t \in Workers: work[t].client <= made
    /\ \A g \in Clients: g > made => status[g] = "disconnected" /\ work[g].client = 0

\* Unless the registry noted otherwise one thread works on a client.
Alone ==
    \A g \in Clients: ~overlapped[g] =>
        \A t, s \in Workers: work[t].client = g /\ work[s].client = g => t = s

\* What such a thread is about to report is how the client is.
ReportsTruly ==
    \A t \in Workers: work[t].at = "report" /\ ~overlapped[work[t].client] =>
        initialized[work[t].client] /\ work[t].got = mcpSession[work[t].client]

ServersInv ==
    ServersTypeOK /\ Posts /\ Unmade /\ Alone /\ ReportsTruly /\ ConnectedCanBeCalled

-----------------------------------------------------------------------------
\* A thread's step keeps every type.
LEMMA ClientStepTyped ==
    ASSUME ServersTypeOK, Posts, NEW t \in Workers, ClientStep(t)
    PROVE  ServersTypeOK'
<1> DEFINE g == work[t].client
<1>1. work[t] \in Works /\ g \in 0 .. MaxClients
  BY DEF ServersTypeOK, Works
<1>2. work[t].at # "idle"
  BY DEF ClientStep, TerminateSession, ResetClient, Initialize, Initialized, ListTools,
         ReportConnected
<1>3. g \in Clients
  BY <1>1, <1>2, ClientBoundsAssumption DEF Posts, Clients
<1>4. UNCHANGED <<registryVars, overlapped>>
  BY DEF ClientStep, TerminateSession, ResetClient, Initialize, Initialized, ListTools,
         ReportConnected
<1>5. ASSUME Trouble PROVE trouble' \in 0 .. MaxTrouble
  BY <1>5, ClientBoundsAssumption DEF Trouble, ServersTypeOK
<1>6. ASSUME NEW stop \in {"terminate", "reset", "hello", "stored", "list", "report"},
             NEW retried \in BOOLEAN, NEW got \in 0 .. MaxSessions, GoOn(t, stop, retried, got)
      PROVE  work' \in [Workers -> Works]
  <2>1. [does |-> work[t].does, client |-> g, at |-> stop, retried |-> retried, got |-> got] \in Works
    BY <1>1 DEF Works
  <2> QED BY <1>6, <2>1 DEF GoOn, ServersTypeOK
<1>14. ASSUME NEW stop \in {"terminate", "reset", "hello", "stored", "list", "report"}, Now(t, stop)
       PROVE  work' \in [Workers -> Works]
  <2>1. work[t].retried \in BOOLEAN /\ work[t].got \in 0 .. MaxSessions
    BY <1>1 DEF Works
  <2> QED BY <1>6, <1>14, <2>1 DEF Now
<1>7. ASSUME ReportError(t)
      PROVE  /\ status' \in [Clients -> {"disconnected", "error", "connected"}]
             /\ toolsOf' \in [Clients -> 0 .. MaxSessions]
             /\ work' \in [Workers -> Works]
  <2>1. (IF work[t].does = "reconnect" THEN 0 ELSE toolsOf[g]) \in 0 .. MaxSessions
    BY <1>3, ClientBoundsAssumption DEF ServersTypeOK
  <2> QED BY <1>7, <2>1, ReportTyped DEF ReportError
<1>8. CASE TerminateSession(t)
  <2>1. live' \subseteq 1 .. MaxSessions /\ trouble' \in 0 .. MaxTrouble
    BY <1>8, <1>5 DEF TerminateSession, ServersTypeOK
  <2>2. mcpSession' \in [Clients -> 0 .. MaxSessions]
    <3>1. mcpSession' = [mcpSession EXCEPT ![g] = 0]
      BY <1>8 DEF TerminateSession
    <3>2. 0 \in 0 .. MaxSessions
      BY ClientBoundsAssumption
    <3>3. mcpSession \in [Clients -> 0 .. MaxSessions]
      BY DEF ServersTypeOK
    <3> QED BY <3>1, <3>2, <3>3
  <2>3. work' \in [Workers -> Works]
    BY <1>8, <1>14 DEF TerminateSession
  <2> QED BY <1>4, <1>8, <2>1, <2>2, <2>3 DEF TerminateSession, ServersTypeOK, registryVars
<1>9. CASE ResetClient(t)
  <2>1. work' \in [Workers -> Works]
    BY <1>9, <1>14 DEF ResetClient
  <2> QED BY <1>4, <1>9, <2>1 DEF ResetClient, ServersTypeOK, registryVars
<1>10. CASE Initialize(t)
  <2>1. live' \subseteq 1 .. MaxSessions /\ trouble' \in 0 .. MaxTrouble
    BY <1>10, <1>5, NewSessionIsNew DEF Initialize, ServersTypeOK
  <2>2. work' \in [Workers -> Works] /\ status' \in [Clients -> {"disconnected", "error", "connected"}]
        /\ toolsOf' \in [Clients -> 0 .. MaxSessions]
    <3>1. CASE /\ NewSessions # {}
               /\ GoOn(t, "stored", work[t].retried, NewSession)
               /\ UNCHANGED <<status, toolsOf>>
      <4>1. NewSession \in 0 .. MaxSessions /\ work[t].retried \in BOOLEAN
        BY <3>1, <1>1, NewSessionIsNew DEF Works
      <4> QED BY <3>1, <4>1, <1>6 DEF ServersTypeOK
    <3>2. CASE /\ GoOn(t, "terminate", TRUE, work[t].got)
               /\ UNCHANGED <<status, toolsOf>>
      <4>1. work[t].got \in 0 .. MaxSessions
        BY <1>1 DEF Works
      <4> QED BY <3>2, <4>1, <1>6 DEF ServersTypeOK
    <3> QED BY <1>7, <1>10, <3>1, <3>2 DEF Initialize
  <2> QED BY <1>4, <1>10, <2>1, <2>2 DEF Initialize, ServersTypeOK, registryVars
<1>11. CASE Initialized(t)
  <2>1. work[t].got \in 0 .. MaxSessions
    BY <1>1 DEF Works
  <2>2. work' \in [Workers -> Works]
    BY <1>11, <1>14 DEF Initialized
  <2> QED BY <1>4, <1>11, <2>1, <2>2 DEF Initialized, ServersTypeOK, registryVars
<1>12. CASE ListTools(t)
  <2>1. trouble' \in 0 .. MaxTrouble
    BY <1>12, <1>5 DEF ListTools, ServersTypeOK
  <2>2. work' \in [Workers -> Works] /\ status' \in [Clients -> {"disconnected", "error", "connected"}]
        /\ toolsOf' \in [Clients -> 0 .. MaxSessions]
    <3>1. CASE /\ GoOn(t, "report", work[t].retried, mcpSession[g])
               /\ UNCHANGED <<status, toolsOf>>
      <4>1. mcpSession[g] \in 0 .. MaxSessions /\ work[t].retried \in BOOLEAN
        BY <1>1, <1>3 DEF ServersTypeOK, Works
      <4> QED BY <3>1, <4>1, <1>6 DEF ServersTypeOK
    <3> QED BY <1>7, <1>12, <3>1 DEF ListTools
  <2> QED BY <1>4, <1>12, <2>1, <2>2 DEF ListTools, ServersTypeOK, registryVars
<1>13. CASE ReportConnected(t)
  <2>1. work[t].got \in 0 .. MaxSessions
    BY <1>1 DEF Works
  <2>2. /\ status' \in [Clients -> {"disconnected", "error", "connected"}]
        /\ toolsOf' \in [Clients -> 0 .. MaxSessions]
        /\ work' \in [Workers -> Works]
    BY <1>13, <2>1, ReportTyped DEF ReportConnected
  <2> QED BY <1>4, <1>13, <2>2 DEF ReportConnected, ServersTypeOK, registryVars
<1> QED BY <1>8, <1>9, <1>10, <1>11, <1>12, <1>13 DEF ClientStep

\* A thread's step is about its client only.
LEMMA ClientStepEffects ==
    ASSUME ServersTypeOK, Posts, NEW t \in Workers, ClientStep(t)
    PROVE  /\ work[t].client \in Clients
           /\ UNCHANGED <<registryVars, overlapped>>
           /\ \A s \in Workers \ {t}: work'[s] = work[s]
           /\ \A h \in Clients \ {work[t].client}:
                /\ initialized'[h] = initialized[h] /\ mcpSession'[h] = mcpSession[h]
                /\ status'[h] = status[h] /\ toolsOf'[h] = toolsOf[h]
<1> DEFINE g == work[t].client
<1>1. work[t] \in Works /\ g \in 0 .. MaxClients
  BY DEF ServersTypeOK, Works
<1>2. work[t].at # "idle"
  BY DEF ClientStep, TerminateSession, ResetClient, Initialize, Initialized, ListTools,
         ReportConnected
<1>3. g \in Clients
  BY <1>1, <1>2, ClientBoundsAssumption DEF Posts, Clients
<1>4. UNCHANGED <<registryVars, overlapped>>
  BY DEF ClientStep, TerminateSession, ResetClient, Initialize, Initialized, ListTools,
         ReportConnected
<1>5. \E task: work' = [work EXCEPT ![t] = task]
  BY DEF ClientStep, TerminateSession, ResetClient, Initialize, Initialized, ListTools,
         ReportConnected, ReportError, Report, Now, GoOn
<1>6. \A s \in Workers \ {t}: work'[s] = work[s]
  BY <1>5 DEF ServersTypeOK
<1>7. /\ initialized' = initialized \/ \E b: initialized' = [initialized EXCEPT ![g] = b]
      /\ mcpSession' = mcpSession \/ \E n: mcpSession' = [mcpSession EXCEPT ![g] = n]
  BY DEF ClientStep, TerminateSession, ResetClient, Initialize, Initialized, ListTools,
         ReportConnected
<1>8. /\ status' = status \/ \E says: status' = [status EXCEPT ![g] = says]
      /\ toolsOf' = toolsOf \/ \E n: toolsOf' = [toolsOf EXCEPT ![g] = n]
  BY DEF ClientStep, TerminateSession, ResetClient, Initialize, Initialized, ListTools,
         ReportConnected, ReportError, Report
<1>9. \A h \in Clients \ {g}: initialized'[h] = initialized[h] /\ mcpSession'[h] = mcpSession[h]
  BY <1>7 DEF ServersTypeOK
<1>10. \A h \in Clients \ {g}: status'[h] = status[h] /\ toolsOf'[h] = toolsOf[h]
  BY <1>8 DEF ServersTypeOK
<1> QED BY <1>3, <1>4, <1>6, <1>9, <1>10

\* It goes on with its task, or ends it in error or, if its report is ready,
\* by reporting the client as connected.
LEMMA ClientStepOutcome ==
    ASSUME ServersTypeOK, Posts, NEW t \in Workers, ClientStep(t), NEW g, g = work[t].client
    PROVE  \/ /\ work'[t].client = g /\ work'[t].at # "idle"
              /\ status'[g] = status[g]
              /\ work'[t].at = "report" => initialized'[g] /\ work'[t].got = mcpSession'[g]
           \/ work'[t] = Idling /\ status'[g] = "error"
           \/ /\ work'[t] = Idling /\ status'[g] = "connected"
              /\ work[t].at = "report" /\ toolsOf'[g] = work[t].got
              /\ UNCHANGED <<initialized, mcpSession>>
<1>1. g \in Clients
  BY ClientStepEffects
<1>2. ASSUME NEW stop \in {"terminate", "reset", "hello", "stored", "list", "report"},
             NEW retried, NEW got, GoOn(t, stop, retried, got)
      PROVE  work'[t].client = g /\ work'[t].at = stop /\ work'[t].got = got
  BY <1>2 DEF GoOn, ServersTypeOK
<1>3. ASSUME NEW stop \in {"terminate", "reset", "hello", "stored", "list"}, Now(t, stop)
      PROVE  work'[t].client = g /\ work'[t].at # "idle" /\ work'[t].at # "report"
  BY <1>2, <1>3 DEF Now
<1>4. ASSUME ReportError(t) PROVE work'[t] = Idling /\ status'[g] = "error"
  BY <1>1, <1>4 DEF ReportError, Report, ServersTypeOK
<1>5. CASE TerminateSession(t)
  BY <1>3, <1>5 DEF TerminateSession
<1>6. CASE ResetClient(t)
  BY <1>3, <1>6 DEF ResetClient
<1>7. CASE Initialize(t)
  BY <1>2, <1>4, <1>7 DEF Initialize
<1>8. CASE Initialized(t)
  BY <1>3, <1>8 DEF Initialized
<1>9. CASE ListTools(t)
  BY <1>2, <1>4, <1>9 DEF ListTools
<1>10. CASE ReportConnected(t)
  BY <1>1, <1>10 DEF ReportConnected, Report, ServersTypeOK
<1> QED BY <1>5, <1>6, <1>7, <1>8, <1>9, <1>10 DEF ClientStep

-----------------------------------------------------------------------------
\* A thread that takes on a client has it to itself, or it is noted.
LEMMA TakeOnKeeps ==
    ASSUME ServersInv, ServersTypeOK', NEW t \in Workers, work[t].client = 0,
           NEW g \in Clients, NEW does \in {"initialize", "ensure", "reconnect"},
           NEW first \in {"terminate", "hello"}, TakeOn(t, g, does, first),
           UNCHANGED infoVars
    PROVE  Posts' /\ Alone' /\ ReportsTruly' /\ ConnectedCanBeCalled'
<1>1. work'[t].client = g /\ work'[t].at \in {"terminate", "hello"} /\ g # 0
  BY ClientBoundsAssumption DEF TakeOn, ServersInv, ServersTypeOK, Clients
<1>2. \A s \in Workers \ {t}: work'[s] = work[s]
  BY DEF TakeOn, ServersInv, ServersTypeOK
<1>3. \A h \in Clients \ {g}: overlapped'[h] = overlapped[h]
  BY DEF TakeOn, ServersInv, ServersTypeOK
<1>4. ~overlapped'[g] => \A s \in Workers: work[s].client # g
  BY DEF TakeOn, ServersInv, ServersTypeOK, Busy
<1>5. UNCHANGED <<initialized, mcpSession, status, toolsOf>>
  BY DEF infoVars
<1>6. Posts'
  BY <1>1, <1>2 DEF ServersInv, Posts
<1>7. Alone'
  BY <1>1, <1>2, <1>3, <1>4 DEF ServersInv, Alone
<1>8. ReportsTruly'
  <2> SUFFICES ASSUME NEW s \in Workers, work'[s].at = "report",
                      ~overlapped'[work'[s].client]
               PROVE  initialized'[work'[s].client] /\ work'[s].got = mcpSession'[work'[s].client]
    BY DEF ReportsTruly
  <2>1. s # t /\ work'[s] = work[s]
    BY <1>1, <1>2
  <2>2. work[s].client \in Clients
    <3>1. work[s] \in Works /\ work[s].client # 0
      BY <2>1 DEF ServersInv, ServersTypeOK, Posts
    <3> QED BY <3>1, ClientBoundsAssumption DEF Works, Clients
  <2>3. work[s].client # g
    BY <1>4, <2>1
  <2> QED BY <1>3, <1>5, <2>1, <2>2, <2>3 DEF ServersInv, ReportsTruly
<1>9. ConnectedCanBeCalled'
  <2> SUFFICES ASSUME NEW h \in Clients, status'[h] = "connected", Busy(h)' = {}, ~overlapped'[h]
               PROVE  initialized'[h] /\ toolsOf'[h] = mcpSession'[h]
    BY DEF ConnectedCanBeCalled
  <2>1. h # g
    BY <1>1 DEF Busy
  <2>2. Busy(h) = {}
    <3>1. \A s \in Workers: work[s].client # h
      BY <1>2, <2>1, ClientBoundsAssumption DEF Busy, Clients
    <3> QED BY <3>1 DEF Busy
  <2> QED BY <1>3, <1>5, <2>1, <2>2 DEF ServersInv, ConnectedCanBeCalled
<1> QED BY <1>6, <1>7, <1>8, <1>9

\* A thread's step leaves the others' clients as they are, and its own as the
\* status will say.
LEMMA ClientStepKeeps ==
    ASSUME ServersInv, ServersTypeOK', NEW t \in Workers, ClientStep(t)
    PROVE  Posts' /\ Unmade' /\ Alone' /\ ReportsTruly' /\ ConnectedCanBeCalled'
<1>1. PICK g: g = work[t].client
  OBVIOUS
<1>2. ServersTypeOK /\ Posts /\ Unmade /\ Alone /\ ReportsTruly /\ ConnectedCanBeCalled
  BY DEF ServersInv
<1>3. /\ g \in Clients /\ g # 0
      /\ entry' = entry /\ made' = made /\ overlapped' = overlapped
      /\ \A s \in Workers \ {t}: work'[s] = work[s]
      /\ \A h \in Clients \ {g}:
           /\ initialized'[h] = initialized[h] /\ mcpSession'[h] = mcpSession[h]
           /\ status'[h] = status[h] /\ toolsOf'[h] = toolsOf[h]
  BY <1>1, <1>2, ClientStepEffects, ClientBoundsAssumption DEF registryVars, Clients
<1>4. Idling.client = 0 /\ Idling.at = "idle"
  BY DEF Idling
<1>5. \/ /\ work'[t].client = g /\ work'[t].at # "idle"
         /\ status'[g] = status[g]
         /\ work'[t].at = "report" => initialized'[g] /\ work'[t].got = mcpSession'[g]
      \/ work'[t] = Idling /\ status'[g] = "error"
      \/ /\ work'[t] = Idling /\ status'[g] = "connected"
         /\ work[t].at = "report" /\ toolsOf'[g] = work[t].got
         /\ UNCHANGED <<initialized, mcpSession>>
  BY <1>1, <1>2, ClientStepOutcome, Zenon
<1>6. \/ work'[t].client = g /\ work'[t].at # "idle"
      \/ work'[t].client = 0 /\ work'[t].at = "idle"
  BY <1>4, <1>5
<1>7. \A s \in Workers: work[s].client \in Clients \cup {0}
  <2>1. \A s \in Workers: work[s] \in Works
    BY <1>2 DEF ServersTypeOK
  <2>2. \A n \in 0 .. MaxClients: n \in Clients \cup {0}
    BY ClientBoundsAssumption DEF Clients
  <2> QED BY <2>1, <2>2 DEF Works
<1>8. g <= made
  BY <1>1, <1>2 DEF Unmade
<1>9. Posts'
  BY <1>2, <1>3, <1>6 DEF Posts
<1>10. Unmade'
  <2>1. \A s \in Workers: work'[s].client <= made'
    <3>1. 0 <= made
      BY <1>2, ClientBoundsAssumption DEF ServersTypeOK
    <3> QED BY <1>2, <1>3, <1>6, <1>8, <3>1 DEF Unmade
  <2>2. \A h \in Clients: h > made' => status'[h] = "disconnected" /\ work'[h].client = 0
    <3> SUFFICES ASSUME NEW h \in Clients, h > made
                 PROVE  status'[h] = "disconnected" /\ work'[h].client = 0
      BY <1>3
    <3>1. h # g
      BY <1>2, <1>3, <1>8, ClientBoundsAssumption DEF ServersTypeOK, Clients
    <3>2. work[h].client = 0 /\ h \in Workers /\ status[h] = "disconnected"
      BY <1>2 DEF Unmade, Workers
    <3>3. h # t
      BY <1>1, <1>3, <3>2
    <3> QED BY <1>3, <3>1, <3>2, <3>3
  <2> QED BY <1>2, <1>3, <2>1, <2>2 DEF Unmade
<1>11. Alone'
  <2> SUFFICES ASSUME NEW h \in Clients, ~overlapped[h], NEW r \in Workers, NEW s \in Workers,
                      work'[r].client = h, work'[s].client = h
               PROVE  r = s
    BY <1>3 DEF Alone
  <2>1. h # 0
    BY ClientBoundsAssumption DEF Clients
  <2>2. ASSUME NEW w \in Workers, work'[w].client = h PROVE work[w].client = h
    BY <1>1, <1>3, <1>6, <2>1, <2>2
  <2>3. work[r].client = h /\ work[s].client = h
    BY <2>2
  <2> QED BY <1>2, <2>3 DEF Alone
<1>12. ReportsTruly'
  <2> SUFFICES ASSUME NEW s \in Workers, work'[s].at = "report", ~overlapped[work'[s].client]
               PROVE  initialized'[work'[s].client] /\ work'[s].got = mcpSession'[work'[s].client]
    BY <1>3 DEF ReportsTruly
  <2>1. CASE s = t
    BY <1>4, <1>5, <2>1
  <2>2. CASE s # t
    <3>1. work'[s] = work[s] /\ work[s].client # 0
      BY <1>2, <1>3, <2>2 DEF Posts
    <3>2. work[s].client \in Clients /\ work[s].client # g
      BY <1>1, <1>2, <1>3, <1>7, <2>2, <3>1 DEF Alone
    <3> QED BY <1>2, <1>3, <3>1, <3>2 DEF ReportsTruly
  <2> QED BY <2>1, <2>2
<1>13. ConnectedCanBeCalled'
  <2> SUFFICES ASSUME NEW h \in Clients, status'[h] = "connected", Busy(h)' = {}, ~overlapped[h]
               PROVE  initialized'[h] /\ toolsOf'[h] = mcpSession'[h]
    BY <1>3 DEF ConnectedCanBeCalled
  <2>1. \A s \in Workers: work'[s].client # h
    BY DEF Busy
  <2>2. CASE h = g
    <3>1. /\ work[t].at = "report" /\ toolsOf'[g] = work[t].got
          /\ UNCHANGED <<initialized, mcpSession>>
      BY <1>5, <2>1, <2>2
    <3> QED BY <1>1, <1>2, <2>2, <3>1 DEF ReportsTruly
  <2>3. CASE h # g
    <3>1. \A s \in Workers: work[s].client # h
      BY <1>1, <1>3, <2>1, <2>3
    <3>2. Busy(h) = {}
      BY <3>1 DEF Busy
    <3> QED BY <1>2, <1>3, <2>3, <3>2 DEF ConnectedCanBeCalled
  <2> QED BY <2>2, <2>3
<1> QED BY <1>9, <1>10, <1>11, <1>12, <1>13

-----------------------------------------------------------------------------
\* The steps of the registry and of requests.
LEMMA RegisterKeeps ==
    ASSUME ServersInv, NEW row \in Configs, RegisterClient(row)
    PROVE  ServersInv' /\ \A g \in Clients: Stuck(g) => Stuck(g)'
<1>1. PICK n: n = made + 1
  OBVIOUS
<1>2. ServersTypeOK /\ Unmade
  BY DEF ServersInv
<1>3. n \in Clients /\ n \in Workers /\ n > made /\ made' = n /\ entry' = n
  BY <1>1, <1>2, ClientBoundsAssumption DEF RegisterClient, ServersTypeOK, Clients, Workers
<1>4. work[n].client = 0 /\ \A t \in Workers: work[t].client <= n
  BY <1>1, <1>2, <1>3, ClientBoundsAssumption DEF Unmade, Clients, ServersTypeOK, Works
<1>5. /\ UNCHANGED infoVars /\ UNCHANGED <<live, trouble>>
      /\ \/ UNCHANGED <<work, overlapped>>
         \/ TakeOn(n, n, "initialize", "hello")
  BY <1>3 DEF RegisterClient
<1>6. work' \in [Workers -> Works] /\ overlapped' \in [Clients -> BOOLEAN]
  BY <1>2, <1>3, <1>5, TakeOnTyped DEF ServersTypeOK
<1>7. config' \in [Clients -> Configs] /\ made' \in 0 .. MaxClients /\ entry' \in 0 .. MaxClients
  BY <1>2, <1>3, ClientBoundsAssumption DEF RegisterClient, ServersTypeOK, Clients
<1>8. ServersTypeOK'
  BY <1>2, <1>5, <1>6, <1>7 DEF ServersTypeOK, infoVars
<1>9. Posts' /\ Alone' /\ ReportsTruly' /\ ConnectedCanBeCalled'
  <2>1. CASE UNCHANGED <<work, overlapped>>
    BY <1>5, <2>1 DEF ServersInv, Posts, Alone, ReportsTruly, ConnectedCanBeCalled, Busy, infoVars
  <2>2. CASE TakeOn(n, n, "initialize", "hello")
    BY <1>3, <1>4, <1>5, <1>8, <2>2, TakeOnKeeps
  <2> QED BY <1>5, <2>1, <2>2
<1>10. \A t \in Workers \ {n}: work'[t] = work[t]
  BY <1>2, <1>5 DEF TakeOn, ServersTypeOK
<1>11. work'[n].client \in {0, n}
  BY <1>2, <1>3, <1>4, <1>5 DEF TakeOn, ServersTypeOK
<1>12. Unmade'
  <2>1. \A t \in Workers: work'[t].client <= made'
    BY <1>3, <1>4, <1>10, <1>11, ClientBoundsAssumption DEF Clients
  <2>2. \A g \in Clients: g > made' => status'[g] = "disconnected" /\ work'[g].client = 0
    <3> SUFFICES ASSUME NEW g \in Clients, g > n
                 PROVE  status'[g] = "disconnected" /\ work'[g].client = 0
      BY <1>3
    <3>1. g # n /\ g \in Workers /\ g > made
      BY <1>1, <1>2, ClientBoundsAssumption DEF Clients, Workers, ServersTypeOK
    <3> QED BY <1>2, <1>5, <1>10, <3>1 DEF Unmade, infoVars
  <2>3. entry' <= made'
    BY <1>3, ClientBoundsAssumption DEF Clients
  <2> QED BY <2>1, <2>2, <2>3 DEF Unmade
<1>13. ASSUME NEW g \in Clients, Stuck(g) PROVE Stuck(g)'
  <2>1. g # n
    BY <1>2, <1>3, <1>13 DEF Stuck, Unmade
  <2>2. \A t \in Workers: work[t].client # g
    BY <1>13 DEF Stuck, Busy
  <2>3. \A t \in Workers: work'[t].client # g
    BY <1>10, <1>11, <2>1, <2>2, ClientBoundsAssumption DEF Clients
  <2> QED BY <1>5, <1>13, <2>3 DEF Stuck, Busy, infoVars
<1> QED BY <1>8, <1>9, <1>12, <1>13 DEF ServersInv

\* A request that turns to the server's client.
LEMMA TurnToKeeps ==
    ASSUME ServersInv, NEW u \in Users, work[u] = Idling, entry # 0,
           NEW does \in {"ensure", "reconnect"}, NEW first \in {"terminate", "hello"},
           TakeOn(u, entry, does, first), UNCHANGED <<registryVars, infoVars, live, trouble>>
    PROVE  ServersInv' /\ \A g \in Clients \ {entry}: Stuck(g) => Stuck(g)'
<1>1. ServersTypeOK /\ Unmade
  BY DEF ServersInv
<1>2. entry \in Clients /\ u \in Workers /\ u \notin Clients /\ entry <= made
  BY <1>1, ClientBoundsAssumption, UsersAssumption DEF ServersTypeOK, Clients, Workers, Unmade
<1>3. work[u].client = 0
  BY DEF Idling
<1>4. work' \in [Workers -> Works] /\ overlapped' \in [Clients -> BOOLEAN]
  BY <1>1, <1>2, TakeOnTyped
<1>5. ServersTypeOK'
  BY <1>1, <1>4 DEF ServersTypeOK, registryVars, infoVars
<1>6. Posts' /\ Alone' /\ ReportsTruly' /\ ConnectedCanBeCalled'
  BY <1>2, <1>3, <1>5, TakeOnKeeps
<1>7. (\A t \in Workers \ {u}: work'[t] = work[t]) /\ work'[u].client = entry
  BY <1>1, <1>2 DEF TakeOn, ServersTypeOK
<1>8. Unmade'
  <2>1. \A t \in Workers: work'[t].client <= made
    BY <1>1, <1>2, <1>7 DEF Unmade
  <2>2. \A g \in Clients: g > made => status[g] = "disconnected" /\ work'[g].client = 0
    BY <1>1, <1>2, <1>7 DEF Unmade, Workers
  <2> QED BY <1>1, <2>1, <2>2 DEF Unmade, registryVars, infoVars
<1>9. ASSUME NEW g \in Clients \ {entry}, Stuck(g) PROVE Stuck(g)'
  <2>1. \A t \in Workers: work[t].client # g
    BY <1>9 DEF Stuck, Busy
  <2>2. \A t \in Workers: work'[t].client # g
    BY <1>7, <1>9, <2>1
  <2> QED BY <1>9, <2>2 DEF Stuck, Busy, infoVars
<1> QED BY <1>5, <1>6, <1>8, <1>9 DEF ServersInv

\* What happens beside the clients changes nothing about them.
LEMMA ElsewhereKeeps ==
    ASSUME ServersInv, UNCHANGED <<made, infoVars, work, overlapped>>,
           entry' \in {0, entry}, config' \in [Clients -> Configs],
           live' \subseteq live, trouble' \in 0 .. MaxTrouble
    PROVE  ServersInv' /\ \A g \in Clients: Stuck(g) => Stuck(g)'
<1>1. ServersTypeOK'
  BY ClientBoundsAssumption DEF ServersInv, ServersTypeOK, infoVars
<1>2. Unmade'
  BY ClientBoundsAssumption DEF ServersInv, ServersTypeOK, Unmade, infoVars
<1>3. Posts' /\ Alone' /\ ReportsTruly' /\ ConnectedCanBeCalled'
  BY DEF ServersInv, Posts, Alone, ReportsTruly, ConnectedCanBeCalled, Busy, infoVars
<1>4. \A g \in Clients: Stuck(g) => Stuck(g)'
  BY DEF Stuck, Busy, infoVars
<1> QED BY <1>1, <1>2, <1>3, <1>4 DEF ServersInv

-----------------------------------------------------------------------------
LEMMA InvariantBegins == ServersInit => ServersInv
<1> SUFFICES ASSUME ServersInit PROVE ServersInv
  OBVIOUS
<1>1. ServersTypeOK
  BY TypesBegin
<1>2. \A t \in Workers: work[t].client = 0 /\ work[t].at = "idle"
  BY DEF ServersInit, Idling
<1>3. Posts /\ Alone /\ ReportsTruly
  BY <1>2, ClientBoundsAssumption DEF Posts, Alone, ReportsTruly, Clients
<1>4. Unmade
  BY <1>2 DEF Unmade, ServersInit, Workers
<1>5. ConnectedCanBeCalled
  BY DEF ConnectedCanBeCalled, ServersInit
<1> QED BY <1>1, <1>3, <1>4, <1>5 DEF ServersInv

\* Every step keeps the invariant, and takes a client out of error only for a
\* reconnection.
LEMMA StepsKeep ==
    ASSUME ServersInv, [ServersNext]_serverVars
    PROVE  /\ ServersInv'
           /\ \A g \in Clients: Stuck(g) /\ ~Stuck(g)' =>
                \E u \in Users: work'[u].client = g /\ work'[u].does = "reconnect"
<1>1. ServersTypeOK /\ Posts
  BY DEF ServersInv
<1>2. CASE UNCHANGED serverVars
  <2>1. /\ UNCHANGED <<made, infoVars, work, overlapped>> /\ entry' \in {0, entry}
        /\ config' \in [Clients -> Configs] /\ live' \subseteq live /\ trouble' \in 0 .. MaxTrouble
    BY <1>1, <1>2 DEF serverVars, infoVars, ServersTypeOK
  <2> QED BY <2>1, ElsewhereKeeps
<1>3. ASSUME NEW row \in Configs, KeepClient(row)
      PROVE  ServersInv' /\ \A g \in Clients: Stuck(g) => Stuck(g)'
  <2>1. /\ UNCHANGED <<made, infoVars, work, overlapped>> /\ entry' \in {0, entry}
        /\ config' \in [Clients -> Configs] /\ live' \subseteq live /\ trouble' \in 0 .. MaxTrouble
    BY <1>1, <1>3 DEF KeepClient, ServersTypeOK
  <2> QED BY <2>1, ElsewhereKeeps
<1>4. ASSUME DropClient PROVE ServersInv' /\ \A g \in Clients: Stuck(g) => Stuck(g)'
  <2>1. /\ UNCHANGED <<made, infoVars, work, overlapped>> /\ entry' \in {0, entry}
        /\ config' \in [Clients -> Configs] /\ live' \subseteq live /\ trouble' \in 0 .. MaxTrouble
    BY <1>1, <1>4 DEF DropClient, ServersTypeOK
  <2> QED BY <2>1, ElsewhereKeeps
<1>5. ASSUME Forget PROVE ServersInv' /\ \A g \in Clients: Stuck(g) => Stuck(g)'
  <2>1. trouble' \in 0 .. MaxTrouble
    BY <1>1, <1>5, ClientBoundsAssumption DEF Forget, Trouble, ServersTypeOK
  <2>2. /\ UNCHANGED <<made, infoVars, work, overlapped>> /\ entry' \in {0, entry}
        /\ config' \in [Clients -> Configs] /\ live' \subseteq live
    BY <1>1, <1>5 DEF Forget, ServersTypeOK, registryVars
  <2> QED BY <2>1, <2>2, ElsewhereKeeps
<1>6. CASE LoadFromDB
  BY <1>3, <1>4, <1>6, RegisterKeeps DEF LoadFromDB
<1>7. ASSUME NEW u \in Users, EnsureInitialized(u)
      PROVE  ServersInv' /\ \A g \in Clients: Stuck(g) => Stuck(g)'
  <2>1. ServersInv' /\ \A g \in Clients \ {entry}: Stuck(g) => Stuck(g)'
    BY <1>7, TurnToKeeps DEF EnsureInitialized
  <2> QED BY <1>7, <2>1 DEF EnsureInitialized, Stuck
<1>8. ASSUME NEW u \in Users, Reconnect(u)
      PROVE  /\ ServersInv'
             /\ \A g \in Clients: Stuck(g) /\ ~Stuck(g)' =>
                  work'[u].client = g /\ work'[u].does = "reconnect"
  <2>1. ServersInv' /\ \A g \in Clients \ {entry}: Stuck(g) => Stuck(g)'
    BY <1>8, TurnToKeeps DEF Reconnect
  <2>2. work'[u].client = entry /\ work'[u].does = "reconnect"
    BY <1>1, <1>8 DEF Reconnect, TakeOn, ServersTypeOK, Workers
  <2> QED BY <2>1, <2>2
<1>9. ASSUME NEW t \in Workers, ClientStep(t)
      PROVE  ServersInv' /\ \A g \in Clients: Stuck(g) => Stuck(g)'
  <2>1. ServersTypeOK'
    BY <1>1, <1>9, ClientStepTyped
  <2>2. Posts' /\ Unmade' /\ Alone' /\ ReportsTruly' /\ ConnectedCanBeCalled'
    BY <1>9, <2>1, ClientStepKeeps
  <2>3. ASSUME NEW g \in Clients, Stuck(g) PROVE Stuck(g)'
    <3>1. \A s \in Workers: work[s].client # g
      BY <2>3 DEF Stuck, Busy
    <3>2. /\ \A s \in Workers \ {t}: work'[s] = work[s]
          /\ status'[g] = status[g] /\ initialized'[g] = initialized[g]
      BY <1>1, <1>9, <3>1, ClientStepEffects
    <3>3. work'[t].client # g
      <4>1. work'[t].client \in {0, work[t].client}
        BY <1>1, <1>9, ClientStepOutcome DEF Idling
      <4> QED BY <3>1, <4>1, ClientBoundsAssumption DEF Clients
    <3>4. Busy(g)' = {}
      BY <3>1, <3>2, <3>3 DEF Busy
    <3> QED BY <2>3, <3>2, <3>4 DEF Stuck
  <2> QED BY <2>1, <2>2, <2>3 DEF ServersInv
<1> QED BY <1>2, <1>5, <1>6, <1>7, <1>8, <1>9 DEF ServersNext

\* What a server's status says of it holds for any number of requests,
\* reconnections, replaced clients and failures: connected means callable
\* where one thread at a time worked on the client, and a client in error
\* that was initialized stays there until somebody reconnects it
\* (mcp/registry.go:278-364).
THEOREM StatusIsTrue == ServersSpec => StatusTells
<1>1. ServersInit => ServersInv
  BY InvariantBegins
<1>2. ServersInv /\ [ServersNext]_serverVars => ServersInv'
  BY StepsKeep
<1>3. ServersInv => ConnectedCanBeCalled
  BY DEF ServersInv
<1>4. ServersInv /\ [ServersNext]_serverVars =>
        [\A g \in Clients: Stuck(g) /\ ~Stuck(g)' =>
           \E u \in Users: work'[u].client = g /\ work'[u].does = "reconnect"]_serverVars
  BY StepsKeep
<1> QED BY <1>1, <1>2, <1>3, <1>4, PTL DEF ServersSpec, StatusTells, ErrorNeedsReconnect

-----------------------------------------------------------------------------
\* What a refresh or a grant brings is new, and what is kept stays accepted but
\* for the token that is replaced.
LEMMA GrantedIsNew ==
    ASSUME NEW given, NEW kept, NEW most \in Nat, NEW g \in Granted(given, kept, most)
    PROVE  /\ g.token \in 1 .. most /\ g.token \notin kept
           /\ g.token \in g.accepted /\ g.accepted \subseteq given \cup {g.token}
           /\ \A t \in given \cap kept: t \in g.accepted
  BY DEF Granted, Unused, With

LEMMA RefreshedSame ==
    ASSUME NEW given, NEW old, NEW kept, NEW most \in Nat,
           NEW r \in Refreshed(given, old, kept, most, FALSE)
    PROVE  old \in given /\ r.token = old /\ r.accepted = given
<1>1. old \in given
  BY DEF Refreshed
<1> QED BY <1>1 DEF Refreshed

LEMMA RefreshedIsNew ==
    ASSUME NEW given, NEW old, NEW kept, NEW most \in Nat,
           NEW r \in Refreshed(given, old, kept, most, TRUE)
    PROVE  /\ r.token \in 1 .. most /\ r.token \notin kept
           /\ r.token \in r.accepted /\ r.accepted \subseteq given \cup {r.token}
           /\ \A t \in given \cap kept: t # old => t \in r.accepted
<1>1. old \in given
  BY DEF Refreshed
<1> QED BY <1>1 DEF Refreshed, Unused, With

\* Both are tokens the provider may give.
LEMMA GrantedTyped ==
    ASSUME NEW most \in Nat, NEW given, given \subseteq 1 .. most, NEW kept,
           NEW g \in Granted(given, kept, most)
    PROVE  g.token \in 1 .. most /\ g.accepted \subseteq 1 .. most
<1>1. g.token \in 1 .. most
  BY GrantedIsNew
<1>2. g.accepted \subseteq given \cup {g.token}
  BY GrantedIsNew
<1> QED BY <1>1, <1>2

LEMMA RefreshedTyped ==
    ASSUME NEW most \in Nat, NEW given, given \subseteq 1 .. most, NEW kept,
           NEW old, NEW rotating \in BOOLEAN,
           NEW r \in Refreshed(given, old, kept, most, rotating)
    PROVE  r.token \in 1 .. most /\ r.accepted \subseteq 1 .. most
<1>1. CASE rotating = TRUE
  <2>1. r \in Refreshed(given, old, kept, most, TRUE)
    BY <1>1
  <2>2. r.token \in 1 .. most /\ r.accepted \subseteq given \cup {r.token}
    BY <2>1, RefreshedIsNew
  <2> QED BY <2>2
<1>2. CASE rotating = FALSE
  <2>1. r \in Refreshed(given, old, kept, most, FALSE)
    BY <1>2
  <2>2. old \in given /\ r.token = old /\ r.accepted = given
    BY <2>1, RefreshedSame
  <2> QED BY <2>2
<1> QED BY <1>1, <1>2

-----------------------------------------------------------------------------
(* The user's token for a server.                                          *)

TokenTypes ==
    /\ token \in Stored \cup {NoToken}
    /\ accepted \subseteq 1 .. MaxTokens
    /\ user \in [Callers -> CallsOf]
    /\ rotates \in BOOLEAN
    /\ consented \in BOOLEAN /\ lapsed \in BOOLEAN
    /\ met \in BOOLEAN /\ mishap \in BOOLEAN

\* A token that is about to be stored is accepted and, by a server that
\* rotates them, in nobody else's hands: nobody can have it replaced.
Storing(c) == user[c].at \in {"save", "exchange"}
StoredSafely ==
    \A c \in Callers: Storing(c) =>
        /\ user[c].refresh \in accepted
        /\ rotates =>
            /\ token # NoToken => token.refresh # user[c].refresh
            /\ \A d \in Callers: d # c => user[d].refresh # user[c].refresh
Backed ==
    token # NoToken => token.refresh \in accepted \/ \E c \in Callers: user[c].at \in {"save", "clear"}

\* While one request at a time was at work.
OneAtATime ==
    /\ \A c, d \in Callers: ~Is(c, "idle") /\ ~Is(d, "idle") => c = d
    /\ \A c \in Callers: ~Is(c, "clear")
    /\ \A c \in Callers: Is(c, "got") =>
        /\ consented /\ user[c].refresh \in accepted
        /\ token # NoToken => token.refresh = user[c].refresh
    /\ \A c \in Callers: Is(c, "save") => consented
    /\ token # NoToken => consented
    /\ consented => token # NoToken \/ lapsed

TokenInv == TokenTypes /\ (~mishap => StoredSafely /\ Backed /\ (~met => OneAtATime))

LEMMA TokensBegin == TokensInit => TokenInv
<1> SUFFICES ASSUME TokensInit PROVE TokenInv
  OBVIOUS
<1>1. TokenTypes
  <2>1. Free \in CallsOf
    BY TokenBoundsAssumption DEF Free, CallsOf, CallStages
  <2> QED BY <2>1 DEF TokensInit, TokenTypes
<1>2. StoredSafely /\ Backed /\ OneAtATime
  BY DEF TokensInit, StoredSafely, Storing, Backed, OneAtATime, Is, Free
<1> QED BY <1>1, <1>2 DEF TokenInv

LEMMA TokensTyped == TokenTypes /\ [TokensNext]_tokenVars => TokenTypes'
<1> SUFFICES ASSUME TokenTypes, [TokensNext]_tokenVars PROVE TokenTypes'
  OBVIOUS
<1>1. Free \in CallsOf
  BY TokenBoundsAssumption DEF Free, CallsOf, CallStages
<1>2. ASSUME NEW c \in Callers, NEW stop \in CallStages, NEW r \in 0 .. MaxTokens,
             Moves(c, stop, r)
      PROVE  user' \in [Callers -> CallsOf]
  BY <1>2 DEF Moves, TokenTypes, CallsOf
<1>3. ASSUME NEW c \in Callers PROVE user[c].refresh \in 0 .. MaxTokens
  BY DEF TokenTypes, CallsOf
<1>4. ASSUME Setback \/ Well PROVE mishap' \in BOOLEAN
  BY <1>4 DEF Setback, Well, TokenTypes
<1>5. ASSUME NEW c \in Callers, NEW stop, NEW r, Begins(c, stop, r)
      PROVE  met' \in BOOLEAN /\ Moves(c, stop, r)
  BY <1>5, Zenon DEF Begins, Moves, TokenTypes
<1>6. ASSUME NEW c \in Callers, Exchange(c) PROVE TokenTypes'
  <2>1. CASE user' = user /\ UNCHANGED <<accepted, met>>
    BY <1>4, <1>6, <2>1 DEF Exchange, TokenTypes
  <2>2. ASSUME NEW g \in Granted(accepted, Kept, MaxTokens), accepted' = g.accepted,
               Begins(c, "exchange", g.token), Well
        PROVE  TokenTypes'
    <3>1. g.token \in 1 .. MaxTokens /\ g.accepted \subseteq 1 .. MaxTokens
      BY GrantedTyped, TokenBoundsAssumption DEF TokenTypes
    <3>2. user' \in [Callers -> CallsOf] /\ met' \in BOOLEAN
      BY <1>2, <1>5, <2>2, <3>1, TokenBoundsAssumption DEF CallStages
    <3> QED BY <1>4, <1>6, <2>2, <3>1, <3>2 DEF Exchange, TokenTypes
  <2> QED BY <1>6, <2>1, <2>2 DEF Exchange
<1>7. ASSUME NEW c \in Callers, RefreshToken(c) PROVE TokenTypes'
  <2>1. ASSUME NEW stop \in CallStages, Moves(c, stop, 0), UNCHANGED accepted PROVE TokenTypes'
    <3>1. user' \in [Callers -> CallsOf]
      BY <1>2, <2>1, TokenBoundsAssumption
    <3> QED BY <1>4, <1>7, <2>1, <3>1 DEF RefreshToken, TokenTypes
  <2>2. ASSUME NEW r \in Refreshed(accepted, user[c].refresh, Kept, MaxTokens, rotates),
               accepted' = r.accepted, Moves(c, "save", r.token)
        PROVE  TokenTypes'
    <3>1. r.token \in 1 .. MaxTokens /\ r.accepted \subseteq 1 .. MaxTokens
      <4>1. PICK had: had = user[c].refresh
        OBVIOUS
      <4> QED BY <2>2, <4>1, RefreshedTyped, TokenBoundsAssumption DEF TokenTypes
    <3>2. user' \in [Callers -> CallsOf]
      BY <1>2, <2>2, <3>1, TokenBoundsAssumption DEF CallStages
    <3> QED BY <1>4, <1>7, <2>2, <3>1, <3>2 DEF RefreshToken, TokenTypes
  <2>3. "save" \in CallStages /\ "clear" \in CallStages
    BY DEF CallStages
  <2> QED BY <1>7, <2>1, <2>2, <2>3 DEF RefreshToken
<1>8. ASSUME NEW c \in Callers, GetExpired(c) PROVE TokenTypes'
  <2>1. token.refresh \in 0 .. MaxTokens
    BY <1>8 DEF GetExpired, TokenTypes, Stored
  <2>2. user' \in [Callers -> CallsOf] /\ met' \in BOOLEAN
    BY <1>2, <1>5, <1>8, <2>1 DEF GetExpired, CallStages
  <2> QED BY <1>8, <2>2 DEF GetExpired, TokenTypes
<1>9. ASSUME NEW c \in Callers, SaveExchanged(c) \/ SaveRefreshed(c) PROVE TokenTypes'
  <2>1. \A brief \in BOOLEAN:
           [refresh |-> user[c].refresh, brief |-> brief, expired |-> FALSE] \in Stored
    BY <1>3 DEF Stored
  <2>2. token' \in Stored \cup {NoToken} /\ lapsed' \in BOOLEAN
    BY <1>9, <2>1 DEF SaveExchanged, SaveRefreshed, Save, TokenTypes
  <2>3. user' \in [Callers -> CallsOf]
    BY <1>1, <1>9 DEF SaveExchanged, SaveRefreshed, Rests, TokenTypes
  <2>4. mishap' \in BOOLEAN
    BY <1>4, <1>9 DEF SaveExchanged, SaveRefreshed
  <2> QED BY <1>9, <2>2, <2>3, <2>4 DEF SaveExchanged, SaveRefreshed, TokenTypes
<1>10. ASSUME NEW c \in Callers, ClearToken(c) PROVE TokenTypes'
  BY <1>1, <1>10 DEF ClearToken, Rests, TokenTypes
<1>11. CASE Login
  BY <1>11 DEF Login, TokenTypes
<1>12. CASE DisconnectUser
  <2>1. met' \in BOOLEAN
    BY <1>12, Zenon DEF DisconnectUser, TokenTypes
  <2> QED BY <1>12, <2>1 DEF DisconnectUser, TokenTypes
<1>13. CASE Expire
  BY <1>13 DEF Expire, TokenTypes, Stored
<1>14. CASE Withdraw
  BY <1>14 DEF Withdraw, Setback, TokenTypes
<1>15. CASE Lapse
  BY <1>15 DEF Lapse, TokenTypes
<1>16. CASE UNCHANGED tokenVars
  BY <1>16 DEF tokenVars, TokenTypes
<1> QED BY <1>6, <1>7, <1>8, <1>9, <1>10, <1>11, <1>12, <1>13, <1>14, <1>15, <1>16 DEF TokensNext

-----------------------------------------------------------------------------
\* What the argument is about while nothing failed.
Safe == StoredSafely /\ Backed /\ (~met => OneAtATime)

LEMMA ConsentExchanged ==
    ASSUME TokenTypes, Safe, NEW c \in Callers, Exchange(c), ~mishap'
    PROVE  Safe'
<1>1. PICK g \in Granted(accepted, Kept, MaxTokens): accepted' = g.accepted /\ Begins(c, "exchange", g.token)
  BY DEF Exchange, Setback
<1>2. /\ g.token \in 1 .. MaxTokens /\ g.token \notin Kept /\ g.token \in accepted'
      /\ \A t \in accepted \cap Kept: t \in accepted'
  BY <1>1, GrantedIsNew, TokenBoundsAssumption
<1>3. /\ user'[c] = [at |-> "exchange", refresh |-> g.token]
      /\ \A d \in Callers: d # c => user'[d] = user[d]
      /\ met' = (met \/ \E d \in Callers: ~Is(d, "idle"))
      /\ UNCHANGED <<token, rotates, consented, lapsed>> /\ user[c].at = "idle"
  BY <1>1 DEF Begins, TokenTypes, Exchange, Is
<1>4. \A d \in Callers: user[d].refresh \in Kept
  BY DEF Kept
<1>5. token # NoToken => token.refresh \in Kept
  BY DEF Kept
<1>6. StoredSafely'
  BY <1>2, <1>3, <1>4, <1>5 DEF Safe, StoredSafely, Storing
<1>7. Backed'
  BY <1>2, <1>3, <1>5 DEF Safe, Backed
<1>8. ASSUME ~met' PROVE OneAtATime'
  <2>1. OneAtATime /\ \A d \in Callers: user[d].at = "idle"
    BY <1>3, <1>8, Zenon DEF Safe, Is
  <2> QED BY <1>3, <2>1 DEF OneAtATime, Is
<1> QED BY <1>6, <1>7, <1>8 DEF Safe

LEMMA ConsentSaved ==
    ASSUME TokenTypes, Safe, NEW c \in Callers, SaveExchanged(c) \/ SaveRefreshed(c), ~mishap'
    PROVE  Safe'
<1>1. /\ Storing(c)
      /\ \E brief \in BOOLEAN:
           token' = [refresh |-> user[c].refresh, brief |-> brief, expired |-> FALSE]
      /\ user'[c] = Free /\ \A d \in Callers: d # c => user'[d] = user[d]
      /\ UNCHANGED <<accepted, rotates, met>>
  BY DEF SaveExchanged, SaveRefreshed, Save, Setback, Rests, Is, Storing, TokenTypes
<1>2. user[c].refresh \in accepted /\ user[c].refresh # 0
  BY <1>1 DEF Safe, StoredSafely, TokenTypes
<1>3. token' # NoToken /\ token'.refresh = user[c].refresh
  <2>1. user[c].refresh \in 0 .. MaxTokens
    BY DEF TokenTypes, CallsOf
  <2>2. PICK brief \in BOOLEAN:
           token' = [refresh |-> user[c].refresh, brief |-> brief, expired |-> FALSE]
    BY <1>1
  <2>3. token' \in Stored
    BY <2>1, <2>2 DEF Stored
  <2> QED BY <2>2, <2>3, NoTokenAssumption
<1>4. StoredSafely'
  <2> SUFFICES ASSUME NEW d \in Callers, Storing(d)'
               PROVE  /\ user'[d].refresh \in accepted'
                      /\ rotates' => /\ token'.refresh # user'[d].refresh
                                     /\ \A e \in Callers: e # d => user'[e].refresh # user'[d].refresh
    BY DEF StoredSafely
  <2>1. d # c /\ user'[d] = user[d] /\ Storing(d)
    BY <1>1 DEF Storing, Free
  <2>2. user[d].refresh \in accepted /\ user[d].refresh # 0
    BY <2>1 DEF Safe, StoredSafely, TokenTypes
  <2>3. rotates => \A e \in Callers: e # d => user[e].refresh # user[d].refresh
    BY <2>1 DEF Safe, StoredSafely
  <2>4. \A e \in Callers: user'[e].refresh \in {0, user[e].refresh}
    BY <1>1 DEF Free
  <2> QED BY <1>1, <1>3, <2>1, <2>2, <2>3, <2>4
<1>5. Backed'
  BY <1>1, <1>2, <1>3 DEF Backed
<1>6. ASSUME ~met' PROVE OneAtATime'
  <2>1. OneAtATime
    BY <1>1, <1>6 DEF Safe
  <2>2. \A d \in Callers: Is(d, "idle")'
    BY <1>1, <2>1 DEF OneAtATime, Is, Storing, Free
  <2>3. consented'
    BY <2>1 DEF SaveExchanged, SaveRefreshed, OneAtATime, Setback, Is, TokenTypes
  <2> QED BY <1>3, <2>2, <2>3 DEF OneAtATime, Is
<1> QED BY <1>4, <1>5, <1>6 DEF Safe

LEMMA ConsentRead ==
    ASSUME TokenTypes, Safe, NEW c \in Callers, GetExpired(c)
    PROVE  Safe'
<1>1. /\ user[c].at = "idle" /\ token # NoToken
      /\ user'[c] = [at |-> IF token.refresh = 0 THEN "clear" ELSE "got", refresh |-> token.refresh]
      /\ \A d \in Callers: d # c => user'[d] = user[d]
      /\ met' = (met \/ \E d \in Callers: ~Is(d, "idle"))
      /\ UNCHANGED <<token, accepted, rotates, consented, lapsed>>
  BY DEF GetExpired, Begins, Is, TokenTypes
<1>2. StoredSafely'
  BY <1>1 DEF Safe, StoredSafely, Storing
<1>3. Backed'
  BY <1>1 DEF Safe, Backed
<1>4. ASSUME ~met' PROVE OneAtATime'
  <2>1. OneAtATime /\ \A d \in Callers: user[d].at = "idle"
    BY <1>1, <1>4, Zenon DEF Safe, Is
  <2>2. token.refresh \in accepted /\ token.refresh # 0
    BY <1>1, <2>1 DEF Safe, Backed, TokenTypes
  <2> QED BY <1>1, <2>1, <2>2 DEF OneAtATime, Is
<1> QED BY <1>2, <1>3, <1>4 DEF Safe

LEMMA ConsentRefreshed ==
    ASSUME TokenTypes, Safe, NEW c \in Callers, RefreshToken(c), ~mishap'
    PROVE  Safe'
<1>1. user[c].at = "got" /\ UNCHANGED <<token, rotates, consented, lapsed, met>>
  BY DEF RefreshToken, Is
<1>2. PICK had: had = user[c].refresh
  OBVIOUS
<1>3. CASE had \notin accepted /\ Moves(c, "clear", 0) /\ UNCHANGED accepted
  <2>1. /\ user'[c] = [at |-> "clear", refresh |-> 0]
        /\ \A d \in Callers: d # c => user'[d] = user[d]
    BY <1>3 DEF Moves, TokenTypes
  <2>2. StoredSafely'
    BY <1>1, <1>3, <2>1 DEF Safe, StoredSafely, Storing, TokenTypes
  <2>3. Backed'
    BY <1>1, <1>3, <2>1 DEF Safe, Backed
  <2>4. met
    BY <1>1, <1>2, <1>3 DEF Safe, OneAtATime, Is
  <2> QED BY <1>1, <2>2, <2>3, <2>4 DEF Safe
<1>4. ASSUME NEW r \in Refreshed(accepted, had, Kept, MaxTokens, rotates), accepted' = r.accepted,
             Moves(c, "save", r.token)
      PROVE  Safe'
  <2>1. /\ user'[c] = [at |-> "save", refresh |-> r.token]
        /\ \A d \in Callers: d # c => user'[d] = user[d]
    BY <1>4 DEF Moves, TokenTypes
  <2>2. \A d \in Callers: user[d].refresh \in Kept
    BY DEF Kept
  <2>3. token # NoToken => token.refresh \in Kept
    BY DEF Kept
  <2>4. ASSUME rotates = FALSE PROVE StoredSafely'
    <3>0. r \in Refreshed(accepted, had, Kept, MaxTokens, FALSE)
      BY <2>4
    <3>1. had \in accepted /\ r.token = had /\ r.accepted = accepted
      BY <3>0, RefreshedSame, TokenBoundsAssumption
    <3> QED BY <1>1, <1>4, <2>1, <2>4, <3>1 DEF Safe, StoredSafely, Storing
  <2>5. ASSUME rotates = TRUE PROVE StoredSafely'
    <3>0. r \in Refreshed(accepted, had, Kept, MaxTokens, TRUE)
      BY <2>5
    <3>1. /\ r.token \notin Kept /\ r.token \in accepted'
          /\ \A t \in accepted \cap Kept: t # had => t \in accepted'
      BY <1>4, <3>0, RefreshedIsNew, TokenBoundsAssumption
    <3> QED BY <1>1, <1>2, <2>1, <2>2, <2>3, <2>5, <3>1 DEF Safe, StoredSafely, Storing
  <2>6. StoredSafely'
    BY <2>4, <2>5 DEF TokenTypes
  <2>7. Backed'
    BY <2>1 DEF Backed
  <2>8. ASSUME ~met' PROVE OneAtATime'
    <3>1. OneAtATime
      BY <1>1, <2>8 DEF Safe
    <3> QED BY <1>1, <2>1, <3>1 DEF OneAtATime, Is
  <2> QED BY <2>6, <2>7, <2>8 DEF Safe
<1> QED BY <1>2, <1>3, <1>4 DEF RefreshToken, Setback

LEMMA ConsentCleared ==
    ASSUME TokenTypes, Safe, NEW c \in Callers, ClearToken(c)
    PROVE  Safe'
<1>1. /\ user[c].at = "clear" /\ token' = NoToken /\ UNCHANGED <<accepted, rotates, consented, met>>
      /\ user'[c] = Free /\ \A d \in Callers: d # c => user'[d] = user[d]
  BY DEF ClearToken, Is, Rests, TokenTypes
<1>2. StoredSafely'
  BY <1>1 DEF Safe, StoredSafely, Storing, Free, TokenTypes
<1>3. Backed'
  BY <1>1 DEF Backed
<1>4. met
  BY <1>1 DEF Safe, OneAtATime, Is
<1> QED BY <1>1, <1>2, <1>3, <1>4 DEF Safe

LEMMA TokenStep == TokenInv /\ [TokensNext]_tokenVars => TokenInv'
<1> SUFFICES ASSUME TokenInv, [TokensNext]_tokenVars PROVE TokenInv'
  OBVIOUS
<1>1. TokenTypes /\ TokenTypes'
  BY TokensTyped DEF TokenInv
<1>2. ASSUME ~mishap' PROVE Safe'
  <2>1. Safe
    BY <1>1, <1>2 DEF TokenInv, Safe, TokensNext, tokenVars, Login, DisconnectUser, Expire, Lapse,
       Withdraw, Exchange, SaveExchanged, GetExpired, RefreshToken, SaveRefreshed, ClearToken,
       Save, Setback, Well, TokenTypes
  <2>2. ASSUME NEW c \in Callers,
               \/ Exchange(c) \/ SaveExchanged(c) \/ GetExpired(c) \/ RefreshToken(c)
               \/ SaveRefreshed(c) \/ ClearToken(c)
        PROVE  Safe'
    BY <1>1, <1>2, <2>1, <2>2, ConsentExchanged, ConsentSaved, ConsentRead, ConsentRefreshed,
       ConsentCleared
  <2>3. CASE Login
    BY <2>1, <2>3 DEF Login, Safe, StoredSafely, Storing, Backed, OneAtATime, Is
  <2>4. CASE DisconnectUser
    <3>1. StoredSafely' /\ Backed'
      BY <2>1, <2>4 DEF DisconnectUser, Safe, StoredSafely, Storing, Backed
    <3>2. ASSUME ~met' PROVE OneAtATime'
      <4>1. \A c \in Callers: user[c].at = "idle"
        BY <2>4, <3>2, Zenon DEF DisconnectUser, Is
      <4>2. token' = NoToken /\ ~consented' /\ user' = user
        BY <2>4 DEF DisconnectUser
      <4> QED BY <4>1, <4>2 DEF OneAtATime, Is
    <3> QED BY <3>1, <3>2 DEF Safe
  <2>5. CASE Expire
    <3>1. token' # NoToken /\ token'.refresh = token.refresh /\ token # NoToken
      BY <1>1, <2>5, NoTokenAssumption DEF Expire, TokenTypes, Stored
    <3> QED BY <2>1, <2>5, <3>1 DEF Expire, Safe, StoredSafely, Storing, Backed, OneAtATime, Is
  <2>6. CASE Withdraw
    BY <1>2, <2>6 DEF Withdraw, Setback
  <2>7. CASE Lapse
    BY <2>1, <2>7 DEF Lapse, Safe, StoredSafely, Storing, Backed, OneAtATime, Is
  <2>8. CASE UNCHANGED tokenVars
    BY <2>1, <2>8 DEF tokenVars, Safe, StoredSafely, Storing, Backed, OneAtATime, Is
  <2> QED BY <2>2, <2>3, <2>4, <2>5, <2>6, <2>7, <2>8 DEF TokensNext
<1> QED BY <1>1, <1>2 DEF TokenInv, Safe

\* The user's token for an MCP server (mcp/oauth2.go, handlers/mcp_oauth.go):
\* the one that is kept can be refreshed or is about to be replaced, and the
\* user stays connected, or not, as he chose last, unless two requests met or
\* Redis dropped the token for want of use.
THEOREM ConsentsLast == TokensSpec => []ConsentLasts
<1>1. TokenInv => ConsentLasts
  BY DEF TokenInv, ConsentLasts, Backed, OneAtATime
<1> QED BY <1>1, TokensBegin, TokenStep, PTL DEF TokensSpec

-----------------------------------------------------------------------------
(* The login of a browser.                                                 *)

LoginTypes ==
    /\ login \in Logins \cup {NoLogin}
    /\ keyAccepted \subseteq 1 .. MaxLoginTokens
    /\ keyRotates \in BOOLEAN
    /\ page \in [Pages -> Loads]
    /\ stage \in {"out", "state", "code", "in", "left"}
    /\ stale \in BOOLEAN /\ denied \in BOOLEAN
    /\ leaving \in BOOLEAN /\ inTime \in BOOLEAN /\ loginLapsed \in BOOLEAN

LeavingStops == {"idle", "revoke", "delete", "leave"}
\* What the requests do while the browser is at a stage.
StageSays ==
    /\ stage \in {"out", "state"} => \A p \in Pages: Doing(p, "idle")
    /\ stage = "code" =>
        /\ \A p, q \in Pages: ~Doing(p, "idle") /\ ~Doing(q, "idle") => p = q
        /\ \E p \in Pages: Doing(p, "create")
        /\ \A p \in Pages: page[p].at \in {"idle", "create"}
    /\ stage = "in" /\ ~leaving =>
        /\ login = NoLogin => loginLapsed
        /\ \A p \in Pages: page[p].at \in {"idle", "refresh", "update", "name"}
    /\ leaving => stage \in {"in", "left"} /\ \A p \in Pages: page[p].at # "create"
    /\ ~leaving => stage # "left" /\ ~inTime
    /\ inTime =>
        /\ login = NoLogin
        /\ \A p \in Pages: page[p].at \in LeavingStops
        /\ stage = "left" \/ \E p \in Pages: page[p].at \in LeavingStops \ {"idle"}

\* As long as the user stays logged in, what a request is about to store is
\* accepted and, if tokens are rotated, in nobody else's hands; and what is
\* stored is accepted, or its successor is about to be stored.
LoginFresh ==
    stage \in {"code", "in"} /\ ~leaving =>
        \A p \in Pages: page[p].at \in {"update", "create"} =>
            /\ page[p].copy.refresh \in keyAccepted
            /\ keyRotates =>
                /\ login # NoLogin => login.refresh # page[p].copy.refresh
                /\ \A q \in Pages: q # p => page[q].copy.refresh # page[p].copy.refresh
LoginBacked ==
    stage = "in" /\ ~leaving /\ login # NoLogin =>
        login.refresh \in keyAccepted \/ \E p \in Pages: Doing(p, "update")

LoginSafe == StageSays /\ LoginFresh /\ LoginBacked
LoginInv == LoginTypes /\ (~denied /\ ~stale => LoginSafe)

LEMMA LoginBegins == LoginInit => LoginInv
<1> SUFFICES ASSUME LoginInit PROVE LoginInv
  OBVIOUS
<1>1. Waiting \in Loads
  BY LoginBoundsAssumption DEF Waiting, NoCopy, Loads, Logins, Stops
<1>2. LoginTypes
  BY <1>1 DEF LoginInit, LoginTypes
<1>3. LoginSafe
  BY DEF LoginInit, LoginSafe, StageSays, LoginFresh, LoginBacked, Doing, Waiting
<1> QED BY <1>2, <1>3 DEF LoginInv

LEMMA LoginTyped == LoginTypes /\ [LoginNext]_loginVars => LoginTypes'
<1> SUFFICES ASSUME LoginTypes, [LoginNext]_loginVars PROVE LoginTypes'
  OBVIOUS
<1>1. Waiting \in Loads
  BY LoginBoundsAssumption DEF Waiting, NoCopy, Loads, Logins, Stops
<1>2. ASSUME NEW p \in Pages, NEW stop \in Stops, GoesTo(p, stop)
      PROVE  page' \in [Pages -> Loads]
  BY <1>2 DEF GoesTo, LoginTypes, Loads, Stops
<1>3. ASSUME NEW p \in Pages, NEW stop \in Stops, NEW copy \in Logins, NEW renews \in BOOLEAN,
             Takes(p, stop, copy, renews)
      PROVE  page' \in [Pages -> Loads]
  BY <1>3 DEF Takes, LoginTypes, Loads, Stops
<1>4. ASSUME NEW p \in Pages PROVE page[p].copy \in Logins
  BY DEF LoginTypes, Loads
<1>5. ASSUME NEW p \in Pages, Done(p) PROVE page' \in [Pages -> Loads]
  BY <1>1, <1>5 DEF Done, LoginTypes
<1>6. ASSUME Denied \/ Granting PROVE denied' \in BOOLEAN
  BY <1>6 DEF Denied, Granting, LoginTypes
<1>7. ASSUME NEW p \in Pages, Callback(p) PROVE LoginTypes'
  <2>1. denied' \in BOOLEAN
    BY <1>6, <1>7 DEF Callback
  <2>2. page' \in [Pages -> Loads] /\ keyAccepted' \subseteq 1 .. MaxLoginTokens
    <3>1. ASSUME NEW g \in Granted(keyAccepted, KeysKept, MaxLoginTokens), NEW named \in BOOLEAN,
                 keyAccepted' = g.accepted,
                 Takes(p, "create", [refresh |-> g.token, named |-> named], FALSE)
          PROVE  page' \in [Pages -> Loads] /\ keyAccepted' \subseteq 1 .. MaxLoginTokens
      <4>1. g.token \in 1 .. MaxLoginTokens /\ g.accepted \subseteq 1 .. MaxLoginTokens
        BY GrantedTyped, LoginBoundsAssumption DEF LoginTypes
      <4>2. [refresh |-> g.token, named |-> named] \in Logins
        BY <4>1, LoginBoundsAssumption DEF Logins
      <4> QED BY <1>3, <3>1, <4>1, <4>2 DEF Stops
    <3> QED BY <1>7, <3>1 DEF Callback, LoginTypes
  <2> QED BY <1>7, <2>1, <2>2 DEF Callback, LoginTypes, pastVars
<1>8. ASSUME NEW p \in Pages, Create(p) PROVE LoginTypes'
  BY <1>4, <1>5, <1>6, <1>8 DEF Create, LoginTypes, pastVars
<1>9. ASSUME NEW p \in Pages, GetLogin(p) PROVE LoginTypes'
  <2>1. login \in Logins
    BY <1>9 DEF GetLogin, LoginTypes
  <2>2. page' \in [Pages -> Loads]
    BY <1>3, <1>9, <2>1 DEF GetLogin, Stops
  <2> QED BY <1>9, <2>2 DEF GetLogin, LoginTypes, pastVars
<1>10. ASSUME NEW p \in Pages, Refresh(p) PROVE LoginTypes'
  <2>1. denied' \in BOOLEAN
    BY <1>6, <1>10 DEF Refresh
  <2>2. page' \in [Pages -> Loads] /\ keyAccepted' \subseteq 1 .. MaxLoginTokens
    <3>0. PICK had: had = page[p].copy.refresh
      OBVIOUS
    <3>1. ASSUME NEW r \in Refreshed(keyAccepted, had, KeysKept, MaxLoginTokens, keyRotates),
                 NEW named \in BOOLEAN, keyAccepted' = r.accepted,
                 Takes(p, "update", [refresh |-> r.token, named |-> named], TRUE)
          PROVE  page' \in [Pages -> Loads] /\ keyAccepted' \subseteq 1 .. MaxLoginTokens
      <4>1. r.token \in 1 .. MaxLoginTokens /\ r.accepted \subseteq 1 .. MaxLoginTokens
        BY RefreshedTyped, LoginBoundsAssumption DEF LoginTypes
      <4>2. [refresh |-> r.token, named |-> named] \in Logins
        BY <4>1, LoginBoundsAssumption DEF Logins
      <4> QED BY <1>3, <3>1, <4>1, <4>2 DEF Stops
    <3>2. \A named \in {page[p].copy.named, TRUE}: named \in BOOLEAN
      BY <1>4 DEF Logins
    <3>3. ASSUME TurnedDown(p), UNCHANGED keyAccepted
          PROVE  page' \in [Pages -> Loads] /\ keyAccepted' \subseteq 1 .. MaxLoginTokens
      BY <1>2, <1>5, <3>3 DEF TurnedDown, Stops, LoginTypes
    <3> QED BY <1>10, <3>0, <3>1, <3>2, <3>3 DEF Refresh
  <2> QED BY <1>10, <2>1, <2>2 DEF Refresh, LoginTypes, pastVars
<1>11. ASSUME NEW p \in Pages, Update(p) PROVE LoginTypes'
  <2>1. page' \in [Pages -> Loads]
    BY <1>2, <1>11 DEF Update, Stops
  <2>2. login' \in Logins \cup {NoLogin} /\ loginLapsed' \in BOOLEAN
    BY <1>4, <1>11 DEF Update, Write, LoginTypes
  <2>3. denied' \in BOOLEAN
    BY <1>6, <1>11 DEF Update
  <2> QED BY <1>11, <2>1, <2>2, <2>3 DEF Update, LoginTypes
<1>12. ASSUME NEW p \in Pages, BackfillName(p) PROVE LoginTypes'
  <2>1. [page[p].copy EXCEPT !.named = TRUE] \in Logins
    BY <1>4 DEF Logins
  <2>2. stale' \in BOOLEAN
    BY <1>12, Zenon DEF BackfillName, LoginTypes
  <2>3. login' \in Logins \cup {NoLogin} /\ loginLapsed' \in BOOLEAN
    BY <1>12, <2>1 DEF BackfillName, Write, LoginTypes
  <2>4. page' \in [Pages -> Loads]
    BY <1>5, <1>12 DEF BackfillName
  <2>5. stage' \in {"in", stage}
    BY <1>12 DEF BackfillName
  <2> QED BY <1>12, <2>2, <2>3, <2>4, <2>5 DEF BackfillName, LoginTypes
<1>13. ASSUME NEW p \in Pages, Logout(p) PROVE LoginTypes'
  <2>1. inTime' \in BOOLEAN
    BY <1>13, Zenon DEF Logout, LoginTypes, Harmless
  <2>2. page' \in [Pages -> Loads]
    <3>1. CASE login # NoLogin /\ Takes(p, "revoke", login, FALSE)
      BY <1>3, <3>1 DEF LoginTypes, Stops
    <3>2. CASE GoesTo(p, "leave")
      BY <1>2, <3>2 DEF Stops
    <3> QED BY <1>13, <3>1, <3>2 DEF Logout
  <2>3. denied' \in BOOLEAN
    BY <1>6, <1>13 DEF Logout
  <2> QED BY <1>13, <2>1, <2>2, <2>3 DEF Logout, LoginTypes
<1>14. ASSUME NEW p \in Pages, Revoke(p) PROVE LoginTypes'
  <2>1. page' \in [Pages -> Loads]
    BY <1>2, <1>14 DEF Revoke, Stops
  <2> QED BY <1>6, <1>14, <2>1 DEF Revoke, LoginTypes, pastVars
<1>15. ASSUME NEW p \in Pages, Delete(p) PROVE LoginTypes'
  <2>1. page' \in [Pages -> Loads]
    BY <1>2, <1>15 DEF Delete, Stops
  <2>2. inTime' \in BOOLEAN
    BY <1>15, Zenon DEF Delete, LoginTypes, Harmless
  <2>3. login' \in Logins \cup {NoLogin}
    BY <1>15 DEF Delete, LoginTypes
  <2>4. denied' \in BOOLEAN
    BY <1>6, <1>15 DEF Delete
  <2> QED BY <1>15, <2>1, <2>2, <2>3, <2>4 DEF Delete, LoginTypes
<1>16. ASSUME NEW p \in Pages, Leave(p) PROVE LoginTypes'
  BY <1>5, <1>16 DEF Leave, LoginTypes, pastVars
<1>17. CASE SaveState
  BY <1>17 DEF SaveState, LoginTypes, pastVars
<1>18. CASE EndGrant
  BY <1>6, <1>18 DEF EndGrant, LoginTypes, pastVars
<1>19. CASE LoginLapses
  BY <1>19 DEF LoginLapses, LoginTypes
<1>20. CASE UNCHANGED loginVars
  BY <1>20 DEF loginVars, LoginTypes, pastVars
<1> QED BY <1>7, <1>8, <1>9, <1>10, <1>11, <1>12, <1>13, <1>14, <1>15, <1>16, <1>17, <1>18, <1>19, <1>20
        DEF LoginNext

-----------------------------------------------------------------------------
LEMMA LoginGiven ==
    ASSUME LoginTypes, LoginSafe, NEW p \in Pages, Callback(p), ~denied'
    PROVE  LoginSafe'
<1>1. PICK g \in Granted(keyAccepted, KeysKept, MaxLoginTokens): \E named \in BOOLEAN:
         /\ keyAccepted' = g.accepted
         /\ Takes(p, "create", [refresh |-> g.token, named |-> named], FALSE)
  BY DEF Callback, Denied
<1>2. /\ g.token \in 1 .. MaxLoginTokens /\ g.token \notin KeysKept /\ g.token \in keyAccepted'
      /\ \A t \in keyAccepted \cap KeysKept: t \in keyAccepted'
  BY <1>1, GrantedIsNew, LoginBoundsAssumption
<1>3. /\ page'[p].at = "create" /\ page'[p].copy.refresh = g.token
      /\ \A q \in Pages: q # p => page'[q] = page[q]
      /\ stage = "state" /\ stage' = "code" /\ UNCHANGED <<login, keyRotates, leaving, inTime>>
      /\ ~leaving /\ ~inTime
  BY <1>1 DEF Callback, Denied, Takes, LoginTypes, pastVars, LoginSafe, StageSays
<1>4. \A q \in Pages: page[q].at = "idle" /\ page[q].copy.refresh \in KeysKept
  BY <1>3 DEF LoginSafe, StageSays, Doing, KeysKept
<1>5. login # NoLogin => login.refresh \in KeysKept
  BY DEF KeysKept
<1>6. StageSays' /\ LoginBacked'
  BY <1>3, <1>4 DEF StageSays, LoginBacked, Doing
<1>7. LoginFresh'
  BY <1>2, <1>3, <1>4, <1>5 DEF LoginFresh
<1> QED BY <1>6, <1>7 DEF LoginSafe

LEMMA LoginCreated ==
    ASSUME LoginTypes, LoginSafe, NEW p \in Pages, Create(p), ~denied'
    PROVE  LoginSafe'
<1>1. /\ page[p].at = "create" /\ login' = page[p].copy /\ stage' = "in"
      /\ page'[p].at = "idle" /\ \A q \in Pages: q # p => page'[q] = page[q]
      /\ UNCHANGED <<keyRotates, keyAccepted, leaving, inTime>>
  BY DEF Create, Denied, Done, Doing, Waiting, LoginTypes, pastVars
<1>2. stage = "code" /\ ~leaving /\ ~inTime /\ \A q \in Pages: q # p => page[q].at = "idle"
  BY <1>1 DEF LoginSafe, StageSays, Doing, LoginTypes
<1>3. login' \in Logins /\ login'.refresh \in keyAccepted'
  BY <1>1, <1>2 DEF LoginSafe, LoginFresh, LoginTypes, Loads
<1>4. login' # NoLogin
  BY <1>3, NoLoginAssumption
<1>5. \A q \in Pages: page'[q].at = "idle"
  BY <1>1, <1>2
<1> QED BY <1>1, <1>2, <1>3, <1>4, <1>5 DEF LoginSafe, StageSays, LoginFresh, LoginBacked, Doing

LEMMA LoginRead ==
    ASSUME LoginTypes, LoginSafe, NEW p \in Pages, GetLogin(p)
    PROVE  LoginSafe'
<1>1. /\ page[p].at = "idle" /\ stage = "in" /\ login # NoLogin
      /\ page'[p].at \in {"refresh", "name"} /\ page'[p].copy = login
      /\ \A q \in Pages: q # p => page'[q] = page[q]
      /\ UNCHANGED <<login, stage, keyRotates, keyAccepted, leaving, inTime, loginLapsed>>
      /\ ~inTime
  BY DEF GetLogin, Takes, Doing, LoginTypes, pastVars, LoginSafe, StageSays
<1>2. StageSays'
  BY <1>1 DEF LoginSafe, StageSays, Doing
<1>3. LoginFresh'
  BY <1>1 DEF LoginSafe, LoginFresh
<1>4. LoginBacked'
  BY <1>1 DEF LoginSafe, LoginBacked, Doing
<1> QED BY <1>2, <1>3, <1>4 DEF LoginSafe

LEMMA LoginRefreshed ==
    ASSUME LoginTypes, LoginSafe, NEW p \in Pages, Refresh(p), ~denied'
    PROVE  LoginSafe'
<1>1. /\ page[p].at = "refresh"
      /\ UNCHANGED <<login, stage, keyRotates, leaving, inTime, loginLapsed>>
      /\ stage \in {"in", "left"} /\ ~inTime
  BY DEF Refresh, Doing, LoginSafe, StageSays, LoginTypes, pastVars, LeavingStops
<1>2. PICK had: had = page[p].copy.refresh
  OBVIOUS
<1>3. CASE TurnedDown(p) /\ UNCHANGED keyAccepted
  <2>1. /\ page'[p].at \in {"idle", "name"} /\ page'[p].copy.refresh \in {0, had}
        /\ \A q \in Pages: q # p => page'[q] = page[q]
    BY <1>2, <1>3 DEF TurnedDown, Done, GoesTo, Waiting, NoCopy, LoginTypes, Loads
  <2>2. StageSays'
    BY <1>1, <2>1 DEF LoginSafe, StageSays, Doing
  <2>3. LoginFresh'
    BY <1>1, <1>2, <1>3, <2>1 DEF LoginSafe, LoginFresh, LoginTypes
  <2>4. LoginBacked'
    BY <1>1, <1>3, <2>1 DEF LoginSafe, LoginBacked, Doing
  <2> QED BY <2>2, <2>3, <2>4 DEF LoginSafe
<1>4. ASSUME NEW r \in Refreshed(keyAccepted, had, KeysKept, MaxLoginTokens, keyRotates), NEW named,
             keyAccepted' = r.accepted,
             Takes(p, "update", [refresh |-> r.token, named |-> named], TRUE)
      PROVE  LoginSafe'
  <2>1. /\ page'[p].at = "update" /\ page'[p].copy.refresh = r.token
        /\ \A q \in Pages: q # p => page'[q] = page[q]
    BY <1>4 DEF Takes, LoginTypes
  <2>2. \A q \in Pages: page[q].copy.refresh \in KeysKept
    BY DEF KeysKept
  <2>3. login # NoLogin => login.refresh \in KeysKept
    BY DEF KeysKept
  <2>4. StageSays'
    BY <1>1, <2>1 DEF LoginSafe, StageSays, Doing
  <2>5. ASSUME keyRotates = FALSE PROVE LoginFresh'
    <3>0. r \in Refreshed(keyAccepted, had, KeysKept, MaxLoginTokens, FALSE)
      BY <2>5
    <3>1. had \in keyAccepted /\ r.token = had /\ r.accepted = keyAccepted
      BY <3>0, RefreshedSame, LoginBoundsAssumption
    <3> QED BY <1>1, <1>4, <2>1, <2>5, <3>1 DEF LoginSafe, LoginFresh
  <2>6. ASSUME keyRotates = TRUE PROVE LoginFresh'
    <3>0. r \in Refreshed(keyAccepted, had, KeysKept, MaxLoginTokens, TRUE)
      BY <2>6
    <3>1. /\ r.token \notin KeysKept /\ r.token \in keyAccepted'
          /\ \A t \in keyAccepted \cap KeysKept: t # had => t \in keyAccepted'
      BY <1>4, <3>0, RefreshedIsNew, LoginBoundsAssumption
    <3> QED BY <1>1, <1>2, <2>1, <2>2, <2>3, <2>6, <3>1 DEF LoginSafe, LoginFresh
  <2>7. LoginFresh'
    BY <2>5, <2>6 DEF LoginTypes
  <2>8. LoginBacked'
    BY <2>1 DEF LoginBacked, Doing
  <2> QED BY <2>4, <2>7, <2>8 DEF LoginSafe
<1> QED BY <1>2, <1>3, <1>4 DEF Refresh, Denied

LEMMA LoginUpdated ==
    ASSUME LoginTypes, LoginSafe, NEW p \in Pages, Update(p), ~denied'
    PROVE  LoginSafe'
<1>1. /\ page[p].at = "update" /\ login' = page[p].copy
      /\ page'[p].at = "name" /\ page'[p].copy = page[p].copy
      /\ \A q \in Pages: q # p => page'[q] = page[q]
      /\ UNCHANGED <<stage, keyRotates, keyAccepted, leaving, inTime>>
      /\ stage \in {"in", "left"} /\ ~inTime
  BY DEF Update, Write, Denied, GoesTo, Doing, LoginSafe, StageSays, LoginTypes, Loads, LeavingStops
<1>2. login' \in Logins /\ login' # NoLogin
  BY <1>1, NoLoginAssumption DEF LoginTypes, Loads
<1>3. StageSays'
  BY <1>1, <1>2 DEF LoginSafe, StageSays, Doing
<1>4. LoginFresh'
  BY <1>1, <1>2 DEF LoginSafe, LoginFresh
<1>5. LoginBacked'
  BY <1>1 DEF LoginSafe, LoginBacked, LoginFresh, Doing
<1> QED BY <1>3, <1>4, <1>5 DEF LoginSafe

LEMMA LoginNamed ==
    ASSUME LoginTypes, LoginSafe, NEW p \in Pages, BackfillName(p), ~stale'
    PROVE  LoginSafe'
<1>1. /\ page[p].at = "name" /\ page'[p].at = "idle" /\ page'[p].copy.refresh = 0
      /\ \A q \in Pages: q # p => page'[q] = page[q]
      /\ UNCHANGED <<keyRotates, keyAccepted, leaving, inTime>>
      /\ stage \in {"in", "left"} /\ stage' \in {"in", stage} /\ ~inTime
      /\ ~leaving => stage = "in"
  BY DEF BackfillName, Done, Doing, Waiting, NoCopy, LoginSafe, StageSays, LoginTypes, LeavingStops
<1>2. /\ login # NoLogin <=> login' # NoLogin
      /\ login'.refresh = login.refresh
      /\ login' = NoLogin => loginLapsed' = loginLapsed
  <2>1. CASE UNCHANGED <<login, loginLapsed>>
    BY <2>1
  <2>2. CASE login = page[p].copy /\ login' = [page[p].copy EXCEPT !.named = TRUE]
    <3>1. page[p].copy \in Logins
      BY DEF LoginTypes, Loads
    <3>2. login' \in Logins /\ login'.refresh = page[p].copy.refresh
      BY <2>2, <3>1 DEF Logins
    <3> QED BY <2>2, <3>1, <3>2, NoLoginAssumption
  <2> QED BY <2>1, <2>2, Zenon DEF BackfillName, Write
<1>3. StageSays'
  BY <1>1, <1>2 DEF LoginSafe, StageSays, Doing
<1>4. LoginFresh'
  BY <1>1, <1>2 DEF LoginSafe, LoginFresh, LoginTypes
<1>5. LoginBacked'
  BY <1>1, <1>2 DEF LoginSafe, LoginBacked, Doing
<1> QED BY <1>3, <1>4, <1>5 DEF LoginSafe

\* A request that logs out: whether one is about to write is noted.
LEMMA LoginLeft ==
    ASSUME LoginTypes, LoginSafe, NEW p \in Pages, Logout(p), ~denied'
    PROVE  LoginSafe'
<1>1. /\ stage = "in" /\ leaving' = TRUE /\ UNCHANGED <<login, stage>>
      /\ page[p].at = "idle" /\ page'[p].at \in {"revoke", "leave"}
      /\ \A q \in Pages: q # p => page'[q] = page[q]
  BY DEF Logout, Denied, Doing, Takes, GoesTo, LoginTypes, Loads
<1>2. inTime' => login = NoLogin /\ \A q \in Pages: page[q].at \in LeavingStops
  <2>1. CASE login # NoLogin /\ UNCHANGED inTime
    BY <2>1 DEF LoginSafe, StageSays
  <2>2. CASE login = NoLogin /\ inTime' = Harmless
    BY <2>2, Zenon DEF Harmless, LeavingStops
  <2> QED BY <2>1, <2>2 DEF Logout, Denied
<1>3. \A q \in Pages: page[q].at # "create"
  BY <1>1 DEF LoginSafe, StageSays
<1>4. StageSays'
  BY <1>1, <1>2, <1>3 DEF StageSays, LeavingStops
<1> QED BY <1>1, <1>4 DEF LoginSafe, LoginFresh, LoginBacked

LEMMA LoginEnded ==
    ASSUME LoginTypes, LoginSafe, NEW p \in Pages, Revoke(p) \/ Delete(p), ~denied'
    PROVE  LoginSafe'
<1>1. /\ page[p].at \in {"revoke", "delete"} /\ page'[p].at \in {"delete", "leave"}
      /\ UNCHANGED <<stage, leaving>>
      /\ \A q \in Pages: q # p => page'[q] = page[q]
  BY DEF Revoke, Delete, Denied, GoesTo, Doing, LoginTypes, Loads, pastVars
<1>2. leaving
  BY <1>1 DEF LoginSafe, StageSays, LoginTypes, Doing
<1>3. inTime' => login' = NoLogin /\ \A q \in Pages: page[q].at \in LeavingStops
  <2>1. CASE UNCHANGED <<login, inTime>>
    BY <2>1 DEF LoginSafe, StageSays
  <2>2. CASE login' = NoLogin /\ inTime' = Harmless
    BY <2>2, Zenon DEF Harmless, LeavingStops
  <2> QED BY <2>1, <2>2 DEF Revoke, Delete, Denied, pastVars
<1>4. StageSays'
  BY <1>1, <1>2, <1>3 DEF LoginSafe, StageSays, LeavingStops
<1> QED BY <1>1, <1>2, <1>4 DEF LoginSafe, LoginFresh, LoginBacked

LEMMA CookieTaken ==
    ASSUME LoginTypes, LoginSafe, NEW p \in Pages, Leave(p)
    PROVE  LoginSafe'
<1>1. /\ page[p].at = "leave" /\ page'[p].at = "idle" /\ stage' = "left"
      /\ UNCHANGED <<login, leaving, inTime>>
      /\ \A q \in Pages: q # p => page'[q] = page[q]
  BY DEF Leave, Done, Waiting, Doing, LoginTypes, pastVars
<1>2. leaving
  BY <1>1 DEF LoginSafe, StageSays, LoginTypes, Doing
<1>3. StageSays'
  BY <1>1, <1>2 DEF LoginSafe, StageSays, LeavingStops
<1> QED BY <1>1, <1>3 DEF LoginSafe, LoginFresh, LoginBacked

\* A document that lapses is noted.
LEMMA LoginGone ==
    ASSUME LoginTypes, LoginSafe, LoginLapses
    PROVE  LoginSafe'
<1>1. /\ login' = NoLogin /\ loginLapsed' = TRUE
      /\ UNCHANGED <<stage, keyRotates, keyAccepted, page, leaving, inTime>>
  BY DEF LoginLapses
<1>2. StageSays'
  BY <1>1 DEF LoginSafe, StageSays, Doing
<1>3. LoginFresh'
  BY <1>1 DEF LoginSafe, LoginFresh
<1>4. LoginBacked'
  BY <1>1 DEF LoginBacked
<1> QED BY <1>2, <1>3, <1>4 DEF LoginSafe

LEMMA LoginStep == LoginInv /\ [LoginNext]_loginVars => LoginInv'
<1> SUFFICES ASSUME LoginInv, [LoginNext]_loginVars PROVE LoginInv'
  OBVIOUS
<1>1. LoginTypes /\ LoginTypes'
  BY LoginTyped DEF LoginInv
<1>2. ASSUME ~denied', ~stale' PROVE LoginSafe'
  <2>1. ~denied
    BY <1>1, <1>2 DEF LoginNext, loginVars, SaveState, EndGrant, Callback, Create, GetLogin, Refresh,
       Update, BackfillName, Logout, Revoke, Delete, Leave, LoginLapses, Denied, Granting, LoginTypes
  <2>2. ~stale
    BY <1>1, <1>2 DEF LoginNext, loginVars, SaveState, EndGrant, Callback, Create, GetLogin, Refresh,
       Update, BackfillName, Logout, Revoke, Delete, Leave, LoginLapses, LoginTypes
  <2>3. LoginSafe
    BY <2>1, <2>2 DEF LoginInv
  <2>4. ASSUME NEW p \in Pages,
               \/ Callback(p) \/ Create(p) \/ GetLogin(p) \/ Refresh(p) \/ Update(p)
               \/ BackfillName(p) \/ Logout(p) \/ Revoke(p) \/ Delete(p) \/ Leave(p)
        PROVE  LoginSafe'
    BY <1>1, <1>2, <2>3, <2>4, LoginGiven, LoginCreated, LoginRead, LoginRefreshed, LoginUpdated,
       LoginNamed, LoginLeft, LoginEnded, CookieTaken
  <2>5. CASE SaveState
    BY <2>3, <2>5 DEF SaveState, LoginSafe, StageSays, LoginFresh, LoginBacked, Doing, pastVars
  <2>6. CASE EndGrant
    BY <1>2, <2>6 DEF EndGrant, Denied
  <2>7. CASE UNCHANGED loginVars
    BY <2>3, <2>7 DEF loginVars, pastVars, LoginSafe, StageSays, LoginFresh, LoginBacked, Doing
  <2> QED BY <1>1, <2>3, <2>4, <2>5, <2>6, <2>7, LoginGone DEF LoginNext
<1> QED BY <1>1, <1>2 DEF LoginInv

\* The login of a browser (middleware/auth.go, handlers/auth.go): between
\* requests, who is logged in holds a token that Keycloak accepts however many
\* requests refreshed it in parallel, unless the document lapsed; and who logged
\* out while no request was about to write stays out.
THEOREM LoginsLast == LoginSpec => []LoginLasts
<1>1. LoginInv => LoginLasts
  <2> SUFFICES ASSUME LoginInv, ~denied, ~stale, \A p \in Pages: page[p].at = "idle"
               PROVE  /\ stage = "in" /\ ~leaving =>
                            IF login = NoLogin THEN loginLapsed ELSE login.refresh \in keyAccepted
                      /\ inTime => stage = "left" /\ login = NoLogin
    BY DEF LoginLasts, Doing
  <2>1. StageSays /\ LoginBacked
    BY DEF LoginInv, LoginSafe
  <2> QED BY <2>1 DEF StageSays, LoginBacked, Doing, LeavingStops
<1> QED BY <1>1, LoginBegins, LoginStep, PTL DEF LoginSpec
-----------------------------------------------------------------------------
(* The client of a server.                                                 *)

SaversOf == [at: SaverStages, asked: OauthSettings, found: OauthSettings, foreign: BOOLEAN]
\* The types of what the argument is about.
DiscoveryTypes ==
    /\ oauthRow \in OauthSettings \cup {NoOauthRow}
    /\ names \in MaybeServer
    /\ registering \subseteq AuthServers
    /\ saver \in [Savers -> SaversOf]
    /\ metadataCache \in [AuthServers -> {"none", "old", "new"}]
    /\ outages \in 0 .. MaxOutages

\* A client that was registered is one of the server it is stored with,
\* unless the administrator gave another server than was found.
Fits(found, foreign) == found.client \in AuthServers => found.client = found.server \/ foreign
Complete(found) == found.server \in registering => found.client # NoClient

\* While no call failed and no server moved, what is known is present.
Undisturbed ==
    outages = MaxOutages => moved = {} /\ \A a \in AuthServers: metadataCache[a] # "new"
\* The administrator registers no client; what was found is a server without
\* one until it is registered; what is about to be stored fits.
SaverFits(w) ==
    /\ saver[w].asked.client \in {"given", NoClient}
    /\ saver[w].at \in {"metadata", "register"} =>
        saver[w].found.server \in AuthServers /\ saver[w].found.client = NoClient
    /\ Fits(saver[w].found, saver[w].foreign)
    /\ outages = MaxOutages /\ saver[w].at = "store" => Complete(saver[w].found)

DiscoveryInv ==
    /\ DiscoveryTypes /\ Undisturbed
    /\ \A w \in Savers: SaverFits(w)
    /\ ClientFits

LEMMA DiscoveryBegins == DiscoveryInit => DiscoveryInv
<1> SUFFICES ASSUME DiscoveryInit PROVE DiscoveryInv
  OBVIOUS
<1>1. Pausing \in SaversOf
  BY DEF Pausing, SaversOf, NothingFound, OauthSettings, MaybeServer, MaybeClient, SaverStages
<1>2. DiscoveryTypes
  BY <1>1, OutagesAssumption DEF DiscoveryInit, DiscoveryTypes
<1>3. Undisturbed
  BY DEF DiscoveryInit, Undisturbed
<1>4. \A w \in Savers: SaverFits(w)
  BY AuthServersAssumption DEF DiscoveryInit, SaverFits, Fits, Pausing, NothingFound
<1>5. ClientFits
  BY DEF DiscoveryInit, ClientFits
<1> QED BY <1>2, <1>3, <1>4, <1>5 DEF DiscoveryInv

\* A request goes on to something that fits, and the cache is no worse.
LEMMA SaverMoves ==
    ASSUME DiscoveryInv, NEW w \in Savers, NEW s \in SaversOf, saver' = [saver EXCEPT ![w] = s],
           UNCHANGED <<oauthRow, worldVars, elsewhere>>,
           metadataCache' \in [AuthServers -> {"none", "old", "new"}],
           outages' \in 0 .. MaxOutages, outages' = outages \/ outages' = outages - 1,
           outages' = MaxOutages => \A a \in AuthServers: metadataCache'[a] # "new",
           s.asked.client \in {"given", NoClient},
           s.at \in {"metadata", "register"} =>
                s.found.server \in AuthServers /\ s.found.client = NoClient,
           Fits(s.found, s.foreign),
           outages' = MaxOutages /\ s.at = "store" => Complete(s.found)
    PROVE  DiscoveryInv'
<1>1. saver'[w] = s /\ \A v \in Savers: v # w => saver'[v] = saver[v]
  BY DEF DiscoveryInv, DiscoveryTypes
<1>2. outages' = MaxOutages => outages = MaxOutages
  BY OutagesAssumption DEF DiscoveryInv, DiscoveryTypes
<1>3. DiscoveryTypes'
  BY DEF DiscoveryInv, DiscoveryTypes, worldVars
<1>4. Undisturbed'
  BY <1>2 DEF DiscoveryInv, Undisturbed, worldVars
<1>5. \A v \in Savers: SaverFits(v)'
  BY <1>1, <1>2 DEF DiscoveryInv, SaverFits, Fits, Complete, worldVars
<1>6. ClientFits'
  BY <1>2 DEF DiscoveryInv, ClientFits, worldVars
<1> QED BY <1>3, <1>4, <1>5, <1>6 DEF DiscoveryInv

\* What was found and what was asked make something that fits.
LEMMA MergedFits ==
    ASSUME DiscoveryInv, NEW w \in Savers,
           NEW found \in OauthSettings, found = NothingFound \/ found.server \in AuthServers,
           found.client \in {NoClient, found.server},
           Merges(w, found)
    PROVE  \E s \in SaversOf: /\ saver' = [saver EXCEPT ![w] = s]
                              /\ s.at = "ensure" /\ s.asked.client = NoClient
                              /\ Fits(s.found, s.foreign)
<1> DEFINE f == Merged(Asked(w), found)
           o == NoServer \notin {Asked(w).server, found.server} /\ Asked(w).server # found.server
           s == [at |-> "ensure", asked |-> NothingFound, found |-> f, foreign |-> o]
<1>1. Asked(w) \in OauthSettings /\ Asked(w).client \in {"given", NoClient}
  BY DEF DiscoveryInv, DiscoveryTypes, SaverFits, Asked, SaversOf
<1>2. f \in OauthSettings
  BY <1>1 DEF Merged, OauthSettings
<1>3. NothingFound \in OauthSettings /\ NothingFound.client = NoClient
  BY DEF NothingFound, OauthSettings, MaybeServer, MaybeClient
<1>4. o \in BOOLEAN
  OBVIOUS
<1>5. s \in SaversOf
  BY <1>2, <1>3, <1>4 DEF SaversOf, SaverStages
<1>6. Fits(f, o)
  <2>1. SUFFICES ASSUME f.client \in AuthServers, f.client # f.server PROVE o
    BY Zenon DEF Fits
  <2>2. Asked(w).client = NoClient /\ found.client = f.client
    BY <1>1, <2>1, AuthServersAssumption DEF Merged
  <2>3. found.server = found.client /\ found.server \in AuthServers
    BY <2>1, <2>2, AuthServersAssumption
  <2>4. Asked(w).server # NoServer /\ f.server = Asked(w).server
    BY <2>1, <2>2, <2>3 DEF Merged
  <2> QED BY <2>1, <2>2, <2>3, <2>4, AuthServersAssumption
<1>7. saver' = [saver EXCEPT ![w] = s]
  BY DEF Merges
<1>8. s.at = "ensure" /\ s.asked.client = NoClient /\ s.found = f /\ s.foreign = o
  BY <1>3
<1>9. Fits(s.found, s.foreign)
  BY <1>6, <1>8
<1> HIDE DEF s
<1> QED BY <1>5, <1>7, <1>8, <1>9

\* A call that reads the metadata of a server leaves the cache sound.
LEMMA CacheKept ==
    ASSUME DiscoveryInv, NEW a \in MaybeServer, UNCHANGED worldVars,
           outages' = outages \/ Outage, DiscoverMetadata(a) \/ UNCHANGED metadataCache
    PROVE  /\ metadataCache' \in [AuthServers -> {"none", "old", "new"}]
           /\ outages' \in 0 .. MaxOutages
           /\ outages' = outages \/ outages' = outages - 1
           /\ outages' = MaxOutages =>
                Calm /\ moved = {} /\ \A b \in AuthServers: metadataCache'[b] # "new"
<1>1. outages' \in 0 .. MaxOutages /\ (outages' = outages \/ outages' = outages - 1)
  BY OutagesAssumption DEF Outage, DiscoveryInv, DiscoveryTypes
<1>2. metadataCache' \in [AuthServers -> {"none", "old", "new"}]
  BY DEF DiscoverMetadata, Metadata, Present, DiscoveryInv, DiscoveryTypes
<1>3. outages' = MaxOutages => Calm /\ moved = {} /\ \A b \in AuthServers: metadataCache[b] # "new"
  BY OutagesAssumption DEF Outage, Calm, DiscoveryInv, DiscoveryTypes, Undisturbed
<1>4. outages' = MaxOutages => \A b \in AuthServers: metadataCache'[b] # "new"
  BY <1>3 DEF DiscoverMetadata, Metadata, Present, DiscoveryInv, DiscoveryTypes
<1> QED BY <1>1, <1>2, <1>3, <1>4

LEMMA SaverSteps ==
    ASSUME DiscoveryInv, NEW w \in Savers,
           ProbeMcp(w) \/ ReadMetadata(w) \/ RegisterFound(w) \/ EnsureClientRegistered(w)
    PROVE  DiscoveryInv'
<1>0. /\ saver[w] \in SaversOf /\ SaverFits(w) /\ Found(w) = saver[w].found /\ Found(w) \in OauthSettings
      /\ Found(w).server \in MaybeServer /\ UNCHANGED <<oauthRow, worldVars, elsewhere>>
  BY DEF DiscoveryInv, DiscoveryTypes, SaversOf, OauthSettings, Found, ProbeMcp, ReadMetadata,
         RegisterFound, EnsureClientRegistered
<1>1. outages' = outages \/ Outage
  BY DEF ProbeMcp, ReadMetadata, RegisterFound, EnsureClientRegistered, Calm
<1>2. \E a \in MaybeServer: DiscoverMetadata(a) \/ UNCHANGED metadataCache
  BY <1>0 DEF ProbeMcp, ReadMetadata, RegisterFound, EnsureClientRegistered
<1>3. /\ metadataCache' \in [AuthServers -> {"none", "old", "new"}]
      /\ outages' \in 0 .. MaxOutages /\ (outages' = outages \/ outages' = outages - 1)
      /\ outages' = MaxOutages =>
            Calm /\ moved = {} /\ \A b \in AuthServers: metadataCache'[b] # "new"
  BY <1>0, <1>1, <1>2, CacheKept
<1>4. ASSUME NEW found \in OauthSettings, found = NothingFound \/ found.server \in AuthServers,
             found.client \in {NoClient, found.server}, Merges(w, found)
      PROVE  DiscoveryInv'
  <2>1. PICK s \in SaversOf: /\ saver' = [saver EXCEPT ![w] = s]
                             /\ s.at = "ensure" /\ s.asked.client = NoClient
                             /\ Fits(s.found, s.foreign)
    BY <1>4, MergedFits
  <2> QED BY <1>0, <1>3, <2>1, SaverMoves
\* On with the same request, or with what it has found.
<1>5. ASSUME NEW stop \in SaverStages, NEW found \in OauthSettings,
             saver' = [saver EXCEPT ![w].at = stop, ![w].found = found],
             stop \in {"metadata", "register"} => found.server \in AuthServers /\ found.client = NoClient,
             Fits(found, saver[w].foreign),
             outages' = MaxOutages /\ stop = "store" => Complete(found)
      PROVE  DiscoveryInv'
  <2> DEFINE s == [saver[w] EXCEPT !.at = stop, !.found = found]
  <2>1. s \in SaversOf
    BY <1>0 DEF SaversOf
  <2>2. saver' = [saver EXCEPT ![w] = s]
    BY <1>5 DEF DiscoveryInv, DiscoveryTypes
  <2>3. /\ s.at = stop /\ s.found = found /\ s.foreign = saver[w].foreign
        /\ s.asked.client \in {"given", NoClient}
    BY <1>0 DEF SaversOf, SaverFits
  <2> HIDE DEF s
  <2> QED BY <1>0, <1>3, <1>5, <2>1, <2>2, <2>3, SaverMoves
<1>6. ASSUME NEW stop \in SaverStages, Onward(w, stop)
      PROVE  saver' = [saver EXCEPT ![w].at = stop, ![w].found = Found(w)]
  BY <1>0, <1>6 DEF Onward, DiscoveryInv, DiscoveryTypes, SaversOf, Found
<1>7. NothingFound \in OauthSettings /\ NothingFound.client = NoClient
  BY DEF NothingFound, OauthSettings, MaybeServer, MaybeClient
<1>8. CASE ProbeMcp(w)
  <2>1. CASE Merges(w, NothingFound)
    BY <1>4, <1>7, <2>1
  <2>2. CASE names # NoServer /\ Finds(w, "metadata", [NothingFound EXCEPT !.server = names])
    <3> DEFINE f == [NothingFound EXCEPT !.server = names]
    <3>1. f \in OauthSettings /\ f.server \in AuthServers /\ f.client = NoClient
      BY <2>2 DEF DiscoveryInv, DiscoveryTypes, NothingFound, OauthSettings, MaybeServer, MaybeClient
    <3>2. saver' = [saver EXCEPT ![w].at = "metadata", ![w].found = f] /\ "metadata" \in SaverStages
      BY <2>2 DEF Finds, SaverStages
    <3>3. Fits(f, saver[w].foreign)
      BY <3>1, AuthServersAssumption DEF Fits
    <3> HIDE DEF f
    <3> QED BY <1>5, <3>1, <3>2, <3>3
  <2> QED BY <1>8, <2>1, <2>2 DEF ProbeMcp
<1>9. CASE ReadMetadata(w)
  <2>1. Found(w).server \in AuthServers /\ Found(w).client = NoClient
    BY <1>0, <1>9 DEF ReadMetadata, Saving, SaverFits
  <2>2. CASE Merges(w, Found(w))
    BY <1>0, <1>4, <2>1, <2>2
  <2>3. CASE Onward(w, "register")
    <3>1. "register" \in SaverStages /\ Fits(Found(w), saver[w].foreign)
      BY <1>0 DEF SaverStages, SaverFits
    <3>2. saver' = [saver EXCEPT ![w].at = "register", ![w].found = Found(w)]
      BY <1>6, <2>3, <3>1
    <3> QED BY <1>0, <1>5, <2>1, <3>1, <3>2
  <2> QED BY <1>9, <2>2, <2>3 DEF ReadMetadata
<1>10. CASE RegisterFound(w)
  <2>1. Found(w).server \in AuthServers /\ Found(w).client = NoClient
    BY <1>0, <1>10 DEF RegisterFound, Saving, SaverFits
  <2>2. CASE Merges(w, Found(w))
    BY <1>0, <1>4, <2>1, <2>2
  <2>3. CASE Merges(w, [server |-> Found(w).server, client |-> Found(w).server])
    <3>1. [server |-> Found(w).server, client |-> Found(w).server] \in OauthSettings
      BY <2>1 DEF OauthSettings, MaybeServer, MaybeClient
    <3> QED BY <1>4, <2>1, <2>3, <3>1
  <2> QED BY <1>10, <2>2, <2>3 DEF RegisterFound
<1>11. CASE EnsureClientRegistered(w)
  <2>0. "store" \in SaverStages /\ Fits(Found(w), saver[w].foreign)
    BY <1>0 DEF SaverStages, SaverFits
  <2> DEFINE a == Found(w).server
  <2>1. CASE a # NoServer /\ Found(w).client = NoClient
    <3>0. a \in AuthServers
      BY <1>0, <2>1 DEF MaybeServer
    <3>1. CASE Finds(w, "store", [Found(w) EXCEPT !.client = a])
      <4> DEFINE f == [Found(w) EXCEPT !.client = a]
      <4>1. f \in OauthSettings /\ f.server = a /\ f.client = a
        BY <1>0, <3>0 DEF OauthSettings, MaybeClient
      <4>2. saver' = [saver EXCEPT ![w].at = "store", ![w].found = f]
        BY <3>1 DEF Finds
      <4>3. Fits(f, saver[w].foreign) /\ Complete(f)
        BY <3>0, <4>1, AuthServersAssumption DEF Fits, Complete
      <4> HIDE DEF f, a
      <4> QED BY <1>5, <2>0, <4>1, <4>2, <4>3
    <3>2. CASE /\ Onward(w, "store") /\ Calm /\ ~(a \in registering /\ CanRegister(a))
      <4>1. saver' = [saver EXCEPT ![w].at = "store", ![w].found = Found(w)]
        BY <1>6, <2>0, <3>2
      <4>2. outages' = MaxOutages => a \notin registering
        BY <3>0, <3>2 DEF Calm, CanRegister, Metadata, Present, DiscoveryInv, Undisturbed,
                          DiscoveryTypes
      <4> QED BY <1>0, <1>5, <2>0, <4>1, <4>2 DEF Complete
    <3>3. CASE Onward(w, "store") /\ Outage
      <4>1. saver' = [saver EXCEPT ![w].at = "store", ![w].found = Found(w)]
        BY <1>6, <2>0, <3>3
      <4>2. outages' # MaxOutages
        BY <3>3, OutagesAssumption DEF Outage, DiscoveryInv, DiscoveryTypes
      <4> QED BY <1>0, <1>5, <2>0, <4>1, <4>2
    <3> QED BY <1>11, <2>1, <3>1, <3>2, <3>3 DEF EnsureClientRegistered
  <2>2. CASE ~(a # NoServer /\ Found(w).client = NoClient)
    <3>1. Onward(w, "store")
      BY <1>11, <2>2 DEF EnsureClientRegistered
    <3>2. saver' = [saver EXCEPT ![w].at = "store", ![w].found = Found(w)]
      BY <1>6, <2>0, <3>1
    <3>3. Complete(Found(w))
      BY <2>2, AuthServersAssumption DEF Complete, DiscoveryInv, DiscoveryTypes
    <3> QED BY <1>0, <1>5, <2>0, <3>2, <3>3
  <2> QED BY <2>1, <2>2
<1> QED BY <1>8, <1>9, <1>10, <1>11

LEMMA DiscoveryStep == DiscoveryInv /\ [DiscoveryNext]_discoveryVars => DiscoveryInv'
<1> SUFFICES ASSUME DiscoveryInv, [DiscoveryNext]_discoveryVars PROVE DiscoveryInv'
  OBVIOUS
<1>1. Pausing \in SaversOf /\ Pausing.at = "idle" /\ Pausing.asked = NothingFound
      /\ Pausing.found = NothingFound /\ Pausing.foreign = FALSE
      /\ NothingFound \in OauthSettings /\ NothingFound.client = NoClient
  BY DEF Pausing, SaversOf, NothingFound, OauthSettings, MaybeServer, MaybeClient, SaverStages
<1>2. ASSUME NEW w \in Savers, NEW server \in MaybeServer, NEW client \in {"given", NoClient},
             NEW scopes \in BOOLEAN, SaveServer(w, [server |-> server, client |-> client], scopes)
      PROVE  DiscoveryInv'
  <2> DEFINE asked == [server |-> server, client |-> client]
             probes == [Pausing EXCEPT !.at = "probe", !.asked = asked]
             goes == [Pausing EXCEPT !.at = "ensure", !.found = asked]
  <2>1. asked \in OauthSettings /\ asked.client \in {"given", NoClient}
    BY DEF OauthSettings, MaybeClient
  <2>2. saver' = [saver EXCEPT ![w] = probes] \/ saver' = [saver EXCEPT ![w] = goes]
    BY <1>2 DEF SaveServer
  <2>3. probes \in SaversOf /\ goes \in SaversOf
    BY <1>1, <2>1 DEF SaversOf, SaverStages
  <2>4. /\ probes.at = "probe" /\ probes.asked = asked /\ probes.found = NothingFound
        /\ goes.at = "ensure" /\ goes.asked = NothingFound /\ goes.found = asked
    BY <1>1 DEF SaversOf
  <2>5. Fits(probes.found, probes.foreign) /\ Fits(goes.found, goes.foreign)
    BY <1>1, <2>1, <2>4, AuthServersAssumption DEF Fits
  <2>6. /\ UNCHANGED <<oauthRow, worldVars, elsewhere, metadataCache, outages>>
        /\ metadataCache' \in [AuthServers -> {"none", "old", "new"}] /\ outages' \in 0 .. MaxOutages
        /\ outages' = MaxOutages => \A a \in AuthServers: metadataCache'[a] # "new"
    BY <1>2 DEF SaveServer, DiscoveryInv, DiscoveryTypes, Undisturbed
  <2> HIDE DEF asked, probes, goes
  <2>7. CASE saver' = [saver EXCEPT ![w] = probes]
    BY <2>1, <2>3, <2>4, <2>5, <2>6, <2>7, SaverMoves
  <2>8. CASE saver' = [saver EXCEPT ![w] = goes]
    BY <1>1, <2>1, <2>3, <2>4, <2>5, <2>6, <2>8, SaverMoves
  <2> QED BY <2>2, <2>7, <2>8
<1>3. ASSUME NEW w \in Savers, StoreServer(w) PROVE DiscoveryInv'
  <2>1. /\ oauthRow' = saver[w].found /\ elsewhere' = saver[w].foreign
        /\ saver' = [saver EXCEPT ![w] = Pausing]
        /\ UNCHANGED <<names, registering, moved, metadataCache, outages>> /\ saver[w].at = "store"
    BY <1>3 DEF StoreServer, Found, worldVars, Saving
  <2>2. saver[w] \in SaversOf /\ SaverFits(w)
    BY DEF DiscoveryInv, DiscoveryTypes
  <2>3. DiscoveryTypes'
    BY <1>1, <2>1, <2>2 DEF DiscoveryInv, DiscoveryTypes, SaversOf
  <2>4. Undisturbed'
    BY <2>1 DEF DiscoveryInv, Undisturbed
  <2>5. ASSUME NEW v \in Savers PROVE SaverFits(v)'
    <3>1. saver'[v] = IF v = w THEN Pausing ELSE saver[v]
      BY <2>1 DEF DiscoveryInv, DiscoveryTypes
    <3> QED BY <1>1, <2>1, <3>1, AuthServersAssumption DEF DiscoveryInv, SaverFits, Fits, Complete
  <2>6. ClientFits'
    BY <2>1, <2>2 DEF ClientFits, SaverFits, Fits, Complete
  <2> QED BY <2>3, <2>4, <2>5, <2>6 DEF DiscoveryInv
<1>4. ASSUME Outage, UNCHANGED <<oauthRow, registering, saver, elsewhere>>, names' \in MaybeServer,
             metadataCache' \in [AuthServers -> {"none", "old", "new"}]
      PROVE  DiscoveryInv'
  <2>1. outages' \in 0 .. MaxOutages /\ outages' # MaxOutages
    BY <1>4, OutagesAssumption DEF Outage, DiscoveryInv, DiscoveryTypes
  <2>2. DiscoveryTypes' /\ Undisturbed'
    BY <1>4, <2>1 DEF DiscoveryInv, DiscoveryTypes, Undisturbed
  <2>3. \A v \in Savers: SaverFits(v)'
    BY <1>4, <2>1 DEF DiscoveryInv, SaverFits, Fits
  <2>4. ClientFits'
    BY <1>4, <2>1 DEF DiscoveryInv, ClientFits
  <2> QED BY <2>2, <2>3, <2>4 DEF DiscoveryInv
<1>5. CASE RestartApi
  <2>1. /\ Outage /\ UNCHANGED <<oauthRow, names, registering, moved, elsewhere>>
        /\ metadataCache' = [a \in AuthServers |-> "none"] /\ saver' = [w \in Savers |-> Pausing]
    BY <1>5 DEF RestartApi, worldVars
  <2>2. outages' \in 0 .. MaxOutages /\ outages' # MaxOutages
    BY <2>1, OutagesAssumption DEF Outage, DiscoveryInv, DiscoveryTypes
  <2>3. DiscoveryTypes' /\ Undisturbed'
    BY <1>1, <2>1, <2>2 DEF DiscoveryInv, DiscoveryTypes, Undisturbed
  <2>4. \A v \in Savers: SaverFits(v)'
    BY <1>1, <2>1, <2>2, AuthServersAssumption DEF SaverFits, Fits
  <2>5. ClientFits'
    BY <2>1, <2>2 DEF DiscoveryInv, ClientFits
  <2> QED BY <2>3, <2>4, <2>5 DEF DiscoveryInv
<1>6. CASE NameAnother \/ MoveEndpoints
  BY <1>4, <1>6 DEF NameAnother, MoveEndpoints, DiscoveryInv, DiscoveryTypes
<1>7. CASE UNCHANGED discoveryVars
  BY <1>7 DEF discoveryVars, DiscoveryInv, DiscoveryTypes, Undisturbed, SaverFits, Fits, Complete,
              ClientFits
<1> QED BY <1>2, <1>3, <1>5, <1>6, <1>7, SaverSteps DEF DiscoveryNext

\* The client of an MCP server (mcp/oauth2.go, handlers/admin_mcp.go): what is
\* stored is a client of the authorization server stored with it, and there is
\* one where it could be registered, whatever else is saved meanwhile.
THEOREM ClientsFit == DiscoverySpec => []ClientFits
<1>1. DiscoveryInv => ClientFits
  BY DEF DiscoveryInv
<1> QED BY <1>1, DiscoveryBegins, DiscoveryStep, PTL DEF DiscoverySpec

-----------------------------------------------------------------------------
(* The models.                                                             *)

\* A model that is about to be looked up in a cache was read.
ReadBefore == \A c \in Calls: call[c].at = "build" => call[c].seen \in Effective

LlmInv == LlmTypeOK /\ ReadBefore /\ ProviderKept /\ ResolvedAsRead

LEMMA IdleEditTyped == IdleEdit \in Edits /\ [IdleEdit EXCEPT !.at = "done"] \in Edits
<1>1. (CHOOSE m \in Models: TRUE) \in Models /\ (CHOOSE p \in Providers: TRUE) \in Providers
  BY ModelsAssumption, NamesAssumption
<1> QED BY <1>1 DEF IdleEdit, Edits

LEMMA ModelsBegin == LlmInit => LlmInv
<1> SUFFICES ASSUME LlmInit PROVE LlmInv
  OBVIOUS
<1>1. /\ SeededKey \in Keys
      /\ (CHOOSE p \in Providers: TRUE) \in Providers /\ (CHOOSE l \in Limits: TRUE) \in Limits
  BY NamesAssumption DEF SeededKey
<1>2. Seeded \in ModelRows /\ Seeded.prov \in Providers
  BY <1>1 DEF Seeded, ModelRows
<1>3. providers \in [Providers -> ProviderRows]
  BY <1>1 DEF LlmInit, ProviderRows
<1>4. models \in [Models -> {Seeded, NoRow}]
  BY DEF LlmInit
<1>5. call \in [Calls -> Resolutions] /\ \A c \in Calls: call[c].at = "idle"
  BY DEF LlmInit, Resolutions
<1>6. LlmTypeOK
  BY <1>2, <1>3, <1>4, <1>5, IdleEditTyped DEF LlmInit, LlmTypeOK
<1>7. ProviderKept
  BY <1>2, <1>3, <1>4, NoRowsAssumption DEF ProviderKept, ModelExists
<1> QED BY <1>5, <1>6, <1>7 DEF LlmInv, ReadBefore, ResolvedAsRead

\* What is read for a role is an enabled model with its provider's key.
LEMMA ModelRead ==
    ASSUME LlmInv
    PROVE  ListByRole \in Effective \cup {NoModel} /\ (Usable # {} => ListByRole \in Effective)
<1>1. CASE Usable = {}
  BY <1>1 DEF ListByRole
<1>2. CASE Usable # {}
  <2> DEFINE def == {m \in Usable: models[m].default}
             best == IF def # {} THEN def ELSE Usable
  <2>1. best \subseteq Nat /\ best # {} /\ best \subseteq Usable
    BY <1>2, ModelsAssumption DEF Usable
  <2>2. \E m \in best: \A n \in best: m <= n
    BY <2>1, LeastExists
  <2>3. First \in Usable
    BY <2>1, <2>2 DEF First
  <2>4. PICK m \in Usable: m = First
    BY <2>3
  <2>5. m \in Models /\ models[m] # NoRow /\ models[m] \in ModelRows
    BY <2>4 DEF Usable, ModelExists, LlmInv, LlmTypeOK
  <2>6. models[m].prov \in Providers /\ models[m].limit \in Limits
    BY <2>5 DEF ModelRows
  <2>7. providers[models[m].prov] \in ProviderRows
    BY <2>5, <2>6 DEF LlmInv, LlmTypeOK, ProviderKept, ModelExists
  <2>8. Config(m) \in Effective
    BY <2>5, <2>6, <2>7 DEF Config, Effective, ProviderRows
  <2> QED BY <1>2, <2>4, <2>8 DEF ListByRole
<1> QED BY <1>1, <1>2

\* A request of an administrator ends, or goes on with what it read.
LEMMA EditGoes ==
    ASSUME LlmInv, NEW e \in Editors, NEW s \in Edits, edit' = [edit EXCEPT ![e] = s],
           UNCHANGED <<call, roleCache, moderator>>,
           providers' \in [Providers -> ProviderRows \cup {NoRow}],
           models' \in [Models -> ModelRows \cup {NoRow}], ProviderKept'
    PROVE  LlmInv'
<1>1. LlmTypeOK'
  BY DEF LlmInv, LlmTypeOK
<1> QED BY <1>1 DEF LlmInv, ReadBefore, ResolvedAsRead, RoleKey

LEMMA EditSteps == ASSUME LlmInv, NEW e \in Editors, Edit(e) PROVE LlmInv'
<1>0. /\ LlmTypeOK /\ ProviderKept /\ edit[e] \in Edits
      /\ \A m \in Models: models[m] # NoRow => models[m] \in ModelRows /\ models[m].prov \in Providers
  BY DEF LlmInv, LlmTypeOK, ModelRows
<1>1. ASSUME EditDone(e), UNCHANGED <<call, roleCache, moderator>>,
             providers' \in [Providers -> ProviderRows \cup {NoRow}],
             models' \in [Models -> ModelRows \cup {NoRow}], ProviderKept'
      PROVE  LlmInv'
  BY <1>1, IdleEditTyped, EditGoes DEF EditDone
<1>2. ASSUME UNCHANGED <<providers, models>>
      PROVE  /\ providers' \in [Providers -> ProviderRows \cup {NoRow}]
             /\ models' \in [Models -> ModelRows \cup {NoRow}] /\ ProviderKept'
  BY <1>0, <1>2 DEF LlmTypeOK, ProviderKept, ModelExists
<1>3. CASE LLMCreateBegin(e)
  <2>1. UNCHANGED <<providers, models, call, roleCache, moderator>>
    BY <1>3 DEF LLMCreateBegin
  <2>2. CASE EditDone(e)
    BY <1>1, <1>2, <2>1, <2>2
  <2>3. ASSUME NEW m \in Models, NEW p \in Providers, NEW l \in Limits, NEW on \in BOOLEAN,
               NEW def \in BOOLEAN, NEW old \in SUBSET Models, providers[p] # NoRow,
               edit' = [edit EXCEPT ![e].at = "insert", ![e].id = m, ![e].cleared = old,
                    ![e].row = [prov |-> p, key |-> providers[p].key, limit |-> l,
                                enabled |-> on, default |-> def]]
        PROVE  LlmInv'
    <3> DEFINE row == [prov |-> p, key |-> providers[p].key, limit |-> l,
                       enabled |-> on, default |-> def]
               s == [edit[e] EXCEPT !.at = "insert", !.id = m, !.cleared = old, !.row = row]
    <3>1. row \in ModelRows
      BY <1>0, <2>3 DEF LlmTypeOK, ProviderRows, ModelRows
    <3>2. s \in Edits
      BY <1>0, <3>1 DEF Edits
    <3>3. edit' = [edit EXCEPT ![e] = s]
      BY <1>0, <2>3 DEF LlmTypeOK
    <3> HIDE DEF s
    <3> QED BY <1>2, <2>1, <3>2, <3>3, EditGoes
  <2> DEFINE cleared(def) == {x \in Models: def /\ ModelExists(x) /\ models[x].default}
  <2>4. PICK m \in Models, p \in Providers, l \in Limits, on \in BOOLEAN, def \in BOOLEAN:
          /\ cleared(def) \cap Locked = {}
          /\ IF providers[p] = NoRow THEN EditDone(e)
             ELSE edit' = [edit EXCEPT ![e].at = "insert", ![e].id = m, ![e].cleared = cleared(def),
                    ![e].row = [prov |-> p, key |-> providers[p].key, limit |-> l,
                                enabled |-> on, default |-> def]]
    BY <1>3 DEF LLMCreateBegin
  <2>5. PICK old \in SUBSET Models: old = cleared(def)
    OBVIOUS
  <2> HIDE DEF cleared
  <2>6. IF providers[p] = NoRow THEN EditDone(e)
        ELSE edit' = [edit EXCEPT ![e].at = "insert", ![e].id = m, ![e].cleared = old,
                    ![e].row = [prov |-> p, key |-> providers[p].key, limit |-> l,
                                enabled |-> on, default |-> def]]
    BY <2>4, <2>5
  <2> QED BY <2>2, <2>3, <2>6
<1>4. CASE edit[e].row # NoRow /\ LLMCreateCommit(e)
  <2>1. EditDone(e) /\ UNCHANGED <<providers, call, roleCache, moderator>>
    BY <1>4 DEF LLMCreateCommit
  <2>2. CASE UNCHANGED models
    BY <1>1, <1>2, <2>1, <2>2
  <2>3. CASE /\ providers[edit[e].row.prov] # NoRow
             /\ models' = [m \in Models |->
                  IF m = edit[e].id THEN edit[e].row
                  ELSE IF m \in edit[e].cleared /\ ModelExists(m)
                       THEN [models[m] EXCEPT !.default = FALSE] ELSE models[m]]
    <3>1. edit[e].row \in ModelRows
      BY <1>0, <1>4 DEF Edits
    <3>2. \A m \in Models: ModelExists(m) =>
            /\ [models[m] EXCEPT !.default = FALSE] \in ModelRows
            /\ [models[m] EXCEPT !.default = FALSE].prov = models[m].prov
      BY <1>0 DEF ModelRows, ModelExists
    <3>3. models' \in [Models -> ModelRows \cup {NoRow}]
      BY <1>0, <2>3, <3>1, <3>2 DEF LlmTypeOK
    <3>4. ProviderKept'
      BY <1>0, <2>1, <2>3, <3>2 DEF ProviderKept, ModelExists
    <3> QED BY <1>0, <1>1, <2>1, <3>3, <3>4 DEF LlmTypeOK
  <2> QED BY <1>4, <2>2, <2>3 DEF LLMCreateCommit
<1>5. CASE UpdateLLMModel(e)
  BY <1>1, <1>2, <1>5 DEF UpdateLLMModel
<1>6. CASE DeleteLLMModel(e)
  <2>1. EditDone(e) /\ UNCHANGED <<providers, call, roleCache, moderator>>
    BY <1>6 DEF DeleteLLMModel
  <2>2. PICK m \in Models: models' = [models EXCEPT ![m] = NoRow]
    BY <1>6 DEF DeleteLLMModel
  <2>3. models' \in [Models -> ModelRows \cup {NoRow}] /\ ProviderKept'
    BY <1>0, <2>1, <2>2 DEF LlmTypeOK, ProviderKept, ModelExists
  <2> QED BY <1>0, <1>1, <2>1, <2>3 DEF LlmTypeOK
<1>7. CASE CreateProvider(e)
  <2>1. EditDone(e) /\ UNCHANGED <<models, call, roleCache, moderator>>
    BY <1>7 DEF CreateProvider
  <2>2. PICK p \in Providers, k \in Keys, on \in BOOLEAN:
          providers' = [providers EXCEPT ![p] = [key |-> k, enabled |-> on]]
    BY <1>7 DEF CreateProvider
  <2>3. [key |-> k, enabled |-> on] \in ProviderRows /\ [key |-> k, enabled |-> on] # NoRow
    BY NoRowsAssumption DEF ProviderRows
  <2>4. providers' \in [Providers -> ProviderRows \cup {NoRow}] /\ ProviderKept'
    BY <1>0, <2>1, <2>2, <2>3 DEF LlmTypeOK, ProviderKept, ModelExists
  <2> QED BY <1>0, <1>1, <2>1, <2>4 DEF LlmTypeOK
<1>8. CASE UpdateProviderRead(e)
  <2>1. PICK p \in Providers: /\ providers[p] # NoRow
            /\ edit' = [edit EXCEPT ![e].at = "insert", ![e].prov = p, ![e].kept = providers[p].key]
    BY <1>8 DEF UpdateProviderRead
  <2> DEFINE s == [edit[e] EXCEPT !.at = "insert", !.prov = p, !.kept = providers[p].key]
  <2>2. providers[p].key \in Keys
    BY <1>0, <2>1 DEF LlmTypeOK, ProviderRows
  <2>3. s \in Edits
    BY <1>0, <2>2 DEF Edits
  <2>4. edit' = [edit EXCEPT ![e] = s]
    BY <1>0, <2>1 DEF LlmTypeOK
  <2>5. UNCHANGED <<providers, models, call, roleCache, moderator>>
    BY <1>8 DEF UpdateProviderRead
  <2> HIDE DEF s
  <2> QED BY <1>2, <2>3, <2>4, <2>5, EditGoes
<1>9. CASE UpdateProvider(e)
  <2>1. EditDone(e) /\ UNCHANGED <<call, roleCache, moderator>> /\ edit[e].kept \in Keys
    BY <1>0, <1>9 DEF UpdateProvider, Edits
  <2>2. CASE UNCHANGED <<providers, models>>
    BY <1>1, <1>2, <2>1, <2>2
  <2>3. ASSUME NEW p \in Providers, NEW k \in Keys, NEW on \in BOOLEAN,
               providers' = [providers EXCEPT ![p] = [key |-> k, enabled |-> on]],
               models' = [m \in Models |-> IF ModelExists(m) /\ models[m].prov = p
                                   THEN [models[m] EXCEPT !.key = k] ELSE models[m]]
        PROVE  LlmInv'
    <3>1. [key |-> k, enabled |-> on] \in ProviderRows /\ [key |-> k, enabled |-> on] # NoRow
      BY NoRowsAssumption DEF ProviderRows
    <3>2. providers' \in [Providers -> ProviderRows \cup {NoRow}]
      BY <1>0, <2>3, <3>1 DEF LlmTypeOK
    <3>3. \A m \in Models: ModelExists(m) =>
            /\ [models[m] EXCEPT !.key = k] \in ModelRows
            /\ [models[m] EXCEPT !.key = k].prov = models[m].prov
      BY <1>0 DEF ModelRows, ModelExists
    <3>4. models' \in [Models -> ModelRows \cup {NoRow}]
      BY <1>0, <2>3, <3>3 DEF LlmTypeOK
    <3>5. \A q \in Providers: providers[q] # NoRow => providers'[q] # NoRow
      BY <1>0, <2>3, <3>1 DEF LlmTypeOK
    <3>6. \A m \in Models: models'[m] # NoRow => models[m] # NoRow /\ models'[m].prov = models[m].prov
      BY <2>3, <3>3 DEF ModelExists
    <3>7. ProviderKept'
      BY <1>0, <3>5, <3>6 DEF ProviderKept, ModelExists
    <3> QED BY <1>1, <2>1, <3>2, <3>4, <3>7
  <2>4. edit[e].prov \in Providers
    BY <1>0 DEF Edits
  <2>5. PICK p \in Providers: p = edit[e].prov
    BY <2>4
  <2>6. \/ UNCHANGED <<providers, models>>
        \/ \E k \in Keys \cup {edit[e].kept}, on \in BOOLEAN:
              /\ providers' = [providers EXCEPT ![p] = [key |-> k, enabled |-> on]]
              /\ models' = [m \in Models |-> IF ModelExists(m) /\ models[m].prov = p
                                   THEN [models[m] EXCEPT !.key = k] ELSE models[m]]
    BY <1>9, <2>5 DEF UpdateProvider
  <2> QED BY <2>1, <2>2, <2>3, <2>6
<1>10. CASE DeleteProviderCount(e)
  <2>1. UNCHANGED <<providers, models, call, roleCache, moderator>>
    BY <1>10 DEF DeleteProviderCount
  <2>2. CASE EditDone(e)
    BY <1>1, <1>2, <2>1, <2>2
  <2>3. ASSUME NEW p \in Providers, edit' = [edit EXCEPT ![e].at = "delete", ![e].prov = p]
        PROVE  LlmInv'
    <3> DEFINE s == [edit[e] EXCEPT !.at = "delete", !.prov = p]
    <3>1. s \in Edits
      BY <1>0 DEF Edits
    <3>2. edit' = [edit EXCEPT ![e] = s]
      BY <1>0, <2>3 DEF LlmTypeOK
    <3> HIDE DEF s
    <3> QED BY <1>2, <2>1, <3>1, <3>2, EditGoes
  <2> QED BY <1>10, <2>2, <2>3 DEF DeleteProviderCount
<1>11. CASE DeleteProvider(e)
  <2>1. EditDone(e) /\ UNCHANGED <<models, call, roleCache, moderator>>
    BY <1>11 DEF DeleteProvider
  <2>2. CASE UNCHANGED providers
    BY <1>1, <1>2, <2>1, <2>2
  <2>3. CASE /\ UsedBy(edit[e].prov) = {}
             /\ providers' = [providers EXCEPT ![edit[e].prov] = NoRow]
    <3>1. providers' \in [Providers -> ProviderRows \cup {NoRow}]
      BY <1>0, <2>3 DEF LlmTypeOK
    <3>2. ProviderKept'
      BY <1>0, <2>1, <2>3 DEF ProviderKept, ModelExists, UsedBy, LlmTypeOK
    <3> QED BY <1>0, <1>1, <2>1, <3>1, <3>2 DEF LlmTypeOK
  <2> QED BY <1>11, <2>2, <2>3 DEF DeleteProvider
<1> QED BY <1>3, <1>4, <1>5, <1>6, <1>7, <1>8, <1>9, <1>10, <1>11 DEF Edit

\* A model is resolved: what is used is what was read.
LEMMA ResolutionGoes ==
    ASSUME LlmInv, NEW c \in Calls, NEW s \in Resolutions, call' = [call EXCEPT ![c] = s],
           UNCHANGED <<providers, models, edit>>,
           roleCache' \in Effective \cup {NoModel}, moderator' \in Effective \cup {NoModel},
           s.at = "build" => s.seen \in Effective,
           s.at = "done" => s.used = s.seen \/ (s.of = "role" /\ RoleKey(s.used) = RoleKey(s.seen))
    PROVE  LlmInv'
<1>1. LlmTypeOK' /\ ProviderKept'
  BY DEF LlmInv, LlmTypeOK, ProviderKept, ModelExists
<1>2. call'[c] = s /\ \A d \in Calls: d # c => call'[d] = call[d]
  BY DEF LlmInv, LlmTypeOK
<1>3. ReadBefore'
  BY <1>2 DEF LlmInv, ReadBefore
<1>4. ResolvedAsRead'
  BY <1>2 DEF LlmInv, ResolvedAsRead, RoleKey
<1> QED BY <1>1, <1>3, <1>4 DEF LlmInv

LEMMA ResolutionSteps ==
    ASSUME LlmInv, NEW c \in Calls,
           ReadRole(c) \/ ReadModerator(c) \/ ResolveModel(c) \/ ResolveRole(c) \/ ResolveModerator(c)
    PROVE  LlmInv'
<1>0. LlmTypeOK /\ call[c] \in Resolutions
  BY DEF LlmInv, LlmTypeOK
<1>1. PICK row \in Effective \cup {NoModel}: row = ListByRole /\ (Usable # {} => row \in Effective)
  BY ModelRead
<1>2. ASSUME NEW of \in {"role", "moderator", "chat"}, NEW wanted \in Models \cup {NoModel},
             NEW next \in {"build", "done"}, next = "build" => row \in Effective,
             ReadModels(c, of, wanted, row, next)
      PROVE  LlmInv'
  <2> DEFINE s == [at |-> next, of |-> of, wanted |-> wanted, chosen |-> wanted \in Usable,
                   seen |-> row, used |-> IF next = "done" THEN row ELSE NoModel]
  <2>1. (wanted \in Usable) \in BOOLEAN
    OBVIOUS
  <2>2. s \in Resolutions
    BY <2>1 DEF Resolutions
  <2>3. call' = [call EXCEPT ![c] = s] /\ UNCHANGED <<providers, models, edit, roleCache, moderator>>
    BY <1>2 DEF ReadModels
  <2>4. s.at = next /\ s.seen = row /\ (next = "done" => s.used = row)
    OBVIOUS
  <2> HIDE DEF s
  <2> QED BY <1>0, <1>2, <2>2, <2>3, <2>4, ResolutionGoes DEF LlmTypeOK
<1>3. CASE ReadRole(c)
  BY <1>1, <1>2, <1>3 DEF ReadRole
<1>4. CASE ReadModerator(c)
  BY <1>1, <1>2, <1>4 DEF ReadModerator
<1>5. CASE ResolveModel(c)
  BY <1>1, <1>2, <1>5 DEF ResolveModel, GetModel
\* The row read is used, or what the cache holds of it.
<1>6. ASSUME NEW used \in Effective \cup {NoModel}, UNCHANGED <<providers, models, edit>>,
             call' = [call EXCEPT ![c].at = "done", ![c].used = used],
             roleCache' \in Effective \cup {NoModel}, moderator' \in Effective \cup {NoModel},
             \/ used = call[c].seen
             \/ call[c].of = "role" /\ RoleKey(used) = RoleKey(call[c].seen)
      PROVE  LlmInv'
  <2> DEFINE s == [call[c] EXCEPT !.at = "done", !.used = used]
  <2>1. s \in Resolutions
    BY <1>0 DEF Resolutions
  <2>2. call' = [call EXCEPT ![c] = s]
    BY <1>0, <1>6 DEF LlmTypeOK
  <2>3. s.at = "done" /\ s.used = used /\ s.seen = call[c].seen /\ s.of = call[c].of
    BY <1>0 DEF Resolutions
  <2> HIDE DEF s
  <2> QED BY <1>6, <2>1, <2>2, <2>3, ResolutionGoes
<1>7. CASE ResolveRole(c)
  <2>1. call[c].seen \in Effective
    BY <1>7 DEF ResolveRole, LlmInv, ReadBefore
  <2>2. /\ roleCache' \in Effective \cup {NoModel}
        /\ roleCache' = call[c].seen \/ RoleKey(roleCache') = RoleKey(call[c].seen)
    BY <1>0, <1>7, <2>1 DEF ResolveRole, LlmTypeOK
  <2>3. /\ call' = [call EXCEPT ![c].at = "done", ![c].used = roleCache'] /\ call[c].of = "role"
        /\ UNCHANGED <<providers, models, edit, moderator>>
    BY <1>7 DEF ResolveRole
  <2>4. PICK used \in Effective \cup {NoModel}: used = roleCache'
    BY <2>2
  <2> QED BY <1>0, <1>6, <2>2, <2>3, <2>4 DEF LlmTypeOK
<1>8. CASE ResolveModerator(c)
  <2>1. call[c].seen \in Effective
    BY <1>8 DEF ResolveModerator, LlmInv, ReadBefore
  <2>2. \A a, b \in Effective: ModeratorKey(a) = ModeratorKey(b) => a = b
    BY DEF Effective, ModeratorKey
  <2>3. moderator' \in Effective \cup {NoModel} /\ moderator' = call[c].seen
    BY <1>0, <1>8, <2>1, <2>2 DEF ResolveModerator, LlmTypeOK
  <2>4. /\ call' = [call EXCEPT ![c].at = "done", ![c].used = moderator']
        /\ UNCHANGED <<providers, models, edit, roleCache>>
    BY <1>8 DEF ResolveModerator
  <2>5. PICK used \in Effective \cup {NoModel}: used = moderator'
    BY <2>3
  <2> QED BY <1>0, <1>6, <2>3, <2>4, <2>5 DEF LlmTypeOK
<1> QED BY <1>3, <1>4, <1>5, <1>7, <1>8

LEMMA LlmStep == LlmInv /\ [LlmNext]_llmVars => LlmInv'
<1> SUFFICES ASSUME LlmInv, [LlmNext]_llmVars PROVE LlmInv'
  OBVIOUS
<1>1. CASE UNCHANGED llmVars
  BY <1>1 DEF llmVars, LlmInv, LlmTypeOK, ReadBefore, ProviderKept, ModelExists, ResolvedAsRead, RoleKey
<1> QED BY <1>1, EditSteps, ResolutionSteps DEF LlmNext

\* Models and providers (admin_llm.go, admin_providers.go, the resolvers): no
\* model is without its provider, and what a role, the moderator or a chat is
\* resolved to is the row that was read for it, whoever edits meanwhile.
THEOREM ModelsAreSound == LlmSpec => []ModelsSound
<1>1. LlmInv => ModelsSound
  BY DEF LlmInv, ModelsSound
<1> QED BY <1>1, ModelsBegin, LlmStep, PTL DEF LlmSpec

-----------------------------------------------------------------------------
(* The chat.                                                               *)

Messages == [role : {"user", "assistant"}, chat : Chats, parts : Seq(Parts)]
ChatStops == {"idle", "check", "model", "ask", "start", "llm", "tools", "finish", "save", "name",
          "rename", "done"}
ChatTyped ==
    /\ session # NoSession => session \in Seq(Messages)
    /\ naming # NoSession => naming \in Seq(Messages)
    /\ at \in [Chats -> ChatStops]
    /\ round \in [Chats -> 0 .. MaxRounds] /\ calls \in [Chats -> 0 .. MaxCalls]
    /\ shown \in [Chats -> Seq(Parts)] /\ parts \in [Chats -> Seq(Parts)]
    /\ tools \in [Chats -> 0 .. MaxRounds * MaxCalls]
    /\ final \in [Chats -> BOOLEAN] /\ left \in [Chats -> BOOLEAN]
    /\ several \in [Chats -> BOOLEAN] /\ creates \in [Chats -> BOOLEAN]
    /\ ended \in [Chats -> {"none", "finished", "error"}]
    /\ saved \in [Chats -> {"no", "yes", "lost", "nothing"}]
    /\ mishaps \in 0 .. MaxMishaps

\* What a loop has written so far: between rounds the stream is the reply; while
\* tools run, the reply and the tools of the round.  A round has room for as many
\* tools as its answer still names.
Recent(c) == [i \in 1 .. RanBy(c) - tools[c] |-> Call(tools[c] + i)]
Unstarted == {"idle", "check", "model", "ask", "start"}
Over == {"name", "rename", "done"}
Written(c) ==
    /\ at[c] \in Unstarted => shown[c] = <<>> /\ parts[c] = <<>> /\ tools[c] = 0
    /\ at[c] = "llm" =>
         /\ round[c] >= 1 /\ RanBy(c) = tools[c] /\ tools[c] <= (round[c] - 1) * MaxCalls
         /\ AsShown(shown[c], parts[c])
    /\ at[c] = "tools" =>
         /\ round[c] >= 1 /\ tools[c] <= RanBy(c) /\ RanBy(c) + calls[c] <= round[c] * MaxCalls
         /\ AsShown(shown[c], parts[c] \o Recent(c))
    /\ at[c] \in {"finish", "save"} => AsShown(shown[c], parts[c])

\* A reply is stored when its loop is over, in the session as in its copy.
StoredIn(doc, where, stream) ==
    doc # NoSession =>
      \A i \in 1 .. Len(doc): doc[i].role = "assistant" =>
        /\ where[doc[i].chat] \in Over
        /\ AsShown(stream[doc[i].chat], doc[i].parts)

ChatInv ==
    /\ ChatTyped
    /\ \A c \in Chats: Written(c)
    /\ StoredIn(session, at, shown) /\ StoredIn(naming, at, shown)

LEMMA PartsAre ==
    /\ Warning \in Parts
    /\ \A n \in 1 .. MaxRounds: Text(n) \in Parts
    /\ \A n \in 1 .. (MaxRounds * MaxCalls): Call(n) \in Parts
    /\ Warning[1] # "tool" /\ \A n: Text(n)[1] # "tool" /\ Call(n)[1] = "tool"
BY DEF Parts, Warning, Text, Call

\* How many parts of a stream are tools.
ToolsIn(s) == Cardinality({i \in 1 .. Len(s): s[i][1] = "tool"})

LEMMA ToolsCounted ==
    ASSUME NEW s \in Seq(Parts)
    PROVE  /\ ToolsIn(s) \in Nat
           /\ \A e \in Parts: ToolsIn(s \o <<e>>) = IF e[1] = "tool" THEN ToolsIn(s) + 1 ELSE ToolsIn(s)
<1>1. Len(s) \in Nat
  BY LenProperties
<1> DEFINE Has(q) == {i \in 1 .. Len(q): q[i][1] = "tool"}
<1>2. IsFiniteSet(Has(s)) /\ Len(s) + 1 \notin Has(s)
  <2>1. IsFiniteSet(1 .. Len(s))
    BY <1>1, FS_Interval
  <2> QED BY <1>1, <2>1, FS_Subset
<1>3. ToolsIn(s) \in Nat
  BY <1>2, FS_CardinalityType DEF ToolsIn
<1>4. ASSUME NEW e \in Parts
      PROVE  ToolsIn(s \o <<e>>) = IF e[1] = "tool" THEN ToolsIn(s) + 1 ELSE ToolsIn(s)
  <2>1. <<e>> \in Seq(Parts) /\ Len(<<e>>) = 1 /\ <<e>>[1] = e
    OBVIOUS
  <2> DEFINE u == s \o <<e>>
  <2>2. Len(u) = Len(s) + 1 /\ \A i \in 1 .. Len(s) + 1: u[i] = IF i <= Len(s) THEN s[i] ELSE <<e>>[i - Len(s)]
    BY <2>1, ConcatProperties
  <2> HIDE DEF u
  <2>3. u[Len(s) + 1] = e /\ \A i \in 1 .. Len(s): u[i] = s[i]
    BY <1>1, <2>1, <2>2
  <2>4. CASE e[1] = "tool"
    <3>1. Has(u) = Has(s) \cup {Len(s) + 1}
      BY <1>1, <2>2, <2>3, <2>4
    <3>2. Cardinality(Has(s) \cup {Len(s) + 1}) = Cardinality(Has(s)) + 1
      BY <1>2, FS_AddElement
    <3> QED BY <2>4, <3>1, <3>2 DEF ToolsIn, u
  <2>5. CASE e[1] # "tool"
    <3>1. Has(u) = Has(s)
      BY <1>1, <2>2, <2>3, <2>5
    <3> QED BY <2>5, <3>1 DEF ToolsIn, u
  <2> QED BY <2>4, <2>5
<1> QED BY <1>3, <1>4

LEMMA NoTools == ToolsIn(<<>>) = 0
<1>1. {i \in 1 .. Len(<<>>): <<>>[i][1] = "tool"} = {}
  OBVIOUS
<1> QED BY <1>1, FS_EmptySet DEF ToolsIn

\* A stream and a reply that grow by the same stay one.
LEMMA GrowTogether ==
    ASSUME NEW s \in Seq(Parts), NEW p \in Seq(Parts), NEW t \in Seq(Parts), AsShown(s, p)
    PROVE  AsShown(s \o t, p \o t)
<1>1. <<Warning>> \in Seq(Parts)
  BY PartsAre
<1>2. (<<Warning>> \o p) \o t = <<Warning>> \o (p \o t)
  BY <1>1, ConcatAssociative
<1> QED BY <1>2 DEF AsShown

\* The tools of a round, one after the other.
LEMMA RecentGrows ==
    ASSUME NEW k \in Nat, NEW n \in Nat, k <= n, n + 1 <= MaxRounds * MaxCalls,
           MaxRounds * MaxCalls \in Nat
    PROVE  /\ [i \in 1 .. n - k |-> Call(k + i)] \in Seq(Parts)
           /\ [i \in 1 .. (n + 1) - k |-> Call(k + i)]
                = [i \in 1 .. n - k |-> Call(k + i)] \o <<Call(n + 1)>>
<1> DEFINE old == [i \in 1 .. n - k |-> Call(k + i)]
           new == [i \in 1 .. (n + 1) - k |-> Call(k + i)]
<1>1. \A i \in 1 .. (n + 1) - k: Call(k + i) \in Parts
  BY PartsAre
<1>2. old \in Seq(Parts) /\ Len(old) = n - k
  <2>1. n - k \in Nat /\ \A i \in 1 .. n - k: i \in 1 .. (n + 1) - k
    OBVIOUS
  <2>2. \A i \in 1 .. n - k: Call(k + i) \in Parts
    BY <1>1, <2>1
  <2> QED BY <2>1, <2>2
<1>3. new \in Seq(Parts) /\ Len(new) = n + 1 - k
  BY <1>1
<1>4. <<Call(n + 1)>> \in Seq(Parts) /\ Len(<<Call(n + 1)>>) = 1 /\ <<Call(n + 1)>>[1] = Call(n + 1)
  BY PartsAre
<1>5. /\ old \o <<Call(n + 1)>> \in Seq(Parts)
      /\ Len(old \o <<Call(n + 1)>>) = Len(old) + 1
      /\ \A i \in 1 .. Len(old) + 1: (old \o <<Call(n + 1)>>)[i]
           = IF i <= Len(old) THEN old[i] ELSE <<Call(n + 1)>>[i - Len(old)]
  BY <1>2, <1>4, ConcatProperties
<1>6. \A i \in 1 .. n + 1 - k: new[i] = (old \o <<Call(n + 1)>>)[i]
  <2> SUFFICES ASSUME NEW i \in 1 .. n + 1 - k PROVE new[i] = (old \o <<Call(n + 1)>>)[i]
    OBVIOUS
  <2>1. CASE i <= n - k
    BY <1>2, <1>5, <2>1
  <2>2. CASE i = n + 1 - k
    BY <1>2, <1>4, <1>5, <2>2
  <2> QED BY <2>1, <2>2
<1>7. new = old \o <<Call(n + 1)>>
  <2> HIDE DEF new, old
  <2> QED BY <1>2, <1>3, <1>5, <1>6, SeqEqual
<1> QED BY <1>2, <1>7


-----------------------------------------------------------------------------
\* What a step of one chat has to show.
LEMMA StaysStored ==
    ASSUME NEW doc, doc # NoSession => doc \in Seq(Messages),
           NEW where, NEW stream, NEW then, NEW after, StoredIn(doc, where, stream),
           \A d \in Chats: where[d] \in Over => then[d] \in Over /\ after[d] = stream[d]
    PROVE  StoredIn(doc, then, after)
<1> SUFFICES ASSUME doc # NoSession, NEW i \in 1 .. Len(doc), doc[i].role = "assistant"
             PROVE  then[doc[i].chat] \in Over /\ AsShown(after[doc[i].chat], doc[i].parts)
  BY DEF StoredIn
<1>1. doc[i] \in Messages
  BY ElementOfSeq
<1>2. doc[i].chat \in Chats
  BY <1>1 DEF Messages
<1> QED BY <1>2 DEF StoredIn

LEMMA AppendStored ==
    ASSUME NEW doc \in Seq(Messages), NEW m \in Messages, NEW where, NEW stream,
           StoredIn(doc, where, stream), doc # NoSession,
           m.role = "assistant" => where[m.chat] \in Over /\ AsShown(stream[m.chat], m.parts)
    PROVE  Append(doc, m) \in Seq(Messages) /\ StoredIn(Append(doc, m), where, stream)
<1>1. /\ Append(doc, m) \in Seq(Messages) /\ Len(Append(doc, m)) = Len(doc) + 1 /\ Len(doc) \in Nat
      /\ \A i \in 1 .. Len(doc): Append(doc, m)[i] = doc[i]
      /\ Append(doc, m)[Len(doc) + 1] = m
  OBVIOUS
<1>2. ASSUME NEW i \in 1 .. Len(Append(doc, m)), Append(doc, m)[i].role = "assistant"
      PROVE  /\ where[Append(doc, m)[i].chat] \in Over
             /\ AsShown(stream[Append(doc, m)[i].chat], Append(doc, m)[i].parts)
  <2>1. CASE i \in 1 .. Len(doc)
    BY <1>1, <1>2, <2>1 DEF StoredIn
  <2>2. CASE i = Len(doc) + 1
    BY <1>1, <1>2, <2>2
  <2> QED BY <1>1, <2>1, <2>2
<1> QED BY <1>1, <1>2 DEF StoredIn

\* A step of one chat's loop.
LEMMA ChatMoves ==
    ASSUME ChatInv, NEW c \in Chats, NEW x \in ChatStops, NEW s \in Seq(Parts), NEW p \in Seq(Parts),
           at' = [at EXCEPT ![c] = x],
           shown' = [shown EXCEPT ![c] = s], parts' = [parts EXCEPT ![c] = p],
           at[c] \in Over => x \in Over /\ s = shown[c],
           \A d \in Chats \ {c}: /\ round'[d] = round[d] /\ calls'[d] = calls[d]
                                 /\ tools'[d] = tools[d],
           round' \in [Chats -> 0 .. MaxRounds], calls' \in [Chats -> 0 .. MaxCalls],
           tools' \in [Chats -> 0 .. MaxRounds * MaxCalls],
           final' \in [Chats -> BOOLEAN], left' \in [Chats -> BOOLEAN],
           several' \in [Chats -> BOOLEAN], creates' \in [Chats -> BOOLEAN],
           ended' \in [Chats -> {"none", "finished", "error"}],
           saved' \in [Chats -> {"no", "yes", "lost", "nothing"}],
           mishaps' \in 0 .. MaxMishaps,
           session' # NoSession => session' \in Seq(Messages),
           naming' # NoSession => naming' \in Seq(Messages),
           StoredIn(session', at', shown'), StoredIn(naming', at', shown'),
           Written(c)'
    PROVE  ChatInv'
<1>1. ChatTyped
  BY DEF ChatInv
<1>2. /\ at' \in [Chats -> ChatStops] /\ shown' \in [Chats -> Seq(Parts)]
      /\ parts' \in [Chats -> Seq(Parts)]
      /\ \A d \in Chats \ {c}: at'[d] = at[d] /\ shown'[d] = shown[d] /\ parts'[d] = parts[d]
  BY <1>1 DEF ChatTyped
<1>3. ChatTyped'
  BY <1>2 DEF ChatTyped
<1>4. \A d \in Chats \ {c}: Written(d)'
  <2> SUFFICES ASSUME NEW d \in Chats \ {c} PROVE Written(d)'
    OBVIOUS
  <2>1. Written(d)
    BY DEF ChatInv
  <2>2. RanBy(d)' = RanBy(d)
    BY <1>2 DEF RanBy
  <2>3. Recent(d)' = Recent(d)
    BY <2>2 DEF Recent
  <2> QED BY <1>2, <2>1, <2>2, <2>3 DEF Written
<1> QED BY <1>3, <1>4 DEF ChatInv

\* The documents of a step that stores nothing.
LEMMA NothingStored ==
    ASSUME ChatInv, NEW c \in Chats, NEW x \in ChatStops, NEW s \in Seq(Parts),
           at' = [at EXCEPT ![c] = x], shown' = [shown EXCEPT ![c] = s],
           at[c] \in Over => x \in Over /\ s = shown[c]
    PROVE  StoredIn(session, at', shown') /\ StoredIn(naming, at', shown')
<1>1. ChatTyped /\ StoredIn(session, at, shown) /\ StoredIn(naming, at, shown)
  BY DEF ChatInv
<1>2. \A d \in Chats: at[d] \in Over => at'[d] \in Over /\ shown'[d] = shown[d]
  BY <1>1 DEF ChatTyped
<1>3. /\ session # NoSession => session \in Seq(Messages)
      /\ naming # NoSession => naming \in Seq(Messages)
  BY <1>1 DEF ChatTyped
<1>4. PICK a, b: a = at' /\ b = shown'
  OBVIOUS
<1>5. \A d \in Chats: at[d] \in Over => a[d] \in Over /\ b[d] = shown[d]
  BY <1>2, <1>4
<1>6. StoredIn(session, a, b)
  BY <1>1, <1>3, <1>5, StaysStored
<1>7. StoredIn(naming, a, b)
  BY <1>1, <1>3, <1>5, StaysStored
<1> QED BY <1>4, <1>6, <1>7


\* A step that leaves what was written alone.
Follows(y, x) ==
    \/ x \in Over
    \/ y \in Unstarted /\ x \in Unstarted
    \/ y \in {"llm", "finish", "save"} /\ x \in {"finish", "save"}
    \/ x = y
LEMMA QuietMoves ==
    ASSUME ChatInv, NEW c \in Chats, NEW x \in ChatStops, at' = [at EXCEPT ![c] = x],
           at[c] \in Over => x \in Over, Follows(at[c], x), UNCHANGED loopVars,
           left' \in [Chats -> BOOLEAN],
           several' \in [Chats -> BOOLEAN], creates' \in [Chats -> BOOLEAN],
           ended' \in [Chats -> {"none", "finished", "error"}],
           saved' \in [Chats -> {"no", "yes", "lost", "nothing"}],
           mishaps' \in 0 .. MaxMishaps,
           session' # NoSession => session' \in Seq(Messages),
           naming' # NoSession => naming' \in Seq(Messages),
           StoredIn(session', at', shown'), StoredIn(naming', at', shown')
    PROVE  ChatInv'
<1>1. ChatTyped /\ Written(c)
  BY DEF ChatInv
<1>2. at'[c] = x
  BY <1>1 DEF ChatTyped
<1>3. RanBy(c)' = RanBy(c) /\ Recent(c)' = Recent(c)
  <2>1. RanBy(c)' = RanBy(c)
    BY DEF RanBy, loopVars
  <2> QED BY <2>1 DEF Recent, loopVars
<1>4. Written(c)'
  BY <1>1, <1>2, <1>3 DEF Written, Follows, loopVars, Over, Unstarted
<1>5. /\ shown' = [shown EXCEPT ![c] = shown[c]] /\ shown[c] \in Seq(Parts)
      /\ parts' = [parts EXCEPT ![c] = parts[c]] /\ parts[c] \in Seq(Parts)
  BY <1>1 DEF ChatTyped, loopVars
<1>6. /\ round' \in [Chats -> 0 .. MaxRounds] /\ calls' \in [Chats -> 0 .. MaxCalls]
      /\ tools' \in [Chats -> 0 .. MaxRounds * MaxCalls] /\ final' \in [Chats -> BOOLEAN]
      /\ \A d \in Chats \ {c}: /\ round'[d] = round[d] /\ calls'[d] = calls[d]
                               /\ tools'[d] = tools[d]
  BY <1>1 DEF ChatTyped, loopVars
<1> QED BY <1>4, <1>5, <1>6, ChatMoves

\* The same when no document is touched either.
LEMMA QuietlyOn ==
    ASSUME ChatInv, NEW c \in Chats, NEW x \in ChatStops, at' = [at EXCEPT ![c] = x],
           at[c] \in Over => x \in Over, Follows(at[c], x), UNCHANGED <<docVars, loopVars>>,
           left' \in [Chats -> BOOLEAN],
           several' \in [Chats -> BOOLEAN], creates' \in [Chats -> BOOLEAN],
           ended' \in [Chats -> {"none", "finished", "error"}],
           saved' \in [Chats -> {"no", "yes", "lost", "nothing"}],
           mishaps' \in 0 .. MaxMishaps
    PROVE  ChatInv'
<1>1. ChatTyped /\ UNCHANGED <<session, naming>>
  BY DEF ChatInv, docVars
<1>2. shown' = [shown EXCEPT ![c] = shown[c]] /\ shown[c] \in Seq(Parts)
  BY <1>1 DEF ChatTyped, loopVars
<1>3. StoredIn(session', at', shown') /\ StoredIn(naming', at', shown')
  BY <1>1, <1>2, NothingStored
<1>4. /\ session' # NoSession => session' \in Seq(Messages)
      /\ naming' # NoSession => naming' \in Seq(Messages)
  BY <1>1 DEF ChatTyped
<1> QED BY <1>3, <1>4, QuietMoves

LEMMA MishapTyped == ChatTyped /\ Mishap => mishaps' \in 0 .. MaxMishaps
BY ChatBoundsAssumption DEF ChatTyped, Mishap

LEMMA HandlerSteps ==
    ASSUME ChatInv, NEW c \in Chats,
           \/ RefuseChat(c) \/ NotConnected(c) \/ Connected(c) \/ ModelFails(c) \/ Finish(c)
           \/ ClientLeaves(c)
    PROVE  ChatInv'
<1>1. ChatTyped
  BY DEF ChatInv
<1> USE <1>1, MishapTyped, QuietlyOn DEF ChatTyped, To, End, Follows, Over, Unstarted, ChatStops
<1>2. CASE RefuseChat(c)
  BY <1>2 DEF RefuseChat
<1>3. CASE NotConnected(c)
  BY <1>3 DEF NotConnected
<1>4. CASE Connected(c)
  BY <1>4 DEF Connected
<1>5. CASE ModelFails(c)
  BY <1>5 DEF ModelFails
<1>6. CASE Finish(c)
  BY <1>6 DEF Finish
<1>7. CASE ClientLeaves(c)
  <2>1. at' = [at EXCEPT ![c] = at[c]] /\ at[c] \in ChatStops
    BY <1>7 DEF ClientLeaves
  <2> QED BY <1>7, <2>1 DEF ClientLeaves
<1> QED BY <1>2, <1>3, <1>4, <1>5, <1>6, <1>7

\* The session: made, deleted, renamed.
LEMMA EmptyStored == \A where, stream: StoredIn(<<>>, where, stream) /\ StoredIn(NoSession, where, stream)
BY DEF StoredIn

LEMMA OpenKeeps ==
    ASSUME ChatInv, NEW c \in Chats, Open(c)
    PROVE  ChatInv'
<1>1. ChatTyped /\ at[c] = "idle" /\ UNCHANGED loopVars
  BY DEF ChatInv, Open
<1>2. shown' = [shown EXCEPT ![c] = shown[c]] /\ shown[c] \in Seq(Parts)
  BY <1>1 DEF ChatTyped, loopVars
<1>3. at' = [at EXCEPT ![c] = "check"] /\ "check" \in ChatStops
  BY DEF Open, To, ChatStops
<1>4. StoredIn(session, at', shown') /\ StoredIn(naming, at', shown')
  BY <1>1, <1>2, <1>3, NothingStored DEF Over
<1>5. session' \in {<<>>, session} /\ naming' = naming /\ creates' \in [Chats -> BOOLEAN]
  BY <1>1 DEF Open, ChatTyped
<1>6. StoredIn(session', at', shown') /\ StoredIn(naming', at', shown')
  BY <1>4, <1>5, EmptyStored
<1>7. /\ session' # NoSession => session' \in Seq(Messages)
      /\ naming' # NoSession => naming' \in Seq(Messages)
  BY <1>1, <1>5, EmptySeq DEF ChatTyped
<1>8. UNCHANGED <<left, several, ended, saved, mishaps>>
  BY DEF Open
<1> QED BY <1>1, <1>3, <1>5, <1>6, <1>7, <1>8, QuietMoves DEF ChatTyped, Follows, Over, Unstarted

LEMMA NamerSteps ==
    ASSUME ChatInv, NEW c \in Chats, ReadToName(c) \/ Rename(c)
    PROVE  ChatInv'
<1>1. ChatTyped /\ at[c] \in {"name", "rename"}
      /\ UNCHANGED <<loopVars, several, creates, ended, saved, left, mishaps>>
  BY DEF ChatInv, ReadToName, Rename
<1>2. shown' = [shown EXCEPT ![c] = shown[c]] /\ shown[c] \in Seq(Parts)
  BY <1>1 DEF ChatTyped, loopVars
<1>3. PICK x \in {"done", "rename"}: at' = [at EXCEPT ![c] = x]
  BY DEF ReadToName, Rename, To
<1>4. StoredIn(session, at', shown') /\ StoredIn(naming, at', shown')
  BY <1>1, <1>2, <1>3, NothingStored DEF Over, ChatStops
<1>5. session' \in {session, naming} /\ naming' \in {session, naming, NoSession}
  BY DEF ReadToName, Rename
<1>6. StoredIn(session', at', shown') /\ StoredIn(naming', at', shown')
  BY <1>4, <1>5, EmptyStored
<1>7. /\ session' # NoSession => session' \in Seq(Messages)
      /\ naming' # NoSession => naming' \in Seq(Messages)
  BY <1>1, <1>5 DEF ChatTyped
<1> QED BY <1>1, <1>3, <1>6, <1>7, QuietMoves DEF ChatTyped, Follows, Over, ChatStops

LEMMA StopKeeps ==
    ASSUME ChatInv, NEW c \in Chats, Stop(c)
    PROVE  ChatInv'
<1>1. ChatTyped /\ UNCHANGED <<session, loopVars, several, creates, ended, left>>
      /\ at' = [at EXCEPT ![c] = "done"] /\ "done" \in ChatStops
  BY DEF ChatInv, Stop, To, ChatStops
<1>2. shown' = [shown EXCEPT ![c] = shown[c]] /\ shown[c] \in Seq(Parts)
  BY <1>1 DEF ChatTyped, loopVars
<1>3. StoredIn(session, at', shown') /\ StoredIn(naming, at', shown')
  BY <1>1, <1>2, NothingStored DEF Over
<1>4. session' = session /\ naming' \in {naming, NoSession}
  BY DEF Stop
<1>5. StoredIn(session', at', shown') /\ StoredIn(naming', at', shown')
  BY <1>3, <1>4, EmptyStored
<1>6. /\ session' # NoSession => session' \in Seq(Messages)
      /\ naming' # NoSession => naming' \in Seq(Messages)
  BY <1>1, <1>4 DEF ChatTyped
<1>7. saved' \in [Chats -> {"no", "yes", "lost", "nothing"}] /\ mishaps' \in 0 .. MaxMishaps
  BY <1>1, MishapTyped DEF Stop, ChatTyped
<1> QED BY <1>1, <1>5, <1>6, <1>7, QuietMoves DEF ChatTyped, Follows, Over

LEMMA DeleteKeeps ==
    ASSUME ChatInv, DeleteChat
    PROVE  ChatInv'
<1>1. ChatTyped /\ session' = NoSession
      /\ UNCHANGED <<naming, at, several, creates, loopVars, ended, saved, left>>
  BY DEF ChatInv, DeleteChat
<1>2. mishaps' \in 0 .. MaxMishaps
  BY <1>1, MishapTyped DEF DeleteChat
<1>3. ChatTyped'
  BY <1>1, <1>2 DEF ChatTyped, loopVars
<1>4. \A c \in Chats: Written(c)'
  <2> SUFFICES ASSUME NEW c \in Chats PROVE Written(c)'
    OBVIOUS
  <2>1. RanBy(c)' = RanBy(c)
    BY <1>1 DEF RanBy, loopVars
  <2>2. Recent(c)' = Recent(c)
    BY <1>1, <2>1 DEF Recent, loopVars
  <2> QED BY <1>1, <2>1, <2>2 DEF ChatInv, Written, loopVars
<1>5. StoredIn(session', at', shown') /\ StoredIn(naming', at', shown')
  BY <1>1, EmptyStored DEF ChatInv, loopVars
<1> QED BY <1>3, <1>4, <1>5 DEF ChatInv


-----------------------------------------------------------------------------
(* The steps that write.                                                   *)

\* The question and the reply: one message at the end of the session.
LEMMA QuestionKeeps ==
    ASSUME ChatInv, NEW c \in Chats, StoreQuestion(c)
    PROVE  ChatInv'
<1>1. ChatTyped /\ at[c] = "ask" /\ UNCHANGED <<naming, several, creates, loopVars, ended, saved, left>>
      /\ at' = [at EXCEPT ![c] = "start"] /\ "start" \in ChatStops
  BY DEF ChatInv, StoreQuestion, To, ChatStops
<1>2. shown' = [shown EXCEPT ![c] = shown[c]] /\ shown[c] \in Seq(Parts)
  BY <1>1 DEF ChatTyped, loopVars
<1>3. StoredIn(session, at', shown') /\ StoredIn(naming, at', shown')
  BY <1>1, <1>2, NothingStored DEF Over
<1>4. Question(c) \in Messages /\ Question(c).role # "assistant"
  BY EmptySeq DEF Question, Messages
<1>5. session' = session \/ (session # NoSession /\ session' = Append(session, Question(c)))
  BY DEF StoreQuestion
<1>6. StoredIn(session', at', shown') /\ (session' # NoSession => session' \in Seq(Messages))
  <2>1. CASE session' = session
    BY <1>1, <1>3, <2>1 DEF ChatTyped
  <2>2. CASE session # NoSession /\ session' = Append(session, Question(c))
    <3>1. PICK a, b: a = at' /\ b = shown'
      OBVIOUS
    <3>2. session \in Seq(Messages) /\ StoredIn(session, a, b)
      BY <1>1, <1>3, <2>2, <3>1 DEF ChatTyped
    <3>3. /\ Append(session, Question(c)) \in Seq(Messages)
          /\ StoredIn(Append(session, Question(c)), a, b)
      BY <1>4, <2>2, <3>2, AppendStored
    <3> QED BY <2>2, <3>1, <3>3
  <2> QED BY <1>5, <2>1, <2>2
<1>7. mishaps' \in 0 .. MaxMishaps
  BY <1>1, MishapTyped DEF StoreQuestion, ChatTyped
<1>8. naming' # NoSession => naming' \in Seq(Messages)
  BY <1>1 DEF ChatTyped
<1>9. StoredIn(naming', at', shown')
  BY <1>1, <1>3
<1> QED BY <1>1, <1>6, <1>7, <1>8, <1>9, QuietMoves DEF ChatTyped, Follows, Over, Unstarted

LEMMA ReplyKeeps ==
    ASSUME ChatInv, NEW c \in Chats, SaveReply(c)
    PROVE  ChatInv'
<1>1. ChatTyped /\ Written(c) /\ at[c] = "save"
      /\ UNCHANGED <<naming, several, creates, loopVars, ended, left>>
  BY DEF ChatInv, SaveReply
<1>2. PICK x \in {"name", "done"}: at' = [at EXCEPT ![c] = x]
  BY DEF SaveReply, To
<1>3. shown' = [shown EXCEPT ![c] = shown[c]] /\ shown[c] \in Seq(Parts) /\ parts[c] \in Seq(Parts)
      /\ at'[c] = x /\ x \in ChatStops
  BY <1>1, <1>2 DEF ChatTyped, loopVars, ChatStops
<1>4. StoredIn(session, at', shown') /\ StoredIn(naming, at', shown')
  BY <1>1, <1>2, <1>3, NothingStored DEF Over
<1>5. /\ Reply(c) \in Messages /\ Reply(c).chat = c /\ at'[c] \in Over
      /\ AsShown(shown'[c], Reply(c).parts)
  BY <1>1, <1>2, <1>3 DEF Reply, Messages, Over, Written, loopVars
<1>6. session' = session \/ (session # NoSession /\ session' = Append(session, Reply(c)))
  BY DEF SaveReply
<1>7. StoredIn(session', at', shown') /\ (session' # NoSession => session' \in Seq(Messages))
  <2>1. CASE session' = session
    BY <1>1, <1>4, <2>1 DEF ChatTyped
  <2>2. CASE session # NoSession /\ session' = Append(session, Reply(c))
    <3>1. PICK a, b: a = at' /\ b = shown'
      OBVIOUS
    <3>2. session \in Seq(Messages) /\ StoredIn(session, a, b)
      BY <1>1, <1>4, <2>2, <3>1 DEF ChatTyped
    <3>3. a[Reply(c).chat] \in Over /\ AsShown(b[Reply(c).chat], Reply(c).parts)
      BY <1>5, <3>1
    <3>4. /\ Append(session, Reply(c)) \in Seq(Messages)
          /\ StoredIn(Append(session, Reply(c)), a, b)
      BY <1>5, <2>2, <3>2, <3>3, AppendStored
    <3> QED BY <2>2, <3>1, <3>4
  <2> QED BY <1>6, <2>1, <2>2
<1>8. mishaps' \in 0 .. MaxMishaps
  BY <1>1, MishapTyped DEF SaveReply, ChatTyped
<1>9. saved' \in [Chats -> {"no", "yes", "lost", "nothing"}]
  BY <1>1 DEF SaveReply, ChatTyped
<1>10. (naming' # NoSession => naming' \in Seq(Messages)) /\ StoredIn(naming', at', shown')
  BY <1>1, <1>4 DEF ChatTyped
<1> QED BY <1>1, <1>2, <1>3, <1>7, <1>8, <1>9, <1>10, QuietMoves DEF ChatTyped, Follows, Over

\* A loop that writes, but stores nothing.
LEMMA LoopMoves ==
    ASSUME ChatInv, NEW c \in Chats, NEW x \in ChatStops, NEW s \in Seq(Parts), NEW p \in Seq(Parts),
           at' = [at EXCEPT ![c] = x], at[c] \notin Over,
           shown' = [shown EXCEPT ![c] = s], parts' = [parts EXCEPT ![c] = p],
           \A d \in Chats \ {c}: /\ round'[d] = round[d] /\ calls'[d] = calls[d]
                                 /\ tools'[d] = tools[d],
           round' \in [Chats -> 0 .. MaxRounds], calls' \in [Chats -> 0 .. MaxCalls],
           tools' \in [Chats -> 0 .. MaxRounds * MaxCalls],
           final' \in [Chats -> BOOLEAN], 
           UNCHANGED <<docVars, several, creates, ended, saved, left, mishaps>>,
           Written(c)'
    PROVE  ChatInv'
<1>1. ChatTyped /\ UNCHANGED <<session, naming>>
  BY DEF ChatInv, docVars
<1>2. StoredIn(session', at', shown') /\ StoredIn(naming', at', shown')
  BY <1>1, NothingStored
<1>3. /\ session' # NoSession => session' \in Seq(Messages)
      /\ naming' # NoSession => naming' \in Seq(Messages)
  BY <1>1 DEF ChatTyped
<1> QED BY <1>1, <1>2, <1>3, ChatMoves DEF ChatTyped

LEMMA OnePart == \A e \in Parts: <<e>> \in Seq(Parts)
OBVIOUS

LEMMA StartKeeps ==
    ASSUME ChatInv, NEW c \in Chats, Started(c)
    PROVE  ChatInv'
<1>1. ChatTyped /\ Written(c) /\ at[c] = "start"
      /\ UNCHANGED <<docVars, several, creates, calls, parts, tools, final, ended, saved, left, mishaps>>
      /\ at' = [at EXCEPT ![c] = "llm"] /\ round' = [round EXCEPT ![c] = 1]
  BY DEF ChatInv, Started, To
<1>2. shown[c] = <<>> /\ parts[c] = <<>> /\ tools[c] = 0
  BY <1>1 DEF Written, Unstarted
<1>3. PICK s: s \in {<<>>, <<Warning>>} /\ shown' = [shown EXCEPT ![c] = s]
  <2>1. shown[c] \o <<>> = <<>> /\ shown[c] \o <<Warning>> = <<Warning>>
    BY <1>2, ConcatEmptySeq, PartsAre, OnePart, EmptySeq
  <2> QED BY <2>1 DEF Started, Show
<1>4. s \in Seq(Parts)
  BY <1>3, PartsAre, OnePart, EmptySeq
<1>5. /\ at'[c] = "llm" /\ round'[c] = 1 /\ shown'[c] = s /\ parts'[c] = <<>> /\ tools'[c] = 0
      /\ \A d \in Chats \ {c}: round'[d] = round[d]
      /\ round' \in [Chats -> 0 .. MaxRounds]
  BY <1>1, <1>2, <1>3, ChatBoundsAssumption DEF ChatTyped
<1>6. ToolsIn(s) = 0
  <2>1. <<>> \o <<Warning>> = <<Warning>>
    BY PartsAre, OnePart, ConcatEmptySeq
  <2>2. ToolsIn(<<>> \o <<Warning>>) = 0
    BY NoTools, PartsAre, ToolsCounted, EmptySeq
  <2> QED BY <1>3, <2>1, <2>2, NoTools
<1>7. RanBy(c)' = 0
  BY <1>5, <1>6 DEF RanBy, ToolsIn
<1>8. AsShown(s, <<>>)
  BY <1>3, PartsAre, OnePart, ConcatEmptySeq DEF AsShown
<1>9. Written(c)'
  <2>1. (round'[c] - 1) * MaxCalls = 0
    BY <1>5, ChatBoundsAssumption
  <2> QED BY <1>5, <1>7, <1>8, <2>1 DEF Written, Unstarted
<1>10. parts' = [parts EXCEPT ![c] = <<>>] /\ <<>> \in Seq(Parts)
  BY <1>1, <1>2, EmptySeq DEF ChatTyped
<1> QED BY <1>1, <1>3, <1>4, <1>5, <1>9, <1>10, LoopMoves DEF ChatTyped, Over, ChatStops

\* The text of an answer goes to both.
LEMMA SaidKeeps ==
    ASSUME ChatInv, NEW c \in Chats, at[c] = "llm", NEW says \in BOOLEAN, NEW t,
           t = IF says THEN <<Text(round[c])>> ELSE <<>>
    PROVE  /\ t \in Seq(Parts) /\ shown[c] \o t \in Seq(Parts) /\ parts[c] \o t \in Seq(Parts)
           /\ AsShown(shown[c] \o t, parts[c] \o t)
           /\ ToolsIn(shown[c] \o t) = tools[c]
<1>1. ChatTyped /\ Written(c)
  BY DEF ChatInv
<1>2. /\ shown[c] \in Seq(Parts) /\ parts[c] \in Seq(Parts) /\ AsShown(shown[c], parts[c])
      /\ RanBy(c) = tools[c] /\ round[c] \in 1 .. MaxRounds
  BY <1>1 DEF ChatTyped, Written
<1>3. Text(round[c]) \in Parts /\ Text(round[c])[1] # "tool"
  BY <1>2, PartsAre
<1>4. t \in Seq(Parts)
  BY <1>3, OnePart, EmptySeq
<1>5. shown[c] \o t \in Seq(Parts) /\ parts[c] \o t \in Seq(Parts)
  BY <1>2, <1>4, ConcatProperties
<1>6. ToolsIn(shown[c] \o t) = ToolsIn(shown[c])
  BY <1>2, <1>3, ToolsCounted, ConcatEmptySeq
<1>7. ToolsIn(shown[c]) = RanBy(c)
  BY DEF ToolsIn, RanBy
<1> QED BY <1>2, <1>4, <1>5, <1>6, <1>7, GrowTogether

LEMMA AnswerKeeps ==
    ASSUME ChatInv, NEW c \in Chats, ModelAnswers(c)
    PROVE  ChatInv'
<1>1. ChatTyped /\ at[c] = "llm" /\ at' = [at EXCEPT ![c] = "finish"]
      /\ UNCHANGED <<docVars, several, creates, round, calls, tools, ended, saved, left, mishaps>>
  BY DEF ChatInv, ModelAnswers, To
<1> DEFINE Say(says) == IF says THEN <<Text(round[c])>> ELSE <<>>
<1>7. PICK says \in BOOLEAN:
        /\ final' = [final EXCEPT ![c] = says]
        /\ parts' = [parts EXCEPT ![c] = parts[c] \o Say(says)]
        /\ shown' = [shown EXCEPT ![c] = shown[c] \o Say(says)]
  BY DEF ModelAnswers, Show
<1>2. PICK t:
        /\ t = IF says THEN <<Text(round[c])>> ELSE <<>>
        /\ final' = [final EXCEPT ![c] = says]
        /\ parts' = [parts EXCEPT ![c] = parts[c] \o t]
        /\ shown' = [shown EXCEPT ![c] = shown[c] \o t]
  BY <1>7
<1>3. shown[c] \o t \in Seq(Parts) /\ parts[c] \o t \in Seq(Parts)
      /\ AsShown(shown[c] \o t, parts[c] \o t)
  BY <1>1, <1>2, SaidKeeps
<1>4. at'[c] = "finish" /\ shown'[c] = shown[c] \o t /\ parts'[c] = parts[c] \o t
  BY <1>1, <1>2 DEF ChatTyped
<1>5. Written(c)'
  BY <1>3, <1>4 DEF Written, Unstarted
<1>6. final' \in [Chats -> BOOLEAN]
  BY <1>1, <1>2 DEF ChatTyped
<1> QED BY <1>1, <1>2, <1>3, <1>5, <1>6, LoopMoves DEF ChatTyped, Over, ChatStops

LEMMA NamesKeeps ==
    ASSUME ChatInv, NEW c \in Chats, ModelNamesTools(c)
    PROVE  ChatInv'
<1>1. ChatTyped /\ Written(c) /\ at[c] = "llm" /\ at' = [at EXCEPT ![c] = "tools"]
      /\ UNCHANGED <<docVars, several, creates, round, tools, final, ended, saved, left, mishaps>>
  BY DEF ChatInv, ModelNamesTools, To
<1> DEFINE Say(says) == IF says THEN <<Text(round[c])>> ELSE <<>>
<1>10. PICK says \in BOOLEAN, n \in 0 .. MaxCalls:
        /\ calls' = [calls EXCEPT ![c] = n]
        /\ parts' = [parts EXCEPT ![c] = parts[c] \o Say(says)]
        /\ shown' = [shown EXCEPT ![c] = shown[c] \o Say(says)]
  <2>1. (IF several[c] THEN 0 ELSE 1) .. MaxCalls \subseteq 0 .. MaxCalls
    BY ChatBoundsAssumption
  <2> QED BY <2>1 DEF ModelNamesTools, Show
<1>2. PICK t:
        /\ t = IF says THEN <<Text(round[c])>> ELSE <<>>
        /\ calls' = [calls EXCEPT ![c] = n]
        /\ parts' = [parts EXCEPT ![c] = parts[c] \o t]
        /\ shown' = [shown EXCEPT ![c] = shown[c] \o t]
  BY <1>10
<1> HIDE DEF Say
<1>3. shown[c] \o t \in Seq(Parts) /\ parts[c] \o t \in Seq(Parts)
      /\ AsShown(shown[c] \o t, parts[c] \o t) /\ ToolsIn(shown[c] \o t) = tools[c]
  BY <1>1, <1>2, SaidKeeps
<1>4. /\ at'[c] = "tools" /\ shown'[c] = shown[c] \o t /\ parts'[c] = parts[c] \o t
      /\ calls'[c] = n /\ calls' \in [Chats -> 0 .. MaxCalls]
      /\ \A d \in Chats \ {c}: calls'[d] = calls[d]
  BY <1>1, <1>2 DEF ChatTyped
<1>5. RanBy(c)' = tools[c] /\ tools'[c] = tools[c] /\ round'[c] = round[c]
  BY <1>1, <1>3, <1>4 DEF RanBy, ToolsIn
<1>6. Recent(c)' = <<>>
  <2>1. tools[c] \in Nat
    BY <1>1, ChatBoundsAssumption DEF ChatTyped
  <2>2. RanBy(c)' - tools'[c] = 0
    BY <1>5, <2>1
  <2> QED BY <2>2 DEF Recent
<1>7. AsShown(shown'[c], parts'[c] \o Recent(c)')
  BY <1>3, <1>4, <1>6, ConcatEmptySeq
<1>8. RanBy(c)' + calls'[c] <= round'[c] * MaxCalls
  <2>1. tools[c] <= (round[c] - 1) * MaxCalls /\ tools[c] \in Nat /\ round[c] \in 1 .. MaxRounds
    BY <1>1, ChatBoundsAssumption DEF Written, ChatTyped
  <2>2. (round[c] - 1) * MaxCalls + MaxCalls = round[c] * MaxCalls /\ round[c] * MaxCalls \in Nat
        /\ (round[c] - 1) * MaxCalls \in Nat
    BY <2>1, ChatBoundsAssumption
  <2> QED BY <1>4, <1>5, <2>1, <2>2, ChatBoundsAssumption
<1>9. Written(c)'
  BY <1>1, <1>4, <1>5, <1>7, <1>8 DEF Written, Unstarted, ChatTyped
<1> QED BY <1>1, <1>2, <1>3, <1>4, <1>9, LoopMoves DEF ChatTyped, Over, ChatStops


LEMMA RoomLeft ==
    ASSUME NEW r \in 1 .. MaxRounds
    PROVE  /\ r * MaxCalls \in Nat /\ r * MaxCalls <= MaxRounds * MaxCalls
           /\ MaxRounds * MaxCalls \in Nat
<1>1. MaxRounds \in Nat /\ MaxCalls \in Nat /\ r \in Nat /\ MaxRounds - r \in Nat
  BY ChatBoundsAssumption
<1>2. \A a, b \in Nat: a * b \in Nat
  OBVIOUS
<1>3. (MaxRounds - r) * MaxCalls \in Nat /\ r * MaxCalls \in Nat /\ MaxRounds * MaxCalls \in Nat
  BY <1>1, <1>2
<1>4. MaxRounds * MaxCalls = r * MaxCalls + (MaxRounds - r) * MaxCalls
  BY <1>1
<1> QED BY <1>3, <1>4

LEMMA PartsJoin == \A s, t, u \in Seq(Parts): (s \o t) \o u = s \o (t \o u)
BY ConcatAssociative

LEMMA ToolKeeps ==
    ASSUME ChatInv, NEW c \in Chats, RunTool(c)
    PROVE  ChatInv'
<1>1. ChatTyped /\ Written(c) /\ at[c] = "tools" /\ calls[c] > 0
      /\ UNCHANGED <<docVars, at, several, creates, round, parts, tools, final, ended, saved, left, mishaps>>
      /\ calls' = [calls EXCEPT ![c] = calls[c] - 1]
  BY DEF ChatInv, RunTool
<1>2. PICK n, k, e: n = RanBy(c) /\ k = tools[c] /\ e = Call(n + 1)
  OBVIOUS
<1>3. /\ shown[c] \in Seq(Parts) /\ parts[c] \in Seq(Parts) /\ n = ToolsIn(shown[c])
      /\ round[c] \in 1 .. MaxRounds /\ k \in Nat /\ k <= n /\ calls[c] \in Nat
      /\ n + calls[c] <= round[c] * MaxCalls
      /\ AsShown(shown[c], parts[c] \o Recent(c))
  BY <1>1, <1>2, ChatBoundsAssumption DEF ChatTyped, Written, RanBy, ToolsIn
<1>4. n \in Nat /\ n + 1 <= MaxRounds * MaxCalls /\ MaxRounds * MaxCalls \in Nat
  BY <1>1, <1>3, RoomLeft, ToolsCounted
<1>5. e \in Parts /\ e[1] = "tool" /\ <<e>> \in Seq(Parts)
  BY <1>2, <1>4, PartsAre, OnePart
<1>6. shown' = [shown EXCEPT ![c] = shown[c] \o <<e>>] /\ shown[c] \o <<e>> \in Seq(Parts)
  BY <1>2, <1>3, <1>5, ConcatProperties DEF RunTool, Show
<1>7. /\ at' = [at EXCEPT ![c] = "tools"] /\ at'[c] = "tools" /\ shown'[c] = shown[c] \o <<e>>
      /\ parts' = [parts EXCEPT ![c] = parts[c]] /\ parts'[c] = parts[c]
      /\ calls'[c] = calls[c] - 1 /\ calls' \in [Chats -> 0 .. MaxCalls]
      /\ \A d \in Chats \ {c}: calls'[d] = calls[d]
      /\ tools'[c] = k /\ round'[c] = round[c]
  <2>1. at' = [at EXCEPT ![c] = "tools"] /\ at'[c] = "tools"
    BY <1>1 DEF ChatTyped
  <2>2. shown'[c] = shown[c] \o <<e>>
    <3>1. PICK s: s = shown[c] \o <<e>>
      OBVIOUS
    <3> QED BY <1>1, <1>6, <3>1 DEF ChatTyped
  <2>3. parts' = [parts EXCEPT ![c] = parts[c]] /\ parts'[c] = parts[c]
    BY <1>1 DEF ChatTyped
  <2>4. /\ calls'[c] = calls[c] - 1 /\ calls' \in [Chats -> 0 .. MaxCalls]
        /\ \A d \in Chats \ {c}: calls'[d] = calls[d]
    BY <1>1, ChatBoundsAssumption DEF ChatTyped
  <2> QED BY <1>1, <1>2, <2>1, <2>2, <2>3, <2>4
<1>8. RanBy(c)' = n + 1
  <2>1. ToolsIn(shown[c] \o <<e>>) = n + 1
    BY <1>3, <1>5, ToolsCounted
  <2> QED BY <1>7, <2>1 DEF RanBy, ToolsIn
<1>9. /\ Recent(c) = [i \in 1 .. n - k |-> Call(k + i)]
      /\ Recent(c)' = [i \in 1 .. (n + 1) - k |-> Call(k + i)]
  BY <1>2, <1>7, <1>8 DEF Recent
<1>10. PICK old, new: old = [i \in 1 .. n - k |-> Call(k + i)]
                      /\ new = [i \in 1 .. (n + 1) - k |-> Call(k + i)]
  OBVIOUS
<1>11. old \in Seq(Parts) /\ new = old \o <<e>>
  BY <1>2, <1>3, <1>4, <1>10, RecentGrows
<1>12. AsShown(shown[c] \o <<e>>, parts[c] \o new)
  <2>1. parts[c] \o old \in Seq(Parts)
    BY <1>3, <1>11, ConcatProperties
  <2>2. AsShown(shown[c] \o <<e>>, (parts[c] \o old) \o <<e>>)
    BY <1>3, <1>5, <1>9, <1>10, <2>1, GrowTogether
  <2>3. (parts[c] \o old) \o <<e>> = parts[c] \o (old \o <<e>>)
    <3>1. PICK s, t: s = parts[c] /\ t = <<e>>
      OBVIOUS
    <3>2. s \in Seq(Parts) /\ old \in Seq(Parts) /\ t \in Seq(Parts)
      BY <1>3, <1>5, <1>11, <3>1
    <3>3. (s \o old) \o t = s \o (old \o t)
      BY <3>2, PartsJoin, Zenon
    <3> QED BY <3>1, <3>3
  <2> QED BY <1>11, <2>2, <2>3
<1>13. AsShown(shown'[c], parts'[c] \o Recent(c)')
  BY <1>7, <1>9, <1>10, <1>12
<1>14. k <= n + 1 /\ (n + 1) + calls'[c] <= round'[c] * MaxCalls /\ round'[c] >= 1
  BY <1>3, <1>4, <1>7, RoomLeft
<1>15. Written(c)'
  BY <1>7, <1>8, <1>13, <1>14 DEF Written, Unstarted
<1> QED BY <1>1, <1>3, <1>6, <1>7, <1>15, LoopMoves DEF ChatTyped, Over, ChatStops

LEMMA KeepKeeps ==
    ASSUME ChatInv, NEW c \in Chats, KeepTools(c)
    PROVE  ChatInv'
<1>1. ChatTyped /\ Written(c) /\ at[c] = "tools" /\ calls[c] = 0
      /\ UNCHANGED <<docVars, several, creates, calls, shown, final, ended, saved, left, mishaps>>
  BY DEF ChatInv, KeepTools
<1>2. PICK n, p: n = RanBy(c) /\ p = parts[c] \o Recent(c)
  OBVIOUS
<1>3. /\ parts' = [parts EXCEPT ![c] = p] /\ tools' = [tools EXCEPT ![c] = n]
  BY <1>2 DEF KeepTools, Recent
<1>4. /\ shown[c] \in Seq(Parts) /\ parts[c] \in Seq(Parts) /\ n = ToolsIn(shown[c])
      /\ round[c] \in 1 .. MaxRounds /\ tools[c] \in Nat /\ tools[c] <= n
      /\ n + 0 <= round[c] * MaxCalls
      /\ AsShown(shown[c], p)
  BY <1>1, <1>2, ChatBoundsAssumption DEF ChatTyped, Written, RanBy, ToolsIn
<1>5. n \in Nat /\ n <= MaxRounds * MaxCalls /\ n <= round[c] * MaxCalls
      /\ MaxRounds * MaxCalls \in Nat
  BY <1>4, RoomLeft, ToolsCounted
<1>6. p \in Seq(Parts)
  <2>1. PICK k: k = tools[c]
    OBVIOUS
  <2>2. \A i \in 1 .. n - k: k + i \in 1 .. (MaxRounds * MaxCalls)
    BY <1>4, <1>5, <2>1
  <2>3. n - k \in Nat /\ \A i \in 1 .. n - k: Call(k + i) \in Parts
    BY <1>4, <1>5, <2>1, <2>2, PartsAre
  <2>4. [i \in 1 .. n - k |-> Call(k + i)] \in Seq(Parts)
    BY <2>3
  <2>5. Recent(c) \in Seq(Parts)
    BY <1>2, <2>1, <2>4 DEF Recent
  <2> QED BY <1>2, <1>4, <2>5, ConcatProperties
<1>7. PICK x \in {"llm", "finish"}:
        /\ at' = [at EXCEPT ![c] = x]
        /\ x = "llm" => round[c] < MaxRounds /\ round' = [round EXCEPT ![c] = round[c] + 1]
        /\ x = "finish" => round' = round
  BY DEF KeepTools, To
<1>8. /\ round' \in [Chats -> 0 .. MaxRounds] /\ tools' \in [Chats -> 0 .. MaxRounds * MaxCalls]
      /\ \A d \in Chats \ {c}: round'[d] = round[d] /\ tools'[d] = tools[d]
      /\ tools'[c] = n /\ parts'[c] = p /\ at'[c] = x /\ shown'[c] = shown[c]
      /\ x = "llm" => round'[c] = round[c] + 1
  <2>1. round[c] < MaxRounds => round[c] + 1 \in 0 .. MaxRounds
    BY <1>4, ChatBoundsAssumption
  <2>2. /\ round' \in [Chats -> 0 .. MaxRounds]
        /\ \A d \in Chats \ {c}: round'[d] = round[d]
        /\ x = "llm" => round'[c] = round[c] + 1
    <3>1. round \in [Chats -> 0 .. MaxRounds]
      BY <1>1 DEF ChatTyped
    <3>2. CASE x = "llm"
      BY <1>7, <2>1, <3>1, <3>2
    <3>3. CASE x = "finish"
      BY <1>7, <3>1, <3>3
    <3> QED BY <3>2, <3>3
  <2>3. n \in 0 .. MaxRounds * MaxCalls
    BY <1>5
  <2>4. /\ tools' \in [Chats -> 0 .. MaxRounds * MaxCalls] /\ tools'[c] = n
        /\ \A d \in Chats \ {c}: tools'[d] = tools[d]
    BY <1>1, <1>3, <2>3 DEF ChatTyped
  <2>5. parts'[c] = p /\ at'[c] = x /\ shown'[c] = shown[c]
    BY <1>1, <1>3, <1>7 DEF ChatTyped
  <2> QED BY <2>2, <2>4, <2>5
<1>9. RanBy(c)' = n
  BY <1>2, <1>8 DEF RanBy
<1>10. x = "llm" => round'[c] >= 1 /\ (round'[c] - 1) * MaxCalls = round[c] * MaxCalls
  BY <1>4, <1>8
<1>11. Written(c)'
  BY <1>4, <1>5, <1>8, <1>9, <1>10 DEF Written, Unstarted
<1>12. shown' = [shown EXCEPT ![c] = shown[c]]
  BY <1>1 DEF ChatTyped
<1> QED BY <1>1, <1>3, <1>4, <1>6, <1>7, <1>8, <1>11, <1>12, LoopMoves DEF ChatTyped, Over, ChatStops

LEMMA ChatBegins == ChatInit => ChatInv
<1> SUFFICES ASSUME ChatInit PROVE ChatInv
  OBVIOUS
<1>1. ChatTyped
  <2>1. MaxRounds \in Nat /\ MaxCalls \in Nat /\ MaxRounds * MaxCalls \in Nat
    BY ChatBoundsAssumption
  <2>2. session # NoSession => session \in Seq(Messages)
    BY EmptySeq DEF ChatInit
  <2> QED BY <2>1, <2>2, EmptySeq, ChatBoundsAssumption DEF ChatInit, ChatTyped, ChatStops
<1>2. \A c \in Chats: Written(c)
  BY DEF ChatInit, Written
<1>3. StoredIn(session, at, shown) /\ StoredIn(naming, at, shown)
  BY EmptyStored DEF ChatInit
<1> QED BY <1>1, <1>2, <1>3 DEF ChatInv

LEMMA ChatStep == ChatInv /\ [ChatNext]_chatVars => ChatInv'
<1> SUFFICES ASSUME ChatInv, [ChatNext]_chatVars PROVE ChatInv'
  OBVIOUS
<1>1. CASE UNCHANGED chatVars
  <2>1. \A c \in Chats: RanBy(c)' = RanBy(c)
    BY <1>1 DEF RanBy, chatVars
  <2>2. \A c \in Chats: Recent(c)' = Recent(c)
    BY <1>1, <2>1 DEF Recent, chatVars
  <2>3. \A c \in Chats: Written(c)'
    BY <1>1, <2>1, <2>2 DEF chatVars, ChatInv, Written
  <2>4. ChatTyped'
    BY <1>1 DEF chatVars, ChatInv, ChatTyped
  <2>5. StoredIn(session', at', shown') /\ StoredIn(naming', at', shown')
    BY <1>1 DEF chatVars, ChatInv
  <2> QED BY <2>3, <2>4, <2>5 DEF ChatInv
<1>2. ASSUME NEW c \in Chats, ChatGoesOn(c) PROVE ChatInv'
  BY <1>2, HandlerSteps, QuestionKeeps, StartKeeps, AnswerKeeps, NamesKeeps, ToolKeeps, KeepKeeps,
     ReplyKeeps, NamerSteps DEF ChatGoesOn
<1>3. ASSUME NEW c \in Chats,
             RefuseChat(c) \/ Chat(c) \/ ChatMulti(c) \/ ClientLeaves(c) \/ Stop(c)
      PROVE  ChatInv'
  BY <1>3, HandlerSteps, OpenKeeps, StopKeeps DEF Chat, ChatMulti
<1> QED BY <1>1, <1>2, <1>3, DeleteKeeps DEF ChatNext

ChatSpec == ChatInit /\ [][ChatNext]_chatVars

\* An MCP chat's stored reply is what its client was shown (loop.go: contentParts
\* beside the events): any number of chats, rounds, tools, failures, departures,
\* renamings and deletions; and every variable of it keeps its type.
THEOREM RepliesAsShown == ChatSpec => []ReplyAsShown /\ []ChatTypeOK
<1>1. ChatInv => ReplyAsShown
  BY DEF ChatInv, StoredIn, ReplyAsShown
<1>2. ChatInv => ChatTypeOK
  <2> SUFFICES ASSUME ChatTyped PROVE ChatTypeOK
    BY DEF ChatInv
  <2>1. ASSUME session # NoSession, NEW i \in 1 .. Len(session)
        PROVE  /\ session[i].role \in {"user", "assistant"} /\ session[i].chat \in Chats
               /\ session[i].parts \in Seq(Parts)
    <3>1. session[i] \in Messages
      BY <2>1, ElementOfSeq DEF ChatTyped
    <3> QED BY <3>1 DEF Messages
  <2> QED BY <2>1 DEF ChatTyped, ChatTypeOK, ChatStops
<1> QED BY <1>1, <1>2, ChatBegins, ChatStep, PTL DEF ChatSpec

-----------------------------------------------------------------------------
(* The types that the proofs above had no use for: the bounds, and what is *)
(* about the world.                                                        *)

LEMMA CountersDown ==
    ASSUME NEW max \in Nat, NEW n \in 0 .. max, n > 0
    PROVE  n - 1 \in 0 .. max
OBVIOUS

\* A consent under way is one that was begun.
Consents ==
    /\ flows \in 0 .. consents /\ consents \in 0 .. MaxConsents
    /\ tokenTrouble \in 0 .. MaxTokenTrouble

LEMMA ConsentsStep == Consents /\ [TokensNext]_tokenVars => Consents'
<1> SUFFICES ASSUME Consents, [TokensNext]_tokenVars PROVE Consents'
  OBVIOUS
<1>1. ASSUME Setback \/ UNCHANGED tokenTrouble PROVE tokenTrouble' \in 0 .. MaxTokenTrouble
  BY <1>1, TokenBoundsAssumption DEF Consents, Setback
<1>2. ASSUME UNCHANGED <<flows, consents>>, Setback \/ UNCHANGED tokenTrouble PROVE Consents'
  BY <1>1, <1>2 DEF Consents
<1>3. CASE Login
  BY <1>3, TokenBoundsAssumption DEF Login, Consents
<1>4. CASE DisconnectUser \/ Expire \/ Lapse \/ Withdraw \/ UNCHANGED tokenVars
  BY <1>2, <1>4, Zenon DEF DisconnectUser, Expire, Lapse, Withdraw, tokenVars
<1>5. ASSUME NEW c \in Callers, Exchange(c) PROVE Consents'
  <2>1. flows > 0 /\ flows' = flows - 1 /\ consents' = consents
    BY <1>5 DEF Exchange
  <2>2. Setback \/ UNCHANGED tokenTrouble
    BY <1>5 DEF Exchange, Well
  <2> QED BY <1>1, <2>1, <2>2 DEF Consents
<1>6. ASSUME NEW c \in Callers, SaveExchanged(c) PROVE Consents'
  BY <1>2, <1>6, Zenon DEF SaveExchanged, Well
<1>7. ASSUME NEW c \in Callers, GetExpired(c) \/ ClearToken(c) PROVE Consents'
  BY <1>2, <1>7, Zenon DEF GetExpired, ClearToken
<1>8. ASSUME NEW c \in Callers, RefreshToken(c) PROVE Consents'
  <2>1. UNCHANGED <<flows, consents>>
    BY <1>8 DEF RefreshToken
  <2>2. Setback \/ UNCHANGED tokenTrouble
    BY <1>8 DEF RefreshToken, Well
  <2> QED BY <1>2, <2>1, <2>2
<1>9. ASSUME NEW c \in Callers, SaveRefreshed(c) PROVE Consents'
  BY <1>2, <1>9, Zenon DEF SaveRefreshed, Well
<1> QED BY <1>3, <1>4, <1>5, <1>6, <1>7, <1>8, <1>9, Zenon DEF TokensNext

LEMMA TokenTypesHold == TokensSpec => []TokensTypeOK
<1>1. TokensInit => Consents
  BY TokenBoundsAssumption DEF TokensInit, Consents
<1>2. TokenInv /\ Consents => TokensTypeOK
  <2> SUFFICES ASSUME TokenTypes, Consents PROVE TokensTypeOK
    BY DEF TokenInv
  <2>1. flows \in 0 .. MaxConsents
    BY TokenBoundsAssumption DEF Consents
  <2> QED BY <2>1 DEF TokenTypes, Consents, TokensTypeOK
<1> QED BY <1>1, <1>2, ConsentsStep, TokensBegin, TokenStep, PTL DEF TokensSpec

Denials == loginTrouble \in 0 .. MaxLoginTrouble

LEMMA DenialsStep == Denials /\ [LoginNext]_loginVars => Denials'
<1> SUFFICES ASSUME Denials, [LoginNext]_loginVars PROVE Denials'
  OBVIOUS
<1>1. Denied \/ UNCHANGED loginTrouble
  <2>1. CASE SaveState \/ EndGrant \/ LoginLapses \/ UNCHANGED loginVars
    BY <2>1, Zenon DEF SaveState, EndGrant, LoginLapses, loginVars
  <2>2. ASSUME NEW p \in Pages, Callback(p) \/ Create(p) PROVE Denied \/ UNCHANGED loginTrouble
    BY <2>2, Zenon DEF Callback, Create, Granting
  <2>3. ASSUME NEW p \in Pages, GetLogin(p) \/ Update(p) \/ BackfillName(p) \/ Logout(p)
        PROVE  Denied \/ UNCHANGED loginTrouble
    BY <2>3, Zenon DEF GetLogin, Update, BackfillName, Logout, Granting
  <2>4. ASSUME NEW p \in Pages, Refresh(p) PROVE Denied \/ UNCHANGED loginTrouble
    BY <2>4 DEF Refresh, Granting
  <2>5. ASSUME NEW p \in Pages, Revoke(p) \/ Delete(p) \/ Leave(p)
        PROVE  Denied \/ UNCHANGED loginTrouble
    BY <2>5, Zenon DEF Revoke, Delete, Leave, Granting
  <2> QED BY <2>1, <2>2, <2>3, <2>4, <2>5, Zenon DEF LoginNext
<1> QED BY <1>1, LoginBoundsAssumption DEF Denied, Denials

LEMMA LoginTypesHold == LoginSpec => []LoginTypeOK
<1>1. LoginInit => Denials
  BY LoginBoundsAssumption DEF LoginInit, Denials
<1>2. LoginInv /\ Denials => LoginTypeOK
  BY DEF LoginInv, LoginTypes, Denials, LoginTypeOK
<1> QED BY <1>1, <1>2, DenialsStep, LoginBegins, LoginStep, PTL DEF LoginSpec

World == moved \subseteq AuthServers /\ elsewhere \in BOOLEAN

LEMMA WorldStep == DiscoveryInv /\ World /\ [DiscoveryNext]_discoveryVars => World'
<1> SUFFICES ASSUME DiscoveryTypes, World, [DiscoveryNext]_discoveryVars PROVE World'
  BY DEF DiscoveryInv
<1>1. CASE MoveEndpoints
  BY <1>1 DEF MoveEndpoints, World
<1>2. ASSUME NEW w \in Savers, StoreServer(w) PROVE World'
  <2>1. saver[w].foreign \in BOOLEAN
    BY DEF DiscoveryTypes, SaversOf
  <2> QED BY <1>2, <2>1 DEF StoreServer, worldVars, World
<1>3. ASSUME UNCHANGED <<moved, elsewhere>> PROVE World'
  BY <1>3 DEF World
<1>4. CASE NameAnother \/ RestartApi \/ UNCHANGED discoveryVars
  BY <1>3, <1>4, Zenon DEF NameAnother, RestartApi, discoveryVars, worldVars
<1>5. ASSUME NEW w \in Savers, NEW server, NEW client, NEW scopes,
             SaveServer(w, [server |-> server, client |-> client], scopes)
      PROVE  World'
  BY <1>3, <1>5 DEF SaveServer, worldVars
<1>6. ASSUME NEW w \in Savers, ProbeMcp(w) \/ ReadMetadata(w) \/ RegisterFound(w) \/ EnsureClientRegistered(w)
      PROVE  World'
  <2>1. UNCHANGED <<worldVars, elsewhere>>
    BY <1>6, Zenon DEF ProbeMcp, ReadMetadata, RegisterFound, EnsureClientRegistered
  <2> QED BY <1>3, <2>1 DEF worldVars
<1> QED BY <1>1, <1>2, <1>4, <1>5, <1>6, Zenon DEF DiscoveryNext

LEMMA DiscoveryTypesHold == DiscoverySpec => []DiscoveryTypeOK
<1>1. DiscoveryInit => World
  BY DEF DiscoveryInit, World
<1>2. DiscoveryInv /\ World => DiscoveryTypeOK
  BY DEF DiscoveryInv, DiscoveryTypes, SaversOf, World, DiscoveryTypeOK
<1> QED BY <1>1, <1>2, WorldStep, DiscoveryBegins, DiscoveryStep, PTL DEF DiscoverySpec

LEMMA ServerTypesHold == ServersSpec => []ServersTypeOK
<1>1. ServersInv => ServersTypeOK
  BY DEF ServersInv
<1> QED BY <1>1, InvariantBegins, StepsKeep, PTL DEF ServersSpec

LEMMA LlmTypesHold == LlmSpec => []LlmTypeOK
<1>1. LlmInv => LlmTypeOK
  BY DEF LlmInv
<1> QED BY <1>1, ModelsBegin, LlmStep, PTL DEF LlmSpec

-----------------------------------------------------------------------------
(* The parts beside one another.                                           *)

\* What is checked of all parts is a behaviour of each.
LEMMA PartsBehave ==
    McpSpec => /\ ServersSpec /\ TokensSpec /\ LoginSpec /\ DiscoverySpec /\ LlmSpec
               /\ ChatSpec
<1>1. McpInit =>
        /\ ServersInit /\ TokensInit /\ LoginInit /\ DiscoveryInit /\ LlmInit
        /\ ChatInit
  BY DEF McpInit
<1>2. [McpNext]_mcpVars =>
        /\ [ServersNext]_serverVars /\ [TokensNext]_tokenVars
        /\ [LoginNext]_loginVars /\ [DiscoveryNext]_discoveryVars /\ [LlmNext]_llmVars
        /\ [ChatNext]_chatVars
  <2>1. CASE McpNext
    BY <2>1, Zenon DEF McpNext
  <2>2. CASE UNCHANGED mcpVars
    BY <2>2 DEF mcpVars
  <2> QED BY <2>1, <2>2
<1> QED
  BY <1>1, <1>2, PTL
  DEF McpSpec, ServersSpec, TokensSpec, LoginSpec, DiscoverySpec, LlmSpec, ChatSpec

\* What a user or an administrator granted lasts: consent, login and client,
\* each as its module says, in the whole that the run checks.
THEOREM WhatWasGrantedLasts == McpSpec => []GrantsLast
<1>1. ConsentLasts /\ LoginLasts /\ ClientFits => GrantsLast
  BY DEF GrantsLast
<1> QED BY <1>1, PartsBehave, ConsentsLast, LoginsLast, ClientsFit, PTL

\* The same for what a server's status tells, for the models and for the replies.
THEOREM McpPartsCorrect == McpSpec => StatusTells /\ []ModelsSound /\ []ReplyAsShown
  BY PartsBehave, StatusIsTrue, ModelsAreSound, RepliesAsShown, PTL

\* Every variable of the parts keeps its type, in the whole that the run checks.
THEOREM McpTypesCorrect == McpSpec => []McpTypeOK
<1>1. LlmTypeOK /\ ServersTypeOK /\ ChatTypeOK /\ TokensTypeOK /\ DiscoveryTypeOK /\ LoginTypeOK
      => McpTypeOK
  BY DEF McpTypeOK
<1> QED
  BY <1>1, PartsBehave, LlmTypesHold, ServerTypesHold, RepliesAsShown, TokenTypesHold,
     DiscoveryTypesHold, LoginTypesHold, PTL
=============================================================================
