---------------------------- MODULE SlackProofs ----------------------------
(***************************************************************************)
(* Proofs about the Slack integration, for any number of questions,        *)
(* handlers, pods, workers and tokens, part by part.                       *)
(*                                                                         *)
(* The thread: no agent is asked a question twice within the life of a     *)
(* claim.  The askings of a question are counted: those done, those on     *)
(* their way, and one for each claim on it that is free to take.  A step   *)
(* turns one kind into another; only a claim that lapses adds one.         *)
(*                                                                         *)
(* The link of a user: the row keeps no token that its provider stopped    *)
(* accepting.  A token that is about to be stored is in one worker's hands *)
(* only, so nobody else can have it replaced or revoked.                   *)
(*                                                                         *)
(* The bots: each that is connected can be stopped.  Unless two workers    *)
(* started one at once, a bot is registered where none is registered.      *)
(*                                                                         *)
(* The writer: a finished answer is shown whole.  What was sent is shown   *)
(* in messages that each begin where the one before it ended, and a        *)
(* further round is left as long as not all of it was sent.                *)
(*                                                                         *)
(* The types: what may yet become a message leaves room for it.            *)
(***************************************************************************)
EXTENDS MCSlack, FiniteSetTheorems, SequenceTheorems, TLAPS

\* The types of what the argument is about, without the bounds of the counters.
ClaimTypes ==
    /\ asks \in [Questions -> Bots]
    /\ turn \in [Handlers -> Turns]
    /\ proxied \in [Questions -> Nat]
    /\ lapses \in [Claims -> Nat]
    /\ freeForAll \in BOOLEAN

\* The handler has the claim of the question and has not asked the agent yet.
OnItsWay(h, q) ==
    turn[h].of = q /\ turn[h].at \in {"start", "save", "question", "read", "authorise", "ask"}
Way(q) == {h \in Handlers: OnItsWay(h, q)}

\* The claims on a question that someone could take now.
OwnFree(q) == IF OwnKey(q) \in claims THEN 0 ELSE 1
AgainFree(q) == IF q \in invited /\ ReprocessKey(q) \notin claims THEN 1 ELSE 0

\* Every asking, done, on its way or still possible, is paid for: the first
\* by nothing, each further one by a claim that lapsed.
Paid(q) ==
    proxied[q] + Cardinality(Way(q)) + OwnFree(q) + AgainFree(q)
        <= 1 + lapses[OwnKey(q)] + lapses[ReprocessKey(q)]

ThreadInv ==
    /\ ClaimTypes
    /\ published \subseteq invited
    /\ freeForAll \/ \A q \in Questions: Paid(q)

-----------------------------------------------------------------------------
LEMMA HandlersFinite ==
    \A S \in SUBSET Handlers:
        /\ IsFiniteSet(S) /\ Cardinality(S) \in Nat /\ Cardinality(S) <= MaxHandlers
        /\ \A T \in SUBSET S: Cardinality(T) <= Cardinality(S)
        /\ \A h \in Handlers \ S: Cardinality(S \cup {h}) = Cardinality(S) + 1
        /\ \A h \in S: Cardinality(S \ {h}) = Cardinality(S) - 1
<1>1. IsFiniteSet(Handlers) /\ Cardinality(Handlers) = MaxHandlers
  BY SlackBoundsAssumption, FS_Interval DEF Handlers
<1>2. ASSUME NEW S \in SUBSET Handlers
      PROVE  IsFiniteSet(S) /\ Cardinality(S) \in Nat /\ Cardinality(S) <= MaxHandlers
  BY <1>1, FS_Subset, FS_CardinalityType
<1>3. ASSUME NEW S \in SUBSET Handlers, NEW T \in SUBSET S PROVE Cardinality(T) <= Cardinality(S)
  BY <1>2, FS_Subset
<1>4. ASSUME NEW S \in SUBSET Handlers, NEW h \in Handlers \ S
      PROVE  Cardinality(S \cup {h}) = Cardinality(S) + 1
  BY <1>2, FS_AddElement
<1>5. ASSUME NEW S \in SUBSET Handlers, NEW h \in S
      PROVE  Cardinality(S \ {h}) = Cardinality(S) - 1
  BY <1>2, FS_RemoveElement
<1> QED BY <1>2, <1>3, <1>4, <1>5

LEMMA KeysTyped ==
    ASSUME asks \in [Questions -> Bots], NEW q \in Questions
    PROVE  OwnKey(q) \in Claims /\ ReprocessKey(q) \in Claims /\ OwnKey(q) # ReprocessKey(q)
BY DEF OwnKey, ReprocessKey, Claims

\* What is counted are numbers.
LEMMA Numbers ==
    ASSUME ClaimTypes, NEW q \in Questions
    PROVE  /\ proxied[q] \in Nat /\ Cardinality(Way(q)) \in Nat
           /\ OwnFree(q) \in {0, 1} /\ AgainFree(q) \in {0, 1}
           /\ lapses[OwnKey(q)] \in Nat /\ lapses[ReprocessKey(q)] \in Nat
<1>1. Cardinality(Way(q)) \in Nat
  BY HandlersFinite DEF Way
<1>2. OwnKey(q) \in Claims /\ ReprocessKey(q) \in Claims
  BY KeysTyped DEF ClaimTypes
<1> QED BY <1>1, <1>2 DEF ClaimTypes, OwnFree, AgainFree

LEMMA ThreadBegins == SlackInit => ThreadInv
<1> SUFFICES ASSUME SlackInit PROVE ThreadInv
  OBVIOUS
<1>1. ClaimTypes
  BY QuestionsAssumption DEF SlackInit, ClaimTypes, Turns, Stages, Outcomes, Quiet
<1>2. ASSUME NEW q \in Questions PROVE Paid(q)
  <2>1. Way(q) = {}
    BY DEF SlackInit, Way, OnItsWay, Quiet
  <2>2. proxied[q] = 0 /\ OwnFree(q) = 1 /\ AgainFree(q) = 0
    BY DEF SlackInit, OwnFree, AgainFree
  <2> QED BY <1>1, <2>1, <2>2, Numbers, FS_EmptySet DEF Paid
<1> QED BY <1>1, <1>2 DEF ThreadInv, SlackInit

\* What is on its way can only have become less, or have been asked.
LEMMA StillPaid ==
    ASSUME ThreadInv, ClaimTypes', UNCHANGED freeForAll, published' \subseteq invited',
           \A p \in Questions: ~freeForAll =>
               /\ proxied'[p] + Cardinality(Way(p)') + OwnFree(p)' + AgainFree(p)'
                      <= proxied[p] + Cardinality(Way(p)) + OwnFree(p) + AgainFree(p)
               /\ lapses[OwnKey(p)] <= (lapses[OwnKey(p)])'
               /\ lapses[ReprocessKey(p)] <= (lapses[ReprocessKey(p)])'
    PROVE  ThreadInv'
<1>1. CASE freeForAll
  BY <1>1 DEF ThreadInv
<1>2. CASE ~freeForAll
  <2>1. ASSUME NEW p \in Questions PROVE Paid(p)'
    <3>1. Paid(p)
      BY <1>2 DEF ThreadInv
    <3>2. /\ proxied[p] \in Nat /\ Cardinality(Way(p)) \in Nat
          /\ OwnFree(p) \in Nat /\ AgainFree(p) \in Nat
          /\ lapses[OwnKey(p)] \in Nat /\ lapses[ReprocessKey(p)] \in Nat
      BY Numbers DEF ThreadInv
    <3>3. /\ proxied'[p] \in Nat /\ Cardinality(Way(p)') \in Nat
          /\ OwnFree(p)' \in Nat /\ AgainFree(p)' \in Nat
          /\ (lapses[OwnKey(p)])' \in Nat /\ (lapses[ReprocessKey(p)])' \in Nat
      <4>1. Cardinality(Way(p)') \in Nat
        BY HandlersFinite DEF Way
      <4>2. (OwnKey(p) \in Claims /\ ReprocessKey(p) \in Claims)'
        BY DEF ClaimTypes, OwnKey, ReprocessKey, Claims
      <4> QED BY <4>1, <4>2 DEF ClaimTypes, OwnFree, AgainFree
    <3> QED BY <1>2, <3>1, <3>2, <3>3 DEF Paid
  <2> QED BY <2>1 DEF ThreadInv
<1> QED BY <1>1, <1>2

\* A step that puts nothing on its way, asks no agent and invites nobody.
LEMMA OnlyAdvances ==
    ASSUME ThreadInv, ClaimTypes',
           \A g \in Handlers, q \in Questions: OnItsWay(g, q)' => OnItsWay(g, q),
           UNCHANGED <<asks, claims, lapses, invited, proxied, freeForAll>>,
           published' \subseteq invited'
    PROVE  ThreadInv'
<1>1. ASSUME NEW q \in Questions PROVE Cardinality(Way(q)') <= Cardinality(Way(q))
  <2>1. Way(q)' \in SUBSET Way(q) /\ Way(q) \in SUBSET Handlers
    BY DEF Way
  <2> QED BY <2>1, HandlersFinite
<1>2. ASSUME NEW q \in Questions
      PROVE  /\ OwnFree(q)' = OwnFree(q) /\ AgainFree(q)' = AgainFree(q)
             /\ (lapses[OwnKey(q)])' = lapses[OwnKey(q)]
             /\ (lapses[ReprocessKey(q)])' = lapses[ReprocessKey(q)]
  BY DEF OwnFree, AgainFree, OwnKey, ReprocessKey
<1>3. ASSUME NEW q \in Questions
      PROVE  /\ proxied[q] \in Nat /\ Cardinality(Way(q)) \in Nat /\ Cardinality(Way(q)') \in Nat
             /\ OwnFree(q) \in Nat /\ AgainFree(q) \in Nat
             /\ lapses[OwnKey(q)] \in Nat /\ lapses[ReprocessKey(q)] \in Nat
  <2>1. Cardinality(Way(q)') \in Nat
    BY HandlersFinite DEF Way
  <2> QED BY <2>1, Numbers DEF ThreadInv
<1> QED BY <1>1, <1>2, <1>3, StillPaid

\* A handler's own step keeps its question, or ends.
LEMMA StepAdvances ==
    ASSUME ClaimTypes, NEW h \in Handlers, NEW at \in Stages, Step(h, at),
           at \in {"start", "save", "question", "read", "authorise", "ask"} =>
               turn[h].at \in {"start", "save", "question", "read", "authorise", "ask"}
    PROVE  /\ turn' \in [Handlers -> Turns]
           /\ \A g \in Handlers, q \in Questions: OnItsWay(g, q)' => OnItsWay(g, q)
<1>1. CASE at = "over"
  BY <1>1, QuestionsAssumption DEF ClaimTypes, Step, Quiet, OnItsWay, Turns, Stages, Outcomes
<1>2. CASE at # "over"
  BY <1>2 DEF ClaimTypes, Step, OnItsWay, Turns
<1> QED BY <1>1, <1>2

\* A step of any handler that leaves claims, invitations and questions alone.
LEMMA HandlerAdvances ==
    ASSUME ThreadInv, NEW h \in Handlers,
           \/ Refuse(h) \/ EnsureThread(h) \/ SaveThread(h) \/ PersistQuestion(h)
           \/ ReadThread(h) \/ StoreReply(h) \/ MapAgentSession(h)
    PROVE  ThreadInv'
<1>1. PICK at \in Stages:
        /\ Step(h, at)
        /\ at \in {"start", "save", "question", "read", "authorise", "ask"} =>
               turn[h].at \in {"start", "save", "question", "read", "authorise", "ask"}
  <2>1. CASE Refuse(h) \/ EnsureThread(h) \/ SaveThread(h)
    BY <2>1 DEF Refuse, EnsureThread, SaveThread, At, Stages
  <2>2. CASE PersistQuestion(h) \/ ReadThread(h)
    BY <2>2 DEF PersistQuestion, ReadThread, At, Stages
  <2>3. CASE StoreReply(h)
    <3>1. CASE turn[h].outcome = "complete"
      BY <2>3, <3>1 DEF StoreReply, Stages
    <3>2. CASE turn[h].outcome # "complete"
      BY <2>3, <3>2 DEF StoreReply, Stages
    <3> QED BY <3>1, <3>2
  <2>4. CASE MapAgentSession(h)
    BY <2>4 DEF MapAgentSession, Stages
  <2> QED BY <2>1, <2>2, <2>3, <2>4
<1>2. UNCHANGED <<asks, claims, lapses, invited, published, proxied, freeForAll>>
  BY DEF Refuse, EnsureThread, SaveThread, PersistQuestion, ReadThread, StoreReply,
         MapAgentSession
<1>3. /\ turn' \in [Handlers -> Turns]
      /\ \A g \in Handlers, q \in Questions: OnItsWay(g, q)' => OnItsWay(g, q)
  BY <1>1, StepAdvances DEF ThreadInv
<1>4. ClaimTypes'
  BY <1>2, <1>3 DEF ThreadInv, ClaimTypes
<1>5. published' \subseteq invited'
  BY <1>2 DEF ThreadInv
<1> QED BY <1>2, <1>3, <1>4, <1>5, OnlyAdvances

\* The event, or the question put again: who takes a claim puts the question
\* on its way.  Claims that go unanswered end the promise.
LEMMA ClaimTaken ==
    ASSUME ThreadInv, NEW h \in Handlers, At(h, "idle"), NEW q \in Questions,
           NEW key \in {OwnKey(q), ReprocessKey(q)},
           key = ReprocessKey(q) => q \in invited,
           TryClaim(h, q, key),
           UNCHANGED <<asks, lapses, invited, published, proxied>>
    PROVE  ThreadInv'
<1>1. ClaimTypes'
  BY QuestionsAssumption
  DEF ThreadInv, ClaimTypes, TryClaim, Quiet, Begun, Turns, Stages, Outcomes
<1>2. published' \subseteq invited' /\ freeForAll' = freeForAll /\ claims' = claims \cup {key}
  BY DEF ThreadInv, TryClaim
<1>3. CASE key \in claims
  <2>1. \A g \in Handlers, p \in Questions: OnItsWay(g, p)' => OnItsWay(g, p)
    BY <1>3 DEF ThreadInv, ClaimTypes, TryClaim, Quiet, OnItsWay
  <2>2. claims' = claims
    BY <1>2, <1>3
  <2> QED BY <1>1, <1>2, <2>1, <2>2, OnlyAdvances
<1>4. CASE key \notin claims
  <2>1. ASSUME NEW p \in Questions
        PROVE  /\ OwnFree(p)' <= OwnFree(p) /\ AgainFree(p)' <= AgainFree(p)
               /\ (lapses[OwnKey(p)])' = lapses[OwnKey(p)]
               /\ (lapses[ReprocessKey(p)])' = lapses[ReprocessKey(p)]
    BY <1>2 DEF OwnFree, AgainFree, OwnKey, ReprocessKey
  <2>2. ASSUME NEW p \in Questions, p # q
        PROVE  Way(p)' = Way(p)
    BY <1>4, <2>2 DEF TryClaim, Begun, At, Way, OnItsWay, ThreadInv, ClaimTypes
  <2>3. Way(q)' = Way(q) \cup {h} /\ Way(q) \in SUBSET Handlers /\ h \notin Way(q)
    BY <1>4 DEF TryClaim, Begun, At, Way, OnItsWay, ThreadInv, ClaimTypes
  <2>4. Cardinality(Way(q)') = Cardinality(Way(q)) + 1
    BY <2>3, HandlersFinite
  <2>5. OwnFree(q)' + AgainFree(q)' + 1 <= OwnFree(q) + AgainFree(q)
    <3>1. CASE key = OwnKey(q)
      <4>1. OwnFree(q) = 1 /\ OwnFree(q)' = 0
        BY <1>2, <1>4, <3>1 DEF OwnFree, OwnKey
      <4>2. AgainFree(q)' <= AgainFree(q) /\ AgainFree(q) \in {0, 1} /\ AgainFree(q)' \in {0, 1}
        BY <2>1 DEF AgainFree
      <4> QED BY <4>1, <4>2
    <3>2. CASE key = ReprocessKey(q)
      <4>1. AgainFree(q) = 1 /\ AgainFree(q)' = 0
        BY <1>2, <1>4, <3>2 DEF AgainFree, ReprocessKey
      <4>2. OwnFree(q)' <= OwnFree(q) /\ OwnFree(q) \in {0, 1} /\ OwnFree(q)' \in {0, 1}
        BY <2>1 DEF OwnFree
      <4> QED BY <4>1, <4>2
    <3> QED BY <3>1, <3>2
  <2>6. ASSUME NEW p \in Questions
        PROVE  proxied'[p] + Cardinality(Way(p)') + OwnFree(p)' + AgainFree(p)'
                   <= proxied[p] + Cardinality(Way(p)) + OwnFree(p) + AgainFree(p)
    <3>1. /\ proxied[p] \in Nat /\ Cardinality(Way(p)) \in Nat
          /\ OwnFree(p) \in Nat /\ AgainFree(p) \in Nat
      BY Numbers DEF ThreadInv
    <3>2. OwnFree(p)' \in Nat /\ AgainFree(p)' \in Nat
      BY DEF OwnFree, AgainFree
    <3>3. proxied'[p] = proxied[p]
      OBVIOUS
    <3>4. CASE p = q
      BY <2>4, <2>5, <3>1, <3>2, <3>3, <3>4
    <3>5. CASE p # q
      BY <2>1, <2>2, <3>1, <3>2, <3>3, <3>5
    <3> QED BY <3>4, <3>5
  <2>7. ASSUME NEW p \in Questions
        PROVE  /\ lapses[OwnKey(p)] <= (lapses[OwnKey(p)])'
               /\ lapses[ReprocessKey(p)] <= (lapses[ReprocessKey(p)])'
    BY <2>1, Numbers DEF ThreadInv
  <2> QED BY <1>1, <1>2, <2>6, <2>7, StillPaid
<1> QED BY <1>3, <1>4

LEMMA Unanswered ==
    ASSUME ThreadInv, NEW h \in Handlers, NEW q \in Questions, ClaimUnanswered(h, q),
           UNCHANGED <<asks, lapses, invited, published, proxied>>
    PROVE  ThreadInv'
BY DEF ThreadInv, ClaimTypes, ClaimUnanswered, Begun, Turns, Stages, Outcomes

\* A claim that lapses pays for the asking it lets through.
LEMMA LapsePays ==
    ASSUME ThreadInv, NEW key \in Claims, ClaimLapses(key)
    PROVE  ThreadInv'
<1>1. /\ UNCHANGED <<asks, invited, published, turn, proxied, freeForAll>>
      /\ key \in claims /\ claims' = claims \ {key}
      /\ lapses' = [lapses EXCEPT ![key] = @ + 1]
  BY DEF ClaimLapses
<1>2. ClaimTypes'
  BY <1>1 DEF ThreadInv, ClaimTypes
<1>3. CASE freeForAll
  BY <1>1, <1>2, <1>3 DEF ThreadInv
<1>4. CASE ~freeForAll
  <2>1. ASSUME NEW q \in Questions PROVE Paid(q)'
    <3>1. Paid(q)
      BY <1>4 DEF ThreadInv
    <3>2. /\ proxied[q] \in Nat /\ Cardinality(Way(q)) \in Nat
          /\ OwnFree(q) \in {0, 1} /\ AgainFree(q) \in {0, 1}
          /\ lapses[OwnKey(q)] \in Nat /\ lapses[ReprocessKey(q)] \in Nat
      BY Numbers DEF ThreadInv
    <3>3. OwnKey(q) \in Claims /\ ReprocessKey(q) \in Claims /\ OwnKey(q) # ReprocessKey(q)
      BY KeysTyped DEF ThreadInv, ClaimTypes
    <3>4. OwnKey(q)' = OwnKey(q) /\ ReprocessKey(q)' = ReprocessKey(q)
      BY <1>1 DEF OwnKey, ReprocessKey
    <3>5. Way(q)' = Way(q) /\ proxied'[q] = proxied[q]
      BY <1>1 DEF Way, OnItsWay
    <3>6. lapses'[key] = lapses[key] + 1 /\ \A k \in Claims \ {key}: lapses'[k] = lapses[k]
      BY <1>1 DEF ThreadInv, ClaimTypes
    <3>7. CASE key = OwnKey(q)
      <4>1. OwnFree(q)' <= OwnFree(q) + 1 /\ OwnFree(q)' \in {0, 1}
        BY <3>2 DEF OwnFree
      <4>2. AgainFree(q)' = AgainFree(q)
        BY <1>1, <3>3, <3>4, <3>7 DEF AgainFree
      <4> QED BY <3>1, <3>2, <3>3, <3>4, <3>5, <3>6, <3>7, <4>1, <4>2 DEF Paid
    <3>8. CASE key = ReprocessKey(q)
      <4>1. AgainFree(q)' <= AgainFree(q) + 1 /\ AgainFree(q)' \in {0, 1}
        BY <3>2 DEF AgainFree
      <4>2. OwnFree(q)' = OwnFree(q)
        BY <1>1, <3>3, <3>4, <3>8 DEF OwnFree
      <4> QED BY <3>1, <3>2, <3>3, <3>4, <3>5, <3>6, <3>8, <4>1, <4>2 DEF Paid
    <3>9. CASE key # OwnKey(q) /\ key # ReprocessKey(q)
      <4>1. OwnFree(q)' = OwnFree(q) /\ AgainFree(q)' = AgainFree(q)
        BY <1>1, <3>4, <3>9 DEF OwnFree, AgainFree
      <4> QED BY <3>1, <3>3, <3>4, <3>5, <3>6, <3>9, <4>1 DEF Paid
    <3> QED BY <3>7, <3>8, <3>9
  <2> QED BY <1>1, <1>2, <2>1 DEF ThreadInv
<1> QED BY <1>3, <1>4

\* Who is not linked is invited: his question is off its way, and may be put
\* again once.
LEMMA InvitationKept ==
    ASSUME ThreadInv, NEW h \in Handlers, Authorise(h)
    PROVE  ThreadInv'
<1>1. PICK asked \in Questions: turn[h].at = "authorise" /\ turn[h].of = asked
  BY DEF Authorise, At, ThreadInv, ClaimTypes, Turns
<1>2. CASE Step(h, "ask") /\ UNCHANGED invited
  <2>1. /\ turn' \in [Handlers -> Turns]
        /\ \A g \in Handlers, q \in Questions: OnItsWay(g, q)' => OnItsWay(g, q)
    BY <1>1, <1>2, StepAdvances DEF ThreadInv, Stages
  <2>2. UNCHANGED <<asks, claims, lapses, invited, published, proxied, freeForAll>>
    BY <1>2 DEF Authorise
  <2>3. ClaimTypes' /\ published' \subseteq invited'
    BY <2>1, <2>2 DEF ThreadInv, ClaimTypes
  <2> QED BY <2>1, <2>2, <2>3, OnlyAdvances
<1>3. CASE Step(h, "over") /\ invited' = invited \cup {Of(h)}
  <2>1. turn' \in [Handlers -> Turns]
    BY <1>1, <1>3, StepAdvances DEF ThreadInv, Stages
  <2>2. UNCHANGED <<asks, claims, lapses, published, proxied, freeForAll>>
    BY DEF Authorise
  <2>3. invited' = invited \cup {asked}
    BY <1>1, <1>3 DEF Of
  <2>4. ClaimTypes' /\ published' \subseteq invited'
    BY <2>1, <2>2, <2>3 DEF ThreadInv, ClaimTypes
  <2>5. ASSUME NEW q \in Questions
        PROVE  Way(q)' = Way(q) \ {h} /\ Way(q) \in SUBSET Handlers
    BY <1>3, QuestionsAssumption DEF Step, Quiet, Way, OnItsWay, ThreadInv, ClaimTypes
  <2>6. h \in Way(asked)
    BY <1>1 DEF Way, OnItsWay
  <2>7. Cardinality(Way(asked)') = Cardinality(Way(asked)) - 1
    BY <2>5, <2>6, HandlersFinite
  <2>8. AgainFree(asked)' <= AgainFree(asked) + 1
    BY DEF AgainFree
  <2>9. ASSUME NEW q \in Questions
        PROVE  proxied'[q] + Cardinality(Way(q)') + OwnFree(q)' + AgainFree(q)'
                   <= proxied[q] + Cardinality(Way(q)) + OwnFree(q) + AgainFree(q)
    <3>1. /\ proxied[q] \in Nat /\ Cardinality(Way(q)) \in Nat
          /\ OwnFree(q) \in Nat /\ AgainFree(q) \in Nat
      BY Numbers DEF ThreadInv
    <3>2. Cardinality(Way(q)') \in Nat /\ Cardinality(Way(q)') <= Cardinality(Way(q))
      <4>1. Way(q)' \in SUBSET Way(q) /\ Way(q)' \in SUBSET Handlers /\ Way(q) \in SUBSET Handlers
        BY <2>5
      <4> QED BY <4>1, HandlersFinite
    <3>3. proxied'[q] = proxied[q] /\ OwnFree(q)' = OwnFree(q) /\ AgainFree(q)' \in Nat
      BY <2>2 DEF OwnFree, OwnKey, AgainFree
    <3>4. CASE q = asked
      BY <2>7, <2>8, <3>1, <3>2, <3>3, <3>4
    <3>5. CASE q # asked
      <4>1. AgainFree(q)' = AgainFree(q)
        BY <2>2, <2>3, <3>5 DEF AgainFree, ReprocessKey
      <4> QED BY <3>1, <3>2, <3>3, <4>1
    <3> QED BY <3>4, <3>5
  <2>10. ASSUME NEW q \in Questions
         PROVE  /\ lapses[OwnKey(q)] <= (lapses[OwnKey(q)])'
                /\ lapses[ReprocessKey(q)] <= (lapses[ReprocessKey(q)])'
    <3>1. /\ (lapses[OwnKey(q)])' = lapses[OwnKey(q)]
          /\ (lapses[ReprocessKey(q)])' = lapses[ReprocessKey(q)]
      BY <2>2 DEF OwnKey, ReprocessKey
    <3> QED BY <3>1, Numbers DEF ThreadInv
  <2> QED BY <2>2, <2>4, <2>9, <2>10, StillPaid
<1> QED BY <1>2, <1>3 DEF Authorise

\* The agent is asked: what was on its way is done.
LEMMA AskedByOne ==
    ASSUME ThreadInv, NEW h \in Handlers, AskAgent(h)
    PROVE  ThreadInv'
<1>1. PICK asked \in Questions: turn[h].at = "ask" /\ turn[h].of = asked
  BY DEF AskAgent, At, ThreadInv, ClaimTypes, Turns
<1>2. PICK o \in {"complete", "errored", "broken"}:
        turn' = [turn EXCEPT ![h].at = "store", ![h].outcome = o]
  BY DEF AskAgent
<1>3. proxied' = [proxied EXCEPT ![asked] = @ + 1]
  BY <1>1 DEF AskAgent, Of
<1>4. UNCHANGED <<asks, claims, lapses, invited, published, freeForAll>>
  BY DEF AskAgent
<1>5. ClaimTypes' /\ published' \subseteq invited'
  <2>1. turn' \in [Handlers -> Turns]
    BY <1>2 DEF ThreadInv, ClaimTypes, Turns, Stages, Outcomes
  <2>2. proxied' \in [Questions -> Nat]
    BY <1>1, <1>3 DEF ThreadInv, ClaimTypes
  <2> QED BY <1>4, <2>1, <2>2 DEF ThreadInv, ClaimTypes
<1>6. ASSUME NEW q \in Questions
      PROVE  Way(q)' = Way(q) \ {h} /\ Way(q) \in SUBSET Handlers
  BY <1>2 DEF Way, OnItsWay, ThreadInv, ClaimTypes, Turns
<1>7. h \in Way(asked)
  BY <1>1 DEF Way, OnItsWay
<1>8. Cardinality(Way(asked)') = Cardinality(Way(asked)) - 1
  BY <1>6, <1>7, HandlersFinite
<1>9. ASSUME NEW q \in Questions
      PROVE  /\ OwnFree(q)' = OwnFree(q) /\ AgainFree(q)' = AgainFree(q)
             /\ (lapses[OwnKey(q)])' = lapses[OwnKey(q)]
             /\ (lapses[ReprocessKey(q)])' = lapses[ReprocessKey(q)]
  BY <1>4 DEF OwnFree, AgainFree, OwnKey, ReprocessKey
<1>10. ASSUME NEW q \in Questions
       PROVE  proxied'[q] + Cardinality(Way(q)') + OwnFree(q)' + AgainFree(q)'
                  <= proxied[q] + Cardinality(Way(q)) + OwnFree(q) + AgainFree(q)
  <2>1. /\ proxied[q] \in Nat /\ Cardinality(Way(q)) \in Nat
        /\ OwnFree(q) \in Nat /\ AgainFree(q) \in Nat
    BY Numbers DEF ThreadInv
  <2>2. Cardinality(Way(q)') \in Nat /\ Cardinality(Way(q)') <= Cardinality(Way(q))
    <3>1. Way(q)' \in SUBSET Way(q) /\ Way(q)' \in SUBSET Handlers /\ Way(q) \in SUBSET Handlers
      BY <1>6
    <3> QED BY <3>1, HandlersFinite
  <2>3. CASE q = asked
    <3>1. proxied'[q] = proxied[q] + 1
      BY <1>1, <1>3, <2>3 DEF ThreadInv, ClaimTypes
    <3> QED BY <1>8, <1>9, <2>1, <2>2, <2>3, <3>1
  <2>4. CASE q # asked
    <3>1. proxied'[q] = proxied[q]
      BY <1>1, <1>3, <2>4 DEF ThreadInv, ClaimTypes
    <3> QED BY <1>9, <2>1, <2>2, <3>1
  <2> QED BY <2>3, <2>4
<1>11. ASSUME NEW q \in Questions
       PROVE  /\ lapses[OwnKey(q)] <= (lapses[OwnKey(q)])'
              /\ lapses[ReprocessKey(q)] <= (lapses[ReprocessKey(q)])'
  BY <1>9, Numbers DEF ThreadInv
<1> QED BY <1>4, <1>5, <1>10, <1>11, StillPaid

-----------------------------------------------------------------------------
\* What the argument rests on, under all actions.
THEOREM ThreadInvariant == SlackThreadSpec => []ThreadInv
<1>1. ThreadInv /\ [SlackNext]_slackVars => ThreadInv'
  <2> SUFFICES ASSUME ThreadInv, [SlackNext]_slackVars PROVE ThreadInv'
    OBVIOUS
  <2>1. CASE Unlink \/ \E q \in Questions: LinkAccount(q)
    <3>1. UNCHANGED <<asks, claims, lapses, invited, proxied, freeForAll, turn>>
      BY <2>1 DEF Unlink, LinkAccount
    <3>2. published' \subseteq invited'
      BY <2>1 DEF Unlink, LinkAccount, ThreadInv
    <3>3. ClaimTypes'
      BY <3>1 DEF ThreadInv, ClaimTypes
    <3>4. \A g \in Handlers, q \in Questions: OnItsWay(g, q)' => OnItsWay(g, q)
      BY <3>1 DEF OnItsWay
    <3> QED BY <3>1, <3>2, <3>3, <3>4, OnlyAdvances
  <2>2. ASSUME NEW h \in Handlers, NEW q \in Questions, Receive(h, q) PROVE ThreadInv'
    <3>1. OwnKey(q) # ReprocessKey(q)
      BY KeysTyped DEF ThreadInv, ClaimTypes
    <3> QED BY <2>2, <3>1, ClaimTaken, Unanswered DEF Receive, Starts
  <2>3. ASSUME NEW h \in Handlers, NEW q \in Questions, Reprocess(h, q) PROVE ThreadInv'
    <3>1. q \in invited
      BY <2>3 DEF Reprocess, ThreadInv
    <3> QED BY <2>3, <3>1, ClaimTaken, Unanswered DEF Reprocess, Starts
  <2>4. ASSUME NEW h \in Handlers, HandleMessage(h) PROVE ThreadInv'
    BY <2>4, HandlerAdvances, InvitationKept, AskedByOne DEF HandleMessage
  <2>5. ASSUME NEW key \in Claims, ClaimLapses(key) PROVE ThreadInv'
    BY <2>5, LapsePays
  <2>6. CASE UNCHANGED slackVars
    <3>1. UNCHANGED <<asks, claims, lapses, invited, published, proxied, freeForAll, turn>>
      BY <2>6 DEF slackVars
    <3>2. ClaimTypes' /\ published' \subseteq invited'
      BY <3>1 DEF ThreadInv, ClaimTypes
    <3>3. \A g \in Handlers, q \in Questions: OnItsWay(g, q)' => OnItsWay(g, q)
      BY <3>1 DEF OnItsWay
    <3> QED BY <3>1, <3>2, <3>3, OnlyAdvances
  <2> QED BY <2>1, <2>2, <2>3, <2>4, <2>5, <2>6 DEF SlackNext
<1> QED BY <1>1, ThreadBegins, PTL DEF SlackThreadSpec

\* However many pods are sent a question, however often the user links or is
\* unlinked, and whatever fails, an agent is asked it once, and once more for
\* each of its claims that lapsed, as long as the claims are answered.
THEOREM AskedOnlyOnce == SlackThreadSpec => []AskedOnce
<1>1. ThreadInv => AskedOnce
  <2> SUFFICES ASSUME ThreadInv, ~freeForAll, NEW q \in Questions
               PROVE  proxied[q] <= 1 + lapses[OwnKey(q)] + lapses[ReprocessKey(q)]
    BY DEF AskedOnce
  <2>1. Paid(q)
    BY DEF ThreadInv
  <2> QED BY <2>1, Numbers DEF ThreadInv, Paid
<1> QED BY <1>1, ThreadInvariant, PTL

-----------------------------------------------------------------------------
(* The thread's document.                                                  *)

\* The document, and the copy of it a handler is about to save.
DocumentTypes == thread \in Documents \cup {NoThread} /\ copy \in [Handlers -> Documents]

LEMMA DocumentsTyped ==
    ClaimTypes /\ DocumentTypes /\ [SlackNext]_slackVars => DocumentTypes'
<1> SUFFICES ASSUME ClaimTypes, DocumentTypes, [SlackNext]_slackVars PROVE DocumentTypes'
  OBVIOUS
<1>1. EmptyDocument \in Documents
  BY DEF EmptyDocument, Documents
<1>2. ASSUME NEW h \in Handlers, EnsureThread(h) PROVE DocumentTypes'
  BY <1>1, <1>2 DEF EnsureThread, DocumentTypes
<1>3. ASSUME NEW h \in Handlers, SaveThread(h) PROVE DocumentTypes'
  <2>1. copy[h] \in Documents
    BY DEF DocumentTypes
  <2>2. turn[h] \in Turns /\ BotOf(h) \in Bots
    BY DEF ClaimTypes, BotOf, Of, Turns
  <2>3. [copy[h] EXCEPT !.slack = TRUE, !.agents = @ \cup {BotOf(h)}] \in Documents
    BY <2>1, <2>2 DEF Documents
  <2> QED BY <1>1, <1>3, <2>3 DEF SaveThread, DocumentTypes
<1>4. ASSUME NEW m \in Messages, Add(m) PROVE thread' \in Documents \cup {NoThread}
  BY <1>4 DEF Add, DocumentTypes, Documents
<1>5. ASSUME NEW h \in Handlers, PersistQuestion(h) \/ StoreReply(h) PROVE DocumentTypes'
  <2>1. Ask(h) \in Messages /\ [role |-> "assistant", of |-> Of(h)] \in Messages
    BY DEF ClaimTypes, Ask, Of, Turns, Messages
  <2>2. thread' \in Documents \cup {NoThread}
    BY <1>4, <1>5, <2>1 DEF PersistQuestion, StoreReply, DocumentTypes
  <2>3. UNCHANGED copy
    BY <1>5 DEF PersistQuestion, StoreReply
  <2> QED BY <2>2, <2>3 DEF DocumentTypes
<1>6. CASE UNCHANGED <<thread, copy>>
  BY <1>6 DEF DocumentTypes
<1>7. \/ \E h \in Handlers:
           EnsureThread(h) \/ SaveThread(h) \/ PersistQuestion(h) \/ StoreReply(h)
      \/ UNCHANGED <<thread, copy>>
  BY DEF SlackNext, HandleMessage, Unlink, ClaimLapses, LinkAccount, Receive, Reprocess, Refuse, ReadThread,
         Authorise, AskAgent, MapAgentSession, slackVars
<1> QED BY <1>2, <1>3, <1>5, <1>6, <1>7

\* Who is at its save was there before, or has just read the document.
LEMMA SavesAlone ==
    ASSUME ClaimTypes, DocumentTypes, [SlackNext]_slackVars,
           NEW h \in Handlers, At(h, "save")'
    PROVE  \/ At(h, "save") /\ turn'[h] = turn[h] /\ copy'[h] = copy[h]
           \/ EnsureThread(h)
<1>1. CASE UNCHANGED <<turn, copy>>
  BY <1>1 DEF At
<1>2. ASSUME NEW g \in Handlers, NEW q \in Questions, Receive(g, q) \/ Reprocess(g, q)
      PROVE  At(h, "save") /\ turn'[h] = turn[h] /\ copy'[h] = copy[h]
  BY <1>2 DEF Receive, Reprocess, TryClaim, ClaimUnanswered, At, Quiet, Begun, ClaimTypes
<1>3. ASSUME NEW g \in Handlers, EnsureThread(g)
      PROVE  g = h \/ (At(h, "save") /\ turn'[h] = turn[h] /\ copy'[h] = copy[h])
  BY <1>3 DEF EnsureThread, Step, At, ClaimTypes, DocumentTypes
<1>4. ASSUME NEW g \in Handlers, HandleMessage(g), ~EnsureThread(g)
      PROVE  At(h, "save") /\ turn'[h] = turn[h] /\ copy'[h] = copy[h]
  <2>1. At(g, "save")' => FALSE
    BY <1>4 DEF HandleMessage, Refuse, SaveThread, PersistQuestion, ReadThread, Authorise,
           AskAgent, StoreReply, MapAgentSession, Step, At, Quiet, ClaimTypes, Turns
  <2>2. g # h => turn'[h] = turn[h] /\ copy'[h] = copy[h]
    BY <1>4 DEF HandleMessage, Refuse, SaveThread, PersistQuestion, ReadThread, Authorise,
           AskAgent, StoreReply, MapAgentSession, Step, ClaimTypes, DocumentTypes
  <2> QED BY <2>1, <2>2 DEF At
<1>5. \/ Unlink \/ \E q \in Questions: LinkAccount(q)
      \/ \E key \in Claims: ClaimLapses(key)
      => UNCHANGED <<turn, copy>>
  BY DEF Unlink, LinkAccount, ClaimLapses
<1> QED BY <1>1, <1>2, <1>3, <1>4, <1>5 DEF SlackNext, slackVars

\* A settled document only grows by messages.
LEMMA SettledGrows ==
    ASSUME ClaimTypes, DocumentTypes, [SlackNext]_slackVars, Settled
    PROVE  /\ thread' # NoThread /\ thread'.slack = thread.slack
           /\ thread'.agents = thread.agents
           /\ thread.messages \subseteq thread'.messages
<1>1. thread \in Documents /\ thread # NoThread
  BY DEF DocumentTypes, Settled
<1>2. CASE UNCHANGED thread
  BY <1>1, <1>2
<1>3. ASSUME NEW m \in Messages, Add(m)
      PROVE  /\ thread' # NoThread /\ thread'.slack = thread.slack
             /\ thread'.agents = thread.agents
             /\ thread.messages \subseteq thread'.messages
  <2>1. thread' = [thread EXCEPT !.messages = @ \cup {m}]
    BY <1>1, <1>3 DEF Add
  <2>2. thread' \in Documents
    BY <1>1, <2>1 DEF Documents
  <2>3. /\ thread'.slack = thread.slack /\ thread'.agents = thread.agents
        /\ thread'.messages = thread.messages \cup {m}
    BY <1>1, <2>1 DEF Documents
  <2> QED BY <2>2, <2>3, NoThreadAssumption
<1>4. ASSUME NEW h \in Handlers, EnsureThread(h) \/ SaveThread(h) PROVE UNCHANGED thread
  BY <1>1, <1>4 DEF EnsureThread, SaveThread, Settled
<1>5. ASSUME NEW h \in Handlers, PersistQuestion(h) \/ StoreReply(h), ~UNCHANGED thread
      PROVE  \E m \in Messages: Add(m)
  <2>1. Ask(h) \in Messages /\ [role |-> "assistant", of |-> Of(h)] \in Messages
    BY DEF ClaimTypes, Ask, Of, Turns, Messages
  <2> QED BY <1>5, <2>1 DEF PersistQuestion, StoreReply
<1>6. \/ \E h \in Handlers:
           EnsureThread(h) \/ SaveThread(h) \/ PersistQuestion(h) \/ StoreReply(h)
      \/ UNCHANGED thread
  BY DEF SlackNext, HandleMessage, Unlink, ClaimLapses, LinkAccount, Receive, Reprocess, Refuse, ReadThread,
         Authorise, AskAgent, MapAgentSession, slackVars
<1> QED BY <1>2, <1>3, <1>4, <1>5, <1>6

\* A settled document stays settled, and keeps its messages.
LEMMA SettledStep ==
    ClaimTypes /\ DocumentTypes /\ [SlackNext]_slackVars /\ Settled =>
        Settled' /\ thread.messages \subseteq thread'.messages
<1> SUFFICES ASSUME ClaimTypes, DocumentTypes, [SlackNext]_slackVars, Settled
             PROVE  Settled' /\ thread.messages \subseteq thread'.messages
  OBVIOUS
<1>1. UNCHANGED asks
  BY DEF SlackNext, HandleMessage, Unlink, ClaimLapses, LinkAccount, Receive, Reprocess, Refuse,
         EnsureThread, SaveThread, PersistQuestion, ReadThread, Authorise, AskAgent,
         StoreReply, MapAgentSession, slackVars
<1>2. ASSUME NEW h \in Handlers, At(h, "save")' PROVE ~NeedsSave(h)'
  <2>1. CASE At(h, "save") /\ turn'[h] = turn[h] /\ copy'[h] = copy[h]
    BY <1>1, <2>1 DEF Settled, NeedsSave, BotOf, Of
  <2>2. CASE EnsureThread(h)
    <3>1. copy'[h] = thread
      BY <2>2 DEF EnsureThread, Settled, DocumentTypes
    <3>2. asks[turn'[h].of] \in thread.agents
      <4>1. turn'[h].of = turn[h].of
        BY <2>2 DEF EnsureThread, Step, ClaimTypes, Turns
      <4> QED BY <4>1 DEF Settled, ClaimTypes, Turns
    <3> QED BY <1>1, <3>1, <3>2 DEF Settled, NeedsSave, BotOf, Of
  <2> QED BY <1>2, <2>1, <2>2, SavesAlone
<1>3. /\ thread' # NoThread /\ thread'.slack = thread.slack /\ thread'.agents = thread.agents
      /\ thread.messages \subseteq thread'.messages
  BY SettledGrows
<1> QED BY <1>1, <1>2, <1>3 DEF Settled

\* Once the thread's document has all the agents, and nobody is about to save
\* an older copy, no handler takes away what another has stored, for any
\* number of handlers and questions.
THEOREM ThreadSettles == SlackThreadSpec => SettledKeeps
<1> DEFINE Kept == Settled => Settled' /\ thread.messages \subseteq thread'.messages
<1>1. SlackInit => DocumentTypes
  BY DEF SlackInit, DocumentTypes, EmptyDocument, Documents
<1>2. ClaimTypes /\ DocumentTypes /\ [SlackNext]_slackVars => DocumentTypes'
  BY DocumentsTyped
<1>3. ThreadInv => ClaimTypes
  BY DEF ThreadInv
<1>4. ClaimTypes /\ DocumentTypes /\ [SlackNext]_slackVars => [Kept]_slackVars
  BY SettledStep
<1> QED BY <1>1, <1>2, <1>3, <1>4, ThreadInvariant, PTL DEF SlackThreadSpec, SettledKeeps

-----------------------------------------------------------------------------
(* The link of a user.                                                     *)

\* A token that is about to be stored is accepted, and nobody else has it.
LoginFresh ==
    \A w \in Workers: worker[w].at \in {"save", "insert"} =>
        /\ worker[w].holds \in offline
        /\ worker[w].holds \notin LinkColumn("login")
        /\ \A v \in Workers \ {w}: worker[v].at \in OnLogin => worker[v].holds # worker[w].holds
GitHubFresh ==
    \A w \in Workers: worker[w].at = "set" =>
        /\ worker[w].holds \in gitHub
        /\ worker[w].holds \notin LinkColumn("github")
        /\ \A v \in Workers \ {w}: worker[v].at \in OnGitHub => worker[v].holds # worker[w].holds

LoginSide ==
    /\ LoginFresh
    /\ link # NoLink => link.login \in offline \/ Writes({"save", "insert", "delete"})
GitHubSide ==
    /\ GitHubFresh
    /\ link # NoLink => link.github \in gitHub \cup {0} \/ Writes({"set", "clear"})

\* There is a token to store.
Stocked == \A w \in Workers: worker[w].at \in {"save", "insert"} => worker[w].holds \in LinkTokens

LinkInv == LinksTypeOK /\ Stocked /\ (~linkMishap => LoginSide /\ GitHubSide)

\* What a refresh or a grant brings is new, and what is kept stays accepted but
\* for the token that is replaced.
LEMMA GrantedIsNew ==
    ASSUME NEW accepted, NEW kept, NEW most \in Nat, NEW g \in Granted(accepted, kept, most)
    PROVE  /\ g.token \in 1 .. most /\ g.token \notin kept
           /\ g.token \in g.accepted /\ g.accepted \subseteq accepted \cup {g.token}
           /\ \A t \in accepted \cap kept: t \in g.accepted
  BY DEF Granted, Unused, With

LEMMA RefreshedSame ==
    ASSUME NEW accepted, NEW token, NEW kept, NEW most \in Nat,
           NEW r \in Refreshed(accepted, token, kept, most, FALSE)
    PROVE  token \in accepted /\ r.token = token /\ r.accepted = accepted
<1>1. token \in accepted
  BY DEF Refreshed
<1> QED BY <1>1 DEF Refreshed

LEMMA RefreshedIsNew ==
    ASSUME NEW accepted, NEW token, NEW kept, NEW most \in Nat,
           NEW r \in Refreshed(accepted, token, kept, most, TRUE)
    PROVE  /\ r.token \in 1 .. most /\ r.token \notin kept
           /\ r.token \in r.accepted /\ r.accepted \subseteq accepted \cup {r.token}
           /\ \A t \in accepted \cap kept: t # token => t \in r.accepted
<1>1. token \in accepted
  BY DEF Refreshed
<1> QED BY <1>1 DEF Refreshed, Unused, With

\* Both are tokens the provider may give.
LEMMA GrantedTyped ==
    ASSUME NEW most \in Nat, NEW accepted, accepted \subseteq 1 .. most, NEW kept,
           NEW g \in Granted(accepted, kept, most)
    PROVE  g.token \in 1 .. most /\ g.accepted \subseteq 1 .. most
<1>1. g.token \in 1 .. most
  BY GrantedIsNew
<1>2. g.accepted \subseteq accepted \cup {g.token}
  BY GrantedIsNew
<1> QED BY <1>1, <1>2

LEMMA RefreshedTyped ==
    ASSUME NEW most \in Nat, NEW accepted, accepted \subseteq 1 .. most, NEW kept,
           NEW token, NEW rotates \in BOOLEAN,
           NEW r \in Refreshed(accepted, token, kept, most, rotates)
    PROVE  r.token \in 1 .. most /\ r.accepted \subseteq 1 .. most
<1>1. CASE rotates = TRUE
  <2>1. r \in Refreshed(accepted, token, kept, most, TRUE)
    BY <1>1
  <2>2. r.token \in 1 .. most /\ r.accepted \subseteq accepted \cup {r.token}
    BY <2>1, RefreshedIsNew
  <2> QED BY <2>2
<1>2. CASE rotates = FALSE
  <2>1. r \in Refreshed(accepted, token, kept, most, FALSE)
    BY <1>2
  <2>2. token \in accepted /\ r.token = token /\ r.accepted = accepted
    BY <2>1, RefreshedSame
  <2> QED BY <2>2
<1> QED BY <1>1, <1>2

LEMMA LinksTypedStep == LinksTypeOK /\ Stocked /\ [LinksNext]_linkVars => LinksTypeOK' /\ Stocked'
<1> SUFFICES ASSUME LinksTypeOK, Stocked, [LinksNext]_linkVars PROVE LinksTypeOK' /\ Stocked'
  OBVIOUS
<1> USE LinkBoundsAssumption
<1> DEFINE Errands == [at: LinkStages, holds: {0} \cup LinkTokens]
<1>1. ASSUME Disrupted \/ Undisturbed
      PROVE  linkMishap' \in BOOLEAN /\ linkTrouble' \in 0 .. MaxLinkTrouble
  <2>1. linkMishap' \in BOOLEAN
    BY <1>1, Zenon DEF Disrupted, Undisturbed, LinksTypeOK
  <2>2. linkTrouble' \in 0 .. MaxLinkTrouble
    BY <1>1 DEF Disrupted, Undisturbed, LinksTypeOK
  <2> QED BY <2>1, <2>2
<1>2. ASSUME NEW w \in Workers, NEW at \in LinkStages, NEW holds \in {0} \cup LinkTokens,
             Proceeds(w, at, holds), at \in {"save", "insert"} => holds # 0
      PROVE  worker' \in [Workers -> Errands] /\ Stocked'
  BY <1>2 DEF Proceeds, LinksTypeOK, Stocked
<1>3. ASSUME NEW w \in Workers, Stops(w) PROVE worker' \in [Workers -> Errands] /\ Stocked'
  BY <1>3 DEF Stops, LinksTypeOK, Resting, LinkStages, Stocked
<1>4. \A w \in Workers: Holding(w) \in {0} \cup LinkTokens
  BY DEF LinksTypeOK, Holding
<1>5. ASSUME NEW t \in LinkTokens, UpsertLogin(t) PROVE link' \in Links \cup {NoLink}
  BY <1>5 DEF UpsertLogin, LinksTypeOK, Links
<1>6. ASSUME NEW t \in {0} \cup LinkTokens, SetGitHubColumns(t) PROVE link' \in Links \cup {NoLink}
  BY <1>6 DEF SetGitHubColumns, LinksTypeOK, Links
<1>7. link # NoLink => link.login \in LinkTokens /\ link.github \in {0} \cup LinkTokens
  BY DEF LinksTypeOK, Links
<1>8. CASE UNCHANGED linkVars
  BY <1>8 DEF LinksTypeOK, Stocked, linkVars
<1>9. CASE WithdrawLink
  BY <1>1, <1>9 DEF WithdrawLink, LinksTypeOK, Stocked
<1>10. ASSUME NEW w \in Workers, GetLink(w) PROVE LinksTypeOK' /\ Stocked'
  BY <1>2, <1>7, <1>10 DEF GetLink, LinksTypeOK, LinkStages
<1>11. ASSUME NEW w \in Workers, RefreshLogin(w) PROVE LinksTypeOK' /\ Stocked'
  <2>1. CASE /\ \E replaced \in BOOLEAN:
                  \E r \in Refreshed(offline, Holding(w), OfflineKept, MaxLinkTokens, replaced):
                    /\ offline' = r.accepted
                    /\ IF r.token # Holding(w) THEN Proceeds(w, "save", r.token) ELSE AfterLogin(w)
             /\ Undisturbed
    <3>1. PICK replaced \in BOOLEAN:
               \E r \in Refreshed(offline, Holding(w), OfflineKept, MaxLinkTokens, replaced):
                    /\ offline' = r.accepted
                    /\ IF r.token # Holding(w) THEN Proceeds(w, "save", r.token) ELSE AfterLogin(w)
      BY <2>1
    <3>2. PICK r \in Refreshed(offline, Holding(w), OfflineKept, MaxLinkTokens, replaced):
                    /\ offline' = r.accepted
                    /\ IF r.token # Holding(w) THEN Proceeds(w, "save", r.token) ELSE AfterLogin(w)
      BY <3>1
    <3>3. r.token \in LinkTokens /\ r.accepted \subseteq LinkTokens
      BY GrantedTyped, RefreshedTyped DEF LinkTokens, LinksTypeOK
    <3>4. worker' \in [Workers -> Errands] /\ Stocked'
      BY <1>2, <3>2, <3>3 DEF AfterLogin, LinkStages, LinkTokens
    <3> QED BY <1>1, <1>11, <2>1, <3>2, <3>3, <3>4 DEF RefreshLogin, LinksTypeOK
  <2>2. CASE Proceeds(w, "delete", 0) /\ UNCHANGED offline /\ (Disrupted \/ Undisturbed)
    BY <1>1, <1>2, <1>11, <2>2 DEF RefreshLogin, LinksTypeOK, LinkStages
  <2> QED BY <1>11, <2>1, <2>2 DEF RefreshLogin
<1>12. ASSUME NEW w \in Workers, SaveRotated(w) \/ StoreLink(w) PROVE LinksTypeOK' /\ Stocked'
  <2>1. Holding(w) \in LinkTokens
    BY <1>12 DEF Stocked, SaveRotated, StoreLink, Working, Holding
  <2>2. worker' \in [Workers -> Errands] /\ Stocked'
    BY <1>2, <1>3, <1>12 DEF SaveRotated, StoreLink, AfterLogin, LinkStages
  <2>3. link' \in Links \cup {NoLink}
    BY <1>5, <1>12, <2>1 DEF SaveRotated, StoreLink, LinksTypeOK
  <2> QED BY <1>1, <1>12, <2>2, <2>3 DEF SaveRotated, StoreLink, LinksTypeOK
<1>13. ASSUME NEW w \in Workers, DeleteLink(w) PROVE LinksTypeOK' /\ Stocked'
  BY <1>1, <1>3, <1>13 DEF DeleteLink, LinksTypeOK
<1>14. ASSUME NEW w \in Workers, GetGitHubToken(w) PROVE LinksTypeOK' /\ Stocked'
  BY <1>2, <1>3, <1>7, <1>14 DEF GetGitHubToken, LinksTypeOK, LinkStages
<1>15. ASSUME NEW w \in Workers, CheckGitHubToken(w) PROVE LinksTypeOK' /\ Stocked'
  <2>1. CASE \E r \in Refreshed(gitHub, Holding(w), GitHubKept, MaxLinkTokens, TRUE):
               Undisturbed /\ gitHub' = r.accepted /\ Proceeds(w, "set", r.token)
    <3>1. PICK r \in Refreshed(gitHub, Holding(w), GitHubKept, MaxLinkTokens, TRUE):
               Undisturbed /\ gitHub' = r.accepted /\ Proceeds(w, "set", r.token)
      BY <2>1
    <3>2. r.token \in LinkTokens /\ r.accepted \subseteq LinkTokens
      BY GrantedTyped, RefreshedTyped DEF LinkTokens, LinksTypeOK
    <3>3. worker' \in [Workers -> Errands] /\ Stocked'
      BY <1>2, <3>1, <3>2 DEF LinkStages
    <3> QED BY <1>1, <1>15, <3>1, <3>2, <3>3 DEF CheckGitHubToken, LinksTypeOK
  <2>2. CASE UNCHANGED gitHub /\ Undisturbed /\ Stops(w)
    BY <1>1, <1>3, <1>15, <2>2 DEF CheckGitHubToken, LinksTypeOK
  <2>3. CASE UNCHANGED gitHub /\ (Disrupted \/ Undisturbed) /\ Proceeds(w, "clear", 0)
    BY <1>1, <1>2, <1>15, <2>3 DEF CheckGitHubToken, LinksTypeOK, LinkStages
  <2> QED BY <1>15, <2>1, <2>2, <2>3 DEF CheckGitHubToken
<1>16. ASSUME NEW w \in Workers, SetGitHubToken(w) \/ ClearGitHub(w) PROVE LinksTypeOK' /\ Stocked'
  <2>1. link' \in Links \cup {NoLink}
    BY <1>4, <1>6, <1>16 DEF SetGitHubToken, ClearGitHub, LinksTypeOK
  <2>2. worker' \in [Workers -> Errands] /\ Stocked'
    BY <1>3, <1>16 DEF SetGitHubToken, ClearGitHub
  <2> QED BY <1>1, <1>16, <2>1, <2>2 DEF SetGitHubToken, ClearGitHub, LinksTypeOK
<1>17. ASSUME NEW w \in Workers, LinkCallback(w) PROVE LinksTypeOK' /\ Stocked'
  <2>1. PICK g \in Granted(offline, OfflineKept, MaxLinkTokens):
          offline' = g.accepted /\ Proceeds(w, "insert", g.token)
    BY <1>17 DEF LinkCallback
  <2>2. g.token \in LinkTokens /\ g.accepted \subseteq LinkTokens
    BY GrantedTyped, RefreshedTyped DEF LinkTokens, LinksTypeOK
  <2>3. worker' \in [Workers -> Errands] /\ Stocked'
    BY <1>2, <2>1, <2>2 DEF LinkStages, LinkTokens
  <2> QED BY <1>17, <2>1, <2>2, <2>3 DEF LinkCallback, LinksTypeOK
<1>18. ASSUME NEW w \in Workers, GitHubLinkCallback(w) PROVE LinksTypeOK' /\ Stocked'
  <2>1. PICK g \in Granted(gitHub, GitHubKept, MaxLinkTokens):
          gitHub' = g.accepted /\ Proceeds(w, "set", g.token)
    BY <1>18 DEF GitHubLinkCallback
  <2>2. g.token \in LinkTokens /\ g.accepted \subseteq LinkTokens
    BY GrantedTyped, RefreshedTyped DEF LinkTokens, LinksTypeOK
  <2>3. worker' \in [Workers -> Errands] /\ Stocked'
    BY <1>2, <2>1, <2>2 DEF LinkStages
  <2> QED BY <1>18, <2>1, <2>2, <2>3 DEF GitHubLinkCallback, LinksTypeOK
<1>19. ASSUME NEW w \in Workers, AdminRevokeLink(w) \/ AdminRevokeGitHub(w)
       PROVE  LinksTypeOK' /\ Stocked'
  BY <1>2, <1>7, <1>19 DEF AdminRevokeLink, AdminRevokeGitHub, LinksTypeOK, LinkStages
<1>20. ASSUME NEW w \in Workers, RevokeToken(w) PROVE LinksTypeOK' /\ Stocked'
  <2>1. worker' \in [Workers -> Errands] /\ Stocked'
    BY <1>2, <1>20 DEF RevokeToken, LinkStages
  <2> QED BY <1>1, <1>20, <2>1 DEF RevokeToken, LinksTypeOK
<1> QED BY <1>8, <1>9, <1>10, <1>11, <1>12, <1>13, <1>14, <1>15, <1>16, <1>17, <1>18, <1>19, <1>20
        DEF LinksNext

-----------------------------------------------------------------------------
\* The login's part of the row is not written, and nobody takes a new token.
LEMMA LoginKept ==
    ASSUME LinksTypeOK, Stocked, LoginSide, NEW w \in Workers, NEW at, NEW holds,
           Proceeds(w, at, holds), UNCHANGED offline,
           worker[w].at \notin {"save", "insert"}, at \notin {"save", "insert"},
           worker[w].at = "delete" => link' = NoLink,
           at \in OnLogin => holds \in LinkColumn("login") \cup {0},
           link' # NoLink => link # NoLink /\ link'.login = link.login
    PROVE  LoginSide'
<1>1. \A v \in Workers: v # w => worker'[v] = worker[v]
  BY DEF Proceeds, LinksTypeOK
<1>2. worker'[w] = [at |-> at, holds |-> holds]
  BY DEF Proceeds, LinksTypeOK
<1>3. LinkColumn("login")' \subseteq LinkColumn("login")
  BY DEF LinkColumn
<1>4. link' # NoLink /\ Writes({"save", "insert", "delete"}) => Writes({"save", "insert", "delete"})'
  BY <1>1 DEF Writes
<1>5. 0 \notin LinkTokens
  BY LinkBoundsAssumption DEF LinkTokens
<1>6. LoginFresh'
  <2> SUFFICES ASSUME NEW v \in Workers, worker'[v].at \in {"save", "insert"}
               PROVE  /\ worker'[v].holds \in offline'
                      /\ worker'[v].holds \notin LinkColumn("login")'
                      /\ \A u \in Workers \ {v}:
                            worker'[u].at \in OnLogin => worker'[u].holds # worker'[v].holds
    BY DEF LoginFresh, OnLogin
  <2>1. v # w /\ worker'[v] = worker[v]
    BY <1>1, <1>2
  <2>2. worker[v].holds \in LinkTokens
    BY <2>1 DEF Stocked
  <2>3. worker[v].holds \in offline /\ worker[v].holds \notin LinkColumn("login")
    BY <2>1 DEF LoginSide, LoginFresh
  <2>4. \A u \in Workers \ {v}: worker[u].at \in OnLogin => worker[u].holds # worker[v].holds
    BY <2>1 DEF LoginSide, LoginFresh
  <2>5. ASSUME NEW u \in Workers \ {v}, worker'[u].at \in OnLogin
        PROVE  worker'[u].holds # worker'[v].holds
    BY <1>1, <1>2, <1>5, <2>1, <2>2, <2>3, <2>4, <2>5
  <2> QED BY <1>3, <2>1, <2>3, <2>5
<1> QED BY <1>4, <1>6 DEF LoginSide

\* A new token is taken, for the row, in place of the one the worker had.
LEMMA LoginTaken ==
    ASSUME LinksTypeOK, Stocked, LoginSide, NEW w \in Workers, NEW at \in {"save", "insert"},
           NEW fresh, Proceeds(w, at, fresh), UNCHANGED link,
           fresh \notin OfflineKept, fresh \in offline',
           \A t \in offline \cap OfflineKept: t \in offline' \/ (worker[w].at \in OnLogin /\ t = worker[w].holds)
    PROVE  LoginSide'
<1>1. \A v \in Workers: v # w => worker'[v] = worker[v]
  BY DEF Proceeds, LinksTypeOK
<1>2. worker'[w] = [at |-> at, holds |-> fresh]
  BY DEF Proceeds, LinksTypeOK
<1>3. LinkColumn("login")' = LinkColumn("login") /\ fresh \notin LinkColumn("login")
  BY DEF LinkColumn, OfflineKept
<1>4. \A v \in Workers: worker[v].at \in OnLogin => worker[v].holds # fresh
  BY DEF OfflineKept, Holding
<1>5. 0 \notin LinkTokens
  BY LinkBoundsAssumption DEF LinkTokens
<1>6. LoginFresh'
  <2> SUFFICES ASSUME NEW v \in Workers, worker'[v].at \in {"save", "insert"}
               PROVE  /\ worker'[v].holds \in offline'
                      /\ worker'[v].holds \notin LinkColumn("login")'
                      /\ \A u \in Workers \ {v}:
                            worker'[u].at \in OnLogin => worker'[u].holds # worker'[v].holds
    BY DEF LoginFresh, OnLogin
  <2>1. CASE v = w
    BY <1>1, <1>2, <1>3, <1>4, <2>1
  <2>2. CASE v # w
    <3>1. worker'[v] = worker[v]
      BY <1>1, <2>2
    <3>2. worker[v].holds \in LinkTokens
      BY <3>1 DEF Stocked
    <3>3. worker[v].holds \in offline /\ worker[v].holds \notin LinkColumn("login")
      BY <3>1 DEF LoginSide, LoginFresh
    <3>4. \A u \in Workers \ {v}: worker[u].at \in OnLogin => worker[u].holds # worker[v].holds
      BY <3>1 DEF LoginSide, LoginFresh
    <3>5. worker[v].at \in OnLogin
      BY <3>1 DEF OnLogin
    <3>6. worker[v].holds \in OfflineKept
      BY <3>5 DEF OfflineKept, Holding
    <3>7. worker[v].holds = worker[w].holds => worker[w].at \notin OnLogin
      BY <2>2, <3>4
    <3>8. worker'[v].holds \in offline'
      BY <3>1, <3>3, <3>6, <3>7
    <3>9. ASSUME NEW u \in Workers \ {v}, worker'[u].at \in OnLogin
          PROVE  worker'[u].holds # worker'[v].holds
      BY <1>1, <1>2, <1>4, <3>1, <3>4, <3>5, <3>9
    <3> QED BY <1>3, <3>1, <3>3, <3>8, <3>9
  <2> QED BY <2>1, <2>2
<1>7. Writes({"save", "insert", "delete"})'
  BY <1>2 DEF Writes
<1> QED BY <1>6, <1>7 DEF LoginSide

\* The row takes the worker's token.
LEMMA LoginStored ==
    ASSUME LinksTypeOK, Stocked, LoginSide, NEW w \in Workers, NEW at, NEW holds,
           worker[w].at \in {"save", "insert"}, at \notin OnLogin, Proceeds(w, at, holds),
           link' # NoLink => link'.login = worker[w].holds, UNCHANGED offline
    PROVE  LoginSide'
<1>1. \A v \in Workers: v # w => worker'[v] = worker[v]
  BY DEF Proceeds, LinksTypeOK
<1>2. worker'[w] = [at |-> at, holds |-> holds]
  BY DEF Proceeds, LinksTypeOK
<1>3. LinkColumn("login")' \subseteq {worker[w].holds}
  BY DEF LinkColumn
<1>4. worker[w].holds \in offline
  BY DEF LoginSide, LoginFresh
<1>5. \A v \in Workers \ {w}: worker[v].at \in OnLogin => worker[v].holds # worker[w].holds
  BY DEF LoginSide, LoginFresh
<1>6. LoginFresh'
  <2> SUFFICES ASSUME NEW v \in Workers, worker'[v].at \in {"save", "insert"}
               PROVE  /\ worker'[v].holds \in offline'
                      /\ worker'[v].holds \notin LinkColumn("login")'
                      /\ \A u \in Workers \ {v}:
                            worker'[u].at \in OnLogin => worker'[u].holds # worker'[v].holds
    BY DEF LoginFresh, OnLogin
  <2>1. v # w /\ worker'[v] = worker[v] /\ worker[v].at \in OnLogin
    BY <1>1, <1>2 DEF OnLogin
  <2>2. worker[v].holds \in offline
    BY <2>1 DEF LoginSide, LoginFresh
  <2>3. \A u \in Workers \ {v}: worker[u].at \in OnLogin => worker[u].holds # worker[v].holds
    BY <2>1 DEF LoginSide, LoginFresh
  <2>4. ASSUME NEW u \in Workers \ {v}, worker'[u].at \in OnLogin
        PROVE  worker'[u].holds # worker'[v].holds
    BY <1>1, <1>2, <2>1, <2>3, <2>4
  <2> QED BY <1>3, <1>5, <2>1, <2>2, <2>4
<1> QED BY <1>4, <1>6 DEF LoginSide

-----------------------------------------------------------------------------
(* The same of the GitHub token.                                           *)

LEMMA GitHubUntouched ==
    ASSUME LinksTypeOK, GitHubSide, NEW w \in Workers, NEW at, NEW holds,
           Proceeds(w, at, holds), UNCHANGED gitHub,
           worker[w].at \notin {"set", "clear"}, at # "set",
           at \in OnGitHub => holds \in LinkColumn("github") \cup {0},
           link' # NoLink => \/ link # NoLink /\ link'.github = link.github
                             \/ link'.github = 0
    PROVE  GitHubSide'
<1>1. \A v \in Workers: v # w => worker'[v] = worker[v]
  BY DEF Proceeds, LinksTypeOK
<1>2. worker'[w] = [at |-> at, holds |-> holds]
  BY DEF Proceeds, LinksTypeOK
<1>3. LinkColumn("github")' \subseteq LinkColumn("github") \cup {0}
  BY DEF LinkColumn
<1>4. Writes({"set", "clear"}) => Writes({"set", "clear"})'
  BY <1>1 DEF Writes
<1>5. 0 \notin gitHub
  BY LinkBoundsAssumption DEF LinksTypeOK, LinkTokens
<1>6. GitHubFresh'
  <2> SUFFICES ASSUME NEW v \in Workers, worker'[v].at = "set"
               PROVE  /\ worker'[v].holds \in gitHub'
                      /\ worker'[v].holds \notin LinkColumn("github")'
                      /\ \A u \in Workers \ {v}:
                            worker'[u].at \in OnGitHub => worker'[u].holds # worker'[v].holds
    BY DEF GitHubFresh, OnGitHub
  <2>1. v # w /\ worker'[v] = worker[v]
    BY <1>1, <1>2
  <2>2. worker[v].holds \in gitHub /\ worker[v].holds \notin LinkColumn("github")
    BY <2>1 DEF GitHubSide, GitHubFresh
  <2>3. \A u \in Workers \ {v}: worker[u].at \in OnGitHub => worker[u].holds # worker[v].holds
    BY <2>1 DEF GitHubSide, GitHubFresh
  <2>4. ASSUME NEW u \in Workers \ {v}, worker'[u].at \in OnGitHub
        PROVE  worker'[u].holds # worker'[v].holds
    BY <1>1, <1>2, <1>5, <2>1, <2>2, <2>3, <2>4
  <2> QED BY <1>3, <1>5, <2>1, <2>2, <2>4
<1> QED BY <1>4, <1>6 DEF GitHubSide

LEMMA GitHubTaken ==
    ASSUME LinksTypeOK, GitHubSide, NEW w \in Workers, NEW fresh, NEW had,
           Proceeds(w, "set", fresh), UNCHANGED link,
           fresh \notin GitHubKept, fresh \in gitHub',
           \A t \in gitHub \cap GitHubKept: t \in gitHub' \/ (worker[w].at \in OnGitHub /\ t = worker[w].holds)
    PROVE  GitHubSide'
<1>1. \A v \in Workers: v # w => worker'[v] = worker[v]
  BY DEF Proceeds, LinksTypeOK
<1>2. worker'[w] = [at |-> "set", holds |-> fresh]
  BY DEF Proceeds, LinksTypeOK
<1>3. LinkColumn("github")' = LinkColumn("github") /\ fresh \notin LinkColumn("github")
  BY DEF LinkColumn, GitHubKept
<1>4. \A v \in Workers: worker[v].at \in OnGitHub => worker[v].holds # fresh
  BY DEF GitHubKept, Holding
<1>5. 0 \notin gitHub
  BY LinkBoundsAssumption DEF LinksTypeOK, LinkTokens
<1>6. GitHubFresh'
  <2> SUFFICES ASSUME NEW v \in Workers, worker'[v].at = "set"
               PROVE  /\ worker'[v].holds \in gitHub'
                      /\ worker'[v].holds \notin LinkColumn("github")'
                      /\ \A u \in Workers \ {v}:
                            worker'[u].at \in OnGitHub => worker'[u].holds # worker'[v].holds
    BY DEF GitHubFresh, OnGitHub
  <2>1. CASE v = w
    BY <1>1, <1>2, <1>3, <1>4, <2>1
  <2>2. CASE v # w
    <3>1. worker'[v] = worker[v] /\ worker[v].at \in OnGitHub
      BY <1>1, <2>2 DEF OnGitHub
    <3>2. worker[v].holds \in gitHub /\ worker[v].holds \notin LinkColumn("github")
      BY <3>1 DEF GitHubSide, GitHubFresh
    <3>3. \A u \in Workers \ {v}: worker[u].at \in OnGitHub => worker[u].holds # worker[v].holds
      BY <3>1 DEF GitHubSide, GitHubFresh
    <3>4. worker[v].holds \in GitHubKept
      BY <3>1 DEF GitHubKept, Holding
    <3>5. worker[v].holds = worker[w].holds => worker[w].at \notin OnGitHub
      BY <2>2, <3>3
    <3>6. worker'[v].holds \in gitHub'
      BY <3>1, <3>2, <3>4, <3>5
    <3>7. ASSUME NEW u \in Workers \ {v}, worker'[u].at \in OnGitHub
          PROVE  worker'[u].holds # worker'[v].holds
      BY <1>1, <1>2, <1>4, <3>1, <3>3, <3>7
    <3> QED BY <1>3, <3>1, <3>2, <3>6, <3>7
  <2> QED BY <2>1, <2>2
<1>7. Writes({"set", "clear"})'
  BY <1>2 DEF Writes
<1> QED BY <1>6, <1>7 DEF GitHubSide

LEMMA GitHubStored ==
    ASSUME LinksTypeOK, GitHubSide, NEW w \in Workers, worker[w].at \in {"set", "clear"},
           Stops(w), UNCHANGED gitHub,
           link' # NoLink =>
             \/ worker[w].at = "set" /\ link'.github = worker[w].holds
             \/ worker[w].at = "clear" /\ link'.github = 0
    PROVE  GitHubSide'
<1>1. \A v \in Workers: v # w => worker'[v] = worker[v]
  BY DEF Stops, LinksTypeOK
<1>2. worker'[w] = [at |-> "idle", holds |-> 0]
  BY DEF Stops, Resting, LinksTypeOK
<1>3. 0 \notin gitHub
  BY LinkBoundsAssumption DEF LinksTypeOK, LinkTokens
<1>4. \A t \in LinkColumn("github")': t = 0 \/ (worker[w].at = "set" /\ t = worker[w].holds)
  <2>1. CASE link' = NoLink
    BY <2>1 DEF LinkColumn
  <2>2. ASSUME link' # NoLink, NEW t \in LinkColumn("github")'
        PROVE  t = 0 \/ (worker[w].at = "set" /\ t = worker[w].holds)
    <3>1. t = link'.github
      BY <2>2 DEF LinkColumn
    <3> QED BY <2>2, <3>1
  <2> QED BY <2>1, <2>2
<1>5. worker[w].at = "set" => worker[w].holds \in gitHub
  BY DEF GitHubSide, GitHubFresh
<1>6. GitHubFresh'
  <2> SUFFICES ASSUME NEW v \in Workers, worker'[v].at = "set"
               PROVE  /\ worker'[v].holds \in gitHub'
                      /\ worker'[v].holds \notin LinkColumn("github")'
                      /\ \A u \in Workers \ {v}:
                            worker'[u].at \in OnGitHub => worker'[u].holds # worker'[v].holds
    BY DEF GitHubFresh, OnGitHub
  <2>1. v # w /\ worker'[v] = worker[v]
    BY <1>1, <1>2
  <2>2. worker[v].holds \in gitHub
    BY <2>1 DEF GitHubSide, GitHubFresh
  <2>3. \A u \in Workers \ {v}: worker[u].at \in OnGitHub => worker[u].holds # worker[v].holds
    BY <2>1 DEF GitHubSide, GitHubFresh
  <2>4. worker[w].holds # worker[v].holds
    BY <1>3, <2>1, <2>3, <2>2 DEF OnGitHub
  <2>5. ASSUME NEW u \in Workers \ {v}, worker'[u].at \in OnGitHub
        PROVE  worker'[u].holds # worker'[v].holds
    BY <1>1, <1>2, <2>1, <2>3, <2>5 DEF OnGitHub
  <2> QED BY <1>3, <1>4, <2>1, <2>2, <2>4, <2>5
<1>7. link' # NoLink => link'.github \in gitHub' \cup {0}
  BY <1>5
<1> QED BY <1>6, <1>7 DEF GitHubSide

-----------------------------------------------------------------------------
LEMMA LoginStep ==
    ASSUME LinksTypeOK, Stocked, LoginSide, NEW w \in Workers,
           \/ GetLink(w) \/ RefreshLogin(w) \/ SaveRotated(w) \/ DeleteLink(w)
           \/ GetGitHubToken(w) \/ CheckGitHubToken(w) \/ SetGitHubToken(w) \/ ClearGitHub(w)
           \/ LinkCallback(w) \/ StoreLink(w) \/ GitHubLinkCallback(w)
           \/ AdminRevokeLink(w) \/ RevokeToken(w) \/ AdminRevokeGitHub(w),
           linkMishap' = FALSE
    PROVE  LoginSide'
<1>0. 0 \notin LinkTokens
  BY LinkBoundsAssumption DEF LinkTokens
<1> USE DEF OnLogin, Working, Holding
<1>1. ~Disrupted
  BY DEF Disrupted
<1>2. Stops(w) <=> Proceeds(w, "idle", 0)
  BY DEF Stops, Proceeds, Resting
<1>3. CASE GetLink(w)
  BY <1>3, LoginKept DEF GetLink, LinkColumn
<1>4. CASE RefreshLogin(w)
  <2>1. CASE \E replaced \in BOOLEAN:
                \E r \in Refreshed(offline, Holding(w), OfflineKept, MaxLinkTokens, replaced):
                  /\ offline' = r.accepted
                  /\ IF r.token # Holding(w) THEN Proceeds(w, "save", r.token) ELSE AfterLogin(w)
    <3>1. PICK replaced \in BOOLEAN:
             \E r \in Refreshed(offline, Holding(w), OfflineKept, MaxLinkTokens, replaced):
                  /\ offline' = r.accepted
                  /\ IF r.token # Holding(w) THEN Proceeds(w, "save", r.token) ELSE AfterLogin(w)
      BY <2>1
    <3>2. PICK r \in Refreshed(offline, Holding(w), OfflineKept, MaxLinkTokens, replaced):
                  /\ offline' = r.accepted
                  /\ IF r.token # Holding(w) THEN Proceeds(w, "save", r.token) ELSE AfterLogin(w)
      BY <3>1
    <3>3. CASE replaced = FALSE
      <4>1. r.token = worker[w].holds /\ r.accepted = offline
        <5>1. PICK had: had = worker[w].holds
          OBVIOUS
        <5>2. r \in Refreshed(offline, had, OfflineKept, MaxLinkTokens, FALSE)
          BY <3>3, <5>1
        <5>3. r.token = had /\ r.accepted = offline
          BY <5>2, LinkBoundsAssumption, RefreshedSame
        <5> QED BY <5>1, <5>3
      <4> QED BY <1>4, <3>2, <4>1, LoginKept DEF RefreshLogin, AfterLogin
    <3>4. CASE replaced = TRUE
      <4>1. /\ r.token \notin OfflineKept
            /\ r.token \in r.accepted
            /\ \A t \in offline \cap OfflineKept: t # worker[w].holds => t \in r.accepted
        <5>1. PICK had: had = worker[w].holds
          OBVIOUS
        <5>2. r \in Refreshed(offline, had, OfflineKept, MaxLinkTokens, TRUE)
          BY <3>4, <5>1
        <5>3. /\ r.token \notin OfflineKept
              /\ r.token \in r.accepted
              /\ \A t \in offline \cap OfflineKept: t # had => t \in r.accepted
          BY <5>2, LinkBoundsAssumption, RefreshedIsNew
        <5> QED BY <5>1, <5>3
      <4>2. Holding(w) \in OfflineKept
        BY <1>4 DEF RefreshLogin, OfflineKept
      <4>3. Proceeds(w, "save", r.token)
        BY <3>2, <4>1, <4>2
      <4>4. r.token \in offline' /\ \A t \in offline \cap OfflineKept: t # worker[w].holds => t \in offline'
        BY <3>2, <4>1
      <4> QED BY <1>4, <4>1, <4>3, <4>4, LoginTaken DEF RefreshLogin
    <3> QED BY <3>3, <3>4
  <2>2. CASE Proceeds(w, "delete", 0) /\ UNCHANGED offline
    BY <1>4, <2>2, LoginKept DEF RefreshLogin
  <2> QED BY <1>4, <2>1, <2>2 DEF RefreshLogin
<1>5. CASE SaveRotated(w) \/ StoreLink(w)
  <2>1. UpsertLogin(worker[w].holds)
    BY <1>1, <1>5 DEF SaveRotated, StoreLink
  <2>2. link' # NoLink => link'.login = worker[w].holds
    BY <2>1 DEF UpsertLogin, LinksTypeOK, Links
  <2> QED BY <1>2, <1>5, <2>2, LoginStored DEF SaveRotated, StoreLink, AfterLogin
<1>6. CASE DeleteLink(w)
  <2>1. link' = NoLink
    BY <1>1, <1>6 DEF DeleteLink
  <2> QED BY <1>2, <1>6, <2>1, LoginKept DEF DeleteLink
<1>7. CASE GetGitHubToken(w)
  BY <1>2, <1>7, LoginKept DEF GetGitHubToken
<1>8. CASE CheckGitHubToken(w)
  <2>1. \E at \in {"idle", "set", "clear"}: \E holds: Proceeds(w, at, holds)
    BY <1>2, <1>8, Zenon DEF CheckGitHubToken
  <2> QED BY <1>8, <2>1, LoginKept DEF CheckGitHubToken
<1>9. CASE SetGitHubToken(w) \/ ClearGitHub(w)
  <2>1. link' # NoLink => link # NoLink /\ link'.login = link.login
    BY <1>1, <1>9 DEF SetGitHubToken, ClearGitHub, SetGitHubColumns, LinksTypeOK, Links
  <2> QED BY <1>2, <1>9, <2>1, LoginKept DEF SetGitHubToken, ClearGitHub
<1>10. CASE LinkCallback(w)
  <2>1. PICK g \in Granted(offline, OfflineKept, MaxLinkTokens):
          offline' = g.accepted /\ Proceeds(w, "insert", g.token)
    BY <1>10 DEF LinkCallback
  <2>2. /\ g.token \notin OfflineKept
        /\ g.token \in g.accepted
        /\ \A t \in offline \cap OfflineKept: t \in g.accepted
    BY LinkBoundsAssumption, GrantedIsNew
  <2>3. g.token \in offline' /\ \A t \in offline \cap OfflineKept: t \in offline'
    BY <2>1, <2>2
  <2> QED BY <1>10, <2>1, <2>2, <2>3, LoginTaken DEF LinkCallback
<1>11. CASE GitHubLinkCallback(w)
  <2>1. PICK g \in Granted(gitHub, GitHubKept, MaxLinkTokens):
          gitHub' = g.accepted /\ Proceeds(w, "set", g.token)
    BY <1>11 DEF GitHubLinkCallback
  <2> QED BY <1>11, <2>1, LoginKept DEF GitHubLinkCallback
<1>12. CASE AdminRevokeLink(w) \/ AdminRevokeGitHub(w)
  BY <1>12, LoginKept DEF AdminRevokeLink, AdminRevokeGitHub, LinkColumn
<1>13. CASE RevokeToken(w)
  <2>1. offline' = offline \ {worker[w].holds} /\ Proceeds(w, "delete", 0) /\ UNCHANGED link
    BY <1>1, <1>13 DEF RevokeToken
  <2>2. \A v \in Workers: v # w => worker'[v] = worker[v]
    BY <2>1 DEF Proceeds, LinksTypeOK
  <2>3. worker'[w] = [at |-> "delete", holds |-> 0]
    BY <2>1 DEF Proceeds, LinksTypeOK
  <2>4. LoginFresh'
    <3> SUFFICES ASSUME NEW v \in Workers, worker'[v].at \in {"save", "insert"}
                 PROVE  /\ worker'[v].holds \in offline'
                        /\ worker'[v].holds \notin LinkColumn("login")'
                        /\ \A u \in Workers \ {v}:
                              worker'[u].at \in OnLogin => worker'[u].holds # worker'[v].holds
      BY DEF LoginFresh
    <3>1. v # w /\ worker'[v] = worker[v]
      BY <2>2, <2>3
    <3>2. worker[v].holds \in LinkTokens
      BY <3>1 DEF Stocked
    <3>3. worker[v].holds \in offline /\ worker[v].holds \notin LinkColumn("login")
      BY <3>1 DEF LoginSide, LoginFresh
    <3>4. \A u \in Workers \ {v}: worker[u].at \in OnLogin => worker[u].holds # worker[v].holds
      BY <3>1 DEF LoginSide, LoginFresh
    <3>5. worker[w].holds # worker[v].holds
      BY <1>13, <3>1, <3>4 DEF RevokeToken
    <3>6. ASSUME NEW u \in Workers \ {v}, worker'[u].at \in OnLogin
          PROVE  worker'[u].holds # worker'[v].holds
      BY <1>0, <2>2, <2>3, <3>1, <3>2, <3>4, <3>6
    <3> QED BY <2>1, <3>1, <3>3, <3>5, <3>6 DEF LinkColumn
  <2>5. Writes({"save", "insert", "delete"})'
    BY <2>3 DEF Writes
  <2> QED BY <2>4, <2>5 DEF LoginSide
<1> QED BY <1>3, <1>4, <1>5, <1>6, <1>7, <1>8, <1>9, <1>10, <1>11, <1>12, <1>13

LEMMA GitHubStep ==
    ASSUME LinksTypeOK, Stocked, GitHubSide, NEW w \in Workers,
           \/ GetLink(w) \/ RefreshLogin(w) \/ SaveRotated(w) \/ DeleteLink(w)
           \/ GetGitHubToken(w) \/ CheckGitHubToken(w) \/ SetGitHubToken(w) \/ ClearGitHub(w)
           \/ LinkCallback(w) \/ StoreLink(w) \/ GitHubLinkCallback(w)
           \/ AdminRevokeLink(w) \/ RevokeToken(w) \/ AdminRevokeGitHub(w),
           linkMishap' = FALSE
    PROVE  GitHubSide'
<1> USE DEF OnGitHub, Working, Holding
<1>1. ~Disrupted
  BY DEF Disrupted
<1>2. Stops(w) <=> Proceeds(w, "idle", 0)
  BY DEF Stops, Proceeds, Resting
<1>3. CASE GetLink(w)
  BY <1>3, GitHubUntouched DEF GetLink
<1>4. CASE RefreshLogin(w)
  <2>1. PICK at \in {"save", "github", "delete"}, holds \in {0} \cup LinkTokens: Proceeds(w, at, holds)
    <3>1. CASE Proceeds(w, "delete", 0)
      BY <3>1
    <3>2. CASE \E replaced \in BOOLEAN:
                 \E r \in Refreshed(offline, Holding(w), OfflineKept, MaxLinkTokens, replaced):
                   /\ offline' = r.accepted
                   /\ IF r.token # Holding(w) THEN Proceeds(w, "save", r.token) ELSE AfterLogin(w)
      <4>1. PICK replaced \in BOOLEAN:
                 \E r \in Refreshed(offline, Holding(w), OfflineKept, MaxLinkTokens, replaced):
                   /\ offline' = r.accepted
                   /\ IF r.token # Holding(w) THEN Proceeds(w, "save", r.token) ELSE AfterLogin(w)
        BY <3>2
      <4>2. PICK r \in Refreshed(offline, Holding(w), OfflineKept, MaxLinkTokens, replaced):
                   /\ offline' = r.accepted
                   /\ IF r.token # Holding(w) THEN Proceeds(w, "save", r.token) ELSE AfterLogin(w)
        BY <4>1
      <4>3. r.token \in LinkTokens
        BY LinkBoundsAssumption, RefreshedTyped DEF LinksTypeOK, LinkTokens
      <4> QED BY <4>2, <4>3 DEF AfterLogin
    <3> QED BY <1>4, <3>1, <3>2 DEF RefreshLogin
  <2> QED BY <1>4, <2>1, GitHubUntouched DEF RefreshLogin
<1>5. CASE SaveRotated(w) \/ StoreLink(w)
  <2>1. UpsertLogin(worker[w].holds)
    BY <1>1, <1>5 DEF SaveRotated, StoreLink
  <2>2. link' # NoLink => \/ link # NoLink /\ link'.github = link.github
                          \/ link'.github = 0
    BY <2>1 DEF UpsertLogin, LinksTypeOK, Links
  <2> QED BY <1>2, <1>5, <2>2, GitHubUntouched DEF SaveRotated, StoreLink, AfterLogin
<1>6. CASE DeleteLink(w)
  <2>1. link' = NoLink
    BY <1>1, <1>6 DEF DeleteLink
  <2> QED BY <1>2, <1>6, <2>1, GitHubUntouched DEF DeleteLink
<1>7. CASE GetGitHubToken(w)
  BY <1>2, <1>7, GitHubUntouched DEF GetGitHubToken, LinkColumn
<1>8. CASE CheckGitHubToken(w)
  <2>1. CASE UNCHANGED gitHub /\ Stops(w)
    BY <1>2, <1>8, <2>1, GitHubUntouched DEF CheckGitHubToken
  <2>2. CASE UNCHANGED gitHub /\ Proceeds(w, "clear", 0)
    BY <1>8, <2>2, GitHubUntouched DEF CheckGitHubToken
  <2>3. CASE \E r \in Refreshed(gitHub, Holding(w), GitHubKept, MaxLinkTokens, TRUE):
               gitHub' = r.accepted /\ Proceeds(w, "set", r.token)
    <3>1. PICK r \in Refreshed(gitHub, Holding(w), GitHubKept, MaxLinkTokens, TRUE):
               gitHub' = r.accepted /\ Proceeds(w, "set", r.token)
      BY <2>3
    <3>2. /\ r.token \notin GitHubKept
          /\ r.token \in r.accepted
          /\ \A t \in gitHub \cap GitHubKept: t # worker[w].holds => t \in r.accepted
      <4>1. PICK had: had = worker[w].holds
        OBVIOUS
      <4>2. r \in Refreshed(gitHub, had, GitHubKept, MaxLinkTokens, TRUE)
        BY <4>1
      <4>3. /\ r.token \notin GitHubKept
            /\ r.token \in r.accepted
            /\ \A t \in gitHub \cap GitHubKept: t # had => t \in r.accepted
        BY <4>2, LinkBoundsAssumption, RefreshedIsNew
      <4> QED BY <4>1, <4>3
    <3>3. r.token \in gitHub' /\ \A t \in gitHub \cap GitHubKept: t # worker[w].holds => t \in gitHub'
      BY <3>1, <3>2
    <3> QED BY <1>8, <3>1, <3>2, <3>3, GitHubTaken DEF CheckGitHubToken
  <2> QED BY <1>8, <2>1, <2>2, <2>3 DEF CheckGitHubToken
<1>9. CASE SetGitHubToken(w) \/ ClearGitHub(w)
  <2>1. SetGitHubColumns(IF SetGitHubToken(w) THEN worker[w].holds ELSE 0)
    BY <1>1, <1>9 DEF SetGitHubToken, ClearGitHub
  <2>2. link' # NoLink =>
             \/ worker[w].at = "set" /\ link'.github = worker[w].holds
             \/ worker[w].at = "clear" /\ link'.github = 0
    BY <1>9, <2>1 DEF SetGitHubToken, ClearGitHub, SetGitHubColumns, LinksTypeOK, Links
  <2> QED BY <1>9, <2>2, GitHubStored DEF SetGitHubToken, ClearGitHub
<1>10. CASE LinkCallback(w)
  <2>1. PICK g \in Granted(offline, OfflineKept, MaxLinkTokens):
          offline' = g.accepted /\ Proceeds(w, "insert", g.token)
    BY <1>10 DEF LinkCallback
  <2> QED BY <1>10, <2>1, GitHubUntouched DEF LinkCallback
<1>11. CASE GitHubLinkCallback(w)
  <2>1. PICK g \in Granted(gitHub, GitHubKept, MaxLinkTokens):
          gitHub' = g.accepted /\ Proceeds(w, "set", g.token)
    BY <1>11 DEF GitHubLinkCallback
  <2>2. /\ g.token \notin GitHubKept
        /\ g.token \in g.accepted
        /\ \A t \in gitHub \cap GitHubKept: t \in g.accepted
    BY LinkBoundsAssumption, GrantedIsNew
  <2>3. g.token \in gitHub' /\ \A t \in gitHub \cap GitHubKept: t \in gitHub'
    BY <2>1, <2>2
  <2> QED BY <1>11, <2>1, <2>2, <2>3, GitHubTaken DEF GitHubLinkCallback
<1>12. CASE AdminRevokeLink(w) \/ AdminRevokeGitHub(w)
  BY <1>12, GitHubUntouched DEF AdminRevokeLink, AdminRevokeGitHub
<1>13. CASE RevokeToken(w)
  BY <1>13, GitHubUntouched DEF RevokeToken
<1> QED BY <1>3, <1>4, <1>5, <1>6, <1>7, <1>8, <1>9, <1>10, <1>11, <1>12, <1>13

LEMMA LinkInvBegins == LinksInit => LinkInv
<1> SUFFICES ASSUME LinksInit PROVE LinkInv
  OBVIOUS
<1>1. MaxLinkTrouble \in 0 .. MaxLinkTrouble
  BY LinkBoundsAssumption
<1>2. LinksTypeOK
  BY <1>1 DEF LinksInit, LinksTypeOK, Resting, LinkStages
<1> QED BY <1>2 DEF LinksInit, LinkInv, Stocked, LoginSide, LoginFresh, GitHubSide, GitHubFresh, Resting

LEMMA LinkInvStep == LinkInv /\ [LinksNext]_linkVars => LinkInv'
<1> SUFFICES ASSUME LinkInv, [LinksNext]_linkVars PROVE LinkInv'
  OBVIOUS
<1>1. LinksTypeOK' /\ Stocked'
  BY LinksTypedStep DEF LinkInv
<1>2. ASSUME linkMishap' = FALSE PROVE LoginSide' /\ GitHubSide'
  <2>1. CASE UNCHANGED linkVars
    BY <1>2, <2>1 DEF LinkInv, LoginSide, LoginFresh, GitHubSide, GitHubFresh, linkVars,
                      LinkColumn, Writes
  <2>2. CASE LinksNext
    <3>1. ~WithdrawLink
      BY <1>2 DEF WithdrawLink, Disrupted
    <3>2. PICK w \in Workers:
            \/ GetLink(w) \/ RefreshLogin(w) \/ SaveRotated(w) \/ DeleteLink(w)
            \/ GetGitHubToken(w) \/ CheckGitHubToken(w) \/ SetGitHubToken(w) \/ ClearGitHub(w)
            \/ LinkCallback(w) \/ StoreLink(w) \/ GitHubLinkCallback(w)
            \/ AdminRevokeLink(w) \/ RevokeToken(w) \/ AdminRevokeGitHub(w)
      BY <2>2, <3>1 DEF LinksNext
    <3>3. linkMishap = FALSE
      BY <1>2, <3>2 DEF GetLink, RefreshLogin, SaveRotated, DeleteLink,
            GetGitHubToken, CheckGitHubToken, SetGitHubToken, ClearGitHub,
            LinkCallback, StoreLink, GitHubLinkCallback, AdminRevokeLink, RevokeToken,
            AdminRevokeGitHub, Undisturbed, Disrupted
    <3>4. LinksTypeOK /\ Stocked /\ LoginSide /\ GitHubSide
      BY <3>3 DEF LinkInv
    <3> QED BY <1>2, <3>2, <3>4, LoginStep, GitHubStep
  <2> QED BY <2>1, <2>2
<1>3. linkMishap' \in BOOLEAN
  BY <1>1 DEF LinksTypeOK
<1> QED BY <1>1, <1>2, <1>3 DEF LinkInv

\* The links of slack/handler.go and handlers/slack_link.go: a
\* user's row does not keep a token that its provider no longer accepts,
\* however the requests that refresh, save and revoke it interleave.
THEOREM LinksCorrect == LinksSpec => []LinkBacked
<1>1. LinkInv => LinkBacked
  BY DEF LinkInv, LinkBacked, LoginSide, GitHubSide
<1> QED BY <1>1, LinkInvBegins, LinkInvStep, PTL DEF LinksSpec

-----------------------------------------------------------------------------
(* The bots of an agent.                                                   *)

\* A worker has a bot only while it stops it or is about to register it.
HandsFull == \A w \in Gophers: job[w].bot # 0 => job[w].at \in {"stop", "register"}
\* A sync goroutine looks at its own pod.
SyncsHome == \A w \in Gophers: job[w].at \in {"sync", "check"} => job[w].pod = w
\* While one worker starts a bot no other does, and none is registered.
OneStarts ==
    \A p \in Pods: p \notin jostled =>
        \A w \in Gophers: job[w].pod = p /\ job[w].at \in {"launch", "register"} =>
            /\ bots[p] = 0
            /\ \A v \in Gophers: job[v].pod = p /\ job[v].at \in {"launch", "register"} => v = w

\* Who starts a bot read an integration.
SeenRow == \A w \in Gophers: job[w].at \in {"check", "replace", "launch"} => job[w].seen \in Integrations

BotTypes ==
    /\ integration \in Maybe
    /\ bots \in [Pods -> 0 .. MaxBots]
    /\ alive \in [Pods -> [Ids -> Tokens \cup {NoTokens}]]
    /\ job \in [Gophers -> Jobs]
    /\ jostled \subseteq Pods

BotInv == BotTypes /\ SeenRow /\ HandsFull /\ SyncsHome /\ OneStarts /\ NoStrayBot

\* Who is in whose hands, pointwise.
LEMMA InHandMeans ==
    ASSUME NEW p, NEW b
    PROVE  b \in InHand(p) <=> b = bots[p] \/ \E w \in Gophers: job[w].pod = p /\ job[w].bot = b
  BY DEF InHand, Pod

\* A worker without a bot goes on, and still has none.
LEMMA EmptyHanded ==
    ASSUME BotInv, NEW w \in Gophers, NEW j \in Jobs, job' = [job EXCEPT ![w] = j],
           job[w].at \notin {"stop", "register"}, j.bot = 0, j.at \notin {"launch", "register"},
           j.at \in {"sync", "check"} => j.pod = w,
           j.at \in {"check", "replace"} => j.seen \in Integrations,
           integration' \in Maybe, UNCHANGED <<bots, alive, jostled>>
    PROVE  BotInv'
<1>1. job' \in [Gophers -> Jobs] /\ job'[w] = j /\ \A v \in Gophers: v # w => job'[v] = job[v]
  BY DEF BotInv, BotTypes
<1>2. BotTypes'
  BY <1>1 DEF BotInv, BotTypes
<1>3. HandsFull'
  BY <1>1 DEF BotInv, HandsFull
<1>4. SyncsHome' /\ SeenRow'
  BY <1>1 DEF BotInv, SyncsHome, SeenRow
<1>5. OneStarts'
  BY <1>1 DEF BotInv, OneStarts
<1>6. NoStrayBot'
  <2> SUFFICES ASSUME NEW p \in Pods, p \notin jostled, NEW b \in Ids, alive[p][b] # NoTokens
               PROVE  b \in InHand(p)'
    BY DEF NoStrayBot, Lives
  <2>1. b \in InHand(p) /\ b # 0
    BY BotBoundsAssumption DEF BotInv, NoStrayBot, Lives, Ids
  <2>2. b = bots[p] \/ \E v \in Gophers: job[v].pod = p /\ job[v].bot = b
    BY <2>1, InHandMeans
  <2>3. b = bots[p] \/ \E v \in Gophers: job'[v].pod = p /\ job'[v].bot = b
    BY <1>1, <2>1, <2>2 DEF BotInv, HandsFull
  <2> QED BY <2>3 DEF InHand, Pod
<1> QED BY <1>2, <1>3, <1>4, <1>5, <1>6 DEF BotInv

\* A worker comes to start a bot, where none is registered any more.
LEMMA ComesToStart ==
    ASSUME BotInv, NEW w \in Gophers, NEW p \in Pods, job[w].pod = p, job[w].bot = 0,
           job[w].seen \in Integrations,
           WillLaunch(w), UNCHANGED integration,
           bots' \in [Pods -> 0 .. MaxBots], alive' \in [Pods -> [Ids -> Tokens \cup {NoTokens}]],
           bots'[p] = 0,
           \A q \in Pods: q # p => bots'[q] = bots[q] /\ alive'[q] = alive[q],
           \A b \in Ids: alive'[p][b] # NoTokens => alive[p][b] # NoTokens /\ b # bots[p]
    PROVE  BotInv'
<1>0. PICK x: x = job[w] /\ x \in Jobs
  BY DEF BotInv, BotTypes
<1> DEFINE j == [x EXCEPT !.at = "launch"]
<1>1. j \in Jobs /\ j.at = "launch" /\ j.pod = p /\ j.bot = 0 /\ j.seen \in Integrations
  BY <1>0 DEF Jobs
<1>2. job' = [job EXCEPT ![w] = j]
  BY <1>0 DEF WillLaunch, Goes, BotInv, BotTypes
<1>3. job' \in [Gophers -> Jobs] /\ job'[w] = j /\ \A v \in Gophers: v # w => job'[v] = job[v]
  BY <1>1, <1>2 DEF BotInv, BotTypes
<1> HIDE DEF j
<1>4. /\ jostled' \subseteq Pods /\ jostled \subseteq jostled'
      /\ p \notin jostled' =>
            \A v \in Gophers: ~(job[v].pod = p /\ job[v].at \in {"launch", "register"})
  BY DEF WillLaunch, Starting, Pod, BotInv, BotTypes
<1>5. BotTypes'
  BY <1>3, <1>4 DEF BotInv, BotTypes
<1>6. HandsFull'
  BY <1>1, <1>3 DEF BotInv, HandsFull
<1>7. SyncsHome' /\ SeenRow'
  BY <1>1, <1>3 DEF BotInv, SyncsHome, SeenRow
<1>8. OneStarts'
  <2> SUFFICES ASSUME NEW q \in Pods, q \notin jostled', NEW v \in Gophers,
                      job'[v].pod = q, job'[v].at \in {"launch", "register"}
               PROVE  /\ bots'[q] = 0
                      /\ \A u \in Gophers:
                            job'[u].pod = q /\ job'[u].at \in {"launch", "register"} => u = v
    BY DEF OneStarts
  <2>1. CASE q = p
    BY <1>3, <1>4, <2>1
  <2>2. CASE q # p
    <3>1. v # w /\ job'[v] = job[v] /\ q \notin jostled
      BY <1>1, <1>3, <1>4, <2>2
    <3>2. /\ bots[q] = 0
          /\ \A u \in Gophers:
                job[u].pod = q /\ job[u].at \in {"launch", "register"} => u = v
      BY <3>1 DEF BotInv, OneStarts
    <3> QED BY <1>1, <1>3, <2>2, <3>1, <3>2
  <2> QED BY <2>1, <2>2
<1>9. NoStrayBot'
  <2> SUFFICES ASSUME NEW q \in Pods, q \notin jostled', NEW b \in Ids, alive'[q][b] # NoTokens
               PROVE  b \in InHand(q)'
    BY DEF NoStrayBot, Lives
  <2>1. alive[q][b] # NoTokens /\ (q = p => b # bots[p])
    BY BotBoundsAssumption
  <2>2. b \in InHand(q) /\ b # 0
    BY <1>4, <2>1, BotBoundsAssumption DEF BotInv, NoStrayBot, Lives, Ids
  <2>3. b = bots[q] \/ \E v \in Gophers: job[v].pod = q /\ job[v].bot = b
    BY <2>2, InHandMeans
  <2>4. b = bots'[q] \/ \E v \in Gophers: job'[v].pod = q /\ job'[v].bot = b
    BY <1>3, <2>1, <2>2, <2>3
  <2> QED BY <2>4 DEF InHand, Pod
<1> QED BY <1>5, <1>6, <1>7, <1>8, <1>9 DEF BotInv

\* The bot that is registered is taken out, to be stopped.
LEMMA TakenOut == ASSUME BotInv, NEW w \in Gophers, TakeOut(w) PROVE BotInv'
<1> DEFINE p == job[w].pod
           j == [job[w] EXCEPT !.at = "stop", !.bot = bots[p]]
<1>1. p \in Pods /\ job[w].bot = 0 /\ bots[p] \in 0 .. MaxBots
  BY DEF BotInv, BotTypes, HandsFull, Jobs, TakeOut, Does
<1>2. j \in Jobs /\ j.at = "stop" /\ j.pod = p /\ j.bot = bots[p]
  BY <1>1 DEF BotInv, BotTypes, Jobs
<1>3. job' = [job EXCEPT ![w] = j]
  BY DEF TakeOut, Pod, BotInv, BotTypes
<1>4. job' \in [Gophers -> Jobs] /\ job'[w] = j /\ \A v \in Gophers: v # w => job'[v] = job[v]
  BY <1>2, <1>3 DEF BotInv, BotTypes
<1>5. bots' \in [Pods -> 0 .. MaxBots] /\ bots'[p] = 0 /\ \A q \in Pods: q # p => bots'[q] = bots[q]
  BY <1>1, BotBoundsAssumption DEF TakeOut, Pod, BotInv, BotTypes
<1>6. UNCHANGED <<integration, alive, jostled>>
  BY DEF TakeOut
<1> HIDE DEF j
<1>7. BotTypes'
  BY <1>4, <1>5, <1>6 DEF BotInv, BotTypes
<1>8. HandsFull' /\ SyncsHome' /\ SeenRow'
  BY <1>2, <1>4 DEF BotInv, HandsFull, SyncsHome, SeenRow
<1>9. OneStarts'
  BY <1>2, <1>4, <1>5, <1>6 DEF BotInv, OneStarts
<1>10. NoStrayBot'
  <2> SUFFICES ASSUME NEW q \in Pods, q \notin jostled', NEW b \in Ids, alive'[q][b] # NoTokens
               PROVE  b \in InHand(q)'
    BY DEF NoStrayBot, Lives
  <2>1. b \in InHand(q) /\ b # 0
    BY <1>6, BotBoundsAssumption DEF BotInv, NoStrayBot, Lives, Ids
  <2>2. b = bots[q] \/ \E v \in Gophers: job[v].pod = q /\ job[v].bot = b
    BY <2>1, InHandMeans
  <2>3. b = bots'[q] \/ \E v \in Gophers: job'[v].pod = q /\ job'[v].bot = b
    BY <1>1, <1>2, <1>4, <1>5, <2>1, <2>2
  <2> QED BY <2>3 DEF InHand, Pod
<1> QED BY <1>7, <1>8, <1>9, <1>10 DEF BotInv

\* It is stopped.
LEMMA Stopped == ASSUME BotInv, NEW w \in Gophers, StopTaken(w) PROVE BotInv'
<1> DEFINE p == job[w].pod
           had == job[w].bot
<1>1. p \in Pods /\ had \in 0 .. MaxBots /\ Off \in Jobs /\ Off.bot = 0 /\ Off.at = "idle"
  BY BotBoundsAssumption DEF BotInv, BotTypes, Jobs, Off, Requests, Maybe
<1>2. PICK j \in Jobs: /\ job' = [job EXCEPT ![w] = j] /\ j.bot = 0
                       /\ j.at \in {"erase", "get", "idle"}
                       /\ j.at # "idle" => j.pod = p
  <2>1. CASE AfterStop(w) = "idle"
    BY <1>1, <2>1 DEF StopTaken, Ends
  <2>2. CASE AfterStop(w) # "idle"
    <3>1. PICK at \in {"erase", "get"}: at = AfterStop(w)
      BY <2>2 DEF AfterStop
    <3>2. job' = [job EXCEPT ![w] = [job[w] EXCEPT !.at = at, !.bot = 0]]
      BY <2>2, <3>1 DEF StopTaken, BotInv, BotTypes
    <3>3. [job[w] EXCEPT !.at = at, !.bot = 0] \in Jobs
      <4>1. job[w] \in Jobs /\ 0 \in 0 .. MaxBots
        BY BotBoundsAssumption DEF BotInv, BotTypes
      <4> QED BY <4>1 DEF Jobs
    <3> QED BY <3>1, <3>2, <3>3 DEF BotInv, BotTypes, Jobs
  <2> QED BY <2>1, <2>2
<1>3. job' \in [Gophers -> Jobs] /\ job'[w] = j /\ \A v \in Gophers: v # w => job'[v] = job[v]
  BY <1>2 DEF BotInv, BotTypes
<1>4. /\ alive' \in [Pods -> [Ids -> Tokens \cup {NoTokens}]]
      /\ \A q \in Pods: q # p => alive'[q] = alive[q]
      /\ \A b \in Ids: alive'[p][b] # NoTokens => alive[p][b] # NoTokens /\ b # had
  BY <1>1, BotBoundsAssumption DEF StopTaken, Without, Pod, BotInv, BotTypes, Ids
<1>5. UNCHANGED <<integration, bots, jostled>>
  BY DEF StopTaken
<1>6. job[w].at = "stop"
  BY DEF StopTaken, Does
<1>7. BotTypes'
  BY <1>3, <1>4, <1>5 DEF BotInv, BotTypes
<1>8. HandsFull' /\ SyncsHome' /\ SeenRow'
  BY <1>2, <1>3 DEF BotInv, HandsFull, SyncsHome, SeenRow
<1>9. OneStarts'
  BY <1>2, <1>3, <1>5 DEF BotInv, OneStarts
<1>10. NoStrayBot'
  <2> SUFFICES ASSUME NEW q \in Pods, q \notin jostled', NEW b \in Ids, alive'[q][b] # NoTokens
               PROVE  b \in InHand(q)'
    BY DEF NoStrayBot, Lives
  <2>1. alive[q][b] # NoTokens /\ (q = p => b # had)
    BY <1>4
  <2>2. b \in InHand(q) /\ b # 0
    BY <1>5, <2>1, BotBoundsAssumption DEF BotInv, NoStrayBot, Lives, Ids
  <2>3. b = bots[q] \/ \E v \in Gophers: job[v].pod = q /\ job[v].bot = b
    BY <2>2, InHandMeans
  <2>4. b = bots'[q] \/ \E v \in Gophers: job'[v].pod = q /\ job'[v].bot = b
    BY <1>3, <1>5, <2>1, <2>3
  <2> QED BY <2>4 DEF InHand, Pod
<1> QED BY <1>7, <1>8, <1>9, <1>10 DEF BotInv

\* A bot is connected, and in the hands of who connected it.
LEMMA Launched == ASSUME BotInv, NEW w \in Gophers, Launch(w) PROVE BotInv'
<1>1. PICK b \in Ids:
        /\ alive' = [alive EXCEPT ![Pod(w)][b] = job[w].seen.tokens]
        /\ job' = [job EXCEPT ![w].at = "register", ![w].bot = b]
  BY DEF Launch
<1> DEFINE p == job[w].pod
           j == [job[w] EXCEPT !.at = "register", !.bot = b]
<1>2. p \in Pods /\ job[w].bot = 0 /\ job[w].at = "launch" /\ b \in 0 .. MaxBots /\ b # 0
  <2>1. job[w].at = "launch" /\ job[w] \in Jobs
    BY DEF Launch, Does, BotInv, BotTypes
  <2>2. job[w].bot = 0
    BY <2>1 DEF BotInv, HandsFull
  <2>3. b \in 0 .. MaxBots /\ b # 0
    BY BotBoundsAssumption DEF Ids
  <2> QED BY <2>1, <2>2, <2>3 DEF Jobs
<1>3. j \in Jobs /\ j.at = "register" /\ j.pod = p /\ j.bot = b
  BY <1>2 DEF BotInv, BotTypes, Jobs
<1>4. job' = [job EXCEPT ![w] = j]
  BY <1>1 DEF BotInv, BotTypes
<1>5. job' \in [Gophers -> Jobs] /\ job'[w] = j /\ \A v \in Gophers: v # w => job'[v] = job[v]
  BY <1>3, <1>4 DEF BotInv, BotTypes
<1>6. job[w].seen \in Integrations
  BY <1>2 DEF BotInv, SeenRow
<1>7. /\ alive' \in [Pods -> [Ids -> Tokens \cup {NoTokens}]]
      /\ \A q \in Pods: q # p => alive'[q] = alive[q]
      /\ \A c \in Ids: c # b => alive'[p][c] = alive[p][c]
  BY <1>1, <1>2, <1>6 DEF Pod, BotInv, BotTypes, Integrations
<1>8. UNCHANGED <<integration, bots, jostled>>
  BY DEF Launch
<1> HIDE DEF j
<1>9. BotTypes'
  BY <1>5, <1>7, <1>8 DEF BotInv, BotTypes
<1>10. HandsFull' /\ SyncsHome' /\ SeenRow'
  BY <1>3, <1>5 DEF BotInv, HandsFull, SyncsHome, SeenRow
<1>11. OneStarts'
  BY <1>2, <1>3, <1>5, <1>8 DEF BotInv, OneStarts
<1>12. NoStrayBot'
  <2> SUFFICES ASSUME NEW q \in Pods, q \notin jostled', NEW c \in Ids, alive'[q][c] # NoTokens
               PROVE  c \in InHand(q)'
    BY DEF NoStrayBot, Lives
  <2>1. CASE q = p /\ c = b
    <3>1. c = bots'[q] \/ \E v \in Gophers: job'[v].pod = q /\ job'[v].bot = c
      BY <1>3, <1>5, <2>1
    <3> QED BY <3>1 DEF InHand, Pod
  <2>2. CASE ~(q = p /\ c = b)
    <3>1. alive[q][c] # NoTokens
      BY <1>7, <2>2
    <3>2. c \in InHand(q) /\ c # 0
      BY <1>8, <3>1, BotBoundsAssumption DEF BotInv, NoStrayBot, Lives, Ids
    <3>3. c = bots[q] \/ \E v \in Gophers: job[v].pod = q /\ job[v].bot = c
      BY <3>2, InHandMeans
    <3>4. c = bots'[q] \/ \E v \in Gophers: job'[v].pod = q /\ job'[v].bot = c
      BY <1>2, <1>5, <1>8, <3>2, <3>3
    <3> QED BY <3>4 DEF InHand, Pod
  <2> QED BY <2>1, <2>2
<1> QED BY <1>9, <1>10, <1>11, <1>12 DEF BotInv

\* It is registered where none was, unless two workers started one.
LEMMA Registered == ASSUME BotInv, NEW w \in Gophers, Register(w) PROVE BotInv'
<1> DEFINE p == job[w].pod
           had == job[w].bot
<1>1. p \in Pods /\ had \in 0 .. MaxBots /\ job[w].at = "register"
  BY DEF BotInv, BotTypes, Jobs, Register, Does
<1>2. Off \in Jobs /\ Off.bot = 0 /\ Off.at = "idle"
  BY <1>1, BotBoundsAssumption DEF Jobs, Off, Requests, Maybe
<1>3. job' \in [Gophers -> Jobs] /\ job'[w] = Off /\ \A v \in Gophers: v # w => job'[v] = job[v]
  BY <1>2 DEF BotInv, BotTypes, Register, Ends
<1>4. bots' \in [Pods -> 0 .. MaxBots] /\ bots'[p] = had /\ \A q \in Pods: q # p => bots'[q] = bots[q]
  BY <1>1 DEF Register, Pod, BotInv, BotTypes
<1>5. UNCHANGED <<integration, alive, jostled>>
  BY DEF Register
<1>6. p \notin jostled => /\ bots[p] = 0
                          /\ \A v \in Gophers: job[v].pod = p /\ job[v].at \in {"launch", "register"} => v = w
  BY <1>1 DEF BotInv, OneStarts
<1>7. BotTypes'
  BY <1>3, <1>4, <1>5 DEF BotInv, BotTypes
<1>8. HandsFull' /\ SyncsHome' /\ SeenRow'
  BY <1>2, <1>3 DEF BotInv, HandsFull, SyncsHome, SeenRow
<1>9. OneStarts'
  <2> SUFFICES ASSUME NEW q \in Pods, q \notin jostled', NEW v \in Gophers,
                      job'[v].pod = q, job'[v].at \in {"launch", "register"}
               PROVE  /\ bots'[q] = 0
                      /\ \A u \in Gophers:
                            job'[u].pod = q /\ job'[u].at \in {"launch", "register"} => u = v
    BY DEF OneStarts
  <2>1. v # w /\ job'[v] = job[v]
    BY <1>2, <1>3
  <2>2. q # p
    BY <1>5, <1>6, <2>1
  <2> QED BY <1>2, <1>3, <1>4, <1>5, <2>1, <2>2 DEF BotInv, OneStarts
<1>10. NoStrayBot'
  <2> SUFFICES ASSUME NEW q \in Pods, q \notin jostled', NEW b \in Ids, alive'[q][b] # NoTokens
               PROVE  b \in InHand(q)'
    BY DEF NoStrayBot, Lives
  <2>1. b \in InHand(q) /\ b # 0
    BY <1>5, BotBoundsAssumption DEF BotInv, NoStrayBot, Lives, Ids
  <2>2. b = bots[q] \/ \E v \in Gophers: job[v].pod = q /\ job[v].bot = b
    BY <2>1, InHandMeans
  <2>3. b = bots'[q] \/ \E v \in Gophers: job'[v].pod = q /\ job'[v].bot = b
    BY <1>3, <1>4, <1>5, <1>6, <2>1, <2>2
  <2> QED BY <2>3 DEF InHand, Pod
<1> QED BY <1>7, <1>8, <1>9, <1>10 DEF BotInv

\* All that ran on the pod is gone.
LEMMA Restarted == ASSUME BotInv, NEW p \in Pods, RestartPod(p) PROVE BotInv'
<1>1. Off \in Jobs /\ Off.bot = 0 /\ Off.at = "idle"
  BY BotBoundsAssumption DEF Jobs, Off, Requests, Maybe
<1>2. /\ job' \in [Gophers -> Jobs]
      /\ \A v \in Gophers: job'[v] = IF job[v].pod = p THEN Off ELSE job[v]
  BY <1>1 DEF RestartPod, Pod, BotInv, BotTypes
<1>3. bots' \in [Pods -> 0 .. MaxBots] /\ bots'[p] = 0 /\ \A q \in Pods: q # p => bots'[q] = bots[q]
  BY BotBoundsAssumption DEF RestartPod, BotInv, BotTypes
<1>4. /\ alive' \in [Pods -> [Ids -> Tokens \cup {NoTokens}]]
      /\ \A b \in Ids: alive'[p][b] = NoTokens
      /\ \A q \in Pods: q # p => alive'[q] = alive[q]
  BY DEF RestartPod, BotInv, BotTypes
<1>5. integration' = integration /\ jostled' = jostled \ {p}
  BY DEF RestartPod
<1>6. BotTypes'
  BY <1>2, <1>3, <1>4, <1>5 DEF BotInv, BotTypes
<1>7. HandsFull' /\ SyncsHome' /\ SeenRow'
  BY <1>1, <1>2 DEF BotInv, HandsFull, SyncsHome, SeenRow
<1>8. OneStarts'
  BY <1>1, <1>2, <1>3, <1>5 DEF BotInv, OneStarts
<1>9. NoStrayBot'
  <2> SUFFICES ASSUME NEW q \in Pods, q \notin jostled', NEW b \in Ids, alive'[q][b] # NoTokens
               PROVE  b \in InHand(q)'
    BY DEF NoStrayBot, Lives
  <2>1. q # p /\ q \notin jostled /\ alive[q][b] # NoTokens
    BY <1>4, <1>5
  <2>2. b \in InHand(q) /\ b # 0
    BY <2>1, BotBoundsAssumption DEF BotInv, NoStrayBot, Lives, Ids
  <2>3. b = bots[q] \/ \E v \in Gophers: job[v].pod = q /\ job[v].bot = b
    BY <2>2, InHandMeans
  <2>4. b = bots'[q] \/ \E v \in Gophers: job'[v].pod = q /\ job'[v].bot = b
    BY <1>2, <1>3, <2>1, <2>3
  <2> QED BY <2>4 DEF InHand, Pod
<1> QED BY <1>6, <1>7, <1>8, <1>9 DEF BotInv

-----------------------------------------------------------------------------
LEMMA BotInvBegins == BotsInit => BotInv
<1> SUFFICES ASSUME BotsInit PROVE BotInv
  OBVIOUS
<1>1. \A w \in Gophers: job[w].at = "idle" /\ job[w].bot = 0
  BY DEF BotsInit, Off
<1>2. BotTypes
  <2>1. ASSUME NEW w \in Gophers PROVE Off \in Jobs
    <3>1. Off.pod \in Pods
      BY PodsAssumption DEF Off
    <3> QED BY <3>1, BotBoundsAssumption DEF Off, Jobs, Requests, Maybe
  <2> QED BY <2>1, BotBoundsAssumption DEF BotsInit, BotTypes, Maybe
<1>3. HandsFull /\ SyncsHome /\ SeenRow /\ OneStarts
  BY <1>1 DEF HandsFull, SyncsHome, SeenRow, OneStarts
<1>4. NoStrayBot
  BY DEF BotsInit, NoStrayBot, Lives
<1> QED BY <1>2, <1>3, <1>4 DEF BotInv

\* A worker's step on the row, or from one stage to another.
LEMMA RowSteps ==
    ASSUME BotInv, NEW w \in Gophers, UpsertRow(w) \/ DeleteRow(w) \/ GetRow(w)
    PROVE  BotInv'
<1>1. /\ job[w] \in Jobs /\ job[w].bot = 0 /\ job[w].request.to \in Maybe
      /\ job[w].at \notin {"stop", "register"}
      /\ Off \in Jobs /\ Off.bot = 0 /\ Off.at = "idle"
  BY BotBoundsAssumption
  DEF UpsertRow, DeleteRow, GetRow, Does, BotInv, BotTypes, HandsFull, Jobs, Off, Requests, Maybe
<1>2. PICK x: x = job[w] /\ x \in Jobs
  BY <1>1
<1>3. CASE UpsertRow(w)
  <2>1. PICK at \in {"take", "get"}: Goes(w, at)
    BY <1>3 DEF UpsertRow
  <2> DEFINE j == [x EXCEPT !.at = at]
  <2>2. j \in Jobs /\ j.at = at /\ j.bot = 0
    BY <1>1, <1>2 DEF Jobs
  <2>3. job' = [job EXCEPT ![w] = j]
    BY <1>2, <2>1 DEF Goes, BotInv, BotTypes
  <2>4. integration' \in Maybe /\ UNCHANGED <<bots, alive, jostled>>
    BY <1>1, <1>3 DEF UpsertRow
  <2> HIDE DEF j
  <2> QED BY <1>1, <2>1, <2>2, <2>3, <2>4, EmptyHanded
<1>4. CASE DeleteRow(w)
  BY <1>1, <1>4, EmptyHanded DEF DeleteRow, Ends, Maybe
<1>5. CASE GetRow(w)
  <2>1. integration' \in Maybe /\ UNCHANGED <<bots, alive, jostled>>
    BY <1>5 DEF GetRow, BotInv, BotTypes
  <2>2. CASE Enabled(integration)
    <3> DEFINE j == [x EXCEPT !.at = "replace", !.seen = integration]
    <3>1. integration \in Integrations
      BY <2>2 DEF Enabled, BotInv, BotTypes, Maybe
    <3>2. j \in Jobs /\ j.at = "replace" /\ j.bot = 0 /\ j.seen \in Integrations
      BY <1>1, <1>2, <3>1 DEF Jobs, Maybe
    <3>3. job' = [job EXCEPT ![w] = j]
      BY <1>2, <1>5, <2>2 DEF GetRow, BotInv, BotTypes
    <3> HIDE DEF j
    <3> QED BY <1>1, <2>1, <3>2, <3>3, EmptyHanded
  <2>3. CASE ~Enabled(integration)
    BY <1>1, <1>5, <2>1, <2>3, EmptyHanded DEF GetRow, Ends
  <2> QED BY <2>2, <2>3
<1> QED BY <1>3, <1>4, <1>5

LEMMA SyncSteps == ASSUME BotInv, NEW p \in Pods, Sync(p) PROVE BotInv'
<1>0. p \in Gophers
  BY DEF Gophers
<1>1. /\ job[p] \in Jobs /\ job[p].bot = 0 /\ job[p].at \notin {"stop", "register"}
      /\ Off \in Jobs /\ Off.bot = 0 /\ Off.at = "idle"
  BY <1>0, BotBoundsAssumption
  DEF Sync, SyncFromDB, SyncStops, SyncStarts, Does, BotInv, BotTypes, HandsFull, Jobs, Off,
      Requests, Maybe
<1>2. PICK x: x = job[p] /\ x \in Jobs
  BY <1>1
<1>3. CASE SyncFromDB(p)
  <2> DEFINE j == [Off EXCEPT !.at = "sync", !.pod = p, !.seen = integration]
  <2>1. j \in Jobs /\ j.at = "sync" /\ j.bot = 0 /\ j.pod = p
    BY <1>1 DEF Jobs, BotInv, BotTypes
  <2>2. job' = [job EXCEPT ![p] = j]
    BY <1>3 DEF SyncFromDB
  <2>3. integration' \in Maybe /\ UNCHANGED <<bots, alive, jostled>>
    BY <1>3 DEF SyncFromDB, BotInv, BotTypes
  <2> HIDE DEF j
  <2> QED BY <1>0, <1>1, <2>1, <2>2, <2>3, EmptyHanded
<1>4. CASE SyncStops(p)
  <2>1. integration' \in Maybe /\ UNCHANGED <<bots, alive, jostled>>
    BY <1>4 DEF SyncStops, BotInv, BotTypes
  <2>2. CASE Ends(p)
    BY <1>0, <1>1, <2>1, <2>2, EmptyHanded DEF Ends
  <2>3. ASSUME NEW at \in {"check", "take"}, Goes(p, at), at = "check" => Enabled(job[p].seen)
        PROVE  BotInv'
    <3> DEFINE j == [x EXCEPT !.at = at]
    <3>1. j \in Jobs /\ j.at = at /\ j.bot = 0 /\ j.seen = job[p].seen /\ j.pod = job[p].pod
      BY <1>1, <1>2 DEF Jobs
    <3>2. at = "check" => j.seen \in Integrations
      BY <1>1, <2>3, <3>1 DEF Enabled, Jobs, Maybe
    <3>3. j.pod = p
      BY <1>0, <1>4, <3>1 DEF SyncStops, Does, BotInv, SyncsHome
    <3>4. job' = [job EXCEPT ![p] = j]
      BY <1>2, <2>3 DEF Goes, BotInv, BotTypes
    <3> HIDE DEF j
    <3> QED BY <1>0, <1>1, <2>1, <3>1, <3>2, <3>3, <3>4, EmptyHanded
  <2> QED BY <1>4, <2>2, <2>3 DEF SyncStops
<1>5. CASE SyncStarts(p)
  <2>1. UNCHANGED <<integration, bots, alive>>
    BY <1>5 DEF SyncStarts
  <2>2. CASE bots[p] = 0
    <3>1. job[p].pod = p /\ job[p].seen \in Integrations
      BY <1>0, <1>5 DEF SyncStarts, Does, BotInv, SyncsHome, SeenRow
    <3>2. \A b \in Ids: b # bots[p]
      BY <2>2, BotBoundsAssumption DEF Ids
    <3>3. WillLaunch(p)
      BY <1>5, <2>2 DEF SyncStarts
    <3>4. /\ bots' \in [Pods -> 0 .. MaxBots] /\ alive' \in [Pods -> [Ids -> Tokens \cup {NoTokens}]]
          /\ bots'[p] = 0 /\ \A q \in Pods: q # p => bots'[q] = bots[q] /\ alive'[q] = alive[q]
      BY <2>1, <2>2 DEF BotInv, BotTypes
    <3>5. \A b \in Ids: alive'[p][b] # NoTokens => alive[p][b] # NoTokens /\ b # bots[p]
      BY <2>1, <3>2
    <3> QED BY <1>0, <1>1, <2>1, <3>1, <3>3, <3>4, <3>5, ComesToStart
  <2>3. CASE bots[p] # 0
    <3>1. integration' \in Maybe /\ UNCHANGED <<bots, alive, jostled>> /\ Ends(p)
      BY <1>5, <2>1, <2>3 DEF SyncStarts, BotInv, BotTypes
    <3> QED BY <1>0, <1>1, <3>1, EmptyHanded DEF Ends
  <2> QED BY <2>2, <2>3
<1> QED BY <1>3, <1>4, <1>5 DEF Sync

\* The bot that is registered is stopped, and another started.
LEMMA Replaced == ASSUME BotInv, NEW w \in Gophers, Replace(w) PROVE BotInv'
<1> DEFINE p == job[w].pod
<1>1. p \in Pods /\ job[w].bot = 0 /\ job[w].seen \in Integrations /\ bots[p] \in 0 .. MaxBots
  BY DEF Replace, Does, BotInv, BotTypes, HandsFull, SeenRow, Jobs
<1>2. WillLaunch(w) /\ UNCHANGED integration
  BY DEF Replace
<1>3. /\ bots' \in [Pods -> 0 .. MaxBots]
      /\ bots'[p] = 0 /\ \A q \in Pods: q # p => bots'[q] = bots[q]
  BY <1>1, BotBoundsAssumption DEF Replace, Pod, BotInv, BotTypes
<1>4. /\ alive' \in [Pods -> [Ids -> Tokens \cup {NoTokens}]]
      /\ \A q \in Pods: q # p => alive'[q] = alive[q]
      /\ \A b \in Ids: alive'[p][b] # NoTokens => alive[p][b] # NoTokens /\ b # bots[p]
  BY <1>1, BotBoundsAssumption DEF Replace, Without, Pod, BotInv, BotTypes, Ids
<1> QED BY <1>1, <1>2, <1>3, <1>4, ComesToStart

LEMMA BotInvStep == BotInv /\ [BotsNext]_botVars => BotInv'
<1> SUFFICES ASSUME BotInv, [BotsNext]_botVars PROVE BotInv'
  OBVIOUS
<1>1. ASSUME NEW w \in Admins, NEW p \in Pods, NEW request \in Requests, Request(w, p, request)
      PROVE  BotInv'
  <2> DEFINE j == [at |-> IF request.does = "upsert" THEN "write" ELSE "take",
                   pod |-> p, request |-> request, seen |-> integration, bot |-> 0]
  <2>1. w \in Gophers
    BY DEF Gophers
  <2>2. j \in Jobs /\ j.at \in {"write", "take"} /\ j.bot = 0
    BY BotBoundsAssumption DEF Jobs, BotInv, BotTypes
  <2>3. job' = [job EXCEPT ![w] = j] /\ job[w].at = "idle"
    BY <1>1 DEF Request, Does
  <2>4. integration' \in Maybe /\ UNCHANGED <<bots, alive, jostled>>
    BY <1>1 DEF Request, BotInv, BotTypes
  <2> HIDE DEF j
  <2> QED BY <2>1, <2>2, <2>3, <2>4, EmptyHanded
<1>2. ASSUME NEW w \in Gophers, BotStep(w) PROVE BotInv'
  BY <1>2, RowSteps, TakenOut, Stopped, Replaced, Launched, Registered DEF BotStep
<1>3. ASSUME NEW p \in Pods, Sync(p) \/ RestartPod(p) PROVE BotInv'
  BY <1>3, SyncSteps, Restarted
<1>4. CASE UNCHANGED botVars
  BY <1>4 DEF botVars, BotInv, BotTypes, HandsFull, SyncsHome, SeenRow, OneStarts, NoStrayBot,
              Lives, InHand, Pod
<1> QED BY <1>1, <1>2, <1>3, <1>4 DEF BotsNext

\* The manager of slack/manager.go: a bot that is connected is registered on its
\* pod, or in the hands of a worker that still stops or registers it, unless
\* two workers of the pod started one at one time.
THEOREM BotsCanBeStopped == BotsSpec => []NoStrayBot
<1>1. BotInv => NoStrayBot
  BY DEF BotInv
<1> QED BY <1>1, BotInvBegins, BotInvStep, PTL DEF BotsSpec

-----------------------------------------------------------------------------
(* The writer of an answer.                                               *)

AnyDisplay == [from: Nat, upto: Nat, notice: BOOLEAN]
AnySnapshot == [to: Nat, upto: Nat, from: Nat, post: BOOLEAN, failed: BOOLEAN]
\* The types of what the argument is about, without the bounds.
WriterTypes ==
    /\ text \in Nat /\ offset \in Nat /\ lastSent \in Nat /\ rounds \in Nat
    /\ timerSet \in BOOLEAN /\ overflow \in BOOLEAN /\ lastError \in BOOLEAN /\ crossed \in BOOLEAN
    /\ messages \in Seq(AnyDisplay) /\ message \in Nat
    /\ sending \in [Senders -> AnySnapshot]
    /\ phase \in {"start", "stream", "finalize", "over"}
    /\ refusals \in 0 .. MaxRefusals

\* Nothing was written before the first message is posted; then the last one
\* is edited.
Posting ==
    /\ phase = "start" =>
        /\ text = 0 /\ lastSent = 0 /\ ~overflow /\ ~lastError /\ ~timerSet
        /\ \A s \in Senders: ~Sends(s)
    /\ phase # "start" => message = Len(messages) /\ message # 0
    /\ phase \in {"start", "stream"} => rounds > 0

\* One sender at a time sends what there is; Finalize sends all of it.
OneSends ==
    /\ \A r, s \in Senders: Sends(r) /\ Sends(s) => r = s
    /\ \A s \in Senders: Sends(s) =>
        /\ sending[s].to = message /\ sending[s].from = offset
        /\ sending[s].post = overflow /\ sending[s].upto <= text
        /\ sending[s].failed = (s = 0 /\ lastError)
        /\ sending[s].upto > offset \/ (s = 0 /\ lastError)
        /\ s = 0 => phase = "finalize" /\ sending[s].upto = text
    /\ phase \in {"finalize", "over"} => ~timerSet /\ \A s \in Senders: s # 0 => ~Sends(s)

\* What is sent fits; what does not is left for the next message.
Measures ==
    /\ offset <= lastSent /\ lastSent <= text /\ lastSent <= offset + MaxPieces
    /\ overflow => offset < text
    \* A round is left when it may be needed.
    /\ phase = "finalize" /\ ~Sends(0) /\ overflow => rounds > 0
    /\ phase = "finalize" /\ Sends(0) /\ ~overflow => rounds > 0

ShownIn(n, p) == \E m \in 1 .. n: messages[m].from < p /\ p <= messages[m].upto
Sent == phase = "over" \/ (phase = "finalize" /\ ~Sends(0) /\ ~overflow)
\* Without an error nothing that was sent is lost.
NothingLost ==
    /\ \A p \in 1 .. lastSent: ShownIn(Len(messages), p)
    /\ ~overflow => \A p \in 1 .. offset: ShownIn(Len(messages) - 1, p)
    /\ Sent => \A p \in 1 .. text: ShownIn(Len(messages), p)
\* With one the last message says so.
ErrorShown ==
    Sent \/ (phase = "stream" /\ text = 0) => messages[Len(messages)].notice

Orderly ==
    /\ Posting /\ OneSends /\ Measures
    /\ IF lastError THEN ErrorShown ELSE NothingLost

WriterInv == WriterTypes /\ (refusals = MaxRefusals /\ ~crossed => Orderly)

LEMMA WriterBegins == WriterInit => WriterInv
<1> SUFFICES ASSUME WriterInit PROVE WriterInv
  OBVIOUS
<1>1. WriterTypes
  <2>1. Idle \in AnySnapshot
    BY DEF Idle, AnySnapshot
  <2>2. sending \in [Senders -> AnySnapshot]
    BY <2>1 DEF WriterInit
  <2>3. refusals \in 0 .. MaxRefusals /\ messages \in Seq(AnyDisplay)
    BY WriterBoundsAssumption DEF WriterInit
  <2> QED BY <2>2, <2>3 DEF WriterInit, WriterTypes, FurtherRounds
<1>2. \A s \in Senders: ~Sends(s)
  BY DEF WriterInit, Sends, Idle
<1>3. Posting
  BY <1>2 DEF WriterInit, Posting, FurtherRounds
<1>4. OneSends
  BY <1>2 DEF WriterInit, OneSends
<1>5. Measures /\ NothingLost
  BY WriterBoundsAssumption DEF WriterInit, Measures, NothingLost, Sent
<1> QED BY <1>1, <1>3, <1>4, <1>5 DEF WriterInv, Orderly, WriterInit

LEMMA WriterTyped == WriterTypes /\ [WriterNext]_writerVars => WriterTypes'
<1> SUFFICES ASSUME WriterTypes, [WriterNext]_writerVars PROVE WriterTypes'
  OBVIOUS
<1>0. 0 \in Senders
  BY WriterBoundsAssumption DEF Senders
<1>1. ASSUME Refused \/ UNCHANGED refusals PROVE refusals' \in 0 .. MaxRefusals
  BY <1>1, WriterBoundsAssumption DEF Refused, WriterTypes
<1>2. ASSUME NEW s \in Senders, Send(s) \/ UNCHANGED <<sending, crossed>>
      PROVE  sending' \in [Senders -> AnySnapshot] /\ crossed' \in BOOLEAN
  <2>1. Snapshot(s) \in AnySnapshot
    BY DEF Snapshot, AnySnapshot, WriterTypes
  <2>2. sending' \in [Senders -> AnySnapshot]
    BY <1>2, <2>1 DEF Send, WriterTypes
  <2>3. crossed' \in BOOLEAN
    BY <1>2, Zenon DEF Send, WriterTypes
  <2> QED BY <2>2, <2>3
<1>3. \A s \in Senders: ShownBy(s) \in AnyDisplay
  BY DEF ShownBy, AnyDisplay, WriterTypes, AnySnapshot
<1>4. Blank \in AnyDisplay /\ [Blank EXCEPT !.notice = TRUE] \in AnyDisplay
  BY DEF Blank, AnyDisplay
<1>5. ASSUME NEW s \in Senders
      PROVE  [sending EXCEPT ![s] = Idle] \in [Senders -> AnySnapshot]
  BY DEF Idle, AnySnapshot, WriterTypes
<1>6. ASSUME NEW d \in AnyDisplay, NEW i
      PROVE  Append(messages, d) \in Seq(AnyDisplay) /\ [messages EXCEPT ![i] = d] \in Seq(AnyDisplay)
  <2>0. messages \in Seq(AnyDisplay)
    BY DEF WriterTypes
  <2>1. Append(messages, d) \in Seq(AnyDisplay)
    BY <2>0
  <2>2. CASE i \in 1 .. Len(messages)
    BY <2>0, <2>1, <2>2, ExceptSeq
  <2>3. CASE i \notin 1 .. Len(messages)
    <3>1. [messages EXCEPT ![i] = d] = messages
      BY <2>0, <2>3
    <3> QED BY <2>0, <2>1, <3>1
  <2> QED BY <2>2, <2>3
<1>7. CASE PostInitialMessage
  <2>1. messages' \in Seq(AnyDisplay) /\ message' \in Nat
    <3>1. PICK b \in AnyDisplay: b = Blank
      BY <1>4
    <3>2. <<b>> \in Seq(AnyDisplay)
      OBVIOUS
    <3>3. messages' = <<b>> \/ messages' = messages
      BY <1>7, <3>1 DEF PostInitialMessage
    <3>4. message' = 1 \/ message' = message
      BY <1>7 DEF PostInitialMessage
    <3>5. messages' \in Seq(AnyDisplay)
      BY <3>2, <3>3 DEF WriterTypes
    <3>6. message' \in Nat
      BY <3>4 DEF WriterTypes
    <3> QED BY <3>5, <3>6
  <2>2. refusals' \in 0 .. MaxRefusals
    BY <1>1, <1>7 DEF PostInitialMessage
  <2> QED BY <1>7, <2>1, <2>2 DEF PostInitialMessage, WriterTypes
<1>8. CASE WriteText
  BY <1>8 DEF WriteText, WriterTypes
<1>9. CASE WriteError
  BY <1>1, <1>4, <1>6, <1>9 DEF WriteError, WriterTypes
<1>10. CASE Finalize
  BY <1>0, <1>2, <1>10 DEF Finalize, WriterTypes, fieldVars
<1>11. CASE FinalizeAgain
  <2>1. sending' \in [Senders -> AnySnapshot] /\ crossed' \in BOOLEAN
    BY <1>0, <1>2, <1>11 DEF FinalizeAgain
  <2>2. rounds' \in Nat /\ phase' \in {"start", "stream", "finalize", "over"}
    BY <1>11 DEF FinalizeAgain, WriterTypes
  <2> QED BY <1>11, <2>1, <2>2 DEF FinalizeAgain, WriterTypes, fieldVars
<1>12. ASSUME NEW s \in Senders, TimerFires(s) PROVE WriterTypes'
  BY <1>2, <1>12 DEF TimerFires, WriterTypes, fieldVars
<1>13. ASSUME NEW s \in Senders, Posted(s) PROVE WriterTypes'
  BY <1>1, <1>3, <1>5, <1>6, <1>13 DEF Posted, WriterTypes, AnySnapshot
<1>14. ASSUME NEW s \in Senders, Updated(s) PROVE WriterTypes'
  BY <1>1, <1>3, <1>5, <1>6, <1>14 DEF Updated, FreezeMessage, WriterTypes, AnySnapshot
<1>15. CASE UNCHANGED writerVars
  BY <1>15 DEF writerVars, WriterTypes
<1> QED BY <1>7, <1>8, <1>9, <1>10, <1>11, <1>12, <1>13, <1>14, <1>15 DEF WriterNext

-----------------------------------------------------------------------------
LEMMA WriterTextComes ==
    ASSUME WriterTypes, Orderly, WriteText
    PROVE  Orderly'
<1>1. text' = text + 1 /\ phase = "stream" /\ timerSet' = TRUE
  BY DEF WriteText
<1>2. UNCHANGED <<messages, message, overflow, offset, lastSent, lastError, sending, phase, rounds>>
  BY DEF WriteText
<1>3. \A s \in Senders: Sends(s)' <=> Sends(s)
  BY <1>2 DEF Sends
<1>4. Posting'
  BY <1>1, <1>2, <1>3 DEF Orderly, Posting
<1>5. OneSends'
  BY <1>1, <1>2, <1>3 DEF Orderly, OneSends, WriterTypes, AnySnapshot
<1>6. Measures'
  BY <1>1, <1>2 DEF Orderly, Measures, WriterTypes
<1>7. lastError => ErrorShown'
  BY <1>1, <1>2 DEF ErrorShown, Sent, WriterTypes
<1>8. ~lastError => NothingLost'
  BY <1>1, <1>2 DEF Orderly, NothingLost, Sent, ShownIn
<1> QED BY <1>2, <1>4, <1>5, <1>6, <1>7, <1>8 DEF Orderly

LEMMA WriterFirst ==
    ASSUME WriterTypes, Orderly, PostInitialMessage, refusals' = refusals
    PROVE  Orderly'
<1>1. /\ phase = "start" /\ phase' = "stream" /\ messages' = <<Blank>> /\ message' = 1
      /\ UNCHANGED <<text, timerSet, overflow, offset, lastSent, lastError, sending, rounds>>
  BY DEF PostInitialMessage, Refused, WriterTypes
<1>2. /\ text = 0 /\ lastSent = 0 /\ ~overflow /\ ~lastError /\ ~timerSet /\ offset = 0 /\ rounds > 0
      /\ \A s \in Senders: ~Sends(s)
  BY <1>1 DEF Orderly, Posting, Measures, WriterTypes
<1>3. \A s \in Senders: ~Sends(s)'
  BY <1>1, <1>2 DEF Sends
<1>4. Posting' /\ OneSends'
  BY <1>1, <1>2, <1>3 DEF Posting, OneSends
<1>5. Measures' /\ NothingLost'
  BY <1>1, <1>2, WriterBoundsAssumption DEF Measures, NothingLost, Sent
<1> QED BY <1>1, <1>2, <1>4, <1>5 DEF Orderly

LEMMA WriterErrs ==
    ASSUME WriterTypes, Orderly, WriteError, refusals' = refusals
    PROVE  Orderly'
<1>1. /\ phase = "stream" /\ ~lastError /\ lastError' = TRUE
      /\ UNCHANGED <<text, timerSet, message, overflow, offset, lastSent, sending, phase, rounds>>
  BY DEF WriteError
<1>2. message = Len(messages) /\ message # 0 /\ message \in 1 .. Len(messages)
  BY <1>1 DEF Orderly, Posting, WriterTypes
<1>3. messages' = [messages EXCEPT ![message] = [Blank EXCEPT !.notice = TRUE]]
  BY <1>1, <1>2 DEF WriteError, Refused, WriterTypes
<1>4. PICK b \in AnyDisplay: b = [Blank EXCEPT !.notice = TRUE] /\ b.notice
  <2>1. [Blank EXCEPT !.notice = TRUE].notice
    BY DEF Blank
  <2>2. [Blank EXCEPT !.notice = TRUE] \in AnyDisplay
    BY DEF AnyDisplay, Blank
  <2> QED BY <2>1, <2>2
<1>5. Len(messages') = Len(messages) /\ messages'[message] = b
  BY <1>2, <1>3, <1>4, ExceptSeq DEF WriterTypes
<1>6. \A s \in Senders: Sends(s)' <=> Sends(s)
  BY <1>1 DEF Sends
<1>7. \A s \in Senders: Sends(s) => s # 0
  BY <1>1 DEF Orderly, OneSends
<1>8. Posting'
  BY <1>1, <1>2, <1>5 DEF Orderly, Posting
<1>9. OneSends'
  BY <1>1, <1>6, <1>7 DEF Orderly, OneSends
<1>10. Measures'
  BY <1>1 DEF Orderly, Measures
<1>11. ErrorShown'
  BY <1>2, <1>4, <1>5 DEF ErrorShown
<1> QED BY <1>1, <1>8, <1>9, <1>10, <1>11 DEF Orderly

\* A sending begins while no other is under way.
LEMMA WriterSends ==
    ASSUME WriterTypes, NEW s \in Senders, Send(s), ~crossed', sending' # sending
    PROVE  /\ message # 0 /\ text > 0 /\ (text > offset \/ (s = 0 /\ lastError))
           /\ sending' = [sending EXCEPT ![s] = Snapshot(s)]
           /\ \A r \in Senders: ~Sends(r)
           /\ sending'[s] = [to |-> message, upto |-> text, from |-> offset, post |-> overflow,
                             failed |-> s = 0 /\ lastError]
           /\ Sends(s)' /\ \A r \in Senders: r # s => ~Sends(r)'
<1>1. /\ message # 0 /\ text > 0 /\ (text > offset \/ (s = 0 /\ lastError))
      /\ sending' = [sending EXCEPT ![s] = Snapshot(s)]
      /\ \A r \in Senders: ~Sends(r)
  BY DEF Send, WriterTypes
<1>2. sending'[s] = Snapshot(s) /\ \A r \in Senders: r # s => sending'[r] = sending[r]
  BY <1>1 DEF WriterTypes
<1>3. sending'[s] = [to |-> message, upto |-> text, from |-> offset, post |-> overflow,
                     failed |-> s = 0 /\ lastError]
  BY <1>2 DEF Snapshot
<1>4. Sends(s)'
  BY <1>1, <1>3 DEF Sends
<1>5. \A r \in Senders: r # s => ~Sends(r)'
  BY <1>1, <1>2 DEF Sends
<1> QED BY <1>1, <1>3, <1>4, <1>5

LEMMA WriterTimer ==
    ASSUME WriterTypes, Orderly, NEW s \in Senders, TimerFires(s), ~crossed'
    PROVE  Orderly'
<1>1. /\ s # 0 /\ timerSet' = FALSE /\ timerSet /\ Send(s)
      /\ UNCHANGED <<text, message, overflow, offset, lastSent, lastError, messages, phase, rounds>>
  BY DEF TimerFires, fieldVars
<1>2. phase = "stream"
  BY <1>1 DEF Orderly, Posting, OneSends, WriterTypes
<1>3. CASE sending' = sending
  <2>1. \A r \in Senders: Sends(r)' <=> Sends(r)
    BY <1>3 DEF Sends
  <2>2. Posting' /\ OneSends'
    BY <1>1, <1>2, <1>3, <2>1 DEF Orderly, Posting, OneSends
  <2>3. Measures'
    BY <1>1, <1>2 DEF Orderly, Measures
  <2>4. lastError => ErrorShown'
    BY <1>1, <1>2 DEF Orderly, ErrorShown, Sent
  <2>5. ~lastError => NothingLost'
    BY <1>1, <1>2 DEF Orderly, NothingLost, Sent, ShownIn
  <2> QED BY <1>1, <2>2, <2>3, <2>4, <2>5 DEF Orderly
<1>4. CASE sending' # sending
  <2>1. /\ text > offset
        /\ sending'[s] = [to |-> message, upto |-> text, from |-> offset, post |-> overflow,
                             failed |-> s = 0 /\ lastError]
        /\ Sends(s)' /\ \A r \in Senders: r # s => ~Sends(r)'
    BY <1>1, <1>4, WriterSends
  <2>2. Posting'
    BY <1>1, <1>2 DEF Orderly, Posting
  <2>3. OneSends'
    BY <1>1, <1>2, <2>1 DEF OneSends, WriterTypes
  <2>4. Measures'
    BY <1>1, <1>2 DEF Orderly, Measures
  <2>5. lastError => ErrorShown'
    BY <1>1, <1>2 DEF Orderly, ErrorShown, Sent
  <2>6. ~lastError => NothingLost'
    BY <1>1, <1>2 DEF Orderly, NothingLost, Sent, ShownIn
  <2> QED BY <1>1, <2>2, <2>3, <2>4, <2>5, <2>6 DEF Orderly
<1> QED BY <1>3, <1>4

\* What a sender shows.
LEMMA WriterShows ==
    ASSUME WriterTypes, NEW s \in Senders, sending[s].from = offset,
           sending[s].failed = (s = 0 /\ lastError)
    PROVE  \E d \in AnyDisplay: /\ d = ShownBy(s) /\ d.from = offset /\ d.upto = sending[s].upto
                               /\ (s = 0 /\ lastError => d.notice)
<1>1. ShownBy(s) \in AnyDisplay
  BY DEF ShownBy, AnyDisplay, WriterTypes, AnySnapshot
<1>2. ShownBy(s).from = offset /\ ShownBy(s).upto = sending[s].upto
  BY DEF ShownBy
<1>3. ShownBy(s).notice = sending[s].failed
  BY DEF ShownBy
<1>4. s = 0 /\ lastError => ShownBy(s).notice
  BY <1>3, Zenon
<1> QED BY <1>1, <1>2, <1>4, Zenon

LEMMA WriterPosts ==
    ASSUME WriterTypes, Orderly, NEW s \in Senders, Posted(s), refusals' = refusals
    PROVE  Orderly'
<1>1. /\ Sends(s) /\ sending[s].post /\ sending' = [sending EXCEPT ![s] = Idle]
      /\ messages' = Append(messages, ShownBy(s)) /\ message' = Len(messages') /\ overflow' = FALSE
      /\ offset' = sending[s].from
      /\ UNCHANGED <<text, timerSet, lastSent, lastError, phase, rounds>>
  BY DEF Posted, Refused, WriterTypes
<1>2. /\ sending[s].from = offset /\ overflow
      /\ sending[s].failed = (s = 0 /\ lastError)
      /\ sending[s].upto \in Nat
      /\ s = 0 => phase = "finalize" /\ sending[s].upto = text
      /\ phase # "start"
      /\ phase \in {"finalize", "over"} => s = 0
      /\ sending[s].upto <= text /\ text \in Nat /\ offset \in Nat
      /\ sending[s].upto > offset \/ (s = 0 /\ lastError)
  BY <1>1 DEF Orderly, OneSends, Posting, WriterTypes, AnySnapshot
<1>3. \A r \in Senders: ~Sends(r)'
  BY <1>1 DEF Orderly, OneSends, Sends, Idle, WriterTypes
<1>4. PICK d \in AnyDisplay: d = ShownBy(s) /\ d.from = offset /\ d.upto = sending[s].upto
                             /\ (s = 0 /\ lastError => d.notice)
  BY <1>2, WriterShows, Zenon
<1>5. /\ Len(messages') = Len(messages) + 1 /\ messages'[Len(messages) + 1] = d
      /\ \A m \in 1 .. Len(messages): messages'[m] = messages[m]
      /\ Len(messages) \in Nat
  BY <1>1, <1>4 DEF WriterTypes
<1>6. Posting'
  BY <1>1, <1>2, <1>3, <1>5 DEF Orderly, Posting
<1>7. OneSends'
  BY <1>1, <1>3 DEF Orderly, OneSends
<1>8. Measures'
  BY <1>1, <1>2, <1>3, WriterBoundsAssumption DEF Orderly, Measures, Senders
<1>9. ASSUME lastError PROVE ErrorShown'
  <2>1. phase = "stream" => text > 0
    BY <1>2
  <2>2. phase # "stream" => s = 0 /\ phase = "finalize"
    BY <1>2 DEF WriterTypes
  <2>3. s = 0 => messages'[Len(messages')].notice
    BY <1>4, <1>5, <1>9
  <2> QED BY <1>1, <2>1, <2>2, <2>3 DEF ErrorShown, Sent, WriterTypes
<1>10. ASSUME ~lastError PROVE NothingLost'
  <2>1. \A p: ShownIn(Len(messages), p) => ShownIn(Len(messages), p)' /\ ShownIn(Len(messages) + 1, p)'
    BY <1>5 DEF ShownIn
  <2>2. offset <= lastSent /\ offset \in Nat /\ lastSent \in Nat
    BY DEF Orderly, Measures, WriterTypes
  <2>3. \A p \in 1 .. lastSent: ShownIn(Len(messages), p)
    BY <1>10 DEF Orderly, NothingLost
  <2>4. \A p \in 1 .. lastSent': ShownIn(Len(messages), p)'
    BY <1>1, <1>5, <2>1, <2>3
  <2>5. \A p \in 1 .. offset': ShownIn(Len(messages) - 1, p)'
    <3>1. Len(messages') - 1 = Len(messages)
      BY <1>5
    <3>2. \A p: ShownIn(Len(messages), p) => \E m \in 1 .. Len(messages):
                   messages'[m].from < p /\ p <= messages'[m].upto
      BY <1>5 DEF ShownIn
    <3>3. \A p \in 1 .. offset: ShownIn(Len(messages), p)
      BY <2>2, <2>3
    <3>4. offset' = offset
      BY <1>1, <1>2
    <3> QED BY <3>1, <3>2, <3>3, <3>4 DEF ShownIn
  <2>6. ASSUME Sent', NEW p \in 1 .. text' PROVE ShownIn(Len(messages), p)'
    <3>1. s = 0 /\ sending[s].upto = text
      BY <1>1, <1>2, <2>6 DEF Sent, WriterTypes
    <3>2. CASE p <= offset
      BY <1>5, <2>1, <2>2, <2>3, <2>6, <3>2
    <3>3. CASE p > offset
      BY <1>1, <1>4, <1>5, <2>6, <3>1, <3>3 DEF ShownIn
    <3> QED BY <2>2, <2>6, <3>2, <3>3
  <2> QED BY <2>4, <2>5, <2>6 DEF NothingLost
<1> QED BY <1>1, <1>6, <1>7, <1>8, <1>9, <1>10 DEF Orderly

LEMMA WriterUpdates ==
    ASSUME WriterTypes, Orderly, NEW s \in Senders, Updated(s), refusals' = refusals
    PROVE  Orderly'
<1> DEFINE length == sending[s].upto - sending[s].from
<1>1. /\ Sends(s) /\ ~sending[s].post /\ sending' = [sending EXCEPT ![s] = Idle]
      /\ UNCHANGED <<text, timerSet, message, lastError, phase, rounds>>
  BY DEF Updated
<1>2. /\ sending[s].from = offset /\ ~overflow /\ sending[s].to = message
      /\ sending[s].failed = (s = 0 /\ lastError)
      /\ sending[s].upto \in Nat /\ sending[s].upto <= text
      /\ s = 0 => phase = "finalize" /\ sending[s].upto = text
      /\ sending[s].upto > offset \/ (s = 0 /\ lastError)
      /\ phase # "start"
      /\ phase \in {"finalize", "over"} => s = 0
  BY <1>1 DEF Orderly, OneSends, Posting, WriterTypes, AnySnapshot
<1>3. \A r \in Senders: ~Sends(r)'
  BY <1>1 DEF Orderly, OneSends, Sends, Idle, WriterTypes
<1>4. PICK d \in AnyDisplay: d = ShownBy(s) /\ d.from = offset /\ d.upto = sending[s].upto
                             /\ (s = 0 /\ lastError => d.notice)
  BY <1>2, WriterShows, Zenon
<1>5. /\ offset \in Nat /\ lastSent \in Nat /\ text \in Nat
      /\ offset <= lastSent /\ lastSent <= text /\ lastSent <= offset + MaxPieces
      /\ MaxPieces \in Nat
      /\ phase = "finalize" => rounds > 0
  BY <1>1, <1>2, WriterBoundsAssumption DEF Orderly, Measures, WriterTypes
<1>6. message \in 1 .. Len(messages) /\ message = Len(messages)
  BY <1>2 DEF Orderly, Posting, WriterTypes
<1>7. phase = "stream" => text > 0
  BY <1>1, <1>2, <1>5
<1>8. offset <= sending[s].upto
  BY <1>2, <1>5
<1>9. CASE /\ length <= MaxPieces
           /\ messages' = [messages EXCEPT ![sending[s].to] = ShownBy(s)]
           /\ lastSent' = sending[s].upto
           /\ UNCHANGED <<overflow, offset>>
  <2>1. /\ Len(messages') = Len(messages) /\ messages'[message] = d
        /\ \A m \in 1 .. Len(messages) - 1: messages'[m] = messages[m]
        /\ Len(messages) \in Nat
    BY <1>2, <1>4, <1>6, <1>9, ExceptSeq DEF WriterTypes
  <2>2. Posting'
    BY <1>1, <1>2, <1>3, <1>6, <2>1 DEF Orderly, Posting
  <2>3. OneSends'
    BY <1>1, <1>3 DEF Orderly, OneSends
  <2>4. Measures'
    BY <1>1, <1>2, <1>3, <1>5, <1>8, <1>9, WriterBoundsAssumption DEF Measures, Senders
  <2>5. ASSUME lastError PROVE ErrorShown'
    <3>1. phase # "stream" => s = 0 /\ phase = "finalize"
      BY <1>2 DEF WriterTypes
    <3>2. s = 0 => messages'[Len(messages')].notice
      BY <1>4, <1>6, <2>1, <2>5
    <3> QED BY <1>1, <1>7, <3>1, <3>2 DEF ErrorShown, Sent, WriterTypes
  <2>6. ASSUME ~lastError PROVE NothingLost'
    <3>1. \A p \in 1 .. offset: ShownIn(Len(messages) - 1, p)
      BY <1>2, <2>6 DEF Orderly, NothingLost
    <3>2. \A p \in 1 .. offset: ShownIn(Len(messages) - 1, p)' /\ ShownIn(Len(messages), p)'
      <4> SUFFICES ASSUME NEW p \in 1 .. offset
                   PROVE  ShownIn(Len(messages) - 1, p)' /\ ShownIn(Len(messages), p)'
        OBVIOUS
      <4>1. PICK m \in 1 .. Len(messages) - 1: messages[m].from < p /\ p <= messages[m].upto
        BY <3>1 DEF ShownIn
      <4>2. messages'[m] = messages[m]
        BY <2>1
      <4>3. m \in 1 .. Len(messages') - 1 /\ m \in 1 .. Len(messages')
        BY <2>1
      <4> QED BY <4>1, <4>2, <4>3 DEF ShownIn
    <3>3. ASSUME NEW p \in 1 .. sending[s].upto PROVE ShownIn(Len(messages), p)'
      <4>1. CASE p <= offset
        BY <1>5, <3>2, <3>3, <4>1
      <4>2. CASE p > offset
        BY <1>4, <1>6, <2>1, <3>3, <4>2 DEF ShownIn
      <4> QED BY <1>2, <1>5, <3>3, <4>1, <4>2
    <3>4. Sent' => s = 0 /\ sending[s].upto = text
      BY <1>1, <1>2 DEF Sent, WriterTypes
    <3>5. \A p \in 1 .. offset': ShownIn(Len(messages) - 1, p)'
      BY <1>9, <2>1, <3>2
    <3> QED BY <1>1, <1>9, <3>3, <3>4, <3>5 DEF NothingLost
  <2> QED BY <1>1, <2>2, <2>3, <2>4, <2>5, <2>6 DEF Orderly
<1>10. CASE /\ length > MaxPieces /\ overflow' = TRUE /\ FreezeMessage(s)
            /\ UNCHANGED <<messages, lastSent>>
  <2>1. offset' = lastSent /\ lastSent < text
    BY <1>2, <1>5, <1>10 DEF FreezeMessage
  <2>2. Posting'
    BY <1>1, <1>2, <1>3, <1>10 DEF Orderly, Posting
  <2>3. OneSends'
    BY <1>1, <1>3 DEF Orderly, OneSends
  <2>4. Measures'
    BY <1>1, <1>3, <1>5, <1>10, <2>1 DEF Measures, Senders
  <2>5. ~Sent'
    BY <1>1, <1>2, <1>10 DEF Sent, WriterTypes
  <2>6. lastError => ErrorShown'
    BY <1>1, <1>7, <2>5 DEF ErrorShown
  <2>7. ~lastError => NothingLost'
    BY <1>10, <2>5 DEF Orderly, NothingLost, ShownIn
  <2> QED BY <1>1, <2>2, <2>3, <2>4, <2>6, <2>7 DEF Orderly
<1>11. ~Refused
  BY DEF Refused, WriterTypes
<1> QED BY <1>9, <1>10, <1>11 DEF Updated

LEMMA WriterFinalizes ==
    ASSUME WriterTypes, Orderly, Finalize, ~crossed'
    PROVE  Orderly'
<1>0. 0 \in Senders
  BY WriterBoundsAssumption DEF Senders
<1>1. /\ phase = "stream" /\ phase' = "finalize" /\ timerSet' = FALSE /\ Send(0)
      /\ UNCHANGED <<text, message, overflow, offset, lastSent, lastError, messages, rounds>>
  BY DEF Finalize, fieldVars
<1>2. ~Sends(0) /\ rounds > 0 /\ message # 0 /\ message = Len(messages)
  BY <1>0, <1>1 DEF Orderly, Posting, OneSends
<1>3. /\ offset \in Nat /\ lastSent \in Nat /\ text \in Nat /\ offset <= lastSent
      /\ overflow => offset < text
  BY DEF Orderly, Measures, WriterTypes
<1>4. Posting'
  BY <1>1, <1>2 DEF Posting
<1>5. Measures'
  BY <1>1, <1>2 DEF Orderly, Measures
<1>6. CASE sending' = sending
  <2>1. ~(text > 0 /\ (text > offset \/ lastError))
    <3>1. SUFFICES ASSUME text > 0, text > offset \/ lastError PROVE FALSE
      OBVIOUS
    <3>2. sending' = [sending EXCEPT ![0] = Snapshot(0)]
      BY <1>1, <1>2, <3>1 DEF Send
    <3>3. sending'[0].to = message
      BY <1>0, <3>2 DEF Snapshot, WriterTypes
    <3> QED BY <1>2, <1>6, <3>3 DEF Sends
  <2>2. \A r \in Senders: ~Sends(r)
    BY <1>0, <1>2, <1>3, <2>1 DEF Orderly, OneSends, WriterTypes, AnySnapshot
  <2>3. \A r \in Senders: ~Sends(r)'
    BY <1>6, <2>2 DEF Sends
  <2>4. OneSends'
    BY <1>1, <2>3 DEF OneSends
  <2>5. lastError => ErrorShown'
    BY <1>1, <1>3, <2>1 DEF Orderly, ErrorShown
  <2>6. ASSUME ~lastError PROVE NothingLost'
    <3>1. text <= lastSent
      BY <1>3, <2>1
    <3>2. \A p \in 1 .. text: ShownIn(Len(messages), p)
      BY <1>3, <2>6, <3>1 DEF Orderly, NothingLost
    <3> QED BY <1>1, <2>6, <3>2 DEF Orderly, NothingLost, ShownIn
  <2> QED BY <1>1, <1>4, <1>5, <2>4, <2>5, <2>6 DEF Orderly
<1>7. CASE sending' # sending
  <2>1. /\ text > offset \/ lastError
        /\ sending'[0] = [to |-> message, upto |-> text, from |-> offset, post |-> overflow,
                          failed |-> 0 = 0 /\ lastError]
        /\ Sends(0)' /\ \A r \in Senders: r # 0 => ~Sends(r)'
    BY <1>0, <1>1, <1>7, WriterSends
  <2>2. sending'[0].failed = lastError
    BY <2>1 DEF WriterTypes
  <2>3. OneSends'
    BY <1>1, <1>3, <2>1, <2>2 DEF OneSends
  <2>4. ~Sent'
    BY <1>1, <2>1 DEF Sent
  <2>5. lastError => ErrorShown'
    BY <1>1, <2>4 DEF ErrorShown
  <2>6. ~lastError => NothingLost'
    BY <1>1, <2>4 DEF Orderly, NothingLost, ShownIn
  <2> QED BY <1>1, <1>4, <1>5, <2>3, <2>5, <2>6 DEF Orderly
<1> QED BY <1>6, <1>7

LEMMA WriterFinalizesAgain ==
    ASSUME WriterTypes, Orderly, FinalizeAgain, ~crossed'
    PROVE  Orderly'
<1>0. 0 \in Senders
  BY WriterBoundsAssumption DEF Senders
<1>1. /\ phase = "finalize" /\ ~Sends(0)
      /\ UNCHANGED <<text, timerSet, message, overflow, offset, lastSent, lastError, messages>>
  BY DEF FinalizeAgain, fieldVars
<1>2. /\ message # 0 /\ message = Len(messages) /\ ~timerSet
      /\ \A r \in Senders: ~Sends(r)
  BY <1>1 DEF Orderly, Posting, OneSends
<1>3. /\ offset \in Nat /\ lastSent \in Nat /\ text \in Nat /\ rounds \in Nat
      /\ overflow => offset < text /\ rounds > 0
  BY <1>1 DEF Orderly, Measures, WriterTypes
<1>4. CASE overflow
  <2>1. rounds' = rounds - 1 /\ Send(0) /\ phase' = phase
    BY <1>3, <1>4 DEF FinalizeAgain
  <2>2. sending' = [sending EXCEPT ![0] = Snapshot(0)]
    BY <1>2, <1>3, <1>4, <2>1 DEF Send
  <2>3. sending' # sending
    <3>1. sending'[0].to = message
      BY <1>0, <2>2 DEF Snapshot, WriterTypes
    <3> QED BY <1>1, <1>2, <3>1 DEF Sends
  <2>4. /\ sending'[0] = [to |-> message, upto |-> text, from |-> offset, post |-> overflow,
                          failed |-> 0 = 0 /\ lastError]
        /\ Sends(0)' /\ \A r \in Senders: r # 0 => ~Sends(r)'
    BY <1>0, <2>1, <2>3, WriterSends
  <2>5. sending'[0].failed = lastError
    BY <2>4 DEF WriterTypes
  <2>6. Posting'
    BY <1>1, <1>2, <2>1 DEF Posting
  <2>7. OneSends'
    <3>1. phase' = "finalize" /\ ~timerSet' /\ text > offset /\ overflow' = overflow
      BY <1>1, <1>2, <1>3, <1>4, <2>1
    <3> QED BY <1>1, <1>3, <2>4, <2>5, <3>1 DEF OneSends
  <2>8. Measures'
    BY <1>1, <1>4, <2>1, <2>4 DEF Orderly, Measures
  <2>9. ~Sent'
    BY <1>1, <2>1, <2>4 DEF Sent
  <2>10. lastError => ErrorShown'
    BY <1>1, <2>1, <2>9 DEF ErrorShown
  <2>11. ~lastError => NothingLost'
    BY <1>1, <1>4, <2>9 DEF Orderly, NothingLost, ShownIn
  <2> QED BY <1>1, <2>6, <2>7, <2>8, <2>10, <2>11 DEF Orderly
<1>5. CASE ~overflow
  <2>1. phase' = "over" /\ UNCHANGED <<rounds, sending>>
    BY <1>5 DEF FinalizeAgain
  <2>2. \A r \in Senders: ~Sends(r)'
    BY <1>2, <2>1 DEF Sends
  <2>3. Sent
    BY <1>1, <1>5 DEF Sent
  <2>4. Posting' /\ OneSends'
    BY <1>1, <1>2, <2>1, <2>2 DEF Posting, OneSends
  <2>5. Measures'
    BY <1>1, <2>1 DEF Orderly, Measures
  <2>6. lastError => ErrorShown'
    BY <1>1, <2>3 DEF Orderly, ErrorShown
  <2>7. ~lastError => NothingLost'
    BY <1>1, <2>3 DEF Orderly, NothingLost, ShownIn
  <2> QED BY <1>1, <2>4, <2>5, <2>6, <2>7 DEF Orderly
<1> QED BY <1>4, <1>5

LEMMA WriterStays == Orderly /\ UNCHANGED writerVars => Orderly'
<1> SUFFICES ASSUME Orderly, UNCHANGED writerVars PROVE Orderly'
  OBVIOUS
<1>1. Posting'
  BY DEF Orderly, Posting, Sends, writerVars
<1>2. OneSends'
  BY DEF Orderly, OneSends, Sends, writerVars
<1>3. Measures'
  BY DEF Orderly, Measures, Sends, writerVars
<1>4. lastError => ErrorShown'
  BY DEF Orderly, ErrorShown, Sent, Sends, writerVars
<1>5. ~lastError => NothingLost'
  BY DEF Orderly, NothingLost, ShownIn, Sent, Sends, writerVars
<1> QED BY <1>1, <1>2, <1>3, <1>4, <1>5 DEF Orderly, writerVars

LEMMA WriterInvStep == WriterInv /\ [WriterNext]_writerVars => WriterInv'
<1> SUFFICES ASSUME WriterInv, [WriterNext]_writerVars PROVE WriterInv'
  OBVIOUS
<1>1. WriterTypes /\ WriterTypes'
  BY WriterTyped DEF WriterInv
<1>2. ASSUME refusals' = MaxRefusals, ~crossed' PROVE Orderly'
  <2>1. refusals' = refusals
    BY <1>1, <1>2 DEF WriterNext, writerVars, WriterTypes, Refused, PostInitialMessage, WriteText,
       WriteError, Finalize, FinalizeAgain, TimerFires, Posted, Updated
  <2>2. ~crossed
    BY <1>1, <1>2 DEF WriterNext, writerVars, WriterTypes, PostInitialMessage, WriteText,
       WriteError, Finalize, FinalizeAgain, TimerFires, Posted, Updated, Send
  <2>3. Orderly
    BY <1>2, <2>1, <2>2 DEF WriterInv
  <2>4. CASE WriteText
    BY <1>1, <2>3, <2>4, WriterTextComes
  <2>5. CASE PostInitialMessage
    BY <1>1, <2>1, <2>3, <2>5, WriterFirst
  <2>6. CASE WriteError
    BY <1>1, <2>1, <2>3, <2>6, WriterErrs
  <2>7. CASE Finalize
    BY <1>1, <1>2, <2>3, <2>7, WriterFinalizes
  <2>8. CASE FinalizeAgain
    BY <1>1, <1>2, <2>3, <2>8, WriterFinalizesAgain
  <2>9. ASSUME NEW s \in Senders, TimerFires(s) PROVE Orderly'
    BY <1>1, <1>2, <2>3, <2>9, WriterTimer
  <2>10. ASSUME NEW s \in Senders, Posted(s) PROVE Orderly'
    BY <1>1, <2>1, <2>3, <2>10, WriterPosts
  <2>11. ASSUME NEW s \in Senders, Updated(s) PROVE Orderly'
    BY <1>1, <2>1, <2>3, <2>11, WriterUpdates
  <2>12. CASE UNCHANGED writerVars
    BY <2>3, <2>12, WriterStays
  <2> QED BY <2>4, <2>5, <2>6, <2>7, <2>8, <2>9, <2>10, <2>11, <2>12 DEF WriterNext
<1> QED BY <1>1, <1>2 DEF WriterInv

LEMMA WriterInvShows == WriterInv => AllShown
<1> SUFFICES ASSUME WriterInv, phase = "over", refusals = MaxRefusals, ~crossed
             PROVE  IF lastError THEN messages[Len(messages)].notice ELSE Covered
  BY DEF AllShown
<1>1. Orderly /\ Sent
  BY DEF WriterInv, Sent
<1>2. CASE lastError
  BY <1>1, <1>2 DEF Orderly, ErrorShown
<1>3. ASSUME ~lastError PROVE Covered
  <2>1. DOMAIN messages = 1 .. Len(messages)
    BY DEF WriterInv, WriterTypes
  <2> QED BY <1>1, <1>3, <2>1 DEF Orderly, NothingLost, ShownIn, Covered
<1> QED BY <1>2, <1>3

\* The streamer of slack/streamer.go: when an answer is finished and Slack
\* refused nothing, its messages show all of its text, cut where a message
\* was too long, or its last message tells of the error.
THEOREM AnswersAreShown == WriterSpec => []AllShown
<1>1. WriterInit => WriterInv
  BY WriterBegins
<1>2. WriterInv /\ [WriterNext]_writerVars => WriterInv'
  BY WriterInvStep
<1>3. WriterInv => AllShown
  BY WriterInvShows
<1> QED BY <1>1, <1>2, <1>3, PTL DEF WriterSpec

-----------------------------------------------------------------------------
(* The types that the proofs above had no use for: the bounds.             *)

\* The bots.
SavesBounded == saves \in 0 .. MaxSaves /\ botTrouble \in 0 .. MaxBotTrouble

LEMMA SavesStep == SavesBounded /\ [BotsNext]_botVars => SavesBounded'
<1> SUFFICES ASSUME SavesBounded, [BotsNext]_botVars PROVE SavesBounded'
  OBVIOUS
<1>1. ASSUME UNCHANGED <<saves, botTrouble>> PROVE SavesBounded'
  BY <1>1 DEF SavesBounded
<1>2. ASSUME NEW w, NEW p, NEW request, Request(w, p, request) PROVE SavesBounded'
  <2>1. saves < MaxSaves /\ saves' = saves + 1 /\ botTrouble' = botTrouble
    BY <1>2 DEF Request
  <2> QED BY <2>1, BotBoundsAssumption DEF SavesBounded
<1>3. ASSUME NEW p, RestartPod(p) PROVE SavesBounded'
  <2>1. botTrouble > 0 /\ botTrouble' = botTrouble - 1 /\ saves' = saves
    BY <1>3 DEF RestartPod
  <2> QED BY <2>1, BotBoundsAssumption DEF SavesBounded
<1>4. ASSUME NEW w, BotStep(w) PROVE SavesBounded'
  BY <1>1, <1>4, Zenon
  DEF BotStep, UpsertRow, DeleteRow, TakeOut, StopTaken, GetRow, Replace, Launch, Register
<1>5. ASSUME NEW p, Sync(p) PROVE SavesBounded'
  BY <1>1, <1>5, Zenon DEF Sync, SyncFromDB, SyncStops, SyncStarts
<1>6. CASE UNCHANGED botVars
  BY <1>1, <1>6 DEF botVars
<1> QED BY <1>2, <1>3, <1>4, <1>5, <1>6, Zenon DEF BotsNext

LEMMA BotTypesHold == BotsSpec => []BotsTypeOK
<1>1. BotsInit => SavesBounded
  BY BotBoundsAssumption DEF BotsInit, SavesBounded
<1>2. BotInv /\ SavesBounded => BotsTypeOK
  BY DEF BotInv, BotTypes, SavesBounded, BotsTypeOK
<1> QED BY <1>1, <1>2, SavesStep, BotInvBegins, BotInvStep, PTL DEF BotsSpec

LEMMA LinkTypesHold == LinksSpec => []LinksTypeOK
<1>1. LinkInv => LinksTypeOK
  BY DEF LinkInv
<1> QED BY <1>1, LinkInvBegins, LinkInvStep, PTL DEF LinksSpec

-----------------------------------------------------------------------------
(* The thread: a handler asks once.                                        *)

Past == {h \in Handlers: turn[h].at \in {"store", "map", "over"}}
ThreadBounded ==
    /\ claims \subseteq Claims /\ linked \in BOOLEAN
    /\ \A key \in Claims: lapses[key] + slackTrouble <= MaxSlackTrouble
    /\ invited \subseteq Questions /\ published \subseteq Questions
    /\ agentSessions \subseteq Bots
    /\ slackTrouble \in 0 .. MaxSlackTrouble
    /\ \A q \in Questions: proxied[q] <= Cardinality(Past)

\* A step that asks no agent.
LEMMA BoundsKept ==
    ASSUME ThreadBounded, ClaimTypes, UNCHANGED <<asks, lapses, proxied>>, Past \subseteq Past',
           claims' \subseteq Claims, linked' \in BOOLEAN, invited' \subseteq Questions,
           published' \subseteq Questions, agentSessions' \subseteq Bots,
           Fails \/ UNCHANGED slackTrouble
    PROVE  ThreadBounded'
<1>1. slackTrouble' \in 0 .. MaxSlackTrouble
  BY SlackBoundsAssumption DEF ThreadBounded, Fails
<1>2. Past' \subseteq Handlers /\ Past \subseteq Handlers
  BY DEF Past
<1>3. Cardinality(Past) <= Cardinality(Past') /\ Cardinality(Past) \in Nat /\ Cardinality(Past') \in Nat
  BY <1>2, HandlersFinite
<1>4. \A q \in Questions: proxied'[q] <= Cardinality(Past')
  BY <1>3 DEF ThreadBounded, ClaimTypes
<1>5. \A key \in Claims: lapses'[key] + slackTrouble' <= MaxSlackTrouble
  <2>1. \A key \in Claims: lapses'[key] = lapses[key] /\ lapses[key] \in Nat
    BY DEF ClaimTypes
  <2>2. slackTrouble' <= slackTrouble /\ slackTrouble \in Nat /\ slackTrouble' \in Nat
    BY SlackBoundsAssumption DEF ThreadBounded, Fails
  <2> QED BY <2>1, <2>2, SlackBoundsAssumption DEF ThreadBounded
<1> QED BY <1>1, <1>4, <1>5 DEF ThreadBounded

\* Who is past asking stays so.
LEMMA StepPast ==
    ASSUME ClaimTypes, NEW h \in Handlers, NEW at \in Stages, Step(h, at),
           turn[h].at \in {"store", "map", "over"} => at \in {"store", "map", "over"}
    PROVE  Past \subseteq Past'
BY DEF ClaimTypes, Step, Quiet, Past, Turns

LEMMA BeginPast ==
    ASSUME ClaimTypes, NEW h \in Handlers, NEW begun, At(h, "idle"),
           turn' = [turn EXCEPT ![h] = begun]
    PROVE  Past \subseteq Past'
BY DEF ClaimTypes, Past, At

LEMMA HandlerBounded ==
    ASSUME ThreadBounded, ClaimTypes, NEW h \in Handlers,
           \/ Refuse(h) \/ EnsureThread(h) \/ SaveThread(h) \/ PersistQuestion(h)
           \/ ReadThread(h) \/ StoreReply(h)
    PROVE  ThreadBounded'
<1>1. PICK at \in Stages:
        Step(h, at) /\ (turn[h].at \in {"store", "map", "over"} => at \in {"store", "map", "over"})
  <2>1. CASE Refuse(h) \/ EnsureThread(h) \/ SaveThread(h)
    BY <2>1 DEF Refuse, EnsureThread, SaveThread, At, Stages
  <2>2. CASE PersistQuestion(h) \/ ReadThread(h)
    BY <2>2 DEF PersistQuestion, ReadThread, At, Stages
  <2>3. CASE StoreReply(h)
    <3>1. CASE turn[h].outcome = "complete"
      BY <2>3, <3>1 DEF StoreReply, Stages
    <3>2. CASE turn[h].outcome # "complete"
      BY <2>3, <3>2 DEF StoreReply, Stages
    <3> QED BY <3>1, <3>2
  <2> QED BY <2>1, <2>2, <2>3
<1>2. UNCHANGED <<asks, claims, lapses, linked, invited, published, proxied, agentSessions>>
  BY Zenon DEF Refuse, EnsureThread, SaveThread, PersistQuestion, ReadThread, StoreReply
<1>3. Fails \/ UNCHANGED slackTrouble
  BY Zenon DEF Refuse, EnsureThread, SaveThread, PersistQuestion, ReadThread, StoreReply
<1>4. Past \subseteq Past'
  BY <1>1, StepPast
<1> QED BY <1>2, <1>3, <1>4, BoundsKept DEF ThreadBounded

LEMMA ClaimBounded ==
    ASSUME ThreadBounded, ClaimTypes, NEW h \in Handlers, NEW q \in Questions, NEW key \in Claims,
           At(h, "idle"), TryClaim(h, q, key) \/ ClaimUnanswered(h, q),
           UNCHANGED <<asks, lapses, linked, invited, published, proxied, agentSessions>>
    PROVE  ThreadBounded'
<1>1. claims' \subseteq Claims /\ (Fails \/ UNCHANGED slackTrouble)
  BY DEF TryClaim, ClaimUnanswered, ThreadBounded
<1>2. PICK begun: turn' = [turn EXCEPT ![h] = begun]
  BY DEF TryClaim, ClaimUnanswered
<1>3. Past \subseteq Past'
  BY <1>2, BeginPast
<1> QED BY <1>1, <1>3, BoundsKept DEF ThreadBounded

LEMMA AuthoriseBounded ==
    ASSUME ThreadBounded, ClaimTypes, NEW h \in Handlers, Authorise(h)
    PROVE  ThreadBounded'
<1>1. Of(h) \in Questions /\ turn[h].at = "authorise"
  BY DEF ClaimTypes, Turns, Of, Authorise, At
<1>2. /\ linked' \in BOOLEAN /\ invited' \subseteq Questions
      /\ UNCHANGED <<asks, claims, lapses, published, proxied, agentSessions>>
      /\ Fails \/ UNCHANGED slackTrouble
  <2>1. CASE linked /\ Step(h, "ask") /\ UNCHANGED <<linked, invited, slackTrouble>>
    BY <2>1 DEF Authorise, ThreadBounded
  <2>2. CASE /\ IF linked THEN Fails ELSE UNCHANGED slackTrouble
             /\ linked' = FALSE /\ invited' = invited \cup {Of(h)}
    BY <1>1, <2>2 DEF Authorise, ThreadBounded
  <2> QED BY <2>1, <2>2 DEF Authorise
<1>3. PICK at \in Stages: Step(h, at)
  BY DEF Authorise, Stages
<1>4. Past \subseteq Past'
  BY <1>1, <1>3, StepPast
<1> QED BY <1>2, <1>4, BoundsKept DEF ThreadBounded

LEMMA MapBounded ==
    ASSUME ThreadBounded, ClaimTypes, NEW h \in Handlers, MapAgentSession(h)
    PROVE  ThreadBounded'
<1>1. BotOf(h) \in Bots
  BY DEF ClaimTypes, Turns, Of, BotOf
<1>2. agentSessions' \subseteq Bots /\ (Fails \/ UNCHANGED slackTrouble)
  BY <1>1 DEF MapAgentSession, ThreadBounded
<1>3. Past \subseteq Past'
  BY StepPast DEF MapAgentSession, Stages
<1>4. UNCHANGED <<asks, claims, lapses, linked, invited, published, proxied>>
  BY DEF MapAgentSession
<1> QED BY <1>2, <1>3, <1>4, BoundsKept DEF ThreadBounded

\* The agent is asked by a handler that was not past it, and is then.
LEMMA AskBounded ==
    ASSUME ThreadBounded, ClaimTypes, NEW h \in Handlers, AskAgent(h)
    PROVE  ThreadBounded'
<1>1. PICK o \in {"complete", "errored", "broken"}:
        turn' = [turn EXCEPT ![h].at = "store", ![h].outcome = o]
  BY DEF AskAgent
<1>2. Past' = Past \cup {h} /\ h \notin Past /\ Past \subseteq Handlers
  BY <1>1 DEF Past, AskAgent, At, ClaimTypes, Turns
<1>3. Cardinality(Past') = Cardinality(Past) + 1 /\ Cardinality(Past) \in Nat
  BY <1>2, HandlersFinite
<1>4. \A q \in Questions: proxied'[q] <= proxied[q] + 1 /\ proxied[q] \in Nat /\ proxied'[q] \in Nat
  BY DEF AskAgent, ClaimTypes
<1>5. \A q \in Questions: proxied'[q] <= Cardinality(Past')
  BY <1>3, <1>4 DEF ThreadBounded
<1>6. slackTrouble' \in 0 .. MaxSlackTrouble
  <2>1. Fails \/ UNCHANGED slackTrouble
    BY DEF AskAgent
  <2> QED BY <2>1, SlackBoundsAssumption DEF ThreadBounded, Fails
<1>7. UNCHANGED <<claims, lapses, linked, invited, published, agentSessions>>
  BY DEF AskAgent
<1>8. \A key \in Claims: lapses'[key] + slackTrouble' <= MaxSlackTrouble
  <2>1. \A key \in Claims: lapses'[key] = lapses[key] /\ lapses[key] \in Nat
    BY <1>7 DEF ClaimTypes
  <2>2. slackTrouble' <= slackTrouble /\ slackTrouble \in Nat /\ slackTrouble' \in Nat
    BY SlackBoundsAssumption DEF AskAgent, ThreadBounded, Fails
  <2> QED BY <2>1, <2>2, SlackBoundsAssumption DEF ThreadBounded
<1> QED BY <1>5, <1>6, <1>7, <1>8 DEF ThreadBounded

LEMMA ThreadBoundedStep == ClaimTypes /\ ThreadBounded /\ [SlackNext]_slackVars => ThreadBounded'
<1> SUFFICES ASSUME ClaimTypes, ThreadBounded, [SlackNext]_slackVars PROVE ThreadBounded'
  OBVIOUS
<1>1. ASSUME NEW q \in Questions, NEW h \in Handlers, Receive(h, q) PROVE ThreadBounded'
  <2>1. OwnKey(q) \in Claims
    BY DEF OwnKey, Claims
  <2> QED BY <1>1, <2>1, ClaimBounded DEF Receive, Starts
<1>2. ASSUME NEW q \in Questions, NEW h \in Handlers, Reprocess(h, q) PROVE ThreadBounded'
  <2>1. ReprocessKey(q) \in Claims
    BY DEF ReprocessKey, Claims, ClaimTypes
  <2> QED BY <1>2, <2>1, ClaimBounded DEF Reprocess, Starts
<1>3. CASE Unlink \/ \E q \in Questions: LinkAccount(q)
  <2>1. /\ UNCHANGED <<asks, claims, lapses, invited, turn, proxied, agentSessions>>
        /\ linked' \in BOOLEAN /\ published' \subseteq Questions
        /\ Fails \/ UNCHANGED slackTrouble
    BY <1>3 DEF Unlink, LinkAccount, ThreadBounded
  <2>2. Past \subseteq Past'
    BY <2>1 DEF Past
  <2> QED BY <2>1, <2>2, BoundsKept DEF ThreadBounded
<1>4. ASSUME NEW h \in Handlers, HandleMessage(h) PROVE ThreadBounded'
  BY <1>4, HandlerBounded, AuthoriseBounded, MapBounded, AskBounded DEF HandleMessage
<1>5. ASSUME NEW key \in Claims, ClaimLapses(key) PROVE ThreadBounded'
  <2>1. /\ UNCHANGED <<linked, invited, published, turn, proxied, agentSessions>>
        /\ claims' \subseteq claims /\ Fails /\ lapses' = [lapses EXCEPT ![key] = @ + 1]
    BY <1>5 DEF ClaimLapses
  <2>2. Past' = Past
    BY <2>1 DEF Past
  <2>3. slackTrouble' \in 0 .. MaxSlackTrouble /\ slackTrouble' = slackTrouble - 1
    BY <2>1, SlackBoundsAssumption DEF ThreadBounded, Fails
  <2>4. ASSUME NEW k \in Claims PROVE lapses'[k] + slackTrouble' <= MaxSlackTrouble
    <3>1. lapses[k] \in Nat /\ lapses'[k] \in Nat /\ lapses'[k] <= lapses[k] + 1
      BY <2>1 DEF ClaimTypes
    <3>2. lapses[k] + slackTrouble <= MaxSlackTrouble /\ slackTrouble \in Nat
      BY SlackBoundsAssumption DEF ThreadBounded
    <3> QED BY <2>3, <3>1, <3>2, SlackBoundsAssumption
  <2> QED BY <2>1, <2>2, <2>3, <2>4 DEF ThreadBounded
<1>6. CASE UNCHANGED slackVars
  <2>1. UNCHANGED <<asks, claims, lapses, linked, invited, published, turn, proxied,
                   agentSessions, slackTrouble>>
    BY <1>6 DEF slackVars
  <2>2. Past \subseteq Past'
    BY <2>1 DEF Past
  <2> QED BY <2>1, <2>2, BoundsKept DEF ThreadBounded
<1> QED BY <1>1, <1>2, <1>3, <1>4, <1>5, <1>6 DEF SlackNext

LEMMA ThreadTypesHold == SlackThreadSpec => []SlackTypeOK
<1>1. SlackInit => ThreadBounded /\ DocumentTypes
  <2> SUFFICES ASSUME SlackInit PROVE ThreadBounded /\ DocumentTypes
    OBVIOUS
  <2>1. Cardinality(Past) \in Nat
    BY HandlersFinite DEF Past
  <2>2. DocumentTypes
    BY DEF SlackInit, DocumentTypes, EmptyDocument, Documents
  <2> QED BY <2>1, <2>2, SlackBoundsAssumption DEF SlackInit, ThreadBounded
<1>2. ThreadInv => ClaimTypes
  BY DEF ThreadInv
<1>3. ClaimTypes /\ DocumentTypes /\ ThreadBounded => SlackTypeOK
  <2> SUFFICES ASSUME ClaimTypes, DocumentTypes, ThreadBounded PROVE SlackTypeOK
    OBVIOUS
  <2>1. Cardinality(Past) \in Nat /\ Cardinality(Past) <= MaxHandlers
    BY HandlersFinite DEF Past
  <2>2. ASSUME NEW q \in Questions PROVE proxied[q] \in 0 .. MaxHandlers
    <3>1. proxied[q] \in Nat
      BY DEF ClaimTypes
    <3>2. proxied[q] <= Cardinality(Past)
      BY DEF ThreadBounded
    <3> QED BY <2>1, <3>1, <3>2, SlackBoundsAssumption
  <2>3. proxied \in [Questions -> 0 .. MaxHandlers]
    BY <2>2 DEF ClaimTypes
  <2>4. lapses \in [Claims -> 0 .. MaxSlackTrouble]
    <3>1. ASSUME NEW key \in Claims PROVE lapses[key] \in 0 .. MaxSlackTrouble
      <4>1. lapses[key] \in Nat
        BY DEF ClaimTypes
      <4> QED BY <4>1, SlackBoundsAssumption DEF ThreadBounded
    <3> QED BY <3>1 DEF ClaimTypes
  <2> QED BY <2>3, <2>4 DEF ClaimTypes, DocumentTypes, ThreadBounded, SlackTypeOK
<1> QED
  BY <1>1, <1>2, <1>3, DocumentsTyped, ThreadBoundedStep, ThreadInvariant, PTL DEF SlackThreadSpec

-----------------------------------------------------------------------------
(* The writer: the messages there may come to be.                          *)

\* Timer goroutines that call Slack.
Timers == {s \in Senders: s # 0 /\ Sends(s)}
\* What may yet become a message: what timers send, a message too long, which is
\* in the hands of Finalize or of the next sender, a timer, the end and the
\* beginning.  Each piece of text makes room for one message.
TooLong == IF overflow \/ Sends(0) THEN 1 ELSE 0
Ticking == IF timerSet THEN 1 ELSE 0
NotEnded == IF phase \in {"start", "stream"} THEN 1 ELSE 0
NotBegun == IF phase = "start" THEN 1 ELSE 0
Load == Len(messages) + Cardinality(Timers) + TooLong + Ticking + NotEnded + NotBegun
Room(n) == Load + n <= text + 2

\* A snapshot is of the text and the messages there are.
Within(d) == d.from <= MaxText /\ d.upto <= MaxText
Taken(s) == sending[s].to <= Len(messages) /\ Within(sending[s])
WriterBounded ==
    /\ text <= MaxText /\ offset <= MaxText /\ lastSent <= MaxText /\ rounds <= FurtherRounds
    /\ message <= Len(messages)
    /\ \A i \in 1 .. Len(messages): Within(messages[i])
    /\ \A s \in Senders: Taken(s)
    /\ Room(0)
    \* Where no message was posted, none is edited; an error is posted once.
    /\ message = 0 => (\A s \in Senders: ~Sends(s)) /\ (phase # "start" /\ ~lastError => Room(1))
    /\ phase = "start" => ~lastError /\ message = 0

LEMMA TimersFinite ==
    /\ \A S \in SUBSET Senders: IsFiniteSet(S) /\ Cardinality(S) \in Nat
    /\ Timers \subseteq Senders
<1>1. IsFiniteSet(Senders)
  BY WriterBoundsAssumption, FS_Interval DEF Senders
<1> QED BY <1>1, FS_Subset, FS_CardinalityType DEF Timers

\* A sender may begin to call Slack, for a message that is there.
LEMMA SendTimers ==
    ASSUME WriterTypes, NEW s \in Senders, ~Sends(s), Send(s) \/ UNCHANGED <<sending, crossed>>
    PROVE  /\ \A r \in Senders \ {s}: sending'[r] = sending[r] /\ Sends(r)' = Sends(r)
           /\ sending'[s] = sending[s] \/ (message # 0 /\ sending'[s] = Snapshot(s))
           /\ Cardinality(Timers') <= Cardinality(Timers) + (IF s = 0 THEN 0 ELSE 1)
<1>1. /\ \A r \in Senders \ {s}: sending'[r] = sending[r]
      /\ sending'[s] = sending[s] \/ (message # 0 /\ sending'[s] = Snapshot(s))
  BY DEF WriterTypes, Send
<1>2. \A r \in Senders \ {s}: Sends(r)' = Sends(r)
  BY <1>1 DEF Sends
<1>3. CASE s = 0
  <2>1. Timers' = Timers
    BY <1>2, <1>3 DEF Timers
  <2> QED BY <1>1, <1>2, <1>3, <2>1, TimersFinite
<1>4. CASE s # 0
  <2>1. Timers' \subseteq Timers \cup {s} /\ Timers \cup {s} \subseteq Senders /\ s \notin Timers
    BY <1>2 DEF Timers
  <2>2. IsFiniteSet(Timers) /\ IsFiniteSet(Timers \cup {s}) /\ Cardinality(Timers) \in Nat
    BY <2>1, TimersFinite
  <2>3. Cardinality(Timers \cup {s}) = Cardinality(Timers) + 1
    BY <2>1, <2>2, FS_AddElement
  <2>4. Cardinality(Timers') <= Cardinality(Timers \cup {s})
    BY <2>1, <2>2, FS_Subset
  <2> QED BY <1>1, <1>2, <1>4, <2>3, <2>4
<1> QED BY <1>3, <1>4

\* A call that ends.
LEMMA IdleTimers ==
    ASSUME WriterTypes, NEW s \in Senders, Sends(s), sending' = [sending EXCEPT ![s] = Idle]
    PROVE  /\ \A r \in Senders \ {s}: sending'[r] = sending[r]
           /\ sending'[s] = Idle /\ ~Sends(s)'
           /\ s # 0 => Sends(0)' = Sends(0)
           /\ Cardinality(Timers) = Cardinality(Timers') + (IF s = 0 THEN 0 ELSE 1)
<1>0. 0 \in Senders
  BY WriterBoundsAssumption DEF Senders
<1>1. /\ \A r \in Senders \ {s}: sending'[r] = sending[r] /\ Sends(r)' = Sends(r)
      /\ sending'[s] = Idle /\ ~Sends(s)'
  BY DEF WriterTypes, Sends, Idle
<1>2. CASE s = 0
  <2>1. Timers' = Timers
    BY <1>1, <1>2 DEF Timers
  <2> QED BY <1>1, <1>2, <2>1, TimersFinite
<1>3. CASE s # 0
  <2>1. Timers' = Timers \ {s} /\ s \in Timers /\ Timers' \subseteq Senders
    BY <1>1, <1>3 DEF Timers
  <2>2. IsFiniteSet(Timers) /\ Cardinality(Timers) \in Nat
    BY TimersFinite
  <2>3. Cardinality(Timers') = Cardinality(Timers) - 1
    BY <2>1, <2>2, FS_RemoveElement
  <2> QED BY <1>0, <1>1, <1>3, <2>2, <2>3
<1> QED BY <1>2, <1>3

LEMMA BoundedBegins == WriterInit => WriterBounded
<1> SUFFICES ASSUME WriterInit PROVE WriterBounded
  OBVIOUS
<1>1. \A s \in Senders: ~Sends(s) /\ Taken(s)
  BY WriterBoundsAssumption DEF WriterInit, Sends, Idle, Taken, Within
<1>2. Timers = {} /\ Cardinality(Timers) = 0
  BY <1>1, FS_EmptySet DEF Timers
<1>3. ~Sends(0)
  BY <1>1, WriterBoundsAssumption DEF Senders
<1>4. Room(0)
  <2>1. Len(messages) = 0 /\ TooLong = 0 /\ Ticking = 0 /\ NotEnded = 1 /\ NotBegun = 1 /\ text = 0
    BY <1>3 DEF WriterInit, TooLong, Ticking, NotEnded, NotBegun
  <2>2. Load = 2
    BY <1>2, <2>1 DEF Load
  <2> QED BY <2>1, <2>2 DEF Room
<1> QED BY <1>1, <1>4, WriterBoundsAssumption DEF WriterInit, WriterBounded, FurtherRounds

\* What the counting needs to know of the types.
LEMMA Counts ==
    ASSUME WriterTypes
    PROVE  /\ Len(messages) \in Nat /\ Cardinality(Timers) \in Nat /\ text \in Nat
           /\ MaxText \in Nat /\ message \in Nat
           /\ \A s \in Senders: sending[s].to \in Nat /\ (Sends(s) <=> sending[s].to > 0)
           /\ 0 \in Senders
BY TimersFinite, WriterBoundsAssumption DEF WriterTypes, AnySnapshot, Sends, Senders

LEMMA LoadIs ==
    ASSUME WriterTypes
    PROVE  \E l, c, w, k, e, b \in Nat:
        /\ l = Len(messages) /\ c = Cardinality(Timers)
        /\ w = TooLong /\ k = Ticking /\ e = NotEnded /\ b = NotBegun
        /\ Load = l + c + w + k + e + b
<1>1. PICK l, c \in Nat: l = Len(messages) /\ c = Cardinality(Timers)
  BY Counts
<1>2. PICK w, k, e, b \in Nat: w = TooLong /\ k = Ticking /\ e = NotEnded /\ b = NotBegun
  BY DEF TooLong, Ticking, NotEnded, NotBegun
<1>3. Load = l + c + w + k + e + b
  BY <1>1, <1>2 DEF Load
<1> QED BY <1>1, <1>2, <1>3

LEMMA LoadIsNext ==
    ASSUME WriterTypes'
    PROVE  \E l, c, w, k, e, b \in Nat:
        /\ l = Len(messages') /\ c = Cardinality(Timers')
        /\ w = TooLong' /\ k = Ticking' /\ e = NotEnded' /\ b = NotBegun'
        /\ Load' = l + c + w + k + e + b
<1>0. Timers' \subseteq Senders /\ Cardinality(Timers') \in Nat
  <2>1. Timers' \in SUBSET Senders
    BY DEF Timers
  <2> QED BY <2>1, TimersFinite
<1>1. PICK l, c \in Nat: l = Len(messages') /\ c = Cardinality(Timers')
  BY <1>0 DEF WriterTypes
<1>2. PICK w, k, e, b \in Nat: w = TooLong' /\ k = Ticking' /\ e = NotEnded' /\ b = NotBegun'
  BY DEF TooLong, Ticking, NotEnded, NotBegun
<1>3. Load' = l + c + w + k + e + b
  BY <1>1, <1>2 DEF Load
<1> QED BY <1>1, <1>2, <1>3

LEMMA LoadIsNumber ==
    ASSUME WriterTypes, WriterTypes'
    PROVE  Load \in Nat /\ Load' \in Nat /\ text \in Nat /\ text' \in Nat
<1>1. Load \in Nat
  <2>1. PICK l, c, w, k, e, b \in Nat: Load = l + c + w + k + e + b
    BY LoadIs
  <2> QED BY <2>1
<1>2. Load' \in Nat
  <2>1. PICK l, c, w, k, e, b \in Nat: Load' = l + c + w + k + e + b
    BY LoadIsNext
  <2> QED BY <2>1
<1> QED BY <1>1, <1>2 DEF WriterTypes

\* Where the load does not grow beyond the text, room is kept.
LEMMA RoomKept ==
    ASSUME WriterTypes, WriterTypes', NEW n \in 0 .. 1, NEW m \in 0 .. 1, Room(n),
           Load' + text + m <= Load + text' + n
    PROVE  Room(m)'
<1>1. PICK l, t, u, v \in Nat: l = Load /\ t = text /\ u = Load' /\ v = text'
  BY LoadIsNumber
<1>2. l + n <= t + 2
  BY <1>1 DEF Room
<1>3. u + t + m <= l + v + n
  BY <1>1
<1>4. u + m <= v + 2
  BY <1>2, <1>3
<1> QED BY <1>1, <1>4 DEF Room

LEMMA RoomStays ==
    ASSUME WriterTypes, WriterTypes', Load' + text <= Load + text'
    PROVE  (Room(0) => Room(0)') /\ (Room(1) => Room(1)')
<1>1. PICK l, t, u, v \in Nat: l = Load /\ t = text /\ u = Load' /\ v = text'
  BY LoadIsNumber
<1>2. u + t <= l + v
  BY <1>1
<1>3. \A n \in 0 .. 1: Load' + text + n <= Load + text' + n
  <2>1. \A n \in 0 .. 1: u + t + n <= l + v + n
    BY <1>2
  <2> QED BY <1>1, <2>1
<1> QED BY <1>3, RoomKept

LEMMA SameText ==
    ASSUME WriterTypes, WriterTypes', text' = text, Load' <= Load
    PROVE  (Room(0) => Room(0)') /\ (Room(1) => Room(1)')
<1>1. PICK u, v, t \in Nat: u = Load' /\ v = Load /\ t = text /\ text' = t
  BY LoadIsNumber
<1>2. u <= v
  BY <1>1
<1>3. u + t <= v + t
  BY <1>2
<1> QED BY <1>1, <1>3, RoomStays

\* A snapshot that is taken is within what there is.
LEMMA SnapshotTaken ==
    ASSUME WriterTypes, WriterTypes', WriterBounded, UNCHANGED <<text, message, offset, messages>>,
           NEW s \in Senders, ~Sends(s), Send(s) \/ UNCHANGED <<sending, crossed>>
    PROVE  /\ \A r \in Senders: Taken(r)'
           /\ message = 0 => \A r \in Senders: ~Sends(r)'
<1>1. /\ \A r \in Senders \ {s}: sending'[r] = sending[r] /\ Sends(r)' = Sends(r)
      /\ sending'[s] = sending[s] \/ (message # 0 /\ sending'[s] = Snapshot(s))
  BY SendTimers
<1>2. ASSUME NEW r \in Senders, sending'[r] = sending[r] PROVE Taken(r)' /\ Sends(r)' = Sends(r)
  BY <1>2 DEF Taken, Within, Sends, WriterBounded
<1>3. ASSUME sending'[s] = Snapshot(s) PROVE Taken(s)'
  BY <1>3 DEF Snapshot, Taken, Within, WriterBounded
<1> QED BY <1>1, <1>2, <1>3 DEF WriterBounded

LEMMA FiresBounded ==
    ASSUME WriterTypes, WriterTypes', WriterBounded, NEW s \in Senders, TimerFires(s)
    PROVE  WriterBounded'
<1>1. /\ \A r \in Senders: Taken(r)'
      /\ message = 0 => \A r \in Senders: ~Sends(r)'
  BY SnapshotTaken DEF TimerFires, fieldVars
<1>2. /\ Cardinality(Timers') <= Cardinality(Timers) + 1 /\ Sends(0)' = Sends(0)
      /\ message = 0 => Timers' = {} /\ Timers = {}
  BY <1>1, SendTimers, Counts DEF TimerFires, Timers, WriterBounded
<1>3. Cardinality(Timers) \in Nat /\ Cardinality(Timers') \in Nat
  BY Counts, TimersFinite DEF Timers
<1>4. /\ UNCHANGED <<text, message, overflow, offset, lastSent, lastError, messages, phase, rounds>>
      /\ timerSet /\ ~timerSet'
  BY DEF TimerFires, fieldVars
<1>5. /\ TooLong' = TooLong /\ Ticking = 1 /\ Ticking' = 0
      /\ NotEnded' = NotEnded /\ NotBegun' = NotBegun
  BY <1>2, <1>4 DEF TooLong, Ticking, NotEnded, NotBegun
<1>6. Load' <= Load
  <2>1. PICK l, c, w, k, e, b \in Nat:
        /\ l = Len(messages) /\ c = Cardinality(Timers)
        /\ w = TooLong /\ k = Ticking /\ e = NotEnded /\ b = NotBegun
        /\ Load = l + c + w + k + e + b
    BY LoadIs
  <2>2. PICK m, d, x, j, f, a \in Nat:
        /\ m = Len(messages') /\ d = Cardinality(Timers')
        /\ x = TooLong' /\ j = Ticking' /\ f = NotEnded' /\ a = NotBegun'
        /\ Load' = m + d + x + j + f + a
    BY LoadIsNext
  <2>3. m = l /\ d <= c + 1 /\ x = w /\ k = 1 /\ j = 0 /\ f = e /\ a = b
    BY <2>1, <2>2, <1>2, <1>4, <1>5
  <2>4. m + d + x + j + f + a <= l + c + w + k + e + b
    BY <2>3
  <2> QED BY <2>1, <2>2, <2>4
<1>7. (Room(0) => Room(0)') /\ (Room(1) => Room(1)')
  BY <1>4, <1>6, SameText
<1> QED BY <1>1, <1>4, <1>7 DEF WriterBounded, Within

LEMMA FinalizeBounded ==
    ASSUME WriterTypes, WriterTypes', WriterBounded, Finalize
    PROVE  WriterBounded'
<1>0. 0 \in Senders
  BY Counts
<1>1. CASE Sends(0)
  <2>1. message # 0
    BY <1>0, <1>1 DEF WriterBounded
  <2>2. sending'[0] = sending[0] \/ sending'[0] = Snapshot(0)
    BY <1>0 DEF Finalize, Send, WriterTypes
  <2>3. \A r \in Senders \ {0}: sending'[r] = sending[r]
    BY <1>0 DEF Finalize, Send, WriterTypes
  <2>4. Timers' = Timers
    BY <2>3 DEF Timers, Sends
  <2>5. UNCHANGED <<text, message, overflow, offset, lastSent, lastError, messages, rounds>>
        /\ phase = "stream" /\ phase' = "finalize" /\ ~timerSet'
    BY DEF Finalize, fieldVars
  <2>6. \A r \in Senders: Taken(r)'
    BY <2>2, <2>3, <2>5 DEF Taken, Within, Snapshot, WriterBounded
  <2>7. TooLong' <= 1 /\ TooLong = 1 /\ Ticking' = 0 /\ NotEnded' = 0 /\ NotBegun' = 0
    BY <1>1, <2>5 DEF TooLong, Ticking, NotEnded, NotBegun
  <2>8. Load' <= Load
    <3>1. PICK l, c, w, k, e, b \in Nat:
          /\ l = Len(messages) /\ c = Cardinality(Timers)
          /\ w = TooLong /\ k = Ticking /\ e = NotEnded /\ b = NotBegun
          /\ Load = l + c + w + k + e + b
      BY LoadIs
    <3>2. PICK m, d, x, j, f, a \in Nat:
          /\ m = Len(messages') /\ d = Cardinality(Timers')
          /\ x = TooLong' /\ j = Ticking' /\ f = NotEnded' /\ a = NotBegun'
          /\ Load' = m + d + x + j + f + a
      BY LoadIsNext
    <3>3. m = l /\ d = c /\ x <= w /\ j = 0 /\ f = 0 /\ a = 0
      BY <3>1, <3>2, <2>4, <2>5, <2>7
    <3>4. m + d + x + j + f + a <= l + c + w + k + e + b
      BY <3>3
    <3> QED BY <3>1, <3>2, <3>4
  <2>9. Room(0)'
    BY <2>5, <2>8, SameText DEF WriterBounded
  <2> QED BY <2>1, <2>5, <2>6, <2>9 DEF WriterBounded, Within
<1>2. CASE ~Sends(0)
  <2>1. /\ \A r \in Senders: Taken(r)'
        /\ message = 0 => \A r \in Senders: ~Sends(r)'
    BY <1>0, <1>2, SnapshotTaken DEF Finalize, fieldVars
  <2>2. Cardinality(Timers') <= Cardinality(Timers)
    BY <1>0, <1>2, SendTimers, Counts DEF Finalize
  <2>3. Cardinality(Timers) \in Nat /\ Cardinality(Timers') \in Nat
    BY Counts, TimersFinite DEF Timers
  <2>4. UNCHANGED <<text, message, overflow, offset, lastSent, lastError, messages, rounds>>
        /\ phase = "stream" /\ phase' = "finalize" /\ ~timerSet'
    BY DEF Finalize, fieldVars
  <2>5. /\ TooLong' <= TooLong + 1 /\ Ticking' = 0 /\ NotEnded = 1 /\ NotEnded' = 0
        /\ NotBegun = 0 /\ NotBegun' = 0 /\ TooLong' \in Nat
    BY <1>2, <2>4 DEF TooLong, Ticking, NotEnded, NotBegun
  <2>6. Load' <= Load
    <3>1. PICK l, c, w, k, e, b \in Nat:
          /\ l = Len(messages) /\ c = Cardinality(Timers)
          /\ w = TooLong /\ k = Ticking /\ e = NotEnded /\ b = NotBegun
          /\ Load = l + c + w + k + e + b
      BY LoadIs
    <3>2. PICK m, d, x, j, f, a \in Nat:
          /\ m = Len(messages') /\ d = Cardinality(Timers')
          /\ x = TooLong' /\ j = Ticking' /\ f = NotEnded' /\ a = NotBegun'
          /\ Load' = m + d + x + j + f + a
      BY LoadIsNext
    <3>3. m = l /\ d <= c /\ x <= w + 1 /\ j = 0 /\ e = 1 /\ f = 0 /\ a = 0
      BY <3>1, <3>2, <2>2, <2>4, <2>5
    <3>4. m + d + x + j + f + a <= l + c + w + k + e + b
      BY <3>3
    <3> QED BY <3>1, <3>2, <3>4
  <2>7. (Room(0) => Room(0)') /\ (Room(1) => Room(1)')
    BY <2>4, <2>6, SameText
  <2> QED BY <2>1, <2>4, <2>7 DEF WriterBounded, Within
<1> QED BY <1>1, <1>2

LEMMA AgainBounded ==
    ASSUME WriterTypes, WriterTypes', WriterBounded, FinalizeAgain
    PROVE  WriterBounded'
<1>1. 0 \in Senders /\ ~Sends(0) /\ (Send(0) \/ UNCHANGED <<sending, crossed>>)
  BY Counts DEF FinalizeAgain
<1>2. UNCHANGED <<text, message, overflow, offset, lastSent, lastError, messages, timerSet>>
      /\ phase = "finalize" /\ phase' \in {"finalize", "over"}
  BY DEF FinalizeAgain, fieldVars
<1>3. rounds' <= FurtherRounds
  BY DEF FinalizeAgain, WriterBounded, WriterTypes, FurtherRounds
<1>4. /\ \A r \in Senders: Taken(r)'
      /\ message = 0 => \A r \in Senders: ~Sends(r)'
  BY <1>1, <1>2, SnapshotTaken
<1>5. Cardinality(Timers') <= Cardinality(Timers)
  BY <1>1, SendTimers, Counts
<1>6. Cardinality(Timers) \in Nat /\ Cardinality(Timers') \in Nat
  BY Counts, TimersFinite DEF Timers
<1>7. overflow \/ sending' = sending
  BY DEF FinalizeAgain
<1>8. TooLong' <= TooLong /\ TooLong \in Nat /\ TooLong' \in Nat
  <2>1. CASE overflow
    BY <1>2, <2>1 DEF TooLong
  <2>2. CASE sending' = sending
    <3>1. Sends(0)' = Sends(0)
      BY <2>2 DEF Sends
    <3> QED BY <1>2, <3>1 DEF TooLong
  <2> QED BY <1>7, <2>1, <2>2
<1>9. Ticking' = Ticking /\ NotEnded' = NotEnded /\ NotBegun' = NotBegun
  BY <1>2 DEF Ticking, NotEnded, NotBegun
<1>10. Load' <= Load
  <2>1. PICK l, c, w, k, e, b \in Nat:
        /\ l = Len(messages) /\ c = Cardinality(Timers)
        /\ w = TooLong /\ k = Ticking /\ e = NotEnded /\ b = NotBegun
        /\ Load = l + c + w + k + e + b
    BY LoadIs
  <2>2. PICK m, d, x, j, f, a \in Nat:
        /\ m = Len(messages') /\ d = Cardinality(Timers')
        /\ x = TooLong' /\ j = Ticking' /\ f = NotEnded' /\ a = NotBegun'
        /\ Load' = m + d + x + j + f + a
    BY LoadIsNext
  <2>3. m = l /\ d <= c /\ x <= w /\ j = k /\ f = e /\ a = b
    BY <2>1, <2>2, <1>2, <1>5, <1>8, <1>9
  <2>4. m + d + x + j + f + a <= l + c + w + k + e + b
    BY <2>3
  <2> QED BY <2>1, <2>2, <2>4
<1>11. (Room(0) => Room(0)') /\ (Room(1) => Room(1)')
  BY <1>2, <1>10, SameText
<1> QED BY <1>2, <1>3, <1>4, <1>11 DEF WriterBounded, Within

\* A message that is written is within the text.
LEMMA MessagesWithin ==
    ASSUME WriterTypes, WriterBounded, NEW d, Within(d)
    PROVE  /\ Len(Append(messages, d)) = Len(messages) + 1
           /\ \A i \in 1 .. Len(messages) + 1: Within(Append(messages, d)[i])
           /\ \A i: Len([messages EXCEPT ![i] = d]) = Len(messages)
           /\ \A i: \A n \in 1 .. Len(messages): Within([messages EXCEPT ![i] = d][n])
<1>1. messages \in Seq(AnyDisplay)
  BY DEF WriterTypes
<1>2. PICK S: messages \in Seq(S) /\ d \in S
  <2>1. AnyDisplay \subseteq AnyDisplay \cup {d}
    OBVIOUS
  <2>2. messages \in Seq(AnyDisplay \cup {d})
    BY <1>1, <2>1
  <2> QED BY <2>2
<1>3. /\ Len(Append(messages, d)) = Len(messages) + 1
      /\ \A i \in 1 .. Len(messages): Append(messages, d)[i] = messages[i]
      /\ Append(messages, d)[Len(messages) + 1] = d
  BY <1>2, AppendProperties
<1>4. \A i \in 1 .. Len(messages) + 1: Within(Append(messages, d)[i])
  BY <1>1, <1>3 DEF WriterBounded
<1>5. ASSUME NEW i
      PROVE  /\ Len([messages EXCEPT ![i] = d]) = Len(messages)
             /\ \A n \in 1 .. Len(messages): Within([messages EXCEPT ![i] = d][n])
  <2>1. DOMAIN messages = 1 .. Len(messages) /\ Len(messages) \in Nat
    BY <1>1
  <2>2. Len([messages EXCEPT ![i] = d]) = Len(messages)
    BY <1>2, <2>1
  <2>3. \A n \in 1 .. Len(messages): [messages EXCEPT ![i] = d][n] \in {messages[n], d}
    BY <1>1, <2>1
  <2> QED BY <2>2, <2>3 DEF WriterBounded
<1> QED BY <1>3, <1>4, <1>5

LEMMA PostBounded ==
    ASSUME WriterTypes, WriterTypes', WriterBounded, PostInitialMessage
    PROVE  WriterBounded'
<1>1. /\ UNCHANGED <<text, timerSet, overflow, offset, lastSent, lastError, sending, rounds>>
      /\ phase = "start" /\ phase' = "stream" /\ message = 0 /\ ~lastError
      /\ \A s \in Senders: ~Sends(s) /\ ~Sends(s)'
  BY DEF PostInitialMessage, WriterBounded, Sends
<1>2. /\ Timers' = Timers /\ TooLong' = TooLong /\ Ticking' = Ticking
      /\ NotEnded' = NotEnded /\ NotBegun = 1 /\ NotBegun' = 0
  BY <1>1 DEF Timers, TooLong, Ticking, NotEnded, NotBegun, Sends
<1>3. CASE messages' = <<Blank>> /\ message' = 1
  <2>1. Len(messages') = 1 /\ messages'[1] = Blank
    BY <1>3
  <2>2. \A i \in 1 .. Len(messages'): Within(messages'[i])
    BY <2>1, WriterBoundsAssumption DEF Within, Blank
  <2>3. \A s \in Senders: Taken(s)'
    BY <1>1, <2>1, Counts DEF Taken, Sends, WriterBounded
  <2>4. Len(messages') <= Len(messages) + 1
    BY <2>1, Counts
  <2>5. Load' <= Load
    <3>1. PICK l, c, w, k, e, b \in Nat:
          /\ l = Len(messages) /\ c = Cardinality(Timers)
          /\ w = TooLong /\ k = Ticking /\ e = NotEnded /\ b = NotBegun
          /\ Load = l + c + w + k + e + b
      BY LoadIs
    <3>2. PICK m, d, x, j, f, a \in Nat:
          /\ m = Len(messages') /\ d = Cardinality(Timers')
          /\ x = TooLong' /\ j = Ticking' /\ f = NotEnded' /\ a = NotBegun'
          /\ Load' = m + d + x + j + f + a
      BY LoadIsNext
    <3>3. m <= l + 1 /\ d = c /\ x = w /\ j = k /\ f = e /\ b = 1 /\ a = 0
      BY <3>1, <3>2, <1>2, <2>4
    <3>4. m + d + x + j + f + a <= l + c + w + k + e + b
      BY <3>3
    <3> QED BY <3>1, <3>2, <3>4
  <2>6. Room(0)'
    BY <1>1, <2>5, SameText DEF WriterBounded
  <2> QED BY <1>1, <1>3, <2>1, <2>2, <2>3, <2>6 DEF WriterBounded
<1>4. CASE UNCHANGED <<messages, message>>
  <2>1. Load' + 1 <= Load
    <3>1. PICK l, c, w, k, e, b \in Nat:
          /\ l = Len(messages) /\ c = Cardinality(Timers)
          /\ w = TooLong /\ k = Ticking /\ e = NotEnded /\ b = NotBegun
          /\ Load = l + c + w + k + e + b
      BY LoadIs
    <3>2. PICK m, d, x, j, f, a \in Nat:
          /\ m = Len(messages') /\ d = Cardinality(Timers')
          /\ x = TooLong' /\ j = Ticking' /\ f = NotEnded' /\ a = NotBegun'
          /\ Load' = m + d + x + j + f + a
      BY LoadIsNext
    <3>3. m = l /\ d = c /\ x = w /\ j = k /\ f = e /\ b = 1 /\ a = 0
      BY <3>1, <3>2, <1>2, <1>4
    <3>4. m + d + x + j + f + a + 1 <= l + c + w + k + e + b
      BY <3>3
    <3> QED BY <3>1, <3>2, <3>4
  <2>2. Load' + text + 1 <= Load + text' + 0
    <3>1. PICK u, v, t \in Nat: u = Load' /\ v = Load /\ t = text /\ text' = t
      BY <1>1, LoadIsNumber
    <3>2. u + 1 <= v
      BY <2>1, <3>1
    <3>3. u + t + 1 <= v + t + 0
      BY <3>2
    <3> QED BY <3>1, <3>3
  <2>3. Room(1)'
    BY <2>2, RoomKept DEF WriterBounded
  <2>4. Room(0)'
    <3>1. PICK u, t \in Nat: u = Load' /\ t = text'
      BY LoadIsNumber
    <3>2. u + 1 <= t + 2
      BY <2>3, <3>1 DEF Room
    <3>3. u + 0 <= t + 2
      BY <3>2
    <3> QED BY <3>1, <3>3 DEF Room
  <2> QED BY <1>1, <1>4, <2>3, <2>4 DEF WriterBounded, Taken
<1> QED BY <1>3, <1>4 DEF PostInitialMessage

LEMMA TextBounded ==
    ASSUME WriterTypes, WriterTypes', WriterBounded, WriteText
    PROVE  WriterBounded'
<1>1. /\ UNCHANGED <<messages, message, overflow, offset, lastSent, lastError, sending, phase, rounds>>
      /\ phase = "stream" /\ text' = text + 1 /\ text < MaxText /\ timerSet'
  BY DEF WriteText
<1>2. /\ Timers' = Timers /\ TooLong' = TooLong /\ Ticking' = 1
      /\ NotEnded' = NotEnded /\ NotBegun' = NotBegun /\ \A s \in Senders: Sends(s)' = Sends(s)
  BY <1>1 DEF Timers, TooLong, Ticking, NotEnded, NotBegun, Sends
<1>3. Load' <= Load + 1
  <2>1. PICK l, c, w, k, e, b \in Nat:
        /\ l = Len(messages) /\ c = Cardinality(Timers)
        /\ w = TooLong /\ k = Ticking /\ e = NotEnded /\ b = NotBegun
        /\ Load = l + c + w + k + e + b
    BY LoadIs
  <2>2. PICK m, d, x, j, f, a \in Nat:
        /\ m = Len(messages') /\ d = Cardinality(Timers')
        /\ x = TooLong' /\ j = Ticking' /\ f = NotEnded' /\ a = NotBegun'
        /\ Load' = m + d + x + j + f + a
    BY LoadIsNext
  <2>3. m = l /\ d = c /\ x = w /\ j = 1 /\ f = e /\ a = b
    BY <2>1, <2>2, <1>1, <1>2
  <2>4. m + d + x + j + f + a <= l + c + w + k + e + b + 1
    BY <2>3
  <2> QED BY <2>1, <2>2, <2>4
<1>4. (Room(0) => Room(0)') /\ (Room(1) => Room(1)')
  <2>1. PICK u, v, t \in Nat: u = Load' /\ v = Load /\ t = text /\ text' = t + 1
    BY <1>1, LoadIsNumber
  <2>2. u <= v + 1
    BY <1>3, <2>1
  <2>3. u + t <= v + (t + 1)
    BY <2>2
  <2> QED BY <2>1, <2>3, RoomStays
<1>5. text' <= MaxText
  BY <1>1, Counts
<1> QED BY <1>1, <1>2, <1>4, <1>5 DEF WriterBounded, Taken, Within

\* The error is posted where no message was, and only once.
LEMMA ErrorBounded ==
    ASSUME WriterTypes, WriterTypes', WriterBounded, WriteError
    PROVE  WriterBounded'
<1>1. /\ UNCHANGED <<text, timerSet, message, overflow, offset, lastSent, sending, phase, rounds>>
      /\ phase = "stream" /\ ~lastError /\ lastError'
  BY DEF WriteError
<1>2. /\ Timers' = Timers /\ TooLong' = TooLong /\ Ticking' = Ticking
      /\ NotEnded' = NotEnded /\ NotBegun' = NotBegun /\ \A s \in Senders: Sends(s)' = Sends(s)
  BY <1>1 DEF Timers, TooLong, Ticking, NotEnded, NotBegun, Sends
<1>3. PICK notice: notice = [Blank EXCEPT !.notice = TRUE]
  OBVIOUS
<1>4. Within(notice)
  BY <1>3, WriterBoundsAssumption DEF Within, Blank
<1>5. ASSUME Len(messages') = Len(messages) PROVE Room(0)'
  <2>1. Load' <= Load
    <3>1. PICK l, c, w, k, e, b \in Nat:
          /\ l = Len(messages) /\ c = Cardinality(Timers)
          /\ w = TooLong /\ k = Ticking /\ e = NotEnded /\ b = NotBegun
          /\ Load = l + c + w + k + e + b
      BY LoadIs
    <3>2. PICK m, d, x, j, f, a \in Nat:
          /\ m = Len(messages') /\ d = Cardinality(Timers')
          /\ x = TooLong' /\ j = Ticking' /\ f = NotEnded' /\ a = NotBegun'
          /\ Load' = m + d + x + j + f + a
      BY LoadIsNext
    <3>3. m = l /\ d = c /\ x = w /\ j = k /\ f = e /\ a = b
      BY <3>1, <3>2, <1>2, <1>5
    <3>4. m + d + x + j + f + a <= l + c + w + k + e + b
      BY <3>3
    <3> QED BY <3>1, <3>2, <3>4
  <2> QED BY <1>1, <2>1, SameText DEF WriterBounded
<1>6. CASE message # 0 /\ messages' = [messages EXCEPT ![message] = notice]
  <2>1. Len(messages') = Len(messages) /\ \A i \in 1 .. Len(messages'): Within(messages'[i])
    BY <1>4, <1>6, MessagesWithin
  <2> QED BY <1>1, <1>2, <1>5, <1>6, <2>1 DEF WriterBounded, Taken, Within
<1>7. CASE message = 0 /\ messages' = Append(messages, notice)
  <2>1. /\ Len(messages') = Len(messages) + 1
        /\ \A i \in 1 .. Len(messages'): Within(messages'[i])
    BY <1>4, <1>7, MessagesWithin
  <2>2. Load' <= Load + 1
    <3>1. PICK l, c, w, k, e, b \in Nat:
          /\ l = Len(messages) /\ c = Cardinality(Timers)
          /\ w = TooLong /\ k = Ticking /\ e = NotEnded /\ b = NotBegun
          /\ Load = l + c + w + k + e + b
      BY LoadIs
    <3>2. PICK m, d, x, j, f, a \in Nat:
          /\ m = Len(messages') /\ d = Cardinality(Timers')
          /\ x = TooLong' /\ j = Ticking' /\ f = NotEnded' /\ a = NotBegun'
          /\ Load' = m + d + x + j + f + a
      BY LoadIsNext
    <3>3. m = l + 1 /\ d = c /\ x = w /\ j = k /\ f = e /\ a = b
      BY <3>1, <3>2, <1>2, <2>1
    <3>4. m + d + x + j + f + a <= l + c + w + k + e + b + 1
      BY <3>3
    <3> QED BY <3>1, <3>2, <3>4
  <2>3. Load' + text + 0 <= Load + text' + 1
    <3>1. PICK u, v, t \in Nat: u = Load' /\ v = Load /\ t = text /\ text' = t
      BY <1>1, LoadIsNumber
    <3>2. u <= v + 1
      BY <2>2, <3>1
    <3>3. u + t + 0 <= v + t + 1
      BY <3>2
    <3> QED BY <3>1, <3>3
  <2>4. Room(1)
    BY <1>1, <1>7 DEF WriterBounded
  <2>5. Room(0)'
    BY <2>3, <2>4, RoomKept
  <2>6. \A s \in Senders: Taken(s)'
    BY <1>1, <2>1, Counts DEF WriterBounded, Taken, Within
  <2>7. message' <= Len(messages')
    BY <1>1, <1>7, <2>1, Counts
  <2> QED BY <1>1, <1>2, <1>7, <2>1, <2>5, <2>6, <2>7 DEF WriterBounded
<1>8. CASE messages' = messages
  BY <1>1, <1>2, <1>5, <1>8 DEF WriterBounded, Taken, Within
<1> QED BY <1>3, <1>6, <1>7, <1>8 DEF WriteError

\* What a call that ends leaves of the snapshots.
LEMMA EndedTaken ==
    ASSUME WriterTypes, WriterBounded, NEW s \in Senders, Sends(s),
           sending' = [sending EXCEPT ![s] = Idle], Len(messages) <= Len(messages'),
           Len(messages') \in Nat
    PROVE  \A r \in Senders: Taken(r)'
<1>1. \A r \in Senders \ {s}: sending'[r] = sending[r]
  BY IdleTimers
<1>2. sending'[s] = Idle
  BY IdleTimers
<1>3. Taken(s)'
  BY <1>2, WriterBoundsAssumption DEF Taken, Within, Idle
<1>4. ASSUME NEW r \in Senders \ {s} PROVE Taken(r)'
  BY <1>1, <1>4, Counts DEF WriterBounded, Taken, Within
<1> QED BY <1>3, <1>4

LEMMA PostedBounded ==
    ASSUME WriterTypes, WriterTypes', WriterBounded, NEW s \in Senders, Posted(s)
    PROVE  WriterBounded'
<1>1. /\ UNCHANGED <<text, timerSet, lastSent, lastError, phase, rounds>>
      /\ Sends(s) /\ sending' = [sending EXCEPT ![s] = Idle] /\ message # 0
  BY DEF Posted, WriterBounded
<1>2. phase # "start" /\ text <= MaxText
  BY <1>1 DEF WriterBounded
<1>3. /\ ~Sends(s)' /\ (s # 0 => Sends(0)' = Sends(0))
      /\ Cardinality(Timers) = Cardinality(Timers') + (IF s = 0 THEN 0 ELSE 1)
  BY <1>1, IdleTimers
<1>4. Ticking' = Ticking /\ NotEnded' = NotEnded /\ NotBegun' = NotBegun
  BY <1>1 DEF Ticking, NotEnded, NotBegun
<1>5. CASE /\ messages' = Append(messages, ShownBy(s)) /\ message' = Len(messages')
           /\ ~overflow' /\ offset' = sending[s].from
  <2>1. Within(ShownBy(s)) /\ offset' <= MaxText
    BY <1>5 DEF ShownBy, Within, WriterBounded, Taken
  <2>2. /\ Len(messages') = Len(messages) + 1 /\ Len(messages') \in Nat
        /\ \A i \in 1 .. Len(messages'): Within(messages'[i])
    BY <1>5, <2>1, MessagesWithin, Counts
  <2>3. \A r \in Senders: Taken(r)'
    <3>1. Len(messages) <= Len(messages')
      BY <2>2, Counts
    <3> QED BY <1>1, <2>2, <3>1, EndedTaken
  <2>4. IF s = 0 THEN TooLong = 1 /\ TooLong' = 0 ELSE TooLong' <= TooLong
    BY <1>1, <1>3, <1>5 DEF TooLong
  <2>5. Load' <= Load
    <3>1. PICK l, c, w, k, e, b \in Nat:
          /\ l = Len(messages) /\ c = Cardinality(Timers)
          /\ w = TooLong /\ k = Ticking /\ e = NotEnded /\ b = NotBegun
          /\ Load = l + c + w + k + e + b
      BY LoadIs
    <3>2. PICK m, d, x, j, f, a \in Nat:
          /\ m = Len(messages') /\ d = Cardinality(Timers')
          /\ x = TooLong' /\ j = Ticking' /\ f = NotEnded' /\ a = NotBegun'
          /\ Load' = m + d + x + j + f + a
      BY LoadIsNext
    <3>3. m = l + 1 /\ j = k /\ f = e /\ a = b
      BY <3>1, <3>2, <1>4, <2>2
    <3>4. d + x + 1 <= c + w
      <4>1. CASE s = 0
        <5>1. c = d /\ w = 1 /\ x = 0
          BY <3>1, <3>2, <1>3, <2>4, <4>1
        <5> QED BY <5>1
      <4>2. CASE s # 0
        <5>1. c = d + 1 /\ x <= w
          BY <3>1, <3>2, <1>3, <2>4, <4>2
        <5> QED BY <5>1
      <4> QED BY <4>1, <4>2
    <3>5. m + d + x + j + f + a <= l + c + w + k + e + b
      BY <3>3, <3>4
    <3> QED BY <3>1, <3>2, <3>5
  <2>6. Room(0)'
    BY <1>1, <2>5, SameText DEF WriterBounded
  <2>7. message' # 0 /\ message' <= Len(messages')
    BY <1>5, <2>2, Counts
  <2> QED BY <1>1, <1>2, <2>1, <2>2, <2>3, <2>6, <2>7 DEF WriterBounded
<1>6. CASE UNCHANGED <<messages, message, overflow, offset>>
  <2>1. \A r \in Senders: Taken(r)'
    <3>1. Len(messages) <= Len(messages') /\ Len(messages') \in Nat
      BY <1>6, Counts
    <3> QED BY <1>1, <3>1, EndedTaken
  <2>2. TooLong' <= TooLong
    BY <1>1, <1>3, <1>6 DEF TooLong
  <2>3. Load' <= Load
    <3>1. PICK l, c, w, k, e, b \in Nat:
          /\ l = Len(messages) /\ c = Cardinality(Timers)
          /\ w = TooLong /\ k = Ticking /\ e = NotEnded /\ b = NotBegun
          /\ Load = l + c + w + k + e + b
      BY LoadIs
    <3>2. PICK m, d, x, j, f, a \in Nat:
          /\ m = Len(messages') /\ d = Cardinality(Timers')
          /\ x = TooLong' /\ j = Ticking' /\ f = NotEnded' /\ a = NotBegun'
          /\ Load' = m + d + x + j + f + a
      BY LoadIsNext
    <3>3. m = l /\ d <= c /\ x <= w /\ j = k /\ f = e /\ a = b
      <4>1. c = d \/ c = d + 1
        BY <3>1, <3>2, <1>3
      <4>2. m = l /\ x <= w /\ j = k /\ f = e /\ a = b
        BY <3>1, <3>2, <1>4, <1>6, <2>2
      <4> QED BY <4>1, <4>2
    <3>4. m + d + x + j + f + a <= l + c + w + k + e + b
      BY <3>3
    <3> QED BY <3>1, <3>2, <3>4
  <2>4. Room(0)'
    BY <1>1, <2>3, SameText DEF WriterBounded
  <2> QED BY <1>1, <1>2, <1>6, <2>1, <2>4 DEF WriterBounded, Within
<1> QED BY <1>5, <1>6 DEF Posted

LEMMA UpdatedBounded ==
    ASSUME WriterTypes, WriterTypes', WriterBounded, NEW s \in Senders, Updated(s)
    PROVE  WriterBounded'
<1>1. /\ UNCHANGED <<text, timerSet, message, lastError, phase, rounds>>
      /\ Sends(s) /\ sending' = [sending EXCEPT ![s] = Idle] /\ message # 0
  BY DEF Updated, WriterBounded
<1>2. phase # "start" /\ text <= MaxText /\ message <= Len(messages)
  BY <1>1 DEF WriterBounded
<1>3. /\ ~Sends(s)' /\ (s # 0 => Sends(0)' = Sends(0))
      /\ Cardinality(Timers) = Cardinality(Timers') + (IF s = 0 THEN 0 ELSE 1)
  BY <1>1, IdleTimers
<1>4. Ticking' = Ticking /\ NotEnded' = NotEnded /\ NotBegun' = NotBegun
  BY <1>1 DEF Ticking, NotEnded, NotBegun
<1>5. Within(ShownBy(s)) /\ sending[s].upto <= MaxText /\ lastSent <= MaxText /\ offset <= MaxText
  BY DEF ShownBy, Within, WriterBounded, Taken
<1>6. Len(messages') = Len(messages) /\ \A i \in 1 .. Len(messages'): Within(messages'[i])
  <2>1. messages' = messages \/ messages' = [messages EXCEPT ![sending[s].to] = ShownBy(s)]
    BY DEF Updated
  <2> QED BY <1>5, <2>1, MessagesWithin DEF WriterBounded
<1>7. offset' <= MaxText /\ lastSent' <= MaxText
  BY <1>5 DEF Updated, FreezeMessage
<1>8. \A r \in Senders: Taken(r)'
  <2>1. Len(messages) <= Len(messages') /\ Len(messages') \in Nat
    BY <1>6, Counts
  <2> QED BY <1>1, <2>1, EndedTaken
<1>9. TooLong' \in 0 .. 1 /\ TooLong \in 0 .. 1 /\ (s = 0 => TooLong = 1)
  BY <1>1 DEF TooLong
<1>10. Load' <= Load
  <2>1. PICK l, c, w, k, e, b \in Nat:
        /\ l = Len(messages) /\ c = Cardinality(Timers)
        /\ w = TooLong /\ k = Ticking /\ e = NotEnded /\ b = NotBegun
        /\ Load = l + c + w + k + e + b
    BY LoadIs
  <2>2. PICK m, d, x, j, f, a \in Nat:
        /\ m = Len(messages') /\ d = Cardinality(Timers')
        /\ x = TooLong' /\ j = Ticking' /\ f = NotEnded' /\ a = NotBegun'
        /\ Load' = m + d + x + j + f + a
    BY LoadIsNext
  <2>3. m = l /\ j = k /\ f = e /\ a = b
    BY <2>1, <2>2, <1>4, <1>6
  <2>4. d + x <= c + w
    <3>1. CASE s = 0
      <4>1. c = d /\ w = 1 /\ x <= 1
        BY <2>1, <2>2, <1>3, <1>9, <3>1
      <4> QED BY <4>1
    <3>2. CASE s # 0
      <4>1. c = d + 1 /\ x <= 1
        BY <2>1, <2>2, <1>3, <1>9, <3>2
      <4> QED BY <4>1
    <3> QED BY <3>1, <3>2
  <2>5. m + d + x + j + f + a <= l + c + w + k + e + b
    BY <2>3, <2>4
  <2> QED BY <2>1, <2>2, <2>5
<1>11. Room(0)'
  BY <1>1, <1>10, SameText DEF WriterBounded
<1>12. message' <= Len(messages') /\ rounds' <= FurtherRounds /\ text' <= MaxText
  BY <1>1, <1>2, <1>6 DEF WriterBounded
<1> QED BY <1>1, <1>2, <1>6, <1>7, <1>8, <1>11, <1>12 DEF WriterBounded

LEMMA WriterBoundedStep == WriterInv /\ WriterBounded /\ [WriterNext]_writerVars => WriterBounded'
<1> SUFFICES ASSUME WriterTypes, WriterBounded, [WriterNext]_writerVars PROVE WriterBounded'
  BY DEF WriterInv
<1>1. WriterTypes'
  BY WriterTyped
<1>2. CASE UNCHANGED writerVars
  <2>1. /\ UNCHANGED <<text, offset, lastSent, rounds, message, messages, sending, phase, lastError>>
        /\ Load' = Load
    BY <1>2 DEF writerVars, Load, Timers, TooLong, Ticking, NotEnded, NotBegun, Sends
  <2> QED BY <2>1 DEF WriterBounded, Taken, Within, Room, Sends
<1> QED
  BY <1>1, <1>2, PostBounded, TextBounded, ErrorBounded, FinalizeBounded, AgainBounded,
     FiresBounded, PostedBounded, UpdatedBounded DEF WriterNext

\* With the bounds the types are those of the model.
LEMMA WriterTypesHold == WriterSpec => []WriterTypeOK
<1>1. WriterInv /\ WriterBounded => WriterTypeOK
  <2> SUFFICES ASSUME WriterTypes, WriterBounded PROVE WriterTypeOK
    BY DEF WriterInv
  <2>1. Len(messages) <= MaxText + 2 /\ Len(messages) \in Nat
    <3>1. PICK l, c, w, k, e, b \in Nat:
            /\ l = Len(messages) /\ c = Cardinality(Timers)
            /\ w = TooLong /\ k = Ticking /\ e = NotEnded /\ b = NotBegun
            /\ Load = l + c + w + k + e + b
      BY LoadIs
    <3>2. PICK t \in Nat: t = text /\ t <= MaxText
      BY Counts DEF WriterBounded
    <3>3. l + c + w + k + e + b + 0 <= t + 2
      BY <3>1, <3>2 DEF WriterBounded, Room
    <3>4. l <= MaxText + 2
      BY <3>2, <3>3, WriterBoundsAssumption
    <3> QED BY <3>1, <3>4
  <2>2. ASSUME NEW s \in Senders PROVE sending[s] \in Snapshots
    <3>1. sending[s] \in AnySnapshot /\ Taken(s)
      BY DEF WriterTypes, WriterBounded
    <3>2. sending[s].to <= MaxText + 2
      BY <2>1, <3>1, WriterBoundsAssumption DEF Taken, AnySnapshot
    <3> QED BY <3>1, <3>2, WriterBoundsAssumption DEF Taken, Within, AnySnapshot, Snapshots
  <2>3. sending \in [Senders -> Snapshots]
    BY <2>2 DEF WriterTypes
  <2>4. messages \in Seq(Displays)
    <3>1. PICK n: n = Len(messages)
      OBVIOUS
    <3>2. \A i \in 1 .. n: messages[i] \in AnyDisplay /\ Within(messages[i])
      BY <3>1, ElementOfSeq DEF WriterTypes, WriterBounded
    <3>3. \A i \in 1 .. n: messages[i] \in Displays
      BY <3>2, WriterBoundsAssumption DEF Within, AnyDisplay, Displays
    <3>4. n \in Nat /\ messages = [i \in 1 .. n |-> messages[i]]
      BY <2>1, <3>1 DEF WriterTypes
    <3> QED BY <3>3, <3>4
  <2>5. /\ text \in 0 .. MaxText /\ offset \in 0 .. MaxText /\ lastSent \in 0 .. MaxText
        /\ rounds \in 0 .. FurtherRounds /\ message \in 0 .. Len(messages)
    BY <2>1, WriterBoundsAssumption DEF WriterTypes, WriterBounded, FurtherRounds
  <2> QED BY <2>3, <2>4, <2>5 DEF WriterTypes, WriterTypeOK
<1> QED
  BY <1>1, WriterBegins, WriterInvStep, BoundedBegins, WriterBoundedStep, PTL DEF WriterSpec

-----------------------------------------------------------------------------
(* The parts beside one another.                                           *)

\* What is checked of all parts is a behaviour of each.
LEMMA PartsBehave ==
    SlackSpec => SlackThreadSpec /\ LinksSpec /\ BotsSpec /\ WriterSpec
<1>1. SlackPartsInit => SlackInit /\ LinksInit /\ BotsInit /\ WriterInit
  BY DEF SlackPartsInit
<1>2. [SlackPartsNext]_everySlackVars =>
        [SlackNext]_slackVars /\ [LinksNext]_linkVars /\ [BotsNext]_botVars /\ [WriterNext]_writerVars
  <2>1. CASE SlackPartsNext
    BY <2>1, Zenon DEF SlackPartsNext
  <2>2. CASE UNCHANGED everySlackVars
    BY <2>2 DEF everySlackVars
  <2> QED BY <2>1, <2>2
<1> QED BY <1>1, <1>2, PTL DEF SlackSpec, SlackThreadSpec, LinksSpec, BotsSpec, WriterSpec

\* The same of the whole that the run checks: the Slack integration asks no
\* agent twice, loses no message of a settled thread, keeps no link that its
\* provider ended, has no bot that cannot be stopped and shows an answer whole.
THEOREM SlackPartsCorrect ==
    SlackSpec => []AskedOnce /\ SettledKeeps /\ []LinkBacked /\ []NoStrayBot /\ []AllShown
  BY PartsBehave, AskedOnlyOnce, ThreadSettles, LinksCorrect, BotsCanBeStopped, AnswersAreShown, PTL

\* Every variable of the parts keeps its type, in the whole that the run checks:
\* no more messages are posted than there are pieces of text, and two, and each
\* handler of a question asks its agent once.
THEOREM SlackTypesCorrect == SlackSpec => []SlackPartsTypeOK
<1>1. SlackTypeOK /\ WriterTypeOK /\ BotsTypeOK /\ LinksTypeOK => SlackPartsTypeOK
  BY DEF SlackPartsTypeOK
<1> QED
  BY <1>1, PartsBehave, ThreadTypesHold, WriterTypesHold, BotTypesHold, LinkTypesHold, PTL
=============================================================================
