---------------------------- MODULE SlackThread ----------------------------
(***************************************************************************)
(* One Slack thread in which questions are put to agents                   *)
(* (slack/handler.go, HandleMessage).  Every pod with a bot of the agent   *)
(* is sent the event and a claim in Redis picks one; the claim lapses      *)
(* after five minutes.  A user who is not linked is asked to link; the     *)
(* question is put again each time that is done, by the pods that hear of  *)
(* it.                                                                     *)
(*                                                                         *)
(* The thread has one session, a document in Redis.  Handlers of one       *)
(* thread share it: two bots named in one message work at the same time.   *)
(***************************************************************************)
EXTENDS Naturals

CONSTANTS
    Questions,      \* events of the thread, each for one agent
    Bots,           \* agents
    MaxHandlers,    \* bound: runs of HandleMessage, deliveries to all pods
    NoThread,       \* no session yet
    MaxSlackTrouble \* bound: calls that fail, claims that lapse, links revoked

ASSUME SlackBoundsAssumption == MaxHandlers \in Nat /\ MaxSlackTrouble \in Nat
ASSUME QuestionsAssumption == Questions # {}

\* Numbered as they start.
Handlers == 1 .. MaxHandlers

VARIABLES
    asks,           \* the agent each question is for (fixed)
    claims,         \* keys of slack:event:*
    lapses,         \* per key: how often a claim of it has lapsed (history)
    thread,         \* the session document
    linked,         \* whether the user's account is linked
    invited,        \* questions answered by an invitation to link
    published,      \* questions put again over slack:reprocess
    turn,           \* per handler: what it does, for which question
    copy,           \* per handler: the document CreateSessionWithID gave it
    proxied,        \* per question: how often an agent was asked it (history)
    agentSessions,  \* agents whose session with the user is known
    freeForAll,     \* a claim went unanswered, so everyone processes (history)
    slackTrouble

slackVars == <<asks, claims, lapses, thread, linked, invited, published, turn, copy,
               proxied, agentSessions, freeForAll, slackTrouble>>

\* A question under its own timestamp, or again under its thread's: one key
\* for all questions to one agent.
Claims == [again: {FALSE}, of: Questions] \cup [again: {TRUE}, of: Bots]
Messages == [role: {"user", "assistant"}, of: Questions]
Documents == [slack: BOOLEAN, agents: SUBSET Bots, messages: SUBSET Messages]
EmptyDocument == [slack |-> FALSE, agents |-> {}, messages |-> {}]
ASSUME NoThreadAssumption == NoThread \notin Documents
Stages == {"idle", "start", "save", "question", "read", "authorise", "ask", "store", "map", "over"}
Outcomes == {"none", "complete", "errored", "broken"}
Turns == [at: Stages, of: Questions, outcome: Outcomes]

Quiet(at) == [at |-> at, of |-> CHOOSE q \in Questions: TRUE, outcome |-> "none"]

SlackTypeOK ==
    /\ asks \in [Questions -> Bots]
    /\ claims \subseteq Claims /\ lapses \in [Claims -> 0 .. MaxSlackTrouble]
    /\ thread \in Documents \cup {NoThread}
    /\ linked \in BOOLEAN /\ freeForAll \in BOOLEAN
    /\ invited \subseteq Questions /\ published \subseteq Questions
    /\ turn \in [Handlers -> Turns]
    /\ copy \in [Handlers -> Documents]
    /\ proxied \in [Questions -> 0 .. MaxHandlers]
    /\ agentSessions \subseteq Bots
    /\ slackTrouble \in 0 .. MaxSlackTrouble

SlackInit ==
    /\ asks \in [Questions -> Bots]
    /\ claims = {} /\ lapses = [key \in Claims |-> 0] /\ thread = NoThread
    /\ linked \in BOOLEAN
    /\ invited = {} /\ published = {}
    /\ turn = [h \in Handlers |-> Quiet("idle")]
    /\ copy = [h \in Handlers |-> EmptyDocument]
    /\ proxied = [q \in Questions |-> 0]
    /\ agentSessions = {}
    /\ freeForAll = FALSE
    /\ slackTrouble = MaxSlackTrouble

Fails == slackTrouble > 0 /\ slackTrouble' = slackTrouble - 1
Step(h, at) ==
    turn' = [turn EXCEPT ![h] = IF at = "over" THEN Quiet("over") ELSE [@ EXCEPT !.at = at]]
At(h, at) == turn[h].at = at
Of(h) == turn[h].of
BotOf(h) == asks[Of(h)]
Add(m) == thread' = IF thread = NoThread THEN thread
                    ELSE [thread EXCEPT !.messages = @ \cup {m}]

-----------------------------------------------------------------------------
Begun(q) == [at |-> "start", of |-> q, outcome |-> "none"]
\* The claim.  When Redis does not answer, the event is processed anyway.
TryClaimReadOnly(h, q, key) ==
    /\ turn' = [turn EXCEPT ![h] = IF key \in claims THEN Quiet("over") ELSE Begun(q)]
    /\ UNCHANGED <<claims, freeForAll, slackTrouble>>
TryClaim(h, q, key) ==
    /\ turn' = [turn EXCEPT ![h] = IF key \in claims THEN Quiet("over") ELSE Begun(q)]
    /\ claims' = claims \cup {key}
    /\ UNCHANGED <<freeForAll, slackTrouble>>
ClaimUnanswered(h, q) ==
    /\ Fails
    /\ turn' = [turn EXCEPT ![h] = Begun(q)]
    /\ freeForAll' = TRUE
    /\ UNCHANGED claims
OwnKey(q) == [again |-> FALSE, of |-> q]
ReprocessKey(q) == [again |-> TRUE, of |-> asks[q]]
Starts(h) == At(h, "idle") /\ \A g \in Handlers: g < h => ~At(g, "idle")

\* Slack sends an event to a pod that has the bot.
Receive(h, q) ==
    /\ Starts(h)
    /\ TryClaim(h, q, OwnKey(q)) \/ ClaimUnanswered(h, q)
    /\ UNCHANGED <<asks, lapses, thread, linked, invited, published, copy, proxied, agentSessions>>

\* A pod with the bot hears that a question is to be put again.
Reprocess(h, q) ==
    /\ Starts(h) /\ q \in published
    /\ TryClaim(h, q, ReprocessKey(q)) \/ ClaimUnanswered(h, q)
    /\ UNCHANGED <<asks, lapses, thread, linked, invited, published, copy, proxied, agentSessions>>

\* The claim was taken five minutes ago.
ClaimLapses(key) ==
    /\ key \in claims /\ Fails
    /\ claims' = claims \ {key}
    /\ lapses' = [lapses EXCEPT ![key] = @ + 1]
    /\ UNCHANGED <<asks, thread, linked, invited, published, turn, copy, proxied,
                   agentSessions, freeForAll>>

-----------------------------------------------------------------------------
(* HandleMessage after the claim.                                          *)

\* No email, no such agent, no permission: the user is told so.
Refuse(h) ==
    /\ At(h, "start")
    /\ Fails
    /\ Step(h, "over")
    /\ UNCHANGED <<asks, claims, lapses, thread, linked, invited, published, copy, proxied,
                   agentSessions, freeForAll>>

\* SETNX, or the document that is there.
EnsureThread(h) ==
    /\ At(h, "start")
    /\ thread' = IF thread = NoThread THEN EmptyDocument ELSE thread
    /\ copy' = [copy EXCEPT ![h] = thread']
    /\ Step(h, "save")
    /\ UNCHANGED <<asks, claims, lapses, linked, invited, published, proxied, agentSessions,
                   freeForAll, slackTrouble>>

NeedsSaveAlways(h) == TRUE
NeedsSave(h) == ~copy[h].slack \/ BotOf(h) \notin copy[h].agents

\* SaveSession writes back the whole document as it was read, marked as
\* Slack's and with the agent added.  Its failure goes unnoticed.
SaveThread(h) ==
    /\ At(h, "save")
    /\ IF NeedsSave(h)
       THEN \/ thread' = [copy[h] EXCEPT !.slack = TRUE, !.agents = @ \cup {BotOf(h)}]
               /\ UNCHANGED slackTrouble
            \/ Fails /\ UNCHANGED thread
       ELSE UNCHANGED <<thread, slackTrouble>>
    /\ copy' = [copy EXCEPT ![h] = EmptyDocument]
    /\ Step(h, "question")
    /\ UNCHANGED <<asks, claims, lapses, linked, invited, published, proxied, agentSessions, freeForAll>>

\* The question with what was said in the thread since the last answer.
\* There may be nothing to ask.
Ask(h) == [role |-> "user", of |-> Of(h)]
PersistQuestion(h) ==
    /\ At(h, "question")
    /\ \/ Add(Ask(h)) /\ Step(h, "read") /\ UNCHANGED slackTrouble
       \/ Fails /\ Step(h, "read") /\ UNCHANGED thread
       \/ Step(h, "over") /\ UNCHANGED <<thread, slackTrouble>>
    /\ UNCHANGED <<asks, claims, lapses, linked, invited, published, copy, proxied, agentSessions,
                   freeForAll>>

\* The context is taken from the session as it is now.
ReadThread(h) ==
    /\ At(h, "read")
    /\ \/ Step(h, "authorise") /\ UNCHANGED slackTrouble
       \/ Fails /\ Step(h, "over")
    /\ UNCHANGED <<asks, claims, lapses, thread, linked, invited, published, copy, proxied,
                   agentSessions, freeForAll>>

\* The user's own token.  Without one, or when it cannot be refreshed any
\* more, the link is gone and the user is invited to make one.
Authorise(h) ==
    /\ At(h, "authorise")
    /\ \/ linked /\ Step(h, "ask") /\ UNCHANGED <<linked, invited, slackTrouble>>
       \/ /\ IF linked THEN Fails ELSE UNCHANGED slackTrouble
          /\ linked' = FALSE
          /\ invited' = invited \cup {Of(h)}
          /\ Step(h, "over")
    /\ UNCHANGED <<asks, claims, lapses, thread, published, copy, proxied, agentSessions, freeForAll>>

\* LinkCallback, from the invitation to a question.
LinkAccount(q) ==
    /\ q \in invited
    /\ linked' = TRUE
    /\ published' = published \cup {q}
    /\ UNCHANGED <<asks, claims, lapses, thread, invited, turn, copy, proxied, agentSessions,
                   freeForAll, slackTrouble>>

\* AdminRevokeLink.
Unlink ==
    /\ linked /\ Fails
    /\ linked' = FALSE
    /\ UNCHANGED <<asks, claims, lapses, thread, invited, published, turn, copy, proxied,
                   agentSessions, freeForAll>>

\* The agent is asked, its answer shown in Slack as it comes.  It is
\* complete, or an error is part of it, or the call itself breaks off.
AskAgent(h) ==
    /\ At(h, "ask")
    /\ proxied' = [proxied EXCEPT ![Of(h)] = @ + 1]
    /\ \E o \in {"complete", "errored", "broken"}:
        /\ turn' = [turn EXCEPT ![h].at = "store", ![h].outcome = o]
        /\ IF o = "complete" THEN UNCHANGED slackTrouble ELSE Fails
    /\ UNCHANGED <<asks, claims, lapses, thread, linked, invited, published, copy, agentSessions, freeForAll>>

\* Whatever came is stored, if there is anything; a failure is only logged.
StoreReply(h) ==
    /\ At(h, "store")
    /\ \/ Add([role |-> "assistant", of |-> Of(h)]) /\ UNCHANGED slackTrouble
       \/ Fails /\ UNCHANGED thread
       \/ UNCHANGED <<thread, slackTrouble>>
    /\ Step(h, IF turn[h].outcome = "complete" THEN "map" ELSE "over")
    /\ UNCHANGED <<asks, claims, lapses, linked, invited, published, copy, proxied, agentSessions, freeForAll>>

\* The agent's session is kept for the user's next question.
MapAgentSession(h) ==
    /\ At(h, "map")
    /\ \/ agentSessions' = agentSessions \cup {BotOf(h)} /\ UNCHANGED slackTrouble
       \/ Fails /\ UNCHANGED agentSessions
    /\ Step(h, "over")
    /\ UNCHANGED <<asks, claims, lapses, thread, linked, invited, published, copy, proxied, freeForAll>>

HandleMessage(h) ==
    \/ Refuse(h) \/ EnsureThread(h) \/ SaveThread(h) \/ PersistQuestion(h) \/ ReadThread(h)
    \/ Authorise(h) \/ AskAgent(h) \/ StoreReply(h) \/ MapAgentSession(h)

SlackNext ==
    \/ Unlink
    \/ \E key \in Claims: ClaimLapses(key)
    \/ \E q \in Questions: LinkAccount(q) \/ \E h \in Handlers: Receive(h, q) \/ Reprocess(h, q)
    \/ \E h \in Handlers: HandleMessage(h)

SlackThreadSpec == SlackInit /\ [][SlackNext]_slackVars

-----------------------------------------------------------------------------
\* However many pods are sent a question, however often it is delivered and
\* the user links, no agent is asked it twice within the life of a claim:
\* each lapse of one of its two claims lets it be asked once more, and
\* nothing else does, unless Redis did not answer for the claim.
AskedOnce ==
    \A q \in Questions:
        proxied[q] <= 1 + lapses[OwnKey(q)] + lapses[ReprocessKey(q)] \/ freeForAll

\* Once the document is Slack's and has all the agents, and no handler is
\* about to save an older copy, no message of the thread is lost any more.
Settled ==
    /\ thread # NoThread /\ thread.slack /\ \A q \in Questions: asks[q] \in thread.agents
    /\ \A h \in Handlers: At(h, "save") => ~NeedsSave(h)
SettledKeeps ==
    [][Settled => /\ Settled'
                  /\ thread.messages \subseteq thread'.messages]_slackVars
=============================================================================
