------------------------------ MODULE MCSlack ------------------------------
(***************************************************************************)
(* What the Slack integration is made of, for TLC: a thread, the writer of *)
(* an answer, the bots of an agent on the pods and the link of a user.     *)
(* Each is looked at on its own: a behaviour is about one of them, the     *)
(* others keep an initial state.                                           *)
(***************************************************************************)
EXTENDS SlackThread, SlackWriter, SlackBots, SlackLinks

CONSTANTS p1, p2, a1, t1, t2, w1, w2

VARIABLE part

everySlackVars == <<slackVars, writerVars, botVars, linkVars, part>>

SlackPartsInit ==
    /\ SlackInit /\ WriterInit /\ BotsInit /\ LinksInit
    /\ part \in {"thread", "writer", "bots", "links"}
    \* Agents are alike: the first question is for the first.
    /\ asks[1] = 1
    \* One initial state of the parts that stand still.
    /\ part # "thread" => linked /\ \A q \in Questions: asks[q] = 1

SlackPartsNext ==
    /\ \/ part = "thread" /\ SlackNext /\ UNCHANGED <<writerVars, botVars, linkVars>>
       \/ part = "writer" /\ WriterNext /\ UNCHANGED <<slackVars, botVars, linkVars>>
       \/ part = "bots" /\ BotsNext /\ UNCHANGED <<slackVars, writerVars, linkVars>>
       \/ part = "links" /\ LinksNext /\ UNCHANGED <<slackVars, writerVars, botVars>>
    /\ UNCHANGED part

SlackSpec ==
    SlackPartsInit /\ [][SlackPartsNext]_everySlackVars /\ (part = "bots" => BotsFairness)

\* Every variable has a value of its type, in each of the four.
SlackPartsTypeOK == SlackTypeOK /\ WriterTypeOK /\ BotsTypeOK /\ LinksTypeOK

\* When administrators leave it alone, every pod comes to have a bot of the
\* agent registered if the integration is enabled, and none if it is not.
EveryPodFollows == part = "bots" => BotsFollow

\* The bots of an agent can be stopped, and are as the integration says.
BotsRight == []NoStrayBot /\ EveryPodFollows
=============================================================================
