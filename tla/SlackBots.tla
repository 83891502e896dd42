----------------------------- MODULE SlackBots -----------------------------
(***************************************************************************)
(* The bots of one agent's Slack integration, one on every pod             *)
(* (slack/manager.go, slack/bot.go, handlers/admin_slack.go).  The pod     *)
(* that serves an administrator's request starts and stops its own bot;    *)
(* the other pods follow when their sync goroutine lists the integrations. *)
(* The map of bots is locked, but not while a bot is read up, made or      *)
(* stopped.                                                                *)
(***************************************************************************)
EXTENDS Naturals, FiniteSets

CONSTANTS
    Pods,
    Admins,         \* administrators' requests; each serves one at a time
    Tokens,         \* what a bot authenticates with
    MaxSaves,       \* bound: administrators' requests
    MaxBots,        \* bound: bots that live at one time on a pod
    MaxBotTrouble,  \* bound: pods that restart, lists that fail
    NoIntegration, NoTokens

ASSUME PodsAssumption == Pods # {}
ASSUME BotBoundsAssumption == MaxSaves \in Nat /\ MaxBots \in Nat /\ MaxBotTrouble \in Nat

VARIABLES
    integration,    \* the row of slack_integrations
    bots,           \* per pod: m.bots[agent], 0 if there is none
    alive,          \* per pod: the bots that are connected, and with what
    job,            \* per worker: what it does, where, with which row and bot
    jostled,        \* pods on which two workers started a bot at once (history)
    saves, botTrouble

botVars == <<integration, bots, alive, job, jostled, saves, botTrouble>>

Ids == 1 .. MaxBots
\* A pod's sync goroutine, or a request.
Gophers == Pods \cup Admins
Integrations == [enabled: BOOLEAN, tokens: Tokens]
Maybe == Integrations \cup {NoIntegration}
Requests == [does: {"upsert"}, to: Integrations] \cup [does: {"delete", "sync"}, to: {NoIntegration}]
Jobs == [at: {"idle", "write", "manage", "get", "replace", "take", "stop", "sync", "check",
              "launch", "register", "erase"},
         pod: Pods, request: Requests, seen: Maybe, bot: 0 .. MaxBots]
Off == [at |-> "idle", pod |-> CHOOSE p \in Pods: TRUE,
        request |-> [does |-> "sync", to |-> NoIntegration], seen |-> NoIntegration, bot |-> 0]

BotsTypeOK ==
    /\ integration \in Maybe
    /\ bots \in [Pods -> 0 .. MaxBots]
    /\ alive \in [Pods -> [Ids -> Tokens \cup {NoTokens}]]
    /\ job \in [Gophers -> Jobs]
    /\ jostled \subseteq Pods
    /\ saves \in 0 .. MaxSaves /\ botTrouble \in 0 .. MaxBotTrouble

BotsInit ==
    /\ integration = NoIntegration
    /\ bots = [p \in Pods |-> 0]
    /\ alive = [p \in Pods |-> [b \in Ids |-> NoTokens]]
    /\ job = [w \in Gophers |-> Off]
    /\ jostled = {}
    /\ saves = 0 /\ botTrouble = MaxBotTrouble

Enabled(row) == row # NoIntegration /\ row.enabled
Pod(w) == job[w].pod
Does(w, at) == job[w].at = at
Goes(w, at) == job' = [job EXCEPT ![w].at = at]
Ends(w) == job' = [job EXCEPT ![w] = Off]
\* Bots that somebody may still stop, or register.
InHand(p) == {bots[p]} \cup {job[w].bot: w \in {v \in Gophers: Pod(v) = p}}
Lives(p, b) == alive[p][b] # NoTokens

-----------------------------------------------------------------------------
(* Requests.                                                               *)

\* Upsert begins with the row as it is, Delete with the bot of its own pod.
Request(w, p, request) ==
    /\ w \in Admins /\ Does(w, "idle") /\ saves < MaxSaves
    /\ saves' = saves + 1
    /\ request.does # "sync"
    /\ job' = [job EXCEPT ![w] = [at |-> IF request.does = "upsert" THEN "write" ELSE "take",
                                  pod |-> p, request |-> request, seen |-> integration, bot |-> 0]]
    /\ UNCHANGED <<integration, bots, alive, jostled, botTrouble>>

\* The row is written.  A bot that was enabled is restarted, if tokens were
\* sent, which may be those it had; one that is not is stopped.
UpsertRow(w) ==
    LET row == job[w].request.to
        seen == job[w].seen IN
    /\ Does(w, "write")
    /\ integration' = row
    /\ \/ ~row.enabled /\ Goes(w, "take")
       \/ row.enabled /\ Enabled(seen) /\ Goes(w, "take")
       \/ row.enabled /\ (Enabled(seen) => seen.tokens = row.tokens) /\ Goes(w, "get")
    /\ UNCHANGED <<bots, alive, jostled, saves, botTrouble>>

DeleteRow(w) ==
    /\ Does(w, "erase")
    /\ integration' = NoIntegration
    /\ Ends(w)
    /\ UNCHANGED <<bots, alive, jostled, saves, botTrouble>>

-----------------------------------------------------------------------------
(* StopBot.                                                                *)

TakeOut(w) ==
    /\ Does(w, "take")
    /\ job' = [job EXCEPT ![w].at = "stop", ![w].bot = bots[Pod(w)]]
    /\ bots' = [bots EXCEPT ![Pod(w)] = 0]
    /\ UNCHANGED <<integration, alive, jostled, saves, botTrouble>>

AfterStop(w) ==
    CASE job[w].request.does = "delete" -> "erase"
      [] job[w].request.does = "upsert" /\ job[w].request.to.enabled -> "get"
      [] OTHER -> "idle"

Without(p, b) == IF b = 0 THEN alive[p] ELSE [alive[p] EXCEPT ![b] = NoTokens]
\* Bot.Stop, once the event it handles is handled.
StopTaken(w) ==
    /\ Does(w, "stop")
    /\ alive' = [alive EXCEPT ![Pod(w)] = Without(Pod(w), job[w].bot)]
    /\ IF AfterStop(w) = "idle" THEN Ends(w)
       ELSE job' = [job EXCEPT ![w].at = AfterStop(w), ![w].bot = 0]
    /\ UNCHANGED <<integration, bots, jostled, saves, botTrouble>>

-----------------------------------------------------------------------------
(* StartBot.                                                               *)

\* The row again: it may have gone, or be someone else's by now.
GetRow(w) ==
    /\ Does(w, "get")
    /\ IF Enabled(integration)
       THEN job' = [job EXCEPT ![w].at = "replace", ![w].seen = integration]
       ELSE Ends(w)
    /\ UNCHANGED <<integration, bots, alive, jostled, saves, botTrouble>>

Starting(p) == {w \in Gophers: Pod(w) = p /\ job[w].at \in {"launch", "register"}}
WillLaunch(w) ==
    /\ Goes(w, "launch")
    /\ jostled' = IF Starting(Pod(w)) = {} THEN jostled ELSE jostled \cup {Pod(w)}

\* Under the lock: the bot that is registered is stopped.
Replace(w) ==
    /\ Does(w, "replace")
    /\ bots' = [bots EXCEPT ![Pod(w)] = 0]
    /\ alive' = [alive EXCEPT ![Pod(w)] = Without(Pod(w), bots[Pod(w)])]
    /\ WillLaunch(w)
    /\ UNCHANGED <<integration, saves, botTrouble>>

\* startBot connects the bot and then registers it, whatever is there by then.
Launch(w) ==
    /\ Does(w, "launch")
    /\ \E b \in Ids:
        /\ ~Lives(Pod(w), b) /\ \A c \in Ids: c < b => Lives(Pod(w), c)
        /\ alive' = [alive EXCEPT ![Pod(w)][b] = job[w].seen.tokens]
        /\ job' = [job EXCEPT ![w].at = "register", ![w].bot = b]
    /\ UNCHANGED <<integration, bots, jostled, saves, botTrouble>>

Register(w) ==
    /\ Does(w, "register")
    /\ bots' = [bots EXCEPT ![Pod(w)] = job[w].bot]
    /\ Ends(w)
    /\ UNCHANGED <<integration, alive, jostled, saves, botTrouble>>

-----------------------------------------------------------------------------
(* The sync goroutine, which is also how a pod begins.                     *)

\* ListEnabled.
SyncFromDB(p) ==
    /\ Does(p, "idle")
    /\ job' = [job EXCEPT ![p] = [Off EXCEPT !.at = "sync", !.pod = p, !.seen = integration]]
    /\ UNCHANGED <<integration, bots, alive, jostled, saves, botTrouble>>

SyncStopsNothing(p) ==
    /\ Does(p, "sync")
    /\ IF Enabled(job[p].seen) THEN Goes(p, "check") ELSE Ends(p)
    /\ UNCHANGED <<integration, bots, alive, jostled, saves, botTrouble>>
\* What is registered but not enabled is stopped.
SyncStops(p) ==
    /\ Does(p, "sync")
    /\ IF Enabled(job[p].seen) THEN Goes(p, "check")
       ELSE IF bots[p] # 0 THEN Goes(p, "take") ELSE Ends(p)
    /\ UNCHANGED <<integration, bots, alive, jostled, saves, botTrouble>>

\* What is enabled but not registered is started.  A bot with old tokens stays.
SyncStarts(p) ==
    /\ Does(p, "check")
    /\ IF bots[p] = 0 THEN WillLaunch(p) ELSE Ends(p) /\ UNCHANGED jostled
    /\ UNCHANGED <<integration, bots, alive, saves, botTrouble>>

\* A pod ends with all that runs on it, and begins again with a sync.
RestartPod(p) ==
    /\ botTrouble > 0 /\ botTrouble' = botTrouble - 1
    /\ bots' = [bots EXCEPT ![p] = 0]
    /\ alive' = [alive EXCEPT ![p] = [b \in Ids |-> NoTokens]]
    /\ job' = [w \in Gophers |-> IF Pod(w) = p THEN Off ELSE job[w]]
    /\ jostled' = jostled \ {p}
    /\ UNCHANGED <<integration, saves>>

BotStep(w) ==
    \/ UpsertRow(w) \/ DeleteRow(w) \/ TakeOut(w) \/ StopTaken(w)
    \/ GetRow(w) \/ Replace(w) \/ Launch(w) \/ Register(w)
Sync(p) == SyncFromDB(p) \/ SyncStops(p) \/ SyncStarts(p)

BotsNext ==
    \/ \E w \in Admins, p \in Pods, request \in Requests: Request(w, p, request)
    \/ \E w \in Gophers: BotStep(w)
    \/ \E p \in Pods: Sync(p) \/ RestartPod(p)

BotsSpec == BotsInit /\ [][BotsNext]_botVars

\* A goroutine that runs goes on; the ticker of every pod goes on.
BotsFairness == \A p \in Pods: WF_botVars(Sync(p)) /\ \A w \in Gophers: WF_botVars(BotStep(w))

-----------------------------------------------------------------------------
\* Every bot that is connected is registered or in somebody's hands, so that
\* it can still be stopped, unless two workers started one on this pod at
\* once.  The one that registers last replaces the other unseen, and that one
\* answers on, even when the integration is disabled or deleted.
NoStrayBot ==
    \A p \in Pods: p \notin jostled => \A b \in Ids: Lives(p, b) => b \in InHand(p)

\* When administrators leave it alone, every pod comes to have a bot registered
\* if the integration is enabled, and none if it is not.
BotsFollow ==
    <>[](\A p \in Pods: bots[p] # 0 <=> Enabled(integration))
=============================================================================
