# agentgram: models, checks and proofs

agentgram is a chat front end for AI agents: a Go server (`src/api`) between a
web client (`src/web`), Slack and MCP clients on one side and agents (REST, A2A,
ADK), MCP servers and LLMs on the other.  Sessions, run buffers, read state and
logins live in Redis; configuration, groups and audit in Postgres.  This
directory models the parts whose correctness depends on the order in which
several of these act.

Paths below are relative to `src/api/internal` unless they start with `src/`.

## The system

| Part | State it keeps | Operations | What is hard |
|---|---|---|---|
| Session store (`store/redis.go`) | one JSON document per session, agent-session mappings, user/session index, read counts | create, load, append (Lua), save, rename, clone, delete | whole-document writes next to atomic appends |
| Run buffer (`store/redis.go`) | active-run flag, capped event stream, both with a TTL | append event, start (DEL, SET), compare-and-delete, exists | several runs of a session share one flag and one stream |
| Chat (`handlers/proxy.go`) | one goroutine per request, a namer goroutine per new session | load/create, store question, raise flag, stream, store reply, terminal event, lower flag | overlap, departing clients, partial failure, crash |
| Run reader (`handlers/run_stream.go`) | cursor | replay, follow, stop | terminal event against flag |
| Context (`proxy/context.go`) | none | what an agent has not seen yet | failed turns, several agents |
| Proxies (`proxy/rest.go`, `a2a.go`, `adk.go`, `sse.go`) | open text message, tool calls, accumulated reply | translate the agent's events to AG-UI | draining after the client has gone, partial replies |
| Group debate (`orchestrator/`, `handlers/group_chat.go`, `mcpserver/group.go`) | transcript, attempted agents, deadline | moderator picks, turns run, handoff safeguard, synthesis | termination, budget, partial failure, single terminal event |
| MCP chat loop (`mcp/loop.go`) | rounds, tool calls | LLM call, parallel tools, persist | order of persistence and terminal event |
| MCP registry, client (`mcp/registry.go`, `mcp/client.go`) | servers, sessions, tools | reload, initialise, reconnect | unserialised initialisers |
| OAuth (`mcp/oauth2.go`, `handlers/auth.go`, `middleware/auth.go`, `store/auth_session.go`) | pending states, tokens, login sessions | state check, exchange, refresh, logout | refresh against logout, rotated refresh tokens |
| MCP server (`mcpserver/`) | MCP sessions in memory | initialise, call agent, run debate | the client leaves while the debate goes on |
| Slack (`slack/`) | bots, dedup keys, message streamer | start/stop bots, handle events, debounce updates | timers against Finalize, sync against admin actions |
| Sharing (`handlers/share.go`) | share tokens | create, revoke, clone | check then act |
| Read state, hub (`handlers/readstate.go`, `pubsub/hub.go`) | read counts, subscriptions | mark, publish, subscribe | dropped and reordered notifications |
| Settings, registries (`settings/`, `agents/registry.go`) | snapshots of Postgres rows | reload | a slow reload installing old rows |
| Catalogue (`handlers/admin_*.go`, `repository/postgres`) | rows of agents, groups, skills, MCP servers, models, providers | create, update, delete, audit, resolve | statements of two requests between each other, masks put back, providers deleted in use |
| Rate limiter (`middleware/ratelimit.go`) | limiter per client | get, evict | two limiters for one client |

The rest (`models`, `llm`, `langfuse`, `metrics`, `tracing`, `config`,
`security`, the served web UI) is request/response code or I/O without state of
its own between calls; it is listed under `components` in `PROJECT.json` with
the reason it is left out.

### How the parts meet

A question from the web reaches `ProxyHandler.Chat` (one agent), `GroupChat` (a
moderated debate) or the MCP chat; from Slack, the Slack handler; from another
MCP client, `tools/call`.  Each loads or creates a session in Redis, stores the
question, calls one or more agents through `proxy.Handle`, stores the replies
and tells its client how it went.  The web's handlers also keep a *run buffer*
per session: the active-run flag, which a page load looks at, and the stream of
events a client that reloaded replays.  The parts share no lock: what orders
them is the order of each handler's own commands, and what Redis makes atomic.

Administrators write rows in Postgres; every pod serves copies of them
(settings, registries, Slack bots, clients of MCP servers) that a ticker or the
handler itself refreshes.  Tokens (a login's, a user's for an MCP server, a
Slack link's) are one document or row each, read and written back by every
request that needs them, without a lock, while the provider may rotate them.

### What makes each part correct

- **Chat run**: a run that reports success has stored its reply; with no flag
  the latest run is over and its reply stored; a flag is lowered by its own run,
  replaced by a newer one, or falls by its TTL; one message sent to several
  agents is stored once; an agent's session is remembered only after a good turn.
- **Run reader**: it gets every buffered event of the run it follows, in order,
  and is released in the end.
- **Proxies**: the stream is well formed whatever the agent sends; what is
  stored is what was shown; an error is neither silent nor told twice.
- **Debate**: it ends within its turn and time limits, and never accepts FINISH
  after an answer that could not help while agents are left.
- **Group chat, group tool**: a refused request leaves nothing behind; what the
  client saw is stored or the loss is told; the reason given is true.
- **MCP chat**: a reply is what was shown, part by part, and what a tool has done
  is recorded whatever ends the chat; a server shown as connected can be called.
- **Tokens**: who agreed, logged in or linked stays so while the provider accepts
  the token, and a token that was rotated away is not kept.
- **Slack**: an agent is asked once; all of an answer is shown; bots can be
  stopped and are as the integration says.
- **Session views**: what the owner closed stays closed and what he was given
  opens; the pages of a conversation join; tabs agree on what was read.
- **Configuration**: a copy never goes back and catches up in the end; an answer
  lists what was saved; a change is recorded; a model resolved is one that was
  there, with the key that belongs to it.

## Modules

Written in this order; each is built on those before it.

| Module | Models | Builds on |
|---|---|---|
| `RunBuffer` | `store/redis.go`: flag and event stream, each command able to fail | |
| `RunReader` | `handlers/run_stream.go`: the XREAD loop of a returning client | `RunBuffer` |
| `ChatRun` | `handlers/proxy.go`: overlapping runs on one session, the namer, deletion, TTLs, crashes, page loads | `RunReader` |
| `Debate` | `orchestrator/orchestrator.go`: the moderated loop, whose actions both its callers take | |
| `GroupChat` | `handlers/group_chat.go`: one debate from request to terminal event | `Debate`, `RunBuffer` |
| `TurnStream` | `proxy/sse.go`, `proxy/proxy.go`: writer, reply and retries, common to all protocols | |
| `RestProxy`, `A2aProxy`, `AdkProxy` | `proxy/rest.go`, `a2a.go`, `adk.go`: what each does with an agent's event | `TurnStream` |
| `AgentProxy` | `proxy.Handle`: one call of an agent of any protocol | the three |
| `McpCall` | `mcpserver/handler.go`, `session.go`: the waiting handler, `callAgent`, the MCP session's memory | `Debate` |
| `McpGroup` | `mcpserver/group.go`: the goroutine behind a group tool | `McpCall` |
| `Sharing` | `handlers/share.go`, `sessions.go`: links of a session, its renaming, deletion, cloning | |
| `Pages` | `GetSessionPaginated` and the web client's list of messages: pages, its own runs, the whole conversation put in its place | |
| `ReadState` | `handlers/readstate.go`, `pubsub/hub.go` and the client's counts | |
| `Provider` | what a provider does with a refresh token (`auth/oidc.go`, external) | |
| `McpChat` | `mcp/loop.go`, `mcp/chat.go`, `handlers/mcp.go`: rounds, tools, the deferred store | |
| `McpServers` | `mcp/registry.go`, `mcp/client.go`: one server of one pod | |
| `McpTokens`, `McpDiscovery` | `mcp/oauth2.go`: a user's token; the client a server's row gets | `Provider` |
| `AuthSession` | `middleware/auth.go`, `handlers/auth.go`, `store/auth_session.go` | `Provider` |
| `LlmModels` | models and providers, and the three ways a model is resolved | |
| `SlackThread`, `SlackWriter`, `SlackBots`, `SlackLinks` | `slack/`: a thread's questions, the writer of an answer, the bots of an agent, the link of a user | `Provider` |
| `Freshness` | **abstract specification**: a cached copy of a table never goes back | |
| `Settings` | `settings/settings.go`: the settings of every pod, shown to implement `Freshness` | `Freshness` |
| `Catalogue` | `handlers/admin_*.go`, `agents/registry.go`, `mcpserver/admin.go`: agents, MCP servers, groups, skills | |
| `MC*` | constants of the small instances; `MCClientView`, `MCMcpChat`, `MCSlack`, `MCCatalogue` put several modules in one run | |
| `ChatRunClaims`, `LlmModelsClaims` | what comments say and the code does not do | |
| `ChatRunProofs`, `DebateProofs`, `GroupChatProofs`, `McpGroupProofs`, `SettingsProofs`, `SlackProofs`, `McpProofs`, `ClientProofs` | theorems | |

### State and actions against the code

A variable `pc` (per run in `ChatRun`) is the handler's position; every action
is one command to Redis or Postgres, one event to the client, or one answer of
an agent or of the moderator's model, in the order of the code.  What a handler
computes between two such steps belongs to the earlier of them.  Names follow
the source: `SetActiveRun` is `DropOldStream` then `RaiseFlag` (it is two
commands), `persistTurnResult` is `StoreNotice`, `StoreReply`, `StoreMapping`,
`Debate` is `Begin`, `NextRound`, `AskModerator`, `AskAgain`, `TakeTurn`.  `map`
in `PROJECT.json` gives the lines of each definition.

- *A failing command* is a second disjunct with `Fails`, which takes one from the
  budget `faults`.  Where an SQL statement may take effect and still report
  failure (a row inserted just before the deadline) the model has that outcome.
- *A message* is a record of whose it is and what about; texts are told apart by
  run or turn, and in `Debate` by whether `handoffMarkers` matches.
- *The run buffer's log* is a history: a Redis stream ID is an index in it, and
  `stream` is the set of IDs Redis still holds, so trimming, deletion and a
  reader's position need no clock.
- *An agent's call* is, in `ChatRun`, `GroupChat` and `McpCall`, one step with
  one of the outcomes `Endings` or `Calls`.  `AgentProxy` is the inside of that
  step, and shows which outcomes exist: text kept after an error (REST, A2A),
  nothing kept when a write to a departed client fails (ADK), a rotated session.
- *A version* (`Settings`, `Catalogue`) is the transaction that wrote a row or a
  column: what is stored is a function of it, and "older" is "smaller".
- *A token* is a number; `Provider` says which are accepted, whether a refresh
  replaces one, and forgets those nobody holds, so that numbers can be reused.
- *A statement* of Postgres is one action.  Where two of a transaction matter to
  others (`LlmModels`, at READ COMMITTED) the transaction is several actions
  with the row locks and the foreign key between them.
- *A history variable* is marked as such where it is declared.  Several
  properties except a case the code does not handle (a failed call, two sendings
  at once, a document written back); the history says exactly when, and the
  exceptions are listed under "What the code does not promise".
- *A deadline* (`expired`) may pass between any two steps; after it commands on
  the call's context fail, and those with a context of their own do not.
- `GroupChat` and `McpGroup` keep `Debate`'s variables and take its actions as
  conjuncts, as the handlers call `Debate` with a callback for a turn.  That they
  behave as the debate does is therefore by construction and claimed nowhere;
  what is checked of the loop is what its callers' clients see of it
  (`LimitsHeld`, `HandoffHonoured`, `ToldTruly`).  The refinement that does say
  something is `Settings`' of `Freshness` (`INSTANCE ... WITH`).
- *A key with a TTL*: what TTL means to others is an action.  Claims lapse
  (`ClaimLapses`), tokens and logins are dropped (`Lapse`, `LoginLapses`), a flag
  falls; a claim's lapses are counted, and the bound on trouble covers them.
- *What a client shows* (`Pages`) is changed by pages (`ShowNewest`, `ShowOlder`),
  by its own runs (`SendMessage`, which may keep a prefix only, as a retry does,
  and `StreamEnds`), and by the whole conversation (`AskWhole`, `ShowWhole`),
  which leaves the cursor of the next older page as it was.  The check that
  nothing is replaced while streaming (`useChat.ts:1126`) is made of the value at
  the time of asking, so a run may have begun since.

## What the runs check

| Run | Instance | Shows |
|---|---|---|
| `chat_broadcast` | two runs of one broadcast, one reader, one Redis failure, a stale upgrade | types; `FinishedMeansSaved`, `LatestIsSettled`, `BroadcastWhole` (the question is stored once, its owner's replay is complete) survive the overlap |
| `chat_recovery` | two runs, one reader, one crash, with fairness | `Recovers`: flags fall, readers are released |
| `chat_solo` | the run that creates a session, with every outcome of its agent, the namer, a page load, deletion, one crash, one failure | `RepliesInOrder` |
| `group_debate` | two agents, three turns, one failure, the deadline, with fairness | `LimitsHeld` (turns announced in order and within the limit, nothing answered after the deadline), `HandoffHonoured`, `ToldTruly`, `EveryRunEnds` |
| `group_failures` | two agents of both kinds (draining or not), two turns, seven outcomes of a call, two failures, deadline, departure, deletion | `NoOrphan`, `RepliesKept` |
| `client_view` | a call of an agent of three protocols: four events, two tool calls of two names, a client that may leave anywhere, one rotation; *or* two requests to a session's links; *or* two conversations read in pages of two, with two runs of the client's own and replacement by the whole; *or* two tabs with a hub queue of one | types; `StoredAsShown`, `ReplyComplete`, `ToldOnStream`, `ResultsMatched`; `LinksHold`; `ViewsAgree` |
| `mcp_tools` | ask and group tools, two agents, three turns, what an earlier call may have left, one failure, deadline, departure, deletion, with fairness | `CompleteMeansStored`, `NoOrphan`, `HandedBackUsable`, `EveryCallEnds` |
| `mcp_chats` | two models of one provider under two editors and two resolutions; *or* one server, one client, two sessions, a user and refreshes; *or* a chat of two rounds of up to two tools; *or* a user's token under two requests; *or* the discovery of two authorization servers; *or* a login under two requests | `ModelsSound`, `StatusTells`, `ReplyAsShown`, `EffectsKept` (with fairness), `GrantsLast` |
| `slack` | two questions of a thread, three handlers and a claim that may lapse; *or* an answer of four pieces in messages of two, two timers; *or* two pods' bots under two saves and a restart; *or* a link under two workers | `AskedOnce`, `SettledKeeps`, `AllShown`, `BotsRight` (with fairness), `LinkBacked` |
| `catalogue` | the settings under two requests and a ticker, with a restart; *or* one request to any of the four kinds of resources beside its pod's ticker | `SavedIsListed`, `NeverBack` (implements `Freshness`), `CopiesFollow`, `ChangesRecorded` (with fairness) |
| `claim_append`, `claim_model` | the smallest instance that shows it | the findings below |

A run with *or* checks modules that share no state: a variable `part`, fixed
initially, says which of them moves, and the others keep one initial state.  The
run's states are the sum of the parts', and a property of one part says nothing
of behaviours of another.

### Bounds, and why they are enough

*Two runs*: the flag and the stream compare a run with at most one other, and
`ChatRunProofs` removes the bound for the safety properties of the flag and of
success.  *Two agents and three turns*: two are needed for a handoff, a
synthesis and two speakers, and a debate that FINISHes after both have spoken
has a third turn left; the third also lets an agent speak again after the other.
*One or two failing commands*: one that matters and one in the cleanup it
causes; in `mcp_tools` the deadline is the other.  `mcp_tools` has two outcomes
of a call (a good reply, and one that broke off and could not help) beside the
failures of the deadline; the other outcomes are in `group_failures`.
*Four events* reach a text, a tool call, its result and an error, or a summary
and its retry.  `StreamCap` is larger than any log of an instance: `Trims` may
keep more than the cap, so overflow is in the model, but a run that reaches it
is not in these instances; `OwnerReplayed` claims nothing then.  `Lookback` is
the code's five; the lists are shorter, so the instances check the duplicates
and not what lies beyond.

*Two requests, workers, tabs* or *callers* at a time: each of the token, link and
view modules has one document, and what goes wrong is one request between
another's read and its write; where a request ends it may begin again, so
behaviours are not bounded in length.  *Three or four tokens* in use at one time
are the one stored, one per request, and a new one.  *Two models, one provider*:
the default and another, on one row two editors fight over.  *Two rounds of two
tools* reach a tool that fails between others and the round limit with a call
pending.  *Three handlers* of two questions are a delivery, a second one and the
same question put again after linking;
one call that fails, claim that lapses or link revoked (`MaxSlackTrouble`) is the
one that lets a second asking through, and the proof removes the bound.
*Four pieces in messages of two* make an
answer of two full messages, and a third that the final text opens.  *Two pods*:
the one that served the request, and one that follows by its ticker.  *Five
messages in pages of two* are three pages, the last of one message; *two runs* of
the client's own are one before and one after a page or a replacement, and a
conversation is written back shorter once.  `client_view` has a `CONSTRAINT`,
`Untorn`: a view that was torn is not followed further.  Nothing is claimed of a
torn view, and the choice of another conversation (`SelectSession`), the only
step that mends one, empties it: what follows depends only on how many messages
are stored and runs were made, and these counts are reached without tearing too.
`ViewsAreTrue` is proved without the constraint.

Deadlock is not checked: every request ends, and an ended system stops.

### Fairness

*A run, a handler, a goroutine* goes on (`WF` on its steps): every call it makes
is bounded by a timeout of its own (the agent's, the model's, 5 s for what stores
a reply), and a failing command counts as a step.  *A reader* returns from XREAD
within its 15 s block.  *The flag* has a TTL.  *An MCP chat* (`ChatFairness`) goes
on: model, tools and Redis answer or time out; a user need not come back.  *The
tickers* of a pod fire each 30 s and what they started returns, whatever it
returns (`SettingsFairness`, `CatalogueFairness`, `BotsFairness`); a request that
has been received goes on, none must be made.  Nothing is assumed of clients,
of the user or of failures: no one must reconnect, leave or delete, and no
command must succeed.

## What is proved

With TLAPS, for every value of the constants that meets the named assumptions
(`NoRunAssumption`, `StreamCapAssumption`, `RosterAssumption`,
`MaxTurnsAssumption`, `CallsAssumption`, `McpCallsAssumption`, `UsersAssumption`,
... in the modules that declare the constants; TLC evaluates them in the runs).
They say that a bound is a number, that a "none" is not one of the things it
stands beside (`NoDocAssumption`, `NoTokenAssumption`, `NoRowsAssumption`, ...),
and which sets are not empty.  Each inductive invariant named here was checked by
TLC on the run of its property before it was proved.

**`ChatRunProofs`**: for any number of overlapping runs, readers, page loads,
failures and crashes
- `TypeCorrect`: `TypeOK`.  Inductive with `CopyHeld`: a run about to write a
  document back holds one.
- `FinishedReplies`: `FinishedMeansSaved`; `LatestSettled`: `LatestIsSettled`.
  Neither is inductive.  `ChatInv` adds `ReplyRecorded` (what each position of a
  run says of its reply: at `finish` without a failure it is acknowledged),
  `FinishedIsOver` (a run whose RUN_FINISHED is in the log never goes back), and
  `FlagIsLatest` (the flag is that of the run that raised it last or down, and
  down means that run is over).
- `FlagOnlyToNewer`: the action property, from the actions and the types.
- `MappedAnswered`: an agent is mapped only after a run of it stored its reply
  (`AnsweredFirst`: also in every copy and page).
- `StoredOnceOnly` and `BroadcastKept` (`BroadcastWhole`).  The single question
  is `OnceInv`, of the session and of every stale copy.  The replay is
  `ReplayInv`: a run that has not raised its flag has written nothing (`Silent`),
  so when `DropOldStream` empties the stream nothing of the new owner is lost; as
  long as one event of the owner is in the stream all are (`OwnerBuffered`), and
  a reader who follows him, or was closed by his last event, has what he wrote up
  to the reader's position (`OwnerRead`).
- `OrderKept` (`RepliesInOrder`), from `OrderInv`: the creator is the first to
  write (`CreatorFirst`), whoever awaits an answer has his question in the
  session (`Asked`), and the copies are in order too.  Its hypothesis is
  `\A r \in Upgrading \cup Naming : Runs = {r}`: a run that writes a whole
  document back has the session for itself.  Without it the statement is false,
  as finding 1 shows: the document written back has lost what came in between.

**`DebateProofs`**: for every roster and turn limit, `DebateTyped`, `Handoff`
(`HandoffHonoured`) and `TurnLimit`.  `DebateInv` adds `VerdictEnds` (there is a
verdict exactly when the loop is over), `TurnsBounded` (while a turn or an answer
is awaited there is one left) and `VerdictTrue` (what a verdict says of the turns
that were taken), which the handlers' proofs take over.

**`GroupChatProofs`**: for every roster, turn limit, outcome of a call and number
of failures
- `GroupHandoff` (`HandoffHonoured`): the safeguard, of the handler as a whole.
- `GroupLimits` (`LimitsHeld`).  `AnnouncedInv`: the turns announced are those the
  debate has taken and the one at hand (`Turned`), in their order.  With the
  debate's `TurnsBounded` that bounds what the client sees; so a loop that forgot
  its limit would fail here.  For the deadline, `Held(k)` is inductive from the
  moment it passes: turn k has not begun, or stands before its answer, or was
  the last; and so is `NoSynthesis`.
- `GroupTypeCorrect`: `TypeOK` with `InPlace`, which says where the debate stands
  at each step of the handler.
- `GroupNoOrphan` (`NoOrphan`), from `SetupInv`: what each step of the set-up and
  of its undoing has achieved.
- `GroupToldTruly` (`ToldTruly`), from `ToldInv`: what is about to be said and
  what was stored agree with the debate's verdict (`ReasonStands`,
  `EndsWell`), and a synthesis stands on two speakers (`SynthesisHeld`).
- `GroupRepliesKept` (`RepliesKept`), from `KeptInv`: every turn but the one at
  hand (`TurnAtHand`) is stored or was lost to a failed command (`TurnsStored`),
  in the order of the turns (`StoredInOrder`), and so in what was read before
  (`CopyInv`).

**`McpGroupProofs`**: for every roster, set of outcomes and number of failures
- `McpHandoff` (`HandoffHonoured`): the safeguard, of a debate run as a tool.
- `McpTypeCorrect`: `TypeOK` with `Control`, which says where goroutine, handler
  and debate are relative to each other; the debate's turn bound is taken from
  `DebateInvariant`, not proved again (`McpRunsDebate`, a lemma that carries
  `Debate`'s facts over, as `GroupRunsDebate` does above).
- `McpNoOrphan` and `McpHandedBackUsable`: from `CallInv`.  `CleaningUp` says
  that a new session without its question is being set up or being cleaned up,
  and what each step of the cleanup has achieved; `GroupSession` says what each
  step of the set-up has achieved, and that nothing after the question is undone
  but by the user's deletion.
- `McpCompleteStored` (`CompleteMeansStored`): the turns but the one at hand are
  stored in their order or counted as lost, and what the result says of itself is
  true when it is put together (`ResultHonest`).

**`SettingsProofs`**: for any number of pods, requests, failures and restarts
- `SettingsTyped`; `SavedListed` (`SavedIsListed`) and `NeverGoesBack`, the
  refinement of `Freshness`.  `SettingsInv` says that exactly the thread between
  `LockLoad` and `ApplyValues` holds `loadMu` of its pod (`LockHeld`), that
  nothing is newer than the table, that what is about to be applied is no older
  than what it replaces (`FetchedNewer`), and that from its reload on a request
  finds its own version (`SavedKept`).  `FetchedNewer` is what `loadMu` is for:
  without `LockHeld` a second reload could install in between.
- `CatalogueTypeCorrect` (`CatalogueTypeOK`) and `OldOnlyWhereLoadsOverlap`
  (`OldOnlyByOverlap`, the action half of `CopiesFollow`), which has no lock to
  rest on.  `CatalogueInv`: stamps are of transactions that have been
  (`CatalogueTyped`), of which a request has two at most (`StampsLeft`); a column
  is read only into a row that was read (`RowFirst`); no copy is newer than the
  rows (`CopiesReflect`); and a load that was not overtaken replaces a copy by one
  no older (`LoadsNewer`).  Of the requests it assumes that they are finitely
  many, of the rows that there is one and that "absent" is none.
- `ConfigPartsCorrect`: all of these and `ConfigTypeOK`, of the composition.

**`SlackProofs`**, the four parts of the integration, each for any number of what
acts in it
- `AskedOnlyOnce` (`AskedOnce`), for any number of lapses.  A question may be put
  by the handler that took its own claim or, after an invitation to link, by the
  one that took the other.  The argument counts (`Paid`): the times the agent was
  asked, the handlers that have the question on its way (`Way`), and the claims on
  it that are free to be taken (`OwnFree`, `AgainFree`) are together one at most,
  and one more for each claim on it that lapsed.  Taking a claim moves one from
  the free to the way, asking from the way to the asked, an invitation from the
  way to the free; only a lapse adds one.  All under `~freeForAll`: when Redis
  does not answer, everybody asks.
- `ThreadSettles` (the action property `SettledKeeps`).  A handler that is about to
  save was there when the thread settled, or has read the settled document since;
  so its copy has what it saves over (`DocumentTypes`, `SettledStep`).
- `LinksCorrect` (`LinkBacked`), from `LinkInv`: a token in a worker's hands that
  is still to be stored is accepted and in nobody else's (`LoginFresh`,
  `GitHubFresh`), and one in the row is accepted or about to be replaced
  (`LoginSide`, `GitHubSide`); all unless two workers met.
- `BotsCanBeStopped`: the safety half of `BotsRight`, `NoStrayBot`.  A worker who
  holds a bot is at the step that stops or registers it (`HandsFull`), and no two
  start one on a pod but in the exception the property names (`OneStarts`).
- `AnswersAreShown` (`AllShown`), for every text, split and timer.  `Orderly`: a
  message is posted by one sender (`Posting`, `OneSends`), what is shown and what
  is on its way are consecutive stretches of the text (`Measures`), together the
  whole of it (`NothingLost`), and an error is told in the last one
  (`ErrorShown`).
- `SlackPartsCorrect`: the same of the composition that the run checks.
- `SlackTypesCorrect`: its types, `SlackPartsTypeOK`.  Two of the bounds need a
  count.  A handler past its question (`Past`) asked at most once.  And there are
  at most two messages more than pieces of text: what timers are sending, a
  message that is too long, a timer, the end and the beginning may each become
  one (`Load`), and only a new piece of text makes room for another.

**`McpProofs`**, the parts of MCP and of the models
- `StatusIsTrue` (`StatusTells`, both its halves).  `ServersInv`: a client not
  marked `overlapped` has one thread at work (`Alone`), what that thread is about
  to report is what the client's fields say (`ReportsTruly`), and what is not
  made yet is untouched (`Unmade`).  The second half is an action property: of
  all steps only `Reconnect` takes up a client in error that is initialized.
- `WhatWasGrantedLasts` (`GrantsLast`), of the composition; its parts are
  `ConsentsLast` (a token about to be stored is accepted and nobody else's,
  `StoredSafely`; the stored one is accepted or being replaced, `Backed`; a
  consent without a token is one whose token Redis dropped, `OneAtATime`),
  `LoginsLast` (`StageSays`, `LoginFresh`, `LoginBacked`; after a logout that
  met nobody about to write the document, nobody ever is, which is what `inTime`
  says) and `ClientsFit` (a
  client found belongs to the server found, at every step of the saving,
  `SaverFits`).
- `ModelsAreSound` (`ModelsSound`): under two locks and a foreign key no model
  loses its provider, and a resolution holds the row it read.
- `RepliesAsShown` (`ReplyAsShown`), for any number of chats, rounds and tools.
  `ChatInv`: between rounds the stream is the reply, but for the warning it may
  begin with; while tools run it is the reply and the tools of the round
  (`Written`, `Recent`).  The loop of a reply that is stored is over and writes
  nothing more, which also holds of the namer's copy (`StoredIn`).
- `McpPartsCorrect`: `StatusTells`, `ModelsSound` and `ReplyAsShown` of the
  composition; `McpTypesCorrect`: its types, `McpTypeOK`.

**`ClientProofs`**, a session as others see it, for any number of requests, links,
messages, conversations, pages, tabs and any queue length
- `LinksAreTrue` (`LinksHold`).  `SharingInv`: the rows' numbers are 1..n
  (`Numbered`, so the newest is well defined), what a request has been given is
  still there unless revoked (`InHand`), what a revocation covers is revoked
  before its owner is told (`RowsRevoked`), and a deleted session is gone unless a
  renaming brought it back (`GoneOrRevived`); a visit that began after the answer
  finds neither (`LateVisits`).
- `ViewsAreTrue` (`ViewsAgree`).  `PagesInv`: what is shown, and what a run of the
  client's own goes on from, are the messages from one to another (`Those`,
  `Span`), and the next older page is asked from within them (`Covered`,
  `Spans`), or from exactly where they begin unless the whole replaced a view
  with older pages to come (`repeated`); there is one request for an older page
  at a time (`OneAtATime`), and what comes fits (`FitsView`): an older page ends
  at the cursor it was asked with, and the whole reaches beyond it.
  `ReadInv`: an answer not overtaken is the stored number (`Current`), and for a
  tab that missed nothing the last of its queue, or what it shows, is
  (`Converging`).
- `SessionsTyped` (`SessionsTypeOK`), the types of `AgentProxy` among them.  The
  numbers an event can have are those of what an agent sends, which holds with
  `Sizes`: a tool call is one of the things it has sent.  Each step adds a
  sequence of events, notes one thing sent at most, with its call or its answer,
  and leaves the reply's sequences of their type (`WithinBounds`).
- `StreamTellsTruly` (`ToldOnStream`).  `StreamInv`: the writer's flag `open`, from
  which every proxy decides what to write before a text or a tool call, says of
  the events so far whether a message is open (`MessagesKept`); not of an A2A
  agent's whose client has left, whose flag is cleared without an event, which is
  the exception the property makes.  An error among the events is the last thing
  said, and in a debate (`ToldLast`).  Each step adds a stretch of events, and
  what a stretch does to a message open before it is all the proof needs
  (`NestedGrows`).
- `ResultsAreMatched` (`ResultsMatched`).  Where calls of one name do not overlap,
  a call is answered before the next of its name is asked, so that the only one
  an answer can go to is its own (`OwnCall`), and an answer that was sent has been
  taken (`ResultsInv`).
- `ReplyIsComplete` (`ReplyComplete`).  `ReplyInv`: the text kept is what the agent
  said so far and was not hidden, in order (`TextKept`), and as many calls are kept
  as were asked (`CallsKept`).  The ADK proxy's `streamed` and `limited` say what
  the stream holds since the last tool call, and whether a summary came, so that
  an agent's repetition of its text is told from a new one (`Remembers`); before
  the stream nothing is kept (`Untouched`).
- `ReplyIsAsShown` (`StoredAsShown`).  The property compares what is stored with
  what was shown by an order-preserving matching of their positions
  (`SameInOrder`), which says what a selection from both sequences would, and
  which a step extends by one pair at most (`SameGrows`).  `StoredInv`: at every
  point of the stream the parts *with the text not yet flushed* agree with the
  events since the last rotation and with the accumulated text (`Agrees`), and
  that text is flushed when the stream is over.  A step adds events that are no
  part of a reply (`Aside`), a text (`Texting`), a tool call, which an A2A agent
  whose client has left or a summary keeps from the client (`Asking`), or a
  chart, which is put before the text not yet flushed (`Charting`,
  `SameAround`); a rotation announced leaves nothing to agree with until the
  retry begins afresh (`Turning`, `Anew`).

### Only model-checked

Liveness (`Recovers`, `EveryRunEnds`, `EveryCallEnds`, `EffectsKept`, the other
half of `CopiesFollow`, `ChangesRecorded`, the second half of `BotsRight`), which
the prover cannot do.  Every invariant and every other action property that a
passing run checks is stated by a theorem.

## Findings

Disagreements between the code and what the repository says of it, each shown by
a run that fails on purpose:

1. `claim_append`: a reply appended atomically is lost to a whole-document write
   of the namer or of the upgrade to multi-agent (`store/redis.go:352`).
2. `claim_model`: `LLMModelRepo.Get` selects one column more than it scans
   (`repository/postgres/llm.go:77`), so a chat that names a model gets the
   default one (`mcp/loop.go:322`).

### What the code does not promise

Met while modelling.  The models have these behaviours, and the properties named
except them, by a history variable or by what they quantify over:

- With overlapping runs the flag may be down while an earlier run still answers
  (`handlers/proxy.go:461`); what holds is `LatestIsSettled`.
- The ADK proxy stops reading at the first write to a client that has left, and
  keeps nothing at its deadline (`proxy/adk.go:118`, `698`; `ReplyComplete`).
- "The replies above are preserved" may be said of a debate whose later reply was
  not stored (`handlers/group_chat.go:394`, `463`).
- An `ask_<agent>` call that names a session starts a new one
  (`mcpserver/handler.go:930`, `docs/MCP.md:125`).
- A renaming that overlaps a deletion brings the document back
  (`store/redis.go:310`; `LinksHold`, `revived`), and the handler dereferences a
  nil session when it vanishes between its two reads
  (`handlers/sessions.go:246-256`).  Two requests to share at once make two links;
  a revocation closes both.
- An older page that arrives after another conversation was chosen is put in
  front of that one's messages; one that was asked for during a run of the
  client's own is dropped, and one that arrives during it is overwritten by the
  run's next event, while the cursor goes on past it; and a run's messages are
  put behind what was shown when it began, whatever others wrote since
  (`ViewsAgree`, `torn`).
- When the whole conversation replaces the view (`Chat.tsx:227-231`, `402-415`) the
  cursor stays, so the next older page repeats messages already shown
  (`useChat.ts:1186`; `ViewsAgree`, `repeated`: then no message is left out, but
  they need not be shown once).
- A session whose creating pipeline half failed may be left in Redis although
  creation is reported as failed (`store/redis.go:116-122`; `NoOrphan`, `leaks`).
  In `McpCall` and `ChatRun` nobody knows the identifier of such a session, so it
  is as if absent.
- Redis drops an MCP server's token an hour after its access token expired, or
  thirty days after it was stored (`store/mcp_token.go:43-52`), with a refresh token that
  may still be good: the user is disconnected without having asked for it
  (`ConsentLasts`, `lapsed`).  A login's document lapses likewise when nobody
  writes it (`LoginLasts`, `loginLapsed`).
- A request that read a login's document before `Logout` deleted it writes it back
  with a plain SET, and its response gives the browser its cookie again
  (`store/auth_session.go:102-113`, `middleware/auth.go`; `LoginLasts`, `inTime`).
- A tab that lost its event stream connects again without asking for the count,
  and a PUT may be published after a later one (`ViewsAgree`, `missed`).
- A refused refresh deletes an MCP server's token, a Slack link and its row even
  when another request has just replaced it (`mcp/oauth2.go:364`,
  `slack/handler.go:728`), and a save under way undoes a disconnection.
- The metadata of an authorization server is never read again
  (`mcp/oauth2.go:671`), and a client may be registered at the server the MCP
  server names though the administrator gives another (`ClientFits`).
- The backfilled name writes back a login's document another request has replaced
  (`middleware/auth.go:118`; `LoginLasts`, `stale`).
- When Redis does not answer for a claim, every pod asks the agent
  (`slack/dedup.go:28`; `AskedOnce`, `freeForAll`).  A claim lapses after five
  minutes (`slack/dedup.go:11`): a user who follows the invitation to link again
  later than that has the agent asked the same question again
  (`handlers/slack_link.go:212-226`), and so does an event delivered as late
  (`AskedOnce`, `lapses`).
- An update of a catalogue resource through the admin tools stores `***` as its
  credential when the read that would restore it fails (`mcpserver/admin.go:439-443`;
  `docs/MCP.md:163-165` says the round trip is safe).  `RestoreRedacted` of
  `Catalogue` has this outcome; no property is about it.
- A handler of a Slack thread writes back an older copy of its session
  (`slack/handler.go:211`; `SettledKeeps` says from when on it does not).
- Two sendings of a Slack answer may overtake each other (`slack/streamer.go:196`;
  `AllShown`), and two workers that start a bot at once leave one unregistered
  (`slack/manager.go:215`; `NoStrayBot`).
- Registries read their rows outside the mutex, so overlapping reloads may install
  older ones until the next (`agents/registry.go:65`; `OldOnlyByOverlap`).

## What is not modelled

Left out for good: rendering and parsing of payloads, prompts, files, charts
(an entry of the stored reply), metrics; SQL beyond the statements above; the web
client's rendering; token contents and cryptography.  In what is modelled: the
agent's context delta (`proxy/context.go`) is not computed, it is a function on
texts; ADK's streamed text is told from its repetition by the flag the code
keeps, not by comparing strings; several servers share nothing but Redis, so a
crash of one is the crash of its runs.

Narrower than the code, each where a module could be widened:
- `Pages`: `reloadCurrentSession` of the session context, which has no caller; a
  run already under way when a conversation is opened, which is `RunReader`'s.
- `SlackWriter`: a timer fires and takes the lock in one step.  In the code one
  that fired may wait for the lock while `Finalize` holds it, and send after it
  (`slack/streamer.go:196`).  The interval is 200 ms (`streamer.go:17`), where
  `slack/README.md:73` says 500; no property depends on its length.
- `Provider`: revoking a token ends that token, not others of the same grant.
- `LlmModels`: the moderator's cached provider is known by its provider's kind in the
  code (`orchestrator/resolver.go:83`) and by its identifier in the model.
  The key also has the endpoint and the credential, so what the two tell apart
  is called alike.
- `Catalogue`: one pod per part; a panic between commit and `record()` is not
  modelled, other than as the restart of the pod.
- `SlackThread`: renaming or deleting the thread's session from the web, and its
  TTL, are outside the part.

Not modelled and why: handlers that only read (listings, charts, statistics,
configuration of the client) have no order of their own; basic authentication,
role checks, CORS and the rate limiter wrap a request and keep nothing the
models read; Slack's commands and home views are formatting over the same rows;
start-up and wiring happen once.
