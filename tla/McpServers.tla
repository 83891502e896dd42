----------------------------- MODULE McpServers -----------------------------
(***************************************************************************)
(* One MCP server in the registry of one pod (mcp/registry.go) and the     *)
(* client that talks to it (mcp/client.go).  A client is made when the     *)
(* server is registered or its address changes.  Requests of several users *)
(* and the goroutine that first connects work on it at the same time;      *)
(* nothing but its fields is locked.                                       *)
(*                                                                         *)
(* The remote server keeps the sessions it was asked to open.  It may keep *)
(* to one ("already initialized"), forget them, or fail any call.          *)
(***************************************************************************)
EXTENDS Naturals, FiniteSets

CONSTANTS
    Addresses,      \* URL and transport
    Users,          \* requests that need the server
    MaxClients,     \* bound: clients made
    MaxSessions,    \* bound: sessions that are open or remembered at one time
    MaxTrouble      \* bound: failing calls, forgotten sessions

ASSUME ClientBoundsAssumption == MaxClients \in Nat \ {0} /\ MaxSessions \in Nat \ {0} /\ MaxTrouble \in Nat

Clients == 1 .. MaxClients

\* Threads of users are not the goroutines of clients.
ASSUME UsersAssumption == Users \cap Clients = {}
ASSUME AddressesAssumption == Addresses # {}

VARIABLES
    entry,          \* its client in the registry, 0 if there is none
    config,         \* per client: the row its ServerInfo holds
    made,           \* clients made so far
    initialized, mcpSession,    \* per client: Client's fields
    status, toolsOf,            \* per client: ServerInfo's; tools by their session
    work,           \* per thread: what it does and to which client
    live,           \* the remote server's sessions
    overlapped,     \* per client: two threads worked on it at once (history)
    trouble

serverVars == <<entry, config, made, initialized, mcpSession, status, toolsOf, work,
                live, overlapped, trouble>>
registryVars == <<entry, config, made>>
infoVars == <<initialized, mcpSession, status, toolsOf>>

\* A user, or the goroutine started for a client.
Workers == Users \cup Clients
Configs == [address: Addresses, lazy: BOOLEAN]
Idling == [does |-> "nothing", client |-> 0, at |-> "idle", retried |-> FALSE, got |-> 0]
Works == [does: {"nothing", "initialize", "ensure", "reconnect"}, client: 0 .. MaxClients,
          at: {"idle", "terminate", "reset", "hello", "stored", "list", "report"},
          retried: BOOLEAN, got: 0 .. MaxSessions]

ServersTypeOK ==
    /\ entry \in 0 .. MaxClients /\ made \in 0 .. MaxClients
    /\ config \in [Clients -> Configs]
    /\ initialized \in [Clients -> BOOLEAN] /\ overlapped \in [Clients -> BOOLEAN]
    /\ mcpSession \in [Clients -> 0 .. MaxSessions]
    /\ status \in [Clients -> {"disconnected", "error", "connected"}]
    /\ toolsOf \in [Clients -> 0 .. MaxSessions]
    /\ work \in [Workers -> Works]
    /\ live \subseteq 1 .. MaxSessions
    /\ trouble \in 0 .. MaxTrouble

ServersInit ==
    /\ entry = 0 /\ made = 0
    /\ config \in [Clients -> {CHOOSE c \in Configs: ~c.lazy}]
    /\ initialized = [g \in Clients |-> FALSE] /\ overlapped = [g \in Clients |-> FALSE]
    /\ mcpSession = [g \in Clients |-> 0]
    /\ status = [g \in Clients |-> "disconnected"]
    /\ toolsOf = [g \in Clients |-> 0]
    /\ work = [t \in Workers |-> Idling]
    /\ live = {}
    /\ trouble = MaxTrouble

Trouble == trouble > 0 /\ trouble' = trouble - 1
Busy(g) == {t \in Workers: work[t].client = g}
\* A thread takes on a client, beside whoever works on it already.
TakeOn(t, g, does, first) ==
    /\ work' = [work EXCEPT ![t] = [does |-> does, client |-> g, at |-> first,
                                     retried |-> FALSE, got |-> 0]]
    /\ overlapped' = [overlapped EXCEPT ![g] = Busy(g) # {}]

-----------------------------------------------------------------------------
(* The registry.                                                           *)

Unmoved(row) == entry # 0 /\ config[entry].address = row.address

\* LoadFromDB with the row unchanged in address: the connection and everything
\* known of it are kept, the rest of the configuration is replaced.
KeepClient(row) ==
    /\ Unmoved(row) /\ config[entry] # row
    /\ config' = [config EXCEPT ![entry] = row]
    /\ UNCHANGED <<entry, made, infoVars, work, live, overlapped, trouble>>

\* A new server, or a new address: a new client, which connects by itself
\* unless users have credentials of their own.
RegisterClient(row) ==
    /\ ~Unmoved(row) /\ made < MaxClients
    /\ made' = made + 1 /\ entry' = made'
    /\ config' = [config EXCEPT ![made'] = row]
    /\ IF row.lazy THEN UNCHANGED <<work, overlapped>>
       ELSE TakeOn(made', made', "initialize", "hello")
    /\ UNCHANGED <<infoVars, live, trouble>>

\* The row is gone.
DropClient ==
    /\ entry # 0
    /\ entry' = 0
    /\ UNCHANGED <<config, made, infoVars, work, live, overlapped, trouble>>

LoadFromDB == DropClient \/ \E row \in Configs: KeepClient(row) \/ RegisterClient(row)

-----------------------------------------------------------------------------
(* Requests.                                                               *)

EnsureConnected(u) ==
    /\ work[u] = Idling /\ entry # 0 /\ config[entry].lazy
    /\ status[entry] # "connected"
    /\ TakeOn(u, entry, "ensure", "hello")
    /\ UNCHANGED <<registryVars, infoVars, live, trouble>>

\* ListServers, ListTools, Chat and ChatMulti of a lazy server: nothing to do
\* when the client is initialized, whatever its status.
EnsureInitialized(u) ==
    /\ work[u] = Idling /\ entry # 0 /\ config[entry].lazy
    /\ ~initialized[entry]
    /\ TakeOn(u, entry, "ensure", "hello")
    /\ UNCHANGED <<registryVars, infoVars, live, trouble>>

Reconnect(u) ==
    /\ work[u] = Idling /\ entry # 0
    /\ TakeOn(u, entry, "reconnect", "terminate")
    /\ UNCHANGED <<registryVars, infoVars, live, trouble>>

\* It goes on with its task.
GoOn(t, at, retried, got) ==
    work' = [work EXCEPT ![t] = [does |-> work[t].does, client |-> work[t].client, at |-> at,
                                 retried |-> retried, got |-> got]]
Now(t, at) == GoOn(t, at, work[t].retried, work[t].got)
Report(t, says, tools) ==
    /\ status' = [status EXCEPT ![work[t].client] = says]
    /\ toolsOf' = [toolsOf EXCEPT ![work[t].client] = tools]
    /\ work' = [work EXCEPT ![t] = Idling]
\* Only Reconnect forgets the tools when it fails.
ReportError(t) ==
    Report(t, "error", IF work[t].does = "reconnect" THEN 0 ELSE toolsOf[work[t].client])

-----------------------------------------------------------------------------
(* The client.                                                             *)

\* DELETE: the session is forgotten here, and there unless the call fails.
TerminateSession(t) ==
    LET g == work[t].client IN
    /\ work[t].at = "terminate"
    /\ mcpSession' = [mcpSession EXCEPT ![g] = 0]
    /\ \/ live' = live \ {mcpSession[g]} /\ UNCHANGED trouble
       \/ UNCHANGED live /\ Trouble
    /\ Now(t, IF work[t].retried THEN "hello" ELSE "reset")
    /\ UNCHANGED <<registryVars, initialized, status, toolsOf, overlapped>>

ResetClient(t) ==
    /\ work[t].at = "reset"
    /\ initialized' = [initialized EXCEPT ![work[t].client] = FALSE]
    /\ Now(t, "hello")
    /\ UNCHANGED <<registryVars, mcpSession, status, toolsOf, live, overlapped, trouble>>

\* Names of sessions nobody uses or remembers.
NewSessions == (1 .. MaxSessions) \ (live \cup {mcpSession[g]: g \in Clients}
                 \cup {toolsOf[g]: g \in Clients} \cup {work[t].got: t \in Workers})
NewSession == CHOOSE s \in NewSessions: \A r \in NewSessions: s <= r

\* The initialize call: a new session, a failure, or "already initialized",
\* which is met by terminating and asking again, once.
Initialize(t) ==
    /\ work[t].at = "hello"
    /\ \/ /\ NewSessions # {}
          /\ live' = live \cup {NewSession}
          /\ GoOn(t, "stored", work[t].retried, NewSession)
          /\ UNCHANGED <<status, toolsOf, trouble>>
       \/ /\ live # {} /\ ~work[t].retried
          /\ GoOn(t, "terminate", TRUE, work[t].got)
          /\ UNCHANGED <<status, toolsOf, live, trouble>>
       \/ /\ Trouble \/ (live # {} /\ UNCHANGED trouble)
          /\ ReportError(t)
          /\ UNCHANGED live
    /\ UNCHANGED <<registryVars, initialized, mcpSession, overlapped>>

\* Its answer takes effect in the client.
Initialized(t) ==
    LET g == work[t].client IN
    /\ work[t].at = "stored"
    /\ mcpSession' = [mcpSession EXCEPT ![g] = work[t].got]
    /\ initialized' = [initialized EXCEPT ![g] = TRUE]
    /\ Now(t, "list")
    /\ UNCHANGED <<registryVars, status, toolsOf, live, overlapped, trouble>>

\* tools/list, in the session the client has by now.
ListTools(t) ==
    LET g == work[t].client IN
    /\ work[t].at = "list"
    /\ \/ /\ initialized[g] /\ mcpSession[g] \in live
          /\ GoOn(t, "report", work[t].retried, mcpSession[g])
          /\ UNCHANGED <<status, toolsOf, trouble>>
       \/ /\ IF initialized[g] /\ mcpSession[g] \in live THEN Trouble ELSE UNCHANGED trouble
          /\ ReportError(t)
    /\ UNCHANGED <<registryVars, initialized, mcpSession, live, overlapped>>

ReportConnected(t) ==
    /\ work[t].at = "report"
    /\ Report(t, "connected", work[t].got)
    /\ UNCHANGED <<registryVars, initialized, mcpSession, live, overlapped, trouble>>

\* The remote server restarts or expires a session: nobody here is told.
Forget ==
    /\ Trouble
    /\ \E s \in live: live' = live \ {s}
    /\ UNCHANGED <<registryVars, infoVars, work, overlapped>>

ClientStep(t) ==
    \/ TerminateSession(t) \/ ResetClient(t) \/ Initialize(t) \/ Initialized(t)
    \/ ListTools(t) \/ ReportConnected(t)

ServersNext ==
    \/ LoadFromDB \/ Forget
    \/ \E u \in Users: EnsureInitialized(u) \/ Reconnect(u)
    \/ \E t \in Workers: ClientStep(t)

ServersSpec == ServersInit /\ [][ServersNext]_serverVars

-----------------------------------------------------------------------------
\* A server shown as connected can be called: its client is initialized, in
\* the session its tools were listed in.  Only a reconnection under way, or
\* two that overlapped, can break this.
ConnectedCanBeCalled ==
    \A g \in Clients: status[g] = "connected" /\ Busy(g) = {} /\ ~overlapped[g] =>
        initialized[g] /\ toolsOf[g] = mcpSession[g]

\* A client that was initialized but could not list its tools, or whose
\* reconnection failed late, is left in error: no request that merely uses the
\* server, and no refresh of the registry, takes it out; only a reconnection
\* does (registry.go:279 looks at the client, not at the status).
Stuck(g) == status[g] = "error" /\ initialized[g] /\ Busy(g) = {}
ErrorNeedsReconnect ==
    [][\A g \in Clients: Stuck(g) /\ ~Stuck(g)' =>
         \E u \in Users: work'[u].client = g /\ work'[u].does = "reconnect"
      ]_serverVars

\* Both: what the status of a server says of it.
StatusTells == []ConnectedCanBeCalled /\ ErrorNeedsReconnect
=============================================================================
