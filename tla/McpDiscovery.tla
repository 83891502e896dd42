---------------------------- MODULE McpDiscovery ----------------------------
(***************************************************************************)
(* How an MCP server that is protected by OAuth2 gets an authorization     *)
(* server and a client registered there (mcp/oauth2.go, used by            *)
(* handlers/admin_mcp.go).  What the administrator leaves blank is asked   *)
(* of the MCP server, which names an authorization server; a client is     *)
(* registered on the way.  If there is none after that, one is registered  *)
(* at the authorization server that is going to be stored.  The metadata   *)
(* of an authorization server is read once by each process and kept: it is *)
(* never read again.                                                       *)
(***************************************************************************)
EXTENDS Naturals

CONSTANTS
    AuthServers,    \* authorization servers
    Savers,         \* administrators' requests, each serves one at a time
    NoServer, NoClient, NoOauthRow,
    MaxOutages      \* bound: calls that fail, servers that move, restarts

ASSUME OutagesAssumption == MaxOutages \in Nat
\* What the administrator gave, and nothing at all, are no servers.
ASSUME AuthServersAssumption == {"given", NoServer, NoClient} \cap AuthServers = {}

VARIABLES
    oauthRow,       \* authorization server and client of the mcp_servers row
    names,          \* external: the authorization server the MCP server names
    registering,    \* external: servers with a registration endpoint (fixed)
    moved,          \* external: servers whose endpoints are elsewhere by now
    metadataCache,  \* per authorization server: what is known of it
    saver,          \* per request: what it does, asks for and has found
    elsewhere,      \* the MCP server had named another server than the one
                    \* the administrator gave for the row (history)
    outages

discoveryVars == <<oauthRow, names, registering, moved, metadataCache, saver, elsewhere, outages>>

MaybeServer == AuthServers \cup {NoServer}
\* A client is where it was registered; one given by the administrator is
\* taken to be his concern.
MaybeClient == AuthServers \cup {"given", NoClient}
OauthSettings == [server: MaybeServer, client: MaybeClient]
NothingFound == [server |-> NoServer, client |-> NoClient]
Pausing == [at |-> "idle", asked |-> NothingFound, found |-> NothingFound, foreign |-> FALSE]
SaverStages == {"idle", "probe", "metadata", "register", "ensure", "store"}

DiscoveryTypeOK ==
    /\ oauthRow \in OauthSettings \cup {NoOauthRow}
    /\ names \in MaybeServer
    /\ registering \subseteq AuthServers /\ moved \subseteq AuthServers
    /\ metadataCache \in [AuthServers -> {"none", "old", "new"}]
    /\ saver \in [Savers -> [at: SaverStages, asked: OauthSettings, found: OauthSettings,
                             foreign: BOOLEAN]]
    /\ elsewhere \in BOOLEAN
    /\ outages \in 0 .. MaxOutages

DiscoveryInit ==
    /\ oauthRow = NoOauthRow
    /\ names \in MaybeServer
    /\ registering \in SUBSET AuthServers
    /\ moved = {}
    /\ metadataCache = [a \in AuthServers |-> "none"]
    /\ saver = [w \in Savers |-> Pausing]
    /\ elsewhere = FALSE
    /\ outages = MaxOutages

Outage == outages > 0 /\ outages' = outages - 1
Calm == UNCHANGED outages
Saving(w, at) == saver[w].at = at
Asked(w) == saver[w].asked
Found(w) == saver[w].found
Onward(w, at) == saver' = [saver EXCEPT ![w].at = at]
Finds(w, at, found) == saver' = [saver EXCEPT ![w].at = at, ![w].found = found]
worldVars == <<names, registering, moved>>

\* DiscoverMetadata: what is cached, or the first of the well-known documents
\* that can be read.  Only that is remembered.
Present(a) == IF a \in moved THEN "new" ELSE "old"
Metadata(a) == IF metadataCache[a] # "none" THEN metadataCache[a] ELSE Present(a)
DiscoverMetadata(a) == metadataCache' = [metadataCache EXCEPT ![a] = Metadata(a)]

-----------------------------------------------------------------------------
\* Only what was left blank is taken from what was found.
Merged(asked, found) ==
    [server |-> IF asked.server = NoServer THEN found.server ELSE asked.server,
     client |-> IF asked.client = NoClient THEN found.client ELSE asked.client]
Merges(w, found) ==
    saver' = [saver EXCEPT ![w] =
        [at |-> "ensure", asked |-> NothingFound, found |-> Merged(Asked(w), found),
         foreign |-> NoServer \notin {Asked(w).server, found.server}
                     /\ Asked(w).server # found.server]]

\* CreateMCPServer and UpdateMCPServer.  The scopes may be blank though all
\* else is given.
SaveServer(w, asked, scopes) ==
    /\ Saving(w, "idle")
    /\ saver' = [saver EXCEPT ![w] =
        IF asked.server = NoServer \/ asked.client = NoClient \/ ~scopes
        THEN [Pausing EXCEPT !.at = "probe", !.asked = asked]
        ELSE [Pausing EXCEPT !.at = "ensure", !.found = asked]]
    /\ UNCHANGED <<oauthRow, worldVars, metadataCache, elsewhere, outages>>

\* DiscoverFromMCP: the MCP server's answer to a request without a token, or
\* a well-known document of it, may name an authorization server.
ProbeMcp(w) ==
    /\ Saving(w, "probe")
    /\ \/ names # NoServer /\ Finds(w, "metadata", [NothingFound EXCEPT !.server = names]) /\ Calm
       \/ /\ IF names # NoServer THEN Outage ELSE Calm
          /\ Merges(w, NothingFound)
    /\ UNCHANGED <<oauthRow, worldVars, metadataCache, elsewhere>>

\* A server that is not read is found all the same, without a client.
ReadMetadata(w) ==
    /\ Saving(w, "metadata")
    /\ \/ /\ DiscoverMetadata(Found(w).server)
          /\ IF Found(w).server \in registering THEN Onward(w, "register")
             ELSE Merges(w, Found(w))
          /\ Calm
       \/ /\ metadataCache[Found(w).server] = "none"
          /\ Outage
          /\ Merges(w, Found(w))
          /\ UNCHANGED metadataCache
    /\ UNCHANGED <<oauthRow, worldVars, elsewhere>>

\* RegisterClient.  The endpoint that is known may not be the present one.
CanRegister(a) == Metadata(a) = Present(a)
RegisterFound(w) ==
    LET a == Found(w).server IN
    /\ Saving(w, "register")
    /\ DiscoverMetadata(a)
    /\ \/ CanRegister(a) /\ Merges(w, [server |-> a, client |-> a]) /\ Calm
       \/ /\ IF CanRegister(a) THEN Outage ELSE Calm
          /\ Merges(w, Found(w))
    /\ UNCHANGED <<oauthRow, worldVars, elsewhere>>

EnsureClientRegistered(w) ==
    LET a == Found(w).server IN
    /\ Saving(w, "ensure")
    /\ IF a # NoServer /\ Found(w).client = NoClient
       THEN \/ /\ DiscoverMetadata(a)
               /\ IF a \in registering /\ CanRegister(a)
                  THEN Finds(w, "store", [Found(w) EXCEPT !.client = a])
                  ELSE Onward(w, "store")
               /\ Calm
            \/ /\ Outage
               /\ \/ DiscoverMetadata(a)
                  \/ metadataCache[a] = "none" /\ UNCHANGED metadataCache
               /\ Onward(w, "store")
       ELSE Onward(w, "store") /\ UNCHANGED <<metadataCache, outages>>
    /\ UNCHANGED <<oauthRow, worldVars, elsewhere>>

StoreServer(w) ==
    /\ Saving(w, "store")
    /\ oauthRow' = Found(w)
    /\ elsewhere' = saver[w].foreign
    /\ saver' = [saver EXCEPT ![w] = Pausing]
    /\ UNCHANGED <<worldVars, metadataCache, outages>>

-----------------------------------------------------------------------------
(* The world, and a restart, which forgets the metadata.                   *)

NameAnother ==
    /\ Outage
    /\ \E a \in MaybeServer: names' = a
    /\ UNCHANGED <<oauthRow, registering, moved, metadataCache, saver, elsewhere>>

MoveEndpoints ==
    /\ Outage
    /\ \E a \in AuthServers \ moved: moved' = moved \cup {a}
    /\ UNCHANGED <<oauthRow, names, registering, metadataCache, saver, elsewhere>>

RestartApi ==
    /\ Outage
    /\ metadataCache' = [a \in AuthServers |-> "none"]
    /\ saver' = [w \in Savers |-> Pausing]
    /\ UNCHANGED <<oauthRow, worldVars, elsewhere>>

DiscoveryNext ==
    \/ NameAnother \/ MoveEndpoints \/ RestartApi
    \/ \E w \in Savers:
        \/ \E server \in MaybeServer, client \in {"given", NoClient}, scopes \in BOOLEAN:
            SaveServer(w, [server |-> server, client |-> client], scopes)
        \/ ProbeMcp(w) \/ ReadMetadata(w) \/ RegisterFound(w)
        \/ EnsureClientRegistered(w) \/ StoreServer(w)

DiscoverySpec == DiscoveryInit /\ [][DiscoveryNext]_discoveryVars

-----------------------------------------------------------------------------
\* What is stored fits together, by whichever of the two ways the client was
\* registered and whatever else was saved meanwhile: it is a client of the
\* authorization server that is stored, unless the administrator gave another
\* server than the MCP server names; and there is one whenever that server
\* registers clients, unless a call failed or a server moved.
ClientFits ==
    oauthRow # NoOauthRow =>
        /\ oauthRow.client \in AuthServers => oauthRow.client = oauthRow.server \/ elsewhere
        /\ outages = MaxOutages /\ oauthRow.server \in registering => oauthRow.client # NoClient
=============================================================================
