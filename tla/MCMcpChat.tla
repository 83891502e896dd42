----------------------------- MODULE MCMcpChat -----------------------------
(***************************************************************************)
(* What an MCP chat is made of, for TLC: the models it may use, the        *)
(* connection to a server, the chat itself, the user's token for a server, *)
(* the client a server's row gets and the user's login.  Each is looked at *)
(* on its own: a behaviour is about one of them, the others keep an        *)
(* initial state.                                                          *)
(***************************************************************************)
EXTENDS LlmModels, McpServers, McpChat, McpTokens, McpDiscovery, AuthSession

CONSTANTS v1, e1, e2, c1, c2, u1, d1, a1, a2

VARIABLE part

mcpVars == <<llmVars, serverVars, chatVars, tokenVars, discoveryVars, loginVars, part>>

McpInit ==
    /\ LlmInit /\ ServersInit /\ ChatInit /\ TokensInit /\ DiscoveryInit /\ LoginInit
    /\ part \in {"models", "server", "chat", "token", "discovery", "login"}
    \* One initial state of the parts that stand still.
    /\ part # "models" => \A m \in Models: models[m] = NoRow
    /\ part # "chat" => session = NoSession /\ \A c \in Chats: several[c]
    /\ part # "token" => rotates
    /\ part # "discovery" => names = NoServer /\ registering = {}
    /\ part # "login" => keyRotates

McpNext ==
    /\ \/ /\ part = "models" /\ LlmNext
          /\ UNCHANGED <<serverVars, chatVars, tokenVars, discoveryVars, loginVars>>
       \/ /\ part = "server" /\ ServersNext
          /\ UNCHANGED <<llmVars, chatVars, tokenVars, discoveryVars, loginVars>>
       \/ /\ part = "chat" /\ ChatNext
          /\ UNCHANGED <<llmVars, serverVars, tokenVars, discoveryVars, loginVars>>
       \/ /\ part = "token" /\ TokensNext
          /\ UNCHANGED <<llmVars, serverVars, chatVars, discoveryVars, loginVars>>
       \/ /\ part = "discovery" /\ DiscoveryNext
          /\ UNCHANGED <<llmVars, serverVars, chatVars, tokenVars, loginVars>>
       \/ /\ part = "login" /\ LoginNext
          /\ UNCHANGED <<llmVars, serverVars, chatVars, tokenVars, discoveryVars>>
    /\ UNCHANGED part

McpSpec == McpInit /\ [][McpNext]_mcpVars /\ (part = "chat" => ChatFairness)

\* Every variable has a value of its type, in each of the six.
McpTypeOK ==
    /\ LlmTypeOK /\ ServersTypeOK /\ ChatTypeOK
    /\ TokensTypeOK /\ DiscoveryTypeOK /\ LoginTypeOK

\* What was granted lasts: the user's consent to a server, his login and the
\* client a server was given, each as its module says, whatever overlaps.
GrantsLast == ConsentLasts /\ LoginLasts /\ ClientFits
=============================================================================
