----------------------------- MODULE SlackLinks -----------------------------
(***************************************************************************)
(* What links one Slack user to an account: a row with the offline token   *)
(* of Keycloak and, for agents that need one, a token of GitHub            *)
(* (slack/handler.go, handlers/slack_link.go,                              *)
(* repository/postgres/slack_user_link.go).  Every message refreshes the   *)
(* first and checks the second; both may be replaced by that.  Messages    *)
(* are handled at one time, by all pods, while the user links anew and an  *)
(* administrator revokes.  A statement is atomic, nothing spans two.       *)
(***************************************************************************)
EXTENDS Naturals, Provider

CONSTANTS
    Workers,        \* requests and events, each serves one at a time
    MaxLinkTokens,  \* bound: tokens of one provider in use at one time
    MaxLinkTrouble, \* bound: calls that fail, grants that are withdrawn
    NoLink          \* no row

ASSUME LinkBoundsAssumption == MaxLinkTokens \in Nat /\ MaxLinkTrouble \in Nat

VARIABLES
    link,           \* the row of slack_user_links
    offline,        \* external: the offline tokens it accepts
    gitHub,         \* external: the refresh tokens GitHub accepts
    worker,         \* per worker: where it is and the token it holds
    linkMishap,     \* a provider or the database failed (history)
    linkTrouble

linkVars == <<link, offline, gitHub, worker, linkMishap, linkTrouble>>

LinkTokens == 1 .. MaxLinkTokens
\* github_token and github_refresh_token are written together: 0 if blank.
Links == [login: LinkTokens, github: {0} \cup LinkTokens]
LinkStages == {"idle", "refresh", "save", "delete", "github", "check", "set", "clear", "insert",
               "revoke"}
Resting == [at |-> "idle", holds |-> 0]

LinksTypeOK ==
    /\ link \in Links \cup {NoLink}
    /\ offline \subseteq LinkTokens /\ gitHub \subseteq LinkTokens
    /\ worker \in [Workers -> [at: LinkStages, holds: {0} \cup LinkTokens]]
    /\ linkMishap \in BOOLEAN
    /\ linkTrouble \in 0 .. MaxLinkTrouble

LinksInit ==
    /\ link = NoLink
    /\ offline = {} /\ gitHub = {}
    /\ worker = [w \in Workers |-> Resting]
    /\ linkMishap = FALSE
    /\ linkTrouble = MaxLinkTrouble

Disrupted == linkTrouble > 0 /\ linkTrouble' = linkTrouble - 1 /\ linkMishap' = TRUE
Undisturbed == UNCHANGED <<linkTrouble, linkMishap>>
Working(w, at) == worker[w].at = at
Holding(w) == worker[w].holds
Proceeds(w, at, holds) == worker' = [worker EXCEPT ![w] = [at |-> at, holds |-> holds]]
Stops(w) == worker' = [worker EXCEPT ![w] = Resting]
OnLogin == {"refresh", "save", "delete", "insert", "revoke"}
OnGitHub == {"check", "set", "clear"}
LinkColumn(column) == IF link = NoLink THEN {} ELSE {link[column]}
OfflineKept == LinkColumn("login") \cup
    {Holding(w): w \in {v \in Workers: worker[v].at \in OnLogin}}
GitHubKept == LinkColumn("github") \cup
    {Holding(w): w \in {v \in Workers: worker[v].at \in OnGitHub}}
AfterLogin(w) == Proceeds(w, "github", 0)

\* INSERT ... ON CONFLICT DO UPDATE, with a blank GitHub token, which keeps
\* the one that is there.
UpsertLogin(login) ==
    link' = IF link = NoLink THEN [login |-> login, github |-> 0] ELSE [link EXCEPT !.login = login]

\* UPDATE: a row that is gone is not made again.
SetGitHubColumns(t) == link' = IF link = NoLink THEN NoLink ELSE [link EXCEPT !.github = t]

-----------------------------------------------------------------------------
(* getUserAuthHeader.                                                      *)

\* Without a row the user is asked to link.
GetLink(w) ==
    /\ Working(w, "idle") /\ link # NoLink
    /\ Proceeds(w, "refresh", link.login)
    /\ UNCHANGED <<link, offline, gitHub, linkMishap, linkTrouble>>

\* A token that comes back as it was need not be stored.  Whatever the reason
\* of a failure, the link is given up.
RefreshLogin(w) ==
    /\ Working(w, "refresh")
    /\ \/ /\ \E replaced \in BOOLEAN:
               \E r \in Refreshed(offline, Holding(w), OfflineKept, MaxLinkTokens, replaced):
               /\ offline' = r.accepted
               /\ IF r.token # Holding(w) THEN Proceeds(w, "save", r.token) ELSE AfterLogin(w)
          /\ Undisturbed
       \/ /\ IF Holding(w) \in offline THEN Disrupted ELSE Undisturbed
          /\ Proceeds(w, "delete", 0)
          /\ UNCHANGED offline
    /\ UNCHANGED <<link, gitHub>>

RotatedUnsaved(w) ==
    /\ Working(w, "save")
    /\ AfterLogin(w)
    /\ Undisturbed
    /\ UNCHANGED <<link, offline, gitHub>>
\* The new token is stored, whatever the row is by now.
SaveRotated(w) ==
    /\ Working(w, "save")
    /\ \/ UpsertLogin(Holding(w)) /\ Undisturbed
       \/ Disrupted /\ UNCHANGED link
    /\ AfterLogin(w)
    /\ UNCHANGED <<offline, gitHub>>

DeleteLinkBlanked(w) ==
    /\ Working(w, "delete")
    /\ link' = [login |-> 0, github |-> 0]
    /\ Stops(w)
    /\ Undisturbed
    /\ UNCHANGED <<offline, gitHub>>
DeleteLink(w) ==
    /\ Working(w, "delete")
    /\ \/ link' = NoLink /\ Undisturbed
       \/ Disrupted /\ UNCHANGED link
    /\ Stops(w)
    /\ UNCHANGED <<offline, gitHub>>

-----------------------------------------------------------------------------
(* getGitHubToken, for an agent that requires one.                         *)

GetGitHubToken(w) ==
    /\ Working(w, "github")
    /\ IF link # NoLink /\ link.github # 0 THEN Proceeds(w, "check", link.github) ELSE Stops(w)
    /\ UNCHANGED <<link, offline, gitHub, linkMishap, linkTrouble>>

\* GetUser tells whether the access token works still; if not it is refreshed,
\* which GitHub answers with new ones.  Failing that, both are cleared.
CheckGitHubToken(w) ==
    LET had == Holding(w) IN
    /\ Working(w, "check")
    /\ \/ had \in gitHub /\ Stops(w) /\ Undisturbed /\ UNCHANGED gitHub
       \/ /\ Undisturbed
          /\ \E r \in Refreshed(gitHub, had, GitHubKept, MaxLinkTokens, TRUE):
               gitHub' = r.accepted /\ Proceeds(w, "set", r.token)
       \/ /\ IF had \in gitHub THEN Disrupted ELSE Undisturbed
          /\ Proceeds(w, "clear", 0)
          /\ UNCHANGED gitHub
    /\ UNCHANGED <<link, offline>>

\* After a refresh, and in GitHubLinkCallback.
SetGitHubToken(w) ==
    /\ Working(w, "set")
    /\ \/ SetGitHubColumns(Holding(w)) /\ Undisturbed
       \/ Disrupted /\ UNCHANGED link
    /\ Stops(w)
    /\ UNCHANGED <<offline, gitHub>>

\* RevokeGitHub.
ClearGitHub(w) ==
    /\ Working(w, "clear")
    /\ \/ SetGitHubColumns(0) /\ Undisturbed
       \/ Disrupted /\ UNCHANGED link
    /\ Stops(w)
    /\ UNCHANGED <<offline, gitHub>>

-----------------------------------------------------------------------------
(* Linking, once the state was taken.                                      *)

\* The code is exchanged for an offline token.
LinkCallback(w) ==
    /\ Working(w, "idle")
    /\ \E g \in Granted(offline, OfflineKept, MaxLinkTokens):
        offline' = g.accepted /\ Proceeds(w, "insert", g.token)
    /\ UNCHANGED <<link, gitHub, linkMishap, linkTrouble>>

StoreLink(w) ==
    /\ Working(w, "insert")
    /\ \/ UpsertLogin(Holding(w)) /\ Undisturbed
       \/ Disrupted /\ UNCHANGED link
    /\ Stops(w)
    /\ UNCHANGED <<offline, gitHub>>

GitHubLinkCallback(w) ==
    /\ Working(w, "idle")
    /\ \E g \in Granted(gitHub, GitHubKept, MaxLinkTokens):
        gitHub' = g.accepted /\ Proceeds(w, "set", g.token)
    /\ UNCHANGED <<link, offline, linkMishap, linkTrouble>>

-----------------------------------------------------------------------------
(* Administrators.                                                         *)

\* AdminRevokeLink: the token is revoked, best-effort, and the row deleted.
AdminRevokeLink(w) ==
    /\ Working(w, "idle") /\ link # NoLink
    /\ Proceeds(w, "revoke", link.login)
    /\ UNCHANGED <<link, offline, gitHub, linkMishap, linkTrouble>>
RevokeToken(w) ==
    /\ Working(w, "revoke")
    /\ \/ offline' = offline \ {Holding(w)} /\ Undisturbed
       \/ Disrupted /\ UNCHANGED offline
    /\ Proceeds(w, "delete", 0)
    /\ UNCHANGED <<link, gitHub>>

AdminRevokeGitHub(w) ==
    /\ Working(w, "idle") /\ link # NoLink
    /\ Proceeds(w, "clear", 0)
    /\ UNCHANGED <<link, offline, gitHub, linkMishap, linkTrouble>>

-----------------------------------------------------------------------------
\* The user takes back what was granted.
WithdrawLink ==
    /\ Disrupted
    /\ \/ \E t \in offline: offline' = offline \ {t} /\ UNCHANGED gitHub
       \/ \E t \in gitHub: gitHub' = gitHub \ {t} /\ UNCHANGED offline
    /\ UNCHANGED <<link, worker>>

LinksNext ==
    \/ WithdrawLink
    \/ \E w \in Workers:
        \/ GetLink(w) \/ RefreshLogin(w) \/ SaveRotated(w) \/ DeleteLink(w)
        \/ GetGitHubToken(w) \/ CheckGitHubToken(w) \/ SetGitHubToken(w) \/ ClearGitHub(w)
        \/ LinkCallback(w) \/ StoreLink(w) \/ GitHubLinkCallback(w)
        \/ AdminRevokeLink(w) \/ RevokeToken(w) \/ AdminRevokeGitHub(w)

LinksSpec == LinksInit /\ [][LinksNext]_linkVars

-----------------------------------------------------------------------------
\* However messages, links and revocations interleave, the row does not keep
\* a token its provider no longer accepts: whoever replaced or revoked it is
\* about to write.  (It may be deleted though it would work: a message whose
\* refresh lost to another's deletes what that stored.)  Not so when a call
\* failed or the user took a grant back, until the next message.
Writes(stages) == \E w \in Workers: worker[w].at \in stages
LinkBacked ==
    link # NoLink /\ ~linkMishap =>
        /\ link.login \in offline \/ Writes({"save", "insert", "delete"})
        /\ link.github \in gitHub \cup {0} \/ Writes({"set", "clear"})
=============================================================================
