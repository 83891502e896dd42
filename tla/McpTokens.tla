----------------------------- MODULE McpTokens -----------------------------
(***************************************************************************)
(* The OAuth2 token of one user for one MCP server (mcp/oauth2.go,         *)
(* store/mcp_token.go, handlers/mcp_oauth.go).  It is kept in Redis for an *)
(* hour longer than its access token is good for, or for thirty days; it   *)
(* is read by every request that calls the server, and refreshed by the    *)
(* first that finds it expired.  Requests of all pods do so at once; there *)
(* is no lock.                                                             *)
(***************************************************************************)
EXTENDS Naturals, Provider

CONSTANTS
    Callers,        \* requests
    MaxTokens,      \* bound: refresh tokens in use at one time
    MaxTokenTrouble, \* bound: calls that fail, grants that are withdrawn
    MaxConsents,    \* bound: flows through the consent page
    NoToken

ASSUME TokenBoundsAssumption ==
    MaxTokens \in Nat /\ MaxTokenTrouble \in Nat /\ MaxConsents \in Nat

VARIABLES
    token,          \* what Redis holds
    flows,          \* mcp_oauth_state:*, the consents that are under way
    rotates,        \* external: whether a refresh replaces the token (fixed)
    accepted,       \* external: the refresh tokens the server accepts
    user,           \* per request: what it does, with which token
    consented,      \* the user agreed, and did not disconnect since (history)
    lapsed,         \* the token lapsed in Redis, none was stored since (history)
    met,            \* two requests were at work on the token at once (history)
    mishap,         \* a call failed, or the server took back or left out a token (history)
    consents, tokenTrouble

tokenVars == <<token, flows, rotates, accepted, user, consented, lapsed, met, mishap,
               consents, tokenTrouble>>

\* A brief token expires within thirty days, an hour before Redis drops it;
\* another one is dropped after thirty days.
Stored == [refresh: 0 .. MaxTokens, brief: BOOLEAN, expired: BOOLEAN]
ASSUME NoTokenAssumption == NoToken \notin Stored
CallStages == {"idle", "got", "save", "clear", "exchange", "over"}
CallsOf == [at: CallStages, refresh: 0 .. MaxTokens]
Free == [at |-> "idle", refresh |-> 0]

TokensTypeOK ==
    /\ token \in Stored \cup {NoToken}
    /\ flows \in 0 .. MaxConsents
    /\ accepted \subseteq 1 .. MaxTokens
    /\ user \in [Callers -> CallsOf]
    /\ rotates \in BOOLEAN
    /\ consented \in BOOLEAN /\ lapsed \in BOOLEAN /\ met \in BOOLEAN /\ mishap \in BOOLEAN
    /\ consents \in 0 .. MaxConsents /\ tokenTrouble \in 0 .. MaxTokenTrouble

TokensInit ==
    /\ token = NoToken
    /\ flows = 0 /\ accepted = {} /\ rotates \in BOOLEAN
    /\ user = [c \in Callers |-> Free]
    /\ consented = FALSE /\ lapsed = FALSE /\ met = FALSE /\ mishap = FALSE
    /\ consents = 0 /\ tokenTrouble = MaxTokenTrouble

Setback == tokenTrouble > 0 /\ tokenTrouble' = tokenTrouble - 1 /\ mishap' = TRUE
Well == UNCHANGED <<tokenTrouble, mishap>>
Kept == {user[c].refresh: c \in Callers} \cup (IF token = NoToken THEN {} ELSE {token.refresh})
Is(c, at) == user[c].at = at
\* A request begins to work on the token; it may not be the only one.
Begins(c, at, refresh) ==
    /\ user' = [user EXCEPT ![c] = [at |-> at, refresh |-> refresh]]
    /\ met' = (met \/ \E d \in Callers: ~Is(d, "idle"))
Moves(c, at, refresh) == user' = [user EXCEPT ![c] = [at |-> at, refresh |-> refresh]]
Rests(c) == user' = [user EXCEPT ![c] = Free]
\* Save, which also says how long Redis keeps it.
Save(refresh) ==
    /\ \E brief \in BOOLEAN: token' = [refresh |-> refresh, brief |-> brief, expired |-> FALSE]
    /\ lapsed' = FALSE

-----------------------------------------------------------------------------
(* Consent.                                                                *)

\* Login: a state is kept for ten minutes.
Login ==
    /\ consents < MaxConsents
    /\ consents' = consents + 1 /\ flows' = flows + 1
    /\ UNCHANGED <<token, rotates, accepted, user, consented, lapsed, met, mishap, tokenTrouble>>

\* Callback: the state is taken, the code exchanged.
Exchange(c) ==
    /\ Is(c, "idle") /\ flows > 0
    /\ flows' = flows - 1
    /\ \/ /\ \E g \in Granted(accepted, Kept, MaxTokens):
               accepted' = g.accepted /\ Begins(c, "exchange", g.token)
          /\ Well
       \/ Setback /\ UNCHANGED <<accepted, user, met>>
    /\ UNCHANGED <<token, rotates, consented, lapsed, consents>>

SaveExchanged(c) ==
    /\ Is(c, "exchange")
    /\ \/ Save(user[c].refresh) /\ consented' = TRUE /\ Well
       \/ Setback /\ UNCHANGED <<token, consented, lapsed>>
    /\ Rests(c)
    /\ UNCHANGED <<flows, rotates, accepted, met, consents>>

\* Disconnect, whether there is a token or not.
DisconnectUser ==
    /\ token' = NoToken /\ consented' = FALSE /\ lapsed' = FALSE
    /\ met' = (met \/ \E c \in Callers: ~Is(c, "idle"))
    /\ UNCHANGED <<flows, rotates, accepted, user, mishap, consents, tokenTrouble>>

-----------------------------------------------------------------------------
(* GetToken.                                                               *)

\* A token that has not expired is used as it is.  One that cannot be
\* refreshed is cleared.
GetExpired(c) ==
    /\ Is(c, "idle") /\ token # NoToken /\ token.expired
    /\ Begins(c, IF token.refresh = 0 THEN "clear" ELSE "got", token.refresh)
    /\ UNCHANGED <<token, flows, rotates, accepted, consented, lapsed, mishap, consents,
                   tokenTrouble>>

\* refreshToken.  The answer may leave the refresh token out: then there is
\* none any more.
RefreshToken(c) ==
    /\ Is(c, "got")
    /\ \/ /\ \E r \in Refreshed(accepted, user[c].refresh, Kept, MaxTokens, rotates):
               accepted' = r.accepted /\ Moves(c, "save", r.token)
          /\ Well
       \/ /\ user[c].refresh \in accepted
          /\ Moves(c, "save", 0)
          /\ Setback /\ UNCHANGED accepted
       \/ /\ IF user[c].refresh \in accepted THEN Setback ELSE Well
          /\ Moves(c, "clear", 0)
          /\ UNCHANGED accepted
    /\ UNCHANGED <<token, flows, rotates, consented, lapsed, met, consents>>

SaveOldRefresh(c) ==
    /\ Is(c, "save")
    /\ Save(IF token = NoToken THEN user[c].refresh ELSE token.refresh) /\ Well
    /\ Rests(c)
    /\ UNCHANGED <<flows, rotates, accepted, consented, met, consents>>
SaveRefreshed(c) ==
    /\ Is(c, "save")
    /\ \/ Save(user[c].refresh) /\ Well
       \/ Setback /\ UNCHANGED <<token, lapsed>>
    /\ Rests(c)
    /\ UNCHANGED <<flows, rotates, accepted, consented, met, consents>>

\* Delete, whatever is there by now.
ClearToken(c) ==
    /\ Is(c, "clear")
    /\ token' = NoToken
    /\ Rests(c)
    /\ UNCHANGED <<flows, rotates, accepted, consented, lapsed, met, mishap, consents,
                   tokenTrouble>>

-----------------------------------------------------------------------------
(* Time, and the authorization server.                                     *)

Expire ==
    /\ token # NoToken /\ token.brief /\ ~token.expired
    /\ token' = [token EXCEPT !.expired = TRUE]
    /\ UNCHANGED <<flows, rotates, accepted, user, consented, lapsed, met, mishap, consents,
                   tokenTrouble>>

\* Redis drops the token, with its refresh token: an hour after it expired,
\* or thirty days after it was stored.
Lapse ==
    /\ token # NoToken /\ (token.brief => token.expired)
    /\ token' = NoToken /\ lapsed' = TRUE
    /\ UNCHANGED <<flows, rotates, accepted, user, consented, met, mishap, consents, tokenTrouble>>

\* A grant is withdrawn, or has run out.
Withdraw ==
    /\ Setback
    /\ \E t \in accepted: accepted' = accepted \ {t}
    /\ UNCHANGED <<token, flows, rotates, user, consented, lapsed, met, consents>>

TokensNext ==
    \/ Login \/ DisconnectUser \/ Expire \/ Lapse \/ Withdraw
    \/ \E c \in Callers: Exchange(c) \/ SaveExchanged(c) \/ GetExpired(c) \/ RefreshToken(c)
                        \/ SaveRefreshed(c) \/ ClearToken(c)

TokensSpec == TokensInit /\ [][TokensNext]_tokenVars

-----------------------------------------------------------------------------
\* However requests, consents and disconnecting interleave, the token that is
\* kept can be refreshed, or whoever replaced it is about to write.  And a user
\* who agreed stays connected until Redis drops his token for want of use, one
\* who disconnected stays so, unless two requests were at work at once: the one
\* whose refresh is refused clears the token the other just stored, and a save
\* that is under way undoes a disconnect.  Neither holds once a call failed, or
\* the server took back or left out a token.
ConsentLasts ==
    ~mishap =>
        /\ token # NoToken =>
            token.refresh \in accepted \/ \E c \in Callers: user[c].at \in {"save", "clear"}
        /\ ~met /\ (\A c \in Callers: Is(c, "idle")) =>
            /\ token # NoToken => consented
            /\ consented => token # NoToken \/ lapsed
=============================================================================
