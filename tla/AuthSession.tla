---------------------------- MODULE AuthSession ----------------------------
(***************************************************************************)
(* The login of one browser (middleware/auth.go, handlers/auth.go,         *)
(* store/auth_session.go): a document in Redis with the tokens of the      *)
(* user.  The browser sends requests in parallel; each reads the document, *)
(* refreshes tokens that are about to expire and writes the whole document *)
(* back, with the cookie anew in its response.  Logging out deletes the    *)
(* document, then the cookie; a request that read the document before may  *)
(* bring back both.  A document that is not written for a day lapses.      *)
(* That the cookie lapses is left out: no more requests come then.         *)
(***************************************************************************)
EXTENDS Naturals, Provider

CONSTANTS
    Pages,          \* requests of the browser, each serves one at a time
    MaxLoginTokens, \* bound: refresh tokens in use at one time
    MaxLoginTrouble, \* bound: calls that fail, grants that are withdrawn
    NoLogin         \* no document

ASSUME LoginBoundsAssumption == MaxLoginTokens \in Nat /\ MaxLoginTrouble \in Nat

VARIABLES
    login,          \* the document
    stage,          \* of the browser: out, state saved, code received, in (it has
                    \* the cookie), left
    keyRotates,     \* external: whether Keycloak rotates refresh tokens (fixed)
    keyAccepted,    \* external: the refresh tokens it accepts
    page,           \* per request: what it does, and its copy of the document
    stale,          \* a request stored what another had replaced meanwhile (history)
    leaving,        \* the user has begun to log out (history)
    inTime,         \* when the document was deleted, or found gone, no request
                    \* was about to write it (history)
    loginLapsed,    \* the document lapsed, and was not written since (history)
    denied,         \* Keycloak or Redis failed (history)
    loginTrouble

pastVars == <<leaving, inTime, loginLapsed>>
loginVars == <<login, stage, keyRotates, keyAccepted, page, stale, pastVars, denied, loginTrouble>>

Logins == [refresh: 0 .. MaxLoginTokens, named: BOOLEAN]
ASSUME NoLoginAssumption == NoLogin \notin Logins
NoCopy == [refresh |-> 0, named |-> FALSE]
Stops == {"idle", "refresh", "update", "name", "revoke", "delete", "leave", "create"}
Loads == [at: Stops, copy: Logins, renews: BOOLEAN]
Waiting == [at |-> "idle", copy |-> NoCopy, renews |-> FALSE]

LoginTypeOK ==
    /\ login \in Logins \cup {NoLogin}
    /\ stage \in {"out", "state", "code", "in", "left"}
    /\ keyRotates \in BOOLEAN
    /\ keyAccepted \subseteq 1 .. MaxLoginTokens
    /\ page \in [Pages -> Loads]
    /\ stale \in BOOLEAN /\ denied \in BOOLEAN
    /\ leaving \in BOOLEAN /\ inTime \in BOOLEAN /\ loginLapsed \in BOOLEAN
    /\ loginTrouble \in 0 .. MaxLoginTrouble

LoginInit ==
    /\ login = NoLogin /\ stage = "out"
    /\ keyRotates \in BOOLEAN /\ keyAccepted = {}
    /\ page = [p \in Pages |-> Waiting]
    /\ stale = FALSE /\ denied = FALSE
    /\ leaving = FALSE /\ inTime = FALSE /\ loginLapsed = FALSE
    /\ loginTrouble = MaxLoginTrouble

Denied == loginTrouble > 0 /\ loginTrouble' = loginTrouble - 1 /\ denied' = TRUE
Granting == UNCHANGED <<loginTrouble, denied>>
KeysKept == {page[p].copy.refresh: p \in Pages} \cup (IF login = NoLogin THEN {} ELSE {login.refresh})
Doing(p, at) == page[p].at = at
GoesTo(p, at) == page' = [page EXCEPT ![p].at = at]
Takes(p, at, copy, renews) ==
    page' = [page EXCEPT ![p] = [at |-> at, copy |-> copy, renews |-> renews]]
Done(p) == page' = [page EXCEPT ![p] = Waiting]

-----------------------------------------------------------------------------
(* Logging in.                                                             *)

\* Login: the state and its nonce are kept for five minutes.
SaveState ==
    /\ stage = "out"
    /\ stage' = "state"
    /\ UNCHANGED <<login, keyRotates, keyAccepted, page, stale, pastVars, denied, loginTrouble>>

\* Callback: the state is taken, the code exchanged, the ID token checked.
Callback(p) ==
    /\ stage = "state" /\ Doing(p, "idle")
    /\ \/ /\ \E g \in Granted(keyAccepted, KeysKept, MaxLoginTokens), named \in BOOLEAN:
               /\ keyAccepted' = g.accepted
               /\ Takes(p, "create", [refresh |-> g.token, named |-> named], FALSE)
          /\ stage' = "code"
          /\ Granting
       \/ Denied /\ stage' = "out" /\ UNCHANGED <<keyAccepted, page>>
    /\ UNCHANGED <<login, keyRotates, stale, pastVars>>

Create(p) ==
    /\ Doing(p, "create")
    /\ \/ login' = page[p].copy /\ stage' = "in" /\ Granting
       \/ Denied /\ stage' = "out" /\ UNCHANGED login
    /\ Done(p)
    /\ UNCHANGED <<keyRotates, keyAccepted, stale, pastVars>>

-----------------------------------------------------------------------------
(* A request, of the middleware or of GET /auth/session.                   *)

\* The document; its access token may be about to expire, or may have.
GetLogin(p) ==
    /\ Doing(p, "idle") /\ stage = "in" /\ login # NoLogin
    /\ \/ login.refresh # 0 /\ Takes(p, "refresh", login, FALSE)
       \/ Takes(p, "name", login, FALSE)
    /\ UNCHANGED <<login, stage, keyRotates, keyAccepted, stale, pastVars, denied, loginTrouble>>

\* A refusal is no harm while the access token lasts; afterwards the request
\* is turned away, but the document stays.
TurnedDown(p) == Done(p) \/ GoesTo(p, "name")
\* What comes with the new tokens may tell the name.
Refresh(p) ==
    LET had == page[p].copy.refresh IN
    /\ Doing(p, "refresh")
    /\ \/ /\ \E r \in Refreshed(keyAccepted, had, KeysKept, MaxLoginTokens, keyRotates),
                named \in {page[p].copy.named, TRUE}:
               /\ keyAccepted' = r.accepted
               /\ Takes(p, "update", [refresh |-> r.token, named |-> named], TRUE)
          /\ Granting
       \/ /\ IF had \in keyAccepted THEN Denied ELSE Granting
          /\ TurnedDown(p)
          /\ UNCHANGED keyAccepted
    /\ UNCHANGED <<login, stage, keyRotates, stale, pastVars>>

\* The whole document, whatever is there by now.
Write(copy) == login' = copy /\ loginLapsed' = FALSE

\* A failure is ignored.
Update(p) ==
    /\ Doing(p, "update")
    /\ \/ Write(page[p].copy) /\ Granting
       \/ Denied /\ UNCHANGED <<login, loginLapsed>>
    /\ GoesTo(p, "name")
    /\ UNCHANGED <<stage, keyRotates, keyAccepted, stale, leaving, inTime>>

\* The name of a document without one is taken from the access token, and
\* the document written back once more.  The response then gives the browser
\* its cookie again if the tokens were refreshed.
BackfillName(p) ==
    /\ Doing(p, "name")
    /\ \/ /\ ~page[p].copy.named
          /\ Write([page[p].copy EXCEPT !.named = TRUE])
          /\ stale' = (stale \/ login # page[p].copy)
       \/ UNCHANGED <<login, loginLapsed, stale>>
    /\ stage' = IF page[p].renews THEN "in" ELSE stage
    /\ Done(p)
    /\ UNCHANGED <<keyRotates, keyAccepted, leaving, inTime, denied, loginTrouble>>

-----------------------------------------------------------------------------
(* Logging out.                                                            *)

Harmless == \A o \in Pages: page[o].at \in {"idle", "revoke", "delete", "leave"}

\* Logout reads the document, and does without it when it cannot.  Other
\* requests go on meanwhile, and more begin: the browser has its cookie yet.
Logout(p) ==
    /\ Doing(p, "idle") /\ stage = "in"
    /\ leaving' = TRUE
    /\ \/ login # NoLogin /\ Takes(p, "revoke", login, FALSE) /\ Granting /\ UNCHANGED inTime
       \/ login = NoLogin /\ GoesTo(p, "leave") /\ Granting /\ inTime' = Harmless
       \/ Denied /\ GoesTo(p, "leave") /\ UNCHANGED inTime
    /\ UNCHANGED <<login, stage, keyRotates, keyAccepted, stale, loginLapsed>>

\* RevokeToken, best-effort.
Revoke(p) ==
    /\ Doing(p, "revoke")
    /\ \/ keyAccepted' = keyAccepted \ {page[p].copy.refresh} /\ Granting
       \/ Denied /\ UNCHANGED keyAccepted
    /\ GoesTo(p, "delete")
    /\ UNCHANGED <<login, stage, keyRotates, stale, pastVars>>

Delete(p) ==
    /\ Doing(p, "delete")
    /\ \/ login' = NoLogin /\ inTime' = Harmless /\ Granting
       \/ Denied /\ UNCHANGED <<login, inTime>>
    /\ GoesTo(p, "leave")
    /\ UNCHANGED <<stage, keyRotates, keyAccepted, stale, leaving, loginLapsed>>

\* The response takes the cookie from the browser.
Leave(p) ==
    /\ Doing(p, "leave")
    /\ stage' = "left"
    /\ Done(p)
    /\ UNCHANGED <<login, keyRotates, keyAccepted, stale, pastVars, denied, loginTrouble>>

-----------------------------------------------------------------------------
\* Keycloak ends the session by itself.
EndGrant ==
    /\ Denied
    /\ \E t \in keyAccepted: keyAccepted' = keyAccepted \ {t}
    /\ UNCHANGED <<login, stage, keyRotates, page, stale, pastVars>>

\* Nobody wrote the document for as long as a session lasts.
LoginLapses ==
    /\ login # NoLogin
    /\ login' = NoLogin /\ loginLapsed' = TRUE
    /\ UNCHANGED <<stage, keyRotates, keyAccepted, page, stale, leaving, inTime, denied, loginTrouble>>

LoginNext ==
    \/ SaveState \/ EndGrant \/ LoginLapses
    \/ \E p \in Pages: Callback(p) \/ Create(p) \/ GetLogin(p) \/ Refresh(p) \/ Update(p)
                      \/ BackfillName(p) \/ Logout(p) \/ Revoke(p) \/ Delete(p) \/ Leave(p)

LoginSpec == LoginInit /\ [][LoginNext]_loginVars

-----------------------------------------------------------------------------
\* Whoever logged in stays so, until the document lapses, with a token that
\* Keycloak accepts, however the refreshes of parallel requests interleave:
\* only one of them can be granted and its answer is stored before the next.
\* Whoever logged out stays out, without document and cookie, if no request
\* was about to write the document when it was deleted: one that began between
\* Logout's reading and its deleting brings back both.  Neither holds when the
\* name was filled into a document that another request had replaced.
LoginLasts ==
    ~denied /\ ~stale /\ (\A p \in Pages: Doing(p, "idle")) =>
        /\ stage = "in" /\ ~leaving =>
            IF login = NoLogin THEN loginLapsed ELSE login.refresh \in keyAccepted
        /\ inTime => stage = "left" /\ login = NoLogin
=============================================================================
