------------------------------ MODULE Sharing ------------------------------
(***************************************************************************)
(* A user's session and the links he shares it by (handlers/share.go,      *)
(* handlers/sessions.go, store/redis.go).  The session is one document in  *)
(* Redis, the links are rows in Postgres, and nothing holds the two        *)
(* together: each handler looks at one and then at the other, while the    *)
(* owner revokes, renames or deletes, and either may expire by itself.     *)
(***************************************************************************)
EXTENDS FiniteSets, FiniteSetsExt, Integers

CONSTANTS
    Visits,         \* requests, each serves one at a time
    MaxLinks,       \* bound: rows inserted
    MaxBreaks       \* bound: calls of a store that fail

ASSUME SharingAssumption == MaxLinks \in Nat /\ MaxBreaks \in Nat

VARIABLES
    document,       \* the session's document is in Redis
    link,           \* the shared_sessions rows of the session
    visit,          \* per request: what it is for and how far it has come
    mayVisit,       \* the visitor's access to the agent: his own, one he
                    \* inherits from a group, or none (fixed)
    closed,         \* links covered by a revocation the owner has been told
                    \* of (history)
    erased,         \* the owner has been told that the session is deleted
                    \* (history)
    revived,        \* a document read before was written after the deletion
                    \* (history)
    breaks

sharingVars == <<document, link, visit, mayVisit, closed, erased, revived, breaks>>

Links == 1 .. MaxLinks
NoLink == 0
Purposes == {"create", "revoke", "show", "clone", "rename", "delete"}
OwnersOnly == {"create", "revoke", "rename", "delete"}
Arriving == [for |-> "show", owner |-> FALSE, at |-> "idle", link |-> NoLink, before |-> {},
             late |-> {}, crossed |-> FALSE]

SharingTypeOK ==
    /\ document \in BOOLEAN
    /\ link \in [Links -> {"none", "open", "expired", "revoked"}]
    /\ visit \in [Visits -> [for: Purposes, owner: BOOLEAN, link: Links \cup {NoLink},
                             at: {"idle", "session", "existing", "insert", "update", "link",
                                  "access", "source", "clone", "read", "write", "remove",
                                  "given", "opened", "removed", "revoked"},
                             before: SUBSET Links, late: SUBSET {"closed", "erased"},
                             crossed: BOOLEAN]]
    /\ mayVisit \in {"own", "inherited", "none"}
    /\ closed \subseteq Links
    /\ erased \in BOOLEAN /\ revived \in BOOLEAN
    /\ breaks \in 0 .. MaxBreaks

SharingInit ==
    /\ document = TRUE
    /\ link = [l \in Links |-> "none"]
    /\ visit = [v \in Visits |-> Arriving]
    /\ mayVisit \in {"own", "inherited", "none"}
    /\ closed = {} /\ erased = FALSE /\ revived = FALSE
    /\ breaks = 0

Known == {l \in Links : link[l] # "none"}
Open == {l \in Links : link[l] = "open"}

Reach(v, stage) == visit' = [visit EXCEPT ![v].at = stage]
(* The request ends without an effect of its answer: an error, or a name.  *)
GoAway(v) == visit' = [visit EXCEPT ![v] = Arriving]
Proceed(v, condition, stage) == IF condition THEN Reach(v, stage) ELSE GoAway(v)
(* A link is closed while the request is under way.                        *)
Crossed(w) == [visit[w] EXCEPT !.crossed = visit[w].for = "create"]
Stores == <<document, link, closed, erased, revived>>

(* A call of Redis or Postgres fails: 500.                                 *)
CallFails(v) ==
    /\ visit[v].at \in {"session", "existing", "insert", "link", "source", "clone", "read",
                        "write", "remove", "update"}
    /\ breaks < MaxBreaks
    /\ breaks' = breaks + 1
    /\ GoAway(v)
    /\ UNCHANGED <<Stores, mayVisit>>

-----------------------------------------------------------------------------
(* A request arrives.  A link can be followed once its token was given     *)
(* away, which is not before its row exists.                               *)
Arrive(v, purpose) ==
    /\ visit[v].at = "idle"
    /\ IF purpose \in OwnersOnly
       THEN \E owner \in BOOLEAN :
              visit' = [visit EXCEPT ![v] =
                [Arriving EXCEPT !.for = purpose, !.at = "session", !.owner = owner,
                                 !.before = IF purpose = "revoke" THEN Known ELSE {}]]
       ELSE \E l \in Known :
              visit' = [visit EXCEPT ![v] =
                [Arriving EXCEPT !.for = purpose, !.at = "link", !.link = l,
                                 !.late = {w \in {"closed"} : l \in closed}
                                          \cup {w \in {"erased"} : erased}]]
    /\ UNCHANGED <<Stores, mayVisit, breaks>>

(* The owner's handlers look at the session first: it must exist, and be   *)
(* the caller's.                                                           *)
Own(v) ==
    /\ visit[v].at = "session"
    /\ LET next == CASE visit[v].for = "create" -> "existing"
                     [] visit[v].for = "revoke" -> "update"
                     [] visit[v].for = "rename" -> "read"
                     [] visit[v].for = "delete" -> "remove"
       IN  Proceed(v, document /\ visit[v].owner, next)
    /\ UNCHANGED <<Stores, mayVisit, breaks>>

(* CreateShare gives the newest link that is open, if there is one.        *)
Existing(v) ==
    /\ visit[v].at = "existing"
    /\ visit' = [visit EXCEPT ![v].at = IF Open = {} THEN "insert" ELSE "given",
                              ![v].link = IF Open = {} THEN NoLink ELSE Max(Open)]
    /\ UNCHANGED <<Stores, mayVisit, breaks>>

(* Otherwise it inserts a row, whatever was inserted since.                *)
Insert(v) ==
    /\ visit[v].at = "insert"
    /\ Known # Links
    /\ LET l == Cardinality(Known) + 1 IN
       /\ link' = [link EXCEPT ![l] = "open"]
       /\ visit' = [visit EXCEPT ![v].at = "given", ![v].link = l]
    /\ UNCHANGED <<document, closed, erased, revived, mayVisit, breaks>>

(* A mutant: only the link the owner would be given is revoked.            *)
RevokeNewest(v) ==
    /\ visit[v].at = "update"
    /\ IF Open = {} THEN GoAway(v) /\ UNCHANGED link
       ELSE Reach(v, "revoked") /\ link' = [link EXCEPT ![Max(Open)] = "revoked"]
    /\ UNCHANGED <<document, closed, erased, revived, mayVisit, breaks>>

(* RevokeShare: every row of the session that is not revoked yet.          *)
Revoking == {l \in Links : link[l] \in {"open", "expired"}}

Revoke(v) ==
    /\ visit[v].at = "update"
    /\ link' = [l \in Links |-> IF l \in Revoking THEN "revoked" ELSE link[l]]
    /\ visit' = [w \in Visits |->
                  IF w # v THEN Crossed(w)
                  ELSE IF Revoking = {} THEN Arriving
                  ELSE [visit[v] EXCEPT !.at = "revoked"]]
    /\ UNCHANGED <<document, closed, erased, revived, mayVisit, breaks>>

-----------------------------------------------------------------------------
(* GetSharedSession and CloneSharedSession: the link, the visitor's access *)
(* to the agent, the session.                                              *)
FollowLink(v) ==
    /\ visit[v].at = "link"
    /\ Proceed(v, link[visit[v].link] = "open", "access")
    /\ UNCHANGED <<Stores, mayVisit, breaks>>

(* The groups' permissions that cannot be read count as none.              *)
Access(v) ==
    /\ visit[v].at = "access"
    /\ \/ /\ mayVisit \in {"own", "inherited"}
          /\ Reach(v, "source")
          /\ UNCHANGED breaks
       \/ /\ mayVisit = "none"
          /\ GoAway(v)
          /\ UNCHANGED breaks
       \/ /\ mayVisit = "inherited"
          /\ breaks < MaxBreaks /\ breaks' = breaks + 1
          /\ GoAway(v)
    /\ UNCHANGED <<Stores, mayVisit>>

Source(v) ==
    /\ visit[v].at = "source"
    /\ Proceed(v, document, IF visit[v].for = "show" THEN "opened" ELSE "clone")
    /\ UNCHANGED <<Stores, mayVisit, breaks>>

(* CloneSession of the store reads the document once more and writes the   *)
(* copy, which is a session of the visitor's.                              *)
CloneSession(v) == Proceed(v, document, "opened")

CloneSharedSession(v) ==
    /\ visit[v].at = "clone"
    /\ CloneSession(v)
    /\ UNCHANGED <<Stores, mayVisit, breaks>>

-----------------------------------------------------------------------------
(* RenameSession reads the document and writes it back as a whole.  If it  *)
(* is gone by then, it is there again.                                     *)
RenameRead(v) ==
    /\ visit[v].at = "read"
    /\ Proceed(v, document, "write")
    /\ UNCHANGED <<Stores, mayVisit, breaks>>

RenameWrite(v) ==
    /\ visit[v].at = "write"
    /\ document' = TRUE
    /\ revived' = (revived \/ ~document)
    /\ GoAway(v)
    /\ UNCHANGED <<link, closed, erased, mayVisit, breaks>>

(* DeleteSession leaves the links' rows alone.                             *)
DeleteSession(v) ==
    /\ visit[v].at = "remove"
    /\ document' = FALSE
    /\ Reach(v, "removed")
    /\ UNCHANGED <<link, closed, erased, revived, mayVisit, breaks>>

(* The answer reaches the client.                                          *)
AnswerVisit(v) ==
    /\ visit[v].at \in {"given", "opened", "removed", "revoked"}
    /\ closed' = IF visit[v].at = "revoked" THEN closed \cup visit[v].before ELSE closed
    /\ erased' = (erased \/ visit[v].at = "removed")
    /\ visit' = [visit EXCEPT ![v] = Arriving]
    /\ UNCHANGED <<document, link, revived, mayVisit, breaks>>

(* Links and documents expire.                                             *)
LinkExpires(l) ==
    /\ link[l] = "open"
    /\ link' = [link EXCEPT ![l] = "expired"]
    /\ visit' = [w \in Visits |-> Crossed(w)]
    /\ UNCHANGED <<document, closed, erased, revived, mayVisit, breaks>>

DocumentExpires ==
    /\ document /\ document' = FALSE
    /\ UNCHANGED <<link, visit, closed, erased, revived, mayVisit, breaks>>

SharingNext ==
    \/ \E v \in Visits :
          \/ \E purpose \in Purposes : Arrive(v, purpose)
          \/ Own(v) \/ Existing(v) \/ Insert(v) \/ Revoke(v)
          \/ FollowLink(v) \/ Access(v) \/ Source(v) \/ CloneSharedSession(v)
          \/ RenameRead(v) \/ RenameWrite(v) \/ DeleteSession(v)
          \/ CallFails(v) \/ AnswerVisit(v)
    \/ \E l \in Links : LinkExpires(l)
    \/ DocumentExpires

-----------------------------------------------------------------------------
(* What the owner has closed stays closed: nobody who follows a link after *)
(* the owner was told that it is revoked, or that its session is deleted,  *)
(* gets to see or copy the session, although two requests may have made    *)
(* two links of one session, of which the owner knows one; unless a        *)
(* renaming brought the deleted session back.                              *)
ClosedStaysClosed == \A v \in Visits :
    visit[v].at = "opened" =>
        "closed" \notin visit[v].late /\ ("erased" \in visit[v].late => revived)

(* A link the owner is given opens, unless one was revoked or expired      *)
(* while he was waiting.                                                   *)
GivenLinkOpens == \A v \in Visits :
    visit[v].at = "given" /\ ~visit[v].crossed => link[visit[v].link] = "open"

=============================================================================
