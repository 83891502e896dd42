---------------------------- MODULE MCClientView ----------------------------
(***************************************************************************)
(* What a client is shown, for TLC: an agent's answer while it streams,    *)
(* the links to a session, its pages, and what has been read of it.  Each  *)
(* is looked at on its own: a behaviour is about one of them, the others   *)
(* keep an initial state.                                                  *)
(***************************************************************************)
EXTENDS AgentProxy, Sharing, Pages, ReadState

VARIABLE part

clientVars == <<vars, sharingVars, pageVars, readVars, part>>

ClientInit ==
    /\ Init /\ SharingInit /\ PagesInit /\ ReadInit
    /\ part \in {"stream", "share", "pages", "read"}
    \* One initial state of the parts that stand still.  A visitor's own access
    \* does what an inherited one does that is read without failure.
    /\ part # "stream" => protocol = "adk" /\ ~suppressed
    /\ IF part = "share" THEN mayVisit # "own" ELSE mayVisit = "own"

ClientNext ==
    /\ \/ part = "stream" /\ Next /\ UNCHANGED <<sharingVars, pageVars, readVars>>
       \/ part = "share" /\ SharingNext /\ UNCHANGED <<vars, pageVars, readVars>>
       \/ part = "pages" /\ PagesNext /\ UNCHANGED <<vars, sharingVars, readVars>>
       \/ part = "read" /\ ReadNext /\ UNCHANGED <<vars, sharingVars, pageVars>>
    /\ UNCHANGED part

\* A torn view is not followed further: nothing is said of it until another
\* conversation is chosen, and what is shown then does not depend on it.
Untorn == ~torn

ClientSpec == ClientInit /\ [][ClientNext]_clientVars

-----------------------------------------------------------------------------
\* Every variable of an agent's answer and of the session's links, pages and
\* read counts has a value of its type.
SessionsTypeOK == TypeOK /\ SharingTypeOK /\ PagesTypeOK /\ ReadTypeOK

\* Of several views of one session none is wrong for longer than its module
\* says: pages join, tabs agree.
ViewsAgree == PagesJoin /\ TabsAgree

\* A link opens until it is closed, and never after: the two sides of what
\* the owner is told.
LinksHold == ClosedStaysClosed /\ GivenLinkOpens
=============================================================================
