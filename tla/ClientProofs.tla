--------------------------- MODULE ClientProofs ---------------------------
(***************************************************************************)
(* Proofs about what a client is shown of a session, for any number of     *)
(* requests, tabs, conversations and messages: a closed link stays closed  *)
(* and one that was given opens, pages join, tabs agree once nothing is    *)
(* under way, and what is replayed of an agent's answer is well formed and *)
(* what is stored of it.                                                   *)
(* The four parts share no variable; each has an inductive invariant of    *)
(* its own, which the steps of the others leave alone.                     *)
(***************************************************************************)
EXTENDS MCClientView, FiniteSetTheorems, SequenceTheorems, TLAPS

-----------------------------------------------------------------------------
(* The links of a session. *)

\* Rows are inserted one after the other: the known links are the first ones.
Numbered == \E n \in 0 .. MaxLinks : Known = 1 .. n

\* What a request may have in hand where it stands: a revocation covers rows
\* that exist, who follows a link follows one that exists, and only a request
\* that shares the session gives a link away.
InHand == \A v \in Visits :
    /\ visit[v].at = "session" => visit[v].for \in OwnersOnly
    /\ visit[v].at \in {"existing", "insert", "given"} => visit[v].for = "create"
    /\ visit[v].before \subseteq Known
    /\ visit[v].at \in {"link", "access", "source", "clone", "opened", "given"} =>
           visit[v].link \in Links

\* A revocation leaves none of the rows open that it covers, from the moment
\* it is done until its owner is told, and ever after.
RowsRevoked ==
    /\ \A l \in closed : link[l] = "revoked"
    /\ \A v \in Visits : visit[v].at = "revoked" =>
           \A l \in visit[v].before : link[l] = "revoked"

\* A deleted session is gone unless a renaming brought it back.
GoneOrRevived ==
    /\ erased => (~document \/ revived)
    /\ \A v \in Visits : visit[v].at = "removed" => (~document \/ revived)

\* A visitor who came late: the link he follows is one of those that are
\* closed, and nobody passes the check of the link with one; and he came
\* after the deletion only if there was one.
LateVisits == \A v \in Visits :
    /\ visit[v].at = "link" /\ "closed" \in visit[v].late => visit[v].link \in closed
    /\ visit[v].at \in {"access", "source", "clone", "opened"} =>
           "closed" \notin visit[v].late
    /\ "erased" \in visit[v].late => erased
    /\ visit[v].at \in {"clone", "opened"} /\ "erased" \in visit[v].late => revived

SharingInv ==
    /\ SharingTypeOK /\ Numbered /\ InHand /\ RowsRevoked /\ GoneOrRevived
    /\ LateVisits /\ GivenLinkOpens

-----------------------------------------------------------------------------
(* Its pages. *)

\* An answer, or what the client shows: messages of a conversation.
Shown == [of : Conversations \cup {NoConversation}, messages : Seq(Messages),
          more : BOOLEAN, cursor : Nat]

Request == [for : {"nothing", "newest", "older", "whole"},
            of : Conversations \cup {NoConversation}, before : Nat, quiet : BOOLEAN,
            at : {"idle", "asked", "read"}, page : Shown]

PagesTyped ==
    /\ total \in [Conversations -> 0 .. MaxMessages]
    /\ shrunk \subseteq Conversations
    /\ view \in Shown
    /\ stream \in [on : BOOLEAN, base : Seq(Messages)]
    /\ ownRuns \in 0 .. MaxOwnRuns
    /\ ask \in [Asks -> Request]
    /\ torn \in BOOLEAN /\ repeated \in BOOLEAN
    /\ stream.on => view.of \in Conversations \ {NoConversation}
    /\ \A q \in UnderWay : ask[q].of \in Conversations
    /\ \A q \in Asks : ask[q].at = "read" => ask[q].page.of = ask[q].of

\* A page is a stretch of its conversation, and knows what precedes it.
IsPage(p, end) == \E start \in 0 .. end :
    /\ p.messages = Stretch(p.of, start, end)
    /\ p.more <=> start > 0
    /\ p.more => p.cursor = start /\ start < end

\* A list holds the messages of what the client shows from one to another; it
\* goes on within them, or where they begin; and it is their stretch, unless
\* some may be in it again.
Those(list) == {list[i] : i \in DOMAIN list}
Span(c, start, end) == {<<c, i>> : i \in start + 1 .. end}
Spans(list, v, start, end, again) ==
    /\ Those(list) = Span(v.of, start, end)
    /\ start > 0 => v.more /\ v.cursor >= start
    /\ v.more => v.cursor > 0 /\ v.cursor < end
    /\ ~again => /\ list = Stretch(v.of, start, end)
                 /\ v.more <=> start > 0
                 /\ v.more => v.cursor = start
Covered(list, v, n, again) == \E end \in 0 .. n : \E start \in 0 .. end :
    Spans(list, v, start, end, again)

\* So it is with what is shown, and with what a run of the client's own goes
\* on from.
ViewJoins ==
    (view.of # NoConversation /\ view.of \notin shrunk /\ ~torn) =>
        /\ Covered(view.messages, view, total[view.of], repeated)
        /\ stream.on => Covered(stream.base, view, total[view.of], repeated)

\* Unless something is torn, the newest page is asked for alone, into an empty
\* view; and of what is shown, one page before it, and the whole.
OneAtATime == ~torn =>
    \A q \in UnderWay :
        /\ ask[q].for = "newest" =>
               UnderWay = {q} /\ view.of = NoConversation /\ ask[q].before = NoCursor
        /\ ask[q].for = "older" =>
               /\ view.of # NoConversation /\ view.more
               /\ ask[q].of = view.of /\ ask[q].before = view.cursor
               /\ \A p \in UnderWay : ask[p].for = "older" => p = q
        /\ ask[q].for = "whole" => view.of # NoConversation /\ ask[q].of = view.of
        /\ ask[q].for # "nothing"

\* An answer ends where it has to; the whole after where the client goes on.
FitsView(q) ==
    /\ ask[q].for = "newest" => \E end \in 0 .. total[ask[q].of] : IsPage(ask[q].page, end)
    /\ ask[q].for = "older" => IsPage(ask[q].page, ask[q].before)
    /\ ask[q].for = "whole" => \E end \in 0 .. total[ask[q].of] :
           /\ ask[q].page.messages = Stretch(ask[q].of, 0, end)
           /\ view.more => view.cursor < end
AnswersJoin == ~torn =>
    \A q \in Asks : (ask[q].at = "read" /\ ask[q].of \notin shrunk) => FitsView(q)

PagesInv == PagesTyped /\ ViewJoins /\ OneAtATime /\ AnswersJoin

-----------------------------------------------------------------------------
(* What was read. *)

Mark == [at : {"idle", "set", "publish"}, count : Counts, overtaken : BOOLEAN]
Asked == [at : {"idle", "asked", "read"}, count : Counts, stale : BOOLEAN]
Tab == [shown : Counts, line : {"lost", "open"}, queue : Seq(Counts)]

ReadTyped ==
    /\ stored \in Counts
    /\ tab \in [Tabs -> Tab]
    /\ \A t \in Tabs : Len(tab[t].queue) <= QueueCap
    /\ mark \in [Tabs -> Mark]
    /\ poll \in [Tabs -> Asked]
    /\ missed \subseteq Tabs
    /\ losses \in 0 .. MaxLosses

\* An event that was not overtaken, and an answer that is not stale, are of
\* the number that is stored.
Current == \A t \in Tabs :
    /\ mark[t].at = "publish" /\ ~mark[t].overtaken => mark[t].count = stored
    /\ poll[t].at = "read" /\ ~poll[t].stale => poll[t].count = stored

\* While no event is to be published, a tab that missed none either sets a
\* number itself, or ends with the stored one: by the last event on its way,
\* by the answer it has asked for, or because it shows it.
Converging == \A t \in Tabs \ missed :
    ((\A u \in Tabs : mark[u].at # "publish") /\ mark[t].at # "set") =>
        IF tab[t].queue # <<>> THEN tab[t].queue[Len(tab[t].queue)] = stored
        ELSE poll[t].at = "read" \/ tab[t].shown = stored

ReadInv == ReadTyped /\ Current /\ Converging

-----------------------------------------------------------------------------
\* A set of links that is not empty has a largest one.  The sets of those
\* above each of its members are finite: one of them has none of the others
\* below it, and what it belongs to is the largest.
LEMMA MaxOfLinks == ASSUME NEW S \in SUBSET Links, S # {} PROVE Max(S) \in S
<1> DEFINE Above(x) == {y \in S : y > x}
           Family == {Above(x) : x \in S}
<1>1. S \subseteq Int
  BY SharingAssumption DEF Links
<1>2. IsFiniteSet(S)
  <2>1. MaxLinks \in Int
    BY SharingAssumption
  <2>2. IsFiniteSet(Links)
    BY <2>1, FS_Interval DEF Links
  <2> QED BY <2>2, FS_Subset
<1>3. Family \subseteq FiniteSubsetsOf(S)
  <2> SUFFICES ASSUME NEW x \in S PROVE Above(x) \in FiniteSubsetsOf(S)
    BY Zenon
  <2>1. Above(x) \in SUBSET S
    OBVIOUS
  <2>2. IsFiniteSet(Above(x))
    BY <1>2, <2>1, FS_Subset, Zenon
  <2> QED BY <2>1, <2>2, Zenon DEF FiniteSubsetsOf
<1>4. PICK A \in Family : \A B \in Family : <<B, A>> \notin StrictSubsetOrdering(S)
  <2>1. IsWellFoundedOn(StrictSubsetOrdering(S), FiniteSubsetsOf(S))
    BY FS_StrictSubsetOrderingWellFounded
  <2>2. Family # {}
    BY Zenon
  <2> HIDE DEF Family
  <2> QED BY <1>3, <2>1, <2>2, WFMin, Zenon
<1>5. PICK x \in S : A = Above(x)
  BY <1>4, Zenon
<1>6. ASSUME NEW y \in S PROVE x >= y
  <2> SUFFICES ASSUME y > x PROVE FALSE
    BY <1>1
  <2>1. Above(y) \subseteq Above(x) /\ y \in Above(x) /\ y \notin Above(y)
    <3>1. ASSUME NEW z \in S, z > y PROVE z > x
      BY <1>1, <3>1
    <3>2. ~(y > y)
      BY <1>1
    <3> QED BY <3>1, <3>2, Zenon
  <2>2. <<Above(y), Above(x)>> \in StrictSubsetOrdering(S)
    BY <2>1 DEF StrictSubsetOrdering
  <2> QED BY <1>4, <1>5, <2>2, Zenon
<1> QED BY <1>6, Zenon DEF Max

\* The next row has a number of its own, the first that is free.
LEMMA NextRow ==
    ASSUME Numbered, Known # Links
    PROVE  /\ Cardinality(Known) + 1 \in Links \ Known
           /\ Known \cup {Cardinality(Known) + 1} = 1 .. (Cardinality(Known) + 1)
<1>1. PICK n \in 0 .. MaxLinks : Known = 1 .. n
  BY DEF Numbered
<1>2. n \in Nat /\ MaxLinks \in Nat /\ n <= MaxLinks
  BY SharingAssumption
<1>3. Cardinality(1 .. n) = n
  BY <1>2, FS_Interval
<1>4. n # MaxLinks
  BY <1>1 DEF Links
<1> HIDE DEF Known
<1> QED BY <1>1, <1>2, <1>3, <1>4 DEF Links

-----------------------------------------------------------------------------
\* Where a request may stand, and what it may be.
Stages == {"idle", "session", "existing", "insert", "update", "link", "access", "source", "clone",
           "read", "write", "remove", "given", "opened", "removed", "revoked"}
Visit == [for : Purposes, owner : BOOLEAN, link : Links \cup {NoLink}, at : Stages,
          before : SUBSET Links, late : SUBSET {"closed", "erased"}, crossed : BOOLEAN]

\* The requests' part of the type, and the rest of it.
LEMMA SharingTypes ==
    SharingTypeOK <=>
        /\ document \in BOOLEAN
        /\ link \in [Links -> {"none", "open", "expired", "revoked"}]
        /\ visit \in [Visits -> Visit]
        /\ mayVisit \in {"own", "inherited", "none"}
        /\ closed \subseteq Links
        /\ erased \in BOOLEAN /\ revived \in BOOLEAN
        /\ breaks \in 0 .. MaxBreaks
BY Zenon DEF SharingTypeOK, Visit, Stages

\* A request that arrives, goes on, or has a link in hand is one.
LEMMA ArrivingIsVisit == Arriving \in Visit
<1>1. {} \in SUBSET Links /\ {} \in SUBSET {"closed", "erased"}
  OBVIOUS
<1>2. "idle" \in Stages /\ "show" \in Purposes /\ NoLink \in Links \cup {NoLink}
  BY DEF Stages, Purposes
<1> QED BY <1>1, <1>2 DEF Arriving, Visit

\* A request that goes on to another stage, or takes a link in hand.
LEMMA VisitMoves ==
    ASSUME visit \in [Visits -> Visit], NEW v \in Visits, NEW s \in Stages
    PROVE  /\ [visit EXCEPT ![v].at = s] \in [Visits -> Visit]
           /\ [visit EXCEPT ![v] = Arriving] \in [Visits -> Visit]
           /\ \A l \in Links \cup {NoLink} :
                  [visit EXCEPT ![v].at = s, ![v].link = l] \in [Visits -> Visit]
<1> HIDE DEF Stages
<1>1. visit[v] \in Visit
  OBVIOUS
<1>2. [visit[v] EXCEPT !.at = s] \in Visit
  BY <1>1 DEF Visit
<1>3. ASSUME NEW l \in Links \cup {NoLink}
      PROVE  [[visit[v] EXCEPT !.at = s] EXCEPT !.link = l] \in Visit
  BY <1>2, <1>3 DEF Visit
<1> HIDE DEF Visit
<1>4. [visit EXCEPT ![v].at = s] \in [Visits -> Visit]
  BY <1>2
<1>5. [visit EXCEPT ![v] = Arriving] \in [Visits -> Visit]
  BY ArrivingIsVisit
<1>6. ASSUME NEW l \in Links \cup {NoLink}
      PROVE  [visit EXCEPT ![v].at = s, ![v].link = l] \in [Visits -> Visit]
  <2>1. [visit EXCEPT ![v].at = s, ![v].link = l]
          = [visit EXCEPT ![v] = [[visit[v] EXCEPT !.at = s] EXCEPT !.link = l]]
    OBVIOUS
  <2> QED BY <1>3, <2>1
<1> QED BY <1>4, <1>5, <1>6

\* While a link is closed, whoever shares the session is crossed.
LEMMA CrossedIsVisit == ASSUME visit \in [Visits -> Visit], NEW v \in Visits
                        PROVE  Crossed(v) \in Visit
<1>1. visit[v] \in Visit
  OBVIOUS
<1> QED BY <1>1 DEF Crossed, Visit

LEMMA SharingStarts == SharingInit => SharingInv
<1> SUFFICES ASSUME SharingInit PROVE SharingInv
  OBVIOUS
<1> USE SharingAssumption DEF SharingInit
<1>1. SharingTypeOK
  <2>1. link \in [Links -> {"none", "open", "expired", "revoked"}] /\ visit \in [Visits -> Visit]
    BY ArrivingIsVisit
  <2>2. 0 \in 0 .. MaxBreaks
    OBVIOUS
  <2>3. /\ document \in BOOLEAN /\ mayVisit \in {"own", "inherited", "none"}
        /\ closed \subseteq Links /\ erased \in BOOLEAN /\ revived \in BOOLEAN
        /\ breaks \in 0 .. MaxBreaks
    BY <2>2
  <2> QED BY <2>1, <2>3, SharingTypes, Zenon
<1>2. Numbered
  <2>1. Known = 1 .. 0
    BY DEF Known
  <2>2. 0 \in 0 .. MaxLinks
    OBVIOUS
  <2> QED BY <2>1, <2>2 DEF Numbered
<1>3. InHand /\ RowsRevoked /\ GoneOrRevived /\ LateVisits /\ GivenLinkOpens
  BY DEF InHand, RowsRevoked, GoneOrRevived, LateVisits, GivenLinkOpens, Arriving
<1> QED BY <1>1, <1>2, <1>3 DEF SharingInv

\* The types are kept.
LEMMA SharingTypeKept == SharingInv /\ [SharingNext]_sharingVars => SharingTypeOK'
<1> SUFFICES ASSUME SharingInv, [SharingNext]_sharingVars PROVE SharingTypeOK'
  OBVIOUS
<1>0. /\ document \in BOOLEAN
      /\ link \in [Links -> {"none", "open", "expired", "revoked"}]
      /\ visit \in [Visits -> Visit]
      /\ mayVisit \in {"own", "inherited", "none"}
      /\ closed \subseteq Links
      /\ erased \in BOOLEAN /\ revived \in BOOLEAN
      /\ breaks \in 0 .. MaxBreaks
  BY SharingTypes, Zenon DEF SharingInv
<1> DEFINE Goal == /\ document' \in BOOLEAN
                   /\ link' \in [Links -> {"none", "open", "expired", "revoked"}]
                   /\ visit' \in [Visits -> Visit]
                   /\ mayVisit' \in {"own", "inherited", "none"}
                   /\ closed' \subseteq Links
                   /\ erased' \in BOOLEAN /\ revived' \in BOOLEAN
                   /\ breaks' \in 0 .. MaxBreaks
<1> SUFFICES Goal
  BY SharingTypes, Zenon DEF SharingTypeOK, Visit, Stages
<1>S. \A v \in Visits : /\ \A s \in Stages : [visit EXCEPT ![v].at = s] \in [Visits -> Visit]
                        /\ [visit EXCEPT ![v] = Arriving] \in [Visits -> Visit]
  BY <1>0, VisitMoves DEF Stages
<1>T. \A v \in Visits, s \in Stages, l \in Links \cup {NoLink} :
          [visit EXCEPT ![v].at = s, ![v].link = l] \in [Visits -> Visit]
  BY <1>0, VisitMoves
<1> USE <1>0, SharingAssumption DEF Reach, GoAway, Proceed, Stores
<1> HIDE DEF Visit, Arriving
<1>1. ASSUME NEW v \in Visits, NEW purpose \in Purposes, Arrive(v, purpose) PROVE Goal
  <2>1. visit' \in [Visits -> Visit]
    <3> SUFFICES ASSUME NEW w \in Visit, visit' = [visit EXCEPT ![v] = w]
                 PROVE  visit' \in [Visits -> Visit]
      <4>1. ASSUME NEW owner \in BOOLEAN, NEW b \in SUBSET Links
            PROVE  [Arriving EXCEPT !.for = purpose, !.at = "session", !.owner = owner,
                                    !.before = b] \in Visit
        BY ArrivingIsVisit, <4>1 DEF Visit, Stages
      <4>2. ASSUME NEW l \in Links, NEW x \in SUBSET {"closed", "erased"}
            PROVE  [Arriving EXCEPT !.for = purpose, !.at = "link", !.link = l, !.late = x]
                       \in Visit
        BY ArrivingIsVisit, <4>2 DEF Visit, Stages
      <4>3. Known \subseteq Links /\ {} \subseteq Links
        BY DEF Known
      <4>4. CASE purpose \in OwnersOnly
        <5>1. PICK owner \in BOOLEAN :
                visit' = [visit EXCEPT ![v] =
                  [Arriving EXCEPT !.for = purpose, !.at = "session", !.owner = owner,
                                   !.before = IF purpose = "revoke" THEN Known ELSE {}]]
          BY <1>1, <4>4, Zenon DEF Arrive
        <5> DEFINE b == IF purpose = "revoke" THEN Known ELSE {}
        <5>2. b \in SUBSET Links
          BY <4>3
        <5> HIDE DEF b
        <5>3. visit' = [visit EXCEPT ![v] =
                  [Arriving EXCEPT !.for = purpose, !.at = "session", !.owner = owner,
                                   !.before = b]]
          BY <5>1, Zenon DEF b
        <5> QED BY <4>1, <5>2, <5>3, Zenon
      <4>5. CASE purpose \notin OwnersOnly
        <5>1. PICK l \in Known :
              visit' = [visit EXCEPT ![v] =
                [Arriving EXCEPT !.for = purpose, !.at = "link", !.link = l,
                                 !.late = {w \in {"closed"} : l \in closed}
                                          \cup {w \in {"erased"} : erased}]]
          BY <1>1, <4>5, Zenon DEF Arrive
        <5> DEFINE x == {w \in {"closed"} : l \in closed} \cup {w \in {"erased"} : erased}
        <5>2. x \in SUBSET {"closed", "erased"} /\ l \in Links
          BY <4>3
        <5> HIDE DEF x
        <5>3. visit' = [visit EXCEPT ![v] =
                [Arriving EXCEPT !.for = purpose, !.at = "link", !.link = l, !.late = x]]
          BY <5>1, Zenon DEF x
        <5> QED BY <4>2, <5>2, <5>3, Zenon
      <4> QED BY <4>4, <4>5, Zenon
    <3> QED OBVIOUS
  <2> QED BY <1>1, <2>1, Zenon DEF Arrive
<1>2. ASSUME NEW v \in Visits, Own(v) PROVE Goal
  <2>1. visit[v].for \in OwnersOnly
    BY <1>2 DEF Own, InHand, SharingInv
  <2>2. PICK s \in Stages :
            visit' = [visit EXCEPT ![v].at = s] \/ visit' = [visit EXCEPT ![v] = Arriving]
    BY <1>2, <2>1 DEF Own, OwnersOnly, Stages
  <2>3. visit' \in [Visits -> Visit]
    BY <2>2, <1>S
  <2> QED BY <1>2, <2>3, Zenon DEF Own
<1>3. ASSUME NEW v \in Visits, Existing(v) PROVE Goal
  <2>1. Open # {} => Max(Open) \in Links
    BY MaxOfLinks DEF Open
  <2>2. "insert" \in Stages /\ "given" \in Stages
    BY DEF Stages
  <2>3. PICK s \in Stages, l \in Links \cup {NoLink} :
            visit' = [visit EXCEPT ![v].at = s, ![v].link = l]
    <3>1. CASE Open = {}
      BY <1>3, <2>2, <3>1, Zenon DEF Existing
    <3>2. CASE Open # {}
      BY <1>3, <2>1, <2>2, <3>2, Zenon DEF Existing
    <3> QED BY <3>1, <3>2
  <2>4. visit' \in [Visits -> Visit]
    BY <2>3, <1>T
  <2> QED BY <1>3, <2>4, Zenon DEF Existing
<1>4. ASSUME NEW v \in Visits, Insert(v) PROVE Goal
  <2> DEFINE l == Cardinality(Known) + 1
  <2>1. l \in Links
    BY <1>4, NextRow DEF Insert, SharingInv
  <2> HIDE DEF l
  <2>2. link' = [link EXCEPT ![l] = "open"] /\ visit' = [visit EXCEPT ![v].at = "given", ![v].link = l]
    BY <1>4, Zenon DEF Insert, l
  <2>3. "given" \in Stages
    BY DEF Stages
  <2>4. visit' \in [Visits -> Visit]
    BY <2>1, <2>2, <2>3, <1>T, Zenon
  <2>5. link' \in [Links -> {"none", "open", "expired", "revoked"}]
    BY <2>1, <2>2
  <2> QED BY <1>4, <2>4, <2>5, Zenon DEF Insert
<1>5. ASSUME NEW v \in Visits, Revoke(v) PROVE Goal
  <2>1. \A w \in Visits : Crossed(w) \in Visit
    BY CrossedIsVisit
  <2>2. [visit[v] EXCEPT !.at = "revoked"] \in Visit
    BY DEF Visit, Stages
  <2>3. visit' \in [Visits -> Visit]
    BY <1>5, <2>1, <2>2, ArrivingIsVisit DEF Revoke
  <2>4. link' \in [Links -> {"none", "open", "expired", "revoked"}]
    BY <1>5 DEF Revoke
  <2> QED BY <1>5, <2>3, <2>4, Zenon DEF Revoke
<1>6. ASSUME NEW v \in Visits,
             \/ FollowLink(v) \/ Access(v) \/ Source(v) \/ CloneSharedSession(v)
             \/ RenameRead(v) \/ RenameWrite(v) \/ DeleteSession(v)
             \/ CallFails(v) \/ AnswerVisit(v)
      PROVE  Goal
  <2>1. visit' \in [Visits -> Visit]
    <3>1. {"access", "source", "opened", "clone", "write", "removed"} \subseteq Stages
      BY DEF Stages
    <3>2. PICK s \in Stages :
            visit' = [visit EXCEPT ![v].at = s] \/ visit' = [visit EXCEPT ![v] = Arriving]
      BY <1>6, <3>1 DEF FollowLink, Access, Source, CloneSharedSession, CloneSession, RenameRead,
           RenameWrite, DeleteSession, CallFails, AnswerVisit
    <3> QED BY <3>2, <1>S
  <2>2. breaks' \in 0 .. MaxBreaks
    BY <1>6 DEF FollowLink, Access, Source, CloneSharedSession, RenameRead, RenameWrite,
         DeleteSession, CallFails, AnswerVisit
  <2>3. closed' \subseteq Links
    BY <1>6 DEF FollowLink, Access, Source, CloneSharedSession, RenameRead, RenameWrite,
         DeleteSession, CallFails, AnswerVisit, Visit
  <2> QED BY <1>6, <2>1, <2>2, <2>3 DEF FollowLink, Access, Source, CloneSharedSession,
        RenameRead, RenameWrite, DeleteSession, CallFails, AnswerVisit
<1>7. ASSUME NEW l \in Links, LinkExpires(l) PROVE Goal
  <2>1. \A w \in Visits : Crossed(w) \in Visit
    BY CrossedIsVisit
  <2>2. visit' \in [Visits -> Visit]
    BY <1>7, <2>1 DEF LinkExpires
  <2>3. link' \in [Links -> {"none", "open", "expired", "revoked"}]
    BY <1>7 DEF LinkExpires
  <2> QED BY <1>7, <2>2, <2>3, Zenon DEF LinkExpires
<1>8. CASE DocumentExpires
  BY <1>8 DEF DocumentExpires
<1>9. CASE UNCHANGED sharingVars
  BY <1>9 DEF sharingVars
<1> QED BY <1>1, <1>2, <1>3, <1>4, <1>5, <1>6, <1>7, <1>8, <1>9, Zenon DEF SharingNext

\* A request that arrives has nothing in hand but what is known, and is late
\* only for what was closed before.
LEMMA ArrivalFacts ==
    ASSUME visit \in [Visits -> Visit], NEW v \in Visits, NEW purpose \in Purposes,
           Arrive(v, purpose)
    PROVE  /\ \A w \in Visits \ {v} : visit'[w] = visit[w]
           /\ document' = document /\ link' = link /\ closed' = closed
           /\ erased' = erased /\ revived' = revived
           /\ \/ /\ visit'[v].at = "session" /\ visit'[v].for \in OwnersOnly
                 /\ visit'[v].before \subseteq Known /\ visit'[v].late = {}
              \/ /\ visit'[v].at = "link" /\ visit'[v].before = {} /\ visit'[v].link \in Known
                 /\ "closed" \in visit'[v].late => visit'[v].link \in closed
                 /\ "erased" \in visit'[v].late => erased
<1>1. document' = document /\ link' = link /\ closed' = closed
      /\ erased' = erased /\ revived' = revived
  BY Zenon DEF Arrive, Stores
<1>2. CASE purpose \in OwnersOnly
  <2>1. PICK owner \in BOOLEAN : \E b \in SUBSET Known :
          visit' = [visit EXCEPT ![v] =
            [Arriving EXCEPT !.for = purpose, !.at = "session", !.owner = owner, !.before = b]]
    <3>1. {} \in SUBSET Known /\ Known \in SUBSET Known
      OBVIOUS
    <3> QED BY <1>2, <3>1 DEF Arrive
  <2>2. PICK b \in SUBSET Known :
          visit' = [visit EXCEPT ![v] =
            [Arriving EXCEPT !.for = purpose, !.at = "session", !.owner = owner, !.before = b]]
    BY <2>1, Zenon
  <2>3. /\ visit'[v].at = "session" /\ visit'[v].for = purpose /\ visit'[v].before = b
        /\ visit'[v].late = {}
    BY <2>2 DEF Arriving
  <2>4. \A w \in Visits \ {v} : visit'[w] = visit[w]
    BY <2>2
  <2> QED BY <1>1, <1>2, <2>2, <2>3, <2>4
<1>3. CASE purpose \notin OwnersOnly
  <2>1. PICK l \in Known :
          visit' = [visit EXCEPT ![v] =
            [Arriving EXCEPT !.for = purpose, !.at = "link", !.link = l,
                             !.late = {w \in {"closed"} : l \in closed}
                                      \cup {w \in {"erased"} : erased}]]
    BY <1>3, Zenon DEF Arrive
  <2> DEFINE x == {w \in {"closed"} : l \in closed} \cup {w \in {"erased"} : erased}
  <2>2. ("closed" \in x => l \in closed) /\ ("erased" \in x => erased)
    OBVIOUS
  <2> HIDE DEF x
  <2>3. visit' = [visit EXCEPT ![v] =
          [Arriving EXCEPT !.for = purpose, !.at = "link", !.link = l, !.late = x]]
    BY <2>1, Zenon DEF x
  <2>4. /\ visit'[v].at = "link" /\ visit'[v].link = l /\ visit'[v].before = {}
        /\ visit'[v].late = x
    BY <2>3 DEF Arriving
  <2>5. \A w \in Visits \ {v} : visit'[w] = visit[w]
    BY <2>3
  <2> QED BY <1>1, <2>2, <2>4, <2>5
<1> QED BY <1>2, <1>3

\* Crossing a request changes nothing else of it.
LEMMA CrossedFacts ==
    ASSUME visit \in [Visits -> Visit], NEW v \in Visits
    PROVE  /\ Crossed(v).at = visit[v].at /\ Crossed(v).for = visit[v].for
           /\ Crossed(v).link = visit[v].link /\ Crossed(v).before = visit[v].before
           /\ Crossed(v).late = visit[v].late
           /\ Crossed(v).crossed = (visit[v].for = "create")
<1>1. visit[v] \in Visit
  OBVIOUS
<1> QED BY <1>1 DEF Crossed, Visit

\* A row is never taken back, and what is revoked stays so.
LEMMA RowsStay ==
    ASSUME SharingInv, [SharingNext]_sharingVars
    PROVE  /\ Known \subseteq Known'
           /\ \A l \in Links : link[l] = "revoked" => link'[l] = "revoked"
<1>0. link \in [Links -> {"none", "open", "expired", "revoked"}]
  BY SharingTypes, Zenon DEF SharingInv
<1>1. ASSUME NEW v \in Visits, Insert(v)
      PROVE  /\ Known \subseteq Known'
             /\ \A l \in Links : link[l] = "revoked" => link'[l] = "revoked"
  <2> DEFINE n == Cardinality(Known) + 1
  <2>1. n \in Links \ Known /\ link' = [link EXCEPT ![n] = "open"]
    BY <1>1, NextRow DEF Insert, SharingInv
  <2> HIDE DEF n
  <2> QED BY <1>0, <2>1 DEF Known
<1>2. ASSUME NEW v \in Visits, Revoke(v)
      PROVE  /\ Known \subseteq Known'
             /\ \A l \in Links : link[l] = "revoked" => link'[l] = "revoked"
  BY <1>0, <1>2 DEF Revoke, Revoking, Known
<1>3. ASSUME NEW k \in Links, LinkExpires(k)
      PROVE  /\ Known \subseteq Known'
             /\ \A l \in Links : link[l] = "revoked" => link'[l] = "revoked"
  BY <1>0, <1>3 DEF LinkExpires, Known
<1>4. ASSUME link' = link
      PROVE  /\ Known \subseteq Known'
             /\ \A l \in Links : link[l] = "revoked" => link'[l] = "revoked"
  BY <1>4 DEF Known
<1>5. \/ \E v \in Visits : Insert(v) \/ Revoke(v)
      \/ \E k \in Links : LinkExpires(k)
      \/ link' = link
  BY DEF SharingNext, sharingVars, Arrive, Own, Existing, FollowLink, Access, Source,
       CloneSharedSession, RenameRead, RenameWrite, DeleteSession, CallFails, AnswerVisit, Stores,
       DocumentExpires
<1> QED BY <1>1, <1>2, <1>3, <1>4, <1>5

\* The rows stay numbered from the first.
LEMMA NumberedKept == SharingInv /\ [SharingNext]_sharingVars => Numbered'
<1> SUFFICES ASSUME SharingInv, [SharingNext]_sharingVars PROVE Numbered'
  OBVIOUS
<1>0. link \in [Links -> {"none", "open", "expired", "revoked"}]
  BY SharingTypes, Zenon DEF SharingInv
<1>1. ASSUME NEW v \in Visits, Insert(v) PROVE Numbered'
  <2> DEFINE n == Cardinality(Known) + 1
  <2>1. n \in Links \ Known /\ link' = [link EXCEPT ![n] = "open"] /\ Known \cup {n} = 1 .. n
    BY <1>1, NextRow DEF Insert, SharingInv
  <2> HIDE DEF n
  <2>2. Known' = Known \cup {n}
    BY <1>0, <2>1 DEF Known
  <2>3. n \in 0 .. MaxLinks
    BY <2>1, SharingAssumption DEF Links
  <2> QED BY <2>1, <2>2, <2>3 DEF Numbered
<1>2. ASSUME Known' = Known PROVE Numbered'
  BY <1>2, Zenon DEF Numbered, SharingInv
<1>3. ASSUME NEW v \in Visits, Revoke(v) PROVE Known' = Known
  BY <1>0, <1>3 DEF Revoke, Revoking, Known
<1>4. ASSUME NEW k \in Links, LinkExpires(k) PROVE Known' = Known
  BY <1>0, <1>4 DEF LinkExpires, Known
<1>5. ASSUME link' = link PROVE Known' = Known
  BY <1>5 DEF Known
<1>6. \/ \E v \in Visits : Insert(v) \/ Revoke(v)
      \/ \E k \in Links : LinkExpires(k)
      \/ link' = link
  BY DEF SharingNext, sharingVars, Arrive, Own, Existing, FollowLink, Access, Source,
       CloneSharedSession, RenameRead, RenameWrite, DeleteSession, CallFails, AnswerVisit, Stores,
       DocumentExpires
<1> QED BY <1>1, <1>2, <1>3, <1>4, <1>5, <1>6

\* Requests have in hand what they need where they stand.
LEMMA InHandKept == SharingInv /\ [SharingNext]_sharingVars => InHand'
<1> SUFFICES ASSUME SharingInv, [SharingNext]_sharingVars PROVE InHand'
  OBVIOUS
<1>0. visit \in [Visits -> Visit]
  BY SharingTypes, Zenon DEF SharingInv
<1>K. Known \subseteq Known' /\ Known \subseteq Links
  BY RowsStay DEF Known
<1> USE <1>0, <1>K DEF InHand, SharingInv
<1> HIDE DEF Known
<1>1. ASSUME NEW v \in Visits, NEW purpose \in Purposes, Arrive(v, purpose) PROVE InHand'
  BY <1>1, ArrivalFacts DEF OwnersOnly
<1>2. ASSUME NEW v \in Visits, Own(v) PROVE InHand'
  BY <1>2 DEF Own, OwnersOnly, Proceed, Reach, GoAway, Arriving, Visit
<1>3. ASSUME NEW v \in Visits, Existing(v) PROVE InHand'
  <2>1. Open # {} => Max(Open) \in Links
    BY MaxOfLinks DEF Open
  <2> QED BY <1>3, <2>1 DEF Existing, Visit
<1>4. ASSUME NEW v \in Visits, Insert(v) PROVE InHand'
  <2>1. Cardinality(Known) + 1 \in Links
    BY <1>4, NextRow DEF Insert
  <2> QED BY <1>4, <2>1 DEF Insert, Visit
<1>5. ASSUME NEW v \in Visits, Revoke(v) PROVE InHand'
  BY <1>5 DEF Revoke, Crossed, Arriving, Visit
<1>6. ASSUME NEW v \in Visits,
             \/ FollowLink(v) \/ Access(v) \/ Source(v) \/ CloneSharedSession(v)
             \/ RenameRead(v) \/ RenameWrite(v) \/ DeleteSession(v)
             \/ CallFails(v) \/ AnswerVisit(v)
      PROVE  InHand'
  BY <1>6 DEF FollowLink, Access, Source, CloneSharedSession, CloneSession, RenameRead, RenameWrite,
       DeleteSession, CallFails, AnswerVisit, Reach, GoAway, Proceed, Arriving, Visit
<1>7. ASSUME NEW l \in Links, LinkExpires(l) PROVE InHand'
  BY <1>7 DEF LinkExpires, Crossed, Visit
<1>8. CASE DocumentExpires
  BY <1>8 DEF DocumentExpires
<1>9. CASE UNCHANGED sharingVars
  BY <1>9 DEF sharingVars
<1> QED BY <1>1, <1>2, <1>3, <1>4, <1>5, <1>6, <1>7, <1>8, <1>9, Zenon DEF SharingNext

\* What a revocation covers is revoked, and stays so.
LEMMA RowsRevokedKept == SharingInv /\ [SharingNext]_sharingVars => RowsRevoked'
<1> SUFFICES ASSUME SharingInv, [SharingNext]_sharingVars PROVE RowsRevoked'
  OBVIOUS
<1>0. visit \in [Visits -> Visit] /\ link \in [Links -> {"none", "open", "expired", "revoked"}]
      /\ closed \subseteq Links
  BY SharingTypes, Zenon DEF SharingInv
<1>K. \A l \in Links : link[l] = "revoked" => link'[l] = "revoked"
  BY RowsStay
<1>L. \A v \in Visits : visit[v].before \subseteq Links
  BY <1>0 DEF Visit
<1> USE <1>0, <1>K, <1>L DEF RowsRevoked, SharingInv
<1>1. ASSUME NEW v \in Visits, NEW purpose \in Purposes, Arrive(v, purpose) PROVE RowsRevoked'
  BY <1>1, ArrivalFacts
<1>2. ASSUME NEW v \in Visits, Insert(v) PROVE RowsRevoked'
  <2>1. closed' = closed
    BY <1>2, Zenon DEF Insert
  <2>2. \A w \in Visits : visit'[w].at = "revoked" => visit'[w] = visit[w]
    BY <1>2 DEF Insert, Visit
  <2> QED BY <2>1, <2>2
<1>3. ASSUME NEW v \in Visits, Revoke(v) PROVE RowsRevoked'
  <2>1. \A l \in visit[v].before : link'[l] = "revoked"
    BY <1>3 DEF Revoke, Revoking, InHand, Known
  <2>2. \A w \in Visits \ {v} : visit'[w].at = visit[w].at /\ visit'[w].before = visit[w].before
    BY <1>3 DEF Revoke, Crossed, Visit
  <2>3. visit'[v].at = "revoked" => visit'[v].before = visit[v].before
    BY <1>3 DEF Revoke, Arriving, Visit
  <2>4. closed' = closed
    BY <1>3, Zenon DEF Revoke
  <2> QED BY <2>1, <2>2, <2>3, <2>4
<1>4. ASSUME NEW v \in Visits,
             \/ Own(v) \/ Existing(v)
             \/ FollowLink(v) \/ Access(v) \/ Source(v) \/ CloneSharedSession(v)
             \/ RenameRead(v) \/ RenameWrite(v) \/ DeleteSession(v)
             \/ CallFails(v) \/ AnswerVisit(v)
      PROVE  RowsRevoked'
  BY <1>4 DEF Own, Existing, FollowLink, Access, Source, CloneSharedSession, CloneSession, RenameRead,
       RenameWrite, DeleteSession, CallFails, AnswerVisit, Reach, GoAway, Proceed, Arriving, Visit,
       Stores, InHand, OwnersOnly
<1>5. ASSUME NEW l \in Links, LinkExpires(l) PROVE RowsRevoked'
  <2>1. \A w \in Visits : visit'[w] = Crossed(w)
    BY <1>5 DEF LinkExpires
  <2>2. document' = document /\ closed' = closed /\ erased' = erased /\ revived' = revived
    BY <1>5, Zenon DEF LinkExpires
  <2> QED BY <1>5, <2>1, <2>2, CrossedFacts DEF LinkExpires
<1>6. CASE DocumentExpires
  BY <1>6 DEF DocumentExpires
<1>7. CASE UNCHANGED sharingVars
  BY <1>7 DEF sharingVars
<1> QED BY <1>1, <1>2, <1>3, <1>4, <1>5, <1>6, <1>7, Zenon DEF SharingNext

\* A deleted session stays gone, or a renaming has brought it back.
LEMMA GoneKept == SharingInv /\ [SharingNext]_sharingVars => GoneOrRevived'
<1> SUFFICES ASSUME SharingInv, [SharingNext]_sharingVars PROVE GoneOrRevived'
  OBVIOUS
<1>0. visit \in [Visits -> Visit]
  BY SharingTypes, Zenon DEF SharingInv
<1> USE <1>0 DEF GoneOrRevived, SharingInv
<1>1. ASSUME NEW v \in Visits, NEW purpose \in Purposes, Arrive(v, purpose) PROVE GoneOrRevived'
  BY <1>1, ArrivalFacts
<1>2. ASSUME NEW v \in Visits, Own(v) PROVE GoneOrRevived'
  BY <1>2 DEF Own, Proceed, Reach, GoAway, Arriving, Visit, Stores, InHand, OwnersOnly
<1>8. ASSUME NEW v \in Visits, Existing(v) \/ Insert(v) PROVE GoneOrRevived'
  <2>1. /\ \A w \in Visits \ {v} : visit'[w] = visit[w]
        /\ visit'[v].at \in {"insert", "given"} /\ visit'[v].late = visit[v].late
    <3> HIDE DEF Known
    <3> QED BY <1>8 DEF Existing, Insert, Visit
  <2>2. document' = document /\ closed' = closed /\ erased' = erased /\ revived' = revived
    BY <1>8, Zenon DEF Existing, Insert, Stores
  <2> QED BY <2>1, <2>2
<1>3. ASSUME NEW v \in Visits,
             \/ FollowLink(v) \/ Access(v) \/ Source(v) \/ CloneSharedSession(v)
             \/ RenameRead(v) \/ RenameWrite(v) \/ DeleteSession(v)
             \/ CallFails(v) \/ AnswerVisit(v)
      PROVE  GoneOrRevived'
  <2>1. CASE FollowLink(v) \/ Access(v) \/ Source(v) \/ CloneSharedSession(v) \/ RenameRead(v) \/ CallFails(v)
    BY <2>1 DEF FollowLink, Access, Source, CloneSharedSession, RenameRead, CallFails, CloneSession,
         Reach, GoAway, Proceed, Arriving, Visit, Stores
  <2>2. CASE RenameWrite(v)
    BY <2>2 DEF RenameWrite,
         Reach, GoAway, Proceed, Arriving, Visit, Stores
  <2>3. CASE DeleteSession(v)
    BY <2>3 DEF DeleteSession,
         Reach, GoAway, Proceed, Arriving, Visit, Stores
  <2>4. CASE AnswerVisit(v)
    BY <2>4 DEF AnswerVisit,
         Reach, GoAway, Proceed, Arriving, Visit, Stores
  <2> QED BY <1>3, <2>1, <2>2, <2>3, <2>4
<1>7. ASSUME NEW v \in Visits, Revoke(v) PROVE GoneOrRevived'
  <2>1. \A w \in Visits : visit'[w] = IF w # v THEN Crossed(w)
                                    ELSE IF Revoking = {} THEN Arriving
                                    ELSE [visit[v] EXCEPT !.at = "revoked"]
    BY <1>7 DEF Revoke
  <2>2. document' = document /\ closed' = closed /\ erased' = erased /\ revived' = revived
    BY <1>7, Zenon DEF Revoke
  <2>3. visit'[v].at \in {"idle", "revoked"} /\ visit'[v].late \subseteq visit[v].late
    BY <2>1 DEF Arriving, Visit
  <2> QED BY <1>7, <2>1, <2>2, <2>3, CrossedFacts
<1>4. ASSUME NEW l \in Links, LinkExpires(l) PROVE GoneOrRevived'
  <2>1. \A w \in Visits : visit'[w] = Crossed(w)
    BY <1>4 DEF LinkExpires
  <2>2. document' = document /\ closed' = closed /\ erased' = erased /\ revived' = revived
    BY <1>4, Zenon DEF LinkExpires
  <2> QED BY <1>4, <2>1, <2>2, CrossedFacts DEF LinkExpires
<1>5. CASE DocumentExpires
  BY <1>5 DEF DocumentExpires
<1>6. CASE UNCHANGED sharingVars
  BY <1>6 DEF sharingVars
<1> QED BY <1>1, <1>2, <1>3, <1>4, <1>5, <1>6, <1>7, <1>8, Zenon DEF SharingNext

\* Nobody who comes late gets further than the link.
LEMMA LateKept == SharingInv /\ [SharingNext]_sharingVars => LateVisits'
<1> SUFFICES ASSUME SharingInv, [SharingNext]_sharingVars PROVE LateVisits'
  OBVIOUS
<1>0. visit \in [Visits -> Visit] /\ closed \subseteq Links
  BY SharingTypes, Zenon DEF SharingInv
<1> USE <1>0 DEF LateVisits, SharingInv
<1>1. ASSUME NEW v \in Visits, NEW purpose \in Purposes, Arrive(v, purpose) PROVE LateVisits'
  <2>1. Known \subseteq Links
    BY DEF Known
  <2> QED BY <1>1, <2>1, ArrivalFacts
<1>2. ASSUME NEW v \in Visits, Own(v) PROVE LateVisits'
  BY <1>2 DEF Own, Proceed, Reach, GoAway, Arriving, Visit, Stores, InHand, OwnersOnly
<1>3. ASSUME NEW v \in Visits, FollowLink(v) PROVE LateVisits'
  BY <1>3 DEF FollowLink, Reach, GoAway, Proceed, Arriving, Visit, Stores, RowsRevoked
<1>4. ASSUME NEW v \in Visits, Source(v) \/ CloneSharedSession(v) PROVE LateVisits'
  BY <1>4 DEF Source, CloneSharedSession, CloneSession, Reach, GoAway, Proceed, Arriving, Visit,
       Stores, GoneOrRevived
<1>10. ASSUME NEW v \in Visits, Existing(v) \/ Insert(v) PROVE LateVisits'
  <2>1. /\ \A w \in Visits \ {v} : visit'[w] = visit[w]
        /\ visit'[v].at \in {"insert", "given"} /\ visit'[v].late = visit[v].late
    <3> HIDE DEF Known
    <3> QED BY <1>10 DEF Existing, Insert, Visit
  <2>2. document' = document /\ closed' = closed /\ erased' = erased /\ revived' = revived
    BY <1>10, Zenon DEF Existing, Insert, Stores
  <2> QED BY <2>1, <2>2
<1>5. ASSUME NEW v \in Visits,
             \/ Access(v)
             \/ RenameRead(v) \/ RenameWrite(v) \/ DeleteSession(v)
             \/ CallFails(v) \/ AnswerVisit(v)
      PROVE  LateVisits'
  <2>1. CASE Access(v) \/ RenameRead(v) \/ CallFails(v)
    BY <2>1 DEF Access, RenameRead, CallFails,
         Reach, GoAway, Proceed, Arriving, Visit, Stores
  <2>2. CASE RenameWrite(v)
    BY <2>2 DEF RenameWrite,
         Reach, GoAway, Proceed, Arriving, Visit, Stores
  <2>3. CASE DeleteSession(v)
    BY <2>3 DEF DeleteSession,
         Reach, GoAway, Proceed, Arriving, Visit, Stores
  <2>4. CASE AnswerVisit(v)
    BY <2>4 DEF AnswerVisit,
         Reach, GoAway, Proceed, Arriving, Visit, Stores
  <2> QED BY <1>5, <2>1, <2>2, <2>3, <2>4
<1>9. ASSUME NEW v \in Visits, Revoke(v) PROVE LateVisits'
  <2>1. \A w \in Visits : visit'[w] = IF w # v THEN Crossed(w)
                                    ELSE IF Revoking = {} THEN Arriving
                                    ELSE [visit[v] EXCEPT !.at = "revoked"]
    BY <1>9 DEF Revoke
  <2>2. document' = document /\ closed' = closed /\ erased' = erased /\ revived' = revived
    BY <1>9, Zenon DEF Revoke
  <2>3. visit'[v].at \in {"idle", "revoked"} /\ visit'[v].late \subseteq visit[v].late
    BY <2>1 DEF Arriving, Visit
  <2> QED BY <1>9, <2>1, <2>2, <2>3, CrossedFacts
<1>6. ASSUME NEW l \in Links, LinkExpires(l) PROVE LateVisits'
  <2>1. \A w \in Visits : visit'[w] = Crossed(w)
    BY <1>6 DEF LinkExpires
  <2>2. document' = document /\ closed' = closed /\ erased' = erased /\ revived' = revived
    BY <1>6, Zenon DEF LinkExpires
  <2> QED BY <1>6, <2>1, <2>2, CrossedFacts DEF LinkExpires
<1>7. CASE DocumentExpires
  BY <1>7 DEF DocumentExpires
<1>8. CASE UNCHANGED sharingVars
  BY <1>8 DEF sharingVars
<1> QED BY <1>1, <1>2, <1>3, <1>4, <1>5, <1>6, <1>7, <1>8, <1>9, <1>10, Zenon DEF SharingNext

\* The link the owner is given is open, or one was closed meanwhile.
LEMMA GivenKept == SharingInv /\ [SharingNext]_sharingVars => GivenLinkOpens'
<1> SUFFICES ASSUME SharingInv, [SharingNext]_sharingVars PROVE GivenLinkOpens'
  OBVIOUS
<1>0. visit \in [Visits -> Visit] /\ link \in [Links -> {"none", "open", "expired", "revoked"}]
  BY SharingTypes, Zenon DEF SharingInv
<1> USE <1>0 DEF GivenLinkOpens, SharingInv
<1>1. ASSUME NEW v \in Visits, NEW purpose \in Purposes, Arrive(v, purpose) PROVE GivenLinkOpens'
  BY <1>1, ArrivalFacts
<1>2. ASSUME NEW v \in Visits, Own(v) PROVE GivenLinkOpens'
  BY <1>2 DEF Own, Proceed, Reach, GoAway, Arriving, Visit, Stores, InHand, OwnersOnly
<1>3. ASSUME NEW v \in Visits, Existing(v) PROVE GivenLinkOpens'
  <2>1. Open # {} => Max(Open) \in Links /\ link[Max(Open)] = "open"
    BY MaxOfLinks DEF Open
  <2>2. \A w \in Visits \ {v} : visit'[w] = visit[w]
    BY <1>3 DEF Existing
  <2>3. visit'[v].at = "given" => Open # {} /\ visit'[v].link = Max(Open)
    BY <1>3 DEF Existing, Visit
  <2>4. link' = link
    BY <1>3, Zenon DEF Existing, Stores
  <2> QED BY <2>1, <2>2, <2>3, <2>4
<1>4. ASSUME NEW v \in Visits, Insert(v) PROVE GivenLinkOpens'
  <2> DEFINE l == Cardinality(Known) + 1
  <2>1. l \in Links /\ link' = [link EXCEPT ![l] = "open"]
        /\ visit' = [visit EXCEPT ![v].at = "given", ![v].link = l]
    BY <1>4, NextRow, Zenon DEF Insert
  <2> HIDE DEF l
  <2>2. link'[l] = "open" /\ visit'[v].link = l /\ \A w \in Visits \ {v} : visit'[w] = visit[w]
    BY <2>1 DEF Visit
  <2>3. \A k \in Links : link[k] = "open" => link'[k] = "open"
    BY <2>1
  <2>4. \A w \in Visits : visit[w].at = "given" => visit[w].link \in Links
    BY DEF InHand
  <2> QED BY <2>2, <2>3, <2>4
<1>5. ASSUME NEW v \in Visits, Revoke(v) PROVE GivenLinkOpens'
  <2>1. \A w \in Visits : visit'[w] = IF w # v THEN Crossed(w)
                                    ELSE IF Revoking = {} THEN Arriving
                                    ELSE [visit[v] EXCEPT !.at = "revoked"]
    BY <1>5 DEF Revoke
  <2>2. document' = document /\ closed' = closed /\ erased' = erased /\ revived' = revived
    BY <1>5, Zenon DEF Revoke
  <2>3. visit'[v].at # "given"
    BY <2>1 DEF Arriving, Visit
  <2>4. \A w \in Visits \ {v} : visit'[w] = Crossed(w)
    BY <2>1
  <2>5. ASSUME NEW w \in Visits, visit'[w].at = "given" PROVE visit'[w].crossed
    <3>1. w # v /\ visit'[w] = Crossed(w)
      BY <2>3, <2>4, <2>5
    <3>2. visit[w].for = "create"
      BY <2>5, <3>1, CrossedFacts DEF InHand
    <3>3. Crossed(w).crossed = TRUE
      BY <3>2, CrossedFacts
    <3> QED BY <3>1, <3>3
  <2> QED BY <2>5
<1>6. ASSUME NEW v \in Visits,
             \/ FollowLink(v) \/ Access(v) \/ Source(v) \/ CloneSharedSession(v)
             \/ RenameRead(v) \/ RenameWrite(v) \/ DeleteSession(v)
             \/ CallFails(v) \/ AnswerVisit(v)
      PROVE  GivenLinkOpens'
  BY <1>6 DEF FollowLink, Access, Source, CloneSharedSession, CloneSession, RenameRead, RenameWrite,
       DeleteSession, CallFails, AnswerVisit, Reach, GoAway, Proceed, Arriving, Visit, Stores
<1>7. ASSUME NEW l \in Links, LinkExpires(l) PROVE GivenLinkOpens'
  <2>1. \A w \in Visits : visit'[w] = Crossed(w)
    BY <1>7 DEF LinkExpires
  <2>2. document' = document /\ closed' = closed /\ erased' = erased /\ revived' = revived
    BY <1>7, Zenon DEF LinkExpires
  <2> QED BY <1>7, <2>1, <2>2, CrossedFacts DEF LinkExpires, InHand
<1>8. CASE DocumentExpires
  BY <1>8 DEF DocumentExpires
<1>9. CASE UNCHANGED sharingVars
  BY <1>9 DEF sharingVars
<1> QED BY <1>1, <1>2, <1>3, <1>4, <1>5, <1>6, <1>7, <1>8, <1>9, Zenon DEF SharingNext

\* The invariant of the links.
LEMMA SharingKept == SharingInv /\ [SharingNext]_sharingVars => SharingInv'
BY SharingTypeKept, NumberedKept, InHandKept, RowsRevokedKept, GoneKept, LateKept, GivenKept, Zenon
DEF SharingInv

\* ... and what it is for.
LEMMA SharingHolds == SharingInv => SharingTypeOK /\ LinksHold
BY Zenon DEF SharingInv, LateVisits, LinksHold, ClosedStaysClosed

-----------------------------------------------------------------------------
(* A tab's events. *)

\* The ends of a queue.
LEMMA QueueFacts ==
    ASSUME NEW S, NEW q \in Seq(S)
    PROVE  /\ Len(q) \in Nat
           /\ \A x \in S : /\ Append(q, x) \in Seq(S) /\ Append(q, x) # <<>>
                          /\ Len(Append(q, x)) = Len(q) + 1
                          /\ Append(q, x)[Len(Append(q, x))] = x
           /\ q # <<>> => /\ Head(q) \in S /\ Tail(q) \in Seq(S)
                          /\ Len(Tail(q)) = Len(q) - 1
                          /\ Tail(q) = <<>> => Head(q) = q[Len(q)]
                          /\ Tail(q) # <<>> => Tail(q)[Len(Tail(q))] = q[Len(q)]
<1>1. Len(q) \in Nat
  OBVIOUS
<1>2. ASSUME NEW x \in S
      PROVE  /\ Append(q, x) \in Seq(S) /\ Len(Append(q, x)) = Len(q) + 1
             /\ Append(q, x)[Len(q) + 1] = x
  OBVIOUS
<1>3. ASSUME q # <<>>
      PROVE  /\ Head(q) \in S /\ Tail(q) \in Seq(S) /\ Len(Tail(q)) = Len(q) - 1
             /\ Head(q) = q[1] /\ Len(q) > 0
             /\ \A i \in 1 .. Len(q) - 1 : Tail(q)[i] = q[i + 1]
  BY <1>3
<1>4. ASSUME NEW x \in S PROVE Append(q, x) # <<>>
  <2>1. Len(Append(q, x)) > 0
    BY <1>1, <1>2
  <2> QED BY <2>1
<1>5. ASSUME q # <<>>, Tail(q) = <<>> PROVE Head(q) = q[Len(q)]
  <2>0. Len(<<>>) = 0
    OBVIOUS
  <2>1. Len(Tail(q)) = 0
    BY <1>5, <2>0, Zenon
  <2>2. Len(q) = 1
    BY <1>1, <1>3, <1>5, <2>1
  <2> QED BY <1>3, <1>5, <2>2
<1>6. ASSUME q # <<>>, Tail(q) # <<>> PROVE Tail(q)[Len(Tail(q))] = q[Len(q)]
  <2>1. Len(Tail(q)) > 0
    BY <1>3, <1>6
  <2>2. Len(Tail(q)) \in 1 .. Len(q) - 1 /\ Len(Tail(q)) + 1 = Len(q)
    BY <1>1, <1>3, <1>6, <2>1
  <2> QED BY <1>3, <1>6, <2>2
<1> QED BY <1>1, <1>2, <1>3, <1>4, <1>5, <1>6

\* No request, and one that goes on.
LEMMA NoRequest ==
    /\ NoMark \in Mark /\ NoPoll \in Asked
    /\ \A n \in Counts : [NoMark EXCEPT !.at = "set", !.count = n] \in Mark
    /\ [NoPoll EXCEPT !.at = "asked"] \in Asked
    /\ \A n \in Counts : [at |-> "read", count |-> n, stale |-> FALSE] \in Asked
<1>1. 0 \in Counts
  BY ReadStateAssumption DEF Counts
<1> QED BY <1>1 DEF NoMark, NoPoll, Mark, Asked

\* A tab with another connection, or another queue.
LEMMA TabMoves ==
    ASSUME tab \in [Tabs -> Tab], NEW t \in Tabs, NEW l \in {"lost", "open"},
           NEW q \in Seq(Counts)
    PROVE  /\ [tab EXCEPT ![t].line = l] \in [Tabs -> Tab]
           /\ [tab EXCEPT ![t].line = l, ![t].queue = q] \in [Tabs -> Tab]
           /\ \A u \in Tabs :
                  /\ [tab EXCEPT ![t].line = l][u].queue = tab[u].queue
                  /\ [tab EXCEPT ![t].line = l, ![t].queue = q][u].queue \in {q, tab[u].queue}
<1>1. tab[t] \in Tab
  OBVIOUS
<1>2. [tab[t] EXCEPT !.line = l] \in Tab /\ [tab[t] EXCEPT !.line = l].queue = tab[t].queue
  BY <1>1 DEF Tab
<1>3. /\ [[tab[t] EXCEPT !.line = l] EXCEPT !.queue = q] \in Tab
      /\ [[tab[t] EXCEPT !.line = l] EXCEPT !.queue = q].queue = q
  BY <1>2 DEF Tab
<1> HIDE DEF Tab
<1>4. [tab EXCEPT ![t].line = l, ![t].queue = q]
          = [tab EXCEPT ![t] = [[tab[t] EXCEPT !.line = l] EXCEPT !.queue = q]]
  OBVIOUS
<1>5. [tab EXCEPT ![t].line = l] = [tab EXCEPT ![t] = [tab[t] EXCEPT !.line = l]]
  OBVIOUS
<1> QED BY <1>2, <1>3, <1>4, <1>5

LEMMA ReadStarts == ReadInit => ReadInv
<1> SUFFICES ASSUME ReadInit PROVE ReadInv
  OBVIOUS
<1> USE ReadStateAssumption DEF ReadInit
<1>1. 0 \in Counts
  BY DEF Counts
<1>2. ReadTyped
  <2>1. tab \in [Tabs -> Tab] /\ \A t \in Tabs : Len(tab[t].queue) <= QueueCap
    BY <1>1 DEF Tab
  <2>2. mark \in [Tabs -> Mark] /\ poll \in [Tabs -> Asked]
    BY <1>1 DEF NoMark, NoPoll, Mark, Asked
  <2> QED BY <1>1, <2>1, <2>2 DEF ReadTyped
<1>3. Current /\ Converging
  BY DEF Current, Converging, NoMark, NoPoll
<1> QED BY <1>2, <1>3 DEF ReadInv

\* The types are kept.
LEMMA ReadTypedKept == ReadTyped /\ [ReadNext]_readVars => ReadTyped'
<1> SUFFICES ASSUME ReadTyped, [ReadNext]_readVars PROVE ReadTyped'
  OBVIOUS
<1> USE ReadStateAssumption DEF ReadTyped, Lose
<1>0. 0 \in Counts
  BY DEF Counts
<1> HIDE DEF Counts
<1>1. ASSUME NEW t \in Tabs, NEW n \in Counts, MarkAsRead(t, n) PROVE ReadTyped'
  <2>1. tab' \in [Tabs -> Tab] /\ \A u \in Tabs : tab'[u].queue = tab[u].queue
    BY <1>1 DEF MarkAsRead, Tab
  <2>2. mark' \in [Tabs -> Mark]
    BY <1>1 DEF MarkAsRead, NoMark, Mark
  <2> QED BY <1>1, <2>1, <2>2 DEF MarkAsRead
<1>2. ASSUME NEW t \in Tabs, SetReadCount(t) PROVE ReadTyped'
  <2>1. stored' \in Counts
    BY <1>2 DEF SetReadCount, Mark
  <2>2. mark' \in [Tabs -> Mark]
    <3>1. ASSUME NEW u \in Tabs
          PROVE  /\ [mark[u] EXCEPT !.at = "publish"] \in Mark
                 /\ [mark[u] EXCEPT !.overtaken = @ \/ mark[u].at = "publish"] \in Mark
      <4>1. (mark[u].overtaken \/ mark[u].at = "publish") \in BOOLEAN
        OBVIOUS
      <4> QED BY <4>1 DEF Mark
    <3> QED BY <1>2, <3>1 DEF SetReadCount
  <2>3. poll' \in [Tabs -> Asked]
    <3>1. ASSUME NEW u \in Tabs
          PROVE  [poll[u] EXCEPT !.stale = @ \/ poll[u].at = "read"] \in Asked
      <4>1. (poll[u].stale \/ poll[u].at = "read") \in BOOLEAN
        OBVIOUS
      <4> QED BY <4>1 DEF Asked
    <3> QED BY <1>2, <3>1 DEF SetReadCount
  <2> QED BY <1>2, <2>1, <2>2, <2>3 DEF SetReadCount
<1>3. ASSUME NEW t \in Tabs, SetReadCountFails(t) \/ PublishFails(t) PROVE ReadTyped'
  <2>1. mark' \in [Tabs -> Mark]
    BY <1>3, NoRequest DEF SetReadCountFails, PublishFails
  <2> QED BY <1>3, <2>1 DEF SetReadCountFails, PublishFails
<1>4. ASSUME NEW t \in Tabs, PublishReadState(t) PROVE ReadTyped'
  <2>1. mark' \in [Tabs -> Mark]
    BY <1>4, NoRequest DEF PublishReadState
  <2>2. mark[t].count \in Counts
    BY DEF Mark
  <2>3. ASSUME NEW u \in Tabs
        PROVE  tab'[u] \in Tab /\ Len(tab'[u].queue) <= QueueCap
    <3>1. CASE u \in Reached
      <4>1. tab'[u] = [tab[u] EXCEPT !.queue = Append(@, mark[t].count)]
        BY <1>4, <3>1 DEF PublishReadState
      <4>2. tab[u] \in Tab /\ Len(tab[u].queue) < QueueCap
        BY <3>1 DEF Reached
      <4>3. Append(tab[u].queue, mark[t].count) \in Seq(Counts)
            /\ Len(Append(tab[u].queue, mark[t].count)) = Len(tab[u].queue) + 1
        <5>1. tab[u].queue \in Seq(Counts)
          BY <4>2 DEF Tab
        <5> QED BY <2>2, <5>1, QueueFacts
      <4>4. Len(tab[u].queue) \in Nat
        BY <4>2 DEF Tab
      <4>5. Len(tab[u].queue) + 1 <= QueueCap
        BY <4>2, <4>4
      <4>6. tab'[u] \in Tab /\ tab'[u].queue = Append(tab[u].queue, mark[t].count)
        <5> DEFINE q == Append(tab[u].queue, mark[t].count)
        <5>1. q \in Seq(Counts) /\ tab'[u] = [tab[u] EXCEPT !.queue = q]
          BY <4>1, <4>3
        <5> HIDE DEF q
        <5>2. tab'[u] \in Tab /\ tab'[u].queue = q
          BY <4>2, <5>1 DEF Tab
        <5> QED BY <5>2 DEF q
      <4> QED BY <4>3, <4>5, <4>6
    <3>2. CASE u \notin Reached
      BY <1>4, <3>2 DEF PublishReadState
    <3> QED BY <3>1, <3>2
  <2>4. tab' \in [Tabs -> Tab]
    <3>1. DOMAIN tab' = Tabs /\ tab' = [u \in Tabs |-> tab'[u]]
      BY <1>4 DEF PublishReadState
    <3> QED BY <2>3, <3>1
  <2>5. missed' \subseteq Tabs
    BY <1>4 DEF PublishReadState
  <2> QED BY <1>4, <2>1, <2>3, <2>4, <2>5 DEF PublishReadState
<1>5. ASSUME NEW t \in Tabs, Subscribe(t) \/ CloseLine(t) PROVE ReadTyped'
  <2>1. <<>> \in Seq(Counts) /\ Len(<<>>) = 0
    OBVIOUS
  <2>2. tab' \in [Tabs -> Tab] /\ \A u \in Tabs : tab'[u].queue \in {<<>>, tab[u].queue}
    <3> DEFINE none == <<>>
    <3>1. none \in Seq(Counts)
      BY <2>1
    <3>2. \/ tab' = [tab EXCEPT ![t].line = "open"]
          \/ tab' = [tab EXCEPT ![t].line = "lost", ![t].queue = none]
      BY <1>5 DEF Subscribe, CloseLine
    <3> HIDE DEF none
    <3>3. tab' \in [Tabs -> Tab] /\ \A u \in Tabs : tab'[u].queue \in {none, tab[u].queue}
      <4>1. tab \in [Tabs -> Tab]
        OBVIOUS
      <4>2. CASE tab' = [tab EXCEPT ![t].line = "open"]
        <5>1. "open" \in {"lost", "open"}
          OBVIOUS
        <5> HIDE DEF ReadTyped, Tab
        <5> QED BY <1>0, <3>1, <4>1, <4>2, <5>1, TabMoves
      <4>3. CASE tab' = [tab EXCEPT ![t].line = "lost", ![t].queue = none]
        <5>1. "lost" \in {"lost", "open"}
          OBVIOUS
        <5> HIDE DEF ReadTyped, Tab
        <5> QED BY <1>0, <3>1, <4>1, <4>3, <5>1, TabMoves
      <4> QED BY <3>2, <4>2, <4>3
    <3> QED BY <3>3 DEF none
  <2>3. \A u \in Tabs : Len(tab'[u].queue) <= QueueCap
    BY <2>1, <2>2
  <2> QED BY <1>5, <2>2, <2>3 DEF Subscribe, CloseLine
<1>6. ASSUME NEW t \in Tabs, Deliver(t) PROVE ReadTyped'
  <2>1. tab[t].queue \in Seq(Counts) /\ tab[t].queue # <<>>
    BY <1>6 DEF Deliver, Tab
  <2>2. /\ Head(tab[t].queue) \in Counts /\ Tail(tab[t].queue) \in Seq(Counts)
        /\ Len(Tail(tab[t].queue)) = Len(tab[t].queue) - 1 /\ Len(tab[t].queue) \in Nat
    BY <2>1, QueueFacts
  <2>8. Len(tab[t].queue) <= QueueCap /\ Len(Tail(tab[t].queue)) <= QueueCap
    BY <2>2
  <2>3. tab' = [tab EXCEPT ![t] = [[tab[t] EXCEPT !.shown = Head(tab[t].queue)]
                                       EXCEPT !.queue = Tail(tab[t].queue)]]
    BY <1>6 DEF Deliver
  <2>4. [[tab[t] EXCEPT !.shown = Head(tab[t].queue)] EXCEPT !.queue = Tail(tab[t].queue)] \in Tab
    BY <2>2 DEF Tab
  <2>5. tab' \in [Tabs -> Tab]
    BY <2>3, <2>4
  <2>6. tab'[t].queue = Tail(tab[t].queue) /\ \A u \in Tabs \ {t} : tab'[u] = tab[u]
    BY <2>3 DEF Tab
  <2>7. \A u \in Tabs : Len(tab'[u].queue) <= QueueCap
    BY <2>6, <2>8
  <2> QED BY <1>6, <2>5, <2>7 DEF Deliver
<1>7. ASSUME NEW t \in Tabs, Poll(t) \/ GetReadState(t) \/ ShowState(t) \/ PollFails(t)
      PROVE  ReadTyped'
  <2>1. poll' \in [Tabs -> Asked]
    BY <1>7, NoRequest DEF Poll, GetReadState, ShowState, PollFails
  <2>2. tab' \in [Tabs -> Tab] /\ \A u \in Tabs : tab'[u].queue = tab[u].queue
    <3>1. poll[t].count \in Counts
      BY DEF Asked
    <3>2. tab' = tab \/ tab' = [tab EXCEPT ![t].shown = poll[t].count]
      BY <1>7 DEF Poll, GetReadState, ShowState, PollFails
    <3>3. CASE tab' = [tab EXCEPT ![t].shown = poll[t].count]
      <4> DEFINE r == [tab[t] EXCEPT !.shown = poll[t].count]
      <4>1. tab[t] \in Tab
        OBVIOUS
      <4>2. r \in Tab /\ r.queue = tab[t].queue
        BY <3>1, <4>1 DEF Tab
      <4>3. tab' = [tab EXCEPT ![t] = r]
        BY <3>3
      <4> HIDE DEF r
      <4> QED BY <4>2, <4>3
    <3> QED BY <3>2, <3>3
  <2> QED BY <1>7, <2>1, <2>2 DEF Poll, GetReadState, ShowState, PollFails
<1>8. CASE UNCHANGED readVars
  BY <1>8 DEF readVars
<1> QED BY <1>1, <1>2, <1>3, <1>4, <1>5, <1>6, <1>7, <1>8, Zenon DEF ReadNext

\* What is under way and not out of date is of the stored number.
LEMMA CurrentKept == ReadInv /\ [ReadNext]_readVars => Current'
<1> SUFFICES ASSUME ReadInv, [ReadNext]_readVars PROVE Current'
  OBVIOUS
<1> USE DEF ReadInv, ReadTyped, Current, Lose
<1>1. ASSUME NEW t \in Tabs, NEW n \in Counts, MarkAsRead(t, n) PROVE Current'
  BY <1>1 DEF MarkAsRead, NoMark, Mark
<1>2. ASSUME NEW t \in Tabs, SetReadCount(t) PROVE Current'
  <2>1. stored' = mark[t].count /\ mark'[t].count = mark[t].count
    BY <1>2 DEF SetReadCount, Mark
  <2>2. ASSUME NEW u \in Tabs \ {t} PROVE mark'[u].at = "publish" => mark'[u].overtaken
    BY <1>2, <2>2 DEF SetReadCount, Mark
  <2>3. ASSUME NEW u \in Tabs PROVE poll'[u].at = "read" => poll'[u].stale
    BY <1>2, <2>3 DEF SetReadCount, Asked
  <2> QED BY <2>1, <2>2, <2>3
<1>3. ASSUME NEW t \in Tabs,
             \/ SetReadCountFails(t) \/ PublishFails(t) \/ PublishReadState(t)
             \/ Subscribe(t) \/ Deliver(t) \/ CloseLine(t)
      PROVE  Current'
  BY <1>3 DEF SetReadCountFails, PublishFails, PublishReadState, Subscribe, Deliver, CloseLine,
       NoMark, Mark
<1>4. ASSUME NEW t \in Tabs, Poll(t) \/ GetReadState(t) \/ ShowState(t) \/ PollFails(t)
      PROVE  Current'
  <2>1. stored' = stored /\ mark' = mark
    BY <1>4 DEF Poll, GetReadState, ShowState, PollFails
  <2>2. \A u \in Tabs \ {t} : poll'[u] = poll[u]
    BY <1>4 DEF Poll, GetReadState, ShowState, PollFails
  <2>3. poll'[t].at = "read" => poll'[t].count = stored
    BY <1>4 DEF Poll, GetReadState, ShowState, PollFails, NoPoll
  <2> QED BY <2>1, <2>2, <2>3
<1>5. CASE UNCHANGED readVars
  BY <1>5 DEF readVars
<1> QED BY <1>1, <1>2, <1>3, <1>4, <1>5, Zenon DEF ReadNext

\* A tab that missed nothing is about to show the stored number.
LEMMA ConvergingKept == ReadInv /\ [ReadNext]_readVars => Converging'
<1> SUFFICES ASSUME ReadInv, [ReadNext]_readVars PROVE Converging'
  OBVIOUS
<1> USE DEF ReadInv, ReadTyped, Current, Converging, Lose
<1>1. ASSUME NEW t \in Tabs, NEW n \in Counts, MarkAsRead(t, n) PROVE Converging'
  <2>1. mark'[t].at = "set" /\ \A u \in Tabs \ {t} : mark'[u] = mark[u] /\ tab'[u] = tab[u]
    BY <1>1 DEF MarkAsRead, NoMark, Mark
  <2>2. mark[t].at # "publish" /\ stored' = stored /\ poll' = poll /\ missed' = missed
    BY <1>1 DEF MarkAsRead
  <2> QED BY <2>1, <2>2
<1>2. ASSUME NEW t \in Tabs, SetReadCount(t) PROVE Converging'
  <2>1. mark'[t].at = "publish"
    BY <1>2 DEF SetReadCount, Mark
  <2> QED BY <1>2, <2>1 DEF SetReadCount
<1>3. ASSUME NEW t \in Tabs, SetReadCountFails(t) PROVE Converging'
  <2>1. \A u \in Tabs \ {t} : mark'[u] = mark[u]
    BY <1>3 DEF SetReadCountFails
  <2>2. mark[t].at # "publish" /\ missed' = missed \cup {t}
        /\ stored' = stored /\ poll' = poll /\ tab' = tab
    BY <1>3 DEF SetReadCountFails
  <2> QED BY <2>1, <2>2
<1>4. ASSUME NEW t \in Tabs, PublishReadState(t) PROVE Converging'
  <2> SUFFICES ASSUME NEW u \in Tabs \ missed',
                      \A w \in Tabs : mark'[w].at # "publish", mark'[u].at # "set"
               PROVE  IF tab'[u].queue # <<>> THEN tab'[u].queue[Len(tab'[u].queue)] = stored'
                      ELSE poll'[u].at = "read" \/ tab'[u].shown = stored'
    OBVIOUS
  <2>1. ~mark[t].overtaken /\ u \in Reached
    BY <1>4 DEF PublishReadState
  <2>2. mark[t].count = stored /\ stored' = stored /\ mark[t].count \in Counts
    BY <1>4, <2>1 DEF PublishReadState, Mark
  <2>3. tab'[u] = [tab[u] EXCEPT !.queue = Append(@, mark[t].count)]
    BY <1>4, <2>1 DEF PublishReadState
  <2>4. tab[u].queue \in Seq(Counts) /\ tab'[u].queue = Append(tab[u].queue, mark[t].count)
    BY <2>3 DEF Tab
  <2>5. tab'[u].queue # <<>> /\ tab'[u].queue[Len(tab'[u].queue)] = mark[t].count
    BY <2>2, <2>4, QueueFacts
  <2> QED BY <2>2, <2>5
<1>5. ASSUME NEW t \in Tabs, PublishFails(t) PROVE Converging'
  BY <1>5 DEF PublishFails
<1>6. ASSUME NEW t \in Tabs, Subscribe(t) PROVE Converging'
  <2>1. \A u \in Tabs : tab'[u].queue = tab[u].queue /\ tab'[u].shown = tab[u].shown
    BY <1>6 DEF Subscribe, Tab
  <2> QED BY <1>6, <2>1 DEF Subscribe
<1>7. ASSUME NEW t \in Tabs, Deliver(t) PROVE Converging'
  <2>1. tab[t].queue \in Seq(Counts) /\ tab[t].queue # <<>>
    BY <1>7 DEF Deliver, Tab
  <2>2. /\ tab'[t].queue = Tail(tab[t].queue) /\ tab'[t].shown = Head(tab[t].queue)
        /\ \A u \in Tabs \ {t} : tab'[u] = tab[u]
    BY <1>7 DEF Deliver, Tab
  <2>3. tab'[t].queue = <<>> => tab'[t].shown = tab[t].queue[Len(tab[t].queue)]
    BY <2>1, <2>2, QueueFacts
  <2>4. tab'[t].queue # <<>> =>
            tab'[t].queue[Len(tab'[t].queue)] = tab[t].queue[Len(tab[t].queue)]
    BY <2>1, <2>2, QueueFacts
  <2>5. stored' = stored /\ mark' = mark /\ poll' = poll /\ missed' = missed
    BY <1>7 DEF Deliver
  <2> DEFINE last == tab[t].queue[Len(tab[t].queue)]
             last1 == tab'[t].queue[Len(tab'[t].queue)]
  <2>6. (tab'[t].queue = <<>> => tab'[t].shown = last) /\ (tab'[t].queue # <<>> => last1 = last)
    BY <2>3, <2>4
  <2>7. (t \notin missed /\ (\A u \in Tabs : mark[u].at # "publish") /\ mark[t].at # "set")
            => last = stored
    BY <2>1
  <2> HIDE DEF last
  <2>8. ASSUME t \notin missed, \A u \in Tabs : mark'[u].at # "publish", mark'[t].at # "set"
        PROVE  IF tab'[t].queue # <<>> THEN last1 = stored'
               ELSE poll'[t].at = "read" \/ tab'[t].shown = stored'
    BY <2>5, <2>6, <2>7, <2>8
  <2> QED BY <2>2, <2>5, <2>8
<1>8. ASSUME NEW t \in Tabs, CloseLine(t) PROVE Converging'
  <2>1. \A u \in Tabs \ {t} : tab'[u] = tab[u]
    BY <1>8 DEF CloseLine
  <2>2. tab'[t].queue = <<>> /\ tab'[t].shown = tab[t].shown
    BY <1>8 DEF CloseLine, Tab
  <2> QED BY <1>8, <2>1, <2>2 DEF CloseLine
<1>9. ASSUME NEW t \in Tabs, Poll(t) PROVE Converging'
  <2>1. poll[t].at = "idle" /\ \A u \in Tabs \ {t} : poll'[u] = poll[u]
    BY <1>9 DEF Poll
  <2> QED BY <1>9, <2>1 DEF Poll
<1>10. ASSUME NEW t \in Tabs, GetReadState(t) PROVE Converging'
  <2>1. poll'[t].at = "read" /\ \A u \in Tabs \ {t} : poll'[u] = poll[u]
    BY <1>10 DEF GetReadState
  <2>2. stored' = stored /\ tab' = tab /\ mark' = mark
    BY <1>10 DEF GetReadState
  <2>3. \A u \in Tabs \ missed' : u \in missed => u = t /\ tab[t].queue = <<>>
    BY <1>10 DEF GetReadState
  <2> QED BY <2>1, <2>2, <2>3
<1>11. ASSUME NEW t \in Tabs, ShowState(t) PROVE Converging'
  <2>1. \A u \in Tabs \ {t} : poll'[u] = poll[u] /\ tab'[u] = tab[u]
    BY <1>11 DEF ShowState
  <2>2. tab'[t].queue = tab[t].queue /\ tab'[t].shown = poll[t].count
    BY <1>11 DEF ShowState, Tab
  <2>3. stored' = stored /\ mark' = mark
        /\ missed' = IF poll[t].stale THEN missed \cup {t} ELSE missed
    BY <1>11 DEF ShowState
  <2>4. ~poll[t].stale => poll[t].count = stored
    BY <1>11 DEF ShowState
  <2> QED BY <2>1, <2>2, <2>3, <2>4
<1>12. ASSUME NEW t \in Tabs, PollFails(t) PROVE Converging'
  <2>1. \A u \in Tabs \ {t} : poll'[u] = poll[u]
    BY <1>12 DEF PollFails
  <2> QED BY <1>12, <2>1 DEF PollFails
<1>13. CASE UNCHANGED readVars
  BY <1>13 DEF readVars
<1> QED BY <1>1, <1>2, <1>3, <1>4, <1>5, <1>6, <1>7, <1>8, <1>9, <1>10, <1>11, <1>12, <1>13,
           Zenon DEF ReadNext

\* The invariant of the tabs ...
LEMMA ReadKept == ReadInv /\ [ReadNext]_readVars => ReadInv'
BY ReadTypedKept, CurrentKept, ConvergingKept, Zenon DEF ReadInv

\* ... and what it is for.
LEMMA ReadHolds == ReadInv => ReadTypeOK /\ TabsAgree
<1> SUFFICES ASSUME ReadInv PROVE ReadTypeOK /\ TabsAgree
  OBVIOUS
<1>1. ReadTypeOK
  <2>1. \A t \in Tabs : /\ tab[t].shown \in Counts /\ tab[t].line \in {"lost", "open"}
                        /\ tab[t].queue \in Seq(Counts)
    BY DEF ReadInv, ReadTyped, Tab
  <2> QED BY <2>1, Zenon DEF ReadInv, ReadTyped, ReadTypeOK, Mark, Asked
<1>2. TabsAgree
  <2> SUFFICES ASSUME Still, NEW t \in Tabs \ missed PROVE tab[t].shown = stored
    BY DEF TabsAgree
  <2>1. (\A u \in Tabs : mark[u].at # "publish") /\ mark[t].at # "set"
    BY DEF Still
  <2>2. tab[t].queue = <<>> /\ poll[t].at # "read"
    BY DEF Still
  <2> QED BY <2>1, <2>2 DEF ReadInv, Converging
<1> QED BY <1>1, <1>2

-----------------------------------------------------------------------------
(* A conversation's pages. *)

\* Messages of a conversation, from one to another.
LEMMA StretchTyped ==
    ASSUME NEW c \in Conversations, NEW start \in Nat, NEW end \in 0 .. MaxMessages, start <= end
    PROVE  Stretch(c, start, end) \in Seq(Messages)
<1>1. end \in Nat /\ MaxMessages \in Nat /\ end - start \in Nat /\ end <= MaxMessages
  BY PagesAssumption
<1>2. \A i \in 1 .. (end - start) : start + i \in 1 .. MaxMessages
  BY <1>1
<1>3. \A i \in 1 .. (end - start) : <<c, start + i>> \in Messages
  BY <1>2 DEF Messages
<1> HIDE DEF Messages
<1>4. Stretch(c, start, end) \in [1 .. (end - start) -> Messages]
  BY <1>3 DEF Stretch
<1> QED BY <1>1, <1>4

\* Two stretches that meet are one.
LEMMA StretchesJoin ==
    ASSUME NEW c \in Conversations, NEW a \in Nat, NEW b \in Nat, NEW e \in 0 .. MaxMessages,
           a <= b, b <= e
    PROVE  Stretch(c, a, b) \o Stretch(c, b, e) = Stretch(c, a, e)
<1> DEFINE s == Stretch(c, a, b)
           t == Stretch(c, b, e)
           u == Stretch(c, a, e)
<1>1. MaxMessages \in Nat /\ e \in Nat /\ b <= MaxMessages /\ b \in 0 .. MaxMessages
  BY PagesAssumption
<1>2. s \in Seq(Messages) /\ t \in Seq(Messages) /\ u \in Seq(Messages)
  BY <1>1, StretchTyped
<1>3. Len(s) = b - a /\ Len(t) = e - b /\ Len(u) = e - a
  BY <1>1 DEF Stretch
<1>4. /\ \A i \in 1 .. b - a : s[i] = <<c, a + i>>
      /\ \A i \in 1 .. e - b : t[i] = <<c, b + i>>
      /\ \A i \in 1 .. e - a : u[i] = <<c, a + i>>
  BY <1>1 DEF Stretch
<1> HIDE DEF s, t, u
<1>5. Len(s) + Len(t) = e - a /\ (s \o t) \in Seq(Messages) /\ Len(s \o t) = e - a
  <2> HIDE DEF Messages
  <2>1. Len(s \o t) = Len(s) + Len(t) /\ (s \o t) \in Seq(Messages)
    BY <1>2, ConcatProperties
  <2> QED BY <1>1, <1>3, <2>1
<1>6. ASSUME NEW i \in 1 .. e - a PROVE (s \o t)[i] = u[i]
  <2>1. (s \o t)[i] = IF i <= Len(s) THEN s[i] ELSE t[i - Len(s)]
    <3>1. i \in 1 .. Len(s) + Len(t)
      BY <1>5, <1>6
    <3> QED BY <1>2, <3>1, ConcatProperties
  <2>2. u[i] = <<c, a + i>>
    BY <1>4
  <2>3. CASE i <= b - a
    <3>1. i \in 1 .. b - a
      BY <1>1, <2>3
    <3> QED BY <1>3, <1>4, <2>1, <2>2, <2>3, <3>1
  <2>4. CASE ~(i <= b - a)
    <3>1. i - (b - a) \in 1 .. e - b /\ b + (i - (b - a)) = a + i
      BY <1>1, <2>4
    <3>2. t[i - (b - a)] = <<c, b + (i - (b - a))>>
      BY <1>4, <3>1
    <3> QED BY <1>3, <2>1, <2>2, <2>4, <3>1, <3>2
  <2> QED BY <2>3, <2>4
<1>7. s \o t = u
  BY <1>2, <1>3, <1>5, <1>6, SeqEqual
<1> QED BY <1>7 DEF s, t, u

\* GetSessionPaginated: the page before a cursor that is not behind the end
\* ends there, any other ends with the conversation; and it knows whether
\* messages precede it.
LEMMA PageFacts ==
    ASSUME NEW c \in Conversations, NEW before \in Nat, total \in [Conversations -> 0 .. MaxMessages]
    PROVE  /\ Page(c, before) \in Shown /\ Page(c, before).of = c
           /\ (before > 0 /\ before < total[c]) => IsPage(Page(c, before), before)
           /\ ~(before > 0 /\ before < total[c]) => IsPage(Page(c, before), total[c])
<1> DEFINE end == IF before > 0 /\ before < total[c] THEN before ELSE total[c]
           start == IF end < PageSize THEN 0 ELSE end - PageSize
<1>1. MaxMessages \in Nat /\ PageSize \in Nat \ {0} /\ total[c] \in 0 .. MaxMessages
  BY PagesAssumption
<1>2. end \in 0 .. MaxMessages /\ end \in Nat
  BY <1>1
<1>3. (before > 0 /\ before < total[c] => end = before)
      /\ (~(before > 0 /\ before < total[c]) => end = total[c])
  OBVIOUS
<1>4. Page(c, before) = [of |-> c, messages |-> Stretch(c, start, end), more |-> start > 0,
                         cursor |-> IF start > 0 THEN start ELSE NoCursor]
  BY Zenon DEF Page
<1> HIDE DEF end
<1>5. start \in Nat /\ start <= end /\ (start > 0 => start < end) /\ start \in 0 .. end
  BY <1>1, <1>2
<1> HIDE DEF start
<1>6. Stretch(c, start, end) \in Seq(Messages)
  BY <1>2, <1>5, StretchTyped
<1>7. (start > 0) \in BOOLEAN /\ (IF start > 0 THEN start ELSE NoCursor) \in Nat
  BY <1>5 DEF NoCursor
<1>8. Page(c, before) \in Shown
  <2> HIDE DEF Messages
  <2> DEFINE m == Stretch(c, start, end)
             k == IF start > 0 THEN start ELSE NoCursor
  <2>1. Page(c, before) = [of |-> c, messages |-> m, more |-> start > 0, cursor |-> k]
    BY <1>4, Zenon
  <2>2. m \in Seq(Messages) /\ k \in Nat
    BY <1>6, <1>7
  <2> HIDE DEF m, k
  <2> QED BY <1>7, <2>1, <2>2 DEF Shown
<1>9. IsPage(Page(c, before), end)
  <2>1. /\ Page(c, before).messages = Stretch(c, start, end) /\ Page(c, before).of = c
        /\ Page(c, before).more <=> start > 0
        /\ start > 0 => Page(c, before).cursor = start
    <3> DEFINE m == Stretch(c, start, end)
               k == IF start > 0 THEN start ELSE NoCursor
    <3>1. Page(c, before) = [of |-> c, messages |-> m, more |-> start > 0, cursor |-> k]
      BY <1>4, Zenon
    <3>2. start > 0 => k = start
      OBVIOUS
    <3> HIDE DEF m, k
    <3>3. /\ Page(c, before).messages = m /\ Page(c, before).of = c
          /\ Page(c, before).more = (start > 0) /\ Page(c, before).cursor = k
      BY <3>1
    <3> QED BY <3>2, <3>3, Zenon DEF m
  <2> QED BY <1>5, <2>1, Zenon DEF IsPage
<1>10. Page(c, before).of = c
  BY <1>4
<1> QED BY <1>3, <1>8, <1>9, <1>10

\* GetSession without a limit: the conversation from its beginning.
LEMMA WholeFacts ==
    ASSUME NEW c \in Conversations, total \in [Conversations -> 0 .. MaxMessages]
    PROVE  /\ Whole(c) \in Shown /\ Whole(c).of = c
           /\ Whole(c).messages = Stretch(c, 0, total[c])
<1> DEFINE m == Stretch(c, 0, total[c])
<1>1. m \in Seq(Messages)
  <2>1. MaxMessages \in Nat /\ total[c] \in 0 .. MaxMessages /\ 0 \in Nat /\ 0 <= total[c]
    BY PagesAssumption
  <2> QED BY <2>1, StretchTyped
<1>2. Whole(c) = [of |-> c, messages |-> m, more |-> FALSE, cursor |-> NoCursor] /\ NoCursor \in Nat
  BY DEF Whole, NoCursor
<1> HIDE DEF m, Messages
<1>3. Whole(c) \in Shown /\ Whole(c).of = c /\ Whole(c).messages = m
  BY <1>1, <1>2 DEF Shown
<1> QED BY <1>3 DEF m

\* Nothing shown, and no request.
LEMMA NothingTyped ==
    /\ NothingShown(NoConversation) \in Shown
    /\ NoStream \in [on : BOOLEAN, base : Seq(Messages)] /\ NoStream.on = FALSE
    /\ Unasked \in Request /\ Unasked.at = "idle"
    /\ \A c \in Conversations :
           [Unasked EXCEPT !.for = "newest", !.of = c, !.at = "asked"] \in Request
    /\ \A c \in Conversations, n \in Nat, b \in BOOLEAN :
           [Unasked EXCEPT !.for = "older", !.of = c, !.before = n, !.quiet = b,
                           !.at = "asked"] \in Request
    /\ \A c \in Conversations :
           [Unasked EXCEPT !.for = "whole", !.of = c, !.at = "asked"] \in Request
<1> HIDE DEF Messages
<1>1. NothingShown(NoConversation) \in Shown /\ NoStream \in [on : BOOLEAN, base : Seq(Messages)]
  <2> DEFINE none == <<>>
  <2>1. none \in Seq(Messages) /\ NoCursor \in Nat
    BY DEF NoCursor
  <2>2. NothingShown(NoConversation)
          = [of |-> NoConversation, messages |-> none, more |-> FALSE, cursor |-> NoCursor]
        /\ NoStream = [on |-> FALSE, base |-> none]
    BY Zenon DEF NothingShown, NoStream
  <2> HIDE DEF none
  <2> QED BY <2>1, <2>2 DEF Shown
<1>2. NoCursor \in Nat /\ NoStream.on = FALSE /\ Unasked.at = "idle"
  BY DEF NoCursor, NoStream, Unasked
<1> HIDE DEF NothingShown, NoCursor, Shown
<1> QED BY <1>1, <1>2 DEF Unasked, Request

LEMMA PagesStart == PagesInit => PagesInv
<1> SUFFICES ASSUME PagesInit PROVE PagesInv
  OBVIOUS
<1>1. PagesTyped
  <2>1. total \in [Conversations -> 0 .. MaxMessages] /\ 0 \in 0 .. MaxOwnRuns
    BY PagesAssumption DEF PagesInit
  <2>2. ask \in [Asks -> Request] /\ view \in Shown
        /\ stream \in [on : BOOLEAN, base : Seq(Messages)] /\ stream.on = FALSE
    BY NothingTyped DEF PagesInit
  <2>3. UnderWay = {} /\ \A q \in Asks : ask[q].at = "idle"
    BY DEF PagesInit, UnderWay, Unasked
  <2> QED BY <2>1, <2>2, <2>3 DEF PagesInit, PagesTyped
<1>2. ViewJoins
  BY DEF PagesInit, ViewJoins, NothingShown
<1>3. OneAtATime /\ AnswersJoin
  BY DEF PagesInit, OneAtATime, AnswersJoin, UnderWay, Unasked
<1> QED BY <1>1, <1>2, <1>3 DEF PagesInv

\* A question, or a reply, is one of the conversation's messages.
LEMMA GrowsTyped ==
    ASSUME PagesTyped, NEW c \in Conversations, Grows(c)
    PROVE  /\ total' \in [Conversations -> 0 .. MaxMessages]
           /\ total[c] \in Nat /\ total'[c] = total[c] + 1 /\ total'[c] <= MaxMessages
           /\ \A d \in Conversations : total[d] <= total'[d]
           /\ \A list \in Seq(Messages) :
                  list \o << <<c, total[c] + 1>> >> \in Seq(Messages)
<1>1. MaxMessages \in Nat /\ total \in [Conversations -> 0 .. MaxMessages]
      /\ total[c] < MaxMessages /\ total' = [total EXCEPT ![c] = @ + 1]
  BY PagesAssumption DEF PagesTyped, Grows
<1>2. total[c] \in Nat /\ total[c] + 1 \in 1 .. MaxMessages
  BY <1>1
<1>3. <<c, total[c] + 1>> \in Messages
  BY <1>2 DEF Messages
<1>4. \A list \in Seq(Messages) : list \o << <<c, total[c] + 1>> >> \in Seq(Messages)
  <2> DEFINE m == <<c, total[c] + 1>>
  <2>1. m \in Messages
    BY <1>3
  <2> HIDE DEF m, Messages
  <2>2. ASSUME NEW list \in Seq(Messages) PROVE list \o <<m>> \in Seq(Messages)
    <3>1. <<m>> \in Seq(Messages)
      BY <2>1
    <3> QED BY <3>1, ConcatProperties
  <2> QED BY <2>2 DEF m
<1>5. \A d \in Conversations : total[d] <= total'[d]
  BY <1>1
<1>6. total' \in [Conversations -> 0 .. MaxMessages] /\ total'[c] = total[c] + 1
  BY <1>1, <1>2
<1> QED BY <1>1, <1>2, <1>4, <1>5, <1>6

\* The types are kept.
LEMMA PagesTypedKept == PagesTyped /\ [PagesNext]_pageVars => PagesTyped'
<1> SUFFICES ASSUME PagesTyped, [PagesNext]_pageVars PROVE PagesTyped'
  OBVIOUS
<1> USE DEF PagesTyped
<1> HIDE DEF Shown, Request, UnderWay, Messages
<1>0. MaxMessages \in Nat
  BY PagesAssumption
<1>U. \A q \in Asks : q \in UnderWay => ask[q].of \in Conversations
  OBVIOUS
<1>1. ASSUME NEW c \in Conversations, AddedTo(c) PROVE PagesTyped'
  <2>1. total' \in [Conversations -> 0 .. MaxMessages]
    BY <1>1, GrowsTyped DEF AddedTo
  <2> QED BY <1>1, <2>1 DEF AddedTo, UnderWay, runVars
<1>2. ASSUME NEW c \in Conversations, WrittenBack(c) PROVE PagesTyped'
  <2>1. total' \in [Conversations -> 0 .. MaxMessages]
    BY <1>0, <1>2 DEF WrittenBack
  <2> QED BY <1>2, <2>1 DEF WrittenBack, UnderWay, runVars
<1>3. ASSUME NEW q \in Asks, NEW r \in Request, ask' = [ask EXCEPT ![q] = r],
             r.at # "idle" => r.of \in Conversations, r.at = "read" => r.page.of = r.of,
             view' \in Shown, stream' \in [on : BOOLEAN, base : Seq(Messages)],
             stream'.on => view'.of \in Conversations \ {NoConversation},
             torn' \in BOOLEAN, repeated' \in BOOLEAN,
             total' = total, shrunk' = shrunk, ownRuns' = ownRuns
      PROVE  PagesTyped'
  <2>1. ask' \in [Asks -> Request]
    BY <1>3
  <2>2. \A p \in UnderWay' : ask'[p].of \in Conversations
    BY <1>3 DEF UnderWay
  <2>3. \A p \in Asks : ask'[p].at = "read" => ask'[p].page.of = ask'[p].of
    BY <1>3
  <2> QED BY <1>3, <2>1, <2>2, <2>3
<1>4. ASSUME NEW q \in Asks, NEW c \in Conversations, SelectSession(q, c) PROVE PagesTyped'
  <2> DEFINE r == [Unasked EXCEPT !.for = "newest", !.of = c, !.at = "asked"]
  <2>1. r \in Request /\ r.of = c /\ r.at = "asked"
    <3>1. r.of = c /\ r.at = "asked"
      BY DEF Unasked
    <3> QED BY <3>1, NothingTyped
  <2>2. ask' = [ask EXCEPT ![q] = r] /\ view' = NothingShown(NoConversation)
        /\ stream' = NoStream /\ repeated' = FALSE
        /\ torn' = (UnderWay # {}) /\ total' = total /\ shrunk' = shrunk /\ ownRuns' = ownRuns
    BY <1>4, Zenon DEF SelectSession
  <2>3. view' \in Shown /\ torn' \in BOOLEAN /\ repeated' \in BOOLEAN
    <3>1. (UnderWay # {}) \in BOOLEAN
      OBVIOUS
    <3> QED BY <2>2, <3>1, NothingTyped, Zenon
  <2>4. stream' \in [on : BOOLEAN, base : Seq(Messages)] /\ ~stream'.on
    BY <2>2, NothingTyped
  <2> HIDE DEF r
  <2> QED BY <1>3, <2>1, <2>2, <2>3, <2>4
<1>5. ASSUME NEW q \in Asks, LoadOlder(q) PROVE PagesTyped'
  <2> DEFINE r == [Unasked EXCEPT !.for = "older", !.of = view.of, !.before = view.cursor,
                                  !.quiet = ~stream.on, !.at = "asked"]
  <2>1. view.of \in Conversations /\ view.cursor \in Nat /\ (~stream.on) \in BOOLEAN
    BY <1>5 DEF LoadOlder, Shown
  <2>2. r \in Request /\ r.of = view.of /\ r.at = "asked"
    <3>1. r.of = view.of /\ r.at = "asked"
      BY DEF Unasked
    <3> QED BY <2>1, <3>1, NothingTyped
  <2>3. ask' = [ask EXCEPT ![q] = r] /\ view' = view /\ stream' = stream /\ ownRuns' = ownRuns
        /\ torn' = torn /\ repeated' = repeated /\ total' = total /\ shrunk' = shrunk
    BY <1>5, Zenon DEF LoadOlder, runVars
  <2> HIDE DEF r
  <2> QED BY <1>3, <2>1, <2>2, <2>3
<1>6. ASSUME NEW q \in Asks, AskWhole(q) PROVE PagesTyped'
  <2> DEFINE r == [Unasked EXCEPT !.for = "whole", !.of = view.of, !.at = "asked"]
  <2>1. view.of \in Conversations
    BY <1>6 DEF AskWhole, Shown
  <2>2. r \in Request /\ r.of = view.of /\ r.at = "asked"
    <3>1. r.of = view.of /\ r.at = "asked"
      BY DEF Unasked
    <3> QED BY <2>1, <3>1, NothingTyped
  <2>3. ask' = [ask EXCEPT ![q] = r] /\ view' = view /\ stream' = stream /\ ownRuns' = ownRuns
        /\ torn' = torn /\ repeated' = repeated /\ total' = total /\ shrunk' = shrunk
    BY <1>6, Zenon DEF AskWhole, runVars
  <2> HIDE DEF r
  <2> QED BY <1>3, <2>1, <2>2, <2>3
<1>7. ASSUME NEW q \in Asks, ReadPage(q) PROVE PagesTyped'
  <2> DEFINE p == IF ask[q].for = "whole" THEN Whole(ask[q].of) ELSE Page(ask[q].of, ask[q].before)
             r == [[ask[q] EXCEPT !.at = "read"] EXCEPT !.page = p]
  <2>1. ask[q].of \in Conversations /\ ask[q].before \in Nat /\ ask[q] \in Request
    BY <1>7 DEF ReadPage, UnderWay, Request
  <2>2. p \in Shown /\ p.of = ask[q].of
    BY <2>1, PageFacts, WholeFacts
  <2>4. ask' = [ask EXCEPT ![q] = r]
    BY <1>7 DEF ReadPage
  <2> HIDE DEF p
  <2>3. r \in Request /\ r.of = ask[q].of /\ r.page.of = r.of
    BY <2>1, <2>2 DEF Request
  <2>5. view' = view /\ stream' = stream /\ ownRuns' = ownRuns
        /\ torn' = torn /\ repeated' = repeated /\ total' = total /\ shrunk' = shrunk
    BY <1>7, Zenon DEF ReadPage, runVars
  <2> HIDE DEF r
  <2> QED BY <1>3, <2>1, <2>3, <2>4, <2>5
<1>8. ASSUME NEW q \in Asks, \/ ShowNewest(q) \/ ShowOlder(q) \/ ShowWhole(q) \/ PageFails(q)
      PROVE  PagesTyped'
  <2>1. ask' = [ask EXCEPT ![q] = Unasked] /\ total' = total /\ shrunk' = shrunk /\ ownRuns' = ownRuns
    BY <1>8, Zenon DEF ShowNewest, ShowOlder, ShowWhole, PageFails, AnswerComes, runVars
  <2> DEFINE page == ask[q].page
  <2>2. page \in Shown /\ page.messages \in Seq(Messages) /\ page.more \in BOOLEAN
        /\ page.cursor \in Nat /\ view.messages \in Seq(Messages)
        /\ page.of \in Conversations \cup {NoConversation}
    BY DEF Request, Shown
  <2>3. (page.messages \o view.messages) \in Seq(Messages)
    BY <2>2, ConcatProperties
  <2>4. CASE ShowNewest(q)
    <3>1. CASE view.of = page.of
      <4>1. view' = [page EXCEPT !.messages = view.messages] /\ stream' = stream
        BY <2>4, <3>1 DEF ShowNewest
      <4> HIDE DEF page
      <4>2. view' \in Shown /\ view'.of = view.of
        BY <2>2, <3>1, <4>1 DEF Shown
      <4>3. torn' \in BOOLEAN /\ repeated' \in BOOLEAN
        BY <2>4 DEF ShowNewest
      <4> QED BY <1>3, <2>1, <4>1, <4>2, <4>3, NothingTyped
    <3>2. CASE view.of # page.of
      <4>1. view' = page /\ stream' = NoStream /\ torn' = torn /\ repeated' = repeated
        BY <2>4, <3>2 DEF ShowNewest
      <4> HIDE DEF page
      <4> QED BY <1>3, <2>1, <2>2, <4>1, NothingTyped
    <3> QED BY <3>1, <3>2
  <2>5. CASE ShowOlder(q)
    <3>1. PICK m \in Seq(Messages) :
            view' = [view EXCEPT !.messages = m, !.more = page.more, !.cursor = page.cursor]
      <4>1. CASE ask[q].quiet
        <5>1. view' = [view EXCEPT !.messages = page.messages \o view.messages,
                                   !.more = page.more, !.cursor = page.cursor]
          BY <2>5, <4>1 DEF ShowOlder
        <5> QED BY <2>3, <5>1, Zenon
      <4>2. CASE ~ask[q].quiet
        <5>1. view' = [view EXCEPT !.messages = view.messages,
                                   !.more = page.more, !.cursor = page.cursor]
          BY <2>5, <4>2 DEF ShowOlder
        <5> QED BY <2>2, <5>1, Zenon
      <4> QED BY <4>1, <4>2
    <3>2. torn' \in BOOLEAN /\ repeated' = repeated /\ stream' = stream
      <4>1. ask[q].quiet \in BOOLEAN /\ stream.on \in BOOLEAN
        BY DEF Request
      <4>2. (torn \/ ~ask[q].quiet \/ stream.on) \in BOOLEAN
        OBVIOUS
      <4> QED BY <2>5, <4>2 DEF ShowOlder, runVars
    <3> HIDE DEF page
    <3>3. view' \in Shown /\ view'.of = view.of
      BY <2>2, <3>1 DEF Shown
    <3> QED BY <1>3, <2>1, <3>2, <3>3, NothingTyped
  <2>6. CASE ShowWhole(q)
    <3>1. view' = [view EXCEPT !.messages = page.messages] /\ stream' = stream /\ torn' = torn
          /\ repeated' = (repeated \/ view.more)
      BY <2>6 DEF ShowWhole, runVars
    <3>2. repeated' \in BOOLEAN
      BY <3>1
    <3> HIDE DEF page
    <3>3. view' \in Shown /\ view'.of = view.of
      BY <2>2, <3>1 DEF Shown
    <3> QED BY <1>3, <2>1, <3>1, <3>2, <3>3, NothingTyped
  <2>7. CASE PageFails(q)
    <3>1. view' = view /\ stream' = stream /\ torn' = torn /\ repeated' = repeated
      BY <2>7, Zenon DEF PageFails, runVars
    <3> QED BY <1>3, <2>1, <3>1, NothingTyped
  <2> QED BY <1>8, <2>4, <2>5, <2>6, <2>7
<1>9. CASE SendMessage
  <2>1. view.of \in Conversations /\ view.of # NoConversation
        /\ view.messages \in Seq(Messages) /\ Grows(view.of)
        /\ ask' = ask /\ shrunk' = shrunk /\ repeated' = repeated
    BY <1>9 DEF SendMessage, Shown
  <2>2. PICK kept \in 0 .. Len(view.messages) :
          LET base == SubSeq(view.messages, 1, kept) \o << <<view.of, total[view.of] + 1>> >> IN
          /\ view' = [view EXCEPT !.messages = base]
          /\ stream' = [on |-> TRUE, base |-> base]
          /\ torn' = (torn \/ kept < Len(view.messages) \/ ~UpTo(view.messages, view.of))
    BY <1>9, Zenon DEF SendMessage
  <2>3. SubSeq(view.messages, 1, kept) \in Seq(Messages)
    <3>1. kept \in Nat /\ kept <= Len(view.messages) /\ Len(view.messages) \in Nat
      BY <2>1
    <3>2. \A i \in 1 .. kept : view.messages[i] \in Messages
      BY <2>1, <3>1
    <3> QED BY <2>1, <3>1, <3>2, SubSeqProperties
  <2> DEFINE base == SubSeq(view.messages, 1, kept) \o << <<view.of, total[view.of] + 1>> >>
  <2>4. base \in Seq(Messages)
    BY <2>1, <2>3, GrowsTyped
  <2>5. view' = [view EXCEPT !.messages = base] /\ stream' = [on |-> TRUE, base |-> base]
    BY <2>2
  <2>6. torn' \in BOOLEAN
    BY <2>2
  <2>7. ownRuns' \in 0 .. MaxOwnRuns
    <3>1. ownRuns < MaxOwnRuns /\ ownRuns' = ownRuns + 1
      BY <1>9, Zenon DEF SendMessage
    <3> QED BY <3>1, PagesAssumption
  <2> HIDE DEF base
  <2>8. view' \in Shown /\ view'.of \in Conversations \ {NoConversation}
        /\ stream' \in [on : BOOLEAN, base : Seq(Messages)]
    BY <2>1, <2>4, <2>5 DEF Shown
  <2>9. total' \in [Conversations -> 0 .. MaxMessages]
    BY <2>1, GrowsTyped
  <2>10. UnderWay' = UnderWay
    BY <2>1 DEF UnderWay
  <2> QED BY <2>1, <2>6, <2>7, <2>8, <2>9, <2>10
<1>10. CASE StreamEnds
  <2>1. stream.on /\ view.of \in Conversations /\ stream' = NoStream
        /\ ask' = ask /\ shrunk' = shrunk /\ repeated' = repeated /\ ownRuns' = ownRuns
    BY <1>10 DEF StreamEnds
  <2>2. UnderWay' = UnderWay
    BY <2>1 DEF UnderWay
  <2>3. stream' \in [on : BOOLEAN, base : Seq(Messages)] /\ ~stream'.on
    BY <2>1, NothingTyped
  <2>4. view' \in Shown /\ torn' \in BOOLEAN /\ total' \in [Conversations -> 0 .. MaxMessages]
    <3> DEFINE m == stream.base \o << <<view.of, total[view.of] + 1>> >>
    <3>1. CASE Grows(view.of) /\ view' = [view EXCEPT !.messages = m]
               /\ torn' = (torn \/ ~UpTo(stream.base, view.of))
      <4>1. m \in Seq(Messages) /\ total' \in [Conversations -> 0 .. MaxMessages]
        BY <2>1, <3>1, GrowsTyped
      <4>2. torn' \in BOOLEAN
        BY <3>1
      <4> HIDE DEF m
      <4>3. view' \in Shown
        BY <3>1, <4>1 DEF Shown
      <4> QED BY <4>1, <4>2, <4>3
    <3>2. CASE UNCHANGED <<total, view, torn>>
      BY <3>2
    <3> QED BY <1>10, <3>1, <3>2 DEF StreamEnds
  <2> QED BY <2>1, <2>2, <2>3, <2>4
<1>11. CASE UNCHANGED pageVars
  BY <1>11 DEF pageVars, UnderWay, runVars
<1> QED BY <1>1, <1>2, <1>4, <1>5, <1>6, <1>7, <1>8, <1>9, <1>10, <1>11, Zenon DEF PagesNext

\* What a list holds: of a stretch, of two lists one after the other, and of
\* one that another message is added to.
LEMMA ThoseFacts ==
    /\ \A c \in Conversations, start \in Nat, end \in 0 .. MaxMessages :
           start <= end => Those(Stretch(c, start, end)) = Span(c, start, end)
    /\ \A s, t \in Seq(Messages) : Those(s \o t) = Those(s) \cup Those(t)
    /\ \A m \in Messages : <<m>> \in Seq(Messages) /\ Those(<<m>>) = {m}
    /\ \A s \in Seq(Messages) : s # <<>> => s[Len(s)] \in Those(s)
    /\ Those(<<>>) = {}
<1>1. ASSUME NEW c \in Conversations, NEW start \in Nat, NEW end \in 0 .. MaxMessages, start <= end
      PROVE  Those(Stretch(c, start, end)) = Span(c, start, end)
  <2>1. end \in Nat /\ end - start \in Nat
    BY <1>1, PagesAssumption
  <2> DEFINE s == Stretch(c, start, end)
  <2>2. DOMAIN s = 1 .. (end - start) /\ \A i \in 1 .. (end - start) : s[i] = <<c, start + i>>
    BY DEF Stretch
  <2> HIDE DEF s
  <2>3. ASSUME NEW x \in Those(s) PROVE x \in Span(c, start, end)
    <3>1. PICK i \in 1 .. (end - start) : x = <<c, start + i>>
      BY <2>2 DEF Those
    <3>2. start + i \in start + 1 .. end
      BY <2>1, <3>1
    <3> QED BY <3>1, <3>2 DEF Span
  <2>4. ASSUME NEW x \in Span(c, start, end) PROVE x \in Those(s)
    <3>1. PICK j \in start + 1 .. end : x = <<c, j>>
      BY DEF Span
    <3>2. j - start \in 1 .. (end - start) /\ start + (j - start) = j
      BY <2>1, <3>1
    <3>3. s[j - start] = x /\ j - start \in DOMAIN s
      BY <2>2, <3>1, <3>2
    <3> QED BY <3>3 DEF Those
  <2> QED BY <2>3, <2>4 DEF s
<1> HIDE DEF Messages
<1>2. ASSUME NEW s \in Seq(Messages), NEW t \in Seq(Messages)
      PROVE  Those(s \o t) = Those(s) \cup Those(t)
  <2>1. /\ Len(s) \in Nat /\ Len(t) \in Nat /\ DOMAIN s = 1 .. Len(s) /\ DOMAIN t = 1 .. Len(t)
        /\ s \o t \in Seq(Messages) /\ Len(s \o t) = Len(s) + Len(t)
        /\ DOMAIN (s \o t) = 1 .. Len(s) + Len(t)
    BY ConcatProperties
  <2>2. \A i \in 1 .. Len(s) + Len(t) : (s \o t)[i] = IF i <= Len(s) THEN s[i] ELSE t[i - Len(s)]
    BY ConcatProperties
  <2> DEFINE u == s \o t
  <2>3. DOMAIN u = 1 .. Len(s) + Len(t)
        /\ \A i \in 1 .. Len(s) + Len(t) : u[i] = IF i <= Len(s) THEN s[i] ELSE t[i - Len(s)]
    BY <2>1, <2>2
  <2> HIDE DEF u
  <2>4. ASSUME NEW x \in Those(u) PROVE x \in Those(s) \cup Those(t)
    <3>1. PICK i \in 1 .. Len(s) + Len(t) : x = u[i]
      BY <2>3 DEF Those
    <3>2. CASE i <= Len(s)
      <4>1. i \in DOMAIN s /\ x = s[i]
        BY <2>1, <2>3, <3>1, <3>2
      <4> QED BY <4>1 DEF Those
    <3>3. CASE ~(i <= Len(s))
      <4>1. i - Len(s) \in DOMAIN t /\ x = t[i - Len(s)]
        BY <2>1, <2>3, <3>1, <3>3
      <4> QED BY <4>1 DEF Those
    <3> QED BY <3>2, <3>3
  <2>5. ASSUME NEW x \in Those(s) PROVE x \in Those(u)
    <3>1. PICK i \in 1 .. Len(s) : x = s[i]
      BY <2>1 DEF Those
    <3>2. i \in DOMAIN u /\ x = u[i]
      BY <2>1, <2>3, <3>1
    <3> QED BY <3>2 DEF Those
  <2>6. ASSUME NEW x \in Those(t) PROVE x \in Those(u)
    <3>1. PICK i \in 1 .. Len(t) : x = t[i]
      BY <2>1 DEF Those
    <3>2. i + Len(s) \in 1 .. Len(s) + Len(t) /\ ~(i + Len(s) <= Len(s)) /\ (i + Len(s)) - Len(s) = i
      BY <2>1, <3>1
    <3>3. i + Len(s) \in DOMAIN u /\ x = u[i + Len(s)]
      BY <2>3, <3>1, <3>2
    <3> QED BY <3>3 DEF Those
  <2> QED BY <2>4, <2>5, <2>6 DEF u
<1>3. ASSUME NEW m \in Messages PROVE <<m>> \in Seq(Messages) /\ Those(<<m>>) = {m}
  BY DEF Those
<1>4. ASSUME NEW s \in Seq(Messages), s # <<>> PROVE s[Len(s)] \in Those(s)
  <2>1. Len(s) \in 1 .. Len(s) /\ DOMAIN s = 1 .. Len(s)
    BY <1>4, EmptySeq
  <2> QED BY <2>1 DEF Those
<1>5. Those(<<>>) = {}
  BY DEF Those
<1> QED BY <1>1, <1>2, <1>3, <1>4, <1>5

\* A message after all that are stored of what a list holds up to its end.
LEMMA CoveredGrows ==
    ASSUME NEW v \in Shown, v.of \in Conversations, NEW list \in Seq(Messages),
           NEW n \in Nat, n < MaxMessages, NEW again \in BOOLEAN, Covered(list, v, n, again),
           IF list = <<>> THEN n = 0 ELSE list[Len(list)] = <<v.of, n>>
    PROVE  Covered(list \o << <<v.of, n + 1>> >>, v, n + 1, again)
<1>0. MaxMessages \in Nat /\ v.cursor \in Nat /\ n + 1 \in 0 .. MaxMessages /\ n \in 0 .. MaxMessages
  BY PagesAssumption DEF Shown
<1>1. PICK end \in 0 .. n : \E s \in 0 .. end : Spans(list, v, s, end, again)
  BY DEF Covered
<1>2. PICK start \in 0 .. end : Spans(list, v, start, end, again)
  BY <1>1
<1> DEFINE c == v.of
           m == <<c, n + 1>>
<1>3. m \in Messages /\ c \in Conversations
  BY <1>0 DEF Messages
<1>4. end = n
  <2>1. CASE list = <<>>
    BY <2>1
  <2>2. CASE list # <<>>
    <3>1. <<c, n>> \in Span(c, start, end)
      BY <1>2, <2>2, ThoseFacts DEF Spans
    <3>2. n \in start + 1 .. end
      BY <3>1 DEF Span
    <3> QED BY <3>2, <1>2
  <2> QED BY <2>1, <2>2
<1>5. Stretch(c, n, n + 1) = <<m>>
  BY <1>0 DEF Stretch
<1>6. start \in Nat /\ start <= n /\ n <= n + 1 /\ start \in 0 .. n + 1
  BY <1>0, <1>2, <1>4
<1>7. Stretch(c, start, n) \o <<m>> = Stretch(c, start, n + 1)
  <2> HIDE DEF m, c
  <2>1. Stretch(c, start, n) \o Stretch(c, n, n + 1) = Stretch(c, start, n + 1)
    BY <1>0, <1>3, <1>6, StretchesJoin
  <2> QED BY <1>5, <2>1
<1>8. Span(c, start, n) \cup {m} = Span(c, start, n + 1)
  <2>1. start + 1 .. n + 1 = (start + 1 .. n) \cup {n + 1}
    BY <1>6
  <2> QED BY <2>1 DEF Span
<1>9. Those(list \o <<m>>) = Span(c, start, n + 1)
  <2> HIDE DEF m, c, Messages
  <2>1. <<m>> \in Seq(Messages) /\ Those(<<m>>) = {m}
    BY <1>3, ThoseFacts
  <2>2. Those(list \o <<m>>) = Those(list) \cup {m}
    <3> DEFINE t == <<m>>
    <3>1. t \in Seq(Messages) /\ Those(t) = {m}
      BY <2>1
    <3> HIDE DEF t
    <3>2. Those(list \o t) = Those(list) \cup Those(t)
      BY <3>1, ThoseFacts, Zenon
    <3> QED BY <3>1, <3>2 DEF t
  <2>3. Those(list) = Span(c, start, n)
    BY <1>2, <1>4 DEF Spans, c
  <2> QED BY <1>8, <2>2, <2>3
<1> DEFINE longer == list \o <<m>>
<1>10. ~again => longer = Stretch(c, start, n + 1)
  BY <1>2, <1>4, <1>7 DEF Spans
<1>11. Those(longer) = Span(c, start, n + 1)
  BY <1>9
<1> HIDE DEF longer
<1>12. Spans(longer, v, start, n + 1, again)
  <2>1. start > 0 => v.more /\ v.cursor >= start
    BY <1>2 DEF Spans
  <2>2. v.more => v.cursor > 0 /\ v.cursor < n + 1
    BY <1>0, <1>2, <1>4 DEF Spans
  <2>3. ~again => (v.more <=> start > 0) /\ (v.more => v.cursor = start)
    BY <1>2 DEF Spans
  <2> QED BY <1>10, <1>11, <2>1, <2>2, <2>3 DEF Spans
<1>13. Covered(longer, v, n + 1, again)
  <2>1. n + 1 \in 0 .. n + 1
    BY <1>0
  <2> QED BY <1>6, <1>12, <2>1 DEF Covered
<1> QED BY <1>13 DEF longer, m, c

\* A page in front of what is shown, from where the client goes on.
LEMMA PagesMeet ==
    ASSUME NEW p \in Shown, NEW v \in Shown, p.of = v.of, v.of \in Conversations,
           NEW n \in 0 .. MaxMessages, NEW again \in BOOLEAN, v.more,
           Covered(v.messages, v, n, again), IsPage(p, v.cursor), NEW w,
           w = [v EXCEPT !.messages = p.messages \o v.messages, !.more = p.more,
                         !.cursor = p.cursor]
    PROVE  Covered(w.messages, w, n, again) /\ (w.more => w.cursor < v.cursor)
<1>0. MaxMessages \in Nat /\ n \in Nat /\ v.cursor \in Nat
      /\ v.messages \in Seq(Messages) /\ p.messages \in Seq(Messages)
  BY PagesAssumption DEF Shown
<1>1. PICK end \in 0 .. n : \E s \in 0 .. end : Spans(v.messages, v, s, end, again)
  BY DEF Covered
<1>2. PICK start \in 0 .. end : Spans(v.messages, v, start, end, again)
  BY <1>1
<1>3. /\ Those(v.messages) = Span(v.of, start, end)
      /\ start <= v.cursor /\ v.cursor > 0 /\ v.cursor < end
      /\ ~again => v.messages = Stretch(v.of, start, end) /\ v.cursor = start
  BY <1>0, <1>2 DEF Spans
<1>4. PICK r \in 0 .. v.cursor : /\ p.messages = Stretch(p.of, r, v.cursor) /\ (p.more <=> r > 0)
                                 /\ (p.more => p.cursor = r /\ r < v.cursor)
  BY Zenon DEF IsPage
<1>5. w.messages = p.messages \o v.messages /\ w.more = p.more /\ w.cursor = p.cursor /\ w.of = v.of
  BY DEF Shown
<1>6. v.cursor \in 0 .. MaxMessages /\ end \in 0 .. MaxMessages /\ r \in Nat /\ start \in Nat
      /\ r <= v.cursor /\ start <= end /\ end \in Nat
  BY <1>0, <1>3
<1>7. Those(p.messages) = Span(v.of, r, v.cursor)
  BY <1>4, <1>6, ThoseFacts
<1>8. Those(w.messages) = Span(v.of, r, v.cursor) \cup Span(v.of, start, end)
  BY <1>0, <1>3, <1>5, <1>7, ThoseFacts
<1> DEFINE low == IF r < start THEN r ELSE start
<1>9. low \in 0 .. end /\ low <= r /\ low <= start
  BY <1>6
<1>10. Those(w.messages) = Span(v.of, low, end)
  <2>1. (r + 1 .. v.cursor) \cup (start + 1 .. end) = low + 1 .. end
    BY <1>0, <1>3, <1>6
  <2> HIDE DEF low
  <2> QED BY <1>8, <2>1 DEF Span
<1>11. ~again => w.messages = Stretch(v.of, low, end) /\ low = r
  <2> SUFFICES ASSUME ~again PROVE w.messages = Stretch(v.of, low, end) /\ low = r
    OBVIOUS
  <2>1. start = v.cursor /\ v.messages = Stretch(v.of, start, end)
    BY <1>3
  <2>2. low = r
    BY <1>6, <2>1
  <2>3. Stretch(v.of, r, start) \o Stretch(v.of, start, end) = Stretch(v.of, r, end)
    BY <1>6, <2>1, StretchesJoin
  <2> QED BY <1>4, <1>5, <2>1, <2>2, <2>3
<1>12. w.more => w.cursor = r /\ r > 0 /\ r < v.cursor /\ r < end
  BY <1>3, <1>4, <1>5, <1>6
<1>13. r > 0 => w.more
  BY <1>4, <1>5
<1> HIDE DEF low
<1>14. Spans(w.messages, w, low, end, again)
  <2>1. low > 0 => w.more /\ w.cursor >= low
    BY <1>6, <1>9, <1>12, <1>13
  <2>2. ~again => (w.more <=> low > 0) /\ (w.more => w.cursor = low)
    BY <1>11, <1>12, <1>13
  <2> QED BY <1>5, <1>10, <1>11, <1>12, <2>1, <2>2 DEF Spans
<1> QED BY <1>9, <1>12, <1>14 DEF Covered

\* The newest page, and the whole.
LEMMA PageCovers ==
    ASSUME NEW v \in Shown, v.of \in Conversations, NEW n \in 0 .. MaxMessages,
           NEW end \in 0 .. n, IsPage(v, end), NEW again
    PROVE  Covered(v.messages, v, n, again)
<1>0. MaxMessages \in Nat /\ end \in 0 .. MaxMessages
  BY PagesAssumption
<1>1. PICK start \in 0 .. end : /\ v.messages = Stretch(v.of, start, end) /\ (v.more <=> start > 0)
                                /\ (v.more => v.cursor = start /\ start < end)
  BY Zenon DEF IsPage
<1>2. start \in Nat /\ start <= end
  BY <1>0
<1>3. Those(v.messages) = Span(v.of, start, end)
  BY <1>0, <1>1, <1>2, ThoseFacts
<1>4. Spans(v.messages, v, start, end, again)
  BY <1>1, <1>2, <1>3 DEF Spans
<1> QED BY <1>1, <1>4 DEF Covered

LEMMA WholeCovers ==
    ASSUME NEW v \in Shown, v.of \in Conversations, NEW n \in 0 .. MaxMessages,
           NEW end \in 0 .. n, v.messages = Stretch(v.of, 0, end),
           NEW again \in BOOLEAN, ~again => ~v.more, v.more => v.cursor < end /\ v.cursor > 0
    PROVE  Covered(v.messages, v, n, again)
<1>0. MaxMessages \in Nat /\ end \in 0 .. MaxMessages /\ 0 \in 0 .. end
  BY PagesAssumption
<1>3. Those(v.messages) = Span(v.of, 0, end)
  BY <1>0, ThoseFacts
<1>4. Spans(v.messages, v, 0, end, again)
  BY <1>0, <1>3 DEF Spans
<1> QED BY <1>0, <1>4 DEF Covered

\* It may have grown since, and may have become worse.
LEMMA CoveredStays ==
    ASSUME NEW list, NEW v, NEW n \in Nat, NEW o \in Nat, n <= o, NEW again \in BOOLEAN,
           NEW worse \in BOOLEAN, again => worse, Covered(list, v, n, again)
    PROVE  Covered(list, v, o, worse)
<1>1. PICK end \in 0 .. n : \E s \in 0 .. end : Spans(list, v, s, end, again)
  BY DEF Covered
<1>2. PICK start \in 0 .. end : Spans(list, v, start, end, again)
  BY <1>1
<1>3. Spans(list, v, start, end, worse)
  BY <1>2 DEF Spans
<1>4. end \in 0 .. o
  OBVIOUS
<1> QED BY <1>3, <1>4 DEF Covered

\* Each step in turn: a conversation that grows, or is written back.
LEMMA GrowingKept ==
    ASSUME PagesInv, PagesTyped', NEW c \in Conversations, AddedTo(c) \/ WrittenBack(c)
    PROVE  ViewJoins' /\ OneAtATime' /\ AnswersJoin'
<1>1. /\ view' = view /\ ask' = ask /\ torn' = torn /\ stream' = stream /\ repeated' = repeated
      /\ shrunk \subseteq shrunk'
  BY Zenon DEF AddedTo, WrittenBack, runVars
<1>2. \A d \in Conversations : total[d] \in Nat /\ total'[d] \in Nat
  BY PagesAssumption DEF PagesInv, PagesTyped
<1>3. \A d \in Conversations : d \notin shrunk' => total[d] <= total'[d]
  <2>1. CASE AddedTo(c)
    BY <2>1, GrowsTyped DEF AddedTo, PagesInv
  <2>2. CASE WrittenBack(c)
    BY <1>2, <2>2 DEF WrittenBack, PagesInv, PagesTyped
  <2> QED BY <2>1, <2>2
<1>4. UnderWay' = UnderWay
  BY <1>1 DEF UnderWay
<1>5. ViewJoins'
  <2> SUFFICES ASSUME view.of # NoConversation, view.of \notin shrunk', ~torn
               PROVE  /\ Covered(view.messages, view, total'[view.of], repeated)
                      /\ stream.on => Covered(stream.base, view, total'[view.of], repeated)
    BY <1>1 DEF ViewJoins
  <2>1. view.of \in Conversations /\ repeated \in BOOLEAN
    BY DEF PagesInv, PagesTyped, Shown
  <2>2. /\ Covered(view.messages, view, total[view.of], repeated)
        /\ stream.on => Covered(stream.base, view, total[view.of], repeated)
    BY <1>1 DEF PagesInv, ViewJoins
  <2> QED BY <1>2, <1>3, <2>1, <2>2, CoveredStays
<1>6. OneAtATime'
  BY <1>1, <1>4 DEF OneAtATime, PagesInv
<1>7. AnswersJoin'
  <2> SUFFICES ASSUME ~torn, NEW q \in Asks, ask[q].at = "read", ask[q].of \notin shrunk'
               PROVE  FitsView(q)'
    BY <1>1 DEF AnswersJoin
  <2>1. FitsView(q)
    BY <1>1 DEF AnswersJoin, PagesInv
  <2>2. ask[q].of \in Conversations
    BY DEF PagesInv, PagesTyped, UnderWay
  <2>3. 0 .. total[ask[q].of] \subseteq 0 .. total'[ask[q].of]
    BY <1>2, <1>3, <2>2
  <2> QED BY <1>1, <2>1, <2>3 DEF FitsView, IsPage
<1> QED BY <1>5, <1>6, <1>7

\* Another conversation is chosen.
LEMMA SelectKept ==
    ASSUME PagesInv, NEW q \in Asks, NEW c \in Conversations, SelectSession(q, c)
    PROVE  ViewJoins' /\ OneAtATime' /\ AnswersJoin'
<1>0. ask \in [Asks -> Request]
  BY DEF PagesInv, PagesTyped
<1>1. view'.of = NoConversation /\ torn' = (UnderWay # {})
  BY DEF SelectSession, NothingShown
<1>2. ask' = [ask EXCEPT ![q] = [Unasked EXCEPT !.for = "newest", !.of = c, !.at = "asked"]]
  BY Zenon DEF SelectSession
<1>3. /\ ask'[q].for = "newest" /\ ask'[q].at = "asked" /\ ask'[q].before = NoCursor
      /\ \A p \in Asks \ {q} : ask'[p] = ask[p]
  BY <1>0, <1>2 DEF Unasked
<1>4. ViewJoins'
  BY <1>1 DEF ViewJoins
<1>5. ASSUME ~torn' PROVE UnderWay' = {q} /\ \A p \in Asks \ {q} : ask[p].at = "idle"
  BY <1>1, <1>3, <1>5 DEF UnderWay
<1>6. OneAtATime'
  BY <1>1, <1>3, <1>5 DEF OneAtATime
<1>7. AnswersJoin'
  BY <1>3, <1>5 DEF AnswersJoin
<1> QED BY <1>4, <1>6, <1>7

\* Of what is shown an older page is asked for, or the whole.
LEMMA AskingKept ==
    ASSUME PagesInv, NEW q \in Asks, LoadOlder(q) \/ AskWhole(q)
    PROVE  ViewJoins' /\ OneAtATime' /\ AnswersJoin'
<1>0. ask \in [Asks -> Request] /\ view.of \in Conversations \cup {NoConversation}
  BY DEF PagesInv, PagesTyped, Shown
<1>1. /\ view' = view /\ stream' = stream /\ torn' = torn /\ repeated' = repeated
      /\ total' = total /\ shrunk' = shrunk /\ ask[q].at = "idle" /\ view.of # NoConversation
  BY Zenon DEF LoadOlder, AskWhole, runVars
<1>2. /\ ask'[q].for \in {"older", "whole"} /\ ask'[q].at = "asked" /\ ask'[q].of = view.of
      /\ ask'[q].for = "older" => /\ ask'[q].before = view.cursor /\ view.more
                                  /\ \A p \in UnderWay : ask[p].for # "older"
      /\ \A p \in Asks \ {q} : ask'[p] = ask[p]
  <2>1. CASE LoadOlder(q)
    <3>1. ask' = [ask EXCEPT ![q] = [Unasked EXCEPT !.for = "older", !.of = view.of,
                                !.before = view.cursor, !.quiet = ~stream.on, !.at = "asked"]]
          /\ view.more /\ \A p \in UnderWay : ask[p].for # "older"
      BY <2>1, Zenon DEF LoadOlder
    <3> QED BY <1>0, <3>1 DEF Unasked
  <2>2. CASE AskWhole(q)
    <3>1. ask' = [ask EXCEPT ![q] = [Unasked EXCEPT !.for = "whole", !.of = view.of, !.at = "asked"]]
      BY <2>2, Zenon DEF AskWhole
    <3> QED BY <1>0, <3>1 DEF Unasked
  <2> QED BY <2>1, <2>2
<1>3. UnderWay' = UnderWay \cup {q} /\ q \notin UnderWay /\ UnderWay \subseteq Asks
  BY <1>1, <1>2 DEF UnderWay
<1>4. ViewJoins'
  BY <1>1 DEF ViewJoins, PagesInv
<1>5. OneAtATime'
  <2> SUFFICES ASSUME ~torn, NEW p \in UnderWay'
               PROVE  /\ ask'[p].for = "newest" =>
                             UnderWay' = {p} /\ view.of = NoConversation /\ ask'[p].before = NoCursor
                      /\ ask'[p].for = "older" =>
                             /\ view.of # NoConversation /\ view.more
                             /\ ask'[p].of = view.of /\ ask'[p].before = view.cursor
                             /\ \A o \in UnderWay' : ask'[o].for = "older" => o = p
                      /\ ask'[p].for = "whole" => view.of # NoConversation /\ ask'[p].of = view.of
                      /\ ask'[p].for # "nothing"
    BY <1>1 DEF OneAtATime
  <2>1. CASE p = q
    BY <1>1, <1>2, <1>3, <2>1
  <2>2. CASE p # q
    <3>1. p \in UnderWay /\ ask'[p] = ask[p]
      BY <1>2, <1>3, <2>2
    <3>2. /\ ask[p].for # "newest" /\ ask[p].for # "nothing"
          /\ ask[p].for = "older" =>
                 /\ view.of # NoConversation /\ view.more
                 /\ ask[p].of = view.of /\ ask[p].before = view.cursor
                 /\ \A o \in UnderWay : ask[o].for = "older" => o = p
          /\ ask[p].for = "whole" => view.of # NoConversation /\ ask[p].of = view.of
      BY <1>1, <3>1 DEF OneAtATime, PagesInv
    <3>3. ASSUME ask[p].for = "older" PROVE \A o \in UnderWay' : ask'[o].for = "older" => o = p
      BY <1>2, <1>3, <3>1, <3>2, <3>3
    <3> QED BY <3>1, <3>2, <3>3
  <2> QED BY <2>1, <2>2
<1>6. AnswersJoin'
  <2> SUFFICES ASSUME ~torn, NEW p \in Asks, ask'[p].at = "read", ask'[p].of \notin shrunk
               PROVE  FitsView(p)'
    BY <1>1 DEF AnswersJoin
  <2>1. p # q
    BY <1>2
  <2>2. ask'[p] = ask[p]
    BY <1>2, <2>1
  <2>3. FitsView(p)
    BY <2>2 DEF AnswersJoin, PagesInv
  <2> QED BY <1>1, <2>2, <2>3 DEF FitsView, IsPage
<1> QED BY <1>4, <1>5, <1>6

\* The server's answer.
LEMMA ReadingKept ==
    ASSUME PagesInv, NEW q \in Asks, ReadPage(q)
    PROVE  ViewJoins' /\ OneAtATime' /\ AnswersJoin'
<1> DEFINE page == IF ask[q].for = "whole" THEN Whole(ask[q].of) ELSE Page(ask[q].of, ask[q].before)
<1>0. /\ total \in [Conversations -> 0 .. MaxMessages] /\ MaxMessages \in Nat
      /\ ask \in [Asks -> Request] /\ view \in Shown /\ repeated \in BOOLEAN
  BY PagesAssumption DEF PagesInv, PagesTyped
<1>1. /\ view' = view /\ stream' = stream /\ torn' = torn /\ repeated' = repeated
      /\ total' = total /\ shrunk' = shrunk /\ ask[q].at = "asked"
  BY Zenon DEF ReadPage, runVars
<1>2. ask' = [ask EXCEPT ![q].at = "read", ![q].page = page]
  BY Zenon DEF ReadPage
<1>3. ask[q].of \in Conversations /\ ask[q].before \in Nat /\ total[ask[q].of] \in 0 .. MaxMessages
      /\ total[ask[q].of] \in Nat
  BY <1>0, <1>1 DEF Request, PagesInv, PagesTyped, UnderWay
<1>P. /\ page.of = ask[q].of
      /\ ask[q].for # "whole" =>
             /\ (ask[q].before > 0 /\ ask[q].before < total[ask[q].of]) => IsPage(page, ask[q].before)
             /\ ~(ask[q].before > 0 /\ ask[q].before < total[ask[q].of]) =>
                    IsPage(page, total[ask[q].of])
      /\ ask[q].for = "whole" => page.messages = Stretch(ask[q].of, 0, total[ask[q].of])
  BY <1>0, <1>3, PageFacts, WholeFacts
<1> HIDE DEF page
<1>4. /\ ask'[q].for = ask[q].for /\ ask'[q].at = "read" /\ ask'[q].before = ask[q].before
      /\ ask'[q].of = ask[q].of /\ ask'[q].page = page
      /\ \A p \in Asks \ {q} : ask'[p] = ask[p]
  BY <1>0, <1>2 DEF Request
<1>5. ViewJoins'
  BY <1>1 DEF ViewJoins, PagesInv
<1>6. UnderWay' = UnderWay /\ UnderWay \subseteq Asks /\ q \in UnderWay
  BY <1>1, <1>4 DEF UnderWay
<1>7. OneAtATime'
  <2>1. \A p \in Asks : /\ ask'[p].for = ask[p].for /\ ask'[p].of = ask[p].of
                       /\ ask'[p].before = ask[p].before
    BY <1>4
  <2>2. \A p \in UnderWay : p \in Asks
    BY <1>6
  <2> QED BY <1>1, <1>6, <2>1, <2>2 DEF OneAtATime, PagesInv
<1>8. ASSUME ~torn, ask[q].of \notin shrunk
      PROVE  /\ ask[q].for = "newest" => \E end \in 0 .. total[ask[q].of] : IsPage(page, end)
             /\ ask[q].for = "older" => IsPage(page, ask[q].before)
             /\ ask[q].for = "whole" => \E end \in 0 .. total[ask[q].of] :
                    /\ page.messages = Stretch(ask[q].of, 0, end)
                    /\ view.more => view.cursor < end
  <2>1. CASE ask[q].for = "newest"
    <3>1. ask[q].before = 0
      BY <1>6, <1>8, <2>1 DEF OneAtATime, NoCursor, PagesInv
    <3>2. IsPage(page, total[ask[q].of])
      BY <1>P, <2>1, <3>1
    <3> QED BY <1>3, <2>1, <3>2
  <2>2. ASSUME ask[q].for \in {"older", "whole"}
        PROVE  ask[q].of = view.of /\ (view.more => view.cursor > 0 /\ view.cursor < total[view.of])
    <3>1. view.of # NoConversation /\ ask[q].of = view.of
      BY <1>6, <1>8, <2>2 DEF OneAtATime, PagesInv
    <3>2. Covered(view.messages, view, total[view.of], repeated)
      BY <1>8, <3>1 DEF ViewJoins, PagesInv
    <3>3. PICK end \in 0 .. total[view.of] : \E s \in 0 .. end :
              Spans(view.messages, view, s, end, repeated)
      BY <3>2 DEF Covered
    <3>4. view.more => view.cursor > 0 /\ view.cursor < end
      BY <3>3 DEF Spans
    <3>5. view.cursor \in Nat
      BY <1>0 DEF Shown
    <3> QED BY <1>3, <3>1, <3>3, <3>4, <3>5
  <2>3. CASE ask[q].for = "older"
    <3>1. view.more /\ ask[q].before = view.cursor
      BY <1>6, <1>8, <2>3 DEF OneAtATime, PagesInv
    <3>2. ask[q].before > 0 /\ ask[q].before < total[ask[q].of]
      BY <2>2, <2>3, <3>1
    <3> QED BY <1>P, <2>3, <3>2
  <2>4. CASE ask[q].for = "whole"
    <3>1. total[ask[q].of] \in 0 .. total[ask[q].of]
      BY <1>3
    <3> QED BY <1>P, <2>2, <2>4, <3>1
  <2> QED BY <2>1, <2>3, <2>4
<1>9. AnswersJoin'
  <2> SUFFICES ASSUME ~torn, NEW p \in Asks, ask'[p].at = "read", ask'[p].of \notin shrunk
               PROVE  FitsView(p)'
    BY <1>1 DEF AnswersJoin
  <2>1. CASE p = q
    <3>1. /\ ask[q].for = "newest" => \E end \in 0 .. total[ask[q].of] : IsPage(page, end)
          /\ ask[q].for = "older" => IsPage(page, ask[q].before)
          /\ ask[q].for = "whole" => \E end \in 0 .. total[ask[q].of] :
                 /\ page.messages = Stretch(ask[q].of, 0, end)
                 /\ view.more => view.cursor < end
      BY <1>4, <1>8, <2>1
    <3> QED BY <1>1, <1>4, <2>1, <3>1 DEF FitsView, IsPage
  <2>2. CASE p # q
    <3>1. ask'[p] = ask[p]
      BY <1>4, <2>2
    <3>2. FitsView(p)
      BY <3>1 DEF AnswersJoin, PagesInv
    <3> QED BY <1>1, <3>1, <3>2 DEF FitsView, IsPage
  <2> QED BY <2>1, <2>2
<1> QED BY <1>5, <1>7, <1>9

\* A request that is over leaves the others as they were.
LEMMA RequestOver ==
    ASSUME PagesInv, NEW q \in Asks, ask[q].at # "idle", ask' = [ask EXCEPT ![q] = Unasked],
           total' = total, shrunk' = shrunk
    PROVE  /\ UnderWay' = UnderWay \ {q} /\ q \in UnderWay /\ UnderWay \subseteq Asks
           /\ \A p \in Asks \ {q} : ask'[p] = ask[p]
           /\ ask'[q].at = "idle"
           /\ ask[q].of \in Conversations /\ ask[q].page \in Shown
<1>1. ask \in [Asks -> Request] /\ Unasked.at = "idle"
  BY NothingTyped DEF PagesInv, PagesTyped
<1>2. (\A p \in Asks \ {q} : ask'[p] = ask[p]) /\ ask'[q].at = "idle"
  BY <1>1
<1>3. UnderWay' = UnderWay \ {q} /\ q \in UnderWay /\ UnderWay \subseteq Asks
  BY <1>2 DEF UnderWay
<1>4. ask[q].of \in Conversations /\ ask[q].page \in Shown
  BY <1>1, <1>3 DEF PagesInv, PagesTyped, Request
<1> QED BY <1>2, <1>3, <1>4

\* It fails.
LEMMA FailingKept ==
    ASSUME PagesInv, NEW q \in Asks, PageFails(q)
    PROVE  ViewJoins' /\ OneAtATime' /\ AnswersJoin'
<1>1. /\ view' = view /\ stream' = stream /\ torn' = torn /\ repeated' = repeated
      /\ total' = total /\ shrunk' = shrunk /\ ask' = [ask EXCEPT ![q] = Unasked]
      /\ ask[q].at # "idle"
  BY Zenon DEF PageFails, runVars
<1>2. /\ UnderWay' = UnderWay \ {q} /\ q \in UnderWay /\ UnderWay \subseteq Asks
      /\ \A p \in Asks \ {q} : ask'[p] = ask[p]
      /\ ask'[q].at = "idle"
  BY <1>1, RequestOver
<1>3. ViewJoins'
  BY <1>1 DEF ViewJoins, PagesInv
<1>4. OneAtATime'
  BY <1>1, <1>2 DEF OneAtATime, PagesInv
<1>5. AnswersJoin'
  <2> SUFFICES ASSUME ~torn, NEW p \in Asks, ask'[p].at = "read", ask'[p].of \notin shrunk
               PROVE  FitsView(p)'
    BY <1>1 DEF AnswersJoin
  <2>1. ask'[p] = ask[p]
    BY <1>2
  <2>2. FitsView(p)
    BY <2>1 DEF AnswersJoin, PagesInv
  <2> QED BY <1>1, <2>1, <2>2 DEF FitsView, IsPage
<1> QED BY <1>3, <1>4, <1>5

\* The newest page is shown.
LEMMA NewestKept ==
    ASSUME PagesInv, PagesTyped', NEW q \in Asks, ShowNewest(q)
    PROVE  ViewJoins' /\ OneAtATime' /\ AnswersJoin'
<1>1. /\ torn' = torn /\ repeated' = repeated /\ total' = total /\ shrunk' = shrunk
      /\ ask' = [ask EXCEPT ![q] = Unasked] /\ ask[q].at = "read" /\ ask[q].for = "newest"
  BY Zenon DEF ShowNewest, AnswerComes
<1>2. /\ UnderWay' = UnderWay \ {q} /\ q \in UnderWay /\ ask'[q].at = "idle"
      /\ \A p \in Asks \ {q} : ask'[p] = ask[p]
      /\ ask[q].of \in Conversations /\ ask[q].page \in Shown
  BY <1>1, RequestOver
<1>3. ASSUME ~torn PROVE UnderWay' = {} /\ \A p \in Asks : ask'[p].at = "idle"
  <2>1. UnderWay = {q}
    BY <1>1, <1>2, <1>3 DEF OneAtATime, PagesInv
  <2> QED BY <1>2, <2>1 DEF UnderWay
<1>4. OneAtATime' /\ AnswersJoin'
  BY <1>1, <1>3 DEF OneAtATime, AnswersJoin
<1>5. ViewJoins'
  <2> SUFFICES ASSUME ~torn, view'.of # NoConversation, view'.of \notin shrunk
               PROVE  /\ Covered(view'.messages, view', total[view'.of], repeated)
                      /\ stream'.on => Covered(stream'.base, view', total[view'.of], repeated)
    BY <1>1 DEF ViewJoins
  <2> DEFINE page == ask[q].page
  <2>1. view.of = NoConversation /\ page.of = ask[q].of
    BY <1>1, <1>2 DEF OneAtATime, PagesInv, PagesTyped
  <2>2. CASE view.of = page.of
    <3>1. view' = [page EXCEPT !.messages = view.messages]
      BY <2>2 DEF ShowNewest
    <3>2. view'.of = page.of
      <4> HIDE DEF page
      <4> QED BY <3>1, <1>2 DEF Shown, page
    <3> QED BY <2>1, <2>2, <3>2
  <2>3. CASE view.of # page.of
    <3>1. view' = page /\ stream' = NoStream
      BY <2>3 DEF ShowNewest
    <3>2. PICK end \in 0 .. total[ask[q].of] : IsPage(page, end)
      BY <1>1, <2>1, <3>1 DEF AnswersJoin, FitsView, PagesInv
    <3>3. total[page.of] \in 0 .. MaxMessages
      BY <1>2, <2>1 DEF PagesInv, PagesTyped
    <3>4. Covered(page.messages, page, total[page.of], repeated)
      BY <1>2, <2>1, <3>2, <3>3, PageCovers
    <3> QED BY <3>1, <3>4, NothingTyped
  <2> QED BY <2>2, <2>3
<1> QED BY <1>4, <1>5

\* An older page is.
LEMMA OlderKept ==
    ASSUME PagesInv, NEW q \in Asks, ShowOlder(q)
    PROVE  ViewJoins' /\ OneAtATime' /\ AnswersJoin'
<1> DEFINE page == ask[q].page
<1>1. /\ repeated' = repeated /\ total' = total /\ shrunk' = shrunk /\ stream' = stream
      /\ torn' = (torn \/ ~ask[q].quiet \/ stream.on)
      /\ ask' = [ask EXCEPT ![q] = Unasked] /\ ask[q].at = "read" /\ ask[q].for = "older"
  BY Zenon DEF ShowOlder, AnswerComes, runVars
<1>2. /\ UnderWay' = UnderWay \ {q} /\ q \in UnderWay /\ UnderWay \subseteq Asks
      /\ ask'[q].at = "idle"
      /\ \A p \in Asks \ {q} : ask'[p] = ask[p]
      /\ ask[q].of \in Conversations /\ page \in Shown
  BY <1>1, RequestOver
<1> SUFFICES ASSUME ~torn' PROVE ViewJoins' /\ OneAtATime' /\ AnswersJoin'
  BY DEF ViewJoins, OneAtATime, AnswersJoin
<1>3. ~torn /\ ask[q].quiet /\ ~stream.on
  BY <1>1
<1>4. /\ view.of # NoConversation /\ view.more /\ ask[q].of = view.of /\ page.of = view.of
      /\ ask[q].before = view.cursor
      /\ \A p \in UnderWay : ask[p].for = "older" => p = q
  BY <1>1, <1>2, <1>3 DEF OneAtATime, PagesInv, PagesTyped
<1>5. view' = [view EXCEPT !.messages = page.messages \o view.messages,
                           !.more = page.more, !.cursor = page.cursor]
  BY <1>3 DEF ShowOlder
<1>6. view \in Shown /\ view.of \in Conversations /\ repeated \in BOOLEAN
      /\ total[view.of] \in 0 .. MaxMessages
  BY <1>2, <1>4 DEF PagesInv, PagesTyped
<1> HIDE DEF page
<1>7. view'.of = view.of
  BY <1>5, <1>6 DEF Shown
<1>8. ASSUME view.of \notin shrunk
      PROVE  /\ Covered(view'.messages, view', total[view.of], repeated)
             /\ view'.more => view'.cursor < view.cursor
  <2>1. Covered(view.messages, view, total[view.of], repeated)
    BY <1>3, <1>4, <1>8 DEF ViewJoins, PagesInv
  <2>2. IsPage(page, view.cursor)
    BY <1>1, <1>3, <1>4, <1>8 DEF AnswersJoin, FitsView, PagesInv, page
  <2> DEFINE n == total[view.of]
  <2>3. n \in 0 .. MaxMessages /\ Covered(view.messages, view, n, repeated)
    BY <1>6, <2>1
  <2> HIDE DEF n
  <2>4. PICK w : w = view'
    OBVIOUS
  <2>5. w = [view EXCEPT !.messages = page.messages \o view.messages,
                         !.more = page.more, !.cursor = page.cursor]
    BY <1>5, <2>4
  <2>6. Covered(w.messages, w, n, repeated) /\ (w.more => w.cursor < view.cursor)
    <3>1. PICK v : v = view
      OBVIOUS
    <3>2. PICK p : p = page
      OBVIOUS
    <3>3. /\ p \in Shown /\ v \in Shown /\ p.of = v.of /\ v.of \in Conversations /\ v.more
          /\ repeated \in BOOLEAN
      BY <1>2, <1>4, <1>6, <3>1, <3>2
    <3>4. Covered(v.messages, v, n, repeated) /\ IsPage(p, v.cursor)
      BY <2>2, <2>3, <3>1, <3>2
    <3>5. w = [v EXCEPT !.messages = p.messages \o v.messages, !.more = p.more,
                        !.cursor = p.cursor]
      BY <2>5, <3>1, <3>2
    <3>6. Covered(w.messages, w, n, repeated) /\ (w.more => w.cursor < v.cursor)
      BY <2>3, <3>3, <3>4, <3>5, PagesMeet
    <3> QED BY <3>1, <3>6
  <2> QED BY <2>4, <2>6 DEF n
<1>9. ViewJoins'
  BY <1>1, <1>3, <1>7, <1>8 DEF ViewJoins
<1>10. \A p \in UnderWay' : p \in UnderWay /\ p # q /\ ask'[p] = ask[p]
  BY <1>2
<1>11. \A p \in UnderWay' : ask[p].for = "whole" /\ ask[p].of = view.of
  <2> SUFFICES ASSUME NEW p \in UnderWay' PROVE ask[p].for = "whole" /\ ask[p].of = view.of
    OBVIOUS
  <2>1. ask[p].for \in {"nothing", "newest", "older", "whole"}
    BY <1>2, <1>10 DEF PagesInv, PagesTyped, Request
  <2> QED BY <1>3, <1>4, <1>10, <2>1 DEF OneAtATime, PagesInv
<1>12. OneAtATime'
  BY <1>4, <1>7, <1>10, <1>11 DEF OneAtATime
<1>13. AnswersJoin'
  <2> SUFFICES ASSUME NEW p \in Asks, ask'[p].at = "read", ask'[p].of \notin shrunk
               PROVE  FitsView(p)'
    BY <1>1 DEF AnswersJoin
  <2>1. p # q
    BY <1>2, ask'[p].at = "read"
  <2>2. ask'[p] = ask[p] /\ p \in UnderWay'
    BY <1>2, <2>1 DEF UnderWay
  <2>3. ask[p].for = "whole" /\ ask[p].of = view.of /\ view.of \notin shrunk
    BY <1>11, <2>2
  <2>4. PICK end \in 0 .. total[view.of] :
          ask[p].page.messages = Stretch(view.of, 0, end) /\ (view.more => view.cursor < end)
    BY <1>3, <2>2, <2>3 DEF AnswersJoin, FitsView, PagesInv
  <2>5. view'.more => view'.cursor < end
    <3>1. SUFFICES ASSUME view'.more PROVE view'.cursor < end
      OBVIOUS
    <3>2. view'.cursor < view.cursor /\ view.cursor < end
      BY <1>4, <1>8, <2>3, <2>4, <3>1
    <3>3. view'.cursor \in Nat /\ view.cursor \in Nat /\ end \in Nat
      <4>1. page.cursor \in Nat /\ view.cursor \in Nat /\ view'.cursor = page.cursor
        BY <1>2, <1>5, <1>6 DEF Shown
      <4> QED BY <1>6, <2>4, <4>1, PagesAssumption
    <3> QED BY <3>2, <3>3
  <2> QED BY <1>1, <1>7, <2>2, <2>3, <2>4, <2>5 DEF FitsView
<1> QED BY <1>9, <1>12, <1>13

\* The whole is put in place of what is shown.
LEMMA ReplacingKept ==
    ASSUME PagesInv, PagesTyped', NEW q \in Asks, ShowWhole(q)
    PROVE  ViewJoins' /\ OneAtATime' /\ AnswersJoin'
<1> DEFINE page == ask[q].page
<1>1. /\ total' = total /\ shrunk' = shrunk /\ stream' = stream /\ torn' = torn
      /\ repeated' = (repeated \/ view.more)
      /\ ask' = [ask EXCEPT ![q] = Unasked] /\ ask[q].at = "read" /\ ask[q].for = "whole"
      /\ view' = [view EXCEPT !.messages = page.messages]
  BY Zenon DEF ShowWhole, AnswerComes, runVars
<1>2. /\ UnderWay' = UnderWay \ {q} /\ q \in UnderWay /\ UnderWay \subseteq Asks
      /\ ask'[q].at = "idle"
      /\ \A p \in Asks \ {q} : ask'[p] = ask[p]
      /\ ask[q].of \in Conversations /\ page \in Shown
  BY <1>1, RequestOver
<1>3. view \in Shown /\ view' \in Shown /\ repeated \in BOOLEAN /\ repeated' \in BOOLEAN
      /\ total \in [Conversations -> 0 .. MaxMessages]
  BY DEF PagesInv, PagesTyped
<1> HIDE DEF page
<1>4. view'.of = view.of /\ view'.more = view.more /\ view'.cursor = view.cursor
      /\ view'.messages = page.messages
  BY <1>1, <1>3 DEF Shown
<1> SUFFICES ASSUME ~torn PROVE ViewJoins' /\ OneAtATime' /\ AnswersJoin'
  BY <1>1 DEF ViewJoins, OneAtATime, AnswersJoin
<1>5. view.of # NoConversation /\ ask[q].of = view.of
  BY <1>1, <1>2 DEF OneAtATime, PagesInv
<1>6. total[view.of] \in 0 .. MaxMessages /\ total[view.of] \in Nat
  BY <1>2, <1>3, <1>5, PagesAssumption
<1>7. ViewJoins'
  <2> SUFFICES ASSUME view.of \notin shrunk
               PROVE  /\ Covered(view'.messages, view', total[view.of], repeated')
                      /\ stream.on => Covered(stream.base, view', total[view.of], repeated')
    BY <1>1, <1>4 DEF ViewJoins
  <2>1. /\ Covered(view.messages, view, total[view.of], repeated)
        /\ stream.on => Covered(stream.base, view, total[view.of], repeated)
    BY <1>5 DEF ViewJoins, PagesInv
  <2>2. view.more => view.cursor > 0
    BY <2>1 DEF Covered, Spans
  <2>3. PICK end \in 0 .. total[view.of] :
          page.messages = Stretch(view.of, 0, end) /\ (view.more => view.cursor < end)
    BY <1>1, <1>5 DEF AnswersJoin, FitsView, PagesInv, page
  <2>4. Covered(view'.messages, view', total[view.of], repeated')
    <3>1. ~repeated' => ~view'.more
      BY <1>1, <1>4
    <3>2. view'.messages = Stretch(view'.of, 0, end) /\ view'.of \in Conversations
          /\ (view'.more => view'.cursor < end /\ view'.cursor > 0)
      BY <1>2, <1>4, <1>5, <2>2, <2>3
    <3> QED BY <1>3, <1>6, <2>3, <3>1, <3>2, WholeCovers
  <2>5. ASSUME stream.on PROVE Covered(stream.base, view', total[view.of], repeated')
    <3>0. repeated => repeated'
      BY <1>1
    <3>1. Covered(stream.base, view, total[view.of], repeated')
      <4> DEFINE list == stream.base
                 n == total[view.of]
      <4>1. Covered(list, view, n, repeated) /\ n \in Nat /\ n <= n
        BY <1>6, <2>1, <2>5
      <4> HIDE DEF list, n
      <4>2. Covered(list, view, n, repeated')
        BY <1>3, <3>0, <4>1, CoveredStays
      <4> QED BY <4>2 DEF list, n
    <3> QED BY <1>4, <3>1 DEF Covered, Spans
  <2> QED BY <2>4, <2>5
<1>8. OneAtATime'
  BY <1>1, <1>2, <1>4 DEF OneAtATime, PagesInv
<1>9. AnswersJoin'
  <2> SUFFICES ASSUME NEW p \in Asks, ask'[p].at = "read", ask'[p].of \notin shrunk
               PROVE  FitsView(p)'
    BY <1>1 DEF AnswersJoin
  <2>1. ask'[p] = ask[p]
    BY <1>2
  <2>2. FitsView(p)
    BY <2>1 DEF AnswersJoin, PagesInv
  <2> QED BY <1>1, <1>4, <2>1, <2>2 DEF FitsView, IsPage
<1> QED BY <1>7, <1>8, <1>9

\* A question of the client's own, or its reply, adds a message: to what is
\* shown, or to what was when the run began.
LEMMA OwnMessageKept ==
    ASSUME PagesInv, NEW list \in Seq(Messages), Grows(view.of), view.of \in Conversations,
           view' = [view EXCEPT !.messages = list \o << <<view.of, total[view.of] + 1>> >>],
           stream'.on => stream'.base = view'.messages,
           torn' = FALSE => ~torn /\ UpTo(list, view.of),
           torn' \in BOOLEAN, repeated' = repeated, shrunk' = shrunk, ask' = ask,
           (~torn /\ view.of \notin shrunk) => Covered(list, view, total[view.of], repeated)
    PROVE  ViewJoins' /\ OneAtATime' /\ AnswersJoin'
<1> SUFFICES ASSUME ~torn' PROVE ViewJoins' /\ OneAtATime' /\ AnswersJoin'
  BY DEF ViewJoins, OneAtATime, AnswersJoin
<1> DEFINE n == total[view.of]
           longer == list \o << <<view.of, n + 1>> >>
<1>1. ~torn /\ UpTo(list, view.of)
  OBVIOUS
<1>2. view \in Shown /\ repeated \in BOOLEAN
  BY DEF PagesInv, PagesTyped
<1>3. n \in Nat /\ total'[view.of] = n + 1 /\ n < MaxMessages
      /\ \A d \in Conversations : /\ total[d] <= total'[d]
                                  /\ total[d] \in Nat /\ total'[d] \in Nat
  <2>1. PagesTyped
    BY DEF PagesInv
  <2>2. /\ n \in Nat /\ total'[view.of] = n + 1
        /\ total' \in [Conversations -> 0 .. MaxMessages]
        /\ \A d \in Conversations : total[d] <= total'[d]
    BY <2>1, GrowsTyped
  <2>3. n < MaxMessages
    BY DEF Grows
  <2> QED BY <2>1, <2>2, <2>3, PagesAssumption DEF PagesTyped
<1>4. view' = [view EXCEPT !.messages = longer]
  OBVIOUS
<1>5. view.of \notin shrunk => Covered(longer, view, n + 1, repeated)
  <2> SUFFICES ASSUME view.of \notin shrunk PROVE Covered(longer, view, n + 1, repeated)
    OBVIOUS
  <2>1. IF list = <<>> THEN n = 0 ELSE list[Len(list)] = <<view.of, n>>
    BY <1>1 DEF UpTo
  <2>2. Covered(list, view, n, repeated)
    BY <1>1
  <2> QED BY <1>2, <1>3, <2>1, <2>2, CoveredGrows
<1> HIDE DEF longer
<1>6. view'.of = view.of /\ view'.more = view.more /\ view'.cursor = view.cursor
      /\ view'.messages = longer
  BY <1>2, <1>4 DEF Shown
<1>7. ViewJoins'
  <2>1. view.of \notin shrunk => Covered(longer, view', n + 1, repeated)
    BY <1>5, <1>6 DEF Covered, Spans
  <2> HIDE DEF n
  <2>2. total'[view'.of] = n + 1
    BY <1>3, <1>6
  <2>3. view'.of \notin shrunk' => Covered(view'.messages, view', total'[view'.of], repeated')
    <3>1. view'.of \notin shrunk' => view.of \notin shrunk
      BY <1>6
    <3>2. /\ view'.messages = longer /\ total'[view'.of] = n + 1
          /\ repeated' = repeated
      BY <1>6, <2>2
    <3> QED BY <2>1, <3>1, <3>2
  <2> QED BY <2>3 DEF ViewJoins
<1>8. UnderWay' = UnderWay
  BY DEF UnderWay
<1>9. OneAtATime'
  BY <1>1, <1>6, <1>8 DEF OneAtATime, PagesInv
<1>10. AnswersJoin'
  <2> SUFFICES ASSUME NEW q \in Asks, ask[q].at = "read", ask[q].of \notin shrunk
               PROVE  FitsView(q)'
    BY DEF AnswersJoin
  <2>1. FitsView(q)
    BY <1>1 DEF AnswersJoin, PagesInv
  <2>2. ask[q].of \in Conversations
    BY DEF PagesInv, PagesTyped, UnderWay
  <2>3. 0 .. total[ask[q].of] \subseteq 0 .. total'[ask[q].of]
    BY <1>3, <2>2
  <2> QED BY <1>6, <2>1, <2>3 DEF FitsView, IsPage
<1> QED BY <1>7, <1>9, <1>10

LEMMA SendKept ==
    ASSUME PagesInv, SendMessage
    PROVE  ViewJoins' /\ OneAtATime' /\ AnswersJoin'
<1>1. view.of \in Conversations /\ view.messages \in Seq(Messages) /\ Grows(view.of)
      /\ ask' = ask /\ shrunk' = shrunk /\ repeated' = repeated
  BY DEF SendMessage, Shown, PagesInv, PagesTyped
<1>2. PICK kept \in 0 .. Len(view.messages) :
        LET base == SubSeq(view.messages, 1, kept) \o << <<view.of, total[view.of] + 1>> >> IN
        /\ view' = [view EXCEPT !.messages = base]
        /\ stream' = [on |-> TRUE, base |-> base]
        /\ torn' = (torn \/ kept < Len(view.messages) \/ ~UpTo(view.messages, view.of))
  BY Zenon DEF SendMessage
<1>3. torn' = (torn \/ kept < Len(view.messages) \/ ~UpTo(view.messages, view.of))
      /\ torn' \in BOOLEAN
  BY <1>2
<1> SUFFICES ASSUME ~torn' PROVE ViewJoins' /\ OneAtATime' /\ AnswersJoin'
  BY DEF ViewJoins, OneAtATime, AnswersJoin
<1>4. ~torn /\ UpTo(view.messages, view.of) /\ kept = Len(view.messages)
  <2>1. ~torn /\ UpTo(view.messages, view.of) /\ ~(kept < Len(view.messages))
    BY <1>3
  <2>2. Len(view.messages) \in Nat /\ kept \in 0 .. Len(view.messages)
    BY <1>1
  <2> QED BY <2>1, <2>2
<1>5. SubSeq(view.messages, 1, kept) = view.messages
  <2> DEFINE s == view.messages
  <2>1. s \in Seq(Messages) /\ Len(s) \in Nat /\ kept = Len(s)
    BY <1>1, <1>4
  <2> HIDE DEF s, Messages
  <2>2. SubSeq(s, 1, Len(s)) = s
    BY <2>1, SubSeqFull
  <2> QED BY <2>1, <2>2 DEF s
<1> DEFINE longer == view.messages \o << <<view.of, total[view.of] + 1>> >>
<1>6. view' = [view EXCEPT !.messages = longer] /\ stream' = [on |-> TRUE, base |-> longer]
  BY <1>2, <1>5
<1>7. stream'.base = view'.messages
  <2>1. view \in Shown
    BY DEF PagesInv, PagesTyped
  <2> HIDE DEF longer
  <2>2. view'.messages = longer
    BY <1>6, <2>1 DEF Shown
  <2> QED BY <1>6, <2>2
<1>8. (~torn /\ view.of \notin shrunk) => Covered(view.messages, view, total[view.of], repeated)
  <2>1. view.of # NoConversation
    BY DEF SendMessage
  <2> QED BY <2>1 DEF ViewJoins, PagesInv
<1> QED BY <1>1, <1>3, <1>4, <1>6, <1>7, <1>8, OwnMessageKept

LEMMA StreamEndKept ==
    ASSUME PagesInv, StreamEnds
    PROVE  ViewJoins' /\ OneAtATime' /\ AnswersJoin'
<1>1. /\ stream.on /\ view.of \in Conversations /\ view.of # NoConversation /\ stream' = NoStream /\ stream'.on = FALSE
      /\ ask' = ask /\ shrunk' = shrunk /\ repeated' = repeated /\ torn \in BOOLEAN
      /\ stream.base \in Seq(Messages)
  BY NothingTyped DEF StreamEnds, PagesInv, PagesTyped
<1>2. CASE /\ Grows(view.of)
           /\ view' = [view EXCEPT !.messages =
                          stream.base \o << <<view.of, total[view.of] + 1>> >>]
           /\ torn' = (torn \/ ~UpTo(stream.base, view.of))
  <2>1. (torn' = FALSE => ~torn /\ UpTo(stream.base, view.of)) /\ torn' \in BOOLEAN
    BY <1>2
  <2>2. ASSUME ~torn, view.of \notin shrunk
        PROVE  Covered(stream.base, view, total[view.of], repeated)
    BY <1>1, <2>2 DEF ViewJoins, PagesInv
  <2> QED BY <1>1, <1>2, <2>1, <2>2, OwnMessageKept
<1>3. CASE UNCHANGED <<total, view, torn>>
  <2>1. total' = total /\ view' = view /\ torn' = torn
    BY <1>3
  <2> QED BY <1>1, <2>1 DEF ViewJoins, OneAtATime, AnswersJoin, FitsView, IsPage, UnderWay, PagesInv
<1> QED BY <1>2, <1>3 DEF StreamEnds

\* What is shown, and what is under way, still fits together.
LEMMA PagesKept == PagesInv /\ [PagesNext]_pageVars => PagesInv'
<1> SUFFICES ASSUME PagesInv, [PagesNext]_pageVars PROVE PagesInv'
  OBVIOUS
<1>1. PagesTyped'
  BY PagesTypedKept, Zenon DEF PagesInv
<1>2. CASE UNCHANGED pageVars
  <2>1. /\ view' = view /\ ask' = ask /\ torn' = torn /\ total' = total /\ shrunk' = shrunk
        /\ stream' = stream /\ repeated' = repeated
    BY <1>2 DEF pageVars, runVars
  <2>2. ViewJoins' /\ OneAtATime' /\ AnswersJoin'
    BY <2>1 DEF ViewJoins, OneAtATime, AnswersJoin, FitsView, IsPage, UnderWay, PagesInv
  <2> QED BY <1>1, <2>2, Zenon DEF PagesInv
<1>3. CASE PagesNext
  <2>1. ViewJoins' /\ OneAtATime' /\ AnswersJoin'
    BY <1>1, <1>3, GrowingKept, SelectKept, AskingKept, ReadingKept, NewestKept, OlderKept,
       ReplacingKept, FailingKept, SendKept, StreamEndKept, Zenon DEF PagesNext
  <2> QED BY <1>1, <2>1, Zenon DEF PagesInv
<1> QED BY <1>2, <1>3

\* What the invariant is for.
LEMMA PagesHold == PagesInv => PagesTypeOK /\ PagesJoin
<1> SUFFICES ASSUME PagesInv PROVE PagesTypeOK /\ PagesJoin
  OBVIOUS
<1>1. PagesTypeOK
  <2>1. view.of \in Conversations \cup {NoConversation} /\ view.messages \in Seq(Messages)
        /\ view.more \in BOOLEAN /\ view.cursor \in Nat
    BY DEF PagesInv, PagesTyped, Shown
  <2>2. \A q \in Asks : /\ ask[q].for \in {"nothing", "newest", "older", "whole"}
                        /\ ask[q].at \in {"idle", "asked", "read"}
    BY DEF PagesInv, PagesTyped, Request
  <2>3. stream.on \in BOOLEAN /\ stream.base \in Seq(Messages)
    <3> HIDE DEF Messages
    <3> QED BY DEF PagesInv, PagesTyped
  <2> QED BY <2>1, <2>2, <2>3, Zenon DEF PagesInv, PagesTyped, PagesTypeOK
<1>2. PagesJoin
  <2> SUFFICES ASSUME view.of # NoConversation, view.of \notin shrunk, ~torn
               PROVE  \E start \in 0 .. total[view.of] : \E end \in start .. total[view.of] :
                 /\ {view.messages[i] : i \in DOMAIN view.messages}
                      = {<<view.of, i>> : i \in start + 1 .. end}
                 /\ start > 0 => view.more /\ view.cursor >= start
                 /\ ~repeated => /\ view.messages = Stretch(view.of, start, end)
                                 /\ view.more <=> start > 0
                                 /\ view.more => view.cursor = start
    BY Zenon DEF PagesJoin
  <2>1. PICK end \in 0 .. total[view.of] : \E s \in 0 .. end :
          Spans(view.messages, view, s, end, repeated)
    BY DEF PagesInv, ViewJoins, Covered
  <2>2. PICK start \in 0 .. end : Spans(view.messages, view, start, end, repeated)
    BY <2>1
  <2>3. total[view.of] \in Nat
    <3>1. view.of \in Conversations /\ MaxMessages \in Nat
      BY PagesAssumption DEF PagesInv, PagesTyped, Shown
    <3> QED BY <3>1 DEF PagesInv, PagesTyped
  <2>4. start \in 0 .. total[view.of] /\ end \in start .. total[view.of]
    BY <2>1, <2>2, <2>3
  <2>5. /\ {view.messages[i] : i \in DOMAIN view.messages}
             = {<<view.of, i>> : i \in start + 1 .. end}
        /\ start > 0 => view.more /\ view.cursor >= start
        /\ ~repeated => /\ view.messages = Stretch(view.of, start, end)
                        /\ view.more <=> start > 0
                        /\ view.more => view.cursor = start
    BY <2>2, Zenon DEF Spans, Those, Span
  <2> QED BY <2>4, <2>5, Zenon
<1> QED BY <1>1, <1>2

-----------------------------------------------------------------------------
(* The three together. *)

ClientInv == SharingInv /\ PagesInv /\ ReadInv

\* Each part's invariant is that of the whole: it is the part's own step, or
\* the part stands still.
THEOREM ClientInvariant == ClientSpec => []ClientInv
<1>1. ClientInit => ClientInv
  BY SharingStarts, PagesStart, ReadStarts, Zenon DEF ClientInit, ClientInv
<1>2. ClientInv /\ [ClientNext]_clientVars => ClientInv'
  <2>1. [ClientNext]_clientVars =>
            [SharingNext]_sharingVars /\ [PagesNext]_pageVars /\ [ReadNext]_readVars
    BY Zenon DEF ClientNext, clientVars
  <2> QED BY <2>1, SharingKept, PagesKept, ReadKept, Zenon DEF ClientInv
<1> QED BY <1>1, <1>2, PTL DEF ClientSpec

\* handlers/share.go: nobody opens a link, or copies the session behind it,
\* who follows it after the owner was told that it is revoked or the session
\* deleted, unless a renaming brought the session back; and a link that is
\* given to the owner opens, unless one was closed while he was waiting.  It
\* rests on what a revocation covers being revoked before its owner is told.
THEOREM LinksAreTrue == ClientSpec => []LinksHold
<1>1. ClientInv => LinksHold
  BY SharingHolds, Zenon DEF ClientInv
<1> QED BY <1>1, ClientInvariant, PTL

\* SessionContext, useChat and ReadStateContext: what a client shows of a
\* conversation are all its messages from one to another, and it goes on to
\* those before; in their order, and once each, unless the whole was put in
\* place of a view to which older pages are still added.  And a tab that missed
\* nothing shows the number that is stored once nothing is under way.  It
\* rests on what each request that is under way was made for, and on what a
\* run of the client's own goes on from.
THEOREM ViewsAreTrue == ClientSpec => []ViewsAgree
<1>1. ClientInv => ViewsAgree
  BY PagesHold, ReadHolds, Zenon DEF ClientInv, ViewsAgree
<1> QED BY <1>1, ClientInvariant, PTL
-----------------------------------------------------------------------------
(* An agent's answer.  The bounds on what an agent sends do not matter to  *)
(* what is shown of it, and are left out of the types.                     *)

AnyEvent == [kind : Kinds, of : Nat]
SentKinds == {"begin", "content", "whole", "repeat", "thought", "tool", "answer", "chart",
              "summary", "document"}
AnySent == [kind : SentKinds, of : Nat]
AnyCall == [name : Names, answer : Nat]

StreamTyped ==
    /\ protocol \in Protocols
    /\ {suppressed, connected, noticed, clientGone, open, failed, limited} \subseteq BOOLEAN
    /\ events \in Seq(AnyEvent)
    /\ pc \in {"request", "connect", "stream", "json", "rotate", "retry", "again",
              "refused", "done"}
    /\ sent \in Seq(AnySent)
    /\ calls \in Seq(AnyCall)
    /\ outcome \in {"none", "whole", "partial"}

\* A write fails only when the client has left.
LeftFirst == noticed \/ clientGone => ~connected

\* An error is told at the end and in a debate, and nothing is returned before.
Told(s) == \E i \in DOMAIN s : s[i].kind = "error"
ToldLast ==
    /\ Told(events) => suppressed /\ pc = "done" /\ (failed \/ outcome = "partial")
    /\ pc = "done" /\ suppressed /\ (failed \/ outcome = "partial") =>
           Told(events) \/ (clientGone /\ outcome = "none")
    /\ pc \notin {"refused", "done"} => ~failed /\ outcome = "none"

ErrorsInv == LeftFirst /\ ToldLast

\* Whether a message is open before the i-th of these events, or after all.
OpenAt(s, i) ==
    \E j \in 1 .. i - 1 :
        s[j].kind \in Opens /\ \A k \in DOMAIN s : j < k /\ k < i => s[k].kind # "end"
OpenEnd(s) == OpenAt(s, Len(s) + 1)
Fits(e, opened) ==
    /\ e.kind \in {"start", "thinking", "tool"} => ~opened
    /\ e.kind \in {"content", "thought", "notice", "end"} => opened
NestedIn(s) == \A i \in DOMAIN s : Fits(s[i], OpenAt(s, i))

\* The writer knows whether a message is open, but for an A2A agent's whose
\* client has left.
Followed == protocol # "a2a" \/ connected
Foreign ==
    /\ pc \in {"rotate", "retry", "again"} => protocol = "adk"
    /\ pc = "json" => protocol = "custom"
MessagesKept ==
    /\ Foreign
    /\ Followed => NestedIn(events)
    /\ Followed /\ pc \in {"request", "connect", "json", "stream"} => (open <=> OpenEnd(events))
    /\ pc \in {"request", "connect", "json"} => ~open
    /\ pc = "retry" => ~OpenEnd(events)
    /\ pc = "done" /\ OpenEnd(events) =>
           \/ ~connected /\ (protocol # "custom" \/ outcome = "none")
           \/ limited

MessagesInv == LeftFirst /\ MessagesKept

\* Where calls of one name do not overlap, what a call was answered with is
\* its own, and an answer that was sent has been taken.
Answered(i) == \E k \in DOMAIN sent : sent[k] = Ev("answer", i)
Apart == ~\E i, j \in DOMAIN calls : Overlapping(i, j)
ResultsInv ==
    /\ \A i \in Nat : Answered(i) => i \in DOMAIN calls
    /\ Apart => \A i \in DOMAIN calls :
           /\ calls[i].answer \in {0, i}
           /\ pc # "done" /\ Answered(i) => calls[i].answer = i

StreamInv == StreamTyped /\ ErrorsInv /\ MessagesInv /\ ResultsInv
-----------------------------------------------------------------------------
\* What one event does to the messages, and several.
OpenFrom(b, s, i) ==
    OpenAt(s, i) \/ (b /\ \A k \in DOMAIN s : k < i => s[k].kind # "end")
OpenThen(b, s) == OpenFrom(b, s, Len(s) + 1)
NestedFrom(b, s) == \A i \in DOMAIN s : Fits(s[i], OpenFrom(b, s, i))

LEMMA OpenGrows ==
  ASSUME NEW s \in Seq(AnyEvent), NEW t \in Seq(AnyEvent)
  PROVE  /\ s \o t \in Seq(AnyEvent)
         /\ \A i \in 1 .. Len(s) + 1 : OpenAt(s \o t, i) <=> OpenAt(s, i)
         /\ \A i \in 1 .. Len(t) + 1 : OpenAt(s \o t, Len(s) + i) <=> OpenFrom(OpenEnd(s), t, i)
  <1> DEFINE u == s \o t
  <1>1. /\ u \in Seq(AnyEvent) /\ Len(s) \in Nat /\ Len(t) \in Nat /\ Len(u) = Len(s) + Len(t)
        /\ \A i \in 1 .. Len(s) : u[i] = s[i]
        /\ \A i \in 1 .. Len(t) : u[Len(s) + i] = t[i]
        /\ DOMAIN s = 1 .. Len(s) /\ DOMAIN t = 1 .. Len(t) /\ DOMAIN u = 1 .. Len(u)
    BY ConcatProperties, LenProperties
  <1> HIDE DEF u
  <1>2. ASSUME NEW i \in 1 .. Len(s) + 1 PROVE OpenAt(u, i) <=> OpenAt(s, i)
    <2>1. \A k \in 1 .. i - 1 : k \in DOMAIN u /\ k \in DOMAIN s /\ u[k] = s[k]
      BY <1>1
    <2>2. \A k \in DOMAIN u \cup DOMAIN s : k < i => k \in 1 .. i - 1
      BY <1>1
    <2> QED BY <2>1, <2>2 DEF OpenAt
  <1>3. ASSUME NEW i \in 1 .. Len(t) + 1
        PROVE  OpenAt(u, Len(s) + i) <=> OpenFrom(OpenEnd(s), t, i)
    <2>1. ASSUME OpenAt(u, Len(s) + i) PROVE OpenFrom(OpenEnd(s), t, i)
      <3>1. PICK j \in 1 .. (Len(s) + i) - 1 :
              u[j].kind \in Opens /\ \A k \in DOMAIN u : j < k /\ k < Len(s) + i => u[k].kind # "end"
        BY <2>1 DEF OpenAt
      <3>2. CASE j <= Len(s)
        <4>1. j \in 1 .. Len(s) /\ s[j].kind \in Opens
          BY <1>1, <3>1, <3>2
        <4>2. \A k \in DOMAIN s : j < k => s[k].kind # "end"
          BY <1>1, <3>1
        <4>3. \A k \in DOMAIN t : k < i => t[k].kind # "end"
          <5> TAKE k \in DOMAIN t
          <5> HAVE k < i
          <5>1. Len(s) + k \in DOMAIN u /\ j < Len(s) + k /\ Len(s) + k < Len(s) + i
            BY <1>1, <3>2
          <5> QED BY <1>1, <3>1, <5>1
        <4>4. OpenEnd(s)
          BY <1>1, <4>1, <4>2 DEF OpenEnd, OpenAt
        <4> QED BY <4>3, <4>4 DEF OpenFrom
      <3>3. CASE j > Len(s)
        <4> DEFINE m == j - Len(s)
        <4>1. m \in 1 .. i - 1 /\ m \in 1 .. Len(t) /\ u[j] = t[m]
          <5>1. m \in 1 .. Len(t) /\ m < i /\ j = Len(s) + m
            BY <1>1, <3>3
          <5> QED BY <1>1, <5>1
        <4>2. \A k \in DOMAIN t : m < k /\ k < i => t[k].kind # "end"
          <5> TAKE k \in DOMAIN t
          <5> HAVE m < k /\ k < i
          <5>1. Len(s) + k \in DOMAIN u /\ j < Len(s) + k /\ Len(s) + k < Len(s) + i
            BY <1>1
          <5> QED BY <1>1, <3>1, <5>1
        <4> QED BY <3>1, <4>1, <4>2 DEF OpenFrom, OpenAt
      <3> QED BY <1>1, <3>2, <3>3
    <2>2. ASSUME OpenFrom(OpenEnd(s), t, i) PROVE OpenAt(u, Len(s) + i)
      <3>1. CASE OpenAt(t, i)
        <4>1. PICK j \in 1 .. i - 1 :
                t[j].kind \in Opens /\ \A k \in DOMAIN t : j < k /\ k < i => t[k].kind # "end"
          BY <3>1 DEF OpenAt
        <4>2. Len(s) + j \in 1 .. (Len(s) + i) - 1 /\ u[Len(s) + j].kind \in Opens
          BY <1>1, <4>1
        <4>3. \A k \in DOMAIN u : Len(s) + j < k /\ k < Len(s) + i => u[k].kind # "end"
          <5> TAKE k \in DOMAIN u
          <5> HAVE Len(s) + j < k /\ k < Len(s) + i
          <5>1. k - Len(s) \in DOMAIN t /\ j < k - Len(s) /\ k - Len(s) < i /\ k = Len(s) + (k - Len(s))
            BY <1>1
          <5> QED BY <1>1, <4>1, <5>1
        <4> QED BY <4>2, <4>3 DEF OpenAt
      <3>2. CASE OpenEnd(s) /\ \A k \in DOMAIN t : k < i => t[k].kind # "end"
        <4>1. PICK j \in 1 .. (Len(s) + 1) - 1 :
                /\ s[j].kind \in Opens
                /\ \A k \in DOMAIN s : j < k /\ k < Len(s) + 1 => s[k].kind # "end"
          BY <3>2 DEF OpenEnd, OpenAt
        <4>2. j \in 1 .. (Len(s) + i) - 1 /\ u[j].kind \in Opens
          BY <1>1, <4>1
        <4>3. \A k \in DOMAIN u : j < k /\ k < Len(s) + i => u[k].kind # "end"
          <5> TAKE k \in DOMAIN u
          <5> HAVE j < k /\ k < Len(s) + i
          <5>1. CASE k <= Len(s)
            BY <1>1, <4>1, <5>1
          <5>2. CASE k > Len(s)
            <6>1. k - Len(s) \in DOMAIN t /\ k - Len(s) < i /\ k = Len(s) + (k - Len(s))
              BY <1>1, <5>2
            <6> QED BY <1>1, <3>2, <6>1
          <5> QED BY <1>1, <5>1, <5>2
        <4> QED BY <4>2, <4>3 DEF OpenAt
      <3> QED BY <2>2, <3>1, <3>2 DEF OpenFrom
    <2> QED BY <2>1, <2>2
  <1> QED BY <1>1, <1>2, <1>3 DEF u

LEMMA NestedGrows ==
  ASSUME NEW s \in Seq(AnyEvent), NEW t \in Seq(AnyEvent)
  PROVE  /\ s \o t \in Seq(AnyEvent)
         /\ NestedIn(s) /\ NestedFrom(OpenEnd(s), t) => NestedIn(s \o t)
         /\ OpenEnd(s \o t) <=> OpenThen(OpenEnd(s), t)
         /\ Told(s \o t) <=> Told(s) \/ Told(t)
  <1> DEFINE u == s \o t
  <1>1. /\ u \in Seq(AnyEvent) /\ Len(s) \in Nat /\ Len(t) \in Nat /\ Len(u) = Len(s) + Len(t)
        /\ \A i \in 1 .. Len(s) : u[i] = s[i]
        /\ \A i \in 1 .. Len(t) : u[Len(s) + i] = t[i]
        /\ DOMAIN s = 1 .. Len(s) /\ DOMAIN t = 1 .. Len(t) /\ DOMAIN u = 1 .. Len(u)
    BY ConcatProperties, LenProperties
  <1>2. /\ \A i \in 1 .. Len(s) + 1 : OpenAt(u, i) <=> OpenAt(s, i)
        /\ \A i \in 1 .. Len(t) + 1 : OpenAt(u, Len(s) + i) <=> OpenFrom(OpenEnd(s), t, i)
    BY OpenGrows
  <1> HIDE DEF u
  <1>3. \A i \in DOMAIN u : i \in DOMAIN s \/ (i - Len(s) \in DOMAIN t /\ i = Len(s) + (i - Len(s)))
    BY <1>1
  <1>4. ASSUME NestedIn(s), NestedFrom(OpenEnd(s), t), NEW i \in DOMAIN u
        PROVE  Fits(u[i], OpenAt(u, i))
    <2>1. CASE i \in DOMAIN s
      <3>1. u[i] = s[i] /\ (OpenAt(u, i) <=> OpenAt(s, i))
        BY <1>1, <1>2, <2>1
      <3> QED BY <1>4, <2>1, <3>1 DEF NestedIn, Fits
    <2>2. CASE i - Len(s) \in DOMAIN t /\ i = Len(s) + (i - Len(s))
      <3> DEFINE m == i - Len(s)
      <3>1. m \in 1 .. Len(t) /\ m \in 1 .. Len(t) + 1 /\ i = Len(s) + m
        BY <1>1, <2>2
      <3> HIDE DEF m
      <3>2. u[i] = t[m] /\ (OpenAt(u, i) <=> OpenFrom(OpenEnd(s), t, m))
        BY <1>1, <1>2, <3>1
      <3> QED BY <1>1, <1>4, <3>1, <3>2 DEF NestedFrom, Fits
    <2> QED BY <1>3, <2>1, <2>2
  <1>5. OpenEnd(u) <=> OpenThen(OpenEnd(s), t)
    <2>1. Len(t) + 1 \in 1 .. Len(t) + 1 /\ Len(u) + 1 = Len(s) + (Len(t) + 1)
      BY <1>1
    <2> QED BY <1>2, <2>1 DEF OpenEnd, OpenThen
  <1>6. Told(u) <=> Told(s) \/ Told(t)
    <2>1. \A i \in DOMAIN s : i \in DOMAIN u /\ u[i] = s[i]
      BY <1>1
    <2>2. \A i \in DOMAIN t : Len(s) + i \in DOMAIN u /\ u[Len(s) + i] = t[i]
      BY <1>1
    <2>3. ASSUME NEW i \in DOMAIN u PROVE (i \in DOMAIN s) \/ (i - Len(s) \in DOMAIN t /\ u[i] = t[i - Len(s)])
      BY <1>1, <1>3
    <2> QED BY <2>1, <2>2, <2>3 DEF Told
  <1> QED BY <1>1, <1>4, <1>5, <1>6 DEF u, NestedIn

\* What a caller that stops at the n-th event has sent.
LEMMA NestedPart ==
  ASSUME NEW b \in BOOLEAN, NEW s \in Seq(AnyEvent), NEW n \in DOMAIN s, NestedFrom(b, s)
  PROVE  /\ SubSeq(s, 1, n) \in Seq(AnyEvent)
         /\ NestedFrom(b, SubSeq(s, 1, n))
         /\ Told(SubSeq(s, 1, n)) => Told(s)
  <1> DEFINE t == SubSeq(s, 1, n)
  <1>1. n \in 1 .. Len(s) /\ DOMAIN s = 1 .. Len(s) /\ Len(s) \in Nat
    BY LenProperties
  <1>2. /\ t \in Seq(AnyEvent) /\ Len(t) = n /\ DOMAIN t = 1 .. n
        /\ \A i \in 1 .. n : t[i] = s[i]
    BY <1>1, SubSeqProperties, LenProperties
  <1> HIDE DEF t
  <1>3. \A i \in 1 .. n : OpenFrom(b, t, i) <=> OpenFrom(b, s, i)
    <2> TAKE i \in 1 .. n
    <2>1. \A k \in 1 .. i - 1 : k \in DOMAIN t /\ k \in DOMAIN s /\ t[k] = s[k]
      BY <1>1, <1>2
    <2>2. \A k : (k \in DOMAIN t /\ k < i) <=> k \in 1 .. i - 1
      BY <1>1, <1>2
    <2>3. \A k : (k \in DOMAIN s /\ k < i) <=> k \in 1 .. i - 1
      BY <1>1, <1>2
    <2>4. \A k \in 1 .. i - 1 : t[k].kind = s[k].kind
      BY <2>1
    <2>5. OpenAt(t, i) <=> OpenAt(s, i)
      BY <2>2, <2>3, <2>4, Zenon DEF OpenAt
    <2>6. (\A k \in DOMAIN t : k < i => t[k].kind # "end")
          <=> (\A k \in DOMAIN s : k < i => s[k].kind # "end")
      BY <2>2, <2>3, <2>4, Zenon
    <2> QED BY <2>5, <2>6, Zenon DEF OpenFrom
  <1> QED BY <1>1, <1>2, <1>3 DEF t, NestedFrom, Fits, Told

\* s is well formed when a message is open or not as b says, and leaves one
\* open or not as c says.
Takes(b, s, c) == s \in Seq(AnyEvent) /\ NestedFrom(b, s) /\ (OpenThen(b, s) <=> c)

LEMMA TakesOne ==
  ASSUME NEW b \in BOOLEAN, NEW c \in BOOLEAN, NEW e \in AnyEvent, Fits(e, b),
         c <=> e.kind \in Opens \/ (b /\ e.kind # "end")
  PROVE  /\ Takes(b, <<e>>, c)
         /\ Told(<<e>>) <=> e.kind = "error"
  <1>1. <<e>> \in Seq(AnyEvent) /\ Len(<<e>>) = 1 /\ DOMAIN <<e>> = {1} /\ <<e>>[1] = e
    OBVIOUS
  <1> DEFINE s == <<e>>
  <1> HIDE DEF s
  <1>2. s \in Seq(AnyEvent) /\ Len(s) = 1 /\ DOMAIN s = {1} /\ s[1] = e
    BY <1>1 DEF s
  <1>3. ~OpenAt(s, 1) /\ (OpenAt(s, 2) <=> e.kind \in Opens)
    BY <1>2 DEF OpenAt
  <1>4. (OpenFrom(b, s, 1) <=> b) /\ (OpenFrom(b, s, 2) <=> e.kind \in Opens \/ (b /\ e.kind # "end"))
    BY <1>2, <1>3 DEF OpenFrom
  <1> QED BY <1>2, <1>4 DEF s, Takes, NestedFrom, OpenThen, Fits, Told

LEMMA TakesNone ==
  ASSUME NEW b \in BOOLEAN PROVE Takes(b, <<>>, b) /\ ~Told(<<>>)
  BY DEF Takes, NestedFrom, OpenThen, OpenFrom, OpenAt, Told

LEMMA TakesBoth ==
  ASSUME NEW b \in BOOLEAN, NEW c \in BOOLEAN, NEW d \in BOOLEAN, NEW s, NEW t,
         Takes(b, s, c), Takes(c, t, d)
  PROVE  Takes(b, s \o t, d) /\ (Told(s \o t) <=> Told(s) \/ Told(t))
  <1> DEFINE u == s \o t
  <1>1. s \in Seq(AnyEvent) /\ t \in Seq(AnyEvent)
    BY DEF Takes
  <1>2. /\ u \in Seq(AnyEvent) /\ Len(s) \in Nat /\ Len(t) \in Nat /\ Len(u) = Len(s) + Len(t)
        /\ \A i \in 1 .. Len(s) : u[i] = s[i]
        /\ \A i \in 1 .. Len(t) : u[Len(s) + i] = t[i]
        /\ DOMAIN s = 1 .. Len(s) /\ DOMAIN t = 1 .. Len(t) /\ DOMAIN u = 1 .. Len(u)
    BY <1>1, ConcatProperties, LenProperties
  <1>3. /\ \A i \in 1 .. Len(s) + 1 : OpenAt(u, i) <=> OpenAt(s, i)
        /\ \A i \in 1 .. Len(t) + 1 : OpenAt(u, Len(s) + i) <=> OpenFrom(OpenEnd(s), t, i)
    BY <1>1, OpenGrows
  <1>4. Told(u) <=> Told(s) \/ Told(t)
    BY <1>1, NestedGrows
  <1>5. OpenThen(b, s) <=> OpenEnd(s) \/ (b /\ \A k \in DOMAIN s : s[k].kind # "end")
    BY <1>2 DEF OpenThen, OpenFrom, OpenEnd
  <1> HIDE DEF u
  <1>6. ASSUME NEW i \in 1 .. Len(s) + 1 PROVE OpenFrom(b, u, i) <=> OpenFrom(b, s, i)
    <2>1. \A k \in 1 .. i - 1 : k \in DOMAIN u /\ k \in DOMAIN s /\ u[k] = s[k]
      BY <1>2
    <2>2. \A k \in DOMAIN u \cup DOMAIN s : k < i => k \in 1 .. i - 1
      BY <1>2
    <2> QED BY <1>3, <2>1, <2>2 DEF OpenFrom
  <1>7. ASSUME NEW i \in 1 .. Len(t) + 1 PROVE OpenFrom(b, u, Len(s) + i) <=> OpenFrom(c, t, i)
    <2>1. (\A k \in DOMAIN u : k < Len(s) + i => u[k].kind # "end") <=>
            (\A k \in DOMAIN s : s[k].kind # "end") /\ (\A k \in DOMAIN t : k < i => t[k].kind # "end")
      <3>1. \A k \in DOMAIN s : k \in DOMAIN u /\ k < Len(s) + i /\ u[k] = s[k]
        BY <1>2
      <3>2. \A k \in DOMAIN t : /\ k < i => Len(s) + k < Len(s) + i
                                /\ Len(s) + k \in DOMAIN u /\ u[Len(s) + k] = t[k]
        BY <1>2
      <3>3. ASSUME NEW k \in DOMAIN u, k < Len(s) + i
            PROVE  \/ k \in DOMAIN s
                   \/ k - Len(s) \in DOMAIN t /\ k - Len(s) < i /\ u[k] = t[k - Len(s)]
        <4>1. k \in 1 .. Len(s) \/ (k - Len(s) \in 1 .. Len(t) /\ k = Len(s) + (k - Len(s)))
          BY <1>2
        <4> QED BY <1>2, <3>3, <4>1
      <3> QED BY <3>1, <3>2, <3>3
    <2>2. OpenAt(u, Len(s) + i) <=> OpenFrom(OpenEnd(s), t, i)
      BY <1>3
    <2>3. c <=> OpenEnd(s) \/ (b /\ \A k \in DOMAIN s : s[k].kind # "end")
      BY <1>5 DEF Takes
    <2> QED BY <2>1, <2>2, <2>3 DEF OpenFrom
  <1>8. ASSUME NEW i \in DOMAIN u PROVE Fits(u[i], OpenFrom(b, u, i))
    <2>1. CASE i \in 1 .. Len(s)
      <3>1. i \in 1 .. Len(s) + 1 /\ u[i] = s[i] /\ (OpenFrom(b, u, i) <=> OpenFrom(b, s, i))
        BY <1>2, <1>6, <2>1
      <3> QED BY <1>2, <2>1, <3>1 DEF Takes, NestedFrom, Fits
    <2>2. CASE i \notin 1 .. Len(s)
      <3> DEFINE m == i - Len(s)
      <3>1. m \in 1 .. Len(t) /\ m \in 1 .. Len(t) + 1 /\ i = Len(s) + m
        BY <1>2, <2>2
      <3> HIDE DEF m
      <3>2. u[i] = t[m] /\ (OpenFrom(b, u, i) <=> OpenFrom(c, t, m))
        BY <1>2, <1>7, <3>1
      <3> QED BY <1>2, <3>1, <3>2 DEF Takes, NestedFrom, Fits
    <2> QED BY <2>1, <2>2
  <1>9. OpenThen(b, u) <=> d
    <2>1. Len(t) + 1 \in 1 .. Len(t) + 1 /\ Len(u) + 1 = Len(s) + (Len(t) + 1)
      BY <1>2
    <2>2. OpenFrom(b, u, Len(u) + 1) <=> OpenFrom(c, t, Len(t) + 1)
      BY <1>7, <2>1
    <2> QED BY <2>2 DEF OpenThen, Takes
  <1> QED BY <1>2, <1>4, <1>8, <1>9 DEF u, Takes, NestedFrom

\* What the proxies send.
LEMMA EvTyped ==
  ASSUME NEW k \in Kinds, NEW n \in Nat
  PROVE  Ev(k, n) \in AnyEvent /\ Ev(k, n).kind = k
  BY DEF Ev, AnyEvent

LEMMA EventSent ==
  ASSUME NEW b \in BOOLEAN, NEW c \in BOOLEAN, NEW k \in Kinds, NEW n \in Nat,
         k \in {"start", "thinking", "tool"} => ~b,
         k \in {"content", "thought", "notice", "end"} => b,
         c <=> k \in Opens \/ (b /\ k # "end")
  PROVE  Takes(b, <<Ev(k, n)>>, c) /\ (Told(<<Ev(k, n)>>) <=> k = "error")
  <1>1. Ev(k, n) \in AnyEvent /\ Ev(k, n).kind = k
    BY EvTyped
  <1>2. Fits(Ev(k, n), b)
    BY <1>1 DEF Fits
  <1>3. c <=> Ev(k, n).kind \in Opens \/ (b /\ Ev(k, n).kind # "end")
    BY <1>1
  <1> QED BY <1>1, <1>2, <1>3, TakesOne

LEMMA ErrorSent ==
  ASSUME NEW b \in BOOLEAN PROVE Takes(b, RunError, b) /\ (Told(RunError) <=> suppressed)
  <1>1. CASE suppressed
    BY <1>1, EventSent DEF RunError, Kinds, Opens
  <1>2. CASE ~suppressed
    BY <1>2, TakesNone DEF RunError
  <1> QED BY <1>1, <1>2

LEMMA OpeningSent ==
  ASSUME open \in BOOLEAN PROVE Takes(open, Opening, TRUE) /\ ~Told(Opening)
  <1>1. CASE ~open
    BY <1>1, EventSent DEF Opening, Kinds, Opens
  <1>2. CASE open
    BY <1>2, TakesNone DEF Opening
  <1> QED BY <1>1, <1>2

LEMMA ClosingSent ==
  ASSUME open \in BOOLEAN PROVE Takes(open, Closing, FALSE) /\ ~Told(Closing)
  <1>1. CASE open
    BY <1>1, EventSent DEF Closing, Kinds, Opens
  <1>2. CASE ~open
    BY <1>2, TakesNone DEF Closing
  <1> QED BY <1>1, <1>2

LEMMA TextSent ==
  ASSUME open \in BOOLEAN, NEW n \in Nat
  PROVE  /\ Takes(open, Opening \o <<Ev("content", n)>>, TRUE)
         /\ ~Told(Opening \o <<Ev("content", n)>>)
  <1>1. Takes(TRUE, <<Ev("content", n)>>, TRUE) /\ ~Told(<<Ev("content", n)>>)
    BY EventSent DEF Kinds, Opens
  <1> QED BY <1>1, OpeningSent, TakesBoth

\* A message of its own, be it a thought, one of the proxy's notices or all
\* there is of a document.
LEMMA MessageSent ==
  ASSUME NEW b \in BOOLEAN, NEW first \in Opens, first \in {"start", "thinking"} => ~b,
         NEW then \in {"content", "thought", "notice"}, NEW n \in Nat
  PROVE  /\ Takes(b, <<Ev(first, 0), Ev(then, n), Ev("end", 0)>>, FALSE)
         /\ ~Told(<<Ev(first, 0), Ev(then, n), Ev("end", 0)>>)
  <1> DEFINE e1 == Ev(first, 0)  e2 == Ev(then, n)  e3 == Ev("end", 0)
  <1>1. Takes(b, <<e1>>, TRUE) /\ ~Told(<<e1>>)
    BY EventSent DEF Kinds, Opens
  <1>2. Takes(TRUE, <<e2>>, TRUE) /\ ~Told(<<e2>>)
    BY EventSent DEF Kinds, Opens
  <1>3. Takes(TRUE, <<e3>>, FALSE) /\ ~Told(<<e3>>)
    BY EventSent DEF Kinds, Opens
  <1>0. e1 \in AnyEvent /\ e2 \in AnyEvent /\ e3 \in AnyEvent
    BY EvTyped DEF Kinds, Opens
  <1> HIDE DEF e1, e2, e3
  <1>4. Takes(b, <<e1>> \o <<e2>>, TRUE) /\ ~Told(<<e1>> \o <<e2>>)
    BY <1>1, <1>2, TakesBoth
  <1>5. Takes(b, (<<e1>> \o <<e2>>) \o <<e3>>, FALSE) /\ ~Told((<<e1>> \o <<e2>>) \o <<e3>>)
    BY <1>3, <1>4, TakesBoth
  <1>6. (<<e1>> \o <<e2>>) \o <<e3>> = <<e1, e2, e3>>
    <2> DEFINE l == (<<e1>> \o <<e2>>) \o <<e3>>  r == <<e1, e2, e3>>
    <2>1. r \in Seq(AnyEvent) /\ Len(r) = 3 /\ r[1] = e1 /\ r[2] = e2 /\ r[3] = e3
      BY <1>0
    <2>2. l \in Seq(AnyEvent) /\ Len(l) = 3 /\ l[1] = e1 /\ l[2] = e2 /\ l[3] = e3
      <3> DEFINE a == <<e1>>  b2 == <<e2>>  d == <<e3>>
      <3>1. /\ a \in Seq(AnyEvent) /\ b2 \in Seq(AnyEvent) /\ d \in Seq(AnyEvent)
            /\ Len(a) = 1 /\ Len(b2) = 1 /\ Len(d) = 1 /\ a[1] = e1 /\ b2[1] = e2 /\ d[1] = e3
        BY <1>0
      <3> HIDE DEF a, b2, d
      <3>2. /\ a \o b2 \in Seq(AnyEvent) /\ Len(a \o b2) = 2
            /\ (a \o b2)[1] = e1 /\ (a \o b2)[2] = e2
        <4>1. /\ a \o b2 \in Seq(AnyEvent) /\ Len(a \o b2) = Len(a) + Len(b2)
              /\ \A i \in 1 .. Len(a) + Len(b2) :
                   (a \o b2)[i] = IF i <= Len(a) THEN a[i] ELSE b2[i - Len(a)]
          BY <3>1, ConcatProperties
        <4> QED BY <3>1, <4>1
      <3> DEFINE ab == a \o b2
      <3> HIDE DEF ab
      <3>3. /\ ab \o d \in Seq(AnyEvent) /\ Len(ab \o d) = 3
            /\ (ab \o d)[1] = e1 /\ (ab \o d)[2] = e2 /\ (ab \o d)[3] = e3
        BY <3>1, <3>2, ConcatProperties DEF ab
      <3> QED BY <3>3 DEF ab, a, b2, d
    <2> HIDE DEF l, r
    <2>3. \A i \in 1 .. Len(l) : l[i] = r[i]
      BY <2>1, <2>2
    <2>4. l = r
      BY <2>1, <2>2, <2>3, SeqEqual
    <2> QED BY <2>4 DEF l, r
  <1> QED BY <1>5, <1>6 DEF e1, e2, e3

LEMMA ThoughtSent ==
  ASSUME open \in BOOLEAN, NEW n \in Nat
  PROVE  LET es == Closing \o <<Ev("thinking", 0), Ev("thought", n), Ev("end", 0)>>
         IN  Takes(open, es, FALSE) /\ ~Told(es)
  <1> DEFINE message == <<Ev("thinking", 0), Ev("thought", n), Ev("end", 0)>>
  <1>1. Takes(FALSE, message, FALSE) /\ ~Told(message)
    BY MessageSent DEF Opens
  <1> HIDE DEF message
  <1>2. Takes(open, Closing \o message, FALSE) /\ ~Told(Closing \o message)
    BY <1>1, ClosingSent, TakesBoth
  <1> QED BY <1>2 DEF message

LEMMA CallSent ==
  ASSUME open \in BOOLEAN, NEW n \in Nat
  PROVE  /\ Takes(open, Closing \o <<Ev("tool", n)>>, FALSE)
         /\ ~Told(Closing \o <<Ev("tool", n)>>)
  <1>1. Takes(FALSE, <<Ev("tool", n)>>, FALSE) /\ ~Told(<<Ev("tool", n)>>)
    BY EventSent DEF Kinds, Opens
  <1> QED BY <1>1, ClosingSent, TakesBoth

\* An answer or a chart may come within a message.
LEMMA AsideSent ==
  ASSUME NEW b \in BOOLEAN, NEW kind \in {"answer", "chart"}, NEW n \in Nat
  PROVE  Takes(b, <<Ev(kind, n)>>, b) /\ ~Told(<<Ev(kind, n)>>)
  BY EventSent DEF Kinds, Opens

LEMMA EndingSent ==
  ASSUME open \in BOOLEAN
  PROVE  /\ Takes(open, Closing \o RunError, FALSE) /\ (Told(Closing \o RunError) <=> suppressed)
         /\ Takes(open, RunError \o Closing, FALSE) /\ (Told(RunError \o Closing) <=> suppressed)
  BY ClosingSent, ErrorSent, TakesBoth

LEMMA NoticeSent ==
  ASSUME NEW b \in BOOLEAN, NEW kind \in {"rotation", "again"}
  PROVE  Takes(b, Notice(kind), FALSE) /\ ~Told(Notice(kind))
  BY MessageSent DEF Notice, Opens

-----------------------------------------------------------------------------
(* What the steps are to the stream. *)

Sends(es) ==
    /\ events' = events \o es
    /\ noticed' \/ clientGone' => noticed \/ clientGone \/ ~connected
Stops(es) ==
    /\ ~connected /\ clientGone'
    /\ \E n \in DOMAIN es : events' = events \o SubSeq(es, 1, n)
InError == failed \/ outcome = "partial"

\* The stream goes on, what is sent being well formed as the writer sees it; ...
GoesAhead ==
    /\ pc = "stream" /\ UNCHANGED <<pc, outcome, failed, connected>>
    /\ \E es \in Seq(AnyEvent), c \in BOOLEAN :
         Takes(open, es, c) /\ ~Told(es) /\ Sends(es) /\ open' = c
\* ... the client of an A2A agent has left; ...
GoesBlind ==
    /\ pc = "stream" /\ UNCHANGED <<pc, outcome, failed, connected>>
    /\ protocol = "a2a" /\ ~connected
    /\ \E es \in Seq(AnyEvent) : ~Told(es) /\ events' = events \o es
\* ... the call ends, and closes its message; ...
EndsClosed ==
    /\ pc \in {"request", "connect", "json", "stream"} /\ pc' = "done" /\ UNCHANGED connected
    /\ \E es \in Seq(AnyEvent) :
         Takes(open, es, FALSE) /\ (Told(es) <=> suppressed /\ InError') /\ Sends(es)
\* ... or leaves it as it was before a summary; ...
EndsLimited ==
    /\ pc = "stream" /\ pc' = "done" /\ UNCHANGED connected /\ limited'
    /\ \E es \in Seq(AnyEvent) :
         Takes(open, es, open) /\ (Told(es) <=> suppressed /\ InError') /\ Sends(es)
SummaryRead ==
    /\ pc = "stream" /\ pc' \in {"rotate", "again"} /\ UNCHANGED <<connected, outcome, failed>>
    /\ protocol = "adk"
    /\ Sends(<<>>)
\* ... or it stops at a write that fails.
StopsShort ==
    /\ pc \in {"stream", "json"} /\ pc' = "done" /\ UNCHANGED connected
    /\ outcome' = "none" /\ failed'
    /\ \E es \in Seq(AnyEvent), c \in BOOLEAN : Takes(open, es, c) /\ ~Told(es) /\ Stops(es)
StreamStep == GoesAhead \/ GoesBlind \/ EndsClosed \/ EndsLimited \/ SummaryRead \/ StopsShort

LEMMA SendFacts ==
  ASSUME NEW es, Send(es) \/ SendBlindly(es) \/ SendAllOf(es)
  PROVE  Sends(es)
  BY DEF Send, SendBlindly, SendAllOf, WriteFails, Sends

LEMMA StopFacts ==
  ASSUME NEW es, NEW n, StopsAt(es, n)
  PROVE  Stops(es)
  BY DEF StopsAt, WriteFails, Stops

LEMMA Numbers ==
  ASSUME StreamTyped
  PROVE  /\ Fresh \in Nat /\ Len(calls) + 1 \in Nat
         /\ DOMAIN calls \subseteq Nat /\ DOMAIN sent \subseteq Nat
         /\ open \in BOOLEAN /\ limited \in BOOLEAN
  BY LenProperties DEF StreamTyped, Fresh

LEMMA RestSteps ==
  ASSUME StreamTyped, RestStep, pc = "stream" PROVE StreamStep
  <1>0. open \in BOOLEAN /\ Fresh \in Nat /\ Len(calls) + 1 \in Nat /\ DOMAIN calls \subseteq Nat
    BY Numbers
  <1> USE <1>0
  <1>1. CASE RestText
    <2> DEFINE es == Opening \o <<Ev("content", Fresh)>>
    <2>1. Takes(open, es, TRUE) /\ ~Told(es)
      BY TextSent
    <2> HIDE DEF es
    <2>2. Send(es)
      BY <1>1 DEF RestText, es
    <2>3. GoesAhead
      BY <1>1, <2>1, <2>2, SendFacts DEF RestText, GoesAhead, Reading, GoesOn, resultVars, SameCall, Takes
    <2> QED BY <2>3 DEF StreamStep
  <1>2. CASE RestStart
    <2>1. Takes(open, Opening, TRUE) /\ ~Told(Opening)
      BY OpeningSent
    <2>2. GoesAhead
      BY <1>2, <2>1, SendFacts DEF RestStart, GoesAhead, Reading, GoesOn, resultVars, SameCall, Takes
    <2> QED BY <2>2 DEF StreamStep
  <1>3. CASE RestTool
    <2> DEFINE es == Closing \o <<Ev("tool", Len(calls) + 1)>>
    <2>1. Takes(open, es, FALSE) /\ ~Told(es)
      BY CallSent
    <2> HIDE DEF es
    <2>2. Send(es)
      BY <1>3 DEF RestTool, es
    <2>3. GoesAhead
      BY <1>3, <2>1, <2>2, SendFacts DEF RestTool, GoesAhead, Reading, GoesOn, resultVars, SameCall, Takes
    <2> QED BY <2>3 DEF StreamStep
  <1>4. CASE RestAnswer
    <2>1. PICK i \in Pending : Send(<<Ev("answer", i)>>)
      BY <1>4 DEF RestAnswer
    <2> DEFINE es == <<Ev("answer", i)>>
    <2>2. Takes(open, es, open) /\ ~Told(es)
      BY AsideSent DEF Pending
    <2> HIDE DEF es
    <2>3. Send(es)
      BY <2>1 DEF es
    <2>4. GoesAhead
      BY <1>4, <2>2, <2>3, SendFacts DEF RestAnswer, GoesAhead, Reading, GoesOn, resultVars, SameCall, Takes
    <2> QED BY <2>4 DEF StreamStep
  <1>5. CASE RestChart
    <2> DEFINE es == <<Ev("chart", Fresh)>>
    <2>2. Takes(open, es, open) /\ ~Told(es)
      BY AsideSent
    <2> HIDE DEF es
    <2>3. Send(es)
      BY <1>5 DEF RestChart, es
    <2>4. GoesAhead
      BY <1>5, <2>2, <2>3, SendFacts DEF RestChart, GoesAhead, Reading, GoesOn, resultVars, SameCall, Takes
    <2> QED BY <2>4 DEF StreamStep
  <1>6. CASE RestEnds
    <2>1. Takes(open, Closing, FALSE) /\ ~Told(Closing)
      BY ClosingSent
    <2>2. EndsClosed
      BY <1>6, <2>1, SendFacts DEF RestEnds, EndsClosed, Reading, Returns, SameCall, InError, Takes
    <2> QED BY <2>2 DEF StreamStep
  <1>7. CASE RestError
    <2> DEFINE es == Closing \o RunError
    <2>1. Takes(open, es, FALSE) /\ (Told(es) <=> suppressed)
      BY EndingSent
    <2> HIDE DEF es
    <2>2. Send(es)
      BY <1>7 DEF RestError, es
    <2>3. EndsClosed
      BY <1>7, <2>1, <2>2, SendFacts DEF RestError, EndsClosed, Reading, Returns, SameCall, InError, Takes
    <2> QED BY <2>3 DEF StreamStep
  <1>8. CASE RestBreaks
    <2> DEFINE es == RunError \o Closing
    <2>1. Takes(open, es, FALSE) /\ (Told(es) <=> suppressed)
      BY EndingSent
    <2> HIDE DEF es
    <2>2. Send(es)
      BY <1>8 DEF RestBreaks, es
    <2>3. EndsClosed
      BY <1>8, <2>1, <2>2, SendFacts DEF RestBreaks, EndsClosed, Reading, Returns, SameCall, InError, Takes
    <2> QED BY <2>3 DEF StreamStep
  <1> QED BY <1>1, <1>2, <1>3, <1>4, <1>5, <1>6, <1>7, <1>8 DEF RestStep, RestDocument

LEMMA A2aSteps ==
  ASSUME StreamTyped, LeftFirst, A2aStep PROVE StreamStep
  <1>0. /\ open \in BOOLEAN /\ Fresh \in Nat /\ Len(calls) + 1 \in Nat /\ DOMAIN calls \subseteq Nat
        /\ pc = "stream" /\ protocol = "a2a" /\ UNCHANGED connected
    BY Numbers DEF A2aStep, A2aText, A2aThought, A2aTool, A2aAnswer, A2aCompletes, A2aFails,
                   Streaming, SameSide
  <1> USE <1>0
  <1>1. CASE A2aText
    <2> DEFINE es == Opening \o <<Ev("content", Fresh)>>
    <2>1. Takes(open, es, TRUE) /\ ~Told(es)
      BY TextSent
    <2> HIDE DEF es
    <2>2. Send(es)
      BY <1>1 DEF A2aText, es
    <2>3. GoesAhead
      BY <1>1, <2>1, <2>2, SendFacts DEF A2aText, GoesAhead, GoesOn, resultVars, Takes
    <2> QED BY <2>3 DEF StreamStep
  <1>2. CASE A2aThought
    <2> DEFINE es == Closing \o <<Ev("thinking", 0), Ev("thought", Fresh), Ev("end", 0)>>
    <2>1. Takes(open, es, FALSE) /\ ~Told(es)
      BY ThoughtSent
    <2>2. UNCHANGED <<pc, outcome, failed>>
      BY <1>2 DEF A2aThought, GoesOn, resultVars
    <2>3. \/ noticed /\ SendAllOf(<<>>)
          \/ SendAllOf(es) /\ open' = FALSE
          \/ \E n \in DOMAIN es : StopsAt(es, n)
      BY <1>2 DEF A2aThought
    <2> HIDE DEF es
    <2>4. CASE noticed /\ SendAllOf(<<>>)
      <3>1. Takes(FALSE, <<>>, FALSE) /\ ~Told(<<>>)
        BY TakesNone
      <3>2. GoesBlind
        BY <2>2, <2>4, <3>1 DEF GoesBlind, LeftFirst, SendAllOf, Takes
      <3> QED BY <3>2 DEF StreamStep
    <2>5. CASE SendAllOf(es) /\ open' = FALSE
      <3>1. GoesAhead
        BY <2>1, <2>2, <2>5, SendFacts DEF GoesAhead, Takes
      <3> QED BY <3>1 DEF StreamStep
    <2>6. CASE \E n \in DOMAIN es : StopsAt(es, n)
      <3>1. PICK n \in DOMAIN es : StopsAt(es, n)
        BY <2>6
      <3> DEFINE sofar == SubSeq(es, 1, n)
      <3>2. sofar \in Seq(AnyEvent) /\ ~Told(sofar)
        BY <2>1, NestedPart DEF Takes
      <3> HIDE DEF sofar
      <3>3. events' = events \o sofar /\ ~connected
        BY <3>1 DEF StopsAt, WriteFails, sofar
      <3>4. GoesBlind
        BY <2>2, <3>2, <3>3 DEF GoesBlind
      <3> QED BY <3>4 DEF StreamStep
    <2> QED BY <2>3, <2>4, <2>5, <2>6
  <1>3. CASE A2aTool
    <2> DEFINE es == Closing \o <<Ev("tool", Len(calls) + 1)>>
    <2>1. Takes(open, es, FALSE) /\ ~Told(es)
      BY CallSent
    <2>2. UNCHANGED <<pc, outcome, failed>> /\ open' = FALSE
      BY <1>3 DEF A2aTool, GoesOn, resultVars
    <2>3. (noticed /\ SendBlindly(<<>>)) \/ SendBlindly(es)
      BY <1>3 DEF A2aTool, Unnoticed
    <2> HIDE DEF es
    <2>4. CASE noticed /\ SendBlindly(<<>>)
      <3>1. Takes(FALSE, <<>>, FALSE) /\ ~Told(<<>>)
        BY TakesNone
      <3>2. GoesBlind
        BY <2>2, <2>4, <3>1 DEF GoesBlind, LeftFirst, SendBlindly, Takes
      <3> QED BY <3>2 DEF StreamStep
    <2>5. CASE SendBlindly(es)
      <3>1. GoesAhead
        BY <2>1, <2>2, <2>5, SendFacts DEF GoesAhead, Takes
      <3> QED BY <3>1 DEF StreamStep
    <2> QED BY <2>3, <2>4, <2>5
  <1>4. CASE A2aAnswer
    <2>1. \E j \in Nat : Unnoticed(<<Ev("answer", j)>>)
      BY <1>4 DEF A2aAnswer, Pending
    <2>2. PICK j \in Nat : Unnoticed(<<Ev("answer", j)>>)
      BY <2>1
    <2> DEFINE es == IF noticed THEN <<>> ELSE <<Ev("answer", j)>>
    <2>3. Takes(open, es, open) /\ ~Told(es)
      BY AsideSent, TakesNone
    <2>4. SendBlindly(es)
      BY <2>2 DEF Unnoticed
    <2> HIDE DEF es
    <2>5. GoesAhead
      BY <1>4, <2>3, <2>4, SendFacts DEF A2aAnswer, GoesAhead, GoesOn, resultVars, Takes
    <2> QED BY <2>5 DEF StreamStep
  <1>5. CASE A2aCompletes
    <2>1. Takes(open, Closing, FALSE) /\ ~Told(Closing)
      BY ClosingSent
    <2>2. EndsClosed
      BY <1>5, <2>1, SendFacts DEF A2aCompletes, EndsClosed, Returns, InError, Takes
    <2> QED BY <2>2 DEF StreamStep
  <1>6. CASE A2aFails
    <2> DEFINE es == Closing \o RunError
    <2>1. Takes(open, es, FALSE) /\ (Told(es) <=> suppressed)
      BY EndingSent
    <2> HIDE DEF es
    <2>2. SendBlindly(es)
      BY <1>6 DEF A2aFails, es
    <2>3. EndsClosed
      BY <1>6, <2>1, <2>2, SendFacts DEF A2aFails, EndsClosed, Returns, InError, Takes
    <2> QED BY <2>3 DEF StreamStep
  <1> QED BY <1>1, <1>2, <1>3, <1>4, <1>5, <1>6 DEF A2aStep

\* A text an ADK agent's proxy shows, or keeps from the client.
LEMMA ShownText ==
  ASSUME StreamTyped, NEW n \in Nat, ShowsText(n), pc = "stream", UNCHANGED connected
  PROVE  GoesAhead
  <1> DEFINE es == Opening \o <<Ev("content", n)>>
  <1>1. open \in BOOLEAN
    BY Numbers
  <1>2. Takes(open, es, TRUE) /\ ~Told(es) /\ Takes(open, <<>>, open) /\ ~Told(<<>>)
    BY <1>1, TextSent, TakesNone
  <1>3. UNCHANGED <<pc, outcome, failed>>
    BY DEF ShowsText, GoesOn, resultVars
  <1>4. (SendAllOf(<<>>) /\ open' = open) \/ (SendAllOf(es) /\ open' = TRUE)
    BY DEF ShowsText
  <1> HIDE DEF es
  <1>5. (Sends(<<>>) /\ open' = open) \/ (Sends(es) /\ open' = TRUE)
    BY <1>4, SendFacts
  <1> QED BY <1>1, <1>2, <1>3, <1>5 DEF GoesAhead, Takes

LEMMA Aborted ==
  ASSUME NEW es, NEW c \in BOOLEAN, Takes(open, es, c), ~Told(es), Aborts(es), pc = "stream",
         UNCHANGED connected
  PROVE  StreamStep
  <1>1. Stops(es)
    BY StopFacts DEF Aborts
  <1>2. StopsShort
    BY <1>1 DEF Aborts, StopsShort, Returns, Takes
  <1> QED BY <1>2 DEF StreamStep

LEMMA Silence ==
  ASSUME open \in BOOLEAN, pc = "stream", SendAllOf(<<>>), UNCHANGED <<connected, open>>, GoesOn
  PROVE  StreamStep
  <1>1. Takes(open, <<>>, open) /\ ~Told(<<>>)
    BY TakesNone
  <1>2. GoesAhead
    BY <1>1, SendFacts DEF GoesAhead, GoesOn, resultVars, Takes
  <1> QED BY <1>2 DEF StreamStep

LEMMA AdkSteps ==
  ASSUME StreamTyped, AdkStep, pc = "stream" PROVE StreamStep
  <1>0. /\ open \in BOOLEAN /\ Fresh \in Nat /\ Len(calls) + 1 \in Nat /\ DOMAIN calls \subseteq Nat
        /\ DOMAIN sent \subseteq Nat /\ limited \in BOOLEAN
        /\ protocol = "adk" /\ UNCHANGED connected
    BY Numbers DEF AdkStep, AdkChunk, AdkWhole, AdkThought, AdkSummary, AdkTool, AdkAnswer,
            AdkError, AdkEnds, AdkBreaks, AdkRotates, AdkRetries, AdkGivesUp, AdkStreaming, SameTurn
  <1> USE <1>0
  <1>1. CASE AdkChunk
    <2> DEFINE es == Opening \o <<Ev("content", Fresh)>>
    <2>1. Takes(open, es, TRUE) /\ ~Told(es)
      BY TextSent
    <2>2. ShowsText(Fresh) \/ Aborts(es)
      BY <1>1 DEF AdkChunk
    <2> HIDE DEF es
    <2> QED BY <2>1, <2>2, ShownText, Aborted DEF StreamStep
  <1>2. CASE AdkWhole
    <2>1. PICK item \in Unstreamed :
            \/ SendAllOf(<<>>) /\ UNCHANGED open /\ GoesOn
            \/ ShowsText(item.of)
            \/ Aborts(Opening \o <<Ev("content", item.of)>>)
      BY <1>2 DEF AdkWhole
    <2>2. item.of \in Nat
      BY DEF Unstreamed, Ev, ChunksSinceTool
    <2> DEFINE es == Opening \o <<Ev("content", item.of)>>
    <2>3. Takes(open, es, TRUE) /\ ~Told(es)
      BY <2>2, TextSent
    <2>4. \/ SendAllOf(<<>>) /\ UNCHANGED open /\ GoesOn
          \/ ShowsText(item.of)
          \/ Aborts(es)
      BY <2>1
    <2> HIDE DEF es
    <2> QED BY <2>2, <2>3, <2>4, ShownText, Aborted, Silence DEF StreamStep
  <1>3. CASE AdkThought
    <2> DEFINE es == Closing \o <<Ev("thinking", 0), Ev("thought", Fresh), Ev("end", 0)>>
    <2>1. Takes(open, es, FALSE) /\ ~Told(es)
      BY ThoughtSent
    <2>2. \/ SendAllOf(<<>>) /\ UNCHANGED open /\ GoesOn
          \/ SendAllOf(es) /\ open' = FALSE /\ GoesOn
          \/ Aborts(es)
      BY <1>3 DEF AdkThought
    <2> HIDE DEF es
    <2>3. SendAllOf(es) /\ open' = FALSE /\ GoesOn => GoesAhead
      BY <2>1, SendFacts DEF GoesAhead, GoesOn, resultVars, Takes
    <2> QED BY <2>1, <2>2, <2>3, Aborted, Silence DEF StreamStep
  <1>4. CASE AdkSummary
    BY <1>4, Silence DEF AdkSummary
  <1>5. CASE AdkTool
    <2> DEFINE es == IF limited THEN <<>> ELSE Closing \o <<Ev("tool", Len(calls) + 1)>>
    <2>1. Takes(open, es, open /\ limited) /\ ~Told(es)
      BY CallSent, TakesNone
    <2>2. (SendAllOf(es) /\ open' = (open /\ limited) /\ GoesOn) \/ Aborts(es)
      BY <1>5 DEF AdkTool
    <2> HIDE DEF es
    <2>3. SendAllOf(es) /\ open' = (open /\ limited) /\ GoesOn => GoesAhead
      BY <2>1, SendFacts DEF GoesAhead, GoesOn, resultVars, Takes
    <2> QED BY <2>1, <2>2, <2>3, Aborted DEF StreamStep
  <1>6. CASE AdkAnswer
    <2>1. \E j \in Nat :
            LET es == IF limited THEN <<>> ELSE <<Ev("answer", j)>>
            IN  (SendAllOf(es) /\ GoesOn /\ UNCHANGED open) \/ Aborts(es)
      BY <1>6 DEF AdkAnswer, Pending
    <2>2. PICK j \in Nat :
            LET es == IF limited THEN <<>> ELSE <<Ev("answer", j)>>
            IN  (SendAllOf(es) /\ GoesOn /\ UNCHANGED open) \/ Aborts(es)
      BY <2>1
    <2> DEFINE es == IF limited THEN <<>> ELSE <<Ev("answer", j)>>
    <2>3. Takes(open, es, open) /\ ~Told(es)
      BY AsideSent, TakesNone
    <2>4. (SendAllOf(es) /\ GoesOn /\ UNCHANGED open) \/ Aborts(es)
      BY <2>2
    <2> HIDE DEF es
    <2>5. SendAllOf(es) /\ UNCHANGED open /\ GoesOn => GoesAhead
      BY <2>3, SendFacts DEF GoesAhead, GoesOn, resultVars, Takes
    <2> QED BY <2>3, <2>4, <2>5, Aborted DEF StreamStep
  <1>7. ASSUME AdkError \/ AdkBreaks PROVE StreamStep
    <2> DEFINE es == (IF limited THEN <<>> ELSE Closing) \o RunError
    <2>1. es = IF limited THEN RunError ELSE Closing \o RunError
      <3>1. RunError \in Seq(AnyEvent)
        BY ErrorSent DEF Takes
      <3> QED BY <3>1, ConcatEmptySeq
    <2>2. Takes(open, es, open /\ limited) /\ (Told(es) <=> suppressed)
      BY <2>1, EndingSent, ErrorSent
    <2>3. SendBlindly(es) /\ pc' = "done" /\ InError' /\ UNCHANGED limited
      BY <1>7 DEF AdkError, AdkBreaks, Returns, InError
    <2> HIDE DEF es
    <2>4. CASE limited
      BY <2>2, <2>3, <2>4, SendFacts DEF EndsLimited, StreamStep, Takes
    <2>5. CASE ~limited
      BY <2>2, <2>3, <2>5, SendFacts DEF EndsClosed, StreamStep, Takes
    <2> QED BY <2>4, <2>5
  <1>8. CASE AdkEnds
    <2> DEFINE es == IF limited THEN <<>> ELSE Closing
    <2>1. Takes(open, es, open /\ limited) /\ ~Told(es)
      BY ClosingSent, TakesNone
    <2>2. SendBlindly(es) /\ UNCHANGED limited
      BY <1>8 DEF AdkEnds
    <2>3. \/ pc' = "done" /\ ~InError'
          \/ limited /\ pc' \in {"rotate", "again"} /\ UNCHANGED <<outcome, failed>>
      BY <1>8 DEF AdkEnds, Returns, resultVars, InError
    <2>4. CASE limited /\ pc' \in {"rotate", "again"} /\ UNCHANGED <<outcome, failed>>
      BY <2>2, <2>4, SendFacts DEF SummaryRead, StreamStep
    <2> HIDE DEF es
    <2>5. CASE limited /\ pc' = "done" /\ ~InError'
      BY <2>1, <2>2, <2>5, SendFacts DEF EndsLimited, StreamStep, Takes
    <2>6. CASE ~limited /\ pc' = "done" /\ ~InError'
      BY <2>1, <2>2, <2>6, SendFacts DEF EndsClosed, StreamStep, Takes
    <2> QED BY <2>3, <2>4, <2>5, <2>6
  <1> QED BY <1>1, <1>2, <1>3, <1>4, <1>5, <1>6, <1>7, <1>8
         DEF AdkStep, AdkRotates, AdkRetries, AdkGivesUp

-----------------------------------------------------------------------------
(* What was sent is well formed, and tells of every error. *)

LEMMA Emitted ==
  ASSUME events \in Seq(AnyEvent), NEW es \in Seq(AnyEvent), events' = events \o es
  PROVE  /\ events' \in Seq(AnyEvent)
         /\ Told(events') <=> Told(events) \/ Told(es)
         /\ NestedIn(events) /\ NestedFrom(OpenEnd(events), es) => NestedIn(events')
         /\ OpenEnd(events') <=> OpenThen(OpenEnd(events), es)
  BY NestedGrows

\* With the writer's flag for what is open.
LEMMA EmittedAs ==
  ASSUME events \in Seq(AnyEvent), NEW b \in BOOLEAN, NEW c \in BOOLEAN, NEW es,
         b <=> OpenEnd(events), Takes(b, es, c), events' = events \o es
  PROVE  /\ NestedIn(events) => NestedIn(events')
         /\ OpenEnd(events') <=> c
  <1>1. OpenEnd(events) \in BOOLEAN
    BY DEF OpenEnd, OpenAt
  <1>2. b = OpenEnd(events)
    BY <1>1
  <1> QED BY <1>2, Emitted DEF Takes

LEMMA EmittedPart ==
  ASSUME events \in Seq(AnyEvent), NEW b \in BOOLEAN, NEW c \in BOOLEAN, NEW es,
         Takes(b, es, c), ~Told(es), Stops(es)
  PROVE  /\ events' \in Seq(AnyEvent)
         /\ Told(events') <=> Told(events)
         /\ (b <=> OpenEnd(events)) /\ NestedIn(events) => NestedIn(events')
  <1>1. PICK n \in DOMAIN es : events' = events \o SubSeq(es, 1, n)
    BY DEF Stops
  <1> DEFINE t == SubSeq(es, 1, n)
  <1>2. t \in Seq(AnyEvent) /\ NestedFrom(b, t) /\ ~Told(t)
    BY NestedPart DEF Takes
  <1> HIDE DEF t
  <1>3. events' = events \o t
    BY <1>1 DEF t
  <1>4. OpenEnd(events) \in BOOLEAN
    BY DEF OpenEnd, OpenAt
  <1>5. (b <=> OpenEnd(events)) => b = OpenEnd(events)
    BY <1>4
  <1> QED BY <1>2, <1>3, <1>5, Emitted

LEMMA StreamStepTells ==
  ASSUME StreamTyped, ErrorsInv, StreamStep, UNCHANGED suppressed
  PROVE  events' \in Seq(AnyEvent) /\ ErrorsInv'
  <1>0. /\ events \in Seq(AnyEvent) /\ ~Told(events) /\ ~failed /\ outcome = "none"
        /\ open \in BOOLEAN /\ suppressed \in BOOLEAN
        /\ pc \in {"request", "connect", "json", "stream"}
    BY DEF StreamTyped, ErrorsInv, ToldLast, StreamStep, GoesAhead, GoesBlind, EndsClosed,
           EndsLimited, SummaryRead, StopsShort
  <1> SUFFICES /\ events' \in Seq(AnyEvent) /\ LeftFirst'
               /\ Told(events') => suppressed /\ pc' = "done" /\ InError'
               /\ pc' = "done" /\ suppressed /\ InError' =>
                      Told(events') \/ (clientGone' /\ outcome' = "none")
               /\ pc' \notin {"refused", "done"} => ~failed' /\ outcome' = "none"
    BY DEF ErrorsInv, ToldLast, InError, Told
  <1>1. CASE GoesAhead
    <2>1. PICK es \in Seq(AnyEvent) : ~Told(es) /\ Sends(es)
      BY <1>1 DEF GoesAhead
    <2> QED BY <1>0, <1>1, <2>1, Emitted DEF GoesAhead, Sends, ErrorsInv, LeftFirst
  <1>2. CASE GoesBlind
    <2>1. PICK es \in Seq(AnyEvent) : ~Told(es) /\ events' = events \o es
      BY <1>2 DEF GoesBlind
    <2> QED BY <1>0, <1>2, <2>1, Emitted DEF GoesBlind, LeftFirst
  <1>3. CASE EndsClosed \/ EndsLimited
    <2>1. PICK es \in Seq(AnyEvent) : (Told(es) <=> suppressed /\ InError') /\ Sends(es)
      BY <1>3 DEF EndsClosed, EndsLimited
    <2>2. pc' = "done" /\ UNCHANGED connected
      BY <1>3 DEF EndsClosed, EndsLimited
    <2> QED BY <1>0, <2>1, <2>2, Emitted DEF Sends, ErrorsInv, LeftFirst
  <1>4. CASE SummaryRead
    <2>1. <<>> \in Seq(AnyEvent) /\ ~Told(<<>>)
      BY TakesNone DEF Takes
    <2> QED BY <1>0, <1>4, <2>1, Emitted DEF SummaryRead, Sends, ErrorsInv, LeftFirst
  <1>5. CASE StopsShort
    <2>1. PICK es \in Seq(AnyEvent) : \E c \in BOOLEAN : Takes(open, es, c) /\ ~Told(es) /\ Stops(es)
      BY <1>5 DEF StopsShort
    <2>2. PICK c \in BOOLEAN : Takes(open, es, c) /\ ~Told(es) /\ Stops(es)
      BY <2>1
    <2>3. events' \in Seq(AnyEvent) /\ ~Told(events')
      BY <1>0, <2>2, EmittedPart
    <2> QED BY <1>5, <2>2, <2>3 DEF StopsShort, Stops, LeftFirst
  <1> QED BY <1>1, <1>2, <1>3, <1>4, <1>5 DEF StreamStep

LEMMA StreamStepNests ==
  ASSUME StreamTyped, ErrorsInv, MessagesKept, StreamStep, UNCHANGED protocol
  PROVE  MessagesKept'
  <1>0. /\ events \in Seq(AnyEvent) /\ open \in BOOLEAN
        /\ pc \in {"request", "connect", "json", "stream"}
        /\ Followed' => Followed
        /\ Followed => NestedIn(events) /\ (open <=> OpenEnd(events))
        /\ ~Followed => ~connected /\ protocol = "a2a"
    <2>1. pc \in {"request", "connect", "json", "stream"} /\ UNCHANGED connected
      BY DEF StreamStep, GoesAhead, GoesBlind, EndsClosed, EndsLimited, SummaryRead, StopsShort
    <2> QED BY <2>1 DEF StreamTyped, MessagesKept, Followed
  <1> SUFFICES /\ Foreign'
               /\ Followed => NestedIn(events')
               /\ Followed /\ pc' \in {"request", "connect", "json", "stream"} =>
                      (open' <=> OpenEnd(events'))
               /\ pc' \in {"request", "connect", "json"} => ~open'
               /\ pc' = "retry" => ~OpenEnd(events')
               /\ pc' = "done" /\ OpenEnd(events') =>
                      \/ ~connected' /\ (protocol # "custom" \/ outcome' = "none")
                      \/ limited'
    BY <1>0 DEF MessagesKept, NestedIn, OpenEnd, OpenAt
  <1>1. CASE GoesAhead
    <2>1. PICK es \in Seq(AnyEvent) :
            \E c \in BOOLEAN : Takes(open, es, c) /\ Sends(es) /\ open' = c
      BY <1>1 DEF GoesAhead
    <2>2. PICK c \in BOOLEAN : Takes(open, es, c) /\ Sends(es) /\ open' = c
      BY <2>1
    <2>3. Followed => (NestedIn(events) => NestedIn(events')) /\ (OpenEnd(events') <=> c)
      BY <1>0, <2>2, EmittedAs DEF Sends
    <2> QED BY <1>0, <1>1, <2>2, <2>3 DEF GoesAhead, Foreign
  <1>2. CASE GoesBlind
    BY <1>0, <1>2 DEF GoesBlind, Followed, Foreign
  <1>3. CASE EndsClosed
    <2>1. PICK es \in Seq(AnyEvent) : Takes(open, es, FALSE) /\ Sends(es)
      BY <1>3 DEF EndsClosed
    <2>2. Followed => (NestedIn(events) => NestedIn(events')) /\ ~OpenEnd(events')
      BY <1>0, <2>1, EmittedAs DEF Sends
    <2> QED BY <1>0, <1>3, <2>2 DEF EndsClosed, Foreign
  <1>4. CASE EndsLimited
    <2>1. PICK es \in Seq(AnyEvent) : Takes(open, es, open) /\ Sends(es)
      BY <1>4 DEF EndsLimited
    <2>2. Followed => (NestedIn(events) => NestedIn(events'))
      BY <1>0, <2>1, EmittedAs DEF Sends
    <2> QED BY <1>0, <1>4, <2>2 DEF EndsLimited, Foreign
  <1>5. CASE SummaryRead
    <2>1. Takes(open, <<>>, open)
      BY <1>0, TakesNone
    <2>2. Followed => (NestedIn(events) => NestedIn(events'))
      BY <1>0, <1>5, <2>1, EmittedAs DEF SummaryRead, Sends
    <2> QED BY <1>0, <1>5, <2>2 DEF SummaryRead, Foreign
  <1>6. CASE StopsShort
    <2>1. PICK es \in Seq(AnyEvent) : \E c \in BOOLEAN : Takes(open, es, c) /\ ~Told(es) /\ Stops(es)
      BY <1>6 DEF StopsShort
    <2>2. PICK c \in BOOLEAN : Takes(open, es, c) /\ ~Told(es) /\ Stops(es)
      BY <2>1
    <2>3. Followed => NestedIn(events')
      BY <1>0, <2>2, EmittedPart
    <2> QED BY <1>0, <1>6, <2>2, <2>3 DEF StopsShort, Stops, Foreign
  <1> QED BY <1>1, <1>2, <1>3, <1>4, <1>5, <1>6 DEF StreamStep

\* Steps before there is a stream, and those that send nothing.
Prepares ==
    /\ pc \in {"request", "connect"} /\ pc' \in {"refused", "connect", "stream", "json"}
    /\ UNCHANGED <<open, connected>>
    /\ pc' = "json" => protocol = "custom"
    /\ pc' # "refused" => UNCHANGED <<outcome, failed>>
    /\ Sends(<<>>)
Rests ==
    /\ UNCHANGED <<events, open, pc, outcome, failed, limited>>
    /\ pc = "done" => UNCHANGED connected
    /\ connected' => connected
    /\ noticed' \/ clientGone' => noticed \/ clientGone \/ ~connected'
    /\ clientGone => clientGone'

LEMMA EmptyMeans ==
  ASSUME events \in Seq(AnyEvent), events' = events \o <<>>
  PROVE  events' = events
  BY ConcatEmptySeq

LEMMA BeforeSteps ==
  ASSUME StreamTyped, MessagesKept,
         \/ MakeRequest \/ RefuseRequest \/ FormatFails \/ ConnectFails \/ BackoffExpires
         \/ Connects
  PROVE  Prepares \/ StreamStep
  <1>0. open = FALSE /\ pc \in {"request", "connect"} /\ UNCHANGED connected
    BY DEF StreamTyped, MessagesKept, MakeRequest, RefuseRequest, FormatFails, ConnectFails,
           BackoffExpires, Connects
  <1>1. events = events \o <<>>
    BY ConcatEmptySeq DEF StreamTyped
  <1>2. Takes(open, RunError, FALSE) /\ (Told(RunError) <=> suppressed)
    BY <1>0, ErrorSent
  <1>3. ASSUME SendBlindly(RunError), Returns("none", TRUE) PROVE StreamStep
    BY <1>0, <1>2, <1>3, SendFacts DEF Returns, EndsClosed, InError, StreamStep, Takes
  <1>4. CASE RefuseRequest \/ BackoffExpires
    BY <1>3, <1>4 DEF RefuseRequest, BackoffExpires
  <1>5. CASE MakeRequest \/ FormatFails
    BY <1>0, <1>1, <1>5 DEF MakeRequest, FormatFails, Prepares, Sends, writerVars, replyVars,
           resultVars, modeVars
  <1>6. CASE ConnectFails
    <2>1. (SendBlindly(<<>>) /\ GoesOn) \/ (SendBlindly(RunError) /\ Returns("none", TRUE))
      BY <1>6 DEF ConnectFails
    <2>2. SendBlindly(<<>>) /\ GoesOn => Prepares
      BY <1>0, <1>6, SendFacts DEF ConnectFails, GoesOn, Prepares, replyVars, resultVars
    <2> QED BY <1>3, <2>1, <2>2
  <1>7. CASE Connects
    <2>1. \/ /\ pc' \in {"stream", "json"} /\ SendBlindly(<<>>) /\ UNCHANGED resultVars
             /\ pc' = "json" => protocol = "custom"
          \/ SendBlindly(RunError) /\ Returns("none", TRUE)
      BY <1>7 DEF Connects
    <2>2. pc' \in {"stream", "json"} /\ SendBlindly(<<>>) /\ UNCHANGED resultVars
          /\ (pc' = "json" => protocol = "custom") => Prepares
      BY <1>0, <1>7, SendFacts DEF Connects, Prepares, replyVars, resultVars
    <2> QED BY <1>3, <2>1, <2>2
  <1> QED BY <1>4, <1>5, <1>6, <1>7

LEMMA DocumentSteps ==
  ASSUME StreamTyped, MessagesKept, RestDocument PROVE StreamStep
  <1>0. open = FALSE /\ pc = "json" /\ UNCHANGED connected
    BY DEF StreamTyped, MessagesKept, RestDocument, SameCall
  <1> DEFINE message == <<Ev("start", 0), Ev("content", 1), Ev("end", 0)>>
  <1>1. Takes(open, message, FALSE) /\ ~Told(message)
    BY <1>0, MessageSent DEF Opens
  <1>2. \/ SendBlindly(RunError) /\ Returns("none", TRUE)
        \/ SendAllOf(message) /\ Returns("whole", FALSE)
        \/ (\E n \in DOMAIN message : StopsAt(message, n)) /\ Returns("none", TRUE)
    BY DEF RestDocument
  <1> HIDE DEF message
  <1>3. CASE SendBlindly(RunError) /\ Returns("none", TRUE)
    <2>1. Takes(open, RunError, FALSE) /\ (Told(RunError) <=> suppressed)
      BY <1>0, ErrorSent
    <2> QED BY <1>0, <1>3, <2>1, SendFacts DEF Returns, EndsClosed, InError, StreamStep, Takes
  <1>4. CASE SendAllOf(message) /\ Returns("whole", FALSE)
    BY <1>0, <1>1, <1>4, SendFacts DEF Returns, EndsClosed, InError, StreamStep, Takes
  <1>5. CASE (\E n \in DOMAIN message : StopsAt(message, n)) /\ Returns("none", TRUE)
    <2>1. Stops(message)
      BY <1>5, StopFacts
    <2> QED BY <1>0, <1>1, <1>5, <2>1 DEF Returns, StopsShort, StreamStep, Takes
  <1> QED BY <1>2, <1>3, <1>4, <1>5

\* The new session of an agent out of context.
LEMMA RotationSteps ==
  ASSUME StreamTyped, ErrorsInv, MessagesKept, AdkRotates \/ AdkRetries \/ AdkGivesUp
  PROVE  events' \in Seq(AnyEvent) /\ ErrorsInv' /\ MessagesKept'
  <1>0. /\ events \in Seq(AnyEvent) /\ ~Told(events) /\ ~failed /\ outcome = "none"
        /\ pc \in {"rotate", "retry", "again"} /\ UNCHANGED <<protocol, suppressed, connected>>
        /\ protocol = "adk" /\ suppressed \in BOOLEAN /\ NestedIn(events) /\ LeftFirst
        /\ OpenEnd(events) \in BOOLEAN
    BY DEF StreamTyped, ErrorsInv, ToldLast, MessagesKept, Foreign, Followed, AdkRotates, AdkRetries,
           AdkGivesUp, SameTurn, modeVars, OpenEnd, OpenAt
  <1> SUFFICES /\ events' \in Seq(AnyEvent) /\ LeftFirst' /\ NestedIn(events')
               /\ Told(events') => suppressed /\ pc' = "done" /\ InError'
               /\ pc' = "done" /\ suppressed /\ InError' =>
                      Told(events') \/ (clientGone' /\ outcome' = "none")
               /\ pc' # "done" => ~failed' /\ outcome' = "none"
               /\ pc' \in {"retry", "stream", "done"}
               /\ pc' = "stream" => ~open' /\ ~OpenEnd(events')
               /\ pc' = "retry" => ~OpenEnd(events')
               /\ pc' = "done" /\ OpenEnd(events') => ~connected
    BY <1>0 DEF ErrorsInv, ToldLast, InError, Told, MessagesKept, Foreign, NestedIn, OpenEnd, OpenAt
  <1>1. ASSUME NEW kind \in {"rotation", "again"}, Sends(Notice(kind))
        PROVE  /\ events' \in Seq(AnyEvent) /\ LeftFirst' /\ NestedIn(events')
               /\ ~Told(events') /\ ~OpenEnd(events')
    <2>1. Takes(OpenEnd(events), Notice(kind), FALSE) /\ ~Told(Notice(kind))
      BY <1>0, NoticeSent
    <2> HIDE DEF Notice
    <2> QED BY <1>0, <1>1, <2>1, Emitted DEF Sends, Takes, LeftFirst
  <1>2. ASSUME NEW kind \in {"rotation", "again"}, Stops(Notice(kind))
        PROVE  /\ events' \in Seq(AnyEvent) /\ LeftFirst' /\ NestedIn(events')
               /\ ~Told(events') /\ ~connected /\ clientGone'
    <2>1. Takes(OpenEnd(events), Notice(kind), FALSE) /\ ~Told(Notice(kind))
      BY <1>0, NoticeSent
    <2>2. Stops(Notice(kind)) /\ ~connected /\ clientGone' /\ LeftFirst'
      BY <1>0, <1>2 DEF Stops, LeftFirst
    <2> QED BY <1>0, <2>1, <2>2, EmittedPart
  <1>3. CASE AdkRotates
    <2>1. \/ Sends(Notice("rotation")) /\ pc' = "retry" /\ UNCHANGED <<outcome, failed>>
          \/ Stops(Notice("rotation")) /\ pc' = "done" /\ outcome' = "none" /\ failed'
      BY <1>3, SendFacts, StopFacts DEF AdkRotates, Aborts, Returns, resultVars
    <2> QED BY <1>0, <1>1, <1>2, <2>1
  <1>4. CASE AdkGivesUp
    <2>1. \/ Sends(Notice("again")) /\ pc' = "done" /\ outcome' = "whole" /\ ~failed'
          \/ Stops(Notice("again")) /\ pc' = "done" /\ outcome' = "none" /\ failed'
      BY <1>4, SendFacts, StopFacts DEF AdkGivesUp, Returns
    <2> QED BY <1>0, <1>1, <1>2, <2>1 DEF InError
  <1>5. CASE AdkRetries
    <2>1. \/ Sends(<<>>) /\ pc' = "stream" /\ open' = FALSE /\ UNCHANGED <<outcome, failed>>
          \/ Sends(RunError) /\ pc' = "done" /\ outcome' = "none" /\ failed'
      BY <1>5, SendFacts DEF AdkRetries, Returns, resultVars
    <2>2. ~OpenEnd(events)
      BY <1>5 DEF AdkRetries, MessagesKept
    <2>3. CASE Sends(<<>>) /\ pc' = "stream" /\ open' = FALSE /\ UNCHANGED <<outcome, failed>>
      <3>1. events' = events
        BY <1>0, <2>3, EmptyMeans DEF Sends
      <3> QED BY <1>0, <2>2, <2>3, <3>1 DEF Sends, LeftFirst
    <2>4. CASE Sends(RunError) /\ pc' = "done" /\ outcome' = "none" /\ failed'
      <3>1. Takes(FALSE, RunError, FALSE) /\ (Told(RunError) <=> suppressed)
        BY ErrorSent
      <3>2. NestedIn(events') /\ ~OpenEnd(events')
        BY <1>0, <2>2, <2>4, <3>1, EmittedAs DEF Sends
      <3> QED BY <1>0, <2>4, <3>1, <3>2, Emitted DEF Sends, LeftFirst, Takes, InError
    <2> QED BY <2>1, <2>3, <2>4
  <1> QED BY <1>3, <1>4, <1>5

LEMMA StillSteps ==
  ASSUME StreamTyped, ErrorsInv, MessagesKept, Prepares \/ Rests, UNCHANGED <<protocol, suppressed>>
  PROVE  events' \in Seq(AnyEvent) /\ ErrorsInv' /\ MessagesKept'
  <1>1. events \in Seq(AnyEvent) /\ events' = events
    BY EmptyMeans DEF StreamTyped, Prepares, Rests, Sends
  <1>2. /\ Told(events') <=> Told(events)
        /\ OpenEnd(events') <=> OpenEnd(events)
        /\ NestedIn(events') <=> NestedIn(events)
    BY <1>1
  <1>3. ErrorsInv'
    <2>1. CASE Prepares
      BY <1>1, <2>1 DEF Prepares, Sends, ErrorsInv, LeftFirst, ToldLast, Told
    <2>2. CASE Rests
      BY <1>1, <2>2 DEF Rests, ErrorsInv, LeftFirst, ToldLast, Told, StreamTyped
    <2> QED BY <2>1, <2>2
  <1>4. MessagesKept'
    <2>1. CASE Prepares
      BY <1>1, <2>1 DEF Prepares, MessagesKept, Foreign, Followed, NestedIn, OpenEnd, OpenAt
    <2>2. CASE Rests
      BY <1>1, <2>2 DEF Rests, MessagesKept, Foreign, Followed, NestedIn, OpenEnd, OpenAt
    <2> QED BY <2>1, <2>2
  <1> QED BY <1>1, <1>3, <1>4

\* Every step of the answer is one of these.
LEMMA StreamKept ==
  ASSUME StreamTyped, ErrorsInv, MessagesKept, [Next]_vars
  PROVE  events' \in Seq(AnyEvent) /\ ErrorsInv' /\ MessagesKept'
  <1>0. UNCHANGED <<protocol, suppressed>>
    BY DEF Next, vars, turnVars, modeVars, MakeRequest, RefuseRequest, FormatFails, ConnectFails,
           BackoffExpires, Connects, Leave, NoticeLeft, RestStep, RestText, RestStart, RestTool,
           RestAnswer, RestChart, RestEnds, RestError, RestBreaks, RestDocument, SameCall,
           A2aStep, A2aText, A2aThought, A2aTool, A2aAnswer, A2aCompletes, A2aFails, SameSide,
           AdkStep, AdkChunk, AdkWhole, AdkThought, AdkSummary, AdkTool, AdkAnswer, AdkError,
           AdkEnds, AdkBreaks, AdkRotates, AdkRetries, AdkGivesUp, SameTurn
  <1>1. CASE \/ MakeRequest \/ RefuseRequest \/ FormatFails \/ ConnectFails \/ BackoffExpires
             \/ Connects
    BY <1>0, <1>1, BeforeSteps, StillSteps, StreamStepTells, StreamStepNests
  <1>2. CASE (Leave \/ NoticeLeft \/ UNCHANGED turnVars) /\ UNCHANGED adkVars
    <2>1. Rests
      BY <1>2 DEF Leave, NoticeLeft, turnVars, adkVars, writerVars, replyVars, resultVars, Rests,
                  StreamTyped
    <2> QED BY <1>0, <2>1, StillSteps
  <1>3. CASE RestStep
    <2>1. CASE RestDocument
      BY <1>0, <2>1, DocumentSteps, StreamStepTells, StreamStepNests
    <2>2. CASE ~RestDocument
      <3>1. pc = "stream"
        BY <1>3, <2>2 DEF RestStep, RestText, RestStart, RestTool, RestAnswer, RestChart, RestEnds,
                          RestError, RestBreaks, Reading
      <3> QED BY <1>0, <1>3, <3>1, RestSteps, StreamStepTells, StreamStepNests
    <2> QED BY <2>1, <2>2
  <1>4. CASE A2aStep
    BY <1>0, <1>4, A2aSteps, StreamStepTells, StreamStepNests DEF ErrorsInv
  <1>5. CASE AdkStep
    <2>1. CASE AdkRotates \/ AdkRetries \/ AdkGivesUp
      BY <2>1, RotationSteps
    <2>2. CASE ~(AdkRotates \/ AdkRetries \/ AdkGivesUp)
      <3>1. pc = "stream"
        BY <1>5, <2>2 DEF AdkStep, AdkChunk, AdkWhole, AdkThought, AdkSummary, AdkTool, AdkAnswer,
                          AdkError, AdkEnds, AdkBreaks, AdkStreaming
      <3> QED BY <1>0, <1>5, <3>1, AdkSteps, StreamStepTells, StreamStepNests
    <2> QED BY <2>1, <2>2
  <1> QED BY <1>1, <1>2, <1>3, <1>4, <1>5 DEF Next, vars

-----------------------------------------------------------------------------
(* An answer goes to its own call. *)

\* What a step is to the agent's conversation with its tools.
Talks(k, n) == sent' = Append(sent, Ev(k, n))
AsksTool == \E name \in Names :
    /\ calls' = Append(calls, [name |-> name, answer |-> 0])
    /\ Talks("tool", Len(calls) + 1)
Answering == \E i \in Pending : \E j \in DOMAIN calls :
    /\ Talks("answer", i)
    /\ calls' = [calls EXCEPT ![j].answer = i]
    /\ j = i \/ (calls[j].name = calls[i].name /\ calls[j].answer = 0)
Unmatched == \E i \in Pending :
    /\ Talks("answer", i) /\ UNCHANGED calls
    /\ pc' = "done" \/ calls[i].answer # 0
AskedInVain == Talks("tool", Len(calls) + 1) /\ UNCHANGED calls /\ pc' = "done"
Speaks == \E k \in SentKinds \ {"tool", "answer"}, n \in Nat : Talks(k, n) /\ UNCHANGED calls
Forgotten == sent' = <<>> /\ calls' = <<>>
Conversation ==
    \/ UNCHANGED <<sent, calls>>
    \/ AsksTool \/ Answering \/ Unmatched \/ AskedInVain \/ Speaks \/ Forgotten

LEMMA RestTalks ==
  ASSUME StreamTyped, RestStep PROVE Conversation
  <1>0. Fresh \in Nat
    BY Numbers
  <1>1. CASE RestText \/ RestStart \/ RestChart \/ RestDocument
    BY <1>0, <1>1 DEF RestText, RestStart, RestChart, RestDocument, Says, Captures, SameReply, Speaks,
         Talks, Conversation, SentKinds, replyVars
  <1>2. CASE RestTool
    BY <1>2 DEF RestTool, CallsTool, Says, CapturesCall, AsksTool, Talks, Conversation
  <1>3. CASE RestAnswer
    BY <1>3 DEF RestAnswer, Says, Answers, Answering, Talks, Conversation, Pending
  <1>4. CASE RestEnds \/ RestError \/ RestBreaks
    BY <1>4 DEF RestEnds, RestError, RestBreaks, Flush, replyVars, Conversation
  <1> QED BY <1>1, <1>2, <1>3, <1>4 DEF RestStep

LEMMA A2aTalks ==
  ASSUME StreamTyped, A2aStep PROVE Conversation
  <1>0. Fresh \in Nat
    BY Numbers
  <1>1. CASE A2aText \/ A2aThought
    BY <1>0, <1>1 DEF A2aText, A2aThought, Says, Captures, SameReply, Speaks, Talks, Conversation,
         SentKinds
  <1>2. CASE A2aTool
    BY <1>2 DEF A2aTool, CallsTool, Says, CapturesCall, AsksTool, Talks, Conversation
  <1>3. CASE A2aAnswer
    <2>1. PICK i \in Pending :
            /\ Talks("answer", i)
            /\ \/ \E j \in {i} \cup {j \in DOMAIN calls : calls[j].name = calls[i].name
                                                         /\ calls[j].answer = 0} : Answers(j, i)
               \/ /\ {j \in DOMAIN calls : calls[j].name = calls[i].name /\ calls[j].answer = 0} = {}
                  /\ SameReply
      BY <1>3 DEF A2aAnswer, Says, Talks
    <2> QED BY <2>1 DEF Answers, SameReply, Answering, Unmatched, Conversation, Pending
  <1>4. CASE A2aCompletes \/ A2aFails
    BY <1>4 DEF A2aCompletes, A2aFails, Flush, replyVars, Conversation
  <1> QED BY <1>1, <1>2, <1>3, <1>4 DEF A2aStep

LEMMA AdkTalks ==
  ASSUME StreamTyped, AdkStep PROVE Conversation
  <1>0. Fresh \in Nat /\ DOMAIN sent \subseteq Nat
    BY Numbers
  <1>1. CASE AdkChunk
    BY <1>0, <1>1 DEF AdkChunk, ShowsText, Aborts, Says, Captures, SameReply, Speaks, Talks,
         Conversation, SentKinds, replyVars
  <1>2. CASE AdkWhole
    <2>1. PICK item \in Unstreamed : Talks(item.kind, item.of) /\ UNCHANGED calls
      BY <1>2 DEF AdkWhole, ShowsText, Aborts, Says, Captures, SameReply, replyVars, Talks
    <2>2. item.kind \in SentKinds \ {"tool", "answer"} /\ item.of \in Nat
      BY <1>0 DEF Unstreamed, Ev, ChunksSinceTool, SentKinds
    <2> QED BY <2>1, <2>2 DEF Speaks, Conversation
  <1>3. CASE AdkThought \/ AdkSummary
    BY <1>0, <1>3 DEF AdkThought, AdkSummary, Aborts, Says, SameReply, Speaks, Talks,
         Conversation, SentKinds, replyVars
  <1>4. CASE AdkTool
    BY <1>4 DEF AdkTool, CallsTool, Says, CapturesCall, Aborts, Returns, replyVars, AsksTool,
         AskedInVain, Talks, Conversation
  <1>5. CASE AdkAnswer
    <2>1. PICK i \in Pending :
            /\ Talks("answer", i)
            /\ \/ \E j \in {i} \cup {j \in DOMAIN calls : calls[j].name = calls[i].name
                                                         /\ calls[j].answer = 0} : Answers(j, i)
               \/ /\ {j \in DOMAIN calls : calls[j].name = calls[i].name /\ calls[j].answer = 0} = {}
                  /\ SameReply
               \/ pc' = "done" /\ UNCHANGED calls
      BY <1>5 DEF AdkAnswer, Says, Talks, Aborts, Returns, replyVars
    <2> QED BY <2>1 DEF Answers, SameReply, Answering, Unmatched, Conversation, Pending
  <1>6. CASE AdkError \/ AdkEnds \/ AdkBreaks \/ AdkRotates \/ AdkRetries \/ AdkGivesUp
    BY <1>6 DEF AdkError, AdkEnds, AdkBreaks, AdkRotates, AdkRetries, AdkGivesUp, Flush, Aborts,
         replyVars, Conversation, Forgotten
  <1> QED BY <1>1, <1>2, <1>3, <1>4, <1>5, <1>6 DEF AdkStep

LEMMA StepTalks ==
  ASSUME StreamTyped, [Next]_vars PROVE Conversation
  <1>1. CASE RestStep \/ A2aStep \/ AdkStep
    BY <1>1, RestTalks, A2aTalks, AdkTalks
  <1>2. CASE ~(RestStep \/ A2aStep \/ AdkStep)
    BY <1>2 DEF Next, vars, turnVars, MakeRequest, RefuseRequest, FormatFails, ConnectFails,
         BackoffExpires, Connects, Leave, NoticeLeft, replyVars, Conversation
  <1> QED BY <1>1, <1>2

LEMMA TalkFacts ==
  ASSUME sent \in Seq(AnySent), NEW k \in SentKinds, NEW n \in Nat, Talks(k, n)
  PROVE  /\ sent' \in Seq(AnySent)
         /\ DOMAIN sent = 1 .. Len(sent) /\ DOMAIN sent' = 1 .. Len(sent) + 1 /\ Len(sent) \in Nat
         /\ \A m \in DOMAIN sent : sent'[m] = sent[m]
         /\ sent'[Len(sent) + 1] = Ev(k, n)
  <1>1. Ev(k, n) \in AnySent
    BY DEF Ev, AnySent
  <1> QED BY <1>1, AppendProperties, LenProperties DEF Talks

LEMMA AnsweredThen ==
  ASSUME sent \in Seq(AnySent), NEW k \in SentKinds, NEW n \in Nat, Talks(k, n), NEW i
  PROVE  Answered(i)' <=> Answered(i) \/ (k = "answer" /\ i = n)
  <1>1. Ev(k, n) = Ev("answer", i) <=> k = "answer" /\ i = n
    BY DEF Ev
  <1> QED BY <1>1, TalkFacts DEF Answered

\* Calls that overlap do so for good.
LEMMA ApartBefore ==
  ASSUME sent \in Seq(AnySent), calls \in Seq(AnyCall), NEW k \in SentKinds, NEW n \in Nat,
         Talks(k, n), k = "tool" => n = Len(calls) + 1,
         \A i \in DOMAIN calls : i \in DOMAIN calls' /\ calls'[i].name = calls[i].name,
         Apart'
  PROVE  Apart
  <1> SUFFICES ASSUME NEW i \in DOMAIN calls, NEW j \in DOMAIN calls, Overlapping(i, j)
               PROVE  FALSE
    BY DEF Apart
  <1>1. /\ i < j /\ calls'[i].name = calls'[j].name /\ i \in DOMAIN calls' /\ j \in DOMAIN calls'
        /\ ~\E x, l \in DOMAIN sent : x < l /\ sent[x] = Ev("answer", i) /\ sent[l] = Ev("tool", j)
    BY DEF Overlapping
  <1>2. PICK x \in DOMAIN sent', l \in DOMAIN sent' :
          x < l /\ sent'[x] = Ev("answer", i) /\ sent'[l] = Ev("tool", j)
    BY <1>1 DEF Apart, Overlapping
  <1>3. /\ DOMAIN sent = 1 .. Len(sent) /\ DOMAIN sent' = 1 .. Len(sent) + 1 /\ Len(sent) \in Nat
        /\ \A m \in DOMAIN sent : sent'[m] = sent[m]
        /\ sent'[Len(sent) + 1] = Ev(k, n)
    BY TalkFacts
  <1>4. x \in DOMAIN sent
    BY <1>2, <1>3
  <1>5. CASE l \in DOMAIN sent
    BY <1>1, <1>2, <1>3, <1>4, <1>5
  <1>6. CASE l = Len(sent) + 1
    <2>1. k = "tool" /\ n = j
      BY <1>2, <1>3, <1>6 DEF Ev
    <2>2. j \in 1 .. Len(calls) /\ Len(calls) \in Nat
      BY LenProperties
    <2> QED BY <2>1, <2>2
  <1> QED BY <1>2, <1>3, <1>5, <1>6

LEMMA CallsTyped ==
  ASSUME StreamTyped, Conversation
  PROVE  sent' \in Seq(AnySent) /\ calls' \in Seq(AnyCall)
  <1>0. /\ sent \in Seq(AnySent) /\ calls \in Seq(AnyCall) /\ Len(calls) + 1 \in Nat
        /\ DOMAIN calls \subseteq Nat
    BY Numbers DEF StreamTyped
  <1>1. CASE UNCHANGED <<sent, calls>>
    BY <1>0, <1>1
  <1>2. CASE AsksTool
    <2>1. PICK name \in Names : calls' = Append(calls, [name |-> name, answer |-> 0])
      BY <1>2 DEF AsksTool
    <2>2. [name |-> name, answer |-> 0] \in AnyCall
      BY DEF AnyCall
    <2>3. calls' \in Seq(AnyCall)
      BY <1>0, <2>1, <2>2, AppendProperties
    <2> QED BY <1>0, <1>2, <2>3, TalkFacts DEF AsksTool, SentKinds
  <1>3. CASE Answering
    <2>1. PICK i \in Pending : \E j \in DOMAIN calls :
            Talks("answer", i) /\ calls' = [calls EXCEPT ![j].answer = i]
      BY <1>3 DEF Answering
    <2>2. PICK j \in DOMAIN calls :
            Talks("answer", i) /\ calls' = [calls EXCEPT ![j].answer = i]
      BY <2>1
    <2>3. i \in Nat
      BY <1>0 DEF Pending
    <2>4. [calls[j] EXCEPT !.answer = i] \in AnyCall
      <3>1. calls[j] \in AnyCall
        BY <1>0
      <3> QED BY <2>3, <3>1 DEF AnyCall
    <2>5. calls' \in Seq(AnyCall)
      BY <1>0, <2>2, <2>4, ExceptSeq
    <2> QED BY <1>0, <2>2, <2>3, <2>5, TalkFacts DEF SentKinds
  <1>4. CASE Unmatched \/ AskedInVain \/ Speaks
    BY <1>0, <1>4, TalkFacts DEF Unmatched, AskedInVain, Speaks, Pending, SentKinds
  <1>5. CASE Forgotten
    BY <1>5 DEF Forgotten
  <1> QED BY <1>1, <1>2, <1>3, <1>4, <1>5 DEF Conversation

\* Under the exception, an answer finds its own call.
LEMMA OwnCall ==
  ASSUME StreamTyped, ResultsInv, pc # "done", Apart, Apart',
         NEW i \in Pending, NEW j \in DOMAIN calls, Talks("answer", i),
         calls' = [calls EXCEPT ![j].answer = i],
         calls[j].name = calls[i].name, calls[j].answer = 0
  PROVE  j = i
  <1>0. /\ sent \in Seq(AnySent) /\ calls \in Seq(AnyCall) /\ DOMAIN calls \subseteq Nat
        /\ i \in DOMAIN calls /\ i \in Nat /\ ~Answered(i)
    BY Numbers DEF StreamTyped, Pending, Answered
  <1>1. DOMAIN calls' = DOMAIN calls /\ \A m \in DOMAIN calls : calls'[m].name = calls[m].name
    <2>1. \A m \in DOMAIN calls : calls[m] \in AnyCall
      BY <1>0
    <2> QED BY <2>1 DEF AnyCall
  <1>2. /\ DOMAIN sent = 1 .. Len(sent) /\ DOMAIN sent' = 1 .. Len(sent) + 1 /\ Len(sent) \in Nat
        /\ \A m \in DOMAIN sent : sent'[m] = sent[m]
        /\ sent'[Len(sent) + 1] = Ev("answer", i)
    BY <1>0, TalkFacts DEF SentKinds
  <1>3. ASSUME NEW a \in DOMAIN calls, NEW b \in DOMAIN calls, a < b, calls[a].name = calls[b].name
        PROVE  Answered(a)
    <2>1. ~Overlapping(a, b)'
      BY <1>1 DEF Apart
    <2>2. PICK x \in DOMAIN sent', l \in DOMAIN sent' :
            x < l /\ sent'[x] = Ev("answer", a) /\ sent'[l] = Ev("tool", b)
      BY <1>1, <1>3, <2>1 DEF Overlapping
    <2>3. x \in DOMAIN sent
      BY <1>2, <2>2
    <2> QED BY <1>2, <2>2, <2>3 DEF Answered
  <1>4. j < i => FALSE
    <2>1. j \in DOMAIN calls /\ j # 0
      BY <1>0, LenProperties
    <2> QED BY <1>0, <1>3, <2>1 DEF ResultsInv
  <1>5. i < j => FALSE
    BY <1>0, <1>3
  <1> QED BY <1>0, <1>4, <1>5

LEMMA CallAsked ==
  ASSUME NEW s \in Seq(AnyCall), NEW call \in AnyCall
  PROVE  /\ DOMAIN Append(s, call) = 1 .. Len(s) + 1
         /\ \A i \in DOMAIN s : Append(s, call)[i] = s[i]
         /\ Append(s, call)[Len(s) + 1] = call
  <1>1. Append(s, call) \in Seq(AnyCall) /\ Len(Append(s, call)) = Len(s) + 1
    BY AppendProperties
  <1>2. DOMAIN Append(s, call) = 1 .. Len(s) + 1
    BY <1>1, LenProperties
  <1>3. \A i \in DOMAIN s : Append(s, call)[i] = s[i]
    BY AppendProperties, LenProperties
  <1>4. Append(s, call)[Len(s) + 1] = call
    BY AppendProperties
  <1> QED BY <1>2, <1>3, <1>4

LEMMA ResultsStep ==
  ASSUME StreamTyped, ResultsInv, Conversation, pc = "done" => pc' = "done" /\ UNCHANGED <<sent, calls>>
  PROVE  ResultsInv'
  <1>0. /\ sent \in Seq(AnySent) /\ calls \in Seq(AnyCall) /\ Len(calls) + 1 \in Nat
        /\ DOMAIN calls \subseteq Nat /\ DOMAIN calls = 1 .. Len(calls) /\ Len(calls) \in Nat
    BY Numbers, LenProperties DEF StreamTyped
  <1>1. CASE UNCHANGED <<sent, calls>>
    <2>1. (\A i : Answered(i)' <=> Answered(i)) /\ (Apart' <=> Apart)
      BY <1>1 DEF Answered, Apart, Overlapping
    <2> QED BY <1>1, <2>1 DEF ResultsInv
  <1>2. CASE AsksTool
    <2>1. PICK name \in Names : calls' = Append(calls, [name |-> name, answer |-> 0])
      BY <1>2 DEF AsksTool
    <2> DEFINE new == Len(calls) + 1
    <2>2. [name |-> name, answer |-> 0] \in AnyCall
      BY DEF AnyCall
    <2>3. /\ DOMAIN calls' = 1 .. new
          /\ \A i \in DOMAIN calls : calls'[i] = calls[i]
          /\ calls'[new] = [name |-> name, answer |-> 0]
      BY <1>0, <2>1, <2>2, CallAsked
    <2>4. Talks("tool", new)
      BY <1>2 DEF AsksTool
    <2>5. \A i : Answered(i)' <=> Answered(i)
      BY <1>0, <2>4, AnsweredThen DEF SentKinds
    <2>6. Apart' => Apart
      BY <1>0, <2>3, <2>4, ApartBefore DEF SentKinds
    <2>7. ~Answered(new) /\ new \notin DOMAIN calls /\ DOMAIN calls' = DOMAIN calls \cup {new}
      BY <1>0, <2>3 DEF ResultsInv
    <2>8. calls'[new].answer = 0
      BY <2>3
    <2> HIDE DEF new
    <2>9. pc' # "done" => pc # "done"
      OBVIOUS
    <2> QED BY <2>3, <2>5, <2>6, <2>7, <2>8, <2>9 DEF ResultsInv
  <1>3. CASE Answering
    <2>1. PICK i \in Pending : \E j \in DOMAIN calls :
            /\ Talks("answer", i) /\ calls' = [calls EXCEPT ![j].answer = i]
            /\ j = i \/ (calls[j].name = calls[i].name /\ calls[j].answer = 0)
      BY <1>3 DEF Answering
    <2>2. PICK j \in DOMAIN calls :
            /\ Talks("answer", i) /\ calls' = [calls EXCEPT ![j].answer = i]
            /\ j = i \/ (calls[j].name = calls[i].name /\ calls[j].answer = 0)
      BY <2>1
    <2>3. i \in Nat /\ i \in DOMAIN calls /\ ~Answered(i)
      BY <1>0 DEF Pending, Answered
    <2>4. \A m : Answered(m)' <=> Answered(m) \/ m = i
      BY <1>0, <2>2, <2>3, AnsweredThen DEF SentKinds
    <2>5. DOMAIN calls' = DOMAIN calls /\ \A m \in DOMAIN calls : calls'[m].name = calls[m].name
      <3>1. \A m \in DOMAIN calls : calls[m] \in AnyCall
        BY <1>0
      <3> QED BY <2>2, <3>1 DEF AnyCall
    <2>6. Apart' => Apart
      BY <1>0, <2>2, <2>3, <2>5, ApartBefore DEF SentKinds
    <2>7. pc # "done"
      <3>1. sent' # sent
        BY <1>0, <2>2, <2>3, TalkFacts DEF SentKinds
      <3> QED BY <3>1
    <2>8. Apart' => j = i
      BY <2>2, <2>6, <2>7, OwnCall
    <2>9. j = i => calls'[i].answer = i /\ \A m \in DOMAIN calls \ {i} : calls'[m] = calls[m]
      <3>1. calls[i] \in AnyCall
        BY <1>0, <2>3
      <3> QED BY <2>2, <2>3, <3>1 DEF AnyCall
    <2> QED BY <2>3, <2>4, <2>5, <2>6, <2>7, <2>8, <2>9 DEF ResultsInv
  <1>4. ASSUME NEW k \in SentKinds, NEW n \in Nat, Talks(k, n), UNCHANGED calls,
               k = "tool" => n = Len(calls) + 1,
               k = "answer" => n \in DOMAIN calls /\ (pc' = "done" \/ calls[n].answer # 0)
        PROVE  ResultsInv'
    <2>1. \A m : Answered(m)' <=> Answered(m) \/ (k = "answer" /\ m = n)
      BY <1>0, <1>4, AnsweredThen
    <2>2. Apart' => Apart
      BY <1>0, <1>4, ApartBefore
    <2> QED BY <1>4, <2>1, <2>2 DEF ResultsInv
  <1>5. CASE Unmatched
    <2>1. PICK i \in Pending : /\ Talks("answer", i) /\ UNCHANGED calls
                               /\ pc' = "done" \/ calls[i].answer # 0
      BY <1>5 DEF Unmatched
    <2>2. i \in Nat /\ i \in DOMAIN calls
      BY <1>0 DEF Pending
    <2> QED BY <1>4, <2>1, <2>2 DEF SentKinds
  <1>6. CASE AskedInVain
    BY <1>0, <1>4, <1>6 DEF AskedInVain, SentKinds
  <1>7. CASE Speaks
    BY <1>4, <1>7 DEF Speaks
  <1>8. CASE Forgotten
    BY <1>8 DEF Forgotten, ResultsInv, Answered
  <1> QED BY <1>1, <1>2, <1>3, <1>5, <1>6, <1>7, <1>8 DEF Conversation

\* What is left of the types.
Flags ==
    /\ protocol \in Protocols /\ suppressed \in BOOLEAN
    /\ pc \in {"request", "connect", "stream", "json", "rotate", "retry", "again",
              "refused", "done"}
    /\ outcome \in {"none", "whole", "partial"}
    /\ connected \in BOOLEAN /\ noticed \in BOOLEAN /\ clientGone \in BOOLEAN
    /\ failed \in BOOLEAN /\ open \in BOOLEAN /\ limited \in BOOLEAN

LEMMA FlagsTyped ==
  ASSUME Flags, [Next]_vars PROVE Flags'
  <1> USE DEF modeVars, writerVars, resultVars, replyVars, adkVars
  <1>1. CASE /\ \/ MakeRequest \/ RefuseRequest \/ FormatFails \/ ConnectFails \/ BackoffExpires
                \/ Connects \/ Leave \/ NoticeLeft \/ UNCHANGED turnVars
             /\ UNCHANGED adkVars
    <2> USE DEF MakeRequest, RefuseRequest, FormatFails, ConnectFails, BackoffExpires, Connects,
                Leave, NoticeLeft, turnVars, SendBlindly, WriteFails, Returns, GoesOn
    <2>1. UNCHANGED <<protocol, suppressed, open, limited>>
      BY <1>1
    <2>2. {connected', noticed', clientGone'} \subseteq BOOLEAN
      BY <1>1 DEF Flags
    <2>3. /\ pc' \in {"request", "connect", "stream", "json", "rotate", "retry", "again",
                    "refused", "done"}
          /\ outcome' \in {"none", "whole", "partial"} /\ failed' \in BOOLEAN
      BY <1>1 DEF Flags
    <2> QED BY <2>1, <2>2, <2>3 DEF Flags
  <1>2. CASE RestStep /\ UNCHANGED adkVars
    <2> USE DEF RestStep, RestText, RestStart, RestTool, RestAnswer, RestChart, RestEnds,
                RestError, RestBreaks, RestDocument, SameCall
    <2>1. UNCHANGED <<protocol, suppressed, limited, connected>>
      BY <1>2
    <2>2. {noticed', clientGone'} \subseteq BOOLEAN
      BY <1>2 DEF Flags, Send, SendBlindly, SendAllOf, StopsAt, WriteFails
    <2>3. pc' \in {pc, "done"} /\ outcome' \in {outcome, "none", "whole", "partial"}
          /\ failed' \in {failed, TRUE, FALSE}
      BY <1>2 DEF Returns, GoesOn
    <2>4. open' \in {open, TRUE, FALSE}
      BY <1>2 DEF Flush
    <2>5. open' \in BOOLEAN /\ failed' \in BOOLEAN
      BY <2>3, <2>4 DEF Flags
    <2> QED BY <2>1, <2>2, <2>3, <2>5 DEF Flags
  <1>3. CASE A2aStep /\ UNCHANGED adkVars
    <2> USE DEF A2aStep, A2aText, A2aThought, A2aTool, A2aAnswer, A2aCompletes, A2aFails, SameSide,
                Unnoticed
    <2>1. UNCHANGED <<protocol, suppressed, limited, connected>>
      BY <1>3
    <2>2. {noticed', clientGone'} \subseteq BOOLEAN
      BY <1>3 DEF Flags, Send, SendBlindly, SendAllOf, StopsAt, WriteFails
    <2>3. pc' \in {pc, "done"} /\ outcome' \in {outcome, "none", "whole", "partial"}
          /\ failed' \in {failed, TRUE, FALSE}
      BY <1>3 DEF Returns, GoesOn
    <2>4. open' \in {open, TRUE, FALSE} \/ \E n : open' = (open /\ n = 1)
      BY <1>3 DEF Flush
    <2>5. open' \in BOOLEAN
      BY <2>4 DEF Flags
    <2> QED BY <2>1, <2>2, <2>3, <2>5 DEF Flags
  <1>4. CASE AdkStep
    <2> USE DEF AdkStep, AdkChunk, AdkWhole, AdkThought, AdkSummary, AdkTool, AdkAnswer,
                AdkError, AdkEnds, AdkBreaks, AdkRotates, AdkRetries, AdkGivesUp, SameTurn
    <2>1. UNCHANGED <<protocol, suppressed, connected>>
      BY <1>4
    <2>2. noticed' = noticed /\ clientGone' \in {clientGone, TRUE}
      BY <1>4 DEF ShowsText, Aborts, SendBlindly, SendAllOf, StopsAt, WriteFails
    <2>3. /\ pc' \in {pc, "done", "rotate", "again", "retry", "stream"}
          /\ outcome' \in {outcome, "none", "whole", "partial"} /\ failed' \in {failed, TRUE, FALSE}
      BY <1>4 DEF ShowsText, Aborts, Returns, GoesOn
    <2>4. limited' \in {limited, TRUE, FALSE}
      BY <1>4 DEF ShowsText, Aborts
    <2>5. open' \in {open, TRUE, FALSE} \/ open' = (open /\ limited)
      BY <1>4 DEF ShowsText, Aborts, Flush, SameReply
    <2>6. open' \in BOOLEAN
      BY <2>5 DEF Flags
    <2>7. failed' \in BOOLEAN /\ limited' \in BOOLEAN
      BY <2>3, <2>4 DEF Flags
    <2>8. noticed' \in BOOLEAN /\ clientGone' \in BOOLEAN
      BY <2>2 DEF Flags
    <2> QED BY <2>1, <2>3, <2>6, <2>7, <2>8 DEF Flags
  <1> QED BY <1>1, <1>2, <1>3, <1>4 DEF Next, vars

LEMMA FlagsAre == StreamTyped => Flags
  BY DEF StreamTyped, Flags

LEMMA OverIsOver ==
  ASSUME pc = "done", [Next]_vars
  PROVE  UNCHANGED <<pc, sent, calls>>
  BY DEF Next, vars, turnVars, replyVars, MakeRequest, RefuseRequest, FormatFails, ConnectFails,
       BackoffExpires, Connects, Leave, NoticeLeft, RestStep, RestText, RestStart, RestTool,
       RestAnswer, RestChart, RestEnds, RestError, RestBreaks, RestDocument, Reading,
       A2aStep, A2aText, A2aThought, A2aTool, A2aAnswer, A2aCompletes, A2aFails, Streaming,
       AdkStep, AdkChunk, AdkWhole, AdkThought, AdkSummary, AdkTool, AdkAnswer, AdkError,
       AdkEnds, AdkBreaks, AdkRotates, AdkRetries, AdkGivesUp, AdkStreaming

\* What the argument rests on, under all actions.
LEMMA StreamInvariant == Spec => []StreamInv
  <1>1. Init => StreamInv
    <2> SUFFICES ASSUME Init PROVE StreamInv
      OBVIOUS
    <2>1. events = <<>> /\ sent = <<>> /\ calls = <<>> /\ open = FALSE /\ limited = FALSE
      BY DEF Init, TurnInit, AdkInit
    <2>2. events \in Seq(AnyEvent) /\ sent \in Seq(AnySent) /\ calls \in Seq(AnyCall)
      BY <2>1
    <2>3. StreamTyped
      BY <2>2 DEF Init, TurnInit, AdkInit, StreamTyped
    <2>4. ~Told(events) /\ ~OpenEnd(events) /\ NestedIn(events)
      BY <2>1 DEF Told, OpenEnd, OpenAt, NestedIn
    <2>5. ErrorsInv /\ MessagesInv
      BY <2>1, <2>4 DEF Init, TurnInit, ErrorsInv, LeftFirst, ToldLast, MessagesInv, MessagesKept, Foreign
    <2>6. ResultsInv
      BY <2>1 DEF ResultsInv, Answered
    <2> QED BY <2>3, <2>5, <2>6 DEF StreamInv
  <1>2. StreamInv /\ [Next]_vars => StreamInv'
    <2> SUFFICES ASSUME StreamInv, [Next]_vars PROVE StreamInv'
      OBVIOUS
    <2> USE DEF StreamInv, MessagesInv
    <2>1. events' \in Seq(AnyEvent) /\ ErrorsInv' /\ MessagesKept'
      BY StreamKept
    <2>2. sent' \in Seq(AnySent) /\ calls' \in Seq(AnyCall) /\ ResultsInv'
      BY StepTalks, CallsTyped, ResultsStep, OverIsOver
    <2>3. Flags'
      BY FlagsAre, FlagsTyped
    <2>4. StreamTyped'
      BY <2>1, <2>2, <2>3 DEF StreamTyped, Flags
    <2> QED BY <2>1, <2>2, <2>4 DEF ErrorsInv
  <1> QED BY <1>1, <1>2, PTL DEF Spec

\* One call of an agent as the composition has it.
LEMMA StreamBehaves == ClientSpec => Spec
  <1>1. ClientInit => Init
    BY DEF ClientInit
  <1>2. [ClientNext]_clientVars => [Next]_vars
    BY DEF ClientNext, clientVars
  <1> QED BY <1>1, <1>2, PTL DEF ClientSpec, Spec

\* What a client that comes back replays is well-formed messages, none left
\* open but by who left and by a summary; and an error of a turn is told
\* exactly when it is returned: for agents of all protocols, any answer,
\* failures at any point and a client that leaves at any point.
THEOREM StreamTellsTruly == ClientSpec => []ToldOnStream
  <1>1. StreamInv => ToldOnStream
    <2> SUFFICES ASSUME StreamInv PROVE ToldOnStream
      OBVIOUS
    <2>1. events \in Seq(AnyEvent) /\ DOMAIN events = 1 .. Len(events) /\ Len(events) \in Nat
      BY LenProperties DEF StreamInv, StreamTyped
    <2>2. ASSUME NEW i \in 1 .. Len(events) + 1 PROVE OpenBefore(i) <=> OpenAt(events, i)
      BY <2>1 DEF OpenBefore, OpenAt, Within
    <2>3. OpenBefore(Len(events) + 1) <=> OpenEnd(events)
      BY <2>1, <2>2 DEF OpenEnd
    <2>4. NestedIn(events) => Nested
      BY <2>1, <2>2 DEF NestedIn, Nested, Fits
    <2>5. MessagesWellFormed
      BY <2>3, <2>4 DEF MessagesWellFormed, StreamInv, MessagesInv, MessagesKept, Followed
    <2>6. ErrorsTold
      BY DEF ErrorsTold, StreamInv, ErrorsInv, ToldLast, Told
    <2> QED BY <2>5, <2>6 DEF ToldOnStream
  <1> QED BY <1>1, StreamInvariant, StreamBehaves, PTL

\* A tool's result is stored with the call it answers, where calls of one
\* name do not overlap: also an answer without an ID, which A2A and ADK
\* agents may send, and for any number of calls.
THEOREM ResultsAreMatched == ClientSpec => []ResultsMatched
  <1>1. StreamInv => ResultsMatched
    BY DEF StreamInv, ResultsInv, ResultsMatched, Apart
  <1> QED BY <1>1, StreamInvariant, StreamBehaves, PTL
-----------------------------------------------------------------------------
(* The reply has what the agent sent, once and in order. *)

\* The texts and the tool calls that the reply is made of.
SaidSoFar == {k \in DOMAIN sent : ~Hidden(k)}
CalledSoFar == {k \in DOMAIN sent : sent[k].kind = "tool"}
TextKept ==
    /\ text \in Seq([kind : {"content"}, of : Nat])
    /\ \A i \in DOMAIN text : text[i].of \in SaidSoFar
    /\ \A i, j \in DOMAIN text : i < j => text[i].of < text[j].of
    /\ Len(text) = Cardinality(SaidSoFar)
CallsKept == Len(calls) = Cardinality(CalledSoFar)

\* What an ADK agent's proxy remembers of the stream.
SummaryCame == \E k \in DOMAIN sent : sent[k].kind = "summary"
Remembers ==
    /\ limited <=> SummaryCame
    /\ limited => protocol = "adk"
    /\ protocol = "adk" /\ ~limited => (streamed <=> ChunksSinceTool # {})
Untouched == sent = <<>> /\ text = <<>> /\ calls = <<>> /\ ~limited /\ ~streamed

\* A document that was not written in full is lost.
DocumentLost == ~connected /\ \E k \in SaidSoFar : sent[k].kind = "document"

ReplyInv ==
    /\ streamed \in BOOLEAN
    /\ pc \in {"request", "connect", "json"} => Untouched
    /\ pc # "done" => Remembers
    /\ pc # "done" \/ outcome # "none" => TextKept /\ CallsKept
    /\ pc = "done" /\ outcome = "none" /\ protocol # "adk" =>
           \/ TextKept /\ CallsKept /\ text = <<>> /\ calls = <<>>
           \/ DocumentLost

\* What one more item makes of these.
LEMMA HiddenThen ==
  ASSUME sent \in Seq(AnySent), NEW k \in SentKinds, NEW n \in Nat, Talks(k, n),
         NEW new, new = Len(sent) + 1
  PROVE  /\ DOMAIN sent = 1 .. Len(sent) /\ DOMAIN sent' = 1 .. new /\ Len(sent) \in Nat
         /\ Len(sent') = new
         /\ \A i \in DOMAIN sent : sent'[i] = sent[i] /\ (Hidden(i)' <=> Hidden(i))
         /\ sent'[new].kind = k
         /\ Hidden(new)' <=> \/ k \notin {"content", "whole", "document"}
                             \/ SummaryCame
                             \/ k = "whole" /\ ChunksSinceTool # {}
  <1>1. /\ sent' \in Seq(AnySent) /\ Len(sent) \in Nat
        /\ DOMAIN sent = 1 .. Len(sent) /\ DOMAIN sent' = 1 .. new
        /\ \A i \in DOMAIN sent : sent'[i] = sent[i]
        /\ sent'[new] = Ev(k, n)
    BY TalkFacts
  <1>2. sent'[new].kind = k
    BY <1>1 DEF Ev
  <1>3. Len(sent') = new
    BY <1>1, LenProperties
  <1>4. ASSUME NEW i \in DOMAIN sent PROVE Hidden(i)' <=> Hidden(i)
    <2>1. i \in 1 .. Len(sent) /\ sent'[i] = sent[i]
      BY <1>1
    <2>2. \A j \in 1 .. i - 1 : j \in DOMAIN sent /\ sent'[j] = sent[j]
      BY <1>1, <2>1
    <2>3. \A j \in 1 .. i - 1 : \A l \in j .. i : l \in DOMAIN sent /\ sent'[l] = sent[l]
      BY <1>1, <2>1
    <2> QED BY <2>1, <2>2, <2>3 DEF Hidden
  <1>5. 1 .. new - 1 = DOMAIN sent
    BY <1>1
  <1>6. (\E j \in 1 .. new - 1 : sent'[j].kind = "summary") <=> SummaryCame
    BY <1>1, <1>5 DEF SummaryCame
  <1>7. k = "whole" =>
          ((\E j \in 1 .. new - 1 : /\ sent'[j].kind = "content"
                                    /\ \A l \in j .. new : sent'[l].kind # "tool")
           <=> ChunksSinceTool # {})
    <2> SUFFICES ASSUME k = "whole", NEW j \in DOMAIN sent
                 PROVE  (\A l \in j .. new : sent'[l].kind # "tool")
                        <=> (\A l \in j .. Len(sent) : sent[l].kind # "tool")
      BY <1>1, <1>5 DEF ChunksSinceTool
    <2>1. \A l \in j .. Len(sent) : l \in DOMAIN sent /\ l \in j .. new
      BY <1>1
    <2>2. \A l \in j .. new : l \in j .. Len(sent) \/ l = new
      BY <1>1
    <2> QED BY <1>1, <1>2, <2>1, <2>2
  <1>8. Hidden(new)' <=> \/ k \notin {"content", "whole", "document"}
                         \/ SummaryCame
                         \/ k = "whole" /\ ChunksSinceTool # {}
    BY <1>2, <1>6, <1>7 DEF Hidden
  <1> QED BY <1>1, <1>2, <1>3, <1>4, <1>8

LEMMA MarksThen ==
  ASSUME sent \in Seq(AnySent), NEW k \in SentKinds, NEW n \in Nat, Talks(k, n)
  PROVE  /\ SummaryCame' <=> SummaryCame \/ k = "summary"
         /\ (ChunksSinceTool # {})' <=> k = "content" \/ (k # "tool" /\ ChunksSinceTool # {})
  <1> DEFINE new == Len(sent) + 1
  <1>1. PICK m : m = new
    OBVIOUS
  <1> HIDE DEF new
  <1>2. /\ DOMAIN sent = 1 .. Len(sent) /\ DOMAIN sent' = 1 .. m /\ Len(sent) \in Nat
        /\ Len(sent') = m /\ m = Len(sent) + 1
        /\ \A i \in DOMAIN sent : sent'[i] = sent[i]
        /\ sent'[m].kind = k
    BY <1>1, HiddenThen DEF new
  <1>3. SummaryCame' <=> SummaryCame \/ k = "summary"
    BY <1>2 DEF SummaryCame
  <1>4. ASSUME NEW j \in DOMAIN sent
        PROVE  (\A l \in j .. m : sent'[l].kind # "tool")
               <=> k # "tool" /\ (\A l \in j .. Len(sent) : sent[l].kind # "tool")
    <2>1. \A l \in j .. Len(sent) : l \in DOMAIN sent /\ l \in j .. m
      BY <1>2
    <2>2. \A l \in j .. m : l \in j .. Len(sent) \/ l = m
      BY <1>2
    <2>3. m \in j .. m
      BY <1>2
    <2> QED BY <1>2, <2>1, <2>2, <2>3
  <1>5. (\A l \in m .. m : sent'[l].kind # "tool") <=> k # "tool"
    BY <1>2
  <1>6. (ChunksSinceTool # {})' <=>
          \E j \in DOMAIN sent' : sent'[j].kind = "content" /\ \A l \in j .. m : sent'[l].kind # "tool"
    BY <1>2 DEF ChunksSinceTool
  <1>7. \A j : j \in DOMAIN sent' <=> j \in DOMAIN sent \/ j = m
    BY <1>2
  <1> QED BY <1>2, <1>3, <1>4, <1>5, <1>6, <1>7 DEF ChunksSinceTool

LEMMA SaidThen ==
  ASSUME sent \in Seq(AnySent), NEW k \in SentKinds, NEW n \in Nat, Talks(k, n),
         NEW new, new = Len(sent) + 1
  PROVE  /\ new \notin DOMAIN sent
         /\ Hidden(new)' => SaidSoFar' = SaidSoFar
         /\ ~Hidden(new)' => SaidSoFar' = SaidSoFar \cup {new}
         /\ k # "tool" => CalledSoFar' = CalledSoFar
         /\ k = "tool" => CalledSoFar' = CalledSoFar \cup {new}
  <1>1. /\ DOMAIN sent = 1 .. Len(sent) /\ DOMAIN sent' = 1 .. new /\ Len(sent) \in Nat
        /\ \A i \in DOMAIN sent : sent'[i] = sent[i] /\ (Hidden(i)' <=> Hidden(i))
        /\ sent'[new].kind = k
    BY HiddenThen
  <1>2. new \notin DOMAIN sent /\ \A i : i \in DOMAIN sent' <=> i \in DOMAIN sent \/ i = new
    BY <1>1
  <1>3. SaidSoFar' = {i \in DOMAIN sent' : ~Hidden(i)'}
    BY DEF SaidSoFar
  <1> QED BY <1>1, <1>2, <1>3 DEF SaidSoFar, CalledSoFar

LEMMA SaidFinite ==
  ASSUME sent \in Seq(AnySent)
  PROVE  IsFiniteSet(SaidSoFar) /\ IsFiniteSet(CalledSoFar)
  <1>1. DOMAIN sent = 1 .. Len(sent) /\ Len(sent) \in Nat
    BY LenProperties
  <1>2. IsFiniteSet(DOMAIN sent)
    BY <1>1, FS_Interval
  <1> QED BY <1>2, FS_Subset DEF SaidSoFar, CalledSoFar

\* What a step is to the reply.
Mute == UNCHANGED <<sent, text, calls, limited, streamed>>
Showing == \E k \in {"content", "whole", "document"} :
    /\ ~limited
    /\ Talks(k, Len(sent) + 1)
    /\ text' = Append(text, Ev("content", Len(sent) + 1))
    /\ k = "whole" => protocol = "adk" /\ ~streamed
    /\ k = "document" => pc' = "done"
    /\ protocol = "adk" => (streamed' <=> streamed \/ k = "content")
    /\ UNCHANGED <<calls, limited>>
Withheld == \E k \in SentKinds \ {"tool", "summary"}, n \in Nat :
    /\ Talks(k, n)
    /\ k \in {"content", "whole", "document"} =>
           limited \/ (k = "whole" /\ protocol = "adk" /\ streamed)
    /\ UNCHANGED <<text, limited, streamed>>
    /\ Len(calls') = Len(calls)
Summing ==
    /\ Talks("summary", 0) /\ protocol = "adk" /\ limited' = TRUE
    /\ UNCHANGED <<text, calls, streamed>>
Calling ==
    /\ AsksTool
    /\ protocol = "adk" => streamed' = FALSE
    /\ UNCHANGED <<text, limited>>
Resetting == sent' = <<>> /\ text' = <<>> /\ calls' = <<>> /\ ~limited' /\ ~streamed'
Saying == Mute \/ Showing \/ Withheld \/ Summing \/ Calling \/ Resetting

LEMMA TextStays ==
  ASSUME TextKept, SaidSoFar' = SaidSoFar, UNCHANGED text
  PROVE  TextKept'
  BY DEF TextKept

LEMMA TextGrows ==
  ASSUME TextKept, sent \in Seq(AnySent), NEW new, new = Len(sent) + 1, new \notin DOMAIN sent,
         SaidSoFar' = SaidSoFar \cup {new}, text' = Append(text, Ev("content", new))
  PROVE  TextKept'
  <1> DEFINE Texts == [kind : {"content"}, of : Nat]
  <1>0. text \in Seq(Texts) /\ Len(sent) \in Nat /\ DOMAIN sent = 1 .. Len(sent) /\ new \in Nat
    BY LenProperties DEF TextKept
  <1>1. Ev("content", new) \in Texts /\ Ev("content", new).of = new
    BY <1>0 DEF Ev
  <1>2. PICK e : e = Ev("content", new)
    OBVIOUS
  <1>3. e \in Texts /\ e.of = new /\ text' = Append(text, e)
    BY <1>1, <1>2
  <1> HIDE DEF Texts
  <1>4. text' \in Seq(Texts) /\ Len(text') = Len(text) + 1
    BY <1>0, <1>3, AppendProperties
  <1>5. \A i \in 1 .. Len(text) : text'[i] = text[i]
    BY <1>0, <1>3, AppendProperties
  <1>6. text'[Len(text) + 1] = e
    BY <1>0, <1>3, AppendProperties
  <1>7. /\ DOMAIN text = 1 .. Len(text) /\ Len(text) \in Nat
        /\ DOMAIN text' = 1 .. Len(text) + 1
    BY <1>0, <1>4, LenProperties
  <1>8. \A i \in DOMAIN text' : text'[i].of \in SaidSoFar'
    <2> TAKE i \in DOMAIN text'
    <2>1. CASE i \in DOMAIN text
      BY <1>5, <1>7, <2>1 DEF TextKept
    <2>2. CASE i = Len(text) + 1
      BY <1>3, <1>6, <2>2
    <2> QED BY <1>7, <2>1, <2>2
  <1>9. \A i, j \in DOMAIN text' : i < j => text'[i].of < text'[j].of
    <2> SUFFICES ASSUME NEW i \in DOMAIN text', NEW j \in DOMAIN text', i < j
                 PROVE  text'[i].of < text'[j].of
      OBVIOUS
    <2>1. i \in DOMAIN text
      BY <1>7
    <2>2. CASE j \in DOMAIN text
      BY <1>5, <1>7, <2>1, <2>2 DEF TextKept
    <2>3. CASE j = Len(text) + 1
      <3>1. text[i].of \in SaidSoFar
        BY <2>1 DEF TextKept
      <3>2. text[i].of \in 1 .. Len(sent)
        BY <1>0, <3>1 DEF SaidSoFar
      <3> QED BY <1>0, <1>3, <1>5, <1>6, <1>7, <2>1, <2>3, <3>2
    <2> QED BY <1>7, <2>2, <2>3
  <1>10. Len(text') = Cardinality(SaidSoFar')
    <2>1. IsFiniteSet(SaidSoFar) /\ new \notin SaidSoFar
      BY SaidFinite DEF SaidSoFar
    <2>2. Cardinality(SaidSoFar \cup {new}) = Cardinality(SaidSoFar) + 1
      BY <2>1, FS_AddElement
    <2> QED BY <1>4, <2>2 DEF TextKept
  <1> QED BY <1>4, <1>8, <1>9, <1>10 DEF TextKept, Texts

LEMMA CallsStay ==
  ASSUME CallsKept, CalledSoFar' = CalledSoFar, Len(calls') = Len(calls)
  PROVE  CallsKept'
  BY DEF CallsKept

LEMMA CallsGrow ==
  ASSUME CallsKept, sent \in Seq(AnySent), NEW new, new \notin DOMAIN sent,
         CalledSoFar' = CalledSoFar \cup {new}, Len(calls') = Len(calls) + 1
  PROVE  CallsKept'
  <1>1. IsFiniteSet(CalledSoFar) /\ new \notin CalledSoFar
    BY SaidFinite DEF CalledSoFar
  <1>2. Cardinality(CalledSoFar \cup {new}) = Cardinality(CalledSoFar) + 1
    BY <1>1, FS_AddElement
  <1> QED BY <1>2 DEF CallsKept

LEMMA EmptyReply ==
  sent = <<>> /\ text = <<>> /\ calls = <<>> => TextKept /\ CallsKept
  <1> SUFFICES ASSUME sent = <<>>, text = <<>>, calls = <<>> PROVE TextKept /\ CallsKept
    OBVIOUS
  <1>1. SaidSoFar = {} /\ CalledSoFar = {}
    BY DEF SaidSoFar, CalledSoFar
  <1>2. Len(text) = 0 /\ Len(calls) = 0 /\ DOMAIN text = {} /\ text \in Seq([kind : {"content"}, of : Nat])
    OBVIOUS
  <1> QED BY <1>1, <1>2, FS_EmptySet DEF TextKept, CallsKept

LEMMA SayingKept ==
  ASSUME StreamTyped, ReplyInv, pc # "done", Saying, UNCHANGED protocol
  PROVE  /\ TextKept' /\ CallsKept'
         /\ pc' # "done" => Remembers'
  <1>0. /\ TextKept /\ CallsKept /\ Remembers /\ sent \in Seq(AnySent) /\ calls \in Seq(AnyCall)
        /\ limited \in BOOLEAN /\ streamed \in BOOLEAN
    BY DEF ReplyInv, StreamTyped
  <1> PICK new : new = Len(sent) + 1
    OBVIOUS
  <1>1. CASE Mute
    <2>1. SaidSoFar' = SaidSoFar /\ CalledSoFar' = CalledSoFar
      BY <1>1 DEF Mute, SaidSoFar, CalledSoFar, Hidden
    <2>2. Remembers'
      BY <1>0, <1>1 DEF Mute, Remembers, SummaryCame, ChunksSinceTool
    <2> QED BY <1>0, <1>1, <2>1, <2>2, TextStays, CallsStay DEF Mute
  <1>2. CASE Showing
    <2>1. PICK k \in {"content", "whole", "document"} :
            /\ ~limited
            /\ Talks(k, Len(sent) + 1)
            /\ text' = Append(text, Ev("content", Len(sent) + 1))
            /\ k = "whole" => protocol = "adk" /\ ~streamed
            /\ k = "document" => pc' = "done"
            /\ protocol = "adk" => (streamed' <=> streamed \/ k = "content")
            /\ UNCHANGED <<calls, limited>>
      BY <1>2 DEF Showing
    <2>2. k \in SentKinds /\ new \in Nat /\ Talks(k, new) /\ k # "tool" /\ k # "summary"
      BY <1>0, <2>1, LenProperties DEF SentKinds
    <2>3. ~Hidden(new)'
      BY <1>0, <2>1, <2>2, HiddenThen DEF Remembers
    <2>4. /\ new \notin DOMAIN sent /\ SaidSoFar' = SaidSoFar \cup {new}
          /\ CalledSoFar' = CalledSoFar
      BY <1>0, <2>2, <2>3, SaidThen
    <2>5. TextKept'
      BY <1>0, <2>1, <2>4, TextGrows
    <2>6. CallsKept'
      BY <1>0, <2>1, <2>4, CallsStay
    <2>7. pc' # "done" => Remembers'
      BY <1>0, <2>1, <2>2, MarksThen DEF Remembers
    <2> QED BY <2>5, <2>6, <2>7
  <1>3. CASE Withheld
    <2>1. PICK k \in SentKinds \ {"tool", "summary"}, n \in Nat :
            /\ Talks(k, n)
            /\ k \in {"content", "whole", "document"} =>
                   limited \/ (k = "whole" /\ protocol = "adk" /\ streamed)
            /\ UNCHANGED <<text, limited, streamed>>
            /\ Len(calls') = Len(calls)
      BY <1>3 DEF Withheld
    <2>2. Hidden(new)'
      BY <1>0, <2>1, HiddenThen DEF Remembers
    <2>3. SaidSoFar' = SaidSoFar /\ CalledSoFar' = CalledSoFar
      BY <1>0, <2>1, <2>2, SaidThen
    <2>4. Remembers'
      BY <1>0, <2>1, MarksThen DEF Remembers
    <2> QED BY <1>0, <2>1, <2>3, <2>4, TextStays, CallsStay
  <1>4. CASE Summing
    <2>1. "summary" \in SentKinds /\ Talks("summary", 0)
      BY <1>4 DEF SentKinds, Summing
    <2>2. Hidden(new)'
      BY <1>0, <2>1, HiddenThen
    <2>3. SaidSoFar' = SaidSoFar /\ CalledSoFar' = CalledSoFar
      BY <1>0, <2>1, <2>2, SaidThen
    <2>4. Remembers'
      BY <1>0, <1>4, <2>1, MarksThen DEF Remembers, Summing
    <2> QED BY <1>0, <1>4, <2>3, <2>4, TextStays, CallsStay DEF Summing
  <1>5. CASE Calling
    <2>1. "tool" \in SentKinds /\ Len(calls) + 1 \in Nat /\ Talks("tool", Len(calls) + 1)
      BY <1>0, <1>5, LenProperties DEF SentKinds, Calling, AsksTool
    <2>2. Hidden(new)'
      BY <1>0, <2>1, HiddenThen
    <2>3. new \notin DOMAIN sent /\ SaidSoFar' = SaidSoFar /\ CalledSoFar' = CalledSoFar \cup {new}
      BY <1>0, <2>1, <2>2, SaidThen
    <2>4. Remembers'
      BY <1>0, <1>5, <2>1, MarksThen DEF Remembers, Calling
    <2>5. Len(calls') = Len(calls) + 1
      <3>1. PICK name \in Names : calls' = Append(calls, [name |-> name, answer |-> 0])
        BY <1>5 DEF Calling, AsksTool
      <3>2. [name |-> name, answer |-> 0] \in AnyCall
        BY DEF AnyCall
      <3> QED BY <1>0, <3>1, <3>2, AppendProperties
    <2> QED BY <1>0, <1>5, <2>3, <2>4, <2>5, TextStays, CallsGrow DEF Calling
  <1>6. CASE Resetting
    <2>1. TextKept' /\ CallsKept'
      <3>1. SaidSoFar' = {} /\ CalledSoFar' = {}
        BY <1>6 DEF Resetting, SaidSoFar, CalledSoFar
      <3>2. Len(text') = 0 /\ Len(calls') = 0 /\ DOMAIN text' = {}
            /\ text' \in Seq([kind : {"content"}, of : Nat])
        BY <1>6 DEF Resetting
      <3> QED BY <3>1, <3>2, FS_EmptySet DEF TextKept, CallsKept
    <2>2. Remembers'
      BY <1>6 DEF Resetting, Remembers, SummaryCame, ChunksSinceTool
    <2> QED BY <2>1, <2>2
  <1> QED BY <1>1, <1>2, <1>3, <1>4, <1>5, <1>6 DEF Saying

\* What a step may end with.
Loses == pc' = "done" /\ outcome' = "none" /\ (protocol = "adk" \/ DocumentLost')
Ends == pc' = "done" /\ outcome' = "none" =>
            protocol = "adk" \/ (text' = <<>> /\ calls' = <<>>) \/ DocumentLost'
Tells == (Saying \/ Loses) /\ Ends /\ UNCHANGED protocol /\ streamed' \in BOOLEAN

LEMMA SomeText ==
  ASSUME StreamTyped, ReplyInv, pc # "done"
  PROVE  /\ sent \in Seq(AnySent) /\ calls \in Seq(AnyCall)
         /\ Len(sent) + 1 \in Nat /\ Len(calls) + 1 \in Nat /\ DOMAIN calls \subseteq Nat
         /\ limited \in BOOLEAN /\ streamed \in BOOLEAN
         /\ protocol # "adk" => ~limited
         /\ ~Captured => text = <<>> /\ calls = <<>>
         /\ outcome \in {"none", "whole", "partial"}
  BY LenProperties DEF StreamTyped, ReplyInv, Remembers, Captured

LEMMA TakenStays ==
  ASSUME calls \in Seq(AnyCall), NEW i \in Nat, NEW j \in DOMAIN calls,
         calls' = [calls EXCEPT ![j].answer = i]
  PROVE  Len(calls') = Len(calls)
  <1>1. calls[j] \in AnyCall
    OBVIOUS
  <1>2. [calls[j] EXCEPT !.answer = i] \in AnyCall
    BY <1>1 DEF AnyCall
  <1> QED BY <1>2, ExceptSeq

LEMMA RestSays ==
  ASSUME StreamTyped, Foreign, ReplyInv, RestStep, UNCHANGED adkVars, pc # "done"
  PROVE  Tells /\ pc' \in {"stream", "done"}
  <1>0. /\ sent \in Seq(AnySent) /\ calls \in Seq(AnyCall) /\ DOMAIN calls \subseteq Nat
        /\ Len(sent) + 1 \in Nat /\ streamed \in BOOLEAN
        /\ ~Captured => text = <<>> /\ calls = <<>>
        /\ protocol # "adk" => ~limited
    BY SomeText
  <1>1. UNCHANGED <<protocol, streamed, limited>>
    BY DEF RestStep, RestText, RestStart, RestTool, RestAnswer, RestChart, RestEnds, RestError,
           RestBreaks, RestDocument, SameCall, modeVars, adkVars
  <1>2. CASE RestText
    <2>1. Showing
      BY <1>0, <1>1, <1>2 DEF RestText, Reading, Says, Fresh, Captures, Showing, Talks
    <2>2. pc' = "stream"
      BY <1>2 DEF RestText, Reading, GoesOn
    <2> QED BY <1>0, <1>1, <2>1, <2>2 DEF Tells, Saying, Ends
  <1>3. CASE RestStart \/ RestChart
    <2>1. PICK k \in {"begin", "chart"} : \E n \in Nat : Talks(k, n) /\ UNCHANGED <<text, calls>>
      BY <1>0, <1>3 DEF RestStart, RestChart, Says, Fresh, SameReply, Talks
    <2>2. Withheld
      BY <1>1, <2>1 DEF Withheld, SentKinds
    <2>3. pc' = "stream"
      BY <1>3 DEF RestStart, RestChart, Reading, GoesOn
    <2> QED BY <1>0, <1>1, <2>2, <2>3 DEF Tells, Saying, Ends
  <1>4. CASE RestTool
    <2>1. Calling
      BY <1>1, <1>4 DEF RestTool, Reading, CallsTool, Says, CapturesCall, Calling, AsksTool, Talks
    <2>2. pc' = "stream"
      BY <1>4 DEF RestTool, Reading, GoesOn
    <2> QED BY <1>0, <1>1, <2>1, <2>2 DEF Tells, Saying, Ends
  <1>5. CASE RestAnswer
    <2>1. PICK i \in Pending : Talks("answer", i) /\ Answers(i, i)
      BY <1>5 DEF RestAnswer, Says, Talks
    <2>2. i \in Nat /\ i \in DOMAIN calls
      BY <1>0 DEF Pending
    <2>3. Len(calls') = Len(calls) /\ UNCHANGED text
      BY <1>0, <2>1, <2>2, TakenStays DEF Answers
    <2>4. Withheld
      BY <1>1, <2>1, <2>2, <2>3 DEF Withheld, SentKinds
    <2>5. pc' = "stream"
      BY <1>5 DEF RestAnswer, Reading, GoesOn
    <2> QED BY <1>0, <1>1, <2>4, <2>5 DEF Tells, Saying, Ends
  <1>6. CASE RestEnds \/ RestError \/ RestBreaks
    <2>1. Mute
      BY <1>1, <1>6 DEF RestEnds, RestError, RestBreaks, Flush, Mute, replyVars
    <2>2. pc' = "done" /\ (outcome' = "none" => ~Captured)
      BY <1>6 DEF RestEnds, RestError, RestBreaks, Returns
    <2> QED BY <1>0, <1>1, <2>1, <2>2 DEF Tells, Saying, Ends, Mute
  <1>7. CASE RestDocument
    <2>0. pc = "json" /\ sent = <<>> /\ text = <<>> /\ calls = <<>> /\ pc' = "done"
      BY <1>7 DEF RestDocument, ReplyInv, Untouched, Returns
    <2>1. CASE UNCHANGED <<sent, replyVars>>
      <3>1. Mute
        BY <1>1, <2>1 DEF Mute, replyVars
      <3> QED BY <1>0, <1>1, <2>0, <3>1 DEF Tells, Saying, Ends, Mute
    <2>2. CASE ~UNCHANGED <<sent, replyVars>>
      <3>2. /\ Talks("document", 1) /\ UNCHANGED calls
            /\ \/ text' = <<Ev("content", 1)>> /\ outcome' = "whole"
               \/ UNCHANGED text /\ outcome' = "none" /\ ~connected' 
        BY <1>7, <2>2 DEF RestDocument, Says, Talks, Returns, StopsAt, WriteFails, SameCall
      <3>3. Len(sent) + 1 = 1 /\ Append(text, Ev("content", Len(sent) + 1)) = <<Ev("content", 1)>>
        BY <2>0
      <3>4. CASE text' = <<Ev("content", 1)>> /\ outcome' = "whole"
        <4>1. protocol = "custom"
          BY <2>0 DEF Foreign
        <4>2. Showing
          BY <1>0, <1>1, <2>0, <3>2, <3>3, <3>4, <4>1 DEF Showing
        <4> QED BY <1>0, <1>1, <2>0, <3>4, <4>2 DEF Tells, Saying, Ends
      <3>5. CASE UNCHANGED text /\ outcome' = "none" /\ ~connected'
        <4>1. 1 \notin DOMAIN sent /\ SaidSoFar' = SaidSoFar \cup {1} /\ sent'[1].kind = "document"
          <5> PICK new : new = Len(sent) + 1
            OBVIOUS
          <5>1. new = 1 /\ Talks("document", new) /\ "document" \in SentKinds /\ new \in Nat
            BY <3>2, <3>3 DEF SentKinds
          <5>2. ~SummaryCame
            BY <2>0 DEF SummaryCame
          <5>3. ~Hidden(new)' /\ sent'[new].kind = "document"
            BY <1>0, <5>1, <5>2, HiddenThen
          <5> QED BY <1>0, <5>1, <5>3, SaidThen
        <4>2. DocumentLost'
          BY <3>5, <4>1 DEF DocumentLost
        <4> QED BY <1>0, <1>1, <2>0, <3>5, <4>2 DEF Tells, Loses, Ends
      <3> QED BY <3>2, <3>4, <3>5
    <2> QED BY <2>1, <2>2
  <1> QED BY <1>2, <1>3, <1>4, <1>5, <1>6, <1>7 DEF RestStep

LEMMA A2aSays ==
  ASSUME StreamTyped, ReplyInv, A2aStep, UNCHANGED adkVars, pc # "done"
  PROVE  Tells /\ pc' \in {"stream", "done"}
  <1>0. /\ sent \in Seq(AnySent) /\ calls \in Seq(AnyCall) /\ DOMAIN calls \subseteq Nat
        /\ Len(sent) + 1 \in Nat /\ streamed \in BOOLEAN
        /\ ~Captured => text = <<>> /\ calls = <<>>
        /\ protocol # "adk" => ~limited
    BY SomeText
  <1>1. UNCHANGED <<protocol, streamed, limited>> /\ protocol # "adk"
    BY DEF A2aStep, A2aText, A2aThought, A2aTool, A2aAnswer, A2aCompletes, A2aFails, SameSide,
           modeVars, adkVars, Streaming
  <1>2. CASE A2aText
    <2>1. Showing
      BY <1>0, <1>1, <1>2 DEF A2aText, Says, Fresh, Captures, Showing, Talks
    <2>2. pc' = "stream"
      BY <1>2 DEF A2aText, Streaming, GoesOn
    <2> QED BY <1>0, <1>1, <2>1, <2>2 DEF Tells, Saying, Ends
  <1>3. CASE A2aThought
    <2>1. Talks("thought", Len(sent) + 1) /\ UNCHANGED <<text, calls>>
      BY <1>3 DEF A2aThought, Says, Fresh, SameReply, Talks
    <2>2. Withheld
      BY <1>0, <1>1, <2>1 DEF Withheld, SentKinds
    <2>3. pc' = "stream"
      BY <1>3 DEF A2aThought, Streaming, GoesOn
    <2> QED BY <1>0, <1>1, <2>2, <2>3 DEF Tells, Saying, Ends
  <1>4. CASE A2aTool
    <2>1. Calling
      BY <1>1, <1>4 DEF A2aTool, CallsTool, Says, CapturesCall, Calling, AsksTool, Talks
    <2>2. pc' = "stream"
      BY <1>4 DEF A2aTool, Streaming, GoesOn
    <2> QED BY <1>0, <1>1, <2>1, <2>2 DEF Tells, Saying, Ends
  <1>5. CASE A2aAnswer
    <2>1. PICK i \in Pending :
            /\ Talks("answer", i)
            /\ \/ \E j \in {i} \cup {j \in DOMAIN calls : calls[j].name = calls[i].name
                                                         /\ calls[j].answer = 0} : Answers(j, i)
               \/ SameReply
      BY <1>5 DEF A2aAnswer, Says, Talks
    <2>2. i \in Nat /\ i \in DOMAIN calls
      BY <1>0 DEF Pending
    <2>3. Len(calls') = Len(calls) /\ UNCHANGED text
      BY <1>0, <2>1, <2>2, TakenStays DEF Answers, SameReply
    <2>4. Withheld
      BY <1>1, <2>1, <2>2, <2>3 DEF Withheld, SentKinds
    <2>5. pc' = "stream"
      BY <1>5 DEF A2aAnswer, Streaming, GoesOn
    <2> QED BY <1>0, <1>1, <2>4, <2>5 DEF Tells, Saying, Ends
  <1>6. CASE A2aCompletes \/ A2aFails
    <2>1. Mute
      BY <1>1, <1>6 DEF A2aCompletes, A2aFails, Flush, Mute, replyVars
    <2>2. pc' = "done" /\ (outcome' = "none" => ~Captured)
      BY <1>6 DEF A2aCompletes, A2aFails, Returns
    <2> QED BY <1>0, <1>1, <2>1, <2>2 DEF Tells, Saying, Ends, Mute
  <1> QED BY <1>2, <1>3, <1>4, <1>5, <1>6 DEF A2aStep

LEMMA AdkSays ==
  ASSUME StreamTyped, Foreign, ReplyInv, AdkStep, pc # "done"
  PROVE  Tells /\ pc' \in {"stream", "rotate", "again", "retry", "done"}
  <1>0. /\ sent \in Seq(AnySent) /\ calls \in Seq(AnyCall) /\ DOMAIN calls \subseteq Nat
        /\ Len(sent) + 1 \in Nat /\ streamed \in BOOLEAN /\ limited \in BOOLEAN
    BY SomeText
  <1>1. protocol = "adk" /\ UNCHANGED protocol
    BY DEF AdkStep, AdkChunk, AdkWhole, AdkThought, AdkSummary, AdkTool, AdkAnswer, AdkError,
           AdkEnds, AdkBreaks, AdkRotates, AdkRetries, AdkGivesUp, AdkStreaming, SameTurn, Foreign,
           modeVars
  <1>2. ASSUME NEW es, Aborts(es)
        PROVE  Loses /\ UNCHANGED streamed /\ pc' = "done"
    BY <1>1, <1>2 DEF Aborts, Returns, Loses
  <1>3. CASE AdkChunk
    <2>0. Talks("content", Len(sent) + 1)
      BY <1>3 DEF AdkChunk, Says, Fresh, Talks
    <2>1. CASE ShowsText(Fresh) /\ streamed' = (streamed \/ ~limited) /\ UNCHANGED limited
      <3>1. CASE limited /\ SameReply /\ GoesOn
        <4>1. streamed' \in BOOLEAN /\ pc' = "stream"
          BY <1>0, <1>3, <2>1, <3>1 DEF AdkChunk, AdkStreaming, GoesOn
        <4>2. Withheld
          <5>1. streamed' = streamed
            BY <1>0, <2>1, <3>1
          <5> QED BY <1>0, <2>0, <2>1, <3>1, <5>1 DEF Withheld, SentKinds, SameReply
        <4> QED BY <1>1, <4>1, <4>2 DEF Tells, Saying, Ends
      <3>2. CASE ~limited /\ Captures(Fresh) /\ GoesOn
        <4>1. streamed' \in BOOLEAN /\ pc' = "stream"
          BY <1>0, <1>3, <2>1, <3>2 DEF AdkChunk, AdkStreaming, GoesOn
        <4>2. Showing
          BY <2>0, <2>1, <3>2 DEF Showing, Captures, Fresh
        <4> QED BY <1>1, <4>1, <4>2 DEF Tells, Saying, Ends
      <3> QED BY <2>1, <3>1, <3>2 DEF ShowsText
    <2>2. CASE Aborts(Opening \o <<Ev("content", Fresh)>>)
      BY <1>0, <1>1, <1>2, <2>2 DEF Tells, Ends
    <2> QED BY <1>3, <2>1, <2>2 DEF AdkChunk
  <1>4. CASE AdkWhole
    <2>1. PICK item \in Unstreamed :
            /\ Talks(item.kind, item.of)
            /\ \/ streamed /\ ~limited /\ SameReply /\ GoesOn
               \/ (~streamed \/ limited) /\ ShowsText(item.of)
               \/ Aborts(Opening \o <<Ev("content", item.of)>>)
      BY <1>4 DEF AdkWhole, Says, Talks
    <2>2. \/ item.kind = "whole" /\ item.of = Len(sent) + 1
          \/ item.kind = "repeat" /\ item.of \in Nat /\ ChunksSinceTool # {}
      BY Numbers DEF Unstreamed, Ev, ChunksSinceTool, Fresh
    <2>3. UNCHANGED <<streamed, limited>> /\ pc = "stream"
      BY <1>4 DEF AdkWhole, AdkStreaming
    <2>4. item.kind \in SentKinds \ {"tool", "summary"} /\ item.of \in Nat
      BY <1>0, <2>2 DEF SentKinds
    <2>5. CASE (streamed \/ limited) /\ SameReply /\ GoesOn
      <3>1. Withheld
        BY <1>0, <1>1, <2>1, <2>2, <2>3, <2>4, <2>5 DEF Withheld, SameReply
      <3> QED BY <1>0, <1>1, <2>3, <2>5, <3>1 DEF Tells, Saying, Ends, GoesOn
    <2>6. CASE ~streamed /\ ~limited /\ Captures(item.of) /\ GoesOn
      <3>1. item.kind = "whole" /\ item.of = Len(sent) + 1
        BY <1>1, <2>2, <2>3, <2>6 DEF ReplyInv, Remembers
      <3>2. Showing
        BY <1>0, <1>1, <2>1, <2>3, <2>6, <3>1 DEF Showing, Captures
      <3> QED BY <1>0, <1>1, <2>3, <2>6, <3>2 DEF Tells, Saying, Ends, GoesOn
    <2>7. CASE Aborts(Opening \o <<Ev("content", item.of)>>)
      BY <1>0, <1>1, <1>2, <2>7 DEF Tells, Ends
    <2> QED BY <1>0, <2>1, <2>5, <2>6, <2>7 DEF ShowsText
  <1>5. CASE AdkThought
    <2>1. Talks("thought", Len(sent) + 1) /\ UNCHANGED <<streamed, limited>> /\ pc = "stream"
      BY <1>5 DEF AdkThought, AdkStreaming, Says, Fresh, Talks
    <2>2. CASE SameReply /\ GoesOn
      <3>1. Withheld
        BY <1>0, <2>1, <2>2 DEF Withheld, SentKinds, SameReply
      <3> QED BY <1>0, <1>1, <2>1, <2>2, <3>1 DEF Tells, Saying, Ends, GoesOn
    <2>3. CASE \E es : Aborts(es)
      BY <1>0, <1>1, <1>2, <2>3 DEF Tells, Ends
    <2> QED BY <1>5, <2>2, <2>3 DEF AdkThought
  <1>6. CASE AdkSummary
    <2>1. Summing
      BY <1>1, <1>6 DEF AdkSummary, Says, Talks, SameReply, Summing
    <2>2. pc' = "stream" /\ UNCHANGED streamed
      BY <1>6 DEF AdkSummary, AdkStreaming, GoesOn
    <2> QED BY <1>0, <1>1, <2>1, <2>2 DEF Tells, Saying, Ends
  <1>7. CASE AdkTool
    <2>1. CASE \E es : Aborts(es)
      BY <1>0, <1>1, <1>2, <2>1 DEF Tells, Ends
    <2>2. CASE (\E name \in Names : CapturesCall(name)) /\ streamed' = FALSE /\ GoesOn /\ UNCHANGED limited
      <3>1. Calling
        BY <1>7, <2>2 DEF AdkTool, CallsTool, Says, CapturesCall, Calling, AsksTool, Talks
      <3>2. pc' = "stream"
        BY <1>7, <2>2 DEF AdkTool, AdkStreaming, GoesOn
      <3> QED BY <1>1, <2>2, <3>1, <3>2 DEF Tells, Saying, Ends
    <2> QED BY <1>7, <2>1, <2>2 DEF AdkTool
  <1>8. CASE AdkAnswer
    <2>1. PICK i \in Pending :
            /\ Talks("answer", i)
            /\ \/ /\ \/ \E j \in {i} \cup {j \in DOMAIN calls : calls[j].name = calls[i].name
                                                               /\ calls[j].answer = 0} : Answers(j, i)
                     \/ SameReply
                  /\ GoesOn /\ UNCHANGED <<limited, streamed>>
               \/ \E es : Aborts(es)
      BY <1>8 DEF AdkAnswer, Says, Talks
    <2>2. i \in Nat /\ i \in DOMAIN calls
      BY <1>0 DEF Pending
    <2>3. CASE \E es : Aborts(es)
      BY <1>0, <1>1, <1>2, <2>3 DEF Tells, Ends
    <2>4. CASE /\ \/ \E j \in {i} \cup {j \in DOMAIN calls : calls[j].name = calls[i].name
                                                            /\ calls[j].answer = 0} : Answers(j, i)
                  \/ SameReply
               /\ GoesOn /\ UNCHANGED <<limited, streamed>>
      <3>1. Len(calls') = Len(calls) /\ UNCHANGED text
        BY <1>0, <2>2, <2>4, TakenStays DEF Answers, SameReply
      <3>2. Withheld
        BY <2>1, <2>2, <2>4, <3>1 DEF Withheld, SentKinds
      <3>3. pc' = "stream"
        BY <1>8, <2>4 DEF AdkAnswer, AdkStreaming, GoesOn
      <3> QED BY <1>0, <1>1, <2>4, <3>2, <3>3 DEF Tells, Saying, Ends
    <2> QED BY <2>1, <2>3, <2>4
  <1>9. CASE AdkError \/ AdkEnds \/ AdkBreaks \/ AdkGivesUp
    <2>1. Mute
      BY <1>9 DEF AdkError, AdkEnds, AdkBreaks, AdkGivesUp, Flush, Mute, replyVars
    <2>2. pc' \in {"done", "again", "rotate"}
      BY <1>9 DEF AdkError, AdkEnds, AdkBreaks, AdkGivesUp, Returns
    <2> QED BY <1>0, <1>1, <2>1, <2>2 DEF Tells, Saying, Ends, Mute
  <1>10. CASE AdkRotates
    <2>1. CASE Aborts(Notice("rotation"))
      BY <1>0, <1>1, <1>2, <2>1 DEF Tells, Ends
    <2>2. CASE pc' = "retry" /\ UNCHANGED <<replyVars, streamed, limited>>
      <3>1. Mute
        BY <1>10, <2>2 DEF AdkRotates, Mute, replyVars
      <3> QED BY <1>0, <1>1, <2>2, <3>1 DEF Tells, Saying, Ends
    <2> QED BY <1>10, <2>1, <2>2 DEF AdkRotates
  <1>11. CASE AdkRetries
    <2>1. CASE /\ pc' = "stream" /\ sent' = <<>> /\ text' = <<>> /\ calls' = <<>>
               /\ streamed' = FALSE /\ limited' = FALSE
      BY <1>1, <2>1 DEF Tells, Saying, Resetting, Ends
    <2>2. CASE pc' = "done" /\ UNCHANGED <<sent, replyVars, adkVars>>
      <3>1. Mute
        BY <2>2 DEF Mute, replyVars, adkVars
      <3> QED BY <1>0, <1>1, <2>2, <3>1 DEF Tells, Saying, Ends, Mute
    <2> QED BY <1>11, <2>1, <2>2 DEF AdkRetries, Returns
  <1> QED BY <1>3, <1>4, <1>5, <1>6, <1>7, <1>8, <1>9, <1>10, <1>11 DEF AdkStep

LEMMA StepSays ==
  ASSUME StreamTyped, Foreign, ReplyInv, [Next]_vars, pc # "done"
  PROVE  Tells /\ (pc' \in {"request", "connect", "json"} => Untouched')
  <1>1. CASE RestStep /\ UNCHANGED adkVars
    BY <1>1, RestSays
  <1>2. CASE A2aStep /\ UNCHANGED adkVars
    BY <1>2, A2aSays
  <1>3. CASE AdkStep
    BY <1>3, AdkSays
  <1>4. CASE /\ \/ MakeRequest \/ RefuseRequest \/ FormatFails \/ ConnectFails \/ BackoffExpires
                \/ Connects \/ Leave \/ NoticeLeft \/ UNCHANGED turnVars
             /\ UNCHANGED adkVars
    <2>1. UNCHANGED <<protocol, sent, text, calls, limited, streamed>>
      BY <1>4 DEF MakeRequest, RefuseRequest, FormatFails, ConnectFails, BackoffExpires, Connects,
           Leave, NoticeLeft, turnVars, modeVars, replyVars, adkVars
    <2>2. \/ pc \in {"request", "connect"} /\ pc' \in {"connect", "stream", "json", "done", "refused"}
          \/ pc' = pc
      BY <1>4 DEF MakeRequest, RefuseRequest, FormatFails, ConnectFails, BackoffExpires, Connects,
           Leave, NoticeLeft, turnVars, GoesOn, Returns
    <2>3. pc' \in {"request", "connect", "json"} => Untouched'
      BY <2>1, <2>2 DEF ReplyInv, Untouched
    <2>4. pc' = "done" => text' = <<>> /\ calls' = <<>>
      BY <2>1, <2>2 DEF ReplyInv, Untouched
    <2> QED BY <2>1, <2>3, <2>4 DEF Tells, Saying, Mute, Ends, ReplyInv
  <1> QED BY <1>1, <1>2, <1>3, <1>4 DEF Next, vars

LEMMA ReplyIsOver ==
  ASSUME pc = "done", [Next]_vars
  PROVE  UNCHANGED <<pc, sent, calls, text, outcome, protocol, connected, streamed>>
  BY DEF Next, vars, turnVars, replyVars, modeVars, resultVars, adkVars, MakeRequest, RefuseRequest,
       FormatFails, ConnectFails, BackoffExpires, Connects, Leave, NoticeLeft, RestStep, RestText,
       RestStart, RestTool, RestAnswer, RestChart, RestEnds, RestError, RestBreaks, RestDocument,
       Reading, A2aStep, A2aText, A2aThought, A2aTool, A2aAnswer, A2aCompletes, A2aFails, Streaming,
       AdkStep, AdkChunk, AdkWhole, AdkThought, AdkSummary, AdkTool, AdkAnswer, AdkError,
       AdkEnds, AdkBreaks, AdkRotates, AdkRetries, AdkGivesUp, AdkStreaming

LEMMA ReplyStays == StreamTyped /\ Foreign /\ ReplyInv /\ [Next]_vars => ReplyInv'
  <1> SUFFICES ASSUME StreamTyped, Foreign, ReplyInv, [Next]_vars PROVE ReplyInv'
    OBVIOUS
  <1>1. CASE pc = "done"
    <2>1. UNCHANGED <<pc, sent, calls, text, outcome, protocol, connected, streamed>>
      BY <1>1, ReplyIsOver
    <2>2. SaidSoFar' = SaidSoFar /\ CalledSoFar' = CalledSoFar
      BY <2>1 DEF SaidSoFar, CalledSoFar, Hidden
    <2>3. (TextKept' <=> TextKept) /\ (CallsKept' <=> CallsKept) /\ (DocumentLost' <=> DocumentLost)
      BY <2>1, <2>2 DEF TextKept, CallsKept, DocumentLost
    <2> QED BY <1>1, <2>1, <2>3 DEF ReplyInv
  <1>2. CASE pc # "done"
    <2>1. /\ Saying \/ Loses
          /\ Ends /\ UNCHANGED protocol /\ streamed' \in BOOLEAN
          /\ pc' \in {"request", "connect", "json"} => Untouched'
      BY <1>2, StepSays DEF Tells
    <2>2. CASE Saying
      <3>1. TextKept' /\ CallsKept' /\ (pc' # "done" => Remembers')
        BY <1>2, <2>1, <2>2, SayingKept
      <3> QED BY <2>1, <3>1 DEF Ends, ReplyInv
    <2>3. CASE Loses
      BY <2>1, <2>3 DEF Loses, ReplyInv
    <2> QED BY <2>1, <2>2, <2>3
  <1> QED BY <1>1, <1>2

\* The reply that is stored has every text the agent sent, once and in order,
\* and every tool call, whether or not the client stayed; and where a proxy
\* drains its agent's answer there is a reply if there is anything to keep: for
\* any answer, of any length.
THEOREM ReplyIsComplete == ClientSpec => []ReplyComplete
  <1>1. Init => ReplyInv
    <2> SUFFICES ASSUME Init PROVE ReplyInv
      OBVIOUS
    <2>1. Untouched /\ streamed = FALSE /\ limited = FALSE /\ pc = "request"
      BY DEF Init, TurnInit, AdkInit, Untouched
    <2>2. TextKept /\ CallsKept
      BY <2>1, EmptyReply DEF Untouched
    <2>3. Remembers
      BY <2>1 DEF Remembers, Untouched, SummaryCame, ChunksSinceTool
    <2> QED BY <2>1, <2>2, <2>3 DEF ReplyInv
  <1>2. StreamInv => StreamTyped /\ Foreign
    BY DEF StreamInv, MessagesInv, MessagesKept
  <1>3. StreamTyped /\ ReplyInv => ReplyComplete
    <2> SUFFICES ASSUME StreamTyped, ReplyInv, pc = "done" PROVE ReplyComplete
      BY DEF ReplyComplete
    <2>1. outcome # "none" =>
            /\ Len(text) = Cardinality(SaidSoFar)
            /\ \A i, j \in DOMAIN text : i < j => text[i].of < text[j].of
            /\ \A i \in DOMAIN text : text[i].of \in SaidSoFar
            /\ Len(calls) = Cardinality(CalledSoFar)
      BY DEF ReplyInv, TextKept, CallsKept
    <2>2. outcome = "none" /\ protocol # "adk" /\ SaidSoFar \cup CalledSoFar # {} =>
            ~connected /\ \E k \in SaidSoFar : sent[k].kind = "document"
      <3> SUFFICES ASSUME outcome = "none", protocol # "adk", ~DocumentLost
                   PROVE  SaidSoFar \cup CalledSoFar = {}
        BY DEF DocumentLost
      <3>1. TextKept /\ CallsKept /\ text = <<>> /\ calls = <<>>
        BY <2>1 DEF ReplyInv
      <3>2. Cardinality(SaidSoFar) = 0 /\ Cardinality(CalledSoFar) = 0
        BY <3>1 DEF TextKept, CallsKept
      <3> QED BY <3>2, SaidFinite, FS_EmptySet DEF StreamTyped
    <2> QED BY <2>1, <2>2 DEF ReplyComplete, SaidSoFar, CalledSoFar
  <1> QED BY <1>1, <1>2, <1>3, ReplyStays, StreamInvariant, StreamBehaves, PTL DEF Spec
-----------------------------------------------------------------------------
(* The reply is stored as it was shown. *)

\* What is kept in order, as one of two sequences or both grow.
LEMMA SameKept ==
  ASSUME NEW s, NEW I, NEW t, NEW J, SameInOrder(s, I, t, J),
         NEW s2, \A i \in I : s2[i] = s[i], NEW t2, \A j \in J : t2[j] = t[j]
  PROVE  SameInOrder(s2, I, t2, J)
  BY DEF SameInOrder

Moves(s, I, s2, I2, g) ==
    /\ g \in [I2 -> I]
    /\ \A i \in I : \E h \in I2 : g[h] = i
    /\ \A i \in I2 : s2[i] = s[g[i]]
    /\ \A h, i \in I2 : h < i => g[h] < g[i]
LEMMA SameMoved ==
  ASSUME NEW s, NEW I, NEW t, NEW J, SameInOrder(s, I, t, J),
         NEW s2, NEW I2, NEW g, Moves(s, I, s2, I2, g)
  PROVE  SameInOrder(s2, I2, t, J)
  <1> USE DEF Moves
  <1>1. PICK m \in [I -> J] :
          /\ \A j \in J : \E i \in I : m[i] = j
          /\ \A i \in I : t[m[i]] = s[i]
          /\ \A h, i \in I : h < i => m[h] < m[i]
    BY DEF SameInOrder
  <1> DEFINE f == [i \in I2 |-> m[g[i]]]
  <1>2. f \in [I2 -> J] /\ \A i \in I2 : f[i] = m[g[i]] /\ g[i] \in I
    BY <1>1
  <1> HIDE DEF f
  <1>3. \A j \in J : \E i \in I2 : f[i] = j
    BY <1>1, <1>2
  <1>4. \A i \in I2 : t[f[i]] = s2[i]
    BY <1>1, <1>2
  <1>5. \A h, i \in I2 : h < i => f[h] < f[i]
    BY <1>1, <1>2
  <1> QED BY <1>2, <1>3, <1>4, <1>5 DEF SameInOrder

Adds(s, I, a, s2) ==
    I \in SUBSET Nat /\ a \in Nat /\ (\A i \in I : i < a) /\ (\A i \in I : s2[i] = s[i])
LEMMA SameGrows ==
  ASSUME NEW s, NEW I, NEW t, NEW J, SameInOrder(s, I, t, J),
         NEW a, NEW b, NEW s2, NEW t2, Adds(s, I, a, s2), Adds(t, J, b, t2), s2[a] = t2[b]
  PROVE  SameInOrder(s2, I \cup {a}, t2, J \cup {b})
  <1> USE DEF Adds
  <1>1. PICK m \in [I -> J] :
          /\ \A j \in J : \E i \in I : m[i] = j
          /\ \A i \in I : t[m[i]] = s[i]
          /\ \A h, i \in I : h < i => m[h] < m[i]
    BY DEF SameInOrder
  <1> DEFINE A == I \cup {a}  B == J \cup {b}
             f == [i \in A |-> IF i = a THEN b ELSE m[i]]
  <1>2. a \notin I /\ b \notin J
    OBVIOUS
  <1>3. f \in [A -> B] /\ f[a] = b /\ \A i \in I : f[i] = m[i] /\ m[i] \in J
    BY <1>1, <1>2
  <1> HIDE DEF f
  <1>4. \A j \in B : \E i \in A : f[i] = j
    BY <1>1, <1>3
  <1>5. \A i \in A : t2[f[i]] = s2[i]
    <2>1. ASSUME NEW i \in I PROVE t2[f[i]] = s2[i]
      <3>1. f[i] = m[i] /\ m[i] \in J /\ t[m[i]] = s[i]
        BY <1>1, <1>3
      <3>2. t2[m[i]] = t[m[i]] /\ s2[i] = s[i]
        BY <3>1
      <3> QED BY <3>1, <3>2
    <2>2. t2[f[a]] = s2[a]
      BY <1>3
    <2> QED BY <2>1, <2>2
  <1>6. ASSUME NEW h \in A, NEW i \in A, h < i PROVE f[h] < f[i]
    <2>1. CASE h \in I /\ i \in I
      BY <1>1, <1>3, <1>6, <2>1
    <2>2. CASE h \in I /\ i = a
      BY <1>3, <2>2
    <2>3. CASE h = a
      <3>1. i \in Nat /\ (i < a \/ i = a)
        OBVIOUS
      <3> QED BY <1>6, <2>3, <3>1
    <2> QED BY <2>1, <2>2, <2>3
  <1> QED BY <1>3, <1>4, <1>5, <1>6 DEF SameInOrder

LEMMA SameOfNone == ASSUME NEW s, NEW t PROVE SameInOrder(s, {}, t, {})
  <1> DEFINE m == [i \in {} |-> i]
  <1>1. m \in [{} -> {}]
    OBVIOUS
  <1> QED BY <1>1 DEF SameInOrder

PartKinds == {"content", "tool"}

\* Events that are no part of a reply, and a part after such events.
Plain(es) ==
    es \in Seq(AnyEvent) /\ \A i \in DOMAIN es : es[i].kind \notin PartKinds \cup {"rotation"}
Lasts(es, e) ==
    /\ es \in Seq(AnyEvent) /\ e \in AnyEvent
    /\ Len(es) > 0 /\ es[Len(es)] = e
    /\ \A i \in DOMAIN es : i # Len(es) => es[i].kind \notin PartKinds \cup {"rotation"}

LEMMA AtIn == ASSUME NEW s \in Seq(AnyEvent), NEW kinds
              PROVE At(s, kinds) \subseteq 1 .. Len(s) /\ Len(s) \in Nat
  BY LenProperties DEF At

LEMMA PlainAfter ==
  ASSUME NEW s \in Seq(AnyEvent), NEW es, Plain(es), NEW kinds \in SUBSET PartKinds
  PROVE  /\ s \o es \in Seq(AnyEvent)
         /\ SinceRotation(s \o es, kinds) = SinceRotation(s, kinds)
         /\ \A i \in SinceRotation(s, kinds) : (s \o es)[i] = s[i]
  <1> DEFINE u == s \o es
  <1>1. /\ u \in Seq(AnyEvent) /\ Len(u) = Len(s) + Len(es)
        /\ \A i \in 1 .. Len(s) + Len(es) : u[i] = IF i <= Len(s) THEN s[i] ELSE es[i - Len(s)]
    BY ConcatProperties DEF Plain
  <1> HIDE DEF u
  <1>2. Len(s) \in Nat /\ Len(es) \in Nat /\ DOMAIN es = 1 .. Len(es) /\ DOMAIN s = 1 .. Len(s)
        /\ DOMAIN u = 1 .. Len(u)
    BY <1>1, LenProperties DEF Plain
  <1>3. \A i \in 1 .. Len(s) : u[i] = s[i]
    BY <1>1, <1>2
  <1>4. \A i \in DOMAIN u : i \notin 1 .. Len(s) => u[i].kind \notin PartKinds \cup {"rotation"}
    <2> TAKE i \in DOMAIN u
    <2>1. i \notin 1 .. Len(s) => i - Len(s) \in DOMAIN es /\ u[i] = es[i - Len(s)]
      BY <1>1, <1>2
    <2> QED BY <2>1 DEF Plain
  <1>5. ASSUME NEW i \in SinceRotation(s, kinds) PROVE i \in SinceRotation(u, kinds)
    <2>1. i \in 1 .. Len(s) /\ u[i].kind \in kinds /\ i \in DOMAIN u
      BY <1>1, <1>2, <1>3 DEF SinceRotation, At
    <2>2. \A k \in i .. Len(u) : u[k].kind # "rotation"
      <3> TAKE k \in i .. Len(u)
      <3>1. k \in DOMAIN u /\ (k \in 1 .. Len(s) => k \in i .. Len(s))
        BY <1>2, <2>1
      <3> QED BY <1>3, <1>4, <3>1 DEF SinceRotation
    <2> QED BY <2>1, <2>2 DEF SinceRotation, At
  <1>6. ASSUME NEW i \in SinceRotation(u, kinds) PROVE i \in SinceRotation(s, kinds)
    <2>1. i \in DOMAIN u /\ u[i].kind \in kinds /\ i \in 1 .. Len(s) /\ s[i].kind \in kinds
      BY <1>3, <1>4 DEF SinceRotation, At
    <2>2. \A k \in i .. Len(s) : k \in i .. Len(u) /\ u[k] = s[k]
      BY <1>1, <1>2, <1>3, <2>1
    <2> QED BY <1>2, <2>1, <2>2 DEF SinceRotation, At
  <1> QED BY <1>1, <1>2, <1>3, <1>5, <1>6 DEF u, SinceRotation, At

LEMMA PartAfter ==
  ASSUME NEW s \in Seq(AnyEvent), NEW es, NEW e, Lasts(es, e), e.kind \in PartKinds,
         NEW kinds \in SUBSET PartKinds
  PROVE  LET b == Len(s \o es)
         IN  /\ s \o es \in Seq(AnyEvent) /\ b \in Nat /\ b > Len(s) /\ (s \o es)[b] = e
             /\ SinceRotation(s \o es, kinds) =
                    SinceRotation(s, kinds) \cup (IF e.kind \in kinds THEN {b} ELSE {})
             /\ \A i \in SinceRotation(s, kinds) : (s \o es)[i] = s[i]
  <1> DEFINE u == s \o es
  <1>1. /\ u \in Seq(AnyEvent) /\ Len(u) = Len(s) + Len(es)
        /\ \A i \in 1 .. Len(s) + Len(es) : u[i] = IF i <= Len(s) THEN s[i] ELSE es[i - Len(s)]
    BY ConcatProperties DEF Lasts
  <1> HIDE DEF u
  <1>2. Len(s) \in Nat /\ Len(es) \in Nat /\ DOMAIN es = 1 .. Len(es) /\ DOMAIN s = 1 .. Len(s)
        /\ DOMAIN u = 1 .. Len(u) /\ Len(es) > 0 /\ e = es[Len(es)]
    BY <1>1, LenProperties DEF Lasts
  <1>3. \A i \in 1 .. Len(s) : u[i] = s[i]
    BY <1>1, <1>2
  <1>4. \A i \in DOMAIN u : i \notin 1 .. Len(s) /\ i # Len(u) =>
            u[i].kind \notin PartKinds \cup {"rotation"}
    <2> TAKE i \in DOMAIN u
    <2>1. i \notin 1 .. Len(s) /\ i # Len(u) =>
            i - Len(s) \in DOMAIN es /\ i - Len(s) # Len(es) /\ u[i] = es[i - Len(s)]
      BY <1>1, <1>2
    <2> QED BY <2>1 DEF Lasts
  <1>5. u[Len(u)] = e /\ Len(u) \in Nat /\ Len(u) > Len(s) /\ Len(u) \in DOMAIN u
    <2>1. Len(u) - Len(s) = Len(es) /\ ~(Len(u) <= Len(s)) /\ Len(u) \in 1 .. Len(s) + Len(es)
      BY <1>1, <1>2
    <2>2. u[Len(u)] = es[Len(u) - Len(s)]
      BY <1>1, <2>1
    <2> QED BY <1>1, <1>2, <2>1, <2>2
  <1>6. \A k \in DOMAIN u : k \notin 1 .. Len(s) => u[k].kind # "rotation"
    BY <1>4, <1>5 DEF PartKinds
  <1>7. ASSUME NEW i \in SinceRotation(s, kinds) PROVE i \in SinceRotation(u, kinds)
    <2>1. i \in 1 .. Len(s) /\ u[i].kind \in kinds /\ i \in DOMAIN u
      BY <1>1, <1>2, <1>3 DEF SinceRotation, At
    <2>2. \A k \in i .. Len(u) : u[k].kind # "rotation"
      <3> TAKE k \in i .. Len(u)
      <3>1. k \in DOMAIN u /\ (k \in 1 .. Len(s) => k \in i .. Len(s))
        BY <1>2, <1>5, <2>1
      <3> QED BY <1>3, <1>6, <3>1 DEF SinceRotation
    <2> QED BY <2>1, <2>2 DEF SinceRotation, At
  <1>8. e.kind \in kinds => Len(u) \in SinceRotation(u, kinds)
    <2>1. \A k \in Len(u) .. Len(u) : k = Len(u)
      BY <1>5
    <2> QED BY <1>5, <1>6, <2>1, <1>2 DEF SinceRotation, At, PartKinds
  <1>9. ASSUME NEW i \in SinceRotation(u, kinds)
        PROVE  i \in SinceRotation(s, kinds) \/ (e.kind \in kinds /\ i = Len(u))
    <2>1. i \in DOMAIN u /\ u[i].kind \in kinds
      BY DEF SinceRotation, At
    <2>2. CASE i = Len(u)
      BY <1>5, <2>1, <2>2
    <2>3. CASE i # Len(u)
      <3>1. i \in 1 .. Len(s) /\ s[i].kind \in kinds
        BY <1>3, <1>4, <2>1, <2>3
      <3>2. \A k \in i .. Len(s) : k \in i .. Len(u) /\ u[k] = s[k]
        BY <1>1, <1>2, <1>3, <3>1
      <3> QED BY <1>2, <3>1, <3>2 DEF SinceRotation, At
    <2> QED BY <2>2, <2>3
  <1>10. SinceRotation(u, kinds) = SinceRotation(s, kinds) \cup (IF e.kind \in kinds THEN {Len(u)} ELSE {})
    BY <1>7, <1>8, <1>9
  <1>11. \A i \in SinceRotation(s, kinds) : u[i] = s[i]
    BY <1>2, <1>3 DEF SinceRotation, At
  <1> QED BY <1>1, <1>5, <1>10, <1>11 DEF u

LEMMA AtAfter ==
  ASSUME NEW p \in Seq(AnyEvent), NEW e \in AnyEvent, NEW kinds
  PROVE  LET a == Len(p) + 1
         IN  /\ Append(p, e) \in Seq(AnyEvent) /\ a \in Nat /\ Append(p, e)[a] = e
             /\ DOMAIN Append(p, e) = DOMAIN p \cup {a}
             /\ \A i \in DOMAIN p : i < a
             /\ At(Append(p, e), kinds) = At(p, kinds) \cup (IF e.kind \in kinds THEN {a} ELSE {})
             /\ \A i \in DOMAIN p : Append(p, e)[i] = p[i]
  <1> DEFINE q == Append(p, e)
  <1>1. /\ q \in Seq(AnyEvent) /\ Len(q) = Len(p) + 1
        /\ \A i \in 1 .. Len(p) : q[i] = p[i]
        /\ q[Len(p) + 1] = e
    BY AppendProperties
  <1> HIDE DEF q
  <1>2. Len(p) \in Nat /\ DOMAIN p = 1 .. Len(p) /\ DOMAIN q = 1 .. Len(p) + 1
    BY <1>1, LenProperties
  <1>3. DOMAIN q = DOMAIN p \cup {Len(p) + 1} /\ \A i \in DOMAIN p : i < Len(p) + 1
    BY <1>2
  <1>4. At(q, kinds) = At(p, kinds) \cup (IF e.kind \in kinds THEN {Len(p) + 1} ELSE {})
    BY <1>1, <1>2, <1>3 DEF At
  <1> QED BY <1>1, <1>2, <1>3, <1>4 DEF q

\* The parts p and the text t of a reply are those of the stream s; its tool
\* calls, too, where all is said to be there.
Same(p, s, kinds) == SameInOrder(p, At(p, kinds), s, SinceRotation(s, kinds))
Agrees(p, s, t, all) ==
    /\ all => Same(p, s, PartKinds)
    /\ Same(p, s, {"content"})
    /\ SameInOrder(p, At(p, {"content"}), t, DOMAIN t)

LEMMA Subkinds == PartKinds \in SUBSET PartKinds /\ {"content"} \in SUBSET PartKinds
  BY DEF PartKinds

LEMMA SinceIn == ASSUME NEW s \in Seq(AnyEvent), NEW kinds
                 PROVE SinceRotation(s, kinds) \subseteq 1 .. Len(s) /\ Len(s) \in Nat
  BY LenProperties DEF At, SinceRotation

LEMMA SamePlain ==
  ASSUME NEW p, NEW s \in Seq(AnyEvent), NEW es, Plain(es), NEW kinds \in SUBSET PartKinds,
         Same(p, s, kinds)
  PROVE  Same(p, s \o es, kinds)
  <1>1. SinceRotation(s \o es, kinds) = SinceRotation(s, kinds)
        /\ \A i \in SinceRotation(s, kinds) : (s \o es)[i] = s[i]
    BY PlainAfter
  <1> QED BY <1>1, SameKept DEF Same

\* One more part, on both sides.
LEMMA SamePart ==
  ASSUME NEW p \in Seq(AnyEvent), NEW s \in Seq(AnyEvent), NEW es, NEW e, Lasts(es, e),
         NEW kinds \in SUBSET PartKinds, e.kind \in PartKinds, Same(p, s, kinds)
  PROVE  Same(Append(p, e), s \o es, kinds)
  <1> PICK a : a = Len(p) + 1
    OBVIOUS
  <1> PICK b : b = Len(s \o es)
    OBVIOUS
  <1> PICK q : q = Append(p, e)
    OBVIOUS
  <1> PICK u : u = s \o es
    OBVIOUS
  <1>1. /\ a \in Nat /\ q[a] = e /\ \A i \in DOMAIN p : i < a /\ q[i] = p[i]
        /\ At(q, kinds) = At(p, kinds) \cup (IF e.kind \in kinds THEN {a} ELSE {})
    BY AtAfter DEF Lasts
  <1>2. /\ b \in Nat /\ b > Len(s) /\ u[b] = e
        /\ SinceRotation(u, kinds) = SinceRotation(s, kinds) \cup (IF e.kind \in kinds THEN {b} ELSE {})
        /\ \A i \in SinceRotation(s, kinds) : u[i] = s[i]
    <2>1. LET c == Len(s \o es)
          IN  /\ s \o es \in Seq(AnyEvent) /\ c \in Nat /\ c > Len(s) /\ (s \o es)[c] = e
              /\ SinceRotation(s \o es, kinds) =
                     SinceRotation(s, kinds) \cup (IF e.kind \in kinds THEN {c} ELSE {})
              /\ \A i \in SinceRotation(s, kinds) : (s \o es)[i] = s[i]
      BY PartAfter, Zenon
    <2> QED BY <2>1
  <1>3. At(p, kinds) \in SUBSET Nat /\ \A i \in At(p, kinds) : i < a /\ q[i] = p[i]
    BY <1>1, AtIn DEF At
  <1>4. SinceRotation(s, kinds) \in SUBSET Nat /\ \A i \in SinceRotation(s, kinds) : i < b
    BY <1>2, SinceIn
  <1> DEFINE I == At(p, kinds)  J == SinceRotation(s, kinds)
  <1>5. SameInOrder(p, I, s, J) /\ I \in SUBSET Nat /\ J \in SUBSET Nat
    BY <1>3, <1>4 DEF Same
  <1>6. (\A i \in I : i < a /\ q[i] = p[i]) /\ (\A j \in J : j < b /\ u[j] = s[j]) /\ q[a] = u[b]
    BY <1>1, <1>2, <1>3, <1>4
  <1> HIDE DEF I, J
  <1>7. CASE e.kind \in kinds
    <2>1. (\A i \in I : i < a) /\ (\A j \in J : j < b) /\ a \in Nat /\ b \in Nat
      BY <1>1, <1>2, <1>6
    <2>2. (\A i \in I : q[i] = p[i]) /\ (\A j \in J : u[j] = s[j]) /\ q[a] = u[b]
      BY <1>6
    <2>3. Adds(p, I, a, q) /\ Adds(s, J, b, u)
      BY <1>5, <2>1, <2>2 DEF Adds
    <2>4. SameInOrder(q, I \cup {a}, u, J \cup {b})
      BY <1>5, <2>2, <2>3, SameGrows
    <2> QED BY <1>1, <1>2, <1>7, <2>4 DEF I, J, Same
  <1>8. CASE e.kind \notin kinds
    <2>1. SameInOrder(q, I, u, J)
      BY <1>5, <1>6, SameKept
    <2>2. At(q, kinds) = I /\ SinceRotation(u, kinds) = J
      BY <1>1, <1>2, <1>8 DEF I, J
    <2> QED BY <2>1, <2>2 DEF Same
  <1> QED BY <1>7, <1>8

\* An item that is not of these kinds.
LEMMA SameAside ==
  ASSUME NEW p \in Seq(AnyEvent), NEW e \in AnyEvent, NEW kinds, e.kind \notin kinds,
         NEW t, NEW J, SameInOrder(p, At(p, kinds), t, J)
  PROVE  SameInOrder(Append(p, e), At(Append(p, e), kinds), t, J)
  <1>1. At(Append(p, e), kinds) = At(p, kinds) /\ \A i \in At(p, kinds) : Append(p, e)[i] = p[i]
    BY AtAfter DEF At
  <1> QED BY <1>1, SameKept

\* An item put in between changes nothing if it is not of these kinds.
LEMMA SameAround ==
  ASSUME NEW p \in Seq(AnyEvent), NEW q \in Seq(AnyEvent), NEW c \in AnyEvent, NEW kinds,
         c.kind \notin kinds, NEW t, NEW J, SameInOrder(p \o q, At(p \o q, kinds), t, J)
  PROVE  LET r == Append(p, c) \o q IN SameInOrder(r, At(r, kinds), t, J)
  <1> PICK n : n = Len(p)
    OBVIOUS
  <1> PICK l : l = Len(q)
    OBVIOUS
  <1> PICK pc2 : pc2 = Append(p, c)
    OBVIOUS
  <1> PICK s : s = p \o q
    OBVIOUS
  <1> PICK r : r = pc2 \o q
    OBVIOUS
  <1>1. n \in Nat /\ l \in Nat /\ DOMAIN p = 1 .. n /\ DOMAIN q = 1 .. l
    BY LenProperties
  <1>2. /\ pc2 \in Seq(AnyEvent) /\ Len(pc2) = n + 1 /\ \A i \in 1 .. n : pc2[i] = p[i]
        /\ pc2[n + 1] = c
    BY AppendProperties
  <1>3. /\ s \in Seq(AnyEvent) /\ Len(s) = n + l
        /\ \A i \in 1 .. n + l : s[i] = IF i <= n THEN p[i] ELSE q[i - n]
    BY ConcatProperties
  <1>4. /\ r \in Seq(AnyEvent) /\ Len(r) = (n + 1) + l
        /\ \A i \in 1 .. (n + 1) + l : r[i] = IF i <= n + 1 THEN pc2[i] ELSE q[i - (n + 1)]
    BY <1>2, ConcatProperties
  <1>5. DOMAIN s = 1 .. n + l /\ DOMAIN r = 1 .. n + 1 + l
    BY <1>1, <1>3, <1>4, LenProperties
  <1>6. r[n + 1] = c /\ n + 1 \in 1 .. (n + 1) + l
    <2>1. n + 1 \in 1 .. (n + 1) + l /\ n + 1 <= n + 1
      BY <1>1
    <2> QED BY <1>2, <1>4, <2>1
  <1>7. \A i \in 1 .. n : r[i] = s[i]
    BY <1>1, <1>2, <1>3, <1>4
  <1>8. \A i \in n + 2 .. n + 1 + l : i - 1 \in 1 .. n + l /\ r[i] = s[i - 1]
    <2> TAKE i \in n + 2 .. n + 1 + l
    <2>1. i - 1 \in 1 .. n + l /\ i \in 1 .. (n + 1) + l /\ ~(i <= n + 1) /\ ~(i - 1 <= n)
          /\ (i - 1) - n = i - (n + 1)
      BY <1>1
    <2> QED BY <1>3, <1>4, <2>1
  <1> DEFINE I == At(s, kinds)  I2 == At(r, kinds)
             g == [i \in I2 |-> IF i <= n THEN i ELSE i - 1]
  <1>9. \A i \in I2 : i # n + 1 /\ i \in Nat /\ (i \in 1 .. n \/ i \in n + 2 .. n + 1 + l)
    <2>1. n + 1 \notin I2
      BY <1>6 DEF At
    <2> QED BY <1>1, <1>5, <2>1 DEF At
  <1>10. ASSUME NEW i \in I2 PROVE g[i] \in I /\ r[i] = s[g[i]] /\ g[i] = IF i <= n THEN i ELSE i - 1
    <2>0. r[i].kind \in kinds
      BY DEF At
    <2>1. CASE i \in 1 .. n
      BY <1>1, <1>5, <1>7, <2>0, <2>1 DEF At
    <2>2. CASE i \in n + 2 .. n + 1 + l
      <3>1. ~(i <= n) /\ i - 1 \in 1 .. n + l /\ r[i] = s[i - 1] /\ g[i] = i - 1
        BY <1>1, <1>8, <2>2
      <3> QED BY <1>5, <2>0, <3>1 DEF At
    <2> QED BY <1>9, <2>1, <2>2
  <1>11. ASSUME NEW j \in I PROVE \E i \in I2 : g[i] = j
    <2>1. j \in 1 .. n + l /\ s[j].kind \in kinds
      BY <1>5 DEF At
    <2>2. CASE j <= n
      <3>1. j \in 1 .. n /\ j \in I2
        BY <1>1, <1>5, <1>7, <2>1, <2>2 DEF At
      <3> QED BY <2>2, <3>1
    <2>3. CASE ~(j <= n)
      <3>1. j + 1 \in n + 2 .. n + 1 + l /\ (j + 1) - 1 = j /\ ~(j + 1 <= n)
        BY <1>1, <2>1, <2>3
      <3>2. j + 1 \in I2
        <4>1. r[j + 1] = s[(j + 1) - 1]
          BY <1>8, <3>1
        <4>2. j + 1 \in DOMAIN r
          BY <1>1, <1>5, <3>1
        <4> QED BY <2>1, <3>1, <4>1, <4>2 DEF At
      <3> QED BY <3>1, <3>2
    <2> QED BY <2>2, <2>3
  <1>12. g \in [I2 -> I]
    BY <1>10
  <1>13. \A h, i \in I2 : h < i => g[h] < g[i]
    BY <1>1, <1>9, <1>10
  <1>14. SameInOrder(s, I, t, J)
    OBVIOUS
  <1> HIDE DEF I, I2, g
  <1>15. (\A i \in I : \E h \in I2 : g[h] = i) /\ \A i \in I2 : r[i] = s[g[i]]
    BY <1>10, <1>11
  <1>16. Moves(s, I, r, I2, g)
    BY <1>12, <1>13, <1>15 DEF Moves
  <1>17. SameInOrder(r, I2, t, J)
    BY <1>14, <1>16, SameMoved
  <1> QED BY <1>17 DEF I2

\* What the steps add to both.
LEMMA AgreesPlain ==
  ASSUME NEW p, NEW s \in Seq(AnyEvent), NEW t, NEW all, NEW all2, all2 => all,
         Agrees(p, s, t, all), NEW es, Plain(es)
  PROVE  Agrees(p, s \o es, t, all2)
  BY SamePlain, Subkinds DEF Agrees

LEMMA AgreesText ==
  ASSUME NEW p \in Seq(AnyEvent), NEW s \in Seq(AnyEvent), NEW t \in Seq(AnyEvent),
         NEW all, NEW all2, all2 => all, Agrees(p, s, t, all),
         NEW es, NEW e, Lasts(es, e), e.kind = "content"
  PROVE  Agrees(Append(p, e), s \o es, Append(t, e), all2)
  <1>1. e.kind \in PartKinds /\ e \in AnyEvent
    BY DEF PartKinds, Lasts
  <1>2. (all2 => Same(Append(p, e), s \o es, PartKinds)) /\ Same(Append(p, e), s \o es, {"content"})
    BY <1>1, SamePart, Subkinds DEF Agrees
  <1> PICK a : a = Len(p) + 1
    OBVIOUS
  <1> PICK b : b = Len(t) + 1
    OBVIOUS
  <1> PICK q : q = Append(p, e)
    OBVIOUS
  <1> PICK u : u = Append(t, e)
    OBVIOUS
  <1> DEFINE I == At(p, {"content"})  J == DOMAIN t
  <1>3. /\ a \in Nat /\ q[a] = e /\ \A i \in DOMAIN p : i < a /\ q[i] = p[i]
        /\ At(q, {"content"}) = I \cup {a}
    BY <1>1, AtAfter
  <1>4. /\ b \in Nat /\ u[b] = e /\ \A j \in J : j < b /\ u[j] = t[j]
        /\ DOMAIN u = J \cup {b}
    BY <1>1, AtAfter
  <1>5. SameInOrder(p, I, t, J) /\ I \in SUBSET Nat /\ J \in SUBSET Nat
    BY AtIn, LenProperties DEF Agrees
  <1>6. \A i \in I : i < a /\ q[i] = p[i]
    BY <1>3 DEF At
  <1> HIDE DEF I, J
  <1>7. (\A i \in I : i < a) /\ (\A j \in J : j < b) /\ a \in Nat /\ b \in Nat
    BY <1>3, <1>4, <1>6
  <1>8. (\A i \in I : q[i] = p[i]) /\ (\A j \in J : u[j] = t[j]) /\ q[a] = u[b]
    BY <1>3, <1>4, <1>6
  <1>9. Adds(p, I, a, q) /\ Adds(t, J, b, u)
    BY <1>5, <1>7, <1>8 DEF Adds
  <1>10. SameInOrder(q, I \cup {a}, u, J \cup {b})
    BY <1>5, <1>8, <1>9, SameGrows
  <1> QED BY <1>2, <1>3, <1>4, <1>10 DEF Agrees

LEMMA AgreesCall ==
  ASSUME NEW p \in Seq(AnyEvent), NEW s \in Seq(AnyEvent), NEW t \in Seq(AnyEvent),
         NEW all, NEW all2, all2 => all, Agrees(p, s, t, all),
         NEW es, NEW e \in AnyEvent, e.kind = "tool", Lasts(es, e) \/ (Plain(es) /\ ~all2)
  PROVE  Agrees(Append(p, e), s \o es, t, all2)
  <1>1. e.kind \in PartKinds /\ e.kind \notin {"content"}
    BY DEF PartKinds
  <1>2. SameInOrder(Append(p, e), At(Append(p, e), {"content"}), t, DOMAIN t)
    BY <1>1, SameAside DEF Agrees
  <1>3. CASE Lasts(es, e)
    BY <1>1, <1>2, <1>3, SamePart, Subkinds DEF Agrees
  <1>4. CASE Plain(es) /\ ~all2
    <2>1. Same(p, s \o es, {"content"})
      BY <1>4, SamePlain, Subkinds DEF Agrees
    <2>2. Same(Append(p, e), s \o es, {"content"})
      BY <1>1, <2>1, SameAside DEF Same
    <2> QED BY <1>2, <1>4, <2>2 DEF Agrees
  <1> QED BY <1>3, <1>4

LEMMA AgreesChart ==
  ASSUME NEW p \in Seq(AnyEvent), NEW q \in Seq(AnyEvent), NEW s \in Seq(AnyEvent), NEW t,
         NEW all, NEW all2, all2 => all, Agrees(p \o q, s, t, all),
         NEW es, Plain(es), NEW c \in AnyEvent, c.kind = "chart"
  PROVE  Agrees(Append(p, c) \o q, s \o es, t, all2)
  <1>1. c.kind \notin PartKinds /\ c.kind \notin {"content"}
    BY DEF PartKinds
  <1>2. Agrees(p \o q, s \o es, t, all2)
    BY AgreesPlain, ConcatProperties
  <1> QED BY <1>1, <1>2, SameAround DEF Agrees, Same

LEMMA AgreesAtFirst ==
  ASSUME NEW s \in Seq(AnyEvent), SinceRotation(s, PartKinds) = {}
  PROVE  Agrees(<<>> \o <<>>, s, <<>>, TRUE)
  <1>1. SinceRotation(s, {"content"}) = {}
    BY DEF SinceRotation, At, PartKinds
  <1>2. \A kinds : At(<<>> \o <<>>, kinds) = {} /\ DOMAIN <<>> = {}
    BY ConcatEmptySeq DEF At
  <1> QED BY <1>1, <1>2, SameOfNone DEF Agrees, Same

-----------------------------------------------------------------------------
\* What of that the proxies send.
LEMMA PlainNone == Plain(<<>>)
  BY DEF Plain

LEMMA PlainOne ==
  ASSUME NEW k \in Kinds \ {"content", "tool", "rotation"}, NEW n \in Nat
  PROVE  Plain(<<Ev(k, n)>>)
  <1> PICK e : e = Ev(k, n)
    OBVIOUS
  <1>1. e \in AnyEvent /\ e.kind \notin PartKinds \cup {"rotation"}
    BY EvTyped DEF PartKinds
  <1>2. <<e>> \in Seq(AnyEvent) /\ DOMAIN <<e>> = {1} /\ <<e>>[1] = e
    BY <1>1
  <1> QED BY <1>1, <1>2 DEF Plain

LEMMA PlainBoth ==
  ASSUME NEW s, NEW t, Plain(s), Plain(t)
  PROVE  Plain(s \o t)
  <1> PICK u : u = s \o t
    OBVIOUS
  <1>1. /\ u \in Seq(AnyEvent) /\ Len(u) = Len(s) + Len(t)
        /\ \A i \in 1 .. Len(s) + Len(t) : u[i] = IF i <= Len(s) THEN s[i] ELSE t[i - Len(s)]
    BY ConcatProperties DEF Plain
  <1>2. /\ Len(s) \in Nat /\ Len(t) \in Nat /\ DOMAIN s = 1 .. Len(s) /\ DOMAIN t = 1 .. Len(t)
        /\ DOMAIN u = 1 .. Len(s) + Len(t)
    BY <1>1, LenProperties DEF Plain
  <1>3. ASSUME NEW i \in DOMAIN u PROVE u[i].kind \notin PartKinds \cup {"rotation"}
    <2>1. (i \in DOMAIN s /\ u[i] = s[i]) \/ (i - Len(s) \in DOMAIN t /\ u[i] = t[i - Len(s)])
      BY <1>1, <1>2
    <2> QED BY <2>1 DEF Plain
  <1> QED BY <1>1, <1>3 DEF Plain

LEMMA LastsAfter ==
  ASSUME NEW s, Plain(s), NEW e \in AnyEvent
  PROVE  Lasts(s \o <<e>>, e)
  <1>1. s \in Seq(AnyEvent) /\ s \o <<e>> = Append(s, e)
    BY AppendIsConcat DEF Plain
  <1> PICK u : u = Append(s, e)
    OBVIOUS
  <1>2. /\ u \in Seq(AnyEvent) /\ Len(u) = Len(s) + 1
        /\ \A i \in 1 .. Len(s) : u[i] = s[i]
        /\ u[Len(s) + 1] = e
    BY <1>1, AppendProperties
  <1>3. Len(s) \in Nat /\ DOMAIN s = 1 .. Len(s) /\ DOMAIN u = 1 .. Len(s) + 1
    BY <1>1, <1>2, LenProperties
  <1>4. \A i \in DOMAIN u : i # Len(u) => i \in DOMAIN s /\ u[i] = s[i]
    BY <1>2, <1>3
  <1>5. Len(u) > 0 /\ u[Len(u)] = e
    BY <1>2, <1>3
  <1>6. Lasts(u, e)
    BY <1>2, <1>4, <1>5 DEF Lasts, Plain
  <1> QED BY <1>1, <1>6

LEMMA PlainPart ==
  ASSUME NEW s, Plain(s), NEW n \in DOMAIN s
  PROVE  Plain(SubSeq(s, 1, n))
  <1> DEFINE t == SubSeq(s, 1, n)
  <1>1. s \in Seq(AnyEvent) /\ n \in 1 .. Len(s) /\ DOMAIN s = 1 .. Len(s) /\ Len(s) \in Nat
    BY LenProperties DEF Plain
  <1>2. t \in Seq(AnyEvent) /\ DOMAIN t = 1 .. n /\ \A i \in 1 .. n : t[i] = s[i]
    BY <1>1, SubSeqProperties, LenProperties
  <1> HIDE DEF t
  <1>3. Plain(t)
    BY <1>1, <1>2 DEF Plain
  <1> QED BY <1>3 DEF t

LEMMA PlainEdges == Plain(Opening) /\ Plain(Closing) /\ Plain(RunError)
  BY PlainNone, PlainOne DEF Opening, Closing, RunError, Kinds

LEMMA PlainMessage ==
  ASSUME NEW first \in {"thinking", "again"}, NEW then \in {"thought", "notice"}, NEW n \in Nat
  PROVE  Plain(<<Ev(first, 0), Ev(then, n), Ev("end", 0)>>)
  <1> PICK a : a = Ev(first, 0)
    OBVIOUS
  <1> PICK b : b = Ev(then, n)
    OBVIOUS
  <1> PICK c : c = Ev("end", 0)
    OBVIOUS
  <1>1. /\ a \in AnyEvent /\ b \in AnyEvent /\ c \in AnyEvent
        /\ {a.kind, b.kind, c.kind} \cap (PartKinds \cup {"rotation"}) = {}
    BY EvTyped DEF Kinds, PartKinds
  <1> PICK s : s = <<a, b, c>>
    OBVIOUS
  <1>2. s \in Seq(AnyEvent) /\ DOMAIN s = {1, 2, 3} /\ s[1] = a /\ s[2] = b /\ s[3] = c
    BY <1>1
  <1>3. Plain(s)
    BY <1>1, <1>2 DEF Plain
  <1> QED BY <1>3

LEMMA PlainThought ==
  ASSUME NEW n \in Nat
  PROVE  Plain(Closing \o <<Ev("thinking", 0), Ev("thought", n), Ev("end", 0)>>)
  BY PlainEdges, PlainMessage, PlainBoth

LEMMA RotationShown ==
  ASSUME NEW s \in Seq(AnyEvent)
  PROVE  SinceRotation(s \o Notice("rotation"), PartKinds) = {}
  <1> PICK a : a = Ev("rotation", 0)
    OBVIOUS
  <1> PICK b : b = Ev("notice", 0)
    OBVIOUS
  <1> PICK c : c = Ev("end", 0)
    OBVIOUS
  <1>1. /\ a \in AnyEvent /\ b \in AnyEvent /\ c \in AnyEvent
        /\ a.kind = "rotation" /\ b.kind \notin PartKinds /\ c.kind \notin PartKinds
    BY EvTyped DEF Kinds, PartKinds
  <1> PICK t : t = <<a, b, c>>
    OBVIOUS
  <1>2. t \in Seq(AnyEvent) /\ Len(t) = 3 /\ t[1] = a /\ t[2] = b /\ t[3] = c
    BY <1>1
  <1>3. Notice("rotation") = t
    BY DEF Notice
  <1> PICK u : u = s \o t
    OBVIOUS
  <1> PICK n : n = Len(s)
    OBVIOUS
  <1>4. /\ u \in Seq(AnyEvent) /\ Len(u) = n + 3
        /\ \A i \in 1 .. n + 3 : u[i] = IF i <= n THEN s[i] ELSE t[i - n]
    BY <1>2, ConcatProperties
  <1>5. n \in Nat /\ DOMAIN u = 1 .. n + 3
    BY <1>4, LenProperties
  <1>6. u[n + 1] = a /\ u[n + 2] = b /\ u[n + 3] = c
    <2>1. (n + 1) - n = 1 /\ (n + 2) - n = 2 /\ (n + 3) - n = 3
      BY <1>5
    <2> QED BY <1>2, <1>4, <1>5, <2>1
  <1>7. ASSUME NEW i \in SinceRotation(u, PartKinds) PROVE FALSE
    <2>1. i \in 1 .. n + 3 /\ u[i].kind \in PartKinds
          /\ \A k \in i .. n + 3 : u[k].kind # "rotation"
      BY <1>4, <1>5 DEF SinceRotation, At
    <2>2. ~(i <= n + 1)
      <3>1. i <= n + 1 => n + 1 \in i .. n + 3
        BY <1>5, <2>1
      <3> QED BY <1>1, <1>6, <2>1, <3>1
    <2>3. i = n + 2 \/ i = n + 3
      BY <1>5, <2>1, <2>2
    <2> QED BY <1>1, <1>6, <2>1, <2>3
  <1> QED BY <1>3, <1>7

-----------------------------------------------------------------------------
(* What a step is to the parts.  A reply is settled by its outcome; one    *)
(* that is lost, or that is a document's, need not agree.                  *)
CallsShown == (connected \/ protocol # "a2a") /\ ~limited
Settled == pc = "done" /\ (outcome = "none" \/ At(sent, {"document"}) # {})
PartsTyped == parts \in Seq(AnyEvent) /\ segment \in Seq(AnyEvent) /\ text \in Seq(AnyEvent)
StoredInv ==
    ~Settled =>
        /\ PartsTyped
        /\ pc \in {"rotate", "again", "done"} => segment = <<>>
        /\ pc = "retry" => SinceRotation(events, PartKinds) = {}
        /\ pc # "retry" => Agrees(parts \o segment, events, text, CallsShown)

Aside == \E es :
    /\ Plain(es) /\ events' = events \o es
    /\ UNCHANGED text
    /\ UNCHANGED <<parts, segment>> \/ (parts' = parts \o segment /\ segment' = <<>>)
Charting == \E es, c :
    /\ Plain(es) /\ events' = events \o es
    /\ c \in AnyEvent /\ c.kind = "chart"
    /\ parts' = Append(parts, c)
    /\ UNCHANGED <<segment, text>>
Texting == \E es, e :
    /\ Lasts(es, e) /\ e.kind = "content" /\ events' = events \o es
    /\ segment' = Append(segment, e) /\ text' = Append(text, e)
    /\ UNCHANGED parts
Asking == \E es, e :
    /\ e \in AnyEvent /\ e.kind = "tool"
    /\ Lasts(es, e) \/ (Plain(es) /\ ~CallsShown')
    /\ events' = events \o es
    /\ parts' = parts \o segment \o <<e>> /\ segment' = <<>>
    /\ UNCHANGED text
Ordering ==
    /\ pc # "retry" /\ pc' # "retry"
    /\ CallsShown' => CallsShown
    /\ pc' \in {"rotate", "again", "done"} => segment' = <<>>
    /\ Aside \/ Charting \/ Texting \/ Asking
Turning == pc = "rotate" /\ pc' = "retry" /\ events' = events \o Notice("rotation")
              /\ UNCHANGED <<parts, segment, text>>
Anew == pc = "retry" /\ pc' = "stream" /\ events' = events \o <<>>
           /\ parts' = <<>> /\ segment' = <<>> /\ text' = <<>>

LEMMA OrderKept ==
  ASSUME events \in Seq(AnyEvent), StoredInv, ~Settled, Ordering
  PROVE  StoredInv'
  <1>1. /\ parts \in Seq(AnyEvent) /\ segment \in Seq(AnyEvent) /\ text \in Seq(AnyEvent)
        /\ Agrees(parts \o segment, events, text, CallsShown)
        /\ CallsShown' => CallsShown
    BY DEF StoredInv, PartsTyped, Ordering
  <1>2. parts \o segment \in Seq(AnyEvent)
    BY <1>1, ConcatProperties
  <1> SUFFICES PartsTyped' /\ Agrees(parts' \o segment', events', text', CallsShown')
    BY DEF Ordering, StoredInv
  <1>3. CASE Aside
    <2>1. PICK es : Plain(es) /\ events' = events \o es
      BY <1>3 DEF Aside
    <2>2. Agrees(parts \o segment, events \o es, text, CallsShown')
      BY <1>1, <2>1, AgreesPlain
    <2>3. /\ parts' \o segment' = parts \o segment /\ parts' \in Seq(AnyEvent)
          /\ segment' \in Seq(AnyEvent) /\ text' = text
      <3>1. text' = text
            /\ (UNCHANGED <<parts, segment>> \/ (parts' = parts \o segment /\ segment' = <<>>))
        BY <1>3 DEF Aside
      <3>2. CASE UNCHANGED <<parts, segment>>
        BY <1>1, <3>1, <3>2
      <3>3. CASE parts' = parts \o segment /\ segment' = <<>>
        <4>1. (parts \o segment) \o <<>> = parts \o segment
          BY <1>2, ConcatEmptySeq
        <4>2. segment' \in Seq(AnyEvent)
          BY <3>3
        <4> QED BY <1>2, <3>1, <3>3, <4>1, <4>2
      <3> QED BY <3>1, <3>2, <3>3
    <2> QED BY <1>1, <2>1, <2>2, <2>3 DEF PartsTyped
  <1>4. CASE Charting
    <2>1. PICK es, c :
            /\ Plain(es) /\ events' = events \o es
            /\ c \in AnyEvent /\ c.kind = "chart"
            /\ parts' = Append(parts, c)
            /\ UNCHANGED <<segment, text>>
      BY <1>4 DEF Charting
    <2>2. Agrees(Append(parts, c) \o segment, events \o es, text, CallsShown')
      BY <1>1, <2>1, AgreesChart
    <2>3. Append(parts, c) \in Seq(AnyEvent)
      BY <1>1, <2>1, AppendProperties
    <2> QED BY <1>1, <2>1, <2>2, <2>3 DEF PartsTyped
  <1>5. CASE Texting
    <2>1. PICK es, e :
            /\ Lasts(es, e) /\ e.kind = "content" /\ events' = events \o es
            /\ segment' = Append(segment, e) /\ text' = Append(text, e)
            /\ UNCHANGED parts
      BY <1>5 DEF Texting
    <2>2. Agrees(Append(parts \o segment, e), events \o es, Append(text, e), CallsShown')
      BY <1>1, <1>2, <2>1, AgreesText
    <2>3. e \in AnyEvent /\ Append(segment, e) \in Seq(AnyEvent) /\ Append(text, e) \in Seq(AnyEvent)
      BY <1>1, <2>1, AppendProperties DEF Lasts
    <2>4. parts \o Append(segment, e) = Append(parts \o segment, e)
      <3>1. <<e>> \in Seq(AnyEvent) /\ Append(segment, e) = segment \o <<e>>
        BY <1>1, <2>3, AppendIsConcat
      <3>2. parts \o (segment \o <<e>>) = (parts \o segment) \o <<e>>
        BY <1>1, <3>1, ConcatAssociative
      <3>3. (parts \o segment) \o <<e>> = Append(parts \o segment, e)
        BY <1>2, <2>3, AppendIsConcat
      <3> QED BY <3>1, <3>2, <3>3
    <2> QED BY <1>1, <2>1, <2>2, <2>3, <2>4 DEF PartsTyped
  <1>6. CASE Asking
    <2>1. PICK es, e :
            /\ e \in AnyEvent /\ e.kind = "tool"
            /\ Lasts(es, e) \/ (Plain(es) /\ ~CallsShown')
            /\ events' = events \o es
            /\ parts' = parts \o segment \o <<e>> /\ segment' = <<>>
            /\ UNCHANGED text
      BY <1>6 DEF Asking
    <2>2. Agrees(Append(parts \o segment, e), events \o es, text, CallsShown')
      BY <1>1, <1>2, <2>1, AgreesCall
    <2>3. parts' = Append(parts \o segment, e) /\ Append(parts \o segment, e) \in Seq(AnyEvent)
      BY <1>2, <2>1, AppendIsConcat, AppendProperties
    <2>4. parts' \o segment' = parts' /\ segment' \in Seq(AnyEvent)
      BY <2>1, <2>3, ConcatEmptySeq
    <2> QED BY <1>1, <2>1, <2>2, <2>3, <2>4 DEF PartsTyped
  <1> QED BY <1>3, <1>4, <1>5, <1>6 DEF Ordering

LEMMA TurnKept ==
  ASSUME events \in Seq(AnyEvent), StoredInv, Turning \/ Anew
  PROVE  StoredInv'
  <1>1. CASE Turning
    BY <1>1, RotationShown DEF Turning, StoredInv, Settled, PartsTyped
  <1>2. CASE Anew
    <2>1. events' = events /\ SinceRotation(events, PartKinds) = {}
      BY <1>2, EmptyMeans DEF Anew, StoredInv, Settled
    <2>2. Agrees(<<>> \o <<>>, events, <<>>, TRUE)
      BY <2>1, AgreesAtFirst
    <2>3. Agrees(<<>> \o <<>>, events, <<>>, CallsShown')
      BY <2>2 DEF Agrees
    <2>4. PartsTyped'
      BY <1>2 DEF Anew, PartsTyped
    <2> QED BY <1>2, <2>1, <2>3, <2>4 DEF Anew, StoredInv
  <1> QED BY <1>1, <1>2

-----------------------------------------------------------------------------
\* What the steps are to the parts: one of these, or the reply is settled.
LEMMA SentEvents ==
  ASSUME NEW es, Send(es) \/ SendBlindly(es) \/ SendAllOf(es)
  PROVE  events' = events \o es
  BY DEF Send, SendBlindly, SendAllOf

LEMMA TextMade ==
  ASSUME StreamTyped, NEW n \in Nat, events' = events \o (Opening \o <<Ev("content", n)>>),
         Captures(n)
  PROVE  Texting
  <1> PICK e : e = Ev("content", n)
    OBVIOUS
  <1> PICK es : es = Opening \o <<e>>
    OBVIOUS
  <1>1. e \in AnyEvent /\ e.kind = "content"
    BY EvTyped DEF Kinds
  <1>2. Lasts(es, e)
    BY <1>1, LastsAfter, PlainEdges
  <1>3. events' = events \o es /\ segment' = Append(segment, e) /\ text' = Append(text, e)
        /\ UNCHANGED parts
    BY DEF Captures
  <1> QED BY <1>1, <1>2, <1>3 DEF Texting

LEMMA CallMade ==
  ASSUME StreamTyped, NEW name, CapturesCall(name),
         \/ events' = events \o (Closing \o <<Ev("tool", Len(calls) + 1)>>)
         \/ events' = events \o <<>> /\ ~CallsShown'
  PROVE  Asking
  <1> PICK n : n = Len(calls) + 1
    OBVIOUS
  <1> PICK e : e = Ev("tool", n)
    OBVIOUS
  <1> PICK es : es = Closing \o <<e>>
    OBVIOUS
  <1>0. n \in Nat
    BY Numbers
  <1>1. e \in AnyEvent /\ e.kind = "tool"
    BY <1>0, EvTyped DEF Kinds
  <1>2. Lasts(es, e)
    BY <1>1, LastsAfter, PlainEdges
  <1>3. parts' = parts \o segment \o <<e>> /\ segment' = <<>> /\ UNCHANGED text
    BY DEF CapturesCall
  <1>4. CASE events' = events \o es
    BY <1>1, <1>2, <1>3, <1>4 DEF Asking
  <1>5. CASE events' = events \o <<>> /\ ~CallsShown'
    BY <1>1, <1>3, <1>5, PlainNone DEF Asking
  <1> QED BY <1>4, <1>5

\* Nothing is shown or kept, or what is shown is no part of the reply.
LEMMA AsideSaid ==
  ASSUME NEW es, Plain(es), events' = events \o es,
         UNCHANGED <<text, segment, parts>> \/ Flush
  PROVE  Aside
  BY DEF Aside, Flush

LEMMA RestOrders ==
  ASSUME StreamTyped, RestStep, UNCHANGED adkVars
  PROVE  Ordering \/ Settled'
  <1>0. Fresh \in Nat /\ Len(calls) + 1 \in Nat /\ DOMAIN calls \subseteq Nat
    BY Numbers
  <1>1. UNCHANGED <<protocol, connected, limited>> /\ pc \in {"stream", "json"}
    BY DEF RestStep, RestText, RestStart, RestTool, RestAnswer, RestChart, RestEnds, RestError,
           RestBreaks, RestDocument, SameCall, modeVars, adkVars, Reading
  <1>2. (CallsShown' => CallsShown) /\ pc # "retry"
    BY <1>1 DEF CallsShown
  <1>3. CASE RestText
    <2>1. events' = events \o (Opening \o <<Ev("content", Fresh)>>) /\ Captures(Fresh)
      BY <1>3, SentEvents DEF RestText
    <2>2. Texting
      BY <1>0, <2>1, TextMade
    <2>3. pc' = "stream"
      BY <1>3 DEF RestText, Reading, GoesOn
    <2> QED BY <1>2, <2>2, <2>3 DEF Ordering
  <1>4. CASE RestStart
    <2>1. events' = events \o Opening /\ UNCHANGED <<text, segment, parts>>
      BY <1>4, SentEvents DEF RestStart, SameReply
    <2>2. Aside
      BY <2>1, AsideSaid, PlainEdges
    <2>3. pc' = "stream"
      BY <1>4 DEF RestStart, Reading, GoesOn
    <2> QED BY <1>2, <2>2, <2>3 DEF Ordering
  <1>5. CASE RestTool
    <2>1. events' = events \o (Closing \o <<Ev("tool", Len(calls) + 1)>>)
          /\ \E name \in Names : CapturesCall(name)
      BY <1>5, SentEvents DEF RestTool
    <2>2. Asking
      BY <2>1, CallMade
    <2>3. pc' = "stream"
      BY <1>5 DEF RestTool, Reading, GoesOn
    <2> QED BY <1>2, <2>2, <2>3 DEF Ordering
  <1>6. CASE RestAnswer
    <2>1. PICK i \in Pending : Send(<<Ev("answer", i)>>) /\ Answers(i, i)
      BY <1>6 DEF RestAnswer
    <2>2. i \in Nat
      BY <1>0 DEF Pending
    <2>3. Plain(<<Ev("answer", i)>>) /\ events' = events \o <<Ev("answer", i)>>
      BY <2>1, <2>2, PlainOne, SentEvents DEF Kinds
    <2>4. Aside
      BY <2>1, <2>3, AsideSaid DEF Answers
    <2>5. pc' = "stream"
      BY <1>6 DEF RestAnswer, Reading, GoesOn
    <2> QED BY <1>2, <2>4, <2>5 DEF Ordering
  <1>7. CASE RestChart
    <2> PICK c : c = Ev("chart", Fresh)
      OBVIOUS
    <2>1. c \in AnyEvent /\ c.kind = "chart" /\ Plain(<<c>>)
      BY <1>0, EvTyped, PlainOne DEF Kinds
    <2>2. events' = events \o <<c>> /\ parts' = Append(parts, c) /\ UNCHANGED <<segment, text>>
      BY <1>7, SentEvents DEF RestChart
    <2>3. Charting
      BY <2>1, <2>2 DEF Charting
    <2>4. pc' = "stream"
      BY <1>7 DEF RestChart, Reading, GoesOn
    <2> QED BY <1>2, <2>3, <2>4 DEF Ordering
  <1>8. CASE RestEnds \/ RestError \/ RestBreaks
    <2>1. /\ \/ events' = events \o Closing
             \/ events' = events \o (Closing \o RunError)
             \/ events' = events \o (RunError \o Closing)
          /\ pc' = "done"
          /\ Flush \/ outcome' = "none"
      BY <1>8, SentEvents DEF RestEnds, RestError, RestBreaks, Returns
    <2>2. Plain(Closing) /\ Plain(Closing \o RunError) /\ Plain(RunError \o Closing)
      BY PlainEdges, PlainBoth
    <2>3. CASE Flush
      <3>1. Aside
        BY <2>1, <2>2, <2>3, AsideSaid
      <3> QED BY <1>2, <2>1, <2>3, <3>1 DEF Ordering, Flush
    <2> QED BY <2>1, <2>3 DEF Settled
  <1>9. CASE RestDocument
    <2>1. pc' = "done" /\ (outcome' = "none" \/ sent' = Append(sent, Ev("document", 1)))
      BY <1>9 DEF RestDocument, Says, Returns
    <2>2. CASE sent' = Append(sent, Ev("document", 1))
      <3> PICK e : e = Ev("document", 1)
        OBVIOUS
      <3>1. e \in AnySent /\ e.kind = "document" /\ sent \in Seq(AnySent) /\ sent' = Append(sent, e)
        BY <2>2 DEF Ev, AnySent, SentKinds, StreamTyped
      <3>2. Len(sent) + 1 \in DOMAIN sent' /\ sent'[Len(sent) + 1] = e
        <4>1. sent' \in Seq(AnySent) /\ Len(sent') = Len(sent) + 1 /\ sent'[Len(sent) + 1] = e
          BY <3>1, AppendProperties
        <4>2. DOMAIN sent' = 1 .. Len(sent') /\ Len(sent) \in Nat
          BY <3>1, <4>1, LenProperties
        <4> QED BY <4>1, <4>2
      <3>3. At(sent', {"document"}) # {}
        BY <3>1, <3>2 DEF At
      <3> QED BY <2>1, <3>3 DEF Settled
    <2> QED BY <2>1, <2>2 DEF Settled
  <1> QED BY <1>3, <1>4, <1>5, <1>6, <1>7, <1>8, <1>9 DEF RestStep

LEMMA A2aOrders ==
  ASSUME StreamTyped, LeftFirst, A2aStep, UNCHANGED adkVars
  PROVE  Ordering \/ Settled'
  <1>0. Fresh \in Nat /\ Len(calls) + 1 \in Nat /\ DOMAIN calls \subseteq Nat
    BY Numbers
  <1>1. UNCHANGED <<protocol, connected, limited>> /\ pc = "stream" /\ protocol = "a2a"
    BY DEF A2aStep, A2aText, A2aThought, A2aTool, A2aAnswer, A2aCompletes, A2aFails, SameSide,
           modeVars, adkVars, Streaming
  <1>2. (CallsShown' => CallsShown) /\ pc # "retry"
    BY <1>1 DEF CallsShown
  <1>3. CASE A2aText
    <2>1. events' = events \o (Opening \o <<Ev("content", Fresh)>>) /\ Captures(Fresh)
      BY <1>3, SentEvents DEF A2aText
    <2>2. Texting
      BY <1>0, <2>1, TextMade
    <2>3. pc' = "stream"
      BY <1>1, <1>3 DEF A2aText, GoesOn
    <2> QED BY <1>2, <2>2, <2>3 DEF Ordering
  <1>4. CASE A2aThought
    <2> DEFINE es == Closing \o <<Ev("thinking", 0), Ev("thought", Fresh), Ev("end", 0)>>
    <2>1. Plain(es)
      BY <1>0, PlainThought
    <2>2. /\ SendAllOf(<<>>) \/ SendAllOf(es) \/ \E n \in DOMAIN es : StopsAt(es, n)
          /\ UNCHANGED <<text, segment, parts>> /\ pc' = "stream"
      BY <1>1, <1>4 DEF A2aThought, SameReply, GoesOn
    <2> HIDE DEF es
    <2>3. \E t : Plain(t) /\ events' = events \o t
      <3>1. CASE SendAllOf(<<>>)
        BY <3>1, PlainNone, SentEvents
      <3>2. CASE SendAllOf(es)
        BY <2>1, <3>2, SentEvents
      <3>3. CASE \E n \in DOMAIN es : StopsAt(es, n)
        <4>1. PICK n \in DOMAIN es : StopsAt(es, n)
          BY <3>3
        <4> QED BY <2>1, <4>1, PlainPart DEF StopsAt
      <3> QED BY <2>2, <3>1, <3>2, <3>3
    <2>4. Aside
      BY <2>2, <2>3, AsideSaid
    <2> QED BY <1>2, <2>2, <2>4 DEF Ordering
  <1>5. CASE A2aTool
    <2>1. /\ \/ noticed /\ SendBlindly(<<>>)
             \/ SendBlindly(Closing \o <<Ev("tool", Len(calls) + 1)>>)
          /\ \E name \in Names : CapturesCall(name)
      BY <1>5 DEF A2aTool, Unnoticed
    <2>2. noticed => ~CallsShown'
      BY <1>1 DEF LeftFirst, CallsShown
    <2>3. PICK name \in Names : CapturesCall(name)
      BY <2>1
    <2>4. \/ events' = events \o (Closing \o <<Ev("tool", Len(calls) + 1)>>)
          \/ events' = events \o <<>> /\ ~CallsShown'
      BY <2>1, <2>2, SentEvents
    <2>5. Asking
      BY <2>3, <2>4, CallMade
    <2>6. pc' = "stream"
      BY <1>1, <1>5 DEF A2aTool, GoesOn
    <2> QED BY <1>2, <2>5, <2>6 DEF Ordering
  <1>6. CASE A2aAnswer
    <2>1. \E j \in Nat : Unnoticed(<<Ev("answer", j)>>)
      BY <1>0, <1>6 DEF A2aAnswer, Pending
    <2>2. PICK j \in Nat : Unnoticed(<<Ev("answer", j)>>)
      BY <2>1
    <2>3. SendBlindly(<<>>) \/ SendBlindly(<<Ev("answer", j)>>)
      BY <2>2 DEF Unnoticed
    <2>4. \E t : Plain(t) /\ events' = events \o t
      BY <2>3, PlainNone, PlainOne, SentEvents DEF Kinds
    <2>5. UNCHANGED <<text, segment, parts>> /\ pc' = "stream"
      BY <1>1, <1>6 DEF A2aAnswer, Answers, SameReply, GoesOn
    <2>6. Aside
      BY <2>4, <2>5, AsideSaid
    <2> QED BY <1>2, <2>5, <2>6 DEF Ordering
  <1>7. CASE A2aCompletes \/ A2aFails
    <2>1. /\ events' = events \o Closing \/ events' = events \o (Closing \o RunError)
          /\ pc' = "done"
          /\ Flush \/ outcome' = "none"
      BY <1>7, SentEvents DEF A2aCompletes, A2aFails, Returns
    <2>2. Plain(Closing) /\ Plain(Closing \o RunError)
      BY PlainEdges, PlainBoth
    <2>3. CASE Flush
      <3>1. Aside
        BY <2>1, <2>2, <2>3, AsideSaid
      <3> QED BY <1>2, <2>1, <2>3, <3>1 DEF Ordering, Flush
    <2> QED BY <2>1, <2>3 DEF Settled
  <1> QED BY <1>3, <1>4, <1>5, <1>6, <1>7 DEF A2aStep

LEMMA TextShown ==
  ASSUME StreamTyped, NEW n \in Nat, ShowsText(n), pc = "stream"
  PROVE  (Texting \/ Aside) /\ pc' = "stream"
  <1>1. pc' = "stream"
    BY DEF ShowsText, GoesOn
  <1>2. CASE SendAllOf(<<>>) /\ SameReply
    BY <1>1, <1>2, PlainNone, SentEvents, AsideSaid DEF SameReply
  <1>3. CASE SendAllOf(Opening \o <<Ev("content", n)>>) /\ Captures(n)
    BY <1>1, <1>3, TextMade, SentEvents
  <1> QED BY <1>2, <1>3 DEF ShowsText

LEMMA AbortSettles == ASSUME NEW es, Aborts(es) PROVE Settled'
  BY DEF Aborts, Returns, Settled

LEMMA AdkOrders ==
  ASSUME StreamTyped, AdkStep, StoredInv, pc # "done"
  PROVE  Ordering \/ Settled' \/ Turning \/ Anew
  <1>0. Fresh \in Nat /\ Len(calls) + 1 \in Nat /\ DOMAIN calls \subseteq Nat
        /\ DOMAIN sent \subseteq Nat /\ limited \in BOOLEAN
    BY Numbers
  <1>1. UNCHANGED <<protocol, connected>>
    BY DEF AdkStep, AdkChunk, AdkWhole, AdkThought, AdkSummary, AdkTool, AdkAnswer,
           AdkError, AdkEnds, AdkBreaks, AdkRotates, AdkRetries, AdkGivesUp, SameTurn, modeVars
  <1>2. (limited => limited') => (CallsShown' => CallsShown)
    BY <1>1 DEF CallsShown
  <1>3. ASSUME pc = "stream", pc' = "stream", limited => limited', Texting \/ Aside \/ Asking
        PROVE  Ordering
    BY <1>2, <1>3 DEF Ordering
  <1>4. ASSUME pc = "stream", GoesOn, limited => limited', NEW es, Plain(es), SendAllOf(es),
               UNCHANGED <<text, segment, parts>>
        PROVE  Ordering
    <2>1. Aside
      BY <1>4, SentEvents, AsideSaid
    <2> QED BY <1>3, <1>4, <2>1 DEF GoesOn
  <1>5. CASE AdkChunk
    <2>1. /\ pc = "stream"
          /\ \/ ShowsText(Fresh) /\ UNCHANGED limited
             \/ Aborts(Opening \o <<Ev("content", Fresh)>>)
      BY <1>5 DEF AdkChunk, AdkStreaming
    <2>2. CASE ShowsText(Fresh) /\ UNCHANGED limited
      <3>1. (Texting \/ Aside) /\ pc' = "stream"
        BY <1>0, <2>1, <2>2, TextShown
      <3> QED BY <1>3, <2>1, <2>2, <3>1
    <2> QED BY <2>1, <2>2, AbortSettles
  <1>6. CASE AdkWhole
    <2>1. PICK item \in Unstreamed :
            \/ SendAllOf(<<>>) /\ SameReply /\ GoesOn
            \/ ShowsText(item.of)
            \/ Aborts(Opening \o <<Ev("content", item.of)>>)
      BY <1>6 DEF AdkWhole
    <2>2. item.of \in Nat
      BY <1>0 DEF Unstreamed, Ev, ChunksSinceTool
    <2>3. pc = "stream" /\ UNCHANGED limited
      BY <1>6 DEF AdkWhole, AdkStreaming
    <2>4. CASE SendAllOf(<<>>) /\ SameReply /\ GoesOn
      BY <1>4, <2>3, <2>4, PlainNone DEF SameReply
    <2>5. CASE ShowsText(item.of)
      <3>1. (Texting \/ Aside) /\ pc' = "stream"
        BY <2>2, <2>3, <2>5, TextShown
      <3> QED BY <1>3, <2>3, <3>1
    <2> QED BY <2>1, <2>4, <2>5, AbortSettles
  <1>7. CASE AdkThought
    <2> DEFINE es == Closing \o <<Ev("thinking", 0), Ev("thought", Fresh), Ev("end", 0)>>
    <2>1. Plain(es) /\ Plain(<<>>)
      BY <1>0, PlainThought, PlainNone
    <2>2. \/ SendAllOf(<<>>) /\ SameReply /\ GoesOn
          \/ SendAllOf(es) /\ SameReply /\ GoesOn
          \/ Aborts(es)
      BY <1>7 DEF AdkThought
    <2> HIDE DEF es
    <2>3. pc = "stream" /\ UNCHANGED limited
      BY <1>7 DEF AdkThought, AdkStreaming
    <2> QED BY <1>4, <2>1, <2>2, <2>3, AbortSettles DEF SameReply
  <1>8. CASE AdkSummary
    <2>1. pc = "stream" /\ limited' /\ SendAllOf(<<>>) /\ GoesOn /\ UNCHANGED <<text, segment, parts>>
      BY <1>8 DEF AdkSummary, AdkStreaming, SameReply
    <2> QED BY <1>4, <2>1, PlainNone
  <1>9. CASE AdkTool
    <2>1. pc = "stream"
      BY <1>9 DEF AdkTool, AdkStreaming
    <2>2. \/ /\ \/ limited /\ SendAllOf(<<>>)
                \/ SendAllOf(Closing \o <<Ev("tool", Len(calls) + 1)>>)
             /\ \E name \in Names : CapturesCall(name)
             /\ pc' = "stream" /\ UNCHANGED limited
          \/ \E es : Aborts(es)
      BY <1>9, <2>1 DEF AdkTool, GoesOn
    <2>3. ASSUME (limited /\ SendAllOf(<<>>)) \/ SendAllOf(Closing \o <<Ev("tool", Len(calls) + 1)>>),
                 NEW name \in Names, CapturesCall(name), pc' = "stream", UNCHANGED limited
          PROVE  Ordering
      <3>1. limited => ~CallsShown'
        BY <2>3 DEF CallsShown
      <3>2. \/ events' = events \o (Closing \o <<Ev("tool", Len(calls) + 1)>>)
            \/ events' = events \o <<>> /\ ~CallsShown'
        BY <2>3, <3>1, SentEvents
      <3>3. Asking
        BY <2>3, <3>2, CallMade
      <3> QED BY <1>3, <2>1, <2>3, <3>3
    <2> QED BY <2>2, <2>3, AbortSettles
  <1>10. CASE AdkAnswer
    <2>1. /\ pc = "stream"
          /\ \/ /\ \E j \in Nat : SendAllOf(<<>>) \/ SendAllOf(<<Ev("answer", j)>>)
                /\ UNCHANGED <<text, segment, parts>> /\ GoesOn /\ UNCHANGED limited
             \/ \E es : Aborts(es)
      BY <1>0, <1>10 DEF AdkAnswer, AdkStreaming, Pending, Answers, SameReply
    <2>2. ASSUME NEW j \in Nat, SendAllOf(<<>>) \/ SendAllOf(<<Ev("answer", j)>>),
                 UNCHANGED <<text, segment, parts>>, GoesOn, UNCHANGED limited
          PROVE  Ordering
      <3>1. Plain(<<>>) /\ Plain(<<Ev("answer", j)>>)
        BY PlainNone, PlainOne DEF Kinds
      <3> QED BY <1>4, <2>1, <2>2, <3>1
    <2> QED BY <2>1, <2>2, AbortSettles
  <1>11. CASE AdkError \/ AdkEnds
    <2> DEFINE es == IF limited THEN <<>> ELSE Closing
    <2>1. Plain(es) /\ Plain(es \o RunError)
      BY PlainEdges, PlainNone, PlainBoth
    <2>2. /\ events' = events \o es \/ events' = events \o (es \o RunError)
          /\ UNCHANGED limited /\ pc = "stream" /\ pc' \in {"rotate", "again", "done"}
          /\ Flush \/ (pc' = "done" /\ outcome' = "none")
      <3>1. SendBlindly(es) \/ SendBlindly(es \o RunError)
        BY <1>11 DEF AdkError, AdkEnds
      <3>2. Flush \/ Returns("none", TRUE)
        BY <1>11 DEF AdkError, AdkEnds
      <3>3. UNCHANGED limited /\ pc = "stream" /\ pc' \in {"rotate", "again", "done"}
        BY <1>11 DEF AdkError, AdkEnds, AdkStreaming, Returns
      <3>4. events' = events \o es \/ events' = events \o (es \o RunError)
        <4>1. SendBlindly(es) => events' = events \o es
          BY SentEvents
        <4>2. SendBlindly(es \o RunError) => events' = events \o (es \o RunError)
          BY SentEvents
        <4> QED BY <3>1, <4>1, <4>2
      <3>5. Returns("none", TRUE) => pc' = "done" /\ outcome' = "none"
        BY DEF Returns
      <3> QED BY <3>2, <3>3, <3>4, <3>5
    <2> HIDE DEF es
    <2>3. CASE Flush
      <3>1. Aside
        BY <2>1, <2>2, <2>3, AsideSaid
      <3> QED BY <1>2, <2>2, <2>3, <3>1 DEF Ordering, Flush
    <2> QED BY <2>2, <2>3 DEF Settled
  <1>12. CASE AdkBreaks
    BY <1>12 DEF AdkBreaks, Returns, Settled
  <1>13. CASE AdkRotates
    <2>1. CASE SendAllOf(Notice("rotation")) /\ pc' = "retry" /\ UNCHANGED replyVars
      BY <1>13, <2>1, SentEvents DEF AdkRotates, Turning, replyVars
    <2> QED BY <1>13, <2>1, AbortSettles DEF AdkRotates
  <1>14. CASE AdkRetries
    <2>1. CASE /\ pc' = "stream" /\ SendBlindly(<<>>)
               /\ text' = <<>> /\ parts' = <<>> /\ segment' = <<>>
      BY <1>14, <2>1, SentEvents DEF AdkRetries, Anew
    <2>2. CASE Returns("none", TRUE)
      BY <2>2 DEF Returns, Settled
    <2> QED BY <1>14, <2>1, <2>2 DEF AdkRetries
  <1>15. CASE AdkGivesUp
    <2>1. pc = "again" /\ UNCHANGED <<limited, text, segment, parts>> /\ pc' = "done"
      BY <1>15 DEF AdkGivesUp, replyVars, Returns
    <2>2. segment = <<>>
      BY <2>1 DEF StoredInv, Settled
    <2>3. CASE SendBlindly(Notice("again"))
      <3>1. Plain(Notice("again"))
        BY PlainMessage DEF Notice
      <3>2. events' = events \o Notice("again")
        BY <2>3, SentEvents
      <3>3. Aside
        BY <2>1, <3>1, <3>2, AsideSaid
      <3> QED BY <1>2, <2>1, <2>2, <3>3 DEF Ordering
    <2>4. CASE Returns("none", TRUE)
      BY <2>4 DEF Returns, Settled
    <2> QED BY <1>15, <2>3, <2>4 DEF AdkGivesUp
  <1> QED BY <1>5, <1>6, <1>7, <1>8, <1>9, <1>10, <1>11, <1>12, <1>13, <1>14, <1>15 DEF AdkStep

LEMMA OtherOrders ==
  ASSUME StreamTyped, pc # "done", UNCHANGED adkVars,
         \/ MakeRequest \/ RefuseRequest \/ FormatFails \/ ConnectFails \/ BackoffExpires
         \/ Connects \/ Leave \/ NoticeLeft
  PROVE  Ordering \/ Settled' \/ (UNCHANGED <<events, pc, parts, segment, text, outcome, sent>>
                                     /\ (CallsShown' => CallsShown))
  <1>1. UNCHANGED <<protocol, limited, parts, segment, text, sent>>
    BY DEF MakeRequest, RefuseRequest, FormatFails, ConnectFails, BackoffExpires, Connects,
           Leave, NoticeLeft, modeVars, replyVars, adkVars
  <1>0. connected' = FALSE \/ connected' = connected
    BY DEF MakeRequest, RefuseRequest, FormatFails, ConnectFails, BackoffExpires, Connects,
           Leave, NoticeLeft
  <1>2. CallsShown' => CallsShown
    BY <1>0, <1>1 DEF CallsShown, StreamTyped
  <1>3. CASE Leave \/ NoticeLeft
    BY <1>1, <1>2, <1>3 DEF Leave, NoticeLeft, writerVars, resultVars
  <1>4. CASE MakeRequest \/ FormatFails
    <2>1. events' = events \o <<>> /\ pc = "request" /\ pc' \in {"connect", "refused"}
      BY <1>4, ConcatEmptySeq DEF MakeRequest, FormatFails, writerVars, StreamTyped
    <2>2. Aside
      BY <1>1, <2>1, PlainNone, AsideSaid
    <2> QED BY <1>2, <2>1, <2>2 DEF Ordering
  <1>5. CASE RefuseRequest \/ BackoffExpires
    BY <1>5 DEF RefuseRequest, BackoffExpires, Returns, Settled
  <1>6. CASE ConnectFails \/ Connects
    <2>1. \/ events' = events \o <<>> /\ pc = "connect" /\ pc' \in {"connect", "stream", "json"}
          \/ pc' = "done" /\ outcome' = "none"
      BY <1>6, SentEvents DEF ConnectFails, Connects, GoesOn, Returns
    <2>2. events' = events \o <<>> => Aside
      BY <1>1, PlainNone, AsideSaid
    <2> QED BY <1>2, <2>1, <2>2 DEF Ordering, Settled
  <1> QED BY <1>3, <1>4, <1>5, <1>6

LEMMA StoredIsOver ==
  ASSUME pc = "done", [Next]_vars
  PROVE  UNCHANGED <<pc, events, parts, segment, text, sent, outcome, connected, protocol, limited>>
  BY DEF Next, vars, turnVars, writerVars, replyVars, modeVars, resultVars, adkVars, MakeRequest,
       RefuseRequest, FormatFails, ConnectFails, BackoffExpires, Connects, Leave, NoticeLeft,
       RestStep, RestText, RestStart, RestTool, RestAnswer, RestChart, RestEnds, RestError,
       RestBreaks, RestDocument, Reading, A2aStep, A2aText, A2aThought, A2aTool, A2aAnswer,
       A2aCompletes, A2aFails, Streaming, AdkStep, AdkChunk, AdkWhole, AdkThought, AdkSummary,
       AdkTool, AdkAnswer, AdkError, AdkEnds, AdkBreaks, AdkRotates, AdkRetries, AdkGivesUp,
       AdkStreaming

LEMMA StoredStays == StreamTyped /\ LeftFirst /\ StoredInv /\ [Next]_vars => StoredInv'
  <1> SUFFICES ASSUME StreamTyped, LeftFirst, StoredInv, [Next]_vars PROVE StoredInv'
    OBVIOUS
  <1>1. ASSUME UNCHANGED <<events, pc, parts, segment, text, outcome, sent>>, CallsShown' => CallsShown
        PROVE  StoredInv'
    <2>1. Agrees(parts \o segment, events, text, CallsShown) =>
            Agrees(parts \o segment, events, text, CallsShown')
      BY <1>1 DEF Agrees
    <2>2. (Settled' <=> Settled) /\ (PartsTyped' <=> PartsTyped)
      BY <1>1 DEF Settled, PartsTyped
    <2> QED BY <1>1, <2>1, <2>2 DEF StoredInv
  <1>2. CASE pc = "done"
    <2>1. UNCHANGED <<pc, events, parts, segment, text, sent, outcome, connected, protocol, limited>>
      BY <1>2, StoredIsOver
    <2> QED BY <1>1, <2>1 DEF CallsShown
  <1>3. CASE pc # "done"
    <2>1. events \in Seq(AnyEvent) /\ ~Settled
      BY <1>3 DEF StreamTyped, Settled
    <2>2. Ordering \/ Settled' \/ Turning \/ Anew => StoredInv'
      BY <2>1, OrderKept, TurnKept DEF StoredInv
    <2>3. CASE UNCHANGED vars
      BY <1>1, <2>3 DEF vars, turnVars, writerVars, replyVars, modeVars, resultVars, adkVars, CallsShown
    <2>4. CASE Next
      <3>1. CASE RestStep /\ UNCHANGED adkVars
        BY <2>2, <3>1, RestOrders
      <3>2. CASE A2aStep /\ UNCHANGED adkVars
        BY <2>2, <3>2, A2aOrders
      <3>3. CASE AdkStep
        BY <1>3, <2>2, <3>3, AdkOrders
      <3>4. CASE /\ \/ MakeRequest \/ RefuseRequest \/ FormatFails \/ ConnectFails \/ BackoffExpires
                    \/ Connects \/ Leave \/ NoticeLeft
                 /\ UNCHANGED adkVars
        BY <1>1, <1>3, <2>2, <3>4, OtherOrders
      <3> QED BY <2>4, <3>1, <3>2, <3>3, <3>4 DEF Next
    <2> QED BY <2>3, <2>4
  <1> QED BY <1>2, <1>3

\* The parts that are stored of a reply are the texts and the tool calls that
\* were shown of it, in their order: also where the client left, a chart came
\* in between, or an agent out of context was asked again; for any answer of
\* any length.
THEOREM ReplyIsAsShown == ClientSpec => []StoredAsShown
  <1>1. Init => StoredInv
    <2> SUFFICES ASSUME Init PROVE StoredInv
      OBVIOUS
    <2>1. /\ events = <<>> /\ parts = <<>> /\ segment = <<>> /\ text = <<>>
          /\ pc = "request"
      BY DEF Init, TurnInit
    <2>2. events \in Seq(AnyEvent) /\ SinceRotation(events, PartKinds) = {}
      BY <2>1 DEF SinceRotation, At
    <2>3. Agrees(<<>> \o <<>>, events, <<>>, TRUE)
      BY <2>2, AgreesAtFirst
    <2>4. Agrees(<<>> \o <<>>, events, <<>>, CallsShown)
      BY <2>3 DEF Agrees
    <2> QED BY <2>1, <2>4 DEF StoredInv, PartsTyped
  <1>2. StreamInv => StreamTyped /\ LeftFirst
    BY DEF StreamInv, MessagesInv
  <1>3. StoredInv => StoredAsShown
    <2> SUFFICES ASSUME StoredInv, pc = "done", outcome # "none", At(sent, {"document"}) = {}
                 PROVE  /\ CallsShown => Same(parts, events, PartKinds)
                        /\ Same(parts, events, {"content"})
                        /\ SameInOrder(parts, At(parts, {"content"}), text, DOMAIN text)
      BY DEF StoredAsShown, CallsShown, Same, PartKinds
    <2>1. PartsTyped /\ segment = <<>> /\ Agrees(parts \o segment, events, text, CallsShown)
      BY DEF StoredInv, Settled
    <2>2. parts \o segment = parts
      BY <2>1, ConcatEmptySeq DEF PartsTyped
    <2> QED BY <2>1, <2>2 DEF Agrees
  <1> QED BY <1>1, <1>2, <1>3, StoredStays, StreamInvariant, StreamBehaves, PTL DEF Spec

-----------------------------------------------------------------------------
(* Types, within the bounds. *)

\* An agent calls as many tools as it has sent calls, and every number is
\* that of something it sent.
Sizes == Len(sent) <= MaxEvents /\ Len(calls) <= MaxCalls /\ Len(calls) <= Len(sent)
AgentTyped == TypeOK /\ Sizes

LEMMA Bounds ==
  ASSUME AgentTyped
  PROVE  /\ MaxEvents \in Nat /\ MaxCalls \in Nat /\ 0 \in 0 .. MaxEvents /\ 1 \in 0 .. MaxEvents
         /\ sent \in Seq(Sent) /\ calls \in Seq(Call) /\ Len(sent) \in Nat /\ Len(calls) \in Nat
         /\ Fresh = Len(sent) + 1
         /\ Len(sent) < MaxEvents => Fresh \in 0 .. MaxEvents /\ Len(calls) + 1 \in 0 .. MaxEvents
         /\ DOMAIN sent \subseteq 0 .. MaxEvents
         /\ DOMAIN calls \subseteq 0 .. MaxEvents /\ DOMAIN calls \subseteq 0 .. MaxCalls
  <1>1. sent \in Seq(Sent) /\ calls \in Seq(Call) /\ Sizes
    BY DEF AgentTyped, TypeOK, TurnTypeOK
  <1>2. /\ Len(sent) \in Nat /\ Len(calls) \in Nat
        /\ DOMAIN sent = 1 .. Len(sent) /\ DOMAIN calls = 1 .. Len(calls)
    BY <1>1, LenProperties
  <1>3. MaxEvents \in Nat \ {0} /\ MaxCalls \in Nat
    BY BoundsAssumption
  <1> QED BY <1>1, <1>2, <1>3 DEF Sizes, Fresh

LEMMA EvBound ==
  ASSUME NEW k \in Kinds, NEW n \in 0 .. MaxEvents
  PROVE  Ev(k, n) \in Event /\ <<Ev(k, n)>> \in Seq(Event)
  <1>1. Ev(k, n) \in Event
    BY DEF Ev, Event
  <1> QED BY <1>1

LEMMA EdgesBound ==
  ASSUME AgentTyped
  PROVE  Opening \in Seq(Event) /\ Closing \in Seq(Event) /\ RunError \in Seq(Event)
  BY Bounds, EvBound DEF Opening, Closing, RunError, Kinds

LEMMA MessageBound ==
  ASSUME AgentTyped, NEW a \in Kinds, NEW b \in Kinds, NEW n \in 0 .. MaxEvents
  PROVE  <<Ev(a, 0), Ev(b, n), Ev("end", 0)>> \in Seq(Event)
  <1>1. Ev(a, 0) \in Event /\ Ev(b, n) \in Event /\ Ev("end", 0) \in Event
    BY Bounds, EvBound DEF Kinds
  <1> QED BY <1>1

LEMMA PartBound ==
  ASSUME NEW es \in Seq(Event), NEW n \in DOMAIN es
  PROVE  SubSeq(es, 1, n) \in Seq(Event)
  <1>1. n \in 1 .. Len(es) /\ Len(es) \in Nat
    BY LenProperties
  <1> QED BY <1>1, SubSeqProperties

\* What a step does to the variables that are sequences.
Emits == \E es \in Seq(Event) : events' = events \o es
Hears == /\ Len(sent) < MaxEvents
         /\ \E k \in SentKinds, n \in 0 .. MaxEvents : sent' = Append(sent, Ev(k, n))
Notes == \/ sent' = sent /\ calls' = calls
         \/ sent' = <<>> /\ calls' = <<>>
         \/ Hears /\ calls' = calls
         \/ /\ Hears /\ Len(calls) < MaxCalls
            /\ \E name \in Names : calls' = Append(calls, [name |-> name, answer |-> 0])
         \/ /\ Hears
            /\ \E j \in DOMAIN calls, i \in 0 .. MaxCalls : calls' = [calls EXCEPT ![j].answer = i]
Stays == UNCHANGED <<text, segment, parts>>
Holds == text' \in Seq(Event) /\ segment' \in Seq(Event) /\ parts' \in Seq(Event)
WithinBounds == Emits /\ Notes /\ Holds

LEMMA EmitsThese ==
  ASSUME NEW es \in Seq(Event), Send(es) \/ SendBlindly(es) \/ SendAllOf(es)
  PROVE  Emits
  BY SentEvents DEF Emits

LEMMA EmitsSome ==
  ASSUME NEW es \in Seq(Event), NEW n \in DOMAIN es, StopsAt(es, n)
  PROVE  Emits
  BY PartBound DEF StopsAt, Emits

LEMMA EmitsNone == <<>> \in Seq(Event)
  OBVIOUS

LEMMA ReplyBound ==
  ASSUME AgentTyped
  PROVE  /\ Stays => Holds
         /\ Flush => Holds
         /\ \A n \in 0 .. MaxEvents : Captures(n) => Holds
         /\ Len(sent) < MaxEvents => \A name \in Names : CapturesCall(name) => Holds
  <1>1. text \in Seq(Event) /\ segment \in Seq(Event) /\ parts \in Seq(Event)
    BY DEF AgentTyped, TypeOK, TurnTypeOK
  <1>2. parts \o segment \in Seq(Event)
    BY <1>1, ConcatProperties
  <1>3. Stays => Holds
    BY <1>1 DEF Stays, Holds
  <1>4. Flush => Holds
    BY <1>1, <1>2 DEF Flush, Holds
  <1>5. ASSUME NEW n \in 0 .. MaxEvents, Captures(n) PROVE Holds
    <2>1. Ev("content", n) \in Event
      BY EvBound DEF Kinds
    <2>2. Append(text, Ev("content", n)) \in Seq(Event) /\ Append(segment, Ev("content", n)) \in Seq(Event)
      BY <1>1, <2>1, AppendProperties
    <2> QED BY <1>1, <1>5, <2>2 DEF Captures, Holds
  <1>6. ASSUME Len(sent) < MaxEvents, NEW name \in Names, CapturesCall(name) PROVE Holds
    <2>1. <<Ev("tool", Len(calls) + 1)>> \in Seq(Event)
      BY <1>6, Bounds, EvBound DEF Kinds
    <2>2. (parts \o segment) \o <<Ev("tool", Len(calls) + 1)>> \in Seq(Event)
      BY <1>2, <2>1, ConcatProperties
    <2> QED BY <1>1, <1>6, <2>2 DEF CapturesCall, Holds
  <1> QED BY <1>3, <1>4, <1>5, <1>6

LEMMA SaysBound ==
  ASSUME NEW k \in SentKinds, NEW n, Len(sent) < MaxEvents => n \in 0 .. MaxEvents, Says(k, n)
  PROVE  Hears
  BY DEF Says, Hears

LEMMA SequencesKept ==
  ASSUME AgentTyped, WithinBounds
  PROVE  /\ events' \in Seq(Event) /\ sent' \in Seq(Sent) /\ calls' \in Seq(Call)
         /\ text' \in Seq(Event) /\ segment' \in Seq(Event) /\ parts' \in Seq(Event)
         /\ Sizes'
  <1>0. /\ events \in Seq(Event) /\ sent \in Seq(Sent) /\ calls \in Seq(Call) /\ Sizes
        /\ Len(sent) \in Nat /\ Len(calls) \in Nat /\ MaxEvents \in Nat /\ MaxCalls \in Nat
    BY Bounds DEF AgentTyped, TypeOK, TurnTypeOK
  <1>1. events' \in Seq(Event)
    BY <1>0, ConcatProperties DEF WithinBounds, Emits
  <1>2. Hears => sent' \in Seq(Sent) /\ Len(sent') = Len(sent) + 1 /\ Len(sent) < MaxEvents
    <2> SUFFICES ASSUME Hears PROVE sent' \in Seq(Sent) /\ Len(sent') = Len(sent) + 1 /\ Len(sent) < MaxEvents
      OBVIOUS
    <2>1. PICK k \in SentKinds, n \in 0 .. MaxEvents : sent' = Append(sent, Ev(k, n))
      BY DEF Hears
    <2>2. Ev(k, n) \in Sent
      BY DEF Ev, Sent, SentKinds
    <2> QED BY <1>0, <2>1, <2>2, AppendProperties DEF Hears
  <1>3. ASSUME Len(calls) < MaxCalls, NEW name \in Names,
               calls' = Append(calls, [name |-> name, answer |-> 0])
        PROVE  calls' \in Seq(Call) /\ Len(calls') = Len(calls) + 1
    <2>1. [name |-> name, answer |-> 0] \in Call
      BY <1>0 DEF Call
    <2> QED BY <1>0, <1>3, <2>1, AppendProperties
  <1>4. ASSUME NEW j \in DOMAIN calls, NEW i \in 0 .. MaxCalls, calls' = [calls EXCEPT ![j].answer = i]
        PROVE  calls' \in Seq(Call) /\ Len(calls') = Len(calls)
    <2>1. calls[j] \in Call
      BY <1>0
    <2>2. [calls[j] EXCEPT !.answer = i] \in Call
      BY <2>1 DEF Call
    <2> QED BY <1>0, <1>4, <2>2, ExceptSeq
  <1>5. CASE sent' = sent /\ calls' = calls
    BY <1>0, <1>1, <1>5 DEF WithinBounds, Holds, Sizes
  <1>6. CASE sent' = <<>> /\ calls' = <<>>
    <2>1. sent' \in Seq(Sent) /\ calls' \in Seq(Call) /\ Len(sent') = 0 /\ Len(calls') = 0
      BY <1>6
    <2> QED BY <1>0, <1>1, <2>1 DEF WithinBounds, Holds, Sizes
  <1>7. CASE Hears /\ calls' = calls
    BY <1>0, <1>1, <1>2, <1>7 DEF WithinBounds, Holds, Sizes
  <1>8. CASE /\ Hears /\ Len(calls) < MaxCalls
             /\ \E name \in Names : calls' = Append(calls, [name |-> name, answer |-> 0])
    <2>1. calls' \in Seq(Call) /\ Len(calls') = Len(calls) + 1
      BY <1>3, <1>8
    <2> QED BY <1>0, <1>1, <1>2, <1>8, <2>1 DEF WithinBounds, Holds, Sizes
  <1>9. CASE /\ Hears
             /\ \E j \in DOMAIN calls, i \in 0 .. MaxCalls : calls' = [calls EXCEPT ![j].answer = i]
    <2>1. calls' \in Seq(Call) /\ Len(calls') = Len(calls)
      BY <1>4, <1>9
    <2> QED BY <1>0, <1>1, <1>2, <1>9, <2>1 DEF WithinBounds, Holds, Sizes
  <1> QED BY <1>5, <1>6, <1>7, <1>8, <1>9 DEF WithinBounds, Notes

\* What an agent says, and what is sent of it.
LEMMA SpokenBound ==
  ASSUME AgentTyped, NEW n \in 0 .. MaxEvents
  PROVE  /\ Opening \o <<Ev("content", n)>> \in Seq(Event)
         /\ Closing \o <<Ev("tool", n)>> \in Seq(Event)
         /\ Closing \o <<Ev("thinking", 0), Ev("thought", n), Ev("end", 0)>> \in Seq(Event)
         /\ <<Ev("answer", n)>> \in Seq(Event) /\ <<Ev("chart", n)>> \in Seq(Event)
         /\ <<Ev("answer", 0)>> \in Seq(Event)
  <1>1. Opening \in Seq(Event) /\ Closing \in Seq(Event)
    BY EdgesBound
  <1>2. /\ <<Ev("content", n)>> \in Seq(Event) /\ <<Ev("tool", n)>> \in Seq(Event)
        /\ <<Ev("answer", n)>> \in Seq(Event) /\ <<Ev("chart", n)>> \in Seq(Event)
        /\ <<Ev("answer", 0)>> \in Seq(Event)
    BY Bounds, EvBound DEF Kinds
  <1>3. <<Ev("thinking", 0), Ev("thought", n), Ev("end", 0)>> \in Seq(Event)
    BY MessageBound DEF Kinds
  <1> QED BY <1>1, <1>2, <1>3, ConcatProperties

LEMMA EndingBound ==
  ASSUME AgentTyped
  PROVE  /\ Closing \in Seq(Event) /\ RunError \in Seq(Event)
         /\ Closing \o RunError \in Seq(Event) /\ RunError \o Closing \in Seq(Event)
  BY EdgesBound, ConcatProperties

LEMMA NotesSpoken ==
  ASSUME NEW k \in SentKinds, NEW n, Len(sent) < MaxEvents => n \in 0 .. MaxEvents, Says(k, n),
         UNCHANGED calls
  PROVE  Notes
  BY SaysBound DEF Notes

LEMMA NotesFresh ==
  ASSUME AgentTyped, NEW k \in SentKinds, Says(k, Fresh)
  PROVE  Fresh \in 0 .. MaxEvents /\ Hears
  <1>1. Len(sent) < MaxEvents /\ Fresh \in 0 .. MaxEvents
    BY Bounds DEF Says
  <1> QED BY <1>1, SaysBound

LEMMA NotesCall ==
  ASSUME AgentTyped, CallsTool, NEW name \in Names, CapturesCall(name)
  PROVE  Len(calls) + 1 \in 0 .. MaxEvents /\ Notes /\ Holds
  <1>1. Len(sent) < MaxEvents /\ Len(calls) < MaxCalls /\ Len(calls) + 1 \in 0 .. MaxEvents
    BY Bounds DEF CallsTool, Says
  <1>2. Hears
    BY <1>1, SaysBound DEF CallsTool, SentKinds
  <1>3. calls' = Append(calls, [name |-> name, answer |-> 0])
    BY DEF CapturesCall
  <1>4. Holds
    BY <1>1, ReplyBound
  <1> QED BY <1>1, <1>2, <1>3, <1>4 DEF Notes

LEMMA NotesAnswer ==
  ASSUME AgentTyped, NEW i \in Pending, Says("answer", i), NEW j \in DOMAIN calls, Answers(j, i)
  PROVE  j \in 0 .. MaxEvents /\ Notes /\ Holds
  <1>1. i \in 0 .. MaxCalls /\ i \in 0 .. MaxEvents /\ j \in 0 .. MaxEvents
    BY Bounds DEF Pending
  <1>2. Hears
    BY <1>1, SaysBound DEF SentKinds
  <1>3. calls' = [calls EXCEPT ![j].answer = i] /\ Stays
    BY DEF Answers, Stays
  <1>4. Holds
    BY <1>3, ReplyBound
  <1> QED BY <1>1, <1>2, <1>3, <1>4 DEF Notes

LEMMA RestWithin ==
  ASSUME AgentTyped, RestStep
  PROVE  WithinBounds
  <1>1. CASE RestText
    <2>1. Says("content", Fresh) /\ Send(Opening \o <<Ev("content", Fresh)>>) /\ Captures(Fresh)
      BY <1>1 DEF RestText
    <2>2. Fresh \in 0 .. MaxEvents /\ Hears
      BY <2>1, NotesFresh DEF SentKinds
    <2>3. Emits
      BY <2>1, <2>2, SpokenBound, EmitsThese
    <2>4. Notes /\ Holds
      BY <2>1, <2>2, ReplyBound DEF Notes, Captures
    <2> QED BY <2>3, <2>4 DEF WithinBounds
  <1>2. CASE RestStart
    <2>1. Says("begin", 0) /\ Send(Opening) /\ SameReply
      BY <1>2 DEF RestStart
    <2>2. Emits
      BY <2>1, EdgesBound, EmitsThese
    <2>3. Notes
      BY <2>1, Bounds, NotesSpoken DEF SentKinds, SameReply
    <2>4. Holds
      BY <2>1, ReplyBound DEF Stays, SameReply
    <2> QED BY <2>2, <2>3, <2>4 DEF WithinBounds
  <1>3. CASE RestTool
    <2>1. CallsTool /\ Send(Closing \o <<Ev("tool", Len(calls) + 1)>>)
      BY <1>3 DEF RestTool
    <2>2. PICK name \in Names : CapturesCall(name)
      BY <1>3 DEF RestTool
    <2>3. Len(calls) + 1 \in 0 .. MaxEvents /\ Notes /\ Holds
      BY <2>1, <2>2, NotesCall
    <2>4. Emits
      BY <2>1, <2>3, SpokenBound, EmitsThese
    <2> QED BY <2>3, <2>4 DEF WithinBounds
  <1>4. CASE RestAnswer
    <2>1. PICK i \in Pending : Says("answer", i) /\ Send(<<Ev("answer", i)>>) /\ Answers(i, i)
      BY <1>4 DEF RestAnswer
    <2>2. i \in DOMAIN calls
      BY DEF Pending
    <2>3. i \in 0 .. MaxEvents /\ Notes /\ Holds
      BY <2>1, <2>2, NotesAnswer
    <2>4. Emits
      BY <2>1, <2>3, SpokenBound, EmitsThese
    <2> QED BY <2>3, <2>4 DEF WithinBounds
  <1>5. CASE RestChart
    <2>1. /\ Says("chart", Fresh) /\ Send(<<Ev("chart", Fresh)>>)
          /\ parts' = Append(parts, Ev("chart", Fresh)) /\ UNCHANGED <<segment, text, calls>>
      BY <1>5 DEF RestChart
    <2>2. Fresh \in 0 .. MaxEvents /\ Hears
      BY <2>1, NotesFresh DEF SentKinds
    <2>3. Emits
      BY <2>1, <2>2, SpokenBound, EmitsThese
    <2>4. Notes
      BY <2>1, <2>2 DEF Notes
    <2>5. Ev("chart", Fresh) \in Event
      BY <2>2, EvBound DEF Kinds
    <2>6. text \in Seq(Event) /\ segment \in Seq(Event) /\ parts \in Seq(Event)
      BY DEF AgentTyped, TypeOK, TurnTypeOK
    <2>7. Append(parts, Ev("chart", Fresh)) \in Seq(Event)
      BY <2>5, <2>6, AppendProperties
    <2>8. Holds
      BY <2>1, <2>6, <2>7 DEF Holds
    <2> QED BY <2>3, <2>4, <2>8 DEF WithinBounds
  <1>6. CASE RestEnds \/ RestError \/ RestBreaks
    <2>1. Send(Closing) \/ Send(Closing \o RunError) \/ Send(RunError \o Closing)
      BY <1>6 DEF RestEnds, RestError, RestBreaks
    <2>2. (Flush \/ Stays) /\ UNCHANGED <<sent, calls>>
      BY <1>6 DEF RestEnds, RestError, RestBreaks, Flush, Stays, replyVars
    <2>3. Emits
      BY <2>1, EndingBound, EmitsThese
    <2>4. Holds
      BY <2>2, ReplyBound
    <2> QED BY <2>2, <2>3, <2>4 DEF WithinBounds, Notes
  <1>7. CASE RestDocument
    <2> DEFINE es == <<Ev("start", 0), Ev("content", 1), Ev("end", 0)>>
    <2>1. es \in Seq(Event) /\ <<Ev("content", 1)>> \in Seq(Event)
      BY Bounds, MessageBound, EvBound DEF Kinds
    <2>2. \/ SendBlindly(RunError) /\ UNCHANGED <<sent, calls>> /\ Stays
          \/ /\ Says("document", 1)
             /\ \/ SendAllOf(es) /\ text' = <<Ev("content", 1)>>
                \/ (\E n \in DOMAIN es : StopsAt(es, n)) /\ UNCHANGED text
             /\ UNCHANGED <<segment, parts, calls>>
      BY <1>7 DEF RestDocument, replyVars, Stays
    <2> HIDE DEF es
    <2>3. Emits
      BY <2>1, <2>2, EdgesBound, EmitsThese, EmitsSome
    <2>4. text \in Seq(Event) /\ segment \in Seq(Event) /\ parts \in Seq(Event)
      BY DEF AgentTyped, TypeOK, TurnTypeOK
    <2>5. Holds
      BY <2>1, <2>2, <2>4 DEF Holds, Stays
    <2>6. Says("document", 1) /\ UNCHANGED calls => Notes
      BY Bounds, NotesSpoken DEF SentKinds
    <2>7. Notes
      BY <2>2, <2>6 DEF Notes
    <2> QED BY <2>3, <2>5, <2>7 DEF WithinBounds
  <1> QED BY <1>1, <1>2, <1>3, <1>4, <1>5, <1>6, <1>7 DEF RestStep

LEMMA A2aWithin ==
  ASSUME AgentTyped, A2aStep
  PROVE  WithinBounds
  <1>0. <<>> \in Seq(Event)
    BY EmitsNone
  <1>1. CASE A2aText
    <2>1. Says("content", Fresh) /\ Send(Opening \o <<Ev("content", Fresh)>>) /\ Captures(Fresh)
      BY <1>1 DEF A2aText
    <2>2. Fresh \in 0 .. MaxEvents /\ Hears
      BY <2>1, NotesFresh DEF SentKinds
    <2>3. Emits
      BY <2>1, <2>2, SpokenBound, EmitsThese
    <2>4. Notes /\ Holds
      BY <2>1, <2>2, ReplyBound DEF Notes, Captures
    <2> QED BY <2>3, <2>4 DEF WithinBounds
  <1>2. CASE A2aThought
    <2> DEFINE es == Closing \o <<Ev("thinking", 0), Ev("thought", Fresh), Ev("end", 0)>>
    <2>1. Says("thought", Fresh) /\ SameReply
      BY <1>2 DEF A2aThought
    <2>2. SendAllOf(<<>>) \/ SendAllOf(es) \/ \E n \in DOMAIN es : StopsAt(es, n)
      BY <1>2 DEF A2aThought
    <2>3. Fresh \in 0 .. MaxEvents /\ Hears
      BY <2>1, NotesFresh DEF SentKinds
    <2>4. es \in Seq(Event)
      BY <2>3, SpokenBound
    <2> HIDE DEF es
    <2>5. Emits
      BY <1>0, <2>2, <2>4, EmitsThese, EmitsSome
    <2>6. Notes
      BY <2>1, <2>3 DEF Notes, SameReply
    <2>7. Holds
      BY <2>1, ReplyBound DEF SameReply, Stays
    <2> QED BY <2>5, <2>6, <2>7 DEF WithinBounds
  <1>3. CASE A2aTool
    <2>1. CallsTool /\ (SendBlindly(<<>>) \/ SendBlindly(Closing \o <<Ev("tool", Len(calls) + 1)>>))
      BY <1>3 DEF A2aTool, Unnoticed
    <2>2. PICK name \in Names : CapturesCall(name)
      BY <1>3 DEF A2aTool
    <2>3. Len(calls) + 1 \in 0 .. MaxEvents /\ Notes /\ Holds
      BY <2>1, <2>2, NotesCall
    <2>4. Closing \o <<Ev("tool", Len(calls) + 1)>> \in Seq(Event)
      BY <2>3, SpokenBound
    <2>5. Emits
      BY <1>0, <2>1, <2>4, EmitsThese
    <2> QED BY <2>3, <2>5 DEF WithinBounds
  <1>4. CASE A2aAnswer
    <2>1. PICK i \in Pending :
            /\ Says("answer", i)
            /\ \/ \E j \in DOMAIN calls : Unnoticed(<<Ev("answer", j)>>) /\ Answers(j, i)
               \/ Unnoticed(<<Ev("answer", 0)>>) /\ SameReply
      BY <1>4 DEF A2aAnswer, Pending
    <2>2. ASSUME NEW n \in 0 .. MaxEvents, Unnoticed(<<Ev("answer", n)>>) PROVE Emits
      <3>1. SendBlindly(<<>>) \/ SendBlindly(<<Ev("answer", n)>>)
        BY <2>2 DEF Unnoticed
      <3> QED BY <1>0, <3>1, SpokenBound, EmitsThese
    <2>3. ASSUME NEW j \in DOMAIN calls, Unnoticed(<<Ev("answer", j)>>), Answers(j, i)
          PROVE  WithinBounds
      <3>1. j \in 0 .. MaxEvents /\ Notes /\ Holds
        BY <2>1, <2>3, NotesAnswer
      <3> QED BY <2>2, <2>3, <3>1 DEF WithinBounds
    <2>4. CASE Unnoticed(<<Ev("answer", 0)>>) /\ SameReply
      <3>1. i \in 0 .. MaxEvents /\ 0 \in 0 .. MaxEvents
        BY Bounds DEF Pending
      <3>2. Notes
        BY <2>1, <2>4, <3>1, NotesSpoken DEF SentKinds, SameReply
      <3>3. Holds
        BY <2>4, ReplyBound DEF SameReply, Stays
      <3> QED BY <2>2, <2>4, <3>1, <3>2, <3>3 DEF WithinBounds
    <2> QED BY <2>1, <2>3, <2>4
  <1>5. CASE A2aCompletes \/ A2aFails
    <2>1. Send(Closing) \/ SendBlindly(Closing \o RunError)
      BY <1>5 DEF A2aCompletes, A2aFails
    <2>2. (Flush \/ Stays) /\ UNCHANGED <<sent, calls>>
      BY <1>5 DEF A2aCompletes, A2aFails, Flush, Stays, replyVars
    <2>3. Emits
      BY <2>1, EndingBound, EmitsThese
    <2>4. Holds
      BY <2>2, ReplyBound
    <2> QED BY <2>2, <2>3, <2>4 DEF WithinBounds, Notes
  <1> QED BY <1>1, <1>2, <1>3, <1>4, <1>5 DEF A2aStep

LEMMA AbortBound ==
  ASSUME AgentTyped, NEW es \in Seq(Event), Aborts(es)
  PROVE  Emits /\ Holds /\ UNCHANGED calls
  <1>1. Emits
    BY EmitsSome DEF Aborts
  <1>2. Stays /\ UNCHANGED calls
    BY DEF Aborts, Stays, replyVars
  <1> QED BY <1>1, <1>2, ReplyBound

LEMMA ShownBound ==
  ASSUME AgentTyped, NEW n \in 0 .. MaxEvents, ShowsText(n)
  PROVE  Emits /\ Holds /\ UNCHANGED calls
  <1>1. CASE SendAllOf(<<>>) /\ SameReply
    <2>1. Emits
      BY <1>1, EmitsNone, EmitsThese
    <2>2. Stays /\ UNCHANGED calls
      BY <1>1 DEF SameReply, Stays
    <2> QED BY <2>1, <2>2, ReplyBound
  <1>2. CASE SendAllOf(Opening \o <<Ev("content", n)>>) /\ Captures(n)
    <2>1. Emits
      BY <1>2, SpokenBound, EmitsThese
    <2>2. UNCHANGED calls
      BY <1>2 DEF Captures
    <2> QED BY <1>2, <2>1, <2>2, ReplyBound
  <1> QED BY <1>1, <1>2 DEF ShowsText

LEMMA SameBound ==
  ASSUME AgentTyped, NEW es \in Seq(Event), SendAllOf(es), SameReply
  PROVE  Emits /\ Holds /\ UNCHANGED calls
  <1>1. Emits
    BY EmitsThese
  <1>2. Stays /\ UNCHANGED calls
    BY DEF SameReply, Stays
  <1> QED BY <1>1, <1>2, ReplyBound

LEMMA NoticeBound ==
  ASSUME AgentTyped, NEW k \in Kinds
  PROVE  Notice(k) \in Seq(Event)
  <1>1. <<Ev(k, 0), Ev("notice", 0), Ev("end", 0)>> \in Seq(Event)
    BY Bounds, MessageBound DEF Kinds
  <1> QED BY <1>1 DEF Notice

LEMMA AdkWithin ==
  ASSUME AgentTyped, AdkStep
  PROVE  WithinBounds
  <1>0. <<>> \in Seq(Event)
    BY EmitsNone
  <1>1. CASE AdkChunk
    <2>1. /\ Says("content", Fresh)
          /\ ShowsText(Fresh) \/ Aborts(Opening \o <<Ev("content", Fresh)>>)
      BY <1>1 DEF AdkChunk
    <2>2. Fresh \in 0 .. MaxEvents /\ Hears
      BY <2>1, NotesFresh DEF SentKinds
    <2>3. Opening \o <<Ev("content", Fresh)>> \in Seq(Event)
      BY <2>2, SpokenBound
    <2>4. Emits /\ Holds /\ UNCHANGED calls
      BY <2>1, <2>2, <2>3, ShownBound, AbortBound
    <2> QED BY <2>2, <2>4 DEF WithinBounds, Notes
  <1>2. CASE AdkWhole
    <2>1. PICK item \in Unstreamed :
            /\ Says(item.kind, item.of)
            /\ \/ SendAllOf(<<>>) /\ SameReply
               \/ ShowsText(item.of)
               \/ Aborts(Opening \o <<Ev("content", item.of)>>)
      BY <1>2 DEF AdkWhole
    <2>2. item = Ev("whole", Fresh) \/ \E k \in DOMAIN sent : item = Ev("repeat", k)
      BY DEF Unstreamed, ChunksSinceTool
    <2>3. item.kind \in SentKinds /\ (item.of = Fresh \/ item.of \in DOMAIN sent)
      BY <2>2 DEF Ev, SentKinds
    <2>4. Len(sent) < MaxEvents
      BY <2>1 DEF Says
    <2>5. item.of \in 0 .. MaxEvents
      BY <2>3, <2>4, Bounds
    <2>6. Hears
      BY <2>1, <2>3, <2>5, SaysBound
    <2>7. Opening \o <<Ev("content", item.of)>> \in Seq(Event)
      BY <2>5, SpokenBound
    <2>8. Emits /\ Holds /\ UNCHANGED calls
      BY <1>0, <2>1, <2>5, <2>7, SameBound, ShownBound, AbortBound
    <2> QED BY <2>6, <2>8 DEF WithinBounds, Notes
  <1>3. CASE AdkThought
    <2> DEFINE es == Closing \o <<Ev("thinking", 0), Ev("thought", Fresh), Ev("end", 0)>>
    <2>1. Says("thought", Fresh)
      BY <1>3 DEF AdkThought
    <2>2. \/ SendAllOf(<<>>) /\ SameReply
          \/ SendAllOf(es) /\ SameReply
          \/ Aborts(es)
      BY <1>3 DEF AdkThought
    <2>3. Fresh \in 0 .. MaxEvents /\ Hears
      BY <2>1, NotesFresh DEF SentKinds
    <2>4. es \in Seq(Event)
      BY <2>3, SpokenBound
    <2> HIDE DEF es
    <2>5. Emits /\ Holds /\ UNCHANGED calls
      BY <1>0, <2>2, <2>4, SameBound, AbortBound
    <2> QED BY <2>3, <2>5 DEF WithinBounds, Notes
  <1>4. CASE AdkSummary
    <2>1. Says("summary", 0) /\ SendAllOf(<<>>) /\ SameReply
      BY <1>4 DEF AdkSummary
    <2>2. Emits /\ Holds /\ UNCHANGED calls
      BY <1>0, <2>1, SameBound
    <2>3. Notes
      BY <2>1, <2>2, Bounds, NotesSpoken DEF SentKinds
    <2> QED BY <2>2, <2>3 DEF WithinBounds
  <1>5. CASE AdkTool
    <2> DEFINE es == IF limited THEN <<>> ELSE Closing \o <<Ev("tool", Len(calls) + 1)>>
    <2>1. CallsTool
      BY <1>5 DEF AdkTool
    <2>2. (SendAllOf(es) /\ \E name \in Names : CapturesCall(name)) \/ Aborts(es)
      BY <1>5 DEF AdkTool
    <2>3. Len(sent) < MaxEvents /\ Len(calls) + 1 \in 0 .. MaxEvents /\ Says("tool", Len(calls) + 1)
      BY <2>1, Bounds DEF CallsTool, Says
    <2>4. Closing \o <<Ev("tool", Len(calls) + 1)>> \in Seq(Event)
      BY <2>3, SpokenBound
    <2>5. es \in Seq(Event)
      BY <1>0, <2>4
    <2> HIDE DEF es
    <2>6. ASSUME SendAllOf(es), NEW name \in Names, CapturesCall(name) PROVE WithinBounds
      <3>1. Notes /\ Holds
        BY <2>1, <2>6, NotesCall
      <3>2. Emits
        BY <2>5, <2>6, EmitsThese
      <3> QED BY <3>1, <3>2 DEF WithinBounds
    <2>7. CASE Aborts(es)
      <3>1. Emits /\ Holds /\ UNCHANGED calls
        BY <2>5, <2>7, AbortBound
      <3>2. Notes
        BY <2>3, <3>1, NotesSpoken DEF SentKinds
      <3> QED BY <3>1, <3>2 DEF WithinBounds
    <2> QED BY <2>2, <2>6, <2>7
  <1>6. CASE AdkAnswer
    <2> DEFINE Putting(j) == IF limited THEN <<>> ELSE <<Ev("answer", j)>>
    <2>1. PICK i \in Pending :
            /\ Says("answer", i)
            /\ \/ \E j \in DOMAIN calls : (SendAllOf(Putting(j)) /\ Answers(j, i)) \/ Aborts(Putting(j))
               \/ SendAllOf(Putting(0)) /\ SameReply
               \/ Aborts(Putting(0))
      BY <1>6 DEF AdkAnswer, Pending
    <2>2. \A n \in 0 .. MaxEvents : Putting(n) \in Seq(Event)
      BY <1>0, SpokenBound
    <2>3. i \in 0 .. MaxEvents /\ 0 \in 0 .. MaxEvents /\ DOMAIN calls \subseteq 0 .. MaxEvents
      BY Bounds DEF Pending
    <2> HIDE DEF Putting
    <2>4. UNCHANGED calls => Notes
      BY <2>1, <2>3, NotesSpoken DEF SentKinds
    <2>5. ASSUME NEW j \in DOMAIN calls, SendAllOf(Putting(j)), Answers(j, i) PROVE WithinBounds
      <3>1. Notes /\ Holds
        BY <2>1, <2>5, NotesAnswer
      <3>2. Putting(j) \in Seq(Event)
        BY <2>2, <2>3
      <3>3. Emits
        BY <2>5, <3>2, EmitsThese
      <3> QED BY <3>1, <3>3 DEF WithinBounds
    <2>6. ASSUME NEW n \in 0 .. MaxEvents, Aborts(Putting(n)) \/ (SendAllOf(Putting(n)) /\ SameReply)
          PROVE  WithinBounds
      <3>1. Putting(n) \in Seq(Event)
        BY <2>2
      <3>2. Emits /\ Holds /\ UNCHANGED calls
        BY <2>6, <3>1, AbortBound, SameBound
      <3> QED BY <2>4, <3>2 DEF WithinBounds
    <2> QED BY <2>1, <2>3, <2>5, <2>6
  <1>7. CASE AdkError \/ AdkEnds \/ AdkBreaks
    <2> DEFINE es == IF limited THEN <<>> ELSE Closing
    <2>1. es \in Seq(Event) /\ es \o RunError \in Seq(Event)
      BY <1>0, EndingBound, ConcatProperties
    <2>2. SendBlindly(es) \/ SendBlindly(es \o RunError)
      BY <1>7 DEF AdkError, AdkEnds, AdkBreaks
    <2> HIDE DEF es
    <2>3. (Flush \/ Stays) /\ UNCHANGED <<sent, calls>>
      BY <1>7 DEF AdkError, AdkEnds, AdkBreaks, Flush, Stays, replyVars
    <2>4. Emits
      BY <2>1, <2>2, EmitsThese
    <2>5. Holds
      BY <2>3, ReplyBound
    <2> QED BY <2>3, <2>4, <2>5 DEF WithinBounds, Notes
  <1>8. CASE AdkRotates \/ AdkGivesUp
    <2> PICK k \in {"rotation", "again"} : /\ AdkRotates => k = "rotation"
                                           /\ AdkGivesUp => k = "again"
      BY DEF AdkRotates, AdkGivesUp
    <2>1. Notice(k) \in Seq(Event)
      BY NoticeBound DEF Kinds
    <2>2. \/ SendAllOf(Notice(k)) \/ SendBlindly(Notice(k))
          \/ \E n \in DOMAIN Notice(k) : StopsAt(Notice(k), n)
      BY <1>8 DEF AdkRotates, AdkGivesUp, Aborts, StopsAt
    <2>3. Stays /\ UNCHANGED <<sent, calls>>
      BY <1>8 DEF AdkRotates, AdkGivesUp, Aborts, replyVars, Stays
    <2>4. Emits
      BY <2>1, <2>2, EmitsThese, EmitsSome
    <2>5. Holds
      BY <2>3, ReplyBound
    <2> QED BY <2>3, <2>4, <2>5 DEF WithinBounds, Notes
  <1>9. CASE AdkRetries
    <2>1. SendBlindly(<<>>) \/ SendBlindly(RunError)
      BY <1>9 DEF AdkRetries
    <2>2. Emits
      BY <1>0, <2>1, EndingBound, EmitsThese
    <2>3. CASE /\ sent' = <<>> /\ segment' = <<>> /\ text' = <<>> /\ parts' = <<>> /\ calls' = <<>>
      BY <1>0, <2>2, <2>3 DEF WithinBounds, Notes, Holds
    <2>4. CASE UNCHANGED <<sent, replyVars>>
      <3>1. Stays /\ UNCHANGED <<sent, calls>>
        BY <2>4 DEF Stays, replyVars
      <3> QED BY <2>2, <3>1, ReplyBound DEF WithinBounds, Notes
    <2> QED BY <1>9, <2>3, <2>4 DEF AdkRetries
  <1> QED BY <1>1, <1>2, <1>3, <1>4, <1>5, <1>6, <1>7, <1>8, <1>9 DEF AdkStep

LEMMA OtherWithin ==
  ASSUME AgentTyped,
         \/ MakeRequest \/ RefuseRequest \/ FormatFails \/ ConnectFails \/ BackoffExpires
         \/ Connects \/ Leave \/ NoticeLeft \/ UNCHANGED vars
  PROVE  WithinBounds
  <1>1. Stays /\ UNCHANGED <<sent, calls>>
    BY DEF MakeRequest, RefuseRequest, FormatFails, ConnectFails, BackoffExpires, Connects,
           Leave, NoticeLeft, vars, turnVars, replyVars, Stays
  <1>2. UNCHANGED events \/ SendBlindly(<<>>) \/ SendBlindly(RunError)
    BY DEF MakeRequest, RefuseRequest, FormatFails, ConnectFails, BackoffExpires, Connects,
           Leave, NoticeLeft, vars, turnVars, writerVars
  <1>3. UNCHANGED events => Emits
    <2>1. events \in Seq(Event)
      BY DEF AgentTyped, TypeOK, TurnTypeOK
    <2>2. events = events \o <<>>
      BY <2>1, ConcatEmptySeq
    <2> QED BY <2>2, EmitsNone DEF Emits
  <1>4. Emits
    BY <1>2, <1>3, EmitsNone, EndingBound, EmitsThese
  <1>5. Holds
    BY <1>1, ReplyBound
  <1> QED BY <1>1, <1>4, <1>5 DEF WithinBounds, Notes

\* The variables that are neither sequences nor flags.
LEMMA RestOfTypes ==
  ASSUME AgentTyped, [Next]_vars
  PROVE  attempts' \in 0 .. MaxAttempts /\ streamed' \in BOOLEAN /\ rotated' \in BOOLEAN
  <1>0. attempts \in 0 .. 3 /\ streamed \in BOOLEAN /\ rotated \in BOOLEAN
    BY DEF AgentTyped, TypeOK, TurnTypeOK, AdkTypeOK, MaxAttempts
  <1>1. \/ attempts' \in {attempts, 0}
        \/ attempts' = attempts + 1 /\ (attempts' < MaxAttempts \/ attempts' = MaxAttempts)
    BY DEF Next, vars, turnVars, MakeRequest, RefuseRequest, FormatFails, ConnectFails, BackoffExpires,
           Connects, Leave, NoticeLeft, RestStep, RestText, RestStart, RestTool, RestAnswer, RestChart,
           RestEnds, RestError, RestBreaks, RestDocument, SameCall, A2aStep, A2aText, A2aThought,
           A2aTool, A2aAnswer, A2aCompletes, A2aFails, SameSide, AdkStep, AdkChunk, AdkWhole,
           AdkThought, AdkSummary, AdkTool, AdkAnswer, AdkError, AdkEnds, AdkBreaks, AdkRotates,
           AdkRetries, AdkGivesUp, SameTurn
  <1>2. UNCHANGED adkVars \/ AdkStep
    BY DEF Next, vars
  <1>3. AdkStep => rotated' \in {rotated, TRUE}
    BY DEF AdkStep, AdkChunk, AdkWhole, AdkThought, AdkSummary, AdkTool, AdkAnswer, AdkError, AdkEnds,
           AdkBreaks, AdkRotates, AdkRetries, AdkGivesUp, SameTurn, adkVars
  <1>4. AdkStep => streamed' \in {streamed, FALSE} \/ streamed' = (streamed \/ ~limited)
    BY DEF AdkStep, AdkChunk, AdkWhole, AdkThought, AdkSummary, AdkTool, AdkAnswer, AdkError, AdkEnds,
           AdkBreaks, AdkRotates, AdkRetries, AdkGivesUp, Aborts, adkVars
  <1>5. attempts' \in 0 .. MaxAttempts
    BY <1>0, <1>1 DEF MaxAttempts
  <1>6. rotated' \in BOOLEAN
    BY <1>0, <1>2, <1>3 DEF adkVars
  <1>7. streamed' \in BOOLEAN
    <2>1. CASE streamed' = (streamed \/ ~limited)
      BY <2>1
    <2>2. CASE streamed' \in {streamed, FALSE}
      BY <1>0, <2>2
    <2> QED BY <1>2, <1>4, <2>1, <2>2 DEF adkVars
  <1> QED BY <1>5, <1>6, <1>7

LEMMA AgentFlags == AgentTyped => Flags
  BY DEF AgentTyped, TypeOK, TurnTypeOK, AdkTypeOK, Flags

LEMMA AgentTypedKept == AgentTyped /\ [Next]_vars => AgentTyped'
  <1> SUFFICES ASSUME AgentTyped, [Next]_vars PROVE AgentTyped'
    OBVIOUS
  <1>1. WithinBounds
    BY RestWithin, A2aWithin, AdkWithin, OtherWithin DEF Next
  <1>2. /\ events' \in Seq(Event) /\ sent' \in Seq(Sent) /\ calls' \in Seq(Call)
        /\ text' \in Seq(Event) /\ segment' \in Seq(Event) /\ parts' \in Seq(Event)
        /\ Sizes'
    BY <1>1, SequencesKept
  <1>3. Flags'
    BY AgentFlags, FlagsTyped
  <1>4. attempts' \in 0 .. MaxAttempts /\ streamed' \in BOOLEAN /\ rotated' \in BOOLEAN
    BY RestOfTypes
  <1>5. {suppressed', connected', noticed', clientGone', open', failed'} \subseteq BOOLEAN
        /\ {streamed', limited', rotated'} \subseteq BOOLEAN
    BY <1>3, <1>4 DEF Flags
  <1>6. /\ protocol' \in Protocols
        /\ pc' \in {"request", "connect", "stream", "json", "rotate", "retry", "again", "refused", "done"}
        /\ outcome' \in {"none", "whole", "partial"}
    BY <1>3 DEF Flags
  <1>7. TurnTypeOK'
    BY <1>2, <1>4, <1>5, <1>6 DEF TurnTypeOK
  <1> QED BY <1>2, <1>5, <1>7 DEF AgentTyped, TypeOK, AdkTypeOK

LEMMA AgentInvariant == Spec => []AgentTyped
  <1>1. Init => AgentTyped
    <2> SUFFICES ASSUME Init PROVE AgentTyped
      OBVIOUS
    <2>1. events = <<>> /\ sent = <<>> /\ calls = <<>> /\ text = <<>> /\ segment = <<>> /\ parts = <<>>
      BY DEF Init, TurnInit
    <2>2. /\ events \in Seq(Event) /\ sent \in Seq(Sent) /\ calls \in Seq(Call)
          /\ {segment, text, parts} \subseteq Seq(Event)
      BY <2>1
    <2>3. Len(sent) = 0 /\ Len(calls) = 0
      BY <2>1
    <2>4. Sizes
      BY <2>3, BoundsAssumption DEF Sizes
    <2>5. TurnTypeOK
      <3>1. attempts \in 0 .. MaxAttempts /\ outcome = "none" /\ protocol \in Protocols /\ pc = "request"
        BY DEF Init, TurnInit, MaxAttempts
      <3>2. {suppressed, connected, noticed, clientGone, open, failed} \subseteq BOOLEAN
        BY DEF Init, TurnInit
      <3> QED BY <2>2, <3>1, <3>2 DEF TurnTypeOK
    <2>6. AdkTypeOK
      BY DEF Init, AdkInit, AdkTypeOK
    <2> QED BY <2>4, <2>5, <2>6 DEF AgentTyped, TypeOK
  <1> QED BY <1>1, AgentTypedKept, PTL DEF Spec

\* Every variable of an agent's answer and of the session's links, pages and
\* read counts keeps a value of its type, whatever their numbers.  That no
\* event of an answer has a number beyond those an agent's stream has rests on
\* its tool calls being among what it has sent (Sizes).
THEOREM SessionsTyped == ClientSpec => []SessionsTypeOK
  <1>1. AgentTyped => TypeOK
    BY DEF AgentTyped
  <1>2. ClientInv => SharingTypeOK /\ PagesTypeOK /\ ReadTypeOK
    BY SharingHolds, PagesHold, ReadHolds, Zenon DEF ClientInv
  <1>3. TypeOK /\ SharingTypeOK /\ PagesTypeOK /\ ReadTypeOK => SessionsTypeOK
    BY DEF SessionsTypeOK
  <1> QED BY <1>1, <1>2, <1>3, AgentInvariant, ClientInvariant, StreamBehaves, PTL
=============================================================================
