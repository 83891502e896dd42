------------------------------- MODULE Pages -------------------------------
(***************************************************************************)
(* A conversation read page by page (GetSessionPaginated of store/redis.go,*)
(* GetSession of handlers/sessions.go, the web client's SessionContext).   *)
(* The newest page comes first; the cursor of an older one is an index     *)
(* into a list that goes on growing, and now and then is written back as   *)
(* it was before.  The client keeps one list (hooks/useChat.ts), whichever *)
(* session a page was asked for.  Its own runs add to it, and now and then *)
(* the whole conversation is put in its place; neither changes where the   *)
(* next older page is asked from.                                          *)
(*   Left out: reloadCurrentSession, which nothing calls; a run that was   *)
(* under way when the conversation was chosen (RunReader).                 *)
(***************************************************************************)
EXTENDS Integers, Sequences

CONSTANTS
    Conversations,  \* sessions of the user
    Asks,           \* requests of the client under way, one each
    PageSize,
    NoConversation,
    MaxMessages,    \* bound: messages of a conversation
    MaxOwnRuns      \* bound: runs of the client's own

ASSUME PagesAssumption ==
    PageSize \in Nat \ {0} /\ MaxMessages \in Nat /\ MaxOwnRuns \in Nat

VARIABLES
    total,          \* per conversation: how many messages it has
    shrunk,         \* conversations written back shorter (history)
    view,           \* what the client shows, and where it would go on
    stream,         \* a run of the client's own, and what it writes after
    ownRuns,        \* such runs so far
    ask,            \* per request: what for, its answer; for an older page from
                    \* which cursor, and whether no run of its own was going on
    torn,           \* messages were left out, or mixed up (history)
    repeated        \* the whole was shown although older pages are to come (history)

runVars == <<stream, ownRuns>>
pageVars == <<total, shrunk, view, runVars, ask, torn, repeated>>

Messages == Conversations \X (1 .. MaxMessages)
\* Index 0 is never a cursor: the JSON field is left out then.
NoCursor == 0
NothingShown(c) == [of |-> c, messages |-> <<>>, more |-> FALSE, cursor |-> NoCursor]
Unasked == [for |-> "nothing", of |-> NoConversation, before |-> NoCursor, quiet |-> FALSE,
            at |-> "idle", page |-> NothingShown(NoConversation)]
NoStream == [on |-> FALSE, base |-> <<>>]

PagesTypeOK ==
    /\ total \in [Conversations -> 0 .. MaxMessages]
    /\ shrunk \subseteq Conversations
    /\ view.of \in Conversations \cup {NoConversation} /\ view.messages \in Seq(Messages)
    /\ view.more \in BOOLEAN /\ view.cursor \in Nat
    /\ stream.on \in BOOLEAN /\ stream.base \in Seq(Messages) /\ ownRuns \in 0 .. MaxOwnRuns
    /\ \A q \in Asks : /\ ask[q].for \in {"nothing", "newest", "older", "whole"}
                       /\ ask[q].at \in {"idle", "asked", "read"}
    /\ torn \in BOOLEAN /\ repeated \in BOOLEAN

PagesInit ==
    /\ total = [c \in Conversations |-> 0]
    /\ shrunk = {}
    /\ view = NothingShown(NoConversation)
    /\ stream = NoStream /\ ownRuns = 0
    /\ ask = [q \in Asks |-> Unasked]
    /\ torn = FALSE /\ repeated = FALSE

(* A message is stored.                                                    *)
Grows(c) == total[c] < MaxMessages /\ total' = [total EXCEPT ![c] = @ + 1]

(* Another user, or a run that nobody watches, adds a message.             *)
AddedTo(c) ==
    /\ Grows(c)
    /\ UNCHANGED <<shrunk, view, runVars, ask, torn, repeated>>

(* A whole-document write takes the last message away (bound: once).       *)
WrittenBack(c) ==
    /\ c \notin shrunk /\ total[c] > 0
    /\ total' = [total EXCEPT ![c] = @ - 1]
    /\ shrunk' = shrunk \cup {c}
    /\ UNCHANGED <<view, runVars, ask, torn, repeated>>

UnderWay == {q \in Asks : ask[q].at # "idle"}

(* selectSession empties the view and asks for the newest page.            *)
SelectSession(q, c) ==
    /\ ask[q].at = "idle"
    /\ view' = NothingShown(NoConversation) /\ stream' = NoStream
    /\ ask' = [ask EXCEPT ![q] = [Unasked EXCEPT !.for = "newest", !.of = c, !.at = "asked"]]
    /\ torn' = (UnderWay # {}) /\ repeated' = FALSE
    /\ UNCHANGED <<total, shrunk, ownRuns>>

(* loadOlderMessages, one at a time.                                       *)
LoadOlder(q) ==
    /\ ask[q].at = "idle"
    /\ view.of # NoConversation /\ view.more
    /\ \A p \in UnderWay : ask[p].for # "older"
    /\ ask' = [ask EXCEPT ![q] = [Unasked EXCEPT !.for = "older", !.of = view.of,
                                  !.before = view.cursor, !.quiet = ~stream.on, !.at = "asked"]]
    /\ UNCHANGED <<total, shrunk, view, runVars, torn, repeated>>

(* The whole conversation, when a run of another user finished or one that *)
(* was lost may have; not while a run of the client's own goes on.         *)
AskWhole(q) ==
    /\ ask[q].at = "idle"
    /\ view.of # NoConversation /\ ~stream.on
    /\ ask' = [ask EXCEPT ![q] = [Unasked EXCEPT !.for = "whole", !.of = view.of, !.at = "asked"]]
    /\ UNCHANGED <<total, shrunk, view, runVars, torn, repeated>>

(* The messages from one index up to another.                              *)
Stretch(c, start, end) == [i \in 1 .. (end - start) |-> <<c, start + i>>]

(* A mutant: the cursor counts from the end.                               *)
PageFromEnd(c, before) ==
    LET end == IF before > 0 /\ before < total[c] THEN total[c] - before ELSE total[c]
        start == IF end < PageSize THEN 0 ELSE end - PageSize
    IN  [of |-> c, messages |-> Stretch(c, start, end), more |-> start > 0,
         cursor |-> IF start > 0 THEN total[c] - start ELSE NoCursor]

(* GetSessionPaginated.  A cursor behind the end counts as none.           *)
Page(c, before) ==
    LET end == IF before > 0 /\ before < total[c] THEN before ELSE total[c]
        start == IF end < PageSize THEN 0 ELSE end - PageSize
    IN  [of |-> c, messages |-> Stretch(c, start, end), more |-> start > 0,
         cursor |-> IF start > 0 THEN start ELSE NoCursor]

(* GetSession without a limit.                                             *)
Whole(c) == [of |-> c, messages |-> Stretch(c, 0, total[c]), more |-> FALSE, cursor |-> NoCursor]

ReadPage(q) ==
    /\ ask[q].at = "asked"
    /\ ask' = [ask EXCEPT ![q].at = "read",
                          ![q].page = IF ask[q].for = "whole" THEN Whole(ask[q].of)
                                      ELSE Page(ask[q].of, ask[q].before)]
    /\ UNCHANGED <<total, shrunk, view, runVars, torn, repeated>>

-----------------------------------------------------------------------------
(* Answers.                                                                *)

AnswerComes(q, for) ==
    /\ ask[q].at = "read" /\ ask[q].for = for
    /\ ask' = [ask EXCEPT ![q] = Unasked]
    /\ UNCHANGED <<total, shrunk>>

(* The newest page is shown in place of what was, unless a page of the     *)
(* same conversation is there.                                             *)
ShowNewest(q) ==
    LET page == ask[q].page IN
    /\ AnswerComes(q, "newest")
    /\ IF view.of = page.of
       THEN view' = [page EXCEPT !.messages = view.messages] /\ UNCHANGED stream
       ELSE view' = page /\ stream' = NoStream
    /\ UNCHANGED <<ownRuns, torn, repeated>>

(* An older page goes in front of what is shown.  It is dropped if a run   *)
(* of the client's own went on when it was asked for, and lost when one    *)
(* that goes on now writes next; but the client goes on from where it      *)
(* begins.                                                                 *)
ShowOlder(q) ==
    LET page == ask[q].page IN
    /\ AnswerComes(q, "older")
    /\ view' = [view EXCEPT !.messages = IF ask[q].quiet THEN page.messages \o @ ELSE @,
                            !.more = page.more, !.cursor = page.cursor]
    /\ torn' = (torn \/ ~ask[q].quiet \/ stream.on)
    /\ UNCHANGED <<runVars, repeated>>

(* replaceMessages, even if a run of the client's own began meanwhile.     *)
ShowWhole(q) ==
    /\ AnswerComes(q, "whole")
    /\ view' = [view EXCEPT !.messages = ask[q].page.messages]
    /\ repeated' = (repeated \/ view.more)
    /\ UNCHANGED <<runVars, torn>>

(* A request fails; for an older page the user may try again.              *)
PageFails(q) ==
    /\ ask[q].at # "idle"
    /\ ask' = [ask EXCEPT ![q] = Unasked]
    /\ UNCHANGED <<total, shrunk, view, runVars, torn, repeated>>

-----------------------------------------------------------------------------
(* The client's own runs.                                                  *)

(* What is shown goes up to the last message that is stored.               *)
UpTo(list, c) == IF list = <<>> THEN total[c] = 0 ELSE list[Len(list)] = <<c, total[c]>>

(* A question is stored, and shown after the first messages that are: all  *)
(* of them, or those before the question that is asked once more.          *)
SendMessage ==
    LET c == view.of IN
    /\ c # NoConversation /\ ~stream.on /\ Grows(c)
    /\ ownRuns < MaxOwnRuns /\ ownRuns' = ownRuns + 1
    /\ \E kept \in 0 .. Len(view.messages) :
          LET base == SubSeq(view.messages, 1, kept) \o << <<c, total[c] + 1>> >> IN
          /\ view' = [view EXCEPT !.messages = base]
          /\ stream' = [on |-> TRUE, base |-> base]
          /\ torn' = (torn \/ kept < Len(view.messages) \/ ~UpTo(view.messages, c))
    /\ UNCHANGED <<shrunk, ask, repeated>>

(* The reply is stored, and shown after what was shown when the run began; *)
(* or the run fails.                                                       *)
StreamEnds ==
    LET c == view.of IN
    /\ stream.on
    /\ stream' = NoStream
    /\ \/ /\ Grows(c)
          /\ view' = [view EXCEPT !.messages = stream.base \o << <<c, total[c] + 1>> >>]
          /\ torn' = (torn \/ ~UpTo(stream.base, c))
       \/ UNCHANGED <<total, view, torn>>
    /\ UNCHANGED <<shrunk, ownRuns, ask, repeated>>

PagesNext ==
    \/ \E c \in Conversations : AddedTo(c) \/ WrittenBack(c)
    \/ \E q \in Asks :
          \/ \E c \in Conversations : SelectSession(q, c)
          \/ LoadOlder(q) \/ AskWhole(q) \/ ReadPage(q)
          \/ ShowNewest(q) \/ ShowOlder(q) \/ ShowWhole(q) \/ PageFails(q)
    \/ SendMessage \/ StreamEnds

(* The pages join, although messages arrive between them.  Nothing is left *)
(* out: what is shown are all messages of one conversation from one to     *)
(* another, and if any precede it the client knows, and asks for a page    *)
(* that reaches up to it.  And every message is shown once, in its order,  *)
(* unless the whole conversation was put in place of a view to which older *)
(* pages are still added.  Neither holds after the conversation was        *)
(* written back shorter; after another one was chosen while a request was  *)
(* under way; when an older page came in a run of the client's own; and    *)
(* when its run followed messages that it had not been shown.              *)
PagesJoin ==
    (view.of # NoConversation /\ view.of \notin shrunk /\ ~torn) =>
        \E start \in 0 .. total[view.of] : \E end \in start .. total[view.of] :
            /\ {view.messages[i] : i \in DOMAIN view.messages}
                 = {<<view.of, i>> : i \in start + 1 .. end}
            /\ start > 0 => view.more /\ view.cursor >= start
            /\ ~repeated => /\ view.messages = Stretch(view.of, start, end)
                            /\ view.more <=> start > 0
                            /\ view.more => view.cursor = start

=============================================================================
