----------------------------- MODULE AgentProxy -----------------------------
(***************************************************************************)
(* proxy.Handle: one call of an agent, routed by its protocol.  The caller *)
(* (ChatRun, GroupChat) stores the reply and owns the run's lifecycle; the *)
(* run buffer replays the events to a client that comes back.              *)
(***************************************************************************)
EXTENDS RestProxy, A2aProxy, AdkProxy

vars == <<turnVars, adkVars>>

TypeOK == TurnTypeOK /\ AdkTypeOK

Init == TurnInit /\ AdkInit

(* A REST request whose template does not render fails before the proxy is *)
(* called, and without a word to the client.                               *)
FormatFails ==
    /\ pc = "request"
    /\ protocol = "custom"
    /\ pc' = "refused"
    /\ failed' = TRUE
    /\ UNCHANGED <<modeVars, connected, writerVars, attempts, sent, replyVars, outcome>>

Next ==
    \/ /\ \/ MakeRequest \/ RefuseRequest \/ FormatFails
          \/ ConnectFails \/ BackoffExpires \/ Connects
          \/ Leave \/ NoticeLeft
          \/ RestStep \/ A2aStep
       /\ UNCHANGED adkVars
    \/ AdkStep

Spec == Init /\ [][Next]_vars

-----------------------------------------------------------------------------
Opens == {"start", "thinking", "rotation", "again"}
Within(i, j) == {k \in DOMAIN events : i < k /\ k < j}

(* Whether a message is open before the i-th event; the proxy's notices    *)
(* begin afresh.                                                           *)
OpenBefore(i) ==
    \E j \in 1 .. i - 1 :
        events[j].kind \in Opens /\ \A k \in Within(j, i) : events[k].kind # "end"

Nested ==
    \A i \in DOMAIN events :
        /\ events[i].kind \in {"start", "thinking", "tool"} => ~OpenBefore(i)
        /\ events[i].kind \in {"content", "thought", "notice", "end"} => OpenBefore(i)

(* proxy/sse.go:135: what a returning client replays are well-formed       *)
(* AG-UI messages, each one ended before the next or a tool call begins,   *)
(* and none left open at the end.  Two ways to break it are excepted: an   *)
(* A2A agent's thoughts and tool calls are not sent to a client known to   *)
(* have left, and neither is the end of the message before them; an agent  *)
(* that talks before its summary leaves that message open.                 *)
MessagesWellFormed ==
    /\ Nested \/ (protocol = "a2a" /\ ~connected)
    /\ (pc = "done" /\ OpenBefore(Len(events) + 1)) =>
           \/ ~connected /\ (protocol # "custom" \/ outcome = "none")
           \/ limited

-----------------------------------------------------------------------------
(* The items of s at I are the items of t at J, in the same order.         *)
SameInOrder(s, I, t, J) ==
    \E m \in [I -> J] :
        /\ \A j \in J : \E i \in I : m[i] = j
        /\ \A i \in I : t[m[i]] = s[i]
        /\ \A h, i \in I : h < i => m[h] < m[i]

At(s, kinds) == {i \in DOMAIN s : s[i].kind \in kinds}
SinceRotation(s, kinds) == {i \in At(s, kinds) : \A k \in i .. Len(s) : s[k].kind # "rotation"}

(* request.go:26, "Ordered text/tool interleaving for reconstruction": the *)
(* parts of a reply are the texts and tool calls of the stream, in order;  *)
(* of a client that left an A2A agent, and of a summary, the texts.        *)
StoredAsShown ==
    (pc = "done" /\ outcome # "none" /\ At(sent, {"document"}) = {}) =>
        /\ (connected \/ protocol # "a2a") /\ ~limited =>
               SameInOrder(parts, At(parts, {"content", "tool"}),
                           events, SinceRotation(events, {"content", "tool"}))
        /\ SameInOrder(parts, At(parts, {"content"}), events, SinceRotation(events, {"content"}))
        /\ SameInOrder(parts, At(parts, {"content"}), text, DOMAIN text)

(* A text that is not streamed and comes after one that was, without a     *)
(* tool call in between, passes for its repetition.                        *)
Hidden(k) ==
    \/ sent[k].kind \notin {"content", "whole", "document"}
    \/ \E j \in 1 .. k - 1 : sent[j].kind = "summary"
    \/ /\ sent[k].kind = "whole"
       /\ \E j \in 1 .. k - 1 : /\ sent[j].kind = "content"
                                /\ \A l \in j .. k : sent[l].kind # "tool"

(* rest.go:127, a2a.go:131: the reply has every text the agent sent, once  *)
(* and in order, and every tool call, whether or not the client stayed;    *)
(* and a proxy that drains returns a reply if there is anything to keep.   *)
ReplyComplete ==
    pc = "done" =>
        LET Said == {k \in DOMAIN sent : ~Hidden(k)}
            Called == {k \in DOMAIN sent : sent[k].kind = "tool"}
        IN  /\ outcome # "none" =>
                 /\ Len(text) = Cardinality(Said)
                 /\ \A i, j \in DOMAIN text : i < j => text[i].of < text[j].of
                 /\ \A i \in DOMAIN text : text[i].of \in Said
                 /\ Len(calls) = Cardinality(Called)
            /\ (outcome = "none" /\ protocol # "adk" /\ Said \cup Called # {}) =>
                 ~connected /\ \E k \in Said : sent[k].kind = "document"

(* rest.go:70, "so an aborted turn is never silent": in a debate an error  *)
(* is told on the stream exactly when it is returned, as an error or in    *)
(* the reply, but for the write that fails because the client has left.    *)
ErrorsTold ==
    LET told == \E i \in DOMAIN events : events[i].kind = "error"
        err == failed \/ outcome = "partial"
    IN  /\ told => suppressed
        /\ (pc = "done" /\ told) => err
        /\ (pc = "done" /\ suppressed /\ err) => told \/ (clientGone /\ outcome = "none")

(* What is sent is well formed and tells of every error.                   *)
ToldOnStream == MessagesWellFormed /\ ErrorsTold

(* A tool's result is stored with the call it answers, if calls of one     *)
(* name do not overlap.                                                    *)
Overlapping(i, j) ==
    /\ i < j
    /\ calls[i].name = calls[j].name
    /\ ~\E k, l \in DOMAIN sent : k < l /\ sent[k] = Ev("answer", i) /\ sent[l] = Ev("tool", j)
ResultsMatched ==
    (~\E i, j \in DOMAIN calls : Overlapping(i, j)) =>
        \A i \in DOMAIN calls : calls[i].answer \in {0, i}
=============================================================================
