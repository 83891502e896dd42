----------------------------- MODULE TurnStream -----------------------------
(***************************************************************************)
(* One call of an agent, as far as the proxies of all protocols share it:  *)
(* the SSE writer (proxy/sse.go), which puts every AG-UI event into the    *)
(* run buffer and then writes it to the client while there is one; the     *)
(* reply captured for the session (ProxyResult); and the attempts to reach *)
(* the agent.  The handler owns the run's lifecycle events: a proxy emits  *)
(* none, and reports its error only inside a debate.                       *)
(***************************************************************************)
EXTENDS Integers, Sequences, FiniteSets

CONSTANTS
    MaxEvents,   \* events an agent sends in one stream
    MaxCalls,    \* tool calls an agent makes in one stream
    MaxBefore,   \* events of a stream that an ADK agent's retry follows
    Names        \* of tools

ASSUME BoundsAssumption == MaxEvents \in Nat \ {0} /\ MaxCalls \in Nat /\ MaxBefore \in Nat

VARIABLES
    protocol,    \* agent.Protocol
    suppressed,  \* SuppressLifecycle (a turn of a debate), else DeferLifecycle
    connected,   \* whether the client is there
    noticed,     \* the read loop's own clientGone
    clientGone,  \* the writer's
    events,      \* what onEvent got: the run buffer
    pc,
    attempts,    \* failed attempts to reach the agent so far
    sent,        \* history: what the agent has sent in this stream
    open,        \* messageStarted
    segment,     \* currentSegment, currentText: text not yet in parts
    text,        \* accumulated
    parts,       \* contentParts, a text part as the texts it was made from
    calls,       \* toolCalls
    outcome,     \* the ProxyResult: none (nil), whole, partial (with an Error)
    failed       \* whether an error is returned

writerVars == <<noticed, clientGone, events>>
replyVars == <<open, segment, text, parts, calls>>
resultVars == <<outcome, failed>>
modeVars == <<protocol, suppressed>>
turnVars == <<modeVars, connected, writerVars, pc, attempts, sent, replyVars, resultVars>>

Protocols == {"custom", "a2a", "adk"}
MaxAttempts == 3

(* An event for the client, or an item of what the agent sent: its kind,   *)
(* and which text, tool call or chart it is about.                         *)
Kinds == {"start", "thinking", "content", "thought", "end", "tool", "answer", "chart",
          "rotation", "again", "notice", "error"}
Ev(kind, of) == [kind |-> kind, of |-> of]
Event == [kind : Kinds, of : 0 .. MaxEvents]
Sent == [kind : {"begin", "content", "whole", "repeat", "thought", "tool", "answer", "chart",
                 "summary", "document"},
         of : 0 .. MaxEvents]
Call == [name : Names, answer : 0 .. MaxCalls]

TurnTypeOK ==
    /\ protocol \in Protocols
    /\ {suppressed, connected, noticed, clientGone, open, failed} \subseteq BOOLEAN
    /\ events \in Seq(Event)
    /\ pc \in {"request", "connect", "stream", "json", "rotate", "retry", "again",
              "refused", "done"}
    /\ attempts \in 0 .. MaxAttempts
    /\ sent \in Seq(Sent)
    /\ {segment, text, parts} \subseteq Seq(Event)
    /\ calls \in Seq(Call)
    /\ outcome \in {"none", "whole", "partial"}

TurnInit ==
    /\ protocol \in Protocols
    /\ suppressed \in BOOLEAN
    /\ connected = TRUE
    /\ noticed = FALSE
    /\ clientGone = FALSE
    /\ events = <<>>
    /\ pc = "request"
    /\ attempts = 0
    /\ sent = <<>>
    /\ open = FALSE
    /\ segment = <<>>
    /\ text = <<>>
    /\ parts = <<>>
    /\ calls = <<>>
    /\ outcome = "none"
    /\ failed = FALSE

-----------------------------------------------------------------------------
(* SendAGUIEvent: every event is buffered; a write fails only when the     *)
(* client has left, and is not tried again after the first failure.        *)
WriteFails(es) == es # <<>> /\ ~connected /\ ~clientGone /\ clientGone' = TRUE

(* sendToClient: the loop notes the first failure and goes on. *)
Send(es) ==
    /\ events' = events \o es
    /\ \/ UNCHANGED <<clientGone, noticed>>
       \/ WriteFails(es) /\ noticed' = TRUE

(* The error of a write is ignored. *)
SendBlindly(es) ==
    /\ events' = events \o es
    /\ UNCHANGED clientGone \/ WriteFails(es)
    /\ UNCHANGED noticed

(* The caller returns at the first failed write, the n-th of es. *)
SendAllOf(es) == events' = events \o es /\ UNCHANGED <<clientGone, noticed>>
StopsAt(es, n) ==
    /\ n \in DOMAIN es
    /\ events' = events \o SubSeq(es, 1, n)
    /\ WriteFails(es)
    /\ UNCHANGED noticed

Opening == IF open THEN <<>> ELSE <<Ev("start", 0)>>
Closing == IF open THEN <<Ev("end", 0)>> ELSE <<>>

(* SendRunError: deferred, it is a no-op; in a debate, turn.error. *)
RunError == IF suppressed THEN <<Ev("error", 0)>> ELSE <<>>

-----------------------------------------------------------------------------
(* The reply: text goes to the segment, a tool call ends the segment.      *)
Captures(n) ==
    /\ text' = Append(text, Ev("content", n))
    /\ segment' = Append(segment, Ev("content", n))
    /\ UNCHANGED <<parts, calls>>

CapturesCall(name) ==
    /\ calls' = Append(calls, [name |-> name, answer |-> 0])
    /\ parts' = parts \o segment \o <<Ev("tool", Len(calls) + 1)>>
    /\ segment' = <<>>
    /\ UNCHANGED text

Answers(i, j) == calls' = [calls EXCEPT ![i].answer = j] /\ UNCHANGED <<text, segment, parts>>

SameReply == UNCHANGED <<text, segment, parts, calls>>
Captured == text # <<>> \/ calls # <<>>

Flush == parts' = parts \o segment /\ segment' = <<>> /\ UNCHANGED <<open, text, calls>>

Returns(result, err) == pc' = "done" /\ outcome' = result /\ failed' = err
GoesOn == UNCHANGED <<pc, resultVars>>

-----------------------------------------------------------------------------
(* The agent: what it sends next, numbered, and the calls it has not yet   *)
(* answered.                                                               *)
Fresh == Len(sent) + 1
Says(kind, of) == Len(sent) < MaxEvents /\ sent' = Append(sent, Ev(kind, of))
CallsTool == Len(calls) < MaxCalls /\ Says("tool", Len(calls) + 1)
Pending == {i \in DOMAIN calls : \A k \in DOMAIN sent : sent[k] # Ev("answer", i)}

(* A request without a user message is refused; the REST proxy takes any. *)
RefuseRequest ==
    /\ pc = "request"
    /\ protocol # "custom"
    /\ SendBlindly(RunError)
    /\ Returns("none", TRUE)
    /\ UNCHANGED <<modeVars, connected, attempts, sent, replyVars>>

MakeRequest ==
    /\ pc = "request"
    /\ pc' = "connect"
    /\ UNCHANGED <<modeVars, connected, writerVars, attempts, sent, replyVars, resultVars>>

(* The third failure is final, and so is the deadline in a back-off. *)
ConnectFails ==
    /\ pc = "connect"
    /\ attempts' = attempts + 1
    /\ \/ attempts' < MaxAttempts /\ SendBlindly(<<>>) /\ GoesOn
       \/ attempts' = MaxAttempts /\ SendBlindly(RunError) /\ Returns("none", TRUE)
    /\ UNCHANGED <<modeVars, connected, sent, replyVars>>

BackoffExpires ==
    /\ pc = "connect"
    /\ attempts > 0
    /\ SendBlindly(RunError)
    /\ Returns("none", TRUE)
    /\ UNCHANGED <<modeVars, connected, attempts, sent, replyVars>>

(* A REST agent may also answer with another status, or in one piece. *)
Connects ==
    /\ pc = "connect"
    /\ \/ pc' = "stream" /\ SendBlindly(<<>>) /\ UNCHANGED resultVars
       \/ protocol = "custom" /\ pc' = "json" /\ SendBlindly(<<>>) /\ UNCHANGED resultVars
       \/ protocol = "custom" /\ SendBlindly(RunError) /\ Returns("none", TRUE)
    /\ attempts' = 0
    /\ UNCHANGED <<modeVars, connected, sent, replyVars>>

(* The client goes away: nothing tells the proxy but a failing write or,   *)
(* where the loop looks, the context of its request.                       *)
Leave ==
    /\ connected
    /\ pc \notin {"refused", "done"}
    /\ connected' = FALSE
    /\ UNCHANGED <<modeVars, writerVars, pc, attempts, sent, replyVars, resultVars>>

NoticeLeft ==
    /\ pc = "stream"
    /\ protocol \in {"custom", "a2a"}
    /\ ~connected
    /\ ~noticed
    /\ noticed' = TRUE
    /\ clientGone' = TRUE
    /\ UNCHANGED <<modeVars, connected, events, pc, attempts, sent, replyVars, resultVars>>
=============================================================================
