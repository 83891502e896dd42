------------------------------ MODULE A2aProxy ------------------------------
(***************************************************************************)
(* An A2A agent's answer (proxy/a2a.go): status updates and artifacts,     *)
(* whose parts are texts, thoughts and tool calls, until a terminal state. *)
(* Text is streamed to the end, client or not; thoughts and tool calls are *)
(* no longer sent once the loop knows that the client has left.            *)
(***************************************************************************)
EXTENDS TurnStream

Streaming == pc = "stream" /\ protocol = "a2a"
SameSide == UNCHANGED <<modeVars, connected, attempts>>

(* A text part of a working status or an artifact. *)
A2aText ==
    /\ Streaming
    /\ Says("content", Fresh)
    /\ Send(Opening \o <<Ev("content", Fresh)>>)
    /\ Captures(Fresh)
    /\ open' = TRUE
    /\ GoesOn /\ SameSide

(* emitThinkingDrain: a message of its own; a failing write ends it, and   *)
(* leaves the open message open when it is the first one.                  *)
A2aThought ==
    /\ Streaming
    /\ Says("thought", Fresh)
    /\ LET message == Closing \o <<Ev("thinking", 0), Ev("thought", Fresh), Ev("end", 0)>>
       IN  \/ noticed /\ SendAllOf(<<>>) /\ open' = FALSE
           \/ ~noticed /\ SendAllOf(message) /\ open' = FALSE
           \/ /\ ~noticed
              /\ \E n \in DOMAIN message : StopsAt(message, n) /\ open' = (open /\ n = 1)
    /\ SameReply /\ GoesOn /\ SameSide

Unnoticed(es) == SendBlindly(IF noticed THEN <<>> ELSE es)

(* captureToolCall, a call: captured in any case. *)
A2aTool ==
    /\ Streaming
    /\ CallsTool
    /\ Unnoticed(Closing \o <<Ev("tool", Len(calls) + 1)>>)
    /\ \E name \in Names : CapturesCall(name)
    /\ open' = FALSE
    /\ GoesOn /\ SameSide

(* Mutant: an answer without an ID goes to any call of that name. *)
A2aAnswerAny ==
    /\ Streaming
    /\ \E i \in Pending :
        /\ Says("answer", i)
        /\ \E j \in DOMAIN calls :
            /\ calls[j].name = calls[i].name
            /\ Unnoticed(<<Ev("answer", j)>>)
            /\ Answers(j, i)
    /\ UNCHANGED open
    /\ GoesOn /\ SameSide

(* captureToolCall, a response: by its ID, or else for any call of that    *)
(* name without a result, if there is one.                                 *)
A2aAnswer ==
    /\ Streaming
    /\ \E i \in Pending :
        LET open_ == {j \in DOMAIN calls : calls[j].name = calls[i].name /\ calls[j].answer = 0}
        IN  /\ Says("answer", i)
            /\ \/ \E j \in {i} \cup open_ : Unnoticed(<<Ev("answer", j)>>) /\ Answers(j, i)
               \/ open_ = {} /\ Unnoticed(<<Ev("answer", 0)>>) /\ SameReply
    /\ UNCHANGED open
    /\ GoesOn /\ SameSide

(* completed, perhaps with a last text. *)
A2aCompletes ==
    /\ Streaming
    /\ Send(Closing)
    /\ Flush
    /\ Returns("whole", FALSE)
    /\ UNCHANGED sent /\ SameSide

(* failed, canceled, rejected, auth-required, an RPC error, or the stream  *)
(* ends before a terminal state; with nothing to keep there is no reply,   *)
(* but for the deadline's, which is returned even then.                    *)
A2aFails ==
    /\ Streaming
    /\ SendBlindly(Closing \o RunError)
    /\ \/ Flush /\ Returns("partial", TRUE)
       \/ ~Captured /\ UNCHANGED replyVars /\ Returns("none", TRUE)
    /\ UNCHANGED sent /\ SameSide

A2aStep ==
    \/ A2aText \/ A2aThought \/ A2aTool \/ A2aAnswer \/ A2aCompletes \/ A2aFails
=============================================================================
