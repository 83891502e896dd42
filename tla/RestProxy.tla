----------------------------- MODULE RestProxy -----------------------------
(***************************************************************************)
(* A REST agent's answer (proxy/rest.go): an event stream in any of the    *)
(* dialects proxySSEToAGUI knows, told apart only by what an event does,   *)
(* or one JSON document.  The stream is read to its end, client or not.    *)
(***************************************************************************)
EXTENDS TurnStream

Reading == pc = "stream" /\ protocol = "custom"
SameCall == UNCHANGED <<modeVars, connected, attempts>>

(* sendText: content_delta, chunk, plain data, or any event with a text. *)
RestText ==
    /\ Reading
    /\ Says("content", Fresh)
    /\ Send(Opening \o <<Ev("content", Fresh)>>)
    /\ Captures(Fresh)
    /\ open' = TRUE
    /\ GoesOn /\ SameCall

(* start opens the message before there is a text. *)
RestStart ==
    /\ Reading
    /\ Says("begin", 0)
    /\ Send(Opening)
    /\ open' = TRUE
    /\ SameReply /\ GoesOn /\ SameCall

(* Mutant: a tool call leaves the message open. *)
RestToolOpen ==
    /\ Reading
    /\ CallsTool
    /\ Send(<<Ev("tool", Len(calls) + 1)>>)
    /\ \E name \in Names : CapturesCall(name)
    /\ UNCHANGED open
    /\ GoesOn /\ SameCall

(* Mutant: the text before a tool call stays with the text after it. *)
RestToolUnflushed ==
    /\ Reading
    /\ CallsTool
    /\ Send(Closing \o <<Ev("tool", Len(calls) + 1)>>)
    /\ \E name \in Names : calls' = Append(calls, [name |-> name, answer |-> 0])
    /\ parts' = Append(parts, Ev("tool", Len(calls) + 1))
    /\ open' = FALSE
    /\ UNCHANGED <<text, segment>>
    /\ GoesOn /\ SameCall

(* tool_start, TOOL_CALL_START: closeTextMessage, then the call. *)
RestTool ==
    /\ Reading
    /\ CallsTool
    /\ Send(Closing \o <<Ev("tool", Len(calls) + 1)>>)
    /\ \E name \in Names : CapturesCall(name)
    /\ open' = FALSE
    /\ GoesOn /\ SameCall

(* tool_result, TOOL_CALL_END: by the call's ID. *)
RestAnswer ==
    /\ Reading
    /\ \E i \in Pending :
        /\ Says("answer", i)
        /\ Send(<<Ev("answer", i)>>)
        /\ Answers(i, i)
    /\ UNCHANGED open
    /\ GoesOn /\ SameCall

(* CUSTOM, a chart: a part of its own, ahead of the text not yet flushed. *)
RestChart ==
    /\ Reading
    /\ Says("chart", Fresh)
    /\ Send(<<Ev("chart", Fresh)>>)
    /\ parts' = Append(parts, Ev("chart", Fresh))
    /\ UNCHANGED <<open, segment, text, calls>>
    /\ GoesOn /\ SameCall

(* end, or the end of the stream. *)
RestEnds ==
    /\ Reading
    /\ Send(Closing)
    /\ Flush
    /\ Returns("whole", FALSE)
    /\ UNCHANGED sent /\ SameCall

(* error: what there is so far is a partial reply. *)
RestError ==
    /\ Reading
    /\ Send(Closing \o RunError)
    /\ \/ Captured /\ Flush /\ Returns("partial", TRUE)
       \/ ~Captured /\ UNCHANGED replyVars /\ Returns("none", TRUE)
    /\ UNCHANGED sent /\ SameCall

(* Reading fails, for the deadline too: reported, and returned in the      *)
(* reply only.                                                             *)
RestBreaks ==
    /\ Reading
    /\ Send(RunError \o Closing)
    /\ Flush
    /\ Returns("partial", FALSE)
    /\ UNCHANGED sent /\ SameCall

(* convertJSONToAGUI: one text; a write that fails loses it. *)
RestDocument ==
    /\ pc = "json"
    /\ \/ /\ SendBlindly(RunError)
          /\ Returns("none", TRUE)
          /\ UNCHANGED <<sent, replyVars>>
       \/ LET message == <<Ev("start", 0), Ev("content", 1), Ev("end", 0)>>
          IN  /\ Says("document", 1)
              /\ \/ SendAllOf(message) /\ text' = <<Ev("content", 1)>> /\ Returns("whole", FALSE)
                 \/ /\ \E n \in DOMAIN message : StopsAt(message, n)
                    /\ UNCHANGED text
                    /\ Returns("none", TRUE)
              /\ UNCHANGED <<open, segment, parts, calls>>
    /\ SameCall

RestStep ==
    \/ RestText \/ RestStart \/ RestTool \/ RestAnswer \/ RestChart
    \/ RestEnds \/ RestError \/ RestBreaks \/ RestDocument
=============================================================================
