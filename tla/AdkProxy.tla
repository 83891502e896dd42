------------------------------ MODULE AdkProxy ------------------------------
(***************************************************************************)
(* An ADK agent's answer (proxy/adk.go).  The first write that fails ends  *)
(* the call, without a reply.  An agent out of context answers with a      *)
(* summary instead: the proxy opens a new session of the agent and asks    *)
(* again, once, with the summary in front of the question.                 *)
(***************************************************************************)
EXTENDS TurnStream

VARIABLES
    streamed,  \* hadPartialText: text was streamed since the last tool call
    limited,   \* contextLimitMode: a summary is being read
    rotated    \* whether this is the retry in a new session

adkVars == <<streamed, limited, rotated>>

AdkTypeOK == {streamed, limited, rotated} \subseteq BOOLEAN
AdkInit == streamed = FALSE /\ limited = FALSE /\ rotated = FALSE

AdkStreaming == pc = "stream" /\ protocol = "adk"
SameTurn == UNCHANGED <<modeVars, connected, attempts, rotated>>

(* The n-th of the writes fails: nil and an error. *)
Aborts(es) ==
    /\ \E n \in DOMAIN es : StopsAt(es, n)
    /\ Returns("none", TRUE)
    /\ UNCHANGED <<replyVars, streamed, limited>>

(* A text the client sees; while a summary is read, a part of it. *)
ShowsText(n) ==
    LET es == Opening \o <<Ev("content", n)>>
    IN  \/ limited /\ SendAllOf(<<>>) /\ UNCHANGED open /\ SameReply /\ GoesOn
        \/ ~limited /\ SendAllOf(es) /\ open' = TRUE /\ Captures(n) /\ GoesOn

(* A chunk of streamed text (partial). *)
AdkChunk ==
    /\ AdkStreaming
    /\ Says("content", Fresh)
    /\ \/ /\ ShowsText(Fresh)
          /\ streamed' = (streamed \/ ~limited)
          /\ UNCHANGED limited
       \/ ~limited /\ Aborts(Opening \o <<Ev("content", Fresh)>>)
    /\ SameTurn

(* What an agent sends that is not a chunk: a new text, or once more the   *)
(* last of those it has streamed since its last tool call.                 *)
ChunksSinceTool ==
    {k \in DOMAIN sent : /\ sent[k].kind = "content"
                        /\ \A j \in k .. Len(sent) : sent[j].kind # "tool"}
Unstreamed ==
    {Ev("whole", Fresh)}
        \cup {Ev("repeat", k) : k \in {c \in ChunksSinceTool : \A d \in ChunksSinceTool : d <= c}}

(* Mutant: such a text is always shown. *)
AdkWholeAlways ==
    /\ AdkStreaming
    /\ \E item \in Unstreamed : Says(item.kind, item.of) /\ ShowsText(item.of)
    /\ UNCHANGED <<streamed, limited>>
    /\ SameTurn

(* It is shown unless there were chunks since the last tool call. *)
AdkWhole ==
    /\ AdkStreaming
    /\ \E item \in Unstreamed :
        /\ Says(item.kind, item.of)
        /\ \/ streamed /\ ~limited /\ SendAllOf(<<>>) /\ UNCHANGED open /\ SameReply /\ GoesOn
           \/ (~streamed \/ limited) /\ ShowsText(item.of)
           \/ ~streamed /\ ~limited /\ Aborts(Opening \o <<Ev("content", item.of)>>)
    /\ UNCHANGED <<streamed, limited>>
    /\ SameTurn

(* emitThinking: a message of its own. *)
AdkThought ==
    /\ AdkStreaming
    /\ Says("thought", Fresh)
    /\ LET es == Closing \o <<Ev("thinking", 0), Ev("thought", Fresh), Ev("end", 0)>>
       IN  \/ limited /\ SendAllOf(<<>>) /\ UNCHANGED open /\ SameReply /\ GoesOn
           \/ ~limited /\ SendAllOf(es) /\ open' = FALSE /\ SameReply /\ GoesOn
           \/ ~limited /\ Aborts(es)
    /\ UNCHANGED <<streamed, limited>>
    /\ SameTurn

(* A text that begins with the summary's tag. *)
AdkSummary ==
    /\ AdkStreaming
    /\ ~limited
    /\ Says("summary", 0)
    /\ limited' = TRUE
    /\ SendAllOf(<<>>)
    /\ SameReply /\ GoesOn /\ SameTurn
    /\ UNCHANGED <<open, streamed>>

(* A function call; captured, but not shown, while a summary is read. *)
AdkTool ==
    /\ AdkStreaming
    /\ CallsTool
    /\ LET es == IF limited THEN <<>> ELSE Closing \o <<Ev("tool", Len(calls) + 1)>>
       IN  \/ /\ SendAllOf(es)
              /\ \E name \in Names : CapturesCall(name)
              /\ open' = (open /\ limited)
              /\ streamed' = FALSE
              /\ GoesOn
              /\ UNCHANGED limited
           \/ Aborts(es)
    /\ SameTurn

(* Its response: by its ID, else for the oldest call of that name that has *)
(* none, else for no call.                                                 *)
AdkAnswer ==
    /\ AdkStreaming
    /\ \E i \in Pending :
        LET waiting == {j \in DOMAIN calls : calls[j].name = calls[i].name /\ calls[j].answer = 0}
            oldest == {j \in waiting : \A k \in waiting : j <= k}
            Shown(j) == IF limited THEN <<>> ELSE <<Ev("answer", j)>>
        IN  /\ Says("answer", i)
            /\ \/ \E j \in {i} \cup oldest :
                     \/ SendAllOf(Shown(j)) /\ Answers(j, i) /\ GoesOn /\ UNCHANGED <<open, limited, streamed>>
                     \/ Aborts(Shown(j))
               \/ /\ waiting = {}
                  /\ \/ SendAllOf(Shown(0)) /\ SameReply /\ GoesOn /\ UNCHANGED <<open, limited, streamed>>
                     \/ Aborts(Shown(0))
    /\ SameTurn

(* An error event or line. *)
AdkError ==
    /\ AdkStreaming
    /\ SendBlindly((IF limited THEN <<>> ELSE Closing) \o RunError)
    /\ \/ Captured /\ Flush /\ Returns("partial", TRUE)
       \/ ~Captured /\ UNCHANGED replyVars /\ Returns("none", TRUE)
    /\ UNCHANGED <<sent, streamed, limited>>
    /\ SameTurn

(* turnComplete without content, or the end of the stream after any event, *)
(* one without content included: the reply is whole, or a summary has been *)
(* read, which, when it is empty, counts for nothing.                      *)
AdkEnds ==
    /\ AdkStreaming
    /\ SendBlindly(IF limited THEN <<>> ELSE Closing)
    /\ Flush
    /\ \/ Returns("whole", FALSE)
       \/ limited /\ pc' = (IF rotated THEN "again" ELSE "rotate") /\ UNCHANGED resultVars
    /\ UNCHANGED <<sent, streamed, limited>>
    /\ SameTurn

(* The stream ends before any event, or reading it fails: with the         *)
(* deadline everything captured so far is lost.                            *)
AdkBreaks ==
    /\ AdkStreaming
    /\ SendBlindly((IF limited THEN <<>> ELSE Closing) \o RunError)
    /\ Returns("none", TRUE)
    /\ UNCHANGED <<sent, replyVars, streamed, limited>>
    /\ SameTurn

Notice(kind) == <<Ev(kind, 0), Ev("notice", 0), Ev("end", 0)>>

(* The rotation is announced, ... *)
AdkRotates ==
    /\ pc = "rotate"
    /\ \/ SendAllOf(Notice("rotation")) /\ pc' = "retry" /\ UNCHANGED <<replyVars, resultVars, streamed, limited>>
       \/ Aborts(Notice("rotation"))
    /\ UNCHANGED sent
    /\ SameTurn

(* ... a session created and the question asked again: what the first      *)
(* stream had captured is left behind.                                     *)
AdkRetries ==
    /\ pc = "retry"
    /\ \/ /\ Len(sent) <= MaxBefore
          /\ pc' = "stream"
          /\ SendBlindly(<<>>)
          /\ rotated' = TRUE
          /\ sent' = <<>> /\ open' = FALSE /\ segment' = <<>>
          /\ text' = <<>> /\ parts' = <<>> /\ calls' = <<>>
          /\ streamed' = FALSE /\ limited' = FALSE
          /\ UNCHANGED resultVars
       \/ /\ SendBlindly(RunError)
          /\ Returns("none", TRUE)
          /\ UNCHANGED <<sent, replyVars, adkVars>>
    /\ UNCHANGED <<modeVars, connected, attempts>>

(* A second summary: the user is told, and that is all. *)
AdkGivesUp ==
    /\ pc = "again"
    /\ \/ SendBlindly(Notice("again")) /\ Returns("whole", FALSE) /\ UNCHANGED <<replyVars, streamed, limited>>
       \/ StopsAt(Notice("again"), 1) /\ Returns("none", TRUE) /\ UNCHANGED <<replyVars, streamed, limited>>
    /\ UNCHANGED sent
    /\ SameTurn

AdkStep ==
    \/ AdkChunk \/ AdkWhole \/ AdkThought \/ AdkSummary \/ AdkTool \/ AdkAnswer
    \/ AdkError \/ AdkEnds \/ AdkBreaks \/ AdkRotates \/ AdkRetries \/ AdkGivesUp
=============================================================================
