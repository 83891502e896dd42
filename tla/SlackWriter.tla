---------------------------- MODULE SlackWriter ----------------------------
(***************************************************************************)
(* The writer that shows an agent's answer in Slack while it comes         *)
(* (slack/streamer.go).  Text is gathered in a buffer; half a second after *)
(* the last piece a timer's goroutine sends all of it, by editing the      *)
(* message or, when that became too long, by posting the rest as another.  *)
(* Each sending takes its snapshot under the lock and calls Slack without  *)
(* it.  A stopped timer whose goroutine runs already still sends.          *)
(*                                                                         *)
(* Text is counted in pieces; a message holds MaxPieces of them.           *)
(***************************************************************************)
EXTENDS Naturals, Sequences

CONSTANTS
    MaxText,        \* bound: pieces of the answer
    MaxPieces,      \* external: pieces a message can be edited to
    MaxTimers,      \* bound: timer goroutines that send at one time
    MaxRefusals     \* bound: calls that Slack refuses

ASSUME WriterBoundsAssumption ==
    MaxText \in Nat /\ MaxPieces \in Nat \ {0} /\ MaxTimers \in Nat /\ MaxRefusals \in Nat

VARIABLES
    text,           \* len(textBuf)
    timerSet,       \* debounceTimer is pending
    messages,       \* external: the messages, each with the text it shows
    message,        \* messageTS: which of them is edited, 0 for none
    overflow, offset, lastSent, lastError,      \* the writer's fields
    sending,        \* per sender: its snapshot, if it is calling Slack
    phase,          \* what the request does: stream, finalize or be over
    rounds,         \* what is left of Finalize's ten further sendings
    crossed,        \* a sending began while another was under way (history)
    refusals

writerVars == <<text, timerSet, messages, message, overflow, offset, lastSent, lastError, sending,
                phase, rounds, crossed, refusals>>
fieldVars == <<text, message, overflow, offset, lastSent, lastError>>

\* Finalize sends as 0.
Senders == 0 .. MaxTimers
Snapshots == [to: 0 .. MaxText + 2, upto: 0 .. MaxText, from: 0 .. MaxText, post: BOOLEAN,
              failed: BOOLEAN]
Idle == [to |-> 0, upto |-> 0, from |-> 0, post |-> FALSE, failed |-> FALSE]
\* What a message shows: text from one piece to another, or an error instead,
\* and the notice that the answer is incomplete.
Displays == [from: 0 .. MaxText, upto: 0 .. MaxText, notice: BOOLEAN]
FurtherRounds == 10

WriterTypeOK ==
    /\ text \in 0 .. MaxText
    /\ timerSet \in BOOLEAN /\ overflow \in BOOLEAN /\ lastError \in BOOLEAN /\ crossed \in BOOLEAN
    /\ messages \in Seq(Displays)
    /\ message \in 0 .. Len(messages)
    /\ offset \in 0 .. MaxText /\ lastSent \in 0 .. MaxText
    /\ sending \in [Senders -> Snapshots]
    /\ phase \in {"start", "stream", "finalize", "over"}
    /\ rounds \in 0 .. FurtherRounds
    /\ refusals \in 0 .. MaxRefusals

WriterInit ==
    /\ text = 0 /\ timerSet = FALSE
    /\ messages = <<>> /\ message = 0
    /\ overflow = FALSE /\ offset = 0 /\ lastSent = 0 /\ lastError = FALSE
    /\ sending = [s \in Senders |-> Idle]
    /\ phase = "start" /\ rounds = FurtherRounds
    /\ crossed = FALSE
    /\ refusals = MaxRefusals

Refused == refusals > 0 /\ refusals' = refusals - 1
Blank == [from |-> 0, upto |-> 0, notice |-> FALSE]

\* PostInitialMessage.  If Slack refuses it, nothing can be edited later.
PostInitialMessage ==
    /\ phase = "start"
    /\ phase' = "stream"
    /\ \/ /\ messages' = <<Blank>> /\ message' = 1
          /\ UNCHANGED refusals
       \/ Refused /\ UNCHANGED <<messages, message>>
    /\ UNCHANGED <<text, timerSet, overflow, offset, lastSent, lastError, sending, rounds, crossed>>

\* Text, or the name of a tool, comes: the timer starts anew.
WriteText ==
    /\ phase = "stream" /\ text < MaxText
    /\ text' = text + 1
    /\ timerSet' = TRUE
    /\ UNCHANGED <<messages, message, overflow, offset, lastSent, lastError, sending, phase, rounds,
                   crossed, refusals>>

\* RUN_ERROR: the error takes the place of what the message shows.
WriteError ==
    /\ phase = "stream" /\ ~lastError
    /\ lastError' = TRUE
    /\ \/ /\ messages' = IF message = 0 THEN Append(messages, [Blank EXCEPT !.notice = TRUE])
                      ELSE [messages EXCEPT ![message] = [Blank EXCEPT !.notice = TRUE]]
          /\ UNCHANGED refusals
       \/ Refused /\ UNCHANGED messages
    /\ UNCHANGED <<text, timerSet, message, overflow, offset, lastSent, sending, phase, rounds, crossed>>

-----------------------------------------------------------------------------
(* sendUpdate.                                                             *)

Sends(s) == sending[s].to # 0
\* The snapshot, under the lock.  Only the final sending tells of an error.
Snapshot(s) == [to |-> message, upto |-> text, from |-> offset, post |-> overflow,
                failed |-> s = 0 /\ lastError]
Send(s) ==
    IF message # 0 /\ text > 0 /\ (text > offset \/ (s = 0 /\ lastError))
    THEN /\ sending' = [sending EXCEPT ![s] = Snapshot(s)]
         /\ crossed' = (crossed \/ \E r \in Senders: Sends(r))
    ELSE UNCHANGED <<sending, crossed>>
ShownBy(s) == [from |-> sending[s].from, upto |-> sending[s].upto, notice |-> sending[s].failed]

\* The timer's goroutine.
TimerFires(s) ==
    /\ s # 0 /\ timerSet /\ ~Sends(s)
    /\ timerSet' = FALSE
    /\ Send(s)
    /\ UNCHANGED <<fieldVars, messages, phase, rounds, refusals>>

\* The call that posts the text since the offset as a message of its own,
\* and makes it the one that is edited.
Posted(s) ==
    /\ Sends(s) /\ sending[s].post
    /\ sending' = [sending EXCEPT ![s] = Idle]
    /\ \/ /\ messages' = Append(messages, ShownBy(s))
          /\ message' = Len(messages')
          /\ overflow' = FALSE
          /\ offset' = sending[s].from
          /\ UNCHANGED refusals
       \/ Refused /\ UNCHANGED <<messages, message, overflow, offset>>
    /\ UNCHANGED <<text, timerSet, lastSent, lastError, phase, rounds, crossed>>

FreezeHere(s) == offset' = sending[s].upto
\* The next message begins where the last one that was sent ended.
FreezeMessage(s) == offset' = lastSent

\* The call that edits the message; too long a text is refused.
Updated(s) ==
    LET length == sending[s].upto - sending[s].from IN
    /\ Sends(s) /\ ~sending[s].post
    /\ sending' = [sending EXCEPT ![s] = Idle]
    /\ \/ /\ length <= MaxPieces
          /\ messages' = [messages EXCEPT ![sending[s].to] = ShownBy(s)]
          /\ lastSent' = sending[s].upto
          /\ UNCHANGED <<overflow, offset, refusals>>
       \/ /\ length > MaxPieces
          /\ overflow' = TRUE
          /\ FreezeMessage(s)
          /\ UNCHANGED <<messages, lastSent, refusals>>
       \/ Refused /\ UNCHANGED <<messages, lastSent, overflow, offset>>
    /\ UNCHANGED <<text, timerSet, message, lastError, phase, rounds, crossed>>

\* A stopped timer no longer fires; what it sends already goes on.
Finalize ==
    /\ phase = "stream"
    /\ phase' = "finalize"
    /\ timerSet' = FALSE
    /\ Send(0)
    /\ UNCHANGED <<fieldVars, messages, rounds, refusals>>

FinalizeAgain ==
    /\ phase = "finalize" /\ ~Sends(0)
    /\ IF overflow /\ rounds > 0
       THEN /\ rounds' = rounds - 1
            /\ Send(0)
            /\ UNCHANGED phase
       ELSE phase' = "over" /\ UNCHANGED <<rounds, sending, crossed>>
    /\ UNCHANGED <<fieldVars, timerSet, messages, refusals>>

WriterNext ==
    \/ PostInitialMessage \/ WriteText \/ WriteError \/ Finalize \/ FinalizeAgain
    \/ \E s \in Senders: TimerFires(s) \/ Posted(s) \/ Updated(s)

WriterSpec == WriterInit /\ [][WriterNext]_writerVars

-----------------------------------------------------------------------------
\* When the answer is finished its messages, taken together, show all of it,
\* or the last of them says that it is incomplete: an error takes the place
\* of text that is not sent again once the message is too long.  Not so when
\* Slack refused a call, or two sendings were under way at one time.
Covered == \A p \in 1 .. text: \E m \in DOMAIN messages: messages[m].from < p /\ p <= messages[m].upto
AllShown ==
    phase = "over" /\ refusals = MaxRefusals /\ ~crossed =>
        IF lastError THEN messages[Len(messages)].notice ELSE Covered
=============================================================================
