------------------------------ MODULE McpChat ------------------------------
(***************************************************************************)
(* Chatting with the tools of MCP servers (handlers/mcp.go Chat and        *)
(* ChatMulti, mcp/chat.go, mcp/loop.go).  The handler makes or checks the  *)
(* session, the loop asks a model, runs the tools it names one after the   *)
(* other, shows both on the stream, asks again, and stores one message     *)
(* with everything it showed when it returns, however it returns.          *)
(*                                                                         *)
(* One session; several requests to it, its namer, its owner renaming or   *)
(* deleting it, and a server that stops.  A part of a reply is the text of *)
(* a round or one tool call.                                               *)
(***************************************************************************)
EXTENDS Naturals, Sequences, FiniteSets

CONSTANTS
    Chats,          \* requests to the session
    MaxRounds,      \* ToolCallRounds
    MaxCalls,       \* bound: tools a model names in one answer
    NoSession,
    MaxMishaps      \* bound: failing commands, model errors, stops

ASSUME ChatBoundsAssumption ==
    /\ MaxRounds \in Nat \ {0} /\ MaxCalls \in Nat /\ MaxMishaps \in Nat

VARIABLES
    session,        \* the messages of the session, or NoSession
    at,             \* where each request is
    several,        \* it is a chat with several servers
    creates,        \* it made the session
    round, calls,   \* the round, and the tools of it still to run
    shown,          \* the parts written to the stream
    parts,          \* contentParts
    tools,          \* len(storedToolCalls)
    final,          \* finalText is not empty
    ended,          \* the terminal event
    saved,          \* what became of the reply
    left,           \* the client is gone, which cancels the context
    naming,         \* what the namer or the owner read in order to rename
    mishaps

chatVars == <<session, at, several, creates, round, calls, shown, parts, tools,
              final, ended, saved, left, naming, mishaps>>
loopVars == <<round, calls, shown, parts, tools, final>>
docVars  == <<session, naming>>

Text(n) == <<"text", n>>
Call(n) == <<"tool", n>>
Warning == <<"warning", 0>>
Parts == ({"text"} \X (1 .. MaxRounds)) \cup ({"tool"} \X (1 .. (MaxRounds * MaxCalls))) \cup {Warning}
Question(c) == [role |-> "user", chat |-> c, parts |-> <<>>]
Reply(c) == [role |-> "assistant", chat |-> c, parts |-> parts[c]]

ChatTypeOK ==
    /\ session # NoSession =>
         \A i \in 1 .. Len(session): /\ session[i].role \in {"user", "assistant"}
                                     /\ session[i].chat \in Chats
                                     /\ session[i].parts \in Seq(Parts)
    /\ at \in [Chats -> {"idle", "check", "model", "ask", "start", "llm", "tools", "finish",
                         "save", "name", "rename", "done"}]
    /\ round \in [Chats -> 0 .. MaxRounds] /\ calls \in [Chats -> 0 .. MaxCalls]
    /\ \A c \in Chats: shown[c] \in Seq(Parts) /\ parts[c] \in Seq(Parts)
    /\ tools \in [Chats -> 0 .. MaxRounds * MaxCalls]
    /\ final \in [Chats -> BOOLEAN] /\ left \in [Chats -> BOOLEAN]
    /\ several \in [Chats -> BOOLEAN] /\ creates \in [Chats -> BOOLEAN]
    /\ ended \in [Chats -> {"none", "finished", "error"}]
    /\ saved \in [Chats -> {"no", "yes", "lost", "nothing"}]
    /\ mishaps \in 0 .. MaxMishaps

ChatInit ==
    /\ session \in {NoSession, <<>>}
    /\ at = [c \in Chats |-> "idle"]
    /\ several \in [Chats -> BOOLEAN]
    /\ creates = [c \in Chats |-> FALSE]
    /\ round = [c \in Chats |-> 0] /\ calls = [c \in Chats |-> 0]
    /\ shown = [c \in Chats |-> <<>>] /\ parts = [c \in Chats |-> <<>>]
    /\ tools = [c \in Chats |-> 0] /\ final = [c \in Chats |-> FALSE]
    /\ ended = [c \in Chats |-> "none"] /\ saved = [c \in Chats |-> "no"]
    /\ left = [c \in Chats |-> FALSE]
    /\ naming = NoSession
    /\ mishaps = MaxMishaps

To(c, where) == at' = [at EXCEPT ![c] = where]
Mishap == mishaps > 0 /\ mishaps' = mishaps - 1
Show(c, ps) == shown' = [shown EXCEPT ![c] = @ \o ps]
End(c, event) == ended' = [ended EXCEPT ![c] = event]

-----------------------------------------------------------------------------
(* The handlers up to the loop.                                            *)

\* Unknown server, no access, no consent, no connection, a bad body.
RefuseChat(c) ==
    /\ at[c] = "idle"
    /\ To(c, "done")
    /\ UNCHANGED <<docVars, several, creates, loopVars, ended, saved, left, mishaps>>

\* Chat: a new session, or one that is there and the user's.
Open(c) ==
    /\ at[c] = "idle"
    /\ \/ /\ session = NoSession /\ \A d \in Chats: ~creates[d]
          /\ session' = <<>>
          /\ creates' = [creates EXCEPT ![c] = TRUE]
          /\ To(c, "check")
       \/ session # NoSession /\ To(c, "check") /\ UNCHANGED <<session, creates>>
    /\ UNCHANGED <<naming, several, loopVars, ended, saved, left, mishaps>>

Chat(c) == ~several[c] /\ Open(c)
\* ChatMulti also saves the servers' names in the session it has just made.
ChatMulti(c) == several[c] /\ Open(c)

\* No server is connected: the stream is one error.  The session stays.
NotConnected(c) ==
    /\ at[c] = "check"
    /\ Mishap
    /\ End(c, "error") /\ To(c, "done")
    /\ UNCHANGED <<docVars, several, creates, loopVars, saved, left>>

\* ResolveModel, which may find none: the response is then empty.
Connected(c) ==
    /\ at[c] = "check"
    /\ \/ To(c, "ask") /\ UNCHANGED mishaps
       \/ To(c, "done") /\ Mishap
    /\ UNCHANGED <<docVars, several, creates, loopVars, ended, saved, left>>

\* The user's message, on the request's context; the result is ignored.
StoreQuestion(c) ==
    /\ at[c] = "ask"
    /\ \/ /\ session # NoSession /\ ~left[c]
          /\ session' = Append(session, Question(c))
          /\ UNCHANGED mishaps
       \/ UNCHANGED session /\ (IF session = NoSession \/ left[c] THEN UNCHANGED mishaps ELSE Mishap)
    /\ To(c, "start")
    /\ UNCHANGED <<naming, several, creates, loopVars, ended, saved, left>>

-----------------------------------------------------------------------------
(* RunLoop.                                                                *)

\* RUN_STARTED, and a warning when some of several servers are missing.
Started(c) ==
    /\ at[c] = "start"
    /\ Show(c, <<>>) \/ (several[c] /\ Show(c, <<Warning>>))
    /\ round' = [round EXCEPT ![c] = 1]
    /\ To(c, "llm")
    /\ UNCHANGED <<docVars, several, creates, calls, parts, tools, final, ended, saved, left, mishaps>>

ModelFailsUnsaved(c) ==
    /\ at[c] = "llm"
    /\ IF left[c] THEN UNCHANGED mishaps ELSE Mishap
    /\ End(c, "error") /\ To(c, "done")
    /\ UNCHANGED <<docVars, several, creates, loopVars, saved, left>>

\* The model fails, or its request is cancelled with the client's.
ModelFails(c) ==
    /\ at[c] = "llm"
    /\ IF left[c] THEN UNCHANGED mishaps ELSE Mishap
    /\ End(c, "error") /\ To(c, "save")
    /\ UNCHANGED <<docVars, several, creates, loopVars, saved, left>>

\* It answers with a text, or nothing, and names no tool.
ModelAnswers(c) ==
    /\ at[c] = "llm" /\ ~left[c]
    /\ \E says \in BOOLEAN:
         LET text == IF says THEN <<Text(round[c])>> ELSE <<>> IN
         /\ final' = [final EXCEPT ![c] = says]
         /\ parts' = [parts EXCEPT ![c] = @ \o text]
         /\ Show(c, text)
    /\ To(c, "finish")
    /\ UNCHANGED <<docVars, several, creates, round, calls, tools, ended, saved, left, mishaps>>

\* It names tools, perhaps after a text.  Names no server has are skipped, and
\* only a chat with several servers looks for them.
ModelNamesTools(c) ==
    /\ at[c] = "llm" /\ ~left[c]
    /\ \E says \in BOOLEAN, n \in (IF several[c] THEN 0 ELSE 1) .. MaxCalls:
         LET text == IF says THEN <<Text(round[c])>> ELSE <<>> IN
         /\ parts' = [parts EXCEPT ![c] = @ \o text]
         /\ Show(c, text)
         /\ calls' = [calls EXCEPT ![c] = n]
    /\ To(c, "tools")
    /\ UNCHANGED <<docVars, several, creates, round, tools, final, ended, saved, left, mishaps>>

RanBy(c) == Cardinality({i \in 1 .. Len(shown[c]): shown[c][i][1] = "tool"})

\* One tool, from TOOL_CALL_START to TOOL_CALL_END; a failure is its result.
RunTool(c) ==
    /\ at[c] = "tools" /\ calls[c] > 0
    /\ Show(c, <<Call(RanBy(c) + 1)>>)
    /\ calls' = [calls EXCEPT ![c] = @ - 1]
    /\ UNCHANGED <<docVars, at, several, creates, round, parts, tools, final, ended, saved, left, mishaps>>

\* The text of a round is forgotten when its tools join the reply.
KeepToolsOnly(c) ==
    /\ at[c] = "tools" /\ calls[c] = 0
    /\ parts' = [parts EXCEPT ![c] = [i \in 1 .. RanBy(c) |-> Call(i)]]
    /\ tools' = [tools EXCEPT ![c] = RanBy(c)]
    /\ IF round[c] < MaxRounds
       THEN round' = [round EXCEPT ![c] = @ + 1] /\ To(c, "llm")
       ELSE UNCHANGED round /\ To(c, "finish")
    /\ UNCHANGED <<docVars, several, creates, calls, shown, final, ended, saved, left, mishaps>>

KeepToolsOnceMore(c) ==
    /\ at[c] = "tools" /\ calls[c] = 0
    /\ parts' = [parts EXCEPT ![c] = @ \o [i \in 1 .. RanBy(c) - tools[c] |-> Call(tools[c] + i)]]
    /\ tools' = [tools EXCEPT ![c] = RanBy(c)]
    /\ IF round[c] <= MaxRounds
       THEN round' = [round EXCEPT ![c] = @ + 1] /\ To(c, "llm")
       ELSE UNCHANGED round /\ To(c, "finish")
    /\ UNCHANGED <<docVars, several, creates, calls, shown, final, ended, saved, left, mishaps>>

\* The tools of the round join the reply, in the order they were named.
KeepTools(c) ==
    /\ at[c] = "tools" /\ calls[c] = 0
    /\ parts' = [parts EXCEPT ![c] = @ \o [i \in 1 .. RanBy(c) - tools[c] |-> Call(tools[c] + i)]]
    /\ tools' = [tools EXCEPT ![c] = RanBy(c)]
    /\ IF round[c] < MaxRounds
       THEN round' = [round EXCEPT ![c] = @ + 1] /\ To(c, "llm")
       ELSE UNCHANGED round /\ To(c, "finish")
    /\ UNCHANGED <<docVars, several, creates, calls, shown, final, ended, saved, left, mishaps>>

\* RUN_FINISHED is written first ...
Finish(c) ==
    /\ at[c] = "finish"
    /\ End(c, "finished") /\ To(c, "save")
    /\ UNCHANGED <<docVars, several, creates, loopVars, saved, left, mishaps>>

\* ... and the deferred save runs as RunLoop returns, on a context of its own:
\* one message, unless there is neither a final text nor a tool call.
SaveReply(c) ==
    /\ at[c] = "save"
    /\ \/ /\ ~final[c] /\ tools[c] = 0
          /\ saved' = [saved EXCEPT ![c] = "nothing"]
          /\ UNCHANGED <<session, mishaps>>
       \/ /\ final[c] \/ tools[c] > 0
          /\ IF session = NoSession
             THEN saved' = [saved EXCEPT ![c] = "lost"] /\ UNCHANGED <<session, mishaps>>
             ELSE \/ /\ session' = Append(session, Reply(c))
                     /\ saved' = [saved EXCEPT ![c] = "yes"]
                     /\ UNCHANGED mishaps
                  \/ saved' = [saved EXCEPT ![c] = "lost"] /\ Mishap /\ UNCHANGED session
    /\ To(c, IF creates[c] /\ final[c] THEN "name" ELSE "done")
    /\ UNCHANGED <<naming, several, creates, loopVars, ended, left>>

-----------------------------------------------------------------------------
(* Around the loop.                                                        *)

\* The namer of a new session (or nobody: it failed) reads it to rename it.
ReadToName(c) ==
    /\ at[c] = "name"
    /\ IF session = NoSession THEN To(c, "done") /\ UNCHANGED naming
       ELSE /\ naming = NoSession
            /\ naming' = session /\ To(c, "rename")
    /\ UNCHANGED <<session, several, creates, loopVars, ended, saved, left, mishaps>>

\* RenameSession writes the whole session back.
Rename(c) ==
    /\ at[c] = "rename"
    /\ session' = naming /\ naming' = NoSession
    /\ To(c, "done")
    /\ UNCHANGED <<several, creates, loopVars, ended, saved, left, mishaps>>

DeleteChat ==
    /\ session # NoSession /\ Mishap
    /\ session' = NoSession
    /\ UNCHANGED <<naming, at, several, creates, loopVars, ended, saved, left>>

ClientLeaves(c) ==
    /\ at[c] \in {"ask", "start", "llm", "tools", "finish"} /\ ~left[c]
    /\ left' = [left EXCEPT ![c] = TRUE]
    /\ UNCHANGED <<docVars, at, several, creates, loopVars, ended, saved, mishaps>>

\* The server stops: the deferred save does not run.
Stop(c) ==
    /\ at[c] \notin {"idle", "done"} /\ Mishap
    /\ To(c, "done")
    /\ saved' = [saved EXCEPT ![c] = IF @ = "no" THEN "lost" ELSE @]
    /\ naming' = IF at[c] = "rename" THEN NoSession ELSE naming
    /\ UNCHANGED <<session, several, creates, loopVars, ended, left>>

ChatGoesOn(c) ==
    \/ NotConnected(c) \/ Connected(c) \/ StoreQuestion(c) \/ Started(c)
    \/ ModelFails(c) \/ ModelAnswers(c) \/ ModelNamesTools(c) \/ RunTool(c) \/ KeepTools(c)
    \/ Finish(c) \/ SaveReply(c) \/ ReadToName(c) \/ Rename(c)

ChatNext ==
    \/ DeleteChat
    \/ \E c \in Chats: \/ RefuseChat(c) \/ Chat(c) \/ ChatMulti(c) \/ ChatGoesOn(c)
                       \/ ClientLeaves(c) \/ Stop(c)

\* The model and the tools answer or time out, Redis too.
ChatFairness == \A c \in Chats: WF_chatVars(ChatGoesOn(c))

-----------------------------------------------------------------------------
\* A stored reply is what its client was shown, part by part and in order, but
\* for the warning the stream may begin with; whether the loop finished, ran out
\* of rounds, failed, or lost its client.
AsShown(stream, reply) == stream \in {reply, <<Warning>> \o reply}
ReplyAsShown ==
    session # NoSession =>
      \A i \in 1 .. Len(session): session[i].role = "assistant" =>
        AsShown(shown[session[i].chat], session[i].parts)

\* A reply that ran a tool or said its last word is stored, or its loss is due
\* to the store, a deleted session or a stopped server: never to the client
\* leaving, the model failing, or RUN_FINISHED having been sent before.
EffectsKept == \A c \in Chats: (tools[c] > 0 \/ final[c]) ~> (saved[c] \in {"yes", "lost"})
=============================================================================
