-------------------------- MODULE LlmModelsClaims ---------------------------
(***************************************************************************)
(* A statement a comment makes of the models and the code does not keep.   *)
(***************************************************************************)
EXTENDS LlmModels

CONSTANTS v1, e1, c1

(* mcp/loop.go:322: "ResolveModel finds the LLM model by ID, falling back  *)
(* to the default chat model".  A model that could be used when the chat   *)
(* asked for it is the one it gets.                                        *)
ChosenModelUsed ==
    \A c \in Calls: call[c].at = "done" /\ call[c].of = "chat" /\ call[c].chosen =>
        call[c].used # NoModel /\ call[c].used.id = call[c].wanted
=============================================================================
