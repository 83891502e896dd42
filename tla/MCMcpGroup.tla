----------------------------- MODULE MCMcpGroup -----------------------------
(***************************************************************************)
(* Small instances of McpGroup for TLC.                                    *)
(***************************************************************************)
EXTENDS McpGroup

CONSTANTS a, b

TwoAgents == <<a, b>>

Good(text) == [text |-> text, err |-> FALSE, result |-> "content", rotated |-> FALSE]
Rotated == [text |-> "plain", err |-> FALSE, result |-> "content", rotated |-> TRUE]
Partial == [text |-> "plain", err |-> TRUE, result |-> "content", rotated |-> FALSE]
LimitedPartial == [Partial EXCEPT !.text = "limited"]
Silence == [text |-> "none", err |-> FALSE, result |-> "empty", rotated |-> FALSE]

AllCalls == {Good("plain"), Good("limited"), Rotated, Partial, Silence, Failure}
FewCalls == {Good("plain"), LimitedPartial}
=============================================================================
