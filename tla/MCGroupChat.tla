---------------------------- MODULE MCGroupChat ----------------------------
(***************************************************************************)
(* Small instances of GroupChat for TLC.                                   *)
(***************************************************************************)
EXTENDS GroupChat

CONSTANTS a, b, run

TwoAgents == <<a, b>>
OneAgent == <<a>>

Good(text) == [text |-> text, err |-> FALSE, content |-> TRUE, rotated |-> FALSE]
Rotated == [text |-> "plain", err |-> FALSE, content |-> TRUE, rotated |-> TRUE]
Partial == [text |-> "plain", err |-> TRUE, content |-> TRUE, rotated |-> FALSE]
StreamError == [text |-> "none", err |-> TRUE, content |-> TRUE, rotated |-> FALSE]
Silence == [text |-> "none", err |-> FALSE, content |-> FALSE, rotated |-> FALSE]

AllCalls == {Good("plain"), Good("limited"), Rotated, Partial, StreamError, Silence, Failure}
MixedCalls == {Good("plain"), Good("limited"), Partial, Failure}
=============================================================================
