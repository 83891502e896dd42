------------------------------ MODULE MCChatRun ------------------------------
(* Small instances of ChatRun for TLC. *)
EXTENDS ChatRun, TLC

CONSTANTS r1, r2, k1, l1, a1, a2, t1, t2

\* one message sent to two agents
Broadcast == (r1 :> t1) @@ (r2 :> t1)
TwoAgents == (r1 :> a1) @@ (r2 :> a2)

\* one message sent to one agent
SoloText == r1 :> t1
SoloAgent == r1 :> a1
=============================================================================
