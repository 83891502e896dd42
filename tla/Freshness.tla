----------------------------- MODULE Freshness -----------------------------
(***************************************************************************)
(* What a pod's cached view of a table promises, without saying how: the   *)
(* table has versions, a view is one of them, and while its pod lives a    *)
(* view is only ever replaced by a version at least as new.                *)
(***************************************************************************)
EXTENDS Naturals

CONSTANT Pods

VARIABLES
    latest,     \* the newest version of the table
    view        \* per pod, the version it serves; 0 is the built-in defaults

TypeInv == latest \in Nat /\ view \in [Pods -> Nat]

FreshInit == latest = 0 /\ view = [p \in Pods |-> 0]

\* Somebody commits a change.
Commit == latest' = latest + 1 /\ UNCHANGED view

\* A pod takes over a version no older than the one it serves.
CatchUp(p) ==
    /\ \E v \in view[p] .. latest: view' = [view EXCEPT ![p] = v]
    /\ UNCHANGED latest

\* A pod starts again with the defaults.
StartAgain(p) == view' = [view EXCEPT ![p] = 0] /\ UNCHANGED latest

FreshNext == Commit \/ \E p \in Pods: CatchUp(p) \/ StartAgain(p)

Freshness == FreshInit /\ [][FreshNext]_<<latest, view>>
=============================================================================
