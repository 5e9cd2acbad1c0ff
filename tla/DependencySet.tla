--------------------------- MODULE DependencySet ---------------------------
(***************************************************************************)
(* The rke2 service's dependencies as module Updater handles them: a set   *)
(* to which rancher-wins is added and from which it is removed, and which  *)
(* a rollback sets back to its initial value unless that is empty.         *)
(***************************************************************************)
CONSTANT Wins

VARIABLES deps, snap, last

Add ==
    /\ Wins \notin deps
    /\ deps' = deps \cup {Wins}
    /\ last' = "add"
    /\ UNCHANGED snap

Remove ==
    /\ Wins \in deps
    /\ deps' = deps \ {Wins}
    /\ last' = "remove"
    /\ UNCHANGED snap

Restore ==
    /\ deps' = IF snap = {} THEN deps ELSE snap
    /\ last' = "restore"
    /\ UNCHANGED snap

Snapshot ==
    /\ snap' = deps
    /\ last' = "none"
    /\ UNCHANGED deps

Next == Add \/ Remove \/ Restore \/ Snapshot

Spec == snap = deps /\ last = "none" /\ [][Next]_<<deps, snap, last>>
=============================================================================
