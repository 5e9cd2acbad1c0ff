---------------------------- MODULE CopyContract ----------------------------
(***************************************************************************)
(* What module Updater assumes of copyFile: while the call is pending the  *)
(* destination may be left in any condition, but no result is nil unless   *)
(* the destination has the contents of the source, and a result is final.  *)
(***************************************************************************)
VARIABLES dest, result

Init == dest \in {"none", "old"} /\ result = "pending"

Scribble == result = "pending" /\ dest' \in {"torn", "new"} /\ UNCHANGED result

Return ==
    /\ result = "pending"
    /\ dest' \in {dest, "new"}
    /\ \/ result' = "nil" /\ dest' = "new"
       \/ result' = "err"

Next == Scribble \/ Return

\* The call returns.
Spec == Init /\ [][Next]_<<dest, result>> /\ WF_<<dest, result>>(Return)
=============================================================================
