--------------------------- MODULE MCWinsService ---------------------------
(* A small instance of WinsService for TLC.                                *)
EXTENDS WinsService

\* The file as it is and the file with one flag changed.
TwoConfigFiles ==
    {[debug |-> debug, strict |-> "false", conn |-> "old"] : debug \in {"false", "true"}}
=============================================================================
