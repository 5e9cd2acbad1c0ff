----------------------------- MODULE MCUpdater -----------------------------
(* Small instances of Updater for TLC.                                     *)
EXTENDS Updater

Environment(debug, strict, delayed, dependency, skip, script) ==
    [debug |-> debug, strict |-> strict, delayed |-> delayed,
     dependency |-> dependency, skip |-> skip, script |-> script]

\* Everything that can change does: one asks for the dependency and an upgrade,
\* the other wants neither and runs the script.
BusyEnvironments ==
    {Environment("true", "true", TRUE, wanted, ~wanted, ~wanted) : wanted \in BOOLEAN}

\* Those two, and an upgrade for which nothing else has to change.
HostEnvironments ==
    BusyEnvironments \cup {Environment("false", "", FALSE, TRUE, FALSE, FALSE)}

\* An upgrade and a config change with the dependency kept.
UpgradeEnvironment == {Environment("true", "", FALSE, TRUE, FALSE, FALSE)}

\* A first run that has everything to change; a host with all or some of it changed
\* already is what the second run meets.
UnchangedHost == Init /\ ~delayedStart /\ exe["windows"] = "old"
UnchangedHostSpec == UnchangedHost /\ [][Next]_vars /\ Fairness
=============================================================================
