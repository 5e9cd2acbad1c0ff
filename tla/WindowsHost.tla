---------------------------- MODULE WindowsHost ----------------------------
(***************************************************************************)
(* The Windows host the updater reconfigures, as the code under suc/ uses  *)
(* it: the service control manager (SCM) with its two services, rancher-   *)
(* wins and rke2, the rancher-wins config file and the copies of wins.exe. *)
(* None of this is code of the repository except the rancher-wins process  *)
(* itself, which the Wins... actions abstract (cmd/server/app).          *)
(*                                                                         *)
(* The module declares the host's state, the requests the SCM serves, and  *)
(* the steps the host takes on its own while the updater runs.             *)
(***************************************************************************)
EXTENDS Naturals

CONSTANTS
    Wins,         \* the service name "rancher-wins"
    Slash,        \* the name "/", which clears a dependency list
    OtherDeps,    \* the other services rke2 may depend on
    WinsAtFirst,  \* the states a run may find the rancher-wins service in
    MaxCrashes,   \* bound on the unexpected ends of the wins process
    HostEvents    \* which events of their own the runs let the host have

ASSUME NamesAssumption == Wins # Slash /\ Wins \notin OtherDeps /\ Slash \notin OtherDeps

ASSUME WinsAtFirstAssumption ==
    WinsAtFirst \subseteq {"Stopped", "StartPending", "Running", "StopPending"}

ASSUME CrashesAssumption == MaxCrashes \in Nat

ASSUME HostEventsAssumption ==
    HostEvents \subseteq {"rke2Installed", "rke2StartsOrStops"}

VARIABLES
    winsState,    \* SCM state of the rancher-wins service
    loaded,       \* the config its process read when it started
    recovery,     \* whether the SCM owes the service a restart by its recovery actions
    crashes,      \* how many times the process ended unexpectedly
    delayedStart, \* DelayedAutoStart of the rancher-wins service
    rke2State,    \* the rke2 service is not registered, stopped or running
    rke2Deps,     \* the services rke2 depends on
    cfgFile,      \* contents of c:/etc/rancher/wins/config
    exe           \* contents of the two installed wins.exe files

scmVars == <<winsState, loaded, recovery, crashes>>
rke2Vars == <<rke2State, rke2Deps>>
hostVars == <<scmVars, delayedStart, rke2Vars, cfgFile, exe>>

ServiceStates == {"Stopped", "StartPending", "Running", "StopPending"}

\* The two flags the updater sets from its environment; "conn" stands for the
\* rest of the file, of which the updater's script rewrites the connection part.
Flags == {"true", "false"}
Configs == [debug : Flags, strict : Flags, conn : {"none", "old", "new"}]

\* A truncated file decodes to the zero value of Config.
EmptyConfig == [debug |-> "false", strict |-> "false", conn |-> "none"]

\* The process has not read the file yet, or there is none.
NotLoaded == [debug |-> "false", strict |-> "false", conn |-> "unread"]

\* A wins.exe file is missing, unusable, of the version installed before, or of
\* the version embedded in the updater.
Contents == {"none", "torn", "old", "new"}
Paths == {"windows", "local"}

Dependencies == OtherDeps \cup {Wins}

HostTypeOK ==
    /\ winsState \in ServiceStates
    /\ loaded \in Configs \cup {NotLoaded}
    /\ recovery \in {"none", "due"}
    /\ crashes \in 0..MaxCrashes
    /\ delayedStart \in BOOLEAN
    /\ rke2State \in {"Absent", "Stopped", "Running"}
    /\ rke2Deps \in SUBSET Dependencies
    /\ cfgFile \in Configs
    /\ exe \in [Paths -> Contents]

\* The service may be in any state: at boot the updater comes while it starts.
HostInit ==
    /\ winsState \in WinsAtFirst
    /\ cfgFile = [debug |-> "false", strict |-> "false", conn |-> "old"]
    /\ loaded \in {NotLoaded, cfgFile}
    /\ winsState = "Stopped" => loaded = NotLoaded
    /\ winsState \in {"Running", "StopPending"} => loaded = cfgFile
    /\ recovery = "none"
    /\ crashes = 0
    /\ delayedStart \in BOOLEAN
    /\ rke2State \in {"Absent", "Stopped", "Running"}
    /\ rke2Deps \in SUBSET Dependencies
    /\ rke2State = "Absent" => rke2Deps = {}
    /\ \E installed \in {"old", "new"} :
          exe = [windows |-> installed, local |-> installed]

-----------------------------------------------------------------------------
(* Requests the SCM serves.                                                *)

ProcessAlive == winsState # "Stopped"
Startable == exe["windows"] \in {"old", "new"}

\* A service whose dependent is running cannot be stopped.
BlockedByRke2 == rke2State = "Running" /\ Wins \in rke2Deps

\* The service accepts a stop control only while it reports Running.
AcceptsStop == winsState = "Running" /\ ~BlockedByRke2

SendStop ==
    /\ AcceptsStop
    /\ winsState' = "StopPending"
    /\ UNCHANGED <<loaded, recovery, crashes>>

SendStart ==
    /\ winsState = "Stopped" /\ Startable
    /\ winsState' = "StartPending"
    /\ loaded' = NotLoaded
    /\ recovery' = "none"
    /\ UNCHANGED crashes

\* mgr.Service.UpdateConfig on rke2: an empty list changes nothing, "/" clears.
CommitDependencies(list) ==
    rke2Deps' = IF list = {} THEN rke2Deps ELSE list \ {Slash}

-----------------------------------------------------------------------------
(* Steps of the host.                                                      *)

\* run.go loads the config before the process reports Running.
WinsLoadsConfig ==
    /\ winsState = "StartPending" /\ loaded = NotLoaded
    /\ loaded' = cfgFile
    /\ UNCHANGED <<winsState, recovery, crashes, delayedStart, rke2Vars, cfgFile, exe>>

WinsReportsRunning ==
    /\ winsState = "StartPending" /\ loaded # NotLoaded
    /\ winsState' = "Running"
    /\ UNCHANGED <<loaded, recovery, crashes, delayedStart, rke2Vars, cfgFile, exe>>

WinsEnds ==
    /\ winsState = "StopPending"
    /\ winsState' = "Stopped"
    /\ loaded' = NotLoaded
    /\ UNCHANGED <<recovery, crashes, delayedStart, rke2Vars, cfgFile, exe>>

\* The process dies (logrus.Fatal, a kill), or its main goroutine returns before
\* the SCM has seen Stopped: the SCM schedules a recovery action.
WinsEndsUnexpectedly ==
    /\ ProcessAlive /\ crashes < MaxCrashes
    /\ winsState' = "Stopped"
    /\ loaded' = NotLoaded
    /\ recovery' = "due"
    /\ crashes' = crashes + 1
    /\ UNCHANGED <<delayedStart, rke2Vars, cfgFile, exe>>

RecoveryStartsWins ==
    /\ recovery = "due" /\ SendStart
    /\ UNCHANGED <<delayedStart, rke2Vars, cfgFile, exe>>

\* A plan applied by the system agent installs rke2.
Rke2Installed ==
    /\ "rke2Installed" \in HostEvents
    /\ rke2State = "Absent" /\ rke2State' = "Stopped"
    /\ rke2Deps' \in SUBSET OtherDeps
    /\ UNCHANGED <<scmVars, delayedStart, cfgFile, exe>>

Rke2StartsOrStops ==
    /\ "rke2StartsOrStops" \in HostEvents
    /\ \/ rke2State = "Running" /\ rke2State' = "Stopped"
       \/ /\ rke2State = "Stopped" /\ rke2State' = "Running"
          /\ Wins \in rke2Deps => winsState = "Running"
    /\ UNCHANGED <<scmVars, rke2Deps, delayedStart, cfgFile, exe>>

-----------------------------------------------------------------------------
(* The rancher-wins service by itself, which module WinsService implements.*)

unrelatedVars == <<delayedStart, rke2Vars, exe>>

WinsNext ==
    \/ SendStop /\ UNCHANGED <<cfgFile, unrelatedVars>>
    \/ SendStart /\ UNCHANGED <<cfgFile, unrelatedVars>>
    \/ cfgFile' \in Configs /\ UNCHANGED <<scmVars, unrelatedVars>>
    \/ WinsLoadsConfig \/ WinsReportsRunning \/ WinsEnds \/ WinsEndsUnexpectedly

WinsSpec == HostInit /\ [][WinsNext]_hostVars
=============================================================================
