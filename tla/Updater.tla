------------------------------ MODULE Updater ------------------------------
(***************************************************************************)
(* The SUC updater (suc/pkg): the one-shot process that a system-upgrade-  *)
(* controller plan starts on a Windows node to bring rancher-wins in line  *)
(* with its environment variables and with the wins.exe embedded in it.    *)
(*                                                                         *)
(* cmd.go's Run is sequential; pc names the call it is about to make, and  *)
(* every call may fail.  The subroutines reached from two places return    *)
(* through ret (RefreshWinsService) and after (Stop, hence WaitForState).  *)
(* Between any two calls the host may take steps, and the process may be   *)
(* killed; the plan then starts it again, up to MaxRuns times.             *)
(***************************************************************************)
EXTENDS WindowsHost

CONSTANTS
    Environments, \* the environments the plan may start the updater with
    MaxRuns,      \* bound on the runs of the updater
    MaxPolls      \* CATTLE_WINS_STATE_TRANSITION_ATTEMPTS

ASSUME EnvironmentAssumption ==
    Environments \subseteq [debug : Flags \cup {""}, strict : Flags \cup {""},
                            delayed : BOOLEAN, dependency : BOOLEAN,
                            skip : BOOLEAN, script : BOOLEAN]

ASSUME BoundsAssumption == MaxRuns \in Nat /\ MaxPolls \in Nat

VARIABLES
    pc,         \* the call Run is about to make
    runs,       \* how many times the updater was started
    env,        \* its environment variables
    snap,       \* state.InitialState
    newCfg,     \* the config SaveConfig is writing
    restart,    \* why the service must restart: restartServiceDueTo...
    errs,       \* Run's errors: "nil" or "err"
    rerrs,      \* RestoreInitialState's errors
    ret,        \* the caller of RefreshWinsService: "run" or "restore"
    after,      \* what follows Stop: "copy" (updateBinaries) or "start" (Restart)
    polls,      \* WaitForState's loop counter
    depRemoved, \* the dependency RefreshWinsService took away, if it did
    did,        \* history: what this run has done to the host
    outcome     \* how the last run ended

flowVars == <<ret, after, polls, depRemoved>>
runVars == <<runs, env, snap, did>>
errVars == <<errs, rerrs>>
vars == <<hostVars, pc, runVars, newCfg, restart, errVars, flowVars, outcome>>

Labels == {"idle", "snapshot", "connect", "loadConfig", "writeConfig", "delayed",
           "dependency", "upgrade", "stage", "stop", "waitStopped", "copyWindows",
           "copyLocal", "confirm", "decide", "refresh", "restart", "start",
           "already", "waitRunning", "readd", "conclude", "restoreDelayed",
           "restoreDeps", "truncateConfig", "restoreConfig"}

Outcomes == {"none", "ok", "err", "panic", "killed"}

\* snapshot: BuildInitialState returned nil; rke2Found: ConfigureRKE2Service-
\* Dependency found the service; stopped: a stop control was accepted;
\* stateUnknown: RefreshWinsService could not open rke2; restarted: Restart
\* returned nil; passedOver: it did not stop a process that was starting and had
\* read its config; rollback: RestoreInitialState was called; restored: it
\* returned nil.
Deeds == {"snapshot", "rke2Found", "stopped", "stateUnknown", "restarted", "passedOver",
          "rollback", "restored"}

Errors == {"nil", "err"}

Snapshots == [cfg : Configs, delayed : BOOLEAN, deps : SUBSET Dependencies]

ControlTypeOK ==
    /\ pc \in Labels
    /\ outcome \in Outcomes
    /\ ret \in {"run", "restore"}
    /\ after \in {"copy", "start"}

LocalTypeOK ==
    /\ runs \in 0..MaxRuns
    /\ env \in Environments
    /\ snap \in Snapshots
    /\ newCfg \in Configs
    /\ restart \in SUBSET {"configChange", "binaryUpgrade"}
    /\ errs \in Errors
    /\ rerrs \in Errors
    /\ polls \in 0..MaxPolls
    /\ depRemoved \in SUBSET {Wins}
    /\ did \in SUBSET Deeds

TypeOK == HostTypeOK /\ ControlTypeOK /\ LocalTypeOK

Snapshot == [cfg |-> cfgFile, delayed |-> delayedStart, deps |-> rke2Deps]

Init ==
    /\ HostInit
    /\ env \in Environments
    /\ pc = "idle"
    /\ runs = 0
    /\ snap = Snapshot
    /\ newCfg = cfgFile
    /\ restart = {}
    /\ errs = "nil" /\ rerrs = "nil"
    /\ ret = "run" /\ after = "copy"
    /\ polls = 0
    /\ depRemoved = {}
    /\ did = {}
    /\ outcome = "none"

-----------------------------------------------------------------------------
(* Control.                                                                *)

Goto(label) == pc' = label /\ UNCHANGED outcome
Finish(result) == pc' = "idle" /\ outcome' = result

\* The plan's pod starts (again) with nothing but the host's state to go by, and
\* maybe with another environment, if the plan has changed.
Start ==
    /\ pc = "idle" /\ runs < MaxRuns
    /\ runs' = runs + 1
    /\ env' \in Environments
    /\ snap' = Snapshot
    /\ newCfg' = cfgFile
    /\ restart' = {}
    /\ errs' = "nil" /\ rerrs' = "nil"
    /\ ret' = "run" /\ after' = "copy"
    /\ polls' = 0
    /\ depRemoved' = {}
    /\ did' = {}
    /\ pc' = "snapshot" /\ outcome' = "none"
    /\ UNCHANGED hostVars

BuildInitialState ==
    /\ pc = "snapshot"
    /\ \/ /\ snap' = Snapshot
          /\ did' = {"snapshot"}
          /\ Goto("connect")
       \/ /\ Finish("err")
          /\ UNCHANGED <<snap, did>>
    /\ UNCHANGED <<hostVars, runs, env, newCfg, restart, errVars, flowVars>>

\* Without the script there is nothing to do.  It takes the old connection out of
\* the config file and adds the new one if Rancher needs one; an error of an edit
\* does not end it.  Module RancherConnection has what it does in between.
ScriptEdits ==
    \/ UNCHANGED cfgFile
    \/ env.script /\ \E conn \in {"none", "new"} : cfgFile' = [cfgFile EXCEPT !.conn = conn]

UpdateConnectionInformation ==
    /\ pc = "connect"
    /\ ScriptEdits
    /\ Goto("loadConfig") \/ Finish("err")
    /\ UNCHANGED <<scmVars, delayedStart, rke2Vars, exe, runVars, newCfg, restart,
                   errVars, flowVars>>

-----------------------------------------------------------------------------
(* The config file.                                                        *)

\* CATTLE_WINS_DEBUG always decides, STRICT_VERIFY only when it is set.
\* A variable that is not "true" is false.
Flag(value) == IF value = "true" THEN "true" ELSE "false"

WantedConfig(cfg) ==
    [debug  |-> Flag(env.debug),
     strict |-> IF env.strict = "" THEN cfg.strict ELSE Flag(env.strict),
     conn   |-> cfg.conn]

\* os.WriteFile truncates the file and then writes it.
UpdateConfigFromEnvVars ==
    /\ pc = "loadConfig"
    /\ newCfg' = WantedConfig(cfgFile)
    /\ \/ /\ newCfg' = cfgFile                \* no change
          /\ Goto("delayed")
          /\ UNCHANGED <<cfgFile, restart, errs>>
       \/ /\ newCfg' # cfgFile                \* SaveConfig opens the file
          /\ restart' = {"configChange"}
          /\ cfgFile' = EmptyConfig
          /\ Goto("writeConfig")
          /\ UNCHANGED errs
       \/ /\ restart' \in IF newCfg' = cfgFile   \* LoadConfig or SaveConfig fails
                          THEN {{}} ELSE {{}, {"configChange"}}
          /\ errs' = "err"
          /\ Goto("delayed")
          /\ UNCHANGED cfgFile
    /\ UNCHANGED <<scmVars, delayedStart, rke2Vars, exe, runVars, rerrs, flowVars>>

WriteConfig ==
    /\ pc = "writeConfig"
    /\ \/ cfgFile' = newCfg /\ UNCHANGED errs
       \/ errs' = "err" /\ UNCHANGED cfgFile
    /\ Goto("delayed")
    /\ UNCHANGED <<scmVars, delayedStart, rke2Vars, exe, runVars, newCfg, restart,
                   rerrs, flowVars>>

-----------------------------------------------------------------------------
(* The services' configuration.  mgr.Service.UpdateConfig makes several     *)
(* calls: its error may come before or after the change that was asked for.*)

ConfigureWinsDelayedStart ==
    /\ pc = "delayed"
    /\ \/ delayedStart' = env.delayed /\ UNCHANGED errs
       \/ errs' = "err" /\ delayedStart' \in {delayedStart, env.delayed}
    /\ Goto("dependency")
    /\ UNCHANGED <<scmVars, rke2Vars, cfgFile, exe, runVars, newCfg, restart, rerrs, flowVars>>

HasDependency == rke2State # "Absent" /\ Wins \in rke2Deps

WithDependency(deps) == deps \cup {Wins}

\* Mutants: the list is cleared whatever else it holds; it is left empty.
WithoutAnyDependency(deps) == {Slash}
WithoutSlash(deps) == deps \ {Wins}

\* An empty list would change nothing: "/" clears the list instead.
WithoutDependency(deps) == IF deps \subseteq {Wins} THEN {Slash} ELSE deps \ {Wins}

WantedDependencies ==
    IF HasDependency <=> env.dependency THEN rke2Deps
    ELSE IF env.dependency THEN WithDependency(rke2Deps)
    ELSE WithoutDependency(rke2Deps)

ConfigureRKE2ServiceDependency ==
    /\ pc = "dependency"
    /\ \/ /\ rke2State = "Absent"
          /\ UNCHANGED <<rke2Deps, did, errs>>
       \/ /\ rke2State # "Absent"
          /\ CommitDependencies(WantedDependencies)
          /\ did' = did \cup {"rke2Found"}
          /\ UNCHANGED errs
       \/ /\ errs' = "err"
          /\ \/ UNCHANGED rke2Deps
             \/ rke2State # "Absent" /\ CommitDependencies(WantedDependencies)
          /\ UNCHANGED did
    /\ Goto("upgrade")
    /\ UNCHANGED <<scmVars, rke2State, delayedStart, cfgFile, exe, runs, env, snap,
                   newCfg, restart, rerrs, flowVars>>

-----------------------------------------------------------------------------
(* The binary.  Every error here is Run's early return at cmd.go:55.       *)

\* Mutant: an installed binary is up to date.
UpgradeMissingBinary ==
    /\ pc = "upgrade"
    /\ Goto(IF ~env.skip /\ exe["windows"] = "none" THEN "stage" ELSE "decide")
    /\ UNCHANGED <<hostVars, runVars, newCfg, restart, errVars, flowVars>>

UpgradeRancherWinsBinary ==
    /\ pc = "upgrade"
    /\ \/ env.skip /\ Goto("decide")
       \/ ~env.skip /\ exe["windows"] = "new" /\ Goto("decide")
       \/ ~env.skip /\ exe["windows"] \in {"none", "old"} /\ Goto("stage")
       \/ ~env.skip /\ Finish("err")
    /\ UNCHANGED <<hostVars, runVars, newCfg, restart, errVars, flowVars>>

\* Write the embedded binary, confirm it and open the service.  The file is written
\* anew in every run, whatever an earlier one has left of it: it has no state here.
StageBinary ==
    /\ pc = "stage"
    /\ \/ after' = "copy" /\ Goto("stop")
       \/ Finish("err") /\ UNCHANGED after
    /\ UNCHANGED <<hostVars, runVars, newCfg, restart, errVars, ret, polls, depRemoved>>

\* copyFile, whose attempts are module CopyFile: wins.exe in c:\Windows cannot be
\* written while the process runs from it, and an error says nothing of how much
\* was written.
CopyTo(path, next) ==
    /\ \/ /\ exe' = [exe EXCEPT ![path] = "new"]
          /\ Goto(next)
       \/ /\ \E left \in {exe[path], "torn", "new"} : exe' = [exe EXCEPT ![path] = left]
          /\ Finish("err")
    /\ UNCHANGED <<scmVars, delayedStart, rke2Vars, cfgFile, runVars, newCfg, restart,
                   errVars, flowVars>>

CopyToWindows ==
    /\ pc = "copyWindows"
    /\ \/ ~ProcessAlive /\ CopyTo("windows", "copyLocal")
       \/ /\ ProcessAlive /\ Finish("err")
          /\ UNCHANGED <<hostVars, runVars, newCfg, restart, errVars, flowVars>>

CopyToLocal == pc = "copyLocal" /\ CopyTo("local", "confirm")

\* Confirm both copies and remove the staged one.
ConfirmBinaries ==
    /\ pc = "confirm"
    /\ \/ /\ exe["windows"] = "new" /\ exe["local"] = "new"
          /\ restart' = restart \cup {"binaryUpgrade"}
          /\ Goto("decide")
       \/ Finish("err") /\ UNCHANGED restart
    /\ UNCHANGED <<hostVars, runVars, newCfg, errVars, flowVars>>

-----------------------------------------------------------------------------
(* service.Service: Stop, Restart and WaitForState, and RefreshWinsService.*)

\* Mutant: neither caller looks at the error.
RefreshErrorDropped(err, deeds) ==
    /\ IF ret = "run" THEN did' = deeds /\ Goto("conclude")
       ELSE did' = deeds \cup {"restored"} /\ Finish("err")
    /\ UNCHANGED errs

\* RefreshWinsService returns to Run, which collects its error, or ends
\* RestoreInitialState and with it Run, which has errors to report anyway.
RefreshReturns(err, deeds) ==
    \/ /\ ret = "run"
       /\ errs' = IF err = "nil" THEN errs ELSE err
       /\ did' = deeds
       /\ Goto("conclude")
    \/ /\ ret = "restore"
       /\ did' = deeds \cup (IF err = "nil" THEN {"restored"} ELSE {})
       /\ Finish("err")
       /\ UNCHANGED errs

\* An error of Stop ends Run when updateBinaries called it, and
\* RefreshWinsService when Restart did.
StopFails ==
    \/ after = "copy" /\ Finish("err") /\ UNCHANGED <<errs, did>>
    \/ after = "start" /\ RefreshReturns("err", did)

StopReturns == Goto(IF after = "copy" THEN "copyWindows" ELSE "start")

Stop ==
    /\ pc = "stop"
    /\ \/ /\ winsState = "Stopped"
          /\ StopReturns
          /\ UNCHANGED <<scmVars, errs, did, polls>>
       \/ /\ SendStop
          /\ did' = did \cup {"stopped"}
          /\ polls' = 0
          /\ Goto("waitStopped")
          /\ UNCHANGED errs
       \/ StopFails /\ UNCHANGED <<scmVars, polls>>
    /\ UNCHANGED <<delayedStart, rke2Vars, cfgFile, exe, runs, env, snap, newCfg,
                   restart, rerrs, ret, after, depRemoved>>

\* Mutants: one attempt too many; the counter starts over.
PollOnceMore(desired, label) ==
    /\ polls <= MaxPolls
    /\ winsState # desired
    /\ polls' = polls + 1
    /\ Goto(label)
    /\ UNCHANGED <<errs, did>>

PollFromTheStart(desired, label) ==
    /\ winsState # desired
    /\ polls' = (polls + 1) % MaxPolls
    /\ Goto(label)
    /\ UNCHANGED <<errs, did>>

\* One turn of WaitForState's loop; it gives up when the attempts are used up.
Poll(desired, label) ==
    /\ polls < MaxPolls
    /\ winsState # desired
    /\ polls' = polls + 1
    /\ Goto(label)
    /\ UNCHANGED <<errs, did>>

WaitForStopped ==
    /\ pc = "waitStopped"
    /\ \/ Poll("Stopped", "waitStopped")
       \/ /\ polls < MaxPolls /\ winsState = "Stopped"
          /\ StopReturns
          /\ UNCHANGED <<polls, errs, did>>
       \/ StopFails /\ UNCHANGED polls
    /\ UNCHANGED <<hostVars, runs, env, snap, newCfg, restart, rerrs,
                   ret, after, depRemoved>>

\* An error opening rke2 is only logged: the dependency stays where it is.
RefreshWinsService ==
    /\ pc = "refresh"
    /\ \/ Finish("panic") /\ UNCHANGED <<rke2Deps, depRemoved, errs, did>>
       \/ /\ ~HasDependency
          /\ depRemoved' = {}
          /\ Goto("restart")
          /\ UNCHANGED <<rke2Deps, errs, did>>
       \/ /\ depRemoved' = {}
          /\ did' = did \cup {"stateUnknown"}
          /\ Goto("restart")
          /\ UNCHANGED <<rke2Deps, errs>>
       \/ /\ HasDependency
          /\ CommitDependencies(WithoutDependency(rke2Deps))
          /\ depRemoved' = {Wins}
          /\ Goto("restart")
          /\ UNCHANGED <<errs, did>>
       \/ /\ HasDependency
          /\ UNCHANGED rke2Deps \/ CommitDependencies(WithoutDependency(rke2Deps))
          /\ RefreshReturns("err", did)
          /\ UNCHANGED depRemoved
    /\ UNCHANGED <<scmVars, rke2State, delayedStart, cfgFile, exe, runs, env, snap,
                   newCfg, restart, rerrs, ret, after, polls>>

\* A service that is starting is not stopped, not even when its process has read
\* the config before this run changed it.
PassOver ==
    did' = IF winsState = "StartPending" /\ loaded # NotLoaded
           THEN did \cup {"passedOver"} ELSE did

\* Mutant: the running service is not stopped.
StartOnly ==
    /\ pc = "restart"
    /\ PassOver
    /\ after' = "start"
    /\ Goto("start")
    /\ UNCHANGED <<hostVars, runs, env, snap, newCfg, restart, errVars, ret, polls, depRemoved>>

Restart ==
    /\ pc = "restart"
    /\ \/ /\ PassOver
          /\ Goto(IF winsState = "Running" THEN "stop" ELSE "start")
          /\ after' = "start"
          /\ UNCHANGED errs
       \/ RefreshReturns("err", did) /\ UNCHANGED after
    /\ UNCHANGED <<hostVars, runs, env, snap, newCfg, restart, rerrs,
                   ret, polls, depRemoved>>

StartService ==
    /\ pc = "start"
    /\ polls' = 0
    /\ \/ /\ SendStart
          /\ Goto("waitRunning")
          /\ UNCHANGED <<errs, did>>
       \/ /\ ProcessAlive                     \* ERROR_SERVICE_ALREADY_RUNNING
          /\ Goto("already")
          /\ UNCHANGED <<scmVars, errs, did>>
       \/ RefreshReturns("err", did) /\ UNCHANGED scmVars
    /\ UNCHANGED <<delayedStart, rke2Vars, cfgFile, exe, runs, env, snap, newCfg,
                   restart, rerrs, ret, after, depRemoved>>

\* Somebody else started it: that counts unless it is still stopping.
AlreadyRunning ==
    /\ pc = "already"
    /\ \/ /\ winsState \in {"StartPending", "Running"}
          /\ Goto("waitRunning")
          /\ UNCHANGED <<errs, did>>
       \/ RefreshReturns("err", did)
    /\ UNCHANGED <<hostVars, runs, env, snap, newCfg, restart, rerrs, flowVars>>

WaitForRunning ==
    /\ pc = "waitRunning"
    /\ \/ Poll("Running", "waitRunning")
       \/ /\ polls < MaxPolls /\ winsState = "Running"
          /\ IF depRemoved # {}
             THEN Goto("readd") /\ did' = did \cup {"restarted"} /\ UNCHANGED errs
             ELSE RefreshReturns("nil", did \cup {"restarted"})
          /\ UNCHANGED polls
       \/ RefreshReturns("err", did) /\ UNCHANGED polls
    /\ UNCHANGED <<hostVars, runs, env, snap, newCfg, restart, rerrs,
                   ret, after, depRemoved>>

\* Mutant: the dependency is not put back.
DependencyForgotten ==
    /\ pc = "readd"
    /\ RefreshReturns("nil", did)
    /\ UNCHANGED <<hostVars, runs, env, snap, newCfg, restart, rerrs, flowVars>>

\* An error reopening rke2 is only logged, and the nil service dereferenced.
RestoreDependency ==
    /\ pc = "readd"
    /\ \/ Finish("panic") /\ UNCHANGED <<rke2Deps, errs, did>>
       \/ CommitDependencies(WithDependency(rke2Deps)) /\ RefreshReturns("nil", did)
       \/ /\ RefreshReturns("err", did)
          /\ UNCHANGED rke2Deps \/ CommitDependencies(WithDependency(rke2Deps))
    /\ UNCHANGED <<scmVars, rke2State, delayedStart, cfgFile, exe, runs, env, snap,
                   newCfg, restart, rerrs, flowVars>>

-----------------------------------------------------------------------------
(* The end of Run and the rollback.                                        *)

\* Mutant: an upgrade alone does not restart the service.
DecideRefreshByConfig ==
    /\ pc = "decide"
    /\ Goto(IF newCfg # snap.cfg THEN "refresh" ELSE "conclude")
    /\ ret' = "run"
    /\ UNCHANGED <<hostVars, runVars, newCfg, restart, errVars, after, polls, depRemoved>>

DecideRefresh ==
    /\ pc = "decide"
    /\ Goto(IF restart # {} THEN "refresh" ELSE "conclude")
    /\ ret' = "run"
    /\ UNCHANGED <<hostVars, runVars, newCfg, restart, errVars, after, polls, depRemoved>>

Conclude ==
    /\ pc = "conclude"
    /\ \/ /\ errs = "nil"
          /\ Finish("ok")
          /\ UNCHANGED did
       \/ /\ errs # "nil"
          /\ did' = did \cup {"rollback"}
          /\ Goto("restoreDelayed")
    /\ UNCHANGED <<hostVars, runs, env, snap, newCfg, restart, errVars, flowVars>>

\* The service that failed to open is dereferenced all the same.
RestoreDelayedStart ==
    /\ pc = "restoreDelayed"
    /\ \/ Finish("panic") /\ UNCHANGED <<delayedStart, rerrs>>
       \/ delayedStart' = snap.delayed /\ Goto("restoreDeps") /\ UNCHANGED rerrs
       \/ /\ delayedStart # snap.delayed
          /\ delayedStart' \in {delayedStart, snap.delayed}
          /\ rerrs' = "err"
          /\ Goto("restoreDeps")
    /\ UNCHANGED <<scmVars, rke2Vars, cfgFile, exe, runVars, newCfg, restart, errs, flowVars>>

\* The initial list is written back as it is, "/" or not.
RestoreRke2Dependencies ==
    /\ pc = "restoreDeps"
    /\ \/ rke2State # "Absent" /\ CommitDependencies(snap.deps) /\ UNCHANGED rerrs
       \/ rke2State = "Absent" /\ UNCHANGED <<rke2Deps, rerrs>>
       \/ /\ rerrs' = "err"
          /\ \/ UNCHANGED rke2Deps
             \/ rke2State # "Absent" /\ CommitDependencies(snap.deps)
    /\ Goto("truncateConfig")
    /\ UNCHANGED <<scmVars, rke2State, delayedStart, cfgFile, exe, runVars, newCfg,
                   restart, errs, flowVars>>

\* SaveConfig(state.InitialConfig) opens the file ...
TruncateConfig ==
    /\ pc = "truncateConfig"
    /\ \/ /\ cfgFile' = EmptyConfig
          /\ newCfg' = snap.cfg
          /\ Goto("restoreConfig")
          /\ UNCHANGED rerrs
       \/ /\ rerrs' = "err"
          /\ Finish("err")
          /\ UNCHANGED <<cfgFile, newCfg>>
    /\ UNCHANGED <<scmVars, delayedStart, rke2Vars, exe, runVars, restart, errs, flowVars>>

\* ... and writes it.  Only a rollback without any error restarts the service.
RestoreConfig ==
    /\ pc = "restoreConfig"
    /\ \/ cfgFile' = newCfg /\ UNCHANGED rerrs
       \/ rerrs' = "err" /\ UNCHANGED cfgFile
    /\ ret' = "restore"
    /\ IF rerrs' = "nil" THEN Goto("refresh") ELSE Finish("err")
    /\ UNCHANGED <<scmVars, delayedStart, rke2Vars, exe, runVars, newCfg, restart, errs,
                   after, polls, depRemoved>>

-----------------------------------------------------------------------------
\* What is being written when the process is killed is left torn.
FileBeingWritten == [copyWindows |-> "windows", copyLocal |-> "local"]

\* The pod is deleted or the node's container runtime goes away in mid-run.
Kill ==
    /\ pc # "idle"
    /\ Finish("killed")
    /\ \/ UNCHANGED <<cfgFile, exe>>
       \/ /\ pc = "connect" /\ env.script /\ UNCHANGED exe
          /\ ScriptEdits \/ cfgFile' = EmptyConfig
       \/ /\ pc \in DOMAIN FileBeingWritten
          /\ pc = "copyWindows" => ~ProcessAlive
          /\ exe' = [exe EXCEPT ![FileBeingWritten[pc]] = "torn"]
          /\ UNCHANGED cfgFile
    /\ UNCHANGED <<scmVars, delayedStart, rke2Vars, runVars, newCfg, restart,
                   errVars, flowVars>>

UpdaterStep ==
    \/ BuildInitialState \/ UpdateConnectionInformation
    \/ UpdateConfigFromEnvVars \/ WriteConfig
    \/ ConfigureWinsDelayedStart \/ ConfigureRKE2ServiceDependency
    \/ UpgradeRancherWinsBinary \/ StageBinary
    \/ CopyToWindows \/ CopyToLocal \/ ConfirmBinaries
    \/ DecideRefresh \/ RefreshWinsService
    \/ Restart \/ Stop \/ WaitForStopped
    \/ StartService \/ AlreadyRunning \/ WaitForRunning \/ RestoreDependency
    \/ Conclude \/ RestoreDelayedStart \/ RestoreRke2Dependencies
    \/ TruncateConfig \/ RestoreConfig

updaterVars == <<pc, runVars, newCfg, restart, errVars, flowVars, outcome>>

Next ==
    \/ Start
    \/ UpdaterStep
    \/ Kill
    \/ WinsLoadsConfig /\ UNCHANGED updaterVars
    \/ WinsReportsRunning /\ UNCHANGED updaterVars
    \/ WinsEnds /\ UNCHANGED updaterVars
    \/ WinsEndsUnexpectedly /\ UNCHANGED updaterVars
    \/ RecoveryStartsWins /\ UNCHANGED updaterVars
    \/ Rke2Installed /\ UNCHANGED updaterVars
    \/ Rke2StartsOrStops /\ UNCHANGED updaterVars

\* The script asks Rancher for its CA without a time limit (RancherConnection's
\* AwaitsCA), and nobody gives the script one.
AwaitsScript == pc = "connect" /\ env.script

\* The updater's process runs; nothing is assumed of the host, the plan or Rancher.
Fairness == WF_vars(UpdaterStep /\ ~AwaitsScript)

Spec == Init /\ [][Next]_vars /\ Fairness

-----------------------------------------------------------------------------
(* What the updater promises.                                              *)

\* Whatever fails, and however often the updater is killed and started again,
\* the dependencies rke2 has on other services survive every list the updater
\* writes: adding, removing ("/" included) and rolling back.
OthersUntouched == [][rke2State # "Absent" => rke2Deps' \ {Wins} = rke2Deps \ {Wins}]_vars

\* From the snapshot on, the list that a rollback would write back differs from
\* the one in force in nothing but rancher-wins, or is empty and changes nothing:
\* InitialState does not go stale, not even when rke2 is installed in mid-run.
RollbackKeepsOthers ==
    /\ rke2State = "Absent" => rke2Deps = {}
    /\ pc \notin {"idle", "snapshot"} /\ snap.deps # {} =>
          rke2State # "Absent" /\ snap.deps \ {Wins} = rke2Deps \ {Wins}

\* A run that returns nil leaves the config file, the start type and the rke2
\* dependency as its environment asks, whatever RefreshWinsService took away in
\* between and whatever an earlier run, failed or killed, left behind; and the rest
\* of the file as the run found it, unless it has the script.
SuccessIsConfigured ==
    outcome = "ok" =>
        /\ cfgFile = WantedConfig(cfgFile)
        /\ ~env.script => cfgFile.conn = snap.cfg.conn
        /\ delayedStart = env.delayed
        /\ "rke2Found" \in did => (HasDependency <=> env.dependency)

\* RestoreInitialState returning nil means that the config file, the start type
\* and any list of dependencies that was not empty are those of InitialState,
\* after the refresh it ends with too.
RollbackIsFaithful ==
    "restored" \in did =>
        /\ cfgFile = snap.cfg
        /\ delayedStart = snap.delayed
        /\ snap.deps # {} => rke2Deps = snap.deps

\* A run that returns nil without being told to skip the upgrade leaves the
\* embedded wins.exe where the service runs from, even when it follows a run
\* that failed or was killed half-way through a copy; a first run leaves it in
\* the other place too, which a run after a half-way copy need not look at.
SuccessIsUpgraded ==
    outcome = "ok" /\ ~env.skip =>
        exe["windows"] = "new" /\ (runs = 1 => exe["local"] = "new")

\* A run that returns nil has started again what it stopped.
SuccessIsRestarted == outcome = "ok" /\ "stopped" \in did => "restarted" \in did

\* In a first run, and while the wins process has not ended by itself, nil from
\* RefreshWinsService means that the service runs when the run ends, in whatever
\* state it was found, and that its process has read the config file as it is now:
\* whoever started it, unless Restart passed it over.
SuccessIsFresh ==
    runs = 1 /\ crashes = 0 /\ outcome = "ok" /\ "restarted" \in did =>
        /\ winsState = "Running"
        /\ loaded = cfgFile \/ "passedOver" \in did

\* RefreshWinsService asks the SCM to stop a service a running rke2 depends on
\* only if it could not open rke2.
RestartIsUnblocked ==
    pc = "stop" /\ after = "start" /\ BlockedByRke2 => "stateUnknown" \in did

\* Every run comes to its script, if it has one, which may hang, and every other
\* run and every run that has come out of its script ends: the loops of
\* WaitForState and the rollback are bounded, whatever the host does.
RunEnds == pc # "idle" ~> pc = "idle" \/ AwaitsScript

-----------------------------------------------------------------------------
(* What the comments promise and the code does not keep.                   *)

\* state.go:81: "RestoreInitialState will clear all changes made to the host".
RollbackIsComplete == "restored" \in did => rke2Deps = snap.deps

\* state.go:16-18: "In the event of an error during reconfiguration of the
\* service or the related binaries, this struct should be used to roll back all
\* changes".
FailureIsRolledBack ==
    outcome = "err" /\ "snapshot" \in did /\ Snapshot # snap => "rollback" \in did

\* configure.go:92-94: the dependency is "temporarily removed and restored once
\* the service restart has completed"; so says an exit code of 0.
DependencyIsRestored ==
    outcome \in {"ok", "panic"} /\ depRemoved # {} /\ "restarted" \in did => HasDependency

\* configure.go:15-16: "rancher-wins service cannot be stopped if rke2 is still
\* running. To restart rancher-wins, this dependency must be temporarily
\* removed".
StopIsUnblocked == pc = "stop" /\ BlockedByRke2 => "stateUnknown" \in did
=============================================================================
