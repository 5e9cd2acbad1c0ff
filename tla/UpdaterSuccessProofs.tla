------------------------ MODULE UpdaterSuccessProofs ------------------------
(***************************************************************************)
(* What it means that a run of the updater returned nil, for every value   *)
(* of Updater's constants: its environment is in force, the embedded       *)
(* wins.exe is in place, and what was stopped runs again.                  *)
(*                                                                         *)
(* Each property speaks of the end of a run.  Its strengthening says of    *)
(* every pc what the run has achieved by then, given that Run has no error *)
(* to report so far.                                                       *)
(***************************************************************************)
EXTENDS UpdaterProofs

\* The calls on the way to the restart, and those of Restart itself, which Stop
\* and WaitForState are part of when Restart made them.
BeforeUpgrade == {"snapshot", "connect", "loadConfig", "writeConfig", "delayed",
                  "dependency", "upgrade", "stage"}
Upgrading == {"copyWindows", "copyLocal", "confirm"}
RollingBack == {"restoreDelayed", "restoreDeps", "truncateConfig", "restoreConfig"}

Stopping == pc \in {"stop", "waitStopped"}
Restarting == \/ pc \in {"restart", "start", "already", "waitRunning", "readd"}
              \/ Stopping /\ after = "start"

\* The calls from which Run can still go on to return nil, once the upgrade is done.
Upgraded == ret = "run" /\ (pc \in {"decide", "refresh", "conclude"} \/ Restarting)

\* A run ends in an outcome, and a rollback has an error to report.
ControlFits ==
    /\ pc # "idle" => outcome = "none"
    /\ pc \in RollingBack \/ ret = "restore" => errs = "err"
    /\ ret = "restore" => pc \in {"idle", "refresh"} \/ Restarting

-----------------------------------------------------------------------------
\* What was stopped is started, or somebody hears of it.
RestartIsOwed ==
    "stopped" \in did /\ "restarted" \notin did =>
        \/ pc \in {"refresh", "restart", "stop", "waitStopped", "start", "already",
                   "waitRunning"} \cup Upgrading
        \/ pc = "decide" /\ restart # {}
        \/ pc \in {"conclude"} \cup RollingBack /\ errs = "err"
        \/ pc = "idle" /\ outcome # "ok"

\* rke2 does not come to depend on rancher-wins while it is about to be stopped.
Unblocked ==
    pc = "restart" \/ (pc = "stop" /\ after = "start") =>
        ~HasDependency \/ "stateUnknown" \in did

\* The two installed copies are the same until the first run writes one of them.
BinariesInstalled ==
    /\ runs = 0 => pc = "idle" /\ outcome = "none"
    /\ runs = 0 \/ (runs = 1 /\ pc \in BeforeUpgrade) => exe["windows"] = exe["local"]
    /\ ~env.skip /\ (Upgraded \/ outcome = "ok") =>
          exe["windows"] = "new" /\ (runs = 1 => exe["local"] = "new")

-----------------------------------------------------------------------------
\* No error so far, or the end of a run without one.
SoFar(labels) == (errs = "nil" /\ (pc \in labels \/ Upgraded)) \/ outcome = "ok"

AfterDependency == {"upgrade", "stage", "stop", "waitStopped"} \cup Upgrading

Configured ==
    /\ pc = "writeConfig" => newCfg = WantedConfig(newCfg)
    /\ SoFar({"delayed", "dependency"} \cup AfterDependency) => cfgFile = WantedConfig(cfgFile)
    /\ SoFar({"dependency"} \cup AfterDependency) => delayedStart = env.delayed

\* Without the script, the rest of the file is as the run found it, or is still to
\* be written.
RestOfFileKept ==
    ~env.script =>
        /\ pc \in {"connect", "loadConfig"} => cfgFile.conn = snap.cfg.conn
        /\ pc = "writeConfig" => newCfg.conn = snap.cfg.conn
        /\ SoFar({"delayed", "dependency"} \cup AfterDependency) => cfgFile.conn = snap.cfg.conn

\* RefreshWinsService has taken the dependency away and not yet put it back.
TakenAway == Restarting /\ depRemoved # {}

DependencyConfigured ==
    /\ "rke2Found" \in did => rke2State # "Absent"
    /\ "rke2Found" \in did /\ SoFar(AfterDependency) =>
          IF TakenAway THEN Wins \notin rke2Deps /\ env.dependency
          ELSE Wins \in rke2Deps <=> env.dependency

-----------------------------------------------------------------------------
\* In a first run, with a wins process that does not end by itself and no error so
\* far: the service that Restart is about to start, or to wait for, has ended or
\* is ending, or is a process that reads the config after the last change of it,
\* or one that Restart passed over.
Ending == winsState \in {"StopPending", "Stopped"}
Reading == winsState = "StartPending" /\ (loaded \in {NotLoaded, cfgFile} \/ "passedOver" \in did)
Fresh == winsState = "Running" /\ (loaded = cfgFile \/ "passedOver" \in did)

Phases ==
    /\ pc = "waitStopped" => Ending
    /\ pc \in {"start", "already"} => Ending \/ Reading \/ Fresh
    /\ pc = "waitRunning" => Reading \/ Fresh
    /\ pc = "readd" => Fresh
    /\ "restarted" \in did => pc \in {"idle", "readd", "conclude"}
    /\ "restarted" \in did /\ pc = "conclude" => Fresh

FirstRunFresh ==
    /\ crashes = 0 => recovery = "none"
    /\ runs = 1 /\ crashes = 0 /\ errs = "nil" => Phases
    /\ SuccessIsFresh

-----------------------------------------------------------------------------
\* The steps of the updater before the restart of the service, those of the
\* restart, and those after it; and of the host.
Reconfigures ==
    \/ BuildInitialState \/ UpdateConnectionInformation
    \/ UpdateConfigFromEnvVars \/ WriteConfig
    \/ ConfigureWinsDelayedStart \/ ConfigureRKE2ServiceDependency
Upgrades ==
    \/ UpgradeRancherWinsBinary \/ StageBinary
    \/ CopyToWindows \/ CopyToLocal \/ ConfirmBinaries
Refreshes ==
    \/ RefreshWinsService \/ Restart \/ StartService \/ AlreadyRunning
    \/ WaitForRunning \/ RestoreDependency
Stops == Stop \/ WaitForStopped
RollsBack ==
    \/ RestoreDelayedStart \/ RestoreRke2Dependencies
    \/ TruncateConfig \/ RestoreConfig
HostStep ==
    /\ UNCHANGED updaterVars
    /\ \/ WinsLoadsConfig \/ WinsReportsRunning \/ WinsEnds \/ WinsEndsUnexpectedly
       \/ RecoveryStartsWins \/ Rke2Installed \/ Rke2StartsOrStops
       \/ UNCHANGED hostVars

LEMMA Steps ==
    ASSUME [Next]_vars
    PROVE  \/ Start \/ Reconfigures \/ Upgrades \/ DecideRefresh \/ Refreshes \/ Stops
           \/ Conclude \/ RollsBack \/ Kill \/ HostStep
BY DEF Next, UpdaterStep, Reconfigures, Upgrades, Refreshes, Stops, RollsBack, HostStep,
       updaterVars, vars

USE DEF scmVars, rke2Vars, hostVars, flowVars, runVars, errVars, updaterVars, vars,
    Goto, Finish, Start, BuildInitialState, UpdateConnectionInformation,
    UpdateConfigFromEnvVars, WriteConfig, ConfigureWinsDelayedStart,
    ConfigureRKE2ServiceDependency, UpgradeRancherWinsBinary, StageBinary, CopyTo,
    CopyToWindows, CopyToLocal, ConfirmBinaries, DecideRefresh, RefreshWinsService,
    RefreshReturns, PassOver, Restart, Stop, StopFails, StopReturns, WaitForStopped, Poll,
    StartService, AlreadyRunning, WaitForRunning, RestoreDependency, Conclude,
    RestoreDelayedStart, RestoreRke2Dependencies, TruncateConfig, RestoreConfig, Kill,
    WinsLoadsConfig, WinsReportsRunning, WinsEnds, WinsEndsUnexpectedly,
    RecoveryStartsWins, Rke2Installed, Rke2StartsOrStops

LEMMA ControlFitsStep == TypeOK /\ ControlFits /\ [Next]_vars => ControlFits'
<1> SUFFICES ASSUME TypeOK, ControlFits, [Next]_vars PROVE ControlFits'
  OBVIOUS
<1> USE DEF ControlFits, Restarting, Stopping, RollingBack
<1>0. errs \in {"nil", "err"}
  BY DEF TypeOK, LocalTypeOK, Errors
<1>1. CASE Start \/ HostStep
  BY <1>1 DEF HostStep
<1>2. CASE Reconfigures
  BY <1>2 DEF Reconfigures
<1>3. CASE Upgrades
  BY <1>3 DEF Upgrades
<1>4. CASE Refreshes
  BY <1>4 DEF Refreshes
<1>5. CASE Stops
  BY <1>5 DEF Stops
<1>6. CASE RollsBack
  BY <1>6 DEF RollsBack
<1>7. CASE Conclude \/ DecideRefresh \/ Kill
  BY <1>0, <1>7
<1> QED
  BY <1>1, <1>2, <1>3, <1>4, <1>5, <1>6, <1>7, Steps

LEMMA RestartIsOwedStep == TypeOK /\ RestartIsOwed /\ [Next]_vars => RestartIsOwed'
<1> SUFFICES ASSUME TypeOK, RestartIsOwed, [Next]_vars PROVE RestartIsOwed'
  OBVIOUS
<1> USE DEF RestartIsOwed, Upgrading, RollingBack
<1>0. errs \in {"nil", "err"}
  BY DEF TypeOK, LocalTypeOK, Errors
<1>1. CASE Start \/ HostStep
  BY <1>1 DEF HostStep
<1>2. CASE Reconfigures
  BY <1>2 DEF Reconfigures
<1>3. CASE Upgrades
  BY <1>3 DEF Upgrades
<1>4. CASE Refreshes
  BY <1>4 DEF Refreshes
<1>5. CASE Stops
  BY <1>5 DEF Stops
<1>6. CASE RollsBack
  BY <1>6 DEF RollsBack
<1>7. CASE Conclude \/ DecideRefresh \/ Kill
  BY <1>0, <1>7
<1> QED
  BY <1>1, <1>2, <1>3, <1>4, <1>5, <1>6, <1>7, Steps

LEMMA UnblockedStep == TypeOK /\ Unblocked /\ [Next]_vars => Unblocked'
<1> SUFFICES ASSUME TypeOK, Unblocked, [Next]_vars PROVE Unblocked'
  OBVIOUS
<1> USE DEF Unblocked, HasDependency
<1>1. CASE Start \/ Reconfigures \/ Upgrades \/ RollsBack \/ Conclude \/ DecideRefresh \/ Kill
  <2>1. pc' # "restart" /\ (pc' = "stop" => after' = "copy")
    BY <1>1 DEF Reconfigures, Upgrades, RollsBack
  <2> QED
    BY <2>1
<1>2. CASE RefreshWinsService
  <2>1. CommitDependencies(WithoutDependency(rke2Deps)) => Wins \notin rke2Deps'
    BY NamesAssumption DEF CommitDependencies, WithoutDependency
  <2> QED
    BY <1>2, <2>1
<1>3. CASE Refreshes /\ ~RefreshWinsService
  BY <1>3 DEF Refreshes
<1>4. CASE Stops
  BY <1>4 DEF Stops
<1>5. CASE HostStep
  <2>1. HasDependency' => HasDependency
    BY <1>5, NamesAssumption DEF HostStep
  <2> QED
    BY <1>5, <2>1 DEF HostStep
<1> QED
  BY <1>1, <1>2, <1>3, <1>4, <1>5, Steps

LEMMA RunsCount == TypeOK => runs \in Nat /\ crashes \in Nat
BY BoundsAssumption, CrashesAssumption DEF TypeOK, HostTypeOK, LocalTypeOK

LEMMA BinariesInstalledStep ==
    TypeOK /\ ControlFits /\ BinariesInstalled /\ [Next]_vars => BinariesInstalled'
<1> SUFFICES ASSUME TypeOK, ControlFits, BinariesInstalled, [Next]_vars
             PROVE  BinariesInstalled'
  OBVIOUS
<1> USE DEF BinariesInstalled, Upgraded, Restarting, Stopping, BeforeUpgrade
<1>0. /\ exe \in [Paths -> Contents]
      /\ "windows" \in Paths /\ "local" \in Paths
  BY DEF TypeOK, HostTypeOK, Paths
<1>t. ret \in {"run", "restore"} /\ after \in {"copy", "start"}
  BY DEF TypeOK, ControlTypeOK
<1>1. CASE Start
  <2>1. runs' # 0 /\ (runs' = 1 => runs = 0)
    BY <1>1, RunsCount
  <2> QED
    BY <1>1, <2>1
<1>2. CASE Reconfigures
  BY <1>2 DEF Reconfigures
<1>3. CASE Upgrades
  BY <1>0, <1>3 DEF Upgrades, ControlFits
<1>4. CASE Refreshes
  BY <1>4 DEF Refreshes
<1>5. CASE Stops
  <2>1. UNCHANGED <<exe, env, runs>>
    BY <1>5 DEF Stops
  <2>2. pc # "idle" /\ (Upgraded' => Upgraded)
    BY <1>t, <1>5 DEF Stops
  <2>3. pc' \notin BeforeUpgrade /\ (outcome' = "ok" => outcome = "ok")
    BY <1>5 DEF Stops
  <2> QED
    BY <2>1, <2>2, <2>3
<1>6. CASE RollsBack
  <2>1. UNCHANGED <<exe, env, runs>>
    BY <1>6 DEF RollsBack
  <2>2. pc # "idle" /\ (Upgraded' => Upgraded)
    BY <1>6 DEF RollsBack
  <2>3. pc' \notin BeforeUpgrade /\ (outcome' = "ok" => outcome = "ok")
    BY <1>6 DEF RollsBack
  <2> QED
    BY <2>1, <2>2, <2>3
<1>7. CASE Conclude \/ DecideRefresh
  BY <1>t, <1>7 DEF ControlFits
<1>8. CASE Kill
  BY <1>8
<1>9. CASE HostStep
  BY <1>9 DEF HostStep
<1> QED
  BY <1>1, <1>2, <1>3, <1>4, <1>5, <1>6, <1>7, <1>8, <1>9, Steps

\* Nobody but a rollback changes the configuration after the updater has.
LEMMA ConfigurationStays ==
    ASSUME TypeOK, ControlFits,
           Upgrades \/ DecideRefresh \/ Refreshes \/ Stops \/ Conclude \/ HostStep
    PROVE  UNCHANGED <<cfgFile, delayedStart, env>>
BY DEF Upgrades, Refreshes, Stops, HostStep

LEMMA SoFarStays ==
    ASSUME TypeOK, ControlFits, NEW labels, AfterDependency \subseteq labels, "idle" \notin labels,
           Upgrades \/ DecideRefresh \/ Refreshes \/ Stops \/ Conclude \/ HostStep,
           SoFar(labels)'
    PROVE  SoFar(labels)
<1> USE DEF SoFar, Upgraded, Restarting, Stopping, AfterDependency, Upgrading
<1>t. ret \in {"run", "restore"} /\ after \in {"copy", "start"} /\ errs \in {"nil", "err"}
  BY DEF TypeOK, ControlTypeOK, LocalTypeOK, Errors
<1>1. CASE Upgrades
  BY <1>1 DEF Upgrades
<1>2. CASE DecideRefresh \/ Conclude
  BY <1>t, <1>2 DEF ControlFits
<1>3. CASE Refreshes
  <2>1. outcome' = "ok" => outcome = "ok"
    BY <1>3 DEF Refreshes
  <2>2. errs' = "nil" => errs = "nil" /\ (pc' # "idle" => ret = "run")
    BY <1>t, <1>3 DEF Refreshes, ControlFits
  <2>3. pc \in {"refresh", "conclude"} \/ Restarting
    BY <1>3 DEF Refreshes
  <2> QED
    BY <2>1, <2>2, <2>3
<1>4. CASE Stops
  BY <1>t, <1>4 DEF Stops
<1>5. CASE HostStep
  BY <1>5 DEF HostStep
<1> QED
  BY <1>1, <1>2, <1>3, <1>4, <1>5

LEMMA SoFarEnds ==
    ASSUME TypeOK, ControlFits, Start \/ RollsBack \/ Kill, NEW labels, SoFar(labels)',
           "idle" \notin labels, "snapshot" \notin labels
    PROVE  FALSE
BY DEF SoFar, Upgraded, Restarting, Stopping, RollsBack, ControlFits, RollingBack

LEMMA ConfiguredStep == TypeOK /\ ControlFits /\ Configured /\ [Next]_vars => Configured'
<1> SUFFICES ASSUME TypeOK, ControlFits, Configured, [Next]_vars PROVE Configured'
  OBVIOUS
<1>1. CASE Start \/ RollsBack \/ Kill
  <2>1. pc' # "writeConfig"
    BY <1>1 DEF RollsBack
  <2> QED
    BY <1>1, <2>1, SoFarEnds DEF Configured, AfterDependency, Upgrading
<1>2. CASE Upgrades \/ DecideRefresh \/ Refreshes \/ Stops \/ Conclude \/ HostStep
  <2>1. UNCHANGED <<cfgFile, delayedStart, env>>
    BY <1>2, ConfigurationStays
  <2>2. SoFar({"delayed", "dependency"} \cup AfterDependency)' =>
           SoFar({"delayed", "dependency"} \cup AfterDependency)
    BY <1>2, SoFarStays DEF AfterDependency, Upgrading
  <2>3. SoFar({"dependency"} \cup AfterDependency)' => SoFar({"dependency"} \cup AfterDependency)
    BY <1>2, SoFarStays DEF AfterDependency, Upgrading
  <2>4. pc' = "writeConfig" => pc = "writeConfig" /\ newCfg' = newCfg
    BY <1>2 DEF Upgrades, Refreshes, Stops, HostStep
  <2> QED
    BY <2>1, <2>2, <2>3, <2>4 DEF Configured, WantedConfig
<1>3. CASE Reconfigures
  <2> USE DEF Configured, SoFar, Upgraded, Restarting, Stopping, AfterDependency, Upgrading
  <2>0. outcome = "none" /\ env' = env /\ ret' = ret
    BY <1>3 DEF Reconfigures, ControlFits
  <2>1. CASE BuildInitialState \/ UpdateConnectionInformation
    BY <2>0, <2>1
  <2>2. CASE UpdateConfigFromEnvVars
    <3>1. newCfg' = WantedConfig(newCfg)'
      BY <2>0, <2>2 DEF WantedConfig
    <3> QED
      BY <2>0, <2>2, <3>1
  <2>3. CASE WriteConfig
    BY <2>0, <2>3 DEF WantedConfig
  <2>4. CASE ConfigureWinsDelayedStart
    BY <2>0, <2>4 DEF WantedConfig
  <2>5. CASE ConfigureRKE2ServiceDependency
    BY <2>0, <2>5 DEF WantedConfig
  <2> QED
    BY <1>3, <2>1, <2>2, <2>3, <2>4, <2>5 DEF Reconfigures
<1> QED
  BY <1>1, <1>2, <1>3, Steps

LEMMA RestOfFileKeptStep ==
    TypeOK /\ ControlFits /\ RestOfFileKept /\ [Next]_vars => RestOfFileKept'
<1> SUFFICES ASSUME TypeOK, ControlFits, RestOfFileKept, [Next]_vars PROVE RestOfFileKept'
  OBVIOUS
<1>1. CASE Start \/ RollsBack \/ Kill
  <2>1. pc' \notin {"connect", "loadConfig", "writeConfig"}
    BY <1>1 DEF RollsBack
  <2> QED
    BY <1>1, <2>1, SoFarEnds DEF RestOfFileKept, AfterDependency, Upgrading
<1>2. CASE Upgrades \/ DecideRefresh \/ Refreshes \/ Stops \/ Conclude \/ HostStep
  <2>1. UNCHANGED <<cfgFile, delayedStart, env>>
    BY <1>2, ConfigurationStays
  <2>2. SoFar({"delayed", "dependency"} \cup AfterDependency)' =>
           SoFar({"delayed", "dependency"} \cup AfterDependency)
    BY <1>2, SoFarStays DEF AfterDependency, Upgrading
  <2>3. /\ UNCHANGED <<snap, newCfg>>
        /\ pc' \in {"connect", "loadConfig", "writeConfig"} => pc' = pc
    BY <1>2 DEF Upgrades, Refreshes, Stops, HostStep
  <2> QED
    BY <2>1, <2>2, <2>3 DEF RestOfFileKept
<1>3. CASE Reconfigures
  <2> USE DEF RestOfFileKept, SoFar, Upgraded, Restarting, Stopping, AfterDependency, Upgrading
  <2>0. outcome = "none" /\ env' = env /\ ret' = ret
    BY <1>3 DEF Reconfigures, ControlFits
  <2>1. CASE BuildInitialState
    BY <2>0, <2>1 DEF Snapshot
  <2>2. CASE UpdateConnectionInformation
    BY <2>0, <2>2 DEF ScriptEdits
  <2>3. CASE UpdateConfigFromEnvVars
    <3>1. newCfg'.conn = cfgFile.conn
      BY <2>3 DEF WantedConfig
    <3> QED
      BY <2>0, <2>3, <3>1
  <2>4. CASE WriteConfig
    BY <2>0, <2>4
  <2>5. CASE ConfigureWinsDelayedStart \/ ConfigureRKE2ServiceDependency
    BY <2>0, <2>5
  <2> QED
    BY <1>3, <2>1, <2>2, <2>3, <2>4, <2>5 DEF Reconfigures
<1> QED
  BY <1>1, <1>2, <1>3, Steps

\* What the updater writes about rancher-wins is what is in the list then.
LEMMA CommitMembers ==
    ASSUME NEW list, CommitDependencies(list), list # {}
    PROVE  Wins \in rke2Deps' <=> Wins \in list
BY NamesAssumption DEF CommitDependencies

LEMMA ListMembers ==
    ASSUME NEW deps
    PROVE  /\ WithDependency(deps) # {} /\ Wins \in WithDependency(deps)
           /\ WithoutDependency(deps) # {} /\ Wins \notin WithoutDependency(deps)
BY NamesAssumption DEF WithDependency, WithoutDependency

LEMMA Rke2FoundStep ==
    ASSUME "rke2Found" \in did => rke2State # "Absent", [Next]_vars
    PROVE  "rke2Found" \in did' => rke2State' # "Absent"
<1>1. CASE "rke2Found" \in did
  BY <1>1, Rke2IsNotRemoved
<1>2. CASE "rke2Found" \notin did /\ "rke2Found" \in did'
  <2>1. ConfigureRKE2ServiceDependency
    BY <1>2, Steps DEF Reconfigures, Upgrades, Refreshes, Stops, RollsBack, HostStep
  <2> QED
    BY <1>2, <2>1
<1> QED
  BY <1>1, <1>2

LEMMA DependencyConfiguredStep ==
    TypeOK /\ ControlFits /\ Rke2Stays /\ DependencyConfigured /\ [Next]_vars
        => DependencyConfigured'
<1> SUFFICES ASSUME TypeOK, ControlFits, Rke2Stays, DependencyConfigured, [Next]_vars,
                    "rke2Found" \in did', SoFar(AfterDependency)'
             PROVE  (IF TakenAway THEN Wins \notin rke2Deps /\ env.dependency
                     ELSE Wins \in rke2Deps <=> env.dependency)'
  BY Rke2FoundStep DEF DependencyConfigured
<1>t. ret \in {"run", "restore"} /\ after \in {"copy", "start"} /\ errs \in {"nil", "err"}
  BY DEF TypeOK, ControlTypeOK, LocalTypeOK, Errors
<1>1. CASE Start \/ RollsBack \/ Kill
  BY <1>1, SoFarEnds DEF AfterDependency, Upgrading
<1>2. CASE Reconfigures
  <2>1. ConfigureRKE2ServiceDependency
    BY <1>2 DEF Reconfigures, ControlFits, SoFar, AfterDependency, Upgrading, Upgraded,
       Restarting, Stopping
  <2>2. rke2State # "Absent" /\ env' = env /\ ~TakenAway'
    BY <2>1, Rke2FoundStep DEF TakenAway, Restarting, Stopping, DependencyConfigured
  <2>3. errs' # "err"
    BY <2>1 DEF ControlFits, SoFar, Upgraded, Restarting, Stopping
  <2>4. CommitDependencies(WantedDependencies)
    BY <2>1, <2>2, <2>3
  <2>5. CASE HasDependency <=> env.dependency
    <3>1. Wins \in rke2Deps' <=> Wins \in rke2Deps
      BY <2>4, <2>5, NamesAssumption DEF WantedDependencies, CommitDependencies
    <3> QED
      BY <2>2, <2>5, <3>1 DEF HasDependency
  <2>6. CASE ~(HasDependency <=> env.dependency)
    <3>1. env.dependency \in BOOLEAN
      BY EnvironmentAssumption DEF TypeOK, LocalTypeOK
    <3>2. Wins \in rke2Deps' <=> env.dependency
      BY <2>4, <2>6, <3>1, CommitMembers, ListMembers DEF WantedDependencies
    <3> QED
      BY <2>2, <3>2
  <2> QED
    BY <2>5, <2>6
<1>3. CASE Upgrades \/ DecideRefresh \/ Refreshes \/ Stops \/ Conclude \/ HostStep
  <2>1. "rke2Found" \in did /\ env' = env
    BY <1>3 DEF Upgrades, Refreshes, Stops, HostStep
  <2>2. /\ SoFar(AfterDependency)
        /\ rke2State # "Absent"
        /\ IF TakenAway THEN Wins \notin rke2Deps /\ env.dependency
           ELSE Wins \in rke2Deps <=> env.dependency
    BY <1>3, <2>1, SoFarStays DEF DependencyConfigured, AfterDependency, Upgrading
  <2>3. CASE Upgrades \/ DecideRefresh \/ Conclude
    <3>1. UNCHANGED rke2Deps /\ ~TakenAway /\ ~TakenAway'
      BY <2>3 DEF Upgrades, TakenAway, Restarting, Stopping
    <3> QED
      BY <2>1, <2>2, <3>1
  <2>4. CASE Stops
    <3>1. UNCHANGED rke2Deps /\ (TakenAway' <=> TakenAway)
      BY <1>t, <2>4 DEF Stops, TakenAway, Restarting, Stopping, SoFar, Upgraded,
         AfterDependency, Upgrading, ControlFits
    <3> QED
      BY <2>1, <2>2, <3>1
  <2>5. CASE HostStep
    <3>1. UNCHANGED rke2Deps /\ (TakenAway' <=> TakenAway)
      BY <2>2, <2>5 DEF HostStep, TakenAway, Restarting, Stopping
    <3> QED
      BY <2>1, <2>2, <3>1
  <2>6. CASE RefreshWinsService
    <3>1. ~TakenAway
      BY <2>6 DEF TakenAway, Restarting, Stopping
    <3>2. CASE UNCHANGED rke2Deps /\ ~TakenAway'
      BY <2>1, <2>2, <3>1, <3>2
    <3>3. CASE HasDependency /\ CommitDependencies(WithoutDependency(rke2Deps))
               /\ depRemoved' = {Wins} /\ pc' = "restart"
      <4>1. TakenAway'
        BY <3>3 DEF TakenAway, Restarting
      <4>2. Wins \notin rke2Deps'
        BY <3>3, CommitMembers, ListMembers
      <4> QED
        BY <2>1, <2>2, <3>1, <3>3, <4>1, <4>2 DEF HasDependency
    <3>e. ~RefreshReturns("err", did)
      <4>1. outcome = "none" /\ (ret = "restore" => errs = "err")
        BY <2>6 DEF ControlFits
      <4>2. errs' = "nil" \/ outcome' = "ok"
        BY DEF SoFar
      <4> QED
        BY <1>t, <4>1, <4>2
    <3>4. (UNCHANGED rke2Deps /\ ~TakenAway')
          \/ (HasDependency /\ CommitDependencies(WithoutDependency(rke2Deps))
              /\ depRemoved' = {Wins} /\ pc' = "restart")
      BY <2>6, <3>e DEF TakenAway, Restarting, Stopping
    <3> QED
      BY <3>2, <3>3, <3>4
  <2>7. CASE RestoreDependency
    <3>1. TakenAway /\ ~TakenAway'
      BY <2>7 DEF TakenAway, Restarting, Stopping, Rke2Stays
    <3>2. CommitDependencies(WithDependency(rke2Deps))
      BY <1>t, <2>7 DEF SoFar, Upgraded, Restarting, Stopping, AfterDependency, Upgrading,
         ControlFits
    <3>3. Wins \in rke2Deps'
      BY <3>2, CommitMembers, ListMembers
    <3> QED
      BY <2>1, <2>2, <3>1, <3>3
  <2>8. CASE Refreshes /\ ~RefreshWinsService /\ ~RestoreDependency
    <3>1. UNCHANGED <<rke2Deps, depRemoved>>
      BY <2>8 DEF Refreshes
    <3>2. TakenAway' <=> TakenAway
      BY <1>t, <2>8 DEF Refreshes, TakenAway, Restarting, Stopping, SoFar, Upgraded,
         AfterDependency, Upgrading, ControlFits
    <3> QED
      BY <2>1, <2>2, <3>1, <3>2
  <2> QED
    BY <1>3, <2>3, <2>4, <2>5, <2>6, <2>7, <2>8
<1> QED
  BY <1>1, <1>2, <1>3, Steps

LEMMA PhasesStep ==
    ASSUME TypeOK, ControlFits, Phases, errs = "nil", errs' = "nil",
           Reconfigures \/ Upgrades \/ DecideRefresh \/ Refreshes \/ Stops \/ Conclude
           \/ RollsBack \/ Kill
    PROVE  Phases'
<1> USE DEF Phases, Ending, Reading, Fresh
<1>t. ret = "run" /\ after \in {"copy", "start"} /\ pc \notin RollingBack
  BY DEF TypeOK, ControlTypeOK, ControlFits
<1>1. CASE Reconfigures
  BY <1>1 DEF Reconfigures
<1>2. CASE Upgrades
  BY <1>2 DEF Upgrades
<1>3. CASE RefreshWinsService
  BY <1>t, <1>3
<1>4. CASE Restart
  <2>1. winsState \in ServiceStates
    BY DEF TypeOK, HostTypeOK
  <2> QED
    BY <1>t, <1>4, <2>1 DEF ServiceStates
<1>5. CASE StartService \/ AlreadyRunning
  BY <1>t, <1>5 DEF SendStart, ProcessAlive
<1>6. CASE WaitForRunning
  BY <1>t, <1>6
<1>7. CASE RestoreDependency
  BY <1>t, <1>7
<1>8. CASE Stops
  BY <1>t, <1>8 DEF Stops, SendStop
<1>9. CASE DecideRefresh \/ Conclude \/ Kill
  BY <1>9
<1>10. CASE RollsBack
  BY <1>t, <1>10 DEF RollsBack, RollingBack
<1> QED
  BY <1>1, <1>2, <1>3, <1>4, <1>5, <1>6, <1>7, <1>8, <1>9, <1>10 DEF Refreshes

\* What the host does by itself while nothing but the updater stops the service.
LEMMA PhasesHostStep ==
    ASSUME TypeOK, HostStep, recovery = "none", crashes = 0, crashes' = 0
    PROVE  /\ Ending => Ending'
           /\ Fresh => Fresh'
           /\ Reading \/ Fresh => (Reading \/ Fresh)'
<1> USE DEF HostStep, Ending, Fresh, Reading
<1>1. ~WinsEndsUnexpectedly
  OBVIOUS
<1>2. ~RecoveryStartsWins
  OBVIOUS
<1>3. cfgFile # NotLoaded /\ UNCHANGED cfgFile
  BY DEF TypeOK, HostTypeOK, Configs, NotLoaded
<1> QED
  BY <1>1, <1>2, <1>3

LEMMA FirstRunFreshStep ==
    TypeOK /\ ControlFits /\ BinariesInstalled /\ FirstRunFresh /\ [Next]_vars
        => FirstRunFresh'
<1> SUFFICES ASSUME TypeOK, ControlFits, BinariesInstalled, FirstRunFresh, [Next]_vars
             PROVE  FirstRunFresh'
  OBVIOUS
<1>0. runs \in Nat /\ crashes \in Nat
  BY RunsCount
<1>1. CASE Start
  <2>1. UNCHANGED <<winsState, recovery, crashes>> /\ runs' # 0 /\ (runs' = 1 => runs = 0)
    BY <1>0, <1>1
  <2>2. pc' = "snapshot" /\ did' = {} /\ outcome' = "none"
    BY <1>1
  <2> QED
    BY <2>1, <2>2 DEF FirstRunFresh, SuccessIsFresh, Phases
<1>2. CASE HostStep
  <2>1. crashes' = 0 => crashes = 0
    <3>1. crashes' = crashes \/ crashes' = crashes + 1
      BY <1>2 DEF HostStep, SendStart
    <3> QED
      BY <1>0, <3>1
  <2>2. crashes' = 0 => UNCHANGED recovery \/ recovery' = "none"
    BY <1>0, <1>2 DEF HostStep, SendStart
  <2>3. UNCHANGED <<pc, runs, errs, did, outcome>>
    BY <1>2 DEF HostStep
  <2>4. CASE crashes' = 0
    <3>1. crashes = 0 /\ recovery = "none" /\ recovery' = "none"
      BY <2>1, <2>2, <2>4 DEF FirstRunFresh
    <3>2. runs' = 1 /\ errs' = "nil" => Phases'
      BY <1>2, <2>3, <2>4, <3>1, PhasesHostStep DEF FirstRunFresh, Phases
    <3>3. SuccessIsFresh'
      BY <1>2, <2>3, <2>4, <3>1, PhasesHostStep DEF FirstRunFresh, SuccessIsFresh, Fresh
    <3> QED
      BY <3>1, <3>2, <3>3 DEF FirstRunFresh
  <2>5. CASE crashes' # 0
    BY <2>5 DEF FirstRunFresh, SuccessIsFresh
  <2> QED
    BY <2>4, <2>5
<1>3. CASE Reconfigures \/ Upgrades \/ DecideRefresh \/ Refreshes \/ Stops \/ Conclude
           \/ RollsBack \/ Kill
  <2>1. UNCHANGED <<runs, crashes>> /\ (recovery = "none" => recovery' = "none")
    BY <1>3 DEF Reconfigures, Upgrades, Refreshes, Stops, RollsBack, SendStart, SendStop
  <2>2. pc # "idle" /\ runs # 0 /\ outcome = "none"
    BY <1>3 DEF Reconfigures, Upgrades, Refreshes, Stops, RollsBack, BinariesInstalled,
       ControlFits
  <2>3. errs' = "nil" => errs = "nil"
    BY <1>3 DEF Reconfigures, Upgrades, Refreshes, Stops, RollsBack
  <2>4. runs' = 1 /\ crashes' = 0 /\ errs' = "nil" => Phases'
    BY <1>3, <2>1, <2>3, PhasesStep DEF FirstRunFresh
  <2>5. SuccessIsFresh'
    <3>1. CASE Conclude
      BY <2>1, <2>2, <3>1 DEF FirstRunFresh, SuccessIsFresh, Phases, Fresh
    <3>2. CASE ~Conclude
      <4>1. outcome' # "ok"
        BY <1>3, <2>2, <3>2 DEF Reconfigures, Upgrades, Refreshes, Stops, RollsBack
      <4> QED
        BY <4>1 DEF SuccessIsFresh
    <3> QED
      BY <3>1, <3>2
  <2> QED
    BY <2>1, <2>2, <2>4, <2>5 DEF FirstRunFresh
<1> QED
  BY <1>1, <1>2, <1>3, Steps

-----------------------------------------------------------------------------
SuccessIInv ==
    /\ TypeOK
    /\ Rke2Stays
    /\ ControlFits
    /\ RestartIsOwed
    /\ Unblocked
    /\ BinariesInstalled
    /\ Configured
    /\ RestOfFileKept
    /\ DependencyConfigured
    /\ FirstRunFresh

LEMMA SuccessInit == Init => SuccessIInv
<1> SUFFICES ASSUME Init PROVE SuccessIInv
  OBVIOUS
<1> USE DEF Init, HostInit
<1>1. TypeOK /\ Rke2Stays
  BY InitTypeOK, OthersInit DEF OthersIInv
<1>2. ControlFits /\ RestartIsOwed /\ Unblocked
  BY DEF ControlFits, RollingBack, RestartIsOwed, Unblocked
<1>3. BinariesInstalled
  BY DEF BinariesInstalled, Upgraded, Restarting, Stopping
<1>4. Configured /\ RestOfFileKept /\ DependencyConfigured
  BY DEF Configured, RestOfFileKept, DependencyConfigured, SoFar, AfterDependency, Upgrading, Upgraded,
     Restarting, Stopping
<1>5. FirstRunFresh
  BY DEF FirstRunFresh, SuccessIsFresh
<1> QED
  BY <1>1, <1>2, <1>3, <1>4, <1>5 DEF SuccessIInv

LEMMA SuccessStep == SuccessIInv /\ [Next]_vars => SuccessIInv'
<1> SUFFICES ASSUME SuccessIInv, [Next]_vars PROVE SuccessIInv'
  OBVIOUS
<1>1. TypeOK' /\ Rke2Stays'
  BY NextTypeOK, Rke2StaysStep DEF SuccessIInv
<1>2. ControlFits' /\ RestartIsOwed' /\ Unblocked'
  BY ControlFitsStep, RestartIsOwedStep, UnblockedStep DEF SuccessIInv
<1>3. BinariesInstalled' /\ Configured' /\ RestOfFileKept'
  BY BinariesInstalledStep, ConfiguredStep, RestOfFileKeptStep DEF SuccessIInv
<1>4. DependencyConfigured' /\ FirstRunFresh'
  BY DependencyConfiguredStep, FirstRunFreshStep DEF SuccessIInv
<1> QED
  BY <1>1, <1>2, <1>3, <1>4 DEF SuccessIInv

\* A run is over before it has an outcome.
LEMMA OutcomeIsLast == ControlFits /\ outcome = "ok" => pc = "idle"
BY DEF ControlFits

\* A run that returns nil leaves the config file, the start type and the rke2
\* dependency as its environment asks, and without the script the rest of the file
\* as it was: any environments, any number of earlier runs, failed or killed.
THEOREM SuccessIsConfiguredCorrect == Spec => []SuccessIsConfigured
<1>1. SuccessIInv => SuccessIsConfigured
  <2> SUFFICES ASSUME SuccessIInv, outcome = "ok"
               PROVE  /\ cfgFile = WantedConfig(cfgFile)
                      /\ ~env.script => cfgFile.conn = snap.cfg.conn
                      /\ delayedStart = env.delayed
                      /\ "rke2Found" \in did => (HasDependency <=> env.dependency)
    BY DEF SuccessIsConfigured
  <2>1. /\ cfgFile = WantedConfig(cfgFile) /\ delayedStart = env.delayed
        /\ ~env.script => cfgFile.conn = snap.cfg.conn
    BY DEF SuccessIInv, Configured, RestOfFileKept, SoFar
  <2>2. ~TakenAway
    BY OutcomeIsLast DEF SuccessIInv, TakenAway, Restarting, Stopping
  <2>3. "rke2Found" \in did => (HasDependency <=> env.dependency)
    BY <2>2 DEF SuccessIInv, DependencyConfigured, SoFar, HasDependency
  <2> QED
    BY <2>1, <2>3
<1> QED
  BY SuccessInit, SuccessStep, <1>1, PTL DEF Spec

\* Unless it was told to skip the upgrade, a run that returns nil leaves the
\* embedded wins.exe where the service runs from, and a first run in both places.
THEOREM SuccessIsUpgradedCorrect == Spec => []SuccessIsUpgraded
<1>1. SuccessIInv => SuccessIsUpgraded
  BY DEF SuccessIInv, BinariesInstalled, SuccessIsUpgraded
<1> QED
  BY SuccessInit, SuccessStep, <1>1, PTL DEF Spec

\* A run that returns nil has started again what it stopped.
THEOREM SuccessIsRestartedCorrect == Spec => []SuccessIsRestarted
<1>1. SuccessIInv => SuccessIsRestarted
  BY OutcomeIsLast DEF SuccessIInv, RestartIsOwed, SuccessIsRestarted, Upgrading, RollingBack
<1> QED
  BY SuccessInit, SuccessStep, <1>1, PTL DEF Spec

\* When a first run returns nil and no process of the service has ended by itself,
\* a service it restarted runs, and with the config file as it is, in whatever
\* state the updater found it: unless Restart passed it over.
THEOREM SuccessIsFreshCorrect == Spec => []SuccessIsFresh
<1>1. SuccessIInv => SuccessIsFresh
  BY DEF SuccessIInv, FirstRunFresh
<1> QED
  BY SuccessInit, SuccessStep, <1>1, PTL DEF Spec

\* RefreshWinsService asks for the end of a service that a running rke2 depends on
\* only if it could not open rke2.
THEOREM RestartIsUnblockedCorrect == Spec => []RestartIsUnblocked
<1>1. SuccessIInv => RestartIsUnblocked
  BY DEF SuccessIInv, Unblocked, RestartIsUnblocked, BlockedByRke2, HasDependency
<1> QED
  BY SuccessInit, SuccessStep, <1>1, PTL DEF Spec
=============================================================================
