------------------------ MODULE UpdaterRollbackProofs -----------------------
(***************************************************************************)
(* RestoreInitialState: a rollback that returns nil has put the host back, *)
(* although its last part, RefreshWinsService, takes a dependency away and *)
(* puts it back once more, and rke2 may be installed or start meanwhile.   *)
(***************************************************************************)
EXTENDS UpdaterSuccessProofs

\* The list in the registry is the initial one, if that was not empty.
ListRestored == snap.deps # {} => rke2State # "Absent" /\ rke2Deps = snap.deps

ListTakenAway ==
    snap.deps # {} =>
        rke2State # "Absent" /\ Wins \in snap.deps /\ rke2Deps = snap.deps \ {Wins}

RollbackSoFar ==
    /\ pc \in {"restoreDeps", "truncateConfig", "restoreConfig"} /\ rerrs = "nil" =>
          delayedStart = snap.delayed
    /\ pc \in {"truncateConfig", "restoreConfig"} /\ rerrs = "nil" => ListRestored
    /\ pc = "restoreConfig" => newCfg = snap.cfg
    /\ ret = "restore" /\ pc # "idle" =>
          /\ cfgFile = snap.cfg
          /\ delayedStart = snap.delayed
          /\ IF TakenAway THEN ListTakenAway ELSE ListRestored

\* What a rollback without an error has restored stays so until the next run.
Restored ==
    "restored" \in did =>
        /\ pc = "idle"
        /\ cfgFile = snap.cfg
        /\ delayedStart = snap.delayed
        /\ ListRestored

-----------------------------------------------------------------------------
USE DEF scmVars, rke2Vars, hostVars, flowVars, runVars, errVars, updaterVars, vars,
    Goto, Finish, Start, BuildInitialState, UpdateConnectionInformation,
    UpdateConfigFromEnvVars, WriteConfig, ConfigureWinsDelayedStart,
    ConfigureRKE2ServiceDependency, UpgradeRancherWinsBinary, StageBinary, CopyTo,
    CopyToWindows, CopyToLocal, ConfirmBinaries, DecideRefresh, RefreshWinsService,
    RefreshReturns, PassOver, Restart, Stop, StopFails, StopReturns, WaitForStopped, Poll,
    StartService, AlreadyRunning, WaitForRunning, RestoreDependency, Conclude,
    RestoreDelayedStart, RestoreRke2Dependencies, TruncateConfig, RestoreConfig, Kill,
    WinsLoadsConfig, WinsReportsRunning, WinsEnds, WinsEndsUnexpectedly,
    RecoveryStartsWins, Rke2Installed, Rke2StartsOrStops

\* Writing the initial list back, taking rancher-wins out of it and putting it back.
LEMMA RestoringLists ==
    ASSUME TypeOK, rke2State # "Absent"
    PROVE  /\ CommitDependencies(snap.deps) /\ snap.deps # {} => rke2Deps' = snap.deps
           /\ CommitDependencies(WithoutDependency(rke2Deps)) => rke2Deps' = rke2Deps \ {Wins}
           /\ CommitDependencies(WithDependency(rke2Deps)) => rke2Deps' = rke2Deps \cup {Wins}
<1>1. rke2Deps \in SUBSET Dependencies /\ snap.deps \in SUBSET Dependencies
  BY DEF TypeOK, HostTypeOK, LocalTypeOK, Snapshots
<1>2. Slash \notin Dependencies
  BY NamesAssumption DEF Dependencies
<1>3. CommitDependencies(snap.deps) /\ snap.deps # {} => rke2Deps' = snap.deps
  BY <1>1, <1>2 DEF CommitDependencies
<1>4. CommitDependencies(WithoutDependency(rke2Deps)) => rke2Deps' = rke2Deps \ {Wins}
  BY <1>1, <1>2 DEF CommitDependencies, WithoutDependency
<1>5. CommitDependencies(WithDependency(rke2Deps)) => rke2Deps' = rke2Deps \cup {Wins}
  BY <1>1, <1>2, NamesAssumption DEF CommitDependencies, WithDependency
<1> QED
  BY <1>3, <1>4, <1>5

\* The host does not touch a list that was not empty.
LEMMA HostKeepsList ==
    ASSUME HostStep
    PROVE  /\ UNCHANGED <<cfgFile, delayedStart>>
           /\ ListRestored => ListRestored'
           /\ ListTakenAway => ListTakenAway'
BY DEF HostStep, ListRestored, ListTakenAway

LEMMA RollbackWrites ==
    ASSUME TypeOK, ControlFits, RollbackKeepsOthers, RollbackSoFar, RollsBack
    PROVE  RollbackSoFar'
<1> USE DEF RollbackSoFar, ListRestored
<1>1. ret = "run" /\ snap' = snap
  BY DEF RollsBack, ControlFits, Restarting, Stopping, TypeOK, ControlTypeOK
<1>2. CASE RestoreDelayedStart
  BY <1>1, <1>2
<1>3. CASE RestoreRke2Dependencies
  <2>1. rke2State = "Absent" => snap.deps = {}
    BY <1>3 DEF RollbackKeepsOthers
  <2>2. rerrs' = "nil" => rerrs = "nil" /\ ListRestored'
    BY <1>1, <1>3, <2>1, RestoringLists
  <2> QED
    BY <1>1, <1>3, <2>2
<1>4. CASE TruncateConfig
  BY <1>1, <1>4
<1>5. CASE RestoreConfig
  <2>1. ~TakenAway'
    BY <1>5 DEF TakenAway, Restarting, Stopping
  <2>2. CASE rerrs' = "nil"
    BY <1>1, <1>5, <2>1, <2>2
  <2>3. CASE rerrs' # "nil"
    BY <1>5, <2>3
  <2> QED
    BY <2>2, <2>3
<1> QED
  BY <1>2, <1>3, <1>4, <1>5 DEF RollsBack

\* The refresh at the end of the rollback.
LEMMA RollbackRefreshes ==
    ASSUME TypeOK, Rke2Stays, RollbackSoFar, Refreshes \/ Stops,
           ret = "restore", ret' = "restore"
    PROVE  /\ UNCHANGED <<snap, cfgFile, delayedStart>>
           /\ pc' # "idle" => IF TakenAway' THEN ListTakenAway' ELSE ListRestored'
           /\ "restored" \in did' => "restored" \in did \/ ListRestored'
<1>t. after \in {"copy", "start"}
  BY DEF TypeOK, ControlTypeOK
<1>0. UNCHANGED <<snap, cfgFile, delayedStart, rke2State>> /\ pc # "idle"
  BY DEF Refreshes, Stops
<1>1. IF TakenAway THEN ListTakenAway ELSE ListRestored
  BY <1>0 DEF RollbackSoFar
<1>2. CASE RefreshWinsService
  <2>1. ListRestored
    BY <1>1, <1>2 DEF TakenAway, Restarting, Stopping
  <2>2. CASE UNCHANGED rke2Deps
    <3>1. ListRestored'
      BY <1>0, <2>1, <2>2 DEF ListRestored
    <3>2. pc' # "idle" => ~TakenAway'
      BY <1>2, <2>2, NamesAssumption DEF TakenAway, Restarting, Stopping, HasDependency,
         CommitDependencies, WithoutDependency
    <3> QED
      BY <1>0, <3>1, <3>2
  <2>3. CASE /\ HasDependency /\ CommitDependencies(WithoutDependency(rke2Deps))
             /\ depRemoved' = {Wins} /\ pc' = "restart" /\ UNCHANGED did
    <3>1. TakenAway'
      BY <2>3 DEF TakenAway, Restarting
    <3>2. ListTakenAway'
      BY <1>0, <2>1, <2>3, RestoringLists DEF ListRestored, ListTakenAway, HasDependency
    <3> QED
      BY <1>0, <2>3, <3>1, <3>2
  <2>4. CASE pc' = "idle" /\ UNCHANGED did
    BY <1>0, <2>4
  <2> QED
    BY <1>2, <2>2, <2>3, <2>4
<1>3. CASE RestoreDependency
  <2>1. ListTakenAway /\ ~TakenAway'
    BY <1>1, <1>3 DEF TakenAway, Restarting, Stopping, Rke2Stays
  <2>2. CASE CommitDependencies(WithDependency(rke2Deps))
    <3>1. ListRestored'
      BY <1>0, <2>1, <2>2, RestoringLists DEF ListRestored, ListTakenAway
    <3> QED
      BY <1>0, <2>1, <3>1
  <2>3. CASE pc' = "idle" /\ ("restored" \in did' => "restored" \in did)
    BY <1>0, <2>3
  <2> QED
    BY <1>3, <2>2, <2>3
<1>4. CASE (Refreshes \/ Stops) /\ ~RefreshWinsService /\ ~RestoreDependency
  <2>1. UNCHANGED <<rke2Deps, depRemoved>>
    BY <1>4 DEF Refreshes, Stops
  <2>2. pc' # "idle" => (TakenAway' <=> TakenAway)
    BY <1>4, <1>t DEF Refreshes, Stops, TakenAway, Restarting, Stopping
  <2>3. "restored" \in did' => "restored" \in did \/ ~TakenAway
    BY <1>4 DEF Refreshes, Stops, TakenAway
  <2> QED
    BY <1>0, <1>1, <2>1, <2>2, <2>3 DEF ListRestored, ListTakenAway
<1> QED
  BY <1>2, <1>3, <1>4

LEMMA RollbackSoFarStep ==
    TypeOK /\ ControlFits /\ Rke2Stays /\ RollbackKeepsOthers /\ RollbackSoFar /\ [Next]_vars
        => RollbackSoFar'
<1> SUFFICES ASSUME TypeOK, ControlFits, Rke2Stays, RollbackKeepsOthers, RollbackSoFar,
                    [Next]_vars
             PROVE  RollbackSoFar'
  OBVIOUS
<1>t. ret \in {"run", "restore"}
  BY DEF TypeOK, ControlTypeOK
<1>1. CASE Start \/ Reconfigures \/ Upgrades \/ DecideRefresh \/ Conclude \/ Kill
  <2>1. pc' \notin {"restoreDeps", "truncateConfig", "restoreConfig"}
    BY <1>1 DEF Reconfigures, Upgrades
  <2>2. ret' # "restore" \/ pc' = "idle"
    BY <1>t, <1>1 DEF Reconfigures, Upgrades, ControlFits, Restarting, Stopping
  <2> QED
    BY <2>1, <2>2 DEF RollbackSoFar
<1>2. CASE RollsBack
  BY <1>2, RollbackWrites
<1>3. CASE Refreshes \/ Stops
  <2>1. pc' \notin {"restoreDeps", "truncateConfig", "restoreConfig"} /\ ret' = ret /\ pc # "idle"
    BY <1>3 DEF Refreshes, Stops
  <2> QED
    BY <1>3, <2>1, RollbackRefreshes DEF RollbackSoFar
<1>4. CASE HostStep
  <2>1. UNCHANGED <<pc, ret, rerrs, newCfg, snap>> /\ (TakenAway' <=> TakenAway)
    BY <1>4 DEF HostStep, TakenAway, Restarting, Stopping
  <2> QED
    BY <1>4, <2>1, HostKeepsList DEF RollbackSoFar
<1> QED
  BY <1>1, <1>2, <1>3, <1>4, Steps

LEMMA RestoredStep ==
    TypeOK /\ ControlFits /\ Rke2Stays /\ RollbackSoFar /\ Restored /\ [Next]_vars => Restored'
<1> SUFFICES ASSUME TypeOK, ControlFits, Rke2Stays, RollbackSoFar, Restored, [Next]_vars,
                    "restored" \in did'
             PROVE  /\ pc' = "idle"
                    /\ cfgFile' = snap'.cfg
                    /\ delayedStart' = snap'.delayed
                    /\ ListRestored'
  BY DEF Restored
<1>1. CASE HostStep
  <2>1. UNCHANGED <<pc, did, snap>>
    BY <1>1 DEF HostStep
  <2> QED
    BY <1>1, <2>1, HostKeepsList DEF Restored
<1>2. CASE Refreshes \/ Stops
  <2>1. "restored" \notin did
    BY <1>2 DEF Refreshes, Stops, Restored
  <2>2. ret = "restore" /\ ret' = "restore" /\ pc' = "idle" /\ pc # "idle"
    BY <1>2, <2>1 DEF Refreshes, Stops
  <2> QED
    BY <1>2, <2>1, <2>2, RollbackRefreshes DEF RollbackSoFar
<1>3. CASE Start \/ Reconfigures \/ Upgrades \/ DecideRefresh \/ Conclude \/ RollsBack \/ Kill
  <2>1. CASE Start
    BY <2>1
  <2>2. CASE ~Start
    <3>1. pc # "idle" /\ "restored" \notin did
      BY <1>3, <2>2 DEF Reconfigures, Upgrades, RollsBack, Restored
    <3> QED
      BY <1>3, <2>2, <3>1 DEF Reconfigures, Upgrades, RollsBack
  <2> QED
    BY <2>1, <2>2
<1> QED
  BY <1>1, <1>2, <1>3, Steps

-----------------------------------------------------------------------------
RollbackIInv ==
    /\ OthersIInv
    /\ Rke2Stays
    /\ ControlFits
    /\ RollbackSoFar
    /\ Restored

LEMMA RollbackInit == Init => RollbackIInv
<1> SUFFICES ASSUME Init PROVE RollbackIInv
  OBVIOUS
<1>1. OthersIInv /\ Rke2Stays
  BY OthersInit
<1>2. ControlFits
  BY SuccessInit DEF SuccessIInv
<1>3. RollbackSoFar /\ Restored
  BY DEF Init, RollbackSoFar, Restored
<1> QED
  BY <1>1, <1>2, <1>3 DEF RollbackIInv

LEMMA RollbackStep == RollbackIInv /\ [Next]_vars => RollbackIInv'
<1> SUFFICES ASSUME RollbackIInv, [Next]_vars PROVE RollbackIInv'
  OBVIOUS
<1>1. OthersIInv' /\ Rke2Stays'
  BY OthersStep DEF RollbackIInv
<1>2. ControlFits' /\ RollbackSoFar' /\ Restored'
  BY ControlFitsStep, RollbackSoFarStep, RestoredStep DEF RollbackIInv, OthersIInv
<1> QED
  BY <1>1, <1>2 DEF RollbackIInv

\* RestoreInitialState returning nil means that the config file, the start type
\* and any list of dependencies that was not empty are those of InitialState.
THEOREM RollbackIsFaithfulCorrect == Spec => []RollbackIsFaithful
<1>1. RollbackIInv => RollbackIsFaithful
  BY DEF RollbackIInv, Restored, ListRestored, RollbackIsFaithful
<1> QED
  BY RollbackInit, RollbackStep, <1>1, PTL DEF Spec
=============================================================================
