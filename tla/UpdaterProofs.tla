--------------------------- MODULE UpdaterProofs ---------------------------
(***************************************************************************)
(* What holds of Updater for every value of its constants: any set of      *)
(* other dependencies, environments, numbers of runs, polls and crashes.   *)
(***************************************************************************)
EXTENDS Updater, TLAPS

USE DEF scmVars, rke2Vars, hostVars, flowVars, runVars, errVars, updaterVars, vars

-----------------------------------------------------------------------------
(* Types.                                                                  *)

\* The counters, apart from everything else.
LEMMA CountBounds ==
    /\ 0 \in 0..MaxPolls
    /\ \A n \in 0..MaxPolls : n < MaxPolls => n + 1 \in 0..MaxPolls
    /\ \A n \in 0..MaxRuns : n < MaxRuns => n + 1 \in 0..MaxRuns
BY BoundsAssumption

LEMMA InitTypeOK == Init => TypeOK
<1> SUFFICES ASSUME Init PROVE TypeOK
  OBVIOUS
<1> USE DEF Init, HostInit
<1>1. cfgFile \in Configs /\ loaded \in Configs \cup {NotLoaded}
  BY DEF Configs, Flags
<1>2. exe \in [Paths -> Contents]
  BY DEF Paths, Contents
<1>3. winsState \in ServiceStates /\ crashes \in 0..MaxCrashes /\ runs \in 0..MaxRuns
  BY WinsAtFirstAssumption, CrashesAssumption, BoundsAssumption DEF ServiceStates
<1>4. delayedStart \in BOOLEAN /\ recovery \in {"none", "due"}
  OBVIOUS
<1>5. HostTypeOK
  BY <1>1, <1>2, <1>3, <1>4 DEF HostTypeOK
<1>6. snap \in Snapshots
  BY <1>1, <1>4 DEF Snapshot, Snapshots
<1>7. ControlTypeOK
  BY DEF ControlTypeOK, Labels, Outcomes
<1>8. LocalTypeOK
  BY <1>1, <1>3, <1>6, BoundsAssumption DEF LocalTypeOK, Errors
<1> QED
  BY <1>5, <1>7, <1>8 DEF TypeOK

\* A list that names services and "/" only leaves names of services behind.
LEMMA CommitType ==
    ASSUME TypeOK, NEW list \in SUBSET (Dependencies \cup {Slash}),
           CommitDependencies(list)
    PROVE  rke2Deps' \in SUBSET Dependencies
BY DEF CommitDependencies, TypeOK, HostTypeOK

LEMMA ListTypes ==
    ASSUME TypeOK
    PROVE  /\ WithoutDependency(rke2Deps) \in SUBSET (Dependencies \cup {Slash})
           /\ WithDependency(rke2Deps) \in SUBSET (Dependencies \cup {Slash})
           /\ rke2Deps \in SUBSET (Dependencies \cup {Slash})
           /\ snap.deps \in SUBSET (Dependencies \cup {Slash})
           /\ WantedDependencies \in SUBSET (Dependencies \cup {Slash})
BY DEF WantedDependencies, WithoutDependency, WithDependency, Dependencies, TypeOK, HostTypeOK, LocalTypeOK, Snapshots

LEMMA WantedConfigType == TypeOK => WantedConfig(cfgFile) \in Configs
<1> SUFFICES ASSUME TypeOK PROVE WantedConfig(cfgFile) \in Configs
  OBVIOUS
<1>1. Flag(env.debug) \in Flags /\ Flag(env.strict) \in Flags
  BY DEF Flag, Flags
<1>2. cfgFile.strict \in Flags /\ cfgFile.conn \in {"none", "old", "new"}
  BY DEF TypeOK, HostTypeOK, Configs
<1> QED
  BY <1>1, <1>2 DEF WantedConfig, Configs

LEMMA ScriptType == TypeOK /\ ScriptEdits => cfgFile' \in Configs
BY DEF ScriptEdits, TypeOK, HostTypeOK, Configs

LEMMA HostTypeStep == TypeOK /\ [Next]_vars => HostTypeOK'
<1> SUFFICES ASSUME TypeOK, [Next]_vars PROVE HostTypeOK'
  OBVIOUS
<1> USE DEF TypeOK, HostTypeOK
<1>1. CASE Start \/ BuildInitialState \/ UpgradeRancherWinsBinary \/ DecideRefresh \/ Restart \/ WaitForStopped
          \/ AlreadyRunning \/ WaitForRunning \/ Conclude \/ UNCHANGED hostVars
  <2>1. UNCHANGED hostVars
    BY <1>1 DEF Start, BuildInitialState, UpgradeRancherWinsBinary, DecideRefresh, Restart,
       WaitForStopped, AlreadyRunning, WaitForRunning, Conclude
  <2> QED
    BY <2>1
<1>2. CASE UpdateConnectionInformation
  <2>1. cfgFile' \in Configs
    BY <1>2, ScriptType DEF UpdateConnectionInformation, Configs
  <2> QED
    BY <1>2, <2>1 DEF UpdateConnectionInformation
<1>3. CASE UpdateConfigFromEnvVars
  <2>1. EmptyConfig \in Configs
    BY DEF EmptyConfig, Configs, Flags
  <2>2. cfgFile' = EmptyConfig \/ cfgFile' = cfgFile
    BY <1>3 DEF UpdateConfigFromEnvVars
  <2>3. cfgFile' \in Configs
    BY <2>1, <2>2
  <2> QED
    BY <1>3, <2>3 DEF UpdateConfigFromEnvVars
<1>4. CASE WriteConfig
  BY <1>4 DEF WriteConfig, LocalTypeOK
<1>5. CASE ConfigureWinsDelayedStart
  <2>1. delayedStart' \in BOOLEAN
    BY <1>5, EnvironmentAssumption DEF ConfigureWinsDelayedStart, LocalTypeOK
  <2> QED
    BY <1>5, <2>1 DEF ConfigureWinsDelayedStart
<1>6. CASE ConfigureRKE2ServiceDependency
  <2>1. rke2Deps' \in SUBSET Dependencies
    BY <1>6, CommitType, ListTypes DEF ConfigureRKE2ServiceDependency
  <2> QED
    BY <1>6, <2>1 DEF ConfigureRKE2ServiceDependency
<1>7. CASE StageBinary
  BY <1>7 DEF StageBinary, Paths, Contents
<1>8. CASE CopyToWindows
  BY <1>8 DEF CopyToWindows, CopyTo, Paths, Contents
<1>9. CASE CopyToLocal
  BY <1>9 DEF CopyToLocal, CopyTo, Paths, Contents
<1>10. CASE ConfirmBinaries
  BY <1>10 DEF ConfirmBinaries, Paths, Contents
<1>11. CASE RefreshWinsService
  <2>1. rke2Deps' \in SUBSET Dependencies
    BY <1>11, CommitType, ListTypes DEF RefreshWinsService
  <2> QED
    BY <1>11, <2>1 DEF RefreshWinsService
<1>12. CASE Stop
  BY <1>12 DEF Stop, SendStop, ServiceStates
<1>13. CASE StartService
  BY <1>13 DEF StartService, SendStart, ServiceStates
<1>14. CASE RestoreDependency
  <2>1. rke2Deps' \in SUBSET Dependencies
    BY <1>14, CommitType, ListTypes DEF RestoreDependency
  <2> QED
    BY <1>14, <2>1 DEF RestoreDependency
<1>15. CASE RestoreDelayedStart
  <2>1. delayedStart' \in BOOLEAN
    BY <1>15 DEF RestoreDelayedStart, LocalTypeOK, Snapshots
  <2> QED
    BY <1>15, <2>1 DEF RestoreDelayedStart
<1>16. CASE RestoreRke2Dependencies
  <2>1. rke2Deps' \in SUBSET Dependencies
    BY <1>16, CommitType, ListTypes DEF RestoreRke2Dependencies
  <2> QED
    BY <1>16, <2>1 DEF RestoreRke2Dependencies
<1>17. CASE TruncateConfig
  BY <1>17 DEF TruncateConfig, EmptyConfig, Configs, Flags
<1>18. CASE RestoreConfig
  BY <1>18 DEF RestoreConfig, LocalTypeOK
<1>19. CASE Kill
  <2>1. cfgFile' \in Configs
    <3>1. EmptyConfig \in Configs
      BY DEF EmptyConfig, Configs, Flags
    <3>2. cfgFile' = cfgFile \/ ScriptEdits \/ cfgFile' = EmptyConfig
      BY <1>19 DEF Kill
    <3> QED
      BY <3>1, <3>2, ScriptType
  <2>2. exe' \in [Paths -> Contents]
    BY <1>19 DEF Kill, Paths, Contents
  <2> QED
    BY <1>19, <2>1, <2>2 DEF Kill
<1>20. CASE WinsLoadsConfig
  BY <1>20 DEF WinsLoadsConfig
<1>21. CASE WinsReportsRunning
  BY <1>21 DEF WinsReportsRunning, ServiceStates
<1>22. CASE WinsEnds
  BY <1>22 DEF WinsEnds, ServiceStates
<1>23. CASE WinsEndsUnexpectedly
  BY <1>23, CrashesAssumption DEF WinsEndsUnexpectedly, ServiceStates
<1>24. CASE RecoveryStartsWins
  BY <1>24 DEF RecoveryStartsWins, SendStart, ServiceStates
<1>25. CASE Rke2Installed
  BY <1>25 DEF Rke2Installed, Dependencies
<1>26. CASE Rke2StartsOrStops
  BY <1>26 DEF Rke2StartsOrStops
<1> QED
  BY <1>1, <1>2, <1>3, <1>4, <1>5, <1>6, <1>7, <1>8, <1>9, <1>10, <1>11, <1>12, <1>13,
     <1>14, <1>15, <1>16, <1>17, <1>18, <1>19, <1>20, <1>21, <1>22, <1>23, <1>24, <1>25,
     <1>26
  DEF Next, UpdaterStep

LEMMA ControlTypeStep == TypeOK /\ [Next]_vars => ControlTypeOK'
<1> SUFFICES ASSUME TypeOK, [Next]_vars PROVE ControlTypeOK'
  OBVIOUS
<1>1. CASE Start
  BY <1>1 DEF Start, Goto, Finish, Labels, Outcomes, TypeOK, ControlTypeOK
<1>2. CASE BuildInitialState
  BY <1>2 DEF BuildInitialState, Goto, Finish, Labels, Outcomes, TypeOK, ControlTypeOK
<1>3. CASE UpdateConnectionInformation
  BY <1>3 DEF UpdateConnectionInformation, Goto, Finish, Labels, Outcomes, TypeOK,
     ControlTypeOK
<1>4. CASE UpdateConfigFromEnvVars
  BY <1>4 DEF UpdateConfigFromEnvVars, Goto, Finish, Labels, Outcomes, TypeOK,
     ControlTypeOK
<1>5. CASE WriteConfig
  BY <1>5 DEF WriteConfig, Goto, Finish, Labels, Outcomes, TypeOK, ControlTypeOK
<1>6. CASE ConfigureWinsDelayedStart
  BY <1>6 DEF ConfigureWinsDelayedStart, Goto, Finish, Labels, Outcomes, TypeOK,
     ControlTypeOK
<1>7. CASE ConfigureRKE2ServiceDependency
  BY <1>7 DEF ConfigureRKE2ServiceDependency, Goto, Finish, Labels, Outcomes, TypeOK,
     ControlTypeOK
<1>8. CASE UpgradeRancherWinsBinary
  BY <1>8 DEF UpgradeRancherWinsBinary, Goto, Finish, Labels, Outcomes, TypeOK,
     ControlTypeOK
<1>9. CASE StageBinary
  BY <1>9 DEF StageBinary, Goto, Finish, Labels, Outcomes, TypeOK, ControlTypeOK
<1>10. CASE CopyToWindows
  BY <1>10 DEF CopyToWindows, CopyTo, Goto, Finish, Labels, Outcomes, TypeOK,
     ControlTypeOK
<1>11. CASE CopyToLocal
  BY <1>11 DEF CopyToLocal, CopyTo, Goto, Finish, Labels, Outcomes, TypeOK,
     ControlTypeOK
<1>12. CASE ConfirmBinaries
  BY <1>12 DEF ConfirmBinaries, Goto, Finish, Labels, Outcomes, TypeOK, ControlTypeOK
<1>13. CASE DecideRefresh
  BY <1>13 DEF DecideRefresh, Goto, Finish, Labels, Outcomes, TypeOK, ControlTypeOK
<1>14. CASE RefreshWinsService
  BY <1>14 DEF RefreshWinsService, RefreshReturns, Goto, Finish, Labels, Outcomes,
     TypeOK, ControlTypeOK
<1>15. CASE Restart
  BY <1>15 DEF Restart, RefreshReturns, Goto, Finish, Labels, Outcomes, TypeOK,
     ControlTypeOK
<1>16. CASE Stop
  BY <1>16 DEF Stop, StopFails, StopReturns, RefreshReturns, Goto, Finish, Labels,
     Outcomes, TypeOK, ControlTypeOK
<1>17. CASE WaitForStopped
  BY <1>17 DEF WaitForStopped, Poll, StopFails, StopReturns, RefreshReturns, Goto,
     Finish, Labels, Outcomes, TypeOK, ControlTypeOK
<1>18. CASE StartService
  BY <1>18 DEF StartService, RefreshReturns, Goto, Finish, Labels, Outcomes, TypeOK,
     ControlTypeOK
<1>19. CASE AlreadyRunning
  BY <1>19 DEF AlreadyRunning, RefreshReturns, Goto, Finish, Labels, Outcomes, TypeOK,
     ControlTypeOK
<1>20. CASE WaitForRunning
  BY <1>20 DEF WaitForRunning, Poll, RefreshReturns, Goto, Finish, Labels, Outcomes,
     TypeOK, ControlTypeOK
<1>21. CASE RestoreDependency
  BY <1>21 DEF RestoreDependency, RefreshReturns, Goto, Finish, Labels, Outcomes,
     TypeOK, ControlTypeOK
<1>22. CASE Conclude
  BY <1>22 DEF Conclude, Goto, Finish, Labels, Outcomes, TypeOK, ControlTypeOK
<1>23. CASE RestoreDelayedStart
  BY <1>23 DEF RestoreDelayedStart, Goto, Finish, Labels, Outcomes, TypeOK,
     ControlTypeOK
<1>24. CASE RestoreRke2Dependencies
  BY <1>24 DEF RestoreRke2Dependencies, Goto, Finish, Labels, Outcomes, TypeOK,
     ControlTypeOK
<1>25. CASE TruncateConfig
  BY <1>25 DEF TruncateConfig, Goto, Finish, Labels, Outcomes, TypeOK, ControlTypeOK
<1>26. CASE RestoreConfig
  BY <1>26 DEF RestoreConfig, Goto, Finish, Labels, Outcomes, TypeOK, ControlTypeOK
<1>27. CASE Kill
  BY <1>27 DEF Kill, Goto, Finish, Labels, Outcomes, TypeOK, ControlTypeOK
<1>28. CASE UNCHANGED updaterVars
  BY <1>28 DEF TypeOK, ControlTypeOK
<1> QED
  BY <1>1, <1>2, <1>3, <1>4, <1>5, <1>6, <1>7, <1>8, <1>9, <1>10, <1>11, <1>12, <1>13,
     <1>14, <1>15, <1>16, <1>17, <1>18, <1>19, <1>20, <1>21, <1>22, <1>23, <1>24, <1>25,
     <1>26, <1>27, <1>28
  DEF Next, UpdaterStep

\* The history and the errors RefreshWinsService returns with are of their types.
LEMMA RefreshReturnsType ==
    ASSUME LocalTypeOK, NEW err \in Errors, NEW deeds \in SUBSET Deeds,
           RefreshReturns(err, deeds)
    PROVE  errs' \in Errors /\ did' \in SUBSET Deeds
BY DEF RefreshReturns, LocalTypeOK, Deeds

LEMMA StopFailsType ==
    ASSUME LocalTypeOK, StopFails
    PROVE  errs' \in Errors /\ did' \in SUBSET Deeds
<1>1. "err" \in Errors
  BY DEF Errors
<1> QED
  BY <1>1, RefreshReturnsType DEF StopFails, LocalTypeOK

LEMMA PollType ==
    ASSUME LocalTypeOK, NEW desired, NEW label, Poll(desired, label)
    PROVE  polls' \in 0..MaxPolls /\ errs' = errs /\ did' = did
<1>1. polls \in 0..MaxPolls
  BY DEF LocalTypeOK
<1>2. polls < MaxPolls /\ polls' = polls + 1 /\ UNCHANGED <<errs, did>>
  BY DEF Poll
<1> QED
  BY <1>1, <1>2, CountBounds

LEMMA LocalTypeStep == TypeOK /\ [Next]_vars => LocalTypeOK'
<1> SUFFICES ASSUME TypeOK, [Next]_vars PROVE LocalTypeOK'
  OBVIOUS
<1> USE DEF TypeOK, LocalTypeOK
<1>e. /\ "nil" \in Errors /\ "err" \in Errors
      /\ \A deed \in Deeds : did \cup {deed} \in SUBSET Deeds
      /\ "stopped" \in Deeds /\ "stateUnknown" \in Deeds /\ "restarted" \in Deeds
      /\ "passedOver" \in Deeds
  BY DEF Errors, Deeds
<1>1. CASE Start
  <2>1. runs' \in 0..MaxRuns /\ polls' \in 0..MaxPolls
    BY <1>1, CountBounds DEF Start
  <2>2. snap' \in Snapshots
    BY <1>1 DEF Start, HostTypeOK, Snapshot, Snapshots
  <2>3. env' \in Environments /\ newCfg' \in Configs
    BY <1>1 DEF Start, HostTypeOK
  <2> QED
    BY <1>1, <2>1, <2>2, <2>3 DEF Start, Errors
<1>2. CASE BuildInitialState
  <2>1. Snapshot \in Snapshots
    BY DEF HostTypeOK, Snapshot, Snapshots
  <2>2. snap' \in Snapshots
    BY <1>2, <2>1 DEF BuildInitialState
  <2>3. did' \in SUBSET Deeds
    BY <1>2 DEF BuildInitialState, Deeds
  <2> QED
    BY <1>2, <2>2, <2>3 DEF BuildInitialState
<1>3. CASE UpdateConnectionInformation
  BY <1>3 DEF UpdateConnectionInformation
<1>4. CASE UpdateConfigFromEnvVars
  BY <1>4, WantedConfigType DEF UpdateConfigFromEnvVars, Errors
<1>5. CASE WriteConfig
  BY <1>5 DEF WriteConfig, Errors
<1>6. CASE ConfigureWinsDelayedStart
  BY <1>6 DEF ConfigureWinsDelayedStart, Errors
<1>7. CASE ConfigureRKE2ServiceDependency
  BY <1>7 DEF ConfigureRKE2ServiceDependency, Errors, Deeds
<1>8. CASE UpgradeRancherWinsBinary
  BY <1>8 DEF UpgradeRancherWinsBinary
<1>9. CASE StageBinary
  BY <1>9 DEF StageBinary
<1>10. CASE CopyToWindows
  BY <1>10 DEF CopyToWindows, CopyTo
<1>11. CASE CopyToLocal
  BY <1>11 DEF CopyToLocal, CopyTo
<1>12. CASE ConfirmBinaries
  BY <1>12 DEF ConfirmBinaries
<1>13. CASE DecideRefresh
  BY <1>13 DEF DecideRefresh
<1>14. CASE RefreshWinsService
  <2>1. errs' \in Errors /\ did' \in SUBSET Deeds
    BY <1>14, <1>e, RefreshReturnsType DEF RefreshWinsService
  <2> QED
    BY <1>14, <2>1 DEF RefreshWinsService
<1>15. CASE Restart
  <2>1. errs' \in Errors /\ did' \in SUBSET Deeds
    BY <1>15, <1>e, RefreshReturnsType DEF Restart, PassOver
  <2> QED
    BY <1>15, <2>1 DEF Restart
<1>16. CASE Stop
  <2>1. errs' \in Errors /\ did' \in SUBSET Deeds
    BY <1>16, <1>e, StopFailsType DEF Stop
  <2>2. polls' \in 0..MaxPolls
    BY <1>16, CountBounds DEF Stop
  <2> QED
    BY <1>16, <2>1, <2>2 DEF Stop
<1>17. CASE WaitForStopped
  <2>1. errs' \in Errors /\ did' \in SUBSET Deeds
    BY <1>17, <1>e, StopFailsType, PollType DEF WaitForStopped
  <2>2. polls' \in 0..MaxPolls
    BY <1>17, CountBounds, PollType DEF WaitForStopped
  <2> QED
    BY <1>17, <2>1, <2>2 DEF WaitForStopped
<1>18. CASE StartService
  <2>1. errs' \in Errors /\ did' \in SUBSET Deeds
    BY <1>18, <1>e, RefreshReturnsType DEF StartService
  <2>2. polls' \in 0..MaxPolls
    BY <1>18, CountBounds DEF StartService
  <2> QED
    BY <1>18, <2>1, <2>2 DEF StartService
<1>19. CASE AlreadyRunning
  <2>1. errs' \in Errors /\ did' \in SUBSET Deeds
    BY <1>19, <1>e, RefreshReturnsType DEF AlreadyRunning
  <2> QED
    BY <1>19, <2>1 DEF AlreadyRunning
<1>20. CASE WaitForRunning
  <2>1. errs' \in Errors /\ did' \in SUBSET Deeds
    BY <1>20, <1>e, RefreshReturnsType, PollType DEF WaitForRunning
  <2>2. polls' \in 0..MaxPolls
    BY <1>20, CountBounds, PollType DEF WaitForRunning
  <2> QED
    BY <1>20, <2>1, <2>2 DEF WaitForRunning
<1>21. CASE RestoreDependency
  <2>1. errs' \in Errors /\ did' \in SUBSET Deeds
    BY <1>21, <1>e, RefreshReturnsType DEF RestoreDependency
  <2> QED
    BY <1>21, <2>1 DEF RestoreDependency
<1>22. CASE Conclude
  BY <1>22 DEF Conclude, Deeds
<1>23. CASE RestoreDelayedStart
  BY <1>23 DEF RestoreDelayedStart, Errors
<1>24. CASE RestoreRke2Dependencies
  BY <1>24 DEF RestoreRke2Dependencies, Errors
<1>25. CASE TruncateConfig
  BY <1>25 DEF TruncateConfig, Errors, Snapshots
<1>26. CASE RestoreConfig
  BY <1>26 DEF RestoreConfig, Errors
<1>27. CASE Kill
  BY <1>27 DEF Kill
<1>28. CASE UNCHANGED updaterVars
  BY <1>28
<1> QED
  BY <1>1, <1>2, <1>3, <1>4, <1>5, <1>6, <1>7, <1>8, <1>9, <1>10, <1>11, <1>12, <1>13,
     <1>14, <1>15, <1>16, <1>17, <1>18, <1>19, <1>20, <1>21, <1>22, <1>23, <1>24, <1>25,
     <1>26, <1>27, <1>28
  DEF Next, UpdaterStep

LEMMA NextTypeOK == TypeOK /\ [Next]_vars => TypeOK'
BY HostTypeStep, ControlTypeStep, LocalTypeStep DEF TypeOK

\* Every variable has its type, whatever fails and whenever the updater is killed.
THEOREM TypeCorrect == Spec => []TypeOK
BY InitTypeOK, NextTypeOK, PTL DEF Spec

-----------------------------------------------------------------------------
(* The dependencies on other services.                                     *)

OthersIInv == TypeOK /\ RollbackKeepsOthers

\* What the updater writes keeps the other services, if it writes anything.
LEMMA CommitKeepsOthers ==
    ASSUME NEW list, list = {} \/ list \ {Wins, Slash} = rke2Deps \ {Wins},
           rke2Deps \subseteq Dependencies,
           CommitDependencies(list)
    PROVE  rke2Deps' \ {Wins} = rke2Deps \ {Wins}
BY NamesAssumption DEF CommitDependencies, Dependencies

LEMMA ListsKeepOthers ==
    ASSUME rke2Deps \subseteq Dependencies
    PROVE  /\ WithoutDependency(rke2Deps) \ {Wins, Slash} = rke2Deps \ {Wins}
           /\ WithDependency(rke2Deps) \ {Wins, Slash} = rke2Deps \ {Wins}
           /\ rke2Deps \ {Wins, Slash} = rke2Deps \ {Wins}
           /\ WantedDependencies \ {Wins, Slash} = rke2Deps \ {Wins}
BY NamesAssumption DEF WantedDependencies, WithoutDependency, WithDependency, Dependencies

\* A step of anyone but rke2's installer.
LEMMA StepKeepsOthers ==
    ASSUME OthersIInv, [Next]_vars, ~Rke2Installed
    PROVE  rke2Deps' \ {Wins} = rke2Deps \ {Wins}
<1>0. rke2Deps \subseteq Dependencies
  BY DEF OthersIInv, TypeOK, HostTypeOK
<1>1. CASE ConfigureRKE2ServiceDependency
  BY <1>0, <1>1, CommitKeepsOthers, ListsKeepOthers DEF ConfigureRKE2ServiceDependency
<1>2. CASE RefreshWinsService
  BY <1>0, <1>2, CommitKeepsOthers, ListsKeepOthers DEF RefreshWinsService
<1>3. CASE RestoreDependency
  BY <1>0, <1>3, CommitKeepsOthers, ListsKeepOthers DEF RestoreDependency
<1>4. CASE RestoreRke2Dependencies
  <2>1. snap.deps = {} \/ snap.deps \ {Wins} = rke2Deps \ {Wins}
    BY <1>4 DEF RestoreRke2Dependencies, OthersIInv, RollbackKeepsOthers
  <2>2. snap.deps \subseteq Dependencies
    BY DEF OthersIInv, TypeOK, LocalTypeOK, Snapshots
  <2>3. snap.deps = {} \/ snap.deps \ {Wins, Slash} = rke2Deps \ {Wins}
    BY <2>1, <2>2, NamesAssumption DEF Dependencies
  <2> QED
    BY <1>0, <1>4, <2>3, CommitKeepsOthers DEF RestoreRke2Dependencies
<1>5. CASE ~(ConfigureRKE2ServiceDependency \/ RefreshWinsService \/ RestoreDependency
             \/ RestoreRke2Dependencies)
  <2>1. UNCHANGED rke2Deps
    BY <1>5 DEF Next, UpdaterStep, Start, BuildInitialState, UpdateConnectionInformation,
       UpdateConfigFromEnvVars, WriteConfig, ConfigureWinsDelayedStart,
       UpgradeRancherWinsBinary, StageBinary, CopyTo, CopyToWindows, CopyToLocal,
       ConfirmBinaries, DecideRefresh, Restart, Stop, WaitForStopped, StartService,
       AlreadyRunning, WaitForRunning, Conclude, RestoreDelayedStart, TruncateConfig,
       RestoreConfig, Kill, WinsLoadsConfig, WinsReportsRunning, WinsEnds,
       WinsEndsUnexpectedly, RecoveryStartsWins, Rke2StartsOrStops
  <2> QED
    BY <2>1
<1> QED
  BY <1>1, <1>2, <1>3, <1>4, <1>5

\* rke2 is never unregistered, and RestoreDependency follows a removal.
Rke2Stays ==
    /\ depRemoved # {} => rke2State # "Absent"
    /\ pc = "readd" => depRemoved # {}

LEMMA Rke2IsNotRemoved ==
    ASSUME [Next]_vars, rke2State # "Absent"
    PROVE  rke2State' # "Absent"
BY DEF Next, UpdaterStep, Start, BuildInitialState, UpdateConnectionInformation,
       UpdateConfigFromEnvVars, WriteConfig, ConfigureWinsDelayedStart,
       ConfigureRKE2ServiceDependency, UpgradeRancherWinsBinary, StageBinary, CopyTo,
       CopyToWindows, CopyToLocal, ConfirmBinaries, DecideRefresh, RefreshWinsService,
       Restart, Stop, WaitForStopped, StartService, AlreadyRunning, WaitForRunning,
       RestoreDependency, Conclude, RestoreDelayedStart, RestoreRke2Dependencies,
       TruncateConfig, RestoreConfig, Kill, WinsLoadsConfig, WinsReportsRunning, WinsEnds,
       WinsEndsUnexpectedly, RecoveryStartsWins, Rke2Installed, Rke2StartsOrStops

LEMMA Rke2StaysStep ==
    ASSUME TypeOK, Rke2Stays, [Next]_vars
    PROVE  Rke2Stays'
<1>1. depRemoved' # {} => rke2State' # "Absent"
  <2>1. CASE RefreshWinsService
    BY <2>1 DEF RefreshWinsService, HasDependency, Rke2Stays
  <2>2. CASE ~RefreshWinsService
    <3>1. depRemoved' = depRemoved \/ depRemoved' = {}
      BY <2>2 DEF Next, UpdaterStep, Start, BuildInitialState, UpdateConnectionInformation,
         UpdateConfigFromEnvVars, WriteConfig, ConfigureWinsDelayedStart,
         ConfigureRKE2ServiceDependency, UpgradeRancherWinsBinary, StageBinary, CopyTo,
         CopyToWindows, CopyToLocal, ConfirmBinaries, DecideRefresh, Restart, Stop,
         WaitForStopped, StartService, AlreadyRunning, WaitForRunning, RestoreDependency,
         Conclude, RestoreDelayedStart, RestoreRke2Dependencies, TruncateConfig,
         RestoreConfig, Kill
    <3> QED
      BY <3>1, Rke2IsNotRemoved DEF Rke2Stays
  <2> QED
    BY <2>1, <2>2
<1>2. pc' = "readd" => depRemoved' # {}
  <2>1. CASE WaitForRunning
    BY <2>1 DEF WaitForRunning, Poll, RefreshReturns, Goto, Finish
  <2>2. CASE ~WaitForRunning
    <3>1. pc' # "readd" \/ UNCHANGED <<pc, depRemoved>>
      BY <2>2 DEF Next, UpdaterStep, Start, BuildInitialState, UpdateConnectionInformation,
         UpdateConfigFromEnvVars, WriteConfig, ConfigureWinsDelayedStart,
         ConfigureRKE2ServiceDependency, UpgradeRancherWinsBinary, StageBinary, CopyTo,
         CopyToWindows, CopyToLocal, ConfirmBinaries, DecideRefresh, RefreshWinsService,
         Restart, Stop, StopFails, StopReturns, WaitForStopped, Poll, StartService,
         AlreadyRunning, RestoreDependency, Conclude, RestoreDelayedStart,
         RestoreRke2Dependencies, TruncateConfig, RestoreConfig, Kill, RefreshReturns,
         Goto, Finish
    <3> QED
      BY <3>1 DEF Rke2Stays
  <2> QED
    BY <2>1, <2>2
<1> QED
  BY <1>1, <1>2 DEF Rke2Stays

\* Only Start and BuildInitialState come before the snapshot.
LEMMA SnapshotIsTaken ==
    ASSUME [Next]_vars, ~BuildInitialState, pc' \notin {"idle", "snapshot"}
    PROVE  pc \notin {"idle", "snapshot"} /\ snap' = snap
<1>1. ~Start
  BY DEF Start
<1>2. snap' = snap
  BY <1>1 DEF Next, UpdaterStep, UpdateConnectionInformation,
     UpdateConfigFromEnvVars, WriteConfig, ConfigureWinsDelayedStart,
     ConfigureRKE2ServiceDependency, UpgradeRancherWinsBinary, StageBinary, CopyTo,
     CopyToWindows, CopyToLocal, ConfirmBinaries, DecideRefresh, RefreshWinsService,
     Restart, Stop, WaitForStopped, StartService, AlreadyRunning, WaitForRunning,
     RestoreDependency, Conclude, RestoreDelayedStart, RestoreRke2Dependencies,
     TruncateConfig, RestoreConfig, Kill
<1>3. pc \notin {"idle", "snapshot"} \/ pc' = pc \/ Kill
  BY <1>1 DEF Next, UpdaterStep, UpdateConnectionInformation,
     UpdateConfigFromEnvVars, WriteConfig, ConfigureWinsDelayedStart,
     ConfigureRKE2ServiceDependency, UpgradeRancherWinsBinary, StageBinary,
     CopyToWindows, CopyToLocal, ConfirmBinaries, DecideRefresh, RefreshWinsService,
     Restart, Stop, WaitForStopped, StartService, AlreadyRunning, WaitForRunning,
     RestoreDependency, Conclude, RestoreDelayedStart, RestoreRke2Dependencies,
     TruncateConfig, RestoreConfig
<1>4. Kill => pc' = "idle"
  BY DEF Kill, Finish
<1> QED
  BY <1>2, <1>3, <1>4

LEMMA RollbackKeepsOthersStep ==
    ASSUME OthersIInv, Rke2Stays, [Next]_vars
    PROVE  RollbackKeepsOthers'
<1>1. rke2State' = "Absent" => rke2Deps' = {}
  <2>1. SUFFICES ASSUME rke2State' = "Absent" PROVE UNCHANGED rke2Deps
    BY Rke2IsNotRemoved DEF OthersIInv, RollbackKeepsOthers
  <2>2. rke2State = "Absent" /\ pc # "readd" /\ rke2Deps = {}
    BY <2>1, Rke2IsNotRemoved DEF Rke2Stays, OthersIInv, RollbackKeepsOthers
  <2>3. ~Rke2Installed
    BY <2>1 DEF Rke2Installed
  <2> QED
    BY <2>2, <2>3 DEF Next, UpdaterStep, Start, BuildInitialState, UpdateConnectionInformation,
       UpdateConfigFromEnvVars, WriteConfig, ConfigureWinsDelayedStart,
       ConfigureRKE2ServiceDependency, UpgradeRancherWinsBinary, StageBinary, CopyTo,
       CopyToWindows, CopyToLocal, ConfirmBinaries, DecideRefresh, RefreshWinsService,
       HasDependency, Restart, Stop, WaitForStopped, StartService, AlreadyRunning,
       WaitForRunning, RestoreDependency, Conclude, RestoreDelayedStart,
       RestoreRke2Dependencies, TruncateConfig, RestoreConfig, Kill, WinsLoadsConfig,
       WinsReportsRunning, WinsEnds, WinsEndsUnexpectedly, RecoveryStartsWins,
       Rke2StartsOrStops
<1>2. pc' \notin {"idle", "snapshot"} /\ snap'.deps # {} =>
         rke2State' # "Absent" /\ snap'.deps \ {Wins} = rke2Deps' \ {Wins}
  <2>1. CASE BuildInitialState
    BY <2>1 DEF BuildInitialState, Goto, Finish, Snapshot, OthersIInv, RollbackKeepsOthers
  <2>2. CASE ~BuildInitialState
    <3>1. SUFFICES ASSUME pc' \notin {"idle", "snapshot"}, snap'.deps # {}
                   PROVE  rke2State' # "Absent" /\ snap'.deps \ {Wins} = rke2Deps' \ {Wins}
      OBVIOUS
    <3>2. snap' = snap /\ rke2State # "Absent" /\ snap.deps \ {Wins} = rke2Deps \ {Wins}
      BY <2>2, <3>1, SnapshotIsTaken DEF OthersIInv, RollbackKeepsOthers
    <3>3. ~Rke2Installed
      BY <3>2 DEF Rke2Installed
    <3> QED
      BY <3>2, <3>3, Rke2IsNotRemoved, StepKeepsOthers
  <2> QED
    BY <2>1, <2>2
<1> QED
  BY <1>1, <1>2 DEF RollbackKeepsOthers

LEMMA OthersInit == Init => OthersIInv /\ Rke2Stays
<1> SUFFICES ASSUME Init PROVE OthersIInv /\ Rke2Stays
  OBVIOUS
<1>1. RollbackKeepsOthers /\ Rke2Stays
  BY DEF Init, HostInit, RollbackKeepsOthers, Rke2Stays
<1> QED
  BY <1>1, InitTypeOK DEF OthersIInv

LEMMA OthersStep == OthersIInv /\ Rke2Stays /\ [Next]_vars => (OthersIInv /\ Rke2Stays)'
<1> SUFFICES ASSUME OthersIInv, Rke2Stays, [Next]_vars PROVE (OthersIInv /\ Rke2Stays)'
  OBVIOUS
<1>1. TypeOK /\ TypeOK'
  BY NextTypeOK DEF OthersIInv
<1> QED
  BY <1>1, Rke2StaysStep, RollbackKeepsOthersStep DEF OthersIInv

\* The list that a rollback would write back never goes stale.
THEOREM RollbackKeepsOthersCorrect == Spec => []RollbackKeepsOthers
<1>1. OthersIInv => RollbackKeepsOthers
  BY DEF OthersIInv
<1> QED
  BY OthersInit, OthersStep, <1>1, PTL DEF Spec

\* The updater never takes another service out of rke2's dependencies, nor adds
\* one, in any number of runs, whatever fails and whenever it is killed.
THEOREM OthersUntouchedCorrect == Spec => OthersUntouched
<1>1. OthersIInv /\ [Next]_vars =>
         [rke2State # "Absent" => rke2Deps' \ {Wins} = rke2Deps \ {Wins}]_vars
  <2> SUFFICES ASSUME OthersIInv, [Next]_vars, rke2State # "Absent"
               PROVE  rke2Deps' \ {Wins} = rke2Deps \ {Wins}
    OBVIOUS
  <2>1. ~Rke2Installed
    BY DEF Rke2Installed
  <2> QED
    BY <2>1, StepKeepsOthers
<1> QED
  BY OthersInit, OthersStep, <1>1, PTL DEF Spec, OthersUntouched
=============================================================================
