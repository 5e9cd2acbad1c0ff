------------------------- MODULE WinsServiceProofs -------------------------
(***************************************************************************)
(* Proofs about WinsService, with CsiProxy and StackDump: for any config   *)
(* files and any number of processes that end unexpectedly.                *)
(***************************************************************************)
EXTENDS WinsService, TLAPS

\* The goroutines by how far main has come: svc.Run's is there from "select" on,
\* and the other two only once svc.Run has called Execute.
Goroutines ==
    /\ main = "none" => NoProcess
    /\ main \notin {"select", "return"} => runner = "none"
    /\ runner \in {"none", "run"} => handler = "none"
    /\ handler = "none" => agent = "none"
    /\ doneC = (handler = "returned")
    /\ main = "select" => runner # "none"
    /\ main # "return" => result = "nil"

\* What the SCM has been told.
Reported ==
    /\ main # "none" /\ handler \in {"none", "execute", "report"} => status = "StartPending"
    /\ handler = "loop" => status = "Running"
    /\ handler = "close" => status = "StopPending"
    /\ handler = "returned" => status \in {"StopPending", "Stopped"}
    /\ main = "none" => status = "Stopped"

\* A command holds the event of the process it found only while that process is
\* there and has one.
EventIsHeld ==
    command \in {"setEvent", "resetEvent"} /\ target = "service" => event # "none"

\* The crashes that are left.
CrashesLeft == crashes \in 0..MaxCrashes /\ (main # "none" => crashes < MaxCrashes)

-----------------------------------------------------------------------------
USE DEF Goto, Return, Panic,
    ScmStarts, ScmSendsStop, ConfigWritten, Killed, ProcessEnds, Exit,
    LoadConfig, RunService, SelectErrC, SelectDoneC, Receive,
    SvcRun, SvcRunReturns, ExecuteStartsAgent, ExecuteReportsRunning,
    ExecuteStops, ExecuteReturns, AgentRun,
    NewCSI, CsiExists, SetupTLS, Download, Extract, CreateService,
    SetRecoveryActions, StartCsi,
    SetupDumpStacks, WaitForSignal, DumpStacksToFile, DumperEnds, CommandEnds,
    FindWinsProcess, OpenEvent, SetEvent, ResetEvent, CommandKilled,
    vars, goroutines, scm, configVars, csiVars, dumpVars, otherVars

LEMMA Steps ==
    ASSUME Next
    PROVE \/ ScmStarts \/ ScmSendsStop \/ ConfigWritten \/ Killed
          \/ LoadConfig \/ EnableCSI \/ RunService \/ SelectErrC \/ SelectDoneC \/ Exit
          \/ SvcRun \/ SvcRunReturns
          \/ ExecuteStartsAgent \/ ExecuteReportsRunning \/ ExecuteStops \/ ExecuteReturns
          \/ AgentRun \/ Dump \/ StackDumpCommand
BY DEF Next, MainStep, RunnerStep, HandlerStep

\* Setting up the CSI proxy moves main on.
LEMMA EnableCSISteps ==
    ASSUME EnableCSI
    PROVE /\ main \in CsiLabels
          /\ \/ main' \in CsiLabels \cup {"runService"} /\ UNCHANGED result
             \/ main' = "return" /\ result' \in {"nil", "err"}
          /\ UNCHANGED <<goroutines, scm, loaded, cfgFile, csiWanted, dumpVars>>
BY DEF EnableCSI, CsiStep, CsiLabels

LEMMA DumpSteps ==
    ASSUME Dump \/ StackDumpCommand
    PROVE UNCHANGED otherVars
BY DEF Dump, StackDumpCommand

LEMMA GoroutinesStep == Goroutines /\ [Next]_vars => Goroutines'
<1> SUFFICES ASSUME Goroutines, [Next]_vars PROVE Goroutines'
  OBVIOUS
<1>1. CASE UNCHANGED vars
  BY <1>1 DEF Goroutines, NoProcess
<1>2. CASE EnableCSI
  BY <1>2, EnableCSISteps DEF Goroutines, NoProcess, CsiLabels
<1>3. CASE Dump \/ StackDumpCommand
  BY <1>3, DumpSteps DEF Goroutines, NoProcess
<1>4. CASE Next /\ ~EnableCSI /\ ~Dump /\ ~StackDumpCommand
  BY <1>4, Steps DEF Goroutines, NoProcess, Sending
<1> QED
  BY <1>1, <1>2, <1>3, <1>4
LEMMA ReportedStep == Goroutines /\ Reported /\ [Next]_vars => Reported'
<1> SUFFICES ASSUME Goroutines, Reported, [Next]_vars PROVE Reported'
  OBVIOUS
<1>1. CASE UNCHANGED vars
  BY <1>1 DEF Reported
<1>2. CASE EnableCSI
  BY <1>2, EnableCSISteps DEF Reported, CsiLabels
<1>3. CASE Dump \/ StackDumpCommand
  BY <1>3, DumpSteps DEF Reported
<1>4. CASE Next /\ ~EnableCSI /\ ~Dump /\ ~StackDumpCommand
  BY <1>4, Steps DEF Reported, Goroutines, NoProcess
<1> QED
  BY <1>1, <1>2, <1>3, <1>4

\* Arithmetic by itself: a start needs a crash that is left, and only an end uses
\* one up.
LEMMA CrashesStep == CrashesLeft /\ [Next]_vars => CrashesLeft'
<1> SUFFICES ASSUME CrashesLeft, [Next]_vars PROVE CrashesLeft'
  OBVIOUS
<1> USE MaxCrashesAssumption
<1>1. CASE crashes' = crashes /\ (main' # "none" => main # "none" \/ crashes < MaxCrashes)
  BY <1>1 DEF CrashesLeft
<1>2. CASE main # "none" /\ main' = "none" /\ crashes' = crashes + 1
  BY <1>2 DEF CrashesLeft
<1>3. \/ crashes' = crashes /\ (main' # "none" => main # "none" \/ crashes < MaxCrashes)
      \/ main # "none" /\ main' = "none" /\ crashes' = crashes + 1
  <2>1. CASE UNCHANGED vars
    BY <2>1
  <2>2. CASE EnableCSI
    BY <2>2, EnableCSISteps DEF CsiLabels
  <2>3. CASE Dump \/ StackDumpCommand
    BY <2>3, DumpSteps
  <2>4. CASE Next /\ ~EnableCSI /\ ~Dump /\ ~StackDumpCommand
    BY <2>4, Steps
  <2> QED
    BY <2>1, <2>2, <2>3, <2>4
<1> QED
  BY <1>1, <1>2, <1>3

-----------------------------------------------------------------------------
(* The properties.                                                         *)

Inv == Goroutines /\ Reported /\ CrashesLeft

LEMMA InvStep == Inv /\ [Next]_vars => Inv'
BY GoroutinesStep, ReportedStep, CrashesStep DEF Inv

LEMMA InvInit == Init => Inv
<1>1. Init => Goroutines /\ Reported
  BY DEF Init, NoProcess, CsiInit, DumpInit, Goroutines, Reported
<1>2. Init => CrashesLeft
  BY MaxCrashesAssumption DEF Init, NoProcess, CrashesLeft
<1> QED
  BY <1>1, <1>2 DEF Inv

LEMMA CsiStepOf ==
    ASSUME EnableCSI
    PROVE /\ UNCHANGED <<goroutines, scm, loaded, cfgFile, csiWanted, dumpVars>>
          /\ \/ NewCSI \/ CsiExists \/ SetupTLS \/ Download \/ Extract
             \/ CreateService \/ SetRecoveryActions \/ StartCsi
BY DEF EnableCSI, CsiStep

LEMMA ControlTypeStep ==
    ASSUME TypeOK, [Next]_vars
    PROVE /\ main' \in {"none", "loadConfig", "runService", "select", "return"} \cup CsiLabels
          /\ result' \in {"nil", "err"}
          /\ runner' \in {"none", "run", "waits", "done"} \cup Sending
          /\ handler' \in {"none", "execute", "report", "loop", "close", "returned"}
          /\ agent' \in {"none", "run", "done"} \cup Sending
<1> USE DEF TypeOK, CsiLabels, Sending
<1>1. CASE UNCHANGED vars
  BY <1>1, ZenonT(40)
<1>2. CASE EnableCSI
  BY <1>2, CsiStepOf
<1>3. CASE Dump \/ StackDumpCommand
  BY <1>3, DumpSteps
<1>4. CASE Next /\ ~EnableCSI /\ ~Dump /\ ~StackDumpCommand
  BY <1>4, Steps
<1> QED
  BY <1>1, <1>2, <1>3, <1>4

LEMMA WantedTypeStep == ASSUME csiWanted \in BOOLEAN, [Next]_vars PROVE csiWanted' \in BOOLEAN
<1>1. csiWanted' = csiWanted \/ csiWanted' = FALSE \/ csiWanted' \in BOOLEAN
  <2>1. CASE UNCHANGED vars
    BY <2>1
  <2>2. CASE EnableCSI
    BY <2>2, EnableCSISteps
  <2>3. CASE Dump \/ StackDumpCommand
    BY <2>3, DumpSteps
  <2>4. CASE LoadConfig
    BY <2>4
  <2>5. CASE Next /\ ~EnableCSI /\ ~Dump /\ ~StackDumpCommand /\ ~LoadConfig
    BY <2>5, Steps
  <2> QED
    BY <2>1, <2>2, <2>3, <2>4, <2>5
<1> QED
  BY <1>1

LEMMA ScmTypeStep ==
    ASSUME TypeOK, [Next]_vars
    PROVE /\ status' \in Host!ServiceStates
          /\ stop' \in BOOLEAN
          /\ loaded' \in Host!Configs \cup {Unread}
          /\ cfgFile' \in Host!Configs
          /\ recovery' \in {"none", "due"}
<1> USE DEF TypeOK
<1>1. CASE UNCHANGED vars
  BY <1>1
<1>2. CASE EnableCSI
  BY <1>2, EnableCSISteps
<1>3. CASE Dump \/ StackDumpCommand
  BY <1>3, DumpSteps
<1>4. CASE Next /\ ~EnableCSI /\ ~Dump /\ ~StackDumpCommand
  BY <1>4, Steps, ConfigFilesAssumption DEF Host!ServiceStates
<1> QED
  BY <1>1, <1>2, <1>3, <1>4

LEMMA FilesTypeStep ==
    ASSUME TypeOK, [Next]_vars
    PROVE /\ csiExe' \in {"none", "torn", "empty", "whole"}
          /\ csiService' \in {"none", "created", "recoverable", "started"}
<1> USE DEF TypeOK, CsiTypeOK
<1>1. CASE UNCHANGED vars
  BY <1>1
<1>2. CASE EnableCSI
  BY <1>2, CsiStepOf
<1>3. CASE Dump \/ StackDumpCommand
  BY <1>3, DumpSteps
<1>4. CASE Next /\ ~EnableCSI /\ ~Dump /\ ~StackDumpCommand
  BY <1>4, Steps
<1> QED
  BY <1>1, <1>2, <1>3, <1>4

LEMMA CommandTypeStep ==
    ASSUME DumpTypeOK, EventIsHeld, NEW running, CommandStep(running)
    PROVE DumpTypeOK' /\ EventIsHeld'
<1> USE DEF DumpTypeOK, EventIsHeld
<1>1. /\ command' \in {"none", "openEvent", "setEvent", "resetEvent"}
      /\ target' \in {"service", "other"}
  BY DEF CommandStep
<1>2. dumper' = dumper
  BY DEF CommandStep
<1>3. event' = event \/ (event' \in {"unset", "set"} /\ dumper # "none")
  BY DEF CommandStep
<1>4. owed' = owed \/ owed' = TRUE
  BY DEF CommandStep
<1>5. owed' \in BOOLEAN
  BY <1>4
<1>6. EventIsHeld'
  BY DEF CommandStep
<1> QED
  BY <1>1, <1>2, <1>3, <1>5, <1>6

LEMMA DumpTypeStep ==
    ASSUME TypeOK, EventIsHeld, Goroutines, [Next]_vars PROVE DumpTypeOK' /\ EventIsHeld'
<1> USE DEF TypeOK, DumpTypeOK, EventIsHeld
<1>1. CASE UNCHANGED vars
  BY <1>1
<1>2. CASE EnableCSI
  BY <1>2, EnableCSISteps
<1>3. CASE Dump
  BY <1>3 DEF Dump, DumperStep
<1>4. CASE StackDumpCommand
  BY <1>4, CommandTypeStep DEF StackDumpCommand
<1>5. CASE Next /\ ~EnableCSI /\ ~Dump /\ ~StackDumpCommand
  BY <1>5, Steps
<1> QED
  BY <1>1, <1>2, <1>3, <1>4, <1>5

LEMMA TypeStep == TypeOK /\ EventIsHeld /\ Inv /\ [Next]_vars => TypeOK' /\ EventIsHeld'
<1> SUFFICES ASSUME TypeOK, EventIsHeld, Inv, [Next]_vars PROVE TypeOK' /\ EventIsHeld'
  OBVIOUS
<1>1. (doneC = (handler = "returned"))' /\ (crashes \in 0..MaxCrashes)'
  BY GoroutinesStep, CrashesStep DEF Inv, Goroutines, CrashesLeft
<1>2. DumpTypeOK' /\ EventIsHeld'
  BY DumpTypeStep DEF Inv
<1>3. CsiTypeOK'
  BY WantedTypeStep, FilesTypeStep DEF TypeOK, CsiTypeOK
<1> QED
  BY <1>1, <1>2, <1>3, ControlTypeStep, ScmTypeStep DEF TypeOK

\* Every variable of the process keeps its type, for any config files and any number
\* of unexpected ends.
THEOREM TypeCorrect == Spec => []TypeOK
<1>1. Init => TypeOK /\ EventIsHeld
  <2> SUFFICES ASSUME Init PROVE TypeOK /\ EventIsHeld
    OBVIOUS
  <2>1. crashes \in 0..MaxCrashes
    BY MaxCrashesAssumption DEF Init
  <2>2. cfgFile \in Host!Configs
    BY DEF Init, Host!Configs, Host!Flags
  <2> QED
    BY <2>1, <2>2 DEF Init, NoProcess, CsiInit, DumpInit, TypeOK, CsiTypeOK, DumpTypeOK,
       EventIsHeld, Host!ServiceStates
<1> QED
  BY <1>1, TypeStep, InvInit, InvStep, PTL DEF Spec

\* A serving process returns nil only when doneC was closed and the SCM was told of
\* the stop, for any number of processes and any order of the goroutines.
THEOREM CleanExitWasAskedForCorrect == Spec => []CleanExitWasAskedFor
<1>1. Init => CleanExitWasAskedFor
  BY DEF Init, NoProcess, CleanExitWasAskedFor
<1>2. CleanExitWasAskedFor /\ Inv /\ [Next]_vars => CleanExitWasAskedFor'
  <2> SUFFICES ASSUME CleanExitWasAskedFor, Inv, [Next]_vars PROVE CleanExitWasAskedFor'
    OBVIOUS
  <2> USE DEF CleanExitWasAskedFor, Inv, Goroutines, Reported
  <2>1. CASE UNCHANGED vars
    BY <2>1
  <2>2. CASE EnableCSI
    BY <2>2, EnableCSISteps DEF CsiLabels
  <2>3. CASE Dump \/ StackDumpCommand
    BY <2>3, DumpSteps
  <2>4. CASE Next /\ ~EnableCSI /\ ~Dump /\ ~StackDumpCommand
    BY <2>4, Steps
  <2> QED
    BY <2>1, <2>2, <2>3, <2>4
<1> QED
  BY <1>1, <1>2, InvInit, InvStep, PTL DEF Spec

\* What a process finds and leaves of the CSI proxy, by how far main has come.
CsiProgress ==
    /\ csiService # "none" => csiExe \in {"whole", "empty"}
    /\ main \in {"setupTLS", "download", "extract", "createService"} => csiService = "none"
    /\ main = "createService" => csiExe \in {"whole", "empty"}
    /\ main \in {"recoveryActions", "startService"} => csiService # "none"
    /\ main \in CsiLabels => csiWanted
    /\ (main = "runService" \/ runner # "none") /\ csiWanted => csiService # "none"

LEMMA CsiProgressStep == Inv /\ CsiProgress /\ [Next]_vars => CsiProgress'
<1> SUFFICES ASSUME Inv, CsiProgress, [Next]_vars PROVE CsiProgress'
  OBVIOUS
<1> USE DEF CsiProgress, Inv, Goroutines, NoProcess, CsiLabels
<1>1. CASE UNCHANGED vars
  BY <1>1
<1>2. CASE EnableCSI
  BY <1>2, CsiStepOf
<1>3. CASE Dump \/ StackDumpCommand
  BY <1>3, DumpSteps
<1>4. CASE LoadConfig
  BY <1>4
<1>5. CASE ScmStarts \/ ScmSendsStop \/ ConfigWritten \/ Killed \/ Exit
  BY <1>5
<1>6. CASE RunService
  BY <1>6
<1>7. CASE SelectErrC
  BY <1>7 DEF Sending
<1>8. CASE SelectDoneC
  BY <1>8
<1>9. CASE SvcRun
  BY <1>9
<1>10. CASE SvcRunReturns
  BY <1>10
<1>11. CASE \/ ExecuteStartsAgent \/ ExecuteReportsRunning \/ ExecuteStops
            \/ ExecuteReturns \/ AgentRun
  BY <1>11
<1> HIDE DEF ScmStarts, ScmSendsStop, ConfigWritten, Killed, Exit,
    LoadConfig, RunService, SelectErrC, SelectDoneC, SvcRun, SvcRunReturns,
    ExecuteStartsAgent, ExecuteReportsRunning, ExecuteStops, ExecuteReturns, AgentRun,
    CsiProgress, Inv, vars
<1> QED
  BY <1>1, <1>2, <1>3, <1>4, <1>5, <1>6, <1>7, <1>8, <1>9, <1>10, <1>11, Steps

\* A process that wants the CSI proxy serves over a registered service whose
\* executable was downloaded to the end.
THEOREM ServesOverCsiCorrect == Spec => []ServesOverCsi
<1>1. Init => CsiProgress
  BY DEF Init, NoProcess, CsiInit, CsiProgress, CsiLabels
<1>2. CsiProgress => ServesOverCsi
  BY DEF CsiProgress, ServesOverCsi
<1> QED
  BY <1>1, <1>2, CsiProgressStep, InvInit, InvStep, PTL DEF Spec

\* Until a process ends unexpectedly, the CSI proxy's service is on its way only
\* while main is, or on the way out.
FirstProcess ==
    crashes = 0 /\ csiService \in {"created", "recoverable"} =>
        main \in {"recoveryActions", "startService"} \/ (main = "return" /\ runner = "none")

LEMMA FirstProcessStep == Inv /\ CsiProgress /\ FirstProcess /\ [Next]_vars => FirstProcess'
<1> SUFFICES ASSUME Inv, CsiProgress, FirstProcess, [Next]_vars PROVE FirstProcess'
  OBVIOUS
<1> USE DEF FirstProcess, Inv, Goroutines, Reported, NoProcess, CsiLabels
<1>1. CASE UNCHANGED vars
  BY <1>1
<1>2. CASE EnableCSI
  BY <1>2, CsiStepOf DEF CsiProgress
<1>3. CASE Dump \/ StackDumpCommand
  BY <1>3, DumpSteps
<1>4. CASE LoadConfig
  BY <1>4
<1>5. CASE ScmStarts \/ ScmSendsStop \/ ConfigWritten
  BY <1>5
<1>6. CASE RunService \/ SelectErrC
  BY <1>6
<1>9. CASE SelectDoneC \/ SvcRun \/ SvcRunReturns
  BY <1>9
<1>7. CASE \/ ExecuteStartsAgent \/ ExecuteReportsRunning \/ ExecuteStops
           \/ ExecuteReturns \/ AgentRun
  BY <1>7
<1>8. CASE Killed \/ Exit
  <2>1. CASE status = "Stopped"
    BY <1>8, <2>1
  <2>2. CASE status # "Stopped"
    <3>1. crashes' = crashes + 1
      BY <1>8, <2>2
    <3>2. crashes \in Nat
      BY MaxCrashesAssumption DEF CrashesLeft
    <3> QED
      BY <3>1, <3>2
  <2> QED
    BY <2>1, <2>2
<1> HIDE DEF ScmStarts, ScmSendsStop, ConfigWritten, Killed, Exit,
    LoadConfig, RunService, SelectErrC, SelectDoneC, SvcRun, SvcRunReturns,
    ExecuteStartsAgent, ExecuteReportsRunning, ExecuteStops, ExecuteReturns, AgentRun,
    FirstProcess, CsiProgress, Inv, vars
<1> QED
  BY <1>1, <1>2, <1>3, <1>4, <1>5, <1>6, <1>7, <1>8, <1>9, Steps

\* The first process that wants the CSI proxy, and every one after a clean stop,
\* serves over one that was started.
THEOREM CsiIsStartedCorrect == Spec => []CsiIsStarted
<1>1. Init => CsiProgress /\ FirstProcess
  BY DEF Init, NoProcess, CsiInit, CsiProgress, FirstProcess, CsiLabels
<1>2. Inv /\ TypeOK /\ CsiProgress /\ FirstProcess => CsiIsStarted
  BY DEF Inv, Goroutines, TypeOK, CsiTypeOK, CsiProgress, FirstProcess, CsiIsStarted
<1> QED
  BY <1>1, <1>2, CsiProgressStep, FirstProcessStep, InvInit, InvStep, TypeCorrect, PTL DEF Spec

\* No dump without a signal of its own, for any commands.
THEOREM DumpIsOwedCorrect == Spec => DumpIsOwed
<1> DEFINE SignalIsOwed == event = "set" => owed
<1>1. Init => SignalIsOwed
  BY DEF Init, DumpInit
<1>2. SignalIsOwed /\ [Next]_vars => SignalIsOwed'
  <2> SUFFICES ASSUME SignalIsOwed, [Next]_vars PROVE SignalIsOwed'
    OBVIOUS
  <2>1. CASE UNCHANGED vars
    BY <2>1
  <2>2. CASE EnableCSI
    BY <2>2, EnableCSISteps
  <2>3. CASE Dump \/ StackDumpCommand
    BY <2>3 DEF Dump, StackDumpCommand, DumperStep, CommandStep
  <2>4. CASE Next /\ ~EnableCSI /\ ~Dump /\ ~StackDumpCommand
    BY <2>4, Steps
  <2> QED
    BY <2>1, <2>2, <2>3, <2>4
<1>3. SignalIsOwed /\ [Next]_vars => [dumper = "waits" /\ dumper' = "dumps" => owed]_vars
  <2> SUFFICES ASSUME SignalIsOwed, Next, dumper = "waits", dumper' = "dumps" PROVE owed
    OBVIOUS
  <2>1. CASE EnableCSI
    BY <2>1, EnableCSISteps
  <2>2. CASE Dump \/ StackDumpCommand
    BY <2>2 DEF Dump, StackDumpCommand, DumperStep, CommandStep
  <2>3. CASE Next /\ ~EnableCSI /\ ~Dump /\ ~StackDumpCommand
    BY <2>3, Steps
  <2> QED
    BY <2>1, <2>2, <2>3
<1> QED
  BY <1>1, <1>2, <1>3, PTL DEF Spec, DumpIsOwed
-----------------------------------------------------------------------------
(* The process implements module WindowsHost.                              *)

\* What the refinement mapping needs: a stop is due of a running service only, and
\* whoever serves has read the config that no process has read before main does.
Mapped ==
    /\ stop => status = "Running"
    /\ main \in {"none", "loadConfig"} => loaded = Unread
    /\ main \in CsiLabels \cup {"runService"} \/ runner # "none" => loaded # Unread

LEMMA UnreadIsNoConfig == Unread \notin Host!Configs
BY DEF Unread, Host!Configs

LEMMA MappedStep == TypeOK /\ Inv /\ Mapped /\ [Next]_vars => Mapped'
<1> SUFFICES ASSUME TypeOK, Inv, Mapped, [Next]_vars PROVE Mapped'
  OBVIOUS
<1> USE DEF Mapped, Inv, Goroutines, Reported, NoProcess, CsiLabels
<1>1. CASE UNCHANGED vars
  BY <1>1
<1>2. CASE EnableCSI
  BY <1>2, CsiStepOf
<1>3. CASE Dump \/ StackDumpCommand
  BY <1>3, DumpSteps
<1>4. CASE LoadConfig
  BY <1>4, UnreadIsNoConfig DEF TypeOK
<1>5. CASE ScmStarts \/ ScmSendsStop \/ ConfigWritten
  BY <1>5
<1>6. CASE Killed \/ Exit
  BY <1>6
<1>7. CASE RunService
  BY <1>7
<1>8. CASE SelectErrC
  BY <1>8 DEF Sending
<1>9. CASE SelectDoneC
  BY <1>9
<1>13. CASE SvcRun
  BY <1>13
<1>10. CASE SvcRunReturns
  BY <1>10
<1>11. CASE ExecuteStartsAgent \/ ExecuteReportsRunning \/ ExecuteStops
  BY <1>11
<1>12. CASE ExecuteReturns \/ AgentRun
  BY <1>12
<1> HIDE DEF ScmStarts, ScmSendsStop, ConfigWritten, Killed, Exit,
    LoadConfig, RunService, SelectErrC, SelectDoneC, SvcRun, SvcRunReturns,
    ExecuteStartsAgent, ExecuteReportsRunning, ExecuteStops, ExecuteReturns, AgentRun,
    Mapped, Inv, vars
<1> QED
  BY <1>1, <1>2, <1>3, <1>4, <1>5, <1>6, <1>7, <1>8, <1>9, <1>10, <1>11, <1>12, <1>13, Steps

LEMMA HostStep ==
    ASSUME TypeOK, Inv, Mapped, [Next]_vars
    PROVE [Host!WinsNext]_Host!hostVars
<1> USE DEF Mapped, Inv, Goroutines, Reported, NoProcess,
    Host!hostVars, Host!scmVars, Host!rke2Vars, Host!unrelatedVars
<1>1. CASE UNCHANGED vars
  BY <1>1
<1>2. CASE EnableCSI
  BY <1>2, EnableCSISteps
<1>3. CASE Dump \/ StackDumpCommand
  BY <1>3, DumpSteps
<1>4. CASE LoadConfig
  BY <1>4 DEF Host!WinsNext, Host!WinsLoadsConfig, Host!NotLoaded, Unread
<1>5. CASE ScmStarts
  BY <1>5 DEF Host!WinsNext, Host!SendStart, Host!Startable, Host!NotLoaded, Unread
<1>6. CASE ScmSendsStop
  BY <1>6 DEF Host!WinsNext, Host!SendStop, Host!AcceptsStop, Host!BlockedByRke2
<1>7. CASE ConfigWritten
  BY <1>7, ConfigFilesAssumption DEF Host!WinsNext
<1>8. CASE Killed \/ Exit
  <2>1. CASE status = "Stopped"
    BY <1>8, <2>1
  <2>2. CASE status # "Stopped"
    BY <1>8, <2>2 DEF Host!WinsNext, Host!WinsEndsUnexpectedly, Host!ProcessAlive,
       Host!NotLoaded, Unread, CrashesLeft
  <2> QED
    BY <2>1, <2>2
<1>9. CASE RunService \/ SelectErrC \/ SelectDoneC \/ SvcRun
  <2>1. UNCHANGED <<status, stop, loaded, cfgFile, recovery, crashes>>
    BY <1>9
  <2> QED
    BY <2>1
<1>10. CASE SvcRunReturns
  BY <1>10 DEF Host!WinsNext, Host!WinsEnds, Host!NotLoaded, Unread
<1>11. CASE ExecuteReportsRunning
  BY <1>11 DEF Host!WinsNext, Host!WinsReportsRunning, Host!NotLoaded, Unread
<1>12. CASE ExecuteStops
  BY <1>12
<1>13. CASE ExecuteStartsAgent \/ ExecuteReturns \/ AgentRun
  BY <1>13
<1> HIDE DEF ScmStarts, ScmSendsStop, ConfigWritten, Killed, Exit,
    LoadConfig, RunService, SelectErrC, SelectDoneC, SvcRun, SvcRunReturns,
    ExecuteStartsAgent, ExecuteReportsRunning, ExecuteStops, ExecuteReturns, AgentRun,
    Mapped, Inv, Host!hostVars, vars
<1> QED
  BY <1>1, <1>2, <1>3, <1>4, <1>5, <1>6, <1>7, <1>8, <1>9, <1>10, <1>11, <1>12, <1>13, Steps

LEMMA HostInitially == Init => Host!HostInit
<1> SUFFICES ASSUME Init PROVE Host!HostInit
  OBVIOUS
<1> QED
  BY DEF Init, NoProcess, Host!HostInit, Host!Dependencies, Host!NotLoaded, Unread

\* Every step of the process is one of the service that module WindowsHost describes,
\* or none, for any config files and any number of unexpected ends.
THEOREM ImplementsHostCorrect == Spec => ImplementsHost
<1>1. Init => Mapped
  BY DEF Init, NoProcess, Mapped, CsiLabels
<1> QED
  BY <1>1, MappedStep, HostStep, HostInitially, InvInit, InvStep, TypeCorrect, PTL
     DEF Spec, ImplementsHost, Host!WinsSpec
=============================================================================
