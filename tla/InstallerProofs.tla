-------------------------- MODULE InstallerProofs --------------------------
(***************************************************************************)
(* Theorems about module Installer, for any number of commands, attempts,  *)
(* polls and starts by others.  IInv, its parts below, is inductive; each  *)
(* of them says of the whole run what a property says of its end.          *)
(***************************************************************************)
EXTENDS Installer, TLAPS

USE DEF Goto, Finish, vars, registrationVars, scmVars, hostVars, jobVars, fileVars

RegisterLabels == {"open", "stopLoop", "answer", "delete", "create", "failureActions", "eventLog"}
InstallLabels ==
    {"prepare", "download", "verify", "copyWindows", "setConfig", "appendConfig",
     "startAgent", "startService", "waitRunning"}
UninstallLabels ==
    {"assertRke2", "stopProcesses", "waitGone", "removeExe", "removeConfig", "removeService"}

\* Each command makes its own calls, and has an exit code when it makes none.
CallsFit ==
    /\ pc \in RegisterLabels => command \in {"register", "install"}
    /\ pc = "unregister" => command = "unregister"
    /\ pc \in {"stopAgent", "waitStopped"} => command \in {"install", "uninstall"}
    /\ pc \in InstallLabels => command = "install"
    /\ pc \in UninstallLabels => command = "uninstall"
    /\ code # "none" => pc = "idle"

\* The entry that registerService has created is not marked.
EntryStays ==
    /\ pc = "failureActions" => entry = "bare" /\ ~marked
    /\ pc = "eventLog" => entry = "full" /\ ~marked
    /\ RegisteredForGood

\* The checksum is that of the file that is copied, then of the copy.
VerifiedSoFar ==
    command = "install" /\ job.checksum =>
        /\ pc = "copyWindows" => exe["local"] = "new"
        /\ \/ pc \in {"setConfig", "appendConfig", "startAgent", "startService", "waitRunning"}
           \/ pc \in RegisterLabels
           \/ code = "ok"
           => exe["windows"] = "new"

\* Nothing runs while the config is written, nor until it is started.
FreshSoFar ==
    /\ winsState = "Running" => loaded # "unread"
    /\ command = "install" /\ ~disturbed =>
        /\ \/ pc \in {"download", "verify", "copyWindows", "setConfig", "appendConfig",
                      "startAgent", "startService"}
           \/ pc \in RegisterLabels
           => ~ProcessAlive
        /\ \/ pc \in {"startAgent", "startService", "waitRunning"}
           \/ pc \in RegisterLabels
           \/ code = "ok"
           => cfg = "new"
        /\ pc = "waitRunning" \/ code = "ok" => loaded \in {"unread", "new"}

\* Without its executable the service stays stopped.
GoneSoFar ==
    command = "uninstall" =>
        /\ pc \in {"removeConfig", "removeService"} \/ code = "ok" =>
               exe["windows"] = "none" /\ ~ProcessAlive
        /\ pc = "removeService" \/ code = "ok" => cfg = "none"

\* What TypeOK needs to be inductive: the download starts to count at 0, and the
\* handle of registerService keeps the entry.
TriesStart == pc \in {"prepare", "assertRke2", "stopAgent", "waitStopped"} => tries = 0
HandleHeld == pc \in {"stopLoop", "answer", "delete"} => entry # "none"

TypeIInv == TypeOK /\ TriesStart /\ HandleHeld

IInv == TypeIInv /\ CallsFit /\ EntryStays /\ VerifiedSoFar /\ FreshSoFar /\ GoneSoFar

-----------------------------------------------------------------------------
(* Types, part by part.                                                    *)

\* The SCM's entry, the command and its exit code keep their types.
LEMMA RegistrationTypeStep ==
    ASSUME RegistrationTypeOK, [Next]_vars
    PROVE  RegistrationTypeOK'
<1> USE DEF RegistrationTypeOK
<1>1. CASE Begin
  BY <1>1 DEF Begin, Commands
<1>2. CASE Killed
  BY <1>2 DEF Killed
<1>3. CASE ScriptStep
  BY <1>3 DEF ScriptStep, Prepare, StopAgent, WaitForAgentToStop, Download, Verify,
      CopyWinsForCharts, SetWinsConfig, AppendConfig, StartAgent, StartService,
      WaitForAgentToRun, AssertRke2NotRunning, StopProcesses, WaitForProcesses,
      RemoveWinsForCharts, RemoveWinsConfig, RemoveService, AfterStopAgent, Fail, Startable
<1>4. CASE RegistrationStep /\ UNCHANGED otherVars
  BY <1>4 DEF RegistrationStep, otherVars, OpenRegistered, StopRegistered, StatusOfControl,
      DeleteRegistered, CreateRegistered, AddFailureActions, CreateEventLog,
      UnregisterService, Return
<1>5. CASE EntryGoes /\ UNCHANGED otherVars
  BY <1>5 DEF EntryGoes, otherVars
<1>6. CASE SomebodyStarts \/ ServiceStep \/ ServiceDies
  BY <1>6 DEF ServiceStep, SomebodyStarts, ServiceLoadsConfig, ServiceReportsRunning,
      ServiceStops, ServiceDies, Startable
<1>7. CASE UNCHANGED vars
  BY <1>7
<1> QED
  BY <1>1, <1>2, <1>3, <1>4, <1>5, <1>6, <1>7 DEF Next

\* A command is always at a call of one of the commands.
LEMMA LabelTypeStep ==
    ASSUME pc \in Labels, [Next]_vars
    PROVE  pc' \in Labels
<1> USE DEF Labels, RegistrationLabels, ScriptLabels
<1>1. CASE Begin
  BY <1>1 DEF Begin, FirstCall, Commands
<1>2. CASE Killed
  BY <1>2 DEF Killed
<1>3. CASE ScriptStep
  BY <1>3 DEF ScriptStep, Prepare, StopAgent, WaitForAgentToStop, Download, Verify,
      CopyWinsForCharts, SetWinsConfig, AppendConfig, StartAgent, StartService,
      WaitForAgentToRun, AssertRke2NotRunning, StopProcesses, WaitForProcesses,
      RemoveWinsForCharts, RemoveWinsConfig, RemoveService, AfterStopAgent, Fail, Startable
<1>4. CASE RegistrationStep /\ UNCHANGED otherVars
  BY <1>4 DEF RegistrationStep, otherVars, OpenRegistered, StopRegistered, StatusOfControl,
      DeleteRegistered, CreateRegistered, AddFailureActions, CreateEventLog,
      UnregisterService, Return
<1>5. CASE EntryGoes /\ UNCHANGED otherVars
  BY <1>5 DEF EntryGoes, otherVars
<1>6. CASE SomebodyStarts \/ ServiceStep \/ ServiceDies
  BY <1>6 DEF ServiceStep, SomebodyStarts, ServiceLoadsConfig, ServiceReportsRunning,
      ServiceStops, ServiceDies, Startable
<1>7. CASE UNCHANGED vars
  BY <1>7
<1> QED
  BY <1>1, <1>2, <1>3, <1>4, <1>5, <1>6, <1>7 DEF Next

\* Only the start of a command, or of the service, changes these two.
LEMMA JobTypeStep ==
    ASSUME job \in Jobs, disturbed \in BOOLEAN, [Next]_vars
    PROVE  job' \in Jobs /\ disturbed' \in BOOLEAN
<1>1. CASE Begin
  BY <1>1 DEF Begin
<1>2. CASE Killed
  BY <1>2 DEF Killed
<1>3. CASE ScriptStep
  BY <1>3 DEF ScriptStep, Prepare, StopAgent, WaitForAgentToStop, Download, Verify,
      CopyWinsForCharts, SetWinsConfig, AppendConfig, StartAgent, StartService,
      WaitForAgentToRun, AssertRke2NotRunning, StopProcesses, WaitForProcesses,
      RemoveWinsForCharts, RemoveWinsConfig, RemoveService, AfterStopAgent, Fail, Startable
<1>4. CASE RegistrationStep /\ UNCHANGED otherVars
  BY <1>4 DEF RegistrationStep, otherVars, OpenRegistered, StopRegistered, StatusOfControl,
      DeleteRegistered, CreateRegistered, AddFailureActions, CreateEventLog,
      UnregisterService, Return
<1>5. CASE EntryGoes /\ UNCHANGED otherVars
  BY <1>5 DEF EntryGoes, otherVars
<1>6. CASE SomebodyStarts \/ ServiceStep \/ ServiceDies
  BY <1>6 DEF ServiceStep, SomebodyStarts, ServiceLoadsConfig, ServiceReportsRunning,
      ServiceStops, ServiceDies, Startable
<1>7. CASE UNCHANGED vars
  BY <1>7
<1> QED
  BY <1>1, <1>2, <1>3, <1>4, <1>5, <1>6, <1>7 DEF Next

\* The attempts at the download and the polls stay within their bounds.
LEMMA CounterTypeStep ==
    ASSUME CountersOK, TriesStart, [Next]_vars
    PROVE  CountersOK' /\ TriesStart'
<1> USE DEF CountersOK, TriesStart
<1> USE InstallerAssumption
<1>1. CASE Begin
  BY <1>1 DEF Begin, FirstCall, Commands
<1>2. CASE Killed
  BY <1>2 DEF Killed
<1>3. CASE ScriptStep
  <2>1. CASE StopAgent
    BY <2>1 DEF StopAgent, AfterStopAgent, Fail
  <2>2. CASE WaitForAgentToStop
    BY <2>2 DEF WaitForAgentToStop, AfterStopAgent, Fail
  <2>3. CASE Download
    BY <2>3 DEF Download, Fail
  <2>4. CASE StartService
    BY <2>4 DEF StartService, Fail, Startable
  <2>5. CASE WaitForAgentToRun
    BY <2>5 DEF WaitForAgentToRun, Fail
  <2>6. CASE Prepare \/ Verify \/ CopyWinsForCharts \/ SetWinsConfig \/ AppendConfig \/
            StartAgent \/ AssertRke2NotRunning \/ StopProcesses \/ WaitForProcesses \/
            RemoveWinsForCharts \/ RemoveWinsConfig \/ RemoveService
    BY <2>6 DEF Prepare, Verify, CopyWinsForCharts, SetWinsConfig, AppendConfig, StartAgent,
        AssertRke2NotRunning, StopProcesses, WaitForProcesses, RemoveWinsForCharts,
        RemoveWinsConfig, RemoveService, Fail
  <2> QED
    BY <1>3, <2>1, <2>2, <2>3, <2>4, <2>5, <2>6 DEF ScriptStep
<1>4. CASE RegistrationStep /\ UNCHANGED otherVars
  BY <1>4 DEF RegistrationStep, otherVars, OpenRegistered, StopRegistered, StatusOfControl,
      DeleteRegistered, CreateRegistered, AddFailureActions, CreateEventLog,
      UnregisterService, Return
<1>5. CASE EntryGoes /\ UNCHANGED otherVars
  BY <1>5 DEF EntryGoes, otherVars
<1>6. CASE SomebodyStarts \/ ServiceStep \/ ServiceDies
  <2>1. CASE SomebodyStarts
    BY <2>1 DEF SomebodyStarts, Startable, Runnable
  <2>2. CASE ServiceLoadsConfig \/ ServiceReportsRunning \/ ServiceStops \/ ServiceDies
    BY <2>2 DEF ServiceLoadsConfig, ServiceReportsRunning, ServiceStops, ServiceDies,
        Runnable
  <2> QED
    BY <1>6, <2>1, <2>2 DEF ServiceStep
<1>7. CASE UNCHANGED vars
  BY <1>7
<1> QED
  BY <1>1, <1>2, <1>3, <1>4, <1>5, <1>6, <1>7 DEF Next

\* The files, and what the process has read of them.
LEMMA FileTypeStep ==
    ASSUME FilesOK, [Next]_vars
    PROVE  FilesOK'
<1> USE DEF FilesOK, Contents
<1>1. CASE Begin
  BY <1>1 DEF Begin
<1>2. CASE Killed
  BY <1>2 DEF Killed
<1>3. CASE ScriptStep
  <2>1. CASE Download
    BY <2>1 DEF Download, Fail
  <2>2. CASE CopyWinsForCharts
    BY <2>2 DEF CopyWinsForCharts, Fail
  <2>3. CASE RemoveWinsForCharts
    BY <2>3 DEF RemoveWinsForCharts, Fail
  <2>4. CASE Prepare \/ StopAgent \/ WaitForAgentToStop \/ Verify \/ SetWinsConfig \/
            AppendConfig \/ StartAgent \/ StartService \/ WaitForAgentToRun \/
            AssertRke2NotRunning \/ StopProcesses \/ WaitForProcesses \/ RemoveWinsConfig \/
            RemoveService
    BY <2>4 DEF Prepare, StopAgent, WaitForAgentToStop, Verify, SetWinsConfig, AppendConfig,
        StartAgent, StartService, WaitForAgentToRun, AssertRke2NotRunning, StopProcesses,
        WaitForProcesses, RemoveWinsConfig, RemoveService, AfterStopAgent, Fail, Startable
  <2> QED
    BY <1>3, <2>1, <2>2, <2>3, <2>4 DEF ScriptStep
<1>4. CASE RegistrationStep /\ UNCHANGED otherVars
  BY <1>4 DEF RegistrationStep, otherVars, OpenRegistered, StopRegistered, StatusOfControl,
      DeleteRegistered, CreateRegistered, AddFailureActions, CreateEventLog,
      UnregisterService, Return
<1>5. CASE EntryGoes /\ UNCHANGED otherVars
  BY <1>5 DEF EntryGoes, otherVars
<1>6. CASE SomebodyStarts \/ ServiceStep \/ ServiceDies
  BY <1>6 DEF ServiceStep, SomebodyStarts, ServiceLoadsConfig, ServiceReportsRunning,
      ServiceStops, ServiceDies, Startable
<1>7. CASE UNCHANGED vars
  BY <1>7
<1> QED
  BY <1>1, <1>2, <1>3, <1>4, <1>5, <1>6, <1>7 DEF Next

\* There is neither a mark nor a process without an entry.
LEMMA EntryTypeStep ==
    ASSUME EntryOK, HandleHeld, RegistrationTypeOK, [Next]_vars
    PROVE  EntryOK' /\ HandleHeld'
<1> USE DEF EntryOK, HandleHeld, ProcessAlive, RegistrationTypeOK
<1>1. CASE Begin
  BY <1>1 DEF Begin, FirstCall, Commands
<1>2. CASE Killed
  BY <1>2 DEF Killed
<1>3. CASE ScriptStep
  <2>1. CASE StopAgent
    BY <2>1 DEF StopAgent, AfterStopAgent, Fail
  <2>2. CASE StartService
    BY <2>2 DEF StartService, Fail, Startable
  <2>3. CASE RemoveService
    BY <2>3 DEF RemoveService
  <2>4. CASE Prepare \/ WaitForAgentToStop \/ Download \/ Verify \/ CopyWinsForCharts \/
            SetWinsConfig \/ AppendConfig \/ StartAgent \/ WaitForAgentToRun \/
            AssertRke2NotRunning \/ StopProcesses \/ WaitForProcesses \/ RemoveWinsForCharts
            \/ RemoveWinsConfig
    BY <2>4 DEF Prepare, WaitForAgentToStop, Download, Verify, CopyWinsForCharts,
        SetWinsConfig, AppendConfig, StartAgent, WaitForAgentToRun, AssertRke2NotRunning,
        StopProcesses, WaitForProcesses, RemoveWinsForCharts, RemoveWinsConfig,
        AfterStopAgent, Fail
  <2> QED
    BY <1>3, <2>1, <2>2, <2>3, <2>4 DEF ScriptStep
<1>4. CASE RegistrationStep /\ UNCHANGED otherVars
  <2>1. CASE OpenRegistered
    BY <1>4, <2>1 DEF OpenRegistered, Return, otherVars
  <2>2. CASE DeleteRegistered
    BY <1>4, <2>2 DEF DeleteRegistered, Return, otherVars
  <2>3. CASE CreateRegistered
    BY <1>4, <2>3 DEF CreateRegistered, Return, otherVars
  <2>4. CASE UnregisterService
    BY <1>4, <2>4 DEF UnregisterService, Return, otherVars
  <2>5. CASE StopRegistered \/ StatusOfControl \/ AddFailureActions \/ CreateEventLog
    BY <1>4, <2>5 DEF StopRegistered, StatusOfControl, AddFailureActions, CreateEventLog,
        Return, otherVars
  <2> QED
    BY <1>4, <2>1, <2>2, <2>3, <2>4, <2>5 DEF RegistrationStep
<1>5. CASE EntryGoes /\ UNCHANGED otherVars
  BY <1>5 DEF EntryGoes, otherVars
<1>6. CASE SomebodyStarts \/ ServiceStep \/ ServiceDies
  BY <1>6 DEF ServiceStep, SomebodyStarts, ServiceLoadsConfig, ServiceReportsRunning,
      ServiceStops, ServiceDies, Startable
<1>7. CASE UNCHANGED vars
  BY <1>7
<1> QED
  BY <1>1, <1>2, <1>3, <1>4, <1>5, <1>6, <1>7 DEF Next

\* TypeOK, with what it needs, is inductive.
LEMMA TypeIInvStep == TypeIInv /\ [Next]_vars => TypeIInv'
<1> SUFFICES ASSUME TypeIInv, [Next]_vars
             PROVE  TypeIInv'
  OBVIOUS
<1>1. /\ RegistrationTypeOK /\ pc \in Labels /\ job \in Jobs /\ disturbed \in BOOLEAN
      /\ CountersOK /\ FilesOK /\ EntryOK /\ TriesStart /\ HandleHeld
  BY DEF TypeIInv, TypeOK
<1>2. RegistrationTypeOK'
  BY <1>1, RegistrationTypeStep
<1>3. pc' \in Labels
  BY <1>1, LabelTypeStep
<1>4. job' \in Jobs /\ disturbed' \in BOOLEAN
  BY <1>1, JobTypeStep
<1>5. CountersOK' /\ TriesStart'
  BY <1>1, CounterTypeStep
<1>6. FilesOK'
  BY <1>1, FileTypeStep
<1>7. EntryOK' /\ HandleHeld'
  BY <1>1, EntryTypeStep
<1> QED
  BY <1>2, <1>3, <1>4, <1>5, <1>6, <1>7 DEF TypeIInv, TypeOK

-----------------------------------------------------------------------------
(* The parts of IInv that speak of the end of a command.                   *)

\* No command makes a call of another one, and only an idle one has an exit
\* code.
LEMMA CallsFitStep ==
    ASSUME CallsFit, [Next]_vars
    PROVE  CallsFit'
<1> USE DEF CallsFit, RegisterLabels, InstallLabels, UninstallLabels
<1>1. CASE Begin
  BY <1>1 DEF Begin, FirstCall, Commands
<1>2. CASE Killed
  BY <1>2 DEF Killed
<1>3. CASE ScriptStep
  <2>1. CASE StopAgent
    BY <2>1 DEF StopAgent, AfterStopAgent, Fail
  <2>2. CASE WaitForAgentToStop
    BY <2>2 DEF WaitForAgentToStop, AfterStopAgent, Fail
  <2>3. CASE StartAgent
    BY <2>3 DEF StartAgent, Fail
  <2>4. CASE Prepare \/ Download \/ Verify \/ CopyWinsForCharts \/ SetWinsConfig \/
            AppendConfig \/ StartService \/ WaitForAgentToRun \/ AssertRke2NotRunning \/
            StopProcesses \/ WaitForProcesses \/ RemoveWinsForCharts \/ RemoveWinsConfig \/
            RemoveService
    BY <2>4 DEF Prepare, Download, Verify, CopyWinsForCharts, SetWinsConfig, AppendConfig,
        StartService, WaitForAgentToRun, AssertRke2NotRunning, StopProcesses,
        WaitForProcesses, RemoveWinsForCharts, RemoveWinsConfig, RemoveService, Fail,
        Startable
  <2> QED
    BY <1>3, <2>1, <2>2, <2>3, <2>4 DEF ScriptStep
<1>4. CASE RegistrationStep /\ UNCHANGED otherVars
  BY <1>4 DEF RegistrationStep, otherVars, OpenRegistered, StopRegistered, StatusOfControl,
      DeleteRegistered, CreateRegistered, AddFailureActions, CreateEventLog,
      UnregisterService, Return
<1>5. CASE EntryGoes /\ UNCHANGED otherVars
  BY <1>5 DEF EntryGoes, otherVars
<1>6. CASE SomebodyStarts \/ ServiceStep \/ ServiceDies
  BY <1>6 DEF ServiceStep, SomebodyStarts, ServiceLoadsConfig, ServiceReportsRunning,
      ServiceStops, ServiceDies, Startable
<1>7. CASE UNCHANGED vars
  BY <1>7
<1> QED
  BY <1>1, <1>2, <1>3, <1>4, <1>5, <1>6, <1>7 DEF Next

\* Between CreateService and the return of registerService nobody marks the
\* entry or takes its failure actions away; the service that EntryGoes removes
\* is the old one.
LEMMA EntryStaysStep ==
    ASSUME TypeOK, CallsFit, EntryStays, [Next]_vars
    PROVE  EntryStays'
<1> USE DEF CallsFit, EntryStays, RegisteredForGood, EntryOK, RegisterLabels, InstallLabels,
    UninstallLabels
<1> EntryOK
  BY DEF TypeOK
<1>1. CASE Begin
  BY <1>1 DEF Begin, FirstCall, Commands
<1>2. CASE Killed
  BY <1>2 DEF Killed
<1>3. CASE ScriptStep
  <2>1. CASE RemoveService
    BY <2>1 DEF RemoveService
  <2>2. CASE Prepare \/ StopAgent \/ WaitForAgentToStop \/ Download \/ Verify \/
            CopyWinsForCharts \/ SetWinsConfig \/ AppendConfig \/ StartAgent \/ StartService
            \/ WaitForAgentToRun \/ AssertRke2NotRunning \/ StopProcesses \/
            WaitForProcesses \/ RemoveWinsForCharts \/ RemoveWinsConfig
    BY <2>2 DEF Prepare, StopAgent, WaitForAgentToStop, Download, Verify, CopyWinsForCharts,
        SetWinsConfig, AppendConfig, StartAgent, StartService, WaitForAgentToRun,
        AssertRke2NotRunning, StopProcesses, WaitForProcesses, RemoveWinsForCharts,
        RemoveWinsConfig, AfterStopAgent, Fail, Startable
  <2> QED
    BY <1>3, <2>1, <2>2 DEF ScriptStep
<1>4. CASE RegistrationStep /\ UNCHANGED otherVars
  <2>1. CASE DeleteRegistered
    BY <1>4, <2>1 DEF DeleteRegistered, Return, otherVars
  <2>2. CASE CreateRegistered
    BY <1>4, <2>2 DEF CreateRegistered, Return, otherVars
  <2>3. CASE AddFailureActions
    BY <1>4, <2>3 DEF AddFailureActions, Return, otherVars
  <2>4. CASE CreateEventLog
    BY <1>4, <2>4 DEF CreateEventLog, Return, otherVars
  <2>5. CASE UnregisterService
    BY <1>4, <2>5 DEF UnregisterService, Return, otherVars
  <2>6. CASE OpenRegistered \/ StopRegistered \/ StatusOfControl
    BY <1>4, <2>6 DEF OpenRegistered, StopRegistered, StatusOfControl, Return, otherVars
  <2> QED
    BY <1>4, <2>1, <2>2, <2>3, <2>4, <2>5, <2>6 DEF RegistrationStep
<1>5. CASE EntryGoes /\ UNCHANGED otherVars
  BY <1>5 DEF EntryGoes, otherVars
<1>6. CASE SomebodyStarts \/ ServiceStep \/ ServiceDies
  BY <1>6 DEF ServiceStep, SomebodyStarts, ServiceLoadsConfig, ServiceReportsRunning,
      ServiceStops, ServiceDies, Startable
<1>7. CASE UNCHANGED vars
  BY <1>7
<1> QED
  BY <1>1, <1>2, <1>3, <1>4, <1>5, <1>6, <1>7 DEF Next

\* The checksum is compared with the file that is copied, and no call after the
\* copy touches either.
LEMMA VerifiedStep ==
    ASSUME TypeOK, CallsFit, VerifiedSoFar, [Next]_vars
    PROVE  VerifiedSoFar'
<1> USE DEF CallsFit, VerifiedSoFar, FilesOK, RegisterLabels, InstallLabels, UninstallLabels
<1> FilesOK
  BY DEF TypeOK
<1>1. CASE Begin
  BY <1>1 DEF Begin, FirstCall, Commands
<1>2. CASE Killed
  BY <1>2 DEF Killed
<1>3. CASE ScriptStep
  <2>1. CASE Download
    BY <2>1 DEF Download, Fail
  <2>2. CASE Verify
    BY <2>2 DEF Verify, Fail
  <2>3. CASE CopyWinsForCharts
    BY <2>3 DEF CopyWinsForCharts, Fail
  <2>4. CASE WaitForAgentToRun
    BY <2>4 DEF WaitForAgentToRun, Fail
  <2>5. CASE Prepare \/ StopAgent \/ WaitForAgentToStop \/ SetWinsConfig \/ AppendConfig \/
            StartAgent \/ StartService \/ AssertRke2NotRunning \/ StopProcesses \/
            WaitForProcesses \/ RemoveWinsForCharts \/ RemoveWinsConfig \/ RemoveService
    BY <2>5 DEF Prepare, StopAgent, WaitForAgentToStop, SetWinsConfig, AppendConfig,
        StartAgent, StartService, AssertRke2NotRunning, StopProcesses, WaitForProcesses,
        RemoveWinsForCharts, RemoveWinsConfig, RemoveService, AfterStopAgent, Fail,
        Startable
  <2> QED
    BY <1>3, <2>1, <2>2, <2>3, <2>4, <2>5 DEF ScriptStep
<1>4. CASE RegistrationStep /\ UNCHANGED otherVars
  BY <1>4 DEF RegistrationStep, otherVars, OpenRegistered, StopRegistered, StatusOfControl,
      DeleteRegistered, CreateRegistered, AddFailureActions, CreateEventLog,
      UnregisterService, Return
<1>5. CASE EntryGoes /\ UNCHANGED otherVars
  BY <1>5 DEF EntryGoes, otherVars
<1>6. CASE SomebodyStarts \/ ServiceStep \/ ServiceDies
  BY <1>6 DEF ServiceStep, SomebodyStarts, ServiceLoadsConfig, ServiceReportsRunning,
      ServiceStops, ServiceDies, Startable
<1>7. CASE UNCHANGED vars
  BY <1>7
<1> QED
  BY <1>1, <1>2, <1>3, <1>4, <1>5, <1>6, <1>7 DEF Next

\* The process that install.ps1 waits for is the one it has started itself,
\* after the last write of the config, unless somebody else starts one.
LEMMA FreshStep ==
    ASSUME TypeOK, CallsFit, FreshSoFar, [Next]_vars
    PROVE  FreshSoFar'
<1> USE DEF CallsFit, FreshSoFar, EntryOK, ProcessAlive, RegisterLabels, InstallLabels,
    UninstallLabels
<1> EntryOK
  BY DEF TypeOK
<1>1. CASE Begin
  BY <1>1 DEF Begin, FirstCall, Commands
<1>2. CASE Killed
  BY <1>2 DEF Killed
<1>3. CASE ScriptStep
  <2>1. CASE StopAgent
    BY <2>1 DEF StopAgent, AfterStopAgent, Fail
  <2>2. CASE WaitForAgentToStop
    BY <2>2 DEF WaitForAgentToStop, AfterStopAgent, Fail
  <2>3. CASE AppendConfig
    BY <2>3 DEF AppendConfig, Fail
  <2>4. CASE StartService
    BY <2>4 DEF StartService, Fail, Startable
  <2>5. CASE WaitForAgentToRun
    BY <2>5 DEF WaitForAgentToRun, Fail
  <2>6. CASE Prepare \/ Download \/ Verify \/ CopyWinsForCharts \/ SetWinsConfig \/
            StartAgent \/ AssertRke2NotRunning \/ StopProcesses \/ WaitForProcesses \/
            RemoveWinsForCharts \/ RemoveWinsConfig \/ RemoveService
    BY <2>6 DEF Prepare, Download, Verify, CopyWinsForCharts, SetWinsConfig, StartAgent,
        AssertRke2NotRunning, StopProcesses, WaitForProcesses, RemoveWinsForCharts,
        RemoveWinsConfig, RemoveService, Fail
  <2> QED
    BY <1>3, <2>1, <2>2, <2>3, <2>4, <2>5, <2>6 DEF ScriptStep
<1>4. CASE RegistrationStep /\ UNCHANGED otherVars
  <2>1. CASE StopRegistered
    BY <1>4, <2>1 DEF StopRegistered, Return, otherVars
  <2>2. CASE OpenRegistered \/ StatusOfControl \/ DeleteRegistered \/ CreateRegistered \/
            AddFailureActions \/ CreateEventLog \/ UnregisterService
    BY <1>4, <2>2 DEF OpenRegistered, StatusOfControl, DeleteRegistered, CreateRegistered,
        AddFailureActions, CreateEventLog, UnregisterService, Return, otherVars
  <2> QED
    BY <1>4, <2>1, <2>2 DEF RegistrationStep
<1>5. CASE EntryGoes /\ UNCHANGED otherVars
  BY <1>5 DEF EntryGoes, otherVars
<1>6. CASE SomebodyStarts \/ ServiceStep \/ ServiceDies
  <2>1. CASE SomebodyStarts
    BY <2>1 DEF SomebodyStarts, Startable, Runnable
  <2>2. CASE ServiceLoadsConfig
    BY <2>2 DEF ServiceLoadsConfig, Runnable
  <2>3. CASE ServiceReportsRunning \/ ServiceStops \/ ServiceDies
    BY <2>3 DEF ServiceReportsRunning, ServiceStops, ServiceDies, Runnable
  <2> QED
    BY <1>6, <2>1, <2>2, <2>3 DEF ServiceStep
<1>7. CASE UNCHANGED vars
  BY <1>7
<1> QED
  BY <1>1, <1>2, <1>3, <1>4, <1>5, <1>6, <1>7 DEF Next

\* Once the executable is removed, which a running process would prevent, no
\* start succeeds.
LEMMA GoneStep ==
    ASSUME TypeOK, CallsFit, GoneSoFar, [Next]_vars
    PROVE  GoneSoFar'
<1> USE DEF CallsFit, GoneSoFar, FilesOK, ProcessAlive, RegisterLabels, InstallLabels,
    UninstallLabels
<1> FilesOK
  BY DEF TypeOK
<1>1. CASE Begin
  BY <1>1 DEF Begin, FirstCall, Commands
<1>2. CASE Killed
  BY <1>2 DEF Killed
<1>3. CASE ScriptStep
  <2>1. CASE RemoveWinsForCharts
    BY <2>1 DEF RemoveWinsForCharts, Fail
  <2>2. CASE RemoveWinsConfig
    BY <2>2 DEF RemoveWinsConfig, Fail
  <2>3. CASE RemoveService
    BY <2>3 DEF RemoveService
  <2>4. CASE Prepare \/ StopAgent \/ WaitForAgentToStop \/ Download \/ Verify \/
            CopyWinsForCharts \/ SetWinsConfig \/ AppendConfig \/ StartAgent \/ StartService
            \/ WaitForAgentToRun \/ AssertRke2NotRunning \/ StopProcesses \/
            WaitForProcesses
    BY <2>4 DEF Prepare, StopAgent, WaitForAgentToStop, Download, Verify, CopyWinsForCharts,
        SetWinsConfig, AppendConfig, StartAgent, StartService, WaitForAgentToRun,
        AssertRke2NotRunning, StopProcesses, WaitForProcesses, AfterStopAgent, Fail,
        Startable
  <2> QED
    BY <1>3, <2>1, <2>2, <2>3, <2>4 DEF ScriptStep
<1>4. CASE RegistrationStep /\ UNCHANGED otherVars
  BY <1>4 DEF RegistrationStep, otherVars, OpenRegistered, StopRegistered, StatusOfControl,
      DeleteRegistered, CreateRegistered, AddFailureActions, CreateEventLog,
      UnregisterService, Return
<1>5. CASE EntryGoes /\ UNCHANGED otherVars
  BY <1>5 DEF EntryGoes, otherVars
<1>6. CASE SomebodyStarts \/ ServiceStep \/ ServiceDies
  <2>1. CASE SomebodyStarts
    BY <2>1 DEF SomebodyStarts, Startable, Runnable
  <2>2. CASE ServiceLoadsConfig \/ ServiceReportsRunning \/ ServiceStops \/ ServiceDies
    BY <2>2 DEF ServiceLoadsConfig, ServiceReportsRunning, ServiceStops, ServiceDies,
        Runnable
  <2> QED
    BY <1>6, <2>1, <2>2 DEF ServiceStep
<1>7. CASE UNCHANGED vars
  BY <1>7
<1> QED
  BY <1>1, <1>2, <1>3, <1>4, <1>5, <1>6, <1>7 DEF Next

-----------------------------------------------------------------------------
(* The theorems.                                                           *)

LEMMA IInvInit == Init => IInv
<1> SUFFICES ASSUME Init
             PROVE  IInv
  OBVIOUS
<1>1. RegistrationTypeOK /\ EntryOK /\ TriesStart /\ HandleHeld
  BY DEF Init, RegistrationTypeOK, EntryOK, ProcessAlive, TriesStart, HandleHeld
<1>2. pc \in Labels /\ job \in Jobs /\ disturbed \in BOOLEAN
  BY DEF Init, Labels, Jobs
<1>3. FilesOK
  BY DEF Init, FilesOK, Contents
<1>4. CountersOK
  BY InstallerAssumption DEF Init, CountersOK
<1>5. CallsFit /\ EntryStays /\ VerifiedSoFar /\ FreshSoFar /\ GoneSoFar
  BY DEF Init, CallsFit, EntryStays, RegisteredForGood, VerifiedSoFar, FreshSoFar, GoneSoFar,
      RegisterLabels, InstallLabels, UninstallLabels
<1> QED
  BY <1>1, <1>2, <1>3, <1>4, <1>5 DEF IInv, TypeIInv, TypeOK

LEMMA IInvStep == IInv /\ [Next]_vars => IInv'
BY TypeIInvStep, CallsFitStep, EntryStaysStep, VerifiedStep, FreshStep, GoneStep DEF IInv, TypeIInv

LEMMA IInvCorrect == Spec => []IInv
BY IInvInit, IInvStep, PTL DEF Spec

\* Every variable keeps its type, for any bounds; the attempts at the download and
\* Start-Agent's polls stay within theirs (install.ps1).
THEOREM TypeCorrect == Spec => []TypeOK
<1>1. IInv => TypeOK
  BY DEF IInv, TypeIInv
<1> QED
  BY <1>1, IInvCorrect, PTL

\* registerService returns nil only with a service that has its failure actions
\* and will stay (run_service.go).
THEOREM RegisteredForGoodCorrect == Spec => []RegisteredForGood
<1>1. IInv => RegisteredForGood
  BY DEF IInv, EntryStays
<1> QED
  BY <1>1, IInvCorrect, PTL

\* install.ps1 with a checksum exits with 0 only if the service runs from the
\* wins.exe the checksum is of.
THEOREM InstalledIsVerifiedCorrect == Spec => []InstalledIsVerified
<1>1. IInv => InstalledIsVerified
  BY DEF IInv, VerifiedSoFar, InstalledIsVerified
<1> QED
  BY <1>1, IInvCorrect, PTL

\* After an installation that nobody disturbed the process has read all of the
\* config that install.ps1 has written.
THEOREM InstalledIsFreshCorrect == Spec => []InstalledIsFresh
<1>1. IInv => InstalledIsFresh
  BY DEF IInv, FreshSoFar, InstalledIsFresh
<1> QED
  BY <1>1, IInvCorrect, PTL

\* After a successful uninstallation no process is left and none can be started,
\* whoever tried to in between (uninstall.ps1).
THEOREM UninstalledIsGoneCorrect == Spec => []UninstalledIsGone
<1>1. IInv => UninstalledIsGone
  BY DEF IInv, GoneSoFar, UninstalledIsGone, Startable, Runnable
<1> QED
  BY <1>1, IInvCorrect, PTL
=============================================================================
