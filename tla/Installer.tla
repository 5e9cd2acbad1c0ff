----------------------------- MODULE Installer -----------------------------
(***************************************************************************)
(* The commands an operator runs on a node: install.ps1, uninstall.ps1 and *)
(* `wins.exe srv app run` with --register or --unregister (module          *)
(* Registration), one at a time, each of which may fail at every call or   *)
(* be killed, while the service runs, dies and is started by others: its   *)
(* failure actions, an operator, a service that depends on it.             *)
(*                                                                         *)
(* In the scripts an error of a cmdlet ends the script, and the exit code  *)
(* of a program it runs means nothing unless it is looked at.              *)
(***************************************************************************)
EXTENDS Naturals, Registration

CONSTANTS
    DownloadAttempts, \* Invoke-RancherFileDownload's 6
    StartPolls,       \* Start-Agent's timeout of 120 seconds, in steps of 5
    MaxCommands       \* bound on the commands run

ASSUME InstallerAssumption ==
    DownloadAttempts \in Nat /\ StartPolls \in Nat /\ MaxCommands \in Nat

VARIABLES
    job,       \* the environment of the command: where wins.exe comes from, and its checksum
    tries,     \* retries, or elapsed / 5
    exe,       \* wins.exe in c:/usr/local/bin and in c:/windows, where the service runs from
    cfg,       \* the config file
    loaded,    \* the config the process has read
    commands,  \* how many commands were run
    disturbed  \* history: whether others started the service since the command began

hostVars == <<scmVars, exe, cfg, loaded, disturbed>>
fileVars == <<exe, cfg>>
jobVars == <<job, commands>>
vars == <<registrationVars, jobVars, tries, fileVars, loaded, disturbed>>

Jobs == [local : BOOLEAN, checksum : BOOLEAN]

\* A download may be broken, or a page that reports an error.
Contents == {"none", "bad", "old", "new"}

ScriptLabels ==
    {"prepare", "stopAgent", "waitStopped", "download", "verify", "copyWindows",
     "setConfig", "appendConfig", "startAgent", "startService", "waitRunning",
     "assertRke2", "stopProcesses", "waitGone", "removeExe", "removeConfig", "removeService"}

Labels == {"idle"} \cup RegistrationLabels \cup ScriptLabels

CountersOK ==
    /\ tries \in 0..DownloadAttempts \cup 0..StartPolls
    /\ pc = "download" => tries <= DownloadAttempts
    /\ pc = "waitRunning" => tries <= StartPolls
    /\ commands \in 0..MaxCommands

FilesOK ==
    /\ exe \in [{"local", "windows"} -> Contents]
    /\ cfg \in {"none", "old", "partial", "new"}
    /\ loaded \in {"unread", "none", "old", "partial", "new"}

\* Neither a mark nor a process without an entry.
EntryOK ==
    /\ marked => entry # "none"
    /\ entry = "none" => ~ProcessAlive

TypeOK ==
    /\ RegistrationTypeOK
    /\ pc \in Labels
    /\ job \in Jobs
    /\ disturbed \in BOOLEAN
    /\ CountersOK
    /\ FilesOK
    /\ EntryOK

\* A new node, or one with an older version installed.
Init ==
    /\ \/ /\ entry = "none" /\ winsState = "Stopped"
          /\ exe = [local |-> "none", windows |-> "none"] /\ cfg = "none"
       \/ /\ entry = "full" /\ winsState \in {"Stopped", "Running"}
          /\ exe = [local |-> "old", windows |-> "old"] /\ cfg = "old"
    /\ marked = FALSE
    /\ loaded = IF winsState = "Running" THEN cfg ELSE "unread"
    /\ command = "none" /\ pc = "idle" /\ code = "none" /\ seen = "Stopped"
    /\ job = [local |-> FALSE, checksum |-> FALSE]
    /\ tries = 0
    /\ commands = 0 /\ disturbed = FALSE

-----------------------------------------------------------------------------
(* The service and those who start it.                                     *)

Runnable == exe["windows"] \in {"old", "new"}
Startable == entry # "none" /\ ~marked /\ ~ProcessAlive /\ Runnable

SomebodyStarts ==
    /\ Startable
    /\ winsState' = "StartPending"
    /\ loaded' = "unread"
    /\ disturbed' = TRUE
    /\ UNCHANGED <<entry, marked, command, pc, code, seen, jobVars, tries, fileVars>>

\* A file that is not there decodes to the default.
ServiceLoadsConfig ==
    /\ winsState = "StartPending" /\ loaded = "unread"
    /\ loaded' = cfg
    /\ UNCHANGED <<registrationVars, jobVars, tries, fileVars, disturbed>>

ServiceReportsRunning ==
    /\ winsState = "StartPending" /\ loaded # "unread"
    /\ winsState' = "Running"
    /\ UNCHANGED <<entry, marked, command, pc, code, seen, jobVars, tries, fileVars,
                   loaded, disturbed>>

ServiceStops ==
    /\ winsState = "StopPending"
    /\ winsState' = "Stopped"
    /\ loaded' = "unread"
    /\ UNCHANGED <<entry, marked, command, pc, code, seen, jobVars, tries, fileVars, disturbed>>

ServiceDies ==
    /\ winsState \in {"StartPending", "Running"}
    /\ winsState' = "Stopped"
    /\ loaded' = "unread"
    /\ UNCHANGED <<entry, marked, command, pc, code, seen, jobVars, tries, fileVars, disturbed>>

ServiceStep == ServiceLoadsConfig \/ ServiceReportsRunning \/ ServiceStops

-----------------------------------------------------------------------------
(* Beginning and end of a command.                                         *)

FirstCall == [register |-> "open", unregister |-> "unregister",
              install |-> "prepare", uninstall |-> "assertRke2"]

\* --register and --unregister need an executable to run.
Begin ==
    /\ pc = "idle" /\ commands < MaxCommands
    /\ command' \in IF Runnable THEN Commands ELSE {"install", "uninstall"}
    /\ pc' = FirstCall[command']
    /\ job' \in Jobs
    /\ code' = "none"
    /\ tries' = 0
    /\ commands' = commands + 1
    /\ disturbed' = FALSE
    /\ UNCHANGED <<scmVars, seen, fileVars, loaded>>

Fail == Finish("err")

\* What is being written is left incomplete.
Killed ==
    /\ pc # "idle" /\ Finish("killed")
    /\ \/ UNCHANGED exe
       \/ pc = "download" /\ exe' = [exe EXCEPT !["local"] = "bad"]
       \/ pc = "copyWindows" /\ ~ProcessAlive /\ exe' = [exe EXCEPT !["windows"] = "bad"]
    /\ UNCHANGED <<scmVars, command, seen, jobVars, tries, cfg, loaded, disturbed>>

-----------------------------------------------------------------------------
(* install.ps1                                                             *)

\* Environment, directories, certificates and Rancher's address (all of module
\* RancherConnection up to the config file).  The request for the CA has no time
\* limit: this call need not return.
Prepare ==
    /\ pc = "prepare"
    /\ Goto("stopAgent") \/ Fail
    /\ UNCHANGED <<hostVars, command, seen, jobVars, tries>>

AfterStopAgent == Goto(IF command = "install" THEN "download" ELSE "stopProcesses")

\* Both scripts have it.  Stop-Service waits for a service that is stopping and
\* fails for one that is starting or that another one needs.
StopAgent ==
    /\ pc = "stopAgent"
    /\ \/ entry = "none" /\ AfterStopAgent /\ UNCHANGED winsState
       \/ /\ entry # "none" /\ winsState \in {"Stopped", "StopPending"}
          /\ Goto("waitStopped")
          /\ UNCHANGED winsState
       \/ /\ entry # "none" /\ winsState = "Running"
          /\ winsState' = "StopPending"
          /\ Goto("waitStopped")
       \/ Fail /\ UNCHANGED winsState
    /\ UNCHANGED <<entry, marked, command, seen, fileVars, loaded, disturbed, jobVars, tries>>

\* There is no bound on the wait, and the stop is not sent again.
WaitForAgentToStop ==
    /\ pc = "waitStopped"
    /\ \/ ~ProcessAlive /\ AfterStopAgent
       \/ entry = "none" /\ Fail
    /\ UNCHANGED <<hostVars, command, seen, jobVars, tries>>

\* curl reports 200 for a transfer that was broken off, and writes the page it
\* gets with any other code in place of the file.
Download ==
    /\ pc = "download"
    /\ \/ /\ job.local
          /\ exe' = [exe EXCEPT !["local"] = "new"]
          /\ Goto("verify")
          /\ UNCHANGED tries
       \/ /\ \E left \in {"bad", exe["local"]} : exe' = [exe EXCEPT !["local"] = left]
          /\ job.local /\ Fail
          /\ UNCHANGED tries
       \/ /\ ~job.local /\ tries < DownloadAttempts
          /\ \/ /\ \E got \in {"bad", "new"} : exe' = [exe EXCEPT !["local"] = got]
                /\ Goto("verify")
                /\ UNCHANGED tries
             \/ /\ \E got \in {"bad", exe["local"]} : exe' = [exe EXCEPT !["local"] = got]
                /\ tries' = tries + 1
                /\ UNCHANGED <<pc, code>>
       \/ /\ ~job.local /\ tries = DownloadAttempts
          /\ Goto("verify")
          /\ UNCHANGED <<exe, tries>>
    /\ UNCHANGED <<scmVars, command, seen, jobVars, cfg, loaded, disturbed>>

\* Mutant: the file has to be there, and that is all.
VerifyPresence ==
    /\ pc = "verify"
    /\ IF exe["local"] = "none" THEN Fail ELSE Goto("copyWindows")
    /\ UNCHANGED <<hostVars, command, seen, jobVars, tries>>

\* Whatever the file is, when there is no checksum.  The uninstall script's
\* download, which follows, may fail.
Verify ==
    /\ pc = "verify"
    /\ \/ /\ exe["local"] # "none"
          /\ job.checksum => exe["local"] = "new"
          /\ Goto("copyWindows")
       \/ Fail
    /\ UNCHANGED <<hostVars, command, seen, jobVars, tries>>

\* The executable of a running process cannot be written.
CopyWinsForCharts ==
    /\ pc = "copyWindows"
    /\ \/ /\ ~ProcessAlive
          /\ exe' = [exe EXCEPT !["windows"] = exe["local"]]
          /\ Goto("setConfig")
       \/ /\ ~ProcessAlive
          /\ exe' = [exe EXCEPT !["windows"] = "bad"]
          /\ Fail
       \/ Fail /\ UNCHANGED exe
    /\ UNCHANGED <<scmVars, command, seen, jobVars, tries, cfg, loaded, disturbed>>

\* The file is overwritten and then appended to.
SetWinsConfig ==
    /\ pc = "setConfig"
    /\ \/ cfg' = "partial" /\ Goto("appendConfig")
       \/ Fail /\ UNCHANGED cfg
    /\ UNCHANGED <<scmVars, command, seen, jobVars, tries, exe, loaded, disturbed>>

\* Mutant: an error of Add-Content does not end the script.
AppendIfPossible ==
    /\ pc = "appendConfig"
    /\ cfg' \in {cfg, "new"}
    /\ Goto("startAgent")
    /\ UNCHANGED <<scmVars, command, seen, jobVars, tries, exe, loaded, disturbed>>

\* Set-CsiProxyConfig too; the connection information and the proxy's settings
\* follow.
AppendConfig ==
    /\ pc = "appendConfig"
    /\ \/ cfg' = "new" /\ Goto("startAgent")
       \/ Fail /\ UNCHANGED cfg
    /\ UNCHANGED <<scmVars, command, seen, jobVars, tries, exe, loaded, disturbed>>

StartAgent ==
    /\ pc = "startAgent"
    /\ \/ entry = "none" /\ Runnable /\ Goto("open")
       \/ entry # "none" /\ Goto("startService")
       \/ Fail
    /\ UNCHANGED <<hostVars, command, seen, jobVars, tries>>

\* Start-Service leaves a service alone that is starting or running.
StartService ==
    /\ pc = "startService"
    /\ tries' = 0
    /\ \/ /\ Startable
          /\ winsState' = "StartPending" /\ loaded' = "unread"
          /\ Goto("waitRunning")
       \/ /\ winsState \in {"StartPending", "Running"}
          /\ Goto("waitRunning")
          /\ UNCHANGED <<winsState, loaded>>
       \/ Fail /\ UNCHANGED <<winsState, loaded>>
    /\ UNCHANGED <<entry, marked, command, seen, jobVars, fileVars, disturbed>>

\* Mutants: one poll too many; no timeout.
WaitOncePastTimeout ==
    /\ pc = "waitRunning"
    /\ winsState # "Running" /\ tries <= StartPolls
    /\ tries' = tries + 1
    /\ UNCHANGED <<hostVars, command, pc, code, seen, jobVars>>

WaitForever ==
    /\ pc = "waitRunning" /\ winsState = "Running"
    /\ Finish("ok")
    /\ UNCHANGED <<hostVars, command, seen, jobVars, tries>>

WaitForAgentToRun ==
    /\ pc = "waitRunning"
    /\ \/ /\ winsState = "Running"
          /\ Finish("ok")
          /\ UNCHANGED tries
       \/ /\ winsState # "Running" /\ tries < StartPolls
          /\ tries' = tries + 1
          /\ UNCHANGED <<pc, code>>
       \/ /\ tries = StartPolls \/ entry = "none"
          /\ Fail
          /\ UNCHANGED tries
    /\ UNCHANGED <<hostVars, command, seen, jobVars>>

-----------------------------------------------------------------------------
(* uninstall.ps1                                                           *)

\* The script ends here when rke2 is running.
AssertRke2NotRunning ==
    /\ pc = "assertRke2"
    /\ Goto("stopAgent") \/ Fail
    /\ UNCHANGED <<hostVars, command, seen, jobVars, tries>>

StopProcesses ==
    /\ pc = "stopProcesses"
    /\ \/ winsState' = "Stopped" /\ loaded' = "unread" /\ Goto("waitGone")
       \/ Fail /\ UNCHANGED <<winsState, loaded>>
    /\ UNCHANGED <<entry, marked, command, seen, jobVars, tries, fileVars, disturbed>>

\* The process is not stopped again if somebody starts it.
WaitForProcesses ==
    /\ pc = "waitGone" /\ ~ProcessAlive
    /\ Goto("removeExe")
    /\ UNCHANGED <<hostVars, command, seen, jobVars, tries>>

\* Mutant: an executable that is in use is left where it is.
RemoveIfPossible ==
    /\ pc = "removeExe"
    /\ exe' = IF ProcessAlive THEN exe ELSE [exe EXCEPT !["windows"] = "none"]
    /\ Goto("removeConfig")
    /\ UNCHANGED <<scmVars, command, seen, jobVars, tries, cfg, loaded, disturbed>>

RemoveWinsForCharts ==
    /\ pc = "removeExe"
    /\ \/ /\ ~ProcessAlive
          /\ exe' = [exe EXCEPT !["windows"] = "none"]
          /\ Goto("removeConfig")
       \/ Fail /\ UNCHANGED exe
    /\ UNCHANGED <<scmVars, command, seen, jobVars, tries, cfg, loaded, disturbed>>

RemoveWinsConfig ==
    /\ pc = "removeConfig"
    /\ \/ cfg' = "none" /\ Goto("removeService")
       \/ cfg' \in {cfg, "none"} /\ Fail
    /\ UNCHANGED <<scmVars, command, seen, jobVars, tries, exe, loaded, disturbed>>

\* Nobody looks at sc.exe's exit code.
RemoveService ==
    /\ pc = "removeService"
    /\ marked' \in {marked, entry # "none"}
    /\ Finish("ok")
    /\ UNCHANGED <<entry, winsState, command, seen, jobVars, tries, fileVars, loaded, disturbed>>

-----------------------------------------------------------------------------
ScriptStep ==
    \/ Prepare \/ StopAgent \/ WaitForAgentToStop \/ Download \/ Verify
    \/ CopyWinsForCharts \/ SetWinsConfig \/ AppendConfig
    \/ StartAgent \/ StartService \/ WaitForAgentToRun
    \/ AssertRke2NotRunning \/ StopProcesses \/ WaitForProcesses
    \/ RemoveWinsForCharts \/ RemoveWinsConfig \/ RemoveService

otherVars == <<jobVars, tries, fileVars, loaded, disturbed>>

CommandStep == ScriptStep \/ (RegistrationStep /\ UNCHANGED otherVars)

Next ==
    \/ Begin \/ Killed
    \/ ScriptStep
    \/ RegistrationStep /\ UNCHANGED otherVars
    \/ EntryGoes /\ UNCHANGED otherVars
    \/ SomebodyStarts \/ ServiceStep \/ ServiceDies

\* The command runs, but for the call that has no time limit, and the service
\* starts and stops when it is told to (which module WinsService shows of its
\* stops); nobody need start it.
Fairness == WF_vars(CommandStep /\ pc # "prepare") /\ WF_vars(ServiceStep)

Spec == Init /\ [][Next]_vars /\ Fairness

-----------------------------------------------------------------------------
\* registerService returns nil only with a service that has its failure actions
\* and will stay, even if it took the place of an older one that was deleted
\* under the hands of other programs.
RegisteredForGood ==
    command = "register" /\ code = "ok" => entry = "full" /\ ~marked

\* With a checksum, install.ps1 exits with 0 only if the service runs from the
\* wins.exe the checksum is of, whatever the attempts at the download and
\* earlier installations that were killed have left behind.
InstalledIsVerified ==
    command = "install" /\ code = "ok" /\ job.checksum => exe["windows"] = "new"

\* When install.ps1 exits with 0, the process has read the complete config,
\* unless somebody else started it before the script did.
InstalledIsFresh ==
    command = "install" /\ code = "ok" /\ ~disturbed /\ winsState = "Running" =>
        loaded = "new"

\* When uninstall.ps1 exits with 0, no process of the service is left, nor can
\* anybody start one, although others may have started it behind the script.
UninstalledIsGone ==
    command = "uninstall" /\ code = "ok" => ~ProcessAlive /\ ~Startable /\ cfg = "none"

\* Somebody has started the service behind a script that waits, without a time
\* limit, for its process to be gone.
WaitIsOutrun == pc \in {"waitStopped", "waitGone"} /\ disturbed /\ ProcessAlive

\* Somebody is starting the service that registerService's loop stops.
LoopIsOutrun == pc \in {"stopLoop", "answer"} /\ winsState = "StartPending"

\* Once the request for the CA is over, every command ends, or comes (again and
\* again, for as long as it lasts) to a call that is outrun by those who start the
\* service: one start may keep a script waiting for as long as the service runs,
\* and registerService's loop, which has no bound of its own, needs another start
\* for every turn.
CommandEnds == pc \notin {"idle", "prepare"} ~> pc = "idle" \/ WaitIsOutrun \/ LoopIsOutrun
=============================================================================
