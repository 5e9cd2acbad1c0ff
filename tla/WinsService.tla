---------------------------- MODULE WinsService ----------------------------
(***************************************************************************)
(* The rancher-wins process run by the service control manager             *)
(* (cmd/server/app): the main goroutine, which loads the config, enables   *)
(* the CSI proxy and then waits in runService; the goroutine in svc.Run;   *)
(* the handler in Execute; and the goroutine in systemagent's Run.  They   *)
(* share the unbuffered channel errC, on which only main receives, and     *)
(* doneC.  When main returns, the process and every goroutine end at once, *)
(* wherever they are.                                                      *)
(*                                                                         *)
(* What it does for the CSI proxy is module CsiProxy, and for stack dumps  *)
(* module StackDump.  A session on the console (debug.Run), the system     *)
(* agent's own work and Interrogate, which changes nothing, are left out.  *)
(***************************************************************************)
EXTENDS Naturals, CsiProxy, StackDump

CONSTANTS
    ConfigFiles, \* the config files others may write
    MaxCrashes   \* bound on the unexpected ends of the process

ASSUME MaxCrashesAssumption == MaxCrashes \in Nat

VARIABLES
    runner,   \* the goroutine in svc.Run
    handler,  \* the goroutine in Execute
    agent,    \* the goroutine in systemagent's Run
    doneC,    \* whether it is closed
    status,   \* the service's status in the SCM
    stop,     \* a stop control the handler has not answered yet
    loaded,   \* the config the process read
    cfgFile,  \* the config file
    recovery, \* whether the SCM owes the service a restart by its recovery actions
    crashes   \* how many times the process ended unexpectedly

goroutines == <<runner, handler, agent, doneC>>
scm == <<status, stop, recovery, crashes>>
configVars == <<loaded, cfgFile, csiWanted, csiVars>>
vars == <<main, result, goroutines, scm, configVars, dumpVars>>

Unread == [debug |-> "false", strict |-> "false", conn |-> "unread"]

\* The SCM and the process as module WindowsHost takes them to be.
Host == INSTANCE WindowsHost
    WITH winsState <- IF stop THEN "StopPending" ELSE status,
         loaded <- IF status = "Stopped" THEN Unread ELSE loaded,
         Wins <- "rancher-wins", Slash <- "/", OtherDeps <- {}, WinsAtFirst <- {"Stopped"},
         HostEvents <- {},
         delayedStart <- FALSE, rke2State <- "Absent", rke2Deps <- {},
         exe <- [path \in {"windows", "local"} |-> "old"]

ASSUME ConfigFilesAssumption == ConfigFiles \subseteq Host!Configs

Sending == {"sends nil", "sends err"}

TypeOK ==
    /\ CsiTypeOK /\ DumpTypeOK
    /\ main \in {"none", "loadConfig", "runService", "select", "return"} \cup CsiLabels
    /\ result \in {"nil", "err"}
    /\ runner \in {"none", "run", "waits", "done"} \cup Sending
    /\ handler \in {"none", "execute", "report", "loop", "close", "returned"}
    /\ agent \in {"none", "run", "done"} \cup Sending
    /\ doneC = (handler = "returned")   \* closed once, for good
    /\ status \in Host!ServiceStates
    /\ stop \in BOOLEAN
    /\ loaded \in Host!Configs \cup {Unread}
    /\ cfgFile \in Host!Configs
    /\ recovery \in {"none", "due"}
    /\ crashes \in 0..MaxCrashes

NoProcess ==
    /\ main = "none" /\ result = "nil"
    /\ runner = "none" /\ handler = "none" /\ agent = "none"
    /\ doneC = FALSE

Init ==
    /\ NoProcess /\ CsiInit /\ DumpInit
    /\ status = "Stopped" /\ stop = FALSE
    /\ cfgFile = [debug |-> "false", strict |-> "false", conn |-> "old"]
    /\ loaded = Unread
    /\ recovery = "none" /\ crashes = 0

-----------------------------------------------------------------------------
(* The service control manager and the rest of the host.                   *)

\* On request, or because recovery is due.  MaxCrashes bounds the last start.
ScmStarts ==
    /\ status = "Stopped" /\ main = "none" /\ crashes < MaxCrashes
    /\ status' = "StartPending"
    /\ recovery' = "none"
    /\ main' = "loadConfig"
    /\ UNCHANGED <<result, goroutines, stop, crashes, configVars, dumpVars>>

ScmSendsStop ==
    /\ status = "Running" /\ ~stop
    /\ stop' = TRUE
    /\ UNCHANGED <<main, result, goroutines, status, recovery, crashes, configVars, dumpVars>>

ConfigWritten ==
    /\ cfgFile' \in ConfigFiles
    /\ UNCHANGED <<main, result, goroutines, scm, loaded, csiWanted, csiVars, dumpVars>>

\* The process is gone; one that had not reported Stopped failed.
ProcessEnds ==
    /\ main' = "none" /\ result' = "nil"
    /\ runner' = "none" /\ handler' = "none" /\ agent' = "none"
    /\ doneC' = FALSE
    /\ loaded' = Unread /\ csiWanted' = FALSE
    /\ status' = "Stopped" /\ stop' = FALSE
    /\ IF status = "Stopped" THEN UNCHANGED <<recovery, crashes>>
       ELSE recovery' = "due" /\ crashes' = crashes + 1
    /\ DumperEnds
    /\ UNCHANGED <<cfgFile, csiVars>>

\* A kill, or a logrus.Fatal of a goroutine.
Killed == main # "none" /\ ProcessEnds

-----------------------------------------------------------------------------
(* The main goroutine: _runAction and runService.                          *)

LoadConfig ==
    /\ main = "loadConfig"
    /\ \/ /\ loaded' = cfgFile
          /\ csiWanted' \in BOOLEAN
          /\ Goto(IF csiWanted' THEN "newCSI" ELSE "runService")
       \/ Return("err") /\ UNCHANGED <<loaded, csiWanted>>
    /\ UNCHANGED <<goroutines, scm, cfgFile, csiVars, dumpVars>>

EnableCSI ==
    CsiStep /\ UNCHANGED <<goroutines, scm, loaded, cfgFile, csiWanted, dumpVars>>

RunService ==
    /\ main = "runService"
    /\ \/ Goto("select") /\ runner' = "run" /\ SetupDumpStacks
       \/ Return("err") /\ UNCHANGED <<runner, dumpVars>>
    /\ UNCHANGED <<handler, agent, doneC, scm, configVars>>

\* Mutant: whatever arrives on errC ends runService.
ReceiveAny(sent) == Return(IF sent = "sends err" THEN "err" ELSE "nil")

\* Mutant: an error on errC does not end runService.
ReceiveNone(sent) == UNCHANGED <<main, result>>

\* case err := <-h.errC: only an error ends runService.
Receive(sent) ==
    IF sent = "sends err" THEN Return("err") ELSE UNCHANGED <<main, result>>

SelectErrC ==
    /\ main = "select"
    /\ \/ runner \in Sending /\ Receive(runner) /\ runner' = "done" /\ UNCHANGED agent
       \/ agent \in Sending /\ Receive(agent) /\ agent' = "done" /\ UNCHANGED runner
    /\ UNCHANGED <<handler, doneC, scm, configVars, dumpVars>>

SelectDoneC ==
    /\ main = "select" /\ doneC
    /\ Return("nil")
    /\ UNCHANGED <<goroutines, scm, configVars, dumpVars>>

Exit == main = "return" /\ ProcessEnds

MainStep == LoadConfig \/ EnableCSI \/ RunService \/ SelectErrC \/ SelectDoneC \/ Exit

-----------------------------------------------------------------------------
(* The goroutine in svc.Run, the handler and the agent.                    *)

SvcRun ==
    /\ runner = "run"
    /\ \/ runner' = "waits" /\ handler' = "execute"
       \/ runner' = "sends err" /\ UNCHANGED handler
    /\ UNCHANGED <<main, result, agent, doneC, scm, configVars, dumpVars>>

\* When Execute has returned, svc.Run reports Stopped for it and returns.
SvcRunReturns ==
    /\ runner = "waits" /\ handler = "returned"
    /\ status' = "Stopped"
    /\ runner' = "sends nil"
    /\ UNCHANGED <<main, result, handler, agent, doneC, stop, recovery, crashes, configVars, dumpVars>>

RunnerStep == SvcRun \/ SvcRunReturns

\* Execute reports StartPending and starts the agent ...
ExecuteStartsAgent ==
    /\ handler = "execute"
    /\ agent' = "run"
    /\ handler' = "report"
    /\ UNCHANGED <<main, result, runner, doneC, scm, configVars, dumpVars>>

\* ... reports Running ...
ExecuteReportsRunning ==
    /\ handler = "report"
    /\ status' = "Running"
    /\ handler' = "loop"
    /\ UNCHANGED <<main, result, runner, agent, doneC, stop, recovery, crashes, configVars, dumpVars>>

\* Mutants: the handler answers as to an interrogation; doneC is closed while the
\* handler is still going to close it.
ExecuteKeepsRunning ==
    /\ handler = "loop" /\ stop
    /\ stop' = FALSE
    /\ UNCHANGED <<main, result, goroutines, status, recovery, crashes, configVars, dumpVars>>

ExecuteClosesEarly ==
    /\ handler = "loop" /\ stop
    /\ status' = "StopPending" /\ stop' = FALSE
    /\ doneC' = TRUE
    /\ handler' = "close"
    /\ UNCHANGED <<main, result, runner, agent, recovery, crashes, configVars, dumpVars>>

\* ... answers a stop ...
ExecuteStops ==
    /\ handler = "loop" /\ stop
    /\ status' = "StopPending" /\ stop' = FALSE
    /\ handler' = "close"
    /\ UNCHANGED <<main, result, runner, agent, doneC, recovery, crashes, configVars, dumpVars>>

\* Mutant: nobody closes doneC.
ExecuteLeavesDoneC ==
    /\ handler = "close"
    /\ handler' = "returned"
    /\ UNCHANGED <<main, result, runner, agent, doneC, scm, configVars, dumpVars>>

\* ... and closes doneC before it returns and the SCM hears of Stopped.
ExecuteReturns ==
    /\ handler = "close"
    /\ doneC' = TRUE
    /\ handler' = "returned"
    /\ UNCHANGED <<main, result, runner, agent, scm, configVars, dumpVars>>

HandlerStep == ExecuteStartsAgent \/ ExecuteReportsRunning \/ ExecuteStops \/ ExecuteReturns

\* Without a config, and once the watches have started, Run returns nil.
AgentRun ==
    /\ agent = "run"
    /\ agent' \in Sending
    /\ UNCHANGED <<main, result, runner, handler, doneC, scm, configVars, dumpVars>>

-----------------------------------------------------------------------------
otherVars == <<main, result, goroutines, scm, configVars>>

Dump == DumperStep /\ UNCHANGED otherVars
StackDumpCommand == CommandStep(main # "none") /\ UNCHANGED otherVars

Next ==
    \/ ScmStarts \/ ScmSendsStop \/ ConfigWritten \/ Killed
    \/ MainStep \/ RunnerStep \/ HandlerStep \/ AgentRun
    \/ Dump \/ StackDumpCommand

\* The Go scheduler runs every goroutine that can go on; nothing is assumed of
\* the SCM, of whoever writes the config file, nor of how long the agent takes.
Fairness == WF_vars(MainStep) /\ WF_vars(RunnerStep) /\ WF_vars(HandlerStep)

Spec == Init /\ [][Next]_vars /\ Fairness

-----------------------------------------------------------------------------
\* Seen from the SCM and from the updater, the process is what module
\* WindowsHost takes it for: it loads the config before it reports Running, ends
\* by itself only after a stop, and otherwise leaves a recovery due.
ImplementsHost == Host!WinsSpec

\* A process that started serving returns no error only if it was asked to stop:
\* neither the agent's nil nor svc.Run's ends the service.
CleanExitWasAskedFor ==
    main = "return" /\ result = "nil" /\ runner # "none" =>
        doneC /\ status \in {"StopPending", "Stopped"}

\* A process that was to provide the CSI proxy serves only over a registered
\* service whose executable was downloaded to the end, however many processes
\* failed, panicked or were killed on the way there.
ServesOverCsi ==
    runner # "none" /\ csiWanted =>
        csiService # "none" /\ csiExe \in {"whole", "empty"}

\* An error of the agent, which the SCM cannot see, ends the process, so that
\* the recovery actions take over, whatever the other goroutines do.
AgentFailureEnds == agent = "sends err" ~> main = "none"

\* A stop control is answered by the end of the process: no goroutine waits for
\* errC so long that another one, or main, cannot go on.
StopEnds == stop ~> main = "none"

\* As long as no process has ended unexpectedly, a CSI proxy that is wanted has
\* been started before the service serves.  An unexpected end may leave a service
\* that is not started, and no later process starts it.
CsiIsStarted ==
    crashes = 0 /\ runner # "none" /\ csiWanted => csiService = "started"

\* A dump begins only for a signal sent since the one before it began: the goroutine
\* does not go round with a signal that stays, however the command's two calls
\* fall among its own and wherever the command is killed.
DumpIsOwed == [][dumper = "waits" /\ dumper' = "dumps" => owed]_vars
=============================================================================
