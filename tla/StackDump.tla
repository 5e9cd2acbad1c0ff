----------------------------- MODULE StackDump -----------------------------
(***************************************************************************)
(* Stack dumps on demand (pkg/profilings): `wins stackdump` looks for the  *)
(* rancher-wins process, opens its event Global\stackdump-{pid}, sets it   *)
(* and resets it; a goroutine of that process waits on the event and dumps *)
(* the stacks to a file.  The event is an auto-reset event: the wait that  *)
(* takes the signal resets it.  Module WinsService composes the two with   *)
(* the process's other goroutines.                                         *)
(*                                                                         *)
(* The commands run one at a time.  A wait may be suspended by the kernel  *)
(* for a moment, so that a signal that is reset at once may be missed even *)
(* by a goroutine that waits, as with PulseEvent.  A pid that is used      *)
(* again while a command holds the old event is left out.                  *)
(***************************************************************************)

VARIABLES
    dumper,  \* SetupDumpStacks' goroutine
    event,   \* the event of the rancher-wins process
    command, \* wins stackdump: the call it is about to make, or "none"
    target,  \* the process it found: the "service", or an "other" one, which is
             \* gone or is the command itself, a wins.exe too
    owed     \* history: a signal was sent since the last dump began

dumpVars == <<dumper, event, command, target, owed>>

DumpTypeOK ==
    /\ dumper \in {"none", "waits", "dumps"}
    /\ event \in {"none", "unset", "set"}
    /\ event = "none" <=> dumper = "none"
    /\ command \in {"none", "openEvent", "setEvent", "resetEvent"}
    /\ target \in {"service", "other"}
    /\ owed \in BOOLEAN

DumpInit ==
    /\ dumper = "none" /\ event = "none" /\ owed = FALSE
    /\ command = "none" /\ target = "other"

-----------------------------------------------------------------------------
(* The rancher-wins process.                                               *)

\* An event that cannot be created is only logged.
SetupDumpStacks ==
    /\ \/ dumper' = "waits" /\ event' = "unset"
       \/ UNCHANGED <<dumper, event>>
    /\ UNCHANGED <<command, target, owed>>

\* Mutant: a manual-reset event, which a wait leaves as it is.
WaitWithoutReset ==
    /\ dumper = "waits" /\ event = "set"
    /\ dumper' = "dumps" /\ owed' = FALSE
    /\ UNCHANGED <<event, command, target>>

WaitForSignal ==
    /\ dumper = "waits" /\ event = "set"
    /\ dumper' = "dumps" /\ event' = "unset" /\ owed' = FALSE
    /\ UNCHANGED <<command, target>>

\* The buffer grows until all stacks fit.  Errors of the file end nothing.
DumpStacksToFile ==
    /\ dumper = "dumps" /\ dumper' = "waits"
    /\ UNCHANGED <<event, command, target, owed>>

\* The goroutine ends with its process.  A command keeps the event it has opened,
\* which no other process will find.
DumperEnds ==
    /\ dumper' = "none" /\ event' = "none" /\ owed' = FALSE
    /\ target' = "other"
    /\ UNCHANGED command

DumperStep == WaitForSignal \/ DumpStacksToFile

-----------------------------------------------------------------------------
(* wins stackdump.                                                         *)

CommandEnds == command' = "none" /\ target' = "other"

\* The first process named wins, or pid 0 if there is none.
FindWinsProcess(running) ==
    /\ command = "none" /\ command' = "openEvent"
    /\ target' \in IF running THEN {"service", "other"} ELSE {"other"}
    /\ UNCHANGED <<dumper, event, owed>>

OpenEvent ==
    /\ command = "openEvent"
    /\ \/ /\ target = "service" /\ event # "none"
          /\ command' = "setEvent"
          /\ UNCHANGED target
       \/ CommandEnds
    /\ UNCHANGED <<dumper, event, owed>>

\* The handle outlives the process the event was created by.
SetEvent ==
    /\ command = "setEvent" /\ command' = "resetEvent"
    /\ IF target = "service" THEN event' = "set" /\ owed' = TRUE
       ELSE UNCHANGED <<event, owed>>
    /\ UNCHANGED <<dumper, target>>

ResetEvent ==
    /\ command = "resetEvent" /\ CommandEnds
    /\ event' = IF target = "service" THEN "unset" ELSE event
    /\ UNCHANGED <<dumper, owed>>

CommandKilled ==
    /\ command # "none" /\ CommandEnds
    /\ UNCHANGED <<dumper, event, owed>>

CommandStep(running) ==
    FindWinsProcess(running) \/ OpenEvent \/ SetEvent \/ ResetEvent \/ CommandKilled
=============================================================================
