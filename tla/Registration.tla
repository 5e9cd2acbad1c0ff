---------------------------- MODULE Registration ----------------------------
(***************************************************************************)
(* `wins.exe srv app run --register` and `--unregister` (cmd/server/app),  *)
(* and the entry of rancher-wins in the service control manager (SCM) that *)
(* they make and delete.  Module Installer, which runs them too, has the   *)
(* other commands and the rest of the host.                                *)
(*                                                                         *)
(* The entry of a deleted service stays, marked, while a process or any    *)
(* program with a handle still uses it, and nothing can be done with it.   *)
(***************************************************************************)

VARIABLES
    entry,     \* the SCM's entry: "none", "bare" or "full", with failure actions
    marked,    \* whether it is marked for deletion
    winsState, \* the state of the service
    command,   \* the command that is running, or that ran last
    pc,        \* the call it is about to make, or "idle"
    code,      \* its exit code
    seen       \* registerService's status

scmVars == <<entry, marked, winsState>>
registrationVars == <<scmVars, command, pc, code, seen>>

RegistrationLabels ==
    {"open", "stopLoop", "answer", "delete", "create", "failureActions", "eventLog", "unregister"}

Commands == {"register", "unregister", "install", "uninstall"}

RegistrationTypeOK ==
    /\ entry \in {"none", "bare", "full"}
    /\ marked \in BOOLEAN
    /\ winsState \in {"Stopped", "StartPending", "Running", "StopPending"}
    /\ command \in Commands \cup {"none"}
    /\ code \in {"none", "ok", "err", "killed"}
    /\ seen \in {"Stopped", "StartPending", "Running", "StopPending"}

ProcessAlive == winsState # "Stopped"

\* The entry of a deleted service goes with its last user.  registerService has
\* a handle of its own until it has called Delete; those of other programs,
\* for which it waits three seconds, let the entry stay as long as they like.
EntryGoes ==
    /\ marked /\ ~ProcessAlive
    /\ pc \notin {"stopLoop", "answer", "delete"}
    /\ entry' = "none" /\ marked' = FALSE
    /\ UNCHANGED <<winsState, command, pc, code, seen>>

Goto(label) == pc' = label /\ UNCHANGED code
Finish(result) == pc' = "idle" /\ code' = result

\* install.ps1 goes on, whatever exit code wins.exe returns to it.
Return(result) == IF command = "install" THEN Goto("startService") ELSE Finish(result)

-----------------------------------------------------------------------------
(* registerService.                                                        *)

\* Any error of OpenService is taken for a service that is not there.
OpenRegistered ==
    /\ pc = "open"
    /\ \/ entry # "none" /\ seen' = winsState /\ Goto("stopLoop")
       \/ Goto("create") /\ UNCHANGED seen
       \/ Return("err") /\ UNCHANGED seen
    /\ UNCHANGED <<scmVars, command>>

\* Only a running service accepts a stop; Control is an error for one that is
\* starting, stopping or stopped.
StopRegistered ==
    /\ pc = "stopLoop"
    /\ \/ seen = "Stopped" /\ Goto("delete") /\ UNCHANGED winsState
       \/ /\ seen # "Stopped" /\ winsState = "Running"
          /\ winsState' = "StopPending"
          /\ Goto("answer")
       \/ seen # "Stopped" /\ Return("err") /\ UNCHANGED winsState
    /\ UNCHANGED <<entry, marked, command, seen>>

\* Control answers with the status of the moment.
StatusOfControl ==
    /\ pc = "answer"
    /\ seen' = winsState
    /\ Goto("stopLoop")
    /\ UNCHANGED <<scmVars, command>>

DeleteRegistered ==
    /\ pc = "delete"
    /\ \/ ~marked /\ marked' = TRUE /\ Goto("create")
       \/ Return("err") /\ UNCHANGED marked
    /\ UNCHANGED <<entry, winsState, command, seen>>

\* An entry that is still there, marked or not, is an error.
CreateRegistered ==
    /\ pc = "create"
    /\ \/ entry = "none" /\ entry' = "bare" /\ Goto("failureActions")
       \/ Return("err") /\ UNCHANGED entry
    /\ UNCHANGED <<marked, winsState, command, seen>>

\* Mutant: an error of ChangeServiceConfig2 is only logged.
TryFailureActions ==
    /\ pc = "failureActions"
    /\ entry' \in {entry, "full"}
    /\ Goto("eventLog")
    /\ UNCHANGED <<marked, winsState, command, seen>>

AddFailureActions ==
    /\ pc = "failureActions"
    /\ \/ entry' = "full" /\ Goto("eventLog")
       \/ Return("err") /\ UNCHANGED entry
    /\ UNCHANGED <<marked, winsState, command, seen>>

\* An event log that exists already is no error.
CreateEventLog ==
    /\ pc = "eventLog"
    /\ Return("ok") \/ Return("err")
    /\ UNCHANGED <<scmVars, command, seen>>

-----------------------------------------------------------------------------
\* unregisterService does not stop the service: the entry of one that is running
\* stays until its process ends.
UnregisterService ==
    /\ pc = "unregister"
    /\ \/ entry # "none" /\ ~marked /\ marked' = TRUE /\ Return("ok")
       \/ Return("err") /\ UNCHANGED marked
    /\ UNCHANGED <<entry, winsState, command, seen>>

RegistrationStep ==
    \/ OpenRegistered \/ StopRegistered \/ StatusOfControl \/ DeleteRegistered
    \/ CreateRegistered \/ AddFailureActions \/ CreateEventLog
    \/ UnregisterService
=============================================================================
