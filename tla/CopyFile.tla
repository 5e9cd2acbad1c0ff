------------------------------ MODULE CopyFile ------------------------------
(***************************************************************************)
(* copyFile (suc/pkg/host/common.go): the attempts the updater makes to    *)
(* put the staged wins.exe in place while other processes open and close   *)
(* both files.  The destination is the executable of a service whose       *)
(* process "may continue to run for a brief time after the service has     *)
(* processed the stop signal".                                             *)
(***************************************************************************)
EXTENDS Naturals

CONSTANT FileOperationAttempts

ASSUME CopyFileAssumption == FileOperationAttempts \in Nat \ {0}

VARIABLES
    pc,      \* "stat", "read", "open", "write" or "done"
    i,       \* the loop counter
    err,     \* the loop's err: "nil", "in use" or "other"
    source,  \* the staged file is there
    dest,    \* contents of the destination
    busySource, \* another process has the source open
    busyDest,   \* another process runs from the destination
    writes   \* history: how many attempts wrote the destination

vars == <<pc, i, err, source, dest, busySource, busyDest, writes>>

TypeOK ==
    /\ pc \in {"stat", "read", "open", "write", "done"}
    /\ i \in 0..FileOperationAttempts
    /\ err \in {"nil", "in use", "other"}
    /\ source \in BOOLEAN
    /\ dest \in {"none", "torn", "old", "new"}
    /\ busySource \in BOOLEAN
    /\ busyDest \in BOOLEAN
    /\ writes \in 0..FileOperationAttempts

Init ==
    /\ pc = "stat"
    /\ i = 0
    /\ err = "nil"
    /\ source \in BOOLEAN
    /\ dest \in {"none", "old"}
    /\ busySource \in BOOLEAN
    /\ busyDest \in BOOLEAN
    /\ dest = "none" => ~busyDest
    /\ writes = 0

\* Mutant: every error is taken for a file in use.
ReturnInUse(e) == pc' = "done" /\ err' = "in use" /\ UNCHANGED i

Return(e) == pc' = "done" /\ err' = e /\ UNCHANGED i

\* Mutants: one turn too many; the error of an attempt is lost.
NextAttemptOnceMore(e) ==
    /\ i' = i + 1
    /\ err' = e
    /\ pc' = IF i' > FileOperationAttempts THEN "done" ELSE "read"

NextAttemptWithoutError(e) ==
    /\ i' = i + 1
    /\ err' = "nil"
    /\ pc' = IF i' = FileOperationAttempts THEN "done" ELSE "read"

\* The loop's next turn, which comes after a success too.
NextAttempt(e) ==
    /\ i' = i + 1
    /\ err' = e
    /\ pc' = IF i' = FileOperationAttempts THEN "done" ELSE "read"

StatSource ==
    /\ pc = "stat"
    /\ \/ source /\ pc' = "read" /\ UNCHANGED <<i, err>>
       \/ Return("other")
    /\ UNCHANGED <<source, dest, busySource, busyDest, writes>>

ReadSource ==
    /\ pc = "read"
    /\ \/ ~busySource /\ pc' = "open" /\ UNCHANGED <<i, err>>
       \/ busySource /\ NextAttempt("in use")
       \/ Return("other")
    /\ UNCHANGED <<source, dest, busySource, busyDest, writes>>

\* os.WriteFile opens and truncates the destination, and then writes it.
OpenDest ==
    /\ pc = "open"
    /\ \/ /\ ~busyDest
          /\ dest' = "torn"
          /\ pc' = "write"
          /\ UNCHANGED <<i, err>>
       \/ busyDest /\ NextAttempt("in use") /\ UNCHANGED dest
       \/ Return("other") /\ UNCHANGED dest
    /\ UNCHANGED <<source, busySource, busyDest, writes>>

WriteDest ==
    /\ pc = "write"
    /\ \/ /\ dest' = "new"
          /\ writes' = writes + 1
          /\ NextAttempt("nil")
       \/ Return("other") /\ UNCHANGED <<dest, writes>>
    /\ UNCHANGED <<source, busySource, busyDest>>

Step == StatSource \/ ReadSource \/ OpenDest \/ WriteDest

-----------------------------------------------------------------------------
(* Other processes: a scanner on the source, the service on the destination*)

SourceOpenedOrClosed ==
    /\ source
    /\ busySource' = ~busySource
    /\ UNCHANGED <<pc, i, err, source, dest, busyDest, writes>>

\* Nothing can start from a file that is open for writing.
DestStartsOrEnds ==
    /\ pc # "write"
    /\ busyDest \/ dest \in {"old", "new"}
    /\ busyDest' = ~busyDest
    /\ UNCHANGED <<pc, i, err, source, dest, busySource, writes>>

Next == Step \/ SourceOpenedOrClosed \/ DestStartsOrEnds

Spec == Init /\ [][Next]_vars /\ WF_vars(Step)

-----------------------------------------------------------------------------
\* The result Run sees.
result ==
    IF pc # "done" THEN "pending" ELSE IF err = "nil" THEN "nil" ELSE "err"

Contract == INSTANCE CopyContract

\* copyFile is what module Updater takes it for: it returns, and nil only with
\* the destination written.
ImplementsContract == Contract!Spec

\* A destination that stayed in use is never left half-written, nor is one of
\* the first attempts' successes undone by the later ones finding it in use.
InUseLeavesItWhole ==
    pc = "done" /\ err = "in use" => dest # "torn" /\ (writes > 0 => dest = "new")
=============================================================================
