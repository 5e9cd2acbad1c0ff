--------------------------- MODULE CopyFileProofs ---------------------------
(***************************************************************************)
(* What holds of copyFile for any number of attempts, however often other  *)
(* processes open and close the two files: all of module CopyContract but  *)
(* that it returns, which is checked.                                      *)
(***************************************************************************)
EXTENDS CopyFile, TLAPS

USE DEF vars

\* The loop goes on while attempts are left, and no attempt writes twice.
CountsFit ==
    /\ pc # "done" => i < FileOperationAttempts
    /\ writes <= i

\* Between attempts the destination is whole, and is the new file once one of them
\* has succeeded; nil is the result of an attempt that wrote it.
DestIsWhole ==
    /\ pc \in {"stat", "read", "open"} => dest # "torn"
    /\ pc # "write" /\ writes > 0 /\ err # "other" => dest = "new"
    /\ pc = "done" /\ err = "in use" => dest # "torn"
    /\ pc = "done" /\ err = "nil" => dest = "new"
    /\ pc \in {"stat", "read", "open", "write"} => err # "other"

IInv == TypeOK /\ CountsFit /\ DestIsWhole

-----------------------------------------------------------------------------
\* Wherever an attempt ends, the counters stay within the number of attempts.
LEMMA NextAttemptCounts ==
    ASSUME TypeOK, CountsFit, pc # "done", NEW e, NextAttempt(e)
    PROVE  /\ i' \in 0..FileOperationAttempts
           /\ pc' # "done" => i' < FileOperationAttempts
           /\ writes + 1 <= i'
           /\ pc' \in {"read", "done"}
<1>1. /\ FileOperationAttempts \in Nat
      /\ i \in Nat /\ i < FileOperationAttempts
      /\ writes \in Nat /\ writes <= i
  <2>1. i \in 0..FileOperationAttempts /\ writes \in 0..FileOperationAttempts
    BY DEF TypeOK
  <2>2. i < FileOperationAttempts /\ writes <= i
    BY DEF CountsFit
  <2> QED
    BY <2>1, <2>2, CopyFileAssumption
<1>2. i' = i + 1 /\ pc' \in {"read", "done"}
  BY DEF NextAttempt
<1>3. pc' # "done" => i' # FileOperationAttempts
  BY DEF NextAttempt
<1>4. i + 1 \in 0..FileOperationAttempts /\ writes + 1 <= i + 1
  BY <1>1
<1>5. i + 1 # FileOperationAttempts => i + 1 < FileOperationAttempts
  BY <1>1
<1> QED
  BY <1>2, <1>3, <1>4, <1>5

\* The counters: every attempt counts, and the loop ends when the last one has been
\* made.
LEMMA CountsStep ==
    ASSUME TypeOK, CountsFit, [Next]_vars
    PROVE  /\ i' \in 0..FileOperationAttempts
           /\ writes' \in 0..FileOperationAttempts
           /\ CountsFit'
<1>1. /\ FileOperationAttempts \in Nat
      /\ i \in 0..FileOperationAttempts /\ writes \in 0..FileOperationAttempts
  BY CopyFileAssumption DEF TypeOK
<1>2. CASE UNCHANGED <<i, writes>> /\ (pc' = "done" \/ pc # "done")
  BY <1>1, <1>2 DEF CountsFit
<1>3. ASSUME NEW e, NextAttempt(e), pc # "done", writes' \in {writes, writes + 1}
      PROVE  /\ i' \in 0..FileOperationAttempts
             /\ writes' \in 0..FileOperationAttempts
             /\ CountsFit'
  <2>1. /\ i' \in 0..FileOperationAttempts
        /\ pc' # "done" => i' < FileOperationAttempts
        /\ writes + 1 <= i'
    BY <1>3, NextAttemptCounts
  <2>2. writes' \in Nat /\ writes' <= i'
    BY <1>1, <1>3, <2>1
  <2> QED
    BY <1>1, <2>1, <2>2 DEF CountsFit
<1>4. CASE StatSource
  BY <1>2, <1>4 DEF StatSource, Return
<1>5. CASE ReadSource
  BY <1>2, <1>3, <1>5 DEF ReadSource, Return
<1>6. CASE OpenDest
  BY <1>2, <1>3, <1>6 DEF OpenDest, Return
<1>7. CASE WriteDest
  BY <1>2, <1>3, <1>7 DEF WriteDest, Return
<1>8. CASE SourceOpenedOrClosed \/ DestStartsOrEnds
  <2>1. UNCHANGED <<pc, i, writes>>
    BY <1>8 DEF SourceOpenedOrClosed, DestStartsOrEnds
  <2> QED
    BY <1>1, <2>1 DEF CountsFit
<1>9. CASE UNCHANGED vars
  BY <1>1, <1>9 DEF CountsFit
<1> QED
  BY <1>4, <1>5, <1>6, <1>7, <1>8, <1>9 DEF Next, Step

\* TypeOK is inductive together with CountsFit.
LEMMA TypeStep ==
    ASSUME TypeOK, CountsFit, [Next]_vars
    PROVE  TypeOK'
<1>1. /\ pc' \in {"stat", "read", "open", "write", "done"}
      /\ err' \in {"nil", "in use", "other"}
      /\ source' \in BOOLEAN
      /\ dest' \in {"none", "torn", "old", "new"}
      /\ busySource' \in BOOLEAN
      /\ busyDest' \in BOOLEAN
  <2> USE DEF TypeOK
  <2>1. CASE StatSource
    BY <2>1 DEF StatSource, Return
  <2>2. CASE ReadSource
    BY <2>2 DEF ReadSource, NextAttempt, Return
  <2>3. CASE OpenDest
    BY <2>3 DEF OpenDest, NextAttempt, Return
  <2>4. CASE WriteDest
    BY <2>4 DEF WriteDest, NextAttempt, Return
  <2>5. CASE SourceOpenedOrClosed \/ DestStartsOrEnds
    BY <2>5 DEF SourceOpenedOrClosed, DestStartsOrEnds
  <2>6. CASE UNCHANGED vars
    BY <2>6
  <2> QED
    BY <2>1, <2>2, <2>3, <2>4, <2>5, <2>6 DEF Next, Step
<1> QED
  BY <1>1, CountsStep DEF TypeOK

\* DestIsWhole is inductive: an attempt that has truncated the destination writes it
\* or ends the call with another error than "in use".
LEMMA DestIsWholeStep ==
    ASSUME TypeOK, DestIsWhole, [Next]_vars
    PROVE  DestIsWhole'
<1> USE DEF DestIsWhole
<1>1. CASE StatSource
  BY <1>1 DEF StatSource, Return
<1>2. CASE ReadSource
  BY <1>2 DEF ReadSource, NextAttempt, Return
<1>3. CASE OpenDest
  <2>1. CASE NextAttempt("in use")
    BY <1>3, <2>1 DEF OpenDest, NextAttempt
  <2> QED
    BY <1>3, <2>1 DEF OpenDest, Return
<1>4. CASE WriteDest
  BY <1>4 DEF WriteDest, NextAttempt, Return
<1>5. CASE SourceOpenedOrClosed \/ DestStartsOrEnds
  BY <1>5 DEF SourceOpenedOrClosed, DestStartsOrEnds
<1>6. CASE UNCHANGED vars
  BY <1>6
<1> QED
  BY <1>1, <1>2, <1>3, <1>4, <1>5, <1>6 DEF Next, Step

LEMMA IInvInit == Init => IInv
BY CopyFileAssumption DEF Init, IInv, TypeOK, CountsFit, DestIsWhole

LEMMA IInvCorrect == Spec => []IInv
<1>1. IInv /\ [Next]_vars => IInv'
  BY CountsStep, TypeStep, DestIsWholeStep DEF IInv
<1> QED
  BY IInvInit, <1>1, PTL DEF Spec

-----------------------------------------------------------------------------
\* copyFile's loop counter and error keep their types; it never makes more than
\* FileOperationAttempts attempts (common.go:119).
THEOREM TypeCorrect == Spec => []TypeOK
<1>1. IInv => TypeOK
  BY DEF IInv
<1> QED
  BY <1>1, IInvCorrect, PTL

\* A destination that was in use at the last attempt is whole, and new if any
\* attempt succeeded (common.go:130).
THEOREM InUseLeavesItWholeCorrect == Spec => []InUseLeavesItWhole
<1>1. IInv => InUseLeavesItWhole
  BY DEF IInv, DestIsWhole, InUseLeavesItWhole
<1> QED
  BY <1>1, IInvCorrect, PTL

\* Every step of copyFile is a step of the contract or changes nothing it speaks
\* of: it returns nil only with the new file in place (common.go:141).
LEMMA StepRefines ==
    ASSUME IInv, [Next]_vars
    PROVE  [Contract!Next]_<<dest, result>>
<1> USE DEF IInv, Contract!Next, Contract!Scribble, Contract!Return, result
<1>1. CASE StatSource
  BY <1>1 DEF StatSource, Return
<1>2. CASE ReadSource
  BY <1>2 DEF ReadSource, NextAttempt, Return
<1>3. CASE OpenDest
  BY <1>3 DEF OpenDest, NextAttempt, Return
<1>4. CASE WriteDest
  BY <1>4 DEF WriteDest, NextAttempt, Return
<1>5. CASE SourceOpenedOrClosed \/ DestStartsOrEnds
  BY <1>5 DEF SourceOpenedOrClosed, DestStartsOrEnds
<1>6. CASE UNCHANGED vars
  BY <1>6
<1> QED
  BY <1>1, <1>2, <1>3, <1>4, <1>5, <1>6 DEF Next, Step

\* The safety part of ImplementsContract, which module Updater relies on when it
\* takes copyFile for one call that leaves anything behind or the new file.
THEOREM ContractIsKept == Spec => Contract!Init /\ [][Contract!Next]_<<dest, result>>
<1>1. Init => Contract!Init
  BY DEF Init, Contract!Init, result
<1>2. IInv /\ [Next]_vars => [Contract!Next]_<<dest, result>>
  BY StepRefines
<1> QED
  BY <1>1, <1>2, IInvCorrect, PTL DEF Spec
=============================================================================
