--------------------------- MODULE DependencyList ---------------------------
(***************************************************************************)
(* The dependency list of the rke2 service as the updater really handles   *)
(* it: a Go slice, read when the service is opened, changed by             *)
(* AddRancherWinsServiceDependency, RemoveRancherWinsServiceDependency or  *)
(* RestoreInitialState, and committed whole.  Module Updater keeps a set   *)
(* in its place; this module shows that it may (Sets, below), and what     *)
(* happens to the order and the repetitions the set does not have.         *)
(***************************************************************************)
EXTENDS Naturals, Sequences, SequencesExt

CONSTANTS
    Wins,      \* the service name "rancher-wins"
    Slash,     \* the name "/"
    OtherDeps, \* other services
    MaxLength  \* bound on the length of the initial list

ASSUME ListAssumption ==
    Wins # Slash /\ {Wins, Slash} \cap OtherDeps = {} /\ MaxLength \in Nat

VARIABLES
    list,    \* the list in the registry
    initial, \* the one in InitialState
    last     \* the last operation committed

vars == <<list, initial, last>>

Names == OtherDeps \cup {Wins}

TypeOK ==
    /\ list \in Seq(Names)
    /\ initial \in Seq(Names)
    /\ last \in {"none", "add", "remove", "restore"}

-----------------------------------------------------------------------------
(* suc/pkg/service/common.go                                               *)

\* Mutant: the lengths are not compared.
SlicesOverlap(s1, s2) == \A e \in Range(s1) : e \in Range(s2)

\* Equal lengths, and every element of the first found in the second.
UnorderedSlicesEqual(s1, s2) ==
    /\ Len(s1) = Len(s2)
    /\ \A e \in Range(s1) : e \in Range(s2)

\* Mutants: the first element goes whatever it is; only the first copy goes.
RemoveHead(x, s) == IF s = <<>> THEN s ELSE Tail(s)
RemoveOne(x, s) == RemoveFirst(s, x)

\* n is the slice the loop has appended to after so many elements.
RemoveAllFromSlice(x, s) ==
    LET n[i \in 0..Len(s)] ==
            IF i = 0 THEN <<>>
            ELSE IF s[i] = x THEN n[i - 1] ELSE Append(n[i - 1], s[i])
    IN  n[Len(s)]

-----------------------------------------------------------------------------
(* mgr.Service.UpdateConfig: an empty slice changes nothing, <<"/">> clears.*)

\* Mutant: the "/" that clears the list is read back as a dependency.
CommitAsGiven(slice) == list' = IF slice = <<>> THEN list ELSE slice

Commit(slice) ==
    list' = IF slice = <<>> THEN list
            ELSE IF slice = <<Slash>> THEN <<>> ELSE slice

HasRancherWinsServiceDependency == Wins \in Range(list)

Init ==
    /\ list \in BoundedSeq(Names, MaxLength)
    /\ initial = list
    /\ last = "none"

\* Mutant: the new dependency takes the place of the others.
AddAlone ==
    /\ ~HasRancherWinsServiceDependency
    /\ Commit(<<Wins>>)
    /\ last' = "add"
    /\ UNCHANGED initial

\* Its callers add only what they did not find.
AddRancherWinsServiceDependency ==
    /\ ~HasRancherWinsServiceDependency
    /\ Commit(Append(list, Wins))
    /\ last' = "add"
    /\ UNCHANGED initial

RemoveRancherWinsServiceDependency ==
    /\ HasRancherWinsServiceDependency
    /\ LET rest == RemoveAllFromSlice(Wins, list)
       IN  Commit(IF rest = <<>> THEN <<Slash>> ELSE rest)
    /\ last' = "remove"
    /\ UNCHANGED initial

\* RestoreInitialState writes the initial list only if it differs.
RestoreDependencies ==
    /\ IF UnorderedSlicesEqual(list, initial) THEN UNCHANGED list ELSE Commit(initial)
    /\ last' = "restore"
    /\ UNCHANGED initial

\* Another run of the updater takes its own snapshot.
BuildInitialState ==
    /\ initial' = list
    /\ last' = "none"
    /\ UNCHANGED list

Next ==
    \/ AddRancherWinsServiceDependency
    \/ RemoveRancherWinsServiceDependency
    \/ RestoreDependencies
    \/ BuildInitialState

Spec == Init /\ [][Next]_vars

-----------------------------------------------------------------------------
\* The updater's own view: sets of names.
Sets == INSTANCE DependencySet WITH deps <- Range(list), snap <- Range(initial)

\* The operations on slices are those module Updater performs on sets, even for
\* lists that repeat a name: in particular UnorderedSlicesEqual, which does not
\* look for the second slice's elements in the first, never lets a rollback
\* leave a list with other members than the initial one, unless that is empty.
ImplementsSets == Sets!Spec

Others(s) == RemoveAllFromSlice(Wins, s)

\* No operation reorders, repeats or loses the other services of the list.
OthersKeepTheirOrder == [][Others(list') = Others(list)]_vars

Occurrences(name, s) == Cardinality({i \in DOMAIN s : s[i] = name})

\* After a rollback the list names every service as often as it did at first.
RestoreKeepsRepetitions ==
    last = "restore" /\ initial # <<>> =>
        \A name \in Names : Occurrences(name, list) = Occurrences(name, initial)
=============================================================================
