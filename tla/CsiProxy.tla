------------------------------ MODULE CsiProxy ------------------------------
(***************************************************************************)
(* What the rancher-wins process does for the CSI proxy before it serves   *)
(* (pkg/csiproxy, pkg/concierge, pkg/tls): unless the csiproxy service is  *)
(* registered, download its executable, register it and start it.  The     *)
(* steps are those of the main goroutine of module WinsService; whatever   *)
(* ends that process in between, the executable and the service stay, and  *)
(* the next process finds them.                                            *)
(***************************************************************************)

VARIABLES
    main,      \* the main goroutine: the call it is about to make, or "none"
    result,    \* what _runAction returns
    csiWanted, \* whether the config the process loaded has a csi-proxy section
    csiExe,    \* csi-proxy.exe
    csiService \* how far the csiproxy service has come

csiVars == <<csiExe, csiService>>

CsiLabels == {"newCSI", "csiExists", "setupTLS", "download", "extract",
              "createService", "recoveryActions", "startService"}

\* A tarball without the executable in it leaves an empty file.
CsiTypeOK ==
    /\ csiWanted \in BOOLEAN
    /\ csiExe \in {"none", "torn", "empty", "whole"}
    /\ csiService \in {"none", "created", "recoverable", "started"}

CsiInit == csiWanted = FALSE /\ csiExe = "none" /\ csiService = "none"

Goto(label) == main' = label /\ UNCHANGED result
Return(error) == main' = "return" /\ result' = error

\* _runAction's deferred panics.Log recovers: no error is returned.
Panic == Return("nil")

-----------------------------------------------------------------------------
NewCSI ==
    /\ main = "newCSI"
    /\ Goto("csiExists") \/ Return("err")
    /\ UNCHANGED csiVars

\* A registered service is left alone, whatever state it is in.
CsiExists ==
    /\ main = "csiExists"
    /\ \/ csiService = "none" /\ Goto("setupTLS")
       \/ csiService # "none" /\ Goto("runService")
       \/ Return("err")
    /\ UNCHANGED csiVars

\* A certificate file that cannot be found is named through a nil pointer.
SetupTLS ==
    /\ main = "setupTLS"
    /\ Goto("download") \/ Return("err") \/ Panic
    /\ UNCHANGED csiVars

\* os.Create empties the file before the first byte arrives.
Download ==
    /\ main = "download"
    /\ \/ csiExe' = "torn" /\ Goto("extract")
       \/ Return("err") /\ UNCHANGED csiExe
    /\ UNCHANGED csiService

\* Mutant: the download's error is ignored.
ExtractOrNot ==
    /\ main = "extract"
    /\ csiExe' \in {"torn", "whole", "empty"}
    /\ Goto("createService")
    /\ UNCHANGED csiService

Extract ==
    /\ main = "extract"
    /\ \/ csiExe' \in {"whole", "empty"} /\ Goto("createService")
       \/ Return("err") /\ UNCHANGED csiExe
    /\ UNCHANGED csiService

\* The nil service of a failed creation is closed, which panics.
CreateService ==
    /\ main = "createService"
    /\ \/ csiService' = "created" /\ Goto("recoveryActions")
       \/ Return("err") /\ UNCHANGED csiService
       \/ Panic /\ UNCHANGED csiService
    /\ UNCHANGED csiExe

SetRecoveryActions ==
    /\ main = "recoveryActions"
    /\ \/ csiService' = "recoverable" /\ Goto("startService")
       \/ Return("err") /\ UNCHANGED csiService
    /\ UNCHANGED csiExe

\* Mutant: the error of Start is only logged.
StartCsiOrNot ==
    /\ main = "startService"
    /\ csiService' \in {"recoverable", "started"} /\ Goto("runService")
    /\ UNCHANGED csiExe

StartCsi ==
    /\ main = "startService"
    /\ \/ csiExe = "whole" /\ csiService' = "started" /\ Goto("runService")
       \/ Return("err") /\ UNCHANGED csiService
    /\ UNCHANGED csiExe

CsiStep ==
    \/ NewCSI \/ CsiExists \/ SetupTLS \/ Download \/ Extract
    \/ CreateService \/ SetRecoveryActions \/ StartCsi
=============================================================================
