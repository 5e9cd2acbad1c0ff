-------------------------- MODULE RancherConnection --------------------------
(***************************************************************************)
(* What install.ps1 and suc/update-connection-info.ps1 ask the Rancher     *)
(* server, and the files they keep of its answers: the CA certificate, the *)
(* connection information, the TLS section of the config file, and the     *)
(* node's id.  The scripts run one at a time, any number of times; every   *)
(* request may fail, be broken off or go unanswered, Rancher may change    *)
(* its certificate between any two, a script may be killed anywhere, and   *)
(* uninstall.ps1 takes the files away again.  The request for the CA has   *)
(* no time limit, the others have.                                         *)
(*                                                                         *)
(* Both scripts are here for a node that Rancher manages: a local          *)
(* installation asks nothing.  The service, wins.exe and the rest of the   *)
(* config file are in module Installer.                                    *)
(***************************************************************************)
EXTENDS Naturals

CONSTANTS
    Attempts, \* the retries of every loop, 6
    Ids       \* the ids that New-CattleId may generate

ASSUME AttemptsAssumption == Attempts \in Nat

ASSUME IdsAssumption == "none" \notin Ids /\ "empty" \notin Ids

VARIABLES
    ca,         \* Rancher's certificate is of a "public" CA, or of its own, "private"
    cert,       \* the file ranchercert: the CA that has the checksum, or anything else
    store,      \* the CAs the script imported into the machine's root store
    tls,        \* the lines of the config file's tls-config section
    id,         \* the file cattle-id
    conn,       \* the file rancher2_connection_info.json: "old" is of an earlier run,
                \* "new" and "torn" of this one
    script, pc, code,
    job,        \* whether a checksum and a token were given
    checksum,   \* whether CATTLE_CA_CHECKSUM is still set
    caRequired, \* CA_REQUIRED
    answers,    \* RANCHER_SUCCESS, SUCCESSFULLY_TESTED_CA: the questions with an answer
    tries       \* retries

fileVars == <<cert, store, tls, id, conn>>
runVars == <<script, job, checksum, caRequired, answers>>
pcVars == <<pc, code, tries>>
vars == <<ca, fileVars, runVars, pcVars>>

Labels ==
    {"fetchCA", "verifyCA", "importCA", "testCA", "testRancher", "clearHeader",
     "clearPath", "addTls", "makeId", "getInfo", "restrict"}

TypeOK ==
    /\ ca \in {"public", "private"}
    /\ cert \in {"none", "right", "wrong"}
    /\ store \subseteq {"right", "wrong"}
    /\ tls \subseteq {"tls-config", "certFilePath"}
    /\ id \in Ids \cup {"none", "empty"}
    /\ conn \in {"none", "torn", "old", "new"}
    /\ script \in {"none", "install", "update"}
    /\ pc \in Labels \cup {"idle"}
    /\ code \in {"none", "ok", "err", "killed"}
    /\ job \in [checksum : BOOLEAN, token : BOOLEAN]
    /\ checksum \in BOOLEAN /\ caRequired \in BOOLEAN
    /\ answers \subseteq {"reached", "caTested"}
    /\ tries \in 0..Attempts + 1
    /\ pc # "getInfo" => tries <= Attempts

Init ==
    /\ ca \in {"public", "private"}
    /\ cert = "none" /\ store = {} /\ tls = {} /\ id = "none" /\ conn = "none"
    /\ script = "none" /\ pc = "idle" /\ code = "none"
    /\ job = [checksum |-> FALSE, token |-> FALSE]
    /\ checksum = FALSE /\ caRequired = FALSE /\ answers = {}
    /\ tries = 0

-----------------------------------------------------------------------------
At(name, label) == script = name /\ pc = label

Goto(label) == pc' = label /\ tries' = 0 /\ UNCHANGED code
Finish(result) == pc' = "idle" /\ code' = result /\ tries' = 0
Fail == Finish("err")

\* The order of Invoke-WinsAgentInstall and of Update-ConnectionInfo: what follows
\* Test-CaCheckSum and what follows the config file.
AfterCaCheckSum ==
    Goto(IF script = "update" THEN "clearHeader"
         ELSE IF checksum THEN "testCA" ELSE "testRancher")

AfterConfig ==
    IF script = "install" THEN Goto("makeId")
    ELSE IF job.token THEN Goto("getInfo") ELSE Finish("ok")

\* The machine's curl verifies Rancher's certificate with the root store.
Trusted == ca = "public" \/ "right" \in store

\* A turn of a retry loop that is answered, one that is not, and its end.
Answered(question, label) ==
    tries < Attempts /\ answers' = answers \cup {question} /\ Goto(label)

\* Mutant: one turn too many.
AgainOnceMore == tries <= Attempts /\ tries' = tries + 1 /\ UNCHANGED <<pc, code, answers>>

Again == tries < Attempts /\ tries' = tries + 1 /\ UNCHANGED <<pc, code, answers>>

Exhausted == tries >= Attempts /\ UNCHANGED answers

-----------------------------------------------------------------------------
(* The host and Rancher.                                                   *)

\* The plan of the updater's script runs on nodes that have joined, for which
\* they need the connection information; install.ps1 insists on a token.
Begin ==
    /\ pc = "idle"
    /\ script' \in {"install", "update"}
    /\ job' \in [checksum : BOOLEAN, token : BOOLEAN]
    /\ script' = "install" => job'.token
    /\ script' = "update" => conn # "none"
    /\ checksum' = job'.checksum
    /\ caRequired' = FALSE /\ answers' = {}
    /\ conn' = IF conn = "none" THEN "none" ELSE "old"
    /\ pc' = IF script' = "install" THEN "fetchCA" ELSE "testRancher"
    /\ code' = "none" /\ tries' = 0
    /\ UNCHANGED <<ca, cert, store, tls, id>>

RancherChangesCertificate ==
    /\ ca' \in {"public", "private"}
    /\ UNCHANGED <<fileVars, runVars, pcVars>>

\* uninstall.ps1 removes the directories that hold the files, or fails with some of
\* them gone.  What was imported stays in the root store.
RemoveWinsConfig ==
    /\ pc = "idle"
    /\ cert' \in {cert, "none"} /\ tls' \in {tls, {}}
    /\ id' \in {id, "none"} /\ conn' \in {conn, "none"}
    /\ script' = "none" /\ code' = "none"
    /\ UNCHANGED <<ca, store, job, checksum, caRequired, answers, pc, tries>>

\* What is being written is left incomplete.
Killed ==
    /\ pc # "idle" /\ Finish("killed")
    /\ \/ UNCHANGED <<cert, tls, id, conn>>
       \/ pc = "fetchCA" /\ checksum /\ cert' = "wrong" /\ UNCHANGED <<tls, id, conn>>
       \/ pc \in {"clearHeader", "clearPath"} /\ tls' = {} /\ UNCHANGED <<cert, id, conn>>
       \/ pc = "makeId" /\ id = "none" /\ id' = "empty" /\ UNCHANGED <<cert, tls, conn>>
       \/ pc = "getInfo" /\ conn' = "torn" /\ UNCHANGED <<cert, tls, id>>
    /\ UNCHANGED <<ca, store, runVars>>

-----------------------------------------------------------------------------
(* Test-CaCheckSum, which both scripts have.                               *)

\* The request does not verify the server, which may send anything.  Without a
\* file, or with an error of curl, the script ends; a file it left stays.  Neither
\* script gives curl a time limit here: while Rancher keeps the connection open and
\* does not answer, none of the outcomes need come.
FetchCA ==
    /\ pc = "fetchCA"
    /\ \/ ~checksum /\ AfterCaCheckSum /\ UNCHANGED cert
       \/ checksum /\ cert' \in {"right", "wrong"} /\ Goto("verifyCA")
       \/ checksum /\ cert' \in {cert, "wrong"} /\ Fail
    /\ UNCHANGED <<ca, store, tls, id, conn, runVars>>

\* Mutant: a checksum that differs is only logged.
VerifyNothing ==
    /\ pc = "verifyCA"
    /\ Goto("importCA")
    /\ UNCHANGED <<ca, fileVars, runVars>>

\* The file with another checksum is removed, the config that may name it is not
\* changed.
VerifyCA ==
    /\ pc = "verifyCA"
    /\ \/ cert = "right" /\ Goto("importCA") /\ UNCHANGED cert
       \/ cert # "right" /\ cert' \in {"none", cert} /\ Fail
    /\ UNCHANGED <<ca, store, tls, id, conn, runVars>>

\* A certificate that cannot be imported is a warning, or an error that does not
\* end the updater's script; a store that cannot be opened ends install.ps1.
ImportCertificates ==
    /\ pc = "importCA"
    /\ \/ store' \in {store, store \cup {cert}} /\ AfterCaCheckSum
       \/ script = "install" /\ Fail /\ UNCHANGED store
    /\ UNCHANGED <<ca, cert, tls, id, conn, runVars>>

-----------------------------------------------------------------------------
(* install.ps1                                                             *)

\* Exit codes 60, 77 and 35 mean that the CA is required, and 35 is any failed
\* handshake, with a CA the machine trusts as well.  The CA was imported just
\* before: there may be no such code any more.  When the retries are used up the
\* answer is no.
InstallTestCaRequired ==
    /\ At("install", "testCA")
    /\ \/ /\ Trusted /\ Answered("caTested", "testRancher")
          /\ checksum' = FALSE
          /\ UNCHANGED caRequired
       \/ /\ Answered("caTested", "testRancher")
          /\ caRequired' = TRUE
          /\ UNCHANGED checksum
       \/ Again /\ UNCHANGED <<checksum, caRequired>>
       \/ Exhausted /\ Goto("testRancher") /\ UNCHANGED <<checksum, caRequired>>
    /\ UNCHANGED <<ca, fileVars, script, job>>

\* The environment keeps $false as the string "False", whose negation is false:
\* the script goes on without an answer.
InstallTestRancherConnection ==
    /\ At("install", "testRancher")
    /\ \/ Trusted /\ Answered("reached", "clearHeader")
       \/ Again
       \/ Exhausted /\ Goto("clearHeader")
    /\ UNCHANGED <<ca, fileVars, script, job, checksum, caRequired>>

\* The file is written anew, without the section ...
SetWinsConfig ==
    /\ At("install", "clearHeader")
    /\ \/ tls' = {} /\ Goto("addTls")
       \/ tls' \in {tls, {}} /\ Fail
    /\ UNCHANGED <<ca, cert, store, id, conn, runVars>>

\* Mutant: the section is added whenever there is a certificate.
AddAnyTlsConfig ==
    /\ At("install", "addTls")
    /\ \/ /\ tls' = IF cert # "none" THEN {"tls-config", "certFilePath"} ELSE tls
          /\ AfterConfig
       \/ Fail /\ UNCHANGED tls
    /\ UNCHANGED <<ca, cert, store, id, conn, runVars>>

\* ... which is added last.
AddTlsConfig ==
    /\ At("install", "addTls")
    /\ \/ /\ tls' = IF cert # "none" /\ caRequired
                    THEN {"tls-config", "certFilePath"} ELSE tls
          /\ AfterConfig
       \/ Fail /\ UNCHANGED tls
    /\ UNCHANGED <<ca, cert, store, id, conn, runVars>>

\* Mutant: the id is made anew by every installation.
RenewCattleId ==
    /\ At("install", "makeId")
    /\ \/ id' \in Ids /\ Goto("getInfo")
       \/ Fail /\ UNCHANGED id
    /\ UNCHANGED <<ca, cert, store, tls, conn, runVars>>

\* An id given in CATTLE_ID is not kept, one that is in the file is used whatever
\* it is.
NewCattleId ==
    /\ At("install", "makeId")
    /\ \/ Goto("getInfo") /\ UNCHANGED id
       \/ id = "none" /\ id' \in Ids /\ Goto("getInfo")
       \/ id = "none" /\ id' \in {"none", "empty"} /\ Fail
    /\ UNCHANGED <<ca, cert, store, tls, conn, runVars>>

\* curl prints 200 for an answer that is broken off after its headers, and with -f
\* writes no file for any other code.
InstallGetConnectionInfo ==
    /\ At("install", "getInfo")
    /\ \/ Trusted /\ tries < Attempts /\ conn' \in {"new", "torn"} /\ Goto("restrict")
       \/ Again /\ UNCHANGED conn
       \/ Exhausted /\ Goto("restrict") /\ UNCHANGED conn
    /\ UNCHANGED <<ca, cert, store, tls, id, runVars>>

\* Mutant: a file that is not there needs no access rights.
RestrictIfThere ==
    /\ At("install", "restrict")
    /\ Finish("ok") \/ Fail
    /\ UNCHANGED <<ca, fileVars, runVars>>

\* Set-RestrictedPermissions is an error for a file that is not there.
RestrictConnectionInfo ==
    /\ At("install", "restrict")
    /\ \/ conn # "none" /\ Finish("ok")
       \/ Fail
    /\ UNCHANGED <<ca, fileVars, runVars>>

-----------------------------------------------------------------------------
(* update-connection-info.ps1, in which an error of a cmdlet ends nothing. *)

\* Mutant: the retries start over.
UpdateTestForever ==
    /\ At("update", "testRancher")
    /\ tries' = (tries + 1) % Attempts
    /\ UNCHANGED <<pc, code, answers>>
    /\ UNCHANGED <<ca, fileVars, script, job, checksum, caRequired>>

\* The request does not verify the server.
UpdateTestRancherConnection ==
    /\ At("update", "testRancher")
    /\ \/ /\ tries < Attempts /\ answers' = answers \cup {"reached"}
          /\ IF checksum THEN Goto("testCA") ELSE AfterConfig
       \/ Again
       \/ Exhausted /\ Fail
    /\ UNCHANGED <<ca, fileVars, script, job, checksum, caRequired>>

\* CA_REQUIRED is a string, and true whatever it says: Test-CaCheckSum runs in any
\* case, but does nothing when the checksum is gone.
UpdateTestCaRequired ==
    /\ At("update", "testCA")
    /\ \/ /\ Trusted /\ Answered("caTested", "fetchCA")
          /\ checksum' = FALSE
          /\ UNCHANGED caRequired
       \/ /\ Answered("caTested", "fetchCA")
          /\ caRequired' = TRUE
          /\ UNCHANGED checksum
       \/ Again /\ UNCHANGED <<checksum, caRequired>>
       \/ Exhausted /\ Fail /\ UNCHANGED <<checksum, caRequired>>
    /\ UNCHANGED <<ca, fileVars, script, job>>

\* Two calls take the lines of the section out of the file, a third adds them.
UpdateWinsConfig ==
    /\ script = "update"
    /\ \/ /\ pc = "clearHeader" /\ Goto("clearPath")
          /\ tls' \in {tls, tls \ {"tls-config"}}
       \/ /\ pc = "clearPath" /\ Goto("addTls")
          /\ tls' \in {tls, tls \ {"certFilePath"}}
       \/ /\ pc = "addTls" /\ AfterConfig
          /\ tls' \in IF cert # "none" /\ caRequired
                      THEN {tls, {"tls-config", "certFilePath"}} ELSE {tls}
    /\ UNCHANGED <<ca, cert, store, id, conn, runVars>>

\* Mutant: as install.ps1 has it.
UpdateGetInfoOrNot ==
    /\ At("update", "getInfo")
    /\ \/ Trusted /\ tries < Attempts /\ conn' \in {"new", "torn"} /\ Finish("ok")
       \/ /\ tries < Attempts /\ tries' = tries + 2
          /\ UNCHANGED <<pc, code, conn>>
       \/ tries >= Attempts /\ Finish("ok") /\ UNCHANGED conn
    /\ UNCHANGED <<ca, cert, store, tls, id, runVars>>

\* What curl prints is the code and a line with a blank: the switch runs for both,
\* and counts an answer it does not like twice.
UpdateGetConnectionInfo ==
    /\ At("update", "getInfo")
    /\ \/ Trusted /\ tries < Attempts /\ conn' \in {"new", "torn"} /\ Finish("ok")
       \/ /\ tries < Attempts /\ tries' = tries + 2
          /\ UNCHANGED <<pc, code, conn>>
       \/ tries >= Attempts /\ Fail /\ UNCHANGED conn
    /\ UNCHANGED <<ca, cert, store, tls, id, runVars>>

-----------------------------------------------------------------------------
ScriptStep ==
    \/ FetchCA \/ VerifyCA \/ ImportCertificates
    \/ InstallTestCaRequired \/ InstallTestRancherConnection
    \/ SetWinsConfig \/ AddTlsConfig \/ NewCattleId
    \/ InstallGetConnectionInfo \/ RestrictConnectionInfo
    \/ UpdateTestRancherConnection \/ UpdateTestCaRequired
    \/ UpdateWinsConfig \/ UpdateGetConnectionInfo

Next == Begin \/ RemoveWinsConfig \/ RancherChangesCertificate \/ Killed \/ ScriptStep

\* The request for the CA is under way.
AwaitsCA == pc = "fetchCA" /\ checksum

\* The script runs, and its other requests are answered or run into curl's
\* --connect-timeout and --max-time; nobody need start another script.
Fairness == WF_vars(ScriptStep /\ ~AwaitsCA)

Spec == Init /\ [][Next]_vars /\ Fairness

-----------------------------------------------------------------------------
\* Whatever is served, broken off or left behind by a script that was killed, and
\* whenever Rancher changes its certificate, only the CA with the checksum that
\* was given gets into the machine's root store.
OnlyVerifiedIsTrusted == store \subseteq {"right"}

\* When the updater's script exits with 0, every question it asked was answered in
\* this run, within the retries: Rancher was reached, the need for a CA is known,
\* and with a token the connection information was written anew.
UpdateIsAnswered ==
    script = "update" /\ code = "ok" =>
        /\ "reached" \in answers
        /\ job.checksum => "caTested" \in answers
        /\ job.token => conn \in {"new", "torn"}

\* After a successful installation the config names the file of the CA only as a
\* whole section, and only if the file was verified by this installation.
TlsIsVerified ==
    script = "install" /\ code = "ok" /\ tls # {} =>
        tls = {"tls-config", "certFilePath"} /\ cert = "right" /\ job.checksum

\* After a successful installation there is connection information for the system
\* agent, of whatever run, although the loop that fetches it reports no failure.
InstallIsConnectable == script = "install" /\ code = "ok" => conn # "none"

\* A node keeps the id it was given through every later installation, until wins is
\* uninstalled: no step gives it another one.
IdIsForGood == [][(id \in Ids) => id' \in {id, "none"}]_vars

\* Every script ends, whether Rancher answers or not and however often its
\* certificate changes, unless the script hangs in the one request that has no time
\* limit, the request for the CA.
ScriptEnds == pc # "idle" ~> pc = "idle" \/ []AwaitsCA
=============================================================================
