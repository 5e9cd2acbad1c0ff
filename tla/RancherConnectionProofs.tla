---------------------- MODULE RancherConnectionProofs ----------------------
(***************************************************************************)
(* Proofs about RancherConnection, for any number of retries, of ids and   *)
(* of scripts.  The inductive invariants say, for each call that a script  *)
(* is about to make, what the calls before it have established.            *)
(***************************************************************************)
EXTENDS RancherConnection, TLAPS

\* While a script runs it has no exit code yet.
RunningHasNoCode == pc # "idle" => code = "none"

\* What gets imported has passed the checksum.
ImportIsVerified == pc = "importCA" => cert = "right"

CaCheckLabels == {"fetchCA", "verifyCA", "importCA"}
ConfigLabels == {"clearHeader", "clearPath", "addTls"}

\* The updater's script has passed the questions it has asked.
UpdateProgress ==
    script = "update" =>
        /\ pc = "testRancher" => checksum = job.checksum
        /\ pc \notin {"testRancher", "idle"} => "reached" \in answers
        /\ pc \in CaCheckLabels \cup ConfigLabels => "caTested" \in answers
        /\ pc = "getInfo" /\ job.checksum => "caTested" \in answers

\* install.ps1 requires the CA only after it has verified it, and then leaves the
\* file alone; the section is the last thing it writes to the config.
InstallProgress ==
    script = "install" =>
        /\ checksum => job.checksum
        /\ pc \in CaCheckLabels => ~caRequired
        /\ pc \in {"verifyCA", "importCA"} => checksum
        /\ pc = "testCA" => cert = "right" /\ job.checksum
        /\ caRequired => cert = "right" /\ job.checksum
        /\ pc = "addTls" => tls = {}
        /\ pc \in {"makeId", "getInfo", "restrict"} /\ tls # {} =>
              tls = {"tls-config", "certFilePath"} /\ caRequired
        /\ code = "ok" /\ tls # {} =>
              tls = {"tls-config", "certFilePath"} /\ caRequired

-----------------------------------------------------------------------------
USE DEF At, Goto, Finish, Fail

LEMMA Steps ==
    ASSUME Next
    PROVE \/ Begin \/ RemoveWinsConfig \/ RancherChangesCertificate \/ Killed
          \/ FetchCA \/ VerifyCA \/ ImportCertificates
          \/ InstallTestCaRequired \/ InstallTestRancherConnection
          \/ SetWinsConfig \/ AddTlsConfig \/ NewCattleId
          \/ InstallGetConnectionInfo \/ RestrictConnectionInfo
          \/ UpdateTestRancherConnection \/ UpdateTestCaRequired
          \/ UpdateWinsConfig \/ UpdateGetConnectionInfo
BY DEF Next, ScriptStep

\* The steps of a script and of the host are small: every leaf may open them.
USE DEF Begin, RemoveWinsConfig, RancherChangesCertificate, Killed,
    FetchCA, VerifyCA, ImportCertificates, AfterCaCheckSum, AfterConfig,
    InstallTestCaRequired, InstallTestRancherConnection, SetWinsConfig, AddTlsConfig,
    NewCattleId, InstallGetConnectionInfo, RestrictConnectionInfo,
    UpdateTestRancherConnection, UpdateTestCaRequired, UpdateWinsConfig,
    UpdateGetConnectionInfo, Answered, Again, Exhausted,
    vars, fileVars, runVars, pcVars

\* The counter of the retries, by itself.
TriesOK == tries \in 0..Attempts + 1 /\ (pc # "getInfo" => tries <= Attempts)

LEMMA TriesStep == TriesOK /\ [Next]_vars => TriesOK'
<1> SUFFICES ASSUME TriesOK, [Next]_vars PROVE TriesOK'
  OBVIOUS
<1>1. Attempts \in Nat
  BY AttemptsAssumption
<1>2. CASE tries' = 0
  BY <1>1, <1>2 DEF TriesOK
<1>3. CASE tries' = tries /\ pc' = pc
  BY <1>3 DEF TriesOK
<1>4. CASE tries < Attempts /\ tries' = tries + 1
  BY <1>1, <1>4 DEF TriesOK
<1>5. CASE tries < Attempts /\ tries' = tries + 2 /\ pc = "getInfo" /\ pc' = pc
  BY <1>1, <1>5 DEF TriesOK
<1>6. CASE UNCHANGED vars
  BY <1>3, <1>6
<1>7. CASE Next
  <2>1. Next => \/ tries' = 0
                \/ tries' = tries /\ pc' = pc
                \/ tries < Attempts /\ tries' = tries + 1
                \/ tries < Attempts /\ tries' = tries + 2 /\ pc = "getInfo" /\ pc' = pc
    BY Steps
  <2> QED
    BY <1>2, <1>3, <1>4, <1>5, <1>7, <2>1
<1> QED
  BY <1>6, <1>7

LEMMA ImportStep == ImportIsVerified /\ [Next]_vars => ImportIsVerified'
<1> SUFFICES ASSUME ImportIsVerified, [Next]_vars PROVE ImportIsVerified'
  OBVIOUS
<1>1. CASE UNCHANGED vars
  BY <1>1 DEF ImportIsVerified
<1>2. CASE Next
  BY <1>2, Steps DEF ImportIsVerified
<1> QED
  BY <1>1, <1>2

\* A certificate that is imported is not missing: the type of the store needs it.
LEMMA TypeStep == TypeOK /\ ImportIsVerified /\ [Next]_vars => TypeOK'
<1> SUFFICES ASSUME TypeOK, ImportIsVerified, [Next]_vars PROVE TypeOK'
  OBVIOUS
<1>1. TriesOK'
  BY TriesStep DEF TypeOK, TriesOK
<1>2. pc' \in Labels \cup {"idle"} /\ code' \in {"none", "ok", "err", "killed"}
  <2>1. CASE UNCHANGED vars
    BY <2>1 DEF TypeOK
  <2>2. CASE Next
    BY <2>2, Steps, ZenonT(40) DEF TypeOK, Labels
  <2> QED
    BY <2>1, <2>2
<1>3. /\ ca' \in {"public", "private"} /\ cert' \in {"none", "right", "wrong"}
      /\ conn' \in {"none", "torn", "old", "new"} /\ id' \in Ids \cup {"none", "empty"}
  <2>1. CASE UNCHANGED vars
    BY <2>1 DEF TypeOK
  <2>2. CASE Next
    BY <2>2, Steps, ZenonT(40) DEF TypeOK
  <2> QED
    BY <2>1, <2>2
<1>4. tls' \subseteq {"tls-config", "certFilePath"}
  <2>1. CASE UNCHANGED vars
    BY <2>1 DEF TypeOK
  <2>2. CASE Next
    BY <2>2, Steps DEF TypeOK
  <2> QED
    BY <2>1, <2>2
<1>5. store' \subseteq {"right", "wrong"}
  <2>1. CASE UNCHANGED vars
    BY <2>1 DEF TypeOK
  <2>2. CASE Next
    BY <2>2, Steps DEF TypeOK, ImportIsVerified
  <2> QED
    BY <2>1, <2>2
<1>6. /\ script' \in {"none", "install", "update"}
      /\ job' \in [checksum : BOOLEAN, token : BOOLEAN]
      /\ checksum' \in BOOLEAN /\ caRequired' \in BOOLEAN
      /\ answers' \subseteq {"reached", "caTested"}
  <2>1. CASE UNCHANGED vars
    BY <2>1 DEF TypeOK
  <2>2. CASE Next
    BY <2>2, Steps DEF TypeOK
  <2> QED
    BY <2>1, <2>2
<1> QED
  BY <1>1, <1>2, <1>3, <1>4, <1>5, <1>6 DEF TypeOK, TriesOK

\* Every variable keeps its type and the retries their bound, for any number of
\* them, in both scripts.
THEOREM TypeCorrect == Spec => []TypeOK
<1>1. Init => TypeOK /\ ImportIsVerified
  <2>1. 0 \in 0..Attempts + 1 /\ 0 <= Attempts
    BY AttemptsAssumption
  <2>2. Init => TriesOK
    BY <2>1 DEF Init, TriesOK
  <2>3. Init => job \in [checksum : BOOLEAN, token : BOOLEAN]
    BY DEF Init
  <2> QED
    BY <2>2, <2>3 DEF Init, TypeOK, TriesOK, Labels, ImportIsVerified
<1> QED
  BY <1>1, TypeStep, ImportStep, PTL DEF Spec

LEMMA CodeStep == RunningHasNoCode /\ [Next]_vars => RunningHasNoCode'
<1> SUFFICES ASSUME RunningHasNoCode, [Next]_vars PROVE RunningHasNoCode'
  OBVIOUS
<1>1. CASE UNCHANGED vars
  BY <1>1 DEF RunningHasNoCode
<1>2. CASE Next
  BY <1>2, Steps DEF RunningHasNoCode
<1> QED
  BY <1>1, <1>2

LEMMA ProgressStep == UpdateProgress /\ [Next]_vars => UpdateProgress'
<1> SUFFICES ASSUME UpdateProgress, [Next]_vars PROVE UpdateProgress'
  OBVIOUS
<1>1. CASE UNCHANGED vars
  BY <1>1 DEF UpdateProgress, CaCheckLabels, ConfigLabels
<1>2. CASE Next
  BY <1>2, Steps DEF UpdateProgress, CaCheckLabels, ConfigLabels
<1> QED
  BY <1>1, <1>2

LEMMA InstallStep ==
    InstallProgress /\ ImportIsVerified /\ RunningHasNoCode /\ [Next]_vars => InstallProgress'
<1> SUFFICES ASSUME InstallProgress /\ ImportIsVerified /\ RunningHasNoCode, [Next]_vars PROVE InstallProgress'
  OBVIOUS
<1>1. CASE UNCHANGED vars
  BY <1>1 DEF InstallProgress, ImportIsVerified, RunningHasNoCode, CaCheckLabels
<1>2. CASE Next
  BY <1>2, Steps, ZenonT(40) DEF InstallProgress, ImportIsVerified, RunningHasNoCode, CaCheckLabels
<1> QED
  BY <1>1, <1>2

\* Only the CA with the checksum that was given gets into the root store.
THEOREM OnlyVerifiedIsTrustedCorrect == Spec => []OnlyVerifiedIsTrusted
<1>1. Init => OnlyVerifiedIsTrusted /\ ImportIsVerified
  BY DEF Init, OnlyVerifiedIsTrusted, ImportIsVerified
<1>2. OnlyVerifiedIsTrusted /\ ImportIsVerified /\ [Next]_vars => OnlyVerifiedIsTrusted'
  <2> SUFFICES ASSUME OnlyVerifiedIsTrusted, ImportIsVerified, [Next]_vars
               PROVE  OnlyVerifiedIsTrusted'
    OBVIOUS
  <2>1. store' = store \/ store' = store \cup {"right"}
    BY Steps DEF ImportIsVerified
  <2> QED
    BY <2>1 DEF OnlyVerifiedIsTrusted
<1> QED
  BY <1>1, <1>2, ImportStep, PTL DEF Spec

\* After a successful installation the config has the TLS section as a whole or not
\* at all, and with it the certificate that this installation has verified.
THEOREM TlsIsVerifiedCorrect == Spec => []TlsIsVerified
<1>1. Init => InstallProgress /\ ImportIsVerified /\ RunningHasNoCode
  BY DEF Init, InstallProgress, ImportIsVerified, RunningHasNoCode
<1>2. InstallProgress => TlsIsVerified
  BY DEF InstallProgress, TlsIsVerified
<1> QED
  BY <1>1, <1>2, InstallStep, ImportStep, CodeStep, PTL DEF Spec

\* The updater's script exits with 0 only over answers it got in this run.
THEOREM UpdateIsAnsweredCorrect == Spec => []UpdateIsAnswered
<1>1. Init => UpdateIsAnswered /\ UpdateProgress /\ RunningHasNoCode
  BY DEF Init, UpdateIsAnswered, UpdateProgress, RunningHasNoCode
<1>2. UpdateIsAnswered /\ UpdateProgress /\ RunningHasNoCode /\ [Next]_vars => UpdateIsAnswered'
  <2> SUFFICES ASSUME UpdateIsAnswered, UpdateProgress, RunningHasNoCode, [Next]_vars
               PROVE  UpdateIsAnswered'
    OBVIOUS
  <2>1. CASE UNCHANGED vars
    BY <2>1 DEF UpdateIsAnswered
  <2>2. CASE Next
    BY <2>2, Steps DEF UpdateIsAnswered, UpdateProgress, RunningHasNoCode, CaCheckLabels,
     ConfigLabels
  <2> QED
    BY <2>1, <2>2
<1> QED
  BY <1>1, <1>2, ProgressStep, CodeStep, PTL DEF Spec

\* A successful installation leaves connection information behind.
THEOREM InstallIsConnectableCorrect == Spec => []InstallIsConnectable
<1>1. Init => InstallIsConnectable /\ RunningHasNoCode
  BY DEF Init, InstallIsConnectable, RunningHasNoCode
<1>2. InstallIsConnectable /\ RunningHasNoCode /\ [Next]_vars => InstallIsConnectable'
  <2> SUFFICES ASSUME InstallIsConnectable, RunningHasNoCode, [Next]_vars
               PROVE  InstallIsConnectable'
    OBVIOUS
  <2>1. CASE UNCHANGED vars
    BY <2>1 DEF InstallIsConnectable
  <2>2. CASE Next
    BY <2>2, Steps DEF InstallIsConnectable, RunningHasNoCode
  <2> QED
    BY <2>1, <2>2
<1> QED
  BY <1>1, <1>2, CodeStep, PTL DEF Spec

\* No script, whatever becomes of it, gives another id to a node that has one.
THEOREM IdIsForGoodCorrect == Spec => IdIsForGood
<1>1. [Next]_vars => [(id \in Ids) => id' \in {id, "none"}]_vars
  <2> SUFFICES ASSUME Next PROVE (id \in Ids) => id' \in {id, "none"}
    OBVIOUS
  <2> QED
    BY Steps, IdsAssumption
<1> QED
  BY <1>1, PTL DEF Spec, IdIsForGood
=============================================================================
