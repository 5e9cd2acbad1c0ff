# Verification of wins

wins runs on the Windows nodes of a Rancher cluster. This directory holds TLA+
modules of its core logic, TLC configurations that check them on small
instances, and proofs that TLAPS checks for every value of the constants.

    tlc -config updater_faults.cfg MCUpdater.tla      # one of the runs below
    tlapm UpdaterProofs.tla                           # the proofs about Updater

`PROJECT.json` is the index: components, runs, the mutant that breaks each
property, the source lines behind each definition, findings, hazards, theorems.

## 1. The system

| Component | Source | State it keeps | Operations |
|---|---|---|---|
| SUC updater | `suc/` | none of its own between runs; it reconfigures the host's | `Run`: snapshot, connection information, config from environment variables, start type, rke2 dependency, binary upgrade, refresh, rollback |
| copyFile | `suc/pkg/host/common.go` | loop counter, last error | five attempts at `os.ReadFile` and `os.WriteFile` |
| rke2 dependency list | `suc/pkg/service/common.go`, `service_rke2.go` | a slice in the service's configuration | add, remove, compare, restore |
| Connection scripts | `install.ps1`, `suc/update-connection-info.ps1` | certificate, root store, connection information, TLS section, node id | `Test-CaCheckSum`, `Test-CaRequired`, `Test-RancherConnection`, `Get-RancherConnectionInfo`, `New-CattleId` |
| rancher-wins process | `cmd/server/app/run.go`, `run_service.go` | five goroutines, `errC`, `doneC`, its SCM status | load config, `runService`, `Execute` |
| CSI proxy manager | `pkg/csiproxy`, `pkg/concierge`, `pkg/tls` | `csi-proxy.exe`, the csiproxy service | `Enable`: exists?, TLS, download, extract, create, recovery actions, start |
| System agent adapter | `pkg/systemagent/agent.go` | none | `Run`, from `Execute` |
| Service registration | `cmd/server/app/run_service.go:25-167` | the SCM's entry of rancher-wins | `registerService`, `unregisterService` |
| Installer, uninstaller | `install.ps1`, `uninstall.ps1` | files, registry, services | `Invoke-WinsAgentInstall`, `Invoke-WinsAgentUninstall` |
| Stack dumps | `pkg/profilings/stack.go`, `dump.go`, `cmd/stackdump` | an event, a goroutine | `SetupDumpStacks`, `wins stackdump` |
| Windows host | external | SCM, services, files | start and stop controls, configuration, recovery actions, dependencies |
| Diagnostics | `pkg/profilings/profiling.go`, `pkg/logs` | none that the program depends on | profiles, logging |
| Build, end-to-end tests | `magefiles`, `magetools`, `tests` | none | build steps, a Kubernetes client |

How they interact. The updater is a one-shot process that a
system-upgrade-controller plan starts on the node, again if it fails or the plan
changes. It has no
channel to the rancher-wins process: it writes the config file the process reads
when it starts, replaces the executable it runs from, and stops and starts it
through the service control manager (SCM). The process in turn may be started by
the SCM's recovery actions and hosts the system agent, whose plans may install
rke2 while the updater runs. rke2 may depend on rancher-wins, in which case the
SCM refuses to stop rancher-wins while rke2 runs; the updater takes that
dependency away for the time of a restart.

What is hard about it:

- partial failure: every call of `Run` may fail, and some errors are collected,
  some return at once, some are logged and ignored, and some are followed by a
  nil dereference that a deferred function recovers from;
- crash recovery: a run that was killed is followed by one that takes what it
  finds for the initial state, and an installation that was killed by one that
  finds its torn files;
- interleaving: the service is starting, dies, or is restarted by its recovery
  actions between the updater's query and its request;
- ordering: `errC` is unbuffered, `doneC` is closed before the SCM hears of
  Stopped, and the process ends with the main goroutine;
- unreliable requests: Rancher may not answer, break off an answer, or change its
  certificate between two questions; every loop of retries ends in its own way,
  and not every one tells success from failure; one request has no time limit;
- conventions of the SCM: an empty dependency list changes nothing, `/` clears.

What makes each component correct:

- updater: nil from `Run` means the host is as the environment asks; nil from
  `RestoreInitialState` means it is as it was; other dependencies of rke2 are
  nobody's to touch; what was stopped is started; every run ends that its script
  does not hang;
- copyFile: it returns, and nil only with the file written; a file in use is
  left whole;
- dependency list: add, remove and restore act as on sets and keep the order and
  the repetitions of the other services;
- process: it reads the config before it reports Running, ends when it is
  stopped or its agent fails and for no other reason, and never hangs;
- CSI proxy: the process serves only with the proxy registered over a
  downloaded executable;
- connection scripts: only what the checksum was given for is trusted; success
  means answers, or at least a file for the system agent; a node keeps its id; a
  script ends unless its one request without a time limit hangs;
- stack dumps: a dump for a signal and none without one;
- registration: nil only with a service that has its failure actions and stays;
- installer, uninstaller: exit code 0 only with the executable the checksum is
  of, a process that read the whole config, or nothing left that could run;
  every command ends, but for waits that are named.

## 2. The modules

| Module | Models | Uses |
|---|---|---|
| `WindowsHost` | the host as the updater sees it | |
| `Updater` | `suc/pkg`, all of `Run` | extends `WindowsHost` |
| `MCUpdater` | environments for TLC | extends `Updater` |
| `UpdaterProofs` | theorems about `Updater`: types, the other services | extends `Updater`, `TLAPS` |
| `UpdaterSuccessProofs` | what nil from `Run` promises | extends `UpdaterProofs` |
| `UpdaterRollbackProofs` | what nil from `RestoreInitialState` promises | extends `UpdaterSuccessProofs` |
| `CopyContract` | what `Updater` takes `copyFile` for | |
| `CopyFile` | `copyFile` and the processes that use its files | implements `CopyContract` |
| `CopyFileProofs` | theorems about `CopyFile` | extends `CopyFile`, `TLAPS` |
| `DependencySet` | the dependency list as `Updater` has it, a set | |
| `DependencyList` | the same as the slice it is | implements `DependencySet` |
| `DependencyListProofs` | theorems about `DependencyList`, with the refinement | extends `DependencyList`, `TLAPS` |
| `CsiProxy` | `Enable` and what it calls | |
| `StackDump` | the goroutine that waits for a signal, `wins stackdump` | |
| `WinsService` | the rancher-wins process and the SCM around it | extends `CsiProxy`, `StackDump`, implements `WindowsHost!WinsSpec` |
| `MCWinsService` | config files for TLC | extends `WinsService` |
| `WinsServiceProofs` | theorems about `WinsService`, with the refinement | extends `WinsService`, `TLAPS` |
| `Registration` | `--register`, `--unregister` and the SCM's entry | |
| `Installer` | `install.ps1`, `uninstall.ps1` and those who start the service meanwhile | extends `Registration` |
| `InstallerProofs` | theorems about `Installer` | extends `Installer`, `TLAPS` |
| `RancherConnection` | what both scripts ask Rancher and keep of its answers | |
| `RancherConnectionProofs` | theorems about `RancherConnection` | extends `RancherConnection`, `TLAPS` |

The three detailed modules justify what `Updater` takes for granted: that the
service reads its config before it reports Running and ends by itself only
after a stop or as a failure (`WinsService`), that `copyFile` returns nil only
with the file in place (`CopyFile`), and that the list may be kept as a set
(`DependencyList`).

### WindowsHost

`winsState` is the SCM's state of rancher-wins, `loaded` what its process read
when it started, `recovery` whether a recovery action is due, `delayedStart` its
start type, `rke2State` and `rke2Deps` the rke2 service, `cfgFile` the config
file and `exe` the two copies of wins.exe (`windows` is the one the service
runs from, `local` the one in `c:\usr\local\bin`; the one the updater writes first
is written anew by every run that uses it). The config file keeps the two flags
the updater sets; `conn` stands for everything else in it, which only the connection script rewrites.

A run may find the service in any state (`HostInit`): stopped, running, stopping,
or starting, as it does when a node boots, and then with or without its config
read already. `WinsAtFirst` narrows this for the runs that ask about something
else.

`SendStop`, `SendStart` and `CommitDependencies` are the SCM's side of the
updater's requests. The other actions are what happens without the updater: the
process loads its config, reports Running, ends after a stop or unexpectedly, is
restarted by recovery; rke2 is installed by a plan, starts and stops.

All of this is external to the repository, except the process itself. It is
modelled from how the code uses it: `service.go:84` only stops a Running
service, `service.go:92` expects ERROR_SERVICE_ALREADY_RUNNING,
`service_rke2.go:51` says what an empty list does, `configure.go:15` that a
running dependent blocks a stop. A stop control puts the service in StopPending
at once. A config file that is missing altogether is not modelled apart: to
`LoadConfig` it is what a truncated one is, the defaults and no error.

### Updater

`pc` names the call `Run` (`cmd.go:19`) makes next; each action is the whole
call, with every outcome it can have:

| pc | Action | Code |
|---|---|---|
| snapshot | `BuildInitialState` | `state.go:34` |
| connect | `UpdateConnectionInformation` | `connectionInfo.go`, `update-connection-info.ps1` |
| loadConfig, writeConfig | `UpdateConfigFromEnvVars`, `WriteConfig` | `config.go:35`, `SaveConfig` |
| delayed | `ConfigureWinsDelayedStart` | `configure.go` |
| dependency | `ConfigureRKE2ServiceDependency` | `configure.go` |
| upgrade, stage | `UpgradeRancherWinsBinary`, `StageBinary` | `upgrade.go` |
| stop, waitStopped | `Stop`, `WaitForStopped` | `service.go` |
| copyWindows, copyLocal, confirm | `CopyToWindows`, `CopyToLocal`, `ConfirmBinaries` | `upgrade.go:89` on |
| decide | `DecideRefresh` | `cmd.go:58` |
| refresh | `RefreshWinsService` | `configure.go:95` on |
| restart, start, already, waitRunning | `Restart`, `StartService`, `AlreadyRunning`, `WaitForRunning` | `service.go:76`, `service.go:136` |
| readd | `RestoreDependency` | `configure.go:143` on |
| conclude | `Conclude` | `cmd.go`, the end |
| restoreDelayed, restoreDeps, truncateConfig, restoreConfig | the parts of `RestoreInitialState` | `state.go:83` |

`Stop` is reached from the upgrade and from `Restart` (`after`), and
`RefreshWinsService` from `Run` and from the rollback (`ret`). `os.WriteFile` is
two steps, so that a kill or the service's start may come between the truncation
and the data. `Kill` ends the process in front of or inside any call; what was
being written is left torn. `Start` is the plan's next run, which remembers
nothing and may have another environment. `did` is a history variable; the code
does not have it, and no guard reads it. Its `"passedOver"` (`PassOver`) notes that
`Restart` met a service that was starting, with its config read: such a service is
not stopped (`service.go:84`), and the process keeps what it has read.

Errors that end a call after it changed something are kept apart from those that
come before: `SaveConfig` may fail before the file is opened or after,
`mgr.Service.UpdateConfig`, which makes several calls to the SCM, before or after
the change that was asked for, a copy may leave any of the old, torn and new
file. The connection script edits the config file in three calls, whose errors end nothing, and may be killed with
`powershell.exe` in any of them (`ScriptEdits`): it may succeed or fail with any
part of its edits made. What it asks Rancher before that is `RancherConnection`.

### CopyFile and CopyContract

One attempt is `ReadSource`, `OpenDest`, `WriteDest`; the loop does not stop
after a success (`common.go:119`), and nor does the model. Another process may
open or close the source at any time, and start or end from the destination
whenever that is a whole file nobody is writing.

### DependencyList and DependencySet

The slice functions of `common.go` as they are, `UnorderedSlicesEqual` included
(it looks for the first slice's elements in the second and compares the lengths,
which is not equality of multisets). `RemoveAllFromSlice` is the loop of
`removeAllFromSlice`, a recursive function whose value at `i` is what has been
appended after `i` elements. `Commit` has the SCM's two conventions. An
operation here is the SCM's list read, changed and committed in one step: the
window between opening the service and committing its configuration is not
modelled (`service.go:177`, under hazards).

### WinsService, CsiProxy and StackDump

The main goroutine runs `_runAction`: `LoadConfig`, then `Enable` if the config
has a csi-proxy section, then `runService`, where it selects on `errC` and
`doneC`. `runner` is the goroutine in `svc.Run`, `handler` the one in `Execute`,
`agent` the one in systemagent's `Run`. An unbuffered send is a rendezvous: a
sender stays in `Sending` until `SelectErrC` takes the value. `ProcessEnds` ends
all of them when main returns, `Killed` at any other moment; a process that goes
before the SCM has heard of Stopped leaves a recovery action due. The CSI proxy's
executable and service outlive the process. A new process starts only when the
old one is gone. A session on the console (`debug.Run`) and Interrogate, which
changes nothing, are left out.

`SetupDumpStacks` creates an auto-reset event and the goroutine `dumper` that
waits on it, when `runService` starts; `wins stackdump` is another process whose
calls `FindWinsProcess`, `OpenEvent`, `SetEvent` and `ResetEvent` interleave with
it. `target` says whose event the command holds: it may have found itself, or a
process that ends before the event is set. The signal is reset at once
(`dump.go:90`), so that the goroutine may miss it; that a command is answered is
therefore no property. `owed` is a history variable.

### Registration and Installer

The commands an operator runs, one at a time, on a node that is new or has an
older version. `entry` is the SCM's entry of the service, `marked` whether it is
marked for deletion: such an entry goes with its last handle (`EntryGoes`), and
until then nothing can be created in its place. `entry = "bare"` is a service
without failure actions, which a failing `ChangeServiceConfig2` leaves behind.
`exe.windows` is the wins.exe the service runs from, `exe.local` the one the
scripts download, `bad` a torn one or a page with an error. `SomebodyStarts` may
start the service at any time and any number of times. `Prepare` holds the
request for the CA, which has no time limit: it need not return (section 5).

| pc | Action | Code |
|---|---|---|
| open, stopLoop, answer, delete | `OpenRegistered`, `StopRegistered`, `StatusOfControl`, `DeleteRegistered` | `run_service.go:25` on |
| create, failureActions, eventLog | `CreateRegistered`, `AddFailureActions`, `CreateEventLog` | `run_service.go:68` on |
| unregister | `UnregisterService` | `run_service.go:144` |
| prepare | `Prepare` | all of `Invoke-WinsAgentInstall` before `Stop-Agent` |
| stopAgent, waitStopped | `StopAgent`, `WaitForAgentToStop` | `Stop-Agent` of either script |
| download, verify | `Download`, `Verify` | `Invoke-RancherFileDownload` |
| copyWindows | `CopyWinsForCharts` | `Copy-WinsForCharts` |
| setConfig, appendConfig | `SetWinsConfig`, `AppendConfig` | `Set-WinsConfig`, `Set-CsiProxyConfig` |
| startAgent, startService, waitRunning | `StartAgent`, `StartService`, `WaitForAgentToRun` | `Start-Agent` |
| assertRke2 | `AssertRke2NotRunning` | `Assert-Rke2NotRunning` |
| stopProcesses, waitGone | `StopProcesses`, `WaitForProcesses` | `Stop-Processes` |
| removeExe, removeConfig, removeService | `RemoveWinsForCharts`, `RemoveWinsConfig`, `RemoveService` | the functions of these names |

`Start-Agent` runs `wins.exe --register` when there is no service: `StartAgent`
goes to `open`, and `Return` comes back to `startService` whatever the exit code
was, because the script does not look at it. In the scripts an error of a cmdlet
ends the script; for a program it means nothing unless the script asks. The
csiproxy service, which `uninstall.ps1` stops and removes in the same way, access
rights, PATH and the registry settings of a proxy are left out; certificates and
the connection information are in `RancherConnection`.

### RancherConnection

Both scripts on one node, one at a time and any number of times, with what they
keep: `cert` is the file ranchercert ("right" has the checksum), `store` what
they imported into the machine's root store, `tls` the lines of the config's
tls-config section, `id` the file cattle-id, `conn` the connection information.
`ca` says whether Rancher's certificate is of a public CA or its own, and may
change between any two requests. `answers` keeps what `RANCHER_SUCCESS` and
`SUCCESSFULLY_TESTED_CA` say at the end.

| pc | Action | Code |
|---|---|---|
| fetchCA, verifyCA, importCA | `FetchCA`, `VerifyCA`, `ImportCertificates` | `Test-CaCheckSum` of both scripts, `Import-Certificates` |
| testCA | `InstallTestCaRequired`, `UpdateTestCaRequired` | `Test-CaRequired` |
| testRancher | `InstallTestRancherConnection`, `UpdateTestRancherConnection` | `Test-RancherConnection` |
| clearHeader, clearPath, addTls | `SetWinsConfig`, `AddTlsConfig`; `UpdateWinsConfig` | `Set-WinsConfig`; `Update-WinsConfig` |
| makeId | `NewCattleId` | `New-CattleId` |
| getInfo, restrict | `InstallGetConnectionInfo`, `RestrictConnectionInfo`; `UpdateGetConnectionInfo` | `Get-RancherConnectionInfo` |

The two scripts have functions of the same names that differ, and the model keeps
the differences. install.ps1 imports the CA before it asks whether one is
required, and update-connection-info.ps1 after it; install.ps1 ends on the error of
a cmdlet and the other script does not; at the end of its retries
update-connection-info.ps1 exits with an error, and install.ps1 goes on. The
strings "True" and "False" that the environment makes of `$true` and `$false`
are both true (`install.ps1:582`, `update-connection-info.ps1:209`). `%{http_code}\n `
with a blank makes the switch of `update-connection-info.ps1:140` run twice, so an
answer it does not like costs two retries. curl's exit code 35 stands for any
failed handshake, so that `CA_REQUIRED` may be set under a public CA too. The
request of `FetchCA` (`install.ps1:475`, `update-connection-info.ps1:43`) is the one
that has neither `--connect-timeout` nor `--max-time`: with a Rancher that accepts
the connection and does not answer, it does not return.

A node here is one that Rancher manages (`CATTLE_REMOTE_ENABLED`), installed with
a token; a local installation asks nothing. `RemoveWinsConfig` is uninstall.ps1's,
which leaves the root store as it is.

## 3. Runs

Every property has a mutant in `PROJECT.json`: a change of one definition, of
the kind a slip in the code would be, under which TLC finds the property
violated. Mutated forms stand next to the definitions they mutate, marked
"Mutant" in their comments.

| Run | Question | Instance |
|---|---|---|
| `updater_faults` | What do nil from `Run` and nil from `RestoreInitialState` promise, whatever fails and wherever the updater is killed? | two runs, each with one of two environments in which everything that can change does (one has the connection script), one poll, rke2 depending on any subset of {wins, cni}; at first the service runs, from the old wins.exe and with no delayed start (`UnchangedHostSpec`), so that the first run has everything to change |
| `updater_host` | The same, while the host moves by itself, and has the process read the config it was restarted for? | one run, one poll, the service in any of its states at first, one unexpected end of the process, recovery, rke2 installed, started, stopped; the same environments and an upgrade by itself |
| `updater_once` | Does every run end, however it fails and whatever the service does? | one run, two polls, the service in any of its states at first, rke2 starts and stops, environments with and without the connection script |
| `copy_file` | Does copyFile implement its contract? | the code's 5 attempts |
| `dependency_list` | Do the slice operations implement the set operations? | all lists of up to 4 of {wins, cni, hns}, repetitions included |
| `installer` | What does the success of an installation, a registration, an uninstallation promise, and do they end? | three commands, any number of starts by others, the code's 6 downloads and 24 polls |
| `wins_service` | Is the process what the updater takes it for, does it end when it must and only then, and dump its stacks when it is told to? | two unexpected ends, two config files, any number of commands, one at a time |
| `rancher_connection` | What do the scripts trust, what does their success promise, do they end? | any number of scripts, the code's 6 retries, two ids |

Why the bounds are enough for what the properties tell apart. Two runs of the
updater: nothing survives a run but the host, so a property of one run from an
arbitrary host left by another needs no third. One poll or two: `WaitForState` can
find the state at once, later, or never; that the counter comes to its bound needs
two and is asked where every run has to end. One other dependency: the updater treats all
others alike, and the proofs hold for any number. Lists of four: a repeated name,
another one, and rancher-wins before, between or behind them. Two ends of the
process: one in the middle of the CSI set-up and another after it. The
connection scripts run any number of times: nothing in their model counts but
the retries, and the second id is the one a node must not get. Nor does the number
of starts by others count, so that a loop that ends does not end because the model
ran out of them. Three commands: one that is killed or leaves a service half registered, one that meets
what it left, and one that undoes both.

CHECK_DEADLOCK is FALSE in all of them: the updater ends after its last run, copyFile
returns, the process is not restarted for ever, the operator stops. That nothing
hangs before that is what `RunEnds`, `ImplementsContract`, `AgentFailureEnds`,
`StopEnds`, `CommandEnds` and `ScriptEnds` say.

What the passing runs show:

- `SuccessIsConfigured`: config file, start type and rke2 dependency are as the
  environment asks when `Run` returns nil, in any run after any other, with the same
  environment or another one, whatever `RefreshWinsService` took away in between.
  The rest of the file is what the run found, unless it has the connection script.
  If rke2 appears only after `ConfigureRKE2ServiceDependency` looked for it, nothing
  is promised of it; and what an earlier run lost of the rest of the file, killed
  between truncating and writing it, this run does not bring back.
- `SuccessIsUpgraded`, `SuccessIsRestarted`: the executable the service runs from
  is the new one; a service stopped for the upgrade was started again. In a first
  run the copy in `c:\usr\local\bin` is the new one too; a later run that finds
  the first copy new does not look at it (`upgrade.go:42`).
- `SuccessIsFresh`: in a first run and as long as the process does not die by
  itself, nil from `RefreshWinsService` means that the service runs in the end and
  that its process has read the file as it is now, in whatever state the run found
  it, with one exception: a process that was starting and had read the old file
  when `Restart` looked at it is not stopped and keeps it (`service.go:84`, section
  4). A service that was starting and had not read the file yet, or that others
  start between the stop and the start, is not excepted. Both conditions are
  necessary: a process restarted by its recovery actions may read the truncated
  file, and a run that follows one killed between saving the config and the
  restart sees no change and restarts nothing.
- `RollbackIsFaithful`: nil from `RestoreInitialState` means the snapshot's
  config, start type and, unless it was empty, dependency list, in spite of the
  refresh the rollback ends with.
- `OthersUntouched` (run with the faults; the proof covers the host's steps too),
  `RollbackKeepsOthers`: the rest of rke2's dependencies survives everything; the
  snapshot's list never goes stale, not even when rke2 is installed in mid-run.
- `RestartIsUnblocked`: a refresh asks for a stop the SCM would refuse only if
  rke2 could not be opened.
- `RunEnds`: every run that has no connection script ends, and so does every run
  that has come out of its script. In the script it may hang, with the request for
  Rancher's CA.
- `ImplementsContract`, `InUseLeavesItWhole`, `ImplementsSets`,
  `OthersKeepTheirOrder`, `RestoreKeepsRepetitions`: section 2.
- `CsiIsStarted`: until a process ends unexpectedly, a process that wants the CSI
  proxy serves only with the proxy started. After such an end it does not hold
  (section 4).
- `DumpIsOwed`: the goroutine begins a dump only for a signal sent since the one
  before: an event that stayed set would make it dump for ever.
- `OnlyVerifiedIsTrusted`: whatever is served or left behind by a killed script,
  only the CA with the checksum gets into the root store.
- `UpdateIsAnswered`: the updater's script succeeds only with an answer to every
  question, asked in this run.
- `TlsIsVerified`, `InstallIsConnectable`: install.ps1, which drops some of its
  failures, still names only a verified certificate, in a whole section, and
  leaves connection information of some run: the latter only because
  `Set-RestrictedPermissions` (`install.ps1:641`) fails over a missing file.
- `IdIsForGood`: a node keeps its id until wins is uninstalled.
- `ScriptEnds`: both scripts end, whether Rancher answers or not, unless one hangs
  for good in its request for the CA: no loop of retries and no other request can
  keep it.
- `ImplementsHost`, `CleanExitWasAskedFor`, `AgentFailureEnds`, `StopEnds`,
  `ServesOverCsi`: the process is `WindowsHost!WinsSpec`; nil from the agent or
  from `svc.Run` never ends it; a failing agent and a stop always do, whichever
  goroutine wins which race; it serves only over a CSI proxy that was extracted
  to the end, however many processes died on the way. `SendStop` and the race
  between `doneC` and the SCM (`run_service.go:268`) are harmless for the host
  model: the process that main ends too early is an unexpected end.
- `RegisteredForGood`, `InstalledIsVerified`, `InstalledIsFresh`,
  `UninstalledIsGone`: success is not the work of an earlier command that was
  killed, nor undone by one that starts the service in between. Each is as strong
  as the code allows: without a checksum whatever is there is installed, with a
  bare service too, because `install.ps1` ignores the exit code of `--register`;
  a service that others start while the config is being written may have read
  half of it.
- `CommandEnds`: behind the request for the CA every command ends, or comes again
  and again to one of two places. `WaitIsOutrun`: a script waits for the process to
  be gone and somebody has started it behind the stop; one start is enough
  (`install.ps1:741`, `uninstall.ps1:142`). `LoopIsOutrun`: the loop of
  `registerService`, which has no bound (`run_service.go:43`), finds the service
  starting; it goes on only if somebody starts the service again while it sleeps, in
  every turn. Nothing else lasts: neither the downloads nor the polls.

## 4. Findings

Four comments or promises of the documentation that the code does not keep. Each
is a run that TLC refutes, by the property of the same name in the module, where
the sentence is quoted.

| Run | Source | What happens |
|---|---|---|
| `rollback_complete` | `state.go:81`, `state.go:108` | The run adds rancher-wins to an empty dependency list; the rollback writes the empty list back, which changes nothing, and returns nil. |
| `failure_rolled_back` | `state.go:16-18`, `cmd.go:55` | A failed upgrade returns from `Run` before the rollback, with config, start type and dependencies changed. |
| `dependency_restored` | `configure.go:92-94`, `configure.go:150` | rke2 cannot be reopened: the nil service is dereferenced, the panic recovered, the exit code is 0, the dependency stays away. |
| `stop_unblocked` | `configure.go:15-16`, `upgrade.go:89` | The upgrade stops rancher-wins without taking the dependency away. |

More disagreements the models have, without a run of their own:

- `service.go:75` says that "Restart explicitly stops and then starts the Service".
  A service that is starting is only waited for (`service.go:84`): an updater that
  comes while a node boots can save a new config after the process has read the old
  one, and return nil with the old config in force. Without its exception
  `SuccessIsFresh` is violated in `updater_host`: the service is StartPending with
  the config read when the run begins, the run changes the file, `Restart` goes on to
  `Start`, which answers ERROR_SERVICE_ALREADY_RUNNING, and the service reports
  Running.
- The scripts give every request to Rancher a time limit but the one for the CA
  (`install.ps1:475`, `update-connection-info.ps1:43`): it may hang the
  installation, and through `connectionInfo.go:26` the updater.
- `README.md:133` says that wins "ensures it is running" of the CSI proxy, but a
  csiproxy service that was created by a process that then ended is never started
  by a later one (`csi.go:97`). `CsiIsStarted` therefore speaks of the time before
  an unexpected end.
- `install.ps1:582` means to end with "Error connecting to Rancher" but never does:
  `!$env:RANCHER_SUCCESS` negates the string "False", which is true. An
  installation that never reached Rancher may succeed with connection information
  of an earlier run.
- `stack.go:16` says that `DumpStacks` returns up to `1 << 15` bytes; the buffer
  doubles until everything fits.

## 5. Fairness

- `Updater`: weak fairness of `UpdaterStep`, but not while it waits for the
  connection script (`AwaitsScript`). The updater is a sequential process whose
  other calls, to the SCM and to files, return; the script's need not, because of
  the request below, and `connectionInfo.go:26` gives it no time limit. Nothing is
  assumed of the service, of rke2 or of the plan. `RunEnds` therefore holds even if
  the service never changes its state, because `WaitForState` counts its polls.
- `RancherConnection`: weak fairness of the script's own steps, but not of the
  request for the CA (`AwaitsCA`). Every other request carries `--connect-timeout 60
  --max-time 60` and ends by itself. Rancher need not answer, nobody need run
  another script.
- `CopyFile`: weak fairness of its own steps, none of the other processes.
- `WinsService`: weak fairness of main, of the goroutine in `svc.Run` and of the
  handler, each by itself: the Go scheduler runs every goroutine that can go on.
  Nothing is assumed of the goroutine that dumps nor of the commands.
  The agent may run for ever; the SCM need not send a stop; nobody need write
  the config.
- `Installer`: weak fairness of the command's own steps but `Prepare`, which holds
  the request for the CA (the download has `--max-time 300`), and of the service's:
  it reads its config, reports Running and ends after a stop, which is what
  `StopEnds` of `WinsService` shows. Nobody need start the service, though anybody
  may as often as they like, close a handle or run another command.

## 6. Proofs

`UpdaterProofs` proves, for every set of other services, every set of
environments, any number of runs, polls and unexpected ends:

- `TypeCorrect`: `Spec => []TypeOK`.
- `RollbackKeepsOthersCorrect`: `Spec => []RollbackKeepsOthers`.
- `OthersUntouchedCorrect`: `Spec => OthersUntouched`.

The assumptions are those declared in `WindowsHost` and `Updater`:
`NamesAssumption` (the three kinds of names differ), `WinsAtFirstAssumption`
(states of a service, any of them), `CrashesAssumption`, `BoundsAssumption`, `HostEventsAssumption` and `EnvironmentAssumption` (the
constants have their types). TLC evaluates them in every run of `MCUpdater`.

`TypeOK` is inductive. Its step lemma is split the way the invariant is: host
(`HostTypeStep`), control (`ControlTypeStep`), the rest (`LocalTypeStep`), with
the shared endings of the subroutines (`RefreshReturnsType`, `StopFailsType`,
`PollType`) proved once.

For the other two, each of the three lists the updater commits has to be shown
to differ from the one in force in rancher-wins only (`ListsKeepOthers`,
`CommitKeepsOthers`). For adding and removing this is set theory, with `/` the
interesting case. For the rollback it is not: the list is the snapshot's, taken
many steps earlier. `OthersUntouched` therefore needs `RollbackKeepsOthers` as an
invariant, and that is not inductive by itself: a step that puts rke2's
dependency back presupposes that rke2 is still registered, otherwise it would
add a list to a service that is not there. `Rke2Stays` supplies it (what was
removed was removed from a registered rke2, `depRemoved` is not empty at
`readd`, and rke2 is never unregistered: `Rke2IsNotRemoved`). The inductive
invariant is `OthersIInv`, that is `TypeOK` and `RollbackKeepsOthers`, with
`Rke2Stays`.

`UpdaterSuccessProofs` proves the five invariants about runs that return nil, from
the same assumptions: `SuccessIsConfiguredCorrect`, `SuccessIsUpgradedCorrect`,
`SuccessIsRestartedCorrect`, `SuccessIsFreshCorrect`, `RestartIsUnblockedCorrect`.
All but the last speak of the end of a run, so each has a strengthening that says
of every `pc` what the run has achieved by then. Their conjunction is
`SuccessIInv`:

- `ControlFits`: only a rollback calls `RefreshWinsService` with `ret` "restore",
  and with an error to report. That is what keeps a rollback's steps out of the
  others: it undoes the configuration, but `Run` cannot return nil any more.
- `RestOfFileKept`: without the script the rest of the file is what the run found,
  in the file or, while that is truncated, in the config about to be written; an
  error of writing it is one of `Run`'s.
- `Configured`, `DependencyConfigured`: as long as there is no error (`SoFar`) and
  the call that sets it is done, config file, start type and dependency are the
  environment's. The dependency has an exception, `TakenAway`: between
  `RefreshWinsService` taking it away and putting it back it is not there, and the
  environment asks for it. A refresh that fails in between has an error.
- `BinariesInstalled`: after the upgrade the copy in `c:\Windows` is new. For the
  other copy it needs that in a first run both were alike when `UpgradeRancherWinsBinary`
  looked at one of them.
- `RestartIsOwed`: a service that was stopped and not started again is on its way
  to the restart, or there is an error.
- `Unblocked`: between taking the dependency away and the stop nobody adds it.
  rke2 may be installed in that window, but without it.
- `FirstRunFresh`: as long as the process has not ended by itself, no recovery is
  due, so that in a first run nobody but the updater stops or starts the service. As long
  as there is no error, `Phases` says what each `pc` of the restart knows then: the
  service is on its way down (`Ending`), or starting with its config unread, read as
  it is now, or passed over (`Reading`), or running in the same way (`Fresh`).
  `WaitForState` tells the last from the others, and nothing writes the config file
  between the restart and the end.

`UpdaterRollbackProofs` adds `RollbackIsFaithfulCorrect`. `RollbackSoFar` says what
each part of `RestoreInitialState` has put back, given that none of them failed,
and what the refresh behind them leaves of it: the whole list, or the list without
rancher-wins, which is put back only if it was in the list that was taken
(`ListTakenAway`). That the list is written at all presupposes that rke2 is there
whenever the snapshot's list is not empty, which is a part of `RollbackKeepsOthers`,
so the inductive invariant `RollbackIInv` contains `OthersIInv` and `Rke2Stays`.
`Restored` keeps all this until the next run: rke2 may be installed after the
rollback, but only one that was absent, and then the snapshot's list is empty.

TLC has checked the parts of `SuccessIInv` and `RollbackIInv` as invariants of the
three runs of `MCUpdater`.

`DependencyListProofs` proves all four properties of `DependencyList`, for any names
and lists of any length, with any repetitions (`ListAssumption`): `TypeCorrect`,
`OthersKeepTheirOrderCorrect`, `RestoreKeepsRepetitionsCorrect` and the refinement,
`ImplementsSetsCorrect`: `Spec => Sets!Spec`. What `removeAllFromSlice` returns can only
be shown by induction over the slice. The library's induction theorems take an
operator, which the provers cannot instantiate; `SetInduction` and `SeqInduction`
state induction for a set instead, the set of those naturals or sequences for which
the claim holds, and follow from the fact that a set of naturals has a least
element. `LoopExists` and `LoopPrefix` show that the loop's states are determined,
which gives two equations, `RemoveAllEmpty` and `RemoveAllAppend`. From these alone
follow, by induction, type and members of the result, that removing twice is
removing once (`RemoveAllTwice`), that the others are as many as before
(`RemoveAllKeepsOthers`), and that the length differs from the slice's by the copies
removed (`RemoveAllCounts`).

The invariant is `TypeOK` and `SameOthers`: the list without rancher-wins and the
initial one without it are the same sequence. It is why `UnorderedSlicesEqual` is
good enough for `RestoreInitialState` (`EqualSlicesAgree`): two lists that agree on
the others and in length have the same number of copies of rancher-wins. For
arbitrary slices it is not; `<<a, a, b>>` and `<<a, b, b>>` would be taken for equal.

`CopyFileProofs` proves, for every number of attempts (`CopyFileAssumption`: at
least one):

- `TypeCorrect`, `InUseLeavesItWholeCorrect`;
- `ContractIsKept`: `Spec => Contract!Init /\ [][Contract!Next]_<<dest, result>>`,
  the safety part of `ImplementsContract`.

The invariant is `CountsFit` (the loop goes on while attempts are left, no
attempt writes twice) and `DestIsWhole`: between attempts the destination is not
torn, and is the new file once an attempt has succeeded, which a later attempt
that meets an error other than "in use" may undo.

`InstallerProofs` proves the type invariant and all four safety properties of
`Installer`, for any number of commands, downloads, polls and starts by others
(`InstallerAssumption`: they are natural numbers): `TypeCorrect`,
`RegisteredForGoodCorrect`, `InstalledIsVerifiedCorrect`,
`InstalledIsFreshCorrect`, `UninstalledIsGoneCorrect`. The properties speak of
the moment a command has ended with 0 and are not inductive; `IInv` says of every
call what they say of the last one: that the entry created is not marked
(`EntryStays`), that the file with the checksum is the one that is copied and
then the one that is there (`VerifiedSoFar`), that nothing runs while the config
is written (`FreshSoFar`), that nothing can run once the executable is gone
(`GoneSoFar`). All of them need to know whose call a `pc` is, because both
scripts and the registration share some (`CallsFit`). `TypeOK` itself needs
`HandleHeld`, that the entry cannot go while `registerService` holds its handle,
without which it could mark an entry that is not there, and `TriesStart`. TLC has
checked the parts of each `IInv` on the instances of the runs.

`WinsServiceProofs` proves, for any config files (`ConfigFilesAssumption`: configs)
and any number of unexpected ends (`MaxCrashesAssumption`), the type invariant,
all safety properties of `WinsService`, and the refinement:

- `TypeCorrect`, `CleanExitWasAskedForCorrect`, `ServesOverCsiCorrect`,
  `CsiIsStartedCorrect`, `DumpIsOwedCorrect`;
- `ImplementsHostCorrect`: `Spec => Host!WinsSpec`.

`Goroutines` says which goroutines there can be by how far main has come,
`Reported` what the SCM has been told by then, `CrashesLeft` that a process that
runs has an end left; together they are the inductive invariant `Inv` on which
the rest is built. `CsiProgress` and `FirstProcess` add what main knows of the CSI
proxy at each call, `EventIsHeld` that a command's event goes with the process it
found, `Mapped` what the refinement mapping needs: a stop is due only while the
service runs, and the config is read once. `HostStep` then takes the actions one by
one: most are stutters, and an end of the process is a stutter if the SCM has
heard of Stopped and `WinsEndsUnexpectedly` otherwise.

`RancherConnectionProofs` proves the type invariant, the other four invariants
and `IdIsForGood`, for any number of retries and any ids (`AttemptsAssumption`,
`IdsAssumption`): `TypeCorrect`, `OnlyVerifiedIsTrustedCorrect`,
`UpdateIsAnsweredCorrect`, `TlsIsVerifiedCorrect`, `InstallIsConnectableCorrect`,
`IdIsForGoodCorrect`. The strengthenings say of every `pc` what the properties say
of the last one: that the file about to be imported is the right one
(`ImportIsVerified`), which questions have been answered by then
(`UpdateProgress`), which lines of the section are in the config and why.
`TriesOK` keeps the arithmetic of the retries, with the one step too far of
`update-connection-info.ps1:139`.

## 7. Model-checked only, and not modelled

Only model-checked: liveness (`RunEnds`, `AgentFailureEnds`, `StopEnds`,
`CommandEnds`, `ScriptEnds`, `ImplementsContract`'s fairness), which is beyond the
prover. Every other property of the passing runs is a theorem.

Not modelled:

- In the scripts: access rights but for the connection information's, PATH, the
  proxy's registry keys, the csiproxy service, rke2; a local installation, which
  asks Rancher nothing.
- Stack dumps: a pid that is used again while a command holds the event of the
  process that had it, and the file of the dump.
- `Disable`, `Delete` and `State` of the concierge: nothing in the repository
  calls them.
- The system agent: a library; only what its `Run` returns to `Execute` matters.
- Logging, profiling, paths, converters, defaults: no state of the
  program depends on them.
- Parsing and comparing of version strings: a file is of the old or the new
  version, or unusable.
- The build and the tests.

## 8. Plan

Written in this order: `WindowsHost` and `Updater`, because the updater is where
most state is changed by most fallible steps; `CopyFile` and `DependencyList`,
which justify its abstractions; `WinsService` and `CsiProxy`, which justify the
host's; `UpdaterProofs`.

Then `Registration` and `Installer`, with the loop of `run_service.go:43`, which
has no bound, and the retries of the download; `CopyFileProofs` and
`InstallerProofs`.

After that `RancherConnection`, whose retries and certificate the updater's and
the installer's models took for granted, and `StackDump` in `WinsService`; with
them `RancherConnectionProofs` and `WinsServiceProofs`.

Next, modules:

1. In `Updater`: the window between opening a service and committing its
   configuration (`service.go:177`).
2. In `Installer`: rke2 and the csiproxy service.

Then `UpdaterSuccessProofs`, `UpdaterRollbackProofs` and `DependencyListProofs`, which
leave no safety property that is only model-checked.

Next, theorems:

1. That `Updater`'s operators `WithDependency`, `WithoutDependency` and
   `CommitDependencies` are the operations of `DependencySet`, so that the two
   models of the list are joined by proof.
2. That `Updater`'s `CopyTo` allows what `CopyContract` does.
3. For the counters (`polls`, retries), that they decrease between two steps of a
   loop: the safety half of the termination that TLC checks.
