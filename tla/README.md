# Verification of generic-agent-lab

TLA+ models of `agentlab`, a single-host lab in which an agent edits, builds and tests a
toy project: the work of a job runs in a rootless container, and a build that passes is
tried in a disposable virtual machine. What makes the program hard is not its data but
that several short-lived processes share files, locks, containers and libvirt domains, that
any of them may fail or die between two effects, and that what one leaves behind another
must find, remove, or not believe.

Paths below are relative to the repository. `X.tla` and the `.cfg` files are in this directory.

## 1. Inventory

| Part | State it keeps | Operations | What is hard, what makes it correct |
|---|---|---|---|
| VM broker, `agentlab/vm.py` (deploy, status, destroy, reap) | `vm/V/record.json`, overlay and seed directory, keys, libvirt domain, `current_vm_id` | `vm_deploy`, `vm_status`, `vm_destroy`, `vm reap` | Death between any two effects; two jobs that deploy at once; guests that power off by themselves. A machine is always journaled, the quota holds over all jobs, DESTROYED is true, expired VMs go away |
| Readiness, `vm.py` wait, `validate.py` wait_vm | none beyond a call (what was seen, the time left) | `vm_wait` | Deadlines, a retry within one budget, the code that is reported |
| Store, `agentlab/store.py` | jobs' folders, `state.json`, flock files, `events.jsonl`, `installation.json` | `lock`, `save`, `invalidate`, `create_job`, `event` | Locks that end with their process, replaced files |
| Registry, `agentlab/registry.py` | none | `call` | One call per job at a time, errors as results, an event that cannot be written after the operation succeeded |
| Cleanup and reap commands, `agentlab/cli.py` | none | `cleanup`, `vm reap` | Go on after failures; what the exit code says |
| Build broker and its neighbours: `build.py`, `local_tools.py` (patches), `vm.py` (image_register, image, TestBroker), `containers/build-toy.py` | `state.json` (patch, build, image, status), records of patches, builds, images, tests, wheels | `patch_create`, `patch_apply`, `build_run`, `build_status`, `image_register`, `test_run` | The source is in the reach of the sandbox's code at all times; several files are replaced one after the other. Evidence is never stale or inherited |
| Sandbox, `agentlab/sandbox.py` | one container per job, `sandbox.json` | `sandbox_create`, `execute`, `sandbox_destroy` | A command that exceeds its limit stops the container |
| Validation, `agentlab/validate.py` | rows, list of jobs, report files, `latest.json` | `validate` | Signals at any step, failures of cleanup, failures of the report's own writes. A good report is earned |
| Base image and VM storage, `vm.py` prepare_base, init_storage | `base.json`, the base, `.lab-owner.json` | `image prepare` | A long download with `vm-global` held; files put in place in a sequence; check, then write |
| Process runner, `agentlab/process.py` | buffers of one command | `run`, `checked` | Deadline, output limit and end of output in one loop |
| Policy, `policy.py` | none | `read_file`, `list_files`, `source_hash` | Pure lookups |
| Models, `models.py` | declarations | input schemas, `JobState` | |
| Host checks, `host.py` | none | `verify_host` | Reads the host |
| Diagnostics, recovery advice | none | `diagnose`, redaction, a table of advice | Text and I/O |
| Setup, `scripts/` | status file, setup lock, `/etc/subuid`, marked files and folders | `bootstrap`, `start`, `configure-subids` | Two setups at once, an EXIT trap that writes, a rerun over what a failed setup left |
| Tooling: CI, `check-public.py` | none | | Not part of the running system |

How they interact. Every `labctl` command is a process of its own. It calls the registry,
which takes the job's flock and runs one broker operation; the VM broker then takes the
flock `vm-global`. `cleanup` goes through the registry item by item; the reaper, started by a
systemd timer, calls the VM broker directly and takes the same two locks in the same order.
`validate` is a long process that makes registry calls one after the other. Nothing is
passed between processes but the files, the locks, Podman and libvirt. The code in the
sandbox is not ordered by any lock.

`PROJECT.json` lists under `hazards` each place where this bites, with the properties
that are about it.

## 2. Modules

| Module | What it is |
|---|---|
| `VMLedger` | Abstract: what the VM broker promises. A reservation (at most MAX_VMS), a machine only against a reservation, a reservation given back once its machine is gone, never twice |
| `VMLifecycle` | The VM broker under its callers, the reaper, failures and deaths; implements `VMLedger` |
| `JobLineage` | The evidence of one job: patch, build, image, guest test |
| `ValidationRun` | One `agentlab validate`: checks, interruption, cleanup, reports, exit code |
| `Readiness` | The wait for one guest, in two attempts over one budget |
| `SandboxCalls` | The calls of one job that reach its container, and the event each leaves |
| `BaseImage` | The base image of all disks: its storage's owner, its preparation, who relies on it |
| `ProcessRun` | One command: process group, pipes, deadline, limit |
| `SetupRun` | Setups of one host: lock, EXIT trap, status, what each finds of the former |
| `VMLifecycleProofs`, `JobLineageProofs`, `ValidationRunProofs`, `ReadinessProofs`, `SandboxCallsProofs`, `BaseImageProofs`, `ProcessRunProofs`, `SetupRunProofs` | The inductive invariant of the module of that name (that of `VMLifecycle` is at the end of the module itself), and the theorems about it |
| `MC...` | Instances for TLC |

The modules meet where one takes the other's result: a `Deploy` of `JobLineage` is the deployment
of `VMLifecycle`; a check of `ValidationRun` fails when a wait of `Readiness` does; every command
that a model answers with success or failure is a call of `ProcessRun`.

A definition marked *Mutant* in a comment is an altered form of the definition after it; no
behaviour specification uses it. It shows, by being put in its place, that a property can fail.

### VMLifecycle

One process is one command. A step is one effect that outlives the process: a lock, a file
replaced (`atomic_json`), a directory made or removed, an answer of libvirt. Between two
steps any other process may act or this one may die; `Crash` covers SIGKILL, power loss and
a signal inside a handler, and releases the locks as the kernel does.

| Model | Code |
|---|---|
| `owner[v]` | `jobs/J/vm/V/` exists, and for which J |
| `record[v]` | `status` in `record.json`; `none` without the file |
| `diskDir`, `secrets` | the VM's directory in VM storage; `client_key`, `host_key`, `user-data` |
| `domain[v]` | what libvirt knows |
| `expired` | VMs whose record is MAX_LIFETIME old; time itself is not modelled |
| `currentVM[j]` | `current_vm_id` in `state.json` |
| `jobLock[j]`, `vmLock` | the flocks |
| `LockJob`, `LockVM`, `Busy` | `Store.lock`: it is taken, or the wait ends in RESOURCE_BUSY |
| `DeployCheck` ... `DeployReturn` | `deploy`, in its order; `DeployQuota` is the quota check with the folder's mkdir, `DeployMaterial` keys, user-data, overlay and seed |
| `DeployFails`, `DeployFailed` | its `except BaseException`: record FAILED, or note that it could not be saved, then `_destroy` |
| `DestroyQuery` ... `DestroyDeselect` | `_destroy`, in its order, for destroy, reap, status of an expired VM and deploy's handler alike |
| `StatusRead` | `status`, which reads without `vm-global` |
| `StartReap`, `ReapNext`, `ReapDone` | `reap`: records are read once, without locks; an exception ends the pass |
| `StartCleanup`, `CleanupNext`, ... | `cleanup` of one job; a failed item is remembered and the loop goes on |
| `GuestOff`, `Expire` | the guest's own poweroff (also a crash, or a reboot of the host); time |

Abstracted: the contents of records beyond the status; the image and its hash (in
`JobLineage`); the event the registry appends after the operation; `sandbox_destroy`, the last
item of a job's cleanup, which touches none of this state; retried reads. A call of libvirt
has its effect or fails before it: a request that times out and takes effect later is not
modelled, because nothing in the repository bounds when.

### JobLineage

| Model | Code |
|---|---|
| `source` | `workspace/source`, as the contents its tests tell apart; `source_hash` is the identity on it |
| `state` | `state.json`: patch, build, image, build_status, status |
| `patches`, `applied` | patch records, `applied_source_hash` |
| `built`, `wheels` | build records; the stored wheel, intact or not. `wheel` (what it was made of), `churn` (edits since the first hash) and `forged` are history that no action reads, but for the guest's own test of the wheel |
| `copy` | what the container copied of the source, then the wheel in `workspace/output`: in the sandbox's reach until it is imported |
| `images`, `vms`, `passed` | image records, images a VM was made for, images whose wheel passed in a guest |
| `newest` | history: the patch the last caller selected |
| `PatchWrite`, `PatchSelect` | `patch_create` |
| `ApplyGit` ... `ApplyRecord` | `patch_apply`: git in the sandbox, `invalidate`, hash, record |
| `BuildStart` ... `BuildState` | `BuildBroker.run`; `loaded` is its Python object `state`, saved again by the `finally` clause after the record |
| `BuildImport`, `BuildSelect` | the wheel is read from `workspace/output` and stored; the state takes the build's id. An interruption after that fails the build, and the state is saved with the id |
| `Revoke`, `Current` | `BuildBroker.current` |
| `Register*`, `Deploy`, `Test*` | `image_register`, the check at the start of `deploy`, `TestBroker.run` |
| `Edit`, `Forge` | code in the sandbox: it edits the source at any time, or replaces a build's copy of it, its wheel, or removes that |
| `Damage`, `Stops` | a changed artifact; a death (also a second Ctrl-C, in the `except` or `finally` clause), or a failed write |

An image is named by its build: in the code it is named by the hash of a manifest of the build and
the base, so that registering twice gives the same image unless the base was replaced, which a
job's evidence does not depend on (the base is in `BaseImage`).

### ValidationRun

`pc` follows `Validation.run`. A check that makes something which outlives the run is an
action of its own; those in the sandbox after the isolation checks, and those of running
guests, are one action each, as they leave nothing new to clean up.

| Model | Code |
|---|---|
| `rows` | the results among `self.rows` |
| `jobs`, `todo`, `attempted` | `self.jobs`, the VM folders listed, what cleanup came to |
| `folders`, `machines`, `boxes` | what is on the host |
| `json`, `latest`, `emergency` | `report.json`, `reports/latest.json`, the report under /tmp |
| `Save` | `write_report` after each check; a failed write is a row |
| `Interrupt`, `Raise`, `Handler` | the except clauses of `run`; a signal in the handler (`doomed`) goes through the cleanup and out |
| `Escape` | a signal in `cleanup()` or later, which nothing catches |
| `Final` ... `FinalFailed` | the last `write_report`: `report.json`, then `summary.md` and `report.html`, then `latest.json`; or the emergency report |

### Readiness

One unit of time is half a second, which shows what `ceil` does. A call takes any time up to its
limit, not up to what the caller has left, as in the code.

| Model | Code |
|---|---|
| `Seconds` | `remaining` and `budget` in `wait_vm` |
| `Attempt` | `vm_wait`: job's lock, controlled fault, `deadline` |
| `Poll`, `Ssh`, `Sleep`, `Expired` | the loop of `VMBroker.wait` and what follows it |
| `Diagnose` | `fail`: guest diagnostics, the log, the error |
| `Retry` | the `except` clause of `wait_vm` |
| `Guest` | the guest gets an address, answers, is ready, stops; another machine answers for it |
| `alarm` | history: that the guest stopped, or a host key did not match |

### SandboxCalls

| Model | Code |
|---|---|
| `Call`, `Event`, `Reply` | `Registry._call`: the job's lock, the operation, the event; the result, a step later |
| `events`, `torn` | `events.jsonl`; an append that failed, or whose process was killed, left a part of its line |
| `Inspect` | `Sandbox.inspect`, the start of each operation |
| `RunBox`, `SaveBox` | `create`: `podman run`, which may leave a container when it fails; `sandbox.json` and the state |
| `Exec`, `ExecEnds`, `StopBox` | `execute`: a command enters the container; its client returns, or is past a limit, and then `podman stop` |
| `CommandEnds` | the last process of a command ends, before or long after its client |
| `RemoveBox`, `Verify` | `destroy` |
| `Kill`, `OrphanActs` | labctl is interrupted, or killed (in the middle of a line too) with podman's client left: `process.py` gives it a session of its own |

That a client returned says nothing of its command: `execute` answers OK for every return code but
124 and 137 (`sandbox.py:77-89`), so also for a client that failed by itself, and for a command that
left a child. `ExecEnds` therefore answers OK whatever is still inside.
`box.born`, `box.inside`, `replies` and `calls` are history: which call made the container, of which
calls something runs in it, what was told. The quick failure RESOURCE_BUSY changes nothing and is no step.

### BaseImage

| Model | Code |
|---|---|
| `owner`, `base`, `manifest` | `.lab-owner.json`, `base-*.qcow2`, `base.json` in VM storage |
| `disk` | what a loss of power would leave of base and manifest: the one is renamed without an fsync, the other written by `atomic_json` |
| `Own`, `Claim` | `init_storage`, whose check and write are two steps |
| `Check` | the recorded base is verified, or downloaded; a deployment verifies the base of its image |
| `Sums`, `Image`, `Place`, `Record` | `prepare_base`: signed list, image and comparison, `image.replace`, `base.json` |
| `RegisterOwn`, `RegisterClaim`, `Register`, `RegisterFails` | `image_register`, without `vm-global`: `init_storage` in its two steps, also where there is no base; `base.json` read, and the image bound to it, if there is one |
| `registrar` | where each installation's `image_register` is |
| `Overlay` | `qemu-img create` in `deploy` |
| `Die`, `PowerLoss` | a failure or a death of one process; the host's |

The digest stands for the content. `SHA256SUMS`, which nothing reads again, is left out, and the
quota and the rest of a deployment are in `VMLifecycle`.

### ProcessRun

| Model | Code |
|---|---|
| `pc` | where `run` is; `kill`, `reap`, `finally` as in its clauses |
| `call` | its buffers, the pipes registered, the events of one `select`, `timed_out`, `limited` |
| `cmd` | the world: which processes live, who can write where, what is in the pipes |
| `Read` | the body of the inner loop: a chunk cut at the limit, or the end of a pipe |
| `KillGroup` | `kill_group`; `stray` notes a kill after the leader was reaped |
| `Interrupt` | a signal's exception; before the `try`, nothing ends the command (`abandoned`) |
| `Code` | `checked` |

A `leader` may fork a `member` of its group and a `daemon` outside, which keep the pipes open.
A call is interrupted once; a second Ctrl-C inside the `finally` clause is not in the model, nor is one
inside the `except` or `finally` clause of `build.py` other than as a death.

### SetupRun

| Model | Code |
|---|---|
| `fs` | what bootstrap installs: files told by a marker, `/opt/generic-agent-lab` by `.managed`, VM storage by its owner. `partial`: there, not yet told |
| `Launch`, `Lock`, `Reject` | `setup_logging`: trap, then flock, or its end after 10 s |
| `Look` | the preflight checks |
| `Begin`, `End` | one target in two steps: truncate, then write (`cat >`); make, then mark |
| `Finish` | `setup_finished`: the status file, best effort (a file that cannot be opened keeps the former status, one that cannot be written is left empty), and the lock by exit |
| `silent` | history: since the status was written, a setup was killed, or ended with its own unwritten |
| `Fail`, `Kill`, `Orphan` | `set -e` or a trapped signal; SIGKILL; the command it leaves, which has the lock's descriptor |

Foreign files are there from the start. A file that appears between the preflight and its
writing would be overwritten; the model does not have that. Loss of power is not modelled.

## 3. Runs

| Run | Question | Bounds, and why they are enough |
|---|---|---|
| `vm_safety` | All safety properties of `VMLifecycle` and the refinement | 2 jobs, 2 VMs, 2 callers that deploy and clean up, and the reaper; quota 1, so that the second deployment is at the limit; one VM that fails the ownership check; one failure or death anywhere. Symmetry over callers and jobs. Two of each is what races and what the quota needs; more are covered by the proofs |
| `vm_reaping` | `DueIsDestroyed` | 1 caller that deploys and asks for status, the reaper, 2 VMs within the quota; one failure or death. No symmetry |
| `vm_reaper_blocked` | A disagreement, see below | 2 VMs, one with a foreign domain, no failures at all |
| `vm_keys_left` | A disagreement, see below | 1 job, 1 caller, one death |
| `job_lineage` | The evidence of a job | 2 callers, 2 patches, 2 builds, variants fix and next, 2 edits, one death, failure, interruption, forged or damaged wheel: enough for an edit in a build, its undoing, a patch replaced while another is built, and a stale build kept |
| `validation_run` | What report, exit code and host say | All profiles and counts up to MAX_VMS = 3, 2 signals (the second is the interesting one), 2 failed writes (the final report's and the emergency report's) |
| `readiness` | Budget, verdict and end of a wait | budgets of 1 to 4 s, the odd ones for `ceil`; limits of 1 to 3 units, each more than what may be left at a deadline. Larger numbers repeat the same comparisons |
| `sandbox_calls` | Does what callers were told agree with the container and the log | 2 callers, 4 calls (make, use, remove, one more), 2 faults (an event and the operation before it, or a command and its stop), 1 kill, also in the middle of a line. Symmetry over callers |
| `base_image` | Is what is bound and overlaid whole, does preparing recover | 2 installations with a process each, so that the storage can be taken twice; 2 releases; 2 of: new release, failure or death, loss of power, which is a release replaced before a failure, a failure before a loss of power, and the like. The safety properties are proved for any number |
| `process_run` | What is a caller told, what is left running, does the call end | 1 command with 2 more processes, deadline and limit of 2, and more output than the limit |
| `setup_run` | What does the status say, does a rerun succeed | 2 setups, 2 failures or kills, and a foreign file that the preflight finds, a later check finds, or none |
| `validation_interrupted` | A disagreement, see below | one signal, no failed writes |

Passing properties: a type invariant (in `SetupRun` the variables have nothing to relate), and

- `QuotaHeld`, `MachineIsCovered`, `DestroyedIsClean`, `SelectedVMWasBooted`, `LockOrder`,
  `CleanupPassIsComplete`, `WritesHoldBothLocks`, `ImplementsLedger`, and the liveness property
  `DueIsDestroyed` of the VM broker;
- `EvidenceChain`, `NewestPatchSelected`, `CompleteIsEarned`, `LoneEditIsCaught` of a job;
- `ReadyIsEarned`, `ExitTellsLatest`, `SandboxesAreReached`, `LeftoversAreReported` and the
  liveness property `Ends` of a validation;
- `BudgetIsKept`, `BudgetIsUsed`, `VerdictIsEarned` and the liveness property `WaitEnds` of a wait;
- `SuccessIsLogged`, `StoppedStaysStopped`, `RemovedStaysRemoved` of the calls to a container;
- `BoundBaseIsWhole`, `OverlaidBaseIsWhole` and the liveness property `PreparationRecovers` of the base;
- `OutcomeIsHonest`, `CutLeavesNothing` and the liveness property `Ends` of a command;
- `PassMeansInstalled` and the liveness property `SetupRecovers` of setup.

Each is stated with a comment in its module.

Some of them name an exception, which is what the code leaves open:

- `EvidenceChain`: of a build that failed nothing is asked but that it is not taken for passed; an
  interruption after `build.py:57` leaves its id in `state.json`.
- `LoneEditIsCaught`: two edits that cancel, and a copy or a wheel that the sandbox's code replaced
  before it is read (`build.py:50`, after the second hash), are not noticed by anything.
- `SuccessIsLogged`: after a write of an event that failed in its middle, the next event shares
  its line and cannot be read, though its call is told OK. The earlier caller was told, unless it was
  killed in the middle of the write or before it answered: then nobody was.
- `StoppedStaysStopped` is about answers that say so. OK from `execute` does not: what it started
  may run on, and nobody is told.
- `RemovedStaysRemoved`: a `podman` client whose labctl was killed may make the container later.
- `BoundBaseIsWhole`, `PreparationRecovers`: a loss of power before the base is on disk leaves a
  manifest that names a damaged one. No disk is made on it, and `prepare_base` refuses for good,
  until it is removed by hand.
- `SetupRecovers`: a setup that ends after `install -d` and before `.managed`, or while `cat` writes
  a managed file, leaves what every rerun refuses as unmanaged, whatever
  `scripts/setup-common.sh:66` advises.
- `PassMeansInstalled`: a PASS stands after a later setup that was killed, or could not open the
  status file (`setup-common.sh:37-40`), and left the host partial. FAIL may be of a setup that was
  rejected while another one succeeded.

Three runs end in a violation, where the code does not do what the documentation says:

1. `OthersAreReaped`. `docs/architecture.md` has the service reap "expired or failed VMs".
   `reap` destroys in a loop with no handler: a VM it cannot destroy, such as one whose domain
   fails the ownership check, ends every pass before the VMs after it.
2. `CleanupRemovesSecrets`. `README.md` has cleanup remove per-VM private keys. `_destroy` saves
   DESTROYED first; a process that dies before the `unlink`s leaves keys that every later
   cleanup skips, with exit code 0.
3. `InterruptGivesFailedReport`. `docs/operations.md` promises cleanup and a failed report for a
   signal during validation. A signal during the cleanup or the final report escapes `run`.

Fairness. `vm_reaping` and `vm_reaper_blocked` use `FairSpec`: a command under way takes steps,
as every subprocess has a deadline and every lock wait ends; and the timer starts the reaper
again and again. It does not say that a lock which is polled is ever obtained. For that the
liveness properties assume `<>[]Quiet`: from some time on, no other command runs. Without it a
stream of commands could hold a lock whenever the reaper polls. `ValidationRun` assumes that
its process takes steps; nothing is assumed of signals. `ProcessRun` assumes of its caller that
it takes steps, of time that it passes, of SIGKILL that it kills, of the command nothing: it may
never exit nor close its output. `Readiness` assumes that the wait takes steps, each of which has
a limit; the guest may do nothing. `BaseImage` assumes that a call runs to its end and that each
installation prepares again and again, which `validate` does each time it is run; strong fairness
of `Prepare`, as its lock is polled. `SetupRun` assumes that setup is rerun and, of one that waits
whenever the lock is freed, that `flock` grants it at some time.

`CHECK_DEADLOCK FALSE` appears in the runs of `ValidationRun`, `ProcessRun` and `Readiness`, whose
programs end, and of `SandboxCalls`, whose calls are bounded in number. In
the others a state without a step would be a deadlock, and TLC looks for it.

## 4. Proofs

Every safety property that a passing run checks is a theorem, for every value of the constants:
any sets of jobs, VMs, callers, patches, builds, releases and setups, any quota, budget, deadline
and limit, any number of failures and deaths. The runs show the same on small instances, and
that a mutant of the code breaks it. What the proofs assume of the constants is in the ASSUME of
each module: bounds are numbers, VM ids are finitely many, a "no" value is not an id, a
limit or a deadline is not zero. `Inductive` was checked by TLC on the module's run before it was
proved.

| Module | Theorem | Statement |
|---|---|---|
| `VMLifecycleProofs` | `TypeCorrect` | `[]TypeOK` |
| | `CallsAlwaysOK` | a process works on a VM of its job or on an id of its own |
| | `LocksAlwaysOK` | each lock is held by exactly the process whose next step is in its section |
| | `LockOrderHolds` | `[]LockOrder` |
| | `InductiveHolds`, `PassesAlwaysOK` | the whole inductive invariant |
| | `QuotaAlwaysHeld`, `MachineAlwaysCovered`, `DestroyedAlwaysClean` | `[]QuotaHeld`, `[]MachineIsCovered`, `[]DestroyedIsClean` |
| | `SelectionsAreBooted`, `CleanupsAreComplete` | `[]SelectedVMWasBooted`, `[]CleanupPassIsComplete` |
| | `WritesAlwaysLocked` | `WritesHoldBothLocks` |
| | `RecordsNeverReopen` | no step takes a record out of DESTROYED or back before its start, or a folder to another job |
| | `LedgerImplemented` | `ImplementsLedger` |
| `JobLineageProofs` | `LineageTypesHold` | `[]TypeOK` |
| | `EvidenceIsAChain`, `NewestPatchStaysSelected`, `CompletionIsEarned`, `LoneEditsAreCaught` | `[]EvidenceChain`, `[]NewestPatchSelected`, `[]CompleteIsEarned`, `[]LoneEditIsCaught` |
| `ValidationRunProofs` | `RunTypesHold` | `[]TypeOK` |
| | `ReadyReportsAreEarned`, `ExitsTellTheLatest` | `[]ReadyIsEarned`, `[]ExitTellsLatest` |
| | `AllSandboxesAreReached`, `AllLeftoversAreReported` | `[]SandboxesAreReached`, `[]LeftoversAreReported` |
| `ReadinessProofs` | `ReadinessTypesHold` | `[]TypeOK` |
| | `BudgetsAreKept`, `BudgetsAreUsed`, `VerdictsAreEarned` | `[]BudgetIsKept`, `[]BudgetIsUsed`, `[]VerdictIsEarned` |
| `SandboxCallsProofs` | `SandboxTypesHold` | `[]TypeOK` |
| | `SuccessesAreLogged`, `StopsAreForGood`, `RemovedContainersStayRemoved` | `[]SuccessIsLogged`, `[]StoppedStaysStopped`, `[]RemovedStaysRemoved` |
| `BaseImageProofs` | `BaseTypesHold` | `[]TypeOK` |
| | `BoundBasesStayWhole`, `DisksAreOverWholeBases` | `[]BoundBaseIsWhole`, `OverlaidBaseIsWhole` |
| `ProcessRunProofs` | `ProcessTypesHold` | `[]TypeOK` |
| | `OutcomesAreHonest`, `CutCommandsLeaveNothing` | `[]OutcomeIsHonest`, `[]CutLeavesNothing` |
| `SetupRunProofs` | `PassesMeanInstalled` | `[]PassMeansInstalled` |
| | `SetupsWorkOneAtATime` | at most one setup, or the command a killed one left, is past the lock |
| | `ForeignFilesAreLeft` | no step of any setup changes a target that is not the lab's |

### The inductive invariants

None of the safety properties is inductive: each holds because of what a process in the midst of an
operation has established, so each proof needs what is known at every label, and which other
process could have undone it. In all modules a lemma per action shows that `Inductive` is kept.

**VMLifecycle.** That a journaled VM fits the quota depends on the count not having moved since
`deploy` compared it, so on `vm-global` being held, so on where every other process is. `Inductive`
has four layers, each proved on the ones before: `TypeOK`; `CallsOK`, what a process's arguments
mean at each label (ids drawn for a deployment are not shared, a pass only lists VMs with a
folder); `LocksOK`, a lock is held exactly by the process at a label inside it, so at most one
process is there; `HostOK`, the invariants with `HolderKnows`, what the holder of `vm-global` has
established about its VM: that its reservation still fits, that the domain is gone before the disk is
removed, the disk before the record is closed. `WritesAlwaysLocked` follows from `LocksOK`;
`LedgerImplemented` maps each step to a step of the ledger or a stutter, and needs all four.

A fifth layer, `PassesOK`, is for what a process relies on with the lock let go in between: a cleanup
has come past only VMs that are DESTROYED, or has noted a failure. It holds because of
`RecordsNeverReopen`: deploy's handler and the reaper may rewrite the record of a VM that a
cleanup skipped, but none of them leads back. The selected VM is a case of the same: it is
selected while `vm-global` keeps its record RUNNING, and later records are only closed.

**JobLineage.** `LoadedOK`: the state a build carries in memory, and saves at its end over whatever
is there, is the saved one but for the build; it holds as the job's lock (`LockOK`) keeps others
from `state.json`, while edits of the source go on; and of builds it names only
the one under way, passed or failed, once that has selected itself. `ProcOK` says what each label has
verified. The part about edits, `ChurnOK`, held in TLC's run and was not inductive as first
written: it did not say that the copy *is* what was hashed as long as nothing was edited, without
which a second hash of an unreachable state agrees with the first.

**ValidationRun.** `CleanupOK`: without a row that failed, what is left on the host is what the
cleanup has not come to. `EarnedOK`: a run without a FAIL or a SKIP before its cleanup has
deployed every VM. `DraftOK`: which of `report.json` and `latest.json` has the final report at each
step of the last write, so that exit code and files agree when any of them fails.

**Readiness.** `ClockOK` bounds the clock by the deadline of the attempt and that by the budget;
`PatienceOK` is the other direction, that the second attempt gets no less than is left: half seconds
rounded up, by stand-alone lemmas on the arithmetic. `SeenOK` ties what a verdict says to the guest.

**SandboxCalls.** Calls are numbered as they get the lock. The call under way has the last number,
and until it is answered nothing in the replies or among orphaned clients bears it, and in the log
at most the line it wrote last; an orphan's call was never answered. The order of the log, what may
run again after a stop, and what a removed container may come from follow. A line without an end is
the last one, of a call that was told, is about to be, or was killed before it was answered.

**BaseImage.** What each label has established of the release in hand, which no other process can undo:
one of the same installation is kept out by its lock, and those of another by the owner of the
storage. A base may be damaged by a loss of power only, which also ends the deployment that
verified it.

**ProcessRun.** `AccountOK`: until the limit is reached, what was read and what is in a pipe add up to
what was written, and a pipe that is no longer read is empty with no writer left. `CutOK`: a cut is at
its deadline or with a full result, and after the kill all of the group that lives is dying.

**SetupRun.** `WorkOK`: all targets before the one in hand are the lab's. They stay so as only
the holder of the lock writes, which is what `SetupsWorkOneAtATime` says. A PASS is of all targets
until a setup begins one, and `silent` accounts for the setup that then ends without its own status.

### What the proofs changed

- `BaseImage`: nothing said that `None`, which stands for "no owner", is not a process. With it as
  one the lock would be free while held; the ASSUME now excludes it.
- `ProcessRun`: `Code` was a CASE whose guards overlap, when a command is both over its time and
  over its limit. It is now decided in the order of the code, timeout first (`process.py:96-99`).
- `SandboxCalls`: the guards of `Inspect` overlapped in the same way, and are now exclusive.

### Only model-checked

The liveness properties, as ENABLED and fairness are out of the prover's reach: `DueIsDestroyed`,
`Ends` of `ValidationRun` and of `ProcessRun`, `WaitEnds`, `PreparationRecovers`, `SetupRecovers`;
and the three disagreements, which are counterexamples.

## 5. Plan

Done, in this order: `VMLedger`, `VMLifecycle` and its proofs (what leaks or outlives its process
costs most), `JobLineage` (what a reader of the evidence relies on), `ValidationRun`; then what
these take for granted: `ProcessRun`, `Readiness`, `SandboxCalls`, `BaseImage`, `SetupRun`.

Then the proofs, of `VMLifecycle` first, and of all safety properties of the other modules.

Next, proofs of what no run states yet:

1. The invariants of `VMLedger`, as the broker implements it: machines only against reservations,
   none given back twice, never more than MaxVMs, derived from `LedgerSpec` alone.
2. Action properties: in `JobLineage`, that records of patches, builds and images are written once and
   never changed; in `SandboxCalls`, that the log only grows; in `ValidationRun`, that a row that
   failed stays in the report.
3. The safety part under the liveness properties: the variants that decrease in `Readiness`
   and `ProcessRun`, step by step, leaving to TLC that a step is taken.

### Not modelled

- Host checks (`host.py`) read the host and print. `ValidationRun` takes their outcome as given.
- Diagnostics and recovery advice (`diagnostics.py`, `recovery.py`): redaction, bounded reads of
  allowlisted files, an archive, and a table of advice. They keep no state and share none.
- The read-only git and file tools, `read_file` and `list_files`: lookups.
- Input schemas (`models.py`): declarations for a validation library.
- `cli.py` beyond `cleanup` and `vm reap`: argument parsing and printing. `report` merges two
  files that are replaced one after the other; no promise is made about that.
- `configure-subids.py`, `setup-python.sh`, `start.sh`, packages, accounts and networks of bootstrap:
  each command either leaves what it names or fails; other programs' changes to `/etc/subuid` are
  not under any lock of the lab.
- The installation marker: it is written once under a lock.
- A guest that libvirt restarts during a wait.
- A request to libvirt that takes effect after its client gave up; the length of waits for locks.
- CI and `check-public.py`: not part of the running system.
