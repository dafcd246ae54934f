----------------------------- MODULE VMLifecycle -----------------------------
(***************************************************************************)
(* VMBroker (agentlab/vm.py) under the processes that drive it: labctl     *)
(* calls through the registry, `agentlab cleanup`, and the reaper service. *)
(* Every process is a separate program, so a step of one may fall between  *)
(* any two steps of another, and a process may die between any two steps.  *)
(*                                                                         *)
(* A step is one effect that outlives its process: a lock taken, a file    *)
(* replaced, a directory made or removed, a libvirt request answered.      *)
(* What each file holds is abstracted to what later steps read in it.      *)
(***************************************************************************)
EXTENDS Naturals, FiniteSets

CONSTANTS
  Jobs,       \* the jobs of the installation
  VMs,        \* VM identifiers; each deployment draws a fresh one
  Callers,    \* processes that run commands
  Reaper,     \* the process the systemd timer starts
  Calls,      \* the commands Callers issue (a bound: a subset of Commands)
  MaxVMs,     \* MAX_VMS
  Foreign,    \* VMs whose domain fails the ownership check, every time
  MaxFaults,  \* bound on the failures and process deaths of a behaviour
  NoJob, NoVM, NoProc

Procs == Callers \cup {Reaper}

Commands == {"deploy", "status", "destroy", "reap", "cleanup"}

ASSUME ConstantsAssumption ==
  /\ IsFiniteSet(VMs) /\ Foreign \subseteq VMs
  /\ MaxVMs \in Nat /\ MaxFaults \in Nat
  /\ Calls \subseteq Commands /\ "none" \notin Calls
  /\ NoJob \notin Jobs /\ NoVM \notin VMs /\ NoProc \notin Procs

-----------------------------------------------------------------------------
(* What the host keeps: files, libvirt's domains and the locks.            *)

VARIABLES
  owner,      \* jobs/J/vm/V exists: the job J of the VM's folder, or NoJob
  record,     \* "status" of the folder's record.json, "none" without the file
  diskDir,    \* VMs with a directory (overlay, seed) in VM storage
  secrets,    \* VMs with client_key, host_key or user-data in their folder
  domain,     \* libvirt's view of the VM's domain
  expired,    \* VMs whose record is MAX_LIFETIME old
  currentVM,  \* current_vm_id of each job's state.json
  jobLock,    \* the process that holds the flock of each job
  vmLock      \* the process that holds the flock "vm-global"

(* What each process keeps, and loses when it dies.                        *)
VARIABLES
  pc,         \* its next step
  call,       \* the command it runs
  job, vm,    \* the job and the VM it works on
  listed,     \* the VMs a reap or a cleanup read when it started
  todo,       \* those it has not come to yet
  sawFailed,  \* those whose record a reap read as FAILED
  someFailed  \* a cleanup item failed

VARIABLE faults  \* failures and deaths so far

files == <<owner, record, diskDir, secrets, currentVM>>
host  == <<domain, expired>>
locks == <<jobLock, vmLock>>
args  == <<call, job, vm>>
pass  == <<listed, todo, sawFailed, someFailed>>
vars  == <<files, host, locks, pc, args, pass, faults>>

Status == {"none", "PREPARING", "RUNNING", "FAILED", "DESTROYED"}

(* The body of deploy's try block: a failure in it is handled.             *)
DeployTry == {"deploy_material", "deploy_define", "deploy_start",
              "deploy_running", "deploy_select", "deploy_return"}

(* The body of _destroy.                                                   *)
DestroyBody == {"destroy_query", "destroy_stop", "destroy_undefine",
                "destroy_verify", "destroy_disk", "destroy_record",
                "destroy_secrets", "destroy_deselect"}

Labels == {"idle", "lock_job", "lock_vm", "deploy_check", "deploy_quota",
           "deploy_disk_dir", "deploy_journal", "deploy_failed",
           "status_read", "reap_next", "cleanup_next", "cleanup_report"}
          \cup DeployTry \cup DestroyBody

(* A reservation: a journaled VM that is not DESTROYED (`active` in deploy).*)
Outstanding == {v \in VMs : record[v] \notin {"none", "DESTROYED"}}
Destroyed   == {v \in VMs : record[v] = "DESTROYED"}
Domains     == {v \in VMs : domain[v] # "absent"}

TypeOK ==
  /\ owner \in [VMs -> Jobs \cup {NoJob}]
  /\ record \in [VMs -> Status]
  /\ diskDir \subseteq VMs /\ secrets \subseteq VMs /\ expired \subseteq VMs
  /\ domain \in [VMs -> {"absent", "shut off", "running"}]
  /\ currentVM \in [Jobs -> VMs \cup {NoVM}]
  /\ jobLock \in [Jobs -> Procs \cup {NoProc}]
  /\ vmLock \in Procs \cup {NoProc}
  /\ pc \in [Procs -> Labels]
  /\ call \in [Procs -> Commands \cup {"none"}]
  /\ job \in [Procs -> Jobs \cup {NoJob}]
  /\ vm \in [Procs -> VMs \cup {NoVM}]
  /\ listed \in [Procs -> SUBSET VMs]
  /\ todo \in [Procs -> SUBSET VMs]
  /\ sawFailed \in [Procs -> SUBSET VMs]
  /\ someFailed \in [Procs -> BOOLEAN]
  /\ faults \in 0..MaxFaults

Init ==
  /\ owner = [v \in VMs |-> NoJob]
  /\ record = [v \in VMs |-> "none"]
  /\ diskDir = {} /\ secrets = {} /\ expired = {}
  /\ domain = [v \in VMs |-> "absent"]
  /\ currentVM = [j \in Jobs |-> NoVM]
  /\ jobLock = [j \in Jobs |-> NoProc] /\ vmLock = NoProc
  /\ pc = [p \in Procs |-> "idle"]
  /\ call = [p \in Procs |-> "none"]
  /\ job = [p \in Procs |-> NoJob] /\ vm = [p \in Procs |-> NoVM]
  /\ listed = [p \in Procs |-> {}] /\ todo = [p \in Procs |-> {}]
  /\ sawFailed = [p \in Procs |-> {}] /\ someFailed = [p \in Procs |-> FALSE]
  /\ faults = 0

-----------------------------------------------------------------------------
(* How a process moves on.                                                 *)

Goto(p, label) == pc' = [pc EXCEPT ![p] = label]

Fault == faults < MaxFaults /\ faults' = faults + 1

Release(p) ==
  /\ jobLock' = [j \in Jobs |-> IF jobLock[j] = p THEN NoProc ELSE jobLock[j]]
  /\ vmLock' = IF vmLock = p THEN NoProc ELSE vmLock

(* The process ends; its memory and its locks go with it.                  *)
Quit(p) ==
  /\ Goto(p, "idle")
  /\ call' = [call EXCEPT ![p] = "none"]
  /\ job' = [job EXCEPT ![p] = NoJob]
  /\ vm' = [vm EXCEPT ![p] = NoVM]
  /\ listed' = [listed EXCEPT ![p] = {}]
  /\ todo' = [todo EXCEPT ![p] = {}]
  /\ sawFailed' = [sawFailed EXCEPT ![p] = {}]
  /\ someFailed' = [someFailed EXCEPT ![p] = FALSE]
  /\ Release(p)

(* A plain call ends; the item of a pass ends and the pass goes on.        *)
BackTo(p, label, failed) ==
  /\ Goto(p, label)
  /\ job' = IF label = "reap_next" THEN [job EXCEPT ![p] = NoJob] ELSE job
  /\ vm' = [vm EXCEPT ![p] = NoVM]
  /\ someFailed' = [someFailed EXCEPT ![p] = @ \/ failed]
  /\ Release(p)
  /\ UNCHANGED <<call, listed, todo, sawFailed>>

Succeed(p) ==
  CASE call[p] = "reap"    -> BackTo(p, "reap_next", FALSE)
    [] call[p] = "cleanup" -> BackTo(p, "cleanup_next", FALSE)
    [] OTHER               -> Quit(p)

(* cleanup goes on after a failed item (cli.py:160-166); reap has no       *)
(* handler in its loop, so the exception ends the whole pass.              *)
Fail(p) == IF call[p] = "cleanup" THEN BackTo(p, "cleanup_next", TRUE)
                                  ELSE Quit(p)

(* Store.lock: flock polled until its deadline. A process that finds the   *)
(* lock taken may still get it or give up with RESOURCE_BUSY.              *)
AcquireJobLock(p, j) ==
  /\ jobLock[j] = NoProc
  /\ jobLock' = [jobLock EXCEPT ![j] = p]

(* Mutant: the VM lock is shared.                                          *)
AcquireVMLockShared(p) == vmLock' = p

AcquireVMLock(p) == vmLock = NoProc /\ vmLock' = p

-----------------------------------------------------------------------------
(* Commands start. Ids are drawn here, so that a process in deploy always  *)
(* has one; the guard is the bound VMs puts on deployments.                *)

Begin(p, command, j, v) ==
  /\ pc[p] = "idle"
  /\ command \in Calls \/ p = Reaper
  /\ call' = [call EXCEPT ![p] = command]
  /\ job' = [job EXCEPT ![p] = j]
  /\ vm' = [vm EXCEPT ![p] = v]

StartDeploy(p, j, v) ==
  /\ p # Reaper /\ Begin(p, "deploy", j, v) /\ Goto(p, "lock_job")
  /\ owner[v] = NoJob /\ \A q \in Procs : vm[q] # v
  /\ UNCHANGED <<files, host, locks, pass, faults>>

StartOnVM(p, command, v) ==
  /\ command \in {"status", "destroy"}
  /\ p # Reaper /\ Begin(p, command, owner[v], v) /\ Goto(p, "lock_job")
  /\ owner[v] # NoJob
  /\ UNCHANGED <<files, host, locks, pass, faults>>

(* records() is read without any lock; a record is only ever replaced      *)
(* whole, and a pass uses each for its own VM only.                        *)
StartReap(p) ==
  /\ Begin(p, "reap", NoJob, NoVM) /\ Goto(p, "reap_next")
  /\ listed' = [listed EXCEPT ![p] = Outstanding]
  /\ todo' = [todo EXCEPT ![p] = Outstanding]
  /\ sawFailed' = [sawFailed EXCEPT ![p] = {v \in VMs : record[v] = "FAILED"}]
  /\ UNCHANGED <<files, host, locks, someFailed, faults>>

(* cleanup --job-id J; without the option it does this for each job.       *)
StartCleanup(p, j) ==
  /\ p # Reaper /\ Begin(p, "cleanup", j, NoVM) /\ Goto(p, "cleanup_next")
  /\ listed' = [listed EXCEPT ![p] = {v \in VMs : owner[v] = j}]
  /\ todo' = [todo EXCEPT ![p] = {v \in VMs : owner[v] = j}]
  /\ UNCHANGED <<files, host, locks, sawFailed, someFailed, faults>>

-----------------------------------------------------------------------------
(* Locks: the job's, then vm-global.                                       *)

LockJob(p) ==
  /\ pc[p] = "lock_job"
  /\ AcquireJobLock(p, job[p])
  /\ Goto(p, CASE call[p] = "deploy" -> "deploy_check"
               [] call[p] = "status" -> "status_read"
               [] OTHER              -> "lock_vm")
  /\ UNCHANGED <<files, host, vmLock, args, pass, faults>>

LockVM(p) ==
  /\ pc[p] = "lock_vm"
  /\ AcquireVMLock(p)
  /\ Goto(p, IF call[p] = "deploy" THEN "deploy_quota" ELSE "destroy_query")
  /\ UNCHANGED <<files, host, jobLock, args, pass, faults>>

Busy(p) ==
  /\ \/ pc[p] = "lock_job" /\ jobLock[job[p]] # NoProc
     \/ pc[p] = "lock_vm" /\ vmLock # NoProc
  /\ Fail(p)
  /\ UNCHANGED <<files, host, faults>>

-----------------------------------------------------------------------------
(* deploy.                                                                 *)

(* A controlled fault or an image that is not the current one ends it.     *)
DeployCheck(p) ==
  /\ pc[p] = "deploy_check"
  /\ \/ Goto(p, "lock_vm") /\ UNCHANGED <<locks, args, pass>>
     \/ Fail(p)
  /\ UNCHANGED <<files, host, faults>>

MkdirVM(p) ==
  /\ owner' = [owner EXCEPT ![vm[p]] = job[p]]
  /\ Goto(p, "deploy_disk_dir")
  /\ UNCHANGED <<locks, args, pass>>

DeployQuota(p) ==
  /\ pc[p] = "deploy_quota"
  /\ IF Cardinality(Outstanding) < MaxVMs THEN MkdirVM(p)
                                          ELSE Fail(p) /\ UNCHANGED owner
  /\ UNCHANGED <<record, diskDir, secrets, currentVM, host, faults>>

DeployDiskDir(p) ==
  /\ pc[p] = "deploy_disk_dir"
  /\ diskDir' = diskDir \cup {vm[p]}
  /\ Goto(p, "deploy_journal")
  /\ UNCHANGED <<owner, record, secrets, currentVM, host, locks, args, pass, faults>>

DeployJournal(p) ==
  /\ pc[p] = "deploy_journal"
  /\ record' = [record EXCEPT ![vm[p]] = "PREPARING"]
  /\ Goto(p, "deploy_material")
  /\ UNCHANGED <<owner, diskDir, secrets, currentVM, host, locks, args, pass, faults>>

(* Keys, user-data, overlay and seed.                                      *)
DeployMaterial(p) ==
  /\ pc[p] = "deploy_material"
  /\ secrets' = secrets \cup {vm[p]}
  /\ Goto(p, "deploy_define")
  /\ UNCHANGED <<owner, record, diskDir, currentVM, host, locks, args, pass, faults>>

DeployDefine(p) ==
  /\ pc[p] = "deploy_define"
  /\ domain' = [domain EXCEPT ![vm[p]] = "shut off"]
  /\ Goto(p, "deploy_start")
  /\ UNCHANGED <<files, expired, locks, args, pass, faults>>

DeployStart(p) ==
  /\ pc[p] = "deploy_start"
  /\ domain' = [domain EXCEPT ![vm[p]] = "running"]
  /\ Goto(p, "deploy_running")
  /\ UNCHANGED <<files, expired, locks, args, pass, faults>>

(* Mutant: the VM is selected without its RUNNING record.                  *)
DeployRunningUnsaved(p) ==
  /\ pc[p] = "deploy_running"
  /\ Goto(p, "deploy_select")
  /\ UNCHANGED <<files, host, locks, args, pass, faults>>

DeployRunning(p) ==
  /\ pc[p] = "deploy_running"
  /\ record' = [record EXCEPT ![vm[p]] = "RUNNING"]
  /\ Goto(p, "deploy_select")
  /\ UNCHANGED <<owner, diskDir, secrets, currentVM, host, locks, args, pass, faults>>

DeploySelect(p) ==
  /\ pc[p] = "deploy_select"
  /\ currentVM' = [currentVM EXCEPT ![job[p]] = vm[p]]
  /\ Goto(p, "deploy_return")
  /\ UNCHANGED <<owner, record, diskDir, secrets, host, locks, args, pass, faults>>

DeployReturn(p) ==
  /\ pc[p] = "deploy_return"
  /\ Succeed(p)
  /\ UNCHANGED <<files, host, faults>>

(* A step of the try block fails, or the first SIGTERM or Ctrl-C arrives,  *)
(* before the step's effect or (at the next step) after it. Keys may be    *)
(* half made.                                                              *)
DeployFails(p) ==
  /\ pc[p] \in DeployTry /\ Fault
  /\ Goto(p, "deploy_failed")
  /\ \/ UNCHANGED secrets
     \/ pc[p] = "deploy_material" /\ secrets' = secrets \cup {vm[p]}
  /\ UNCHANGED <<owner, record, diskDir, currentVM, host, locks, args, pass>>

(* The handler records FAILED, or notes that it could not, and destroys.   *)
DeployFailed(p) ==
  /\ pc[p] = "deploy_failed"
  /\ \/ record' = [record EXCEPT ![vm[p]] = "FAILED"] /\ UNCHANGED faults
     \/ Fault /\ UNCHANGED record
  /\ Goto(p, "destroy_query")
  /\ UNCHANGED <<owner, diskDir, secrets, currentVM, host, locks, args, pass>>

-----------------------------------------------------------------------------
(* domain_xml: a domain must carry the installation's marker.              *)
OwnershipMismatch(v) == domain[v] # "absent" /\ v \in Foreign

(* status: reads the record and the domain without vm-global, and destroys *)
(* a VM that outlived MAX_LIFETIME.                                        *)
StatusRead(p) ==
  /\ pc[p] = "status_read"
  /\ IF record[vm[p]] \in {"none", "DESTROYED"} \/ domain[vm[p]] = "absent"
          \/ OwnershipMismatch(vm[p])
       THEN Fail(p)
       ELSE IF vm[p] \in expired
              THEN Goto(p, "lock_vm") /\ UNCHANGED <<locks, args, pass>>
              ELSE Succeed(p)
  /\ UNCHANGED <<files, host, faults>>

-----------------------------------------------------------------------------
(* _destroy, with the record re-read by destroy under vm-global.           *)

(* Mutant: the disk goes first, "it is what takes the space".              *)
DestroyQueryDiskFirst(p) ==
  /\ pc[p] = "destroy_query"
  /\ Goto(p, CASE domain[vm[p]] = "absent"   -> "destroy_verify"
               [] domain[vm[p]] = "shut off" -> "destroy_undefine"
               [] domain[vm[p]] = "running"  -> "destroy_stop")
  /\ diskDir' = diskDir \ {vm[p]}
  /\ UNCHANGED <<owner, record, secrets, currentVM, host, locks, args, pass, faults>>

(* Mutant: a VM already shut off is taken for a VM already removed.        *)
DestroyQueryShutOffIsGone(p) ==
  /\ pc[p] = "destroy_query"
  /\ Goto(p, IF domain[vm[p]] = "running" THEN "destroy_stop" ELSE "destroy_disk")
  /\ UNCHANGED <<files, host, locks, args, pass, faults>>

(* domain_xml, then domstate.                                              *)
DestroyQuery(p) ==
  /\ pc[p] = "destroy_query"
  /\ IF record[vm[p]] = "none" \/ OwnershipMismatch(vm[p])
       THEN Fail(p)
       ELSE /\ Goto(p, CASE domain[vm[p]] = "absent"   -> "destroy_verify"
                         [] domain[vm[p]] = "shut off" -> "destroy_undefine"
                         [] domain[vm[p]] = "running"  -> "destroy_stop")
            /\ UNCHANGED <<locks, args, pass>>
  /\ UNCHANGED <<files, host, faults>>

(* virsh destroy of a domain that shut itself off since the query fails.   *)
DestroyStop(p) ==
  /\ pc[p] = "destroy_stop"
  /\ IF domain[vm[p]] = "running"
       THEN /\ domain' = [domain EXCEPT ![vm[p]] = "shut off"]
            /\ Goto(p, "destroy_undefine")
            /\ UNCHANGED <<locks, args, pass>>
       ELSE Fail(p) /\ UNCHANGED domain
  /\ UNCHANGED <<files, expired, faults>>

DestroyUndefine(p) ==
  /\ pc[p] = "destroy_undefine"
  /\ domain' = [domain EXCEPT ![vm[p]] = "absent"]
  /\ Goto(p, "destroy_verify")
  /\ UNCHANGED <<files, expired, locks, args, pass, faults>>

DestroyVerify(p) ==
  /\ pc[p] = "destroy_verify"
  /\ IF domain[vm[p]] = "absent"
       THEN Goto(p, "destroy_disk") /\ UNCHANGED <<locks, args, pass>>
       ELSE Fail(p)
  /\ UNCHANGED <<files, host, faults>>

(* Mutant: the record is closed although the disk stayed.                  *)
DestroyDiskKept(p) ==
  /\ pc[p] = "destroy_disk"
  /\ Goto(p, "destroy_record")
  /\ UNCHANGED <<files, host, locks, args, pass, faults>>

DestroyDisk(p) ==
  /\ pc[p] = "destroy_disk"
  /\ diskDir' = diskDir \ {vm[p]}
  /\ Goto(p, "destroy_record")
  /\ UNCHANGED <<owner, record, secrets, currentVM, host, locks, args, pass, faults>>

(* Mutant: a status no reader of the record knows.                         *)
DestroyRecordRemoved(p) ==
  /\ pc[p] = "destroy_record"
  /\ record' = [record EXCEPT ![vm[p]] = "REMOVED"]
  /\ Goto(p, "destroy_secrets")
  /\ UNCHANGED <<owner, diskDir, secrets, currentVM, host, locks, args, pass, faults>>

DestroyRecord(p) ==
  /\ pc[p] = "destroy_record"
  /\ record' = [record EXCEPT ![vm[p]] = "DESTROYED"]
  /\ Goto(p, "destroy_secrets")
  /\ UNCHANGED <<owner, diskDir, secrets, currentVM, host, locks, args, pass, faults>>

DestroySecrets(p) ==
  /\ pc[p] = "destroy_secrets"
  /\ secrets' = secrets \ {vm[p]}
  /\ Goto(p, "destroy_deselect")
  /\ UNCHANGED <<owner, record, diskDir, currentVM, host, locks, args, pass, faults>>

DestroyDeselect(p) ==
  /\ pc[p] = "destroy_deselect"
  /\ currentVM' = [currentVM EXCEPT ![job[p]] = IF @ = vm[p] THEN NoVM ELSE @]
  /\ Succeed(p)
  /\ UNCHANGED <<owner, record, diskDir, secrets, host, faults>>

(* Any other call to libvirt or the file system fails: the command ends,   *)
(* in deploy's handler and before its journal too.                         *)
CallFails(p) ==
  /\ pc[p] \in DestroyBody \cup
               {"deploy_quota", "deploy_disk_dir", "deploy_journal", "status_read"}
  /\ Fault
  /\ Fail(p)
  /\ UNCHANGED <<files, host>>

-----------------------------------------------------------------------------
(* The loops of reap and of cleanup.                                       *)

(* Mutant: reap destroys with the VM lock alone, out of the locks' order.  *)
ReapNextUnlocked(p) ==
  /\ pc[p] = "reap_next"
  /\ \E v \in todo[p] :
       /\ todo' = [todo EXCEPT ![p] = @ \ {v}]
       /\ job' = [job EXCEPT ![p] = owner[v]]
       /\ vm' = [vm EXCEPT ![p] = v]
       /\ Goto(p, "lock_vm")
  /\ UNCHANGED <<files, host, locks, call, listed, sawFailed, someFailed, faults>>

(* Mutant: reap leaves a failed deployment until it expires.               *)
ReapNextExpiredOnly(p) ==
  /\ pc[p] = "reap_next"
  /\ \E v \in todo[p] :
       /\ todo' = [todo EXCEPT ![p] = @ \ {v}]
       /\ IF v \in expired \ sawFailed[p]
            THEN /\ job' = [job EXCEPT ![p] = owner[v]]
                 /\ vm' = [vm EXCEPT ![p] = v]
                 /\ Goto(p, "lock_job")
            ELSE UNCHANGED <<job, vm, pc>>
  /\ UNCHANGED <<files, host, locks, call, listed, sawFailed, someFailed, faults>>

ReapNext(p) ==
  /\ pc[p] = "reap_next"
  /\ \E v \in todo[p] :
       /\ todo' = [todo EXCEPT ![p] = @ \ {v}]
       /\ IF v \in expired \cup sawFailed[p]
            THEN /\ job' = [job EXCEPT ![p] = owner[v]]
                 /\ vm' = [vm EXCEPT ![p] = v]
                 /\ Goto(p, "lock_job")
            ELSE UNCHANGED <<job, vm, pc>>
  /\ UNCHANGED <<files, host, locks, call, listed, sawFailed, someFailed, faults>>

ReapDone(p) ==
  /\ pc[p] = "reap_next" /\ todo[p] = {}
  /\ Quit(p)
  /\ UNCHANGED <<files, host, faults>>

(* Mutant: cleanup leaves failed deployments to the reaper.                *)
CleanupNextSkipsFailed(p) ==
  /\ pc[p] = "cleanup_next"
  /\ \E v \in todo[p] :
       /\ todo' = [todo EXCEPT ![p] = @ \ {v}]
       /\ IF record[v] \in {"PREPARING", "RUNNING"}
            THEN vm' = [vm EXCEPT ![p] = v] /\ Goto(p, "lock_job")
            ELSE UNCHANGED <<vm, pc>>
       /\ someFailed' = IF record[v] = "none" THEN [someFailed EXCEPT ![p] = TRUE]
                                              ELSE someFailed
  /\ UNCHANGED <<files, host, locks, call, job, listed, sawFailed, faults>>

(* A folder without a record is a failed item, a DESTROYED VM is skipped.  *)
CleanupNext(p) ==
  /\ pc[p] = "cleanup_next"
  /\ \E v \in todo[p] :
       /\ todo' = [todo EXCEPT ![p] = @ \ {v}]
       /\ IF v \in Outstanding
            THEN vm' = [vm EXCEPT ![p] = v] /\ Goto(p, "lock_job")
            ELSE UNCHANGED <<vm, pc>>
       /\ someFailed' = IF record[v] = "none" THEN [someFailed EXCEPT ![p] = TRUE]
                                              ELSE someFailed
  /\ UNCHANGED <<files, host, locks, call, job, listed, sawFailed, faults>>

CleanupDone(p) ==
  /\ pc[p] = "cleanup_next" /\ todo[p] = {}
  /\ Goto(p, "cleanup_report")
  /\ UNCHANGED <<files, host, locks, args, pass, faults>>

CleanupExit(p) ==
  /\ pc[p] = "cleanup_report"
  /\ Quit(p)
  /\ UNCHANGED <<files, host, faults>>

-----------------------------------------------------------------------------
(* The environment.                                                        *)

(* SIGKILL, a lost power supply, or an interrupt inside a handler.         *)
Crash(p) ==
  /\ pc[p] # "idle" /\ Fault
  /\ Quit(p)
  /\ UNCHANGED <<files, host>>

(* The guest powers itself off ("+60" minutes), crashes, or the host boots.*)
GuestOff(v) ==
  /\ domain[v] = "running"
  /\ domain' = [domain EXCEPT ![v] = "shut off"]
  /\ UNCHANGED <<files, expired, locks, pc, args, pass, faults>>

Expire(v) ==
  /\ record[v] # "none" /\ v \notin expired
  /\ expired' = expired \cup {v}
  /\ UNCHANGED <<files, domain, locks, pc, args, pass, faults>>

-----------------------------------------------------------------------------
Start(p) ==
  \/ \E j \in Jobs, v \in VMs : StartDeploy(p, j, v)
  \/ \E v \in VMs, command \in Commands : StartOnVM(p, command, v)
  \/ StartReap(p)
  \/ \E j \in Jobs : StartCleanup(p, j)

DeployStep(p) ==
  \/ DeployCheck(p) \/ DeployQuota(p) \/ DeployDiskDir(p) \/ DeployJournal(p)
  \/ DeployMaterial(p) \/ DeployDefine(p) \/ DeployStart(p) \/ DeployRunning(p)
  \/ DeploySelect(p) \/ DeployReturn(p) \/ DeployFailed(p)

DestroyStep(p) ==
  \/ DestroyQuery(p) \/ DestroyStop(p) \/ DestroyUndefine(p) \/ DestroyVerify(p)
  \/ DestroyDisk(p) \/ DestroyRecord(p) \/ DestroySecrets(p) \/ DestroyDeselect(p)

PassStep(p) == ReapNext(p) \/ ReapDone(p) \/ CleanupNext(p) \/ CleanupDone(p)
               \/ CleanupExit(p)

(* A step of a command that is under way.                                  *)
Step(p) == \/ LockJob(p) \/ LockVM(p) \/ Busy(p) \/ StatusRead(p)
           \/ DeployStep(p) \/ DestroyStep(p) \/ PassStep(p)

Next ==
  \/ \E p \in Procs : Start(p) \/ Step(p)
  \/ \E p \in Procs : DeployFails(p) \/ CallFails(p) \/ Crash(p)
  \/ \E v \in VMs : GuestOff(v) \/ Expire(v)

Spec == Init /\ [][Next]_vars

(* A command that runs goes on (every subprocess and every wait has a      *)
(* deadline), and the timer starts the reaper again and again.             *)
Fairness == (\A p \in Procs : WF_vars(Step(p))) /\ WF_vars(StartReap(Reaper))

FairSpec == Spec /\ Fairness

-----------------------------------------------------------------------------
(* Safety.                                                                 *)

(* deploy counts the reservations and adds one in separate steps, over     *)
(* records of every job: the count never passes MAX_VMS (vm.py:195-197).   *)
QuotaHeld == Cardinality(Outstanding) <= MaxVMs

(* Whatever step a process died in, a domain libvirt knows has a record    *)
(* that reap and cleanup will act on, and its disk: nothing the hypervisor *)
(* runs is lost to the broker, no disk is removed beneath a domain         *)
(* (vm.py:214 "Journal before creating any hypervisor resources").         *)
MachineIsCovered ==
  \A v \in Domains : v \in Outstanding /\ v \in diskDir /\ owner[v] # NoJob

(* DESTROYED, which every later pass skips, is true of the host: no domain *)
(* and no disk is left.                                                    *)
DestroyedIsClean ==
  \A v \in Destroyed : domain[v] = "absent" /\ v \notin diskDir

(* current_vm_id names a VM of that job whose start was recorded.          *)
SelectedVMWasBooted ==
  \A j \in Jobs : currentVM[j] # NoVM =>
    owner[currentVM[j]] = j /\ record[currentVM[j]] \notin {"none", "PREPARING"}

(* Locks are taken in one order, the job's and then vm-global, and none is *)
(* held when a process waits for a job's: no cycle of waits can form,      *)
(* whatever the mix of registry calls, cleanup and reap.                   *)
LockOrder ==
  \A p \in Procs :
    /\ pc[p] = "lock_job" => vmLock # p /\ \A j \in Jobs : jobLock[j] # p
    /\ pc[p] = "lock_vm" => jobLock[job[p]] = p /\ vmLock # p

(* A cleanup that reports no failure has removed every VM it listed, also  *)
(* those another process destroyed, deployed or lost meanwhile.            *)
CleanupPassIsComplete ==
  \A p \in Procs :
    pc[p] = "cleanup_report" /\ ~someFailed[p] =>
      \A v \in listed[p] :
        record[v] = "DESTROYED" /\ domain[v] = "absent" /\ v \notin diskDir

(* A VM's record, disk, keys and the existence of its domain change only   *)
(* under its job's lock and vm-global at once, whoever makes the change.   *)
Touched(v) ==
  \/ record'[v] # record[v]
  \/ (v \in diskDir) # (v \in diskDir') \/ (v \in secrets) # (v \in secrets')
  \/ (domain[v] = "absent") # (domain'[v] = "absent")

WritesHoldBothLocks ==
  [][\A v \in VMs : Touched(v) =>
       \E p \in Procs : vmLock = p /\ jobLock[owner[v]] = p]_vars

(* The broker implements the ledger of reservations.                       *)
Ledger == INSTANCE VMLedger
            WITH outstanding <- Outstanding, machines <- Domains, retired <- Destroyed

ImplementsLedger == Ledger!LedgerSpec

-----------------------------------------------------------------------------
(* The inductive invariant behind the theorems of VMLifecycleProofs.       *)

(* With vm-global held; with the job's lock held; with a VM as argument;   *)
(* in deploy, before and after the VM's folder is made.                    *)
VMHeld == {"deploy_quota", "deploy_disk_dir", "deploy_journal", "deploy_failed"}
          \cup DeployTry \cup DestroyBody
JobHeld == {"deploy_check", "status_read", "lock_vm"} \cup VMHeld
WithVM == {"lock_job"} \cup JobHeld
BeforeFolder == {"lock_job", "deploy_check", "lock_vm", "deploy_quota"}
Journaling == {"deploy_disk_dir", "deploy_journal"}

(* A process works on a VM of its job, or on a fresh id; a pass lists VMs  *)
(* that have a folder.                                                     *)
Fresh(p) == call[p] = "deploy" /\ pc[p] \in BeforeFolder

CallOK(p) ==
  /\ pc[p] \in WithVM => job[p] \in Jobs /\ vm[p] \in VMs
  /\ pc[p] \notin WithVM => vm[p] = NoVM
  /\ pc[p] \in WithVM /\ Fresh(p) => owner[vm[p]] = NoJob
  /\ pc[p] \in WithVM /\ ~Fresh(p) => owner[vm[p]] = job[p]
  /\ \A v \in todo[p] : owner[v] # NoJob
  /\ call[p] = "cleanup" => job[p] \in Jobs /\ \A v \in todo[p] : owner[v] = job[p]
  /\ pc[p] = "cleanup_next" => call[p] = "cleanup"
  /\ pc[p] = "reap_next" => call[p] = "reap"
  /\ pc[p] = "status_read" => call[p] = "status"
  /\ pc[p] \in {"deploy_check", "deploy_quota"} => call[p] = "deploy"

(* No two processes draw the same id.                                      *)
FreshIdsApart ==
  \A p, q \in Procs :
    p # q /\ vm[p] = vm[q] /\ vm[p] # NoVM => owner[vm[p]] # NoJob

RecordsHaveFolders == \A v \in VMs : record[v] # "none" => owner[v] # NoJob

CallsOK == (\A p \in Procs : CallOK(p)) /\ FreshIdsApart /\ RecordsHaveFolders

(* Each lock is held by the one process that is past taking it.            *)
LocksOK ==
  \A p \in Procs :
    /\ vmLock = p <=> pc[p] \in VMHeld
    /\ \A j \in Jobs : jobLock[j] = p <=> pc[p] \in JobHeld /\ job[p] = j

(* What the holder of vm-global knows of its VM, between its steps.        *)
HolderKnows(p) ==
  /\ pc[p] \in Journaling =>
       record[vm[p]] = "none" /\ Cardinality(Outstanding) < MaxVMs
  /\ pc[p] \in {"deploy_journal", "deploy_failed"} \cup DeployTry => vm[p] \in diskDir
  /\ pc[p] \in {"deploy_failed"} \cup DeployTry => vm[p] \in Outstanding
  /\ pc[p] \in DestroyBody \ {"destroy_query"} => record[vm[p]] # "none"
  /\ pc[p] \in {"destroy_disk", "destroy_record"} => domain[vm[p]] = "absent"
  /\ pc[p] = "destroy_record" => vm[p] \notin diskDir

HostOK == /\ QuotaHeld /\ MachineIsCovered /\ DestroyedIsClean
          /\ \A p \in Procs : HolderKnows(p)

Inductive == TypeOK /\ CallsOK /\ LocksOK /\ HostOK

-----------------------------------------------------------------------------
(* Liveness.                                                               *)

Due(v) == v \in Outstanding /\ (v \in expired \/ record[v] = "FAILED")

(* No command runs but the reaper: with a steady stream of commands, the   *)
(* polled locks can be taken whenever the reaper looks.                    *)
Quiet == \A p \in Callers : pc[p] = "idle"

(* Once callers leave the lab alone, an expired VM and a failed deployment *)
(* are destroyed, after deaths in any step, lost races for locks, and      *)
(* guests that power off while they are being stopped.                     *)
DueIsDestroyed ==
  <>[]Quiet => \A v \in VMs : Due(v) ~> record[v] = "DESTROYED"

-----------------------------------------------------------------------------
(* What the documentation says and the code does not do.                   *)

(* A VM the broker refuses to touch does not keep the reaper from the      *)
(* others (docs/architecture.md:77 "reaps expired or failed VMs").         *)
OthersAreReaped ==
  <>[]Quiet => \A v \in VMs \ Foreign : Due(v) ~> record[v] = "DESTROYED"

(* A cleanup that reports no failure, with no other command under way, has *)
(* removed the private material of every VM it listed (README.md:144).     *)
CleanupRemovesSecrets ==
  \A p \in Procs :
    /\ pc[p] = "cleanup_report" /\ ~someFailed[p]
    /\ \A q \in Procs \ {p} : pc[q] = "idle"
    => listed[p] \cap secrets = {}
=============================================================================
