-------------------------- MODULE VMLifecycleProofs --------------------------
(***************************************************************************)
(* Theorems about VMLifecycle, for every set of jobs, VMs and processes,   *)
(* every quota and every number of failures.                               *)
(***************************************************************************)
EXTENDS VMLifecycle, FiniteSetTheorems, TLAPS

-----------------------------------------------------------------------------
(* Types and arguments: TypeOK /\ CallsOK is inductive.                    *)

(* The part of TypeOK that the end of a command can disturb.               *)
ProcTypeOK ==
  /\ jobLock \in [Jobs -> Procs \cup {NoProc}]
  /\ vmLock \in Procs \cup {NoProc}
  /\ pc \in [Procs -> Labels]
  /\ call \in [Procs -> Commands \cup {"none"}]
  /\ job \in [Procs -> Jobs \cup {NoJob}]
  /\ vm \in [Procs -> VMs \cup {NoVM}]
  /\ listed \in [Procs -> SUBSET VMs]
  /\ todo \in [Procs -> SUBSET VMs]
  /\ sawFailed \in [Procs -> SUBSET VMs]
  /\ someFailed \in [Procs -> BOOLEAN]

(* Whatever the end of a command, its process has left its VM.             *)
Ends(p) == Succeed(p) \/ Fail(p) \/ Quit(p)

LEMMA EndForms ==
  ASSUME NEW p \in Procs, Ends(p)
  PROVE  \/ Quit(p)
         \/ call[p] = "reap" /\ BackTo(p, "reap_next", FALSE)
         \/ call[p] = "cleanup" /\ \E b \in BOOLEAN : BackTo(p, "cleanup_next", b)
BY DEF Ends, Succeed, Fail

LEMMA EndTypes ==
  ASSUME TypeOK, NEW p \in Procs, Ends(p)
  PROVE  ProcTypeOK'
<1> USE DEF TypeOK, ProcTypeOK, Goto, Release, Labels
<1>1. CASE Quit(p)
  BY <1>1 DEF Quit
<1>2. ASSUME NEW label \in {"reap_next", "cleanup_next"}, NEW b \in BOOLEAN,
             BackTo(p, label, b)
      PROVE  ProcTypeOK'
  BY <1>2 DEF BackTo
<1>3. QED BY <1>1, <1>2, EndForms

LEMMA EndCalls ==
  ASSUME TypeOK, CallsOK, NEW p \in Procs, Ends(p), UNCHANGED <<owner, record>>
  PROVE  CallsOK'
<1> DEFINE Left(label) ==
      /\ pc' = [pc EXCEPT ![p] = label] /\ vm' = [vm EXCEPT ![p] = NoVM]
      /\ todo'[p] \subseteq todo[p]
      /\ call'[p] = "cleanup" => call[p] = "cleanup" /\ job'[p] = job[p]
      /\ label = "cleanup_next" => call'[p] = "cleanup"
      /\ label = "reap_next" => call'[p] = "reap"
      /\ \A q \in Procs \ {p} :
           call'[q] = call[q] /\ job'[q] = job[q] /\ todo'[q] = todo[q]
<1> USE DEF TypeOK
<1>1. \E label \in {"idle", "reap_next", "cleanup_next"} : Left(label)
  <2>1. CASE Quit(p)
    BY <2>1 DEF Quit, Goto
  <2>2. CASE call[p] = "reap" /\ BackTo(p, "reap_next", FALSE)
    BY <2>2 DEF BackTo, Goto
  <2>3. ASSUME NEW b \in BOOLEAN, call[p] = "cleanup", BackTo(p, "cleanup_next", b)
        PROVE  Left("cleanup_next")
    BY <2>3 DEF BackTo, Goto
  <2>4. QED BY <2>1, <2>2, <2>3, EndForms
<1>2. PICK label \in {"idle", "reap_next", "cleanup_next"} : Left(label)
  BY <1>1
<1>3. ASSUME NEW q \in Procs PROVE CallOK(q)'
  <2>1. CASE q = p
    <3>1. /\ pc'[q] \notin WithVM /\ vm'[q] = NoVM /\ todo'[q] \subseteq todo[q]
          /\ pc'[q] \notin {"deploy_check", "deploy_quota"}
          /\ call'[q] = "cleanup" => call[q] = "cleanup" /\ job'[q] = job[q]
          /\ pc'[q] = "cleanup_next" => call'[q] = "cleanup"
          /\ pc'[q] = "reap_next" => call'[q] = "reap"
          /\ pc'[q] # "status_read"
      BY <1>2, <2>1 DEF WithVM, JobHeld, VMHeld, DeployTry, DestroyBody
    <3>2. CallOK(q)
      BY DEF CallsOK
    <3>3. QED BY <3>1, <3>2 DEF CallOK
  <2>2. CASE q # p
    <3>1. /\ pc'[q] = pc[q] /\ vm'[q] = vm[q] /\ todo'[q] = todo[q]
          /\ call'[q] = call[q] /\ job'[q] = job[q]
      BY <1>2, <2>2
    <3>2. CallOK(q)
      BY DEF CallsOK
    <3>3. QED BY <3>1, <3>2 DEF CallOK, Fresh
  <2>3. QED BY <2>1, <2>2
<1>4. FreshIdsApart'
  BY <1>2 DEF CallsOK, FreshIdsApart
<1>5. RecordsHaveFolders'
  BY DEF CallsOK, RecordsHaveFolders
<1>6. QED BY <1>3, <1>4, <1>5 DEF CallsOK

(* A step inside a command: the process keeps its arguments, and no folder *)
(* is made.                                                                *)
LEMMA AdvanceCalls ==
  ASSUME TypeOK, CallsOK, NEW p \in Procs, pc[p] \in WithVM,
         NEW label \in WithVM, Goto(p, label),
         call[p] = "deploy" => (label \in BeforeFolder <=> pc[p] \in BeforeFolder),
         label \in {"deploy_check", "deploy_quota"} => call[p] = "deploy",
         label = "status_read" => call[p] = "status",
         UNCHANGED <<owner, call, job, vm, todo>>,
         \A v \in VMs : record'[v] # "none" => owner[v] # NoJob
  PROVE  CallsOK'
<1> USE DEF TypeOK, Goto
<1>1. ASSUME NEW q \in Procs PROVE CallOK(q)'
  <2>1. CASE q = p
    BY <2>1 DEF CallsOK, CallOK, Fresh, WithVM, JobHeld, VMHeld, DeployTry, DestroyBody,
                BeforeFolder
  <2>2. CASE q # p
    <3>1. /\ pc'[q] = pc[q] /\ vm'[q] = vm[q] /\ todo'[q] = todo[q]
          /\ call'[q] = call[q] /\ job'[q] = job[q] /\ owner' = owner
      BY <2>2
    <3>2. CallOK(q)
      BY DEF CallsOK
    <3>3. QED BY <3>1, <3>2 DEF CallOK, Fresh
  <2>3. QED BY <2>1, <2>2
<1>2. FreshIdsApart' /\ RecordsHaveFolders'
  BY DEF CallsOK, FreshIdsApart, RecordsHaveFolders
<1>3. QED BY <1>1, <1>2 DEF CallsOK

LEMMA TypeInit == Init => TypeOK
BY ConstantsAssumption DEF Init, TypeOK, Status, Labels

LEMMA TypeStart ==
  ASSUME TypeOK, NEW p \in Procs, Start(p)
  PROVE  TypeOK'
<1> USE DEF TypeOK, Goto, Begin, files, host, locks, pass, args, Labels, Commands
<1>1. ASSUME NEW j \in Jobs, NEW v \in VMs, StartDeploy(p, j, v)
      PROVE  TypeOK'
  BY <1>1 DEF StartDeploy
<1>2. ASSUME NEW v \in VMs, NEW command \in Commands, StartOnVM(p, command, v)
      PROVE  TypeOK'
  BY <1>2 DEF StartOnVM
<1>3. CASE StartReap(p)
  BY <1>3 DEF StartReap, Outstanding
<1>4. ASSUME NEW j \in Jobs, StartCleanup(p, j)
      PROVE  TypeOK'
  BY <1>4 DEF StartCleanup
<1>5. QED BY <1>1, <1>2, <1>3, <1>4 DEF Start

(* A process past "lock_job" has a VM and a job to work on.                *)
LEMMA Arguments ==
  ASSUME CallsOK, NEW p \in Procs, pc[p] \in WithVM
  PROVE  vm[p] \in VMs /\ job[p] \in Jobs
BY DEF CallsOK, CallOK

LEMMA FaultCounted ==
  ASSUME TypeOK, Fault \/ UNCHANGED faults
  PROVE  faults' \in 0..MaxFaults
<1>1. faults \in 0..MaxFaults /\ MaxFaults \in Nat
  BY ConstantsAssumption DEF TypeOK
<1>2. QED BY <1>1 DEF Fault

LEMMA TypeStep ==
  ASSUME TypeOK, CallsOK, NEW p \in Procs, Step(p)
  PROVE  TypeOK'
<1> USE DEF TypeOK, Goto, files, host, locks, pass, args, Labels, Status,
            DeployTry, DestroyBody
<1> DEFINE Here == vm[p] \in VMs /\ job[p] \in Jobs
<1>0. pc[p] \in WithVM => Here
  BY Arguments
<1>1. CASE LockJob(p) \/ LockVM(p)
  <2>1. CASE LockJob(p)
    BY <2>1 DEF LockJob, AcquireJobLock
  <2>2. CASE LockVM(p)
    BY <2>2 DEF LockVM, AcquireVMLock
  <2>3. QED BY <1>1, <2>1, <2>2
<1>2. CASE Busy(p) \/ StatusRead(p)
  <2>1. CASE Busy(p)
    BY <2>1, EndTypes DEF Busy, ProcTypeOK, Ends
  <2>2. CASE StatusRead(p)
    BY <2>2, EndTypes, ZenonT(40) DEF StatusRead, ProcTypeOK, Ends
  <2>3. QED BY <1>2, <2>1, <2>2
<1>3. CASE DeployStep(p)
  <2> USE DEF WithVM, JobHeld, VMHeld
  <2>1. CASE DeployCheck(p) \/ DeployReturn(p)
    <3>1. CASE DeployCheck(p)
      BY <3>1, EndTypes DEF DeployCheck, ProcTypeOK, Ends
    <3>2. CASE DeployReturn(p)
      BY <3>2, EndTypes DEF DeployReturn, ProcTypeOK, Ends
    <3>3. QED BY <2>1, <3>1, <3>2
  <2>2. CASE DeployQuota(p)
    <3>1. Here
      BY <1>0, <2>2 DEF DeployQuota
    <3>2. CASE MkdirVM(p)
      BY <2>2, <3>1, <3>2 DEF DeployQuota, MkdirVM
    <3>3. CASE Fail(p) /\ UNCHANGED owner
      BY <2>2, <3>3, EndTypes DEF DeployQuota, ProcTypeOK, Ends
    <3>4. QED BY <2>2, <3>2, <3>3 DEF DeployQuota
  <2>3. CASE DeployDiskDir(p) \/ DeployMaterial(p)
    <3>1. Here
      BY <1>0, <2>3 DEF DeployDiskDir, DeployMaterial
    <3>2. CASE DeployDiskDir(p)
      BY <3>1, <3>2 DEF DeployDiskDir
    <3>3. CASE DeployMaterial(p)
      BY <3>1, <3>3 DEF DeployMaterial
    <3>4. QED BY <2>3, <3>2, <3>3
  <2>4. CASE DeployJournal(p) \/ DeployRunning(p)
    <3>1. Here
      BY <1>0, <2>4 DEF DeployJournal, DeployRunning
    <3>2. CASE DeployJournal(p)
      BY <3>1, <3>2 DEF DeployJournal
    <3>3. CASE DeployRunning(p)
      BY <3>1, <3>3 DEF DeployRunning
    <3>4. QED BY <2>4, <3>2, <3>3
  <2>5. CASE DeployFailed(p)
    <3>1. Here
      BY <1>0, <2>5 DEF DeployFailed
    <3>2. record' \in [VMs -> Status]
      BY <2>5, <3>1 DEF DeployFailed
    <3>3. faults' \in 0..MaxFaults
      BY <2>5, FaultCounted DEF DeployFailed
    <3>4. pc' \in [Procs -> Labels]
      BY <2>5 DEF DeployFailed
    <3>5. QED BY <2>5, <3>2, <3>3, <3>4 DEF DeployFailed
  <2>6. CASE DeployDefine(p) \/ DeployStart(p)
    <3>1. Here
      BY <1>0, <2>6 DEF DeployDefine, DeployStart
    <3>2. CASE DeployDefine(p)
      BY <3>1, <3>2 DEF DeployDefine
    <3>3. CASE DeployStart(p)
      BY <3>1, <3>3 DEF DeployStart
    <3>4. QED BY <2>6, <3>2, <3>3
  <2>7. CASE DeploySelect(p)
    <3>1. Here
      BY <1>0, <2>7 DEF DeploySelect
    <3>2. QED BY <2>7, <3>1 DEF DeploySelect
  <2>8. QED BY <1>3, <2>1, <2>2, <2>3, <2>4, <2>5, <2>6, <2>7 DEF DeployStep
<1>4. CASE DestroyStep(p)
  <2>1. CASE DestroyQuery(p) \/ DestroyVerify(p)
    <3>1. vm[p] \in VMs
      BY <1>0, <2>1 DEF DestroyQuery, DestroyVerify, WithVM, JobHeld, VMHeld
    <3>2. domain[vm[p]] \in {"absent", "shut off", "running"}
      BY <3>1
    <3>3. CASE DestroyQuery(p)
      <4>1. CASE Fail(p)
        BY <3>3, <4>1, EndTypes DEF DestroyQuery, ProcTypeOK, Ends
      <4>2. ASSUME NEW label \in DestroyBody, Goto(p, label), UNCHANGED <<locks, args, pass>>
            PROVE  TypeOK'
        BY <3>3, <4>2 DEF DestroyQuery
      <4>3. QED BY <3>2, <3>3, <4>1, <4>2 DEF DestroyQuery
    <3>4. CASE DestroyVerify(p)
      BY <3>4, EndTypes, ZenonT(40) DEF DestroyVerify, ProcTypeOK, Ends
    <3>5. QED BY <2>1, <3>3, <3>4
  <2>2. CASE DestroyStop(p)
    BY <2>2, EndTypes, ZenonT(40) DEF DestroyStop, ProcTypeOK, Ends
  <2>3. CASE DestroyUndefine(p)
    BY <2>3 DEF DestroyUndefine
  <2>4. CASE DestroyDisk(p) \/ DestroySecrets(p)
    <3>1. CASE DestroyDisk(p)
      BY <3>1 DEF DestroyDisk
    <3>2. CASE DestroySecrets(p)
      BY <3>2 DEF DestroySecrets
    <3>3. QED BY <2>4, <3>1, <3>2
  <2>5. CASE DestroyRecord(p)
    BY <2>5 DEF DestroyRecord
  <2>6. CASE DestroyDeselect(p)
    BY <2>6, EndTypes DEF DestroyDeselect, ProcTypeOK, Ends
  <2>7. QED BY <1>4, <2>1, <2>2, <2>3, <2>4, <2>5, <2>6 DEF DestroyStep
<1>5. CASE PassStep(p)
  <2>1. CASE ReapNext(p)
    <3>1. PICK v \in todo[p] :
            /\ todo' = [todo EXCEPT ![p] = @ \ {v}]
            /\ \/ /\ job' = [job EXCEPT ![p] = owner[v]]
                  /\ vm' = [vm EXCEPT ![p] = v]
                  /\ Goto(p, "lock_job")
               \/ UNCHANGED <<job, vm, pc>>
      BY <2>1 DEF ReapNext
    <3>2. v \in VMs
      OBVIOUS
    <3>3. job' \in [Procs -> Jobs \cup {NoJob}]
      <4>1. owner[v] \in Jobs \cup {NoJob}
        BY <3>2
      <4>2. QED BY <3>1, <4>1
    <3>4. vm' \in [Procs -> VMs \cup {NoVM}] /\ pc' \in [Procs -> Labels]
      BY <3>1, <3>2, ZenonT(40)
    <3>5. todo' \in [Procs -> SUBSET VMs]
      BY <3>1
    <3>6. QED BY <2>1, <3>3, <3>4, <3>5 DEF ReapNext
  <2>2. CASE CleanupNext(p)
    <3>1. PICK v \in todo[p] :
            /\ todo' = [todo EXCEPT ![p] = @ \ {v}]
            /\ \/ vm' = [vm EXCEPT ![p] = v] /\ Goto(p, "lock_job")
               \/ UNCHANGED <<vm, pc>>
            /\ \/ someFailed' = [someFailed EXCEPT ![p] = TRUE]
               \/ someFailed' = someFailed
      BY <2>2 DEF CleanupNext
    <3>2. v \in VMs
      OBVIOUS
    <3>4. someFailed' \in [Procs -> BOOLEAN]
      BY <3>1
    <3>5. /\ vm' \in [Procs -> VMs \cup {NoVM}] /\ pc' \in [Procs -> Labels]
          /\ todo' \in [Procs -> SUBSET VMs]
      BY <3>1, <3>2, ZenonT(40)
    <3>6. QED BY <2>2, <3>4, <3>5 DEF CleanupNext
  <2>3. CASE ReapDone(p) \/ CleanupExit(p)
    BY <2>3, EndTypes DEF ReapDone, CleanupExit, ProcTypeOK, Ends
  <2>4. CASE CleanupDone(p)
    BY <2>4 DEF CleanupDone
  <2>5. QED BY <1>5, <2>1, <2>2, <2>3, <2>4 DEF PassStep
<1>6. QED BY <1>1, <1>2, <1>3, <1>4, <1>5 DEF Step

LEMMA TypeFault ==
  ASSUME TypeOK, CallsOK, NEW p \in Procs, DeployFails(p) \/ CallFails(p) \/ Crash(p)
  PROVE  TypeOK'
<1> USE DEF TypeOK, Goto, files, host, locks, pass, args,
            Labels, DeployTry, DestroyBody
<1>1. CASE DeployFails(p)
  <2>1. pc[p] \in WithVM
    BY <1>1 DEF DeployFails, WithVM, JobHeld, VMHeld
  <2>2. vm[p] \in VMs
    BY <2>1, Arguments
  <2>3. faults' \in 0..MaxFaults
    BY <1>1, FaultCounted DEF DeployFails
  <2>4. secrets' \subseteq VMs
    BY <1>1, <2>2 DEF DeployFails
  <2>5. QED BY <1>1, <2>3, <2>4 DEF DeployFails
<1>2. CASE CallFails(p) \/ Crash(p)
  <2>1. Ends(p)
    BY <1>2 DEF CallFails, Crash, Ends
  <2>2. ProcTypeOK'
    BY <2>1, EndTypes
  <2>3. faults' \in 0..MaxFaults /\ UNCHANGED <<files, host>>
    BY <1>2, FaultCounted DEF CallFails, Crash
  <2>4. QED BY <2>2, <2>3 DEF ProcTypeOK
<1>3. QED BY <1>1, <1>2

LEMMA TypeHost ==
  ASSUME TypeOK, NEW v \in VMs, GuestOff(v) \/ Expire(v)
  PROVE  TypeOK'
BY ZenonT(40) DEF TypeOK, GuestOff, Expire, files, host, locks, pass, args

LEMMA CallsInit == Init => CallsOK
BY DEF Init, CallsOK, CallOK, FreshIdsApart, RecordsHaveFolders, WithVM, JobHeld, VMHeld,
       DeployTry, DestroyBody

LEMMA CallsStart ==
  ASSUME TypeOK, CallsOK, NEW p \in Procs, Start(p)
  PROVE  CallsOK'
<1> USE DEF TypeOK, Goto, Begin, files, host, locks, pass, args
<1>1. ASSUME NEW j \in Jobs, NEW v \in VMs, NEW command \in Commands \ {"reap", "cleanup"},
             Begin(p, command, j, v), Goto(p, "lock_job"),
             IF command = "deploy" THEN owner[v] = NoJob /\ \A q \in Procs : vm[q] # v
                                   ELSE owner[v] = j,
             UNCHANGED <<owner, record, todo>>
      PROVE  CallsOK'
  <2>1. ASSUME NEW q \in Procs PROVE CallOK(q)'
    <3>1. CallOK(q) /\ CallOK(p)
      BY DEF CallsOK
    <3>2. CASE q = p
      BY <1>1, <3>1, <3>2 DEF CallOK, Fresh, WithVM, BeforeFolder, Commands
    <3>3. CASE q # p
      BY <1>1, <3>1, <3>3 DEF CallOK, Fresh
    <3>4. QED BY <3>2, <3>3
  <2>2. FreshIdsApart'
    <3>1. FreshIdsApart
      BY DEF CallsOK
    <3>2. \A q \in Procs : vm'[q] = IF q = p THEN v ELSE vm[q]
      BY <1>1
    <3>3. command # "deploy" => owner[v] # NoJob
      BY <1>1, ConstantsAssumption
    <3>4. QED BY <1>1, <3>1, <3>2, <3>3 DEF FreshIdsApart
  <2>3. RecordsHaveFolders'
    BY <1>1 DEF CallsOK, RecordsHaveFolders
  <2>4. QED BY <2>1, <2>2, <2>3 DEF CallsOK
<1>2. ASSUME NEW command \in {"reap", "cleanup"}, NEW j \in Jobs \cup {NoJob}, NEW T \in SUBSET VMs,
             Begin(p, command, j, NoVM),
             pc' = [pc EXCEPT ![p] = IF command = "reap" THEN "reap_next" ELSE "cleanup_next"],
             todo' = [todo EXCEPT ![p] = T], \A v \in T : owner[v] # NoJob,
             command = "cleanup" => j \in Jobs /\ \A v \in T : owner[v] = j,
             UNCHANGED <<owner, record>>
      PROVE  CallsOK'
  <2>1. ASSUME NEW q \in Procs PROVE CallOK(q)'
    <3>1. CallOK(q)
      BY DEF CallsOK
    <3>2. CASE q = p
      BY <1>2, <3>2 DEF CallOK, Fresh, WithVM, JobHeld, VMHeld, DeployTry, DestroyBody
    <3>3. CASE q # p
      BY <1>2, <3>1, <3>3 DEF CallOK, Fresh
    <3>4. QED BY <3>2, <3>3
  <2>2. FreshIdsApart'
    BY <1>2 DEF CallsOK, FreshIdsApart
  <2>3. RecordsHaveFolders'
    BY <1>2 DEF CallsOK, RecordsHaveFolders
  <2>4. QED BY <2>1, <2>2, <2>3 DEF CallsOK
<1>3. ASSUME NEW j \in Jobs, NEW v \in VMs, StartDeploy(p, j, v)
      PROVE  CallsOK'
  BY <1>1, <1>3 DEF StartDeploy, Commands
<1>4. ASSUME NEW v \in VMs, NEW command \in Commands, StartOnVM(p, command, v)
      PROVE  CallsOK'
  BY <1>1, <1>4 DEF StartOnVM
<1>5. CASE StartReap(p)
  <2>1. \A v \in Outstanding : owner[v] # NoJob
    BY DEF CallsOK, RecordsHaveFolders, Outstanding
  <2>2. QED BY <1>2, <1>5, <2>1 DEF StartReap, Outstanding
<1>6. ASSUME NEW j \in Jobs, StartCleanup(p, j)
      PROVE  CallsOK'
  <2> DEFINE T == {v \in VMs : owner[v] = j}
  <2>1. T \in SUBSET VMs /\ \A v \in T : owner[v] # NoJob /\ owner[v] = j
    BY ConstantsAssumption
  <2>2. /\ Begin(p, "cleanup", j, NoVM) /\ pc' = [pc EXCEPT ![p] = "cleanup_next"]
        /\ todo' = [todo EXCEPT ![p] = T] /\ UNCHANGED <<owner, record>>
    BY <1>6 DEF StartCleanup
  <2> HIDE DEF T
  <2>3. QED BY <1>2, <2>1, <2>2
<1>7. QED BY <1>3, <1>4, <1>5, <1>6 DEF Start

LEMMA CallsStep ==
  ASSUME TypeOK, CallsOK, NEW p \in Procs, Step(p)
  PROVE  CallsOK'
<1> USE DEF files, host, locks, pass, args
<1> DEFINE Kept == UNCHANGED <<owner, call, job, vm, todo>>
<1>0. RecordsHaveFolders /\ CallOK(p)
  BY DEF CallsOK
<1>1. CASE LockJob(p) \/ LockVM(p)
  <2> USE DEF WithVM, JobHeld, VMHeld, DeployTry, DestroyBody, BeforeFolder
  <2>1. CASE LockJob(p)
    <3> DEFINE label == CASE call[p] = "deploy" -> "deploy_check"
                          [] call[p] = "status" -> "status_read"
                          [] OTHER              -> "lock_vm"
    <3>1. pc[p] = "lock_job" /\ Goto(p, label) /\ Kept /\ UNCHANGED record
      BY <2>1 DEF LockJob
    <3>2. /\ label \in {"deploy_check", "status_read", "lock_vm"}
          /\ label = "deploy_check" <=> call[p] = "deploy"
          /\ label = "status_read" => call[p] = "status"
      OBVIOUS
    <3>3. QED
      <4> HIDE DEF label
      <4>1. QED BY <1>0, <3>1, <3>2, AdvanceCalls DEF RecordsHaveFolders
  <2>2. CASE LockVM(p)
    <3> DEFINE label == IF call[p] = "deploy" THEN "deploy_quota" ELSE "destroy_query"
    <3>1. pc[p] = "lock_vm" /\ Goto(p, label) /\ Kept /\ UNCHANGED record
      BY <2>2 DEF LockVM
    <3>2. /\ label \in {"deploy_quota", "destroy_query"}
          /\ label = "deploy_quota" <=> call[p] = "deploy"
      OBVIOUS
    <3>3. QED
      <4> HIDE DEF label
      <4>1. QED BY <1>0, <3>1, <3>2, AdvanceCalls DEF RecordsHaveFolders
  <2>3. QED BY <1>1, <2>1, <2>2
<1>2. CASE Ends(p) /\ UNCHANGED <<owner, record>>
  BY <1>2, EndCalls
<1>3. CASE DeployStep(p)
  <2> USE DEF WithVM, JobHeld, VMHeld, DeployTry, DestroyBody, BeforeFolder
  <2>1. CASE DeployCheck(p)
    <3>1. pc[p] = "deploy_check" /\ UNCHANGED <<owner, record>>
      BY <2>1 DEF DeployCheck
    <3>2. CASE Goto(p, "lock_vm") /\ Kept
      BY <1>0, <3>1, <3>2, AdvanceCalls DEF RecordsHaveFolders
    <3>3. QED BY <1>2, <2>1, <3>1, <3>2 DEF DeployCheck, Ends
  <2>2. CASE DeployQuota(p) /\ MkdirVM(p)
    <3>1. /\ pc[p] = "deploy_quota" /\ call[p] = "deploy"
          /\ vm[p] \in VMs /\ job[p] \in Jobs /\ owner[vm[p]] = NoJob
      BY <1>0, <2>2 DEF DeployQuota, CallOK, Fresh
    <3>2. /\ owner' = [owner EXCEPT ![vm[p]] = job[p]] /\ Goto(p, "deploy_disk_dir")
          /\ UNCHANGED <<record, call, job, vm, todo>>
      BY <2>2 DEF DeployQuota, MkdirVM
    <3>3. job[p] # NoJob
      BY <3>1, ConstantsAssumption
    <3>4. ASSUME NEW q \in Procs PROVE CallOK(q)'
      <4>1. CallOK(q)
        BY DEF CallsOK
      <4>2. CASE q = p
        BY <3>1, <3>2, <3>3, <4>1, <4>2 DEF CallOK, Fresh, Goto, TypeOK
      <4>3. CASE q # p
        <5>1. vm[q] # NoVM => vm[q] # vm[p]
          BY <3>1, <4>3 DEF CallsOK, FreshIdsApart
        <5>2. /\ pc'[q] = pc[q] /\ call'[q] = call[q] /\ job'[q] = job[q]
              /\ vm'[q] = vm[q] /\ todo'[q] = todo[q] /\ todo[q] \subseteq VMs
          BY <3>2, <4>3 DEF Goto, TypeOK
        <5>3. \A v \in VMs : v # vm[p] => owner'[v] = owner[v]
          BY <3>2 DEF TypeOK
        <5>4. \A v \in todo[q] : v # vm[p]
          BY <3>1, <4>1 DEF CallOK
        <5>5. pc[q] \in WithVM => vm[q] \in VMs /\ vm[q] # NoVM
          BY <4>1, ConstantsAssumption DEF CallOK
        <5>6. QED
          <6> HIDE DEF WithVM
          <6>1. QED BY <4>1, <5>1, <5>2, <5>3, <5>4, <5>5 DEF CallOK, Fresh
      <4>4. QED BY <4>2, <4>3
    <3>5. FreshIdsApart' /\ RecordsHaveFolders'
      BY <1>0, <3>2, <3>3 DEF CallsOK, FreshIdsApart, RecordsHaveFolders, TypeOK
    <3>6. QED BY <3>4, <3>5 DEF CallsOK
  <2>3. CASE DeployQuota(p) /\ Fail(p) /\ UNCHANGED owner
    BY <1>2, <2>3 DEF DeployQuota, Ends
  <2>4. CASE DeployDiskDir(p)
    BY <1>0, <2>4, AdvanceCalls DEF DeployDiskDir, RecordsHaveFolders
  <2>5. CASE DeployJournal(p) \/ DeployRunning(p) \/ DeployFailed(p)
    <3>1. PICK label \in {"deploy_material", "deploy_select", "destroy_query"} :
            /\ pc[p] \in {"deploy_journal", "deploy_running", "deploy_failed"}
            /\ Goto(p, label) /\ Kept
            /\ \A v \in VMs : v # vm[p] => record'[v] = record[v]
      BY <2>5 DEF DeployJournal, DeployRunning, DeployFailed, TypeOK
    <3>2. vm[p] \in VMs /\ owner[vm[p]] # NoJob
      BY <1>0, <3>1, ConstantsAssumption DEF CallOK, Fresh
    <3>3. \A v \in VMs : record'[v] # "none" => owner[v] # NoJob
      BY <1>0, <3>1, <3>2 DEF RecordsHaveFolders
    <3>4. QED BY <3>1, <3>3, AdvanceCalls
  <2>6. CASE DeployMaterial(p) \/ DeployDefine(p) \/ DeployStart(p) \/ DeploySelect(p)
    <3>1. PICK label \in {"deploy_define", "deploy_start", "deploy_running", "deploy_return"} :
            /\ pc[p] \in {"deploy_material", "deploy_define", "deploy_start", "deploy_select"}
            /\ Goto(p, label) /\ Kept /\ UNCHANGED record
      BY <2>6 DEF DeployMaterial, DeployDefine, DeployStart, DeploySelect
    <3>2. QED BY <1>0, <3>1, AdvanceCalls DEF RecordsHaveFolders
  <2>7. CASE DeployReturn(p)
    BY <1>2, <2>7 DEF DeployReturn, Ends
  <2>8. CASE DeployQuota(p)
    <3>1. MkdirVM(p) \/ (Fail(p) /\ UNCHANGED owner)
      BY <2>8 DEF DeployQuota
    <3>2. QED BY <2>2, <2>3, <2>8, <3>1
  <2>9. QED BY <1>3, <2>1, <2>4, <2>5, <2>6, <2>7, <2>8 DEF DeployStep
<1>4. CASE Busy(p) \/ StatusRead(p)
  <2>1. CASE Busy(p)
    BY <1>2, <2>1 DEF Busy, Ends
  <2>2. CASE StatusRead(p)
    <3>1. CASE Goto(p, "lock_vm") /\ Kept
      BY <1>0, <2>2, <3>1, AdvanceCalls
         DEF StatusRead, RecordsHaveFolders, WithVM, JobHeld, VMHeld, DeployTry,
             DestroyBody, BeforeFolder, CallOK, Fresh
    <3>2. QED BY <1>2, <2>2, <3>1 DEF StatusRead, Ends
  <2>3. QED BY <1>4, <2>1, <2>2
<1>5. CASE DestroyStep(p)
  <2> USE DEF WithVM, JobHeld, VMHeld, DeployTry, DestroyBody, BeforeFolder
  <2>1. CASE DestroyQuery(p)
    <3>1. ASSUME NEW label \in DestroyBody, Goto(p, label), Kept PROVE CallsOK'
      BY <1>0, <2>1, <3>1, AdvanceCalls DEF DestroyQuery, RecordsHaveFolders
    <3>2. vm[p] \in VMs
      BY <1>0, <2>1 DEF DestroyQuery, CallOK
    <3>3. domain[vm[p]] \in {"absent", "shut off", "running"}
      BY <3>2 DEF TypeOK
    <3>4. QED BY <1>2, <2>1, <3>1, <3>3 DEF DestroyQuery, Ends
  <2>2. CASE DestroyStop(p) \/ DestroyVerify(p)
    <3>1. ASSUME NEW label \in {"destroy_undefine", "destroy_disk"}, Goto(p, label), Kept
          PROVE  CallsOK'
      BY <1>0, <2>2, <3>1, AdvanceCalls DEF DestroyStop, DestroyVerify, RecordsHaveFolders
    <3>2. QED BY <1>2, <2>2, <3>1 DEF DestroyStop, DestroyVerify, Ends
  <2>3. CASE DestroyUndefine(p) \/ DestroyDisk(p) \/ DestroySecrets(p)
    <3>1. PICK label \in {"destroy_verify", "destroy_record", "destroy_deselect"} :
            /\ pc[p] \in {"destroy_undefine", "destroy_disk", "destroy_secrets"}
            /\ Goto(p, label) /\ Kept /\ UNCHANGED record
      BY <2>3 DEF DestroyUndefine, DestroyDisk, DestroySecrets
    <3>2. QED BY <1>0, <3>1, AdvanceCalls DEF RecordsHaveFolders
  <2>4. CASE DestroyRecord(p)
    <3>1. vm[p] \in VMs /\ owner[vm[p]] # NoJob
      BY <1>0, <2>4, ConstantsAssumption DEF DestroyRecord, CallOK, Fresh
    <3>2. \A v \in VMs : record'[v] # "none" => owner[v] # NoJob
      BY <1>0, <2>4, <3>1 DEF DestroyRecord, RecordsHaveFolders, TypeOK
    <3>3. QED BY <2>4, <3>2, AdvanceCalls DEF DestroyRecord
  <2>5. CASE DestroyDeselect(p)
    BY <1>2, <2>5 DEF DestroyDeselect, Ends
  <2>6. QED BY <1>5, <2>1, <2>2, <2>3, <2>4, <2>5 DEF DestroyStep
<1>6. CASE PassStep(p)
  <2>1. ASSUME NEW v \in todo[p], pc[p] \in {"reap_next", "cleanup_next"},
               todo' = [todo EXCEPT ![p] = @ \ {v}],
               UNCHANGED <<owner, record, call>>,
               \/ /\ job' = [job EXCEPT ![p] = owner[v]] /\ vm' = [vm EXCEPT ![p] = v]
                  /\ Goto(p, "lock_job") /\ call[p] # "deploy"
                  /\ call[p] = "cleanup" => owner[v] = job[p]
               \/ UNCHANGED <<job, vm, pc>>
        PROVE  CallsOK'
    <3>1. v \in VMs /\ owner[v] \in Jobs /\ owner[v] # NoJob
      BY <1>0, <2>1 DEF TypeOK, CallOK
    <3>2. ASSUME NEW q \in Procs PROVE CallOK(q)'
      <4>1. CallOK(q)
        BY DEF CallsOK
      <4>2. CASE q = p
        <5>1. todo'[q] \subseteq todo[q]
          BY <2>1, <4>2 DEF TypeOK
        <5>2. CASE /\ job'[q] = owner[v] /\ vm'[q] = v /\ pc'[q] = "lock_job"
                   /\ call[q] # "deploy"
                   /\ call[q] = "cleanup" => owner[v] = job[q]
          BY <2>1, <3>1, <4>1, <5>1, <5>2
             DEF CallOK, Fresh, WithVM, JobHeld, VMHeld, DeployTry, DestroyBody
        <5>3. CASE job'[q] = job[q] /\ vm'[q] = vm[q] /\ pc'[q] = pc[q]
          BY <2>1, <4>1, <5>1, <5>3 DEF CallOK, Fresh
        <5>4. QED BY <2>1, <4>2, <5>2, <5>3 DEF Goto, TypeOK
      <4>3. CASE q # p
        <5>1. /\ pc'[q] = pc[q] /\ call'[q] = call[q] /\ job'[q] = job[q]
              /\ vm'[q] = vm[q] /\ todo'[q] = todo[q]
          BY <2>1, <4>3 DEF Goto, TypeOK
        <5>2. QED BY <2>1, <4>1, <5>1 DEF CallOK, Fresh
      <4>4. QED BY <4>2, <4>3
    <3>3. FreshIdsApart'
      <4>1. \A q \in Procs : vm'[q] = vm[q] \/ vm'[q] = v
        BY <2>1 DEF TypeOK
      <4>2. QED BY <2>1, <3>1, <4>1 DEF CallsOK, FreshIdsApart
    <3>4. RecordsHaveFolders'
      BY <1>0, <2>1 DEF RecordsHaveFolders
    <3>5. QED BY <3>2, <3>3, <3>4 DEF CallsOK
  <2>2. CASE ReapNext(p)
    <3>1. call[p] = "reap" /\ pc[p] = "reap_next"
      BY <1>0, <2>2 DEF ReapNext, CallOK
    <3>2. QED BY <2>1, <2>2, <3>1 DEF ReapNext
  <2>3. CASE CleanupNext(p)
    <3>1. /\ call[p] = "cleanup" /\ pc[p] = "cleanup_next"
          /\ \A v \in todo[p] : owner[v] = job[p]
      BY <1>0, <2>3 DEF CleanupNext, CallOK
    <3>2. job = [job EXCEPT ![p] = job[p]]
      BY DEF TypeOK
    <3>3. QED BY <2>1, <2>3, <3>1, <3>2 DEF CleanupNext
  <2>4. CASE ReapDone(p) \/ CleanupExit(p)
    BY <1>2, <2>4 DEF ReapDone, CleanupExit, Ends
  <2>5. CASE CleanupDone(p)
    <3>1. ASSUME NEW q \in Procs PROVE CallOK(q)'
      BY <2>5, ZenonT(40)
         DEF CleanupDone, Goto, CallsOK, CallOK, Fresh, TypeOK, WithVM, JobHeld,
                  VMHeld, DeployTry, DestroyBody
    <3>2. QED BY <2>5, <3>1 DEF CleanupDone, CallsOK, FreshIdsApart, RecordsHaveFolders
  <2>6. QED BY <1>6, <2>2, <2>3, <2>4, <2>5 DEF PassStep
<1>7. QED BY <1>1, <1>3, <1>4, <1>5, <1>6 DEF Step

LEMMA CallsFault ==
  ASSUME TypeOK, CallsOK, NEW p \in Procs, DeployFails(p) \/ CallFails(p) \/ Crash(p)
  PROVE  CallsOK'
<1> USE DEF files, host, locks, pass, args
<1>1. CASE DeployFails(p)
  <2>1. /\ pc[p] \in DeployTry /\ Goto(p, "deploy_failed")
        /\ UNCHANGED <<owner, call, job, vm, todo, record>>
    BY <1>1 DEF DeployFails
  <2>2. RecordsHaveFolders
    BY DEF CallsOK
  <2>3. QED BY <2>1, <2>2, AdvanceCalls
            DEF RecordsHaveFolders, WithVM, JobHeld, VMHeld, DeployTry, DestroyBody, BeforeFolder
<1>2. CASE CallFails(p) \/ Crash(p)
  BY <1>2, EndCalls DEF CallFails, Crash, Ends
<1>3. QED BY <1>1, <1>2

LEMMA CallsHost ==
  ASSUME TypeOK, CallsOK, NEW v \in VMs, GuestOff(v) \/ Expire(v)
  PROVE  CallsOK'
<1>1. UNCHANGED <<owner, record, pc, call, job, vm, todo>>
  BY DEF GuestOff, Expire, files, args, pass
<1>2. QED BY <1>1 DEF CallsOK, CallOK, Fresh, FreshIdsApart, RecordsHaveFolders

LEMMA StutterCalls ==
  ASSUME TypeOK, CallsOK, UNCHANGED vars
  PROVE  TypeOK' /\ CallsOK'
<1> USE DEF vars, files, host, locks, args, pass
<1>1. TypeOK'
  BY DEF TypeOK
<1>2. CallsOK'
  BY DEF CallsOK, CallOK, Fresh, FreshIdsApart, RecordsHaveFolders
<1>3. QED BY <1>1, <1>2

LEMMA TypeAndCallsStep == TypeOK /\ CallsOK /\ [Next]_vars => TypeOK' /\ CallsOK'
<1> SUFFICES ASSUME TypeOK, CallsOK, [Next]_vars PROVE TypeOK' /\ CallsOK'
  OBVIOUS
<1>1. ASSUME NEW p \in Procs, Start(p) \/ Step(p) PROVE TypeOK' /\ CallsOK'
  BY <1>1, TypeStart, TypeStep, CallsStart, CallsStep
<1>2. ASSUME NEW p \in Procs, DeployFails(p) \/ CallFails(p) \/ Crash(p)
      PROVE  TypeOK' /\ CallsOK'
  BY <1>2, TypeFault, CallsFault
<1>3. ASSUME NEW v \in VMs, GuestOff(v) \/ Expire(v) PROVE TypeOK' /\ CallsOK'
  BY <1>3, TypeHost, CallsHost
<1>4. QED BY <1>1, <1>2, <1>3, StutterCalls DEF Next

(* Every reachable state is well typed: in particular, no step names a VM, *)
(* a job or a status that does not exist, whatever failed before it.       *)
THEOREM TypeCorrect == Spec => []TypeOK
<1>1. Init => TypeOK /\ CallsOK
  BY TypeInit, CallsInit
<1>2. QED BY <1>1, TypeAndCallsStep, PTL DEF Spec

(* A command works on a VM of its job, and two deployments never on the    *)
(* same one.                                                               *)
THEOREM CallsAlwaysOK == Spec => []CallsOK
<1>1. Init => TypeOK /\ CallsOK
  BY TypeInit, CallsInit
<1>2. QED BY <1>1, TypeAndCallsStep, PTL DEF Spec

-----------------------------------------------------------------------------
(* Locks.                                                                  *)

(* The end of a command or of an item frees what the process held.         *)
LEMMA EndLocks ==
  ASSUME TypeOK, LocksOK, NEW p \in Procs, Ends(p)
  PROVE  LocksOK'
<1>1. \E label \in {"idle", "reap_next", "cleanup_next"} :
        pc' = [pc EXCEPT ![p] = label]
  BY EndForms DEF Quit, BackTo, Goto
<1>2. Release(p) /\ \A q \in Procs : q # p => job'[q] = job[q]
  <2>1. CASE Quit(p)
    BY <2>1 DEF Quit, TypeOK
  <2>2. ASSUME NEW label \in {"reap_next", "cleanup_next"}, NEW b \in BOOLEAN,
               BackTo(p, label, b)
        PROVE  Release(p) /\ \A q \in Procs : q # p => job'[q] = job[q]
    BY <2>2 DEF BackTo, TypeOK
  <2>3. QED BY <2>1, <2>2, EndForms
<1>3. pc'[p] \notin JobHeld
  BY <1>1 DEF TypeOK, JobHeld, VMHeld, DeployTry, DestroyBody
<1>4. ASSUME NEW q \in Procs, q # p PROVE pc'[q] = pc[q] /\ job'[q] = job[q]
  BY <1>1, <1>2, <1>4 DEF TypeOK
<1>5. \A q \in Procs : q # NoProc
  BY ConstantsAssumption
<1>6. /\ vmLock' = IF vmLock = p THEN NoProc ELSE vmLock
      /\ \A j \in Jobs : jobLock'[j] = IF jobLock[j] = p THEN NoProc ELSE jobLock[j]
  BY <1>2 DEF Release
<1>7. pc'[p] \notin VMHeld
  BY <1>3 DEF JobHeld
<1>8. ASSUME NEW q \in Procs
      PROVE  /\ vmLock' = q <=> pc'[q] \in VMHeld
             /\ \A j \in Jobs : jobLock'[j] = q <=> pc'[q] \in JobHeld /\ job'[q] = j
  <2>1. CASE q = p
    BY <1>3, <1>5, <1>6, <1>7, <2>1
  <2>2. CASE q # p
    BY <1>4, <1>5, <1>6, <2>2 DEF LocksOK
  <2>3. QED BY <2>1, <2>2
<1>9. QED BY <1>8 DEF LocksOK

(* A step between labels that hold the same locks.                         *)
LEMMA KeepLocks ==
  ASSUME TypeOK, LocksOK, NEW p \in Procs, NEW label, pc' = [pc EXCEPT ![p] = label],
         label \in VMHeld <=> pc[p] \in VMHeld,
         label \in JobHeld <=> pc[p] \in JobHeld,
         job' = job \/ (label \notin JobHeld /\ \E j : job' = [job EXCEPT ![p] = j]),
         UNCHANGED locks
  PROVE  LocksOK'
<1>1. pc'[p] = label /\ \A q \in Procs : q # p => pc'[q] = pc[q] /\ job'[q] = job[q]
  BY DEF TypeOK
<1>2. label \in JobHeld => job'[p] = job[p]
  OBVIOUS
<1>3. QED BY <1>1, <1>2 DEF LocksOK, locks

LEMMA LocksStart ==
  ASSUME TypeOK, LocksOK, NEW p \in Procs, Start(p)
  PROVE  LocksOK'
<1> USE DEF JobHeld, VMHeld, DeployTry, DestroyBody
<1>1. PICK label \in {"lock_job", "reap_next", "cleanup_next"} : Goto(p, label)
  BY DEF Start, StartDeploy, StartOnVM, StartReap, StartCleanup
<1>2. /\ pc[p] = "idle" /\ UNCHANGED locks
      /\ \E j : job' = [job EXCEPT ![p] = j]
  BY DEF Start, StartDeploy, StartOnVM, StartReap, StartCleanup, Begin
<1>3. QED BY <1>1, <1>2, KeepLocks DEF Goto

LEMMA LocksStep ==
  ASSUME TypeOK, CallsOK, LocksOK, NEW p \in Procs, Step(p)
  PROVE  LocksOK'
<1> USE DEF JobHeld, VMHeld, DeployTry, DestroyBody, args
<1> DEFINE Passes(from, label) ==
      pc[p] = from /\ Goto(p, label) /\ UNCHANGED <<job, locks>>
<1>1. CASE LockJob(p)
  <2>1. /\ pc[p] = "lock_job" /\ job[p] \in Jobs
        /\ pc'[p] \in {"deploy_check", "status_read", "lock_vm"}
        /\ jobLock[job[p]] = NoProc
        /\ jobLock' = [jobLock EXCEPT ![job[p]] = p] /\ UNCHANGED <<job, vmLock>>
    BY <1>1 DEF LockJob, AcquireJobLock, Goto, TypeOK, CallsOK, CallOK, WithVM
  <2>2. \A q \in Procs : q # p => pc'[q] = pc[q]
    BY <1>1 DEF LockJob, Goto, TypeOK
  <2>3. p # NoProc
    BY ConstantsAssumption
  <2>4. \A q \in Procs : q # NoProc
    BY ConstantsAssumption
  <2>5. \A j \in Jobs : jobLock'[j] = IF j = job[p] THEN p ELSE jobLock[j]
    BY <2>1 DEF TypeOK
  <2>6. ASSUME NEW q \in Procs
        PROVE  /\ vmLock' = q <=> pc'[q] \in VMHeld
               /\ \A j \in Jobs : jobLock'[j] = q <=> pc'[q] \in JobHeld /\ job'[q] = j
    <3>1. CASE q = p
      BY <2>1, <2>5, <3>1 DEF LocksOK
    <3>2. CASE q # p
      BY <2>1, <2>2, <2>4, <2>5, <3>2 DEF LocksOK
    <3>3. QED BY <3>1, <3>2
  <2>7. QED BY <2>6 DEF LocksOK
<1>2. CASE LockVM(p)
  <2>1. /\ pc[p] = "lock_vm" /\ pc'[p] \in {"deploy_quota", "destroy_query"}
        /\ vmLock = NoProc /\ vmLock' = p /\ UNCHANGED <<job, jobLock>>
        /\ \A q \in Procs : q # p => pc'[q] = pc[q]
    BY <1>2 DEF LockVM, AcquireVMLock, Goto, TypeOK
  <2>2. \A q \in Procs : q # NoProc
    BY ConstantsAssumption
  <2>3. QED BY <2>1, <2>2 DEF LocksOK
<1>3. CASE Ends(p)
  BY <1>3, EndLocks
<1>4. CASE DeployStep(p)
  <2>1. \/ Ends(p)
        \/ \E from, label \in VMHeld : Passes(from, label)
        \/ Passes("deploy_check", "lock_vm")
    BY <1>4 DEF DeployStep, DeployCheck, DeployQuota, MkdirVM, DeployDiskDir, DeployJournal,
       DeployMaterial, DeployDefine, DeployStart, DeployRunning, DeploySelect, DeployReturn,
       DeployFailed, Ends, locks
  <2>2. QED BY <1>3, <2>1, KeepLocks DEF Goto
<1>5. CASE DestroyStep(p)
  <2>1. \/ Ends(p)
        \/ \E from, label \in VMHeld : Passes(from, label)
    <3>1. CASE DestroyQuery(p)
      <4>1. vm[p] \in VMs
        BY <3>1 DEF DestroyQuery, CallsOK, CallOK, WithVM
      <4>2. domain[vm[p]] \in {"absent", "shut off", "running"}
        BY <4>1 DEF TypeOK
      <4>3. QED BY <3>1, <4>2 DEF DestroyQuery, Ends, locks
    <3>2. QED
      BY <1>5, <3>1 DEF DestroyStep, DestroyStop, DestroyUndefine, DestroyVerify,
         DestroyDisk, DestroyRecord, DestroySecrets, DestroyDeselect, Ends, locks
  <2>2. QED BY <1>3, <2>1, KeepLocks DEF Goto
<1>6. CASE Busy(p) \/ StatusRead(p)
  <2>1. Ends(p) \/ Passes("status_read", "lock_vm")
    BY <1>6 DEF Busy, StatusRead, Ends, locks
  <2>2. QED BY <1>3, <2>1, KeepLocks DEF Goto
<1>7. CASE PassStep(p)
  <2>1. CASE ReapNext(p)
    <3>1. /\ pc[p] = "reap_next" /\ UNCHANGED locks
          /\ job' = job \/ \E j : job' = [job EXCEPT ![p] = j]
      BY <2>1 DEF ReapNext
    <3>2. pc' = [pc EXCEPT ![p] = "lock_job"] \/ UNCHANGED pc
      BY <2>1 DEF ReapNext, Goto
    <3>3. pc = [pc EXCEPT ![p] = "reap_next"]
      BY <3>1 DEF TypeOK
    <3>4. \E label \in {"reap_next", "lock_job"} : pc' = [pc EXCEPT ![p] = label]
      BY <3>2, <3>3
    <3>5. QED BY <3>1, <3>4, KeepLocks
  <2>2. CASE CleanupNext(p)
    <3>1. pc[p] = "cleanup_next" /\ UNCHANGED <<job, locks>>
      BY <2>2 DEF CleanupNext
    <3>2. pc' = [pc EXCEPT ![p] = "lock_job"] \/ UNCHANGED pc
      BY <2>2 DEF CleanupNext, Goto
    <3>3. pc = [pc EXCEPT ![p] = "cleanup_next"]
      BY <3>1 DEF TypeOK
    <3>4. \E label \in {"cleanup_next", "lock_job"} : pc' = [pc EXCEPT ![p] = label]
      BY <3>2, <3>3
    <3>5. QED BY <3>1, <3>4, KeepLocks
  <2>3. CASE ReapDone(p) \/ CleanupExit(p)
    BY <1>3, <2>3 DEF ReapDone, CleanupExit, Ends
  <2>4. CASE CleanupDone(p)
    BY <2>4, KeepLocks DEF CleanupDone, Goto
  <2>5. QED BY <1>7, <2>1, <2>2, <2>3, <2>4 DEF PassStep
<1>8. QED BY <1>1, <1>2, <1>4, <1>5, <1>6, <1>7 DEF Step

LEMMA LocksOtherwise ==
  ASSUME TypeOK, LocksOK,
         \/ \E p \in Procs : DeployFails(p) \/ CallFails(p) \/ Crash(p)
         \/ \E v \in VMs : GuestOff(v) \/ Expire(v)
         \/ UNCHANGED vars
  PROVE  LocksOK'
<1>1. ASSUME NEW p \in Procs, DeployFails(p)
      PROVE  LocksOK'
  BY <1>1, KeepLocks DEF DeployFails, Goto, args, JobHeld, VMHeld, DeployTry, DestroyBody
<1>2. ASSUME NEW p \in Procs, CallFails(p) \/ Crash(p)
      PROVE  LocksOK'
  BY <1>2, EndLocks DEF CallFails, Crash, Ends
<1>3. CASE UNCHANGED <<pc, job, locks>>
  BY <1>3 DEF LocksOK, locks
<1>4. QED BY <1>1, <1>2, <1>3 DEF GuestOff, Expire, vars, args

LEMMA LocksNext == TypeOK /\ CallsOK /\ LocksOK /\ [Next]_vars => LocksOK'
BY LocksStart, LocksStep, LocksOtherwise DEF Next

LEMMA LocksInit == Init => LocksOK
<1>1. \A q \in Procs : q # NoProc
  BY ConstantsAssumption
<1>2. QED BY <1>1 DEF Init, LocksOK, JobHeld, VMHeld, DeployTry, DestroyBody

(* vm-global and each job's lock have one holder, the process that is past *)
(* taking it: a failure or a death never leaves one behind.                *)
THEOREM LocksAlwaysOK == Spec => []LocksOK
<1>1. Init => LocksOK
  BY LocksInit
<1>2. QED BY <1>1, LocksNext, TypeCorrect, CallsAlwaysOK, PTL DEF Spec

(* Locks are taken in one order and none is held while waiting for a job's.*)
THEOREM LockOrderHolds == Spec => []LockOrder
<1>1. TypeOK /\ CallsOK /\ LocksOK => LockOrder
  BY DEF LocksOK, LockOrder, CallsOK, CallOK, WithVM, JobHeld, VMHeld, DeployTry, DestroyBody
<1>2. QED BY <1>1, TypeCorrect, CallsAlwaysOK, LocksAlwaysOK, PTL

-----------------------------------------------------------------------------
(* The host: quota, journal and disks.                                     *)

(* While one process is past vm-global, no other is.                       *)
LEMMA OneHolder ==
  ASSUME LocksOK, NEW p \in Procs, pc[p] \in VMHeld, NEW q \in Procs, q # p
  PROVE  pc[q] \notin VMHeld
BY DEF LocksOK

(* HolderKnows says nothing of a process that does not hold vm-global.     *)
LEMMA NotHolder ==
  ASSUME NEW q \in Procs, pc[q] \notin VMHeld
  PROVE  HolderKnows(q)
BY DEF HolderKnows, VMHeld, Journaling, DeployTry, DestroyBody

LEMMA NotHolderNext ==
  ASSUME NEW q \in Procs, pc'[q] \notin VMHeld
  PROVE  HolderKnows(q)'
BY DEF HolderKnows, VMHeld, Journaling, DeployTry, DestroyBody

(* The files and the domains as HostOK sees them do not change.            *)
SameHost ==
  /\ UNCHANGED <<owner, record, diskDir>>
  /\ \A v \in VMs : domain'[v] = "absent" <=> domain[v] = "absent"

LEMMA SameHostKeeps ==
  ASSUME HostOK, SameHost
  PROVE  /\ QuotaHeld' /\ MachineIsCovered' /\ DestroyedIsClean'
         /\ Outstanding' = Outstanding
<1>1. Outstanding' = Outstanding /\ Destroyed' = Destroyed /\ Domains' = Domains
  BY DEF SameHost, Outstanding, Destroyed, Domains
<1>2. Destroyed \subseteq VMs
  BY DEF Destroyed
<1>3. QED BY <1>1, <1>2 DEF HostOK, SameHost, QuotaHeld, MachineIsCovered, DestroyedIsClean

(* Processes that do not step keep what they know.                         *)
LEMMA BystanderKnows ==
  ASSUME TypeOK, CallsOK, HostOK, SameHost, NEW q \in Procs, pc'[q] = pc[q], vm'[q] = vm[q]
  PROVE  HolderKnows(q)'
<1>1. CASE pc[q] \in VMHeld
  <2>1. vm[q] \in VMs
    BY <1>1 DEF CallsOK, CallOK, WithVM, JobHeld
  <2>2. Outstanding' = Outstanding
    BY SameHostKeeps
  <2>3. HolderKnows(q)
    BY DEF HostOK
  <2>4. QED BY <2>1, <2>2, <2>3 DEF HolderKnows, SameHost
<1>2. CASE pc[q] \notin VMHeld
  BY <1>2, NotHolderNext
<1>3. QED BY <1>1, <1>2

(* A step of p that leaves the host as it is.                              *)
LEMMA SameHostStep ==
  ASSUME TypeOK, CallsOK, HostOK, SameHost, NEW p \in Procs,
         \A q \in Procs : q # p => pc'[q] = pc[q] /\ vm'[q] = vm[q],
         pc'[p] \notin VMHeld \/ HolderKnows(p)'
  PROVE  HostOK'
BY SameHostKeeps, BystanderKnows, NotHolderNext DEF HostOK

(* A step of the holder of vm-global.                                      *)
LEMMA HolderStep ==
  ASSUME TypeOK, LocksOK, NEW p \in Procs, pc[p] \in VMHeld,
         \A q \in Procs : q # p => pc'[q] = pc[q],
         QuotaHeld', MachineIsCovered', DestroyedIsClean', HolderKnows(p)'
  PROVE  HostOK'
<1>1. ASSUME NEW q \in Procs, q # p PROVE HolderKnows(q)'
  BY <1>1, OneHolder, NotHolderNext
<1>2. QED BY <1>1 DEF HostOK

LEMMA EndHost ==
  ASSUME TypeOK, CallsOK, HostOK, SameHost, NEW p \in Procs, Ends(p)
  PROVE  HostOK'
<1>1. \E label \in {"idle", "reap_next", "cleanup_next"} :
        pc' = [pc EXCEPT ![p] = label] /\ vm' = [vm EXCEPT ![p] = NoVM]
  BY EndForms DEF Quit, BackTo, Goto
<1>2. pc'[p] \notin VMHeld
  BY <1>1 DEF TypeOK, VMHeld, DeployTry, DestroyBody
<1>3. \A q \in Procs : q # p => pc'[q] = pc[q] /\ vm'[q] = vm[q]
  BY <1>1 DEF TypeOK
<1>4. QED BY <1>2, <1>3, SameHostStep

LEMMA OutstandingFinite ==
  /\ IsFiniteSet(Outstanding) /\ Cardinality(Outstanding) \in Nat
  /\ \A T \in SUBSET Outstanding : Cardinality(T) <= Cardinality(Outstanding)
BY ConstantsAssumption, FS_Subset, FS_CardinalityType DEF Outstanding

LEMMA HostDeploy ==
  ASSUME TypeOK, CallsOK, LocksOK, HostOK, NEW p \in Procs, DeployStep(p) \/ DeployFails(p)
  PROVE  HostOK'
<1> USE DEF files, host, locks, args, pass
<1> DEFINE v == vm[p]
<1> DEFINE Advances(label) == pc' = [pc EXCEPT ![p] = label] /\ UNCHANGED vm
<1> DEFINE Others == \A q \in Procs : q # p => pc'[q] = pc[q] /\ vm'[q] = vm[q]
<1>1. ASSUME pc[p] \in VMHeld PROVE v \in VMs /\ job[p] \in Jobs
  BY <1>1 DEF CallsOK, CallOK, WithVM, JobHeld
<1>2. ASSUME NEW label, Advances(label)
      PROVE  Others /\ pc'[p] = label
  BY <1>2 DEF TypeOK
<1>3. HolderKnows(p) /\ QuotaHeld /\ MachineIsCovered /\ DestroyedIsClean /\ CallOK(p)
  BY DEF HostOK, CallsOK
<1>4. CASE DeployCheck(p) \/ DeployReturn(p)
  <2>1. SameHost
    BY <1>4 DEF DeployCheck, DeployReturn, SameHost
  <2>2. CASE Ends(p)
    BY <2>1, <2>2, EndHost
  <2>3. CASE Advances("lock_vm")
    <3>1. pc'[p] = "lock_vm" /\ Others
      BY <1>2, <2>3
    <3>2. pc'[p] \notin VMHeld
      BY <3>1 DEF VMHeld, DeployTry, DestroyBody
    <3>3. QED BY <2>1, <3>1, <3>2, SameHostStep
  <2>4. QED BY <1>4, <2>2, <2>3 DEF DeployCheck, DeployReturn, Ends, Goto
<1>5. CASE DeployQuota(p)
  <2>1. CASE Fail(p) /\ UNCHANGED owner
    <3>1. SameHost
      BY <1>5, <2>1 DEF DeployQuota, SameHost
    <3>2. QED BY <2>1, <3>1, EndHost DEF Ends
  <2>2. CASE MkdirVM(p) /\ Cardinality(Outstanding) < MaxVMs
    <3>1. /\ Advances("deploy_disk_dir") /\ UNCHANGED <<record, diskDir, domain>>
          /\ pc[p] = "deploy_quota"
          /\ owner' = [owner EXCEPT ![v] = job[p]]
      BY <1>5, <2>2 DEF DeployQuota, MkdirVM, Goto
    <3>2. pc[p] \in VMHeld
      BY <3>1 DEF VMHeld
    <3>3. owner[v] = NoJob /\ v \in VMs /\ job[p] \in Jobs
      BY <1>1, <1>3, <3>1, <3>2 DEF CallOK, Fresh, WithVM, JobHeld, BeforeFolder
    <3>4. record[v] = "none"
      BY <3>3 DEF CallsOK, RecordsHaveFolders
    <3>5. Outstanding' = Outstanding /\ Domains' = Domains /\ Destroyed' = Destroyed
      BY <3>1 DEF Outstanding, Domains, Destroyed
    <3>6. HolderKnows(p)'
      BY <1>2, <2>2, <3>1, <3>4, <3>5 DEF HolderKnows, Journaling, DeployTry, DestroyBody
    <3>7. MachineIsCovered'
      <4>1. job[p] # NoJob
        BY <3>3, ConstantsAssumption
      <4>2. \A w \in VMs : owner[w] # NoJob => owner'[w] # NoJob
        BY <3>1, <4>1 DEF TypeOK
      <4>3. Domains \subseteq VMs
        BY DEF Domains
      <4>4. QED BY <1>3, <3>1, <3>5, <4>2, <4>3 DEF MachineIsCovered
    <3>8. QuotaHeld' /\ DestroyedIsClean'
      BY <1>3, <3>1, <3>5 DEF QuotaHeld, DestroyedIsClean
    <3>9. QED BY <1>2, <3>1, <3>2, <3>6, <3>7, <3>8, HolderStep
  <2>3. QED BY <1>5, <2>1, <2>2 DEF DeployQuota
<1>6. CASE DeployDiskDir(p)
  <2>1. /\ pc[p] = "deploy_disk_dir" /\ Advances("deploy_journal")
        /\ diskDir' = diskDir \cup {v} /\ UNCHANGED <<owner, record, domain>>
    BY <1>6 DEF DeployDiskDir, Goto
  <2>2. pc[p] \in VMHeld /\ record[v] = "none" /\ Cardinality(Outstanding) < MaxVMs
    BY <1>3, <2>1 DEF VMHeld, HolderKnows, Journaling
  <2>3. Outstanding' = Outstanding /\ Domains' = Domains /\ Destroyed' = Destroyed
    BY <2>1 DEF Outstanding, Domains, Destroyed
  <2>4. HolderKnows(p)'
    BY <1>2, <2>1, <2>2, <2>3 DEF HolderKnows, Journaling, DeployTry, DestroyBody
  <2>5. QuotaHeld' /\ MachineIsCovered' /\ DestroyedIsClean'
    BY <1>3, <2>1, <2>2, <2>3 DEF QuotaHeld, MachineIsCovered, DestroyedIsClean, Destroyed
  <2>6. QED BY <1>2, <2>1, <2>2, <2>4, <2>5, HolderStep
<1>7. CASE DeployJournal(p)
  <2>1. /\ pc[p] = "deploy_journal" /\ Advances("deploy_material")
        /\ record' = [record EXCEPT ![v] = "PREPARING"] /\ UNCHANGED <<owner, diskDir, domain>>
    BY <1>7 DEF DeployJournal, Goto
  <2>2. /\ pc[p] \in VMHeld /\ record[v] = "none" /\ Cardinality(Outstanding) < MaxVMs
        /\ v \in diskDir
    BY <1>3, <2>1 DEF VMHeld, HolderKnows, Journaling
  <2>3. v \in VMs
    BY <1>1, <2>2
  <2>4. Outstanding' = Outstanding \cup {v}
    BY <2>1, <2>3 DEF Outstanding, TypeOK
  <2>5. Domains' = Domains /\ Destroyed' = Destroyed
    BY <2>1, <2>2, <2>3 DEF Domains, Destroyed, TypeOK
  <2>6. QuotaHeld'
    <3> DEFINE n == Cardinality(Outstanding)
               m == Cardinality(Outstanding \cup {v})
    <3>1. n \in Nat /\ MaxVMs \in Nat /\ n < MaxVMs
      BY <2>2, OutstandingFinite, ConstantsAssumption
    <3>2. m = n \/ m = n + 1
      BY OutstandingFinite, FS_AddElement
    <3>3. m <= MaxVMs
      <4> HIDE DEF n, m
      <4> QED BY <3>1, <3>2
    <3>4. QED BY <2>4, <3>3 DEF QuotaHeld
  <2>7. MachineIsCovered' /\ DestroyedIsClean'
    BY <1>3, <2>1, <2>4, <2>5 DEF MachineIsCovered, DestroyedIsClean
  <2>8. HolderKnows(p)'
    BY <1>2, <2>1, <2>2, <2>4 DEF HolderKnows, Journaling, DeployTry, DestroyBody
  <2>9. QED BY <1>2, <2>1, <2>2, <2>6, <2>7, <2>8, HolderStep
<1>8. CASE DeployMaterial(p) \/ DeploySelect(p) \/ DeployFails(p)
  <2>1. PICK label \in {"deploy_define", "deploy_return", "deploy_failed"} :
          Advances(label) /\ pc[p] \in DeployTry /\ SameHost
    BY <1>8 DEF DeployMaterial, DeploySelect, DeployFails, Goto, SameHost, DeployTry
  <2>2. HolderKnows(p)'
    BY <1>2, <1>3, <2>1, SameHostKeeps DEF HolderKnows, SameHost, Journaling, DeployTry, DestroyBody
  <2>3. QED BY <1>2, <2>1, <2>2, SameHostStep
<1>9. CASE DeployDefine(p) \/ DeployStart(p)
  <2>1. PICK label \in {"deploy_start", "deploy_running"}, s \in {"shut off", "running"} :
          /\ Advances(label) /\ pc[p] \in DeployTry
          /\ domain' = [domain EXCEPT ![v] = s] /\ UNCHANGED <<owner, record, diskDir>>
    BY <1>9 DEF DeployDefine, DeployStart, Goto, DeployTry
  <2>2. /\ pc[p] \in VMHeld /\ pc[p] \in WithVM /\ ~Fresh(p)
        /\ v \in Outstanding /\ v \in diskDir
    BY <1>3, <2>1 DEF VMHeld, JobHeld, WithVM, HolderKnows, Fresh, BeforeFolder, DeployTry
  <2>3. owner[v] # NoJob /\ v \in VMs
    BY <1>1, <1>3, <2>2, ConstantsAssumption DEF CallOK
  <2>4. Outstanding' = Outstanding /\ Destroyed' = Destroyed /\ Domains' = Domains \cup {v}
    BY <2>1, <2>3 DEF Outstanding, Destroyed, Domains, TypeOK
  <2>5. v \notin Destroyed
    BY <2>2 DEF Outstanding, Destroyed
  <2>6. QuotaHeld' /\ MachineIsCovered'
    BY <1>3, <2>1, <2>2, <2>3, <2>4 DEF QuotaHeld, MachineIsCovered
  <2>7. DestroyedIsClean'
    BY <1>3, <2>1, <2>4, <2>5 DEF DestroyedIsClean, Destroyed, TypeOK
  <2>8. HolderKnows(p)'
    BY <1>2, <2>1, <2>2, <2>4 DEF HolderKnows, Journaling, DeployTry, DestroyBody
  <2>9. QED BY <1>2, <2>1, <2>2, <2>6, <2>7, <2>8, HolderStep
<1>10. CASE DeployRunning(p) \/ DeployFailed(p)
  <2>1. PICK label \in {"deploy_select", "destroy_query"}, s \in {"RUNNING", "FAILED", record[v]} :
          /\ Advances(label)
          /\ \/ pc[p] = "deploy_running" /\ label = "deploy_select"
             \/ pc[p] = "deploy_failed" /\ label = "destroy_query"
          /\ record' = [record EXCEPT ![v] = s] /\ UNCHANGED <<owner, domain, diskDir>>
    BY <1>10 DEF DeployRunning, DeployFailed, Goto, TypeOK
  <2>2. pc[p] \in VMHeld /\ v \in Outstanding /\ v \in diskDir
    BY <1>3, <2>1 DEF VMHeld, HolderKnows, DeployTry
  <2>3. Outstanding' = Outstanding /\ Destroyed' = Destroyed /\ Domains' = Domains
    BY <2>1, <2>2 DEF Outstanding, Destroyed, Domains, TypeOK
  <2>4. QuotaHeld' /\ MachineIsCovered' /\ DestroyedIsClean'
    BY <1>3, <2>1, <2>3 DEF QuotaHeld, MachineIsCovered, DestroyedIsClean
  <2>5. HolderKnows(p)'
    BY <1>2, <2>1, <2>2, <2>3 DEF HolderKnows, Journaling, DeployTry, DestroyBody
  <2>6. QED BY <1>2, <2>1, <2>2, <2>4, <2>5, HolderStep
<1>11. QED BY <1>4, <1>5, <1>6, <1>7, <1>8, <1>9, <1>10 DEF DeployStep

LEMMA HostDestroy ==
  ASSUME TypeOK, CallsOK, LocksOK, HostOK, NEW p \in Procs, DestroyStep(p)
  PROVE  HostOK'
<1> USE DEF files, host, locks, args, pass
<1> DEFINE v == vm[p]
<1> DEFINE Advances(label) == pc' = [pc EXCEPT ![p] = label] /\ UNCHANGED vm
<1> DEFINE Others == \A q \in Procs : q # p => pc'[q] = pc[q] /\ vm'[q] = vm[q]
<1>1. pc[p] \in DestroyBody
  BY DEF DestroyStep, DestroyQuery, DestroyStop, DestroyUndefine, DestroyVerify, DestroyDisk,
         DestroyRecord, DestroySecrets, DestroyDeselect, DestroyBody
<1>2. pc[p] \in VMHeld /\ v \in VMs
  BY <1>1 DEF VMHeld, CallsOK, CallOK, WithVM, JobHeld
<1>3. ASSUME NEW label, Advances(label)
      PROVE  Others /\ pc'[p] = label /\ vm'[p] = v
  BY <1>3 DEF TypeOK
<1>4. HolderKnows(p) /\ QuotaHeld /\ MachineIsCovered /\ DestroyedIsClean
  BY DEF HostOK
<1>5. domain[v] \in {"absent", "shut off", "running"}
  BY <1>2 DEF TypeOK
<1>6. CASE Ends(p) /\ SameHost
  BY <1>6, EndHost
<1>7. CASE DestroyQuery(p)
  <2>1. SameHost
    BY <1>7 DEF DestroyQuery, SameHost
  <2>2. \/ Ends(p)
        \/ /\ record[v] # "none"
           /\ \E label \in {"destroy_verify", "destroy_undefine", "destroy_stop"} :
                 Advances(label)
    BY <1>5, <1>7 DEF DestroyQuery, Ends, Goto
  <2>3. ASSUME NEW label \in {"destroy_verify", "destroy_undefine", "destroy_stop"},
               Advances(label), record[v] # "none"
        PROVE  HostOK'
    <3>1. Others /\ pc'[p] = label /\ vm'[p] = v /\ record' = record
      BY <1>3, <2>1, <2>3 DEF SameHost
    <3>2. HolderKnows(p)'
      BY <2>3, <3>1 DEF HolderKnows, Journaling, DeployTry
    <3>3. QED BY <2>1, <3>1, <3>2, SameHostStep
  <2>4. QED BY <1>6, <2>1, <2>2, <2>3
<1>8. CASE DestroyVerify(p) \/ DestroySecrets(p) \/ DestroyDeselect(p)
  <2>1. SameHost
    BY <1>8 DEF DestroyVerify, DestroySecrets, DestroyDeselect, SameHost
  <2>2. \/ Ends(p)
        \/ pc[p] = "destroy_verify" /\ domain[v] = "absent" /\ Advances("destroy_disk")
        \/ pc[p] = "destroy_secrets" /\ Advances("destroy_deselect")
    BY <1>8 DEF DestroyVerify, DestroySecrets, DestroyDeselect, Ends, Goto
  <2>3. ASSUME NEW label \in {"destroy_disk", "destroy_deselect"}, Advances(label),
               label = "destroy_disk" => domain[v] = "absent",
               pc[p] \in {"destroy_verify", "destroy_secrets"}
        PROVE  HostOK'
    <3>1. /\ Others /\ pc'[p] = label /\ vm'[p] = v /\ record' = record
          /\ domain'[v] = "absent" <=> domain[v] = "absent"
      BY <1>2, <1>3, <2>1, <2>3 DEF SameHost
    <3>2. record[v] # "none"
      BY <1>4, <2>3 DEF HolderKnows, DestroyBody
    <3>3. HolderKnows(p)'
      BY <2>3, <3>1, <3>2 DEF HolderKnows, Journaling, DeployTry
    <3>4. QED BY <2>1, <3>1, <3>3, SameHostStep
  <2>4. QED BY <1>6, <2>1, <2>2, <2>3
<1>9. CASE DestroyStop(p)
  <2>1. SameHost
    BY <1>2, <1>9 DEF DestroyStop, SameHost, TypeOK
  <2>2. Ends(p) \/ (pc[p] = "destroy_stop" /\ Advances("destroy_undefine"))
    BY <1>9 DEF DestroyStop, Ends, Goto
  <2>3. ASSUME Advances("destroy_undefine"), pc[p] = "destroy_stop"
        PROVE  HostOK'
    <3>1. Others /\ pc'[p] = "destroy_undefine" /\ vm'[p] = v /\ record' = record
      BY <1>3, <2>1, <2>3 DEF SameHost
    <3>2. HolderKnows(p)'
      BY <1>4, <2>3, <3>1 DEF HolderKnows, Journaling, DeployTry, DestroyBody
    <3>3. QED BY <2>1, <3>1, <3>2, SameHostStep
  <2>4. QED BY <1>6, <2>1, <2>2, <2>3
<1>10. CASE DestroyUndefine(p)
  <2>1. /\ pc[p] = "destroy_undefine" /\ Advances("destroy_verify")
        /\ domain' = [domain EXCEPT ![v] = "absent"] /\ UNCHANGED <<owner, record, diskDir>>
    BY <1>10 DEF DestroyUndefine, Goto
  <2>2. /\ Outstanding' = Outstanding /\ Destroyed' = Destroyed
        /\ Domains' \subseteq Domains /\ Destroyed \subseteq VMs
    BY <2>1 DEF Outstanding, Destroyed, Domains, TypeOK
  <2>3. QuotaHeld' /\ MachineIsCovered'
    BY <1>4, <2>1, <2>2 DEF QuotaHeld, MachineIsCovered
  <2>4. DestroyedIsClean'
    BY <1>4, <2>1, <2>2 DEF DestroyedIsClean, TypeOK
  <2>5. pc'[p] = "destroy_verify" /\ vm'[p] = v /\ record'[v] # "none" /\ Others
    BY <1>3, <1>4, <2>1 DEF HolderKnows, DestroyBody
  <2>6. HolderKnows(p)'
    BY <2>5 DEF HolderKnows, Journaling, DeployTry
  <2>7. QED BY <1>2, <2>3, <2>4, <2>5, <2>6, HolderStep
<1>11. CASE DestroyDisk(p)
  <2>1. /\ pc[p] = "destroy_disk" /\ Advances("destroy_record")
        /\ diskDir' = diskDir \ {v} /\ UNCHANGED <<owner, record, domain>>
    BY <1>11 DEF DestroyDisk, Goto
  <2>2. domain[v] = "absent" /\ record[v] # "none"
    BY <1>4, <2>1 DEF HolderKnows, DestroyBody
  <2>3. /\ Outstanding' = Outstanding /\ Destroyed' = Destroyed /\ Domains' = Domains
        /\ v \notin Domains
    BY <2>1, <2>2 DEF Outstanding, Destroyed, Domains
  <2>4. QuotaHeld' /\ MachineIsCovered' /\ DestroyedIsClean'
    BY <1>4, <2>1, <2>3 DEF QuotaHeld, MachineIsCovered, DestroyedIsClean
  <2>5. /\ pc'[p] = "destroy_record" /\ vm'[p] = v /\ record'[v] # "none" /\ Others
        /\ domain'[v] = "absent" /\ v \notin diskDir'
    BY <1>3, <2>1, <2>2
  <2>6. HolderKnows(p)'
    BY <2>5 DEF HolderKnows, Journaling, DeployTry
  <2>7. QED BY <1>2, <2>4, <2>5, <2>6, HolderStep
<1>12. CASE DestroyRecord(p)
  <2>1. /\ pc[p] = "destroy_record" /\ Advances("destroy_secrets")
        /\ record' = [record EXCEPT ![v] = "DESTROYED"] /\ UNCHANGED <<owner, diskDir, domain>>
    BY <1>12 DEF DestroyRecord, Goto
  <2>2. domain[v] = "absent" /\ v \notin diskDir
    BY <1>4, <2>1 DEF HolderKnows
  <2>3. /\ Outstanding' = Outstanding \ {v} /\ Destroyed' = Destroyed \cup {v}
        /\ Domains' = Domains /\ v \notin Domains
    BY <1>2, <2>1, <2>2 DEF Outstanding, Destroyed, Domains, TypeOK
  <2>4. QuotaHeld'
    <3> DEFINE n == Cardinality(Outstanding)
               m == Cardinality(Outstanding \ {v})
    <3>1. m <= n /\ m \in Nat /\ n \in Nat
      <4>1. Outstanding \ {v} \in SUBSET Outstanding
        OBVIOUS
      <4>2. IsFiniteSet(Outstanding \ {v})
        BY <4>1, OutstandingFinite, FS_Subset
      <4>3. QED BY <4>1, <4>2, OutstandingFinite, FS_CardinalityType
    <3>2. n <= MaxVMs /\ MaxVMs \in Nat
      BY <1>4, ConstantsAssumption DEF QuotaHeld
    <3>3. m <= MaxVMs
      <4> HIDE DEF n, m
      <4> QED BY <3>1, <3>2
    <3>4. QED BY <2>3, <3>3 DEF QuotaHeld
  <2>5. MachineIsCovered' /\ DestroyedIsClean'
    BY <1>4, <2>1, <2>2, <2>3 DEF MachineIsCovered, DestroyedIsClean
  <2>6. pc'[p] = "destroy_secrets" /\ vm'[p] = v /\ record'[v] = "DESTROYED" /\ Others
    BY <1>2, <1>3, <2>1 DEF TypeOK
  <2>7. HolderKnows(p)'
    BY <2>6 DEF HolderKnows, Journaling, DeployTry
  <2>8. QED BY <1>2, <2>4, <2>5, <2>6, <2>7, HolderStep
<1>13. QED BY <1>7, <1>8, <1>9, <1>10, <1>11, <1>12 DEF DestroyStep

LEMMA HostStart ==
  ASSUME TypeOK, CallsOK, HostOK, NEW p \in Procs, Start(p)
  PROVE  HostOK'
<1>1. /\ \E label \in {"lock_job", "reap_next", "cleanup_next"} : pc' = [pc EXCEPT ![p] = label]
      /\ \E w : vm' = [vm EXCEPT ![p] = w]
      /\ SameHost
  BY DEF Start, StartDeploy, StartOnVM, StartReap, StartCleanup, Begin, Goto, SameHost,
         files, host
<1>2. pc'[p] \notin VMHeld
  BY <1>1 DEF TypeOK, VMHeld, DeployTry, DestroyBody
<1>3. \A q \in Procs : q # p => pc'[q] = pc[q] /\ vm'[q] = vm[q]
  BY <1>1 DEF TypeOK
<1>4. QED BY <1>1, <1>2, <1>3, SameHostStep

LEMMA HostLock ==
  ASSUME TypeOK, CallsOK, HostOK, NEW p \in Procs,
         LockJob(p) \/ LockVM(p) \/ Busy(p) \/ StatusRead(p)
  PROVE  HostOK'
<1> USE DEF files, host, args
<1> DEFINE Advances(label) == pc' = [pc EXCEPT ![p] = label] /\ UNCHANGED vm
<1>1. SameHost
  BY DEF LockJob, LockVM, Busy, StatusRead, SameHost
<1>2. \/ Ends(p)
      \/ \E label \in {"deploy_check", "status_read", "lock_vm", "deploy_quota", "destroy_query"} :
           Advances(label)
  BY DEF LockJob, LockVM, Busy, StatusRead, Ends, Goto
<1>3. ASSUME NEW label \in {"deploy_check", "status_read", "lock_vm", "deploy_quota",
                             "destroy_query"},
             Advances(label)
      PROVE  HostOK'
  <2>1. pc'[p] = label /\ \A q \in Procs : q # p => pc'[q] = pc[q] /\ vm'[q] = vm[q]
    BY <1>3 DEF TypeOK
  <2>2. HolderKnows(p)'
    BY <2>1 DEF HolderKnows, Journaling, DeployTry, DestroyBody
  <2>3. QED BY <1>1, <2>1, <2>2, SameHostStep
<1>4. QED BY <1>1, <1>2, <1>3, EndHost

LEMMA HostPass ==
  ASSUME TypeOK, CallsOK, HostOK, NEW p \in Procs, PassStep(p)
  PROVE  HostOK'
<1> USE DEF files, host, args
<1>1. SameHost
  BY DEF PassStep, ReapNext, ReapDone, CleanupNext, CleanupDone, CleanupExit, SameHost
<1>2. CASE ReapDone(p) \/ CleanupExit(p)
  BY <1>1, <1>2, EndHost DEF ReapDone, CleanupExit, Ends
<1>3. CASE ReapNext(p) \/ CleanupNext(p) \/ CleanupDone(p)
  <2>1. /\ \E label \in {"reap_next", "cleanup_next", "cleanup_report", "lock_job"} :
             pc' = [pc EXCEPT ![p] = label]
        /\ \/ vm' = vm
           \/ \E w \in VMs : vm' = [vm EXCEPT ![p] = w]
    <3>1. CASE ReapNext(p)
      <4>1. todo[p] \subseteq VMs /\ pc = [pc EXCEPT ![p] = pc[p]] /\ pc[p] = "reap_next"
        BY <3>1 DEF TypeOK, ReapNext
      <4>2. QED BY <3>1, <4>1 DEF ReapNext, Goto
    <3>2. CASE CleanupNext(p)
      <4>1. todo[p] \subseteq VMs /\ pc = [pc EXCEPT ![p] = pc[p]] /\ pc[p] = "cleanup_next"
        BY <3>2 DEF TypeOK, CleanupNext
      <4>2. QED BY <3>2, <4>1 DEF CleanupNext, Goto
    <3>3. QED BY <1>3, <3>1, <3>2 DEF CleanupDone, Goto
  <2>2. pc'[p] \notin VMHeld
    BY <2>1 DEF TypeOK, VMHeld, DeployTry, DestroyBody
  <2>3. \A q \in Procs : q # p => pc'[q] = pc[q] /\ vm'[q] = vm[q]
    BY <2>1 DEF TypeOK
  <2>4. QED BY <1>1, <2>2, <2>3, SameHostStep
<1>4. QED BY <1>2, <1>3 DEF PassStep

(* Failures outside deploy's try block, deaths, guests that power off, and *)
(* time.                                                                   *)
LEMMA HostOtherwise ==
  ASSUME TypeOK, CallsOK, HostOK,
         \/ \E p \in Procs : CallFails(p) \/ Crash(p)
         \/ \E v \in VMs : GuestOff(v) \/ Expire(v)
         \/ UNCHANGED vars
  PROVE  HostOK'
<1>1. SameHost
  BY DEF CallFails, Crash, GuestOff, Expire, vars, files, host, SameHost, TypeOK
<1>2. ASSUME NEW p \in Procs, CallFails(p) \/ Crash(p) PROVE HostOK'
  BY <1>1, <1>2, EndHost DEF CallFails, Crash, Ends
<1>3. CASE UNCHANGED <<pc, vm>>
  BY <1>1, <1>3, SameHostKeeps, BystanderKnows DEF HostOK
<1>4. QED BY <1>2, <1>3 DEF GuestOff, Expire, vars, args

LEMMA HostNext == TypeOK /\ CallsOK /\ LocksOK /\ HostOK /\ [Next]_vars => HostOK'
<1> SUFFICES ASSUME TypeOK, CallsOK, LocksOK, HostOK, [Next]_vars PROVE HostOK'
  OBVIOUS
<1>1. ASSUME NEW p \in Procs, Start(p) \/ Step(p) PROVE HostOK'
  BY <1>1, HostStart, HostLock, HostDeploy, HostDestroy, HostPass DEF Step
<1>2. ASSUME NEW p \in Procs, DeployFails(p) PROVE HostOK'
  BY <1>2, HostDeploy
<1>3. QED BY <1>1, <1>2, HostOtherwise DEF Next

LEMMA HostInit == Init => HostOK
<1> SUFFICES ASSUME Init PROVE HostOK
  OBVIOUS
<1>1. Outstanding = {} /\ Domains = {} /\ Destroyed = {}
  BY DEF Init, Outstanding, Domains, Destroyed
<1>2. QuotaHeld
  BY <1>1, FS_EmptySet, ConstantsAssumption DEF QuotaHeld
<1>3. \A p \in Procs : pc[p] = "idle"
  BY DEF Init
<1>4. QED BY <1>1, <1>2, <1>3
          DEF HostOK, MachineIsCovered, DestroyedIsClean, HolderKnows, Journaling, DeployTry,
              DestroyBody

(* The inductive invariant as a whole: what each file says of the host,    *)
(* with what the process between two steps knows of it.                    *)
THEOREM InductiveHolds == Spec => []Inductive
<1>1. Init => HostOK
  BY HostInit
<1>2. Spec => []HostOK
  BY <1>1, HostNext, TypeCorrect, CallsAlwaysOK, LocksAlwaysOK, PTL DEF Spec
<1>3. TypeOK /\ CallsOK /\ LocksOK /\ HostOK => Inductive
  BY DEF Inductive
<1>4. QED BY <1>2, <1>3, TypeCorrect, CallsAlwaysOK, LocksAlwaysOK, PTL

(* deploy's count-then-reserve never passes MAX_VMS, whatever the number   *)
(* of jobs, callers and deaths (vm.py:195-197).                            *)
THEOREM QuotaAlwaysHeld == Spec => []QuotaHeld
<1>1. Inductive => QuotaHeld
  BY DEF Inductive, HostOK
<1>2. QED BY <1>1, InductiveHolds, PTL

(* Every domain libvirt knows has a record that reap and cleanup act on,   *)
(* and its disk, whatever step a process died in (vm.py:214).              *)
THEOREM MachineAlwaysCovered == Spec => []MachineIsCovered
<1>1. Inductive => MachineIsCovered
  BY DEF Inductive, HostOK
<1>2. QED BY <1>1, InductiveHolds, PTL

(* A record says DESTROYED only of a VM without a domain and a disk.       *)
THEOREM DestroyedAlwaysClean == Spec => []DestroyedIsClean
<1>1. Inductive => DestroyedIsClean
  BY DEF Inductive, HostOK
<1>2. QED BY <1>1, InductiveHolds, PTL

-----------------------------------------------------------------------------
(* Who writes, and what the ledger sees of it.                             *)

(* A step that no other VM's files or domain notice.                       *)
WritesOnly(w) ==
  /\ record' = record \/ \E s : record' = [record EXCEPT ![w] = s]
  /\ diskDir' \in {diskDir, diskDir \cup {w}, diskDir \ {w}}
  /\ secrets' \in {secrets, secrets \cup {w}, secrets \ {w}}
  /\ domain' = domain \/ \E s : domain' = [domain EXCEPT ![w] = s]

LEMMA TouchesOne ==
  ASSUME TypeOK, NEW w \in VMs, WritesOnly(w), NEW v \in VMs, Touched(v)
  PROVE  v = w
<1> SUFFICES ASSUME v # w PROVE FALSE
  OBVIOUS
<1>1. record'[v] = record[v] /\ domain'[v] = domain[v]
  BY DEF WritesOnly, TypeOK
<1>2. (v \in diskDir' <=> v \in diskDir) /\ (v \in secrets' <=> v \in secrets)
  BY DEF WritesOnly
<1>3. QED BY <1>1, <1>2 DEF Touched

(* The steps that leave records, directories, keys and domains alone.      *)
LEMMA Untouched ==
  ASSUME UNCHANGED <<record, diskDir, secrets>>,
         \A v \in VMs : domain'[v] = "absent" <=> domain[v] = "absent"
  PROVE  \A v \in VMs : ~Touched(v)
BY DEF Touched

LEMMA Writer ==
  ASSUME TypeOK, CallsOK, [Next]_vars, NEW v \in VMs, Touched(v)
  PROVE  \E p \in Procs : pc[p] \in VMHeld \ BeforeFolder /\ vm[p] = v
<1> USE DEF files, host
<1> DEFINE Quiescent == /\ UNCHANGED <<record, diskDir, secrets>>
                        /\ \A w \in VMs : domain'[w] = "absent" <=> domain[w] = "absent"
<1>1. ASSUME NEW p \in Procs, pc[p] \in VMHeld \ BeforeFolder, WritesOnly(vm[p])
      PROVE  vm[p] = v
  <2>1. vm[p] \in VMs
    BY <1>1 DEF CallsOK, CallOK, WithVM, JobHeld
  <2>2. QED BY <1>1, <2>1, TouchesOne
<1>2. CASE Quiescent
  BY <1>2, Untouched
<1>3. ASSUME NEW p \in Procs, Start(p) PROVE Quiescent
  BY <1>3 DEF Start, StartDeploy, StartOnVM, StartReap, StartCleanup
<1>4. ASSUME NEW p \in Procs, LockJob(p) \/ LockVM(p) \/ Busy(p) \/ StatusRead(p)
      PROVE  Quiescent
  BY <1>4 DEF LockJob, LockVM, Busy, StatusRead
<1>5. ASSUME NEW p \in Procs, DeployStep(p) \/ DeployFails(p)
      PROVE  Quiescent \/ (pc[p] \in VMHeld \ BeforeFolder /\ WritesOnly(vm[p]))
  <2>1. CASE DeployCheck(p) \/ DeployQuota(p) \/ DeploySelect(p) \/ DeployReturn(p)
    BY <2>1 DEF DeployCheck, DeployQuota, DeploySelect, DeployReturn
  <2>2. CASE \/ DeployDiskDir(p) \/ DeployJournal(p) \/ DeployMaterial(p) \/ DeployDefine(p)
             \/ DeployStart(p) \/ DeployRunning(p) \/ DeployFailed(p) \/ DeployFails(p)
    <3>1. pc[p] \in {"deploy_disk_dir", "deploy_journal", "deploy_failed"} \cup DeployTry
      BY <2>2 DEF DeployDiskDir, DeployJournal, DeployMaterial, DeployDefine, DeployStart,
                  DeployRunning, DeployFailed, DeployFails, DeployTry
    <3>2. pc[p] \in VMHeld \ BeforeFolder
      BY <3>1 DEF VMHeld, BeforeFolder, DeployTry
    <3>3. WritesOnly(vm[p])
      BY <2>2 DEF DeployDiskDir, DeployJournal, DeployMaterial, DeployDefine, DeployStart,
                  DeployRunning, DeployFailed, DeployFails, WritesOnly
    <3>4. QED BY <3>2, <3>3
  <2>3. QED BY <1>5, <2>1, <2>2 DEF DeployStep
<1>6. ASSUME NEW p \in Procs, DestroyStep(p)
      PROVE  pc[p] \in VMHeld \ BeforeFolder /\ WritesOnly(vm[p])
  <2>1. pc[p] \in DestroyBody
    BY <1>6 DEF DestroyStep, DestroyQuery, DestroyStop, DestroyUndefine, DestroyVerify,
                DestroyDisk, DestroyRecord, DestroySecrets, DestroyDeselect, DestroyBody
  <2>2. pc[p] \in VMHeld \ BeforeFolder
    BY <2>1 DEF VMHeld, BeforeFolder, DestroyBody
  <2>3. WritesOnly(vm[p])
    BY <1>6 DEF DestroyStep, DestroyQuery, DestroyStop, DestroyUndefine, DestroyVerify,
                DestroyDisk, DestroyRecord, DestroySecrets, DestroyDeselect, WritesOnly
  <2>4. QED BY <2>2, <2>3
<1>7. ASSUME NEW p \in Procs, PassStep(p) \/ CallFails(p) \/ Crash(p) PROVE Quiescent
  BY <1>7 DEF PassStep, ReapNext, ReapDone, CleanupNext, CleanupDone, CleanupExit,
              CallFails, Crash
<1>8. ASSUME NEW w \in VMs, GuestOff(w) \/ Expire(w) PROVE Quiescent
  BY <1>8 DEF GuestOff, Expire, TypeOK
<1>9. ASSUME UNCHANGED vars PROVE Quiescent
  BY <1>9 DEF vars
<1>10. QED BY <1>1, <1>2, <1>3, <1>4, <1>5, <1>6, <1>7, <1>8, <1>9 DEF Next, Step

(* A VM's record, disk, keys and domain change only while one process      *)
(* holds both its job's lock and vm-global (architecture.md:45-46), for    *)
(* any number of callers and with passes over every job among them.        *)
THEOREM WritesAlwaysLocked == Spec => WritesHoldBothLocks
<1>1. ASSUME TypeOK, CallsOK, LocksOK, [Next]_vars, NEW v \in VMs, Touched(v)
      PROVE  \E p \in Procs : vmLock = p /\ jobLock[owner[v]] = p
  <2>1. PICK p \in Procs : pc[p] \in VMHeld \ BeforeFolder /\ vm[p] = v
    BY <1>1, Writer
  <2>2. pc[p] \in WithVM /\ pc[p] \in JobHeld /\ ~Fresh(p)
    BY <2>1 DEF WithVM, JobHeld, Fresh
  <2>3. owner[v] = job[p] /\ job[p] \in Jobs
    BY <1>1, <2>1, <2>2 DEF CallsOK, CallOK
  <2>4. vmLock = p /\ jobLock[owner[v]] = p
    BY <1>1, <2>1, <2>2, <2>3 DEF LocksOK
  <2>5. QED BY <2>4
<1>2. TypeOK /\ CallsOK /\ LocksOK /\ [Next]_vars =>
        [\A v \in VMs : Touched(v) =>
           \E p \in Procs : vmLock = p /\ jobLock[owner[v]] = p]_vars
  BY <1>1
<1>3. QED BY <1>2, TypeCorrect, CallsAlwaysOK, LocksAlwaysOK, PTL DEF Spec, WritesHoldBothLocks

(* What the ledger sees of a step.                                         *)
SameLedger == UNCHANGED <<Outstanding, Domains, Destroyed>>

LEMMA LedgerStutters ==
  ASSUME UNCHANGED record, \A v \in VMs : domain'[v] = "absent" <=> domain[v] = "absent"
  PROVE  SameLedger
BY DEF SameLedger, Outstanding, Domains, Destroyed

LEMMA LedgerDeploy ==
  ASSUME Inductive, NEW p \in Procs, DeployStep(p) \/ DeployFails(p)
  PROVE  SameLedger \/ Ledger!LedgerNext
<1> USE DEF files, host
<1> DEFINE v == vm[p]
<1>1. TypeOK /\ HolderKnows(p) /\ MachineIsCovered
  BY DEF Inductive, HostOK
<1>2. pc[p] \in VMHeld => v \in VMs
  BY DEF Inductive, CallsOK, CallOK, WithVM, JobHeld
<1>3. CASE DeployJournal(p)
  <2>1. /\ pc[p] = "deploy_journal" /\ UNCHANGED domain
        /\ record' = [record EXCEPT ![v] = "PREPARING"]
    BY <1>3 DEF DeployJournal
  <2>2. v \in VMs /\ record[v] = "none" /\ Cardinality(Outstanding) < MaxVMs
    BY <1>1, <1>2, <2>1 DEF VMHeld, HolderKnows, Journaling
  <2>3. /\ Outstanding' = Outstanding \cup {v} /\ v \notin Outstanding \cup Destroyed
        /\ Domains' = Domains /\ Destroyed' = Destroyed
    BY <1>1, <2>1, <2>2 DEF Outstanding, Domains, Destroyed, TypeOK
  <2>4. Ledger!Reserve(v)
    <3>1. Ledger!Cardinality(Outstanding) = Cardinality(Outstanding)
      BY DEF Ledger!Cardinality, Cardinality
    <3>2. QED BY <2>2, <2>3, <3>1 DEF Ledger!Reserve
  <2>5. QED BY <2>2, <2>4 DEF Ledger!LedgerNext
<1>4. CASE DeployDefine(p) \/ DeployStart(p)
  <2>1. /\ pc[p] \in DeployTry /\ UNCHANGED record
        /\ \E s \in {"shut off", "running"} : domain' = [domain EXCEPT ![v] = s]
    BY <1>4 DEF DeployDefine, DeployStart, DeployTry
  <2>2. v \in VMs /\ v \in Outstanding
    BY <1>1, <1>2, <2>1 DEF VMHeld, HolderKnows
  <2>3. /\ Domains' = Domains \cup {v} /\ Outstanding' = Outstanding
        /\ Destroyed' = Destroyed
    <3>1. Outstanding' = Outstanding /\ Destroyed' = Destroyed
      BY <2>1 DEF Outstanding, Destroyed
    <3>2. /\ domain'[v] # "absent"
          /\ \A w \in VMs : w # v => domain'[w] = domain[w]
      BY <1>1, <2>1, <2>2 DEF TypeOK
    <3>3. QED BY <2>2, <3>1, <3>2 DEF Domains
  <2>4. Ledger!Create(v)
    BY <2>2, <2>3 DEF Ledger!Create
  <2>5. QED BY <2>2, <2>4 DEF Ledger!LedgerNext
<1>5. CASE DeployRunning(p) \/ DeployFailed(p)
  <2>1. /\ pc[p] \in {"deploy_running", "deploy_failed"} /\ UNCHANGED domain
        /\ \/ UNCHANGED record
           \/ \E s \in {"RUNNING", "FAILED"} : record' = [record EXCEPT ![v] = s]
    BY <1>5 DEF DeployRunning, DeployFailed
  <2>2. v \in VMs /\ v \in Outstanding
    BY <1>1, <1>2, <2>1 DEF VMHeld, HolderKnows, DeployTry
  <2>3. SameLedger
    <3>1. \A w \in VMs : w # v => record'[w] = record[w]
      BY <1>1, <2>1 DEF TypeOK
    <3>2. record'[v] \notin {"none", "DESTROYED"} /\ record[v] \notin {"none", "DESTROYED"}
      BY <1>1, <2>1, <2>2 DEF Outstanding, TypeOK
    <3>3. QED BY <2>1, <3>1, <3>2 DEF SameLedger, Outstanding, Domains, Destroyed
  <2>4. QED BY <2>3
<1>6. CASE \/ DeployCheck(p) \/ DeployQuota(p) \/ DeployDiskDir(p) \/ DeployMaterial(p)
           \/ DeploySelect(p) \/ DeployReturn(p) \/ DeployFails(p)
  <2>1. UNCHANGED <<record, domain>>
    BY <1>6 DEF DeployCheck, DeployQuota, DeployDiskDir, DeployMaterial, DeploySelect,
                DeployReturn, DeployFails
  <2>2. QED BY <2>1, LedgerStutters
<1>7. QED BY <1>3, <1>4, <1>5, <1>6 DEF DeployStep

LEMMA LedgerDestroy ==
  ASSUME Inductive, NEW p \in Procs, DestroyStep(p)
  PROVE  SameLedger \/ Ledger!LedgerNext
<1> USE DEF files, host
<1> DEFINE v == vm[p]
<1>1. TypeOK /\ HolderKnows(p) /\ MachineIsCovered
  BY DEF Inductive, HostOK
<1>2. pc[p] \in VMHeld => v \in VMs
  BY DEF Inductive, CallsOK, CallOK, WithVM, JobHeld
<1>3. CASE DestroyUndefine(p)
  <2>1. /\ pc[p] = "destroy_undefine" /\ UNCHANGED record
        /\ domain' = [domain EXCEPT ![v] = "absent"]
    BY <1>3 DEF DestroyUndefine
  <2>2. v \in VMs
    BY <1>2, <2>1 DEF VMHeld, DestroyBody
  <2>3. /\ Domains' = Domains \ {v} /\ Outstanding' = Outstanding
        /\ Destroyed' = Destroyed
    BY <1>1, <2>1, <2>2 DEF Outstanding, Domains, Destroyed, TypeOK
  <2>4. CASE v \in Domains
    <3>1. Ledger!Remove(v)
      BY <1>1, <2>3, <2>4 DEF Ledger!Remove, MachineIsCovered
    <3>2. QED BY <2>2, <3>1 DEF Ledger!LedgerNext
  <2>5. CASE v \notin Domains
    BY <2>3, <2>5 DEF SameLedger
  <2>6. QED BY <2>4, <2>5
<1>4. CASE DestroyRecord(p)
  <2>1. /\ pc[p] = "destroy_record" /\ UNCHANGED domain
        /\ record' = [record EXCEPT ![v] = "DESTROYED"]
    BY <1>4 DEF DestroyRecord
  <2>2. v \in VMs /\ domain[v] = "absent" /\ record[v] # "none"
    BY <1>1, <1>2, <2>1 DEF VMHeld, DestroyBody, HolderKnows
  <2>3. /\ Outstanding' = Outstanding \ {v} /\ Destroyed' = Destroyed \cup {v}
        /\ Domains' = Domains /\ v \notin Domains
    BY <1>1, <2>1, <2>2 DEF Outstanding, Domains, Destroyed, TypeOK
  <2>4. CASE v \in Outstanding
    <3>1. Ledger!Retire(v)
      BY <2>3, <2>4 DEF Ledger!Retire
    <3>2. QED BY <2>2, <3>1 DEF Ledger!LedgerNext
  <2>5. CASE v \notin Outstanding
    <3>1. v \in Destroyed
      BY <2>2, <2>5 DEF Outstanding, Destroyed
    <3>2. QED BY <2>3, <2>5, <3>1 DEF SameLedger
  <2>6. QED BY <2>4, <2>5
<1>5. CASE DestroyStop(p)
  <2>1. UNCHANGED record /\ \A w \in VMs : domain'[w] = "absent" <=> domain[w] = "absent"
    BY <1>1, <1>5 DEF DestroyStop, TypeOK
  <2>2. QED BY <2>1, LedgerStutters
<1>6. CASE \/ DestroyQuery(p) \/ DestroyVerify(p) \/ DestroyDisk(p) \/ DestroySecrets(p)
           \/ DestroyDeselect(p)
  <2>1. UNCHANGED <<record, domain>>
    BY <1>6 DEF DestroyQuery, DestroyVerify, DestroyDisk, DestroySecrets, DestroyDeselect
  <2>2. QED BY <2>1, LedgerStutters
<1>7. QED BY <1>3, <1>4, <1>5, <1>6 DEF DestroyStep

LEMMA LedgerOtherwise ==
  ASSUME TypeOK,
         \/ \E p \in Procs : \/ Start(p) \/ LockJob(p) \/ LockVM(p) \/ Busy(p) \/ StatusRead(p)
                            \/ PassStep(p) \/ CallFails(p) \/ Crash(p)
         \/ \E v \in VMs : GuestOff(v) \/ Expire(v)
         \/ UNCHANGED vars
  PROVE  SameLedger
<1> USE DEF files, host
<1>1. UNCHANGED record
  BY ZenonT(40)
     DEF Start, StartDeploy, StartOnVM, StartReap, StartCleanup, LockJob, LockVM, Busy,
         StatusRead, PassStep, ReapNext, ReapDone, CleanupNext, CleanupDone, CleanupExit,
         CallFails, Crash, GuestOff, Expire, vars
<1>2. \A w \in VMs : domain'[w] = "absent" <=> domain[w] = "absent"
  <2>1. ASSUME NEW v \in VMs, GuestOff(v)
        PROVE  \A w \in VMs : domain'[w] = "absent" <=> domain[w] = "absent"
    BY <2>1 DEF GuestOff, TypeOK
  <2>2. QED
    BY <2>1 DEF Start, StartDeploy, StartOnVM, StartReap, StartCleanup, LockJob, LockVM, Busy,
         StatusRead, PassStep, ReapNext, ReapDone, CleanupNext, CleanupDone, CleanupExit,
         CallFails, Crash, Expire, vars
<1>3. QED BY <1>1, <1>2, LedgerStutters

(* Whatever its processes do and however they die, to the rest of the host *)
(* the broker is the ledger: it reserves under the quota, creates machines *)
(* for reservations alone, and retires a VM for good once it is gone.      *)
THEOREM LedgerImplemented == Spec => ImplementsLedger
<1>1. Init => Ledger!LedgerInit
  BY DEF Init, Ledger!LedgerInit, Outstanding, Domains, Destroyed
<1>2. Inductive /\ [Next]_vars => [Ledger!LedgerNext]_(Ledger!ledgerVars)
  <2> SUFFICES ASSUME Inductive, [Next]_vars PROVE SameLedger \/ Ledger!LedgerNext
    BY DEF SameLedger, Ledger!ledgerVars
  <2>1. TypeOK
    BY DEF Inductive
  <2>2. QED BY <2>1, LedgerDeploy, LedgerDestroy, LedgerOtherwise DEF Next, Step
<1>3. QED BY <1>1, <1>2, InductiveHolds, PTL DEF Spec, ImplementsLedger, Ledger!LedgerSpec
-----------------------------------------------------------------------------
(* The selected VM, and what a cleanup reports.                            *)

CleanupLabels == {"cleanup_next", "cleanup_report", "lock_job", "lock_vm"} \cup DestroyBody

(* The VMs a cleanup has come past are DESTROYED, but for the one in work; *)
(* a deployment selects what it has recorded as RUNNING.                   *)
PassOK(p) ==
  /\ call[p] = "cleanup" => pc[p] \in CleanupLabels
  /\ pc[p] = "cleanup_report" => call[p] = "cleanup" /\ todo[p] = {}
  /\ pc[p] \in {"destroy_secrets", "destroy_deselect"} => record[vm[p]] = "DESTROYED"
  /\ pc[p] = "deploy_select" => record[vm[p]] = "RUNNING"
  /\ call[p] = "cleanup" /\ ~someFailed[p] =>
       \A v \in listed[p] \ todo[p] : v = vm[p] \/ record[v] = "DESTROYED"

PassesOK == SelectedVMWasBooted /\ \A p \in Procs : PassOK(p)

(* What a step of one process does to records, folders and the rest.       *)
RecordsOnlyClose ==
  \A v \in VMs :
    /\ record[v] = "DESTROYED" => record'[v] = "DESTROYED"
    /\ record[v] \notin {"none", "PREPARING"} => record'[v] \notin {"none", "PREPARING"}

FoldersStay == \A v \in VMs : owner[v] # NoJob => owner'[v] = owner[v]

LEMMA RecordSteps ==
  ASSUME Inductive, NEW p \in Procs,
         Start(p) \/ Step(p) \/ DeployFails(p) \/ CallFails(p) \/ Crash(p)
  PROVE  RecordsOnlyClose /\ (record' = record \/ pc[p] \in VMHeld)
<1> USE DEF files, host
<1> DEFINE v == vm[p]
<1>1. TypeOK /\ HolderKnows(p)
  BY DEF Inductive, HostOK
<1>2. pc[p] \in VMHeld => v \in VMs
  BY DEF Inductive, CallsOK, CallOK, WithVM, JobHeld
<1>3. ASSUME NEW s \in {"RUNNING", "FAILED", "DESTROYED"}, pc[p] \in VMHeld,
             record' = [record EXCEPT ![v] = s],
             s # "DESTROYED" => record[v] # "DESTROYED"
      PROVE  RecordsOnlyClose /\ (record' = record \/ pc[p] \in VMHeld)
  BY <1>1, <1>2, <1>3 DEF RecordsOnlyClose, TypeOK
<1>4. CASE DeployJournal(p)
  <2>1. pc[p] = "deploy_journal" /\ record' = [record EXCEPT ![v] = "PREPARING"]
    BY <1>4 DEF DeployJournal
  <2>2. pc[p] \in VMHeld /\ record[v] = "none"
    BY <1>1, <2>1 DEF VMHeld, HolderKnows, Journaling
  <2>3. QED BY <1>1, <1>2, <2>1, <2>2 DEF RecordsOnlyClose, TypeOK
<1>5. CASE DeployRunning(p) \/ DeployFailed(p)
  <2>1. /\ pc[p] \in {"deploy_running", "deploy_failed"}
        /\ \/ record' = record
           \/ \E s \in {"RUNNING", "FAILED"} : record' = [record EXCEPT ![v] = s]
    BY <1>5 DEF DeployRunning, DeployFailed
  <2>2. pc[p] \in VMHeld /\ v \in Outstanding
    BY <1>1, <2>1 DEF VMHeld, HolderKnows, DeployTry
  <2>3. CASE record' = record
    BY <2>3 DEF RecordsOnlyClose
  <2>4. CASE \E s \in {"RUNNING", "FAILED"} : record' = [record EXCEPT ![v] = s]
    BY <1>3, <2>2, <2>4 DEF Outstanding
  <2>5. QED BY <2>1, <2>3, <2>4
<1>6. CASE DestroyRecord(p)
  BY <1>3, <1>6 DEF DestroyRecord, VMHeld, DestroyBody
<1>7. CASE record' = record
  BY <1>7 DEF RecordsOnlyClose
<1>8. \/ record' = record
      \/ DeployJournal(p) \/ DeployRunning(p) \/ DeployFailed(p) \/ DestroyRecord(p)
  BY DEF Start, StartDeploy, StartOnVM, StartReap, StartCleanup,
         Step, LockJob, LockVM, Busy, StatusRead,
         DeployStep, DeployCheck, DeployQuota, DeployDiskDir, DeployMaterial, DeployDefine,
         DeployStart, DeploySelect, DeployReturn,
         DestroyStep, DestroyQuery, DestroyStop, DestroyUndefine, DestroyVerify, DestroyDisk,
         DestroySecrets, DestroyDeselect,
         PassStep, ReapNext, ReapDone, CleanupNext, CleanupDone, CleanupExit,
         DeployFails, CallFails, Crash
<1>9. QED BY <1>4, <1>5, <1>6, <1>7, <1>8

LEMMA FolderSteps ==
  ASSUME Inductive, NEW p \in Procs,
         Start(p) \/ Step(p) \/ DeployFails(p) \/ CallFails(p) \/ Crash(p)
  PROVE  FoldersStay
<1> USE DEF files, host
<1>1. TypeOK /\ CallOK(p)
  BY DEF Inductive, CallsOK
<1>2. CASE DeployQuota(p) /\ MkdirVM(p)
  <2>1. pc[p] = "deploy_quota" /\ owner' = [owner EXCEPT ![vm[p]] = job[p]]
    BY <1>2 DEF DeployQuota, MkdirVM
  <2>2. owner[vm[p]] = NoJob
    BY <1>1, <2>1 DEF CallOK, Fresh, WithVM, JobHeld, VMHeld, BeforeFolder
  <2>3. QED BY <1>1, <2>1, <2>2 DEF FoldersStay, TypeOK
<1>3. CASE owner' = owner
  BY <1>3 DEF FoldersStay
<1>4. owner' = owner \/ (DeployQuota(p) /\ MkdirVM(p))
  BY DEF Start, StartDeploy, StartOnVM, StartReap, StartCleanup,
         Step, LockJob, LockVM, Busy, StatusRead,
         DeployStep, DeployCheck, DeployQuota, DeployDiskDir, DeployJournal, DeployMaterial,
         DeployDefine, DeployStart, DeployRunning, DeploySelect, DeployReturn, DeployFailed,
         DestroyStep, DestroyQuery, DestroyStop, DestroyUndefine, DestroyVerify, DestroyDisk,
         DestroyRecord, DestroySecrets, DestroyDeselect,
         PassStep, ReapNext, ReapDone, CleanupNext, CleanupDone, CleanupExit,
         DeployFails, CallFails, Crash
<1>5. QED BY <1>2, <1>3, <1>4

(* A VM's folder never passes to another job, and a record never goes back *)
(* before its start or out of DESTROYED, whoever rewrites it: what a pass  *)
(* read of a VM without a lock, and skipped, stays true.                   *)
THEOREM RecordsNeverReopen == Spec => [][RecordsOnlyClose /\ FoldersStay]_vars
<1>1. Inductive /\ [Next]_vars => [RecordsOnlyClose /\ FoldersStay]_vars
  <2>1. ASSUME UNCHANGED <<record, owner>> PROVE RecordsOnlyClose /\ FoldersStay
    BY <2>1 DEF RecordsOnlyClose, FoldersStay
  <2>2. QED BY <2>1, RecordSteps, FolderSteps DEF Next, GuestOff, Expire, files
<1>2. QED BY <1>1, InductiveHolds, PTL DEF Spec

LEMMA SelectionSteps ==
  ASSUME Inductive, PassesOK, NEW p \in Procs,
         Start(p) \/ Step(p) \/ DeployFails(p) \/ CallFails(p) \/ Crash(p)
  PROVE  SelectedVMWasBooted'
<1> USE DEF files, host
<1>1. /\ TypeOK /\ CallOK(p) /\ PassOK(p) /\ SelectedVMWasBooted
      /\ RecordsOnlyClose /\ FoldersStay
  BY RecordSteps, FolderSteps DEF Inductive, CallsOK, PassesOK
<1>2. ASSUME \A j \in Jobs : currentVM'[j] \in {currentVM[j], NoVM}
      PROVE  SelectedVMWasBooted'
  <2>1. SUFFICES ASSUME NEW j \in Jobs, currentVM'[j] # NoVM
                 PROVE  /\ owner'[currentVM'[j]] = j
                        /\ record'[currentVM'[j]] \notin {"none", "PREPARING"}
    BY DEF SelectedVMWasBooted
  <2>2. PICK v \in VMs : v = currentVM[j] /\ v = currentVM'[j]
    BY <1>1, <1>2, <2>1 DEF TypeOK
  <2>3. owner[v] = j /\ record[v] \notin {"none", "PREPARING"} /\ j # NoJob
    BY <1>1, <2>1, <2>2, ConstantsAssumption DEF SelectedVMWasBooted
  <2>4. owner'[v] = j /\ record'[v] \notin {"none", "PREPARING"}
    BY <1>1, <2>3 DEF FoldersStay, RecordsOnlyClose
  <2>5. QED BY <2>2, <2>4
<1>3. CASE DeploySelect(p)
  <2>1. /\ pc[p] = "deploy_select" /\ UNCHANGED <<owner, record>>
        /\ currentVM' = [currentVM EXCEPT ![job[p]] = vm[p]]
    BY <1>3 DEF DeploySelect
  <2>2. pc[p] \in WithVM /\ ~Fresh(p)
    BY <2>1 DEF WithVM, JobHeld, VMHeld, DeployTry, Fresh, BeforeFolder
  <2>3. owner[vm[p]] = job[p] /\ record[vm[p]] = "RUNNING" /\ job[p] \in Jobs
    BY <1>1, <2>1, <2>2 DEF CallOK, PassOK
  <2>4. \A j \in Jobs : currentVM'[j] = IF j = job[p] THEN vm[p] ELSE currentVM[j]
    BY <1>1, <2>1 DEF TypeOK
  <2>5. QED BY <1>1, <2>1, <2>3, <2>4 DEF SelectedVMWasBooted
<1>4. CASE DestroyDeselect(p)
  <2>1. currentVM' = [currentVM EXCEPT ![job[p]] = IF @ = vm[p] THEN NoVM ELSE @]
    BY <1>4 DEF DestroyDeselect
  <2>2. QED BY <1>1, <1>2, <2>1 DEF TypeOK
<1>5. CASE currentVM' = currentVM
  BY <1>2, <1>5
<1>6. currentVM' = currentVM \/ DeploySelect(p) \/ DestroyDeselect(p)
  BY DEF Start, StartDeploy, StartOnVM, StartReap, StartCleanup,
         Step, LockJob, LockVM, Busy, StatusRead,
         DeployStep, DeployCheck, DeployQuota, DeployDiskDir, DeployJournal, DeployMaterial,
         DeployDefine, DeployStart, DeployRunning, DeployReturn, DeployFailed,
         DestroyStep, DestroyQuery, DestroyStop, DestroyUndefine, DestroyVerify, DestroyDisk,
         DestroyRecord, DestroySecrets,
         PassStep, ReapNext, ReapDone, CleanupNext, CleanupDone, CleanupExit,
         DeployFails, CallFails, Crash
<1>7. QED BY <1>3, <1>4, <1>5, <1>6

(* A process that does not step keeps what its pass has established.       *)
Stays(q) ==
  /\ pc'[q] = pc[q] /\ call'[q] = call[q] /\ vm'[q] = vm[q]
  /\ listed'[q] = listed[q] /\ todo'[q] = todo[q] /\ someFailed'[q] = someFailed[q]

LEMMA BystanderPass ==
  ASSUME Inductive, NEW q \in Procs, PassOK(q), Stays(q), RecordsOnlyClose,
         record' = record \/ pc[q] \notin VMHeld
  PROVE  PassOK(q)'
<1>1. pc[q] \in {"destroy_secrets", "destroy_deselect", "deploy_select"} =>
        vm[q] \in VMs /\ record' = record
  BY DEF Inductive, CallsOK, CallOK, WithVM, JobHeld, VMHeld, DeployTry, DestroyBody
<1>2. listed[q] \subseteq VMs
  BY DEF Inductive, TypeOK
<1>3. QED BY <1>1, <1>2 DEF PassOK, Stays, RecordsOnlyClose

(* The step of the process itself, by what becomes of its command.         *)
LEMMA PassEnds ==
  ASSUME Inductive, NEW p \in Procs, PassOK(p), Ends(p), UNCHANGED record,
         call[p] = "cleanup" => Fail(p) \/ pc[p] = "destroy_deselect" \/ Quit(p)
  PROVE  PassOK(p)'
<1>1. TypeOK
  BY DEF Inductive
<1>2. CASE Quit(p)
  <2>1. pc'[p] = "idle" /\ call'[p] = "none"
    BY <1>1, <1>2 DEF Quit, Goto, TypeOK
  <2>2. QED BY <2>1 DEF PassOK
<1>3. CASE call[p] = "reap" /\ BackTo(p, "reap_next", FALSE)
  <2>1. pc'[p] = "reap_next" /\ call'[p] = "reap"
    BY <1>1, <1>3 DEF BackTo, Goto, TypeOK
  <2>2. QED BY <2>1 DEF PassOK
<1>4. ASSUME NEW b \in BOOLEAN, call[p] = "cleanup", BackTo(p, "cleanup_next", b),
             b = TRUE \/ pc[p] = "destroy_deselect"
      PROVE  PassOK(p)'
  <2>1. /\ pc'[p] = "cleanup_next" /\ call'[p] = "cleanup"
        /\ listed'[p] = listed[p] /\ todo'[p] = todo[p]
        /\ ~someFailed'[p] => b = FALSE /\ ~someFailed[p]
    <3>1. pc'[p] = "cleanup_next" /\ UNCHANGED <<call, listed, todo>>
      BY <1>1, <1>4 DEF BackTo, Goto, TypeOK
    <3>2. someFailed'[p] = (someFailed[p] \/ b)
      BY <1>1, <1>4 DEF BackTo, TypeOK
    <3>3. QED BY <1>4, <3>1, <3>2
  <2>2. ~someFailed'[p] => \A v \in listed[p] \ todo[p] : record[v] = "DESTROYED"
    BY <1>4, <2>1 DEF PassOK
  <2>3. QED BY <2>1, <2>2 DEF PassOK, CleanupLabels
<1>5. CASE call[p] = "cleanup"
  <2>1. \/ Quit(p)
        \/ BackTo(p, "cleanup_next", TRUE)
        \/ pc[p] = "destroy_deselect" /\ \E b \in BOOLEAN : BackTo(p, "cleanup_next", b)
    BY <1>5, EndForms DEF Fail
  <2>2. QED BY <1>2, <1>4, <1>5, <2>1
<1>6. QED BY <1>2, <1>3, <1>5, EndForms

LEMMA PassAdvances ==
  ASSUME Inductive, NEW p \in Procs, PassOK(p), NEW label, Goto(p, label),
         UNCHANGED <<call, vm, listed, todo, someFailed>>, RecordsOnlyClose,
         label # "cleanup_report", call[p] = "cleanup" => label \in CleanupLabels,
         label \in {"destroy_secrets", "destroy_deselect"} => record'[vm[p]] = "DESTROYED",
         label = "deploy_select" => record'[vm[p]] = "RUNNING"
  PROVE  PassOK(p)'
<1>1. TypeOK /\ listed[p] \subseteq VMs
  BY DEF Inductive, TypeOK
<1>2. pc'[p] = label
  BY <1>1 DEF Goto, TypeOK
<1>3. QED BY <1>1, <1>2 DEF PassOK, RecordsOnlyClose

LEMMA PassStart ==
  ASSUME Inductive, NEW p \in Procs, PassOK(p), Start(p)
  PROVE  PassOK(p)'
<1> USE DEF Inductive, TypeOK, Begin, Goto, files, pass
<1>1. ASSUME NEW j \in Jobs, NEW v \in VMs, StartDeploy(p, j, v) PROVE PassOK(p)'
  BY <1>1 DEF StartDeploy, PassOK
<1>2. ASSUME NEW v \in VMs, NEW command \in Commands, StartOnVM(p, command, v)
      PROVE  PassOK(p)'
  <2>1. command # "cleanup" /\ call'[p] = command /\ pc'[p] = "lock_job"
    BY <1>2 DEF StartOnVM
  <2>2. QED BY <2>1 DEF PassOK
<1>3. CASE StartReap(p)
  BY <1>3 DEF StartReap, PassOK
<1>4. ASSUME NEW j \in Jobs, StartCleanup(p, j) PROVE PassOK(p)'
  <2>1. pc'[p] = "cleanup_next" /\ listed'[p] = todo'[p]
    BY <1>4 DEF StartCleanup
  <2>2. QED BY <2>1 DEF PassOK, CleanupLabels
<1>5. QED BY <1>1, <1>2, <1>3, <1>4 DEF Start

(* A cleanup is in no step of deploy or status.                            *)
LEMMA PassDeploy ==
  ASSUME Inductive, NEW p \in Procs, PassOK(p), DeployStep(p) \/ DeployFails(p), RecordsOnlyClose
  PROVE  PassOK(p)'
<1> USE DEF files, args, pass
<1>1. call[p] # "cleanup"
  <2>1. pc[p] \notin CleanupLabels
    BY DEF DeployStep, DeployCheck, DeployQuota, DeployDiskDir, DeployJournal, DeployMaterial,
           DeployDefine, DeployStart, DeployRunning, DeploySelect, DeployReturn, DeployFailed,
           DeployFails, DeployTry, CleanupLabels, DestroyBody
  <2>2. QED BY <2>1 DEF PassOK
<1>2. ASSUME NEW label, label \notin {"cleanup_report", "destroy_secrets", "destroy_deselect",
                                      "deploy_select"},
             Goto(p, label), UNCHANGED <<call, vm, listed, todo, someFailed>>
      PROVE  PassOK(p)'
  BY <1>1, <1>2, PassAdvances
<1>3. CASE Ends(p) /\ UNCHANGED record
  BY <1>1, <1>3, PassEnds
<1>4. CASE DeployRunning(p)
  <2>1. vm[p] \in VMs /\ record \in [VMs -> Status]
    BY <1>4 DEF DeployRunning, Inductive, TypeOK, CallsOK, CallOK, WithVM, JobHeld, VMHeld,
                DeployTry
  <2>2. record'[vm[p]] = "RUNNING"
    BY <1>4, <2>1 DEF DeployRunning
  <2>3. QED BY <1>1, <1>4, <2>2, PassAdvances DEF DeployRunning
<1>5. CASE DeployCheck(p) \/ DeployQuota(p) \/ DeployReturn(p)
  BY <1>2, <1>3, <1>5 DEF DeployCheck, DeployQuota, MkdirVM, DeployReturn, Ends
<1>6. CASE \/ DeployDiskDir(p) \/ DeployJournal(p) \/ DeployMaterial(p) \/ DeployDefine(p)
           \/ DeployStart(p) \/ DeploySelect(p) \/ DeployFailed(p) \/ DeployFails(p)
  BY <1>2, <1>6 DEF DeployDiskDir, DeployJournal, DeployMaterial, DeployDefine, DeployStart,
                    DeploySelect, DeployFailed, DeployFails
<1>7. QED BY <1>4, <1>5, <1>6 DEF DeployStep

LEMMA PassDestroy ==
  ASSUME Inductive, NEW p \in Procs, PassOK(p), DestroyStep(p), RecordsOnlyClose
  PROVE  PassOK(p)'
<1> USE DEF files, args, pass
<1>1. pc[p] \in DestroyBody
  BY DEF DestroyStep, DestroyQuery, DestroyStop, DestroyUndefine, DestroyVerify, DestroyDisk,
         DestroyRecord, DestroySecrets, DestroyDeselect, DestroyBody
<1>2. vm[p] \in VMs /\ domain[vm[p]] \in {"absent", "shut off", "running"}
  BY <1>1 DEF Inductive, TypeOK, CallsOK, CallOK, WithVM, JobHeld, VMHeld
<1>3. ASSUME NEW label \in DestroyBody \ {"destroy_secrets", "destroy_deselect"},
             Goto(p, label), UNCHANGED <<call, vm, listed, todo, someFailed>>
      PROVE  PassOK(p)'
  BY <1>3, PassAdvances DEF DestroyBody, CleanupLabels
<1>4. CASE Fail(p) /\ UNCHANGED record
  BY <1>4, PassEnds DEF Ends
<1>5. CASE DestroyQuery(p)
  BY <1>2, <1>3, <1>4, <1>5 DEF DestroyQuery, DestroyBody
<1>6. CASE DestroyStop(p) \/ DestroyVerify(p)
  BY <1>3, <1>4, <1>6 DEF DestroyStop, DestroyVerify, DestroyBody
<1>7. CASE DestroyUndefine(p) \/ DestroyDisk(p)
  BY <1>3, <1>7 DEF DestroyUndefine, DestroyDisk, DestroyBody
<1>8. CASE DestroyRecord(p)
  <2>1. record'[vm[p]] = "DESTROYED"
    BY <1>2, <1>8 DEF DestroyRecord, Inductive, TypeOK
  <2>2. QED BY <1>8, <2>1, PassAdvances DEF DestroyRecord, CleanupLabels, DestroyBody
<1>9. CASE DestroySecrets(p)
  <2>1. record'[vm[p]] = "DESTROYED"
    BY <1>9 DEF DestroySecrets, PassOK
  <2>2. QED BY <1>9, <2>1, PassAdvances DEF DestroySecrets, CleanupLabels, DestroyBody
<1>10. CASE DestroyDeselect(p)
  BY <1>10, PassEnds DEF DestroyDeselect, Ends
<1>11. QED BY <1>5, <1>6, <1>7, <1>8, <1>9, <1>10 DEF DestroyStep

LEMMA PassLoops ==
  ASSUME Inductive, NEW p \in Procs, PassOK(p), PassStep(p)
  PROVE  PassOK(p)'
<1> USE DEF files, args, pass
<1>1. TypeOK /\ CallOK(p)
  BY DEF Inductive, CallsOK
<1>2. CASE ReapNext(p)
  <2>1. call'[p] = "reap" /\ pc'[p] \in {"reap_next", "lock_job"}
    BY <1>1, <1>2 DEF ReapNext, CallOK, Goto, TypeOK
  <2>2. QED BY <2>1 DEF PassOK
<1>3. CASE CleanupNext(p)
  <2>1. PICK v \in todo[p] :
          /\ todo' = [todo EXCEPT ![p] = @ \ {v}]
          /\ IF v \in Outstanding
               THEN vm' = [vm EXCEPT ![p] = v] /\ Goto(p, "lock_job")
               ELSE UNCHANGED <<vm, pc>>
          /\ someFailed' = IF record[v] = "none" THEN [someFailed EXCEPT ![p] = TRUE]
                                                 ELSE someFailed
    BY <1>3 DEF CleanupNext
  <2>2. /\ pc[p] = "cleanup_next" /\ call'[p] = call[p] /\ UNCHANGED record
        /\ listed'[p] = listed[p] /\ v \in VMs
    BY <1>1, <1>3 DEF CleanupNext, TypeOK
  <2>3. /\ pc'[p] \in {"cleanup_next", "lock_job"} /\ todo'[p] = todo[p] \ {v}
        /\ v = vm'[p] \/ v \notin Outstanding
        /\ ~someFailed'[p] => record[v] # "none" /\ ~someFailed[p]
    BY <1>1, <2>1, <2>2 DEF Goto, TypeOK
  <2>4. ~someFailed'[p] => v = vm'[p] \/ record[v] = "DESTROYED"
    BY <2>2, <2>3 DEF Outstanding
  <2>5. vm[p] = NoVM /\ NoVM \notin VMs /\ listed[p] \subseteq VMs
    BY <1>1, <2>2, ConstantsAssumption
       DEF CallOK, WithVM, JobHeld, VMHeld, DeployTry, DestroyBody, TypeOK
  <2>6. ~someFailed[p] /\ call[p] = "cleanup" =>
          \A w \in listed[p] \ todo[p] : record[w] = "DESTROYED"
    BY <2>5 DEF PassOK
  <2>7. QED BY <2>2, <2>3, <2>4, <2>6 DEF PassOK, CleanupLabels
<1>4. CASE CleanupDone(p)
  <2>1. pc[p] = "cleanup_next" /\ pc'[p] = "cleanup_report" /\ todo[p] = {}
    BY <1>1, <1>4 DEF CleanupDone, Goto, TypeOK
  <2>2. call[p] = "cleanup"
    BY <1>1, <2>1 DEF CallOK
  <2>3. QED BY <1>4, <2>1, <2>2 DEF CleanupDone, PassOK, CleanupLabels
<1>5. CASE ReapDone(p) \/ CleanupExit(p)
  BY <1>5, PassEnds DEF ReapDone, CleanupExit, Ends
<1>6. QED BY <1>2, <1>3, <1>4, <1>5 DEF PassStep

LEMMA PassLocks ==
  ASSUME Inductive, NEW p \in Procs, PassOK(p), RecordsOnlyClose,
         LockJob(p) \/ LockVM(p) \/ Busy(p) \/ StatusRead(p)
  PROVE  PassOK(p)'
<1> USE DEF files, args, pass
<1>1. ASSUME NEW label \in {"deploy_check", "status_read", "lock_vm", "deploy_quota",
                             "destroy_query"},
             call[p] = "cleanup" => label \in {"lock_vm", "destroy_query"},
             Goto(p, label), UNCHANGED <<call, vm, listed, todo, someFailed>>
      PROVE  PassOK(p)'
  BY <1>1, PassAdvances DEF CleanupLabels, DestroyBody
<1>2. CASE LockJob(p)
  <2> DEFINE label == CASE call[p] = "deploy" -> "deploy_check"
                        [] call[p] = "status" -> "status_read"
                        [] OTHER              -> "lock_vm"
  <2>1. Goto(p, label) /\ UNCHANGED <<call, vm, listed, todo, someFailed>>
    BY <1>2 DEF LockJob
  <2>2. /\ label \in {"deploy_check", "status_read", "lock_vm"}
        /\ call[p] = "cleanup" => label = "lock_vm"
    OBVIOUS
  <2> HIDE DEF label
  <2>3. QED BY <1>1, <2>1, <2>2
<1>3. CASE LockVM(p)
  BY <1>1, <1>3 DEF LockVM
<1>4. CASE Busy(p)
  BY <1>4, PassEnds DEF Busy, Ends
<1>5. CASE StatusRead(p)
  <2>1. call[p] = "status" /\ call[p] # "cleanup"
    BY <1>5 DEF StatusRead, Inductive, CallsOK, CallOK
  <2>2. CASE Ends(p)
    BY <1>5, <2>1, <2>2, PassEnds DEF StatusRead
  <2>3. QED BY <1>1, <1>5, <2>1, <2>2 DEF StatusRead, Ends
<1>6. QED BY <1>2, <1>3, <1>4, <1>5

LEMMA PassMover ==
  ASSUME Inductive, NEW p \in Procs, PassOK(p), RecordsOnlyClose,
         Start(p) \/ Step(p) \/ DeployFails(p) \/ CallFails(p) \/ Crash(p)
  PROVE  PassOK(p)'
<1>1. CASE CallFails(p) \/ Crash(p)
  BY <1>1, PassEnds DEF CallFails, Crash, Ends, files
<1>2. QED BY <1>1, PassStart, PassDeploy, PassDestroy, PassLoops, PassLocks DEF Step

(* Only the process that steps moves on.                                   *)
LEMMA OthersStay ==
  ASSUME TypeOK, NEW p \in Procs,
         Start(p) \/ Step(p) \/ DeployFails(p) \/ CallFails(p) \/ Crash(p),
         NEW q \in Procs, q # p
  PROVE  Stays(q)
<1> USE DEF TypeOK, Goto, args, pass, Stays
<1>1. CASE Ends(p)
  <2>1. CASE Quit(p)
    BY <2>1 DEF Quit
  <2>2. ASSUME NEW label, NEW b, BackTo(p, label, b) PROVE Stays(q)
    BY <2>2 DEF BackTo
  <2>3. QED BY <1>1, <2>1, <2>2, EndForms
<1>2. CASE Start(p)
  BY <1>2, ZenonT(40) DEF Start, StartDeploy, StartOnVM, StartReap, StartCleanup, Begin
<1>3. CASE LockJob(p) \/ LockVM(p) \/ DeployFails(p)
  BY <1>3 DEF LockJob, LockVM, DeployFails
<1>4. CASE Busy(p) \/ StatusRead(p) \/ CallFails(p) \/ Crash(p)
  BY <1>1, <1>4 DEF Busy, StatusRead, CallFails, Crash, Ends
<1>5. CASE DeployStep(p)
  BY <1>1, <1>5 DEF DeployStep, DeployCheck, DeployQuota, MkdirVM, DeployDiskDir, DeployJournal,
       DeployMaterial, DeployDefine, DeployStart, DeployRunning, DeploySelect, DeployReturn,
       DeployFailed, Ends
<1>6. CASE DestroyStep(p)
  BY <1>1, <1>6 DEF DestroyStep, DestroyQuery, DestroyStop, DestroyUndefine, DestroyVerify,
       DestroyDisk, DestroyRecord, DestroySecrets, DestroyDeselect, Ends
<1>7. CASE PassStep(p)
  BY <1>1, <1>7 DEF PassStep, ReapNext, ReapDone, CleanupNext, CleanupDone, CleanupExit, Ends
<1>8. QED BY <1>2, <1>3, <1>4, <1>5, <1>6, <1>7 DEF Step

LEMMA PassesStep == Inductive /\ PassesOK /\ [Next]_vars => PassesOK'
<1> SUFFICES ASSUME Inductive, PassesOK, [Next]_vars PROVE PassesOK'
  OBVIOUS
<1>1. ASSUME NEW p \in Procs,
             Start(p) \/ Step(p) \/ DeployFails(p) \/ CallFails(p) \/ Crash(p)
      PROVE  PassesOK'
  <2>1. SelectedVMWasBooted'
    BY <1>1, SelectionSteps
  <2>2. RecordsOnlyClose /\ (record' = record \/ pc[p] \in VMHeld)
    BY <1>1, RecordSteps
  <2>3. PassOK(p)'
    BY <1>1, <2>2, PassMover DEF PassesOK
  <2>4. ASSUME NEW q \in Procs, q # p PROVE PassOK(q)'
    <3>1. Stays(q)
      BY <1>1, <2>4, OthersStay DEF Inductive
    <3>2. record' = record \/ pc[q] \notin VMHeld
      BY <2>2, <2>4, OneHolder DEF Inductive
    <3>3. QED BY <2>2, <3>1, <3>2, BystanderPass DEF PassesOK
  <2>5. QED BY <2>1, <2>3, <2>4 DEF PassesOK
<1>2. CASE UNCHANGED <<owner, record, currentVM, pc, call, vm, listed, todo, someFailed>>
  BY <1>2 DEF PassesOK, SelectedVMWasBooted, PassOK
<1>3. QED BY <1>1, <1>2 DEF Next, GuestOff, Expire, vars, files, args, pass

(* A cleanup has left behind it only DESTROYED VMs and, if any, a failure. *)
THEOREM PassesAlwaysOK == Spec => []PassesOK
<1>1. Init => PassesOK
  BY DEF Init, PassesOK, PassOK, SelectedVMWasBooted, CleanupLabels
<1>2. QED BY <1>1, PassesStep, InductiveHolds, PTL DEF Spec

(* current_vm_id names a VM of that job, and one whose start was recorded, *)
(* whatever other processes destroy, deploy or leave half done meanwhile   *)
(* (vm.py:266-270, 405-406).                                               *)
THEOREM SelectionsAreBooted == Spec => []SelectedVMWasBooted
<1>1. PassesOK => SelectedVMWasBooted
  BY DEF PassesOK
<1>2. QED BY <1>1, PassesAlwaysOK, PTL

(* A cleanup that reports no failure leaves no domain and no disk of any   *)
(* VM it listed, whoever destroyed it: a DESTROYED record is never         *)
(* reopened between the item and the report (cli.py:156-166).              *)
THEOREM CleanupsAreComplete == Spec => []CleanupPassIsComplete
<1>1. Inductive /\ PassesOK => CleanupPassIsComplete
  <2> SUFFICES ASSUME Inductive, PassesOK, NEW p \in Procs,
                      pc[p] = "cleanup_report", ~someFailed[p], NEW v \in listed[p]
               PROVE  record[v] = "DESTROYED" /\ domain[v] = "absent" /\ v \notin diskDir
    BY DEF CleanupPassIsComplete
  <2>1. v \in VMs /\ NoVM \notin VMs
    BY ConstantsAssumption DEF Inductive, TypeOK
  <2>2. vm[p] = NoVM
    BY DEF Inductive, CallsOK, CallOK, WithVM, JobHeld, VMHeld, DeployTry, DestroyBody
  <2>3. record[v] = "DESTROYED"
    BY <2>1, <2>2 DEF PassesOK, PassOK
  <2>4. QED BY <2>1, <2>3 DEF Inductive, HostOK, DestroyedIsClean, Destroyed
<1>2. QED BY <1>1, InductiveHolds, PassesAlwaysOK, PTL
=============================================================================
