------------------------- MODULE ValidationRunProofs -------------------------
(***************************************************************************)
(* Theorems about ValidationRun, for any set of VMs and any number of      *)
(* signals and of failed writes of the report.                             *)
(***************************************************************************)
EXTENDS ValidationRun, FiniteSetTheorems, TLAPS

-----------------------------------------------------------------------------
(* The inductive invariant.                                                *)
NoFail == "FAIL" \notin rows
Clean  == rows \cap {"FAIL", "SKIP"} = {}
Saving == Finishing \ {"final"}

(* A check that makes a sandbox or a VM works in a job that is listed, and *)
(* without a failure both jobs are.                                        *)
JobsOK ==
  /\ pc \in {"sandbox_create", "second_job", "second_sandbox", "build", "vm_prepare", "vm_deploy"}
       => "main" \in jobs
  /\ pc = "second_sandbox" => "other" \in jobs
  /\ folders # {} \/ "other" \in jobs => "main" \in jobs
  /\ Clean /\ pc \in {"build", "vm_prepare", "vm_deploy"} => jobs = Jobs
  /\ deployed \subseteq folders

(* What the cleanup has not come to yet is all that may still be there, if *)
(* nothing failed so far.                                                  *)
CleanupOK ==
  /\ pc = "clean_vms" => "main" \in jobs
  /\ pc = "clean_other" => "main" \in attempted
  /\ SandboxesAreReached
  /\ NoFail => /\ pc = "clean_vms" => machines \subseteq todo
               /\ pc = "clean_other" => machines = {} /\ boxes \subseteq {"other"}
               /\ pc = "final" => machines = {} /\ boxes = {}

(* A run without a row that failed or was skipped has deployed every VM of *)
(* the quota before its cleanup, and that comes to all of them.            *)
EarnedOK ==
  /\ pc \notin Cleaning \cup {"escaped"} => doomed = FALSE
  /\ Clean /\ doomed = FALSE =>
       /\ pc \in Cleaning \cup {"final"} => deployed = VMs /\ jobs = Jobs
       /\ pc = "clean_vms" => VMs \ todo \subseteq attempted
       /\ pc = "clean_other" => VMs \subseteq attempted
       /\ pc = "final" => attempted = VMs \cup Jobs

Earned == deployed = VMs /\ attempted = VMs \cup Jobs /\ machines = {} /\ boxes = {}

(* The final report, and the files it has reached.                         *)
DraftOK ==
  /\ pc \notin Saving \cup Ended => draft = Running
  /\ pc \in Saving => draft.status \in {"PASS", "FAIL", "PARTIAL"}
  /\ pc \in Saving \cup {"exit"} /\ draft.status # "FAIL" => machines = {} /\ boxes = {}
  /\ draft.ready => Earned
  /\ pc \in {"final_html", "final_latest"} => json = draft
  /\ pc # "exit" => latest \in {NoReport, Running}
  /\ pc = "exit" =>
       \/ /\ latest = draft /\ json = draft /\ draft.status \in {"PASS", "FAIL", "PARTIAL"}
          /\ code = 0 <=> draft.status # "FAIL" /\ (profile = "full" => draft.ready)
       \/ latest \in {NoReport, Running} /\ code = 1

Inductive == TypeOK /\ JobsOK /\ CleanupOK /\ EarnedOK /\ DraftOK

-----------------------------------------------------------------------------
(* The quota, and what a save and the reports are.                         *)
LEMMA Quota ==
  /\ MaxVMs \in Nat /\ MaxVMs > 0
  /\ \A S \in SUBSET VMs : /\ IsFiniteSet(S) /\ Cardinality(S) \in Nat
                           /\ Cardinality(S) = MaxVMs => S = VMs
                           /\ \A vm \in VMs \ S : Cardinality(S \cup {vm}) = Cardinality(S) + 1
<1>1. IsFiniteSet(VMs) /\ MaxVMs \in Nat
  BY RunAssumption, FS_CardinalityType DEF MaxVMs
<1>2. MaxVMs # 0
  BY RunAssumption, FS_EmptySet DEF MaxVMs
<1>3. ASSUME NEW S \in SUBSET VMs
      PROVE  /\ IsFiniteSet(S) /\ Cardinality(S) \in Nat
             /\ Cardinality(S) = MaxVMs => S = VMs
             /\ \A vm \in VMs \ S : Cardinality(S \cup {vm}) = Cardinality(S) + 1
  <2>1. IsFiniteSet(S) /\ (Cardinality(S) = MaxVMs => S = VMs)
    BY <1>1, FS_Subset DEF MaxVMs
  <2>2. Cardinality(S) \in Nat
    BY <2>1, FS_CardinalityType
  <2>3. \A vm \in VMs \ S : Cardinality(S \cup {vm}) = Cardinality(S) + 1
    BY <2>1, FS_AddElement
  <2>4. QED BY <2>1, <2>2, <2>3
<1>4. QED BY <1>1, <1>2, <1>3

LEMMA ReportFacts ==
  /\ NoReport \in Reports /\ Running \in Reports
  /\ NoReport.status = "NONE" /\ Running.status = "RUNNING"
  /\ NoReport.ready = FALSE /\ Running.ready = FALSE
BY DEF Reports, NoReport, Running

LEMMA Saves ==
  ASSUME TypeOK, NEW results \in SUBSET {"PASS", "FAIL", "SKIP"}, Save(results)
  PROVE  /\ rows \cup results \subseteq rows' /\ rows' \subseteq {"PASS", "FAIL", "SKIP"}
         /\ json' \in Reports /\ latest' \in Reports /\ latest' \in {latest, Running}
         /\ emergency' = emergency /\ faults' \in 0..MaxFaults
<1>1. /\ rows \subseteq {"PASS", "FAIL", "SKIP"} /\ json \in Reports /\ latest \in Reports
      /\ faults \in Nat /\ faults <= MaxFaults /\ MaxFaults \in Nat
  BY RunAssumption DEF TypeOK
<1>2. /\ rows \cup results \subseteq rows' /\ rows' \subseteq rows \cup results \cup {"FAIL"}
      /\ json' \in {json, Running} /\ latest' \in {latest, Running} /\ emergency' = emergency
  BY DEF Save
<1>3. faults' = faults \/ (faults < MaxFaults /\ faults' = faults + 1)
  BY DEF Save, Fault
<1>4. faults' \in 0..MaxFaults
  BY <1>1, <1>3
<1>5. QED BY <1>1, <1>2, <1>4, ReportFacts

(* The final report is ready, failed or partial.                           *)
LEMMA FinalReports ==
  ASSUME NEW results
  PROVE  /\ FinalReport(results) \in Reports
         /\ FinalReport(results).status \in {"PASS", "FAIL", "PARTIAL"}
         /\ FinalReport(results).status # "FAIL" <=> "FAIL" \notin results
         /\ FinalReport(results).ready =>
              profile = "full" /\ count = MaxVMs /\ results \cap {"FAIL", "SKIP"} = {}
<1> DEFINE ready == profile = "full" /\ count = MaxVMs /\ results \cap {"FAIL", "SKIP"} = {}
           status == CASE "FAIL" \in results -> "FAIL" [] ready -> "PASS" [] OTHER -> "PARTIAL"
<1>1. FinalReport(results) = [status |-> status, ready |-> ready]
  BY DEF FinalReport
<1>2. ready \in BOOLEAN
  OBVIOUS
<1>3. ready => "FAIL" \notin results
  OBVIOUS
<1>4. ready => profile = "full" /\ count = MaxVMs /\ results \cap {"FAIL", "SKIP"} = {}
  OBVIOUS
<1> HIDE DEF ready
<1>5. status \in {"PASS", "FAIL", "PARTIAL"} /\ (status # "FAIL" <=> "FAIL" \notin results)
  <2>1. CASE "FAIL" \in results
    BY <2>1, <1>3
  <2>2. CASE "FAIL" \notin results /\ ready
    BY <2>2
  <2>3. CASE "FAIL" \notin results /\ ~ready
    BY <2>3
  <2>4. QED BY <2>1, <2>2, <2>3
<1> HIDE DEF status
<1>6. QED BY <1>1, <1>2, <1>4, <1>5 DEF Reports

LEMMA InductiveInit == Init => Inductive
<1> SUFFICES ASSUME Init PROVE Inductive
  OBVIOUS
<1> USE DEF Init
<1>1. Cardinality({}) = 0
  BY FS_EmptySet
<1>2. Cardinality(tried) <= count
  BY <1>1, Quota
<1>3. TypeOK
  <2>1. signals \in 0..MaxSignals /\ faults \in 0..MaxFaults
    BY RunAssumption
  <2>2. json \in Reports /\ latest \in Reports /\ emergency \in Reports /\ draft \in Reports
    BY ReportFacts
  <2>3. pc \in Main /\ hostOK \in BOOLEAN /\ fullOK \in BOOLEAN /\ doomed \in BOOLEAN
    BY DEF Main
  <2>4. QED BY <1>2, <2>1, <2>2, <2>3 DEF TypeOK
<1>4. JobsOK /\ CleanupOK /\ EarnedOK
  BY DEF JobsOK, CleanupOK, EarnedOK, SandboxesAreReached, Cleaning, Finishing
<1>5. DraftOK
  BY ReportFacts DEF DraftOK, Finishing, Saving, Ended
<1>6. QED BY <1>3, <1>4, <1>5 DEF Inductive

-----------------------------------------------------------------------------
(* The checks.                                                             *)

(* Until the final report is made, it is not.                              *)
LEMMA DraftStays ==
  ASSUME Inductive, pc \in Main \cup {"handler"} \cup Cleaning,
         pc' \in Main \cup {"handler", "final", "escaped"} \cup Cleaning,
         UNCHANGED draft, latest' \in {latest, Running}
  PROVE  DraftOK'
<1>1. draft = Running /\ draft.ready = FALSE /\ latest \in {NoReport, Running}
  BY ReportFacts DEF Inductive, DraftOK, Main, Cleaning, Finishing, Saving, Ended
<1>2. QED
  BY <1>1, ReportFacts DEF DraftOK, Main, Cleaning, Finishing, Saving, Ended

(* A check leads to another one, to the handler or to the cleanup.         *)
LEMMA ChecksGoOn ==
  ASSUME Inductive, pc \in Main \cup {"handler"}, pc' \in Main \cup {"handler", "clean_main"},
         TypeOK', JobsOK', UNCHANGED draft, latest' \in {latest, Running},
         pc' # "clean_main" => doomed' = FALSE,
         pc' = "clean_main" /\ Clean' /\ doomed' = FALSE => deployed' = VMs /\ jobs' = Jobs
  PROVE  Inductive'
<1>1. DraftOK'
  BY DraftStays DEF Cleaning
<1>2. CleanupOK'
  BY DEF CleanupOK, SandboxesAreReached, Main, Cleaning, Finishing
<1>3. EarnedOK'
  BY DEF EarnedOK, Main, Cleaning, Finishing
<1>4. QED BY <1>1, <1>2, <1>3 DEF Inductive

(* A check that makes no VM, and saves its results.                        *)
LEMMA CheckStep ==
  ASSUME Inductive, NEW results \in SUBSET {"PASS", "FAIL", "SKIP"}, Save(results), pc \in Main,
         pc' \in Main \cup {"clean_main"},
         UNCHANGED <<options, hostOK, fullOK, tried, deployed, tidying, doomed, folders, machines,
                     ending, signals>>,
         jobs \subseteq jobs', jobs' \subseteq Jobs, boxes' \subseteq jobs',
         pc' \in {"sandbox_create", "second_job", "second_sandbox", "build", "vm_prepare",
                  "vm_deploy"} => "main" \in jobs',
         pc' = "second_sandbox" => "other" \in jobs',
         "other" \in jobs' => "main" \in jobs',
         Clean' /\ pc' \in {"build", "vm_prepare", "vm_deploy"} => jobs' = Jobs,
         Clean' /\ pc' = "clean_main" => deployed = VMs /\ jobs' = Jobs
  PROVE  Inductive'
<1>1. /\ rows \cup results \subseteq rows' /\ rows' \subseteq {"PASS", "FAIL", "SKIP"}
      /\ json' \in Reports /\ latest' \in Reports /\ latest' \in {latest, Running}
      /\ emergency' = emergency /\ faults' \in 0..MaxFaults
  BY Saves DEF Inductive
<1>2. TypeOK'
  BY <1>1 DEF Inductive, TypeOK, options, tidying, ending, Cleaning, Jobs
<1>3. JobsOK'
  BY DEF Inductive, JobsOK
<1>4. doomed' = FALSE
  BY DEF Inductive, EarnedOK, Main, Cleaning
<1>5. QED BY <1>1, <1>2, <1>3, <1>4, ChecksGoOn DEF ending

(* What the steps of the checks have in hand.                              *)
LEMMA ChecksKnow ==
  ASSUME Inductive
  PROVE  /\ TypeOK /\ JobsOK /\ boxes \subseteq jobs /\ jobs \subseteq Jobs
         /\ "other" \in jobs => "main" \in jobs
BY DEF Inductive, TypeOK, JobsOK

LEMMA HostStep ==
  ASSUME Inductive, HostChecks
  PROVE  Inductive'
<1>1. /\ pc = "host" /\ pc' = "software" /\ rows \subseteq rows' /\ rows' \subseteq rows \cup {"PASS", "FAIL"}
      /\ hostOK' \in BOOLEAN /\ fullOK' \in BOOLEAN
      /\ UNCHANGED <<options, jobs, tried, deployed, tidying, doomed, host, disk, ending, signals,
                     faults>>
  BY DEF HostChecks, Goto
<1>2. TypeOK'
  BY <1>1 DEF Inductive, TypeOK, Main, options, tidying, host, disk, ending
<1>3. JobsOK'
  BY <1>1 DEF Inductive, JobsOK, host
<1>4. doomed' = FALSE
  BY <1>1 DEF Inductive, EarnedOK, Cleaning
<1>5. QED BY <1>1, <1>2, <1>3, <1>4, ChecksGoOn DEF Main, ending, disk

LEMMA SoftwareStep ==
  ASSUME Inductive, SoftwareTests
  PROVE  Inductive'
<1>1. pc = "software" /\ UNCHANGED <<options, work, tidying, doomed, host, ending, signals>>
  BY DEF SoftwareTests
<1>2. PICK result \in {"PASS", "FAIL"} :
        \/ Save({result}) /\ pc' = "image_build"
        \/ Save({result, "SKIP"}) /\ pc' = "clean_main"
  BY DEF SoftwareTests, Goto
<1>3. CASE Save({result}) /\ pc' = "image_build"
  BY <1>1, <1>3, ChecksKnow, CheckStep DEF Main, work, host
<1>4. CASE Save({result, "SKIP"}) /\ pc' = "clean_main"
  <2>1. "SKIP" \in rows'
    BY <1>4, ChecksKnow, Saves
  <2>2. QED BY <1>1, <1>4, <2>1, ChecksKnow, CheckStep DEF Main, work, host, Clean
<1>5. QED BY <1>2, <1>3, <1>4

(* The checks that change nothing but the report.                          *)
LEMMA PlainCheckStep ==
  ASSUME Inductive, ImageBuild \/ BuildWorkflow \/ VMPrepare
  PROVE  Inductive'
<1>1. /\ pc \in {"image_build", "build", "vm_prepare"}
      /\ UNCHANGED <<options, work, tidying, doomed, host, ending, signals>>
  BY DEF ImageBuild, BuildWorkflow, VMPrepare, Check
<1>2. PICK result \in {"PASS", "FAIL"} :
        /\ Save({result})
        /\ \/ pc = "image_build" /\ pc' \in {"job_create", "no_vms"}
           \/ pc = "build" /\ pc' \in {"vm_prepare", "no_vms"}
           \/ pc = "vm_prepare" /\ pc' = "vm_deploy"
           \/ result = "FAIL" /\ pc' = "clean_main"
  BY DEF ImageBuild, BuildWorkflow, VMPrepare, Check, Goto
<1>3. rows \subseteq rows' /\ result \in rows'
  BY <1>2, ChecksKnow, Saves
<1>4. pc' \in {"vm_prepare", "vm_deploy"} => "main" \in jobs /\ (Clean' => jobs = Jobs)
  BY <1>2, <1>3, ChecksKnow DEF JobsOK, Clean
<1>5. QED BY <1>1, <1>2, <1>3, <1>4, ChecksKnow, CheckStep DEF Main, work, host, Clean

LEMMA JobStep ==
  ASSUME Inductive, FirstJob \/ SecondJob
  PROVE  Inductive'
<1>1. /\ pc \in {"job_create", "second_job"}
      /\ UNCHANGED <<options, hostOK, fullOK, tried, deployed, tidying, doomed, host, ending,
                     signals>>
  BY DEF FirstJob, SecondJob, JobCreate
<1>2. PICK result \in {"PASS", "FAIL"} :
        /\ Save({result})
        /\ \/ pc = "job_create" /\ pc' = "sandbox_create" /\ jobs' = jobs \cup {"main"}
           \/ pc = "job_create" /\ pc' = "no_vms" /\ jobs' = jobs
           \/ pc = "second_job" /\ pc' = "second_sandbox" /\ jobs' = jobs \cup {"other"}
           \/ pc = "second_job" /\ result = "FAIL" /\ pc' = "build" /\ jobs' = jobs
  BY DEF FirstJob, SecondJob, JobCreate, Goto
<1>3. result \in rows'
  BY <1>2, ChecksKnow, Saves
<1>4. pc = "second_job" => "main" \in jobs
  BY ChecksKnow DEF JobsOK
<1>5. QED BY <1>1, <1>2, <1>3, <1>4, ChecksKnow, CheckStep DEF Main, host, Clean, Jobs

LEMMA SandboxStep ==
  ASSUME Inductive, FirstSandbox \/ SecondSandbox
  PROVE  Inductive'
<1>1. /\ pc \in {"sandbox_create", "second_sandbox"}
      /\ UNCHANGED <<options, work, tidying, doomed, ending, signals>>
  BY DEF FirstSandbox, SecondSandbox, SandboxCreate
<1>2. PICK result \in {"PASS", "FAIL"} :
        /\ Save({result}) /\ UNCHANGED <<folders, machines>>
        /\ \/ boxes' = boxes
           \/ pc = "sandbox_create" /\ boxes' = boxes \cup {"main"}
           \/ pc = "second_sandbox" /\ boxes' = boxes \cup {"other"}
        /\ \/ pc = "sandbox_create" /\ pc' \in {"second_job", "no_vms"}
           \/ pc = "second_sandbox" /\ pc' = "build"
  BY DEF FirstSandbox, SecondSandbox, SandboxCreate, Leftovers, Goto, host
<1>3. "main" \in jobs /\ (pc = "second_sandbox" => "other" \in jobs)
  BY <1>1, ChecksKnow DEF JobsOK
<1>4. pc = "second_sandbox" => jobs = Jobs
  BY <1>3, ChecksKnow DEF Jobs
<1>5. QED BY <1>1, <1>2, <1>3, <1>4, ChecksKnow, CheckStep DEF Main, work

LEMMA NoVMsStep ==
  ASSUME Inductive, NoVMs
  PROVE  Inductive'
<1>1. /\ pc = "no_vms" /\ pc' = "clean_main" /\ rows' = rows \cup {"SKIP"}
      /\ UNCHANGED <<options, work, tidying, doomed, host, disk, ending, signals, faults>>
  BY DEF NoVMs, Goto
<1>2. TypeOK'
  BY <1>1 DEF Inductive, TypeOK, Cleaning, options, work, tidying, host, disk, ending
<1>3. JobsOK'
  BY <1>1 DEF Inductive, JobsOK, host, work
<1>4. QED BY <1>1, <1>2, <1>3, ChecksGoOn DEF Main, ending, disk, Clean

LEMMA DeployStep ==
  ASSUME Inductive, DeployVM
  PROVE  Inductive'
<1>1. /\ pc = "vm_deploy" /\ pc' = "vm_deploy" /\ Cardinality(tried) < count
      /\ UNCHANGED <<options, hostOK, fullOK, jobs, boxes, tidying, doomed, ending, signals>>
  BY DEF DeployVM
<1>2. PICK vm \in VMs \ tried, result \in {"PASS", "FAIL"} :
        /\ Save({result}) /\ tried' = tried \cup {vm}
        /\ deployed' \in {deployed, deployed \cup {vm}}
        /\ folders' \in {folders, folders \cup {vm}}
        /\ machines' \in {machines, machines \cup (folders' \cap {vm})}
        /\ deployed' = deployed \/ folders' = folders \cup {vm}
  BY DEF DeployVM
<1>3. /\ rows \subseteq rows' /\ rows' \subseteq {"PASS", "FAIL", "SKIP"}
      /\ json' \in Reports /\ latest' \in Reports /\ latest' \in {latest, Running}
      /\ emergency' = emergency /\ faults' \in 0..MaxFaults
  BY <1>2, ChecksKnow, Saves
<1>4. Cardinality(tried') <= count
  <2>1. tried \subseteq VMs /\ count \in Nat
    BY ChecksKnow, Quota DEF TypeOK
  <2>2. Cardinality(tried') = Cardinality(tried) + 1 /\ Cardinality(tried) \in Nat
    BY <1>2, <2>1, Quota
  <2>3. QED BY <1>1, <2>1, <2>2
<1>5. /\ tried' \subseteq VMs /\ deployed' \subseteq tried' /\ folders' \subseteq VMs
      /\ machines' \subseteq folders' /\ deployed' \subseteq folders' /\ folders \subseteq folders'
  BY <1>2, ChecksKnow DEF TypeOK, JobsOK
<1>6. TypeOK'
  BY <1>1, <1>3, <1>4, <1>5 DEF Inductive, TypeOK, options, tidying, ending
<1>7. JobsOK'
  BY <1>1, <1>3, <1>5 DEF Inductive, JobsOK, Clean
<1>8. doomed' = FALSE
  BY <1>1 DEF Inductive, EarnedOK, Cleaning
<1>9. QED BY <1>1, <1>3, <1>6, <1>7, <1>8, ChecksGoOn DEF Main, ending

LEMMA VMChecksStep ==
  ASSUME Inductive, VMChecks
  PROVE  Inductive'
<1>1. /\ pc = "vm_deploy" /\ pc' = "clean_main"
      /\ UNCHANGED <<options, work, tidying, doomed, host, ending, signals>>
  BY DEF VMChecks, Goto
<1>2. PICK result \in {"PASS", "FAIL"} :
        Save({result} \cup (IF Cardinality(deployed) = MaxVMs THEN {} ELSE {"SKIP"}))
  BY DEF VMChecks
<1> DEFINE results == {result} \cup (IF Cardinality(deployed) = MaxVMs THEN {} ELSE {"SKIP"})
<1>3. results \in SUBSET {"PASS", "FAIL", "SKIP"}
  OBVIOUS
<1>4. Cardinality(deployed) # MaxVMs => "SKIP" \in results
  OBVIOUS
<1>5. Save(results)
  BY <1>2
<1> HIDE DEF results
<1>6. rows \cup results \subseteq rows'
  BY <1>3, <1>5, ChecksKnow, Saves
<1>7. Clean' => deployed = VMs /\ jobs = Jobs
  <2>1. Clean' => Clean /\ Cardinality(deployed) = MaxVMs
    BY <1>4, <1>6 DEF Clean
  <2>2. deployed \in SUBSET VMs
    BY ChecksKnow DEF TypeOK
  <2>3. QED BY <1>1, <2>1, <2>2, Quota, ChecksKnow DEF JobsOK
<1>8. QED BY <1>1, <1>3, <1>5, <1>7, ChecksKnow, CheckStep DEF Main, work, host

LEMMA InterruptStep ==
  ASSUME Inductive, Interrupt
  PROVE  Inductive'
<1>1. /\ pc \in Main /\ pc' = "handler" /\ Leftovers /\ Signal
      /\ UNCHANGED <<options, work, tidying, doomed, ending>>
  BY DEF Interrupt, Goto
<1>2. /\ rows \subseteq rows' /\ rows' \subseteq {"PASS", "FAIL", "SKIP"}
      /\ json' \in Reports /\ latest' \in Reports /\ latest' \in {latest, Running}
      /\ emergency' = emergency /\ faults' \in 0..MaxFaults
  <2>1. CASE Save({})
    BY <2>1, ChecksKnow, Saves
  <2>2. CASE UNCHANGED <<rows, disk, faults>>
    BY <2>2, ChecksKnow DEF TypeOK, disk
  <2>3. QED BY <2>1, <2>2 DEF Interrupt
<1>3. /\ boxes' \subseteq jobs /\ folders' \subseteq VMs /\ machines' \subseteq folders'
      /\ folders \subseteq folders' /\ (folders' # {} => "main" \in jobs)
  <2>1. CASE UNCHANGED host
    BY <2>1, ChecksKnow DEF TypeOK, JobsOK, host
  <2>2. CASE ~UNCHANGED host
    BY <1>1, <2>2, ChecksKnow DEF Leftovers, TypeOK, JobsOK
  <2>3. QED BY <2>1, <2>2
<1>4. signals' \in 0..MaxSignals
  BY <1>1, ChecksKnow, RunAssumption DEF Signal, TypeOK
<1>5. TypeOK'
  <2>1. folders' \subseteq VMs /\ todo' \subseteq folders'
    BY <1>1, <1>3, ChecksKnow DEF TypeOK, tidying
  <2>2. QED
    BY <1>1, <1>2, <1>3, <1>4, <2>1 DEF Inductive, TypeOK, options, work, tidying, ending
<1>6. JobsOK'
  BY <1>1, <1>3, ChecksKnow DEF JobsOK, work
<1>7. doomed' = FALSE
  BY <1>1 DEF Inductive, EarnedOK, Main, Cleaning
<1>8. QED BY <1>1, <1>2, <1>5, <1>6, <1>7, ChecksGoOn DEF ending

LEMMA RaiseStep ==
  ASSUME Inductive, Raise
  PROVE  Inductive'
<1>1. /\ pc \in Main /\ pc' = "handler"
      /\ UNCHANGED <<options, rows, work, tidying, doomed, host, disk, ending, signals, faults>>
  BY DEF Raise, Goto, Main
<1>2. TypeOK'
  BY <1>1 DEF Inductive, TypeOK, options, work, tidying, host, disk, ending
<1>3. JobsOK'
  BY <1>1 DEF Inductive, JobsOK, host, work
<1>4. doomed' = FALSE
  BY <1>1 DEF Inductive, EarnedOK, Main, Cleaning
<1>5. QED BY <1>1, <1>2, <1>3, <1>4, ChecksGoOn DEF ending, disk

LEMMA HandlerStep ==
  ASSUME Inductive, Handler
  PROVE  Inductive'
<1>1. /\ pc = "handler" /\ pc' = "clean_main"
      /\ \/ rows' = rows \cup {"FAIL"} /\ UNCHANGED <<doomed, signals>>
         \/ signals < MaxSignals /\ signals' = signals + 1 /\ doomed' = TRUE /\ rows' = rows
      /\ UNCHANGED <<options, work, tidying, host, disk, ending, faults>>
  BY DEF Handler, Goto, Signal
<1>2. signals' \in 0..MaxSignals /\ doomed' \in BOOLEAN
  <2>1. signals \in 0..MaxSignals /\ doomed \in BOOLEAN
    BY ChecksKnow DEF TypeOK
  <2>2. CASE UNCHANGED <<doomed, signals>>
    BY <2>1, <2>2
  <2>3. CASE signals < MaxSignals /\ signals' = signals + 1 /\ doomed' = TRUE
    BY <2>1, <2>3, RunAssumption
  <2>4. QED BY <1>1, <2>2, <2>3
<1>3. TypeOK'
  BY <1>1, <1>2 DEF Inductive, TypeOK, options, work, tidying, host, disk, ending, Cleaning
<1>4. JobsOK'
  BY <1>1 DEF Inductive, JobsOK, host, work
<1>5. ~(Clean' /\ doomed' = FALSE)
  BY <1>1 DEF Clean
<1>6. QED BY <1>1, <1>3, <1>4, <1>5, ChecksGoOn DEF ending, disk

-----------------------------------------------------------------------------
(* The cleanup.                                                            *)
LEMMA AfterCleanupIs ==
  ASSUME Inductive, pc \in Cleaning
  PROVE  /\ AfterCleanup \in {"final", "escaped"}
         /\ AfterCleanup = "final" => doomed = FALSE
BY DEF AfterCleanup, Inductive, TypeOK

LEMMA CleanMainStep ==
  ASSUME Inductive, CleanMain
  PROVE  Inductive'
<1>1. /\ pc = "clean_main" /\ pc \in Cleaning
      /\ UNCHANGED <<options, work, attempted, doomed, host, disk, ending, signals, faults>>
  BY DEF CleanMain, Cleaning
<1>2. CASE jobs = {}
  <2>1. pc' = AfterCleanup /\ UNCHANGED <<rows, todo>>
    BY <1>2 DEF CleanMain, Goto
  <2>2. pc' \in {"final", "escaped"} /\ (pc' = "final" => doomed = FALSE)
    BY <1>1, <2>1, AfterCleanupIs
  <2>3. TypeOK'
    BY <1>1, <2>1, <2>2 DEF Inductive, TypeOK, Finishing, Ended, options, work, host, disk, ending
  <2>4. JobsOK'
    BY <1>1, <2>1, <2>2 DEF Inductive, JobsOK, host, work
  <2>5. boxes = {} /\ machines = {}
    BY <1>2, ChecksKnow DEF JobsOK, TypeOK
  <2>6. CleanupOK'
    BY <1>1, <2>2, <2>5 DEF CleanupOK, SandboxesAreReached, NoFail, host
  <2>7. EarnedOK'
    BY <1>1, <1>2, <2>1, <2>2 DEF Inductive, EarnedOK, Clean, Cleaning, Jobs, work
  <2>8. DraftOK'
    BY <1>1, <2>2, DraftStays DEF ending, disk
  <2>9. QED BY <2>3, <2>4, <2>6, <2>7, <2>8 DEF Inductive
<1>3. CASE jobs # {}
  <2>1. /\ pc' = "clean_vms"
        /\ \/ todo' = folders /\ rows' = rows
           \/ todo' = {} /\ rows' = rows \cup {"FAIL"}
    BY <1>3 DEF CleanMain, Goto
  <2>2. TypeOK'
    BY <1>1, <2>1 DEF Inductive, TypeOK, Cleaning, options, work, host, disk, ending
  <2>3. JobsOK'
    BY <1>1, <2>1 DEF Inductive, JobsOK, host, work
  <2>4. "main" \in jobs
    BY <1>3, ChecksKnow DEF Jobs
  <2>5. CleanupOK'
    <3>1. NoFail' => machines' \subseteq todo'
      BY <1>1, <2>1, ChecksKnow DEF NoFail, TypeOK, host
    <3>2. QED BY <1>1, <2>1, <2>4, <3>1 DEF CleanupOK, SandboxesAreReached, Finishing, work
  <2>6. EarnedOK'
    <3>1. Clean' => Clean /\ todo' = folders
      BY <2>1 DEF Clean
    <3>2. Clean' /\ doomed' = FALSE => deployed = VMs /\ jobs = Jobs /\ VMs \subseteq todo'
      BY <1>1, <3>1 DEF Inductive, EarnedOK, JobsOK
    <3>3. QED BY <1>1, <2>1, <3>2 DEF EarnedOK, Cleaning, work
  <2>7. DraftOK'
    BY <1>1, <2>1, DraftStays DEF ending, disk, Cleaning
  <2>8. QED BY <2>2, <2>3, <2>5, <2>6, <2>7 DEF Inductive
<1>4. QED BY <1>2, <1>3

LEMMA CleanVMStep ==
  ASSUME Inductive, CleanVM
  PROVE  Inductive'
<1>1. /\ pc = "clean_vms" /\ pc \in Cleaning
      /\ UNCHANGED <<options, pc, work, doomed, folders, boxes, ending, signals>>
  BY DEF CleanVM, Cleaning
<1>2. PICK vm \in todo, result \in {"PASS", "FAIL"} :
        /\ attempted' = attempted \cup {vm} /\ todo' = todo \ {vm} /\ Save({result})
        /\ machines' \in {machines, machines \ {vm}}
        /\ result = "PASS" => machines' = machines \ {vm}
  BY DEF CleanVM
<1>3. /\ rows \cup {result} \subseteq rows' /\ rows' \subseteq {"PASS", "FAIL", "SKIP"}
      /\ json' \in Reports /\ latest' \in Reports /\ latest' \in {latest, Running}
      /\ emergency' = emergency /\ faults' \in 0..MaxFaults
  BY <1>2, ChecksKnow, Saves
<1>4. todo \subseteq VMs
  BY ChecksKnow DEF TypeOK
<1>5. TypeOK'
  BY <1>1, <1>2, <1>3, <1>4 DEF Inductive, TypeOK, options, work, ending
<1>6. JobsOK'
  BY <1>1, <1>3 DEF Inductive, JobsOK, Clean, work
<1>7. CleanupOK'
  <2>1. NoFail' => NoFail /\ machines' = machines \ {vm}
    BY <1>2, <1>3 DEF NoFail
  <2>2. NoFail' => machines' \subseteq todo'
    BY <1>1, <1>2, <2>1 DEF Inductive, CleanupOK
  <2>3. QED BY <1>1, <2>2 DEF Inductive, CleanupOK, SandboxesAreReached, Finishing, work
<1>8. EarnedOK'
  BY <1>1, <1>2, <1>3 DEF Inductive, EarnedOK, Clean, work
<1>9. DraftOK'
  BY <1>1, <1>3, DraftStays DEF ending
<1>10. QED BY <1>5, <1>6, <1>7, <1>8, <1>9 DEF Inductive

(* What the removal of a sandbox changes.                                  *)
LEMMA BoxesGo ==
  ASSUME Inductive, NEW job \in Jobs, CleanBox(job)
  PROVE  /\ attempted' = attempted \cup {job} /\ boxes' \in {boxes, boxes \ {job}}
         /\ "FAIL" \in rows' \/ boxes' = boxes \ {job}
         /\ rows \subseteq rows' /\ rows' \subseteq {"PASS", "FAIL", "SKIP"}
         /\ json' \in Reports /\ latest' \in Reports /\ latest' \in {latest, Running}
         /\ emergency' = emergency /\ faults' \in 0..MaxFaults
         /\ UNCHANGED <<options, work, todo, doomed, folders, machines, ending, signals>>
<1>1. PICK result \in {"PASS", "FAIL"} :
        Save({result}) /\ boxes' \in {boxes, boxes \ {job}}
        /\ (result = "PASS" => boxes' = boxes \ {job})
  BY DEF CleanBox
<1>2. /\ rows \cup {result} \subseteq rows' /\ rows' \subseteq {"PASS", "FAIL", "SKIP"}
      /\ json' \in Reports /\ latest' \in Reports /\ latest' \in {latest, Running}
      /\ emergency' = emergency /\ faults' \in 0..MaxFaults
  BY <1>1, ChecksKnow, Saves
<1>3. QED BY <1>1, <1>2 DEF CleanBox

LEMMA CleanMainBoxStep ==
  ASSUME Inductive, CleanMainBox
  PROVE  Inductive'
<1>1. pc = "clean_vms" /\ pc \in Cleaning /\ todo = {} /\ CleanBox("main") /\ "main" \in Jobs
  BY DEF CleanMainBox, Cleaning, Jobs
<1>2. /\ attempted' = attempted \cup {"main"} /\ boxes' \in {boxes, boxes \ {"main"}}
      /\ "FAIL" \in rows' \/ boxes' = boxes \ {"main"}
      /\ rows \subseteq rows' /\ rows' \subseteq {"PASS", "FAIL", "SKIP"}
      /\ json' \in Reports /\ latest' \in Reports /\ latest' \in {latest, Running}
      /\ emergency' = emergency /\ faults' \in 0..MaxFaults
      /\ UNCHANGED <<options, work, todo, doomed, folders, machines, ending, signals>>
  BY <1>1, BoxesGo
<1>3. \/ "other" \in jobs /\ pc' = "clean_other"
      \/ "other" \notin jobs /\ pc' \in {"final", "escaped"} /\ (pc' = "final" => doomed = FALSE)
  BY <1>1, AfterCleanupIs DEF CleanMainBox, Goto
<1>4. TypeOK'
  <2>1. pc' \in Cleaning \cup Finishing \cup Ended
    BY <1>3 DEF Cleaning, Finishing, Ended
  <2>2. QED BY <1>1, <1>2, <2>1 DEF Inductive, TypeOK, options, work, ending
<1>5. JobsOK'
  BY <1>2, <1>3 DEF Inductive, JobsOK, Clean, work
<1>6. boxes \subseteq jobs /\ jobs \subseteq {"main", "other"}
  BY ChecksKnow DEF Jobs
<1>7. CleanupOK'
  <2>1. NoFail' => machines' = {} /\ boxes' = boxes \ {"main"}
    BY <1>1, <1>2 DEF NoFail, Inductive, CleanupOK
  <2>2. pc' \in Finishing \cup {"exit"} => boxes' \subseteq attempted'
    BY <1>2, <1>3, <1>6 DEF Finishing
  <2>3. QED BY <1>2, <1>3, <1>6, <2>1, <2>2 DEF CleanupOK, SandboxesAreReached
<1>8. EarnedOK'
  <2>1. Clean' => Clean
    BY <1>2 DEF Clean
  <2>2. Clean' /\ doomed' = FALSE => deployed' = VMs /\ jobs' = Jobs /\ VMs \subseteq attempted'
    BY <1>1, <1>2, <2>1 DEF Inductive, EarnedOK, Cleaning, work
  <2>3. pc' = "final" => jobs' # Jobs
    BY <1>2, <1>3 DEF Jobs, work
  <2>4. QED BY <1>2, <1>3, <2>2, <2>3 DEF EarnedOK, Cleaning
<1>9. DraftOK'
  BY <1>1, <1>2, <1>3, DraftStays DEF ending, Cleaning
<1>10. QED BY <1>4, <1>5, <1>7, <1>8, <1>9 DEF Inductive

LEMMA CleanOtherBoxStep ==
  ASSUME Inductive, CleanOtherBox
  PROVE  Inductive'
<1>1. pc = "clean_other" /\ pc \in Cleaning /\ CleanBox("other") /\ "other" \in Jobs
  BY DEF CleanOtherBox, Cleaning, Jobs
<1>2. /\ attempted' = attempted \cup {"other"} /\ boxes' \in {boxes, boxes \ {"other"}}
      /\ "FAIL" \in rows' \/ boxes' = boxes \ {"other"}
      /\ rows \subseteq rows' /\ rows' \subseteq {"PASS", "FAIL", "SKIP"}
      /\ json' \in Reports /\ latest' \in Reports /\ latest' \in {latest, Running}
      /\ emergency' = emergency /\ faults' \in 0..MaxFaults
      /\ UNCHANGED <<options, work, todo, doomed, folders, machines, ending, signals>>
  BY <1>1, BoxesGo
<1>3. pc' \in {"final", "escaped"} /\ (pc' = "final" => doomed = FALSE)
  BY <1>1, AfterCleanupIs DEF CleanOtherBox, Goto
<1>4. TypeOK'
  <2>1. pc' \in Finishing \cup Ended
    BY <1>3 DEF Finishing, Ended
  <2>2. QED BY <1>1, <1>2, <2>1 DEF Inductive, TypeOK, options, work, ending
<1>5. JobsOK'
  BY <1>2, <1>3 DEF Inductive, JobsOK, Clean, work
<1>6. "main" \in attempted' /\ "other" \in attempted'
  BY <1>1, <1>2 DEF Inductive, CleanupOK
<1>7. CleanupOK'
  <2>1. NoFail' => machines' = {} /\ boxes' = {}
    BY <1>1, <1>2 DEF NoFail, Inductive, CleanupOK
  <2>2. boxes' \subseteq attempted'
    BY <1>2, <1>6, ChecksKnow DEF Jobs
  <2>3. QED BY <1>3, <2>1, <2>2 DEF CleanupOK, SandboxesAreReached
<1>8. EarnedOK'
  <2>1. Clean' => Clean
    BY <1>2 DEF Clean
  <2>2. Clean' /\ doomed' = FALSE => deployed' = VMs /\ jobs' = Jobs /\ VMs \subseteq attempted'
    BY <1>1, <1>2, <2>1 DEF Inductive, EarnedOK, Cleaning, work
  <2>3. attempted' \subseteq VMs \cup Jobs
    BY <1>4 DEF TypeOK
  <2>4. QED BY <1>2, <1>3, <1>6, <2>2, <2>3 DEF EarnedOK, Cleaning, Jobs
<1>9. DraftOK'
  BY <1>1, <1>2, <1>3, DraftStays DEF ending
<1>10. QED BY <1>4, <1>5, <1>7, <1>8, <1>9 DEF Inductive

-----------------------------------------------------------------------------
(* The report.                                                             *)

(* Once the report is made, the run is done with what it is about.         *)
LEMMA ReportsGoOn ==
  ASSUME Inductive, pc \in Finishing, pc' \in Saving \cup {"exit"}, DraftOK', rows \subseteq rows',
         rows' \subseteq {"PASS", "FAIL", "SKIP"},
         UNCHANGED <<options, work, tidying, doomed, host, signals>>, faults' \in 0..MaxFaults,
         {json', latest', emergency', draft'} \subseteq Reports, code' \in {0, 1}
  PROVE  Inductive'
<1>1. TypeOK'
  BY DEF Inductive, TypeOK, options, work, tidying, host, Saving, Finishing, Ended
<1>2. JobsOK'
  BY DEF Inductive, JobsOK, host, work, Clean, Saving, Finishing
<1>3. CleanupOK'
  BY DEF Inductive, CleanupOK, SandboxesAreReached, host, tidying, Saving, Finishing
<1>4. EarnedOK'
  BY DEF Inductive, EarnedOK, Saving, Finishing, Cleaning
<1>5. QED BY <1>1, <1>2, <1>3, <1>4 DEF Inductive

(* A write that fails is counted.                                          *)
LEMMA Faults ==
  ASSUME TypeOK, Fault \/ UNCHANGED faults
  PROVE  faults' \in 0..MaxFaults
<1>1. faults \in 0..MaxFaults /\ MaxFaults \in Nat
  BY RunAssumption DEF TypeOK
<1>2. QED BY <1>1 DEF Fault

LEMMA FinalStep ==
  ASSUME Inductive, Final
  PROVE  Inductive'
<1>1. /\ pc = "final" /\ pc' = "final_json" /\ draft' = FinalReport(rows)
      /\ UNCHANGED <<options, rows, work, tidying, doomed, host, disk, code, signals, faults>>
  BY DEF Final, Goto
<1>2. /\ draft' \in Reports /\ draft'.status \in {"PASS", "FAIL", "PARTIAL"}
      /\ draft'.status # "FAIL" <=> NoFail
      /\ draft'.ready => profile = "full" /\ count = MaxVMs /\ Clean
  BY <1>1, FinalReports DEF NoFail, Clean
<1>3. NoFail => machines = {} /\ boxes = {}
  BY <1>1 DEF Inductive, CleanupOK
<1>4. Clean => Earned
  <2>1. Clean => NoFail
    BY DEF Clean, NoFail
  <2>2. Clean => deployed = VMs /\ attempted = VMs \cup Jobs
    BY <1>1 DEF Inductive, EarnedOK, Cleaning
  <2>3. QED BY <1>3, <2>1, <2>2 DEF Earned
<1>5. Earned' = Earned
  BY <1>1 DEF Earned, work, tidying, host
<1>6. DraftOK'
  <2>1. latest \in {NoReport, Running}
    BY <1>1 DEF Inductive, DraftOK
  <2>2. draft'.ready => Earned'
    BY <1>2, <1>4, <1>5
  <2>3. QED BY <1>1, <1>2, <1>3, <2>1, <2>2 DEF DraftOK, Saving, Finishing, host, disk
<1>7. QED
  BY <1>1, <1>2, <1>6, ReportsGoOn, ChecksKnow DEF TypeOK, disk, Saving, Finishing

(* A file of the report is written, or that fails.                         *)
LEMMA WritingStep ==
  ASSUME Inductive, FinalJson \/ FinalHtml
  PROVE  Inductive'
<1>1. /\ pc \in {"final_json", "final_html"}
      /\ UNCHANGED <<options, rows, work, tidying, doomed, host, latest, emergency, ending, signals>>
  BY DEF FinalJson, FinalHtml, disk
<1>2. /\ pc' \in {"final_html", "final_latest", "final_failed"} /\ json' \in {json, draft}
      /\ pc' \in {"final_html", "final_latest"} => json' = draft
  BY DEF FinalJson, FinalHtml, Goto, Inductive, DraftOK, disk
<1>3. Earned' = Earned
  BY <1>1 DEF Earned, work, tidying, host
<1>4. DraftOK'
  BY <1>1, <1>2, <1>3 DEF Inductive, DraftOK, Saving, Finishing, host, ending
<1>5. faults' \in 0..MaxFaults
  BY ChecksKnow, Faults DEF FinalJson, FinalHtml
<1>6. QED
  BY <1>1, <1>2, <1>4, <1>5, ReportsGoOn, ChecksKnow DEF TypeOK, ending, Saving, Finishing

LEMMA FinalLatestStep ==
  ASSUME Inductive, FinalLatest
  PROVE  Inductive'
<1>1. /\ pc = "final_latest"
      /\ UNCHANGED <<options, rows, work, tidying, doomed, host, json, emergency, draft, signals>>
  BY DEF FinalLatest
<1>2. Earned' = Earned
  BY <1>1 DEF Earned, work, tidying, host
<1>3. faults' \in 0..MaxFaults
  BY ChecksKnow, Faults DEF FinalLatest
<1>4. /\ json = draft /\ draft.status \in {"PASS", "FAIL", "PARTIAL"} /\ draft \in Reports
      /\ draft.ready \in BOOLEAN
  BY <1>1 DEF Inductive, DraftOK, TypeOK, Saving, Finishing, Reports
<1>5. CASE latest' = draft /\ Exit(draft)
  <2>1. /\ pc' = "exit" /\ code' \in {0, 1}
        /\ code' = 0 <=> draft.status # "FAIL" /\ (profile = "full" => draft.ready)
    BY <1>5 DEF Exit, Goto
  <2>2. DraftOK'
    BY <1>1, <1>2, <1>4, <1>5, <2>1
       DEF Inductive, DraftOK, Saving, Finishing, Ended, host, options
  <2>3. QED
    BY <1>1, <1>3, <1>4, <1>5, <2>1, <2>2, ReportsGoOn, ChecksKnow DEF TypeOK, Saving, Finishing
<1>6. CASE pc' = "final_failed" /\ UNCHANGED <<latest, code>>
  <2>1. DraftOK'
    BY <1>1, <1>2, <1>4, <1>6 DEF Inductive, DraftOK, Saving, Finishing, host
  <2>2. QED
    BY <1>1, <1>3, <1>6, <2>1, ReportsGoOn, ChecksKnow DEF TypeOK, Saving, Finishing
<1>7. QED BY <1>5, <1>6 DEF FinalLatest, Goto

LEMMA FinalFailedStep ==
  ASSUME Inductive, FinalFailed
  PROVE  Inductive'
<1>1. /\ pc = "final_failed" /\ rows' = rows \cup {"FAIL"} /\ draft' = FinalReport(rows')
      /\ Exit(draft') /\ emergency' \in {emergency, draft'}
      /\ UNCHANGED <<options, work, tidying, doomed, host, json, latest, signals>>
  BY DEF FinalFailed
<1>2. draft' \in Reports /\ draft'.status = "FAIL" /\ ~draft'.ready
  BY <1>1, FinalReports
<1>3. pc' = "exit" /\ code' = 1
  BY <1>1, <1>2 DEF Exit, Goto
<1>4. faults' \in 0..MaxFaults
  BY ChecksKnow, Faults DEF FinalFailed
<1>5. latest \in {NoReport, Running}
  BY <1>1 DEF Inductive, DraftOK
<1>6. DraftOK'
  BY <1>1, <1>2, <1>3, <1>5 DEF DraftOK, Saving, Finishing, Ended
<1>7. rows' \subseteq {"PASS", "FAIL", "SKIP"}
  BY <1>1, ChecksKnow DEF TypeOK
<1>8. QED
  BY <1>1, <1>2, <1>3, <1>4, <1>6, <1>7, ReportsGoOn, ChecksKnow DEF TypeOK, Saving, Finishing

(* A signal that nothing catches.                                          *)
LEMMA EscapeStep ==
  ASSUME Inductive, Escape
  PROVE  Inductive'
<1>1. /\ pc \in Cleaning \cup Finishing /\ pc' = "escaped" /\ machines' \subseteq machines
      /\ UNCHANGED <<options, rows, work, tidying, doomed, folders, boxes, disk, ending, faults>>
  BY DEF Escape, Goto
<1>2. signals' \in 0..MaxSignals
  BY ChecksKnow, RunAssumption DEF Escape, Signal, TypeOK
<1>3. TypeOK'
  BY <1>1, <1>2 DEF Inductive, TypeOK, options, work, tidying, disk, ending, Ended
<1>4. JobsOK' /\ CleanupOK' /\ EarnedOK'
  BY <1>1 DEF Inductive, JobsOK, CleanupOK, SandboxesAreReached, EarnedOK, Cleaning, Finishing, work
<1>5. Earned => Earned'
  BY <1>1 DEF Earned, work, tidying
<1>6. latest \in {NoReport, Running} /\ (draft.ready => Earned)
  BY <1>1 DEF Inductive, DraftOK, Cleaning, Finishing
<1>7. DraftOK'
  BY <1>1, <1>5, <1>6 DEF DraftOK, Saving, Finishing, Ended, disk, ending
<1>8. QED BY <1>3, <1>4, <1>7 DEF Inductive

LEMMA InductiveStep == Inductive /\ [Next]_vars => Inductive'
<1> SUFFICES ASSUME Inductive, [Next]_vars PROVE Inductive'
  OBVIOUS
<1>1. CASE UNCHANGED vars
  <2>1. TypeOK' /\ JobsOK'
    BY <1>1 DEF vars, options, work, tidying, host, disk, ending, Inductive, TypeOK, JobsOK, Clean
  <2>2. CleanupOK' /\ EarnedOK'
    BY <1>1 DEF vars, options, work, tidying, host, disk, ending, Inductive, CleanupOK,
       SandboxesAreReached, NoFail, EarnedOK, Clean
  <2>3. DraftOK'
    BY <1>1 DEF vars, options, work, tidying, host, disk, ending, Inductive, DraftOK, Earned
  <2>4. QED BY <2>1, <2>2, <2>3 DEF Inductive
<1>2. CASE Steps
  BY <1>2, HostStep, SoftwareStep, PlainCheckStep, JobStep, SandboxStep, NoVMsStep, DeployStep,
     VMChecksStep, RaiseStep, HandlerStep, CleanMainStep, CleanVMStep, CleanMainBoxStep,
     CleanOtherBoxStep, FinalStep, WritingStep, FinalLatestStep, FinalFailedStep DEF Steps
<1>3. CASE Interrupt
  BY <1>3, InterruptStep
<1>4. CASE Escape
  BY <1>4, EscapeStep
<1>5. QED BY <1>1, <1>2, <1>3, <1>4 DEF Next

LEMMA InductiveHolds == Spec => []Inductive
BY InductiveInit, InductiveStep, PTL DEF Spec

-----------------------------------------------------------------------------
(* Types, and that the run stays within its quota of VMs.                  *)
THEOREM RunTypesHold == Spec => []TypeOK
<1>1. Inductive => TypeOK
  BY DEF Inductive
<1>2. QED BY <1>1, InductiveHolds, PTL

(* reports/latest.json calls the environment ready only of a run that      *)
(* deployed every VM of the quota and left nothing of its own.             *)
THEOREM ReadyReportsAreEarned == Spec => []ReadyIsEarned
<1>1. Inductive => ReadyIsEarned
  <2> SUFFICES ASSUME Inductive, latest.ready PROVE Earned
    BY DEF ReadyIsEarned, Earned
  <2>1. latest = draft
    BY ReportFacts DEF Inductive, DraftOK
  <2>2. QED BY <2>1 DEF Inductive, DraftOK
<1>2. QED BY <1>1, InductiveHolds, PTL

(* The exit code and reports/latest.json agree, whatever was not saved.    *)
THEOREM ExitsTellTheLatest == Spec => []ExitTellsLatest
<1>1. Inductive => ExitTellsLatest
  BY ReportFacts DEF Inductive, DraftOK, ExitTellsLatest
<1>2. QED BY <1>1, InductiveHolds, PTL

(* A run that gets to its report has tried to remove every sandbox that it *)
(* may have made.                                                          *)
THEOREM AllSandboxesAreReached == Spec => []SandboxesAreReached
<1>1. Inductive => SandboxesAreReached
  BY DEF Inductive, CleanupOK
<1>2. QED BY <1>1, InductiveHolds, PTL

(* A run that leaves a machine or a sandbox on the host exits with 1.      *)
THEOREM AllLeftoversAreReported == Spec => []LeftoversAreReported
<1>1. Inductive => LeftoversAreReported
  BY DEF Inductive, DraftOK, LeftoversAreReported, TypeOK
<1>2. QED BY <1>1, InductiveHolds, PTL
=============================================================================
