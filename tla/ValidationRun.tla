---------------------------- MODULE ValidationRun ----------------------------
(***************************************************************************)
(* One `agentlab validate` (agentlab/validate.py): checks that make jobs,  *)
(* sandboxes and VMs, the cleanup of what they made, and the report of it, *)
(* saved again after every check.                                          *)
(*                                                                         *)
(* The process may be interrupted at any step (Ctrl-C, SIGTERM), any check *)
(* and any removal may fail, and so may any write of the report.  Of the   *)
(* rows of a report only their results matter.  `main` is the job the      *)
(* checks work in, `other` the one that must stay isolated from it.        *)
(***************************************************************************)
EXTENDS Naturals, FiniteSets

CONSTANTS VMs,         \* the VMs a run may deploy, MAX_VMS of them
          MaxSignals,  \* bound on Ctrl-C and SIGTERM
          MaxFaults    \* bound on failed writes of the report

ASSUME RunAssumption == /\ IsFiniteSet(VMs) /\ VMs # {}
                        /\ VMs \cap {"main", "other"} = {}
                        /\ MaxSignals \in Nat /\ MaxFaults \in Nat

MaxVMs   == Cardinality(VMs)
Profiles == {"software", "sandbox", "full"}
Jobs     == {"main", "other"}

VARIABLES
  profile, count,   \* the options --profile and --vm-count
  pc,
  rows,             \* the results among the rows
  hostOK, fullOK,   \* no FAIL among the sandbox's, among all host checks
  jobs,             \* self.jobs: what cleanup will come to
  tried, deployed,  \* VMs whose deployment was tried, VMs that were returned
  todo, attempted,  \* what cleanup has listed, what it has come to
  doomed            \* a signal interrupted the handler of a signal

VARIABLES           \* what outlives the run
  folders,          \* VMs with a folder under the main job
  machines,         \* those of them that are not destroyed
  boxes,            \* jobs with a sandbox
  json, latest,     \* report.json of this run; reports/latest.json
  emergency         \* the report under /tmp

VARIABLES draft,    \* the final report, as it is being saved
          code,     \* the exit code
          signals, faults

options == <<profile, count>>
work    == <<hostOK, fullOK, jobs, tried, deployed>>
tidying == <<todo, attempted>>
host    == <<folders, machines, boxes>>
disk    == <<json, latest, emergency>>
ending  == <<draft, code>>
vars == <<options, pc, rows, work, tidying, doomed, host, disk, ending, signals, faults>>

Main == {"host", "software", "image_build", "job_create", "sandbox_create", "second_job",
         "second_sandbox", "build", "no_vms", "vm_prepare", "vm_deploy"}
Cleaning  == {"clean_main", "clean_vms", "clean_other"}
Finishing == {"final", "final_json", "final_html", "final_latest", "final_failed"}
Ended     == {"exit", "escaped"}

Reports == [status : {"NONE", "RUNNING", "FAIL", "PASS", "PARTIAL"}, ready : BOOLEAN]
NoReport == [status |-> "NONE", ready |-> FALSE]   \* none of this run's
Running  == [status |-> "RUNNING", ready |-> FALSE]

(* The variables hold what the program can put in them; a machine has a    *)
(* folder and a VM that was returned was tried.                            *)
TypeOK ==
  /\ profile \in Profiles /\ count \in 1..MaxVMs
  /\ pc \in Main \cup Cleaning \cup Finishing \cup Ended \cup {"handler"}
  /\ rows \subseteq {"PASS", "FAIL", "SKIP"}
  /\ hostOK \in BOOLEAN /\ fullOK \in BOOLEAN /\ jobs \subseteq Jobs
  /\ tried \subseteq VMs /\ deployed \subseteq tried /\ Cardinality(tried) <= count
  /\ todo \subseteq folders /\ attempted \subseteq VMs \cup Jobs /\ doomed \in BOOLEAN
  /\ folders \subseteq VMs /\ machines \subseteq folders /\ boxes \subseteq jobs
  /\ json \in Reports /\ latest \in Reports /\ emergency \in Reports
  /\ draft \in Reports
  /\ code \in {0, 1} /\ signals \in 0..MaxSignals /\ faults \in 0..MaxFaults

Init ==
  /\ profile \in Profiles /\ count \in 1..MaxVMs /\ pc = "host" /\ rows = {}
  /\ hostOK = FALSE /\ fullOK = FALSE /\ jobs = {} /\ tried = {} /\ deployed = {}
  /\ todo = {} /\ attempted = {} /\ doomed = FALSE
  /\ folders = {} /\ machines = {} /\ boxes = {}
  /\ json = NoReport /\ latest = NoReport /\ emergency = NoReport
  /\ draft = Running /\ code = 1 /\ signals = 0 /\ faults = 0

-----------------------------------------------------------------------------
Fault  == faults < MaxFaults /\ faults' = faults + 1
Signal == signals < MaxSignals /\ signals' = signals + 1

Goto(label) == pc' = label

(* Results become rows and the report is saved as RUNNING; a write that    *)
(* fails becomes a row too, and may come after report.json was written.    *)
Save(results) ==
  /\ UNCHANGED emergency
  /\ \/ /\ rows' = rows \cup results
        /\ json' = Running /\ latest' = Running
        /\ UNCHANGED faults
     \/ /\ Fault
        /\ rows' = rows \cup results \cup {"FAIL"}
        /\ json' \in {json, Running}
        /\ UNCHANGED latest

(* What a check that fails, raises or is interrupted may leave behind.     *)
Leftovers ==
  \/ UNCHANGED host
  \/ pc = "sandbox_create" /\ boxes' = boxes \cup {"main"} /\ UNCHANGED <<folders, machines>>
  \/ pc = "second_sandbox" /\ boxes' = boxes \cup {"other"} /\ UNCHANGED <<folders, machines>>
  \/ /\ pc = "vm_deploy" /\ Cardinality(tried) < count
     /\ \E vm \in VMs \ tried :
          /\ folders' = folders \cup {vm}
          /\ machines' \in {machines, machines \cup {vm}}
     /\ UNCHANGED boxes

-----------------------------------------------------------------------------
(* The checks.                                                             *)

(* verify_host, whose rows are saved with the next check's.                *)
HostChecks ==
  /\ pc = "host" /\ Goto("software")
  /\ \E ok, full \in BOOLEAN :
       /\ full => ok
       /\ hostOK' = ok /\ fullOK' = full
       /\ rows' = rows \cup {"PASS"} \cup (IF full THEN {} ELSE {"FAIL"})
  /\ UNCHANGED <<options, jobs, tried, deployed, tidying, doomed, host, disk, ending, signals,
                 faults>>

(* The software's own tests; without them, or without the host for it, the *)
(* sandbox is skipped and the VMs with it.                                 *)
SoftwareTests ==
  /\ pc = "software"
  /\ \E result \in {"PASS", "FAIL"} :
       IF profile # "software" /\ hostOK /\ result = "PASS"
         THEN Save({result}) /\ Goto("image_build")
         ELSE Save({result, "SKIP"}) /\ Goto("clean_main")
  /\ UNCHANGED <<options, work, tidying, doomed, host, ending, signals>>

(* A check with nothing to undo: where its success and its failure lead.   *)
Check(label, passes, fails) ==
  /\ pc = label
  /\ \/ Save({"PASS"}) /\ Goto(passes)
     \/ Save({"FAIL"}) /\ Goto(fails)
  /\ UNCHANGED <<options, work, tidying, doomed, host, ending, signals>>

ImageBuild == Check("image_build", "job_create", "no_vms")

(* A new job is listed for cleanup before anything runs in it.             *)
(* Mutant: the second job is not.                                          *)
JobCreateForgets(label, job, passes, fails) ==
  /\ pc = label
  /\ \/ /\ Save({"PASS"}) /\ Goto(passes)
        /\ jobs' = IF job = "main" THEN jobs \cup {job} ELSE jobs
     \/ Save({"FAIL"}) /\ Goto(fails) /\ UNCHANGED jobs
  /\ UNCHANGED <<options, hostOK, fullOK, tried, deployed, tidying, doomed, host, ending, signals>>

JobCreate(label, job, passes, fails) ==
  /\ pc = label
  /\ \/ Save({"PASS"}) /\ Goto(passes) /\ jobs' = jobs \cup {job}
     \/ Save({"FAIL"}) /\ Goto(fails) /\ UNCHANGED jobs
  /\ UNCHANGED <<options, hostOK, fullOK, tried, deployed, tidying, doomed, host, ending, signals>>

FirstJob  == JobCreate("job_create", "main", "sandbox_create", "no_vms")
SecondJob == JobCreate("second_job", "other", "second_sandbox", "build")

SandboxCreate(label, job, passes, fails) ==
  /\ pc = label
  /\ \/ /\ Save({"PASS"}) /\ Goto(passes)
        /\ boxes' = boxes \cup {job} /\ UNCHANGED <<folders, machines>>
     \/ Save({"FAIL"}) /\ Goto(fails) /\ Leftovers
  /\ UNCHANGED <<options, work, tidying, doomed, ending, signals>>

FirstSandbox  == SandboxCreate("sandbox_create", "main", "second_job", "no_vms")
SecondSandbox == SandboxCreate("second_sandbox", "other", "build", "build")

(* The checks in the sandbox, up to a build: one that fails may still let  *)
(* the rest run to a build.                                                *)
BuildWorkflow ==
  LET vms == IF profile = "full" /\ fullOK THEN "vm_prepare" ELSE "no_vms"
  IN  Check("build", vms, "no_vms") \/ Check("build", vms, vms)

NoVMs ==
  /\ pc = "no_vms" /\ Goto("clean_main")
  /\ rows' = rows \cup {"SKIP"}
  /\ UNCHANGED <<options, work, tidying, doomed, host, disk, ending, signals, faults>>

(* The base image and the job's image.                                     *)
VMPrepare == Check("vm_prepare", "vm_deploy", "clean_main")

(* Mutant: one deployment too many is tried.                               *)
DeployVMOver ==
  /\ pc = "vm_deploy" /\ Cardinality(tried) <= count
  /\ \E vm \in VMs \ tried :
       /\ tried' = tried \cup {vm} /\ deployed' = deployed \cup {vm} /\ Save({"PASS"})
       /\ folders' = folders \cup {vm} /\ machines' = machines \cup {vm}
  /\ UNCHANGED <<options, pc, hostOK, fullOK, jobs, boxes, tidying, doomed, ending, signals>>

DeployVM ==
  /\ pc = "vm_deploy" /\ Cardinality(tried) < count
  /\ \E vm \in VMs \ tried :
       /\ tried' = tried \cup {vm}
       /\ \/ /\ Save({"PASS"}) /\ deployed' = deployed \cup {vm}
             /\ folders' = folders \cup {vm} /\ machines' = machines \cup {vm}
          \/ /\ Save({"FAIL"}) /\ UNCHANGED deployed
             /\ folders' \in {folders, folders \cup {vm}}
             /\ machines' \in {machines, machines \cup (folders' \cap {vm})}
  /\ UNCHANGED <<options, pc, hostOK, fullOK, jobs, boxes, tidying, doomed, ending, signals>>

(* The checks of the VMs; that of the quota needs as many as it allows.    *)
VMChecks ==
  /\ pc = "vm_deploy" /\ Cardinality(tried) = count /\ Goto("clean_main")
  /\ \E result \in {"PASS", "FAIL"} :
       Save({result} \cup (IF Cardinality(deployed) = MaxVMs THEN {} ELSE {"SKIP"}))
  /\ UNCHANGED <<options, work, tidying, doomed, host, ending, signals>>

-----------------------------------------------------------------------------
(* Interruption.                                                           *)

(* The step that is interrupted may have taken effect, and saves the       *)
(* report on its way out.                                                  *)
Interrupt ==
  /\ pc \in Main /\ Signal /\ Goto("handler")
  /\ Leftovers
  /\ Save({}) \/ UNCHANGED <<rows, disk, faults>>
  /\ UNCHANGED <<options, work, tidying, doomed, ending>>

(* What is done between two checks raises.                                 *)
Raise ==
  /\ pc \in {"host", "second_job", "second_sandbox", "build", "vm_prepare"} /\ Goto("handler")
  /\ UNCHANGED <<options, rows, work, tidying, doomed, host, disk, ending, signals, faults>>

(* An interruption, like an error, is a row; a second one goes through     *)
(* the cleanup and out of the program.                                     *)
(* Mutant: it is no row.                                                   *)
HandlerSilent ==
  /\ pc = "handler" /\ Goto("clean_main")
  /\ UNCHANGED <<options, rows, work, tidying, doomed, host, disk, ending, signals, faults>>

Handler ==
  /\ pc = "handler" /\ Goto("clean_main")
  /\ \/ rows' = rows \cup {"FAIL"} /\ UNCHANGED <<doomed, signals>>
     \/ Signal /\ doomed' = TRUE /\ UNCHANGED rows
  /\ UNCHANGED <<options, work, tidying, host, disk, ending, faults>>

(* Nothing catches an interruption of the cleanup or of the report; the    *)
(* removal under way may have taken effect.                                *)
Escape ==
  /\ pc \in Cleaning \cup Finishing /\ Signal /\ Goto("escaped")
  /\ machines' \in {machines} \cup {machines \ {vm} : vm \in todo}
  /\ UNCHANGED <<options, rows, work, tidying, doomed, folders, boxes, disk, ending, faults>>

-----------------------------------------------------------------------------
(* The cleanup.                                                            *)

AfterCleanup == IF doomed THEN "escaped" ELSE "final"

(* The VMs of the main job are listed, unless that fails.                  *)
CleanMain ==
  /\ pc = "clean_main"
  /\ IF jobs = {}
       THEN Goto(AfterCleanup) /\ UNCHANGED <<rows, todo>>
       ELSE /\ Goto("clean_vms")
            /\ \/ todo' = folders /\ UNCHANGED rows
               \/ todo' = {} /\ rows' = rows \cup {"FAIL"}
  /\ UNCHANGED <<options, work, attempted, doomed, host, disk, ending, signals, faults>>

(* vm_destroy, once for each.  Mutants: the VMs are listed again after a   *)
(* failure; a failure is no row.                                           *)
CleanVMRetried ==
  /\ pc = "clean_vms"
  /\ \E vm \in todo :
       /\ attempted' = attempted \cup {vm} /\ todo' = todo \ {vm}
       /\ \/ Save({"PASS"}) /\ machines' = machines \ {vm} /\ UNCHANGED pc
          \/ Save({"FAIL"}) /\ UNCHANGED machines /\ Goto("clean_main")
  /\ UNCHANGED <<options, work, doomed, folders, boxes, ending, signals>>

CleanVMUnrecorded ==
  /\ pc = "clean_vms"
  /\ \E vm \in todo :
       /\ attempted' = attempted \cup {vm} /\ todo' = todo \ {vm}
       /\ Save({}) /\ machines' \in {machines, machines \ {vm}}
  /\ UNCHANGED <<options, pc, work, doomed, folders, boxes, ending, signals>>

CleanVM ==
  /\ pc = "clean_vms"
  /\ \E vm \in todo :
       /\ attempted' = attempted \cup {vm} /\ todo' = todo \ {vm}
       /\ \/ Save({"PASS"}) /\ machines' = machines \ {vm}
          \/ Save({"FAIL"}) /\ machines' \in {machines, machines \ {vm}}
  /\ UNCHANGED <<options, pc, work, doomed, folders, boxes, ending, signals>>

(* sandbox_destroy, for the main job after its VMs, then for the other.    *)
CleanBox(job) ==
  /\ attempted' = attempted \cup {job}
  /\ \/ Save({"PASS"}) /\ boxes' = boxes \ {job}
     \/ Save({"FAIL"}) /\ boxes' \in {boxes, boxes \ {job}}
  /\ UNCHANGED <<options, work, todo, doomed, folders, machines, ending, signals>>

CleanMainBox ==
  /\ pc = "clean_vms" /\ todo = {}
  /\ Goto(IF "other" \in jobs THEN "clean_other" ELSE AfterCleanup)
  /\ CleanBox("main")

CleanOtherBox == pc = "clean_other" /\ Goto(AfterCleanup) /\ CleanBox("other")

-----------------------------------------------------------------------------
(* The final report: report.json, then what is made of it for a reader,    *)
(* then the pointer to it.                                                 *)

FinalReport(results) ==
  LET ready == profile = "full" /\ count = MaxVMs /\ results \cap {"FAIL", "SKIP"} = {}
  IN  [status |-> CASE "FAIL" \in results -> "FAIL" [] ready -> "PASS" [] OTHER -> "PARTIAL",
       ready |-> ready]

Exit(report) ==
  /\ Goto("exit")
  /\ code' = IF report.status = "FAIL" \/ (profile = "full" /\ ~report.ready) THEN 1 ELSE 0

Final ==
  /\ pc = "final" /\ Goto("final_json")
  /\ draft' = FinalReport(rows)
  /\ UNCHANGED <<options, rows, work, tidying, doomed, host, disk, code, signals, faults>>

FinalJson ==
  /\ pc = "final_json"
  /\ \/ json' = draft /\ Goto("final_html") /\ UNCHANGED faults
     \/ Fault /\ Goto("final_failed") /\ UNCHANGED json
  /\ UNCHANGED <<options, rows, work, tidying, doomed, host, latest, emergency, ending, signals>>

FinalHtml ==
  /\ pc = "final_html"
  /\ \/ Goto("final_latest") /\ UNCHANGED faults
     \/ Fault /\ Goto("final_failed")
  /\ UNCHANGED <<options, rows, work, tidying, doomed, host, disk, ending, signals>>

FinalLatest ==
  /\ pc = "final_latest"
  /\ \/ latest' = draft /\ Exit(draft) /\ UNCHANGED faults
     \/ Fault /\ Goto("final_failed") /\ UNCHANGED <<latest, code>>
  /\ UNCHANGED <<options, rows, work, tidying, doomed, host, json, emergency, draft, signals>>

(* A report that was not saved fails the run and is saved under /tmp, or   *)
(* not at all.  Mutant: it does not fail the run.                          *)
FinalFailedSilent ==
  /\ pc = "final_failed" /\ Exit(draft)
  /\ UNCHANGED <<options, rows, work, tidying, doomed, host, disk, draft, signals, faults>>

FinalFailed ==
  /\ pc = "final_failed"
  /\ rows' = rows \cup {"FAIL"}
  /\ draft' = FinalReport(rows') /\ Exit(draft')
  /\ \/ emergency' = draft' /\ UNCHANGED faults
     \/ Fault /\ UNCHANGED emergency
  /\ UNCHANGED <<options, work, tidying, doomed, host, json, latest, signals>>

Steps ==
  \/ HostChecks \/ SoftwareTests \/ ImageBuild \/ FirstJob \/ FirstSandbox
  \/ SecondJob \/ SecondSandbox \/ BuildWorkflow \/ NoVMs
  \/ VMPrepare \/ DeployVM \/ VMChecks \/ Raise \/ Handler
  \/ CleanMain \/ CleanVM \/ CleanMainBox \/ CleanOtherBox
  \/ Final \/ FinalJson \/ FinalHtml \/ FinalLatest \/ FinalFailed

Next == Steps \/ Interrupt \/ Escape

(* Every command a check runs has a deadline, so every step comes to an    *)
(* end.  Nothing says a signal comes.                                      *)
Spec == Init /\ [][Next]_vars /\ WF_vars(Steps)

-----------------------------------------------------------------------------
(* A report that calls the environment ready was earned: all VMs the quota *)
(* allows were deployed, cleanup came to all that was made, and nothing of *)
(* it is left on the host.                                                 *)
ReadyIsEarned ==
  latest.ready => /\ deployed = VMs /\ attempted = VMs \cup Jobs
                  /\ machines = {} /\ boxes = {}

(* The exit code and the pointer that is read afterwards agree: a run      *)
(* exits with 0 exactly when the pointer was moved to its final report,    *)
(* and that report is neither failed nor, for the full profile, unready.   *)
ExitTellsLatest ==
  pc = "exit" =>
    /\ code = 0 <=> /\ latest.status \in {"PASS", "PARTIAL"}
                    /\ profile = "full" => latest.ready
    /\ code = 0 => json = latest

(* Whatever a run was doing when it failed or was interrupted, a run that  *)
(* gets to its report has come to every sandbox it may have made.          *)
SandboxesAreReached == pc \in Finishing \cup {"exit"} => boxes \subseteq attempted

(* What a run leaves on the host, it reports: it exits with 1.             *)
LeftoversAreReported ==
  pc = "exit" /\ (machines # {} \/ boxes # {}) => code = 1

(* A run ends, whatever fails in it.                                       *)
Ends == <>(pc \in Ended)

(* docs/operations.md: Ctrl-C or SIGTERM during validation triggers        *)
(* cleanup and a failed report.                                            *)
InterruptGivesFailedReport ==
  pc \in Ended /\ signals > 0 => latest.status = "FAIL" /\ boxes \subseteq attempted
=============================================================================
