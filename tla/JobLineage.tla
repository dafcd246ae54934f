------------------------------ MODULE JobLineage ------------------------------
(***************************************************************************)
(* The evidence of one job: the patch it selected, the build, the image    *)
(* and the guest test that stand for its source (agentlab/build.py,        *)
(* local_tools.py, vm.py: image_register, image, TestBroker; store.py).    *)
(*                                                                         *)
(* Two processes may drive the job at once. Its lock orders them, but the  *)
(* sandbox's own code edits the source whenever it likes, and what a build *)
(* makes of it until that is imported; and a process may die between any   *)
(* two files it replaces.                                                  *)
(*                                                                         *)
(* A source tree is one of the contents its tests tell apart, an image is  *)
(* named by its build (its manifest names the base too, BaseImage), and a  *)
(* VM by its image.                                                        *)
(***************************************************************************)
EXTENDS Naturals

CONSTANTS Procs, Patches, Builds, NoProc, NoPatch, NoBuild,
          Variants,   \* the patch variants callers ask for
          MaxEdits,   \* bound on the edits of the sandbox's code
          MaxFaults   \* bound on failures, deaths, forged and damaged wheels

ASSUME LineageAssumption ==
  /\ NoProc \notin Procs /\ NoPatch \notin Patches /\ NoBuild \notin Builds
  /\ Variants \subseteq {"fix", "next", "invalid"}
  /\ MaxEdits \in Nat /\ MaxFaults \in Nat

Contents == {"sub", "add", "int"}   \* return a - b, a + b, int(a + b)
Working  == {"add", "int"}          \* those the toy tests accept

Replaces(variant) == CASE variant = "fix"     -> "sub"
                       [] variant = "next"    -> "add"
                       [] variant = "invalid" -> "missing"
Result(variant) == IF variant = "next" THEN "int" ELSE "add"

VARIABLES
  source,   \* workspace/source, in the sandbox's reach
  state,    \* state.json
  patches,  \* the variant of each registered patch, "none" before
  applied,  \* applied_source_hash of each patch record, "none" without
  built,    \* each build's record
  wheels,   \* the wheel in builds/ of each build: intact, damaged or none
  images,   \* builds with an image record
  vms,      \* images a VM was made for
  passed,   \* images whose wheel passed in a guest
  jobLock

VARIABLES   \* of a process
  pc,
  arg,      \* the patch or the build (image) it works on
  seen,     \* the source hash it took
  copy,     \* what the container copied, then the wheel it made of that, "none"
            \* without: in the sandbox's reach until the wheel is imported
  forged,   \* the sandbox's code has replaced the copy or that wheel
  loaded    \* the state.json it will save

VARIABLES
  newest,   \* the patch a caller selected last
  began,    \* edits when a process took its first source hash
  edits, faults

evidence == <<patches, applied, built, wheels, images, vms, passed>>
memory   == <<arg, seen, copy, forged, loaded, began>>
vars == <<source, state, evidence, jobLock, pc, memory, newest, edits, faults>>

BuildLabels == {"build_hash", "build_copy", "build_compile", "build_verify",
                "build_import", "build_select"}
Labels == {"idle", "patch_write", "patch_select", "apply_git", "apply_invalidate",
           "apply_hash", "apply_record", "build_start", "build_record", "build_state",
           "job_status", "sandbox_ready", "register_check", "register_write",
           "register_select", "deploy", "test_check", "test_artifact", "test_guest",
           "test_state"} \cup BuildLabels

States == [patch : Patches \cup {NoPatch}, build : Builds \cup {NoBuild},
           image : Builds \cup {NoBuild},
           build_status : {"NOT_RUN", "RUNNING", "PASS", "FAILED"},
           status : {"CREATED", "READY", "RUNNING", "FAILED", "COMPLETE"}]

NoRecord == [status |-> "none", source |-> "none", patch |-> NoPatch,
             wheel |-> "none", churn |-> 0, forged |-> FALSE]

Created == [patch |-> NoPatch, build |-> NoBuild, image |-> NoBuild,
            build_status |-> "NOT_RUN", status |-> "CREATED"]

TypeOK ==
  /\ source \in Contents /\ state \in States
  /\ patches \in [Patches -> {"fix", "next", "invalid", "none"}]
  /\ applied \in [Patches -> Contents \cup {"none"}]
  /\ built \in [Builds -> [status : {"none", "PASS", "FAIL"},
                           source : Contents \cup {"none"},
                           patch : Patches \cup {NoPatch},
                           wheel : Contents \cup {"none"}, churn : Nat,
                           forged : BOOLEAN]]
  /\ wheels \in [Builds -> {"none", "intact", "damaged"}]
  /\ images \subseteq Builds /\ vms \subseteq Builds /\ passed \subseteq Builds
  /\ jobLock \in Procs \cup {NoProc} /\ pc \in [Procs -> Labels]
  /\ arg \in [Procs -> Patches \cup Builds \cup {NoBuild}]
  /\ seen \in [Procs -> Contents \cup {"none"}]
  /\ copy \in [Procs -> Contents \cup {"none"}] /\ forged \in [Procs -> BOOLEAN]
  /\ loaded \in [Procs -> States]
  /\ newest \in Patches \cup {NoPatch} /\ began \in [Procs -> 0..MaxEdits]
  /\ edits \in 0..MaxEdits /\ faults \in 0..MaxFaults

Init ==
  /\ source = "sub" /\ state = Created
  /\ patches = [p \in Patches |-> "none"] /\ applied = [p \in Patches |-> "none"]
  /\ built = [b \in Builds |-> NoRecord] /\ wheels = [b \in Builds |-> "none"]
  /\ images = {} /\ vms = {} /\ passed = {}
  /\ jobLock = NoProc /\ pc = [q \in Procs |-> "idle"]
  /\ arg = [q \in Procs |-> NoBuild]
  /\ seen = [q \in Procs |-> "none"] /\ copy = [q \in Procs |-> "none"]
  /\ forged = [q \in Procs |-> FALSE]
  /\ loaded = [q \in Procs |-> Created] /\ began = [q \in Procs |-> 0]
  /\ newest = NoPatch /\ edits = 0 /\ faults = 0

-----------------------------------------------------------------------------
Goto(q, label) == pc' = [pc EXCEPT ![q] = label]

Fault == faults < MaxFaults /\ faults' = faults + 1

(* Registry._call: the operation runs with the job's lock held.            *)
(* Mutant: it runs without.                                                *)
BeginUnlocked(q, label, a) ==
  /\ pc[q] = "idle" /\ jobLock' = q
  /\ Goto(q, label)
  /\ arg' = [arg EXCEPT ![q] = a]
  /\ UNCHANGED <<source, state, evidence, seen, copy, forged, loaded, began, newest, edits,
                 faults>>

Begin(q, label, a) ==
  /\ pc[q] = "idle" /\ jobLock = NoProc /\ jobLock' = q
  /\ Goto(q, label)
  /\ arg' = [arg EXCEPT ![q] = a]
  /\ UNCHANGED <<source, state, evidence, seen, copy, forged, loaded, began, newest, edits,
                 faults>>

Finish(q) ==
  /\ Goto(q, "idle") /\ jobLock' = NoProc
  /\ arg' = [arg EXCEPT ![q] = NoBuild]
  /\ seen' = [seen EXCEPT ![q] = "none"] /\ copy' = [copy EXCEPT ![q] = "none"]
  /\ forged' = [forged EXCEPT ![q] = FALSE]
  /\ loaded' = [loaded EXCEPT ![q] = Created] /\ began' = [began EXCEPT ![q] = 0]

(* Store.invalidate.                                                       *)
Invalidate(patch) ==
  state' = [state EXCEPT !.patch = patch, !.build = NoBuild, !.image = NoBuild,
                         !.build_status = "NOT_RUN", !.status = "READY"]

(* BuildBroker.current: the record named by state.json still describes the *)
(* source, its patch and the wheel; what does not match is revoked.        *)
Passing == state.build # NoBuild /\ state.build_status = "PASS"
Matches == built[state.build].source = source /\ built[state.build].patch = state.patch
Current == Passing /\ Matches /\ wheels[state.build] = "intact"

Revoke == IF Passing /\ ~Matches THEN Invalidate(state.patch) ELSE UNCHANGED state

(* VMBroker.image                                                          *)
ImageIsCurrent(i) == i \in images /\ Current /\ i = state.build /\ state.image = i

-----------------------------------------------------------------------------
(* Patches.                                                                *)

PatchWrite(q) ==
  /\ pc[q] = "patch_write"
  /\ \E variant \in Variants : patches' = [patches EXCEPT ![arg[q]] = variant]
  /\ Goto(q, "patch_select")
  /\ UNCHANGED <<source, state, applied, built, wheels, images, vms, passed, jobLock, memory,
                 newest, edits, faults>>

PatchSelect(q) ==
  /\ pc[q] = "patch_select"
  /\ Invalidate(arg[q]) /\ newest' = arg[q]
  /\ Finish(q)
  /\ UNCHANGED <<source, evidence, edits, faults>>

ApplyGit(q) ==
  /\ pc[q] = "apply_git"
  /\ IF source = Replaces(patches[arg[q]])
       THEN /\ source' = Result(patches[arg[q]])
            /\ Goto(q, "apply_invalidate") /\ UNCHANGED <<jobLock, memory>>
       ELSE Finish(q) /\ UNCHANGED source
  /\ UNCHANGED <<state, evidence, newest, edits, faults>>

(* Mutant: applying a patch does not revoke the build it replaces.         *)
ApplyInvalidateForgotten(q) ==
  /\ pc[q] = "apply_invalidate"
  /\ state' = [state EXCEPT !.patch = arg[q]] /\ newest' = arg[q]
  /\ Goto(q, "apply_hash")
  /\ UNCHANGED <<source, evidence, jobLock, memory, edits, faults>>

ApplyInvalidate(q) ==
  /\ pc[q] = "apply_invalidate"
  /\ Invalidate(arg[q]) /\ newest' = arg[q]
  /\ Goto(q, "apply_hash")
  /\ UNCHANGED <<source, evidence, jobLock, memory, edits, faults>>

ApplyHash(q) ==
  /\ pc[q] = "apply_hash"
  /\ seen' = [seen EXCEPT ![q] = source]
  /\ Goto(q, "apply_record")
  /\ UNCHANGED <<source, state, evidence, jobLock, arg, copy, forged, loaded, began, newest, edits,
                 faults>>

ApplyRecord(q) ==
  /\ pc[q] = "apply_record"
  /\ applied' = [applied EXCEPT ![arg[q]] = seen[q]]
  /\ Finish(q)
  /\ UNCHANGED <<source, state, patches, built, wheels, images, vms, passed, newest, edits, faults>>

-----------------------------------------------------------------------------
(* build_run. `loaded` is its copy of the state, saved again at the end.   *)

BuildStart(q) ==
  /\ pc[q] = "build_start"
  /\ state' = [state EXCEPT !.build = NoBuild, !.image = NoBuild,
                            !.build_status = "RUNNING", !.status = "RUNNING"]
  /\ loaded' = [loaded EXCEPT ![q] = state']
  /\ Goto(q, "build_hash")
  /\ UNCHANGED <<source, evidence, jobLock, arg, seen, copy, forged, began, newest, edits,
                 faults>>

(* The except clauses; the finally clause saves the record, then the state.*)
BuildFailed(q) ==
  /\ loaded' = [loaded EXCEPT ![q].build_status = "FAILED", ![q].status = "FAILED"]
  /\ Goto(q, "build_record")

BuildHash(q) ==
  /\ pc[q] = "build_hash"
  /\ seen' = [seen EXCEPT ![q] = source] /\ began' = [began EXCEPT ![q] = edits]
  /\ IF state.patch = NoPatch \/ applied[state.patch] = source
       THEN Goto(q, "build_copy") /\ UNCHANGED loaded
       ELSE BuildFailed(q)
  /\ UNCHANGED <<source, state, evidence, jobLock, arg, copy, forged, newest, edits, faults>>

BuildCopy(q) ==
  /\ pc[q] = "build_copy"
  /\ copy' = [copy EXCEPT ![q] = source]
  /\ Goto(q, "build_compile")
  /\ UNCHANGED <<source, state, evidence, jobLock, arg, seen, forged, loaded, began, newest, edits,
                 faults>>

BuildCompile(q) ==
  /\ pc[q] = "build_compile"
  /\ IF copy[q] \in Working THEN Goto(q, "build_verify") /\ UNCHANGED loaded
                            ELSE BuildFailed(q)
  /\ UNCHANGED <<source, state, evidence, jobLock, arg, seen, copy, forged, began, newest, edits,
                 faults>>

(* Mutant: the source is not hashed again after the build.                 *)
BuildVerifyOnce(q) ==
  /\ pc[q] = "build_verify"
  /\ Goto(q, "build_import")
  /\ UNCHANGED <<source, state, evidence, jobLock, memory, newest, edits, faults>>

BuildVerify(q) ==
  /\ pc[q] = "build_verify"
  /\ IF source = seen[q] THEN Goto(q, "build_import") /\ UNCHANGED loaded
                         ELSE BuildFailed(q)
  /\ UNCHANGED <<source, state, evidence, jobLock, arg, seen, copy, forged, began, newest, edits,
                 faults>>

(* The wheel is read from the sandbox's folder and kept where the sandbox  *)
(* cannot reach it.                                                        *)
BuildImport(q) ==
  /\ pc[q] = "build_import"
  /\ IF copy[q] = "none"
       THEN BuildFailed(q) /\ UNCHANGED wheels
       ELSE /\ wheels' = [wheels EXCEPT ![arg[q]] = "intact"]
            /\ Goto(q, "build_select") /\ UNCHANGED loaded
  /\ UNCHANGED <<source, state, patches, applied, built, images, vms, passed, jobLock, arg, seen,
                 copy, forged, began, newest, edits, faults>>

(* The last lines of the try block: a Ctrl-C after the first of them fails *)
(* the build and leaves its id in the state that is saved.                 *)
BuildSelect(q) ==
  /\ pc[q] = "build_select" /\ Goto(q, "build_record")
  /\ \/ /\ UNCHANGED faults
        /\ loaded' = [loaded EXCEPT ![q].build = arg[q],
                                    ![q].build_status = "PASS", ![q].status = "READY"]
     \/ /\ Fault
        /\ loaded' = [loaded EXCEPT ![q].build = arg[q],
                                    ![q].build_status = "FAILED", ![q].status = "FAILED"]
  /\ UNCHANGED <<source, state, evidence, jobLock, arg, seen, copy, forged, began, newest, edits>>

(* An exception or Ctrl-C in the try block, before those lines.            *)
BuildInterrupted(q) ==
  /\ pc[q] \in BuildLabels /\ Fault
  /\ BuildFailed(q)
  /\ UNCHANGED <<source, state, evidence, jobLock, arg, seen, copy, forged, began, newest, edits>>

(* The wheel is the one that was read; and what no record says: how often  *)
(* the source moved since it was hashed, and whether the wheel was forged. *)
NewRecord(q) ==
  [status |-> IF loaded[q].build_status = "PASS" THEN "PASS" ELSE "FAIL",
   source |-> seen[q], patch |-> loaded[q].patch,
   wheel  |-> IF loaded[q].build_status = "PASS" THEN copy[q] ELSE "none",
   churn  |-> edits - began[q], forged |-> forged[q]]

(* After a failure the state is saved even if the record was not; after a  *)
(* success an unsaved record ends the command with the state RUNNING.      *)
BuildRecord(q) ==
  /\ pc[q] = "build_record"
  /\ \/ /\ built' = [built EXCEPT ![arg[q]] = NewRecord(q)]
        /\ Goto(q, "build_state") /\ UNCHANGED <<jobLock, memory, faults>>
     \/ /\ Fault /\ UNCHANGED built
        /\ IF loaded[q].build_status = "PASS"
             THEN Finish(q)
             ELSE Goto(q, "build_state") /\ UNCHANGED <<jobLock, memory>>
  /\ UNCHANGED <<source, state, patches, applied, wheels, images, vms, passed, newest, edits>>

BuildState(q) ==
  /\ pc[q] = "build_state"
  /\ state' = loaded[q]
  /\ Finish(q)
  /\ UNCHANGED <<source, evidence, newest, edits, faults>>

-----------------------------------------------------------------------------
(* job_status, build_status, sandbox_create.                               *)

JobStatus(q) ==
  /\ pc[q] = "job_status"
  /\ \/ Revoke                                             \* build_status
     \/ /\ state.build # NoBuild /\ ~Current               \* job_status
        /\ Invalidate(state.patch)
  /\ Finish(q)
  /\ UNCHANGED <<source, evidence, newest, edits, faults>>

SandboxReady(q) ==
  /\ pc[q] = "sandbox_ready"
  /\ state' = [state EXCEPT !.status = "READY"]
  /\ Finish(q)
  /\ UNCHANGED <<source, evidence, newest, edits, faults>>

-----------------------------------------------------------------------------
(* Images, VMs and guest tests.                                            *)

(* Mutant: there need be no current build.                                 *)
RegisterCheckUnbuilt(q) ==
  /\ pc[q] = "register_check"
  /\ arg' = [arg EXCEPT ![q] = state.build] /\ Goto(q, "register_write")
  /\ UNCHANGED <<source, state, evidence, jobLock, seen, copy, forged, loaded, began, newest,
                 edits, faults>>

RegisterCheck(q) ==
  /\ pc[q] = "register_check"
  /\ Revoke
  /\ IF Current
       THEN /\ arg' = [arg EXCEPT ![q] = state.build] /\ Goto(q, "register_write")
            /\ UNCHANGED <<jobLock, seen, copy, forged, loaded, began>>
       ELSE Finish(q)
  /\ UNCHANGED <<source, evidence, newest, edits, faults>>

RegisterWrite(q) ==
  /\ pc[q] = "register_write"
  /\ images' = images \cup {arg[q]}
  /\ Goto(q, "register_select")
  /\ UNCHANGED <<source, state, patches, applied, built, wheels, vms, passed, jobLock, memory,
                 newest, edits, faults>>

RegisterSelect(q) ==
  /\ pc[q] = "register_select"
  /\ state' = [state EXCEPT !.image = arg[q]]
  /\ Finish(q)
  /\ UNCHANGED <<source, evidence, newest, edits, faults>>

Deploy(q) ==
  /\ pc[q] = "deploy"
  /\ Revoke
  /\ vms' = IF ImageIsCurrent(arg[q]) THEN vms \cup {arg[q]} ELSE vms
  /\ Finish(q)
  /\ UNCHANGED <<source, patches, applied, built, wheels, images, passed, newest, edits, faults>>

(* Mutant: the test trusts the VM's own image.                             *)
TestCheckOwnImage(q) ==
  /\ pc[q] = "test_check"
  /\ Goto(q, "test_artifact")
  /\ UNCHANGED <<source, state, evidence, jobLock, memory, newest, edits, faults>>

TestCheck(q) ==
  /\ pc[q] = "test_check"
  /\ Revoke
  /\ IF ImageIsCurrent(arg[q]) THEN Goto(q, "test_artifact") /\ UNCHANGED <<jobLock, memory>>
                               ELSE Finish(q)
  /\ UNCHANGED <<source, evidence, newest, edits, faults>>

(* After the guest is ready.                                               *)
TestArtifact(q) ==
  /\ pc[q] = "test_artifact"
  /\ IF wheels[arg[q]] = "intact" THEN Goto(q, "test_guest") /\ UNCHANGED <<jobLock, memory>>
                                  ELSE Finish(q)
  /\ UNCHANGED <<source, state, evidence, newest, edits, faults>>

(* The guest hashes the wheel it received and runs it.                     *)
TestGuest(q) ==
  /\ pc[q] = "test_guest"
  /\ IF wheels[arg[q]] = "intact" /\ built[arg[q]].wheel \in Working
       THEN /\ passed' = passed \cup {arg[q]}
            /\ Goto(q, "test_state") /\ UNCHANGED <<jobLock, memory>>
       ELSE Finish(q) /\ UNCHANGED passed
  /\ UNCHANGED <<source, state, patches, applied, built, wheels, images, vms, newest, edits, faults>>

TestState(q) ==
  /\ pc[q] = "test_state"
  /\ state' = [state EXCEPT !.status = "COMPLETE"]
  /\ Finish(q)
  /\ UNCHANGED <<source, evidence, newest, edits, faults>>

-----------------------------------------------------------------------------
(* The process dies, or a tool outside build_run fails: what it replaced   *)
(* stays, what it had not come to does not happen.                         *)
Stops(q) ==
  /\ pc[q] # "idle" /\ Fault
  /\ Finish(q)
  /\ UNCHANGED <<source, state, evidence, newest, edits>>

(* Code in the sandbox edits the source, or replaces what a build has      *)
(* copied or made of it: the build's own tests can do that too.            *)
Edit ==
  /\ edits < MaxEdits /\ edits' = edits + 1
  /\ source' \in Contents \ {source}
  /\ UNCHANGED <<state, evidence, jobLock, pc, memory, newest, faults>>

Forge(q) ==
  /\ pc[q] \in {"build_compile", "build_verify", "build_import"} /\ Fault
  /\ \E c \in (Contents \cup {"none"}) \ {copy[q]} : copy' = [copy EXCEPT ![q] = c]
  /\ forged' = [forged EXCEPT ![q] = TRUE]
  /\ UNCHANGED <<source, state, evidence, jobLock, pc, arg, seen, loaded, began, newest, edits>>

Damage(b) ==
  /\ wheels[b] = "intact" /\ Fault
  /\ wheels' = [wheels EXCEPT ![b] = "damaged"]
  /\ UNCHANGED <<source, state, patches, applied, built, images, vms, passed, jobLock, pc,
                 memory, newest, edits>>

(* Ids are fresh: a patch or build is used by one create or run.           *)
Unused(b) == built[b] = NoRecord /\ wheels[b] = "none" /\ \A q \in Procs : arg[q] # b

Start(q) ==
  \/ \E p \in Patches : /\ patches[p] = "none" /\ \A o \in Procs : arg[o] # p
                        /\ Begin(q, "patch_write", p)
  \/ \E p \in Patches : patches[p] # "none" /\ Begin(q, "apply_git", p)
  \/ \E b \in Builds : Unused(b) /\ Begin(q, "build_start", b)
  \/ \E label \in {"job_status", "sandbox_ready", "register_check"} : Begin(q, label, NoBuild)
  \/ \E b \in images : Begin(q, "deploy", b)
  \/ \E b \in vms : Begin(q, "test_check", b)

PatchStep(q) == PatchWrite(q) \/ PatchSelect(q) \/ ApplyGit(q) \/ ApplyInvalidate(q)
                \/ ApplyHash(q) \/ ApplyRecord(q)

BuildStep(q) == BuildStart(q) \/ BuildHash(q) \/ BuildCopy(q) \/ BuildCompile(q)
                \/ BuildVerify(q) \/ BuildImport(q) \/ BuildSelect(q)
                \/ BuildRecord(q) \/ BuildState(q)

ImageStep(q) == RegisterCheck(q) \/ RegisterWrite(q) \/ RegisterSelect(q) \/ Deploy(q)
                \/ TestCheck(q) \/ TestArtifact(q) \/ TestGuest(q) \/ TestState(q)

Step(q) == Start(q) \/ PatchStep(q) \/ BuildStep(q) \/ ImageStep(q)
           \/ JobStatus(q) \/ SandboxReady(q)

Next ==
  \/ \E q \in Procs : Step(q) \/ BuildInterrupted(q) \/ Stops(q) \/ Forge(q)
  \/ Edit
  \/ \E b \in Builds : Damage(b)

Spec == Init /\ [][Next]_vars

-----------------------------------------------------------------------------
(* Whatever died or was interrupted in between, the build that state.json  *)
(* names has a passing record exactly if state.json says that it passed.   *)
(* Then the record is of the selected patch, and that patch was applied to *)
(* exactly the source the record hashed.  A current image is of such a     *)
(* build.                                                                  *)
EvidenceChain ==
  /\ state.build # NoBuild => (Passing <=> built[state.build].status = "PASS")
  /\ Passing =>
       /\ built[state.build].patch = state.patch
       /\ state.patch # NoPatch => applied[state.patch] = built[state.build].source
  /\ state.image # NoBuild => Passing /\ state.image = state.build /\ state.image \in images

(* build_run saves at its end the state it read at its start: it does not  *)
(* bring back a patch another caller has replaced meanwhile.               *)
NewestPatchSelected == state.patch = newest

(* COMPLETE is never inherited: the image it stands for passed in a guest. *)
CompleteIsEarned == state.status = "COMPLETE" => state.image \in passed

(* The wheel of a passing build is the recorded source's, unless while it  *)
(* was built the sandbox's code edited the source more than once, so that  *)
(* both hashes (build.py:33,48) saw the same, or forged the copy or the    *)
(* wheel, which nothing notices (build.py:50).  A lone edit is caught.     *)
LoneEditIsCaught ==
  \A b \in Builds :
    built[b].status = "PASS" /\ built[b].churn <= 1 /\ ~built[b].forged =>
      built[b].wheel = built[b].source
=============================================================================
