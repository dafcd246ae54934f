--------------------------- MODULE JobLineageProofs ---------------------------
(***************************************************************************)
(* Theorems about JobLineage, for any number of processes, patches, builds,*)
(* edits of the source and failures.                                       *)
(***************************************************************************)
EXTENDS JobLineage, TLAPS

-----------------------------------------------------------------------------
(* The inductive invariant.                                                *)
PatchLabels == {"patch_write", "patch_select", "apply_git", "apply_invalidate", "apply_hash",
                "apply_record"}
Building    == BuildLabels \cup {"build_record", "build_state"}
ImageLabels == {"register_write", "register_select", "deploy", "test_check", "test_artifact",
                "test_guest", "test_state"}

(* A process has the job's lock for as long as it is at work.              *)
LockOK == \A q \in Procs : pc[q] # "idle" <=> jobLock = q

BeganOK == \A q \in Procs : began[q] <= edits

(* The state a build will save: the patch is still the selected one, and   *)
(* there is no build in it, or this one, passed or interrupted at the end. *)
LoadedOK(q) ==
  /\ loaded[q].patch = state.patch /\ loaded[q].image = NoBuild /\ loaded[q].status # "COMPLETE"
  /\ \/ loaded[q].build = NoBuild /\ loaded[q].build_status # "PASS"
     \/ /\ loaded[q].build = arg[q] /\ loaded[q].build_status \in {"PASS", "FAILED"}
        /\ pc[q] \in {"build_record", "build_state"}

(* The build has not failed since it hashed the source.                    *)
OnCourse(q) ==
  \/ pc[q] \in {"build_copy", "build_compile", "build_verify", "build_import",
               "build_select"}
  \/ pc[q] \in {"build_record", "build_state"} /\ loaded[q].build_status = "PASS"

(* What one edit can do to a build: it comes before the copy, which then   *)
(* differs from what was hashed and will be hashed again, or after it.     *)
(* Nothing is known of what was forged.                                    *)
ChurnOK(q) ==
  /\ pc[q] = "build_copy" => /\ edits = began[q] => source = seen[q]
                             /\ edits = began[q] + 1 => source # seen[q]
  /\ pc[q] \in {"build_compile", "build_verify"} /\ ~forged[q] =>
       /\ edits = began[q] => copy[q] = seen[q]
       /\ edits = began[q] + 1 => copy[q] = seen[q] \/ (copy[q] = source /\ source # seen[q])
  /\ \/ pc[q] \in {"build_import", "build_select"}
     \/ pc[q] = "build_record" /\ loaded[q].build_status = "PASS"
     => (~forged[q] /\ edits <= began[q] + 1 => copy[q] = seen[q])

ProcOK(q) ==
  /\ pc[q] \in PatchLabels => arg[q] \in Patches
  /\ pc[q] \in {"build_start"} \cup Building \cup ImageLabels => arg[q] \in Builds
  /\ pc[q] \in {"apply_hash", "apply_record"} \cup Building => state.build = NoBuild
  /\ pc[q] \in Building => LoadedOK(q)
  /\ OnCourse(q) /\ state.patch # NoPatch => applied[state.patch] = seen[q]
  /\ pc[q] \in {"build_start", "build_record"} \cup BuildLabels => built[arg[q]].status # "PASS"
  /\ pc[q] = "build_state" /\ loaded[q].build_status # "PASS" => built[arg[q]].status # "PASS"
  /\ pc[q] = "build_state" /\ loaded[q].build_status = "PASS" =>
       /\ built[arg[q]].status = "PASS" /\ built[arg[q]].patch = state.patch
       /\ built[arg[q]].source = seen[q]
  /\ pc[q] \in {"register_write", "register_select"} => Passing /\ state.build = arg[q]
  /\ pc[q] = "register_select" => arg[q] \in images
  /\ pc[q] \in {"test_artifact", "test_guest", "test_state"} => state.image = arg[q]
  /\ pc[q] = "test_state" => arg[q] \in passed
  /\ ChurnOK(q)

Chains == EvidenceChain /\ NewestPatchSelected /\ CompleteIsEarned /\ LoneEditIsCaught

Inductive == TypeOK /\ LockOK /\ BeganOK /\ (\A q \in Procs : ProcOK(q)) /\ Chains

-----------------------------------------------------------------------------
(* TypeOK in two parts: what outlives the processes and what is theirs.    *)
DataOK ==
  /\ source \in Contents /\ state \in States
  /\ patches \in [Patches -> {"fix", "next", "invalid", "none"}]
  /\ applied \in [Patches -> Contents \cup {"none"}]
  /\ built \in [Builds -> [status : {"none", "PASS", "FAIL"},
                           source : Contents \cup {"none"},
                           patch : Patches \cup {NoPatch},
                           wheel : Contents \cup {"none"}, churn : Nat,
                           forged : BOOLEAN]]
  /\ wheels \in [Builds -> {"none", "intact", "damaged"}]
  /\ images \subseteq Builds /\ vms \subseteq Builds /\ passed \subseteq Builds
  /\ newest \in Patches \cup {NoPatch} /\ edits \in 0..MaxEdits /\ faults \in 0..MaxFaults

MemoryOK ==
  /\ arg \in [Procs -> Patches \cup Builds \cup {NoBuild}]
  /\ seen \in [Procs -> Contents \cup {"none"}]
  /\ copy \in [Procs -> Contents \cup {"none"}] /\ forged \in [Procs -> BOOLEAN]
  /\ loaded \in [Procs -> States] /\ began \in [Procs -> 0..MaxEdits]

LEMMA TypeParts ==
  /\ TypeOK => DataOK /\ MemoryOK /\ jobLock \in Procs \cup {NoProc} /\ pc \in [Procs -> Labels]
  /\ DataOK' /\ MemoryOK' /\ jobLock' \in Procs \cup {NoProc} /\ pc' \in [Procs -> Labels] => TypeOK'
BY DEF TypeOK, DataOK, MemoryOK

LEMMA InductiveKnows ==
  ASSUME Inductive
  PROVE  /\ TypeOK /\ DataOK /\ MemoryOK /\ pc \in [Procs -> Labels] /\ LockOK /\ BeganOK /\ Chains
         /\ \A q \in Procs : ProcOK(q)
BY TypeParts DEF Inductive

(* The fields of a state, and of one in which some are replaced.           *)
LEMMA StateFields ==
  ASSUME NEW s \in States
  PROVE  /\ s.patch \in Patches \cup {NoPatch} /\ s.build \in Builds \cup {NoBuild}
         /\ s.image \in Builds \cup {NoBuild}
         /\ s.build_status \in {"NOT_RUN", "RUNNING", "PASS", "FAILED"}
         /\ s.status \in {"CREATED", "READY", "RUNNING", "FAILED", "COMPLETE"}
BY DEF States

LEMMA StatusSet ==
  ASSUME NEW s \in States, NEW status \in {"CREATED", "READY", "RUNNING", "FAILED", "COMPLETE"}
  PROVE  LET r == [s EXCEPT !.status = status]
         IN  /\ r \in States /\ r.patch = s.patch /\ r.build = s.build /\ r.image = s.image
             /\ r.build_status = s.build_status /\ r.status = status
BY DEF States

LEMMA ImageSet ==
  ASSUME NEW s \in States, NEW image \in Builds
  PROVE  LET r == [s EXCEPT !.image = image]
         IN  /\ r \in States /\ r.patch = s.patch /\ r.build = s.build /\ r.image = image
             /\ r.build_status = s.build_status /\ r.status = s.status
BY DEF States

LEMMA Invalidated ==
  ASSUME state \in States, NEW patch \in Patches \cup {NoPatch}, Invalidate(patch)
  PROVE  /\ state' \in States /\ state'.patch = patch /\ state'.build = NoBuild
         /\ state'.image = NoBuild /\ state'.status = "READY"
BY DEF States, Invalidate

LEMMA CreatedIsAState ==
  /\ Created \in States /\ Created.patch = NoPatch /\ Created.build = NoBuild
  /\ Created.image = NoBuild /\ Created.status = "CREATED"
BY DEF Created, States

LEMMA RecordFields ==
  ASSUME DataOK, NEW b \in Builds
  PROVE  /\ built[b].source \in Contents \cup {"none"} /\ built[b].patch \in Patches \cup {NoPatch}
         /\ built[b].churn \in Nat
BY DEF DataOK

LEMMA InductiveInit == Init => Inductive
<1> SUFFICES ASSUME Init PROVE Inductive
  OBVIOUS
<1>1. 0 \in 0..MaxEdits /\ 0 \in 0..MaxFaults /\ 0 \in Nat
  BY LineageAssumption
<1>2. NoRecord \in [status : {"none", "PASS", "FAIL"}, source : Contents \cup {"none"},
                    patch : Patches \cup {NoPatch}, wheel : Contents \cup {"none"}, churn : Nat,
                    forged : BOOLEAN]
      /\ NoRecord.status = "none"
  BY DEF NoRecord
<1>3. TypeOK
  BY <1>1, <1>2, CreatedIsAState DEF Init, TypeOK, Contents, Labels
<1>4. LockOK /\ BeganOK
  BY <1>1, LineageAssumption DEF Init, LockOK, BeganOK
<1>5. \A q \in Procs : ProcOK(q)
  BY DEF Init, ProcOK, Passing, PatchLabels, Building, BuildLabels, ImageLabels, OnCourse, ChurnOK
<1>6. Chains
  BY <1>2, CreatedIsAState
     DEF Init, Chains, EvidenceChain, Passing, NewestPatchSelected, CompleteIsEarned, LoneEditIsCaught
<1>7. QED BY <1>3, <1>4, <1>5, <1>6 DEF Inductive

-----------------------------------------------------------------------------
(* One process at a time.                                                  *)
LEMMA Alone ==
  ASSUME Inductive, NEW q \in Procs, pc[q] # "idle"
  PROVE  jobLock = q /\ \A o \in Procs : o # q => pc[o] = "idle"
BY DEF Inductive, LockOK

LEMMA NobodyWorks ==
  ASSUME Inductive, jobLock = NoProc
  PROVE  \A o \in Procs : pc[o] = "idle"
BY LineageAssumption DEF Inductive, LockOK

LEMMA IdleIsOK == \A o \in Procs : pc'[o] = "idle" => ProcOK(o)'
BY DEF ProcOK, PatchLabels, Building, BuildLabels, ImageLabels, OnCourse, ChurnOK

(* A process that is alone moves, and keeps the job's lock or gives it up. *)
LEMMA OneMoves ==
  ASSUME Inductive, NEW q \in Procs, pc[q] # "idle" \/ jobLock = NoProc, NEW label \in Labels,
         Goto(q, label),
         (label = "idle" /\ jobLock' = NoProc) \/ (label # "idle" /\ jobLock' = q),
         DataOK', MemoryOK', BeganOK', label # "idle" => ProcOK(q)', Chains'
  PROVE  Inductive'
<1>1. \A o \in Procs : o # q => pc[o] = "idle"
  BY Alone, NobodyWorks
<1>2. pc \in [Procs -> Labels]
  BY InductiveKnows
<1>3. /\ pc' \in [Procs -> Labels] /\ pc'[q] = label
      /\ \A o \in Procs : o # q => pc'[o] = "idle"
  BY <1>1, <1>2 DEF Goto
<1>4. TypeOK'
  BY <1>3, TypeParts
<1>5. LockOK'
  BY <1>3, LineageAssumption DEF LockOK
<1>6. \A o \in Procs : ProcOK(o)'
  BY <1>3, IdleIsOK
<1>7. QED BY <1>4, <1>5, <1>6 DEF Inductive

LEMMA Finishes ==
  ASSUME Inductive, NEW q \in Procs, pc[q] # "idle", Finish(q), edits' = edits, DataOK', Chains'
  PROVE  Inductive'
<1>1. MemoryOK /\ BeganOK /\ DataOK
  BY InductiveKnows
<1>2. 0 \in 0..MaxEdits /\ edits >= 0
  BY <1>1, LineageAssumption DEF DataOK
<1>3. MemoryOK'
  BY <1>1, <1>2, CreatedIsAState DEF Finish, MemoryOK
<1>4. BeganOK'
  BY <1>1, <1>2 DEF Finish, MemoryOK, BeganOK
<1>5. "idle" \in Labels /\ Goto(q, "idle") /\ jobLock' = NoProc
  BY DEF Finish, Labels
<1>6. QED BY <1>3, <1>4, <1>5, OneMoves

LEMMA GoesOn ==
  ASSUME Inductive, NEW q \in Procs, pc[q] # "idle", NEW label \in Labels \ {"idle"},
         Goto(q, label), UNCHANGED <<jobLock, memory, edits>>, DataOK', ProcOK(q)', Chains'
  PROVE  Inductive'
<1>1. MemoryOK' /\ BeganOK'
  BY InductiveKnows DEF MemoryOK, BeganOK, memory
<1>2. jobLock' = q
  BY Alone
<1>3. QED BY <1>1, <1>2, OneMoves

LEMMA PcAfter ==
  ASSUME Inductive, NEW q \in Procs, NEW label, Goto(q, label)
  PROVE  pc'[q] = label
BY InductiveKnows DEF Goto

(* The chains hold as long as their links do, and where there is no build. *)
LEMMA ChainsStay ==
  ASSUME Inductive, UNCHANGED <<state, applied, built, newest>>, images \subseteq images',
         passed \subseteq passed'
  PROVE  Chains'
BY DEF Inductive, Chains, EvidenceChain, Passing, NewestPatchSelected, CompleteIsEarned,
   LoneEditIsCaught

LEMMA NoChains ==
  ASSUME Inductive, state'.build = NoBuild, state'.image = NoBuild, state'.status # "COMPLETE",
         state'.patch = newest', UNCHANGED built
  PROVE  Chains'
BY DEF Inductive, Chains, EvidenceChain, Passing, NewestPatchSelected, CompleteIsEarned,
   LoneEditIsCaught

(* Where there is no build there is no image.                              *)
LEMMA NoImage ==
  ASSUME Inductive, state.build = NoBuild
  PROVE  state.image = NoBuild
BY DEF Inductive, Chains, EvidenceChain, Passing

-----------------------------------------------------------------------------
(* Operations begin.                                                       *)
LEMMA Begins ==
  ASSUME Inductive, NEW q \in Procs,
         NEW label \in {"patch_write", "apply_git", "build_start", "job_status", "sandbox_ready",
                       "register_check", "deploy", "test_check"},
         NEW a \in Patches \cup Builds \cup {NoBuild},
         label \in {"patch_write", "apply_git"} => a \in Patches,
         label \in {"build_start", "deploy", "test_check"} => a \in Builds,
         label = "build_start" => built[a].status # "PASS",
         Begin(q, label, a)
  PROVE  Inductive'
<1>1. /\ jobLock = NoProc /\ jobLock' = q /\ Goto(q, label) /\ arg' = [arg EXCEPT ![q] = a]
      /\ UNCHANGED <<source, state, evidence, seen, copy, forged, loaded, began, newest, edits,
                     faults>>
  BY DEF Begin
<1>2. MemoryOK' /\ arg'[q] = a /\ BeganOK' /\ DataOK'
  BY <1>1, InductiveKnows DEF MemoryOK, BeganOK, DataOK, evidence
<1>3. pc'[q] = label
  BY <1>1, PcAfter
<1>4. ProcOK(q)'
  BY <1>1, <1>2, <1>3
     DEF ProcOK, PatchLabels, Building, BuildLabels, ImageLabels, OnCourse, ChurnOK, evidence
<1>5. Chains'
  BY <1>1, ChainsStay DEF evidence
<1>6. label \in Labels /\ label # "idle"
  BY DEF Labels
<1>7. QED BY <1>1, <1>2, <1>4, <1>5, <1>6, OneMoves

LEMMA StartStep ==
  ASSUME Inductive, NEW q \in Procs, Start(q)
  PROVE  Inductive'
<1>1. images \subseteq Builds /\ vms \subseteq Builds
  BY InductiveKnows DEF DataOK
<1>2. CASE \E p \in Patches : Begin(q, "patch_write", p) \/ Begin(q, "apply_git", p)
  BY <1>2, Begins
<1>3. CASE \E b \in Builds : Unused(b) /\ Begin(q, "build_start", b)
  <2>1. PICK b \in Builds : built[b].status = "none" /\ Begin(q, "build_start", b)
    BY <1>3 DEF Unused, NoRecord
  <2>2. QED BY <2>1, Begins
<1>4. CASE \E label \in {"job_status", "sandbox_ready", "register_check"} : Begin(q, label, NoBuild)
  BY <1>4, Begins
<1>5. CASE \E b \in Builds : Begin(q, "deploy", b) \/ Begin(q, "test_check", b)
  BY <1>5, Begins
<1>6. QED BY <1>1, <1>2, <1>3, <1>4, <1>5 DEF Start

-----------------------------------------------------------------------------
(* Patches.                                                                *)
LEMMA PatchWriteStep ==
  ASSUME Inductive, NEW q \in Procs, PatchWrite(q)
  PROVE  Inductive'
<1>1. /\ pc[q] = "patch_write" /\ Goto(q, "patch_select") /\ arg[q] \in Patches
      /\ UNCHANGED <<source, state, applied, built, wheels, images, vms, passed, jobLock, memory,
                     newest, edits, faults>>
  BY InductiveKnows DEF PatchWrite, ProcOK, PatchLabels
<1>2. PICK variant \in Variants : patches' = [patches EXCEPT ![arg[q]] = variant]
  BY DEF PatchWrite
<1>3. DataOK'
  BY <1>1, <1>2, InductiveKnows, LineageAssumption DEF DataOK
<1>4. pc'[q] = "patch_select"
  BY <1>1, PcAfter
<1>5. ProcOK(q)'
  BY <1>1, <1>4
     DEF ProcOK, PatchLabels, Building, BuildLabels, ImageLabels, OnCourse, ChurnOK, memory
<1>6. Chains'
  BY <1>1, ChainsStay
<1>7. "patch_select" \in Labels \ {"idle"}
  BY DEF Labels
<1>8. QED BY <1>1, <1>3, <1>5, <1>6, <1>7, GoesOn

LEMMA PatchSelectStep ==
  ASSUME Inductive, NEW q \in Procs, PatchSelect(q)
  PROVE  Inductive'
<1>1. /\ pc[q] = "patch_select" /\ Invalidate(arg[q]) /\ newest' = arg[q] /\ Finish(q)
      /\ arg[q] \in Patches /\ UNCHANGED <<source, evidence, edits, faults>>
  BY InductiveKnows DEF PatchSelect, ProcOK, PatchLabels
<1>2. /\ state' \in States /\ state'.patch = arg[q] /\ state'.build = NoBuild
      /\ state'.image = NoBuild /\ state'.status = "READY"
  BY <1>1, InductiveKnows, Invalidated DEF DataOK
<1>3. DataOK'
  BY <1>1, <1>2, InductiveKnows DEF DataOK, evidence
<1>4. Chains'
  BY <1>1, <1>2, NoChains DEF evidence
<1>5. QED BY <1>1, <1>3, <1>4, Finishes

LEMMA ApplyGitStep ==
  ASSUME Inductive, NEW q \in Procs, ApplyGit(q)
  PROVE  Inductive'
<1>1. /\ pc[q] = "apply_git" /\ arg[q] \in Patches
      /\ UNCHANGED <<state, evidence, newest, edits, faults>>
  BY InductiveKnows DEF ApplyGit, ProcOK, PatchLabels
<1>2. Chains'
  BY <1>1, ChainsStay DEF evidence
<1>3. CASE source = Replaces(patches[arg[q]])
  <2>1. /\ source' \in Contents /\ Goto(q, "apply_invalidate") /\ UNCHANGED <<jobLock, memory>>
    BY <1>3 DEF ApplyGit, Result, Contents
  <2>2. DataOK'
    BY <1>1, <2>1, InductiveKnows DEF DataOK, evidence
  <2>3. pc'[q] = "apply_invalidate"
    BY <2>1, PcAfter
  <2>4. ProcOK(q)'
    BY <1>1, <2>1, <2>3
       DEF ProcOK, PatchLabels, Building, BuildLabels, ImageLabels, OnCourse, ChurnOK, memory
  <2>5. "apply_invalidate" \in Labels \ {"idle"}
    BY DEF Labels
  <2>6. QED BY <1>1, <1>2, <2>1, <2>2, <2>4, <2>5, GoesOn
<1>4. CASE source # Replaces(patches[arg[q]])
  <2>1. Finish(q) /\ UNCHANGED source
    BY <1>4 DEF ApplyGit
  <2>2. DataOK'
    BY <1>1, <2>1, InductiveKnows DEF DataOK, evidence
  <2>3. QED BY <1>1, <1>2, <2>1, <2>2, Finishes
<1>5. QED BY <1>3, <1>4

LEMMA ApplyInvalidateStep ==
  ASSUME Inductive, NEW q \in Procs, ApplyInvalidate(q)
  PROVE  Inductive'
<1>1. /\ pc[q] = "apply_invalidate" /\ Invalidate(arg[q]) /\ newest' = arg[q]
      /\ Goto(q, "apply_hash") /\ arg[q] \in Patches
      /\ UNCHANGED <<source, evidence, jobLock, memory, edits, faults>>
  BY InductiveKnows DEF ApplyInvalidate, ProcOK, PatchLabels
<1>2. /\ state' \in States /\ state'.patch = arg[q] /\ state'.build = NoBuild
      /\ state'.image = NoBuild /\ state'.status = "READY"
  BY <1>1, InductiveKnows, Invalidated DEF DataOK
<1>3. DataOK'
  BY <1>1, <1>2, InductiveKnows DEF DataOK, evidence
<1>4. pc'[q] = "apply_hash"
  BY <1>1, PcAfter
<1>5. ProcOK(q)'
  BY <1>1, <1>2, <1>4
     DEF ProcOK, PatchLabels, Building, BuildLabels, ImageLabels, OnCourse, ChurnOK, memory
<1>6. Chains'
  BY <1>1, <1>2, NoChains DEF evidence
<1>7. "apply_hash" \in Labels \ {"idle"}
  BY DEF Labels
<1>8. QED BY <1>1, <1>3, <1>5, <1>6, <1>7, GoesOn

LEMMA ApplyHashStep ==
  ASSUME Inductive, NEW q \in Procs, ApplyHash(q)
  PROVE  Inductive'
<1>1. /\ pc[q] = "apply_hash" /\ seen' = [seen EXCEPT ![q] = source] /\ Goto(q, "apply_record")
      /\ arg[q] \in Patches /\ state.build = NoBuild /\ source \in Contents
      /\ UNCHANGED <<source, state, evidence, jobLock, arg, copy, forged, loaded, began, newest,
                     edits, faults>>
  BY InductiveKnows DEF ApplyHash, ProcOK, PatchLabels, DataOK
<1>2. DataOK' /\ MemoryOK' /\ BeganOK'
  BY <1>1, InductiveKnows DEF DataOK, MemoryOK, BeganOK, evidence
<1>3. pc'[q] = "apply_record"
  BY <1>1, PcAfter
<1>4. ProcOK(q)'
  BY <1>1, <1>3
     DEF ProcOK, PatchLabels, Building, BuildLabels, ImageLabels, OnCourse, ChurnOK
<1>5. Chains'
  BY <1>1, ChainsStay DEF evidence
<1>6. "apply_record" \in Labels /\ jobLock' = q
  BY <1>1, Alone DEF Labels
<1>7. QED BY <1>1, <1>2, <1>4, <1>5, <1>6, OneMoves

LEMMA ApplyRecordStep ==
  ASSUME Inductive, NEW q \in Procs, ApplyRecord(q)
  PROVE  Inductive'
<1>1. /\ pc[q] = "apply_record" /\ applied' = [applied EXCEPT ![arg[q]] = seen[q]] /\ Finish(q)
      /\ seen[q] \in Contents \cup {"none"} /\ state.build = NoBuild
      /\ UNCHANGED <<source, state, patches, built, wheels, images, vms, passed, newest, edits, faults>>
  BY InductiveKnows DEF ApplyRecord, ProcOK, MemoryOK
<1>2. DataOK'
  BY <1>1, InductiveKnows DEF DataOK
<1>3. state.image = NoBuild /\ state.status # "COMPLETE" /\ state.patch = newest
  <2>1. state.image = NoBuild
    BY <1>1, NoImage
  <2>2. NoBuild \notin passed
    BY InductiveKnows, LineageAssumption DEF DataOK
  <2>3. QED BY <2>1, <2>2 DEF Inductive, Chains, CompleteIsEarned, NewestPatchSelected
<1>4. Chains'
  BY <1>1, <1>3, NoChains
<1>5. QED BY <1>1, <1>2, <1>4, Finishes

-----------------------------------------------------------------------------
(* The build.                                                              *)
LEMMA BuildStartStep ==
  ASSUME Inductive, NEW q \in Procs, BuildStart(q)
  PROVE  Inductive'
<1>1. /\ pc[q] = "build_start" /\ Goto(q, "build_hash") /\ arg[q] \in Builds
      /\ built[arg[q]].status # "PASS" /\ loaded' = [loaded EXCEPT ![q] = state']
      /\ state' = [state EXCEPT !.build = NoBuild, !.image = NoBuild,
                                !.build_status = "RUNNING", !.status = "RUNNING"]
      /\ UNCHANGED <<source, evidence, jobLock, arg, seen, copy, forged, began, newest, edits,
                     faults>>
  BY InductiveKnows DEF BuildStart, ProcOK
<1>2. state \in States
  BY InductiveKnows DEF DataOK
<1>3. /\ state' \in States /\ state'.patch = state.patch /\ state'.build = NoBuild
      /\ state'.image = NoBuild /\ state'.build_status = "RUNNING" /\ state'.status = "RUNNING"
  BY <1>1, <1>2 DEF States
<1>4. loaded' \in [Procs -> States] /\ loaded'[q] = state'
  BY <1>1, <1>3, InductiveKnows DEF MemoryOK
<1>5. DataOK' /\ MemoryOK' /\ BeganOK'
  BY <1>1, <1>3, <1>4, InductiveKnows DEF DataOK, MemoryOK, BeganOK, evidence
<1>6. pc'[q] = "build_hash"
  BY <1>1, PcAfter
<1>7. ProcOK(q)'
  <2>1. LoadedOK(q)'
    BY <1>3, <1>4 DEF LoadedOK
  <2>2. QED
    BY <1>1, <1>3, <1>6, <2>1
       DEF ProcOK, PatchLabels, Building, BuildLabels, ImageLabels, OnCourse, ChurnOK, evidence
<1>8. Chains'
  <2>1. state.patch = newest
    BY DEF Inductive, Chains, NewestPatchSelected
  <2>2. QED BY <1>1, <1>3, <2>1, NoChains DEF evidence
<1>9. "build_hash" \in Labels /\ jobLock' = q
  BY <1>1, Alone DEF Labels, BuildLabels
<1>10. QED BY <1>1, <1>5, <1>7, <1>8, <1>9, OneMoves

(* What a build has in hand.                                               *)
LEMMA BuildKnows ==
  ASSUME Inductive, NEW q \in Procs, pc[q] \in Building
  PROVE  /\ arg[q] \in Builds /\ state.build = NoBuild /\ LoadedOK(q) /\ jobLock = q
         /\ pc[q] # "build_state" => built[arg[q]].status # "PASS"
         /\ loaded[q] \in States /\ seen[q] \in Contents \cup {"none"}
         /\ copy[q] \in Contents \cup {"none"} /\ source \in Contents /\ state \in States
         /\ edits \in 0..MaxEdits /\ began[q] \in 0..MaxEdits /\ began[q] <= edits
<1>1. pc[q] # "idle"
  BY DEF Building, BuildLabels
<1>2. QED BY <1>1, Alone, InductiveKnows DEF ProcOK, Building, DataOK, MemoryOK, BeganOK

(* A step of the build that changes what the process has in hand only.     *)
LEMMA BuildGoesOn ==
  ASSUME Inductive, NEW q \in Procs, pc[q] \in Building \ {"build_state"},
         NEW label \in Building, Goto(q, label),
         UNCHANGED <<source, state, evidence, jobLock, arg, newest, edits>>,
         faults' \in 0..MaxFaults, MemoryOK', BeganOK',
         LoadedOK(q)', OnCourse(q)' /\ state.patch # NoPatch => applied[state.patch] = seen'[q],
         ChurnOK(q)', label = "build_state" => loaded'[q].build_status # "PASS"
  PROVE  Inductive'
<1>1. pc[q] # "idle" /\ label # "idle" /\ label \in Labels
  BY DEF Building, BuildLabels, Labels
<1>2. DataOK'
  BY InductiveKnows DEF DataOK, evidence
<1>3. pc'[q] = label
  BY PcAfter
<1>4. ProcOK(q)'
  BY <1>3, BuildKnows
     DEF ProcOK, PatchLabels, Building, BuildLabels, ImageLabels, evidence
<1>5. Chains'
  BY ChainsStay DEF evidence
<1>6. jobLock' = q
  BY BuildKnows
<1>7. QED BY <1>1, <1>2, <1>4, <1>5, <1>6, OneMoves

(* The except clauses.                                                     *)
LEMMA FailedStep ==
  ASSUME Inductive, NEW q \in Procs, pc[q] \in BuildLabels, BuildFailed(q),
         UNCHANGED <<source, state, evidence, jobLock, arg, newest, edits>>,
         faults' \in 0..MaxFaults, copy' = copy, forged' = forged,
         seen' \in [Procs -> Contents \cup {"none"}], began' \in [Procs -> 0..MaxEdits], BeganOK'
  PROVE  Inductive'
<1>1. pc[q] \in Building \ {"build_state"} /\ "build_record" \in Building
  BY DEF Building, BuildLabels
<1>2. LoadedOK(q) /\ loaded[q] \in States
  BY <1>1, BuildKnows
<1>3. loaded[q].build = NoBuild
  BY <1>2 DEF LoadedOK, BuildLabels
<1>4. loaded' \in [Procs -> States]
      /\ loaded'[q].patch = loaded[q].patch /\ loaded'[q].build = loaded[q].build
      /\ loaded'[q].image = loaded[q].image
      /\ loaded'[q].build_status = "FAILED" /\ loaded'[q].status = "FAILED"
  <2>1. loaded \in [Procs -> States]
    BY InductiveKnows DEF MemoryOK
  <2> DEFINE r == [loaded[q] EXCEPT !.build_status = "FAILED", !.status = "FAILED"]
  <2>2. /\ r \in States /\ r.patch = loaded[q].patch /\ r.build = loaded[q].build
        /\ r.image = loaded[q].image /\ r.build_status = "FAILED" /\ r.status = "FAILED"
    BY <1>2 DEF States
  <2>3. loaded' = [loaded EXCEPT ![q] = r]
    BY DEF BuildFailed
  <2> HIDE DEF r
  <2>4. QED BY <2>1, <2>2, <2>3
<1>5. Goto(q, "build_record") /\ pc'[q] = "build_record"
  BY PcAfter DEF BuildFailed
<1>6. LoadedOK(q)'
  BY <1>2, <1>3, <1>4 DEF LoadedOK
<1>7. ~OnCourse(q)' /\ ChurnOK(q)'
  BY <1>4, <1>5 DEF OnCourse, ChurnOK
<1>8. MemoryOK'
  BY <1>4, InductiveKnows DEF MemoryOK
<1>9. QED BY <1>1, <1>5, <1>6, <1>7, <1>8, BuildGoesOn

LEMMA BuildHashStep ==
  ASSUME Inductive, NEW q \in Procs, BuildHash(q)
  PROVE  Inductive'
<1>1. /\ pc[q] = "build_hash" /\ pc[q] \in Building \ {"build_state"} /\ pc[q] \in BuildLabels
      /\ seen' = [seen EXCEPT ![q] = source] /\ began' = [began EXCEPT ![q] = edits]
      /\ UNCHANGED <<source, state, evidence, jobLock, arg, copy, forged, newest, edits, faults>>
  BY DEF BuildHash, Building, BuildLabels
<1>2. source \in Contents /\ edits \in 0..MaxEdits /\ LoadedOK(q) /\ faults \in 0..MaxFaults
  BY <1>1, BuildKnows, InductiveKnows DEF DataOK
<1>3. /\ seen' \in [Procs -> Contents \cup {"none"}] /\ began' \in [Procs -> 0..MaxEdits]
      /\ seen'[q] = source /\ began'[q] = edits
  BY <1>1, <1>2, InductiveKnows DEF MemoryOK
<1>4. BeganOK'
  BY <1>1, <1>2, <1>3, InductiveKnows DEF BeganOK, MemoryOK
<1>5. CASE state.patch = NoPatch \/ applied[state.patch] = source
  <2>1. Goto(q, "build_copy") /\ UNCHANGED loaded /\ "build_copy" \in Building
    BY <1>1, <1>5 DEF BuildHash, Building, BuildLabels
  <2>2. pc'[q] = "build_copy"
    BY <2>1, PcAfter
  <2>3. MemoryOK'
    BY <1>1, <1>3, <2>1, InductiveKnows DEF MemoryOK
  <2>4. LoadedOK(q)'
    BY <1>1, <1>2, <2>1 DEF LoadedOK
  <2>5. ChurnOK(q)'
    BY <1>1, <1>2, <1>3, <2>2 DEF ChurnOK
  <2>6. state.patch # NoPatch => applied[state.patch] = seen'[q]
    BY <1>3, <1>5
  <2>7. QED BY <1>1, <1>2, <1>4, <2>1, <2>3, <2>4, <2>5, <2>6, BuildGoesOn
<1>6. CASE ~(state.patch = NoPatch \/ applied[state.patch] = source)
  <2>1. BuildFailed(q)
    BY <1>6 DEF BuildHash
  <2>2. QED BY <1>1, <1>2, <1>3, <1>4, <2>1, FailedStep
<1>7. QED BY <1>5, <1>6

LEMMA BuildCopyStep ==
  ASSUME Inductive, NEW q \in Procs, BuildCopy(q)
  PROVE  Inductive'
<1>1. /\ pc[q] = "build_copy" /\ pc[q] \in Building \ {"build_state"} /\ copy' = [copy EXCEPT ![q] = source]
      /\ Goto(q, "build_compile") /\ "build_compile" \in Building
      /\ UNCHANGED <<source, state, evidence, jobLock, arg, seen, forged, loaded, began, newest,
                     edits, faults>>
  BY DEF BuildCopy, Building, BuildLabels
<1>2. /\ source \in Contents /\ edits \in Nat /\ began[q] \in Nat /\ began[q] <= edits
      /\ LoadedOK(q) /\ faults \in 0..MaxFaults
  BY <1>1, BuildKnows, InductiveKnows, LineageAssumption DEF DataOK
<1>3. MemoryOK' /\ BeganOK' /\ copy'[q] = source
  BY <1>1, <1>2, InductiveKnows DEF MemoryOK, BeganOK
<1>4. pc'[q] = "build_compile"
  BY <1>1, PcAfter
<1>5. LoadedOK(q)'
  BY <1>1, <1>2 DEF LoadedOK
<1>6. ChurnOK(q)'
  <2>1. /\ edits = began[q] => source = seen[q]
        /\ edits = began[q] + 1 => source # seen[q]
    BY <1>1, InductiveKnows DEF ProcOK, ChurnOK
  <2>2. QED BY <1>1, <1>3, <1>4, <2>1 DEF ChurnOK
<1>7. state.patch # NoPatch => applied[state.patch] = seen'[q]
  BY <1>1, InductiveKnows DEF ProcOK, OnCourse
<1>8. QED BY <1>1, <1>2, <1>3, <1>5, <1>6, <1>7, BuildGoesOn

(* The checks of a build that pass leave what it has in hand.              *)
LEMMA BuildPasses ==
  ASSUME Inductive, NEW q \in Procs,
         \/ pc[q] = "build_compile" /\ Goto(q, "build_verify")
         \/ pc[q] = "build_verify" /\ Goto(q, "build_import") /\ source = seen[q],
         UNCHANGED <<source, state, evidence, jobLock, memory, newest, edits, faults>>
  PROVE  Inductive'
<1>1. PICK label \in {"build_verify", "build_import"} :
        /\ Goto(q, label) /\ label \in Building /\ pc[q] \in Building \ {"build_state"}
        /\ label = "build_verify" => pc[q] = "build_compile"
        /\ label = "build_import" => pc[q] = "build_verify" /\ source = seen[q]
  BY DEF Building, BuildLabels
<1>2. MemoryOK' /\ BeganOK' /\ LoadedOK(q) /\ faults' \in 0..MaxFaults
  BY <1>1, InductiveKnows, BuildKnows DEF MemoryOK, BeganOK, memory, DataOK
<1>3. pc'[q] = label
  BY <1>1, PcAfter
<1>4. LoadedOK(q)'
  BY <1>1, <1>2, <1>3 DEF LoadedOK, memory
<1>5. ChurnOK(q)'
  <2>1. ~forged[q] =>
        /\ edits = began[q] => copy[q] = seen[q]
        /\ edits = began[q] + 1 => copy[q] = seen[q] \/ (copy[q] = source /\ source # seen[q])
    BY <1>1, InductiveKnows DEF ProcOK, ChurnOK
  <2>2. edits <= began[q] + 1 => edits = began[q] \/ edits = began[q] + 1
    BY <1>1, BuildKnows, LineageAssumption
  <2>3. QED BY <1>1, <1>3, <2>1, <2>2 DEF ChurnOK, memory
<1>6. state.patch # NoPatch => applied[state.patch] = seen'[q]
  BY <1>1, InductiveKnows DEF ProcOK, OnCourse, memory
<1>7. QED BY <1>1, <1>2, <1>4, <1>5, <1>6, BuildGoesOn DEF memory

LEMMA BuildCheckStep ==
  ASSUME Inductive, NEW q \in Procs, BuildCompile(q) \/ BuildVerify(q)
  PROVE  Inductive'
<1>1. /\ pc[q] \in {"build_compile", "build_verify"} /\ pc[q] \in BuildLabels
      /\ UNCHANGED <<source, state, evidence, jobLock, arg, seen, copy, forged, began, newest, edits,
                     faults>>
  BY DEF BuildCompile, BuildVerify, BuildLabels
<1>2. CASE BuildFailed(q)
  BY <1>1, <1>2, InductiveKnows, FailedStep DEF MemoryOK, BeganOK, DataOK
<1>3. CASE ~BuildFailed(q)
  BY <1>1, <1>3, BuildPasses DEF BuildCompile, BuildVerify, memory
<1>4. QED BY <1>2, <1>3

LEMMA BuildImportStep ==
  ASSUME Inductive, NEW q \in Procs, BuildImport(q)
  PROVE  Inductive'
<1>1. /\ pc[q] = "build_import" /\ pc[q] \in Building /\ pc[q] \in BuildLabels
      /\ UNCHANGED <<source, state, patches, applied, built, images, vms, passed, jobLock, arg, seen,
                     copy, forged, began, newest, edits, faults>>
  BY DEF BuildImport, Building, BuildLabels
<1>2. CASE BuildFailed(q) /\ UNCHANGED wheels
  <2>1. faults \in 0..MaxFaults /\ MemoryOK /\ BeganOK'
    BY <1>1, InductiveKnows DEF DataOK, BeganOK
  <2>2. QED BY <1>1, <1>2, <2>1, FailedStep DEF MemoryOK, evidence
<1>3. CASE /\ wheels' = [wheels EXCEPT ![arg[q]] = "intact"]
           /\ Goto(q, "build_select") /\ UNCHANGED loaded
  <2>1. /\ arg[q] \in Builds /\ state.build = NoBuild /\ LoadedOK(q) /\ jobLock = q
        /\ built[arg[q]].status # "PASS"
    BY <1>1, BuildKnows
  <2>2. pc'[q] = "build_select"
    BY <1>3, PcAfter
  <2>3. DataOK' /\ MemoryOK' /\ BeganOK'
    BY <1>1, <1>3, <2>1, InductiveKnows DEF DataOK, MemoryOK, BeganOK
  <2>4. LoadedOK(q)'
    BY <1>1, <1>3, <2>1 DEF LoadedOK
  <2>5. /\ state.patch # NoPatch => applied[state.patch] = seen[q]
        /\ ~forged[q] /\ edits <= began[q] + 1 => copy[q] = seen[q]
    BY <1>1, InductiveKnows DEF ProcOK, OnCourse, ChurnOK
  <2>6. ChurnOK(q)'
    BY <1>1, <2>2, <2>5 DEF ChurnOK
  <2>7. ProcOK(q)'
    BY <1>1, <2>1, <2>2, <2>4, <2>5, <2>6
       DEF ProcOK, PatchLabels, Building, BuildLabels, ImageLabels
  <2>8. Chains'
    BY <1>1, ChainsStay
  <2>9. "build_select" \in Labels /\ jobLock' = q /\ pc[q] # "idle"
    BY <1>1, <2>1 DEF Labels, BuildLabels
  <2>10. QED BY <1>3, <2>3, <2>7, <2>8, <2>9, OneMoves
<1>4. QED BY <1>2, <1>3 DEF BuildImport

(* A failure, a forged or a damaged wheel is counted.                      *)
LEMMA Faults ==
  ASSUME Inductive, Fault \/ UNCHANGED faults
  PROVE  faults' \in 0..MaxFaults
<1>1. faults \in 0..MaxFaults /\ MaxFaults \in Nat
  BY InductiveKnows, LineageAssumption DEF DataOK
<1>2. QED BY <1>1 DEF Fault

LEMMA BuildSelectStep ==
  ASSUME Inductive, NEW q \in Procs, BuildSelect(q)
  PROVE  Inductive'
<1>1. /\ pc[q] = "build_select" /\ pc[q] \in Building \ {"build_state"} /\ Goto(q, "build_record")
      /\ "build_record" \in Building /\ faults' \in 0..MaxFaults
      /\ UNCHANGED <<source, state, evidence, jobLock, arg, seen, copy, forged, began, newest, edits>>
  BY Faults DEF BuildSelect, Building, BuildLabels
<1>2. arg[q] \in Builds /\ LoadedOK(q) /\ loaded[q] \in States
  BY <1>1, BuildKnows
<1>3. PICK result \in {"PASS", "FAILED"}, status \in {"READY", "FAILED"} :
        loaded' = [loaded EXCEPT ![q].build = arg[q], ![q].build_status = result,
                                 ![q].status = status]
  BY DEF BuildSelect
<1>4. /\ loaded' \in [Procs -> States]
      /\ loaded'[q].patch = loaded[q].patch /\ loaded'[q].build = arg[q]
      /\ loaded'[q].image = loaded[q].image
      /\ loaded'[q].build_status = result /\ loaded'[q].status = status
  <2>1. loaded \in [Procs -> States]
    BY InductiveKnows DEF MemoryOK
  <2> DEFINE r == [loaded[q] EXCEPT !.build = arg[q], !.build_status = result,
                                    !.status = status]
  <2>2. /\ r \in States /\ r.patch = loaded[q].patch /\ r.build = arg[q]
        /\ r.image = loaded[q].image /\ r.build_status = result /\ r.status = status
    BY <1>2 DEF States
  <2>3. loaded' = [loaded EXCEPT ![q] = r]
    BY <1>3
  <2> HIDE DEF r
  <2>4. QED BY <2>1, <2>2, <2>3
<1>5. pc'[q] = "build_record"
  BY <1>1, PcAfter
<1>6. MemoryOK' /\ BeganOK'
  BY <1>1, <1>4, InductiveKnows DEF MemoryOK, BeganOK
<1>7. LoadedOK(q)'
  BY <1>1, <1>2, <1>4, <1>5 DEF LoadedOK
<1>8. /\ state.patch # NoPatch => applied[state.patch] = seen[q]
      /\ ~forged[q] /\ edits <= began[q] + 1 => copy[q] = seen[q]
  BY <1>1, InductiveKnows DEF ProcOK, OnCourse, ChurnOK
<1>9. ChurnOK(q)'
  BY <1>1, <1>5, <1>8 DEF ChurnOK
<1>10. QED BY <1>1, <1>6, <1>7, <1>8, <1>9, BuildGoesOn

LEMMA BuildInterruptedStep ==
  ASSUME Inductive, NEW q \in Procs, BuildInterrupted(q)
  PROVE  Inductive'
<1>1. /\ pc[q] \in BuildLabels /\ BuildFailed(q) /\ faults' \in 0..MaxFaults
      /\ UNCHANGED <<source, state, evidence, jobLock, arg, seen, copy, forged, began, newest, edits>>
  BY Faults DEF BuildInterrupted
<1>2. QED BY <1>1, InductiveKnows, FailedStep DEF MemoryOK, BeganOK

(* The record of a build that passed, while the source moved once or not   *)
(* at all and nothing was forged, is of the source that it compiled.       *)
LEMMA RecordWritten ==
  ASSUME Inductive, NEW q \in Procs, pc[q] = "build_record"
  PROVE  /\ NewRecord(q) \in [status : {"none", "PASS", "FAIL"}, source : Contents \cup {"none"},
                              patch : Patches \cup {NoPatch}, wheel : Contents \cup {"none"},
                              churn : Nat, forged : BOOLEAN]
         /\ NewRecord(q).source = seen[q] /\ NewRecord(q).patch = loaded[q].patch
         /\ NewRecord(q).status = "PASS" <=> loaded[q].build_status = "PASS"
         /\ NewRecord(q).status = "PASS" /\ NewRecord(q).churn <= 1 /\ ~NewRecord(q).forged
              => NewRecord(q).wheel = NewRecord(q).source
<1>1. pc[q] \in Building
  BY DEF Building
<1>2. /\ loaded[q] \in States /\ loaded[q].patch \in Patches \cup {NoPatch}
      /\ seen[q] \in Contents \cup {"none"} /\ copy[q] \in Contents \cup {"none"}
      /\ edits \in Nat /\ began[q] \in Nat /\ began[q] <= edits /\ forged[q] \in BOOLEAN
  BY <1>1, BuildKnows, StateFields, InductiveKnows, LineageAssumption DEF MemoryOK
<1>3. edits - began[q] \in Nat /\ (edits - began[q] <= 1 => edits <= began[q] + 1)
  BY <1>2
<1>4. CASE loaded[q].build_status = "PASS"
  <2>1. ~forged[q] /\ edits <= began[q] + 1 => copy[q] = seen[q]
    BY <1>4, InductiveKnows DEF ProcOK, ChurnOK
  <2>2. NewRecord(q) = [status |-> "PASS", source |-> seen[q], patch |-> loaded[q].patch,
                        wheel |-> copy[q], churn |-> edits - began[q], forged |-> forged[q]]
    BY <1>4 DEF NewRecord
  <2>3. QED BY <1>2, <1>3, <1>4, <2>1, <2>2
<1>5. CASE loaded[q].build_status # "PASS"
  <2>1. NewRecord(q) = [status |-> "FAIL", source |-> seen[q], patch |-> loaded[q].patch,
                        wheel |-> "none", churn |-> edits - began[q], forged |-> forged[q]]
    BY <1>5 DEF NewRecord
  <2>2. QED BY <1>2, <1>3, <1>5, <2>1
<1>6. QED BY <1>4, <1>5

LEMMA BuildRecordStep ==
  ASSUME Inductive, NEW q \in Procs, BuildRecord(q)
  PROVE  Inductive'
<1>1. /\ pc[q] = "build_record" /\ pc[q] \in Building \ {"build_state"} /\ "build_state" \in Building
      /\ UNCHANGED <<source, state, patches, applied, wheels, images, vms, passed, newest, edits>>
  BY DEF BuildRecord, Building
<1>2. /\ arg[q] \in Builds /\ state.build = NoBuild /\ LoadedOK(q) /\ jobLock = q
      /\ state.image = NoBuild
  BY <1>1, BuildKnows, NoImage
<1>3. /\ faults' \in 0..MaxFaults
      /\ OnCourse(q) /\ state.patch # NoPatch => applied[state.patch] = seen[q]
  BY <1>1, Faults, InductiveKnows DEF BuildRecord, ProcOK
<1>4. CASE /\ built' = [built EXCEPT ![arg[q]] = NewRecord(q)]
           /\ Goto(q, "build_state") /\ UNCHANGED <<jobLock, memory, faults>>
  <2>1. built \in [Builds -> [status : {"none", "PASS", "FAIL"}, source : Contents \cup {"none"},
                             patch : Patches \cup {NoPatch}, wheel : Contents \cup {"none"},
                             churn : Nat, forged : BOOLEAN]]
    BY InductiveKnows DEF DataOK
  <2>2. /\ built' \in [Builds -> [status : {"none", "PASS", "FAIL"}, source : Contents \cup {"none"},
                                  patch : Patches \cup {NoPatch}, wheel : Contents \cup {"none"},
                                  churn : Nat, forged : BOOLEAN]]
        /\ built'[arg[q]] = NewRecord(q) /\ \A b \in Builds : b # arg[q] => built'[b] = built[b]
    BY <1>1, <1>2, <1>4, <2>1, RecordWritten
  <2>3. DataOK' /\ MemoryOK' /\ BeganOK'
    BY <1>1, <1>3, <1>4, <2>2, InductiveKnows DEF DataOK, MemoryOK, BeganOK, memory
  <2>4. pc'[q] = "build_state"
    BY <1>4, PcAfter
  <2>5. LoadedOK(q)'
    BY <1>1, <1>2, <1>4, <2>4 DEF LoadedOK, memory
  <2>6. /\ loaded[q].build_status # "PASS" => built'[arg[q]].status # "PASS"
        /\ loaded[q].build_status = "PASS" =>
          /\ built'[arg[q]].status = "PASS" /\ built'[arg[q]].patch = state.patch
          /\ built'[arg[q]].source = seen[q]
    BY <1>1, <1>2, <2>2, RecordWritten DEF LoadedOK
  <2>7. OnCourse(q)' => OnCourse(q)
    BY <1>1, <1>4, <2>4 DEF OnCourse, memory
  <2>8. ProcOK(q)'
    BY <1>1, <1>2, <1>3, <1>4, <2>4, <2>5, <2>6, <2>7
       DEF ProcOK, PatchLabels, Building, BuildLabels, ImageLabels, ChurnOK, memory
  <2>9. LoneEditIsCaught'
    <3> SUFFICES ASSUME NEW b \in Builds, built'[b].status = "PASS", built'[b].churn <= 1,
                        ~built'[b].forged
                 PROVE  built'[b].wheel = built'[b].source
      BY DEF LoneEditIsCaught
    <3>1. CASE b = arg[q]
      BY <1>1, <2>2, <3>1, RecordWritten
    <3>2. CASE b # arg[q]
      BY <2>2, <3>2 DEF Inductive, Chains, LoneEditIsCaught
    <3>3. QED BY <3>1, <3>2
  <2>10. Chains'
    BY <1>1, <1>2, <2>9
       DEF Inductive, Chains, EvidenceChain, Passing, NewestPatchSelected, CompleteIsEarned
  <2>11. "build_state" \in Labels /\ pc[q] # "idle" /\ jobLock' = q
    BY <1>1, <1>2, <1>4 DEF Labels
  <2>12. QED BY <1>4, <2>3, <2>8, <2>10, <2>11, OneMoves
<1>5. CASE UNCHANGED built /\ loaded[q].build_status = "PASS" /\ Finish(q)
  <2>1. DataOK'
    BY <1>1, <1>3, <1>5, InductiveKnows DEF DataOK
  <2>2. Chains'
    BY <1>1, <1>5, ChainsStay
  <2>3. pc[q] # "idle"
    BY <1>1
  <2>4. QED BY <1>1, <1>5, <2>1, <2>2, <2>3, Finishes
<1>6. CASE /\ UNCHANGED built /\ loaded[q].build_status # "PASS" /\ Goto(q, "build_state")
           /\ UNCHANGED <<jobLock, memory>>
  <2>1. MemoryOK' /\ BeganOK'
    BY <1>1, <1>6, InductiveKnows DEF MemoryOK, BeganOK, memory
  <2>2. pc'[q] = "build_state"
    BY <1>6, PcAfter
  <2>3. LoadedOK(q)' /\ ~OnCourse(q)' /\ ChurnOK(q)'
    BY <1>1, <1>2, <1>6, <2>2 DEF LoadedOK, OnCourse, ChurnOK, memory
  <2>4. QED BY <1>1, <1>3, <1>6, <2>1, <2>3, BuildGoesOn DEF evidence, memory
<1>7. QED BY <1>4, <1>5, <1>6 DEF BuildRecord

LEMMA BuildStateStep ==
  ASSUME Inductive, NEW q \in Procs, BuildState(q)
  PROVE  Inductive'
<1>1. /\ pc[q] = "build_state" /\ pc[q] \in Building /\ pc[q] # "idle" /\ state' = loaded[q]
      /\ Finish(q) /\ UNCHANGED <<source, evidence, newest, edits, faults>>
  BY DEF BuildState, Building
<1>2. arg[q] \in Builds /\ LoadedOK(q) /\ loaded[q] \in States
  BY <1>1, BuildKnows
<1>3. DataOK'
  BY <1>1, <1>2, InductiveKnows DEF DataOK, evidence
<1>4. state'.patch = newest' /\ state'.image = NoBuild /\ state'.status # "COMPLETE"
  BY <1>1, <1>2 DEF LoadedOK, Inductive, Chains, NewestPatchSelected
<1>5. CASE loaded[q].build_status # "PASS"
  <2>1. /\ state'.build \in {NoBuild, arg[q]} /\ state'.build_status # "PASS"
        /\ built[arg[q]].status # "PASS"
    BY <1>1, <1>2, <1>5, InductiveKnows DEF LoadedOK, ProcOK
  <2>2. EvidenceChain'
    BY <1>1, <1>4, <2>1 DEF EvidenceChain, Passing, evidence
  <2>3. Chains'
    BY <1>1, <1>4, <2>2
       DEF Inductive, Chains, NewestPatchSelected, CompleteIsEarned, LoneEditIsCaught, evidence
  <2>4. QED BY <1>1, <1>3, <2>3, Finishes
<1>6. CASE loaded[q].build_status = "PASS"
  <2>1. /\ state'.build = arg[q] /\ state'.build_status = "PASS" /\ state'.patch = state.patch
        /\ built[arg[q]].status = "PASS" /\ built[arg[q]].patch = state.patch
        /\ built[arg[q]].source = seen[q]
        /\ state.patch # NoPatch => applied[state.patch] = seen[q]
    BY <1>1, <1>2, <1>6, InductiveKnows, LineageAssumption DEF LoadedOK, ProcOK, OnCourse
  <2>2. EvidenceChain'
    BY <1>1, <1>2, <1>4, <2>1, LineageAssumption DEF EvidenceChain, Passing, evidence
  <2>3. Chains'
    BY <1>1, <1>4, <2>2
       DEF Inductive, Chains, NewestPatchSelected, CompleteIsEarned, LoneEditIsCaught, evidence
  <2>4. QED BY <1>1, <1>3, <2>3, Finishes
<1>7. QED BY <1>5, <1>6

-----------------------------------------------------------------------------
(* Revocation, and what ends with it.                                      *)
LEMMA Revoked ==
  ASSUME Inductive, Invalidate(state.patch) \/ UNCHANGED state, UNCHANGED <<applied, built, newest>>,
         images' = images, passed' = passed
  PROVE  state' \in States /\ Chains'
<1>1. state \in States /\ state.patch \in Patches \cup {NoPatch} /\ state.patch = newest
  BY InductiveKnows, StateFields DEF DataOK, Chains, NewestPatchSelected
<1>2. CASE Invalidate(state.patch)
  <2>1. /\ state' \in States /\ state'.patch = state.patch /\ state'.build = NoBuild
        /\ state'.image = NoBuild /\ state'.status = "READY"
    BY <1>1, <1>2, Invalidated
  <2>2. QED BY <1>1, <2>1, NoChains
<1>3. CASE UNCHANGED state
  BY <1>1, <1>3, ChainsStay
<1>4. QED BY <1>2, <1>3

LEMMA JobStatusStep ==
  ASSUME Inductive, NEW q \in Procs, JobStatus(q)
  PROVE  Inductive'
<1>1. /\ pc[q] = "job_status" /\ Finish(q) /\ UNCHANGED <<source, evidence, newest, edits, faults>>
      /\ Invalidate(state.patch) \/ UNCHANGED state
  BY DEF JobStatus, Revoke
<1>2. state' \in States /\ Chains'
  BY <1>1, Revoked DEF evidence
<1>3. DataOK'
  BY <1>1, <1>2, InductiveKnows DEF DataOK, evidence
<1>4. QED BY <1>1, <1>2, <1>3, Finishes

LEMMA SandboxReadyStep ==
  ASSUME Inductive, NEW q \in Procs, SandboxReady(q)
  PROVE  Inductive'
<1>1. /\ pc[q] = "sandbox_ready" /\ Finish(q) /\ UNCHANGED <<source, evidence, newest, edits, faults>>
      /\ state' = [state EXCEPT !.status = "READY"]
  BY DEF SandboxReady
<1>2. /\ state' \in States /\ state'.patch = state.patch /\ state'.build = state.build
      /\ state'.image = state.image /\ state'.build_status = state.build_status
      /\ state'.status = "READY"
  BY <1>1, InductiveKnows, StatusSet DEF DataOK
<1>3. DataOK'
  BY <1>1, <1>2, InductiveKnows DEF DataOK, evidence
<1>4. Chains'
  BY <1>1, <1>2 DEF Inductive, Chains, EvidenceChain, Passing, NewestPatchSelected, CompleteIsEarned,
     LoneEditIsCaught, evidence
<1>5. QED BY <1>1, <1>3, <1>4, Finishes

-----------------------------------------------------------------------------
(* Images, VMs and guest tests.                                            *)

(* A build that is current is not revoked.                                 *)
LEMMA CurrentStays ==
  ASSUME Inductive, Current, Revoke
  PROVE  UNCHANGED state /\ state.build \in Builds
<1>1. UNCHANGED state /\ state.build # NoBuild
  BY DEF Current, Revoke, Passing
<1>2. state.build \in Builds \cup {NoBuild}
  BY InductiveKnows, StateFields DEF DataOK
<1>3. QED BY <1>1, <1>2

LEMMA RegisterCheckStep ==
  ASSUME Inductive, NEW q \in Procs, RegisterCheck(q)
  PROVE  Inductive'
<1>1. /\ pc[q] = "register_check" /\ Revoke /\ UNCHANGED <<source, evidence, newest, edits, faults>>
      /\ Invalidate(state.patch) \/ UNCHANGED state
  BY DEF RegisterCheck, Revoke
<1>2. state' \in States /\ Chains'
  BY <1>1, Revoked DEF evidence
<1>3. DataOK'
  BY <1>1, <1>2, InductiveKnows DEF DataOK, evidence
<1>4. CASE Current
  <2>1. /\ arg' = [arg EXCEPT ![q] = state.build] /\ Goto(q, "register_write")
        /\ UNCHANGED <<jobLock, seen, copy, forged, loaded, began>>
    BY <1>4 DEF RegisterCheck
  <2>2. state' = state /\ state.build \in Builds /\ Passing
    BY <1>1, <1>4, CurrentStays DEF Current
  <2>3. MemoryOK' /\ BeganOK' /\ arg'[q] = state.build
    BY <1>1, <2>1, <2>2, InductiveKnows DEF MemoryOK, BeganOK
  <2>4. pc'[q] = "register_write"
    BY <2>1, PcAfter
  <2>5. ProcOK(q)'
    BY <2>2, <2>3, <2>4
       DEF ProcOK, Passing, PatchLabels, Building, BuildLabels, ImageLabels, OnCourse, ChurnOK
  <2>6. "register_write" \in Labels /\ jobLock' = q
    BY <1>1, <2>1, Alone DEF Labels
  <2>7. QED BY <1>1, <1>2, <1>3, <2>1, <2>3, <2>5, <2>6, OneMoves
<1>5. CASE ~Current
  BY <1>1, <1>2, <1>3, <1>5, Finishes DEF RegisterCheck
<1>6. QED BY <1>4, <1>5

LEMMA RegisterWriteStep ==
  ASSUME Inductive, NEW q \in Procs, RegisterWrite(q)
  PROVE  Inductive'
<1>1. /\ pc[q] = "register_write" /\ images' = images \cup {arg[q]} /\ Goto(q, "register_select")
      /\ UNCHANGED <<source, state, patches, applied, built, wheels, vms, passed, jobLock, memory,
                     newest, edits, faults>>
      /\ arg[q] \in Builds /\ Passing /\ state.build = arg[q]
  BY InductiveKnows DEF RegisterWrite, ProcOK, ImageLabels
<1>2. DataOK'
  BY <1>1, InductiveKnows DEF DataOK
<1>3. pc'[q] = "register_select"
  BY <1>1, PcAfter
<1>4. ProcOK(q)'
  BY <1>1, <1>3
     DEF ProcOK, Passing, PatchLabels, Building, BuildLabels, ImageLabels, OnCourse, ChurnOK, memory
<1>5. Chains'
  BY <1>1, ChainsStay
<1>6. "register_select" \in Labels \ {"idle"}
  BY DEF Labels
<1>7. QED BY <1>1, <1>2, <1>4, <1>5, <1>6, GoesOn

LEMMA RegisterSelectStep ==
  ASSUME Inductive, NEW q \in Procs, RegisterSelect(q)
  PROVE  Inductive'
<1>1. /\ pc[q] = "register_select" /\ Finish(q) /\ UNCHANGED <<source, evidence, newest, edits, faults>>
      /\ state' = [state EXCEPT !.image = arg[q]]
      /\ arg[q] \in Builds /\ Passing /\ state.build = arg[q] /\ arg[q] \in images
  BY InductiveKnows DEF RegisterSelect, ProcOK, ImageLabels
<1>2. /\ state' \in States /\ state'.patch = state.patch /\ state'.build = state.build
      /\ state'.image = arg[q] /\ state'.build_status = state.build_status
      /\ state'.status = state.status
  BY <1>1, InductiveKnows, ImageSet DEF DataOK
<1>3. DataOK'
  BY <1>1, <1>2, InductiveKnows DEF DataOK, evidence
<1>4. CompleteIsEarned'
  <2>1. SUFFICES ASSUME state.status = "COMPLETE" PROVE arg[q] \in passed
    BY <1>1, <1>2 DEF CompleteIsEarned, evidence
  <2>2. state.image \in passed /\ state.image # NoBuild
    BY <2>1, InductiveKnows, LineageAssumption DEF Chains, CompleteIsEarned, DataOK
  <2>3. state.image = state.build
    BY <2>2 DEF Inductive, Chains, EvidenceChain, Passing
  <2>4. QED BY <1>1, <2>2, <2>3
<1>5. Chains'
  BY <1>1, <1>2, <1>4 DEF Inductive, Chains, EvidenceChain, Passing, NewestPatchSelected,
     LoneEditIsCaught, evidence
<1>6. QED BY <1>1, <1>3, <1>5, Finishes

LEMMA DeployStep ==
  ASSUME Inductive, NEW q \in Procs, Deploy(q)
  PROVE  Inductive'
<1>1. /\ pc[q] = "deploy" /\ Finish(q) /\ arg[q] \in Builds
      /\ Invalidate(state.patch) \/ UNCHANGED state
      /\ vms' \in {vms, vms \cup {arg[q]}}
      /\ UNCHANGED <<source, patches, applied, built, wheels, images, passed, newest, edits, faults>>
  BY InductiveKnows DEF Deploy, Revoke, ProcOK, ImageLabels
<1>2. state' \in States /\ Chains'
  BY <1>1, Revoked
<1>3. DataOK'
  BY <1>1, <1>2, InductiveKnows DEF DataOK
<1>4. QED BY <1>1, <1>2, <1>3, Finishes

LEMMA TestCheckStep ==
  ASSUME Inductive, NEW q \in Procs, TestCheck(q)
  PROVE  Inductive'
<1>1. /\ pc[q] = "test_check" /\ Revoke /\ UNCHANGED <<source, evidence, newest, edits, faults>>
      /\ Invalidate(state.patch) \/ UNCHANGED state
      /\ arg[q] \in Builds
  BY InductiveKnows DEF TestCheck, Revoke, ProcOK, ImageLabels
<1>2. state' \in States /\ Chains'
  BY <1>1, Revoked DEF evidence
<1>3. DataOK'
  BY <1>1, <1>2, InductiveKnows DEF DataOK, evidence
<1>4. CASE ImageIsCurrent(arg[q])
  <2>1. Goto(q, "test_artifact") /\ UNCHANGED <<jobLock, memory>>
    BY <1>4 DEF TestCheck
  <2>2. state' = state /\ state.image = arg[q]
    BY <1>1, <1>4, CurrentStays DEF ImageIsCurrent
  <2>3. pc'[q] = "test_artifact"
    BY <2>1, PcAfter
  <2>4. ProcOK(q)'
    BY <1>1, <2>1, <2>2, <2>3
       DEF ProcOK, PatchLabels, Building, BuildLabels, ImageLabels, OnCourse, ChurnOK, memory
  <2>5. "test_artifact" \in Labels \ {"idle"}
    BY DEF Labels
  <2>6. QED BY <1>1, <1>2, <1>3, <2>1, <2>4, <2>5, GoesOn
<1>5. CASE ~ImageIsCurrent(arg[q])
  BY <1>1, <1>2, <1>3, <1>5, Finishes DEF TestCheck
<1>6. QED BY <1>4, <1>5

LEMMA TestArtifactStep ==
  ASSUME Inductive, NEW q \in Procs, TestArtifact(q)
  PROVE  Inductive'
<1>1. /\ pc[q] = "test_artifact" /\ UNCHANGED <<source, state, evidence, newest, edits, faults>>
      /\ arg[q] \in Builds /\ state.image = arg[q]
  BY InductiveKnows DEF TestArtifact, ProcOK, ImageLabels
<1>2. DataOK' /\ Chains'
  BY <1>1, InductiveKnows, ChainsStay DEF DataOK, evidence
<1>3. CASE Goto(q, "test_guest") /\ UNCHANGED <<jobLock, memory>>
  <2>1. pc'[q] = "test_guest"
    BY <1>3, PcAfter
  <2>2. ProcOK(q)'
    BY <1>1, <1>3, <2>1
       DEF ProcOK, PatchLabels, Building, BuildLabels, ImageLabels, OnCourse, ChurnOK, memory
  <2>3. "test_guest" \in Labels \ {"idle"}
    BY DEF Labels
  <2>4. QED BY <1>1, <1>2, <1>3, <2>2, <2>3, GoesOn
<1>4. CASE Finish(q)
  BY <1>1, <1>2, <1>4, Finishes
<1>5. QED BY <1>3, <1>4 DEF TestArtifact

LEMMA TestGuestStep ==
  ASSUME Inductive, NEW q \in Procs, TestGuest(q)
  PROVE  Inductive'
<1>1. /\ pc[q] = "test_guest" /\ arg[q] \in Builds /\ state.image = arg[q]
      /\ UNCHANGED <<source, state, patches, applied, built, wheels, images, vms, newest, edits, faults>>
  BY InductiveKnows DEF TestGuest, ProcOK, ImageLabels
<1>2. CASE passed' = passed \cup {arg[q]} /\ Goto(q, "test_state") /\ UNCHANGED <<jobLock, memory>>
  <2>1. DataOK' /\ Chains'
    BY <1>1, <1>2, InductiveKnows, ChainsStay DEF DataOK
  <2>2. pc'[q] = "test_state"
    BY <1>2, PcAfter
  <2>3. ProcOK(q)'
    BY <1>1, <1>2, <2>2
       DEF ProcOK, PatchLabels, Building, BuildLabels, ImageLabels, OnCourse, ChurnOK, memory
  <2>4. "test_state" \in Labels \ {"idle"}
    BY DEF Labels
  <2>5. QED BY <1>1, <1>2, <2>1, <2>3, <2>4, GoesOn
<1>3. CASE Finish(q) /\ UNCHANGED passed
  <2>1. DataOK' /\ Chains'
    BY <1>1, <1>3, InductiveKnows, ChainsStay DEF DataOK
  <2>2. QED BY <1>1, <1>3, <2>1, Finishes
<1>4. QED BY <1>2, <1>3 DEF TestGuest

LEMMA TestStateStep ==
  ASSUME Inductive, NEW q \in Procs, TestState(q)
  PROVE  Inductive'
<1>1. /\ pc[q] = "test_state" /\ Finish(q) /\ UNCHANGED <<source, evidence, newest, edits, faults>>
      /\ state' = [state EXCEPT !.status = "COMPLETE"]
      /\ state.image = arg[q] /\ arg[q] \in passed
  BY InductiveKnows DEF TestState, ProcOK
<1>2. /\ state' \in States /\ state'.patch = state.patch /\ state'.build = state.build
      /\ state'.image = state.image /\ state'.build_status = state.build_status
  BY <1>1, InductiveKnows, StatusSet DEF DataOK
<1>3. DataOK'
  BY <1>1, <1>2, InductiveKnows DEF DataOK, evidence
<1>4. Chains'
  BY <1>1, <1>2 DEF Inductive, Chains, EvidenceChain, Passing, NewestPatchSelected, CompleteIsEarned,
     LoneEditIsCaught, evidence
<1>5. QED BY <1>1, <1>3, <1>4, Finishes

-----------------------------------------------------------------------------
(* Deaths, edits, forgeries and damage.                                    *)
LEMMA StopsStep ==
  ASSUME Inductive, NEW q \in Procs, Stops(q)
  PROVE  Inductive'
<1>1. /\ pc[q] # "idle" /\ Finish(q) /\ faults' \in 0..MaxFaults
      /\ UNCHANGED <<source, state, evidence, newest, edits>>
  BY Faults DEF Stops
<1>2. DataOK' /\ Chains'
  BY <1>1, InductiveKnows, ChainsStay DEF DataOK, evidence
<1>3. QED BY <1>1, <1>2, Finishes

(* An edit shows in the hash of a source that was hashed before it; one    *)
(* that is not the first since then may undo the other.                    *)
LEMMA EditStep ==
  ASSUME Inductive, Edit
  PROVE  Inductive'
<1>1. /\ edits < MaxEdits /\ edits' = edits + 1 /\ source' \in Contents \ {source}
      /\ UNCHANGED <<state, evidence, jobLock, pc, memory, newest, faults>>
      /\ edits \in 0..MaxEdits /\ MaxEdits \in Nat
  BY InductiveKnows, LineageAssumption DEF Edit, DataOK
<1>2. edits' \in 0..MaxEdits
  BY <1>1
<1>3. TypeOK'
  BY <1>1, <1>2 DEF Inductive, TypeOK, evidence, memory
<1>4. LockOK'
  BY <1>1 DEF Inductive, LockOK
<1>5. BeganOK'
  <2> SUFFICES ASSUME NEW q \in Procs PROVE began'[q] <= edits'
    BY DEF BeganOK
  <2>1. began[q] \in Nat /\ began[q] <= edits
    BY InductiveKnows DEF MemoryOK, BeganOK
  <2>2. QED BY <1>1, <2>1 DEF memory
<1>6. ASSUME NEW q \in Procs PROVE ProcOK(q)'
  <2>1. began[q] \in Nat /\ began[q] <= edits /\ edits \in Nat
    BY <1>1, InductiveKnows DEF MemoryOK, BeganOK
  <2>2. /\ edits' # began[q] /\ (edits' = began[q] + 1 => edits = began[q])
        /\ edits' <= began[q] + 1 => edits <= began[q] + 1
    BY <1>1, <2>1
  <2>3. ProcOK(q) /\ ChurnOK(q)
    BY InductiveKnows DEF ProcOK
  <2>4. ChurnOK(q)'
    BY <1>1, <2>2, <2>3 DEF ChurnOK, memory
  <2>5. QED BY <1>1, <2>3, <2>4 DEF ProcOK, Passing, LoadedOK, OnCourse, evidence, memory
<1>7. Chains'
  BY <1>1, ChainsStay DEF evidence
<1>8. QED BY <1>3, <1>4, <1>5, <1>6, <1>7 DEF Inductive

LEMMA DamageStep ==
  ASSUME Inductive, NEW b \in Builds, Damage(b)
  PROVE  Inductive'
<1>1. /\ wheels' = [wheels EXCEPT ![b] = "damaged"] /\ faults' \in 0..MaxFaults
      /\ UNCHANGED <<source, state, patches, applied, built, images, vms, passed, jobLock, pc,
                     memory, newest, edits>>
  BY Faults DEF Damage
<1>2. TypeOK'
  BY <1>1 DEF Inductive, TypeOK, memory
<1>3. LockOK' /\ BeganOK'
  BY <1>1 DEF Inductive, LockOK, BeganOK, memory
<1>4. \A q \in Procs : ProcOK(q)'
  BY <1>1, InductiveKnows DEF ProcOK, Passing, LoadedOK, OnCourse, ChurnOK, memory
<1>5. Chains'
  BY <1>1, ChainsStay
<1>6. QED BY <1>2, <1>3, <1>4, <1>5 DEF Inductive

(* What was forged is no longer vouched for; nothing else depends on it.   *)
LEMMA ForgeStep ==
  ASSUME Inductive, NEW q \in Procs, Forge(q)
  PROVE  Inductive'
<1>1. /\ forged' = [forged EXCEPT ![q] = TRUE] /\ faults' \in 0..MaxFaults
      /\ pc[q] \in {"build_compile", "build_verify", "build_import"}
      /\ UNCHANGED <<source, state, evidence, jobLock, pc, arg, seen, loaded, began, newest, edits>>
  BY Faults DEF Forge
<1>2. PICK c \in Contents \cup {"none"} : copy' = [copy EXCEPT ![q] = c]
  BY DEF Forge
<1>3. /\ forged' \in [Procs -> BOOLEAN] /\ copy' \in [Procs -> Contents \cup {"none"}]
      /\ forged'[q] /\ \A o \in Procs : o # q => forged'[o] = forged[o] /\ copy'[o] = copy[o]
  BY <1>1, <1>2, InductiveKnows DEF MemoryOK
<1>4. TypeOK'
  BY <1>1, <1>3 DEF Inductive, TypeOK, evidence
<1>5. LockOK' /\ BeganOK'
  BY <1>1 DEF Inductive, LockOK, BeganOK
<1>6. ASSUME NEW o \in Procs PROVE ProcOK(o)'
  <2>1. ProcOK(o) /\ ChurnOK(o)
    BY InductiveKnows DEF ProcOK
  <2>2. ChurnOK(o)'
    BY <1>1, <1>3, <2>1 DEF ChurnOK
  <2>3. QED BY <1>1, <2>1, <2>2 DEF ProcOK, Passing, LoadedOK, OnCourse, evidence
<1>7. Chains'
  BY <1>1, ChainsStay DEF evidence
<1>8. QED BY <1>4, <1>5, <1>6, <1>7 DEF Inductive

LEMMA InductiveStep == Inductive /\ [Next]_vars => Inductive'
<1> SUFFICES ASSUME Inductive, [Next]_vars PROVE Inductive'
  OBVIOUS
<1>1. CASE UNCHANGED vars
  <2>1. TypeOK' /\ LockOK' /\ BeganOK'
    BY <1>1 DEF vars, evidence, memory, Inductive, TypeOK, LockOK, BeganOK
  <2>2. \A q \in Procs : ProcOK(q)'
    BY <1>1, InductiveKnows DEF vars, evidence, memory, ProcOK, Passing, LoadedOK, OnCourse, ChurnOK
  <2>3. Chains'
    BY <1>1, ChainsStay DEF vars, evidence
  <2>4. QED BY <2>1, <2>2, <2>3 DEF Inductive
<1>2. ASSUME NEW q \in Procs, Step(q) PROVE Inductive'
  <2>1. CASE PatchStep(q)
    BY <2>1, PatchWriteStep, PatchSelectStep, ApplyGitStep, ApplyInvalidateStep, ApplyHashStep,
       ApplyRecordStep DEF PatchStep
  <2>2. CASE BuildStep(q)
    BY <2>2, BuildStartStep, BuildHashStep, BuildCopyStep, BuildCheckStep, BuildImportStep,
       BuildSelectStep, BuildRecordStep, BuildStateStep DEF BuildStep
  <2>3. CASE ImageStep(q)
    BY <2>3, RegisterCheckStep, RegisterWriteStep, RegisterSelectStep, DeployStep, TestCheckStep,
       TestArtifactStep, TestGuestStep, TestStateStep DEF ImageStep
  <2>4. QED BY <1>2, <2>1, <2>2, <2>3, StartStep, JobStatusStep, SandboxReadyStep DEF Step
<1>3. ASSUME NEW q \in Procs, BuildInterrupted(q) \/ Stops(q) \/ Forge(q)
      PROVE  Inductive'
  BY <1>3, BuildInterruptedStep, StopsStep, ForgeStep
<1>4. CASE Edit \/ \E b \in Builds : Damage(b)
  BY <1>4, EditStep, DamageStep
<1>5. QED BY <1>1, <1>2, <1>3, <1>4 DEF Next

LEMMA InductiveHolds == Spec => []Inductive
BY InductiveInit, InductiveStep, PTL DEF Spec

-----------------------------------------------------------------------------
(* Types.                                                                  *)
THEOREM LineageTypesHold == Spec => []TypeOK
<1>1. Inductive => TypeOK
  BY DEF Inductive
<1>2. QED BY <1>1, InductiveHolds, PTL

(* Whatever died or was interrupted in between, also after a build had     *)
(* selected itself: state.json names a build as passed exactly if its      *)
(* record passed, is of the selected patch and of the source that patch    *)
(* was applied to; and an image only if it is of such a build.             *)
THEOREM EvidenceIsAChain == Spec => []EvidenceChain
<1>1. Inductive => EvidenceChain
  BY DEF Inductive, Chains
<1>2. QED BY <1>1, InductiveHolds, PTL

(* A build, which saves an old copy of the state, brings back no patch.    *)
THEOREM NewestPatchStaysSelected == Spec => []NewestPatchSelected
<1>1. Inductive => NewestPatchSelected
  BY DEF Inductive, Chains
<1>2. QED BY <1>1, InductiveHolds, PTL

(* A job is COMPLETE only with an image that passed in a guest.            *)
THEOREM CompletionIsEarned == Spec => []CompleteIsEarned
<1>1. Inductive => CompleteIsEarned
  BY DEF Inductive, Chains
<1>2. QED BY <1>1, InductiveHolds, PTL

(* One edit of the source during a build cannot come between what is       *)
(* hashed and what is compiled without being noticed, however many other   *)
(* builds, edits and failures there were. Of a build whose copy or wheel   *)
(* was forged in the sandbox it says nothing.                              *)
THEOREM LoneEditsAreCaught == Spec => []LoneEditIsCaught
<1>1. Inductive => LoneEditIsCaught
  BY DEF Inductive, Chains
<1>2. QED BY <1>1, InductiveHolds, PTL
=============================================================================
