--------------------------- MODULE BaseImageProofs ---------------------------
(***************************************************************************)
(* Theorems about BaseImage, for any installations, releases and processes *)
(* and any number of failures, deaths and losses of power.                 *)
(***************************************************************************)
EXTENDS BaseImage, TLAPS

Process == [pc : Labels, job : {"prepare", "deploy"},
            has : Releases \cup {None}, got : Releases \cup {None}]
USE DEF Process

-----------------------------------------------------------------------------
(* What a process relies on at each label: the release it downloads is the *)
(* one whose digest it read; what it is about to record is in place and    *)
(* whole; a disk is made for a deployment only, of a base just verified;   *)
(* and a deployment's image is registered.                                 *)
ProcessOK(p) ==
  /\ at[p].pc \in {"image", "place", "manifest", "overlay"} => at[p].has \in Releases
  /\ at[p].pc \in {"place", "manifest"} => at[p].got = at[p].has
  /\ at[p].pc \in {"manifest", "overlay"} => base[at[p].has] = "whole"
  /\ at[p].pc \in {"sums", "image", "place", "manifest"} => at[p].job = "prepare"
  /\ at[p].pc = "overlay" => at[p].job = "deploy"
  /\ at[p].pc # "idle" /\ at[p].job = "deploy" =>
       at[p].has \in Releases /\ <<Lab(p), at[p].has>> \in images

(* BoundBaseIsWhole, without the set of all bound releases.                *)
BoundOK ==
  lost \/ /\ \A i \in images : base[i[2]] = "whole"
          /\ manifest # None => base[manifest] = "whole"

Inductive == TypeOK /\ (\A p \in Procs : ProcessOK(p)) /\ BoundOK

LEMMA BoundForm == TypeOK => (BoundOK <=> BoundBaseIsWhole)
BY DEF TypeOK, BoundOK, BoundBaseIsWhole

LEMMA LabType == \A p \in Procs : Lab(p) \in Labs
BY DEF Procs, Lab

LEMMA InductiveInit == Init => Inductive
<1> SUFFICES ASSUME Init PROVE Inductive
  OBVIOUS
<1> USE LabType, BaseAssumption DEF Init
<1>1. Idle \in Process /\ Idle.pc = "idle"
  BY DEF Idle, Labels
<1>2. \A p \in Procs : at[p].pc # "idle" <=> holder[Lab(p)] = p
  BY <1>1
<1>3. TypeOK
  <2>1. disk \in [bases : SUBSET Releases, manifest : Releases \cup {None}]
    OBVIOUS
  <2>2. images \subseteq Labs \X Releases
    OBVIOUS
  <2>3. faults \in 0..MaxFaults /\ registrar \in [Labs -> {"idle", "claim", "bind"}]
    OBVIOUS
  <2>4. QED BY <1>1, <1>2, <2>1, <2>2, <2>3 DEF TypeOK
<1>4. \A p \in Procs : ProcessOK(p)
  BY <1>1 DEF ProcessOK
<1>5. QED BY <1>3, <1>4 DEF Inductive, BoundOK

-----------------------------------------------------------------------------
(* A process that leaves gives up the lock; whoever else holds one is at   *)
(* work as before.                                                         *)
LEMMA LeaveTypes ==
  ASSUME TypeOK, NEW p \in Procs, at[p].pc # "idle", Leave(p)
  PROVE  /\ holder' \in [Labs -> Procs \cup {None}]
         /\ at' \in [Procs -> Process]
         /\ \A q \in Procs : at'[q].pc # "idle" <=> holder'[Lab(q)] = q
         /\ at'[p].pc = "idle" /\ \A q \in Procs \ {p} : at'[q] = at[q]
<1> USE BaseAssumption, LabType DEF TypeOK, Leave
<1>1. Idle \in Process /\ Idle.pc = "idle"
  BY DEF Idle, Labels
<1>2. holder[Lab(p)] = p
  OBVIOUS
<1>3. ASSUME NEW q \in Procs PROVE at'[q].pc # "idle" <=> holder'[Lab(q)] = q
  <2>1. CASE q = p
    BY <1>1, <2>1
  <2>2. CASE q # p /\ Lab(q) = Lab(p)
    BY <1>2, <2>2
  <2>3. CASE q # p /\ Lab(q) # Lab(p)
    BY <2>3
  <2>4. QED BY <2>1, <2>2, <2>3
<1>4. QED BY <1>1, <1>3

(* A step of one process, at its label, which changes neither what others  *)
(* rely on nor the lock.                                                   *)
LEMMA GotoTypes ==
  ASSUME TypeOK, NEW p \in Procs, at[p].pc # "idle", NEW label \in Labels \ {"idle"},
         Goto(p, label)
  PROVE  /\ holder' \in [Labs -> Procs \cup {None}]
         /\ at' \in [Procs -> Process]
         /\ \A q \in Procs : at'[q].pc # "idle" <=> holder'[Lab(q)] = q
         /\ at'[p] = [at[p] EXCEPT !.pc = label] /\ \A q \in Procs \ {p} : at'[q] = at[q]
BY DEF TypeOK, Goto

(* As long as no power is lost, a base that is whole stays whole and an    *)
(* image stays registered, so the other processes' facts keep.             *)
LEMMA OthersKeep ==
  ASSUME TypeOK, NEW q \in Procs, ProcessOK(q), at'[q] = at[q],
         \A r \in Releases : base[r] = "whole" => base'[r] = "whole", images \subseteq images'
  PROVE  ProcessOK(q)'
BY DEF ProcessOK, TypeOK

(* An action of process p that leaves or goes on, as far as the invariant  *)
(* can tell: what it must show of its own and of the storage.              *)
StorageTypes ==
  /\ current \in Releases /\ owner \in Labs \cup {None} /\ manifest \in Releases \cup {None}
  /\ base \in [Releases -> {"absent", "whole", "broken"}]
  /\ disk \in [bases : SUBSET Releases, manifest : Releases \cup {None}]
  /\ images \subseteq Labs \X Releases
  /\ registrar \in [Labs -> {"idle", "claim", "bind"}]
  /\ faults \in 0..MaxFaults /\ lost \in BOOLEAN

LEMMA LeaveStep ==
  ASSUME Inductive, NEW p \in Procs, at[p].pc # "idle", Leave(p), StorageTypes', BoundOK',
         \A r \in Releases : base[r] = "whole" => base'[r] = "whole", images \subseteq images'
  PROVE  Inductive'
<1> USE DEF Inductive
<1>1. TypeOK'
  BY LeaveTypes DEF TypeOK, StorageTypes
<1>2. ASSUME NEW q \in Procs PROVE ProcessOK(q)'
  <2>1. CASE q = p
    BY LeaveTypes, <2>1 DEF ProcessOK
  <2>2. CASE q # p
    BY LeaveTypes, OthersKeep, <2>2
  <2>3. QED BY <2>1, <2>2
<1>3. QED BY <1>1, <1>2

LEMMA GotoStep ==
  ASSUME Inductive, NEW p \in Procs, at[p].pc # "idle", NEW label \in Labels \ {"idle"},
         Goto(p, label), ProcessOK(p)', StorageTypes', BoundOK',
         \A r \in Releases : base[r] = "whole" => base'[r] = "whole", images \subseteq images'
  PROVE  Inductive'
<1> USE DEF Inductive
<1>1. TypeOK'
  BY GotoTypes DEF TypeOK, StorageTypes
<1>2. ASSUME NEW q \in Procs PROVE ProcessOK(q)'
  <2>1. CASE q = p
    BY <2>1
  <2>2. CASE q # p
    <3>1. at'[q] = at[q]
      BY <2>2 DEF TypeOK, Goto
    <3>2. QED BY <3>1, OthersKeep
  <2>3. QED BY <2>1, <2>2
<1>3. QED BY <1>1, <1>2

(* What an action that only reads leaves as it was.                        *)
LEMMA ReadKeeps ==
  ASSUME Inductive, Read, UNCHANGED <<current, registrar, lost>>, faults' \in 0..MaxFaults
  PROVE  /\ StorageTypes' /\ BoundOK' /\ images' = images /\ base' = base
BY DEF Inductive, TypeOK, StorageTypes, BoundOK, Read, storage

-----------------------------------------------------------------------------
LEMMA EnterStep ==
  ASSUME Inductive, NEW p \in Procs, Prepare(p) \/ Deploy(p)
  PROVE  Inductive'
<1> USE BaseAssumption, LabType DEF Inductive
<1>1. PICK job \in {"prepare", "deploy"}, has \in Releases \cup {None} :
         /\ Enter(p, job, has)
         /\ job = "deploy" => has \in Releases /\ <<Lab(p), has>> \in images
  BY DEF Prepare, Deploy
<1> DEFINE Entered == [Idle EXCEPT !.pc = "own", !.job = job, !.has = has]
<1>2. /\ at' = [at EXCEPT ![p] = Entered] /\ holder' = [holder EXCEPT ![Lab(p)] = p]
      /\ at[p].pc = "idle" /\ holder[Lab(p)] = None
  BY <1>1 DEF Enter, Doing
<1>3. /\ Entered \in Process
      /\ Entered.pc = "own" /\ Entered.job = job /\ Entered.has = has
  BY DEF Idle, Labels
<1> HIDE DEF Entered
<1>4. StorageTypes' /\ BoundOK' /\ images' = images /\ base' = base
  BY <1>1, ReadKeeps DEF Enter, Doing, TypeOK
<1>5. TypeOK'
  <2>1. at' \in [Procs -> Process]
    BY <1>2, <1>3 DEF TypeOK
  <2>2. holder' \in [Labs -> Procs \cup {None}]
    BY <1>2 DEF TypeOK
  <2>3. ASSUME NEW q \in Procs PROVE at'[q].pc # "idle" <=> holder'[Lab(q)] = q
    <3>1. CASE q = p
      BY <1>2, <1>3, <3>1 DEF TypeOK
    <3>2. CASE q # p /\ Lab(q) = Lab(p)
      BY <1>2, <3>2 DEF TypeOK
    <3>3. CASE q # p /\ Lab(q) # Lab(p)
      BY <1>2, <3>3 DEF TypeOK
    <3>4. QED BY <3>1, <3>2, <3>3
  <2>4. QED BY <1>4, <2>1, <2>2, <2>3 DEF TypeOK, StorageTypes
<1>6. ASSUME NEW q \in Procs PROVE ProcessOK(q)'
  <2>1. CASE q = p
    BY <1>1, <1>2, <1>3, <1>4, <2>1 DEF ProcessOK, TypeOK
  <2>2. CASE q # p
    BY <1>2, <1>4, <2>2, OthersKeep DEF TypeOK
  <2>3. QED BY <2>1, <2>2
<1>7. QED BY <1>4, <1>5, <1>6

LEMMA OwnStep ==
  ASSUME Inductive, NEW p \in Procs, Own(p) \/ Claim(p) \/ Check(p)
  PROVE  Inductive'
<1> USE BaseAssumption, LabType
<1>1. at[p].pc \in {"own", "claim", "check"} /\ at[p].pc # "idle" /\ ProcessOK(p)
  BY DEF Own, Claim, Check, Doing, Inductive
<1>2. CASE Own(p) \/ Check(p)
  <2>1. StorageTypes' /\ BoundOK' /\ images' = images /\ base' = base
    BY <1>2, ReadKeeps DEF Own, Check, Doing, Inductive, TypeOK
  <2>2. CASE Leave(p)
    BY <1>1, <2>1, <2>2, LeaveStep
  <2>3. ASSUME NEW label \in {"claim", "check", "overlay", "sums"}, Goto(p, label),
               label = "overlay" => at[p].job = "deploy" /\ base[at[p].has] = "whole",
               label = "sums" => at[p].job = "prepare"
        PROVE  Inductive'
    <3>1. at'[p] = [at[p] EXCEPT !.pc = label]
      BY <1>1, <2>3, GotoTypes DEF Inductive, Labels
    <3>2. ProcessOK(p)'
      BY <1>1, <2>1, <2>3, <3>1 DEF ProcessOK, Inductive, TypeOK
    <3>3. QED BY <1>1, <2>1, <2>3, <3>2, GotoStep DEF Labels
  <2>4. QED BY <1>2, <2>2, <2>3 DEF Own, Check
<1>3. CASE Claim(p)
  <2>1. StorageTypes' /\ BoundOK' /\ images' = images /\ base' = base /\ Goto(p, "check")
    BY <1>3 DEF Claim, Doing, Inductive, TypeOK, StorageTypes, BoundOK
  <2>2. at'[p] = [at[p] EXCEPT !.pc = "check"]
    BY <1>1, <2>1, GotoTypes DEF Inductive, Labels
  <2>3. ProcessOK(p)'
    BY <1>1, <2>1, <2>2 DEF ProcessOK, Inductive, TypeOK
  <2>4. QED BY <1>1, <2>1, <2>3, GotoStep DEF Labels
<1>4. QED BY <1>2, <1>3

LEMMA DownloadStep ==
  ASSUME Inductive, NEW p \in Procs, Sums(p) \/ Image(p)
  PROVE  Inductive'
<1> USE BaseAssumption, LabType
<1>1. /\ at[p].pc \in {"sums", "image"} /\ at[p].pc # "idle" /\ ProcessOK(p)
      /\ StorageTypes' /\ BoundOK' /\ images' = images /\ base' = base
  BY ReadKeeps DEF Sums, Image, Doing, Inductive, TypeOK
<1>2. CASE Leave(p)
  BY <1>1, <1>2, LeaveStep
<1>3. ASSUME NEW next \in [pc : {"image", "place"}, job : {"prepare", "deploy"},
                           has : Releases, got : Releases \cup {None}],
             next.pc = "place" => next.got = next.has, next.job = at[p].job,
             at' = [at EXCEPT ![p] = next], UNCHANGED holder
      PROVE  Inductive'
  <2>1. /\ at' \in [Procs -> Process]
        /\ at'[p] = next /\ \A q \in Procs \ {p} : at'[q] = at[q]
    BY <1>3 DEF Inductive, TypeOK, Labels
  <2>2. \A q \in Procs : at'[q].pc # "idle" <=> holder'[Lab(q)] = q
    BY <1>1, <1>3, <2>1 DEF Inductive, TypeOK
  <2>3. TypeOK'
    BY <1>1, <1>3, <2>1, <2>2 DEF Inductive, TypeOK, StorageTypes
  <2>4. ASSUME NEW q \in Procs PROVE ProcessOK(q)'
    <3>1. CASE q = p
      BY <1>1, <1>3, <2>1, <3>1 DEF ProcessOK
    <3>2. CASE q # p
      BY <1>1, <2>1, <3>2, OthersKeep DEF Inductive
    <3>3. QED BY <3>1, <3>2
  <2>5. QED BY <1>1, <2>3, <2>4 DEF Inductive
<1>4. CASE Sums(p)
  <2> DEFINE next == [at[p] EXCEPT !.pc = "image", !.has = current]
  <2>1. at' = [at EXCEPT ![p] = next] /\ UNCHANGED holder
    BY <1>4 DEF Sums, Inductive, TypeOK
  <2>2. /\ next \in [pc : {"image", "place"}, job : {"prepare", "deploy"},
                     has : Releases, got : Releases \cup {None}]
        /\ next.pc = "image" /\ next.job = at[p].job
    <3>1. at[p] \in Process
          /\ current \in Releases
      BY DEF Inductive, TypeOK
    <3>2. QED BY <3>1
  <2> HIDE DEF next
  <2>3. QED BY <1>3, <2>1, <2>2
<1>5. CASE Image(p) /\ ~Leave(p)
  <2> DEFINE next == [at[p] EXCEPT !.got = current, !.pc = "place"]
  <2>1. at' = [at EXCEPT ![p] = next] /\ UNCHANGED holder /\ current = at[p].has
    BY <1>5 DEF Image, Inductive, TypeOK
  <2>2. /\ next \in [pc : {"image", "place"}, job : {"prepare", "deploy"},
                     has : Releases, got : Releases \cup {None}]
        /\ next.got = next.has /\ next.job = at[p].job
    <3>1. at[p] \in Process
          /\ current \in Releases /\ current = at[p].has
      BY <2>1 DEF Inductive, TypeOK
    <3>2. QED BY <3>1
  <2> HIDE DEF next
  <2>3. QED BY <1>3, <2>1, <2>2
<1>6. QED BY <1>2, <1>4, <1>5

LEMMA PlaceStep ==
  ASSUME Inductive, NEW p \in Procs, Place(p)
  PROVE  Inductive'
<1> USE BaseAssumption, LabType
<1>1. /\ at[p].pc = "place" /\ at[p].has \in Releases /\ at[p].got = at[p].has
      /\ at[p].job = "prepare" /\ Goto(p, "manifest")
  BY DEF Place, Doing, Inductive, ProcessOK
<1>2. /\ base' = [base EXCEPT ![at[p].has] = "whole"]
      /\ disk' = [disk EXCEPT !.bases = disk.bases \ {at[p].has}]
      /\ UNCHANGED <<current, registrar, lost, owner, manifest, images, faults>>
  BY <1>1 DEF Place, Doing
<1>3. /\ base' \in [Releases -> {"absent", "whole", "broken"}] /\ base'[at[p].has] = "whole"
      /\ \A r \in Releases : base[r] = "whole" => base'[r] = "whole"
  BY <1>1, <1>2 DEF Inductive, TypeOK
<1>4. StorageTypes'
  BY <1>2, <1>3 DEF StorageTypes, Inductive, TypeOK
<1>5. BoundOK'
  <2>1. CASE lost
    BY <1>2, <2>1 DEF BoundOK
  <2>2. CASE ~lost
    BY <1>2, <1>3, <2>2 DEF BoundOK, Inductive, TypeOK
  <2>3. QED BY <2>1, <2>2
<1>6. at'[p] = [at[p] EXCEPT !.pc = "manifest"]
  BY <1>1, GotoTypes DEF Inductive, Labels
<1>7. ProcessOK(p)'
  BY <1>1, <1>3, <1>6 DEF ProcessOK, Inductive, TypeOK
<1>8. QED BY <1>1, <1>2, <1>3, <1>4, <1>5, <1>7, GotoStep DEF Labels

LEMMA RecordStep ==
  ASSUME Inductive, NEW p \in Procs, Record(p)
  PROVE  Inductive'
<1>1. /\ at[p].pc = "manifest" /\ at[p].has \in Releases /\ base[at[p].has] = "whole"
      /\ Leave(p) /\ manifest' = at[p].has
      /\ UNCHANGED <<current, registrar, lost, owner, base, disk, images, faults>>
  BY DEF Record, Doing, Inductive, ProcessOK
<1>2. StorageTypes' /\ BoundOK'
  BY <1>1 DEF StorageTypes, BoundOK, Inductive, TypeOK
<1>3. QED BY <1>1, <1>2, LeaveStep

LEMMA OverlayStep ==
  ASSUME Inductive, NEW p \in Procs, Overlay(p)
  PROVE  Inductive' /\ base[at[p].has] = "whole"
<1>1. /\ at[p].pc = "overlay" /\ at[p].has \in Releases /\ base[at[p].has] = "whole"
      /\ <<Lab(p), at[p].has>> \in images
      /\ Leave(p) /\ UNCHANGED <<current, registrar, lost, storage, images, faults>>
  BY DEF Overlay, Read, Doing, Inductive, ProcessOK
<1>2. StorageTypes' /\ BoundOK'
  BY <1>1 DEF StorageTypes, BoundOK, Inductive, TypeOK, storage
<1>3. QED BY <1>1, <1>2, LeaveStep DEF storage

LEMMA DieStep ==
  ASSUME Inductive, NEW p \in Procs, Die(p)
  PROVE  Inductive'
<1>1. /\ at[p].pc # "idle" /\ Leave(p) /\ Read /\ UNCHANGED <<current, registrar, lost>>
      /\ faults' \in 0..MaxFaults
  BY BaseAssumption DEF Die, Fault, Inductive, TypeOK
<1>2. QED BY <1>1, ReadKeeps, LeaveStep

(* The steps of no process: a registration, a release, writing back.       *)
Registers(l) == RegisterOwn(l) \/ RegisterClaim(l) \/ Register(l) \/ RegisterFails(l)

LEMMA RegistrarTypes ==
  ASSUME Inductive, NEW l \in Labs, Registers(l)
  PROVE  /\ UNCHANGED <<current, base, manifest, disk, holder, at, lost>>
         /\ registrar' \in [Labs -> {"idle", "claim", "bind"}]
         /\ owner' \in {owner, l} /\ faults' \in 0..MaxFaults
         /\ images' = images \/ (manifest # None /\ images' = images \cup {<<l, manifest>>})
<1>1. PICK from \in {"idle", "claim", "bind"}, to \in {"idle", "claim", "bind"} :
        Registrar(l, from, to)
  BY DEF Registers, RegisterOwn, RegisterClaim, Register, RegisterFails
<1>2. registrar' \in [Labs -> {"idle", "claim", "bind"}]
  BY <1>1 DEF Registrar, Inductive, TypeOK
<1>3. owner' \in {owner, l} /\ faults' \in 0..MaxFaults
  BY BaseAssumption
     DEF Registers, RegisterOwn, RegisterClaim, Register, RegisterFails, Fault, Inductive, TypeOK
<1>4. images' = images \/ images' = images \cup {<<l, r>> : r \in {manifest} \ {None}}
  BY DEF Registers, RegisterOwn, RegisterClaim, Register, RegisterFails
<1>5. QED BY <1>1, <1>2, <1>3, <1>4 DEF Registrar

LEMMA OtherStep ==
  ASSUME Inductive, (\E l \in Labs : Registers(l)) \/ Publish \/ Sync
  PROVE  Inductive'
<1> USE BaseAssumption
<1>1. UNCHANGED <<holder, at, base, lost, manifest>> /\ images \subseteq images'
  BY RegistrarTypes DEF Publish, Sync, storage
<1>2. StorageTypes' /\ BoundOK'
  <2>1. ASSUME NEW l \in Labs, Registers(l) PROVE StorageTypes' /\ BoundOK'
    BY <2>1, RegistrarTypes DEF StorageTypes, BoundOK, Inductive, TypeOK
  <2>2. CASE Publish
    BY <2>2 DEF Publish, Fault, StorageTypes, BoundOK, Inductive, TypeOK, storage
  <2>3. CASE Sync
    BY <2>3 DEF Sync, StorageTypes, BoundOK, Inductive, TypeOK
  <2>4. QED BY <2>1, <2>2, <2>3
<1>3. TypeOK'
  BY <1>1, <1>2 DEF Inductive, TypeOK, StorageTypes
<1>4. \A q \in Procs : ProcessOK(q)'
  BY <1>1, OthersKeep DEF Inductive
<1>5. QED BY <1>2, <1>3, <1>4 DEF Inductive

(* A loss of power ends every process, so none relies on anything.         *)
LEMMA PowerLossStep ==
  ASSUME Inductive, PowerLoss
  PROVE  Inductive'
<1> USE BaseAssumption, LabType DEF PowerLoss
<1>1. Idle \in Process /\ Idle.pc = "idle"
  BY DEF Idle, Labels
<1>2. StorageTypes'
  BY DEF StorageTypes, Fault, Inductive, TypeOK
<1>3. \A q \in Procs : at'[q].pc # "idle" <=> holder'[Lab(q)] = q
  BY <1>1
<1>4. TypeOK'
  BY <1>1, <1>2, <1>3 DEF TypeOK, StorageTypes
<1>5. \A q \in Procs : ProcessOK(q)'
  BY <1>1 DEF ProcessOK
<1>6. QED BY <1>4, <1>5 DEF Inductive, BoundOK

LEMMA InductiveStep == Inductive /\ [Next]_vars => Inductive'
<1> SUFFICES ASSUME Inductive, [Next]_vars PROVE Inductive'
  OBVIOUS
<1>1. CASE UNCHANGED vars
  BY <1>1 DEF vars, storage, Inductive, TypeOK, ProcessOK, BoundOK
<1>2. ASSUME NEW p \in Procs, Prepare(p) \/ Deploy(p) \/ Step(p) \/ Die(p)
      PROVE  Inductive'
  BY <1>2, EnterStep, OwnStep, DownloadStep, PlaceStep, RecordStep, OverlayStep, DieStep
     DEF Step
<1>3. CASE (\E l \in Labs : Registers(l)) \/ Publish \/ Sync
  BY <1>3, OtherStep
<1>4. CASE PowerLoss
  BY <1>4, PowerLossStep
<1>5. QED BY <1>1, <1>2, <1>3, <1>4 DEF Next, Registers

-----------------------------------------------------------------------------
(* Types: and with them, that each installation's lock is held by the one  *)
(* process of it that is at work, whoever died.                            *)
THEOREM BaseTypesHold == Spec => []TypeOK
<1>1. Init => Inductive
  BY InductiveInit
<1>2. Inductive /\ [Next]_vars => Inductive'
  BY InductiveStep
<1>3. Inductive => TypeOK
  BY DEF Inductive
<1>4. QED BY <1>1, <1>2, <1>3, PTL DEF Spec

(* As long as power is not lost, what the manifest and the images name is  *)
(* a base that is there and is the publisher's (prepare_base verifies      *)
(* before it places, and places before it records).                        *)
THEOREM BoundBasesStayWhole == Spec => []BoundBaseIsWhole
<1>1. Init => Inductive
  BY InductiveInit
<1>2. Inductive /\ [Next]_vars => Inductive'
  BY InductiveStep
<1>3. Inductive => BoundBaseIsWhole
  BY BoundForm DEF Inductive
<1>4. QED BY <1>1, <1>2, <1>3, PTL DEF Spec

(* No disk is ever made on a base that is not the publisher's, even after  *)
(* a loss of power: deploy verifies the base of its image, and until it    *)
(* made the disk no other process damages a base.                          *)
THEOREM DisksAreOverWholeBases == Spec => OverlaidBaseIsWhole
<1> DEFINE Good == \A p \in Procs : Overlay(p) => base[at[p].has] = "whole"
<1>1. Init => Inductive
  BY InductiveInit
<1>2. Inductive /\ [Next]_vars => Inductive'
  BY InductiveStep
<1>3. Inductive /\ [Next]_vars => [Good]_vars
  BY OverlayStep
<1>4. QED BY <1>1, <1>2, <1>3, PTL DEF Spec, OverlaidBaseIsWhole
=============================================================================
