------------------------------ MODULE BaseImage ------------------------------
(***************************************************************************)
(* The cloud image that every VM's disk is an overlay of, in agentlab/vm.py*)
(* - prepare_base, which downloads, verifies and places it; the storage's  *)
(* owner, init_storage; what image_register and deploy make of it.  Two    *)
(* installations may be pointed at one storage directory; each has a       *)
(* vm-global lock of its own.                                              *)
(*                                                                         *)
(* The publisher may replace the image at any time.  A process may die at  *)
(* any step; the host may lose power, and with it what was not yet on disk.*)
(***************************************************************************)
EXTENDS Naturals

CONSTANTS Labs,       \* installations
          Releases,   \* what the publisher may offer, by digest
          None,       \* no release, no installation
          MaxCallers, \* bound on an installation's processes
          MaxFaults   \* bound on failures, deaths, losses of power and new releases

Procs == Labs \X (1..MaxCallers)

ASSUME BaseAssumption ==
  None \notin Releases \cup Labs \cup Procs /\ MaxCallers \in Nat \ {0} /\ MaxFaults \in Nat

VARIABLES current,    \* the release that is offered now
          owner,      \* .lab-owner.json
          base,       \* base-*.qcow2, by digest: absent, whole or broken
          manifest,   \* the release in base.json
          disk,       \* what a loss of power would leave of base and manifest
          images,     \* registered images: the installation, and the release it is bound to
          holder,     \* each installation's vm-global: its process, or None
          at,         \* each process: where it is, its release, the image it was given
          registrar,  \* each installation's image_register: where it is
          faults, lost   \* faults so far; power was lost

storage == <<owner, base, manifest, disk>>
vars == <<current, storage, images, holder, at, registrar, faults, lost>>

Lab(p) == p[1]
Labels == {"idle", "own", "claim", "check", "sums", "image", "place", "manifest", "overlay"}
Idle == [pc |-> "idle", job |-> "prepare", has |-> None, got |-> None]

(* The variables hold what the program can put in them; the lock of an     *)
(* installation has a process that is at work, and every such process it.  *)
TypeOK ==
  /\ current \in Releases /\ owner \in Labs \cup {None} /\ manifest \in Releases \cup {None}
  /\ base \in [Releases -> {"absent", "whole", "broken"}]
  /\ disk \in [bases : SUBSET Releases, manifest : Releases \cup {None}]
  /\ images \subseteq Labs \X Releases
  /\ holder \in [Labs -> Procs \cup {None}]
  /\ at \in [Procs -> [pc : Labels, job : {"prepare", "deploy"},
                       has : Releases \cup {None}, got : Releases \cup {None}]]
  /\ \A p \in Procs : at[p].pc # "idle" <=> holder[Lab(p)] = p
  /\ registrar \in [Labs -> {"idle", "claim", "bind"}]
  /\ faults \in 0..MaxFaults /\ lost \in BOOLEAN

Init ==
  /\ current \in Releases /\ owner = None /\ base = [r \in Releases |-> "absent"] /\ manifest = None
  /\ disk = [bases |-> {}, manifest |-> None]
  /\ images = {} /\ holder = [l \in Labs |-> None]
  /\ at = [p \in Procs |-> Idle] /\ registrar = [l \in Labs |-> "idle"] /\ faults = 0 /\ lost = FALSE

-----------------------------------------------------------------------------
Fault == faults < MaxFaults /\ faults' = faults + 1
Doing(p, label) == at[p].pc = label /\ UNCHANGED <<current, registrar, lost>>
Goto(p, label) == at' = [at EXCEPT ![p].pc = label] /\ UNCHANGED holder
Leave(p) == at' = [at EXCEPT ![p] = Idle] /\ holder' = [holder EXCEPT ![Lab(p)] = None]
Read == UNCHANGED <<storage, images>>

Publish ==
  /\ Fault /\ current' \in Releases \ {current}
  /\ UNCHANGED <<storage, images, holder, at, registrar, lost>>

Sync ==
  /\ disk' = [bases |-> {r \in Releases : base[r] # "absent"}, manifest |-> manifest]
  /\ disk' # disk
  /\ UNCHANGED <<current, owner, base, manifest, images, holder, at, registrar, faults,
                 lost>>

(* prepare_base, or a deployment of an image that is registered.           *)
Enter(p, job, has) ==
  /\ Doing(p, "idle") /\ holder[Lab(p)] = None /\ holder' = [holder EXCEPT ![Lab(p)] = p]
  /\ at' = [at EXCEPT ![p] = [Idle EXCEPT !.pc = "own", !.job = job, !.has = has]]
  /\ Read /\ UNCHANGED faults

Prepare(p) == Enter(p, "prepare", None)
Deploy(p) == \E r \in Releases : <<Lab(p), r>> \in images /\ Enter(p, "deploy", r)

(* init_storage: another's storage is refused, no one's is taken.          *)
Own(p) ==
  /\ Doing(p, "own") /\ Read /\ UNCHANGED faults
  /\ CASE owner = None   -> Goto(p, "claim")
       [] owner = Lab(p) -> Goto(p, "check")
       [] OTHER          -> Leave(p)

Claim(p) ==
  /\ Doing(p, "claim") /\ owner' = Lab(p) /\ Goto(p, "check")
  /\ UNCHANGED <<base, manifest, disk, images, faults>>

(* A base that is recorded is verified again, never downloaded again; a    *)
(* deployment verifies the one its image is bound to.  Mutants: it relies  *)
(* on the record; a base that is there is taken for one that is recorded.  *)
CheckRecorded(p) ==
  /\ Doing(p, "check") /\ Read /\ UNCHANGED faults
  /\ CASE at[p].job = "deploy" /\ manifest = at[p].has -> Goto(p, "overlay")
       [] at[p].job = "prepare" /\ manifest = None     -> Goto(p, "sums")
       [] OTHER                                        -> Leave(p)

CheckPlaced(p) ==
  /\ Doing(p, "check") /\ Read /\ UNCHANGED faults
  /\ CASE at[p].job = "deploy" /\ base[at[p].has] = "whole" -> Goto(p, "overlay")
       [] at[p].job = "prepare" /\ \A r \in Releases : base[r] = "absent" -> Goto(p, "sums")
       [] OTHER                                             -> Leave(p)

Check(p) ==
  /\ Doing(p, "check") /\ Read /\ UNCHANGED faults
  /\ CASE at[p].job = "deploy" /\ base[at[p].has] = "whole" -> Goto(p, "overlay")
       [] at[p].job = "prepare" /\ manifest = None          -> Goto(p, "sums")
       [] OTHER                                             -> Leave(p)

(* The signed list of digests, and then the image, which may be another    *)
(* release's by then.                                                      *)
Sums(p) ==
  /\ Doing(p, "sums") /\ Read /\ UNCHANGED <<holder, faults>>
  /\ at' = [at EXCEPT ![p].pc = "image", ![p].has = current]

(* Mutant: the image is not held against the list.                         *)
ImageUnverified(p) ==
  /\ Doing(p, "image") /\ Read /\ UNCHANGED <<holder, faults>>
  /\ at' = [at EXCEPT ![p].got = current, ![p].pc = "place"]

Image(p) ==
  /\ Doing(p, "image") /\ Read /\ UNCHANGED faults
  /\ \/ current = at[p].has /\ at' = [at EXCEPT ![p].got = current, ![p].pc = "place"] /\ UNCHANGED holder
     \/ current # at[p].has /\ Leave(p)

Place(p) ==
  /\ Doing(p, "place") /\ Goto(p, "manifest")
  /\ base' = [base EXCEPT ![at[p].has] = IF at[p].got = at[p].has THEN "whole" ELSE "broken"]
  /\ disk' = [disk EXCEPT !.bases = @ \ {at[p].has}]
  /\ UNCHANGED <<owner, manifest, images, faults>>

Record(p) ==
  /\ Doing(p, "manifest") /\ Leave(p) /\ manifest' = at[p].has
  /\ UNCHANGED <<owner, base, disk, images, faults>>

(* deploy makes the disk, an overlay of the base it verified.              *)
Overlay(p) ==
  /\ Doing(p, "overlay") /\ Leave(p) /\ Read /\ UNCHANGED faults

(* image_register, without vm-global: init_storage, which may find the     *)
(* storage no one's and take it later, and the reading of base.json, which *)
(* is replaced whole.  It verifies no base.                                *)
Registrar(l, from, to) ==
  /\ registrar[l] = from /\ registrar' = [registrar EXCEPT ![l] = to]
  /\ UNCHANGED <<current, base, manifest, disk, holder, at, lost>>

RegisterOwn(l) ==
  /\ owner \in {None, l} /\ Registrar(l, "idle", IF owner = None THEN "claim" ELSE "bind")
  /\ UNCHANGED <<owner, images, faults>>

RegisterClaim(l) ==
  /\ Registrar(l, "claim", "bind") /\ owner' = l /\ UNCHANGED <<images, faults>>

Register(l) ==
  /\ Registrar(l, "bind", "idle")
  /\ images' = images \cup {<<l, r>> : r \in {manifest} \ {None}}
  /\ UNCHANGED <<owner, faults>>

RegisterFails(l) ==
  /\ \E label \in {"claim", "bind"} : Registrar(l, label, "idle")
  /\ Fault /\ UNCHANGED <<owner, images>>

(* Any step may fail, or the process die: either way the lock is free, and *)
(* what was placed stays.  A staging folder that a death leaves has a name *)
(* of its own.  Mutant: the lock outlives its holder, as a file would.     *)
DieHolding(p) ==
  /\ at[p].pc # "idle" /\ Fault /\ at' = [at EXCEPT ![p] = Idle] /\ Read
  /\ UNCHANGED <<current, holder, registrar, lost>>

Die(p) == at[p].pc # "idle" /\ Fault /\ Leave(p) /\ Read /\ UNCHANGED <<current, registrar, lost>>

(* A base that was not on disk may be gone, or be there without its data.  *)
(* (The owner's record, written long before, is taken to be on disk.)      *)
PowerLoss ==
  /\ Fault /\ lost' = TRUE
  /\ holder' = [l \in Labs |-> None] /\ at' = [p \in Procs |-> Idle]
  /\ registrar' = [l \in Labs |-> "idle"]
  /\ manifest' \in {manifest, disk.manifest}
  /\ base' \in {b \in [Releases -> {"absent", "whole", "broken"}] :
                  \A r \in Releases : r \in disk.bases \/ base[r] = "absent" => b[r] = base[r]}
  /\ disk' = [bases |-> {r \in Releases : base'[r] # "absent"}, manifest |-> manifest']
  /\ UNCHANGED <<current, owner, images>>

Step(p) == \/ Own(p) \/ Claim(p) \/ Check(p) \/ Sums(p) \/ Image(p) \/ Place(p) \/ Record(p)
           \/ Overlay(p)

Next == \/ \E p \in Procs : Prepare(p) \/ Deploy(p) \/ Step(p) \/ Die(p)
        \/ \E l \in Labs : RegisterOwn(l) \/ RegisterClaim(l) \/ Register(l) \/ RegisterFails(l)
        \/ Publish \/ Sync \/ PowerLoss

(* A call runs to its end; preparing is tried again until it succeeds.     *)
Spec == Init /\ [][Next]_vars /\ \A p \in Procs : WF_vars(Step(p)) /\ SF_vars(Prepare(p))

-----------------------------------------------------------------------------
(* As long as power is not lost, the manifest and every registered image   *)
(* name a base that is there and is the publisher's: whoever died, whatever*)
(* the publisher offered meanwhile, and even if two installations took the *)
(* storage at once.                                                        *)
BoundBaseIsWhole ==
  lost \/ \A r \in {i[2] : i \in images} \cup ({manifest} \ {None}) : base[r] = "whole"

(* No disk is made on a base that is not the publisher's, even where a     *)
(* loss of power has left a manifest that names a damaged one, and whatever*)
(* others did since the base was verified.                                 *)
OverlaidBaseIsWhole == [][\A p \in Procs : Overlay(p) => base[at[p].has] = "whole"]_vars

(* The manifest names a base that is not there or not whole: prepare_base  *)
(* refuses it for good (vm.py:76-79).  BoundBaseIsWhole says that only a   *)
(* loss of power can leave it so.                                          *)
Damaged == manifest # None /\ base[manifest] # "whole"

(* Whatever failed or died on the way, whichever installation took the     *)
(* storage, and also after a loss of power unless it left that: calling    *)
(* prepare again in the end gives a base, which it will not refuse.        *)
PreparationRecovers == []~Damaged => <>[](manifest # None /\ base[manifest] = "whole")
=============================================================================
