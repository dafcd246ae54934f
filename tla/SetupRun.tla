------------------------------ MODULE SetupRun ------------------------------
(***************************************************************************)
(* Host setup: scripts/bootstrap-ubuntu.sh under the logging and the lock  *)
(* of scripts/setup-common.sh.  Setups are started again and again, also at*)
(* the same time.  Any command of one may fail, and bash then ends it      *)
(* through its EXIT trap; a setup that is killed runs no trap, and the     *)
(* command it was waiting for keeps the lock and goes on.                  *)
(*                                                                         *)
(* What setup installs is a sequence of targets, each made in two steps:   *)
(* a file is truncated and then written with its marker; a directory is    *)
(* made and then marked, or given to its owner.  Packages, accounts and    *)
(* networks, which only need to be there, are left out.                    *)
(***************************************************************************)
EXTENDS Naturals, Sequences

CONSTANTS Setups,     \* processes
          None,
          MaxFaults   \* bound on commands that fail and setups that are killed

ASSUME SetupAssumption == Setups # {} /\ None \notin Setups /\ MaxFaults \in Nat

VARIABLES fs,      \* each target: absent, foreign, partial (no marker yet) or ours
          at,      \* each setup: where it is, and the number of its target
          lock,    \* .setup.lock: the setup that has it, or None
          status,  \* bootstrap.json: NONE, PASS or FAIL
          silent,  \* since it was written, a setup was killed, or ended with its own
                   \* status unwritten
          cut,     \* targets in the middle of which a setup came to its end
          faults

vars == <<fs, at, lock, status, silent, cut, faults>>

Order == <<"delegate", "dir", "source", "storage_conf", "vm_storage", "wrapper", "service", "timer">>
Targets == {Order[i] : i \in DOMAIN Order}
Preflight == {"dir", "wrapper", "service", "timer"}       \* looked at before anything is done
Guarded == Targets \ {"source"}                           \* looked at before they are written
Kept == {"dir", "vm_storage"}                             \* what is there already is left
Idle == [pc |-> "idle", i |-> 1]

Init ==
  /\ fs \in {[t \in Targets |-> IF t \in theirs THEN "foreign" ELSE "absent"] :
               theirs \in {{}, {"storage_conf"}, {"wrapper"}}}
  /\ at = [s \in Setups |-> Idle] /\ lock = None /\ status = "NONE" /\ silent = FALSE
  /\ cut = {} /\ faults = 0

-----------------------------------------------------------------------------
Target(s) == Order[at[s].i]
Fault == faults < MaxFaults /\ faults' = faults + 1
To(s, label) == at' = [at EXCEPT ![s].pc = label]

(* setup_finished. Its status is best effort: a file that cannot be opened *)
(* keeps the former one, a write that fails leaves it empty.               *)
Finish(s, result) ==
  /\ at' = [at EXCEPT ![s] = Idle] /\ lock' = None
  /\ \/ status' = result /\ silent' = FALSE
     \/ status' \in {status, "NONE"} /\ silent' = TRUE

(* setup_logging: the EXIT trap is there before the lock is asked for.     *)
Launch(s) ==
  /\ at[s].pc = "idle" /\ To(s, "wait") /\ UNCHANGED <<fs, lock, status, silent, cut, faults>>

(* Mutant: the lock is not waited for.                                     *)
LockAnyway(s) ==
  /\ at[s].pc = "wait" /\ lock' = s /\ To(s, "preflight")
  /\ UNCHANGED <<fs, status, silent, cut, faults>>

Lock(s) ==
  /\ at[s].pc = "wait" /\ lock = None /\ lock' = s /\ To(s, "preflight")
  /\ UNCHANGED <<fs, status, silent, cut, faults>>

(* Ten seconds later the setup ends, or earlier if it is told to or killed,*)
(* and writes its status, as far as it can, over the other's.              *)
Reject(s) ==
  /\ at[s].pc = "wait" /\ \/ lock # None /\ UNCHANGED faults
                          \/ Fault
  /\ at' = [at EXCEPT ![s] = Idle] /\ status' \in {status, "FAIL", "NONE"}
  /\ UNCHANGED <<fs, lock, silent, cut>>

(* What is there without the marker is not setup's to overwrite.           *)
Refused(t) == fs[t] \in {"foreign", "partial"}

Look(s) ==
  /\ at[s].pc = "preflight" /\ UNCHANGED <<fs, cut, faults>>
  /\ IF \E t \in Preflight : Refused(t) THEN Finish(s, "FAIL")
       ELSE To(s, "begin") /\ UNCHANGED <<lock, status, silent>>

Begin(s) ==
  /\ at[s].pc = "begin" /\ UNCHANGED <<cut, faults>>
  /\ IF Target(s) \in Guarded \ Preflight /\ Refused(Target(s))
       THEN Finish(s, "FAIL") /\ UNCHANGED fs
       ELSE /\ To(s, "end") /\ UNCHANGED <<lock, status, silent>>
            /\ fs' = IF Target(s) \in Kept /\ fs[Target(s)] = "ours" THEN fs
                     ELSE [fs EXCEPT ![Target(s)] = "partial"]

(* Mutant: the directory is marked once it is filled.                      *)
MadeLate(t) == IF t = "dir" THEN fs
               ELSE [u \in Targets |-> IF u \in {t} \cup (IF t = "source" THEN {"dir"} ELSE {})
                                         THEN "ours" ELSE fs[u]]

Made(t) == [fs EXCEPT ![t] = "ours"]

End(s) ==
  /\ at[s].pc = "end" /\ fs' = Made(Target(s)) /\ UNCHANGED <<cut, faults>>
  /\ at' = [at EXCEPT ![s] = IF @.i = Len(Order) THEN [@ EXCEPT !.pc = "verify"]
                              ELSE [pc |-> "begin", i |-> @.i + 1]]
  /\ UNCHANGED <<lock, status, silent>>

(* The timer is enabled, and the host checked or validated.                *)
Verify(s) == at[s].pc = "verify" /\ Finish(s, "PASS") /\ UNCHANGED <<fs, cut, faults>>

(* A command fails, or the setup is told to end.                           *)
Fail(s) ==
  /\ at[s].pc \in {"preflight", "begin", "end", "verify"} /\ Fault
  /\ Finish(s, "FAIL")
  /\ cut' = cut \cup {t \in {Target(s)} : at[s].pc = "end" /\ fs[t] = "partial"}
  /\ UNCHANGED fs

Kill(s) ==
  /\ at[s].pc \in {"preflight", "begin", "end", "verify"} /\ Fault
  /\ silent' = TRUE
  /\ IF at[s].pc = "end" THEN To(s, "orphan") /\ UNCHANGED lock
       ELSE at' = [at EXCEPT ![s] = Idle] /\ lock' = None
  /\ UNCHANGED <<fs, status, cut>>

(* The command that outlived its setup does what it was to do, or not.     *)
Orphan(s) ==
  /\ at[s].pc = "orphan" /\ at' = [at EXCEPT ![s] = Idle] /\ lock' = None
  /\ \/ fs' = Made(Target(s)) /\ UNCHANGED cut
     \/ UNCHANGED fs /\ cut' = cut \cup {t \in {Target(s)} : fs[t] = "partial"}
  /\ UNCHANGED <<status, silent, faults>>

Step(s) == Launch(s) \/ Look(s) \/ Begin(s) \/ End(s) \/ Verify(s) \/ Orphan(s)

Next == \E s \in Setups : Step(s) \/ Lock(s) \/ Reject(s) \/ Fail(s) \/ Kill(s)

(* Setup is run again and again; flock is granted to one that waits.       *)
Spec == Init /\ [][Next]_vars /\ \A s \in Setups : WF_vars(Step(s)) /\ SF_vars(Lock(s))

-----------------------------------------------------------------------------
Installed == \A t \in Targets : fs[t] = "ours"

(* A status that says PASS is of a host on which all is installed, unless  *)
(* a setup is at work, or one has since been killed or ended without being *)
(* able to write its own status (setup-common.sh:37-40): then the PASS may *)
(* be an older one's.  A setup rejected by the lock breaks nothing.        *)
PassMeansInstalled == status = "PASS" /\ lock = None /\ ~silent => Installed

(* setup-common.sh:66, "After resolving the cause, rerun the original start*)
(* command": it succeeds wherever the former one came to its end, except   *)
(* over what is not the lab's, or in the midst of what is told from that   *)
(* only by its marker.                                                     *)
SetupRecovers ==
  [](\A t \in Guarded : fs[t] # "foreign" /\ t \notin cut) => []<>(Installed /\ lock = None)
=============================================================================
