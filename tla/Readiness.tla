------------------------------ MODULE Readiness ------------------------------
(***************************************************************************)
(* Waiting for a guest: VMBroker.wait (agentlab/vm.py), which polls it     *)
(* until a deadline, and Validation.wait_vm (agentlab/validate.py), which  *)
(* calls it at most twice within one budget.                               *)
(*                                                                         *)
(* One unit of time is half a second, so that the code's rounding up to    *)
(* whole seconds shows.  The calls that a wait makes take any time up to   *)
(* their own limits, whatever is left of the budget.                       *)
(***************************************************************************)
EXTENDS Naturals

CONSTANTS Timeouts,    \* values of --vm-timeout, in seconds
          LockTime, StatusTime, SshTime, DiagTime   \* limits, in units: Store.lock, the virsh
                                                    \* calls of one status, ssh, the last ssh

ASSUME ReadinessAssumption ==
  Timeouts \subseteq Nat \ {0} /\ {LockTime, StatusTime, SshTime, DiagTime} \subseteq Nat \ {0}

VARIABLES timeout, now, pc,
          attempt,   \* 1 or 2
          until,     \* the deadline of this attempt
          saw,       \* of "ip", "ssh": saw_ip, saw_ssh in this attempt
          code,      \* what the attempt ended with
          fault,     \* the code that is simulated for the job, if any
          guest,     \* stage: 0 boots, 1 has an address, 2 answers, 3 is ready; up; impostor:
                     \* another machine answers at its address
          alarm      \* history: what ssh or virsh showed that no retry can mend

vars == <<timeout, now, pc, attempt, until, saw, code, fault, guest, alarm>>

Transient == {"NO_IP", "SSH_TIMEOUT", "BOOT_TIMEOUT"}
Alarms    == {"VM_STOPPED", "SSH_HOST_KEY_MISMATCH"}
Least(a, b) == IF a < b THEN a ELSE b
Ceil(units) == (units + 1) \div 2           \* math.ceil, of seconds
Left(end)   == IF now < end THEN end - now ELSE 0
Budget      == 2 * timeout                  \* self.vm_timeout

(* The variables hold what the program can put in them; ssh is only seen   *)
(* at an address.                                                          *)
TypeOK ==
  /\ timeout \in Timeouts /\ now \in Nat /\ until \in Nat /\ attempt \in {1, 2}
  /\ pc \in {"attempt", "poll", "ssh", "sleep", "fail", "failed", "done"}
  /\ saw \in {{}, {"ip"}, {"ip", "ssh"}}
  /\ code \in Transient \cup Alarms \cup {"NONE", "OK", "RESOURCE_BUSY", "STATUS_ERROR"}
  /\ fault \in Transient \cup {"NONE"} /\ alarm \subseteq Alarms
  /\ guest \in [stage : 0..3, up : BOOLEAN, impostor : BOOLEAN]

Init ==
  /\ timeout \in Timeouts /\ now = 0 /\ pc = "attempt" /\ attempt = 1 /\ until = 0
  /\ saw = {} /\ code = "NONE" /\ fault \in {"NONE", "NO_IP"} /\ alarm = {}
  /\ guest = [stage |-> 0, up |-> TRUE, impostor |-> FALSE]

-----------------------------------------------------------------------------
Guest ==
  /\ guest.up /\ pc # "done"
  /\ \/ guest.stage < 3 /\ guest' = [guest EXCEPT !.stage = @ + 1]
     \/ guest' = [guest EXCEPT !.up = FALSE]
     \/ guest.stage > 0 /\ guest' = [guest EXCEPT !.impostor = ~@]
  /\ UNCHANGED <<timeout, now, pc, attempt, until, saw, code, fault, alarm>>

Takes(limit) == \E d \in 0..limit : now' = now + d
Ends(label, c) == pc' = label /\ code' = c

(* The seconds an attempt is given.  Mutants: the second is given the      *)
(* whole budget again; it is rounded down.                                 *)
SecondsAgain == IF attempt = 1 THEN Ceil(timeout) ELSE timeout

SecondsDown ==
  IF attempt = 1 THEN Least(Ceil(Left(Budget)), Ceil(timeout)) ELSE Left(Budget) \div 2

Seconds ==
  LET remaining == IF Ceil(Left(Budget)) > 1 THEN Ceil(Left(Budget)) ELSE 1
  IN  IF attempt = 1 THEN Least(remaining, Ceil(timeout)) ELSE remaining

(* vm_wait takes the job's lock, and counts its time from there.           *)
Attempt ==
  /\ pc = "attempt" /\ Takes(LockTime)
  /\ \/ now' = now + LockTime /\ Ends("failed", "RESOURCE_BUSY") /\ UNCHANGED until
     \/ fault # "NONE" /\ Ends("failed", fault) /\ UNCHANGED until
     \/ fault = "NONE" /\ Ends("poll", code) /\ until' = now' + 2 * Seconds
  /\ UNCHANGED <<timeout, attempt, saw, fault, guest, alarm>>

(* status: the lease, then the domain's state, each of which may fail.     *)
Poll ==
  /\ pc = "poll" /\ now < until /\ Takes(StatusTime)
  /\ \/ Ends("failed", "STATUS_ERROR") /\ UNCHANGED <<saw, alarm>>
     \/ /\ ~guest.up /\ Ends("fail", "VM_STOPPED")
        /\ alarm' = alarm \cup {"VM_STOPPED"} /\ UNCHANGED saw
     \/ /\ guest.up /\ UNCHANGED <<code, alarm>>
        /\ IF guest.stage > 0 THEN saw' = saw \cup {"ip"} /\ pc' = "ssh"
                              ELSE pc' = "sleep" /\ UNCHANGED saw
  /\ UNCHANGED <<timeout, attempt, until, fault, guest>>

Expired ==
  /\ pc = "poll" /\ now >= until
  /\ Ends("fail", IF "ssh" \in saw THEN "BOOT_TIMEOUT" ELSE IF "ip" \in saw THEN "SSH_TIMEOUT" ELSE "NO_IP")
  /\ UNCHANGED <<timeout, now, attempt, until, saw, fault, guest, alarm>>

(* ssh has what is left, 10 s at most, one unit at least.                  *)
(* Mutant: a host key that does not match is like no answer.               *)
SshAnswer(label) ==
  \/ pc' = "sleep" /\ UNCHANGED <<code, saw, alarm>>           \* none, or a late one
  \/ /\ guest.impostor /\ alarm' = alarm \cup {"SSH_HOST_KEY_MISMATCH"} /\ UNCHANGED saw
     /\ Ends(label, IF label = "fail" THEN "SSH_HOST_KEY_MISMATCH" ELSE code)
  \/ /\ guest.up /\ ~guest.impostor /\ guest.stage >= 2 /\ UNCHANGED alarm
     /\ saw' = saw \cup {"ssh"}
     /\ IF guest.stage = 3 THEN Ends("done", "OK") ELSE Ends("sleep", code)

SshUnpinned ==
  /\ pc = "ssh" /\ Takes(Least(SshTime, IF Left(until) > 1 THEN Left(until) ELSE 1))
  /\ SshAnswer("sleep") /\ UNCHANGED <<timeout, attempt, until, fault, guest>>

Ssh ==
  /\ pc = "ssh" /\ Takes(Least(SshTime, IF Left(until) > 1 THEN Left(until) ELSE 1))
  /\ SshAnswer("fail") /\ UNCHANGED <<timeout, attempt, until, fault, guest>>

(* Mutant: the loop does not sleep.                                        *)
SleepSkipped ==
  /\ pc = "sleep" /\ pc' = "poll"
  /\ UNCHANGED <<timeout, now, attempt, until, saw, code, fault, guest, alarm>>

Sleep ==
  /\ pc = "sleep" /\ pc' = "poll" /\ now' = now + Least(4, Left(until))
  /\ UNCHANGED <<timeout, attempt, until, saw, code, fault, guest, alarm>>

(* fail: what the guest has to say is fetched before it is gone.           *)
Diagnose ==
  /\ pc = "fail" /\ pc' = "failed" /\ Takes(IF "ssh" \in saw THEN DiagTime ELSE 0)
  /\ UNCHANGED <<timeout, attempt, until, saw, code, fault, guest, alarm>>

(* What may pass by itself is tried once more, in the time that is left.   *)
(* Mutant: as long as there is time.                                       *)
RetryAgain ==
  /\ pc = "failed" /\ UNCHANGED <<timeout, now, until, code, fault, guest, alarm>>
  /\ IF code \in Transient /\ now < Budget
       THEN pc' = "attempt" /\ attempt' = attempt + 1 /\ saw' = {}
       ELSE pc' = "done" /\ UNCHANGED <<attempt, saw>>

Retry ==
  /\ pc = "failed" /\ UNCHANGED <<timeout, now, until, code, fault, guest, alarm>>
  /\ IF code \in Transient /\ attempt = 1 /\ now < Budget
       THEN pc' = "attempt" /\ attempt' = 2 /\ saw' = {}
       ELSE pc' = "done" /\ UNCHANGED <<attempt, saw>>

Wait == Attempt \/ Poll \/ Expired \/ Ssh \/ Sleep \/ Diagnose \/ Retry
Next == Wait \/ Guest
Spec == Init /\ [][Next]_vars /\ WF_vars(Wait)

-----------------------------------------------------------------------------
(* One budget for both attempts: whatever libvirt and the guest do, a wait *)
(* is over when the budget is, but for half a second of rounding, the wait *)
(* for a lock, and the calls that were under way at the deadline.          *)
BudgetIsKept == now <= Budget + 1 + LockTime + StatusTime + DiagTime

(* No guest is given up as slow before the whole budget has passed.        *)
BudgetIsUsed == pc = "done" /\ code \in Transient /\ fault = "NONE" => now >= Budget

(* What the validation is told of the guest is true of it: ready is a      *)
(* guest that wrote its marker, with its own host key; a guest said to     *)
(* boot slowly did answer, one said not to answer had an address; and a    *)
(* stop or a foreign host key, once seen, is what the wait ends with.      *)
VerdictIsEarned ==
  pc = "done" /\ fault = "NONE" =>
    /\ code = "OK" => guest.stage = 3
    /\ code = "BOOT_TIMEOUT" => guest.stage >= 2
    /\ code = "SSH_TIMEOUT" => guest.stage >= 1
    /\ alarm # {} => code \in alarm

(* A wait comes to its end.                                                *)
WaitEnds == <>(pc = "done")
=============================================================================
