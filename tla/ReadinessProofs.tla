--------------------------- MODULE ReadinessProofs ---------------------------
(***************************************************************************)
(* Theorems about Readiness, for every timeout, every limit of the calls   *)
(* that a wait makes, and whatever the guest does.                         *)
(***************************************************************************)
EXTENDS Readiness, TLAPS

-----------------------------------------------------------------------------
(* The inductive invariant.                                                *)

(* The clock: an attempt begins within the budget; its deadline is what is *)
(* left of it, but for rounding and the lock; and a step passes it by no   *)
(* more than the calls it makes.                                           *)
ClockOK ==
  /\ pc = "attempt" => now < Budget
  /\ until <= Budget + 1 + LockTime
  /\ pc \in {"poll", "sleep", "fail"} => now <= until + StatusTime
  /\ pc = "ssh" => now + 1 <= until + StatusTime
  /\ pc \in {"failed", "done"} => now <= Budget + 1 + LockTime + StatusTime + DiagTime

(* The second attempt's deadline is not before the budget's end, and a     *)
(* guest is called slow after the deadline of the attempt only.            *)
PatienceOK ==
  /\ attempt = 2 /\ pc \in {"poll", "ssh", "sleep", "fail"} => until >= Budget
  /\ pc = "fail" /\ code \in Transient => now >= until
  /\ pc = "failed" /\ code \in Transient /\ fault = "NONE" /\ attempt = 2 => now >= Budget
  /\ BudgetIsUsed

(* What was seen of the guest, and what is said of it, is so.              *)
SeenOK ==
  /\ "ip" \in saw => guest.stage >= 1
  /\ "ssh" \in saw => guest.stage >= 2
  /\ pc = "ssh" => "ip" \in saw
  /\ code = "OK" => pc = "done" /\ guest.stage = 3
  /\ fault = "NONE" => /\ code = "BOOT_TIMEOUT" => guest.stage >= 2
                       /\ code = "SSH_TIMEOUT" => guest.stage >= 1
  /\ alarm # {} => pc \in {"fail", "failed", "done"} /\ code \in alarm

Inductive == TypeOK /\ ClockOK /\ PatienceOK /\ SeenOK

-----------------------------------------------------------------------------
(* Arithmetic: rounding up to whole seconds, and what is left.             *)
LEMMA CeilBounds ==
  ASSUME NEW n \in Nat
  PROVE  Ceil(n) \in Nat /\ n <= 2 * Ceil(n) /\ 2 * Ceil(n) <= n + 1
BY DEF Ceil

LEMMA LeftBounds ==
  ASSUME TypeOK, NEW end \in Nat
  PROVE  /\ Left(end) \in Nat /\ now + Left(end) >= end
         /\ now < end => now + Left(end) = end
         /\ now >= end => Left(end) = 0
BY DEF Left, TypeOK

LEMMA Limits ==
  /\ LockTime \in Nat /\ StatusTime \in Nat /\ SshTime \in Nat /\ DiagTime \in Nat
  /\ LockTime > 0 /\ StatusTime > 0 /\ SshTime > 0 /\ DiagTime > 0
BY ReadinessAssumption

LEMMA BudgetType == TypeOK => Budget \in Nat /\ Budget > 0 /\ Budget = 2 * timeout /\ timeout \in Nat
BY ReadinessAssumption DEF TypeOK, Budget

(* The seconds of an attempt that begins within the budget reach as far as *)
(* the budget's end, and half a second beyond it at most; the first gets   *)
(* less.                                                                   *)
LEMMA SecondsBounds ==
  ASSUME TypeOK, now < Budget
  PROVE  /\ Seconds \in Nat /\ now + 2 * Seconds <= Budget + 1
         /\ attempt = 2 => now + 2 * Seconds >= Budget
<1> DEFINE c == Ceil(Left(Budget))
<1>1. /\ Budget \in Nat /\ now \in Nat /\ timeout \in Nat
      /\ Left(Budget) \in Nat /\ now + Left(Budget) = Budget
  BY BudgetType, LeftBounds DEF TypeOK
<1>2. c \in Nat /\ Left(Budget) <= 2 * c /\ 2 * c <= Left(Budget) + 1
  BY <1>1, CeilBounds
<1>3. Ceil(timeout) \in Nat
  BY <1>1, CeilBounds
<1>4. c >= 1
  BY <1>1, <1>2
<1>5. Seconds = IF attempt = 1 THEN Least(c, Ceil(timeout)) ELSE c
  <2>1. (IF c > 1 THEN c ELSE 1) = c
    BY <1>2, <1>4
  <2>2. QED BY <2>1 DEF Seconds
<1> HIDE DEF c
<1>6. Least(c, Ceil(timeout)) \in Nat /\ Least(c, Ceil(timeout)) <= c
  BY <1>2, <1>3 DEF Least
<1>7. QED BY <1>1, <1>2, <1>5, <1>6

(* The deadline of an attempt counts from when the lock was had.           *)
LEMMA Deadlines ==
  ASSUME NEW start \in Nat, NEW had \in Nat, NEW seconds \in Nat, NEW budget \in Nat,
         NEW lock \in Nat, start <= had, had <= start + lock,
         start + 2 * seconds <= budget + 1
  PROVE  /\ had + 2 * seconds \in Nat /\ had <= had + 2 * seconds
         /\ had + 2 * seconds <= budget + 1 + lock
         /\ start + 2 * seconds >= budget => had + 2 * seconds >= budget
OBVIOUS

(* What begins before the deadline ends before it, but for its own limit.  *)
LEMMA Overruns ==
  ASSUME NEW start \in Nat, NEW end \in Nat, NEW deadline \in Nat, NEW limit \in Nat,
         NEW budget \in Nat, NEW lock \in Nat, NEW diag \in Nat,
         start < deadline, end <= start + limit, deadline <= budget + 1 + lock
  PROVE  /\ end + 1 <= deadline + limit /\ end <= deadline + limit
         /\ end <= budget + 1 + lock + limit + diag
OBVIOUS

LEMMA Sums ==
  ASSUME NEW end \in Nat, NEW deadline \in Nat, NEW limit \in Nat, NEW budget \in Nat,
         NEW lock \in Nat, NEW diag \in Nat,
         end <= deadline + limit, deadline <= budget + 1 + lock
  PROVE  end <= budget + 1 + lock + limit + diag
OBVIOUS

LEMMA InductiveInit == Init => Inductive
<1> SUFFICES ASSUME Init PROVE Inductive
  OBVIOUS
<1> USE Limits DEF Init
<1>1. TypeOK
  BY DEF TypeOK, Transient
<1>2. Budget > 0
  BY <1>1, BudgetType
<1>3. QED BY <1>1, <1>2, BudgetType DEF Inductive, ClockOK, PatienceOK, BudgetIsUsed, SeenOK, Transient

-----------------------------------------------------------------------------
(* A guest that stops, or whose address another machine takes or gives up, *)
(* is still the guest that it was.                                         *)
LEMMA GuestRecords ==
  ASSUME NEW g \in [stage : 0..3, up : BOOLEAN, impostor : BOOLEAN], NEW b \in BOOLEAN
  PROVE  /\ g.stage \in 0..3
         /\ [g EXCEPT !.up = b] \in [stage : 0..3, up : BOOLEAN, impostor : BOOLEAN]
         /\ [g EXCEPT !.impostor = b] \in [stage : 0..3, up : BOOLEAN, impostor : BOOLEAN]
         /\ [g EXCEPT !.up = b].stage = g.stage /\ [g EXCEPT !.impostor = b].stage = g.stage
         /\ g.stage >= g.stage
OBVIOUS

LEMMA GuestStep ==
  ASSUME Inductive, Guest
  PROVE  Inductive'
<1>1. /\ UNCHANGED <<timeout, now, pc, attempt, until, saw, code, fault, alarm>> /\ pc # "done"
      /\ TypeOK
  BY DEF Guest, Inductive
<1>2. /\ guest' \in [stage : 0..3, up : BOOLEAN, impostor : BOOLEAN]
      /\ guest.stage \in 0..3 /\ guest'.stage >= guest.stage
  <2>1. guest \in [stage : 0..3, up : BOOLEAN, impostor : BOOLEAN]
    BY <1>1 DEF TypeOK
  <2>2. CASE guest' = [guest EXCEPT !.stage = guest.stage + 1] /\ guest.stage < 3
    BY <2>1, <2>2
  <2>3. guest.impostor = TRUE \/ guest.impostor = FALSE
    BY <2>1
  <2>4. CASE guest' = [guest EXCEPT !.impostor = ~guest.impostor]
    <3>1. CASE guest.impostor = TRUE
      <4>1. guest' = [guest EXCEPT !.impostor = FALSE]
        BY <2>4, <3>1
      <4>2. QED BY <2>1, <4>1, GuestRecords
    <3>2. CASE guest.impostor = FALSE
      <4>1. guest' = [guest EXCEPT !.impostor = TRUE]
        BY <2>4, <3>2
      <4>2. QED BY <2>1, <4>1, GuestRecords
    <3>3. QED BY <2>3, <3>1, <3>2
  <2>5. CASE guest' = [guest EXCEPT !.up = FALSE]
    BY <2>1, <2>5, GuestRecords
  <2>6. QED BY <2>2, <2>4, <2>5 DEF Guest
<1>3. TypeOK'
  BY <1>1, <1>2 DEF TypeOK
<1>4. ClockOK' /\ PatienceOK'
  BY <1>1 DEF Inductive, ClockOK, PatienceOK, BudgetIsUsed, Budget
<1>5. SeenOK'
  BY <1>1, <1>2 DEF Inductive, SeenOK
<1>6. QED BY <1>3, <1>4, <1>5 DEF Inductive

LEMMA TimePasses ==
  ASSUME TypeOK, NEW limit \in Nat, Takes(limit)
  PROVE  now \in Nat /\ now' \in Nat /\ now <= now' /\ now' <= now + limit
BY DEF TypeOK, Takes

LEMMA AttemptStep ==
  ASSUME Inductive, Attempt
  PROVE  Inductive'
<1> USE Limits DEF Inductive
<1>1. /\ pc = "attempt" /\ now < Budget /\ now \in Nat /\ now' \in Nat /\ now <= now'
      /\ now' <= now + LockTime
      /\ UNCHANGED <<timeout, attempt, saw, fault, guest, alarm>> /\ Budget' = Budget
      /\ Budget \in Nat /\ TypeOK /\ alarm = {} /\ code # "OK"
  BY TimePasses, BudgetType DEF Attempt, ClockOK, SeenOK, Budget
<1>2. CASE pc' = "failed" /\ code' \in {"RESOURCE_BUSY"} \cup ({fault} \ {"NONE"}) /\ UNCHANGED until
  <2>1. TypeOK'
    BY <1>1, <1>2 DEF TypeOK
  <2>2. ClockOK'
    BY <1>1, <1>2 DEF ClockOK
  <2>3. PatienceOK'
    BY <1>1, <1>2 DEF PatienceOK, BudgetIsUsed, Transient
  <2>4. SeenOK'
    BY <1>1, <1>2 DEF SeenOK, TypeOK, Transient
  <2>5. QED BY <2>1, <2>2, <2>3, <2>4
<1>3. CASE pc' = "poll" /\ code' = code /\ until' = now' + 2 * Seconds
  <2>1. /\ Seconds \in Nat /\ now + 2 * Seconds <= Budget + 1
        /\ attempt = 2 => now + 2 * Seconds >= Budget
    BY <1>1, SecondsBounds
  <2>2. /\ until' \in Nat /\ now' <= until' /\ until' <= Budget + 1 + LockTime
        /\ attempt = 2 => until' >= Budget
    BY <1>1, <1>3, <2>1, Deadlines
  <2>3. TypeOK'
    BY <1>1, <1>3, <2>2 DEF TypeOK
  <2>4. ClockOK'
    BY <1>1, <1>3, <2>2 DEF ClockOK
  <2>5. PatienceOK'
    BY <1>1, <1>3, <2>2 DEF PatienceOK, BudgetIsUsed
  <2>6. SeenOK'
    BY <1>1, <1>3 DEF SeenOK
  <2>7. QED BY <2>3, <2>4, <2>5, <2>6
<1>4. QED BY <1>2, <1>3 DEF Attempt, Ends

LEMMA PollStep ==
  ASSUME Inductive, Poll
  PROVE  Inductive'
<1> USE Limits DEF Inductive
<1>1. /\ pc = "poll" /\ now' \in Nat
      /\ UNCHANGED <<timeout, attempt, until, fault, guest>> /\ Budget' = Budget
      /\ Budget \in Nat /\ TypeOK /\ alarm = {} /\ code # "OK"
      /\ guest.stage \in 0..3
  BY TimePasses, BudgetType DEF Poll, SeenOK, Budget, TypeOK
<1>2. /\ now' + 1 <= until + StatusTime /\ now' <= until + StatusTime
      /\ now' <= Budget + 1 + LockTime + StatusTime + DiagTime /\ until <= Budget + 1 + LockTime
  <2>1. /\ now < until /\ now \in Nat /\ until \in Nat /\ now' <= now + StatusTime
        /\ until <= Budget + 1 + LockTime
    BY TimePasses DEF Poll, TypeOK, ClockOK
  <2>2. QED BY <1>1, <2>1, Overruns
<1>3. \/ pc' = "failed" /\ code' = "STATUS_ERROR" /\ UNCHANGED <<saw, alarm>>
      \/ pc' = "fail" /\ code' = "VM_STOPPED" /\ alarm' = alarm \cup {"VM_STOPPED"} /\ saw' = saw
      \/ /\ guest.stage > 0 /\ saw' = saw \cup {"ip"} /\ pc' = "ssh" /\ UNCHANGED <<code, alarm>>
      \/ /\ pc' = "sleep" /\ UNCHANGED <<saw, code, alarm>>
  BY DEF Poll, Ends
<1>4. TypeOK'
  BY <1>1, <1>3 DEF TypeOK, Alarms
<1>5. PatienceOK'
  BY <1>1, <1>3 DEF PatienceOK, BudgetIsUsed, Transient
<1>6. SeenOK'
  BY <1>1, <1>3 DEF SeenOK, Transient
<1>7. ClockOK'
  BY <1>1, <1>2, <1>3 DEF ClockOK
<1>8. QED BY <1>4, <1>5, <1>6, <1>7

LEMMA ExpiredStep ==
  ASSUME Inductive, Expired
  PROVE  Inductive'
<1> USE Limits DEF Inductive
<1>1. /\ pc = "poll" /\ now >= until /\ pc' = "fail" /\ now \in Nat /\ until \in Nat
      /\ UNCHANGED <<timeout, now, attempt, until, saw, fault, guest, alarm>> /\ Budget' = Budget
      /\ TypeOK /\ alarm = {}
  BY DEF Expired, Ends, SeenOK, Budget, TypeOK
<1>2. \/ code' = "BOOT_TIMEOUT" /\ "ssh" \in saw
      \/ code' = "SSH_TIMEOUT" /\ "ip" \in saw
      \/ code' = "NO_IP"
  BY DEF Expired, Ends
<1>3. TypeOK'
  BY <1>1, <1>2 DEF TypeOK, Transient
<1>4. ClockOK' /\ PatienceOK'
  BY <1>1 DEF ClockOK, PatienceOK, BudgetIsUsed
<1>5. SeenOK'
  BY <1>1, <1>2 DEF SeenOK
<1>6. QED BY <1>3, <1>4, <1>5

LEMMA SshStep ==
  ASSUME Inductive, Ssh
  PROVE  Inductive'
<1> USE Limits DEF Inductive
<1> DEFINE limit == Least(SshTime, IF Left(until) > 1 THEN Left(until) ELSE 1)
<1>1. /\ pc = "ssh" /\ now \in Nat /\ until \in Nat /\ Left(until) \in Nat
      /\ UNCHANGED <<timeout, attempt, until, fault, guest>> /\ Budget' = Budget
      /\ Budget \in Nat /\ TypeOK /\ alarm = {} /\ code # "OK" /\ "ip" \in saw
      /\ guest.stage \in 0..3 /\ saw \in {{"ip"}, {"ip", "ssh"}}
  BY LeftBounds, BudgetType DEF Ssh, SeenOK, Budget, TypeOK
<1>2. limit \in Nat /\ limit >= 1 /\ (limit <= 1 \/ limit <= Left(until))
  BY <1>1 DEF Least
<1>3. now' \in Nat /\ now <= now' /\ now' <= now + limit
  BY <1>1, <1>2, TimePasses DEF Ssh
<1> HIDE DEF limit
<1>4. now' <= until + StatusTime
  BY <1>1, <1>2, <1>3, LeftBounds DEF ClockOK
<1>5. \/ pc' = "sleep" /\ UNCHANGED <<code, saw, alarm>>
      \/ /\ pc' = "fail" /\ code' = "SSH_HOST_KEY_MISMATCH"
         /\ alarm' = alarm \cup {"SSH_HOST_KEY_MISMATCH"} /\ saw' = saw
      \/ /\ guest.stage >= 2 /\ UNCHANGED alarm /\ saw' = saw \cup {"ssh"}
         /\ \/ guest.stage = 3 /\ pc' = "done" /\ code' = "OK"
            \/ pc' = "sleep" /\ code' = code
  BY DEF Ssh, SshAnswer, Ends
<1>6. TypeOK'
  BY <1>1, <1>3, <1>5 DEF TypeOK, Alarms
<1>7. ClockOK'
  <2>1. until <= Budget + 1 + LockTime
    BY DEF ClockOK
  <2>2. pc' \in {"sleep", "fail", "done"}
    BY <1>5
  <2>3. now' <= Budget + 1 + LockTime + StatusTime + DiagTime
    BY <1>1, <1>3, <1>4, <2>1, Sums
  <2>4. until' = until /\ Budget' = Budget
    BY <1>1
  <2>5. QED BY <1>4, <2>1, <2>2, <2>3, <2>4 DEF ClockOK
<1>8. PatienceOK'
  BY <1>1, <1>5 DEF PatienceOK, BudgetIsUsed, Transient
<1>9. SeenOK'
  BY <1>1, <1>5 DEF SeenOK
<1>10. QED BY <1>6, <1>7, <1>8, <1>9

LEMMA SleepStep ==
  ASSUME Inductive, Sleep
  PROVE  Inductive'
<1> USE Limits DEF Inductive
<1>1. /\ pc = "sleep" /\ pc' = "poll" /\ now \in Nat /\ until \in Nat /\ Left(until) \in Nat
      /\ UNCHANGED <<timeout, attempt, until, saw, code, fault, guest, alarm>> /\ Budget' = Budget
      /\ TypeOK
  BY LeftBounds DEF Sleep, Budget, TypeOK
<1>2. now' \in Nat /\ (now' <= until \/ now' = now)
  BY <1>1, LeftBounds DEF Sleep, Least
<1>3. TypeOK'
  BY <1>1, <1>2 DEF TypeOK
<1>4. ClockOK' /\ PatienceOK' /\ SeenOK'
  BY <1>1, <1>2 DEF ClockOK, PatienceOK, BudgetIsUsed, SeenOK
<1>5. QED BY <1>3, <1>4

LEMMA DiagnoseStep ==
  ASSUME Inductive, Diagnose
  PROVE  Inductive'
<1> USE Limits DEF Inductive
<1>1. /\ pc = "fail" /\ pc' = "failed" /\ now \in Nat /\ now' \in Nat /\ now <= now'
      /\ now' <= now + DiagTime /\ until \in Nat
      /\ UNCHANGED <<timeout, attempt, until, saw, code, fault, guest, alarm>> /\ Budget' = Budget
      /\ Budget \in Nat /\ TypeOK
  BY TimePasses, BudgetType DEF Diagnose, Budget, TypeOK
<1>2. TypeOK'
  BY <1>1 DEF TypeOK
<1>3. ClockOK' /\ PatienceOK' /\ SeenOK'
  BY <1>1 DEF ClockOK, PatienceOK, BudgetIsUsed, SeenOK
<1>4. QED BY <1>2, <1>3

LEMMA RetryStep ==
  ASSUME Inductive, Retry
  PROVE  Inductive'
<1> USE Limits DEF Inductive
<1>1. /\ pc = "failed" /\ UNCHANGED <<timeout, now, until, code, fault, guest, alarm>>
      /\ Budget' = Budget /\ Budget \in Nat /\ now \in Nat /\ TypeOK
  BY BudgetType DEF Retry, Budget, TypeOK
<1>2. CASE code \in Transient /\ attempt = 1 /\ now < Budget
  <2>1. pc' = "attempt" /\ attempt' = 2 /\ saw' = {}
    BY <1>2 DEF Retry
  <2>2. alarm = {}
    BY <1>1, <1>2 DEF SeenOK, TypeOK, Transient, Alarms
  <2>3. TypeOK' /\ ClockOK' /\ PatienceOK' /\ SeenOK'
    BY <1>1, <1>2, <2>1, <2>2 DEF TypeOK, ClockOK, PatienceOK, BudgetIsUsed, SeenOK
  <2>4. QED BY <2>3
<1>3. CASE ~(code \in Transient /\ attempt = 1 /\ now < Budget)
  <2>1. pc' = "done" /\ UNCHANGED <<attempt, saw>>
    BY <1>3 DEF Retry
  <2>2. TypeOK' /\ ClockOK' /\ SeenOK'
    BY <1>1, <2>1 DEF TypeOK, ClockOK, SeenOK
  <2>3. PatienceOK'
    BY <1>1, <1>3, <2>1 DEF TypeOK, PatienceOK, BudgetIsUsed
  <2>4. QED BY <2>2, <2>3
<1>4. QED BY <1>2, <1>3

LEMMA InductiveStep == Inductive /\ [Next]_vars => Inductive'
<1> SUFFICES ASSUME Inductive, [Next]_vars PROVE Inductive'
  OBVIOUS
<1>1. CASE UNCHANGED vars
  BY <1>1 DEF vars, Inductive, TypeOK, ClockOK, PatienceOK, BudgetIsUsed, SeenOK, Budget
<1>2. CASE Wait
  BY <1>2, AttemptStep, PollStep, ExpiredStep, SshStep, SleepStep, DiagnoseStep, RetryStep DEF Wait
<1>3. CASE Guest
  BY <1>3, GuestStep
<1>4. QED BY <1>1, <1>2, <1>3 DEF Next

LEMMA InductiveHolds == Spec => []Inductive
BY InductiveInit, InductiveStep, PTL DEF Spec

-----------------------------------------------------------------------------
(* Types, and that no more is seen of a guest than its address before it.  *)
THEOREM ReadinessTypesHold == Spec => []TypeOK
<1>1. Inductive => TypeOK
  BY DEF Inductive
<1>2. QED BY <1>1, InductiveHolds, PTL

(* Both attempts of wait_vm fit in the one budget, but for half a second,  *)
(* the wait for the lock and the calls that are under way when it ends.    *)
THEOREM BudgetsAreKept == Spec => []BudgetIsKept
<1>1. Inductive => BudgetIsKept
  BY Limits, BudgetType DEF Inductive, ClockOK, BudgetIsKept, TypeOK
<1>2. QED BY <1>1, InductiveHolds, PTL

(* A guest is not given up as slow while there is time: the second attempt *)
(* gets all that the first one left, rounded up.                           *)
THEOREM BudgetsAreUsed == Spec => []BudgetIsUsed
<1>1. Inductive => BudgetIsUsed
  BY DEF Inductive, PatienceOK
<1>2. QED BY <1>1, InductiveHolds, PTL

(* What wait says of the guest is true of it; a foreign host key or a stop *)
(* that was seen is never retried away.                                    *)
THEOREM VerdictsAreEarned == Spec => []VerdictIsEarned
<1>1. Inductive => VerdictIsEarned
  BY DEF Inductive, SeenOK, VerdictIsEarned
<1>2. QED BY <1>1, InductiveHolds, PTL
=============================================================================
