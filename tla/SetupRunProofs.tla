--------------------------- MODULE SetupRunProofs ---------------------------
(***************************************************************************)
(* Theorems about SetupRun, for any number of setups, of commands that     *)
(* fail and of setups that are killed.                                     *)
(***************************************************************************)
EXTENDS SetupRun, TLAPS

-----------------------------------------------------------------------------
(* The inductive invariant.                                                *)
Holding == {"preflight", "begin", "end", "verify", "orphan"}

TypeOK ==
  /\ fs \in [Targets -> {"absent", "foreign", "partial", "ours"}]
  /\ at \in [Setups -> [pc : {"idle", "wait"} \cup Holding, i : 1..8]]
  /\ lock \in Setups \cup {None} /\ status \in {"NONE", "PASS", "FAIL"} /\ silent \in BOOLEAN

(* .setup.lock is had by the one setup that is at work, or by the command  *)
(* that outlived it; only a setup at work is past the first target.        *)
LockOK ==
  \A s \in Setups : /\ at[s].pc \in Holding <=> lock = s
                    /\ at[s].pc \in {"idle", "wait", "preflight"} => at[s].i = 1

(* What the setup at work has done so far.                                 *)
DoneBefore(n) == \A j \in 1..8 : j < n => fs[Order[j]] = "ours"

WorkOK ==
  \A s \in Setups :
    /\ at[s].pc \in {"begin", "end"} => DoneBefore(at[s].i)
    /\ at[s].pc = "verify" => Installed
    /\ at[s].pc = "orphan" => silent = TRUE
    /\ at[s].pc \in {"begin", "end", "verify"} => \A t \in Preflight : fs[t] # "foreign"
    /\ at[s].pc \in {"end", "orphan"} => fs[Target(s)] \in {"partial", "ours"}

Inductive == TypeOK /\ LockOK /\ WorkOK /\ PassMeansInstalled

-----------------------------------------------------------------------------
(* The targets in their order.                                             *)
LEMMA OrderFacts ==
  /\ Targets = {"delegate", "dir", "source", "storage_conf", "vm_storage", "wrapper", "service", "timer"}
  /\ Len(Order) = 8
  /\ \A j \in 1..8 : Order[j] \in Targets
  /\ \A t \in Targets : \E j \in 1..8 : t = Order[j]
  /\ \A j, k \in 1..8 : j # k => Order[j] # Order[k]
<1>1. Len(Order) = 8 /\ DOMAIN Order = 1..8
  BY DEF Order
<1>2. /\ Order[1] = "delegate" /\ Order[2] = "dir" /\ Order[3] = "source" /\ Order[4] = "storage_conf"
      /\ Order[5] = "vm_storage" /\ Order[6] = "wrapper" /\ Order[7] = "service" /\ Order[8] = "timer"
  BY DEF Order
<1>3. \A j \in 1..8 : j \in {1, 2, 3, 4, 5, 6, 7, 8}
  OBVIOUS
<1>4. Targets = {Order[j] : j \in 1..8}
  BY <1>1 DEF Targets
<1> HIDE DEF Order, Targets
<1>5. Targets = {"delegate", "dir", "source", "storage_conf", "vm_storage", "wrapper", "service", "timer"}
  BY <1>2, <1>3, <1>4
<1>6. (\A j \in 1..8 : Order[j] \in Targets) /\ (\A t \in Targets : \E j \in 1..8 : t = Order[j])
  BY <1>4
<1>7. \A j, k \in 1..8 : j # k => Order[j] # Order[k]
  BY <1>2, <1>3
<1>8. QED BY <1>1, <1>5, <1>6, <1>7

(* One more target done; the last one is all of them.                      *)
LEMMA OneMore ==
  ASSUME NEW n \in 1..8, NEW f, NEW g,
         \A j \in 1..8 : j < n => f[Order[j]] = "ours",
         g[Order[n]] = "ours", \A j \in 1..8 : j # n => g[Order[j]] = f[Order[j]]
  PROVE  \A j \in 1..8 : j < n + 1 => g[Order[j]] = "ours"
<1> SUFFICES ASSUME NEW j \in 1..8, j < n + 1 PROVE g[Order[j]] = "ours"
  OBVIOUS
<1>1. j = n \/ (j < n /\ j # n)
  OBVIOUS
<1>2. QED BY <1>1

LEMMA InductiveInit == Init => Inductive
<1> SUFFICES ASSUME Init PROVE Inductive
  OBVIOUS
<1>1. \A s \in Setups : at[s] = Idle
  BY DEF Init
<1>2. PICK theirs : fs = [t \in Targets |-> IF t \in theirs THEN "foreign" ELSE "absent"]
  BY DEF Init
<1>3. fs \in [Targets -> {"absent", "foreign", "partial", "ours"}]
  BY <1>2
<1>4. Idle \in [pc : {"idle", "wait"} \cup Holding, i : 1..8] /\ Idle.pc = "idle" /\ Idle.i = 1
  BY DEF Idle
<1>5. TypeOK
  BY <1>3, <1>4 DEF Init, TypeOK
<1>6. LockOK
  BY <1>1, <1>4, SetupAssumption DEF Init, LockOK, Holding
<1>7. WorkOK
  BY <1>1, <1>4 DEF WorkOK
<1>8. PassMeansInstalled
  BY DEF Init, PassMeansInstalled
<1>9. QED BY <1>5, <1>6, <1>7, <1>8 DEF Inductive

-----------------------------------------------------------------------------
(* A setup that moves leaves the others as they are.                       *)
LEMMA OneMoves ==
  ASSUME Inductive, NEW s \in Setups, NEW r \in [pc : {"idle", "wait"} \cup Holding, i : 1..8],
         at' = [at EXCEPT ![s] = r]
  PROVE  /\ at' \in [Setups -> [pc : {"idle", "wait"} \cup Holding, i : 1..8]]
         /\ at'[s] = r /\ \A u \in Setups : u # s => at'[u] = at[u]
BY DEF Inductive, TypeOK

(* While one setup holds the lock, no other is at work.                    *)
LEMMA OthersWait ==
  ASSUME Inductive, NEW s \in Setups, at[s].pc \in Holding
  PROVE  lock = s /\ \A u \in Setups : u # s => at[u].pc \notin Holding
BY DEF Inductive, LockOK

(* A new label is a record of the right kind.                              *)
LEMMA Labels ==
  ASSUME Inductive, NEW s \in Setups, NEW label \in {"idle", "wait"} \cup Holding, To(s, label)
  PROVE  \E r \in [pc : {"idle", "wait"} \cup Holding, i : 1..8] :
           r.pc = label /\ r.i = at[s].i /\ at' = [at EXCEPT ![s] = r]
<1>1. at[s] \in [pc : {"idle", "wait"} \cup Holding, i : 1..8]
  BY DEF Inductive, TypeOK
<1> DEFINE r == [at[s] EXCEPT !.pc = label]
<1>2. r \in [pc : {"idle", "wait"} \cup Holding, i : 1..8] /\ r.pc = label /\ r.i = at[s].i
  BY <1>1
<1>3. at' = [at EXCEPT ![s] = r]
  BY DEF To
<1>4. QED BY <1>2, <1>3

LEMMA IdleIsALabel ==
  Idle \in [pc : {"idle", "wait"} \cup Holding, i : 1..8] /\ Idle.pc = "idle" /\ Idle.i = 1
BY DEF Idle

(* A setup that comes to its end leaves the lock and the rest as they are. *)
LEMMA Leaves ==
  ASSUME Inductive, NEW s \in Setups, at[s].pc \in Holding, at' = [at EXCEPT ![s] = Idle],
         lock' = None
  PROVE  LockOK' /\ WorkOK' /\ at' \in [Setups -> [pc : {"idle", "wait"} \cup Holding, i : 1..8]]
<1>1. \A u \in Setups : u # s => at[u].pc \notin Holding
  BY OthersWait
<1>2. /\ at' \in [Setups -> [pc : {"idle", "wait"} \cup Holding, i : 1..8]]
      /\ at'[s] = Idle /\ \A u \in Setups : u # s => at'[u] = at[u]
  BY IdleIsALabel, OneMoves
<1>3. \A u \in Setups : at'[u].pc \notin Holding
  BY <1>1, <1>2, IdleIsALabel DEF Holding
<1>4. \A u \in Setups : at'[u].pc \in {"idle", "wait", "preflight"} => at'[u].i = 1
  BY <1>2, IdleIsALabel DEF Inductive, LockOK
<1>5. LockOK'
  BY <1>3, <1>4, SetupAssumption DEF LockOK
<1>6. WorkOK'
  BY <1>3 DEF WorkOK, Holding
<1>7. QED BY <1>2, <1>5, <1>6

LEMMA FinishStep ==
  ASSUME Inductive, NEW s \in Setups, at[s].pc \in Holding,
         NEW result \in {"NONE", "PASS", "FAIL"}, result = "PASS" => Installed,
         Finish(s, result), UNCHANGED fs
  PROVE  Inductive'
<1>1. LockOK' /\ WorkOK' /\ at' \in [Setups -> [pc : {"idle", "wait"} \cup Holding, i : 1..8]]
  BY Leaves DEF Finish
<1>2. \/ status' = result /\ silent' = FALSE
      \/ status' \in {status, "NONE"} /\ silent' = TRUE
  BY DEF Finish
<1>3. TypeOK'
  BY <1>1, <1>2 DEF Finish, Inductive, TypeOK
<1>4. PassMeansInstalled'
  BY <1>2 DEF PassMeansInstalled, Installed
<1>5. QED BY <1>1, <1>3, <1>4 DEF Inductive

(* The setup that has the lock goes on with it.                            *)
LEMMA HolderMoves ==
  ASSUME Inductive, NEW s \in Setups, at[s].pc \in Holding,
         NEW r \in [pc : {"idle", "wait"} \cup Holding, i : 1..8], r.pc \in Holding,
         r.pc = "preflight" => r.i = 1,
         at' = [at EXCEPT ![s] = r], UNCHANGED lock
  PROVE  /\ LockOK' /\ PassMeansInstalled' /\ at'[s] = r
         /\ at' \in [Setups -> [pc : {"idle", "wait"} \cup Holding, i : 1..8]]
         /\ \A u \in Setups : u # s => at'[u].pc \notin Holding
<1>1. lock = s /\ \A u \in Setups : u # s => at[u].pc \notin Holding
  BY OthersWait
<1>2. /\ at' \in [Setups -> [pc : {"idle", "wait"} \cup Holding, i : 1..8]]
      /\ at'[s] = r /\ \A u \in Setups : u # s => at'[u] = at[u]
  BY OneMoves
<1>3. LockOK'
  BY <1>1, <1>2 DEF Inductive, LockOK, Holding
<1>4. PassMeansInstalled'
  BY <1>1, SetupAssumption DEF PassMeansInstalled
<1>5. QED BY <1>1, <1>2, <1>3, <1>4

LEMMA LaunchStep ==
  ASSUME Inductive, NEW s \in Setups, Launch(s)
  PROVE  Inductive'
<1>1. PICK r \in [pc : {"idle", "wait"} \cup Holding, i : 1..8] :
        r.pc = "wait" /\ r.i = at[s].i /\ at' = [at EXCEPT ![s] = r]
  BY Labels DEF Launch
<1>2. /\ at' \in [Setups -> [pc : {"idle", "wait"} \cup Holding, i : 1..8]]
      /\ at'[s] = r /\ \A u \in Setups : u # s => at'[u] = at[u]
  BY <1>1, OneMoves
<1>3. UNCHANGED <<fs, lock, status, silent>> /\ at[s].pc = "idle"
  BY DEF Launch
<1>4. TypeOK'
  BY <1>2, <1>3 DEF Inductive, TypeOK
<1>5. LockOK'
  BY <1>1, <1>2, <1>3 DEF Inductive, LockOK, Holding
<1>6. WorkOK'
  BY <1>1, <1>2, <1>3 DEF Inductive, WorkOK, DoneBefore, Installed, Target
<1>7. PassMeansInstalled'
  BY <1>3 DEF Inductive, PassMeansInstalled, Installed
<1>8. QED BY <1>4, <1>5, <1>6, <1>7 DEF Inductive

LEMMA LockStep ==
  ASSUME Inductive, NEW s \in Setups, Lock(s)
  PROVE  Inductive'
<1>1. PICK r \in [pc : {"idle", "wait"} \cup Holding, i : 1..8] :
        r.pc = "preflight" /\ r.i = at[s].i /\ at' = [at EXCEPT ![s] = r]
  BY Labels DEF Lock, Holding
<1>2. /\ at' \in [Setups -> [pc : {"idle", "wait"} \cup Holding, i : 1..8]]
      /\ at'[s] = r /\ \A u \in Setups : u # s => at'[u] = at[u]
  BY <1>1, OneMoves
<1>3. UNCHANGED <<fs, status, silent>> /\ at[s].pc = "wait" /\ lock = None /\ lock' = s
  BY DEF Lock
<1>4. TypeOK'
  BY <1>2, <1>3 DEF Inductive, TypeOK
<1>5. \A u \in Setups : at[u].pc \notin Holding
  BY <1>3, SetupAssumption DEF Inductive, LockOK
<1>6. LockOK'
  BY <1>1, <1>2, <1>3, <1>5 DEF Inductive, LockOK, Holding
<1>7. WorkOK'
  BY <1>1, <1>2, <1>5 DEF WorkOK, Holding
<1>8. PassMeansInstalled'
  BY <1>3, SetupAssumption DEF PassMeansInstalled
<1>9. QED BY <1>4, <1>6, <1>7, <1>8 DEF Inductive

LEMMA RejectStep ==
  ASSUME Inductive, NEW s \in Setups, Reject(s)
  PROVE  Inductive'
<1>1. /\ at' \in [Setups -> [pc : {"idle", "wait"} \cup Holding, i : 1..8]]
      /\ at'[s] = Idle /\ \A u \in Setups : u # s => at'[u] = at[u]
  BY IdleIsALabel, OneMoves DEF Reject
<1>2. UNCHANGED <<fs, lock, silent>> /\ at[s].pc = "wait" /\ status' \in {status, "FAIL", "NONE"}
  BY DEF Reject
<1>3. TypeOK'
  BY <1>1, <1>2 DEF Inductive, TypeOK
<1>4. LockOK'
  BY <1>1, <1>2, IdleIsALabel DEF Inductive, LockOK, Holding
<1>5. WorkOK'
  BY <1>1, <1>2, IdleIsALabel DEF Inductive, WorkOK, DoneBefore, Installed, Target
<1>6. PassMeansInstalled'
  BY <1>2 DEF Inductive, PassMeansInstalled, Installed
<1>7. QED BY <1>3, <1>4, <1>5, <1>6 DEF Inductive

LEMMA LookStep ==
  ASSUME Inductive, NEW s \in Setups, Look(s)
  PROVE  Inductive'
<1>1. at[s].pc = "preflight" /\ at[s].pc \in Holding /\ UNCHANGED fs
  BY DEF Look, Holding
<1>2. CASE \E t \in Preflight : Refused(t)
  BY <1>1, <1>2, FinishStep DEF Look
<1>3. CASE ~ \E t \in Preflight : Refused(t)
  <2>1. To(s, "begin") /\ UNCHANGED <<lock, status, silent>>
    BY <1>3 DEF Look
  <2>2. PICK r \in [pc : {"idle", "wait"} \cup Holding, i : 1..8] :
          r.pc = "begin" /\ r.i = at[s].i /\ at' = [at EXCEPT ![s] = r]
    BY <2>1, Labels DEF Holding
  <2>3. /\ LockOK' /\ PassMeansInstalled' /\ at'[s] = r
        /\ at' \in [Setups -> [pc : {"idle", "wait"} \cup Holding, i : 1..8]]
        /\ \A u \in Setups : u # s => at'[u].pc \notin Holding
    BY <1>1, <2>1, <2>2, HolderMoves DEF Holding
  <2>4. r.i = 1
    BY <1>1, <2>2 DEF Inductive, LockOK
  <2>5. DoneBefore(1)'
    BY DEF DoneBefore
  <2>6. \A t \in Preflight : fs'[t] # "foreign"
    BY <1>1, <1>3 DEF Refused
  <2>7. WorkOK'
    BY <2>2, <2>3, <2>4, <2>5, <2>6 DEF WorkOK, Holding
  <2>8. TypeOK'
    BY <1>1, <2>1, <2>3 DEF Inductive, TypeOK
  <2>9. QED BY <2>3, <2>7, <2>8 DEF Inductive
<1>4. QED BY <1>2, <1>3

(* A target that is written and the other ones.                            *)
LEMMA TargetOf ==
  ASSUME Inductive, NEW s \in Setups
  PROVE  /\ at[s].i \in 1..8 /\ Target(s) = Order[at[s].i] /\ Target(s) \in Targets
         /\ \A j \in 1..8 : j # at[s].i => Order[j] \in Targets /\ Order[j] # Target(s)
<1>1. at[s].i \in 1..8
  BY DEF Inductive, TypeOK
<1>2. Target(s) = Order[at[s].i]
  BY DEF Target
<1>3. QED BY <1>1, <1>2, OrderFacts

LEMMA BeginStep ==
  ASSUME Inductive, NEW s \in Setups, Begin(s)
  PROVE  Inductive'
<1>1. at[s].pc = "begin" /\ at[s].pc \in Holding
  BY DEF Begin, Holding
<1>2. CASE Target(s) \in Guarded \ Preflight /\ Refused(Target(s))
  BY <1>1, <1>2, FinishStep DEF Begin
<1>3. CASE ~(Target(s) \in Guarded \ Preflight /\ Refused(Target(s)))
  <2>1. /\ To(s, "end") /\ UNCHANGED <<lock, status, silent>>
        /\ fs' = IF Target(s) \in Kept /\ fs[Target(s)] = "ours" THEN fs
                 ELSE [fs EXCEPT ![Target(s)] = "partial"]
    BY <1>3 DEF Begin
  <2>2. PICK r \in [pc : {"idle", "wait"} \cup Holding, i : 1..8] :
          r.pc = "end" /\ r.i = at[s].i /\ at' = [at EXCEPT ![s] = r]
    BY <2>1, Labels DEF Holding
  <2>3. /\ LockOK' /\ PassMeansInstalled' /\ at'[s] = r
        /\ at' \in [Setups -> [pc : {"idle", "wait"} \cup Holding, i : 1..8]]
        /\ \A u \in Setups : u # s => at'[u].pc \notin Holding
    BY <1>1, <2>1, <2>2, HolderMoves DEF Holding
  <2>4. PICK n \in 1..8 : n = at[s].i
    BY TargetOf
  <2>5. \A j \in 1..8 : j # n => Order[j] \in Targets /\ Order[j] # Target(s)
    BY <2>4, TargetOf
  <2>6. fs \in [Targets -> {"absent", "foreign", "partial", "ours"}] /\ Target(s) \in Targets
    BY TargetOf DEF Inductive, TypeOK
  <2>7. /\ fs' \in [Targets -> {"absent", "foreign", "partial", "ours"}]
        /\ fs'[Target(s)] \in {"partial", "ours"}
        /\ \A t \in Targets : t # Target(s) => fs'[t] = fs[t]
    BY <2>1, <2>6
  <2>8. \A j \in 1..8 : j < n => fs[Order[j]] = "ours"
    BY <1>1, <2>4 DEF Inductive, WorkOK, DoneBefore
  <2>9. \A j \in 1..8 : j < n => fs'[Order[j]] = "ours"
    BY <2>5, <2>7, <2>8
  <2>10. \A t \in Preflight : fs'[t] # "foreign"
    <3>1. \A t \in Preflight : fs[t] # "foreign" /\ t \in Targets
      BY <1>1, OrderFacts DEF Inductive, WorkOK, Preflight
    <3>2. QED BY <2>7, <3>1
  <2>11. Target(s)' = Target(s) /\ r.i = n
    BY <2>2, <2>3, <2>4 DEF Target
  <2>12. fs'[Target(s)'] \in {"partial", "ours"}
    BY <2>7, <2>11
  <2>13. DoneBefore(r.i)'
    BY <2>9, <2>11 DEF DoneBefore
  <2>14. WorkOK'
    BY <2>2, <2>3, <2>10, <2>12, <2>13 DEF WorkOK, DoneBefore, Holding
  <2>15. TypeOK'
    BY <2>1, <2>3, <2>7 DEF Inductive, TypeOK
  <2>16. QED BY <2>3, <2>14, <2>15 DEF Inductive
<1>4. QED BY <1>2, <1>3

(* A target that is done: it is the setup's, and the others are unchanged. *)
LEMMA Makes ==
  ASSUME Inductive, NEW s \in Setups, fs' = Made(Target(s))
  PROVE  /\ fs' \in [Targets -> {"absent", "foreign", "partial", "ours"}]
         /\ fs'[Target(s)] = "ours" /\ \A t \in Targets : t # Target(s) => fs'[t] = fs[t]
<1>1. fs \in [Targets -> {"absent", "foreign", "partial", "ours"}] /\ Target(s) \in Targets
  BY TargetOf DEF Inductive, TypeOK
<1>2. QED BY <1>1 DEF Made

LEMMA EndStep ==
  ASSUME Inductive, NEW s \in Setups, End(s)
  PROVE  Inductive'
<1> DEFINE n == at[s].i
<1>1. at[s].pc = "end" /\ at[s].pc \in Holding /\ UNCHANGED <<lock, status, silent>>
  BY DEF End, Holding
<1>2. /\ fs' \in [Targets -> {"absent", "foreign", "partial", "ours"}]
      /\ fs'[Target(s)] = "ours" /\ \A t \in Targets : t # Target(s) => fs'[t] = fs[t]
  BY Makes DEF End
<1>3. /\ n \in 1..8 /\ Target(s) = Order[n]
      /\ \A j \in 1..8 : j # n => Order[j] \in Targets /\ Order[j] # Target(s)
  BY TargetOf
<1>4. \A j \in 1..8 : j < n => fs[Order[j]] = "ours"
  BY <1>1 DEF Inductive, WorkOK, DoneBefore
<1>5. at[s] \in [pc : {"idle", "wait"} \cup Holding, i : 1..8]
  BY DEF Inductive, TypeOK
<1> HIDE DEF n
<1>6. \A j \in 1..8 : j < n + 1 => fs'[Order[j]] = "ours"
  <2>1. \A j \in 1..8 : j # n => fs'[Order[j]] = fs[Order[j]]
    BY <1>2, <1>3
  <2>2. QED BY <1>2, <1>3, <1>4, <2>1, OneMore
<1>7. \A t \in Preflight : fs'[t] # "foreign"
  <2>1. \A t \in Preflight : fs[t] # "foreign" /\ t \in Targets
    BY <1>1, OrderFacts DEF Inductive, WorkOK, Preflight
  <2>2. QED BY <1>2, <2>1
<1>8. PICK r \in [pc : {"idle", "wait"} \cup Holding, i : 1..8] :
        /\ at' = [at EXCEPT ![s] = r]
        /\ \/ r.pc = "verify" /\ n = 8
           \/ r.pc = "begin" /\ r.i = n + 1 /\ n < 8
  <2>1. CASE n = 8
    <3>1. at' = [at EXCEPT ![s] = [at[s] EXCEPT !.pc = "verify"]]
      BY <2>1, OrderFacts DEF End, n
    <3>2. [at[s] EXCEPT !.pc = "verify"] \in [pc : {"idle", "wait"} \cup Holding, i : 1..8]
      BY <1>5 DEF Holding
    <3>3. [at[s] EXCEPT !.pc = "verify"].pc = "verify"
      BY <1>5
    <3>4. QED BY <2>1, <3>1, <3>2, <3>3
  <2>2. CASE n # 8
    <3>1. at' = [at EXCEPT ![s] = [pc |-> "begin", i |-> n + 1]]
      BY <2>2, OrderFacts DEF End, n
    <3>2. n < 8 /\ n + 1 \in 1..8
      BY <1>3, <2>2
    <3>3. [pc |-> "begin", i |-> n + 1] \in [pc : {"idle", "wait"} \cup Holding, i : 1..8]
      BY <3>2 DEF Holding
    <3>4. QED BY <3>1, <3>2, <3>3
  <2>3. QED BY <2>1, <2>2
<1>9. /\ LockOK' /\ PassMeansInstalled' /\ at'[s] = r
      /\ at' \in [Setups -> [pc : {"idle", "wait"} \cup Holding, i : 1..8]]
      /\ \A u \in Setups : u # s => at'[u].pc \notin Holding
  BY <1>1, <1>8, HolderMoves DEF Holding
<1>10. r.pc = "begin" => DoneBefore(r.i)'
  BY <1>6, <1>8 DEF DoneBefore
<1>11. r.pc = "verify" => Installed'
  <2> SUFFICES ASSUME r.pc = "verify", NEW t \in Targets PROVE fs'[t] = "ours"
    BY DEF Installed
  <2>1. n = 8
    BY <1>8
  <2>2. PICK j \in 1..8 : t = Order[j]
    BY OrderFacts
  <2>3. QED BY <1>6, <2>1, <2>2
<1>12. WorkOK'
  BY <1>7, <1>8, <1>9, <1>10, <1>11 DEF WorkOK, DoneBefore, Installed, Holding
<1>13. TypeOK'
  BY <1>1, <1>2, <1>9 DEF Inductive, TypeOK
<1>14. QED BY <1>9, <1>12, <1>13 DEF Inductive

LEMMA VerifyStep ==
  ASSUME Inductive, NEW s \in Setups, Verify(s)
  PROVE  Inductive'
<1>1. at[s].pc \in Holding /\ Installed /\ UNCHANGED fs /\ Finish(s, "PASS")
  BY DEF Verify, Inductive, WorkOK, Holding
<1>2. QED BY <1>1, FinishStep

LEMMA FailStep ==
  ASSUME Inductive, NEW s \in Setups, Fail(s)
  PROVE  Inductive'
<1>1. at[s].pc \in Holding /\ UNCHANGED fs /\ Finish(s, "FAIL")
  BY DEF Fail, Holding
<1>2. QED BY <1>1, FinishStep

LEMMA KillStep ==
  ASSUME Inductive, NEW s \in Setups, Kill(s)
  PROVE  Inductive'
<1>1. at[s].pc \in Holding /\ UNCHANGED <<fs, status>> /\ silent' = TRUE
  BY DEF Kill, Holding
<1>2. CASE at[s].pc = "end"
  <2>1. To(s, "orphan") /\ UNCHANGED lock
    BY <1>2 DEF Kill
  <2>2. PICK r \in [pc : {"idle", "wait"} \cup Holding, i : 1..8] :
          r.pc = "orphan" /\ r.i = at[s].i /\ at' = [at EXCEPT ![s] = r]
    BY <2>1, Labels DEF Holding
  <2>3. /\ LockOK' /\ PassMeansInstalled' /\ at'[s] = r
        /\ at' \in [Setups -> [pc : {"idle", "wait"} \cup Holding, i : 1..8]]
        /\ \A u \in Setups : u # s => at'[u].pc \notin Holding
    BY <1>1, <2>1, <2>2, HolderMoves DEF Holding
  <2>4. fs'[Target(s)'] \in {"partial", "ours"}
    BY <1>1, <1>2, <2>2, <2>3 DEF Target, Inductive, WorkOK
  <2>5. WorkOK'
    BY <1>1, <2>2, <2>3, <2>4 DEF WorkOK, Holding
  <2>6. TypeOK'
    BY <1>1, <2>1, <2>3 DEF Inductive, TypeOK
  <2>7. QED BY <2>3, <2>5, <2>6 DEF Inductive
<1>3. CASE at[s].pc # "end"
  <2>1. at' = [at EXCEPT ![s] = Idle] /\ lock' = None
    BY <1>3 DEF Kill
  <2>2. LockOK' /\ WorkOK' /\ at' \in [Setups -> [pc : {"idle", "wait"} \cup Holding, i : 1..8]]
    BY <1>1, <2>1, Leaves
  <2>3. TypeOK'
    BY <1>1, <2>1, <2>2 DEF Inductive, TypeOK
  <2>4. PassMeansInstalled'
    BY <1>1 DEF PassMeansInstalled
  <2>5. QED BY <2>2, <2>3, <2>4 DEF Inductive
<1>4. QED BY <1>2, <1>3

(* The command that outlived its setup leaves a status that nobody trusts. *)
LEMMA OrphanStep ==
  ASSUME Inductive, NEW s \in Setups, Orphan(s)
  PROVE  Inductive'
<1>1. /\ at[s].pc \in Holding /\ UNCHANGED <<status, silent>> /\ silent = TRUE
      /\ at' = [at EXCEPT ![s] = Idle] /\ lock' = None
  BY DEF Orphan, Holding, Inductive, WorkOK
<1>2. LockOK' /\ WorkOK' /\ at' \in [Setups -> [pc : {"idle", "wait"} \cup Holding, i : 1..8]]
  BY <1>1, Leaves
<1>3. fs' \in [Targets -> {"absent", "foreign", "partial", "ours"}]
  BY Makes DEF Orphan, Inductive, TypeOK
<1>4. TypeOK'
  BY <1>1, <1>2, <1>3 DEF Inductive, TypeOK
<1>5. PassMeansInstalled'
  BY <1>1 DEF PassMeansInstalled
<1>6. QED BY <1>2, <1>4, <1>5 DEF Inductive

LEMMA InductiveStep == Inductive /\ [Next]_vars => Inductive'
<1> SUFFICES ASSUME Inductive, [Next]_vars PROVE Inductive'
  OBVIOUS
<1>1. CASE UNCHANGED vars
  <2>1. TypeOK' /\ LockOK'
    BY <1>1 DEF vars, Inductive, TypeOK, LockOK
  <2>2. WorkOK' /\ PassMeansInstalled'
    BY <1>1 DEF vars, Inductive, WorkOK, DoneBefore, Target, Installed, PassMeansInstalled
  <2>3. QED BY <2>1, <2>2 DEF Inductive
<1>2. ASSUME NEW s \in Setups, Step(s) \/ Lock(s) \/ Reject(s) \/ Fail(s) \/ Kill(s)
      PROVE  Inductive'
  BY <1>2, LaunchStep, LookStep, BeginStep, EndStep, VerifyStep, OrphanStep, LockStep, RejectStep,
     FailStep, KillStep DEF Step
<1>3. QED BY <1>1, <1>2 DEF Next

LEMMA InductiveHolds == Spec => []Inductive
BY InductiveInit, InductiveStep, PTL DEF Spec

-----------------------------------------------------------------------------
(* bootstrap.json says PASS of a host on which all is installed, however   *)
(* many setups failed, were killed or rejected each other before it; until *)
(* a setup begins, and after one that was killed or could not write its    *)
(* status, until the next one that can.                                    *)
THEOREM PassesMeanInstalled == Spec => []PassMeansInstalled
<1>1. Inductive => PassMeansInstalled
  BY DEF Inductive
<1>2. QED BY <1>1, InductiveHolds, PTL

(* .setup.lock lets one setup work at a time, and the command of a killed  *)
(* setup counts as one: what setup installs has one writer.                *)
OneSetupWorks ==
  \A s, u \in Setups : at[s].pc \in Holding /\ at[u].pc \in Holding => s = u

(* By the inductive invariant's LockOK.                                    *)
THEOREM SetupsWorkOneAtATime == Spec => []OneSetupWorks
<1>1. Inductive => OneSetupWorks
  BY DEF Inductive, LockOK, OneSetupWorks
<1>2. QED BY <1>1, InductiveHolds, PTL

(* What is not the lab's is left alone: no setup, and no command of a      *)
(* setup that failed or was killed, changes a file or directory that lacks *)
(* the marker it is told by, if it was not the lab's to begin with.        *)
ForeignIsLeft == \A t \in Guarded : fs[t] = "foreign" => fs'[t] = "foreign"

LEMMA ForeignStep ==
  ASSUME Inductive, NEW s \in Setups, Step(s) \/ Lock(s) \/ Reject(s) \/ Fail(s) \/ Kill(s)
  PROVE  ForeignIsLeft
<1>1. CASE UNCHANGED fs
  BY <1>1 DEF ForeignIsLeft
<1>2. CASE fs' = Made(Target(s)) /\ at[s].pc \in {"end", "orphan"}
  <2>1. fs[Target(s)] \in {"partial", "ours"}
    BY <1>2 DEF Inductive, WorkOK
  <2>2. \A t \in Targets : t # Target(s) => fs'[t] = fs[t]
    BY <1>2, Makes
  <2>3. QED BY <2>1, <2>2 DEF ForeignIsLeft, Guarded
<1>3. CASE Begin(s) /\ fs' # fs
  <2>1. /\ ~(Target(s) \in Guarded \ Preflight /\ Refused(Target(s))) /\ at[s].pc = "begin"
        /\ fs' = [fs EXCEPT ![Target(s)] = "partial"]
    BY <1>3 DEF Begin
  <2>2. Target(s) \in Guarded => fs[Target(s)] # "foreign"
    BY <2>1 DEF Refused, Inductive, WorkOK
  <2>3. \A t \in Targets : t # Target(s) => fs'[t] = fs[t]
    BY <2>1 DEF Inductive, TypeOK
  <2>4. QED BY <2>2, <2>3 DEF ForeignIsLeft, Guarded
<1>4. QED
  BY <1>1, <1>2, <1>3 DEF Step, Launch, Look, End, Verify, Orphan, Lock, Reject, Fail, Kill

(* The look at the preflight, and the one before each target that is not   *)
(* among those, suffice, as no other setup works in between.               *)
THEOREM ForeignFilesAreLeft == Spec => [][ForeignIsLeft]_vars
<1>1. Inductive /\ [Next]_vars => [ForeignIsLeft]_vars
  BY ForeignStep DEF Next
<1>2. QED BY <1>1, InductiveHolds, PTL DEF Spec
=============================================================================
