------------------------- MODULE SandboxCallsProofs -------------------------
(***************************************************************************)
(* Theorems about SandboxCalls, for any callers and any number of calls,   *)
(* of failing commands and writes, and of deaths.                          *)
(***************************************************************************)
EXTENDS SandboxCalls, TLAPS

Ids    == 1..MaxCalls
Box    == [status : {"absent", "running", "stopped"}, born : 0..MaxCalls, inside : SUBSET Ids]
Caller == [pc : Labels, op : Ops, id : 0..MaxCalls, result : Codes, noted : BOOLEAN]
Answer == [id : Ids, op : Ops, code : Codes, noted : BOOLEAN]
Orphan == [id : Ids, do : {"run", "exec", "stop", "rm"}]

-----------------------------------------------------------------------------
(* The inductive invariant.                                                *)

(* TypeOK, with the variables that it says less of.                        *)
Shape ==
  /\ box \in Box /\ (box.status # "running" => box.inside = {})
  /\ events \in Seq(Lines) /\ torn \in BOOLEAN /\ replies \in Seq(Answer)
  /\ calls \in 0..MaxCalls /\ orphans \subseteq Orphan
  /\ at \in [Callers -> Caller]
  /\ \A c \in Callers : at[c].pc # "idle" <=> lock = {c}

(* The line of a success (SuccessIsLogged).                                *)
Logged(id) ==
  \E j \in DOMAIN events :
    /\ events[j].id = id
    /\ events[j].ok \/ (j > 1 /\ \A q \in Replies : q.id = events[j - 1].id => q.noted)

Ordered ==
  /\ \A i \in DOMAIN events : events[i].id <= calls
  /\ \A i, j \in DOMAIN events : i < j => events[i].id < events[j].id

(* The log and the numbers of the calls: nothing bears a number that was   *)
(* not given out; an orphan's call was never answered; the log is in the   *)
(* order of the calls; and the call that tore it had no answer, or one     *)
(* that told of it.                                                        *)
LogOK ==
  /\ Ordered
  /\ torn => events # <<>> /\ \A q \in Replies : q.id = events[Len(events)].id => q.noted

NumbersOK ==
  /\ \A r \in Replies : r.id <= calls
  /\ \A o \in orphans : o.id <= calls /\ \A r \in Replies : r.id # o.id
  /\ \A id \in box.inside : id <= calls
  /\ box.status # "absent" => box.born <= calls

(* A call that is under way has the last number, which nothing bears but a *)
(* command of its own, a container, or the line it wrote.  If it is about  *)
(* to be answered, its line is there, or its answer tells of that.  If it  *)
(* is to say that the container was stopped or removed, no answered call   *)
(* runs there; and if it was removed and one is there, an orphan made it.  *)
CallOK(c) ==
  at[c].pc # "idle" =>
    /\ at[c].id = calls /\ calls \in Ids
    /\ \A r \in Replies : r.id < calls
    /\ \A o \in orphans : o.id < calls
    /\ at[c].pc \in {"run", "record"} => at[c].op = "create"
    /\ at[c].pc \in {"exec", "executing", "stop"} => at[c].op = "execute"
    /\ at[c].pc \in {"rm", "verify"} => at[c].op = "destroy"
    /\ at[c].pc # "reply" => ~at[c].noted /\ \A i \in DOMAIN events : events[i].id < calls
    /\ at[c].pc = "reply" => /\ torn /\ events[Len(events)].id = calls => at[c].noted
                             /\ at[c].result = "OK" => Logged(calls)
    /\ at[c].pc \in {"event", "reply"} =>
         /\ \/ at[c].result = "LIMIT"
            \/ at[c].op = "destroy" /\ at[c].result \in {"OK", "EVENT_LOG_FAILED"}
            => calls \notin box.inside /\ \A q \in Replies : q.id \notin box.inside
         /\ /\ at[c].op = "destroy" /\ at[c].result \in {"OK", "EVENT_LOG_FAILED"}
            /\ box.status # "absent"
            => box.born # calls /\ \A q \in Replies : q.id # box.born

Inductive ==
  /\ Shape /\ LogOK /\ NumbersOK /\ \A c \in Callers : CallOK(c)
  /\ SuccessIsLogged /\ StoppedStaysStopped /\ RemovedStaysRemoved

LEMMA Bounds == MaxCalls \in Nat /\ MaxFaults \in Nat /\ MaxKills \in Nat
BY CallsAssumption

LEMMA ShapeIsType == Shape => TypeOK
<1> SUFFICES ASSUME Shape PROVE TypeOK
  OBVIOUS
<1>1. \A i \in DOMAIN events : events[i] \in Lines
  BY DEF Shape
<1>2. \A i \in DOMAIN replies : replies[i] \in Answer
  BY DEF Shape
<1>3. QED BY <1>1, <1>2 DEF Shape, TypeOK, Box, Caller, Answer, Ids

-----------------------------------------------------------------------------
(* What podman does to a container.                                        *)
LEMMA StoppedBox ==
  ASSUME Shape
  PROVE  /\ Stopped \in Box /\ Stopped.inside = {} /\ Stopped.status # "running"
         /\ Stopped.born = box.born /\ (Stopped.status # "absent" => box.status # "absent")
BY DEF Shape, Stopped, Box

LEMMA MadeBox ==
  ASSUME Shape, NEW id \in Ids
  PROVE  /\ Made(id) \in Box /\ Made(id).inside = box.inside
         /\ Made(id).status # "running" => Made(id).inside = {}
         /\ box.status = "absent" => Made(id).born = id /\ Made(id).inside = {}
         /\ box.status # "absent" => Made(id) = box
BY DEF Shape, Made, Box, Ids

LEMMA AbsentBox == Absent \in Box /\ Absent.status = "absent" /\ Absent.inside = {}
BY Bounds DEF Absent, Box, Ids

(* A reply is one more.                                                    *)
LEMMA RepliesGrow ==
  ASSUME Shape, NEW a \in Answer, replies' = Append(replies, a)
  PROVE  replies' \in Seq(Answer) /\ Replies' = Replies \cup {a}
<1>1. /\ replies \in Seq(Answer) /\ replies' \in Seq(Answer)
      /\ DOMAIN replies = 1..Len(replies) /\ DOMAIN replies' = 1..(Len(replies) + 1)
      /\ \A i \in 1..Len(replies) : replies'[i] = replies[i]
      /\ replies'[Len(replies) + 1] = a /\ Len(replies) \in Nat
  BY DEF Shape
<1>2. Replies' = {replies'[i] : i \in 1..(Len(replies) + 1)}
  BY <1>1 DEF Replies
<1>3. Replies = {replies[i] : i \in 1..Len(replies)}
  BY <1>1 DEF Replies
<1>4. QED BY <1>1, <1>2, <1>3

(* A line is one more, and the lines before it are as they were.           *)
LEMMA EventsGrow ==
  ASSUME Shape, NEW e \in Lines, events' = Append(events, e)
  PROVE  /\ events' \in Seq(Lines) /\ events' # <<>>
         /\ Len(events') = Len(events) + 1 /\ Len(events) \in Nat
         /\ DOMAIN events = 1..Len(events) /\ DOMAIN events' = 1..(Len(events) + 1)
         /\ \A i \in 1..Len(events) : events'[i] = events[i]
         /\ events'[Len(events) + 1] = e
BY DEF Shape

LEMMA InductiveInit == Init => Inductive
<1> SUFFICES ASSUME Init PROVE Inductive
  OBVIOUS
<1> USE DEF Init
<1>1. Idle \in Caller /\ Idle.pc = "idle"
  BY Bounds DEF Idle, Caller, Ops, Codes, Labels
<1>2. events \in Seq(Lines) /\ replies \in Seq(Answer)
  OBVIOUS
<1>3. Shape
  <2>1. at \in [Callers -> Caller] /\ \A c \in Callers : at[c].pc = "idle" /\ lock # {c}
    BY <1>1
  <2>2. box \in Box /\ box.inside = {} /\ calls \in 0..MaxCalls
    BY AbsentBox, Bounds
  <2>3. QED BY <1>2, <2>1, <2>2 DEF Shape
<1>4. Replies = {} /\ DOMAIN events = {}
  BY DEF Replies
<1>5. LogOK /\ NumbersOK /\ \A c \in Callers : CallOK(c)
  BY <1>1, <1>4, AbsentBox DEF LogOK, Ordered, NumbersOK, CallOK
<1>6. SuccessIsLogged /\ StoppedStaysStopped /\ RemovedStaysRemoved
  BY <1>4 DEF SuccessIsLogged, StoppedStaysStopped, RemovedStaysRemoved
<1>7. QED BY <1>3, <1>5, <1>6 DEF Inductive

-----------------------------------------------------------------------------
(* Steps inside a call.  The container's commands are those it had, or the *)
(* call's own; the container is the one that was there, or the call's.     *)
BoxAfter ==
  /\ box' \in Box /\ (box'.status # "running" => box'.inside = {})
  /\ \A id \in box'.inside : id \in box.inside \/ id = calls
  /\ box'.status # "absent" => \/ box.status # "absent" /\ box'.born = box.born
                               \/ box'.born = calls

LEMMA StepInside ==
  ASSUME Inductive, NEW c \in Callers, at[c].pc # "idle", NEW next \in Caller,
         at' = [at EXCEPT ![c] = next], next.pc # "idle", next.id = at[c].id,
         Record' = Record, BoxAfter, CallOK(c)'
  PROVE  Inductive'
<1> USE DEF Inductive
<1>1. /\ UNCHANGED <<events, torn, replies, calls, lock, orphans, kills>> /\ Replies' = Replies
      /\ at' \in [Callers -> Caller] /\ at'[c] = next
      /\ \A d \in Callers \ {c} : at'[d] = at[d] /\ at[d].pc = "idle"
  <2>1. UNCHANGED <<events, torn, replies, calls, lock, orphans, kills>>
    BY DEF Record
  <2>2. Replies' = Replies
    BY <2>1 DEF Replies
  <2>3. at' \in [Callers -> Caller] /\ at'[c] = next /\ \A d \in Callers \ {c} : at'[d] = at[d]
    BY DEF Shape
  <2>4. \A d \in Callers \ {c} : at[d].pc = "idle"
    BY DEF Shape
  <2>5. QED BY <2>1, <2>2, <2>3, <2>4
<1>2. Shape'
  BY <1>1 DEF Shape, BoxAfter
<1>3. /\ calls \in Ids /\ box \in Box /\ \A r \in Replies : r.id < calls
  BY DEF CallOK, Shape
<1>4. LogOK' /\ SuccessIsLogged'
  BY <1>1 DEF LogOK, Ordered, SuccessIsLogged
<1>5. NumbersOK'
  BY <1>1, <1>3 DEF NumbersOK, BoxAfter, Ids, Box
<1>6. ASSUME NEW d \in Callers PROVE CallOK(d)'
  BY <1>1 DEF CallOK
<1>7. StoppedStaysStopped'
  BY <1>1, <1>3 DEF StoppedStaysStopped, BoxAfter, Ids
<1>8. RemovedStaysRemoved'
  BY <1>1, <1>3 DEF RemovedStaysRemoved, BoxAfter, Ids, Box
<1>9. QED BY <1>2, <1>4, <1>5, <1>6, <1>7, <1>8

LEMMA GoStep ==
  ASSUME Inductive, NEW c \in Callers, at[c].pc # "idle", Record' = Record, BoxAfter,
         NEW label \in {"run", "record", "exec", "executing", "stop", "rm", "verify"},
         To(c, label), at[c].pc # "reply",
         label \in {"run", "record"} => at[c].op = "create",
         label \in {"exec", "executing", "stop"} => at[c].op = "execute",
         label \in {"rm", "verify"} => at[c].op = "destroy"
  PROVE  Inductive'
<1> DEFINE next == [at[c] EXCEPT !.pc = label]
<1>1. /\ next \in Caller /\ next.pc = label /\ next.id = at[c].id /\ next.op = at[c].op
      /\ next.noted = at[c].noted
  <2>1. at[c] \in Caller
    BY DEF Inductive, Shape
  <2>2. QED BY <2>1 DEF Caller, Labels
<1>2. at' = [at EXCEPT ![c] = next]
  BY DEF To
<1> HIDE DEF next
<1>3. at'[c] = next
  BY <1>2 DEF Inductive, Shape
<1>4. UNCHANGED <<events, calls, orphans>> /\ Replies' = Replies
  BY DEF Record, Replies
<1>5. CallOK(c)'
  BY <1>1, <1>3, <1>4 DEF CallOK, Inductive
<1>6. QED BY <1>1, <1>2, <1>5, StepInside

LEMMA ResultStep ==
  ASSUME Inductive, NEW c \in Callers, at[c].pc # "idle", Record' = Record, BoxAfter,
         NEW code \in Codes \ {"EVENT_LOG_FAILED"}, Result(c, code), at[c].pc # "reply",
         code = "LIMIT" => box'.inside = {},
         code = "OK" /\ at[c].op = "destroy" => box'.status = "absent"
  PROVE  Inductive'
<1> DEFINE next == [at[c] EXCEPT !.pc = "event", !.result = code]
<1>1. /\ next \in Caller /\ next.pc = "event" /\ next.id = at[c].id /\ next.op = at[c].op
      /\ next.result = code /\ next.noted = at[c].noted
  <2>1. at[c] \in Caller
    BY DEF Inductive, Shape
  <2>2. QED BY <2>1 DEF Caller, Labels
<1>2. at' = [at EXCEPT ![c] = next]
  BY DEF Result, Inductive, Shape
<1> HIDE DEF next
<1>3. at'[c] = next
  BY <1>2 DEF Inductive, Shape
<1>4. UNCHANGED <<events, calls, orphans>> /\ Replies' = Replies
  BY DEF Record, Replies
<1>5. CallOK(c)'
  BY <1>1, <1>3, <1>4 DEF CallOK, Inductive, BoxAfter
<1>6. QED BY <1>1, <1>2, <1>5, StepInside

LEMMA SameBox == Inductive /\ box' = box => BoxAfter
BY DEF BoxAfter, Inductive, Shape

LEMMA QueryStep ==
  ASSUME Inductive, NEW c \in Callers, Inspect(c) \/ SaveBox(c) \/ Verify(c)
  PROVE  Inductive'
<1>1. /\ at[c].pc \in {"inspect", "record", "verify"} /\ at[c].pc # "idle"
      /\ box' = box /\ Record' = Record /\ BoxAfter
  BY SameBox DEF Inspect, SaveBox, Verify
<1>2. ASSUME NEW code \in {"FAILED", "SANDBOX_STOPPED", "SANDBOX_NOT_RUNNING",
                          "CLEANUP_FAILED"}, Result(c, code)
      PROVE  Inductive'
  BY <1>1, <1>2, ResultStep DEF Codes
<1>3. ASSUME Result(c, "OK"), at[c].op # "destroy" \/ box.status = "absent"
      PROVE  Inductive'
  BY <1>1, <1>3, ResultStep DEF Codes
<1>4. ASSUME NEW label \in {"run", "exec", "rm", "verify"}, To(c, label),
             label = "run" => at[c].op = "create",
             label = "exec" => at[c].op = "execute",
             label \in {"rm", "verify"} => at[c].op = "destroy"
      PROVE  Inductive'
  BY <1>1, <1>4, GoStep
<1>5. CASE Inspect(c)
  <2>1. at[c].op \in Ops /\ box.status \in {"absent", "running", "stopped"}
    BY DEF Inductive, Shape, Caller, Box
  <2>2. QED BY <1>2, <1>3, <1>4, <1>5, <2>1 DEF Inspect, Ops
<1>6. CASE SaveBox(c)
  <2>1. at[c].op # "destroy"
    BY <1>6 DEF SaveBox, Inductive, CallOK
  <2>2. QED BY <1>2, <1>3, <1>6, <2>1 DEF SaveBox
<1>7. CASE Verify(c)
  BY <1>2, <1>3, <1>7 DEF Verify
<1>8. QED BY <1>5, <1>6, <1>7

LEMMA RunStep ==
  ASSUME Inductive, NEW c \in Callers, RunBox(c)
  PROVE  Inductive'
<1>1. /\ at[c].pc = "run" /\ at[c].id = calls /\ at[c].op = "create" /\ Record' = Record
      /\ calls \in Ids /\ Shape
  BY DEF RunBox, Inductive, CallOK
<1> DEFINE made == Made(calls)
<1>2. /\ made \in Box /\ made.inside = box.inside
      /\ made.status # "running" => made.inside = {}
      /\ box.status = "absent" => made.born = calls /\ made.inside = {}
      /\ box.status # "absent" => made = box
  BY <1>1, MadeBox
<1> HIDE DEF made
<1>3. CASE box' = made
  <2>1. BoxAfter
    BY <1>1, <1>2, <1>3 DEF BoxAfter
  <2>2. Result(c, "FAILED") \/ To(c, "record")
    BY DEF RunBox
  <2>3. QED BY <1>1, <2>1, <2>2, GoStep, ResultStep DEF Codes
<1>4. CASE box' = box /\ Result(c, "FAILED")
  BY <1>1, <1>4, SameBox, ResultStep DEF Codes
<1>5. CASE box' = [made EXCEPT !.status = "stopped"] /\ made # box /\ Result(c, "FAILED")
  <2>1. /\ box' \in Box /\ box'.inside = {} /\ box'.born = calls
    BY <1>2, <1>5 DEF Box
  <2>2. BoxAfter
    BY <2>1 DEF BoxAfter
  <2>3. QED BY <1>1, <1>5, <2>2, ResultStep DEF Codes
<1>6. QED BY <1>1, <1>3, <1>4, <1>5 DEF RunBox, made

LEMMA EnteredBox ==
  ASSUME Shape, NEW id \in Ids
  PROVE  /\ Entered(id) \in Box /\ Entered(id).status = box.status /\ Entered(id).born = box.born
         /\ Entered(id).status # "running" => Entered(id).inside = {}
         /\ Entered(id).inside \subseteq box.inside \cup {id}
<1>1. CASE box.status = "running"
  BY <1>1 DEF Shape, Entered, Box
<1>2. CASE box.status # "running"
  BY <1>2 DEF Shape, Entered
<1>3. QED BY <1>1, <1>2

LEMMA ExecuteStep ==
  ASSUME Inductive, NEW c \in Callers, Exec(c) \/ ExecEnds(c) \/ StopBox(c)
  PROVE  Inductive'
<1>1. /\ at[c].pc \in {"exec", "executing", "stop"} /\ at[c].id = calls
      /\ at[c].op = "execute" /\ calls \in Ids /\ Shape /\ Record' = Record
  BY DEF Exec, ExecEnds, StopBox, Inductive, CallOK
<1>2. CASE Exec(c)
  <2>1. box' = Entered(calls) /\ To(c, "executing")
    BY <1>1, <1>2 DEF Exec
  <2>2. BoxAfter
    BY <1>1, <2>1, EnteredBox DEF BoxAfter
  <2>3. QED BY <1>1, <2>1, <2>2, GoStep
<1>3. CASE ExecEnds(c)
  <2>1. box' = box /\ BoxAfter
    BY <1>3, SameBox DEF ExecEnds
  <2>2. CASE To(c, "stop")
    BY <1>1, <2>1, <2>2, GoStep
  <2>3. CASE \E code \in {"OK", "FAILED"} : Result(c, code)
    BY <1>1, <2>1, <2>3, ResultStep DEF Codes
  <2>4. QED BY <1>3, <2>2, <2>3 DEF ExecEnds, Returned
<1>4. CASE StopBox(c)
  <2>1. CASE box' = Stopped
    <3>1. BoxAfter /\ box'.inside = {}
      BY <1>1, <2>1, StoppedBox DEF BoxAfter
    <3>2. Result(c, "LIMIT") \/ Result(c, "LIMIT_NOT_STOPPED")
      BY <1>4 DEF StopBox
    <3>3. QED BY <1>1, <3>1, <3>2, ResultStep DEF Codes
  <2>2. CASE box' = box /\ Result(c, "LIMIT_NOT_STOPPED")
    BY <1>1, <2>2, SameBox, ResultStep DEF Codes
  <2>3. QED BY <1>4, <2>1, <2>2 DEF StopBox
<1>5. QED BY <1>2, <1>3, <1>4

LEMMA RemoveStep ==
  ASSUME Inductive, NEW c \in Callers, RemoveBox(c)
  PROVE  Inductive'
<1>1. at[c].pc = "rm" /\ at[c].op = "destroy" /\ Record' = Record
  BY DEF RemoveBox, Inductive, CallOK
<1>2. BoxAfter
  BY <1>1, SameBox, AbsentBox DEF RemoveBox, BoxAfter
<1>3. To(c, "verify") \/ Result(c, "FAILED")
  BY DEF RemoveBox
<1>4. QED BY <1>1, <1>2, <1>3, GoStep, ResultStep DEF Codes

-----------------------------------------------------------------------------
(* Steps of no caller: a command's end, the container's own stop, and what *)
(* a client does whose labctl was killed.  A command or a container that   *)
(* comes to be is a dead call's.                                           *)
LEMMA EnvironmentStep ==
  ASSUME Inductive, CommandEnds \/ BoxStops \/ OrphanActs
  PROVE  Inductive'
<1> USE DEF Inductive
<1>1. /\ UNCHANGED <<events, torn, replies, calls, at, lock>> /\ orphans' \subseteq orphans
      /\ Shape /\ NumbersOK
  BY DEF CommandEnds, BoxStops, OrphanActs, Record
<1>2. Replies' = Replies
  BY <1>1 DEF Replies
<1>3. /\ box' \in Box /\ \A id \in box'.inside : id \in box.inside \/ \E o \in orphans : id = o.id
      /\ box'.status # "running" => box'.inside = {}
      /\ box'.status # "absent" =>
           \/ box.status # "absent" /\ box'.born = box.born
           \/ \E o \in orphans : box'.born = o.id
  <2>1. CASE CommandEnds
    <3>1. PICK id \in box.inside : box' = [box EXCEPT !.inside = box.inside \ {id}]
      BY <2>1 DEF CommandEnds
    <3>2. QED BY <1>1, <3>1 DEF Shape, Box
  <2>2. CASE box' = Stopped
    BY <1>1, <2>2, StoppedBox
  <2>3. CASE OrphanActs
    <3>1. PICK o \in orphans : box' \in {box, Effect(o.do, o.id)}
      BY <2>3 DEF OrphanActs
    <3>2. o.id \in Ids /\ o.do \in {"run", "exec", "stop", "rm"}
      BY <1>1 DEF Shape, Orphan
    <3>3. CASE box' = box
      BY <1>1, <3>3 DEF Shape
    <3>4. CASE box' = Made(o.id)
      BY <1>1, <3>2, <3>4, MadeBox DEF Shape
    <3>5. CASE box' = Absent
      BY <3>5, AbsentBox
    <3>6. CASE box' = Entered(o.id)
      BY <1>1, <3>2, <3>6, EnteredBox DEF Shape
    <3>7. \/ box' = box \/ box' = Made(o.id) \/ box' = Stopped \/ box' = Absent
          \/ box' = Entered(o.id)
      BY <3>1, <3>2 DEF Effect
    <3>8. QED BY <2>2, <3>3, <3>4, <3>5, <3>6, <3>7
  <2>4. QED BY <2>1, <2>2, <2>3 DEF BoxStops
<1>4. Shape'
  BY <1>1, <1>3 DEF Shape
<1>5. LogOK' /\ SuccessIsLogged'
  BY <1>1, <1>2 DEF LogOK, Ordered, SuccessIsLogged
<1>6. NumbersOK'
  BY <1>1, <1>2, <1>3 DEF NumbersOK
<1>7. ASSUME NEW c \in Callers PROVE CallOK(c)'
  <2>1. CASE at[c].pc = "idle"
    BY <1>1, <2>1 DEF CallOK
  <2>2. CASE at[c].pc # "idle"
    <3>1. CallOK(c) /\ at'[c] = at[c] /\ calls' = calls /\ calls \in Ids
      BY <1>1, <2>2 DEF CallOK
    <3>2. \A o \in orphans : o.id < calls /\ \A r \in Replies : r.id # o.id
      BY <3>1, <1>1, <2>2 DEF CallOK, NumbersOK
    <3>3. \A o \in orphans : o.id # calls
      BY <3>1, <3>2, <1>1, Bounds DEF Shape, Orphan, Ids
    <3>4. Logged(calls)' = Logged(calls)
      BY <1>1, <1>2 DEF Logged
    <3>5. QED BY <1>1, <1>2, <1>3, <2>2, <3>1, <3>2, <3>3, <3>4 DEF CallOK
  <2>3. QED BY <2>1, <2>2
<1>8. StoppedStaysStopped'
  BY <1>1, <1>2, <1>3 DEF StoppedStaysStopped, NumbersOK
<1>9. RemovedStaysRemoved'
  BY <1>1, <1>2, <1>3 DEF RemovedStaysRemoved, NumbersOK
<1>10. QED BY <1>4, <1>5, <1>6, <1>7, <1>8, <1>9

-----------------------------------------------------------------------------
(* A call begins: its number is new.                                       *)
LEMMA CallStep ==
  ASSUME Inductive, NEW c \in Callers, Call(c)
  PROVE  Inductive'
<1> USE DEF Inductive
<1>1. /\ lock = {} /\ lock' = {c} /\ calls' = calls + 1 /\ calls' \in Ids /\ calls \in Nat
      /\ UNCHANGED <<box, events, torn, replies, orphans>> /\ Shape
  BY Bounds DEF Call, Shape, Ids
<1>2. PICK op \in Ops :
         at' = [at EXCEPT ![c] = [pc |-> "inspect", op |-> op, id |-> calls', result |-> "NONE",
                   noted |-> FALSE]]
  BY DEF Call
<1> DEFINE next == [pc |-> "inspect", op |-> op, id |-> calls', result |-> "NONE",
                   noted |-> FALSE]
<1>3. /\ next \in Caller /\ next.pc = "inspect" /\ next.id = calls' /\ next.noted = FALSE
  BY <1>1 DEF Caller, Codes, Labels, Ids
<1>4. at' = [at EXCEPT ![c] = next]
  BY <1>2
<1> HIDE DEF next
<1>5. /\ at' \in [Callers -> Caller] /\ at'[c] = next
      /\ \A d \in Callers \ {c} : at'[d].pc = "idle" /\ lock' # {d}
  BY <1>1, <1>3, <1>4 DEF Shape
<1>6. Replies' = Replies
  BY <1>1 DEF Replies
<1>7. Shape'
  <2>1. \A d \in Callers : at'[d].pc # "idle" <=> lock' = {d}
    BY <1>1, <1>3, <1>5
  <2>2. calls' \in 0..MaxCalls
    BY <1>1, Bounds DEF Ids
  <2>3. QED BY <1>1, <1>5, <2>1, <2>2 DEF Shape
<1>8. LogOK' /\ SuccessIsLogged' /\ \A i \in DOMAIN events : events[i].id < calls'
  <2>1. \A i \in DOMAIN events : events[i].id \in Nat /\ events[i].id <= calls
    <3>1. \A i \in DOMAIN events : events[i] \in Lines
      BY <1>1 DEF Shape
    <3>2. QED BY <3>1, Bounds DEF LogOK, Ordered, Lines
  <2>2. QED BY <1>1, <1>6, <2>1 DEF LogOK, Ordered, SuccessIsLogged
<1>9. NumbersOK' /\ (\A r \in Replies : r.id < calls') /\ (\A o \in orphans : o.id < calls')
  <2>1. \A r \in Replies : r.id \in Nat /\ r.id <= calls
    <3>1. \A r \in Replies : r \in Answer
      BY <1>1 DEF Shape, Replies
    <3>2. QED BY <3>1, Bounds DEF NumbersOK, Answer, Ids
  <2>2. \A o \in orphans : o.id \in Nat /\ o.id <= calls
    BY <1>1, Bounds DEF NumbersOK, Shape, Orphan, Ids
  <2>3. box.born \in Nat /\ box.inside \subseteq Nat
    BY <1>1, Bounds DEF Shape, Box, Ids
  <2>4. QED BY <1>1, <1>6, <2>1, <2>2, <2>3 DEF NumbersOK
<1>10. CallOK(c)'
  <2>1. \A i \in DOMAIN events' : events'[i].id < calls'
    BY <1>1, <1>8
  <2>2. (\A r \in Replies' : r.id < calls') /\ (\A o \in orphans' : o.id < calls')
    BY <1>1, <1>6, <1>9
  <2>3. QED BY <1>1, <1>3, <1>5, <2>1, <2>2 DEF CallOK
<1>11. \A d \in Callers : CallOK(d)'
  BY <1>5, <1>10 DEF CallOK
<1>12. StoppedStaysStopped' /\ RemovedStaysRemoved'
  BY <1>1, <1>6 DEF StoppedStaysStopped, RemovedStaysRemoved
<1>13. QED BY <1>7, <1>8, <1>9, <1>11, <1>12

-----------------------------------------------------------------------------
LEMMA LoggedForm ==
  /\ SuccessIsLogged => \A r \in Replies : r.code = "OK" => Logged(r.id)
  /\ Ordered' /\ (\A r \in Replies' : r.code = "OK" => Logged(r.id)') => SuccessIsLogged'
BY DEF SuccessIsLogged, Logged, Ordered

(* A line that is appended whole can be read, unless the one before has no *)
(* end.                                                                    *)
LEMMA LineForm ==
  ASSUME torn \in BOOLEAN, NEW id, AppendEvent(id)
  PROVE  /\ \E ok \in BOOLEAN : events' = Append(events, [id |-> id, ok |-> ok]) /\ (ok \/ torn)
         /\ torn' = FALSE
<1>1. CASE torn
  <2>1. (~torn) = FALSE
    BY <1>1
  <2>2. QED BY <1>1, <2>1 DEF AppendEvent
<1>2. CASE ~torn
  <2>1. (~torn) = TRUE
    BY <1>2
  <2>2. QED BY <1>2, <2>1 DEF AppendEvent
<1>3. QED BY <1>1, <1>2

(* One more line, of the call under way, leaves the log in order and the   *)
(* lines of earlier successes where they are.                              *)
LEMMA LineStep ==
  ASSUME Inductive, NEW c \in Callers, at[c].pc = "event", NEW ok \in BOOLEAN,
         events' = Append(events, [id |-> calls, ok |-> ok]), UNCHANGED <<calls, replies>>
  PROVE  /\ events' \in Seq(Lines) /\ events' # <<>>
         /\ Len(events') = Len(events) + 1 /\ Len(events) \in Nat
         /\ DOMAIN events = 1..Len(events) /\ DOMAIN events' = 1..(Len(events) + 1)
         /\ \A i \in 1..Len(events) : events'[i] = events[i]
         /\ events'[Len(events) + 1] = [id |-> calls, ok |-> ok]
         /\ Ordered' /\ Replies' = Replies /\ \A r \in Replies' : r.code = "OK" => Logged(r.id)'
<1> DEFINE e == [id |-> calls, ok |-> ok]
<1>1. /\ e \in Lines /\ e.id = calls /\ Shape /\ calls \in Ids
      /\ \A i \in DOMAIN events : events[i].id < calls
  BY DEF Lines, Inductive, CallOK, Ids
<1>2. events' = Append(events, e) /\ Replies' = Replies
  BY DEF Replies
<1> HIDE DEF e
<1>3. /\ events' \in Seq(Lines) /\ events' # <<>>
      /\ Len(events') = Len(events) + 1 /\ Len(events) \in Nat
      /\ DOMAIN events = 1..Len(events) /\ DOMAIN events' = 1..(Len(events) + 1)
      /\ \A i \in 1..Len(events) : events'[i] = events[i]
      /\ events'[Len(events) + 1] = e
  BY <1>1, <1>2, EventsGrow
<1>4. Ordered'
  BY <1>1, <1>3, Bounds DEF Ordered, Inductive, LogOK, Ids
<1>5. ASSUME NEW r \in Replies, r.code = "OK" PROVE Logged(r.id)'
  <2>1. PICK j \in DOMAIN events :
          /\ events[j].id = r.id
          /\ events[j].ok \/ (j > 1 /\ \A q \in Replies : q.id = events[j - 1].id => q.noted)
    BY <1>5, LoggedForm DEF Inductive, Logged
  <2>2. j \in DOMAIN events' /\ events'[j] = events[j]
    BY <1>3
  <2>3. j > 1 => events'[j - 1] = events[j - 1]
    BY <1>3
  <2>4. QED BY <1>2, <2>1, <2>2, <2>3 DEF Logged
<1>6. QED BY <1>2, <1>3, <1>4, <1>5 DEF e

(* A write that is not cut off logs its call; one that is leaves the log   *)
(* as it should be, since nobody has had an answer for it.                 *)
LEMMA WriteStep ==
  ASSUME Inductive, NEW c \in Callers, at[c].pc = "event", CutEvent(calls),
         UNCHANGED <<calls, replies>>
  PROVE  /\ events' \in Seq(Lines) /\ torn' \in BOOLEAN /\ LogOK' /\ SuccessIsLogged'
         /\ AppendEvent(calls) => torn' = FALSE /\ Logged(calls)'
<1> USE DEF Inductive
<1>1. /\ Shape /\ LogOK /\ calls \in Ids /\ \A q \in Replies : q.id < calls
      /\ Replies' = Replies
  BY DEF CallOK, Replies
<1>2. CASE UNCHANGED <<events, torn>> /\ ~AppendEvent(calls)
  BY <1>1, <1>2 DEF Shape, LogOK, Ordered, SuccessIsLogged
<1>3. CASE events' = Append(events, [id |-> calls, ok |-> FALSE]) /\ torn' = TRUE
  <2>1. /\ events' \in Seq(Lines) /\ events' # <<>> /\ Len(events') = Len(events) + 1
        /\ events'[Len(events) + 1].id = calls /\ Ordered'
        /\ \A r \in Replies' : r.code = "OK" => Logged(r.id)'
    <3>1. PICK ok \in BOOLEAN : events' = Append(events, [id |-> calls, ok |-> ok])
      BY <1>3
    <3>2. QED BY <3>1, LineStep
  <2>2. \A q \in Replies' : q.id # events'[Len(events')].id
    BY <1>1, <2>1, Bounds DEF Ids
  <2>3. ~AppendEvent(calls)
    BY <1>3 DEF AppendEvent
  <2>4. QED BY <1>3, <2>1, <2>2, <2>3, LoggedForm DEF LogOK
<1>4. CASE AppendEvent(calls)
  <2>1. PICK ok \in BOOLEAN :
          events' = Append(events, [id |-> calls, ok |-> ok]) /\ (ok \/ torn)
    BY <1>1, <1>4, LineForm DEF Shape
  <2>2. torn' = FALSE
    BY <1>4 DEF AppendEvent
  <2>3. /\ events' \in Seq(Lines) /\ Len(events) \in Nat
        /\ DOMAIN events = 1..Len(events) /\ DOMAIN events' = 1..(Len(events) + 1)
        /\ \A i \in 1..Len(events) : events'[i] = events[i]
        /\ events'[Len(events) + 1] = [id |-> calls, ok |-> ok]
        /\ Ordered' /\ \A r \in Replies' : r.code = "OK" => Logged(r.id)'
    BY <2>1, LineStep
  <2>4. Logged(calls)'
    <3>1. CASE ok
      BY <2>3, <3>1 DEF Logged
    <3>2. CASE torn
      <4>1. events # <<>> /\ \A q \in Replies : q.id = events[Len(events)].id => q.noted
        BY <3>2 DEF LogOK
      <4>2. Len(events) > 0 /\ events'[Len(events)] = events[Len(events)]
        BY <1>1, <2>3, <4>1 DEF Shape
      <4>3. /\ Len(events) + 1 > 1 /\ (Len(events) + 1) - 1 = Len(events)
            /\ \A q \in Replies' : q.id = events'[Len(events)].id => q.noted
        BY <1>1, <2>3, <4>1, <4>2
      <4>4. Len(events) + 1 \in DOMAIN events' /\ events'[Len(events) + 1].id = calls
        BY <2>3
      <4>5. QED BY <4>3, <4>4 DEF Logged
    <3>3. QED BY <2>1, <3>1, <3>2
  <2>5. QED BY <2>2, <2>3, <2>4, LoggedForm DEF LogOK
<1>5. QED BY <1>2, <1>3, <1>4 DEF CutEvent

(* The event of a call, or the news that it was lost.                      *)
LEMMA EventStep ==
  ASSUME Inductive, NEW c \in Callers, Event(c)
  PROVE  Inductive'
<1> USE DEF Inductive
<1>1. /\ at[c].pc = "event" /\ at[c] \in Caller /\ at[c].id = calls /\ calls \in Ids /\ Shape
      /\ CallOK(c) /\ at[c].noted = FALSE /\ UNCHANGED <<box, replies, calls, lock, orphans>>
  <2>1. at[c].pc = "event" /\ at[c] \in Caller /\ Shape /\ CallOK(c)
    BY DEF Event, Shape
  <2>2. ~at[c].noted /\ at[c].id = calls /\ calls \in Ids
    BY <2>1 DEF CallOK
  <2>3. at[c].noted \in BOOLEAN
    BY <2>1 DEF Caller
  <2>4. QED BY <2>1, <2>2, <2>3 DEF Event
<1>2. Replies' = Replies
  BY <1>1 DEF Replies
<1>3. PICK next \in Caller :
        /\ at' = [at EXCEPT ![c] = next] /\ next.pc = "reply" /\ next.id = calls
        /\ next.op = at[c].op
        /\ next.result = "LIMIT" => at[c].result = "LIMIT"
        /\ next.result \in {"OK", "EVENT_LOG_FAILED"} =>
             at[c].result \in {"OK", "EVENT_LOG_FAILED"}
        /\ CutEvent(calls)
        /\ \/ AppendEvent(calls)
           \/ next.noted /\ next.result # "OK"
  <2>1. CASE AppendEvent(calls) /\ To(c, "reply")
    <3> DEFINE next == [at[c] EXCEPT !.pc = "reply"]
    <3>1. /\ next \in Caller /\ next.pc = "reply" /\ next.id = calls /\ next.op = at[c].op
          /\ next.result = at[c].result
      BY <1>1 DEF Caller, Labels
    <3>2. at' = [at EXCEPT ![c] = next] /\ CutEvent(calls)
      BY <1>1, <2>1 DEF To, CutEvent
    <3> HIDE DEF next
    <3>3. QED BY <2>1, <3>1, <3>2
  <2>2. CASE /\ CutEvent(calls)
             /\ at' = [at EXCEPT ![c].pc = "reply", ![c].noted = TRUE,
                         ![c].result = IF @ = "OK" THEN "EVENT_LOG_FAILED" ELSE @]
    <3> DEFINE code == IF at[c].result = "OK" THEN "EVENT_LOG_FAILED" ELSE at[c].result
               next == [at[c] EXCEPT !.pc = "reply", !.noted = TRUE, !.result = code]
    <3>1. /\ code \in Codes /\ code # "OK" /\ (code = "LIMIT" => at[c].result = "LIMIT")
          /\ code = "EVENT_LOG_FAILED" => at[c].result \in {"OK", "EVENT_LOG_FAILED"}
      BY <1>1 DEF Caller, Codes
    <3>2. at' = [at EXCEPT ![c] = next]
      BY <1>1, <2>2 DEF Shape
    <3> HIDE DEF code
    <3>3. /\ next \in Caller /\ next.pc = "reply" /\ next.id = calls /\ next.op = at[c].op
          /\ next.result = code /\ next.noted
      BY <1>1, <3>1 DEF Caller, Labels
    <3> HIDE DEF next
    <3>4. QED BY <2>2, <3>1, <3>2, <3>3
  <2>3. QED BY <1>1, <2>1, <2>2 DEF Event
<1>4. /\ events' \in Seq(Lines) /\ torn' \in BOOLEAN /\ LogOK' /\ SuccessIsLogged'
      /\ AppendEvent(calls) => torn' = FALSE /\ Logged(calls)'
  BY <1>1, <1>3, WriteStep
<1>5. /\ at' \in [Callers -> Caller] /\ at'[c] = next
      /\ \A d \in Callers \ {c} : at'[d].pc = "idle"
  BY <1>1, <1>3 DEF Shape
<1>6. Shape'
  BY <1>1, <1>3, <1>4, <1>5 DEF Shape
<1>7. CallOK(c)'
  BY <1>1, <1>2, <1>3, <1>4, <1>5 DEF CallOK
<1>8. \A d \in Callers : CallOK(d)'
  BY <1>5, <1>7 DEF CallOK
<1>9. NumbersOK' /\ StoppedStaysStopped' /\ RemovedStaysRemoved'
  BY <1>1, <1>2 DEF NumbersOK, StoppedStaysStopped, RemovedStaysRemoved
<1>10. QED BY <1>4, <1>6, <1>8, <1>9

(* The end of a call, answered or killed.                                  *)
Ended(c) == at' = [at EXCEPT ![c] = Idle] /\ lock' = {} /\ calls' = calls /\ box' = box

LEMMA EndedStep ==
  ASSUME Inductive, NEW c \in Callers, at[c].pc # "idle", Ended(c)
  PROVE  /\ at' \in [Callers -> Caller] /\ \A d \in Callers : at'[d].pc # "idle" <=> lock' = {d}
         /\ \A d \in Callers : CallOK(d)'
<1>1. Idle \in Caller /\ Idle.pc = "idle"
  BY Bounds DEF Idle, Caller, Ops, Codes, Labels
<1>2. /\ at' \in [Callers -> Caller] /\ \A d \in Callers : at'[d].pc = "idle"
  <2>1. at \in [Callers -> Caller] /\ \A d \in Callers \ {c} : at[d].pc = "idle"
    BY DEF Inductive, Shape
  <2>2. QED BY <1>1, <2>1 DEF Ended
<1>3. QED BY <1>2 DEF Ended, CallOK

(* A reply.  What was told before keeps: no earlier call bears the number  *)
(* of this one, and neither does a container that an orphan made.          *)
LEMMA ReplyStep ==
  ASSUME Inductive, NEW c \in Callers, Reply(c)
  PROVE  Inductive'
<1> USE DEF Inductive
<1>1. /\ at[c].pc = "reply" /\ at[c].pc # "idle" /\ at[c] \in Caller /\ at[c].id = calls
      /\ calls \in Ids /\ Shape /\ CallOK(c) /\ LogOK
      /\ UNCHANGED <<box, events, torn, calls, orphans>> /\ Ended(c)
  BY DEF Reply, CallOK, Shape, Ended
<1>2. PICK a \in Answer : /\ replies' = Append(replies, a) /\ a.id = calls /\ a.op = at[c].op
                          /\ a.code = at[c].result /\ a.noted = at[c].noted
  <2>1. [id |-> calls, op |-> at[c].op, code |-> at[c].result, noted |-> at[c].noted] \in Answer
    BY <1>1 DEF Answer, Caller
  <2>2. QED BY <1>1, <2>1 DEF Reply
<1>3. replies' \in Seq(Answer) /\ Replies' = Replies \cup {a}
  BY <1>1, <1>2, RepliesGrow
<1>4. /\ at' \in [Callers -> Caller] /\ \A d \in Callers : at'[d].pc # "idle" <=> lock' = {d}
      /\ \A d \in Callers : CallOK(d)'
  BY <1>1, EndedStep
<1>5. Shape'
  BY <1>1, <1>3, <1>4 DEF Shape
<1>6. /\ \A r \in Replies : r \in Answer /\ r.id < calls
      /\ \A i \in DOMAIN events : events[i] \in Lines
      /\ DOMAIN events = 1..Len(events) /\ Len(events) \in Nat
  BY <1>1 DEF CallOK, Shape, Replies
<1>7. ASSUME NEW id \in Ids, Logged(id), id <= calls
      PROVE  Logged(id)'
  <2>1. PICK j \in DOMAIN events :
          /\ events[j].id = id
          /\ events[j].ok \/ (j > 1 /\ \A q \in Replies : q.id = events[j - 1].id => q.noted)
    BY <1>7 DEF Logged
  <2>2. CASE j > 1
    <3>1. j - 1 \in DOMAIN events /\ j - 1 < j
      BY <1>6, <2>1, <2>2
    <3>2. events[j - 1].id < events[j].id
      BY <1>1, <3>1, <2>1 DEF LogOK, Ordered
    <3>3. events[j - 1].id # calls
      BY <1>6, <1>7, <2>1, <3>1, <3>2, Bounds DEF Lines, Ids
    <3>4. QED BY <1>1, <1>2, <1>3, <2>1, <3>3 DEF Logged
  <2>3. CASE ~(j > 1)
    BY <1>1, <2>1, <2>3 DEF Logged
  <2>4. QED BY <2>2, <2>3
<1>8. \A r \in Replies' : r.code = "OK" => Logged(r.id)'
  <2>1. \A r \in Replies : r.code = "OK" => Logged(r.id) /\ r.id \in Ids /\ r.id <= calls
    BY <1>6, LoggedForm DEF Answer, NumbersOK
  <2>2. a.code = "OK" => Logged(calls)
    BY <1>1, <1>2 DEF CallOK
  <2>3. calls <= calls
    BY <1>1, Bounds DEF Ids
  <2>4. QED BY <1>1, <1>2, <1>3, <1>7, <2>1, <2>2, <2>3
<1>9. LogOK' /\ SuccessIsLogged'
  <2>1. Ordered'
    BY <1>1 DEF LogOK, Ordered
  <2>2. torn /\ events[Len(events)].id = calls => a.noted
    BY <1>1, <1>2 DEF CallOK
  <2>3. QED BY <1>1, <1>2, <1>3, <1>8, <2>1, <2>2, LoggedForm DEF LogOK
<1>10. \A o \in orphans : o.id # calls
  BY <1>1, Bounds DEF CallOK, Shape, Orphan, Ids
<1>11. NumbersOK'
  BY <1>1, <1>2, <1>3, <1>10, Bounds DEF NumbersOK, Ids
<1>12. StoppedStaysStopped'
  <2>1. ASSUME NEW r \in Replies', NEW q \in Replies', Over(r), q.id \in box.inside
        PROVE  q.id > r.id
    <3>1. CASE r = a
      BY <1>1, <1>2, <1>3, <2>1, <3>1 DEF CallOK, Over
    <3>2. CASE r \in Replies /\ q = a
      BY <1>2, <1>6, <3>2, Bounds DEF Answer, Ids
    <3>3. CASE r \in Replies /\ q \in Replies
      BY <2>1, <3>3 DEF StoppedStaysStopped
    <3>4. QED BY <1>3, <3>1, <3>2, <3>3
  <2>2. QED BY <1>1, <2>1 DEF StoppedStaysStopped, Over
<1>13. RemovedStaysRemoved'
  <2>1. ASSUME NEW r \in Replies', r.op = "destroy", r.code \in {"OK", "EVENT_LOG_FAILED"},
               box.status # "absent"
        PROVE  box.born > r.id \/ \A q \in Replies' : q.id # box.born
    <3>1. CASE r = a
      BY <1>1, <1>2, <1>3, <2>1, <3>1 DEF CallOK
    <3>2. CASE r \in Replies
      BY <1>1, <1>2, <1>3, <1>6, <2>1, <3>2, Bounds DEF RemovedStaysRemoved, Ids, Answer
    <3>3. QED BY <1>3, <3>1, <3>2
  <2>2. QED BY <1>1, <2>1 DEF RemovedStaysRemoved
<1>14. QED BY <1>4, <1>5, <1>9, <1>11, <1>12, <1>13

(* A death: nothing is told, and a client may be left, or a part of a line. *)
LEMMA KillStep ==
  ASSUME Inductive, NEW c \in Callers, Kill(c)
  PROVE  Inductive'
<1> USE DEF Inductive
<1>1. /\ at[c].pc # "idle" /\ at[c].id = calls /\ calls \in Ids /\ Shape /\ CallOK(c)
      /\ UNCHANGED <<box, replies, calls>> /\ Ended(c)
  BY DEF Kill, CallOK, Ended
<1>2. Replies' = Replies
  BY <1>1 DEF Replies
<1>3. /\ at' \in [Callers -> Caller] /\ \A d \in Callers : at'[d].pc # "idle" <=> lock' = {d}
      /\ \A d \in Callers : CallOK(d)'
  BY <1>1, EndedStep
<1>4. /\ orphans' \subseteq Orphan
      /\ \A o \in orphans' : o \in orphans \/ o.id = calls
  <2>1. CASE UNCHANGED orphans
    BY <1>1, <2>1 DEF Shape
  <2>2. CASE /\ at[c].pc \in {"run", "exec", "stop", "rm"}
             /\ orphans' = orphans \cup {[id |-> calls, do |-> at[c].pc]}
    BY <1>1, <2>2 DEF Shape, Orphan
  <2>3. QED BY <1>1, <2>1, <2>2 DEF Kill
<1>5. events' \in Seq(Lines) /\ torn' \in BOOLEAN /\ LogOK' /\ SuccessIsLogged'
  <2>1. CASE UNCHANGED <<events, torn>>
    BY <1>1, <1>2, <2>1 DEF Shape, LogOK, Ordered, SuccessIsLogged
  <2>2. CASE at[c].pc = "event" /\ CutEvent(calls)
    BY <1>1, <2>2, WriteStep
  <2>3. QED BY <1>1, <2>1, <2>2 DEF Kill
<1>6. Shape'
  BY <1>1, <1>3, <1>4, <1>5 DEF Shape
<1>7. NumbersOK'
  BY <1>1, <1>2, <1>4, Bounds DEF NumbersOK, CallOK, Ids
<1>8. StoppedStaysStopped' /\ RemovedStaysRemoved'
  BY <1>1, <1>2 DEF StoppedStaysStopped, RemovedStaysRemoved
<1>9. QED BY <1>3, <1>5, <1>6, <1>7, <1>8

LEMMA InductiveStep == Inductive /\ [Next]_vars => Inductive'
<1> SUFFICES ASSUME Inductive, [Next]_vars PROVE Inductive'
  OBVIOUS
<1>1. CASE UNCHANGED vars
  <2>1. Replies' = Replies
    BY <1>1 DEF vars, Replies
  <2>2. QED BY <1>1, <2>1 DEF vars, Inductive, Shape, LogOK, Ordered, Logged, NumbersOK, CallOK,
               SuccessIsLogged, StoppedStaysStopped, RemovedStaysRemoved
<1>2. ASSUME NEW c \in Callers, Call(c) \/ Step(c) \/ Kill(c)
      PROVE  Inductive'
  BY <1>2, CallStep, QueryStep, RunStep, ExecuteStep, RemoveStep, EventStep, ReplyStep,
     KillStep DEF Step
<1>3. CASE CommandEnds \/ BoxStops \/ OrphanActs
  BY <1>3, EnvironmentStep
<1>4. QED BY <1>1, <1>2, <1>3 DEF Next

-----------------------------------------------------------------------------
LEMMA InductiveHolds == Spec => []Inductive
BY InductiveInit, InductiveStep, PTL DEF Spec

(* Types: and with them, that only a container that runs has commands in   *)
(* it and that a caller is at work exactly while it alone has the lock.    *)
THEOREM SandboxTypesHold == Spec => []TypeOK
<1>1. Inductive => TypeOK
  BY ShapeIsType DEF Inductive
<1>2. QED BY <1>1, InductiveHolds, PTL

(* Registry.call answers OK only with the call's line in the log, lines in *)
(* the order of the calls; a line that cannot be read follows one whose    *)
(* call was told that its event was lost, or was killed without an answer. *)
THEOREM SuccessesAreLogged == Spec => []SuccessIsLogged
<1>1. Inductive => SuccessIsLogged
  BY DEF Inductive
<1>2. QED BY <1>1, InductiveHolds, PTL

(* Once sandbox.execute has said that the container was stopped on a       *)
(* limit, or sandbox.destroy that it is gone, nothing of an answered call  *)
(* up to then runs, in that container or a later one, though commands      *)
(* outlive calls that were told OK.                                        *)
THEOREM StopsAreForGood == Spec => []StoppedStaysStopped
<1>1. Inductive => StoppedStaysStopped
  BY DEF Inductive
<1>2. QED BY <1>1, InductiveHolds, PTL

(* A container that sandbox.destroy said to be removed does not come back: *)
(* one that is there was made by a later call, or by a podman whose labctl *)
(* was killed and never answered.                                          *)
THEOREM RemovedContainersStayRemoved == Spec => []RemovedStaysRemoved
<1>1. Inductive => RemovedStaysRemoved
  BY DEF Inductive
<1>2. QED BY <1>1, InductiveHolds, PTL
=============================================================================
