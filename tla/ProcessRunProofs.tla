-------------------------- MODULE ProcessRunProofs --------------------------
(***************************************************************************)
(* Theorems about ProcessRun, for every deadline, every limit and whatever *)
(* the command writes, forks, closes and exits with.                       *)
(***************************************************************************)
EXTENDS ProcessRun, TLAPS

Chunks == [Streams -> 0..MaxChunks]
Call == [open : SUBSET Streams, batch : SUBSET Streams, got : [Streams -> 0..Limit],
         timedOut : BOOLEAN, limited : BOOLEAN, interrupted : BOOLEAN]
Cmd == [alive : SUBSET Procs, dying : SUBSET Procs, holds : SUBSET (Procs \X Streams),
        pipe : Chunks, written : Chunks,
        child : {"none", "unreaped", "reaped"}, code : {"none", "zero", "other"}]

-----------------------------------------------------------------------------
(* The inductive invariant.                                                *)

CmdShape ==
  /\ cmd \in Cmd /\ cmd.dying \subseteq cmd.alive /\ cmd.holds \subseteq cmd.alive \X Streams
  /\ "leader" \in cmd.alive => cmd.child = "unreaped"

CallShape ==
  /\ pc \in {"start"} \cup Running \cup Finished /\ now \in 0..Deadline /\ stray = FALSE
  /\ call \in Call /\ call.batch \subseteq call.open /\ Sum(call.got) <= Limit

(* Where the call is with its process: not started, waitable, waited for.  *)
ChildOK ==
  /\ pc \in {"start", "refused"} => cmd.child = "none" /\ call.open = {}
  /\ pc \in {"input", "loop", "select", "kill", "wait", "reap", "abandoned"} =>
       cmd.child = "unreaped"
  /\ pc \in {"returned", "raised"} => cmd.child = "reaped"
  /\ pc = "finally" => cmd.child # "none"
  /\ cmd.child = "none" => cmd.alive = {}

(* What was cut, and when; a cut group was killed, and cannot fork.        *)
Cut == call.timedOut \/ call.limited
Killed == cmd.alive \cap Group \subseteq cmd.dying
CutOK ==
  /\ pc \in {"start", "refused", "input", "loop", "select"} => ~Cut
  /\ pc \in {"start", "refused", "input", "loop", "select", "kill", "wait", "returned"} =>
       ~call.interrupted
  /\ pc = "kill" => Cut
  /\ pc # "kill" /\ Cut /\ ~call.interrupted => Killed
  /\ pc \in {"wait", "reap", "finally", "returned"} /\ ~Cut /\ ~call.interrupted => call.open = {}
  /\ call.timedOut => now = Deadline
  /\ call.limited => Sum(call.got) = Limit

(* Nothing written is lost, until the limit is reached: it is in the       *)
(* result or in the pipe.  A pipe that is not read has nothing in it and   *)
(* no writer left; one that select found ready still is.                   *)
AccountOK ==
  \A s \in Streams :
    /\ cmd.pipe[s] <= cmd.written[s]
    /\ ~call.limited => call.got[s] + cmd.pipe[s] = cmd.written[s]
    /\ s \notin call.open => cmd.pipe[s] = 0 /\ Writers(s) = {}
    /\ s \in call.batch => cmd.pipe[s] > 0 \/ Writers(s) = {}

Inductive == CmdShape /\ CallShape /\ ChildOK /\ CutOK /\ AccountOK

LEMMA ShapeIsType == CmdShape /\ CallShape => TypeOK
<1> SUFFICES ASSUME CmdShape, CallShape PROVE TypeOK
  OBVIOUS
<1>1. call \in [open : SUBSET Streams, batch : SUBSET call.open, got : [Streams -> 0..Limit],
                timedOut : BOOLEAN, limited : BOOLEAN, interrupted : BOOLEAN]
  BY DEF CallShape, Call
<1>2. cmd \in [alive : SUBSET Procs, dying : SUBSET cmd.alive,
               holds : SUBSET (cmd.alive \X Streams),
               pipe : [Streams -> 0..MaxChunks], written : [Streams -> 0..MaxChunks],
               child : {"none", "unreaped", "reaped"}, code : {"none", "zero", "other"}]
  BY DEF CmdShape, Cmd, Chunks
<1>3. QED BY <1>1, <1>2 DEF CmdShape, CallShape, TypeOK

LEMMA InductiveInit == Init => Inductive
<1> SUFFICES ASSUME Init PROVE Inductive
  OBVIOUS
<1> USE ProcessAssumption DEF Init
<1>1. /\ None \in Chunks /\ None \in [Streams -> 0..Limit] /\ \A s \in Streams : None[s] = 0
      /\ {"stdout", "stderr"} \subseteq Streams
  BY DEF None, Chunks, Streams
<1> HIDE DEF None
<1>2. call \in Call /\ call.got = None /\ call.batch = {} /\ call.timedOut = FALSE
      /\ call.limited = FALSE /\ call.interrupted = FALSE /\ call.open = {}
  BY <1>1 DEF Call
<1>3. cmd \in Cmd /\ cmd.alive = {} /\ cmd.dying = {} /\ cmd.holds = {} /\ cmd.pipe = None
      /\ cmd.written = None /\ cmd.child = "none"
  BY <1>1 DEF Cmd
<1>4. CmdShape
  BY <1>3 DEF CmdShape
<1>5. CallShape
  <2>1. Sum(call.got) <= Limit
    BY <1>1, <1>2 DEF Sum
  <2>2. QED BY <1>2, <2>1 DEF CallShape
<1>6. ChildOK /\ CutOK
  BY <1>2, <1>3 DEF ChildOK, CutOK, Cut, Killed
<1>7. AccountOK
  BY <1>1, <1>2, <1>3 DEF AccountOK, Writers
<1>8. QED BY <1>4, <1>5, <1>6, <1>7 DEF Inductive

-----------------------------------------------------------------------------
(* Steps of the command: what it may do to what the call relies on.        *)
CommandKeeps ==
  /\ cmd'.child = cmd.child
  /\ "leader" \in cmd'.alive => "leader" \in cmd.alive
  /\ cmd.alive = {} => cmd'.alive = {}
  /\ Killed => Killed'
  /\ \A s \in Streams :
       /\ cmd'.pipe[s] >= cmd.pipe[s]
       /\ cmd'.pipe[s] - cmd.pipe[s] = cmd'.written[s] - cmd.written[s]
       /\ Writers(s) = {} => Writers(s)' = {} /\ cmd'.pipe[s] = cmd.pipe[s]

LEMMA CmdTypes ==
  ASSUME CmdShape
  PROVE  /\ cmd.alive \subseteq Procs /\ cmd.dying \subseteq Procs
         /\ cmd.holds \subseteq Procs \X Streams
         /\ cmd.pipe \in Chunks /\ cmd.written \in Chunks
         /\ \A s \in Streams : cmd.pipe[s] \in Nat /\ cmd.written[s] \in Nat
         /\ cmd.child \in {"none", "unreaped", "reaped"} /\ cmd.code \in {"none", "zero", "other"}
         /\ DOMAIN cmd.pipe = Streams /\ DOMAIN cmd.written = Streams
BY ProcessAssumption DEF CmdShape, Cmd, Chunks

LEMMA WriteStep ==
  ASSUME Inductive, NEW p \in Procs, NEW s \in Streams, Write(p, s)
  PROVE  CmdShape' /\ CommandKeeps
<1> USE CmdTypes DEF Inductive
<1> DEFINE pipe == [cmd.pipe EXCEPT ![s] = cmd.pipe[s] + 1]
           written == [cmd.written EXCEPT ![s] = cmd.written[s] + 1]
<1>1. cmd' = [cmd EXCEPT !.pipe = pipe, !.written = written]
  BY DEF Write, CmdShape, Cmd
<1>2. pipe \in Chunks /\ written \in Chunks
  BY ProcessAssumption DEF Write, Chunks, CmdShape, Cmd, AccountOK
<1>3. /\ pipe[s] = cmd.pipe[s] + 1 /\ written[s] = cmd.written[s] + 1
      /\ \A t \in Streams \ {s} : pipe[t] = cmd.pipe[t] /\ written[t] = cmd.written[t]
  BY DEF Chunks
<1> HIDE DEF pipe, written
<1>4. /\ cmd' \in Cmd /\ cmd'.pipe = pipe /\ cmd'.written = written /\ cmd'.alive = cmd.alive
      /\ cmd'.dying = cmd.dying /\ cmd'.holds = cmd.holds /\ cmd'.child = cmd.child
  BY <1>1, <1>2 DEF CmdShape, Cmd
<1>5. CmdShape'
  BY <1>4 DEF CmdShape
<1>6. Writers(s) # {} /\ \A t \in Streams : Writers(t)' = Writers(t)
  BY <1>4 DEF Write, Writers
<1>7. CommandKeeps
  BY <1>3, <1>4, <1>6 DEF CommandKeeps, Killed
<1>8. QED BY <1>5, <1>7

LEMMA CloseStep ==
  ASSUME Inductive, NEW p \in Procs, NEW s \in Streams, Close(p, s)
  PROVE  CmdShape' /\ CommandKeeps
<1> USE CmdTypes DEF Inductive
<1>1. /\ cmd' \in Cmd /\ cmd'.holds = cmd.holds \ {<<p, s>>} /\ cmd'.alive = cmd.alive
      /\ cmd'.dying = cmd.dying /\ cmd'.child = cmd.child
      /\ cmd'.pipe = cmd.pipe /\ cmd'.written = cmd.written
  BY DEF Close, CmdShape, Cmd
<1>2. CmdShape'
  BY <1>1 DEF CmdShape
<1>3. \A t \in Streams : Writers(t)' \subseteq Writers(t)
  BY <1>1 DEF Writers
<1>4. CommandKeeps
  BY <1>1, <1>3 DEF CommandKeeps, Killed
<1>5. QED BY <1>2, <1>4

LEMMA ForkStep ==
  ASSUME Inductive, NEW p \in Procs, Fork(p)
  PROVE  CmdShape' /\ CommandKeeps
<1> USE CmdTypes DEF Inductive
<1> DEFINE given == {<<p, s>> : s \in {t \in Streams : <<"leader", t>> \in cmd.holds}}
<1>1. given \subseteq {p} \X Streams
  <2>1. \A g \in given : \E s \in Streams : g = <<p, s>>
    OBVIOUS
  <2> HIDE DEF given
  <2>2. QED BY <2>1
<1>2. \A s \in Streams : <<p, s>> \in given => <<"leader", s>> \in cmd.holds
  OBVIOUS
<1>3. cmd' = [cmd EXCEPT !.alive = cmd.alive \cup {p}, !.holds = cmd.holds \cup given]
  BY DEF Fork
<1> HIDE DEF given
<1>4. /\ cmd' \in Cmd /\ cmd'.holds = cmd.holds \cup given /\ cmd'.alive = cmd.alive \cup {p}
      /\ cmd'.dying = cmd.dying /\ cmd'.child = cmd.child
      /\ cmd'.pipe = cmd.pipe /\ cmd'.written = cmd.written
  BY <1>1, <1>3 DEF CmdShape, Cmd
<1>5. "leader" \in cmd.alive /\ "leader" \notin cmd.dying /\ p # "leader"
  BY DEF Fork
<1>6. CmdShape'
  BY <1>1, <1>4, <1>5 DEF CmdShape
<1>7. \A s \in Streams : Writers(s) = {} => Writers(s)' = {}
  <2>1. SUFFICES ASSUME NEW s \in Streams, Writers(s) = {}, NEW q \in Procs, <<q, s>> \in cmd'.holds
                 PROVE  FALSE
    BY DEF Writers
  <2>2. <<q, s>> \notin cmd.holds /\ <<"leader", s>> \notin cmd.holds
    BY <2>1 DEF Writers, Procs
  <2>3. <<q, s>> \in given /\ q = p
    BY <1>1, <1>4, <2>1, <2>2
  <2>4. QED BY <1>2, <2>1, <2>2, <2>3
<1>8. ~Killed
  BY <1>5 DEF Killed, Group
<1>9. CommandKeeps
  BY <1>4, <1>5, <1>7, <1>8 DEF CommandKeeps
<1>10. QED BY <1>6, <1>9

LEMMA ExitStep ==
  ASSUME Inductive, NEW p \in Procs, Exit(p)
  PROVE  CmdShape' /\ CommandKeeps
<1> USE CmdTypes DEF Inductive
<1>1. PICK c \in {"none", "zero", "other"} :
        cmd' = [cmd EXCEPT !.alive = cmd.alive \ {p}, !.dying = cmd.dying \ {p},
                           !.holds = {h \in cmd.holds : h[1] # p}, !.code = c]
  BY DEF Exit
<1>2. /\ cmd' \in Cmd /\ cmd'.holds = {h \in cmd.holds : h[1] # p}
      /\ cmd'.alive = cmd.alive \ {p} /\ cmd'.dying = cmd.dying \ {p} /\ cmd'.child = cmd.child
      /\ cmd'.pipe = cmd.pipe /\ cmd'.written = cmd.written
  BY <1>1 DEF CmdShape, Cmd
<1>3. CmdShape'
  BY <1>2 DEF CmdShape
<1>4. \A s \in Streams : Writers(s) = {} => Writers(s)' = {}
  BY <1>2 DEF Writers
<1>5. CommandKeeps
  BY <1>2, <1>4 DEF CommandKeeps, Killed
<1>6. QED BY <1>3, <1>5

LEMMA CommandStep ==
  ASSUME Inductive, Command
  PROVE  Inductive'
<1> USE DEF Inductive
<1>1. UNCHANGED <<pc, now, call, stray>>
  BY DEF Command
<1>2. CmdShape' /\ CommandKeeps
  BY WriteStep, CloseStep, ForkStep, ExitStep DEF Command
<1>3. CallShape'
  BY <1>1 DEF CallShape, Sum
<1>4. ChildOK'
  BY <1>1, <1>2 DEF ChildOK, CommandKeeps
<1>5. CutOK'
  BY <1>1, <1>2 DEF CutOK, Cut, CommandKeeps, Sum
<1>6. AccountOK'
  <2>1. ASSUME NEW s \in Streams
        PROVE  /\ cmd.pipe[s] \in Nat /\ cmd.written[s] \in Nat /\ call.got[s] \in Nat
               /\ cmd'.pipe[s] \in Nat /\ cmd'.written[s] \in Nat /\ call'.got[s] = call.got[s]
    BY <1>1, <1>2, ProcessAssumption DEF CmdShape, CallShape, Cmd, Call, Chunks
  <2>2. QED BY <1>1, <1>2, <2>1 DEF AccountOK, CommandKeeps
<1>7. QED BY <1>2, <1>3, <1>4, <1>5, <1>6

-----------------------------------------------------------------------------
(* Steps of the call.                                                      *)

LEMMA CallTypes ==
  ASSUME CallShape
  PROVE  /\ call.open \subseteq Streams /\ call.batch \subseteq call.open
         /\ call.got \in [Streams -> 0..Limit] /\ \A s \in Streams : call.got[s] \in Nat
         /\ call.timedOut \in BOOLEAN /\ call.limited \in BOOLEAN /\ call.interrupted \in BOOLEAN
BY ProcessAssumption DEF CallShape, Call

LEMMA RoomType ==
  ASSUME CallShape
  PROVE  /\ Sum(call.got) \in Nat /\ Limit \in Nat /\ Limit - Sum(call.got) \in Nat
         /\ Room = Limit - Sum(call.got) /\ Room \in Nat
<1>1. call.got["stdout"] \in Nat /\ call.got["stderr"] \in Nat
  BY CallTypes DEF Streams
<1>2. Sum(call.got) \in Nat /\ Sum(call.got) <= Limit /\ Limit \in Nat
  BY <1>1, ProcessAssumption DEF Sum, CallShape
<1>3. QED BY <1>2 DEF Room

LEMMA StartStep ==
  ASSUME Inductive, Start
  PROVE  Inductive'
<1> USE CmdTypes, CallTypes DEF Inductive
<1>1. pc = "start" /\ UNCHANGED <<now, stray>>
  BY DEF Start
<1>2. CASE pc' = "refused" /\ UNCHANGED <<call, cmd>>
  <2>1. CmdShape' /\ CallShape'
    BY <1>1, <1>2 DEF CmdShape, CallShape, Finished, Sum
  <2>2. ChildOK' /\ CutOK' /\ AccountOK'
    BY <1>1, <1>2 DEF ChildOK, CutOK, Cut, Killed, AccountOK, Writers, Sum
  <2>3. QED BY <2>1, <2>2
<1>3. ASSUME NEW streams \in {{"stdout"}, Streams},
             pc' = "input", call' = [call EXCEPT !.open = streams],
             cmd' = [cmd EXCEPT !.alive = {"leader"}, !.holds = {"leader"} \X streams,
                                !.child = "unreaped"]
      PROVE  Inductive'
  <2>1. /\ call' \in Call /\ call'.open = streams /\ call'.got = call.got
        /\ call'.batch = call.batch /\ call'.timedOut = call.timedOut
        /\ call'.limited = call.limited /\ call'.interrupted = call.interrupted
    BY <1>3 DEF CallShape, Call, Streams
  <2>2. /\ cmd' \in Cmd /\ cmd'.alive = {"leader"} /\ cmd'.holds = {"leader"} \X streams
        /\ cmd'.child = "unreaped" /\ cmd'.dying = cmd.dying /\ cmd'.pipe = cmd.pipe
        /\ cmd'.written = cmd.written
    BY <1>3 DEF CmdShape, Cmd, Procs, Streams
  <2>3. /\ cmd.alive = {} /\ cmd.dying = {} /\ cmd.holds = {} /\ call.batch = {}
        /\ call.open = {}
    BY <1>1 DEF ChildOK, CmdShape
  <2>4. CmdShape'
    BY <1>3, <2>2, <2>3 DEF CmdShape, Streams
  <2>5. CallShape'
    BY <1>1, <1>3, <2>1, <2>3 DEF CallShape, Running, Sum
  <2>6. ChildOK' /\ CutOK'
    BY <1>1, <1>3, <2>1, <2>2 DEF ChildOK, CutOK, Cut
  <2>7. AccountOK'
    BY <1>3, <2>1, <2>2, <2>3 DEF AccountOK, Writers
  <2>8. QED BY <2>4, <2>5, <2>6, <2>7
<1>4. QED BY <1>2, <1>3 DEF Start

LEMMA PassStep ==
  ASSUME Inductive, Input \/ Selected \/ Tick
  PROVE  Inductive'
<1> USE CmdTypes, CallTypes DEF Inductive
<1>1. UNCHANGED <<call, cmd, stray>>
  BY DEF Input, Selected, Tick
<1>2. \/ /\ pc' = "loop" /\ pc \in {"input", "select"} /\ now' = now
      \/ /\ pc' = pc /\ now < Deadline /\ now' = now + 1
  BY DEF Input, Selected, Tick
<1>3. CmdShape' /\ CallShape'
  BY <1>1, <1>2, ProcessAssumption DEF CmdShape, CallShape, Running, Sum
<1>4. ChildOK'
  BY <1>1, <1>2 DEF ChildOK
<1>5. CutOK'
  <2>1. call.timedOut => now = Deadline
    BY DEF CutOK
  <2>2. now \in Nat
    BY ProcessAssumption DEF CallShape
  <2>3. QED BY <1>1, <1>2, <2>1, <2>2, ProcessAssumption DEF CutOK, Cut, Killed, Sum
<1>6. AccountOK'
  BY <1>1 DEF AccountOK, Writers
<1>7. QED BY <1>3, <1>4, <1>5, <1>6

LEMMA LoopStep ==
  ASSUME Inductive, Loop
  PROVE  Inductive'
<1> USE CmdTypes, CallTypes DEF Inductive
<1>1. pc = "loop" /\ UNCHANGED <<now, cmd, stray>>
  BY DEF Loop
<1>2. CmdShape'
  BY <1>1 DEF CmdShape
<1>3. CASE call.open = {} /\ pc' = "wait" /\ UNCHANGED call
  <2>1. CallShape' /\ ChildOK' /\ CutOK' /\ AccountOK'
    BY <1>1, <1>3 DEF CallShape, Running, Sum, ChildOK, CutOK, Cut, Killed, AccountOK, Writers
  <2>2. QED BY <1>2, <2>1
<1>4. CASE now = Deadline /\ pc' = "kill" /\ call' = [call EXCEPT !.timedOut = TRUE]
  <2>1. /\ call' \in Call /\ call'.open = call.open /\ call'.got = call.got
        /\ call'.batch = call.batch /\ call'.timedOut = TRUE
        /\ call'.limited = call.limited /\ call'.interrupted = call.interrupted
    BY <1>4 DEF CallShape, Call
  <2>2. CallShape' /\ ChildOK' /\ AccountOK'
    BY <1>1, <1>4, <2>1 DEF CallShape, Running, Sum, ChildOK, AccountOK, Writers
  <2>3. CutOK'
    BY <1>1, <1>4, <2>1 DEF CutOK, Cut, Sum
  <2>4. QED BY <1>2, <2>2, <2>3
<1>5. CASE /\ pc' = "select"
           /\ call' = [call EXCEPT !.batch = {s \in call.open : cmd.pipe[s] > 0 \/ Writers(s) = {}}]
  <2> DEFINE ready == {s \in call.open : cmd.pipe[s] > 0 \/ Writers(s) = {}}
  <2>1. ready \subseteq call.open /\ \A s \in ready : cmd.pipe[s] > 0 \/ Writers(s) = {}
    OBVIOUS
  <2>2. call' = [call EXCEPT !.batch = ready]
    BY <1>5
  <2> HIDE DEF ready
  <2>3. /\ call' \in Call /\ call'.open = call.open /\ call'.got = call.got
        /\ call'.batch = ready /\ call'.timedOut = call.timedOut
        /\ call'.limited = call.limited /\ call'.interrupted = call.interrupted
    BY <2>1, <2>2 DEF CallShape, Call
  <2>4. CallShape' /\ ChildOK'
    BY <1>1, <1>5, <2>1, <2>3 DEF CallShape, Running, Sum, ChildOK
  <2>5. CutOK'
    BY <1>1, <1>5, <2>3 DEF CutOK, Cut
  <2>6. AccountOK'
    BY <1>1, <2>1, <2>3 DEF AccountOK, Writers
  <2>7. QED BY <1>2, <2>4, <2>5, <2>6
<1>6. QED BY <1>3, <1>4, <1>5 DEF Loop

(* What the cut does to a call and its accounts: kept is all that was read *)
(* of the pipe, or as much as there was room for.                          *)
LEMMA ReadStep ==
  ASSUME Inductive, Read
  PROVE  Inductive'
<1> USE CmdTypes, CallTypes DEF Inductive
<1>1. pc = "select" /\ UNCHANGED <<now, stray>>
  BY DEF Read
<1>2. PICK s \in call.batch :
        ReadEnd(s) \/ \E n \in 1..cmd.pipe[s] : ReadChunks(s, n, IF n < Room THEN n ELSE Room, n >= Room)
  BY DEF Read
<1>3. /\ call.limited = FALSE /\ call.timedOut = FALSE /\ call.interrupted = FALSE
      /\ s \in Streams /\ s \in call.open
  BY <1>1 DEF CutOK, Cut
<1>4. CASE ReadEnd(s)
  <2>1. /\ cmd.pipe[s] = 0 /\ UNCHANGED <<pc, cmd>>
        /\ call' = [call EXCEPT !.batch = call.batch \ {s}, !.open = call.open \ {s}]
    BY <1>4 DEF ReadEnd
  <2>2. /\ call' \in Call /\ call'.open = call.open \ {s} /\ call'.got = call.got
        /\ call'.batch = call.batch \ {s} /\ call'.timedOut = call.timedOut
        /\ call'.limited = call.limited /\ call'.interrupted = call.interrupted
    BY <2>1 DEF CallShape, Call
  <2>3. Writers(s) = {}
    BY <1>3, <2>1 DEF AccountOK
  <2>4. CmdShape' /\ CallShape' /\ ChildOK'
    BY <1>1, <2>1, <2>2 DEF CmdShape, CallShape, Sum, ChildOK
  <2>5. CutOK'
    BY <1>1, <2>1, <2>2 DEF CutOK, Cut
  <2>6. AccountOK'
    BY <2>1, <2>2, <2>3 DEF AccountOK, Writers
  <2>7. QED BY <2>4, <2>5, <2>6
<1>5. ASSUME NEW n \in 1..cmd.pipe[s], NEW limited \in BOOLEAN, NEW kept \in Nat,
             ReadChunks(s, n, kept, limited),
             limited => kept = Room,
             ~limited => kept = n /\ n < Room
      PROVE  Inductive'
  <2> DEFINE got == [call.got EXCEPT ![s] = call.got[s] + kept]
             pipe == [cmd.pipe EXCEPT ![s] = cmd.pipe[s] - n]
             batch == IF limited THEN {} ELSE call.batch \ {s}
  <2>1. /\ cmd' = [cmd EXCEPT !.pipe = pipe]
        /\ call' = [call EXCEPT !.got = got, !.limited = limited, !.batch = batch]
        /\ pc' = IF limited THEN "kill" ELSE pc
    BY <1>5 DEF ReadChunks, CmdShape, Cmd, CallShape, Call
  <2>2. Limit - Sum(call.got) \in Nat /\ Limit \in Nat /\ kept <= Limit - Sum(call.got)
    BY <1>5, RoomType
  <2>3. Sum(got) = Sum(call.got) + kept
    BY <1>3, <2>2 DEF Sum, Streams
  <2>4. got \in [Streams -> 0..Limit] /\ Sum(got) <= Limit /\ (limited => Sum(got) = Limit)
    BY <1>3, <1>5, <2>2, <2>3 DEF Sum, Streams, Room
  <2>5. pipe \in Chunks /\ pipe[s] = cmd.pipe[s] - n
        /\ \A t \in Streams \ {s} : pipe[t] = cmd.pipe[t]
    BY <1>3, <1>5, ProcessAssumption DEF Chunks
  <2>6. got[s] = call.got[s] + kept /\ \A t \in Streams \ {s} : got[t] = call.got[t]
    BY <1>3
  <2>7. batch \subseteq call.batch \ {s}
    OBVIOUS
  <2> HIDE DEF got, pipe, batch
  <2>8. /\ call' \in Call /\ call'.open = call.open /\ call'.got = got /\ call'.batch = batch
        /\ call'.timedOut = call.timedOut /\ call'.limited = limited
        /\ call'.interrupted = call.interrupted
    BY <2>1, <2>4, <2>7 DEF CallShape, Call
  <2>9. /\ cmd' \in Cmd /\ cmd'.alive = cmd.alive /\ cmd'.dying = cmd.dying
        /\ cmd'.holds = cmd.holds /\ cmd'.child = cmd.child /\ cmd'.pipe = pipe
        /\ cmd'.written = cmd.written
    BY <2>1, <2>5 DEF CmdShape, Cmd
  <2>10. CmdShape'
    BY <2>9 DEF CmdShape
  <2>11. CallShape'
    BY <1>1, <2>1, <2>4, <2>7, <2>8 DEF CallShape, Running
  <2>12. ChildOK'
    BY <1>1, <2>1, <2>9 DEF ChildOK
  <2>13. CutOK'
    BY <1>1, <1>3, <2>1, <2>4, <2>8 DEF CutOK, Cut
  <2>14. AccountOK'
    <3>1. \A t \in Streams : Writers(t)' = Writers(t)
      BY <2>9 DEF Writers
    <3>2. ASSUME NEW t \in Streams
          PROVE  /\ pipe[t] <= cmd.written[t]
                 /\ ~limited => got[t] + pipe[t] = cmd.written[t]
                 /\ t \notin call.open => pipe[t] = 0 /\ Writers(t) = {}
                 /\ t \in batch => pipe[t] > 0 \/ Writers(t) = {}
      <4>1. CASE t = s
        BY <1>3, <1>5, <2>5, <2>6, <2>7, <4>1 DEF AccountOK
      <4>2. CASE t # s
        BY <1>3, <2>5, <2>6, <2>7, <4>2 DEF AccountOK
      <4>3. QED BY <4>1, <4>2
    <3>3. QED BY <2>8, <2>9, <3>1, <3>2 DEF AccountOK
  <2>15. QED BY <2>10, <2>11, <2>12, <2>13, <2>14
<1>6. ASSUME NEW n \in 1..cmd.pipe[s],
             ReadChunks(s, n, IF n < Room THEN n ELSE Room, n >= Room)
      PROVE  Inductive'
  <2>1. n \in Nat /\ Room \in Nat
    BY <1>3, RoomType
  <2>2. CASE n < Room
    <3>1. (n >= Room) = FALSE /\ (IF n < Room THEN n ELSE Room) = n
      BY <2>1, <2>2
    <3>2. ReadChunks(s, n, n, FALSE)
      BY <1>6, <3>1
    <3>3. QED BY <1>5, <2>1, <2>2, <3>2
  <2>3. CASE ~(n < Room)
    <3>1. (n >= Room) = TRUE /\ (IF n < Room THEN n ELSE Room) = Room
      BY <2>1, <2>3
    <3>2. ReadChunks(s, n, Room, TRUE)
      BY <1>6, <3>1
    <3>3. QED BY <1>5, <2>1, <3>2
  <2>4. QED BY <2>2, <2>3
<1>7. QED BY <1>2, <1>4, <1>6

-----------------------------------------------------------------------------
(* Nothing that a kill or a wait does to the processes bears on the pipes. *)
LEMMA PipesKeep ==
  ASSUME Inductive, cmd' \in Cmd, cmd'.pipe = cmd.pipe, cmd'.written = cmd.written,
         cmd'.holds = cmd.holds, call'.got = call.got, call'.limited = call.limited,
         call'.open = call.open, call'.batch \subseteq call.batch
  PROVE  AccountOK'
BY DEF Inductive, AccountOK, Writers

(* kill_group, while the leader is not reaped.                             *)
LEMMA KillForm ==
  ASSUME Inductive, KillGroup, cmd.child # "reaped"
  PROVE  /\ stray' = FALSE /\ CmdShape' /\ Killed'
         /\ cmd' \in Cmd /\ cmd'.alive = cmd.alive /\ cmd'.child = cmd.child
         /\ cmd'.holds = cmd.holds /\ cmd'.pipe = cmd.pipe /\ cmd'.written = cmd.written
<1> USE CmdTypes DEF Inductive
<1>1. /\ cmd' \in Cmd /\ cmd'.alive = cmd.alive /\ cmd'.child = cmd.child
      /\ cmd'.dying = cmd.alive \cap Group
      /\ cmd'.holds = cmd.holds /\ cmd'.pipe = cmd.pipe /\ cmd'.written = cmd.written
  BY DEF KillGroup, CmdShape, Cmd
<1>2. stray' = FALSE
  BY DEF KillGroup, CallShape
<1>3. CmdShape' /\ Killed'
  BY <1>1 DEF CmdShape, Killed
<1>4. QED BY <1>1, <1>2, <1>3

LEMMA ReapForm ==
  ASSUME Inductive, cmd' = [cmd EXCEPT !.child = "reaped"], "leader" \notin cmd.alive
  PROVE  /\ CmdShape' /\ cmd' \in Cmd /\ cmd'.alive = cmd.alive /\ cmd'.dying = cmd.dying
         /\ cmd'.child = "reaped"
         /\ cmd'.holds = cmd.holds /\ cmd'.pipe = cmd.pipe /\ cmd'.written = cmd.written
<1>1. /\ cmd' \in Cmd /\ cmd'.alive = cmd.alive /\ cmd'.dying = cmd.dying
      /\ cmd'.child = "reaped"
      /\ cmd'.holds = cmd.holds /\ cmd'.pipe = cmd.pipe /\ cmd'.written = cmd.written
  BY DEF Inductive, CmdShape, Cmd
<1>2. QED BY <1>1 DEF Inductive, CmdShape

LEMMA KillStep ==
  ASSUME Inductive, Kill
  PROVE  Inductive'
<1> USE CmdTypes, CallTypes DEF Inductive
<1>1. pc = "kill" /\ pc' = "wait" /\ KillGroup /\ UNCHANGED <<now, call>> /\ cmd.child = "unreaped"
  BY DEF Kill, ChildOK
<1>2. /\ stray' = FALSE /\ CmdShape' /\ Killed'
      /\ cmd' \in Cmd /\ cmd'.alive = cmd.alive /\ cmd'.child = cmd.child
      /\ cmd'.holds = cmd.holds /\ cmd'.pipe = cmd.pipe /\ cmd'.written = cmd.written
  BY <1>1, KillForm
<1>3. CallShape' /\ ChildOK'
  BY <1>1, <1>2 DEF CallShape, Running, Sum, ChildOK
<1>4. CutOK'
  BY <1>1, <1>2 DEF CutOK, Cut, Sum
<1>5. AccountOK'
  BY <1>1, <1>2, PipesKeep
<1>6. QED BY <1>2, <1>3, <1>4, <1>5

LEMMA WaitStep ==
  ASSUME Inductive, Wait \/ Reap
  PROVE  Inductive'
<1> USE CmdTypes, CallTypes DEF Inductive
<1>1. pc \in {"wait", "reap"} /\ cmd.child = "unreaped"
  BY DEF Wait, Reap, ChildOK
<1>2. CASE Reaped
  <2>1. /\ pc' = "finally" /\ UNCHANGED <<now, call, stray>>
        /\ CmdShape' /\ cmd' \in Cmd /\ cmd'.alive = cmd.alive /\ cmd'.dying = cmd.dying
        /\ cmd'.child = "reaped"
        /\ cmd'.holds = cmd.holds /\ cmd'.pipe = cmd.pipe /\ cmd'.written = cmd.written
    BY <1>2, ReapForm DEF Reaped
  <2>2. CallShape' /\ ChildOK'
    BY <2>1 DEF CallShape, Running, Sum, ChildOK
  <2>3. CutOK'
    BY <1>1, <2>1 DEF CutOK, Cut, Killed, Sum
  <2>4. AccountOK'
    BY <2>1, PipesKeep
  <2>5. QED BY <2>1, <2>2, <2>3, <2>4
<1>3. CASE /\ pc = "wait" /\ now = Deadline /\ pc' = "reap"
           /\ call' = [call EXCEPT !.timedOut = TRUE] /\ KillGroup /\ UNCHANGED now
  <2>1. /\ stray' = FALSE /\ CmdShape' /\ Killed'
        /\ cmd' \in Cmd /\ cmd'.alive = cmd.alive /\ cmd'.child = cmd.child
        /\ cmd'.holds = cmd.holds /\ cmd'.pipe = cmd.pipe /\ cmd'.written = cmd.written
    BY <1>1, <1>3, KillForm
  <2>2. /\ call' \in Call /\ call'.open = call.open /\ call'.got = call.got
        /\ call'.batch = call.batch /\ call'.timedOut = TRUE
        /\ call'.limited = call.limited /\ call'.interrupted = call.interrupted
    BY <1>3 DEF CallShape, Call
  <2>3. CallShape' /\ ChildOK'
    BY <1>1, <1>3, <2>1, <2>2 DEF CallShape, Running, Sum, ChildOK
  <2>4. CutOK'
    BY <1>3, <2>1, <2>2 DEF CutOK, Cut, Sum
  <2>5. AccountOK'
    BY <2>1, <2>2, PipesKeep
  <2>6. QED BY <2>1, <2>3, <2>4, <2>5
<1>4. QED BY <1>2, <1>3 DEF Wait, Reap

LEMMA FinallyStep ==
  ASSUME Inductive, Finally
  PROVE  Inductive'
<1> USE CmdTypes, CallTypes DEF Inductive
<1>1. pc = "finally" /\ UNCHANGED <<now, call>>
  BY DEF Finally
<1>2. CASE cmd.child = "unreaped" /\ "leader" \in cmd.alive
  <2>1. pc' = "reap" /\ KillGroup
    BY <1>2 DEF Finally
  <2>2. /\ stray' = FALSE /\ CmdShape' /\ Killed'
        /\ cmd' \in Cmd /\ cmd'.alive = cmd.alive /\ cmd'.child = cmd.child
        /\ cmd'.holds = cmd.holds /\ cmd'.pipe = cmd.pipe /\ cmd'.written = cmd.written
    BY <1>2, <2>1, KillForm
  <2>3. CallShape' /\ ChildOK'
    BY <1>1, <1>2, <2>1, <2>2 DEF CallShape, Running, Sum, ChildOK
  <2>4. CutOK'
    BY <1>1, <2>1, <2>2 DEF CutOK, Cut, Sum
  <2>5. AccountOK'
    BY <1>1, <2>2, PipesKeep
  <2>6. QED BY <2>2, <2>3, <2>4, <2>5
<1>3. CASE ~(cmd.child = "unreaped" /\ "leader" \in cmd.alive)
  <2>1. /\ cmd' = [cmd EXCEPT !.child = "reaped"] /\ UNCHANGED stray
        /\ pc' = IF call.interrupted THEN "raised" ELSE "returned"
    BY <1>3 DEF Finally
  <2>2. "leader" \notin cmd.alive
    BY <1>3 DEF CmdShape
  <2>3. /\ CmdShape' /\ cmd' \in Cmd /\ cmd'.alive = cmd.alive /\ cmd'.dying = cmd.dying
        /\ cmd'.child = "reaped"
        /\ cmd'.holds = cmd.holds /\ cmd'.pipe = cmd.pipe /\ cmd'.written = cmd.written
    BY <2>1, <2>2, ReapForm
  <2>4. CASE call.interrupted
    <3>1. pc' = "raised"
      BY <2>1, <2>4
    <3>2. CallShape' /\ ChildOK'
      BY <1>1, <2>1, <2>3, <3>1 DEF CallShape, Finished, Sum, ChildOK
    <3>3. CutOK'
      BY <1>1, <2>3, <2>4, <3>1 DEF CutOK, Cut, Killed, Sum
    <3>4. QED BY <1>1, <2>3, <3>2, <3>3, PipesKeep
  <2>5. CASE ~call.interrupted
    <3>1. pc' = "returned"
      BY <2>1, <2>5
    <3>2. CallShape' /\ ChildOK'
      BY <1>1, <2>1, <2>3, <3>1 DEF CallShape, Finished, Sum, ChildOK
    <3>3. CutOK'
      BY <1>1, <2>3, <2>5, <3>1 DEF CutOK, Cut, Killed, Sum
    <3>4. QED BY <1>1, <2>3, <3>2, <3>3, PipesKeep
  <2>6. QED BY <2>4, <2>5
<1>4. QED BY <1>2, <1>3

LEMMA InterruptStep ==
  ASSUME Inductive, Interrupt
  PROVE  Inductive'
<1> USE CmdTypes, CallTypes DEF Inductive
<1>1. /\ pc \in Running \ {"finally"} /\ UNCHANGED <<now, cmd, stray>>
      /\ pc' = "abandoned" \/ (pc' = "finally" /\ pc # "input")
      /\ pc' = "abandoned" => pc = "input"
      /\ call' = [call EXCEPT !.interrupted = TRUE, !.batch = {}]
  BY DEF Interrupt
<1>2. /\ call' \in Call /\ call'.open = call.open /\ call'.got = call.got
      /\ call'.batch = {} /\ call'.timedOut = call.timedOut
      /\ call'.limited = call.limited /\ call'.interrupted = TRUE
  BY <1>1 DEF CallShape, Call
<1>3. CmdShape' /\ CallShape'
  BY <1>1, <1>2 DEF CmdShape, CallShape, Running, Finished, Sum
<1>4. ChildOK'
  BY <1>1, <1>2 DEF ChildOK, Running
<1>5. CutOK'
  BY <1>1, <1>2 DEF CutOK, Cut, Sum
<1>6. AccountOK'
  BY <1>1, <1>2 DEF AccountOK, Writers
<1>7. QED BY <1>3, <1>4, <1>5, <1>6

LEMMA InductiveStep == Inductive /\ [Next]_vars => Inductive'
<1> SUFFICES ASSUME Inductive, [Next]_vars PROVE Inductive'
  OBVIOUS
<1>1. CASE UNCHANGED vars
  BY <1>1 DEF vars, Inductive, CmdShape, CallShape, Sum, ChildOK, CutOK, Cut, Killed, AccountOK,
              Writers
<1>2. CASE Run
  BY <1>2, StartStep, PassStep, LoopStep, ReadStep, KillStep, WaitStep, FinallyStep DEF Run
<1>3. CASE Command \/ Tick \/ Interrupt
  BY <1>3, CommandStep, PassStep, InterruptStep
<1>4. QED BY <1>1, <1>2, <1>3 DEF Next

LEMMA InductiveHolds == Spec => []Inductive
BY InductiveInit, InductiveStep, PTL DEF Spec

-----------------------------------------------------------------------------
(* Types: and with them, that no more output is kept than the limit and    *)
(* that no process is waited for while it runs.                            *)
THEOREM ProcessTypesHold == Spec => []TypeOK
<1>1. Inductive => TypeOK
  BY ShapeIsType DEF Inductive
<1>2. QED BY <1>1, InductiveHolds, PTL

(* What a caller of run() is told is so: OK and COMMAND_FAILED come with   *)
(* all the output there was, OUTPUT_LIMIT with a full result, and          *)
(* COMMAND_TIMEOUT when the time is up.                                    *)
THEOREM OutcomesAreHonest == Spec => []OutcomeIsHonest
<1>1. ASSUME Inductive PROVE OutcomeIsHonest
  <2> USE CmdTypes, CallTypes, <1>1 DEF Inductive
  <2> SUFFICES ASSUME pc = "returned"
               PROVE  CASE Code = "COMMAND_TIMEOUT" -> now = Deadline
                        [] Code = "OUTPUT_LIMIT" -> Sum(call.got) = Limit
                        [] OTHER -> call.got = cmd.written /\ cmd.holds = {} /\ "leader" \notin cmd.alive
    BY DEF OutcomeIsHonest
  <2>1. CASE call.timedOut = TRUE
    <3>1. Code = "COMMAND_TIMEOUT"
      BY <2>1 DEF Code
    <3>2. QED BY <2>1, <3>1 DEF CutOK
  <2>2. CASE call.timedOut = FALSE /\ call.limited = TRUE
    <3>1. Code = "OUTPUT_LIMIT"
      BY <2>2 DEF Code
    <3>2. QED BY <2>2, <3>1 DEF CutOK
  <2>3. CASE call.timedOut = FALSE /\ call.limited = FALSE
    <3>1. Code \notin {"COMMAND_TIMEOUT", "OUTPUT_LIMIT"}
      BY <2>3 DEF Code
    <3>2. call.open = {}
      BY <2>3 DEF CutOK, Cut
    <3>3. \A s \in Streams : cmd.pipe[s] = 0 /\ Writers(s) = {} /\ call.got[s] = cmd.written[s]
      BY <2>3, <3>2 DEF AccountOK
    <3>4. call.got = cmd.written
      BY <3>3 DEF Chunks
    <3>5. cmd.holds = {}
      BY <3>3 DEF Writers
    <3>6. "leader" \notin cmd.alive
      BY DEF ChildOK, CmdShape
    <3>7. QED BY <3>1, <3>4, <3>5, <3>6
  <2>4. QED BY <2>1, <2>2, <2>3
<1>2. QED BY <1>1, InductiveHolds, PTL

(* A command that was cut off leaves nothing of its process group running  *)
(* and unkilled, one that was interrupted does not run on, and kill_group  *)
(* never signals a group whose leader was reaped.                          *)
THEOREM CutCommandsLeaveNothing == Spec => []CutLeavesNothing
<1>1. Inductive => CutLeavesNothing
  BY CallTypes DEF Inductive, CutLeavesNothing, CallShape, CmdShape, ChildOK, CutOK, Cut, Killed
<1>2. QED BY <1>1, InductiveHolds, PTL
=============================================================================
