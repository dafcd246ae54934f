----------------------------- MODULE ProcessRun -----------------------------
(***************************************************************************)
(* One command run by agentlab/process.py: its process, what it forks, the *)
(* pipes they write to, and the loop that reads them under a deadline and  *)
(* an output limit.  Every podman, virsh, ssh and git of the program runs  *)
(* this way.  Output is counted in chunks; 0.1 s, the least time that the  *)
(* exit of a command is waited for, is less than one unit of time.         *)
(***************************************************************************)
EXTENDS Naturals, FiniteSets

CONSTANTS Deadline, Limit,   \* timeout= and limit=
          MaxChunks          \* bound on the chunks written to one pipe

ASSUME ProcessAssumption == Deadline \in Nat \ {0} /\ Limit \in Nat \ {0} /\ MaxChunks \in Nat

Streams == {"stdout", "stderr"}
Procs   == {"leader", "member", "daemon"}   \* member: of its process group; daemon: not
Group   == {"leader", "member"}
Running == {"input", "loop", "select", "kill", "wait", "reap", "finally"}

VARIABLES pc, now,
          call,   \* open: pipes registered; batch: those select found ready; got: chunks kept
          cmd,    \* alive, dying (SIGKILL was sent); holds: who can write to which pipe;
                  \* pipe: chunks in it; written: ever; child, code: the command's own process
          stray   \* a process group was killed whose id may be another's by then

vars == <<pc, now, call, cmd, stray>>

Sum(f) == f["stdout"] + f["stderr"]
Writers(s) == {p \in Procs : <<p, s>> \in cmd.holds}
Finished == {"returned", "raised", "abandoned", "refused"}

(* The variables hold what the program can put in them; no more is kept    *)
(* than the limit; a process that runs was not reaped.                     *)
TypeOK ==
  /\ pc \in {"start"} \cup Running \cup Finished /\ now \in 0..Deadline /\ stray \in BOOLEAN
  /\ call \in [open : SUBSET Streams, batch : SUBSET call.open, got : [Streams -> 0..Limit],
               timedOut : BOOLEAN, limited : BOOLEAN, interrupted : BOOLEAN]
  /\ Sum(call.got) <= Limit
  /\ cmd \in [alive : SUBSET Procs, dying : SUBSET cmd.alive,
              holds : SUBSET (cmd.alive \X Streams),
              pipe : [Streams -> 0..MaxChunks], written : [Streams -> 0..MaxChunks],
              child : {"none", "unreaped", "reaped"}, code : {"none", "zero", "other"}]
  /\ "leader" \in cmd.alive => cmd.child = "unreaped"

None == [s \in Streams |-> 0]

Init ==
  /\ pc = "start" /\ now = 0 /\ stray = FALSE
  /\ call = [open |-> {}, batch |-> {}, got |-> None,
             timedOut |-> FALSE, limited |-> FALSE, interrupted |-> FALSE]
  /\ cmd = [alive |-> {}, dying |-> {}, holds |-> {}, pipe |-> None, written |-> None,
            child |-> "none", code |-> "none"]

-----------------------------------------------------------------------------
(* The command.  A process that SIGKILL was sent to only dies.             *)
Write(p, s) ==
  /\ p \in cmd.alive \ cmd.dying /\ <<p, s>> \in cmd.holds /\ cmd.written[s] < MaxChunks
  /\ cmd' = [cmd EXCEPT !.pipe[s] = @ + 1, !.written[s] = @ + 1]

Close(p, s) ==
  /\ p \in cmd.alive \ cmd.dying /\ <<p, s>> \in cmd.holds
  /\ cmd' = [cmd EXCEPT !.holds = @ \ {<<p, s>>}]

Fork(p) ==
  /\ "leader" \in cmd.alive \ cmd.dying /\ p \notin cmd.alive
  /\ cmd' = [cmd EXCEPT !.alive = @ \cup {p},
                        !.holds = @ \cup {<<p, s>> : s \in {t \in Streams : <<"leader", t>> \in @}}]

Exit(p) ==
  /\ p \in cmd.alive
  /\ \E c \in (IF p # "leader" THEN {cmd.code} ELSE IF p \in cmd.dying THEN {"other"} ELSE {"zero", "other"}) :
       cmd' = [cmd EXCEPT !.alive = @ \ {p}, !.dying = @ \ {p},
                          !.holds = {h \in @ : h[1] # p}, !.code = c]

Command ==
  /\ \E p \in Procs : Fork(p) \/ Exit(p) \/ (\E s \in Streams : Write(p, s) \/ Close(p, s))
  /\ UNCHANGED <<pc, now, call, stray>>

Tick == now < Deadline /\ pc \in Running /\ now' = now + 1 /\ UNCHANGED <<pc, call, cmd, stray>>

-----------------------------------------------------------------------------
(* run().                                                                  *)

(* Input over 4096 bytes, or no such executable; or the process starts,    *)
(* with one pipe or two.                                                   *)
Start ==
  /\ pc = "start" /\ UNCHANGED <<now, stray>>
  /\ \/ pc' = "refused" /\ UNCHANGED <<call, cmd>>
     \/ \E streams \in {{"stdout"}, Streams} :
          /\ pc' = "input" /\ call' = [call EXCEPT !.open = streams]
          /\ cmd' = [cmd EXCEPT !.alive = {"leader"}, !.holds = {"leader"} \X streams,
                                !.child = "unreaped"]

Input == pc = "input" /\ pc' = "loop" /\ UNCHANGED <<now, call, cmd, stray>>

(* The clock is looked at before each select, not between its events.      *)
Loop ==
  /\ pc = "loop" /\ UNCHANGED <<now, cmd, stray>>
  /\ \/ call.open = {} /\ pc' = "wait" /\ UNCHANGED call
     \/ call.open # {} /\ now = Deadline /\ pc' = "kill" /\ call' = [call EXCEPT !.timedOut = TRUE]
     \/ /\ call.open # {} /\ now < Deadline /\ pc' = "select"
        /\ call' = [call EXCEPT !.batch = {s \in call.open : cmd.pipe[s] > 0 \/ Writers(s) = {}}]

(* The next event: some chunks, cut at the limit, or the end of the pipe.  *)
(* Mutants: the limit must be exceeded, which what was cut to it never     *)
(* does; the last chunk that is read is kept whole.                        *)
ReadEnd(s) ==
  /\ cmd.pipe[s] = 0 /\ UNCHANGED <<pc, cmd>>
  /\ call' = [call EXCEPT !.batch = @ \ {s}, !.open = @ \ {s}]

ReadChunks(s, n, kept, limited) ==
  /\ cmd' = [cmd EXCEPT !.pipe[s] = @ - n]
  /\ call' = [call EXCEPT !.got[s] = @ + kept, !.limited = limited,
                          !.batch = IF limited THEN {} ELSE @ \ {s}]
  /\ pc' = IF limited THEN "kill" ELSE pc

Room == Limit - Sum(call.got)

ReadPastLimit ==
  /\ pc = "select" /\ UNCHANGED <<now, stray>>
  /\ \E s \in call.batch :
       ReadEnd(s) \/ \E n \in 1..cmd.pipe[s] : ReadChunks(s, n, IF n < Room THEN n ELSE Room, FALSE)

ReadWhole ==
  /\ pc = "select" /\ UNCHANGED <<now, stray>>
  /\ \E s \in call.batch :
       ReadEnd(s) \/ \E n \in 1..cmd.pipe[s] : ReadChunks(s, n, n, n >= Room)

Read ==
  /\ pc = "select" /\ UNCHANGED <<now, stray>>
  /\ \E s \in call.batch :
       ReadEnd(s) \/ \E n \in 1..cmd.pipe[s] : ReadChunks(s, n, IF n < Room THEN n ELSE Room, n >= Room)

Selected == pc = "select" /\ call.batch = {} /\ pc' = "loop" /\ UNCHANGED <<now, call, cmd, stray>>

(* kill_group.  Its id is the group's until the leader was reaped.         *)
(* Mutant: the leader alone is killed.                                     *)
KillLeader == cmd' = [cmd EXCEPT !.dying = cmd.alive \cap {"leader"}] /\ UNCHANGED stray

KillGroup ==
  /\ cmd' = [cmd EXCEPT !.dying = cmd.alive \cap Group]
  /\ stray' = (stray \/ cmd.child = "reaped")

Kill == pc = "kill" /\ pc' = "wait" /\ KillGroup /\ UNCHANGED <<now, call>>

Reaped ==
  /\ "leader" \notin cmd.alive /\ cmd' = [cmd EXCEPT !.child = "reaped"]
  /\ pc' = "finally" /\ UNCHANGED <<now, call, stray>>

(* The exit is waited for as long as the command has time, or 0.1 s; then  *)
(* the group is killed.  Mutant: there is no end to that.                  *)
WaitForever == pc = "wait" /\ Reaped

Wait ==
  /\ pc = "wait"
  /\ \/ Reaped
     \/ /\ "leader" \in cmd.alive /\ now = Deadline /\ pc' = "reap"
        /\ call' = [call EXCEPT !.timedOut = TRUE] /\ KillGroup /\ UNCHANGED now

Reap == pc = "reap" /\ Reaped

(* The finally clause, of a call that returns or was interrupted.          *)
Finally ==
  /\ pc = "finally" /\ UNCHANGED <<now, call>>
  /\ IF cmd.child = "unreaped" /\ "leader" \in cmd.alive
       THEN KillGroup /\ pc' = "reap"
       ELSE /\ cmd' = [cmd EXCEPT !.child = "reaped"] /\ UNCHANGED stray
            /\ pc' = IF call.interrupted THEN "raised" ELSE "returned"

(* Ctrl-C, or SIGTERM during a validation; until the loop, nothing catches *)
(* it.                                                                     *)
Interrupt ==
  /\ pc \in Running \ {"finally"} /\ ~call.interrupted
  /\ pc' = IF pc = "input" THEN "abandoned" ELSE "finally"
  /\ call' = [call EXCEPT !.interrupted = TRUE, !.batch = {}]
  /\ UNCHANGED <<now, cmd, stray>>

Run == Start \/ Input \/ Loop \/ Read \/ Selected \/ Kill \/ Wait \/ Reap \/ Finally
Next == Run \/ Command \/ Tick \/ Interrupt

(* The program runs, time passes and SIGKILL kills; nothing is assumed of  *)
(* the command.                                                            *)
Dies(p) == p \in cmd.dying /\ Exit(p) /\ UNCHANGED <<pc, now, call, stray>>
Spec == /\ Init /\ [][Next]_vars /\ WF_vars(Run) /\ WF_vars(Tick)
        /\ \A p \in Procs : WF_vars(Dies(p))

(* checked(): the code its caller is given.                                *)
Code == IF call.timedOut THEN "COMMAND_TIMEOUT" ELSE IF call.limited THEN "OUTPUT_LIMIT"
        ELSE IF cmd.code # "zero" THEN "COMMAND_FAILED" ELSE "OK"

-----------------------------------------------------------------------------
(* What a caller is told.  OK: the command exited with 0 and all that was  *)
(* ever written to its pipes is in the result; COMMAND_FAILED: all of that *)
(* too.  COMMAND_TIMEOUT: its time is up.  OUTPUT_LIMIT: the result is     *)
(* full.                                                                   *)
OutcomeIsHonest ==
  pc = "returned" =>
    CASE Code = "COMMAND_TIMEOUT" -> now = Deadline
      [] Code = "OUTPUT_LIMIT" -> Sum(call.got) = Limit
      [] OTHER -> call.got = cmd.written /\ cmd.holds = {} /\ "leader" \notin cmd.alive

(* A command cut off at its deadline or its limit leaves nothing of its    *)
(* process group behind; one that was interrupted is not left running; and *)
(* no other group is ever killed in their place.                           *)
CutLeavesNothing ==
  /\ pc = "returned" /\ (call.timedOut \/ call.limited) => cmd.alive \cap Group \subseteq cmd.dying
  /\ pc \in {"returned", "raised"} => "leader" \notin cmd.alive
  /\ ~stray

(* Whatever the command does - never exits, never closes its output, forks *)
(* a process that keeps it open, closes it and stays - the call ends.      *)
Ends == <>(pc \in Finished)
=============================================================================
