---------------------------- MODULE SandboxCalls ----------------------------
(***************************************************************************)
(* The calls of one job that reach its container: Registry.call            *)
(* (agentlab/registry.py), which takes the job's lock, runs the operation  *)
(* and appends an event, and the operations of agentlab/sandbox.py.        *)
(*                                                                         *)
(* Each labctl is a process.  Podman's client is one too, in a session of  *)
(* its own: it outlives a labctl that is killed, and does what it was      *)
(* about to do whenever it comes to it.  That it returns says little of    *)
(* the command: that may have left a child behind, and the client may have *)
(* failed while the command runs on.                                       *)
(***************************************************************************)
EXTENDS Naturals, Sequences

CONSTANTS Callers,
          MaxCalls, MaxFaults, MaxKills   \* bounds: calls, failing commands and writes, deaths

ASSUME CallsAssumption == Callers # {} /\ {MaxCalls, MaxFaults, MaxKills} \subseteq Nat

VARIABLES box,      \* the job's container: status; born: the call that made it; inside: the
                    \* calls of which something still runs in it
          events,   \* events.jsonl: the call of each line, and whether it can be read
          torn,     \* the last line has no end
          replies,  \* what finished calls were told
          calls,    \* calls so far, numbered as they get the lock
          at,       \* each caller: pc, its call, the result of its operation; noted: the
                    \* result says that the event was lost
          lock,     \* the callers that hold the job's lock
          orphans,  \* clients whose labctl was killed: the call and what the client does
          faults, kills

vars == <<box, events, torn, replies, calls, at, lock, orphans, faults, kills>>

Ops    == {"create", "execute", "destroy"}
Absent == [status |-> "absent", born |-> 0, inside |-> {}]
Idle   == [pc |-> "idle", op |-> "create", id |-> 0, result |-> "NONE", noted |-> FALSE]
Labels == {"idle", "inspect", "run", "record", "exec", "executing", "stop", "rm", "verify", "event",
           "reply"}
Codes  == {"NONE", "OK", "FAILED", "SANDBOX_STOPPED", "SANDBOX_NOT_RUNNING", "CLEANUP_FAILED",
           "LIMIT", "LIMIT_NOT_STOPPED", "EVENT_LOG_FAILED"}
Lines  == [id : 1..MaxCalls, ok : BOOLEAN]

(* The variables hold what the program can put in them; only what runs     *)
(* has commands in it; a caller with an operation under way has the lock.  *)
TypeOK ==
  /\ box \in [status : {"absent", "running", "stopped"}, born : 0..MaxCalls,
              inside : SUBSET (1..MaxCalls)]
  /\ box.status # "running" => box.inside = {}
  /\ \A i \in DOMAIN events : events[i] \in Lines
  /\ torn \in BOOLEAN /\ calls \in 0..MaxCalls
  /\ \A i \in DOMAIN replies : replies[i] \in [id : 1..MaxCalls, op : Ops, code : Codes, noted : BOOLEAN]
  /\ \A c \in Callers :
       /\ at[c] \in [pc : Labels, op : Ops, id : 0..MaxCalls, result : Codes, noted : BOOLEAN]
       /\ at[c].pc # "idle" <=> lock = {c}

Init ==
  /\ box = Absent /\ events = <<>> /\ torn = FALSE /\ replies = <<>> /\ calls = 0
  /\ at = [c \in Callers |-> Idle] /\ lock = {} /\ orphans = {} /\ faults = 0 /\ kills = 0

-----------------------------------------------------------------------------
Fault == faults < MaxFaults /\ faults' = faults + 1
To(c, label) == at' = [at EXCEPT ![c].pc = label]
Result(c, code) == at' = [at EXCEPT ![c].pc = "event", ![c].result = code]
Record == <<events, torn, replies, calls, lock, orphans, kills>>

(* What podman does, if it can: in a call that waits for it, or after.     *)
Made(id) == IF box.status = "absent" THEN [status |-> "running", born |-> id, inside |-> {}] ELSE box
Stopped == IF box.status = "running" THEN [box EXCEPT !.status = "stopped", !.inside = {}] ELSE box
Entered(id) == IF box.status = "running" THEN [box EXCEPT !.inside = @ \cup {id}] ELSE box
Effect(do, id) == CASE do = "run"  -> Made(id)
                    [] do = "exec" -> Entered(id)
                    [] do = "stop" -> Stopped
                    [] do = "rm"   -> Absent

(* The last of a command's processes ends, by itself or by `timeout`.      *)
CommandEnds ==
  /\ \E id \in box.inside : box' = [box EXCEPT !.inside = @ \ {id}]
  /\ UNCHANGED <<at, faults, Record>>

(* The container's own stop, by the kernel or with the host.               *)
BoxStops ==
  /\ box.status = "running" /\ Fault /\ box' = Stopped /\ UNCHANGED <<at, Record>>

OrphanActs ==
  /\ \E o \in orphans :
       /\ box' \in {box, Effect(o.do, o.id)} /\ orphans' = orphans \ {o}
  /\ UNCHANGED <<at, events, torn, replies, calls, lock, faults, kills>>

(* The lock is free; RESOURCE_BUSY, the other case, leaves nothing.        *)
Call(c) ==
  /\ lock = {} /\ calls < MaxCalls
  /\ calls' = calls + 1 /\ lock' = {c}
  /\ \E op \in Ops : at' = [at EXCEPT ![c] = [pc |-> "inspect", op |-> op, id |-> calls',
                                                   result |-> "NONE", noted |-> FALSE]]
  /\ UNCHANGED <<box, events, torn, replies, orphans, faults, kills>>

(* A query that fails ends any operation.                                  *)
Inspect(c) ==
  /\ at[c].pc = "inspect" /\ UNCHANGED <<box, Record>>
  /\ \/ Fault /\ Result(c, "FAILED")
     \/ /\ UNCHANGED faults
        /\ CASE at[c].op = "create" /\ box.status = "absent"   -> To(c, "run")
             [] at[c].op = "create" /\ box.status = "running"  -> Result(c, "OK")
             [] at[c].op = "create" /\ box.status = "stopped"  -> Result(c, "SANDBOX_STOPPED")
             [] at[c].op = "execute" /\ box.status = "running" -> To(c, "exec")
             [] at[c].op = "execute" /\ box.status # "running" -> Result(c, "SANDBOX_NOT_RUNNING")
             [] at[c].op = "destroy"                           -> To(c, IF box.status = "absent" THEN "verify" ELSE "rm")

(* podman run, which may fail at any stage; sandbox.json and the state.    *)
RunBox(c) ==
  /\ at[c].pc = "run" /\ UNCHANGED Record
  /\ \/ /\ box.status = "absent" /\ box' = Made(at[c].id) /\ To(c, "record") /\ UNCHANGED faults
     \/ /\ Fault \/ (box.status # "absent" /\ UNCHANGED faults)
        /\ box' \in {box, Made(at[c].id)} \cup {[b EXCEPT !.status = "stopped"] : b \in {Made(at[c].id)} \ {box}}
        /\ Result(c, "FAILED")

SaveBox(c) ==
  /\ at[c].pc = "record" /\ UNCHANGED <<box, Record>>
  /\ (Result(c, "OK") /\ UNCHANGED faults) \/ (Fault /\ Result(c, "FAILED"))

(* podman exec: the command enters the container, if that still runs.      *)
Exec(c) ==
  /\ at[c].pc = "exec" /\ UNCHANGED <<faults, Record>>
  /\ box' = Entered(at[c].id) /\ To(c, "executing")

(* The client has returned.  Whatever it returned, but for the codes of    *)
(* `timeout`, is for the operation to judge: of the command it says        *)
(* nothing for sure.                                                       *)
Returned(c) == \E code \in {"OK", "FAILED"} : Result(c, code)

(* Mutant: what `timeout` did in the container is taken for all.           *)
ExecTrusted(c) ==
  /\ at[c].pc = "executing" /\ UNCHANGED <<box, faults, Record>>
  /\ Returned(c) \/ Result(c, "LIMIT")

ExecEnds(c) ==
  /\ at[c].pc = "executing" /\ UNCHANGED <<box, faults, Record>>
  /\ Returned(c) \/ To(c, "stop")

(* Over its time or its output: killing the client alone would leave the   *)
(* command running, so the container is stopped.                           *)
StopBox(c) ==
  /\ at[c].pc = "stop" /\ UNCHANGED Record
  /\ \/ box.status # "absent" /\ box' = Stopped /\ Result(c, "LIMIT") /\ UNCHANGED faults
     \/ /\ Fault \/ (box.status = "absent" /\ UNCHANGED faults)
        /\ box' \in {box, Stopped} /\ Result(c, "LIMIT_NOT_STOPPED")

(* Mutant: podman's word is taken for it.                                  *)
VerifyNothing(c) ==
  /\ at[c].pc = "rm" /\ UNCHANGED Record
  /\ \/ box' = Absent /\ Result(c, "OK") /\ UNCHANGED faults
     \/ Fault /\ box' \in {box, Absent} /\ Result(c, "OK")

RemoveBox(c) ==
  /\ at[c].pc = "rm" /\ UNCHANGED Record
  /\ \/ box' = Absent /\ To(c, "verify") /\ UNCHANGED faults
     \/ /\ Fault \/ (box.status = "absent" /\ UNCHANGED faults)
        /\ box' \in {box, Absent} /\ Result(c, "FAILED")

Verify(c) ==
  /\ at[c].pc = "verify" /\ UNCHANGED <<box, Record>>
  /\ \/ Fault /\ Result(c, "FAILED")
     \/ Result(c, IF box.status = "absent" THEN "OK" ELSE "CLEANUP_FAILED") /\ UNCHANGED faults

-----------------------------------------------------------------------------
(* The event, then the reply.                                              *)

(* A line that follows one without an end cannot be read.                  *)
AppendEvent(id) ==
  /\ events' = Append(events, [id |-> id, ok |-> ~torn]) /\ torn' = FALSE

(* A write that fails, or is cut off, leaves none of its line, a part, or  *)
(* all of it (fsync may be what failed).                                   *)
CutEvent(id) ==
  \/ UNCHANGED <<events, torn>>
  \/ events' = Append(events, [id |-> id, ok |-> FALSE]) /\ torn' = TRUE
  \/ AppendEvent(id)

(* Mutant: an event is best effort.                                        *)
EventBestEffort(c) ==
  /\ at[c].pc = "event" /\ To(c, "reply")
  /\ (AppendEvent(at[c].id) /\ UNCHANGED faults) \/ (Fault /\ CutEvent(at[c].id))
  /\ UNCHANGED <<box, replies, calls, lock, orphans, kills>>

(* An operation that succeeded is not reported as a success without its    *)
(* event.                                                                  *)
Event(c) ==
  /\ at[c].pc = "event"
  /\ \/ AppendEvent(at[c].id) /\ To(c, "reply") /\ UNCHANGED faults
     \/ /\ Fault /\ CutEvent(at[c].id)
        /\ at' = [at EXCEPT ![c].pc = "reply", ![c].noted = TRUE,
                            ![c].result = IF @ = "OK" THEN "EVENT_LOG_FAILED" ELSE @]
  /\ UNCHANGED <<box, replies, calls, lock, orphans, kills>>

(* Mutant: the lock is kept.                                               *)
ReplyLocked(c) ==
  /\ at[c].pc = "reply"
  /\ replies' = Append(replies, [id |-> at[c].id, op |-> at[c].op, code |-> at[c].result,
                                 noted |-> at[c].noted])
  /\ at' = [at EXCEPT ![c] = Idle]
  /\ UNCHANGED <<box, events, torn, calls, lock, orphans, faults, kills>>

(* The lock is freed and the answer printed, in one step: the properties   *)
(* ask something of an answer once it is out, and nothing before.          *)
Reply(c) ==
  /\ at[c].pc = "reply"
  /\ replies' = Append(replies, [id |-> at[c].id, op |-> at[c].op, code |-> at[c].result,
                                 noted |-> at[c].noted])
  /\ at' = [at EXCEPT ![c] = Idle] /\ lock' = {}
  /\ UNCHANGED <<box, events, torn, calls, orphans, faults, kills>>

(* A labctl is interrupted, with its client, or killed without it, in the  *)
(* middle of a write too.                                                  *)
Kill(c) ==
  /\ at[c].pc # "idle" /\ kills < MaxKills /\ kills' = kills + 1
  /\ at' = [at EXCEPT ![c] = Idle] /\ lock' = {}
  /\ \/ UNCHANGED <<orphans, events, torn>>
     \/ /\ at[c].pc \in {"run", "exec", "stop", "rm"} /\ UNCHANGED <<events, torn>>
        /\ orphans' = orphans \cup {[id |-> at[c].id, do |-> at[c].pc]}
     \/ at[c].pc = "event" /\ CutEvent(at[c].id) /\ UNCHANGED orphans
  /\ UNCHANGED <<box, replies, calls, faults>>

Step(c) == \/ Inspect(c) \/ RunBox(c) \/ SaveBox(c) \/ Exec(c) \/ ExecEnds(c) \/ StopBox(c)
           \/ RemoveBox(c) \/ Verify(c) \/ Event(c) \/ Reply(c)

Next == \/ \E c \in Callers : Call(c) \/ Step(c) \/ Kill(c)
        \/ CommandEnds \/ BoxStops \/ OrphanActs

Spec == Init /\ [][Next]_vars

-----------------------------------------------------------------------------
Replies == {replies[i] : i \in DOMAIN replies}

(* The event log accounts for every success: calls are in it in the order  *)
(* they had the lock, and each that was told OK has a line there.  That    *)
(* line can be read, unless the line before it is of a call whose answer   *)
(* spoke of the lost event, or which was killed before it had an answer.   *)
SuccessIsLogged ==
  /\ \A i, j \in DOMAIN events : i < j => events[i].id < events[j].id
  /\ \A r \in Replies : r.code = "OK" =>
       \E j \in DOMAIN events :
         /\ events[j].id = r.id
         /\ \/ events[j].ok
            \/ j > 1 /\ \A q \in Replies : q.id = events[j - 1].id => q.noted

(* A caller that was told of a stop on a limit, or of a removal, is right  *)
(* for good: of the calls answered up to then, nothing runs, and nothing   *)
(* runs again in a container made later.  (Before such a stop a command    *)
(* may well outlive a call that was told OK, sandbox.py:77-89.)            *)
Over(r) == r.code = "LIMIT" \/ (r.op = "destroy" /\ r.code \in {"OK", "EVENT_LOG_FAILED"})

StoppedStaysStopped ==
  \A r, q \in Replies : Over(r) /\ q.id \in box.inside => q.id > r.id

(* A container that was said to be removed is, even if the event of that   *)
(* was lost: what is there now was made later, or by a podman that had     *)
(* lost its labctl.                                                        *)
RemovedStaysRemoved ==
  \A r \in Replies :
    r.op = "destroy" /\ r.code \in {"OK", "EVENT_LOG_FAILED"} /\ box.status # "absent" =>
      box.born > r.id \/ \A q \in Replies : q.id # box.born
=============================================================================
