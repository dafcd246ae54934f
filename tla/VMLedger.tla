------------------------------ MODULE VMLedger ------------------------------
(***************************************************************************)
(* What VMBroker (agentlab/vm.py) promises about the host it shares, with  *)
(* no locks, files or processes in sight: a virtual machine exists only    *)
(* against a reservation, at most MaxVMs reservations are outstanding, and *)
(* a reservation is given back for good, once its machine is gone.         *)
(***************************************************************************)
EXTENDS Naturals, FiniteSets

CONSTANTS VMs,     \* the identifiers a deployment can draw
          MaxVMs   \* MAX_VMS, vm.py:26

VARIABLES outstanding,  \* the VMs that hold a reservation
          machines,     \* the VMs the hypervisor knows, running or shut off
          retired       \* the VMs whose reservation was given back

ledgerVars == <<outstanding, machines, retired>>

LedgerInit == outstanding = {} /\ machines = {} /\ retired = {}

Reserve(v) ==
  /\ v \notin outstanding \cup retired
  /\ Cardinality(outstanding) < MaxVMs
  /\ outstanding' = outstanding \cup {v}
  /\ UNCHANGED <<machines, retired>>

Create(v) ==
  /\ v \in outstanding
  /\ machines' = machines \cup {v}
  /\ UNCHANGED <<outstanding, retired>>

Remove(v) ==
  /\ v \in outstanding
  /\ machines' = machines \ {v}
  /\ UNCHANGED <<outstanding, retired>>

Retire(v) ==
  /\ v \in outstanding \ machines
  /\ outstanding' = outstanding \ {v}
  /\ retired' = retired \cup {v}
  /\ UNCHANGED machines

LedgerNext == \E v \in VMs : Reserve(v) \/ Create(v) \/ Remove(v) \/ Retire(v)

LedgerSpec == LedgerInit /\ [][LedgerNext]_ledgerVars
=============================================================================
