------------------------------- MODULE VMLease -------------------------------
(***************************************************************************)
(* What one function's VM pool promises to the HTTP clients that invoke    *)
(* the function, with the pool's queues, channels and goroutines left out. *)
(*                                                                         *)
(* A micro-VM runs at most one request at a time, only a running VM is     *)
(* given to a request, never more than MaxVMs VMs run at once, a VM that a *)
(* request is using is stopped by nobody but that request, and a request   *)
(* is run at most once and then answered.                                  *)
(***************************************************************************)
EXTENDS Integers, FiniteSets

CONSTANTS Request,  \* HTTP POST /invoke/<function> requests
          VM,       \* names of the VMs that may ever be booted
          MaxVMs,   \* Config.MaxVMs; 0 or less means unlimited
          Nil       \* no VM

VARIABLES running,  \* the VMs that are up
          lease,    \* lease[r]: the VM that request r is running on, or Nil
          state     \* state[r] \in {"pending", "running", "answered"}

vars == <<running, lease, state>>

TypeOK ==
    /\ running \subseteq VM
    /\ lease \in [Request -> VM \cup {Nil}]
    /\ state \in [Request -> {"pending", "running", "answered"}]

Init ==
    /\ running = {}
    /\ lease = [r \in Request |-> Nil]
    /\ state = [r \in Request |-> "pending"]

Leased(v) == \E r \in Request : lease[r] = v

\* A new VM comes up.
Boot(v) ==
    /\ v \notin running
    /\ MaxVMs > 0 => Cardinality(running) < MaxVMs
    /\ running' = running \cup {v}
    /\ UNCHANGED <<lease, state>>

\* A VM nobody uses is stopped (it was idle, or the warm pool was full).
Stop(v) ==
    /\ v \in running
    /\ ~ Leased(v)
    /\ running' = running \ {v}
    /\ UNCHANGED <<lease, state>>

\* Request r starts on VM v.
Lease(r, v) ==
    /\ state[r] = "pending"
    /\ v \in running
    /\ ~ Leased(v)
    /\ lease' = [lease EXCEPT ![r] = v]
    /\ state' = [state EXCEPT ![r] = "running"]
    /\ UNCHANGED running

\* A cold start: VM v comes up and r is the first to run on it.
BootAndLease(r, v) ==
    /\ state[r] = "pending"
    /\ v \notin running
    /\ MaxVMs > 0 => Cardinality(running) < MaxVMs
    /\ running' = running \cup {v}
    /\ lease' = [lease EXCEPT ![r] = v]
    /\ state' = [state EXCEPT ![r] = "running"]

\* The guest answered: the VM is given up and stays up.
Release(r) ==
    /\ state[r] = "running"
    /\ lease' = [lease EXCEPT ![r] = Nil]
    /\ state' = [state EXCEPT ![r] = "answered"]
    /\ UNCHANGED running

\* The guest failed: the VM is given up and stopped in one step.
ReleaseAndStop(r) ==
    /\ state[r] = "running"
    /\ running' = running \ {lease[r]}
    /\ lease' = [lease EXCEPT ![r] = Nil]
    /\ state' = [state EXCEPT ![r] = "answered"]

\* The request is answered with an error and never ran.
Refuse(r) ==
    /\ state[r] = "pending"
    /\ state' = [state EXCEPT ![r] = "answered"]
    /\ UNCHANGED <<running, lease>>

Next ==
    \/ \E v \in VM : Boot(v) \/ Stop(v)
    \/ \E r \in Request : Release(r) \/ ReleaseAndStop(r) \/ Refuse(r)
    \/ \E r \in Request, v \in VM : Lease(r, v) \/ BootAndLease(r, v)

Spec == Init /\ [][Next]_vars
==============================================================================
