----------------------- MODULE FunctionPoolProperties -----------------------
(***************************************************************************)
(* What must hold of the VM pool of one function (module FunctionPool):    *)
(* custody of the VMs, the slot counter, the waiters' channels, and what   *)
(* is eventually done. Line numbers are those of pool-manager/manager.go.  *)
(***************************************************************************)
EXTENDS FunctionPool

-----------------------------------------------------------------------------
(* Safety *)

\* Where VM v may be: in the hands of a handler, in a waiter's channel,
\* parked, kept by the sweeper, or killed by it and not yet counted out.
Places(v) ==
    {<<"hand", r>> : r \in {q \in Request : vm[q] = v}}
    \cup {<<"mail", w>> : w \in {q \in Request : mail[q] = v}}
    \cup {<<"warm", i>> : i \in {j \in DOMAIN warm : warm[j] = v}}
    \cup {<<"live", i>> : i \in {j \in DOMAIN live : live[j] = v}}
    \cup {<<"victim", Nil>> : x \in {victim} \cap {v}}

\* The VMs that have been killed while booted still counts them.
Dying == {v \in Request : \/ victim = v
                          \/ \E r \in Request : /\ pc[r] \in {"drop", "discard"}
                                                /\ vm[r] = v}

\* The VMs being booted. A replacement that failed keeps its slot until the
\* goroutine takes pool.mu again.
Booting == {r \in Request : pc[r] = "boot" \/ repl[r] = "boot"}
Unreleased == {w \in Request : repl[w] = "release"}

\* The slots in use.
Slots == alive \cup Booting \cup Unreleased \cup Dying

\* Custody of VMs. A VM is in at most one place, it is somewhere exactly when
\* it is up or has just been killed, and it is never both: no two requests
\* get the same VM, the sweeper and the handlers never kill each other's VM,
\* no VM is dropped while it runs, and no dead VM is handed out
\* (every send and receive of a *VM, every killVM).
VMCustody ==
    /\ \A v \in Request : \A a, b \in Places(v) : a = b
    /\ \A v \in Request : Places(v) # {} <=> v \in alive \cup Dying
    /\ alive \cap Dying = {}

\* booted counts exactly the slots in use, through every success, failure and
\* kill: two decrements for one VM, or none, would lift the limit or wedge
\* the function (line 60, "total VMs alive").
SlotAccounting == booted = Cardinality(Slots)

\* Config.MaxVMs holds for the VMs that exist, not just for the counter.
\* bootVM relies on it: a restored VM reuses the vsock path recorded in the
\* snapshot, so two of them would fight over one socket (lines 312-316).
CapacityRespected == MaxVMs > 0 => Cardinality(alive \cup Booting) <= MaxVMs

\* Who may still send to or close the channel of waiter w: whoever pops it
\* from the queue, the handler that popped it, the goroutine that boots for
\* it, a failWaiters call.
Signallers(w) ==
    {<<"queue", i>> : i \in {j \in DOMAIN waiting : waiting[j] = w}}
    \cup {<<"handoff", r>> : r \in {q \in Request : peer[q] = w}}
    \cup {<<"replacement", w>> : x \in {repl[w]} \cap {"boot"}}
    \cup UNION {{<<"drain", r, i>> : i \in {j \in DOMAIN drained[r] : drained[r][j] = w}}
                  : r \in Request}

\* A waiter is signalled at most once: while somebody may still signal it,
\* nobody else may, and its channel is empty and open. Otherwise a second
\* send would block a handler forever, and a send on a closed channel or a
\* second close would panic the process (lines 236, 278, 285, 298).
SignalledOnce ==
    \A w \in Request :
        /\ \A a, b \in Signallers(w) : a = b
        /\ Signallers(w) # {} => mail[w] = Nil /\ w \notin closed

\* A queued request whose client is still there is never forgotten: it is in
\* the queue, or somebody is about to signal it, or the signal is there.
NoWaiterForgotten ==
    \A w \in Request :
        pc[w] = "queued" /\ w \notin cancelled
            => Signallers(w) # {} \/ mail[w] # Nil \/ w \in closed

-----------------------------------------------------------------------------
(* Action property *)

\* Queued requests are served in order: a step that takes a connected request
\* out of the queue leaves no connected request in front of it behind
\* (lines 63-65, "popWaiter returns the first waiter whose client hasn't
\* disconnected").
ServedInOrder ==
    [][\A i, j \in DOMAIN waiting :
          /\ i < j
          /\ {waiting[i], waiting[j]} \cap cancelled = {}
          /\ waiting[i] \in Range(waiting')
          => waiting[j] \in Range(waiting')]_vars

-----------------------------------------------------------------------------
(* Liveness *)

\* A client that disconnects while it is queued always gets rid of its
\* handler, whatever the VMs, the boots and the other requests do.
ClientCanLeave ==
    \A r \in Request : pc[r] = "queued" /\ r \in cancelled ~> pc[r] # "queued"

\* The sweeper never keeps the VMs it took out of warm: each is put back or
\* killed, even when handlers have filled warm in the meantime.
SweeperGivesBack == live # <<>> ~> live = <<>>

\* A handler never hangs except in the queue: it ends with an answer or joins
\* the queue, and it ends if it is not in the queue. returnVM's send, in
\* particular, never blocks.
HandlersEnd ==
    \A r \in Request : pc[r] # "queued" ~> pc[r] \in {"queued", "done"}

\* Someone who pops a waiter, or takes it from the queue to fail it, has it
\* out of the queue in the end: a popped request is answered or runs.
PoppedWaiterResumes ==
    \A w \in Request :
        pc[w] = "queued" /\ w \notin Range(waiting) ~> pc[w] # "queued"

\* When a boot fails, nobody who was queued then waits on.
BootFailureReleasesWaiters ==
    \A w \in Request :
        (\E r \in Request : fails[r] = "drain") /\ w \in Range(waiting)
            ~> pc[w] # "queued"

\* w is the next connected request of the queue.
NextInLine(w) ==
    \E i \in DOMAIN waiting :
        waiting[i] = w /\ \A j \in 1 .. i - 1 : waiting[j] \in cancelled

\* The request at the head of the queue does not wait forever beside a VM
\* that is working: when that VM's request ends, well or badly, the head of
\* the queue gets that VM, a replacement, or an error.
BusyVMServesQueue ==
    \A w \in Request :
        (\E r \in Request : pc[r] = "invoke") /\ NextInLine(w)
            ~> pc[w] # "queued"

-----------------------------------------------------------------------------
(* What the comments of the code say and the code does not do *)

\* With no client leaving and no sweep, a queued request gets a VM or an error
\* in the end. Lines 126-127 say that the look at warm under pool.mu
\* "prevents the race where a VM was returned between the select above and
\* acquiring this lock".
QueuedRequestResumes ==
    [](cancelled = {} /\ spc = "rest")
        => \A r \in Request : pc[r] = "queued" ~> pc[r] # "queued"

\* Every VM that is up is warm or busy: parked (or about to be), booting for
\* or held by a request, or in the channel of a request that still waits.
\* Line 60 calls booted the "total VMs alive (warm + busy)".
EveryVMWarmOrBusy ==
    \A v \in alive :
        \/ v \in Range(warm) \cup Range(live)
        \/ \E r \in Request : vm[r] = v
        \/ \E r \in Request : mail[r] = v /\ pc[r] = "queued"

-----------------------------------------------------------------------------
(* FunctionPool implements VMLease *)

LeaseState(r) ==
    CASE pc[r] \in {"new", "slow", "boot", "failing", "queued"} -> "pending"
      [] pc[r] = "invoke" -> "running"
      [] OTHER -> "answered"

Lease == INSTANCE VMLease WITH
    VM <- Request,
    running <- alive,
    lease <- [r \in Request |-> IF pc[r] = "invoke" THEN vm[r] ELSE Nil],
    state <- [r \in Request |-> LeaseState(r)]

\* The pool keeps the promise of VMLease.
ImplementsVMLease == Lease!Spec
=============================================================================
