---------------------------- MODULE FunctionPool ----------------------------
(***************************************************************************)
(* The VM pool of one function: pool-manager/manager.go, type Pool and the *)
(* methods of PoolManager that work on it (Invoke, returnVM, discardVM,    *)
(* failWaiters, bootVM, idleSweeper).                                      *)
(*                                                                         *)
(* Actors: one HTTP handler goroutine per request (Invoke), one goroutine  *)
(* per replacement boot (the "go func" of discardVM) and the idle sweeper. *)
(* A section between pool.mu.Lock and pool.mu.Unlock is one step; so is    *)
(* one operation on a channel, which the code performs outside the lock.   *)
(* Everything a goroutine does between two such points touches only its    *)
(* own variables and belongs to the step before it.                        *)
(*                                                                         *)
(* A request waits in the pool at most once, so r also names its waiter    *)
(* and the waiter's channel. A VM is booted either by a request for itself *)
(* or as a replacement for one waiter, so the request also names the VM.   *)
(***************************************************************************)
EXTENDS Integers, Sequences, FiniteSets, Functions

CONSTANTS Request,       \* the POST /invoke/<function> requests
          MaxVMs,        \* Config.MaxVMs; 0 or less means unlimited
          WarmPoolSize,  \* Config.WarmPoolSize, the capacity of the warm channel
          Nil            \* a nil *VM, or no request

ASSUME MaxVMsAssumption == MaxVMs \in Int
ASSUME WarmPoolSizeAssumption == WarmPoolSize \in Nat
ASSUME NilAssumption == Nil \notin Request

VARIABLES
  \* shared: the fields of Pool
  warm,       \* chan *VM: the parked VMs, oldest first
  waiting,    \* []*waiter: the queued requests, oldest first
  booted,     \* the slot counter
  \* shared: the waiters' one-place channels, and the clients
  mail,       \* mail[w]: the VM buffered in waiter w's channel, or Nil
  closed,     \* the waiters whose channel has been closed
  cancelled,  \* the requests whose ctx is done
  \* the host
  alive,      \* the VMs that are up
  \* the handler goroutine of each request
  pc,         \* where in Invoke, returnVM or discardVM it is
  vm,         \* vm[r]: its VM, or Nil
  peer,       \* peer[r]: the waiter it popped in returnVM, or Nil
  \* replacement goroutines and failWaiters calls
  repl,       \* repl[w]: the goroutine that boots a VM for waiter w
  fails,      \* fails[r]: the failWaiters call made after r's VM failed to boot
  drained,    \* drained[r]: the waiters that call has still to close
  \* the idle sweeper
  spc,        \* what it is doing with this pool
  stale,      \* the parked VMs idle longer than idleTimeout at the tick's "now"
  live,       \* the VMs it took out of warm and means to put back
  victim      \* the VM it killed and has not yet counted out, or Nil

handlerVars == <<pc, vm, peer>>
goVars      == <<repl, fails, drained>>
sweepVars   == <<spc, stale, live, victim>>
poolVars    == <<warm, waiting, booted>>
channelVars == <<mail, closed>>
vars == <<poolVars, channelVars, cancelled, alive, handlerVars, goVars, sweepVars>>

-----------------------------------------------------------------------------
PCs == {"new",      \* Invoke has begun; next is the unlocked look at warm
        "slow",     \* warm was empty; next is the section under pool.mu
        "boot",     \* bootVM is running
        "failing",  \* bootVM failed; failWaiters is running
        "queued",   \* blocked on its channel or its ctx
        "invoke",   \* invokeViaVsock is running
        "return",   \* the guest answered; next is popWaiter in returnVM
        "handoff",  \* returnVM popped peer[r]; next is the send to it
        "park",     \* returnVM popped nobody; next is the send to warm
        "drop",     \* warm was full, the VM is killed; next is booted--
        "discard",  \* the VM failed and is killed; next is discardVM's section
        "done"}     \* the client has its answer

\* The idle sweeper collects from warm ("take"), then refills it ("put").
SweeperPCs == {"rest", "take", "put"}

TypeOK ==
    /\ warm \in Seq(Request) /\ Len(warm) <= WarmPoolSize
    /\ waiting \in Seq(Request)
    /\ booted \in Int
    /\ mail \in [Request -> Request \cup {Nil}]
    /\ closed \subseteq Request
    /\ cancelled \subseteq Request
    /\ alive \subseteq Request
    /\ pc \in [Request -> PCs]
    /\ vm \in [Request -> Request \cup {Nil}]
    /\ peer \in [Request -> Request \cup {Nil}]
    /\ repl \in [Request -> {"none", "boot", "release", "ended"}]
    /\ fails \in [Request -> {"none", "drain", "close"}]
    /\ drained \in [Request -> Seq(Request)]
    /\ spc \in SweeperPCs
    /\ stale \subseteq Request
    /\ live \in Seq(Request)
    /\ victim \in Request \cup {Nil}

Init ==
    /\ warm = <<>> /\ waiting = <<>> /\ booted = 0
    /\ mail = [r \in Request |-> Nil]
    /\ closed = {} /\ cancelled = {} /\ alive = {}
    /\ pc = [r \in Request |-> "new"]
    /\ vm = [r \in Request |-> Nil]
    /\ peer = [r \in Request |-> Nil]
    /\ repl = [r \in Request |-> "none"]
    /\ fails = [r \in Request |-> "none"]
    /\ drained = [r \in Request |-> <<>>]
    /\ spc = "rest" /\ stale = {} /\ live = <<>> /\ victim = Nil

-----------------------------------------------------------------------------
(* The operations the goroutines share. An operator X_Y is X with a bug     *)
(* that the properties must detect; no action uses it.                      *)

Goto(r, place) == pc' = [pc EXCEPT ![r] = place]
Obtain(r, v) == Goto(r, "invoke") /\ vm' = [vm EXCEPT ![r] = v]
GiveUp(r) == Goto(r, "done") /\ vm' = [vm EXCEPT ![r] = Nil]

\* killVM: SIGTERM to the process, its sockets removed.
Kill_Misses(v) == UNCHANGED alive
Kill(v) == alive' = alive \ {v}

\* booted-- under pool.mu
CountOut_Forgotten == UNCHANGED booted
CountOut == booted' = booted - 1

\* A slot is free: the test of Invoke and discardVM.
Below_OneTooMany(n) == MaxVMs <= 0 \/ n <= MaxVMs
Below(n) == MaxVMs <= 0 \/ n < MaxVMs

\* The count discardVM tests: booted has been decremented before.
CountAfterKill_Before == booted
CountAfterKill == booted - 1

\* The warm channel: send is possible, receive.
WarmHasRoom_OneMore == Len(warm) <= WarmPoolSize
WarmHasRoom == Len(warm) < WarmPoolSize
ReceiveWarm_Peek == UNCHANGED warm
ReceiveWarm == warm' = Tail(warm)

\* A waiter's channel: send does not block (the buffer is empty), close.
CanSend_Unbuffered(w) == mail[w] = Nil /\ pc[w] = "queued"
CanSend(w) == mail[w] = Nil
Close_Forgotten(w) == UNCHANGED closed
Close(w) == closed' = closed \cup {w}

\* popWaiter returns w: the first waiter whose client is still there. It
\* throws away the cancelled ones in front of it.
PopWaiter_AnyOrder(w) ==
    w \in Range(waiting) \ cancelled /\ waiting' = SelectSeq(waiting, LAMBDA x : x # w)
PopWaiter(w) ==
    \E i \in DOMAIN waiting :
        /\ waiting[i] = w /\ w \notin cancelled
        /\ \A j \in 1 .. i - 1 : waiting[j] \in cancelled
        /\ waiting' = SubSeq(waiting, i + 1, Len(waiting))

\* popWaiter returns nil: nobody waits, or only clients that have left.
PopNobody_GivesUpEarly ==
    (waiting # <<>> => Head(waiting) \in cancelled) /\ waiting' = <<>>
PopNobody == Range(waiting) \subseteq cancelled /\ waiting' = <<>>

-----------------------------------------------------------------------------
(* Invoke: getting a VM *)

\* A parked VM is there, at the unlocked look or at the one under pool.mu.
TakeWarm(r) ==
    /\ pc[r] \in {"new", "slow"} /\ warm # <<>>
    /\ ReceiveWarm
    /\ Obtain(r, Head(warm))
    /\ UNCHANGED <<waiting, booted, channelVars, cancelled, alive, peer, goVars, sweepVars>>

\* The unlocked look finds warm empty.
MissWarm(r) ==
    /\ pc[r] = "new" /\ warm = <<>>
    /\ Goto(r, "slow")
    /\ UNCHANGED <<poolVars, channelVars, cancelled, alive, vm, peer, goVars, sweepVars>>

\* Under pool.mu: warm is still empty, a slot is free and r takes it.
ReserveSlot(r) ==
    /\ pc[r] = "slow" /\ warm = <<>> /\ Below(booted)
    /\ booted' = booted + 1
    /\ Goto(r, "boot")
    /\ UNCHANGED <<warm, waiting, channelVars, cancelled, alive, vm, peer, goVars, sweepVars>>

\* Under pool.mu: warm is still empty and no slot is free, so r queues.
Enqueue(r) ==
    /\ pc[r] = "slow" /\ warm = <<>> /\ ~ Below(booted)
    /\ waiting' = Append(waiting, r)
    /\ Goto(r, "queued")
    /\ UNCHANGED <<warm, booted, channelVars, cancelled, alive, vm, peer, goVars, sweepVars>>

\* bootVM returns a VM, restored or cold booted.
BootSucceeds(r) ==
    /\ pc[r] = "boot"
    /\ alive' = alive \cup {r}
    /\ Obtain(r, r)
    /\ UNCHANGED <<poolVars, channelVars, cancelled, peer, goVars, sweepVars>>

\* bootVM fails, having killed what it started; the slot is given back and
\* failWaiters is called.
BootFails(r) ==
    /\ pc[r] = "boot"
    /\ CountOut
    /\ fails' = [fails EXCEPT ![r] = "drain"]
    /\ Goto(r, "failing")
    /\ UNCHANGED <<warm, waiting, channelVars, cancelled, alive, vm, peer, repl, drained,
                   sweepVars>>

\* A queued request receives the VM that was sent to it.
ReceiveVM(r) ==
    /\ pc[r] = "queued" /\ mail[r] # Nil
    /\ mail' = [mail EXCEPT ![r] = Nil]
    /\ Obtain(r, mail[r])
    /\ UNCHANGED <<poolVars, closed, cancelled, alive, peer, goVars, sweepVars>>

\* A queued request receives nil from its closed channel and fails.
ReceiveNil(r) ==
    /\ pc[r] = "queued" /\ mail[r] = Nil /\ r \in closed
    /\ Goto(r, "done")
    /\ UNCHANGED <<poolVars, channelVars, cancelled, alive, vm, peer, goVars, sweepVars>>

\* A queued request whose client has left gives up; its waiter stays where it
\* is. select is free to take this branch when a VM has arrived too.
CtxDone_UnlessPopped(r) == r \in cancelled /\ r \in Range(waiting)
CtxDone(r) == r \in cancelled
LeaveQueue(r) ==
    /\ pc[r] = "queued" /\ CtxDone(r)
    /\ Goto(r, "done")
    /\ UNCHANGED <<poolVars, channelVars, cancelled, alive, vm, peer, goVars, sweepVars>>

\* The client of r disconnects. Invoke and popWaiter look at ctx only while
\* r is queued, so earlier and later disconnections are the same as none.
ClientLeaves(r) ==
    /\ pc[r] \in {"slow", "queued"}
    /\ cancelled' = cancelled \cup {r}
    /\ UNCHANGED <<poolVars, channelVars, alive, handlerVars, goVars, sweepVars>>

-----------------------------------------------------------------------------
(* Invoke: running on the VM; returnVM and discardVM *)

\* The guest answers; the VM was used just now, so it is not stale.
GuestAnswers(r) ==
    /\ pc[r] = "invoke"
    /\ stale' = stale \ {vm[r]}
    /\ Goto(r, "return")
    /\ UNCHANGED <<poolVars, channelVars, cancelled, alive, vm, peer, goVars, spc, live, victim>>

\* The vsock connection fails, or the guest reports an infrastructure error:
\* discardVM kills the VM.
GuestFails(r) ==
    /\ pc[r] = "invoke"
    /\ Kill(vm[r])
    /\ Goto(r, "discard")
    /\ UNCHANGED <<poolVars, channelVars, cancelled, vm, peer, goVars, sweepVars>>

\* returnVM under pool.mu: somebody is waiting.
ReturnPopsWaiter(r) ==
    /\ pc[r] = "return"
    /\ \E w \in Request : PopWaiter(w) /\ peer' = [peer EXCEPT ![r] = w]
    /\ Goto(r, "handoff")
    /\ UNCHANGED <<warm, booted, channelVars, cancelled, alive, vm, goVars, sweepVars>>

\* returnVM under pool.mu: nobody is waiting.
ReturnPopsNobody(r) ==
    /\ pc[r] = "return"
    /\ PopNobody
    /\ Goto(r, "park")
    /\ UNCHANGED <<warm, booted, channelVars, cancelled, alive, vm, peer, goVars, sweepVars>>

\* returnVM sends the VM to the waiter it popped.
HandOff(r) ==
    /\ pc[r] = "handoff" /\ CanSend(peer[r])
    /\ mail' = [mail EXCEPT ![peer[r]] = vm[r]]
    /\ peer' = [peer EXCEPT ![r] = Nil]
    /\ GiveUp(r)
    /\ UNCHANGED <<poolVars, closed, cancelled, alive, goVars, sweepVars>>

\* returnVM sends the VM to warm, outside pool.mu.
Park(r) ==
    /\ pc[r] = "park" /\ WarmHasRoom
    /\ warm' = Append(warm, vm[r])
    /\ GiveUp(r)
    /\ UNCHANGED <<waiting, booted, channelVars, cancelled, alive, peer, goVars, sweepVars>>

\* returnVM finds warm full and kills the VM ...
ParkFull(r) ==
    /\ pc[r] = "park" /\ ~ WarmHasRoom
    /\ Kill(vm[r])
    /\ Goto(r, "drop")
    /\ UNCHANGED <<poolVars, channelVars, cancelled, vm, peer, goVars, sweepVars>>

\* ... and counts it out.
Drop(r) ==
    /\ pc[r] = "drop"
    /\ CountOut
    /\ GiveUp(r)
    /\ UNCHANGED <<warm, waiting, channelVars, cancelled, alive, peer, goVars, sweepVars>>

\* discardVM under pool.mu: the slot of the dead VM passes to the first
\* waiter, for which a replacement is booted.
DiscardForWaiter(r) ==
    /\ pc[r] = "discard" /\ Below(CountAfterKill)
    /\ \E w \in Request : PopWaiter(w) /\ repl' = [repl EXCEPT ![w] = "boot"]
    /\ GiveUp(r)
    /\ UNCHANGED <<warm, booted, channelVars, cancelled, alive, peer, fails, drained, sweepVars>>

\* discardVM under pool.mu: the slot of the dead VM is given back, because
\* nobody waits or because the pool is still at its limit.
Discard(r) ==
    /\ pc[r] = "discard"
    /\ IF Below(CountAfterKill) THEN PopNobody ELSE UNCHANGED waiting
    /\ CountOut
    /\ GiveUp(r)
    /\ UNCHANGED <<warm, channelVars, cancelled, alive, peer, goVars, sweepVars>>

-----------------------------------------------------------------------------
(* The replacement goroutine of discardVM, for waiter w *)

\* The replacement is up and is sent to the waiter.
ReplacementBoots(w) ==
    /\ repl[w] = "boot" /\ CanSend(w)
    /\ alive' = alive \cup {w}
    /\ mail' = [mail EXCEPT ![w] = w]
    /\ repl' = [repl EXCEPT ![w] = "ended"]
    /\ UNCHANGED <<poolVars, closed, cancelled, handlerVars, fails, drained, sweepVars>>

\* The replacement does not boot: the waiter's channel is closed ...
ReplacementFails(w) ==
    /\ repl[w] = "boot"
    /\ Close(w)
    /\ repl' = [repl EXCEPT ![w] = "release"]
    /\ UNCHANGED <<poolVars, mail, cancelled, alive, handlerVars, fails, drained, sweepVars>>

\* ... and then its slot is given back and failWaiters is called.
ReplacementReleases(w) ==
    /\ repl[w] = "release"
    /\ CountOut
    /\ repl' = [repl EXCEPT ![w] = "ended"]
    /\ fails' = [fails EXCEPT ![w] = "drain"]
    /\ UNCHANGED <<warm, waiting, channelVars, cancelled, alive, handlerVars, drained, sweepVars>>

-----------------------------------------------------------------------------
(* failWaiters, called because the VM of r did not boot *)

\* Under pool.mu the whole queue is taken.
ResetQueue_Forgotten == UNCHANGED waiting
ResetQueue == waiting' = <<>>
DrainQueue(r) ==
    /\ fails[r] = "drain"
    /\ drained' = [drained EXCEPT ![r] = waiting]
    /\ ResetQueue
    /\ fails' = [fails EXCEPT ![r] = "close"]
    /\ UNCHANGED <<warm, booted, channelVars, cancelled, alive, handlerVars, repl, sweepVars>>

\* The next of the taken waiters has its channel closed.
CloseNext(r) ==
    /\ fails[r] = "close" /\ drained[r] # <<>>
    /\ Close(Head(drained[r]))
    /\ drained' = [drained EXCEPT ![r] = Tail(@)]
    /\ UNCHANGED <<poolVars, mail, cancelled, alive, handlerVars, repl, fails, sweepVars>>

\* All are closed; if the caller is r's own handler, r gets its error.
LoopEnds_Anytime(r) == TRUE
LoopEnds(r) == drained[r] = <<>>
FailWaitersReturns(r) ==
    /\ fails[r] = "close" /\ LoopEnds(r)
    /\ fails' = [fails EXCEPT ![r] = "none"]
    /\ pc' = [pc EXCEPT ![r] = IF @ = "failing" THEN "done" ELSE @]
    /\ UNCHANGED <<poolVars, channelVars, cancelled, alive, vm, peer, repl, drained, sweepVars>>

-----------------------------------------------------------------------------
(* idleSweeper, at this pool *)

\* A tick: "now" is read, which settles which parked VMs are idle too long.
SweepStart ==
    /\ spc = "rest"
    /\ stale' \in SUBSET Range(warm)
    /\ spc' = "take"
    /\ UNCHANGED <<poolVars, channelVars, cancelled, alive, handlerVars, goVars, live, victim>>

\* A VM is taken out of warm and kept for later.
SweepKeep ==
    /\ spc = "take" /\ victim = Nil /\ warm # <<>> /\ Head(warm) \notin stale
    /\ ReceiveWarm
    /\ live' = Append(live, Head(warm))
    /\ UNCHANGED <<waiting, booted, channelVars, cancelled, alive, handlerVars, goVars,
                   spc, stale, victim>>

\* A VM idle too long is taken out of warm and killed.
SweepKill ==
    /\ spc = "take" /\ victim = Nil /\ warm # <<>> /\ Head(warm) \in stale
    /\ ReceiveWarm
    /\ Kill(Head(warm))
    /\ victim' = Head(warm)
    /\ UNCHANGED <<waiting, booted, channelVars, cancelled, handlerVars, goVars,
                   spc, stale, live>>

\* warm is found empty: on to putting the kept VMs back.
SweepTurn ==
    /\ spc = "take" /\ victim = Nil /\ warm = <<>>
    /\ spc' = "put"
    /\ UNCHANGED <<poolVars, channelVars, cancelled, alive, handlerVars, goVars,
                   stale, live, victim>>

\* A kept VM goes back into warm.
SweepPutBack ==
    /\ spc = "put" /\ victim = Nil /\ live # <<>> /\ WarmHasRoom
    /\ warm' = Append(warm, Head(live))
    /\ live' = Tail(live)
    /\ UNCHANGED <<waiting, booted, channelVars, cancelled, alive, handlerVars, goVars,
                   spc, stale, victim>>

\* A kept VM no longer fits into warm and is killed.
SweepPutFull_Blocks == FALSE
SweepPutFull ==
    /\ spc = "put" /\ victim = Nil /\ live # <<>> /\ ~ WarmHasRoom
    /\ Kill(Head(live))
    /\ victim' = Head(live)
    /\ live' = Tail(live)
    /\ UNCHANGED <<poolVars, channelVars, cancelled, handlerVars, goVars, spc, stale>>

\* Under pool.mu the VM just killed is counted out.
SweepCountOut ==
    /\ victim # Nil
    /\ CountOut
    /\ victim' = Nil
    /\ UNCHANGED <<warm, waiting, channelVars, cancelled, alive, handlerVars, goVars,
                   spc, stale, live>>

\* Done with this pool until the next tick.
SweepEnd ==
    /\ spc = "put" /\ victim = Nil /\ live = <<>>
    /\ spc' = "rest" /\ stale' = {}
    /\ UNCHANGED <<poolVars, channelVars, cancelled, alive, handlerVars, goVars, live, victim>>

-----------------------------------------------------------------------------
\* Steps that end because code of this process runs on.
Handler(r) ==
    \/ TakeWarm(r) \/ MissWarm(r) \/ ReserveSlot(r) \/ Enqueue(r)
    \/ ReceiveVM(r) \/ ReceiveNil(r) \/ LeaveQueue(r)
    \/ ReturnPopsWaiter(r) \/ ReturnPopsNobody(r) \/ HandOff(r)
    \/ Park(r) \/ ParkFull(r) \/ Drop(r) \/ DiscardForWaiter(r) \/ Discard(r)

FailWaiters(r) == DrainQueue(r) \/ CloseNext(r) \/ FailWaitersReturns(r)

Sweep == SweepKeep \/ SweepKill \/ SweepTurn \/ SweepPutBack \/ SweepPutFull
         \/ SweepCountOut \/ SweepEnd

\* Steps that end when Firecracker or the guest lets them.
Boot(r) == BootSucceeds(r) \/ BootFails(r)
Guest(r) == GuestAnswers(r) \/ GuestFails(r)
Replacement(w) == ReplacementBoots(w) \/ ReplacementFails(w)

Next ==
    \/ \E r \in Request :
          \/ Handler(r) \/ FailWaiters(r) \/ ReplacementReleases(r)
          \/ Boot(r) \/ Guest(r) \/ Replacement(r)
          \/ ClientLeaves(r)
    \/ SweepStart
    \/ Sweep

Spec == Init /\ [][Next]_vars

\* The Go scheduler runs every goroutine that can run, and no lock section
\* blocks inside. Nothing forces clients to leave or the ticker to tick.
Fairness ==
    /\ \A r \in Request :
          /\ WF_vars(Handler(r))
          /\ WF_vars(FailWaiters(r))
          /\ WF_vars(ReplacementReleases(r))
    /\ WF_vars(Sweep)

\* Boots are bounded by waitForVsock, invocations by the deadline that
\* invokeViaVsock sets, as long as the vsock handshake itself is answered.
GuestFairness ==
    \A r \in Request : WF_vars(Boot(r)) /\ WF_vars(Guest(r)) /\ WF_vars(Replacement(r))

LocalFairSpec == Spec /\ Fairness
FairSpec == Spec /\ Fairness /\ GuestFairness
=============================================================================
