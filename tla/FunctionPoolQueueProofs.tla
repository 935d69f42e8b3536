----------------------- MODULE FunctionPoolQueueProofs -----------------------
(***************************************************************************)
(* Proofs about the queue of one function's pool and the waiters' channels *)
(* for any set of requests, any MaxVMs and any WarmPoolSize: a waiter is   *)
(* signalled once, none is forgotten, and the queue is served in order.    *)
(***************************************************************************)
EXTENDS FunctionPoolProofs

USE DEF poolVars, channelVars, handlerVars, goVars, sweepVars

-----------------------------------------------------------------------------
(* The inductive invariant *)

\* A waiter has one signaller at most. NamesFresh says the rest: it is queued
\* once, and no replacement is booted for a queued waiter.
SignallersApart ==
    /\ \A r, q \in Request : peer[r] = peer[q] /\ peer[r] # Nil => r = q
    /\ \A r, q \in Request : r # q => Range(drained[r]) \cap Range(drained[q]) = {}
    /\ \A r, q \in Request : peer[r] \notin Range(drained[q])
    /\ \A r \in Request : /\ Distinct(drained[r])
                          /\ Range(drained[r]) \cap Range(waiting) = {}
                          /\ \A w \in Range(drained[r]) : repl[w] = "none"
    /\ \A r \in Request : peer[r] # Nil => /\ peer[r] \notin Range(waiting)
                                           /\ repl[peer[r]] = "none"

\* Somebody may still send to waiter w or close its channel.
Pending(w) == \/ w \in Range(waiting)
              \/ \E r \in Request : peer[r] = w
              \/ repl[w] = "boot"
              \/ \E r \in Request : w \in Range(drained[r])

\* Only a request that has queued has a signaller, and until it is signalled
\* its channel is empty and open.
ChannelsFresh ==
    \A w \in Request :
        /\ Pending(w) => pc[w] \in {"queued", "done"}
        /\ Pending(w) \/ pc[w] \in {"new", "slow"} => mail[w] = Nil /\ w \notin closed

\* A request calls failWaiters once: for its own boot, or because the
\* replacement that was booted for it failed; so no call overwrites the list
\* that an earlier one is still closing.
FailsOnce ==
    \A r \in Request :
        /\ fails[r] # "none" => pc[r] = "failing" \/ repl[r] = "ended"
        /\ fails[r] # "close" => drained[r] = <<>>
        /\ pc[r] = "failing" => repl[r] = "none"

\* A queued request whose client is still there has a signaller or its signal.
Remembered ==
    \A w \in Request :
        pc[w] = "queued" /\ w \notin cancelled
            => Pending(w) \/ mail[w] # Nil \/ w \in closed

SignalInv == SignallersApart /\ ChannelsFresh /\ FailsOnce /\ Remembered

-----------------------------------------------------------------------------
\* popWaiter takes a connected waiter and drops, besides it, only waiters whose
\* client has left.
LEMMA PopWaiterTakes ==
    ASSUME waiting \in Seq(Request), NEW w, PopWaiter(w)
    PROVE  /\ w \in Range(waiting) /\ w \notin cancelled
           /\ waiting' \in Seq(Request)
           /\ Range(waiting') \subseteq Range(waiting)
           /\ \A x \in Range(waiting) \ Range(waiting') : x = w \/ x \in cancelled
           /\ Distinct(waiting) => Distinct(waiting') /\ w \notin Range(waiting')
<1>1. PICK i \in DOMAIN waiting :
         /\ waiting[i] = w /\ w \notin cancelled
         /\ \A j \in 1 .. i - 1 : waiting[j] \in cancelled
         /\ waiting' = SubSeq(waiting, i + 1, Len(waiting))
  BY DEF PopWaiter
<1>2. /\ waiting' \in Seq(Request)
      /\ Range(waiting') \subseteq Range(waiting)
      /\ Distinct(waiting) => Distinct(waiting') /\ w \notin Range(waiting')
  BY <1>1, SuffixElements
<1>3. ASSUME NEW x \in Range(waiting), x \notin Range(waiting')
      PROVE  x = w \/ x \in cancelled
  <2>1. PICK j \in DOMAIN waiting : waiting[j] = x
    BY <1>3 DEF Range
  <2>2. DOMAIN waiting = 1 .. Len(waiting) /\ Len(waiting) \in Nat
    OBVIOUS
  <2>3. CASE j > i
    <3>1. /\ DOMAIN waiting' = 1 .. Len(waiting) - i
          /\ \A k \in 1 .. Len(waiting) - i : waiting'[k] = waiting[k + i]
      BY <1>1, <2>2
    <3>2. j - i \in 1 .. Len(waiting) - i /\ waiting'[j - i] = x
      BY <1>1, <2>1, <2>2, <2>3, <3>1
    <3> QED
      BY <1>3, <3>1, <3>2 DEF Range
  <2>4. CASE j = i
    BY <1>1, <2>1, <2>4
  <2>5. CASE j < i
    BY <1>1, <2>1, <2>2, <2>5
  <2> QED
    BY <1>1, <2>2, <2>3, <2>4, <2>5
<1>4. w \in Range(waiting)
  BY <1>1 DEF Range
<1> QED
  BY <1>1, <1>2, <1>3, <1>4

\* The handlers move in a way that matters to no waiter.
Onward ==
    \A r \in Request :
        \/ pc'[r] = pc[r]
        \/ pc[r] = "queued" /\ pc'[r] = "done"
           /\ (r \in cancelled \/ r \in closed)
        \/ /\ pc[r] \notin {"queued", "done", "failing"}
           /\ pc'[r] \notin {"queued", "failing"}
           /\ pc'[r] \in {"new", "slow"} => pc[r] = "new"

\* The steps that touch neither the queue nor a channel: they run on a VM, use
\* warm, reserve a slot, leave the queue or belong to the sweeper.
Elsewhere == /\ UNCHANGED <<waiting, peer, channelVars, goVars>>
             /\ cancelled \subseteq cancelled'
             /\ Onward

LEMMA ElsewhereKeeps == TypeInv /\ SignalInv /\ Elsewhere => SignalInv'
<1> SUFFICES ASSUME TypeInv, SignalInv, Elsewhere
             PROVE  SignalInv'
  OBVIOUS
<1> USE DEF Elsewhere, Onward, SignalInv, TypeInv, TypeOK
<1>1. SignallersApart'
  BY DEF SignallersApart
<1>2. \A w \in Request : Pending(w)' <=> Pending(w)
  BY DEF Pending
<1>3. ChannelsFresh'
  BY <1>2 DEF ChannelsFresh
<1>4. FailsOnce'
  BY DEF FailsOnce
<1>5. Remembered'
  BY <1>2 DEF Remembered
<1> QED
  BY <1>1, <1>3, <1>4, <1>5

LEMMA ElsewhereSteps ==
    ASSUME TypeInv,
           \/ \E r \in Request :
                 \/ TakeWarm(r) \/ MissWarm(r) \/ ReserveSlot(r)
                 \/ BootSucceeds(r) \/ GuestAnswers(r) \/ GuestFails(r)
                 \/ ReceiveNil(r) \/ LeaveQueue(r) \/ ClientLeaves(r)
                 \/ Park(r) \/ ParkFull(r) \/ Drop(r)
           \/ SweepStart \/ Sweep
           \/ UNCHANGED vars
    PROVE  Elsewhere
<1> USE DEF Elsewhere, Onward, TypeInv, TypeOK
<1>1. ASSUME NEW r \in Request, TakeWarm(r) \/ MissWarm(r) \/ ReserveSlot(r)
      PROVE  Elsewhere
  BY <1>1 DEF TakeWarm, MissWarm, ReserveSlot, Obtain, Goto
<1>2. ASSUME NEW r \in Request, BootSucceeds(r) \/ GuestAnswers(r) \/ GuestFails(r)
      PROVE  Elsewhere
  BY <1>2 DEF BootSucceeds, GuestAnswers, GuestFails, Obtain, Goto
<1>3. ASSUME NEW r \in Request, ReceiveNil(r) \/ LeaveQueue(r) \/ ClientLeaves(r)
      PROVE  Elsewhere
  BY <1>3 DEF ReceiveNil, LeaveQueue, CtxDone, ClientLeaves, Goto
<1>4. ASSUME NEW r \in Request, Park(r) \/ ParkFull(r) \/ Drop(r)
      PROVE  Elsewhere
  BY <1>4 DEF Park, ParkFull, Drop, GiveUp, Goto
<1>5. ASSUME SweepStart \/ Sweep
      PROVE  Elsewhere
  BY <1>5 DEF SweepStart, Sweep, SweepKeep, SweepKill, SweepTurn, SweepPutBack, SweepPutFull,
              SweepCountOut, SweepEnd
<1>6. ASSUME UNCHANGED vars
      PROVE  Elsewhere
  BY <1>6 DEF vars
<1> QED
  BY <1>1, <1>2, <1>3, <1>4, <1>5, <1>6

LEMMA SignalInvStep == TypeInv /\ Custody /\ SignalInv /\ [Next]_vars => SignalInv'
<1> SUFFICES ASSUME TypeInv, Custody, SignalInv, [Next]_vars
             PROVE  SignalInv'
  OBVIOUS
<1> TypeInv'
  BY TypeInvStep
<1> USE NilAssumption DEF TypeInv, TypeOK, SignalInv, Custody
<1>1. ASSUME NEW r \in Request, Enqueue(r)
      PROVE  SignalInv'
  <2>1. /\ Range(waiting') = Range(waiting) \cup {r}
        /\ UNCHANGED <<channelVars, cancelled, peer, goVars>>
        /\ pc[r] = "slow" /\ pc' = [pc EXCEPT ![r] = "queued"]
    BY <1>1, AppendElements DEF Enqueue, Goto
  <2>2. ~ Pending(r)
    BY <2>1 DEF ChannelsFresh
  <2>3. \A w \in Request : Pending(w)' <=> Pending(w) \/ w = r
    BY <2>1 DEF Pending
  <2>4. SignallersApart'
    BY <2>1, <2>2, <2>3 DEF SignallersApart, Pending
  <2>5. ChannelsFresh'
    BY <2>1, <2>2, <2>3 DEF ChannelsFresh
  <2>6. FailsOnce'
    BY <2>1, <2>2, <2>3 DEF FailsOnce
  <2>7. Remembered'
    BY <2>1, <2>2, <2>3 DEF Remembered
  <2> QED
    BY <2>4, <2>5, <2>6, <2>7
<1>2. ASSUME NEW r \in Request, BootFails(r)
      PROVE  SignalInv'
  <2>1. /\ UNCHANGED <<waiting, channelVars, cancelled, peer, repl, drained>>
        /\ pc[r] = "boot" /\ pc' = [pc EXCEPT ![r] = "failing"]
        /\ fails' = [fails EXCEPT ![r] = "drain"]
    BY <1>2 DEF BootFails, Goto
  <2>2. repl[r] = "none"
    BY <2>1 DEF NamesFresh
  <2>3. \A w \in Request : Pending(w)' <=> Pending(w)
    BY <2>1 DEF Pending
  <2>4. SignallersApart'
    BY <2>1, <2>2, <2>3 DEF SignallersApart
  <2>5. ChannelsFresh'
    BY <2>1, <2>2, <2>3 DEF ChannelsFresh
  <2>6. FailsOnce'
    BY <2>1, <2>2, <2>3 DEF FailsOnce
  <2>7. Remembered'
    BY <2>1, <2>2, <2>3 DEF Remembered
  <2> QED
    BY <2>4, <2>5, <2>6, <2>7
<1>3. ASSUME NEW r \in Request, ReceiveVM(r)
      PROVE  SignalInv'
  <2>1. /\ UNCHANGED <<waiting, closed, cancelled, peer, goVars>>
        /\ pc[r] = "queued" /\ pc' = [pc EXCEPT ![r] = "invoke"]
        /\ mail[r] # Nil /\ mail' = [mail EXCEPT ![r] = Nil]
    BY <1>3 DEF ReceiveVM, Obtain, Goto
  <2>2. ~ Pending(r)
    BY <2>1 DEF ChannelsFresh
  <2>3. \A w \in Request : Pending(w)' <=> Pending(w)
    BY <2>1 DEF Pending
  <2>4. SignallersApart'
    BY <2>1, <2>2, <2>3 DEF SignallersApart
  <2>5. ChannelsFresh'
    BY <2>1, <2>2, <2>3 DEF ChannelsFresh
  <2>6. FailsOnce'
    BY <2>1, <2>2, <2>3 DEF FailsOnce
  <2>7. Remembered'
    BY <2>1, <2>2, <2>3 DEF Remembered
  <2> QED
    BY <2>4, <2>5, <2>6, <2>7
<1>4. ASSUME NEW r \in Request, ReturnPopsWaiter(r)
      PROVE  SignalInv'
  <2>1. PICK v \in Request : PopWaiter(v) /\ peer' = [peer EXCEPT ![r] = v]
    BY <1>4 DEF ReturnPopsWaiter
  <2>2. /\ UNCHANGED <<channelVars, cancelled, goVars>>
        /\ pc[r] = "return" /\ pc' = [pc EXCEPT ![r] = "handoff"]
        /\ peer[r] = Nil
    BY <1>4 DEF ReturnPopsWaiter, Goto, HandsFull
  <2>3. /\ v \in Range(waiting) /\ v \notin Range(waiting')
        /\ Range(waiting') \subseteq Range(waiting)
        /\ \A x \in Range(waiting) \ Range(waiting') : x = v \/ x \in cancelled
    BY <2>1, PopWaiterTakes DEF NamesFresh
  <2>4. \A w \in Request : /\ Pending(w)' => Pending(w)
                           /\ Pending(w) => Pending(w)' \/ w \in cancelled
    BY <2>1, <2>2, <2>3 DEF Pending
  <2>5. SignallersApart'
    <3>1. /\ v # Nil /\ peer'[r] = v /\ \A q \in Request \ {r} : peer'[q] = peer[q]
          /\ UNCHANGED <<repl, drained>>
      BY <2>1, <2>2
    <3>2. /\ repl[v] = "none"
          /\ \A q \in Request : peer[q] # v /\ v \notin Range(drained[q])
      BY <2>3 DEF SignallersApart, NamesFresh
    <3> HIDE DEF TypeInv, TypeOK, Custody
    <3> QED
      BY <2>3, <3>1, <3>2 DEF SignallersApart
  <2>6. ChannelsFresh'
    BY <2>1, <2>2, <2>3, <2>4 DEF ChannelsFresh
  <2>7. FailsOnce'
    BY <2>1, <2>2, <2>3, <2>4 DEF FailsOnce
  <2>8. Remembered'
    BY <2>1, <2>2, <2>3, <2>4 DEF Remembered
  <2> QED
    BY <2>5, <2>6, <2>7, <2>8
<1>5. ASSUME NEW r \in Request, ReturnPopsNobody(r)
      PROVE  SignalInv'
  <2>1. /\ UNCHANGED <<channelVars, cancelled, peer, goVars>>
        /\ pc[r] = "return" /\ pc' = [pc EXCEPT ![r] = "park"]
        /\ Range(waiting) \subseteq cancelled /\ Range(waiting') = {}
    BY <1>5, EmptyElements DEF ReturnPopsNobody, PopNobody, Goto
  <2>2. \A w \in Request : /\ Pending(w)' => Pending(w)
                           /\ Pending(w) => Pending(w)' \/ w \in cancelled
    BY <2>1 DEF Pending
  <2>3. SignallersApart'
    BY <2>1, <2>2 DEF SignallersApart
  <2>4. ChannelsFresh'
    BY <2>1, <2>2 DEF ChannelsFresh
  <2>5. FailsOnce'
    BY <2>1, <2>2 DEF FailsOnce
  <2>6. Remembered'
    BY <2>1, <2>2 DEF Remembered
  <2> QED
    BY <2>3, <2>4, <2>5, <2>6
<1>6. ASSUME NEW r \in Request, HandOff(r)
      PROVE  SignalInv'
  <2>1. /\ UNCHANGED <<waiting, closed, cancelled, goVars>>
        /\ pc[r] = "handoff" /\ pc' = [pc EXCEPT ![r] = "done"]
        /\ peer[r] \in Request /\ peer' = [peer EXCEPT ![r] = Nil]
        /\ vm[r] \in Request /\ mail' = [mail EXCEPT ![peer[r]] = vm[r]]
    BY <1>6 DEF HandOff, GiveUp, Goto, HandsFull, Holding
  <2>2. \A w \in Request : Pending(w)' <=> Pending(w) /\ w # peer[r]
    BY <2>1 DEF Pending, SignallersApart
  <2>3. \A w \in Request : w # peer[r] => mail'[w] = mail[w]
    BY <2>1
  <2>4. Pending(peer[r]) /\ \A q \in Request : Nil \notin Range(drained[q])
    BY <2>1 DEF Pending, Range
  <2>5. SignallersApart'
    BY <2>1, <2>2, <2>3, <2>4 DEF SignallersApart
  <2>6. ChannelsFresh'
    BY <2>1, <2>2, <2>3, <2>4 DEF ChannelsFresh
  <2>7. FailsOnce'
    BY <2>1, <2>2, <2>3, <2>4 DEF FailsOnce
  <2>8. Remembered'
    BY <2>1, <2>2, <2>3, <2>4 DEF Remembered
  <2> QED
    BY <2>5, <2>6, <2>7, <2>8
<1>7. ASSUME NEW r \in Request, DiscardForWaiter(r)
      PROVE  SignalInv'
  <2>1. PICK v \in Request : PopWaiter(v) /\ repl' = [repl EXCEPT ![v] = "boot"]
    BY <1>7 DEF DiscardForWaiter
  <2>2. /\ UNCHANGED <<channelVars, cancelled, peer, fails, drained>>
        /\ pc[r] = "discard" /\ pc' = [pc EXCEPT ![r] = "done"]
    BY <1>7 DEF DiscardForWaiter, GiveUp, Goto
  <2>3. /\ v \in Range(waiting) /\ v \notin Range(waiting')
        /\ Range(waiting') \subseteq Range(waiting)
        /\ \A x \in Range(waiting) \ Range(waiting') : x = v \/ x \in cancelled
    BY <2>1, PopWaiterTakes DEF NamesFresh
  <2>4. \A w \in Request : /\ Pending(w)' => Pending(w)
                           /\ Pending(w) => Pending(w)' \/ w \in cancelled
    BY <2>1, <2>2, <2>3 DEF Pending
  <2>5. repl[v] = "none" /\ pc[v] \in {"queued", "done"}
    BY <2>3 DEF NamesFresh, ChannelsFresh, Pending
  <2>6. SignallersApart'
    BY <2>1, <2>2, <2>3, <2>4, <2>5 DEF SignallersApart
  <2>7. ChannelsFresh'
    BY <2>1, <2>2, <2>3, <2>4, <2>5 DEF ChannelsFresh
  <2>8. FailsOnce'
    BY <2>1, <2>2, <2>3, <2>4, <2>5 DEF FailsOnce
  <2>9. Remembered'
    BY <2>1, <2>2, <2>3, <2>4, <2>5 DEF Remembered
  <2> QED
    BY <2>6, <2>7, <2>8, <2>9
<1>8. ASSUME NEW r \in Request, Discard(r)
      PROVE  SignalInv'
  <2>1. /\ UNCHANGED <<channelVars, cancelled, peer, goVars>>
        /\ pc[r] = "discard" /\ pc' = [pc EXCEPT ![r] = "done"]
    BY <1>8 DEF Discard, GiveUp, Goto
  <2>2. \/ Range(waiting) \subseteq cancelled /\ Range(waiting') = {}
        \/ waiting' = waiting
    BY <1>8, EmptyElements DEF Discard, PopNobody
  <2>3. \A w \in Request : /\ Pending(w)' => Pending(w)
                           /\ Pending(w) => Pending(w)' \/ w \in cancelled
    BY <2>1, <2>2 DEF Pending
  <2>4. SignallersApart'
    BY <2>1, <2>2, <2>3 DEF SignallersApart
  <2>5. ChannelsFresh'
    BY <2>1, <2>2, <2>3 DEF ChannelsFresh
  <2>6. FailsOnce'
    BY <2>1, <2>2, <2>3 DEF FailsOnce
  <2>7. Remembered'
    BY <2>1, <2>2, <2>3 DEF Remembered
  <2> QED
    BY <2>4, <2>5, <2>6, <2>7
<1>9. ASSUME NEW r \in Request, ReplacementBoots(r)
      PROVE  SignalInv'
  <2>1. /\ UNCHANGED <<waiting, closed, cancelled, pc, peer, fails, drained>>
        /\ repl[r] = "boot" /\ repl' = [repl EXCEPT ![r] = "ended"]
        /\ mail' = [mail EXCEPT ![r] = r]
    BY <1>9 DEF ReplacementBoots
  <2>2. ~ Pending(r)'
    BY <2>1 DEF Pending, SignallersApart, NamesFresh
  <2>3. \A w \in Request : Pending(w)' <=> Pending(w) /\ w # r
    BY <2>1, <2>2 DEF Pending
  <2>4. pc[r] \in {"queued", "done"}
    BY <2>1 DEF ChannelsFresh, Pending
  <2>5. SignallersApart'
    BY <2>1, <2>2, <2>3, <2>4 DEF SignallersApart
  <2>6. ChannelsFresh'
    BY <2>1, <2>2, <2>3, <2>4 DEF ChannelsFresh
  <2>7. FailsOnce'
    BY <2>1, <2>2, <2>3, <2>4 DEF FailsOnce
  <2>8. Remembered'
    BY <2>1, <2>2, <2>3, <2>4 DEF Remembered
  <2> QED
    BY <2>5, <2>6, <2>7, <2>8
<1>10. ASSUME NEW r \in Request, ReplacementFails(r)
       PROVE  SignalInv'
  <2>1. /\ UNCHANGED <<waiting, mail, cancelled, pc, peer, fails, drained>>
        /\ repl[r] = "boot" /\ repl' = [repl EXCEPT ![r] = "release"]
        /\ closed' = closed \cup {r}
    BY <1>10 DEF ReplacementFails, Close
  <2>2. ~ Pending(r)'
    BY <2>1 DEF Pending, SignallersApart, NamesFresh
  <2>3. \A w \in Request : Pending(w)' <=> Pending(w) /\ w # r
    BY <2>1, <2>2 DEF Pending
  <2>4. pc[r] \in {"queued", "done"}
    BY <2>1 DEF ChannelsFresh, Pending
  <2>5. SignallersApart'
    BY <2>1, <2>2, <2>3, <2>4 DEF SignallersApart
  <2>6. ChannelsFresh'
    BY <2>1, <2>2, <2>3, <2>4 DEF ChannelsFresh
  <2>7. FailsOnce'
    BY <2>1, <2>2, <2>3, <2>4 DEF FailsOnce
  <2>8. Remembered'
    BY <2>1, <2>2, <2>3, <2>4 DEF Remembered
  <2> QED
    BY <2>5, <2>6, <2>7, <2>8
<1>11. ASSUME NEW r \in Request, ReplacementReleases(r)
       PROVE  SignalInv'
  <2>1. /\ UNCHANGED <<waiting, channelVars, cancelled, pc, peer, drained>>
        /\ repl[r] = "release" /\ repl' = [repl EXCEPT ![r] = "ended"]
        /\ fails' = [fails EXCEPT ![r] = "drain"]
    BY <1>11 DEF ReplacementReleases
  <2>2. fails[r] = "none" /\ pc[r] # "failing"
    BY <2>1 DEF FailsOnce
  <2>3. \A w \in Request : Pending(w)' <=> Pending(w)
    BY <2>1 DEF Pending
  <2>4. SignallersApart'
    BY <2>1, <2>2, <2>3 DEF SignallersApart
  <2>5. ChannelsFresh'
    BY <2>1, <2>2, <2>3 DEF ChannelsFresh
  <2>6. FailsOnce'
    BY <2>1, <2>2, <2>3 DEF FailsOnce
  <2>7. Remembered'
    BY <2>1, <2>2, <2>3 DEF Remembered
  <2> QED
    BY <2>4, <2>5, <2>6, <2>7
<1>12. ASSUME NEW r \in Request, DrainQueue(r)
       PROVE  SignalInv'
  <2>1. /\ UNCHANGED <<channelVars, cancelled, pc, peer, repl>>
        /\ fails[r] = "drain" /\ fails' = [fails EXCEPT ![r] = "close"]
        /\ drained' = [drained EXCEPT ![r] = waiting]
        /\ Range(waiting') = {}
    BY <1>12, EmptyElements DEF DrainQueue, ResetQueue
  <2>2. Range(drained[r]) = {}
    BY <2>1, EmptyElements DEF FailsOnce
  <2>3. /\ drained'[r] = waiting
        /\ \A q \in Request : q # r => drained'[q] = drained[q]
    BY <2>1
  <2>4. Nil \notin Range(waiting) /\ Distinct(waiting)
    BY DEF Range, NamesFresh
  <2>5. \A w \in Request : Pending(w)' <=> Pending(w)
    <3>1. \A w : w \in Range(drained'[r]) <=> w \in Range(waiting)
      BY <2>3
    <3>2. \A w, q : q # r /\ q \in Request
             => (w \in Range(drained'[q]) <=> w \in Range(drained[q]))
      BY <2>3
    <3> QED
      BY <2>1, <2>2, <3>1, <3>2 DEF Pending
  <2>6. SignallersApart'
    BY <2>1, <2>2, <2>3, <2>4, <2>5 DEF SignallersApart, NamesFresh
  <2>7. ChannelsFresh'
    BY <2>1, <2>2, <2>3, <2>4, <2>5 DEF ChannelsFresh
  <2>8. FailsOnce'
    BY <2>1, <2>2, <2>3, <2>4, <2>5 DEF FailsOnce
  <2>9. Remembered'
    BY <2>1, <2>2, <2>3, <2>4, <2>5 DEF Remembered
  <2> QED
    BY <2>6, <2>7, <2>8, <2>9
<1>13. ASSUME NEW r \in Request, CloseNext(r)
       PROVE  SignalInv'
  <2>1. PICK v \in Request : v = Head(drained[r])
    BY <1>13, TailElements DEF CloseNext
  <2>2. /\ UNCHANGED <<waiting, mail, cancelled, pc, peer, repl, fails>>
        /\ fails[r] = "close" /\ closed' = closed \cup {v}
        /\ drained' = [drained EXCEPT ![r] = Tail(drained[r])]
    BY <1>13, <2>1 DEF CloseNext, Close
  <2>3. /\ v \in Range(drained[r])
        /\ Range(drained[r]) = {v} \cup Range(Tail(drained[r]))
        /\ Distinct(Tail(drained[r])) /\ v \notin Range(Tail(drained[r]))
    BY <1>13, <2>1, TailElements DEF CloseNext, SignallersApart
  <2>4. /\ drained'[r] = Tail(drained[r])
        /\ \A q \in Request : q # r => drained'[q] = drained[q]
    BY <2>2
  <2>5. Pending(v)
    BY <2>3 DEF Pending
  <2>6. ~ Pending(v)'
    <3>1. v \notin Range(waiting) /\ repl[v] # "boot"
      BY <2>3 DEF SignallersApart
    <3>2. \A q \in Request : peer[q] # v
      BY <2>3 DEF SignallersApart
    <3>3. \A q \in Request : v \notin Range(drained'[q])
      BY <2>3, <2>4 DEF SignallersApart
    <3> QED
      BY <2>2, <3>1, <3>2, <3>3 DEF Pending
  <2>7. \A w \in Request : Pending(w)' <=> Pending(w) /\ w # v
    <3>1. \A w \in Request, q \in Request :
             w # v => (w \in Range(drained'[q]) <=> w \in Range(drained[q]))
      BY <2>3, <2>4
    <3> QED
      BY <2>2, <2>5, <2>6, <3>1 DEF Pending
  <2>8. SignallersApart'
    <3>1. SignallersApart
      OBVIOUS
    <3> HIDE DEF TypeInv, TypeOK, Custody, SignalInv
    <3>2. \A q \in Request : Range(drained'[q]) \subseteq Range(drained[q])
      BY <2>3, <2>4
    <3>3. \A q \in Request : Distinct(drained'[q])
      BY <2>3, <2>4, <3>1 DEF SignallersApart
    <3>4. \A q, u \in Request : q # u => Range(drained'[q]) \cap Range(drained'[u]) = {}
      BY <3>1, <3>2 DEF SignallersApart
    <3>5. \A q \in Request : /\ Range(drained'[q]) \cap Range(waiting) = {}
                             /\ \A w \in Range(drained'[q]) : repl[w] = "none"
                             /\ \A u \in Request : peer[u] \notin Range(drained'[q])
      BY <3>1, <3>2 DEF SignallersApart
    <3> QED
      BY <2>2, <3>1, <3>3, <3>4, <3>5 DEF SignallersApart
  <2>9. ChannelsFresh'
    BY <2>1, <2>2, <2>3, <2>4, <2>5, <2>6, <2>7 DEF ChannelsFresh
  <2>10. FailsOnce'
    BY <2>1, <2>2, <2>3, <2>4, <2>5, <2>6, <2>7 DEF FailsOnce
  <2>11. Remembered'
    BY <2>1, <2>2, <2>3, <2>4, <2>5, <2>6, <2>7 DEF Remembered
  <2> QED
    BY <2>8, <2>9, <2>10, <2>11
<1>14. ASSUME NEW r \in Request, FailWaitersReturns(r)
       PROVE  SignalInv'
  <2>1. /\ UNCHANGED <<waiting, channelVars, cancelled, peer, repl, drained>>
        /\ drained[r] = <<>> /\ fails' = [fails EXCEPT ![r] = "none"]
        /\ pc' = [pc EXCEPT ![r] = IF @ = "failing" THEN "done" ELSE @]
    BY <1>14 DEF FailWaitersReturns, LoopEnds
  <2>2. \A w \in Request : \/ pc'[w] = pc[w]
                           \/ pc[w] = "failing" /\ pc'[w] = "done"
    <3>1. pc'[r] = IF pc[r] = "failing" THEN "done" ELSE pc[r]
      BY <2>1
    <3>2. \A w \in Request : w # r => pc'[w] = pc[w]
      BY <2>1
    <3> QED
      BY <3>1, <3>2
  <2>3. \A w \in Request : Pending(w)' <=> Pending(w)
    BY <2>1 DEF Pending
  <2>4. SignallersApart'
    BY <2>1, <2>2, <2>3 DEF SignallersApart
  <2>5. ChannelsFresh'
    BY <2>1, <2>2, <2>3 DEF ChannelsFresh
  <2>6. FailsOnce'
    BY <2>1, <2>2, <2>3 DEF FailsOnce
  <2>7. Remembered'
    BY <2>1, <2>2, <2>3 DEF Remembered
  <2> QED
    BY <2>4, <2>5, <2>6, <2>7
<1>15. ASSUME Elsewhere
      PROVE  SignalInv'
  BY <1>15, ElsewhereKeeps
<1> HIDE DEF TypeInv, TypeOK, SignalInv, Custody
<1> QED
  BY <1>1, <1>2, <1>3, <1>4, <1>5, <1>6, <1>7, <1>8, <1>9, <1>10, <1>11, <1>12, <1>13, <1>14, <1>15, ElsewhereSteps
     DEF Next, Handler, FailWaiters, Boot, Guest, Replacement

-----------------------------------------------------------------------------
(* The theorems *)

\* SignalInv is inductive, together with the invariant of FunctionPoolProofs.
THEOREM SignalInvariance == Spec => [](Inv /\ SignalInv)
<1>1. Init => SignalInv
  <2> SUFFICES ASSUME Init
               PROVE  SignalInv
    OBVIOUS
  <2>1. /\ \A r \in Request : /\ peer[r] = Nil /\ drained[r] = <<>> /\ repl[r] = "none"
                              /\ fails[r] = "none" /\ pc[r] = "new" /\ mail[r] = Nil
        /\ Range(waiting) = {} /\ closed = {}
    BY EmptyElements DEF Init
  <2>2. \A w \in Request : ~ Pending(w)
    BY <2>1, EmptyElements, NilAssumption DEF Pending
  <2>3. SignallersApart
    BY <2>1, EmptyElements, NilAssumption DEF SignallersApart
  <2>4. ChannelsFresh /\ FailsOnce /\ Remembered
    BY <2>1, <2>2 DEF ChannelsFresh, FailsOnce, Remembered
  <2> QED
    BY <2>3, <2>4 DEF SignalInv
<1>2. Inv /\ SignalInv /\ [Next]_vars => SignalInv'
  BY SignalInvStep DEF Inv
<1> QED
  BY <1>1, <1>2, Invariance, PTL DEF Spec

\* The signallers of a waiter, kind by kind.
LEMMA SignallersOf ==
    ASSUME NEW w
    PROVE  /\ \A i \in DOMAIN waiting : waiting[i] = w => <<"queue", i>> \in Signallers(w)
           /\ \A r \in Request : peer[r] = w => <<"handoff", r>> \in Signallers(w)
           /\ repl[w] = "boot" => <<"replacement", w>> \in Signallers(w)
           /\ \A r \in Request : \A i \in DOMAIN drained[r] :
                 drained[r][i] = w => <<"drain", r, i>> \in Signallers(w)
<1>1. \A i \in DOMAIN waiting : waiting[i] = w => <<"queue", i>> \in Signallers(w)
  BY Zenon DEF Signallers
<1>2. \A r \in Request : peer[r] = w => <<"handoff", r>> \in Signallers(w)
  BY Zenon DEF Signallers
<1>3. repl[w] = "boot" => <<"replacement", w>> \in Signallers(w)
  BY Zenon DEF Signallers
<1>4. ASSUME NEW r \in Request, NEW i \in DOMAIN drained[r], drained[r][i] = w
      PROVE  <<"drain", r, i>> \in Signallers(w)
  <2>1. <<"drain", r, i>>
           \in {<<"drain", r, k>> : k \in {j \in DOMAIN drained[r] : drained[r][j] = w}}
    BY <1>4, Zenon
  <2> QED
    BY <2>1, Zenon DEF Signallers
<1> QED
  BY <1>1, <1>2, <1>3, <1>4

\* Nothing else is one.
LEMMA SignallerKinds ==
    ASSUME NEW w, NEW s \in Signallers(w)
    PROVE  \/ \E i \in DOMAIN waiting : waiting[i] = w /\ s = <<"queue", i>>
           \/ \E r \in Request : peer[r] = w /\ s = <<"handoff", r>>
           \/ repl[w] = "boot" /\ s = <<"replacement", w>>
           \/ \E r \in Request : \E i \in DOMAIN drained[r] :
                 drained[r][i] = w /\ s = <<"drain", r, i>>
BY Zenon DEF Signallers

\* A waiter has a signaller exactly if it is pending.
LEMMA SignallersPending ==
    ASSUME NEW w
    PROVE  Signallers(w) # {} <=> Pending(w)
<1>1. ASSUME Pending(w)
      PROVE  Signallers(w) # {}
  <2>1. CASE w \in Range(waiting)
    <3>1. PICK i \in DOMAIN waiting : waiting[i] = w
      BY <2>1 DEF Range
    <3> QED
      BY <3>1, SignallersOf
  <2>2. CASE \E r \in Request : w \in Range(drained[r])
    <3>1. PICK r \in Request : \E i \in DOMAIN drained[r] : drained[r][i] = w
      BY <2>2 DEF Range
    <3> QED
      BY <3>1, SignallersOf
  <2> QED
    BY <1>1, <2>1, <2>2, SignallersOf DEF Pending
<1>2. ASSUME NEW s \in Signallers(w)
      PROVE  Pending(w)
  <2>1. \/ \E i \in DOMAIN waiting : waiting[i] = w
        \/ \E r \in Request : peer[r] = w
        \/ repl[w] = "boot"
        \/ \E r \in Request : \E i \in DOMAIN drained[r] : drained[r][i] = w
    BY <1>2, SignallerKinds
  <2> QED
    BY <2>1 DEF Pending, Range
<1> QED
  BY <1>1, <1>2

\* While somebody may still signal a waiter nobody else may, and its channel is
\* empty and open: no send blocks a handler, nothing is sent on a closed channel
\* and no channel is closed twice.
THEOREM SignalledOnceKept == Spec => []SignalledOnce
<1>1. ASSUME Inv, SignalInv
      PROVE  SignalledOnce
  <2> USE <1>1, NilAssumption
      DEF Inv, TypeInv, TypeOK, Custody, NamesFresh, SignalInv, SignallersApart
  <2>1. ASSUME NEW w \in Request, NEW a \in Signallers(w), NEW b \in Signallers(w)
        PROVE  a = b
    <3> w # Nil
      OBVIOUS
    <3>1. ASSUME NEW i \in DOMAIN waiting, waiting[i] = w, NEW s \in Signallers(w)
          PROVE  s = <<"queue", i>>
      <4>1. w \in Range(waiting)
        BY <3>1 DEF Range
      <4>2. /\ repl[w] # "boot"
            /\ \A r \in Request : peer[r] # w /\ w \notin Range(drained[r])
        BY <4>1
      <4>3. \A j \in DOMAIN waiting : waiting[j] = w => j = i
        BY <3>1 DEF Distinct
      <4>4. \/ \E j \in DOMAIN waiting : waiting[j] = w /\ s = <<"queue", j>>
            \/ \E q \in Request : peer[q] = w /\ s = <<"handoff", q>>
            \/ repl[w] = "boot" /\ s = <<"replacement", w>>
            \/ \E q \in Request : \E j \in DOMAIN drained[q] :
                  drained[q][j] = w /\ s = <<"drain", q, j>>
        BY SignallerKinds
      <4> QED
        BY <4>2, <4>3, <4>4 DEF Range
    <3>2. ASSUME NEW r \in Request, peer[r] = w, NEW s \in Signallers(w)
          PROVE  s = <<"handoff", r>>
      <4>1. /\ repl[w] # "boot" /\ w \notin Range(waiting)
            /\ \A q \in Request : w \notin Range(drained[q]) /\ (peer[q] = w => q = r)
        BY <3>2
      <4>2. \/ \E j \in DOMAIN waiting : waiting[j] = w /\ s = <<"queue", j>>
            \/ \E q \in Request : peer[q] = w /\ s = <<"handoff", q>>
            \/ repl[w] = "boot" /\ s = <<"replacement", w>>
            \/ \E q \in Request : \E j \in DOMAIN drained[q] :
                  drained[q][j] = w /\ s = <<"drain", q, j>>
        BY SignallerKinds
      <4> QED
        BY <4>1, <4>2 DEF Range
    <3>3. ASSUME repl[w] = "boot", NEW s \in Signallers(w)
          PROVE  s = <<"replacement", w>>
      <4>1. /\ w \notin Range(waiting)
            /\ \A q \in Request : w \notin Range(drained[q]) /\ peer[q] # w
        BY <3>3
      <4>2. \/ \E j \in DOMAIN waiting : waiting[j] = w /\ s = <<"queue", j>>
            \/ \E q \in Request : peer[q] = w /\ s = <<"handoff", q>>
            \/ repl[w] = "boot" /\ s = <<"replacement", w>>
            \/ \E q \in Request : \E j \in DOMAIN drained[q] :
                  drained[q][j] = w /\ s = <<"drain", q, j>>
        BY SignallerKinds
      <4> QED
        BY <4>1, <4>2 DEF Range
    <3>4. ASSUME NEW r \in Request, NEW i \in DOMAIN drained[r], drained[r][i] = w,
                 NEW s \in Signallers(w)
          PROVE  s = <<"drain", r, i>>
      <4>1. w \in Range(drained[r])
        BY <3>4 DEF Range
      <4>2. /\ repl[w] # "boot" /\ w \notin Range(waiting)
            /\ \A q \in Request : /\ peer[q] # w
                                  /\ q # r => w \notin Range(drained[q])
        BY <4>1
      <4>3. \A j \in DOMAIN drained[r] : drained[r][j] = w => j = i
        BY <3>4 DEF Distinct
      <4>4. \/ \E j \in DOMAIN waiting : waiting[j] = w /\ s = <<"queue", j>>
            \/ \E q \in Request : peer[q] = w /\ s = <<"handoff", q>>
            \/ repl[w] = "boot" /\ s = <<"replacement", w>>
            \/ \E q \in Request : \E j \in DOMAIN drained[q] :
                  drained[q][j] = w /\ s = <<"drain", q, j>>
        BY SignallerKinds
      <4> QED
        BY <4>2, <4>3, <4>4 DEF Range
    <3> QED
      <4>1. CASE \E i \in DOMAIN waiting : waiting[i] = w
        BY <3>1, <4>1
      <4>2. CASE \E r \in Request : peer[r] = w
        BY <3>2, <4>2
      <4>3. CASE repl[w] = "boot"
        BY <3>3, <4>3
      <4>4. CASE \E r \in Request : \E i \in DOMAIN drained[r] : drained[r][i] = w
        BY <3>4, <4>4
      <4>5. \/ \E i \in DOMAIN waiting : waiting[i] = w /\ a = <<"queue", i>>
            \/ \E r \in Request : peer[r] = w /\ a = <<"handoff", r>>
            \/ repl[w] = "boot" /\ a = <<"replacement", w>>
            \/ \E r \in Request : \E i \in DOMAIN drained[r] :
                  drained[r][i] = w /\ a = <<"drain", r, i>>
        BY SignallerKinds
      <4> QED
        BY <4>1, <4>2, <4>3, <4>4, <4>5
  <2>2. \A w \in Request : Signallers(w) # {} => mail[w] = Nil /\ w \notin closed
    BY SignallersPending DEF ChannelsFresh
  <2> QED
    BY <2>1, <2>2 DEF SignalledOnce
<1> QED
  BY <1>1, SignalInvariance, PTL

\* A queued request whose client is still there is in the queue, or somebody is
\* about to signal it, or its signal is there.
THEOREM NobodyForgotten == Spec => []NoWaiterForgotten
<1>1. SignalInv => NoWaiterForgotten
  BY SignallersPending DEF SignalInv, Remembered, NoWaiterForgotten
<1> QED
  BY <1>1, SignalInvariance, PTL

-----------------------------------------------------------------------------
(* The order in which the queue is served *)

\* What a step does to the queue: nothing, an arrival at its end, popWaiter, or
\* emptying it.
LEMMA QueueSteps ==
    ASSUME TypeInv, [Next]_vars
    PROVE  \/ waiting' = waiting
           \/ \E r \in Request : waiting' = Append(waiting, r)
           \/ \E w \in Request : PopWaiter(w)
           \/ waiting' = <<>>
<1> DEFINE Goal == \/ waiting' = waiting
                   \/ \E r \in Request : waiting' = Append(waiting, r)
                   \/ \E w \in Request : PopWaiter(w)
                   \/ waiting' = <<>>
<1>1. ASSUME NEW r \in Request, Enqueue(r)
      PROVE  Goal
  BY <1>1 DEF Enqueue
<1>2. ASSUME NEW r \in Request, ReturnPopsWaiter(r) \/ DiscardForWaiter(r)
      PROVE  Goal
  BY <1>2 DEF ReturnPopsWaiter, DiscardForWaiter
<1>3. ASSUME NEW r \in Request, ReturnPopsNobody(r) \/ Discard(r) \/ DrainQueue(r)
      PROVE  Goal
  BY <1>3 DEF ReturnPopsNobody, Discard, PopNobody, DrainQueue, ResetQueue
<1>4. ASSUME NEW r \in Request, BootFails(r) \/ ReceiveVM(r) \/ HandOff(r)
      PROVE  Goal
  BY <1>4 DEF BootFails, ReceiveVM, HandOff
<1>5. ASSUME NEW r \in Request,
             \/ ReplacementBoots(r) \/ ReplacementFails(r) \/ ReplacementReleases(r)
             \/ CloseNext(r) \/ FailWaitersReturns(r)
      PROVE  Goal
  BY <1>5 DEF ReplacementBoots, ReplacementFails, ReplacementReleases, CloseNext,
              FailWaitersReturns
<1>6. ASSUME Elsewhere
      PROVE  Goal
  BY <1>6 DEF Elsewhere
<1> HIDE DEF Goal
<1>7. Goal
  BY <1>1, <1>2, <1>3, <1>4, <1>5, <1>6, ElsewhereSteps
     DEF Next, Handler, FailWaiters, Boot, Guest, Replacement
<1> QED
  BY <1>7 DEF Goal

\* A step that takes a connected request out of the queue leaves no connected
\* request in front of it behind.
THEOREM OrderKept == Spec => ServedInOrder
<1>1. ASSUME Inv, [Next]_vars
      PROVE  \A i, j \in DOMAIN waiting :
                /\ i < j
                /\ {waiting[i], waiting[j]} \cap cancelled = {}
                /\ waiting[i] \in Range(waiting')
                => waiting[j] \in Range(waiting')
  <2> SUFFICES ASSUME NEW i \in DOMAIN waiting, NEW j \in DOMAIN waiting, i < j,
                      waiting[i] \notin cancelled, waiting[j] \notin cancelled,
                      waiting[i] \in Range(waiting')
               PROVE  waiting[j] \in Range(waiting')
    OBVIOUS
  <2> USE <1>1 DEF Inv, TypeInv, TypeOK
  <2>1. waiting[j] \in Range(waiting)
    BY DEF Range
  <2>2. CASE \E r \in Request : waiting' = Append(waiting, r)
    BY <2>1, <2>2, AppendElements
  <2>3. ASSUME NEW w \in Request, PopWaiter(w), waiting[j] \notin Range(waiting')
        PROVE  FALSE
    <3>1. waiting[j] = w /\ w \notin Range(waiting')
      BY <2>1, <2>3, PopWaiterTakes DEF Custody, NamesFresh
    <3>2. PICK k \in DOMAIN waiting :
             waiting[k] = w /\ \A l \in 1 .. k - 1 : waiting[l] \in cancelled
      BY <2>3 DEF PopWaiter
    <3>3. k = j
      BY <3>1, <3>2 DEF Custody, NamesFresh, Distinct
    <3>4. i \in 1 .. k - 1
      BY <3>3
    <3> QED
      BY <3>2, <3>4
  <2>4. CASE waiting' = <<>>
    BY <2>4, EmptyElements
  <2> QED
    BY <2>1, <2>2, <2>3, <2>4, QueueSteps
<1> QED
  BY <1>1, Invariance, PTL DEF Spec, ServedInOrder
=============================================================================
