------------------------- MODULE FunctionPoolProofs -------------------------
(***************************************************************************)
(* Proofs about the VM pool of one function, for any set of requests, any  *)
(* MaxVMs and any WarmPoolSize.                                            *)
(***************************************************************************)
EXTENDS FunctionPoolProperties, SequenceLemmas, FiniteSetTheorems

\* Expanding these tuples is always wanted.
USE DEF poolVars, channelVars, handlerVars, goVars, sweepVars

\* The places of Invoke, returnVM and discardVM at which a handler has a VM.
Holding == {"invoke", "return", "handoff", "park", "drop", "discard"}

\* A handler's variable vm is set exactly at those places, and its popped
\* waiter exactly before the send to it.
HandsFull ==
    \A r \in Request : /\ pc[r] \in Holding <=> vm[r] # Nil
                       /\ pc[r] = "handoff" <=> peer[r] # Nil

TypeInv == TypeOK /\ HandsFull

\* Every variable keeps its type; in particular warm, a channel of capacity
\* WarmPoolSize, never holds more.
LEMMA TypeInvStep == TypeInv /\ [Next]_vars => TypeInv'
<1> SUFFICES ASSUME TypeInv, [Next]_vars
             PROVE  TypeInv'
  OBVIOUS
<1> USE DEF TypeInv, HandsFull, Holding, TypeOK, PCs, SweeperPCs
<1> USE WarmPoolSizeAssumption, NilAssumption
<1>1. ASSUME NEW r \in Request, TakeWarm(r)
      PROVE  TypeInv'
  BY <1>1, TailElements DEF TakeWarm, ReceiveWarm, Obtain, Goto
<1>2. ASSUME NEW r \in Request, MissWarm(r)
      PROVE  TypeInv'
  BY <1>2 DEF MissWarm, Goto
<1>3. ASSUME NEW r \in Request, ReserveSlot(r)
      PROVE  TypeInv'
  BY <1>3 DEF ReserveSlot, Goto
<1>4. ASSUME NEW r \in Request, Enqueue(r)
      PROVE  TypeInv'
  BY <1>4, AppendElements DEF Enqueue, Goto
<1>5. ASSUME NEW r \in Request, ReceiveVM(r)
      PROVE  TypeInv'
  BY <1>5 DEF ReceiveVM, Obtain, Goto
<1>6. ASSUME NEW r \in Request, ReceiveNil(r)
      PROVE  TypeInv'
  BY <1>6 DEF ReceiveNil, Goto
<1>7. ASSUME NEW r \in Request, LeaveQueue(r)
      PROVE  TypeInv'
  BY <1>7 DEF LeaveQueue, Goto
<1>8. ASSUME NEW r \in Request, ReturnPopsWaiter(r)
      PROVE  TypeInv'
  <2>1. PICK w \in Request : PopWaiter(w) /\ peer' = [peer EXCEPT ![r] = w]
    BY <1>8 DEF ReturnPopsWaiter
  <2>2. waiting' \in Seq(Request)
    BY <2>1, SuffixElements DEF PopWaiter
  <2> QED
    BY <1>8, <2>1, <2>2 DEF ReturnPopsWaiter, Goto
<1>9. ASSUME NEW r \in Request, ReturnPopsNobody(r)
      PROVE  TypeInv'
  BY <1>9 DEF ReturnPopsNobody, PopNobody, Goto
<1>10. ASSUME NEW r \in Request, HandOff(r)
       PROVE  TypeInv'
  BY <1>10 DEF HandOff, CanSend, GiveUp, Goto
<1>11. ASSUME NEW r \in Request, Park(r)
       PROVE  TypeInv'
  BY <1>11, AppendElements DEF Park, WarmHasRoom, GiveUp, Goto
<1>12. ASSUME NEW r \in Request, ParkFull(r)
       PROVE  TypeInv'
  BY <1>12 DEF ParkFull, Kill, Goto
<1>13. ASSUME NEW r \in Request, Drop(r)
       PROVE  TypeInv'
  BY <1>13 DEF Drop, CountOut, GiveUp, Goto
<1>14. ASSUME NEW r \in Request, DiscardForWaiter(r)
       PROVE  TypeInv'
  <2>1. PICK w \in Request : PopWaiter(w) /\ repl' = [repl EXCEPT ![w] = "boot"]
    BY <1>14 DEF DiscardForWaiter
  <2>2. waiting' \in Seq(Request)
    BY <2>1, SuffixElements DEF PopWaiter
  <2> QED
    BY <1>14, <2>1, <2>2 DEF DiscardForWaiter, GiveUp, Goto
<1>15. ASSUME NEW r \in Request, Discard(r)
       PROVE  TypeInv'
  <2>1. waiting' \in Seq(Request)
    <3>1. CASE Below(CountAfterKill)
      BY <1>15, <3>1 DEF Discard, PopNobody
    <3>2. CASE ~ Below(CountAfterKill)
      BY <1>15, <3>2 DEF Discard
    <3> QED
      BY <3>1, <3>2
  <2>2. /\ booted' = booted - 1 /\ pc' = [pc EXCEPT ![r] = "done"]
        /\ vm' = [vm EXCEPT ![r] = Nil]
        /\ UNCHANGED <<warm, channelVars, cancelled, alive, peer, goVars, sweepVars>>
    BY <1>15 DEF Discard, CountOut, GiveUp, Goto
  <2>3. pc[r] = "discard"
    BY <1>15 DEF Discard
  <2> QED
    BY <2>1, <2>2, <2>3
<1>16. ASSUME NEW r \in Request, DrainQueue(r)
       PROVE  TypeInv'
  BY <1>16 DEF DrainQueue, ResetQueue
<1>17. ASSUME NEW r \in Request, CloseNext(r)
       PROVE  TypeInv'
  BY <1>17, TailElements DEF CloseNext, Close
<1>18. ASSUME NEW r \in Request, FailWaitersReturns(r)
       PROVE  TypeInv'
  BY <1>18 DEF FailWaitersReturns
<1>19. ASSUME NEW r \in Request, ReplacementReleases(r)
       PROVE  TypeInv'
  BY <1>19 DEF ReplacementReleases, CountOut
<1>20. ASSUME NEW r \in Request, BootSucceeds(r)
       PROVE  TypeInv'
  BY <1>20 DEF BootSucceeds, Obtain, Goto
<1>21. ASSUME NEW r \in Request, BootFails(r)
       PROVE  TypeInv'
  BY <1>21 DEF BootFails, CountOut, Goto
<1>22. ASSUME NEW r \in Request, GuestAnswers(r)
       PROVE  TypeInv'
  BY <1>22 DEF GuestAnswers, Goto
<1>23. ASSUME NEW r \in Request, GuestFails(r)
       PROVE  TypeInv'
  BY <1>23 DEF GuestFails, Kill, Goto
<1>24. ASSUME NEW r \in Request, ReplacementBoots(r)
       PROVE  TypeInv'
  BY <1>24 DEF ReplacementBoots, CanSend
<1>25. ASSUME NEW r \in Request, ReplacementFails(r)
       PROVE  TypeInv'
  BY <1>25 DEF ReplacementFails, Close
<1>26. ASSUME NEW r \in Request, ClientLeaves(r)
       PROVE  TypeInv'
  BY <1>26 DEF ClientLeaves
<1>27. ASSUME SweepStart
       PROVE  TypeInv'
  BY <1>27 DEF SweepStart, Range
<1>28. ASSUME SweepKeep
       PROVE  TypeInv'
  BY <1>28, TailElements, AppendElements DEF SweepKeep, ReceiveWarm
<1>29. ASSUME SweepKill
       PROVE  TypeInv'
  BY <1>29, TailElements DEF SweepKill, ReceiveWarm, Kill
<1>30. ASSUME SweepTurn
       PROVE  TypeInv'
  BY <1>30 DEF SweepTurn
<1>31. ASSUME SweepPutBack
       PROVE  TypeInv'
  BY <1>31, TailElements, AppendElements DEF SweepPutBack, WarmHasRoom
<1>32. ASSUME SweepPutFull
       PROVE  TypeInv'
  BY <1>32, TailElements DEF SweepPutFull, Kill
<1>33. ASSUME SweepCountOut
       PROVE  TypeInv'
  BY <1>33 DEF SweepCountOut, CountOut
<1>34. ASSUME SweepEnd
       PROVE  TypeInv'
  BY <1>34 DEF SweepEnd
<1>35. CASE UNCHANGED vars
  BY <1>35 DEF vars
<1> QED
  BY <1>1, <1>2, <1>3, <1>4, <1>5, <1>6, <1>7, <1>8, <1>9, <1>10, <1>11,
     <1>12, <1>13, <1>14, <1>15, <1>16, <1>17, <1>18, <1>19, <1>20,
     <1>21, <1>22, <1>23, <1>24, <1>25, <1>26, <1>27, <1>28, <1>29,
     <1>30, <1>31, <1>32, <1>33, <1>34, <1>35
     DEF Next, Handler, FailWaiters, Boot, Guest, Replacement, Sweep

\* The type invariant of FunctionPool.
THEOREM TypeCorrect == Spec => []TypeOK
<1>1. Init => TypeInv
  BY WarmPoolSizeAssumption DEF Init, TypeInv, HandsFull, Holding, TypeOK, PCs, SweeperPCs
<1>2. Spec => []TypeInv
  BY <1>1, TypeInvStep, PTL DEF Spec
<1> QED
  BY <1>2, PTL DEF TypeInv

-----------------------------------------------------------------------------
(* Custody of the VMs *)

\* The places of VMs do not overlap.
PlacesDisjoint ==
    /\ \A r, q \in Request : vm[r] = vm[q] /\ vm[r] # Nil => r = q
    /\ \A r, q \in Request : mail[r] = mail[q] /\ mail[r] # Nil => r = q
    /\ \A r, q \in Request : vm[r] # Nil => vm[r] # mail[q]
    /\ Distinct(warm) /\ Distinct(live)
    /\ Range(warm) \cap Range(live) = {}
    /\ \A r \in Request : /\ vm[r] \notin Range(warm) \cup Range(live)
                          /\ mail[r] \notin Range(warm) \cup Range(live)
    /\ victim \notin Range(warm) \cup Range(live)
    /\ victim # Nil => \A r \in Request : victim # vm[r] /\ victim # mail[r]

\* The VMs in them are up, but for those just killed.
PlacesUp ==
    /\ \A r \in Request : pc[r] \in Holding
          => (vm[r] \in alive <=> pc[r] \notin {"drop", "discard"})
    /\ \A r \in Request : mail[r] # Nil => mail[r] \in alive
    /\ Range(warm) \subseteq alive
    /\ Range(live) \subseteq alive
    /\ victim \notin alive

\* Every VM that is up is in one of them.
Somewhere(v) == \/ v \in Range(warm) \cup Range(live)
                \/ \E r \in Request : vm[r] = v \/ mail[r] = v
NothingLost == \A v \in alive : Somewhere(v)

\* The name of a VM that is still to be booted, or is being booted, is new.
NamesFresh ==
    /\ Distinct(waiting)
    /\ \A w \in Range(waiting) : /\ pc[w] \notin {"new", "slow", "boot"}
                                 /\ repl[w] = "none"
                                 /\ w \notin alive \cup Dying
    /\ \A w \in Request : repl[w] \in {"boot", "release"}
          => /\ pc[w] \notin {"new", "slow", "boot"}
             /\ w \notin alive \cup Dying
    /\ \A w \in Request : pc[w] \in {"new", "slow", "boot"}
          => repl[w] = "none" /\ w \notin alive \cup Dying

Custody == PlacesDisjoint /\ PlacesUp /\ NothingLost /\ NamesFresh

LEMMA PlacesDisjointStep == TypeInv /\ Custody /\ [Next]_vars => PlacesDisjoint'
<1> SUFFICES ASSUME TypeInv, Custody, [Next]_vars
             PROVE  PlacesDisjoint'
  OBVIOUS
<1> USE DEF TypeInv, HandsFull, Holding, TypeOK
<1> USE NilAssumption
<1> TypeInv'
  BY TypeInvStep
<1> USE DEF Custody, PlacesDisjoint, PlacesUp, NamesFresh, Dying
<1>1. ASSUME NEW r \in Request, TakeWarm(r)
      PROVE  PlacesDisjoint'
  <2>1. /\ Head(warm) \in Range(warm) /\ Range(warm) = {Head(warm)} \cup Range(warm')
        /\ Distinct(warm) => Distinct(warm') /\ Head(warm) \notin Range(warm')
    BY <1>1, TailElements DEF TakeWarm, ReceiveWarm
  <2>2. /\ UNCHANGED <<live, victim, mail>>
        /\ \A q \in Request : vm'[q] = IF q = r THEN Head(warm) ELSE vm[q]
    BY <1>1 DEF TakeWarm, Obtain
  <2>3. /\ Distinct(warm') /\ Distinct(live')
        /\ Range(warm') \subseteq Range(warm) /\ Head(warm) \notin Range(warm')
    BY <2>1, <2>2
  <2>4. /\ Head(warm) # victim /\ Head(warm) \notin Range(live)
        /\ \A q \in Request : Head(warm) # vm[q] /\ Head(warm) # mail[q]
    BY <2>1
  <2> HIDE DEF TypeInv, TypeOK, HandsFull, Holding, PlacesUp, NamesFresh, Dying
  <2>5. \A q \in Request : vm'[q] \notin Range(warm') \cup Range(live')
    BY <2>2, <2>3, <2>4
  <2>6. /\ \A q, u \in Request : vm'[q] = vm'[u] /\ vm'[q] # Nil => q = u
        /\ \A q, u \in Request : vm'[q] # Nil => vm'[q] # mail'[u]
    BY <2>2, <2>4
  <2>7. victim' # Nil => \A q \in Request : victim' # vm'[q]
    BY <2>2, <2>4
  <2>8. /\ \A q, u \in Request : mail'[q] = mail'[u] /\ mail'[q] # Nil => q = u
        /\ Range(warm') \cap Range(live') = {}
        /\ \A q \in Request : mail'[q] \notin Range(warm') \cup Range(live')
        /\ victim' \notin Range(warm') \cup Range(live')
        /\ victim' # Nil => \A q \in Request : victim' # mail'[q]
    BY <2>2, <2>3
  <2> HIDE DEF Custody
  <2> QED
    BY <2>3, <2>5, <2>6, <2>7, <2>8
<1>2. ASSUME NEW r \in Request, MissWarm(r)
      PROVE  PlacesDisjoint'
  BY <1>2 DEF MissWarm, Goto
<1>3. ASSUME NEW r \in Request, ReserveSlot(r)
      PROVE  PlacesDisjoint'
  BY <1>3 DEF ReserveSlot, Goto
<1>4. ASSUME NEW r \in Request, Enqueue(r)
      PROVE  PlacesDisjoint'
  BY <1>4, AppendElements DEF Enqueue, Goto
<1>5. ASSUME NEW r \in Request, ReceiveVM(r)
      PROVE  PlacesDisjoint'
  BY <1>5 DEF ReceiveVM, Obtain, Goto
<1>6. ASSUME NEW r \in Request, ReceiveNil(r)
      PROVE  PlacesDisjoint'
  BY <1>6 DEF ReceiveNil, Goto
<1>7. ASSUME NEW r \in Request, LeaveQueue(r)
      PROVE  PlacesDisjoint'
  BY <1>7 DEF LeaveQueue, Goto
<1>8. ASSUME NEW r \in Request, ReturnPopsWaiter(r)
      PROVE  PlacesDisjoint'
  <2>1. UNCHANGED <<warm, live, vm, mail, victim>>
    BY <1>8 DEF ReturnPopsWaiter
  <2> QED
    BY <2>1
<1>9. ASSUME NEW r \in Request, ReturnPopsNobody(r)
      PROVE  PlacesDisjoint'
  BY <1>9 DEF ReturnPopsNobody, PopNobody, Goto
<1>10. ASSUME NEW r \in Request, HandOff(r)
       PROVE  PlacesDisjoint'
  BY <1>10 DEF HandOff, CanSend, GiveUp, Goto
<1>11. ASSUME NEW r \in Request, Park(r)
       PROVE  PlacesDisjoint'
  BY <1>11, AppendElements DEF Park, WarmHasRoom, GiveUp, Goto
<1>12. ASSUME NEW r \in Request, ParkFull(r)
       PROVE  PlacesDisjoint'
  BY <1>12 DEF ParkFull, Kill, Goto
<1>13. ASSUME NEW r \in Request, Drop(r)
       PROVE  PlacesDisjoint'
  BY <1>13 DEF Drop, CountOut, GiveUp, Goto
<1>14. ASSUME NEW r \in Request, DiscardForWaiter(r)
       PROVE  PlacesDisjoint'
  BY <1>14, SuffixElements DEF DiscardForWaiter, PopWaiter, GiveUp, Goto
<1>15. ASSUME NEW r \in Request, Discard(r)
       PROVE  PlacesDisjoint'
  BY <1>15 DEF Discard, PopNobody, CountOut, GiveUp, Goto
<1>16. ASSUME NEW r \in Request, DrainQueue(r)
       PROVE  PlacesDisjoint'
  BY <1>16 DEF DrainQueue, ResetQueue
<1>17. ASSUME NEW r \in Request, CloseNext(r)
       PROVE  PlacesDisjoint'
  BY <1>17, TailElements DEF CloseNext, Close
<1>18. ASSUME NEW r \in Request, FailWaitersReturns(r)
       PROVE  PlacesDisjoint'
  BY <1>18 DEF FailWaitersReturns
<1>19. ASSUME NEW r \in Request, ReplacementReleases(r)
       PROVE  PlacesDisjoint'
  BY <1>19 DEF ReplacementReleases, CountOut
<1>20. ASSUME NEW r \in Request, BootSucceeds(r)
       PROVE  PlacesDisjoint'
  BY <1>20 DEF BootSucceeds, Obtain, Goto
<1>21. ASSUME NEW r \in Request, BootFails(r)
       PROVE  PlacesDisjoint'
  BY <1>21 DEF BootFails, CountOut, Goto
<1>22. ASSUME NEW r \in Request, GuestAnswers(r)
       PROVE  PlacesDisjoint'
  BY <1>22 DEF GuestAnswers, Goto
<1>23. ASSUME NEW r \in Request, GuestFails(r)
       PROVE  PlacesDisjoint'
  BY <1>23 DEF GuestFails, Kill, Goto
<1>24. ASSUME NEW r \in Request, ReplacementBoots(r)
       PROVE  PlacesDisjoint'
  BY <1>24 DEF ReplacementBoots, CanSend
<1>25. ASSUME NEW r \in Request, ReplacementFails(r)
       PROVE  PlacesDisjoint'
  BY <1>25 DEF ReplacementFails, Close
<1>26. ASSUME NEW r \in Request, ClientLeaves(r)
       PROVE  PlacesDisjoint'
  BY <1>26 DEF ClientLeaves
<1>27. ASSUME SweepStart
       PROVE  PlacesDisjoint'
  BY <1>27 DEF SweepStart
<1>28. ASSUME SweepKeep
       PROVE  PlacesDisjoint'
  <2>1. /\ Head(warm) \in Range(warm) /\ Range(warm) = {Head(warm)} \cup Range(warm')
        /\ Distinct(warm) => Distinct(warm') /\ Head(warm) \notin Range(warm')
        /\ Head(warm) \in Request
    BY <1>28, TailElements DEF SweepKeep, ReceiveWarm
  <2>2. /\ Range(live') = Range(live) \cup {Head(warm)}
        /\ Head(warm) \notin Range(live) /\ Distinct(live')
    BY <1>28, <2>1, AppendElements DEF SweepKeep
  <2>3. UNCHANGED <<mail, vm, victim>>
    BY <1>28 DEF SweepKeep
  <2> QED
    BY <2>1, <2>2, <2>3
<1>29. ASSUME SweepKill
       PROVE  PlacesDisjoint'
  <2>1. /\ Head(warm) \in Range(warm) /\ Range(warm) = {Head(warm)} \cup Range(warm')
        /\ Distinct(warm) => Distinct(warm') /\ Head(warm) \notin Range(warm')
    BY <1>29, TailElements DEF SweepKill, ReceiveWarm
  <2>2. /\ victim = Nil /\ victim' = Head(warm) /\ alive' = alive \ {Head(warm)}
        /\ UNCHANGED <<waiting, mail, pc, vm, repl, live>>
    BY <1>29 DEF SweepKill, Kill
  <2> QED
    BY <2>1, <2>2
<1>30. ASSUME SweepTurn
       PROVE  PlacesDisjoint'
  BY <1>30 DEF SweepTurn
<1>31. ASSUME SweepPutBack
       PROVE  PlacesDisjoint'
  BY <1>31, TailElements, AppendElements DEF SweepPutBack, WarmHasRoom
<1>32. ASSUME SweepPutFull
       PROVE  PlacesDisjoint'
  <2>1. /\ Head(live) \in Range(live) /\ Range(live) = {Head(live)} \cup Range(live')
        /\ Distinct(live) => Distinct(live') /\ Head(live) \notin Range(live')
    BY <1>32, TailElements DEF SweepPutFull
  <2>2. /\ victim = Nil /\ victim' = Head(live) /\ alive' = alive \ {Head(live)}
        /\ UNCHANGED <<waiting, mail, pc, vm, repl, warm>>
    BY <1>32 DEF SweepPutFull, Kill
  <2> QED
    BY <2>1, <2>2
<1>33. ASSUME SweepCountOut
       PROVE  PlacesDisjoint'
  BY <1>33 DEF SweepCountOut, CountOut
<1>34. ASSUME SweepEnd
       PROVE  PlacesDisjoint'
  BY <1>34 DEF SweepEnd
<1>35. CASE UNCHANGED vars
  BY <1>35 DEF vars
<1> QED
  BY <1>1, <1>2, <1>3, <1>4, <1>5, <1>6, <1>7, <1>8, <1>9, <1>10, <1>11,
     <1>12, <1>13, <1>14, <1>15, <1>16, <1>17, <1>18, <1>19, <1>20,
     <1>21, <1>22, <1>23, <1>24, <1>25, <1>26, <1>27, <1>28, <1>29,
     <1>30, <1>31, <1>32, <1>33, <1>34, <1>35
     DEF Next, Handler, FailWaiters, Boot, Guest, Replacement, Sweep

LEMMA PlacesUpStep == TypeInv /\ Custody /\ [Next]_vars => PlacesUp'
<1> SUFFICES ASSUME TypeInv, Custody, [Next]_vars
             PROVE  PlacesUp'
  OBVIOUS
<1> USE DEF TypeInv, HandsFull, Holding, TypeOK
<1> USE NilAssumption
<1> TypeInv'
  BY TypeInvStep
<1> USE DEF Custody, PlacesDisjoint, PlacesUp, NamesFresh, Dying
<1>1. ASSUME NEW r \in Request, TakeWarm(r)
      PROVE  PlacesUp'
  BY <1>1, TailElements DEF TakeWarm, ReceiveWarm, Obtain, Goto
<1>2. ASSUME NEW r \in Request, MissWarm(r)
      PROVE  PlacesUp'
  BY <1>2 DEF MissWarm, Goto
<1>3. ASSUME NEW r \in Request, ReserveSlot(r)
      PROVE  PlacesUp'
  BY <1>3 DEF ReserveSlot, Goto
<1>4. ASSUME NEW r \in Request, Enqueue(r)
      PROVE  PlacesUp'
  BY <1>4, AppendElements DEF Enqueue, Goto
<1>5. ASSUME NEW r \in Request, ReceiveVM(r)
      PROVE  PlacesUp'
  BY <1>5 DEF ReceiveVM, Obtain, Goto
<1>6. ASSUME NEW r \in Request, ReceiveNil(r)
      PROVE  PlacesUp'
  BY <1>6 DEF ReceiveNil, Goto
<1>7. ASSUME NEW r \in Request, LeaveQueue(r)
      PROVE  PlacesUp'
  BY <1>7 DEF LeaveQueue, Goto
<1>8. ASSUME NEW r \in Request, ReturnPopsWaiter(r)
      PROVE  PlacesUp'
  BY <1>8, SuffixElements DEF ReturnPopsWaiter, PopWaiter, Goto
<1>9. ASSUME NEW r \in Request, ReturnPopsNobody(r)
      PROVE  PlacesUp'
  BY <1>9 DEF ReturnPopsNobody, PopNobody, Goto
<1>10. ASSUME NEW r \in Request, HandOff(r)
       PROVE  PlacesUp'
  <2>1. vm[r] \in alive
    BY <1>10 DEF HandOff
  <2>2. \A q \in Request : mail'[q] \in {mail[q], vm[r]}
    BY <1>10 DEF HandOff
  <2> QED
    BY <1>10, <2>1, <2>2 DEF HandOff, GiveUp, Goto
<1>11. ASSUME NEW r \in Request, Park(r)
       PROVE  PlacesUp'
  <2>1. vm[r] \in alive /\ vm[r] \in Request
    BY <1>11 DEF Park
  <2>2. Range(warm') = Range(warm) \cup {vm[r]}
    BY <1>11, <2>1, AppendElements DEF Park
  <2> QED
    BY <1>11, <2>1, <2>2 DEF Park, GiveUp, Goto
<1>12. ASSUME NEW r \in Request, ParkFull(r)
       PROVE  PlacesUp'
  BY <1>12 DEF ParkFull, Kill, Goto
<1>13. ASSUME NEW r \in Request, Drop(r)
       PROVE  PlacesUp'
  BY <1>13 DEF Drop, CountOut, GiveUp, Goto
<1>14. ASSUME NEW r \in Request, DiscardForWaiter(r)
       PROVE  PlacesUp'
  BY <1>14, SuffixElements DEF DiscardForWaiter, PopWaiter, GiveUp, Goto
<1>15. ASSUME NEW r \in Request, Discard(r)
       PROVE  PlacesUp'
  BY <1>15 DEF Discard, PopNobody, CountOut, GiveUp, Goto
<1>16. ASSUME NEW r \in Request, DrainQueue(r)
       PROVE  PlacesUp'
  BY <1>16 DEF DrainQueue, ResetQueue
<1>17. ASSUME NEW r \in Request, CloseNext(r)
       PROVE  PlacesUp'
  BY <1>17, TailElements DEF CloseNext, Close
<1>18. ASSUME NEW r \in Request, FailWaitersReturns(r)
       PROVE  PlacesUp'
  BY <1>18 DEF FailWaitersReturns
<1>19. ASSUME NEW r \in Request, ReplacementReleases(r)
       PROVE  PlacesUp'
  BY <1>19 DEF ReplacementReleases, CountOut
<1>20. ASSUME NEW r \in Request, BootSucceeds(r)
       PROVE  PlacesUp'
  BY <1>20 DEF BootSucceeds, Obtain, Goto
<1>21. ASSUME NEW r \in Request, BootFails(r)
       PROVE  PlacesUp'
  BY <1>21 DEF BootFails, CountOut, Goto
<1>22. ASSUME NEW r \in Request, GuestAnswers(r)
       PROVE  PlacesUp'
  BY <1>22 DEF GuestAnswers, Goto
<1>23. ASSUME NEW r \in Request, GuestFails(r)
       PROVE  PlacesUp'
  BY <1>23 DEF GuestFails, Kill, Goto
<1>24. ASSUME NEW r \in Request, ReplacementBoots(r)
       PROVE  PlacesUp'
  BY <1>24 DEF ReplacementBoots, CanSend
<1>25. ASSUME NEW r \in Request, ReplacementFails(r)
       PROVE  PlacesUp'
  BY <1>25 DEF ReplacementFails, Close
<1>26. ASSUME NEW r \in Request, ClientLeaves(r)
       PROVE  PlacesUp'
  BY <1>26 DEF ClientLeaves
<1>27. ASSUME SweepStart
       PROVE  PlacesUp'
  BY <1>27 DEF SweepStart, Range
<1>28. ASSUME SweepKeep
       PROVE  PlacesUp'
  <2>1. Range(warm') \cup Range(live') = Range(warm) \cup Range(live)
    <3>1. /\ warm # <<>> /\ warm' = Tail(warm) /\ live' = Append(live, Head(warm))
          /\ warm \in Seq(Request) /\ live \in Seq(Request)
      BY <1>28 DEF SweepKeep, ReceiveWarm
    <3> HIDE DEF TypeInv, TypeOK, HandsFull, Holding, Custody, PlacesDisjoint, PlacesUp,
                 NamesFresh, Dying
    <3>2. Head(warm) \in Request /\ Range(warm) = {Head(warm)} \cup Range(warm')
      BY <3>1, TailElements
    <3>3. Range(live') = Range(live) \cup {Head(warm)}
      BY <3>1, <3>2, AppendElements
    <3> QED
      BY <3>2, <3>3
  <2>2. UNCHANGED <<mail, alive, pc, vm, victim>>
    BY <1>28 DEF SweepKeep
  <2> QED
    BY <2>1, <2>2
<1>29. ASSUME SweepKill
       PROVE  PlacesUp'
  <2>1. /\ Head(warm) \in Range(warm) /\ Range(warm) = {Head(warm)} \cup Range(warm')
        /\ Distinct(warm) => Distinct(warm') /\ Head(warm) \notin Range(warm')
    BY <1>29, TailElements DEF SweepKill, ReceiveWarm
  <2>2. /\ victim = Nil /\ victim' = Head(warm) /\ alive' = alive \ {Head(warm)}
        /\ UNCHANGED <<waiting, mail, pc, vm, repl, live>>
    BY <1>29 DEF SweepKill, Kill
  <2> QED
    BY <2>1, <2>2
<1>30. ASSUME SweepTurn
       PROVE  PlacesUp'
  BY <1>30 DEF SweepTurn
<1>31. ASSUME SweepPutBack
       PROVE  PlacesUp'
  BY <1>31, TailElements, AppendElements DEF SweepPutBack, WarmHasRoom
<1>32. ASSUME SweepPutFull
       PROVE  PlacesUp'
  <2>1. /\ Head(live) \in Range(live) /\ Range(live) = {Head(live)} \cup Range(live')
        /\ Distinct(live) => Distinct(live') /\ Head(live) \notin Range(live')
    BY <1>32, TailElements DEF SweepPutFull
  <2>2. /\ victim = Nil /\ victim' = Head(live) /\ alive' = alive \ {Head(live)}
        /\ UNCHANGED <<waiting, mail, pc, vm, repl, warm>>
    BY <1>32 DEF SweepPutFull, Kill
  <2> QED
    BY <2>1, <2>2
<1>33. ASSUME SweepCountOut
       PROVE  PlacesUp'
  BY <1>33 DEF SweepCountOut, CountOut
<1>34. ASSUME SweepEnd
       PROVE  PlacesUp'
  BY <1>34 DEF SweepEnd
<1>35. CASE UNCHANGED vars
  BY <1>35 DEF vars
<1> QED
  BY <1>1, <1>2, <1>3, <1>4, <1>5, <1>6, <1>7, <1>8, <1>9, <1>10, <1>11,
     <1>12, <1>13, <1>14, <1>15, <1>16, <1>17, <1>18, <1>19, <1>20,
     <1>21, <1>22, <1>23, <1>24, <1>25, <1>26, <1>27, <1>28, <1>29,
     <1>30, <1>31, <1>32, <1>33, <1>34, <1>35
     DEF Next, Handler, FailWaiters, Boot, Guest, Replacement, Sweep

LEMMA NothingLostStep == TypeInv /\ Custody /\ [Next]_vars => NothingLost'
<1> SUFFICES ASSUME TypeInv, Custody, [Next]_vars
             PROVE  NothingLost'
  OBVIOUS
<1> USE DEF TypeInv, HandsFull, Holding, TypeOK
<1> USE NilAssumption
<1> TypeInv'
  BY TypeInvStep
<1> USE DEF Custody, PlacesUp, NothingLost, Somewhere
<1>1. ASSUME NEW r \in Request, TakeWarm(r)
      PROVE  NothingLost'
  <2>1. Range(warm) = {Head(warm)} \cup Range(warm')
    BY <1>1, TailElements DEF TakeWarm, ReceiveWarm
  <2>3. vm[r] = Nil
    BY <1>1 DEF TakeWarm
  <2>4. /\ vm'[r] = Head(warm)
        /\ \A q \in Request \ {r} : vm'[q] = vm[q]
    BY <1>1 DEF TakeWarm, Obtain
  <2>2. alive' = alive /\ mail' = mail /\ live' = live /\ Nil \notin alive
    BY <1>1 DEF TakeWarm
  <2> HIDE DEF TypeInv, Custody
  <2> QED
    BY <2>1, <2>2, <2>3, <2>4, Custody DEF Custody
<1>2. ASSUME NEW r \in Request, MissWarm(r)
      PROVE  NothingLost'
  BY <1>2 DEF MissWarm, Goto
<1>3. ASSUME NEW r \in Request, ReserveSlot(r)
      PROVE  NothingLost'
  BY <1>3 DEF ReserveSlot, Goto
<1>4. ASSUME NEW r \in Request, Enqueue(r)
      PROVE  NothingLost'
  BY <1>4, AppendElements DEF Enqueue, Goto
<1>5. ASSUME NEW r \in Request, ReceiveVM(r)
      PROVE  NothingLost'
  <2>1. vm[r] = Nil /\ vm' = [vm EXCEPT ![r] = mail[r]]
    BY <1>5 DEF ReceiveVM, Obtain, Goto
  <2>2. \A q \in Request : vm[q] # Nil => vm'[q] = vm[q]
    BY <2>1
  <2>3. /\ vm'[r] = mail[r]
        /\ \A q \in Request \ {r} : mail'[q] = mail[q]
    BY <1>5, <2>1 DEF ReceiveVM
  <2>4. alive' = alive /\ warm' = warm /\ live' = live /\ Nil \notin alive
    BY <1>5 DEF ReceiveVM
  <2> HIDE DEF TypeInv, Custody
  <2> QED
    BY <2>2, <2>3, <2>4, Custody DEF Custody
<1>6. ASSUME NEW r \in Request, ReceiveNil(r)
      PROVE  NothingLost'
  BY <1>6 DEF ReceiveNil, Goto
<1>7. ASSUME NEW r \in Request, LeaveQueue(r)
      PROVE  NothingLost'
  BY <1>7 DEF LeaveQueue, Goto
<1>8. ASSUME NEW r \in Request, ReturnPopsWaiter(r)
      PROVE  NothingLost'
  BY <1>8, SuffixElements DEF ReturnPopsWaiter, PopWaiter, Goto
<1>9. ASSUME NEW r \in Request, ReturnPopsNobody(r)
      PROVE  NothingLost'
  BY <1>9 DEF ReturnPopsNobody, PopNobody, Goto
<1>10. ASSUME NEW r \in Request, HandOff(r)
       PROVE  NothingLost'
  <2>1. peer[r] \in Request /\ mail[peer[r]] = Nil
    BY <1>10 DEF HandOff, CanSend
  <2>2. /\ mail'[peer[r]] = vm[r]
        /\ \A q \in Request \ {peer[r]} : mail'[q] = mail[q]
        /\ \A q \in Request \ {r} : vm'[q] = vm[q]
    BY <1>10, <2>1 DEF HandOff, GiveUp
  <2>3. alive' = alive /\ warm' = warm /\ live' = live /\ Nil \notin alive
    BY <1>10 DEF HandOff
  <2> HIDE DEF TypeInv, Custody
  <2> QED
    BY <2>1, <2>2, <2>3, Custody DEF Custody
<1>11. ASSUME NEW r \in Request, Park(r)
       PROVE  NothingLost'
  BY <1>11, AppendElements DEF Park, WarmHasRoom, GiveUp, Goto
<1>12. ASSUME NEW r \in Request, ParkFull(r)
       PROVE  NothingLost'
  BY <1>12 DEF ParkFull, Kill, Goto
<1>13. ASSUME NEW r \in Request, Drop(r)
       PROVE  NothingLost'
  BY <1>13 DEF Drop, CountOut, GiveUp, Goto
<1>14. ASSUME NEW r \in Request, DiscardForWaiter(r)
       PROVE  NothingLost'
  BY <1>14, SuffixElements DEF DiscardForWaiter, PopWaiter, GiveUp, Goto
<1>15. ASSUME NEW r \in Request, Discard(r)
       PROVE  NothingLost'
  BY <1>15 DEF Discard, PopNobody, CountOut, GiveUp, Goto
<1>16. ASSUME NEW r \in Request, DrainQueue(r)
       PROVE  NothingLost'
  BY <1>16 DEF DrainQueue, ResetQueue
<1>17. ASSUME NEW r \in Request, CloseNext(r)
       PROVE  NothingLost'
  BY <1>17, TailElements DEF CloseNext, Close
<1>18. ASSUME NEW r \in Request, FailWaitersReturns(r)
       PROVE  NothingLost'
  BY <1>18 DEF FailWaitersReturns
<1>19. ASSUME NEW r \in Request, ReplacementReleases(r)
       PROVE  NothingLost'
  BY <1>19 DEF ReplacementReleases, CountOut
<1>20. ASSUME NEW r \in Request, BootSucceeds(r)
       PROVE  NothingLost'
  <2>1. vm[r] = Nil /\ vm' = [vm EXCEPT ![r] = r]
    BY <1>20 DEF BootSucceeds, Obtain
  <2>2. /\ alive' = alive \cup {r} /\ Nil \notin alive
        /\ warm' = warm /\ live' = live /\ mail' = mail
    BY <1>20 DEF BootSucceeds
  <2>3. vm'[r] = r /\ \A q \in Request : vm[q] # Nil => vm'[q] = vm[q]
    BY <2>1
  <2> HIDE DEF TypeInv, Custody
  <2> QED
    BY <2>2, <2>3, Custody DEF Custody
<1>21. ASSUME NEW r \in Request, BootFails(r)
       PROVE  NothingLost'
  BY <1>21 DEF BootFails, CountOut, Goto
<1>22. ASSUME NEW r \in Request, GuestAnswers(r)
       PROVE  NothingLost'
  BY <1>22 DEF GuestAnswers, Goto
<1>23. ASSUME NEW r \in Request, GuestFails(r)
       PROVE  NothingLost'
  BY <1>23 DEF GuestFails, Kill, Goto
<1>24. ASSUME NEW r \in Request, ReplacementBoots(r)
       PROVE  NothingLost'
  BY <1>24 DEF ReplacementBoots, CanSend
<1>25. ASSUME NEW r \in Request, ReplacementFails(r)
       PROVE  NothingLost'
  BY <1>25 DEF ReplacementFails, Close
<1>26. ASSUME NEW r \in Request, ClientLeaves(r)
       PROVE  NothingLost'
  BY <1>26 DEF ClientLeaves
<1>27. ASSUME SweepStart
       PROVE  NothingLost'
  BY <1>27 DEF SweepStart
<1>28. ASSUME SweepKeep
       PROVE  NothingLost'
  BY <1>28, TailElements, AppendElements DEF SweepKeep, ReceiveWarm
<1>29. ASSUME SweepKill
       PROVE  NothingLost'
  BY <1>29, TailElements DEF SweepKill, ReceiveWarm, Kill
<1>30. ASSUME SweepTurn
       PROVE  NothingLost'
  BY <1>30 DEF SweepTurn
<1>31. ASSUME SweepPutBack
       PROVE  NothingLost'
  BY <1>31, TailElements, AppendElements DEF SweepPutBack, WarmHasRoom
<1>32. ASSUME SweepPutFull
       PROVE  NothingLost'
  BY <1>32, TailElements DEF SweepPutFull, Kill
<1>33. ASSUME SweepCountOut
       PROVE  NothingLost'
  BY <1>33 DEF SweepCountOut, CountOut
<1>34. ASSUME SweepEnd
       PROVE  NothingLost'
  BY <1>34 DEF SweepEnd
<1>35. CASE UNCHANGED vars
  BY <1>35 DEF vars
<1> QED
  BY <1>1, <1>2, <1>3, <1>4, <1>5, <1>6, <1>7, <1>8, <1>9, <1>10, <1>11,
     <1>12, <1>13, <1>14, <1>15, <1>16, <1>17, <1>18, <1>19, <1>20,
     <1>21, <1>22, <1>23, <1>24, <1>25, <1>26, <1>27, <1>28, <1>29,
     <1>30, <1>31, <1>32, <1>33, <1>34, <1>35
     DEF Next, Handler, FailWaiters, Boot, Guest, Replacement, Sweep

LEMMA NamesFreshStep == TypeInv /\ Custody /\ [Next]_vars => NamesFresh'
<1> SUFFICES ASSUME TypeInv, Custody, [Next]_vars
             PROVE  NamesFresh'
  OBVIOUS
<1> USE DEF TypeInv, HandsFull, Holding, TypeOK
<1> USE NilAssumption
<1> TypeInv'
  BY TypeInvStep
<1> USE DEF Custody, PlacesDisjoint, PlacesUp, NamesFresh, Dying
<1>1. ASSUME NEW r \in Request, TakeWarm(r)
      PROVE  NamesFresh'
  BY <1>1, TailElements DEF TakeWarm, ReceiveWarm, Obtain, Goto
<1>2. ASSUME NEW r \in Request, MissWarm(r)
      PROVE  NamesFresh'
  BY <1>2 DEF MissWarm, Goto
<1>3. ASSUME NEW r \in Request, ReserveSlot(r)
      PROVE  NamesFresh'
  BY <1>3 DEF ReserveSlot, Goto
<1>4. ASSUME NEW r \in Request, Enqueue(r)
      PROVE  NamesFresh'
  BY <1>4, AppendElements DEF Enqueue, Goto
<1>5. ASSUME NEW r \in Request, ReceiveVM(r)
      PROVE  NamesFresh'
  BY <1>5 DEF ReceiveVM, Obtain, Goto
<1>6. ASSUME NEW r \in Request, ReceiveNil(r)
      PROVE  NamesFresh'
  BY <1>6 DEF ReceiveNil, Goto
<1>7. ASSUME NEW r \in Request, LeaveQueue(r)
      PROVE  NamesFresh'
  BY <1>7 DEF LeaveQueue, Goto
<1>8. ASSUME NEW r \in Request, ReturnPopsWaiter(r)
      PROVE  NamesFresh'
  BY <1>8, SuffixElements DEF ReturnPopsWaiter, PopWaiter, Goto
<1>9. ASSUME NEW r \in Request, ReturnPopsNobody(r)
      PROVE  NamesFresh'
  BY <1>9, EmptyElements DEF ReturnPopsNobody, PopNobody, Goto
<1>10. ASSUME NEW r \in Request, HandOff(r)
       PROVE  NamesFresh'
  BY <1>10 DEF HandOff, CanSend, GiveUp, Goto
<1>11. ASSUME NEW r \in Request, Park(r)
       PROVE  NamesFresh'
  BY <1>11, AppendElements DEF Park, WarmHasRoom, GiveUp, Goto
<1>12. ASSUME NEW r \in Request, ParkFull(r)
       PROVE  NamesFresh'
  BY <1>12 DEF ParkFull, Kill, Goto
<1>13. ASSUME NEW r \in Request, Drop(r)
       PROVE  NamesFresh'
  BY <1>13 DEF Drop, CountOut, GiveUp, Goto
<1>14. ASSUME NEW r \in Request, DiscardForWaiter(r)
       PROVE  NamesFresh'
  <2>1. PICK w \in Request : PopWaiter(w) /\ repl' = [repl EXCEPT ![w] = "boot"]
    BY <1>14 DEF DiscardForWaiter
  <2>2. /\ w \in Range(waiting) /\ w \notin Range(waiting')
        /\ Range(waiting') \subseteq Range(waiting) /\ Distinct(waiting')
    <3>1. PICK i \in DOMAIN waiting :
             waiting[i] = w /\ waiting' = SubSeq(waiting, i + 1, Len(waiting))
      BY <2>1 DEF PopWaiter
    <3>2. w \in Range(waiting)
      BY <3>1 DEF Range
    <3> QED
      BY <3>1, <3>2, SuffixElements
  <2>3. \A v \in Request : v \in Dying' => v \in Dying
    BY <1>14 DEF DiscardForWaiter, GiveUp, Goto
  <2> QED
    BY <1>14, <2>1, <2>2, <2>3 DEF DiscardForWaiter, GiveUp, Goto
<1>15. ASSUME NEW r \in Request, Discard(r)
       PROVE  NamesFresh'
  <2>1. Range(waiting') \subseteq Range(waiting) /\ Distinct(waiting')
    BY <1>15, EmptyElements DEF Discard, PopNobody, Below, CountAfterKill
  <2>2. \A v \in Request : v \in Dying' => v \in Dying
    BY <1>15 DEF Discard, GiveUp, Goto
  <2> QED
    BY <1>15, <2>1, <2>2 DEF Discard, GiveUp, Goto
<1>16. ASSUME NEW r \in Request, DrainQueue(r)
       PROVE  NamesFresh'
  BY <1>16, EmptyElements DEF DrainQueue, ResetQueue
<1>17. ASSUME NEW r \in Request, CloseNext(r)
       PROVE  NamesFresh'
  BY <1>17, TailElements DEF CloseNext, Close
<1>18. ASSUME NEW r \in Request, FailWaitersReturns(r)
       PROVE  NamesFresh'
  BY <1>18 DEF FailWaitersReturns
<1>19. ASSUME NEW r \in Request, ReplacementReleases(r)
       PROVE  NamesFresh'
  BY <1>19 DEF ReplacementReleases, CountOut
<1>20. ASSUME NEW r \in Request, BootSucceeds(r)
       PROVE  NamesFresh'
  BY <1>20 DEF BootSucceeds, Obtain, Goto
<1>21. ASSUME NEW r \in Request, BootFails(r)
       PROVE  NamesFresh'
  BY <1>21 DEF BootFails, CountOut, Goto
<1>22. ASSUME NEW r \in Request, GuestAnswers(r)
       PROVE  NamesFresh'
  BY <1>22 DEF GuestAnswers, Goto
<1>23. ASSUME NEW r \in Request, GuestFails(r)
       PROVE  NamesFresh'
  BY <1>23 DEF GuestFails, Kill, Goto
<1>24. ASSUME NEW r \in Request, ReplacementBoots(r)
       PROVE  NamesFresh'
  BY <1>24 DEF ReplacementBoots, CanSend
<1>25. ASSUME NEW r \in Request, ReplacementFails(r)
       PROVE  NamesFresh'
  BY <1>25 DEF ReplacementFails, Close
<1>26. ASSUME NEW r \in Request, ClientLeaves(r)
       PROVE  NamesFresh'
  BY <1>26 DEF ClientLeaves
<1>27. ASSUME SweepStart
       PROVE  NamesFresh'
  BY <1>27 DEF SweepStart
<1>28. ASSUME SweepKeep
       PROVE  NamesFresh'
  BY <1>28, TailElements, AppendElements DEF SweepKeep, ReceiveWarm
<1>29. ASSUME SweepKill
       PROVE  NamesFresh'
  <2>1. /\ Head(warm) \in Range(warm) /\ Range(warm) = {Head(warm)} \cup Range(warm')
        /\ Distinct(warm) => Distinct(warm') /\ Head(warm) \notin Range(warm')
    BY <1>29, TailElements DEF SweepKill, ReceiveWarm
  <2>2. /\ victim = Nil /\ victim' = Head(warm) /\ alive' = alive \ {Head(warm)}
        /\ UNCHANGED <<waiting, mail, pc, vm, repl, live>>
    BY <1>29 DEF SweepKill, Kill
  <2> QED
    BY <2>1, <2>2
<1>30. ASSUME SweepTurn
       PROVE  NamesFresh'
  BY <1>30 DEF SweepTurn
<1>31. ASSUME SweepPutBack
       PROVE  NamesFresh'
  BY <1>31, TailElements, AppendElements DEF SweepPutBack, WarmHasRoom
<1>32. ASSUME SweepPutFull
       PROVE  NamesFresh'
  <2>1. /\ Head(live) \in Range(live) /\ Range(live) = {Head(live)} \cup Range(live')
        /\ Distinct(live) => Distinct(live') /\ Head(live) \notin Range(live')
    BY <1>32, TailElements DEF SweepPutFull
  <2>2. /\ victim = Nil /\ victim' = Head(live) /\ alive' = alive \ {Head(live)}
        /\ UNCHANGED <<waiting, mail, pc, vm, repl, warm>>
    BY <1>32 DEF SweepPutFull, Kill
  <2> QED
    BY <2>1, <2>2
<1>33. ASSUME SweepCountOut
       PROVE  NamesFresh'
  BY <1>33 DEF SweepCountOut, CountOut
<1>34. ASSUME SweepEnd
       PROVE  NamesFresh'
  BY <1>34 DEF SweepEnd
<1>35. CASE UNCHANGED vars
  BY <1>35 DEF vars
<1> QED
  BY <1>1, <1>2, <1>3, <1>4, <1>5, <1>6, <1>7, <1>8, <1>9, <1>10, <1>11,
     <1>12, <1>13, <1>14, <1>15, <1>16, <1>17, <1>18, <1>19, <1>20,
     <1>21, <1>22, <1>23, <1>24, <1>25, <1>26, <1>27, <1>28, <1>29,
     <1>30, <1>31, <1>32, <1>33, <1>34, <1>35
     DEF Next, Handler, FailWaiters, Boot, Guest, Replacement, Sweep

-----------------------------------------------------------------------------
(* The slot counter *)

Counted == /\ IsFiniteSet(Slots)
           /\ booted = Cardinality(Slots)
           /\ MaxVMs > 0 => booted <= MaxVMs

\* The three things a step can do to the slots.
LEMMA SlotsKept ==
    ASSUME Counted, Slots' = Slots, booted' = booted
    PROVE  Counted'
BY DEF Counted

LEMMA SlotTaken ==
    ASSUME Counted, NEW x, x \notin Slots, Slots' = Slots \cup {x},
           booted' = booted + 1, Below(booted)
    PROVE  Counted'
<1>1. IsFiniteSet(Slots') /\ Cardinality(Slots') = Cardinality(Slots) + 1
  BY FS_AddElement DEF Counted
<1>2. Cardinality(Slots) \in Nat
  BY FS_CardinalityType DEF Counted
<1> QED
  BY <1>1, <1>2, MaxVMsAssumption DEF Counted, Below

LEMMA SlotFreed ==
    ASSUME Counted, NEW x, x \in Slots, Slots' = Slots \ {x},
           booted' = booted - 1
    PROVE  Counted'
<1>1. IsFiniteSet(Slots') /\ Cardinality(Slots') = Cardinality(Slots) - 1
  BY FS_RemoveElement DEF Counted
<1>2. Cardinality(Slots) \in Nat
  BY FS_CardinalityType DEF Counted
<1> QED
  BY <1>1, <1>2, MaxVMsAssumption DEF Counted

LEMMA CountedStep == TypeInv /\ Custody /\ Counted /\ [Next]_vars => Counted'
<1> SUFFICES ASSUME TypeInv, Custody, Counted, [Next]_vars
             PROVE  Counted'
  OBVIOUS
<1> USE DEF TypeInv, HandsFull, Holding, TypeOK
<1> USE NilAssumption
<1> TypeInv'
  BY TypeInvStep
<1> USE DEF Custody, PlacesDisjoint, PlacesUp, NamesFresh, Slots, Booting, Unreleased, Dying
<1>1. ASSUME NEW r \in Request, TakeWarm(r)
      PROVE  Counted'
  <2>1. /\ Head(warm) \in Range(warm) /\ pc[r] \in {"new", "slow"}
        /\ pc' = [pc EXCEPT ![r] = "invoke"] /\ vm' = [vm EXCEPT ![r] = Head(warm)]
        /\ UNCHANGED <<booted, alive, repl, victim>>
    BY <1>1, TailElements DEF TakeWarm, Obtain, Goto
  <2>2. /\ \A q \in Request : pc'[q] \in {"boot", "drop", "discard"}
                               <=> pc[q] \in {"boot", "drop", "discard"}
        /\ \A q \in Request \ {r} : vm'[q] = vm[q] /\ pc'[q] = pc[q]
    BY <2>1
  <2>3. Booting' = Booting /\ Unreleased' = Unreleased /\ Dying' = Dying
    <3> HIDE DEF TypeInv, TypeOK, HandsFull, Holding, Custody, PlacesDisjoint, PlacesUp,
                 NamesFresh
    <3> QED
      BY <2>1, <2>2
  <2>4. Slots' = Slots
    BY <2>1, <2>3
  <2> QED
    BY <2>1, <2>4, SlotsKept
<1>2. ASSUME NEW r \in Request, MissWarm(r)
      PROVE  Counted'
  BY <1>2, SlotsKept DEF MissWarm, Goto
<1>3. ASSUME NEW r \in Request, ReserveSlot(r)
      PROVE  Counted'
  <2>1. r \notin Slots /\ Slots' = Slots \cup {r}
    BY <1>3 DEF ReserveSlot, Goto
  <2>2. booted' = booted + 1 /\ Below(booted)
    BY <1>3 DEF ReserveSlot
  <2> HIDE DEF TypeInv, Custody, Slots
  <2> QED
    BY <2>1, <2>2, SlotTaken
<1>4. ASSUME NEW r \in Request, Enqueue(r)
      PROVE  Counted'
  BY <1>4, AppendElements, SlotsKept DEF Enqueue, Goto
<1>5. ASSUME NEW r \in Request, ReceiveVM(r)
      PROVE  Counted'
  BY <1>5, SlotsKept DEF ReceiveVM, Obtain, Goto
<1>6. ASSUME NEW r \in Request, ReceiveNil(r)
      PROVE  Counted'
  BY <1>6, SlotsKept DEF ReceiveNil, Goto
<1>7. ASSUME NEW r \in Request, LeaveQueue(r)
      PROVE  Counted'
  BY <1>7, SlotsKept DEF LeaveQueue, Goto
<1>8. ASSUME NEW r \in Request, ReturnPopsWaiter(r)
      PROVE  Counted'
  <2>1. /\ pc[r] = "return" /\ pc' = [pc EXCEPT ![r] = "handoff"]
        /\ UNCHANGED <<booted, alive, vm, repl, victim>>
    BY <1>8 DEF ReturnPopsWaiter, Goto
  <2>2. Slots' = Slots
    BY <2>1
  <2> QED
    BY <2>1, <2>2, SlotsKept
<1>9. ASSUME NEW r \in Request, ReturnPopsNobody(r)
      PROVE  Counted'
  BY <1>9, SlotsKept DEF ReturnPopsNobody, PopNobody, Goto
<1>10. ASSUME NEW r \in Request, HandOff(r)
       PROVE  Counted'
  BY <1>10, SlotsKept DEF HandOff, CanSend, GiveUp, Goto
<1>11. ASSUME NEW r \in Request, Park(r)
       PROVE  Counted'
  BY <1>11, AppendElements, SlotsKept DEF Park, WarmHasRoom, GiveUp, Goto
<1>12. ASSUME NEW r \in Request, ParkFull(r)
       PROVE  Counted'
  BY <1>12, SlotsKept DEF ParkFull, Kill, Goto
<1>13. ASSUME NEW r \in Request, Drop(r)
       PROVE  Counted'
  <2>1. vm[r] \in Slots /\ Slots' = Slots \ {vm[r]}
    BY <1>13 DEF Drop, GiveUp, Goto
  <2>2. booted' = booted - 1
    BY <1>13 DEF Drop, CountOut
  <2> HIDE DEF TypeInv, Custody, Slots
  <2> QED
    BY <2>1, <2>2, SlotFreed
<1>14. ASSUME NEW r \in Request, DiscardForWaiter(r)
       PROVE  Counted'
  <2>1. PICK w \in Request : PopWaiter(w) /\ repl' = [repl EXCEPT ![w] = "boot"]
    BY <1>14 DEF DiscardForWaiter
  <2>2. w \in Range(waiting)
    BY <2>1 DEF PopWaiter, Range
  <2>3. vm[r] \in Slots /\ w \notin Slots
    BY <1>14, <2>2 DEF DiscardForWaiter
  <2>4. Slots' = (Slots \ {vm[r]}) \cup {w}
    BY <1>14, <2>1, <2>2 DEF DiscardForWaiter, GiveUp, Goto
  <2>5. booted' = booted
    BY <1>14 DEF DiscardForWaiter
  <2> HIDE DEF TypeInv, Custody, Slots
  <2>6. /\ IsFiniteSet(Slots \ {vm[r]})
        /\ Cardinality(Slots \ {vm[r]}) = Cardinality(Slots) - 1
    BY <2>3, FS_RemoveElement DEF Counted
  <2>7. IsFiniteSet(Slots') /\ Cardinality(Slots') = Cardinality(Slots) - 1 + 1
    BY <2>3, <2>4, <2>6, FS_AddElement
  <2>8. Cardinality(Slots) \in Nat
    BY FS_CardinalityType DEF Counted
  <2> QED
    BY <2>5, <2>7, <2>8 DEF Counted
<1>15. ASSUME NEW r \in Request, Discard(r)
       PROVE  Counted'
  <2>1. vm[r] \in Slots /\ Slots' = Slots \ {vm[r]}
    BY <1>15 DEF Discard, GiveUp, Goto
  <2>2. booted' = booted - 1
    BY <1>15 DEF Discard, CountOut
  <2> HIDE DEF TypeInv, Custody, Slots
  <2> QED
    BY <2>1, <2>2, SlotFreed
<1>16. ASSUME NEW r \in Request, DrainQueue(r)
       PROVE  Counted'
  BY <1>16, SlotsKept DEF DrainQueue, ResetQueue
<1>17. ASSUME NEW r \in Request, CloseNext(r)
       PROVE  Counted'
  BY <1>17, TailElements, SlotsKept DEF CloseNext, Close
<1>18. ASSUME NEW r \in Request, FailWaitersReturns(r)
       PROVE  Counted'
  BY <1>18, SlotsKept DEF FailWaitersReturns
<1>19. ASSUME NEW r \in Request, ReplacementReleases(r)
       PROVE  Counted'
  <2>1. r \in Slots /\ Slots' = Slots \ {r}
    BY <1>19 DEF ReplacementReleases, Goto
  <2>2. booted' = booted - 1
    BY <1>19 DEF ReplacementReleases, CountOut
  <2> HIDE DEF TypeInv, Custody, Slots
  <2> QED
    BY <2>1, <2>2, SlotFreed
<1>20. ASSUME NEW r \in Request, BootSucceeds(r)
       PROVE  Counted'
  BY <1>20, SlotsKept DEF BootSucceeds, Obtain, Goto
<1>21. ASSUME NEW r \in Request, BootFails(r)
       PROVE  Counted'
  <2>1. r \in Slots /\ Slots' = Slots \ {r}
    BY <1>21 DEF BootFails, Goto
  <2>2. booted' = booted - 1
    BY <1>21 DEF BootFails, CountOut
  <2> HIDE DEF TypeInv, Custody, Slots
  <2> QED
    BY <2>1, <2>2, SlotFreed
<1>22. ASSUME NEW r \in Request, GuestAnswers(r)
       PROVE  Counted'
  BY <1>22, SlotsKept DEF GuestAnswers, Goto
<1>23. ASSUME NEW r \in Request, GuestFails(r)
       PROVE  Counted'
  BY <1>23, SlotsKept DEF GuestFails, Kill, Goto
<1>24. ASSUME NEW r \in Request, ReplacementBoots(r)
       PROVE  Counted'
  BY <1>24, SlotsKept DEF ReplacementBoots, CanSend
<1>25. ASSUME NEW r \in Request, ReplacementFails(r)
       PROVE  Counted'
  BY <1>25, SlotsKept DEF ReplacementFails, Close
<1>26. ASSUME NEW r \in Request, ClientLeaves(r)
       PROVE  Counted'
  BY <1>26, SlotsKept DEF ClientLeaves
<1>27. ASSUME SweepStart
       PROVE  Counted'
  BY <1>27, SlotsKept DEF SweepStart
<1>28. ASSUME SweepKeep
       PROVE  Counted'
  BY <1>28, TailElements, AppendElements, SlotsKept DEF SweepKeep, ReceiveWarm
<1>29. ASSUME SweepKill
       PROVE  Counted'
  BY <1>29, TailElements, SlotsKept DEF SweepKill, ReceiveWarm, Kill
<1>30. ASSUME SweepTurn
       PROVE  Counted'
  BY <1>30, SlotsKept DEF SweepTurn
<1>31. ASSUME SweepPutBack
       PROVE  Counted'
  BY <1>31, TailElements, AppendElements, SlotsKept DEF SweepPutBack, WarmHasRoom
<1>32. ASSUME SweepPutFull
       PROVE  Counted'
  BY <1>32, TailElements, SlotsKept DEF SweepPutFull, Kill
<1>33. ASSUME SweepCountOut
       PROVE  Counted'
  <2>1. victim \in Slots /\ Slots' = Slots \ {victim}
    BY <1>33 DEF SweepCountOut, Goto
  <2>2. booted' = booted - 1
    BY <1>33 DEF SweepCountOut, CountOut
  <2> HIDE DEF TypeInv, Custody, Slots
  <2> QED
    BY <2>1, <2>2, SlotFreed
<1>34. ASSUME SweepEnd
       PROVE  Counted'
  BY <1>34, SlotsKept DEF SweepEnd
<1>35. CASE UNCHANGED vars
  BY <1>35, SlotsKept DEF vars
<1> QED
  BY <1>1, <1>2, <1>3, <1>4, <1>5, <1>6, <1>7, <1>8, <1>9, <1>10, <1>11,
     <1>12, <1>13, <1>14, <1>15, <1>16, <1>17, <1>18, <1>19, <1>20,
     <1>21, <1>22, <1>23, <1>24, <1>25, <1>26, <1>27, <1>28, <1>29,
     <1>30, <1>31, <1>32, <1>33, <1>34, <1>35
     DEF Next, Handler, FailWaiters, Boot, Guest, Replacement, Sweep

-----------------------------------------------------------------------------
(* The theorems *)

Inv == TypeInv /\ Custody /\ Counted

\* Inv is inductive.
THEOREM Invariance == Spec => []Inv
<1>1. Init => Inv
  <2> SUFFICES ASSUME Init
               PROVE  Inv
    OBVIOUS
  <2> USE DEF Init
  <2>1. TypeInv
    BY WarmPoolSizeAssumption DEF TypeInv, HandsFull, Holding, TypeOK, PCs, SweeperPCs
  <2>2. Slots = {} /\ Dying = {}
    BY NilAssumption DEF Slots, Booting, Unreleased, Dying
  <2>3. Custody
    BY <2>2, EmptyElements
       DEF Custody, PlacesDisjoint, PlacesUp, NothingLost, NamesFresh, Holding
  <2>4. Counted
    BY <2>2, FS_EmptySet, MaxVMsAssumption DEF Counted
  <2> QED
    BY <2>1, <2>3, <2>4 DEF Inv
<1>2. Inv /\ [Next]_vars => Inv'
  BY TypeInvStep, PlacesDisjointStep, PlacesUpStep, NothingLostStep, NamesFreshStep,
     CountedStep
     DEF Inv, Custody
<1> QED
  BY <1>1, <1>2, PTL DEF Spec

\* booted is the number of VMs that are up, being booted, or killed and not
\* yet counted out: one decrement per VM, on every path.
THEOREM SlotsAccounted == Spec => []SlotAccounting
<1>1. Inv => SlotAccounting
  BY DEF Inv, Counted, SlotAccounting
<1> QED
  BY <1>1, Invariance, PTL

\* Never more than MaxVMs VMs are up or being booted.
THEOREM CapacityKept == Spec => []CapacityRespected
<1>1. ASSUME Inv
      PROVE  CapacityRespected
  <2>1. alive \cup Booting \subseteq Slots
    BY DEF Slots
  <2>2. /\ IsFiniteSet(alive \cup Booting)
        /\ Cardinality(alive \cup Booting) <= Cardinality(Slots)
    BY <1>1, <2>1, FS_Subset DEF Inv, Counted
  <2>3. Cardinality(Slots) \in Nat /\ Cardinality(alive \cup Booting) \in Nat
    BY <1>1, <2>2, FS_CardinalityType DEF Inv, Counted
  <2> QED
    BY <1>1, <2>2, <2>3, MaxVMsAssumption DEF Inv, Counted, CapacityRespected
<1> QED
  BY <1>1, Invariance, PTL

\* The places of a VM, kind by kind.
LEMMA PlacesOf ==
    ASSUME NEW v
    PROVE  /\ \A r \in Request : vm[r] = v => <<"hand", r>> \in Places(v)
           /\ \A w \in Request : mail[w] = v => <<"mail", w>> \in Places(v)
           /\ \A i \in DOMAIN warm : warm[i] = v => <<"warm", i>> \in Places(v)
           /\ \A i \in DOMAIN live : live[i] = v => <<"live", i>> \in Places(v)
           /\ victim = v => <<"victim", Nil>> \in Places(v)
           /\ \A p \in Places(v) :
                 \/ \E r \in Request : vm[r] = v /\ p = <<"hand", r>>
                 \/ \E w \in Request : mail[w] = v /\ p = <<"mail", w>>
                 \/ \E i \in DOMAIN warm : warm[i] = v /\ p = <<"warm", i>>
                 \/ \E i \in DOMAIN live : live[i] = v /\ p = <<"live", i>>
                 \/ victim = v /\ p = <<"victim", Nil>>
<1>1. \A r \in Request : vm[r] = v => <<"hand", r>> \in Places(v)
  BY Zenon DEF Places
<1>2. \A w \in Request : mail[w] = v => <<"mail", w>> \in Places(v)
  BY Zenon DEF Places
<1>3. \A i \in DOMAIN warm : warm[i] = v => <<"warm", i>> \in Places(v)
  BY Zenon DEF Places
<1>4. \A i \in DOMAIN live : live[i] = v => <<"live", i>> \in Places(v)
  BY Zenon DEF Places
<1>5. victim = v => <<"victim", Nil>> \in Places(v)
  BY Zenon DEF Places
<1>6. \A p \in Places(v) :
                 \/ \E r \in Request : vm[r] = v /\ p = <<"hand", r>>
                 \/ \E w \in Request : mail[w] = v /\ p = <<"mail", w>>
                 \/ \E i \in DOMAIN warm : warm[i] = v /\ p = <<"warm", i>>
                 \/ \E i \in DOMAIN live : live[i] = v /\ p = <<"live", i>>
                 \/ victim = v /\ p = <<"victim", Nil>>
  BY Zenon DEF Places
<1> QED
  BY <1>1, <1>2, <1>3, <1>4, <1>5, <1>6

\* Every VM that is up, or was killed and is not yet counted out, is in exactly
\* one place, and no other VM is anywhere.
THEOREM CustodyKept == Spec => []VMCustody
<1>1. ASSUME Inv
      PROVE  VMCustody
  <2> USE <1>1, NilAssumption
      DEF Inv, TypeInv, TypeOK, HandsFull, Holding, Custody, PlacesUp
  <2>1. ASSUME NEW v \in Request, NEW a \in Places(v), NEW b \in Places(v)
        PROVE  a = b
    <3> v # Nil
      OBVIOUS
    <3>1. ASSUME NEW r \in Request, vm[r] = v, NEW p \in Places(v)
          PROVE  p = <<"hand", r>>
      BY <3>1, PlacesOf DEF PlacesDisjoint, Range
    <3>2. ASSUME NEW w \in Request, mail[w] = v, NEW p \in Places(v)
          PROVE  p = <<"mail", w>>
      BY <3>2, PlacesOf DEF PlacesDisjoint, Range
    <3>3. ASSUME NEW i \in DOMAIN warm, warm[i] = v, NEW p \in Places(v)
          PROVE  p = <<"warm", i>>
      <4>1. v \in Range(warm)
        BY <3>3 DEF Range
      <4>2. /\ \A r \in Request : vm[r] # v /\ mail[r] # v
            /\ v \notin Range(live) /\ victim # v
        BY <4>1 DEF PlacesDisjoint
      <4>3. \A j \in DOMAIN warm : warm[j] = v => j = i
        BY <3>3 DEF PlacesDisjoint, Distinct
      <4> QED
        BY <4>2, <4>3, PlacesOf DEF Range
    <3>4. ASSUME NEW i \in DOMAIN live, live[i] = v, NEW p \in Places(v)
          PROVE  p = <<"live", i>>
      <4>1. v \in Range(live)
        BY <3>4 DEF Range
      <4>2. /\ \A r \in Request : vm[r] # v /\ mail[r] # v
            /\ v \notin Range(warm) /\ victim # v
        BY <4>1 DEF PlacesDisjoint
      <4>3. \A j \in DOMAIN live : live[j] = v => j = i
        BY <3>4 DEF PlacesDisjoint, Distinct
      <4> QED
        BY <4>2, <4>3, PlacesOf DEF Range
    <3>5. ASSUME victim = v, NEW p \in Places(v)
          PROVE  p = <<"victim", Nil>>
      BY <3>5, PlacesOf DEF PlacesDisjoint, Range
    <3> QED
      <4>1. CASE \E r \in Request : vm[r] = v
        BY <3>1, <4>1
      <4>2. CASE \E w \in Request : mail[w] = v
        BY <3>2, <4>2
      <4>3. CASE \E i \in DOMAIN warm : warm[i] = v
        BY <3>3, <4>3
      <4>4. CASE \E i \in DOMAIN live : live[i] = v
        BY <3>4, <4>4
      <4>5. CASE victim = v
        BY <3>5, <4>5
      <4> QED
        BY <4>1, <4>2, <4>3, <4>4, <4>5, PlacesOf
  <2>2. ASSUME NEW v \in Request, Places(v) # {}
        PROVE  v \in alive \cup Dying
    <3> v # Nil
      OBVIOUS
    <3>1. CASE \E r \in Request : vm[r] = v
      BY <3>1 DEF Dying
    <3>2. CASE \E w \in Request : mail[w] = v
      BY <3>2
    <3>3. CASE v \in Range(warm) \cup Range(live)
      BY <3>3
    <3>4. CASE victim = v
      BY <3>4 DEF Dying
    <3>5. PICK p \in Places(v) : TRUE
      BY <2>2
    <3>6. \/ \E r \in Request : vm[r] = v
          \/ \E w \in Request : mail[w] = v
          \/ \E i \in DOMAIN warm : warm[i] = v
          \/ \E i \in DOMAIN live : live[i] = v
          \/ victim = v
      BY <3>5, PlacesOf
    <3> QED
      BY <3>1, <3>2, <3>3, <3>4, <3>6 DEF Range
  <2>3. ASSUME NEW v \in alive
        PROVE  Places(v) # {}
    <3>1. CASE v \in Range(warm)
      <4>1. PICK i \in DOMAIN warm : warm[i] = v
        BY <3>1 DEF Range
      <4> QED
        BY <4>1, PlacesOf
    <3>2. CASE v \in Range(live)
      <4>1. PICK i \in DOMAIN live : live[i] = v
        BY <3>2 DEF Range
      <4> QED
        BY <4>1, PlacesOf
    <3>3. CASE \E r \in Request : vm[r] = v
      BY <3>3, PlacesOf
    <3>4. CASE \E r \in Request : mail[r] = v
      BY <3>4, PlacesOf
    <3> QED
      BY <3>1, <3>2, <3>3, <3>4 DEF NothingLost, Somewhere
  <2>4. ASSUME NEW v \in Dying
        PROVE  Places(v) # {}
    <3>1. CASE victim = v
      BY <3>1, PlacesOf
    <3>2. CASE \E r \in Request : vm[r] = v
      BY <3>2, PlacesOf
    <3> QED
      BY <3>1, <3>2 DEF Dying
  <2>5. alive \cap Dying = {}
    BY DEF Dying
  <2> QED
    BY <2>1, <2>2, <2>3, <2>4, <2>5 DEF VMCustody, Dying
<1> QED
  BY <1>1, Invariance, PTL
-----------------------------------------------------------------------------
(* FunctionPool implements VMLease *)

\* A VM that is to come up is not up and there is room for it: its slot is
\* counted already.
LEMMA RoomForBoot ==
    ASSUME Inv, NEW r \in Request, pc[r] = "boot" \/ repl[r] = "boot"
    PROVE  /\ r \notin alive
           /\ MaxVMs > 0 => Cardinality(alive) < MaxVMs
<1>1. r \notin alive
  BY DEF Inv, Custody, NamesFresh
<1>2. alive \cup {r} \subseteq Slots
  BY DEF Slots, Booting
<1>3. /\ IsFiniteSet(alive \cup {r})
      /\ Cardinality(alive \cup {r}) <= Cardinality(Slots)
  BY <1>2, FS_Subset DEF Inv, Counted
<1>4. IsFiniteSet(alive) /\ Cardinality(alive \cup {r}) = Cardinality(alive) + 1
  BY <1>1, <1>3, FS_Subset, FS_AddElement
<1>5. Cardinality(Slots) \in Nat /\ Cardinality(alive) \in Nat
  BY <1>4, FS_CardinalityType DEF Inv, Counted
<1> QED
  BY <1>1, <1>3, <1>4, <1>5, MaxVMsAssumption DEF Inv, Counted

\* What VMLease sees of request r: the VM it runs on, and its state.
LeaseOf(r) == IF pc[r] = "invoke" THEN vm[r] ELSE Nil
Seen(r) == <<LeaseOf(r), LeaseState(r)>>

\* VMLease sees no request change except r.
OnlySeen(r) == \A q \in Request \ {r} : Seen(q)' = Seen(q)

\* The state functions of VMLease, as functions, after a step that changes what
\* it sees of r.
LEMMA SeenUpdate ==
    ASSUME NEW r \in Request, OnlySeen(r)
    PROVE  /\ [q \in Request |-> LeaseOf(q)]'
                 = [[q \in Request |-> LeaseOf(q)] EXCEPT ![r] = LeaseOf(r)']
           /\ [q \in Request |-> LeaseState(q)]'
                 = [[q \in Request |-> LeaseState(q)] EXCEPT ![r] = LeaseState(r)']
<1>1. \A q \in Request \ {r} : LeaseOf(q)' = LeaseOf(q) /\ LeaseState(q)' = LeaseState(q)
  BY DEF OnlySeen, Seen
<1> HIDE DEF LeaseOf, LeaseState
<1> QED
  BY <1>1

\* A step in which no VM comes up or goes down and VMLease sees no request
\* change is a stutter of VMLease.
LEMMA LeaseStutter ==
    ASSUME UNCHANGED alive, \A r \in Request : Seen(r)' = Seen(r)
    PROVE  UNCHANGED Lease!vars
<1>1. \A q \in Request : LeaseOf(q)' = LeaseOf(q) /\ LeaseState(q)' = LeaseState(q)
  BY DEF Seen
<1>2. /\ [q \in Request |-> LeaseOf(q)]' = [q \in Request |-> LeaseOf(q)]
      /\ [q \in Request |-> LeaseState(q)]' = [q \in Request |-> LeaseState(q)]
  BY <1>1
<1> QED
  BY <1>2 DEF Lease!vars, LeaseOf

\* A request starts on a VM that is up and that no request runs on.
LEMMA LeaseStarts ==
    ASSUME NEW r \in Request, NEW v \in alive, UNCHANGED alive, alive \subseteq Request,
           LeaseState(r) = "pending", \A q \in Request : LeaseOf(q) # v,
           Seen(r)' = <<v, "running">>, OnlySeen(r)
    PROVE  Lease!Next
<1>1. LeaseOf(r)' = v /\ LeaseState(r)' = "running"
  BY DEF Seen
<1>2. ~ Lease!Leased(v)
  BY DEF Lease!Leased, LeaseOf
<1>3. Lease!Lease(r, v)
  BY <1>1, <1>2, SeenUpdate DEF Lease!Lease, LeaseOf
<1> QED
  BY <1>3 DEF Lease!Next

\* VMLease counts as this module does.
LEMMA SameCardinality == \A S : Lease!Cardinality(S) = Cardinality(S)
BY Zenon DEF Lease!Cardinality, Cardinality

\* A request starts on a VM that comes up for it.
LEMMA LeaseColdStarts ==
    ASSUME NEW r \in Request, NEW v \in Request, v \notin alive, alive' = alive \cup {v},
           MaxVMs > 0 => Cardinality(alive) < MaxVMs,
           LeaseState(r) = "pending", Seen(r)' = <<v, "running">>, OnlySeen(r)
    PROVE  Lease!Next
<1>1. LeaseOf(r)' = v /\ LeaseState(r)' = "running"
  BY DEF Seen
<1>2. Lease!BootAndLease(r, v)
  BY <1>1, SeenUpdate, SameCardinality DEF Lease!BootAndLease, LeaseOf
<1> QED
  BY <1>2 DEF Lease!Next

\* A request ends, and its VM is killed or not.
LEMMA LeaseEnds ==
    ASSUME NEW r \in Request, LeaseState(r) = "running", Seen(r)' = <<Nil, "answered">>,
           OnlySeen(r), UNCHANGED alive \/ alive' = alive \ {LeaseOf(r)}
    PROVE  Lease!Next
<1>1. LeaseOf(r)' = Nil /\ LeaseState(r)' = "answered"
  BY DEF Seen
<1>2. CASE UNCHANGED alive
  <2>1. Lease!Release(r)
    BY <1>1, <1>2, SeenUpdate DEF Lease!Release, LeaseOf
  <2> QED
    BY <2>1 DEF Lease!Next
<1>3. CASE alive' = alive \ {LeaseOf(r)}
  <2>1. Lease!ReleaseAndStop(r)
    BY <1>1, <1>3, SeenUpdate DEF Lease!ReleaseAndStop, LeaseOf
  <2> QED
    BY <2>1 DEF Lease!Next
<1> QED
  BY <1>2, <1>3

\* A request that never ran is answered.
LEMMA LeaseRefuses ==
    ASSUME NEW r \in Request, UNCHANGED alive, LeaseState(r) = "pending",
           LeaseOf(r)' = LeaseOf(r), LeaseState(r)' = "answered", OnlySeen(r)
    PROVE  Lease!Next
<1>1. [q \in Request |-> LeaseOf(q)]' = [q \in Request |-> LeaseOf(q)]
  <2>1. \A q \in Request : LeaseOf(q)' = LeaseOf(q)
    BY DEF OnlySeen, Seen
  <2> QED
    BY <2>1
<1>2. Lease!Refuse(r)
  BY <1>1, SeenUpdate DEF Lease!Refuse, LeaseOf
<1> QED
  BY <1>2 DEF Lease!Next

\* A VM comes up, or one that no request runs on is killed.
LEMMA LeaseBootsOrStops ==
    ASSUME NEW v \in Request, \A q \in Request : Seen(q)' = Seen(q),
           \/ /\ v \notin alive /\ alive' = alive \cup {v}
              /\ MaxVMs > 0 => Cardinality(alive) < MaxVMs
           \/ /\ v \in alive /\ alive' = alive \ {v}
              /\ \A q \in Request : LeaseOf(q) # v
    PROVE  Lease!Next
<1>1. \A q \in Request : LeaseOf(q)' = LeaseOf(q) /\ LeaseState(q)' = LeaseState(q)
  BY DEF Seen
<1>2. /\ [q \in Request |-> LeaseOf(q)]' = [q \in Request |-> LeaseOf(q)]
      /\ [q \in Request |-> LeaseState(q)]' = [q \in Request |-> LeaseState(q)]
  BY <1>1
<1>3. CASE v \notin alive
  <2>1. Lease!Boot(v)
    BY <1>2, <1>3, SameCardinality DEF Lease!Boot, LeaseOf
  <2> QED
    BY <2>1 DEF Lease!Next
<1>4. CASE v \in alive
  <2>1. ~ Lease!Leased(v)
    BY <1>4 DEF Lease!Leased, LeaseOf
  <2>2. Lease!Stop(v)
    BY <1>2, <1>4, <2>1 DEF Lease!Stop, LeaseOf
  <2> QED
    BY <2>2 DEF Lease!Next
<1> QED
  BY <1>3, <1>4

\* Every step of the pool is a step of VMLease, or a stutter.
LEMMA LeaseStep == Inv /\ [Next]_vars => [Lease!Next]_Lease!vars
<1> SUFFICES ASSUME Inv, [Next]_vars
             PROVE  Lease!Next \/ UNCHANGED Lease!vars
  BY Zenon
<1> USE NilAssumption DEF Inv, TypeInv, TypeOK, HandsFull, Holding
<1> USE DEF Seen, LeaseOf, LeaseState, OnlySeen
<1>1. ASSUME NEW r \in Request, TakeWarm(r)
      PROVE  Lease!Next
  <2>1. /\ Head(warm) \in alive /\ UNCHANGED alive
        /\ \A q \in Request : vm[q] # Head(warm)
    BY <1>1, TailElements DEF TakeWarm, Custody, PlacesDisjoint, PlacesUp
  <2>2. /\ pc[r] \in {"new", "slow"} /\ pc' = [pc EXCEPT ![r] = "invoke"]
        /\ vm' = [vm EXCEPT ![r] = Head(warm)]
    BY <1>1 DEF TakeWarm, Obtain, Goto
  <2>3. LeaseState(r) = "pending" /\ Seen(r)' = <<Head(warm), "running">> /\ OnlySeen(r)
    BY <2>2
  <2>4. \A q \in Request : LeaseOf(q) # Head(warm)
    BY <2>1
  <2> HIDE DEF Seen, LeaseOf, LeaseState, OnlySeen
  <2> QED
    BY <2>1, <2>3, <2>4, LeaseStarts
<1>2. ASSUME NEW r \in Request, ReceiveVM(r)
      PROVE  Lease!Next
  <2>1. /\ mail[r] \in alive /\ UNCHANGED alive
        /\ \A q \in Request : vm[q] # mail[r]
    BY <1>2 DEF ReceiveVM, Custody, PlacesDisjoint, PlacesUp
  <2>2. /\ pc[r] = "queued" /\ pc' = [pc EXCEPT ![r] = "invoke"]
        /\ vm' = [vm EXCEPT ![r] = mail[r]]
    BY <1>2 DEF ReceiveVM, Obtain, Goto
  <2>3. LeaseState(r) = "pending" /\ Seen(r)' = <<mail[r], "running">> /\ OnlySeen(r)
    BY <2>2
  <2>4. \A q \in Request : LeaseOf(q) # mail[r]
    BY <2>1
  <2> HIDE DEF Seen, LeaseOf, LeaseState, OnlySeen
  <2> QED
    BY <2>1, <2>3, <2>4, LeaseStarts
<1>3. ASSUME NEW r \in Request, BootSucceeds(r)
      PROVE  Lease!Next
  <2>1. /\ pc[r] = "boot" /\ pc' = [pc EXCEPT ![r] = "invoke"]
        /\ vm' = [vm EXCEPT ![r] = r] /\ alive' = alive \cup {r}
    BY <1>3 DEF BootSucceeds, Obtain, Goto
  <2>2. r \notin alive /\ (MaxVMs > 0 => Cardinality(alive) < MaxVMs)
    BY <2>1, RoomForBoot
  <2>3. LeaseState(r) = "pending" /\ Seen(r)' = <<r, "running">> /\ OnlySeen(r)
    BY <2>1
  <2> HIDE DEF Seen, LeaseOf, LeaseState, OnlySeen
  <2> QED
    BY <2>1, <2>2, <2>3, LeaseColdStarts
<1>4. ASSUME NEW r \in Request, ReplacementBoots(r)
      PROVE  Lease!Next
  <2>1. repl[r] = "boot" /\ alive' = alive \cup {r} /\ UNCHANGED <<pc, vm>>
    BY <1>4 DEF ReplacementBoots
  <2>2. r \notin alive /\ (MaxVMs > 0 => Cardinality(alive) < MaxVMs)
    BY <2>1, RoomForBoot
  <2> QED
    BY <2>1, <2>2, LeaseBootsOrStops
<1>5. ASSUME NEW r \in Request, GuestAnswers(r) \/ GuestFails(r)
      PROVE  Lease!Next
  <2>1. /\ pc[r] = "invoke" /\ UNCHANGED vm
        /\ \/ pc' = [pc EXCEPT ![r] = "return"] /\ UNCHANGED alive
           \/ pc' = [pc EXCEPT ![r] = "discard"] /\ alive' = alive \ {vm[r]}
    BY <1>5 DEF GuestAnswers, GuestFails, Kill, Goto
  <2>2. LeaseState(r) = "running" /\ Seen(r)' = <<Nil, "answered">> /\ OnlySeen(r)
    BY <2>1
  <2>3. UNCHANGED alive \/ alive' = alive \ {LeaseOf(r)}
    BY <2>1
  <2> HIDE DEF Seen, LeaseOf, LeaseState, OnlySeen
  <2> QED
    BY <2>2, <2>3, LeaseEnds
<1>6. ASSUME NEW r \in Request, ParkFull(r)
      PROVE  Lease!Next
  <2>1. /\ pc[r] = "park" /\ UNCHANGED vm /\ alive' = alive \ {vm[r]}
        /\ pc' = [pc EXCEPT ![r] = "drop"]
    BY <1>6 DEF ParkFull, Kill, Goto
  <2>2. vm[r] \in alive /\ \A q \in Request : q # r => vm[q] # vm[r]
    BY <2>1 DEF Custody, PlacesDisjoint, PlacesUp
  <2> QED
    BY <2>1, <2>2, LeaseBootsOrStops
<1>7. ASSUME SweepKill \/ SweepPutFull
      PROVE  Lease!Next
  <2>1. PICK v : /\ v \in Range(warm) \cup Range(live)
                 /\ alive' = alive \ {v} /\ UNCHANGED <<pc, vm>>
    BY <1>7, TailElements DEF SweepKill, SweepPutFull, Kill
  <2>2. v \in alive /\ \A q \in Request : vm[q] # v
    BY <2>1 DEF Custody, PlacesDisjoint, PlacesUp
  <2> QED
    BY <2>1, <2>2, LeaseBootsOrStops
<1>8. ASSUME NEW r \in Request,
             \/ ReceiveNil(r) \/ LeaveQueue(r)
             \/ FailWaitersReturns(r) /\ pc[r] = "failing"
      PROVE  Lease!Next
  <2>1. /\ pc[r] \in {"queued", "failing"} /\ pc' = [pc EXCEPT ![r] = "done"]
        /\ UNCHANGED <<alive, vm>>
    BY <1>8 DEF ReceiveNil, LeaveQueue, FailWaitersReturns, Goto
  <2> QED
    BY <2>1, LeaseRefuses
<1>9. ASSUME NEW r \in Request,
             \/ MissWarm(r) \/ ReserveSlot(r) \/ Enqueue(r) \/ BootFails(r)
      PROVE  UNCHANGED Lease!vars
  <2>1. /\ pc[r] \in {"new", "slow", "boot"} /\ UNCHANGED <<alive, vm>>
        /\ \E p \in {"slow", "boot", "queued", "failing"} : pc' = [pc EXCEPT ![r] = p]
    BY <1>9 DEF MissWarm, ReserveSlot, Enqueue, BootFails, Goto
  <2> QED
    BY <2>1, LeaseStutter
<1>10. ASSUME NEW r \in Request,
              \/ ReturnPopsWaiter(r) \/ ReturnPopsNobody(r) \/ HandOff(r) \/ Park(r)
              \/ Drop(r) \/ DiscardForWaiter(r) \/ Discard(r)
       PROVE  UNCHANGED Lease!vars
  <2>1. /\ pc[r] \in {"return", "handoff", "park", "drop", "discard"}
        /\ \E p \in {"handoff", "park", "done"} : pc' = [pc EXCEPT ![r] = p]
        /\ UNCHANGED alive /\ \A q \in Request \ {r} : vm'[q] = vm[q]
    BY <1>10 DEF ReturnPopsWaiter, ReturnPopsNobody, HandOff, Park, Drop, DiscardForWaiter,
                 Discard, GiveUp, Goto
  <2> QED
    BY <2>1, LeaseStutter
<1>11. ASSUME NEW r \in Request,
              \/ ReplacementFails(r) \/ ReplacementReleases(r) \/ DrainQueue(r)
              \/ CloseNext(r) \/ ClientLeaves(r)
              \/ FailWaitersReturns(r) /\ pc[r] # "failing"
       PROVE  UNCHANGED Lease!vars
  <2>1. UNCHANGED <<pc, vm, alive>>
    BY <1>11 DEF ReplacementFails, ReplacementReleases, DrainQueue, CloseNext, ClientLeaves,
                 FailWaitersReturns
  <2> QED
    BY <2>1, LeaseStutter
<1>12. ASSUME \/ SweepStart \/ SweepKeep \/ SweepTurn \/ SweepPutBack \/ SweepCountOut
              \/ SweepEnd \/ UNCHANGED vars
       PROVE  UNCHANGED Lease!vars
  <2>1. UNCHANGED <<pc, vm, alive>>
    BY <1>12 DEF SweepStart, SweepKeep, SweepTurn, SweepPutBack, SweepCountOut, SweepEnd, vars
  <2> QED
    BY <2>1, LeaseStutter
<1> HIDE DEF Inv, TypeInv, TypeOK, HandsFull, Holding, Seen, LeaseOf, LeaseState, OnlySeen
<1>13. ASSUME NEW r \in Request, Handler(r)
       PROVE  Lease!Next \/ UNCHANGED Lease!vars
  BY <1>13, <1>1, <1>2, <1>6, <1>8, <1>9, <1>10 DEF Handler
<1>14. ASSUME NEW r \in Request, FailWaiters(r)
       PROVE  Lease!Next \/ UNCHANGED Lease!vars
  BY <1>14, <1>8, <1>11 DEF FailWaiters
<1>15. ASSUME NEW r \in Request,
              ReplacementReleases(r) \/ Boot(r) \/ Guest(r) \/ Replacement(r) \/ ClientLeaves(r)
       PROVE  Lease!Next \/ UNCHANGED Lease!vars
  BY <1>15, <1>3, <1>4, <1>5, <1>9, <1>11 DEF Boot, Guest, Replacement
<1>16. ASSUME SweepStart \/ Sweep \/ UNCHANGED vars
       PROVE  Lease!Next \/ UNCHANGED Lease!vars
  BY <1>16, <1>7, <1>12 DEF Sweep
<1> QED
  BY <1>13, <1>14, <1>15, <1>16 DEF Next

\* The pool keeps the promise of VMLease: one request at a time on a VM, only
\* running VMs are given out, never more than MaxVMs run, nobody stops a VM that
\* a request is using, and a request runs once at most and is then answered.
THEOREM Refinement == Spec => ImplementsVMLease
<1>1. Init => Lease!Init
  BY DEF Init, Lease!Init, LeaseState
<1> QED
  BY <1>1, LeaseStep, Invariance, PTL DEF Spec, Lease!Spec, ImplementsVMLease
=============================================================================
