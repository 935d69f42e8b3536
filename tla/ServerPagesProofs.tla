-------------------------- MODULE ServerPagesProofs --------------------------
(***************************************************************************)
(* Proofs about the registry, the pages and the form of the keys, for any  *)
(* sets of instances, clients, tabs and keys and any number of slots.      *)
(***************************************************************************)
EXTENDS ServerPagesProperties, SshKeysProofs

\* A request that its handler has not answered is one for an instance, and
\* each place in a handler belongs to certain operations.
RequestsMatch ==
    \A c \in Client : ~ Answered(c) =>
        /\ request[c].op \in Ops /\ For(c) \in Instance
        /\ request[c].pc \in {"allocate", "insert", "mark"} => request[c].op = "create"
        /\ request[c].pc = "load" => request[c].op # "create"

\* The list handler works on rows there are.
ListKnowsRows == \A i \in list.todo : Stored(i)

\* The list of servers has no query of a row.
PagesTypeOK == /\ page \in [Tab -> Page]
               /\ \A t \in Tab : page[t].inst = Nil => page[t].fetch = "none"

\* What a tab without a server has asked for is a create, or the delete that
\* has closed the page.
ActsOnItsServer ==
    \A t \in Tab : Busy(t) => request[t].op \in {"create", "delete"} \/ page[t].inst # Nil

TypeInv == RegistryTypeOK /\ PagesTypeOK /\ RequestsMatch /\ ListKnowsRows /\ ActsOnItsServer

-----------------------------------------------------------------------------
(* What the helpers make of a request *)

Working(c) == ~ Answered(c)

\* Request c is answered with a, the others stay as they are.
Answers1(c, a) ==
    /\ request' \in [Client -> Request]
    /\ request'[c].pc \in {a, "idle"} /\ Answered(c)'
    /\ \A d \in Client \ {c} : request'[d] = request[d]

LEMMA AnswerEffect ==
    ASSUME RegistryTypeOK, NEW c \in Client, NEW a \in {"ok", "failed"},
           request' = [request EXCEPT ![c] = After(c, a)]
    PROVE  /\ Answers1(c, a)
           /\ c \in Tab => request'[c].pc = a /\ request'[c].op = request[c].op
<1>1. /\ After(c, a) \in Request /\ After(c, a).pc \in {a, "idle"}
      /\ c \in Tab => After(c, a).pc = a /\ After(c, a).op = request[c].op
  <2>1. NoRequest \in Request /\ NoRequest.pc = "idle"
    BY MaxSlotAssumption DEF NoRequest, Request, PCs
  <2>2. request[c].op \in Ops \cup {"none"}
    BY DEF RegistryTypeOK, Request
  <2> DEFINE r == [NoRequest EXCEPT !.op = request[c].op, !.pc = a]
  <2>3. r \in Request /\ r.pc = a /\ r.op = request[c].op
    BY <2>1, <2>2 DEF Request, PCs
  <2>4. After(c, a) = IF c \in Tab THEN r ELSE NoRequest
    BY DEF After
  <2> HIDE DEF r
  <2> QED
    BY <2>1, <2>3, <2>4
<1>2. /\ request' \in [Client -> Request] /\ request'[c] = After(c, a)
      /\ \A d \in Client \ {c} : request'[d] = request[d]
  BY <1>1 DEF RegistryTypeOK
<1> QED
  BY <1>1, <1>2 DEF Answers1, Answered

\* Request c moves on to place p.
Moves(c, p) ==
    /\ request' \in [Client -> Request]
    /\ request'[c].pc = p /\ request'[c].op = request[c].op
    /\ request'[c].inst = request[c].inst
    /\ \A d \in Client \ {c} : request'[d] = request[d]

LEMMA GotoEffect ==
    ASSUME RegistryTypeOK, NEW c \in Client, NEW p \in PCs, Goto(c, p)
    PROVE  Moves(c, p) /\ request'[c].slot = request[c].slot
BY DEF Moves, Goto, RegistryTypeOK, Request

\* The last query sets the state of one row, and marks it deleted at most.
LEMMA WriteEffect ==
    ASSUME RegistryTypeOK, NEW c \in Client, For(c) \in Instance, request[c].op \in Ops
    PROVE  /\ Written(c) \in [Instance -> Row]
           /\ \A i \in Instance \ {For(c)} : Written(c)[i] = row[i]
           /\ Written(c)[For(c)].slot = row[For(c)].slot
           /\ Stored(For(c)) => Written(c)[For(c)].state # "none"
           /\ Written(c)[For(c)].deleted =
                (row[For(c)].deleted \/ request[c].op = "delete")
<1>1. row[For(c)] \in Row /\ row[For(c)].deleted \in BOOLEAN
  BY DEF RegistryTypeOK, Row
<1>2. CASE request[c].op \in {"create", "start"}
  <2>1. Written(c) = [row EXCEPT ![For(c)] = [@ EXCEPT !.state = "running"]]
    BY <1>2 DEF Written
  <2> QED
    BY <1>1, <1>2, <2>1 DEF RegistryTypeOK, Row, RowStates
<1>3. CASE request[c].op = "stop"
  <2>1. Written(c) = [row EXCEPT ![For(c)] = [@ EXCEPT !.state = "stopped"]]
    BY <1>3 DEF Written
  <2> QED
    BY <1>1, <1>3, <2>1 DEF RegistryTypeOK, Row, RowStates
<1>4. CASE request[c].op = "delete"
  <2>1. Written(c) = [row EXCEPT ![For(c)] = IF @.deleted THEN @
                                ELSE [@ EXCEPT !.state = "stopped", !.deleted = TRUE]]
    BY <1>4 DEF Written
  <2>2. CASE row[For(c)].deleted
    BY <1>1, <1>4, <2>1, <2>2 DEF RegistryTypeOK, Stored
  <2>3. CASE ~ row[For(c)].deleted
    <3> DEFINE r == [row[For(c)] EXCEPT !.state = "stopped", !.deleted = TRUE]
    <3>1. Written(c) = [row EXCEPT ![For(c)] = r]
      BY <2>1, <2>3
    <3>2. r \in Row /\ r.state # "none" /\ r.deleted = TRUE /\ r.slot = row[For(c)].slot
      BY <1>1 DEF Row, RowStates
    <3> HIDE DEF r
    <3> QED
      BY <1>1, <1>4, <3>1, <3>2 DEF RegistryTypeOK
  <2> QED
    BY <2>2, <2>3
<1> QED
  BY <1>2, <1>3, <1>4 DEF Ops

\* The mark is a slot of a row or zero, and no row is above it.
LEMMA HighWaterBounds ==
    ASSUME RegistryTypeOK
    PROVE  HighWater \in 0 .. MaxSlot /\ \A i \in Instance : row[i].slot <= HighWater
<1> DEFINE S == Occupied \cup {0}
<1>1. \A i \in Instance : row[i].slot \in 0 .. MaxSlot
  BY DEF RegistryTypeOK, Row
<1>2. S \subseteq 0 .. MaxSlot /\ S # {} /\ MaxSlot \in Nat
  BY <1>1, MaxSlotAssumption DEF Occupied
<1>3. \A i \in Instance : row[i].slot \in S
  BY DEF Occupied
<1> HIDE DEF S
<1>4. Max(S) \in S /\ \A y \in S : Max(S) >= y
  BY <1>2, MaxExists
<1> QED
  BY <1>1, <1>2, <1>3, <1>4 DEF HighWater, S

-----------------------------------------------------------------------------
(* Types *)

LEMMA InitTypes == RegistryInit /\ PagesInit => TypeInv
<1> SUFFICES ASSUME RegistryInit, PagesInit PROVE TypeInv
  OBVIOUS
<1>1. NoRequest \in Request /\ NoRequest.pc = "idle" /\ OnList \in Page
  BY MaxSlotAssumption DEF NoRequest, Request, PCs, OnList, Page
<1>2. [state |-> "none", slot |-> 0, deleted |-> FALSE] \in Row
  BY MaxSlotAssumption DEF Row
<1> QED
  BY <1>1, <1>2, TabAssumption
  DEF RegistryInit, PagesInit, TypeInv, RegistryTypeOK, PagesTypeOK, RequestsMatch,
      ListKnowsRows, ActsOnItsServer, VMStates, List, Answered, Busy, At, OnList

\* A request that is answered, and one that moves on within its operation.
LEMMA AnswerMatches ==
    ASSUME RequestsMatch, NEW c \in Client, NEW a, Answers1(c, a)
    PROVE  RequestsMatch'
BY DEF RequestsMatch, Answers1, Answered, For

LEMMA MoveMatches ==
    ASSUME RequestsMatch, NEW c \in Client, Working(c), NEW p, Moves(c, p),
           p \in {"allocate", "insert", "mark"} => request[c].op = "create", p # "load"
    PROVE  RequestsMatch'
BY DEF RequestsMatch, Moves, Working, Answered, For

LEMMA HandlersType ==
    ASSUME TypeInv, NEW c \in Client, Handle(c)
    PROVE  RegistryTypeOK' /\ RequestsMatch' /\ ListKnowsRows'
<1>1. RegistryTypeOK /\ RequestsMatch /\ ListKnowsRows
  BY DEF TypeInv
<1>2. Working(c) /\ For(c) \in Instance /\ request[c].op \in Ops /\ row[For(c)] \in Row
      /\ vm[For(c)] \in VMStates
  BY <1>1 DEF RegistryTypeOK, RequestsMatch, Working, Answered, Handle, At, Allocate, Insert,
    MarkError, LoadRow, ManagerSucceeds, ManagerFails, Write, QueryFails
<1>3. ASSUME Allocate(c) PROVE RegistryTypeOK' /\ RequestsMatch' /\ ListKnowsRows'
  <2>1. UNCHANGED <<row, vm, list>> /\ request[c].op = "create"
    BY <1>1, <1>3, <1>2 DEF Allocate, RequestsMatch, At, Working
  <2>2. CASE ~ Full
    <3>1. HighWater + 1 \in 0 .. MaxSlot
      BY <1>1, <2>2, HighWaterBounds, MaxSlotAssumption DEF Full
    <3>2. Moves(c, "insert")
      BY <1>1, <1>3, <2>2, <3>1 DEF Allocate, Moves, RegistryTypeOK, Request, PCs
    <3> QED
      BY <1>1, <1>2, <2>1, <3>2, MoveMatches DEF RegistryTypeOK, ListKnowsRows, Stored, Moves
  <2>3. CASE Full
    <3>1. Answers1(c, "failed")
      BY <1>1, <1>3, <2>3, AnswerEffect DEF Allocate
    <3> QED
      BY <1>1, <2>1, <3>1, AnswerMatches DEF RegistryTypeOK, ListKnowsRows, Stored, Answers1
  <2> QED
    BY <2>2, <2>3
<1>4. ASSUME Insert(c) PROVE RegistryTypeOK' /\ RequestsMatch' /\ ListKnowsRows'
  <2> DEFINE r == [state |-> "creating", slot |-> request[c].slot, deleted |-> FALSE]
  <2>1. r \in Row /\ r.state = "creating"
    BY <1>1 DEF RegistryTypeOK, Request, Row, RowStates
  <2>2. row' = [row EXCEPT ![For(c)] = r] /\ UNCHANGED <<vm, list>>
    BY <1>4 DEF Insert
  <2> DEFINE q == [request[c] EXCEPT !.slot = 0, !.pc = "manager"]
  <2>3. Moves(c, "manager")
    <3>0. 0 \in 0 .. MaxSlot /\ request[c] \in Request
      BY <1>1, MaxSlotAssumption DEF RegistryTypeOK
    <3>1. q \in Request /\ q.pc = "manager" /\ q.op = request[c].op /\ q.inst = request[c].inst
      BY <3>0 DEF Request, PCs
    <3>2. request' = [request EXCEPT ![c] = q]
      BY <1>4 DEF Insert
    <3> HIDE DEF q
    <3> QED
      BY <1>1, <3>1, <3>2 DEF Moves, RegistryTypeOK
  <2> HIDE DEF r
  <2> QED
    BY <1>1, <1>2, <2>1, <2>2, <2>3, MoveMatches DEF RegistryTypeOK, ListKnowsRows, Stored, Moves
<1>5. ASSUME MarkError(c) PROVE RegistryTypeOK' /\ RequestsMatch' /\ ListKnowsRows'
  <2>1. Answers1(c, "failed")
    BY <1>1, <1>5, AnswerEffect DEF MarkError, Answer
  <2>2. [row[For(c)] EXCEPT !.state = "error"] \in Row
    BY <1>2 DEF Row, RowStates
  <2> QED
    BY <1>1, <1>2, <1>5, <2>1, <2>2, AnswerMatches
    DEF RegistryTypeOK, ListKnowsRows, Stored, Answers1, MarkError
<1>6. ASSUME LoadRow(c) PROVE RegistryTypeOK' /\ RequestsMatch' /\ ListKnowsRows'
  <2>1. Answers1(c, "failed") \/ Moves(c, "manager")
    BY <1>1, <1>6, AnswerEffect, GotoEffect DEF LoadRow, Answer, PCs
  <2> QED
    BY <1>1, <1>2, <1>6, <2>1, AnswerMatches, MoveMatches
    DEF RegistryTypeOK, ListKnowsRows, Stored, Answers1, Moves, LoadRow
<1>7. ASSUME ManagerSucceeds(c) PROVE RegistryTypeOK' /\ RequestsMatch' /\ ListKnowsRows'
  <2>1. Moves(c, "write")
    BY <1>1, <1>7, GotoEffect DEF ManagerSucceeds, PCs
  <2>2. Effect(request[c].op, vm[For(c)]) \in VMStates
    BY <1>2 DEF Effect, VMStates, Ops
  <2> QED
    BY <1>1, <1>2, <1>7, <2>1, <2>2, MoveMatches
    DEF RegistryTypeOK, ListKnowsRows, Stored, Moves, ManagerSucceeds
<1>8. ASSUME ManagerFails(c) PROVE RegistryTypeOK' /\ RequestsMatch' /\ ListKnowsRows'
  <2>1. Answers1(c, "failed") \/ (Moves(c, "mark") /\ request[c].op = "create")
    BY <1>1, <1>8, AnswerEffect, GotoEffect DEF ManagerFails, AfterFailure, Answer, PCs
  <2>2. Remains(request[c].op, vm[For(c)]) \subseteq VMStates
    BY <1>2 DEF Remains, Effect, Refused, VMStates, Ops
  <2> QED
    BY <1>1, <1>2, <1>8, <2>1, <2>2, AnswerMatches, MoveMatches
    DEF RegistryTypeOK, ListKnowsRows, Stored, Answers1, Moves, ManagerFails
<1>9. ASSUME Write(c) PROVE RegistryTypeOK' /\ RequestsMatch' /\ ListKnowsRows'
  <2>1. Answers1(c, "ok")
    BY <1>1, <1>9, AnswerEffect DEF Write, Answer
  <2>2. row' = Written(c) /\ vm' = vm /\ list' = list
    BY <1>9 DEF Write
  <2>3. /\ row' \in [Instance -> Row] /\ \A i \in Instance \ {For(c)} : row'[i] = row[i]
        /\ Stored(For(c)) => row'[For(c)].state # "none"
    BY <1>1, <1>2, <2>2, WriteEffect
  <2>4. list.todo \subseteq Instance
    BY <1>1 DEF RegistryTypeOK, List
  <2> QED
    BY <1>1, <2>1, <2>2, <2>3, <2>4, AnswerMatches
    DEF RegistryTypeOK, ListKnowsRows, Stored, Answers1
<1>10. ASSUME QueryFails(c) PROVE RegistryTypeOK' /\ RequestsMatch' /\ ListKnowsRows'
  <2>1. Answers1(c, "failed")
    BY <1>1, <1>10, AnswerEffect DEF QueryFails, Answer
  <2> QED
    BY <1>1, <1>10, <2>1, AnswerMatches
    DEF RegistryTypeOK, ListKnowsRows, Stored, Answers1, QueryFails
<1> QED
  BY <1>3, <1>4, <1>5, <1>6, <1>7, <1>8, <1>9, <1>10 DEF Handle
\* A request arrives.
LEMMA AskEffect ==
    ASSUME RegistryTypeOK, NEW c \in Client, NEW o \in Ops, NEW i \in Instance, Ask(c, o, i)
    PROVE  /\ request' \in [Client -> Request]
           /\ request'[c].op = o /\ request'[c].inst = i
           /\ request'[c].pc = FirstStep[o] /\ FirstStep[o] \in {"allocate", "load"}
           /\ FirstStep[o] = "allocate" <=> o = "create"
           /\ \A d \in Client \ {c} : request'[d] = request[d]
           /\ UNCHANGED <<row, vm, list>>
<1> DEFINE q == [op |-> o, inst |-> i, slot |-> 0, pc |-> FirstStep[o]]
<1>1. FirstStep[o] \in {"allocate", "load"} /\ (FirstStep[o] = "allocate" <=> o = "create")
  BY DEF FirstStep, Ops
<1>2. 0 \in 0 .. MaxSlot
  BY MaxSlotAssumption
<1>3. q \in Request
  BY <1>1, <1>2 DEF Request, PCs
<1>4. request' = [request EXCEPT ![c] = q] /\ UNCHANGED <<row, vm, list>>
  BY DEF Ask
<1> QED
  BY <1>1, <1>3, <1>4 DEF RegistryTypeOK

\* Every tab is a client.
LEMMA TabsAreClients == \A t \in Tab : t \in Client
BY TabAssumption

LEMMA AskKeepsTypes ==
    ASSUME TypeInv, NEW c \in Client, NEW o \in Ops, NEW i \in Instance, Ask(c, o, i)
    PROVE  RegistryTypeOK' /\ RequestsMatch' /\ ListKnowsRows'
<1>1. RegistryTypeOK /\ RequestsMatch /\ ListKnowsRows
  BY DEF TypeInv
<1> QED
  BY <1>1, AskEffect DEF RegistryTypeOK, RequestsMatch, ListKnowsRows, Stored, Answered, For

\* The list handler, the host and a restart of the frontend.
LEMMA ReconcileEffect ==
    ASSUME TypeInv, Reconcile
    PROVE  /\ row' \in [Instance -> Row] /\ list' \in List
           /\ \A i \in Instance : /\ Stored(i)' <=> Stored(i)
                                 /\ row'[i].slot = row[i].slot
                                 /\ row'[i].deleted = row[i].deleted
           /\ \A i \in list'.todo : Stored(i)
           /\ UNCHANGED <<vm, request>>
<1>1. row \in [Instance -> Row] /\ list \in List /\ \A i \in list.todo : Stored(i)
  BY DEF TypeInv, RegistryTypeOK, ListKnowsRows
<1>2. list.todo \subseteq Instance /\ [pc |-> "idle", todo |-> {}] \in List
  BY <1>1 DEF List
<1>3. CASE ListReads
  BY <1>1, <1>3 DEF ListReads, Candidates, List, Stored
<1>4. CASE ListAsks
  BY <1>1, <1>2, <1>4 DEF ListAsks, Stale, List, Stored
<1>5. CASE ListMarks
  <2> DEFINE r(i) == [row[i] EXCEPT !.state = "stopped"]
  <2>1. \A i \in Instance : /\ r(i) \in Row /\ r(i).slot = row[i].slot
                            /\ r(i).deleted = row[i].deleted /\ r(i).state = "stopped"
    BY <1>1 DEF Row, RowStates
  <2>2. row' = [i \in Instance |-> IF i \in list.todo /\ ~ row[i].deleted THEN r(i) ELSE row[i]]
        /\ list' = [pc |-> "idle", todo |-> {}] /\ UNCHANGED <<vm, request>>
    BY <1>5 DEF ListMarks
  <2> HIDE DEF r
  <2> QED
    BY <1>1, <1>2, <2>1, <2>2 DEF Stored
<1>6. CASE ListSkips
  BY <1>1, <1>2, <1>6 DEF ListSkips, Stored
<1> QED
  BY <1>3, <1>4, <1>5, <1>6 DEF Reconcile

LEMMA VanishEffect ==
    ASSUME TypeInv, VMsVanish
    PROVE  /\ vm' \in [Instance -> VMStates]
           /\ \A i \in Instance : vm'[i] = "gone" <=> vm[i] = "gone"
           /\ UNCHANGED <<row, request, list>>
BY DEF TypeInv, RegistryTypeOK, VMsVanish, VMStates

LEMMA RestartEffect ==
    ASSUME TypeInv, FrontendRestarts
    PROVE  /\ vm' \in [Instance -> VMStates] /\ list' \in List /\ list'.todo = {}
           /\ request' \in [Client -> Request] /\ \A c \in Client : Answered(c)'
           /\ \A c \in Tab : /\ request'[c].op = request[c].op
                             /\ request'[c].pc = "ok" <=> request[c].pc = "ok"
                             /\ Busy(c)' => Busy(c)
           /\ \A i \in Instance :
                 \/ vm'[i] = vm[i]
                 \/ \E c \in Client : /\ At(c, "manager") /\ For(c) = i
                                       /\ vm'[i] \in Remains(request[c].op, vm[i])
           /\ UNCHANGED row
<1>1. [pc |-> "idle", todo |-> {}] \in List
  BY DEF List
<1>2. ASSUME NEW c \in Client
      PROVE  /\ After(c, "failed") \in Request /\ After(c, "failed").pc \in {"failed", "idle"}
             /\ c \in Tab => After(c, "failed").op = request[c].op
  <2>1. NoRequest \in Request /\ NoRequest.pc = "idle"
    BY MaxSlotAssumption DEF NoRequest, Request, PCs
  <2>2. request[c].op \in Ops \cup {"none"}
    BY DEF TypeInv, RegistryTypeOK, Request
  <2> DEFINE r == [NoRequest EXCEPT !.op = request[c].op, !.pc = "failed"]
  <2>3. r \in Request /\ r.pc = "failed" /\ r.op = request[c].op
    BY <2>1, <2>2 DEF Request, PCs
  <2>4. After(c, "failed") = IF c \in Tab THEN r ELSE NoRequest
    BY DEF After
  <2> HIDE DEF r
  <2> QED
    BY <2>1, <2>3, <2>4
<1>3. request' = [c \in Client |-> IF Answered(c) THEN request[c] ELSE After(c, "failed")]
      /\ list' = [pc |-> "idle", todo |-> {}] /\ vm' \in [Instance -> VMStates] /\ row' = row
  BY DEF FrontendRestarts
<1>4. request' \in [Client -> Request] /\ \A c \in Client : Answered(c)'
  BY <1>2, <1>3 DEF TypeInv, RegistryTypeOK, Answered
<1>5. \A c \in Tab : /\ request'[c].op = request[c].op
                     /\ request'[c].pc = "ok" <=> request[c].pc = "ok"
                     /\ Busy(c)' => Busy(c)
  BY <1>2, <1>3, TabAssumption DEF Answered, Busy, At
<1>6. ASSUME NEW i \in Instance, vm'[i] # vm[i]
      PROVE  \E c \in Client : /\ At(c, "manager") /\ For(c) = i
                               /\ vm'[i] \in Remains(request[c].op, vm[i])
  BY <1>6 DEF FrontendRestarts
<1> QED
  BY <1>1, <1>3, <1>4, <1>5, <1>6
\* A tab's request ends, and the tab is free again.
LEMMA ActEffect ==
    ASSUME TypeInv, NEW t \in Tab, Act(t)
    PROVE  /\ t \in Client /\ request[t].pc \in {"ok", "failed"}
           /\ request' \in [Client -> Request] /\ request'[t].pc = "idle"
           /\ \A d \in Client \ {t} : request'[d] = request[d]
           /\ UNCHANGED <<row, vm, list>>
<1>1. NoRequest \in Request /\ NoRequest.pc = "idle" /\ t \in Client
  BY MaxSlotAssumption, TabAssumption DEF NoRequest, Request, PCs
<1>2. request' = [request EXCEPT ![t] = NoRequest] /\ UNCHANGED <<row, vm, list>>
      /\ request[t].pc \in {"ok", "failed"}
  BY DEF Act, ActSucceeds, ActFails, Released, At
<1> QED
  BY <1>1, <1>2 DEF TypeInv, RegistryTypeOK

LEMMA RegistryTypes ==
    ASSUME TypeInv, PagesNext
    PROVE  RegistryTypeOK' /\ RequestsMatch' /\ ListKnowsRows'
<1>1. RegistryTypeOK /\ RequestsMatch /\ ListKnowsRows
  BY DEF TypeInv
<1>2. ASSUME UNCHANGED registryVars PROVE RegistryTypeOK' /\ RequestsMatch' /\ ListKnowsRows'
  BY <1>1, <1>2
  DEF registryVars, RegistryTypeOK, RequestsMatch, ListKnowsRows, Stored, Answered, For
<1>3. ASSUME NEW t \in Tab, NEW i \in Instance, Open(t, i) \/ SubmitCreate(t, i)
      PROVE  RegistryTypeOK' /\ RequestsMatch' /\ ListKnowsRows'
  BY <1>2, <1>3, AskKeepsTypes, TabsAreClients DEF Open, SubmitCreate, Ops
<1>4. ASSUME NEW t \in Tab, NEW o \in Ops, Press(t, o)
      PROVE  RegistryTypeOK' /\ RequestsMatch' /\ ListKnowsRows'
  <2>1. page[t].inst \in Instance
    BY <1>4 DEF TypeInv, PagesTypeOK, Page, Press
  <2> QED
    BY <1>4, <2>1, AskKeepsTypes, TabsAreClients DEF Press
<1>5. ASSUME NEW t \in Tab, Query(t) PROVE RegistryTypeOK' /\ RequestsMatch' /\ ListKnowsRows'
  BY <1>2, <1>5 DEF Query, Poll, DetailAnswers, DetailFails, DetailArrives
<1>6. ASSUME NEW t \in Tab, Act(t) PROVE RegistryTypeOK' /\ RequestsMatch' /\ ListKnowsRows'
  BY <1>1, <1>6, ActEffect DEF RegistryTypeOK, RequestsMatch, ListKnowsRows, Stored, Answered, For
<1>7. ASSUME NEW c \in Client, Elsewhere(c) \/ HandlerRuns(c)
      PROVE  RegistryTypeOK' /\ RequestsMatch' /\ ListKnowsRows'
  BY <1>7, AskKeepsTypes, HandlersType DEF Elsewhere, HandlerRuns
<1>8. CASE Reconcile
  BY <1>1, <1>8, ReconcileEffect
  DEF RegistryTypeOK, RequestsMatch, ListKnowsRows, Answered, For, List
<1>9. CASE VMsVanish
  BY <1>1, <1>9, VanishEffect
  DEF RegistryTypeOK, RequestsMatch, ListKnowsRows, Stored, Answered, For
<1>10. CASE FrontendRestarts
  BY <1>1, <1>10, RestartEffect
  DEF RegistryTypeOK, RequestsMatch, ListKnowsRows, Stored
<1> QED
  BY <1>3, <1>4, <1>5, <1>6, <1>7, <1>8, <1>9, <1>10 DEF PagesNext

\* What a step makes of a page.
LEMMA PageTypes ==
    ASSUME TypeInv, PagesNext
    PROVE  PagesTypeOK'
<1>1. /\ page \in [Tab -> Page] /\ OnList \in Page /\ OnList.fetch = "none"
      /\ \A t \in Tab : page[t].inst = Nil => page[t].fetch = "none"
  BY DEF TypeInv, PagesTypeOK, OnList, Page
<1>2. ASSUME NEW t \in Tab, NEW p \in Page, p.inst = Nil => p.fetch = "none", Set(t, p)
      PROVE  PagesTypeOK'
  BY <1>1, <1>2 DEF Set, PagesTypeOK
<1>3. ASSUME NEW t \in Tab, NEW i \in Instance, Open(t, i) PROVE PagesTypeOK'
  <2> DEFINE p == [OnList EXCEPT !.inst = i, !.fetch = "sent"]
  <2>1. p \in Page /\ p.inst # Nil
    BY <1>1, NilIsNoInstance DEF Page
  <2>2. Set(t, p)
    BY <1>3 DEF Open
  <2> HIDE DEF p
  <2> QED
    BY <1>2, <2>1, <2>2
<1>4. ASSUME NEW t \in Tab, page[t].inst # Nil, NEW f \in {"none", "sent"} \cup Answers,
             NEW d \in {"pending"} \cup Answers, NEW b \in BOOLEAN, NEW e \in BOOLEAN,
             Set(t, [page[t] EXCEPT !.data = d, !.fetch = f, !.old = b, !.late = e])
      PROVE  PagesTypeOK'
  <2> DEFINE p == [page[t] EXCEPT !.data = d, !.fetch = f, !.old = b, !.late = e]
  <2>1. p \in Page /\ p.inst # Nil
    BY <1>1, <1>4 DEF Page
  <2> HIDE DEF p
  <2> QED
    BY <1>2, <1>4, <2>1 DEF p
<1>5. ASSUME NEW t \in Tab, Query(t) PROVE PagesTypeOK'
  <2>1. page[t] \in Page /\ page[t].inst # Nil
    BY <1>1, <1>5 DEF Query, Poll, PollDue, DetailAnswers, DetailFails, DetailArrives, Answers,
      RowStates
  <2>2. View(page[t].inst) \in Answers
    BY <2>1 DEF View, Active, Stored, Answers, TypeInv, RegistryTypeOK, Row, Page
  <2>3. \E f \in {"none", "sent"} \cup Answers, d \in {"pending"} \cup Answers,
           b \in BOOLEAN, e \in BOOLEAN :
              Set(t, [page[t] EXCEPT !.data = d, !.fetch = f, !.old = b, !.late = e])
    <3>1. CASE Poll(t)
      <4>1. Set(t, [page[t] EXCEPT !.data = page[t].data, !.fetch = "sent",
                                   !.old = page[t].old, !.late = page[t].late])
        BY <2>1, <3>1 DEF Poll, Page
      <4> QED
        BY <2>1, <4>1 DEF Page
    <3>2. CASE DetailAnswers(t)
      <4>1. Set(t, [page[t] EXCEPT !.data = page[t].data, !.fetch = View(page[t].inst),
                                   !.old = page[t].old, !.late = FALSE])
        BY <2>1, <3>2 DEF DetailAnswers, Page
      <4> QED
        BY <2>1, <2>2, <4>1 DEF Page
    <3>3. CASE DetailFails(t)
      <4>1. Set(t, [page[t] EXCEPT !.data = page[t].data, !.fetch = "missing",
                                   !.old = page[t].old, !.late = FALSE])
        BY <2>1, <3>3 DEF DetailFails, Page
      <4> QED
        BY <2>1, <4>1 DEF Page, Answers
    <3>4. CASE DetailArrives(t)
      BY <2>1, <3>4 DEF DetailArrives, Page
    <3> QED
      BY <1>5, <3>1, <3>2, <3>3, <3>4 DEF Query
  <2> QED
    BY <1>4, <2>1, <2>3
<1>6. ASSUME NEW t \in Tab, Act(t) PROVE PagesTypeOK'
  <2>1. CASE ActFails(t)
    BY <1>1, <2>1 DEF ActFails, PagesTypeOK
  <2>2. CASE ActSucceeds(t) /\ request[t].op \in {"create", "delete"}
    BY <1>1, <1>2, <2>2 DEF ActSucceeds
  <2>3. CASE ActSucceeds(t) /\ request[t].op \notin {"create", "delete"}
    <3>1. page[t].inst # Nil /\ page[t] \in Page
      BY <1>1, <2>3 DEF TypeInv, ActsOnItsServer, ActSucceeds, Busy, At
    <3>2. Set(t, [page[t] EXCEPT !.data = page[t].data, !.fetch = "sent",
                                 !.old = page[t].old, !.late = FALSE])
      BY <2>3, <3>1 DEF ActSucceeds, Refetch, Page
    <3> QED
      BY <1>4, <3>1, <3>2 DEF Page
  <2> QED
    BY <1>6, <2>1, <2>2, <2>3 DEF Act
<1>7. ASSUME NEW c \in Client, HandlerRuns(c) PROVE PagesTypeOK'
  <2>1. CASE page' = page
    BY <1>1, <2>1 DEF PagesTypeOK
  <2>2. CASE c \in Tab /\ page' = [page EXCEPT ![c] = Outdated(@)]
    <3> DEFINE b == page[c].fetch \in Answers
               p == [page[c] EXCEPT !.old = TRUE, !.late = b]
    <3>1. b \in BOOLEAN
      OBVIOUS
    <3>2. Set(c, p)
      BY <2>2 DEF Outdated, Set
    <3> HIDE DEF b
    <3>3. p \in Page /\ p.inst = page[c].inst /\ p.fetch = page[c].fetch
      BY <1>1, <2>2, <3>1 DEF Page
    <3> HIDE DEF p
    <3> QED
      BY <1>1, <1>2, <2>2, <3>2, <3>3
  <2> QED
    BY <1>7, <2>1, <2>2 DEF HandlerRuns
<1>8. page' = page => PagesTypeOK'
  BY <1>1 DEF PagesTypeOK
<1> QED
  BY <1>3, <1>5, <1>6, <1>7, <1>8 DEF PagesNext, SubmitCreate, Press, Elsewhere
\* A handler keeps its operation, and answers "ok" only after its last query.
LEMMA HandlerRequest ==
    ASSUME TypeInv, NEW c \in Client, Handle(c)
    PROVE  /\ Working(c)
           /\ \A d \in Client \ {c} : request'[d] = request[d]
           /\ c \in Tab => request'[c].op = request[c].op
           /\ request'[c].pc = "ok" => At(c, "write")
<1>1. RegistryTypeOK /\ Working(c)
  BY DEF TypeInv, Working, Answered, Handle, At, Allocate, Insert,
    MarkError, LoadRow, ManagerSucceeds, ManagerFails, Write, QueryFails
<1>2. \/ request' = [request EXCEPT ![c] = After(c, "failed")]
      \/ At(c, "write") /\ request' = [request EXCEPT ![c] = After(c, "ok")]
      \/ \E p \in PCs \ {"ok"} : Goto(c, p)
      \/ request' = [request EXCEPT ![c] = [@ EXCEPT !.slot = HighWater + 1, !.pc = "insert"]]
      \/ request' = [request EXCEPT ![c] = [@ EXCEPT !.slot = 0, !.pc = "manager"]]
  BY DEF Handle, Allocate, Insert, MarkError, LoadRow, ManagerSucceeds, ManagerFails, Write,
    QueryFails, Answer, AfterFailure, PCs
<1>3. CASE request' = [request EXCEPT ![c] = After(c, "failed")]
  BY <1>1, <1>3, AnswerEffect DEF Answers1
<1>4. CASE At(c, "write") /\ request' = [request EXCEPT ![c] = After(c, "ok")]
  BY <1>1, <1>4, AnswerEffect DEF Answers1
<1>5. ASSUME NEW p \in PCs \ {"ok"}, Goto(c, p)
      PROVE  /\ \A d \in Client \ {c} : request'[d] = request[d]
             /\ request'[c].op = request[c].op /\ request'[c].pc # "ok"
  BY <1>1, <1>5, GotoEffect DEF Moves
<1>6. ASSUME NEW s, NEW p, p # "ok", request' = [request EXCEPT ![c] = [@ EXCEPT !.slot = s, !.pc = p]]
      PROVE  /\ \A d \in Client \ {c} : request'[d] = request[d]
             /\ request'[c].op = request[c].op /\ request'[c].pc # "ok"
  BY <1>1, <1>6 DEF RegistryTypeOK, Request
<1> QED
  BY <1>1, <1>2, <1>3, <1>4, <1>5, <1>6

\* The query of a tab leaves the registry alone. What it shows when it has ended
\* is as late as the answer was, and a new answer is not late.
LEMMA QueryEffect ==
    ASSUME TypeInv, NEW t \in Tab, Query(t)
    PROVE  /\ UNCHANGED registryVars
           /\ \A u \in Tab \ {t} : page'[u] = page[u]
           /\ page'[t].inst = page[t].inst
           /\ page'[t].fetch = "none" => page[t].fetch \in Answers /\ page'[t].old = page[t].late
           /\ page'[t].fetch \in Answers => ~ page'[t].late
<1>1. page \in [Tab -> Page] /\ page[t] \in Page
  BY DEF TypeInv, PagesTypeOK
<1>2. "none" \notin Answers /\ "sent" \notin Answers
  BY DEF Answers, RowStates
<1>3. CASE Poll(t)
  BY <1>1, <1>2, <1>3 DEF Poll, Set, Page
<1>4. CASE DetailAnswers(t)
  <2>1. page[t].inst # Nil
    BY <1>4 DEF TypeInv, PagesTypeOK, DetailAnswers
  <2>2. View(page[t].inst) \in Answers
    BY <1>1, <2>1 DEF View, Active, Stored, Answers, TypeInv, RegistryTypeOK, Row, Page
  <2>3. page' = [page EXCEPT ![t] = [page[t] EXCEPT !.fetch = View(page[t].inst), !.late = FALSE]]
        /\ UNCHANGED registryVars
    BY <1>4 DEF DetailAnswers, Set
  <2> QED
    BY <1>1, <1>2, <2>2, <2>3 DEF Page
<1>5. CASE DetailFails(t)
  BY <1>1, <1>2, <1>5 DEF DetailFails, Set, Page, Answers
<1>6. CASE DetailArrives(t)
  BY <1>1, <1>2, <1>6 DEF DetailArrives, Set, Page
<1> QED
  BY <1>3, <1>4, <1>5, <1>6 DEF Query

LEMMA ActsStayOnServers ==
    ASSUME TypeInv, PagesNext
    PROVE  ActsOnItsServer'
<1>1. /\ RegistryTypeOK /\ ActsOnItsServer /\ page \in [Tab -> Page]
      /\ \A t \in Tab : t \in Client
  BY TabAssumption DEF TypeInv, PagesTypeOK
<1>2. ASSUME request' = request, \A t \in Tab : page'[t].inst = page[t].inst PROVE ActsOnItsServer'
  BY <1>1, <1>2 DEF ActsOnItsServer, Busy, At
<1>3. ASSUME NEW t \in Tab, NEW i \in Instance, Open(t, i) PROVE ActsOnItsServer'
  BY <1>1, <1>3 DEF Open, Set, ActsOnItsServer, Busy, At, registryVars
<1>4. ASSUME NEW t \in Tab, NEW i \in Instance, SubmitCreate(t, i) PROVE ActsOnItsServer'
  BY <1>1, <1>4, AskEffect DEF SubmitCreate, ActsOnItsServer, Busy, At, Ops
<1>5. ASSUME NEW t \in Tab, NEW o \in Ops, Press(t, o) PROVE ActsOnItsServer'
  <2>1. page[t].inst \in Instance /\ page[t].inst # Nil
    BY <1>1, <1>5 DEF Page, Press
  <2> QED
    BY <1>1, <1>5, <2>1, AskEffect DEF Press, ActsOnItsServer, Busy, At
<1>6. ASSUME NEW t \in Tab, Query(t) PROVE ActsOnItsServer'
  BY <1>2, <1>6, QueryEffect DEF registryVars
<1>7. ASSUME NEW t \in Tab, Act(t) PROVE ActsOnItsServer'
  <2>1. \A u \in Tab \ {t} : page'[u] = page[u]
    BY <1>1, <1>7 DEF Act, ActSucceeds, ActFails, Set
  <2> QED
    BY <1>1, <1>7, <2>1, ActEffect DEF ActsOnItsServer, Busy, At
<1>8. ASSUME NEW c \in Client, HandlerRuns(c) PROVE ActsOnItsServer'
  <2>1. \A u \in Tab : page'[u].inst = page[u].inst
    BY <1>1, <1>8 DEF HandlerRuns, Outdated, Page
  <2> QED
    BY <1>1, <1>8, <2>1, HandlerRequest
    DEF HandlerRuns, ActsOnItsServer, Busy, At, Working, Answered
<1>9. ASSUME NEW c \in Client \ Tab, Elsewhere(c) PROVE ActsOnItsServer'
  BY <1>1, <1>9, AskEffect DEF Elsewhere, ActsOnItsServer, Busy, At
<1>10. CASE Reconcile /\ page' = page
  BY <1>2, <1>10, ReconcileEffect
<1>11. CASE VMsVanish /\ page' = page
  BY <1>2, <1>11, VanishEffect
<1>12. CASE FrontendRestarts /\ page' = page
  BY <1>1, <1>12, RestartEffect DEF ActsOnItsServer
<1> QED
  BY <1>3, <1>4, <1>5, <1>6, <1>7, <1>8, <1>9, <1>10, <1>11, <1>12 DEF PagesNext

LEMMA TypesKept == TypeInv /\ (PagesNext \/ UNCHANGED serverVars) => TypeInv'
<1>1. TypeInv /\ PagesNext => TypeInv'
  BY RegistryTypes, PageTypes, ActsStayOnServers DEF TypeInv
<1>2. TypeInv /\ UNCHANGED serverVars => TypeInv'
  BY DEF TypeInv, serverVars, RegistryTypeOK, PagesTypeOK, RequestsMatch, ListKnowsRows, Stored,
    Answered, For, ActsOnItsServer, Busy, At
<1> QED
  BY <1>1, <1>2
-----------------------------------------------------------------------------
(* Reads after writes *)

\* While no answer "ok" is on its way to a tab, neither what its page shows nor
\* what is about to replace it is older than its last action.
NothingOld(t) ==
    request[t].pc # "ok" /\ page[t].inst # Nil =>
        /\ page[t].fetch = "none" => ~ page[t].old
        /\ page[t].fetch \in Answers => ~ page[t].late
ReadInv == \A t \in Tab : NothingOld(t)

LEMMA ReadInvKept ==
    ASSUME TypeInv, ReadInv, PagesNext
    PROVE  ReadInv'
<1>1. /\ page \in [Tab -> Page] /\ RegistryTypeOK /\ \A t \in Tab : t \in Client
      /\ "none" \notin Answers /\ "sent" \notin Answers
  BY TabAssumption DEF TypeInv, PagesTypeOK, Answers, RowStates
<1>2. ASSUME NEW t \in Tab, NothingOld(t), request'[t].pc = "ok" <=> request[t].pc = "ok",
             page'[t] = page[t]
      PROVE  NothingOld(t)'
  BY <1>2 DEF NothingOld
<1>3. ASSUME NEW t \in Tab, NEW i \in Instance, Open(t, i) PROVE ReadInv'
  <2>1. \A u \in Tab \ {t} : page'[u] = page[u]
    BY <1>1, <1>3 DEF Open, Set
  <2>2. page'[t] = [OnList EXCEPT !.inst = i, !.fetch = "sent"] /\ request' = request
    BY <1>1, <1>3 DEF Open, Set, registryVars
  <2>3. page'[t].fetch = "sent"
    BY <2>2 DEF OnList
  <2>4. NothingOld(t)'
    BY <1>1, <2>3 DEF NothingOld
  <2> QED
    BY <1>2, <2>1, <2>2, <2>4 DEF ReadInv
<1>4. ASSUME NEW t \in Tab, NEW o \in Ops, NEW i \in Instance, ~ Busy(t), Ask(t, o, i), page' = page
      PROVE  ReadInv'
  <2>1. /\ request[t].pc # "ok" /\ request'[t].pc # "ok"
        /\ \A u \in Tab \ {t} : request'[u] = request[u]
    BY <1>1, <1>4, AskEffect DEF Busy, At
  <2> QED
    BY <1>2, <1>4, <2>1 DEF ReadInv
<1>5. ASSUME NEW t \in Tab, Query(t) PROVE ReadInv'
  <2>1. request' = request
    BY <1>5, QueryEffect DEF registryVars
  <2>2. NothingOld(t)'
    BY <1>5, <2>1, QueryEffect DEF NothingOld, ReadInv
  <2> QED
    BY <1>2, <1>5, <2>1, <2>2, QueryEffect DEF ReadInv
<1>6. ASSUME NEW t \in Tab, Act(t) PROVE ReadInv'
  <2>1. /\ request'[t].pc = "idle" /\ \A u \in Tab \ {t} : request'[u] = request[u]
        /\ \A u \in Tab \ {t} : page'[u] = page[u]
    BY <1>1, <1>6, ActEffect DEF Act, ActSucceeds, ActFails, Set
  <2>2. NothingOld(t)'
    <3>1. CASE ActFails(t)
      BY <2>1, <3>1 DEF ActFails, At, ReadInv, NothingOld
    <3>2. CASE ActSucceeds(t)
      <4>1. page'[t] = OnList \/ page'[t] = [page[t] EXCEPT !.fetch = "sent", !.late = FALSE]
        BY <1>1, <3>2 DEF ActSucceeds, Set, Refetch
      <4>2. page'[t].inst = Nil \/ page'[t].fetch = "sent"
        <5>1. OnList.inst = Nil
          BY DEF OnList
        <5>2. [page[t] EXCEPT !.fetch = "sent", !.late = FALSE].fetch = "sent"
          BY <1>1 DEF Page
        <5> QED
          BY <4>1, <5>1, <5>2
      <4> QED
        BY <1>1, <4>2 DEF NothingOld
    <3> QED
      BY <1>6, <3>1, <3>2 DEF Act
  <2> QED
    BY <1>2, <2>1, <2>2 DEF ReadInv
<1>7. ASSUME NEW c \in Client, HandlerRuns(c) PROVE ReadInv'
  <2>1. \A u \in Tab \ {c} : request'[u] = request[u] /\ page'[u] = page[u]
    BY <1>1, <1>7, HandlerRequest DEF HandlerRuns
  <2>2. ASSUME c \in Tab PROVE NothingOld(c)'
    <3>1. request[c].pc # "ok" /\ (request'[c].pc = "ok" => At(c, "write"))
      BY <1>7, HandlerRequest DEF HandlerRuns, Working, Answered
    <3>2. request'[c].pc # "ok" => page' = page
      BY <1>7 DEF HandlerRuns
    <3> QED
      BY <2>2, <3>1, <3>2 DEF ReadInv, NothingOld
  <2> QED
    BY <1>2, <2>1, <2>2 DEF ReadInv
<1>8. ASSUME NEW c \in Client \ Tab, Elsewhere(c) PROVE ReadInv'
  <2>1. /\ \A t \in Tab : t # c /\ request'[t] = request[t]
        /\ page' = page
    BY <1>1, <1>8, AskEffect DEF Elsewhere
  <2> QED
    BY <1>2, <2>1 DEF ReadInv
<1>9. CASE (Reconcile \/ VMsVanish) /\ page' = page
  BY <1>2, <1>9, ReconcileEffect, VanishEffect DEF ReadInv
<1>10. CASE FrontendRestarts /\ page' = page
  BY <1>2, <1>10, RestartEffect DEF ReadInv
<1>11. ASSUME NEW t \in Tab, NEW i \in Instance, SubmitCreate(t, i) PROVE ReadInv'
  BY <1>4, <1>11 DEF SubmitCreate, Ops
<1>12. ASSUME NEW t \in Tab, NEW o \in Ops, Press(t, o) PROVE ReadInv'
  <2>1. page[t].inst \in Instance
    BY <1>1, <1>12 DEF Press, Page
  <2> QED
    BY <1>4, <1>12, <2>1 DEF Press
<1> QED
  BY <1>3, <1>5, <1>6, <1>7, <1>8, <1>9, <1>10, <1>11, <1>12 DEF PagesNext
-----------------------------------------------------------------------------
(* One create at a time *)

\* The row of a create is written by its second query, that of any other
\* request was there before it.
RowsWhenNeeded ==
    \A c \in Client : Working(c) => (Stored(For(c)) <=> request[c].pc \notin {"allocate", "insert"})

\* A create runs beside no other create and beside nothing about its instance.
CreatesAlone ==
    \A c, d \in Client :
        /\ Working(c) /\ request[c].op = "create"
        /\ Working(d) /\ (request[d].op = "create" \/ For(d) = For(c))
        => c = d

\* The row of a create is not deleted under it.
CreateKeepsRow ==
    \A c \in Client : Working(c) /\ request[c].op = "create" /\ Stored(For(c)) => Active(For(c))

\* A delete that is about to mark the row has removed the instance.
DeleteIsLast ==
    \A c \in Client : At(c, "write") /\ request[c].op = "delete" => vm[For(c)] = "gone"

\* A slot that waits for its row is above all slots in use.
SlotAhead ==
    \A c \in Client : At(c, "insert") =>
        \A i \in Instance : Stored(i) => row[i].slot < request[c].slot

AloneInv == /\ RowsWhenNeeded /\ CreatesAlone /\ CreateKeepsRow /\ DeleteIsLast
            /\ NothingUnlisted /\ SlotAhead /\ SlotsUnique

LEMMA AloneInit == RegistryInit => AloneInv
BY DEF RegistryInit, AloneInv, RowsWhenNeeded, CreatesAlone, CreateKeepsRow, DeleteIsLast,
  NothingUnlisted, SlotAhead, SlotsUnique, Working, Answered, At, Stored, NoRequest

\* Rows keep what the invariant looks at, nothing is provisioned, or only what
\* nobody works on any more, and requests end at most.
LEMMA LessWorkKeeps ==
    ASSUME AloneInv,
           \A i \in Instance : /\ Stored(i)' <=> Stored(i)
                               /\ row'[i].slot = row[i].slot
                               /\ row'[i].deleted <=> row[i].deleted,
           \A c \in Client : request'[c] = request[c] \/ Answered(c)',
           \A i \in Instance : vm'[i] # "gone" =>
                \/ vm[i] # "gone"
                \/ Active(i) /\ \A c \in Client : For(c)' = i => Answered(c)',
           \A c \in Client : Working(c) => For(c) \in Instance
    PROVE  AloneInv'
<1>1. \A c \in Client : Working(c)' => request'[c] = request[c] /\ Working(c)
  BY DEF Working, Answered
<1>2. \A c \in Client : At(c, "write")' \/ At(c, "insert")' => Working(c)'
  BY DEF At, Working, Answered
<1>3. RowsWhenNeeded'
  BY <1>1 DEF AloneInv, RowsWhenNeeded, For
<1>4. CreatesAlone'
  BY <1>1 DEF AloneInv, CreatesAlone, For
<1>5. CreateKeepsRow'
  BY <1>1 DEF AloneInv, CreateKeepsRow, For, Active
<1>6. DeleteIsLast'
  BY <1>1, <1>2 DEF AloneInv, DeleteIsLast, For, At, Working
<1>7. NothingUnlisted'
  BY DEF AloneInv, NothingUnlisted, Active
<1>8. SlotAhead' /\ SlotsUnique'
  BY <1>1, <1>2 DEF AloneInv, SlotAhead, SlotsUnique, At
<1> QED
  BY <1>3, <1>4, <1>5, <1>6, <1>7, <1>8 DEF AloneInv

\* Those who do not wait for each other ask for different things.
LEMMA AskKeepsAlone ==
    ASSUME Patient, TypeInv, AloneInv,
           NEW c \in Client, NEW o \in Ops, NEW i \in Instance, Ask(c, o, i)
    PROVE  AloneInv'
<1>1. /\ request'[c].op = o /\ request'[c].inst = i /\ request'[c].pc \in {"allocate", "load"}
      /\ request'[c].pc = "allocate" <=> o = "create"
      /\ \A d \in Client \ {c} : request'[d] = request[d]
      /\ UNCHANGED <<row, vm, list>>
  BY AskEffect DEF TypeInv
<1>2. /\ o = "create" <=> ~ Stored(i)
      /\ o = "create" => \A d \in Client : Working(d) => request[d].op # "create"
      /\ \A d \in Client : Working(d) /\ request[d].op = "create" => For(d) # i
  <2>1. /\ o = "create" => ~ Stored(i) /\ \A j \in Instance : ~ Creating(j)
        /\ o # "create" => Stored(i) /\ ~ Creating(i)
    BY DEF Ask
  <2>2. \A d \in Client : Working(d) /\ request[d].op = "create" =>
           For(d) \in Instance /\ Creating(For(d))
    BY DEF Working, Creating, TypeInv, RequestsMatch
  <2> QED
    BY <2>1, <2>2
<1>3. RowsWhenNeeded'
  BY <1>1, <1>2 DEF AloneInv, RowsWhenNeeded, For, Working, Answered, Stored
<1>4. CreatesAlone'
  <2>1. ASSUME NEW d \in Client \ {c}, Working(d)
        PROVE  /\ o = "create" => request[d].op # "create"
               /\ o = "create" => For(d) # i
               /\ request[d].op = "create" => For(d) # i
    <3>1. o = "create" => For(d) # i
      <4>1. request[d].op # "create" => request[d].pc \notin {"allocate", "insert"}
        BY <2>1 DEF Working, TypeInv, RequestsMatch
      <4> QED
        BY <1>2, <2>1, <4>1 DEF AloneInv, RowsWhenNeeded
    <3> QED
      BY <1>2, <2>1, <3>1
  <2> QED
    BY <1>1, <2>1 DEF AloneInv, CreatesAlone, For, Working, Answered
<1>5. CreateKeepsRow'
  BY <1>1, <1>2 DEF AloneInv, CreateKeepsRow, For, Working, Answered, Stored, Active
<1>6. DeleteIsLast' /\ SlotAhead'
  BY <1>1 DEF AloneInv, DeleteIsLast, SlotAhead, For, At, Stored
<1>7. NothingUnlisted' /\ SlotsUnique'
  BY <1>1 DEF AloneInv, NothingUnlisted, SlotsUnique, Active, Stored
<1> QED
  BY <1>3, <1>4, <1>5, <1>6, <1>7 DEF AloneInv
\* A handler that goes on to the next of its calls, with rows as they are.
LEMMA MoveKeepsAlone ==
    ASSUME AloneInv, RequestsMatch,
           NEW c \in Client, Working(c), For(c) \in Instance, NEW p, Moves(c, p),
           UNCHANGED row, \A i \in Instance \ {For(c)} : vm'[i] = vm[i],
           Stored(For(c)) => p \notin {"allocate", "insert"},
           ~ Stored(For(c)) => p \in {"allocate", "insert"},
           p = "insert" => \A i \in Instance : Stored(i) => row[i].slot < request'[c].slot,
           vm'[For(c)] # "gone" =>
               /\ vm[For(c)] # "gone" \/ (request[c].op = "create" /\ Active(For(c)))
               /\ ~ (p = "write" /\ request[c].op = "delete")
    PROVE  AloneInv'
<1>1. /\ \A d \in Client \ {c} : request'[d] = request[d]
      /\ request'[c].op = request[c].op /\ For(c)' = For(c) /\ request'[c].pc = p
  BY DEF Moves, For
<1>2. RowsWhenNeeded'
  BY <1>1 DEF AloneInv, RowsWhenNeeded, For, Working, Answered, Stored
<1>3. CreatesAlone'
  BY <1>1 DEF AloneInv, CreatesAlone, For, Working, Answered
<1>4. CreateKeepsRow'
  BY <1>1 DEF AloneInv, CreateKeepsRow, For, Working, Answered, Stored, Active
<1>5. DeleteIsLast'
  <2>1. ASSUME NEW d \in Client, At(d, "write")', request'[d].op = "delete"
        PROVE  vm'[For(d)'] = "gone"
    <3>1. CASE d = c
      BY <1>1, <2>1, <3>1 DEF At
    <3>2. CASE d # c /\ For(d) = For(c)
      <4>1. vm[For(c)] = "gone"
        BY <1>1, <2>1, <3>2 DEF AloneInv, DeleteIsLast, At, For
      <4>2. request[c].op # "create"
        BY <1>1, <2>1, <3>2 DEF AloneInv, CreatesAlone, At, Working, Answered
      <4> QED
        BY <1>1, <3>2, <4>1, <4>2 DEF For
    <3>3. CASE d # c /\ For(d) # For(c)
      <4>1. vm[For(d)] = "gone" /\ For(d)' = For(d)
        BY <1>1, <2>1, <3>3 DEF AloneInv, DeleteIsLast, At, For
      <4>2. For(d) \in Instance
        BY <1>1, <2>1, <3>3 DEF RequestsMatch, Answered, At
      <4> QED
        BY <3>3, <4>1, <4>2
    <3> QED
      BY <3>1, <3>2, <3>3
  <2> QED
    BY <2>1 DEF DeleteIsLast
<1>6. NothingUnlisted'
  BY <1>1 DEF AloneInv, NothingUnlisted, Active, Stored
<1>7. SlotAhead' /\ SlotsUnique'
  BY <1>1 DEF AloneInv, SlotAhead, SlotsUnique, At, Stored
<1> QED
  BY <1>2, <1>3, <1>4, <1>5, <1>6, <1>7 DEF AloneInv
\* The row of a create takes the slot that waits for it.
LEMMA InsertKeepsAlone ==
    ASSUME TypeInv, AloneInv, NEW c \in Client, Insert(c)
    PROVE  AloneInv'
<1>0. PICK i \in Instance : i = For(c)
  BY DEF TypeInv, RequestsMatch, Insert, At, Answered
<1> DEFINE r == [state |-> "creating", slot |-> request[c].slot, deleted |-> FALSE]
           q == [request[c] EXCEPT !.slot = 0, !.pc = "manager"]
<1>1. /\ Working(c) /\ i \in Instance /\ request[c].op = "create" /\ row \in [Instance -> Row]
      /\ request \in [Client -> Request] /\ request[c].pc = "insert"
  BY <1>0 DEF TypeInv, RegistryTypeOK, RequestsMatch, Insert, At, Working, Answered
<1>2. ~ Stored(i) /\ \A j \in Instance : Stored(j) => row[j].slot < request[c].slot
  BY <1>0, <1>1 DEF AloneInv, RowsWhenNeeded, SlotAhead, At
<1>3. row' = [row EXCEPT ![i] = r] /\ request' = [request EXCEPT ![c] = q] /\ vm' = vm
  BY <1>0 DEF Insert
<1>4. r.state # "none" /\ r.slot = request[c].slot /\ r.deleted = FALSE
  OBVIOUS
<1>5. q.pc = "manager" /\ q.op = request[c].op /\ q.inst = i
  BY <1>0, <1>1 DEF Request, For
<1> HIDE DEF r, q
<1>6. /\ row'[i] = r /\ \A j \in Instance \ {i} : row'[j] = row[j]
      /\ request'[c] = q /\ \A d \in Client \ {c} : request'[d] = request[d]
  BY <1>1, <1>3
<1>7. /\ Stored(i)' /\ Active(i)'
      /\ \A j \in Instance \ {i} : (Stored(j)' <=> Stored(j)) /\ (Active(j)' <=> Active(j))
  BY <1>4, <1>6 DEF Stored, Active
<1>8. \A d \in Client \ {c} : Working(d) => For(d) # i /\ For(d) \in Instance
                                          /\ request[d].op # "create"
  BY <1>0, <1>1 DEF AloneInv, CreatesAlone, TypeInv, RequestsMatch, Working
<1>9. For(c)' = i /\ Working(c)' /\ \A d \in Client \ {c} : For(d)' = For(d) /\ (Working(d)' <=> Working(d))
  BY <1>5, <1>6 DEF For, Working, Answered
<1>10. RowsWhenNeeded'
  BY <1>5, <1>6, <1>7, <1>8, <1>9 DEF AloneInv, RowsWhenNeeded
<1>11. CreatesAlone'
  BY <1>1, <1>5, <1>6, <1>8, <1>9 DEF CreatesAlone
<1>12. CreateKeepsRow'
  BY <1>6, <1>7, <1>8, <1>9 DEF CreateKeepsRow
<1>13. DeleteIsLast'
  BY <1>3, <1>5, <1>6, <1>9 DEF AloneInv, DeleteIsLast, At
<1>14. NothingUnlisted'
  BY <1>3, <1>7 DEF AloneInv, NothingUnlisted
<1>15. SlotAhead'
  <2>1. ASSUME NEW d \in Client, At(d, "insert")' PROVE FALSE
    <3>1. d # c
      BY <1>5, <1>6, <2>1 DEF At
    <3>2. Working(d) /\ request[d].op = "create"
      BY <1>6, <2>1, <3>1 DEF At, Working, Answered, TypeInv, RequestsMatch
    <3> QED
      BY <1>8, <3>1, <3>2
  <2> QED
    BY <2>1 DEF SlotAhead
<1>16. SlotsUnique'
  <2>1. \A j \in Instance \ {i} : Stored(j)' => row'[j].slot < row'[i].slot /\ row'[j].slot \in Int
    BY <1>1, <1>2, <1>4, <1>6, <1>7, MaxSlotAssumption DEF Row
  <2>2. row'[i].slot \in Int
    BY <1>1, <1>4, <1>6, MaxSlotAssumption DEF Request
  <2>3. \A j, k \in Instance \ {i} : j # k /\ Stored(j)' /\ Stored(k)' => row'[j].slot # row'[k].slot
    BY <1>6, <1>7 DEF AloneInv, SlotsUnique
  <2> QED
    BY <2>1, <2>2, <2>3 DEF SlotsUnique
<1> QED
  BY <1>10, <1>11, <1>12, <1>13, <1>14, <1>15, <1>16 DEF AloneInv

\* The last query of a delete hides a row of which nothing is left.
LEMMA WriteKeepsAlone ==
    ASSUME TypeInv, AloneInv, NEW c \in Client, Write(c)
    PROVE  AloneInv'
<1>0. PICK i \in Instance : i = For(c)
  BY DEF TypeInv, RequestsMatch, Write, At, Answered
<1>1. /\ RegistryTypeOK /\ Working(c) /\ i \in Instance /\ request[c].op \in Ops
      /\ request[c].pc = "write" /\ row' = Written(c) /\ vm' = vm
  BY <1>0 DEF TypeInv, RequestsMatch, Write, At, Working, Answered
<1>2. Answers1(c, "ok")
  BY <1>1, AnswerEffect DEF Write, Answer
<1>3. Stored(i)
  BY <1>0, <1>1 DEF AloneInv, RowsWhenNeeded
<1>4. /\ \A j \in Instance \ {i} : row'[j] = row[j]
      /\ row'[i].slot = row[i].slot /\ Stored(i)'
      /\ row'[i].deleted = (row[i].deleted \/ request[c].op = "delete")
  BY <1>0, <1>1, <1>3, WriteEffect DEF Stored
<1>5. \A d \in Client : request'[d] = request[d] \/ Answered(d)'
  BY <1>2 DEF Answers1
<1>6. \A d \in Client : Working(d) => For(d) \in Instance
  BY DEF TypeInv, RequestsMatch, Working
<1>7. CASE request[c].op # "delete"
  <2>1. \A j \in Instance : /\ Stored(j)' <=> Stored(j)
                            /\ row'[j].slot = row[j].slot
                            /\ row'[j].deleted <=> row[j].deleted
    BY <1>3, <1>4, <1>7 DEF Stored
  <2> QED
    BY <1>1, <1>5, <1>6, <2>1, LessWorkKeeps
<1>8. CASE request[c].op = "delete"
  <2>1. vm[i] = "gone"
    BY <1>0, <1>1, <1>8 DEF AloneInv, DeleteIsLast, At
  <2>2. \A j \in Instance : (Stored(j)' <=> Stored(j)) /\ row'[j].slot = row[j].slot
    BY <1>3, <1>4 DEF Stored
  <2>3. \A j \in Instance \ {i} : Active(j)' <=> Active(j)
    BY <1>4 DEF Active, Stored
  <2>4. /\ \A d \in Client : Working(d)' => d # c /\ Working(d) /\ request'[d] = request[d]
                                          /\ For(d)' = For(d)
        /\ \A d \in Client : Working(d)' /\ request'[d].op = "create" => For(d) # i
    <3>1. \A d \in Client : Working(d)' => d # c /\ Working(d) /\ request'[d] = request[d]
                                          /\ For(d)' = For(d)
      BY <1>2 DEF Answers1, Working, Answered, For
    <3>2. \A d \in Client : Working(d) /\ request[d].op = "create" /\ For(d) = i => d = c
      BY <1>0, <1>1 DEF AloneInv, CreatesAlone
    <3> QED
      BY <3>1, <3>2
  <2>5. RowsWhenNeeded' /\ CreatesAlone'
    BY <1>6, <2>2, <2>4 DEF AloneInv, RowsWhenNeeded, CreatesAlone
  <2>6. CreateKeepsRow'
    BY <1>6, <2>2, <2>3, <2>4 DEF AloneInv, CreateKeepsRow
  <2>7. \A d \in Client : At(d, "write")' \/ At(d, "insert")' => Working(d)'
    BY DEF At, Working, Answered
  <2>8. DeleteIsLast' /\ SlotAhead'
    BY <1>1, <2>2, <2>4, <2>7 DEF AloneInv, DeleteIsLast, SlotAhead, At
  <2>9. NothingUnlisted'
    BY <1>1, <2>1, <2>3 DEF AloneInv, NothingUnlisted
  <2>10. SlotsUnique'
    BY <2>2 DEF AloneInv, SlotsUnique
  <2> QED
    BY <2>5, <2>6, <2>8, <2>9, <2>10 DEF AloneInv
<1> QED
  BY <1>7, <1>8

\* A call that fails leaves an instance that was gone as it was, unless the
\* call was to create it.
LEMMA RemainsGone ==
    ASSUME NEW o \in Ops, o # "create"
    PROVE  Remains(o, "gone") = {"gone"}
BY DEF Remains, Refused, Effect, Ops

\* Every query and every call of a handler.
LEMMA HandlerKeepsAlone ==
    ASSUME TypeInv, AloneInv, NEW c \in Client, Handle(c)
    PROVE  AloneInv'
<1>0. /\ RegistryTypeOK /\ RequestsMatch /\ Working(c)
      /\ \A d \in Client : Working(d) => For(d) \in Instance
  BY HandlerRequest DEF TypeInv, RequestsMatch, Working
<1>1. PICK i \in Instance : i = For(c)
  BY <1>0
<1>2. /\ request[c].op \in Ops /\ vm[i] \in VMStates
      /\ Stored(i) <=> request[c].pc \notin {"allocate", "insert"}
      /\ request[c].op = "create" /\ Stored(i) => Active(i)
  BY <1>0, <1>1
  DEF RegistryTypeOK, RequestsMatch, Working, AloneInv, RowsWhenNeeded, CreateKeepsRow
<1>3. ASSUME Answers1(c, "failed") \/ Answers1(c, "ok"),
             \A j \in Instance : /\ Stored(j)' <=> Stored(j)
                                 /\ row'[j].slot = row[j].slot
                                 /\ row'[j].deleted <=> row[j].deleted,
             \A j \in Instance : vm'[j] # "gone" => vm[j] # "gone"
      PROVE  AloneInv'
  <2>1. \A d \in Client : request'[d] = request[d] \/ Answered(d)'
    BY <1>3 DEF Answers1
  <2> QED
    BY <1>0, <1>3, <2>1, LessWorkKeeps
<1>4. ASSUME UNCHANGED row
      PROVE  \A j \in Instance : /\ Stored(j)' <=> Stored(j)
                                 /\ row'[j].slot = row[j].slot
                                 /\ row'[j].deleted <=> row[j].deleted
  BY <1>4 DEF Stored
<1>5. CASE Allocate(c)
  <2>1. request[c].pc = "allocate" /\ ~ Stored(i) /\ UNCHANGED <<row, vm, list>>
    BY <1>2, <1>5 DEF Allocate, At
  <2>2. CASE Full
    <3>1. Answers1(c, "failed")
      BY <1>0, <1>5, <2>2, AnswerEffect DEF Allocate
    <3> QED
      BY <1>3, <1>4, <2>1, <3>1
  <2>3. CASE ~ Full
    <3>1. HighWater + 1 \in 0 .. MaxSlot /\ \A j \in Instance : row[j].slot < HighWater + 1
      BY <1>0, <2>3, HighWaterBounds, MaxSlotAssumption DEF Full, RegistryTypeOK, Row
    <3>2. Moves(c, "insert") /\ request'[c].slot = HighWater + 1
      BY <1>0, <1>5, <2>3, <3>1 DEF Allocate, Moves, RegistryTypeOK, Request, PCs
    <3>3. vm'[For(c)] # "gone" => vm[For(c)] # "gone"
      BY <2>1
    <3> QED
      BY <1>0, <1>1, <2>1, <3>1, <3>2, <3>3, MoveKeepsAlone
  <2> QED
    BY <2>2, <2>3
<1>6. CASE MarkError(c)
  <2>1. Answers1(c, "failed")
    BY <1>0, <1>6, AnswerEffect DEF MarkError, Answer
  <2>2. row' = [row EXCEPT ![i].state = "error"] /\ UNCHANGED vm /\ Stored(i)
    BY <1>1, <1>2, <1>6 DEF MarkError, At
  <2>3. \A j \in Instance : /\ Stored(j)' <=> Stored(j)
                            /\ row'[j].slot = row[j].slot
                            /\ row'[j].deleted <=> row[j].deleted
    BY <1>0, <2>2 DEF Stored, RegistryTypeOK, Row
  <2> QED
    BY <1>3, <2>1, <2>2, <2>3
<1>7. CASE LoadRow(c)
  <2>1. UNCHANGED <<row, vm, list>> /\ Stored(i) /\ request[c].op # "create"
    BY <1>0, <1>2, <1>7 DEF LoadRow, At, RequestsMatch, Working
  <2>2. CASE Goto(c, "manager")
    <3>1. Moves(c, "manager")
      BY <1>0, <2>2, GotoEffect DEF PCs
    <3> QED
      BY <1>0, <1>1, <2>1, <3>1, MoveKeepsAlone
  <2>3. CASE Answer(c, "failed")
    <3>1. Answers1(c, "failed")
      BY <1>0, <2>3, AnswerEffect DEF Answer
    <3> QED
      BY <1>3, <1>4, <2>1, <3>1
  <2> QED
    BY <1>7, <2>2, <2>3 DEF LoadRow
<1>8. CASE ManagerSucceeds(c)
  <2>1. /\ request[c].pc = "manager" /\ Stored(i) /\ UNCHANGED <<row, list>>
        /\ ~ Refused(request[c].op, vm[i])
        /\ vm' = [vm EXCEPT ![i] = Effect(request[c].op, vm[i])]
    BY <1>1, <1>2, <1>8 DEF ManagerSucceeds, At
  <2>2. vm'[i] = Effect(request[c].op, vm[i]) /\ \A j \in Instance \ {i} : vm'[j] = vm[j]
    BY <1>0, <2>1 DEF RegistryTypeOK
  <2>3. vm'[i] # "gone" => /\ vm[i] # "gone" \/ (request[c].op = "create" /\ Active(i))
                           /\ request[c].op # "delete"
    BY <1>2, <2>1, <2>2 DEF Effect, Refused, Ops, VMStates
  <2>4. Moves(c, "write")
    BY <1>0, <1>8, GotoEffect DEF ManagerSucceeds, PCs
  <2> QED
    BY <1>0, <1>1, <2>1, <2>2, <2>3, <2>4, MoveKeepsAlone
<1>9. CASE ManagerFails(c)
  <2>1. /\ request[c].pc = "manager" /\ Stored(i) /\ UNCHANGED <<row, list>>
        /\ \E s \in Remains(request[c].op, vm[i]) : vm' = [vm EXCEPT ![i] = s]
    BY <1>1, <1>2, <1>9 DEF ManagerFails, At
  <2>2. /\ vm'[i] \in Remains(request[c].op, vm[i])
        /\ \A j \in Instance \ {i} : vm'[j] = vm[j]
    BY <1>0, <2>1 DEF RegistryTypeOK
  <2>3. CASE request[c].op = "create"
    <3>1. Moves(c, "mark")
      BY <1>0, <1>9, <2>3, GotoEffect DEF ManagerFails, AfterFailure, PCs
    <3> QED
      BY <1>0, <1>1, <1>2, <2>1, <2>2, <2>3, <3>1, MoveKeepsAlone
  <2>4. CASE request[c].op # "create"
    <3>1. Answers1(c, "failed")
      BY <1>0, <1>9, <2>4, AnswerEffect DEF ManagerFails, AfterFailure, Answer
    <3>2. \A j \in Instance : vm'[j] # "gone" => vm[j] # "gone"
      BY <1>2, <2>2, <2>4, RemainsGone
    <3> QED
      BY <1>3, <1>4, <2>1, <3>1, <3>2
  <2> QED
    BY <2>3, <2>4
<1>10. CASE QueryFails(c)
  <2>1. Answers1(c, "failed")
    BY <1>0, <1>10, AnswerEffect DEF QueryFails, Answer
  <2> QED
    BY <1>3, <1>4, <1>10, <2>1 DEF QueryFails
<1> QED
  BY <1>5, <1>6, <1>7, <1>8, <1>9, <1>10, InsertKeepsAlone, WriteKeepsAlone DEF Handle

\* If those who touch an instance, or create one, wait for a create that runs,
\* no step of anybody spoils what the invariant says.
LEMMA AloneKept ==
    ASSUME Patient, TypeInv, AloneInv, PagesNext
    PROVE  AloneInv'
<1>0. /\ RegistryTypeOK /\ page \in [Tab -> Page]
      /\ \A c \in Client : Working(c) => request[c].op \in Ops /\ For(c) \in Instance
  BY DEF TypeInv, PagesTypeOK, RequestsMatch, Working
<1>1. ASSUME UNCHANGED <<row, vm>>, \A c \in Client : request'[c] = request[c] \/ Answered(c)'
      PROVE  AloneInv'
  <2>1. \A i \in Instance : /\ Stored(i)' <=> Stored(i)
                            /\ row'[i].slot = row[i].slot
                            /\ row'[i].deleted <=> row[i].deleted
    BY <1>1 DEF Stored
  <2> QED
    BY <1>0, <1>1, <2>1, LessWorkKeeps
<1>2. ASSUME NEW t \in Tab, NEW i \in Instance, Open(t, i) PROVE AloneInv'
  BY <1>1, <1>2 DEF Open, registryVars
<1>3. ASSUME NEW t \in Tab, NEW i \in Instance, SubmitCreate(t, i) PROVE AloneInv'
  BY <1>3, AskKeepsAlone, TabAssumption DEF SubmitCreate, Ops
<1>4. ASSUME NEW t \in Tab, NEW o \in Ops, Press(t, o) PROVE AloneInv'
  <2>1. page[t].inst \in Instance /\ t \in Client
    BY <1>0, <1>4, TabAssumption DEF Page, Press
  <2> QED
    BY <1>4, <2>1, AskKeepsAlone DEF Press
<1>5. ASSUME NEW t \in Tab, Query(t) PROVE AloneInv'
  BY <1>1, <1>5, QueryEffect DEF registryVars
<1>6. ASSUME NEW t \in Tab, Act(t) PROVE AloneInv'
  <2>1. \A c \in Client : request'[c] = request[c] \/ Answered(c)'
    BY <1>6, ActEffect DEF Answered
  <2> QED
    BY <1>1, <1>6, <2>1, ActEffect
<1>7. ASSUME NEW c \in Client, HandlerRuns(c) PROVE AloneInv'
  BY <1>7, HandlerKeepsAlone DEF HandlerRuns
<1>8. ASSUME NEW c \in Client \ Tab, Elsewhere(c) PROVE AloneInv'
  BY <1>8, AskKeepsAlone DEF Elsewhere
<1>9. CASE Reconcile
  BY <1>0, <1>9, ReconcileEffect, LessWorkKeeps
<1>10. CASE VMsVanish
  <2>1. \A i \in Instance : /\ Stored(i)' <=> Stored(i)
                            /\ row'[i].slot = row[i].slot
                            /\ row'[i].deleted <=> row[i].deleted
    BY <1>10, VanishEffect DEF Stored
  <2> QED
    BY <1>0, <1>10, <2>1, VanishEffect, LessWorkKeeps
<1>11. CASE FrontendRestarts
  <2>1. ASSUME NEW i \in Instance, vm'[i] # "gone", vm[i] = "gone" PROVE Active(i)
    <3>1. PICK c \in Client : /\ At(c, "manager") /\ For(c) = i
                              /\ vm'[i] \in Remains(request[c].op, "gone")
      BY <1>11, <2>1, RestartEffect
    <3>2. Working(c) /\ request[c].op \in Ops
      BY <1>0, <3>1 DEF Working, Answered, At
    <3>3. request[c].op = "create"
      BY <2>1, <3>1, <3>2, RemainsGone
    <3> QED
      BY <3>1, <3>2, <3>3 DEF AloneInv, RowsWhenNeeded, CreateKeepsRow, At
  <2>2. /\ \A c \in Client : Answered(c)'
        /\ \A i \in Instance : /\ Stored(i)' <=> Stored(i)
                               /\ row'[i].slot = row[i].slot
                               /\ row'[i].deleted <=> row[i].deleted
    BY <1>11, RestartEffect DEF Stored
  <2> QED
    BY <1>0, <2>1, <2>2, LessWorkKeeps
<1> QED
  BY <1>2, <1>3, <1>4, <1>5, <1>6, <1>7, <1>8, <1>9, <1>10, <1>11 DEF PagesNext

\* A step of the form of the keys does not touch it.
LEMMA AloneUnchanged == AloneInv /\ UNCHANGED serverVars => AloneInv'
BY DEF serverVars, AloneInv, RowsWhenNeeded, CreatesAlone, CreateKeepsRow, DeleteIsLast,
  NothingUnlisted, SlotAhead, SlotsUnique, Working, Answered, At, For, Stored, Active

-----------------------------------------------------------------------------
(* The theorems *)

\* A step of the registry and the pages, or one of the keys and their form.
LEMMA StepSplits ==
    [Next]_vars => \/ PagesNext /\ UNCHANGED keyVars
                   \/ KeysNext /\ UNCHANGED serverVars
                   \/ UNCHANGED keyVars /\ UNCHANGED serverVars
BY DEF Next, vars, keyVars, serverVars

\* Every variable of the registry, of the pages and of the form keeps its type.
THEOREM TypeCorrect == Spec => []TypeOK
<1>1. Init => TypeInv /\ KeysInv
  BY InitTypes, KeysInvInit DEF Init
<1>2. TypeInv /\ KeysInv /\ [Next]_vars => TypeInv' /\ KeysInv'
  BY StepSplits, TypesKept, KeysInvKept
<1>3. TypeInv /\ KeysInv => TypeOK
  BY DEF TypeInv, PagesTypeOK, KeysInv, TypeOK
<1> QED
  BY <1>1, <1>2, <1>3, PTL DEF Spec

\* A page that waits for nothing shows no state from before its last action:
\* refetch gives the older answer up (InstanceDetailClient, act).
THEOREM ReadsFollowWrites == Spec => []ReadYourWrites
<1>1. Init => TypeInv /\ ReadInv
  BY InitTypes DEF Init, PagesInit, ReadInv, NothingOld, OnList
<1>2. TypeInv /\ ReadInv /\ [Next]_vars => TypeInv' /\ ReadInv'
  <2>1. ReadInv /\ UNCHANGED serverVars => ReadInv'
    BY DEF ReadInv, NothingOld, serverVars
  <2> QED
    BY <2>1, StepSplits, TypesKept, ReadInvKept
<1>3. ReadInv => ReadYourWrites
  BY DEF ReadInv, NothingOld, ReadYourWrites, Busy, At
<1> QED
  BY <1>1, <1>2, <1>3, PTL DEF Spec

\* What has a disk or a VM is in the list of servers, if nobody touches an
\* instance while it is created (POST /api/instances, DELETE .../[id]).
THEOREM NothingIsUnlisted ==
    ASSUME Patient
    PROVE  Spec => []NothingUnlisted
<1>1. Init => TypeInv /\ AloneInv
  BY InitTypes, AloneInit DEF Init
<1>2. TypeInv /\ AloneInv /\ [Next]_vars => TypeInv' /\ AloneInv'
  BY StepSplits, TypesKept, AloneKept, AloneUnchanged
<1>3. AloneInv => NothingUnlisted
  BY DEF AloneInv
<1> QED
  BY <1>1, <1>2, <1>3, PTL DEF Spec

\* No two rows have the same slot, and so neither address nor SSH port, if
\* creates come one after the other (route.ts, highWater).
THEOREM SlotsAreUnique ==
    ASSUME Patient
    PROVE  Spec => []SlotsUnique
<1>1. Init => TypeInv /\ AloneInv
  BY InitTypes, AloneInit DEF Init
<1>2. TypeInv /\ AloneInv /\ [Next]_vars => TypeInv' /\ AloneInv'
  BY StepSplits, TypesKept, AloneKept, AloneUnchanged
<1>3. AloneInv => SlotsUnique
  BY DEF AloneInv
<1> QED
  BY <1>1, <1>2, <1>3, PTL DEF Spec

\* A server is created with the key its form showed when the button was
\* pressed (CreateInstanceClient, resolvePublicKey).
THEOREM ShownKeyInjected == Spec => []InjectsWhatWasShown
<1>1. Init => KeysInv
  BY KeysInvInit DEF Init
<1>2. KeysInv /\ [Next]_vars => KeysInv'
  BY StepSplits, KeysInvKept
<1>3. KeysInv => InjectsWhatWasShown
  BY DEF KeysInv, KeyRemembered, InjectsWhatWasShown
<1> QED
  BY <1>1, <1>2, <1>3, PTL DEF Spec

\* Pressing again after a failure cannot send another key, as long as keys,
\* picker and input were left alone (CreateInstanceClient, handleCreate).
THEOREM RetriesKeepTheKey == Spec => []RetryKeepsKey
<1>1. Init => KeysInv
  BY KeysInvInit DEF Init
<1>2. KeysInv /\ [Next]_vars => KeysInv'
  BY StepSplits, KeysInvKept
<1>3. KeysInv => RetryKeepsKey
  BY DEF KeysInv, ChoiceKept, RetryKeepsKey
<1> QED
  BY <1>1, <1>2, <1>3, PTL DEF Spec
==============================================================================
