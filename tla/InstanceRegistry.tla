--------------------------- MODULE InstanceRegistry ---------------------------
(***************************************************************************)
(* The frontend's registry of instances: the rows of the table instances   *)
(* and the route handlers of app/api/instances that change them, each with *)
(* the calls it makes to the instance-manager.                             *)
(*                                                                         *)
(* A handler awaits one query or one call at a time and other handlers run *)
(* in between, so each query and each call is a step. The instance-manager *)
(* is abstract here: an instance is gone, off or on, and a call has its    *)
(* effect in one step (module InstanceManager has the steps). A call that  *)
(* fails may have had its effect, or a part of it, before it failed.       *)
(***************************************************************************)
EXTENDS Integers, FiniteSets, FiniteSetsExt

CONSTANTS Instance,   \* ids of rows, each made for one create request
          Client,     \* browsers; each has at most one lifecycle request open
          Tab,        \* those whose pages are modelled (ServerPages)
          Nil,
          MaxSlot,    \* slots there are: 253 addresses in the code
          Patient     \* nobody touches an instance, or creates one, while a create runs?

ASSUME MaxSlotAssumption == MaxSlot \in Nat \ {0}
ASSUME PatientAssumption == Patient \in BOOLEAN
ASSUME TabAssumption == Tab \subseteq Client
ASSUME NilIsNoInstance == Nil \notin Instance

VARIABLES
  row,      \* row[i]: the row of instance i, see Row
  vm,       \* vm[i]: instance i as the instance-manager has it
  request,  \* request[c]: the lifecycle request of client c, see Request
  list      \* the handler of GET /api/instances, see List

registryVars == <<row, vm, request, list>>

RowStates == {"creating", "running", "stopped", "error"}
VMStates == {"gone", "off", "on"}   \* no disk; a disk; a disk and a running VM

\* A slot is the SSH port and the last octet of the address: both are counted
\* up together, so slot s is port 39999 + s and address 172.16.0.(1 + s).
Row == [state : {"none"} \cup RowStates, slot : 0 .. MaxSlot, deleted : BOOLEAN]

Ops == {"create", "start", "stop", "delete"}
PCs == {"allocate", "insert", "load", "manager", "write", "mark",
        "idle", "ok", "failed"}   \* no request, and how a tab's was answered
Request == [op : Ops \cup {"none"}, inst : Instance \cup {Nil}, slot : 0 .. MaxSlot, pc : PCs]

NoRequest == [op |-> "none", inst |-> Nil, slot |-> 0, pc |-> "idle"]

\* todo: the rows it read as running; then those of them that are stale.
List == [pc : {"idle", "ask", "mark"}, todo : SUBSET Instance]

RegistryTypeOK ==
    /\ row \in [Instance -> Row]
    /\ vm \in [Instance -> VMStates]
    /\ request \in [Client -> Request]
    /\ list \in List

RegistryInit ==
    /\ row = [i \in Instance |-> [state |-> "none", slot |-> 0, deleted |-> FALSE]]
    /\ vm = [i \in Instance |-> "gone"]
    /\ request = [c \in Client |-> NoRequest]
    /\ list = [pc |-> "idle", todo |-> {}]

-----------------------------------------------------------------------------
(* What the handlers share. An operator X_Y is X with a bug that the         *)
(* properties must detect; no action uses it.                               *)

Answered(c) == request[c].pc \in {"idle", "ok", "failed"}
Stored(i) == row[i].state # "none"
Active(i) == Stored(i) /\ ~ row[i].deleted

At(c, place) == request[c].pc = place
For(c) == request[c].inst
Goto(c, place) == request' = [request EXCEPT ![c].pc = place]

\* The request after its answer a; who asked takes note of it or does not.
After(c, a) == IF c \in Tab THEN [NoRequest EXCEPT !.op = request[c].op, !.pc = a] ELSE NoRequest
Answer(c, a) == request' = [request EXCEPT ![c] = After(c, a)]

Creating(i) == \E c \in Client : ~ Answered(c) /\ request[c].op = "create" /\ For(c) = i

-----------------------------------------------------------------------------
(* A request arrives. *)

FirstStep == [create |-> "allocate", start |-> "load", stop |-> "load", delete |-> "load"]

Ask(c, o, i) ==
    /\ Answered(c)
    /\ IF o = "create" THEN ~ Stored(i) /\ ~ Creating(i) ELSE Stored(i)
    /\ Patient => IF o = "create" THEN \A j \in Instance : ~ Creating(j) ELSE ~ Creating(i)
    /\ request' = [request EXCEPT ![c] = [op |-> o, inst |-> i, slot |-> 0, pc |-> FirstStep[o]]]
    /\ UNCHANGED <<row, vm, list>>

-----------------------------------------------------------------------------
(* POST /api/instances *)

\* The high-water mark is taken over all rows, the deleted ones included.
Occupied == {row[i].slot : i \in Instance}
HighWater == Max(Occupied \cup {0})

Full == HighWater >= MaxSlot

Allocate(c) ==
    /\ At(c, "allocate")
    /\ request' = [request EXCEPT ![c] = IF ~ Full
                     THEN [@ EXCEPT !.slot = HighWater + 1, !.pc = "insert"]
                     ELSE After(c, "failed")]      \* 507, address space full
    /\ UNCHANGED <<row, vm, list>>

Insert(c) ==
    /\ At(c, "insert")
    /\ row' = [row EXCEPT ![For(c)] = [state |-> "creating", slot |-> request[c].slot,
                                       deleted |-> FALSE]]
    /\ request' = [request EXCEPT ![c] = [@ EXCEPT !.slot = 0, !.pc = "manager"]]
    /\ UNCHANGED <<vm, list>>

\* A create that failed is marked, so that it can be retried or deleted.
MarkError(c) ==
    /\ At(c, "mark")
    /\ row' = [row EXCEPT ![For(c)].state = "error"]
    /\ Answer(c, "failed")
    /\ UNCHANGED <<vm, list>>

-----------------------------------------------------------------------------
(* POST /api/instances/[id]/start and .../stop, DELETE /api/instances/[id] *)

\* Start and stop do not find a deleted row; delete does.
Load(c) == request[c].op = "delete" \/ ~ row[For(c)].deleted

LoadRow(c) ==
    /\ At(c, "load")
    /\ IF Load(c) THEN Goto(c, "manager") ELSE Answer(c, "failed")
    /\ UNCHANGED <<row, vm, list>>

\* The rows after the handler's last query; only delete asks that the row is
\* not deleted.
Written(c) ==
    [row EXCEPT ![For(c)] =
       CASE request[c].op \in {"create", "start"} -> [@ EXCEPT !.state = "running"]
         [] request[c].op = "stop" -> [@ EXCEPT !.state = "stopped"]
         [] request[c].op = "delete" ->
              IF @.deleted THEN @ ELSE [@ EXCEPT !.state = "stopped", !.deleted = TRUE]]

Write(c) ==
    /\ At(c, "write")
    /\ row' = Written(c)
    /\ Answer(c, "ok")
    /\ UNCHANGED <<vm, list>>

\* The database fails or the connection to it does: 500. An insert also fails
\* when an active row has the name: 409.
QueryFails(c) ==
    /\ request[c].pc \in {"allocate", "insert", "load", "write", "mark"}
    /\ Answer(c, "failed")
    /\ UNCHANGED <<row, vm, list>>

-----------------------------------------------------------------------------
(* The call to the instance-manager *)

\* What a call does to an instance in state s. It is refused if the disk is
\* gone and a start needs it.
Effect(o, s) ==
    CASE o = "create" \/ (o = "start" /\ s # "gone") -> "on"
      [] o = "start" /\ s = "gone" -> s
      [] o = "stop" -> IF s = "on" THEN "off" ELSE s
      [] o = "delete" -> "gone"
Refused(o, s) == o = "start" /\ s = "gone"

\* Where a call that fails may leave the instance: nothing was done, all of
\* it was and only the answer got lost, or the call stopped half way.
Remains(o, s) ==
    IF Refused(o, s) THEN {s}
    ELSE {s, Effect(o, s)} \cup (IF o \in {"create", "delete"} /\ s # Effect(o, s)
                                   THEN {"off"} ELSE {})

ManagerSucceeds(c) ==
    /\ At(c, "manager") /\ ~ Refused(request[c].op, vm[For(c)])
    /\ vm' = [vm EXCEPT ![For(c)] = Effect(request[c].op, @)]
    /\ Goto(c, "write")
    /\ UNCHANGED <<row, list>>

\* Where the handler goes on: 502, after the row of a create is marked.
AfterFailure_WritesAnyway(c) == Goto(c, IF request[c].op = "create" THEN "mark" ELSE "write")
AfterFailure(c) == IF request[c].op = "create" THEN Goto(c, "mark") ELSE Answer(c, "failed")

ManagerFails(c) ==
    /\ At(c, "manager")
    /\ \E s \in Remains(request[c].op, vm[For(c)]) : vm' = [vm EXCEPT ![For(c)] = s]
    /\ AfterFailure(c)
    /\ UNCHANGED <<row, list>>

\* The host reboots, or the manager restarts and does not adopt a VM.
VMsVanish ==
    /\ \E S \in SUBSET {i \in Instance : vm[i] = "on"} :
          S # {} /\ vm' = [i \in Instance |-> IF i \in S THEN "off" ELSE vm[i]]
    /\ UNCHANGED <<row, request, list>>

\* The frontend is restarted: the handlers that run are lost, and a call one
\* of them is waiting for has had its effect or not.
FrontendRestarts ==
    /\ \E c \in Client : ~ Answered(c)
    /\ request' = [c \in Client |-> IF Answered(c) THEN request[c]
                                    ELSE After(c, "failed")]
    /\ list' = [pc |-> "idle", todo |-> {}]
    /\ vm' \in [Instance -> VMStates]
    /\ \A i \in Instance : vm'[i] \in {vm[i]} \cup UNION
          {Remains(request[c].op, vm[i]) : c \in {d \in Client : At(d, "manager") /\ For(d) = i}}
    /\ UNCHANGED row

-----------------------------------------------------------------------------
(* GET /api/instances: what is marked running is compared with the manager. *)

Candidates == {i \in Instance : row[i].state = "running" /\ ~ row[i].deleted}

ListReads ==
    /\ list.pc = "idle"
    /\ list' = [pc |-> "ask", todo |-> Candidates]
    /\ UNCHANGED <<row, vm, request>>

Stale_Inverted == {i \in list.todo : vm[i] = "on"}
Stale == {i \in list.todo : vm[i] # "on"}
ListAsks ==
    /\ list.pc = "ask"
    /\ list' = [pc |-> IF Stale = {} THEN "idle" ELSE "mark", todo |-> Stale]
    /\ UNCHANGED <<row, vm, request>>

ListMarks ==
    /\ list.pc = "mark"
    /\ row' = [i \in Instance |-> IF i \in list.todo /\ ~ row[i].deleted
                                  THEN [row[i] EXCEPT !.state = "stopped"] ELSE row[i]]
    /\ list' = [pc |-> "idle", todo |-> {}]
    /\ UNCHANGED <<vm, request>>

\* The manager cannot be reached, or the update fails: the rows are answered
\* as they are.
ListSkips ==
    /\ list.pc \in {"ask", "mark"}
    /\ list' = [pc |-> "idle", todo |-> {}]
    /\ UNCHANGED <<row, vm, request>>

-----------------------------------------------------------------------------
Handle(c) ==
    \/ Allocate(c) \/ Insert(c) \/ MarkError(c)
    \/ LoadRow(c) \/ ManagerSucceeds(c) \/ ManagerFails(c) \/ Write(c) \/ QueryFails(c)
Reconcile == ListReads \/ ListAsks \/ ListMarks \/ ListSkips
==============================================================================
