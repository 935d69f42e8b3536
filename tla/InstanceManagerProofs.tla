------------------------ MODULE InstanceManagerProofs ------------------------
(***************************************************************************)
(* Proofs about the instance-manager, for any sets of instances and calls  *)
(* and any number of crashes. The types, who kills a process and what an   *)
(* answer means hold whether calls overlap or not; the theorems of the     *)
(* last part assume that calls on an instance do not.                      *)
(***************************************************************************)
EXTENDS InstanceManagerProperties, TLAPS

\* A handler that cleans up has a command left to run.
HasWork == \A t \in Call : At(t, "clean") => call[t].todo # <<>>

\* A handler that has begun is about an instance.
HasInstance == \A t \in Call : ~ At(t, "new") => call[t].inst \in Instance

\* The two on the handlers, and the type invariant made inductive.
CallsOK == call \in [Call -> Handler] /\ HasWork /\ HasInstance
TypeInv == TypeOK /\ HasWork /\ HasInstance

-----------------------------------------------------------------------------
(* Types *)

LEMMA InitTypes == Init => TypeInv
BY OverlapAssumption, MaxCrashesAssumption
DEF Init, TypeInv, TypeOK, HasWork, HasInstance, At, Host, Handler, ProcessStates, PCs

\* What a handler may become keeps the type of call.
LEMMA HandlerTypes ==
    ASSUME CallsOK, NEW t \in Call, NEW h \in Handler, h.inst \in Instance,
           h.pc = "clean" => h.todo # <<>>, call' = [call EXCEPT ![t] = h]
    PROVE  CallsOK'
BY DEF CallsOK, HasWork, HasInstance, At

LEMMA GotoTypes ==
    ASSUME CallsOK, NEW t \in Call, ~ At(t, "new"),
           NEW p \in PCs, p # "clean", Goto(t, p)
    PROVE  CallsOK'
<1> DEFINE h == [call[t] EXCEPT !.pc = p]
<1>1. h \in Handler /\ h.pc = p /\ h.inst \in Instance
  BY DEF CallsOK, HasInstance, Handler
<1>2. call' = [call EXCEPT ![t] = h]
  BY DEF Goto
<1> HIDE DEF h
<1> QED
  BY <1>1, <1>2, HandlerTypes

LEMMA AnswerTypes ==
    ASSUME CallsOK, NEW t \in Call, ~ At(t, "new"),
           NEW a \in {"ok", "error"}, Answer(t, a)
    PROVE  CallsOK'
<1> DEFINE h == [call[t] EXCEPT !.pc = "done", !.answer = a]
<1>1. call[t] \in Handler /\ call[t].inst \in Instance
  BY DEF CallsOK, HasInstance
<1>2. h \in Handler /\ h.pc = "done" /\ h.inst \in Instance
  BY <1>1 DEF Handler, PCs
<1>3. call' = [call EXCEPT ![t] = h]
  BY DEF Answer
<1> HIDE DEF h
<1> QED
  BY <1>2, <1>3, HandlerTypes

LEMMA CleanUpTypes ==
    ASSUME CallsOK, NEW t \in Call, ~ At(t, "new"),
           NEW v \in Call \cup {Nil}, NEW c \in Seq(Commands), c # <<>>, CleanUp(t, v, c)
    PROVE  CallsOK'
<1> DEFINE h == [call[t] EXCEPT !.pc = "clean", !.held = v, !.todo = c]
<1>1. h \in Handler /\ h.todo # <<>> /\ h.inst \in Instance
  BY DEF CallsOK, HasInstance, Handler, PCs
<1>2. call' = [call EXCEPT ![t] = h]
  BY DEF CleanUp
<1> HIDE DEF h
<1> QED
  BY <1>1, <1>2, HandlerTypes

\* What a step does to the host keeps the type of host.
LEMMA HostTypes ==
    ASSUME host \in [Instance -> Host], NEW i \in Instance
    PROVE  /\ \A x \in Call \cup {Nil} :
                 /\ [host EXCEPT ![i].socket = x] \in [Instance -> Host]
                 /\ [host EXCEPT ![i].tap = x] \in [Instance -> Host]
                 /\ [host EXCEPT ![i].file = x] \in [Instance -> Host]
           /\ \A x \in BOOLEAN : [host EXCEPT ![i].disk = x] \in [Instance -> Host]
           /\ \A n \in Nat : [host EXCEPT ![i].rules = host[i].rules + n] \in [Instance -> Host]
BY DEF Host

\* What a clean-up command, a reboot or a restart makes of one host record.
LEMMA CleanedHostTypes ==
    ASSUME NEW h \in Host
    PROVE  /\ TornDown(h) \in Host
           /\ [h EXCEPT !.tap = Nil] \in Host
           /\ [h EXCEPT !.socket = Nil] \in Host
           /\ [h EXCEPT !.file = Nil] \in Host
           /\ [h EXCEPT !.disk = FALSE] \in Host
           /\ [h EXCEPT !.socket = Nil, !.tap = Nil, !.rules = 0] \in Host
           /\ [h EXCEPT !.socket = Nil, !.file = Nil] \in Host
<1>1. (IF h.rules > 0 THEN h.rules - 1 ELSE 0) \in Nat
  BY DEF Host
<1>2. TornDown(h) \in Host
  <2>1. TornDown(h) = [h EXCEPT !.tap = Nil,
                                !.rules = IF h.rules > 0 THEN h.rules - 1 ELSE 0]
    BY DEF TornDown
  <2>2. \A n \in Nat : [h EXCEPT !.tap = Nil, !.rules = n] \in Host
    BY DEF Host
  <2> QED
    BY <1>1, <2>1, <2>2
<1>3. [h EXCEPT !.socket = Nil, !.tap = Nil, !.rules = 0] \in Host
  BY DEF Host
<1>4. [h EXCEPT !.socket = Nil, !.file = Nil] \in Host
  BY DEF Host
<1> QED
  BY <1>2, <1>3, <1>4 DEF Host

\* Every command list is one that Clean can run.
LEMMA CommandLists ==
    /\ OnFailure \in Seq(Commands) /\ OnFailure # <<>>
    /\ DeleteAnyway \in Seq(Commands) /\ DeleteAnyway # <<>>
    /\ <<"kill", "net", "socket">> \o DeleteAnyway \in Seq(Commands)
    /\ <<"kill", "net", "socket">> \o DeleteAnyway # <<>>
    /\ <<"kill", "net", "socket", "file">> \in Seq(Commands)
    /\ <<"tap">> \in Seq(Commands) /\ <<"net">> \in Seq(Commands)
    /\ <<"kill", "net", "socket", "file">> # <<>> /\ <<"tap">> # <<>> /\ <<"net">> # <<>>
<1>1. /\ OnFailure \in Seq(Commands) /\ DeleteAnyway \in Seq(Commands)
      /\ <<"kill", "net", "socket">> \in Seq(Commands)
      /\ <<"kill", "net", "socket", "file">> \in Seq(Commands)
      /\ <<"tap">> \in Seq(Commands) /\ <<"net">> \in Seq(Commands)
  BY DEF OnFailure, DeleteAnyway, Commands
<1>2. /\ OnFailure # <<>> /\ DeleteAnyway # <<>>
      /\ <<"kill", "net", "socket", "file">> # <<>> /\ <<"tap">> # <<>> /\ <<"net">> # <<>>
  BY DEF OnFailure, DeleteAnyway
<1>3. /\ <<"kill", "net", "socket">> \o DeleteAnyway \in Seq(Commands)
      /\ Len(<<"kill", "net", "socket">> \o DeleteAnyway) = 6
  BY <1>1 DEF DeleteAnyway
<1> QED
  BY <1>1, <1>2, <1>3

LEMMA TypesKept == TypeInv /\ [Next]_vars => TypeInv'
<1> SUFFICES ASSUME TypeInv, [Next]_vars PROVE TypeInv'
  OBVIOUS
<1> USE OverlapAssumption, MaxCrashesAssumption, NilAssumption
<1>0. CallsOK /\ TypeOK /\ (TypeOK' /\ CallsOK' => TypeInv')
  BY DEF TypeInv, CallsOK, TypeOK
<1>1. ASSUME NEW t \in Call, NEW o \in Ops, NEW i \in Instance, Begin(t, o, i)
      PROVE  TypeInv'
  <2> DEFINE h == [call[t] EXCEPT !.op = o, !.inst = i, !.pc = FirstStep[o]]
  <2>1. FirstStep[o] \in PCs /\ FirstStep[o] # "clean"
    BY DEF FirstStep, Ops, PCs
  <2>2. h \in Handler /\ h.inst \in Instance /\ h.pc # "clean"
    BY <1>0, <2>1 DEF CallsOK, Handler
  <2>3. call' = [call EXCEPT ![t] = h]
    BY <1>1 DEF Begin
  <2> HIDE DEF h
  <2>4. CallsOK'
    BY <1>0, <2>2, <2>3, HandlerTypes
  <2> QED
    BY <1>0, <1>1, <2>4 DEF TypeOK, CallsOK, Begin
<1>2. ASSUME NEW t \in Call, Create(t) \/ Start(t) PROVE TypeInv'
  <2> DEFINE i == call[t].inst
  <2>1. ~ At(t, "new") /\ i \in Instance
    BY <1>0, <1>2 DEF CallsOK, HasInstance, At, Create, Provision, ProvisionFails, Start,
      StartBegins, CheckDisk, ClearTap, AddTap, AddTapFails, AddForward, AddForwardFails,
      RemoveSocket, Spawn, SpawnFails, Configure, Boot, BootFails, Register, Record
  <2>2. CallsOK'
    <3>1. CASE \/ Provision(t) \/ StartBegins(t) \/ CheckDisk(t) \/ ClearTap(t) \/ AddTap(t)
               \/ AddForward(t) \/ RemoveSocket(t) \/ Spawn(t) \/ Configure(t) \/ Boot(t)
               \/ Register(t)
      <4>1. \/ Answer(t, "ok") \/ Answer(t, "error")
            \/ \E p \in PCs \ {"clean"} : Goto(t, p)
        BY <3>1 DEF Provision, StartBegins, CheckRunning, CheckDisk, ClearTap, AddTap,
          AddForward, RemoveSocket, Spawn, Configure, Boot, Register, PCs
      <4> QED
        BY <1>0, <2>1, <4>1, GotoTypes, AnswerTypes
    <3>2. CASE ProvisionFails(t) \/ AddTapFails(t) \/ Record(t)
      BY <1>0, <2>1, <3>2, AnswerTypes DEF ProvisionFails, AddTapFails, Record
    <3>3. CASE AddForwardFails(t) \/ SpawnFails(t) \/ BootFails(t)
      <4>1. \/ CleanUp(t, Nil, <<"tap">>) \/ CleanUp(t, Nil, <<"net">>)
            \/ CleanUp(t, t, OnFailure)
        BY <3>3 DEF AddForwardFails, SpawnFails, BootFails
      <4> QED
        BY <1>0, <2>1, <4>1, CleanUpTypes, CommandLists
    <3> QED
      BY <1>2, <3>1, <3>2, <3>3 DEF Create, Start
  <2>3. host' \in [Instance -> Host]
    <3>1. /\ host \in [Instance -> Host] /\ i \in Instance
      BY <1>0, <2>1 DEF TypeOK
    <3>2. \/ host' = host
          \/ \E x \in Call \cup {Nil} :
                host' \in {[host EXCEPT ![i].socket = x], [host EXCEPT ![i].tap = x],
                          [host EXCEPT ![i].file = x]}
          \/ host' = [host EXCEPT ![i].disk = TRUE]
          \/ \E n \in Nat : host' = [host EXCEPT ![i].rules = host[i].rules + n]
      <4>1. CASE \/ ProvisionFails(t) \/ StartBegins(t) \/ CheckDisk(t) \/ SpawnFails(t)
                 \/ Configure(t) \/ Boot(t) \/ BootFails(t) \/ Register(t)
        BY <4>1 DEF ProvisionFails, StartBegins, CheckDisk, SpawnFails, Configure, Boot,
          BootFails, Register
      <4>2. CASE \/ Provision(t) \/ ClearTap(t) \/ AddTap(t) \/ RemoveSocket(t) \/ Spawn(t)
                 \/ Record(t)
        BY <4>2 DEF Provision, ClearTap, AddTap, RemoveSocket, Spawn, Record, WriteRunState,
          SetHost
      <4>3. CASE AddTapFails(t)
        BY <3>1, <4>3 DEF AddTapFails
      <4>4. CASE AddForward(t) \/ AddForwardFails(t)
        BY <3>1, <4>4 DEF AddForward, AddForwardFails
      <4> QED
        BY <1>2, <4>1, <4>2, <4>3, <4>4 DEF Create, Start
    <3> HIDE DEF i
    <3>3. /\ \A x \in Call \cup {Nil} :
                /\ [host EXCEPT ![i].socket = x] \in [Instance -> Host]
                /\ [host EXCEPT ![i].tap = x] \in [Instance -> Host]
                /\ [host EXCEPT ![i].file = x] \in [Instance -> Host]
          /\ [host EXCEPT ![i].disk = TRUE] \in [Instance -> Host]
          /\ \A n \in Nat : [host EXCEPT ![i].rules = host[i].rules + n] \in [Instance -> Host]
      BY <3>1, HostTypes
    <3>4. CASE \E x \in Call \cup {Nil} :
                  host' \in {[host EXCEPT ![i].socket = x], [host EXCEPT ![i].tap = x],
                            [host EXCEPT ![i].file = x]}
      <4>1. PICK x \in Call \cup {Nil} :
               \/ host' = [host EXCEPT ![i].socket = x]
               \/ host' = [host EXCEPT ![i].tap = x]
               \/ host' = [host EXCEPT ![i].file = x]
        BY <3>4
      <4>2. /\ [host EXCEPT ![i].socket = x] \in [Instance -> Host]
            /\ [host EXCEPT ![i].tap = x] \in [Instance -> Host]
            /\ [host EXCEPT ![i].file = x] \in [Instance -> Host]
        BY <3>3
      <4> QED
        BY <4>1, <4>2
    <3>5. CASE \E n \in Nat : host' = [host EXCEPT ![i].rules = host[i].rules + n]
      BY <3>3, <3>5
    <3> QED
      BY <3>1, <3>2, <3>3, <3>4, <3>5
  <2>4. proc' \in [Call -> ProcessStates]
    BY <1>0, <1>2 DEF TypeOK, ProcessStates, Create, Provision, ProvisionFails, Start,
      StartBegins, CheckDisk, ClearTap, AddTap, AddTapFails, AddForward, AddForwardFails,
      RemoveSocket, Spawn, SpawnFails, Configure, Boot, BootFails, Register, Record
  <2>5. running' \in [Instance -> Call \cup {Nil}] /\ UNCHANGED <<up, crashes>>
    BY <1>0, <1>2, <2>1 DEF TypeOK, Create, Provision, ProvisionFails, Start,
      StartBegins, CheckDisk, ClearTap, AddTap, AddTapFails, AddForward, AddForwardFails,
      RemoveSocket, Spawn, SpawnFails, Configure, Boot, BootFails, Register, Record
  <2> QED
    BY <1>0, <2>2, <2>3, <2>4, <2>5 DEF TypeOK, CallsOK
<1>3. ASSUME NEW t \in Call, Stop(t) \/ Delete(t) PROVE TypeInv'
  <2>1. ~ At(t, "new") /\ call[t].inst \in Instance /\ running[call[t].inst] \in Call \cup {Nil}
    BY <1>0, <1>3 DEF CallsOK, TypeOK, HasInstance, At, Stop, StopTakes, StopFindsNothing,
      Delete, DeleteTakes, DeleteFindsNothing
  <2>2. \/ Answer(t, "ok")
        \/ CleanUp(t, running[call[t].inst], <<"kill", "net", "socket", "file">>)
        \/ CleanUp(t, running[call[t].inst], <<"kill", "net", "socket">> \o DeleteAnyway)
        \/ CleanUp(t, Nil, DeleteAnyway)
    BY <1>3 DEF Stop, StopTakes, StopFindsNothing, Delete, DeleteTakes, DeleteFindsNothing
  <2>3. CallsOK'
    BY <1>0, <2>1, <2>2, AnswerTypes, CleanUpTypes, CommandLists
  <2>4. running' \in [Instance -> Call \cup {Nil}] /\ UNCHANGED <<proc, host, up, crashes>>
    BY <1>0, <1>3 DEF TypeOK, Stop, StopTakes, StopFindsNothing, Delete, DeleteTakes,
      DeleteFindsNothing, Forget
  <2> QED
    BY <1>0, <2>3, <2>4 DEF TypeOK, CallsOK
<1>4. ASSUME NEW t \in Call, Clean(t) PROVE TypeInv'
  <2> DEFINE i == call[t].inst
             todo == call[t].todo
  <2>1. At(t, "clean") /\ ~ At(t, "new") /\ i \in Instance
    BY <1>0, <1>4 DEF Clean, CallsOK, HasInstance, At
  <2>2. todo \in Seq(Commands) /\ todo # <<>>
    BY <1>0, <2>1 DEF CallsOK, HasWork, Handler
  <2>3. Tail(todo) \in Seq(Commands) /\ (Len(todo) # 1 => Tail(todo) # <<>>)
    <3> HIDE DEF todo
    <3>1. Len(todo) \in Nat \ {0}
      BY <2>2
    <3>2. Tail(todo) \in Seq(Commands)
      BY <2>2
    <3>3. Len(Tail(todo)) = Len(todo) - 1
      BY <2>2
    <3>4. Tail(todo) = <<>> => Len(Tail(todo)) = 0
      OBVIOUS
    <3> QED
      BY <3>1, <3>2, <3>3, <3>4
  <2>4. CallsOK'
    <3>1. CASE Len(todo) = 1
      BY <1>0, <1>4, <2>1, <3>1, AnswerTypes DEF Clean
    <3>2. CASE Len(todo) # 1
      <4> DEFINE h == [call[t] EXCEPT !.todo = Tail(todo)]
      <4>1. h \in Handler /\ h.inst \in Instance /\ h.todo # <<>>
        BY <1>0, <2>1, <2>3, <3>2 DEF CallsOK, Handler
      <4>2. call' = [call EXCEPT ![t] = h]
        BY <1>4, <3>2 DEF Clean
      <4> HIDE DEF h
      <4> QED
        BY <1>0, <4>1, <4>2, HandlerTypes
    <3> QED
      BY <3>1, <3>2
  <2>5. \E h \in Host : host' = [host EXCEPT ![i] = h]
    <3> DEFINE c == Head(todo)
               h == CASE c = "kill" -> host[i]
                      [] c = "net" -> TornDown(host[i])
                      [] c = "tap" -> [host[i] EXCEPT !.tap = Nil]
                      [] c = "socket" -> [host[i] EXCEPT !.socket = Nil]
                      [] c = "file" -> [host[i] EXCEPT !.file = Nil]
                      [] c = "disk" -> [host[i] EXCEPT !.disk = FALSE]
    <3>1. c \in Commands
      BY <2>2
    <3>2. host[i] \in Host
      BY <1>0, <2>1 DEF TypeOK
    <3>3. h \in Host
      <4> HIDE DEF c, i
      <4>1. /\ TornDown(host[i]) \in Host /\ [host[i] EXCEPT !.tap = Nil] \in Host
            /\ [host[i] EXCEPT !.socket = Nil] \in Host /\ [host[i] EXCEPT !.file = Nil] \in Host
            /\ [host[i] EXCEPT !.disk = FALSE] \in Host
        BY <3>2, CleanedHostTypes
      <4> QED
        BY <3>1, <3>2, <4>1 DEF Commands
    <3>4. host' = [host EXCEPT ![i] = h]
      BY <1>4 DEF Clean, RunCommand
    <3> QED
      BY <3>3, <3>4
  <2>6. proc' \in [Call -> ProcessStates]
    BY <1>0, <1>4 DEF Clean, RunCommand, TypeOK, ProcessStates
  <2> QED
    <3>1. host' \in [Instance -> Host]
      BY <1>0, <2>5 DEF TypeOK
    <3>2. UNCHANGED <<up, running, crashes>>
      BY <1>4 DEF Clean
    <3> QED
      BY <1>0, <2>4, <2>6, <3>1, <3>2 DEF TypeOK, CallsOK
<1>5. ASSUME NEW v \in Call, GuestExits(v) PROVE TypeInv'
  BY <1>0, <1>5 DEF GuestExits, TypeOK, CallsOK, ProcessStates, HasWork, HasInstance, At
<1>6. ASSUME Crash \/ HostReboot PROVE TypeInv'
  <2>1. ManagerDies
    BY <1>6 DEF Crash, HostReboot
  <2>2. \A t \in Call : [call[t] EXCEPT !.pc = "lost"] \in Handler
    BY <1>0 DEF CallsOK, Handler, PCs
  <2>3. call' \in [Call -> Handler]
    BY <1>0, <2>1, <2>2 DEF ManagerDies, CallsOK
  <2>4. CallsOK'
    <3>1. \A t \in Call : /\ call'[t].inst = call[t].inst /\ call'[t].todo = call[t].todo
                          /\ call'[t].pc = call[t].pc \/ (call'[t].pc = "lost" /\ Active(t))
      BY <1>0, <2>1 DEF ManagerDies, CallsOK, Handler
    <3> QED
      BY <1>0, <2>3, <3>1 DEF CallsOK, HasWork, HasInstance, At, Active
  <2>5. /\ up' \in BOOLEAN /\ crashes' \in 0 .. MaxCrashes
        /\ running' \in [Instance -> Call \cup {Nil}]
    <3>1. up' \in BOOLEAN /\ running' \in [Instance -> Call \cup {Nil}]
      BY <2>1 DEF ManagerDies
    <3>2. crashes \in 0 .. MaxCrashes /\ crashes < MaxCrashes /\ crashes' = crashes + 1
      BY <1>0, <2>1 DEF ManagerDies, TypeOK
    <3> QED
      BY <3>1, <3>2
  <2>6. host' \in [Instance -> Host]
    <3>1. \A i \in Instance :
             [host[i] EXCEPT !.socket = Nil, !.tap = Nil, !.rules = 0] \in Host
      BY <1>0, CleanedHostTypes DEF TypeOK
    <3>2. CASE Crash
      BY <1>0, <3>2 DEF Crash, TypeOK
    <3>3. CASE HostReboot
      BY <3>1, <3>3 DEF HostReboot
    <3> QED
      BY <1>6, <3>2, <3>3
  <2>7. proc' \in [Call -> ProcessStates]
    BY <1>0, <1>6 DEF Crash, HostReboot, TypeOK, ProcessStates
  <2> QED
    BY <1>0, <2>4, <2>5, <2>6, <2>7 DEF TypeOK, CallsOK
<1>7. ASSUME Restart PROVE TypeInv'
  <2>1. running' \in [Instance -> Call \cup {Nil}] /\ up' \in BOOLEAN
    BY <1>0, <1>7 DEF Restart, TypeOK, Host
  <2>2. host' \in [Instance -> Host]
    <3>1. \A i \in Instance : [TornDown(host[i]) EXCEPT !.socket = Nil, !.file = Nil] \in Host
      BY <1>0, CleanedHostTypes DEF TypeOK
    <3> QED
      BY <1>0, <1>7, <3>1 DEF Restart, TypeOK
  <2>3. CallsOK' /\ UNCHANGED <<proc, crashes, call>>
    BY <1>0, <1>7 DEF Restart, CallsOK, HasWork, HasInstance, At
  <2> QED
    BY <1>0, <2>1, <2>2, <2>3 DEF TypeOK, CallsOK
<1>8. ASSUME UNCHANGED vars PROVE TypeInv'
  BY <1>0, <1>8 DEF vars, TypeOK, CallsOK, HasWork, HasInstance, At
<1> QED
  BY <1>1, <1>2, <1>3, <1>4, <1>5, <1>6, <1>7, <1>8 DEF Next, Finished

\* Every variable keeps its type.
THEOREM TypeCorrect == Spec => []TypeOK
<1>1. TypeInv => TypeOK
  BY DEF TypeInv
<1> QED
  BY InitTypes, TypesKept, <1>1, PTL DEF Spec

-----------------------------------------------------------------------------
(* A process is killed by one call only. The invariant that is inductive:  *)
(* where the name of a process can be, how far its own call is.            *)

\* The call of process v is past its section under mu in Start, or is over.
Ended(v) == call[v].pc \in {"done", "lost"}
Entered(v) == Ended(v) \/ At(v, "record")

\* What is in the map has been entered by its own Start, what is in a
\* run-state file has been written by it.
MapOwned == \A i \in Instance : running[i] # Nil =>
                call[running[i]].inst = i /\ Entered(running[i])
FilesOwned == \A i \in Instance : host[i].file # Nil =>
                call[host[i].file].inst = i /\ Ended(host[i].file)

\* A handler that holds a process cleans up, after its own failed Start or
\* after a process that was in the map; when the manager is down none runs.
HeldOwned == \A t \in Call : call[t].held # Nil =>
                /\ At(t, "clean") \/ Ended(t)
                /\ At(t, "clean") => call[t].held = t \/ Entered(call[t].held)
DownIsQuiet == ~ up => \A t \in Call : ~ Active(t)

Ownership == MapOwned /\ FilesOwned /\ HeldOwned /\ DownIsQuiet /\ KilledByOne

LEMMA InitOwnership == Init => Ownership
BY NilAssumption
DEF Init, Ownership, MapOwned, FilesOwned, HeldOwned, DownIsQuiet, KilledByOne, Active, At

\* KilledByOne without the range of running.
LEMMA KilledByOneUnfolded ==
    ASSUME running \in [Instance -> Call \cup {Nil}]
    PROVE  KilledByOne <=>
             \A t \in Call : Active(t) /\ call[t].held # Nil =>
                 /\ \A i \in Instance : running[i] # call[t].held
                 /\ \A s \in Call : Active(s) /\ call[s].held = call[t].held => s = t
BY DEF KilledByOne, Range

\* Only handler t has moved; it takes no process and enters none.
Moves(t) ==
    /\ \A s \in Call : s # t => call'[s] = call[s]
    /\ call'[t].inst = call[t].inst \/ At(t, "new")
    /\ call'[t].held \in {call[t].held, Nil}
    /\ call[t].held # Nil /\ At(t, "clean") => call'[t].pc \in {"clean", "done"}

NoNewFile == \A i \in Instance : host'[i].file \in {host[i].file, Nil}

LEMMA MovesKeepOwnership ==
    ASSUME TypeInv, TypeInv', Ownership, NEW t \in Call, ~ Entered(t), up,
           Moves(t), NoNewFile, UNCHANGED <<running, up>>
    PROVE  Ownership'
<1> USE NilAssumption
<1>1. /\ running \in [Instance -> Call \cup {Nil}] /\ running' = running
      /\ \A i \in Instance : host[i].file \in Call \cup {Nil}
      /\ \A s \in Call : call[s].held \in Call \cup {Nil}
  BY DEF TypeInv, TypeOK, Host, Handler
<1>2. MapOwned'
  BY <1>1 DEF Ownership, MapOwned, Moves, Entered, Ended, At
<1>3. FilesOwned'
  BY <1>1 DEF Ownership, FilesOwned, NoNewFile, Moves, Entered, Ended, At
<1>4. HeldOwned'
  BY <1>1 DEF Ownership, HeldOwned, Moves, Entered, Ended, At
<1>5. DownIsQuiet'
  BY DEF DownIsQuiet
<1>6. KilledByOne'
  <2>1. \A s \in Call : Active(s)' /\ call'[s].held # Nil =>
                            Active(s) /\ call'[s].held = call[s].held
    BY DEF Ownership, HeldOwned, Moves, Entered, Ended, At, Active
  <2>2. \A s \in Call : Active(s) /\ call[s].held # Nil =>
                 /\ \A i \in Instance : running[i] # call[s].held
                 /\ \A u \in Call : Active(u) /\ call[u].held = call[s].held => u = s
    BY <1>1, KilledByOneUnfolded DEF Ownership
  <2> QED
    BY <1>1, <2>1, <2>2 DEF KilledByOne, Range
<1> QED
  BY <1>2, <1>3, <1>4, <1>5, <1>6 DEF Ownership

\* What the three ways to go on make of the handlers.
LEMMA HandlerMoves ==
    ASSUME TypeInv, NEW t \in Call
    PROVE  /\ \A p \in PCs : Goto(t, p) /\ ~ At(t, "clean") => Moves(t) /\ call'[t].pc = p
           /\ \A a \in {"ok", "error"} : Answer(t, a) => Moves(t) /\ call'[t].pc = "done"
           /\ \A v \in Call \cup {Nil}, c \in Seq(Commands) : CleanUp(t, v, c) =>
                 /\ \A s \in Call : s # t => call'[s] = call[s]
                 /\ call'[t].inst = call[t].inst
                 /\ call'[t].held = v /\ call'[t].pc = "clean"
<1>1. call \in [Call -> Handler]
  BY DEF TypeInv, TypeOK
<1>2. ASSUME NEW p \in PCs, Goto(t, p), ~ At(t, "clean") PROVE Moves(t) /\ call'[t].pc = p
  BY <1>1, <1>2 DEF Goto, Moves, Handler
<1>3. ASSUME NEW a \in {"ok", "error"}, Answer(t, a) PROVE Moves(t) /\ call'[t].pc = "done"
  <2>1. call' = [call EXCEPT ![t] = [call[t] EXCEPT !.pc = "done", !.answer = a]]
    BY <1>3 DEF Answer
  <2> QED
    BY <1>1, <2>1 DEF Moves, Handler
<1>4. ASSUME NEW v \in Call \cup {Nil}, NEW c \in Seq(Commands), CleanUp(t, v, c)
      PROVE  /\ \A s \in Call : s # t => call'[s] = call[s]
             /\ call'[t].inst = call[t].inst
             /\ call'[t].held = v /\ call'[t].pc = "clean"
  <2>1. call' = [call EXCEPT ![t] = [call[t] EXCEPT !.pc = "clean", !.held = v, !.todo = c]]
    BY <1>4 DEF CleanUp
  <2> QED
    BY <1>1, <2>1 DEF Handler
<1> QED
  BY <1>2, <1>3, <1>4

\* A clean-up begins with a process that no other handler holds and that has
\* just left the map, or never was in it.
LEMMA TakingKeepsOwnership ==
    ASSUME TypeInv, TypeInv', Ownership, NEW t \in Call, NEW v \in Call,
           ~ Entered(t), Active(t), UNCHANGED <<host, up>>,
           v = t \/ Entered(v),
           \A s \in Call : Active(s) => call[s].held # v,
           \A i \in Instance : running'[i] \in {running[i], Nil} /\ running'[i] # v,
           \A s \in Call : s # t => call'[s] = call[s],
           call'[t].inst = call[t].inst, call'[t].held = v, call'[t].pc = "clean"
    PROVE  Ownership'
<1> USE NilAssumption
<1>1. /\ running \in [Instance -> Call \cup {Nil}] /\ running' \in [Instance -> Call \cup {Nil}]
      /\ \A i \in Instance : host[i].file \in Call \cup {Nil}
      /\ \A s \in Call : call[s].held \in Call \cup {Nil}
  BY DEF TypeInv, TypeOK, Host, Handler
<1>2. MapOwned'
  BY <1>1 DEF Ownership, MapOwned, Entered, Ended, At
<1>3. FilesOwned'
  BY <1>1 DEF Ownership, FilesOwned, Entered, Ended, At
<1>4. HeldOwned'
  BY <1>1 DEF Ownership, HeldOwned, Entered, Ended, At
<1>5. DownIsQuiet'
  BY DEF Ownership, DownIsQuiet, Active, At
<1>6. KilledByOne'
  <2>1. \A s \in Call : Active(s) /\ call[s].held # Nil =>
                 /\ \A i \in Instance : running[i] # call[s].held
                 /\ \A u \in Call : Active(u) /\ call[u].held = call[s].held => u = s
    BY <1>1, KilledByOneUnfolded DEF Ownership
  <2>2. \A s \in Call : Active(s)' /\ call'[s].held # Nil =>
                 /\ \A i \in Instance : running'[i] # call'[s].held
                 /\ \A u \in Call : Active(u)' /\ call'[u].held = call'[s].held => u = s
    BY <1>1, <2>1 DEF Active
  <2> QED
    BY <1>1, <2>2 DEF KilledByOne, Range
<1> QED
  BY <1>2, <1>3, <1>4, <1>5, <1>6 DEF Ownership

LEMMA OwnershipKept == TypeInv /\ TypeInv' /\ Ownership /\ [Next]_vars => Ownership'
<1> SUFFICES ASSUME TypeInv, TypeInv', Ownership, [Next]_vars PROVE Ownership'
  OBVIOUS
<1> USE NilAssumption
<1>0. /\ running \in [Instance -> Call \cup {Nil}] /\ call \in [Call -> Handler]
      /\ host \in [Instance -> Host] /\ up \in BOOLEAN
      /\ \A i \in Instance : host[i].file \in Call \cup {Nil}
      /\ \A s \in Call : call[s].held \in Call \cup {Nil}
  BY DEF TypeInv, TypeOK, Host, Handler
<1>1. ASSUME NEW t \in Call, NEW o \in Ops, NEW i \in Instance, Begin(t, o, i)
      PROVE  Ownership'
  <2>1. call' = [call EXCEPT ![t] = [call[t] EXCEPT !.op = o, !.inst = i, !.pc = FirstStep[o]]]
    BY <1>1 DEF Begin
  <2>2. Moves(t)
    BY <1>0, <1>1, <2>1 DEF Begin, At, Moves, Handler
  <2> QED
    BY <1>0, <1>1, <2>2, MovesKeepOwnership DEF Begin, At, Entered, Ended, NoNewFile
<1>2. ASSUME NEW t \in Call,
             \/ Provision(t) \/ ProvisionFails(t) \/ StartBegins(t) \/ CheckDisk(t)
             \/ ClearTap(t) \/ AddTap(t) \/ AddTapFails(t) \/ AddForward(t)
             \/ AddForwardFails(t) \/ RemoveSocket(t) \/ Spawn(t) \/ SpawnFails(t)
             \/ Configure(t) \/ Boot(t) \/ StopFindsNothing(t) \/ DeleteFindsNothing(t)
             \/ Clean(t)
      PROVE  Ownership'
  <2>1. ~ Entered(t) /\ Active(t) /\ UNCHANGED <<running, up>>
    BY <1>2 DEF Entered, Ended, At, Active, Provision, ProvisionFails, StartBegins, CheckDisk,
      ClearTap, AddTap, AddTapFails, AddForward, AddForwardFails, RemoveSocket, Spawn,
      SpawnFails, Configure, Boot, StopFindsNothing, DeleteFindsNothing, Clean
  <2>2. up
    BY <1>0, <2>1 DEF Ownership, DownIsQuiet
  <2>3. Moves(t)
    <3>1. CASE ~ Clean(t)
      <4>1. ~ At(t, "clean")
        BY <1>2, <3>1 DEF At, Provision, ProvisionFails, StartBegins, CheckDisk,
          ClearTap, AddTap, AddTapFails, AddForward, AddForwardFails, RemoveSocket, Spawn,
          SpawnFails, Configure, Boot, StopFindsNothing, DeleteFindsNothing
      <4>2. \/ Answer(t, "ok") \/ Answer(t, "error")
            \/ \E p \in PCs : Goto(t, p)
            \/ \E c \in {<<"tap">>, <<"net">>, DeleteAnyway} : CleanUp(t, Nil, c)
        BY <1>2, <3>1 DEF Provision, ProvisionFails, StartBegins, CheckRunning, CheckDisk,
          ClearTap, AddTap, AddTapFails, AddForward, AddForwardFails, RemoveSocket, Spawn,
          SpawnFails, Configure, Boot, StopFindsNothing, DeleteFindsNothing, PCs
      <4>3. CASE Answer(t, "ok") \/ Answer(t, "error") \/ \E p \in PCs : Goto(t, p)
        BY <4>1, <4>3, HandlerMoves
      <4>4. CASE \E c \in {<<"tap">>, <<"net">>, DeleteAnyway} : CleanUp(t, Nil, c)
        <5>1. \A c \in {<<"tap">>, <<"net">>, DeleteAnyway} : c \in Seq(Commands)
          BY CommandLists
        <5> QED
          BY <4>1, <4>4, <5>1, HandlerMoves DEF Moves
      <4> QED
        BY <4>2, <4>3, <4>4
    <3>2. CASE Clean(t)
      <4>1. CASE Len(call[t].todo) = 1
        BY <3>2, <4>1, HandlerMoves DEF Clean
      <4>2. CASE Len(call[t].todo) # 1
        <5>1. call' = [call EXCEPT ![t] = [call[t] EXCEPT !.todo = Tail(call[t].todo)]]
          BY <3>2, <4>2 DEF Clean
        <5> QED
          BY <1>0, <3>2, <5>1 DEF Moves, Handler, Clean, At
      <4> QED
        BY <4>1, <4>2
    <3> QED
      BY <3>1, <3>2
  <2>4. NoNewFile
    <3>1. CASE \/ ProvisionFails(t) \/ StartBegins(t) \/ CheckDisk(t) \/ SpawnFails(t)
               \/ Configure(t) \/ Boot(t) \/ StopFindsNothing(t) \/ DeleteFindsNothing(t)
      BY <3>1 DEF NoNewFile, ProvisionFails, StartBegins, CheckDisk, SpawnFails, Configure,
        Boot, StopFindsNothing, DeleteFindsNothing
    <3>2. CASE Provision(t) \/ ClearTap(t) \/ AddTap(t) \/ RemoveSocket(t) \/ Spawn(t)
      BY <1>0, <3>2 DEF NoNewFile, Host, Provision, ClearTap, AddTap, RemoveSocket, Spawn, SetHost
    <3>3. CASE AddTapFails(t)
      BY <1>0, <3>3 DEF NoNewFile, Host, AddTapFails
    <3>4. CASE AddForward(t) \/ AddForwardFails(t)
      BY <1>0, <3>4 DEF NoNewFile, Host, AddForward, AddForwardFails
    <3>5. CASE Clean(t)
      <4> DEFINE i == call[t].inst
                 c == Head(call[t].todo)
      <4>1. \E h \in {host[i], TornDown(host[i]), [host[i] EXCEPT !.tap = Nil],
                     [host[i] EXCEPT !.socket = Nil], [host[i] EXCEPT !.file = Nil],
                     [host[i] EXCEPT !.disk = FALSE]} : host' = [host EXCEPT ![i] = h]
        <5>1. call[t].todo \in Seq(Commands) /\ call[t].todo # <<>>
          BY <1>0, <3>5 DEF TypeInv, HasWork, Clean, Handler
        <5>2. c \in Commands
          BY <5>1
        <5> QED
          BY <3>5, <5>2 DEF Clean, RunCommand, Commands
      <4>2. i \in Instance
        BY <3>5 DEF TypeInv, HasInstance, Clean, At
      <4>3. /\ TornDown(host[i]).file = host[i].file
            /\ [host[i] EXCEPT !.tap = Nil].file = host[i].file
            /\ [host[i] EXCEPT !.socket = Nil].file = host[i].file
            /\ [host[i] EXCEPT !.file = Nil].file = Nil
            /\ [host[i] EXCEPT !.disk = FALSE].file = host[i].file
        BY <1>0, <4>2 DEF TornDown, Host
      <4> HIDE DEF i
      <4> QED
        BY <1>0, <4>1, <4>2, <4>3 DEF NoNewFile
    <3> QED
      BY <1>2, <3>1, <3>2, <3>3, <3>4, <3>5
  <2> QED
    BY <2>1, <2>2, <2>3, <2>4, MovesKeepOwnership
<1>3. ASSUME NEW t \in Call, BootFails(t) PROVE Ownership'
  <2>1. ~ Entered(t) /\ Active(t) /\ ~ At(t, "clean") /\ UNCHANGED <<host, up, running>>
    BY <1>3 DEF BootFails, Entered, Ended, Active, At
  <2>2. \A s \in Call : Active(s) => call[s].held # t
    BY <2>1 DEF Ownership, HeldOwned, Active, Ended, At
  <2>3. \A i \in Instance : running[i] # t
    BY <2>1 DEF Ownership, MapOwned
  <2>4. /\ \A s \in Call : s # t => call'[s] = call[s]
        /\ call'[t].inst = call[t].inst /\ call'[t].held = t /\ call'[t].pc = "clean"
    BY <1>3, HandlerMoves, CommandLists DEF BootFails
  <2> QED
    BY <2>1, <2>2, <2>3, <2>4, TakingKeepsOwnership
<1>4. ASSUME NEW t \in Call, StopTakes(t) \/ DeleteTakes(t) PROVE Ownership'
  <2> DEFINE i == call[t].inst
             v == running[i]
  <2>1. /\ ~ Entered(t) /\ Active(t) /\ v # Nil /\ UNCHANGED <<host, up>>
        /\ running' = [running EXCEPT ![i] = Nil]
    BY <1>4 DEF StopTakes, DeleteTakes, Forget, Entered, Ended, Active, At
  <2>2. i \in Instance
    BY <2>1 DEF TypeInv, HasInstance, Active, At
  <2>3. v \in Call /\ Entered(v) /\ call[v].inst = i
    BY <1>0, <2>1, <2>2 DEF Ownership, MapOwned
  <2>4. \A s \in Call : Active(s) => call[s].held # v
    BY <1>0, <2>1, <2>2, KilledByOneUnfolded DEF Ownership
  <2>5. \A j \in Instance : running'[j] \in {running[j], Nil} /\ running'[j] # v
    BY <1>0, <2>1, <2>2, <2>3 DEF Ownership, MapOwned
  <2>6. /\ \A s \in Call : s # t => call'[s] = call[s]
        /\ call'[t].inst = call[t].inst /\ call'[t].held = v /\ call'[t].pc = "clean"
    BY <1>4, <2>3, HandlerMoves, CommandLists DEF StopTakes, DeleteTakes
  <2> HIDE DEF v, i
  <2> QED
    BY <2>1, <2>3, <2>4, <2>5, <2>6, TakingKeepsOwnership
<1>5. ASSUME NEW t \in Call, Register(t) PROVE Ownership'
  <2> DEFINE i == call[t].inst
  <2>1. /\ At(t, "register") /\ UNCHANGED <<host, up>>
        /\ running' = [running EXCEPT ![i] = t]
    BY <1>5 DEF Register
  <2>2. /\ \A s \in Call : s # t => call'[s] = call[s]
        /\ call'[t].inst = i /\ call'[t].pc = "record" /\ call'[t].held = Nil
    <3>1. call[t].held = Nil
      BY <2>1 DEF Ownership, HeldOwned, Ended, At
    <3> QED
      BY <1>0, <1>5, <3>1 DEF Register, Goto, Handler
  <2>3. MapOwned'
    BY <1>0, <2>1, <2>2 DEF Ownership, MapOwned, Entered, Ended, At
  <2>4. FilesOwned'
    BY <1>0, <2>1, <2>2 DEF Ownership, FilesOwned, Ended, At
  <2>5. HeldOwned'
    BY <1>0, <2>1, <2>2 DEF Ownership, HeldOwned, Entered, Ended, At
  <2>6. DownIsQuiet'
    BY <2>1 DEF Ownership, DownIsQuiet, Active, At
  <2>7. KilledByOne'
    <3>1. \A s \in Call : Active(s)' /\ call'[s].held # Nil =>
             s # t /\ Active(s) /\ call'[s].held = call[s].held /\ call[s].held # t
      BY <2>1, <2>2 DEF Ownership, HeldOwned, Active, Entered, Ended, At
    <3>2. \A s \in Call : Active(s) /\ call[s].held # Nil =>
                 /\ \A j \in Instance : running[j] # call[s].held
                 /\ \A u \in Call : Active(u) /\ call[u].held = call[s].held => u = s
      BY <1>0, KilledByOneUnfolded DEF Ownership
    <3>3. \A j \in Instance : running'[j] \in {running[j], t}
      BY <1>0, <2>1
    <3>4. \A s \in Call : Active(s)' /\ call'[s].held # Nil =>
                 /\ \A j \in Instance : running'[j] # call'[s].held
                 /\ \A u \in Call : Active(u)' /\ call'[u].held = call'[s].held => u = s
      BY <3>1, <3>2, <3>3
    <3>5. running' \in [Instance -> Call \cup {Nil}]
      BY DEF TypeInv, TypeOK
    <3> QED
      BY <3>4, <3>5 DEF KilledByOne, Range
  <2> QED
    BY <2>3, <2>4, <2>5, <2>6, <2>7 DEF Ownership
<1>6. ASSUME NEW t \in Call, Record(t) PROVE Ownership'
  <2> DEFINE i == call[t].inst
  <2>1. At(t, "record") /\ UNCHANGED <<running, up>>
    BY <1>6 DEF Record
  <2>2. \A j \in Instance : host'[j].file = host[j].file \/ (j = i /\ host'[j].file = t)
    BY <1>0, <1>6 DEF Record, WriteRunState, SetHost, Host
  <2>3. /\ \A s \in Call : s # t => call'[s] = call[s]
        /\ call'[t].inst = i /\ call'[t].held = Nil /\ call'[t].pc = "done"
    <3>1. call[t].held = Nil
      BY <2>1 DEF Ownership, HeldOwned, Ended, At
    <3> QED
      BY <1>6, <2>1, <3>1, HandlerMoves DEF Record, Moves, At
  <2>4. MapOwned'
    BY <1>0, <2>1, <2>3 DEF Ownership, MapOwned, Entered, Ended, At
  <2>5. FilesOwned'
    BY <1>0, <2>2, <2>3 DEF Ownership, FilesOwned, Ended, At
  <2>6. HeldOwned'
    BY <1>0, <2>1, <2>3 DEF Ownership, HeldOwned, Entered, Ended, At
  <2>7. DownIsQuiet'
    BY <2>1, <2>3 DEF Ownership, DownIsQuiet, Active, At
  <2>8. KilledByOne'
    BY <2>1, <2>3 DEF Ownership, KilledByOne, Range, Active
  <2> QED
    BY <2>4, <2>5, <2>6, <2>7, <2>8 DEF Ownership
<1>7. ASSUME Crash \/ HostReboot PROVE Ownership'
  <2>1. ManagerDies
    BY <1>7 DEF Crash, HostReboot
  <2>2. \A i \in Instance : running'[i] = Nil
    BY <2>1 DEF ManagerDies
  <2>3. \A i \in Instance : host'[i].file = host[i].file
    <3>1. \A i \in Instance :
             [host[i] EXCEPT !.socket = Nil, !.tap = Nil, !.rules = 0].file = host[i].file
      BY <1>0 DEF Host
    <3>2. CASE Crash
      BY <3>2 DEF Crash
    <3>3. CASE HostReboot
      BY <3>1, <3>3 DEF HostReboot
    <3> QED
      BY <1>7, <3>2, <3>3
  <2>4. \A s \in Call : /\ call'[s].inst = call[s].inst /\ call'[s].held = call[s].held
                        /\ call'[s].pc = IF Active(s) THEN "lost" ELSE call[s].pc
    BY <1>0, <2>1 DEF ManagerDies, Handler
  <2>5. MapOwned'
    BY <2>2 DEF MapOwned
  <2>6. FilesOwned'
    BY <1>0, <2>3, <2>4 DEF Ownership, FilesOwned, Ended, At, Active
  <2>7. HeldOwned'
    BY <2>4 DEF Ownership, HeldOwned, Ended, At, Active
  <2>8. DownIsQuiet' /\ KilledByOne'
    BY <2>4 DEF DownIsQuiet, KilledByOne, Active
  <2> QED
    BY <2>5, <2>6, <2>7, <2>8 DEF Ownership
<1>8. ASSUME Restart PROVE Ownership'
  <2>1. call' = call /\ \A t \in Call : ~ Active(t)
    BY <1>8 DEF Restart, Ownership, DownIsQuiet
  <2>2. \A i \in Instance : running'[i] \in {host[i].file, Nil}
    BY <1>8 DEF Restart
  <2>3. \A i \in Instance : host'[i].file \in {host[i].file, Nil}
    <3>1. \A i \in Instance :
             [TornDown(host[i]) EXCEPT !.socket = Nil, !.file = Nil].file = Nil
      BY <1>0, CleanedHostTypes DEF Host
    <3> QED
      BY <1>8, <3>1 DEF Restart
  <2>4. MapOwned'
    BY <1>0, <2>1, <2>2 DEF Ownership, FilesOwned, MapOwned, Entered, Ended, At
  <2>5. FilesOwned'
    BY <1>0, <2>1, <2>3 DEF Ownership, FilesOwned, Ended, At
  <2>6. HeldOwned'
    BY <2>1 DEF Ownership, HeldOwned, Entered, Ended, At
  <2>7. DownIsQuiet' /\ KilledByOne'
    BY <2>1 DEF DownIsQuiet, KilledByOne, Active
  <2> QED
    BY <2>4, <2>5, <2>6, <2>7 DEF Ownership
<1>9. ASSUME UNCHANGED <<host, up, running, call>> PROVE Ownership'
  BY <1>9 DEF Ownership, MapOwned, FilesOwned, HeldOwned, DownIsQuiet, KilledByOne, Active,
    Entered, Ended, At
<1> QED
  BY <1>1, <1>2, <1>3, <1>4, <1>5, <1>6, <1>7, <1>8, <1>9
  DEF Next, Create, Start, Stop, Delete, GuestExits, Finished, vars

\* No process is killed while another call hands it out as running, however
\* the calls overlap and wherever the manager dies.
THEOREM KilledByOneCall == Spec => []KilledByOne
<1>1. Ownership => KilledByOne
  BY DEF Ownership
<1>2. Init => TypeInv /\ Ownership
  BY InitTypes, InitOwnership
<1>3. TypeInv /\ Ownership /\ [Next]_vars => (TypeInv /\ Ownership)'
  BY TypesKept, OwnershipKept
<1> QED
  BY <1>1, <1>2, <1>3, PTL DEF Spec

-----------------------------------------------------------------------------
(* An answer tells the truth. The invariant that is inductive: what the    *)
(* process of a call is at each place of the call, and that a process that *)
(* is held is dead once "kill" is no longer the next command.              *)

Unspawned == {"new", "provision", "start", "disk", "tap", "addtap", "forward", "socket",
              "spawn", "take"}
Starting == (Unspawned \ {"new", "take"}) \cup {"configure", "boot", "register", "record"}
KillsNext(t) == At(t, "clean") /\ Head(call[t].todo) = "kill"

Honest(t) ==
    /\ call[t].pc \in Unspawned => proc[t] = "none"
    /\ call[t].pc \in Starting => call[t].op \in {"create", "start"}
    /\ call[t].op \in {"stop", "delete"} => ~ Alive(t)
    /\ call[t].pc \in {"clean", "done"} /\ call[t].held # Nil
          => KillsNext(t) \/ proc[call[t].held] = "dead"
    /\ At(t, "clean") => \/ call[t].held = t
                         \/ call[t].op \in {"stop", "delete"}
                         \/ call[t].held = Nil /\ ~ Alive(t)
    /\ call[t].answer # "none" => At(t, "done")
    /\ call[t].answer = "error" => ~ Alive(t)
Honesty == \A t \in Call : Honest(t)

LEMMA InitHonesty == Init => Honesty
BY NilAssumption DEF Init, Honesty, Honest, Unspawned, Starting, KillsNext, Alive, At

\* Only handler t has moved, by one of the four ways to go on.
OnlyMoves(t) ==
    /\ \A s \in Call : s # t => call'[s] = call[s]
    /\ call'[t].op = call[t].op /\ call'[t].inst = call[t].inst

LEMMA HandlerBecomes ==
    ASSUME TypeInv, NEW t \in Call
    PROVE  /\ \A p \in PCs : Goto(t, p) =>
                 /\ OnlyMoves(t) /\ call'[t].pc = p /\ call'[t].held = call[t].held
                 /\ call'[t].answer = call[t].answer
           /\ \A a \in {"ok", "error"} : Answer(t, a) =>
                 /\ OnlyMoves(t) /\ call'[t].pc = "done" /\ call'[t].held = call[t].held
                 /\ call'[t].answer = a
           /\ \A v \in Call \cup {Nil}, c \in Seq(Commands) : CleanUp(t, v, c) =>
                 /\ OnlyMoves(t) /\ call'[t].pc = "clean" /\ call'[t].held = v
                 /\ call'[t].todo = c /\ call'[t].answer = call[t].answer
           /\ call' = [call EXCEPT ![t].todo = Tail(@)] =>
                 /\ OnlyMoves(t) /\ call'[t].pc = call[t].pc /\ call'[t].held = call[t].held
                 /\ call'[t].todo = Tail(call[t].todo) /\ call'[t].answer = call[t].answer
<1>1. call \in [Call -> Handler]
  BY DEF TypeInv, TypeOK
<1>2. ASSUME NEW p \in PCs, Goto(t, p)
      PROVE  /\ OnlyMoves(t) /\ call'[t].pc = p /\ call'[t].held = call[t].held
             /\ call'[t].answer = call[t].answer
  BY <1>1, <1>2 DEF Goto, OnlyMoves, Handler
<1>3. ASSUME NEW a \in {"ok", "error"}, Answer(t, a)
      PROVE  /\ OnlyMoves(t) /\ call'[t].pc = "done" /\ call'[t].held = call[t].held
             /\ call'[t].answer = a
  <2>1. call' = [call EXCEPT ![t] = [call[t] EXCEPT !.pc = "done", !.answer = a]]
    BY <1>3 DEF Answer
  <2> QED
    BY <1>1, <2>1 DEF OnlyMoves, Handler
<1>4. ASSUME NEW v \in Call \cup {Nil}, NEW c \in Seq(Commands), CleanUp(t, v, c)
      PROVE  /\ OnlyMoves(t) /\ call'[t].pc = "clean" /\ call'[t].held = v
             /\ call'[t].todo = c /\ call'[t].answer = call[t].answer
  <2>1. call' = [call EXCEPT ![t] = [call[t] EXCEPT !.pc = "clean", !.held = v, !.todo = c]]
    BY <1>4 DEF CleanUp
  <2> QED
    BY <1>1, <2>1 DEF OnlyMoves, Handler
<1>5. ASSUME call' = [call EXCEPT ![t].todo = Tail(@)]
      PROVE  /\ OnlyMoves(t) /\ call'[t].pc = call[t].pc /\ call'[t].held = call[t].held
             /\ call'[t].todo = Tail(call[t].todo) /\ call'[t].answer = call[t].answer
  BY <1>1, <1>5 DEF OnlyMoves, Handler
<1> QED
  BY <1>2, <1>3, <1>4, <1>5

\* Processes only ever die, but for the one a call spawns for itself.
ProcessesMove ==
    \A v \in Call :
        /\ proc[v] = "dead" => proc'[v] = "dead"
        /\ Alive(v)' => Alive(v) \/ (At(v, "spawn") /\ call'[v].pc # "spawn")
        /\ call[v].pc \in Unspawned /\ proc[v] = "none"
              => proc'[v] = "none" \/ (At(v, "spawn") /\ call'[v].pc # "spawn")

LEMMA ProcessSteps == TypeInv /\ Ownership /\ Honesty /\ [Next]_vars => ProcessesMove
<1> SUFFICES ASSUME TypeInv, Ownership, Honesty, [Next]_vars PROVE ProcessesMove
  OBVIOUS
<1> USE NilAssumption
<1>0. /\ proc \in [Call -> ProcessStates] /\ call \in [Call -> Handler]
      /\ \A t \in Call : call[t].held \in Call \cup {Nil}
  BY DEF TypeInv, TypeOK, Handler
<1>1. ASSUME NEW t \in Call, Spawn(t) \/ SpawnFails(t) PROVE ProcessesMove
  <2>1. At(t, "spawn") /\ proc[t] = "none"
    BY <1>1 DEF Spawn, SpawnFails, Honesty, Honest, Unspawned, At
  <2>2. call'[t].pc # "spawn"
    BY <1>1, HandlerBecomes, CommandLists DEF Spawn, SpawnFails, PCs
  <2>3. \A v \in Call : v # t => proc'[v] = proc[v]
    BY <1>0, <1>1 DEF Spawn, SpawnFails
  <2> QED
    BY <2>1, <2>2, <2>3 DEF ProcessesMove, Alive
<1>2. ASSUME NEW t \in Call, Boot(t) PROVE ProcessesMove
  <2>1. PICK v \in Listener(call[t].inst) : proc' = [proc EXCEPT ![v] = "booted"]
    BY <1>2 DEF Boot
  <2>2. proc[v] = "spawned"
    BY <2>1 DEF Listener
  <2> QED
    BY <1>0, <2>1, <2>2 DEF ProcessesMove, Alive
<1>3. ASSUME NEW t \in Call, Clean(t) PROVE ProcessesMove
  <2> DEFINE v == call[t].held
  <2>1. proc' \in {proc, [proc EXCEPT ![v] = "dead"]}
    BY <1>3 DEF Clean, RunCommand
  <2>2. v # Nil => call[v].pc \notin Unspawned
    BY <1>0, <1>3 DEF Clean, Ownership, HeldOwned, Entered, Ended, At, Unspawned
  <2> HIDE DEF v
  <2> QED
    BY <1>0, <2>1, <2>2 DEF ProcessesMove, Alive
<1>4. ASSUME NEW v \in Call, GuestExits(v) PROVE ProcessesMove
  BY <1>0, <1>4 DEF GuestExits, ProcessesMove, Alive
<1>5. ASSUME HostReboot PROVE ProcessesMove
  BY <1>0, <1>5 DEF HostReboot, ProcessesMove, Alive
<1>6. ASSUME UNCHANGED proc PROVE ProcessesMove
  BY <1>6 DEF ProcessesMove, Alive
<1>7. ASSUME NEW t \in Call,
             \/ \E o \in Ops, i \in Instance : Begin(t, o, i)
             \/ Create(t) \/ Stop(t) \/ Delete(t)
             \/ StartBegins(t) \/ CheckDisk(t) \/ ClearTap(t) \/ AddTap(t) \/ AddTapFails(t)
             \/ AddForward(t) \/ AddForwardFails(t) \/ RemoveSocket(t) \/ Configure(t)
             \/ BootFails(t) \/ Register(t) \/ Record(t)
      PROVE  UNCHANGED proc
  BY <1>7 DEF Begin, Create, Provision, ProvisionFails, Stop, StopTakes, StopFindsNothing,
    Delete, DeleteTakes, DeleteFindsNothing, StartBegins, CheckDisk, ClearTap, AddTap,
    AddTapFails, AddForward, AddForwardFails, RemoveSocket, Configure, BootFails, Register,
    Record
<1> QED
  BY <1>1, <1>2, <1>3, <1>4, <1>5, <1>6, <1>7
  DEF Next, Start, Crash, Restart, Finished, vars

\* A call that does not move stays honest.
LEMMA RestStaysHonest ==
    ASSUME TypeInv, ProcessesMove, NEW t \in Call, Honest(t),
           call'[t] = call[t] \/ (/\ call'[t].pc = "lost" /\ call'[t].op = call[t].op
                                  /\ call'[t].answer = call[t].answer /\ Active(t))
    PROVE  Honest(t)'
<1>0. /\ proc \in [Call -> ProcessStates] /\ call[t].held \in Call \cup {Nil}
  BY DEF TypeInv, TypeOK, Handler
<1>1. CASE call'[t] = call[t]
  <2>1. /\ call[t].pc \in Unspawned /\ proc[t] = "none" => proc'[t] = "none"
        /\ ~ Alive(t) => ~ Alive(t)'
        /\ \A v \in Call : proc[v] = "dead" => proc'[v] = "dead"
    BY <1>1 DEF ProcessesMove, At
  <2>2. /\ At(t, "clean")' = At(t, "clean") /\ At(t, "done")' = At(t, "done")
        /\ KillsNext(t)' = KillsNext(t)
    BY <1>1 DEF At, KillsNext
  <2> QED
    BY <1>0, <1>1, <2>1, <2>2 DEF Honest
<1>2. CASE /\ call'[t].pc = "lost" /\ call'[t].op = call[t].op
           /\ call'[t].answer = call[t].answer /\ Active(t)
  <2>1. call[t].op \in {"stop", "delete"} => ~ Alive(t)'
    BY <1>2 DEF ProcessesMove, Honest, Starting, Unspawned, At
  <2>2. call[t].answer = "none"
    <3>1. call[t].answer \in {"none", "ok", "error"}
      BY DEF TypeInv, TypeOK, Handler
    <3> QED
      BY <1>2, <3>1 DEF Honest, Active, At
  <2> QED
    BY <1>2, <2>1, <2>2 DEF Honest, Unspawned, Starting, At
<1> QED
  BY <1>1, <1>2

LEMMA HonestyKept == TypeInv /\ Ownership /\ Honesty /\ [Next]_vars => Honesty'
<1> SUFFICES ASSUME TypeInv, Ownership, Honesty, [Next]_vars PROVE Honesty'
  OBVIOUS
<1> USE NilAssumption
<1>0. /\ proc \in [Call -> ProcessStates] /\ call \in [Call -> Handler]
      /\ \A t \in Call : /\ call[t].held \in Call \cup {Nil} /\ call[t].op \in Ops \cup {"none"}
                         /\ call[t].answer \in {"none", "ok", "error"}
                         /\ ~ At(t, "clean") /\ ~ Ended(t) => call[t].held = Nil
  BY DEF TypeInv, TypeOK, Handler, Ownership, HeldOwned
<1>1. ProcessesMove
  BY ProcessSteps
<1>2. ASSUME NEW t \in Call, \A s \in Call : s # t => call'[s] = call[s], Honest(t)'
      PROVE  Honesty'
  BY <1>1, <1>2, RestStaysHonest DEF Honesty
<1>3. ASSUME NEW t \in Call, NEW o \in Ops, NEW i \in Instance, Begin(t, o, i)
      PROVE  Honesty'
  <2>1. call' = [call EXCEPT ![t] = [call[t] EXCEPT !.op = o, !.inst = i, !.pc = FirstStep[o]]]
    BY <1>3 DEF Begin
  <2>2. /\ \A s \in Call : s # t => call'[s] = call[s]
        /\ call'[t].op = o /\ call'[t].pc = FirstStep[o]
        /\ call'[t].answer = call[t].answer
    BY <1>0, <2>1 DEF Handler
  <2>3. At(t, "new") /\ UNCHANGED proc
    BY <1>3 DEF Begin
  <2>4. proc[t] = "none" /\ call[t].answer = "none"
    BY <1>0, <2>3 DEF Honesty, Honest, Unspawned, At
  <2>5. /\ FirstStep[o] \in {"provision", "start", "take"}
        /\ FirstStep[o] # "take" => o \in {"create", "start"}
    BY DEF FirstStep, Ops
  <2>6. Honest(t)'
    BY <2>2, <2>3, <2>4, <2>5 DEF Honest, Unspawned, Starting, KillsNext, Alive, At
  <2> QED
    BY <1>2, <2>2, <2>6
<1>4. ASSUME NEW t \in Call,
             \/ Provision(t) \/ ProvisionFails(t) \/ StartBegins(t) \/ CheckDisk(t)
             \/ ClearTap(t) \/ AddTap(t) \/ AddTapFails(t) \/ AddForward(t)
             \/ AddForwardFails(t) \/ RemoveSocket(t)
      PROVE  Honesty'
  <2>1. call[t].pc \in Unspawned \cap Starting /\ UNCHANGED proc
    BY <1>4 DEF Provision, ProvisionFails, StartBegins, CheckDisk, ClearTap, AddTap,
      AddTapFails, AddForward, AddForwardFails, RemoveSocket, Unspawned, Starting, At
  <2>2. /\ proc[t] = "none" /\ call[t].op \in {"create", "start"} /\ call[t].held = Nil
        /\ call[t].answer = "none"
    BY <1>0, <2>1 DEF Honesty, Honest, Unspawned, Starting, At, Ended
  <2>3. \/ Answer(t, "ok") \/ Answer(t, "error")
        \/ \E p \in Unspawned \cap Starting : Goto(t, p)
        \/ CleanUp(t, Nil, <<"tap">>)
    BY <1>4 DEF Provision, ProvisionFails, StartBegins, CheckRunning, CheckDisk, ClearTap,
      AddTap, AddTapFails, AddForward, AddForwardFails, RemoveSocket, Unspawned, Starting
  <2>4. /\ OnlyMoves(t) /\ call'[t].held = Nil
        /\ \/ call'[t].pc = "done"
           \/ call'[t].pc \in (Unspawned \cap Starting) \cup {"clean"} /\ call'[t].answer = "none"
    <3>1. CASE Answer(t, "ok") \/ Answer(t, "error")
      BY <2>2, <3>1, HandlerBecomes
    <3>2. CASE \E p \in Unspawned \cap Starting : Goto(t, p)
      <4>1. Unspawned \cap Starting \subseteq PCs
        BY DEF Unspawned, PCs
      <4> QED
        BY <2>2, <3>2, <4>1, HandlerBecomes
    <3>3. CASE CleanUp(t, Nil, <<"tap">>)
      BY <2>2, <3>3, HandlerBecomes, CommandLists
    <3> QED
      BY <2>3, <3>1, <3>2, <3>3
  <2>5. Honest(t)'
    BY <2>1, <2>2, <2>4 DEF Honest, OnlyMoves, Unspawned, Starting, KillsNext, Alive, At
  <2> QED
    BY <1>2, <2>4, <2>5 DEF OnlyMoves
<1>5. ASSUME NEW t \in Call, Spawn(t) \/ Configure(t) \/ Boot(t) \/ Register(t) \/ Record(t)
      PROVE  Honesty'
  <2>1. call[t].pc \in Starting
    BY <1>5 DEF Spawn, Configure, Boot, Register, Record, Unspawned, Starting, At
  <2>2. call[t].op \in {"create", "start"} /\ call[t].held = Nil /\ call[t].answer = "none"
    BY <1>0, <2>1 DEF Honesty, Honest, Unspawned, Starting, At, Ended
  <2>3. Answer(t, "ok") \/ \E p \in {"configure", "boot", "register", "record"} : Goto(t, p)
    BY <1>5 DEF Spawn, Configure, Boot, Register, Record
  <2>4. /\ OnlyMoves(t) /\ call'[t].held = Nil
        /\ \/ call'[t].pc = "done" /\ call'[t].answer = "ok"
           \/ /\ call'[t].pc \in {"configure", "boot", "register", "record"}
              /\ call'[t].answer = "none"
    BY <2>2, <2>3, HandlerBecomes DEF PCs
  <2>5. Honest(t)'
    BY <2>2, <2>4 DEF Honest, OnlyMoves, Unspawned, Starting, KillsNext, At
  <2> QED
    BY <1>2, <2>4, <2>5 DEF OnlyMoves
<1>6. ASSUME NEW t \in Call, SpawnFails(t) PROVE Honesty'
  <2>1. At(t, "spawn") /\ proc' = [proc EXCEPT ![t] = "dead"]
    BY <1>6 DEF SpawnFails
  <2>2. call[t].op \in {"create", "start"} /\ call[t].answer = "none"
    BY <1>0, <2>1 DEF Honesty, Honest, Unspawned, Starting, At
  <2>3. /\ OnlyMoves(t) /\ call'[t].held = Nil /\ call'[t].pc = "clean"
        /\ call'[t].answer = call[t].answer
    <3>1. PICK c \in Seq(Commands) : CleanUp(t, Nil, c)
      BY <1>6, CommandLists DEF SpawnFails
    <3> QED
      BY <3>1, HandlerBecomes
  <2>4. Honest(t)'
    BY <1>0, <2>1, <2>2, <2>3 DEF Honest, OnlyMoves, Unspawned, Starting, Alive, At
  <2> QED
    BY <1>2, <2>3, <2>4 DEF OnlyMoves
<1>7. ASSUME NEW t \in Call, BootFails(t) PROVE Honesty'
  <2>1. call[t].pc \in {"configure", "boot"}
    BY <1>7 DEF BootFails
  <2>2. call[t].op \in {"create", "start"} /\ call[t].answer = "none"
    BY <1>0, <2>1 DEF Honesty, Honest, Unspawned, Starting, At
  <2>3. /\ OnlyMoves(t) /\ call'[t].held = t /\ call'[t].pc = "clean"
        /\ call'[t].answer = call[t].answer /\ call'[t].todo = OnFailure
    BY <1>7, HandlerBecomes, CommandLists DEF BootFails
  <2>4. KillsNext(t)'
    BY <2>3 DEF KillsNext, OnFailure, At
  <2>5. Honest(t)'
    BY <2>2, <2>3, <2>4 DEF Honest, OnlyMoves, Unspawned, Starting, At
  <2> QED
    BY <1>2, <2>3, <2>5 DEF OnlyMoves
<1>8. ASSUME NEW t \in Call, Stop(t) \/ Delete(t) PROVE Honesty'
  <2> DEFINE v == running[call[t].inst]
  <2>1. At(t, "take") /\ call[t].op \in {"stop", "delete"} /\ UNCHANGED proc
    BY <1>8 DEF Stop, StopTakes, StopFindsNothing, Delete, DeleteTakes, DeleteFindsNothing
  <2>2. ~ Alive(t) /\ call[t].held = Nil /\ call[t].answer = "none"
    BY <1>0, <2>1 DEF Honesty, Honest, At, Ended
  <2>3. \/ Answer(t, "ok")
        \/ CleanUp(t, v, <<"kill", "net", "socket", "file">>)
        \/ CleanUp(t, v, <<"kill", "net", "socket">> \o DeleteAnyway)
        \/ CleanUp(t, Nil, DeleteAnyway)
    BY <1>8 DEF Stop, StopTakes, StopFindsNothing, Delete, DeleteTakes, DeleteFindsNothing
  <2>4. v \in Call \cup {Nil}
    BY <2>1 DEF TypeInv, TypeOK, HasInstance, At
  <2>5. /\ Head(<<"kill", "net", "socket", "file">>) = "kill"
        /\ Head(<<"kill", "net", "socket">> \o DeleteAnyway) = "kill"
    BY DEF DeleteAnyway
  <2>6. /\ OnlyMoves(t)
        /\ \/ call'[t].pc = "done" /\ call'[t].held = Nil /\ call'[t].answer = "ok"
           \/ /\ call'[t].pc = "clean" /\ call'[t].answer = "none"
              /\ call'[t].held = Nil \/ Head(call'[t].todo) = "kill"
    <3>1. CASE Answer(t, "ok")
      BY <2>2, <3>1, HandlerBecomes
    <3>2. CASE \/ CleanUp(t, v, <<"kill", "net", "socket", "file">>)
               \/ CleanUp(t, v, <<"kill", "net", "socket">> \o DeleteAnyway)
      <4>1. PICK c \in Seq(Commands) : CleanUp(t, v, c) /\ Head(c) = "kill"
        BY <2>5, <3>2, CommandLists
      <4> QED
        BY <2>2, <2>4, <4>1, HandlerBecomes
    <3>3. CASE CleanUp(t, Nil, DeleteAnyway)
      BY <2>2, <3>3, HandlerBecomes, CommandLists
    <3> QED
      BY <2>3, <3>1, <3>2, <3>3
  <2>7. Honest(t)'
    BY <2>1, <2>2, <2>6 DEF Honest, OnlyMoves, Unspawned, Starting, KillsNext, Alive, At
  <2> QED
    BY <1>2, <2>6, <2>7 DEF OnlyMoves
<1>9. ASSUME NEW t \in Call, Clean(t) PROVE Honesty'
  <2> DEFINE v == call[t].held
             a == IF call[t].op \in {"stop", "delete"} THEN "ok" ELSE "error"
  <2>1. At(t, "clean") /\ call[t].answer = "none"
    BY <1>0, <1>9 DEF Clean, Honesty, Honest, At
  <2>2. v # Nil => proc'[v] = "dead"
    <3>1. v # Nil /\ Head(call[t].todo) = "kill" => proc' = [proc EXCEPT ![v] = "dead"]
      BY <1>9 DEF Clean, RunCommand
    <3>2. v # Nil => Head(call[t].todo) = "kill" \/ proc[v] = "dead"
      BY <2>1 DEF Honesty, Honest, KillsNext, At
    <3>3. v # Nil => v \in Call
      BY <1>0
    <3> HIDE DEF v
    <3> QED
      BY <1>0, <1>1, <3>1, <3>2, <3>3 DEF ProcessesMove
  <2>3. v # t /\ call[t].op \notin {"stop", "delete"} => ~ Alive(t)'
    BY <1>1, <2>1 DEF Honesty, Honest, ProcessesMove, At
  <2>4. /\ OnlyMoves(t) /\ call'[t].held = v
        /\ \/ call'[t].pc = "clean" /\ call'[t].answer = "none"
           \/ call'[t].pc = "done" /\ call'[t].answer = a
    <3>1. CASE Len(call[t].todo) = 1
      BY <1>9, <3>1, HandlerBecomes DEF Clean
    <3>2. CASE Len(call[t].todo) # 1
      BY <1>9, <2>1, <3>2, HandlerBecomes DEF Clean, At
    <3> QED
      BY <3>1, <3>2
  <2>5. call[t].op \in {"stop", "delete"} => ~ Alive(t)'
    BY <1>1, <2>1 DEF Honesty, Honest, ProcessesMove, At
  <2>6. (v = t => ~ Alive(t)') /\ v \in Call \cup {Nil} /\ t # Nil
    BY <1>0, <2>2 DEF Alive
  <2>7. \/ v = t \/ call[t].op \in {"stop", "delete"} \/ v = Nil
    BY <2>1 DEF Honesty, Honest
  <2> HIDE DEF v
  <2>8. Honest(t)'
    BY <2>2, <2>3, <2>4, <2>5, <2>6, <2>7 DEF Honest, OnlyMoves, Unspawned, Starting, At
  <2> QED
    BY <1>2, <2>4, <2>8 DEF OnlyMoves
<1>10. ASSUME Crash \/ HostReboot PROVE Honesty'
  <2>1. \A s \in Call : call'[s] = IF Active(s) THEN [call[s] EXCEPT !.pc = "lost"] ELSE call[s]
    BY <1>10 DEF Crash, HostReboot, ManagerDies
  <2>2. \A s \in Call :
           call'[s] = call[s] \/ (/\ call'[s].pc = "lost" /\ call'[s].op = call[s].op
                                  /\ call'[s].answer = call[s].answer /\ Active(s))
    <3> SUFFICES ASSUME NEW s \in Call, Active(s)
                 PROVE  /\ call'[s].pc = "lost" /\ call'[s].op = call[s].op
                        /\ call'[s].answer = call[s].answer
      BY <2>1
    <3>1. call[s] \in Handler /\ call'[s] = [call[s] EXCEPT !.pc = "lost"]
      BY <1>0, <2>1
    <3> QED
      BY <3>1 DEF Handler
  <2> QED
    BY <1>1, <2>2, RestStaysHonest DEF Honesty
<1>11. ASSUME call' = call PROVE Honesty'
  BY <1>1, <1>11, RestStaysHonest DEF Honesty
<1> QED
  BY <1>3, <1>4, <1>5, <1>6, <1>7, <1>8, <1>9, <1>10, <1>11
  DEF Next, Create, Start, GuestExits, Restart, Finished, vars

\* After a Start that answered with an error its process is gone, after a
\* Stop or Delete the one it took, however the calls overlap.
THEOREM TrueAnswers == Spec => []AnswersAreTrue
<1>1. TypeInv /\ Ownership /\ Honesty => AnswersAreTrue
  BY DEF Honesty, Honest, AnswersAreTrue, KillsNext, Alive, At
<1>2. Init => TypeInv /\ Ownership /\ Honesty
  BY InitTypes, InitOwnership, InitHonesty
<1>3. TypeInv /\ Ownership /\ Honesty /\ [Next]_vars => (TypeInv /\ Ownership /\ Honesty)'
  BY TypesKept, OwnershipKept, HonestyKept
<1> QED
  BY <1>1, <1>2, <1>3, PTL DEF Spec

-----------------------------------------------------------------------------
(* Calls that do not overlap on one instance. The invariant that is        *)
(* inductive says of each instance how the map, the run-state file, what   *)
(* is on the host and the one call under way go together.                  *)

OneAtATime == \A s, t \in Call :
                 Active(s) /\ Active(t) /\ call[s].inst = call[t].inst => s = t
Blank == \A t \in Call : At(t, "new") => call[t].op = "none" /\ call[t].inst = Nil
CreatedFirst == \A t \in Call : ~ At(t, "new") => Created(call[t].inst)
Serial == OneAtATime /\ Blank /\ CreatedFirst

\* A call past its check of the map finds it empty until it registers.
MapFollows(i) ==
    \A t \in Call : call[t].inst = i =>
        /\ Active(t) /\ call[t].pc \notin {"provision", "start", "take", "record"}
               => running[i] = Nil
        /\ At(t, "record") => running[i] = t

\* The run-state file names what is in the map, or what was until a call took it.
MapRecorded(i) ==
    /\ running[i] # Nil => host[i].file = running[i] \/ At(running[i], "record")
    /\ \A t \in Call : call[t].inst = i /\ KillsNext(t) /\ call[t].held \notin {Nil, t}
           => host[i].file = call[t].held

\* Whoever knows of a process that no crash has cut off.
Known(v) == Alive(v) /\ ~ CutOff(v)
LiveKnown(i) ==
    \A v \in Call : call[v].inst = i /\ Known(v) =>
        \/ up /\ running[i] = v
        \/ Active(v)
        \/ \E s \in Call : KillsNext(s) /\ call[s].inst = i /\ call[s].held = v
        \/ ~ up /\ host[i].file = v

\* What a Start has made is still there when it goes on.
WithRules == {"socket", "spawn", "configure", "boot", "register", "record"}
WithTap == WithRules \cup {"forward"}
WithDisk == WithTap \cup {"tap", "addtap"}
StartIntact(i) ==
    \A t \in Call : call[t].inst = i =>
        /\ call[t].pc \in WithDisk => host[i].disk
        /\ call[t].pc \in WithTap => host[i].tap = t
        /\ call[t].pc \in WithRules => host[i].rules > 0

\* A live process that a run-state file names has its tap, a rule and its disk.
RecordedIntact(i) ==
    LET v == host[i].file IN
    v # Nil /\ Alive(v) => host[i].disk /\ host[i].tap = v /\ host[i].rules > 0

\* "kill" is the first command of a clean-up or none of it.
KillsFirst(c) == \A k \in 2 .. Len(c) : c[k] # "kill"

\* How far a Delete is.
DeleteLists == {<<"kill", "net", "socket", "net", "file", "disk">>,
                <<"net", "socket", "net", "file", "disk">>, <<"socket", "net", "file", "disk">>,
                <<"net", "file", "disk">>, <<"file", "disk">>, <<"disk">>}
CleanUpProceeds(i) ==
    \A t \in Call : call[t].inst = i /\ At(t, "clean") =>
        /\ KillsFirst(call[t].todo)
        /\ call[t].op = "delete" =>
              /\ call[t].todo \in DeleteLists
              /\ call[t].todo \in {<<"file", "disk">>, <<"disk">>} => host[i].tap = Nil
              /\ call[t].todo = <<"disk">> => host[i].file = Nil

\* Nothing comes back on an instance that has been deleted.
Deleted(i) == \E t \in Call : call[t].op = "delete" /\ At(t, "done") /\ call[t].inst = i
DeletedStays(i) ==
    Deleted(i) =>
        /\ ~ host[i].disk /\ host[i].tap = Nil /\ host[i].file = Nil /\ running[i] = Nil
        /\ \A t \in Call : Active(t) /\ call[t].inst = i =>
              \/ call[t].pc \in {"start", "disk", "take"}
              \/ At(t, "clean") /\ call[t].op = "delete" /\ call[t].held = Nil

InstanceOK(i) ==
    /\ MapFollows(i) /\ MapRecorded(i) /\ LiveKnown(i) /\ StartIntact(i)
    /\ RecordedIntact(i) /\ CleanUpProceeds(i) /\ DeletedStays(i)
Orderly == Serial /\ \A i \in Instance : InstanceOK(i)

LEMMA InitOrderly == Init => Orderly
<1> SUFFICES ASSUME Init PROVE Orderly
  OBVIOUS
<1>1. /\ \A t \in Call : /\ call[t].pc = "new" /\ call[t].op = "none" /\ call[t].inst = Nil
                         /\ proc[t] = "none"
      /\ \A i \in Instance : running[i] = Nil /\ host[i].file = Nil
  BY DEF Init
<1>2. Nil \notin Instance
  BY NilAssumption
<1>3. \A t \in Call : ~ Active(t) /\ ~ KillsNext(t) /\ ~ Alive(t) /\ ~ At(t, "done")
  BY <1>1 DEF Active, KillsNext, Alive, At
<1>4. Serial
  BY <1>1, <1>3 DEF Serial, OneAtATime, Blank, CreatedFirst, At
<1>5. ASSUME NEW i \in Instance PROVE InstanceOK(i)
  BY <1>1, <1>2, <1>3 DEF InstanceOK, MapFollows, MapRecorded, LiveKnown, Known, StartIntact,
    RecordedIntact, CleanUpProceeds, DeletedStays, Deleted, At
<1> QED
  BY <1>4, <1>5 DEF Orderly

-----------------------------------------------------------------------------
(* Who knows of a live process when a call takes a step *)

\* The process that the run-state file of a busy instance names is in the map
\* or about to be killed, if it lives.
LEMMA RecordedLive ==
    ASSUME TypeInv, Ownership, NEW i \in Instance, LiveKnown(i), OneAtATime,
           NEW t \in Call, Active(t), call[t].inst = i,
           host[i].file # Nil, Alive(host[i].file)
    PROVE  \/ running[i] = host[i].file
           \/ KillsNext(t) /\ call[t].held = host[i].file
<1> DEFINE v == host[i].file
<1>1. v \in Call
  BY DEF TypeInv, TypeOK, Host
<1>2. call[v].inst = i /\ Ended(v)
  BY DEF Ownership, FilesOwned
<1>3. Known(v) /\ ~ Active(v)
  BY <1>2 DEF Known, CutOff, Active, Ended
<1>4. up
  BY DEF Ownership, DownIsQuiet
<1>5. ASSUME NEW s \in Call, KillsNext(s), call[s].inst = i PROVE s = t
  BY <1>5 DEF OneAtATime, KillsNext, Active, At
<1> QED
  BY <1>1, <1>2, <1>3, <1>4, <1>5 DEF LiveKnown

\* Nobody but the moving call can have lost sight of a process.
LEMMA OthersKnown ==
    ASSUME TypeInv, Ownership, ProcessesMove, NEW i \in Instance, LiveKnown(i), OneAtATime,
           NEW t \in Call, Active(t), call[t].inst = i, OnlyMoves(t),
           host'[i].file \in {host[i].file, Nil, t},
           NEW v \in Call, v # t, call[v].inst = i, Known(v)'
    PROVE  running[i] = v \/ (KillsNext(t) /\ call[t].held = v)
<1>1. call'[v] = call[v] /\ v # Nil
  BY NilAssumption DEF OnlyMoves
<1>2. ~ Active(v)
  BY DEF OneAtATime
<1>3. Alive(v)
  BY <1>1 DEF ProcessesMove, Known, At
<1>4. Known(v)
  BY <1>1, <1>3 DEF Known, CutOff, At
<1>5. up
  BY DEF Ownership, DownIsQuiet
<1>6. ASSUME NEW s \in Call, KillsNext(s), call[s].inst = i PROVE s = t
  BY <1>6 DEF OneAtATime, KillsNext, Active, At
<1> QED
  BY <1>2, <1>4, <1>5, <1>6 DEF LiveKnown

\* A step that concerns other instances, or only lets processes die.
LEMMA OtherInstances ==
    ASSUME TypeInv, Ownership, ProcessesMove, NEW i \in Instance, InstanceOK(i),
           host'[i] = host[i], running'[i] = running[i], up' = up,
           \A t \in Call : call[t].inst = i \/ call'[t].inst = i => call'[t] = call[t]
    PROVE  InstanceOK(i)'
<1> USE NilAssumption
<1>0. /\ host[i].file \in Call \cup {Nil} /\ running[i] \in Call \cup {Nil}
  BY DEF TypeInv, TypeOK, Host
<1>1. \A t \in Call : call'[t].inst = i <=> call[t].inst = i
  OBVIOUS
<1>2. \A v \in Call : call[v].inst = i /\ Alive(v)' => Alive(v)
  BY DEF ProcessesMove, At
<1>3. MapFollows(i)' /\ StartIntact(i)' /\ CleanUpProceeds(i)'
  BY <1>1 DEF InstanceOK, MapFollows, StartIntact, CleanUpProceeds, Active, At
<1>4. MapRecorded(i)'
  <2>1. running[i] # Nil => call[running[i]].inst = i
    BY DEF Ownership, MapOwned
  <2> QED
    BY <1>0, <1>1, <2>1 DEF InstanceOK, MapRecorded, KillsNext, At
<1>5. LiveKnown(i)'
  <2>1. \A v \in Call : call[v].inst = i /\ Known(v)' => Known(v)
    BY <1>1, <1>2 DEF Known, CutOff, At
  <2> QED
    BY <1>1, <2>1 DEF InstanceOK, LiveKnown, KillsNext, Active, At
<1>6. RecordedIntact(i)'
  <2>1. host[i].file # Nil => call[host[i].file].inst = i
    BY DEF Ownership, FilesOwned
  <2> QED
    BY <1>0, <1>2, <2>1 DEF InstanceOK, RecordedIntact
<1>7. DeletedStays(i)'
  BY <1>1 DEF InstanceOK, DeletedStays, Deleted, Active, At
<1> QED
  BY <1>3, <1>4, <1>5, <1>6, <1>7 DEF InstanceOK

-----------------------------------------------------------------------------
(* The steps of a call that neither enter a process into the map nor take  *)
(* one off it, and that leave the run-state file alone.                    *)

Prepares(t) ==
    LET i == call[t].inst IN
    /\ Active(t) /\ call[t].pc \notin {"record", "clean"}
    /\ OnlyMoves(t) /\ UNCHANGED <<running, up>>
    /\ \A j \in Instance : j # i => host'[j] = host[j]
    /\ host'[i].file = host[i].file
    /\ call'[t].pc \in (WithDisk \ {"record"}) \cup {"start", "disk", "clean", "done"}
    /\ call'[t].pc \notin {"start", "done"} => running[i] = Nil
    /\ call'[t].pc = "done" => ~ Alive(t)' /\ call[t].op # "delete"
    /\ call'[t].pc = "clean" =>
          /\ KillsFirst(call'[t].todo)
          /\ Head(call'[t].todo) = "kill" => call'[t].held = t
          /\ call[t].op = "delete" => call'[t].todo = DeleteAnyway
    /\ call'[t].pc \in WithDisk => host'[i].disk
    /\ call'[t].pc \in WithTap => host'[i].tap = t
    /\ call'[t].pc \in WithRules => host'[i].rules > 0
    /\ running[i] # Nil =>
          /\ host[i].disk => host'[i].disk
          /\ host'[i].tap = host[i].tap /\ host'[i].rules = host[i].rules
    /\ Deleted(i) =>
          /\ host'[i] = host[i]
          /\ \/ call'[t].pc \in {"disk", "done"}
             \/ call'[t].pc = "clean" /\ call[t].op = "delete" /\ call'[t].held = Nil

LEMMA PreparingKeeps ==
    ASSUME TypeInv, Ownership, ProcessesMove, Orderly, NEW t \in Call, Prepares(t)
    PROVE  \A i \in Instance : InstanceOK(i)'
<1> USE NilAssumption
<1>a. PICK i \in Instance : i = call[t].inst
  BY DEF Prepares, TypeInv, HasInstance, Active, At
<1>0. /\ i = call[t].inst /\ InstanceOK(i) /\ OneAtATime
      /\ \A s \in Call : s # t => call'[s] = call[s]
      /\ call'[t].op = call[t].op /\ call'[t].inst = i /\ Active(t)
      /\ running' = running /\ up' = up /\ host'[i].file = host[i].file
      /\ running[i] \in Call \cup {Nil} /\ host[i].file \in Call \cup {Nil}
      /\ up
  <2>1. running[i] \in Call \cup {Nil} /\ host[i].file \in Call \cup {Nil}
    BY DEF TypeInv, TypeOK, Host
  <2> QED
    BY <1>a, <2>1 DEF Prepares, OnlyMoves, Orderly, Serial, Ownership, DownIsQuiet
<1>1. ASSUME NEW j \in Instance, j # i PROVE InstanceOK(j)'
  <2>1. host'[j] = host[j]
    BY <1>0, <1>1 DEF Prepares
  <2>2. \A s \in Call : call[s].inst = j \/ call'[s].inst = j => call'[s] = call[s]
    BY <1>0, <1>1
  <2> QED
    BY <1>0, <2>1, <2>2, OtherInstances DEF Orderly
<1>2. \A s \in Call : s # t /\ call'[s].inst = i =>
           ~ Active(s) /\ ~ Active(s)' /\ ~ At(s, "record")' /\ ~ At(s, "clean")'
  BY <1>0 DEF OneAtATime, Active, At
<1>3. MapFollows(i)'
  BY <1>0, <1>2 DEF MapFollows, Prepares, Active, At, WithDisk, WithTap, WithRules
<1>4. MapRecorded(i)'
  <2>1. running[i] # Nil => host[i].file = running[i]
    <3>1. running[i] # Nil => call[running[i]].inst = i
      BY <1>0 DEF Ownership, MapOwned
    <3>2. running[i] # Nil => ~ At(running[i], "record")
      BY <1>0, <3>1 DEF OneAtATime, Prepares, Active, At
    <3> QED
      BY <1>0, <3>2 DEF InstanceOK, MapRecorded
  <2>2. KillsNext(t)' => call'[t].held = t
    BY DEF Prepares, KillsNext, At
  <2> QED
    BY <1>0, <1>2, <2>1, <2>2 DEF MapRecorded, KillsNext
<1>5. ~ KillsNext(t)
  BY DEF Prepares, KillsNext, At
<1>6. LiveKnown(i)'
  <2>1. ASSUME NEW v \in Call, v # t, call'[v].inst = i, Known(v)' PROVE running'[i] = v
    BY <1>0, <1>5, <2>1, OthersKnown DEF InstanceOK, Prepares
  <2>2. Known(t)' => Active(t)'
    BY DEF Prepares, Known, Active, At, WithDisk, WithTap, WithRules
  <2> QED
    BY <1>0, <2>1, <2>2 DEF LiveKnown
<1>7. StartIntact(i)'
  <2>1. \A s \in Call : s # t /\ call'[s].inst = i => call'[s].pc \notin WithDisk
    BY <1>2 DEF Active, At, WithDisk, WithTap, WithRules
  <2>2. WithRules \subseteq WithDisk /\ WithTap \subseteq WithDisk
    BY DEF WithDisk, WithTap
  <2>3. /\ call'[t].pc \in WithDisk => host'[i].disk
        /\ call'[t].pc \in WithTap => host'[i].tap = t
        /\ call'[t].pc \in WithRules => host'[i].rules > 0
    BY <1>0 DEF Prepares
  <2> QED
    BY <2>1, <2>2, <2>3 DEF StartIntact
<1>8. RecordedIntact(i)'
  <2> SUFFICES ASSUME host[i].file # Nil, Alive(host[i].file)'
               PROVE  host'[i].disk /\ host'[i].tap = host[i].file /\ host'[i].rules > 0
    BY <1>0 DEF RecordedIntact
  <2>1. Ended(host[i].file)
    BY <1>0 DEF Ownership, FilesOwned
  <2>2. Alive(host[i].file)
    BY <1>0, <2>1 DEF ProcessesMove, Ended, At
  <2>3. running[i] = host[i].file
    BY <1>0, <1>5, <2>2, RecordedLive DEF InstanceOK
  <2> QED
    BY <1>0, <2>2, <2>3 DEF InstanceOK, RecordedIntact, Prepares
<1>9. CleanUpProceeds(i)'
  <2>1. \A s \in Call : call'[s].inst = i /\ At(s, "clean")' => s = t
    BY <1>2
  <2>2. /\ DeleteAnyway \in DeleteLists
        /\ DeleteAnyway \notin {<<"file", "disk">>, <<"disk">>}
    BY DEF DeleteAnyway, DeleteLists
  <2>3. At(t, "clean")' => /\ KillsFirst(call'[t].todo)
                           /\ call'[t].op = "delete" => call'[t].todo = DeleteAnyway
    BY <1>0 DEF Prepares, At
  <2> QED
    BY <2>1, <2>2, <2>3 DEF CleanUpProceeds
<1>10. DeletedStays(i)'
  <2>1. Deleted(i)' => Deleted(i)
    BY <1>0 DEF Deleted, Prepares, At
  <2> QED
    BY <1>0, <1>2, <2>1 DEF InstanceOK, DeletedStays, Prepares, Active, At
<1>11. InstanceOK(i)'
  BY <1>0, <1>3, <1>4, <1>6, <1>7, <1>8, <1>9, <1>10 DEF InstanceOK
<1> QED
  BY <1>1, <1>11

LEMMA PreparingSteps ==
    ASSUME TypeInv, Ownership, Honesty, ProcessesMove, Orderly, NEW t \in Call,
           \/ Provision(t) \/ ProvisionFails(t) \/ StartBegins(t) \/ CheckDisk(t)
           \/ ClearTap(t) \/ AddTap(t) \/ AddTapFails(t) \/ AddForward(t)
           \/ AddForwardFails(t) \/ RemoveSocket(t) \/ Spawn(t) \/ SpawnFails(t)
           \/ Configure(t) \/ Boot(t) \/ BootFails(t) \/ StopFindsNothing(t)
           \/ DeleteFindsNothing(t)
    PROVE  Prepares(t)
<1> USE NilAssumption
<1>a. PICK i \in Instance : i = call[t].inst
  BY DEF TypeInv, HasInstance, At, Provision, ProvisionFails, StartBegins, CheckDisk, ClearTap,
    AddTap, AddTapFails, AddForward, AddForwardFails, RemoveSocket, Spawn, SpawnFails,
    Configure, Boot, BootFails, StopFindsNothing, DeleteFindsNothing
<1>0. /\ i = call[t].inst /\ call \in [Call -> Handler] /\ host \in [Instance -> Host]
      /\ host[i] \in Host /\ proc \in [Call -> ProcessStates]
  BY <1>a DEF TypeInv, TypeOK
<1>1. /\ call[t].pc \in Starting => call[t].op \in {"create", "start"}
      /\ call[t].op \in {"stop", "delete"} => ~ Alive(t)'
      /\ call[t].pc \in Unspawned /\ call[t].pc # "spawn" => ~ Alive(t)'
  BY DEF Honesty, Honest, ProcessesMove, Unspawned, Starting, Alive, At
<1>2. /\ Active(t) /\ call[t].pc \notin {"provision", "start", "take", "record"}
             => running[i] = Nil
      /\ call[t].pc \in WithDisk => host[i].disk
      /\ call[t].pc \in WithTap => host[i].tap = t
      /\ call[t].pc \in WithRules => host[i].rules > 0
      /\ Deleted(i) /\ Active(t) /\ call[t].pc # "clean" =>
            ~ host[i].disk /\ running[i] = Nil /\ call[t].pc \in {"start", "disk", "take"}
  BY <1>0 DEF Orderly, InstanceOK, MapFollows, StartIntact, DeletedStays, At
<1>3. /\ KillsFirst(OnFailure) /\ KillsFirst(DeleteAnyway)
      /\ KillsFirst(<<"tap">>) /\ KillsFirst(<<"net">>)
      /\ Head(<<"tap">>) # "kill" /\ Head(<<"net">>) # "kill"
  BY DEF KillsFirst, OnFailure, DeleteAnyway
<1>4. \A p \in PCs : Goto(t, p) => OnlyMoves(t) /\ call'[t].pc = p
  BY HandlerBecomes
<1>5. \A a \in {"ok", "error"} : Answer(t, a) => OnlyMoves(t) /\ call'[t].pc = "done"
  BY HandlerBecomes
<1>6. ASSUME Provision(t) PROVE Prepares(t)
  <2>1. At(t, "provision") /\ UNCHANGED <<running, up>> /\ OnlyMoves(t) /\ call'[t].pc = "start"
    BY <1>4, <1>6 DEF Provision, PCs
  <2>2. /\ \A j \in Instance : j # i => host'[j] = host[j]
        /\ host'[i] = [host[i] EXCEPT !.disk = TRUE]
    BY <1>0, <1>6 DEF Provision, SetHost
  <2>3. /\ host'[i].file = host[i].file /\ host'[i].tap = host[i].tap
        /\ host'[i].rules = host[i].rules /\ host'[i].disk
    BY <1>0, <2>2 DEF Host
  <2> QED
    BY <1>0, <1>2, <2>1, <2>2, <2>3
    DEF Prepares, Active, At, WithDisk, WithTap, WithRules
<1>7. ASSUME ProvisionFails(t) \/ StartBegins(t) \/ CheckDisk(t) PROVE Prepares(t)
  <2>1. /\ call[t].pc \in {"provision", "start", "disk"} /\ UNCHANGED <<host, running, up>>
        /\ call[t].pc \in Starting /\ ~ Alive(t)'
    BY <1>1, <1>7 DEF ProvisionFails, StartBegins, CheckDisk, Starting, Unspawned, At
  <2>2. \/ Answer(t, "ok") \/ Answer(t, "error")
        \/ At(t, "start") /\ running[i] = Nil /\ Goto(t, "disk")
        \/ At(t, "disk") /\ host[i].disk /\ Goto(t, "tap")
    BY <1>0, <1>7 DEF ProvisionFails, StartBegins, CheckRunning, CheckDisk
  <2>3. /\ OnlyMoves(t)
        /\ \/ call'[t].pc = "done"
           \/ At(t, "start") /\ running[i] = Nil /\ call'[t].pc = "disk"
           \/ At(t, "disk") /\ host[i].disk /\ call'[t].pc = "tap"
    BY <1>4, <1>5, <2>2 DEF PCs
  <2> QED
    BY <1>0, <1>1, <1>2, <2>1, <2>3
    DEF Prepares, Active, At, WithDisk, WithTap, WithRules
<1>8. ASSUME ClearTap(t) \/ AddTap(t) \/ AddTapFails(t) PROVE Prepares(t)
  <2>1. /\ call[t].pc \in {"tap", "addtap"} /\ UNCHANGED <<running, up>>
        /\ call[t].pc \in Starting /\ ~ Alive(t)'
    BY <1>1, <1>8 DEF ClearTap, AddTap, AddTapFails, Starting, Unspawned, At
  <2>2. /\ \A j \in Instance : j # i => host'[j] = host[j]
        /\ host'[i].file = host[i].file /\ host'[i].disk = host[i].disk
    BY <1>0, <1>8 DEF ClearTap, AddTap, AddTapFails, SetHost, Host
  <2>3. /\ OnlyMoves(t)
        /\ \/ call'[t].pc = "addtap"
           \/ call'[t].pc = "forward" /\ host'[i].tap = t
           \/ call'[t].pc = "done"
    BY <1>0, <1>4, <1>5, <1>8 DEF ClearTap, AddTap, AddTapFails, SetHost, Host, PCs
  <2> QED
    BY <1>0, <1>1, <1>2, <2>1, <2>2, <2>3
    DEF Prepares, Active, At, WithDisk, WithTap, WithRules
<1>9. ASSUME AddForward(t) \/ RemoveSocket(t) PROVE Prepares(t)
  <2>1. call[t].pc \in {"forward", "socket"} /\ UNCHANGED <<running, up>>
    BY <1>9 DEF AddForward, RemoveSocket, At
  <2>2. /\ \A j \in Instance : j # i => host'[j] = host[j]
        /\ host'[i].file = host[i].file /\ host'[i].disk = host[i].disk
        /\ host'[i].tap = host[i].tap
        /\ IF At(t, "forward") THEN host'[i].rules = host[i].rules + 1
                               ELSE host'[i].rules = host[i].rules
    BY <1>0, <1>9 DEF AddForward, RemoveSocket, SetHost, Host, At
  <2>3. host[i].rules \in Nat
    BY <1>0 DEF Host
  <2>4. /\ OnlyMoves(t)
        /\ call'[t].pc \in {"socket", "spawn"}
    BY <1>4, <1>9 DEF AddForward, RemoveSocket, PCs
  <2>5. host'[i].rules > 0 /\ host'[i].tap = t /\ host'[i].disk /\ running[i] = Nil
    BY <1>2, <2>1, <2>2, <2>3 DEF Active, At, WithDisk, WithTap, WithRules
  <2> QED
    BY <1>0, <1>2, <2>1, <2>2, <2>4, <2>5
    DEF Prepares, Active, At, WithDisk, WithTap, WithRules
<1>10. ASSUME Spawn(t) \/ Configure(t) \/ Boot(t) PROVE Prepares(t)
  <2>1. call[t].pc \in {"spawn", "configure", "boot"} /\ UNCHANGED <<running, up>>
    BY <1>10 DEF Spawn, Configure, Boot, At
  <2>2. /\ \A j \in Instance : j # i => host'[j] = host[j]
        /\ host'[i].file = host[i].file /\ host'[i].disk = host[i].disk
        /\ host'[i].tap = host[i].tap /\ host'[i].rules = host[i].rules
    BY <1>0, <1>10 DEF Spawn, Configure, Boot, SetHost, Host
  <2>3. OnlyMoves(t) /\ call'[t].pc \in {"configure", "boot", "register"}
    BY <1>4, <1>10 DEF Spawn, Configure, Boot, PCs
  <2> QED
    BY <1>0, <1>2, <2>1, <2>2, <2>3
    DEF Prepares, Active, At, WithDisk, WithTap, WithRules
<1>11. ASSUME AddForwardFails(t) \/ SpawnFails(t) \/ BootFails(t) PROVE Prepares(t)
  <2>1. /\ call[t].pc \in {"forward", "spawn", "configure", "boot"} /\ UNCHANGED <<running, up>>
        /\ call[t].pc \in Starting
    BY <1>11 DEF AddForwardFails, SpawnFails, BootFails, Starting, Unspawned, At
  <2>2. /\ \A j \in Instance : j # i => host'[j] = host[j]
        /\ host'[i].file = host[i].file
    BY <1>0, <1>11 DEF AddForwardFails, SpawnFails, BootFails, Host
  <2>3. /\ OnlyMoves(t) /\ call'[t].pc = "clean"
        /\ KillsFirst(call'[t].todo)
        /\ Head(call'[t].todo) = "kill" => call'[t].held = t
    <3>1. CASE CleanUp(t, Nil, <<"tap">>) \/ CleanUp(t, Nil, <<"net">>)
      <4>1. PICK c \in Seq(Commands) : CleanUp(t, Nil, c) /\ KillsFirst(c) /\ Head(c) # "kill"
        BY <1>3, <3>1, CommandLists
      <4> QED
        BY <4>1, HandlerBecomes
    <3>2. CASE CleanUp(t, t, OnFailure)
      BY <1>3, <3>2, HandlerBecomes, CommandLists
    <3> QED
      BY <1>11, <3>1, <3>2 DEF AddForwardFails, SpawnFails, BootFails
  <2> QED
    BY <1>0, <1>1, <1>2, <2>1, <2>2, <2>3
    DEF Prepares, Active, At, WithDisk, WithTap, WithRules
<1>12. ASSUME StopFindsNothing(t) \/ DeleteFindsNothing(t) PROVE Prepares(t)
  <2>1. /\ At(t, "take") /\ UNCHANGED <<host, running, up>> /\ running[i] = Nil
        /\ call[t].op \in {"stop", "delete"}
        /\ \/ call[t].op = "stop" /\ Answer(t, "ok")
           \/ CleanUp(t, Nil, DeleteAnyway) /\ call[t].op = "delete"
    BY <1>0, <1>12 DEF StopFindsNothing, DeleteFindsNothing
  <2>2. /\ OnlyMoves(t)
        /\ \/ call[t].op = "stop" /\ call'[t].pc = "done"
           \/ /\ call'[t].pc = "clean" /\ call[t].op = "delete" /\ call'[t].held = Nil
              /\ call'[t].todo = DeleteAnyway
    BY <1>5, <2>1, HandlerBecomes, CommandLists
  <2>3. Head(DeleteAnyway) # "kill"
    BY DEF DeleteAnyway
  <2> QED
    BY <1>0, <1>1, <1>2, <1>3, <2>1, <2>2, <2>3
    DEF Prepares, Active, At, WithDisk, WithTap, WithRules
<1> QED
  BY <1>6, <1>7, <1>8, <1>9, <1>10, <1>11, <1>12

-----------------------------------------------------------------------------
(* The other steps of a call *)

\* A call begins when none runs on the instance.
LEMMA BeginKeeps ==
    ASSUME ~ Overlap, TypeInv, Ownership, Honesty, ProcessesMove, Orderly,
           NEW t \in Call, NEW o \in Ops, NEW i \in Instance, Begin(t, o, i)
    PROVE  Orderly'
<1> USE NilAssumption
<1>1. call' = [call EXCEPT ![t] = [call[t] EXCEPT !.op = o, !.inst = i, !.pc = FirstStep[o]]]
  BY DEF Begin
<1>2. /\ \A s \in Call : s # t => call'[s] = call[s]
      /\ call'[t].op = o /\ call'[t].inst = i /\ call'[t].pc = FirstStep[o]
  BY <1>1 DEF TypeInv, TypeOK, Handler
<1>3. /\ At(t, "new") /\ call[t].op = "none" /\ call[t].inst = Nil /\ Nil \notin Instance
      /\ UNCHANGED <<proc, host, up, running>> /\ up /\ ~ Busy(i)
      /\ o = "create" <=> ~ Created(i)
  BY DEF Begin, Orderly, Serial, Blank
<1>4. /\ FirstStep[o] \in {"provision", "start", "take"}
      /\ FirstStep[o] = "provision" => o = "create"
  BY DEF FirstStep, Ops
<1>5. \A s \in Call : s # t /\ call[s].inst = i => ~ Active(s) /\ ~ KillsNext(s)
  BY <1>3 DEF Busy, Active, KillsNext, At
<1>6. Serial'
  <2>1. OneAtATime'
    BY <1>2, <1>5 DEF Orderly, Serial, OneAtATime, Active, At
  <2>2. Blank'
    BY <1>2, <1>4 DEF Orderly, Serial, Blank, At
  <2>3. ASSUME NEW j, Created(j)
        PROVE  \E u \in Call : call'[u].op = "create" /\ call'[u].inst = j
    BY <1>2, <1>3, <2>3 DEF Created
  <2>4. \E u \in Call : call'[u].op = "create" /\ call'[u].inst = i
    BY <1>2, <1>3, <2>3
  <2>5. ASSUME NEW s \in Call, ~ At(s, "new")'
        PROVE  \E u \in Call : call'[u].op = "create" /\ call'[u].inst = call'[s].inst
    <3>1. CASE s = t
      BY <1>2, <2>4, <3>1
    <3>2. CASE s # t
      <4>1. call'[s] = call[s] /\ Created(call[s].inst)
        BY <1>2, <2>5, <3>2 DEF Orderly, Serial, CreatedFirst, At
      <4> QED
        BY <2>3, <4>1
    <3> QED
      BY <3>1, <3>2
  <2>6. CreatedFirst'
    BY <2>5 DEF CreatedFirst, Created
  <2> QED
    BY <2>1, <2>2, <2>6 DEF Serial
<1>7. ASSUME NEW j \in Instance, j # i PROVE InstanceOK(j)'
  BY <1>2, <1>3, <1>7, OtherInstances DEF Orderly
<1>8. InstanceOK(i)'
  <2>0. InstanceOK(i) /\ \A s \in Call : s # t => (call'[s].inst = i <=> call[s].inst = i)
    BY <1>2 DEF Orderly
  <2>1. MapFollows(i)' /\ StartIntact(i)' /\ CleanUpProceeds(i)'
    BY <1>2, <1>4, <1>5, <2>0
    DEF InstanceOK, MapFollows, StartIntact, CleanUpProceeds, Active, At, WithDisk, WithTap,
      WithRules
  <2>2. running[i] \in Call \cup {Nil} /\ ~ Alive(t)
    BY <1>3 DEF TypeInv, TypeOK, Honesty, Honest, Unspawned, Alive, At
  <2>3. MapRecorded(i)'
    <3>1. running[i] # Nil => running[i] # t
      BY <1>3 DEF Ownership, MapOwned, Entered, Ended, At
    <3> QED
      BY <1>2, <1>3, <1>4, <1>5, <2>0, <2>2, <3>1 DEF InstanceOK, MapRecorded, KillsNext, At
  <2>4. LiveKnown(i)'
    <3>1. \A v \in Call : v # t /\ call'[v].inst = i /\ Known(v)' => running[i] = v
      BY <1>2, <1>3, <1>5, <2>0
      DEF InstanceOK, LiveKnown, Known, CutOff, Alive, KillsNext, At
    <3>2. ~ Known(t)'
      BY <1>3, <2>2 DEF Known, Alive
    <3> QED
      BY <1>3, <3>1, <3>2 DEF LiveKnown
  <2>5. RecordedIntact(i)'
    BY <1>3, <2>0 DEF InstanceOK, RecordedIntact, Alive
  <2>6. DeletedStays(i)'
    <3>1. Deleted(i)' => Deleted(i)
      BY <1>2, <1>4 DEF Deleted, At
    <3>2. Deleted(i) => Created(i)
      BY DEF Orderly, Serial, CreatedFirst, Deleted, At
    <3> QED
      BY <1>2, <1>3, <1>4, <1>5, <2>0, <3>1, <3>2 DEF InstanceOK, DeletedStays, Active, At
  <2> QED
    BY <2>1, <2>3, <2>4, <2>5, <2>6 DEF InstanceOK
<1> QED
  BY <1>6, <1>7, <1>8 DEF Orderly

\* The map gets an entry.
LEMMA RegisterKeeps ==
    ASSUME TypeInv, Ownership, Honesty, ProcessesMove, Orderly, NEW t \in Call, Register(t)
    PROVE  \A i \in Instance : InstanceOK(i)'
<1> USE NilAssumption
<1>a. PICK i \in Instance : i = call[t].inst
  BY DEF TypeInv, HasInstance, Register, At
<1>1. /\ OnlyMoves(t) /\ call'[t].pc = "record" /\ call'[t].inst = i /\ At(t, "register")
      /\ Active(t) /\ UNCHANGED <<proc, host, up>> /\ up /\ call'[t].op = call[t].op
      /\ \A s \in Call : s # t => call'[s] = call[s]
  BY <1>a, HandlerBecomes
  DEF Register, PCs, OnlyMoves, Ownership, DownIsQuiet, Active, At
<1>2. running'[i] = t /\ \A j \in Instance : j # i => running'[j] = running[j]
  BY <1>a DEF Register, TypeInv, TypeOK
<1>3. /\ InstanceOK(i) /\ OneAtATime /\ running[i] = Nil /\ ~ KillsNext(t) /\ ~ Deleted(i)
      /\ host[i].disk /\ host[i].tap = t /\ host[i].rules > 0
  <2>1. InstanceOK(i) /\ OneAtATime
    BY DEF Orderly, Serial
  <2> QED
    BY <1>a, <1>1, <2>1 DEF InstanceOK, MapFollows, StartIntact, DeletedStays, KillsNext, At,
      WithDisk, WithTap, WithRules
<1>4. ASSUME NEW j \in Instance, j # i PROVE InstanceOK(j)'
  BY <1>a, <1>1, <1>2, <1>4, OtherInstances DEF Orderly
<1>5. \A s \in Call : s # t /\ call'[s].inst = i => ~ Active(s) /\ ~ Active(s)' /\ ~ KillsNext(s)'
  BY <1>a, <1>1, <1>3 DEF OneAtATime, Active, KillsNext, At
<1>6. MapFollows(i)' /\ StartIntact(i)' /\ CleanUpProceeds(i)'
  BY <1>1, <1>2, <1>3, <1>5
  DEF MapFollows, StartIntact, CleanUpProceeds, Active, At, WithDisk, WithTap, WithRules
<1>7. MapRecorded(i)'
  BY <1>1, <1>2, <1>5 DEF MapRecorded, KillsNext, At
<1>8. LiveKnown(i)'
  <2>1. ASSUME NEW v \in Call, v # t, call'[v].inst = i, Known(v)' PROVE FALSE
    BY <1>a, <1>1, <1>3, <2>1, OthersKnown DEF InstanceOK
  <2> QED
    BY <1>1, <2>1 DEF LiveKnown, Active, At
<1>9. RecordedIntact(i)'
  BY <1>1, <1>3 DEF InstanceOK, RecordedIntact, Alive
<1>10. DeletedStays(i)'
  BY <1>1, <1>3 DEF DeletedStays, Deleted, At
<1>11. InstanceOK(i)'
  BY <1>6, <1>7, <1>8, <1>9, <1>10 DEF InstanceOK
<1> QED
  BY <1>4, <1>11

\* The run-state file is written.
LEMMA RecordKeeps ==
    ASSUME TypeInv, Ownership, Honesty, ProcessesMove, Orderly, NEW t \in Call, Record(t)
    PROVE  \A i \in Instance : InstanceOK(i)'
<1> USE NilAssumption
<1>a. PICK i \in Instance : i = call[t].inst
  BY DEF TypeInv, HasInstance, Record, At
<1>1. /\ OnlyMoves(t) /\ call'[t].pc = "done" /\ call'[t].inst = i /\ At(t, "record")
      /\ Active(t) /\ UNCHANGED <<proc, running, up>> /\ up /\ call'[t].op = call[t].op
      /\ \A s \in Call : s # t => call'[s] = call[s]
  BY <1>a, HandlerBecomes
  DEF Record, OnlyMoves, Ownership, DownIsQuiet, Active, At
<1>2. /\ host'[i].file = t /\ host'[i].disk = host[i].disk /\ host'[i].tap = host[i].tap
      /\ host'[i].rules = host[i].rules
      /\ \A j \in Instance : j # i => host'[j] = host[j]
  BY <1>a DEF Record, WriteRunState, SetHost, TypeInv, TypeOK, Host
<1>3. /\ InstanceOK(i) /\ OneAtATime /\ running[i] = t /\ ~ KillsNext(t) /\ ~ Deleted(i)
      /\ host[i].disk /\ host[i].tap = t /\ host[i].rules > 0
      /\ call[t].op # "delete"
  <2>1. InstanceOK(i) /\ OneAtATime
    BY DEF Orderly, Serial
  <2>2. call[t].op # "delete"
    BY <1>1 DEF Honesty, Honest, Starting, At
  <2> QED
    BY <1>a, <1>1, <2>1, <2>2 DEF InstanceOK, MapFollows, StartIntact, DeletedStays, KillsNext,
      At, WithDisk, WithTap, WithRules
<1>4. ASSUME NEW j \in Instance, j # i PROVE InstanceOK(j)'
  BY <1>a, <1>1, <1>2, <1>4, OtherInstances DEF Orderly
<1>5. \A s \in Call : call'[s].inst = i => ~ Active(s)' /\ ~ KillsNext(s)'
  BY <1>a, <1>1, <1>3 DEF OneAtATime, Active, KillsNext, At
<1>6. MapFollows(i)' /\ StartIntact(i)' /\ CleanUpProceeds(i)'
  BY <1>5 DEF MapFollows, StartIntact, CleanUpProceeds, Active, At, WithDisk, WithTap, WithRules
<1>7. MapRecorded(i)'
  BY <1>1, <1>2, <1>3, <1>5 DEF MapRecorded
<1>8. LiveKnown(i)'
  <2>1. ASSUME NEW v \in Call, v # t, call'[v].inst = i, Known(v)' PROVE FALSE
    BY <1>a, <1>1, <1>2, <1>3, <2>1, OthersKnown DEF InstanceOK
  <2> QED
    BY <1>1, <1>3, <2>1 DEF LiveKnown
<1>9. RecordedIntact(i)'
  BY <1>2, <1>3 DEF RecordedIntact
<1>10. DeletedStays(i)'
  BY <1>1, <1>3 DEF DeletedStays, Deleted, At
<1>11. InstanceOK(i)'
  BY <1>6, <1>7, <1>8, <1>9, <1>10 DEF InstanceOK
<1> QED
  BY <1>4, <1>11

\* The whole list of commands of a Delete that found its instance running.
LEMMA WholeDelete ==
    <<"kill", "net", "socket">> \o DeleteAnyway = <<"kill", "net", "socket", "net", "file", "disk">>
<1> DEFINE c == <<"kill", "net", "socket">> \o DeleteAnyway
           d == <<"kill", "net", "socket", "net", "file", "disk">>
<1>1. /\ <<"kill", "net", "socket">> \in Seq(Commands) /\ DeleteAnyway \in Seq(Commands)
      /\ d \in Seq(Commands) /\ Len(d) = 6
  BY DEF Commands, DeleteAnyway
<1>2. c \in Seq(Commands) /\ Len(c) = 6
  BY <1>1 DEF DeleteAnyway
<1>3. /\ c[1] = "kill" /\ c[2] = "net" /\ c[3] = "socket"
      /\ c[4] = "net" /\ c[5] = "file" /\ c[6] = "disk"
  BY DEF DeleteAnyway
<1>4. /\ d[1] = "kill" /\ d[2] = "net" /\ d[3] = "socket"
      /\ d[4] = "net" /\ d[5] = "file" /\ d[6] = "disk"
  OBVIOUS
<1> HIDE DEF c, d
<1>5. \A k \in 1 .. 6 : k \in {1, 2, 3, 4, 5, 6}
  OBVIOUS
<1>6. \A k \in 1 .. 6 : c[k] = d[k]
  BY <1>3, <1>4, <1>5
<1>7. c = d
  BY <1>1, <1>2, <1>6
<1> QED
  BY <1>7 DEF c, d

\* The map loses an entry.
LEMMA TakingKeeps ==
    ASSUME TypeInv, Ownership, Honesty, ProcessesMove, Orderly, NEW t \in Call,
           StopTakes(t) \/ DeleteTakes(t)
    PROVE  \A i \in Instance : InstanceOK(i)'
<1> USE NilAssumption
<1>a. PICK i \in Instance : i = call[t].inst
  BY DEF TypeInv, HasInstance, StopTakes, DeleteTakes, At
<1> DEFINE r == running[i]
           stop == <<"kill", "net", "socket", "file">>
           delete == <<"kill", "net", "socket">> \o DeleteAnyway
<1>1. /\ At(t, "take") /\ Active(t) /\ UNCHANGED <<proc, host, up>> /\ up /\ r # Nil
      /\ r \in Call
      /\ \/ call[t].op = "stop" /\ CleanUp(t, r, stop)
         \/ call[t].op = "delete" /\ CleanUp(t, r, delete)
  <2>1. r \in Call \cup {Nil}
    BY DEF TypeInv, TypeOK
  <2> QED
    BY <1>a, <2>1 DEF StopTakes, DeleteTakes, Ownership, DownIsQuiet, Active, At
<1>2. running'[i] = Nil /\ \A j \in Instance : j # i => running'[j] = running[j]
  BY <1>a DEF StopTakes, DeleteTakes, Forget, TypeInv, TypeOK
<1>3. /\ delete = <<"kill", "net", "socket", "net", "file", "disk">>
      /\ KillsFirst(stop) /\ KillsFirst(delete)
      /\ Head(stop) = "kill" /\ Head(delete) = "kill"
      /\ delete \in DeleteLists /\ delete \notin {<<"file", "disk">>, <<"disk">>}
  <2>1. delete = <<"kill", "net", "socket", "net", "file", "disk">>
    BY WholeDelete
  <2> HIDE DEF delete
  <2> QED
    BY <2>1 DEF KillsFirst, DeleteLists
<1>4. PICK c \in Seq(Commands) :
         /\ CleanUp(t, r, c) /\ KillsFirst(c) /\ Head(c) = "kill"
         /\ call[t].op = "delete" =>
               c \in DeleteLists /\ c \notin {<<"file", "disk">>, <<"disk">>}
  BY <1>1, <1>3, CommandLists
<1>5. /\ OnlyMoves(t) /\ call'[t].pc = "clean" /\ call'[t].held = r /\ call'[t].todo = c
      /\ call'[t].inst = i /\ call'[t].op = call[t].op
      /\ \A s \in Call : s # t => call'[s] = call[s]
  <2> HIDE DEF r
  <2>1. /\ OnlyMoves(t) /\ call'[t].pc = "clean" /\ call'[t].held = r /\ call'[t].todo = c
    BY <1>1, <1>4, HandlerBecomes
  <2> QED
    BY <1>a, <2>1 DEF OnlyMoves
<1>6. KillsNext(t)' /\ ~ KillsNext(t)
  BY <1>1, <1>4, <1>5 DEF KillsNext, At
<1>7. /\ InstanceOK(i) /\ OneAtATime /\ ~ Deleted(i) /\ host[i].file = r
  <2>1. InstanceOK(i) /\ OneAtATime
    BY DEF Orderly, Serial
  <2>2. ~ Deleted(i)
    BY <1>1, <2>1 DEF InstanceOK, DeletedStays
  <2>3. ~ At(r, "record")
    BY <1>a, <1>1, <2>1 DEF Ownership, MapOwned, OneAtATime, Active, At
  <2> QED
    BY <1>1, <2>1, <2>2, <2>3 DEF InstanceOK, MapRecorded
<1> HIDE DEF r, stop, delete
<1>8. ASSUME NEW j \in Instance, j # i PROVE InstanceOK(j)'
  BY <1>a, <1>1, <1>2, <1>5, <1>8, OtherInstances DEF Orderly
<1>9. \A s \in Call : s # t /\ call'[s].inst = i => ~ Active(s) /\ ~ Active(s)' /\ ~ KillsNext(s)'
  BY <1>a, <1>1, <1>5, <1>7 DEF OneAtATime, Active, KillsNext, At
<1>10. MapFollows(i)' /\ StartIntact(i)'
  BY <1>2, <1>5, <1>9
  DEF MapFollows, StartIntact, Active, At, WithDisk, WithTap, WithRules
<1>11. CleanUpProceeds(i)'
  <2>1. \A s \in Call : call'[s].inst = i /\ At(s, "clean")' => s = t
    BY <1>9 DEF Active, At
  <2>2. c # <<"disk">> \/ call[t].op # "delete"
    BY <1>4
  <2> QED
    BY <1>4, <1>5, <2>1, <2>2 DEF CleanUpProceeds
<1>12. MapRecorded(i)'
  BY <1>1, <1>2, <1>5, <1>7, <1>9 DEF MapRecorded
<1>13. LiveKnown(i)'
  <2>1. ASSUME NEW v \in Call, v # t, call'[v].inst = i, Known(v)' PROVE v = r
    BY <1>a, <1>1, <1>5, <1>6, <1>7, <2>1, OthersKnown DEF InstanceOK, r
  <2> QED
    BY <1>5, <1>6, <2>1 DEF LiveKnown, Active, At
<1>14. RecordedIntact(i)'
  BY <1>1, <1>7 DEF InstanceOK, RecordedIntact, Alive
<1>15. DeletedStays(i)'
  BY <1>5, <1>7 DEF DeletedStays, Deleted, At
<1>16. InstanceOK(i)'
  BY <1>10, <1>11, <1>12, <1>13, <1>14, <1>15 DEF InstanceOK
<1> QED
  BY <1>8, <1>16

\* What is left of a list of a Delete after one command, and what that one does.
LEMMA DeleteListSteps ==
    ASSUME NEW c \in DeleteLists
    PROVE  /\ Len(c) = 1 <=> c = <<"disk">>
           /\ Len(c) # 1 => Tail(c) \in DeleteLists
           /\ Tail(c) = <<"file", "disk">> => Head(c) = "net"
           /\ Tail(c) = <<"disk">> => c = <<"file", "disk">>
           /\ Head(<<"disk">>) = "disk" /\ Head(<<"file", "disk">>) = "file"
<1>1. CASE c = <<"kill", "net", "socket", "net", "file", "disk">>
  BY <1>1 DEF DeleteLists
<1>2. CASE c = <<"net", "socket", "net", "file", "disk">>
  BY <1>2 DEF DeleteLists
<1>3. CASE c = <<"socket", "net", "file", "disk">>
  BY <1>3 DEF DeleteLists
<1>4. CASE c = <<"net", "file", "disk">>
  BY <1>4 DEF DeleteLists
<1>5. CASE c = <<"file", "disk">>
  BY <1>5 DEF DeleteLists
<1>6. CASE c = <<"disk">>
  BY <1>6 DEF DeleteLists
<1> QED
  BY <1>1, <1>2, <1>3, <1>4, <1>5, <1>6 DEF DeleteLists

\* A command of a clean-up.
LEMMA CleaningKeeps ==
    ASSUME TypeInv, Ownership, Honesty, Honesty', ProcessesMove, Orderly, NEW t \in Call,
           Clean(t)
    PROVE  \A i \in Instance : InstanceOK(i)'
<1> USE NilAssumption
<1>a. PICK i \in Instance : i = call[t].inst
  BY DEF TypeInv, HasInstance, Clean, At
<1> DEFINE c == call[t].todo
<1>1. /\ At(t, "clean") /\ Active(t) /\ UNCHANGED <<running, up>> /\ up
      /\ call[t].held \in Call \cup {Nil}
  BY DEF Clean, Active, At, Ownership, DownIsQuiet, TypeInv, TypeOK, Handler
<1>2. c \in Seq(Commands) /\ c # <<>> /\ Len(c) \in Nat \ {0} /\ Head(c) \in Commands
  <2>1. c \in Seq(Commands) /\ c # <<>>
    BY <1>1 DEF TypeInv, TypeOK, HasWork, Handler
  <2> HIDE DEF c
  <2> QED
    BY <2>1
<1>3. /\ OnlyMoves(t) /\ call'[t].inst = i /\ call'[t].held = call[t].held
      /\ call'[t].op = call[t].op /\ \A s \in Call : s # t => call'[s] = call[s]
      /\ \/ /\ Len(c) = 1 /\ call'[t].pc = "done"
            /\ call[t].op \notin {"stop", "delete"} => call'[t].answer = "error"
         \/ Len(c) # 1 /\ call'[t].pc = "clean" /\ call'[t].todo = Tail(c)
  <2>1. CASE Len(c) = 1
    BY <1>a, <2>1, HandlerBecomes DEF Clean, OnlyMoves
  <2>2. CASE Len(c) # 1
    <3>1. call' = [call EXCEPT ![t].todo = Tail(@)]
      BY <2>2 DEF Clean
    <3> QED
      BY <1>a, <1>1, <2>2, <3>1, HandlerBecomes DEF OnlyMoves, At
  <2> QED
    BY <2>1, <2>2
<1>4. /\ \A j \in Instance : j # i => host'[j] = host[j]
      /\ host'[i].tap \in {host[i].tap, Nil} /\ host'[i].file \in {host[i].file, Nil}
      /\ host'[i].disk => host[i].disk
      /\ Head(c) = "kill" => host'[i] = host[i]
      /\ Head(c) = "net" => host'[i].tap = Nil
      /\ Head(c) = "file" => host'[i].file = Nil
      /\ Head(c) = "disk" => ~ host'[i].disk
  <2> HIDE DEF c
  <2>1. host[i] \in Host /\ host \in [Instance -> Host]
    BY DEF TypeInv, TypeOK
  <2>2. /\ Head(c) = "kill" => host' = [host EXCEPT ![i] = host[i]]
        /\ Head(c) = "net" => host' = [host EXCEPT ![i] = TornDown(host[i])]
        /\ Head(c) = "tap" => host' = [host EXCEPT ![i] = [host[i] EXCEPT !.tap = Nil]]
        /\ Head(c) = "socket" => host' = [host EXCEPT ![i] = [host[i] EXCEPT !.socket = Nil]]
        /\ Head(c) = "file" => host' = [host EXCEPT ![i] = [host[i] EXCEPT !.file = Nil]]
        /\ Head(c) = "disk" => host' = [host EXCEPT ![i] = [host[i] EXCEPT !.disk = FALSE]]
    BY <1>a DEF Clean, RunCommand, c
  <2>3. /\ TornDown(host[i]).tap = Nil /\ TornDown(host[i]).file = host[i].file
        /\ TornDown(host[i]).disk = host[i].disk
    BY <2>1 DEF TornDown, Host
  <2> QED
    BY <1>2, <2>1, <2>2, <2>3 DEF Commands, Host
<1>5. KillsNext(t) /\ call[t].held # Nil => proc'[call[t].held] = "dead"
  BY <1>1 DEF Clean, RunCommand, KillsNext, TypeInv, TypeOK
<1>6. /\ InstanceOK(i) /\ OneAtATime /\ running[i] = Nil
  <2>1. InstanceOK(i) /\ OneAtATime
    BY DEF Orderly, Serial
  <2> QED
    BY <1>a, <1>1, <2>1 DEF InstanceOK, MapFollows, At
<1>7. /\ KillsFirst(c)
      /\ call[t].op = "delete" =>
            /\ c \in DeleteLists
            /\ c \in {<<"file", "disk">>, <<"disk">>} => host[i].tap = Nil
            /\ c = <<"disk">> => host[i].file = Nil
  BY <1>a, <1>1, <1>6 DEF InstanceOK, CleanUpProceeds
<1>8. Len(c) # 1 => KillsFirst(Tail(c)) /\ Head(Tail(c)) # "kill"
  <2> HIDE DEF c
  <2> SUFFICES ASSUME Len(c) # 1 PROVE KillsFirst(Tail(c)) /\ Head(Tail(c)) # "kill"
    OBVIOUS
  <2>1. /\ Len(Tail(c)) = Len(c) - 1 /\ Tail(c) \in Seq(Commands)
        /\ \A k \in 1 .. Len(Tail(c)) : Tail(c)[k] = c[k + 1]
    BY <1>2
  <2>2. Head(Tail(c)) = Tail(c)[1]
    BY <1>2, <2>1
  <2> QED
    BY <1>2, <1>7, <2>1, <2>2 DEF KillsFirst
<1>9. call'[t].pc = "clean" => ~ KillsNext(t)'
  BY <1>3, <1>8 DEF KillsNext, At
<1> HIDE DEF c
<1>10. ASSUME NEW j \in Instance, j # i PROVE InstanceOK(j)'
  BY <1>a, <1>1, <1>3, <1>4, <1>10, OtherInstances DEF Orderly
<1>11. \A s \in Call : s # t /\ call'[s].inst = i =>
            ~ Active(s) /\ ~ Active(s)' /\ ~ KillsNext(s)' /\ ~ At(s, "clean")'
  BY <1>a, <1>1, <1>3, <1>6 DEF OneAtATime, Active, KillsNext, At
<1>12. MapFollows(i)' /\ StartIntact(i)'
  BY <1>1, <1>3, <1>6, <1>11
  DEF MapFollows, StartIntact, Active, At, WithDisk, WithTap, WithRules
<1>13. MapRecorded(i)'
  <2>1. ~ KillsNext(t)'
    BY <1>3, <1>9 DEF KillsNext, At
  <2> QED
    BY <1>1, <1>6, <1>11, <2>1 DEF MapRecorded
<1>14. LiveKnown(i)'
  <2>1. ASSUME NEW v \in Call, v # t, call'[v].inst = i, Known(v)' PROVE FALSE
    <3>1. KillsNext(t) /\ call[t].held = v
      BY <1>a, <1>1, <1>3, <1>4, <1>6, <2>1, OthersKnown DEF InstanceOK
    <3>2. proc'[v] = "dead"
      BY <1>5, <3>1
    <3> QED
      BY <2>1, <3>2 DEF Known, Alive
  <2>2. Known(t)' => Active(t)'
    <3>1. ~ Active(t)' => ~ Alive(t)'
      BY <1>3 DEF Honesty, Honest, Active, At
    <3> QED
      BY <3>1 DEF Known
  <2> QED
    BY <2>1, <2>2 DEF LiveKnown
<1>15. RecordedIntact(i)'
  <2> SUFFICES ASSUME host'[i].file # Nil, Alive(host[i].file)', host'[i].file = host[i].file
               PROVE  FALSE
    BY <1>4 DEF RecordedIntact, Alive
  <2>1. host[i].file \in Call /\ Ended(host[i].file)
    BY DEF Ownership, FilesOwned, TypeInv, TypeOK, Host
  <2>2. Alive(host[i].file)
    BY <2>1 DEF ProcessesMove, Ended, At
  <2>3. KillsNext(t) /\ call[t].held = host[i].file
    BY <1>a, <1>1, <1>6, <2>1, <2>2, RecordedLive DEF InstanceOK
  <2> QED
    BY <1>5, <2>1, <2>3 DEF Alive
<1>16. CleanUpProceeds(i)'
  <2>1. call'[t].pc = "clean" /\ call[t].op = "delete" =>
           /\ Tail(c) \in DeleteLists
           /\ Tail(c) \in {<<"file", "disk">>, <<"disk">>} => host'[i].tap = Nil
           /\ Tail(c) = <<"disk">> => host'[i].file = Nil
    BY <1>3, <1>4, <1>7, DeleteListSteps
  <2> QED
    BY <1>3, <1>8, <1>11, <2>1 DEF CleanUpProceeds, At
<1>17. DeletedStays(i)'
  <2> SUFFICES ASSUME Deleted(i)'
               PROVE  /\ ~ host'[i].disk /\ host'[i].tap = Nil /\ host'[i].file = Nil
                      /\ Active(t)' => /\ call'[t].op = "delete" /\ call'[t].pc = "clean"
                                       /\ call'[t].held = Nil
    BY <1>1, <1>3, <1>6, <1>11 DEF DeletedStays, At
  <2>1. CASE Deleted(i)
    <3>1. /\ ~ host[i].disk /\ host[i].tap = Nil /\ host[i].file = Nil
          /\ call[t].op = "delete" /\ call[t].held = Nil
      BY <1>a, <1>1, <1>6, <2>1 DEF InstanceOK, DeletedStays, At
    <3> QED
      BY <1>3, <1>4, <3>1 DEF Active, At
  <2>2. CASE ~ Deleted(i)
    <3>1. call'[t].pc = "done" /\ call[t].op = "delete"
      BY <1>a, <1>3, <2>2 DEF Deleted, At
    <3>2. c = <<"disk">> /\ Head(c) = "disk" /\ host[i].tap = Nil /\ host[i].file = Nil
      BY <1>3, <1>7, <3>1, DeleteListSteps
    <3> QED
      BY <1>4, <3>1, <3>2 DEF Active, At
  <2> QED
    BY <2>1, <2>2
<1>18. InstanceOK(i)'
  BY <1>12, <1>13, <1>14, <1>15, <1>16, <1>17 DEF InstanceOK
<1> QED
  BY <1>10, <1>18

-----------------------------------------------------------------------------
(* Crashes, reboots and restarts *)

LEMMA DyingKeeps ==
    ASSUME TypeInv, Ownership, Honesty, ProcessesMove, Orderly, Crash \/ HostReboot
    PROVE  Orderly'
<1> USE NilAssumption
<1>1. /\ up /\ up' = FALSE /\ \A i \in Instance : running'[i] = Nil
      /\ \A t \in Call : /\ call'[t].inst = call[t].inst /\ call'[t].op = call[t].op
                         /\ call'[t].held = call[t].held
                         /\ call'[t].pc = IF Active(t) THEN "lost" ELSE call[t].pc
  <2>1. ManagerDies
    BY DEF Crash, HostReboot
  <2>2. \A t \in Call : call'[t] = IF Active(t) THEN [call[t] EXCEPT !.pc = "lost"] ELSE call[t]
    BY <2>1 DEF ManagerDies
  <2>3. \A t \in Call : call[t] \in Handler
    BY DEF TypeInv, TypeOK
  <2>4. \A t \in Call : /\ call'[t].inst = call[t].inst /\ call'[t].op = call[t].op
                        /\ call'[t].held = call[t].held
                        /\ call'[t].pc = IF Active(t) THEN "lost" ELSE call[t].pc
    BY <2>2, <2>3 DEF Handler
  <2> QED
    BY <2>1, <2>4 DEF ManagerDies
<1>2. \A t \in Call : /\ ~ Active(t)' /\ ~ KillsNext(t)' /\ ~ At(t, "clean")'
                      /\ call'[t].pc \notin WithDisk /\ ~ At(t, "record")'
                      /\ At(t, "done")' = At(t, "done") /\ At(t, "new")' = At(t, "new")
  BY <1>1 DEF Active, KillsNext, At, WithDisk, WithTap, WithRules
<1>3. \A i \in Instance : /\ host'[i].file = host[i].file /\ host'[i].disk = host[i].disk
                          /\ host'[i].tap \in {host[i].tap, Nil}
  <2>1. CASE Crash
    BY <2>1 DEF Crash
  <2>2. CASE HostReboot
    <3>1. \A i \in Instance :
             host'[i] = [host[i] EXCEPT !.socket = Nil, !.tap = Nil, !.rules = 0]
      BY <2>2 DEF HostReboot
    <3>2. \A i \in Instance : host[i] \in Host
      BY DEF TypeInv, TypeOK
    <3> QED
      BY <3>1, <3>2 DEF Host
  <2> QED
    BY <2>1, <2>2
<1>4. \/ host' = host /\ proc' = proc
      \/ \A v \in Call : ~ Alive(v)'
  BY DEF Crash, HostReboot, TypeInv, TypeOK, Alive
<1>5. Serial'
  BY <1>1, <1>2 DEF Orderly, Serial, OneAtATime, Blank, CreatedFirst, Created, At
<1>6. ASSUME NEW i \in Instance PROVE InstanceOK(i)'
  <2>1. InstanceOK(i)
    BY DEF Orderly
  <2>2. MapFollows(i)' /\ StartIntact(i)' /\ MapRecorded(i)' /\ CleanUpProceeds(i)'
    BY <1>1, <1>2
    DEF MapFollows, StartIntact, MapRecorded, CleanUpProceeds, WithDisk, WithTap
  <2>3. LiveKnown(i)'
    <3> SUFFICES ASSUME NEW v \in Call, call[v].inst = i, Known(v)' PROVE host[i].file = v
      BY <1>1, <1>3 DEF LiveKnown
    <3>1. Alive(v) /\ v # Nil
      BY <1>4 DEF Known, Alive
    <3>2. CASE At(v, "lost")'
      BY <1>1, <1>3, <3>2 DEF Known, CutOff
    <3>3. CASE ~ At(v, "lost")'
      <4>1. ~ Active(v) /\ ~ At(v, "lost")
        BY <1>1, <3>3 DEF Active, At
      <4>2. Known(v)
        BY <3>1, <4>1 DEF Known, CutOff
      <4>3. \/ running[i] = v
            \/ \E s \in Call : KillsNext(s) /\ call[s].inst = i /\ call[s].held = v
        BY <1>1, <2>1, <4>1, <4>2 DEF InstanceOK, LiveKnown
      <4>4. \A s \in Call : KillsNext(s) => s # v
        BY <4>1 DEF KillsNext, Active, At
      <4> QED
        BY <2>1, <3>1, <4>1, <4>3, <4>4 DEF InstanceOK, MapRecorded, Active, At
    <3> QED
      BY <3>2, <3>3
  <2>4. RecordedIntact(i)'
    <3>1. CASE host' = host /\ proc' = proc
      BY <2>1, <3>1 DEF InstanceOK, RecordedIntact, Alive
    <3>2. CASE \A v \in Call : ~ Alive(v)'
      <4>1. host'[i].file \in Call \cup {Nil}
        BY <1>3 DEF TypeInv, TypeOK, Host
      <4> QED
        BY <3>2, <4>1 DEF RecordedIntact, Alive
    <3> QED
      BY <1>4, <3>1, <3>2
  <2>5. DeletedStays(i)'
    <3>1. Deleted(i)' => Deleted(i)
      BY <1>1, <1>2 DEF Deleted
    <3> QED
      BY <1>1, <1>2, <1>3, <2>1, <3>1 DEF InstanceOK, DeletedStays
  <2> QED
    BY <2>2, <2>3, <2>4, <2>5 DEF InstanceOK
<1> QED
  BY <1>5, <1>6 DEF Orderly

LEMMA RestartKeeps ==
    ASSUME TypeInv, Ownership, Orderly, Restart
    PROVE  Orderly'
<1> USE NilAssumption
<1>1. /\ ~ up /\ up' = TRUE /\ UNCHANGED <<proc, call>>
      /\ \A t \in Call : ~ Active(t) /\ ~ KillsNext(t) /\ call[t].pc \notin WithDisk
  BY DEF Restart, Ownership, DownIsQuiet, KillsNext, Active, At, WithDisk, WithTap, WithRules
<1>2. ASSUME NEW i \in Instance
      PROVE  \/ /\ host[i].file # Nil /\ Alive(host[i].file)
                /\ running'[i] = host[i].file /\ host'[i] = host[i]
             \/ host[i].file = Nil /\ running'[i] = Nil /\ host'[i] = host[i]
             \/ /\ host[i].file # Nil /\ ~ Alive(host[i].file)
                /\ running'[i] = Nil /\ host'[i].file = Nil
  <2>1. [TornDown(host[i]) EXCEPT !.socket = Nil, !.file = Nil].file = Nil
    BY CleanedHostTypes DEF TypeInv, TypeOK, Host
  <2> QED
    BY <2>1 DEF Restart, Adoptable
<1>3. Serial'
  BY <1>1 DEF Orderly, Serial, OneAtATime, Blank, CreatedFirst, Created, Active, At
<1>4. ASSUME NEW i \in Instance PROVE InstanceOK(i)'
  <2>1. InstanceOK(i)
    BY DEF Orderly
  <2>2. MapFollows(i)' /\ StartIntact(i)' /\ CleanUpProceeds(i)'
    BY <1>1 DEF MapFollows, StartIntact, CleanUpProceeds, KillsNext, Active, At, WithDisk,
      WithTap, WithRules
  <2>3. MapRecorded(i)'
    BY <1>1, <1>2 DEF MapRecorded, KillsNext, At
  <2>4. LiveKnown(i)'
    <3> SUFFICES ASSUME NEW v \in Call, call[v].inst = i, Known(v)' PROVE running'[i] = v
      BY <1>1 DEF LiveKnown
    <3>1. Alive(v) /\ v # Nil
      BY <1>1 DEF Known, Alive
    <3>2. Known(v)
      BY <1>1, <1>2, <3>1 DEF Known, CutOff, At
    <3>3. host[i].file = v
      BY <1>1, <2>1, <3>2 DEF InstanceOK, LiveKnown
    <3> QED
      BY <1>2, <3>1, <3>3
  <2>5. RecordedIntact(i)'
    BY <1>1, <1>2, <2>1 DEF InstanceOK, RecordedIntact, Alive
  <2>6. DeletedStays(i)'
    <3>1. Deleted(i)' => Deleted(i)
      BY <1>1 DEF Deleted, At
    <3> QED
      BY <1>1, <1>2, <2>1, <3>1 DEF InstanceOK, DeletedStays, Active
  <2> QED
    BY <2>2, <2>3, <2>4, <2>5, <2>6 DEF InstanceOK
<1> QED
  BY <1>3, <1>4 DEF Orderly

-----------------------------------------------------------------------------
(* The theorems on calls that do not overlap *)

\* A call that has begun starts no second one.
LEMMA SerialKept ==
    ASSUME Serial, NEW t \in Call, Active(t), OnlyMoves(t), call'[t].pc # "new"
    PROVE  Serial'
<1>1. /\ \A s \in Call : s # t => call'[s] = call[s]
      /\ call'[t].op = call[t].op /\ call'[t].inst = call[t].inst
  BY DEF OnlyMoves
<1>2. OneAtATime'
  BY <1>1 DEF Serial, OneAtATime, Active, At
<1>3. Blank'
  BY <1>1 DEF Serial, Blank, At
<1>4. CreatedFirst'
  <2>1. \A s \in Call : /\ call'[s].op = call[s].op /\ call'[s].inst = call[s].inst
                        /\ At(s, "new")' = At(s, "new")
    BY <1>1 DEF Active, At
  <2> QED
    BY <2>1 DEF Serial, CreatedFirst, Created
<1> QED
  BY <1>2, <1>3, <1>4 DEF Serial

LEMMA OrderlyKept ==
    ASSUME ~ Overlap, TypeInv, Ownership, Honesty, Honesty', Orderly, [Next]_vars
    PROVE  Orderly'
<1>1. ProcessesMove
  BY ProcessSteps
<1>2. ASSUME NEW t \in Call, NEW o \in Ops, NEW i \in Instance, Begin(t, o, i)
      PROVE  Orderly'
  BY <1>1, <1>2, BeginKeeps
<1>3. ASSUME NEW t \in Call, Create(t) \/ Start(t) \/ Stop(t) \/ Delete(t) \/ Clean(t)
      PROVE  Orderly'
  <2>1. CASE \/ Provision(t) \/ ProvisionFails(t) \/ StartBegins(t) \/ CheckDisk(t)
             \/ ClearTap(t) \/ AddTap(t) \/ AddTapFails(t) \/ AddForward(t)
             \/ AddForwardFails(t) \/ RemoveSocket(t) \/ Spawn(t) \/ SpawnFails(t)
             \/ Configure(t) \/ Boot(t) \/ BootFails(t) \/ StopFindsNothing(t)
             \/ DeleteFindsNothing(t)
    <3>1. Prepares(t)
      BY <1>1, <2>1, PreparingSteps
    <3>2. \A i \in Instance : InstanceOK(i)'
      BY <1>1, <3>1, PreparingKeeps
    <3>3. Active(t) /\ OnlyMoves(t) /\ call'[t].pc # "new"
      BY <3>1 DEF Prepares, WithDisk, WithTap, WithRules
    <3> QED
      BY <3>2, <3>3, SerialKept DEF Orderly
  <2>2. CASE Register(t) \/ Record(t)
    <3>1. \A i \in Instance : InstanceOK(i)'
      BY <1>1, <2>2, RegisterKeeps, RecordKeeps
    <3>2. Active(t) /\ OnlyMoves(t) /\ call'[t].pc # "new"
      BY <2>2, HandlerBecomes DEF Register, Record, PCs, Active, At
    <3> QED
      BY <3>1, <3>2, SerialKept DEF Orderly
  <2>3. CASE StopTakes(t) \/ DeleteTakes(t)
    <3>1. \A i \in Instance : InstanceOK(i)'
      BY <1>1, <2>3, TakingKeeps
    <3>2. At(t, "take") /\ Active(t)
      BY <2>3 DEF StopTakes, DeleteTakes, Active, At
    <3>3. \E v \in Call \cup {Nil}, c \in Seq(Commands) : CleanUp(t, v, c)
      <4>1. running[call[t].inst] \in Call \cup {Nil}
        BY <3>2 DEF TypeInv, TypeOK, HasInstance, At
      <4> QED
        BY <2>3, <4>1, CommandLists DEF StopTakes, DeleteTakes
    <3>4. OnlyMoves(t) /\ call'[t].pc # "new"
      BY <3>3, HandlerBecomes
    <3> QED
      BY <3>1, <3>2, <3>4, SerialKept DEF Orderly
  <2>4. CASE Clean(t)
    <3>1. \A i \in Instance : InstanceOK(i)'
      BY <1>1, <2>4, CleaningKeeps
    <3>2. Active(t) /\ OnlyMoves(t) /\ call'[t].pc # "new"
      BY <2>4, HandlerBecomes DEF Clean, Active, At
    <3> QED
      BY <3>1, <3>2, SerialKept DEF Orderly
  <2> QED
    BY <1>3, <2>1, <2>2, <2>3, <2>4 DEF Create, Start, Stop, Delete
<1>4. ASSUME Crash \/ HostReboot PROVE Orderly'
  BY <1>1, <1>4, DyingKeeps
<1>5. ASSUME Restart PROVE Orderly'
  BY <1>5, RestartKeeps
<1>6. ASSUME UNCHANGED <<host, up, running, call>> PROVE Orderly'
  <2>1. Serial'
    BY <1>6 DEF Orderly, Serial, OneAtATime, Blank, CreatedFirst, Created, Active, At
  <2>2. \A i \in Instance : InstanceOK(i)'
    BY <1>1, <1>6, OtherInstances DEF Orderly
  <2> QED
    BY <2>1, <2>2 DEF Orderly
<1> QED
  BY <1>2, <1>3, <1>4, <1>5, <1>6 DEF Next, GuestExits, Finished, vars

\* What the invariant says of the properties.
LEMMA OrderlyIsSafe ==
    ASSUME TypeInv, Ownership, Honesty, Orderly
    PROVE  StartedVMsKnown /\ OneGuestPerDisk /\ RunningIsReachable /\ DeleteIsFinal
<1> USE NilAssumption
<1>0. \A v \in Call : Alive(v) => call[v].inst \in Instance
  BY DEF Honesty, Honest, TypeInv, HasInstance, Unspawned, Alive, At
<1>1. \A v \in Call : Known(v) => LiveKnown(call[v].inst) /\ InstanceOK(call[v].inst)
  BY <1>0 DEF Orderly, InstanceOK, Known
<1>2. StartedVMsKnown
  <2> SUFFICES ASSUME NEW v \in Call, up, call[v].answer = "ok", Alive(v),
                      ~ \E s \in Call : Active(s) /\ call[s].held = v
               PROVE  running[call[v].inst] = v
    BY DEF StartedVMsKnown
  <2>1. At(v, "done")
    BY DEF Honesty, Honest
  <2>2. Known(v) /\ ~ Active(v)
    BY <2>1 DEF Known, CutOff, Active, At
  <2> QED
    BY <1>1, <2>2 DEF LiveKnown, KillsNext, Active, At
<1>3. OneGuestPerDisk
  <2> SUFFICES ASSUME NEW i \in Instance, NEW u \in Call, NEW v \in Call,
                      call[u].inst = i, call[v].inst = i, Known(u), Known(v)
               PROVE  u = v
    BY DEF OneGuestPerDisk, Processes, Known
  <2>1. InstanceOK(i) /\ OneAtATime
    BY DEF Orderly, Serial
  <2>2. CASE ~ up
    BY <2>1, <2>2 DEF InstanceOK, LiveKnown, Ownership, DownIsQuiet, KillsNext, Active, At
  <2>3. CASE up
    <3>1. \A w \in Call : KillsNext(w) => Active(w)
      BY DEF KillsNext, Active, At
    <3>2. ASSUME NEW w \in Call, call[w].inst = i, Known(w)
          PROVE  \/ running[i] = w
                 \/ /\ running[i] = Nil
                    /\ \/ Active(w)
                       \/ \E s \in Call : /\ Active(s) /\ call[s].inst = i /\ call[s].held = w
                                          /\ s = w \/ ~ Alive(s)
      <4>1. CASE running[i] = w
        BY <4>1
      <4>2. CASE Active(w)
        <5>1. call[w].pc \notin {"provision", "start", "take"}
          BY <3>2 DEF Honesty, Honest, Known, Alive, Unspawned
        <5> QED
          BY <2>1, <3>2, <4>2, <5>1 DEF InstanceOK, MapFollows, At
      <4>3. CASE \E s \in Call : KillsNext(s) /\ call[s].inst = i /\ call[s].held = w
        <5>1. PICK s \in Call : KillsNext(s) /\ call[s].inst = i /\ call[s].held = w
          BY <4>3
        <5>2. running[i] = Nil /\ Active(s)
          BY <2>1, <3>1, <5>1 DEF InstanceOK, MapFollows, KillsNext, At
        <5>3. s = w \/ ~ Alive(s)
          BY <5>1 DEF Honesty, Honest, KillsNext
        <5> QED
          BY <5>1, <5>2, <5>3
      <4> QED
        BY <2>1, <2>3, <3>2, <4>1, <4>2, <4>3 DEF InstanceOK, LiveKnown
    <3> QED
      BY <2>1, <3>2 DEF OneAtATime, Known
  <2> QED
    BY <2>2, <2>3
<1>4. RunningIsReachable
  <2> SUFFICES ASSUME NEW i \in Instance, Idle(i), running[i] # Nil, Alive(running[i])
               PROVE  /\ host[i].tap = running[i] /\ host[i].rules > 0
                      /\ host[i].file = running[i] /\ host[i].disk
    BY DEF RunningIsReachable
  <2>1. running[i] \in Call /\ call[running[i]].inst = i
    BY DEF Ownership, MapOwned, TypeInv, TypeOK
  <2>2. ~ At(running[i], "record")
    BY <2>1 DEF Idle, Busy, Active, At
  <2> QED
    BY <2>2 DEF Orderly, InstanceOK, MapRecorded, RecordedIntact
<1>5. DeleteIsFinal
  <2> SUFFICES ASSUME NEW t \in Call, call[t].op = "delete", At(t, "done"), Idle(call[t].inst)
               PROVE  LET i == call[t].inst IN
                      /\ ~ host[i].disk /\ host[i].tap = Nil /\ host[i].file = Nil
                      /\ running[i] = Nil
                      /\ \A v \in Processes(i) : CutOff(v)
    BY DEF DeleteIsFinal
  <2>1. PICK i \in Instance : i = call[t].inst
    BY DEF TypeInv, HasInstance, At
  <2>2. /\ ~ host[i].disk /\ host[i].tap = Nil /\ host[i].file = Nil /\ running[i] = Nil
    BY <2>1 DEF Orderly, InstanceOK, DeletedStays, Deleted
  <2>3. ASSUME NEW v \in Processes(i), ~ CutOff(v) PROVE FALSE
    <3>1. v \in Call /\ call[v].inst = i /\ Known(v)
      BY <2>3 DEF Processes, Known
    <3>2. /\ up /\ \A s \in Call : call[s].inst = i => ~ Active(s) /\ ~ KillsNext(s)
      BY <2>1 DEF Idle, Busy, KillsNext, Active, At
    <3> QED
      BY <1>1, <2>2, <3>1, <3>2 DEF LiveKnown
  <2> QED
    BY <2>1, <2>2, <2>3
<1> QED
  BY <1>2, <1>3, <1>4, <1>5

\* When calls on one instance do not overlap, the invariant holds.
THEOREM OrderlyInvariance ==
    ASSUME ~ Overlap
    PROVE  Spec => [](TypeInv /\ Ownership /\ Honesty /\ Orderly)
<1>1. Init => TypeInv /\ Ownership /\ Honesty /\ Orderly
  BY InitTypes, InitOwnership, InitHonesty, InitOrderly
<1>2. TypeInv /\ Ownership /\ Honesty /\ Orderly /\ [Next]_vars
         => (TypeInv /\ Ownership /\ Honesty /\ Orderly)'
  BY TypesKept, OwnershipKept, HonestyKept, OrderlyKept
<1> QED
  BY <1>1, <1>2, PTL DEF Spec

\* A VM whose Start answered ok is in the map as long as it lives.
THEOREM StartedKnown == ASSUME ~ Overlap PROVE Spec => []StartedVMsKnown
BY OrderlyInvariance, OrderlyIsSafe, PTL

\* Two guests never write to one disk, but for one that a crash cut off.
THEOREM OneGuest == ASSUME ~ Overlap PROVE Spec => []OneGuestPerDisk
BY OrderlyInvariance, OrderlyIsSafe, PTL

\* A running VM has its tap, its forwarding, its record and its disk.
THEOREM Reachable == ASSUME ~ Overlap PROVE Spec => []RunningIsReachable
BY OrderlyInvariance, OrderlyIsSafe, PTL

\* An instance that was deleted stays deleted.
THEOREM DeletedForGood == ASSUME ~ Overlap PROVE Spec => []DeleteIsFinal
BY OrderlyInvariance, OrderlyIsSafe, PTL
==============================================================================
