--------------------------- MODULE InstanceManager ---------------------------
(***************************************************************************)
(* The instance-manager: instance-manager/manager.go with what it does to  *)
(* the host in network.go, disk.go and firecracker.go.                     *)
(*                                                                         *)
(* Actors: one HTTP handler goroutine per lifecycle call, the guests, and  *)
(* whatever kills the manager. Manager.mu covers only the map of running   *)
(* VMs, so every section under it is one step and so is every command      *)
(* given to the host; between two of them any other call may run.          *)
(*                                                                         *)
(* A call spawns at most one Firecracker process, so t also names that     *)
(* process. What an instance owns on the host has a name or an address of  *)
(* its own (disk, run-state file, API socket, tap, SSH port), given by its *)
(* id and its row in the database.                                         *)
(***************************************************************************)
EXTENDS Integers, Sequences, FiniteSets, Functions

CONSTANTS Instance,    \* the rows of the frontend's table
          Call,        \* the HTTP calls
          Nil,         \* no process, or no instance
          Overlap,     \* may a call begin while another one on the instance runs?
          MaxCrashes   \* bound on the crashes and reboots explored

ASSUME OverlapAssumption == Overlap \in BOOLEAN
ASSUME MaxCrashesAssumption == MaxCrashes \in Nat
ASSUME NilAssumption == Nil \notin Call \cup Instance

VARIABLES
  proc,      \* proc[t]: the Firecracker process of call t
  host,      \* host[i]: what instance i has on the host, see Host
  up,        \* the manager is running
  running,   \* Manager.running: running[i] is the process of instance i, or Nil
  call,      \* call[t]: the handler of call t, see Handler
  crashes    \* how often the manager or the host has crashed

vars == <<proc, host, up, running, call, crashes>>

ProcessStates == {"none",      \* not spawned
                  "spawned",   \* its API answers, no guest yet
                  "booted",    \* the guest runs
                  "dead"}

\* socket: the process that bound the API socket (which may be dead since);
\* tap: the call that made the tap; rules: how many DNAT rules forward to it;
\* disk: whether its disk exists; file: the process its run-state file names.
Host == [socket : Call \cup {Nil}, tap : Call \cup {Nil}, rules : Nat,
         disk : BOOLEAN, file : Call \cup {Nil}]

Ops == {"create", "start", "stop", "delete"}

\* Commands that take an instance off the host.
Commands == {"kill", "net", "tap", "socket", "file", "disk"}

PCs == {"new", "provision", "start", "disk", "tap", "addtap", "forward", "socket",
        "spawn", "configure", "boot", "register", "record", "take", "clean",
        "done",   \* answered
        "lost"}   \* the manager died while it ran

\* held: the process the handler has to kill; todo: the commands left to run.
Handler == [op : Ops \cup {"none"}, inst : Instance \cup {Nil}, pc : PCs,
            held : Call \cup {Nil}, todo : Seq(Commands),
            answer : {"none", "ok", "error"}]

TypeOK ==
    /\ proc \in [Call -> ProcessStates]
    /\ host \in [Instance -> Host]
    /\ up \in BOOLEAN
    /\ running \in [Instance -> Call \cup {Nil}]
    /\ call \in [Call -> Handler]
    /\ crashes \in 0 .. MaxCrashes

Init ==
    /\ proc = [t \in Call |-> "none"]
    /\ host = [i \in Instance |-> [socket |-> Nil, tap |-> Nil, rules |-> 0,
                                   disk |-> FALSE, file |-> Nil]]
    /\ up = TRUE
    /\ running = [i \in Instance |-> Nil]
    /\ call = [t \in Call |-> [op |-> "none", inst |-> Nil, pc |-> "new",
                               held |-> Nil, todo |-> <<>>, answer |-> "none"]]
    /\ crashes = 0

-----------------------------------------------------------------------------
(* What the steps share. An operator X_Y is X with a bug that the properties *)
(* must detect; no action uses it.                                          *)

At(t, place) == call[t].pc = place
Active(t) == call[t].pc \notin {"new", "done", "lost"}
Alive(v) == proc[v] \in {"spawned", "booted"}

\* Instance i's row exists: its id is made for the one create call.
Created(i) == \E t \in Call : call[t].op = "create" /\ call[t].inst = i
Busy(i) == \E t \in Call : Active(t) /\ call[t].inst = i

\* The handler goes on, answers, or begins to clean up after process v.
Goto(t, place) == call' = [call EXCEPT ![t].pc = place]
Answer(t, a) == call' = [call EXCEPT ![t].pc = "done", ![t].answer = a]
CleanUp(t, v, commands) ==
    call' = [call EXCEPT ![t].pc = "clean", ![t].held = v, ![t].todo = commands]

\* Instance i on the host after field f is set to x.
SetHost(i, f, x) == host' = [host EXCEPT ![i][f] = x]

\* removePortForward and deleteTap, on the host of one instance; iptables -D
\* fails, and its failure is ignored, if there is no such rule.
TornDown_NotChecked(h) == [h EXCEPT !.tap = Nil, !.rules = @ - 1]
TornDown(h) == [h EXCEPT !.tap = Nil, !.rules = IF @ > 0 THEN @ - 1 ELSE 0]

-----------------------------------------------------------------------------
(* A call arrives. The frontend makes the row before it calls create.      *)

FirstStep == [create |-> "provision", start |-> "start", stop |-> "take", delete |-> "take"]

Begin(t, o, i) ==
    /\ up /\ At(t, "new")
    /\ o = "create" <=> ~ Created(i)
    /\ Overlap \/ ~ Busy(i)
    /\ call' = [call EXCEPT ![t].op = o, ![t].inst = i, ![t].pc = FirstStep[o]]
    /\ UNCHANGED <<proc, host, up, running, crashes>>

-----------------------------------------------------------------------------
(* Create: the disk; then as Start *)

\* The base image is copied and the key injected in a temporary file, which
\* is renamed; nothing is done if the disk is there.
Provision(t) ==
    /\ At(t, "provision")
    /\ SetHost(call[t].inst, "disk", TRUE)
    /\ Goto(t, "start")
    /\ UNCHANGED <<proc, up, running, crashes>>

ProvisionFails(t) ==
    /\ At(t, "provision") /\ ~ host[call[t].inst].disk
    /\ Answer(t, "error")
    /\ UNCHANGED <<proc, host, up, running, crashes>>

-----------------------------------------------------------------------------
(* Start *)

\* Under mu: is it running already? The entry is made only in Register.
CheckRunning_Forgotten(t) == Goto(t, "disk")
CheckRunning(t) ==
    IF running[call[t].inst] # Nil THEN Answer(t, "ok") ELSE Goto(t, "disk")

StartBegins(t) ==
    /\ At(t, "start")
    /\ CheckRunning(t)
    /\ UNCHANGED <<proc, host, up, running, crashes>>

CheckDisk(t) ==
    /\ At(t, "disk")
    /\ IF host[call[t].inst].disk THEN Goto(t, "tap") ELSE Answer(t, "error")
    /\ UNCHANGED <<proc, host, up, running, crashes>>

\* createTap: a stale tap is deleted ...
ClearTap(t) ==
    /\ At(t, "tap")
    /\ SetHost(call[t].inst, "tap", Nil)
    /\ Goto(t, "addtap")
    /\ UNCHANGED <<proc, up, running, crashes>>

\* ... and a new one added to the bridge, unless there is one again.
AddTap(t) ==
    /\ At(t, "addtap") /\ host[call[t].inst].tap = Nil
    /\ SetHost(call[t].inst, "tap", t)
    /\ Goto(t, "forward")
    /\ UNCHANGED <<proc, up, running, crashes>>

\* The tap cannot be added, or can be but not attached; Start just returns.
AddTapFails(t) ==
    /\ At(t, "addtap")
    /\ LET i == call[t].inst IN
       host' \in {host} \cup {[host EXCEPT ![j].tap = t] : j \in {k \in {i} : host[k].tap = Nil}}
    /\ Answer(t, "error")
    /\ UNCHANGED <<proc, up, running, crashes>>

\* addPortForward appends, it does not look for an old rule. Only the rule
\* for traffic from outside is counted; the one for local traffic comes and
\* goes with it or is missing.
AddForward(t) ==
    /\ At(t, "forward")
    /\ host' = [host EXCEPT ![call[t].inst].rules = @ + 1]
    /\ Goto(t, "socket")
    /\ UNCHANGED <<proc, up, running, crashes>>

\* One of the two rules is refused: the tap is deleted, the first rule is not.
AddForwardFails(t) ==
    /\ At(t, "forward")
    /\ \E n \in {0, 1} : host' = [host EXCEPT ![call[t].inst].rules = @ + n]
    /\ CleanUp(t, Nil, <<"tap">>)
    /\ UNCHANGED <<proc, up, running, crashes>>

RemoveSocket(t) ==
    /\ At(t, "socket")
    /\ SetHost(call[t].inst, "socket", Nil)
    /\ Goto(t, "spawn")
    /\ UNCHANGED <<proc, up, running, crashes>>

\* spawnFirecracker returns when the socket file is there. If another process
\* has bound it in the meantime, the new one exits and Start does not notice.
Spawn(t) ==
    /\ At(t, "spawn")
    /\ IF host[call[t].inst].socket = Nil
         THEN SetHost(call[t].inst, "socket", t) /\ proc' = [proc EXCEPT ![t] = "spawned"]
         ELSE UNCHANGED host /\ proc' = [proc EXCEPT ![t] = "dead"]
    /\ Goto(t, "configure")
    /\ UNCHANGED <<up, running, crashes>>

SpawnFails(t) ==
    /\ At(t, "spawn") /\ host[call[t].inst].socket = Nil
    /\ proc' = [proc EXCEPT ![t] = "dead"]
    /\ CleanUp(t, Nil, <<"net">>)
    /\ UNCHANGED <<host, up, running, crashes>>

\* The process that answers at the instance's socket and has no guest yet.
Listener(i) == {v \in {host[i].socket} \ {Nil} : proc[v] = "spawned"}

Configure(t) ==
    /\ At(t, "configure") /\ Listener(call[t].inst) # {} /\ host[call[t].inst].disk
    /\ Goto(t, "boot")
    /\ UNCHANGED <<proc, host, up, running, crashes>>

Boot(t) ==
    /\ At(t, "boot")
    /\ \E v \in Listener(call[t].inst) : proc' = [proc EXCEPT ![v] = "booted"]
    /\ Goto(t, "register")
    /\ UNCHANGED <<host, up, running, crashes>>

\* The fail closure of Start: configureInstance or startVM returned an error.
OnFailure_LeavesVM == <<"net", "socket">>
OnFailure == <<"kill", "net", "socket">>
BootFails(t) ==
    /\ call[t].pc \in {"configure", "boot"}
    /\ CleanUp(t, t, OnFailure)
    /\ UNCHANGED <<proc, host, up, running, crashes>>

\* Under mu: the process is entered into the map; then written to disk.
Register(t) ==
    /\ At(t, "register")
    /\ running' = [running EXCEPT ![call[t].inst] = t]
    /\ Goto(t, "record")
    /\ UNCHANGED <<proc, host, up, crashes>>

WriteRunState_Forgotten(t) == UNCHANGED host
WriteRunState(t) == SetHost(call[t].inst, "file", t)
Record(t) ==
    /\ At(t, "record")
    /\ WriteRunState(t)
    /\ Answer(t, "ok")
    /\ UNCHANGED <<proc, up, running, crashes>>

-----------------------------------------------------------------------------
(* Stop and Delete *)

\* Under mu: the entry is looked up and deleted in one section.
Forget_Later(i) == UNCHANGED running
Forget(i) == running' = [running EXCEPT ![i] = Nil]

StopTakes(t) ==
    /\ At(t, "take") /\ call[t].op = "stop" /\ running[call[t].inst] # Nil
    /\ Forget(call[t].inst)
    /\ CleanUp(t, running[call[t].inst], <<"kill", "net", "socket", "file">>)
    /\ UNCHANGED <<proc, host, up, crashes>>

StopFindsNothing(t) ==
    /\ At(t, "take") /\ call[t].op = "stop" /\ running[call[t].inst] = Nil
    /\ Answer(t, "ok")
    /\ UNCHANGED <<proc, host, up, running, crashes>>

\* What Delete does to any instance; one that runs is killed first.
DeleteAnyway_KeepsDisk == <<"net", "file">>
DeleteAnyway == <<"net", "file", "disk">>

DeleteTakes(t) ==
    /\ At(t, "take") /\ call[t].op = "delete" /\ running[call[t].inst] # Nil
    /\ Forget(call[t].inst)
    /\ CleanUp(t, running[call[t].inst], <<"kill", "net", "socket">> \o DeleteAnyway)
    /\ UNCHANGED <<proc, host, up, crashes>>

DeleteFindsNothing(t) ==
    /\ At(t, "take") /\ call[t].op = "delete" /\ running[call[t].inst] = Nil
    /\ CleanUp(t, Nil, DeleteAnyway)
    /\ UNCHANGED <<proc, host, up, running, crashes>>

\* The next command of a clean-up. Stop asks the guest to shut down and waits
\* before it kills: the guest may exit by itself until then (GuestExits).
RunCommand(t, c) ==
    LET i == call[t].inst IN
    /\ proc' = IF c = "kill" THEN [proc EXCEPT ![call[t].held] = "dead"] ELSE proc
    /\ host' = [host EXCEPT ![i] =
                  CASE c = "kill" -> @
                    [] c = "net" -> TornDown(@)
                    [] c = "tap" -> [@ EXCEPT !.tap = Nil]
                    [] c = "socket" -> [@ EXCEPT !.socket = Nil]
                    [] c = "file" -> [@ EXCEPT !.file = Nil]
                    [] c = "disk" -> [@ EXCEPT !.disk = FALSE]]

\* Stop and Delete answer ok, a Start that failed answers with its error.
Clean(t) ==
    /\ At(t, "clean")
    /\ RunCommand(t, Head(call[t].todo))
    /\ IF Len(call[t].todo) = 1
         THEN Answer(t, IF call[t].op \in {"stop", "delete"} THEN "ok" ELSE "error")
         ELSE call' = [call EXCEPT ![t].todo = Tail(@)]
    /\ UNCHANGED <<up, running, crashes>>

-----------------------------------------------------------------------------
(* The guests, crashes and restarts *)

\* The guest powers off, reboots or panics: its process exits.
GuestExits(v) ==
    /\ proc[v] = "booted"
    /\ proc' = [proc EXCEPT ![v] = "dead"]
    /\ UNCHANGED <<host, up, running, call, crashes>>

ManagerDies ==
    /\ up /\ crashes < MaxCrashes
    /\ up' = FALSE
    /\ crashes' = crashes + 1
    /\ running' = [i \in Instance |-> Nil]
    /\ call' = [t \in Call |-> IF Active(t) THEN [call[t] EXCEPT !.pc = "lost"] ELSE call[t]]

\* The manager stops or is redeployed; KillMode=process spares the VMs.
Crash ==
    /\ ManagerDies
    /\ UNCHANGED <<proc, host>>

\* The host reboots: disks and run-state files are all that is left.
HostReboot ==
    /\ ManagerDies
    /\ proc' = [t \in Call |-> IF Alive(t) THEN "dead" ELSE proc[t]]
    /\ host' = [i \in Instance |-> [host[i] EXCEPT !.socket = Nil, !.tap = Nil, !.rules = 0]]

\* adopt, before the manager serves again: VMs that live on are entered into
\* the map, what dead ones left behind is removed.
Adoptable_Never(i) == FALSE
Adoptable(i) == host[i].file # Nil /\ Alive(host[i].file)
Restart ==
    /\ ~ up
    /\ up' = TRUE
    /\ running' = [i \in Instance |-> IF Adoptable(i) THEN host[i].file ELSE Nil]
    /\ host' = [i \in Instance |->
                  IF host[i].file = Nil \/ Adoptable(i) THEN host[i]
                  ELSE [TornDown(host[i]) EXCEPT !.socket = Nil, !.file = Nil]]
    /\ UNCHANGED <<proc, call, crashes>>

\* All calls have been made and answered.
Finished ==
    /\ up /\ \A t \in Call : call[t].pc \in {"done", "lost"}
    /\ UNCHANGED vars

-----------------------------------------------------------------------------
Start(t) ==
    \/ StartBegins(t) \/ CheckDisk(t) \/ ClearTap(t) \/ AddTap(t) \/ AddTapFails(t)
    \/ AddForward(t) \/ AddForwardFails(t) \/ RemoveSocket(t) \/ Spawn(t) \/ SpawnFails(t)
    \/ Configure(t) \/ Boot(t) \/ BootFails(t) \/ Register(t) \/ Record(t)

Create(t) == Provision(t) \/ ProvisionFails(t)
Stop(t) == StopTakes(t) \/ StopFindsNothing(t)
Delete(t) == DeleteTakes(t) \/ DeleteFindsNothing(t)

Next ==
    \/ \E t \in Call :
          \/ \E o \in Ops, i \in Instance : Begin(t, o, i)
          \/ Create(t) \/ Start(t) \/ Stop(t) \/ Delete(t) \/ Clean(t)
          \/ GuestExits(t)
    \/ Crash
    \/ HostReboot
    \/ Restart
    \/ Finished

Spec == Init /\ [][Next]_vars
==============================================================================
