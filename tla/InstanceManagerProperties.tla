---------------------- MODULE InstanceManagerProperties ----------------------
(***************************************************************************)
(* What must hold of the instance-manager (module InstanceManager).        *)
(*                                                                         *)
(* With Overlap = FALSE a call on an instance begins when the one before   *)
(* has ended, which is what the page of an instance does: its buttons are  *)
(* disabled while a call runs (InstanceDetailClient.tsx, "busy"). With     *)
(* Overlap = TRUE two pages are open, or a request was given up.           *)
(***************************************************************************)
EXTENDS InstanceManager

\* Nothing is under way on instance i.
Idle(i) == up /\ ~ Busy(i)

\* The processes of instance i, and those among them whose Start was cut off
\* by a crash before the run-state file was written: nobody knows of them.
Processes(i) == {v \in Call : call[v].inst = i /\ Alive(v)}
CutOff(v) == At(v, "lost") /\ host[call[v].inst].file # v

-----------------------------------------------------------------------------
(* Whatever calls overlap *)

\* A process is taken off the map by one call only, and is off the map while
\* that call kills it: no process is killed while another call hands it out
\* as running (the sections under mu in Stop and Delete).
KilledByOne ==
    \A t \in Call : Active(t) /\ call[t].held # Nil =>
        /\ call[t].held \notin Range(running)
        /\ \A s \in Call : Active(s) /\ call[s].held = call[t].held => s = t

\* An answer tells the truth about the process: after a Start that answered
\* with an error its process is gone, after a Stop or Delete the one it took.
AnswersAreTrue ==
    \A t \in Call :
        /\ call[t].answer = "error" => ~ Alive(t)
        /\ call[t].op \in {"stop", "delete"} /\ At(t, "done") /\ call[t].held # Nil
               => ~ Alive(call[t].held)

-----------------------------------------------------------------------------
(* When calls on one instance do not overlap, across crashes and reboots *)

\* A VM that was started with answer ok is in the map as long as it lives,
\* also after restarts of the manager, unless a call is under way that
\* took it: it can be stopped, deleted, sampled and found running.
StartedVMsKnown ==
    \A v \in Call :
        /\ up /\ call[v].op \in {"create", "start"} /\ call[v].answer = "ok" /\ Alive(v)
        /\ ~ \E s \in Call : Active(s) /\ call[s].held = v
        => running[call[v].inst] = v

\* Two guests never write to one disk, but for one whose Start was cut off by
\* a crash: if the manager dies between startVM and writeRunState, no later
\* manager knows of the VM.
OneGuestPerDisk ==
    \A i \in Instance : \A u, v \in Processes(i) :
        ~ CutOff(u) /\ ~ CutOff(v) => u = v

\* A running VM can be reached, and found again by the next manager: the tap
\* is the one made for it, its port is forwarded, its run-state file names it.
RunningIsReachable ==
    \A i \in Instance :
        LET v == running[i] IN
        Idle(i) /\ v # Nil /\ Alive(v)
            => /\ host[i].tap = v /\ host[i].rules > 0
               /\ host[i].file = v /\ host[i].disk

\* An instance stays deleted: when Delete has answered and nothing else is
\* under way, it has no disk, tap or record and no VM, but for one whose
\* Start a crash cut off. Lines 255-256: it "removes its disk and any lingering
\* host state".
DeleteIsFinal ==
    \A t \in Call :
        LET i == call[t].inst IN
        call[t].op = "delete" /\ At(t, "done") /\ Idle(i)
            => /\ ~ host[i].disk /\ host[i].tap = Nil /\ host[i].file = Nil
               /\ running[i] = Nil
               /\ \A v \in Processes(i) : CutOff(v)

-----------------------------------------------------------------------------
(* What a comment of the code says and the code does not do *)

\* "RunningIDs is the set of instances the manager currently has running"
\* (lines 284-285): when nothing is under way on an instance and a VM of it lives,
\* the map has an entry for it. Checked with overlapping calls and no crash.
RunningIDsComplete ==
    \A v \in Call :
        Alive(v) /\ Idle(call[v].inst) => running[call[v].inst] # Nil
==============================================================================
