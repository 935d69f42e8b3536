------------------------ MODULE FunctionPagesProperties ------------------------
(***************************************************************************)
(* What the registry of functions, their files and their pages promise.    *)
(***************************************************************************)
EXTENDS FunctionPages

\* A function that is deleted leaves nothing on the disk: no image, no
\* snapshot, no temporary file of a deploy that was cut off. So a failed
\* delete, after whichever of its steps, leaves a function that can be deleted
\* again (route.ts:60).
NothingOrphaned == \A f \in Function : row[f] # "active" => disk[f] = NoFiles

CutOff(f) == \E d \in Deploy : deploy[d].fn = f /\ DeployAt(d, "failed")

\* A snapshot that is found usable is one of the image on the disk, a state and
\* a memory of one VM that ran this image: after redeploys with a snapshot, with
\* none and with one that failed; unless a deploy is writing, or was cut off.
UsableIsSound ==
    [][\A f \in Function :
          BootAt(f, "check") /\ BootAt(f, "load")' /\ ~ Deploying(f) /\ ~ CutOff(f) =>
              /\ disk[f]["snap"] = disk[f]["mem"]
              /\ deploy[disk[f]["snap"]].ran = disk[f]["ext4"]]_vars

-----------------------------------------------------------------------------
\* The button of the form, and that of the page, comes back after every press.
ButtonsComeBack == \A t \in Tab : ~ TabAt(t, "idle") ~> TabAt(t, "idle")

\* Who keeps asking for the deletion of a function, of a store and a database
\* that do not fail for ever, gets it, whatever failed before, half way too.
Insists(t, f) ==
    /\ WF_vars(PressDelete(t, f))
    /\ SF_vars(RemovalCalls(t)) /\ SF_vars(MarkDeleted(t))
    /\ \A k \in DOMAIN Suffixes : SF_vars(Erase(t) /\ removal[t].next = k)

RetryWorks ==
    \A t \in Tab, f \in Function :
        Insists(t, f) => ([]<> <<PressDelete(t, f)>>_vars => <>(row[f] = "deleted"))

-----------------------------------------------------------------------------
\* A redeploy of a function invalidates its old snapshot (manager.go:424): no
\* VM is restored from a part of the old one and a part of the new one.
RedeployInvalidates ==
    \A f \in Function : vm[f].pc = "warm" => vm[f].snap = vm[f].mem
==============================================================================
