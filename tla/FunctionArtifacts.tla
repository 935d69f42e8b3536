--------------------------- MODULE FunctionArtifacts ---------------------------
(***************************************************************************)
(* The files of deployed functions: the artifact-store writes them in      *)
(* /deploy and removes them in /delete, and the pool-manager boots VMs     *)
(* from them. Nothing but the file system stands between the two services. *)
(*                                                                         *)
(* Each step is one call on the file system (the four calls of             *)
(* snapshotUsable, and the two opens of a restore, are one step). The      *)
(* requests for a VM and their queue are in FunctionPool; here a function  *)
(* has at most one VM (MaxVMs = 1, where snapshots are used). The base     *)
(* image never changes.                                                    *)
(***************************************************************************)
EXTENDS Integers, Sequences, FiniteSets

CONSTANTS Function,   \* ids
          Deploy,     \* deploy requests; bounds their number
          Nil

VARIABLES
  disk,     \* disk[f][s]: the file of function f with suffix s, see Content
  deploy,   \* deploy[d]: the handler of deploy d, see Handler
  vm        \* vm[f]: the VM of function f, see VM

artifactVars == <<disk, deploy, vm>>

\* handleDelete removes them in this order.
Suffixes == <<"ext4", "snap", "mem", "snap.tmp", "mem.tmp">>
Suffix == {Suffixes[k] : k \in DOMAIN Suffixes}

\* A file is what deploy d wrote, or an image that has been copied in part.
Half == "half"
Content == {Nil, Half} \cup Deploy
ASSUME HalfIsNoDeploy == Half \notin Deploy
NoFiles == [s \in Suffix |-> Nil]

\* snapshot: is one (still) wanted? ran: the image that the VM of the snapshot booted.
\* older: the deploys whose image was built before this one's snapshot was
\* written: it is newer than their images by the files' times.
Running == {"build", "install", "copy", "optOut", "boot", "create", "renameSnap", "renameMem"}
Handler == [pc : {"unused", "done", "failed"} \cup Running, fn : Function \cup {Nil},
            snapshot : BOOLEAN, built : BOOLEAN, ran : Content, older : SUBSET Deploy]
NoDeploy == [pc |-> "unused", fn |-> Nil, snapshot |-> FALSE, built |-> FALSE, ran |-> Nil,
             older |-> {}]

\* image: the drive of the VM. snap, mem: the files that it was restored from.
VM == [pc : {"none", "check", "load", "drop", "cold", "warm"},
       image : Content, snap : Content, mem : Content]
NoVM == [pc |-> "none", image |-> Nil, snap |-> Nil, mem |-> Nil]

ArtifactsTypeOK ==
    /\ disk \in [Function -> [Suffix -> Content]]
    /\ deploy \in [Deploy -> Handler]
    /\ vm \in [Function -> VM]

ArtifactsInit ==
    /\ disk = [f \in Function |-> NoFiles]
    /\ deploy = [d \in Deploy |-> NoDeploy]
    /\ vm = [f \in Function |-> NoVM]

-----------------------------------------------------------------------------
(* POST /deploy/:id. An operator X_Y is X with a bug that the properties    *)
(* must detect; no action uses it.                                          *)

DeployAt(d, place) == deploy[d].pc = place
Deploying(f) == \E d \in Deploy : deploy[d].fn = f /\ deploy[d].pc \in Running
FileOf(d, s) == disk[deploy[d].fn][s]

AfterImage(d) == IF deploy[d].snapshot THEN "boot" ELSE "optOut"
Goto(d, place) == deploy' = [deploy EXCEPT ![d].pc = place]
GotoSnapshot(d) == deploy' = [deploy EXCEPT ![d].pc = AfterImage(d), ![d].snapshot = FALSE]
SetFiles(f, new) == disk' = [disk EXCEPT ![f] = new]
SetFile(d, s, c) == SetFiles(deploy[d].fn, [disk[deploy[d].fn] EXCEPT ![s] = c])

DeployArrives(d, f, wanted) ==
    /\ DeployAt(d, "unused")
    /\ deploy' = [deploy EXCEPT ![d] = [NoDeploy EXCEPT !.pc = "build", !.fn = f,
                                                        !.snapshot = wanted]]
    /\ UNCHANGED <<disk, vm>>

\* The archive is unpacked and made an image in a temporary directory.
BuildEnds(d) ==
    /\ DeployAt(d, "build")
    /\ deploy' = [deploy EXCEPT ![d].pc = "install", ![d].built = TRUE]
    /\ UNCHANGED <<disk, vm>>

\* One rename; the image keeps the time when it was built.
Install(d) ==
    /\ DeployAt(d, "install")
    /\ SetFile(d, "ext4", d)
    /\ GotoSnapshot(d)
    /\ UNCHANGED vm

\* The temporary directory is on another device: the image is written in place.
\* It then has the time of the copy, later than that of every snapshot.
CopyBegins(d) ==
    /\ DeployAt(d, "install")
    /\ SetFile(d, "ext4", Half)
    /\ Goto(d, "copy")
    /\ UNCHANGED vm

CopyEnds(d) ==
    /\ DeployAt(d, "copy")
    /\ SetFile(d, "ext4", d)
    /\ deploy' = [e \in Deploy |->
                    IF e = d THEN [deploy[e] EXCEPT !.pc = AfterImage(d), !.snapshot = FALSE]
                             ELSE [deploy[e] EXCEPT !.older = @ \ {d}]]
    /\ UNCHANGED vm

\* 500: no gzip stream, no space left.
BuildFails(d) ==
    /\ deploy[d].pc \in {"build", "copy"}
    /\ Goto(d, "failed")
    /\ UNCHANGED <<disk, vm>>

\* snapshot=false: a former snapshot goes.
OptOut(d) ==
    /\ DeployAt(d, "optOut")
    /\ \/ FileOf(d, "snap") # Nil /\ SetFile(d, "snap", Nil) /\ UNCHANGED deploy
       \/ FileOf(d, "snap") = Nil /\ SetFile(d, "mem", Nil) /\ Goto(d, "done")
    /\ UNCHANGED vm

\* Temporary files left behind are removed and a VM boots the image there is.
SnapshotBoots(d) ==
    /\ DeployAt(d, "boot") /\ FileOf(d, "ext4") # Nil
    /\ SetFiles(deploy[d].fn, [disk[deploy[d].fn] EXCEPT !["snap.tmp"] = Nil, !["mem.tmp"] = Nil])
    /\ deploy' = [deploy EXCEPT ![d].pc = "create", ![d].ran = FileOf(d, "ext4")]
    /\ UNCHANGED vm

Built(f) == {d \in Deploy : deploy[d].fn = f /\ deploy[d].built}
SnapshotCreated(d) ==
    /\ DeployAt(d, "create")
    /\ SetFiles(deploy[d].fn, [disk[deploy[d].fn] EXCEPT !["snap.tmp"] = d, !["mem.tmp"] = d])
    /\ deploy' = [deploy EXCEPT ![d].pc = "renameSnap", ![d].older = Built(deploy[d].fn)]
    /\ UNCHANGED vm

Renamed(f, from, to) == [disk[f] EXCEPT ![to] = disk[f][from], ![from] = Nil]

RenameSnap(d) ==
    /\ DeployAt(d, "renameSnap") /\ FileOf(d, "snap.tmp") # Nil
    /\ SetFiles(deploy[d].fn, Renamed(deploy[d].fn, "snap.tmp", "snap"))
    /\ Goto(d, "renameMem")
    /\ UNCHANGED vm

RenameMem(d) ==
    /\ DeployAt(d, "renameMem") /\ FileOf(d, "mem.tmp") # Nil
    /\ SetFiles(deploy[d].fn, Renamed(deploy[d].fn, "mem.tmp", "mem"))
    /\ Goto(d, "done")
    /\ UNCHANGED vm

\* The VM does not become ready, the snapshot cannot be written, or its files
\* are gone when they are renamed: the deploy succeeds without a new snapshot.
NoSnapshot(d) ==
    CASE deploy[d].pc \in {"boot", "create"} -> TRUE
      [] DeployAt(d, "renameSnap") -> FileOf(d, "snap.tmp") = Nil
      [] DeployAt(d, "renameMem") -> FileOf(d, "mem.tmp") = Nil
      [] OTHER -> FALSE

SnapshotFails(d) ==
    /\ NoSnapshot(d)
    /\ SetFiles(deploy[d].fn,
         IF deploy[d].pc \in {"renameSnap", "renameMem"} THEN disk[deploy[d].fn]
         ELSE [disk[deploy[d].fn] EXCEPT !["snap.tmp"] = Nil, !["mem.tmp"] = Nil])
    /\ Goto(d, "done")
    /\ UNCHANGED vm

\* The artifact-store is killed: each deploy ends where it is.
StoreCrash ==
    /\ \E d \in Deploy : deploy[d].pc \in Running
    /\ deploy' = [d \in Deploy |-> IF deploy[d].pc \in Running
                                   THEN [deploy[d] EXCEPT !.pc = "failed"] ELSE deploy[d]]
    /\ UNCHANGED <<disk, vm>>

-----------------------------------------------------------------------------
(* The pool-manager boots a VM: bootVM *)

BootAt(f, place) == vm[f].pc = place
BootGoto(f, place) == vm' = [vm EXCEPT ![f] = [NoVM EXCEPT !.pc = place]]
Has(f, s) == disk[f][s] # Nil

BootBegins(f) ==
    /\ BootAt(f, "none")
    /\ BootGoto(f, IF Has(f, "ext4") THEN "check" ELSE "none")
    /\ UNCHANGED <<disk, deploy>>

\* snapshotUsable: both files are there, and the first is newer than the image.
\* An image in the middle of its copy is newer than any snapshot.
SnapshotUsable_AnyAge(f) == Has(f, "snap") /\ Has(f, "mem") /\ Has(f, "ext4")
SnapshotUsable(f) ==
    /\ Has(f, "snap") /\ Has(f, "mem")
    /\ disk[f]["ext4"] \in deploy[disk[f]["snap"]].older

CheckSnapshot(f) ==
    /\ BootAt(f, "check")
    /\ BootGoto(f, IF SnapshotUsable(f) THEN "load" ELSE "cold")
    /\ UNCHANGED <<disk, deploy>>

\* The snapshot has the path of the image, which is opened again.
Restore(f) ==
    /\ BootAt(f, "load") /\ Has(f, "snap") /\ Has(f, "mem") /\ Has(f, "ext4")
    /\ vm' = [vm EXCEPT ![f] = [pc |-> "warm", image |-> disk[f]["ext4"],
                                snap |-> disk[f]["snap"], mem |-> disk[f]["mem"]]]
    /\ UNCHANGED <<disk, deploy>>

RestoreFails(f) ==
    /\ BootAt(f, "load")
    /\ BootGoto(f, "drop")
    /\ UNCHANGED <<disk, deploy>>

\* removeSnapshot
DropSnapshot(f) ==
    /\ BootAt(f, "drop")
    /\ SetFiles(f, IF Has(f, "snap") THEN [disk[f] EXCEPT !["snap"] = Nil]
                                     ELSE [disk[f] EXCEPT !["mem"] = Nil])
    /\ BootGoto(f, IF Has(f, "snap") THEN "drop" ELSE "cold")
    /\ UNCHANGED deploy

ColdBoot(f) ==
    /\ BootAt(f, "cold") /\ Has(f, "ext4")
    /\ vm' = [vm EXCEPT ![f] = [NoVM EXCEPT !.pc = "warm", !.image = disk[f]["ext4"]]]
    /\ UNCHANGED <<disk, deploy>>

\* The boot fails, the VM has been idle for too long, the manager is killed.
VMEnds(f) ==
    /\ vm[f].pc \in {"cold", "warm"}
    /\ BootGoto(f, "none")
    /\ UNCHANGED <<disk, deploy>>

-----------------------------------------------------------------------------
DeployRuns(d) ==
    \/ BuildEnds(d) \/ Install(d) \/ CopyBegins(d) \/ CopyEnds(d) \/ BuildFails(d) \/ OptOut(d)
    \/ SnapshotBoots(d) \/ SnapshotCreated(d) \/ RenameSnap(d) \/ RenameMem(d)
    \/ SnapshotFails(d)
Boot(f) ==
    \/ BootBegins(f) \/ CheckSnapshot(f) \/ Restore(f) \/ RestoreFails(f) \/ DropSnapshot(f)
    \/ ColdBoot(f) \/ VMEnds(f)
==============================================================================
