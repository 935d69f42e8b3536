--------------------------- MODULE FunctionPagesProofs ---------------------------
(***************************************************************************)
(* Proofs about the functions, their files and their pages, for any number *)
(* of functions, deploys and browsers.                                     *)
(***************************************************************************)
EXTENDS FunctionPagesProperties, TLAPS

-----------------------------------------------------------------------------
(* Types, and what the records of a handler mean at each place.             *)

LEMMA SuffixNames ==
    /\ Suffix = {"ext4", "snap", "mem", "snap.tmp", "mem.tmp"}
    /\ DOMAIN Suffixes = 1 .. 5 /\ Last = 5 /\ \A k \in 1 .. 5 : Suffixes[k] \in Suffix
    /\ Suffixes[1] = "ext4" /\ Suffixes[2] = "snap" /\ Suffixes[3] = "mem"
    /\ Suffixes[4] = "snap.tmp" /\ Suffixes[5] = "mem.tmp"
<1>1. /\ DOMAIN Suffixes = 1 .. 5 /\ Len(Suffixes) = 5
      /\ Suffixes[1] = "ext4" /\ Suffixes[2] = "snap" /\ Suffixes[3] = "mem"
      /\ Suffixes[4] = "snap.tmp" /\ Suffixes[5] = "mem.tmp"
  BY DEF Suffixes
<1>2. \A k \in 1 .. 5 : k = 1 \/ k = 2 \/ k = 3 \/ k = 4 \/ k = 5
  OBVIOUS
<1>3. Suffix = {"ext4", "snap", "mem", "snap.tmp", "mem.tmp"}
  <2>1. \A s \in Suffix : s \in {"ext4", "snap", "mem", "snap.tmp", "mem.tmp"}
    BY <1>1, <1>2 DEF Suffix
  <2>2. \A s \in {"ext4", "snap", "mem", "snap.tmp", "mem.tmp"} : s \in Suffix
    <3>1. /\ 1 \in DOMAIN Suffixes /\ 2 \in DOMAIN Suffixes /\ 3 \in DOMAIN Suffixes
          /\ 4 \in DOMAIN Suffixes /\ 5 \in DOMAIN Suffixes
      BY <1>1
    <3> QED
      BY <1>1, <3>1 DEF Suffix
  <2> QED
    BY <2>1, <2>2
<1> QED
  BY <1>1, <1>3 DEF Suffix, Last

Files == [Suffix -> Content]

DeploysOK ==
    /\ disk \in [Function -> Files]
    /\ deploy \in [Deploy -> Handler]
    /\ \A d \in Deploy : IF deploy[d].pc = "unused" THEN deploy[d] = NoDeploy
                                                   ELSE deploy[d].fn \in Function

\* What one step of the handler of deploy d leaves: c in its record, new in the
\* files of its function. A step of a copy changes the times of others' too.
Leaves(d, c, new) ==
    /\ deploy[d].pc \in Running /\ c.pc # "unused" /\ c.fn = deploy[d].fn
    /\ deploy' \in [Deploy -> Handler] /\ deploy'[d] = c
    /\ \A e \in Deploy \ {d} :
          /\ deploy'[e].pc = deploy[e].pc /\ deploy'[e].fn = deploy[e].fn
          /\ deploy'[e].ran = deploy[e].ran /\ deploy'[e].older \subseteq deploy[e].older
          /\ deploy[e].pc = "unused" => deploy'[e] = deploy[e]
    /\ new \in Files /\ disk' = [disk EXCEPT ![deploy[d].fn] = new]
    /\ UNCHANGED vm

Only(d, S, new) == \A s \in Suffix \ S : new[s] = disk[deploy[d].fn][s]
Tmps == {"snap.tmp", "mem.tmp"}

\* The steps one by one.
BuildStep(d, c, new) ==
    /\ deploy[d].pc = "build" /\ c.pc = "install"
    /\ Only(d, {}, new) /\ c.older = deploy[d].older
ImageStep(d, c, new) ==
    /\ deploy[d].pc \in {"install", "copy"} /\ new["ext4"] = d
    /\ c.pc \in {"boot", "optOut"} /\ Only(d, {"ext4"}, new) /\ c.older = deploy[d].older
    /\ deploy[d].pc = "copy" => \A e \in Deploy \ {d} : d \notin deploy'[e].older
CopyStep(d, c, new) ==
    /\ deploy[d].pc = "install" /\ new["ext4"] = Half
    /\ c.pc = "copy" /\ Only(d, {"ext4"}, new) /\ c.older = deploy[d].older
FailStep(d, c, new) ==
    /\ deploy[d].pc \in {"build", "copy"} /\ c.pc = "failed"
    /\ Only(d, {}, new) /\ c.older = deploy[d].older
OptOutStep(d, c, new) ==
    /\ deploy[d].pc = "optOut" /\ c.pc \in {"optOut", "done"}
    /\ \/ Only(d, {"snap"}, new) /\ new["snap"] = Nil
       \/ Only(d, {"mem"}, new) /\ new["mem"] = Nil
    /\ c.older = deploy[d].older
BootStep(d, c, new) ==
    /\ deploy[d].pc = "boot" /\ c.pc = "create" /\ c.ran = disk[deploy[d].fn]["ext4"]
    /\ Only(d, Tmps, new) /\ new["snap.tmp"] = Nil /\ new["mem.tmp"] = Nil
    /\ c.older = deploy[d].older
CreateStep(d, c, new) ==
    /\ deploy[d].pc = "create" /\ c.pc = "renameSnap" /\ c.ran = deploy[d].ran
    /\ Only(d, Tmps, new) /\ new["snap.tmp"] = d /\ new["mem.tmp"] = d
    /\ c.older = Built(deploy[d].fn)
RenameSnapStep(d, c, new) ==
    /\ deploy[d].pc = "renameSnap" /\ c.pc = "renameMem"
    /\ Only(d, {"snap", "snap.tmp"}, new)
    /\ new["snap"] = disk[deploy[d].fn]["snap.tmp"] /\ new["snap.tmp"] = Nil
    /\ c.older = deploy[d].older /\ c.ran = deploy[d].ran
RenameMemStep(d, c, new) ==
    /\ deploy[d].pc = "renameMem" /\ c.pc = "done"
    /\ Only(d, {"mem", "mem.tmp"}, new)
    /\ new["mem"] = disk[deploy[d].fn]["mem.tmp"] /\ new["mem.tmp"] = Nil
    /\ c.older = deploy[d].older /\ c.ran = deploy[d].ran
NoSnapshotStep(d, c, new) ==
    /\ c.pc = "done" /\ c.older = deploy[d].older /\ c.ran = deploy[d].ran
    /\ \/ /\ deploy[d].pc \in {"boot", "create"} /\ Only(d, Tmps, new)
          /\ new["snap.tmp"] = Nil /\ new["mem.tmp"] = Nil
       \/ /\ deploy[d].pc = "renameSnap" /\ disk[deploy[d].fn]["snap.tmp"] = Nil
          /\ Only(d, {}, new)
       \/ /\ deploy[d].pc = "renameMem" /\ disk[deploy[d].fn]["mem.tmp"] = Nil
          /\ Only(d, {}, new)

HandlerStep(d, c, new) ==
    \/ BuildStep(d, c, new) \/ ImageStep(d, c, new) \/ CopyStep(d, c, new)
    \/ FailStep(d, c, new) \/ OptOutStep(d, c, new) \/ BootStep(d, c, new)
    \/ CreateStep(d, c, new) \/ RenameSnapStep(d, c, new) \/ RenameMemStep(d, c, new)
    \/ NoSnapshotStep(d, c, new)

LEMMA DeploySteps ==
    ASSUME DeploysOK, NEW d \in Deploy, DeployRuns(d)
    PROVE  \E c, new : Leaves(d, c, new) /\ HandlerStep(d, c, new)
<1> DEFINE a == deploy[d]
           f == deploy[d].fn
           old == disk[f]
<1>0. /\ disk \in [Function -> Files] /\ deploy \in [Deploy -> Handler] /\ a \in Handler
      /\ a.pc # "unused" => f \in Function /\ old \in Files
  BY DEF DeploysOK
<1>a. \A s \in Suffix : s \in {"ext4", "snap", "mem", "snap.tmp", "mem.tmp"}
  BY SuffixNames
<1>b. {"ext4", "snap", "mem", "snap.tmp", "mem.tmp"} \subseteq Suffix
  BY SuffixNames
<1>c. d \in Content /\ Nil \in Content /\ Half \in Content
  BY DEF Content
<1>d. Running = {"build", "install", "copy", "optOut", "boot", "create", "renameSnap", "renameMem"}
  BY DEF Running
\* The record of d changes to c, and the files of f to new.
<1>1. ASSUME NEW c \in Handler, NEW new \in Files, a.pc \in Running, c.pc # "unused",
             c.fn = f, deploy' = [deploy EXCEPT ![d] = c],
             disk' = [disk EXCEPT ![f] = new], UNCHANGED vm
      PROVE  Leaves(d, c, new)
  BY <1>0, <1>1 DEF Leaves
<1>2. ASSUME BuildEnds(d) PROVE \E c, new : Leaves(d, c, new) /\ BuildStep(d, c, new)
  <2> DEFINE c == [deploy[d] EXCEPT !.pc = "install", !.built = TRUE]
  <2>1. /\ a.pc = "build" /\ deploy' = [deploy EXCEPT ![d] = c] /\ UNCHANGED <<disk, vm>>
    BY <1>0, <1>2 DEF BuildEnds, DeployAt
  <2>2. c \in Handler /\ c.pc = "install" /\ c.fn = f /\ c.older = a.older
    BY <1>0 DEF Handler, Running
  <2> HIDE DEF c
  <2>3. disk' = [disk EXCEPT ![f] = old] /\ old \in Files
    BY <1>0, <2>1
  <2>4. Leaves(d, c, old)
    BY <1>1, <1>d, <2>1, <2>2, <2>3
  <2>5. BuildStep(d, c, old)
    BY <2>1, <2>2 DEF BuildStep, Only
  <2> QED
    BY <2>4, <2>5
<1>3. ASSUME Install(d) PROVE \E c, new : Leaves(d, c, new) /\ ImageStep(d, c, new)
  <2> DEFINE c == [deploy[d] EXCEPT !.pc = AfterImage(d), !.snapshot = FALSE]
             new == [old EXCEPT !["ext4"] = d]
  <2>1. /\ a.pc = "install" /\ deploy' = [deploy EXCEPT ![d] = c] /\ UNCHANGED vm
        /\ disk' = [disk EXCEPT ![f] = new]
    BY <1>0, <1>3 DEF Install, DeployAt, GotoSnapshot, SetFile, SetFiles
  <2>2. AfterImage(d) \in {"boot", "optOut"}
    BY DEF AfterImage
  <2>3. c \in Handler /\ c.pc \in {"boot", "optOut"} /\ c.fn = f /\ c.older = a.older
    BY <1>0, <2>2 DEF Handler, Running
  <2>4. new \in Files /\ new["ext4"] = d /\ Only(d, {"ext4"}, new)
    BY <1>0, <1>b, <1>c, <1>d, <2>1 DEF Only, Files
  <2> HIDE DEF c, new
  <2>5. Leaves(d, c, new)
    BY <1>1, <1>d, <2>1, <2>3, <2>4
  <2>6. ImageStep(d, c, new)
    BY <2>1, <2>3, <2>4 DEF ImageStep
  <2> QED
    BY <2>5, <2>6
<1>4. ASSUME CopyBegins(d) PROVE \E c, new : Leaves(d, c, new) /\ CopyStep(d, c, new)
  <2> DEFINE c == [deploy[d] EXCEPT !.pc = "copy"]
             new == [old EXCEPT !["ext4"] = Half]
  <2>1. /\ a.pc = "install" /\ deploy' = [deploy EXCEPT ![d] = c] /\ UNCHANGED vm
        /\ disk' = [disk EXCEPT ![f] = new]
    BY <1>0, <1>4 DEF CopyBegins, DeployAt, Goto, SetFile, SetFiles
  <2>2. c \in Handler /\ c.pc = "copy" /\ c.fn = f /\ c.older = a.older
    BY <1>0 DEF Handler, Running
  <2>3. new \in Files /\ new["ext4"] = Half /\ Only(d, {"ext4"}, new)
    BY <1>0, <1>b, <1>c, <1>d, <2>1 DEF Only, Files
  <2> HIDE DEF c, new
  <2>4. Leaves(d, c, new)
    BY <1>1, <1>d, <2>1, <2>2, <2>3
  <2>5. CopyStep(d, c, new)
    BY <2>1, <2>2, <2>3 DEF CopyStep
  <2> QED
    BY <2>4, <2>5
<1>5. ASSUME CopyEnds(d) PROVE \E c, new : Leaves(d, c, new) /\ ImageStep(d, c, new)
  <2> DEFINE c == [deploy[d] EXCEPT !.pc = AfterImage(d), !.snapshot = FALSE]
             new == [old EXCEPT !["ext4"] = d]
             Dated(e) == [deploy[e] EXCEPT !.older = deploy[e].older \ {d}]
  <2>1. /\ a.pc = "copy" /\ UNCHANGED vm
        /\ disk' = [disk EXCEPT ![f] = new]
        /\ deploy' = [e \in Deploy |-> IF e = d THEN c ELSE Dated(e)]
    BY <1>0, <1>5 DEF CopyEnds, DeployAt, SetFile, SetFiles
  <2>2. AfterImage(d) \in {"boot", "optOut"}
    BY DEF AfterImage
  <2>3. c \in Handler /\ c.pc \in {"boot", "optOut"} /\ c.fn = f /\ c.older = a.older
    BY <1>0, <2>2 DEF Handler, Running
  <2>4. new \in Files /\ new["ext4"] = d /\ Only(d, {"ext4"}, new)
    BY <1>0, <1>b, <1>c, <1>d, <2>1 DEF Only, Files
  <2>5. ASSUME NEW e \in Deploy
        PROVE  /\ Dated(e) \in Handler /\ Dated(e).pc = deploy[e].pc
               /\ Dated(e).fn = deploy[e].fn /\ Dated(e).ran = deploy[e].ran
               /\ Dated(e).older = deploy[e].older \ {d}
    <3>1. deploy[e] \in Handler
      BY <1>0
    <3> QED
      BY <3>1 DEF Handler
  <2>6. ASSUME NEW e \in Deploy, deploy[e].pc = "unused" PROVE Dated(e) = deploy[e]
    <3>1. deploy[e] = NoDeploy /\ deploy[e].older = deploy[e].older \ {d}
      BY <2>6 DEF DeploysOK, NoDeploy
    <3> QED
      BY <3>1 DEF NoDeploy
  <2> HIDE DEF c, new, Dated
  <2>7. /\ deploy' \in [Deploy -> Handler] /\ deploy'[d] = c
        /\ \A e \in Deploy \ {d} : deploy'[e] = Dated(e)
    BY <2>1, <2>3, <2>5
  <2>8. Leaves(d, c, new)
    BY <1>d, <2>1, <2>3, <2>4, <2>5, <2>6, <2>7 DEF Leaves
  <2>9. ImageStep(d, c, new)
    BY <2>1, <2>3, <2>4, <2>5, <2>7 DEF ImageStep
  <2> QED
    BY <2>8, <2>9
<1>6. ASSUME BuildFails(d) PROVE \E c, new : Leaves(d, c, new) /\ FailStep(d, c, new)
  <2> DEFINE c == [deploy[d] EXCEPT !.pc = "failed"]
  <2>1. /\ a.pc \in {"build", "copy"} /\ deploy' = [deploy EXCEPT ![d] = c]
        /\ UNCHANGED <<disk, vm>>
    BY <1>0, <1>6 DEF BuildFails, Goto
  <2>2. c \in Handler /\ c.pc = "failed" /\ c.fn = f /\ c.older = a.older
    BY <1>0 DEF Handler, Running
  <2> HIDE DEF c
  <2>3. disk' = [disk EXCEPT ![f] = old] /\ old \in Files
    BY <1>0, <2>1
  <2>4. Leaves(d, c, old)
    BY <1>1, <1>d, <2>1, <2>2, <2>3
  <2>5. FailStep(d, c, old)
    BY <2>1, <2>2 DEF FailStep, Only
  <2> QED
    BY <2>4, <2>5
<1>7. ASSUME OptOut(d) PROVE \E c, new : Leaves(d, c, new) /\ OptOutStep(d, c, new)
  <2>1. a.pc = "optOut" /\ UNCHANGED vm
    BY <1>7 DEF OptOut, DeployAt
  <2>2. CASE FileOf(d, "snap") # Nil
    <3> DEFINE new == [old EXCEPT !["snap"] = Nil]
    <3>1. disk' = [disk EXCEPT ![f] = new] /\ deploy' = [deploy EXCEPT ![d] = a]
      BY <1>0, <1>7, <2>2 DEF OptOut, SetFile, SetFiles
    <3>2. new \in Files /\ new["snap"] = Nil /\ Only(d, {"snap"}, new)
      BY <1>0, <1>b, <1>c, <1>d, <2>1 DEF Only, Files
    <3> HIDE DEF new
    <3>3. Leaves(d, a, new)
      BY <1>0, <1>1, <1>d, <2>1, <3>1, <3>2
    <3>4. OptOutStep(d, a, new)
      BY <2>1, <3>2 DEF OptOutStep
    <3> QED
      BY <3>3, <3>4
  <2>3. CASE FileOf(d, "snap") = Nil
    <3> DEFINE new == [old EXCEPT !["mem"] = Nil]
               c == [deploy[d] EXCEPT !.pc = "done"]
    <3>1. disk' = [disk EXCEPT ![f] = new] /\ deploy' = [deploy EXCEPT ![d] = c]
      BY <1>0, <1>7, <2>3 DEF OptOut, SetFile, SetFiles, Goto
    <3>2. new \in Files /\ new["mem"] = Nil /\ Only(d, {"mem"}, new)
      BY <1>0, <1>b, <1>c, <1>d, <2>1 DEF Only, Files
    <3>3. c \in Handler /\ c.pc = "done" /\ c.fn = f /\ c.older = a.older
      BY <1>0 DEF Handler
    <3> HIDE DEF new, c
    <3>4. Leaves(d, c, new)
      BY <1>1, <1>d, <2>1, <3>1, <3>2, <3>3
    <3>5. OptOutStep(d, c, new)
      BY <2>1, <3>2, <3>3 DEF OptOutStep
    <3> QED
      BY <3>4, <3>5
  <2> QED
    BY <2>2, <2>3
<1>8. ASSUME SnapshotBoots(d) PROVE \E c, new : Leaves(d, c, new) /\ BootStep(d, c, new)
  <2> DEFINE c == [deploy[d] EXCEPT !.pc = "create", !.ran = FileOf(d, "ext4")]
             new == [old EXCEPT !["snap.tmp"] = Nil, !["mem.tmp"] = Nil]
  <2>1. /\ a.pc = "boot" /\ deploy' = [deploy EXCEPT ![d] = c] /\ UNCHANGED vm
        /\ disk' = [disk EXCEPT ![f] = new]
    BY <1>0, <1>8 DEF SnapshotBoots, DeployAt, SetFiles
  <2>2. FileOf(d, "ext4") \in Content /\ FileOf(d, "ext4") = old["ext4"]
    BY <1>0, <1>b, <1>d, <2>1 DEF FileOf, Files
  <2>3. /\ c \in Handler /\ c.pc = "create" /\ c.fn = f /\ c.older = a.older
        /\ c.ran = old["ext4"]
    BY <1>0, <2>2 DEF Handler, Running
  <2>4. /\ new \in Files /\ new["snap.tmp"] = Nil /\ new["mem.tmp"] = Nil
        /\ Only(d, Tmps, new)
    BY <1>0, <1>b, <1>c, <1>d, <2>1 DEF Only, Files, Tmps
  <2> HIDE DEF c, new
  <2>5. Leaves(d, c, new)
    BY <1>1, <1>d, <2>1, <2>3, <2>4
  <2>6. BootStep(d, c, new)
    BY <2>1, <2>3, <2>4 DEF BootStep
  <2> QED
    BY <2>5, <2>6
<1>9. ASSUME SnapshotCreated(d) PROVE \E c, new : Leaves(d, c, new) /\ CreateStep(d, c, new)
  <2> DEFINE c == [deploy[d] EXCEPT !.pc = "renameSnap", !.older = Built(f)]
             new == [old EXCEPT !["snap.tmp"] = d, !["mem.tmp"] = d]
  <2>1. /\ a.pc = "create" /\ deploy' = [deploy EXCEPT ![d] = c] /\ UNCHANGED vm
        /\ disk' = [disk EXCEPT ![f] = new]
    BY <1>0, <1>9 DEF SnapshotCreated, DeployAt, SetFiles
  <2>2. Built(f) \subseteq Deploy
    BY DEF Built
  <2>3. /\ c \in Handler /\ c.pc = "renameSnap" /\ c.fn = f /\ c.older = Built(f)
        /\ c.ran = a.ran
    BY <1>0, <2>2 DEF Handler, Running
  <2>4. /\ new \in Files /\ new["snap.tmp"] = d /\ new["mem.tmp"] = d
        /\ Only(d, Tmps, new)
    BY <1>0, <1>b, <1>c, <1>d, <2>1 DEF Only, Files, Tmps
  <2> HIDE DEF c, new
  <2>5. Leaves(d, c, new)
    BY <1>1, <1>d, <2>1, <2>3, <2>4
  <2>6. CreateStep(d, c, new)
    BY <2>1, <2>3, <2>4 DEF CreateStep
  <2> QED
    BY <2>5, <2>6
<1>10. ASSUME NEW from \in Suffix, NEW to \in Suffix, from # to, f \in Function
       PROVE  LET new == Renamed(f, from, to)
              IN  /\ new \in Files /\ new[to] = old[from] /\ new[from] = Nil
                  /\ Only(d, {to, from}, new)
  BY <1>0, <1>10, <1>c DEF Renamed, Only, Files
<1>11. ASSUME RenameSnap(d) PROVE \E c, new : Leaves(d, c, new) /\ RenameSnapStep(d, c, new)
  <2> DEFINE c == [deploy[d] EXCEPT !.pc = "renameMem"]
             new == Renamed(f, "snap.tmp", "snap")
  <2>1. /\ a.pc = "renameSnap" /\ deploy' = [deploy EXCEPT ![d] = c] /\ UNCHANGED vm
        /\ disk' = [disk EXCEPT ![f] = new]
    BY <1>0, <1>11 DEF RenameSnap, DeployAt, SetFiles, Goto
  <2>2. /\ c \in Handler /\ c.pc = "renameMem" /\ c.fn = f /\ c.older = a.older
        /\ c.ran = a.ran
    BY <1>0 DEF Handler, Running
  <2>3. /\ new \in Files /\ new["snap"] = old["snap.tmp"] /\ new["snap.tmp"] = Nil
        /\ Only(d, {"snap", "snap.tmp"}, new)
    BY <1>0, <1>10, <1>b, <2>1
  <2> HIDE DEF c, new
  <2>4. Leaves(d, c, new)
    BY <1>1, <1>d, <2>1, <2>2, <2>3
  <2>5. RenameSnapStep(d, c, new)
    BY <2>1, <2>2, <2>3 DEF RenameSnapStep
  <2> QED
    BY <2>4, <2>5
<1>12. ASSUME RenameMem(d) PROVE \E c, new : Leaves(d, c, new) /\ RenameMemStep(d, c, new)
  <2> DEFINE c == [deploy[d] EXCEPT !.pc = "done"]
             new == Renamed(f, "mem.tmp", "mem")
  <2>1. /\ a.pc = "renameMem" /\ deploy' = [deploy EXCEPT ![d] = c] /\ UNCHANGED vm
        /\ disk' = [disk EXCEPT ![f] = new]
    BY <1>0, <1>12 DEF RenameMem, DeployAt, SetFiles, Goto
  <2>2. /\ c \in Handler /\ c.pc = "done" /\ c.fn = f /\ c.older = a.older
        /\ c.ran = a.ran
    BY <1>0 DEF Handler
  <2>3. /\ new \in Files /\ new["mem"] = old["mem.tmp"] /\ new["mem.tmp"] = Nil
        /\ Only(d, {"mem", "mem.tmp"}, new)
    BY <1>0, <1>10, <1>b, <2>1
  <2> HIDE DEF c, new
  <2>4. Leaves(d, c, new)
    BY <1>1, <1>d, <2>1, <2>2, <2>3
  <2>5. RenameMemStep(d, c, new)
    BY <2>1, <2>2, <2>3 DEF RenameMemStep
  <2> QED
    BY <2>4, <2>5
<1>13. ASSUME SnapshotFails(d) PROVE \E c, new : Leaves(d, c, new) /\ NoSnapshotStep(d, c, new)
  <2> DEFINE c == [deploy[d] EXCEPT !.pc = "done"]
             clean == [old EXCEPT !["snap.tmp"] = Nil, !["mem.tmp"] = Nil]
             new == IF a.pc \in {"renameSnap", "renameMem"} THEN old ELSE clean
  <2>1. /\ deploy' = [deploy EXCEPT ![d] = c] /\ UNCHANGED vm
        /\ disk' = [disk EXCEPT ![f] = new]
    BY <1>0, <1>13 DEF SnapshotFails, SetFiles, Goto
  <2>2. \/ a.pc \in {"boot", "create"}
        \/ a.pc = "renameSnap" /\ old["snap.tmp"] = Nil
        \/ a.pc = "renameMem" /\ old["mem.tmp"] = Nil
    BY <1>13 DEF SnapshotFails, NoSnapshot, DeployAt, FileOf
  <2>3. /\ c \in Handler /\ c.pc = "done" /\ c.fn = f /\ c.older = a.older
        /\ c.ran = a.ran
    BY <1>0 DEF Handler
  <2>4. f \in Function /\ old \in Files
    BY <1>0, <2>2
  <2>5. /\ clean \in Files /\ clean["snap.tmp"] = Nil /\ clean["mem.tmp"] = Nil
        /\ Only(d, Tmps, clean)
    BY <1>b, <1>c, <2>4 DEF Only, Files, Tmps
  <2>6. new \in Files
    BY <2>4, <2>5
  <2>7. Only(d, {}, old)
    BY DEF Only
  <2> HIDE DEF c, clean
  <2>8. NoSnapshotStep(d, c, new)
    BY <2>2, <2>3, <2>5, <2>7 DEF NoSnapshotStep
  <2> HIDE DEF new
  <2>9. Leaves(d, c, new)
    BY <1>1, <1>d, <2>1, <2>2, <2>3, <2>6
  <2> QED
    BY <2>8, <2>9
<1> QED
  BY <1>2, <1>3, <1>4, <1>5, <1>6, <1>7, <1>8, <1>9, <1>11, <1>12, <1>13
  DEF DeployRuns, HandlerStep

\* A file of function f is removed; nothing if it is not there.
Erases(f, s) == disk' = [disk EXCEPT ![f] = [disk[f] EXCEPT ![s] = Nil]]

LEMMA ErasesOne ==
    ASSUME DeploysOK, NEW f \in Function, NEW s \in Suffix, Erases(f, s)
    PROVE  /\ disk' \in [Function -> Files] /\ disk'[f][s] = Nil
           /\ \A g \in Function \ {f} : disk'[g] = disk[g]
           /\ \A r \in Suffix \ {s} : disk'[f][r] = disk[f][r]
           /\ \A r \in Suffix : disk'[f][r] \in {disk[f][r], Nil}
<1> DEFINE new == [disk[f] EXCEPT ![s] = Nil]
<1>1. disk \in [Function -> Files] /\ disk[f] \in Files /\ Nil \in Content
  BY DEF DeploysOK, Content
<1>2. /\ new \in Files /\ new[s] = Nil /\ \A r \in Suffix \ {s} : new[r] = disk[f][r]
  BY <1>1 DEF Files
<1>3. disk' = [disk EXCEPT ![f] = new]
  BY DEF Erases
<1> HIDE DEF new
<1>4. disk' \in [Function -> Files] /\ disk'[f] = new
      /\ \A g \in Function \ {f} : disk'[g] = disk[g]
  BY <1>1, <1>2, <1>3
<1> QED
  BY <1>2, <1>4

\* The steps of a boot: they take a snapshot away at most.
LEMMA BootSteps ==
    ASSUME DeploysOK, vm \in [Function -> VM], NEW f \in Function, Boot(f)
    PROVE  /\ vm' \in [Function -> VM] /\ UNCHANGED deploy
           /\ \A g \in Function \ {f} : vm'[g] = vm[g]
           /\ UNCHANGED disk \/ \E s \in {"snap", "mem"} : Erases(f, s)
           /\ BootAt(f, "check") /\ BootAt(f, "load")' => SnapshotUsable(f) /\ UNCHANGED disk
<1>1. ASSUME NEW v \in VM, vm' = [vm EXCEPT ![f] = v]
      PROVE  /\ vm' \in [Function -> VM] /\ vm'[f] = v
             /\ \A g \in Function \ {f} : vm'[g] = vm[g]
  BY <1>1
<1>2. ASSUME NEW place \in {"none", "check", "load", "drop", "cold", "warm"}
      PROVE  [NoVM EXCEPT !.pc = place] \in VM /\ [NoVM EXCEPT !.pc = place].pc = place
  BY DEF NoVM, VM, Content
<1>3. ASSUME NEW place \in {"none", "check", "load", "drop", "cold", "warm"}, BootGoto(f, place)
      PROVE  /\ vm' \in [Function -> VM] /\ vm'[f].pc = place
             /\ \A g \in Function \ {f} : vm'[g] = vm[g]
  BY <1>1, <1>2, <1>3 DEF BootGoto
<1>4. ASSUME NEW s \in Suffix PROVE disk[f][s] \in Content
  BY DEF DeploysOK, Files
<1>a. "ext4" \in Suffix /\ "snap" \in Suffix /\ "mem" \in Suffix
  BY SuffixNames
<1>5. CASE BootBegins(f)
  <2>1. vm[f].pc = "none" /\ UNCHANGED <<disk, deploy>>
    BY <1>5 DEF BootBegins, BootAt
  <2> QED
    BY <1>3, <1>5, <2>1 DEF BootBegins, BootAt
<1>6. CASE CheckSnapshot(f)
  <2>1. CASE SnapshotUsable(f)
    BY <1>3, <1>6, <2>1 DEF CheckSnapshot
  <2>2. CASE ~ SnapshotUsable(f)
    <3>1. BootGoto(f, "cold") /\ UNCHANGED <<disk, deploy>>
      BY <1>6, <2>2 DEF CheckSnapshot
    <3>2. ~ BootAt(f, "load")'
      BY <1>3, <3>1 DEF BootAt
    <3> QED
      BY <1>3, <3>1, <3>2
  <2> QED
    BY <2>1, <2>2
<1>7. CASE Restore(f)
  <2> DEFINE v == [pc |-> "warm", image |-> disk[f]["ext4"], snap |-> disk[f]["snap"],
                   mem |-> disk[f]["mem"]]
  <2>1. v \in VM
    BY <1>4, <1>a DEF VM
  <2>2. vm' = [vm EXCEPT ![f] = v] /\ UNCHANGED <<disk, deploy>> /\ ~ BootAt(f, "check")
    BY <1>7 DEF Restore, BootAt
  <2> HIDE DEF v
  <2> QED
    BY <1>1, <2>1, <2>2
<1>8. CASE RestoreFails(f)
  <2>1. BootGoto(f, "drop") /\ UNCHANGED <<disk, deploy>> /\ ~ BootAt(f, "check")
    BY <1>8 DEF RestoreFails, BootAt
  <2> QED
    BY <1>3, <2>1
<1>9. CASE DropSnapshot(f)
  <2>1. ~ BootAt(f, "check") /\ UNCHANGED deploy
    BY <1>9 DEF DropSnapshot, BootAt
  <2>2. CASE Has(f, "snap")
    <3>1. Erases(f, "snap") /\ BootGoto(f, "drop")
      BY <1>9, <2>2 DEF DropSnapshot, SetFiles, Erases
    <3> QED
      BY <1>3, <2>1, <3>1
  <2>3. CASE ~ Has(f, "snap")
    <3>1. Erases(f, "mem") /\ BootGoto(f, "cold")
      BY <1>9, <2>3 DEF DropSnapshot, SetFiles, Erases
    <3> QED
      BY <1>3, <2>1, <3>1
  <2> QED
    BY <2>2, <2>3
<1>10. CASE ColdBoot(f)
  <2> DEFINE v == [NoVM EXCEPT !.pc = "warm", !.image = disk[f]["ext4"]]
  <2>1. v \in VM
    BY <1>4, <1>a DEF VM, NoVM, Content
  <2>2. vm' = [vm EXCEPT ![f] = v] /\ UNCHANGED <<disk, deploy>> /\ ~ BootAt(f, "check")
    BY <1>10 DEF ColdBoot, BootAt
  <2> HIDE DEF v
  <2> QED
    BY <1>1, <2>1, <2>2
<1>11. CASE VMEnds(f)
  <2>1. BootGoto(f, "none") /\ UNCHANGED <<disk, deploy>> /\ ~ BootAt(f, "check")
    BY <1>11 DEF VMEnds, BootAt
  <2> QED
    BY <1>3, <2>1
<1> QED
  BY <1>5, <1>6, <1>7, <1>8, <1>9, <1>10, <1>11 DEF Boot

LEMMA ArrivalSteps ==
    ASSUME DeploysOK, NEW d \in Deploy, NEW f \in Function, NEW w \in BOOLEAN,
           DeployArrives(d, f, w)
    PROVE  /\ deploy[d].pc = "unused" /\ deploy[d].older = {} /\ deploy[d].fn = Nil
           /\ deploy' \in [Deploy -> Handler]
           /\ deploy'[d].pc = "build" /\ deploy'[d].fn = f /\ deploy'[d].older = {}
           /\ \A e \in Deploy \ {d} : deploy'[e] = deploy[e]
           /\ UNCHANGED <<disk, vm>>
<1> DEFINE c == [NoDeploy EXCEPT !.pc = "build", !.fn = f, !.snapshot = w]
<1>1. c \in Handler /\ c.pc = "build" /\ c.fn = f /\ c.older = {}
  <2>1. "build" \in Running /\ Nil \in Content
    BY DEF Running, Content
  <2> QED
    BY <2>1 DEF NoDeploy, Handler
<1>2. /\ deploy[d].pc = "unused" /\ deploy' = [deploy EXCEPT ![d] = c]
      /\ UNCHANGED <<disk, vm>>
  BY DEF DeployArrives, DeployAt
<1>3. deploy[d] = NoDeploy
  BY <1>2 DEF DeploysOK
<1>4. deploy[d].older = {} /\ deploy[d].fn = Nil
  BY <1>3 DEF NoDeploy
<1> HIDE DEF c
<1> QED
  BY <1>1, <1>2, <1>4 DEF DeploysOK

LEMMA CrashSteps ==
    ASSUME DeploysOK, StoreCrash
    PROVE  /\ deploy' \in [Deploy -> Handler] /\ UNCHANGED <<disk, vm>>
           /\ \A e \in Deploy :
                 /\ deploy[e].pc \in Running => deploy'[e].pc = "failed"
                 /\ deploy[e].pc \notin Running => deploy'[e] = deploy[e]
                 /\ deploy'[e].fn = deploy[e].fn /\ deploy'[e].older = deploy[e].older
                 /\ deploy'[e].ran = deploy[e].ran /\ deploy'[e].pc \notin Running
<1> DEFINE Killed(e) == [deploy[e] EXCEPT !.pc = "failed"]
<1>1. ASSUME NEW e \in Deploy
      PROVE  /\ Killed(e) \in Handler /\ Killed(e).pc = "failed" /\ Killed(e).fn = deploy[e].fn
             /\ Killed(e).older = deploy[e].older /\ Killed(e).ran = deploy[e].ran
             /\ deploy[e] \in Handler
  <2>1. deploy[e] \in Handler
    BY DEF DeploysOK
  <2> QED
    BY <2>1 DEF Handler
<1>2. /\ deploy' = [e \in Deploy |-> IF deploy[e].pc \in Running THEN Killed(e) ELSE deploy[e]]
      /\ UNCHANGED <<disk, vm>>
  BY DEF StoreCrash
<1>3. "failed" \notin Running
  BY DEF Running
<1> HIDE DEF Killed
<1> QED
  BY <1>1, <1>2, <1>3

ArtifactsOK == DeploysOK /\ vm \in [Function -> VM]

ArtifactsNext ==
    \/ \E d \in Deploy, f \in Function, w \in BOOLEAN : DeployArrives(d, f, w)
    \/ \E d \in Deploy : DeployRuns(d)
    \/ StoreCrash
    \/ \E f \in Function : Boot(f)
    \/ \E f \in Function, s \in Suffix : Erases(f, s) /\ UNCHANGED <<deploy, vm>>
    \/ UNCHANGED artifactVars

LEMMA ArtifactsKept == ArtifactsOK /\ ArtifactsNext => ArtifactsOK'
<1> SUFFICES ASSUME ArtifactsOK, ArtifactsNext PROVE ArtifactsOK'
  OBVIOUS
<1>0. DeploysOK /\ vm \in [Function -> VM]
  BY DEF ArtifactsOK
<1>1. ASSUME NEW d \in Deploy, NEW f \in Function, NEW w \in BOOLEAN, DeployArrives(d, f, w)
      PROVE  ArtifactsOK'
  <2>1. /\ deploy' \in [Deploy -> Handler] /\ deploy'[d].pc = "build" /\ deploy'[d].fn = f
        /\ \A e \in Deploy \ {d} : deploy'[e] = deploy[e]
        /\ UNCHANGED <<disk, vm>>
    BY <1>0, <1>1, ArrivalSteps
  <2> QED
    BY <1>0, <2>1 DEF ArtifactsOK, DeploysOK
<1>2. ASSUME NEW d \in Deploy, DeployRuns(d) PROVE ArtifactsOK'
  <2>1. PICK c, new : Leaves(d, c, new)
    BY <1>0, <1>2, DeploySteps
  <2>2. deploy[d].fn \in Function
    BY <1>0, <2>1 DEF DeploysOK, Leaves, Running
  <2>3. disk' \in [Function -> Files]
    BY <1>0, <2>1, <2>2 DEF Leaves, DeploysOK
  <2>4. ASSUME NEW e \in Deploy
        PROVE IF deploy'[e].pc = "unused" THEN deploy'[e] = NoDeploy
                                          ELSE deploy'[e].fn \in Function
    BY <1>0, <2>1, <2>2 DEF Leaves, DeploysOK
  <2> QED
    BY <1>0, <2>1, <2>3, <2>4 DEF ArtifactsOK, DeploysOK, Leaves
<1>3. ASSUME StoreCrash PROVE ArtifactsOK'
  <2>1. /\ deploy' \in [Deploy -> Handler] /\ UNCHANGED <<disk, vm>>
        /\ \A e \in Deploy :
              /\ deploy[e].pc \in Running => deploy'[e].pc = "failed"
              /\ deploy[e].pc \notin Running => deploy'[e] = deploy[e]
              /\ deploy'[e].fn = deploy[e].fn
    BY <1>0, <1>3, CrashSteps
  <2>2. "unused" \notin Running
    BY DEF Running
  <2> QED
    BY <1>0, <2>1, <2>2 DEF ArtifactsOK, DeploysOK
<1>4. ASSUME NEW f \in Function, NEW s \in Suffix, Erases(f, s), UNCHANGED deploy,
             vm' \in [Function -> VM]
      PROVE  ArtifactsOK'
  BY <1>0, <1>4, ErasesOne DEF ArtifactsOK, DeploysOK
<1>5. ASSUME NEW f \in Function, Boot(f) PROVE ArtifactsOK'
  <2>1. /\ vm' \in [Function -> VM] /\ UNCHANGED deploy
        /\ UNCHANGED disk \/ \E s \in {"snap", "mem"} : Erases(f, s)
    BY <1>0, <1>5, BootSteps
  <2>2. CASE UNCHANGED disk
    BY <1>0, <2>1, <2>2 DEF ArtifactsOK, DeploysOK
  <2>3. CASE \E s \in {"snap", "mem"} : Erases(f, s)
    BY <1>4, <2>1, <2>3, SuffixNames
  <2> QED
    BY <2>1, <2>2, <2>3
<1>6. ASSUME UNCHANGED artifactVars PROVE ArtifactsOK'
  BY <1>0, <1>6 DEF ArtifactsOK, DeploysOK, artifactVars
<1> QED
  BY <1>0, <1>1, <1>2, <1>3, <1>4, <1>5, <1>6 DEF ArtifactsNext

PagesOK ==
    /\ row \in [Function -> RowStates]
    /\ tab \in [Tab -> TabState]
    /\ removal \in [Tab -> Removal]
    /\ \A t \in Tab : tab[t].pc \in {"send", "deploy"} =>
          tab[t].fn \in Function /\ row[tab[t].fn] # "none"
    /\ \A t \in Tab : removal[t].pc \in {"call", "erase", "update"} => removal[t].fn \in Function
    /\ \A t \in Tab : removal[t].pc = "call" => removal[t].next = 1

LEMMA Records ==
    /\ \A p \in {"idle", "register", "rollback", "delete"} :
          [Idle EXCEPT !.pc = p] \in TabState /\ [Idle EXCEPT !.pc = p].pc = p
    /\ Idle \in TabState /\ Idle.pc = "idle"
    /\ \A f \in Function : LET c == [Idle EXCEPT !.pc = "send", !.fn = f]
                           IN  c \in TabState /\ c.pc = "send" /\ c.fn = f
    /\ \A p \in {"ok", "failed"} :
          [NoRemoval EXCEPT !.pc = p] \in Removal /\ [NoRemoval EXCEPT !.pc = p].pc = p
    /\ \A f \in Function : LET c == [NoRemoval EXCEPT !.pc = "call", !.fn = f]
                           IN  c \in Removal /\ c.pc = "call" /\ c.fn = f /\ c.next = 1
<1>1. Idle \in TabState /\ Idle.pc = "idle"
  BY DEF Idle, TabState
<1>2. \A p \in {"idle", "register", "rollback", "delete"} :
         [Idle EXCEPT !.pc = p] \in TabState /\ [Idle EXCEPT !.pc = p].pc = p
  BY DEF Idle, TabState
<1>3. \A f \in Function : LET c == [Idle EXCEPT !.pc = "send", !.fn = f]
                          IN  c \in TabState /\ c.pc = "send" /\ c.fn = f
  BY DEF Idle, TabState
<1>4. \A p \in {"ok", "failed"} :
         [NoRemoval EXCEPT !.pc = p] \in Removal /\ [NoRemoval EXCEPT !.pc = p].pc = p
  BY SuffixNames DEF NoRemoval, Removal
<1>5. ASSUME NEW f \in Function
      PROVE  LET c == [NoRemoval EXCEPT !.pc = "call", !.fn = f]
             IN  c \in Removal /\ c.pc = "call" /\ c.fn = f /\ c.next = 1
  <2>1. 1 \in DOMAIN Suffixes
    BY SuffixNames
  <2>2. NoRemoval \in Removal /\ NoRemoval.next = 1
    BY <2>1 DEF NoRemoval, Removal
  <2>3. [NoRemoval EXCEPT !.pc = "call"] \in Removal
    BY <2>2 DEF Removal
  <2> QED
    BY <2>2, <2>3 DEF Removal
<1> QED
  BY <1>1, <1>2, <1>3, <1>4, <1>5

\* What the steps of the pages do. Frees: tab t is not, or no more, uploading.
Uploading(t) == tab[t].pc \in {"send", "deploy"}
Removes(t) == removal[t].pc \in {"call", "erase", "update"}
Frees(t) ==
    \E c \in TabState : c.pc \notin {"send", "deploy"} /\ tab' = [tab EXCEPT ![t] = c]

TabMoves(t) == Frees(t) /\ UNCHANGED <<artifactVars, row, removal>>
Registers(t, f) ==
    /\ tab[t].pc = "register" /\ Registered(f)
    /\ \/ Frees(t)
       \/ \E c \in TabState : c.pc = "send" /\ c.fn = f /\ tab' = [tab EXCEPT ![t] = c]
    /\ UNCHANGED <<artifactVars, removal>>
Sends(t) ==
    /\ tab[t].pc = "send" /\ MayDeploy(tab[t].fn)
    /\ \E d \in Deploy, w \in BOOLEAN : DeployArrives(d, tab[t].fn, w)
    /\ \E c \in TabState :
          c.pc = "deploy" /\ c.fn = tab[t].fn /\ tab' = [tab EXCEPT ![t] = c]
    /\ UNCHANGED <<row, removal>>
RemovalBegins(t, f) ==
    /\ ~ Removes(t) /\ Frees(t) /\ row[f] # "none"
    /\ \/ Uploading(t) /\ tab[t].fn = f /\ (Calm => ~ Deploying(f))
       \/ ~ Uploading(t) /\ MayRemove(f)
    /\ \E r \in Removal :
          r.pc = "call" /\ r.fn = f /\ r.next = 1 /\ removal' = [removal EXCEPT ![t] = r]
    /\ UNCHANGED <<artifactVars, row>>
RemovalErases(t) ==
    /\ removal[t].pc = "erase" /\ Erases(removal[t].fn, Suffixes[removal[t].next])
    /\ \E r \in Removal :
          /\ r.fn = removal[t].fn /\ removal' = [removal EXCEPT ![t] = r]
          /\ \/ removal[t].next < 5 /\ r.pc = "erase" /\ r.next = removal[t].next + 1
             \/ removal[t].next = 5 /\ r.pc = "update"
    /\ UNCHANGED <<deploy, vm, row, tab>>
RemovalMoves(t) ==
    /\ Removes(t)
    /\ \E r \in Removal :
          /\ removal' = [removal EXCEPT ![t] = r]
          /\ \/ /\ removal[t].pc = "call" /\ r.pc = "erase" /\ r.fn = removal[t].fn
                /\ r.next = 1 /\ UNCHANGED row
             \/ /\ removal[t].pc = "update" /\ r.pc = "ok"
                /\ row' = [row EXCEPT ![removal[t].fn] = "deleted"]
             \/ r.pc = "failed" /\ UNCHANGED row
    /\ UNCHANGED <<artifactVars, tab>>

Moves ==
    \/ \E t \in Tab : TabMoves(t) \/ Sends(t) \/ RemovalErases(t) \/ RemovalMoves(t)
    \/ \E t \in Tab, f \in Function : Registers(t, f) \/ RemovalBegins(t, f)
    \/ \E d \in Deploy, f \in Function, w \in BOOLEAN : Redeploy(d, f, w)
    \/ UNCHANGED pageVars /\ \/ \E d \in Deploy : DeployRuns(d)
                             \/ StoreCrash
                             \/ \E f \in Function : Boot(f)
                             \/ UNCHANGED artifactVars

LEMMA PageSteps == PagesOK /\ [Next]_vars => Moves
<1> SUFFICES ASSUME PagesOK, [Next]_vars PROVE Moves
  OBVIOUS
<1>0. \A t \in Tab : tab[t] \in TabState /\ removal[t] \in Removal
  BY DEF PagesOK
<1>1. ASSUME NEW t \in Tab, NEW c, SetTab(t, c), c \in TabState, c.pc \notin {"send", "deploy"}
      PROVE  Frees(t)
  BY <1>1 DEF SetTab, Frees
<1>2. ASSUME NEW t \in Tab, Upload(t) \/ DeployAnswered(t) \/ RemoveReturns(t) PROVE Moves
  <2>1. \E c \in TabState : c.pc \notin {"send", "deploy"} /\ SetTab(t, c)
    BY <1>2, Records DEF Upload, DeployAnswered, RemoveReturns, Released
  <2>2. UNCHANGED <<artifactVars, row, removal>>
    BY <1>2 DEF Upload, DeployAnswered, RemoveReturns
  <2> QED
    BY <1>1, <2>1, <2>2 DEF Moves, TabMoves
<1>3. ASSUME NEW t \in Tab, NEW f \in Function, Register(t, f) PROVE Moves
  <2>1. \E c \in TabState : c.pc = "send" /\ c.fn = f /\ tab' = [tab EXCEPT ![t] = c]
    BY <1>3, Records DEF Register, SetTab
  <2> QED
    BY <1>3, <2>1 DEF Register, TabAt, Registers, Moves
<1>4. ASSUME NEW t \in Tab, RegisterFails(t) PROVE Moves
  <2>1. Frees(t) /\ UNCHANGED <<artifactVars, removal>> /\ tab[t].pc = "register"
    BY <1>1, <1>4, Records DEF RegisterFails, TabAt
  <2> QED
    BY <1>4, <2>1 DEF RegisterFails, TabMoves, Registers, Moves
<1>5. ASSUME NEW t \in Tab, NEW d \in Deploy, NEW w \in BOOLEAN, SendCode(t, d, w) PROVE Moves
  <2> DEFINE c == [tab[t] EXCEPT !.pc = "deploy", !.deploy = d]
  <2>1. c \in TabState /\ c.pc = "deploy" /\ c.fn = tab[t].fn
    BY <1>0 DEF TabState
  <2>2. tab' = [tab EXCEPT ![t] = c]
    BY <1>5 DEF SendCode, SetTab
  <2> HIDE DEF c
  <2> QED
    BY <1>5, <2>1, <2>2 DEF SendCode, TabAt, Sends, Moves
<1>6. ASSUME NEW t \in Tab, NEW f \in Function, Remove(t, f)
      PROVE  /\ ~ Removes(t)
             /\ \E r \in Removal :
                   r.pc = "call" /\ r.fn = f /\ r.next = 1 /\ removal' = [removal EXCEPT ![t] = r]
  BY <1>6, Records DEF Remove, Removes, SetRemoval
<1>7. ASSUME NEW t \in Tab, UploadFails(t) PROVE Moves
  <2>1. Uploading(t) /\ tab[t].fn \in Function /\ row[tab[t].fn] # "none"
    BY <1>7 DEF UploadFails, Uploading, PagesOK
  <2>2. Frees(t)
    BY <1>1, <1>7, Records DEF UploadFails
  <2>3. RemovalBegins(t, tab[t].fn)
    BY <1>6, <1>7, <2>1, <2>2 DEF UploadFails, RemovalBegins
  <2> QED
    BY <2>1, <2>3 DEF Moves
<1>8. ASSUME NEW t \in Tab, NEW f \in Function, PressDelete(t, f) PROVE Moves
  <2>1. ~ Uploading(t) /\ MayRemove(f) /\ row[f] # "none"
    BY <1>8 DEF PressDelete, Uploading, TabAt
  <2>2. Frees(t)
    BY <1>1, <1>8, Records DEF PressDelete
  <2>3. RemovalBegins(t, f)
    BY <1>6, <1>8, <2>1, <2>2 DEF PressDelete, RemovalBegins
  <2> QED
    BY <2>3 DEF Moves
<1>9. ASSUME NEW t \in Tab, RemovalCalls(t) PROVE Moves
  <2> DEFINE r == [removal[t] EXCEPT !.pc = "erase"]
  <2>1. r \in Removal /\ r.pc = "erase" /\ r.fn = removal[t].fn /\ r.next = removal[t].next
    BY <1>0 DEF Removal
  <2>2. /\ removal[t].pc = "call" /\ removal[t].next = 1
        /\ removal' = [removal EXCEPT ![t] = r] /\ UNCHANGED <<artifactVars, row, tab>>
    BY <1>9 DEF RemovalCalls, RemovalAt, SetRemoval, PagesOK
  <2> HIDE DEF r
  <2>3. RemovalMoves(t)
    BY <2>1, <2>2 DEF RemovalMoves, Removes
  <2> QED
    BY <2>3 DEF Moves
<1>10. ASSUME NEW t \in Tab, Erase(t) PROVE Moves
  <2> DEFINE k == removal[t].next
             f == removal[t].fn
  <2>1. k \in 1 .. 5 /\ Last = 5
    BY <1>0, SuffixNames DEF Removal
  <2>2. removal[t].pc = "erase" /\ UNCHANGED <<deploy, vm, row, tab>>
    BY <1>10 DEF Erase, RemovalAt
  <2>3. Erases(f, Suffixes[k])
    BY <1>10 DEF Erase, SetFiles, Erases
  <2>4. CASE k < 5
    <3> DEFINE r == [removal[t] EXCEPT !.next = k + 1]
    <3>1. k + 1 \in DOMAIN Suffixes
      BY <2>1, <2>4, SuffixNames
    <3> HIDE DEF k
    <3>2. r \in Removal /\ r.pc = "erase" /\ r.fn = f /\ r.next = k + 1
      BY <1>0, <2>2, <3>1 DEF Removal
    <3>3. removal' = [removal EXCEPT ![t] = r]
      BY <1>10, <2>1, <2>4 DEF Erase, SetRemoval, k
    <3> HIDE DEF r
    <3>4. RemovalErases(t)
      BY <2>2, <2>3, <2>4, <3>2, <3>3 DEF RemovalErases, k
    <3> QED
      BY <3>4 DEF Moves
  <2>5. CASE k = 5
    <3> DEFINE r == [removal[t] EXCEPT !.pc = "update"]
    <3>1. r \in Removal /\ r.pc = "update" /\ r.fn = f
      BY <1>0 DEF Removal
    <3>2. removal' = [removal EXCEPT ![t] = r]
      BY <1>10, <2>1, <2>5 DEF Erase, SetRemoval
    <3> HIDE DEF r
    <3>3. RemovalErases(t)
      BY <2>2, <2>3, <2>5, <3>1, <3>2 DEF RemovalErases
    <3> QED
      BY <3>3 DEF Moves
  <2> QED
    BY <2>1, <2>4, <2>5
<1>11. ASSUME NEW t \in Tab, MarkDeleted(t) PROVE Moves
  <2>1. RemovalMoves(t)
    BY <1>11, Records DEF MarkDeleted, RemovalAt, SetRemoval, RemovalMoves, Removes
  <2> QED
    BY <2>1 DEF Moves
<1>12. ASSUME NEW t \in Tab, RemovalFails(t) PROVE Moves
  <2>1. RemovalMoves(t)
    BY <1>12, Records DEF RemovalFails, SetRemoval, RemovalMoves, Removes
  <2> QED
    BY <2>1 DEF Moves
<1>13. CASE UNCHANGED vars
  BY <1>13 DEF vars, pageVars, artifactVars, Moves
<1>14. ASSUME NEW t \in Tab, TabRuns(t) \/ RemovalRuns(t) PROVE Moves
  BY <1>2, <1>3, <1>4, <1>5, <1>7, <1>9, <1>10, <1>11, <1>12, <1>14 DEF TabRuns, RemovalRuns
<1>15. ASSUME UNCHANGED pageVars, \/ \E d \in Deploy : DeployRuns(d)
                                  \/ StoreCrash
                                  \/ \E f \in Function : Boot(f)
       PROVE  Moves
  BY <1>15 DEF Moves
<1>16. ASSUME NEW d \in Deploy, NEW f \in Function, NEW w \in BOOLEAN, Redeploy(d, f, w)
       PROVE  Moves
  BY <1>16 DEF Moves
<1> QED
  BY <1>2, <1>8, <1>13, <1>14, <1>15, <1>16 DEF Next

LEMMA FileMoves == PagesOK /\ Moves => ArtifactsNext
<1> SUFFICES ASSUME PagesOK, Moves PROVE ArtifactsNext
  OBVIOUS
<1>1. ASSUME NEW t \in Tab, Sends(t) PROVE ArtifactsNext
  <2>1. tab[t].fn \in Function
    BY <1>1 DEF Sends, PagesOK
  <2> QED
    BY <1>1, <2>1 DEF Sends, ArtifactsNext
<1>2. ASSUME NEW t \in Tab, RemovalErases(t) PROVE ArtifactsNext
  <2>1. removal[t].fn \in Function
    BY <1>2 DEF RemovalErases, PagesOK
  <2>2. removal[t].next \in 1 .. 5
    BY SuffixNames DEF PagesOK, Removal
  <2>3. Suffixes[removal[t].next] \in Suffix
    BY <2>2, SuffixNames
  <2> QED
    BY <1>2, <2>1, <2>3 DEF RemovalErases, ArtifactsNext
<1>3. ASSUME UNCHANGED artifactVars PROVE ArtifactsNext
  BY <1>3 DEF ArtifactsNext
<1>4. ASSUME NEW d \in Deploy, NEW f \in Function, NEW w \in BOOLEAN, Redeploy(d, f, w)
      PROVE  ArtifactsNext
  BY <1>4 DEF Redeploy, ArtifactsNext
<1>5. ASSUME \/ \E d \in Deploy : DeployRuns(d)
             \/ StoreCrash
             \/ \E f \in Function : Boot(f)
      PROVE  ArtifactsNext
  BY <1>5 DEF ArtifactsNext
<1> QED
  BY <1>1, <1>2, <1>3, <1>4, <1>5
  DEF Moves, TabMoves, Registers, RemovalBegins, RemovalMoves

LEMMA PagesKept == PagesOK /\ Moves => PagesOK'
<1> SUFFICES ASSUME PagesOK, Moves PROVE PagesOK'
  OBVIOUS
<1>0. /\ row \in [Function -> RowStates] /\ tab \in [Tab -> TabState]
      /\ removal \in [Tab -> Removal]
  BY DEF PagesOK
<1>1. ASSUME NEW t \in Tab, NEW c \in TabState, tab' = [tab EXCEPT ![t] = c],
             c.pc \in {"send", "deploy"} => c.fn \in Function /\ row'[c.fn] # "none",
             row' \in [Function -> RowStates],
             \A f \in Function : row[f] # "none" => row'[f] # "none",
             removal' \in [Tab -> Removal],
             \A u \in Tab : removal'[u].pc \in {"call", "erase", "update"} =>
                                removal'[u].fn \in Function,
             \A u \in Tab : removal'[u].pc = "call" => removal'[u].next = 1
      PROVE  PagesOK'
  <2>1. /\ tab' \in [Tab -> TabState] /\ tab'[t] = c
        /\ \A u \in Tab : u # t => tab'[u] = tab[u]
    BY <1>0, <1>1
  <2>2. \A u \in Tab : tab'[u].pc \in {"send", "deploy"} =>
           tab'[u].fn \in Function /\ row'[tab'[u].fn] # "none"
    BY <1>1, <2>1 DEF PagesOK
  <2> QED
    BY <1>1, <2>1, <2>2 DEF PagesOK
<1>2. ASSUME NEW t \in Tab, Frees(t), row' = row, removal' = removal PROVE PagesOK'
  BY <1>0, <1>1, <1>2 DEF Frees, PagesOK
<1>3. ASSUME NEW t \in Tab, NEW r \in Removal, removal' = [removal EXCEPT ![t] = r],
             r.pc \in {"call", "erase", "update"} => r.fn \in Function,
             r.pc = "call" => r.next = 1
      PROVE  /\ removal' \in [Tab -> Removal]
             /\ \A u \in Tab : removal'[u].pc \in {"call", "erase", "update"} =>
                                   removal'[u].fn \in Function
             /\ \A u \in Tab : removal'[u].pc = "call" => removal'[u].next = 1
  <2>1. /\ removal' \in [Tab -> Removal] /\ removal'[t] = r
        /\ \A u \in Tab : u # t => removal'[u] = removal[u]
    BY <1>0, <1>3
  <2> QED
    BY <1>3, <2>1 DEF PagesOK
<1>4. ASSUME NEW t \in Tab, Sends(t) PROVE PagesOK'
  <2>1. PICK c \in TabState : /\ c.pc = "deploy" /\ c.fn = tab[t].fn
                              /\ tab' = [tab EXCEPT ![t] = c]
    BY <1>4 DEF Sends
  <2>2. c.fn \in Function /\ row[c.fn] # "none" /\ row' = row /\ removal' = removal
    BY <1>4, <2>1 DEF Sends, PagesOK
  <2> QED
    BY <1>0, <1>1, <2>1, <2>2 DEF PagesOK
<1>5. ASSUME NEW t \in Tab, NEW f \in Function, Registers(t, f) PROVE PagesOK'
  <2>1. row' = [row EXCEPT ![f] = "active"] /\ row[f] = "none" /\ removal' = removal
    BY <1>5 DEF Registers, Registered
  <2>2. /\ row' \in [Function -> RowStates] /\ row'[f] = "active"
        /\ \A g \in Function : row[g] # "none" => row'[g] # "none"
    BY <1>0, <2>1 DEF RowStates
  <2>3. PICK c \in TabState : /\ c.pc \in {"send", "deploy"} => c.pc = "send" /\ c.fn = f
                              /\ tab' = [tab EXCEPT ![t] = c]
    BY <1>5 DEF Registers, Frees
  <2>4. c.pc \in {"send", "deploy"} => c.fn \in Function /\ row'[c.fn] # "none"
    BY <2>2, <2>3
  <2> QED
    BY <1>0, <1>1, <2>1, <2>2, <2>3, <2>4 DEF PagesOK
<1>6. ASSUME NEW t \in Tab, NEW f \in Function, RemovalBegins(t, f) PROVE PagesOK'
  <2>1. PICK c \in TabState : c.pc \notin {"send", "deploy"} /\ tab' = [tab EXCEPT ![t] = c]
    BY <1>6 DEF RemovalBegins, Frees
  <2>2. PICK r \in Removal : /\ r.pc = "call" /\ r.fn = f /\ r.next = 1
                             /\ removal' = [removal EXCEPT ![t] = r]
    BY <1>6 DEF RemovalBegins
  <2>3. row' = row
    BY <1>6 DEF RemovalBegins
  <2> QED
    BY <1>0, <1>1, <1>3, <2>1, <2>2, <2>3
<1>7. ASSUME NEW t \in Tab, NEW r \in Removal, removal' = [removal EXCEPT ![t] = r],
             r.pc \in {"call", "erase", "update"} => r.fn \in Function, r.pc # "call",
             tab' = tab, row' \in [Function -> RowStates],
             \A f \in Function : row[f] # "none" => row'[f] # "none"
      PROVE  PagesOK'
  <2>1. \A u \in Tab : tab'[u].pc \in {"send", "deploy"} =>
           tab'[u].fn \in Function /\ row'[tab'[u].fn] # "none"
    BY <1>7 DEF PagesOK
  <2> QED
    BY <1>0, <1>3, <1>7, <2>1 DEF PagesOK
<1>8. ASSUME NEW t \in Tab, RemovalErases(t) PROVE PagesOK'
  <2>1. removal[t].fn \in Function
    BY <1>8 DEF RemovalErases, PagesOK
  <2> QED
    BY <1>0, <1>7, <1>8, <2>1 DEF RemovalErases
<1>9. ASSUME NEW t \in Tab, RemovalMoves(t) PROVE PagesOK'
  <2>1. removal[t].fn \in Function
    BY <1>9 DEF RemovalMoves, Removes, PagesOK
  <2>2. PICK r \in Removal :
          /\ removal' = [removal EXCEPT ![t] = r]
          /\ \/ /\ removal[t].pc = "call" /\ r.pc = "erase" /\ r.fn = removal[t].fn
                /\ r.next = 1 /\ UNCHANGED row
             \/ /\ removal[t].pc = "update" /\ r.pc = "ok"
                /\ row' = [row EXCEPT ![removal[t].fn] = "deleted"]
             \/ r.pc = "failed" /\ UNCHANGED row
    BY <1>9 DEF RemovalMoves
  <2>3. /\ row' \in [Function -> RowStates]
        /\ \A f \in Function : row[f] # "none" => row'[f] # "none"
    BY <1>0, <2>1, <2>2 DEF RowStates
  <2>4. tab' = tab
    BY <1>9 DEF RemovalMoves
  <2> QED
    BY <1>7, <2>1, <2>2, <2>3, <2>4
<1>10. ASSUME UNCHANGED pageVars PROVE PagesOK'
  BY <1>10 DEF pageVars, PagesOK
<1> QED
  BY <1>2, <1>4, <1>5, <1>6, <1>8, <1>9, <1>10 DEF Moves, TabMoves, Redeploy

-----------------------------------------------------------------------------
LEMMA TypesInit == Init => ArtifactsOK /\ PagesOK
<1> SUFFICES ASSUME Init PROVE ArtifactsOK /\ PagesOK
  OBVIOUS
<1>1. NoFiles \in Files /\ NoVM \in VM /\ NoDeploy \in Handler /\ NoDeploy.pc = "unused"
  BY DEF NoFiles, Files, NoVM, VM, NoDeploy, Handler, Content
<1>2. NoRemoval \in Removal /\ NoRemoval.pc = "idle"
  BY SuffixNames DEF NoRemoval, Removal
<1>3. ArtifactsOK
  BY <1>1 DEF Init, ArtifactsInit, ArtifactsOK, DeploysOK
<1>4. PagesOK
  BY <1>2, Records DEF Init, PagesOK, RowStates
<1> QED
  BY <1>3, <1>4

LEMMA TypesKept == ArtifactsOK /\ PagesOK /\ [Next]_vars => ArtifactsOK' /\ PagesOK' /\ Moves
  BY PageSteps, FileMoves, PagesKept, ArtifactsKept

\* Types; with them, that a request in a tab, a removal and a handler are of a
\* function, and that a function an upload is about is registered.
THEOREM TypeCorrect == Spec => []TypeOK
<1>1. ArtifactsOK /\ PagesOK => TypeOK
  BY DEF ArtifactsOK, DeploysOK, Files, PagesOK, TypeOK, ArtifactsTypeOK
<1> QED
  BY <1>1, TypesInit, TypesKept, PTL DEF Spec

-----------------------------------------------------------------------------
(* Calm: the deploys and the removals of one function take turns. What the   *)
(* registry says of a function, and what is left of its files.               *)

OneDeploy ==
    \A d, e \in Deploy :
        deploy[d].pc \in Running /\ deploy[e].pc \in Running /\ deploy[d].fn = deploy[e].fn
            => d = e

OneUpload ==
    \A t, u \in Tab : Uploading(t) /\ Uploading(u) /\ tab[t].fn = tab[u].fn => t = u

\* While a function is deployed, or about to be, it is registered and nobody
\* removes it.
Apart ==
    \A f \in Function : Deploying(f) \/ Sending(f) => row[f] = "active" /\ ~ Removing(f)

RemovedKnown == \A f \in Function : Removing(f) => row[f] # "none"

\* What a removal has erased is gone: nobody writes the function's files.
Erased ==
    \A t \in Tab :
        /\ removal[t].pc = "erase" =>
              \A k \in 1 .. 5 : k < removal[t].next => disk[removal[t].fn][Suffixes[k]] = Nil
        /\ removal[t].pc = "update" => \A s \in Suffix : disk[removal[t].fn][s] = Nil

RegistryInv == OneDeploy /\ OneUpload /\ Apart /\ RemovedKnown /\ Erased /\ NothingOrphaned

LEMMA Empty ==
    ASSUME DeploysOK, NEW f \in Function
    PROVE  disk[f] = NoFiles <=> \A s \in Suffix : disk[f][s] = Nil
  BY DEF DeploysOK, NoFiles, Files

\* Only a deploy of a function makes a file of it.
LEMMA NoNewFiles ==
    ASSUME ArtifactsOK, ArtifactsNext, NEW f \in Function, ~ Deploying(f)
    PROVE  \A s \in Suffix : disk'[f][s] \in {disk[f][s], Nil}
<1>0. DeploysOK /\ vm \in [Function -> VM]
  BY DEF ArtifactsOK
<1>1. ASSUME NEW g \in Function, NEW s \in Suffix, Erases(g, s)
      PROVE  \A r \in Suffix : disk'[f][r] \in {disk[f][r], Nil}
  <2>1. /\ \A h \in Function \ {g} : disk'[h] = disk[h]
        /\ \A r \in Suffix : disk'[g][r] \in {disk[g][r], Nil}
    BY <1>0, <1>1, ErasesOne
  <2> QED
    BY <2>1
<1>2. ASSUME NEW g \in Function, Boot(g)
      PROVE  \A r \in Suffix : disk'[f][r] \in {disk[f][r], Nil}
  <2>1. UNCHANGED disk \/ \E s \in {"snap", "mem"} : Erases(g, s)
    BY <1>0, <1>2, BootSteps
  <2> QED
    BY <1>1, <2>1, SuffixNames
<1>3. ASSUME NEW d \in Deploy, DeployRuns(d) PROVE disk'[f] = disk[f]
  <2>1. PICK c, new : Leaves(d, c, new)
    BY <1>0, <1>3, DeploySteps
  <2>2. deploy[d].pc \in Running /\ disk' = [disk EXCEPT ![deploy[d].fn] = new]
    BY <2>1 DEF Leaves
  <2>3. deploy[d].fn # f
    BY <2>2 DEF Deploying
  <2> QED
    BY <1>0, <2>2, <2>3 DEF DeploysOK
<1>4. ASSUME StoreCrash \/ UNCHANGED artifactVars PROVE disk' = disk
  BY <1>4 DEF StoreCrash, artifactVars
<1>5. ASSUME NEW d \in Deploy, NEW g \in Function, NEW w \in BOOLEAN, DeployArrives(d, g, w)
      PROVE  disk' = disk
  BY <1>5 DEF DeployArrives
<1> QED
  BY <1>1, <1>2, <1>3, <1>4, <1>5 DEF ArtifactsNext

\* Only the arrival of a deploy starts one.
NoMoreRun == \A e \in Deploy : deploy'[e].pc \in Running =>
                                  deploy[e].pc \in Running /\ deploy'[e].fn = deploy[e].fn

LEMMA RunsOn ==
    ASSUME ArtifactsOK,
           \/ \E d \in Deploy : DeployRuns(d)
           \/ StoreCrash
           \/ \E f \in Function : Boot(f)
           \/ UNCHANGED deploy
    PROVE  NoMoreRun
<1>0. DeploysOK /\ vm \in [Function -> VM]
  BY DEF ArtifactsOK
<1>1. ASSUME NEW d \in Deploy, DeployRuns(d) PROVE NoMoreRun
  <2>1. PICK c, new : Leaves(d, c, new)
    BY <1>0, <1>1, DeploySteps
  <2> QED
    BY <2>1 DEF Leaves, NoMoreRun
<1>2. ASSUME StoreCrash PROVE NoMoreRun
  BY <1>0, <1>2, CrashSteps DEF NoMoreRun
<1>3. ASSUME NEW f \in Function, Boot(f) PROVE deploy' = deploy
  BY <1>0, <1>3, BootSteps
<1> QED
  BY <1>1, <1>2, <1>3 DEF NoMoreRun

LEMMA RegistryKept ==
    ASSUME Calm, ArtifactsOK, PagesOK, RegistryInv, Moves
    PROVE  RegistryInv'
<1>0. /\ DeploysOK /\ row \in [Function -> RowStates] /\ tab \in [Tab -> TabState]
      /\ removal \in [Tab -> Removal] /\ ArtifactsNext
      /\ OneDeploy /\ OneUpload /\ Apart /\ RemovedKnown /\ Erased /\ NothingOrphaned
  BY FileMoves DEF ArtifactsOK, PagesOK, RegistryInv
<1>a. DeploysOK'
  BY <1>0, ArtifactsKept DEF ArtifactsOK
<1>b. \A t \in Tab : Removes(t) => removal[t].fn \in Function /\ Removing(removal[t].fn)
  BY DEF PagesOK, Removes, Removing
<1>c. \A k \in 1 .. 5 : Suffixes[k] \in Suffix
  BY SuffixNames
\* The files of a function that is not deployed only go.
<1>d. \A f \in Function : ~ Deploying(f) =>
         \A s \in Suffix : disk'[f][s] \in {disk[f][s], Nil}
  BY <1>0, NoNewFiles
<1>e. ASSUME row' = row PROVE NothingOrphaned'
  <2> SUFFICES ASSUME NEW f \in Function, row[f] # "active" PROVE disk'[f] = NoFiles
    BY <1>e DEF NothingOrphaned
  <2>1. ~ Deploying(f) /\ \A s \in Suffix : disk[f][s] = Nil
    BY <1>0, Empty DEF Apart, NothingOrphaned
  <2>2. \A s \in Suffix : disk'[f][s] = Nil
    BY <1>d, <2>1
  <2> QED
    BY <1>a, <2>2 DEF DeploysOK, NoFiles, Files
\* What was erased stays erased.
<1>f. ASSUME NEW t \in Tab, removal'[t] = removal[t]
      PROVE  /\ removal'[t].pc = "erase" =>
                   \A k \in 1 .. 5 : k < removal'[t].next =>
                                        disk'[removal'[t].fn][Suffixes[k]] = Nil
             /\ removal'[t].pc = "update" =>
                   \A s \in Suffix : disk'[removal'[t].fn][s] = Nil
  <2>1. removal[t].pc \in {"erase", "update"} =>
           removal[t].fn \in Function /\ ~ Deploying(removal[t].fn)
    BY <1>0, <1>b DEF Apart, Removes
  <2> QED
    BY <1>0, <1>c, <1>d, <1>f, <2>1 DEF Erased
<1>g. ASSUME removal' = removal PROVE Erased'
  BY <1>f, <1>g DEF Erased
<1>h. ASSUME NoMoreRun
      PROVE  OneDeploy' /\ \A f : Deploying(f)' => Deploying(f)
  BY <1>0, <1>h DEF NoMoreRun, OneDeploy, Deploying
<1>i. ASSUME UNCHANGED deploy PROVE OneDeploy' /\ \A f : Deploying(f)' => Deploying(f)
  BY <1>0, <1>i DEF OneDeploy, Deploying
\* A tab that frees itself.
<1>j. ASSUME NEW t \in Tab, Frees(t)
      PROVE  /\ OneUpload' /\ ~ Uploading(t)'
             /\ \A u \in Tab : u # t => tab'[u] = tab[u]
             /\ \A f : Sending(f)' => Sending(f)
  <2>1. PICK c \in TabState : c.pc \notin {"send", "deploy"} /\ tab' = [tab EXCEPT ![t] = c]
    BY <1>j DEF Frees
  <2>2. tab'[t] = c /\ \A u \in Tab : u # t => tab'[u] = tab[u]
    BY <1>0, <2>1
  <2> QED
    BY <1>0, <2>1, <2>2 DEF OneUpload, Uploading, Sending, TabAt
<1>k. ASSUME tab' = tab PROVE OneUpload' /\ \A f : Sending(f)' => Sending(f)
  BY <1>0, <1>k DEF OneUpload, Uploading, Sending, TabAt
<1>l. ASSUME removal' = removal PROVE \A f : Removing(f)' <=> Removing(f)
  BY <1>l DEF Removing
\* A removal that moves on.
<1>m. ASSUME NEW t \in Tab, NEW r \in Removal, removal' = [removal EXCEPT ![t] = r],
             r.pc \in {"call", "erase", "update"} => Removes(t) /\ r.fn = removal[t].fn
      PROVE  /\ removal'[t] = r /\ \A u \in Tab : u # t => removal'[u] = removal[u]
             /\ \A f : Removing(f)' => Removing(f)
  <2>1. removal'[t] = r /\ \A u \in Tab : u # t => removal'[u] = removal[u]
    BY <1>0, <1>m
  <2> QED
    BY <1>m, <2>1 DEF Removing, Removes
<1>n. ASSUME row' = row, \A f : Deploying(f)' => Deploying(f),
             \A f : Sending(f)' => Sending(f), \A f : Removing(f)' => Removing(f)
      PROVE  Apart' /\ RemovedKnown'
  BY <1>0, <1>n DEF Apart, RemovedKnown
<1>1. ASSUME UNCHANGED pageVars, NoMoreRun PROVE RegistryInv'
  BY <1>1, <1>e, <1>g, <1>h, <1>k, <1>l, <1>n DEF pageVars, RegistryInv
<1>2. ASSUME NEW t \in Tab, TabMoves(t) PROVE RegistryInv'
  BY <1>2, <1>e, <1>g, <1>i, <1>j, <1>l, <1>n DEF TabMoves, artifactVars, RegistryInv
\* A deploy arrives.
<1>3. ASSUME NEW d \in Deploy, NEW f \in Function, NEW w \in BOOLEAN, DeployArrives(d, f, w),
             MayDeploy(f), row[f] = "active", UNCHANGED <<row, removal>>,
             OneUpload', \A g : Sending(g)' => Sending(g)
      PROVE  RegistryInv'
  <2>1. /\ deploy'[d].pc = "build" /\ deploy'[d].fn = f /\ deploy[d].pc = "unused"
        /\ \A e \in Deploy \ {d} : deploy'[e] = deploy[e]
    BY <1>0, <1>3, ArrivalSteps
  <2>2. ~ Deploying(f) /\ ~ Removing(f)
    BY <1>3 DEF MayDeploy
  <2>3. \A g : Deploying(g)' => Deploying(g) \/ g = f
    BY <2>1 DEF Deploying
  <2>4. OneDeploy'
    BY <1>0, <2>1, <2>2 DEF OneDeploy, Deploying
  <2>5. Apart' /\ RemovedKnown'
    BY <1>0, <1>3, <1>l, <2>2, <2>3 DEF Apart, RemovedKnown
  <2> QED
    BY <1>3, <1>e, <1>g, <2>4, <2>5 DEF RegistryInv
<1>4. ASSUME NEW t \in Tab, Sends(t) PROVE RegistryInv'
  <2>1. PICK c \in TabState : /\ c.pc = "deploy" /\ c.fn = tab[t].fn
                              /\ tab' = [tab EXCEPT ![t] = c]
    BY <1>4 DEF Sends
  <2>2. tab'[t] = c /\ \A u \in Tab : u # t => tab'[u] = tab[u]
    BY <1>0, <2>1
  <2>3. Uploading(t) /\ Sending(tab[t].fn) /\ tab[t].fn \in Function
    BY <1>4 DEF Sends, Uploading, Sending, TabAt, PagesOK
  <2>4. OneUpload' /\ \A g : Sending(g)' => Sending(g)
    BY <1>0, <2>1, <2>2, <2>3 DEF OneUpload, Uploading, Sending, TabAt
  <2>5. row[tab[t].fn] = "active"
    BY <1>0, <2>3 DEF Apart
  <2> QED
    BY <1>3, <1>4, <2>3, <2>4, <2>5 DEF Sends
<1>5. ASSUME NEW d \in Deploy, NEW f \in Function, NEW w \in BOOLEAN, Redeploy(d, f, w)
      PROVE  RegistryInv'
  <2>1. MayDeploy(f) /\ DeployArrives(d, f, w) /\ row[f] = "active" /\ UNCHANGED pageVars
    BY <1>5 DEF Redeploy
  <2> QED
    BY <1>3, <1>k, <2>1 DEF pageVars
<1>6. ASSUME NEW t \in Tab, NEW f \in Function, Registers(t, f) PROVE RegistryInv'
  <2>1. /\ row[f] = "none" /\ row' = [row EXCEPT ![f] = "active"]
        /\ UNCHANGED <<disk, deploy, vm, removal>>
    BY <1>6 DEF Registers, Registered, artifactVars
  <2>2. row'[f] = "active" /\ \A g \in Function : g # f => row'[g] = row[g]
    BY <1>0, <2>1
  <2>3. PICK c \in TabState : /\ c.pc \in {"send", "deploy"} => c.pc = "send" /\ c.fn = f
                              /\ tab' = [tab EXCEPT ![t] = c]
    BY <1>6 DEF Registers, Frees
  <2>4. tab'[t] = c /\ \A u \in Tab : u # t => tab'[u] = tab[u]
    BY <1>0, <2>3
  <2>5. \A u \in Tab : Uploading(u) => tab[u].fn # f
    BY <2>1 DEF PagesOK, Uploading
  <2>6. OneUpload' /\ \A g : Sending(g)' => Sending(g) \/ g = f
    BY <1>0, <2>3, <2>4, <2>5 DEF OneUpload, Uploading, Sending, TabAt
  <2>7. ~ Removing(f)
    BY <1>0, <2>1 DEF RemovedKnown
  <2>8. Apart' /\ RemovedKnown'
    BY <1>0, <1>i, <1>l, <2>1, <2>2, <2>6, <2>7 DEF Apart, RemovedKnown
  <2>9. NothingOrphaned'
    BY <1>0, <2>1, <2>2 DEF NothingOrphaned
  <2> QED
    BY <1>g, <1>i, <2>1, <2>6, <2>8, <2>9 DEF RegistryInv
<1>7. ASSUME NEW t \in Tab, NEW f \in Function, RemovalBegins(t, f) PROVE RegistryInv'
  <2>1. PICK r \in Removal : /\ r.pc = "call" /\ r.fn = f /\ r.next = 1
                             /\ removal' = [removal EXCEPT ![t] = r]
    BY <1>7 DEF RemovalBegins
  <2>2. /\ row' = row /\ UNCHANGED <<disk, deploy, vm>> /\ Frees(t) /\ row[f] # "none"
    BY <1>7 DEF RemovalBegins, artifactVars
  <2>3. removal'[t] = r /\ \A u \in Tab : u # t => removal'[u] = removal[u]
    BY <1>0, <2>1
  <2>4. /\ OneUpload' /\ ~ Uploading(t)' /\ \A u \in Tab : u # t => tab'[u] = tab[u]
        /\ \A g : Sending(g)' => Sending(g)
    BY <1>j, <2>2
  <2>5. ~ Deploying(f) /\ ~ Sending(f)'
    <3>1. CASE Uploading(t) /\ tab[t].fn = f /\ ~ Deploying(f)
      <4>1. \A u \in Tab : u # t /\ Uploading(u) => tab[u].fn # f
        BY <1>0, <3>1 DEF OneUpload
      <4> QED
        BY <2>4, <3>1, <4>1 DEF Sending, Uploading, TabAt
    <3>2. CASE MayRemove(f)
      BY <2>4, <3>2 DEF MayRemove
    <3> QED
      BY <1>7, <3>1, <3>2 DEF RemovalBegins
  <2>6. \A g : Removing(g)' => Removing(g) \/ g = f
    BY <2>1, <2>3 DEF Removing
  <2>7. OneDeploy' /\ \A g : Deploying(g)' => Deploying(g)
    BY <1>i, <2>2
  <2>8. Apart' /\ RemovedKnown'
    BY <1>0, <2>2, <2>4, <2>5, <2>6, <2>7 DEF Apart, RemovedKnown
  <2>9. Erased'
    BY <1>f, <2>1, <2>3 DEF Erased
  <2> QED
    BY <1>e, <2>2, <2>4, <2>7, <2>8, <2>9 DEF RegistryInv
<1>8. ASSUME NEW t \in Tab, RemovalErases(t) PROVE RegistryInv'
  <2> DEFINE f == removal[t].fn
             n == removal[t].next
  <2>1. PICK r \in Removal :
          /\ r.fn = f /\ removal' = [removal EXCEPT ![t] = r]
          /\ \/ n < 5 /\ r.pc = "erase" /\ r.next = n + 1
             \/ n = 5 /\ r.pc = "update"
    BY <1>8 DEF RemovalErases
  <2>2. /\ removal[t].pc = "erase" /\ Erases(f, Suffixes[n]) /\ UNCHANGED <<deploy, row, tab>>
        /\ f \in Function /\ n \in 1 .. 5
    BY <1>8, <1>0, SuffixNames DEF RemovalErases, PagesOK, Removal
  <2>3. /\ removal'[t] = r /\ \A u \in Tab : u # t => removal'[u] = removal[u]
        /\ \A g : Removing(g)' => Removing(g)
    BY <1>m, <2>1, <2>2 DEF Removes
  <2>4. /\ disk'[f][Suffixes[n]] = Nil
        /\ \A s \in Suffix : disk'[f][s] \in {disk[f][s], Nil}
    BY <1>0, <1>c, <2>2, ErasesOne
  <2>5. \A k \in 1 .. 5 : k < n => disk'[f][Suffixes[k]] = Nil
    BY <1>0, <1>c, <2>2, <2>4 DEF Erased
  <2>6. \A k \in 1 .. 5 : k <= n => disk'[f][Suffixes[k]] = Nil
    BY <2>2, <2>4, <2>5
  <2> HIDE DEF f, n
  <2>7. r.pc = "erase" => \A k \in 1 .. 5 : k < r.next => disk'[r.fn][Suffixes[k]] = Nil
    BY <2>1, <2>2, <2>6
  <2>8. r.pc = "update" => \A s \in Suffix : disk'[r.fn][s] = Nil
    <3>1. \A s \in Suffix : \E k \in 1 .. 5 : s = Suffixes[k]
      BY SuffixNames DEF Suffix
    <3> QED
      BY <2>1, <2>6, <3>1
  <2>9. Erased'
    BY <1>f, <2>3, <2>7, <2>8 DEF Erased
  <2> QED
    BY <1>e, <1>i, <1>k, <1>n, <2>2, <2>3, <2>9 DEF RegistryInv
<1>9. ASSUME NEW t \in Tab, RemovalMoves(t) PROVE RegistryInv'
  <2> DEFINE f == removal[t].fn
  <2>1. PICK r \in Removal :
          /\ removal' = [removal EXCEPT ![t] = r]
          /\ \/ /\ removal[t].pc = "call" /\ r.pc = "erase" /\ r.fn = f
                /\ r.next = 1 /\ UNCHANGED row
             \/ /\ removal[t].pc = "update" /\ r.pc = "ok"
                /\ row' = [row EXCEPT ![f] = "deleted"]
             \/ r.pc = "failed" /\ UNCHANGED row
    BY <1>9 DEF RemovalMoves
  <2>2. /\ Removes(t) /\ UNCHANGED <<disk, deploy, vm, tab>> /\ f \in Function /\ Removing(f)
    BY <1>9, <1>b DEF RemovalMoves, artifactVars
  <2>3. /\ removal'[t] = r /\ \A u \in Tab : u # t => removal'[u] = removal[u]
        /\ \A g : Removing(g)' => Removing(g)
    BY <1>m, <2>1, <2>2
  <2>4. Erased'
    BY <1>f, <2>1, <2>3 DEF Erased
  <2>5. /\ OneDeploy' /\ \A g : Deploying(g)' => Deploying(g)
        /\ OneUpload' /\ \A g : Sending(g)' => Sending(g)
    BY <1>i, <1>k, <2>2
  <2>6. CASE row' = row
    BY <1>e, <1>n, <2>3, <2>4, <2>5, <2>6 DEF RegistryInv
  <2>7. CASE removal[t].pc = "update" /\ row' = [row EXCEPT ![f] = "deleted"]
    <3>1. row'[f] = "deleted" /\ \A g \in Function : g # f => row'[g] = row[g]
      BY <1>0, <2>2, <2>7
    <3>2. ~ Deploying(f) /\ ~ Sending(f)
      BY <1>0, <2>2 DEF Apart
    <3>3. Apart' /\ RemovedKnown'
      BY <1>0, <2>3, <2>5, <3>1, <3>2 DEF Apart, RemovedKnown
    <3>4. disk[f] = NoFiles
      BY <1>0, <2>2, <2>7, Empty DEF Erased
    <3>5. NothingOrphaned'
      BY <1>0, <2>2, <3>1, <3>4 DEF NothingOrphaned
    <3> QED
      BY <2>4, <2>5, <3>3, <3>5 DEF RegistryInv
  <2> QED
    BY <2>1, <2>6, <2>7
<1>10. ASSUME UNCHANGED pageVars, \/ \E d \in Deploy : DeployRuns(d)
                                  \/ StoreCrash
                                  \/ \E f \in Function : Boot(f)
                                  \/ UNCHANGED artifactVars
       PROVE  RegistryInv'
  <2>1. NoMoreRun
    BY <1>10, RunsOn DEF artifactVars
  <2> QED
    BY <1>1, <1>10, <2>1
<1> QED
  BY <1>2, <1>4, <1>5, <1>6, <1>7, <1>8, <1>9, <1>10 DEF Moves

-----------------------------------------------------------------------------
(* Calm: what is in a snapshot that is found usable.                       *)

\* A deploy is older than a snapshot only when its image has been installed.
Early == {"unused", "build", "install", "copy"}
OlderFirst ==
    \A e \in Deploy :
        /\ deploy[e].pc \in Early \cup {"optOut", "boot", "create"} => deploy[e].older = {}
        /\ \A d \in deploy[e].older : deploy[d].pc \notin Early

\* The snapshots in the files of a function are of its own deploys.
SnapshotsOf(f) ==
    \A s \in Suffix \ {"ext4"} :
        disk[f][s] = Nil \/ \E d \in Deploy : disk[f][s] = d /\ deploy[d].fn = f

\* What a handler has on the disk while it makes a snapshot.
InHand(d) ==
    /\ deploy[d].pc = "create" => deploy[d].ran = FileOf(d, "ext4")
    /\ deploy[d].pc = "renameSnap" => FileOf(d, "snap.tmp") = d /\ FileOf(d, "mem.tmp") = d
    /\ deploy[d].pc = "renameMem" => FileOf(d, "snap") \in {Nil, d} /\ FileOf(d, "mem.tmp") = d

\* A snapshot newer than the image on the disk is of a VM that ran this image.
RanThis(d) == FileOf(d, "ext4") \in deploy[d].older => deploy[d].ran = FileOf(d, "ext4")

Agree(f) == disk[f]["snap"] = Nil \/ disk[f]["mem"] = Nil \/ disk[f]["snap"] = disk[f]["mem"]
BetweenRenames(f) == \E d \in Deploy : deploy[d].fn = f /\ deploy[d].pc = "renameMem"
Paired(f) == Agree(f) \/ CutOff(f) \/ BetweenRenames(f)

SnapshotsInv ==
    /\ OlderFirst
    /\ \A f \in Function : SnapshotsOf(f) /\ Paired(f)
    /\ \A d \in Deploy : deploy[d].pc # "unused" => InHand(d) /\ RanThis(d)

LEMMA SnapshotSuffixes ==
    /\ "ext4" \in Suffix /\ "snap" \in Suffix /\ "mem" \in Suffix
    /\ "snap.tmp" \in Suffix /\ "mem.tmp" \in Suffix
    /\ \A s \in Suffix \ {"ext4"} : s \in {"snap", "mem", "snap.tmp", "mem.tmp"}
  BY SuffixNames

\* Removing a file does no harm, if no deploy is making use of it.
LEMMA ErasingKeeps ==
    ASSUME DeploysOK, SnapshotsInv, NEW f \in Function, NEW s \in Suffix, Erases(f, s),
           UNCHANGED deploy, s \in {"snap", "mem"} \/ ~ Deploying(f)
    PROVE  SnapshotsInv'
<1>1. /\ \A g \in Function \ {f} : disk'[g] = disk[g]
      /\ \A r \in Suffix \ {s} : disk'[f][r] = disk[f][r]
      /\ \A r \in Suffix : disk'[f][r] \in {disk[f][r], Nil}
  BY ErasesOne
<1>2. OlderFirst'
  BY DEF SnapshotsInv, OlderFirst
<1>3. \A g \in Function : SnapshotsOf(g)'
  BY <1>1 DEF SnapshotsInv, SnapshotsOf
<1>4. \A g : (CutOff(g)' <=> CutOff(g)) /\ (BetweenRenames(g)' <=> BetweenRenames(g))
  BY DEF CutOff, DeployAt, BetweenRenames
<1>5. \A g \in Function : Agree(g) => Agree(g)'
  BY <1>1, SnapshotSuffixes DEF Agree
<1>6. ASSUME NEW d \in Deploy, deploy[d].pc # "unused" PROVE InHand(d)' /\ RanThis(d)'
  <2>1. InHand(d) /\ RanThis(d) /\ deploy[d].fn \in Function
    BY <1>6 DEF SnapshotsInv, DeploysOK
  <2>2. CASE deploy[d].fn # f
    BY <1>1, <2>1, <2>2 DEF InHand, RanThis, FileOf
  <2>3. CASE deploy[d].fn = f
    <3>1. disk'[f]["ext4"] \in {disk[f]["ext4"], Nil}
      BY <1>1, SnapshotSuffixes
    <3>2. Nil \notin deploy[d].older
      BY NilIsNothing DEF DeploysOK, Handler
    <3>3. RanThis(d)'
      BY <2>1, <2>3, <3>1, <3>2 DEF RanThis, FileOf
    <3>4. CASE ~ Deploying(f)
      <4>1. deploy[d].pc \notin Running
        BY <2>3, <3>4 DEF Deploying
      <4> QED
        BY <3>3, <4>1 DEF InHand, Running
    <3>5. CASE s \in {"snap", "mem"}
      <4>1. /\ disk'[f]["ext4"] = disk[f]["ext4"] /\ disk'[f]["snap.tmp"] = disk[f]["snap.tmp"]
            /\ disk'[f]["mem.tmp"] = disk[f]["mem.tmp"]
            /\ disk'[f]["snap"] \in {disk[f]["snap"], Nil}
        BY <1>1, <3>5, SnapshotSuffixes
      <4> QED
        BY <2>1, <2>3, <3>3, <4>1 DEF InHand, FileOf
    <3> QED
      BY <3>4, <3>5
  <2> QED
    BY <2>2, <2>3
<1> QED
  BY <1>2, <1>3, <1>4, <1>5, <1>6 DEF SnapshotsInv, Paired

LEMMA ArrivalKeeps ==
    ASSUME DeploysOK, SnapshotsInv, NEW d \in Deploy, NEW f \in Function, NEW w \in BOOLEAN,
           DeployArrives(d, f, w)
    PROVE  SnapshotsInv'
<1>1. /\ deploy[d].pc = "unused" /\ deploy[d].older = {} /\ deploy[d].fn = Nil
      /\ deploy' \in [Deploy -> Handler]
      /\ deploy'[d].pc = "build" /\ deploy'[d].fn = f /\ deploy'[d].older = {}
      /\ \A e \in Deploy \ {d} : deploy'[e] = deploy[e]
      /\ UNCHANGED <<disk, vm>>
  BY ArrivalSteps
<1>2. \A e \in Deploy : deploy[e].older \subseteq Deploy
  BY DEF DeploysOK, Handler
<1>3. OlderFirst'
  BY <1>1, <1>2 DEF SnapshotsInv, OlderFirst, Early
<1>4. \A g \in Function : SnapshotsOf(g)'
  BY <1>1, NilIsNothing DEF SnapshotsInv, SnapshotsOf
<1>5. \A g \in Function : Paired(g)'
  <2>1. \A g : (CutOff(g) => CutOff(g)') /\ (BetweenRenames(g) => BetweenRenames(g)')
    BY <1>1 DEF CutOff, DeployAt, BetweenRenames
  <2>2. \A g : Agree(g) => Agree(g)'
    BY <1>1 DEF Agree
  <2> QED
    BY <2>1, <2>2 DEF SnapshotsInv, Paired
<1>6. ASSUME NEW e \in Deploy, deploy'[e].pc # "unused" PROVE InHand(e)' /\ RanThis(e)'
  BY <1>1, <1>6 DEF SnapshotsInv, InHand, RanThis, FileOf
<1> QED
  BY <1>3, <1>4, <1>5, <1>6 DEF SnapshotsInv

LEMMA KillKeeps == ASSUME DeploysOK, SnapshotsInv, StoreCrash PROVE SnapshotsInv'
<1>1. /\ UNCHANGED <<disk, vm>>
      /\ \A e \in Deploy :
            /\ deploy[e].pc \in Running => deploy'[e].pc = "failed"
            /\ deploy[e].pc \notin Running => deploy'[e] = deploy[e]
            /\ deploy'[e].fn = deploy[e].fn /\ deploy'[e].older = deploy[e].older
            /\ deploy'[e].ran = deploy[e].ran /\ deploy'[e].pc \notin Running
  BY CrashSteps
<1>2. \A e \in Deploy : deploy'[e].pc = deploy[e].pc \/ deploy'[e].pc = "failed"
  BY <1>1
<1>3. \A e \in Deploy : deploy[e].older \subseteq Deploy
  BY DEF DeploysOK, Handler
<1>4. OlderFirst'
  BY <1>1, <1>2, <1>3 DEF SnapshotsInv, OlderFirst, Early
<1>5. \A g \in Function : SnapshotsOf(g)'
  BY <1>1 DEF SnapshotsInv, SnapshotsOf
<1>6. \A g \in Function : Paired(g)'
  <2>1. \A g : CutOff(g) \/ BetweenRenames(g) => CutOff(g)'
    <3>1. "failed" \notin Running /\ "renameMem" \in Running
      BY DEF Running
    <3> QED
      BY <1>1, <3>1 DEF CutOff, DeployAt, BetweenRenames
  <2>2. \A g : Agree(g) => Agree(g)'
    BY <1>1 DEF Agree
  <2> QED
    BY <2>1, <2>2 DEF SnapshotsInv, Paired
<1>7. ASSUME NEW e \in Deploy, deploy'[e].pc # "unused" PROVE InHand(e)' /\ RanThis(e)'
  <2>1. deploy[e].pc # "unused"
    BY <1>1, <1>7 DEF Running
  <2>2. InHand(e)'
    BY <1>1 DEF InHand, Running
  <2>3. RanThis(e)'
    BY <1>1, <2>1 DEF SnapshotsInv, RanThis, FileOf
  <2> QED
    BY <2>2, <2>3
<1> QED
  BY <1>4, <1>5, <1>6, <1>7 DEF SnapshotsInv

\* A step of a handler: nobody else writes the function's files meanwhile.
LEMMA HandlerKeeps ==
    ASSUME DeploysOK, DeploysOK', OneDeploy, SnapshotsInv, NEW d \in Deploy, DeployRuns(d)
    PROVE  SnapshotsInv'
<1> DEFINE f == deploy[d].fn
           old == disk[f]
<1>1. PICK c, new : Leaves(d, c, new) /\ HandlerStep(d, c, new)
  BY DeploySteps
<1>2. /\ deploy[d].pc \in Running /\ c.pc # "unused" /\ c.fn = f
      /\ deploy' \in [Deploy -> Handler] /\ deploy'[d] = c
      /\ \A e \in Deploy \ {d} :
            /\ deploy'[e].pc = deploy[e].pc /\ deploy'[e].fn = deploy[e].fn
            /\ deploy'[e].ran = deploy[e].ran /\ deploy'[e].older \subseteq deploy[e].older
      /\ new \in Files /\ disk' = [disk EXCEPT ![f] = new]
  BY <1>1 DEF Leaves
<1>3. f \in Function /\ deploy[d].pc # "unused"
  BY <1>2 DEF DeploysOK, Running
<1>4. disk'[f] = new /\ \A g \in Function \ {f} : disk'[g] = disk[g]
  BY <1>2, <1>3 DEF DeploysOK
<1>5. \A e \in Deploy \ {d} : deploy[e].fn = f => deploy[e].pc \notin Running
  BY <1>2 DEF OneDeploy
<1>6. \A e \in Deploy : deploy[e].older \subseteq Deploy
  BY DEF DeploysOK, Handler
<1>7. InHand(d) /\ RanThis(d) /\ OlderFirst /\ SnapshotsOf(f) /\ Paired(f)
  BY <1>3 DEF SnapshotsInv
<1>8. \A S : Only(d, S, new) <=> \A s \in Suffix \ S : new[s] = old[s]
  BY DEF Only
<1> HIDE DEF f, old
<1>a. InHand(d) = /\ deploy[d].pc = "create" => deploy[d].ran = old["ext4"]
                  /\ deploy[d].pc = "renameSnap" => old["snap.tmp"] = d /\ old["mem.tmp"] = d
                  /\ deploy[d].pc = "renameMem" => old["snap"] \in {Nil, d} /\ old["mem.tmp"] = d
  BY DEF InHand, FileOf, f, old
<1>b. d # Nil
  BY NilIsNothing
\* One step of another handler of the function is excluded.
<1>c. Agree(f) <=> old["snap"] = Nil \/ old["mem"] = Nil \/ old["snap"] = old["mem"]
  BY DEF Agree, old
<1>d. deploy[d].pc # "renameMem" => Agree(f) \/ CutOff(f)
  BY <1>5, <1>7 DEF Paired, BetweenRenames, Running
<1>10. OlderFirst'
  <2>1. c.pc \in Early \cup {"optOut", "boot", "create"} => c.older = {}
    BY <1>1, <1>7 DEF OlderFirst, Early, HandlerStep, BuildStep, ImageStep, CopyStep, FailStep,
       OptOutStep, BootStep, CreateStep, RenameSnapStep, RenameMemStep, NoSnapshotStep
  <2>2. deploy[d].pc \notin Early => c.pc \notin Early
    BY <1>1 DEF Early, HandlerStep, BuildStep, ImageStep, CopyStep, FailStep,
       OptOutStep, BootStep, CreateStep, RenameSnapStep, RenameMemStep, NoSnapshotStep
  <2>3. \A x \in Deploy : deploy[x].pc \notin Early => deploy'[x].pc \notin Early
    BY <1>2, <2>2
  <2>4. \A x \in c.older : deploy'[x].pc \notin Early
    <3>1. CASE c.older = deploy[d].older
      BY <1>6, <1>7, <2>3, <3>1 DEF OlderFirst
    <3>2. CASE CreateStep(d, c, new)
      <4>1. c.older = Built(f) /\ c.pc = "renameSnap"
        BY <3>2 DEF CreateStep, f
      <4>2. ASSUME NEW x \in Built(f), x # d PROVE deploy[x].pc \notin Early
        <5>1. x \in Deploy /\ deploy[x].fn = f /\ deploy[x].pc \notin Running
          BY <1>5, <4>2 DEF Built
        <5>2. deploy[x].pc # "unused"
          BY <1>3, <5>1, NilIsNothing DEF DeploysOK, NoDeploy
        <5> QED
          BY <5>1, <5>2 DEF Early, Running
      <4>3. ASSUME NEW x \in Built(f) PROVE deploy'[x].pc \notin Early
        <5>1. CASE x = d
          BY <1>2, <4>1, <5>1 DEF Early
        <5>2. CASE x # d
          BY <2>3, <4>2, <5>2 DEF Built
        <5> QED
          BY <5>1, <5>2
      <4> QED
        BY <4>1, <4>3
    <3> QED
      BY <1>1, <3>1, <3>2 DEF HandlerStep, BuildStep, ImageStep, CopyStep, FailStep,
         OptOutStep, BootStep, RenameSnapStep, RenameMemStep, NoSnapshotStep
  <2>5. ASSUME NEW e \in Deploy
        PROVE  /\ deploy'[e].pc \in Early \cup {"optOut", "boot", "create"} =>
                     deploy'[e].older = {}
               /\ \A x \in deploy'[e].older : deploy'[x].pc \notin Early
    <3>1. CASE e = d
      BY <1>2, <2>1, <2>4, <3>1
    <3>2. CASE e # d
      BY <1>2, <1>6, <1>7, <2>3, <3>2 DEF OlderFirst
    <3> QED
      BY <3>1, <3>2
  <2> QED
    BY <2>5 DEF OlderFirst
<1>11. ASSUME NEW g \in Function PROVE SnapshotsOf(g)'
  <2>1. \A e \in Deploy : deploy'[e].fn = deploy[e].fn
    BY <1>2 DEF f
  <2>2. CASE g # f
    BY <1>4, <2>1, <2>2 DEF SnapshotsInv, SnapshotsOf
  <2>3. CASE g = f
    <3>1. \A s \in Suffix \ {"ext4"} :
             \/ new[s] \in {Nil, d}
             \/ \E r \in Suffix \ {"ext4"} : new[s] = old[r]
      <4>1. CASE BuildStep(d, c, new) \/ FailStep(d, c, new)
        BY <1>8, <4>1 DEF BuildStep, FailStep
      <4>2. CASE ImageStep(d, c, new) \/ CopyStep(d, c, new)
        BY <1>8, <4>2 DEF ImageStep, CopyStep
      <4>3. CASE OptOutStep(d, c, new)
        BY <1>8, <4>3 DEF OptOutStep
      <4>4. CASE BootStep(d, c, new) \/ CreateStep(d, c, new) \/ NoSnapshotStep(d, c, new)
        BY <1>8, <4>4 DEF BootStep, CreateStep, NoSnapshotStep, Tmps
      <4>5. CASE RenameSnapStep(d, c, new)
        BY <1>8, <4>5, SnapshotSuffixes DEF RenameSnapStep, f, old
      <4>6. CASE RenameMemStep(d, c, new)
        BY <1>8, <4>6, SnapshotSuffixes DEF RenameMemStep, f, old
      <4> QED
        BY <1>1, <4>1, <4>2, <4>3, <4>4, <4>5, <4>6 DEF HandlerStep
    <3>2. \A r \in Suffix \ {"ext4"} :
             old[r] = Nil \/ \E e \in Deploy : old[r] = e /\ deploy[e].fn = f
      BY <1>7 DEF SnapshotsOf, old
    <3>3. \A s \in Suffix \ {"ext4"} :
             new[s] = Nil \/ \E e \in Deploy : new[s] = e /\ deploy[e].fn = f
      BY <3>1, <3>2 DEF f
    <3> QED
      BY <1>4, <2>1, <2>3, <3>3 DEF SnapshotsOf
  <2> QED
    BY <2>2, <2>3
<1>12. ASSUME NEW g \in Function PROVE Paired(g)'
  <2>1. CutOff(g) => CutOff(g)'
    BY <1>2 DEF CutOff, DeployAt, Running
  <2>2. CASE g # f
    <3>1. BetweenRenames(g) => BetweenRenames(g)'
      BY <1>2, <2>2 DEF BetweenRenames, f
    <3>2. Agree(g) => Agree(g)'
      BY <1>4, <2>2 DEF Agree
    <3> QED
      BY <2>1, <2>2, <3>1, <3>2 DEF SnapshotsInv, Paired
  <2>3. CASE g = f
    <3>1. Agree(g)' <=> new["snap"] = Nil \/ new["mem"] = Nil \/ new["snap"] = new["mem"]
      BY <1>4, <2>3 DEF Agree
    <3>2. CASE deploy[d].pc # "renameMem"
      <4>1. CASE FailStep(d, c, new)
        <5>1. CutOff(g)'
          BY <1>2, <2>3, <4>1 DEF FailStep, CutOff, DeployAt
        <5> QED
          BY <2>3, <5>1 DEF Paired
      <4>2. CASE RenameSnapStep(d, c, new)
        <5>1. BetweenRenames(g)'
          BY <1>2, <2>3, <4>2 DEF RenameSnapStep, BetweenRenames
        <5> QED
          BY <2>3, <5>1 DEF Paired
      <4>3. CASE /\ new["snap"] \in {Nil, old["snap"]} /\ new["mem"] \in {Nil, old["mem"]}
        <5>1. Agree(f) => Agree(g)'
          BY <1>c, <3>1, <4>3
        <5> QED
          BY <1>d, <2>1, <2>3, <3>2, <5>1 DEF Paired
      <4>4. \/ FailStep(d, c, new) \/ RenameSnapStep(d, c, new)
            \/ /\ new["snap"] \in {Nil, old["snap"]} /\ new["mem"] \in {Nil, old["mem"]}
        <5>1. CASE BuildStep(d, c, new) \/ ImageStep(d, c, new) \/ CopyStep(d, c, new)
          BY <1>8, <5>1, SnapshotSuffixes DEF BuildStep, ImageStep, CopyStep
        <5>2. CASE OptOutStep(d, c, new)
          BY <1>8, <5>2, SnapshotSuffixes DEF OptOutStep
        <5>3. CASE BootStep(d, c, new) \/ CreateStep(d, c, new) \/ NoSnapshotStep(d, c, new)
          BY <1>8, <5>3, SnapshotSuffixes DEF BootStep, CreateStep, NoSnapshotStep, Tmps
        <5> QED
          BY <1>1, <3>2, <5>1, <5>2, <5>3 DEF HandlerStep, RenameMemStep
      <4> QED
        BY <4>1, <4>2, <4>3, <4>4
    <3>3. CASE deploy[d].pc = "renameMem"
      <4>1. old["snap"] \in {Nil, d} /\ old["mem.tmp"] = d
        BY <1>7, <1>a, <3>3
      <4>2. RenameMemStep(d, c, new)
        BY <1>1, <1>b, <3>3, <4>1 DEF HandlerStep, BuildStep, ImageStep, CopyStep, FailStep,
           OptOutStep, BootStep, CreateStep, RenameSnapStep, NoSnapshotStep, f, old
      <4>3. new["mem"] = d /\ new["snap"] = old["snap"]
        BY <1>8, <4>1, <4>2, SnapshotSuffixes DEF RenameMemStep, f, old
      <4>4. Agree(g)'
        BY <3>1, <4>1, <4>3
      <4> QED
        BY <2>3, <4>4 DEF Paired
    <3> QED
      BY <3>2, <3>3
  <2> QED
    BY <2>2, <2>3
<1>13. ASSUME NEW e \in Deploy, deploy'[e].pc # "unused" PROVE InHand(e)' /\ RanThis(e)'
  <2>1. CASE e # d
    <3>1. /\ deploy[e].pc # "unused" /\ InHand(e) /\ RanThis(e) /\ deploy[e].fn \in Function
          /\ deploy'[e].pc = deploy[e].pc /\ deploy'[e].fn = deploy[e].fn
          /\ deploy'[e].ran = deploy[e].ran /\ deploy'[e].older \subseteq deploy[e].older
      BY <1>2, <1>13, <2>1 DEF SnapshotsInv, DeploysOK
    <3>2. CASE deploy[e].fn # f
      <4>1. disk'[deploy[e].fn] = disk[deploy[e].fn]
        BY <1>4, <3>1, <3>2
      <4> QED
        BY <3>1, <4>1 DEF InHand, RanThis, FileOf
    <3>3. CASE deploy[e].fn = f
      <4>1. InHand(e)'
        BY <1>5, <2>1, <3>1, <3>3 DEF InHand, Running
      <4>2. new["ext4"] = old["ext4"] \/ new["ext4"] \notin deploy[e].older
        <5>1. deploy[d].pc \in Early => d \notin deploy[e].older
          BY <1>7 DEF OlderFirst
        <5>2. Half \notin deploy[e].older
          BY <1>6, HalfIsNoDeploy
        <5>3. CASE ImageStep(d, c, new) \/ CopyStep(d, c, new)
          BY <5>1, <5>2, <5>3 DEF ImageStep, CopyStep, Early
        <5>4. CASE BuildStep(d, c, new) \/ FailStep(d, c, new) \/ OptOutStep(d, c, new)
          BY <1>8, <5>4, SnapshotSuffixes DEF BuildStep, FailStep, OptOutStep
        <5>5. CASE BootStep(d, c, new) \/ CreateStep(d, c, new) \/ NoSnapshotStep(d, c, new)
          BY <1>8, <5>5, SnapshotSuffixes DEF BootStep, CreateStep, NoSnapshotStep, Tmps
        <5>6. CASE RenameSnapStep(d, c, new) \/ RenameMemStep(d, c, new)
          BY <1>8, <5>6, SnapshotSuffixes DEF RenameSnapStep, RenameMemStep
        <5> QED
          BY <1>1, <5>3, <5>4, <5>5, <5>6 DEF HandlerStep
      <4>3. RanThis(e)'
        BY <1>4, <3>1, <3>3, <4>2 DEF RanThis, FileOf, old
      <4> QED
        BY <4>1, <4>3
    <3> QED
      BY <3>2, <3>3
  <2>2. CASE e = d
    <3>1. /\ FileOf(d, "ext4")' = new["ext4"] /\ FileOf(d, "snap")' = new["snap"]
          /\ FileOf(d, "snap.tmp")' = new["snap.tmp"] /\ FileOf(d, "mem.tmp")' = new["mem.tmp"]
      BY <1>2, <1>4 DEF FileOf
    <3>2. InHand(d)' = /\ c.pc = "create" => c.ran = new["ext4"]
                       /\ c.pc = "renameSnap" => new["snap.tmp"] = d /\ new["mem.tmp"] = d
                       /\ c.pc = "renameMem" => new["snap"] \in {Nil, d} /\ new["mem.tmp"] = d
      BY <1>2, <3>1 DEF InHand
    <3>3. RanThis(d)' = (new["ext4"] \in c.older => c.ran = new["ext4"])
      BY <1>2, <3>1 DEF RanThis
    <3>4. RanThis(d) = (old["ext4"] \in deploy[d].older => deploy[d].ran = old["ext4"])
      BY DEF RanThis, FileOf, f, old
    <3>5. deploy[d].pc \in Early \cup {"optOut", "boot"} => deploy[d].older = {}
      BY <1>7 DEF OlderFirst
    <3>6. CASE \/ BuildStep(d, c, new) \/ ImageStep(d, c, new) \/ CopyStep(d, c, new)
               \/ FailStep(d, c, new) \/ OptOutStep(d, c, new)
      <4>1. c.older = {} /\ c.pc \notin {"create", "renameSnap", "renameMem"}
        BY <3>5, <3>6 DEF BuildStep, ImageStep, CopyStep, FailStep, OptOutStep, Early
      <4> QED
        BY <2>2, <3>2, <3>3, <4>1
    <3>7. CASE BootStep(d, c, new)
      <4>1. c.older = {} /\ c.pc = "create" /\ c.ran = old["ext4"] /\ new["ext4"] = old["ext4"]
        BY <1>8, <3>5, <3>7, SnapshotSuffixes DEF BootStep, Tmps, f, old
      <4> QED
        BY <2>2, <3>2, <3>3, <4>1
    <3>8. CASE CreateStep(d, c, new)
      <4>1. /\ c.pc = "renameSnap" /\ c.ran = deploy[d].ran /\ new["ext4"] = old["ext4"]
            /\ new["snap.tmp"] = d /\ new["mem.tmp"] = d
        BY <1>8, <3>8, SnapshotSuffixes DEF CreateStep, Tmps
      <4>2. c.ran = new["ext4"]
        BY <1>7, <1>a, <3>8, <4>1 DEF CreateStep
      <4> QED
        BY <2>2, <3>2, <3>3, <4>1, <4>2
    <3>9. CASE RenameSnapStep(d, c, new)
      <4>1. /\ c.pc = "renameMem" /\ c.ran = deploy[d].ran /\ c.older = deploy[d].older
            /\ new["ext4"] = old["ext4"] /\ new["mem.tmp"] = old["mem.tmp"]
            /\ new["snap"] = old["snap.tmp"]
        BY <1>8, <3>9, SnapshotSuffixes DEF RenameSnapStep, f, old
      <4>2. new["mem.tmp"] = d /\ new["snap"] = d
        BY <1>7, <1>a, <3>9, <4>1 DEF RenameSnapStep
      <4> QED
        BY <1>7, <2>2, <3>2, <3>3, <3>4, <4>1, <4>2
    <3>10. CASE RenameMemStep(d, c, new) \/ NoSnapshotStep(d, c, new)
      <4>1. /\ c.pc = "done" /\ c.ran = deploy[d].ran /\ c.older = deploy[d].older
            /\ new["ext4"] = old["ext4"]
        BY <1>8, <3>10, SnapshotSuffixes DEF RenameMemStep, NoSnapshotStep, Tmps
      <4> QED
        BY <1>7, <2>2, <3>2, <3>3, <3>4, <4>1
    <3> QED
      BY <1>1, <3>6, <3>7, <3>8, <3>9, <3>10 DEF HandlerStep
  <2> QED
    BY <2>1, <2>2
<1> QED
  BY <1>10, <1>11, <1>12, <1>13 DEF SnapshotsInv

LEMMA SnapshotsKept ==
    ASSUME ArtifactsOK, ArtifactsOK', PagesOK, RegistryInv, SnapshotsInv, Moves
    PROVE  SnapshotsInv'
<1>0. /\ DeploysOK /\ DeploysOK' /\ vm \in [Function -> VM] /\ OneDeploy /\ Apart
  BY DEF ArtifactsOK, RegistryInv
<1>1. ASSUME UNCHANGED <<disk, deploy>> PROVE SnapshotsInv'
  <2>1. OlderFirst'
    BY <1>1 DEF SnapshotsInv, OlderFirst
  <2>2. \A f \in Function : SnapshotsOf(f)' /\ Paired(f)'
    BY <1>1 DEF SnapshotsInv, SnapshotsOf, Paired, Agree, CutOff, DeployAt, BetweenRenames
  <2>3. \A d \in Deploy : deploy'[d].pc # "unused" => InHand(d)' /\ RanThis(d)'
    BY <1>1 DEF SnapshotsInv, InHand, RanThis, FileOf
  <2> QED
    BY <2>1, <2>2, <2>3 DEF SnapshotsInv
<1>2. ASSUME NEW d \in Deploy, NEW f \in Function, NEW w \in BOOLEAN, DeployArrives(d, f, w)
      PROVE  SnapshotsInv'
  BY <1>0, <1>2, ArrivalKeeps
<1>3. ASSUME NEW t \in Tab, Sends(t) PROVE SnapshotsInv'
  <2>1. tab[t].fn \in Function
    BY <1>3 DEF Sends, PagesOK
  <2> QED
    BY <1>2, <1>3, <2>1 DEF Sends
<1>4. ASSUME NEW t \in Tab, RemovalErases(t) PROVE SnapshotsInv'
  <2>1. removal[t].fn \in Function /\ removal[t].next \in 1 .. 5
    BY <1>4, SuffixNames DEF RemovalErases, PagesOK, Removal
  <2>2. Suffixes[removal[t].next] \in Suffix
    BY <2>1, SuffixNames
  <2>3. ~ Deploying(removal[t].fn)
    BY <1>0, <1>4, <2>1 DEF RemovalErases, Removing, Apart
  <2>4. Erases(removal[t].fn, Suffixes[removal[t].next]) /\ UNCHANGED deploy
    BY <1>4 DEF RemovalErases
  <2> QED
    BY <1>0, <2>1, <2>2, <2>3, <2>4, ErasingKeeps
<1>5. ASSUME NEW f \in Function, Boot(f) PROVE SnapshotsInv'
  <2>1. UNCHANGED deploy /\ (UNCHANGED disk \/ \E s \in {"snap", "mem"} : Erases(f, s))
    BY <1>0, <1>5, BootSteps
  <2>2. CASE UNCHANGED disk
    BY <1>1, <2>1, <2>2
  <2>3. ASSUME NEW s \in {"snap", "mem"}, Erases(f, s) PROVE SnapshotsInv'
    <3>1. s \in Suffix
      BY SnapshotSuffixes
    <3> QED
      BY <1>0, <2>1, <2>3, <3>1, ErasingKeeps
  <2> QED
    BY <2>1, <2>2, <2>3
<1>6. ASSUME NEW d \in Deploy, DeployRuns(d) PROVE SnapshotsInv'
  BY <1>0, <1>6, HandlerKeeps
<1>7. ASSUME StoreCrash PROVE SnapshotsInv'
  BY <1>0, <1>7, KillKeeps
<1>8. ASSUME UNCHANGED artifactVars PROVE SnapshotsInv'
  BY <1>1, <1>8 DEF artifactVars
<1> QED
  BY <1>2, <1>3, <1>4, <1>5, <1>6, <1>7, <1>8
  DEF Moves, TabMoves, Registers, RemovalBegins, RemovalMoves, Redeploy

-----------------------------------------------------------------------------
IInv == ArtifactsOK /\ PagesOK /\ RegistryInv /\ SnapshotsInv

LEMMA InitHolds == Init => IInv
<1> SUFFICES ASSUME Init PROVE IInv
  OBVIOUS
<1>1. ArtifactsOK /\ PagesOK
  BY TypesInit
<1>2. /\ \A d \in Deploy : deploy[d] = NoDeploy /\ NoDeploy.pc = "unused" /\ NoDeploy.older = {}
      /\ \A f \in Function : disk[f] = NoFiles /\ \A s \in Suffix : disk[f][s] = Nil
  BY DEF Init, ArtifactsInit, NoDeploy, NoFiles
<1>3. /\ \A t \in Tab : tab[t].pc = "idle" /\ removal[t].pc = "idle"
  BY DEF Init, Idle, NoRemoval
<1>4. RegistryInv
  BY <1>2, <1>3 DEF RegistryInv, OneDeploy, OneUpload, Apart, RemovedKnown, Erased,
     NothingOrphaned, Running, Deploying, Uploading, Sending, TabAt, Removing
<1>5. SnapshotsInv
  BY <1>2, SnapshotSuffixes DEF SnapshotsInv, OlderFirst, SnapshotsOf, Paired, Agree
<1> QED
  BY <1>1, <1>4, <1>5 DEF IInv

LEMMA StepKeeps == ASSUME Calm PROVE IInv /\ [Next]_vars => IInv'
<1> SUFFICES ASSUME IInv, [Next]_vars PROVE IInv'
  OBVIOUS
<1>1. ArtifactsOK' /\ PagesOK' /\ Moves
  BY TypesKept DEF IInv
<1>2. RegistryInv'
  BY <1>1, RegistryKept DEF IInv
<1>3. SnapshotsInv'
  BY <1>1, SnapshotsKept DEF IInv
<1> QED
  BY <1>1, <1>2, <1>3 DEF IInv

\* If the deploys and removals of a function take turns: what the registry, the
\* files and the handlers know of each other.
THEOREM CalmInvariance == ASSUME Calm PROVE Spec => []IInv
  BY InitHolds, StepKeeps, PTL DEF Spec

\* A function that is not registered, or is deleted, has no file: whatever
\* failed or died at whichever step, and though two pages delete it at once.
THEOREM NothingLeft == ASSUME Calm PROVE Spec => []NothingOrphaned
<1>1. IInv => NothingOrphaned
  BY DEF IInv, RegistryInv
<1> QED
  BY <1>1, CalmInvariance, PTL

\* Only the boot of a function moves its VM on.
LEMMA OnlyBootLoads ==
    ASSUME ArtifactsOK, ArtifactsNext, NEW f \in Function, BootAt(f, "check"), BootAt(f, "load")'
    PROVE  SnapshotUsable(f)
<1>0. DeploysOK /\ vm \in [Function -> VM]
  BY DEF ArtifactsOK
<1>1. vm'[f] # vm[f]
  BY DEF BootAt
<1>2. ASSUME NEW d \in Deploy, DeployRuns(d) PROVE vm' = vm
  <2>1. PICK c, new : Leaves(d, c, new)
    BY <1>0, <1>2, DeploySteps
  <2> QED
    BY <2>1 DEF Leaves
<1>3. ASSUME NEW g \in Function, Boot(g) PROVE SnapshotUsable(f)
  <2>1. \A h \in Function \ {g} : vm'[h] = vm[h]
    BY <1>0, <1>3, BootSteps
  <2>2. g = f
    BY <1>1, <2>1
  <2>3. Boot(f)
    BY <1>3, <2>2
  <2> QED
    BY <1>0, <2>3, BootSteps
<1> QED
  BY <1>1, <1>2, <1>3 DEF ArtifactsNext, DeployArrives, StoreCrash, artifactVars

LEMMA UsableMatches ==
    ASSUME IInv, NEW f \in Function, SnapshotUsable(f), ~ Deploying(f), ~ CutOff(f)
    PROVE  disk[f]["snap"] = disk[f]["mem"] /\ deploy[disk[f]["snap"]].ran = disk[f]["ext4"]
<1>1. /\ disk[f]["snap"] # Nil /\ disk[f]["mem"] # Nil
      /\ disk[f]["ext4"] \in deploy[disk[f]["snap"]].older
  BY DEF SnapshotUsable, Has
<1>2. PICK d \in Deploy : disk[f]["snap"] = d /\ deploy[d].fn = f
  BY <1>1, SnapshotSuffixes DEF IInv, SnapshotsInv, SnapshotsOf
<1>3. deploy[d].pc # "unused"
  BY <1>2, NilIsNothing DEF IInv, ArtifactsOK, DeploysOK, NoDeploy
<1>4. deploy[d].ran = disk[f]["ext4"]
  BY <1>1, <1>2, <1>3 DEF IInv, SnapshotsInv, RanThis, FileOf
<1>5. ~ BetweenRenames(f)
  BY DEF Deploying, BetweenRenames, Running
<1>6. disk[f]["snap"] = disk[f]["mem"]
  BY <1>1, <1>5 DEF IInv, SnapshotsInv, Paired, Agree
<1> QED
  BY <1>2, <1>4, <1>6

\* If the deploys and removals of a function take turns and none was cut off, a
\* snapshot that is found usable is whole, and of the image on the disk.
THEOREM UsableSound == ASSUME Calm PROVE Spec => UsableIsSound
<1> DEFINE A == \A f \in Function :
                   BootAt(f, "check") /\ BootAt(f, "load")' /\ ~ Deploying(f) /\ ~ CutOff(f) =>
                       /\ disk[f]["snap"] = disk[f]["mem"]
                       /\ deploy[disk[f]["snap"]].ran = disk[f]["ext4"]
<1>1. IInv /\ [Next]_vars => [A]_vars
  <2> SUFFICES ASSUME IInv, [Next]_vars PROVE A
    OBVIOUS
  <2>1. ArtifactsOK /\ ArtifactsNext
    BY PageSteps, FileMoves DEF IInv
  <2> QED
    BY <2>1, OnlyBootLoads, UsableMatches
<1> HIDE DEF A
<1>2. Spec => [][A]_vars
  BY <1>1, CalmInvariance, PTL DEF Spec
<1> QED
  BY <1>2 DEF A, UsableIsSound
===============================================================================
