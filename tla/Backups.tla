-------------------------------- MODULE Backups --------------------------------
(***************************************************************************)
(* The controller's backups of the game servers' directories: backup and   *)
(* prune of Backup.ts, run by the loops of index.ts and by requests.       *)
(*                                                                         *)
(* Each job works through directories and awaits tar and the object store  *)
(* at every turn; the other jobs go on meanwhile, a prune of one between   *)
(* the list and the delete of another. The object store is external. It    *)
(* lists what is stored at that moment and dates an upload when it ends.   *)
(***************************************************************************)
EXTENDS GameServers, SequencesExt

CONSTANTS Manual,      \* requests for a backup that can be open at once
          Keep,        \* backups kept of each directory: 10 in the code
          MaxUploads   \* bounds the number of uploads

\* A name is a sequence of characters, and the name of one directory.
ASSUME NamesAreStrings ==
    \A n \in Name : n \in Seq(STRING) /\ n # <<>> /\ \A k \in DOMAIN n : n[k] # "/"
ASSUME KeepAssumption == Keep \in Nat \ {0}
ASSUME MaxUploadsAssumption == MaxUploads \in Nat

VARIABLES
  dirs,    \* directories under /foxplay-games
  store,   \* the uploads in the order of their dates, see Upload
  job      \* job[j]: a run of backup or prune, see Job

backupVars == <<dirs, store, job>>

\* An upload: what it is a backup of, whether tar had succeeded, and whether
\* it is (still) in the store.
Upload == [name : Name, whole : BOOLEAN, stored : BOOLEAN]

\* backupLoop and pruneLoop, and the requests for /manage/:id/backup.
Loops == {"backupLoop", "pruneLoop"}
Jobs == Loops \cup Manual

\* todo: the directories backup has still to do; name: the one it is at, and
\* whole: whether its tar succeeded. list: those prune has still to do; old:
\* the uploads it is about to delete. No job of the code is ever "dead".
Job == [pc : {"idle", "next", "tar", "put", "prune", "list", "delete", "dead"},
        todo : SUBSET Name, name : Name \cup {Nil}, whole : BOOLEAN,
        list : SUBSET Name, old : SUBSET (1 .. MaxUploads)]
NoJob == [pc |-> "idle", todo |-> {}, name |-> Nil, whole |-> FALSE, list |-> {}, old |-> {}]

BackupsTypeOK ==
    /\ dirs \subseteq Name
    /\ store \in Seq(Upload) /\ Len(store) <= MaxUploads
    /\ \A u \in DOMAIN store : store[u].name \in dirs
    /\ job \in [Jobs -> Job]

\* A controller that starts finds the directories of its predecessors.
BackupsInit ==
    /\ dirs \in SUBSET Name
    /\ store = <<>>
    /\ job = [j \in Jobs |-> NoJob]

-----------------------------------------------------------------------------
(* What is stored. An operator X_Y is X with a bug that the properties must  *)
(* detect; no action uses it.                                               *)

\* The keys of a listing are those that begin with the name and a slash.
Key(n) == Append(n, "/")
Prefix_NoSlash(n) == n
Prefix(n) == Key(n)

Listed(n) == {u \in DOMAIN store : store[u].stored /\ IsPrefix(Prefix(n), Key(store[u].name))}

\* sort by LastModified, newest first, and slice(Keep).
TooOld(n) == {u \in Listed(n) : Cardinality({v \in Listed(n) : v > u}) >= Keep}

Delete(S) == store' = [u \in DOMAIN store |-> [store[u] EXCEPT !.stored = @ /\ u \notin S]]

JobAt(j, place) == job[j].pc = place
Set(j, new) == job' = [job EXCEPT ![j] = new]

\* Where a job is that has done with one directory: prune takes the next of
\* list, backup then the next of todo.
Onward(r) == CASE r.list # {} -> [r EXCEPT !.pc = "list", !.old = {}]
               [] r.list = {} /\ r.todo # {} -> [NoJob EXCEPT !.pc = "next", !.todo = r.todo]
               [] OTHER -> NoJob

\* An error ends the whole call of backup or prune. The loops catch it and
\* sleep again, a request is answered with it.
Caught_NotByLoops(j) == IF j \in Loops THEN [NoJob EXCEPT !.pc = "dead"] ELSE NoJob
Caught(j) == NoJob
Throw(j) == Set(j, Caught(j))

-----------------------------------------------------------------------------
\* A create makes the directory of its server. Nothing removes one, not even
\* destroy.
Mkdir(n) ==
    /\ dirs' = dirs \cup {n}
    /\ UNCHANGED <<store, job>>

-----------------------------------------------------------------------------
(* backup *)

\* At noon and at midnight: every directory.
BackupLoopWakes ==
    /\ JobAt("backupLoop", "idle") /\ dirs # {}
    /\ Set("backupLoop", [NoJob EXCEPT !.pc = "next", !.todo = dirs])
    /\ UNCHANGED <<dirs, store>>

\* A request: the directory it names, whether there is one or not.
BackupRequested(j, n) ==
    /\ j \in Manual /\ JobAt(j, "idle")
    /\ Set(j, [NoJob EXCEPT !.pc = "next", !.todo = {n}])
    /\ UNCHANGED <<dirs, store>>

Accessible_Assumed(n) == TRUE
Accessible(n) == n \in dirs

\* The order is the one in which readdir gave the directories.
Begin(j, n) ==
    /\ JobAt(j, "next") /\ n \in job[j].todo
    /\ IF Accessible(n) THEN Set(j, [job[j] EXCEPT !.pc = "tar", !.name = n, !.todo = @ \ {n}])
       ELSE Throw(j)
    /\ UNCHANGED <<dirs, store>>

\* tar fails, for one when a file changes while it is read.
Usable_Unchecked(exit) == TRUE
Usable(exit) == exit = 0

TarEnds(j) ==
    /\ JobAt(j, "tar")
    /\ \E exit \in {0, 1} :
          IF Usable(exit) THEN Set(j, [job[j] EXCEPT !.pc = "put", !.whole = exit = 0])
          ELSE Throw(j)
    /\ UNCHANGED <<dirs, store>>

Stored(j) == /\ Len(store) < MaxUploads
             /\ store' = Append(store, [name |-> job[j].name, whole |-> job[j].whole,
                                        stored |-> TRUE])

Put(j) ==
    /\ JobAt(j, "put")
    /\ Stored(j)
    /\ Set(j, [NoJob EXCEPT !.pc = "prune", !.todo = job[j].todo])
    /\ UNCHANGED dirs

\* The upload fails, or only its answer is lost.
PutFails(j) ==
    /\ JobAt(j, "put")
    /\ Stored(j) \/ UNCHANGED store
    /\ Throw(j)
    /\ UNCHANGED dirs

-----------------------------------------------------------------------------
(* prune, at the end of each backup and every 15 minutes *)

PruneLoopWakes ==
    /\ JobAt("pruneLoop", "idle") /\ dirs # {}
    /\ Set("pruneLoop", Onward([NoJob EXCEPT !.list = dirs]))
    /\ UNCHANGED <<dirs, store>>

PruneReads(j) ==
    /\ JobAt(j, "prune")
    /\ Set(j, Onward([job[j] EXCEPT !.list = dirs]))
    /\ UNCHANGED <<dirs, store>>

List(j, n) ==
    /\ JobAt(j, "list") /\ n \in job[j].list
    /\ LET r == [job[j] EXCEPT !.list = @ \ {n}, !.old = TooOld(n)]
       IN Set(j, IF r.old = {} THEN Onward(r) ELSE [r EXCEPT !.pc = "delete"])
    /\ UNCHANGED <<dirs, store>>

ListFails(j) ==
    /\ JobAt(j, "list")
    /\ Throw(j)
    /\ UNCHANGED <<dirs, store>>

DeleteOld(j) ==
    /\ JobAt(j, "delete")
    /\ Delete(job[j].old)
    /\ Set(j, Onward(job[j]))
    /\ UNCHANGED dirs

\* The answer of DeleteObjects may name objects that were not deleted; nobody
\* looks. Or the request fails.
DeleteSome(j) ==
    /\ JobAt(j, "delete")
    /\ \E S \in SUBSET job[j].old : Delete(S)
    /\ Set(j, Onward(job[j])) \/ Throw(j)
    /\ UNCHANGED dirs

-----------------------------------------------------------------------------
\* The controller dies: its jobs with it.
BackupsCrash ==
    /\ job' = [j \in Jobs |-> NoJob]
    /\ UNCHANGED <<dirs, store>>

JobStarts ==
    \/ BackupLoopWakes \/ PruneLoopWakes
    \/ \E j \in Jobs, n \in Name : BackupRequested(j, n)
Backup(j) ==
    \/ TarEnds(j) \/ Put(j) \/ PutFails(j)
    \/ \E n \in Name : Begin(j, n)
Prune(j) ==
    \/ PruneReads(j) \/ ListFails(j) \/ DeleteOld(j) \/ DeleteSome(j)
    \/ \E n \in Name : List(j, n)
==============================================================================
