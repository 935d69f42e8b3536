------------------------------ MODULE Controller ------------------------------
(***************************************************************************)
(* The controller: the handlers of GameServers and the jobs of Backups in  *)
(* one process. They share the directories, and they die together: a       *)
(* create that finds no port ends the backup that is under way.            *)
(***************************************************************************)
EXTENDS Backups

CONSTANT Apart   \* a bound: do jobs run only while there is no container, and
                 \* are creates served only before the first upload?

ASSUME ApartAssumption == Apart \in BOOLEAN

vars == <<games, container, create, dirs, store, job>>

TypeOK == GamesTypeOK /\ BackupsTypeOK
Init == GamesInit /\ BackupsInit

NoGames == create = [r \in Request |-> NoCreate] /\ container = [n \in Name |-> NoContainer]
NoBackups == store = <<>> /\ job = [j \in Jobs |-> NoJob]

Crash == GamesCrash /\ BackupsCrash
NoPortCrash(r) == CreateAt(r, "ports") /\ OutOfPorts(create[r].game) /\ Crash

Serve ==
    /\ Apart => NoBackups
    /\ \/ \E r \in Request, g \in Game, n \in Name : CreateArrives(r, g, n) /\ Mkdir(n)
       \/ /\ \/ \E r \in Request : CreateHandler(r)
             \/ \E n \in Name : Manage(n)
          /\ UNCHANGED backupVars

RunJobs ==
    /\ Apart => NoGames
    /\ JobStarts \/ \E j \in Jobs : Backup(j) \/ Prune(j)
    /\ UNCHANGED gameVars

Next == Serve \/ RunJobs \/ Crash \/ \E r \in Request : NoPortCrash(r)

Spec == Init /\ [][Next]_vars

\* The timers fire and what a job calls returns, if only with an error. The
\* object store answers a request that is made over and over, and deletes what
\* it is told to delete over and over.
Run(act) == act /\ UNCHANGED gameVars

Fairness ==
    /\ WF_vars(Run(PruneLoopWakes))
    /\ WF_vars(Run(Prune("pruneLoop")))
    /\ SF_vars(Run(DeleteOld("pruneLoop")))
    /\ \A n \in Name : SF_vars(Run(List("pruneLoop", n)))

FairSpec == Spec /\ Fairness
==============================================================================
