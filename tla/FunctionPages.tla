----------------------------- MODULE FunctionPages -----------------------------
(***************************************************************************)
(* The functions in the browser and in the registry, on top of their       *)
(* files: UploadForm registers a function, deploys its code and undoes the *)
(* registration when that fails; the page of a function deletes it; the    *)
(* route handlers of app/api/functions keep the table functions and have   *)
(* the artifact-store remove the files.                                    *)
(*                                                                         *)
(* All uploads here ask for the same name; functions with other names have *)
(* nothing to do with each other. A restart of the frontend ends handlers  *)
(* as a failure of their next step does, and loses their answers.          *)
(***************************************************************************)
EXTENDS FunctionArtifacts

CONSTANTS Tab,         \* browsers on the pages of functions
          Redeploys,   \* do scripts deploy new code of a registered function?
          Calm         \* does a deploy of a function never overlap another
                       \* deploy, or a delete, of the same function?

ASSUME NilIsNothing == Nil \notin Function \cup Deploy
ASSUME RedeploysAssumption == Redeploys \in BOOLEAN
ASSUME CalmAssumption == Calm \in BOOLEAN

VARIABLES
  row,      \* row[f]: the row of function f
  tab,      \* tab[t]: the request that tab t waits for, see TabState
  removal   \* removal[t]: the handler of the last DELETE of tab t, see Removal

vars == <<disk, deploy, vm, row, tab, removal>>
pageVars == <<row, tab, removal>>

RowStates == {"none", "active", "deleted"}

\* rollback is the DELETE of an upload that failed, delete the one of a page.
TabState == [pc : {"idle", "register", "send", "deploy", "rollback", "delete"},
             fn : Function \cup {Nil}, deploy : Deploy \cup {Nil}]
Idle == [pc |-> "idle", fn |-> Nil, deploy |-> Nil]

\* erase: the artifact-store removes the file with suffix number next.
Removal == [pc : {"idle", "call", "erase", "update", "ok", "failed"},
            fn : Function \cup {Nil}, next : DOMAIN Suffixes]
NoRemoval == [pc |-> "idle", fn |-> Nil, next |-> 1]

TypeOK ==
    /\ ArtifactsTypeOK
    /\ row \in [Function -> RowStates]
    /\ tab \in [Tab -> TabState]
    /\ removal \in [Tab -> Removal]

Init ==
    /\ ArtifactsInit
    /\ row = [f \in Function |-> "none"]
    /\ tab = [t \in Tab |-> Idle]
    /\ removal = [t \in Tab |-> NoRemoval]

-----------------------------------------------------------------------------
TabAt(t, place) == tab[t].pc = place
SetTab(t, new) == tab' = [tab EXCEPT ![t] = new]
RemovalAt(t, place) == removal[t].pc = place
SetRemoval(t, new) == removal' = [removal EXCEPT ![t] = new]

\* What Calm rules out.
Removing(f) == \E t \in Tab : removal[t].fn = f /\ removal[t].pc \in {"call", "erase", "update"}
Sending(f) == \E t \in Tab : tab[t].fn = f /\ TabAt(t, "send")
MayDeploy(f) == Calm => ~ Deploying(f) /\ ~ Removing(f)
MayRemove(f) == Calm => ~ Deploying(f) /\ ~ Sending(f)

-----------------------------------------------------------------------------
(* UploadForm.handleUpload and POST /api/functions *)

Upload(t) ==
    /\ TabAt(t, "idle")
    /\ SetTab(t, [Idle EXCEPT !.pc = "register"])
    /\ UNCHANGED <<artifactVars, row, removal>>

\* The database makes an id, unless an active function has the name.
NameTaken == \E f \in Function : row[f] = "active"
Registered(f) == /\ ~ NameTaken /\ row[f] = "none"
                 /\ row' = [row EXCEPT ![f] = "active"]

Register(t, f) ==
    /\ TabAt(t, "register") /\ Registered(f)
    /\ SetTab(t, [Idle EXCEPT !.pc = "send", !.fn = f])
    /\ UNCHANGED <<artifactVars, removal>>

\* 409, 500, or only the answer is lost: without an id nothing is undone.
RegisterFails(t) ==
    /\ TabAt(t, "register")
    /\ UNCHANGED row \/ \E f \in Function : Registered(f)
    /\ SetTab(t, Idle)
    /\ UNCHANGED <<artifactVars, removal>>

SendCode(t, d, wanted) ==
    /\ TabAt(t, "send") /\ MayDeploy(tab[t].fn)
    /\ DeployArrives(d, tab[t].fn, wanted)
    /\ SetTab(t, [tab[t] EXCEPT !.pc = "deploy", !.deploy = d])
    /\ UNCHANGED <<row, removal>>

DeployAnswered(t) ==
    /\ TabAt(t, "deploy") /\ DeployAt(tab[t].deploy, "done")
    /\ SetTab(t, Idle)
    /\ UNCHANGED <<artifactVars, row, removal>>

\* DELETE /api/functions/:id is sent.
Remove(t, f) == /\ removal[t].pc \in {"idle", "ok", "failed"}
                /\ SetRemoval(t, [NoRemoval EXCEPT !.pc = "call", !.fn = f])

\* The store cannot be reached, it answers with an error, or no answer comes
\* (the deploy may be running on): the registration is undone.
UploadFails(t) ==
    /\ tab[t].pc \in {"send", "deploy"} /\ (Calm => ~ Deploying(tab[t].fn))
    /\ SetTab(t, [Idle EXCEPT !.pc = "rollback"])
    /\ Remove(t, tab[t].fn)
    /\ UNCHANGED <<artifactVars, row>>

-----------------------------------------------------------------------------
(* FunctionDetailClient.handleDelete; the page also shows a deleted function. *)

PressDelete(t, f) ==
    /\ TabAt(t, "idle") /\ row[f] # "none" /\ MayRemove(f)
    /\ SetTab(t, [Idle EXCEPT !.pc = "delete"])
    /\ Remove(t, f)
    /\ UNCHANGED <<artifactVars, row>>

\* finally in the form, catch on the page: the button is offered again,
\* whatever the answer is and if none comes.
Released_OnSuccess(t) == IF RemovalAt(t, "ok") THEN Idle ELSE tab[t]
Released(t) == Idle
RemoveReturns(t) ==
    /\ tab[t].pc \in {"rollback", "delete"}
    /\ SetTab(t, Released(t))
    /\ UNCHANGED <<artifactVars, row, removal>>

-----------------------------------------------------------------------------
(* DELETE /api/functions/:id, and /delete/:id of the artifact-store *)

RemovalCalls(t) ==
    /\ RemovalAt(t, "call")
    /\ SetRemoval(t, [removal[t] EXCEPT !.pc = "erase"])
    /\ UNCHANGED <<artifactVars, row, tab>>

\* os.Remove of a file that is not there is an error that nobody looks at.
Last_NoTemporary == 3
Last_OneMore == Len(Suffixes) + 1
Last == Len(Suffixes)
EraseEnds_IfThere(t) == Has(removal[t].fn, Suffixes[removal[t].next])
EraseEnds(t) == TRUE

Erase(t) ==
    /\ RemovalAt(t, "erase") /\ EraseEnds(t)
    /\ LET r == removal[t] IN
       /\ SetFiles(r.fn, [disk[r.fn] EXCEPT ![Suffixes[r.next]] = Nil])
       /\ SetRemoval(t, IF r.next < Last THEN [r EXCEPT !.next = @ + 1]
                                         ELSE [r EXCEPT !.pc = "update"])
    /\ UNCHANGED <<deploy, vm, row, tab>>

MarkDeleted(t) ==
    /\ RemovalAt(t, "update")
    /\ row' = [row EXCEPT ![removal[t].fn] = "deleted"]
    /\ SetRemoval(t, [NoRemoval EXCEPT !.pc = "ok"])
    /\ UNCHANGED <<artifactVars, tab>>

\* The store or the database cannot be reached, or the store is killed.
RemovalFails(t) ==
    /\ removal[t].pc \in {"call", "erase", "update"}
    /\ SetRemoval(t, [NoRemoval EXCEPT !.pc = "failed"])
    /\ UNCHANGED <<artifactVars, row, tab>>

-----------------------------------------------------------------------------
\* A script deploys new code under an id that it knows.
Redeploy(d, f, wanted) ==
    /\ Redeploys /\ row[f] = "active" /\ MayDeploy(f)
    /\ DeployArrives(d, f, wanted)
    /\ UNCHANGED pageVars

TabRuns(t) ==
    \/ \E f \in Function : Register(t, f)
    \/ \E d \in Deploy, wanted \in BOOLEAN : SendCode(t, d, wanted)
    \/ RegisterFails(t) \/ DeployAnswered(t) \/ UploadFails(t) \/ RemoveReturns(t)
RemovalRuns(t) == RemovalCalls(t) \/ Erase(t) \/ MarkDeleted(t) \/ RemovalFails(t)

Next ==
    \/ \E t \in Tab : \/ Upload(t) \/ TabRuns(t) \/ RemovalRuns(t)
                      \/ \E f \in Function : PressDelete(t, f)
    \/ \E d \in Deploy : \/ DeployRuns(d) /\ UNCHANGED pageVars
                         \/ \E f \in Function, wanted \in BOOLEAN : Redeploy(d, f, wanted)
    \/ \E f \in Function : Boot(f) /\ UNCHANGED pageVars
    \/ StoreCrash /\ UNCHANGED pageVars

Spec == Init /\ [][Next]_vars

\* Requests are answered in the end, or given up, and handlers run on: no
\* query, build or boot blocks for ever.
Fairness ==
    /\ \A t \in Tab : WF_vars(TabRuns(t)) /\ WF_vars(RemovalRuns(t))
    /\ \A d \in Deploy : WF_vars(DeployRuns(d) /\ UNCHANGED pageVars)

FairSpec == Spec /\ Fairness
==============================================================================
