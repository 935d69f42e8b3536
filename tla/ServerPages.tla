----------------------------- MODULE ServerPages -----------------------------
(***************************************************************************)
(* The page of a server in the browser, on top of the registry:            *)
(* InstanceDetailClient with its query of the row, its three buttons and   *)
(* its polling, and the hook useInstances.                                 *)
(*                                                                         *)
(* A tab of Tab is on the list of servers or on the page of one of them.   *)
(* The other clients are browsers and scripts whose screens are not        *)
(* modelled; they may ask for anything at any time. The form that creates  *)
(* a server chooses its key in SshKeys.                                    *)
(***************************************************************************)
EXTENDS InstanceRegistry, SshKeys

CONSTANT Apart   \* a bound: are keys chosen only while there is no server and
                 \* no request, and servers used only while there is no key?

ASSUME ApartAssumption == Apart \in BOOLEAN

VARIABLE page   \* page[t]: the page of tab t, see Page

vars == <<row, vm, request, list, page, saved, form>>
serverVars == <<row, vm, request, list, page>>

\* What the query of the row answers: no row (or an error), or its state.
Answers == {"missing"} \cup RowStates

\* inst: Nil while the tab shows the list. fetch: the query's request: none,
\* sent, or the answer on its way back. old, late: was what is shown, or the
\* answer on its way, read before the last action of this tab took effect?
Page == [inst : Instance \cup {Nil}, data : {"pending"} \cup Answers,
         fetch : {"none", "sent"} \cup Answers, old : BOOLEAN, late : BOOLEAN]

OnList == [inst |-> Nil, data |-> "pending", fetch |-> "none", old |-> FALSE, late |-> FALSE]

TypeOK == RegistryTypeOK /\ KeysTypeOK /\ page \in [Tab -> Page]
PagesInit == page = [t \in Tab |-> OnList]
Init == RegistryInit /\ PagesInit /\ KeysInit

Busy(t) == ~ At(t, "idle")
Set(t, p) == page' = [page EXCEPT ![t] = p]

-----------------------------------------------------------------------------
(* The query of the row *)

\* A server is opened from the list; the query runs at once.
Open(t, i) ==
    /\ page[t].inst = Nil /\ Active(i) /\ ~ Busy(t)
    /\ Set(t, [OnList EXCEPT !.inst = i, !.fetch = "sent"])
    /\ UNCHANGED registryVars

\* Every five seconds, whatever the page shows; not while a request is out.
Poll_WhileRunning(t) == page[t].inst # Nil /\ page[t].fetch = "none" /\ page[t].data = "running"
PollDue(t) == page[t].inst # Nil /\ page[t].fetch = "none"
Poll(t) ==
    /\ PollDue(t)
    /\ Set(t, [page[t] EXCEPT !.fetch = "sent"])
    /\ UNCHANGED registryVars

\* GET /api/instances/[id]: 404 for a deleted row.
View_Deleted(i) == IF Active(i) THEN row[i].state ELSE "deleted"
View(i) == IF Active(i) THEN row[i].state ELSE "missing"
DetailAnswers(t) ==
    /\ page[t].fetch = "sent"
    /\ Set(t, [page[t] EXCEPT !.fetch = View(page[t].inst), !.late = FALSE])
    /\ UNCHANGED registryVars

\* All retries of the query have failed: the page says there is no server.
DetailFails(t) ==
    /\ page[t].fetch = "sent"
    /\ Set(t, [page[t] EXCEPT !.fetch = "missing", !.late = FALSE])
    /\ UNCHANGED registryVars

DetailArrives(t) ==
    /\ page[t].fetch \in Answers
    /\ LET p == page[t] IN
       Set(t, [p EXCEPT !.data = p.fetch, !.fetch = "none", !.old = p.late, !.late = FALSE])
    /\ UNCHANGED registryVars

-----------------------------------------------------------------------------
(* The buttons: act *)

Offered(t) == CASE page[t].data \in {"pending", "missing"} -> {}
                [] page[t].data = "running" -> {"stop", "delete"}
                [] OTHER -> {"start", "delete"}

Press(t, o) ==
    /\ page[t].inst # Nil /\ ~ Busy(t) /\ o \in Offered(t)
    /\ Ask(t, o, page[t].inst)
    /\ UNCHANGED page

\* The form on /servers/create.
SubmitCreate(t, i) ==
    /\ page[t].inst = Nil /\ ~ Busy(t)
    /\ Ask(t, "create", i)
    /\ UNCHANGED page

\* The action has had its effect on the row: what was read before is old.
Outdated(p) == [p EXCEPT !.old = TRUE, !.late = p.fetch \in Answers]

\* detailQuery.refetch() gives up a request that is on its way; the answer to
\* that one is not used any more.
Refetch_Joins(t) == IF page[t].fetch = "none" THEN [page[t] EXCEPT !.fetch = "sent"] ELSE page[t]
Refetch(t) == [page[t] EXCEPT !.fetch = "sent", !.late = FALSE]

ActSucceeds(t) ==
    /\ At(t, "ok")
    /\ request' = [request EXCEPT ![t] = NoRequest]
    /\ Set(t, IF request[t].op \in {"create", "delete"} THEN OnList ELSE Refetch(t))
    /\ UNCHANGED <<row, vm, list>>

\* finally: the buttons are offered again. The error is shown and nothing is
\* fetched.
Released_OnSuccess(t) == request[t]
Released(t) == NoRequest
ActFails(t) ==
    /\ At(t, "failed")
    /\ request' = [request EXCEPT ![t] = Released(t)]
    /\ UNCHANGED <<row, vm, list, page>>

-----------------------------------------------------------------------------
Elsewhere(c) ==
    /\ \E o \in Ops, i \in Instance : Ask(c, o, i)
    /\ UNCHANGED page

HandlerRuns(c) ==
    /\ Handle(c)
    /\ page' = IF c \in Tab /\ At(c, "write") /\ request'[c].pc = "ok"
               THEN [page EXCEPT ![c] = Outdated(@)] ELSE page

Query(t) == Poll(t) \/ DetailAnswers(t) \/ DetailFails(t) \/ DetailArrives(t)
Act(t) == ActSucceeds(t) \/ ActFails(t)

PagesNext ==
    \/ \E t \in Tab :
          \/ \E i \in Instance : Open(t, i) \/ SubmitCreate(t, i)
          \/ \E o \in Ops : Press(t, o)
          \/ Query(t) \/ Act(t)
    \/ \E c \in Client \ Tab : Elsewhere(c)
    \/ \E c \in Client : HandlerRuns(c)
    \/ (Reconcile \/ VMsVanish \/ FrontendRestarts) /\ UNCHANGED page

Next ==
    \/ (Apart => KeysInit) /\ PagesNext /\ UNCHANGED keyVars
    \/ (Apart => RegistryInit /\ PagesInit) /\ KeysNext /\ UNCHANGED serverVars

Spec == Init /\ [][Next]_vars

\* The page of a tab is open in the foreground, where its timer runs, and a
\* request that it sends over and over is answered at some time. Handlers run
\* on: neither a query nor a call to the manager blocks for ever.
Pages(act) == act /\ UNCHANGED keyVars
Keys(act) == act /\ UNCHANGED serverVars

Fairness ==
    /\ \A t \in Tab : /\ WF_vars(Pages(Poll(t))) /\ SF_vars(Pages(DetailAnswers(t)))
                       /\ WF_vars(Pages(DetailArrives(t))) /\ WF_vars(Pages(Act(t)))
    /\ \A c \in Client : WF_vars(Pages(HandlerRuns(c)))
    /\ WF_vars(Keys(ListRuns)) /\ WF_vars(Keys(Submission))

FairSpec == Spec /\ Fairness
==============================================================================
