------------------------ MODULE ServerPagesProperties ------------------------
(***************************************************************************)
(* What the registry of instances and the pages of the servers promise.    *)
(***************************************************************************)
EXTENDS ServerPages

\* What the manager has of an instance, a disk or a running VM, is in the
\* list of servers: a row is written before anything is provisioned for it,
\* and deleted only when all of it is gone, whoever else starts, stops or
\* deletes the instance meanwhile, and whatever fails on the way.
NothingUnlisted == \A i \in Instance : vm[i] # "gone" => Active(i)

\* Two instances never share an address and an SSH port, whether they are
\* deleted or not (route.ts:56: a slot's networking might still linger).
SlotsUnique ==
    \A i, j \in Instance : i # j /\ Stored(i) /\ Stored(j) => row[i].slot # row[j].slot

\* A page that waits for nothing shows no state that was read before the last
\* action made on it: the answer of a poll sent before the action never
\* replaces, or stands for, the one that is fetched after it.
ReadYourWrites ==
    \A t \in Tab : page[t].inst # Nil /\ ~ Busy(t) /\ page[t].fetch = "none" => ~ page[t].old

\* A server gets the key that the form showed when its button was pressed,
\* though list and picker change while a new key is saved.
InjectsWhatWasShown == form.pc = "create" => form.key = form.meant

\* After a submission that failed, in whichever of its steps, the form still
\* shows the same key, so that pressing again cannot create the server with
\* another one; if its list was up to date, and nobody changed keys, picker or
\* input since. (Otherwise it may: the effect takes "new" for not chosen.)
RetryKeepsKey == form.pc = "edit" /\ form.kept => Shown = form.meant

-----------------------------------------------------------------------------
\* A page left open on a server catches up with its row, whoever changed it:
\* a create that ended, another browser, the reconciliation, a deletion; unless
\* buttons are pressed over and over (each action gives up the answer that is
\* on its way), or the rows never come to rest.
PageCatchesUp ==
    \A t \in Tab :
        \/ []<>(page[t].inst = Nil \/ Busy(t) \/ page[t].data = View(page[t].inst))
        \/ []<><<row' # row>>_vars

\* After every press the buttons come back, whatever became of the request.
ButtonsComeBack ==
    /\ \A t \in Tab : Busy(t) ~> ~ Busy(t)
    /\ form.pc \notin {"closed", "edit"} ~> form.pc \in {"closed", "edit"}

\* Somebody keeps opening the list of servers, and what it asks of the
\* manager and of the database does not fail for ever.
ListIsServed ==
    /\ WF_vars(Pages(ListReads /\ UNCHANGED page))
    /\ SF_vars(Pages(ListAsks /\ UNCHANGED page))
    /\ SF_vars(Pages(ListMarks /\ UNCHANGED page))

Quiet(i) == \A c \in Client : Answered(c) \/ For(c) # i

\* Then a VM that has vanished, and that nobody starts again, does not stay
\* marked as running.
Reconciled ==
    ListIsServed =>
        \A i \in Instance :
            <>[](vm[i] # "on" /\ Quiet(i)) => <>[] ~ (Active(i) /\ row[i].state = "running")
==============================================================================
