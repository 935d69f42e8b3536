------------------------------- MODULE SshKeys -------------------------------
(***************************************************************************)
(* The saved SSH keys and the form that creates a server with one of them: *)
(* app/api/ssh-keys, the hook useSshKeys, and CreateInstanceClient up to   *)
(* its call of create (what follows is in ServerPages).                    *)
(*                                                                         *)
(* One form is modelled. Other browsers save and delete keys meanwhile,    *)
(* and the form's list of keys is read anew when it is opened, when its    *)
(* window gets the focus and after it has saved a key.                     *)
(***************************************************************************)
EXTENDS Integers, Sequences, FiniteSets, FiniteSetsExt

CONSTANTS Key,        \* a name and the key that goes by it
          MaxSaves    \* bounds how often a key is saved

ASSUME MaxSavesAssumption == MaxSaves \in Nat
ASSUME KeyAssumption == Key # {}

VARIABLES
  saved,   \* the rows of ssh_keys in the order of their dates; the index is the id
  form     \* see Form

keyVars == <<saved, form>>

Id == 1 .. MaxSaves
New == 0   \* NEW_KEY: the key is typed into the form
SavedKey == [key : Key, active : BOOLEAN]

\* keys: the ids the form's list has; fetch, answer: the request for them, and
\* what it read. typed: the new key. key: the one this submission sends.
\* meant: the one that the form showed when its button was pressed last; kept:
\* have the user and everybody else left the form and the keys alone since then?
Form == [pc : {"closed", "edit", "save", "refresh", "create"},
         choice : {New} \cup Id, typed : Key, keys : SUBSET Id,
         fetch : {"none", "sent", "answered"}, answer : SUBSET Id,
         key : Key, meant : Key, kept : BOOLEAN]

AnyKey == CHOOSE k \in Key : TRUE
Closed == [pc |-> "closed", choice |-> New, typed |-> AnyKey, keys |-> {}, fetch |-> "none",
           answer |-> {}, key |-> AnyKey, meant |-> AnyKey, kept |-> FALSE]

KeysTypeOK ==
    /\ saved \in Seq(SavedKey) /\ Len(saved) <= MaxSaves
    /\ form \in Form

KeysInit == saved = <<>> /\ form = Closed

-----------------------------------------------------------------------------
(* GET, POST /api/ssh-keys and DELETE /api/ssh-keys/[id]: one query each. An *)
(* operator X_Y is X with a bug that the properties must detect; no action  *)
(* uses it.                                                                 *)

ActiveIds == {i \in DOMAIN saved : saved[i].active}
NameTaken(k) == \E i \in ActiveIds : saved[i].key = k

Save(k) == /\ ~ NameTaken(k) /\ Len(saved) < MaxSaves
           /\ saved' = Append(saved, [key |-> k, active |-> TRUE])

OtherSaves(k) ==
    /\ Save(k)
    /\ form' = [form EXCEPT !.kept = FALSE]

OtherDeletes(i) ==
    /\ i \in ActiveIds
    /\ saved' = [saved EXCEPT ![i].active = FALSE]
    /\ form' = [form EXCEPT !.kept = FALSE]

-----------------------------------------------------------------------------
(* The list in the form *)

\* The list is ordered by created_at, newest first.
First_Oldest(S) == Min(S)
First(S) == Max(S)

\* The effect: a new key is what the form starts with, not what is chosen.
Default(choice, keys) == IF choice = New /\ keys # {} THEN First(keys) ELSE choice

FormOpens(k) ==
    /\ form.pc = "closed"
    /\ form' = [Closed EXCEPT !.pc = "edit", !.typed = k, !.keys = form.keys,
                              !.choice = Default(New, form.keys), !.fetch = "sent"]
    /\ UNCHANGED saved

\* A mutation that waits for the list goes on as soon as that has ended.
Focus ==
    /\ form.pc \notin {"closed", "refresh"} /\ form.fetch = "none"
    /\ form' = [form EXCEPT !.fetch = "sent"]
    /\ UNCHANGED saved

KeysAnswer ==
    /\ form.fetch = "sent"
    /\ form' = [form EXCEPT !.fetch = "answered", !.answer = ActiveIds]
    /\ UNCHANGED saved

KeysFail ==
    /\ form.fetch = "sent"
    /\ form' = [form EXCEPT !.fetch = "none"]
    /\ UNCHANGED saved

\* The effect runs when the number of keys has changed.
KeysArrive ==
    /\ form.fetch = "answered"
    /\ LET keys == form.answer
           effect == form.pc # "closed" /\ Cardinality(keys) # Cardinality(form.keys) IN
       form' = [form EXCEPT !.keys = keys, !.fetch = "none", !.answer = {},
                            !.choice = IF effect THEN Default(@, keys) ELSE @]
    /\ UNCHANGED saved

-----------------------------------------------------------------------------
(* handleCreate and resolvePublicKey *)

\* Picker and inputs stay usable while a submission runs.
Choose(c, k) ==
    /\ form.pc # "closed" /\ c \in {New} \cup form.keys
    /\ form' = [form EXCEPT !.choice = c, !.typed = IF c = New THEN k ELSE @, !.kept = FALSE]
    /\ UNCHANGED saved

Shown == IF form.choice = New THEN form.typed ELSE saved[form.choice].key

\* A key that is no longer in the list is refused.
PressCreate ==
    /\ form.pc = "edit" /\ form.choice \in {New} \cup form.keys
    /\ form' = [form EXCEPT !.pc = IF form.choice = New THEN "save" ELSE "create",
                            !.key = Shown, !.meant = Shown,
                            !.kept = form.fetch = "none" /\ form.keys = ActiveIds]
    /\ UNCHANGED saved

\* The mutation ends when the list, which it invalidates, has been read again.
NewKeySaved ==
    /\ form.pc = "save" /\ Save(form.key)
    /\ form' = [form EXCEPT !.pc = "refresh", !.fetch = "sent", !.answer = {}]

\* 409, 500, or only the answer is lost.
NewKeyFails ==
    /\ form.pc = "save"
    /\ Save(form.key) \/ UNCHANGED saved
    /\ form' = [form EXCEPT !.pc = "edit"]

\* The key is the one in the answer, whatever the picker shows by now.
SavedKeyOf_Picker == Shown
SavedKeyOf == form.key

NewKeyUsed ==
    /\ form.pc = "refresh" /\ form.fetch = "none"
    /\ form' = [form EXCEPT !.pc = "create", !.key = SavedKeyOf]
    /\ UNCHANGED saved

\* router.push, or an error message and the form as it is.
CreateEnds ==
    /\ form.pc = "create"
    /\ \/ form' = [Closed EXCEPT !.keys = form.keys]
       \/ form' = [form EXCEPT !.pc = "edit"]
    /\ UNCHANGED saved

-----------------------------------------------------------------------------
ListRuns == KeysAnswer \/ KeysFail \/ KeysArrive
Submission == NewKeySaved \/ NewKeyFails \/ NewKeyUsed \/ CreateEnds

KeysNext ==
    \/ \E k \in Key : FormOpens(k) \/ OtherSaves(k) \/ \E c \in {New} \cup Id : Choose(c, k)
    \/ \E i \in Id : OtherDeletes(i)
    \/ Focus \/ PressCreate \/ ListRuns \/ Submission
==============================================================================
