---------------------------- MODULE SshKeysProofs ----------------------------
(***************************************************************************)
(* The inductive invariant of the saved keys and the form, for any set of  *)
(* keys. ServerPagesProofs makes theorems of the specification of it.      *)
(***************************************************************************)
EXTENDS SshKeys, FiniteSetTheorems, WellFoundedInduction, TLAPS

-----------------------------------------------------------------------------
(* The maximum of a bounded set *)

\* A set of naturals that is not empty and bounded has a maximum.
LEMMA MaxExists ==
    ASSUME NEW n \in Nat, NEW S, S \subseteq 0 .. n, S # {}
    PROVE  Max(S) \in S /\ \A y \in S : Max(S) >= y
<1> DEFINE T == {x \in 0 .. n : n - x \in S}
<1>1. T \subseteq Nat /\ T # {}
  <2>1. PICK x \in S : TRUE
    OBVIOUS
  <2>2. x \in 0 .. n /\ n - x \in 0 .. n /\ n - (n - x) = x
    OBVIOUS
  <2>3. n - x \in T
    BY <2>2
  <2>4. T \subseteq Nat
    OBVIOUS
  <2> QED
    BY <2>3, <2>4
<1>2. PICK m \in T : \A y \in T : ~ (<<y, m>> \in OpToRel(<, Nat))
  BY <1>1, NatLessThanWellFounded, WFMin
<1>3. ASSUME NEW y \in T PROVE ~ (y < m)
  <2>1. y \in Nat /\ m \in Nat
    BY <1>1
  <2> QED
    BY <1>2, <2>1 DEF OpToRel
<1>4. n - m \in S
  OBVIOUS
<1>5. \A y \in S : n - m >= y
  <2> TAKE y \in S
  <2>1. y \in 0 .. n /\ m \in 0 .. n /\ n - y \in 0 .. n /\ n - (n - y) = y
    OBVIOUS
  <2>2. n - y \in T
    BY <2>1
  <2>3. ~ (n - y < m)
    BY <1>3, <2>2
  <2> QED
    BY <2>1, <2>3
<1> QED
  BY <1>4, <1>5 DEF Max

\* A number above all elements becomes the maximum.
LEMMA MaxOfLarger ==
    ASSUME NEW n \in Nat, NEW S, S \subseteq 1 .. n
    PROVE  Max(S \cup {n + 1}) = n + 1
<1> DEFINE A == S \cup {n + 1}
<1>1. n + 1 \in A /\ \A y \in A : y \in 0 .. n + 1
  OBVIOUS
<1> HIDE DEF A
<1>2. Max(A) \in A /\ \A y \in A : Max(A) >= y
  <2>1. n + 1 \in Nat /\ A \subseteq 0 .. n + 1 /\ A # {}
    BY <1>1
  <2> QED
    BY <2>1, MaxExists
<1>3. Max(A) = n + 1
  BY <1>1, <1>2
<1> QED
  BY <1>3 DEF A

-----------------------------------------------------------------------------
(* The invariant *)

\* The form knows only of keys that have been saved.
KnownKeys == /\ form.keys \cup form.answer \subseteq DOMAIN saved
             /\ form.choice = New \/ form.choice \in DOMAIN saved

\* What a submission sends is what was shown at the press.
KeyRemembered == form.pc \in {"save", "refresh", "create"} => form.key = form.meant

\* The keys an answer brings, or would bring if it was read now.
OnTheirWay == {ActiveIds} \cup (IF form.fetch = "answered" THEN {form.answer} ELSE {})

\* A list that does not make the effect choose, or makes it choose the key meant.
Harmless(S) ==
    S = form.keys \/ ( /\ S # {} /\ Cardinality(S) # Cardinality(form.keys)
                       /\ saved[First(S)].key = form.meant )

\* While form and keys are left alone, nothing but this form's own save changes
\* the list, and what the effect then chooses is the key just saved.
ChoiceKept ==
    form.kept => /\ form.pc # "closed"
                 /\ Shown = form.meant
                 /\ form.pc = "save" => \A S \in OnTheirWay : S = form.keys
                 /\ form.choice = New => \A S \in OnTheirWay : Harmless(S)

KeysInv == KeysTypeOK /\ KnownKeys /\ KeyRemembered /\ ChoiceKept

LEMMA KeysInvInit == KeysInit => KeysInv
<1> SUFFICES ASSUME KeysInit PROVE KeysInv
  OBVIOUS
<1>1. AnyKey \in Key
  BY KeyAssumption DEF AnyKey
<1>2. saved = <<>> /\ form \in Form /\ form.keys = {} /\ form.answer = {} /\ form.choice = New
      /\ form.pc = "closed" /\ ~ form.kept
  BY <1>1 DEF KeysInit, Closed, Form, New
<1> QED
  BY <1>2, MaxSavesAssumption DEF KeysInv, KeysTypeOK, KnownKeys, KeyRemembered, ChoiceKept

-----------------------------------------------------------------------------
(* The rows *)

\* The active rows are rows, and ids are bounded.
LEMMA IdsAreBounded ==
    ASSUME KeysTypeOK
    PROVE  /\ Len(saved) \in 0 .. MaxSaves /\ DOMAIN saved = 1 .. Len(saved)
           /\ DOMAIN saved \subseteq Id
           /\ ActiveIds \subseteq DOMAIN saved
           /\ \A i \in DOMAIN saved : saved[i] \in SavedKey
           /\ \A S \in SUBSET DOMAIN saved : S # {} => First(S) \in S
<1>1. Len(saved) \in 0 .. MaxSaves /\ DOMAIN saved = 1 .. Len(saved)
      /\ \A i \in DOMAIN saved : saved[i] \in SavedKey
  BY MaxSavesAssumption DEF KeysTypeOK
<1>2. ASSUME NEW S \in SUBSET DOMAIN saved, S # {} PROVE First(S) \in S
  <2>1. S \subseteq 0 .. Len(saved) /\ Len(saved) \in Nat
    BY <1>1, MaxSavesAssumption
  <2> QED
    BY <1>2, <2>1, MaxExists DEF First
<1> QED
  BY <1>1, <1>2, MaxSavesAssumption DEF Id, ActiveIds

\* A save appends an active row with the key and changes no other.
LEMMA SaveAppends ==
    ASSUME KeysTypeOK, NEW k \in Key, Save(k)
    PROVE  /\ saved' \in Seq(SavedKey) /\ Len(saved') <= MaxSaves
           /\ DOMAIN saved' = 1 .. Len(saved) + 1
           /\ DOMAIN saved \subseteq DOMAIN saved'
           /\ \A i \in DOMAIN saved : saved'[i] = saved[i]
           /\ saved'[Len(saved) + 1].key = k
           /\ ActiveIds' = ActiveIds \cup {Len(saved) + 1}
<1> DEFINE r == [key |-> k, active |-> TRUE]
<1>1. r \in SavedKey /\ r.key = k /\ r.active
  BY DEF SavedKey
<1>2. saved \in Seq(SavedKey) /\ saved' = Append(saved, r) /\ Len(saved) < MaxSaves
  BY DEF Save, KeysTypeOK
<1> HIDE DEF r
<1>3. /\ saved' \in Seq(SavedKey) /\ Len(saved') = Len(saved) + 1 /\ Len(saved) \in Nat
      /\ DOMAIN saved' = 1 .. Len(saved) + 1 /\ DOMAIN saved = 1 .. Len(saved)
      /\ \A i \in DOMAIN saved : saved'[i] = saved[i]
      /\ saved'[Len(saved) + 1] = r
  BY <1>1, <1>2
<1>4. ActiveIds' = ActiveIds \cup {Len(saved) + 1}
  BY <1>1, <1>3 DEF ActiveIds
<1> QED
  BY <1>1, <1>2, <1>3, <1>4, MaxSavesAssumption

\* The list with a new key is a longer one whose first key is the new one.
LEMMA NewKeyComesFirst ==
    ASSUME KeysTypeOK, NEW k \in Key, Save(k)
    PROVE  /\ ActiveIds' # {}
           /\ Cardinality(ActiveIds') # Cardinality(ActiveIds)
           /\ First(ActiveIds') = Len(saved) + 1
<1> DEFINE n == Len(saved) + 1
           A == ActiveIds \cup {n}
<1>1. Len(saved) \in Nat /\ n \in Nat /\ ActiveIds \subseteq 1 .. Len(saved) /\ ActiveIds' = A
  BY IdsAreBounded, SaveAppends
<1>2. IsFiniteSet(ActiveIds) /\ Cardinality(ActiveIds) \in Nat
  <2>1. IsFiniteSet(1 .. Len(saved)) /\ ActiveIds \in SUBSET (1 .. Len(saved))
    BY <1>1, FS_Interval
  <2>2. IsFiniteSet(ActiveIds)
    BY <2>1, FS_Subset
  <2> QED
    BY <2>2, FS_CardinalityType
<1>3. Cardinality(A) = Cardinality(ActiveIds) + 1
  <2>1. n \notin ActiveIds
    BY <1>1
  <2> QED
    BY <1>2, <2>1, FS_AddElement
<1>4. Max(A) = n
  BY <1>1, MaxOfLarger
<1> QED
  BY <1>1, <1>2, <1>3, <1>4 DEF First

-----------------------------------------------------------------------------
(* The steps *)

\* Nothing changes the rows but a save and a deletion, and what does not
\* change them keeps the list that a request would read.
LEMMA RowsKept == saved' = saved => ActiveIds' = ActiveIds
BY DEF ActiveIds

\* A form that nobody has left alone has nothing to keep.
LEMMA NotKept ==
    ASSUME KeysTypeOK', KnownKeys', KeyRemembered', ~ form'.kept
    PROVE  KeysInv'
BY DEF KeysInv, ChoiceKept

\* What opening the form, or its closing, makes of it.
LEMMA FormOpensKeeps ==
    ASSUME KeysInv, NEW k \in Key, FormOpens(k)
    PROVE  KeysInv'
<1> DEFINE c == Default(New, form.keys)
<1>1. KeysTypeOK /\ KnownKeys /\ AnyKey \in Key
  BY KeyAssumption DEF KeysInv, AnyKey
<1>2. form.keys \subseteq DOMAIN saved /\ DOMAIN saved \subseteq Id
  BY <1>1, IdsAreBounded DEF KnownKeys
<1>3. c = New \/ c \in DOMAIN saved
  <2>1. form.keys # {} => First(form.keys) \in form.keys
    BY <1>1, <1>2, IdsAreBounded
  <2> QED
    BY <1>2, <2>1 DEF Default
<1> HIDE DEF c
<1>4. form' = [Closed EXCEPT !.pc = "edit", !.typed = k, !.keys = form.keys,
                             !.choice = c, !.fetch = "sent"] /\ saved' = saved
  BY DEF FormOpens, c
<1>5. /\ form' \in Form /\ form'.pc = "edit" /\ ~ form'.kept
      /\ form'.keys = form.keys /\ form'.answer = {} /\ form'.choice = c
  BY <1>1, <1>2, <1>3, <1>4 DEF Closed, Form
<1>6. KeysTypeOK' /\ KnownKeys' /\ KeyRemembered'
  BY <1>1, <1>2, <1>3, <1>4, <1>5 DEF KeysTypeOK, KnownKeys, KeyRemembered
<1> QED
  BY <1>5, <1>6, NotKept

\* Others save and delete.
LEMMA OthersKeep ==
    ASSUME KeysInv, \/ \E k \in Key : OtherSaves(k)
                    \/ \E i \in Id : OtherDeletes(i)
    PROVE  KeysInv'
<1>1. KeysTypeOK /\ KnownKeys /\ KeyRemembered
  BY DEF KeysInv
<1>2. form' = [form EXCEPT !.kept = FALSE]
  BY DEF OtherSaves, OtherDeletes
<1>3. form' \in Form /\ ~ form'.kept /\ form'.keys = form.keys /\ form'.answer = form.answer
      /\ form'.choice = form.choice /\ form'.pc = form.pc /\ form'.key = form.key
      /\ form'.meant = form.meant
  BY <1>1, <1>2 DEF KeysTypeOK, Form
<1>4. saved' \in Seq(SavedKey) /\ Len(saved') <= MaxSaves /\ DOMAIN saved \subseteq DOMAIN saved'
  <2>1. CASE \E k \in Key : OtherSaves(k)
    BY <1>1, <2>1, SaveAppends DEF OtherSaves
  <2>2. CASE \E i \in Id : OtherDeletes(i)
    <3>1. PICK i \in Id : OtherDeletes(i)
      BY <2>2
    <3>2. i \in DOMAIN saved /\ saved' = [saved EXCEPT ![i].active = FALSE]
      BY <3>1 DEF OtherDeletes, ActiveIds
    <3>3. saved \in Seq(SavedKey) /\ [saved[i] EXCEPT !.active = FALSE] \in SavedKey
      BY <1>1, <3>2, IdsAreBounded DEF KeysTypeOK, SavedKey
    <3> QED
      BY <1>1, <3>2, <3>3 DEF KeysTypeOK
  <2> QED
    BY <2>1, <2>2
<1>5. KeysTypeOK' /\ KnownKeys' /\ KeyRemembered'
  BY <1>1, <1>3, <1>4 DEF KeysTypeOK, KnownKeys, KeyRemembered
<1> QED
  BY <1>3, <1>5, NotKept
\* Nothing happens to the rows, and the key that is shown remains the one meant.
LEMMA FormKeeps ==
    ASSUME KeysInv, saved' = saved, form' \in Form,
           form'.keys = form.keys, form'.choice = form.choice, form'.typed = form.typed,
           form'.answer \in {form.answer, ActiveIds},
           form'.fetch = "answered" => form'.answer \in OnTheirWay,
           KeyRemembered',
           form'.kept => /\ form.kept /\ form'.meant = form.meant
                         /\ form'.pc # "closed" /\ (form'.pc = "save" => form.pc = "save")
    PROVE  KeysInv'
<1>1. KeysTypeOK /\ KnownKeys /\ ActiveIds' = ActiveIds
  BY RowsKept DEF KeysInv
<1>2. KeysTypeOK'
  BY <1>1 DEF KeysTypeOK
<1>3. KnownKeys'
  BY <1>1, IdsAreBounded DEF KnownKeys
<1>4. OnTheirWay' \subseteq OnTheirWay
  BY <1>1 DEF OnTheirWay
<1>5. ChoiceKept'
  <2> SUFFICES ASSUME form'.kept PROVE ChoiceKept'
    BY DEF ChoiceKept
  <2>1. /\ Shown = form.meant
        /\ form.pc = "save" => \A S \in OnTheirWay : S = form.keys
        /\ form.choice = New => \A S \in OnTheirWay : Harmless(S)
    BY DEF KeysInv, ChoiceKept
  <2>2. Shown' = Shown
    BY DEF Shown
  <2>3. ASSUME NEW S \in OnTheirWay', Harmless(S) PROVE Harmless(S)'
    BY <2>3 DEF Harmless
  <2> QED
    BY <1>4, <2>1, <2>2, <2>3 DEF ChoiceKept
<1> QED
  BY <1>2, <1>3, <1>5 DEF KeysInv

\* The list is asked for and answered, or is not.
LEMMA AsksKeep ==
    ASSUME KeysInv, Focus \/ KeysFail \/ KeysAnswer
    PROVE  KeysInv'
<1>1. KeysTypeOK /\ saved' = saved /\ ActiveIds \subseteq Id /\ form.answer \subseteq Id
  BY IdsAreBounded DEF KeysInv, KeysTypeOK, Form, Focus, KeysFail, KeysAnswer
<1>2. PICK f \in {"none", "sent", "answered"}, S \in {form.answer, ActiveIds} :
        /\ form' = [form EXCEPT !.fetch = f, !.answer = S]
        /\ f = "answered" => S = ActiveIds
  <2>1. CASE Focus
    BY <1>1, <2>1 DEF Focus, KeysTypeOK, Form
  <2>2. CASE KeysFail
    BY <1>1, <2>2 DEF KeysFail, KeysTypeOK, Form
  <2>3. CASE KeysAnswer
    BY <2>3 DEF KeysAnswer
  <2> QED
    BY <2>1, <2>2, <2>3
<1>3. /\ form' \in Form /\ form'.keys = form.keys /\ form'.choice = form.choice
      /\ form'.typed = form.typed /\ form'.answer = S /\ form'.fetch = f
      /\ form'.key = form.key /\ form'.meant = form.meant /\ form'.pc = form.pc
      /\ form'.kept = form.kept
  BY <1>1, <1>2 DEF KeysTypeOK, Form
<1>4. KeyRemembered'
  BY <1>3 DEF KeysInv, KeyRemembered
<1>5. form.kept => form.pc # "closed"
  BY DEF KeysInv, ChoiceKept
<1>6. f = "answered" => S \in OnTheirWay
  BY <1>2 DEF OnTheirWay
<1> QED
  BY <1>1, <1>2, <1>3, <1>4, <1>5, <1>6, FormKeeps

\* The new key is used, or the create ends.
LEMMA EndsKeep ==
    ASSUME KeysInv, NewKeyUsed \/ CreateEnds
    PROVE  KeysInv'
<1>1. KeysTypeOK /\ KnownKeys /\ saved' = saved /\ AnyKey \in Key
  BY KeyAssumption DEF KeysInv, NewKeyUsed, CreateEnds, AnyKey
<1>2. CASE form' = [Closed EXCEPT !.keys = form.keys]
  <2>1. /\ form' \in Form /\ form'.pc = "closed" /\ ~ form'.kept
        /\ form'.keys = form.keys /\ form'.answer = {} /\ form'.choice = New
    BY <1>1, <1>2 DEF Closed, KeysTypeOK, Form, New
  <2>2. KeysTypeOK' /\ KnownKeys' /\ KeyRemembered'
    BY <1>1, <2>1 DEF KeysTypeOK, KnownKeys, KeyRemembered
  <2> QED
    BY <2>1, <2>2, NotKept
<1>3. ASSUME NEW p \in {"edit", "create"}, form.pc # "closed", form' = [form EXCEPT !.pc = p],
             p = "create" => form.key = form.meant
      PROVE  KeysInv'
  <2>1. /\ form' \in Form /\ form'.keys = form.keys /\ form'.choice = form.choice
        /\ form'.typed = form.typed /\ form'.answer = form.answer /\ form'.fetch = form.fetch
        /\ form'.key = form.key /\ form'.meant = form.meant /\ form'.pc = p
        /\ form'.kept = form.kept
    BY <1>1, <1>3 DEF KeysTypeOK, Form
  <2>2. KeyRemembered'
    BY <1>3, <2>1 DEF KeyRemembered
  <2>3. form'.fetch = "answered" => form'.answer \in OnTheirWay
    BY <2>1 DEF OnTheirWay
  <2> QED
    BY <1>1, <2>1, <2>2, <2>3, FormKeeps
<1>4. CASE NewKeyUsed
  <2>1. form.pc = "refresh" /\ form' = [form EXCEPT !.pc = "create", !.key = form.key]
    BY <1>4 DEF NewKeyUsed, SavedKeyOf
  <2>2. form' = [form EXCEPT !.pc = "create"] /\ form.key = form.meant
    BY <1>1, <2>1 DEF KeysInv, KeysTypeOK, Form, KeyRemembered
  <2> QED
    BY <1>3, <2>1, <2>2
<1>5. CASE CreateEnds
  BY <1>2, <1>3, <1>5 DEF CreateEnds
<1> QED
  BY <1>4, <1>5

\* The user chooses, or presses the button.
LEMMA UserKeeps ==
    ASSUME KeysInv, \/ \E k \in Key, c \in {New} \cup Id : Choose(c, k)
                    \/ PressCreate
    PROVE  KeysInv'
<1>1. KeysTypeOK /\ KnownKeys /\ saved' = saved /\ ActiveIds' = ActiveIds
  BY RowsKept DEF KeysInv, Choose, PressCreate
<1>2. DOMAIN saved \subseteq Id /\ \A i \in DOMAIN saved : saved[i] \in SavedKey
  BY <1>1, IdsAreBounded
<1>3. ASSUME NEW k \in Key, NEW c \in {New} \cup Id, Choose(c, k) PROVE KeysInv'
  <2>1. c \in {New} \cup form.keys /\ form.pc # "closed"
        /\ form' = [form EXCEPT !.choice = c, !.typed = IF c = New THEN k ELSE form.typed,
                                !.kept = FALSE]
    BY <1>3 DEF Choose
  <2>2. /\ form' \in Form /\ ~ form'.kept /\ form'.choice = c /\ form'.keys = form.keys
        /\ form'.answer = form.answer /\ form'.pc = form.pc /\ form'.key = form.key
        /\ form'.meant = form.meant
    BY <1>1, <2>1 DEF KeysTypeOK, Form
  <2>3. KeysTypeOK' /\ KnownKeys' /\ KeyRemembered'
    BY <1>1, <2>1, <2>2 DEF KeysInv, KeysTypeOK, KnownKeys, KeyRemembered
  <2> QED
    BY <2>2, <2>3, NotKept
<1>4. ASSUME PressCreate PROVE KeysInv'
  <2> DEFINE p == IF form.choice = New THEN "save" ELSE "create"
             q == form.fetch = "none" /\ form.keys = ActiveIds
  <2>1. Shown \in Key
    BY <1>1, <1>2 DEF Shown, KnownKeys, KeysTypeOK, Form, SavedKey
  <2>2. form' = [form EXCEPT !.pc = p, !.key = Shown, !.meant = Shown, !.kept = q]
    BY <1>4 DEF PressCreate
  <2>3. p \in {"save", "create"} /\ q \in BOOLEAN
    OBVIOUS
  <2>4. /\ form' \in Form /\ form'.keys = form.keys /\ form'.choice = form.choice
        /\ form'.typed = form.typed /\ form'.answer = form.answer /\ form'.fetch = form.fetch
        /\ form'.key = Shown /\ form'.meant = Shown /\ form'.pc = p /\ form'.kept = q
    <3> HIDE DEF p, q
    <3> QED
      BY <1>1, <2>1, <2>2, <2>3 DEF KeysTypeOK, Form
  <2>5. Shown' = Shown
    BY <1>1, <2>4 DEF Shown
  <2>6. q => \A S \in OnTheirWay' : S = form'.keys
    BY <1>1, <2>4 DEF OnTheirWay
  <2>7. ChoiceKept'
    <3> SUFFICES ASSUME form'.kept PROVE ChoiceKept'
      BY DEF ChoiceKept
    <3>1. \A S \in OnTheirWay' : S = form'.keys /\ Harmless(S)'
      BY <2>4, <2>6 DEF Harmless
    <3> QED
      BY <2>4, <2>5, <3>1, <2>3 DEF ChoiceKept
  <2>8. KeysTypeOK' /\ KnownKeys' /\ KeyRemembered'
    BY <1>1, <2>4 DEF KeysTypeOK, KnownKeys, KeyRemembered
  <2> QED
    BY <2>7, <2>8 DEF KeysInv
<1> QED
  BY <1>3, <1>4
\* The answer arrives: the effect chooses the key that was meant, or nothing.
LEMMA ArrivalKeeps ==
    ASSUME KeysInv, KeysArrive
    PROVE  KeysInv'
<1> DEFINE keys == form.answer
           effect == form.pc # "closed" /\ Cardinality(keys) # Cardinality(form.keys)
           c == IF effect THEN Default(form.choice, keys) ELSE form.choice
<1>1. KeysTypeOK /\ KnownKeys /\ saved' = saved /\ ActiveIds' = ActiveIds
      /\ form.fetch = "answered"
  BY RowsKept DEF KeysInv, KeysArrive
<1>2. keys \subseteq DOMAIN saved /\ DOMAIN saved \subseteq Id /\ keys \in OnTheirWay
  BY <1>1, IdsAreBounded DEF KnownKeys, OnTheirWay
<1>3. c = New \/ c \in DOMAIN saved
  <2>1. keys # {} => First(keys) \in keys
    BY <1>1, <1>2, IdsAreBounded
  <2> QED
    BY <1>1, <1>2, <2>1 DEF Default, KnownKeys
<1>4. form' = [form EXCEPT !.keys = keys, !.fetch = "none", !.answer = {}, !.choice = c]
  BY DEF KeysArrive
<1>5. /\ form' \in Form /\ form'.keys = keys /\ form'.answer = {} /\ form'.fetch = "none"
      /\ form'.choice = c /\ form'.typed = form.typed /\ form'.key = form.key
      /\ form'.meant = form.meant /\ form'.pc = form.pc /\ form'.kept = form.kept
  <2> HIDE DEF c, keys
  <2> QED
    BY <1>1, <1>2, <1>3, <1>4 DEF KeysTypeOK, Form
<1>6. KeysTypeOK' /\ KnownKeys' /\ KeyRemembered'
  <2> HIDE DEF c, keys
  <2> QED
    BY <1>1, <1>2, <1>3, <1>5 DEF KeysInv, KeysTypeOK, KnownKeys, KeyRemembered
<1>7. ASSUME form.kept PROVE ChoiceKept'
  <2>1. /\ form.pc # "closed" /\ Shown = form.meant
        /\ form.pc = "save" => \A S \in OnTheirWay : S = form.keys
        /\ form.choice = New => \A S \in OnTheirWay : Harmless(S)
    BY <1>7 DEF KeysInv, ChoiceKept
  <2>2. OnTheirWay' = {ActiveIds} /\ ActiveIds \in OnTheirWay
    BY <1>1, <1>5 DEF OnTheirWay
  <2>3. CASE keys = form.keys
    <3>1. c = form.choice
      BY <2>3
    <3>2. Shown' = Shown
      BY <1>1, <1>5, <3>1 DEF Shown
    <3>3. ASSUME Harmless(ActiveIds) PROVE Harmless(ActiveIds)'
      BY <1>1, <1>5, <2>3, <3>3 DEF Harmless, First
    <3> HIDE DEF keys, c
    <3> QED
      BY <1>1, <1>5, <2>1, <2>2, <2>3, <3>1, <3>2, <3>3 DEF ChoiceKept
  <2>4. CASE keys # form.keys
    <3>1. form.pc # "save"
      BY <1>2, <2>1, <2>4
    <3>2. c \in DOMAIN saved /\ saved[c].key = form.meant
      <4>1. CASE form.choice = New
        <5>1. /\ keys # {} /\ Cardinality(keys) # Cardinality(form.keys)
              /\ saved[First(keys)].key = form.meant
          BY <1>2, <2>1, <2>4, <4>1 DEF Harmless
        <5>2. c = First(keys)
          BY <2>1, <4>1, <5>1 DEF Default
        <5>3. First(keys) \in DOMAIN saved
          BY <1>1, <1>2, <5>1, IdsAreBounded
        <5> QED
          BY <5>1, <5>2, <5>3
      <4>2. CASE form.choice # New
        <5>1. c = form.choice
          BY <4>2 DEF Default
        <5> QED
          BY <1>1, <2>1, <4>2, <5>1 DEF Shown, KnownKeys
      <4> QED
        BY <4>1, <4>2
    <3>3. c # New
      BY <1>1, <3>2, IdsAreBounded DEF New
    <3>4. Shown' = saved[c].key
      BY <1>1, <1>5, <3>3 DEF Shown
    <3> HIDE DEF keys, c
    <3> QED
      BY <1>5, <2>1, <3>1, <3>2, <3>3, <3>4 DEF ChoiceKept
  <2> QED
    BY <2>3, <2>4
<1> QED
  BY <1>5, <1>6, <1>7, NotKept DEF KeysInv

\* The new key is saved, whether its answer arrives or not.
LEMMA SaveKeeps ==
    ASSUME KeysInv, form.pc = "save", Save(form.key), NEW p \in {"edit", "refresh"},
           form' \in Form, form'.keys = form.keys, form'.choice = form.choice,
           form'.typed = form.typed, form'.key = form.key, form'.meant = form.meant,
           form'.kept = form.kept, form'.pc = p,
           form'.answer \in {form.answer, {}},
           form'.fetch = "answered" => form.fetch = "answered" /\ form'.answer = form.answer
    PROVE  KeysInv'
<1> DEFINE n == Len(saved) + 1
<1>1. KeysTypeOK /\ KnownKeys /\ form.key \in Key /\ form.key = form.meant
  BY DEF KeysInv, KeysTypeOK, Form, KeyRemembered
<1>2. /\ saved' \in Seq(SavedKey) /\ Len(saved') <= MaxSaves
      /\ DOMAIN saved \subseteq DOMAIN saved'
      /\ \A i \in DOMAIN saved : saved'[i] = saved[i]
      /\ saved'[n].key = form.meant
      /\ ActiveIds' # {} /\ Cardinality(ActiveIds') # Cardinality(ActiveIds)
      /\ First(ActiveIds') = n
  BY <1>1, SaveAppends, NewKeyComesFirst
<1> HIDE DEF n
<1>3. KeysTypeOK' /\ KnownKeys' /\ KeyRemembered'
  BY <1>1, <1>2 DEF KeysTypeOK, KnownKeys, KeyRemembered
<1>4. ASSUME form.kept PROVE ChoiceKept'
  <2>1. Shown = form.meant /\ \A S \in OnTheirWay : S = form.keys
    BY <1>4 DEF KeysInv, ChoiceKept
  <2>2. Shown' = Shown
    BY <1>1, <1>2 DEF Shown, KnownKeys
  <2>3. Harmless(ActiveIds)'
    BY <1>2, <2>1 DEF Harmless, OnTheirWay, First
  <2>4. form'.fetch = "answered" => form'.answer = form'.keys
    BY <2>1 DEF OnTheirWay
  <2>5. \A S \in OnTheirWay' : Harmless(S)'
    BY <2>3, <2>4 DEF OnTheirWay, Harmless
  <2> QED
    BY <2>1, <2>2, <2>5 DEF ChoiceKept
<1> QED
  BY <1>3, <1>4, NotKept DEF KeysInv

LEMMA SubmissionKeeps ==
    ASSUME KeysInv, NewKeySaved \/ NewKeyFails
    PROVE  KeysInv'
<1>1. KeysTypeOK /\ form.pc = "save" /\ form \in Form
  BY DEF KeysInv, KeysTypeOK, NewKeySaved, NewKeyFails
<1>2. CASE NewKeySaved
  <2>1. /\ form' \in Form /\ form'.keys = form.keys /\ form'.choice = form.choice
        /\ form'.typed = form.typed /\ form'.key = form.key /\ form'.meant = form.meant
        /\ form'.kept = form.kept /\ form'.pc = "refresh" /\ form'.answer = {}
        /\ form'.fetch = "sent"
    BY <1>1, <1>2 DEF NewKeySaved, Form
  <2> QED
    BY <1>1, <1>2, <2>1, SaveKeeps DEF NewKeySaved
<1>3. CASE NewKeyFails
  <2>1. /\ form' \in Form /\ form'.keys = form.keys /\ form'.choice = form.choice
        /\ form'.typed = form.typed /\ form'.key = form.key /\ form'.meant = form.meant
        /\ form'.kept = form.kept /\ form'.pc = "edit" /\ form'.answer = form.answer
        /\ form'.fetch = form.fetch
    BY <1>1, <1>3 DEF NewKeyFails, Form
  <2>2. CASE Save(form.key)
    BY <1>1, <2>1, <2>2, SaveKeeps
  <2>3. CASE UNCHANGED saved
    BY <1>1, <2>1, <2>3, FormKeeps DEF KeyRemembered, OnTheirWay
  <2> QED
    BY <1>3, <2>2, <2>3 DEF NewKeyFails
<1> QED
  BY <1>2, <1>3

-----------------------------------------------------------------------------
LEMMA KeysInvKept == KeysInv /\ (KeysNext \/ UNCHANGED keyVars) => KeysInv'
<1> SUFFICES ASSUME KeysInv, KeysNext \/ UNCHANGED keyVars PROVE KeysInv'
  OBVIOUS
<1>1. CASE KeysNext
  BY <1>1, FormOpensKeeps, OthersKeep, AsksKeep, EndsKeep, UserKeeps, ArrivalKeeps, SubmissionKeeps
  DEF KeysNext, ListRuns, Submission
<1>2. CASE UNCHANGED keyVars
  BY <1>2 DEF keyVars, KeysInv, KeysTypeOK, KnownKeys, KeyRemembered, ChoiceKept, OnTheirWay,
              Harmless, Shown, ActiveIds, First
<1> QED
  BY <1>1, <1>2
==============================================================================
