---------------------------- MODULE CommerceProofs ----------------------------
(***************************************************************************)
(* Theorems about what administrators write (module Administration) and    *)
(* about the accounts of those who sign in through Google and GitHub       *)
(* (module Identities).                                                    *)
(***************************************************************************)
EXTENDS Administration, Identities, FiniteSetTheorems, TLAPS

(***************************************************************************)
(* Plans, promotions and the ledger.                                       *)
(*                                                                         *)
(* The entries that refer to a row say what the transactions that have     *)
(* ended left of it.  While a transaction holds the row, that is the state *)
(* it would be rolled back to, and what the transaction has written so far *)
(* is known from the statement it has reached.  Entries that tell of a     *)
(* deletion of a row that is there are those of deletions under way: each  *)
(* can be told by the number of its edit, which nobody else has.           *)
(***************************************************************************)

EditSteps  == {"write", "delete"} \cup Locking \cup Deleting
EntrySteps == {"append", "insert", "ok", "conflict", "error"}

Edit  == [pc : EditSteps, row : PricedRows, edit : Nat \ {0}, was : Nat, had : Nat]
Entry == [pc : EntrySteps, id : EntryIds, amount : Amounts]

AdminTypes ==
  /\ priced \in [PricedRows -> Nat] /\ parts \in [PricedRows -> Nat]
  /\ bought \subseteq Plans
  /\ history \in Seq(History)
  /\ ledger \in [EntryIds -> Amounts \cup {Nothing}]
  /\ admin \in [Admins -> {Free} \cup Edit \cup Entry]
  /\ writes \in Nat

Locks(a, r)   == admin[a].pc \in Locking /\ admin[a].row = r
Deletes(a, r) == admin[a].pc \in Deleting /\ admin[a].row = r

\* The deletions of row r under way.
Deletions(r) == {admin[a].edit : a \in {b \in Admins : Deletes(b, r)}}

\* In history h, entry j tells of row r as it was written, or of its end.
Linked(h, r, j) == h[j].row = r /\ h[j].linked
Writes(h, r, j) == Linked(h, r, j) /\ h[j].kind # "DELETED"
Drops(h, r, j)  == h[j].row = r /\ h[j].kind = "DELETED"
LastIn(h, r, j) == Writes(h, r, j) /\ \A k \in DOMAIN h : k > j => ~Writes(h, r, k)

\* Row r was last written by edit p and its parts by edit q; D are deletions
\* under way.
ThereIn(h, D, r, p, q) ==
  /\ \E j \in DOMAIN h : Writes(h, r, j)
  /\ \A j \in DOMAIN h : LastIn(h, r, j) => h[j].edit = p /\ h[j].edit = q
  /\ \A j \in DOMAIN h : Drops(h, r, j) => h[j].edit \in D

\* Row r is gone or has never been; the plans in B are bought.
GoneIn(h, B, D, r) ==
  /\ r \notin B /\ D = {}
  /\ \A j \in DOMAIN h : ~Linked(h, r, j)
  /\ \A j \in DOMAIN h : h[j].row = r =>
       \E i \in DOMAIN h : \A k \in DOMAIN h : Drops(h, r, k) <=> k = i

TellsIn(h, B, D, r, p, q) ==
  IF p # Absent THEN ThereIn(h, D, r, p, q) ELSE GoneIn(h, B, D, r)

\* What the transactions that have ended left of row r and its parts.
Committed(r, p, q) ==
  \/ (\A a \in Admins : ~Locks(a, r)) /\ p = priced[r] /\ q = parts[r]
  \/ \E a \in Admins : Locks(a, r) /\ p = admin[a].was /\ q = admin[a].had

\* What the transaction x has written.
Wrote(x) ==
  /\ x.was # Absent
  /\ x.pc = "written"  => priced[x.row] = x.edit
  /\ x.pc = "replaced" => priced[x.row] = x.edit /\ parts[x.row] = x.edit
  /\ x.pc = "dropped"  => priced[x.row] = Absent /\ x.row \notin bought

RowTells(r) ==
  /\ \A p, q : Committed(r, p, q) => TellsIn(history, bought, Deletions(r), r, p, q)
  /\ \A a \in Admins : Locks(a, r) =>
       /\ Wrote(admin[a])
       /\ \A b \in Admins : Locks(b, r) => b = a
       /\ admin[a].pc = "dropped" => \A b \in Admins : Deletes(b, r) => b = a

\* The entry of a transaction that has inserted one: that of a deletion.
Numbered(a) ==
  /\ admin[a].edit <= writes
  /\ admin[a].pc \in Deleting => \E j \in DOMAIN history : history[j].edit = admin[a].edit
  /\ \A j \in DOMAIN history : history[j].edit = admin[a].edit =>
       admin[a].pc \in Deleting /\ Drops(history, admin[a].row, j)

Edits ==
  /\ \A j \in DOMAIN history : history[j].edit <= writes
  /\ \A i, j \in DOMAIN history : history[i].edit = history[j].edit => i = j
  /\ \A a \in Admins : admin[a].pc \in EditSteps => Numbered(a)
  /\ \A a, b \in Admins :
       /\ admin[a].pc \in EditSteps /\ admin[b].pc \in EditSteps
       /\ admin[a].edit = admin[b].edit
       => a = b

\* What a request to append() knows of the ledger.
Knows(x) ==
  /\ x.pc # "error"
  /\ x.pc = "insert"   => ledger[x.id] = Nothing
  /\ x.pc = "ok"       => ledger[x.id] = x.amount
  /\ x.pc = "conflict" => ledger[x.id] \notin {x.amount, Nothing}

OneInserts ==
  \A a, b \in Admins :
    /\ admin[a].pc = "insert" /\ admin[b].pc = "insert" /\ admin[a].id = admin[b].id
    => a = b

AdminInv ==
  /\ AdminTypes
  /\ Edits
  /\ \A r \in PricedRows : RowTells(r)
  /\ \A a \in Admins : Knows(admin[a])
  /\ OneInserts

----------------------------------------------------------------------------
(* Types. *)

LEMMA KindOfRequest ==
  ASSUME AdminTypes, NEW a \in Admins
  PROVE  /\ admin[a].pc \in EditSteps => admin[a] \in Edit
         /\ admin[a].pc \in EntrySteps => admin[a] \in Entry
         /\ Locking \subseteq EditSteps /\ Deleting \subseteq EditSteps
<1>1. admin[a] \in {Free} \cup Edit \cup Entry
  BY DEF AdminTypes
<1>2. admin[a] \in Edit => admin[a].pc \in EditSteps
  BY DEF Edit
<1>3. admin[a] \in Entry => admin[a].pc \in EntrySteps
  BY DEF Entry
<1>4. admin[a] = Free => admin[a].pc = "free"
  BY DEF Free
<1>5. "free" \notin EditSteps \cup EntrySteps /\ EditSteps \cap EntrySteps = {}
  BY DEF EditSteps, EntrySteps, Locking, Deleting
<1> HIDE DEF Edit, Entry, Free
<1> QED
  BY <1>1, <1>2, <1>3, <1>4, <1>5 DEF EditSteps

LEMMA EditType ==
  ASSUME AdminTypes, NEW r \in PricedRows, NEW n \in Nat \ {0}, NEW pc \in EditSteps
  PROVE  /\ Editing(pc, r, n) \in Edit
         /\ Editing(pc, r, n).pc = pc /\ Editing(pc, r, n).row = r
         /\ Editing(pc, r, n).edit = n /\ Editing(pc, r, n).was = priced[r]
         /\ Editing(pc, r, n).had = parts[r]
  BY DEF AdminTypes, Editing, Edit

\* The row, the number of the edit and the statement of a transaction.
LEMMA EditFields ==
  ASSUME NEW x \in Edit
  PROVE  /\ x.row \in PricedRows /\ x.edit \in Nat \ {0} /\ x.was \in Nat /\ x.had \in Nat
         /\ \A pc \in EditSteps : LET y == [x EXCEPT !.pc = pc]
                                  IN  /\ y \in Edit /\ y.pc = pc /\ y.row = x.row
                                      /\ y.edit = x.edit /\ y.was = x.was
                                      /\ y.had = x.had
  BY DEF Edit

LEMMA EntryFields ==
  ASSUME NEW x \in Entry
  PROVE  /\ x.id \in EntryIds /\ x.amount \in Amounts
         /\ \A pc \in EntrySteps : LET y == [x EXCEPT !.pc = pc]
                                   IN  /\ y \in Entry /\ y.pc = pc /\ y.id = x.id
                                       /\ y.amount = x.amount
  BY DEF Entry

\* The steps of requests that do not edit.
LEMMA StepsApart ==
  /\ Free.pc = "free" /\ "free" \notin EditSteps /\ "free" \notin EntrySteps
  /\ \A pc \in EntrySteps : pc \notin EditSteps
  /\ Locking \subseteq EditSteps /\ Deleting \subseteq EditSteps
  BY DEF Free, EditSteps, EntrySteps, Locking, Deleting

LEMMA OthersWait ==
  ASSUME AdminTypes, NEW a \in Admins, NEW y, Proceeds(a, y)
  PROVE  \A b \in Admins : admin'[b] = IF b = a THEN y ELSE admin[b]
  BY DEF AdminTypes, Proceeds

----------------------------------------------------------------------------
(* The history with one more entry, or with entries revised. *)

LEMMA EntryAppended ==
  ASSUME history \in Seq(History), NEW e \in History, history' = Append(history, e)
  PROVE  \E n \in Nat :
           /\ DOMAIN history = 1..n /\ DOMAIN history' = 1..(n + 1)
           /\ history'[n + 1] = e /\ \A j \in 1..n : history'[j] = history[j]
           /\ history' \in Seq(History)
<1> HIDE DEF History
<1> QED
  OBVIOUS

LEMMA EntriesRevised ==
  ASSUME history \in Seq(History), DOMAIN history' = DOMAIN history,
         history' = [j \in DOMAIN history |-> history'[j]],
         \A j \in DOMAIN history : history'[j] \in History
  PROVE  history' \in Seq(History)
<1> HIDE DEF History
<1>1. PICK n \in Nat : DOMAIN history = 1..n
  OBVIOUS
<1>2. history' \in [1..n -> History]
  BY <1>1
<1> QED
  BY <1>2

LEMMA EditNumbers ==
  ASSUME AdminTypes
  PROVE  \A j \in DOMAIN history : history[j] \in History /\ history[j].edit \in Nat
<1>1. \A e \in History : e.edit \in Nat
  BY DEF History
<1>2. history \in Seq(History)
  BY DEF AdminTypes
<1> HIDE DEF History
<1>3. \A j \in DOMAIN history : history[j] \in History
  BY <1>2
<1> QED
  BY <1>1, <1>3

LEMMA EntryFacts ==
  ASSUME NEW r \in PricedRows, NEW n \in Nat, NEW kind \in {"CREATED", "UPDATED", "DELETED"}
  PROVE  LET e == EntryOf(r, kind, n)
         IN  e \in History /\ e.row = r /\ e.kind = kind /\ e.edit = n /\ e.linked
  BY DEF EntryOf, History

LEMMA RevisedFacts ==
  ASSUME NEW e \in History
  PROVE  /\ Undone(e) \in History /\ Undone(e).row = e.row /\ Undone(e).edit = e.edit
         /\ Undone(e).kind # "DELETED" /\ ~Undone(e).linked
         /\ Unlinked(e) \in History /\ Unlinked(e).row = e.row
         /\ Unlinked(e).edit = e.edit /\ Unlinked(e).kind = e.kind /\ ~Unlinked(e).linked
  BY DEF Undone, Unlinked, History

\* The entries about row r are the same.
SameOf(r) ==
  /\ \A j \in DOMAIN history : history[j].row = r =>
       j \in DOMAIN history' /\ history'[j] = history[j]
  /\ \A j \in DOMAIN history' : history'[j].row = r =>
       j \in DOMAIN history /\ history'[j] = history[j]

LEMMA SameTells ==
  ASSUME NEW r, SameOf(r), r \in bought' => r \in bought, NEW D
  PROVE  \A p, q : TellsIn(history, bought, D, r, p, q) => TellsIn(history', bought', D, r, p, q)
<1>1. \A j : j \in DOMAIN history /\ Writes(history, r, j)
             <=> j \in DOMAIN history' /\ Writes(history', r, j)
  BY DEF SameOf, Writes, Linked
<1>2. \A j : j \in DOMAIN history /\ Drops(history, r, j)
             <=> j \in DOMAIN history' /\ Drops(history', r, j)
  BY DEF SameOf, Drops
<1>3. \A j : j \in DOMAIN history /\ Linked(history, r, j)
             <=> j \in DOMAIN history' /\ Linked(history', r, j)
  BY DEF SameOf, Linked
<1>4. \A j \in DOMAIN history' : Writes(history', r, j) \/ Drops(history', r, j)
                                 => history'[j].edit = history[j].edit
  BY DEF SameOf, Writes, Drops, Linked
<1>5. ASSUME NEW p, NEW q, ThereIn(history, D, r, p, q)
      PROVE  ThereIn(history', D, r, p, q)
  <2>1. \E j \in DOMAIN history' : Writes(history', r, j)
    BY <1>1, <1>5 DEF ThereIn
  <2>2. ASSUME NEW j \in DOMAIN history', LastIn(history', r, j)
        PROVE  history'[j].edit = p /\ history'[j].edit = q
    <3>1. j \in DOMAIN history /\ LastIn(history, r, j)
      BY <1>1, <2>2 DEF LastIn
    <3> QED
      BY <1>4, <1>5, <2>2, <3>1 DEF ThereIn, LastIn
  <2>3. ASSUME NEW j \in DOMAIN history', Drops(history', r, j)
        PROVE  history'[j].edit \in D
    BY <1>2, <1>4, <1>5, <2>3 DEF ThereIn
  <2> QED
    BY <2>1, <2>2, <2>3 DEF ThereIn
<1>6. ASSUME GoneIn(history, bought, D, r)
      PROVE  GoneIn(history', bought', D, r)
  <2>1. r \notin bought' /\ D = {} /\ \A j \in DOMAIN history' : ~Linked(history', r, j)
    BY <1>3, <1>6 DEF GoneIn
  <2>2. ASSUME NEW j \in DOMAIN history', history'[j].row = r
        PROVE  \E i \in DOMAIN history' : \A k \in DOMAIN history' :
                 Drops(history', r, k) <=> k = i
    <3>1. j \in DOMAIN history /\ history[j].row = r
      BY <2>2 DEF SameOf
    <3>2. PICK i \in DOMAIN history : \A k \in DOMAIN history : Drops(history, r, k) <=> k = i
      BY <1>6, <3>1 DEF GoneIn
    <3>3. i \in DOMAIN history' /\ Drops(history', r, i)
      BY <1>2, <3>2
    <3> QED
      BY <1>2, <3>2, <3>3
  <2> QED
    BY <2>1, <2>2 DEF GoneIn
<1> QED
  BY <1>5, <1>6 DEF TellsIn

\* An entry that tells of what was written of a row.
LEMMA WriteTold ==
  ASSUME history \in Seq(History), NEW e \in History, history' = Append(history, e),
         e.linked, e.kind # "DELETED", NEW D,
         \A j \in DOMAIN history : Drops(history, e.row, j) => history[j].edit \in D
  PROVE  ThereIn(history', D, e.row, e.edit, e.edit)
<1>1. PICK n \in Nat :
        /\ DOMAIN history = 1..n /\ DOMAIN history' = 1..(n + 1)
        /\ history'[n + 1] = e /\ \A j \in 1..n : history'[j] = history[j]
  BY EntryAppended
<1> HIDE DEF History
<1>2. n + 1 \in DOMAIN history' /\ Writes(history', e.row, n + 1)
  BY <1>1 DEF Writes, Linked
<1>3. ASSUME NEW j \in DOMAIN history', LastIn(history', e.row, j)
      PROVE  history'[j].edit = e.edit
  <2>1. j = n + 1 \/ n + 1 > j
    BY <1>1
  <2> QED
    BY <1>1, <1>2, <1>3, <2>1 DEF LastIn
<1>4. ASSUME NEW j \in DOMAIN history', Drops(history', e.row, j)
      PROVE  history'[j].edit \in D
  <2>1. j # n + 1
    BY <1>1, <1>4 DEF Drops
  <2>2. j \in 1..n
    BY <1>1, <2>1
  <2> QED
    BY <1>1, <1>4, <2>2 DEF Drops
<1> QED
  BY <1>2, <1>3, <1>4 DEF ThereIn

\* The entry of a deletion that begins.
LEMMA DeletionTold ==
  ASSUME history \in Seq(History), NEW e \in History, history' = Append(history, e),
         e.kind = "DELETED", NEW D, NEW E, D \subseteq E, e.edit \in E
  PROVE  \A p, q : ThereIn(history, D, e.row, p, q) => ThereIn(history', E, e.row, p, q)
<1>1. PICK n \in Nat :
        /\ DOMAIN history = 1..n /\ DOMAIN history' = 1..(n + 1)
        /\ history'[n + 1] = e /\ \A j \in 1..n : history'[j] = history[j]
  BY EntryAppended
<1> HIDE DEF History
<1>2. \A j \in DOMAIN history' : j \in DOMAIN history \/ j = n + 1
  BY <1>1
<1>3. \A j \in DOMAIN history : j \in DOMAIN history' /\ history'[j] = history[j]
  BY <1>1
<1>4. ~Writes(history', e.row, n + 1)
  BY <1>1 DEF Writes
<1>5. \A j : j \in DOMAIN history /\ Writes(history, e.row, j)
             <=> j \in DOMAIN history' /\ Writes(history', e.row, j)
  BY <1>2, <1>3, <1>4 DEF Writes, Linked
<1>6. ASSUME NEW p, NEW q, ThereIn(history, D, e.row, p, q)
      PROVE  ThereIn(history', E, e.row, p, q)
  <2>1. \E j \in DOMAIN history' : Writes(history', e.row, j)
    BY <1>5, <1>6 DEF ThereIn
  <2>2. ASSUME NEW j \in DOMAIN history', LastIn(history', e.row, j)
        PROVE  history'[j].edit = p /\ history'[j].edit = q
    <3>1. j \in DOMAIN history /\ LastIn(history, e.row, j)
      BY <1>5, <2>2 DEF LastIn
    <3> QED
      BY <1>3, <1>6, <3>1 DEF ThereIn
  <2>3. ASSUME NEW j \in DOMAIN history', Drops(history', e.row, j)
        PROVE  history'[j].edit \in E
    BY <1>1, <1>2, <1>3, <1>6, <2>3 DEF ThereIn, Drops
  <2> QED
    BY <2>1, <2>2, <2>3 DEF ThereIn
<1> QED
  BY <1>6

\* A transaction takes its entry back; entries of its number tell of a deletion.
Undo(n) ==
  history' = [j \in DOMAIN history |->
               IF history[j].edit = n THEN Undone(history[j]) ELSE history[j]]

LEMMA DeletionUndone ==
  ASSUME history \in Seq(History), NEW n, Undo(n), NEW r,
         \A j \in DOMAIN history : history[j].edit = n => history[j].kind = "DELETED",
         NEW D, NEW E, D \ {n} \subseteq E
  PROVE  \A p, q : ThereIn(history, D, r, p, q) => ThereIn(history', E, r, p, q)
<1> DEFINE h == history'
<1>1. DOMAIN h = DOMAIN history /\ \A j \in DOMAIN history : history[j] \in History
  BY DEF Undo
<1>2. \A j \in DOMAIN history :
        h[j] = IF history[j].edit = n THEN Undone(history[j]) ELSE history[j]
  BY DEF Undo
<1>3. \A j \in DOMAIN history : history[j].edit = n => h[j].kind # "DELETED" /\ ~h[j].linked
  BY <1>1, <1>2, RevisedFacts
<1> HIDE DEF History, h
<1>4. \A j \in DOMAIN history : Writes(h, r, j) <=> Writes(history, r, j)
  BY <1>1, <1>2, <1>3 DEF Writes, Linked
<1>5. \A j \in DOMAIN history : Drops(h, r, j) =>
        Drops(history, r, j) /\ h[j].edit = history[j].edit /\ h[j].edit # n
  BY <1>1, <1>2, <1>3 DEF Drops
<1>6. \A j \in DOMAIN history : Writes(h, r, j) => h[j].edit = history[j].edit
  BY <1>1, <1>2, <1>3 DEF Writes, Linked
<1>7. ASSUME NEW p, NEW q, ThereIn(history, D, r, p, q)
      PROVE  ThereIn(h, E, r, p, q)
  <2>1. \E j \in DOMAIN h : Writes(h, r, j)
    BY <1>1, <1>4, <1>7 DEF ThereIn
  <2>2. ASSUME NEW j \in DOMAIN h, LastIn(h, r, j)
        PROVE  h[j].edit = p /\ h[j].edit = q
    <3>1. j \in DOMAIN history /\ LastIn(history, r, j) /\ Writes(h, r, j)
      BY <1>1, <1>4, <2>2 DEF LastIn
    <3> QED
      BY <1>6, <1>7, <3>1 DEF ThereIn
  <2>3. ASSUME NEW j \in DOMAIN h, Drops(h, r, j)
        PROVE  h[j].edit \in E
    BY <1>1, <1>5, <1>7, <2>3 DEF ThereIn
  <2> QED
    BY <2>1, <2>2, <2>3 DEF ThereIn
<1> QED
  BY <1>7 DEF h

----------------------------------------------------------------------------
(* The numbers of the edits. *)

\* The request of a goes on with the edit it has or takes a new one.
SameEdit(a, y) == y.edit = admin[a].edit /\ admin[a].pc \in EditSteps

LEMMA EditsStay ==
  ASSUME AdminInv, NEW a \in Admins, NEW y \in {Free} \cup Edit \cup Entry,
         Proceeds(a, y), UNCHANGED history,
         writes' \in Nat, writes <= writes',
         y.pc \in EditSteps => (SameEdit(a, y) \/ y.edit = writes + 1) /\ Numbered(a)'
  PROVE  Edits'
<1>1. AdminTypes /\ Edits
  BY DEF AdminInv
<1>2. \A b \in Admins : admin'[b] = IF b = a THEN y ELSE admin[b]
  BY <1>1, OthersWait
<1>3. \A b \in Admins : admin[b].pc \in EditSteps => admin[b].edit \in Nat /\ Numbered(b)
  BY <1>1, KindOfRequest, EditFields DEF Edits
<1>4. \A j \in DOMAIN history : history[j].edit \in Nat
  BY <1>1, EditNumbers
<1> HIDE DEF History, Free, Edit, Entry, EditSteps
<1>5. ASSUME NEW b \in Admins, admin'[b].pc \in EditSteps
      PROVE  Numbered(b)'
  <2>1. CASE b = a
    BY <1>2, <1>5, <2>1
  <2>2. CASE b # a
    <3>1. admin'[b] = admin[b] /\ Numbered(b) /\ admin[b].edit \in Nat
      BY <1>2, <1>3, <1>5, <2>2
    <3>2. admin[b].edit <= writes'
      BY <1>1, <3>1 DEF Numbered, AdminTypes
    <3> QED
      BY <3>1, <3>2 DEF Numbered, Drops
  <2> QED
    BY <2>1, <2>2
<1>6. ASSUME NEW b \in Admins \ {a}, admin[b].pc \in EditSteps, y.pc \in EditSteps
      PROVE  admin[b].edit # y.edit
  BY <1>1, <1>3, <1>6 DEF Edits, Numbered, SameEdit, AdminTypes
<1>7. \A b, c \in Admins :
        /\ admin'[b].pc \in EditSteps /\ admin'[c].pc \in EditSteps
        /\ admin'[b].edit = admin'[c].edit
        => b = c
  BY <1>1, <1>2, <1>6 DEF Edits
<1>8. \A j \in DOMAIN history' : history'[j].edit <= writes'
  BY <1>1, <1>4 DEF Edits, AdminTypes
<1>9. \A i, j \in DOMAIN history' : history'[i].edit = history'[j].edit => i = j
  BY <1>1 DEF Edits
<1> QED
  BY <1>5, <1>7, <1>8, <1>9 DEF Edits

LEMMA EditsTold ==
  ASSUME AdminInv, NEW a \in Admins, NEW y \in {Free} \cup Edit, Proceeds(a, y),
         NEW e \in History, history' = Append(history, e),
         writes' \in Nat, writes <= writes',
         \/ e.edit = writes + 1 /\ e.edit <= writes'
         \/ /\ e.edit = admin[a].edit /\ admin[a].pc \in EditSteps
            /\ admin[a].pc \notin Deleting,
         y.pc \in EditSteps => SameEdit(a, y) /\ e.edit = y.edit /\ y.pc \in Deleting
                               /\ e.kind = "DELETED" /\ e.row = y.row
  PROVE  Edits'
<1>1. AdminTypes /\ Edits
  BY DEF AdminInv
<1>2. \A b \in Admins : admin'[b] = IF b = a THEN y ELSE admin[b]
  BY <1>1, OthersWait
<1>3. \A b \in Admins : admin[b].pc \in EditSteps => admin[b].edit \in Nat /\ Numbered(b)
  BY <1>1, KindOfRequest, EditFields DEF Edits
<1>4. PICK n \in Nat :
        /\ DOMAIN history = 1..n /\ DOMAIN history' = 1..(n + 1)
        /\ history'[n + 1] = e /\ \A j \in 1..n : history'[j] = history[j]
  BY <1>1, EntryAppended DEF AdminTypes
<1>5. (\A j \in DOMAIN history : history[j].edit \in Nat) /\ e.edit \in Nat
  BY <1>1, EditNumbers DEF History
<1> HIDE DEF History, Free, Edit, Entry, EditSteps
<1>6. \A j \in 1..n : history[j].edit # e.edit
  BY <1>1, <1>3, <1>4, <1>5 DEF Edits, Numbered, AdminTypes
<1>7. \A b \in Admins \ {a} : admin[b].pc \in EditSteps => admin[b].edit # e.edit
  BY <1>1, <1>3, <1>5 DEF Edits, Numbered, AdminTypes
<1>8. n + 1 \in DOMAIN history' /\ \A j \in DOMAIN history' : j \in 1..n \/ j = n + 1
  BY <1>4
<1>9. \A j \in 1..n : j \in DOMAIN history' /\ j \in DOMAIN history
  BY <1>4
<1>10. ASSUME NEW b \in Admins, admin'[b].pc \in EditSteps
       PROVE  Numbered(b)'
  <2>1. CASE b = a
    <3>1. /\ admin'[b] = y /\ y.edit = e.edit /\ y.edit = admin[a].edit
          /\ admin[a].pc \in EditSteps /\ y.pc \in Deleting
      BY <1>2, <1>10, <2>1 DEF SameEdit
    <3>2. admin[a].edit <= writes'
      BY <1>1, <1>3, <3>1 DEF Numbered, AdminTypes
    <3>3. \E j \in DOMAIN history' : history'[j].edit = y.edit
      BY <1>4, <1>8, <3>1
    <3>4. \A j \in DOMAIN history' : history'[j].edit = y.edit => history'[j] = e
      BY <1>4, <1>6, <1>8, <3>1
    <3>5. e.row = y.row /\ e.kind = "DELETED"
      BY <1>2, <1>10, <2>1
    <3> QED
      BY <3>1, <3>2, <3>3, <3>4, <3>5 DEF Numbered, Drops
  <2>2. CASE b # a
    <3>1. admin'[b] = admin[b] /\ Numbered(b) /\ admin[b].edit \in Nat /\ admin[b].edit # e.edit
      BY <1>2, <1>3, <1>7, <1>10, <2>2
    <3>2. admin[b].edit <= writes'
      BY <1>1, <3>1 DEF Numbered, AdminTypes
    <3>3. admin[b].pc \in Deleting => \E j \in DOMAIN history' : history'[j].edit = admin[b].edit
      BY <1>4, <1>9, <3>1 DEF Numbered
    <3>4. ASSUME NEW j \in DOMAIN history', history'[j].edit = admin[b].edit
          PROVE  j \in DOMAIN history /\ history'[j] = history[j]
      BY <1>4, <1>8, <1>9, <3>1, <3>4
    <3> QED
      BY <3>1, <3>2, <3>3, <3>4 DEF Numbered, Drops
  <2> QED
    BY <2>1, <2>2
<1>11. \A b, c \in Admins :
        /\ admin'[b].pc \in EditSteps /\ admin'[c].pc \in EditSteps
        /\ admin'[b].edit = admin'[c].edit
        => b = c
  BY <1>1, <1>2, <1>7 DEF Edits
<1>12. \A j \in DOMAIN history' : history'[j].edit <= writes'
  <2>1. e.edit <= writes'
    BY <1>1, <1>3 DEF Numbered, AdminTypes
  <2>2. ASSUME NEW j \in 1..n PROVE history[j].edit <= writes'
    <3>1. history[j].edit <= writes /\ history[j].edit \in Nat
      BY <1>1, <1>4, <1>5 DEF Edits
    <3> QED
      BY <1>1, <3>1 DEF AdminTypes
  <2> QED
    BY <1>4, <1>8, <2>1, <2>2
<1>13. \A i, j \in DOMAIN history' : history'[i].edit = history'[j].edit => i = j
  BY <1>1, <1>4, <1>6, <1>8 DEF Edits
<1> QED
  BY <1>10, <1>11, <1>12, <1>13 DEF Edits

\* A transaction ends and revises entries; the kind only of its own.
LEMMA EditsRevised ==
  ASSUME AdminInv, NEW a \in Admins, Proceeds(a, Free), admin[a].pc \in EditSteps,
         DOMAIN history' = DOMAIN history, writes' = writes,
         \A j \in DOMAIN history :
           /\ history'[j].row = history[j].row /\ history'[j].edit = history[j].edit
           /\ history[j].edit # admin[a].edit => history'[j].kind = history[j].kind
  PROVE  Edits'
<1>1. AdminTypes /\ Edits
  BY DEF AdminInv
<1>2. /\ \A b \in Admins \ {a} : admin'[b] = admin[b]
      /\ admin'[a].pc \notin EditSteps
  BY <1>1, OthersWait, StepsApart
<1> HIDE DEF Free, EditSteps
<1>3. ASSUME NEW b \in Admins, admin'[b].pc \in EditSteps
      PROVE  Numbered(b)'
  <2>1. b # a /\ admin'[b] = admin[b] /\ Numbered(b) /\ admin[b].edit # admin[a].edit
    BY <1>1, <1>2, <1>3 DEF Edits
  <2> QED
    BY <2>1 DEF Numbered, Drops
<1>4. \A b, c \in Admins :
        /\ admin'[b].pc \in EditSteps /\ admin'[c].pc \in EditSteps
        /\ admin'[b].edit = admin'[c].edit
        => b = c
  BY <1>1, <1>2 DEF Edits
<1> QED
  BY <1>1, <1>3, <1>4 DEF Edits

----------------------------------------------------------------------------
(* Rows that a step leaves alone. *)

LEMMA RowKept ==
  ASSUME NEW r \in PricedRows, RowTells(r),
         priced'[r] = priced[r], parts'[r] = parts[r],
         \A p, q : /\ Committed(r, p, q)
                   /\ TellsIn(history, bought, Deletions(r), r, p, q)
                   => TellsIn(history', bought', Deletions(r)', r, p, q),
         \A b \in Admins : Locks(b, r) \/ Locks(b, r)' => admin'[b] = admin[b],
         \A b \in Admins : Locks(b, r) /\ admin[b].pc = "dropped" =>
           (r \in bought' => r \in bought) /\ \A c \in Admins : Deletes(c, r)' => Deletes(c, r)
  PROVE  RowTells(r)'
<1>1. \A b \in Admins : Locks(b, r)' <=> Locks(b, r)
  BY DEF Locks
<1>2. ASSUME NEW p, NEW q, Committed(r, p, q)'
      PROVE  Committed(r, p, q)
  BY <1>1, <1>2 DEF Committed
<1>3. ASSUME NEW p, NEW q, Committed(r, p, q)'
      PROVE  TellsIn(history', bought', Deletions(r)', r, p, q)
  <2>1. Committed(r, p, q) /\ TellsIn(history, bought, Deletions(r), r, p, q)
    BY <1>2, <1>3 DEF RowTells
  <2> QED
    BY <2>1
<1>4. ASSUME NEW a \in Admins, Locks(a, r)'
      PROVE  /\ Wrote(admin[a])'
             /\ \A b \in Admins : Locks(b, r)' => b = a
             /\ admin'[a].pc = "dropped" => \A b \in Admins : Deletes(b, r)' => b = a
  <2>1. Locks(a, r) /\ admin'[a] = admin[a] /\ admin[a].row = r
    BY <1>1, <1>4 DEF Locks
  <2>2. /\ Wrote(admin[a]) /\ \A b \in Admins : Locks(b, r) => b = a
        /\ admin[a].pc = "dropped" => \A b \in Admins : Deletes(b, r) => b = a
    BY <2>1 DEF RowTells
  <2>3. Wrote(admin[a])'
    BY <2>1, <2>2 DEF Wrote
  <2> QED
    BY <1>1, <2>1, <2>2, <2>3
<1> QED
  BY <1>3, <1>4 DEF RowTells

Busy(b, r) == Locks(b, r) \/ Deletes(b, r)

LEMMA RowLeftAlone ==
  ASSUME NEW r \in PricedRows, RowTells(r),
         priced'[r] = priced[r], parts'[r] = parts[r], r \in bought' => r \in bought,
         SameOf(r),
         \A b \in Admins : \/ admin'[b] = admin[b]
                           \/ ~Busy(b, r) /\ ~Busy(b, r)'
  PROVE  RowTells(r)'
<1>1. \A b \in Admins : Deletes(b, r)' <=> Deletes(b, r)
  BY DEF Busy, Deletes
<1>2. \A b \in Admins : Deletes(b, r) => admin'[b].edit = admin[b].edit
  BY DEF Busy
<1>3. Deletions(r)' = Deletions(r)
  BY <1>1, <1>2 DEF Deletions
<1>4. \A b \in Admins : Locks(b, r) \/ Locks(b, r)' => admin'[b] = admin[b]
  BY DEF Busy
<1>5. \A p, q : TellsIn(history, bought, Deletions(r), r, p, q)
                => TellsIn(history', bought', Deletions(r)', r, p, q)
  BY <1>3, SameTells
<1> QED
  BY <1>1, <1>4, <1>5, RowKept

\* The row is there for the transactions that have ended.
LEMMA RowThere ==
  ASSUME NEW r \in PricedRows, RowTells(r), Exists(r)
  PROVE  \A p, q : Committed(r, p, q) => p # Absent
  BY DEF RowTells, Committed, Wrote, Exists

LEMMA SameHistory ==
  ASSUME history' = history
  PROVE  \A r : SameOf(r)
  BY DEF SameOf

LEMMA OtherEntry ==
  ASSUME AdminTypes, NEW e \in History, history' = Append(history, e)
  PROVE  \A r : r # e.row => SameOf(r)
<1>1. PICK n \in Nat :
        /\ DOMAIN history = 1..n /\ DOMAIN history' = 1..(n + 1)
        /\ history'[n + 1] = e /\ \A j \in 1..n : history'[j] = history[j]
  BY EntryAppended DEF AdminTypes
<1>2. \A j \in DOMAIN history' : j \in DOMAIN history \/ j = n + 1
  BY <1>1
<1>3. \A j \in DOMAIN history : j \in DOMAIN history'
  BY <1>1
<1> HIDE DEF History
<1> QED
  BY <1>1, <1>2, <1>3 DEF SameOf

----------------------------------------------------------------------------
(* Steps of an administrator who edits row r. *)

LEMMA RowHeld ==
  ASSUME NEW a \in Admins, NEW r \in PricedRows,
         admin'[a].pc \in Locking, admin'[a].row = r, Wrote(admin[a])',
         TellsIn(history', bought', Deletions(r)', r, admin'[a].was, admin'[a].had),
         \A b \in Admins \ {a} : ~Locks(b, r)',
         admin'[a].pc = "dropped" => \A b \in Admins \ {a} : ~Deletes(b, r)'
  PROVE  RowTells(r)'
<1>1. Locks(a, r)' /\ \A b \in Admins : Locks(b, r)' => b = a
  BY DEF Locks
<1>2. \A p, q : Committed(r, p, q)' => p = admin'[a].was /\ q = admin'[a].had
  BY <1>1 DEF Committed
<1> QED
  BY <1>1, <1>2 DEF RowTells

LEMMA RowFree ==
  ASSUME NEW r \in PricedRows, \A b \in Admins : ~Locks(b, r)',
         TellsIn(history', bought', Deletions(r)', r, priced'[r], parts'[r])
  PROVE  RowTells(r)'
  BY DEF RowTells, Committed

\* What the step of a does to the other requests and to the ledger.
LEMMA LedgerLeftAlone ==
  ASSUME AdminInv, ledger' = ledger,
         \A b \in Admins : admin'[b] = admin[b] \/ admin'[b].pc \notin EntrySteps
  PROVE  (\A b \in Admins : Knows(admin[b]))' /\ OneInserts'
<1>1. \A b \in Admins : Knows(admin[b])
  BY DEF AdminInv
<1>2. ASSUME NEW b \in Admins PROVE Knows(admin[b])'
  BY <1>1, <1>2 DEF Knows, EntrySteps
<1>3. OneInserts'
  <2>1. \A b \in Admins : admin'[b].pc = "insert" => admin'[b] = admin[b]
    BY DEF EntrySteps
  <2>2. OneInserts
    BY DEF AdminInv
  <2> QED
    BY <2>1, <2>2 DEF OneInserts
<1> QED
  BY <1>2, <1>3

EditsRow(a, r, y) ==
  /\ Proceeds(a, y)
  /\ y.pc \in Locking \cup Deleting => y.row = r
  /\ admin[a].pc \in Locking \cup Deleting => admin[a].row = r
  /\ \A s \in PricedRows \ {r} : priced'[s] = priced[s] /\ parts'[s] = parts[s] /\ SameOf(s)
  /\ bought' = bought /\ ledger' = ledger

LEMMA RowEdited ==
  ASSUME AdminInv, NEW a \in Admins, NEW r \in PricedRows, NEW y \in {Free} \cup Edit,
         EditsRow(a, r, y), priced' \in [PricedRows -> Nat], parts' \in [PricedRows -> Nat],
         history' \in Seq(History), writes' \in Nat, Edits', RowTells(r)'
  PROVE  AdminInv'
<1>1. AdminTypes /\ Proceeds(a, y)
  BY DEF AdminInv, EditsRow
<1>2. \A b \in Admins : admin'[b] = IF b = a THEN y ELSE admin[b]
  BY <1>1, OthersWait
<1>3. y.pc \notin EntrySteps
  BY DEF Free, Edit, EntrySteps, EditSteps, Locking, Deleting
<1>4. admin' \in [Admins -> {Free} \cup Edit \cup Entry]
  <2> HIDE DEF Free, Edit, Entry
  <2> QED
    BY <1>1 DEF AdminTypes, Proceeds
<1>5. AdminTypes'
  BY <1>1, <1>4 DEF AdminTypes, EditsRow
<1>6. ASSUME NEW s \in PricedRows, s # r
      PROVE  RowTells(s)'
  <2>1. RowTells(s)
    BY DEF AdminInv
  <2>2. \A b \in Admins : (admin'[b] = admin[b]) \/ (~Busy(b, s) /\ ~Busy(b, s)')
    BY <1>2, <1>6 DEF Busy, Locks, Deletes, EditsRow
  <2>3. priced'[s] = priced[s] /\ parts'[s] = parts[s] /\ bought' = bought /\ SameOf(s)
    BY <1>6 DEF EditsRow
  <2> QED
    BY <2>1, <2>2, <2>3, RowLeftAlone
<1>7. (\A b \in Admins : Knows(admin[b]))' /\ OneInserts'
  BY <1>2, <1>3, LedgerLeftAlone DEF EditsRow
<1>8. (\A s \in PricedRows : RowTells(s))'
  BY <1>6
<1> QED
  BY <1>5, <1>7, <1>8 DEF AdminInv

\* Nothing of the rows changes, and a holds none before or after.
LEMMA NothingHeld ==
  ASSUME AdminInv, NEW a \in Admins, NEW y, Proceeds(a, y),
         y.pc \notin Locking \cup Deleting, admin[a].pc \notin Locking \cup Deleting,
         UNCHANGED <<priced, parts, bought, history>>
  PROVE  (\A r \in PricedRows : RowTells(r))'
<1>1. \A b \in Admins : admin'[b] = IF b = a THEN y ELSE admin[b]
  BY OthersWait DEF AdminInv
<1>2. ASSUME NEW r \in PricedRows PROVE RowTells(r)'
  <2>1. RowTells(r)
    BY DEF AdminInv
  <2>2. \A b \in Admins : (admin'[b] = admin[b]) \/ (~Busy(b, r) /\ ~Busy(b, r)')
    BY <1>1 DEF Busy, Locks, Deletes
  <2>3. SameOf(r)
    BY SameHistory
  <2> QED
    BY <2>1, <2>2, <2>3, RowLeftAlone
<1> QED
  BY <1>2

LEMMA CreateRowKeeps ==
  ASSUME AdminInv, NEW a \in Admins, NEW r \in PricedRows, CreateRow(a, r)
  PROVE  AdminInv'
<1> DEFINE e == EntryOf(r, "CREATED", writes + 1)
           D == Deletions(r)
<1>1. AdminTypes /\ writes \in Nat /\ writes + 1 \in Nat \ {0} /\ admin[a] = Free
  BY DEF AdminInv, AdminTypes, CreateRow
<1>2. e \in History /\ e.row = r /\ e.kind = "CREATED" /\ e.edit = writes + 1 /\ e.linked
  BY <1>1, EntryFacts
<1>3. /\ priced' = [priced EXCEPT ![r] = writes + 1]
      /\ parts' = [parts EXCEPT ![r] = writes + 1]
      /\ history' = Append(history, e) /\ writes' = writes + 1
      /\ bought' = bought /\ ledger' = ledger /\ admin' = admin
      /\ \A j \in DOMAIN history : history[j].row # r
  BY DEF CreateRow
<1>4. Free \in {Free} \cup Edit
  OBVIOUS
<1> HIDE DEF e, D, History, Edit
<1>5. \A b \in Admins : ~Locks(b, r)'
  <2>1. \A p, q : p # Absent => ~TellsIn(history, bought, D, r, p, q)
    BY <1>3 DEF TellsIn, ThereIn, Writes, Linked
  <2>2. RowTells(r)
    BY DEF AdminInv
  <2>3. ASSUME NEW b \in Admins, Locks(b, r) PROVE FALSE
    <3>1. Committed(r, admin[b].was, admin[b].had)
      BY <2>3 DEF Committed
    <3>2. Wrote(admin[b]) /\ TellsIn(history, bought, D, r, admin[b].was, admin[b].had)
      BY <2>2, <2>3, <3>1 DEF RowTells, D
    <3> QED
      BY <2>1, <3>2 DEF Wrote
  <2> QED
    BY <1>3, <2>3 DEF Locks
<1>6. ThereIn(history', D, r, writes + 1, writes + 1)
  <2>1. \A j \in DOMAIN history : Drops(history, e.row, j) => history[j].edit \in D
    BY <1>2, <1>3 DEF Drops
  <2>2. ThereIn(history', D, e.row, e.edit, e.edit)
    BY <1>1, <1>2, <1>3, <2>1, WriteTold DEF AdminTypes
  <2> QED
    BY <1>2, <2>2
<1>7. priced'[r] = writes + 1 /\ parts'[r] = writes + 1
      /\ priced' \in [PricedRows -> Nat] /\ parts' \in [PricedRows -> Nat]
      /\ \A s \in PricedRows \ {r} : priced'[s] = priced[s] /\ parts'[s] = parts[s]
  BY <1>1, <1>3 DEF AdminTypes
<1>8. RowTells(r)'
  <2>1. Deletions(r)' = D
    BY <1>3 DEF D, Deletions, Deletes
  <2>2. TellsIn(history', bought', Deletions(r)', r, priced'[r], parts'[r])
    BY <1>1, <1>6, <1>7, <2>1 DEF TellsIn, Absent
  <2> QED
    BY <1>5, <2>2, RowFree
<1>9. EditsRow(a, r, Free)
  <2>1. Proceeds(a, Free)
    BY <1>1, <1>3 DEF AdminTypes, Proceeds
  <2>2. Free.pc \notin Locking \cup Deleting
    BY StepsApart
  <2>3. \A s \in PricedRows \ {r} : SameOf(s)
    BY <1>1, <1>2, <1>3, OtherEntry
  <2> QED
    BY <1>1, <1>3, <1>7, <2>1, <2>2, <2>3 DEF EditsRow
<1>10. Edits'
  BY <1>1, <1>2, <1>3, <1>4, <1>9, StepsApart, EditsTold DEF EditsRow
<1>11. history' \in Seq(History)
  BY <1>1, <1>2, <1>3, EntryAppended DEF AdminTypes
<1> QED
  BY <1>1, <1>3, <1>4, <1>7, <1>8, <1>9, <1>10, <1>11, RowEdited

\* The request notes what it will edit, or ends without having touched a row.
LEMMA NotesKeep ==
  ASSUME AdminInv, NEW a \in Admins, NEW r \in PricedRows, NEW y \in {Free} \cup Edit,
         Proceeds(a, y), y.pc \notin Locking \cup Deleting,
         admin[a].pc \notin Locking \cup Deleting,
         UNCHANGED <<priced, parts, bought, history, ledger>>, Edits', writes' \in Nat
  PROVE  AdminInv'
<1>1. EditsRow(a, r, y)
  BY SameHistory DEF EditsRow
<1>2. RowTells(r)'
  BY NothingHeld
<1>3. /\ priced' \in [PricedRows -> Nat] /\ parts' \in [PricedRows -> Nat]
      /\ history' \in Seq(History)
  BY DEF AdminInv, AdminTypes
<1> QED
  BY <1>1, <1>2, <1>3, RowEdited

LEMMA GivesUp ==
  ASSUME AdminInv, NEW a \in Admins, NEW r \in PricedRows, Proceeds(a, Free),
         admin[a].pc \notin Locking \cup Deleting,
         UNCHANGED <<priced, parts, bought, history, ledger, writes>>
  PROVE  AdminInv'
<1>1. writes' \in Nat /\ writes <= writes'
  BY DEF AdminInv, AdminTypes
<1>2. Free.pc \notin Locking \cup Deleting /\ Free.pc \notin EditSteps
  BY StepsApart
<1>3. Free \in {Free} \cup Edit /\ Free \in {Free} \cup Edit \cup Entry
  OBVIOUS
<1> HIDE DEF Free, Edit, Entry
<1>4. Edits'
  BY <1>1, <1>2, <1>3, EditsStay
<1> QED
  BY <1>1, <1>2, <1>3, <1>4, NotesKeep

LEMMA BeginsKeep ==
  ASSUME AdminInv, NEW a \in Admins, NEW r \in PricedRows,
         BeginWrite(a, r) \/ BeginDelete(a, r)
  PROVE  AdminInv'
<1>1. AdminTypes /\ Edits /\ writes \in Nat /\ writes + 1 \in Nat \ {0} /\ admin[a] = Free
  BY DEF AdminInv, AdminTypes, BeginWrite, BeginDelete
<1>2. PICK pc \in {"write", "delete"} :
        /\ Proceeds(a, Editing(pc, r, writes + 1)) /\ writes' = writes + 1
        /\ UNCHANGED <<priced, parts, bought, history, ledger>>
  BY DEF BeginWrite, BeginDelete
<1> DEFINE y == Editing(pc, r, writes + 1)
<1>3. y \in Edit /\ y.pc = pc /\ y.edit = writes + 1
  BY <1>1, EditType DEF EditSteps
<1>4. writes' \in Nat /\ writes <= writes'
  BY <1>1, <1>2
<1>5. Proceeds(a, y)
  BY <1>2
<1> HIDE DEF y, Edit, Entry, History
<1>6. y.pc \notin Locking \cup Deleting /\ admin[a].pc \notin Locking \cup Deleting
  BY <1>1, <1>3, StepsApart DEF Locking, Deleting
<1>7. Numbered(a)'
  <2>1. admin'[a] = y
    BY <1>1, <1>5, OthersWait
  <2>2. \A j \in DOMAIN history : history[j].edit # writes + 1
    BY <1>1, EditNumbers DEF Edits
  <2> QED
    BY <1>2, <1>3, <1>4, <1>6, <2>1, <2>2 DEF Numbered
<1>8. Edits'
  BY <1>2, <1>3, <1>4, <1>5, <1>7, EditsStay
<1> QED
  BY <1>2, <1>3, <1>4, <1>5, <1>6, <1>8, NotesKeep

\* Of a row that nobody holds, what has been committed is what is in the table.
LEMMA RowTaken ==
  ASSUME AdminInv, NEW a \in Admins, admin[a].pc \notin Locking, NEW r \in PricedRows,
         Unlocked(a, r)
  PROVE  /\ \A b \in Admins : ~Locks(b, r)
         /\ TellsIn(history, bought, Deletions(r), r, priced[r], parts[r])
<1>1. \A b \in Admins : ~Locks(b, r)
  BY DEF Unlocked, NoOther, Locks
<1>2. Committed(r, priced[r], parts[r]) /\ RowTells(r)
  BY <1>1 DEF Committed, AdminInv
<1> QED
  BY <1>1, <1>2 DEF RowTells

LEMMA WriteRowKeeps ==
  ASSUME AdminInv, NEW a \in Admins, WriteRow(a)
  PROVE  AdminInv'
<1> DEFINE x == admin[a]
<1>1. AdminTypes /\ x.pc = "write" /\ Unlocked(a, x.row)
  BY DEF AdminInv, WriteRow
<1>2. /\ x \in Edit /\ x.row \in PricedRows /\ x.edit \in Nat \ {0}
      /\ x.pc \notin Locking \cup Deleting /\ x.pc \in EditSteps
  BY <1>1, KindOfRequest, EditFields DEF EditSteps, Locking, Deleting
<1> DEFINE y == Editing("written", x.row, x.edit)
<1>0. PICK r \in PricedRows : r = x.row
  BY <1>2
<1>3. CASE ~Exists(x.row)
  BY <1>1, <1>2, <1>3, GivesUp DEF WriteRow
<1>4. CASE Exists(r)
  <2>1. /\ priced' = [priced EXCEPT ![r] = x.edit] /\ Proceeds(a, y)
        /\ UNCHANGED <<parts, bought, history, ledger, writes>>
    BY <1>4, <1>0 DEF WriteRow
  <2>2. /\ y \in Edit /\ y.pc = "written" /\ y.row = r /\ y.edit = x.edit
        /\ y.was = priced[r] /\ y.had = parts[r]
    BY <1>1, <1>2, <1>0, EditType DEF EditSteps, Locking
  <2>3. /\ \A b \in Admins : ~Locks(b, r)
        /\ TellsIn(history, bought, Deletions(r), r, priced[r], parts[r])
    BY <1>1, <1>2, <1>0, RowTaken
  <2>4. \A b \in Admins : admin'[b] = IF b = a THEN y ELSE admin[b]
    BY <1>1, <2>1, OthersWait
  <2> HIDE DEF x, y, Edit, Entry, History
  <2>5. /\ priced' \in [PricedRows -> Nat] /\ parts' \in [PricedRows -> Nat]
        /\ priced'[r] = x.edit /\ writes' \in Nat /\ writes <= writes'
        /\ \A s \in PricedRows \ {r} : priced'[s] = priced[s] /\ parts'[s] = parts[s]
    BY <1>1, <1>2, <2>1 DEF AdminTypes
  <2>6. Wrote(admin[a])'
    BY <1>4, <2>2, <2>4, <2>5 DEF Wrote, Exists
  <2>7. RowTells(r)'
    <3>1. \A b \in Admins \ {a} : ~Locks(b, r)'
      BY <2>3, <2>4 DEF Locks
    <3>2. admin'[a].pc \in Locking /\ admin'[a].row = r /\ admin'[a].pc # "dropped"
      BY <2>2, <2>4 DEF Locking
    <3>3. Deletions(r)' = Deletions(r)
      <4>1. \A b \in Admins : Deletes(b, r)' <=> Deletes(b, r)
        BY <1>2, <2>2, <2>4 DEF Deletes, Deleting, x
      <4>2. \A b \in Admins : Deletes(b, r) => admin'[b] = admin[b]
        BY <1>2, <2>4 DEF Deletes, x
      <4> QED
        BY <4>1, <4>2 DEF Deletions
    <3>4. TellsIn(history', bought', Deletions(r)', r, admin'[a].was, admin'[a].had)
      BY <2>1, <2>2, <2>3, <2>4, <3>3
    <3> QED
      BY <2>6, <3>1, <3>2, <3>4, RowHeld
  <2>8. EditsRow(a, r, y)
    BY <1>2, <1>0, <2>1, <2>2, <2>5, SameHistory DEF EditsRow, x
  <2>9. Edits'
    <3>1. Numbered(a) /\ admin'[a] = y
      BY <1>2, <2>4 DEF AdminInv, Edits, x
    <3>2. Numbered(a)'
      BY <1>2, <2>1, <2>2, <3>1 DEF Numbered, x, Deleting
    <3> QED
      BY <1>2, <2>1, <2>2, <2>5, <3>2, EditsStay DEF SameEdit, x
  <2>10. history' \in Seq(History)
    BY <1>1, <2>1 DEF AdminTypes
  <2> QED
    BY <2>2, <2>5, <2>7, <2>8, <2>9, <2>10, RowEdited
<1> QED
  BY <1>3, <1>4, <1>0

\* What is known of the row that a transaction holds.
LEMMA HeldRow ==
  ASSUME AdminInv, NEW a \in Admins, admin[a].pc \in Locking
  PROVE  LET x == admin[a]
         IN  /\ x \in Edit /\ x.row \in PricedRows /\ x.edit \in Nat \ {0}
             /\ x.was \in Nat /\ x.had \in Nat /\ x.was # Absent
             /\ TellsIn(history, bought, Deletions(x.row), x.row, x.was, x.had) /\ Wrote(x)
             /\ \A b \in Admins \ {a} : ~Locks(b, x.row)
             /\ x.pc = "dropped" => \A b \in Admins \ {a} : ~Deletes(b, x.row)
<1> DEFINE x == admin[a]
<1>1. x \in Edit
  BY KindOfRequest DEF AdminInv
<1>2. x.row \in PricedRows /\ x.edit \in Nat \ {0} /\ x.was \in Nat /\ x.had \in Nat
  BY <1>1, EditFields
<1>3. Locks(a, x.row) /\ RowTells(x.row) /\ Committed(x.row, x.was, x.had)
  BY <1>2 DEF AdminInv, Locks, Committed
<1> QED
  BY <1>1, <1>2, <1>3 DEF RowTells, Wrote

LEMMA ReplacePartsKeeps ==
  ASSUME AdminInv, NEW a \in Admins, ReplaceParts(a)
  PROVE  AdminInv'
<1> DEFINE x == admin[a]
           y == [x EXCEPT !.pc = "replaced"]
<1>1. /\ AdminTypes /\ Edits /\ x.pc = "written" /\ x.pc \in Locking /\ x.pc \in EditSteps
      /\ x.pc \notin Deleting
  BY DEF AdminInv, ReplaceParts, Locking, EditSteps, Deleting
<1>0. PICK r \in PricedRows : r = x.row
  BY <1>1, HeldRow
<1>2. /\ x \in Edit /\ x.edit \in Nat \ {0}
      /\ TellsIn(history, bought, Deletions(r), r, x.was, x.had) /\ Wrote(x)
      /\ \A b \in Admins \ {a} : ~Locks(b, r)
  BY <1>1, <1>0, HeldRow
<1>3. /\ y \in Edit /\ y.pc = "replaced" /\ y.row = r /\ y.edit = x.edit
      /\ y.was = x.was /\ y.had = x.had
  BY <1>2, <1>0, EditFields DEF EditSteps, Locking
<1>4. /\ parts' = [parts EXCEPT ![r] = x.edit] /\ Proceeds(a, y)
      /\ UNCHANGED <<priced, bought, history, ledger, writes>>
  BY <1>0 DEF ReplaceParts
<1>5. \A b \in Admins : admin'[b] = IF b = a THEN y ELSE admin[b]
  BY <1>1, <1>4, OthersWait
<1> HIDE DEF x, y, Edit, Entry, History
<1>6. /\ priced' \in [PricedRows -> Nat] /\ parts' \in [PricedRows -> Nat]
      /\ parts'[r] = x.edit /\ writes' \in Nat /\ writes <= writes'
      /\ history' \in Seq(History)
      /\ \A s \in PricedRows \ {r} : priced'[s] = priced[s] /\ parts'[s] = parts[s]
  BY <1>1, <1>2, <1>4 DEF AdminTypes
<1>7. Wrote(admin[a])'
  BY <1>1, <1>2, <1>0, <1>3, <1>4, <1>5, <1>6 DEF Wrote
<1>8. RowTells(r)'
  <2>1. \A b \in Admins \ {a} : ~Locks(b, r)'
    BY <1>2, <1>5 DEF Locks
  <2>2. admin'[a].pc \in Locking /\ admin'[a].row = r /\ admin'[a].pc # "dropped"
    BY <1>3, <1>5 DEF Locking
  <2>3. Deletions(r)' = Deletions(r)
    <3>1. \A b \in Admins : Deletes(b, r)' <=> Deletes(b, r)
      BY <1>1, <1>3, <1>5 DEF Deletes, Deleting, x
    <3>2. \A b \in Admins : Deletes(b, r) => admin'[b] = admin[b]
      BY <1>1, <1>5 DEF Deletes, x
    <3> QED
      BY <3>1, <3>2 DEF Deletions
  <2>4. TellsIn(history', bought', Deletions(r)', r, admin'[a].was, admin'[a].had)
    BY <1>2, <1>3, <1>4, <1>5, <2>3
  <2> QED
    BY <1>7, <2>1, <2>2, <2>4, RowHeld
<1>9. EditsRow(a, r, y)
  BY <1>0, <1>3, <1>4, <1>6, SameHistory DEF EditsRow, x
<1>10. Edits'
  <2>1. Numbered(a) /\ admin'[a] = y
    BY <1>1, <1>5 DEF Edits, x
  <2>2. Numbered(a)'
    BY <1>1, <1>3, <1>4, <2>1 DEF Numbered, x, Deleting
  <2> QED
    BY <1>1, <1>3, <1>4, <1>6, <2>2, EditsStay DEF SameEdit, x
<1> QED
  BY <1>3, <1>6, <1>8, <1>9, <1>10, RowEdited

\* The update ends: its entry of the history tells what it has written.
LEMMA CommitWriteKeeps ==
  ASSUME AdminInv, NEW a \in Admins, CommitWrite(a)
  PROVE  AdminInv'
<1> DEFINE x == admin[a]
<1>1. /\ AdminTypes /\ x.pc = "replaced" /\ x.pc \in Locking /\ x.pc \in EditSteps
      /\ x.pc \notin Deleting
  BY DEF AdminInv, CommitWrite, Locking, EditSteps, Deleting
<1>0. PICK r \in PricedRows : r = x.row
  BY <1>1, HeldRow
<1> DEFINE e == EntryOf(r, "UPDATED", x.edit)
<1>2. /\ r \in PricedRows /\ x.edit \in Nat \ {0} /\ x.was # Absent /\ Wrote(x)
      /\ TellsIn(history, bought, Deletions(r), r, x.was, x.had)
      /\ \A b \in Admins \ {a} : ~Locks(b, r)
  BY <1>0, <1>1, HeldRow
<1>3. /\ history' = Append(history, e) /\ Proceeds(a, Free)
      /\ UNCHANGED <<priced, parts, bought, ledger, writes>>
  BY <1>0 DEF CommitWrite
<1>4. e \in History /\ e.row = r /\ e.edit = x.edit /\ e.kind = "UPDATED" /\ e.linked
  BY <1>2, EntryFacts
<1>5. priced[r] = x.edit /\ parts[r] = x.edit
  BY <1>0, <1>1, <1>2 DEF Wrote
<1>6. \A b \in Admins : admin'[b] = IF b = a THEN Free ELSE admin[b]
  BY <1>1, <1>3, OthersWait
<1>7. Free \in {Free} \cup Edit /\ Free.pc \notin EditSteps
      /\ Free.pc \notin Locking \cup Deleting
  BY StepsApart
<1> HIDE DEF x, e, Free, Edit, Entry, History
<1>8. /\ priced' \in [PricedRows -> Nat] /\ parts' \in [PricedRows -> Nat]
      /\ writes' \in Nat /\ writes <= writes' /\ history' \in Seq(History)
  BY <1>1, <1>3, <1>4, EntryAppended DEF AdminTypes
<1>9. Deletions(r)' = Deletions(r)
  <2>1. \A b \in Admins : Deletes(b, r)' <=> Deletes(b, r)
    BY <1>1, <1>6, <1>7 DEF Deletes, Locking, Deleting, x
  <2>2. \A b \in Admins : Deletes(b, r) => admin'[b] = admin[b]
    BY <1>1, <1>6 DEF Deletes, x
  <2> QED
    BY <2>1, <2>2 DEF Deletions
<1>10. RowTells(r)'
  <2>1. \A j \in DOMAIN history : Drops(history, r, j) => history[j].edit \in Deletions(r)
    BY <1>2 DEF TellsIn, ThereIn
  <2>2. ThereIn(history', Deletions(r), r, x.edit, x.edit)
    <3>1. ThereIn(history', Deletions(r), e.row, e.edit, e.edit)
      BY <1>1, <1>3, <1>4, <2>1, WriteTold DEF AdminTypes
    <3> QED
      BY <1>4, <3>1
  <2>3. TellsIn(history', bought', Deletions(r)', r, priced'[r], parts'[r])
    BY <1>2, <1>3, <1>5, <1>9, <2>2 DEF TellsIn, Absent
  <2>4. \A b \in Admins : ~Locks(b, r)'
    BY <1>2, <1>6, <1>7 DEF Locks
  <2> QED
    BY <1>2, <2>3, <2>4, RowFree
<1>11. EditsRow(a, r, Free)
  <2>1. \A s \in PricedRows \ {r} : SameOf(s)
    BY <1>1, <1>3, <1>4, OtherEntry
  <2> QED
    BY <1>0, <1>3, <1>7, <2>1 DEF EditsRow, x
<1>12. Edits'
  BY <1>1, <1>3, <1>4, <1>7, <1>8, EditsTold DEF x
<1> QED
  BY <1>2, <1>7, <1>8, <1>10, <1>11, <1>12, RowEdited

LEMMA NoteDeletionKeeps ==
  ASSUME AdminInv, NEW a \in Admins, NoteDeletion(a)
  PROVE  AdminInv'
<1> DEFINE x == admin[a]
           y == [x EXCEPT !.pc = "noted"]
<1>1. AdminTypes /\ x.pc = "delete" /\ Referable(a, x.row)
  BY DEF AdminInv, NoteDeletion
<1>2. /\ x \in Edit /\ x.row \in PricedRows /\ x.edit \in Nat \ {0}
      /\ x.pc \notin Locking \cup Deleting /\ x.pc \in EditSteps
  BY <1>1, KindOfRequest, EditFields DEF EditSteps, Locking, Deleting
<1>0. PICK r \in PricedRows : r = x.row
  BY <1>2
<1> DEFINE e == EntryOf(r, "DELETED", x.edit)
<1>3. CASE ~Exists(x.row)
  BY <1>1, <1>2, <1>3, GivesUp DEF NoteDeletion
<1>4. CASE Exists(r)
  <2>1. /\ history' = Append(history, e) /\ Proceeds(a, y)
        /\ UNCHANGED <<priced, parts, bought, ledger, writes>>
    BY <1>4, <1>0 DEF NoteDeletion
  <2>2. /\ y \in Edit /\ y.pc = "noted" /\ y.row = r /\ y.edit = x.edit
        /\ y.pc \in Deleting /\ y.pc \notin Locking
    BY <1>2, <1>0, EditFields DEF EditSteps, Locking, Deleting
  <2>3. e \in History /\ e.row = r /\ e.edit = x.edit /\ e.kind = "DELETED"
    BY <1>2, EntryFacts
  <2>4. \A b \in Admins : admin'[b] = IF b = a THEN y ELSE admin[b]
    BY <1>1, <2>1, OthersWait
  <2> HIDE DEF x, y, e, Free, Edit, Entry, History
  <2>5. /\ priced' \in [PricedRows -> Nat] /\ parts' \in [PricedRows -> Nat]
        /\ writes' \in Nat /\ writes <= writes' /\ history' \in Seq(History)
    BY <1>1, <2>1, <2>3, EntryAppended DEF AdminTypes
  <2>6. Deletions(r) \subseteq Deletions(r)' /\ e.edit \in Deletions(r)'
    <3>1. Deletes(a, r)' /\ admin'[a].edit = e.edit
      BY <2>2, <2>3, <2>4 DEF Deletes
    <3>2. \A b \in Admins : Deletes(b, r) => Deletes(b, r)' /\ admin'[b] = admin[b]
      BY <1>2, <2>4 DEF Deletes, x
    <3> QED
      BY <3>1, <3>2 DEF Deletions
  <2>7. RowTells(r)'
    <3>1. RowTells(r)
      BY DEF AdminInv
    <3>2. \A p, q : ThereIn(history, Deletions(r), e.row, p, q)
                    => ThereIn(history', Deletions(r)', e.row, p, q)
      BY <1>1, <2>1, <2>3, <2>6, DeletionTold DEF AdminTypes
    <3>3. ASSUME NEW p, NEW q, Committed(r, p, q),
                 TellsIn(history, bought, Deletions(r), r, p, q)
          PROVE  TellsIn(history', bought', Deletions(r)', r, p, q)
      <4>1. p # Absent
        BY <1>4, <3>1, <3>3, RowThere
      <4> QED
        BY <2>3, <3>2, <3>3, <4>1 DEF TellsIn
    <3>4. \A b \in Admins : Locks(b, r) \/ Locks(b, r)' => admin'[b] = admin[b]
      BY <1>2, <2>2, <2>4 DEF Locks, x
    <3>5. \A b \in Admins : Locks(b, r) => admin[b].pc # "dropped"
      BY <1>0, <1>1, <1>2 DEF Locks, Referable, NoOther, x
    <3>6. priced'[r] = priced[r] /\ parts'[r] = parts[r]
      BY <2>1
    <3> HIDE DEF RowTells, Committed, TellsIn, Locks, Deletes, Deletions
    <3> QED
      BY <3>1, <3>3, <3>4, <3>5, <3>6, RowKept
  <2>8. EditsRow(a, r, y)
    <3>1. \A s \in PricedRows \ {r} : SameOf(s)
      BY <1>1, <2>1, <2>3, OtherEntry
    <3> QED
      BY <1>2, <2>1, <2>2, <3>1 DEF EditsRow, x
  <2>9. Edits'
    BY <1>2, <2>1, <2>2, <2>3, <2>5, EditsTold DEF SameEdit, x
  <2> QED
    BY <2>2, <2>5, <2>7, <2>8, <2>9, RowEdited
<1> QED
  BY <1>3, <1>4, <1>0

LEMMA DeleteRowKeeps ==
  ASSUME AdminInv, NEW a \in Admins, DeleteRow(a)
  PROVE  AdminInv'
<1> DEFINE x == admin[a]
<1>1. AdminTypes /\ x.pc = "noted" /\ Unshared(a, x.row)
  BY DEF AdminInv, DeleteRow
<1>2. /\ x \in Edit /\ x.row \in PricedRows /\ x.edit \in Nat \ {0}
      /\ x.pc \notin Locking /\ x.pc \in EditSteps /\ x.pc \in Deleting
  BY <1>1, KindOfRequest, EditFields DEF EditSteps, Locking, Deleting
<1>0. PICK r \in PricedRows : r = x.row
  BY <1>2
<1> DEFINE y == Editing("dropped", r, x.edit)
<1>3. /\ priced' = [priced EXCEPT ![r] = Absent] /\ parts' = [parts EXCEPT ![r] = Absent]
      /\ Proceeds(a, y) /\ Exists(r) /\ r \notin bought
      /\ UNCHANGED <<bought, history, ledger, writes>>
  BY <1>0 DEF DeleteRow
<1>4. /\ y \in Edit /\ y.pc = "dropped" /\ y.row = r /\ y.edit = x.edit
      /\ y.was = priced[r] /\ y.had = parts[r]
      /\ y.pc \in Locking /\ y.pc \in Deleting
  BY <1>1, <1>2, EditType DEF EditSteps, Locking, Deleting
<1>5. /\ \A b \in Admins : ~Locks(b, r)
      /\ TellsIn(history, bought, Deletions(r), r, priced[r], parts[r])
  BY <1>0, <1>1, <1>2, RowTaken DEF Unshared
<1>6. \A b \in Admins : admin'[b] = IF b = a THEN y ELSE admin[b]
  BY <1>1, <1>3, OthersWait
<1> HIDE DEF x, y, Free, Edit, Entry, History
<1>7. /\ priced' \in [PricedRows -> Nat] /\ parts' \in [PricedRows -> Nat]
      /\ priced'[r] = Absent /\ writes' \in Nat /\ writes <= writes'
      /\ history' \in Seq(History)
      /\ \A s \in PricedRows \ {r} : priced'[s] = priced[s] /\ parts'[s] = parts[s]
  BY <1>1, <1>3 DEF AdminTypes, Absent
<1>8. Wrote(admin[a])'
  BY <1>3, <1>4, <1>6, <1>7 DEF Wrote, Exists
<1>9. Deletions(r)' = Deletions(r)
  <2>1. \A b \in Admins : Deletes(b, r)' <=> Deletes(b, r)
    BY <1>0, <1>2, <1>4, <1>6 DEF Deletes, x
  <2>2. \A b \in Admins : Deletes(b, r) => admin'[b].edit = admin[b].edit
    BY <1>4, <1>6 DEF x
  <2> QED
    BY <2>1, <2>2 DEF Deletions
<1>10. RowTells(r)'
  <2>1. \A b \in Admins \ {a} : ~Locks(b, r)' /\ ~Deletes(b, r)'
    BY <1>0, <1>1, <1>6 DEF Unshared, Unlocked, NoOther, Locks, Deletes, Locking, Deleting
  <2>2. TellsIn(history', bought', Deletions(r)', r, admin'[a].was, admin'[a].had)
    BY <1>3, <1>4, <1>5, <1>6, <1>9
  <2> QED
    BY <1>4, <1>6, <1>8, <2>1, <2>2, RowHeld
<1>11. EditsRow(a, r, y)
  BY <1>0, <1>3, <1>4, <1>7, SameHistory DEF EditsRow, x
<1>12. Edits'
  <2>1. Numbered(a) /\ admin'[a] = y
    BY <1>2, <1>6 DEF AdminInv, Edits, x
  <2>2. Numbered(a)'
    BY <1>0, <1>2, <1>3, <1>4, <2>1 DEF Numbered, x
  <2> QED
    BY <1>2, <1>3, <1>4, <1>7, <2>2, EditsStay DEF SameEdit, x
<1> QED
  BY <1>4, <1>7, <1>10, <1>11, <1>12, RowEdited

\* The plan is gone, and of the entries about it only that of this deletion
\* tells of its end.
LEMMA CommitDeleteKeeps ==
  ASSUME AdminInv, NEW a \in Admins, CommitDelete(a)
  PROVE  AdminInv'
<1> DEFINE x == admin[a]
<1>1. /\ AdminTypes /\ Edits /\ x.pc = "dropped" /\ x.pc \in Locking /\ x.pc \in Deleting
      /\ x.pc \in EditSteps
  BY DEF AdminInv, CommitDelete, Locking, Deleting, EditSteps
<1>0. PICK r \in PricedRows : r = x.row
  BY <1>1, HeldRow
<1>2. /\ x.was # Absent /\ Wrote(x)
      /\ TellsIn(history, bought, Deletions(r), r, x.was, x.had)
      /\ \A b \in Admins \ {a} : ~Locks(b, r) /\ ~Deletes(b, r)
  BY <1>0, <1>1, HeldRow
<1>3. /\ history' = [j \in DOMAIN history |->
                      IF history[j].row = r THEN Unlinked(history[j]) ELSE history[j]]
      /\ Proceeds(a, Free) /\ UNCHANGED <<priced, parts, bought, ledger, writes>>
  BY <1>0 DEF CommitDelete
<1>4. \A b \in Admins : admin'[b] = IF b = a THEN Free ELSE admin[b]
  BY <1>1, <1>3, OthersWait
<1>5. Free \in {Free} \cup Edit /\ Free.pc \notin Locking \cup Deleting
  BY StepsApart
<1> HIDE DEF x, Free, Edit, Entry, History
<1>6. DOMAIN history' = DOMAIN history
  BY <1>3
<1>7. \A j \in DOMAIN history :
        /\ history'[j] \in History /\ history'[j].row = history[j].row
        /\ history'[j].edit = history[j].edit /\ history'[j].kind = history[j].kind
        /\ history[j].row = r => ~history'[j].linked
        /\ history[j].row # r => history'[j] = history[j]
  BY <1>1, <1>3, EditNumbers, RevisedFacts
<1>8. /\ priced' \in [PricedRows -> Nat] /\ parts' \in [PricedRows -> Nat]
      /\ priced'[r] = Absent /\ writes' \in Nat
  BY <1>0, <1>1, <1>2, <1>3 DEF AdminTypes, Wrote
<1>9. history' \in Seq(History)
  BY <1>1, <1>3, <1>6, <1>7, EntriesRevised DEF AdminTypes
<1>10. GoneIn(history', bought', {}, r)
  <2>1. r \notin bought'
    BY <1>0, <1>1, <1>2, <1>3 DEF Wrote
  <2>2. \A j \in DOMAIN history' : ~Linked(history', r, j)
    BY <1>6, <1>7 DEF Linked
  <2>3. PICK i \in DOMAIN history : history[i].edit = x.edit /\ Drops(history, r, i)
    BY <1>0, <1>1 DEF Edits, Numbered, x
  <2>4. ASSUME NEW k \in DOMAIN history, Drops(history, r, k)
        PROVE  k = i
    <3>1. history[k].edit \in Deletions(r)
      BY <1>2, <2>4 DEF TellsIn, ThereIn
    <3>2. history[k].edit = x.edit
      BY <1>2, <3>1 DEF Deletions, x
    <3> QED
      BY <1>1, <2>3, <3>2 DEF Edits
  <2>5. \A k \in DOMAIN history' : Drops(history', r, k) <=> k = i
    BY <1>6, <1>7, <2>3, <2>4 DEF Drops
  <2> QED
    BY <1>6, <2>1, <2>2, <2>3, <2>5 DEF GoneIn
<1>11. RowTells(r)'
  <2>1. \A b \in Admins : ~Locks(b, r)' /\ ~Deletes(b, r)'
    BY <1>2, <1>4, <1>5 DEF Locks, Deletes
  <2>2. Deletions(r)' = {}
    BY <2>1 DEF Deletions
  <2> QED
    BY <1>8, <1>10, <2>1, <2>2, RowFree DEF TellsIn
<1>12. EditsRow(a, r, Free)
  <2>1. \A s \in PricedRows \ {r} : SameOf(s)
    BY <1>6, <1>7 DEF SameOf
  <2> QED
    BY <1>0, <1>3, <1>5, <2>1 DEF EditsRow, x
<1>13. Edits'
  BY <1>1, <1>3, <1>6, <1>7, EditsRevised DEF x
<1> QED
  BY <1>5, <1>8, <1>9, <1>11, <1>12, <1>13, RowEdited

LEMMA RollBackKeeps ==
  ASSUME AdminInv, NEW a \in Admins, RollBack(a)
  PROVE  AdminInv'
<1> DEFINE x == admin[a]
<1>1. /\ AdminTypes /\ Edits /\ x.pc \in Locking \cup Deleting /\ x.pc \in EditSteps
      /\ x.pc \notin Locking => x.pc \in Deleting
  BY DEF AdminInv, RollBack, Locking, Deleting, EditSteps
<1>2. x \in Edit /\ x.row \in PricedRows /\ x.edit \in Nat \ {0}
  BY <1>1, KindOfRequest, EditFields
<1>0. PICK r \in PricedRows : r = x.row
  BY <1>2
<1>00. PICK n \in Nat : n = x.edit
  BY <1>2
<1>3. /\ priced' = IF x.pc \in Locking THEN [priced EXCEPT ![r] = x.was] ELSE priced
      /\ parts' = IF x.pc \in Locking THEN [parts EXCEPT ![r] = x.had] ELSE parts
      /\ Undo(n) /\ Proceeds(a, Free) /\ UNCHANGED <<bought, ledger, writes>>
  BY <1>0, <1>00 DEF RollBack, Undo
<1>4. \A b \in Admins : admin'[b] = IF b = a THEN Free ELSE admin[b]
  BY <1>1, <1>3, OthersWait
<1>5. Free \in {Free} \cup Edit /\ Free.pc \notin Locking \cup Deleting
  BY StepsApart
<1>6. x.was \in Nat /\ x.had \in Nat
  BY <1>2, EditFields
<1> HIDE DEF x, Free, Edit, Entry, History
<1>7. DOMAIN history' = DOMAIN history
      /\ history' = [j \in DOMAIN history |-> history'[j]]
  BY <1>3 DEF Undo
<1>8. \A j \in DOMAIN history : history[j].edit = n => Drops(history, r, j)
  BY <1>0, <1>00, <1>1 DEF Edits, Numbered, x
<1>9. \A j \in DOMAIN history :
        /\ history'[j] \in History /\ history'[j].row = history[j].row
        /\ history'[j].edit = history[j].edit
        /\ history[j].edit # n => history'[j] = history[j]
  BY <1>1, <1>3, EditNumbers, RevisedFacts DEF Undo
<1>10. history' \in Seq(History)
  BY <1>1, <1>7, <1>9, EntriesRevised DEF AdminTypes
<1>11. /\ priced' \in [PricedRows -> Nat] /\ parts' \in [PricedRows -> Nat]
       /\ writes' \in Nat
       /\ \A s \in PricedRows \ {r} : priced'[s] = priced[s] /\ parts'[s] = parts[s]
       /\ x.pc \in Locking => priced'[r] = x.was /\ parts'[r] = x.had
       /\ x.pc \notin Locking => priced'[r] = priced[r] /\ parts'[r] = parts[r]
  BY <1>1, <1>3, <1>6 DEF AdminTypes
<1>12. Deletions(r) \ {n} \subseteq Deletions(r)'
  <2>1. \A b \in Admins : Deletes(b, r) /\ admin[b].edit # n =>
          Deletes(b, r)' /\ admin'[b] = admin[b]
    BY <1>00, <1>4 DEF Deletes, x
  <2> QED
    BY <2>1 DEF Deletions
<1>13. \A p, q : ThereIn(history, Deletions(r), r, p, q)
                 => ThereIn(history', Deletions(r)', r, p, q)
  BY <1>1, <1>3, <1>8, <1>12, DeletionUndone DEF AdminTypes, Drops
<1>14. RowTells(r)'
  <2>1. CASE x.pc \in Locking
    <3>1. /\ x.was # Absent /\ TellsIn(history, bought, Deletions(r), r, x.was, x.had)
          /\ \A b \in Admins \ {a} : ~Locks(b, r)
      BY <1>0, <2>1, HeldRow DEF x
    <3>2. TellsIn(history', bought', Deletions(r)', r, priced'[r], parts'[r])
      BY <1>11, <1>13, <2>1, <3>1 DEF TellsIn
    <3>3. \A b \in Admins : ~Locks(b, r)'
      BY <1>4, <1>5, <3>1 DEF Locks
    <3> QED
      BY <3>2, <3>3, RowFree
  <2>2. CASE x.pc \notin Locking
    <3>1. RowTells(r)
      BY DEF AdminInv
    <3>2. n \in Deletions(r)
      BY <1>0, <1>00, <1>1, <2>2 DEF Deletions, Deletes, x
    <3>3. \A p, q : TellsIn(history, bought, Deletions(r), r, p, q)
                    => TellsIn(history', bought', Deletions(r)', r, p, q)
      BY <1>13, <3>2 DEF TellsIn, GoneIn
    <3>4. \A b \in Admins : Locks(b, r) \/ Locks(b, r)' => admin'[b] = admin[b]
      BY <1>4, <1>5, <2>2 DEF Locks, x
    <3>5. \A c \in Admins : Deletes(c, r)' => Deletes(c, r)
      BY <1>4, <1>5 DEF Deletes
    <3>6. bought' = bought /\ priced'[r] = priced[r] /\ parts'[r] = parts[r]
      BY <1>3, <1>11, <2>2
    <3> HIDE DEF RowTells, Committed, TellsIn, Locks, Deletes, Deletions
    <3> QED
      BY <3>1, <3>3, <3>4, <3>5, <3>6, RowKept
  <2> QED
    BY <2>1, <2>2
<1>15. EditsRow(a, r, Free)
  <2>1. \A s \in PricedRows \ {r} : SameOf(s)
    BY <1>7, <1>8, <1>9 DEF SameOf, Drops
  <2> QED
    BY <1>0, <1>3, <1>5, <1>11, <2>1 DEF EditsRow, x
<1>16. Edits'
  BY <1>00, <1>1, <1>3, <1>7, <1>9, EditsRevised DEF x
<1> QED
  BY <1>5, <1>10, <1>11, <1>14, <1>15, <1>16, RowEdited

\* A checkout refers to a plan that is there and is not about to go.
LEMMA BuyKeeps ==
  ASSUME AdminInv, NEW p \in Plans, Buy(p)
  PROVE  AdminInv'
<1>1. /\ AdminTypes /\ Exists(p) /\ bought' = bought \cup {p}
      /\ UNCHANGED <<priced, parts, history, ledger, admin, writes>>
      /\ \A b \in Admins : Locks(b, p) => admin[b].pc # "dropped"
  BY DEF AdminInv, Buy, Locks
<1>2. ASSUME NEW r \in PricedRows PROVE RowTells(r)'
  <2>1. RowTells(r)
    BY DEF AdminInv
  <2>2. Deletions(r)' = Deletions(r)
    BY <1>1 DEF Deletions, Deletes
  <2>3. ASSUME NEW s, NEW q, Committed(r, s, q),
               TellsIn(history, bought, Deletions(r), r, s, q)
        PROVE  TellsIn(history', bought', Deletions(r)', r, s, q)
    <3>1. CASE r = p
      <4>1. s # Absent
        BY <1>1, <2>1, <2>3, <3>1, RowThere
      <4> QED
        BY <1>1, <2>2, <2>3, <4>1 DEF TellsIn
    <3>2. CASE r # p
      BY <1>1, <2>2, <2>3, <3>2 DEF TellsIn, GoneIn
    <3> QED
      BY <3>1, <3>2
  <2>4. \A b \in Admins : Deletes(b, r)' <=> Deletes(b, r)
    BY <1>1 DEF Deletes
  <2>5. \A b \in Admins : Locks(b, r) /\ admin[b].pc = "dropped" => r # p
    BY <1>1
  <2>6. r # p => (r \in bought' => r \in bought)
    BY <1>1
  <2>7. priced'[r] = priced[r] /\ parts'[r] = parts[r] /\ admin' = admin
    BY <1>1
  <2> HIDE DEF RowTells, Committed, TellsIn, Locks, Deletes, Deletions
  <2> QED
    BY <2>1, <2>3, <2>4, <2>5, <2>6, <2>7, RowKept
<1>3. AdminTypes'
  BY <1>1 DEF AdminTypes
<1>4. (\A b \in Admins : Knows(admin[b]))' /\ OneInserts'
  BY <1>1, LedgerLeftAlone
<1>5. (\A r \in PricedRows : RowTells(r))'
  BY <1>2
<1>6. Edits'
  BY <1>1 DEF AdminInv, Edits, Numbered, Drops
<1> QED
  BY <1>3, <1>4, <1>5, <1>6 DEF AdminInv

----------------------------------------------------------------------------
(* Steps of append(). *)

\* A request that knows what it says and inserts alone.
LEMMA EntryStep ==
  ASSUME AdminInv, NEW a \in Admins, NEW y \in {Free} \cup Entry, Proceeds(a, y),
         admin[a].pc \notin Locking \cup Deleting,
         UNCHANGED <<priced, parts, bought, history, writes>>,
         ledger' \in [EntryIds -> Amounts \cup {Nothing}],
         Knows(y)',
         \A b \in Admins \ {a} : Knows(admin[b]) => Knows(admin[b])',
         y.pc = "insert" =>
           \A b \in Admins \ {a} : admin[b].pc = "insert" => admin[b].id # y.id
  PROVE  AdminInv'
<1>1. AdminTypes /\ OneInserts /\ \A b \in Admins : Knows(admin[b])
  BY DEF AdminInv
<1>2. \A b \in Admins : admin'[b] = IF b = a THEN y ELSE admin[b]
  BY <1>1, OthersWait
<1>3. y.pc \notin Locking \cup Deleting /\ y.pc \notin EditSteps
  BY StepsApart DEF Entry
<1>4. (\A r \in PricedRows : RowTells(r))'
  BY <1>3, NothingHeld
<1> HIDE DEF Free, Edit, Entry
<1>5. AdminTypes'
  BY <1>1 DEF AdminTypes, Proceeds
<1>6. ASSUME NEW b \in Admins PROVE Knows(admin[b])'
  <2>1. CASE b = a
    BY <1>2, <2>1 DEF Knows
  <2>2. CASE b # a
    BY <1>1, <2>2 DEF Knows
  <2> QED
    BY <2>1, <2>2
<1>7. OneInserts'
  BY <1>1, <1>2 DEF OneInserts
<1>8. (\A b \in Admins : Knows(admin[b]))'
  BY <1>6
<1>9. Edits'
  <2>1. writes' \in Nat /\ writes <= writes'
    BY <1>1 DEF AdminTypes
  <2> QED
    BY <1>3, <2>1, EditsStay
<1> QED
  BY <1>4, <1>5, <1>7, <1>8, <1>9 DEF AdminInv

\* The others know what they knew if the ledger stays as it is.
LEMMA OthersKnow ==
  ASSUME AdminInv, NEW a \in Admins, NEW y, Proceeds(a, y), ledger' = ledger
  PROVE  \A b \in Admins \ {a} : Knows(admin[b]) => Knows(admin[b])'
<1>1. \A b \in Admins \ {a} : admin'[b] = admin[b]
  BY DEF AdminInv, AdminTypes, Proceeds
<1> QED
  BY <1>1 DEF Knows

LEMMA AppendEntryKeeps ==
  ASSUME AdminInv, NEW a \in Admins, NEW id \in EntryIds, NEW amount \in Amounts,
         AppendEntry(a, id, amount)
  PROVE  AdminInv'
<1> DEFINE y == [pc |-> "append", id |-> id, amount |-> amount]
<1>1. y \in Entry /\ y.pc = "append"
  BY DEF Entry, EntrySteps
<1>2. /\ admin[a] = Free /\ Proceeds(a, y)
      /\ UNCHANGED <<priced, parts, bought, history, ledger, writes>>
  BY DEF AppendEntry
<1> HIDE DEF y
<1>3. admin[a].pc \notin Locking \cup Deleting
  BY <1>2, StepsApart
<1>4. Knows(y)' /\ \A b \in Admins \ {a} : Knows(admin[b]) => Knows(admin[b])'
  BY <1>1, <1>2, OthersKnow DEF Knows
<1>5. ledger' \in [EntryIds -> Amounts \cup {Nothing}]
  BY <1>2 DEF AdminInv, AdminTypes
<1> QED
  BY <1>1, <1>2, <1>3, <1>4, <1>5, EntryStep

LEMMA LookUpKeeps ==
  ASSUME AdminInv, NEW a \in Admins, LookUp(a)
  PROVE  AdminInv'
<1> DEFINE x == admin[a]
<1>1. PICK pc \in EntrySteps :
        /\ Proceeds(a, [x EXCEPT !.pc = pc])
        /\ pc \in {"insert", "ok", "conflict"}
        /\ pc = "insert" => ledger[x.id] = Nothing
        /\ pc = "ok" => ledger[x.id] = x.amount
        /\ pc = "conflict" => ledger[x.id] \notin {x.amount, Nothing}
  BY DEF LookUp, EntrySteps
<1> DEFINE y == [x EXCEPT !.pc = pc]
<1>2. /\ AdminTypes /\ x.pc = "append" /\ Advised(x.id)
      /\ UNCHANGED <<priced, parts, bought, history, ledger, writes>>
  BY DEF LookUp, AdminInv
<1>3. x \in Entry /\ x.pc \notin Locking \cup Deleting
  BY <1>2, KindOfRequest DEF EntrySteps, Locking, Deleting
<1>4. y \in Entry /\ y.pc = pc /\ y.id = x.id /\ y.amount = x.amount
  BY <1>3, EntryFields
<1>5. Proceeds(a, y)
  BY <1>1
<1>6. ledger'[x.id] = ledger[x.id] /\ ledger' \in [EntryIds -> Amounts \cup {Nothing}]
  BY <1>2 DEF AdminTypes
<1>7. PICK z \in Entry : z = y
  BY <1>4
<1>8. Knows(z)'
  BY <1>1, <1>2, <1>4, <1>7 DEF Knows
<1>9. \A b \in Admins \ {a} : Knows(admin[b]) => Knows(admin[b])'
  BY <1>2, <1>5, OthersKnow
<1>10. z.pc = "insert" =>
         \A b \in Admins \ {a} : admin[b].pc = "insert" => admin[b].id # z.id
  BY <1>2, <1>4, <1>7 DEF Advised
<1>11. Proceeds(a, z)
  BY <1>5, <1>7
<1> HIDE DEF x, y, Entry
<1> QED
  BY <1>2, <1>3, <1>6, <1>8, <1>9, <1>10, <1>11, EntryStep DEF x

\* Nobody else waits for the entry that one inserts.
LEMMA InsertEntryKeeps ==
  ASSUME AdminInv, NEW a \in Admins, InsertEntry(a)
  PROVE  AdminInv'
<1> DEFINE x == admin[a]
           y == [x EXCEPT !.pc = "ok"]
<1>1. AdminTypes /\ OneInserts /\ x.pc = "insert" /\ ledger[x.id] = Nothing
  BY DEF InsertEntry, AdminInv, Knows
<1>2. x \in Entry /\ x.pc \notin Locking \cup Deleting
  BY <1>1, KindOfRequest DEF EntrySteps, Locking, Deleting
<1>3. PICK z \in Entry : z = y
  BY <1>2, EntryFields DEF EntrySteps
<1>4. z.pc = "ok" /\ z.id = x.id /\ z.amount = x.amount
      /\ x.id \in EntryIds /\ x.amount \in Amounts
  BY <1>2, <1>3, EntryFields DEF EntrySteps
<1>5. /\ ledger' = [ledger EXCEPT ![x.id] = x.amount] /\ Proceeds(a, z)
      /\ UNCHANGED <<priced, parts, bought, history, writes>>
  BY <1>1, <1>3 DEF InsertEntry
<1>6. /\ ledger'[x.id] = x.amount
      /\ \A id \in EntryIds \ {x.id} : ledger'[id] = ledger[id]
      /\ ledger' \in [EntryIds -> Amounts \cup {Nothing}]
  BY <1>1, <1>4, <1>5 DEF AdminTypes
<1>7. Knows(z)'
  BY <1>4, <1>6 DEF Knows
<1>8. ASSUME NEW b \in Admins \ {a}, Knows(admin[b])
      PROVE  Knows(admin[b])'
  <2>1. admin'[b] = admin[b]
    BY <1>1, <1>5 DEF AdminTypes, Proceeds
  <2>2. CASE admin[b].pc \notin EntrySteps
    BY <2>1, <2>2 DEF Knows, EntrySteps
  <2>3. CASE admin[b].pc \in EntrySteps
    <3>1. admin[b].id \in EntryIds
      BY <1>1, <2>3, KindOfRequest, EntryFields
    <3>2. CASE admin[b].id # x.id
      <4>1. ledger'[admin[b].id] = ledger[admin[b].id]
        BY <1>6, <3>1, <3>2
      <4> QED
        BY <1>8, <2>1, <4>1 DEF Knows
    <3>3. CASE admin[b].id = x.id
      <4>1. admin[b].pc # "insert"
        BY <1>1, <3>3 DEF OneInserts
      <4>2. admin[b].pc \notin {"ok", "conflict"}
        <5>1. admin[b].pc # "conflict"
          BY <1>1, <1>8, <3>3 DEF Knows
        <5>2. admin[b].amount \in Amounts /\ Nothing \notin Amounts
          BY <1>1, <2>3, KindOfRequest, EntryFields, AdministrationAssumption
        <5>3. admin[b].pc # "ok"
          BY <1>1, <1>8, <3>3, <5>2 DEF Knows
        <5> QED
          BY <5>1, <5>3
      <4> QED
        BY <1>8, <2>1, <4>1, <4>2 DEF Knows
    <3> QED
      BY <3>2, <3>3
  <2> QED
    BY <2>2, <2>3
<1> HIDE DEF x, y, Entry
<1> QED
  BY <1>2, <1>4, <1>5, <1>6, <1>7, <1>8, EntryStep DEF x

LEMMA AnsweredKeeps ==
  ASSUME AdminInv, NEW a \in Admins, Answered(a)
  PROVE  AdminInv'
<1>1. /\ admin[a].pc \notin Locking \cup Deleting /\ Proceeds(a, Free)
      /\ UNCHANGED <<priced, parts, bought, history, ledger, writes>>
  BY DEF Answered, Locking, Deleting
<1>2. Free.pc = "free"
  BY DEF Free
<1> HIDE DEF Free, Entry
<1>3. Knows(Free)' /\ \A b \in Admins \ {a} : Knows(admin[b]) => Knows(admin[b])'
  BY <1>1, <1>2, OthersKnow DEF Knows
<1>4. ledger' \in [EntryIds -> Amounts \cup {Nothing}]
  BY <1>1 DEF AdminInv, AdminTypes
<1> QED
  BY <1>1, <1>2, <1>3, <1>4, EntryStep

----------------------------------------------------------------------------
(* The theorems about plans, promotions and the ledger. *)

LEMMA AdminInvInit ==
  ASSUME AdminInit
  PROVE  AdminInv
<1>1. AdminTypes
  <2>1. <<>> \in Seq(History) /\ Absent \in Nat
    BY DEF Absent
  <2> HIDE DEF History, Free, Edit, Entry
  <2> QED
    BY <2>1 DEF AdminInit, AdminTypes
<1>2. /\ \A a \in Admins : admin[a].pc \notin Locking \cup Deleting
      /\ \A a \in Admins : admin[a].pc \notin EditSteps /\ admin[a].pc = "free"
  BY StepsApart DEF AdminInit
<1>3. DOMAIN history = {}
  BY DEF AdminInit
<1>4. \A r \in PricedRows : TellsIn(history, bought, Deletions(r), r, Absent, Absent)
  <2>1. \A r : Deletions(r) = {}
    BY <1>2 DEF Deletions, Deletes
  <2> QED
    BY <1>3, <2>1 DEF AdminInit, TellsIn, GoneIn
<1>5. \A r \in PricedRows : RowTells(r)
  BY <1>2, <1>4 DEF AdminInit, RowTells, Committed, Locks
<1>6. (\A a \in Admins : Knows(admin[a])) /\ OneInserts
  BY <1>2 DEF Knows, OneInserts
<1>7. Edits
  BY <1>2, <1>3 DEF Edits
<1> QED
  BY <1>1, <1>5, <1>6, <1>7 DEF AdminInv

LEMMA AdminInvNext ==
  ASSUME AdminInv, [AdminNext]_adminVars
  PROVE  AdminInv'
<1>1. ASSUME NEW a \in Admins, NEW r \in PricedRows,
             CreateRow(a, r) \/ BeginWrite(a, r) \/ BeginDelete(a, r)
      PROVE  AdminInv'
  BY <1>1, CreateRowKeeps, BeginsKeep
<1>2. ASSUME NEW a \in Admins,
             \/ WriteRow(a) \/ ReplaceParts(a) \/ CommitWrite(a)
             \/ NoteDeletion(a) \/ DeleteRow(a) \/ CommitDelete(a) \/ RollBack(a)
      PROVE  AdminInv'
  BY <1>2, WriteRowKeeps, ReplacePartsKeeps, CommitWriteKeeps, NoteDeletionKeeps,
     DeleteRowKeeps, CommitDeleteKeeps, RollBackKeeps
<1>3. ASSUME NEW a \in Admins,
             \/ \E id \in EntryIds, amount \in Amounts : AppendEntry(a, id, amount)
             \/ LookUp(a) \/ InsertEntry(a) \/ Answered(a)
      PROVE  AdminInv'
  BY <1>3, AppendEntryKeeps, LookUpKeeps, InsertEntryKeeps, AnsweredKeeps
<1>4. ASSUME NEW p \in Plans, Buy(p) PROVE AdminInv'
  BY <1>4, BuyKeeps
<1>5. CASE UNCHANGED adminVars
  <2>1. AdminTypes' /\ Edits'
    BY <1>5 DEF adminVars, AdminInv, AdminTypes, Edits, Numbered, Drops
  <2>2. (\A b \in Admins : Knows(admin[b]))' /\ OneInserts'
    BY <1>5, LedgerLeftAlone DEF adminVars
  <2>3. (\A r \in PricedRows : RowTells(r))'
    BY <1>5, SameHistory, RowLeftAlone DEF adminVars, AdminInv
  <2> QED
    BY <2>1, <2>2, <2>3 DEF AdminInv
<1> QED
  BY <1>1, <1>2, <1>3, <1>4, <1>5 DEF AdminNext

THEOREM AdministrationInvariant == AdminSpec => []AdminInv
<1>1. AdminInit => AdminInv
  BY AdminInvInit
<1>2. AdminInv /\ [AdminNext]_adminVars => AdminInv'
  BY AdminInvNext
<1> QED
  BY <1>1, <1>2, PTL DEF AdminSpec

(* Whatever number of administrators edit, delete, create and sell plans   *)
(* and promotions at once, and whichever transactions roll back: once those *)
(* who edit a row have ended, it and its parts are of the edit that the    *)
(* last entry referring to it tells of, and none tells of its deletion; or *)
(* it is gone unsold, nothing refers to it, and one entry tells of that.   *)
THEOREM HistoryIsTrue == AdminSpec => []HistoryTells
<1>1. ASSUME AdminInv, NEW r \in PricedRows, Settled(r)
      PROVE  IF Exists(r)
             THEN /\ \E j \in DOMAIN history : RefersTo(j, r)
                  /\ \A j \in DOMAIN history :
                       /\ ~Tells(j, r)
                       /\ LastEntry(r, j) => history[j].edit = priced[r]
                                             /\ history[j].edit = parts[r]
             ELSE /\ r \notin bought
                  /\ \A j \in DOMAIN history : ~RefersTo(j, r)
                  /\ \A j \in DOMAIN history : history[j].row = r =>
                       \E i \in DOMAIN history : \A k \in DOMAIN history :
                         Tells(k, r) <=> k = i
  <2>1. \A a \in Admins : ~Locks(a, r) /\ ~Deletes(a, r)
    BY <1>1 DEF Settled, Locks, Deletes
  <2>2. Deletions(r) = {}
    BY <2>1 DEF Deletions
  <2>3. Committed(r, priced[r], parts[r]) /\ RowTells(r)
    BY <1>1, <2>1 DEF AdminInv, Committed
  <2>4. TellsIn(history, bought, {}, r, priced[r], parts[r])
    BY <2>2, <2>3 DEF RowTells
  <2>5. CASE Exists(r)
    <3>1. ThereIn(history, {}, r, priced[r], parts[r])
      BY <2>4, <2>5 DEF TellsIn, Exists
    <3>2. \A j \in DOMAIN history : ~Drops(history, r, j)
      BY <3>1 DEF ThereIn
    <3>3. \A j \in DOMAIN history : RefersTo(j, r) <=> Writes(history, r, j)
      BY <3>2 DEF RefersTo, Writes, Linked, Drops
    <3>4. \A j \in DOMAIN history : LastEntry(r, j) => LastIn(history, r, j)
      BY <3>3 DEF LastEntry, LastIn
    <3>5. \A j \in DOMAIN history : ~Tells(j, r)
      BY <3>2 DEF Tells, Drops
    <3> QED
      BY <2>5, <3>1, <3>3, <3>4, <3>5 DEF ThereIn
  <2>6. CASE ~Exists(r)
    <3>1. GoneIn(history, bought, {}, r)
      BY <2>4, <2>6 DEF TellsIn, Exists
    <3> QED
      BY <2>6, <3>1 DEF GoneIn, RefersTo, Linked, Tells, Drops
  <2> QED
    BY <2>5, <2>6
<1>2. AdminInv => HistoryTells
  BY <1>1 DEF HistoryTells
<1> QED
  BY <1>2, AdministrationInvariant, PTL

(* A request to the ledger that is sent again is answered with its entry,  *)
(* one that says something else is refused, and none of them fails, for    *)
(* any number of requests, identifiers and amounts.                        *)
THEOREM AppendsAreAnswered == AdminSpec => []AppendsAnswered
<1>1. AdminInv => AppendsAnswered
  BY DEF AdminInv, Knows, AppendsAnswered
<1> QED
  BY <1>1, AdministrationInvariant, PTL

----------------------------------------------------------------------------
(***************************************************************************)
(* Accounts of those who sign in through a provider.                       *)
(*                                                                         *)
(* A window that comes back with the journey its browser remembers comes   *)
(* back to the browser that began it; who agreed to the journey does not   *)
(* change any more, for only the window that is away on it could ask the   *)
(* provider again; and an identity, once it has an account, keeps it.      *)
(***************************************************************************)

\* A finite sequence, and records with the fields of rows, whatever is in them.
IsList(s) == \E n \in Nat : s = [k \in 1..n |-> s[k]]

IsVisit(v) ==
  v \in [pc : {v.pc}, provider : {v.provider}, state : {v.state}, read : {v.read},
         told : {v.told}, mail : {v.mail}, email : {v.email},
         username : {v.username}, account : {v.account}, page : {v.page}]

IsJourney(j) ==
  /\ j \in [at : {j.at}, provider : {j.provider}, from : {j.from}, who : {j.who},
            used : {j.used}]
  /\ j.at \in Windows /\ j.from \in Places

IsPerson(x) ==
  x \in [email : {x.email}, username : {x.username}, role : {x.role}, status : {x.status}]

Owned    == {"issue", "landing"}
Known    == {"find", "name", "create"} \cup Owned
Returned == {"exchange"} \cup Known

Holds(I, p, a) ==
  \E i \in I : i.provider = p.provider /\ i.subject = p.subject /\ i.user = a

\* What is known of visit v of window w, which is to come back to page g, after
\* the journeys J and with the identities I.
Fits(w, v, J, g, I) ==
  /\ IsVisit(v) /\ v.provider \in SignInProviders /\ v.state \in {0} \cup DOMAIN J
  /\ v.pc # "home" => v.state # 0 /\ v.page = "none"
  /\ v.page # "none" => v.state # 0
  /\ v.pc = "away" => J[v.state].at = w
  /\ v.pc \in Returned \/ v.page # "none" => MachineOf[J[v.state].at] = MachineOf[w]
  /\ v.pc \in Known \/ v.page # "none" => v.told = J[v.state].who
  /\ v.pc \in Owned \/ v.page # "none" => Holds(I, v.told, v.account)
  /\ v.state # 0 /\ J[v.state].at = w =>
       IF v.pc = "home" THEN v.page = J[v.state].from ELSE g = J[v.state].from

\* A journey somebody is away on is nobody else's.
Alone ==
  \A w, u \in Windows :
    visit[w].pc = "away" /\ visit[u].state = visit[w].state => u = w

\* A browser remembers journeys of its own.
Remembered ==
  \A b \in Machines, p \in SignInProviders :
    crumb[b][p] = 0 \/ /\ crumb[b][p] \in DOMAIN journey
                       /\ MachineOf[journey[crumb[b][p]].at] = b

Lists ==
  /\ IsList(journey) /\ \A k \in DOMAIN journey : IsJourney(journey[k])
  /\ IsList(person) /\ \A a \in People : IsPerson(person[a])
  /\ crumb \in [Machines -> [SignInProviders -> Nat]]
  /\ DOMAIN visit = Windows /\ DOMAIN goal = Windows

Accounts ==
  /\ \A i \in identity : i.user \in People
  /\ \A a \in People : person[a].role = "USER" => \E i \in identity : i.user = a
  /\ \A i, j \in identity : i.user = j.user => i = j
  /\ \A i, j \in identity : i.provider = j.provider /\ i.subject = j.subject => i = j
  /\ \A a, b \in People : a # b =>
       person[a].email # person[b].email /\ person[a].username # person[b].username

Visits == \A w \in Windows : Fits(w, visit[w], journey, goal[w], identity)

IdentitiesInv == Lists /\ Visits /\ Alone /\ Remembered /\ Accounts
----------------------------------------------------------------------------
(* Lists, journeys and visits. *)

LEMMA ListAppend ==
  ASSUME NEW s, NEW n \in Nat, s = [k \in 1..n |-> s[k]], NEW e
  PROVE  LET t == Append(s, e)
         IN  /\ t = [k \in 1..(n + 1) |-> t[k]] /\ DOMAIN t = 1..(n + 1)
             /\ t[n + 1] = e /\ \A k \in 1..n : t[k] = s[k]
             /\ Len(s) = n
<1> DEFINE S == {s[k] : k \in 1..n} \cup {e}
<1>1. \A k \in 1..n : s[k] \in S
  OBVIOUS
<1> HIDE DEF S
<1>2. s \in [1..n -> S]
  BY <1>1
<1>3. s \in Seq(S) /\ Len(s) = n
  BY <1>2
<1>4. e \in S
  BY DEF S
<1> DEFINE t == Append(s, e)
<1>5. t \in Seq(S) /\ Len(t) = n + 1 /\ t[n + 1] = e
      /\ \A k \in 1..n : t[k] = s[k]
  BY <1>3, <1>4
<1> HIDE DEF t
<1>6. DOMAIN t = 1..(n + 1) /\ t = [k \in 1..(n + 1) |-> t[k]]
  BY <1>5
<1> QED
  BY <1>3, <1>5, <1>6 DEF t

\* How many journeys have begun.
LEMMA BegunIs ==
  ASSUME NEW n \in Nat, journey = [k \in 1..n |-> journey[k]]
  PROVE  Begun = n /\ DOMAIN journey = 1..n
<1>1. DOMAIN journey = 1..n
  OBVIOUS
<1>2. Cardinality(1..n) = n
  BY FS_Interval
<1> QED
  BY <1>1, <1>2 DEF Begun

\* The same journeys, for those who come back from them.
SameWays(J, K) ==
  /\ DOMAIN K = DOMAIN J
  /\ \A k \in DOMAIN J : K[k].at = J[k].at /\ K[k].from = J[k].from /\ K[k].who = J[k].who

LEMMA FitsLater ==
  ASSUME NEW w, NEW v, NEW J, NEW K, NEW g, NEW I, NEW I2, Fits(w, v, J, g, I),
         DOMAIN J \subseteq DOMAIN K,
         v.state # 0 => /\ K[v.state].at = J[v.state].at
                        /\ K[v.state].from = J[v.state].from
                        /\ K[v.state].who = J[v.state].who,
         \A p, a : Holds(I, p, a) => Holds(I2, p, a)
  PROVE  Fits(w, v, K, g, I2)
<1>1. v.pc \in Owned \/ v.page # "none" => Holds(I2, v.told, v.account)
  BY DEF Fits
<1>2. v.pc \in Returned => v.pc # "home"
  BY DEF Returned, Known, Owned
<1>3. v.pc \in Known => v.pc # "home"
  BY DEF Known, Owned
<1> QED
  BY <1>1, <1>2, <1>3 DEF Fits

\* The visit z of window w takes the place of the one before.
LEMMA VisitReplaced ==
  ASSUME Lists, NEW w \in Windows, NEW z, To(w, z)
  PROVE  /\ DOMAIN visit' = Windows
         /\ \A u \in Windows : visit'[u] = IF u = w THEN z ELSE visit[u]
  BY DEF Lists, To

LEMMA RememberedKept ==
  ASSUME Lists, Remembered, SameWays(journey, journey'), NEW w \in Windows,
         visit[w].provider \in SignInProviders, crumb' = crumb \/ Cleared(w)
  PROVE  crumb' \in [Machines -> [SignInProviders -> Nat]] /\ Remembered'
<1>1. Of(w) \in Machines
  BY IdentitiesAssumption DEF Of
<1>2. crumb' \in [Machines -> [SignInProviders -> Nat]]
  BY <1>1 DEF Lists, Cleared
<1>3. ASSUME NEW b \in Machines, NEW p \in SignInProviders
      PROVE  crumb'[b][p] = crumb[b][p] \/ crumb'[b][p] = 0
  BY <1>1 DEF Lists, Cleared
<1>4. Remembered'
  BY <1>3 DEF Remembered, SameWays
<1> QED
  BY <1>2, <1>4

\* A step of a window that keeps its journey.
LEMMA WindowStep ==
  ASSUME IdentitiesInv, NEW w \in Windows, NEW z, To(w, z), goal' = goal,
         z.state = visit[w].state, z.pc # "away", crumb' = crumb \/ Cleared(w),
         Fits(w, z, journey, goal[w], identity'),
         IsList(journey'), \A k \in DOMAIN journey' : IsJourney(journey'[k]),
         SameWays(journey, journey'),
         IsList(person'), \A a \in DOMAIN person' : IsPerson(person'[a]),
         \A p, a : Holds(identity, p, a) => Holds(identity', p, a), Accounts'
  PROVE  IdentitiesInv'
<1>1. Lists /\ Visits /\ Alone /\ Remembered
  BY DEF IdentitiesInv
<1>2. /\ DOMAIN visit' = Windows
      /\ \A u \in Windows : visit'[u] = IF u = w THEN z ELSE visit[u]
  BY <1>1, VisitReplaced
<1>3. ASSUME NEW u \in Windows PROVE Fits(u, visit'[u], journey', goal'[u], identity')
  <2>1. ASSUME NEW I, Fits(u, visit'[u], journey, goal[u], I),
               \A p, a : Holds(I, p, a) => Holds(identity', p, a)
        PROVE  Fits(u, visit'[u], journey', goal[u], identity')
    <3>1. visit'[u].state \in {0} \cup DOMAIN journey
      BY <2>1 DEF Fits
    <3> QED
      BY <2>1, <3>1, FitsLater DEF SameWays
  <2>2. CASE u = w
    BY <1>2, <2>1, <2>2
  <2>3. CASE u # w
    <3>1. Fits(u, visit'[u], journey, goal[u], identity)
      BY <1>1, <1>2, <2>3 DEF Visits
    <3> QED
      BY <2>1, <3>1
  <2> QED
    BY <2>2, <2>3
<1>4. Alone'
  <2>1. \A u \in Windows : visit'[u].state = visit[u].state
    BY <1>2
  <2>2. \A u \in Windows : visit'[u].pc = "away" => visit[u].pc = "away"
    BY <1>2
  <2> QED
    BY <1>1, <2>1, <2>2 DEF Alone
<1>5. crumb' \in [Machines -> [SignInProviders -> Nat]] /\ Remembered'
  <2>1. visit[w].provider \in SignInProviders
    BY <1>1 DEF Visits, Fits
  <2> QED
    BY <1>1, <2>1, RememberedKept
<1>6. Lists'
  BY <1>1, <1>2, <1>5 DEF Lists, People
<1>7. Visits'
  BY <1>3 DEF Visits
<1> QED
  BY <1>4, <1>5, <1>6, <1>7 DEF IdentitiesInv

LEMMA QuietWindowStep ==
  ASSUME IdentitiesInv, NEW w \in Windows, NEW z, To(w, z),
         UNCHANGED <<goal, journey, person, identity>>,
         z.state = visit[w].state, z.pc # "away", crumb' = crumb \/ Cleared(w),
         Fits(w, z, journey, goal[w], identity)
  PROVE  IdentitiesInv'
<1>1. IsList(journey') /\ \A k \in DOMAIN journey' : IsJourney(journey'[k])
  BY DEF IdentitiesInv, Lists
<1>2. IsList(person') /\ \A a \in DOMAIN person' : IsPerson(person'[a])
  BY DEF IdentitiesInv, Lists, People
<1>3. SameWays(journey, journey')
  BY DEF SameWays
<1>4. Accounts'
  BY DEF IdentitiesInv, Accounts, People
<1> QED
  BY <1>1, <1>2, <1>3, <1>4, WindowStep

----------------------------------------------------------------------------
(* A window at rest but for its journey: it failed, or is back again. *)

RestAt(pc, v) == [Rest EXCEPT !.pc = pc, !.provider = v.provider, !.state = v.state]

LEMMA RestFits ==
  ASSUME NEW w, NEW J, NEW g, NEW I, NEW v, Fits(w, v, J, g, I), v.pc # "home",
         NEW pc, pc \in {"failed", "back"}
  PROVE  /\ Fits(w, RestAt(pc, v), J, g, I)
         /\ RestAt(pc, v).state = v.state /\ RestAt(pc, v).pc = pc
<1> DEFINE z == RestAt(pc, v)
<1>1. /\ IsVisit(z) /\ z.pc = pc /\ z.provider = v.provider /\ z.state = v.state
      /\ z.page = "none"
  BY DEF RestAt, Rest, IsVisit
<1> HIDE DEF z
<1>2. pc \notin Returned /\ pc \notin Known /\ pc \notin Owned /\ pc # "away" /\ pc # "home"
  BY DEF Returned, Known, Owned
<1>3. Fits(w, z, J, g, I)
  BY <1>1, <1>2 DEF Fits
<1> QED
  BY <1>1, <1>3 DEF z

LEMMA FailureKeepsIdentities ==
  ASSUME IdentitiesInv, NEW w \in Windows, SignInFails(w), visit[w].pc # "home",
         UNCHANGED <<goal, person, identity>>,
         IsList(journey'), \A k \in DOMAIN journey' : IsJourney(journey'[k]),
         SameWays(journey, journey')
  PROVE  IdentitiesInv'
<1> DEFINE v == visit[w]
           z == RestAt("failed", v)
<1>1. To(w, z) /\ Cleared(w)
  BY DEF SignInFails, RestAt
<1>2. Fits(w, v, journey, goal[w], identity)
  BY DEF IdentitiesInv, Visits
<1>3. Fits(w, z, journey, goal[w], identity) /\ z.state = v.state /\ z.pc = "failed"
  BY <1>2, RestFits
<1> HIDE DEF z
<1>4. IsList(person') /\ \A a \in DOMAIN person' : IsPerson(person'[a])
  BY DEF IdentitiesInv, Lists, People
<1>5. Accounts'
  BY DEF IdentitiesInv, Accounts, People
<1> QED
  BY <1>1, <1>3, <1>4, <1>5, WindowStep

LEMMA QuietFailure ==
  ASSUME IdentitiesInv, NEW w \in Windows, SignInFails(w), visit[w].pc # "home",
         UNCHANGED <<goal, person, identity, journey>>
  PROVE  IdentitiesInv'
<1>1. IsList(journey') /\ \A k \in DOMAIN journey' : IsJourney(journey'[k])
  BY DEF IdentitiesInv, Lists
<1>2. SameWays(journey, journey')
  BY DEF SameWays
<1> QED
  BY <1>1, <1>2, FailureKeepsIdentities

LEMMA AgainKeeps ==
  ASSUME IdentitiesInv, NEW w \in Windows, Again(w)
  PROVE  IdentitiesInv'
<1> DEFINE v == visit[w]
           z == RestAt("back", v)
<1>1. /\ To(w, z) /\ v.pc = "failed"
      /\ UNCHANGED <<goal, journey, person, identity, crumb>>
  BY DEF Again, RestAt
<1>2. Fits(w, v, journey, goal[w], identity)
  BY DEF IdentitiesInv, Visits
<1>3. Fits(w, z, journey, goal[w], identity) /\ z.state = v.state /\ z.pc = "back"
  BY <1>1, <1>2, RestFits
<1> HIDE DEF z
<1> QED
  BY <1>1, <1>3, QuietWindowStep

\* The cookies of the request are those of the journey: its browser began it.
LEMMA CallbackKeeps ==
  ASSUME IdentitiesInv, NEW w \in Windows, Callback(w)
  PROVE  IdentitiesInv'
<1> DEFINE v == visit[w]
           r == crumb[Of(w)][v.provider]
           z == [v EXCEPT !.pc = "exchange", !.read = r]
<1>1. v.pc = "back" /\ UNCHANGED <<journey, goal, person, identity>>
  BY DEF Callback
<1>2. Fits(w, v, journey, goal[w], identity)
  BY DEF IdentitiesInv, Visits
<1>3. CASE MatchesState(w)
  <2>1. To(w, z) /\ crumb' = crumb
    BY <1>3 DEF Callback
  <2>2. v.state # 0 /\ v.provider \in SignInProviders /\ Of(w) \in Machines
    BY <1>1, <1>2, IdentitiesAssumption DEF Fits, Of
  <2>3. r = v.state
    BY <1>3 DEF MatchesState
  <2>4. MachineOf[journey[v.state].at] = MachineOf[w]
    BY <2>2, <2>3 DEF IdentitiesInv, Remembered, Of
  <2>5. IsVisit(v)
    BY <1>2 DEF Fits
  <2> HIDE DEF v, r
  <2>6. /\ IsVisit(z) /\ z.pc = "exchange" /\ z.provider = v.provider
        /\ z.state = v.state /\ z.page = v.page
    BY <2>5 DEF IsVisit
  <2> HIDE DEF z
  <2>7. Fits(w, z, journey, goal[w], identity)
    BY <1>1, <1>2, <2>2, <2>4, <2>6 DEF Fits, Known, Owned
  <2> QED
    BY <1>1, <2>1, <2>6, <2>7, QuietWindowStep DEF v
<1>4. CASE ~MatchesState(w)
  <2>1. SignInFails(w)
    BY <1>4 DEF Callback
  <2> QED
    BY <1>1, <2>1, QuietFailure
<1> QED
  BY <1>3, <1>4

\* The code is spent, and the provider tells who agreed.
LEMMA ExchangeKeeps ==
  ASSUME IdentitiesInv, NEW w \in Windows, Exchange(w)
  PROVE  IdentitiesInv'
<1> DEFINE v == visit[w]
           n == v.state
           q == journey[n].who
           z == [v EXCEPT !.pc = "find", !.told = q, !.mail = ProviderEmail(q)]
<1>1. v.pc = "exchange" /\ journey' = [journey EXCEPT ![n].used = TRUE]
      /\ UNCHANGED <<goal, person, identity>>
  BY DEF Exchange
<1>2. Fits(w, v, journey, goal[w], identity)
  BY DEF IdentitiesInv, Visits
<1>3. n \in DOMAIN journey /\ n # 0 /\ IsVisit(v)
      /\ MachineOf[journey[n].at] = MachineOf[w]
  BY <1>1, <1>2 DEF Fits, Returned
<1>4. PICK m \in Nat : journey = [k \in 1..m |-> journey[k]]
  BY DEF IdentitiesInv, Lists, IsList
<1>5. \A k \in DOMAIN journey : IsJourney(journey[k])
  BY DEF IdentitiesInv, Lists
<1> HIDE DEF n
<1>6. /\ DOMAIN journey' = DOMAIN journey
      /\ \A k \in DOMAIN journey :
           journey'[k] = IF k = n THEN [journey[n] EXCEPT !.used = TRUE] ELSE journey[k]
  BY <1>1
<1>7. LET j == [journey[n] EXCEPT !.used = TRUE]
      IN  /\ IsJourney(j) /\ j.at = journey[n].at /\ j.from = journey[n].from
          /\ j.who = journey[n].who
  BY <1>3, <1>5 DEF IsJourney
<1>8. SameWays(journey, journey') /\ \A k \in DOMAIN journey' : IsJourney(journey'[k])
  BY <1>5, <1>6, <1>7 DEF SameWays
<1>9. IsList(journey')
  BY <1>1, <1>4, <1>6 DEF IsList
<1>10. CASE SignInFails(w)
  BY <1>1, <1>8, <1>9, <1>10, FailureKeepsIdentities
<1>11. CASE To(w, z) /\ crumb' = crumb
  <2>1. IsList(person') /\ \A a \in DOMAIN person' : IsPerson(person'[a])
    BY <1>1 DEF IdentitiesInv, Lists, People
  <2>2. Accounts'
    BY <1>1 DEF IdentitiesInv, Accounts, People
  <2> DEFINE e == ProviderEmail(q)
             y == [v EXCEPT !.pc = "find", !.told = q, !.mail = e]
  <2>3. To(w, y)
    BY <1>11
  <2> HIDE DEF v, q, e
  <2>4. /\ IsVisit(y) /\ y.pc = "find" /\ y.provider = v.provider /\ y.told = q
        /\ y.state = v.state /\ y.page = v.page
    BY <1>3 DEF IsVisit
  <2> HIDE DEF y
  <2>5. Fits(w, y, journey, goal[w], identity)
    BY <1>1, <1>2, <1>3, <2>4 DEF Fits, Returned, Known, Owned, n, q
  <2> QED
    BY <1>1, <1>8, <1>9, <1>11, <2>1, <2>2, <2>3, <2>4, <2>5, WindowStep DEF v
<1> QED
  BY <1>10, <1>11 DEF Exchange, n

LEMMA ExchangeFailsKeeps ==
  ASSUME IdentitiesInv, NEW w \in Windows, ExchangeFails(w)
  PROVE  IdentitiesInv'
  BY QuietFailure DEF ExchangeFails

----------------------------------------------------------------------------
(* The account of the identity. *)

LEMMA PeopleKept ==
  ASSUME IdentitiesInv, person' = person
  PROVE  IsList(person') /\ \A a \in DOMAIN person' : IsPerson(person'[a])
  BY DEF IdentitiesInv, Lists, People

\* The identity with whom somebody comes back has an account.
LEMMA FindKeeps ==
  ASSUME IdentitiesInv, NEW w \in Windows, Find(w)
  PROVE  IdentitiesInv'
<1> DEFINE v == visit[w]
           p == v.told
<1>1. v.pc = "find" /\ UNCHANGED <<journey, goal, person>>
  BY DEF Find
<1>2. Fits(w, v, journey, goal[w], identity)
  BY DEF IdentitiesInv, Visits
<1>3. IsVisit(v) /\ v.page = "none" /\ v.state # 0 /\ v.pc \in Known
  BY <1>1, <1>2 DEF Fits, Known
<1>4. CASE SignInFails(w) /\ identity' = identity
  BY <1>1, <1>4, QuietFailure
<1>5. CASE To(w, [v EXCEPT !.pc = "name"]) /\ UNCHANGED <<crumb, identity>>
  <2> DEFINE z == [v EXCEPT !.pc = "name"]
  <2>1. To(w, z)
    BY <1>5
  <2> HIDE DEF v
  <2>2. /\ IsVisit(z) /\ z.pc = "name" /\ z.provider = v.provider /\ z.told = v.told
        /\ z.state = v.state /\ z.page = v.page /\ z.account = v.account
    BY <1>3 DEF IsVisit
  <2> HIDE DEF z
  <2>3. Fits(w, z, journey, goal[w], identity)
    BY <1>1, <1>2, <1>3, <2>2 DEF Fits, Returned, Known, Owned
  <2> QED
    BY <1>1, <1>5, <2>1, <2>2, <2>3, QuietWindowStep DEF v
<1>6. ASSUME NEW i \in identity, i.provider = p.provider, i.subject = p.subject,
             identity' = (identity \ {i}) \cup {Identity(p, i.user, v.mail)},
             To(w, [v EXCEPT !.pc = "issue", !.account = i.user]), crumb' = crumb
      PROVE  IdentitiesInv'
  <2> DEFINE a == i.user
             j == Identity(p, a, v.mail)
             z == [v EXCEPT !.pc = "issue", !.account = a]
  <2>1. To(w, z) /\ identity' = (identity \ {i}) \cup {j}
    BY <1>6
  <2>2. j.provider = i.provider /\ j.subject = i.subject /\ j.user = a
    BY <1>6 DEF Identity
  <2> HIDE DEF v, p, a, j
  <2>3. /\ IsVisit(z) /\ z.pc = "issue" /\ z.provider = v.provider /\ z.told = v.told
        /\ z.state = v.state /\ z.page = v.page /\ z.account = a
    BY <1>3 DEF IsVisit
  <2> HIDE DEF z
  <2>4. \A q, b : Holds(identity, q, b) => Holds(identity', q, b)
    BY <2>1, <2>2 DEF Holds, a
  <2>5. Holds(identity', p, a)
    BY <1>6, <2>1, <2>2 DEF Holds
  <2>6. Fits(w, z, journey, goal[w], identity')
    <3>1. Fits(w, v, journey, goal[w], identity')
      <4>1. v.state \in {0} \cup DOMAIN journey
        BY <1>2 DEF Fits
      <4> QED
        BY <1>2, <2>4, FitsLater
    <3> QED
      BY <1>1, <1>3, <2>3, <2>5, <3>1 DEF Fits, Returned, Known, Owned, p
  <2>7. Accounts'
    <3> DEFINE K == identity'
    <3>1. \A k \in K : \E h \in identity : /\ h.provider = k.provider
                                           /\ h.subject = k.subject /\ h.user = k.user
                                           /\ h = i <=> k = j
      BY <1>6, <2>1, <2>2 DEF a, IdentitiesInv, Accounts
    <3>2. \A h \in identity : \E k \in K : h.user = k.user
      BY <2>1, <2>2 DEF a
    <3>3. Accounts
      BY DEF IdentitiesInv
    <3>4. \A k \in K : k.user \in People
      BY <3>1, <3>3 DEF Accounts
    <3>5. \A b \in People : person[b].role = "USER" => \E k \in K : k.user = b
      BY <3>2, <3>3 DEF Accounts
    <3>6. \A k, l \in K : k.user = l.user => k = l
      BY <2>1, <2>2, <3>1, <3>3, <1>6 DEF Accounts, a
    <3>7. \A k, l \in K : k.provider = l.provider /\ k.subject = l.subject => k = l
      BY <2>1, <2>2, <3>1, <3>3, <1>6 DEF Accounts
    <3> QED
      BY <1>1, <3>3, <3>4, <3>5, <3>6, <3>7 DEF Accounts, People
  <2>8. IsList(journey') /\ (\A k \in DOMAIN journey' : IsJourney(journey'[k]))
        /\ SameWays(journey, journey')
    BY <1>1 DEF IdentitiesInv, Lists, SameWays
  <2> QED
    BY <1>1, <1>6, <2>1, <2>3, <2>4, <2>6, <2>7, <2>8, PeopleKept, WindowStep DEF v
<1> QED
  BY <1>1, <1>4, <1>5, <1>6 DEF Find, Same

LEMMA ChooseNamesKeeps ==
  ASSUME IdentitiesInv, NEW w \in Windows, ChooseNames(w)
  PROVE  IdentitiesInv'
<1> DEFINE v == visit[w]
           e == AccountEmail(v.told, v.mail)
           s == UniqueUsername(v.told)
           z == [v EXCEPT !.pc = "create", !.email = e, !.username = s]
<1>1. /\ v.pc = "name" /\ To(w, z)
      /\ UNCHANGED <<journey, crumb, goal, person, identity>>
  BY DEF ChooseNames
<1>2. Fits(w, v, journey, goal[w], identity)
  BY DEF IdentitiesInv, Visits
<1>3. IsVisit(v) /\ v.page = "none" /\ v.state # 0 /\ v.pc \in Known
  BY <1>1, <1>2 DEF Fits, Known
<1> HIDE DEF v, e, s
<1>4. /\ IsVisit(z) /\ z.pc = "create" /\ z.provider = v.provider /\ z.told = v.told
      /\ z.state = v.state /\ z.page = v.page /\ z.account = v.account
  BY <1>3 DEF IsVisit
<1> HIDE DEF z
<1>5. Fits(w, z, journey, goal[w], identity)
  BY <1>1, <1>2, <1>3, <1>4 DEF Fits, Returned, Known, Owned
<1> QED
  BY <1>1, <1>4, <1>5, QuietWindowStep DEF v

\* Both rows, with an address and a name that nobody has.
LEMMA AccountsGrow ==
  ASSUME Accounts, NEW n \in Nat, person = [k \in 1..n |-> person[k]],
         NEW x, IsPerson(x), person' = Append(person, x), x.role = "USER",
         ~MailTaken(x.email), ~NameTaken(x.username),
         NEW j, j.user = n + 1, identity' = identity \cup {j},
         \A i \in identity : ~(i.provider = j.provider /\ i.subject = j.subject)
  PROVE  Accounts'
<1>1. /\ DOMAIN person' = 1..(n + 1) /\ People = 1..n
      /\ person'[n + 1] = x /\ \A k \in 1..n : person'[k] = person[k]
  BY ListAppend DEF People
<1>2. n + 1 \notin 1..n /\ \A k \in 1..(n + 1) : k = n + 1 \/ k \in 1..n
  OBVIOUS
<1>3. \A i \in identity : i.user \in 1..n /\ i.user # n + 1
  BY <1>1, <1>2 DEF Accounts
<1>4. \A i \in identity' : i.user \in DOMAIN person'
  BY <1>1, <1>3
<1>5. \A a \in DOMAIN person' : person'[a].role = "USER" => \E i \in identity' : i.user = a
  BY <1>1, <1>2 DEF Accounts
<1>6. \A i, k \in identity' : i.user = k.user => i = k
  BY <1>3 DEF Accounts
<1>7. \A i, k \in identity' : i.provider = k.provider /\ i.subject = k.subject => i = k
  BY DEF Accounts
<1>8. \A a \in 1..n : person[a].email # x.email /\ person[a].username # x.username
  BY <1>1 DEF MailTaken, NameTaken
<1>9. \A a, b \in DOMAIN person' : a # b =>
        person'[a].email # person'[b].email /\ person'[a].username # person'[b].username
  BY <1>1, <1>2, <1>8 DEF Accounts
<1> QED
  BY <1>4, <1>5, <1>6, <1>7, <1>9 DEF Accounts, People

LEMMA CreateAccountKeeps ==
  ASSUME IdentitiesInv, NEW w \in Windows, CreateAccount(w)
  PROVE  IdentitiesInv'
<1> DEFINE v == visit[w]
           a == Len(person) + 1
           x == Person(v.email, v.username, "USER")
           j == Identity(v.told, a, v.mail)
           z == [v EXCEPT !.pc = "issue", !.account = a]
<1>1. v.pc = "create" /\ UNCHANGED <<journey, goal>>
  BY DEF CreateAccount
<1>2. Fits(w, v, journey, goal[w], identity)
  BY DEF IdentitiesInv, Visits
<1>3. IsVisit(v) /\ v.page = "none" /\ v.state # 0 /\ v.pc \in Known
  BY <1>1, <1>2 DEF Fits, Known
<1>4. CASE SignInFails(w) /\ UNCHANGED <<person, identity>>
  BY <1>1, <1>4, QuietFailure
<1>5. CASE /\ ~MailTaken(v.email) /\ ~NameTaken(v.username) /\ Same(v.told) = {}
           /\ person' = Append(person, x) /\ identity' = identity \cup {j}
           /\ To(w, z) /\ crumb' = crumb
  <2>1. PICK n \in Nat : person = [k \in 1..n |-> person[k]]
    BY DEF IdentitiesInv, Lists, IsList
  <2>2. /\ person' = [k \in 1..(n + 1) |-> person'[k]] /\ DOMAIN person' = 1..(n + 1)
        /\ person'[n + 1] = x /\ \A k \in 1..n : person'[k] = person[k]
        /\ Len(person) = n
    BY <1>5, <2>1, ListAppend
  <2>3. a = n + 1
    BY <2>2
  <2>4. /\ IsPerson(x) /\ x.email = v.email /\ x.username = v.username
        /\ x.role = "USER"
    BY DEF Person, IsPerson
  <2>5. j.provider = v.told.provider /\ j.subject = v.told.subject /\ j.user = a
    BY DEF Identity
  <2> HIDE DEF v, a, x, j
  <2>6. /\ IsVisit(z) /\ z.pc = "issue" /\ z.provider = v.provider /\ z.told = v.told
        /\ z.state = v.state /\ z.page = v.page /\ z.account = a
    BY <1>3 DEF IsVisit
  <2> HIDE DEF z
  <2>7. Accounts'
    <3>1. \A i \in identity : ~(i.provider = j.provider /\ i.subject = j.subject)
      BY <1>5, <2>5 DEF Same
    <3> QED
      BY <1>5, <2>1, <2>3, <2>4, <2>5, <3>1, AccountsGrow DEF IdentitiesInv
  <2>8. IsList(person') /\ \A k \in DOMAIN person' : IsPerson(person'[k])
    <3>1. IsList(person')
      BY <2>2 DEF IsList
    <3>2. \A k \in 1..n : IsPerson(person[k])
      BY <2>1 DEF IdentitiesInv, Lists, People
    <3>3. \A k \in 1..(n + 1) : k = n + 1 \/ k \in 1..n
      OBVIOUS
    <3> QED
      BY <2>2, <2>4, <3>1, <3>2, <3>3
  <2>9. \A q, b : Holds(identity, q, b) => Holds(identity', q, b)
    BY <1>5 DEF Holds
  <2>10. Fits(w, z, journey, goal[w], identity')
    <3>1. Holds(identity', v.told, a)
      BY <1>5, <2>5 DEF Holds
    <3>2. Fits(w, v, journey, goal[w], identity')
      <4>1. v.state \in {0} \cup DOMAIN journey
        BY <1>2 DEF Fits
      <4> QED
        BY <1>2, <2>9, FitsLater
    <3> QED
      BY <1>1, <1>3, <2>6, <3>1, <3>2 DEF Fits, Returned, Known, Owned
  <2>11. IsList(journey') /\ (\A k \in DOMAIN journey' : IsJourney(journey'[k]))
         /\ SameWays(journey, journey')
    BY <1>1 DEF IdentitiesInv, Lists, SameWays
  <2> QED
    BY <1>1, <1>5, <2>6, <2>7, <2>8, <2>9, <2>10, <2>11, WindowStep DEF v
<1> QED
  BY <1>4, <1>5 DEF CreateAccount

LEMMA SignInKeeps ==
  ASSUME IdentitiesInv, NEW w \in Windows, SignIn(w)
  PROVE  IdentitiesInv'
<1> DEFINE v == visit[w]
           z == [v EXCEPT !.pc = "landing"]
<1>1. v.pc = "issue" /\ UNCHANGED <<journey, goal, person, identity>>
  BY DEF SignIn
<1>2. Fits(w, v, journey, goal[w], identity)
  BY DEF IdentitiesInv, Visits
<1>3. IsVisit(v) /\ v.page = "none" /\ v.state # 0 /\ v.pc \in Owned
  BY <1>1, <1>2 DEF Fits, Owned
<1>4. CASE SignInFails(w)
  BY <1>1, <1>4, QuietFailure
<1>5. CASE To(w, z) /\ Cleared(w)
  <2> HIDE DEF v
  <2>1. /\ IsVisit(z) /\ z.pc = "landing" /\ z.provider = v.provider /\ z.told = v.told
        /\ z.state = v.state /\ z.page = v.page /\ z.account = v.account
    BY <1>3 DEF IsVisit
  <2> HIDE DEF z
  <2>2. Fits(w, z, journey, goal[w], identity)
    BY <1>1, <1>2, <1>3, <2>1 DEF Fits, Returned, Known, Owned
  <2> QED
    BY <1>1, <1>5, <2>1, <2>2, QuietWindowStep DEF v
<1> QED
  BY <1>4, <1>5 DEF SignIn

----------------------------------------------------------------------------
(* Where a journey begins and ends, and what happens beside it. *)

\* The page to come back to is forgotten; it was that of the journey.
LEMMA LandKeeps ==
  ASSUME IdentitiesInv, NEW w \in Windows, Land(w)
  PROVE  IdentitiesInv'
<1> DEFINE v == visit[w]
           g == goal[w]
           t == IF g = "none" THEN "chat" ELSE g
           z == [v EXCEPT !.pc = "home", !.page = t]
<1>1. /\ v.pc = "landing" /\ To(w, z) /\ goal' = [goal EXCEPT ![w] = "none"]
      /\ UNCHANGED <<journey, crumb, person, identity>>
  BY DEF Land
<1>2. Fits(w, v, journey, g, identity) /\ Lists
  BY DEF IdentitiesInv, Visits
<1>3. IsVisit(v) /\ v.state # 0 /\ v.state \in DOMAIN journey
  BY <1>1, <1>2 DEF Fits
<1>4. journey[v.state].from \in Places
  BY <1>2, <1>3 DEF Lists, IsJourney
<1>5. t # "none" /\ (g \in Places => t = g)
  BY IdentitiesAssumption
<1> HIDE DEF v, g, t
<1>6. /\ IsVisit(z) /\ z.pc = "home" /\ z.provider = v.provider /\ z.told = v.told
      /\ z.state = v.state /\ z.page = t /\ z.account = v.account
  BY <1>3 DEF IsVisit
<1> HIDE DEF z
<1>7. Fits(w, z, journey, "none", identity)
  <2>1. journey[v.state].at = w => t = journey[v.state].from
    BY <1>1, <1>2, <1>3, <1>4, <1>5 DEF Fits
  <2>2. /\ MachineOf[journey[v.state].at] = MachineOf[w] /\ v.told = journey[v.state].who
        /\ Holds(identity, v.told, v.account)
    BY <1>1, <1>2 DEF Fits, Returned, Known, Owned
  <2> QED
    BY <1>2, <1>3, <1>6, <2>1, <2>2 DEF Fits, Returned, Known, Owned
<1>8. /\ DOMAIN visit' = Windows
      /\ \A u \in Windows : visit'[u] = IF u = w THEN z ELSE visit[u]
  BY <1>1, <1>2, VisitReplaced
<1>9. \A u \in Windows : goal'[u] = IF u = w THEN "none" ELSE goal[u]
  BY <1>1, <1>2 DEF Lists
<1>10. ASSUME NEW u \in Windows PROVE Fits(u, visit'[u], journey', goal'[u], identity')
  BY <1>1, <1>7, <1>8, <1>9 DEF IdentitiesInv, Visits
<1>11. Visits'
  BY <1>10 DEF Visits
<1>12. Lists' /\ Remembered' /\ Accounts'
  BY <1>1, <1>8 DEF IdentitiesInv, Lists, Remembered, Accounts, People
<1>13. Alone'
  <2>1. \A u \in Windows : visit'[u].state = visit[u].state
    BY <1>6, <1>8 DEF v
  <2>2. \A u \in Windows : visit'[u].pc = "away" => visit[u].pc = "away"
    BY <1>6, <1>8
  <2> QED
    BY <2>1, <2>2 DEF IdentitiesInv, Alone
<1> QED
  BY <1>11, <1>12, <1>13 DEF IdentitiesInv

\* A new journey, which nobody else is on.
LEMMA BeginJourneyKeeps ==
  ASSUME IdentitiesInv, NEW w \in Windows, NEW p \in SignInProviders,
         NEW page \in Places, BeginJourney(w, p, page)
  PROVE  IdentitiesInv'
<1> DEFINE j == [at |-> w, provider |-> p, from |-> page, who |-> NoProfile,
                 used |-> FALSE]
<1>1. Lists /\ Visits /\ Alone /\ Remembered /\ Accounts
  BY DEF IdentitiesInv
<1>2. PICK n \in Nat : journey = [k \in 1..n |-> journey[k]]
  BY <1>1 DEF Lists, IsList
<1>3. Begun = n /\ DOMAIN journey = 1..n
  BY <1>2, BegunIs
<1> DEFINE z == [Rest EXCEPT !.pc = "away", !.provider = p, !.state = n + 1]
<1>4. /\ journey' = Append(journey, j) /\ To(w, z)
      /\ crumb' = [crumb EXCEPT ![Of(w)][p] = n + 1]
      /\ goal' = [goal EXCEPT ![w] = page] /\ UNCHANGED <<person, identity>>
  BY <1>3 DEF BeginJourney, LeavesFor, Keeps, Remember
<1>5. IsJourney(j) /\ j.at = w /\ j.from = page
  BY DEF IsJourney
<1>6. /\ IsVisit(z) /\ z.pc = "away" /\ z.provider = p /\ z.state = n + 1
      /\ z.page = "none"
  BY DEF Rest, IsVisit
<1> HIDE DEF j, z
<1>7. /\ journey' = [k \in 1..(n + 1) |-> journey'[k]] /\ DOMAIN journey' = 1..(n + 1)
      /\ journey'[n + 1] = j /\ \A k \in 1..n : journey'[k] = journey[k]
  BY <1>2, <1>4, ListAppend
<1>8. n + 1 # 0 /\ n + 1 \notin {0} \cup 1..n /\ \A k \in 1..(n + 1) : k = n + 1 \/ k \in 1..n
  OBVIOUS
<1>9. /\ DOMAIN visit' = Windows
      /\ \A u \in Windows : visit'[u] = IF u = w THEN z ELSE visit[u]
  BY <1>1, <1>4, VisitReplaced
<1>10. DOMAIN goal' = Windows /\ \A u \in Windows : goal'[u] = IF u = w THEN page ELSE goal[u]
  BY <1>1, <1>4 DEF Lists
<1>11. Fits(w, z, journey', page, identity)
  BY <1>5, <1>6, <1>7, <1>8 DEF Fits, Returned, Known, Owned
<1>12. ASSUME NEW u \in Windows, u # w
       PROVE  Fits(u, visit[u], journey', goal[u], identity)
  <2>1. Fits(u, visit[u], journey, goal[u], identity)
    BY <1>1 DEF Visits
  <2>2. visit[u].state \in {0} \cup 1..n
    BY <1>3, <2>1 DEF Fits
  <2>3. DOMAIN journey \subseteq DOMAIN journey'
    BY <1>3, <1>7
  <2> QED
    BY <1>7, <2>1, <2>2, <2>3, FitsLater
<1>13. Visits'
  BY <1>4, <1>9, <1>10, <1>11, <1>12 DEF Visits
<1>14. Alone'
  <2>1. \A u \in Windows : visit[u].state # n + 1
    BY <1>1, <1>3, <1>8 DEF Visits, Fits
  <2> QED
    BY <1>1, <1>6, <1>9, <2>1 DEF Alone
<1>15. Of(w) \in Machines
  BY IdentitiesAssumption DEF Of
<1>16. crumb' \in [Machines -> [SignInProviders -> Nat]]
  BY <1>1, <1>4, <1>15 DEF Lists
<1>17. ASSUME NEW b \in Machines, NEW q \in SignInProviders
       PROVE  \/ crumb'[b][q] = crumb[b][q]
              \/ crumb'[b][q] = n + 1 /\ b = Of(w)
  BY <1>1, <1>4, <1>15 DEF Lists
<1>18. Remembered'
  <2>1. \A k \in 1..n : k \in DOMAIN journey' /\ journey'[k].at = journey[k].at
    BY <1>7
  <2>2. n + 1 \in DOMAIN journey' /\ journey'[n + 1].at = w
    BY <1>5, <1>7
  <2> QED
    BY <1>1, <1>3, <1>17, <2>1, <2>2 DEF Remembered, Of
<1>19. Lists'
  <2>1. IsList(journey')
    BY <1>7 DEF IsList
  <2>2. \A k \in DOMAIN journey' : IsJourney(journey'[k])
    BY <1>1, <1>3, <1>5, <1>7, <1>8 DEF Lists
  <2> QED
    BY <1>1, <1>4, <1>9, <1>10, <1>16, <2>1, <2>2 DEF Lists, People
<1>20. Accounts'
  BY <1>1, <1>4 DEF Accounts, People
<1> QED
  BY <1>13, <1>14, <1>18, <1>19, <1>20 DEF IdentitiesInv

\* Only who is away on a journey can change who agreed to it.
LEMMA AgreeKeeps ==
  ASSUME IdentitiesInv, NEW w \in Windows, NEW p \in Profiles, NEW x \in Windows,
         Agree(w, p, x)
  PROVE  IdentitiesInv'
<1>1. Lists /\ Visits /\ Alone /\ Remembered /\ Accounts
  BY DEF IdentitiesInv
<1>2. PICK n : n = visit[w].state
  OBVIOUS
<1> DEFINE z == [Rest EXCEPT !.pc = "back", !.provider = p.provider, !.state = n]
           j == [journey[n] EXCEPT !.who = p]
<1>3. /\ visit[w].pc = "away"
      /\ (x = w \/ visit[x].pc = "home")
      /\ journey' = [journey EXCEPT ![n].who = p]
      /\ UNCHANGED <<crumb, goal, person, identity>>
  BY <1>2 DEF Agree
<1>4. visit' = [u \in Windows |-> IF u = x THEN z ELSE IF u = w THEN Rest ELSE visit[u]]
  BY <1>2 DEF Agree
<1>5. Fits(w, visit[w], journey, goal[w], identity)
  BY <1>1 DEF Visits
<1>6. n # 0 /\ n \in DOMAIN journey /\ journey[n].at = w
  BY <1>2, <1>3, <1>5 DEF Fits
<1>7. /\ IsVisit(z) /\ z.pc = "back" /\ z.provider = p.provider /\ z.state = n
      /\ z.page = "none"
  BY DEF Rest, IsVisit
<1>8. /\ IsVisit(Rest) /\ Rest.pc = "home" /\ Rest.provider = "google"
      /\ Rest.state = 0 /\ Rest.page = "none"
  BY DEF Rest, IsVisit
<1>9. IsJourney(journey[n])
  BY <1>1, <1>6 DEF Lists
<1>10. IsJourney(j) /\ j.at = journey[n].at /\ j.from = journey[n].from
  BY <1>9 DEF IsJourney
<1>11. /\ DOMAIN journey' = DOMAIN journey
       /\ \A k \in DOMAIN journey : journey'[k] = IF k = n THEN j ELSE journey[k]
  BY <1>3
<1> HIDE DEF z, j
<1>12. DOMAIN visit' = Windows
       /\ \A u \in Windows : visit'[u] = IF u = x THEN z
                                         ELSE IF u = w THEN Rest ELSE visit[u]
  BY <1>4
<1>13. p.provider \in SignInProviders /\ "google" \in SignInProviders
  BY IdentitiesAssumption DEF SignInProviders
<1>14. ASSUME NEW g PROVE Fits(w, Rest, journey', g, identity)
  BY <1>8, <1>13 DEF Fits, Returned, Known, Owned
<1>15. Fits(x, z, journey', goal[x], identity)
  <2>1. journey'[n].at = w /\ journey'[n].from = journey[n].from /\ n \in DOMAIN journey'
    BY <1>6, <1>10, <1>11
  <2>2. x = w => goal[x] = journey[n].from
    BY <1>2, <1>3, <1>5, <1>6 DEF Fits
  <2> QED
    BY <1>6, <1>7, <1>13, <2>1, <2>2 DEF Fits, Returned, Known, Owned
<1>16. ASSUME NEW u \in Windows, u # w
       PROVE  Fits(u, visit[u], journey', goal[u], identity) /\ visit[u].state # n
  <2>1. Fits(u, visit[u], journey, goal[u], identity)
    BY <1>1 DEF Visits
  <2>2. visit[u].state # n
    BY <1>1, <1>2, <1>3, <1>16 DEF Alone
  <2>3. visit[u].state \in {0} \cup DOMAIN journey
    BY <2>1 DEF Fits
  <2> QED
    BY <1>11, <2>1, <2>2, <2>3, FitsLater
<1>17. Visits'
  BY <1>3, <1>12, <1>14, <1>15, <1>16 DEF Visits
<1>18. Alone'
  <2>1. \A u \in Windows : visit'[u].pc = "away" => u # x /\ u # w /\ visit[u].pc = "away"
    BY <1>7, <1>8, <1>12
  <2>2. ASSUME NEW u \in Windows, NEW t \in Windows, visit'[u].pc = "away",
               visit'[t].state = visit'[u].state
        PROVE  t = u
    <3>1. visit'[u] = visit[u] /\ visit[u].state # 0 /\ visit[u].state # n
      BY <1>12, <1>16, <2>1, <2>2 DEF Fits
    <3>2. t # x /\ t # w
      BY <1>7, <1>8, <1>12, <2>2, <3>1
    <3> QED
      BY <1>1, <1>12, <2>1, <2>2, <3>1, <3>2 DEF Alone
  <2> QED
    BY <2>2 DEF Alone
<1>19. Remembered'
  BY <1>1, <1>3, <1>6, <1>10, <1>11 DEF Remembered
<1>20. Lists'
  <2>1. PICK m \in Nat : journey = [k \in 1..m |-> journey[k]]
    BY <1>1 DEF Lists, IsList
  <2>2. journey' = [k \in 1..m |-> journey'[k]]
    BY <1>3, <2>1
  <2>3. IsList(journey')
    BY <2>2 DEF IsList
  <2>4. \A k \in DOMAIN journey' : IsJourney(journey'[k])
    BY <1>1, <1>10, <1>11 DEF Lists
  <2> QED
    BY <1>1, <1>3, <1>12, <2>3, <2>4 DEF Lists, People
<1>21. Accounts'
  BY <1>1, <1>3 DEF Accounts, People
<1> QED
  BY <1>17, <1>18, <1>19, <1>20, <1>21 DEF IdentitiesInv

LEMMA ForgetKeeps ==
  ASSUME IdentitiesInv, NEW b \in Machines, NEW p \in SignInProviders, Forget(b, p)
  PROVE  IdentitiesInv'
<1>1. /\ crumb' = [crumb EXCEPT ![b][p] = 0]
      /\ UNCHANGED <<journey, visit, goal, person, identity>>
  BY DEF Forget
<1>2. crumb \in [Machines -> [SignInProviders -> Nat]]
  BY DEF IdentitiesInv, Lists
<1>3. crumb' \in [Machines -> [SignInProviders -> Nat]]
  BY <1>1, <1>2
<1>4. \A c \in Machines, q \in SignInProviders :
        crumb'[c][q] = crumb[c][q] \/ crumb'[c][q] = 0
  BY <1>1, <1>2
<1>5. Remembered'
  BY <1>1, <1>4 DEF IdentitiesInv, Remembered
<1>6. Lists' /\ Visits' /\ Alone' /\ Accounts'
  BY <1>1, <1>3 DEF IdentitiesInv, Lists, Visits, Alone, Accounts, People
<1> QED
  BY <1>5, <1>6 DEF IdentitiesInv

LEMMA ChangeKeeps ==
  ASSUME IdentitiesInv, Change
  PROVE  IdentitiesInv'
<1>1. UNCHANGED <<journey, crumb, visit, goal, identity>>
  BY DEF Change
<1>2. Visits' /\ Alone' /\ Remembered'
  BY <1>1 DEF IdentitiesInv, Visits, Alone, Remembered
<1>3. CASE person' = person
  BY <1>1, <1>2, <1>3 DEF IdentitiesInv, Lists, Accounts, People
<1>4. ASSUME NEW a \in People, person' = [person EXCEPT ![a].status = "SUSPENDED"]
      PROVE  IdentitiesInv'
  <2> DEFINE x == [person[a] EXCEPT !.status = "SUSPENDED"]
  <2>1. IsPerson(person[a])
    BY DEF IdentitiesInv, Lists
  <2>2. /\ IsPerson(x) /\ x.email = person[a].email
        /\ x.username = person[a].username /\ x.role = person[a].role
    BY <2>1 DEF IsPerson
  <2>3. /\ DOMAIN person' = People
        /\ \A b \in People : person'[b] = IF b = a THEN x ELSE person[b]
    BY <1>4 DEF People
  <2> HIDE DEF x
  <2>4. PICK n \in Nat : person = [k \in 1..n |-> person[k]]
    BY DEF IdentitiesInv, Lists, IsList
  <2>5. person' = [k \in 1..n |-> person'[k]]
    BY <1>4, <2>4
  <2>6. IsList(person')
    BY <2>5 DEF IsList
  <2>7. \A b \in People : IsPerson(person'[b])
    BY <2>2, <2>3 DEF IdentitiesInv, Lists
  <2>8. Lists'
    BY <1>1, <2>3, <2>6, <2>7 DEF IdentitiesInv, Lists, People
  <2>9. \A b \in People : /\ person'[b].email = person[b].email
                          /\ person'[b].username = person[b].username
                          /\ person'[b].role = person[b].role
    BY <2>2, <2>3
  <2>10. Accounts'
    BY <1>1, <2>3, <2>9 DEF IdentitiesInv, Accounts, People
  <2> QED
    BY <1>2, <2>8, <2>10 DEF IdentitiesInv
<1> QED
  BY <1>3, <1>4 DEF Change

----------------------------------------------------------------------------
(* The theorem about accounts. *)

LEMMA IdentitiesInvInit ==
  ASSUME IdentitiesInit
  PROVE  IdentitiesInv
<1>1. /\ journey = <<>> /\ identity = {}
      /\ crumb = [b \in Machines |-> [p \in SignInProviders |-> 0]]
      /\ visit = [w \in Windows |-> Rest] /\ goal = [w \in Windows |-> "none"]
      /\ person = <<Person(World(StaffMail), Name("admin", "none"), "ADMIN")>>
  BY DEF IdentitiesInit
<1> DEFINE x == Person(World(StaffMail), Name("admin", "none"), "ADMIN")
<1>2. IsPerson(x) /\ x.role = "ADMIN"
  BY DEF Person, IsPerson
<1> HIDE DEF x
<1>3. DOMAIN person = {1} /\ person[1] = x /\ person = [k \in 1..1 |-> person[k]]
  BY <1>1 DEF x
<1>4. IsList(person) /\ \A a \in People : IsPerson(person[a])
  BY <1>2, <1>3 DEF IsList, People
<1>5. DOMAIN journey = {} /\ journey = [k \in 1..0 |-> journey[k]]
  BY <1>1
<1>6. IsList(journey)
  BY <1>5 DEF IsList
<1>7. Lists
  BY <1>1, <1>4, <1>5, <1>6 DEF Lists
<1>8. /\ IsVisit(Rest) /\ Rest.pc = "home" /\ Rest.provider = "google"
      /\ Rest.state = 0 /\ Rest.page = "none"
  BY DEF Rest, IsVisit
<1>9. \A w \in Windows : visit[w] = Rest
  BY <1>1
<1> HIDE DEF Rest
<1>10. Visits
  BY <1>8, <1>9 DEF Visits, Fits, Returned, Known, Owned, SignInProviders
<1>11. Alone
  BY <1>8, <1>9 DEF Alone
<1>12. Remembered
  BY <1>1 DEF Remembered
<1>13. Accounts
  BY <1>1, <1>2, <1>3 DEF Accounts, People
<1> QED
  BY <1>7, <1>10, <1>11, <1>12, <1>13 DEF IdentitiesInv

LEMMA IdentitiesInvNext ==
  ASSUME IdentitiesInv, [IdentitiesNext]_identities
  PROVE  IdentitiesInv'
<1>1. ASSUME NEW w \in Windows,
             \/ \E p \in SignInProviders, page \in Places : BeginJourney(w, p, page)
             \/ \E p \in Profiles, x \in Windows : Agree(w, p, x)
      PROVE  IdentitiesInv'
  BY <1>1, BeginJourneyKeeps, AgreeKeeps
<1>2. ASSUME NEW w \in Windows,
             \/ Again(w) \/ Callback(w) \/ Exchange(w) \/ ExchangeFails(w)
             \/ Find(w) \/ ChooseNames(w) \/ CreateAccount(w) \/ SignIn(w) \/ Land(w)
      PROVE  IdentitiesInv'
  BY <1>2, AgainKeeps, CallbackKeeps, ExchangeKeeps, ExchangeFailsKeeps, FindKeeps,
     ChooseNamesKeeps, CreateAccountKeeps, SignInKeeps, LandKeeps
<1>3. ASSUME NEW b \in Machines, NEW p \in SignInProviders, Forget(b, p)
      PROVE  IdentitiesInv'
  BY <1>3, ForgetKeeps
<1>4. CASE Change
  BY <1>4, ChangeKeeps
<1>5. CASE UNCHANGED identities
  BY <1>5 DEF identities, IdentitiesInv, Lists, Visits, Alone, Remembered, Accounts,
              People
<1> QED
  BY <1>1, <1>2, <1>3, <1>4, <1>5 DEF IdentitiesNext

THEOREM IdentitiesInvariant == IdentitiesSpec => []IdentitiesInv
<1>1. IdentitiesInit => IdentitiesInv
  BY IdentitiesInvInit
<1>2. IdentitiesInv /\ [IdentitiesNext]_identities => IdentitiesInv'
  BY IdentitiesInvNext
<1> QED
  BY <1>1, <1>2, PTL DEF IdentitiesSpec

(* Whoever signs in through Google and GitHub at once, from any number of  *)
(* windows and browsers and with any addresses and names: every identity   *)
(* has one account and every customer's account one identity; and a window *)
(* is signed in as the one who agreed to the journey its browser began.    *)
THEOREM EveryoneHasTheirOwn == IdentitiesSpec => []OwnAccount
<1>1. ASSUME IdentitiesInv PROVE AccountsApart
  <2>1. Accounts
    BY <1>1 DEF IdentitiesInv
  <2>2. ASSUME NEW a \in People, person[a].role = "USER"
        PROVE  Cardinality({i \in identity : i.user = a}) = 1
    <3>1. PICK h \in identity : h.user = a
      BY <2>1, <2>2 DEF Accounts
    <3>2. {i \in identity : i.user = a} = {h}
      BY <2>1, <3>1 DEF Accounts
    <3>3. Cardinality({h}) = 1
      BY FS_Singleton
    <3> QED
      BY <3>2, <3>3
  <2> QED
    BY <2>1, <2>2 DEF AccountsApart, Accounts
<1>2. ASSUME IdentitiesInv PROVE SignsInAsAgreed
  <2>1. ASSUME NEW w \in Windows, visit[w].pc = "landing" \/ visit[w].page # "none"
        PROVE  ArrivesAs(w)
    <3>1. Fits(w, visit[w], journey, goal[w], identity)
      BY <1>2 DEF IdentitiesInv, Visits
    <3>2. visit[w].page # "none" => visit[w].pc = "home"
      BY <3>1 DEF Fits
    <3>3. visit[w].state # 0
      BY <2>1, <3>1 DEF Fits
    <3>4. MachineOf[journey[visit[w].state].at] = MachineOf[w]
      BY <2>1, <3>1 DEF Fits, Returned, Known, Owned
    <3>5. /\ visit[w].told = journey[visit[w].state].who
          /\ Holds(identity, visit[w].told, visit[w].account)
      BY <2>1, <3>1 DEF Fits, Known, Owned
    <3>6. visit[w].page # "none" /\ journey[visit[w].state].at = w
            => visit[w].page = journey[visit[w].state].from
      BY <3>1, <3>2, <3>3 DEF Fits
    <3> QED
      BY <3>4, <3>5, <3>6 DEF ArrivesAs, Holds, Of
  <2> QED
    BY <2>1 DEF SignsInAsAgreed
<1>3. IdentitiesInv => OwnAccount
  BY <1>1, <1>2 DEF OwnAccount
<1> QED
  BY <1>3, IdentitiesInvariant, PTL

=============================================================================
