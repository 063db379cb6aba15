---------------------------- MODULE Administration ----------------------------
(***************************************************************************)
(* What administrators write beside the models: plans and promotions with  *)
(* the rows that belong to them and their history (monetization.service.ts),*)
(* and entries of the economic ledger (economics.service.ts).              *)
(*                                                                         *)
(* An action is a statement of a transaction.  A row that a transaction    *)
(* has updated or deleted is locked until it commits or rolls back, and so *)
(* is, more weakly, the row that an entry of the history refers to.        *)
(*                                                                         *)
(* An edit keeps the code of a plan: one that changes it waits for more.   *)
(* The rows of promotions that go with a plan are not followed.            *)
(***************************************************************************)
EXTENDS Integers, Sequences

CONSTANTS
  Plans, Promotions,
  FreePlans,  \* plans of the code FREE
  Admins,     \* requests of administrators
  EntryIds,   \* identifiers of ledger entries
  Amounts,    \* what an entry may say
  Nothing,    \* no entry
  MaxWrites   \* bound: edits of plans and promotions

ASSUME AdministrationAssumption ==
  Plans \cap Promotions = {} /\ FreePlans \subseteq Plans /\ Nothing \notin Amounts /\ MaxWrites \in Nat

VARIABLES
  priced,    \* BillingPlan and Promotion rows
  parts,     \* their PlanFeatureLimit or PromotionPlan rows
  bought,    \* plans that a subscription or a payment refers to
  history,   \* PricingHistory, in the order in which entries were inserted
  ledger,    \* EconomicEntry rows
  admin,     \* requests between two statements
  writes     \* edits so far

adminVars == <<priced, parts, bought, history, ledger, admin, writes>>

PricedRows == Plans \cup Promotions

\* A row is the number of the edit that wrote it, 0 if there is none.
Absent == 0
Exists(r) == priced[r] # Absent

\* An entry that is linked refers to its row (planId, promotionId); it is
\* undone if its transaction has rolled back.
History == [row : PricedRows, kind : {"CREATED", "UPDATED", "DELETED", "UNDONE"},
            edit : Nat, linked : BOOLEAN]

EntryOf(r, kind, n) == [row |-> r, kind |-> kind, edit |-> n, linked |-> TRUE]
Undone(e)   == [row |-> e.row, kind |-> "UNDONE", edit |-> e.edit, linked |-> FALSE]
Unlinked(e) == [row |-> e.row, kind |-> e.kind, edit |-> e.edit, linked |-> FALSE]

Free == [pc |-> "free"]
Locking  == {"written", "replaced", "dropped"}
Deleting == {"noted", "dropped"}

\* The state of row r before the edit, for a rollback.
Editing(pc, r, n) == [pc |-> pc, row |-> r, edit |-> n, was |-> priced[r], had |-> parts[r]]

\* The row locks of PostgreSQL: an update waits for updates and deletions, a
\* reference for deletions, a deletion for all of them.
NoOther(a, r, steps) ==
  \A b \in Admins \ {a} : admin[b].pc \in steps => admin[b].row # r

LockableAlways(a, r) == TRUE   \* faulty variant: an update does not wait
Unlocked(a, r)   == NoOther(a, r, Locking)
Referable(a, r)  == NoOther(a, r, {"dropped"})
Unshared(a, r)   == Unlocked(a, r) /\ NoOther(a, r, {"noted"})

Proceeds(a, x) == admin' = [admin EXCEPT ![a] = x]

----------------------------------------------------------------------------
(* Plans and promotions. *)

CreateRow(a, r) ==
  /\ admin[a] = Free /\ writes < MaxWrites
  /\ ~Exists(r) /\ \A j \in DOMAIN history : history[j].row # r
  /\ priced' = [priced EXCEPT ![r] = writes + 1]
  /\ parts'  = [parts EXCEPT ![r] = writes + 1]
  /\ history' = Append(history, EntryOf(r, "CREATED", writes + 1))
  /\ writes' = writes + 1
  /\ UNCHANGED <<bought, ledger, admin>>

\* updatePlan() and updatePromotion() read the row that goes into the history.
BeginWrite(a, r) ==
  /\ admin[a] = Free /\ writes < MaxWrites
  /\ Exists(r)
  /\ Proceeds(a, Editing("write", r, writes + 1))
  /\ writes' = writes + 1
  /\ UNCHANGED <<priced, parts, bought, history, ledger>>

WriteRow(a) ==
  LET x == admin[a]
  IN  /\ x.pc = "write" /\ Unlocked(a, x.row)
      /\ IF Exists(x.row)
         THEN /\ priced' = [priced EXCEPT ![x.row] = x.edit]
              /\ Proceeds(a, Editing("written", x.row, x.edit))
         ELSE UNCHANGED priced /\ Proceeds(a, Free)
      /\ UNCHANGED <<parts, bought, history, ledger, writes>>

\* deleteMany() and replaceLimits() or createMany().
ReplaceParts(a) ==
  LET x == admin[a]
  IN  /\ x.pc = "written"
      /\ parts' = [parts EXCEPT ![x.row] = x.edit]
      /\ Proceeds(a, [x EXCEPT !.pc = "replaced"])
      /\ UNCHANGED <<priced, bought, history, ledger, writes>>

CommitWrite(a) ==
  LET x == admin[a]
  IN  /\ x.pc = "replaced"
      /\ history' = Append(history, EntryOf(x.row, "UPDATED", x.edit))
      /\ Proceeds(a, Free)
      /\ UNCHANGED <<priced, parts, bought, ledger, writes>>

\* deletePlan() reads the code and counts the subscriptions and payments.
BeginDelete(a, r) ==
  /\ admin[a] = Free /\ writes < MaxWrites
  /\ r \in Plans \ FreePlans /\ Exists(r) /\ r \notin bought
  /\ Proceeds(a, Editing("delete", r, writes + 1))
  /\ writes' = writes + 1
  /\ UNCHANGED <<priced, parts, bought, history, ledger>>

\* The entry refers to the plan, which must be there.
NoteDeletion(a) ==
  LET x == admin[a]
  IN  /\ x.pc = "delete" /\ Referable(a, x.row)
      /\ IF Exists(x.row)
         THEN /\ history' = Append(history, EntryOf(x.row, "DELETED", x.edit))
              /\ Proceeds(a, [x EXCEPT !.pc = "noted"])
         ELSE UNCHANGED history /\ Proceeds(a, Free)
      /\ UNCHANGED <<priced, parts, bought, ledger, writes>>

\* The plan as it is by now; the references of subscriptions and payments
\* restrict its deletion.
DeleteRow(a) ==
  LET x == admin[a]
  IN  /\ x.pc = "noted" /\ Unshared(a, x.row)
      /\ Exists(x.row) /\ x.row \notin bought
      /\ Proceeds(a, Editing("dropped", x.row, x.edit))
      /\ priced' = [priced EXCEPT ![x.row] = Absent]
      /\ parts'  = [parts EXCEPT ![x.row] = Absent]
      /\ UNCHANGED <<bought, history, ledger, writes>>

\* onDelete: SetNull, which takes effect for the others with the commit.
CommitDelete(a) ==
  LET x == admin[a]
  IN  /\ x.pc = "dropped"
      /\ history' = [j \in DOMAIN history |->
                       IF history[j].row = x.row THEN Unlinked(history[j]) ELSE history[j]]
      /\ Proceeds(a, Free)
      /\ UNCHANGED <<priced, parts, bought, ledger, writes>>

\* A statement fails (the deletion of a plan that was bought, two transactions
\* that wait for each other), or the process stops.
RollBack(a) ==
  LET x == admin[a]
  IN  /\ x.pc \in Locking \cup Deleting
      /\ priced' = IF x.pc \in Locking THEN [priced EXCEPT ![x.row] = x.was] ELSE priced
      /\ parts'  = IF x.pc \in Locking THEN [parts EXCEPT ![x.row] = x.had] ELSE parts
      /\ history' = [j \in DOMAIN history |->
                       IF history[j].edit = x.edit THEN Undone(history[j]) ELSE history[j]]
      /\ Proceeds(a, Free)
      /\ UNCHANGED <<bought, ledger, writes>>

\* A checkout refers to the plan.
Buy(r) ==
  /\ r \in Plans \ bought /\ Exists(r)
  /\ \A a \in Admins : admin[a].pc = "dropped" => admin[a].row # r
  /\ bought' = bought \cup {r}
  /\ UNCHANGED <<priced, parts, history, ledger, admin, writes>>

----------------------------------------------------------------------------
(* append() of the ledger: the advisory lock, the look, the insert. *)

AppendEntry(a, id, amount) ==
  /\ admin[a] = Free
  /\ Proceeds(a, [pc |-> "append", id |-> id, amount |-> amount])
  /\ UNCHANGED <<priced, parts, bought, history, ledger, writes>>

NoLock(id)   == TRUE   \* faulty variant: without the lock
Advised(id)  == \A b \in Admins : admin[b].pc = "insert" => admin[b].id # id

LookUp(a) ==
  LET x == admin[a]
      old == ledger[x.id]
  IN  /\ x.pc = "append" /\ Advised(x.id)
      /\ Proceeds(a, IF old = Nothing THEN [x EXCEPT !.pc = "insert"]
                     ELSE [x EXCEPT !.pc = IF old = x.amount THEN "ok" ELSE "conflict"])
      /\ UNCHANGED <<priced, parts, bought, history, ledger, writes>>

\* The primary key admits one entry.
InsertEntry(a) ==
  LET x == admin[a]
  IN  /\ x.pc = "insert"
      /\ IF ledger[x.id] = Nothing
         THEN /\ ledger' = [ledger EXCEPT ![x.id] = x.amount]
              /\ Proceeds(a, [x EXCEPT !.pc = "ok"])
         ELSE UNCHANGED ledger /\ Proceeds(a, [x EXCEPT !.pc = "error"])
      /\ UNCHANGED <<priced, parts, bought, history, writes>>

Answered(a) ==
  /\ admin[a].pc \in {"ok", "conflict", "error"}
  /\ Proceeds(a, Free)
  /\ UNCHANGED <<priced, parts, bought, history, ledger, writes>>

----------------------------------------------------------------------------
AdminInit ==
  /\ priced = [r \in PricedRows |-> Absent] /\ parts = [r \in PricedRows |-> Absent]
  /\ bought = {} /\ history = <<>>
  /\ ledger = [id \in EntryIds |-> Nothing]
  /\ admin = [a \in Admins |-> Free] /\ writes = 0

AdminNext ==
  \/ \E a \in Admins :
       \/ \E r \in PricedRows : CreateRow(a, r) \/ BeginWrite(a, r) \/ BeginDelete(a, r)
       \/ WriteRow(a) \/ ReplaceParts(a) \/ CommitWrite(a)
       \/ NoteDeletion(a) \/ DeleteRow(a) \/ CommitDelete(a) \/ RollBack(a)
       \/ \E id \in EntryIds, amount \in Amounts : AppendEntry(a, id, amount)
       \/ LookUp(a) \/ InsertEntry(a) \/ Answered(a)
  \/ \E r \in Plans : Buy(r)

AdminSpec == AdminInit /\ [][AdminNext]_adminVars

----------------------------------------------------------------------------
(* Properties. *)

(* However administrators edit and delete at once, and whatever rolls      *)
(* back: once all who edit a row have ended, the row, its parts and the    *)
(* last entry that refers to it are of one edit and none tells of its      *)
(* deletion; or the row is gone, nobody had bought it, no entry refers to  *)
(* it any more and exactly one of those about it tells of its deletion.    *)
(* Which of the entries is the last to be inserted is not said then: an    *)
(* update may come between the entry of a deletion and the deletion.       *)
Settled(r) ==
  \A a \in Admins : admin[a].pc \in Locking \cup Deleting => admin[a].row # r

RefersTo(j, r)  == history[j].row = r /\ history[j].linked
LastEntry(r, j) == RefersTo(j, r) /\ \A k \in DOMAIN history : k > j => ~RefersTo(k, r)
Tells(j, r)     == history[j].row = r /\ history[j].kind = "DELETED"

HistoryTells ==
  \A r \in PricedRows : Settled(r) =>
    IF Exists(r)
    THEN /\ \E j \in DOMAIN history : RefersTo(j, r)
         /\ \A j \in DOMAIN history :
              /\ ~Tells(j, r)
              /\ LastEntry(r, j) => history[j].edit = priced[r] /\ history[j].edit = parts[r]
    ELSE /\ r \notin bought
         /\ \A j \in DOMAIN history : ~RefersTo(j, r)
         /\ \A j \in DOMAIN history : history[j].row = r =>
              \E i \in DOMAIN history : \A k \in DOMAIN history : Tells(k, r) <=> k = i

(* "Accounting request ID already used" (economics.service.ts): a request  *)
(* that is sent again, at once or later, is answered with its entry; only  *)
(* one that says something else is refused.                                *)
AppendsAnswered ==
  \A a \in Admins :
    /\ admin[a].pc # "error"
    /\ admin[a].pc = "ok" => ledger[admin[a].id] = admin[a].amount
    /\ admin[a].pc = "conflict" => ledger[admin[a].id] \notin {admin[a].amount, Nothing}
=============================================================================
