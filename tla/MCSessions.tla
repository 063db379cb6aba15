----------------------------- MODULE MCSessions -----------------------------
(* Values of the constants of Client and of Pages for model checking. *)
EXTENDS Client, Pages, TLC

CONSTANTS ann, bob, cid, t1, t2, t3, f1, f2, f3

MCHome == [t \in Tabs |-> IF t = t3 THEN "b2" ELSE "b1"]

MCInputs ==
  {[role |-> "USER", status |-> "SUSPENDED", password |-> FALSE],
   [role |-> "ADMIN", status |-> "ACTIVE", password |-> TRUE]}

MCOpened == [f \in Families |-> CASE f = f1 -> ann [] f = f2 -> bob [] OTHER -> "none"]

MCSignedIn == [b \in Browsers |-> IF b = "b1" THEN f1 ELSE f2]

MCOwners == [b \in Browsers |-> IF b = "b1" THEN {ann, cid} ELSE {bob}]

Budget(x, y, z, n) ==
  [calls |-> [t \in Tabs |-> CASE t = t1 -> x [] t = t2 -> y [] OTHER -> z], faults |-> n]

MCBudgets == {Budget(1, 0, 1, 1), Budget(1, 1, 0, 2), Budget(2, 1, 0, 0), Budget(1, 1, 1, 0)}

MCSymmetry == Permutations({t1, t2})

MCHolder == <<"ann", "ann", "bob">>

\* A page that is left leaves answers that no one awaits, and alarms: one that
\* leaves all kinds of them is left for one of each kind of resource.
MCLeaves == kind' # kind => kind = "workflows" /\ kind' \in {"prompts", "settings"}

\* A page sees of the session the access token alone: they are checked one at
\* a time, with the tokens in any order of renewals and changes of account.
MCInit == Init /\ PagesInit

MCNext ==
  \/ PagesInit /\ kind = "workflows" /\ Next /\ UNCHANGED pages
  \/ Init /\ left = Budget(1, 1, 1, 0) /\ PagesNext /\ MCLeaves /\ UNCHANGED vars

MCSpec == MCInit /\ [][MCNext]_<<vars, pages>>
=============================================================================
