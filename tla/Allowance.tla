------------------------------ MODULE Allowance ------------------------------
(***************************************************************************)
(* What a user is promised about each request, without counters, clocks or *)
(* processes: its units are held once, when it is admitted, and from there *)
(* they are either spent or given back, once and for good.  Admitting a    *)
(* request may spend what abandoned requests still hold.                   *)
(***************************************************************************)
CONSTANT Requests

VARIABLES held, spent, returned

vars == <<held, spent, returned>>

Init == held = {} /\ spent = {} /\ returned = {}

Admit(r, abandoned) ==
  /\ r \notin held \cup spent \cup returned
  /\ abandoned \subseteq held
  /\ held' = (held \ abandoned) \cup {r}
  /\ spent' = spent \cup abandoned
  /\ UNCHANGED returned

Spend(r) ==
  /\ r \in held
  /\ held' = held \ {r}
  /\ spent' = spent \cup {r}
  /\ UNCHANGED returned

GiveBack(r) ==
  /\ r \in held
  /\ held' = held \ {r}
  /\ returned' = returned \cup {r}
  /\ UNCHANGED spent

Next ==
  \/ \E r \in Requests, abandoned \in SUBSET held : Admit(r, abandoned)
  \/ \E r \in Requests : Spend(r) \/ GiveBack(r)

Spec == Init /\ [][Next]_vars
============================================================================
