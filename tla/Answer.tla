------------------------------- MODULE Answer -------------------------------
(***************************************************************************)
(* What a user is promised about one answer: it is written by one model,   *)
(* however many models were tried, it succeeds only if a model wrote       *)
(* something, and in the end it is charged exactly if it had a cost.       *)
(***************************************************************************)
CONSTANTS
  Calls,
  Models,
  Nobody   \* the author of an answer that nobody has written; not a model

VARIABLES
  stage,    \* "idle", "running", then "ended" or, if never settled, "lost"
  author,   \* the model that wrote the answer so far
  cost,     \* something was consumed
  outcome,  \* status with which the answer ended
  charged   \* the allowance was consumed

vars == <<stage, author, cost, outcome, charged>>

Init ==
  /\ stage = [c \in Calls |-> "idle"]
  /\ author = [c \in Calls |-> Nobody]
  /\ cost = [c \in Calls |-> FALSE]
  /\ outcome = [c \in Calls |-> "NONE"]
  /\ charged = [c \in Calls |-> FALSE]

Start(c) ==
  /\ stage[c] = "idle"
  /\ stage' = [stage EXCEPT ![c] = "running"]
  /\ UNCHANGED <<author, cost, outcome, charged>>

\* Blank text and what is not known to be billed may be written at no cost.
Write(c, m, costs) ==
  /\ stage[c] = "running"
  /\ author[c] \in {Nobody, m}
  /\ author' = [author EXCEPT ![c] = m]
  /\ cost' = [cost EXCEPT ![c] = @ \/ costs]
  /\ UNCHANGED <<stage, outcome, charged>>

\* A provider bills without writing.
Spend(c) ==
  /\ stage[c] = "running"
  /\ cost' = [cost EXCEPT ![c] = TRUE]
  /\ UNCHANGED <<stage, author, outcome, charged>>

End(c, s) ==
  /\ stage[c] = "running"
  /\ s = "SUCCEEDED" => author[c] # Nobody /\ cost[c]
  /\ stage' = [stage EXCEPT ![c] = "ended"]
  /\ outcome' = [outcome EXCEPT ![c] = s]
  /\ charged' = [charged EXCEPT ![c] = cost[c]]
  /\ UNCHANGED <<author, cost>>

Lose(c) ==
  /\ stage[c] = "running"
  /\ stage' = [stage EXCEPT ![c] = "lost"]
  /\ UNCHANGED <<author, cost, outcome, charged>>

Next == \E c \in Calls :
  \/ Start(c)
  \/ \E m \in Models, costs \in BOOLEAN : Write(c, m, costs)
  \/ Spend(c)
  \/ \E s \in {"SUCCEEDED", "FAILED", "CANCELLED", "INTERRUPTED"} : End(c, s)
  \/ Lose(c)

Spec == Init /\ [][Next]_vars
=============================================================================
