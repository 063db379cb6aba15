---------------------------- MODULE MCWorkspace ----------------------------
(* Values of the constants of Workspace for model checking. *)
EXTENDS Workspace, TLC

CONSTANTS c1, p1, p2, w1, w2, w3, r1, r2

MCAllows ==
  [t \in Tiers |->
     IF t = "PRO" THEN [projects |-> 1, workflows |-> 2, files |-> 2, bytes |-> 3]
                  ELSE [projects |-> 0, workflows |-> 0, files |-> 0, bytes |-> 0]]

MCSize == [f \in FileIds |-> 2]
MCHome == [f \in FileIds |-> c1]
MCBegins == [f \in Flows |-> IF f \in {w1, w2} THEN p1 ELSE "none"]

\* The page of the chat shares no state with the services but the bounds on
\* requests and faults: they are checked one at a time.
MCApart == ChatInit' \/ (FilesInit /\ WorkflowsInit /\ changes = 0)'

MCSymmetry == Permutations(FileIds) \cup Permutations(Transfers)
                \cup Permutations(Jobs) \cup Permutations(Runs) \cup Permutations({w1, w2})
=============================================================================
