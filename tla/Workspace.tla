----------------------------- MODULE Workspace -----------------------------
(***************************************************************************)
(* The workspace of one account: its files, projects and workflows, used   *)
(* by concurrent requests while its plan changes.  The services share the  *)
(* account: its plan, and the requests it sends.                           *)
(***************************************************************************)
EXTENDS Files, Workflows, ChatView

Init == MembershipInit /\ FilesInit /\ WorkflowsInit /\ ChatInit

Next ==
  \/ FilesNext /\ UNCHANGED <<workflows, chat>>
  \/ WorkflowsNext /\ UNCHANGED <<files, chat>>
  \/ ChatNext /\ UNCHANGED <<files, workflows>>
  \/ ChangeTier /\ UNCHANGED <<files, workflows, chat>>

vars == <<account, files, workflows, chat>>

Spec == Init /\ [][Next]_vars

WorkspaceTypeOK == MembershipTypeOK /\ FilesTypeOK /\ WorkflowsTypeOK /\ ChatTypeOK

\* The rows are well typed, and every limit of the plan holds, counted in two
\* services under the account's lock: projects, workflows, files and bytes.
WithinPlan == WorkspaceTypeOK /\ CountsWithinPlan /\ StorageWithinPlan

=============================================================================
