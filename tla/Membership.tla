----------------------------- MODULE Membership -----------------------------
(***************************************************************************)
(* The plan of one account, which the workspace services read before they  *)
(* lock the account and which billing may change at any moment, and the    *)
(* requests the account has sent.  A request may fail at an await that the *)
(* code does not expect to throw, or end with its process.                 *)
(***************************************************************************)
EXTENDS Integers, FiniteSets

CONSTANTS
  Tiers,       \* plans an account may be on
  FirstTier,   \* the plan it starts with
  Allows,      \* projects, workflows, files and bytes of a plan
  MaxChanges,  \* bound: changes of plan
  MaxRequests, \* bound: requests the account sends
  MaxFaults    \* bound: requests that are cut off and statements that throw

ASSUME TierAssumption ==
  /\ FirstTier \in Tiers
  /\ Allows \in [Tiers -> [projects : Nat, workflows : Nat, files : Nat, bytes : Nat]]
  /\ MaxChanges \in Nat /\ MaxRequests \in Nat /\ MaxFaults \in Nat

VARIABLES
  tier,    \* the account's plan
  held,    \* the plans it has had
  changes, \* changes so far
  sent,    \* requests so far
  faults   \* faults so far

account == <<tier, held, changes, sent, faults>>

ChangeTier ==
  /\ changes < MaxChanges
  /\ changes' = changes + 1
  /\ tier' \in Tiers \ {tier}
  /\ held' = held \cup {tier'}
  /\ UNCHANGED <<sent, faults>>

Send ==
  /\ sent < MaxRequests
  /\ sent' = sent + 1
  /\ UNCHANGED <<tier, held, changes, faults>>

Fault ==
  /\ faults < MaxFaults
  /\ faults' = faults + 1
  /\ UNCHANGED <<tier, held, changes, sent>>

MembershipInit ==
  /\ tier = FirstTier /\ held = {FirstTier}
  /\ changes = 0 /\ sent = 0 /\ faults = 0

MembershipTypeOK ==
  /\ tier \in held /\ held \subseteq Tiers
  /\ changes \in 0..MaxChanges /\ sent \in 0..MaxRequests /\ faults \in 0..MaxFaults

=============================================================================
