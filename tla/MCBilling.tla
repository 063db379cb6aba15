----------------------------- MODULE MCBilling -----------------------------
(* Values of the constants of Billing for model checking. *)
EXTENDS Billing, TLC

CONSTANTS u1, k1, k2

MCOneOwner == [k \in Keys |-> u1]

MCBudget(keys, commands, codes, refunds, n) ==
  [keys |-> keys, commands |-> commands, codes |-> codes, refunds |-> refunds, faults |-> n]

\* Everything with one payment; a second key while the first one's payment is open;
\* two requests at once.
MCOneKey    == {MCBudget({k1}, Commands, Codes, 1, 1)}
MCTwoKeys   == {MCBudget({k1, k2}, {"checkout", "cancel"}, {"none"}, 0, 0)}
MCSafe      == {MCBudget({k1, k2}, {"checkout", "cancel"}, {"none"}, 0, 2)}
MCLive      == MCOneKey \cup MCTwoKeys
MCNoFaults  == {MCBudget({k1}, Commands, {"none"}, 0, 0)}

MCSymmetry == Permutations(Keys) \cup Permutations(Clients) \cup Permutations(Hooks)
============================================================================
