------------------------------ MODULE MCQuota ------------------------------
(* Values of the constants of Quota for model checking. *)
EXTENDS Quota, TLC

MCPolicy(pl, b, credits, daily, monthly, conc, rate, price) ==
  [plan |-> pl, bucket |-> b, monthlyCredits |-> credits,
   dailyLimit |-> daily, monthlyLimit |-> monthly, concurrency |-> conc,
   ratePerMinute |-> rate, maxDuration |-> 1, price |-> price]

\* The two buckets of FREE share its credits and its single active request.
MCPlans ==
  {MCPolicy("FREE", "AUTO", 3, 1, 2, 1, 2, 1),
   MCPolicy("FREE", "model", 3, 1, 2, 1, 2, 2),
   MCPolicy("PRO", "AUTO", 3, 2, 3, 2, 2, 2)}

MCFree == {MCPolicy("FREE", "AUTO", 3, 2, 3, 2, 2, 1)}

MCSymmetry == Permutations(Requests) \cup Permutations(Calls)
                \cup Permutations(Workers) \cup Permutations(Users)
============================================================================
