------------------------------- MODULE Credits -------------------------------
(***************************************************************************)
(* The price of a task in credits and the models an automatic request can  *)
(* afford, credits.ts.  Amounts are natural numbers of one unit of money,  *)
(* so that the tolerance for rounding of the code is not needed; what the  *)
(* code treats as unknown or infinite is NoPrice or not Priced.            *)
(***************************************************************************)
EXTENDS Integers, Sequences

CONSTANT Budget   \* provider work that one credit funds

ASSUME BudgetAssumption == Budget \in Nat \ {0}

NoPrice == 0

Larger(a, b)  == IF a >= b THEN a ELSE b
Smaller(a, b) == IF a <= b THEN a ELSE b

InputRate(model) ==
  Larger(model.inputPrice, Larger(model.cachedInputPrice, model.cacheWriteInputPrice))

ContextOf(model, policy) == Smaller(policy.maxContext, model.maxContext)
OutputOf(model, policy)  == Smaller(policy.maxOutput, model.maxOutput)

\* Unknown, foreign and entirely unpriced models fail closed.
Priced(model, policy, feature) ==
  /\ model.currency = "USD"
  /\ InputRate(model) > 0 \/ model.outputPrice > 0
  /\ ContextOf(model, policy) > 0 /\ OutputOf(model, policy) > 0
  /\ feature = "image" => model.imageBudget > 0

OutputCost(model, policy, feature) ==
  LET text == OutputOf(model, policy) * model.outputPrice
  IN  IF feature = "image" THEN Larger(text, model.imageBudget) ELSE text

RequestCostBound(model, policy, feature) ==
  ContextOf(model, policy) * InputRate(model) + OutputCost(model, policy, feature)

Quotient(a, b) == (a + b - 1) \div b   \* Math.ceil

ModelCredits(model, policy, feature) ==
  IF ~Priced(model, policy, feature) THEN NoPrice
  ELSE Larger(Larger(1, model.creditCost),
              Quotient(RequestCostBound(model, policy, feature), Budget))

AutoCredits(policy, feature) ==
  IF feature = "image" THEN policy.imageCreditCost ELSE policy.creditCost

MaxAttempts(policy) == Larger(1, Smaller(5, policy.maxAttempts))

\* Of a ranked list those which the price can fund one after the other.
Affords(done, model, policy, feature) ==
  /\ Len(done.chosen) < MaxAttempts(policy)
  /\ Priced(model, policy, feature)
  /\ model.creditCost <= AutoCredits(policy, feature)
  /\ RequestCostBound(model, policy, feature) <= done.remaining

EachAlone(done, cost) == done.remaining   \* faulty variant: a fresh budget
Remaining(done, cost) == done.remaining - cost

Funding(rows, ranked, policy, feature) ==
  LET done[k \in 0..Len(ranked)] ==
        IF k = 0
        THEN [chosen |-> <<>>, remaining |-> AutoCredits(policy, feature) * Budget]
        ELSE LET model == rows[ranked[k]]
                 cost  == RequestCostBound(model, policy, feature)
             IN  IF Affords(done[k - 1], model, policy, feature)
                 THEN [chosen |-> Append(done[k - 1].chosen, ranked[k]),
                       remaining |-> Remaining(done[k - 1], cost)]
                 ELSE done[k - 1]
  IN  done

AffordableCandidates(rows, ranked, policy, feature) ==
  Funding(rows, ranked, policy, feature)[Len(ranked)].chosen

=============================================================================
