---------------------------- MODULE ServiceProofs ----------------------------
(* Theorems about Routing: the price that a client was shown funds every   *)
(* attempt of its request, and the choice of models is one that module     *)
(* Generation allows.  About Providers: what an attempt hands back is what *)
(* the vendor has sent and charges for.  And about Context: a prompt tells *)
(* of what has succeeded, and excerpts of it are the best that fit.        *)
EXTENDS Routing, Providers, Context, GenerationProofs

(* Induction, stated about sets of natural numbers: one that is not empty  *)
(* has a smallest element, and one that has 0 and with each number the next *)
(* is Nat.                                                                 *)
\* A set of natural numbers that is not empty has a smallest element.
LEMMA Smallest ==
  ASSUME NEW U \in SUBSET Nat, U # {}
  PROVE  \E x \in U : \A y \in U : x <= y
<1> DEFINE T == {1..n : n \in U}
<1>1. T \subseteq FiniteSubsetsOf(Nat) /\ T # {}
  <2>1. ASSUME NEW n \in U PROVE 1..n \in FiniteSubsetsOf(Nat)
    <3>1. IsFiniteSet(1..n) /\ 1..n \subseteq Nat
      BY FS_Interval
    <3> QED
      BY <3>1 DEF FiniteSubsetsOf
  <2> QED
    BY <2>1
<1>2. PICK s \in T : \A t \in T : <<t, s>> \notin StrictSubsetOrdering(Nat)
  BY <1>1, FS_StrictSubsetOrderingWellFounded, WFMin
<1>3. PICK x \in U : s = 1..x
  BY <1>2
<1>4. ASSUME NEW y \in U, y < x PROVE FALSE
  <2>1. 1..y \in T /\ 1..y \subseteq 1..x /\ 1..x \subseteq Nat /\ x \in 1..x /\ x \notin 1..y
    BY <1>4
  <2>2. <<1..y, 1..x>> \in StrictSubsetOrdering(Nat)
    BY <2>1 DEF StrictSubsetOrdering
  <2> QED
    BY <1>2, <1>3, <2>1, <2>2
<1> QED
  BY <1>4

LEMMA NatSets ==
  ASSUME NEW T \in SUBSET Nat, 0 \in T, \A n \in T : n + 1 \in T
  PROVE  T = Nat
<1> DEFINE U == Nat \ T
<1>1. ASSUME U # {} PROVE FALSE
  <2>1. PICK x \in U : \A y \in U : x <= y
    BY <1>1, Smallest
  <2>2. x # 0 /\ x - 1 \in Nat
    OBVIOUS
  <2>4. x - 1 \in T
    BY <2>1, <2>2
  <2> QED
    BY <2>4
<1> QED
  BY <1>1

\* The beginning and the end of a sequence.
LEMMA StartOf ==
  ASSUME NEW T, NEW s \in Seq(T), NEW n \in 0..Len(s)
  PROVE  LET f == SubSeq(s, 1, n)
         IN  f \in Seq(T) /\ Len(f) = n /\ DOMAIN f = 1..n /\ \A i \in 1..n : f[i] = s[i]
  OBVIOUS

LEMMA RestOf ==
  ASSUME NEW T, NEW s \in Seq(T), NEW n \in 0..Len(s)
  PROVE  LET l == SubSeq(s, n + 1, Len(s))
         IN  /\ l \in Seq(T) /\ Len(l) = Len(s) - n
             /\ \A i \in 1..(Len(s) - n) : l[i] = s[n + i]
  OBVIOUS

LEMMA AllBut ==
  ASSUME NEW T, NEW s \in Seq(T), NEW v \in Nat
  PROVE  LET e == SubSeq(s, 1, Len(s) - v)
         IN  \E k \in 0..Len(s) : /\ DOMAIN e = 1..k
                                 /\ \A d \in 1..k : /\ e[d] = s[d] /\ d \in DOMAIN s
                                                    /\ d <= Len(s) - v
<1> DEFINE e == SubSeq(s, 1, Len(s) - v)
<1>1. PICK n \in Nat : n = Len(s) /\ DOMAIN s = 1..n
  OBVIOUS
<1>2. CASE n >= v
  <2>1. PICK k \in 0..n : k = n - v
    BY <1>1, <1>2
  <2>2. e = SubSeq(s, 1, k)
    BY <1>1, <2>1
  <2> HIDE DEF e
  <2>3. DOMAIN e = 1..k /\ \A d \in 1..k : e[d] = s[d]
    BY <1>1, <2>2, StartOf
  <2>4. \A d \in 1..k : d \in DOMAIN s /\ d <= n - v
    BY <1>1, <2>1
  <2> QED
    BY <1>1, <2>3, <2>4 DEF e
<1>3. CASE n < v
  <2>1. DOMAIN e = 1..0 /\ 0 \in 0..n
    BY <1>1, <1>3
  <2> HIDE DEF e
  <2>2. \A d \in 1..0 : FALSE
    OBVIOUS
  <2> QED
    BY <1>1, <2>1, <2>2, Zenon DEF e
<1>4. n >= v \/ n < v
  OBVIOUS
<1> QED
  BY <1>2, <1>3, <1>4, Zenon

(* A function that is defined by recursion on 0..n exists. *)
Recurs(f, n, S, first, step) ==
  /\ f \in [0..n -> S] /\ f[0] = first
  /\ \A k \in 1..n : f[k] = step[<<k, f[k - 1]>>]

LEMMA RecursionExists ==
  ASSUME NEW n \in Nat, NEW S, NEW s0 \in S, NEW step \in [(1..n) \X S -> S]
  PROVE  \E f : Recurs(f, n, S, s0, step)
<1> DEFINE Upto(f, i) == f[0] = s0 /\ \A k \in 1..i : f[k] = step[<<k, f[k - 1]>>]
           T == {i \in Nat : i <= n => \E f \in [0..i -> S] : Upto(f, i)}
<1>1. 0 \in T
  <2>1. [k \in 0..0 |-> s0] \in [0..0 -> S] /\ Upto([k \in 0..0 |-> s0], 0)
    OBVIOUS
  <2> QED
    BY <2>1
<1>2. ASSUME NEW i \in T PROVE i + 1 \in T
  <2>1. SUFFICES ASSUME i + 1 <= n PROVE \E f \in [0..(i + 1) -> S] : Upto(f, i + 1)
    OBVIOUS
  <2>2. PICK f \in [0..i -> S] : Upto(f, i)
    BY <2>1
  <2> DEFINE g == [k \in 0..(i + 1) |-> IF k = i + 1 THEN step[<<i + 1, f[i]>>] ELSE f[k]]
  <2>3. step[<<i + 1, f[i]>>] \in S
    BY <2>1
  <2>4. g \in [0..(i + 1) -> S]
    BY <2>3
  <2>5. Upto(g, i + 1)
    <3>1. g[0] = s0
      BY <2>2
    <3>2. ASSUME NEW k \in 1..(i + 1) PROVE g[k] = step[<<k, g[k - 1]>>]
      <4>1. CASE k = i + 1
        <5>1. g[i + 1] = step[<<i + 1, f[i]>>] /\ g[i] = f[i]
          OBVIOUS
        <5>2. k - 1 = i
          BY <4>1
        <5> HIDE DEF g
        <5> QED
          BY <4>1, <5>1, <5>2
      <4>2. CASE k \in 1..i
        <5>1. g[k] = f[k] /\ g[k - 1] = f[k - 1]
          BY <4>2
        <5> QED
          BY <2>2, <4>2, <5>1
      <4> QED
        BY <4>1, <4>2
    <3> QED
      BY <3>1, <3>2
  <2> QED
    BY <2>4, <2>5
<1>3. n \in T
  BY <1>1, <1>2, NatSets
<1> QED
  BY <1>3 DEF Recurs

LEMMA CostBoundType ==
  ASSUME NEW model \in AIModel, NEW policy \in GenerationPolicy, NEW feature
  PROVE  /\ RequestCostBound(model, policy, feature) \in Nat
         /\ AutoCredits(policy, feature) \in Nat
<1>1. /\ InputRate(model) \in Nat
      /\ ContextOf(model, policy) \in Nat /\ OutputOf(model, policy) \in Nat
      /\ model.outputPrice \in Nat /\ model.imageBudget \in Nat
  BY DEF InputRate, ContextOf, OutputOf, Larger, Smaller, AIModel, GenerationPolicy
<1>2. \A x, y \in Nat : x * y \in Nat
  OBVIOUS
<1>3. OutputCost(model, policy, feature) \in Nat
  BY <1>1, <1>2 DEF OutputCost, Larger
<1>4. RequestCostBound(model, policy, feature) \in Nat
  BY <1>1, <1>2, <1>3 DEF RequestCostBound
<1> QED
  BY <1>4 DEF AutoCredits, GenerationPolicy

LEMMA BoundsDefined ==
  ASSUME NEW rows \in [Models -> AIModel], NEW a, a.policy \in GenerationPolicy,
         NEW cands \in Seq(Models)
  PROVE  LET sum == Bounds(rows, cands, a)
         IN  /\ sum \in [0..Len(cands) -> Nat]
             /\ sum[0] = 0
             /\ \A k \in 1..Len(cands) :
                  sum[k] = sum[k - 1] + RequestCostBound(rows[cands[k]], a.policy, Feature(a))
<1> DEFINE n == Len(cands)
           Cost(k) == RequestCostBound(rows[cands[k]], a.policy, Feature(a))
           step == [x \in (1..n) \X Nat |-> x[2] + Cost(x[1])]
           sum == Bounds(rows, cands, a)
<1>1. ASSUME NEW k \in 1..n PROVE Cost(k) \in Nat
  BY CostBoundType
<1>2. n \in Nat /\ step \in [(1..n) \X Nat -> Nat]
  BY <1>1
<1>3. \A x \in (1..n) \X Nat : step[x] = x[2] + Cost(x[1])
  OBVIOUS
<1> HIDE DEF step, Cost, n
<1>4. PICK f \in [0..n -> Nat] :
        f[0] = 0 /\ \A k \in 1..n : f[k] = step[<<k, f[k - 1]>>]
  <2>1. 0 \in Nat
    OBVIOUS
  <2>2. PICK f : Recurs(f, n, Nat, 0, step)
    BY <1>2, <2>1, RecursionExists
  <2> QED
    BY <2>2 DEF Recurs
<1>5. f = [k \in 0..n |-> IF k = 0 THEN 0 ELSE f[k - 1] + Cost(k)]
  <2>1. ASSUME NEW k \in 0..n, k # 0 PROVE f[k] = f[k - 1] + Cost(k)
    <3>1. <<k, f[k - 1]>> \in (1..n) \X Nat
      BY <1>2, <2>1
    <3> QED
      BY <1>2, <1>3, <1>4, <2>1, <3>1
  <2> QED
    BY <1>4, <2>1
<1>6. Bounds(rows, cands, a)
        = [k \in 0..n |-> IF k = 0 THEN 0 ELSE Bounds(rows, cands, a)[k - 1] + Cost(k)]
  BY <1>5, Zenon DEF Bounds, Cost, n
<1> HIDE DEF sum
<1>7. sum = [k \in 0..n |-> IF k = 0 THEN 0 ELSE sum[k - 1] + Cost(k)]
  BY <1>6 DEF sum
<1>8. sum \in [0..n -> Nat]
  <2> DEFINE T == {k \in Nat : k <= n => sum[k] \in Nat}
  <2>1. 0 \in T
    BY <1>7
  <2>2. ASSUME NEW k \in T PROVE k + 1 \in T
    <3>1. ASSUME k + 1 <= n PROVE sum[k + 1] \in Nat
      <4>1. /\ k + 1 \in 0..n /\ k + 1 \in 1..n /\ k + 1 # 0 /\ k + 1 - 1 = k
            /\ sum[k] \in Nat
        BY <1>2, <3>1
      <4>2. sum[k + 1] = sum[k] + Cost(k + 1)
        <5> DEFINE i == k + 1
        <5>1. i \in 0..n /\ i # 0 /\ i - 1 = k
          BY <4>1
        <5> HIDE DEF i
        <5>2. sum[i] = sum[i - 1] + Cost(i)
          BY <1>7, <5>1
        <5> QED
          BY <5>1, <5>2 DEF i
      <4>3. Cost(k + 1) \in Nat
        BY <1>1, <4>1
      <4> QED
        BY <4>1, <4>2, <4>3
    <3> QED
      BY <3>1
  <2>3. T = Nat
    BY <2>1, <2>2, NatSets
  <2>4. \A k \in 0..n : sum[k] \in Nat
    BY <1>2, <2>3
  <2> HIDE DEF T
  <2> QED
    BY <1>7, <2>4
<1> QED
  BY <1>7, <1>8 DEF Cost, sum, n

LEMMA SumType ==
  ASSUME NEW rows \in [Models -> AIModel], NEW a, a.policy \in GenerationPolicy,
         NEW s \in Seq(Models)
  PROVE  SumOfBounds(rows, s, a) \in Nat
<1> DEFINE n == Len(s)
           sum == Bounds(rows, s, a)
<1>1. n \in 0..n
  OBVIOUS
<1>2. sum \in [0..n -> Nat]
  BY BoundsDefined
<1> HIDE DEF n, sum
<1>3. sum[n] \in Nat
  BY <1>1, <1>2
<1> QED
  BY <1>3 DEF SumOfBounds, n, sum

LEMMA SumEmpty ==
  ASSUME NEW rows \in [Models -> AIModel], NEW a, a.policy \in GenerationPolicy
  PROVE  SumOfBounds(rows, <<>>, a) = 0
<1>1. <<>> \in Seq(Models) /\ Len(<<>>) = 0
  OBVIOUS
<1> QED
  BY <1>1, BoundsDefined DEF SumOfBounds

LEMMA SumAppend ==
  ASSUME NEW rows \in [Models -> AIModel], NEW a, a.policy \in GenerationPolicy,
         NEW s \in Seq(Models), NEW m \in Models
  PROVE  SumOfBounds(rows, Append(s, m), a)
           = SumOfBounds(rows, s, a) + RequestCostBound(rows[m], a.policy, Feature(a))
<1> DEFINE t == Append(s, m)
           n == Len(s)
           f == Bounds(rows, s, a)
           g == Bounds(rows, t, a)
           Cost(r) == RequestCostBound(rows[r], a.policy, Feature(a))
           T == {k \in Nat : k <= n => g[k] = f[k]}
<1>1. /\ t \in Seq(Models) /\ n \in Nat /\ Len(t) = n + 1
      /\ t[n + 1] = m /\ \A k \in 1..n : t[k] = s[k]
  OBVIOUS
<1> HIDE DEF t, n
<1>2. f[0] = 0 /\ \A k \in 1..n : f[k] = f[k - 1] + Cost(s[k])
  BY BoundsDefined DEF n
<1>3. g[0] = 0 /\ \A k \in 1..(n + 1) : g[k] = g[k - 1] + Cost(t[k])
  <2>1. g[0] = 0 /\ \A k \in 1..Len(t) : g[k] = g[k - 1] + Cost(t[k])
    BY <1>1, BoundsDefined
  <2> HIDE DEF g, Cost
  <2> QED
    BY <1>1, <2>1
<1> HIDE DEF f, g, Cost
<1>4. ASSUME NEW k \in T PROVE k + 1 \in T
  <2>1. ASSUME k + 1 <= n PROVE g[k + 1] = f[k + 1]
    <3>1. k + 1 \in 1..n /\ k + 1 \in 1..(n + 1) /\ k + 1 - 1 = k /\ g[k] = f[k]
      BY <1>1, <2>1
    <3>2. t[k + 1] = s[k + 1]
      BY <1>1, <3>1
    <3>3. f[k + 1] = f[k] + Cost(s[k + 1]) /\ g[k + 1] = g[k] + Cost(t[k + 1])
      BY <1>2, <1>3, <3>1
    <3> QED
      BY <3>1, <3>2, <3>3
  <2> QED
    BY <2>1
<1>5. g[n] = f[n]
  <2>1. 0 \in T
    BY <1>2, <1>3
  <2>2. T = Nat
    BY <1>4, <2>1, NatSets
  <2> QED
    BY <1>1, <2>2
<1>6. n + 1 \in 1..(n + 1) /\ n + 1 - 1 = n
  BY <1>1
<1>7. g[n + 1] = g[n] + Cost(m)
  BY <1>1, <1>3, <1>6
<1>8. SumOfBounds(rows, t, a) = g[n + 1] /\ SumOfBounds(rows, s, a) = f[n]
  BY <1>1 DEF SumOfBounds, f, g, n
<1> QED
  BY <1>5, <1>7, <1>8 DEF Cost, t

FundingState == [chosen : Seq(Models), remaining : Nat]

Funds(done, m, model, policy, feature) ==
  IF Affords(done, model, policy, feature)
  THEN [chosen |-> Append(done.chosen, m),
        remaining |-> Remaining(done, RequestCostBound(model, policy, feature))]
  ELSE done

LEMMA FundsType ==
  ASSUME NEW done \in FundingState, NEW m \in Models, NEW model \in AIModel,
         NEW policy \in GenerationPolicy, NEW feature
  PROVE  Funds(done, m, model, policy, feature) \in FundingState
<1>1. RequestCostBound(model, policy, feature) \in Nat
  BY CostBoundType
<1>2. CASE Affords(done, model, policy, feature)
  <2>1. Remaining(done, RequestCostBound(model, policy, feature)) \in Nat
    BY <1>1, <1>2 DEF Affords, Remaining, FundingState
  <2>2. Append(done.chosen, m) \in Seq(Models)
    BY DEF FundingState
  <2> QED
    BY <1>2, <2>1, <2>2 DEF Funds, FundingState
<1> QED
  BY <1>2 DEF Funds

LEMMA FundingDefined ==
  ASSUME NEW rows \in [Models -> AIModel], NEW policy \in GenerationPolicy, NEW feature,
         NEW ranked \in Seq(Models)
  PROVE  LET done == Funding(rows, ranked, policy, feature)
         IN  /\ done[0] = [chosen |-> <<>>, remaining |-> AutoCredits(policy, feature) * Budget]
             /\ \A k \in 1..Len(ranked) :
                  done[k] = Funds(done[k - 1], ranked[k], rows[ranked[k]], policy, feature)
<1> DEFINE n == Len(ranked)
           start == [chosen |-> <<>>, remaining |-> AutoCredits(policy, feature) * Budget]
           Do(k, done) == Funds(done, ranked[k], rows[ranked[k]], policy, feature)
           step == [x \in (1..n) \X FundingState |-> Do(x[1], x[2])]
<1>1. n \in Nat /\ start \in FundingState
  BY CostBoundType, BudgetAssumption DEF AutoCredits, FundingState, GenerationPolicy
<1>2. step \in [(1..n) \X FundingState -> FundingState]
  <2>1. ASSUME NEW k \in 1..n, NEW done \in FundingState PROVE Do(k, done) \in FundingState
    BY FundsType
  <2> HIDE DEF Do
  <2> QED
    BY <2>1
<1>3. \A x \in (1..n) \X FundingState : step[x] = Do(x[1], x[2])
  OBVIOUS
<1> HIDE DEF step, Do, n, start, FundingState
<1>4. PICK f : Recurs(f, n, FundingState, start, step)
  BY <1>1, <1>2, RecursionExists
<1>5. f = [k \in 0..n |-> IF k = 0 THEN start ELSE Do(k, f[k - 1])]
  <2>1. ASSUME NEW k \in 0..n, k # 0 PROVE f[k] = Do(k, f[k - 1])
    <3>1. k \in 1..n /\ k - 1 \in 0..n
      BY <1>1, <2>1
    <3>2. f[k - 1] \in FundingState
      BY <1>4, <3>1 DEF Recurs
    <3>3. <<k, f[k - 1]>> \in (1..n) \X FundingState
      BY <3>1, <3>2
    <3> QED
      BY <1>3, <1>4, <3>1, <3>3 DEF Recurs
  <2> QED
    BY <1>4, <2>1 DEF Recurs
<1> DEFINE done == Funding(rows, ranked, policy, feature)
<1>6. done = [k \in 0..n |-> IF k = 0 THEN start ELSE Do(k, done[k - 1])]
  BY <1>5, Zenon DEF Funding, Do, Funds, n, start
<1> HIDE DEF done
<1>7. done[0] = start /\ \A k \in 1..n : done[k] = Do(k, done[k - 1])
  BY <1>1, <1>6
<1> QED
  BY <1>7 DEF Do, n, start, done

\* Lists without repetitions.
Distinct(s) == \A i, j \in DOMAIN s : s[i] = s[j] => i = j

LEMMA AffordableRight ==
  ASSUME NEW rows \in [Models -> AIModel], NEW a, a.policy \in GenerationPolicy,
         NEW ranked \in Seq(Models), Distinct(ranked)
  PROVE  LET chosen == AffordableCandidates(rows, ranked, a.policy, Feature(a))
         IN  /\ chosen \in Seq(Models) /\ Distinct(chosen)
             /\ \A i \in DOMAIN chosen : \E j \in DOMAIN ranked : chosen[i] = ranked[j]
             /\ SumOfBounds(rows, chosen, a) <= AutoCredits(a.policy, Feature(a)) * Budget
<1> DEFINE n == Len(ranked)
           feature == Feature(a)
           total == AutoCredits(a.policy, feature) * Budget
           done == Funding(rows, ranked, a.policy, feature)
           AllIn(s, k) == \A i \in DOMAIN s : \E j \in 1..k : s[i] = ranked[j]
           Right(d, k) == /\ d \in FundingState /\ Distinct(d.chosen) /\ AllIn(d.chosen, k)
                          /\ SumOfBounds(rows, d.chosen, a) + d.remaining = total
           T == {k \in Nat : k <= n => Right(done[k], k)}
<1>1. n \in Nat /\ total \in Nat
  BY CostBoundType, BudgetAssumption DEF AutoCredits, GenerationPolicy
<1>2. /\ done[0] = [chosen |-> <<>>, remaining |-> total]
      /\ \A k \in 1..n : done[k] = Funds(done[k - 1], ranked[k], rows[ranked[k]], a.policy, feature)
  BY FundingDefined
<1> HIDE DEF total, done
<1>3. Right(done[0], 0)
  <2>1. done[0].chosen = <<>> /\ done[0].remaining = total /\ done[0] \in FundingState
    BY <1>1, <1>2 DEF FundingState
  <2>2. SumOfBounds(rows, <<>>, a) = 0
    BY SumEmpty
  <2> QED
    BY <1>1, <2>1, <2>2 DEF Distinct
<1>4. ASSUME NEW k \in Nat, k + 1 <= n, Right(done[k], k) PROVE Right(done[k + 1], k + 1)
  <2> DEFINE d == done[k]
             e == done[k + 1]
             m == ranked[k + 1]
             model == rows[m]
             cost == RequestCostBound(model, a.policy, feature)
  <2>1. k + 1 \in 1..n /\ k + 1 \in DOMAIN ranked /\ m \in Models /\ model \in AIModel
    BY <1>1, <1>4
  <2>2. e = Funds(d, m, model, a.policy, feature)
    <3>1. k + 1 - 1 = k
      OBVIOUS
    <3> QED
      BY <1>2, <2>1, <3>1
  <2>3. e \in FundingState
    BY <1>4, <2>1, <2>2, FundsType
  <2>4. CASE Affords(d, model, a.policy, feature)
    <3> DEFINE t == Append(d.chosen, m)
    <3>1. /\ e.chosen = t /\ e.remaining = d.remaining - cost
          /\ d.chosen \in Seq(Models) /\ d.remaining \in Nat /\ cost \in Nat
      BY <1>4, <2>1, <2>2, <2>4, CostBoundType DEF Funds, Remaining, FundingState
    <3>2. /\ DOMAIN t = 1..(Len(d.chosen) + 1) /\ t[Len(d.chosen) + 1] = m
          /\ DOMAIN d.chosen = 1..Len(d.chosen) /\ Len(d.chosen) \in Nat
          /\ \A i \in 1..Len(d.chosen) : t[i] = d.chosen[i]
      <4> DEFINE l == d.chosen
      <4>1. l \in Seq(Models)
        BY <3>1
      <4> HIDE DEF l, m
      <4>2. /\ DOMAIN Append(l, m) = 1..(Len(l) + 1) /\ Append(l, m)[Len(l) + 1] = m
            /\ DOMAIN l = 1..Len(l) /\ Len(l) \in Nat
            /\ \A i \in 1..Len(l) : Append(l, m)[i] = l[i]
        BY <4>1
      <4> QED
        BY <4>2 DEF l
    <3> HIDE DEF t
    <3>3. \A i \in DOMAIN d.chosen : d.chosen[i] # m
      <4>1. ASSUME NEW j \in 1..k PROVE ranked[j] # m
        <5>1. j \in DOMAIN ranked /\ j # k + 1
          BY <1>1, <1>4
        <5> QED
          BY <2>1, <5>1 DEF Distinct
      <4> QED
        BY <1>4, <4>1
    <3>4. Distinct(t)
      <4> DEFINE l == d.chosen
                 o == Len(l)
      <4>1. \A i, j \in 1..o : l[i] = l[j] => i = j
        BY <1>4, <3>2 DEF Distinct
      <4>2. \A i \in 1..o : t[i] = l[i] /\ l[i] # m
        BY <3>2, <3>3
      <4>3. o \in Nat /\ DOMAIN t = 1..(o + 1) /\ t[o + 1] = m
        BY <3>2
      <4> HIDE DEF l, m, o
      <4>4. ASSUME NEW i \in 1..(o + 1), NEW j \in 1..(o + 1), t[i] = t[j] PROVE i = j
        BY <4>1, <4>2, <4>3, <4>4
      <4> QED
        BY <4>3, <4>4 DEF Distinct
    <3>5. AllIn(t, k + 1)
      <4>1. ASSUME NEW i \in DOMAIN t PROVE \E j \in 1..(k + 1) : t[i] = ranked[j]
        <5>1. CASE i = Len(d.chosen) + 1
          BY <3>2, <5>1
        <5>2. CASE i \in 1..Len(d.chosen)
          <6>1. PICK j \in 1..k : d.chosen[i] = ranked[j]
            BY <1>4, <3>2, <5>2
          <6>2. j \in 1..(k + 1)
            OBVIOUS
          <6> QED
            BY <3>2, <5>2, <6>1, <6>2
        <5> QED
          BY <3>2, <5>1, <5>2
      <4> QED
        BY <4>1
    <3>6. SumOfBounds(rows, t, a) = SumOfBounds(rows, d.chosen, a) + cost
      BY <2>1, <3>1, SumAppend DEF t
    <3>7. SumOfBounds(rows, d.chosen, a) = total - d.remaining
      <4>1. SumOfBounds(rows, d.chosen, a) \in Nat
        BY <3>1, SumType
      <4> QED
        BY <1>1, <1>4, <3>1, <4>1
    <3> QED
      BY <1>1, <2>3, <3>1, <3>4, <3>5, <3>6, <3>7
  <2>5. CASE ~Affords(d, model, a.policy, feature)
    <3>1. e = d
      BY <2>2, <2>5 DEF Funds
    <3>2. AllIn(d.chosen, k + 1)
      <4>1. 1..k \subseteq 1..(k + 1)
        OBVIOUS
      <4> QED
        BY <1>4, <4>1
    <3> QED
      BY <1>4, <3>1, <3>2
  <2> QED
    BY <2>4, <2>5
<1>5. Right(done[n], n)
  <2>1. 0 \in T
    BY <1>3
  <2>2. ASSUME NEW k \in T PROVE k + 1 \in T
    <3>1. k \in Nat /\ (k <= n => Right(done[k], k))
      OBVIOUS
    <3>2. k + 1 <= n => Right(done[k + 1], k + 1)
      <4>1. ASSUME k + 1 <= n PROVE k <= n
        BY <1>1, <3>1, <4>1
      <4> HIDE DEF Right
      <4> QED
        BY <1>4, <3>1, <4>1
    <3> QED
      BY <3>1, <3>2
  <2>3. T = Nat
    BY <2>1, <2>2, NatSets
  <2> QED
    BY <1>1, <2>3
<1> DEFINE chosen == AffordableCandidates(rows, ranked, a.policy, feature)
<1>6. chosen = done[n].chosen
  BY DEF AffordableCandidates, done
<1>7. /\ chosen \in Seq(Models) /\ Distinct(chosen) /\ AllIn(chosen, n)
      /\ SumOfBounds(rows, chosen, a) + done[n].remaining = total /\ done[n].remaining \in Nat
  BY <1>5, <1>6 DEF FundingState
<1> HIDE DEF chosen
<1>8. SumOfBounds(rows, chosen, a) \in Nat
  BY <1>7, SumType
<1>9. SumOfBounds(rows, chosen, a) <= total
  BY <1>1, <1>7, <1>8
<1> QED
  BY <1>7, <1>9 DEF chosen, total

(* A list with the fallback of its first model next is the same list in    *)
(* another order.                                                          *)
LEMMA WithFallbackRight ==
  ASSUME NEW rows, NEW ranked \in Seq(Models), Distinct(ranked)
  PROVE  LET s == WithFallback(rows, ranked)
         IN  /\ s \in Seq(Models) /\ Distinct(s)
             /\ \A i \in DOMAIN s : \E j \in DOMAIN ranked : s[i] = ranked[j]
<1> DEFINE n == Len(ranked)
           Is(k) == ranked[k] = rows[ranked[1]].fallbackId
<1>1. n \in Nat /\ DOMAIN ranked = 1..n /\ \A j \in 1..n : ranked[j] \in Models
  OBVIOUS
<1>2. CASE \A k \in 2..n : ~Is(k)
  BY <1>2 DEF WithFallback
<1>3. CASE \E k \in 2..n : Is(k)
  <2> DEFINE k == CHOOSE k \in 2..n : Is(k)
             From(j) == IF j = 1 \/ j > k THEN j ELSE IF j = 2 THEN k ELSE j - 1
             s == [j \in 1..n |-> ranked[From(j)]]
  <2>1. k \in 2..n
    BY <1>3
  <2>2. WithFallback(rows, ranked) = s
    BY <1>1, <1>3 DEF WithFallback
  <2> HIDE DEF k
  <2>3. \A j \in 1..n : From(j) \in 1..n
    BY <1>1, <2>1
  <2>4. \A i, j \in 1..n : From(i) = From(j) => i = j
    BY <1>1, <2>1
  <2> HIDE DEF From
  <2>5. s \in Seq(Models)
    BY <1>1, <2>3
  <2>6. DOMAIN s = 1..n /\ \A j \in 1..n : s[j] = ranked[From(j)]
    OBVIOUS
  <2> HIDE DEF s
  <2>7. Distinct(s)
    BY <1>1, <2>3, <2>4, <2>6 DEF Distinct
  <2>8. \A i \in DOMAIN s : \E j \in DOMAIN ranked : s[i] = ranked[j]
    BY <1>1, <2>3, <2>6
  <2> QED
    BY <2>2, <2>5, <2>7, <2>8
<1> QED
  BY <1>2, <1>3

(* The elements of a finite set can be listed in a strict total order. *)
Orders(R, S) ==
  /\ \A x \in S : <<x, x>> \notin R
  /\ \A x, y, z \in S : <<x, y>> \in R /\ <<y, z>> \in R => <<x, z>> \in R
  /\ \A x, y \in S : x = y \/ <<x, y>> \in R \/ <<y, x>> \in R

LEMMA ListedRight ==
  ASSUME NEW S, IsFiniteSet(S), NEW R, Orders(R, S)
  PROVE  LET n == Cardinality(S)
             s == Listed(S, R)
         IN  /\ n \in Nat /\ s \in [1..n -> S] /\ s \in Seq(S) /\ Len(s) = n
             /\ \A i, j \in 1..n : i < j => <<s[i], s[j]>> \in R
             /\ \A x \in S : \E i \in 1..n : s[i] = x
<1> DEFINE n == Cardinality(S)
           Below(x) == {y \in S : <<y, x>> \in R}
           h == [x \in S |-> Cardinality(Below(x)) + 1]
<1>1. n \in Nat
  BY FS_CardinalityType
<1>2. ASSUME NEW x \in S
      PROVE  /\ IsFiniteSet(Below(x)) /\ Cardinality(Below(x)) \in Nat
             /\ Cardinality(Below(x)) < n
  <2>1. Below(x) \in SUBSET S /\ Below(x) # S
    BY DEF Orders
  <2>2. IsFiniteSet(Below(x)) /\ Cardinality(Below(x)) <= n /\ Cardinality(Below(x)) # n
    BY <2>1, FS_Subset
  <2>3. Cardinality(Below(x)) \in Nat
    BY <2>2, FS_CardinalityType
  <2> QED
    BY <1>1, <2>2, <2>3
<1>3. ASSUME NEW x \in S, NEW y \in S, <<x, y>> \in R
      PROVE  Cardinality(Below(x)) < Cardinality(Below(y))
  <2>1. Below(x) \in SUBSET Below(y)
    BY <1>3 DEF Orders
  <2>2. x \in Below(y) /\ x \notin Below(x)
    BY <1>3 DEF Orders
  <2> HIDE DEF Below
  <2>3. /\ Cardinality(Below(x)) <= Cardinality(Below(y))
        /\ Cardinality(Below(x)) # Cardinality(Below(y))
    BY <1>2, <2>1, <2>2, FS_Subset
  <2> QED
    BY <1>2, <2>3
<1>4. /\ h \in [S -> 1..n]
      /\ \A x, y \in S : <<x, y>> \in R => h[x] < h[y]
  <2> HIDE DEF Below, n
  <2> QED
    BY <1>1, <1>2, <1>3
<1> HIDE DEF h
<1>5. ASSUME NEW x \in S, NEW y \in S, h[x] = h[y] PROVE x = y
  <2>1. h[x] \in 1..n /\ h[y] \in 1..n
    BY <1>4
  <2>2. ~(h[x] < h[y]) /\ ~(h[y] < h[x])
    BY <1>5, <2>1
  <2>3. <<x, y>> \notin R /\ <<y, x>> \notin R
    BY <1>4, <2>2, Zenon
  <2> QED
    BY <2>3, Zenon DEF Orders
<1>6. \A i \in 1..n : \E x \in S : h[x] = i
  <2>1. h \in Injection(S, 1..n)
    BY <1>4, <1>5 DEF Injection, IsInjective
  <2>2. IsFiniteSet(1..n) /\ Cardinality(1..n) = n
    BY <1>1, FS_Interval
  <2>3. h \in Surjection(S, 1..n)
    <3> DEFINE U == 1..n
    <3>1. h \in Injection(S, U) /\ IsFiniteSet(U) /\ Cardinality(S) = Cardinality(U)
      BY <2>1, <2>2
    <3> HIDE DEF U
    <3>2. h \in Surjection(S, U)
      BY <3>1, FS_Injection
    <3> QED
      BY <3>2 DEF U
  <2> QED
    BY <2>3 DEF Surjection
<1> DEFINE s == Listed(S, R)
<1>7. s \in [1..n -> S] /\ \A i \in 1..n : h[s[i]] = i
  <2>1. \A x \in S : h[x] = Cardinality(Below(x)) + 1 /\ Cardinality(Below(x)) \in Nat
    BY <1>2 DEF h
  <2>2. s = [i \in 1..n |-> CHOOSE x \in S : Cardinality(Below(x)) = i - 1]
    BY DEF Listed
  <2> HIDE DEF s, Below
  <2>3. ASSUME NEW i \in 1..n PROVE s[i] \in S /\ h[s[i]] = i
    <3>1. PICK x \in S : h[x] = i
      BY <1>6
    <3>2. Cardinality(Below(x)) = i - 1
      BY <1>1, <2>1, <3>1
    <3>3. s[i] \in S /\ Cardinality(Below(s[i])) = i - 1
      BY <2>2, <3>2
    <3> QED
      BY <1>1, <2>1, <3>3
  <2> QED
    BY <2>2, <2>3
<1> HIDE DEF s
<1>8. ASSUME NEW i \in 1..n, NEW j \in 1..n, i < j PROVE <<s[i], s[j]>> \in R
  <2>1. s[i] \in S /\ s[j] \in S /\ h[s[i]] = i /\ h[s[j]] = j
    BY <1>7
  <2>2. s[i] # s[j] /\ <<s[j], s[i]>> \notin R
    BY <1>4, <1>8, <2>1
  <2> QED
    BY <2>1, <2>2 DEF Orders
<1>9. ASSUME NEW x \in S PROVE \E i \in 1..n : s[i] = x
  <2>1. h[x] \in 1..n
    BY <1>4
  <2>2. h[s[h[x]]] = h[x] /\ s[h[x]] \in S
    BY <1>7, <2>1
  <2> QED
    BY <1>5, <2>1, <2>2
<1>10. s \in Seq(S) /\ Len(s) = n
  BY <1>1, <1>7
<1> QED
  BY <1>1, <1>7, <1>8, <1>9, <1>10 DEF n, s

LEMMA SortedExists ==
  ASSUME NEW S, IsFiniteSet(S), NEW R, Orders(R, S)
  PROVE  \E s \in [1..Cardinality(S) -> S] :
           \A i, j \in 1..Cardinality(S) : i < j => <<s[i], s[j]>> \in R
  BY ListedRight

PlaceOf(m) == CHOOSE j \in DOMAIN Order : Order[j] = m

LEMMA PlaceRight ==
  ASSUME NEW m \in Models
  PROVE  PlaceOf(m) \in Int /\ Order[PlaceOf(m)] = m
<1>1. \E j \in DOMAIN Order : Order[j] = m
  BY RoutingAssumption DEF Range
<1>2. PlaceOf(m) \in DOMAIN Order /\ Order[PlaceOf(m)] = m
  BY <1>1 DEF PlaceOf
<1>3. DOMAIN Order \subseteq Int
  BY RoutingAssumption
<1> QED
  BY <1>2, <1>3

LEMMA PrecedesOrders ==
  ASSUME NEW rows \in [Models -> AIModel], NEW policy \in GenerationPolicy
  PROVE  Orders({p \in Models \X Models : Precedes(rows, policy, p[1], p[2])}, Models)
<1> DEFINE R == {p \in Models \X Models : Precedes(rows, policy, p[1], p[2])}
           A(m) == IF policy.costWeight > 0 THEN Spend(rows[m], policy) ELSE 0
           B(m) == rows[m].routingCostScore
           C(m) == - rows[m].routingPriority
           D(m) == PlaceOf(m)
           Lex(m, o) == \/ A(m) < A(o)
                        \/ A(m) = A(o) /\ B(m) < B(o)
                        \/ A(m) = A(o) /\ B(m) = B(o) /\ C(m) < C(o)
                        \/ A(m) = A(o) /\ B(m) = B(o) /\ C(m) = C(o) /\ D(m) < D(o)
<1>1. ASSUME NEW m \in Models PROVE A(m) \in Int /\ B(m) \in Int /\ C(m) \in Int /\ D(m) \in Int
  <2>1. Spend(rows[m], policy) \in Int
    <3>1. /\ Tokens \in Nat /\ rows[m].inputPrice \in Nat /\ policy.maxOutput \in Nat
          /\ rows[m].outputPrice \in Nat
      BY RoutingAssumption DEF AIModel, GenerationPolicy
    <3>2. \A x, y \in Nat : x * y \in Nat
      OBVIOUS
    <3> QED
      BY <3>1, <3>2 DEF Spend
  <2>2. rows[m].routingCostScore \in Nat /\ rows[m].routingPriority \in Nat
    BY DEF AIModel
  <2> QED
    BY <2>1, <2>2, PlaceRight
<1>2. ASSUME NEW m \in Models, NEW o \in Models PROVE Precedes(rows, policy, m, o) <=> Lex(m, o)
  <2> DEFINE x == Rank(rows, policy, m)
             y == Rank(rows, policy, o)
  <2>1. /\ x[1] = A(m) /\ x[2] = B(m) /\ x[3] = C(m) /\ x[4] = D(m)
        /\ y[1] = A(o) /\ y[2] = B(o) /\ y[3] = C(o) /\ y[4] = D(o)
    BY DEF Rank, PlaceOf
  <2>2. Precedes(rows, policy, m, o)
          <=> \E j \in 1..4 : x[j] < y[j] /\ \A i \in 1..(j - 1) : x[i] = y[i]
    BY DEF Precedes
  <2> HIDE DEF x, y, A, B, C, D
  <2>3. 1..4 = {1, 2, 3, 4} /\ 1..(1 - 1) = {} /\ 1..(2 - 1) = {1} /\ 1..(3 - 1) = {1, 2}
        /\ 1..(4 - 1) = {1, 2, 3}
    OBVIOUS
  <2>4. (\E j \in 1..4 : x[j] < y[j] /\ \A i \in 1..(j - 1) : x[i] = y[i])
          <=> \/ x[1] < y[1]
              \/ x[1] = y[1] /\ x[2] < y[2]
              \/ x[1] = y[1] /\ x[2] = y[2] /\ x[3] < y[3]
              \/ x[1] = y[1] /\ x[2] = y[2] /\ x[3] = y[3] /\ x[4] < y[4]
    BY <2>3
  <2> QED
    BY <2>1, <2>2, <2>4
<1>3. ASSUME NEW m \in Models, NEW o \in Models PROVE <<m, o>> \in R <=> Lex(m, o)
  <2>1. <<m, o>> \in R <=> Precedes(rows, policy, m, o)
    OBVIOUS
  <2> QED
    BY <1>2, <2>1
<1> HIDE DEF A, B, C, R
<1>4. ASSUME NEW m \in Models PROVE <<m, m>> \notin R
  BY <1>1, <1>3
<1>5. ASSUME NEW x \in Models, NEW y \in Models, NEW z \in Models,
             <<x, y>> \in R, <<y, z>> \in R
      PROVE  <<x, z>> \in R
  <2>1. Lex(x, y) /\ Lex(y, z)
    BY <1>3, <1>5
  <2>2. Lex(x, z)
    BY <1>1, <2>1
  <2> QED
    BY <1>3, <2>2
<1>6. ASSUME NEW x \in Models, NEW y \in Models PROVE x = y \/ <<x, y>> \in R \/ <<y, x>> \in R
  <2>1. Lex(x, y) \/ Lex(y, x) \/ D(x) = D(y)
    BY <1>1
  <2>2. D(x) = D(y) => x = y
    BY PlaceRight
  <2> QED
    BY <1>3, <2>1, <2>2
<1> QED
  BY <1>4, <1>5, <1>6 DEF Orders, R

LEMMA RankRight ==
  ASSUME NEW rows \in [Models -> AIModel], NEW permitted \in SUBSET Models,
         NEW policy \in GenerationPolicy, NEW task
  PROVE  LET s == RankModels(rows, permitted, policy, task)
         IN  s \in Seq(Models) /\ Distinct(s) /\ \A i \in DOMAIN s : s[i] \in permitted
<1> DEFINE fit == Fit(rows, permitted, policy, task)
           n == Cardinality(fit)
           R == {p \in Models \X Models : Precedes(rows, policy, p[1], p[2])}
           Sorted(s) == \A i, j \in DOMAIN s : i < j => Precedes(rows, policy, s[i], s[j])
           s == RankModels(rows, permitted, policy, task)
<1>1. fit \subseteq permitted /\ fit \subseteq Models
  BY DEF Fit
<1>2. IsFiniteSet(fit) /\ n \in Nat
  BY <1>1, HealthAssumption, FS_Subset, FS_CardinalityType
<1>3. Orders(R, Models)
  BY PrecedesOrders
<1>4. \A x, y \in Models : <<x, y>> \in R <=> Precedes(rows, policy, x, y)
  OBVIOUS
<1> HIDE DEF R, fit
<1>5. Orders(R, fit)
  BY <1>1, <1>3 DEF Orders
<1>6. PICK t \in [1..n -> fit] : \A i, j \in 1..n : i < j => <<t[i], t[j]>> \in R
  BY <1>2, <1>5, SortedExists
<1> HIDE DEF n
<1>7. Sorted(t)
  BY <1>1, <1>4, <1>6
<1>8. s \in [1..n -> fit] /\ Sorted(s)
  BY <1>6, <1>7, Zenon DEF RankModels, fit, n
<1> HIDE DEF s
<1>9. s \in Seq(Models) /\ DOMAIN s = 1..n
  BY <1>1, <1>2, <1>8
<1>10. ASSUME NEW i \in DOMAIN s, NEW j \in DOMAIN s, i < j PROVE s[i] # s[j]
  <2>1. Precedes(rows, policy, s[i], s[j]) /\ s[i] \in Models /\ s[j] \in Models
    BY <1>1, <1>8, <1>10
  <2> QED
    BY <1>3, <1>4, <2>1 DEF Orders
<1>11. Distinct(s)
  BY <1>2, <1>9, <1>10 DEF Distinct
<1> QED
  BY <1>1, <1>8, <1>9, <1>11 DEF s

LEMMA CandidatesRight ==
  ASSUME NEW rows \in [Models -> AIModel], NEW a, a.policy \in GenerationPolicy,
         a.mode \in {"AUTO", "MANUAL"}, a.mode = "MANUAL" => a.target \in Models
  PROVE  LET s == Candidates(rows, a)
         IN  /\ s \in Seq(Models) /\ Distinct(s)
             /\ IF a.mode = "AUTO"
                THEN /\ \A i \in DOMAIN s : Available(s[i], now)
                     /\ SumOfBounds(rows, s, a) <= AutoCredits(a.policy, Feature(a)) * Budget
                ELSE s = <<>> \/ s = <<a.target>>
<1> DEFINE s == Candidates(rows, a)
<1>1. CASE a.mode = "AUTO"
  <2> DEFINE P == Permitted(rows, a)
             r == RankModels(rows, P, a.policy, a.task)
             t == WithFallback(rows, r)
             u == AffordableCandidates(rows, t, a.policy, Feature(a))
  <2>1. P \subseteq Models /\ \A m \in P : Available(m, now)
    BY <1>1 DEF Permitted, InService
  <2>2. s = u
    BY <1>1 DEF Candidates
  <2> HIDE DEF P
  <2>3. r \in Seq(Models) /\ Distinct(r) /\ \A i \in DOMAIN r : r[i] \in P
    BY <2>1, RankRight
  <2> HIDE DEF r
  <2>4. t \in Seq(Models) /\ Distinct(t) /\ \A i \in DOMAIN t : \E j \in DOMAIN r : t[i] = r[j]
    BY <2>3, WithFallbackRight
  <2> HIDE DEF t
  <2>5. /\ u \in Seq(Models) /\ Distinct(u)
        /\ \A i \in DOMAIN u : \E j \in DOMAIN t : u[i] = t[j]
        /\ SumOfBounds(rows, u, a) <= AutoCredits(a.policy, Feature(a)) * Budget
    BY <2>4, AffordableRight
  <2> HIDE DEF u
  <2>6. \A i \in DOMAIN u : Available(u[i], now)
    BY <2>1, <2>3, <2>4, <2>5
  <2> QED
    BY <1>1, <2>2, <2>5, <2>6
<1>2. CASE a.mode = "MANUAL"
  <2>1. s = <<>> \/ s = <<a.target>>
    BY <1>2 DEF Candidates
  <2>2. ASSUME NEW z \in Seq(Models), z = <<>> \/ z = <<a.target>> PROVE Distinct(z)
    BY <2>2 DEF Distinct
  <2>3. <<>> \in Seq(Models) /\ <<a.target>> \in Seq(Models)
    BY <1>2
  <2> HIDE DEF s
  <2>4. s \in Seq(Models) /\ Distinct(s)
    BY <2>1, <2>2, <2>3
  <2> QED
    BY <1>2, <2>1, <2>4 DEF s
<1> QED
  BY <1>1, <1>2

(* Rounding up never loses money. *)
LEMMA QuotientCovers ==
  ASSUME NEW a \in Nat, NEW b \in Nat \ {0}
  PROVE  Quotient(a, b) \in Nat /\ a <= Quotient(a, b) * b
<1> DEFINE c == a + b - 1
           q == c \div b
           r == c % b
<1>1. c \in Nat
  OBVIOUS
<1> HIDE DEF c
<1>2. q \in Nat /\ r \in 0..(b - 1) /\ c = b * q + r
  BY <1>1
<1> HIDE DEF q, r
<1>3. q * b = b * q
  BY <1>2
<1>4. b * q \in Nat
  BY <1>2
<1>5. a <= b * q
  BY <1>2, <1>4 DEF c
<1> QED
  BY <1>2, <1>3, <1>5 DEF Quotient, q, c

LEMMA PriceType ==
  ASSUME NEW rows \in [Models -> AIModel], NEW a, a.policy \in GenerationPolicy,
         a.mode = "MANUAL" => a.target \in Models, a.mode \in {"AUTO", "MANUAL"}
  PROVE  Price(rows, a) \in Nat
<1>1. CASE a.mode = "AUTO"
  BY <1>1 DEF Price, AutoCredits, GenerationPolicy
<1>2. CASE a.mode = "MANUAL"
  <2> DEFINE cost == RequestCostBound(rows[a.target], a.policy, Feature(a))
  <2>1. rows[a.target] \in AIModel /\ cost \in Nat
    BY <1>2, CostBoundType
  <2>2. rows[a.target].creditCost \in Nat
    BY <2>1 DEF AIModel
  <2> HIDE DEF cost
  <2>3. Quotient(cost, Budget) \in Nat
    BY <2>1, QuotientCovers, BudgetAssumption
  <2> QED
    BY <1>2, <2>2, <2>3 DEF Price, ModelCredits, NoPrice, Larger, cost
<1> QED
  BY <1>1, <1>2

(* The price of a choice funds all its attempts. *)
LEMMA PriceCovers ==
  ASSUME NEW rows \in [Models -> AIModel], NEW a, a.policy \in GenerationPolicy,
         a.mode \in {"AUTO", "MANUAL"}, a.mode = "MANUAL" => a.target \in Models,
         Candidates(rows, a) # <<>>, Price(rows, a) # NoPrice
  PROVE  SumOfBounds(rows, Candidates(rows, a), a) <= Price(rows, a) * Budget
<1>1. CASE a.mode = "AUTO"
  BY <1>1, CandidatesRight DEF Price
<1>2. CASE a.mode = "MANUAL"
  <2> DEFINE cost == RequestCostBound(rows[a.target], a.policy, Feature(a))
             q == Quotient(cost, Budget)
             p == Price(rows, a)
  <2>1. Candidates(rows, a) = <<a.target>> /\ rows[a.target] \in AIModel /\ cost \in Nat
    BY <1>2, CandidatesRight, CostBoundType
  <2>2. SumOfBounds(rows, <<a.target>>, a) = cost
    <3>1. <<a.target>> = Append(<<>>, a.target) /\ <<>> \in Seq(Models)
      BY <1>2
    <3>2. SumOfBounds(rows, Append(<<>>, a.target), a) = SumOfBounds(rows, <<>>, a) + cost
      BY <1>2, <3>1, SumAppend
    <3> QED
      BY <2>1, <3>1, <3>2, SumEmpty
  <2>3. p \in Nat /\ p >= q
    <3>1. p \in Nat
      BY <1>2, PriceType
    <3>2. p = Larger(Larger(1, rows[a.target].creditCost), q)
      BY <1>2 DEF Price, ModelCredits
    <3>3. rows[a.target].creditCost \in Nat /\ q \in Nat
      BY <2>1, QuotientCovers, BudgetAssumption DEF AIModel
    <3> HIDE DEF p, q
    <3> QED
      BY <3>1, <3>2, <3>3 DEF Larger
  <2> HIDE DEF cost, p
  <2>4. q \in Nat /\ cost <= q * Budget
    BY <2>1, QuotientCovers, BudgetAssumption
  <2> HIDE DEF q
  <2>5. q * Budget <= p * Budget
    <3> DEFINE d == p - q
    <3>1. d \in Nat /\ p = q + d
      BY <2>3, <2>4
    <3> HIDE DEF d
    <3>2. Budget \in Nat
      BY BudgetAssumption
    <3>3. p * Budget = q * Budget + d * Budget
      BY <2>4, <3>1, <3>2
    <3>4. d * Budget \in Nat /\ q * Budget \in Nat
      BY <2>4, <3>1, <3>2
    <3> QED
      BY <3>3, <3>4
  <2>6. q * Budget \in Nat /\ p * Budget \in Nat
    BY <2>3, <2>4, BudgetAssumption
  <2>7. cost <= p * Budget
    BY <2>1, <2>4, <2>5, <2>6
  <2> QED
    BY <2>1, <2>2, <2>7 DEF p
<1> QED
  BY <1>1, <1>2

EditState ==
  {NoEdit} \cup [pc : {"model"}, id : Models, row : AIModel]
           \cup [pc : {"policy"}, id : Buckets, row : GenerationPolicy]

\* What the client was shown holds until the choice, and the choice is funded.
Asked(a) ==
  /\ a.policy \in GenerationPolicy
  /\ a.pc # "away" => /\ a.mode \in Modes /\ a.target \in Models \cup {Nobody}
                      /\ a.task \in Tasks /\ (a.mode = "AUTO" <=> a.target = Nobody)
  /\ a.pc = "sent" => a.bound <= a.price * Budget /\ a.price <= a.maxCredits

RoutingInv ==
  /\ aiModel \in [Models -> AIModel] /\ policies \in [Buckets -> GenerationPolicy]
  /\ edit \in [Editors -> EditState]
  /\ call = [c \in Calls |-> call[c]]
  /\ ask \in [Calls -> Ask]
  /\ \A c \in Calls : /\ Asked(ask[c])
                      /\ ask[c].pc \in {"away", "shown", "asked"} => call[c].phase = "idle"

LEMMA RoutingInitRight == RoutingInit => RoutingInv
<1> SUFFICES ASSUME RoutingInit PROVE RoutingInv
  OBVIOUS
<1>1. aiModel \in [Models -> AIModel] /\ policies \in [Buckets -> GenerationPolicy]
  BY RoutingAssumption DEF RoutingInit
<1>2. edit \in [Editors -> EditState]
  BY DEF RoutingInit, EditState
<1>3. call = [c \in Calls |-> call[c]] /\ \A c \in Calls : call[c].phase = "idle"
  BY DEF RoutingInit, Init, NewCall
<1> DEFINE mode0 == CHOOSE mode \in Modes : TRUE
           task0 == CHOOSE task \in Tasks : TRUE
           policy0 == FirstPolicies["AUTO"]
           a == [pc |-> "away", mode |-> mode0, target |-> Nobody, task |-> task0,
                 maxCredits |-> 0, policy |-> policy0, price |-> 0, bound |-> 0]
<1>4. mode0 \in Modes /\ task0 \in Tasks
  BY RoutingAssumption
<1>5. policy0 \in GenerationPolicy
  BY RoutingAssumption DEF Buckets
<1>6. ask = [c \in Calls |-> a]
  BY DEF RoutingInit
<1> HIDE DEF mode0, task0, policy0
<1>7. a \in Ask /\ Asked(a)
  BY <1>4, <1>5 DEF Ask, Asked
<1> HIDE DEF a
<1> QED
  BY <1>1, <1>2, <1>3, <1>6, <1>7 DEF RoutingInv

(* A step of a client or of generate() up to the choice. *)
LEMMA AskingStep ==
  ASSUME RoutingInv, NEW c \in Calls, Asking(c)
  PROVE  /\ \E a : /\ Asks(c, a) /\ a \in Ask /\ Asked(a)
                   /\ a.pc \in {"away", "shown", "asked"} => call[c].phase = "idle" /\ UNCHANGED call
         /\ call[c].phase = "idle"
         /\ UNCHANGED <<now, health, older, registry>>
         /\ \/ UNCHANGED call
            \/ \E mode \in Modes, feature \in Features, cands \in Rankings :
                 Choose(c, mode, feature, cands)
<1> DEFINE x == ask[c]
<1>1. /\ x \in Ask /\ Asked(x) /\ policies \in [Buckets -> GenerationPolicy]
      /\ aiModel \in [Models -> AIModel]
      /\ x.pc \in {"away", "shown", "asked"} => call[c].phase = "idle"
  BY DEF RoutingInv
<1> HIDE DEF x
<1>2. ASSUME NEW mode \in Modes, NEW target \in Models \cup {Nobody}, NEW task \in Tasks,
             Show(c, mode, target, task)
      PROVE  \E a : Asks(c, a) /\ a \in Ask /\ Asked(a) /\ a.pc = "shown"
  <2> DEFINE a == [x EXCEPT !.pc = "shown", !.mode = mode, !.target = target, !.task = task]
             q == [a EXCEPT !.policy = policies[Bucket(a)]]
             p == Price(aiModel, q)
             b == [a EXCEPT !.maxCredits = p]
  <2>1. Asks(c, b) /\ (mode = "AUTO" <=> target = Nobody)
    BY <1>2 DEF Show, x
  <2>2. /\ a \in Ask /\ a.pc = "shown" /\ a.mode = mode /\ a.target = target /\ a.task = task
        /\ a.policy = x.policy
    BY <1>1 DEF Ask
  <2> HIDE DEF a
  <2>3. Bucket(a) \in Buckets
    BY <2>1, <2>2 DEF Bucket, Buckets
  <2>4. policies[Bucket(a)] \in GenerationPolicy
    BY <1>1, <2>3
  <2>5. q.policy \in GenerationPolicy /\ q.mode = mode /\ q.target = target
    BY <2>2, <2>4 DEF Ask
  <2>6. mode \in {"AUTO", "MANUAL"} /\ (mode = "MANUAL" => target \in Models)
    BY <2>1, GenerationAssumption
  <2> HIDE DEF q
  <2>7. p \in Nat
    BY <1>1, <2>5, <2>6, PriceType
  <2> HIDE DEF p
  <2>8. /\ b \in Ask /\ b.pc = "shown" /\ b.mode = mode /\ b.target = target /\ b.task = task
        /\ b.policy = x.policy
    BY <2>2, <2>7 DEF Ask
  <2> HIDE DEF b
  <2>9. Asked(b)
    BY <1>1, <2>1, <2>8 DEF Asked
  <2> QED
    BY <2>1, <2>8, <2>9
<1>3. ASSUME ReadPolicies(c)
      PROVE  \E a : Asks(c, a) /\ a \in Ask /\ Asked(a) /\ a.pc \in {"asked", "refused"}
  <2> DEFINE p == policies[Bucket(x)]
  <2>1. x.pc = "shown" /\ (Asks(c, [x EXCEPT !.pc = "asked", !.policy = p])
                           \/ Asks(c, [x EXCEPT !.pc = "refused"]))
    BY <1>3 DEF ReadPolicies, x
  <2>2. Bucket(x) \in Buckets
    BY <1>1, <2>1 DEF Bucket, Buckets, Asked
  <2>3. p \in GenerationPolicy
    BY <1>1, <2>2
  <2> HIDE DEF p
  <2>4. /\ [x EXCEPT !.pc = "asked", !.policy = p] \in Ask
        /\ Asked([x EXCEPT !.pc = "asked", !.policy = p])
        /\ [x EXCEPT !.pc = "asked", !.policy = p].pc = "asked"
    BY <1>1, <2>1, <2>3 DEF Ask, Asked
  <2>5. /\ [x EXCEPT !.pc = "refused"] \in Ask
        /\ Asked([x EXCEPT !.pc = "refused"])
        /\ [x EXCEPT !.pc = "refused"].pc = "refused"
    BY <1>1, <2>1 DEF Ask, Asked
  <2> QED
    BY <2>1, <2>4, <2>5
<1>4. ASSUME ChooseModels(c)
      PROVE  /\ \E a : Asks(c, a) /\ a \in Ask /\ Asked(a) /\ a.pc \in {"sent", "refused"}
             /\ \/ UNCHANGED call
                \/ \E mode \in Modes, feature \in Features, cands \in Rankings :
                     Choose(c, mode, feature, cands)
  <2> DEFINE s == Candidates(aiModel, x)
             p == Price(aiModel, x)
             sum == SumOfBounds(aiModel, s, x)
             a == [x EXCEPT !.pc = "sent", !.price = p, !.bound = sum]
             y == [call[c] EXCEPT !.phase = "chosen", !.mode = x.mode,
                                  !.feature = x.task.feature, !.cands = s]
  <2>1. /\ x.pc = "asked" /\ UNCHANGED <<now, health, older, registry>>
        /\ \/ /\ s # <<>> /\ p # NoPrice /\ p <= x.maxCredits
              /\ Asks(c, a) /\ Become(c, y)
           \/ Asks(c, [x EXCEPT !.pc = "refused"]) /\ UNCHANGED call
    BY <1>4 DEF ChooseModels, WithinCeiling, x
  <2>2. CASE Asks(c, [x EXCEPT !.pc = "refused"]) /\ UNCHANGED call
    <3>1. /\ [x EXCEPT !.pc = "refused"] \in Ask
          /\ Asked([x EXCEPT !.pc = "refused"])
          /\ [x EXCEPT !.pc = "refused"].pc = "refused"
      BY <1>1, <2>1 DEF Ask, Asked
    <3> QED
      BY <2>2, <3>1
  <2>3. CASE /\ s # <<>> /\ p # NoPrice /\ p <= x.maxCredits
             /\ Asks(c, a) /\ Become(c, y)
    <3>1. /\ x.policy \in GenerationPolicy /\ x.mode \in Modes /\ x.mode \in {"AUTO", "MANUAL"}
          /\ x.mode = "MANUAL" => x.target \in Models
          /\ x.task \in Tasks /\ x.task.feature \in Features
      BY <1>1, <2>1, RoutingAssumption, GenerationAssumption DEF Asked
    <3>2. p \in Nat /\ sum <= p * Budget
      BY <1>1, <2>3, <3>1, PriceType, PriceCovers
    <3>3. /\ s \in Seq(Models) /\ Distinct(s)
          /\ IF x.mode = "AUTO" THEN \A i \in DOMAIN s : Available(s[i], now)
             ELSE s = <<>> \/ s = <<x.target>>
      BY <1>1, <3>1, CandidatesRight
    <3>4. sum \in Nat
      BY <1>1, <3>1, <3>3, SumType
    <3> HIDE DEF s, p, sum
    <3>5. a \in Ask /\ Asked(a) /\ a.pc = "sent"
      BY <1>1, <2>1, <2>3, <3>2, <3>4 DEF Ask, Asked
    <3>6. s \in Rankings
      <4> DEFINE n == Len(s)
      <4>1. n \in Nat \ {0} /\ s \in [1..n -> Models]
        BY <2>3, <3>3
      <4>2. IsInjective(s)
        BY <3>3 DEF Distinct, IsInjective
      <4>3. n <= Cardinality(Models)
        <5>1. s \in Injection(1..n, Models)
          BY <4>1, <4>2 DEF Injection
        <5>2. Cardinality(1..n) = n
          BY <4>1, FS_Interval
        <5> HIDE DEF n
        <5>3. Cardinality(1..n) <= Cardinality(Models)
          BY <5>1, HealthAssumption, FS_Injection
        <5> QED
          BY <5>2, <5>3
      <4>4. n \in 1..Cardinality(Models)
        BY <4>1, <4>3, HealthAssumption, FS_CardinalityType
      <4> HIDE DEF n
      <4> QED
        BY <4>1, <4>2, <4>4, RoutingAssumption
    <3>7. call[c].phase = "idle"
      BY <1>1, <2>1
    <3>8. IF x.mode = "MANUAL" THEN Len(s) = 1 ELSE \A i \in DOMAIN s : Available(s[i], now)
      BY <2>3, <3>1, <3>3
    <3>9. Choose(c, x.mode, x.task.feature, s)
      BY <2>1, <2>3, <3>7, <3>8 DEF Choose
    <3> QED
      BY <2>3, <3>1, <3>5, <3>6, <3>9
  <2> QED
    BY <2>1, <2>2, <2>3
<1>5. CASE \E mode \in Modes, target \in Models \cup {Nobody}, task \in Tasks :
             Show(c, mode, target, task)
  <2>1. x.pc = "away" /\ UNCHANGED <<now, call, health, older, registry>>
    BY <1>5 DEF Show, x
  <2>2. \E a : Asks(c, a) /\ a \in Ask /\ Asked(a) /\ a.pc = "shown"
    BY <1>2, <1>5
  <2> QED
    BY <1>1, <2>1, <2>2
<1>6. CASE ReadPolicies(c)
  <2>1. x.pc = "shown" /\ UNCHANGED <<now, call, health, older, registry>>
    BY <1>6 DEF ReadPolicies, x
  <2> QED
    BY <1>1, <1>3, <1>6, <2>1
<1>7. CASE ChooseModels(c)
  <2>1. x.pc = "asked" /\ UNCHANGED <<now, health, older, registry>>
    BY <1>7 DEF ChooseModels, x
  <2>2. PICK a : Asks(c, a) /\ a \in Ask /\ Asked(a) /\ a.pc \in {"sent", "refused"}
    BY <1>4, <1>7
  <2> QED
    BY <1>1, <1>4, <1>7, <2>1, <2>2
<1> QED
  BY <1>5, <1>6, <1>7 DEF Asking

(* An attempt is a step of a call that has chosen its models. *)
LEMMA AttemptingBusy ==
  ASSUME NEW c \in Calls,
         \/ Reserved(c) \/ Refused(c) \/ Creation(c) \/ Streaming(c)
         \/ Saving(c) \/ Signals(c) \/ Settling(c)
  PROVE  call[c].phase # "idle" /\ \E y : Become(c, y)
<1>1. ASSUME NEW x, NEW category, NEW cause, Fail(c, x, category, cause)
      PROVE  \E y : Become(c, y)
  BY <1>1 DEF Fail
<1>2. ASSUME NEW x, Succeed(c, x) PROVE \E y : Become(c, y)
  BY <1>2 DEF Succeed
<1>3. CASE Reserved(c) \/ Refused(c)
  BY <1>3 DEF Reserved, Refused
<1>4. CASE Creation(c)
  BY <1>4 DEF Creation, MessagesCreated, MessagesFail
<1>5. CASE Streaming(c)
  <2>1. CASE \E text \in Outputs \cap {"blank", "some"} : Delta(c, text)
    BY <2>1 DEF Delta
  <2>2. CASE UsageReported(c)
    BY <2>2 DEF UsageReported
  <2>3. CASE Image(c)
    BY <1>1, <2>3 DEF Image
  <2>4. CASE StreamReturns(c)
    BY <1>1, <1>2, <2>4 DEF StreamReturns
  <2>5. CASE \E category \in Categories \ {"CANCELLED"} : StreamFails(c, category)
    BY <1>1, <2>5 DEF StreamFails
  <2> QED
    BY <1>5, <2>1, <2>2, <2>3, <2>4, <2>5 DEF Streaming
<1>6. CASE Saving(c)
  BY <1>1, <1>2, <1>6 DEF Saving, ImageSaved, SaveFails, DocumentSaved
<1>7. CASE Signals(c)
  BY <1>7 DEF Signals, Cancel, Deadline, DeadlineDue, AttemptTimeout, AttemptDue, Running
<1>8. CASE Settling(c)
  BY <1>8 DEF Settling, Finish, FinishFails
<1> QED
  BY <1>3, <1>4, <1>5, <1>6, <1>7, <1>8

LEMMA EditingStep ==
  ASSUME RoutingInv, NEW e \in Editors, Editing(e)
  PROVE  /\ UNCHANGED requests
         /\ aiModel' \in [Models -> AIModel] /\ policies' \in [Buckets -> GenerationPolicy]
         /\ edit' \in [Editors -> EditState]
<1>1. /\ aiModel \in [Models -> AIModel] /\ policies \in [Buckets -> GenerationPolicy]
      /\ edit \in [Editors -> EditState] /\ NoEdit \in EditState
  BY DEF RoutingInv, EditState
<1>2. ASSUME NEW x \in ModelEdits, SaveModel(e, x[1], x[2])
      PROVE  UNCHANGED <<requests, aiModel, policies>> /\ edit' \in [Editors -> EditState]
  <2>1. [pc |-> "model", id |-> x[1], row |-> x[2]] \in EditState
    BY RoutingAssumption DEF EditState
  <2> QED
    BY <1>1, <1>2, <2>1 DEF SaveModel
<1>3. ASSUME NEW x \in PolicyEdits, SavePolicy(e, x[1], x[2])
      PROVE  UNCHANGED <<requests, aiModel, policies>> /\ edit' \in [Editors -> EditState]
  <2>1. [pc |-> "policy", id |-> x[1], row |-> x[2]] \in EditState
    BY RoutingAssumption DEF EditState
  <2> QED
    BY <1>1, <1>3, <2>1 DEF SavePolicy
<1>4. /\ edit[e].pc = "model" => edit[e].id \in Models /\ edit[e].row \in AIModel
      /\ edit[e].pc = "policy" => edit[e].id \in Buckets /\ edit[e].row \in GenerationPolicy
  <2>1. edit[e] \in EditState
    BY <1>1
  <2> HIDE DEF AIModel
  <2> QED
    BY <2>1 DEF EditState, NoEdit
<1>5. CASE WriteModel(e)
  BY <1>1, <1>4, <1>5 DEF WriteModel
<1>6. CASE WritePolicy(e)
  BY <1>1, <1>4, <1>6 DEF WritePolicy
<1>7. CASE \E x \in ModelEdits : SaveModel(e, x[1], x[2])
  BY <1>1, <1>2, <1>7
<1>8. CASE \E x \in PolicyEdits : SavePolicy(e, x[1], x[2])
  BY <1>1, <1>3, <1>8
<1> QED
  BY <1>5, <1>6, <1>7, <1>8 DEF Editing

LEMMA RoutingNextRight ==
  ASSUME RoutingInv, [RoutingNext]_<<requests, registry>>
  PROVE  RoutingInv' /\ [Next]_vars
<1>1. /\ aiModel \in [Models -> AIModel] /\ policies \in [Buckets -> GenerationPolicy]
      /\ edit \in [Editors -> EditState] /\ ask \in [Calls -> Ask]
      /\ call = [c \in Calls |-> call[c]]
      /\ \A c \in Calls : Asked(ask[c])
      /\ \A c \in Calls : ask[c].pc \in {"away", "shown", "asked"} => call[c].phase = "idle"
  BY DEF RoutingInv
<1>2. ASSUME NEW c \in Calls, Asking(c) PROVE RoutingInv' /\ [Next]_vars
  <2>1. PICK a : /\ Asks(c, a) /\ a \in Ask /\ Asked(a)
                 /\ a.pc \in {"away", "shown", "asked"} => call[c].phase = "idle" /\ UNCHANGED call
    BY <1>2, AskingStep
  <2>2. /\ UNCHANGED <<now, health, older, registry>>
        /\ \/ UNCHANGED call
           \/ \E mode \in Modes, feature \in Features, cands \in Rankings :
                Choose(c, mode, feature, cands)
    BY <1>2, AskingStep
  <2>3. ask' \in [Calls -> Ask] /\ ask'[c] = a
        /\ \A d \in Calls \ {c} : ask'[d] = ask[d]
    BY <1>1, <2>1 DEF Asks
  <2>4. /\ call' = [d \in Calls |-> call'[d]]
        /\ \A d \in Calls \ {c} : call'[d] = call[d]
    BY <1>1, <2>2 DEF Choose, Become
  <2>5. \A d \in Calls : /\ Asked(ask'[d])
                         /\ ask'[d].pc \in {"away", "shown", "asked"} => call'[d].phase = "idle"
    BY <1>1, <2>1, <2>3, <2>4
  <2>6. [Next]_vars
    BY <2>2 DEF Next, Admission, vars
  <2>7. (\A d \in Calls : Asked(ask[d]))'
    BY <2>5 DEF Asked
  <2> QED
    BY <1>1, <2>2, <2>3, <2>4, <2>5, <2>6, <2>7 DEF RoutingInv, registry, Asked
<1>3. ASSUME NEW e \in Editors, Editing(e) PROVE RoutingInv' /\ [Next]_vars
  <2>1. /\ UNCHANGED requests
        /\ aiModel' \in [Models -> AIModel] /\ policies' \in [Buckets -> GenerationPolicy]
        /\ edit' \in [Editors -> EditState]
    BY <1>3, EditingStep
  <2> QED
    BY <1>1, <2>1 DEF RoutingInv, requests, vars, Asked
<1>4. ASSUME Attempting, UNCHANGED <<registry, ask>> PROVE RoutingInv' /\ [Next]_vars
  <2>1. [Next]_vars
    BY <1>4 DEF Attempting, Next, Admission
  <2>2. /\ call' = [d \in Calls |-> call'[d]]
        /\ \A d \in Calls : call[d].phase = "idle" => call'[d] = call[d]
    <3>1. CASE \E c \in Calls : \/ Reserved(c) \/ Refused(c) \/ Creation(c) \/ Streaming(c)
                                \/ Saving(c) \/ Signals(c) \/ Settling(c)
      <4>1. PICK c \in Calls : call[c].phase # "idle" /\ \E y : Become(c, y)
        BY <3>1, AttemptingBusy
      <4> QED
        BY <1>1, <4>1 DEF Become
    <3>2. CASE Tick
      BY <1>1, <3>2 DEF Tick
    <3>3. CASE Terminating
      BY <1>1, <3>3 DEF Terminating, vars
    <3> QED
      BY <1>4, <3>1, <3>2, <3>3 DEF Attempting
  <2> QED
    BY <1>1, <1>4, <2>1, <2>2 DEF RoutingInv, registry, Asked
<1>5. ASSUME UNCHANGED <<requests, registry>> PROVE RoutingInv' /\ [Next]_vars
  BY <1>1, <1>5 DEF RoutingInv, requests, registry, vars, Asked
<1> QED
  BY <1>2, <1>3, <1>4, <1>5 DEF RoutingNext

THEOREM RoutingInvariant == RoutingSpec => []RoutingInv
<1>1. RoutingInit => RoutingInv
  BY RoutingInitRight
<1>2. RoutingInv /\ [RoutingNext]_<<requests, registry>> => RoutingInv'
  BY RoutingNextRight
<1> QED
  BY <1>1, <1>2, PTL DEF RoutingSpec

(* Whatever administrators change after a client was shown the price, it   *)
(* pays no more, and what it pays funds all the models that its request    *)
(* may call.                                                               *)
THEOREM PricesCover == RoutingSpec => []BudgetCovers
<1>1. RoutingInv => BudgetCovers
  BY DEF RoutingInv, Asked, BudgetCovers
<1> QED
  BY <1>1, RoutingInvariant, PTL

(* The choice that registry, ranking, fallback and budget make is one that *)
(* module Generation allows: routing implements it.                        *)
THEOREM ChoicesAreGood == RoutingSpec => ChoosesWell
<1>1. RoutingInit => Init
  BY DEF RoutingInit
<1>2. RoutingInv /\ [RoutingNext]_<<requests, registry>> => [Next]_vars
  BY RoutingNextRight
<1> QED
  BY <1>1, <1>2, RoutingInvariant, PTL DEF RoutingSpec, ChoosesWell, Spec

(* And so what is proved of Generation holds when routing makes the choice. *)
THEOREM RoutedCallsRest == RoutingSpec => []RestsAfterFailures
  BY ChoicesAreGood, RestsIndeed, PTL DEF ChoosesWell

----------------------------------------------------------------------------
(* The wire.  A converted frame is Plain(r, j), the converted reply is the *)
(* frames one after the other, Text(r, i) its symbol i; symbol p of the    *)
(* wire becomes symbol Becomes(r, p) of it, a CR with the LF after it.     *)
Annotated(r) == r.vendor \in {"OPENAI", "ANTHROPIC"}
Size(r)  == Len(Frame(r, 1))
Short(r) == IF Annotated(r) THEN 5 ELSE 3

Plain(r, j) == IF Annotated(r) THEN <<Note, LF, j, LF, LF>> ELSE <<j, LF, LF>>

Folded(r) ==
  IF r.crlf THEN IF Annotated(r) THEN <<1, 2, 2, 3, 4, 4, 5, 5>> ELSE <<1, 2, 2, 3, 3>>
  ELSE IF Annotated(r) THEN <<1, 2, 3, 4, 5>> ELSE <<1, 2, 3>>

Text(r, i) == Plain(r, ((i - 1) \div Short(r)) + 1)[((i - 1) % Short(r)) + 1]

Becomes(r, p) ==
  IF p = 0 THEN 0
  ELSE ((p - 1) \div Size(r)) * Short(r) + Folded(r)[((p - 1) % Size(r)) + 1]

\* Position p is place o of part q + 1, where all parts have length d.
Splits(p, d, q, o) == q \in Nat /\ o \in 1..d /\ p = q * d + o

LEMMA Division ==
  ASSUME NEW d \in {3, 5, 8}
  PROVE  /\ \A p, q, o : Splits(p, d, q, o) =>
              (p - 1) \div d = q /\ ((p - 1) % d) + 1 = o /\ p \in Nat \ {0}
         /\ \A p \in Nat \ {0} : \E q, o : Splits(p, d, q, o)
<1>1. /\ \A q \in Nat, o \in 1..3 : (q * 3 + o - 1) \div 3 = q /\ ((q * 3 + o - 1) % 3) + 1 = o
      /\ \A q \in Nat, o \in 1..5 : (q * 5 + o - 1) \div 5 = q /\ ((q * 5 + o - 1) % 5) + 1 = o
      /\ \A q \in Nat, o \in 1..8 : (q * 8 + o - 1) \div 8 = q /\ ((q * 8 + o - 1) % 8) + 1 = o
  OBVIOUS
<1>2. ASSUME NEW p \in Nat \ {0}
      PROVE  \E q, o : Splits(p, d, q, o)
  <2> DEFINE q == (p - 1) \div d
             o == ((p - 1) % d) + 1
  <2>1. CASE d = 3
    <3>1. q \in Nat /\ o \in 1..d /\ p = q * d + o
      BY <2>1
    <3> QED
      BY <3>1 DEF Splits
  <2>2. CASE d = 5
    <3>1. q \in Nat /\ o \in 1..d /\ p = q * d + o
      BY <2>2
    <3> QED
      BY <3>1 DEF Splits
  <2>3. CASE d = 8
    <3>1. q \in Nat /\ o \in 1..d /\ p = q * d + o
      BY <2>3
    <3> QED
      BY <3>1 DEF Splits
  <2> QED
    BY <2>1, <2>2, <2>3
<1>3. ASSUME NEW p, NEW q, NEW o, Splits(p, d, q, o)
      PROVE  (p - 1) \div d = q /\ ((p - 1) % d) + 1 = o /\ p \in Nat \ {0}
  <2>1. CASE d = 3
    BY <1>1, <1>3, <2>1 DEF Splits
  <2>2. CASE d = 5
    BY <1>1, <1>3, <2>2 DEF Splits
  <2>3. CASE d = 8
    BY <1>1, <1>3, <2>3 DEF Splits
  <2> QED
    BY <2>1, <2>2, <2>3
<1> QED
  BY <1>2, <1>3

\* A reply whose wire is looked at.
Readable(r) == Len(r.events) \in Nat

LEMMA SizeIs ==
  ASSUME NEW r
  PROVE  /\ Size(r) = IF r.crlf THEN IF Annotated(r) THEN 8 ELSE 5 ELSE Short(r)
         /\ Size(r) \in {3, 5, 8} /\ Short(r) \in {3, 5}
         /\ \A j, i : Frame(r, j)[i] =
              IF r.crlf
              THEN IF Annotated(r) THEN <<Note, CR, LF, j, CR, LF, CR, LF>>[i] ELSE <<j, CR, LF, CR, LF>>[i]
              ELSE IF Annotated(r) THEN <<Note, LF, j, LF, LF>>[i] ELSE <<j, LF, LF>>[i]
  BY DEF Frame, Size, Short, Annotated

LEMMA TextIs ==
  ASSUME NEW r, NEW q \in Nat, NEW i \in 1..Short(r)
  PROVE  Text(r, q * Short(r) + i) = Plain(r, q + 1)[i]
<1> DEFINE p == q * Short(r) + i
<1>1. Short(r) \in {3, 5, 8} /\ Splits(p, Short(r), q, i)
  BY SizeIs DEF Splits
<1>2. (p - 1) \div Short(r) = q /\ ((p - 1) % Short(r)) + 1 = i
  BY <1>1, Division
<1> HIDE DEF p
<1>3. Text(r, p) = Plain(r, q + 1)[i]
  BY <1>2 DEF Text
<1> QED
  BY <1>3 DEF p

LEMMA WireIs ==
  ASSUME NEW r, Readable(r)
  PROVE  /\ Len(Wire(r)) = Size(r) * Len(r.events) /\ DOMAIN Wire(r) = 1..Len(Wire(r))
         /\ Len(Wire(r)) \in Nat
         /\ \A k \in 1..Len(Wire(r)) :
              Wire(r)[k] = Frame(r, ((k - 1) \div Size(r)) + 1)[((k - 1) % Size(r)) + 1]
<1> DEFINE n == Size(r) * Len(r.events)
<1>1. n \in Nat
  BY SizeIs DEF Readable
<1>2. Wire(r) = [k \in 1..n |->
                   Frame(r, ((k - 1) \div Size(r)) + 1)[((k - 1) % Size(r)) + 1]]
  BY DEF Wire, Size
<1> HIDE DEF n
<1>3. Len(Wire(r)) = n /\ DOMAIN Wire(r) = 1..n
  BY <1>1, <1>2
<1> QED
  BY <1>1, <1>2, <1>3 DEF n

LEMMA SymbolIs ==
  ASSUME NEW r, Readable(r), NEW p, NEW q, NEW o, Splits(p, Size(r), q, o)
  PROVE  /\ Becomes(r, p) = q * Short(r) + Folded(r)[o]
         /\ q < Len(r.events) <=> p \in 1..Len(Wire(r))
         /\ p \in 1..Len(Wire(r)) => Wire(r)[p] = Frame(r, q + 1)[o]
<1>1. Size(r) \in {3, 5, 8} /\ Len(r.events) \in Nat
  BY SizeIs DEF Readable
<1>2. (p - 1) \div Size(r) = q /\ ((p - 1) % Size(r)) + 1 = o /\ p \in Nat \ {0}
  BY <1>1, Division
<1>3. Becomes(r, p) = q * Short(r) + Folded(r)[o]
  BY <1>2 DEF Becomes
<1>4. p \in 1..Len(Wire(r)) => Wire(r)[p] = Frame(r, q + 1)[o]
  BY <1>2, WireIs
<1>5. q < Len(r.events) <=> p \in 1..Len(Wire(r))
  <2>1. q \in Nat /\ o \in 1..Size(r) /\ p = q * Size(r) + o
    BY DEF Splits
  <2>2. q < Len(r.events) <=> p <= Size(r) * Len(r.events)
    <3>1. CASE Size(r) = 3
      BY <1>1, <2>1, <3>1
    <3>2. CASE Size(r) = 5
      BY <1>1, <2>1, <3>2
    <3>3. CASE Size(r) = 8
      BY <1>1, <2>1, <3>3
    <3> QED
      BY <1>1, <3>1, <3>2, <3>3
  <2> QED
    BY <1>2, <2>2, WireIs
<1> QED
  BY <1>3, <1>4, <1>5

(* One symbol after the other.  *)
LEMMA Sizes ==
  ASSUME NEW r, Readable(r)
  PROVE  /\ Size(r) \in {3, 5, 8} /\ Short(r) \in {3, 5} /\ Len(r.events) \in Nat
         /\ Len(Wire(r)) \in Nat /\ Len(Wire(r)) = Size(r) * Len(r.events)
<1>1. Size(r) \in {3, 5, 8} /\ Short(r) \in {3, 5}
  BY SizeIs
<1>2. Len(Wire(r)) \in Nat /\ Len(Wire(r)) = Size(r) * Len(r.events)
  BY WireIs
<1> QED
  BY <1>1, <1>2 DEF Readable

\* What the symbols of a frame become.
LEMMA FoldedRight ==
  ASSUME NEW r, NEW j \in Nat \ {0}, NEW o \in 1..Size(r)
  PROVE  /\ Folded(r)[o] \in 1..Short(r) /\ Folded(r)[1] = 1 /\ Frame(r, j)[o] \in Int
         /\ Frame(r, j)[o] # CR => Frame(r, j)[o] = Plain(r, j)[Folded(r)[o]]
         /\ Frame(r, j)[o] = CR =>
              o + 1 \in 1..Size(r) /\ Frame(r, j)[o + 1] = LF /\ Folded(r)[o + 1] = Folded(r)[o]
         /\ Frame(r, j)[o] # CR /\ o # Size(r) => Folded(r)[o + 1] = Folded(r)[o] + 1
         /\ o = Size(r) => Frame(r, j)[o] = LF /\ Folded(r)[o] = Short(r)
<1>1. CASE Annotated(r) /\ r.crlf
  <2>1. Size(r) = 8 /\ Short(r) = 5 /\ Folded(r) = <<1, 2, 2, 3, 4, 4, 5, 5>>
    BY <1>1 DEF Size, Frame, Short, Folded, Annotated
  <2>2. Frame(r, j) = <<Note, CR, LF, j, CR, LF, CR, LF>> /\ Plain(r, j) = <<Note, LF, j, LF, LF>>
    BY <1>1 DEF Frame, Plain, Annotated
  <2> QED
    BY <2>1, <2>2 DEF Note, CR, LF
<1>2. CASE Annotated(r) /\ ~r.crlf
  <2>1. Size(r) = 5 /\ Short(r) = 5 /\ Folded(r) = <<1, 2, 3, 4, 5>>
    BY <1>2 DEF Size, Frame, Short, Folded, Annotated
  <2>2. Frame(r, j) = <<Note, LF, j, LF, LF>> /\ Plain(r, j) = <<Note, LF, j, LF, LF>>
    BY <1>2 DEF Frame, Plain, Annotated
  <2> QED
    BY <2>1, <2>2 DEF Note, CR, LF
<1>3. CASE ~Annotated(r) /\ r.crlf
  <2>1. Size(r) = 5 /\ Short(r) = 3 /\ Folded(r) = <<1, 2, 2, 3, 3>>
    BY <1>3 DEF Size, Frame, Short, Folded, Annotated
  <2>2. Frame(r, j) = <<j, CR, LF, CR, LF>> /\ Plain(r, j) = <<j, LF, LF>>
    BY <1>3 DEF Frame, Plain, Annotated
  <2> QED
    BY <2>1, <2>2 DEF Note, CR, LF
<1>4. CASE ~Annotated(r) /\ ~r.crlf
  <2>1. Size(r) = 3 /\ Short(r) = 3 /\ Folded(r) = <<1, 2, 3>>
    BY <1>4 DEF Size, Frame, Short, Folded, Annotated
  <2>2. Frame(r, j) = <<j, LF, LF>> /\ Plain(r, j) = <<j, LF, LF>>
    BY <1>4 DEF Frame, Plain, Annotated
  <2> QED
    BY <2>1, <2>2 DEF Note, CR, LF
<1> QED
  BY <1>1, <1>2, <1>3, <1>4

LEMMA FirstSymbol ==
  ASSUME NEW r, Readable(r)
  PROVE  Becomes(r, 1) = 1
<1>1. Splits(1, Size(r), 0, 1)
  BY SizeIs DEF Splits
<1>2. Becomes(r, 1) = 0 * Short(r) + Folded(r)[1]
  BY <1>1, SymbolIs
<1>3. Folded(r)[1] = 1
  BY DEF Folded
<1> QED
  BY <1>2, <1>3, SizeIs

LEMMA NextSymbol ==
  ASSUME NEW r, Readable(r), NEW p \in 1..Len(Wire(r))
  PROVE  /\ Becomes(r, p) \in 1..(Len(r.events) * Short(r)) /\ Wire(r)[p] \in Int
         /\ Wire(r)[p] # CR => Wire(r)[p] = Text(r, Becomes(r, p))
         /\ Wire(r)[p] = CR =>
              /\ p + 1 \in 1..Len(Wire(r)) /\ Wire(r)[p + 1] = LF
              /\ Becomes(r, p + 1) = Becomes(r, p)
         /\ Wire(r)[p] # CR => Becomes(r, p + 1) = Becomes(r, p) + 1
         /\ p = Len(Wire(r)) => Becomes(r, p) = Len(r.events) * Short(r) /\ Wire(r)[p] = LF
<1> DEFINE N == Len(r.events)
           B == Len(r.events) * Short(r)
<1>0. Len(Wire(r)) \in Nat /\ Size(r) \in {3, 5, 8} /\ Short(r) \in {3, 5} /\ N \in Nat
  BY Sizes
<1>1. PICK q, o : Splits(p, Size(r), q, o)
  <2>1. p \in Nat \ {0}
    BY <1>0
  <2> QED
    BY <1>0, <2>1, Division
<1>2. q \in Nat /\ o \in 1..Size(r) /\ p = q * Size(r) + o
  BY <1>1 DEF Splits
<1>9. q + 1 \in Nat \ {0}
  BY <1>2
<1>3. Wire(r)[p] = Frame(r, q + 1)[o] /\ Becomes(r, p) = q * Short(r) + Folded(r)[o] /\ q < Len(r.events)
  BY <1>1, SymbolIs
<1>4. /\ Folded(r)[o] \in 1..Short(r) /\ Folded(r)[1] = 1 /\ Wire(r)[p] \in Int
      /\ Wire(r)[p] # CR => Wire(r)[p] = Plain(r, q + 1)[Folded(r)[o]]
      /\ Wire(r)[p] = CR =>
           o + 1 \in 1..Size(r) /\ Frame(r, q + 1)[o + 1] = LF /\ Folded(r)[o + 1] = Folded(r)[o]
      /\ Wire(r)[p] # CR /\ o # Size(r) => Folded(r)[o + 1] = Folded(r)[o] + 1
      /\ o = Size(r) => Wire(r)[p] = LF /\ Folded(r)[o] = Short(r)
  BY <1>2, <1>3, <1>9, FoldedRight
<1>5. Wire(r)[p] # CR => Wire(r)[p] = Text(r, Becomes(r, p))
  <2>1. Text(r, Becomes(r, p)) = Plain(r, q + 1)[Folded(r)[o]]
    <3>1. q \in Nat /\ Folded(r)[o] \in 1..Short(r)
      BY <1>2, <1>4
    <3>2. Text(r, q * Short(r) + Folded(r)[o]) = Plain(r, q + 1)[Folded(r)[o]]
      BY <3>1, TextIs, Zenon
    <3> QED
      BY <1>3, <3>2, Zenon
  <2> QED
    BY <1>4, <2>1
<1>6. Becomes(r, p) \in 1..B
  <2> DEFINE f == Folded(r)[o]
  <2>0. f \in 1..Short(r) /\ Becomes(r, p) = q * Short(r) + f /\ q < N
    BY <1>3, <1>4
  <2> HIDE DEF f, N
  <2>1. CASE Short(r) = 3
    BY <1>0, <1>2, <2>0, <2>1 DEF N
  <2>2. CASE Short(r) = 5
    <3>1. f \in 1..5 /\ Becomes(r, p) = q * 5 + f /\ B = N * 5
      BY <2>0, <2>2 DEF N
    <3> HIDE DEF B
    <3> QED
      BY <1>0, <1>2, <2>0, <3>1
  <2> QED
    BY <1>0, <2>1, <2>2
<1>7. CASE o # Size(r)
  <2>1. Splits(p + 1, Size(r), q, o + 1)
    <3>1. o + 1 \in 1..Size(r) /\ p + 1 = q * Size(r) + (o + 1)
      <4> DEFINE d == Size(r)
                 z == q * d
      <4>1. d \in Nat /\ z \in Nat /\ o \in 1..d /\ o # d /\ p = z + o
        BY <1>0, <1>2, <1>7
      <4> HIDE DEF d, z
      <4>2. o + 1 \in 1..d /\ p + 1 = z + (o + 1)
        BY <4>1
      <4> QED
        BY <4>2 DEF d, z
    <3> QED
      BY <1>2, <3>1 DEF Splits
  <2>2. /\ Becomes(r, p + 1) = q * Short(r) + Folded(r)[o + 1]
        /\ p + 1 \in 1..Len(Wire(r)) /\ Wire(r)[p + 1] = Frame(r, q + 1)[o + 1]
    <3>1. /\ Becomes(r, p + 1) = q * Short(r) + Folded(r)[o + 1]
          /\ q < Len(r.events) <=> p + 1 \in 1..Len(Wire(r))
          /\ p + 1 \in 1..Len(Wire(r)) => Wire(r)[p + 1] = Frame(r, q + 1)[o + 1]
      BY <2>1, SymbolIs
    <3>2. q < Len(r.events)
      BY <1>3
    <3> QED
      BY <3>1, <3>2, Zenon
  <2>3. Wire(r)[p] = CR => Wire(r)[p + 1] = LF /\ Becomes(r, p + 1) = Becomes(r, p)
    BY <1>3, <1>4, <2>2
  <2>4. q * Short(r) \in Nat
    BY <1>0, <1>2
  <2>5. Wire(r)[p] # CR => Becomes(r, p + 1) = Becomes(r, p) + 1
    BY <1>0, <1>3, <1>4, <1>7, <2>2, <2>4
  <2>6. p # Len(Wire(r))
    BY <1>0, <2>2
  <2> QED
    BY <1>4, <1>5, <1>6, <2>2, <2>3, <2>5, <2>6
<1>8. CASE o = Size(r)
  <2>1. Wire(r)[p] # CR /\ Wire(r)[p] = LF
    BY <1>4, <1>8 DEF CR, LF
  <2>2. Splits(p + 1, Size(r), q + 1, 1)
    BY <1>0, <1>2, <1>8 DEF Splits
  <2>3. /\ Becomes(r, p + 1) = (q + 1) * Short(r) + 1
        /\ q + 1 < Len(r.events) <=> p + 1 \in 1..Len(Wire(r))
    BY <1>4, <2>2, SymbolIs
  <2>4. Becomes(r, p) = q * Short(r) + Short(r)
    BY <1>3, <1>4, <1>8
  <2>5. (q + 1) * Short(r) = q * Short(r) + Short(r) /\ q * Short(r) \in Nat
    BY <1>0, <1>2
  <2>6. Becomes(r, p + 1) = Becomes(r, p) + 1 /\ Becomes(r, p) = (q + 1) * Short(r)
    BY <2>3, <2>4, <2>5
  <2>7. p = Len(Wire(r)) => q + 1 = N
    BY <1>0, <1>2, <1>3, <2>3
  <2>8. p = Len(Wire(r)) => Becomes(r, p) = B
    BY <2>6, <2>7
  <2> QED
    BY <1>4, <1>5, <1>6, <2>1, <2>6, <2>8
<1> QED
  BY <1>7, <1>8

LEMMA TextPlain ==
  ASSUME NEW r, NEW i \in Nat \ {0}
  PROVE  Text(r, i) # CR /\ Text(r, i) \in Int
<1>1. Short(r) \in {3, 5, 8}
  BY SizeIs
<1>2. PICK q, o : Splits(i, Short(r), q, o)
  BY <1>1, Division
<1>3. q \in Nat /\ o \in 1..Short(r) /\ i = q * Short(r) + o
  BY <1>2 DEF Splits
<1>4. Text(r, i) = Plain(r, q + 1)[o]
  BY <1>3, TextIs
<1>5. Plain(r, q + 1)[o] # CR /\ Plain(r, q + 1)[o] \in Int
  BY <1>3 DEF Plain, Short, CR, LF, Note
<1> QED
  BY <1>4, <1>5

(* The buffer b holds what the first p symbols of the wire have become,    *)
(* without the h events that were taken from it; a CR at its end waits.    *)
Holds(r, b, p, h) ==
  /\ b \in Seq(Int) /\ h \in Nat /\ p \in 0..Len(Wire(r))
  /\ Len(b) = Becomes(r, p) - h * Short(r)
  /\ \A i \in 1..(Len(b) - 1) : b[i] = Text(r, h * Short(r) + i)
  /\ Len(b) > 0 => p > 0 /\ b[Len(b)] = Wire(r)[p]
  /\ Len(b) = 0 => p = 0 \/ Wire(r)[p] # CR

LEMMA HoldsTypes ==
  ASSUME NEW r, Readable(r), NEW b, NEW p, NEW h, Holds(r, b, p, h)
  PROVE  /\ b \in Seq(Int) /\ Len(b) \in Nat /\ h \in Nat /\ p \in Nat /\ p <= Len(Wire(r))
         /\ h * Short(r) \in Nat /\ Len(Wire(r)) \in Nat
         /\ \A i \in 1..(Len(b) - 1) : b[i] = Text(r, h * Short(r) + i)
<1>1. b \in Seq(Int) /\ h \in Nat /\ p \in 0..Len(Wire(r))
  BY DEF Holds
<1>2. \A i \in 1..(Len(b) - 1) : b[i] = Text(r, h * Short(r) + i)
  BY DEF Holds
<1>3. h * Short(r) \in Nat /\ Len(Wire(r)) \in Nat
  BY <1>1, Sizes
<1> QED
  BY <1>1, <1>2, <1>3

LEMMA PutType ==
  ASSUME NEW out \in Seq(Int), NEW s \in Int
  PROVE  /\ Put(out, s) \in Seq(Int)
         /\ s = LF /\ out # <<>> /\ out[Len(out)] = CR =>
              /\ Len(Put(out, s)) = Len(out) /\ Put(out, s)[Len(out)] = LF
              /\ \A i \in 1..(Len(out) - 1) : Put(out, s)[i] = out[i]
         /\ ~(s = LF /\ out # <<>> /\ out[Len(out)] = CR) =>
              /\ Len(Put(out, s)) = Len(out) + 1 /\ Put(out, s)[Len(out) + 1] = s
              /\ \A i \in 1..Len(out) : Put(out, s)[i] = out[i]
<1>1. LF \in Int /\ (out # <<>> => Len(out) \in 1..Len(out))
  BY DEF LF
<1>2. CASE s = LF /\ out # <<>> /\ out[Len(out)] = CR
  <2>1. Put(out, s) = [out EXCEPT ![Len(out)] = LF]
    BY <1>2 DEF Put
  <2> QED
    BY <1>1, <1>2, <2>1
<1>3. CASE ~(s = LF /\ out # <<>> /\ out[Len(out)] = CR)
  <2>1. Put(out, s) = Append(out, s)
    BY <1>3 DEF Put
  <2> QED
    BY <1>1, <1>3, <2>1
<1> QED
  BY <1>2, <1>3

\* One more symbol.
LEMMA PutRight ==
  ASSUME NEW r, Readable(r), NEW b, NEW p, NEW h, Holds(r, b, p, h), p < Len(Wire(r))
  PROVE  Holds(r, Put(b, Wire(r)[p + 1]), p + 1, h)
<1> DEFINE W == Wire(r)
           base == h * Short(r)
           s == W[p + 1]
           c == Put(b, s)
<1>1. /\ b \in Seq(Int) /\ h \in Nat /\ p \in 0..Len(W) /\ Len(W) \in Nat /\ p + 1 \in 1..Len(W)
      /\ base \in Nat /\ Len(b) \in Nat /\ Len(b) = Becomes(r, p) - base
      /\ Len(b) > 0 <=> b # <<>>
  BY Sizes DEF Holds
<1>2. s \in Int /\ Becomes(r, p + 1) \in Nat
  BY <1>1, NextSymbol, Sizes
<1>3. \A i \in 1..(Len(b) - 1) : b[i] = Text(r, base + i)
  BY DEF Holds
<1>4. CASE p > 0 /\ W[p] = CR
  <2>1. b # <<>> /\ b[Len(b)] = CR
    BY <1>1, <1>4 DEF Holds
  <2>2. p \in 1..Len(W)
    BY <1>1, <1>4
  <2>3. s = LF /\ Becomes(r, p + 1) = Becomes(r, p)
    BY <1>4, <2>2, NextSymbol
  <2>4. /\ c \in Seq(Int) /\ Len(c) = Len(b) /\ c[Len(b)] = LF
        /\ \A i \in 1..(Len(b) - 1) : c[i] = b[i]
    BY <1>1, <1>2, <2>1, <2>3, PutType
  <2> HIDE DEF W, base, s, c
  <2>5. Len(c) = Becomes(r, p + 1) - base
    BY <1>1, <2>3, <2>4
  <2>6. \A i \in 1..(Len(c) - 1) : c[i] = Text(r, base + i)
    BY <1>3, <2>4
  <2>7. Len(c) > 0 /\ c[Len(c)] = W[p + 1] /\ p + 1 > 0
    <3>1. c[Len(c)] = s
      BY <2>3, <2>4
    <3>2. Len(c) > 0 /\ p + 1 > 0
      BY <1>1, <2>1, <2>4
    <3> QED
      BY <3>1, <3>2 DEF s
  <2>8. p + 1 \in 0..Len(W)
    BY <1>1
  <2>9. /\ c \in Seq(Int) /\ h \in Nat /\ p + 1 \in 0..Len(W)
        /\ Len(c) = Becomes(r, p + 1) - base
        /\ \A i \in 1..(Len(c) - 1) : c[i] = Text(r, base + i)
        /\ Len(c) > 0 => p + 1 > 0 /\ c[Len(c)] = W[p + 1]
        /\ Len(c) = 0 => p + 1 = 0 \/ W[p + 1] # CR
    BY <1>1, <2>4, <2>5, <2>6, <2>7, <2>8
  <2> QED
    BY <2>9, Zenon DEF Holds, W, base, s, c
<1>5. CASE p = 0 \/ W[p] # CR
  <2>1. b # <<>> => b[Len(b)] # CR
    BY <1>1, <1>5 DEF Holds
  <2>2. /\ c \in Seq(Int) /\ Len(c) = Len(b) + 1 /\ c[Len(b) + 1] = s
        /\ \A i \in 1..Len(b) : c[i] = b[i]
    BY <1>1, <1>2, <2>1, PutType
  <2>3. Becomes(r, p + 1) = Becomes(r, p) + 1
    <3>1. CASE p = 0
      BY <3>1, FirstSymbol DEF Becomes
    <3>2. CASE p # 0
      <4>1. p \in 1..Len(W)
        BY <1>1, <3>2
      <4> QED
        BY <1>5, <3>2, <4>1, NextSymbol
    <3> QED
      BY <3>1, <3>2
  <2>4. b # <<>> => b[Len(b)] = Text(r, base + Len(b))
    <3>1. SUFFICES ASSUME b # <<>> PROVE b[Len(b)] = Text(r, base + Len(b))
      OBVIOUS
    <3>2. p > 0 /\ b[Len(b)] = W[p]
      BY <1>1, <3>1 DEF Holds
    <3>3. p \in 1..Len(W) /\ W[p] # CR
      BY <1>1, <1>5, <3>2
    <3>4. W[p] = Text(r, Becomes(r, p)) /\ Becomes(r, p) \in Int
      BY <3>3, NextSymbol
    <3>5. Becomes(r, p) = base + Len(b)
      BY <1>1, <3>4
    <3> QED
      BY <3>2, <3>4, <3>5
  <2> HIDE DEF W, base, s, c
  <2>5. Becomes(r, p) \in Int
    <3>1. CASE p = 0
      BY <3>1 DEF Becomes
    <3>2. CASE p # 0
      <4>1. p \in 1..Len(W)
        BY <1>1, <3>2
      <4> QED
        BY <4>1, NextSymbol DEF W
    <3> QED
      BY <3>1, <3>2
  <2>6. Len(c) = Becomes(r, p + 1) - base
    BY <1>1, <2>2, <2>3, <2>5
  <2>7. ASSUME NEW i \in 1..(Len(c) - 1) PROVE c[i] = Text(r, base + i)
    <3>1. i \in 1..Len(b) /\ c[i] = b[i]
      BY <1>1, <2>2
    <3>2. CASE i = Len(b)
      BY <1>1, <2>4, <3>1, <3>2
    <3>3. CASE i \in 1..(Len(b) - 1)
      BY <1>3, <3>1, <3>3
    <3> QED
      BY <1>1, <3>1, <3>2, <3>3
  <2>8. Len(c) > 0 /\ c[Len(c)] = W[p + 1] /\ p + 1 > 0 /\ p + 1 \in 0..Len(W)
    BY <1>1, <2>2 DEF s
  <2>9. /\ c \in Seq(Int) /\ h \in Nat /\ p + 1 \in 0..Len(W)
        /\ Len(c) = Becomes(r, p + 1) - base
        /\ \A i \in 1..(Len(c) - 1) : c[i] = Text(r, base + i)
        /\ Len(c) > 0 => p + 1 > 0 /\ c[Len(c)] = W[p + 1]
        /\ Len(c) = 0 => p + 1 = 0 \/ W[p + 1] # CR
    BY <1>1, <2>2, <2>6, <2>7, <2>8
  <2> QED
    BY <2>9, Zenon DEF Holds, W, base, s, c
<1> QED
  BY <1>1, <1>4, <1>5

(* Conversion. *)
LEMMA ConvertedDefined ==
  ASSUME NEW text \in Seq(Int)
  PROVE  /\ Converted(text)[0] = <<>>
         /\ \A k \in 1..Len(text) : Converted(text)[k] = Put(Converted(text)[k - 1], text[k])
<1> DEFINE n == Len(text)
           start == <<>>
           Do(k, out) == Put(out, text[k])
           step == [x \in (1..n) \X Seq(Int) |-> Do(x[1], x[2])]
<1>1. n \in Nat /\ start \in Seq(Int)
  OBVIOUS
<1>2. step \in [(1..n) \X Seq(Int) -> Seq(Int)]
  <2>1. ASSUME NEW k \in 1..n, NEW out \in Seq(Int) PROVE Do(k, out) \in Seq(Int)
    BY PutType
  <2> HIDE DEF Do
  <2> QED
    BY <2>1
<1>3. \A x \in (1..n) \X Seq(Int) : step[x] = Do(x[1], x[2])
  OBVIOUS
<1> HIDE DEF step, Do, n, start
<1>4. PICK f : Recurs(f, n, Seq(Int), start, step)
  BY <1>1, <1>2, RecursionExists
<1>5. f = [k \in 0..n |-> IF k = 0 THEN start ELSE Do(k, f[k - 1])]
  <2>1. ASSUME NEW k \in 0..n, k # 0 PROVE f[k] = Do(k, f[k - 1])
    <3>1. k \in 1..n /\ k - 1 \in 0..n
      BY <1>1, <2>1
    <3>2. f[k - 1] \in Seq(Int)
      BY <1>4, <3>1 DEF Recurs
    <3>3. <<k, f[k - 1]>> \in (1..n) \X Seq(Int)
      BY <3>1, <3>2
    <3> QED
      BY <1>3, <1>4, <3>1, <3>3 DEF Recurs
  <2> QED
    BY <1>4, <2>1 DEF Recurs
<1> DEFINE done == Converted(text)
<1>6. done = [k \in 0..n |-> IF k = 0 THEN start ELSE Do(k, done[k - 1])]
  BY <1>5, Zenon DEF Converted, Do, n, start
<1> HIDE DEF done
<1>7. done[0] = start /\ \A k \in 1..n : done[k] = Do(k, done[k - 1])
  BY <1>1, <1>6
<1> QED
  BY <1>7 DEF Do, n, start, done

\* What has been converted already stays, and what a chunk adds goes on from it.
LEMMA UnixRight ==
  ASSUME NEW r, Readable(r), NEW b, NEW p, NEW h, Holds(r, b, p, h),
         NEW chunk \in Seq(Int), p + Len(chunk) <= Len(Wire(r)),
         \A i \in 1..Len(chunk) : chunk[i] = Wire(r)[p + i]
  PROVE  Holds(r, Normalised(b, chunk), p + Len(chunk), h)
<1> DEFINE text == b \o chunk
           out == Converted(text)
           m == Len(b)
           n == Len(chunk)
<1>0. p \in Nat /\ Len(Wire(r)) \in Nat
  BY HoldsTypes
<1>1. /\ b \in Seq(Int) /\ m \in Nat /\ n \in Nat /\ text \in Seq(Int) /\ Len(text) = m + n
      /\ p + n <= Len(Wire(r))
      /\ \A i \in 1..m : text[i] = b[i] /\ b[i] \in Int
      /\ \A j \in 1..n : text[m + j] = Wire(r)[p + j]
  <2>1. b \in Seq(Int)
    BY HoldsTypes
  <2> QED
    BY <2>1
<1>2. out[0] = <<>> /\ \A k \in 1..(m + n) : out[k] = Put(out[k - 1], text[k])
  BY <1>1, ConvertedDefined
<1>3. \A i \in 1..m : i < m => b[i] # CR
  <2>1. SUFFICES ASSUME NEW i \in 1..m, i < m PROVE b[i] # CR
    OBVIOUS
  <2>2. i \in 1..(Len(b) - 1)
    BY <1>1, <2>1
  <2>3. b[i] = Text(r, h * Short(r) + i)
    BY <2>2, HoldsTypes
  <2>4. h * Short(r) + i \in Nat \ {0}
    BY HoldsTypes
  <2> QED
    BY <2>3, <2>4, TextPlain
<1> HIDE DEF out, text, m, n
<1> DEFINE Copies(k) == out[k] \in Seq(Int) /\ Len(out[k]) = k /\ \A i \in 1..k : out[k][i] = b[i]
           S == {k \in Nat : k <= m => Copies(k)}
<1>4. S = Nat
  <2>1. 0 \in S
    <3>1. <<>> \in Seq(Int) /\ Len(<<>>) = 0
      OBVIOUS
    <3>2. Copies(0)
      BY <1>2, <3>1
    <3> HIDE DEF Copies
    <3> QED
      BY <3>2
  <2>2. ASSUME NEW k \in S PROVE k + 1 \in S
    <3>1. SUFFICES ASSUME k + 1 <= m PROVE Copies(k + 1)
      OBVIOUS
    <3>2. k \in Nat /\ Copies(k) /\ k + 1 \in 1..m /\ k + 1 \in 1..(m + n) /\ (k + 1) - 1 = k
      <4> HIDE DEF Copies
      <4>1. k \in Nat /\ (k <= m => Copies(k)) /\ k + 1 <= m
        BY <3>1
      <4> QED
        BY <1>1, <4>1
    <3>3. out[k + 1] = Put(out[k], text[k + 1]) /\ text[k + 1] = b[k + 1] /\ b[k + 1] \in Int
      <4>1. text[k + 1] = b[k + 1] /\ b[k + 1] \in Int
        BY <1>1, <3>2
      <4>2. out[k + 1] = Put(out[(k + 1) - 1], text[k + 1])
        BY <1>2, <3>2
      <4> QED
        BY <3>2, <4>1, <4>2
    <3>4. out[k] # <<>> => out[k][Len(out[k])] # CR
      <4>1. SUFFICES ASSUME out[k] # <<>> PROVE out[k][k] # CR
        BY <3>2
      <4>2. k \in 1..k /\ k < m
        <5>1. k # 0
          <6>1. out[k] \in Seq(Int) /\ Len(out[k]) = k
            BY <3>2
          <6> HIDE DEF Copies, S
          <6> QED
            BY <4>1, <6>1
        <5> HIDE DEF Copies
        <5> QED
          BY <1>1, <3>2, <5>1
      <4>3. k \in 1..m
        BY <1>1, <4>2
      <4> QED
        BY <1>3, <3>2, <4>2, <4>3
    <3> DEFINE c == Put(out[k], text[k + 1])
    <3>5. /\ c \in Seq(Int) /\ Len(c) = k + 1 /\ c[k + 1] = text[k + 1]
          /\ \A i \in 1..k : c[i] = out[k][i]
      <4> DEFINE o == out[k]
      <4>1. o \in Seq(Int) /\ Len(o) = k /\ text[k + 1] \in Int
        BY <3>2, <3>3
      <4>2. ~(text[k + 1] = LF /\ o # <<>> /\ o[Len(o)] = CR)
        BY <3>4
      <4> DEFINE s == text[k + 1]
      <4>3. c = Put(o, s)
        OBVIOUS
      <4> HIDE DEF o, c, s, Copies
      <4>5. /\ Put(o, s) \in Seq(Int) /\ Len(Put(o, s)) = Len(o) + 1 /\ Put(o, s)[Len(o) + 1] = s
            /\ \A i \in 1..Len(o) : Put(o, s)[i] = o[i]
        BY <4>1, <4>2, PutType DEF s
      <4>4. /\ c \in Seq(Int) /\ Len(c) = k + 1 /\ c[k + 1] = s
            /\ \A i \in 1..k : c[i] = o[i]
        BY <4>1, <4>3, <4>5
      <4> QED
        BY <4>4 DEF o, s
    <3> HIDE DEF c
    <3>6. ASSUME NEW i \in 1..(k + 1) PROVE c[i] = b[i]
      <4>1. CASE i = k + 1
        BY <3>3, <3>5, <4>1
      <4>2. CASE i \in 1..k
        <5>1. c[i] = out[k][i] /\ out[k][i] = b[i]
          BY <3>2, <3>5, <4>2
        <5> QED
          BY <5>1
      <4>3. i = k + 1 \/ i \in 1..k
        <5> HIDE DEF Copies
        <5> QED
          BY <3>2
      <4> QED
        BY <4>1, <4>2, <4>3
    <3>7. out[k + 1] = c
      BY <3>3 DEF c
    <3> QED
      BY <3>5, <3>6, <3>7
  <2> HIDE DEF S
  <2>3. S \in SUBSET Nat
    BY DEF S
  <2> QED
    BY <2>1, <2>2, <2>3, NatSets
<1>5. out[m] = b
  <2>1. Copies(m)
    <3> HIDE DEF Copies
    <3>1. m \in S
      <4> HIDE DEF S
      <4> QED
        BY <1>1, <1>4
    <3> QED
      BY <1>1, <3>1
  <2> HIDE DEF out
  <2> DEFINE c == out[m]
  <2>2. c \in Seq(Int) /\ Len(c) = m /\ \A i \in 1..m : c[i] = b[i]
    BY <2>1
  <2> HIDE DEF c
  <2>3. c = b
    <3>1. c \in [1..m -> Int] /\ b \in [1..m -> Int]
      BY <1>1, <2>2 DEF m
    <3> QED
      BY <1>1, <2>2, <3>1
  <2> QED
    BY <2>3 DEF c
<1> DEFINE T == {k \in Nat : k <= n => Holds(r, out[m + k], p + k, h)}
<1>6. T = Nat
  <2>1. 0 \in T
    BY <1>1, <1>0, <1>5
  <2>2. ASSUME NEW k \in T PROVE k + 1 \in T
    <3>1. SUFFICES ASSUME k + 1 <= n PROVE Holds(r, out[m + (k + 1)], p + (k + 1), h)
      OBVIOUS
    <3>2. k \in Nat /\ Holds(r, out[m + k], p + k, h)
      BY <1>1, <3>1
    <3>3. /\ k + 1 \in 1..n /\ m + (k + 1) \in 1..(m + n) /\ (m + (k + 1)) - 1 = m + k
          /\ p + (k + 1) = (p + k) + 1 /\ p + k < Len(Wire(r))
      BY <1>0, <1>1, <3>1, <3>2
    <3>4. text[m + (k + 1)] = Wire(r)[p + (k + 1)]
      BY <1>1, <3>3
    <3>5. out[m + (k + 1)] = Put(out[m + k], Wire(r)[(p + k) + 1])
      BY <1>2, <3>3, <3>4
    <3> DEFINE o == out[m + k]
               q == p + k
    <3>6. Holds(r, o, q, h) /\ q < Len(Wire(r))
      BY <3>2, <3>3
    <3> HIDE DEF o, q
    <3>7. Holds(r, Put(o, Wire(r)[q + 1]), q + 1, h)
      BY <3>6, PutRight
    <3> QED
      BY <3>3, <3>5, <3>7 DEF o, q
  <2> HIDE DEF T
  <2>3. T \in SUBSET Nat
    BY DEF T
  <2> QED
    BY <2>1, <2>2, <2>3, NatSets
<1>7. Holds(r, out[m + n], p + n, h)
  BY <1>1, <1>6
<1>8. Normalised(b, chunk) = out[m + n]
  BY <1>1 DEF Normalised, Unix, out, text
<1> QED
  BY <1>7, <1>8 DEF n

\* Except for a CR that waits at the end, the buffer is a part of the converted reply.
LEMMA HoldsText ==
  ASSUME NEW r, Readable(r), NEW b, NEW p, NEW h, Holds(r, b, p, h)
  PROVE  /\ \A i \in 1..Len(b) : b[i] # CR => b[i] = Text(r, h * Short(r) + i)
         /\ b # <<>> => p \in 1..Len(Wire(r)) /\ b[Len(b)] = Wire(r)[p] /\ h < Len(r.events)
         /\ h <= Len(r.events)
<1> DEFINE base == h * Short(r)
           N == Len(r.events)
<1>1. /\ b \in Seq(Int) /\ Len(b) \in Nat /\ h \in Nat /\ p \in Nat /\ p <= Len(Wire(r))
      /\ base \in Nat /\ Len(Wire(r)) \in Nat /\ Short(r) \in {3, 5} /\ N \in Nat
      /\ \A i \in 1..(Len(b) - 1) : b[i] = Text(r, base + i)
  BY HoldsTypes, Sizes
<1>2. Len(b) = Becomes(r, p) - base
  BY DEF Holds
<1>3. ASSUME b # <<>>
      PROVE  p \in 1..Len(Wire(r)) /\ b[Len(b)] = Wire(r)[p] /\ h < N
  <2>1. Len(b) > 0
    BY <1>1, <1>3
  <2>2. p > 0 /\ b[Len(b)] = Wire(r)[p]
    BY <2>1 DEF Holds
  <2>3. p \in 1..Len(Wire(r))
    BY <1>1, <2>2
  <2>4. Becomes(r, p) \in 1..(N * Short(r))
    BY <2>3, NextSymbol
  <2> HIDE DEF N, base
  <2>5. base < N * Short(r)
    <3>1. N * Short(r) \in Int
      BY <1>1
    <3> QED
      BY <1>1, <1>2, <2>1, <2>4, <3>1
  <2>6. h < N
    <3>1. CASE Short(r) = 3
      BY <1>1, <2>5, <3>1 DEF base
    <3>2. CASE Short(r) = 5
      BY <1>1, <2>5, <3>2 DEF base
    <3> QED
      BY <1>1, <3>1, <3>2
  <2> QED
    BY <2>2, <2>3, <2>6 DEF N
<1>4. ASSUME NEW i \in 1..Len(b), b[i] # CR
      PROVE  b[i] = Text(r, base + i)
  <2>1. CASE i = Len(b)
    <3>1. p \in 1..Len(Wire(r)) /\ b[i] = Wire(r)[p]
      BY <1>1, <1>3, <2>1
    <3>2. b[i] = Text(r, Becomes(r, p)) /\ Becomes(r, p) \in Int
      BY <1>4, <3>1, NextSymbol
    <3>3. Becomes(r, p) = base + i
      BY <1>1, <1>2, <2>1, <3>2
    <3> QED
      BY <3>2, <3>3
  <2>2. CASE i # Len(b)
    <3>1. i \in 1..(Len(b) - 1)
      BY <1>1, <2>2
    <3> QED
      BY <1>1, <3>1
  <2> QED
    BY <2>1, <2>2
<1>5. h <= N
  <2>1. CASE b # <<>>
    BY <1>1, <1>3, <2>1
  <2>2. CASE b = <<>>
    <3>1. Becomes(r, p) = base
      <4>1. Becomes(r, p) \in Int
        <5>1. CASE p = 0
          BY <5>1 DEF Becomes
        <5>2. CASE p # 0
          <6>1. p \in 1..Len(Wire(r))
            BY <1>1, <5>2
          <6> QED
            BY <6>1, NextSymbol
        <5> QED
          BY <5>1, <5>2
      <4> QED
        BY <1>1, <1>2, <2>2, <4>1
    <3>2. Becomes(r, p) <= N * Short(r)
      <4>1. CASE p = 0
        BY <1>1, <4>1 DEF Becomes
      <4>2. CASE p # 0
        <5>1. p \in 1..Len(Wire(r))
          BY <1>1, <4>2
        <5> QED
          BY <5>1, NextSymbol
      <4> QED
        BY <4>1, <4>2
    <3> HIDE DEF N
    <3>3. CASE Short(r) = 3
      BY <1>1, <3>1, <3>2, <3>3
    <3>4. CASE Short(r) = 5
      BY <1>1, <3>1, <3>2, <3>4
    <3> QED
      BY <1>1, <3>3, <3>4
  <2> QED
    BY <2>1, <2>2
<1> QED
  BY <1>3, <1>4, <1>5

\* A break is the end of the next event.
LEMMA EventRight ==
  ASSUME NEW r, Readable(r), NEW b, NEW p, NEW h, Holds(r, b, p, h), Breaks(b) # {}
  PROVE  LET frame == SubSeq(b, 1, FirstBreak(b) - 1)
             rest  == SubSeq(b, FirstBreak(b) + 2, Len(b))
         IN  /\ h + 1 \in 1..Len(r.events)
             /\ DataLines(frame) = {Short(r) - 2} /\ frame[Short(r) - 2] = h + 1
             /\ Holds(r, rest, p, h + 1)
<1> DEFINE base == h * Short(r)
           n == Len(b)
           d == Short(r)
           plain == Plain(r, h + 1)
<1>1. /\ b \in Seq(Int) /\ n \in Nat /\ h \in Nat /\ p \in Nat /\ p <= Len(Wire(r))
      /\ base \in Nat /\ Len(Wire(r)) \in Nat /\ d \in {3, 5} /\ Len(r.events) \in Nat
      /\ \A i \in 1..(n - 1) : b[i] = Text(r, base + i)
  BY HoldsTypes, Sizes
<1>2. b # <<>>
  BY <1>1 DEF Breaks
<1>3. /\ \A i \in 1..n : b[i] # CR => b[i] = Text(r, base + i)
      /\ p \in 1..Len(Wire(r)) /\ b[n] = Wire(r)[p] /\ h < Len(r.events)
  BY <1>2, HoldsText
<1>4. \A i \in 1..d : Text(r, base + i) = plain[i]
  BY <1>1, TextIs
<1>5. /\ plain[d - 1] = LF /\ plain[d] = LF /\ plain[d - 2] = h + 1
      /\ \A i \in 1..(d - 2) : plain[i] # LF \/ plain[i + 1] # LF
      /\ \A i \in 1..(d - 3) : plain[i] \in Int /\ ~(plain[i] > 0)
  <2>1. CASE Annotated(r)
    <3>1. plain = <<Note, LF, h + 1, LF, LF>> /\ d = 5
      BY <2>1 DEF Plain, Short
    <3> HIDE DEF plain, d
    <3> QED
      BY <1>1, <3>1 DEF LF, Note
  <2>2. CASE ~Annotated(r)
    <3>1. plain = <<h + 1, LF, LF>> /\ d = 3
      BY <2>2 DEF Plain, Short
    <3> HIDE DEF plain, d
    <3> QED
      BY <1>1, <3>1 DEF LF, Note
  <2> QED
    BY <2>1, <2>2
<1> HIDE DEF base, n, d, plain
<1>6. ASSUME NEW j \in Breaks(b) PROVE j >= d - 1 /\ j \in 1..(n - 1) /\ b[j] = LF /\ b[j + 1] = LF
  <2>1. j \in 1..(n - 1) /\ b[j] = LF /\ b[j + 1] = LF
    BY DEF Breaks, n
  <2>2. SUFFICES ASSUME j < d - 1 PROVE FALSE
    BY <1>1, <2>1
  <2>3. j \in 1..n /\ j + 1 \in 1..n /\ j \in 1..(d - 2) /\ j \in 1..d /\ j + 1 \in 1..d
    BY <1>1, <2>1, <2>2
  <2>4. b[j] = Text(r, base + j) /\ b[j + 1] = Text(r, base + (j + 1))
    BY <1>3, <2>1, <2>3 DEF LF, CR
  <2> QED
    BY <1>4, <1>5, <2>1, <2>3, <2>4
<1>7. d - 1 \in Breaks(b)
  <2>1. PICK j \in Breaks(b) : TRUE
    OBVIOUS
  <2>2. j >= d - 1 /\ j \in 1..(n - 1) /\ b[j] = LF /\ b[j + 1] = LF
    BY <1>6
  <2>3. d - 1 \in 1..(n - 1) /\ d - 1 \in 1..d /\ d \in 1..d
    BY <1>1, <2>2
  <2>4. b[d - 1] = LF
    BY <1>1, <1>4, <1>5, <2>3
  <2>5. b[(d - 1) + 1] = LF
    <3>1. CASE d \in 1..(n - 1)
      BY <1>1, <1>4, <1>5, <2>3, <3>1
    <3>2. CASE d \notin 1..(n - 1)
      <4>1. j = d - 1
        BY <1>1, <2>2, <3>2
      <4> QED
        BY <2>2, <4>1
    <3> QED
      BY <3>1, <3>2
  <2> QED
    BY <2>3, <2>4, <2>5 DEF Breaks, n
<1>8. FirstBreak(b) = d - 1
  <2>1. \A j \in Breaks(b) : d - 1 <= j
    BY <1>1, <1>6
  <2>2. ASSUME NEW j \in Breaks(b), \A k \in Breaks(b) : j <= k PROVE j = d - 1
    <3>1. j <= d - 1 /\ j >= d - 1 /\ j \in 1..(n - 1)
      BY <1>6, <1>7, <2>2
    <3> QED
      BY <1>1, <3>1
  <2> QED
    BY <1>7, <2>1, <2>2 DEF FirstBreak
<1>9. d <= n /\ d - 2 \in 1..n
  BY <1>1, <1>6, <1>7
<1> DEFINE frame == SubSeq(b, 1, FirstBreak(b) - 1)
           rest  == SubSeq(b, FirstBreak(b) + 2, Len(b))
<1>10. DataLines(frame) = {d - 2} /\ frame[d - 2] = h + 1
  <2>1. frame = SubSeq(b, 1, d - 2)
    BY <1>1, <1>8
  <2> HIDE DEF frame
  <2>2. Len(frame) = d - 2 /\ DOMAIN frame = 1..(d - 2) /\ \A i \in 1..(d - 2) : frame[i] = b[i]
    BY <1>1, <1>9, <2>1 DEF n
  <2>3. \A i \in 1..(d - 2) : frame[i] = plain[i]
    <3>1. SUFFICES ASSUME NEW i \in 1..(d - 2) PROVE b[i] = plain[i]
      BY <2>2
    <3>2. i \in 1..(n - 1) /\ i \in 1..d
      BY <1>1, <1>9
    <3> QED
      BY <1>1, <1>4, <3>2
  <2>4. d - 2 \in 1..(d - 2) /\ frame[d - 2] = h + 1 /\ h + 1 > 0
    BY <1>1, <1>5, <2>3
  <2>5. \A i \in 1..(d - 2) : i # d - 2 => i \in 1..(d - 3)
    BY <1>1
  <2> QED
    BY <1>5, <2>2, <2>3, <2>4, <2>5 DEF DataLines
<1>11. Holds(r, rest, p, h + 1)
  <2>1. rest = SubSeq(b, d + 1, n)
    BY <1>1, <1>8 DEF n
  <2> HIDE DEF rest
  <2>2. /\ rest \in Seq(Int) /\ Len(rest) = n - d
        /\ \A i \in 1..(n - d) : rest[i] = b[d + i]
    <3>1. b \in Seq(Int) /\ n = Len(b) /\ d \in 0..n
      BY <1>1, <1>9 DEF n
    <3> HIDE DEF n
    <3> QED
      BY <2>1, <3>1, RestOf
  <2>3. (h + 1) * Short(r) = base + d
    <3>1. CASE Short(r) = 3
      BY <1>1, <3>1 DEF base, d
    <3>2. CASE Short(r) = 5
      BY <1>1, <3>2 DEF base, d
    <3> QED
      BY <1>1, <3>1, <3>2 DEF d
  <2>4. n = Becomes(r, p) - base /\ Becomes(r, p) \in Int
    BY <1>3, NextSymbol DEF Holds, base, n
  <2>5. Len(rest) = Becomes(r, p) - (base + d)
    BY <1>1, <2>2, <2>4
  <2>6. \A i \in 1..(Len(rest) - 1) : rest[i] = Text(r, (base + d) + i)
    <3>1. SUFFICES ASSUME NEW i \in 1..(Len(rest) - 1) PROVE rest[i] = Text(r, (base + d) + i)
      OBVIOUS
    <3>2. d + i \in 1..(n - 1) /\ i \in 1..(n - d) /\ base + (d + i) = (base + d) + i
      <4>1. i \in Nat /\ i >= 1 /\ i <= n - d - 1
        BY <1>1, <2>2
      <4> QED
        BY <1>1, <4>1
    <3>3. rest[i] = b[d + i] /\ b[d + i] = Text(r, base + (d + i))
      BY <1>1, <2>2, <3>2
    <3> QED
      BY <3>2, <3>3
  <2>7. Len(rest) > 0 => p > 0 /\ rest[Len(rest)] = Wire(r)[p]
    <3>1. SUFFICES ASSUME Len(rest) > 0 PROVE rest[Len(rest)] = Wire(r)[p]
      BY <1>3
    <3>2. n - d \in 1..(n - d) /\ d + (n - d) = n
      BY <1>1, <2>2, <3>1
    <3>3. rest[n - d] = b[n] /\ n > 0
      BY <1>1, <2>2, <3>1, <3>2
    <3> QED
      BY <1>3, <2>2, <3>3
  <2>8. Len(rest) = 0 => Wire(r)[p] # CR
    <3>1. SUFFICES ASSUME Len(rest) = 0 PROVE b[n] # CR
      BY <1>3
    <3>2. n = d
      BY <1>1, <2>2, <3>1
    <3>3. b[(d - 1) + 1] = LF
      BY <1>7 DEF Breaks
    <3>4. (d - 1) + 1 = d
      BY <1>1
    <3> QED
      BY <3>2, <3>3, <3>4 DEF LF, CR
  <2>9. h + 1 \in Nat /\ p \in 0..Len(Wire(r))
    BY <1>1
  <2> QED
    BY <2>2, <2>3, <2>5, <2>6, <2>7, <2>8, <2>9 DEF Holds
<1>12. h + 1 \in 1..Len(r.events)
  BY <1>1, <1>3
<1> QED
  BY <1>10, <1>11, <1>12 DEF d

\* Once everything has arrived, no break is left only if every event was taken.
LEMMA AllTaken ==
  ASSUME NEW r, Readable(r), NEW b, NEW h, Holds(r, b, Len(Wire(r)), h), Breaks(b) = {}
  PROVE  h = Len(r.events)
<1> DEFINE base == h * Short(r)
           n == Len(b)
           d == Short(r)
           N == Len(r.events)
           W == Wire(r)
<1>1. /\ b \in Seq(Int) /\ n \in Nat /\ h \in Nat
      /\ base \in Nat /\ Len(W) \in Nat /\ d \in {3, 5} /\ N \in Nat /\ Len(W) = Size(r) * N
      /\ Size(r) \in {3, 5, 8} /\ \A i \in 1..(n - 1) : b[i] = Text(r, base + i)
  BY HoldsTypes, Sizes
<1>2. h <= N /\ \A i \in 1..n : b[i] # CR => b[i] = Text(r, base + i)
  BY HoldsText
<1>3. SUFFICES ASSUME h < N PROVE FALSE
  BY <1>1, <1>2
<1>4. Len(W) \in 1..Len(W)
  <2> HIDE DEF W, N
  <2> QED
    BY <1>1, <1>3
<1>5. Becomes(r, Len(W)) = N * d /\ W[Len(W)] = LF
  BY <1>4, NextSymbol
<1>6. n = Becomes(r, Len(W)) - base
  BY DEF Holds
<1> HIDE DEF W, N, base, d, n
<1>7. n >= d /\ n >= 1
  <2>1. CASE d = 3
    BY <1>1, <1>3, <1>5, <1>6, <2>1 DEF base, d
  <2>2. CASE d = 5
    BY <1>1, <1>3, <1>5, <1>6, <2>2 DEF base, d
  <2> QED
    BY <1>1, <2>1, <2>2
<1>8. \A i \in 1..d : Text(r, base + i) = Plain(r, h + 1)[i]
  BY <1>1, TextIs DEF base, d
<1>9. Plain(r, h + 1)[d - 1] = LF /\ Plain(r, h + 1)[d] = LF
  BY <1>1 DEF Plain, Short, d
<1>10. b[n] = LF
  <2>1. b # <<>>
    BY <1>1, <1>7 DEF n
  <2>2. b[Len(b)] = Wire(r)[Len(Wire(r))]
    BY <2>1, HoldsText
  <2> QED
    BY <1>5, <2>2 DEF W, n
<1>11. b[d - 1] = LF /\ d - 1 \in 1..(n - 1) /\ d \in 1..n
  <2>1. d - 1 \in 1..(n - 1) /\ d - 1 \in 1..d /\ d \in 1..n
    BY <1>1, <1>7
  <2> QED
    BY <1>1, <1>8, <1>9, <2>1
<1>12. b[d] = LF
  <2>1. CASE d = n
    BY <1>10, <2>1
  <2>2. CASE d # n
    <3>1. d \in 1..(n - 1) /\ d \in 1..d
      BY <1>1, <1>11, <2>2
    <3> QED
      BY <1>1, <1>8, <1>9, <3>1
  <2> QED
    BY <2>1, <2>2
<1>13. d - 1 \in Breaks(b)
  <2>1. (d - 1) + 1 = d
    BY <1>1
  <2> QED
    BY <1>11, <1>12, <2>1 DEF Breaks, n
<1> QED
  BY <1>13

(* What the vendor has told. *)
Usages(r) == \A j \in 1..Len(r.events) :
  r.events[j].usage = NoReport \/ \E K \in SUBSET Kinds : r.events[j].usage \in [K -> Nat]

LEMMA ReportedNext ==
  ASSUME NEW r, NEW n \in Nat, NEW k
  PROVE  LET told == r.events[n + 1].usage
         IN  /\ Reported(r, 0, k) = 0
             /\ Reported(r, n + 1, k) =
                  IF told = NoReport \/ (r.vendor = "ANTHROPIC" /\ k \notin DOMAIN told)
                  THEN Reported(r, n, k) ELSE Of(told, k)
<1> DEFINE told == r.events[n + 1].usage
<1>1. Telling(r, 0, k) = {}
  BY DEF Telling
<1>2. CASE told = NoReport \/ (r.vendor = "ANTHROPIC" /\ k \notin DOMAIN told)
  <2>1. Telling(r, n + 1, k) = Telling(r, n, k)
    <3>1. \A j : j \in 1..(n + 1) <=> j \in 1..n \/ j = n + 1
      OBVIOUS
    <3> QED
      BY <1>2, <3>1 DEF Telling
  <2>2. Reported(r, n + 1, k) = Reported(r, n, k)
    BY <2>1 DEF Reported
  <2>3. Reported(r, 0, k) = 0
    BY <1>1 DEF Reported
  <2> QED
    BY <1>2, <2>2, <2>3
<1>3. CASE ~(told = NoReport \/ (r.vendor = "ANTHROPIC" /\ k \notin DOMAIN told))
  <2>1. n + 1 \in Telling(r, n + 1, k) /\ \A i \in Telling(r, n + 1, k) : i \in 1..(n + 1)
    BY <1>3 DEF Telling
  <2> DEFINE j == Latest(Telling(r, n + 1, k))
  <2>2. j = n + 1
    <3>1. \A i \in Telling(r, n + 1, k) : i <= n + 1
      BY <2>1
    <3>2. \A i \in Telling(r, n + 1, k) : n + 1 <= i => i = n + 1
      BY <2>1
    <3> QED
      BY <2>1, <3>1, <3>2 DEF Latest
  <2>3. Telling(r, n + 1, k) # {}
    BY <2>1
  <2>4. Reported(r, n + 1, k) = Of(r.events[j].usage, k)
    BY <2>3 DEF Reported
  <2> HIDE DEF j
  <2>5. Reported(r, n + 1, k) = Of(told, k)
    BY <2>2, <2>4
  <2>6. Reported(r, 0, k) = 0
    BY <1>1 DEF Reported
  <2> QED
    BY <1>3, <2>5, <2>6
<1> QED
  BY <1>2, <1>3

LEMMA ReportedType ==
  ASSUME NEW r, Readable(r), Usages(r), NEW n \in 0..Len(r.events), NEW k \in Kinds
  PROVE  Reported(r, n, k) \in Nat
<1> DEFINE S == {m \in Nat : m <= Len(r.events) => Reported(r, m, k) \in Nat}
<1>0. Len(r.events) \in Nat
  BY DEF Readable
<1>1. 0 \in S
  <2>1. Reported(r, 0, k) = 0
    BY ReportedNext
  <2> QED
    BY <2>1
<1>2. ASSUME NEW m \in S PROVE m + 1 \in S
  <2>1. SUFFICES ASSUME m + 1 <= Len(r.events) PROVE Reported(r, m + 1, k) \in Nat
    OBVIOUS
  <2> DEFINE told == r.events[m + 1].usage
  <2>2. m \in Nat /\ Reported(r, m, k) \in Nat /\ m + 1 \in 1..Len(r.events)
    BY <1>0, <2>1
  <2>3. told = NoReport \/ \E K \in SUBSET Kinds : told \in [K -> Nat]
    BY <2>2 DEF Usages
  <2>4. told # NoReport => Of(told, k) \in Nat
    BY <2>3 DEF Of
  <2>5. Reported(r, m + 1, k) =
           IF told = NoReport \/ (r.vendor = "ANTHROPIC" /\ k \notin DOMAIN told)
           THEN Reported(r, m, k) ELSE Of(told, k)
    BY <2>2, ReportedNext
  <2> QED
    BY <2>2, <2>4, <2>5
<1> HIDE DEF S
<1>3. S \in SUBSET Nat
  BY DEF S
<1>4. S = Nat
  BY <1>1, <1>2, <1>3, NatSets
<1>5. n \in S /\ n <= Len(r.events)
  BY <1>0, <1>4
<1> QED
  BY <1>5 DEF S

\* The tokens that an adapter has recorded are those of the first n events.
Tallied(r, x, n) ==
  /\ \A k \in Kinds : Of(x.raw, k) = Reported(r, n, k)
  /\ x.usage = [input  |-> IF r.vendor = "ANTHROPIC"
                           THEN Reported(r, n, "input") + Reported(r, n, "cached") + Reported(r, n, "written")
                           ELSE Reported(r, n, "input"),
                cached |-> Reported(r, n, "cached"),
                output |-> Reported(r, n, "output")]

Fields == {"pc", "buffer", "event", "images", "complete", "raw", "usage", "reported", "tool",
           "handled", "category"}
Shape(x) == x = [f \in Fields |-> x[f]]

\* Two states of stream() that differ in the tokens only.
CountsOnly(x, y) ==
  /\ Shape(y) /\ y.pc = x.pc /\ y.buffer = x.buffer /\ y.event = x.event /\ y.images = x.images
  /\ y.complete = x.complete /\ y.handled = x.handled /\ y.category = x.category

LEMMA CountsRight ==
  ASSUME NEW r, Readable(r), Usages(r), Truthful(r), NEW n \in Nat, n + 1 \in 1..Len(r.events),
         NEW x, Shape(x), Tallied(r, x, n)
  PROVE  LET y == Counts(x, r.vendor, r.events[n + 1].usage)
         IN  Tallied(r, y, n + 1) /\ CountsOnly(x, y)
<1> DEFINE told == r.events[n + 1].usage
           y == Counts(x, r.vendor, told)
           tool == x.tool /\ r.vendor \in {"ANTHROPIC", "MISTRAL"}
<1>1. \A k : Reported(r, n + 1, k) =
        IF told = NoReport \/ (r.vendor = "ANTHROPIC" /\ k \notin DOMAIN told)
        THEN Reported(r, n, k) ELSE Of(told, k)
  BY ReportedNext
<1> HIDE DEF told
<1>2. CASE told = NoReport
  <2>1. y = x
    BY <1>2 DEF Counts
  <2> QED
    BY <1>1, <1>2, <2>1 DEF Tallied, CountsOnly, told
<1>3. CASE told # NoReport
  <2> DEFINE raw == IF r.vendor = "ANTHROPIC" THEN Merged(x.raw, told) ELSE told
  <2>1. \A k \in Kinds : Of(raw, k) = Reported(r, n + 1, k)
    <3>1. CASE r.vendor = "ANTHROPIC"
      <4>1. \A k : Of(Merged(x.raw, told), k) = IF k \in DOMAIN told THEN told[k] ELSE Of(x.raw, k)
        BY DEF Of, Merged
      <4> QED
        BY <1>1, <1>3, <3>1, <4>1 DEF Tallied, Of
    <3>2. CASE r.vendor # "ANTHROPIC"
      BY <1>1, <1>3, <3>2
    <3> QED
      BY <3>1, <3>2
  <2> DEFINE usage == [input  |-> IF r.vendor = "ANTHROPIC"
                                  THEN Of(raw, "input") + Of(raw, "cached") + Of(raw, "written")
                                  ELSE Of(raw, "input"),
                       cached |-> IF r.vendor = "MISTRAL" THEN x.usage.cached ELSE Of(raw, "cached"),
                       output |-> Of(raw, "output")]
  <2>2. y = [x EXCEPT !.reported = TRUE, !.raw = raw, !.tool = tool, !.usage = usage]
    BY <1>3 DEF Counts
  <2> HIDE DEF raw, tool
  <2>3. r.vendor = "MISTRAL" => x.usage.cached = 0 /\ Reported(r, n + 1, "cached") = 0
    <3>1. SUFFICES ASSUME r.vendor = "MISTRAL"
                   PROVE  x.usage.cached = 0 /\ Reported(r, n + 1, "cached") = 0
      OBVIOUS
    <3>2. \A m \in 1..Len(r.events) : Reported(r, m, "cached") = 0
      BY <3>1 DEF Truthful
    <3>3. n = 0 \/ n \in 1..Len(r.events)
      BY DEF Readable
    <3>4. Reported(r, n, "cached") = 0
      <4>1. n = 0 => Reported(r, n, "cached") = 0
        BY ReportedNext
      <4> QED
        BY <3>2, <3>3, <4>1
    <3>5. x.usage.cached = Reported(r, n, "cached")
      BY DEF Tallied
    <3>6. Reported(r, n + 1, "cached") = 0
      BY <3>2
    <3> QED
      BY <3>4, <3>5, <3>6
  <2>4. "input" \in Kinds /\ "cached" \in Kinds /\ "written" \in Kinds /\ "output" \in Kinds
    BY DEF Kinds
  <2>5. usage = [input  |-> IF r.vendor = "ANTHROPIC"
                            THEN Reported(r, n + 1, "input") + Reported(r, n + 1, "cached")
                                   + Reported(r, n + 1, "written")
                            ELSE Reported(r, n + 1, "input"),
                 cached |-> Reported(r, n + 1, "cached"),
                 output |-> Reported(r, n + 1, "output")]
    BY <2>1, <2>3, <2>4
  <2> HIDE DEF usage, y
  <2>6. y.raw = raw /\ y.usage = usage /\ CountsOnly(x, y)
    BY <2>2 DEF Shape, CountsOnly, Fields
  <2> QED
    BY <2>1, <2>5, <2>6 DEF Tallied, y, told
<1> QED
  BY <1>2, <1>3

LEMMA Times ==
  ASSUME NEW a \in Nat, NEW b \in Nat, NEW c \in Nat, a <= b
  PROVE  a * c <= b * c /\ a * c \in Nat /\ b * c \in Nat
OBVIOUS

\* What has been told costs no more than the bill, and all of it in the end.
LEMMA CostRight ==
  ASSUME reply \in Replies, NEW n \in 0..Len(reply.events), NEW x, Tallied(reply, x, n)
  PROVE  /\ EstimateCost(x.usage, x.raw) <= TokenBill
         /\ EstimateCost(x.usage, x.raw) \in Nat /\ TokenBill \in Nat
         /\ n # 0 /\ Ended(reply, n) => EstimateCost(x.usage, x.raw) = TokenBill
<1> DEFINE r == reply
           in == Reported(r, n, "input")
           ca == Reported(r, n, "cached")
           wr == Reported(r, n, "written")
           ou == Reported(r, n, "output")
           fresh == IF r.vendor = "ANTHROPIC" THEN in ELSE in - ca
           some == IF fresh > 0 THEN fresh ELSE 0
           bill == r.bill
<1>1. /\ Readable(r) /\ Usages(r) /\ Truthful(r) /\ bill \in [Kinds -> Nat]
      /\ Prices \in [Kinds -> Nat]
  BY ProvidersAssumption DEF Readable, Usages
<1>2. "input" \in Kinds /\ "cached" \in Kinds /\ "written" \in Kinds /\ "output" \in Kinds
  BY DEF Kinds
<1>3. in \in Nat /\ ca \in Nat /\ wr \in Nat /\ ou \in Nat
  BY <1>1, <1>2, ReportedType
<1>4. n = 0 => in = 0 /\ ca = 0 /\ wr = 0 /\ ou = 0
  BY ReportedNext
<1>5. n = 0 \/ n \in 1..Len(r.events)
  BY <1>1 DEF Readable
<1>6. r.vendor # "ANTHROPIC" => wr = 0
  BY <1>1, <1>4, <1>5 DEF Truthful
<1>7. /\ x.usage.input - x.usage.cached - Of(x.raw, "written") = fresh
      /\ x.usage.cached = ca /\ x.usage.output = ou /\ Of(x.raw, "written") = wr
  <2>1. Of(x.raw, "written") = wr
    BY <1>2 DEF Tallied
  <2>2. /\ x.usage.input = IF r.vendor = "ANTHROPIC" THEN in + ca + wr ELSE in
        /\ x.usage.cached = ca /\ x.usage.output = ou
    BY DEF Tallied
  <2> HIDE DEF in, ca, wr, ou
  <2> QED
    BY <1>3, <1>6, <2>1, <2>2
<1>8. n # 0 =>
        /\ fresh <= bill["input"] /\ ca <= bill["cached"] /\ wr <= bill["written"] /\ ou <= bill["output"]
        /\ Ended(r, n) => fresh = bill["input"] /\ ca = bill["cached"] /\ wr = bill["written"]
                          /\ ou = bill["output"]
  <2>1. SUFFICES ASSUME n # 0
                 PROVE  /\ fresh <= bill["input"]
                        /\ \A k \in Kinds \ {"input"} : Reported(r, n, k) <= bill[k]
                        /\ Ended(r, n) => /\ fresh = bill["input"]
                                          /\ \A k \in Kinds \ {"input"} : Reported(r, n, k) = bill[k]
    BY <1>2
  <2>2. n \in 1..Len(r.events)
    BY <1>5, <2>1
  <2> QED
    BY <1>1, <2>2 DEF Truthful
<1> HIDE DEF in, ca, wr, ou
<1>9. fresh \in Int /\ some \in Nat
  BY <1>3
<1>10. /\ bill["input"] \in Nat /\ bill["cached"] \in Nat /\ bill["written"] \in Nat /\ bill["output"] \in Nat
       /\ Prices["input"] \in Nat /\ Prices["cached"] \in Nat /\ Prices["written"] \in Nat
       /\ Prices["output"] \in Nat
  BY <1>1, <1>2
<1>11. EstimateCost(x.usage, x.raw) =
         some * Prices["input"] + ca * Prices["cached"] + wr * Prices["written"] + ou * Prices["output"]
  <2>1. x.usage.input - x.usage.cached - Of(x.raw, "written") = fresh
    BY <1>7
  <2> HIDE DEF fresh
  <2> QED
    BY <1>7, <2>1 DEF EstimateCost
<1>12. TokenBill = bill["input"] * Prices["input"] + bill["cached"] * Prices["cached"]
         + bill["written"] * Prices["written"] + bill["output"] * Prices["output"]
  BY DEF TokenBill
<1>13. some <= bill["input"] /\ ca <= bill["cached"] /\ wr <= bill["written"] /\ ou <= bill["output"]
  <2> HIDE DEF fresh, bill
  <2>1. CASE n = 0
    BY <1>3, <1>4, <1>10, <2>1 DEF fresh
  <2>2. CASE n # 0
    <3>1. fresh <= bill["input"]
      BY <1>8, <2>2
    <3>2. some <= bill["input"]
      BY <1>9, <1>10, <3>1
    <3>3. ca <= bill["cached"] /\ wr <= bill["written"] /\ ou <= bill["output"]
      BY <1>8, <2>2
    <3> HIDE DEF some
    <3> QED
      BY <3>2, <3>3
  <2> QED
    BY <2>1, <2>2
<1>14. n # 0 /\ Ended(r, n) => some = bill["input"] /\ ca = bill["cached"] /\ wr = bill["written"]
                              /\ ou = bill["output"]
  <2>1. SUFFICES ASSUME n # 0, Ended(r, n)
                 PROVE  some = bill["input"] /\ ca = bill["cached"] /\ wr = bill["written"]
                        /\ ou = bill["output"]
    OBVIOUS
  <2> HIDE DEF fresh, bill
  <2>2. fresh = bill["input"]
    BY <1>8, <2>1
  <2>3. some = bill["input"]
    BY <1>9, <1>10, <2>2
  <2>4. ca = bill["cached"] /\ wr = bill["written"] /\ ou = bill["output"]
    BY <1>8, <2>1
  <2> HIDE DEF some
  <2> QED
    BY <2>3, <2>4
<1> HIDE DEF some, fresh, bill, r
<1>15. /\ some * Prices["input"] <= bill["input"] * Prices["input"]
       /\ some * Prices["input"] \in Nat /\ bill["input"] * Prices["input"] \in Nat
  BY <1>9, <1>10, <1>13, Times
<1>16. /\ ca * Prices["cached"] <= bill["cached"] * Prices["cached"]
       /\ ca * Prices["cached"] \in Nat /\ bill["cached"] * Prices["cached"] \in Nat
  BY <1>3, <1>10, <1>13, Times
<1>17. /\ wr * Prices["written"] <= bill["written"] * Prices["written"]
       /\ wr * Prices["written"] \in Nat /\ bill["written"] * Prices["written"] \in Nat
  BY <1>3, <1>10, <1>13, Times
<1>18. /\ ou * Prices["output"] <= bill["output"] * Prices["output"]
       /\ ou * Prices["output"] \in Nat /\ bill["output"] * Prices["output"] \in Nat
  BY <1>3, <1>10, <1>13, Times
<1>19. /\ EstimateCost(x.usage, x.raw) <= TokenBill
       /\ EstimateCost(x.usage, x.raw) \in Nat /\ TokenBill \in Nat
  <2> DEFINE a1 == some * Prices["input"]
             a2 == ca * Prices["cached"]
             a3 == wr * Prices["written"]
             a4 == ou * Prices["output"]
             b1 == bill["input"] * Prices["input"]
             b2 == bill["cached"] * Prices["cached"]
             b3 == bill["written"] * Prices["written"]
             b4 == bill["output"] * Prices["output"]
  <2>1. EstimateCost(x.usage, x.raw) = a1 + a2 + a3 + a4 /\ TokenBill = b1 + b2 + b3 + b4
    BY <1>11, <1>12
  <2>2. /\ a1 \in Nat /\ a2 \in Nat /\ a3 \in Nat /\ a4 \in Nat
        /\ b1 \in Nat /\ b2 \in Nat /\ b3 \in Nat /\ b4 \in Nat
        /\ a1 <= b1 /\ a2 <= b2 /\ a3 <= b3 /\ a4 <= b4
    BY <1>15, <1>16, <1>17, <1>18
  <2> HIDE DEF a1, a2, a3, a4, b1, b2, b3, b4
  <2> QED
    BY <2>1, <2>2
<1>20. n # 0 /\ Ended(reply, n) => EstimateCost(x.usage, x.raw) = TokenBill
  BY <1>11, <1>12, <1>14 DEF r
<1> QED
  BY <1>19, <1>20

(* An attempt.  OpenAI and Anthropic count an event before its images, the *)
(* others after them.                                                      *)
CountsFirst(r) == r.vendor \in {"OPENAI", "ANTHROPIC"}

SomeTallied(r, x) == \E n \in 0..x.handled : Tallied(r, x, n)

Phase(r, x) ==
  /\ x.pc \in Waiting \cup {"returned", "failed"}
  /\ x.pc \in {"fetch", "read", "returned"} =>
       Tallied(r, x, x.handled) /\ (x.complete <=> Ended(r, x.handled))
  /\ x.pc = "returned" => x.complete
  /\ x.pc \in {"download", "image"} =>
       /\ x.handled \in 1..Len(r.events) /\ x.event = <<r.events[x.handled]>>
       /\ x.complete <=> Ended(r, x.handled - 1)
       /\ Tallied(r, x, IF CountsFirst(r) THEN x.handled ELSE x.handled - 1)
  /\ x.pc = "failed" => SomeTallied(r, x)

Rest(r, w, p) ==
  /\ w \in Seq(Int) /\ Len(w) = Len(Wire(r)) - p
  /\ \A i \in 1..Len(w) : w[i] = Wire(r)[p + i]

Arrived(r, w, x, cut) ==
  \E p : Holds(r, x.buffer, p, x.handled) /\ IF cut THEN w = <<>> ELSE Rest(r, w, p)

StreamInv ==
  /\ Shape(reading) /\ reading.complete \in BOOLEAN /\ reading.handled \in Nat /\ lost \in BOOLEAN
  /\ reading.pc = "idle" => reading = NoStream /\ ~lost
  /\ reading.pc # "idle" => /\ reply \in Replies /\ Phase(reply, reading)
                            /\ Arrived(reply, wire, reading, lost)
                            /\ reading.category = "broken" => lost \/ ~Ended(reply, Len(reply.events))

LEMMA EndedNext ==
  ASSUME NEW r, NEW n \in Nat
  PROVE  /\ ~Ended(r, 0)
         /\ Ended(r, n + 1) <=> Ended(r, n) \/ r.events[n + 1].end = "final"
<1>1. \A j : j \in 1..(n + 1) <=> j \in 1..n \/ j = n + 1
  OBVIOUS
<1> QED
  BY <1>1 DEF Ended

LEMMA SomeCount ==
  ASSUME NEW r, NEW x, Phase(r, x), x.handled \in Nat
  PROVE  SomeTallied(r, x)
<1>1. CASE x.pc \in {"fetch", "read", "returned"}
  BY <1>1 DEF Phase, SomeTallied
<1>2. CASE x.pc \in {"download", "image"}
  <2>1. x.handled \in 0..x.handled /\ (x.handled # 0 => x.handled - 1 \in 0..x.handled)
    OBVIOUS
  <2>2. x.handled \in 1..Len(r.events) /\ Tallied(r, x, IF CountsFirst(r) THEN x.handled ELSE x.handled - 1)
    BY <1>2 DEF Phase
  <2>3. x.handled # 0
    BY <2>2
  <2> QED
    BY <2>1, <2>2, <2>3 DEF SomeTallied
<1>3. CASE x.pc = "failed"
  BY <1>3 DEF Phase
<1> QED
  BY <1>1, <1>2, <1>3 DEF Phase, Waiting

\* An attempt that fails keeps what it has counted.
LEMMA FailsRight ==
  ASSUME NEW r, NEW x, Shape(x), x.handled \in Nat, SomeTallied(r, x),
         NEW category
  PROVE  LET y == Fails(x, category)
         IN  /\ Shape(y) /\ Phase(r, y) /\ y.pc = "failed" /\ y.category = category
             /\ y.buffer = x.buffer /\ y.handled = x.handled /\ y.complete = x.complete
<1> DEFINE y == Fails(x, category)
<1>1. /\ Shape(y) /\ y.pc = "failed" /\ y.category = category
      /\ y.buffer = x.buffer /\ y.handled = x.handled /\ y.complete = x.complete
      /\ y.raw = x.raw /\ y.usage = x.usage
  BY DEF Fails, Shape, Fields
<1> HIDE DEF y
<1>2. \A n : Tallied(r, x, n) => Tallied(r, y, n)
  BY <1>1 DEF Tallied
<1>3. Phase(r, y)
  BY <1>1, <1>2 DEF Phase, SomeTallied
<1> QED
  BY <1>1, <1>3 DEF y

\* What became of a state by handling an event.
Went(x, y, n) ==
  /\ Shape(y) /\ Phase(reply, y) /\ y.buffer = x.buffer /\ y.handled = n
  /\ y.complete \in BOOLEAN /\ y.pc # "idle"
  /\ y.category = "broken" => x.category = "broken"

LEMMA AfterRight ==
  ASSUME reply \in Replies, NEW n \in Nat, n + 1 \in 1..Len(reply.events),
         NEW x, Shape(x), x.handled = n + 1, x.complete \in BOOLEAN, x.complete <=> Ended(reply, n),
         Tallied(reply, x, IF CountsFirst(reply) THEN n + 1 ELSE n)
  PROVE  Went(x, After(x, reply.events[n + 1]), n + 1)
<1> DEFINE r == reply
           e == r.events[n + 1]
           z == IF Vendor \in {"GOOGLE", "MISTRAL"} THEN Counts(x, Vendor, e.usage) ELSE x
           y == [z EXCEPT !.complete = @ \/ e.end = "final", !.event = <<>>]
<1>1. Readable(r) /\ Usages(r) /\ Truthful(r) /\ r.vendor \in {"OPENAI", "GOOGLE", "ANTHROPIC", "MISTRAL"}
  BY ProvidersAssumption DEF Readable, Usages
<1>2. Tallied(r, z, n + 1) /\ CountsOnly(x, z)
  <2>1. CASE CountsFirst(r)
    <3>1. z = x
      BY <2>1 DEF CountsFirst, Vendor
    <3> QED
      BY <2>1, <3>1 DEF CountsOnly
  <2>2. CASE ~CountsFirst(r)
    <3>1. z = Counts(x, r.vendor, e.usage)
      BY <1>1, <2>2 DEF CountsFirst, Vendor
    <3>2. Tallied(r, x, n)
      BY <2>2
    <3> QED
      BY <1>1, <3>1, <3>2, CountsRight
  <2> QED
    BY <2>1, <2>2
<1> HIDE DEF z
<1>3. /\ Shape(y) /\ y.buffer = x.buffer /\ y.handled = n + 1 /\ y.category = x.category
      /\ y.complete \in BOOLEAN /\ (y.complete <=> x.complete \/ e.end = "final")
      /\ y.raw = z.raw /\ y.usage = z.usage
  BY <1>2 DEF CountsOnly, Shape, Fields
<1>4. Tallied(r, y, n + 1)
  <2> HIDE DEF y
  <2> QED
    BY <1>2, <1>3 DEF Tallied
<1>5. y.complete <=> Ended(r, n + 1)
  BY <1>3, EndedNext
<1>6. After(x, e) = IF Vendor = "OPENAI" /\ e.end = "error" THEN Fails(y, "vendor")
                    ELSE [y EXCEPT !.pc = "read"]
  BY DEF After, z
<1> HIDE DEF y
<1>7. CASE Vendor = "OPENAI" /\ e.end = "error"
  <2>1. y.handled \in Nat /\ SomeTallied(r, y)
    BY <1>3, <1>4 DEF SomeTallied
  <2>2. After(x, e) = Fails(y, "vendor")
    BY <1>6, <1>7
  <2>3. LET w == Fails(y, "vendor")
        IN  /\ Shape(w) /\ Phase(r, w) /\ w.pc = "failed" /\ w.category = "vendor"
            /\ w.buffer = y.buffer /\ w.handled = y.handled /\ w.complete = y.complete
    BY <1>3, <2>1, FailsRight
  <2> QED
    BY <1>3, <2>2, <2>3 DEF Went
<1>8. CASE ~(Vendor = "OPENAI" /\ e.end = "error")
  <2> DEFINE w == [y EXCEPT !.pc = "read"]
  <2>1. /\ Shape(w) /\ w.pc = "read" /\ w.category = y.category /\ w.buffer = y.buffer
        /\ w.handled = y.handled /\ w.complete = y.complete /\ w.raw = y.raw /\ w.usage = y.usage
    BY <1>3 DEF Shape, Fields
  <2>2. After(x, e) = w
    BY <1>6, <1>8
  <2> HIDE DEF w
  <2>3. Tallied(r, w, n + 1)
    BY <1>4, <2>1 DEF Tallied
  <2>4. Phase(r, w)
    BY <1>3, <1>5, <2>1, <2>3 DEF Phase, Waiting
  <2> QED
    BY <1>3, <2>1, <2>2, <2>4 DEF Went
<1> QED
  BY <1>7, <1>8

LEMMA HandleRight ==
  ASSUME reply \in Replies, NEW n \in Nat, n + 1 \in 1..Len(reply.events),
         NEW x, Shape(x), x.handled = n, x.complete \in BOOLEAN, x.complete <=> Ended(reply, n),
         x.pc = "read", Tallied(reply, x, n)
  PROVE  Went(x, Handle(x, reply.events[n + 1]), n + 1)
<1> DEFINE r == reply
           e == r.events[n + 1]
           u == [x EXCEPT !.handled = @ + 1]
           y == Before(u, e)
<1>1. Readable(r) /\ Usages(r) /\ Truthful(r) /\ r.vendor \in {"OPENAI", "GOOGLE", "ANTHROPIC", "MISTRAL"}
  BY ProvidersAssumption DEF Readable, Usages
<1>2. /\ Shape(u) /\ u.handled = n + 1 /\ u.complete = x.complete /\ u.pc = "read"
      /\ u.buffer = x.buffer /\ u.category = x.category /\ u.raw = x.raw /\ u.usage = x.usage
  BY DEF Shape, Fields
<1> HIDE DEF u
<1>3. Tallied(r, u, n)
  BY <1>2 DEF Tallied
<1>4. CASE Vendor # "OPENAI" /\ e.end = "error"
  <2>1. y = Fails(u, "vendor")
    BY <1>4 DEF Before
  <2>2. u.handled \in Nat /\ SomeTallied(r, u)
    BY <1>2, <1>3 DEF SomeTallied
  <2>3. LET w == Fails(u, "vendor")
        IN  /\ Shape(w) /\ Phase(r, w) /\ w.pc = "failed" /\ w.category = "vendor"
            /\ w.buffer = u.buffer /\ w.handled = u.handled /\ w.complete = u.complete
    BY <1>2, <2>2, FailsRight
  <2>4. Handle(x, e) = y
    BY <2>1, <2>3 DEF Handle, u
  <2> QED
    BY <1>2, <2>1, <2>3, <2>4 DEF Went
<1>5. CASE ~(Vendor # "OPENAI" /\ e.end = "error")
  <2>1. Tallied(r, y, IF CountsFirst(r) THEN n + 1 ELSE n) /\ CountsOnly(u, y)
    <3>1. CASE CountsFirst(r)
      <4>1. y = Counts(u, r.vendor, e.usage)
        BY <1>5, <3>1 DEF Before, CountsFirst, Vendor
      <4> QED
        BY <1>1, <1>2, <1>3, <3>1, <4>1, CountsRight
    <3>2. CASE ~CountsFirst(r)
      <4>1. y = u
        BY <1>5, <3>2 DEF Before, CountsFirst, Vendor
      <4> QED
        BY <1>2, <1>3, <3>2, <4>1 DEF CountsOnly
    <3> QED
      BY <3>1, <3>2
  <2>2. /\ Shape(y) /\ y.handled = n + 1 /\ y.complete = x.complete /\ y.pc = "read"
        /\ y.buffer = x.buffer /\ y.category = x.category
    BY <1>2, <2>1 DEF CountsOnly
  <2> HIDE DEF y
  <2>3. CASE ImagesOf(e) > 0
    <3> DEFINE v == [y EXCEPT !.event = <<e>>]
               w == NextImage(v, ImagesOf(e))
    <3>1. Handle(x, e) = w
      BY <2>2, <2>3 DEF Handle, y, u
    <3>2. /\ Shape(w) /\ w.pc \in {"download", "image"} /\ w.event = <<e>> /\ w.handled = n + 1
          /\ w.complete = x.complete /\ w.buffer = x.buffer /\ w.category = x.category
          /\ w.raw = y.raw /\ w.usage = y.usage
      BY <2>2 DEF Shape, Fields, NextImage
    <3> HIDE DEF w
    <3>3. Tallied(r, w, IF CountsFirst(r) THEN n + 1 ELSE n)
      BY <2>1, <3>2 DEF Tallied
    <3>4. w.handled - 1 = n
      BY <3>2
    <3>5. Phase(r, w)
      BY <3>2, <3>3, <3>4 DEF Phase, Waiting
    <3> QED
      BY <3>1, <3>2, <3>5 DEF Went
  <2>4. CASE ~(ImagesOf(e) > 0)
    <3>1. Handle(x, e) = After(y, e)
      BY <2>2, <2>4 DEF Handle, y, u
    <3>2. Went(y, After(y, e), n + 1)
      BY <2>1, <2>2, AfterRight
    <3> QED
      BY <2>2, <3>1, <3>2 DEF Went
  <2> QED
    BY <2>3, <2>4
<1> QED
  BY <1>4, <1>5

\* A step that leaves the buffer and what has arrived.
Keeps(x) ==
  /\ reading' = x /\ reply' = reply /\ wire' = wire /\ lost' = lost
  /\ Shape(x) /\ Phase(reply, x) /\ x.complete \in BOOLEAN
  /\ x.buffer = reading.buffer /\ x.handled = reading.handled
  /\ x.category = "broken" =>
       reading.category = "broken" \/ lost \/ ~Ended(reply, Len(reply.events))

LEMMA KeepsRight ==
  ASSUME StreamInv, reading.pc # "idle", NEW x, Keeps(x)
  PROVE  StreamInv'
<1>1. reading' = x /\ reply' = reply /\ wire' = wire /\ lost' = lost
  BY DEF Keeps
<1>2. Phase(reply, x) /\ x.pc # "idle"
  BY DEF Keeps, Phase, Waiting
<1>3. Arrived(reply, wire, x, lost)
  BY DEF StreamInv, Keeps, Arrived
<1> QED
  BY <1>1, <1>2, <1>3 DEF StreamInv, Keeps

LEMMA RequestRight ==
  ASSUME StreamInv, NEW r \in Replies, Request(r)
  PROVE  StreamInv'
<1> DEFINE x == IF Unsupported(r) THEN Fails(NoStream, "request") ELSE [NoStream EXCEPT !.pc = "fetch"]
<1>1. reading' = x /\ reply' = r /\ wire' = Wire(r) /\ lost' = FALSE
  BY DEF Request, Reads, StreamInv
<1>2. Readable(r)
  BY ProvidersAssumption DEF Readable
<1>3. /\ Shape(x) /\ x.pc \in {"fetch", "failed"} /\ x.handled = 0 /\ x.buffer = <<>>
      /\ x.complete = FALSE /\ x.category # "broken" /\ x.raw = NoStream.raw /\ x.usage = NoStream.usage
  BY DEF NoStream, Fails, Shape, Fields
<1> HIDE DEF x
<1>4. Tallied(r, x, 0)
  <2>1. \A k : Reported(r, 0, k) = 0
    BY ReportedNext
  <2>2. \A k \in Kinds : Of(x.raw, k) = 0
    BY <1>3 DEF NoStream, Of
  <2>3. x.usage = [k \in {"input", "cached", "output"} |-> 0]
    BY <1>3 DEF NoStream
  <2>4. x.usage = [input |-> 0, cached |-> 0, output |-> 0]
    BY <2>3
  <2> QED
    BY <2>1, <2>2, <2>4 DEF Tallied
<1>5. Phase(r, x)
  <2>1. ~Ended(r, 0) /\ 0 \in 0..x.handled
    <3>1. ~Ended(r, 0)
      BY EndedNext
    <3>2. 0 \in 0..x.handled
      BY <1>3
    <3> QED
      BY <3>1, <3>2
  <2>2. SomeTallied(r, x)
    BY <1>3, <1>4 DEF SomeTallied
  <2> QED
    BY <1>3, <1>4, <2>1, <2>2 DEF Phase, Waiting
<1>6. Arrived(r, Wire(r), x, FALSE)
  <2>1. /\ Len(Wire(r)) \in Nat /\ DOMAIN Wire(r) = 1..Len(Wire(r))
        /\ \A p \in 1..Len(Wire(r)) : Wire(r)[p] \in Int
    BY <1>2, WireIs, NextSymbol
  <2>2. Wire(r) = [k \in 1..Len(Wire(r)) |-> Wire(r)[k]]
    <3>1. Wire(r) = [k \in DOMAIN Wire(r) |-> Wire(r)[k]]
      BY DEF Wire
    <3> QED
      BY <2>1, <3>1
  <2>3. Wire(r) \in Seq(Int)
    <3> DEFINE w == Wire(r)
    <3> HIDE DEF w
    <3>1. w = [k \in 1..Len(w) |-> w[k]] /\ Len(w) \in Nat /\ \A p \in 1..Len(w) : w[p] \in Int
      BY <2>1, <2>2 DEF w
    <3>2. w \in [1..Len(w) -> Int]
      BY <3>1
    <3>3. w \in Seq(Int)
      BY <3>1, <3>2
    <3> QED
      BY <3>3 DEF w
  <2>4. Rest(r, Wire(r), 0)
    BY <2>1, <2>3 DEF Rest
  <2>5. Holds(r, x.buffer, 0, x.handled)
    <3>1. Becomes(r, 0) = 0 /\ 0 * Short(r) = 0 /\ <<>> \in Seq(Int) /\ Len(<<>>) = 0
      BY <1>2, Sizes DEF Becomes
    <3> QED
      BY <1>3, <2>1, <3>1 DEF Holds
  <2> QED
    BY <2>4, <2>5 DEF Arrived
<1> QED
  <2>1. Shape(reading') /\ reading'.complete = FALSE /\ reading'.handled = 0 /\ lost' = FALSE
    BY <1>1, <1>3
  <2>2. reading'.pc # "idle" /\ reading'.category # "broken"
    BY <1>1, <1>3
  <2>3. reply' \in Replies /\ Phase(reply', reading') /\ Arrived(reply', wire', reading', lost')
    BY <1>1, <1>5, <1>6
  <2>4. reading'.complete \in BOOLEAN /\ reading'.handled \in Nat /\ lost' \in BOOLEAN
    <3>1. reading'.complete \in BOOLEAN /\ lost' \in BOOLEAN
      BY <2>1, Zenon
    <3> QED
      BY <2>1, <3>1
  <2>5. Shape(reading)'
    BY <2>1 DEF Shape
  <2> QED
    BY <2>2, <2>3, <2>4, <2>5 DEF StreamInv

LEMMA ChunkRight ==
  ASSUME StreamInv, NEW n \in 1..Len(wire), Chunk(n)
  PROVE  StreamInv'
<1> DEFINE r == reply
           b == reading.buffer
           h == reading.handled
           chunk == SubSeq(wire, 1, n)
           x == [reading EXCEPT !.buffer = Normalised(@, SubSeq(wire, 1, n))]
<1>1. /\ reading' = x /\ wire' = SubSeq(wire, n + 1, Len(wire)) /\ reply' = reply /\ lost' = lost
      /\ reading.pc = "read"
  BY DEF Chunk, Reads
<1>2. /\ reply \in Replies /\ Phase(reply, reading) /\ Arrived(reply, wire, reading, lost)
      /\ Shape(reading)
  BY <1>1 DEF StreamInv
<1>3. Readable(r)
  BY <1>2, ProvidersAssumption DEF Readable
<1>4. PICK p : Holds(r, b, p, h) /\ IF lost THEN wire = <<>> ELSE Rest(r, wire, p)
  BY <1>2 DEF Arrived
<1>5. Rest(r, wire, p) /\ ~lost
  <2>1. wire # <<>>
    OBVIOUS
  <2> QED
    BY <1>4, <2>1
<1>6. /\ Len(Wire(r)) \in Nat /\ p \in Nat /\ p <= Len(Wire(r))
      /\ wire \in Seq(Int) /\ Len(wire) = Len(Wire(r)) - p
      /\ \A i \in 1..Len(wire) : wire[i] = Wire(r)[p + i]
  BY <1>3, <1>4, <1>5, HoldsTypes DEF Rest
<1>7. /\ chunk \in Seq(Int) /\ Len(chunk) = n /\ p + n <= Len(Wire(r))
      /\ \A i \in 1..n : chunk[i] = Wire(r)[p + i]
  <2>1. n \in 0..Len(wire) /\ n \in Nat /\ p + n <= Len(Wire(r)) /\ 1..n \subseteq 1..Len(wire)
    BY <1>6
  <2>2. chunk \in Seq(Int) /\ Len(chunk) = n /\ \A i \in 1..n : chunk[i] = wire[i]
    BY <1>6, <2>1, StartOf
  <2> QED
    BY <1>6, <2>1, <2>2
<1>8. Rest(r, wire', p + n)
  <2> DEFINE w == wire
             v == SubSeq(w, n + 1, Len(w))
  <2>0. w \in Seq(Int) /\ n \in 1..Len(w) /\ Len(w) \in Nat
    BY <1>6
  <2> HIDE DEF w
  <2>1. /\ v \in Seq(Int) /\ Len(v) = Len(w) - n
        /\ \A i \in 1..(Len(w) - n) : v[i] = w[n + i]
    BY <2>0
  <2>4. wire' = v
    BY <1>1 DEF w
  <2> HIDE DEF v
  <2>2. Len(wire') = Len(Wire(r)) - (p + n)
    <3>1. Len(wire') = Len(w) - n /\ Len(w) = Len(Wire(r)) - p /\ Len(Wire(r)) \in Nat /\ p \in Nat
      BY <1>6, <2>1, <2>4 DEF w
    <3> QED
      BY <2>0, <3>1
  <2>3. ASSUME NEW i \in 1..Len(wire') PROVE wire'[i] = Wire(r)[(p + n) + i]
    <3>1. n + i \in 1..Len(wire) /\ p + (n + i) = (p + n) + i /\ i \in 1..(Len(wire) - n)
      BY <1>6, <2>1, <2>4 DEF w
    <3> QED
      BY <1>6, <2>1, <2>4, <3>1 DEF w
  <2> QED
    BY <2>1, <2>2, <2>3, <2>4 DEF Rest
<1> HIDE DEF chunk
<1>9. Holds(r, Normalised(b, chunk), p + n, h)
  BY <1>3, <1>4, <1>7, UnixRight
<1>10. /\ Shape(x) /\ x.buffer = Normalised(b, chunk) /\ x.pc = reading.pc /\ x.handled = h
       /\ x.complete = reading.complete /\ x.raw = reading.raw /\ x.usage = reading.usage
       /\ x.category = reading.category
  BY <1>2 DEF Shape, Fields, chunk
<1> HIDE DEF x
<1>11. Phase(r, x)
  <2>1. \A m : Tallied(r, reading, m) => Tallied(r, x, m)
    BY <1>10 DEF Tallied
  <2> QED
    BY <1>1, <1>2, <1>10, <2>1 DEF Phase
<1>12. Arrived(r, wire', x, lost)
  BY <1>5, <1>8, <1>9, <1>10 DEF Arrived
<1> QED
  BY <1>1, <1>2, <1>10, <1>11, <1>12 DEF StreamInv

LEMMA NextEventRight ==
  ASSUME StreamInv, NextEvent
  PROVE  StreamInv'
<1> DEFINE r == reply
           b == reading.buffer
           h == reading.handled
           j == FirstBreak(b)
           frame == SubSeq(b, 1, j - 1)
           after == SubSeq(b, j + 2, Len(b))
           rest == [reading EXCEPT !.buffer = SubSeq(@, j + 2, Len(@))]
           y == Handle(rest, r.events[h + 1])
<1>1. /\ reading.pc = "read" /\ Breaks(b) # {} /\ UNCHANGED <<reply, wire, lost>>
  BY DEF NextEvent
<1>2. /\ reply \in Replies /\ Phase(reply, reading) /\ Arrived(reply, wire, reading, lost)
      /\ Shape(reading) /\ h \in Nat /\ reading.complete \in BOOLEAN
      /\ reading.category = "broken" => lost \/ ~Ended(reply, Len(reply.events))
  BY <1>1 DEF StreamInv
<1>3. Readable(r)
  BY <1>2, ProvidersAssumption DEF Readable
<1>4. PICK p : Holds(r, b, p, h) /\ IF lost THEN wire = <<>> ELSE Rest(r, wire, p)
  BY <1>2 DEF Arrived
<1>5. /\ h + 1 \in 1..Len(r.events) /\ DataLines(frame) = {Short(r) - 2}
      /\ frame[Short(r) - 2] = h + 1 /\ Holds(r, after, p, h + 1)
  <2>1. Holds(r, b, p, h) /\ Breaks(b) # {}
    BY <1>1, <1>4
  <2> HIDE DEF r, b, h
  <2> QED
    BY <1>3, <2>1, EventRight DEF frame, after, j
<1>6. /\ DataLines(frame) # {} /\ \A d, e \in DataLines(frame) : d = e
      /\ (CHOOSE d \in DataLines(frame) : TRUE) = Short(r) - 2
  <2> DEFINE S == DataLines(frame)
             s == Short(r) - 2
  <2>1. S = {s}
    BY <1>5
  <2> HIDE DEF S, s
  <2>2. S # {} /\ (\A d, e \in S : d = e) /\ (CHOOSE d \in S : TRUE) = s
    BY <2>1
  <2> QED
    BY <2>2 DEF S, s
<1>7. reading' = y
  <2>1. reading' = IF DataLines(frame) = {} THEN rest
                   ELSE IF \A d, e \in DataLines(frame) : d = e
                   THEN Handle(rest, r.events[frame[CHOOSE d \in DataLines(frame) : TRUE]])
                   ELSE Fails(rest, "broken")
    BY DEF NextEvent, Reads
  <2> HIDE DEF frame, rest
  <2>2. reading' = Handle(rest, r.events[frame[CHOOSE d \in DataLines(frame) : TRUE]])
    BY <1>6, <2>1
  <2> QED
    BY <1>5, <1>6, <2>2
<1>8. /\ Shape(rest) /\ rest.buffer = after /\ rest.pc = "read" /\ rest.handled = h
      /\ rest.complete = reading.complete /\ rest.raw = reading.raw /\ rest.usage = reading.usage
      /\ rest.category = reading.category
  BY <1>1, <1>2 DEF Shape, Fields
<1> HIDE DEF rest
<1>9. Tallied(r, reading, h) /\ (reading.complete <=> Ended(r, h))
  BY <1>1, <1>2 DEF Phase
<1>10. Tallied(r, rest, h)
  BY <1>8, <1>9 DEF Tallied
<1>11. Went(rest, y, h + 1)
  BY <1>2, <1>5, <1>8, <1>9, <1>10, HandleRight
<1> HIDE DEF y, after
<1>12. Arrived(r, wire, y, lost)
  BY <1>4, <1>5, <1>8, <1>11 DEF Arrived, Went
<1> QED
  BY <1>1, <1>2, <1>7, <1>8, <1>11, <1>12 DEF StreamInv, Went

LEMMA FailRight ==
  ASSUME StreamInv, reading.pc # "idle", NEW category,
         category = "broken" => lost \/ ~Ended(reply, Len(reply.events)),
         reading' = Fails(reading, category), UNCHANGED <<reply, wire, lost>>
  PROVE  StreamInv'
<1> DEFINE y == Fails(reading, category)
<1>1. Shape(reading) /\ reading.handled \in Nat /\ Phase(reply, reading) /\ reading.complete \in BOOLEAN
  BY DEF StreamInv
<1>2. SomeTallied(reply, reading)
  BY <1>1, SomeCount
<1>3. /\ Shape(y) /\ Phase(reply, y) /\ y.category = category
      /\ y.buffer = reading.buffer /\ y.handled = reading.handled /\ y.complete = reading.complete
  BY <1>1, <1>2, FailsRight
<1> HIDE DEF y
<1>4. Keeps(y)
  BY <1>1, <1>3 DEF Keeps, y
<1> QED
  BY <1>4, KeepsRight

LEMMA OpenedRight ==
  ASSUME StreamInv, Opened
  PROVE  StreamInv'
<1> DEFINE x == [reading EXCEPT !.pc = "read"]
<1>1. reading' = x /\ reading.pc = "fetch" /\ UNCHANGED <<reply, wire, lost>>
  BY DEF Opened, Reads
<1>2. Shape(reading) /\ Phase(reply, reading) /\ reading.complete \in BOOLEAN
  BY <1>1 DEF StreamInv
<1>3. /\ Shape(x) /\ x.pc = "read" /\ x.buffer = reading.buffer /\ x.handled = reading.handled
      /\ x.complete = reading.complete /\ x.raw = reading.raw /\ x.usage = reading.usage
      /\ x.category = reading.category
  BY <1>2 DEF Shape, Fields
<1> HIDE DEF x
<1>4. Phase(reply, x)
  <2>1. \A m : Tallied(reply, reading, m) => Tallied(reply, x, m)
    BY <1>3 DEF Tallied
  <2> QED
    BY <1>1, <1>2, <1>3, <2>1 DEF Phase, Waiting
<1>5. Keeps(x)
  BY <1>1, <1>2, <1>3, <1>4 DEF Keeps
<1> QED
  BY <1>1, <1>5, KeepsRight

LEMMA ClosedRight ==
  ASSUME StreamInv, Closed
  PROVE  StreamInv'
<1> DEFINE x == [reading EXCEPT !.pc = "returned"]
<1>1. /\ reading.pc = "read" /\ Breaks(reading.buffer) = {} /\ wire = <<>>
      /\ UNCHANGED <<reply, wire, lost>>
      /\ reading' = IF reading.complete THEN x ELSE Fails(reading, "broken")
  BY DEF Closed, Reads
<1>2. /\ Shape(reading) /\ Phase(reply, reading) /\ reading.complete \in BOOLEAN
      /\ reply \in Replies /\ Arrived(reply, wire, reading, lost)
  BY <1>1 DEF StreamInv
<1>3. CASE reading.complete
  <2>1. /\ Shape(x) /\ x.pc = "returned" /\ x.buffer = reading.buffer /\ x.handled = reading.handled
        /\ x.complete = reading.complete /\ x.raw = reading.raw /\ x.usage = reading.usage
        /\ x.category = reading.category
    BY <1>2 DEF Shape, Fields
  <2>2. reading' = x
    BY <1>1, <1>3
  <2> HIDE DEF x
  <2>3. Phase(reply, x)
    <3>1. \A m : Tallied(reply, reading, m) => Tallied(reply, x, m)
      BY <2>1 DEF Tallied
    <3> QED
      BY <1>1, <1>2, <1>3, <2>1, <3>1 DEF Phase
  <2>4. Keeps(x)
    BY <1>1, <1>2, <2>1, <2>2, <2>3 DEF Keeps
  <2> QED
    BY <1>1, <2>4, KeepsRight
<1>4. CASE ~reading.complete
  <2>1. lost \/ ~Ended(reply, Len(reply.events))
    <3>1. SUFFICES ASSUME ~lost PROVE ~Ended(reply, Len(reply.events))
      OBVIOUS
    <3>2. Readable(reply)
      BY <1>2, ProvidersAssumption DEF Readable
    <3>3. PICK p : Holds(reply, reading.buffer, p, reading.handled) /\ Rest(reply, wire, p)
      BY <1>2, <3>1 DEF Arrived
    <3>4. p = Len(Wire(reply))
      <4>1. p \in Nat /\ Len(Wire(reply)) \in Nat
        BY <3>2, <3>3, HoldsTypes
      <4>2. Len(wire) = Len(Wire(reply)) - p /\ Len(wire) = 0
        BY <1>1, <3>3 DEF Rest
      <4> QED
        BY <4>1, <4>2
    <3>5. reading.handled = Len(reply.events)
      BY <1>1, <3>2, <3>3, <3>4, AllTaken
    <3>6. ~Ended(reply, reading.handled)
      BY <1>1, <1>2, <1>4 DEF Phase
    <3> QED
      BY <3>5, <3>6
  <2>2. reading' = Fails(reading, "broken")
    BY <1>1, <1>4
  <2> QED
    BY <1>1, <2>1, <2>2, FailRight
<1> QED
  BY <1>3, <1>4

LEMMA CutRight ==
  ASSUME StreamInv, Cut
  PROVE  StreamInv'
<1>1. wire' = <<>> /\ lost' = TRUE /\ reply' = reply /\ reading' = reading /\ reading.pc # "idle"
  BY DEF Cut, Waiting
<1>2. Arrived(reply, <<>>, reading, TRUE)
  BY <1>1 DEF StreamInv, Arrived
<1> QED
  BY <1>1, <1>2 DEF StreamInv

LEMMA ImageRight ==
  ASSUME StreamInv, reading.pc \in {"download", "image"}, NEW pc \in {"download", "image"}, NEW n,
         NEW tool, reading' = [reading EXCEPT !.images = n, !.pc = pc, !.tool = tool],
         UNCHANGED <<reply, wire, lost>>
  PROVE  StreamInv'
<1> DEFINE x == [reading EXCEPT !.images = n, !.pc = pc, !.tool = tool]
<1>1. Shape(reading) /\ Phase(reply, reading) /\ reading.complete \in BOOLEAN
  BY DEF StreamInv
<1>2. /\ Shape(x) /\ x.pc = pc /\ x.buffer = reading.buffer /\ x.handled = reading.handled
      /\ x.complete = reading.complete /\ x.raw = reading.raw /\ x.usage = reading.usage
      /\ x.category = reading.category /\ x.event = reading.event
  BY <1>1 DEF Shape, Fields
<1>3. reading' = x
  OBVIOUS
<1> HIDE DEF x
<1>4. Phase(reply, x)
  <2>1. \A m : Tallied(reply, reading, m) => Tallied(reply, x, m)
    BY <1>2 DEF Tallied
  <2> QED
    BY <1>1, <1>2, <2>1 DEF Phase, Waiting
<1>5. Keeps(x)
  BY <1>1, <1>2, <1>3, <1>4 DEF Keeps
<1> QED
  BY <1>5, KeepsRight

LEMMA DownloadRight ==
  ASSUME StreamInv, Download
  PROVE  StreamInv'
<1>1. reading.pc = "download" /\ UNCHANGED <<reply, wire, lost>> /\ Shape(reading)
  BY DEF Download, StreamInv
<1>2. CASE reading' = [reading EXCEPT !.pc = "image", !.tool = TRUE]
  <2>1. [reading EXCEPT !.pc = "image", !.tool = TRUE] =
           [reading EXCEPT !.images = reading.images, !.pc = "image", !.tool = TRUE]
    BY <1>1 DEF Shape, Fields
  <2>2. reading' = [reading EXCEPT !.images = reading.images, !.pc = "image", !.tool = TRUE]
    BY <1>2, <2>1
  <2> QED
    BY <1>1, <2>2, ImageRight
<1>3. CASE reading' = Fails(reading, "vendor")
  BY <1>1, <1>3, FailRight
<1>4. CASE reading' = Fails(reading, "request")
  BY <1>1, <1>4, FailRight
<1> QED
  BY <1>2, <1>3, <1>4 DEF Download, Reads

LEMMA StoredRight ==
  ASSUME StreamInv, Stored
  PROVE  StreamInv'
<1>1. /\ reading.pc = "image" /\ UNCHANGED <<reply, wire, lost>>
      /\ Shape(reading) /\ Phase(reply, reading) /\ reading.complete \in BOOLEAN
      /\ reply \in Replies /\ Arrived(reply, wire, reading, lost) /\ reading.handled \in Nat
      /\ lost \in BOOLEAN
      /\ reading.category = "broken" => lost \/ ~Ended(reply, Len(reply.events))
  BY DEF Stored, StreamInv
<1>2. CASE reading.images > 1
  <2> DEFINE pc == IF Vendor = "MISTRAL" THEN "download" ELSE "image"
             tool == reading.tool \/ Vendor = "OPENAI"
  <2>1. reading' = [reading EXCEPT !.images = reading.images - 1, !.pc = pc, !.tool = tool]
    BY <1>2 DEF Stored, Reads, NextImage
  <2>2. pc \in {"download", "image"}
    OBVIOUS
  <2> HIDE DEF pc, tool
  <2> QED
    BY <1>1, <2>1, <2>2, ImageRight
<1>3. CASE ~(reading.images > 1)
  <2> DEFINE x == [reading EXCEPT !.images = 0]
             n == reading.handled - 1
             y == After(x, reply.events[n + 1])
  <2>1. /\ reading.handled \in 1..Len(reply.events) /\ reading.event = <<reply.events[reading.handled]>>
        /\ reading.complete <=> Ended(reply, n)
        /\ Tallied(reply, reading, IF CountsFirst(reply) THEN reading.handled ELSE n)
    BY <1>1 DEF Phase
  <2>2. n \in Nat /\ n + 1 = reading.handled /\ n + 1 \in 1..Len(reply.events)
    BY <1>1, <2>1
  <2>3. Head(reading.event) = reply.events[n + 1]
    BY <2>1, <2>2
  <2>4. reading' = y
    BY <1>3, <2>3 DEF Stored, Reads
  <2>5. /\ Shape(x) /\ x.handled = n + 1 /\ x.complete = reading.complete
        /\ x.buffer = reading.buffer /\ x.category = reading.category
        /\ x.raw = reading.raw /\ x.usage = reading.usage
    BY <1>1, <2>2 DEF Shape, Fields
  <2> HIDE DEF x, n
  <2>6. Tallied(reply, x, IF CountsFirst(reply) THEN n + 1 ELSE n)
    BY <2>1, <2>2, <2>5 DEF Tallied
  <2>7. Went(x, y, n + 1)
    BY <1>1, <2>1, <2>2, <2>5, <2>6, AfterRight
  <2> HIDE DEF y
  <2>8. Keeps(y)
    BY <1>1, <2>2, <2>4, <2>5, <2>7 DEF Keeps, Went
  <2> QED
    BY <1>1, <2>8, KeepsRight
<1> QED
  BY <1>2, <1>3

LEMMA StreamNextRight ==
  ASSUME StreamInv, [StreamNext]_streamVars
  PROVE  StreamInv'
<1>1. CASE \E r \in Replies : Request(r)
  BY <1>1, RequestRight
<1>2. CASE Opened
  BY <1>2, OpenedRight
<1>3. CASE NotOpened
  BY <1>3, FailRight DEF NotOpened, Reads
<1>4. CASE NextEvent
  BY <1>4, NextEventRight
<1>5. CASE Closed
  BY <1>5, ClosedRight
<1>6. CASE Cut
  BY <1>6, CutRight
<1>7. CASE \E n \in 1..Len(wire) : Chunk(n)
  BY <1>7, ChunkRight
<1>8. CASE Download
  BY <1>8, DownloadRight
<1>9. CASE Stored
  BY <1>9, StoredRight
<1>10. CASE NotStored
  BY <1>10, FailRight DEF NotStored, Reads
<1>11. CASE Abort
  <2>1. reading.pc # "idle" /\ reading' = Fails(reading, "aborted") /\ UNCHANGED <<reply, wire, lost>>
    BY <1>11 DEF Abort, Reads, Waiting
  <2> QED
    BY <2>1, FailRight
<1>12. CASE UNCHANGED streamVars
  BY <1>12 DEF StreamInv, streamVars
<1> QED
  BY <1>1, <1>2, <1>3, <1>4, <1>5, <1>6, <1>7, <1>8, <1>9, <1>10, <1>11, <1>12 DEF StreamNext

LEMMA StreamInvTold ==
  ASSUME StreamInv
  PROVE  ReplyTold
<1>1. CASE reading.pc = "idle"
  <2>1. reading = NoStream
    BY <1>1 DEF StreamInv
  <2>2. reading.category # "broken" /\ ~reading.reported
    BY <2>1 DEF NoStream
  <2> QED
    BY <1>1, <2>2 DEF ReplyTold, StreamsTold, CostTold
<1>2. CASE reading.pc # "idle"
  <2>1. /\ reply \in Replies /\ Phase(reply, reading) /\ Arrived(reply, wire, reading, lost)
        /\ reading.handled \in Nat
        /\ reading.category = "broken" => lost \/ ~Ended(reply, Len(reply.events))
    BY <1>2 DEF StreamInv
  <2>2. reading.handled <= Len(reply.events) /\ Len(reply.events) \in Nat
    <3>1. Readable(reply)
      BY <2>1, ProvidersAssumption DEF Readable
    <3> QED
      BY <2>1, <3>1, HoldsText DEF Arrived, Readable
  <2>3. reading.pc = "returned" =>
          Ended(reply, reading.handled) /\ Tallied(reply, reading, reading.handled)
    BY <2>1 DEF Phase
  <2> DEFINE cost == EstimateCost(reading.usage, reading.raw)
  <2>4. cost <= TokenBill /\ TokenBill \in Nat /\ cost \in Nat
    <3>1. PICK n \in 0..reading.handled : Tallied(reply, reading, n)
      BY <2>1, SomeCount DEF SomeTallied
    <3>2. n \in 0..Len(reply.events)
      BY <2>1, <2>2
    <3> QED
      BY <2>1, <3>1, <3>2, CostRight
  <2>5. reading.pc = "returned" => cost = TokenBill
    <3>1. SUFFICES ASSUME reading.pc = "returned"
                   PROVE  cost = TokenBill
      OBVIOUS
    <3>2. reading.handled \in 0..Len(reply.events) /\ reading.handled # 0
      <4>1. ~Ended(reply, 0)
        BY <2>2, EndedNext
      <4> QED
        BY <2>1, <2>2, <2>3, <3>1, <4>1
    <3> QED
      BY <2>1, <2>3, <3>1, <3>2, CostRight
  <2>6. reply.fee \in Nat /\ (~CostEstimated => reply.fee = 0)
    <3>1. reply.fee \in Nat /\ (reply.fee > 0 => Draws(reply))
      BY <2>1, ProvidersAssumption
    <3>2. ~CostEstimated => ~Draws(reply)
      BY DEF CostEstimated, Draws, Vendor
    <3> QED
      BY <3>1, <3>2
  <2> HIDE DEF cost
  <2>7. /\ cost <= BillCost
        /\ reading.pc = "returned" /\ ~CostEstimated => cost = BillCost
    BY <2>4, <2>5, <2>6 DEF BillCost
  <2> QED
    BY <2>1, <2>3, <2>5, <2>7 DEF ReplyTold, StreamsTold, CostTold, EndedByVendor, cost
<1> QED
  BY <1>1, <1>2

(* However a reply is cut into chunks and whichever way its vendor reports *)
(* tokens, an attempt succeeds only with an answer that has ended and is a *)
(* broken stream only if something is missing; the cost recorded for an    *)
(* answer is the price of its tokens, and is the whole bill unless it is   *)
(* marked as an estimate, because what images cost beside tokens is not    *)
(* known (stream(), readEvents() and record()).                            *)
THEOREM RepliesAreTold == StreamSpec => []ReplyTold
<1>1. StreamInit => StreamInv
  <2>1. Shape(NoStream) /\ NoStream.complete = FALSE /\ NoStream.handled = 0 /\ NoStream.pc = "idle"
    BY DEF NoStream, Shape, Fields
  <2>2. SUFFICES ASSUME StreamInit PROVE StreamInv
    OBVIOUS
  <2>3. reading = NoStream /\ ~lost /\ lost \in BOOLEAN
    BY <2>2 DEF StreamInit
  <2>4. Shape(reading) /\ reading.complete \in BOOLEAN /\ reading.handled \in Nat
    <3>1. NoStream.complete \in BOOLEAN
      BY <2>1, Zenon
    <3> QED
      BY <2>1, <2>3, <3>1
  <2> QED
    BY <2>1, <2>3, <2>4 DEF StreamInv
<1>2. StreamInv /\ [StreamNext]_streamVars => StreamInv'
  BY StreamNextRight
<1>3. StreamInv => ReplyTold
  BY StreamInvTold
<1> QED
  BY <1>1, <1>2, <1>3, PTL DEF StreamSpec

----------------------------------------------------------------------------
(* The prompts of a conversation.                                          *)

Ascends(s) == \A i, j \in DOMAIN s : i < j => s[i] < s[j]

LEMMA InOrderRight ==
  ASSUME NEW S \in SUBSET Nat, IsFiniteSet(S)
  PROVE  LET s == InOrder(S)
         IN  /\ s \in Seq(S) /\ Len(s) \in Nat /\ DOMAIN s = 1..Len(s) /\ Ascends(s)
             /\ \A x \in S : \E i \in 1..Len(s) : s[i] = x
<1> DEFINE R == {p \in S \X S : p[1] < p[2]}
           n == Cardinality(S)
           s == InOrder(S)
<1>1. Orders(R, S)
  BY DEF Orders
<1>2. \A x, y \in S : <<x, y>> \in R => x < y
  OBVIOUS
<1>3. s = Listed(S, R)
  BY DEF InOrder
<1> HIDE DEF R, s
<1>4. /\ n \in Nat /\ s \in [1..n -> S] /\ s \in Seq(S) /\ Len(s) = n
      /\ \A i, j \in 1..n : i < j => <<s[i], s[j]>> \in R
      /\ \A x \in S : \E i \in 1..n : s[i] = x
  BY <1>1, <1>3, ListedRight
<1> HIDE DEF n
<1>5. Ascends(s)
  BY <1>2, <1>4 DEF Ascends
<1> QED
  BY <1>4, <1>5 DEF s

\* The last members of a list are a tail of it.
LEMMA LastOfRight ==
  ASSUME NEW T, NEW s \in Seq(T), NEW n \in Nat
  PROVE  LET l == LastOf(n, s)
             k == Len(s) - Len(l)
         IN  /\ l \in Seq(T) /\ Len(l) \in Nat /\ k \in Nat /\ Len(l) <= n
             /\ \A i \in 1..Len(l) : k + i \in 1..Len(s) /\ l[i] = s[k + i]
<1> DEFINE m == Len(s)
           k == IF m > n THEN m - n ELSE 0
           l == LastOf(n, s)
<1>1. m \in Nat /\ k \in 0..m
  OBVIOUS
<1>2. l = SubSeq(s, k + 1, m)
  BY DEF LastOf
<1> HIDE DEF k, l
<1>3. /\ l \in Seq(T) /\ Len(l) = m - k
      /\ \A i \in 1..(m - k) : l[i] = s[k + i] /\ k + i \in 1..m
  BY <1>1, <1>2
<1>4. m - Len(l) = k /\ Len(l) \in Nat
  BY <1>1, <1>3
<1>5. m - k <= n
  BY <1>1 DEF k
<1> QED
  BY <1>1, <1>3, <1>4, <1>5 DEF l

\* Documents in the order in which their chunks are looked at.
Library(documents) ==
  /\ \E n \in Nat : DOMAIN documents = 1..n
  /\ \A d \in DOMAIN documents :
       LET chunks == documents[d].text.chunks
       IN  /\ documents[d].of \in Nat
           /\ \E n \in Nat : DOMAIN chunks = 1..n
           /\ \A c \in DOMAIN chunks : chunks[c].size \in Nat \ {0}
  /\ \A d, e \in DOMAIN documents : documents[d].of = documents[e].of => d = e

ChunkAt(documents, d, c) ==
  [of |-> documents[d].of, nth |-> c, chunk |-> documents[d].text.chunks[c]]

LEMMA ChunksRight ==
  ASSUME NEW documents, Library(documents)
  PROVE  LET S == ChunksOf(documents)
         IN  /\ IsFiniteSet(S)
             /\ \A x \in S : /\ x.of \in Nat /\ x.nth \in Nat /\ x.chunk.size \in Nat \ {0}
                             /\ \E d \in DOMAIN documents : x.of = documents[d].of
             /\ \A x, y \in S : x.of = y.of /\ x.nth = y.nth => x = y
<1> DEFINE S == ChunksOf(documents)
           Places(d) == DOMAIN documents[d].text.chunks
           Part(d) == {ChunkAt(documents, d, c) : c \in Places(d)}
           Parts == {Part(d) : d \in DOMAIN documents}
<1>1. S = UNION Parts
  BY DEF ChunksOf, ChunkAt
<1>2. IsFiniteSet(S)
  <2>1. IsFiniteSet(DOMAIN documents)
    <3>1. PICK n \in Nat : DOMAIN documents = 1..n
      BY DEF Library
    <3> QED
      BY <3>1, FS_Interval
  <2>2. ASSUME NEW d \in DOMAIN documents PROVE IsFiniteSet(Part(d))
    <3>1. IsFiniteSet(Places(d))
      <4>1. PICK n \in Nat : Places(d) = 1..n
        BY DEF Library
      <4> HIDE DEF Places
      <4> QED
        BY <4>1, FS_Interval
    <3> DEFINE D == Places(d)
               P == Part(d)
               f == [c \in D |-> ChunkAt(documents, d, c)]
    <3>2. f \in Surjection(D, P)
      BY DEF Surjection
    <3> HIDE DEF D, P, f
    <3>3. IsFiniteSet(P)
      BY <3>1, <3>2, FS_Surjection DEF D
    <3> QED
      BY <3>3 DEF P
  <2> HIDE DEF Part
  <2>3. IsFiniteSet(Parts)
    <3> DEFINE D == DOMAIN documents
               f == [d \in D |-> Part(d)]
    <3>1. f \in Surjection(D, Parts)
      BY DEF Surjection
    <3> HIDE DEF D, Parts, f
    <3> QED
      BY <2>1, <3>1, FS_Surjection DEF D
  <2>4. \A P \in Parts : IsFiniteSet(P)
    BY <2>2
  <2> HIDE DEF Parts
  <2> QED
    BY <1>1, <2>3, <2>4, FS_UNION
<1>3. ASSUME NEW x \in S
      PROVE  \E d \in DOMAIN documents : \E c \in Places(d) : x = ChunkAt(documents, d, c)
  BY <1>1
<1>4. ASSUME NEW x \in S
      PROVE  /\ x.of \in Nat /\ x.nth \in Nat /\ x.chunk.size \in Nat \ {0}
             /\ \E d \in DOMAIN documents : x.of = documents[d].of
  <2>1. PICK d \in DOMAIN documents : \E c \in Places(d) : x = ChunkAt(documents, d, c)
    BY <1>3
  <2>9. PICK c \in Places(d) : x = ChunkAt(documents, d, c)
    BY <2>1
  <2>2. x.of = documents[d].of /\ x.nth = c /\ x.chunk = documents[d].text.chunks[c]
    BY <2>9 DEF ChunkAt
  <2> QED
    BY <2>2 DEF Library
<1>5. ASSUME NEW x \in S, NEW y \in S, x.of = y.of, x.nth = y.nth PROVE x = y
  <2>1. PICK d \in DOMAIN documents : \E c \in Places(d) : x = ChunkAt(documents, d, c)
    BY <1>3
  <2>9. PICK c \in Places(d) : x = ChunkAt(documents, d, c)
    BY <2>1
  <2>2. PICK e \in DOMAIN documents : \E b \in Places(e) : y = ChunkAt(documents, e, b)
    BY <1>3
  <2>8. PICK b \in Places(e) : y = ChunkAt(documents, e, b)
    BY <2>2
  <2>3. /\ x.of = documents[d].of /\ x.nth = c
        /\ y.of = documents[e].of /\ y.nth = b
    BY <2>8, <2>9 DEF ChunkAt
  <2>4. d = e /\ c = b
    BY <1>5, <2>3 DEF Library
  <2> QED
    BY <2>8, <2>9, <2>4
<1> HIDE DEF S
<1> QED
  BY <1>2, <1>4, <1>5 DEF S

LEMMA BetterOrders ==
  ASSUME NEW query, IsFiniteSet(query), NEW documents, Library(documents)
  PROVE  LET S == Found(query, documents)
         IN  /\ IsFiniteSet(S) /\ Orders({p \in S \X S : Better(query, p[1], p[2])}, S)
             /\ \A x \in S : Score(query, x.chunk) \in Nat \ {0}
<1> DEFINE S == Found(query, documents)
           A(x) == Score(query, x.chunk)
           B(x) == x.of
           C(x) == x.nth
           R == {p \in S \X S : Better(query, p[1], p[2])}
<1>1. IsFiniteSet(S) /\ S \subseteq ChunksOf(documents)
  <2>1. S \subseteq ChunksOf(documents)
    BY DEF Found
  <2> HIDE DEF S
  <2> QED
    BY <2>1, ChunksRight, FS_Subset
<1>2. \A x \in S : B(x) \in Nat /\ C(x) \in Nat
  BY <1>1, ChunksRight
<1>3. \A x, y \in S : B(x) = B(y) /\ C(x) = C(y) => x = y
  BY <1>1, ChunksRight
<1>4. \A x \in S : A(x) \in Nat \ {0}
  <2>1. ASSUME NEW x \in S PROVE A(x) \in Nat
    <3> DEFINE K == query \cap x.chunk.terms
    <3>1. K \in SUBSET query
      OBVIOUS
    <3> HIDE DEF K
    <3>2. IsFiniteSet(K)
      BY <3>1, FS_Subset
    <3>3. Cardinality(K) \in Nat
      BY <3>2, FS_CardinalityType
    <3> QED
      BY <3>3 DEF Score, K
  <2> QED
    BY <2>1 DEF Found
<1>5. ASSUME NEW x \in S, NEW y \in S
      PROVE  <<x, y>> \in R <=> \/ A(x) > A(y)
                                \/ A(x) = A(y) /\ (B(x) < B(y) \/ (B(x) = B(y) /\ C(x) < C(y)))
  BY DEF Better, Earlier
<1> HIDE DEF S, A, B, C, R
<1>6. Orders(R, S)
  <2>1. \A x \in S : <<x, x>> \notin R
    BY <1>2, <1>4, <1>5
  <2>2. ASSUME NEW x \in S, NEW y \in S, NEW z \in S, <<x, y>> \in R, <<y, z>> \in R PROVE <<x, z>> \in R
    BY <1>2, <1>4, <1>5, <2>2
  <2>3. ASSUME NEW x \in S, NEW y \in S PROVE x = y \/ <<x, y>> \in R \/ <<y, x>> \in R
    BY <1>2, <1>3, <1>4, <1>5
  <2> QED
    BY <2>1, <2>2, <2>3 DEF Orders
<1> QED
  BY <1>1, <1>4, <1>6 DEF S, A, R

\* What is taken, and what it is taken of.
Piece == [of : Nat, nth : Nat, size : Nat]

LEMMA LengthsDefined ==
  ASSUME NEW pieces \in Seq(Piece)
  PROVE  LET sum == Lengths(pieces)
         IN  /\ sum[0] = 0 /\ \A k \in 0..Len(pieces) : sum[k] \in Nat
             /\ \A k \in 1..Len(pieces) : sum[k] = sum[k - 1] + pieces[k].size + 1
<1> DEFINE n == Len(pieces)
           Add(k, m) == m + pieces[k].size + 1
           step == [x \in (1..n) \X Nat |-> Add(x[1], x[2])]
<1>1. n \in Nat /\ \A k \in 1..n : pieces[k].size \in Nat
  <2>1. \A k \in 1..n : pieces[k] \in Piece
    OBVIOUS
  <2> QED
    BY <2>1 DEF Piece
<1>2. step \in [(1..n) \X Nat -> Nat]
  <2>1. ASSUME NEW k \in 1..n, NEW m \in Nat PROVE Add(k, m) \in Nat
    BY <1>1
  <2> HIDE DEF Add
  <2> QED
    BY <2>1
<1>3. \A x \in (1..n) \X Nat : step[x] = Add(x[1], x[2])
  OBVIOUS
<1> HIDE DEF step, n, Add
<1>4. PICK f : Recurs(f, n, Nat, 0, step)
  BY <1>1, <1>2, RecursionExists
<1>5. f = [k \in 0..n |-> IF k = 0 THEN 0 ELSE Add(k, f[k - 1])]
  <2>1. ASSUME NEW k \in 0..n, k # 0 PROVE f[k] = Add(k, f[k - 1])
    <3>1. k \in 1..n /\ k - 1 \in 0..n
      BY <1>1, <2>1
    <3>2. f[k - 1] \in Nat
      BY <1>4, <3>1 DEF Recurs
    <3>3. <<k, f[k - 1]>> \in (1..n) \X Nat
      BY <3>1, <3>2
    <3> QED
      BY <1>3, <1>4, <3>1, <3>3 DEF Recurs
  <2> QED
    BY <1>4, <2>1 DEF Recurs
<1> DEFINE sum == Lengths(pieces)
<1>6. sum = [k \in 0..n |-> IF k = 0 THEN 0 ELSE Add(k, sum[k - 1])]
  BY <1>5, Zenon DEF Lengths, Add, n
<1> HIDE DEF sum
<1>7. sum[0] = 0 /\ \A k \in 1..n : sum[k] = Add(k, sum[k - 1])
  BY <1>1, <1>6
<1>8. \A k \in 0..n : sum[k] \in Nat
  <2> DEFINE T == {k \in Nat : k <= n => sum[k] \in Nat}
  <2>1. 0 \in T
    BY <1>7
  <2>2. ASSUME NEW k \in T PROVE k + 1 \in T
    <3>1. SUFFICES ASSUME k + 1 <= n PROVE sum[k + 1] \in Nat
      OBVIOUS
    <3>2. k + 1 \in 1..n /\ k + 1 - 1 = k /\ sum[k] \in Nat
      BY <1>1, <3>1
    <3>3. sum[k + 1] = sum[k] + pieces[k + 1].size + 1 /\ pieces[k + 1].size \in Nat
      BY <1>1, <1>7, <3>2 DEF Add
    <3> QED
      BY <3>2, <3>3
  <2>3. T = Nat
    BY <2>1, <2>2, NatSets
  <2> QED
    BY <1>1, <2>3
<1> QED
  BY <1>7, <1>8 DEF Add, sum, n

LEMMA LengthType == ASSUME NEW pieces \in Seq(Piece) PROVE Length(pieces) \in Nat
<1> DEFINE n == Len(pieces)
<1>1. n \in 0..n
  OBVIOUS
<1>2. \A k \in 0..n : Lengths(pieces)[k] \in Nat
  BY LengthsDefined
<1> HIDE DEF n
<1> QED
  BY <1>1, <1>2 DEF Length, n

LEMMA LengthEmpty == Length(<<>>) = 0
<1>1. <<>> \in Seq(Piece) /\ Len(<<>>) = 0
  OBVIOUS
<1> QED
  BY <1>1, LengthsDefined DEF Length

LEMMA LengthAppend ==
  ASSUME NEW pieces \in Seq(Piece), NEW piece \in Piece
  PROVE  Length(Append(pieces, piece)) = Length(pieces) + piece.size + 1
<1> DEFINE t == Append(pieces, piece)
           n == Len(pieces)
           f == Lengths(pieces)
           g == Lengths(t)
           T == {k \in Nat : k <= n => g[k] = f[k]}
<1>1. /\ t \in Seq(Piece) /\ n \in Nat /\ Len(t) = n + 1
      /\ t[n + 1] = piece /\ \A k \in 1..n : t[k] = pieces[k]
  OBVIOUS
<1> HIDE DEF t, n
<1>2. f[0] = 0 /\ \A k \in 1..n : f[k] = f[k - 1] + pieces[k].size + 1
  BY LengthsDefined DEF n
<1>3. g[0] = 0 /\ \A k \in 1..(n + 1) : g[k] = g[k - 1] + t[k].size + 1
  <2>1. g[0] = 0 /\ \A k \in 1..Len(t) : g[k] = g[k - 1] + t[k].size + 1
    BY <1>1, LengthsDefined
  <2> HIDE DEF g
  <2> QED
    BY <1>1, <2>1
<1> HIDE DEF f, g
<1>4. ASSUME NEW k \in T PROVE k + 1 \in T
  <2>1. ASSUME k + 1 <= n PROVE g[k + 1] = f[k + 1]
    <3>1. k + 1 \in 1..n /\ k + 1 \in 1..(n + 1) /\ k + 1 - 1 = k /\ g[k] = f[k]
      BY <1>1, <2>1
    <3>2. t[k + 1] = pieces[k + 1]
      BY <1>1, <3>1
    <3>3. f[k + 1] = f[k] + pieces[k + 1].size + 1 /\ g[k + 1] = g[k] + t[k + 1].size + 1
      BY <1>2, <1>3, <3>1
    <3> QED
      BY <3>1, <3>2, <3>3
  <2> QED
    BY <2>1
<1>5. g[n] = f[n]
  <2>1. 0 \in T
    BY <1>2, <1>3
  <2>2. T = Nat
    BY <1>4, <2>1, NatSets
  <2> QED
    BY <1>1, <2>2
<1>6. n + 1 \in 1..(n + 1) /\ n + 1 - 1 = n
  BY <1>1
<1>7. g[n + 1] = g[n] + piece.size + 1
  BY <1>1, <1>3, <1>6
<1>8. Length(t) = g[n + 1] /\ Length(pieces) = f[n]
  BY <1>1 DEF Length, f, g, n
<1> QED
  BY <1>5, <1>7, <1>8 DEF t

Weighs(x) == x.of \in Nat /\ x.nth \in Nat /\ x.chunk.size \in Nat \ {0}

LEMMA TakeRight ==
  ASSUME NEW pieces \in Seq(Piece), NEW x, Weighs(x), NEW budget \in Nat
  PROVE  LET next == Take(pieces, x, budget)
             piece == next[Len(next)]
             used == Length(pieces)
         IN  /\ next \in Seq(Piece) /\ used \in Nat
             /\ budget - used <= 1 => next = pieces
             /\ budget - used > 1 =>
                  /\ Len(next) = Len(pieces) + 1 /\ \A j \in 1..Len(pieces) : next[j] = pieces[j]
                  /\ piece.of = x.of /\ piece.nth = x.nth /\ Length(next) <= budget
                  /\ \/ piece.size = x.chunk.size
                     \/ piece.size < x.chunk.size /\ Length(next) = budget
<1> DEFINE used == Length(pieces)
           left == budget - used
           size == Min({x.chunk.size, left - 1})
           piece == [of |-> x.of, nth |-> x.nth, size |-> size]
           next == Take(pieces, x, budget)
<1>1. used \in Nat /\ left \in Int /\ x.chunk.size \in Nat
  BY LengthType DEF Weighs
<1>2. next = IF left <= 1 THEN pieces ELSE Append(pieces, piece)
  BY DEF Take
<1> HIDE DEF next
<1>3. CASE left <= 1
  BY <1>1, <1>2, <1>3 DEF next
<1>4. CASE left > 1
  <2>1. next = Append(pieces, piece)
    BY <1>1, <1>2, <1>4
  <2>2. /\ size \in Nat /\ size <= left - 1
        /\ size = x.chunk.size \/ (size < x.chunk.size /\ size = left - 1)
    <3> DEFINE a == x.chunk.size
               b == left - 1
    <3>1. a \in Nat /\ b \in Nat
      BY <1>1, <1>4
    <3>2. size = Min({a, b})
      OBVIOUS
    <3> HIDE DEF a, b, size
    <3>3. \E m \in {a, b} : \A k \in {a, b} : m <= k
      BY <3>1
    <3>4. size \in {a, b} /\ size <= a /\ size <= b
      BY <3>2, <3>3 DEF Min
    <3> QED
      BY <3>1, <3>4 DEF a, b
  <2> HIDE DEF size
  <2>3. piece \in Piece /\ piece.of = x.of /\ piece.nth = x.nth /\ piece.size = size
    BY <2>2 DEF Piece, Weighs
  <2> HIDE DEF piece
  <2>4. /\ next \in Seq(Piece) /\ Len(next) = Len(pieces) + 1 /\ next[Len(next)] = piece
        /\ \A j \in 1..Len(pieces) : next[j] = pieces[j]
    BY <2>1, <2>3
  <2>5. Length(next) = used + size + 1
    BY <2>1, <2>3, LengthAppend
  <2> HIDE DEF used
  <2>6. Length(next) <= budget /\ (size = left - 1 => Length(next) = budget)
    BY <1>1, <2>2, <2>5
  <2>7. ~(left <= 1)
    BY <1>1, <1>4
  <2> QED
    BY <1>1, <2>2, <2>3, <2>4, <2>6, <2>7 DEF next, used
<1> QED
  BY <1>1, <1>3, <1>4

LEMMA TakenDefined ==
  ASSUME NEW S, \A x \in S : Weighs(x), NEW ranked \in Seq(S), NEW budget \in Nat
  PROVE  LET taken == Taken(ranked, budget)
         IN  /\ taken[0] = <<>>
             /\ \A k \in 1..Len(ranked) : taken[k] = Take(taken[k - 1], ranked[k], budget)
<1> DEFINE n == Len(ranked)
           P == Seq(Piece)
           Next1(k, pieces) == Take(pieces, ranked[k], budget)
           step == [x \in (1..n) \X P |-> Next1(x[1], x[2])]
<1>1. n \in Nat /\ <<>> \in P
  OBVIOUS
<1>2. step \in [(1..n) \X P -> P]
  <2>1. ASSUME NEW k \in 1..n, NEW pieces \in P PROVE Next1(k, pieces) \in P
    <3>1. Weighs(ranked[k])
      OBVIOUS
    <3> QED
      BY <3>1, TakeRight
  <2> HIDE DEF Next1, P
  <2> QED
    BY <2>1
<1>3. \A x \in (1..n) \X P : step[x] = Next1(x[1], x[2])
  OBVIOUS
<1> HIDE DEF step, Next1, n, P
<1>4. PICK f : Recurs(f, n, P, <<>>, step)
  BY <1>1, <1>2, RecursionExists
<1>5. f = [k \in 0..n |-> IF k = 0 THEN <<>> ELSE Next1(k, f[k - 1])]
  <2>1. ASSUME NEW k \in 0..n, k # 0 PROVE f[k] = Next1(k, f[k - 1])
    <3>1. k \in 1..n /\ k - 1 \in 0..n
      BY <1>1, <2>1
    <3>2. f[k - 1] \in P
      BY <1>4, <3>1 DEF Recurs
    <3>3. <<k, f[k - 1]>> \in (1..n) \X P
      BY <3>1, <3>2
    <3> QED
      BY <1>3, <1>4, <3>1, <3>3 DEF Recurs
  <2> QED
    BY <1>4, <2>1 DEF Recurs
<1> DEFINE taken == Taken(ranked, budget)
<1>6. taken = [k \in 0..n |-> IF k = 0 THEN <<>> ELSE Next1(k, taken[k - 1])]
  BY <1>5, Zenon DEF Taken, Next1, n
<1> HIDE DEF taken
<1>7. taken[0] = <<>> /\ \A k \in 1..n : taken[k] = Next1(k, taken[k - 1])
  BY <1>1, <1>6
<1> QED
  BY <1>7 DEF Next1, n, taken

\* The first chunks of the ranking, of which only the last may be cut.
Filled(pieces, ranked, k, budget) ==
  /\ pieces \in Seq(Piece) /\ Len(pieces) <= k /\ Length(pieces) <= budget
  /\ \A j \in 1..Len(pieces) :
       /\ pieces[j].of = ranked[j].of /\ pieces[j].nth = ranked[j].nth
       /\ \/ pieces[j].size = ranked[j].chunk.size
          \/ pieces[j].size < ranked[j].chunk.size /\ j = Len(pieces) /\ Length(pieces) = budget
  /\ Len(pieces) < k => budget - Length(pieces) <= 1

LEMMA TakenRight ==
  ASSUME NEW S, \A x \in S : Weighs(x), NEW ranked \in Seq(S), NEW budget \in Nat
  PROVE  Filled(Taken(ranked, budget)[Len(ranked)], ranked, Len(ranked), budget)
<1> DEFINE n == Len(ranked)
           taken == Taken(ranked, budget)
           T == {k \in Nat : k <= n => Filled(taken[k], ranked, k, budget)}
<1>1. n \in Nat
  OBVIOUS
<1>2. taken[0] = <<>> /\ \A k \in 1..n : taken[k] = Take(taken[k - 1], ranked[k], budget)
  BY TakenDefined
<1> HIDE DEF taken
<1>3. Filled(taken[0], ranked, 0, budget)
  <2>1. <<>> \in Seq(Piece) /\ Len(<<>>) = 0 /\ Length(<<>>) = 0
    BY LengthEmpty
  <2> QED
    BY <1>2, <2>1 DEF Filled
<1>4. ASSUME NEW k \in Nat, k + 1 <= n, Filled(taken[k], ranked, k, budget)
      PROVE  Filled(taken[k + 1], ranked, k + 1, budget)
  <2> DEFINE p == taken[k]
             q == taken[k + 1]
             x == ranked[k + 1]
             used == Length(p)
             m == Len(p)
             piece == q[Len(q)]
  <2>1. x \in S /\ Weighs(x) /\ k + 1 \in 1..n /\ k + 1 - 1 = k
    BY <1>1, <1>4
  <2>2. q = Take(p, x, budget)
    <3>1. taken[k + 1] = Take(taken[k + 1 - 1], ranked[k + 1], budget)
      BY <1>2, <2>1
    <3> QED
      BY <2>1, <3>1
  <2>3. /\ p \in Seq(Piece) /\ m \in Nat /\ m <= k /\ used <= budget
        /\ m < k => budget - used <= 1
        /\ \A j \in 1..m :
             /\ p[j].of = ranked[j].of /\ p[j].nth = ranked[j].nth
             /\ \/ p[j].size = ranked[j].chunk.size
                \/ p[j].size < ranked[j].chunk.size /\ j = m /\ used = budget
    BY <1>4 DEF Filled
  <2> HIDE DEF x, p
  <2>4. /\ q \in Seq(Piece) /\ used \in Nat
        /\ budget - used <= 1 => q = p
        /\ budget - used > 1 =>
             /\ Len(q) = m + 1 /\ \A j \in 1..m : q[j] = p[j]
             /\ piece.of = x.of /\ piece.nth = x.nth /\ Length(q) <= budget
             /\ piece.size = x.chunk.size \/ (piece.size < x.chunk.size /\ Length(q) = budget)
    <3> HIDE DEF q
    <3>1. LET next == Take(p, x, budget)
          IN  /\ next \in Seq(Piece) /\ Length(p) \in Nat
              /\ budget - Length(p) <= 1 => next = p
              /\ budget - Length(p) > 1 =>
                   /\ Len(next) = Len(p) + 1 /\ \A j \in 1..Len(p) : next[j] = p[j]
                   /\ next[Len(next)].of = x.of /\ next[Len(next)].nth = x.nth /\ Length(next) <= budget
                   /\ \/ next[Len(next)].size = x.chunk.size
                      \/ next[Len(next)].size < x.chunk.size /\ Length(next) = budget
      BY <2>1, <2>3, TakeRight
    <3> QED
      BY <2>2, <3>1
  <2>5. CASE budget - used <= 1
    <3>1. q = p
      BY <2>4, <2>5
    <3>2. Filled(p, ranked, k + 1, budget)
      <4>1. Len(p) <= k + 1
        BY <2>1, <2>3
      <4> QED
        BY <2>3, <2>5, <4>1 DEF Filled
    <3> QED
      BY <3>1, <3>2
  <2>6. CASE budget - used > 1
    <3>1. m = k /\ used # budget
      BY <2>3, <2>4, <2>6
    <3>2. /\ Len(q) = k + 1 /\ \A j \in 1..k : q[j] = p[j]
          /\ piece = q[k + 1]
          /\ piece.of = x.of /\ piece.nth = x.nth /\ Length(q) <= budget
          /\ piece.size = x.chunk.size \/ (piece.size < x.chunk.size /\ Length(q) = budget)
      BY <2>4, <2>6, <3>1
    <3> HIDE DEF q, piece
    <3>3. ASSUME NEW j \in 1..(k + 1)
          PROVE  /\ q[j].of = ranked[j].of /\ q[j].nth = ranked[j].nth
                 /\ \/ q[j].size = ranked[j].chunk.size
                    \/ q[j].size < ranked[j].chunk.size /\ j = k + 1 /\ Length(q) = budget
      <4>1. CASE j = k + 1
        BY <3>2, <4>1 DEF x
      <4>2. CASE j # k + 1
        <5>1. j \in 1..k /\ q[j] = p[j]
          BY <3>2, <4>2
        <5> QED
          BY <2>3, <3>1, <5>1
      <4> QED
        BY <4>1, <4>2
    <3> QED
      BY <2>4, <3>2, <3>3 DEF Filled, q
  <2>7. used \in Int
    BY <2>4
  <2> QED
    BY <2>5, <2>6, <2>7
<1>5. T = Nat
  <2>1. 0 \in T
    BY <1>3
  <2>2. ASSUME NEW k \in T PROVE k + 1 \in T
    <3>1. k \in Nat /\ (k <= n => Filled(taken[k], ranked, k, budget))
      OBVIOUS
    <3>2. ASSUME k + 1 <= n PROVE Filled(taken[k + 1], ranked, k + 1, budget)
      <4>1. k <= n
        BY <1>1, <3>1, <3>2
      <4> QED
        BY <1>4, <3>1, <3>2, <4>1
    <3> QED
      BY <3>1, <3>2
  <2> QED
    BY <2>1, <2>2, NatSets
<1>6. Filled(taken[n], ranked, n, budget)
  BY <1>1, <1>5
<1> QED
  BY <1>6 DEF taken, n

LEMMA RankedRight ==
  ASSUME NEW query, IsFiniteSet(query), NEW documents, Library(documents)
  PROVE  LET S == Found(query, documents)
             s == Ranked(query, documents)
         IN  /\ s \in Seq(S) /\ \A x \in S : \E i \in 1..Len(s) : s[i] = x
             /\ \A i, j \in 1..Len(s) : i < j => Better(query, s[i], s[j]) /\ s[i] # s[j]
<1> DEFINE S == Found(query, documents)
           R == {p \in S \X S : Better(query, p[1], p[2])}
           s == Ranked(query, documents)
           n == Cardinality(S)
<1>1. IsFiniteSet(S) /\ Orders(R, S)
  BY BetterOrders
<1>2. s = Listed(S, R)
  BY DEF Ranked
<1>3. \A x, y \in S : <<x, y>> \in R <=> Better(query, x, y)
  OBVIOUS
<1> HIDE DEF S, R, s
<1>4. /\ n \in Nat /\ s \in Seq(S) /\ Len(s) = n /\ s \in [1..n -> S]
      /\ \A i, j \in 1..n : i < j => <<s[i], s[j]>> \in R
      /\ \A x \in S : \E i \in 1..n : s[i] = x
  BY <1>1, <1>2, ListedRight
<1> HIDE DEF n
<1>5. ASSUME NEW i \in 1..n, NEW j \in 1..n, i < j PROVE Better(query, s[i], s[j]) /\ s[i] # s[j]
  <2>1. s[i] \in S /\ s[j] \in S /\ <<s[i], s[j]>> \in R
    BY <1>4, <1>5
  <2>2. s[i] # s[j]
    BY <1>1, <2>1 DEF Orders
  <2> QED
    BY <1>3, <2>1, <2>2
<1> QED
  BY <1>4, <1>5 DEF S, s

LEMMA ExcerptsRight ==
  ASSUME NEW query, IsFiniteSet(query), NEW documents, Library(documents), NEW budget \in Nat
  PROVE  LET pieces == RelevantContext(query, documents, budget)
         IN  /\ pieces \in Seq(Piece) /\ Length(pieces) \in 0..budget
             /\ \A j \in 1..Len(pieces) : \E d \in DOMAIN documents : pieces[j].of = documents[d].of
             /\ Excerpts(query, documents, budget, pieces)
<1> DEFINE all == ChunksOf(documents)
           S == Found(query, documents)
           s == Ranked(query, documents)
           pieces == RelevantContext(query, documents, budget)
           n == Len(s)
           m == Len(pieces)
           room == budget - Length(pieces)
           Alike(a, b) == a.of = b.of /\ a.nth = b.nth
           taken == {x \in all : \E j \in DOMAIN pieces : Alike(pieces[j], x)}
<1>1. /\ s \in Seq(S) /\ \A x \in S : \E i \in 1..n : s[i] = x
      /\ \A i, j \in 1..n : i < j => Better(query, s[i], s[j]) /\ s[i] # s[j]
  BY RankedRight
<1>2. /\ \A x \in all : /\ x.of \in Nat /\ x.nth \in Nat /\ x.chunk.size \in Nat \ {0}
                        /\ \E d \in DOMAIN documents : x.of = documents[d].of
      /\ \A x, y \in all : Alike(x, y) => x = y
  BY ChunksRight
<1>3. S = {x \in all : Score(query, x.chunk) > 0} /\ \A x \in S : Weighs(x)
  BY <1>2 DEF Found, Weighs
<1>4. \A x \in S : Score(query, x.chunk) \in Nat \ {0}
  BY BetterOrders
<1>5. pieces = Taken(s, budget)[n]
  BY DEF RelevantContext
<1> HIDE DEF all, S, s, pieces
<1>6. Filled(pieces, s, n, budget)
  BY <1>1, <1>3, <1>5, TakenRight
<1>7. /\ pieces \in Seq(Piece) /\ m \in Nat /\ n \in Nat /\ m <= n /\ Length(pieces) <= budget
      /\ \A j \in 1..m :
           /\ Alike(pieces[j], s[j])
           /\ \/ pieces[j].size = s[j].chunk.size
              \/ pieces[j].size < s[j].chunk.size /\ j = m /\ Length(pieces) = budget
      /\ m < n => room <= 1
  BY <1>1, <1>6 DEF Filled
<1>8. Length(pieces) \in Nat
  BY <1>7, LengthType
<1>9. ASSUME NEW j \in 1..m
      PROVE  /\ j \in 1..n /\ s[j] \in S /\ s[j] \in all /\ Score(query, s[j].chunk) > 0
             /\ pieces[j].of = s[j].of /\ pieces[j].nth = s[j].nth
  <2>1. j \in 1..n
    BY <1>7
  <2>2. s[j] \in S
    BY <1>1, <2>1
  <2> QED
    BY <1>3, <1>7, <2>1, <2>2
<1>10. DOMAIN pieces = 1..m
  BY <1>7
<1>11. \A i, j \in DOMAIN pieces : i # j => ~Alike(pieces[i], pieces[j])
  <2>1. SUFFICES ASSUME NEW i \in 1..m, NEW j \in 1..m, i # j, Alike(pieces[i], pieces[j]) PROVE FALSE
    BY <1>10
  <2>2. s[i] = s[j]
    BY <1>2, <1>9, <2>1
  <2>3. i \in 1..n /\ j \in 1..n /\ (i < j \/ j < i)
    BY <1>9, <2>1
  <2> QED
    BY <1>1, <2>2, <2>3
<1>12. \A j \in DOMAIN pieces : \E x \in all :
          /\ Alike(pieces[j], x) /\ Score(query, x.chunk) > 0
          /\ \/ pieces[j].size = x.chunk.size
             \/ pieces[j].size < x.chunk.size /\ j = Len(pieces) /\ room = 0
  <2>1. SUFFICES ASSUME NEW j \in 1..m
                 PROVE  \E x \in all :
                          /\ Alike(pieces[j], x) /\ Score(query, x.chunk) > 0
                          /\ \/ pieces[j].size = x.chunk.size
                             \/ pieces[j].size < x.chunk.size /\ j = m /\ room = 0
    BY <1>10
  <2>2. Length(pieces) = budget => room = 0
    BY <1>8
  <2> HIDE DEF room, m
  <2>3. \/ pieces[j].size = s[j].chunk.size
        \/ pieces[j].size < s[j].chunk.size /\ j = m /\ room = 0
    BY <1>7, <2>2
  <2> QED
    BY <1>9, <2>3
<1>13. ASSUME NEW x \in all \ taken, Score(query, x.chunk) > 0
       PROVE  room <= 1 /\ \A y \in taken : Score(query, y.chunk) >= Score(query, x.chunk)
  <2>1. x \in S /\ \A j \in 1..m : ~Alike(pieces[j], x)
    BY <1>3, <1>10, <1>13
  <2>2. PICK i \in 1..n : s[i] = x
    BY <1>1, <2>1
  <2>3. i \notin 1..m
    BY <1>9, <2>1, <2>2
  <2>4. m < i /\ m < n
    BY <1>7, <2>3
  <2>5. ASSUME NEW y \in taken PROVE Score(query, y.chunk) >= Score(query, x.chunk)
    <3>1. PICK j \in 1..m : Alike(pieces[j], y)
      BY <1>10
    <3>2. s[j] = y /\ s[j] \in S /\ j \in 1..n
      BY <1>2, <1>9, <3>1
    <3>3. j < i
      BY <1>7, <2>4
    <3>4. Better(query, y, x)
      BY <1>1, <2>2, <3>2, <3>3
    <3> QED
      BY <1>4, <2>1, <3>2, <3>4 DEF Better
  <2> QED
    BY <1>7, <2>4, <2>5
<1>14. \A j \in 1..m : \E d \in DOMAIN documents : pieces[j].of = documents[d].of
  BY <1>2, <1>9
<1>15. Excerpts(query, documents, budget, pieces)
  BY <1>7, <1>11, <1>12, <1>13 DEF Excerpts, all
<1> QED
  BY <1>7, <1>8, <1>14, <1>15 DEF pieces

\* The rows of a conversation, of which prompts are made.
Writings == Contents \cup {NoText}
Rows  == [of : Requests, role : {"user", "assistant"}, status : Finished \cup {"RESERVED"},
          text : Writings]

LEMMA TextsRight ==
  ASSUME NEW text \in Writings \cup {Material}
  PROVE  /\ IsFiniteSet(text.terms) /\ \E n \in Nat : DOMAIN text.chunks = 1..n
         /\ \A c \in DOMAIN text.chunks : text.chunks[c].size \in Nat \ {0}
<1>1. CASE text = NoText
  <2>1. text.terms = {} /\ DOMAIN text.chunks = 1..0
    BY <1>1 DEF NoText
  <2> QED
    BY <2>1, FS_EmptySet
<1>2. CASE text \in Contents \cup {Material}
  BY <1>2, ContextAssumption
<1> QED
  BY <1>1, <1>2 DEF Writings

(* The rows of a request are a question and then perhaps an answer, which  *)
(* is reserved for as long as the request is to end it.                    *)
RowsFit ==
  /\ \A i, j \in DOMAIN thread :
       i < j /\ thread[i].of = thread[j].of => thread[i].role = "user" /\ thread[j].role = "assistant"
  /\ \A j \in DOMAIN thread :
       LET pc == request[thread[j].of].pc
       IN  /\ pc \in {"asked", "reserved", "over"}
           /\ thread[j].role = "user" => thread[j].status = "SUCCEEDED"
           /\ thread[j].role = "assistant" =>
                /\ pc # "asked" /\ (thread[j].status = "RESERVED" <=> pc = "reserved")
                /\ \E i \in DOMAIN thread : i < j /\ thread[i].of = thread[j].of
  /\ \A r \in Requests :
       request[r].pc \in {"asked", "reserved"} =>
         \E j \in DOMAIN thread : thread[j].of = r /\ thread[j].role = "user"

\* A question from before the answer and after all that is told: that of the
\* answer, if no other request wrote between.
Anew(told, text, again) ==
  again # 0 =>
    /\ again \in DOMAIN thread
    /\ \E q \in DOMAIN thread :
         /\ q < again /\ thread[q].role = "user" /\ text = thread[q].text
         /\ \A j \in DOMAIN told : told[j] < q
         /\ ~Overlaps(thread[again].of) => thread[q].of = thread[again].of
    /\ ~Overlaps(thread[again].of) =>
         \A j \in DOMAIN told : thread[told[j]].of # thread[again].of

\* A prompt is made of rows that have succeeded, which do not change.
Prompted(r) ==
  LET p == request[r].prompt
      text == request[r].text
  IN  /\ p.told \in Seq(Nat) /\ Ascends(p.told)
      /\ \A j \in DOMAIN p.told :
           /\ p.told[j] \in DOMAIN thread
           /\ thread[p.told[j]].status = "SUCCEEDED" /\ thread[p.told[j]].of # r
      /\ p.turns = LastOf(Verbatim, p.told) /\ p.older = Older(p.told, text)
      /\ p.reference = Reference(text)
      /\ Anew(p.told, text, request[r].again)

\* A request is a record of these fields.
Whole(q) == q = [pc |-> q.pc, text |-> q.text, again |-> q.again, prompt |-> q.prompt]

ContextInv ==
  /\ thread \in Seq(Rows) /\ request = [r \in Requests |-> request[r]]
  /\ RowsFit
  /\ \A r \in Requests :
       /\ Whole(request[r]) /\ request[r].text \in Writings
       /\ request[r].pc \notin {"idle", "refused"} => Prompted(r)

----------------------------------------------------------------------------
\* The thread grows, and a row that has succeeded stays as it is.
Grows ==
  /\ DOMAIN thread \subseteq DOMAIN thread'
  /\ \A j \in DOMAIN thread :
       /\ thread'[j].of = thread[j].of /\ thread'[j].role = thread[j].role
       /\ thread[j].status = "SUCCEEDED" => thread'[j] = thread[j]

LEMMA OlderKept ==
  ASSUME NEW told \in Seq(Nat), NEW text, \A j \in DOMAIN told : thread'[told[j]] = thread[told[j]]
  PROVE  Older(told, text)' = Older(told, text)
<1> DEFINE early == SubSeq(told, 1, Len(told) - Verbatim)
<1>1. \A d \in DOMAIN early : early[d] = told[d] /\ d \in DOMAIN told
  <2>1. Verbatim \in Nat
    BY ContextAssumption
  <2> QED
    BY <2>1, AllBut
<1>2. \A d \in DOMAIN early : thread'[early[d]] = thread[early[d]]
  <2> HIDE DEF early
  <2> QED
    BY <1>1
<1>3. Former(told) = [d \in DOMAIN early |-> [of |-> early[d], text |-> Labelled(thread[early[d]])]]
  BY DEF Former
<1>4. Former(told)' = [d \in DOMAIN early |-> [of |-> early[d], text |-> Labelled(thread'[early[d]])]]
  BY DEF Former, Labelled
<1> HIDE DEF early
<1>5. Former(told)' = Former(told)
  BY <1>2, <1>3, <1>4
<1> QED
  BY <1>5 DEF Older

LEMMA AnewKept ==
  ASSUME RowsFit, Grows, NEW told, NEW text, NEW again, Anew(told, text, again),
         \A j \in DOMAIN told : told[j] \in DOMAIN thread
  PROVE  Anew(told, text, again)'
<1>1. CASE again = 0
  BY <1>1 DEF Anew
<1>2. CASE again # 0
  <2>1. PICK s : s = thread[again].of
    OBVIOUS
  <2>2. again \in DOMAIN thread /\ again \in DOMAIN thread' /\ thread'[again].of = s
    BY <1>2, <2>1 DEF Anew, Grows
  <2>3. Overlaps(s) => Overlaps(s)'
    BY DEF Overlaps, Grows
  <2>4. PICK q \in DOMAIN thread :
          /\ q < again /\ thread[q].role = "user" /\ text = thread[q].text
          /\ \A j \in DOMAIN told : told[j] < q
          /\ ~Overlaps(s) => thread[q].of = s
    BY <1>2, <2>1 DEF Anew
  <2>5. thread'[q] = thread[q] /\ q \in DOMAIN thread'
    BY <2>4 DEF Grows, RowsFit
  <2>6. ~Overlaps(s) => \A j \in DOMAIN told : thread[told[j]].of # s
    BY <1>2, <2>1 DEF Anew
  <2>7. ~Overlaps(s)' => \A j \in DOMAIN told : thread'[told[j]].of # s
    BY <2>3, <2>6 DEF Grows
  <2>8. ~Overlaps(s)' => thread'[q].of = s
    BY <2>3, <2>4, <2>5
  <2>9. Overlaps(s)' <=> Overlaps(thread[again].of)'
    BY <2>2
  <2> QED
    BY <2>2, <2>4, <2>5, <2>7, <2>8, <2>9 DEF Anew
<1> QED
  BY <1>1, <1>2

LEMMA PromptKept ==
  ASSUME RowsFit, NEW r \in Requests, Prompted(r), Grows,
         request'[r].prompt = request[r].prompt, request'[r].text = request[r].text,
         request'[r].again = request[r].again
  PROVE  Prompted(r)'
<1>1. PICK p : p = request[r].prompt
  OBVIOUS
<1>2. PICK text : text = request[r].text
  OBVIOUS
<1>3. PICK again : again = request[r].again
  OBVIOUS
<1>4. /\ p.told \in Seq(Nat) /\ Ascends(p.told)
      /\ \A j \in DOMAIN p.told :
           /\ p.told[j] \in DOMAIN thread
           /\ thread[p.told[j]].status = "SUCCEEDED" /\ thread[p.told[j]].of # r
      /\ p.turns = LastOf(Verbatim, p.told) /\ p.older = Older(p.told, text)
      /\ p.reference = Reference(text) /\ Anew(p.told, text, again)
  BY <1>1, <1>2, <1>3 DEF Prompted
<1>5. \A j \in DOMAIN p.told : thread'[p.told[j]] = thread[p.told[j]] /\ p.told[j] \in DOMAIN thread'
  BY <1>4 DEF Grows
<1>6. Older(p.told, text)' = Older(p.told, text)
  BY <1>4, <1>5, OlderKept
<1>7. Anew(p.told, text, again)'
  BY <1>4, AnewKept
<1>8. p = request'[r].prompt /\ text = request'[r].text /\ again = request'[r].again
  BY <1>1, <1>2, <1>3
<1>9. Reference(text)' = Reference(text)
  BY DEF Reference, TheMaterial, ProjectBudget
<1>10. /\ p.older = Older(p.told, text)' /\ p.reference = Reference(text)'
       /\ p.turns = LastOf(Verbatim, p.told)
       /\ \A j \in DOMAIN p.told : thread'[p.told[j]].status = "SUCCEEDED" /\ thread'[p.told[j]].of # r
  BY <1>4, <1>5, <1>6, <1>9
<1> QED
  BY <1>4, <1>5, <1>7, <1>8, <1>10 DEF Prompted

LEMMA Wider == ASSUME NEW T, NEW S \in SUBSET T, NEW s \in Seq(S) PROVE s \in Seq(T)
  OBVIOUS

LEMMA HistoryRight ==
  ASSUME thread \in Seq(Rows)
  PROVE  LET h == History
         IN  /\ h \in Seq(DOMAIN thread) /\ Len(h) \in Nat /\ Ascends(h)
             /\ \A i \in 2..Len(h), q \in DOMAIN thread :
                  thread[q].status \in Finished /\ q < h[i] => q <= h[i - 1]
<1> DEFINE D == DOMAIN thread
           S == {j \in D : thread[j].status \in Finished}
           s == InOrder(S)
           h == History
           n == Len(s)
           m == Len(h)
           k == n - m
<1>1. IsFiniteSet(S) /\ S \in SUBSET Nat /\ S \subseteq D /\ D \subseteq Nat
  <2>1. D = 1..Len(thread) /\ Len(thread) \in Nat
    OBVIOUS
  <2>2. S \in SUBSET D
    OBVIOUS
  <2> HIDE DEF S, D
  <2>3. IsFiniteSet(D) /\ D \subseteq Nat
    BY <2>1, FS_Interval
  <2>4. IsFiniteSet(S)
    BY <2>2, <2>3, FS_Subset
  <2> QED
    BY <2>2, <2>3, <2>4
<1>2. h = LastOf(Recent, s) /\ Recent \in Nat
  BY ContextAssumption DEF History
<1>3. \A q \in D : thread[q].status \in Finished <=> q \in S
  OBVIOUS
<1> HIDE DEF S, s, h, D
<1>4. /\ s \in Seq(S) /\ n \in Nat /\ DOMAIN s = 1..n /\ Ascends(s)
      /\ \A x \in S : \E i \in 1..n : s[i] = x
  BY <1>1, InOrderRight DEF s
<1>10. \A a \in 1..n : s[a] \in Nat
  <2>1. \A a \in 1..n : s[a] \in S
    BY <1>4
  <2> QED
    BY <1>1, <2>1
<1>5. /\ h \in Seq(S) /\ m \in Nat /\ k \in Nat
      /\ \A i \in 1..m : k + i \in 1..n /\ h[i] = s[k + i]
  BY <1>2, <1>4, LastOfRight
<1> HIDE DEF n, m, k
<1>6. h \in Seq(D)
  BY <1>1, <1>5, Wider
<1>7. DOMAIN h = 1..m
  BY <1>5 DEF m
<1>8. Ascends(h)
  <2>1. SUFFICES ASSUME NEW i \in 1..m, NEW j \in 1..m, i < j PROVE h[i] < h[j]
    BY <1>7 DEF Ascends
  <2>2. k + i \in 1..n /\ k + j \in 1..n /\ k + i < k + j /\ h[i] = s[k + i] /\ h[j] = s[k + j]
    BY <1>5, <2>1
  <2>3. \A a, b \in 1..n : a < b => s[a] < s[b]
    BY <1>4 DEF Ascends
  <2>4. s[k + i] < s[k + j]
    BY <2>2, <2>3, Zenon
  <2> QED
    BY <2>2, <2>4
<1>9. ASSUME NEW i \in 2..m, NEW q \in D, thread[q].status \in Finished, q < h[i]
      PROVE  q <= h[i - 1]
  <2>1. PICK o \in 1..n : s[o] = q
    BY <1>3, <1>4, <1>9
  <2>2. PICK a \in 1..m : i = a + 1 /\ a + 1 \in 1..m
    <3>1. i - 1 \in 1..m /\ i = (i - 1) + 1 /\ i \in 1..m
      BY <1>5
    <3> QED
      BY <3>1
  <2>3. /\ k + a \in 1..n /\ k + (a + 1) \in 1..n
        /\ h[i] = s[k + (a + 1)] /\ h[i - 1] = s[k + a] /\ i - 1 = a
    <3>1. i - 1 = a
      BY <2>2
    <3> QED
      BY <1>5, <2>2, <3>1
  <2>4. \A x, y \in 1..n : x < y => s[x] < s[y]
    BY <1>4 DEF Ascends
  <2>5. ~(k + (a + 1) < o) /\ k + (a + 1) # o
    <3>1. s[o] \in Nat /\ s[k + (a + 1)] \in Nat /\ s[o] < s[k + (a + 1)]
      BY <1>9, <1>10, <2>1, <2>3
    <3> QED
      BY <2>3, <2>4, <3>1
  <2>6. o < k + a \/ o = k + a
    BY <1>5, <2>2, <2>3, <2>5
  <2>7. s[o] < s[k + a] \/ s[o] = s[k + a]
    BY <2>3, <2>4, <2>6
  <2> QED
    BY <1>10, <2>1, <2>3, <2>7
<1> QED
  BY <1>5, <1>6, <1>8, <1>9 DEF h, m, D

LEMMA SucceededRight ==
  ASSUME thread \in Seq(Rows), NEW history \in Seq(DOMAIN thread)
  PROVE  LET t == Succeeded(history)
         IN  /\ t \in Seq(Nat) /\ Ascends(t)
             /\ \A j \in DOMAIN t : /\ t[j] \in DOMAIN thread /\ thread[t[j]].status = "SUCCEEDED"
                                    /\ \E i \in DOMAIN history : t[j] = history[i]
<1> DEFINE S == {j \in Range(history) : thread[j].status = "SUCCEEDED"}
           t == InOrder(S)
           D == DOMAIN thread
<1>1. IsFiniteSet(S) /\ S \in SUBSET Nat /\ S \subseteq D
  <2>1. D = 1..Len(thread) /\ Len(thread) \in Nat
    OBVIOUS
  <2>2. S \in SUBSET D
    <3>1. \A i \in DOMAIN history : history[i] \in D
      OBVIOUS
    <3> QED
      BY <3>1 DEF Range
  <2> HIDE DEF S, D
  <2>3. IsFiniteSet(D) /\ D \subseteq Nat
    BY <2>1, FS_Interval
  <2>4. IsFiniteSet(S)
    BY <2>2, <2>3, FS_Subset
  <2> QED
    BY <2>2, <2>3, <2>4
<1>2. \A x \in S : thread[x].status = "SUCCEEDED" /\ \E i \in DOMAIN history : x = history[i]
  BY DEF Range
<1>3. Succeeded(history) = t
  BY DEF Succeeded
<1> HIDE DEF S, t, D
<1>4. t \in Seq(S) /\ Len(t) \in Nat /\ DOMAIN t = 1..Len(t) /\ Ascends(t)
  BY <1>1, InOrderRight DEF t
<1>5. \A j \in DOMAIN t : t[j] \in S
  BY <1>4
<1>6. t \in Seq(Nat)
  BY <1>1, <1>4, Wider
<1> QED
  BY <1>1, <1>2, <1>3, <1>4, <1>5, <1>6 DEF D

\* The question of an answer is the message before it, if nobody wrote between.
LEMMA RetryRight ==
  ASSUME ContextInv, NEW again \in DOMAIN thread, Retriable(History, again)
  PROVE  LET i == Place(History, again)
             q == History[i - 1]
         IN  /\ i \in 2..Len(History) /\ q \in DOMAIN thread /\ thread[q].role = "user"
             /\ q < again /\ \A j \in 1..(i - 2) : History[j] < q
             /\ ~Overlaps(thread[again].of) =>
                  /\ thread[q].of = thread[again].of
                  /\ \A j \in 1..(i - 2) : thread[History[j]].of # thread[again].of
<1> DEFINE h == History
           i == Place(h, again)
           q == h[i - 1]
           s == thread[again].of
           D == DOMAIN thread
<1>1. /\ h \in Seq(D) /\ Len(h) \in Nat /\ Ascends(h) /\ thread \in Seq(Rows) /\ RowsFit
      /\ \A k \in 2..Len(h), o \in D : thread[o].status \in Finished /\ o < h[k] => o <= h[k - 1]
  BY HistoryRight DEF ContextInv
<1>2. thread[again].role = "assistant" /\ thread[q].role = "user"
  BY DEF Retriable
<1> HIDE DEF D
<1>3. i \in DOMAIN h /\ h[i] = again /\ i > 1
  <2>1. PICK j \in DOMAIN h : j > 1 /\ h[j] = again
    BY DEF Retriable
  <2>2. i \in DOMAIN h /\ h[i] = again
    BY <2>1 DEF Place
  <2> HIDE DEF i, h
  <2>3. \A x \in DOMAIN h : h[x] \in Nat
    BY <1>1 DEF D
  <2>4. ~(i < j)
    BY <1>1, <2>1, <2>2, <2>3 DEF Ascends
  <2> QED
    BY <1>1, <2>1, <2>2, <2>4
<1> HIDE DEF h, i
<1>4. i \in 2..Len(h) /\ i - 1 \in DOMAIN h /\ q \in D
  BY <1>1, <1>3
<1>5. ASSUME ~Overlaps(s) PROVE thread[q].of = s /\ \A j \in 1..(i - 2) : thread[h[j]].of # s
  <2>1. PICK o \in D : o < again /\ thread[o].of = s
    BY <1>1, <1>2 DEF RowsFit, D
  <2>2. thread[o].role = "user" /\ thread[o].status = "SUCCEEDED"
    BY <1>1, <2>1 DEF RowsFit, D
  <2>3. o <= q
    BY <1>1, <1>3, <1>4, <2>1, <2>2 DEF Finished
  <2>4. q < again /\ q \in Nat /\ o \in Nat /\ again \in Nat
    BY <1>1, <1>3, <1>4, <2>1 DEF Ascends, D
  <2>5. thread[q].of = s
    <3>1. CASE o = q
      BY <2>1, <3>1
    <3>2. CASE o < q
      BY <1>4, <1>5, <2>1, <2>4, <3>2 DEF Overlaps, D
    <3> QED
      BY <2>3, <2>4, <3>1, <3>2
  <2>6. ASSUME NEW j \in 1..(i - 2), thread[h[j]].of = s PROVE FALSE
    <3>1. j \in DOMAIN h /\ j < i - 1 /\ h[j] \in D
      BY <1>1, <1>4
    <3>2. h[j] < q
      BY <1>1, <1>4, <3>1 DEF Ascends
    <3> QED
      BY <1>1, <1>2, <1>4, <2>5, <2>6, <3>1, <3>2 DEF RowsFit, D
  <2> QED
    BY <2>5, <2>6
<1>6. q < again /\ \A j \in 1..(i - 2) : h[j] < q
  <2>1. ASSUME NEW j \in 1..(i - 2) PROVE h[j] < q
    <3>1. j \in DOMAIN h /\ j < i - 1
      BY <1>1, <1>4
    <3> QED
      BY <1>1, <1>4, <3>1 DEF Ascends
  <2>2. q < again
    BY <1>1, <1>3, <1>4 DEF Ascends
  <2> QED
    BY <2>1, <2>2
<1> QED
  BY <1>2, <1>4, <1>5, <1>6 DEF h, i, D

LEMMA MovesRight ==
  ASSUME ContextInv, NEW r \in Requests, NEW v, Moves(r, v)
  PROVE  /\ request' = [o \in Requests |-> request'[o]] /\ request'[r] = v
         /\ \A o \in Requests : o # r => request'[o] = request[o]
<1>1. request = [o \in Requests |-> request[o]] /\ request' = [request EXCEPT ![r] = v]
  BY DEF ContextInv, Moves
<1> QED
  BY <1>1

LEMMA MovedOn ==
  ASSUME NEW q, Whole(q), NEW pc
  PROVE  LET v == [q EXCEPT !.pc = pc]
         IN  Whole(v) /\ v.pc = pc /\ v.text = q.text /\ v.again = q.again /\ v.prompt = q.prompt
<1>1. PICK a, b, c, d : q = [pc |-> a, text |-> b, again |-> c, prompt |-> d]
  BY DEF Whole
<1>2. [q EXCEPT !.pc = pc] = [pc |-> pc, text |-> b, again |-> c, prompt |-> d]
  BY <1>1
<1> QED
  BY <1>1, <1>2 DEF Whole

\* A step of request r that makes no prompt keeps everything said of prompts.
LEMMA StepKeeps ==
  ASSUME ContextInv, NEW r \in Requests, NEW pc, Moves(r, [request[r] EXCEPT !.pc = pc]), Grows,
         request[r].pc \notin {"idle", "refused"}, thread' \in Seq(Rows), RowsFit'
  PROVE  ContextInv'
<1> DEFINE v == [request[r] EXCEPT !.pc = pc]
<1>1. /\ request' = [o \in Requests |-> request'[o]] /\ request'[r] = v
      /\ \A o \in Requests : o # r => request'[o] = request[o]
  BY MovesRight
<1>2. /\ v.prompt = request[r].prompt /\ v.text = request[r].text /\ v.again = request[r].again
      /\ Whole(v)
  BY MovedOn DEF ContextInv
<1> HIDE DEF v
<1>3. ASSUME NEW o \in Requests
      PROVE  /\ Whole(request'[o]) /\ request'[o].text \in Writings
             /\ request'[o].pc \notin {"idle", "refused"} => Prompted(o)'
  <2>1. /\ request'[o].prompt = request[o].prompt /\ request'[o].text = request[o].text
        /\ request'[o].again = request[o].again /\ Whole(request'[o])
    <3>1. Whole(request[o])
      BY DEF ContextInv
    <3> QED
      BY <1>1, <1>2, <3>1
  <2>2. request'[o].pc \notin {"idle", "refused"} => request[o].pc \notin {"idle", "refused"}
    BY <1>1
  <2>3. RowsFit /\ request[o].text \in Writings
        /\ (request[o].pc \notin {"idle", "refused"} => Prompted(o))
    BY DEF ContextInv
  <2>4. Prompted(o) => Prompted(o)'
    BY <2>1, <2>3, PromptKept
  <2> QED
    BY <2>1, <2>2, <2>3, <2>4
<1> QED
  BY <1>1, <1>3 DEF ContextInv

LEMMA PrefixRight ==
  ASSUME NEW T, NEW s \in Seq(T), NEW i \in 2..Len(s)
  PROVE  LET before == SubSeq(s, 1, i - 2)
         IN  before \in Seq(T) /\ \A j \in DOMAIN before : j \in 1..(i - 2) /\ before[j] = s[j]
<1>1. i - 2 \in Nat /\ i - 2 <= Len(s)
  OBVIOUS
<1>2. PICK n : n = i - 2
  OBVIOUS
<1>3. SubSeq(s, 1, n) \in Seq(T) /\ Len(SubSeq(s, 1, n)) = n
  BY <1>1, <1>2
<1>4. \A j \in 1..n : SubSeq(s, 1, n)[j] = s[j]
  BY <1>1, <1>2
<1> QED
  BY <1>1, <1>2, <1>3, <1>4

\* What the prompt of a request is made of when it is made.
LEMMA ToldRight ==
  ASSUME ContextInv, NEW text \in Contents, NEW again \in Nat,
         again # 0 => again \in DOMAIN thread /\ Retriable(History, again)
  PROVE  LET told == Succeeded(UpTo(History, again))
             asked == TextOf(History, text, again)
         IN  /\ told \in Seq(Nat) /\ Ascends(told) /\ asked \in Writings /\ Anew(told, asked, again)
             /\ \A j \in DOMAIN told : told[j] \in DOMAIN thread /\ thread[told[j]].status = "SUCCEEDED"
<1>1. PICK h : h = History
  OBVIOUS
<1>2. PICK asked : asked = TextOf(h, text, again)
  OBVIOUS
<1>3. PICK told : told = Succeeded(UpTo(h, again))
  OBVIOUS
<1>4. thread \in Seq(Rows) /\ h \in Seq(DOMAIN thread) /\ Len(h) \in Nat
  BY <1>1, HistoryRight DEF ContextInv
<1>5. CASE again # 0
  <2>1. PICK i : i = Place(h, again)
    OBVIOUS
  <2>2. /\ i \in 2..Len(h) /\ h[i - 1] \in DOMAIN thread /\ thread[h[i - 1]].role = "user"
        /\ h[i - 1] < again /\ \A j \in 1..(i - 2) : h[j] < h[i - 1]
        /\ ~Overlaps(thread[again].of) =>
             /\ thread[h[i - 1]].of = thread[again].of
             /\ \A j \in 1..(i - 2) : thread[h[j]].of # thread[again].of
    BY <1>1, <1>5, <2>1, RetryRight
  <2>3. UpTo(h, again) = SubSeq(h, 1, i - 2) /\ asked = thread[h[i - 1]].text
    BY <1>2, <1>5, <2>1 DEF UpTo, TextOf
  <2>4. PICK before : before = SubSeq(h, 1, i - 2)
    OBVIOUS
  <2>5. /\ before \in Seq(DOMAIN thread)
        /\ \A j \in DOMAIN before : j \in 1..(i - 2) /\ before[j] = h[j]
    BY <1>4, <2>2, <2>4, PrefixRight
  <2>6. /\ told \in Seq(Nat) /\ Ascends(told)
        /\ \A j \in DOMAIN told : /\ told[j] \in DOMAIN thread /\ thread[told[j]].status = "SUCCEEDED"
                                  /\ \E k \in DOMAIN before : told[j] = before[k]
    <3>1. told = Succeeded(before)
      BY <1>3, <2>3, <2>4
    <3> QED
      BY <1>4, <2>5, <3>1, SucceededRight
  <2>7. asked \in Writings
    <3>1. thread[h[i - 1]] \in Rows
      BY <1>4, <2>2
    <3> QED
      BY <2>3, <3>1 DEF Rows
  <2>8. Anew(told, asked, again)
    <3>1. \A j \in DOMAIN told : \E k \in 1..(i - 2) : told[j] = h[k]
      BY <2>5, <2>6
    <3>2. \A j \in DOMAIN told : told[j] < h[i - 1]
      BY <2>2, <3>1
    <3>3. ~Overlaps(thread[again].of) =>
            \A j \in DOMAIN told : thread[told[j]].of # thread[again].of
      BY <2>2, <3>1
    <3> QED
      BY <1>5, <2>2, <2>3, <3>2, <3>3 DEF Anew
  <2> QED
    BY <1>1, <1>2, <1>3, <2>6, <2>7, <2>8
<1>6. CASE again = 0
  <2>1. told = Succeeded(h) /\ asked = text
    BY <1>2, <1>3, <1>6 DEF UpTo, TextOf
  <2>2. /\ told \in Seq(Nat) /\ Ascends(told)
        /\ \A j \in DOMAIN told : told[j] \in DOMAIN thread /\ thread[told[j]].status = "SUCCEEDED"
    BY <1>4, <2>1, SucceededRight
  <2>3. Anew(told, asked, again) /\ asked \in Writings
    BY <1>6, <2>1 DEF Anew, Writings
  <2> QED
    BY <1>1, <1>2, <1>3, <2>2, <2>3
<1> QED
  BY <1>5, <1>6

LEMMA ComposeRight ==
  ASSUME ContextInv, NEW r \in Requests, NEW text \in Contents, NEW again \in Nat,
         Compose(r, text, again)
  PROVE  ContextInv'
<1>1. /\ request[r].pc = "idle" /\ UNCHANGED thread /\ thread \in Seq(Rows) /\ RowsFit
      /\ request[r].text \in Writings
  BY DEF ContextInv, Compose
<1>2. \A j \in DOMAIN thread : thread[j].of # r
  BY <1>1 DEF RowsFit
<1>3. Grows
  BY <1>1 DEF Grows
<1>4. ASSUME NEW v, Moves(r, v), v.pc \in {"composed", "refused"}, Whole(v), v.text \in Writings,
             v.pc = "composed" => Prompted(r)'
      PROVE  ContextInv'
  <2>1. /\ request' = [o \in Requests |-> request'[o]] /\ request'[r] = v
        /\ \A o \in Requests : o # r => request'[o] = request[o]
    BY <1>4, MovesRight
  <2>2. RowsFit'
    <3>1. \A j \in DOMAIN thread : request'[thread[j].of] = request[thread[j].of]
      <4>1. \A j \in DOMAIN thread : thread[j].of \in Requests
        <5>1. \A j \in DOMAIN thread : thread[j] \in Rows
          BY <1>1
        <5>2. \A w \in Rows : w.of \in Requests
          BY DEF Rows
        <5> QED
          BY <5>1, <5>2
      <4> QED
        BY <1>2, <2>1, <4>1
    <3>2. \A o \in Requests : request'[o].pc \in {"asked", "reserved"} => request'[o] = request[o]
      BY <1>4, <2>1
    <3> QED
      BY <1>1, <3>1, <3>2 DEF RowsFit
  <2>3. ASSUME NEW o \in Requests
        PROVE  /\ Whole(request'[o]) /\ request'[o].text \in Writings
               /\ request'[o].pc \notin {"idle", "refused"} => Prompted(o)'
    <3>1. CASE o = r
      BY <1>4, <2>1, <3>1
    <3>2. CASE o # r
      <4>1. request'[o] = request[o] /\ request[o].text \in Writings /\ Whole(request[o])
            /\ (request[o].pc \notin {"idle", "refused"} => Prompted(o))
        BY <2>1, <3>2 DEF ContextInv
      <4>2. Prompted(o) => Prompted(o)'
        BY <1>1, <1>3, <4>1, PromptKept
      <4> QED
        BY <4>1, <4>2
    <3> QED
      BY <3>1, <3>2
  <2> QED
    BY <1>1, <2>1, <2>2, <2>3 DEF ContextInv
<1>5. CASE again # 0 /\ ~Retriable(History, again)
  <2>1. PICK v : v = [request[r] EXCEPT !.pc = "refused"]
    OBVIOUS
  <2>2. Moves(r, v)
    BY <1>5, <2>1, Zenon DEF Compose
  <2>3. Whole(v) /\ v.text = request[r].text /\ v.pc = "refused"
    <3>1. Whole(request[r])
      BY DEF ContextInv
    <3> QED
      BY <2>1, <3>1, MovedOn, Zenon
  <2> QED
    BY <1>1, <1>4, <2>2, <2>3
<1>6. CASE ~(again # 0 /\ ~Retriable(History, again))
  <2>1. PICK told : told = Succeeded(UpTo(History, again))
    OBVIOUS
  <2>2. PICK asked : asked = TextOf(History, text, again)
    OBVIOUS
  <2>3. /\ told \in Seq(Nat) /\ Ascends(told) /\ asked \in Writings /\ Anew(told, asked, again)
        /\ \A j \in DOMAIN told : told[j] \in DOMAIN thread /\ thread[told[j]].status = "SUCCEEDED"
    BY <1>6, <2>1, <2>2, ToldRight DEF Compose
  <2>4. PICK p : p = [told |-> told, turns |-> LastOf(Verbatim, told),
                      older |-> Older(told, asked), reference |-> Reference(asked)]
    OBVIOUS
  <2>5. PICK v : v = [pc |-> "composed", text |-> asked, again |-> again, prompt |-> p]
    OBVIOUS
  <2>6. Moves(r, v)
    BY <1>6, <2>1, <2>2, <2>4, <2>5, Zenon DEF Compose
  <2>7. request'[r] = v
    BY <2>6, MovesRight
  <2>8. Prompted(r)'
    <3>1. Anew(told, asked, again)'
      BY <1>1, <1>3, <2>3, AnewKept
    <3>2. Older(told, asked)' = Older(told, asked)
      BY <1>1, <2>3, OlderKept
    <3>3. Reference(asked)' = Reference(asked)
      BY DEF Reference, TheMaterial, ProjectBudget
    <3>4. /\ request'[r].prompt = p /\ request'[r].text = asked /\ request'[r].again = again
          /\ p.told = told /\ p.turns = LastOf(Verbatim, told)
          /\ p.older = Older(told, asked)' /\ p.reference = Reference(asked)'
      BY <2>4, <2>5, <2>7, <3>2, <3>3
    <3>5. \A j \in DOMAIN told : /\ told[j] \in DOMAIN thread' /\ thread'[told[j]].status = "SUCCEEDED"
                                 /\ thread'[told[j]].of # r
      BY <1>1, <1>2, <2>3
    <3> QED
      BY <2>3, <3>1, <3>4, <3>5 DEF Prompted
  <2>9. Whole(v) /\ v.text = asked /\ v.pc = "composed"
    BY <2>5 DEF Whole
  <2> QED
    BY <1>4, <2>3, <2>6, <2>8, <2>9
<1> QED
  BY <1>5, <1>6

LEMMA RowAdded ==
  ASSUME thread \in Seq(Rows), NEW m \in Rows, thread' = Append(thread, m)
  PROVE  LET n == Len(thread)
         IN  /\ thread' \in Seq(Rows) /\ Grows
             /\ n \in Nat /\ DOMAIN thread = 1..n /\ DOMAIN thread' = 1..(n + 1)
             /\ thread'[n + 1] = m /\ \A j \in 1..n : thread'[j] = thread[j]
<1>1. Append(thread, m) \in Seq(Rows)
  OBVIOUS
<1>2. PICK n \in Nat : n = Len(thread)
  OBVIOUS
<1>3. DOMAIN thread = 1..n /\ DOMAIN thread' = 1..(n + 1)
  BY <1>1, <1>2
<1>4. thread'[n + 1] = m /\ \A j \in 1..n : thread'[j] = thread[j]
  BY <1>2
<1>5. Grows
  BY <1>3, <1>4 DEF Grows
<1> QED
  BY <1>1, <1>2, <1>3, <1>4, <1>5

\* What a step of request r leaves: the other requests, and where r now stands.
LEMMA StageMoved ==
  ASSUME ContextInv, NEW r \in Requests, NEW pc, Moves(r, [request[r] EXCEPT !.pc = pc])
  PROVE  /\ request'[r].pc = pc
         /\ \A o \in Requests : o # r => request'[o] = request[o]
         /\ \A j \in DOMAIN thread : thread[j] \in Rows /\ thread[j].of \in Requests
<1>1. \A j \in DOMAIN thread : thread[j] \in Rows
  BY DEF ContextInv
<1>2. \A w \in Rows : w.of \in Requests
  BY DEF Rows
<1>3. /\ request'[r] = [request[r] EXCEPT !.pc = pc]
      /\ \A o \in Requests : o # r => request'[o] = request[o]
  BY MovesRight
<1>4. [request[r] EXCEPT !.pc = pc].pc = pc
  BY MovedOn DEF ContextInv
<1> QED
  BY <1>1, <1>2, <1>3, <1>4

\* Request r writes its question, or its answer after its question.
LEMMA RowFits ==
  ASSUME ContextInv, NEW r \in Requests, request[r].pc \notin {"idle", "refused"},
         NEW pc \in {"asked", "reserved"}, Moves(r, [request[r] EXCEPT !.pc = pc]),
         NEW m \in Rows, m.of = r, thread' = Append(thread, m),
         \A j \in DOMAIN thread :
           thread[j].of = r => thread[j].role = "user" /\ m.role = "assistant",
         m.role = "user" => m.status = "SUCCEEDED",
         m.role = "assistant" =>
           /\ pc = "reserved" /\ m.status = "RESERVED"
           /\ \E j \in DOMAIN thread : thread[j].of = r /\ thread[j].role = "user"
  PROVE  ContextInv'
<1>1. thread \in Seq(Rows) /\ RowsFit
  BY DEF ContextInv
<1>2. PICK n : n = Len(thread)
  OBVIOUS
<1>3. /\ thread' \in Seq(Rows) /\ Grows
      /\ n \in Nat /\ DOMAIN thread = 1..n /\ DOMAIN thread' = 1..(n + 1)
      /\ thread'[n + 1] = m /\ \A j \in 1..n : thread'[j] = thread[j]
  BY <1>1, <1>2, RowAdded
<1>4. /\ request'[r].pc = pc /\ \A o \in Requests : o # r => request'[o] = request[o]
      /\ \A j \in 1..n : thread[j] \in Rows /\ thread[j].of \in Requests
  BY <1>3, StageMoved
<1>5. m.role \in {"user", "assistant"}
  BY DEF Rows
<1>6. \A i, j \in DOMAIN thread' :
        i < j /\ thread'[i].of = thread'[j].of => thread'[i].role = "user" /\ thread'[j].role = "assistant"
  <2>1. SUFFICES ASSUME NEW i \in 1..(n + 1), NEW j \in 1..(n + 1), i < j, thread'[i].of = thread'[j].of
                 PROVE  thread'[i].role = "user" /\ thread'[j].role = "assistant"
    BY <1>3
  <2>2. i \in 1..n /\ thread'[i] = thread[i]
    BY <1>3, <2>1
  <2>3. CASE j \in 1..n
    BY <1>1, <1>3, <2>1, <2>2, <2>3 DEF RowsFit
  <2>4. CASE j = n + 1
    BY <1>3, <2>1, <2>2, <2>4
  <2> QED
    BY <1>3, <2>3, <2>4
<1>7. ASSUME NEW j \in DOMAIN thread'
      PROVE  LET stage == request'[thread'[j].of].pc
             IN  /\ stage \in {"asked", "reserved", "over"}
                 /\ thread'[j].role = "user" => thread'[j].status = "SUCCEEDED"
                 /\ thread'[j].role = "assistant" =>
                      /\ stage # "asked" /\ (thread'[j].status = "RESERVED" <=> stage = "reserved")
                      /\ \E i \in DOMAIN thread' : i < j /\ thread'[i].of = thread'[j].of
  <2>1. CASE j = n + 1
    <3>1. thread'[j] = m /\ request'[thread'[j].of].pc = pc
      BY <1>3, <1>4, <2>1
    <3>2. ASSUME m.role = "assistant"
          PROVE  \E i \in DOMAIN thread' : i < j /\ thread'[i].of = thread'[j].of
      <4>1. PICK i \in 1..n : thread[i].of = r
        BY <1>3, <3>2
      <4> QED
        BY <1>3, <2>1, <3>1, <4>1
    <3> QED
      BY <3>1, <3>2
  <2>2. CASE j \in 1..n
    <3>1. thread'[j] = thread[j] /\ j \in DOMAIN thread /\ thread[j] \in Rows /\ thread[j].of \in Requests
      BY <1>3, <1>4, <2>2
    <3>2. \A i \in DOMAIN thread : i \in DOMAIN thread' /\ thread'[i] = thread[i]
      BY <1>3
    <3>3. CASE thread[j].of # r
      <4>1. request'[thread'[j].of].pc = request[thread[j].of].pc
        BY <1>4, <3>1, <3>3
      <4> QED
        BY <1>1, <3>1, <3>2, <4>1 DEF RowsFit
    <3>4. CASE thread[j].of = r
      <4>1. request'[thread'[j].of].pc = pc /\ thread[j].role = "user"
        BY <1>4, <3>1, <3>4
      <4> QED
        BY <1>1, <3>1, <4>1 DEF RowsFit
    <3> QED
      BY <3>3, <3>4
  <2> QED
    BY <1>3, <2>1, <2>2
<1>8. ASSUME NEW o \in Requests, request'[o].pc \in {"asked", "reserved"}
      PROVE  \E j \in DOMAIN thread' : thread'[j].of = o /\ thread'[j].role = "user"
  <2>1. CASE o # r
    <3>1. request[o].pc \in {"asked", "reserved"}
      BY <1>4, <1>8, <2>1
    <3>2. PICK j \in 1..n : thread[j].of = o /\ thread[j].role = "user"
      BY <1>1, <1>3, <3>1 DEF RowsFit
    <3> QED
      BY <1>3, <3>2
  <2>2. CASE o = r /\ m.role = "assistant"
    <3>1. PICK j \in 1..n : thread[j].of = o /\ thread[j].role = "user"
      BY <1>3, <2>2
    <3> QED
      BY <1>3, <3>1
  <2>3. CASE o = r /\ m.role = "user"
    BY <1>3, <2>3
  <2> QED
    BY <1>5, <2>1, <2>2, <2>3
<1>9. RowsFit'
  BY <1>6, <1>7, <1>8 DEF RowsFit
<1> QED
  BY <1>3, <1>9, StepKeeps

LEMMA SaveQuestionRight ==
  ASSUME ContextInv, NEW r \in Requests, SaveQuestion(r)
  PROVE  ContextInv'
<1>1. /\ request[r].pc = "composed" /\ Moves(r, [request[r] EXCEPT !.pc = "asked"])
      /\ RowsFit /\ request[r].text \in Writings
  BY DEF SaveQuestion, ContextInv
<1>2. PICK m : m = Message(r, "user", "SUCCEEDED", request[r].text)
  OBVIOUS
<1>3. m \in Rows /\ m.of = r /\ m.role = "user" /\ m.status = "SUCCEEDED"
  BY <1>1, <1>2 DEF Message, Rows, Finished
<1>4. thread' = Append(thread, m)
  BY <1>2 DEF SaveQuestion
<1>5. \A j \in DOMAIN thread : thread[j].of # r
  BY <1>1 DEF RowsFit
<1> QED
  BY <1>1, <1>3, <1>4, <1>5, RowFits

LEMMA SaveAnswerRight ==
  ASSUME ContextInv, NEW r \in Requests, SaveAnswer(r)
  PROVE  ContextInv'
<1>1. /\ request[r].pc = "asked" /\ Moves(r, [request[r] EXCEPT !.pc = "reserved"])
      /\ RowsFit /\ thread \in Seq(Rows)
  BY DEF SaveAnswer, ContextInv
<1>2. PICK m : m = Message(r, "assistant", "RESERVED", NoText)
  OBVIOUS
<1>3. m \in Rows /\ m.of = r /\ m.role = "assistant" /\ m.status = "RESERVED"
  BY <1>2 DEF Message, Rows, Writings
<1>4. thread' = Append(thread, m)
  BY <1>2 DEF SaveAnswer
<1>5. \A j \in DOMAIN thread : thread[j].of = r => thread[j].role = "user"
  <2>1. \A j \in DOMAIN thread : thread[j] \in Rows
    BY <1>1
  <2>2. \A w \in Rows : w.role \in {"user", "assistant"}
    BY DEF Rows
  <2> QED
    BY <1>1, <2>1, <2>2 DEF RowsFit
<1>6. \E j \in DOMAIN thread : thread[j].of = r /\ thread[j].role = "user"
  BY <1>1 DEF RowsFit
<1> QED
  BY <1>1, <1>3, <1>4, <1>5, <1>6, RowFits

\* Giving up needs no row to have an answer under way.
LEMMA GiveUpRight ==
  ASSUME ContextInv, NEW r \in Requests, GiveUp(r)
  PROVE  ContextInv'
<1>1. /\ request[r].pc \in {"composed", "asked"} /\ Moves(r, [request[r] EXCEPT !.pc = "over"])
      /\ UNCHANGED thread /\ RowsFit /\ thread \in Seq(Rows)
  BY DEF GiveUp, ContextInv
<1>2. /\ request'[r].pc = "over" /\ \A o \in Requests : o # r => request'[o] = request[o]
      /\ \A j \in DOMAIN thread : thread[j] \in Rows /\ thread[j].of \in Requests
  BY <1>1, StageMoved
<1>3. ASSUME NEW j \in DOMAIN thread
      PROVE  LET stage == request'[thread[j].of].pc
             IN  /\ stage \in {"asked", "reserved", "over"}
                 /\ thread[j].role = "assistant" =>
                      stage # "asked" /\ (thread[j].status = "RESERVED" <=> stage = "reserved")
  <2>1. CASE thread[j].of # r
    BY <1>1, <1>2, <2>1 DEF RowsFit
  <2>2. CASE thread[j].of = r
    <3>1. thread[j].role # "assistant"
      BY <1>1, <2>2 DEF RowsFit
    <3> QED
      BY <1>2, <2>2, <3>1
  <2> QED
    BY <2>1, <2>2
<1>4. \A o \in Requests : request'[o].pc \in {"asked", "reserved"} => request'[o] = request[o]
  BY <1>2
<1>5. RowsFit'
  BY <1>1, <1>3, <1>4 DEF RowsFit
<1>6. Grows
  BY <1>1 DEF Grows
<1> QED
  BY <1>1, <1>5, <1>6, StepKeeps

LEMMA PairOf == ASSUME NEW A, NEW B, NEW e \in A \X B PROVE e[1] \in A /\ e[2] \in B
  OBVIOUS

LEMMA RowChanged ==
  ASSUME NEW T, NEW s \in Seq(T), NEW a \in DOMAIN s, NEW m \in T
  PROVE  LET t == [s EXCEPT ![a] = m]
         IN  /\ t \in Seq(T) /\ DOMAIN t = DOMAIN s /\ t[a] = m
             /\ \A j \in DOMAIN s : j # a => t[j] = s[j]
  OBVIOUS

\* An answer ends in its own row, which no prompt was made of before.
LEMMA EndAnswerRight ==
  ASSUME ContextInv, NEW r \in Requests, NEW e \in Endings, EndAnswer(r, e[1], e[2])
  PROVE  ContextInv'
<1>1. /\ request[r].pc = "reserved" /\ Moves(r, [request[r] EXCEPT !.pc = "over"])
      /\ RowsFit /\ thread \in Seq(Rows)
  BY DEF EndAnswer, ContextInv
<1>2. PICK a \in DOMAIN thread :
        /\ thread[a].of = r /\ thread[a].role = "assistant"
        /\ thread' = [thread EXCEPT ![a] = Message(r, "assistant", e[1], e[2])]
  BY DEF EndAnswer
<1>3. e[1] \in Finished /\ e[2] \in Writings
  <2>1. Endings \subseteq Finished \X Contents
    BY ContextAssumption
  <2>2. e \in Finished \X Contents
    BY <2>1
  <2>3. e[1] \in Finished /\ e[2] \in Contents
    BY <2>2, PairOf, Zenon
  <2> QED
    BY <2>3 DEF Writings
<1>4. PICK m : m = [of |-> r, role |-> "assistant", status |-> e[1], text |-> e[2]]
  OBVIOUS
<1>5. /\ DOMAIN thread' = DOMAIN thread /\ thread'[a] = m /\ thread' \in Seq(Rows)
      /\ \A j \in DOMAIN thread : j # a => thread'[j] = thread[j]
  <2>1. m \in Rows
    BY <1>3, <1>4 DEF Rows
  <2>2. thread' = [thread EXCEPT ![a] = m]
    BY <1>2, <1>4 DEF Message
  <2> QED
    BY <1>1, <2>1, <2>2, RowChanged
<1>6. thread[a].status = "RESERVED"
  BY <1>1, <1>2 DEF RowsFit
<1>7. Grows
  BY <1>2, <1>4, <1>5, <1>6 DEF Grows
<1>8. /\ request'[r].pc = "over" /\ \A o \in Requests : o # r => request'[o] = request[o]
      /\ \A j \in DOMAIN thread : thread[j] \in Rows /\ thread[j].of \in Requests
  BY <1>1, StageMoved
<1>9. m.of = r /\ m.role = "assistant" /\ m.status # "RESERVED"
  BY <1>3, <1>4 DEF Finished
<1>10. \A j \in DOMAIN thread : thread'[j].of = thread[j].of /\ thread'[j].role = thread[j].role
  BY <1>7 DEF Grows
<1>11. ASSUME NEW j \in DOMAIN thread
       PROVE  LET stage == request'[thread'[j].of].pc
              IN  /\ stage \in {"asked", "reserved", "over"}
                  /\ thread'[j].role = "user" => thread'[j].status = "SUCCEEDED"
                  /\ thread'[j].role = "assistant" =>
                       /\ stage # "asked" /\ (thread'[j].status = "RESERVED" <=> stage = "reserved")
                       /\ \E i \in DOMAIN thread : i < j /\ thread'[i].of = thread'[j].of
  <2>1. thread[j].role = "assistant" => \E i \in DOMAIN thread : i < j /\ thread'[i].of = thread'[j].of
    <3>1. thread[j].role = "assistant" => \E i \in DOMAIN thread : i < j /\ thread[i].of = thread[j].of
      BY <1>1 DEF RowsFit
    <3> QED
      BY <1>10, <3>1
  <2>2. CASE j = a
    BY <1>2, <1>5, <1>8, <1>9, <2>1, <2>2
  <2>3. CASE thread[j].of # r
    <3>1. thread'[j] = thread[j] /\ request'[thread'[j].of].pc = request[thread[j].of].pc
      BY <1>2, <1>5, <1>8, <2>3
    <3> QED
      BY <1>1, <2>1, <3>1 DEF RowsFit
  <2>4. CASE thread[j].of = r /\ j # a
    <3>1. thread'[j] = thread[j] /\ request'[thread'[j].of].pc = "over"
      BY <1>5, <1>8, <2>4
    <3>2. j \in Nat /\ a \in Nat
      BY <1>1, <1>2
    <3>3. thread[j].role # "assistant"
      BY <1>1, <1>2, <2>4, <3>2 DEF RowsFit
    <3> QED
      BY <1>1, <3>1, <3>3 DEF RowsFit
  <2> QED
    BY <2>2, <2>3, <2>4
<1>12. ASSUME NEW o \in Requests, request'[o].pc \in {"asked", "reserved"}
       PROVE  \E j \in DOMAIN thread : thread'[j].of = o /\ thread'[j].role = "user"
  <2>1. request[o].pc \in {"asked", "reserved"}
    BY <1>8, <1>12
  <2>2. PICK j \in DOMAIN thread : thread[j].of = o /\ thread[j].role = "user"
    BY <1>1, <2>1 DEF RowsFit
  <2> QED
    BY <1>10, <2>2
<1>13. \A i, j \in DOMAIN thread :
         i < j /\ thread'[i].of = thread'[j].of => thread'[i].role = "user" /\ thread'[j].role = "assistant"
  BY <1>1, <1>10 DEF RowsFit
<1>14. RowsFit'
  BY <1>5, <1>11, <1>12, <1>13 DEF RowsFit
<1> QED
  BY <1>1, <1>5, <1>7, <1>14, StepKeeps

LEMMA ContextInitRight == ContextInit => ContextInv
<1> SUFFICES ASSUME ContextInit PROVE ContextInv
  OBVIOUS
<1>1. thread = <<>> /\ request = [r \in Requests |-> NewRequest]
  BY DEF ContextInit
<1>2. thread \in Seq(Rows) /\ DOMAIN thread = {}
  BY <1>1
<1>3. Whole(NewRequest) /\ NewRequest.text \in Writings /\ NewRequest.pc = "idle"
  BY DEF Whole, NewRequest, Writings
<1>4. \A r \in Requests : request[r] = NewRequest
  BY <1>1
<1>5. RowsFit
  BY <1>2, <1>3, <1>4 DEF RowsFit
<1> QED
  BY <1>1, <1>2, <1>3, <1>4, <1>5 DEF ContextInv

LEMMA ContextStuttered == ContextInv /\ UNCHANGED talk => ContextInv'
<1> SUFFICES ASSUME ContextInv, UNCHANGED talk PROVE ContextInv'
  OBVIOUS
<1>1. thread' = thread /\ request' = request
  BY DEF talk
<1>2. Grows /\ RowsFit /\ RowsFit'
  BY <1>1 DEF Grows, RowsFit, ContextInv
<1>3. ASSUME NEW r \in Requests, request[r].pc \notin {"idle", "refused"} PROVE Prompted(r)'
  BY <1>1, <1>2, <1>3, PromptKept DEF ContextInv
<1> QED
  BY <1>1, <1>2, <1>3 DEF ContextInv

LEMMA ContextNextRight == ContextInv /\ [ContextNext]_talk => ContextInv'
<1>1. ASSUME ContextInv, NEW r \in Requests, NEW text \in Contents, NEW again \in 0..Len(thread),
             Compose(r, text, again)
      PROVE  ContextInv'
  BY <1>1, ComposeRight
<1>2. ASSUME ContextInv, NEW r \in Requests, SaveQuestion(r) \/ SaveAnswer(r) \/ GiveUp(r)
      PROVE  ContextInv'
  BY <1>2, SaveQuestionRight, SaveAnswerRight, GiveUpRight
<1>3. ASSUME ContextInv, NEW r \in Requests, NEW e \in Endings, EndAnswer(r, e[1], e[2])
      PROVE  ContextInv'
  BY <1>3, EndAnswerRight
<1> QED
  BY <1>1, <1>2, <1>3, ContextStuttered DEF ContextNext

LEMMA LabelledRight ==
  ASSUME NEW m
  PROVE  /\ DOMAIN Labelled(m).chunks = DOMAIN m.text.chunks
         /\ \A c \in DOMAIN m.text.chunks : Labelled(m).chunks[c].size = m.text.chunks[c].size
<1> DEFINE own == m.text.chunks
           Name(c) == [terms |-> IF c = 1 THEN own[c].terms \cup {m.role} ELSE own[c].terms,
                       size  |-> own[c].size]
           chunks == [c \in DOMAIN own |-> Name(c)]
<1>1. Labelled(m).chunks = chunks
  BY DEF Labelled
<1>2. \A c : Name(c).size = own[c].size
  OBVIOUS
<1> HIDE DEF Name
<1>3. DOMAIN chunks = DOMAIN own /\ \A c \in DOMAIN own : chunks[c] = Name(c)
  OBVIOUS
<1> QED
  BY <1>1, <1>2, <1>3

LEMMA FormerRight ==
  ASSUME thread \in Seq(Rows), NEW told \in Seq(Nat), Ascends(told),
         \A j \in DOMAIN told : told[j] \in DOMAIN thread
  PROVE  /\ Library(Former(told))
         /\ \A d \in DOMAIN Former(told) :
              d \in 1..Len(told) /\ d <= Len(told) - Verbatim /\ Former(told)[d].of = told[d]
<1> DEFINE early == SubSeq(told, 1, Len(told) - Verbatim)
           all == Former(told)
<1>1. PICK n \in Nat : n = Len(told)
  OBVIOUS
<1>2. PICK k \in 0..n : /\ DOMAIN early = 1..k
                       /\ \A d \in 1..k : /\ early[d] = told[d] /\ d \in DOMAIN told
                                          /\ d <= n - Verbatim
  BY <1>1, AllBut, ContextAssumption
<1>3. \A d \in 1..k : d \in 1..n /\ early[d] = told[d]
  <2>1. 1..k \subseteq 1..n
    OBVIOUS
  <2> QED
    BY <1>2, <2>1, Zenon
<1>4. all = [d \in 1..k |-> [of |-> early[d], text |-> Labelled(thread[early[d]])]]
  BY <1>2 DEF Former
<1> HIDE DEF early, all
<1>5. DOMAIN all = 1..k /\ \A d \in 1..k : all[d] = [of |-> told[d], text |-> Labelled(thread[told[d]])]
  BY <1>3, <1>4
<1>6. \A d \in 1..k : all[d].of = told[d] /\ all[d].text = Labelled(thread[told[d]])
  BY <1>5
<1>7. \A d \in 1..k : told[d] \in Nat /\ told[d] \in DOMAIN thread /\ d \in DOMAIN told
  BY <1>2
<1>8. ASSUME NEW d \in 1..k
      PROVE  LET chunks == all[d].text.chunks
             IN  (\E l \in Nat : DOMAIN chunks = 1..l) /\ \A c \in DOMAIN chunks : chunks[c].size \in Nat \ {0}
  <2>1. PICK t : t = thread[told[d]].text
    OBVIOUS
  <2>2. t \in Writings
    <3>1. thread[told[d]] \in Rows
      BY <1>7
    <3> QED
      BY <2>1, <3>1 DEF Rows
  <2>3. /\ DOMAIN all[d].text.chunks = DOMAIN t.chunks
        /\ \A c \in DOMAIN t.chunks : all[d].text.chunks[c].size = t.chunks[c].size
    <3>1. all[d].text = Labelled(thread[told[d]])
      BY <1>6
    <3> QED
      BY <2>1, <3>1, LabelledRight
  <2> QED
    BY <2>2, <2>3, TextsRight
<1>9. \A d, e \in 1..k : told[d] = told[e] => d = e
  <2>1. SUFFICES ASSUME NEW d \in 1..k, NEW e \in 1..k, told[d] = told[e], d # e PROVE FALSE
    OBVIOUS
  <2>2. d \in DOMAIN told /\ e \in DOMAIN told /\ told[d] \in Nat /\ told[e] \in Nat /\ (d < e \/ e < d)
    BY <1>7, <2>1
  <2> QED
    BY <2>1, <2>2 DEF Ascends
<1>10. Library(all)
  <2>1. /\ DOMAIN all = 1..k /\ \A d \in 1..k : all[d].of \in Nat
        /\ \A d, e \in 1..k : all[d].of = all[e].of => d = e
    <3>1. \A d \in 1..k : all[d].of = told[d] /\ told[d] \in Nat
      BY <1>6, <1>7, Zenon
    <3> QED
      BY <1>5, <1>9, <3>1
  <2>2. \A d \in DOMAIN all :
          LET chunks == all[d].text.chunks
          IN  /\ all[d].of \in Nat
              /\ \E l \in Nat : DOMAIN chunks = 1..l
              /\ \A c \in DOMAIN chunks : chunks[c].size \in Nat \ {0}
    BY <1>8, <2>1
  <2>3. \A d, e \in DOMAIN all : all[d].of = all[e].of => d = e
    BY <2>1
  <2>4. \E l \in Nat : DOMAIN all = 1..l
    BY <2>1
  <2> QED
    BY <2>2, <2>3, <2>4 DEF Library
<1> QED
  BY <1>1, <1>2, <1>3, <1>5, <1>6, <1>10 DEF all

LEMMA MaterialRight == Library(TheMaterial) /\ ProjectBudget \in Nat /\ OlderChars \in Nat
<1>1. /\ TheMaterial[1].of = 0 /\ TheMaterial[1].text = Material /\ DOMAIN TheMaterial = 1..1
  BY DEF TheMaterial
<1>2. /\ \E n \in Nat : DOMAIN Material.chunks = 1..n
      /\ \A c \in DOMAIN Material.chunks : Material.chunks[c].size \in Nat \ {0}
  BY TextsRight
<1>3. Library(TheMaterial)
  <2> \A d \in 1..1 : d = 1
    OBVIOUS
  <2> QED
    BY <1>1, <1>2 DEF Library
<1>4. ProjectBudget \in Nat /\ OlderChars \in Nat
  BY ContextAssumption DEF ProjectBudget
<1> QED
  BY <1>3, <1>4

\* What is quoted comes before what is told word for word.
LEMMA TurnsApart ==
  ASSUME NEW told \in Seq(Nat), Ascends(told), NEW d \in 1..Len(told), d <= Len(told) - Verbatim
  PROVE  told[d] \notin Range(LastOf(Verbatim, told))
<1>1. PICK l : l = LastOf(Verbatim, told)
  OBVIOUS
<1>2. PICK k : k = Len(told) - Len(l)
  OBVIOUS
<1>3. PICK n \in Nat : n = Len(told)
  OBVIOUS
<1>4. /\ l \in Seq(Nat) /\ Len(l) \in Nat /\ k \in Nat /\ Len(l) <= Verbatim
      /\ \A j \in 1..Len(l) : k + j \in 1..n /\ l[j] = told[k + j]
  <2>1. Verbatim \in Nat
    BY ContextAssumption
  <2> QED
    BY <1>1, <1>2, <1>3, <2>1, LastOfRight
<1>5. SUFFICES ASSUME NEW i \in DOMAIN l, told[d] = l[i] PROVE FALSE
  BY <1>1 DEF Range
<1>6. i \in 1..Len(l)
  BY <1>4
<1>7. i \in Nat /\ i > 0 /\ k + i \in 1..n /\ told[d] = told[k + i]
  <2>1. k + i \in 1..n /\ l[i] = told[k + i]
    BY <1>4, <1>6, Zenon
  <2>2. \A o \in 1..Len(l) : o \in Nat /\ o > 0
    BY <1>4
  <2> QED
    BY <1>5, <1>6, <2>1, <2>2, Zenon
<1>8. d < k + i
  <2>1. d <= n - Verbatim /\ n - Verbatim <= k
    BY <1>2, <1>3, <1>4, ContextAssumption
  <2> QED
    BY <1>3, <1>4, <1>7, <2>1, ContextAssumption
<1>9. d \in DOMAIN told /\ k + i \in DOMAIN told
  BY <1>3, <1>7
<1>10. told[d] < told[k + i] /\ told[d] \in Nat
  BY <1>8, <1>9 DEF Ascends
<1> QED
  BY <1>7, <1>10

LEMMA PromptFits ==
  ASSUME ContextInv, NEW r \in Requests, Prompted(r)
  PROVE  PromptOK(r)
<1>1. PICK p : p = request[r].prompt
  OBVIOUS
<1>2. PICK text : text = request[r].text
  OBVIOUS
<1>3. PICK again : again = request[r].again
  OBVIOUS
<1>4. PICK told : told = p.told
  OBVIOUS
<1>5. /\ told \in Seq(Nat) /\ Ascends(told)
      /\ \A j \in DOMAIN told :
           /\ told[j] \in DOMAIN thread /\ thread[told[j]].status = "SUCCEEDED" /\ thread[told[j]].of # r
      /\ p.turns = LastOf(Verbatim, told) /\ p.older = Older(told, text)
      /\ p.reference = Reference(text) /\ Anew(told, text, again)
  BY <1>1, <1>2, <1>3, <1>4 DEF Prompted
<1>6. text \in Writings /\ thread \in Seq(Rows) /\ RowsFit
  BY <1>2 DEF ContextInv
<1>7. IsFiniteSet(text.terms)
  BY <1>6, TextsRight
<1>8. \A j \in DOMAIN told : j > 1 => told[j - 1] < told[j]
  <2>1. \A j \in DOMAIN told : j > 1 => j - 1 \in DOMAIN told /\ j - 1 < j
    BY <1>5
  <2> QED
    BY <1>5, <2>1 DEF Ascends
<1>9. Library(Former(told)) /\ \A d \in DOMAIN Former(told) :
        d \in 1..Len(told) /\ d <= Len(told) - Verbatim /\ Former(told)[d].of = told[d]
  BY <1>5, <1>6, FormerRight
<1>10. /\ p.older \in Seq(Piece) /\ Excerpts(text.terms, Former(told), OlderChars, p.older)
       /\ \A j \in 1..Len(p.older) : \E d \in DOMAIN Former(told) : p.older[j].of = Former(told)[d].of
  BY <1>5, <1>7, <1>9, MaterialRight, ExcerptsRight DEF Older
<1>11. Range(p.turns) \cap {p.older[j].of : j \in DOMAIN p.older} = {}
  <2>1. DOMAIN p.older = 1..Len(p.older)
    BY <1>10
  <2>2. ASSUME NEW j \in 1..Len(p.older) PROVE p.older[j].of \notin Range(p.turns)
    <3>1. PICK d \in DOMAIN Former(told) : p.older[j].of = Former(told)[d].of
      BY <1>10
    <3>2. d \in 1..Len(told) /\ d <= Len(told) - Verbatim /\ p.older[j].of = told[d]
      BY <1>9, <3>1
    <3> QED
      BY <1>5, <3>2, TurnsApart
  <2> QED
    BY <2>1, <2>2
<1>12. /\ Length(p.reference) \in 0..ProjectBudget
       /\ Excerpts(text.terms, TheMaterial, ProjectBudget, p.reference)
  BY <1>5, <1>7, MaterialRight, ExcerptsRight DEF Reference
<1>13. Length(p.reference) + Min({Instructions, ProjectChars}) <= ProjectChars
  <2>1. Instructions \in Nat /\ ProjectChars \in Nat
    BY ContextAssumption
  <2>2. CASE ProjectChars > Instructions
    <3>1. Min({Instructions, ProjectChars}) = Instructions
      BY <2>1, <2>2 DEF Min
    <3> QED
      BY <1>12, <2>1, <2>2, <3>1 DEF ProjectBudget
  <2>3. CASE ~(ProjectChars > Instructions)
    <3>1. Min({Instructions, ProjectChars}) = ProjectChars
      BY <2>1, <2>3 DEF Min
    <3> QED
      BY <1>12, <2>1, <2>3, <3>1 DEF ProjectBudget
  <2> QED
    BY <2>2, <2>3
<1>14. ASSUME again # 0, ~Overlaps(thread[again].of)
       PROVE  /\ text = QuestionOf(thread[again].of)
              /\ \A j \in DOMAIN told : thread[told[j]].of # thread[again].of
  <2>1. PICK s : s = thread[again].of
    OBVIOUS
  <2>2. /\ \A j \in DOMAIN told : thread[told[j]].of # s
        /\ \E q \in DOMAIN thread : thread[q].of = s /\ thread[q].role = "user" /\ text = thread[q].text
    BY <1>5, <1>14, <2>1 DEF Anew
  <2>3. PICK q \in DOMAIN thread : thread[q].of = s /\ thread[q].role = "user" /\ text = thread[q].text
    BY <2>2
  <2>4. PICK i : i = CHOOSE o \in DOMAIN thread : thread[o].of = s /\ thread[o].role = "user"
    OBVIOUS
  <2>5. i \in DOMAIN thread /\ thread[i].of = s /\ thread[i].role = "user"
    BY <2>3, <2>4
  <2>6. i = q
    <3>1. i \in Nat /\ q \in Nat
      BY <1>6, <2>3, <2>5
    <3> QED
      BY <1>6, <2>3, <2>5, <3>1 DEF RowsFit
  <2>7. QuestionOf(s) = thread[i].text
    BY <2>4 DEF QuestionOf
  <2> QED
    BY <2>1, <2>2, <2>3, <2>6, <2>7
<1>15. again # 0 =>
         \E q \in 1..(again - 1) :
           /\ thread[q].role = "user" /\ text = thread[q].text
           /\ \A j \in DOMAIN told : told[j] < q
  <2>1. SUFFICES ASSUME again # 0
                 PROVE  \E q \in 1..(again - 1) :
                          /\ thread[q].role = "user" /\ text = thread[q].text
                          /\ \A j \in DOMAIN told : told[j] < q
    OBVIOUS
  <2>2. PICK q \in DOMAIN thread :
          /\ q < again /\ thread[q].role = "user" /\ text = thread[q].text
          /\ \A j \in DOMAIN told : told[j] < q
    BY <1>5, <2>1 DEF Anew
  <2>3. again \in DOMAIN thread
    BY <1>5, <2>1 DEF Anew
  <2>4. q \in 1..(again - 1)
    BY <1>6, <2>2, <2>3
  <2> QED
    BY <2>2, <2>4
<1>16. \A j \in DOMAIN told :
         /\ thread[told[j]].status = "SUCCEEDED" /\ thread[told[j]].of # r
         /\ j > 1 => told[j - 1] < told[j]
  BY <1>5, <1>8
<1>17. /\ p.turns = LastOf(Verbatim, told)
       /\ Excerpts(text.terms, Former(told), OlderChars, p.older)
       /\ Excerpts(text.terms, TheMaterial, ProjectBudget, p.reference)
       /\ again # 0 =>
             /\ \E q \in 1..(again - 1) :
                  /\ thread[q].role = "user" /\ text = thread[q].text
                  /\ \A j \in DOMAIN told : told[j] < q
             /\ ~Overlaps(thread[again].of) =>
                  /\ text = QuestionOf(thread[again].of)
                  /\ \A j \in DOMAIN told : thread[told[j]].of # thread[again].of
  BY <1>5, <1>10, <1>12, <1>14, <1>15
<1> QED
  BY <1>1, <1>2, <1>3, <1>4, <1>11, <1>13, <1>16, <1>17, Zenon DEF PromptOK

LEMMA ContextInvariant == ContextSpec => []ContextInv
<1>1. ContextInit => ContextInv
  BY ContextInitRight
<1>2. ContextInv /\ [ContextNext]_talk => ContextInv'
  BY ContextNextRight
<1> QED
  BY <1>1, <1>2, PTL DEF ContextSpec

(* Whatever the requests of a conversation write while another one makes   *)
(* its prompt: the prompt tells of messages that have succeeded, in order  *)
(* and once, quotes earlier ones by the excerpts that fit best, keeps to   *)
(* the budgets, and a retried answer gets the question it was given        *)
(* (generate() and relevantContext()).                                     *)
THEOREM PromptsAreRight == ContextSpec => []PromptsRight
<1>1. ContextInv => PromptsRight
  BY PromptFits DEF ContextInv, PromptsRight
<1> QED
  BY <1>1, ContextInvariant, PTL

==============================================================================
