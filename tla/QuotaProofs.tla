---------------------------- MODULE QuotaProofs ----------------------------
(***************************************************************************)
(* Theorems about Quota, for every value of its constants: its counters,   *)
(* calls and their reservations, settlement, the limits that reserve()     *)
(* enforces, and that the ledger implements Allowance.                     *)
(***************************************************************************)
EXTENDS Quota, FiniteSetTheorems, TLAPS

(* The clock's days and months are numbered from 0. *)
LEMMA PeriodType ==
  \A t \in Nat : Day(t) \in Nat /\ Month(t) \in Nat
<1>1. DayLength \in Nat \ {0} /\ DayLength * MonthDays \in Nat \ {0}
  BY NumberAssumption
<1>2. \A t \in Nat, d \in Nat \ {0} : t \div d \in Nat
  OBVIOUS
<1> QED
  BY <1>1, <1>2 DEF Day, Month

(* What UnitsOf counts: the units of each request, one by one. *)
Tokens(f, S, k) == {t \in S \X (1..MaxUnits) : t[2] <= Weight(f[t[1]], k)}

LEMMA UnitsAreTokens ==
  \A f, S, k : UnitsOf(f, S, k) = Cardinality(Tokens(f, S, k))
BY DEF UnitsOf, Tokens

(* The units of a set of requests in a counter are a finite number. *)
LEMMA UnitsFinite ==
  ASSUME NEW f, NEW S, IsFiniteSet(S), NEW k
  PROVE  IsFiniteSet(Tokens(f, S, k)) /\ UnitsOf(f, S, k) \in Nat
<1>1. IsFiniteSet(1..MaxUnits)
  BY FS_Interval, NumberAssumption
<1>2. IsFiniteSet(S \X (1..MaxUnits))
  BY <1>1, FS_Product
<1>3. Tokens(f, S, k) \subseteq S \X (1..MaxUnits)
  BY DEF Tokens
<1>4. IsFiniteSet(Tokens(f, S, k))
  BY <1>2, <1>3, FS_Subset
<1> QED
  BY <1>4, FS_CardinalityType, UnitsAreTokens

(* Units of disjoint sets of requests add up. *)
LEMMA UnitsUnion ==
  ASSUME NEW f, NEW S, IsFiniteSet(S), NEW T, IsFiniteSet(T), S \cap T = {},
         NEW k
  PROVE  UnitsOf(f, S \cup T, k) = UnitsOf(f, S, k) + UnitsOf(f, T, k)
<1> DEFINE A == Tokens(f, S, k)
           B == Tokens(f, T, k)
<1>1. IsFiniteSet(A) /\ IsFiniteSet(B)
  BY UnitsFinite
<1>2. Tokens(f, S \cup T, k) = A \cup B
  <2>1. ASSUME NEW X, NEW t
        PROVE  t \in Tokens(f, X, k)
                 <=> t \in X \X (1..MaxUnits) /\ t[2] <= Weight(f[t[1]], k)
    BY DEF Tokens
  <2>2. ASSUME NEW t
        PROVE  t \in (S \cup T) \X (1..MaxUnits)
                 <=> t \in S \X (1..MaxUnits) \/ t \in T \X (1..MaxUnits)
    OBVIOUS
  <2>3. ASSUME NEW t
        PROVE  t \in Tokens(f, S \cup T, k) <=> t \in A \/ t \in B
    BY <2>1, <2>2, Zenon
  <2> HIDE DEF A, B
  <2> QED
    BY <2>3
<1>3. A \cap B = {}
  BY DEF Tokens
<1>4. /\ UnitsOf(f, S, k) = Cardinality(A) /\ UnitsOf(f, T, k) = Cardinality(B)
      /\ UnitsOf(f, S \cup T, k) = Cardinality(Tokens(f, S \cup T, k))
  BY DEF UnitsOf, Tokens
<1> HIDE DEF A, B
<1>5. UnitsOf(f, S \cup T, k) = Cardinality(A \cup B)
  BY <1>2, <1>4
<1>6. Cardinality(A \cup B) = Cardinality(A) + Cardinality(B) - Cardinality({})
  BY <1>1, <1>3, FS_Union
<1>7. Cardinality(A) \in Nat /\ Cardinality(B) \in Nat /\ Cardinality({}) = 0
  BY <1>1, FS_CardinalityType, FS_EmptySet
<1> QED
  BY <1>4, <1>5, <1>6, <1>7

(* Units depend only on the weights of the reservations that are counted. *)
LEMMA UnitsSame ==
  ASSUME NEW f, NEW g, NEW S, NEW k,
         \A r \in S : Weight(f[r], k) = Weight(g[r], k)
  PROVE  UnitsOf(f, S, k) = UnitsOf(g, S, k)
<1>1. Tokens(f, S, k) = Tokens(g, S, k)
  BY DEF Tokens
<1> QED
  BY <1>1, UnitsAreTokens

(* A reservation never weighs more than MaxUnits in a counter. *)
LEMMA WeightType ==
  ASSUME NEW x \in Reservation, NEW k
  PROVE  Weight(x, k) \in 0..MaxUnits
  BY NumberAssumption DEF Weight, Reservation

(* A single reservation adds its weight. *)
LEMMA UnitsSingle ==
  ASSUME NEW f, NEW r, NEW k, Weight(f[r], k) \in 0..MaxUnits
  PROVE  UnitsOf(f, {r}, k) = Weight(f[r], k)
<1> DEFINE w == Weight(f[r], k)
<1>1. Tokens(f, {r}, k) = {r} \X (1..w)
  BY NumberAssumption DEF Tokens
<1>2. UnitsOf(f, {r}, k) = Cardinality({r} \X (1..w))
  BY <1>1 DEF UnitsOf, Tokens
<1>3. w \in Nat
  BY NumberAssumption
<1> HIDE DEF w
<1>4. IsFiniteSet(1..w) /\ Cardinality(1..w) = w
  BY <1>3, FS_Interval
<1>5. IsFiniteSet({r}) /\ Cardinality({r}) = 1
  BY FS_Singleton
<1>6. Cardinality({r} \X (1..w)) = 1 * w
  BY <1>4, <1>5, FS_Product
<1>7. UnitsOf(f, {r}, k) = w
  BY <1>2, <1>3, <1>6
<1> QED
  BY <1>7 DEF w

(* No reservations, no units. *)
LEMMA UnitsEmpty ==
  ASSUME NEW f, NEW k
  PROVE  UnitsOf(f, {}, k) = 0
<1>1. Tokens(f, {}, k) = {}
  BY DEF Tokens
<1> QED
  BY <1>1, FS_EmptySet, UnitsAreTokens

----------------------------------------------------------------------------
(* Type correctness. *)

USE DEF vars, accounts, ledger

(* finalizeIn changes only statuses and counters. *)
LEMMA FinalizedType ==
  ASSUME TypeOK, NEW S, NEW s \in Statuses
  PROVE  /\ DOMAIN Finalized(S, s) = DOMAIN res
         /\ Finalized(S, s) \in [DOMAIN res -> Reservation]
  BY DEF TypeOK, Finalized, Reservation, Open

LEMMA CountersType ==
  ASSUME TypeOK, NEW S, NEW k \in Keys
  PROVE  /\ IsFiniteSet(Open) /\ IsFiniteSet(S \cap Open)
         /\ UnitsOf(res, S \cap Open, k) \in Nat
         /\ ReservedAfter(S, k) \in Int
         /\ UsedAfter(S, TRUE, k) \in Int /\ UsedAfter(S, FALSE, k) \in Int
<1>1. IsFiniteSet(Open) /\ IsFiniteSet(S \cap Open)
  BY SetAssumption, FS_Subset DEF TypeOK, Open
<1>2. UnitsOf(res, S \cap Open, k) \in Nat
  BY <1>1, UnitsFinite
<1> QED
  BY <1>1, <1>2 DEF TypeOK, ReservedAfter, UsedAfter

LEMMA FinalizeInType ==
  ASSUME TypeOK, NEW S, NEW s \in Statuses, NEW consume \in BOOLEAN,
         FinalizeIn(S, s, consume)
  PROVE  /\ DOMAIN res' = DOMAIN res /\ res' \in [DOMAIN res' -> Reservation]
         /\ used' \in [Keys -> Int] /\ reserved' \in [Keys -> Int]
         /\ charged' \subseteq DOMAIN res'
<1>1. charged' \subseteq DOMAIN res
  BY DEF FinalizeIn, ChargedAfter, TypeOK, Open
<1>2. /\ DOMAIN res' = DOMAIN res
      /\ res' \in [DOMAIN res' -> Reservation]
  BY FinalizedType DEF FinalizeIn
<1>3. reserved' \in [Keys -> Int]
  BY CountersType DEF FinalizeIn
<1>4. CASE consume = TRUE
  BY <1>1, <1>2, <1>3, <1>4, CountersType DEF FinalizeIn
<1>5. CASE consume = FALSE
  BY <1>1, <1>2, <1>3, <1>5, CountersType DEF FinalizeIn
<1> QED
  BY <1>4, <1>5

LEMMA NewReservationType ==
  ASSUME TypeOK, NEW c \in DOMAIN call, NEW at \in Times
  PROVE  NewReservation(c, at) \in Reservation
<1>1. call[c] \in Call /\ call[c].policy \in Policy
  BY SetAssumption DEF TypeOK, Call
<1>2. at \in Nat /\ Day(at) \in Nat /\ Month(at) \in Nat
  BY PeriodType DEF Times
<1>3. at + call[c].policy.maxDuration + Grace \in Nat
  BY <1>1, <1>2, NumberAssumption DEF Policy
<1> QED
  BY <1>1, <1>2, <1>3 DEF TypeOK, NewReservation, Expiry, Reservation, Call, Policy,
                          Buckets, Statuses

\* A call that ends leaves the calls in flight.
LEMMA CallEndsType ==
  ASSUME TypeOK, NEW c
  PROVE  /\ DOMAIN Without(call, c) \subseteq Calls
         /\ Without(call, c) \in [DOMAIN Without(call, c) -> Call]
  BY DEF TypeOK, Without

LEMMA TypeInit == Init => TypeOK
<1> SUFFICES ASSUME Init PROVE TypeOK
  OBVIOUS
<1>1. 0 \in 0..MaxTime /\ 0 \in 0..MaxFaults
  BY NumberAssumption
<1> QED
  BY <1>1, SetAssumption DEF Init, TypeOK, Statuses, Call, Reservation

LEMMA TypeNext == TypeOK /\ [Next]_vars => TypeOK'
<1> SUFFICES ASSUME TypeOK, [Next]_vars PROVE TypeOK'
  OBVIOUS
<1> USE DEF TypeOK
<1>1. ASSUME NEW c \in Calls, NEW w \in Workers, NEW r \in Requests,
             NEW u \in Users, NEW p \in Policies, Submit(c, w, r, u, p)
      PROVE  TypeOK'
  <2>1. [phase |-> "ready", worker |-> w, req |-> r, user |-> u,
         policy |-> p, by |-> 0] \in Call
    BY DEF Call
  <2> QED
    BY <1>1, <2>1 DEF Submit, With
<1>2. ASSUME NEW c \in DOMAIN call, NEW at \in Times, Reserve(c, at)
      PROVE  TypeOK'
  <2> HIDE DEF TypeOK
  <2>1. /\ NewReservation(c, at) \in Reservation
        /\ call[c] \in Call /\ call[c].policy \in Policy
    BY NewReservationType, SetAssumption DEF Call, TypeOK
  <2>2. /\ DOMAIN res' = DOMAIN res \cup {call[c].req}
        /\ res' \in [DOMAIN res' -> Reservation]
    <3>1. /\ DOMAIN Finalized(Stale(c, at), "INTERRUPTED") = DOMAIN res
          /\ Finalized(Stale(c, at), "INTERRUPTED") \in [DOMAIN res -> Reservation]
      BY FinalizedType DEF Statuses
    <3> QED
      BY <1>2, <2>1, <3>1 DEF Reserve, With
  <2>3. \A k \in Keys : /\ Weight(NewReservation(c, at), k) \in Int
                        /\ ReservedAfter(Stale(c, at), k) \in Int
                        /\ UsedAfter(Stale(c, at), TRUE, k) \in Int
    <3>1. \A k \in Keys : Weight(NewReservation(c, at), k) \in Int
      BY <2>1, WeightType, NumberAssumption
    <3>2. \A k \in Keys : ReservedAfter(Stale(c, at), k) \in Int
      BY CountersType
    <3>3. \A k \in Keys : UsedAfter(Stale(c, at), TRUE, k) \in Int
      BY CountersType
    <3> QED
      BY <3>1, <3>2, <3>3
  <2>4. reserved' \in [Keys -> Int] /\ used' \in [Keys -> Int]
    <3>1. reserved' = [k \in Keys |-> ReservedAfter(Stale(c, at), k)
                                       + Weight(NewReservation(c, at), k)]
      BY <1>2, Zenon DEF Reserve
    <3>2. used' = [k \in Keys |-> UsedAfter(Stale(c, at), TRUE, k)]
      BY <1>2, Zenon DEF Reserve
    <3>3. reserved' \in [Keys -> Int]
      <4>1. \A k \in Keys : ReservedAfter(Stale(c, at), k)
                             + Weight(NewReservation(c, at), k) \in Int
        <5> SUFFICES ASSUME NEW k \in Keys
                     PROVE  ReservedAfter(Stale(c, at), k)
                              + Weight(NewReservation(c, at), k) \in Int
          OBVIOUS
        <5>1. ReservedAfter(Stale(c, at), k) \in Int
          BY <2>3
        <5>2. Weight(NewReservation(c, at), k) \in Int
          BY <2>3
        <5> QED
          BY <5>1, <5>2
      <4> QED
        BY <3>1, <4>1
    <3>4. used' \in [Keys -> Int]
      BY <2>3, <3>2
    <3> QED
      BY <3>3, <3>4
  <2>5. charged' \subseteq DOMAIN res'
    BY <1>2, <2>2 DEF Reserve, ChargedAfter, Open, TypeOK
  <2>6. now + call[c].policy.maxDuration + Slack \in Nat
    BY <2>1, NumberAssumption DEF Policy, TypeOK
  <2>7. /\ DOMAIN call' = DOMAIN call
        /\ call' \in [DOMAIN call -> Call]
    BY <1>2, <2>6 DEF Reserve, Call, TypeOK
  <2> QED
    BY <1>2, <2>1, <2>2, <2>4, <2>5, <2>7 DEF Reserve, Call, TypeOK
<1>3. ASSUME NEW c \in DOMAIN call, NEW at \in Times, Reject(c, at)
      PROVE  TypeOK'
  BY <1>3, CallEndsType DEF Reject
<1>4. ASSUME NEW c \in DOMAIN call, CreateMessage(c)
      PROVE  TypeOK'
  BY <1>4 DEF CreateMessage, Statuses
<1>5. ASSUME NEW c \in DOMAIN call, NEW s \in Results, NEW consume \in BOOLEAN,
             Finish(c, s, consume)
      PROVE  TypeOK'
  <2>1. s \in Statuses
    BY SetAssumption DEF Statuses
  <2>2. /\ DOMAIN call' \subseteq Calls /\ call' \in [DOMAIN call' -> Call]
        /\ DOMAIN res' = DOMAIN res /\ res' \in [DOMAIN res' -> Reservation]
        /\ used' \in [Keys -> Int] /\ reserved' \in [Keys -> Int]
        /\ charged' \subseteq DOMAIN res'
    <3>1. FinalizeIn({call[c].req}, s, consume) /\ call' = Without(call, c)
      BY <1>5 DEF Finish
    <3>2. DOMAIN call' \subseteq Calls /\ call' \in [DOMAIN call' -> Call]
      BY <3>1, CallEndsType
    <3>3. /\ DOMAIN res' = DOMAIN res /\ res' \in [DOMAIN res' -> Reservation]
          /\ used' \in [Keys -> Int] /\ reserved' \in [Keys -> Int]
          /\ charged' \subseteq DOMAIN res'
      BY <1>5, <2>1, <3>1, FinalizeInType
    <3> QED
      BY <3>2, <3>3
  <2>3. /\ msg' \in [Requests -> Statuses \cup {"NONE", "DELETED"}]
        /\ UNCHANGED <<now, planOf, everHeld, batch, faults>>
    BY <1>5, <2>1 DEF Finish
  <2> QED
    BY <2>2, <2>3
<1>6. ASSUME NEW c \in DOMAIN call, TxFails(c)
      PROVE  TypeOK'
  BY <1>6, CallEndsType, NumberAssumption DEF TxFails
<1>7. ASSUME NEW r \in Deletable, DeleteMessage(r)
      PROVE  TypeOK'
  BY <1>7, SetAssumption DEF DeleteMessage
<1>8. ASSUME NEW w \in Workers, Scan(w)
      PROVE  TypeOK'
  BY <1>8 DEF Scan, ExpiredAt, Open
<1>9. ASSUME NEW w \in Workers, NEW r \in batch[w], Reap(w, r)
      PROVE  TypeOK'
  BY <1>9, FinalizeInType DEF Reap, Statuses
<1>10. ASSUME NEW w \in Workers, ReapFails(w)
       PROVE  TypeOK'
  BY <1>10, NumberAssumption DEF ReapFails
<1>11. ASSUME NEW u \in Users, NEW pl \in Plans, ChangePlan(u, pl)
       PROVE  TypeOK'
  BY <1>11 DEF ChangePlan
<1>12. ASSUME NEW w \in Workers, Crash(w)
       PROVE  TypeOK'
  BY <1>12, NumberAssumption DEF Crash
<1>13. CASE Tick
  BY <1>13, NumberAssumption DEF Tick
<1>14. CASE UNCHANGED vars
  BY <1>14
<1> QED
  BY <1>1, <1>2, <1>3, <1>4, <1>5, <1>6, <1>7, <1>8, <1>9, <1>10, <1>11,
     <1>12, <1>13, <1>14
     DEF Next, Admission, Ending, FinishCall, Reconciliation, Environment,
         Terminating

(* The tables keep their types in every behaviour of the quota service. *)
THEOREM TypeCorrect == Spec => []TypeOK
<1> QED
  BY TypeInit, TypeNext, PTL DEF Spec

----------------------------------------------------------------------------
(* The counters agree with the ledger.  CountersMatch alone is not         *)
(* inductive: a settlement adds to `charged` only requests that were open, *)
(* so that they must not have been in it before.                           *)

LedgerInv == TypeOK /\ CountersMatch /\ charged \cap Open = {}

Final == {"SUCCEEDED", "FAILED", "CANCELLED", "INTERRUPTED"}

LEMMA LedgerFinite ==
  ASSUME TypeOK, NEW S
  PROVE  /\ IsFiniteSet(DOMAIN res) /\ IsFiniteSet(Open) /\ IsFiniteSet(charged)
         /\ IsFiniteSet(S \cap Open) /\ IsFiniteSet(Open \ S)
<1>1. IsFiniteSet(DOMAIN res)
  BY SetAssumption, FS_Subset DEF TypeOK
<1>2. Open \subseteq DOMAIN res /\ charged \subseteq DOMAIN res
  BY DEF Open, TypeOK
<1>3. /\ S \cap Open \in SUBSET DOMAIN res /\ Open \ S \in SUBSET DOMAIN res
      /\ Open \in SUBSET DOMAIN res /\ charged \in SUBSET DOMAIN res
  BY <1>2
<1> QED
  BY <1>1, <1>3, FS_Subset

(* What finalizeIn writes is what remains open and what is charged. *)
LEMMA SettledUnits ==
  ASSUME LedgerInv, NEW S, NEW k \in Keys
  PROVE  /\ ReservedAfter(S, k) = UnitsOf(res, Open \ S, k)
         /\ UsedAfter(S, TRUE, k) = UnitsOf(res, charged \cup (S \cap Open), k)
         /\ UsedAfter(S, FALSE, k) = UnitsOf(res, charged, k)
<1> DEFINE T == S \cap Open
           R == Open \ S
<1>1. IsFiniteSet(T) /\ IsFiniteSet(R) /\ IsFiniteSet(charged)
  BY LedgerFinite DEF LedgerInv
<1>2. T \cap R = {} /\ T \cup R = Open /\ charged \cap T = {}
  BY DEF LedgerInv
<1>3. /\ UnitsOf(res, T, k) \in Nat /\ UnitsOf(res, R, k) \in Nat
      /\ UnitsOf(res, charged, k) \in Nat
  BY <1>1, UnitsFinite
<1>4. UnitsOf(res, Open, k) = UnitsOf(res, T, k) + UnitsOf(res, R, k)
  <2> HIDE DEF T, R
  <2> QED
    BY <1>1, <1>2, UnitsUnion
<1>5. UnitsOf(res, charged \cup T, k) = UnitsOf(res, charged, k) + UnitsOf(res, T, k)
  <2> HIDE DEF T, R
  <2> QED
    BY <1>1, <1>2, UnitsUnion
<1>6. reserved[k] = UnitsOf(res, Open, k) /\ used[k] = UnitsOf(res, charged, k)
  BY DEF LedgerInv, CountersMatch
<1> QED
  BY <1>3, <1>4, <1>5, <1>6 DEF ReservedAfter, UsedAfter

(* A status says nothing of a reservation's weight. *)
LEMMA FinalizedWeight ==
  ASSUME TypeOK, NEW S, NEW s, NEW k
  PROVE  \A r \in DOMAIN res : Weight(Finalized(S, s)[r], k) = Weight(res[r], k)
<1> SUFFICES ASSUME NEW r \in DOMAIN res
             PROVE  Weight(Finalized(S, s)[r], k) = Weight(res[r], k)
  OBVIOUS
<1>1. res[r] \in Reservation
  BY DEF TypeOK
<1>2. /\ Finalized(S, s)[r].user = res[r].user
      /\ Finalized(S, s)[r].bucket = res[r].bucket
      /\ Finalized(S, s)[r].units = res[r].units
      /\ Finalized(S, s)[r].day = res[r].day
      /\ Finalized(S, s)[r].month = res[r].month
  BY <1>1 DEF Finalized, Reservation
<1> QED
  BY <1>2 DEF Weight, CreditKey, DayKey, MonthKey

(* finalizeIn keeps the counters and the ledger in agreement. *)
LEMMA FinalizeInLedger ==
  ASSUME LedgerInv, NEW S, NEW s \in Final, NEW consume \in BOOLEAN,
         FinalizeIn(S, s, consume)
  PROVE  CountersMatch' /\ (charged \cap Open = {})'
<1>1. res' = Finalized(S, s)
  BY DEF FinalizeIn
<1>2. DOMAIN res' = DOMAIN res
  BY <1>1 DEF Finalized
<1>3. Open' = Open \ S
  BY <1>1 DEF Open, Finalized, LedgerInv, TypeOK, Reservation, Final
<1>4. charged' = charged \cup (S \cap Open) \/ charged' = charged
  BY DEF FinalizeIn, ChargedAfter
<1>5. (charged \cap Open = {})'
  BY <1>3, <1>4 DEF LedgerInv
<1>6. ASSUME NEW k \in Keys, NEW T \in SUBSET DOMAIN res
      PROVE  UnitsOf(res', T, k) = UnitsOf(res, T, k)
  <2>1. \A r \in T : Weight(res'[r], k) = Weight(res[r], k)
    BY <1>1, FinalizedWeight DEF LedgerInv
  <2> QED
    BY <2>1, UnitsSame
<1>7. /\ Open \ S \in SUBSET DOMAIN res /\ charged \in SUBSET DOMAIN res
      /\ charged \cup (S \cap Open) \in SUBSET DOMAIN res
  BY DEF Open, LedgerInv, TypeOK
<1>8. ASSUME NEW k \in Keys
      PROVE  /\ reserved'[k] = UnitsOf(res', Open', k)
             /\ used'[k] = UnitsOf(res', charged', k)
  <2>1. reserved'[k] = ReservedAfter(S, k) /\ used'[k] = UsedAfter(S, consume, k)
    BY DEF FinalizeIn
  <2>2. reserved'[k] = UnitsOf(res', Open', k)
    BY <1>3, <1>6, <1>7, <2>1, SettledUnits
  <2>3. CASE consume = TRUE
    <3>1. charged' = charged \cup (S \cap Open)
      BY <2>3 DEF FinalizeIn, ChargedAfter
    <3>2. UnitsOf(res', charged', k) = UnitsOf(res, charged \cup (S \cap Open), k)
      BY <1>6, <1>7, <3>1
    <3>3. used'[k] = UnitsOf(res, charged \cup (S \cap Open), k)
      BY <2>1, <2>3, SettledUnits
    <3> QED
      BY <2>2, <3>2, <3>3
  <2>4. CASE consume = FALSE
    <3>1. charged' = charged
      BY <2>4 DEF FinalizeIn, ChargedAfter
    <3> QED
      BY <1>6, <1>7, <2>1, <2>2, <2>4, <3>1, SettledUnits
  <2> QED
    BY <2>3, <2>4
<1> QED
  BY <1>5, <1>8 DEF CountersMatch

(* reserve(), its sweep included, keeps them in agreement too. *)
LEMMA ReserveLedger ==
  ASSUME LedgerInv, NEW c \in DOMAIN call, NEW at \in Times, Reserve(c, at)
  PROVE  CountersMatch' /\ (charged \cap Open = {})'
<1> DEFINE S == Stale(c, at)
           r == call[c].req
           x == NewReservation(c, at)
<1>1. r \notin DOMAIN res
  BY Zenon DEF Reserve, Admissible, IsNew
<1>2. x \in Reservation /\ x.status = "RESERVED"
  BY NewReservationType DEF NewReservation, LedgerInv
<1>3. res' = With(Finalized(S, "INTERRUPTED"), r, x)
  BY Zenon DEF Reserve
<1> HIDE DEF S, r, x
<1>4. DOMAIN Finalized(S, "INTERRUPTED") = DOMAIN res
  BY DEF Finalized
<1>5. /\ DOMAIN res' = DOMAIN res \cup {r}
      /\ res'[r] = x
      /\ \A q \in DOMAIN res : res'[q] = Finalized(S, "INTERRUPTED")[q]
  BY <1>1, <1>3, <1>4 DEF With
<1>6. \A q \in DOMAIN res :
        res'[q].status = "RESERVED" <=> q \in Open \ S
  BY <1>5 DEF Open, Finalized, LedgerInv, TypeOK, Reservation
<1>7. Open' = (Open \ S) \cup {r}
  BY <1>2, <1>5, <1>6 DEF Open
<1>8. charged' = charged \cup (S \cap Open)
  BY DEF Reserve, ChargedAfter, S
<1>9. charged' \subseteq DOMAIN res /\ Open \ S \subseteq DOMAIN res
  BY <1>8 DEF Open, LedgerInv, TypeOK
<1>10. (charged \cap Open = {})'
  BY <1>1, <1>7, <1>8, <1>9 DEF LedgerInv
<1>11. ASSUME NEW k \in Keys, NEW T \in SUBSET DOMAIN res
       PROVE  UnitsOf(res', T, k) = UnitsOf(res, T, k)
  <2>1. \A q \in T : Weight(res'[q], k) = Weight(res[q], k)
    BY <1>5, FinalizedWeight DEF LedgerInv
  <2> QED
    BY <2>1, UnitsSame
<1>12. ASSUME NEW k \in Keys
       PROVE  /\ reserved'[k] = UnitsOf(res', Open', k)
              /\ used'[k] = UnitsOf(res', charged', k)
  <2>1. /\ reserved'[k] = ReservedAfter(S, k) + Weight(x, k)
        /\ used'[k] = UsedAfter(S, TRUE, k)
    BY DEF Reserve, S, x
  <2>2. UnitsOf(res', {r}, k) = Weight(x, k)
    BY <1>2, <1>5, WeightType, UnitsSingle
  <2>3. IsFiniteSet(Open \ S) /\ IsFiniteSet({r}) /\ (Open \ S) \cap {r} = {}
    BY <1>1, <1>9, LedgerFinite, FS_Singleton DEF LedgerInv
  <2>4. UnitsOf(res', Open', k) = UnitsOf(res', Open \ S, k) + UnitsOf(res', {r}, k)
    BY <1>7, <2>3, UnitsUnion
  <2>5. /\ UnitsOf(res', Open \ S, k) = UnitsOf(res, Open \ S, k)
        /\ UnitsOf(res', charged', k) = UnitsOf(res, charged', k)
    BY <1>9, <1>11
  <2>6. /\ ReservedAfter(S, k) = UnitsOf(res, Open \ S, k)
        /\ UsedAfter(S, TRUE, k) = UnitsOf(res, charged', k)
    BY <1>8, SettledUnits
  <2> QED
    BY <2>1, <2>2, <2>4, <2>5, <2>6
<1> QED
  BY <1>10, <1>12 DEF CountersMatch

LEMMA LedgerNext == LedgerInv /\ [Next]_vars => LedgerInv'
<1> SUFFICES ASSUME LedgerInv, [Next]_vars PROVE LedgerInv'
  OBVIOUS
<1>1. TypeOK'
  BY TypeNext DEF LedgerInv
<1>2. ASSUME NEW c \in DOMAIN call, NEW at \in Times, Reserve(c, at)
      PROVE  LedgerInv'
  BY <1>1, <1>2, ReserveLedger DEF LedgerInv
<1>3. ASSUME NEW c \in DOMAIN call, NEW s \in Results, NEW consume \in BOOLEAN,
             Finish(c, s, consume)
      PROVE  LedgerInv'
  <2>1. s \in Final /\ FinalizeIn({call[c].req}, s, consume)
    BY <1>3, SetAssumption DEF Finish, Final
  <2> QED
    BY <1>1, <2>1, FinalizeInLedger DEF LedgerInv
<1>4. ASSUME NEW w \in Workers, NEW r \in batch[w], Reap(w, r)
      PROVE  LedgerInv'
  <2>1. "INTERRUPTED" \in Final /\ FinalizeIn({r}, "INTERRUPTED", TRUE)
    BY <1>4 DEF Reap, Final
  <2> QED
    BY <1>1, <2>1, FinalizeInLedger DEF LedgerInv
<1>5. ASSUME UNCHANGED ledger PROVE LedgerInv'
  BY <1>1, <1>5 DEF LedgerInv, CountersMatch, Open, UnitsOf
<1>6. ASSUME NEW c \in Calls, NEW w \in Workers, NEW r \in Requests,
             NEW u \in Users, NEW p \in Policies, Submit(c, w, r, u, p)
      PROVE  UNCHANGED ledger
  BY <1>6 DEF Submit
<1>7. ASSUME NEW c \in DOMAIN call,
             CreateMessage(c) \/ TxFails(c) \/ \E at \in Times : Reject(c, at)
      PROVE  UNCHANGED ledger
  BY <1>7 DEF CreateMessage, TxFails, Reject
<1>8. ASSUME NEW r \in Deletable, DeleteMessage(r)
      PROVE  UNCHANGED ledger
  BY <1>8 DEF DeleteMessage
<1>9. ASSUME NEW w \in Workers, Scan(w) \/ ReapFails(w) \/ Crash(w)
      PROVE  UNCHANGED ledger
  BY <1>9 DEF Scan, ReapFails, Crash
<1>10. ASSUME NEW u \in Users, NEW pl \in Plans, ChangePlan(u, pl)
       PROVE  UNCHANGED ledger
  BY <1>10 DEF ChangePlan
<1>11. ASSUME Tick \/ UNCHANGED vars
       PROVE  UNCHANGED ledger
  BY <1>11 DEF Tick
<1> HIDE DEF vars, ledger
<1> QED
  BY <1>2, <1>3, <1>4, <1>5, <1>6, <1>7, <1>8, <1>9, <1>10, <1>11
     DEF Next, Admission, Ending, FinishCall, Reconciliation, Environment,
         Terminating

LEMMA LedgerInit == Init => LedgerInv
<1> SUFFICES ASSUME Init PROVE LedgerInv
  OBVIOUS
<1>1. Open = {} /\ charged = {}
  BY DEF Init, Open
<1>2. \A k \in Keys : reserved[k] = 0 /\ used[k] = 0
  BY DEF Init
<1>3. CountersMatch
  BY <1>1, <1>2, UnitsEmpty DEF CountersMatch
<1> QED
  BY <1>1, <1>3, TypeInit DEF LedgerInv

(* reserved and used always equal what is open and what was charged, for   *)
(* any number of users, requests, buckets, processes and failures.         *)
THEOREM CountersCorrect == Spec => []CountersMatch
<1>1. LedgerInv => CountersMatch
  BY DEF LedgerInv
<1> QED
  BY <1>1, LedgerInit, LedgerNext, PTL DEF Spec

----------------------------------------------------------------------------
(* Calls and their reservations, settlement, and the limits. *)

USE DEF vars, accounts, ledger

(* What finalizeIn does to the set of open reservations. *)
LEMMA FinalizeInOpen ==
  ASSUME TypeOK, NEW S, NEW s \in Final, res' = Finalized(S, s)
  PROVE  /\ DOMAIN res' = DOMAIN res
         /\ Open' = Open \ S
         /\ \A r \in DOMAIN res : /\ res'[r].expiresAt = res[r].expiresAt
                                  /\ res'[r].createdAt = res[r].createdAt
                                  /\ res'[r].user = res[r].user
         /\ \A r \in DOMAIN res \ Open : res'[r] = res[r]
<1>1. res' = Finalized(S, s) /\ DOMAIN res' = DOMAIN res
  BY DEF Finalized
<1>2. Open' = Open \ S
  BY <1>1 DEF Open, Finalized, TypeOK, Reservation, Final
<1>3. ASSUME NEW r \in DOMAIN res
      PROVE  /\ res'[r].expiresAt = res[r].expiresAt
             /\ res'[r].createdAt = res[r].createdAt
             /\ res'[r].user = res[r].user
  BY <1>1 DEF Finalized, TypeOK, Reservation
<1>4. ASSUME NEW r \in DOMAIN res \ Open
      PROVE  res'[r] = res[r]
  BY <1>1 DEF Finalized
<1> QED
  BY <1>1, <1>2, <1>3, <1>4

(* What reserve() does to the table of reservations. *)
LEMMA ReserveTable ==
  ASSUME TypeOK, NEW c \in DOMAIN call, NEW at \in Times, Reserve(c, at)
  PROVE  /\ call[c].req \notin DOMAIN res
         /\ DOMAIN res' = DOMAIN res \cup {call[c].req}
         /\ res'[call[c].req] = NewReservation(c, at)
         /\ Open' = (Open \ Stale(c, at)) \cup {call[c].req}
         /\ \A r \in DOMAIN res : /\ res'[r].expiresAt = res[r].expiresAt
                                  /\ res'[r].createdAt = res[r].createdAt
                                  /\ res'[r].user = res[r].user
         /\ \A r \in DOMAIN res \ Open : res'[r] = res[r]
<1> DEFINE S == Stale(c, at)
           q == call[c].req
           x == NewReservation(c, at)
<1>1. q \notin DOMAIN res
  BY Zenon DEF Reserve, Admissible, IsNew
<1>2. x.status = "RESERVED"
  BY DEF NewReservation
<1>3. res' = With(Finalized(S, "INTERRUPTED"), q, x)
  BY Zenon DEF Reserve
<1> HIDE DEF S, q, x
<1>4. DOMAIN Finalized(S, "INTERRUPTED") = DOMAIN res
  BY DEF Finalized
<1>5. /\ DOMAIN res' = DOMAIN res \cup {q}
      /\ res'[q] = x
      /\ \A r \in DOMAIN res : res'[r] = Finalized(S, "INTERRUPTED")[r]
  BY <1>1, <1>3, <1>4 DEF With
<1>6. \A r \in DOMAIN res : res'[r].status = "RESERVED" <=> r \in Open \ S
  BY <1>5 DEF Open, Finalized, TypeOK, Reservation
<1>7. Open' = (Open \ S) \cup {q}
  BY <1>2, <1>5, <1>6 DEF Open
<1>8. ASSUME NEW r \in DOMAIN res
      PROVE  /\ res'[r].expiresAt = res[r].expiresAt
             /\ res'[r].createdAt = res[r].createdAt
             /\ res'[r].user = res[r].user
  BY <1>5 DEF Finalized, TypeOK, Reservation
<1>9. ASSUME NEW r \in DOMAIN res \ Open
      PROVE  res'[r] = res[r]
  BY <1>5 DEF Finalized
<1> QED
  BY <1>1, <1>5, <1>7, <1>8, <1>9 DEF S, q, x

----------------------------------------------------------------------------
(* A request identifier runs at most once.  The invariant adds that the    *)
(* identifier of a live call is in the table, where IsNew finds it.        *)

CallInv ==
  /\ TypeOK
  /\ \A c \in Live : call[c].req \in DOMAIN res
  /\ OneCallPerRequest

\* Calls that end and calls that begin do not change the live ones that stay.
LEMMA LiveKept ==
  ASSUME CallInv, DOMAIN res \subseteq DOMAIN res',
         Live' \subseteq Live, \A c \in Live' : call'[c] = call[c]
  PROVE  /\ \A c \in Live' : call'[c].req \in DOMAIN res'
         /\ OneCallPerRequest'
  BY DEF CallInv, OneCallPerRequest

LEMMA LiveAfterEnd ==
  ASSUME NEW c, call' = Without(call, c)
  PROVE  Live' = Live \ {c} /\ \A d \in Live' : call'[d] = call[d]
  BY DEF Live, Without

LEMMA LiveAfterReserve ==
  ASSUME TypeOK, NEW c \in DOMAIN call, NEW at \in Times, Reserve(c, at)
  PROVE  /\ c \notin Live /\ Live' = Live \cup {c}
         /\ call'[c].req = call[c].req
         /\ call'[c].by = now + call[c].policy.maxDuration + Slack
         /\ \A d \in Live : call'[d] = call[d]
<1>1. call' = [call EXCEPT ![c].phase = "live",
                           ![c].by = now + call[c].policy.maxDuration + Slack]
  BY Zenon DEF Reserve
<1>2. call[c].phase = "ready" /\ call[c] \in Call
  BY DEF Reserve, TypeOK
<1>3. /\ DOMAIN call' = DOMAIN call
      /\ call'[c].phase = "live" /\ call'[c].req = call[c].req
      /\ call'[c].by = now + call[c].policy.maxDuration + Slack
  BY <1>1, <1>2 DEF Call
<1>4. \A d \in DOMAIN call : d # c => call'[d] = call[d]
  BY <1>1
<1> QED
  BY <1>2, <1>3, <1>4 DEF Live

\* The kinds of steps, by what they do to the calls and to the ledger.
LEMMA StepKinds ==
  ASSUME [Next]_vars
  PROVE  \/ \E c \in DOMAIN call, at \in Times : Reserve(c, at)
         \/ \E c \in DOMAIN call, s \in Results, consume \in BOOLEAN :
              Finish(c, s, consume)
         \/ \E w \in Workers : \E r \in batch[w] : Reap(w, r)
         \/ \E c \in Calls, w \in Workers, r \in Requests, u \in Users,
               p \in Policies : Submit(c, w, r, u, p)
         \/ \E c \in DOMAIN call : call' = Without(call, c) /\ UNCHANGED ledger
         \/ \E w \in Workers : Crash(w)
         \/ UNCHANGED <<call, ledger>>
<1> DEFINE G == \/ \E c \in DOMAIN call, at \in Times : Reserve(c, at)
                \/ \E c \in DOMAIN call, s \in Results, consume \in BOOLEAN :
                     Finish(c, s, consume)
                \/ \E w \in Workers : \E r \in batch[w] : Reap(w, r)
                \/ \E c \in Calls, w \in Workers, r \in Requests, u \in Users,
                      p \in Policies : Submit(c, w, r, u, p)
                \/ \E c \in DOMAIN call :
                     call' = Without(call, c) /\ UNCHANGED ledger
                \/ \E w \in Workers : Crash(w)
                \/ UNCHANGED <<call, ledger>>
<1> SUFFICES G
  OBVIOUS
<1>1. CASE Admission
  BY <1>1 DEF Admission, Reject
<1>2. CASE \E c \in DOMAIN call : CreateMessage(c)
  BY <1>2 DEF CreateMessage
<1>3. CASE Ending
  BY <1>3 DEF Ending, FinishCall, TxFails
<1>4. CASE Reconciliation
  BY <1>4 DEF Reconciliation, Scan, ReapFails
<1>5. CASE Environment
  BY <1>5 DEF Environment, DeleteMessage, ChangePlan, Tick
<1>6. CASE Terminating \/ UNCHANGED vars
  BY <1>6 DEF Terminating
<1> HIDE DEF G, vars, ledger
<1> QED
  BY <1>1, <1>2, <1>3, <1>4, <1>5, <1>6 DEF Next

\* The steps other than reserve() start no live call.
LEMMA LiveShrinks ==
  ASSUME TypeOK, [Next]_vars,
         ~ \E c \in DOMAIN call, at \in Times : Reserve(c, at)
  PROVE  Live' \subseteq Live /\ \A c \in Live' : call'[c] = call[c]
<1>1. ASSUME NEW c \in Calls, NEW w \in Workers, NEW r \in Requests,
             NEW u \in Users, NEW p \in Policies, Submit(c, w, r, u, p)
      PROVE  Live' \subseteq Live /\ \A d \in Live' : call'[d] = call[d]
  BY <1>1 DEF Submit, With, Live
<1>2. ASSUME NEW c \in DOMAIN call, call' = Without(call, c)
      PROVE  Live' \subseteq Live /\ \A d \in Live' : call'[d] = call[d]
  BY <1>2, LiveAfterEnd
<1>3. ASSUME NEW w \in Workers, Crash(w)
      PROVE  Live' \subseteq Live /\ \A d \in Live' : call'[d] = call[d]
  BY <1>3 DEF Crash, Live
<1>4. ASSUME UNCHANGED call
      PROVE  Live' \subseteq Live /\ \A d \in Live' : call'[d] = call[d]
  BY <1>4 DEF Live
<1>5. ASSUME NEW c \in DOMAIN call, NEW s \in Results, NEW consume \in BOOLEAN,
             Finish(c, s, consume)
      PROVE  Live' \subseteq Live /\ \A d \in Live' : call'[d] = call[d]
  BY <1>2, <1>5 DEF Finish
<1>6. ASSUME NEW w \in Workers, NEW r \in batch[w], Reap(w, r)
      PROVE  Live' \subseteq Live /\ \A d \in Live' : call'[d] = call[d]
  BY <1>4, <1>6 DEF Reap
<1> QED
  BY <1>1, <1>2, <1>3, <1>4, <1>5, <1>6, StepKinds

\* Reservations are never deleted.
LEMMA TableGrows ==
  ASSUME TypeOK, [Next]_vars
  PROVE  DOMAIN res \subseteq DOMAIN res'
<1>1. ASSUME NEW c \in DOMAIN call, NEW at \in Times, Reserve(c, at)
      PROVE  DOMAIN res \subseteq DOMAIN res'
  BY <1>1, ReserveTable
<1>2. ASSUME NEW S, NEW s, NEW consume, FinalizeIn(S, s, consume)
      PROVE  DOMAIN res' = DOMAIN res
  BY <1>2 DEF FinalizeIn, Finalized
<1>3. ASSUME NEW c \in DOMAIN call, NEW s \in Results, NEW consume \in BOOLEAN,
             Finish(c, s, consume)
      PROVE  DOMAIN res' = DOMAIN res
  BY <1>2, <1>3 DEF Finish
<1>4. ASSUME NEW w \in Workers, NEW r \in batch[w], Reap(w, r)
      PROVE  DOMAIN res' = DOMAIN res
  BY <1>2, <1>4 DEF Reap
<1>5. ASSUME NEW c \in Calls, NEW w \in Workers, NEW r \in Requests,
             NEW u \in Users, NEW p \in Policies, Submit(c, w, r, u, p)
      PROVE  DOMAIN res' = DOMAIN res
  BY <1>5 DEF Submit
<1>6. ASSUME NEW w \in Workers, Crash(w)
      PROVE  DOMAIN res' = DOMAIN res
  BY <1>6 DEF Crash
<1> QED
  BY <1>1, <1>3, <1>4, <1>5, <1>6, StepKinds

LEMMA CallNext == CallInv /\ [Next]_vars => CallInv'
<1> SUFFICES ASSUME CallInv, [Next]_vars PROVE CallInv'
  OBVIOUS
<1>1. TypeOK /\ TypeOK' /\ DOMAIN res \subseteq DOMAIN res'
  BY TypeNext, TableGrows DEF CallInv
<1>2. ASSUME NEW c \in DOMAIN call, NEW at \in Times, Reserve(c, at)
      PROVE  CallInv'
  <2>1. /\ call[c].req \notin DOMAIN res
        /\ DOMAIN res' = DOMAIN res \cup {call[c].req}
    BY <1>1, <1>2, ReserveTable
  <2>2. /\ Live' = Live \cup {c} /\ call'[c].req = call[c].req
        /\ \A d \in Live : call'[d] = call[d]
    BY <1>1, <1>2, LiveAfterReserve
  <2> QED
    BY <1>1, <2>1, <2>2 DEF CallInv, OneCallPerRequest
<1>3. CASE ~ \E c \in DOMAIN call, at \in Times : Reserve(c, at)
  <2>1. Live' \subseteq Live /\ \A c \in Live' : call'[c] = call[c]
    BY <1>1, <1>3, LiveShrinks
  <2> QED
    BY <1>1, <2>1, LiveKept DEF CallInv
<1> QED
  BY <1>2, <1>3

(* Two calls with the same identifier never both reach a provider, however *)
(* many processes, failures and expiries there are, and whatever Grace is. *)
THEOREM OneCall == Spec => []OneCallPerRequest
<1>1. Init => CallInv
  BY TypeInit DEF Init, CallInv, OneCallPerRequest, Live
<1>2. CallInv => OneCallPerRequest
  BY DEF CallInv
<1> QED
  BY <1>1, <1>2, CallNext, PTL DEF Spec

----------------------------------------------------------------------------
(* A live call keeps its reservation.  The invariant bounds the time a call *)
(* may run by the time at which its reservation expires, and says that the *)
(* timers hold only reservations that have expired.                        *)

GraceSuffices == LockWait + Slack <= Grace

RunInv ==
  /\ CallInv
  /\ \A c \in Live : /\ call[c].req \in Open
                     /\ now <= call[c].by
                     /\ call[c].by <= res[call[c].req].expiresAt
  /\ \A w \in Workers : \A r \in batch[w] : res[r].expiresAt < now

LEMMA ClockSteps ==
  ASSUME [Next]_vars
  PROVE  UNCHANGED now \/ Tick
<1>1. CASE Admission
  BY <1>1 DEF Admission, Submit, Reserve, Reject
<1>2. CASE \E c \in DOMAIN call : CreateMessage(c)
  BY <1>2 DEF CreateMessage
<1>3. CASE Ending
  BY <1>3 DEF Ending, FinishCall, Finish, TxFails
<1>4. CASE Reconciliation
  BY <1>4 DEF Reconciliation, Scan, Reap, ReapFails
<1>5. CASE Environment
  BY <1>5 DEF Environment, DeleteMessage, ChangePlan, Crash
<1>6. CASE Terminating \/ UNCHANGED vars
  BY <1>6 DEF Terminating
<1> HIDE DEF vars
<1> QED
  BY <1>1, <1>2, <1>3, <1>4, <1>5, <1>6 DEF Next

\* A timer drops reservations, or picks expired ones.
LEMMA BatchSteps ==
  ASSUME TypeOK, [Next]_vars, NEW v \in Workers
  PROVE  \/ batch'[v] \subseteq batch[v]
         \/ batch'[v] \subseteq ExpiredAt(now) /\ UNCHANGED <<now, res>>
<1> DEFINE G == \/ batch'[v] \subseteq batch[v]
                \/ batch'[v] \subseteq ExpiredAt(now) /\ UNCHANGED <<now, res>>
<1> SUFFICES G
  OBVIOUS
<1>0. batch \in [Workers -> SUBSET DOMAIN res]
  BY DEF TypeOK
<1>1. CASE Admission
  BY <1>1 DEF Admission, Submit, Reserve, Reject
<1>2. CASE \E c \in DOMAIN call : CreateMessage(c)
  BY <1>2 DEF CreateMessage
<1>3. CASE Ending
  BY <1>3 DEF Ending, FinishCall, Finish, TxFails
<1>4. CASE Reconciliation
  <2>1. ASSUME NEW w \in Workers, Scan(w) PROVE G
    BY <1>0, <2>1 DEF Scan
  <2>2. ASSUME NEW w \in Workers, NEW r \in batch[w], Reap(w, r) PROVE G
    BY <1>0, <2>2 DEF Reap
  <2>3. ASSUME NEW w \in Workers, ReapFails(w) PROVE G
    BY <1>0, <2>3 DEF ReapFails
  <2> QED
    BY <1>4, <2>1, <2>2, <2>3 DEF Reconciliation
<1>5. CASE Environment
  <2>1. ASSUME NEW w \in Workers, Crash(w) PROVE G
    BY <1>0, <2>1 DEF Crash
  <2> QED
    BY <1>5, <2>1 DEF Environment, DeleteMessage, ChangePlan, Tick
<1>6. CASE Terminating \/ UNCHANGED vars
  BY <1>6 DEF Terminating
<1> HIDE DEF G, vars
<1> QED
  BY <1>1, <1>2, <1>3, <1>4, <1>5, <1>6 DEF Next

\* A row of the table keeps its times and its user.
LEMMA RowsKept ==
  ASSUME TypeOK, [Next]_vars, NEW r \in DOMAIN res
  PROVE  /\ r \in DOMAIN res'
         /\ res'[r].expiresAt = res[r].expiresAt
         /\ res'[r].createdAt = res[r].createdAt
         /\ res'[r].user = res[r].user
         /\ r \notin Open => res'[r] = res[r]
<1> DEFINE G == /\ r \in DOMAIN res'
                /\ res'[r].expiresAt = res[r].expiresAt
                /\ res'[r].createdAt = res[r].createdAt
                /\ res'[r].user = res[r].user
                /\ r \notin Open => res'[r] = res[r]
<1> SUFFICES G
  OBVIOUS
<1>1. ASSUME NEW c \in DOMAIN call, NEW at \in Times, Reserve(c, at) PROVE G
  BY <1>1, ReserveTable
<1>2. ASSUME NEW S, NEW s \in Final, res' = Finalized(S, s)
      PROVE  G
  BY <1>2, FinalizeInOpen
<1>3. ASSUME NEW c \in DOMAIN call, NEW s \in Results, NEW consume \in BOOLEAN,
             Finish(c, s, consume)
      PROVE  G
  <2>1. s \in Final /\ res' = Finalized({call[c].req}, s)
    BY <1>3, SetAssumption DEF Finish, FinalizeIn, Final
  <2> QED
    BY <1>2, <2>1
<1>4. ASSUME NEW w \in Workers, NEW q \in batch[w], Reap(w, q) PROVE G
  <2>1. "INTERRUPTED" \in Final /\ res' = Finalized({q}, "INTERRUPTED")
    BY <1>4 DEF Reap, FinalizeIn, Final
  <2> QED
    BY <1>2, <2>1
<1>5. ASSUME res' = res PROVE G
  BY <1>5
<1>6. ASSUME NEW c \in Calls, NEW w \in Workers, NEW q \in Requests,
             NEW u \in Users, NEW p \in Policies, Submit(c, w, q, u, p)
      PROVE  G
  BY <1>5, <1>6 DEF Submit
<1>7. ASSUME NEW w \in Workers, Crash(w) PROVE G
  BY <1>5, <1>7 DEF Crash
<1> HIDE DEF G
<1> QED
  BY <1>1, <1>3, <1>4, <1>5, <1>6, <1>7, StepKinds

LEMMA RunNext == GraceSuffices /\ RunInv /\ [Next]_vars => RunInv'
<1> SUFFICES ASSUME GraceSuffices, RunInv, [Next]_vars PROVE RunInv'
  OBVIOUS
<1>1. CallInv /\ CallInv' /\ TypeOK /\ TypeOK'
  BY CallNext DEF RunInv, CallInv
<1>2. now \in Nat /\ now' \in Nat /\ now <= now'
  BY <1>1, ClockSteps, NumberAssumption DEF TypeOK, Tick
<1>3. (\A w \in Workers : \A r \in batch[w] : res[r].expiresAt < now)'
  <2> SUFFICES ASSUME NEW w \in Workers, NEW r \in batch'[w]
               PROVE  res'[r].expiresAt < now'
    OBVIOUS
  <2>1. CASE r \in batch[w]
    <3>1. r \in DOMAIN res /\ res[r].expiresAt < now /\ res[r].expiresAt \in Nat
      BY <1>1, <2>1 DEF RunInv, TypeOK, Reservation
    <3> QED
      BY <1>1, <1>2, <3>1, RowsKept
  <2>2. CASE r \notin batch[w]
    <3>1. r \in ExpiredAt(now) /\ UNCHANGED <<now, res>>
      BY <1>1, <2>2, BatchSteps
    <3> QED
      BY <3>1 DEF ExpiredAt
  <2> QED
    BY <2>1, <2>2
<1> DEFINE Runs(c) == /\ call[c].req \in Open
                      /\ now <= call[c].by
                      /\ call[c].by <= res[call[c].req].expiresAt
<1>4. ASSUME NEW c \in Live, c \in Live', call'[c] = call[c], call[c].req \in Open'
      PROVE  Runs(c)'
  <2>1. Runs(c) /\ call[c].req \in DOMAIN res
    BY <1>1 DEF RunInv, CallInv
  <2>2. call[c].by \in Nat
    BY <1>1 DEF TypeOK, Call, Live
  <2>3. now' <= call[c].by
    BY <1>2, <2>1, <2>2, ClockSteps DEF Tick
  <2> QED
    BY <1>1, <1>4, <2>1, <2>3, RowsKept
<1>5. ASSUME NEW c \in DOMAIN call, NEW at \in Times, Reserve(c, at)
      PROVE  \A d \in Live' : Runs(d)'
  <2>1. /\ Live' = Live \cup {c} /\ call'[c].req = call[c].req
        /\ call'[c].by = now + call[c].policy.maxDuration + Slack
        /\ \A d \in Live : call'[d] = call[d]
    BY <1>1, <1>5, LiveAfterReserve
  <2>2. /\ Open' = (Open \ Stale(c, at)) \cup {call[c].req}
        /\ res'[call[c].req] = NewReservation(c, at)
    BY <1>1, <1>5, ReserveTable
  <2>3. now' = now
    BY <1>5, Zenon DEF Reserve
  <2>4. at \in Nat /\ at <= now /\ now - at <= LockWait
    BY <1>2 DEF Times
  <2>5. call[c].policy.maxDuration \in Nat
    BY <1>1, SetAssumption DEF TypeOK, Call, Policy
  <2>6. Runs(c)'
    <3>1. res'[call[c].req].expiresAt = at + call[c].policy.maxDuration + Grace
      BY <2>2 DEF NewReservation, Expiry
    <3>2. now + call[c].policy.maxDuration + Slack
            <= at + call[c].policy.maxDuration + Grace
      BY <1>2, <2>4, <2>5, NumberAssumption DEF GraceSuffices
    <3>3. now <= now + call[c].policy.maxDuration + Slack
      BY <1>2, <2>5, NumberAssumption
    <3> QED
      BY <2>1, <2>2, <2>3, <3>1, <3>2, <3>3
  <2>7. ASSUME NEW d \in Live
        PROVE  Runs(d)'
    <3>1. Runs(d)
      BY DEF RunInv
    <3>2. call[d].by \in Nat /\ res[call[d].req].expiresAt \in Nat
      BY <1>1, <3>1 DEF TypeOK, Call, Live, Open, Reservation
    <3>3. call[d].req \notin Stale(c, at)
      BY <1>2, <2>4, <3>1, <3>2 DEF Stale, ExpiredAt
    <3> QED
      BY <1>4, <2>1, <2>2, <3>1, <3>3
  <2> QED
    BY <2>1, <2>6, <2>7
<1>6. ASSUME NEW c \in DOMAIN call, NEW s \in Results, NEW consume \in BOOLEAN,
             Finish(c, s, consume)
      PROVE  \A d \in Live' : Runs(d)'
  <2>1. /\ s \in Final /\ res' = Finalized({call[c].req}, s)
        /\ call' = Without(call, c) /\ c \in Live
    BY <1>6, SetAssumption DEF Finish, FinalizeIn, Final, Live
  <2>2. Open' = Open \ {call[c].req}
    BY <1>1, <2>1, FinalizeInOpen
  <2>3. Live' = Live \ {c} /\ \A d \in Live' : call'[d] = call[d]
    BY <2>1, LiveAfterEnd
  <2>4. \A d \in Live' : call[d].req # call[c].req /\ call[d].req \in Open
    BY <1>1, <2>1, <2>3 DEF CallInv, OneCallPerRequest, RunInv
  <2> QED
    BY <1>4, <2>2, <2>3, <2>4
<1>7. ASSUME NEW w \in Workers, NEW r \in batch[w], Reap(w, r)
      PROVE  \A d \in Live' : Runs(d)'
  <2>1. "INTERRUPTED" \in Final /\ res' = Finalized({r}, "INTERRUPTED")
    BY <1>7 DEF Reap, FinalizeIn, Final
  <2>2. Open' = Open \ {r}
    BY <1>1, <2>1, FinalizeInOpen
  <2>3. Live' = Live /\ call' = call
    BY <1>7 DEF Reap, Live
  <2>4. r \in DOMAIN res /\ res[r].expiresAt < now /\ res[r].expiresAt \in Nat
    BY <1>1 DEF RunInv, TypeOK, Reservation
  <2>5. ASSUME NEW d \in Live
        PROVE  call[d].req \in Open /\ call[d].req # r
    BY <1>1, <1>2, <2>4 DEF RunInv, TypeOK, Call, Live
  <2> QED
    BY <1>4, <2>2, <2>3, <2>5
<1>8. ASSUME UNCHANGED ledger, ~ \E c \in DOMAIN call, at \in Times : Reserve(c, at)
      PROVE  \A d \in Live' : Runs(d)'
  <2>1. Live' \subseteq Live /\ \A d \in Live' : call'[d] = call[d]
    BY <1>1, <1>8, LiveShrinks
  <2>2. Open' = Open
    BY <1>8 DEF Open
  <2> QED
    BY <1>4, <2>1, <2>2 DEF RunInv
<1>9. \A d \in Live' : Runs(d)'
  <2>1. ASSUME NEW c \in Calls, NEW w \in Workers, NEW q \in Requests,
               NEW u \in Users, NEW p \in Policies, Submit(c, w, q, u, p)
        PROVE  UNCHANGED ledger
    BY <2>1 DEF Submit
  <2>2. ASSUME NEW w \in Workers, Crash(w)
        PROVE  UNCHANGED ledger
    BY <2>2 DEF Crash
  <2> DEFINE AllRun == \A d \in Live' : Runs(d)'
  <2>3. ASSUME NEW c \in DOMAIN call, NEW at \in Times, Reserve(c, at)
        PROVE  AllRun
    BY <1>5, <2>3
  <2>4. ASSUME NEW c \in DOMAIN call, NEW s \in Results, NEW consume \in BOOLEAN,
               Finish(c, s, consume)
        PROVE  AllRun
    BY <1>6, <2>4
  <2>5. ASSUME NEW w \in Workers, NEW r \in batch[w], Reap(w, r)
        PROVE  AllRun
    BY <1>7, <2>5
  <2>6. ASSUME UNCHANGED ledger
        PROVE  (\E c \in DOMAIN call, at \in Times : Reserve(c, at)) \/ AllRun
    BY <1>8, <2>6
  <2> HIDE DEF ledger, AllRun
  <2>7. AllRun
    BY <2>1, <2>2, <2>3, <2>4, <2>5, <2>6, StepKinds
  <2> QED
    BY <2>7 DEF AllRun
<1> QED
  BY <1>1, <1>3, <1>9 DEF RunInv

(* If the grace covers the longest wait for the user's row and the time    *)
(* from a call's deadline to its final transaction, neither the sweep of   *)
(* reserve() nor any timer ever settles the reservation of a running call. *)
THEOREM LiveCallsKept ==
  ASSUME GraceSuffices
  PROVE  Spec => []LiveCallsKeepReservation
<1>1. Init => RunInv
  <2> SUFFICES ASSUME Init PROVE RunInv
    OBVIOUS
  <2>1. Live = {} /\ \A w \in Workers : batch[w] = {}
    BY DEF Init, Live
  <2> QED
    BY <2>1, TypeInit DEF RunInv, CallInv, OneCallPerRequest
<1>2. RunInv => LiveCallsKeepReservation
  BY DEF RunInv, LiveCallsKeepReservation
<1>3. RunInv /\ [Next]_vars => RunInv'
  BY RunNext
<1> QED
  BY <1>1, <1>2, <1>3, PTL DEF Spec

----------------------------------------------------------------------------
(* No step settles a reservation that is settled, or takes back a charge,  *)
(* also when Grace is too short and a call finishes after a timer.         *)

LEMMA ChargesKept ==
  ASSUME TypeOK, [Next]_vars, NEW r \in DOMAIN res \ Open
  PROVE  r \in charged <=> r \in charged'
<1> DEFINE G == r \in charged <=> r \in charged'
<1> SUFFICES G
  OBVIOUS
<1>1. ASSUME NEW S, NEW consume, charged' = ChargedAfter(S, consume) PROVE G
  BY <1>1 DEF ChargedAfter
<1>2. ASSUME NEW c \in DOMAIN call, NEW at \in Times, Reserve(c, at) PROVE G
  BY <1>1, <1>2 DEF Reserve
<1>3. ASSUME NEW c \in DOMAIN call, NEW s \in Results, NEW consume \in BOOLEAN,
             Finish(c, s, consume)
      PROVE  G
  BY <1>3 DEF Finish, FinalizeIn, ChargedAfter
<1>4. ASSUME NEW w \in Workers, NEW q \in batch[w], Reap(w, q) PROVE G
  BY <1>4 DEF Reap, FinalizeIn, ChargedAfter
<1>5. ASSUME UNCHANGED ledger PROVE G
  BY <1>5
<1>6. ASSUME NEW c \in Calls, NEW w \in Workers, NEW q \in Requests,
             NEW u \in Users, NEW p \in Policies, Submit(c, w, q, u, p)
      PROVE  G
  BY <1>5, <1>6 DEF Submit
<1>7. ASSUME NEW w \in Workers, Crash(w) PROVE G
  BY <1>5, <1>7 DEF Crash
<1> HIDE DEF G, ledger
<1> QED
  BY <1>2, <1>3, <1>4, <1>5, <1>6, <1>7, StepKinds

(* A settled reservation never changes again, and whether it was charged   *)
(* stays as it was: a call that ends after a timer settled its reservation *)
(* is not charged twice, whatever Grace is.                                *)
THEOREM SettledForGood == Spec => SettledOnce
<1>1. TypeOK /\ [Next]_vars =>
        [/\ \A r \in DOMAIN res \ Open : r \in DOMAIN res' /\ res'[r] = res[r]
         /\ \A r \in DOMAIN res \ Open : r \in charged <=> r \in charged']_vars
  BY RowsKept, ChargesKept
<1> QED
  BY <1>1, TypeInit, TypeNext, PTL DEF Spec, SettledOnce

----------------------------------------------------------------------------
(* The limits.  A call carries a policy of a plan that its user has had.   *)

PlansHeld ==
  /\ \A u \in Users : planOf[u] \in everHeld[u]
  /\ \A c \in DOMAIN call : call[c].policy.plan \in everHeld[call[c].user]

\* Plans once held stay in the history.
LEMMA HeldGrows ==
  ASSUME TypeOK, [Next]_vars, NEW u \in Users
  PROVE  /\ everHeld[u] \subseteq everHeld'[u]
         /\ planOf[u] \in everHeld[u] => planOf'[u] \in everHeld'[u]
<1> DEFINE G == /\ everHeld[u] \subseteq everHeld'[u]
                /\ planOf[u] \in everHeld[u] => planOf'[u] \in everHeld'[u]
<1> SUFFICES G
  OBVIOUS
<1>1. ASSUME UNCHANGED accounts PROVE G
  BY <1>1
<1>2. CASE Admission
  BY <1>1, <1>2 DEF Admission, Submit, Reserve, Reject
<1>3. CASE \E c \in DOMAIN call : CreateMessage(c)
  BY <1>1, <1>3 DEF CreateMessage
<1>4. CASE Ending
  BY <1>1, <1>4 DEF Ending, FinishCall, Finish, TxFails
<1>5. CASE Reconciliation
  BY <1>1, <1>5 DEF Reconciliation, Scan, Reap, ReapFails
<1>6. CASE Environment
  <2>1. ASSUME NEW v \in Users, NEW pl \in Plans, ChangePlan(v, pl) PROVE G
    BY <2>1 DEF ChangePlan, TypeOK
  <2> QED
    BY <1>1, <1>6, <2>1 DEF Environment, DeleteMessage, Crash, Tick
<1>7. CASE Terminating \/ UNCHANGED vars
  BY <1>1, <1>7 DEF Terminating
<1> HIDE DEF G, vars
<1> QED
  BY <1>2, <1>3, <1>4, <1>5, <1>6, <1>7 DEF Next

LEMMA PlansHeldNext ==
  ASSUME TypeOK, PlansHeld, [Next]_vars
  PROVE  PlansHeld'
<1>1. \A u \in Users : planOf'[u] \in everHeld'[u]
  BY HeldGrows DEF PlansHeld
<1> DEFINE Held(c) == call[c].policy.plan \in everHeld[call[c].user]
           G == \A c \in DOMAIN call' : Held(c)'
<1>2. ASSUME NEW c \in DOMAIN call, call'[c].policy = call[c].policy,
             call'[c].user = call[c].user
      PROVE  Held(c)'
  <2>1. Held(c) /\ call[c].user \in Users
    BY DEF PlansHeld, TypeOK, Call
  <2> QED
    BY <1>2, <2>1, HeldGrows
<1>3. ASSUME DOMAIN call' \subseteq DOMAIN call,
             \A c \in DOMAIN call' : call'[c] = call[c]
      PROVE  G
  BY <1>2, <1>3
<1>4. ASSUME NEW c \in Calls, NEW w \in Workers, NEW r \in Requests,
             NEW u \in Users, NEW p \in Policies, Submit(c, w, r, u, p)
      PROVE  G
  <2>1. /\ DOMAIN call' = DOMAIN call \cup {c}
        /\ call'[c].policy = p /\ call'[c].user = u
        /\ \A d \in DOMAIN call : call'[d] = call[d]
    BY <1>4 DEF Submit, With
  <2>2. Held(c)'
    <3>1. p.plan = planOf[u]
      BY <1>4 DEF Submit
    <3> QED
      BY <2>1, <3>1, HeldGrows DEF PlansHeld
  <2> QED
    BY <1>2, <2>1, <2>2
<1>5. ASSUME NEW c \in DOMAIN call, NEW at \in Times, Reserve(c, at)
      PROVE  G
  <2>1. call' = [call EXCEPT ![c].phase = "live",
                             ![c].by = now + call[c].policy.maxDuration + Slack]
    BY <1>5, Zenon DEF Reserve
  <2>2. DOMAIN call' = DOMAIN call
    BY <2>1
  <2>3. ASSUME NEW d \in DOMAIN call
        PROVE  call'[d].policy = call[d].policy /\ call'[d].user = call[d].user
    BY <2>1 DEF TypeOK, Call
  <2> QED
    BY <1>2, <2>2, <2>3
<1>6. ASSUME NEW c \in DOMAIN call, call' = Without(call, c)
      PROVE  G
  BY <1>3, <1>6 DEF Without
<1>7. ASSUME NEW c \in DOMAIN call, NEW s \in Results, NEW consume \in BOOLEAN,
             Finish(c, s, consume)
      PROVE  G
  BY <1>6, <1>7 DEF Finish
<1>8. ASSUME NEW w \in Workers, Crash(w)
      PROVE  G
  BY <1>3, <1>8 DEF Crash
<1>9. ASSUME UNCHANGED call
      PROVE  G
  BY <1>3, <1>9
<1>10. ASSUME NEW w \in Workers, NEW r \in batch[w], Reap(w, r)
       PROVE  G
  BY <1>9, <1>10 DEF Reap
<1>11. G
  <2> HIDE DEF G
  <2> QED
    BY <1>4, <1>5, <1>6, <1>7, <1>8, <1>9, <1>10, StepKinds
<1> QED
  BY <1>1, <1>11 DEF PlansHeld

----------------------------------------------------------------------------
(* Concurrency: only reserve() adds to a user's open reservations, and it  *)
(* counts them under the user's lock.                                      *)

LEMMA OpenShrinks ==
  ASSUME TypeOK, [Next]_vars,
         ~ \E c \in DOMAIN call, at \in Times : Reserve(c, at)
  PROVE  DOMAIN res' = DOMAIN res /\ Open' \subseteq Open
<1> DEFINE G == DOMAIN res' = DOMAIN res /\ Open' \subseteq Open
<1> SUFFICES G
  OBVIOUS
<1>1. ASSUME NEW S, NEW s \in Final, res' = Finalized(S, s) PROVE G
  BY <1>1, FinalizeInOpen
<1>2. ASSUME NEW c \in DOMAIN call, NEW s \in Results, NEW consume \in BOOLEAN,
             Finish(c, s, consume)
      PROVE  G
  <2>1. s \in Final /\ res' = Finalized({call[c].req}, s)
    BY <1>2, SetAssumption DEF Finish, FinalizeIn, Final
  <2> QED
    BY <1>1, <2>1
<1>3. ASSUME NEW w \in Workers, NEW q \in batch[w], Reap(w, q) PROVE G
  <2>1. "INTERRUPTED" \in Final /\ res' = Finalized({q}, "INTERRUPTED")
    BY <1>3 DEF Reap, FinalizeIn, Final
  <2> QED
    BY <1>1, <2>1
<1>4. ASSUME UNCHANGED ledger PROVE G
  BY <1>4 DEF Open
<1>5. ASSUME NEW c \in Calls, NEW w \in Workers, NEW q \in Requests,
             NEW u \in Users, NEW p \in Policies, Submit(c, w, q, u, p)
      PROVE  G
  BY <1>4, <1>5 DEF Submit
<1>6. ASSUME NEW w \in Workers, Crash(w) PROVE G
  BY <1>4, <1>6 DEF Crash
<1> HIDE DEF G, ledger
<1> QED
  BY <1>2, <1>3, <1>4, <1>5, <1>6, StepKinds

\* What reserve() has checked when it admits call c.
LEMMA Admitted ==
  ASSUME TypeOK, NEW c \in DOMAIN call, NEW at \in Times, Reserve(c, at)
  PROVE  /\ call[c].user \in Users /\ call[c].policy \in Policies
         /\ NewReservation(c, at).user = call[c].user
         /\ NewReservation(c, at).createdAt = now
         /\ Cardinality(Active(c, at)) < call[c].policy.concurrency
         /\ Cardinality(Recent(c, at)) < call[c].policy.ratePerMinute
         /\ call[c].policy.concurrency \in Nat
         /\ call[c].policy.ratePerMinute \in Nat
         /\ Stale(c, at) \subseteq OpenOf(call[c].user)
<1>1. call[c].user \in Users /\ call[c].policy \in Policies
  BY DEF TypeOK, Call
<1>2. call[c].policy.concurrency \in Nat /\ call[c].policy.ratePerMinute \in Nat
  BY <1>1, SetAssumption DEF Policy
<1>3. /\ Cardinality(Active(c, at)) < call[c].policy.concurrency
      /\ Cardinality(Recent(c, at)) < call[c].policy.ratePerMinute
  BY Zenon DEF Reserve, Admissible
<1> QED
  BY <1>1, <1>2, <1>3 DEF NewReservation, Stale

LEMMA ConcurrencyNext ==
  TypeOK /\ PlansHeld /\ ConcurrencyBound /\ [Next]_vars => ConcurrencyBound'
<1> SUFFICES ASSUME TypeOK, PlansHeld, ConcurrencyBound, [Next]_vars,
                    NEW u \in Users, OpenOf(u)' # {}
             PROVE  \E p \in Policies : /\ p.plan \in everHeld'[u]
                                        /\ Cardinality(OpenOf(u)') <= p.concurrency
  BY DEF ConcurrencyBound
<1>1. everHeld[u] \subseteq everHeld'[u]
  BY HeldGrows
<1>2. IsFiniteSet(OpenOf(u))
  BY LedgerFinite, FS_Subset DEF OpenOf
<1>3. ASSUME OpenOf(u)' \subseteq OpenOf(u)
      PROVE  \E p \in Policies : /\ p.plan \in everHeld'[u]
                                 /\ Cardinality(OpenOf(u)') <= p.concurrency
  <2>1. PICK p \in Policies : /\ p.plan \in everHeld[u]
                              /\ Cardinality(OpenOf(u)) <= p.concurrency
    BY <1>3 DEF ConcurrencyBound
  <2>2. /\ Cardinality(OpenOf(u)') <= Cardinality(OpenOf(u))
        /\ Cardinality(OpenOf(u)') \in Nat /\ Cardinality(OpenOf(u)) \in Nat
    <3>1. IsFiniteSet(OpenOf(u)')
      BY <1>2, <1>3, FS_Subset
    <3> QED
      BY <1>2, <1>3, <3>1, FS_Subset, FS_CardinalityType
  <2>3. p.concurrency \in Nat
    BY SetAssumption DEF Policy
  <2> QED
    BY <1>1, <2>1, <2>2, <2>3
<1>4. ASSUME NEW c \in DOMAIN call, NEW at \in Times, Reserve(c, at)
      PROVE  \E p \in Policies : /\ p.plan \in everHeld'[u]
                                 /\ Cardinality(OpenOf(u)') <= p.concurrency
  <2>1. /\ Open' = (Open \ Stale(c, at)) \cup {call[c].req}
        /\ res'[call[c].req].user = call[c].user
        /\ \A r \in DOMAIN res : res'[r].user = res[r].user
        /\ call[c].req \notin DOMAIN res
        /\ Open \subseteq DOMAIN res
    <3>1. Open \subseteq DOMAIN res
      BY DEF Open
    <3>2. res'[call[c].req].user = call[c].user
      <4>1. res'[call[c].req] = NewReservation(c, at)
        BY <1>4, ReserveTable
      <4> QED
        BY <1>4, <4>1, Admitted
    <3>3. Open' = (Open \ Stale(c, at)) \cup {call[c].req}
      BY <1>4, ReserveTable
    <3>4. /\ call[c].req \notin DOMAIN res
          /\ \A r \in DOMAIN res : res'[r].user = res[r].user
      BY <1>4, ReserveTable
    <3> QED
      BY <3>1, <3>2, <3>3, <3>4
  <2>2. CASE u # call[c].user
    BY <1>3, <2>1, <2>2 DEF OpenOf
  <2>3. CASE u = call[c].user
    <3>1. OpenOf(u)' = Active(c, at) \cup {call[c].req}
      BY <2>1, <2>3 DEF OpenOf, Active
    <3>2. Active(c, at) \subseteq OpenOf(u)
      BY <2>3 DEF Active
    <3>3. IsFiniteSet(Active(c, at))
      BY <1>2, <3>2, FS_Subset
    <3>4. call[c].req \notin Active(c, at)
      BY <2>1, <3>2 DEF OpenOf, Open
    <3>5. Cardinality(OpenOf(u)') = Cardinality(Active(c, at)) + 1
      BY <3>1, <3>3, <3>4, FS_AddElement
    <3>6. Cardinality(OpenOf(u)') <= call[c].policy.concurrency
      BY <1>4, <3>3, <3>5, Admitted, FS_CardinalityType
    <3>7. call[c].policy \in Policies /\ call[c].policy.plan \in everHeld'[u]
      BY <1>1, <1>4, <2>3, Admitted DEF PlansHeld
    <3> QED
      BY <3>6, <3>7
  <2> QED
    BY <2>2, <2>3
<1>5. CASE ~ \E c \in DOMAIN call, at \in Times : Reserve(c, at)
  <2>1. Open' \subseteq Open /\ \A r \in Open : res'[r].user = res[r].user
    BY <1>5, OpenShrinks, RowsKept DEF Open
  <2> QED
    BY <1>3, <2>1 DEF OpenOf
<1> QED
  BY <1>4, <1>5

LEMMA LimitsInit == Init => TypeOK /\ PlansHeld /\ ConcurrencyBound /\ RateBound
<1> SUFFICES ASSUME Init PROVE PlansHeld /\ ConcurrencyBound /\ RateBound
  BY TypeInit
<1>1. DOMAIN res = {} /\ DOMAIN call = {} /\ PlansHeld
  BY DEF Init, PlansHeld
<1>2. \A u \in Users : OpenOf(u) = {}
  BY <1>1 DEF OpenOf, Open
<1>3. \A u \in Users, t \in 0..MaxTime : CreatedIn(u, t) = {}
  BY <1>1 DEF CreatedIn
<1> QED
  BY <1>1, <1>2, <1>3 DEF ConcurrencyBound, RateBound

(* A user never has more open reservations than a plan of theirs allows,   *)
(* although the policy was read before the lock was taken.                 *)
THEOREM ConcurrencyKept == Spec => []ConcurrencyBound
<1> DEFINE I == TypeOK /\ PlansHeld /\ ConcurrencyBound
<1>1. Init => I
  BY LimitsInit
<1>2. I /\ [Next]_vars => I'
  BY TypeNext, PlansHeldNext, ConcurrencyNext
<1>3. I => ConcurrencyBound
  OBVIOUS
<1> QED
  BY <1>1, <1>2, <1>3, PTL DEF Spec

----------------------------------------------------------------------------
(* The rate: a window that ends now lies within the window of reserve(),   *)
(* which begins RateWindow before a time that is not later than now.       *)

LEMMA RateNext ==
  TypeOK /\ PlansHeld /\ RateBound /\ [Next]_vars => RateBound'
<1> SUFFICES ASSUME TypeOK, PlansHeld, RateBound, [Next]_vars,
                    NEW u \in Users, NEW t \in 0..MaxTime, CreatedIn(u, t)' # {}
             PROVE  \E p \in Policies : /\ p.plan \in everHeld'[u]
                                        /\ Cardinality(CreatedIn(u, t)') <= p.ratePerMinute
  BY DEF RateBound
<1>1. everHeld[u] \subseteq everHeld'[u]
  BY HeldGrows
<1>2. IsFiniteSet(CreatedIn(u, t))
  BY LedgerFinite, FS_Subset DEF CreatedIn
<1>3. ASSUME CreatedIn(u, t)' = CreatedIn(u, t)
      PROVE  \E p \in Policies : /\ p.plan \in everHeld'[u]
                                 /\ Cardinality(CreatedIn(u, t)') <= p.ratePerMinute
  BY <1>1, <1>3 DEF RateBound
<1>4. ASSUME NEW c \in DOMAIN call, NEW at \in Times, Reserve(c, at)
      PROVE  \E p \in Policies : /\ p.plan \in everHeld'[u]
                                 /\ Cardinality(CreatedIn(u, t)') <= p.ratePerMinute
  <2> DEFINE q == call[c].req
  <2>1. /\ DOMAIN res' = DOMAIN res \cup {q} /\ q \notin DOMAIN res
        /\ res'[q].user = call[c].user /\ res'[q].createdAt = now
        /\ \A r \in DOMAIN res : /\ res'[r].user = res[r].user
                                 /\ res'[r].createdAt = res[r].createdAt
    BY <1>4, ReserveTable, Admitted
  <2> HIDE DEF q
  <2>2. CASE ~ (u = call[c].user /\ now \in t..(t + RateWindow))
    <3>1. CreatedIn(u, t)' = CreatedIn(u, t)
      BY <2>1, <2>2 DEF CreatedIn
    <3> QED
      BY <1>3, <3>1
  <2>3. CASE u = call[c].user /\ now \in t..(t + RateWindow)
    <3>1. CreatedIn(u, t)' = CreatedIn(u, t) \cup {q}
      BY <2>1, <2>3 DEF CreatedIn
    <3>2. CreatedIn(u, t) \subseteq Recent(c, at)
      <4>1. at \in Nat /\ now \in Nat /\ at <= now
        BY DEF Times, TypeOK
      <4>2. at - RateWindow <= t
        BY <2>3, <4>1, NumberAssumption
      <4>3. \A r \in DOMAIN res : res[r].createdAt \in Nat
        BY DEF TypeOK, Reservation
      <4> QED
        BY <2>3, <4>1, <4>2, <4>3, NumberAssumption DEF CreatedIn, Recent
    <3>3. Cardinality(CreatedIn(u, t)) <= Cardinality(Recent(c, at))
      <4>1. IsFiniteSet(Recent(c, at))
        BY LedgerFinite, FS_Subset DEF Recent
      <4> QED
        BY <3>2, <4>1, FS_Subset
    <3>4. /\ Cardinality(CreatedIn(u, t)) \in Nat
          /\ Cardinality(Recent(c, at)) \in Nat
      <4>1. IsFiniteSet(Recent(c, at))
        BY LedgerFinite, FS_Subset DEF Recent
      <4> QED
        BY <1>2, <4>1, FS_CardinalityType
    <3>5. Cardinality(CreatedIn(u, t)') = Cardinality(CreatedIn(u, t)) + 1
      <4>1. q \notin CreatedIn(u, t)
        BY <2>1 DEF CreatedIn
      <4> QED
        BY <1>2, <3>1, <4>1, FS_AddElement
    <3>6. Cardinality(CreatedIn(u, t)') <= call[c].policy.ratePerMinute
      BY <1>4, <3>3, <3>4, <3>5, Admitted
    <3>7. call[c].policy \in Policies /\ call[c].policy.plan \in everHeld'[u]
      BY <1>1, <1>4, <2>3, Admitted DEF PlansHeld
    <3> QED
      BY <3>6, <3>7
  <2> QED
    BY <2>2, <2>3
<1>5. CASE ~ \E c \in DOMAIN call, at \in Times : Reserve(c, at)
  <2>1. DOMAIN res' = DOMAIN res
    BY <1>5, OpenShrinks
  <2>2. \A r \in DOMAIN res : /\ res'[r].user = res[r].user
                              /\ res'[r].createdAt = res[r].createdAt
    BY RowsKept
  <2>3. CreatedIn(u, t)' = CreatedIn(u, t)
    BY <2>1, <2>2 DEF CreatedIn
  <2> QED
    BY <1>3, <2>3
<1> QED
  BY <1>4, <1>5

(* No window of the rate limit admits more requests of a user than a plan  *)
(* of theirs allows, however long reserve() waits for the lock.            *)
THEOREM RateKept == Spec => []RateBound
<1> DEFINE I == TypeOK /\ PlansHeld /\ RateBound
<1>1. Init => I
  BY LimitsInit
<1>2. I /\ [Next]_vars => I'
  BY TypeNext, PlansHeldNext, RateNext
<1>3. I => RateBound
  OBVIOUS
<1> QED
  BY <1>1, <1>2, <1>3, PTL DEF Spec

----------------------------------------------------------------------------
(* The allowance: a settlement never adds to what a counter holds, and     *)
(* reserve() adds only where it has found room.                            *)

Held(k) == used[k] + reserved[k]

LEMMA LimitType == \A p \in Policies : \A k : Limit(p, k) \in Nat
  BY SetAssumption DEF Limit, Policy

\* Settling moves units, or gives them back.
LEMMA SettledTotal ==
  ASSUME TypeOK, NEW S, NEW k \in Keys
  PROVE  /\ Held(k) \in Int
         /\ UsedAfter(S, TRUE, k) + ReservedAfter(S, k) = Held(k)
         /\ UsedAfter(S, FALSE, k) + ReservedAfter(S, k) <= Held(k)
<1>1. UnitsOf(res, S \cap Open, k) \in Nat
  BY CountersType
<1>2. used[k] \in Int /\ reserved[k] \in Int
  BY DEF TypeOK
<1> QED
  BY <1>1, <1>2 DEF Held, UsedAfter, ReservedAfter

\* The total of a counter grows only in reserve().
LEMMA HeldShrinks ==
  ASSUME TypeOK, [Next]_vars, NEW k \in Keys,
         ~ \E c \in DOMAIN call, at \in Times : Reserve(c, at)
  PROVE  Held(k)' <= Held(k)
<1> DEFINE G == Held(k)' <= Held(k)
<1> SUFFICES G
  OBVIOUS
<1>0. Held(k) \in Int
  BY SettledTotal
<1>1. ASSUME NEW S, NEW s, FinalizeIn(S, s, TRUE) PROVE G
  <2>1. Held(k)' = UsedAfter(S, TRUE, k) + ReservedAfter(S, k)
    BY <1>1 DEF FinalizeIn, Held
  <2>2. UsedAfter(S, TRUE, k) + ReservedAfter(S, k) = Held(k)
    BY SettledTotal
  <2>3. Held(k)' = Held(k)
    BY <2>1, <2>2
  <2> QED
    BY <1>0, <2>3
<1>2. ASSUME NEW S, NEW s, FinalizeIn(S, s, FALSE) PROVE G
  <2>1. Held(k)' = UsedAfter(S, FALSE, k) + ReservedAfter(S, k)
    BY <1>2 DEF FinalizeIn, Held
  <2> QED
    BY <1>0, <2>1, SettledTotal
<1>3. ASSUME NEW c \in DOMAIN call, NEW s \in Results, NEW consume \in BOOLEAN,
             Finish(c, s, consume)
      PROVE  G
  <2>1. CASE consume = TRUE
    BY <1>1, <1>3, <2>1 DEF Finish
  <2>2. CASE consume = FALSE
    BY <1>2, <1>3, <2>2 DEF Finish
  <2> QED
    BY <2>1, <2>2
<1>4. ASSUME NEW w \in Workers, NEW q \in batch[w], Reap(w, q) PROVE G
  BY <1>1, <1>4 DEF Reap
<1>5. ASSUME UNCHANGED ledger PROVE G
  BY <1>0, <1>5 DEF Held
<1>6. ASSUME NEW c \in Calls, NEW w \in Workers, NEW q \in Requests,
             NEW u \in Users, NEW p \in Policies, Submit(c, w, q, u, p)
      PROVE  G
  BY <1>5, <1>6 DEF Submit
<1>7. ASSUME NEW w \in Workers, Crash(w) PROVE G
  BY <1>5, <1>7 DEF Crash
<1> HIDE DEF G, ledger
<1> QED
  BY <1>3, <1>4, <1>5, <1>6, <1>7, StepKinds

LEMMA AllowanceNext ==
  TypeOK /\ PlansHeld /\ WithinAllowance /\ [Next]_vars => WithinAllowance'
<1> SUFFICES ASSUME TypeOK, PlansHeld, WithinAllowance, [Next]_vars,
                    NEW k \in Keys, Held(k)' > 0
             PROVE  \E p \in Policies : /\ p.plan \in everHeld'[k[1]]
                                        /\ k[2] \in {p.bucket, "CREDITS"}
                                        /\ Held(k)' <= Limit(p, k)
  BY DEF WithinAllowance, Held
<1>1. k[1] \in Users /\ everHeld[k[1]] \subseteq everHeld'[k[1]]
  BY HeldGrows DEF Keys
<1>2. Held(k) \in Int
  BY SettledTotal
<1>3. ASSUME Held(k)' \in Int, Held(k)' <= Held(k)
      PROVE  \E p \in Policies : /\ p.plan \in everHeld'[k[1]]
                                 /\ k[2] \in {p.bucket, "CREDITS"}
                                 /\ Held(k)' <= Limit(p, k)
  <2>1. PICK p \in Policies : /\ p.plan \in everHeld[k[1]]
                              /\ k[2] \in {p.bucket, "CREDITS"}
                              /\ Held(k) <= Limit(p, k)
    BY <1>2, <1>3 DEF WithinAllowance, Held
  <2>2. Held(k)' <= Limit(p, k)
    BY <1>2, <1>3, <2>1, LimitType
  <2> QED
    BY <1>1, <2>1, <2>2
<1>4. Held(k)' \in Int
  BY TypeNext DEF Held, TypeOK
<1>5. ASSUME NEW c \in DOMAIN call, NEW at \in Times, Reserve(c, at)
      PROVE  \E p \in Policies : /\ p.plan \in everHeld'[k[1]]
                                 /\ k[2] \in {p.bucket, "CREDITS"}
                                 /\ Held(k)' <= Limit(p, k)
  <2> DEFINE S == Stale(c, at)
             x == NewReservation(c, at)
             u == call[c].user
             p == call[c].policy
  <2>1. /\ reserved'[k] = ReservedAfter(S, k) + Weight(x, k)
        /\ used'[k] = UsedAfter(S, TRUE, k)
    BY <1>5 DEF Reserve
  <2>2. /\ \A j \in {CreditKey(x), DayKey(x), MonthKey(x)} : HasRoom(c, at, x, j)
        /\ x.user = u /\ x.bucket = p.bucket
    BY <1>5, Zenon DEF Reserve, Admissible, NewReservation
  <2>3. u \in Users /\ p \in Policies /\ p.plan \in everHeld[u]
    BY <1>5, Admitted DEF PlansHeld
  <2> HIDE DEF S, x, u, p
  <2> DEFINE left == ReservedAfter(S, k)
             spent == UsedAfter(S, TRUE, k)
  <2>4. left \in Int /\ spent \in Int /\ spent + left = Held(k)
    <3>1. left \in Int /\ spent \in Int
      BY CountersType
    <3>2. spent + left = Held(k)
      BY SettledTotal
    <3> QED
      BY <3>1, <3>2
  <2>5. used'[k] = spent /\ reserved'[k] = left + Weight(x, k)
    BY <2>1
  <2>6. CASE k \in {CreditKey(x), DayKey(x), MonthKey(x)}
    <3>1. spent + left + Weight(x, k) <= Limit(p, k)
      BY <2>2, <2>6 DEF HasRoom, S, p
    <3>2. Weight(x, k) \in Int
      <4>1. x \in Reservation
        BY NewReservationType DEF x
      <4> QED
        BY <4>1, WeightType, NumberAssumption
    <3>3. Held(k)' <= Limit(p, k)
      <4> HIDE DEF spent, left
      <4>1. Held(k)' = spent + (left + Weight(x, k))
        BY <2>5 DEF Held
      <4> QED
        BY <2>4, <3>1, <3>2, <4>1
    <3>4. k[1] = u /\ k[2] \in {p.bucket, "CREDITS"}
      BY <2>2, <2>6 DEF CreditKey, DayKey, MonthKey
    <3> QED
      BY <1>1, <2>3, <3>3, <3>4
  <2>7. CASE k \notin {CreditKey(x), DayKey(x), MonthKey(x)}
    <3>1. Weight(x, k) = 0
      BY <2>7 DEF Weight
    <3>2. Held(k)' = Held(k)
      <4> HIDE DEF spent, left
      <4>1. Held(k)' = spent + (left + 0)
        BY <2>5, <3>1 DEF Held
      <4> QED
        BY <2>4, <4>1
    <3> QED
      BY <1>2, <1>3, <1>4, <3>2
  <2> QED
    BY <2>6, <2>7
<1>6. CASE ~ \E c \in DOMAIN call, at \in Times : Reserve(c, at)
  BY <1>3, <1>4, <1>6, HeldShrinks
<1> QED
  BY <1>5, <1>6

(* Units held and charged never exceed what a plan of the user allows, in  *)
(* any bucket, day or month, for any set of policies that share credits.   *)
THEOREM AllowanceKept == Spec => []WithinAllowance
<1> DEFINE I == TypeOK /\ PlansHeld /\ WithinAllowance
<1>1. Init => I
  <2> SUFFICES ASSUME Init PROVE WithinAllowance
    BY LimitsInit
  <2>1. \A k \in Keys : used[k] = 0 /\ reserved[k] = 0
    BY DEF Init
  <2> QED
    BY <2>1 DEF WithinAllowance
<1>2. I /\ [Next]_vars => I'
  BY TypeNext, PlansHeldNext, AllowanceNext
<1>3. I => WithinAllowance
  OBVIOUS
<1> QED
  BY <1>1, <1>2, <1>3, PTL DEF Spec

----------------------------------------------------------------------------
(* The ledger implements module Allowance.  The step of the abstract       *)
(* ledger is read off the sets of open and of charged reservations; that   *)
(* they are disjoint is part of LedgerInv.                                 *)

Returned == (DOMAIN res \ Open) \ charged

LEMMA SettleImplements ==
  ASSUME LedgerInv, NEW r, NEW s \in Final, NEW consume \in BOOLEAN,
         FinalizeIn({r}, s, consume)
  PROVE  [Promise!Next]_(Promise!vars)
<1> DEFINE G == [Promise!Next]_(Promise!vars)
<1> SUFFICES G
  OBVIOUS
<1>1. DOMAIN res' = DOMAIN res /\ Open' = Open \ {r}
  BY FinalizeInOpen DEF FinalizeIn, LedgerInv
<1>2. charged' = IF consume THEN charged \cup ({r} \cap Open) ELSE charged
  BY DEF FinalizeIn, ChargedAfter
<1>3. CASE r \notin Open
  <2>1. Open' = Open /\ charged' = charged
    BY <1>1, <1>2, <1>3
  <2> QED
    BY <1>1, <2>1 DEF Promise!vars
<1>4. CASE r \in Open
  <2>1. r \in Requests /\ r \in DOMAIN res /\ r \notin charged
    BY <1>4 DEF LedgerInv, TypeOK, Open
  <2>2. consume => Promise!Spend(r)
    BY <1>1, <1>2, <1>4, <2>1 DEF Promise!Spend, LedgerInv
  <2>3. ~consume => Promise!GiveBack(r)
    BY <1>1, <1>2, <1>4, <2>1 DEF Promise!GiveBack, LedgerInv
  <2> QED
    BY <2>1, <2>2, <2>3 DEF Promise!Next
<1> QED
  BY <1>3, <1>4

LEMMA ReserveImplements ==
  ASSUME LedgerInv, NEW c \in DOMAIN call, NEW at \in Times, Reserve(c, at)
  PROVE  Promise!Next
<1> DEFINE q == call[c].req
           S == Stale(c, at)
<1>1. /\ q \notin DOMAIN res /\ DOMAIN res' = DOMAIN res \cup {q}
      /\ Open' = (Open \ S) \cup {q}
  BY ReserveTable DEF LedgerInv
<1>2. S \subseteq Open
  BY DEF Stale, OpenOf
<1>3. charged' = charged \cup S
  BY <1>2 DEF Reserve, ChargedAfter
<1>4. q \in Requests /\ charged \subseteq DOMAIN res /\ Open \subseteq DOMAIN res
  BY DEF LedgerInv, TypeOK, Call, Open
<1> HIDE DEF q, S
<1>5. q \notin Open \cup charged \cup Returned
  BY <1>1, <1>4 DEF Returned
<1>6. Returned' = Returned
  BY <1>1, <1>2, <1>3, <1>4 DEF Returned
<1>7. Promise!Admit(q, S)
  BY <1>1, <1>2, <1>3, <1>5, <1>6 DEF Promise!Admit, Returned
<1> QED
  BY <1>2, <1>4, <1>7 DEF Promise!Next

LEMMA StepImplements ==
  ASSUME LedgerInv, [Next]_vars
  PROVE  [Promise!Next]_(Promise!vars)
<1> DEFINE G == [Promise!Next]_(Promise!vars)
<1> SUFFICES G
  OBVIOUS
<1>1. ASSUME UNCHANGED ledger PROVE G
  BY <1>1 DEF Promise!vars, Open
<1>2. ASSUME NEW c \in DOMAIN call, NEW at \in Times, Reserve(c, at) PROVE G
  BY <1>2, ReserveImplements
<1>3. ASSUME NEW c \in DOMAIN call, NEW s \in Results, NEW consume \in BOOLEAN,
             Finish(c, s, consume)
      PROVE  G
  <2>1. s \in Final /\ FinalizeIn({call[c].req}, s, consume)
    BY <1>3, SetAssumption DEF Finish, Final
  <2> QED
    BY <2>1, SettleImplements
<1>4. ASSUME NEW w \in Workers, NEW q \in batch[w], Reap(w, q) PROVE G
  <2>1. FinalizeIn({q}, "INTERRUPTED", TRUE) /\ "INTERRUPTED" \in Final
    BY <1>4 DEF Reap, Final
  <2> QED
    BY <2>1, SettleImplements
<1>5. ASSUME NEW c \in Calls, NEW w \in Workers, NEW q \in Requests,
             NEW u \in Users, NEW p \in Policies, Submit(c, w, q, u, p)
      PROVE  G
  BY <1>1, <1>5 DEF Submit
<1>6. ASSUME NEW w \in Workers, Crash(w) PROVE G
  BY <1>1, <1>6 DEF Crash
<1> HIDE DEF G, ledger
<1> QED
  BY <1>1, <1>2, <1>3, <1>4, <1>5, <1>6, StepKinds

(* Every behaviour of the processes, timers and calls is one of the        *)
(* abstract ledger: a request is held once, then spent or given back once. *)
THEOREM LedgerKeepsPromise == Spec => KeepsPromise
<1>1. Init => Promise!Init
  BY DEF Init, Promise!Init, Open
<1> QED
  BY <1>1, LedgerInit, LedgerNext, StepImplements, PTL
     DEF Spec, KeepsPromise, Promise!Spec

=============================================================================
