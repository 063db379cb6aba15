---------------------------- MODULE RoutingHealth ----------------------------
(***************************************************************************)
(* The health of models in one API process (routing.ts): a Map from the    *)
(* identifier of a model to its failures since the last success, kept as   *)
(* a function, with the order in which the keys were inserted.             *)
(***************************************************************************)
EXTENDS Integers, FiniteSets

CONSTANTS
  Models,
  Cooldown,    \* 30 s
  Forget,      \* 600 s after which an untouched entry is dropped
  Capacity     \* entries kept

ASSUME HealthAssumption ==
  /\ Cooldown \in Nat \ {0} /\ Forget \in Nat /\ Capacity \in Nat \ {0}
  /\ Cooldown <= Forget /\ IsFiniteSet(Models)

VARIABLES
  health,   \* RoutingHealth.states
  older     \* its keys by insertion: pairs of an older and a newer one

\* Errors by what the code does with them.  HTTP_429 and TRANSIENT (5xx, lost
\* or empty streams, timeouts) count against the model; REQUEST (other 4xx,
\* output limits, unsupported inputs) and CANCELLED do not.
Categories == {"HTTP_429", "TRANSIENT", "REQUEST", "CANCELLED"}
Penalized  == {"HTTP_429", "TRANSIENT"}

Entry == [failures : Nat \ {0}, until : Nat, touched : Nat]

Available(m, t) == m \in DOMAIN health => health[m].until <= t

Among(R, D) == R \cap (D \X D)

\* success(): the entry is deleted.
Healed(m) ==
  LET rest == DOMAIN health \ {m}
  IN  /\ health' = [d \in rest |-> health[d]]
      /\ older' = Among(older, rest)

\* failure(): entries untouched for Forget are dropped, then the oldest key if
\* the map is full, and the failure is counted.
Kept(t) == {d \in DOMAIN health : t - health[d].touched <= Forget}

Evicted(m, t) ==
  IF Cardinality(Kept(t)) >= Capacity /\ m \notin Kept(t)
  THEN {d \in Kept(t) : \A e \in Kept(t) : <<e, d>> \notin older}
  ELSE {}

Failures(m, t) == 1 + IF m \in Kept(t) THEN health[m].failures ELSE 0

LateCooldown(n, category, t) ==   \* faulty variant: the third failure
  IF n > 2 \/ category = "HTTP_429" THEN t + Cooldown ELSE 0
Until(n, category, t) ==
  IF n >= 2 \/ category = "HTTP_429" THEN t + Cooldown ELSE 0

Counted(m, category, t) ==
  LET rest == Kept(t) \ Evicted(m, t)
      n    == Failures(m, t)
  IN  /\ health' = [d \in rest \cup {m} |->
                      IF d = m THEN [failures |-> n, touched |-> t,
                                     until |-> Until(n, category, t)]
                      ELSE health[d]]
      /\ older' = Among(older, rest)
                    \cup (IF m \in rest THEN {} ELSE rest \X {m})

Failed(m, category, t) ==
  IF category \in Penalized THEN Counted(m, category, t)
  ELSE UNCHANGED <<health, older>>
=============================================================================
