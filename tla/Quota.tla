------------------------------- MODULE Quota -------------------------------
(***************************************************************************)
(* The allowance ledger of apps/api/src/modules/workspace/quota.service.ts *)
(* with the calls of chat.service.ts that use it.                          *)
(*                                                                         *)
(* A message is paid for in two database transactions, each serialized by  *)
(* a row lock on the user: reserve() admits a request and holds its units  *)
(* in the usage counters, finalizeIn() settles the reservation by charging *)
(* or releasing them.  Between the two the API process streams from a      *)
(* provider and may stop, so that expired reservations are also settled by *)
(* the user's next reserve() and by a timer of every process.              *)
(*                                                                         *)
(* Here a call ends with any result that generate() may report; module     *)
(* Generation refines the part between the two transactions.               *)
(***************************************************************************)
EXTENDS Integers, FiniteSets

CONSTANTS
  Users,
  Requests,     \* request identifiers chosen by clients
  Calls,        \* slots for HTTP requests in flight
  Workers,      \* API processes
  Results,      \* statuses with which generate() ends
  Deletable,    \* bound: requests whose conversation may be deleted
  Policies,     \* rows of GenerationPolicy, each with its plan's monthly
                \* credits and the price of the task that is asked for
  InitialPlan,  \* plan of an account that has no subscription
  MaxUnits,     \* largest credit price of one request
  DayLength,    \* ticks in a UTC day
  MonthDays,    \* days in a calendar month
  RateWindow,   \* the minute of the rate limit
  LockWait,     \* longest wait of reserve() for the user's row
  Slack,        \* longest time from a call's deadline to its final transaction
  Grace,        \* 60 s added to maxDurationSeconds in expiresAt
  BatchSize,    \* reservations settled by one round of the timer
  MaxTime,      \* bound: the clock stops here
  MaxFaults     \* bound: crashes and failed transactions in a behaviour

Plans   == {p.plan : p \in Policies}
Buckets == {p.bucket : p \in Policies}

Policy == [plan : STRING, bucket : STRING, monthlyCredits : Nat,
           dailyLimit : Nat, monthlyLimit : Nat, concurrency : Nat,
           ratePerMinute : Nat, maxDuration : Nat, price : 1..MaxUnits]

ASSUME SetAssumption ==
  /\ IsFiniteSet(Requests)
  /\ Policies \subseteq Policy
  /\ InitialPlan \in Plans
  /\ Results \subseteq {"SUCCEEDED", "FAILED", "CANCELLED", "INTERRUPTED"}
  /\ Deletable \subseteq Requests
  /\ "CREDITS" \notin Buckets   \* savePolicy: AUTO or the identifier of a model

ASSUME NumberAssumption ==
  /\ MaxUnits \in Nat \ {0} /\ DayLength \in Nat \ {0} /\ MonthDays \in Nat \ {0}
  /\ RateWindow \in Nat /\ LockWait \in Nat /\ Slack \in Nat /\ Grace \in Nat
  /\ BatchSize \in Nat \ {0} /\ MaxTime \in Nat /\ MaxFaults \in Nat

VARIABLES
  now,       \* the clock, in ticks
  planOf,    \* plan that policies() finds for each user
  everHeld,  \* history: the plans each user has had
  call,      \* HTTP requests in flight, by slot
  res,       \* table QuotaReservation, by request identifier
  used,      \* table UsageCounter, column used
  reserved,  \* table UsageCounter, column reserved
  charged,   \* history: requests whose units were charged
  msg,       \* status of the assistant message of each request
  batch,     \* expired reservations found by each process's timer
  faults

accounts == <<planOf, everHeld>>
ledger   == <<res, used, reserved, charged>>
vars     == <<now, accounts, call, ledger, msg, batch, faults>>

----------------------------------------------------------------------------
(* Periods, counters and the units a reservation holds in each counter. *)

Day(t)   == t \div DayLength
Month(t) == t \div (DayLength * MonthDays)

Statuses == {"RESERVED", "SUCCEEDED", "FAILED", "CANCELLED", "INTERRUPTED"}

Reservation == [user : Users, bucket : Buckets, units : 1..MaxUnits,
                day : Nat, month : Nat, status : Statuses,
                createdAt : Nat, expiresAt : Nat]

Call == [phase : {"ready", "live"}, worker : Workers, req : Requests,
         user : Users, policy : Policies, by : Nat]

Keys == Users \X (Buckets \cup {"CREDITS"}) \X {"DAILY", "MONTHLY"}
              \X (0..Day(MaxTime))

CreditKey(x) == <<x.user, "CREDITS", "MONTHLY", x.month>>
DayKey(x)    == <<x.user, x.bucket, "DAILY", x.day>>
MonthKey(x)  == <<x.user, x.bucket, "MONTHLY", x.month>>

\* What reservation x adds to counter k.
Weight(x, k) ==
  IF k = CreditKey(x) THEN x.units
  ELSE IF k \in {DayKey(x), MonthKey(x)} THEN 1 ELSE 0

\* What the reservations f[r], r \in S, add up to in counter k.
UnitsOf(f, S, k) ==
  Cardinality({t \in S \X (1..MaxUnits) : t[2] <= Weight(f[t[1]], k)})

\* The limit policy p sets on counter k; no counter of another bucket is touched.
Limit(p, k) ==
  IF k[2] = "CREDITS" THEN p.monthlyCredits
  ELSE IF k[3] = "DAILY" THEN p.dailyLimit ELSE p.monthlyLimit

Open         == {r \in DOMAIN res : res[r].status = "RESERVED"}
OpenOf(u)    == {r \in Open : res[r].user = u}
ExpiredAt(t) == {r \in Open : res[r].expiresAt < t}

Live == {c \in DOMAIN call : call[c].phase = "live"}

Without(f, x) == [y \in DOMAIN f \ {x} |-> f[y]]
With(f, x, v) == [y \in DOMAIN f \cup {x} |-> IF y = x THEN v ELSE f[y]]

----------------------------------------------------------------------------
(* finalizeIn: the reservations of S that are still open take status s and *)
(* their units move from reserved to used, or are given back.              *)

\* Faulty variant, for the mutants of PROJECT.json: no test of the current status.
FinalizedTwice(S, s) ==
  [r \in DOMAIN res |-> IF r \in S THEN [res[r] EXCEPT !.status = s] ELSE res[r]]
Finalized(S, s) ==
  [r \in DOMAIN res |->
     IF r \in S \cap Open THEN [res[r] EXCEPT !.status = s] ELSE res[r]]

ReservedTwice(S, k) == reserved[k] - UnitsOf(res, S, k)   \* faulty variant
ReservedAfter(S, k) == reserved[k] - UnitsOf(res, S \cap Open, k)

UsedAfter(S, consume, k) ==
  used[k] + (IF consume THEN UnitsOf(res, S \cap Open, k) ELSE 0)

ChargedLate(S, consume) ==   \* faulty variant
  IF consume THEN charged \cup (S \cap DOMAIN res) ELSE charged
ChargedAfter(S, consume) ==
  IF consume THEN charged \cup (S \cap Open) ELSE charged

FinalizeIn(S, s, consume) ==
  /\ res' = Finalized(S, s)
  /\ reserved' = [k \in Keys |-> ReservedAfter(S, k)]
  /\ used' = [k \in Keys |-> UsedAfter(S, consume, k)]
  /\ charged' = ChargedAfter(S, consume)

----------------------------------------------------------------------------
(* generate() up to reserve(): the policy is read before the transaction. *)

Submit(c, w, r, u, p) ==
  /\ c \notin DOMAIN call
  /\ p.plan = planOf[u]
  /\ call' = With(call, c, [phase |-> "ready", worker |-> w, req |-> r,
                            user |-> u, policy |-> p, by |-> 0])
  /\ UNCHANGED <<now, accounts, ledger, msg, batch, faults>>

(* reserve(): the time is read before the wait for the user's row, so that *)
(* `at` may lie LockWait in the past.                                      *)

Times == {t \in 0..now : now - t <= LockWait}

ExpiryWithoutGrace(p, at) == at + p.maxDuration   \* faulty variant
Expiry(p, at) == at + p.maxDuration + Grace

NewReservation(c, at) ==
  [user |-> call[c].user, bucket |-> call[c].policy.bucket,
   units |-> call[c].policy.price, day |-> Day(at), month |-> Month(at),
   status |-> "RESERVED", createdAt |-> now,
   expiresAt |-> Expiry(call[c].policy, at)]

Stale(c, at) == OpenOf(call[c].user) \cap ExpiredAt(at)

\* Faulty variants: submitted again while it runs, active in this bucket only,
\* recent and still open, held units not counted.
IsNewUnlessOpen(c) == call[c].req \notin DOMAIN res \ Open
ActiveInBucket(c, at) ==
  {r \in OpenOf(call[c].user) \ Stale(c, at) :
     res[r].bucket = call[c].policy.bucket}
RecentOpen(c, at) ==
  {r \in OpenOf(call[c].user) : res[r].createdAt >= at - RateWindow}
HasRoomUnreserved(c, at, x, k) ==
  UsedAfter(Stale(c, at), TRUE, k) + Weight(x, k) <= Limit(call[c].policy, k)

IsNew(c) == call[c].req \notin DOMAIN res

Active(c, at) == OpenOf(call[c].user) \ Stale(c, at)

Recent(c, at) ==
  {r \in DOMAIN res : /\ res[r].user = call[c].user
                      /\ res[r].createdAt >= at - RateWindow}

HasRoom(c, at, x, k) ==
  UsedAfter(Stale(c, at), TRUE, k) + ReservedAfter(Stale(c, at), k) + Weight(x, k)
    <= Limit(call[c].policy, k)

Admissible(c, at) ==
  LET x == NewReservation(c, at)
  IN  /\ IsNew(c)
      /\ Cardinality(Active(c, at)) < call[c].policy.concurrency
      /\ Cardinality(Recent(c, at)) < call[c].policy.ratePerMinute
      /\ \A k \in {CreditKey(x), DayKey(x), MonthKey(x)} : HasRoom(c, at, x, k)

Reserve(c, at) ==
  /\ call[c].phase = "ready"
  /\ Admissible(c, at)
  /\ res' = With(Finalized(Stale(c, at), "INTERRUPTED"),
                 call[c].req, NewReservation(c, at))
  /\ reserved' = [k \in Keys |-> ReservedAfter(Stale(c, at), k)
                                    + Weight(NewReservation(c, at), k)]
  /\ used' = [k \in Keys |-> UsedAfter(Stale(c, at), TRUE, k)]
  /\ charged' = ChargedAfter(Stale(c, at), TRUE)
  /\ call' = [call EXCEPT ![c].phase = "live",
                          ![c].by = now + call[c].policy.maxDuration + Slack]
  /\ UNCHANGED <<now, accounts, msg, batch, faults>>

\* An exception in reserve() rolls everything back, the sweep included.
Reject(c, at) ==
  /\ call[c].phase = "ready"
  /\ ~Admissible(c, at)
  /\ call' = Without(call, c)
  /\ UNCHANGED <<now, accounts, ledger, msg, batch, faults>>

----------------------------------------------------------------------------
(* The admitted call: assistant message, then one final transaction. *)

CreateMessage(c) ==
  /\ call[c].phase = "live"
  /\ msg[call[c].req] = "NONE"
  /\ msg' = [msg EXCEPT ![call[c].req] = "RESERVED"]
  /\ UNCHANGED <<now, accounts, call, ledger, batch, faults>>

Finish(c, s, consume) ==
  LET r == call[c].req
  IN  /\ call[c].phase = "live"
      /\ s = "SUCCEEDED" => consume
      /\ FinalizeIn({r}, s, consume)
      /\ msg' = [msg EXCEPT ![r] = IF @ \in {"NONE", "DELETED"} THEN @ ELSE s]
      /\ call' = Without(call, c)
      /\ UNCHANGED <<now, accounts, batch, faults>>

\* A transaction fails, reserve() or the final one: the call ends, nothing is
\* written, and the reservation of a live call stays open.
TxFails(c) ==
  /\ faults < MaxFaults
  /\ faults' = faults + 1
  /\ call' = Without(call, c)
  /\ UNCHANGED <<now, accounts, ledger, msg, batch>>

\* The conversation is deleted, with the message or before it is created.
DeleteMessage(r) ==
  /\ r \in DOMAIN res
  /\ msg[r] # "DELETED"
  /\ msg' = [msg EXCEPT ![r] = "DELETED"]
  /\ UNCHANGED <<now, accounts, call, ledger, batch, faults>>

----------------------------------------------------------------------------
(* reconcileExpired(), run by the timer of every process: one query, then *)
(* one transaction for each reservation that it returned.                 *)

Scan(w) ==
  /\ batch[w] = {}
  /\ \E B \in SUBSET ExpiredAt(now) :
       /\ B # {}
       /\ Cardinality(B) <= BatchSize
       /\ B = ExpiredAt(now) \/ Cardinality(B) = BatchSize
       /\ batch' = [batch EXCEPT ![w] = B]
  /\ UNCHANGED <<now, accounts, call, ledger, msg, faults>>

\* Faulty variant: the message is marked but the reservation is left open.
ReapMessageOnly(w, r) ==
  /\ r \in batch[w]
  /\ msg' = [msg EXCEPT ![r] = IF @ = "RESERVED" THEN "INTERRUPTED" ELSE @]
  /\ batch' = [batch EXCEPT ![w] = @ \ {r}]
  /\ UNCHANGED <<now, accounts, call, ledger, faults>>

Reap(w, r) ==
  /\ r \in batch[w]
  /\ FinalizeIn({r}, "INTERRUPTED", TRUE)
  /\ msg' = [msg EXCEPT ![r] = IF @ = "RESERVED" THEN "INTERRUPTED" ELSE @]
  /\ batch' = [batch EXCEPT ![w] = @ \ {r}]
  /\ UNCHANGED <<now, accounts, call, faults>>

\* A failed transaction abandons the rest of the round.
ReapFails(w) ==
  /\ batch[w] # {}
  /\ faults < MaxFaults
  /\ faults' = faults + 1
  /\ batch' = [batch EXCEPT ![w] = {}]
  /\ UNCHANGED <<now, accounts, call, ledger, msg>>

----------------------------------------------------------------------------
(* The environment: subscriptions, process crashes and the clock. *)

ChangePlan(u, pl) ==
  /\ pl # planOf[u]
  /\ planOf' = [planOf EXCEPT ![u] = pl]
  /\ everHeld' = [everHeld EXCEPT ![u] = @ \cup {pl}]
  /\ UNCHANGED <<now, call, ledger, msg, batch, faults>>

Crash(w) ==
  /\ faults < MaxFaults
  /\ faults' = faults + 1
  /\ call' = [c \in {d \in DOMAIN call : call[d].worker # w} |-> call[c]]
  /\ batch' = [batch EXCEPT ![w] = {}]
  /\ UNCHANGED <<now, accounts, ledger, msg>>

\* No live call outlasts its deadline by more than Slack.
Tick ==
  /\ now < MaxTime
  /\ \A c \in Live : now < call[c].by
  /\ now' = now + 1
  /\ UNCHANGED <<accounts, call, ledger, msg, batch, faults>>

\* The bound on the clock is the only place where the model stops.
Terminating == now = MaxTime /\ UNCHANGED vars

----------------------------------------------------------------------------
Init ==
  /\ now = 0
  /\ planOf = [u \in Users |-> InitialPlan]
  /\ everHeld = [u \in Users |-> {InitialPlan}]
  /\ call = [c \in {} |-> 0]
  /\ res = [r \in {} |-> 0]
  /\ used = [k \in Keys |-> 0]
  /\ reserved = [k \in Keys |-> 0]
  /\ charged = {}
  /\ msg = [r \in Requests |-> "NONE"]
  /\ batch = [w \in Workers |-> {}]
  /\ faults = 0

Admission ==
  \/ \E c \in Calls, w \in Workers, r \in Requests, u \in Users,
        p \in Policies : Submit(c, w, r, u, p)
  \/ \E c \in DOMAIN call, at \in Times : Reserve(c, at)
  \/ \E c \in DOMAIN call, at \in Times : Reject(c, at)

FinishCall(c) ==
  /\ c \in DOMAIN call
  /\ \E s \in Results, consume \in BOOLEAN : Finish(c, s, consume)

Ending ==
  \/ \E c \in Calls : FinishCall(c)
  \/ \E c \in DOMAIN call : TxFails(c)

Reconciliation ==
  \/ \E w \in Workers : Scan(w)
  \/ \E w \in Workers : \E r \in batch[w] : Reap(w, r)
  \/ \E w \in Workers : ReapFails(w)

Environment ==
  \/ \E r \in Deletable : DeleteMessage(r)
  \/ \E u \in Users, pl \in Plans : ChangePlan(u, pl)
  \/ \E w \in Workers : Crash(w)
  \/ Tick

Next ==
  \/ Admission
  \/ \E c \in DOMAIN call : CreateMessage(c)
  \/ Ending
  \/ Reconciliation
  \/ Environment
  \/ Terminating

Spec == Init /\ [][Next]_vars

(* The clock advances, the deadline ends every call whose process runs,    *)
(* and the timer of each process keeps firing.                             *)
Fairness ==
  /\ WF_vars(Tick)
  /\ \A c \in Calls : WF_vars(FinishCall(c))
  /\ \A w \in Workers : /\ WF_vars(Scan(w))
                        /\ WF_vars(\E r \in batch[w] : Reap(w, r))

FairSpec == Spec /\ Fairness

----------------------------------------------------------------------------
(* Properties. *)

(* Every table holds rows of its type. *)
TypeOK ==
  /\ now \in 0..MaxTime
  /\ planOf \in [Users -> Plans]
  /\ everHeld \in [Users -> SUBSET Plans]
  /\ DOMAIN call \subseteq Calls /\ call \in [DOMAIN call -> Call]
  /\ DOMAIN res \subseteq Requests /\ res \in [DOMAIN res -> Reservation]
  /\ used \in [Keys -> Int] /\ reserved \in [Keys -> Int]
  /\ charged \subseteq DOMAIN res
  /\ msg \in [Requests -> Statuses \cup {"NONE", "DELETED"}]
  /\ batch \in [Workers -> SUBSET DOMAIN res]
  /\ faults \in 0..MaxFaults

(* The columns reserved and used, which reserve() and finalizeIn() only    *)
(* ever increment and decrement, agree at all times with the reservations  *)
(* that are open and with those that were charged, each in the day and     *)
(* month in which it was admitted, whichever of the call, the user's next  *)
(* request and the timers settled it.                                      *)
CountersMatch ==
  \A k \in Keys : /\ reserved[k] = UnitsOf(res, Open, k)
                  /\ used[k] = UnitsOf(res, charged, k)

(* No counter holds more than a plan the user has had allows: concurrent   *)
(* reserve() calls, sweeps and late settlements never overspend, and a     *)
(* policy read before a change of plan grants no more than that plan did.  *)
WithinAllowance ==
  \A k \in Keys :
    used[k] + reserved[k] > 0 =>
      \E p \in Policies : /\ p.plan \in everHeld[k[1]]
                          /\ k[2] \in {p.bucket, "CREDITS"}
                          /\ used[k] + reserved[k] <= Limit(p, k)

(* A user's open reservations never exceed the concurrency of a policy the *)
(* user has had.                                                           *)
ConcurrencyBound ==
  \A u \in Users :
    OpenOf(u) # {} =>
      \E p \in Policies : /\ p.plan \in everHeld[u]
                          /\ Cardinality(OpenOf(u)) <= p.concurrency

(* In no window of RateWindow ticks are more requests admitted for a user  *)
(* than ratePerMinute of a policy the user has had, although reserve()     *)
(* compares with a time read before it waited for the lock.                *)
CreatedIn(u, t) ==
  {r \in DOMAIN res : /\ res[r].user = u
                      /\ res[r].createdAt \in t..(t + RateWindow)}

RateBound ==
  \A u \in Users, t \in 0..MaxTime :
    CreatedIn(u, t) # {} =>
      \E p \in Policies : /\ p.plan \in everHeld[u]
                          /\ Cardinality(CreatedIn(u, t)) <= p.ratePerMinute

(* A request identifier runs at most once: two calls with the same         *)
(* requestId, sent at once or one after the other, never both reach a      *)
(* provider.                                                               *)
OneCallPerRequest ==
  \A c, d \in Live : call[c].req = call[d].req => c = d

(* The timer and the sweep never interrupt a call that is still running:   *)
(* the 60 s grace of expiresAt covers the wait for the lock and the time   *)
(* from the deadline to the final transaction.                             *)
LiveCallsKeepReservation == \A c \in Live : call[c].req \in Open

(* A settled reservation is never settled again, nor a charge taken back.  *)
SettledOnce ==
  [][/\ \A r \in DOMAIN res \ Open : r \in DOMAIN res' /\ res'[r] = res[r]
     /\ \A r \in DOMAIN res \ Open : r \in charged <=> r \in charged']_vars

(* The ledger keeps the promise of module Allowance: every request is      *)
(* admitted once, and charged or given back once, whatever the calls, the  *)
(* sweeps, the timers and the failures of all processes do in which order. *)
Promise == INSTANCE Allowance WITH
             held     <- Open,
             spent    <- charged,
             returned <- (DOMAIN res \ Open) \ charged

KeepsPromise == Promise!Spec

(* "A crashed process may have incurred provider cost: conservatively      *)
(* consume the visible generation and mark it interrupted" (reserve): the  *)
(* message of an interrupted reservation does not stay RESERVED.           *)
InterruptedIsVisible ==
  \A r \in DOMAIN res :
    res[r].status = "INTERRUPTED" => msg[r] # "RESERVED"

(* Every reservation is settled once it expires, also when the process     *)
(* that made it has crashed, as long as the clock runs.                    *)
EventuallySettled ==
  \A r \in Requests :
    (r \in ExpiredAt(MaxTime)) ~> (r \in DOMAIN res \ Open)

============================================================================
