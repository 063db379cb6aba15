---------------------------- MODULE BillingProofs ----------------------------
(***************************************************************************)
(* Theorems about Billing, for any users, keys, requests, limits and       *)
(* faults: payments and subscriptions tell the same, access is paid for, a *)
(* checkout is worked on once, and the promotion's counter is the number   *)
(* of its redemptions.                                                     *)
EXTENDS Billing, FiniteSetTheorems, TLAPS

----------------------------------------------------------------------------
(* The tables.  What they say of each other whatever requests are under    *)
(* way: a payment has its subscription, the provider knows no key without  *)
(* a payment, and owes webhooks for money only.                            *)

Typed ==
  /\ now \in 0..MaxTime
  /\ plan \in [Users -> {"FREE", "PRO"}]
  /\ sub \in [Subscriptions -> Subscription \cup {None}]
  /\ pay \in [Keys -> Payment \cup {None}]
  /\ redeemed \subseteq Keys /\ promoted \in 0..PromotionMax
  /\ discounts \in 0..DiscountMax
  /\ event \in [Events -> {"none", "RECEIVED", "PROCESSED", "FAILED"}]
  /\ gate \in [Keys -> {"none", "open", "paid", "refunded"}]
  /\ due \subseteq Events /\ shown \subseteq Keys
  /\ left \in [keys : SUBSET Keys, commands : SUBSET Commands,
               codes : SUBSET Codes, refunds : Nat, faults : Nat]

Paired ==
  /\ \A k \in Keys : Known(k) =>
       /\ pay[k].sub \in Made
       /\ <<pay[k].status, sub[pay[k].sub].status>> \in Agreeing
  /\ \A j, k \in Keys : Known(j) /\ Known(k) /\ pay[j].sub = pay[k].sub => j = k

Linked ==
  /\ \E n \in 0..MaxSubscriptions : Made = 1..n
  /\ \A k \in Keys : gate[k] # "none" => Known(k)
  /\ \A k \in shown \cup redeemed : Known(k)
  /\ \A e \in due : Received(e[2])

Tables == Typed /\ Paired /\ Linked /\ AccessIsPaid /\ RedemptionsRight

----------------------------------------------------------------------------
(* A request h.  It works on the payment of its key from the moment it has *)
(* created it until the checkout is over.                                  *)

Opening == {"reserve", "undo", "gateway", "store", "audit"}
Buying  == {"key", "open", "price", "claim", "subscribe", "pay", "reread"} \cup Opening
Closing == {"close", "undiscount", "unpromote"}
Closer  == {"cancel", "expire", "reread"} \cup Closing
Hooked  == {"receive", "find", "activate", "refund", "mark", "reject"}

Works(h, k) ==
  /\ h.op = "checkout" /\ h.key = k
  /\ \/ h.pc \in Opening
     \/ h.pc = "close" /\ h.verdict = "FAILED"

Asks(h) ==
  /\ h.op = "checkout" => h.key \in Keys /\ h.user = Owner[h.key]
  /\ h.pc \in {"stale", "downgrade"} => h.user \in Users
  /\ h.pc \in Buying => h.op = "checkout"
  /\ h.pc \in Closer => h.op \in {"checkout", "cancel", "status"} /\ h.target \in Keys
  /\ h.pc \in Closing => h.verdict \in {"FAILED", "CANCELLED", "EXPIRED"}
  /\ h.pc \in Hooked => h.op \in {"paid", "refund"} /\ h.key \in Keys

\* A subscription that waits for its payment.
Waits(s) == /\ s \in Made /\ sub[s].status = "PENDING"
            /\ \A k \in Keys : Known(k) => pay[k].sub # s

Needs(h) ==
  /\ h.pc = "pay" => Waits(h.sub)
  /\ \A k \in Keys : Works(h, k) => Known(k)
  /\ h.pc \in Closer => Known(h.target)
  /\ h.pc \in Hooked => Received(h.key)
  /\ h.pc \in {"reserve", "gateway"} => gate[h.key] = "none"
  /\ h.pc = "reserve" => h.key \notin redeemed
  /\ h.pc \in {"gateway", "store"} /\ pay[h.key].offer = "promotion"
       => pay[h.key].status # "PENDING" \/ h.key \in redeemed
  /\ h.pc \in {"undiscount", "unpromote"} => pay[h.target].status # "PENDING"

\* Of two requests, one works on the payment of a key, and one has created a
\* subscription.
Alone ==
  \A r, q \in Slots :
    \/ \E k \in Keys : Works(handler[r], k) /\ Works(handler[q], k)
    \/ handler[r].pc = "pay" /\ handler[q].pc = "pay" /\ handler[r].sub = handler[q].sub
    => r = q

BillingInv ==
  /\ Tables
  /\ handler \in [Slots -> Request]
  /\ \A r \in Slots : Asks(handler[r]) /\ Needs(handler[r])
  /\ Alone

----------------------------------------------------------------------------
(* What a step of one request, r, may do to the tables so that nothing is  *)
(* taken away that another relies on.                                      *)

Grows(r) ==
  /\ Made \subseteq Made'
  /\ \A s \in Made : Waits(s) => sub'[s].status = "PENDING"
  /\ \A k \in Keys :
       /\ Known(k) => /\ Known(k)'
                      /\ pay'[k].offer = pay[k].offer /\ pay'[k].sub = pay[k].sub
                      /\ pay[k].status # "PENDING" => pay'[k].status # "PENDING"
       /\ ~Known(k) /\ Known(k)' => handler[r].pc = "pay" /\ pay'[k].sub = handler[r].sub
       /\ Received(k) => Received(k)'
       /\ gate[k] = "none" /\ gate'[k] # "none" => Works(handler[r], k)
       /\ k \in redeemed' \ redeemed => Works(handler[r], k)
       /\ k \in redeemed \ redeemed' => pay'[k].status # "PENDING"

\* The payment and the subscription that r takes over are nobody's.
Takes(x, r) ==
  /\ \A k \in Keys : Works(x, k) => Works(handler[r], k) \/ ~Known(k)
  /\ x.pc = "pay" => x.sub \notin Made

LEMMA AskFacts ==
  ASSUME NEW h \in Request, Asks(h)
  PROVE  /\ h.pc \in Opening => Works(h, h.key) /\ h.key \in Keys
         /\ h.pc \in Closer => h.target \in Keys
         /\ h.pc \in Hooked => h.key \in Keys
<1>1. h.pc \in Opening => h.op = "checkout"
  BY DEF Asks, Buying
<1>2. h.pc \in Opening => h.key \in Keys
  BY <1>1 DEF Asks
<1>3. h.pc \in Opening => Works(h, h.key)
  BY <1>1 DEF Works
<1>4. /\ h.pc \in Closer => h.target \in Keys
      /\ h.pc \in Hooked => h.key \in Keys
  BY DEF Asks
<1> QED
  BY <1>2, <1>3, <1>4

\* A request that another's step does not touch still has what it needs.
LEMMA OthersKeep ==
  ASSUME NEW r \in Slots, NEW y \in Request, Asks(y), Needs(y), Grows(r),
         \A k \in Keys : ~(Works(y, k) /\ Works(handler[r], k)),
         ~(y.pc = "pay" /\ handler[r].pc = "pay" /\ y.sub = handler[r].sub)
  PROVE  Needs(y)'
<1>1. /\ y.pc \in Opening => Works(y, y.key) /\ y.key \in Keys
      /\ y.pc \in Closer => y.target \in Keys
      /\ y.pc \in Hooked => y.key \in Keys
  BY AskFacts
<1>2. y.pc = "pay" => Waits(y.sub)'
  <2> SUFFICES ASSUME y.pc = "pay" PROVE Waits(y.sub)'
    OBVIOUS
  <2>1. Waits(y.sub) /\ y.sub \in Made
    BY DEF Needs, Waits
  <2>2. y.sub \in Made' /\ sub'[y.sub].status = "PENDING"
    BY <2>1 DEF Grows
  <2>3. ASSUME NEW k \in Keys, Known(k)' PROVE pay'[k].sub # y.sub
    BY <2>1, <2>3 DEF Grows, Waits
  <2> QED
    BY <2>2, <2>3 DEF Waits
<1>3. \A k \in Keys : Works(y, k) => Known(k)'
  BY DEF Needs, Grows
<1>4. y.pc \in Closer => Known(y.target)'
  BY <1>1 DEF Needs, Grows
<1>5. y.pc \in Hooked => Received(y.key)'
  BY <1>1 DEF Needs, Grows
<1>6. y.pc \in {"reserve", "gateway"} => gate'[y.key] = "none"
  BY <1>1 DEF Needs, Grows, Opening
<1>7. y.pc = "reserve" => y.key \notin redeemed'
  BY <1>1 DEF Needs, Grows, Opening
<1>8. y.pc \in {"gateway", "store"} /\ pay'[y.key].offer = "promotion"
        => pay'[y.key].status # "PENDING" \/ y.key \in redeemed'
  <2> SUFFICES ASSUME y.pc \in {"gateway", "store"}, pay'[y.key].offer = "promotion"
               PROVE  pay'[y.key].status # "PENDING" \/ y.key \in redeemed'
    OBVIOUS
  <2>1. y.key \in Keys /\ Known(y.key)
    BY <1>1 DEF Needs, Opening
  <2>2. pay[y.key].offer = "promotion"
    BY <2>1 DEF Grows
  <2>3. pay[y.key].status # "PENDING" \/ y.key \in redeemed
    BY <2>2 DEF Needs
  <2> QED
    BY <2>1, <2>3 DEF Grows
<1>9. y.pc \in {"undiscount", "unpromote"} => pay'[y.target].status # "PENDING"
  BY <1>1 DEF Needs, Grows, Closer, Closing
<1> QED
  BY <1>2, <1>3, <1>4, <1>5, <1>6, <1>7, <1>8, <1>9 DEF Needs

LEMMA RequestGoes ==
  ASSUME BillingInv, Tables', NEW r \in Slots, NEW x \in Request,
         handler' = [handler EXCEPT ![r] = x],
         Grows(r), Asks(x), Needs(x)', Takes(x, r)
  PROVE  BillingInv'
<1>1. \A q \in Slots : handler'[q] = IF q = r THEN x ELSE handler[q]
  BY DEF BillingInv
<1>2. handler' \in [Slots -> Request]
  BY DEF BillingInv
<1>3. ASSUME NEW q \in Slots, q # r
      PROVE  (Asks(handler[q]) /\ Needs(handler[q]))'
  <2>1. handler'[q] = handler[q]
    BY <1>1, <1>3
  <2>2. PICK y \in Request : y = handler[q]
    BY DEF BillingInv
  <2>3. Asks(y) /\ Needs(y)
    BY <2>2 DEF BillingInv
  <2>4. /\ \A k \in Keys : ~(Works(y, k) /\ Works(handler[r], k))
        /\ ~(y.pc = "pay" /\ handler[r].pc = "pay" /\ y.sub = handler[r].sub)
    BY <1>3, <2>2 DEF BillingInv, Alone
  <2>5. Needs(y)'
    BY <2>3, <2>4, OthersKeep
  <2>6. Asks(y)'
    BY <2>3 DEF Asks
  <2> QED
    BY <2>1, <2>2, <2>5, <2>6
<1>4. Asks(x)'
  BY DEF Asks
<1>5. \A q \in Slots : (Asks(handler[q]) /\ Needs(handler[q]))'
  BY <1>1, <1>3, <1>4
<1>6. ASSUME NEW q \in Slots, q # r
      PROVE  /\ \A k \in Keys : ~(Works(x, k) /\ Works(handler[q], k))
             /\ ~(x.pc = "pay" /\ handler[q].pc = "pay" /\ x.sub = handler[q].sub)
  <2>1. \A k \in Keys : Works(handler[q], k) => Known(k)
    BY DEF BillingInv, Needs
  <2>2. \A k \in Keys : ~(Works(handler[r], k) /\ Works(handler[q], k))
    BY <1>6 DEF BillingInv, Alone
  <2>3. handler[q].pc = "pay" => handler[q].sub \in Made
    BY DEF BillingInv, Needs, Waits
  <2> QED
    BY <2>1, <2>2, <2>3 DEF Takes
<1>7. Alone'
  <2> SUFFICES ASSUME NEW p \in Slots, NEW q \in Slots, p # q
               PROVE  /\ ~ \E k \in Keys : Works(handler'[p], k) /\ Works(handler'[q], k)
                      /\ ~(handler'[p].pc = "pay" /\ handler'[q].pc = "pay"
                             /\ handler'[p].sub = handler'[q].sub)
    BY DEF Alone, Works
  <2>1. CASE p # r /\ q # r
    BY <1>1, <2>1 DEF BillingInv, Alone
  <2>2. CASE p = r
    BY <1>1, <1>6, <2>2
  <2>3. CASE q = r
    BY <1>1, <1>6, <2>3
  <2> QED
    BY <2>1, <2>2, <2>3
<1> QED
  BY <1>2, <1>5, <1>7 DEF BillingInv

----------------------------------------------------------------------------
(* Steps that leave payments, subscriptions, redemptions and the           *)
(* provider's sessions alone take nothing away.                            *)

LEMMA Still ==
  ASSUME Typed, NEW r, UNCHANGED <<sub, pay, redeemed, gate>>
  PROVE  Grows(r)
BY DEF Grows, Made, Known, Received, Waits

LEMMA SideTables ==
  ASSUME Tables, Typed', UNCHANGED <<sub, pay, redeemed, promoted, gate>>,
         \A k \in shown' : k \in shown \/ Known(k),
         \A e \in due' : e \in due \/ Received(e[2]),
         \A u \in Users : plan'[u] = "PRO" => plan[u] = "PRO"
  PROVE  Tables'
<1>1. Paired'
  BY DEF Tables, Paired, Known, Made
<1>2. Linked'
  BY DEF Tables, Linked, Known, Made, Received
<1>3. AccessIsPaid'
  BY DEF Tables, AccessIsPaid, Known, Made, Received
<1>4. RedemptionsRight'
  BY DEF Tables, RedemptionsRight, PromotionCounted, OpenHoldsRedemption, Redeemed, Known
<1> QED
  BY <1>1, <1>2, <1>3, <1>4 DEF Tables

\* A payment is closed, or given back, with its subscription.
LEMMA Closes ==
  ASSUME Tables, NEW k \in Keys, Known(k),
         NEW v \in {"FAILED", "CANCELLED", "EXPIRED", "REFUNDED"}, SetRows(k, v),
         UNCHANGED <<now, redeemed, promoted, discounts, event, gate, due, shown, left>>,
         \/ UNCHANGED plan
         \/ \E u \in Users : plan' = [plan EXCEPT ![u] = "FREE"]
  PROVE  /\ Tables'
         /\ pay'[k].status = v
         /\ \A r \in Slots : Grows(r)
<1> DEFINE s == pay[k].sub
<1>1. pay[k] \in Payment /\ s \in Made /\ s \in Subscriptions /\ sub[s] \in Subscription
  <2>1. pay[k] \in Payment
    BY DEF Tables, Typed, Known, None
  <2>2. s \in Made
    BY DEF Tables, Paired
  <2>3. sub[s] \in Subscription
    BY <2>2 DEF Tables, Typed, Made, None
  <2> QED
    BY <2>1, <2>2, <2>3 DEF Made
<1>2. \A j \in Keys : /\ j # k => pay'[j] = pay[j]
                      /\ Known(j)' <=> Known(j)
                      /\ Known(j) => pay'[j].sub = pay[j].sub /\ pay'[j].offer = pay[j].offer
                      /\ Known(j) => pay'[j].session = pay[j].session
  BY <1>1 DEF Tables, Typed, SetRows, Known, Payment
<1>3. pay'[k].status = v /\ pay'[k] \in Payment
  BY <1>1 DEF Tables, Typed, SetRows, Payment, PaymentStatuses
<1>4. /\ \A t \in Subscriptions : t # s => sub'[t] = sub[t]
      /\ sub'[s].status = SubscriptionVerdict(v)
      /\ sub'[s] \in Subscription
  BY <1>1 DEF Tables, Typed, SetRows, Subscription, SubscriptionStatuses, SubscriptionVerdict
<1>5. Made' = Made
  BY <1>1, <1>4 DEF Made, Subscription, SubscriptionStatuses
<1>6. \A j \in Keys : Known(j) /\ j # k => pay[j].sub # s
  BY DEF Tables, Paired
<1>7. Typed'
  <2>1. plan' \in [Users -> {"FREE", "PRO"}]
    BY DEF Tables, Typed
  <2>2. pay' \in [Keys -> Payment \cup {None}]
    BY <1>3 DEF Tables, Typed, SetRows
  <2>3. sub' \in [Subscriptions -> Subscription \cup {None}]
    BY <1>1, <1>4 DEF Tables, Typed, SetRows
  <2> QED
    BY <2>1, <2>2, <2>3 DEF Tables, Typed
<1>8. Paired'
  <2>1. ASSUME NEW j \in Keys, Known(j)'
        PROVE  /\ pay'[j].sub \in Made'
               /\ <<pay'[j].status, sub'[pay'[j].sub].status>> \in Agreeing
    <3>1. CASE j = k
      BY <1>1, <1>2, <1>3, <1>4, <1>5, <3>1 DEF Agreeing, SubscriptionVerdict
    <3>2. CASE j # k
      <4>1. Known(j) /\ pay'[j] = pay[j] /\ pay[j].sub # s
        BY <1>2, <1>6, <2>1, <3>2
      <4>2. pay[j].sub \in Made /\ <<pay[j].status, sub[pay[j].sub].status>> \in Agreeing
        BY <4>1 DEF Tables, Paired
      <4>3. sub'[pay[j].sub] = sub[pay[j].sub]
        BY <1>4, <4>1, <4>2 DEF Made
      <4> QED
        BY <1>5, <4>1, <4>2, <4>3
    <3> QED
      BY <3>1, <3>2
  <2>2. \A i, j \in Keys : Known(i)' /\ Known(j)' /\ pay'[i].sub = pay'[j].sub => i = j
    BY <1>2 DEF Tables, Paired
  <2> QED
    BY <2>1, <2>2 DEF Paired, Known
<1>9. Linked'
  <2>1. \E n \in 0..MaxSubscriptions : Made' = 1..n
    BY <1>5 DEF Tables, Linked
  <2>2. \A j \in Keys : gate'[j] # "none" => Known(j)'
    BY <1>2 DEF Tables, Linked
  <2>3. \A j \in shown' \cup redeemed' : Known(j)'
    BY <1>2 DEF Tables, Typed, Linked
  <2>4. \A e \in due' : Received(e[2])'
    BY DEF Tables, Linked, Received
  <2> QED
    BY <2>1, <2>2, <2>3, <2>4 DEF Linked, Made, Known, Received
<1>10. AccessIsPaid'
  <2>1. ASSUME NEW t \in Made', sub'[t].status = "ACTIVE"
        PROVE  \E j \in Keys : Known(j)' /\ pay'[j].sub = t /\ Received(j)'
    <3>1. t # s /\ t \in Made /\ sub[t].status = "ACTIVE"
      BY <1>4, <1>5, <2>1 DEF Made, SubscriptionVerdict
    <3>2. PICK j \in Keys : Known(j) /\ pay[j].sub = t /\ Received(j)
      BY <3>1 DEF Tables, AccessIsPaid
    <3> QED
      BY <1>2, <3>2 DEF Received
  <2>2. \A u \in Users : plan'[u] = "PRO" => plan[u] = "PRO"
    BY DEF Tables, Typed
  <2>3. \A u \in Users : plan'[u] = "PRO" => \E j \in Keys : Owner[j] = u /\ Received(j)'
    BY <2>2 DEF Tables, AccessIsPaid, Received
  <2> QED
    BY <2>1, <2>3 DEF AccessIsPaid, Known, Received
<1>11. RedemptionsRight'
  <2>1. PromotionCounted'
    BY DEF Tables, RedemptionsRight, PromotionCounted, Redeemed
  <2>2. OpenHoldsRedemption'
    BY <1>2, <1>3 DEF Tables, RedemptionsRight, OpenHoldsRedemption
  <2> QED
    BY <2>1, <2>2 DEF RedemptionsRight
<1>12. ASSUME NEW r \in Slots PROVE Grows(r)
  <2>1. \A t \in Made : Waits(t) => sub'[t].status = "PENDING"
    BY <1>4 DEF Waits, Made
  <2>2. \A j \in Keys : Known(j) /\ pay[j].status # "PENDING" => pay'[j].status # "PENDING"
    BY <1>2, <1>3
  <2> QED
    BY <1>2, <1>5, <2>1, <2>2 DEF Grows, Received
<1> QED
  BY <1>3, <1>7, <1>8, <1>9, <1>10, <1>11, <1>12 DEF Tables

----------------------------------------------------------------------------
(* Steps of a request that is served: it goes on at a label with what it   *)
(* carries, ends, or goes on with something new.                           *)

Moved(x, r, label) ==
  /\ x.pc = label
  /\ x.op = handler[r].op /\ x.user = handler[r].user /\ x.key = handler[r].key
  /\ x.offer = handler[r].offer /\ x.at = handler[r].at /\ x.sub = handler[r].sub
  /\ x.target = handler[r].target /\ x.verdict = handler[r].verdict

LEMMA IdleIsFree ==
  /\ Idle \in Request /\ Asks(Idle) /\ Needs(Idle)'
  /\ \A r : Takes(Idle, r)
<1>1. Idle \in Request
  BY DEF Idle, Request, Labels, Offers
<1>2. Idle.pc = "idle" /\ Idle.op = "none"
  BY DEF Idle
<1>3. Asks(Idle)
  BY <1>2 DEF Asks, Buying, Opening, Closer, Closing, Hooked
<1>4. \A k : ~Works(Idle, k)
  BY <1>2 DEF Works
<1>5. Needs(Idle)'
  BY <1>2, <1>4 DEF Needs, Closer, Closing, Hooked
<1>6. \A r : Takes(Idle, r)
  BY <1>2, <1>4 DEF Takes
<1> QED
  BY <1>1, <1>3, <1>5, <1>6

LEMMA Ends ==
  ASSUME BillingInv, Tables', NEW r \in Slots, Grows(r),
         handler' = [handler EXCEPT ![r] = Idle]
  PROVE  BillingInv'
BY IdleIsFree, RequestGoes

LEMMA GoesOn ==
  ASSUME BillingInv, Tables', NEW r \in Slots, NEW label \in Labels,
         Goto(r, label), Grows(r),
         \A x \in Request : Moved(x, r, label) /\ label # "idle"
                              => Asks(x) /\ Needs(x)' /\ Takes(x, r)
  PROVE  BillingInv'
<1>1. handler[r] \in Request
  BY DEF BillingInv
<1>2. CASE label = "idle"
  <2>1. handler' = [handler EXCEPT ![r] = Idle]
    BY <1>1, <1>2 DEF Goto, Becomes, Request
  <2> QED
    BY <2>1, Ends
<1>3. CASE label # "idle"
  <2>1. PICK x \in Request : x = [handler[r] EXCEPT !.pc = label]
    BY <1>1 DEF Request
  <2>2. Moved(x, r, label)
    BY <1>1, <2>1 DEF Moved, Request
  <2>3. handler' = [handler EXCEPT ![r] = x]
    BY <1>3, <2>1, <2>2 DEF Goto, Becomes, Moved
  <2> QED
    BY <1>3, <2>2, <2>3, RequestGoes
<1> QED
  BY <1>2, <1>3

\* Steps of the environment: no request moves, and a session that is open stays known.
LEMMA Outside ==
  ASSUME BillingInv, Tables', UNCHANGED <<sub, pay, redeemed, handler>>,
         \A k \in Keys : /\ gate[k] = "none" <=> gate'[k] = "none"
                         /\ Received(k) => Received(k)'
  PROVE  BillingInv'
<1>1. ASSUME NEW r \in Slots
      PROVE  (Asks(handler[r]) /\ Needs(handler[r]))'
  <2>1. handler'[r] = handler[r]
    OBVIOUS
  <2>2. PICK y \in Request : y = handler[r]
    BY DEF BillingInv
  <2>3. Asks(y) /\ Needs(y)
    BY <2>2 DEF BillingInv
  <2>4. /\ y.pc \in Opening => y.key \in Keys
        /\ y.pc \in Hooked => y.key \in Keys
    BY <2>3, AskFacts
  <2>5. Waits(y.sub)' <=> Waits(y.sub)
    BY DEF Waits, Made, Known
  <2>6. /\ \A k \in Keys : Known(k) <=> Known(k)'
        /\ Known(y.target) <=> Known(y.target)'
    BY DEF Known
  <2>7. y.pc \in Hooked => Received(y.key)'
    BY <2>3, <2>4 DEF Needs
  <2>8. y.pc \in {"reserve", "gateway"} => gate'[y.key] = "none"
    BY <2>3, <2>4 DEF Needs, Opening
  <2>9. Needs(y)'
    BY <2>3, <2>5, <2>6, <2>7, <2>8 DEF Needs
  <2> QED
    BY <2>1, <2>2, <2>3, <2>9 DEF Asks
<1>2. Alone'
  BY DEF BillingInv, Alone, Works
<1> QED
  BY <1>1, <1>2 DEF BillingInv

----------------------------------------------------------------------------
(* Steps that read, and steps that fail.                                   *)

LEMMA NothingWritten ==
  ASSUME Tables, UNCHANGED <<now, rows, provider>>,
         \/ UNCHANGED left
         \/ left.faults > 0 /\ left' = [left EXCEPT !.faults = @ - 1]
  PROVE  Tables' /\ \A r : Grows(r)
<1>1. Typed
  BY DEF Tables
<1>2. left' \in [keys : SUBSET Keys, commands : SUBSET Commands,
                 codes : SUBSET Codes, refunds : Nat, faults : Nat]
  BY <1>1 DEF Typed
<1>3. Typed'
  BY <1>1, <1>2 DEF Typed, rows, provider
<1> QED
  BY <1>1, <1>3, SideTables, Still DEF rows, provider

LEMMA FindOpenStep ==
  ASSUME BillingInv, NEW r \in Slots, FindOpen(r)
  PROVE  BillingInv'
<1>1. Tables' /\ Grows(r)
  BY NothingWritten DEF BillingInv, FindOpen
<1>2. /\ handler[r] \in Request /\ handler[r].pc = "open"
      /\ handler[r].op = "checkout" /\ handler[r].key \in Keys
      /\ handler[r].user = Owner[handler[r].key]
  BY DEF BillingInv, FindOpen, At, Asks, Buying
<1>3. ASSUME NEW label \in {"price", "idle"}, Goto(r, label)
      PROVE  BillingInv'
  <2>1. ASSUME NEW x \in Request, Moved(x, r, label), label # "idle"
        PROVE  Asks(x) /\ Needs(x)' /\ Takes(x, r)
    <3>1. x.pc = "price" /\ x.op = "checkout" /\ x.key \in Keys /\ x.user = Owner[x.key]
      BY <1>2, <2>1 DEF Moved
    <3> QED
      BY <3>1 DEF Asks, Needs, Takes, Works, Buying, Opening, Closer, Closing, Hooked
  <2> QED
    BY <1>1, <1>3, <2>1, GoesOn DEF Labels
<1>4. ASSUME NEW k \in Keys, Known(k),
             Becomes(r, [handler[r] EXCEPT !.target = k, !.pc = "expire"])
      PROVE  BillingInv'
  <2>1. PICK x \in Request : x = [handler[r] EXCEPT !.target = k, !.pc = "expire"]
    BY <1>2 DEF Request, Labels
  <2>2. /\ x.pc = "expire" /\ x.target = k /\ x.op = "checkout" /\ x.key \in Keys
        /\ x.user = Owner[x.key]
    BY <1>2, <2>1 DEF Request
  <2>3. handler' = [handler EXCEPT ![r] = x]
    BY <1>4, <2>1, <2>2 DEF Becomes
  <2>4. Known(k)'
    BY <1>1, <1>4 DEF Grows
  <2>5. Asks(x) /\ Needs(x)' /\ Takes(x, r)
    BY <2>2, <2>4 DEF Asks, Needs, Takes, Works, Buying, Opening, Closer, Closing, Hooked
  <2> QED
    BY <1>1, <2>3, <2>5, RequestGoes
<1> QED
  BY <1>3, <1>4 DEF FindOpen, PendingOf

LEMMA PriceStep ==
  ASSUME BillingInv, NEW r \in Slots, Price(r)
  PROVE  BillingInv'
<1>1. Tables' /\ Grows(r)
  BY NothingWritten DEF BillingInv, Price
<1>2. /\ handler[r] \in Request /\ handler[r].pc = "price"
      /\ handler[r].op = "checkout" /\ handler[r].key \in Keys
      /\ handler[r].user = Owner[handler[r].key]
  BY DEF BillingInv, Price, At, Asks, Buying
<1>3. ASSUME NEW label \in {"claim", "idle"}, Goto(r, label)
      PROVE  BillingInv'
  <2>1. ASSUME NEW x \in Request, Moved(x, r, label), label # "idle"
        PROVE  Asks(x) /\ Needs(x)' /\ Takes(x, r)
    <3>1. x.pc = "claim" /\ x.op = "checkout" /\ x.key \in Keys /\ x.user = Owner[x.key]
      BY <1>2, <2>1 DEF Moved
    <3> QED
      BY <3>1 DEF Asks, Needs, Takes, Works, Buying, Opening, Closer, Closing, Hooked
  <2> QED
    BY <1>1, <1>3, <2>1, GoesOn DEF Labels
<1>4. ASSUME NEW o \in {"promotion", "none"},
             Becomes(r, [handler[r] EXCEPT !.pc = "subscribe", !.offer = o])
      PROVE  BillingInv'
  <2>0. "subscribe" \in Labels /\ o \in Offers
    BY DEF Labels, Offers
  <2>1. PICK x \in Request : x = [handler[r] EXCEPT !.pc = "subscribe", !.offer = o]
    BY <1>2, <2>0 DEF Request
  <2>2. /\ x.pc = "subscribe" /\ x.op = "checkout" /\ x.key \in Keys
        /\ x.user = Owner[x.key]
    BY <1>2, <2>1 DEF Request
  <2>3. handler' = [handler EXCEPT ![r] = x]
    BY <1>4, <2>1, <2>2 DEF Becomes
  <2>4. Asks(x) /\ Needs(x)' /\ Takes(x, r)
    BY <2>2 DEF Asks, Needs, Takes, Works, Buying, Opening, Closer, Closing, Hooked
  <2> QED
    BY <1>1, <2>3, <2>4, RequestGoes
<1> QED
  BY <1>3, <1>4 DEF Price

LEMMA ReadCancelStep ==
  ASSUME BillingInv, NEW r \in Slots, ReadCancel(r)
  PROVE  BillingInv'
<1>1. Tables' /\ Grows(r)
  BY NothingWritten DEF BillingInv, ReadCancel
<1>2. /\ handler[r] \in Request /\ handler[r].pc = "cancel"
      /\ Asks(handler[r]) /\ Needs(handler[r])
  BY DEF BillingInv, ReadCancel, At
<1>3. PICK k \in Keys :
        /\ k = handler[r].target /\ Known(k)'
        /\ handler[r].op \in {"checkout", "cancel", "status"}
        /\ handler[r].op = "checkout"
             => handler[r].key \in Keys /\ handler[r].user = Owner[handler[r].key]
  BY <1>1, <1>2 DEF Asks, Needs, Closer, Grows
<1>4. ASSUME Goto(r, "expire")
      PROVE  BillingInv'
  <2>1. ASSUME NEW x \in Request, Moved(x, r, "expire")
        PROVE  Asks(x) /\ Needs(x)' /\ Takes(x, r)
    BY <1>3, <2>1 DEF Moved, Asks, Needs, Takes, Works, Buying, Opening, Closer, Closing, Hooked
  <2> QED
    BY <1>1, <1>4, <2>1, GoesOn DEF Labels
<1>5. ASSUME Becomes(r, [handler[r] EXCEPT !.pc = "close", !.verdict = "CANCELLED"])
      PROVE  BillingInv'
  <2>0. "close" \in Labels /\ "CANCELLED" \in PaymentStatuses
    BY DEF Labels, PaymentStatuses
  <2>1. PICK x \in Request : x = [handler[r] EXCEPT !.pc = "close", !.verdict = "CANCELLED"]
    BY <1>2, <2>0 DEF Request
  <2>2. /\ x.pc = "close" /\ x.verdict = "CANCELLED" /\ x.op = handler[r].op
        /\ x.target = handler[r].target /\ x.key = handler[r].key
        /\ x.user = handler[r].user
    BY <1>2, <2>1 DEF Request
  <2>3. handler' = [handler EXCEPT ![r] = x]
    BY <1>5, <2>1, <2>2 DEF Becomes
  <2>4. Asks(x) /\ Needs(x)' /\ Takes(x, r)
    BY <1>3, <2>2 DEF Asks, Needs, Takes, Works, Buying, Opening, Closer, Closing, Hooked
  <2> QED
    BY <1>1, <2>3, <2>4, RequestGoes
<1> QED
  BY <1>4, <1>5 DEF ReadCancel

LEMMA ReadExpireStep ==
  ASSUME BillingInv, NEW r \in Slots, ReadExpire(r)
  PROVE  BillingInv'
<1>1. Tables' /\ Grows(r)
  BY NothingWritten DEF BillingInv, ReadExpire
<1>2. /\ handler[r] \in Request /\ handler[r].pc = "expire"
      /\ Asks(handler[r]) /\ Needs(handler[r])
  BY DEF BillingInv, ReadExpire, At
<1>3. PICK k \in Keys :
        /\ k = handler[r].target /\ Known(k)'
        /\ handler[r].op \in {"checkout", "cancel", "status"}
        /\ handler[r].op = "checkout"
             => handler[r].key \in Keys /\ handler[r].user = Owner[handler[r].key]
  BY <1>1, <1>2 DEF Asks, Needs, Closer, Grows
<1>4. ASSUME NEW label \in {"reread", "idle"}, Goto(r, label),
             label = "reread" => handler[r].op = "checkout"
      PROVE  BillingInv'
  <2>1. ASSUME NEW x \in Request, Moved(x, r, label), label # "idle"
        PROVE  Asks(x) /\ Needs(x)' /\ Takes(x, r)
    <3>1. /\ x.pc = "reread" /\ x.op = "checkout" /\ handler[r].op = "checkout"
          /\ x.key = handler[r].key /\ x.user = handler[r].user /\ x.target = handler[r].target
      BY <1>4, <2>1 DEF Moved
    <3> QED
      BY <1>3, <3>1 DEF Asks, Needs, Takes, Works, Buying, Opening, Closer, Closing, Hooked
  <2> QED
    BY <1>1, <1>4, <2>1, GoesOn DEF Labels
<1>5. ASSUME Becomes(r, [handler[r] EXCEPT !.pc = "close", !.verdict = "EXPIRED"])
      PROVE  BillingInv'
  <2>0. "close" \in Labels /\ "EXPIRED" \in PaymentStatuses
    BY DEF Labels, PaymentStatuses
  <2>1. PICK x \in Request : x = [handler[r] EXCEPT !.pc = "close", !.verdict = "EXPIRED"]
    BY <1>2, <2>0 DEF Request
  <2>2. /\ x.pc = "close" /\ x.verdict = "EXPIRED" /\ x.op = handler[r].op
        /\ x.target = handler[r].target /\ x.key = handler[r].key
        /\ x.user = handler[r].user
    BY <1>2, <2>1 DEF Request
  <2>3. handler' = [handler EXCEPT ![r] = x]
    BY <1>5, <2>1, <2>2 DEF Becomes
  <2>4. Asks(x) /\ Needs(x)' /\ Takes(x, r)
    BY <1>3, <2>2 DEF Asks, Needs, Takes, Works, Buying, Opening, Closer, Closing, Hooked
  <2> QED
    BY <1>1, <2>3, <2>4, RequestGoes
<1> QED
  BY <1>4, <1>5 DEF ReadExpire

LEMMA FindStep ==
  ASSUME BillingInv, NEW r \in Slots, FindPaid(r) \/ FindRefund(r)
  PROVE  BillingInv'
<1>1. Tables' /\ Grows(r)
  BY NothingWritten DEF BillingInv, FindPaid, FindRefund
<1>2. /\ handler[r] \in Request /\ handler[r].pc = "find"
      /\ Asks(handler[r]) /\ Needs(handler[r])
  BY DEF BillingInv, FindPaid, FindRefund, At
<1>3. PICK k \in Keys : k = handler[r].key /\ Received(k)' /\ handler[r].op \in {"paid", "refund"}
  BY <1>1, <1>2 DEF Asks, Needs, Hooked, Grows
<1>4. PICK label \in {"reject", "mark", "activate", "refund"} : Goto(r, label)
  BY DEF FindPaid, FindRefund
<1>5. ASSUME NEW x \in Request, Moved(x, r, label)
      PROVE  Asks(x) /\ Needs(x)' /\ Takes(x, r)
  BY <1>3, <1>5 DEF Moved, Asks, Needs, Takes, Works, Buying, Opening, Closer, Closing, Hooked
<1> QED
  BY <1>1, <1>4, <1>5, GoesOn DEF Labels

LEMMA WebhookFailsStep ==
  ASSUME BillingInv, NEW r \in Slots, WebhookFails(r)
  PROVE  BillingInv'
<1>1. Tables' /\ Grows(r)
  BY NothingWritten DEF BillingInv, WebhookFails
<1>2. /\ handler[r] \in Request /\ handler[r].pc \in Hooked
      /\ Asks(handler[r]) /\ Needs(handler[r])
  BY DEF BillingInv, WebhookFails, Hooked
<1>3. PICK k \in Keys : k = handler[r].key /\ Received(k)' /\ handler[r].op \in {"paid", "refund"}
  BY <1>1, <1>2 DEF Asks, Needs, Grows
<1>4. Goto(r, "reject")
  BY DEF WebhookFails
<1>5. ASSUME NEW x \in Request, Moved(x, r, "reject")
      PROVE  Asks(x) /\ Needs(x)' /\ Takes(x, r)
  BY <1>3, <1>5 DEF Moved, Asks, Needs, Takes, Works, Buying, Opening, Closer, Closing, Hooked
<1> QED
  BY <1>1, <1>4, <1>5, GoesOn DEF Labels

\* What a request that works on its payment has.
LEMMA Worker ==
  ASSUME BillingInv, NEW r \in Slots, handler[r].pc \in Opening, Grows(r)
  PROVE  \E k \in Keys :
           /\ k = handler[r].key /\ handler[r].op = "checkout" /\ handler[r].user = Owner[k]
           /\ Known(k) /\ Known(k)' /\ Works(handler[r], k)
<1>1. handler[r] \in Request /\ Asks(handler[r]) /\ Needs(handler[r])
  BY DEF BillingInv
<1> QED
  BY <1>1 DEF Asks, Needs, Works, Buying, Grows

LEMMA ReserveFailsStep ==
  ASSUME BillingInv, NEW r \in Slots, ReserveFails(r)
  PROVE  BillingInv'
<1>1. Tables' /\ Grows(r)
  BY NothingWritten DEF BillingInv, ReserveFails
<1>2. handler[r].pc \in Opening
  BY DEF ReserveFails, At, Opening
<1>3. PICK k \in Keys :
        /\ k = handler[r].key /\ handler[r].op = "checkout" /\ handler[r].user = Owner[k]
        /\ Known(k) /\ Known(k)' /\ Works(handler[r], k)
  BY <1>1, <1>2, Worker
<1>4. ASSUME NEW x \in Request, Moved(x, r, "undo")
      PROVE  Asks(x) /\ Needs(x)' /\ Takes(x, r)
  <2>1. /\ x.pc = "undo" /\ x.op = "checkout" /\ x.key = k /\ x.user = Owner[k]
    BY <1>3, <1>4 DEF Moved
  <2> QED
    BY <1>3, <2>1 DEF Asks, Needs, Takes, Works, Buying, Opening, Closer, Closing, Hooked
<1>5. Goto(r, "undo")
  BY DEF ReserveFails
<1> QED
  BY <1>1, <1>4, <1>5, GoesOn DEF Labels

LEMMA CrashStep ==
  ASSUME BillingInv, NEW r \in Slots, Crash(r)
  PROVE  BillingInv'
<1>1. Tables' /\ Grows(r)
  BY NothingWritten DEF BillingInv, Crash
<1>2. handler' = [handler EXCEPT ![r] = Idle]
  BY DEF Crash, Becomes
<1> QED
  BY <1>1, <1>2, Ends

LEMMA Begun ==
  ASSUME NEW op \in Commands, NEW u \in Users, NEW k \in Keys \cup {"none"},
         NEW o \in Offers, NEW label \in Labels, NEW a \in Nat,
         NEW j \in Keys \cup {"none"}
  PROVE  [Idle EXCEPT !.op = op, !.user = u, !.key = k, !.offer = o, !.at = a,
                      !.pc = label, !.target = j] \in Request
<1>1. Idle \in Request
  BY IdleIsFree
<1> DEFINE x == [Idle EXCEPT !.op = op, !.user = u, !.key = k]
           y == [x EXCEPT !.offer = o, !.at = a]
<1>2. x \in Request
  BY <1>1 DEF Request, Commands
<1>3. \A z \in Request : [z EXCEPT !.offer = o, !.at = a] \in Request
  BY DEF Request
<1>4. \A z \in Request : [z EXCEPT !.pc = label, !.target = j] \in Request
  BY DEF Request
<1>5. y \in Request
  <2> HIDE DEF x
  <2> QED
    BY <1>2, <1>3, Zenon
<1>6. [y EXCEPT !.pc = label, !.target = j] \in Request
  <2> HIDE DEF y
  <2> QED
    BY <1>4, <1>5, Zenon
<1> QED
  BY <1>6, Zenon

LEMMA BeginStep ==
  ASSUME BillingInv, NEW r \in Clients, Start(r)
  PROVE  BillingInv'
<1>1. /\ Tables' /\ Grows(r)
      /\ r \in Slots /\ handler[r] = Idle
  BY NothingWritten DEF BillingInv, Start, StartCheckout, StartCancel, StartStatus,
                        StartSummary, Begin, Slots
<1>2. ASSUME NEW op \in Commands, NEW u \in Users, NEW k \in Keys \cup {"none"},
             NEW o \in Offers, NEW label \in {"stale", "cancel", "expire"},
             Begin(r, op, u, k, o, label),
             \/ op = "checkout" /\ label = "stale" /\ k \in Keys /\ u = Owner[k]
             \/ op \in {"cancel", "status"} /\ label # "stale" /\ k \in Keys /\ Known(k)
             \/ op = "summary" /\ label = "stale"
      PROVE  BillingInv'
  <2> DEFINE h == [Idle EXCEPT !.op = op, !.user = u, !.key = k, !.offer = o,
                               !.at = IF op = "checkout" THEN now ELSE 0, !.pc = label,
                               !.target = IF op = "checkout" THEN "none" ELSE k]
  <2>1. now \in Nat
    BY NumbersAssumption DEF BillingInv, Tables, Typed
  <2>2. h \in Request
    <3>1. label \in Labels
      BY DEF Labels
    <3>2. PICK a \in Nat : a = IF op = "checkout" THEN now ELSE 0
      BY <2>1
    <3>3. PICK j \in Keys \cup {"none"} : j = IF op = "checkout" THEN "none" ELSE k
      OBVIOUS
    <3>4. h = [Idle EXCEPT !.op = op, !.user = u, !.key = k, !.offer = o, !.at = a,
                           !.pc = label, !.target = j]
      BY <3>2, <3>3
    <3> HIDE DEF h
    <3> QED
      BY <3>1, <3>4, Begun, Zenon
  <2>3. /\ h.pc = label /\ h.op = op /\ h.user = u /\ h.key = k
        /\ op # "checkout" => h.target = k
    BY DEF Idle
  <2>4. PICK x \in Request : x = h
    BY <2>2
  <2>5. handler' = [handler EXCEPT ![r] = x]
    BY <1>2, <2>3, <2>4 DEF Begin, Becomes
  <2> HIDE DEF h
  <2>6. \A j \in Keys : Known(j) => Known(j)'
    BY <1>1 DEF Grows
  <2>7. Asks(x) /\ Needs(x)' /\ Takes(x, r)
    BY <1>2, <2>3, <2>4, <2>6
       DEF Asks, Needs, Takes, Works, Buying, Opening, Closer, Closing, Hooked
  <2> QED
    BY <1>1, <2>5, <2>7, RequestGoes
<1>3. ASSUME NEW k \in Keys, NEW o \in Codes, StartCheckout(r, k, o)
      PROVE  BillingInv'
  <2>1. Owner[k] \in Users /\ "checkout" \in Commands /\ o \in Offers
    BY SetsAssumption DEF Commands, Codes, Offers
  <2> QED
    BY <1>2, <1>3, <2>1 DEF StartCheckout
<1>4. ASSUME NEW k \in Keys, StartCancel(r, k) \/ StartStatus(r, k)
      PROVE  BillingInv'
  <2>1. Owner[k] \in Users /\ {"cancel", "status"} \subseteq Commands /\ "none" \in Offers
    BY SetsAssumption DEF Commands, Offers
  <2> QED
    BY <1>2, <1>4, <2>1 DEF StartCancel, StartStatus
<1>5. ASSUME NEW u \in Users, StartSummary(r, u)
      PROVE  BillingInv'
  <2>1. "summary" \in Commands /\ "none" \in Offers
    BY DEF Commands, Offers
  <2> QED
    BY <1>2, <1>5, <2>1 DEF StartSummary
<1> QED
  BY <1>3, <1>4, <1>5 DEF Start

LEMMA DeliverStep ==
  ASSUME BillingInv, NEW r \in Hooks, NEW e \in Events, Deliver(r, e)
  PROVE  BillingInv'
<1>1. Tables' /\ Grows(r) /\ r \in Slots
  BY NothingWritten DEF BillingInv, Deliver, Slots
<1>2. e[1] \in {"paid", "refund"} /\ e[2] \in Keys /\ Received(e[2])
  BY DEF BillingInv, Deliver, Events, Tables, Linked
<1>3. PICK x \in Request : x = [Idle EXCEPT !.op = e[1], !.key = e[2], !.pc = "receive"]
  BY <1>2 DEF Idle, Request, Labels, Offers
<1>4. x.pc = "receive" /\ x.op = e[1] /\ x.key = e[2]
  BY <1>3 DEF Idle
<1>5. handler' = [handler EXCEPT ![r] = x]
  BY <1>3, <1>4 DEF Deliver, Becomes
<1>6. PICK k \in Keys : k = x.key /\ Received(k)'
  BY <1>1, <1>2, <1>4 DEF Grows
<1>7. Asks(x) /\ Needs(x)' /\ Takes(x, r)
  BY <1>2, <1>4, <1>6 DEF Asks, Needs, Takes, Works, Buying, Opening, Closer, Closing, Hooked
<1> QED
  BY <1>1, <1>5, <1>7, RequestGoes

----------------------------------------------------------------------------
(* Steps that write beside the payments.                                   *)

LEMMA Beside ==
  ASSUME Tables, UNCHANGED <<now, sub, pay, redeemed, promoted, gate, left>>,
         plan' = plan \/ \E u \in Users : plan' = [plan EXCEPT ![u] = "FREE"],
         discounts' = discounts \/ discounts' \in 0..DiscountMax,
         \/ event' = event
         \/ event' \in [Events -> {"none", "RECEIVED", "PROCESSED", "FAILED"}],
         due' = due \/ due' \subseteq due,
         shown' = shown \/ \E k \in Keys : Known(k) /\ shown' = shown \cup {k}
  PROVE  Tables' /\ \A r : Grows(r)
<1>1. /\ plan' \in [Users -> {"FREE", "PRO"}]
      /\ \A u \in Users : plan'[u] = "PRO" => plan[u] = "PRO"
  BY DEF Tables, Typed
<1>2. Typed'
  BY <1>1 DEF Tables, Typed
<1>3. /\ \A k \in shown' : k \in shown \/ Known(k)
      /\ \A e \in due' : e \in due \/ Received(e[2])
  OBVIOUS
<1> QED
  BY <1>1, <1>2, <1>3, SideTables, Still DEF Tables

LEMMA DowngradeStep ==
  ASSUME BillingInv, NEW r \in Slots, Downgrade(r)
  PROVE  BillingInv'
<1>1. handler[r] \in Request /\ handler[r].pc = "downgrade" /\ Asks(handler[r])
  BY DEF BillingInv, Downgrade, At
<1>2. Tables' /\ Grows(r)
  <2>1. handler[r].user \in Users
    BY <1>1 DEF Asks
  <2> QED
    BY <2>1, Beside DEF BillingInv, Downgrade, provider
<1>3. Goto(r, AfterStale(r)) /\ AfterStale(r) \in {"key", "idle"}
      /\ (AfterStale(r) = "key" => handler[r].op = "checkout")
  BY DEF Downgrade, AfterStale
<1>4. ASSUME NEW x \in Request, Moved(x, r, AfterStale(r)), AfterStale(r) # "idle"
      PROVE  Asks(x) /\ Needs(x)' /\ Takes(x, r)
  <2>1. /\ x.pc = "key" /\ x.op = "checkout" /\ x.key \in Keys /\ x.user = Owner[x.key]
    BY <1>1, <1>3, <1>4 DEF Moved, Asks
  <2> QED
    BY <2>1 DEF Asks, Needs, Takes, Works, Buying, Opening, Closer, Closing, Hooked
<1> QED
  BY <1>2, <1>3, <1>4, GoesOn DEF Labels

LEMMA FindKeyStep ==
  ASSUME BillingInv, NEW r \in Slots, FindKey(r)
  PROVE  BillingInv'
<1>1. /\ handler[r] \in Request /\ handler[r].op = "checkout"
      /\ handler[r].key \in Keys /\ handler[r].user = Owner[handler[r].key]
  BY DEF BillingInv, FindKey, At, Asks, Buying
<1>2. Tables' /\ Grows(r)
  <2>1. shown' = shown \/ \E k \in Keys : Known(k) /\ shown' = shown \cup {k}
    BY <1>1 DEF FindKey
  <2> QED
    BY <2>1, Beside DEF BillingInv, FindKey, rows
<1>3. PICK label \in {"idle", "open"} : Goto(r, label)
  BY DEF FindKey
<1>4. ASSUME NEW x \in Request, Moved(x, r, label), label # "idle"
      PROVE  Asks(x) /\ Needs(x)' /\ Takes(x, r)
  <2>1. /\ x.pc = "open" /\ x.op = "checkout" /\ x.key \in Keys /\ x.user = Owner[x.key]
    BY <1>1, <1>3, <1>4 DEF Moved
  <2> QED
    BY <2>1 DEF Asks, Needs, Takes, Works, Buying, Opening, Closer, Closing, Hooked
<1> QED
  BY <1>2, <1>3, <1>4, GoesOn DEF Labels

LEMMA RereadStep ==
  ASSUME BillingInv, NEW r \in Slots, Reread(r)
  PROVE  BillingInv'
<1>1. /\ handler[r] \in Request /\ handler[r].op = "checkout"
      /\ handler[r].key \in Keys /\ handler[r].user = Owner[handler[r].key]
      /\ handler[r].target \in Keys /\ Known(handler[r].target)
  BY DEF BillingInv, Reread, At, Asks, Needs, Buying, Closer
<1>2. Tables' /\ Grows(r)
  <2>1. shown' = shown \/ \E k \in Keys : Known(k) /\ shown' = shown \cup {k}
    BY <1>1 DEF Reread
  <2> QED
    BY <2>1, Beside DEF BillingInv, Reread, rows
<1>3. PICK label \in {"idle", "price"} : Goto(r, label)
  BY DEF Reread
<1>4. ASSUME NEW x \in Request, Moved(x, r, label), label # "idle"
      PROVE  Asks(x) /\ Needs(x)' /\ Takes(x, r)
  <2>1. /\ x.pc = "price" /\ x.op = "checkout" /\ x.key \in Keys /\ x.user = Owner[x.key]
    BY <1>1, <1>3, <1>4 DEF Moved
  <2> QED
    BY <2>1 DEF Asks, Needs, Takes, Works, Buying, Opening, Closer, Closing, Hooked
<1> QED
  BY <1>2, <1>3, <1>4, GoesOn DEF Labels

LEMMA AuditStep ==
  ASSUME BillingInv, NEW r \in Slots, Audit(r)
  PROVE  BillingInv'
<1>1. handler[r].key \in Keys /\ Known(handler[r].key)
  BY DEF BillingInv, Audit, At, Asks, Needs, Works, Buying, Opening
<1>2. Tables' /\ Grows(r)
  <2>1. shown' = shown \/ \E k \in Keys : Known(k) /\ shown' = shown \cup {k}
    BY <1>1 DEF Audit
  <2> QED
    BY <2>1, Beside DEF BillingInv, Audit, rows
<1> QED
  BY <1>2, GoesOn DEF Audit, Labels

LEMMA ClaimStep ==
  ASSUME BillingInv, NEW r \in Slots, Claim(r)
  PROVE  BillingInv'
<1>1. /\ handler[r] \in Request /\ handler[r].op = "checkout"
      /\ handler[r].key \in Keys /\ handler[r].user = Owner[handler[r].key]
  BY DEF BillingInv, Claim, At, Asks, Buying
<1>2. Tables' /\ Grows(r)
  <2>1. discounts' \in 0..DiscountMax
    BY NumbersAssumption DEF BillingInv, Tables, Typed, Claim
  <2> QED
    BY <2>1, Beside DEF BillingInv, Claim, provider
<1>3. PICK label \in {"idle", "subscribe"} : Goto(r, label)
  BY DEF Claim
<1>4. ASSUME NEW x \in Request, Moved(x, r, label), label # "idle"
      PROVE  Asks(x) /\ Needs(x)' /\ Takes(x, r)
  <2>1. /\ x.pc = "subscribe" /\ x.op = "checkout" /\ x.key \in Keys
        /\ x.user = Owner[x.key]
    BY <1>1, <1>3, <1>4 DEF Moved
  <2> QED
    BY <2>1 DEF Asks, Needs, Takes, Works, Buying, Opening, Closer, Closing, Hooked
<1> QED
  BY <1>2, <1>3, <1>4, GoesOn DEF Labels

LEMMA ReleaseDiscountStep ==
  ASSUME BillingInv, NEW r \in Slots, ReleaseDiscount(r)
  PROVE  BillingInv'
<1>1. /\ handler[r] \in Request /\ handler[r].pc = "undiscount"
      /\ Asks(handler[r]) /\ Needs(handler[r])
  BY DEF BillingInv, ReleaseDiscount, At
<1>2. Tables' /\ Grows(r)
  <2>1. discounts' \in 0..DiscountMax
    BY NumbersAssumption DEF BillingInv, Tables, Typed, ReleaseDiscount
  <2> QED
    BY <2>1, Beside DEF BillingInv, ReleaseDiscount, provider
<1>3. PICK k \in Keys :
        /\ k = handler[r].target /\ Known(k)' /\ pay'[k].status # "PENDING"
  BY <1>1, <1>2 DEF Asks, Needs, Closer, Closing, Grows
<1>4. ASSUME NEW x \in Request, Moved(x, r, "unpromote")
      PROVE  Asks(x) /\ Needs(x)' /\ Takes(x, r)
  <2>1. /\ x.pc = "unpromote" /\ x.target = k /\ x.op \in {"checkout", "cancel", "status"}
        /\ x.verdict \in {"FAILED", "CANCELLED", "EXPIRED"}
        /\ x.op = "checkout" => x.key \in Keys /\ x.user = Owner[x.key]
    BY <1>1, <1>3, <1>4 DEF Moved, Asks, Closer, Closing
  <2> QED
    BY <1>3, <2>1 DEF Asks, Needs, Takes, Works, Buying, Opening, Closer, Closing, Hooked
<1>5. Goto(r, "unpromote")
  BY DEF ReleaseDiscount
<1> QED
  BY <1>2, <1>4, <1>5, GoesOn DEF Labels

LEMMA ReceiveStep ==
  ASSUME BillingInv, NEW r \in Slots, Receive(r)
  PROVE  BillingInv'
<1>1. /\ handler[r] \in Request /\ handler[r].pc = "receive"
      /\ Asks(handler[r]) /\ Needs(handler[r])
  BY DEF BillingInv, Receive, At
<1>2. Tables' /\ Grows(r)
  <2>1. /\ event' \in [Events -> {"none", "RECEIVED", "PROCESSED", "FAILED"}]
        /\ due' = due \/ due' \subseteq due
    BY DEF BillingInv, Tables, Typed, Receive
  <2> QED
    BY <2>1, Beside DEF BillingInv, Receive
<1>3. PICK k \in Keys : k = handler[r].key /\ Received(k)' /\ handler[r].op \in {"paid", "refund"}
  BY <1>1, <1>2 DEF Asks, Needs, Hooked, Grows
<1>4. PICK label \in {"idle", "find"} : Goto(r, label)
  BY DEF Receive
<1>5. ASSUME NEW x \in Request, Moved(x, r, label), label # "idle"
      PROVE  Asks(x) /\ Needs(x)' /\ Takes(x, r)
  BY <1>3, <1>4, <1>5
     DEF Moved, Asks, Needs, Takes, Works, Buying, Opening, Closer, Closing, Hooked
<1> QED
  BY <1>2, <1>4, <1>5, GoesOn DEF Labels

LEMMA AnswerStep ==
  ASSUME BillingInv, NEW r \in Slots, Mark(r) \/ Reject(r)
  PROVE  BillingInv'
<1>1. Tables' /\ Grows(r)
  <2>1. /\ event' \in [Events -> {"none", "RECEIVED", "PROCESSED", "FAILED"}]
        /\ due' = due \/ due' \subseteq due
    BY DEF BillingInv, Tables, Typed, Mark, Reject, provider
  <2> QED
    BY <2>1, Beside DEF BillingInv, Mark, Reject, provider
<1> QED
  BY <1>1, GoesOn DEF Mark, Reject, Labels

----------------------------------------------------------------------------
(* Steps that write payments and subscriptions.                            *)

LEMMA UndoStep ==
  ASSUME BillingInv, NEW r \in Slots, Undo(r)
  PROVE  BillingInv'
<1>1. handler[r].key \in Keys /\ Known(handler[r].key)
  BY DEF BillingInv, Undo, At, Asks, Needs, Works, Buying, Opening
<1>2. Tables' /\ Grows(r)
  BY <1>1, Closes DEF BillingInv, Undo, provider
<1> QED
  BY <1>2, GoesOn DEF Undo, Labels

LEMMA CloseStep ==
  ASSUME BillingInv, NEW r \in Slots, Close(r)
  PROVE  BillingInv'
<1>1. /\ handler[r] \in Request /\ handler[r].pc = "close"
      /\ Asks(handler[r]) /\ Needs(handler[r])
  BY DEF BillingInv, Close, At
<1>2. PICK k \in Keys, v \in {"FAILED", "CANCELLED", "EXPIRED"} :
        /\ k = handler[r].target /\ v = handler[r].verdict /\ Known(k)
        /\ handler[r].op \in {"checkout", "cancel", "status"}
  BY <1>1 DEF Asks, Needs, Closer, Closing
<1>3. Tables' /\ Grows(r) /\ pay'[k].status = v
  BY <1>2, Closes DEF BillingInv, Close, provider
<1>4. ASSUME NEW x \in Request, Moved(x, r, "undiscount")
      PROVE  Asks(x) /\ Needs(x)' /\ Takes(x, r)
  <2>1. /\ x.pc = "undiscount" /\ x.target = k /\ x.op \in {"checkout", "cancel", "status"}
        /\ x.verdict = v
        /\ x.op = "checkout" => x.key \in Keys /\ x.user = Owner[x.key]
    BY <1>1, <1>2, <1>4 DEF Moved, Asks
  <2>2. Known(k)' /\ pay'[k].status # "PENDING"
    BY <1>3 DEF Known
  <2> QED
    BY <2>1, <2>2 DEF Asks, Needs, Takes, Works, Buying, Opening, Closer, Closing, Hooked
<1>5. Goto(r, "undiscount")
  BY DEF Close
<1> QED
  BY <1>3, <1>4, <1>5, GoesOn DEF Labels

\* A webhook's key has a payment, since the provider was paid for it.
LEMMA HookFacts ==
  ASSUME BillingInv, NEW r \in Slots, handler[r].pc \in Hooked
  PROVE  \E k \in Keys : /\ k = handler[r].key /\ Known(k) /\ Received(k)
                         /\ handler[r].op \in {"paid", "refund"}
<1>1. Asks(handler[r]) /\ Needs(handler[r])
  BY DEF BillingInv
<1>2. handler[r].key \in Keys /\ Received(handler[r].key)
  BY <1>1 DEF Asks, Needs
<1>3. Known(handler[r].key)
  BY <1>2 DEF BillingInv, Tables, Linked, Received
<1> QED
  BY <1>1, <1>2, <1>3 DEF Asks

\* A webhook that goes on at mark.
LEMMA HookMarks ==
  ASSUME BillingInv, Tables', NEW r \in Slots, handler[r].pc \in Hooked, Grows(r),
         Goto(r, "mark")
  PROVE  BillingInv'
<1>1. PICK k \in Keys : /\ k = handler[r].key /\ Known(k) /\ Received(k)
                        /\ handler[r].op \in {"paid", "refund"}
  BY HookFacts
<1>2. Received(k)'
  BY <1>1 DEF Grows
<1>3. ASSUME NEW x \in Request, Moved(x, r, "mark")
      PROVE  Asks(x) /\ Needs(x)' /\ Takes(x, r)
  BY <1>1, <1>2, <1>3 DEF Moved, Asks, Needs, Takes, Works, Buying, Opening, Closer, Closing, Hooked
<1> QED
  BY <1>3, GoesOn DEF Labels

LEMMA RefundStep ==
  ASSUME BillingInv, NEW r \in Slots, Refund(r)
  PROVE  BillingInv'
<1>1. handler[r].pc \in Hooked
  BY DEF Refund, At, Hooked
<1>2. PICK k \in Keys : k = handler[r].key /\ Known(k)
  BY <1>1, HookFacts
<1>3. Owner[k] \in Users
  BY SetsAssumption
<1>4. Tables' /\ Grows(r)
  BY <1>2, <1>3, Closes DEF BillingInv, Refund, provider
<1> QED
  BY <1>1, <1>4, HookMarks DEF Refund

LEMMA StoreStep ==
  ASSUME BillingInv, NEW r \in Slots, Store(r)
  PROVE  BillingInv'
<1>1. /\ handler[r] \in Request /\ handler[r].pc = "store"
      /\ Asks(handler[r]) /\ Needs(handler[r])
  BY DEF BillingInv, Store, At
<1>2. PICK k \in Keys :
        /\ k = handler[r].key /\ handler[r].op = "checkout" /\ handler[r].user = Owner[k]
        /\ Known(k) /\ Works(handler[r], k)
  BY <1>1 DEF Asks, Needs, Works, Buying, Opening
<1>3. /\ Typed /\ Paired /\ Linked /\ AccessIsPaid /\ RedemptionsRight
      /\ pay[k] \in Payment
  BY <1>2 DEF BillingInv, Tables, Typed, Known, None
<1>4. /\ \A j \in Keys :
           /\ j # k => pay'[j] = pay[j]
           /\ Known(j)' <=> Known(j)
           /\ Known(j) => /\ pay'[j].sub = pay[j].sub /\ pay'[j].offer = pay[j].offer
                          /\ pay'[j].status = pay[j].status
      /\ pay' \in [Keys -> Payment \cup {None}]
  BY <1>2, <1>3 DEF Typed, Store, Known, Payment
<1>5. UNCHANGED <<now, plan, sub, redeemed, promoted, discounts, event, gate, due, shown, left>>
  BY DEF Store, provider
<1>6. Made' = Made
  BY <1>5 DEF Made
<1>7. Tables'
  <2>1. Typed'
    BY <1>3, <1>4, <1>5 DEF Typed
  <2>2. Paired'
    <3>1. ASSUME NEW j \in Keys, Known(j)'
          PROVE  /\ pay'[j].sub \in Made'
                 /\ <<pay'[j].status, sub'[pay'[j].sub].status>> \in Agreeing
      BY <1>3, <1>4, <1>5, <1>6, <3>1 DEF Paired
    <3>2. \A i, j \in Keys : Known(i)' /\ Known(j)' /\ pay'[i].sub = pay'[j].sub => i = j
      BY <1>3, <1>4 DEF Paired
    <3> QED
      BY <3>1, <3>2 DEF Paired, Known
  <2>3. Linked'
    <3>1. \E n \in 0..MaxSubscriptions : Made' = 1..n
      BY <1>3, <1>6 DEF Linked
    <3>2. \A j \in Keys : gate'[j] # "none" => Known(j)'
      BY <1>3, <1>4, <1>5 DEF Linked
    <3>3. \A j \in shown' \cup redeemed' : Known(j)'
      BY <1>3, <1>4, <1>5 DEF Linked, Typed
    <3>4. \A e \in due' : Received(e[2])'
      BY <1>3, <1>5 DEF Linked, Received
    <3> QED
      BY <3>1, <3>2, <3>3, <3>4 DEF Linked, Made, Known, Received
  <2>4. AccessIsPaid'
    <3>1. ASSUME NEW t \in Made', sub'[t].status = "ACTIVE"
          PROVE  \E j \in Keys : Known(j)' /\ pay'[j].sub = t /\ Received(j)'
      <4>1. PICK j \in Keys : Known(j) /\ pay[j].sub = t /\ Received(j)
        BY <1>3, <1>5, <1>6, <3>1 DEF AccessIsPaid
      <4> QED
        BY <1>4, <1>5, <4>1 DEF Received
    <3>2. \A u \in Users : plan'[u] = "PRO" => \E j \in Keys : Owner[j] = u /\ Received(j)'
      BY <1>3, <1>5 DEF AccessIsPaid, Received
    <3> QED
      BY <3>1, <3>2 DEF AccessIsPaid, Known, Received
  <2>5. RedemptionsRight'
    <3>1. PromotionCounted'
      BY <1>3, <1>5 DEF RedemptionsRight, PromotionCounted, Redeemed
    <3>2. pay[k].offer = "promotion" /\ pay[k].status = "PENDING" => k \in redeemed
      BY <1>1, <1>2 DEF Needs
    <3>3. ASSUME NEW j \in Keys, Known(j)', pay'[j].offer = "promotion", pay'[j].session,
                 pay'[j].status = "PENDING"
          PROVE  j \in redeemed'
      BY <1>3, <1>4, <1>5, <3>2, <3>3 DEF RedemptionsRight, OpenHoldsRedemption
    <3> QED
      BY <3>1, <3>3 DEF RedemptionsRight, OpenHoldsRedemption, Known
  <2> QED
    BY <2>1, <2>2, <2>3, <2>4, <2>5 DEF Tables
<1>8. Grows(r)
  <2>1. \A t \in Made : Waits(t) => sub'[t].status = "PENDING"
    BY <1>5 DEF Waits
  <2> QED
    BY <1>4, <1>5, <1>6, <2>1 DEF Grows, Received
<1>9. ASSUME NEW x \in Request, Moved(x, r, "audit")
      PROVE  Asks(x) /\ Needs(x)' /\ Takes(x, r)
  <2>1. /\ x.pc = "audit" /\ x.op = "checkout" /\ x.key = k /\ x.user = Owner[k]
    BY <1>2, <1>9 DEF Moved
  <2>2. Known(k)'
    BY <1>2, <1>4
  <2> QED
    BY <1>2, <2>1, <2>2 DEF Asks, Needs, Takes, Works, Buying, Opening, Closer, Closing, Hooked
<1>10. Goto(r, "audit")
  BY DEF Store
<1> QED
  BY <1>7, <1>8, <1>9, <1>10, GoesOn DEF BillingInv, Labels

LEMMA ExpireStaleStep ==
  ASSUME BillingInv, NEW r \in Slots, ExpireStale(r)
  PROVE  BillingInv'
<1> DEFINE stale == Stale(handler[r].user)
<1>1. /\ handler[r] \in Request /\ handler[r].pc = "stale" /\ Asks(handler[r])
  BY DEF BillingInv, ExpireStale, At
<1>2. /\ Typed /\ Paired /\ Linked /\ AccessIsPaid /\ RedemptionsRight
      /\ stale \subseteq Made /\ \A s \in stale : sub[s].status = "ACTIVE"
  BY DEF BillingInv, Tables, Stale
<1>3. UNCHANGED <<now, plan, pay, redeemed, promoted, discounts, event, gate, due, shown, left>>
  BY DEF ExpireStale, provider
<1>4. \A s \in Subscriptions :
        /\ s \notin stale => sub'[s] = sub[s]
        /\ s \in stale => sub'[s] \in Subscription /\ sub'[s].status = "EXPIRED"
  BY <1>2 DEF Typed, ExpireStale, Made, Subscription, SubscriptionStatuses, None
<1>5. Made' = Made
  BY <1>2, <1>4 DEF Made
<1>6. Tables'
  <2>1. Typed'
    <3>1. sub' \in [Subscriptions -> Subscription \cup {None}]
      BY <1>2, <1>4 DEF Typed, ExpireStale
    <3> QED
      BY <1>2, <1>3, <3>1 DEF Typed
  <2>2. Paired'
    <3>1. ASSUME NEW j \in Keys, Known(j)
          PROVE  /\ pay[j].sub \in Made
                 /\ <<pay[j].status, sub'[pay[j].sub].status>> \in Agreeing
      <4>1. /\ pay[j].sub \in Made
            /\ <<pay[j].status, sub[pay[j].sub].status>> \in Agreeing
        BY <1>2, <3>1 DEF Paired
      <4>2. CASE pay[j].sub \in stale
        BY <1>2, <1>4, <4>1, <4>2 DEF Agreeing, Made
      <4>3. CASE pay[j].sub \notin stale
        BY <1>4, <4>1, <4>3 DEF Made
      <4> QED
        BY <4>1, <4>2, <4>3
    <3> QED
      BY <1>2, <1>3, <1>5, <3>1 DEF Paired, Known
  <2>3. Linked'
    BY <1>2, <1>3, <1>5 DEF Linked, Known, Received
  <2>4. AccessIsPaid'
    <3>1. ASSUME NEW t \in Made', sub'[t].status = "ACTIVE"
          PROVE  t \in Made /\ sub[t].status = "ACTIVE"
      BY <1>4, <1>5, <3>1 DEF Made
    <3> QED
      BY <1>2, <1>3, <3>1 DEF AccessIsPaid, Known, Received
  <2>5. RedemptionsRight'
    BY <1>2, <1>3 DEF RedemptionsRight, PromotionCounted, OpenHoldsRedemption, Redeemed, Known
  <2> QED
    BY <2>1, <2>2, <2>3, <2>4, <2>5 DEF Tables
<1>7. Grows(r)
  <2>1. \A t \in Made : Waits(t) => sub'[t].status = "PENDING"
    BY <1>2, <1>4 DEF Waits, Made
  <2> QED
    BY <1>3, <1>5, <2>1 DEF Grows, Known, Received
<1>8. PICK label \in {"key", "idle", "downgrade"} :
        Goto(r, label) /\ (label = "key" => handler[r].op = "checkout")
  BY DEF ExpireStale, AfterStale
<1>9. ASSUME NEW x \in Request, Moved(x, r, label), label # "idle"
      PROVE  Asks(x) /\ Needs(x)' /\ Takes(x, r)
  <2>1. /\ x.pc = label /\ x.user \in Users
        /\ label = "key" => x.op = "checkout"
        /\ x.op = "checkout" => x.key \in Keys /\ x.user = Owner[x.key]
    BY <1>1, <1>8, <1>9 DEF Moved, Asks
  <2> QED
    BY <1>8, <1>9, <2>1
       DEF Asks, Needs, Takes, Works, Buying, Opening, Closer, Closing, Hooked
<1> QED
  BY <1>6, <1>7, <1>8, <1>9, GoesOn DEF Labels

LEMMA SubscribeStep ==
  ASSUME BillingInv, NEW r \in Slots, Subscribe(r)
  PROVE  BillingInv'
<1>0. PICK s \in Subscriptions : s = Cardinality(Made) + 1
  BY DEF Subscribe
<1> DEFINE row == [user |-> handler[r].user, status |-> "PENDING",
                   end |-> handler[r].at + Period]
<1>1. /\ handler[r] \in Request /\ handler[r].op = "checkout"
      /\ handler[r].key \in Keys /\ handler[r].user = Owner[handler[r].key]
  BY DEF BillingInv, Subscribe, At, Asks, Buying
<1>2. /\ Typed /\ Paired /\ Linked /\ AccessIsPaid /\ RedemptionsRight
  BY DEF BillingInv, Tables
<1>3. UNCHANGED <<now, plan, pay, redeemed, promoted, discounts, event, gate, due, shown, left>>
  BY DEF Subscribe, provider
<1>4. PICK n \in 0..MaxSubscriptions : Made = 1..n
  BY <1>2 DEF Linked
<1>5. s = n + 1 /\ s \notin Made
  <2>1. n \in Nat /\ 1 \in Int
    BY NumbersAssumption
  <2>2. Cardinality(1..n) = n
    BY <2>1, FS_Interval
  <2> QED
    BY <1>0, <1>4, <2>1, <2>2
<1>6. s \in Subscriptions /\ sub' = [sub EXCEPT ![s] = row]
  BY <1>0 DEF Subscribe
<1>7. row \in Subscription
  <2>1. handler[r].at + Period \in Nat
    BY <1>1, NumbersAssumption DEF Request
  <2>2. handler[r].user \in Users
    BY <1>1, SetsAssumption
  <2> QED
    BY <2>1, <2>2 DEF Subscription, SubscriptionStatuses
<1>8. /\ sub'[s] = row /\ row.status = "PENDING"
      /\ \A t \in Subscriptions : t # s => sub'[t] = sub[t]
  BY <1>2, <1>6 DEF Typed
<1> HIDE DEF row
<1>9. Made' = Made \cup {s}
  BY <1>6, <1>8 DEF Made
<1>10. Tables'
  <2>1. Typed'
    <3>1. sub' \in [Subscriptions -> Subscription \cup {None}]
      BY <1>2, <1>6, <1>7 DEF Typed
    <3> QED
      BY <1>2, <1>3, <3>1 DEF Typed
  <2>2. Paired'
    <3>1. ASSUME NEW j \in Keys, Known(j)
          PROVE  /\ pay[j].sub \in Made'
                 /\ <<pay[j].status, sub'[pay[j].sub].status>> \in Agreeing
      <4>1. /\ pay[j].sub \in Made
            /\ <<pay[j].status, sub[pay[j].sub].status>> \in Agreeing
        BY <1>2, <3>1 DEF Paired
      <4>2. sub'[pay[j].sub] = sub[pay[j].sub]
        BY <1>5, <1>8, <4>1 DEF Made
      <4> QED
        BY <1>9, <4>1, <4>2
    <3> QED
      BY <1>2, <1>3, <3>1 DEF Paired, Known
  <2>3. Linked'
    <3>1. \E m \in 0..MaxSubscriptions : Made' = 1..m
      <4>1. n + 1 \in 0..MaxSubscriptions
        BY <1>5, <1>6, NumbersAssumption DEF Subscriptions
      <4>2. 1..(n + 1) = (1..n) \cup {n + 1}
        BY NumbersAssumption
      <4> QED
        BY <1>4, <1>5, <1>9, <4>1, <4>2
    <3>2. UNCHANGED <<pay, gate, shown, redeemed, due>>
      BY <1>3
    <3> QED
      BY <1>2, <3>1, <3>2 DEF Linked, Known, Received
  <2>4. AccessIsPaid'
    <3>1. ASSUME NEW t \in Made', sub'[t].status = "ACTIVE"
          PROVE  t \in Made /\ sub[t].status = "ACTIVE"
      BY <1>8, <1>9, <3>1 DEF Made
    <3> QED
      BY <1>2, <1>3, <3>1 DEF AccessIsPaid, Known, Received
  <2>5. RedemptionsRight'
    BY <1>2, <1>3 DEF RedemptionsRight, PromotionCounted, OpenHoldsRedemption, Redeemed, Known
  <2> QED
    BY <2>1, <2>2, <2>3, <2>4, <2>5 DEF Tables
<1>11. Grows(r)
  <2>1. \A t \in Made : Waits(t) => sub'[t].status = "PENDING"
    BY <1>5, <1>8 DEF Waits, Made
  <2> QED
    BY <1>3, <1>9, <2>1 DEF Grows, Known, Received
<1>12. PICK x \in Request : x = [handler[r] EXCEPT !.sub = s, !.pc = "pay"]
  BY <1>1, <1>6 DEF Request, Labels
<1>13. /\ x.pc = "pay" /\ x.sub = s /\ x.op = "checkout" /\ x.key \in Keys
       /\ x.user = Owner[x.key]
  BY <1>1, <1>12 DEF Request
<1>14. handler' = [handler EXCEPT ![r] = x]
  BY <1>0, <1>12, <1>13 DEF Subscribe, Becomes
<1>15. Waits(s)'
  <2>1. \A j \in Keys : Known(j) => pay[j].sub # s
    BY <1>2, <1>5 DEF Paired
  <2>2. s \in Made' /\ sub'[s].status = "PENDING"
    BY <1>8, <1>9
  <2> QED
    BY <1>3, <2>1, <2>2 DEF Waits, Known
<1>16. Asks(x) /\ Needs(x)' /\ Takes(x, r)
  BY <1>5, <1>13, <1>15 DEF Asks, Needs, Takes, Works, Buying, Opening, Closer, Closing, Hooked
<1> QED
  BY <1>10, <1>11, <1>14, <1>16, RequestGoes

LEMMA CreatePaymentStep ==
  ASSUME BillingInv, NEW r \in Slots, CreatePayment(r)
  PROVE  BillingInv'
<1>1. PICK h \in Request : h = handler[r]
  BY DEF BillingInv
<1>2. /\ h.pc = "pay" /\ h.op = "checkout" /\ h.key \in Keys /\ h.user = Owner[h.key]
      /\ Waits(h.sub)
  BY <1>1 DEF BillingInv, CreatePayment, At, Asks, Needs, Buying
<1>3. PICK k \in Keys : k = h.key
  BY <1>2
<1>4. CASE Known(k)
  <2>1. Tables' /\ Grows(r)
    BY <1>1, <1>3, <1>4, NothingWritten DEF BillingInv, CreatePayment, rows
  <2> QED
    BY <1>1, <1>3, <1>4, <2>1, GoesOn DEF CreatePayment, Labels
<1>5. CASE ~Known(k)
  <2>1. PICK row : row = [status |-> "PENDING", sub |-> h.sub, offer |-> h.offer,
                          session |-> FALSE, external |-> FALSE, at |-> now]
    OBVIOUS
  <2>2. /\ pay' = [pay EXCEPT ![k] = row]
        /\ UNCHANGED <<now, plan, sub, redeemed, promoted, discounts, event, gate, due,
                       shown, left>>
    BY <1>1, <1>3, <1>5, <2>1 DEF CreatePayment, provider
  <2>3. /\ Typed /\ Paired /\ Linked /\ AccessIsPaid /\ RedemptionsRight
        /\ h.sub \in Made /\ sub[h.sub].status = "PENDING"
        /\ \A j \in Keys : Known(j) => pay[j].sub # h.sub
    BY <1>2 DEF BillingInv, Tables, Waits
  <2>4. row \in Payment
    BY <2>1, <2>3, NumbersAssumption DEF Payment, PaymentStatuses, Typed, Request, Made
  <2>5. /\ pay' \in [Keys -> Payment \cup {None}]
        /\ pay'[k] = row
        /\ \A j \in Keys : j # k => pay'[j] = pay[j]
    BY <2>2, <2>3, <2>4 DEF Typed
  <2>6. \A j \in Keys : Known(j)' <=> (Known(j) \/ j = k)
    BY <2>1, <2>5 DEF Known
  <2>7. Made' = Made
    BY <2>2 DEF Made
  <2>8. Tables'
    <3>1. Typed'
      BY <2>2, <2>3, <2>5 DEF Typed
    <3>2. Paired'
      <4>1. ASSUME NEW j \in Keys, Known(j)'
            PROVE  /\ pay'[j].sub \in Made'
                   /\ <<pay'[j].status, sub'[pay'[j].sub].status>> \in Agreeing
        <5>1. CASE j = k
          BY <2>1, <2>2, <2>3, <2>5, <2>7, <5>1 DEF Agreeing
        <5>2. CASE j # k
          BY <2>2, <2>3, <2>5, <2>6, <2>7, <4>1, <5>2 DEF Paired
        <5> QED
          BY <5>1, <5>2
      <4>2. ASSUME NEW i \in Keys, NEW j \in Keys, Known(i)', Known(j)',
                   pay'[i].sub = pay'[j].sub
            PROVE  i = j
        BY <2>1, <2>3, <2>5, <2>6, <4>2 DEF Paired
      <4> QED
        BY <4>1, <4>2 DEF Paired, Known
    <3>3. Linked'
      <4>1. \E n \in 0..MaxSubscriptions : Made' = 1..n
        BY <2>3, <2>7 DEF Linked
      <4>2. \A j \in Keys : gate'[j] # "none" => Known(j)'
        BY <2>2, <2>3, <2>6 DEF Linked
      <4>3. \A j \in shown' \cup redeemed' : Known(j)'
        BY <2>2, <2>3, <2>6 DEF Linked, Typed
      <4>4. \A e \in due' : Received(e[2])'
        BY <2>2, <2>3 DEF Linked, Received
      <4> QED
        BY <4>1, <4>2, <4>3, <4>4 DEF Linked, Made, Known, Received
    <3>4. AccessIsPaid'
      <4>1. ASSUME NEW t \in Made', sub'[t].status = "ACTIVE"
            PROVE  \E j \in Keys : Known(j)' /\ pay'[j].sub = t /\ Received(j)'
        <5>1. PICK j \in Keys : Known(j) /\ pay[j].sub = t /\ Received(j)
          BY <2>2, <2>3, <2>7, <4>1 DEF AccessIsPaid
        <5>2. pay'[j] = pay[j]
          BY <1>5, <2>5, <5>1
        <5> QED
          BY <2>2, <2>6, <5>1, <5>2 DEF Received
      <4>2. \A u \in Users : plan'[u] = "PRO" => \E j \in Keys : Owner[j] = u /\ Received(j)'
        BY <2>2, <2>3 DEF AccessIsPaid, Received
      <4> QED
        BY <4>1, <4>2 DEF AccessIsPaid, Known, Received
    <3>5. RedemptionsRight'
      <4>1. PromotionCounted'
        BY <2>2, <2>3 DEF RedemptionsRight, PromotionCounted, Redeemed
      <4>2. ASSUME NEW j \in Keys, Known(j)', pay'[j].offer = "promotion", pay'[j].session,
                   pay'[j].status = "PENDING"
            PROVE  j \in redeemed'
        <5>1. j # k
          BY <2>1, <2>5, <4>2
        <5> QED
          BY <2>2, <2>3, <2>5, <2>6, <4>2, <5>1 DEF RedemptionsRight, OpenHoldsRedemption
      <4> QED
        BY <4>1, <4>2 DEF RedemptionsRight, OpenHoldsRedemption, Known
    <3> QED
      BY <3>1, <3>2, <3>3, <3>4, <3>5 DEF Tables
  <2>9. Grows(r)
    <3>1. \A t \in Made : Waits(t) => sub'[t].status = "PENDING"
      BY <2>2 DEF Waits
    <3>2. \A j \in Keys : /\ ~Known(j) /\ Known(j)' => j = k
                          /\ Known(j) => j # k /\ pay'[j] = pay[j]
      BY <1>5, <2>5, <2>6
    <3>3. handler[r].pc = "pay" /\ pay'[k].sub = handler[r].sub
      BY <1>1, <1>2, <2>1, <2>5
    <3> QED
      BY <2>2, <2>6, <2>7, <3>1, <3>2, <3>3 DEF Grows, Received
  <2>10. PICK label \in {"reserve", "gateway"} :
           Goto(r, label) /\ (label = "reserve" <=> h.offer = "promotion")
    BY <1>1, <1>3, <1>5 DEF CreatePayment
  <2>11. gate[k] = "none" /\ k \notin redeemed
    BY <1>5, <2>3 DEF Linked
  <2>12. ASSUME NEW x \in Request, Moved(x, r, label)
         PROVE  Asks(x) /\ Needs(x)' /\ Takes(x, r)
    <3>1. /\ x.pc = label /\ x.op = "checkout" /\ x.key = k /\ x.user = Owner[k]
      BY <1>1, <1>2, <1>3, <2>12 DEF Moved
    <3>2. Known(k)' /\ gate'[k] = "none" /\ k \notin redeemed'
      BY <2>2, <2>6, <2>11
    <3>3. label = "gateway" => pay'[k].offer # "promotion"
      BY <2>1, <2>5, <2>10
    <3> QED
      BY <1>5, <2>10, <3>1, <3>2, <3>3
         DEF Asks, Needs, Takes, Works, Buying, Opening, Closer, Closing, Hooked
  <2> QED
    BY <2>8, <2>9, <2>10, <2>12, GoesOn DEF Labels
<1> QED
  BY <1>4, <1>5

LEMMA ActivateStep ==
  ASSUME BillingInv, NEW r \in Slots, Activate(r)
  PROVE  BillingInv'
<1>1. handler[r].pc \in Hooked /\ Goto(r, "mark")
  BY DEF Activate, At, Hooked
<1>2. PICK k \in Keys : k = handler[r].key /\ Known(k) /\ Received(k)
  BY <1>1, HookFacts
<1>3. CASE ~Payable(k)
  <2>1. Tables' /\ Grows(r)
    BY <1>2, <1>3, NothingWritten DEF BillingInv, Activate, rows
  <2> QED
    BY <1>1, <2>1, HookMarks
<1>4. CASE Payable(k)
  <2>1. PICK s : s = pay[k].sub
    OBVIOUS
  <2>2. /\ pay' = [pay EXCEPT ![k].status = "PAID", ![k].external = TRUE]
        /\ sub' = [sub EXCEPT ![s].status = "ACTIVE", ![s].end = now + Period]
        /\ plan' = [plan EXCEPT ![Owner[k]] = "PRO"]
        /\ UNCHANGED <<now, redeemed, promoted, discounts, event, gate, due, shown, left>>
    BY <1>2, <1>4, <2>1 DEF Activate, provider
  <2>3. /\ Typed /\ Paired /\ Linked /\ AccessIsPaid /\ RedemptionsRight
        /\ pay[k] \in Payment /\ s \in Made /\ s \in Subscriptions /\ sub[s] \in Subscription
        /\ \A j \in Keys : Known(j) /\ j # k => pay[j].sub # s
    <3>1. Typed /\ Paired /\ Linked /\ AccessIsPaid /\ RedemptionsRight
      BY DEF BillingInv, Tables
    <3>2. pay[k] \in Payment
      BY <1>2, <3>1 DEF Typed, Known, None
    <3>3. s \in Made /\ \A j \in Keys : Known(j) /\ j # k => pay[j].sub # s
      BY <1>2, <2>1, <3>1 DEF Paired
    <3>4. s \in Subscriptions /\ sub[s] \in Subscription
      BY <3>1, <3>3 DEF Typed, Made, None
    <3> QED
      BY <3>1, <3>2, <3>3, <3>4
  <2>4. /\ pay' \in [Keys -> Payment \cup {None}]
        /\ pay'[k] \in Payment /\ pay'[k].status = "PAID" /\ pay'[k].sub = s
        /\ pay'[k].offer = pay[k].offer
        /\ \A j \in Keys : j # k => pay'[j] = pay[j]
    BY <2>1, <2>2, <2>3 DEF Typed, Payment, PaymentStatuses
  <2>5. /\ sub' \in [Subscriptions -> Subscription \cup {None}]
        /\ sub'[s].status = "ACTIVE"
        /\ \A t \in Subscriptions : t # s => sub'[t] = sub[t]
    <3>1. now + Period \in Nat
      BY <2>3, NumbersAssumption DEF Typed
    <3> QED
      BY <2>2, <2>3, <3>1 DEF Typed, Subscription, SubscriptionStatuses
  <2>6. \A j \in Keys : Known(j)' <=> Known(j)
    BY <1>2, <2>4 DEF Known
  <2>7. Made' = Made
    BY <2>3, <2>5 DEF Made
  <2>8. Tables'
    <3>1. Typed'
      <4>1. plan' \in [Users -> {"FREE", "PRO"}]
        BY <2>2, <2>3 DEF Typed
      <4> QED
        BY <2>2, <2>3, <2>4, <2>5, <4>1 DEF Typed
    <3>2. Paired'
      <4>1. ASSUME NEW j \in Keys, Known(j)'
            PROVE  /\ pay'[j].sub \in Made'
                   /\ <<pay'[j].status, sub'[pay'[j].sub].status>> \in Agreeing
        <5>1. CASE j = k
          BY <2>3, <2>4, <2>5, <2>7, <5>1 DEF Agreeing
        <5>2. CASE j # k
          <6>1. /\ Known(j) /\ pay'[j] = pay[j] /\ pay[j].sub # s
                /\ pay[j].sub \in Made
                /\ <<pay[j].status, sub[pay[j].sub].status>> \in Agreeing
            BY <2>3, <2>4, <2>6, <4>1, <5>2 DEF Paired
          <6>2. sub'[pay[j].sub] = sub[pay[j].sub]
            BY <2>5, <6>1 DEF Made
          <6> QED
            BY <2>7, <6>1, <6>2
        <5> QED
          BY <5>1, <5>2
      <4>2. ASSUME NEW i \in Keys, NEW j \in Keys, Known(i)', Known(j)',
                   pay'[i].sub = pay'[j].sub
            PROVE  i = j
        <5>1. pay'[i].sub = pay[i].sub /\ pay'[j].sub = pay[j].sub
          BY <2>1, <2>4
        <5> QED
          BY <2>3, <2>6, <4>2, <5>1 DEF Paired
      <4> QED
        BY <4>1, <4>2 DEF Paired, Known
    <3>3. Linked'
      <4>1. \E n \in 0..MaxSubscriptions : Made' = 1..n
        BY <2>3, <2>7 DEF Linked
      <4>2. \A j \in Keys : gate'[j] # "none" => Known(j)'
        BY <2>2, <2>3, <2>6 DEF Linked
      <4>3. \A j \in shown' \cup redeemed' : Known(j)'
        BY <2>2, <2>3, <2>6 DEF Linked, Typed
      <4>4. \A e \in due' : Received(e[2])'
        BY <2>2, <2>3 DEF Linked, Received
      <4> QED
        BY <4>1, <4>2, <4>3, <4>4 DEF Linked, Made, Known, Received
    <3>4. AccessIsPaid'
      <4>1. ASSUME NEW t \in Made', sub'[t].status = "ACTIVE"
            PROVE  \E j \in Keys : Known(j)' /\ pay'[j].sub = t /\ Received(j)'
        <5>1. CASE t = s
          BY <1>2, <2>2, <2>4, <2>6, <5>1 DEF Received
        <5>2. CASE t # s
          <6>1. t \in Made /\ sub[t].status = "ACTIVE"
            BY <2>5, <2>7, <4>1, <5>2 DEF Made
          <6>2. PICK j \in Keys : Known(j) /\ pay[j].sub = t /\ Received(j)
            BY <2>3, <6>1 DEF AccessIsPaid
          <6>3. pay'[j] = pay[j]
            BY <2>1, <2>4, <5>2, <6>2
          <6> QED
            BY <2>2, <2>6, <6>2, <6>3 DEF Received
        <5> QED
          BY <5>1, <5>2
      <4>2. ASSUME NEW u \in Users, plan'[u] = "PRO"
            PROVE  \E j \in Keys : Owner[j] = u /\ Received(j)'
        <5>1. CASE u = Owner[k]
          BY <1>2, <2>2, <5>1 DEF Received
        <5>2. CASE u # Owner[k]
          <6>1. plan[u] = "PRO"
            BY <2>2, <2>3, <4>2, <5>2 DEF Typed
          <6> QED
            BY <2>2, <2>3, <6>1 DEF AccessIsPaid, Received
        <5> QED
          BY <5>1, <5>2
      <4> QED
        BY <4>1, <4>2 DEF AccessIsPaid, Known, Received
    <3>5. RedemptionsRight'
      <4>1. PromotionCounted'
        BY <2>2, <2>3 DEF RedemptionsRight, PromotionCounted, Redeemed
      <4>2. ASSUME NEW j \in Keys, Known(j)', pay'[j].offer = "promotion", pay'[j].session,
                   pay'[j].status = "PENDING"
            PROVE  j \in redeemed'
        <5>1. j # k
          BY <2>4, <4>2
        <5> QED
          BY <2>2, <2>3, <2>4, <2>6, <4>2, <5>1 DEF RedemptionsRight, OpenHoldsRedemption
      <4> QED
        BY <4>1, <4>2 DEF RedemptionsRight, OpenHoldsRedemption, Known
    <3> QED
      BY <3>1, <3>2, <3>3, <3>4, <3>5 DEF Tables
  <2>9. Grows(r)
    <3>1. ASSUME NEW t \in Made, Waits(t) PROVE sub'[t].status = "PENDING"
      <4>1. t # s
        BY <1>2, <2>1, <3>1 DEF Waits
      <4> QED
        BY <2>5, <3>1, <4>1 DEF Waits, Made
    <3>2. ASSUME NEW j \in Keys
          PROVE  /\ pay'[j].offer = pay[j].offer /\ pay'[j].sub = pay[j].sub
                 /\ pay[j].status # "PENDING" => pay'[j].status # "PENDING"
      BY <2>1, <2>4
    <3> QED
      BY <2>2, <2>6, <2>7, <3>1, <3>2 DEF Grows, Received
  <2> QED
    BY <1>1, <2>8, <2>9, HookMarks
<1> QED
  BY <1>3, <1>4

----------------------------------------------------------------------------
(* Steps that write redemptions.                                           *)

LEMMA Redeems ==
  ASSUME Tables, Typed', UNCHANGED <<plan, sub, pay, gate, due, shown>>, PromotionCounted',
         \A k \in redeemed' : k \in redeemed \/ Known(k),
         \A k \in Keys : k \in redeemed \ redeemed' => pay[k].status # "PENDING"
  PROVE  Tables'
<1>1. Paired'
  BY DEF Tables, Paired, Known, Made
<1>2. Linked'
  BY DEF Tables, Linked, Known, Made, Received
<1>3. AccessIsPaid'
  BY DEF Tables, AccessIsPaid, Known, Made, Received
<1>4. OpenHoldsRedemption'
  BY DEF Tables, RedemptionsRight, OpenHoldsRedemption, Known
<1> QED
  BY <1>1, <1>2, <1>3, <1>4 DEF Tables, RedemptionsRight

LEMMA ReservePromotionStep ==
  ASSUME BillingInv, NEW r \in Slots, ReservePromotion(r)
  PROVE  BillingInv'
<1>1. /\ handler[r] \in Request /\ handler[r].pc = "reserve"
      /\ Asks(handler[r]) /\ Needs(handler[r])
  BY DEF BillingInv, ReservePromotion, At
<1>2. PICK k \in Keys :
        /\ k = handler[r].key /\ handler[r].op = "checkout" /\ handler[r].user = Owner[k]
        /\ Known(k) /\ Works(handler[r], k) /\ k \notin redeemed /\ gate[k] = "none"
  BY <1>1 DEF Asks, Needs, Works, Buying, Opening
<1>3. CASE ~Redeemable(Owner[k])
  <2>1. Tables' /\ Grows(r)
    BY <1>2, <1>3, NothingWritten DEF BillingInv, ReservePromotion, rows
  <2>2. Goto(r, "undo")
    BY <1>2, <1>3 DEF ReservePromotion
  <2>3. ASSUME NEW x \in Request, Moved(x, r, "undo")
        PROVE  Asks(x) /\ Needs(x)' /\ Takes(x, r)
    <3>1. /\ x.pc = "undo" /\ x.op = "checkout" /\ x.key = k /\ x.user = Owner[k]
      BY <1>2, <2>3 DEF Moved
    <3>2. Known(k)'
      BY <1>2, <2>1 DEF Grows
    <3> QED
      BY <1>2, <3>1, <3>2
         DEF Asks, Needs, Takes, Works, Buying, Opening, Closer, Closing, Hooked
  <2> QED
    BY <2>1, <2>2, <2>3, GoesOn DEF Labels
<1>4. CASE Redeemable(Owner[k])
  <2>1. /\ redeemed' = redeemed \cup {k} /\ promoted' = promoted + 1
        /\ UNCHANGED <<now, plan, sub, pay, discounts, event, gate, due, shown, left>>
        /\ Goto(r, "gateway")
    BY <1>2, <1>4 DEF ReservePromotion, provider
  <2>2. Typed /\ PromotionCounted
    BY DEF BillingInv, Tables, RedemptionsRight
  <2>3. promoted < PromotionMax /\ Cardinality(Redeemed(Owner[k])) < PromotionPerUser
    BY <1>4 DEF Redeemable
  <2>4. IsFiniteSet(redeemed)
    BY <2>2, SetsAssumption, FS_Subset DEF Typed
  <2>5. promoted' \in 0..PromotionMax
    BY <2>1, <2>2, <2>3, NumbersAssumption DEF Typed
  <2>6. Typed'
    BY <2>1, <2>2, <2>5 DEF Typed
  <2>7. PromotionCounted'
    <3>1. Cardinality(redeemed') = Cardinality(redeemed) + 1
      BY <1>2, <2>1, <2>4, FS_AddElement
    <3>2. ASSUME NEW u \in Users
          PROVE  Cardinality({j \in redeemed' : Owner[j] = u}) <= PromotionPerUser
      <4>1. CASE u = Owner[k]
        <5>1. {j \in redeemed' : Owner[j] = u} = Redeemed(u) \cup {k} /\ k \notin Redeemed(u)
          BY <1>2, <2>1, <4>1 DEF Redeemed
        <5>2. IsFiniteSet(Redeemed(u))
          BY <2>4, FS_Subset DEF Redeemed
        <5>3. Cardinality(Redeemed(u)) \in Nat
          BY <5>2, FS_CardinalityType
        <5>4. Cardinality(Redeemed(u) \cup {k}) = Cardinality(Redeemed(u)) + 1
          BY <5>1, <5>2, FS_AddElement
        <5>5. Cardinality(Redeemed(u)) < PromotionPerUser
          BY <2>3, <4>1
        <5>6. Cardinality(Redeemed(u)) + 1 <= PromotionPerUser
          BY <5>3, <5>5, NumbersAssumption
        <5> QED
          BY <5>1, <5>4, <5>6
      <4>2. CASE u # Owner[k]
        <5>1. {j \in redeemed' : Owner[j] = u} = Redeemed(u)
          BY <2>1, <4>2 DEF Redeemed
        <5> QED
          BY <2>2, <5>1 DEF PromotionCounted
      <4> QED
        BY <4>1, <4>2
    <3>3. promoted' = Cardinality(redeemed') /\ promoted' <= PromotionMax
      BY <2>1, <2>2, <2>5, <3>1, NumbersAssumption DEF PromotionCounted
    <3> QED
      BY <3>2, <3>3 DEF PromotionCounted, Redeemed
  <2>8. Tables'
    BY <1>2, <2>1, <2>6, <2>7, Redeems DEF BillingInv
  <2>9. Grows(r)
    BY <1>2, <2>1 DEF Grows, Made, Known, Received, Waits
  <2>10. ASSUME NEW x \in Request, Moved(x, r, "gateway")
         PROVE  Asks(x) /\ Needs(x)' /\ Takes(x, r)
    <3>1. /\ x.pc = "gateway" /\ x.op = "checkout" /\ x.key = k /\ x.user = Owner[k]
      BY <1>2, <2>10 DEF Moved
    <3>2. Known(k)' /\ gate'[k] = "none" /\ k \in redeemed'
      BY <1>2, <2>1, <2>9 DEF Grows
    <3> QED
      BY <1>2, <3>1, <3>2
         DEF Asks, Needs, Takes, Works, Buying, Opening, Closer, Closing, Hooked
  <2> QED
    BY <2>1, <2>8, <2>9, <2>10, GoesOn DEF Labels
<1> QED
  BY <1>3, <1>4

LEMMA ReleasePromotionStep ==
  ASSUME BillingInv, NEW r \in Slots, ReleasePromotion(r)
  PROVE  BillingInv'
<1>1. /\ handler[r] \in Request /\ handler[r].pc = "unpromote"
      /\ Asks(handler[r]) /\ Needs(handler[r])
  BY DEF BillingInv, ReleasePromotion, At
<1>2. PICK k \in Keys :
        /\ k = handler[r].target /\ Known(k) /\ pay[k].status # "PENDING"
        /\ handler[r].op \in {"checkout", "cancel", "status"}
        /\ handler[r].op = "checkout"
             => handler[r].key \in Keys /\ handler[r].user = Owner[handler[r].key]
  BY <1>1 DEF Asks, Needs, Closer, Closing
<1>3. /\ redeemed' = redeemed \ {k}
      /\ promoted' = IF k \in redeemed /\ promoted > 0 THEN promoted - 1 ELSE promoted
      /\ UNCHANGED <<now, plan, sub, pay, discounts, event, gate, due, shown, left>>
  BY <1>2 DEF ReleasePromotion, provider
<1>4. Typed /\ PromotionCounted
  BY DEF BillingInv, Tables, RedemptionsRight
<1>5. IsFiniteSet(redeemed)
  BY <1>4, SetsAssumption, FS_Subset DEF Typed
<1>6. Cardinality(redeemed) \in Nat
  BY <1>5, FS_CardinalityType
<1>7. promoted' = Cardinality(redeemed')
  <2>1. CASE k \in redeemed
    <3>1. Cardinality(redeemed \ {k}) = Cardinality(redeemed) - 1
      BY <1>5, <2>1, FS_RemoveElement
    <3>2. Cardinality(redeemed \ {k}) \in Nat
      BY <1>5, FS_RemoveElement, FS_CardinalityType
    <3> QED
      BY <1>3, <1>4, <1>6, <2>1, <3>1, <3>2 DEF PromotionCounted
  <2>2. CASE k \notin redeemed
    <3>1. redeemed' = redeemed /\ promoted' = promoted
      BY <1>3, <2>2
    <3> QED
      BY <1>4, <3>1 DEF PromotionCounted
  <2> QED
    BY <2>1, <2>2
<1>8. promoted' \in 0..PromotionMax
  BY <1>3, <1>4, NumbersAssumption DEF Typed
<1>9. Typed'
  BY <1>3, <1>4, <1>8 DEF Typed
<1>10. PromotionCounted'
  <2>1. ASSUME NEW u \in Users
        PROVE  Cardinality({j \in redeemed' : Owner[j] = u}) <= PromotionPerUser
    <3>1. IsFiniteSet(Redeemed(u))
      BY <1>5, FS_Subset DEF Redeemed
    <3>2. {j \in redeemed' : Owner[j] = u} \subseteq Redeemed(u)
      BY <1>3 DEF Redeemed
    <3>3. /\ Cardinality({j \in redeemed' : Owner[j] = u}) <= Cardinality(Redeemed(u))
          /\ IsFiniteSet({j \in redeemed' : Owner[j] = u})
      BY <3>1, <3>2, FS_Subset
    <3>4. /\ Cardinality({j \in redeemed' : Owner[j] = u}) \in Nat
          /\ Cardinality(Redeemed(u)) \in Nat
      BY <3>1, <3>3, FS_CardinalityType
    <3>5. Cardinality(Redeemed(u)) <= PromotionPerUser
      BY <1>4 DEF PromotionCounted
    <3> QED
      BY <3>3, <3>4, <3>5, NumbersAssumption
  <2>2. promoted' <= PromotionMax
    BY <1>8
  <2> QED
    BY <1>7, <2>1, <2>2 DEF PromotionCounted, Redeemed
<1>11. Tables'
  BY <1>2, <1>3, <1>9, <1>10, Redeems DEF BillingInv
<1>12. Grows(r)
  BY <1>2, <1>3 DEF Grows, Made, Known, Received, Waits
<1>13. PICK label \in {"idle", "expire", "reread"} :
         Goto(r, label) /\ (label = "reread" => handler[r].op = "checkout")
  BY DEF ReleasePromotion, AfterClose
<1>14. ASSUME NEW x \in Request, Moved(x, r, label), label # "idle"
       PROVE  Asks(x) /\ Needs(x)' /\ Takes(x, r)
  <2>1. /\ x.pc = label /\ x.target = k /\ x.op = handler[r].op /\ x.key = handler[r].key
        /\ x.user = handler[r].user
    BY <1>2, <1>14 DEF Moved
  <2>2. Known(k)'
    BY <1>2, <1>12 DEF Grows
  <2> QED
    BY <1>2, <1>13, <1>14, <2>1, <2>2
       DEF Asks, Needs, Takes, Works, Buying, Opening, Closer, Closing, Hooked
<1> QED
  BY <1>11, <1>12, <1>13, <1>14, GoesOn DEF Labels

----------------------------------------------------------------------------
(* Steps at the provider, of time, and all together.                       *)

\* A session may be opened for a known key, one that is open may be paid.
LEMMA Gates ==
  ASSUME Tables, NEW k \in Keys, Known(k),
         \/ gate[k] = "none" /\ gate' = [gate EXCEPT ![k] = "open"] /\ due' = due
         \/ /\ gate[k] = "open" /\ gate' = [gate EXCEPT ![k] = "paid"]
            /\ due' = due \cup {<<"paid", k>>}
         \/ /\ gate[k] = "paid" /\ gate' = [gate EXCEPT ![k] = "refunded"]
            /\ due' = due \cup {<<"refund", k>>},
         UNCHANGED <<now, rows, shown>>,
         \/ UNCHANGED left
         \/ left.faults > 0 /\ left' = [left EXCEPT !.faults = @ - 1]
         \/ left.refunds > 0 /\ left' = [left EXCEPT !.refunds = @ - 1]
  PROVE  /\ Tables'
         /\ gate'[k] # "none" /\ \A j \in Keys : j # k => gate'[j] = gate[j]
         /\ \A j \in Keys : Received(j) => Received(j)'
<1>1. Typed /\ Paired /\ Linked /\ AccessIsPaid /\ RedemptionsRight
  BY DEF Tables
<1>2. /\ gate' \in [Keys -> {"none", "open", "paid", "refunded"}]
      /\ gate'[k] # "none" /\ \A j \in Keys : j # k => gate'[j] = gate[j]
      /\ due' # due => gate'[k] \in {"paid", "refunded"}
      /\ gate[k] \in {"paid", "refunded"} => gate'[k] \in {"paid", "refunded"}
  BY <1>1 DEF Typed
<1>3. \A j \in Keys : Received(j) => Received(j)'
  BY <1>2 DEF Received
<1>4. Typed'
  <2>1. due' \subseteq Events
    BY <1>1 DEF Typed, Events
  <2>2. left' \in [keys : SUBSET Keys, commands : SUBSET Commands,
                   codes : SUBSET Codes, refunds : Nat, faults : Nat]
    BY <1>1 DEF Typed
  <2> QED
    BY <1>1, <1>2, <2>1, <2>2 DEF Typed, rows
<1>5. UNCHANGED <<plan, sub, pay, redeemed, promoted, shown>>
  BY DEF rows
<1>6. Paired'
  BY <1>1, <1>5 DEF Paired, Known, Made
<1>7. Linked'
  <2>1. \A j \in Keys : gate'[j] # "none" => Known(j)
    BY <1>1, <1>2 DEF Linked
  <2>2. ASSUME NEW e \in due' PROVE gate'[e[2]] \in {"paid", "refunded"}
    <3>1. CASE e \in due
      <4>1. e[2] \in Keys /\ Received(e[2])
        BY <1>1, <3>1 DEF Typed, Linked, Events
      <4> QED
        BY <1>3, <4>1 DEF Received
    <3>2. CASE e \notin due
      BY <1>2, <2>2, <3>2
    <3> QED
      BY <3>1, <3>2
  <2> QED
    BY <1>1, <1>5, <2>1, <2>2 DEF Linked, Known, Made, Received
<1>8. AccessIsPaid'
  <2>1. ASSUME NEW t \in Made, sub[t].status = "ACTIVE"
        PROVE  \E j \in Keys : Known(j) /\ pay[j].sub = t /\ Received(j)'
    BY <1>1, <1>3, <2>1 DEF AccessIsPaid
  <2>2. \A u \in Users : plan[u] = "PRO" => \E j \in Keys : Owner[j] = u /\ Received(j)'
    BY <1>1, <1>3 DEF AccessIsPaid
  <2> QED
    BY <1>5, <2>1, <2>2 DEF AccessIsPaid, Known, Made, Received
<1>9. RedemptionsRight'
  BY <1>1, <1>5 DEF RedemptionsRight, PromotionCounted, OpenHoldsRedemption, Redeemed, Known
<1> QED
  BY <1>2, <1>3, <1>4, <1>6, <1>7, <1>8, <1>9 DEF Tables

LEMMA GatewayStep ==
  ASSUME BillingInv, NEW r \in Slots, Gateway(r)
  PROVE  BillingInv'
<1>1. /\ handler[r] \in Request /\ handler[r].pc = "gateway"
      /\ Asks(handler[r]) /\ Needs(handler[r])
  BY DEF BillingInv, Gateway, At
<1>2. PICK k \in Keys :
        /\ k = handler[r].key /\ handler[r].op = "checkout" /\ handler[r].user = Owner[k]
        /\ Known(k) /\ Works(handler[r], k) /\ gate[k] = "none"
        /\ pay[k].offer = "promotion" => pay[k].status # "PENDING" \/ k \in redeemed
  BY <1>1 DEF Asks, Needs, Works, Buying, Opening
<1>3. /\ Tables'
      /\ gate'[k] # "none" /\ \A j \in Keys : j # k => gate'[j] = gate[j]
      /\ \A j \in Keys : Received(j) => Received(j)'
  BY <1>2, Gates DEF BillingInv, Gateway
<1>4. UNCHANGED <<sub, pay, redeemed>> /\ Goto(r, "store")
  BY DEF Gateway, rows
<1>5. Grows(r)
  BY <1>2, <1>3, <1>4 DEF Grows, Made, Known, Waits
<1>6. ASSUME NEW x \in Request, Moved(x, r, "store")
      PROVE  Asks(x) /\ Needs(x)' /\ Takes(x, r)
  <2>1. /\ x.pc = "store" /\ x.op = "checkout" /\ x.key = k /\ x.user = Owner[k]
    BY <1>2, <1>6 DEF Moved
  <2>2. Known(k)' /\ (pay'[k].offer = "promotion" => pay'[k].status # "PENDING" \/ k \in redeemed')
    BY <1>2, <1>4, <1>5 DEF Grows
  <2> QED
    BY <1>2, <2>1, <2>2 DEF Asks, Needs, Takes, Works, Buying, Opening, Closer, Closing, Hooked
<1> QED
  BY <1>3, <1>4, <1>5, <1>6, GoesOn DEF Labels

LEMMA CheckoutFailsStep ==
  ASSUME BillingInv, NEW r \in Slots, CheckoutFails(r)
  PROVE  BillingInv'
<1>1. /\ handler[r] \in Request /\ handler[r].pc \in Opening
      /\ Asks(handler[r]) /\ Needs(handler[r])
  BY DEF BillingInv, CheckoutFails, Opening
<1>2. PICK k \in Keys :
        /\ k = handler[r].key /\ handler[r].op = "checkout" /\ handler[r].user = Owner[k]
        /\ Known(k) /\ Works(handler[r], k)
        /\ At(r, "gateway") => gate[k] = "none"
  BY <1>1 DEF Asks, Needs, Works, Buying, At
<1>3. Tables' /\ Grows(r)
  <2>1. CASE UNCHANGED gate
    BY <2>1, NothingWritten DEF BillingInv, CheckoutFails, provider
  <2>2. CASE At(r, "gateway") /\ gate' = [gate EXCEPT ![k] = "open"]
    <3>1. /\ Tables'
          /\ gate'[k] # "none" /\ \A j \in Keys : j # k => gate'[j] = gate[j]
          /\ \A j \in Keys : Received(j) => Received(j)'
      BY <1>2, <2>2, Gates DEF BillingInv, CheckoutFails
    <3>2. UNCHANGED <<sub, pay, redeemed>>
      BY DEF CheckoutFails, rows
    <3> QED
      BY <1>2, <3>1, <3>2 DEF Grows, Made, Known, Waits
  <2> QED
    BY <1>2, <2>1, <2>2 DEF CheckoutFails
<1>4. PICK x \in Request : x = [handler[r] EXCEPT !.pc = "close", !.target = k,
                                                  !.verdict = "FAILED"]
  <2>1. PICK h \in Request : h = handler[r]
    BY <1>1
  <2>2. k \in Keys \cup {"none"} /\ "close" \in Labels
    BY <1>2 DEF Labels
  <2>3. "FAILED" \in PaymentStatuses \cup {"none"}
    BY DEF PaymentStatuses
  <2>4. [h EXCEPT !.pc = "close", !.target = k, !.verdict = "FAILED"] \in Request
    BY <2>1, <2>2, <2>3 DEF Request
  <2> QED
    BY <2>1, <2>4
<1>5. /\ x.pc = "close" /\ x.target = k /\ x.verdict = "FAILED" /\ x.op = "checkout"
      /\ x.key = k /\ x.user = Owner[k]
  BY <1>1, <1>2, <1>4 DEF Request
<1>6. handler' = [handler EXCEPT ![r] = x]
  BY <1>2, <1>4, <1>5 DEF CheckoutFails, Becomes
<1>7. Known(k)'
  BY <1>2, <1>3 DEF Grows
<1>8. Asks(x) /\ Needs(x)' /\ Takes(x, r)
  BY <1>2, <1>5, <1>7 DEF Asks, Needs, Takes, Works, Buying, Opening, Closer, Closing, Hooked
<1> QED
  BY <1>3, <1>6, <1>8, RequestGoes

LEMMA ProviderStep ==
  ASSUME BillingInv, NEW k \in Keys, Pay(k) \/ GiveBack(k)
  PROVE  BillingInv'
<1>1. Known(k)
  BY DEF BillingInv, Tables, Linked, Pay, GiveBack
<1>2. /\ Tables'
      /\ gate'[k] # "none" /\ \A j \in Keys : j # k => gate'[j] = gate[j]
      /\ \A j \in Keys : Received(j) => Received(j)'
  BY <1>1, Gates DEF BillingInv, Pay, GiveBack
<1>3. UNCHANGED <<sub, pay, redeemed, handler>> /\ gate[k] # "none"
  BY DEF Pay, GiveBack, rows
<1> QED
  BY <1>2, <1>3, Outside

LEMMA TickStep ==
  ASSUME BillingInv, Tick
  PROVE  BillingInv'
<1>1. Typed /\ now' \in 0..MaxTime
  BY NumbersAssumption DEF BillingInv, Tables, Typed, Tick
<1>2. UNCHANGED <<plan, sub, pay, redeemed, promoted, discounts, event, gate, due, shown,
                  handler, left>>
  BY DEF Tick, rows, provider
<1>3. Typed'
  BY <1>1, <1>2 DEF Typed
<1>4. Tables'
  BY <1>1, <1>2, <1>3, SideTables DEF BillingInv
<1> QED
  BY <1>2, <1>4, Outside DEF Received

LEMMA ContinueStep ==
  ASSUME BillingInv, NEW r \in Slots, Continue(r)
  PROVE  BillingInv'
BY ExpireStaleStep, DowngradeStep, FindKeyStep, FindOpenStep, RereadStep, PriceStep, ClaimStep,
   SubscribeStep, CreatePaymentStep, ReservePromotionStep, UndoStep, GatewayStep, StoreStep,
   AuditStep, ReadCancelStep, ReadExpireStep, CloseStep, ReleaseDiscountStep,
   ReleasePromotionStep, ReceiveStep, FindStep, ActivateStep, RefundStep, AnswerStep
   DEF Continue

LEMMA NextStep ==
  ASSUME BillingInv, [Next]_vars
  PROVE  BillingInv'
<1>1. CASE UNCHANGED vars
  <2>1. UNCHANGED <<now, rows, provider, handler, left>>
    BY <1>1 DEF vars
  <2>2. Tables'
    BY <2>1, NothingWritten DEF BillingInv
  <2> QED
    BY <2>1, <2>2, Outside DEF rows, provider, Received
<1>2. ASSUME NEW r \in Clients, Start(r) PROVE BillingInv'
  BY <1>2, BeginStep
<1>3. ASSUME NEW r \in Slots,
             Continue(r) \/ Crash(r) \/ ReserveFails(r) \/ CheckoutFails(r) \/ WebhookFails(r)
      PROVE  BillingInv'
  BY <1>3, ContinueStep, CrashStep, ReserveFailsStep, CheckoutFailsStep, WebhookFailsStep
<1>4. ASSUME NEW r \in Hooks, NEW e \in Events, Deliver(r, e) PROVE BillingInv'
  BY <1>4, DeliverStep
<1>5. ASSUME NEW k \in Keys, Pay(k) \/ GiveBack(k) PROVE BillingInv'
  BY <1>5, ProviderStep
<1> QED
  BY <1>1, <1>2, <1>3, <1>4, <1>5, TickStep DEF Next

LEMMA InitStep ==
  ASSUME Init
  PROVE  BillingInv
<1>1. Made = {} /\ \A k \in Keys : ~Known(k)
  BY DEF Init, Made, Known, None
<1>2. Typed
  BY SetsAssumption, NumbersAssumption DEF Init, Typed
<1>3. Paired
  BY <1>1 DEF Paired
<1>4. Linked
  <2>1. 1..0 = {} /\ 0 \in 0..MaxSubscriptions
    BY NumbersAssumption
  <2> QED
    BY <1>1, <2>1 DEF Init, Linked
<1>5. AccessIsPaid
  BY <1>1 DEF Init, AccessIsPaid
<1>6. RedemptionsRight
  <2>1. Cardinality({}) = 0
    BY FS_EmptySet
  <2>2. \A u : Redeemed(u) = {}
    BY DEF Init, Redeemed
  <2>3. PromotionCounted
    BY <2>1, <2>2, NumbersAssumption DEF Init, PromotionCounted
  <2> QED
    BY <1>1, <2>3 DEF RedemptionsRight, OpenHoldsRedemption
<1>7. ASSUME NEW r \in Slots PROVE handler[r] = Idle
  BY DEF Init
<1>8. Idle.op = "none" /\ Idle.pc = "idle" /\ Idle \in Request
  BY IdleIsFree DEF Idle
<1>9. handler \in [Slots -> Request]
  BY <1>8 DEF Init
<1>10. \A r \in Slots : Asks(handler[r]) /\ Needs(handler[r])
  BY <1>7, <1>8 DEF Asks, Needs, Works, Buying, Opening, Closer, Closing, Hooked
<1>11. Alone
  BY <1>7, <1>8 DEF Alone, Works
<1> QED
  BY <1>2, <1>3, <1>4, <1>5, <1>6, <1>9, <1>10, <1>11 DEF BillingInv, Tables

\* Whatever requests, faults and payments interleave, the tables and the requests under
\* way keep to the invariant.
THEOREM BillingInvHolds == Spec => []BillingInv
BY InitStep, NextStep, PTL DEF Spec

----------------------------------------------------------------------------
(* What follows from the invariant.                                        *)

\* A payment and its subscription always tell the same, and no two payments share one:
\* each is written with the other, and a checkout creates its payment for the
\* subscription that only it has.
THEOREM RowsAlwaysAgree == Spec => []RowsAgree
<1>1. ASSUME BillingInv PROVE RowsAgree
  <2>1. left.faults \in Nat /\ left.refunds \in Nat
    BY <1>1 DEF BillingInv, Tables, Typed
  <2>2. BillingTypeOK
    BY <1>1, <2>1 DEF BillingInv, Tables, Typed, BillingTypeOK
  <2> QED
    BY <1>1, <2>2 DEF BillingInv, Tables, Paired, RowsAgree
<1> QED
  BY <1>1, BillingInvHolds, PTL

\* Access always has a payment that the provider received: only an activation gives
\* it, and an activation answers a webhook, which the provider owes for money only.
THEOREM AccessIsAlwaysPaid == Spec => []AccessIsPaid
<1>1. BillingInv => AccessIsPaid
  BY DEF BillingInv, Tables
<1> QED
  BY <1>1, BillingInvHolds, PTL

\* The promotion's counter is always the number of its redemptions, within its limits,
\* and a payment that is PENDING here with a session at its price holds one: a release
\* comes after the payment was closed, and a payment that was closed is never PENDING
\* again.  A closed one may be paid at the provider all the same, without one.
THEOREM RedemptionsAreRight == Spec => []RedemptionsRight
<1>1. BillingInv => RedemptionsRight
  BY DEF BillingInv, Tables
<1> QED
  BY <1>1, BillingInvHolds, PTL

\* Never do two checkouts work on the payment of one key, and none opens a second
\* session for it.
THEOREM OneCheckoutWorks == Spec => []OneCheckoutPerKey
<1>1. ASSUME BillingInv PROVE OneCheckoutPerKey
  <2>1. SUFFICES ASSUME NEW k \in Keys
                 PROVE  /\ Cardinality({r \in Clients : Working(r, k)}) <= 1
                        /\ \A r \in Clients : Working(r, k) /\ At(r, "gateway")
                                                => gate[k] = "none"
    BY DEF OneCheckoutPerKey
  <2>2. \A r : Working(r, k) <=> Works(handler[r], k)
    BY DEF Working, Works, Opening
  <2>3. \A r, q \in Clients : Working(r, k) /\ Working(q, k) => r = q
    BY <1>1, <2>2 DEF BillingInv, Alone, Slots
  <2>4. Cardinality({r \in Clients : Working(r, k)}) <= 1
    <3> DEFINE W == {r \in Clients : Working(r, k)}
    <3>1. \A r, q \in W : r = q
      BY <2>3
    <3> HIDE DEF W
    <3>2. CASE W = {}
      BY <3>2, FS_EmptySet DEF W
    <3>3. CASE W # {}
      <4>1. PICK q \in W : W = {q}
        BY <3>1, <3>3
      <4>2. Cardinality(W) = 1
        BY <4>1, FS_Singleton
      <4> QED
        BY <4>2 DEF W
    <3> QED
      BY <3>2, <3>3
  <2>5. ASSUME NEW r \in Clients, Working(r, k), At(r, "gateway")
        PROVE  gate[k] = "none"
    <3>1. Needs(handler[r]) /\ handler[r].key = k
      BY <1>1, <2>5 DEF BillingInv, Slots, Working
    <3> QED
      BY <2>5, <3>1 DEF Needs, At
  <2> QED
    BY <2>4, <2>5
<1> QED
  BY <1>1, BillingInvHolds, PTL

=============================================================================
