------------------------------ MODULE Billing ------------------------------
(***************************************************************************)
(* Checkout, cancellation, expiry and webhooks of                          *)
(* apps/api/src/modules/billing/billing.service.ts.                        *)
(*                                                                         *)
(* A request is a sequence of awaits, each a statement or a transaction of *)
(* the database, and requests interleave at the awaits: a row that was     *)
(* read in one step may have changed by the step that writes it.  The      *)
(* payment provider is external: it opens a session, lets whoever knows    *)
(* its address pay, and repeats a webhook until it is answered with 2xx.   *)
(*                                                                         *)
(* A payment is named by its idempotency key, which is unique.  Prices are *)
(* left out but for the outcome of the minimum amount; an offer is either  *)
(* the automatic promotion or the one discount code.                       *)
(***************************************************************************)
EXTENDS Integers, FiniteSets

CONSTANTS
  Users,
  Keys,             \* idempotency keys, random for every click
  Owner,            \* the user who sends a key
  Clients,          \* slots for requests of users
  Hooks,            \* slots for requests of the payment provider
  MaxSubscriptions, \* bound: subscription rows
  PromotionMax,     \* maximumRedemptions of the promotion
  PromotionPerUser, \* perUserRedemptionLimit of the promotion
  NewUsersOnly,     \* newUsersOnly of the promotion
  DiscountMax,      \* maxRedemptions of the discount code
  DiscountPerUser,  \* maxRedemptionsPerUser of the discount code
  Period,           \* length of a paid period
  CheckoutExpiry,   \* PAYMONGO_CHECKOUT_EXPIRY_HOURS
  Overlap,          \* may the provider repeat a webhook that is not answered?
  MaxTime,          \* bound: the clock stops here
  Budgets           \* bounds on what happens beside: the keys used, what is requested,
                    \* with which codes ("none" or the "discount" code), payments that
                    \* are given back, and faults: awaits that throw, and requests
                    \* cut off by the end of their process

Commands == {"checkout", "cancel", "status", "summary"}
Codes    == {"none", "discount"}

ASSUME SetsAssumption ==
  /\ Owner \in [Keys -> Users]
  /\ IsFiniteSet(Keys)
  /\ Clients \cap Hooks = {}
  /\ Budgets \subseteq [keys : SUBSET Keys, commands : SUBSET Commands,
                        codes : SUBSET Codes, refunds : Nat, faults : Nat]
  /\ NewUsersOnly \in BOOLEAN /\ Overlap \in BOOLEAN

ASSUME NumbersAssumption ==
  /\ MaxSubscriptions \in Nat /\ PromotionMax \in Nat /\ PromotionPerUser \in Nat
  /\ DiscountMax \in Nat /\ DiscountPerUser \in Nat
  /\ Period \in Nat /\ CheckoutExpiry \in Nat
  /\ MaxTime \in Nat

VARIABLES
  now,       \* the clock
  plan,      \* User.plan, the legacy flag
  sub,       \* BillingSubscription rows in the order of their creation
  pay,       \* BillingPayment rows by idempotency key
  redeemed,  \* PromotionRedemption rows, named by their payment
  promoted,  \* Promotion.redemptionCount
  discounts, \* DiscountCode.redemptionCount
  event,     \* status of the BillingWebhookEvent rows
  gate,      \* the provider's sessions
  due,       \* webhooks the provider has not seen acknowledged
  shown,     \* payments whose checkout address was returned to the user
  handler,   \* requests in flight
  left       \* the budget that is left

rows == <<plan, sub, pay, redeemed, promoted, discounts, event>>
provider == <<gate, due, shown>>
vars == <<now, rows, provider, handler, left>>

Slots         == Clients \cup Hooks
Subscriptions == 1..MaxSubscriptions
Events        == {"paid", "refund"} \X Keys

PaymentStatuses      == {"PENDING", "PAID", "FAILED", "CANCELLED", "EXPIRED", "REFUNDED"}
SubscriptionStatuses == {"PENDING", "ACTIVE", "CANCELLED", "EXPIRED", "REFUNDED"}
Offers               == {"none", "promotion", "discount"}

Subscription == [user : Users, status : SubscriptionStatuses, end : Nat]
Payment == [status : PaymentStatuses, sub : Subscriptions, offer : Offers,
            session : BOOLEAN, external : BOOLEAN, at : Nat]
None == [status |-> "none"]

Known(k) == pay[k].status # "none"
Made     == {s \in Subscriptions : sub[s].status # "none"}

(***************************************************************************)
(* A request: its command, where it stands, the user and the key it is     *)
(* for, the offer it asks for and later has, the time it took from the     *)
(* clock, the subscription it created, the payment it closes and the       *)
(* status it closes it with.                                               *)
(***************************************************************************)
Labels == {"idle", "stale", "downgrade", "key", "open", "expire", "reread",
           "price", "claim", "subscribe", "pay", "reserve", "undo", "gateway",
           "store", "audit", "cancel", "close", "undiscount", "unpromote",
           "receive", "find", "activate", "refund", "mark", "reject"}

Request == [op : {"none", "checkout", "cancel", "status", "summary", "paid", "refund"},
            pc : Labels, user : Users \cup {"none"}, key : Keys \cup {"none"},
            offer : Offers, at : Nat, sub : Subscriptions \cup {0},
            target : Keys \cup {"none"}, verdict : PaymentStatuses \cup {"none"}]

Idle == [op |-> "none", pc |-> "idle", user |-> "none", key |-> "none",
         offer |-> "none", at |-> 0, sub |-> 0, target |-> "none", verdict |-> "none"]

At(r, label) == handler[r].pc = label

Becomes(r, h) == handler' = [handler EXCEPT ![r] = IF h.pc = "idle" THEN Idle ELSE h]
Goto(r, label) == Becomes(r, [handler[r] EXCEPT !.pc = label])

-----------------------------------------------------------------------------
(***************************************************************************)
(* Requests of users.                                                      *)
(***************************************************************************)
Begin(r, op, u, k, offer, label) ==
  /\ handler[r] = Idle
  /\ op \in left.commands
  /\ Becomes(r, [Idle EXCEPT !.op = op, !.user = u, !.key = k, !.offer = offer,
                             !.at = IF op = "checkout" THEN now ELSE 0, !.pc = label,
                             !.target = IF op = "checkout" THEN "none" ELSE k])
  /\ UNCHANGED <<now, rows, provider, left>>

\* createCheckout(), with the discount code or without one.  The bound keeps a
\* free subscription row for every checkout in flight.
StartCheckout(r, k, offer) ==
  /\ k \in left.keys /\ offer \in left.codes
  /\ Cardinality(Made) + Cardinality({c \in Clients : handler[c].op = "checkout"})
       < MaxSubscriptions
  /\ Begin(r, "checkout", Owner[k], k, offer, "stale")

\* cancelPayment() and paymentStatus() of a payment the user has
StartCancel(r, k) == Known(k) /\ Begin(r, "cancel", Owner[k], k, "none", "cancel")
StartStatus(r, k) == Known(k) /\ Begin(r, "status", Owner[k], k, "none", "expire")

\* summary()
StartSummary(r, u) == Begin(r, "summary", u, "none", "none", "stale")

\* expireStaleSubscriptions(): one statement, and a second if it changed a row
Stale(u) == {s \in Made : sub[s].user = u /\ sub[s].status = "ACTIVE" /\ sub[s].end <= now}

AfterStale(r) == IF handler[r].op = "checkout" THEN "key" ELSE "idle"

ExpireStale(r) ==
  /\ At(r, "stale")
  /\ LET stale == Stale(handler[r].user) IN
     /\ sub' = [s \in Subscriptions |->
                  IF s \in stale THEN [sub[s] EXCEPT !.status = "EXPIRED"] ELSE sub[s]]
     /\ Goto(r, IF stale = {} THEN AfterStale(r) ELSE "downgrade")
  /\ UNCHANGED <<now, plan, pay, redeemed, promoted, discounts, event, provider, left>>

Downgrade(r) ==
  /\ At(r, "downgrade")
  /\ plan' = [plan EXCEPT ![handler[r].user] = "FREE"]
  /\ Goto(r, AfterStale(r))
  /\ UNCHANGED <<now, sub, pay, redeemed, promoted, discounts, event, provider, left>>

\* A key that has a payment is answered with its address, or refused while the
\* payment has none.
FindKey(r) ==
  /\ At(r, "key")
  /\ LET k == handler[r].key IN
     /\ Goto(r, IF Known(k) THEN "idle" ELSE "open")
     /\ shown' = IF Known(k) /\ pay[k].session THEN shown \cup {k} ELSE shown
  /\ UNCHANGED <<now, rows, gate, due, left>>

\* Any pending or active subscription: the query has no order.
OpenOf(u) == {s \in Made : sub[s].user = u /\ sub[s].status \in {"PENDING", "ACTIVE"}}
PendingOf(s) == {k \in Keys : Known(k) /\ pay[k].sub = s /\ pay[k].status = "PENDING"}

FindOpen(r) ==
  /\ At(r, "open")
  /\ \/ /\ OpenOf(handler[r].user) = {}
        /\ Goto(r, "price")
     \/ \E s \in OpenOf(handler[r].user) :
          \/ /\ sub[s].status = "ACTIVE" /\ sub[s].end > handler[r].at
             /\ Goto(r, "idle")
          \/ /\ sub[s].status = "PENDING" \/ sub[s].end <= handler[r].at
             /\ IF PendingOf(s) = {}
                  THEN Goto(r, "price")
                  ELSE \E k \in PendingOf(s) :
                         Becomes(r, [handler[r] EXCEPT !.target = k, !.pc = "expire"])
  /\ UNCHANGED <<now, rows, provider, left>>

\* The pending payment, once more: its address is given, possibly without one.
Reread(r) ==
  /\ At(r, "reread")
  /\ LET k == handler[r].target IN
     IF pay[k].status = "PENDING"
       THEN /\ shown' = IF pay[k].session THEN shown \cup {k} ELSE shown
            /\ Goto(r, "idle")
       ELSE /\ Goto(r, "price")
            /\ UNCHANGED shown
  /\ UNCHANGED <<now, rows, gate, due, left>>

PaidBefore(u) == {k \in Keys : Known(k) /\ Owner[k] = u /\ pay[k].status = "PAID"}

\* resolvePromotion(): the limit per user is not looked at
Eligible(u) == promoted < PromotionMax /\ (NewUsersOnly => PaidBefore(u) = {})

\* resolveDiscount(), first half
UsesOf(u) == {k \in Keys : /\ Known(k) /\ Owner[k] = u /\ pay[k].offer = "discount"
                           /\ pay[k].status \in {"PENDING", "PAID"}}

Price(r) ==
  /\ At(r, "price")
  /\ LET u == handler[r].user IN
     IF handler[r].offer = "discount"
       THEN Goto(r, IF Cardinality(UsesOf(u)) < DiscountPerUser THEN "claim" ELSE "idle")
       ELSE \/ Becomes(r, [handler[r] EXCEPT !.pc = "subscribe",
                             !.offer = IF Eligible(u) THEN "promotion" ELSE "none"])
            \/ Eligible(u) /\ Goto(r, "idle")   \* below the minimum amount
  /\ UNCHANGED <<now, rows, provider, left>>

\* resolveDiscount(), second half: the count is raised in one conditional
\* statement, and stays raised if the price is below the minimum.
Claim(r) ==
  /\ At(r, "claim")
  /\ IF discounts < DiscountMax
       THEN /\ discounts' = discounts + 1
            /\ \E label \in {"subscribe", "idle"} : Goto(r, label)
       ELSE /\ Goto(r, "idle")
            /\ UNCHANGED discounts
  /\ UNCHANGED <<now, plan, sub, pay, redeemed, promoted, event, provider, left>>

\* Mutant: the row takes effect when it is created.
SubscribeActive(r) ==
  /\ At(r, "subscribe")
  /\ LET s == Cardinality(Made) + 1 IN
     /\ s \in Subscriptions
     /\ sub' = [sub EXCEPT ![s] = [user |-> handler[r].user, status |-> "ACTIVE",
                                   end |-> handler[r].at + Period]]
     /\ Becomes(r, [handler[r] EXCEPT !.sub = s, !.pc = "pay"])
  /\ UNCHANGED <<now, plan, pay, redeemed, promoted, discounts, event, provider, left>>

Subscribe(r) ==
  /\ At(r, "subscribe")
  /\ LET s == Cardinality(Made) + 1 IN
     /\ s \in Subscriptions
     /\ sub' = [sub EXCEPT ![s] = [user |-> handler[r].user, status |-> "PENDING",
                                   end |-> handler[r].at + Period]]
     /\ Becomes(r, [handler[r] EXCEPT !.sub = s, !.pc = "pay"])
  /\ UNCHANGED <<now, plan, pay, redeemed, promoted, discounts, event, provider, left>>

\* Mutant: the row of the key is written again.
UpsertPayment(r) ==
  /\ At(r, "pay")
  /\ LET h == handler[r] IN
     /\ pay' = [pay EXCEPT ![h.key] =
                  [status |-> "PENDING", sub |-> h.sub, offer |-> h.offer,
                   session |-> FALSE, external |-> FALSE, at |-> now]]
     /\ Goto(r, IF h.offer = "promotion" THEN "reserve" ELSE "gateway")
  /\ UNCHANGED <<now, plan, sub, redeemed, promoted, discounts, event, provider, left>>

\* The key is unique: of two checkouts with one key, one fails here.
CreatePayment(r) ==
  /\ At(r, "pay")
  /\ LET h == handler[r] IN
     IF Known(h.key)
       THEN Goto(r, "idle") /\ UNCHANGED pay
       ELSE /\ pay' = [pay EXCEPT ![h.key] =
                         [status |-> "PENDING", sub |-> h.sub, offer |-> h.offer,
                          session |-> FALSE, external |-> FALSE, at |-> now]]
            /\ Goto(r, IF h.offer = "promotion" THEN "reserve" ELSE "gateway")
  /\ UNCHANGED <<now, plan, sub, redeemed, promoted, discounts, event, provider, left>>

\* reservePromotion(), a serializable transaction
Redeemed(u) == {k \in redeemed : Owner[k] = u}
Redeemable(u) == promoted < PromotionMax /\ Cardinality(Redeemed(u)) < PromotionPerUser

ReservePromotion(r) ==
  /\ At(r, "reserve")
  /\ IF Redeemable(handler[r].user)
       THEN /\ redeemed' = redeemed \cup {handler[r].key}
            /\ promoted' = promoted + 1
            /\ Goto(r, "gateway")
       ELSE /\ Goto(r, "undo")
            /\ UNCHANGED <<redeemed, promoted>>
  /\ UNCHANGED <<now, plan, sub, pay, discounts, event, provider, left>>

\* The transaction fails, as one of two that conflict does: nothing is reserved.
ReserveFails(r) ==
  /\ At(r, "reserve")
  /\ left.faults > 0
  /\ left' = [left EXCEPT !.faults = @ - 1]
  /\ Goto(r, "undo")
  /\ UNCHANGED <<now, rows, provider>>

\* Two rows of a payment, in one transaction that looks at neither.
SubscriptionVerdict(v) == IF v = "FAILED" THEN "CANCELLED" ELSE v

\* Mutant: the subscription is forgotten.
SetPaymentRow(k, v) ==
  /\ pay' = [pay EXCEPT ![k].status = v]
  /\ UNCHANGED sub

SetRows(k, v) ==
  /\ pay' = [pay EXCEPT ![k].status = v]
  /\ sub' = [sub EXCEPT ![pay[k].sub].status = SubscriptionVerdict(v)]

Undo(r) ==
  /\ At(r, "undo")
  /\ SetRows(handler[r].key, "CANCELLED")
  /\ Goto(r, "idle")
  /\ UNCHANGED <<now, plan, redeemed, promoted, discounts, event, provider, left>>

Gateway(r) ==
  /\ At(r, "gateway")
  /\ gate' = [gate EXCEPT ![handler[r].key] = "open"]
  /\ Goto(r, "store")
  /\ UNCHANGED <<now, rows, due, shown, left>>

Store(r) ==
  /\ At(r, "store")
  /\ pay' = [pay EXCEPT ![handler[r].key].session = TRUE]
  /\ Goto(r, "audit")
  /\ UNCHANGED <<now, plan, sub, redeemed, promoted, discounts, event, provider, left>>

Audit(r) ==
  /\ At(r, "audit")
  /\ shown' = shown \cup {handler[r].key}
  /\ Goto(r, "idle")
  /\ UNCHANGED <<now, rows, gate, due, left>>

\* The catch of createCheckout().  The provider may have opened the session
\* although the call failed here.
CheckoutFails(r) ==
  /\ handler[r].pc \in {"gateway", "store", "audit"}
  /\ left.faults > 0
  /\ left' = [left EXCEPT !.faults = @ - 1]
  /\ Becomes(r, [handler[r] EXCEPT !.pc = "close", !.target = handler[r].key,
                                   !.verdict = "FAILED"])
  /\ \/ UNCHANGED gate
     \/ At(r, "gateway") /\ gate' = [gate EXCEPT ![handler[r].key] = "open"]
  /\ UNCHANGED <<now, rows, due, shown>>

(***************************************************************************)
(* Closing a payment.  Cancellation and expiry read the payment and then   *)
(* close it by its identifier; the reservations of its offer are released  *)
(* afterwards, that of a discount code without a record of whose it was.   *)
(***************************************************************************)
AfterClose(h) ==
  CASE h.verdict = "FAILED"    -> "idle"
    [] h.verdict = "CANCELLED" -> "expire"   \* cancelPayment ends as paymentStatus
    [] OTHER -> IF h.op = "checkout" THEN "reread" ELSE "idle"

ReadCancel(r) ==
  /\ At(r, "cancel")
  /\ IF pay[handler[r].target].status = "PENDING"
       THEN Becomes(r, [handler[r] EXCEPT !.pc = "close", !.verdict = "CANCELLED"])
       ELSE Goto(r, "expire")
  /\ UNCHANGED <<now, rows, provider, left>>

Overdue(k) == pay[k].status = "PENDING" /\ pay[k].at + CheckoutExpiry <= now

ReadExpire(r) ==
  /\ At(r, "expire")
  /\ IF Overdue(handler[r].target)
       THEN Becomes(r, [handler[r] EXCEPT !.pc = "close", !.verdict = "EXPIRED"])
       ELSE Goto(r, IF handler[r].op = "checkout" THEN "reread" ELSE "idle")
  /\ UNCHANGED <<now, rows, provider, left>>

Close(r) ==
  /\ At(r, "close")
  /\ SetRows(handler[r].target, handler[r].verdict)
  /\ Goto(r, "undiscount")
  /\ UNCHANGED <<now, plan, redeemed, promoted, discounts, event, provider, left>>

ReleaseDiscount(r) ==
  /\ At(r, "undiscount")
  /\ discounts' = IF pay[handler[r].target].offer = "discount" /\ discounts > 0
                    THEN discounts - 1 ELSE discounts
  /\ Goto(r, "unpromote")
  /\ UNCHANGED <<now, plan, sub, pay, redeemed, promoted, event, provider, left>>

\* Mutant: the count goes down whether or not a redemption was removed.
ReleaseAlways(r) ==
  /\ At(r, "unpromote")
  /\ LET k == handler[r].target IN
     /\ redeemed' = redeemed \ {k}
     /\ promoted' = IF pay[k].offer = "promotion" /\ promoted > 0
                      THEN promoted - 1 ELSE promoted
  /\ Goto(r, AfterClose(handler[r]))
  /\ UNCHANGED <<now, plan, sub, pay, discounts, event, provider, left>>

ReleasePromotion(r) ==
  /\ At(r, "unpromote")
  /\ LET k == handler[r].target IN
     /\ redeemed' = redeemed \ {k}
     /\ promoted' = IF k \in redeemed /\ promoted > 0 THEN promoted - 1 ELSE promoted
  /\ Goto(r, AfterClose(handler[r]))
  /\ UNCHANGED <<now, plan, sub, pay, discounts, event, provider, left>>

(***************************************************************************)
(* Webhooks.                                                               *)
(***************************************************************************)
Event(h) == <<h.op, h.key>>

Deliver(r, e) ==
  /\ r \in Hooks
  /\ handler[r] = Idle
  /\ e \in due
  /\ Overlap \/ \A q \in Hooks : handler[q] = Idle \/ Event(handler[q]) # e
  /\ Becomes(r, [Idle EXCEPT !.op = e[1], !.key = e[2], !.pc = "receive"])
  /\ UNCHANGED <<now, rows, provider, left>>

\* Mutant: an event that failed is a duplicate like any other.
ReceiveOnce(r) ==
  /\ At(r, "receive")
  /\ LET e == Event(handler[r]) IN
     IF event[e] = "none"
       THEN /\ event' = [event EXCEPT ![e] = "RECEIVED"]
            /\ Goto(r, "find")
            /\ UNCHANGED due
       ELSE /\ due' = due \ {e}
            /\ Goto(r, "idle")
            /\ UNCHANGED event
  /\ UNCHANGED <<now, plan, sub, pay, redeemed, promoted, discounts, gate, shown, left>>

\* The event's row is created, or claimed if its processing failed before; any
\* other repetition is acknowledged as a duplicate.
Receive(r) ==
  /\ At(r, "receive")
  /\ LET e == Event(handler[r]) IN
     IF event[e] \in {"none", "FAILED"}
       THEN /\ event' = [event EXCEPT ![e] = "RECEIVED"]
            /\ Goto(r, "find")
            /\ UNCHANGED due
       ELSE /\ due' = due \ {e}
            /\ Goto(r, "idle")
            /\ UNCHANGED event
  /\ UNCHANGED <<now, plan, sub, pay, redeemed, promoted, discounts, gate, shown, left>>

\* processCheckoutPaid() up to its transaction
FindPaid(r) ==
  /\ At(r, "find") /\ handler[r].op = "paid"
  /\ LET k == handler[r].key IN
     Goto(r, IF ~pay[k].session THEN "reject"
             ELSE IF pay[k].status = "PAID" THEN "mark" ELSE "activate")
  /\ UNCHANGED <<now, rows, provider, left>>

\* The transaction of processCheckoutPaid().  A payment that was closed here
\* in the meantime is paid all the same, one that failed is not.
Payable(k) == pay[k].status \in {"PENDING", "CANCELLED", "EXPIRED"}

Activate(r) ==
  /\ At(r, "activate")
  /\ LET k == handler[r].key IN
     IF Payable(k)
       THEN /\ pay' = [pay EXCEPT ![k].status = "PAID", ![k].external = TRUE]
            /\ sub' = [sub EXCEPT ![pay[k].sub].status = "ACTIVE",
                                  ![pay[k].sub].end = now + Period]
            /\ plan' = [plan EXCEPT ![Owner[k]] = "PRO"]
       ELSE UNCHANGED <<pay, sub, plan>>
  /\ Goto(r, "mark")
  /\ UNCHANGED <<now, redeemed, promoted, discounts, event, provider, left>>

\* processPaymentRefunded(): a payment is found by the provider's identifier,
\* which only an activation stores.
FindRefund(r) ==
  /\ At(r, "find") /\ handler[r].op = "refund"
  /\ Goto(r, IF pay[handler[r].key].external THEN "refund" ELSE "mark")
  /\ UNCHANGED <<now, rows, provider, left>>

Refund(r) ==
  /\ At(r, "refund")
  /\ SetRows(handler[r].key, "REFUNDED")
  /\ plan' = [plan EXCEPT ![Owner[handler[r].key]] = "FREE"]
  /\ Goto(r, "mark")
  /\ UNCHANGED <<now, redeemed, promoted, discounts, event, provider, left>>

\* markWebhook(PROCESSED) and the answer 2xx
Mark(r) ==
  /\ At(r, "mark")
  /\ event' = [event EXCEPT ![Event(handler[r])] = "PROCESSED"]
  /\ due' = due \ {Event(handler[r])}
  /\ Goto(r, "idle")
  /\ UNCHANGED <<now, plan, sub, pay, redeemed, promoted, discounts, gate, shown, left>>

\* A throw while an event is processed, the marking included
WebhookFails(r) ==
  /\ handler[r].pc \in {"find", "activate", "refund", "mark"}
  /\ left.faults > 0
  /\ left' = [left EXCEPT !.faults = @ - 1]
  /\ Goto(r, "reject")
  /\ UNCHANGED <<now, rows, provider>>

\* markWebhook(FAILED) and the answer 500, which the provider repeats
Reject(r) ==
  /\ At(r, "reject")
  /\ event' = [event EXCEPT ![Event(handler[r])] = "FAILED"]
  /\ Goto(r, "idle")
  /\ UNCHANGED <<now, plan, sub, pay, redeemed, promoted, discounts, provider, left>>

(***************************************************************************)
(* The user at the provider, the operator of the shop, time, and the end   *)
(* of a process, which is also what a throw outside a try amounts to.      *)
(***************************************************************************)
Pay(k) ==
  /\ k \in shown /\ gate[k] = "open"
  /\ gate' = [gate EXCEPT ![k] = "paid"]
  /\ due' = due \cup {<<"paid", k>>}
  /\ UNCHANGED <<now, rows, shown, handler, left>>

GiveBack(k) ==
  /\ gate[k] = "paid"
  /\ left.refunds > 0
  /\ left' = [left EXCEPT !.refunds = @ - 1]
  /\ gate' = [gate EXCEPT ![k] = "refunded"]
  /\ due' = due \cup {<<"refund", k>>}
  /\ UNCHANGED <<now, rows, shown, handler>>

Tick ==
  /\ now < MaxTime
  /\ now' = now + 1
  /\ UNCHANGED <<rows, provider, handler, left>>

Crash(r) ==
  /\ handler[r] # Idle
  /\ left.faults > 0
  /\ left' = [left EXCEPT !.faults = @ - 1]
  /\ Becomes(r, Idle)
  /\ UNCHANGED <<now, rows, provider>>

Init ==
  /\ now = 0
  /\ plan = [u \in Users |-> "FREE"]
  /\ sub = [s \in Subscriptions |-> None]
  /\ pay = [k \in Keys |-> None]
  /\ redeemed = {} /\ promoted = 0 /\ discounts = 0
  /\ event = [e \in Events |-> "none"]
  /\ gate = [k \in Keys |-> "none"]
  /\ due = {} /\ shown = {}
  /\ handler = [r \in Slots |-> Idle]
  /\ left \in Budgets

Start(r) ==
  \/ \E k \in Keys : \/ \E offer \in Codes : StartCheckout(r, k, offer)
                     \/ StartCancel(r, k)
                     \/ StartStatus(r, k)
  \/ \E u \in Users : StartSummary(r, u)

\* The next await of a request that is in flight
Continue(r) ==
  \/ ExpireStale(r) \/ Downgrade(r) \/ FindKey(r) \/ FindOpen(r) \/ Reread(r)
  \/ Price(r) \/ Claim(r) \/ Subscribe(r) \/ CreatePayment(r)
  \/ ReservePromotion(r) \/ Undo(r) \/ Gateway(r) \/ Store(r) \/ Audit(r)
  \/ ReadCancel(r) \/ ReadExpire(r) \/ Close(r)
  \/ ReleaseDiscount(r) \/ ReleasePromotion(r)
  \/ Receive(r) \/ FindPaid(r) \/ Activate(r) \/ FindRefund(r) \/ Refund(r)
  \/ Mark(r) \/ Reject(r)

Next ==
  \/ \E r \in Clients : Start(r)
  \/ \E r \in Slots : Continue(r) \/ Crash(r) \/ ReserveFails(r) \/ CheckoutFails(r)
                         \/ WebhookFails(r)
  \/ \E r \in Hooks, e \in Events : Deliver(r, e)
  \/ \E k \in Keys : Pay(k) \/ GiveBack(k)
  \/ Tick

\* A request that is in flight goes on, and the provider repeats a webhook
\* until it is acknowledged.
Fairness ==
  /\ \A r \in Slots : WF_vars(Continue(r))
  /\ \A e \in Events : WF_vars(\E r \in Hooks : Deliver(r, e))

Spec == Init /\ [][Next]_vars /\ Fairness

-----------------------------------------------------------------------------
(***************************************************************************)
(* Properties.                                                             *)
(***************************************************************************)

\* The tables are well typed, and no count in them passes its limit.
BillingTypeOK ==
  /\ now \in 0..MaxTime
  /\ plan \in [Users -> {"FREE", "PRO"}]
  /\ sub \in [Subscriptions -> Subscription \cup {None}]
  /\ pay \in [Keys -> Payment \cup {None}]
  /\ redeemed \subseteq Keys /\ promoted \in 0..PromotionMax
  /\ discounts \in 0..DiscountMax
  /\ event \in [Events -> {"none", "RECEIVED", "PROCESSED", "FAILED"}]
  /\ gate \in [Keys -> {"none", "open", "paid", "refunded"}]
  /\ due \subseteq Events /\ shown \subseteq Keys
  /\ handler \in [Slots -> Request]
  /\ left.faults \in Nat /\ left.refunds \in Nat

\* The status of a payment and that of its subscription are written by many
\* requests from what they read earlier, in two tables; whatever the order, the
\* two tell the same, and a subscription belongs to one payment.
Agreeing == {<<"PENDING", "PENDING">>, <<"PAID", "ACTIVE">>, <<"PAID", "EXPIRED">>,
             <<"FAILED", "CANCELLED">>, <<"CANCELLED", "CANCELLED">>,
             <<"EXPIRED", "EXPIRED">>, <<"REFUNDED", "REFUNDED">>}

RowsAgree ==
  /\ BillingTypeOK
  /\ \A k \in Keys : Known(k) =>
       /\ pay[k].sub \in Made
       /\ <<pay[k].status, sub[pay[k].sub].status>> \in Agreeing
  /\ \A j, k \in Keys : Known(j) /\ Known(k) /\ pay[j].sub = pay[k].sub => j = k

\* Access is only ever given for money that the provider has received: an active
\* subscription, and the legacy flag, have a payment whose session was paid.
\* README.md:136: "A browser redirect never grants a paid plan".
Received(k) == gate[k] \in {"paid", "refunded"}

AccessIsPaid ==
  /\ \A s \in Made : sub[s].status = "ACTIVE" =>
       \E k \in Keys : Known(k) /\ pay[k].sub = s /\ Received(k)
  /\ \A u \in Users : plan[u] = "PRO" => \E k \in Keys : Owner[k] = u /\ Received(k)

\* The promotion's counter is the number of its redemptions, which stay within
\* its limits, although payments are closed concurrently and repeatedly.
PromotionCounted ==
  /\ promoted = Cardinality(redeemed)
  /\ promoted <= PromotionMax
  /\ \A u \in Users : Cardinality(Redeemed(u)) <= PromotionPerUser

\* A payment that is open here, PENDING with an address, at the promotion's price
\* holds a redemption: no release reaches it.  Nothing is said of a payment that
\* was closed here, though its session is still open at the provider: its
\* redemption is released and it may be paid all the same; and if the process
\* ends between the closing and the release, the redemption stays.
OpenHoldsRedemption ==
  \A k \in Keys :
    Known(k) /\ pay[k].offer = "promotion" /\ pay[k].session /\ pay[k].status = "PENDING"
      => k \in redeemed

\* The promotion's counter is right and within its limits, and no open payment
\* loses the redemption that its price rests on.
RedemptionsRight == PromotionCounted /\ OpenHoldsRedemption

\* However often a checkout is sent with one key, one request at a time works on
\* its payment, and one session is opened for it.
Working(r, k) == /\ handler[r].op = "checkout" /\ handler[r].key = k
                 /\ \/ handler[r].pc \in {"reserve", "undo", "gateway", "store", "audit"}
                    \/ handler[r].pc = "close" /\ handler[r].verdict = "FAILED"

OneCheckoutPerKey ==
  \A k \in Keys :
    /\ Cardinality({r \in Clients : Working(r, k)}) <= 1
    /\ \A r \in Clients : Working(r, k) /\ At(r, "gateway") => gate[k] = "none"

\* A session that was paid gives access, if the provider repeats webhooks that
\* fail, unless the checkout was recorded as failed, or the end of a process cut
\* off the webhook: its row stays RECEIVED, and a repetition is a duplicate.
\* billing.service.spec.ts:372: "reclaims a previously failed event so provider
\* retries can recover".
CutOff(k) == /\ event[<<"paid", k>>] = "RECEIVED"
             /\ \A r \in Hooks : handler[r] = Idle \/ Event(handler[r]) # <<"paid", k>>

PaidReachesUser ==
  \A k \in Keys :
    gate[k] = "paid" ~> \/ Known(k) /\ (pay[k].external \/ pay[k].status = "FAILED")
                       \/ CutOff(k)

\* docs/credit-design.md:28: "A signed, matching paid webhook activates that
\* subscription".  A cancellation or an expiry that read the payment before the
\* webhook overwrites the activation.
PaidWebhookActivates ==
  \A k \in Keys :
    event[<<"paid", k>>] = "PROCESSED" => pay[k].status \in {"PAID", "REFUNDED"}

=============================================================================
