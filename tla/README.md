# Verification of vrompt

TLA+ specifications, TLC model-checking runs and TLAPS proofs for vrompt, a chat
workspace for several AI models: a NestJS API (`src/apps/api`), a Next.js client
(`src/apps/web`), PostgreSQL through Prisma, and Redis. Several API processes may run
against one database, so every rule about money, allowances and sessions has to
survive concurrent requests, crashes between two transactions and repeated calls.

Paths below are relative to `src/`; `quota.service.ts` and other service files without
a directory are under `apps/api/src/modules/<area>/`.

## 1. Inventory

| Component | State | Operations | What is hard | What makes it correct |
|---|---|---|---|---|
| Generation allowance, `workspace/quota.service.ts` | tables `UsageCounter` (used, reserved per user, bucket and period) and `QuotaReservation`; a timer per process | `reserve`, `finalizeIn`, `reconcileExpired`, `policies` | concurrent requests in several processes; policy and clock read before the lock; a crash between the two transactions; timers racing with calls and with the sweep of `reserve` | counters equal the reservations; allowances, concurrency and rate are never exceeded; each reservation is settled exactly once and in the end |
| Chat generation, `workspace/chat.service.ts` | messages, usage records, the local state of a call | `generate`, conversation deletion | fallback between models; abort, deadline and attempt timeout in any order; partial output | at most one charge; no charge without known consumption; a terminal status for every message |
| Pricing, `workspace/credits.ts` | none | price of a task, affordable candidates | rounding and boundaries | never below cost; budget respected |
| Registry and routing, `workspace/registry.service.ts`, `routing.ts` | models, policies, in-memory health per model | `available`, `rankModels`, `saveModel`, `savePolicy`, `RoutingHealth` | cooldown and failure counts at their limits | a failing model rests, and is tried again |
| Workflows, `workspace/workflows.service.ts` | workflows, runs | `save`, `remove`, `run` | claim of a run under the user lock, stale runs swept by later claims, a late run writing its result | one running run per user; a swept run keeps its status |
| Projects, `workspace/projects.service.ts` | projects | create, restore, archive, remove | the limit of the plan | never more active projects than the plan allows |
| Attachments, `workspace/attachment.service.ts` | rows and files on disk | `upload`, `saveGenerated`, `saveDocument`, `remove` | two stores without a common transaction | every row has its file; limits hold; files without rows are bounded |
| Conversations, prompts, preferences, `workspace/workspace.controller.ts` | rows | create, rename, remove | removal under a running generation | ownership |
| Billing, `billing/billing.service.ts`, `paymongo.adapter.ts` | payments, subscriptions, webhook events, the user's plan | `createCheckout`, `paymentStatus`, `cancelPayment`, `handleWebhook`, expiry | webhooks duplicated, late and out of order; cancel and expiry racing with payment; crash in the middle of a webhook | access only for money that was received; payment and subscription tell the same; one checkout per key |
| Promotions and discounts, `billing/billing.service.ts`, `monetization.service.ts` | redemption counters | reserve, release, redeem | count-then-increment, release racing with payment | redemptions within the maximum |
| Feature usage and plan administration, `billing/monetization.service.ts` | usage reservations, plans | `reserveUsage`, CRUD | retries | usage counted once per key |
| Economics, `workspace/economics.service.ts` | versioned cost entries | `append` | - | append-only |
| Sessions, `auth/auth.service.ts`, guards | refresh sessions in families, users | sign-in, `refresh`, `logout`, revocation | lost answers, replayed tokens, revocation racing with rotation | a revoked family never issues a token |
| User administration, `users/admin-users.service.ts` | users, roles | create, update, bootstrap | two administrators demoting each other | an active administrator remains |
| Settings, audit, `settings/`, `audit/` | settings, log | update, reset | two writes without a transaction | every change is audited |
| Redis client, `common/redis.service.ts` | one connection, counters | `getClient`, `increment` | shared connection attempt | one connection; a failed attempt is retried |
| Health, metrics, HTTP shell | probes, counters | - | - | - |
| Identities, `auth/auth.controller.ts`, `auth.service.ts`, `lib/auth-return.ts` | cookies of a journey, users, identities | start, callback, `authenticateOAuth` | journeys of several windows, equal addresses and names, two first sign-ins at once | each identity has its own account, each window signs in as who agreed |
| Provider adapters, `workspace/providers.ts` | the buffer of a stream | `stream`, `readEvents` | frames cut anywhere, counts reported in different ways, errors within a stream | success only for an answer that ended; a recorded cost is the price of its tokens, marked as estimated where more may be charged |
| Context, `workspace/context.ts` | none | `relevantContext`, the prompt of `generate` | retries and overlapping requests, budgets of excerpts | each message told once, the question of the answer that is retried |
| Web client session, `apps/web/components/providers/auth-provider.tsx`, `lib/api.ts` | session, epoch, cookie | refresh, sign-in and sign-out across tabs | locks, lost and stale answers | no session after sign-out |
| Chat page, `apps/web/components/workspace/chat.tsx` | the view of a conversation, requests in progress | send, retry, stop, attach, navigation | answers that arrive in another view | nothing of one conversation in another |
| Lists and forms, `apps/web/components/workspace`, `admin` | resource, form, busy flags, dialogs | load, save, remove, search | answers overtaking each other, parts replaced under a handler | what is shown is current; nothing waits for ever |
| Database schema, seeds, deployment scripts | - | run once or by an operator | - | - |

How they interact. `ChatService.generate` and `WorkflowsService.run` call
`QuotaService.policies`, which reads the subscriptions that Billing writes.
`generate` calls `reserve`, streams from a provider (through the registry's health and the
attachments of the conversation) and then settles with `finalizeIn` inside a transaction
that also writes the assistant message and the usage records. Everything that changes an
allowance takes the row lock of the user (`SELECT ... FOR UPDATE`), so a transaction is
one atomic step of the models, and the time read before it is a separate one.

## 2. Modules

| Module | Models | Proofs |
|---|---|---|
| `Allowance` | what the ledger promises: a request is held once, then spent or given back once | |
| `Quota` | the allowance ledger with the calls, timers, crashes, plan changes and conversation deletions around it; implements `Allowance` | `QuotaProofs` |
| `RoutingHealth` | the map of failures and cooldowns per model in `routing.ts` | `GenerationProofs` |
| `Answer` | what a user is promised about one answer: one author, charged exactly if something was consumed | |
| `Generation` | the attempt loop of `generate` for the concurrent calls of one process, over `RoutingHealth`; implements `Answer` | `GenerationProofs` |
| `Credits` | the price of a task and the models it funds | `ServiceProofs` |
| `Routing` | from the price a client is shown to the models its request may call, while administrators edit; composes `Generation` and `Credits` | `ServiceProofs` |
| `Providers` | one attempt at a vendor's API | `ServiceProofs` |
| `Context` | what the prompts of a conversation's requests are made of | `ServiceProofs` |
| `Membership` | the plan of an account, and the requests it sends | |
| `Files` | uploads, generated files and deletions: rows and bytes | `WorkspaceProofs` |
| `Workflows` | projects, workflows and runs | `WorkspaceProofs` |
| `ChatView` | the chat page | `ChatProofs` |
| `Workspace` | composes `Membership`, `Files`, `Workflows` and `ChatView` | `WorkspaceProofs`, `ChatProofs` |
| `Billing` | checkouts, cancellations, expiries, webhooks, promotions and discount codes | `BillingProofs` |
| `Administration` | edits of plans and promotions with their history, and the economic ledger | `CommerceProofs` |
| `Identities` | the journey to a provider and back, and the account an identity gets | `CommerceProofs` |
| `Sessions` | accounts, families of refresh tokens, the guard, and user administration | `ClientProofs` |
| `Client` | the tabs and browsers on top of `Sessions` | `ClientProofs` |
| `Pages` | the pages that list and edit records | `ClientProofs` |
| `MCQuota`, `MCGeneration`, `MCService`, `MCWorkspace`, `MCBilling`, `MCCommerce`, `MCSessions` | values of the constants for TLC | |

`Quota` and `Generation` are two views of the same function. `Quota` abstracts the loop to its result, any of
`Results` with or without consumption; `Generation` keeps the loop and abstracts
`reserve` to success or refusal and the final transaction to success or failure. What `Generation` hands to the final
transaction (`status`, `consumed`) is what `Finish` of `Quota` takes. `Routing` replaces the step `Choose` of `Generation` by the
code that makes the choice, and its `ChoosesWell` says that each of its choices is one that `Generation` allows.

Everywhere an action is the code between two awaits, with what it reads from the database in the same statement or
transaction; a row read in one action may have changed by the next one. What a comment calls a *mutant* or a *faulty variant* is a
changed definition that no specification uses: putting it in the place of its original makes TLC report the property it is there for.

### Quota

State and code: `res` is the table `QuotaReservation` (a function whose domain is the set of
rows), `used` and `reserved` are the columns of `UsageCounter` (a missing row counts
as zero; `extra` is never written by the code and left out), `msg` is the status of the assistant
message of each request, `call` holds the HTTP requests in flight with their local
variables (`policy`, the deadline), `batch[w]` is the rest of the list that `reconcileExpired` of
process `w` is working through (its flag `reconciling` is `batch[w] # {}`), `planOf` is the plan that
`policies` would find. `everHeld` and `charged` are history variables.

Actions and code: `Submit` is `generate` up to `reserve`; it takes a snapshot of a policy of the
present plan. `Reserve` and `Reject` are the transaction of `reserve`, with the sweep of the
user's expired reservations; an exception rolls the sweep back, so `Reject` changes no table.
`CreateMessage` and `Finish` are the rest of `generate`. `TxFails` is
a transaction that throws. `Scan`, `Reap` and `ReapFails` are `reconcileExpired`.
`DeleteMessage` is the removal of the conversation. `ChangePlan` is whatever Billing does to
the subscription; `Crash` ends a process with its calls and its batch. `Tick` is the clock.

Time. A tick stands for any duration that the ratios of the constants fit. `reserve` reads `now`
before it waits for the lock, so it works with a time `at` that may lie `LockWait` in the past, and
a row's `createdAt` is the later time. A live call cannot outlast its deadline by more than `Slack`, which is what
`AbortSignal.timeout` and the timeouts of the final transaction provide; `Grace` is the 60 s that `expiresAt`
adds. `LiveCallsKeepReservation` needs `LockWait + Slack <= Grace`, which holds in `quota_plans` and
`quota_safe` and is broken on purpose in `quota_late`.

### RoutingHealth, Generation, Credits and Routing

State and code: `health` is `RoutingHealth.states` (`failures`, `until` for `cooldownUntil`, `touched` for
`touchedAt`) and `older` the insertion order of its keys, on which the eviction of the oldest key
depends. `call[c]` holds the local variables of one execution of
`generate`: `cands` and `i` are the loop, `cancelled`, `expired` and `timedOut` are the three abort signals (client,
deadline, attempt), `text` and `artifacts` the output so far, `usage` whether the attempt reported
tokens, `consumed` and `status` what the final transaction will write, `records` the usage records.
`opened`, `first`, `author`, `spent` and the fields `at` and `cause` of a record are history. The deadline runs from the return of `reserve` (`opened`), and the transaction that
creates the messages takes part of it; `FairShare` therefore speaks of the deadline, and of the shares that it leaves less what these rows took.

Atomicity. `Choose` ranks the candidates by the health of the moment and then awaits `reserve`; `MessagesCreated` is
the transaction that creates the messages, and enters the loop; `Delta`, `UsageReported` and `Image`
are the callbacks of the adapter; `ImageSaved`, `SaveFails` and `DocumentSaved` are the results of
storing an artifact; `StreamReturns` and `StreamFails` are the two ends of the adapter's promise.
`Fail` is the whole catch with what follows it up to the next await: category, status, consumption, record, penalty, and
either the next candidate (`NextAttempt`) or the end of the loop. Signals come between any two actions.

Data. A text is `none`, `blank` (the code tests `text` in one place and `text.trim()` in others) or `some`. Categories
of exceptions are grouped by what the code does with them: `HTTP_429`, `TRANSIENT`, `REQUEST` (not retryable and not
penalized) and `CANCELLED`. In `Generation` alone, `rankModels` and `affordableCandidates` return any list of `Rankings`
whose models are available, and the adapter may send anything, in any order, or nothing.

Time. Timers fire when they are due and an aborted stream fails at once (`Tick` waits for both), while
writes to the database and to disk take any time. A process that stops with its calls is in `Quota`; in
`Generation` it would only end the behaviour.

`Routing` adds the rows `aiModel` and `policies`, what a client was shown (`ask`) and the edits of administrators (`edit`, two awaits: what a
row refers to is read before it is written). `rankModels`, `priceModels`, `affordableCandidates` and the explicit fallback are operators. The
validity window of a model (`effectiveFrom`, `effectiveTo`) is part of `enabled`. Money is a natural number of one small unit, so that
the tolerance the code adds against rounding is not needed; an unknown price is `NoPrice`.

### Providers and Context

`Providers` is one attempt: `reply` is what the vendor sends, `wire` what has not arrived, and every prefix of it may be the next chunk. A
symbol of the wire is the number of an event, a note (any other line) or half of a line break, so a chunk can cut a CR LF in two. `reading` holds
the buffer, the callbacks under way and the tokens counted so far; vendors report all at once, as running totals, or input and output
apart. A vendor charges `bill` for tokens and `fee` for the tools it used (images). The adapter knows the token prices only, of which `docs/credit-design.md:73`
says that they do not suffice; what it does about the rest is the mark `raw.toolCostUnverified` (`tool`), and `generate` writes `costEstimated` for it, for an answer without counts and for every attempt that may have made an image.
`ReplyTold` says that the record of an answer that was returned is the price of all its tokens, and the whole bill unless it is so marked; a record of a failed attempt may be less than what the vendor charges,
without a mark. `TextDecoder`, which joins the bytes of a character, is external; the text of a delta is `Delta` of `Generation`; the
Groq provider is never available and has no adapter.

`Context` keeps the rows `thread` and the requests, new ones and retries, which may overlap. A text is the set of its words that matter and the
chunks it is cut into; a word that is cut through is in neither chunk. `PromptsRight` compares the greedy selection of `relevantContext` with a
description of what it should return, and says what a prompt tells. It says what is told, not that it is everything (see Findings). An answer that is tried again is given a question from before it, and its own one unless
another request wrote rows between the two (`Overlaps`): the code takes the question that ends the rows before the answer, which is then the other one's. In that case no claim is made about whose question it is.
`detectTask` matches words of one message and is not modelled; its outcomes are `Tasks` of `Routing`.

### Billing, Administration and Identities

`Billing`. `pay`, `sub`, `redeemed` and `event` are tables; `plan` is the legacy flag of a user; `promoted` and `discounts` are the counters;
`gate` is the state of the provider's sessions, `due` the webhooks it has not seen acknowledged and `shown` the sessions whose address was
returned to somebody. `handler[r]` is a request: its command, its next await (`pc`) and its local variables. An action is named after the await it
completes. `CheckoutFails` and `WebhookFails` are the two `catch` blocks, `Crash` is the end of a process and also what a throw outside of a
`try` amounts to. A payment is named by its idempotency key. Left out: the rate counter in front of a checkout (`billing.service.ts:105-116`), the checks of
signature and mode, events of other kinds, `payment.failed`, price arithmetic but for the outcome "below the minimum", the window and
withdrawal of a promotion, the 403 for another user's key, and statistics. `RedemptionsRight` speaks of payments that are open here, `PENDING` with an address: no release reaches the redemption of one.
It says nothing of a payment that was closed here while its session stays open at the provider, which may be paid without its redemption, and when a process ends between the closing and the release,
the redemption stays. `left` is the budget of a behaviour: which keys,
commands and codes it uses, and how many refunds and faults it may still have; a budget only restricts.

`Administration`. A row of `BillingPlan` or `Promotion` is the number of the edit that wrote it, its limits or plans (`parts`) likewise, so
mixing two edits shows. An action is a statement, and row locks of PostgreSQL hold until the transaction ends.
`deletePlan` refuses plans of the code FREE, counts, inserts its `PLAN_DELETED` entry, which needs the row and locks it only weakly, and then deletes the row (`NoteDeletion`, `DeleteRow`, `CommitDelete`), so an update may commit between the
entry and the deletion. With the deletion the database takes away the references of all entries about the row (`schema.prisma:578`, `linked`). `HistoryTells` says of a row that is there that the last entry that refers to it tells what it is and none of its deletion, and of one that
is gone that exactly one entry tells of that; which entry is the last about a deleted row is not certain. An edit keeps the code of a plan, and rows of `PromotionPlan` that go with a plan are not followed. `append` takes an advisory lock.

`Identities`. A journey is a number that stands for its state and its verifier, which are created, stored in cookies and cleared together. The provider
binds a code to the journey and takes it back once. `authenticateOAuth` reads and inserts in two actions; address and user name are read in one, because a row that is
committed between the two reads makes the insertion fail as one after both would, or else takes only one of the two as one
before both would. Hashes and the suffix of a user name are abstracted; rate counters are left out.

### Membership, Files, Workflows and Workspace

The services of the workspace read the plan (`ReadPolicies`, `StartRun`, ...), then lock the account in a transaction and check counts and bytes by what they read. `Membership` changes the plan
at any moment and may cut off a request. `Files` writes bytes before the row and unlinks them after it, with `transfer` for the requests
and `disk` and `attachments` for the two stores; a deletion of a conversation goes through the files it found and then drops the conversation with the rows that
came in between. `Workflows` has `run` (rows), `claims` and `late` (history: executions, and generations after a deletion) and `job` (requests). The reads with which a request begins are one
step, since they only decide whether it goes on. The client chooses the identifier of a run; a known one is answered with its row or, for another workflow, refused, and one that a deletion freed may be executed for another
workflow. `RunsCostOnce` is about an identifier and a workflow. It assumes of clients that an identifier is not sent for two workflows while a request with it is under way (`Apart`); the web client draws a new one for every click (`workflows.tsx:113`).
A run whose row is deleted begins at most one more generation, which is charged: the row is asked for only after it. A generation is any that ends within its deadline.

### Sessions and Client

A family of refresh tokens is `session[f]`: `last` counts rotations, `live` are the tokens that are not revoked. A transaction that touches the tokens of an
account locks its row and reads again what it had read before, so it is one step from there on; what was read before is a parameter of the
action. An administrator's update takes an advisory lock and then the row, as two steps. The server alone (`ServerSpec`) accepts any request, any token and
any earlier reading; `Client` restricts it to what its tabs and browsers send and is proved to implement it.

In `Client`, a tab has a `shown` token and its calls; each browser a `cookie`; `queue` says which calls each call waits for at the lock `vrompt-auth-session` of its browser. A call remembers whether its epoch holds. `stray`
holds calls whose page is gone or whose answer is lost: the server handles them all the same. `Locking` says whether the browser offers `navigator.locks`: it is `TRUE` in the run;
without it `NoFalseAlarm` fails, as the code's fallback only serializes within one tab. `lost` exempts families whose rotated token went out
with no one to hear the answer: the server cannot tell such a browser from a thief, and revoking the family is its documented reaction.

### ChatView and Pages

`ChatView` has the rows of the server (`chats`, `answer`, `stored`), the route, the `view` (state and refs of the component) and the calls of `send` and `attach` in progress. `mixed` is set when a second request
has created a conversation for the same view, when a click has overtaken the navigation to a created conversation, or when `attach` has
taken up an upload of another view (no version is compared there): `ViewKeepsApart` says that nothing else mixes conversations.

`Pages` describes eight pages by tables of what their buttons and forms do (`Button`, `Form`), after the components: whether an operation asks first, which flags refuse it and which it sets,
whether it loads the list again. A render and its effects belong to the action before them; a dialog covers the page, so nothing else is clicked
meanwhile. Signing out leaves the page as it is. Answers to requests for the list arrive in any order.

### Abstract specifications

`Allowance` has three steps: admit a request (spending what is swept at the same time), spend, give back.
`KeepsPromise` of `Quota` maps open reservations to `held`, `charged` to `spent`, and the other reservations to `returned`.

`Answer` has a stage, an author, a cost, an outcome and a charge for each call. An author may write and go on writing, but no
other model may take over; a successful answer has an author and a cost; the charge at the end equals the cost.
`KeepsPromise` of `Generation` maps `author` and `spent` to what the providers did and the charge to
the flag `consumed` that the code computes, so it compares the code's bookkeeping with the events.

`ServerSpec` of `Sessions` is what a browser may rely on, whatever any browser does; the tabs of `Client` are one way of using it.

### Runs

| Run | Shows | Bounds |
|---|---|---|
| `quota_plans` | `WithinAllowance`, `ConcurrencyBound`, `RateBound` while the plan changes | 3 requests, 2 calls, a FREE plan with two buckets that share 3 credits and a single active request, and a PRO plan with concurrency 2; prices 1 and 2; 2 ticks. Three requests against limits of 1, 2 and 3 reach every limit |
| `quota_safe` | `CountersMatch`, `OneCallPerRequest`, `LiveCallsKeepReservation` | 2 requests, 2 calls, 2 processes, one fault; 5 ticks cover a reservation that expires (1 + 2 ticks), two days and a change of month |
| `quota_late` | `SettledOnce`, `KeepsPromise`; `EventuallySettled` under `FairSpec` | 2 requests, 2 processes, one fault, no symmetry; `Grace` is 0, so that a timer or the sweep settles reservations whose call still runs and finishes later, and a failed transaction may hit a round of the timer |
| `quota_interrupted` | violates `InterruptedIsVisible`, a finding | the shortest counterexample needs one crash and two requests |
| `generation_one` | `RecordsTell`, `FairShare`, `KeepsPromise`, `StopsWhenAsked`; `EveryCallEnds` under `FairSpec` | one call, since calls meet only in the health; one candidate or three, so that there is a first, a middle and a last attempt; all tasks, modes and outputs; a duration of 3 ticks gives each of three candidates its share of one, and the clock may advance before the first attempt, too |
| `generation_penalty` | violates `PenaltiesEarned`, a finding | one call and one model |
| `routing` | `RestsAfterFailures`, `BudgetCovers`, `ChoosesWell`; `ReplyTold`; `PromptsRight` | two calls over two models in both orders, one edit of a price, an availability or a policy; 2 ticks are more than the cooldown and the forgetting. Four vendors with every way of reporting, images with their fee, PDFs, both line breaks, good and bad ends, any chunks. Three requests of a conversation, new ones and retries, with room for one message word for word and excerpts of two more |
| `workspace` | `RunsCostOnce`, `RunsTell`, `WithinPlan`, `FilesMatchRows`, `FinishedStays`; `ViewKeepsApart`, `StopReachesAnswer` | an account with two plans and one change between them, 3 requests, one fault; 2 files of which one fits, 2 projects where one is allowed, 3 workflows where two are, two of them there at the beginning, 2 identifiers for runs of 2 steps, either of which may be sent for each workflow, and a sweep that is as old as the longest run. The page: 3 conversations, 2 messages, one file |
| `billing_safe` | `AccessIsPaid`, `RedemptionsRight`, `OneCheckoutPerKey`; `HistoryTells`, `AppendsAnswered`; `OwnAccount` | 2 keys of a user, 2 requests of hers and one webhook at a time, which may overlap its repetitions, 2 faults. Two administrators, a plan that can be deleted and one of the code FREE, one promotion, one ledger entry, 4 edits. Three windows in two browsers, three identities with equal subjects, names and addresses, 2 journeys, one edit |
| `billing_live` | `RowsAgree`; `PaidReachesUser` under the fairness below | every command and offer, one refund and one fault over one payment, with 2 ticks for the expiry of the checkout and of the paid period; and checkouts and cancellations with a second key while the payment of the first is open |
| `billing_overwritten` | violates `PaidWebhookActivates`, a finding | one payment, one cancellation, one webhook |
| `sessions` | `SessionsMatchAccount`, `AnAdminRemains`, `NoFalseAlarm`, `SignedOutStaysOut`; `ShowsCurrent`, `NothingStuck` | two tabs of a browser and one of another, two administrators and a new user, up to three calls in four mixes with up to two faults, 2 rotations and 2 passwords. Pages of all eight kinds, 2 operations, 1 turn, three tokens of two accounts |

`routing`, `workspace`, `billing_safe` and `sessions` each check several specifications that share no variables, or share only bounds. In these runs only one of them moves in a behaviour, from
the initial state of the others: an interleaving of the others would change none of the variables a property speaks of. `MCChoiceFirst` of `routing` lets a choice
come before all attempts, with which prices and edits commute, because attempts read the rows that were chosen; `MCLeaves` of `sessions` leaves a page for one of each kind of resource only.

The runs without liveness use symmetry where the specification treats users, requests, calls, tabs, files or keys alike.
Deadlock is checked where the system never stops. `CHECK_DEADLOCK FALSE` stands in the four composed runs, in which the number of requests, journeys or calls is bounded, so
that behaviours end when it is used up.

Fairness. In `Quota` (`FairSpec`): the clock advances, `FinishCall` of each call (the deadline ends
every call whose process runs), and for each process the query of the timer and the work on its batch (the
timer of `onModuleInit` fires every minute). Failures are bounded by `MaxFaults`, so some round completes.
In `Generation`: the clock advances, timers fire, a stream whose signal is aborted fails (`fetch` rejects), and
the database and the disk answer, well or badly. Nothing is assumed of a provider that has not been aborted.
In `Billing`: a request in flight goes on to its next await, and the provider repeats a webhook that was not acknowledged, which is what its
documentation promises and `handleWebhook` relies on by answering 500. Nothing is assumed of users, who may leave a checkout open.

### Findings

`reserve` settles a user's expired reservations with `finalizeIn` only. The assistant message stays
`RESERVED`, and the timer never corrects it since it looks for reservations that are still
`RESERVED`. The comment at `quota.service.ts:113-114` announces the opposite ("mark it interrupted").
`quota_interrupted` shows the sequence: crash, expiry, next request before the next timer round.

`docs/auto-routing.md:37` says that user cancellation and request validation errors do not penalize model health. A document
or image that cannot be stored, for instance because the user's storage is full, ends in the same catch as a lost connection and is
counted against the model that produced it. `generation_penalty` shows one; two of them rest the model for all users
of the process.

`cancelPayment` and the expiry of a pending payment read the payment and write its new status later, by identifier and whatever its
status is by then. A webhook that is processed in between has made it `PAID`; the write takes the access away and nothing gives it back
(`billing_overwritten`). `docs/credit-design.md:28` says that a matching paid webhook activates the subscription.

`docs/auto-routing.md:41` says that no conversation history is silently truncated. The prompt of `generate` keeps the last 8 messages word for word and 2000 characters of excerpts of the last 100
(`chat.service.ts:158-166`), and tells neither the model nor the user that the rest is missing. No run is spent on it, because every conversation that is longer shows it; `PromptsRight` describes what is told and does not claim
that it is all.

Seen in the code and not modelled, or outside what a property says: an answer that is tried again after another request wrote between it and its question is given the other's question (`chat.service.ts:153`, `Overlaps`);
a payment that was closed here may be paid at the provider, and then has no redemption; a failed question that is retried stays in
the thread twice; a process that ends while a webhook is `RECEIVED` leaves its repetitions to be taken for duplicates (the exemption `CutOff` of `PaidReachesUser`); the
count of a discount code is released once for each request that closes a payment, so that a later checkout may exceed its limit; `updatePlan` can rename the FREE plan, which can
then be deleted; settings are written and audited in two statements; two tabs that start a sign-in at the same
provider share its cookies, and the return of the first clears those of the second; forms that send whole rows overwrite what another
administrator changed meanwhile; the checkout page stops asking after one failed request.

## 3. Proofs

The theorems hold for all values of the constants that satisfy the named assumptions. For `Quota` these are
`SetAssumption` and `NumberAssumption`: finitely many requests; policies of the right type and no
policy bucket called `CREDITS`; no relation between the numbers. One theorem adds
`GraceSuffices == LockWait + Slack <= Grace`, the reason for the 60 s. For `Generation`
they are `GenerationAssumption` and `HealthAssumption`, chiefly that a ranking is not empty, that `Nobody` is not a model, that models are finitely many and that a rest is no longer than what is remembered. `Routing` adds the types of its rows and that `Rankings` leaves out no list without repetitions
(`RoutingAssumption`). For `Workflows`,
`SweepAssumption` says that a run is swept no earlier than its steps can end, which the code states as 20 steps of 600 seconds. `Sessions` and
`Client` assume only the types of their constants, that there is an administrator at the beginning and that browsers begin in different sessions; the two theorems about the lock assume `Locking`. `Workflows` also assumes that what exists at the beginning is within the first
plan (`BeginAssumption`). `Billing` assumes finitely many keys, each with an owner, and that requests of clients and of webhooks are told apart; `Administration`, that plans are not promotions and that those of the code FREE are plans;
`Identities`, that every window is in a browser and that every profile is of one of the two providers; `Pages`, that the marks for no record, a new one and the whole page are not records and that there is a
first token; `ChatView`, that the identifiers of messages and uploads differ.

| Theorem | States | Argument |
|---|---|---|
| `TypeCorrect` | `TypeOK` of `Quota` | inductive as it stands |
| `CountersCorrect` | `CountersMatch` | `LedgerInv` adds to it that no open reservation is charged: without that a settlement could charge a reservation that already counts in `used`. The sums are cardinalities (`UnitsOf`), so settling a set `S` moves the units of `S \cap Open` from one sum to the other (`FinalizeInLedger`), and an admission adds a singleton (`ReserveLedger`) |
| `OneCall` | `OneCallPerRequest` | `CallInv`: a call that runs owns a row of its user, and no two calls own the same one |
| `LiveCallsKept` | `LiveCallsKeepReservation` | `RunInv`: the row of a live call is open and expires no earlier than the call can end; uses `GraceSuffices`; covers the timer's batch, which holds only rows that had expired when it was read |
| `SettledForGood` | `SettledOnce` | every step that touches a row goes through the update of `finalizeIn`, conditional on `RESERVED`; holds for any `Grace` |
| `AllowanceKept`, `ConcurrencyKept`, `RateKept` | `WithinAllowance`, `ConcurrencyBound`, `RateBound` | `PlansHeld`: the policy of every call belongs to a plan the user has held; then each bound is checked by `Reserve` under the lock and no other step increases what it bounds |
| `LedgerKeepsPromise` | `KeepsPromise` of `Quota` | step by step; `StepKinds` says which steps touch the ledger at all |
| `GenerationTypes` | `TypeOK` of `Generation` | `GenInv`, below |
| `StopsForGood` | `StopsWhenAsked` | the index of the attempt grows only in `NextAttempt`, behind the test of both signals |
| `AnswersKeepPromise` | `KeepsPromise` of `Generation` | `GenInv`, below |
| `ServerTypes` | `SessionsTypeOK` of the server | inductive as it stands |
| `RevokedForGood`, `SessionsMatch` | `EndedStaysEnded`, `SessionsMatchAccount` | `Issued`, `Matching` and `Asked`, below |
| `AdminRemains` | `AnAdminRemains` | `Checked` and `OneWrites`, below |
| `ClientImplementsServer` | `Client` implements `ServerSpec` | every call that is handled is one of the server's actions, with what it had read before (`Fits`) |
| `ClientSessionsMatch`, `ClientAdminRemains` | the same invariants for `Client` | from the theorems about the server, through the implementation |
| `RunsCost`, `RunHistoryTells` | `RunsCostOnce`, `RunsTell` | `RunsInv`, below |
| `HistoryStays` | `FinishedStays` | every write to a run's row is either under its claim or of a running row that is too old to be worked on |
| `FilesMatch` | `FilesMatchRows` | `FilesInv`, below |
| `RowsAlwaysAgree`, `AccessIsAlwaysPaid`, `RedemptionsAreRight`, `OneCheckoutWorks` | `RowsAgree`, `AccessIsPaid`, `RedemptionsRight`, `OneCheckoutPerKey` | `BillingInv`, below |
| `StaysWithinPlan` | `WithinPlan` | `LimitsInv`, below |
| `ConversationsStayApart`, `StopReaches` | `ViewKeepsApart`, `StopReachesAnswer` | `ChatInv`, below |
| `RecordsAreTrue`, `SharesAreFair` | `RecordsTell`, `FairShare` | `TellInv`, below |
| `RestsIndeed` | `RestsAfterFailures` | `RestInv`, below |
| `PricesCover` | `BudgetCovers` | `RoutingInv`, below |
| `ChoicesAreGood`, `RoutedCallsRest` | `ChoosesWell`; `RestsAfterFailures` under `RoutingSpec` | `RoutingInv`, and every step of `Routing` is a step of `Generation` or leaves its calls alone |
| `RepliesAreTold` | `ReplyTold` | `StreamInv`, below |
| `PromptsAreRight` | `PromptsRight` | `ContextInv`, below |
| `HistoryIsTrue`, `AppendsAreAnswered` | `HistoryTells`, `AppendsAnswered` | `AdminInv`, below |
| `EveryoneHasTheirOwn` | `OwnAccount` | `IdentitiesInv`, below |
| `PagesShowCurrent`, `PagesNeverStuck` | `ShowsCurrent`, `NothingStuck` of `Pages` | `PagesInv`, below |
| `NoAlarmIsFalse`, `SignedOutForGood` | `NoFalseAlarm`, `SignedOutStaysOut` of `Client` | `TurnInv`, below; for `Locking` |
`GenInv` says of each call, beside its types: before the first attempt nothing is written or spent (`Fresh`); during an attempt
only its model has written, and `spent` equals what `consumed` will be (`Attempt`); afterwards `spent` equals `consumed`, and a
success has an author (`Over`). The heart is `FailureKeeps`: when another candidate follows, `Stops` was false, so that nothing had been
written or spent, and the new attempt starts like the first. Every action leads to a `Legal` state of one
call, from which the invariant and both properties follow once for all.

Sessions: a family with a token alive is not revoked, has only its last token alive and matches its account (`Matching`). To keep that, the proof needs that a revoked
family belongs to an account (`Issued`), that requests in flight are about accounts (`Asked`), and that every writer of an account's tokens takes its row, which an update
holds while it is between its locks. For the last administrator, `OneWrites` says that the advisory lock lets one update at a time
through, and `Checked` that the actor of that update is still an active administrator, who, if it is its own target, asks for neither role nor status:
the actor remains, so the code's count of administrators is a second safeguard and the proof does not need it.

Workspace: a run is claimed once for a workflow because its identifier is a key and requests with it that are under way are for one workflow (`OneFlow`); what makes it cost once is `OnTime`: a request that executes step `n` has begun no more than
`n * StepLimit` ago, so by `SweepAssumption` no sweep finds its row too old, and nobody else writes it. `FilesInv` relates every request to the two stores at each of its awaits: a file
that is being stored is no other request's (`KeptFrom`), so that its bytes stay, and a file on disk without row belongs to a request, a cut-off or a deletion that overlapped.

The limits of the plan (`LimitsInv`): a request judges by a plan the account had when it read it (`FilePlans`, `JobPlans`), and what is counted and what is
added lie in one step under the account's lock. A project or a workflow adds one to a count; for bytes, the total is the cardinality of a set of bytes, to which a file adds no more than its size
(`BytesFinite`). That a plan which the account had allows what is stored is preserved by a change of plan, because plans are not forgotten.

Records and time (`TellInv`): until the first attempt there is no record; while candidates are tried every earlier attempt has left one, of failure (`Told`); and an attempt that another may follow
has not outlived its share of the time (`InTime`), because its timer fires when it is due. `FairShare` needs the last one: without it, the attempt after a late
failure would begin too late. That the deadline of a call is one duration after `reserve` had returned (`AllTimed`) ties the shares, which are counted from the first attempt, to the deadline.

The rest after failures (`RestInv`): the property reads the records of all calls in the order of time, the code a map that counts. Between them stands what the map knows of a model:
a failure that no success has followed and that is not older than `Forget` is noted in its entry (`Noted`), and after two failures that make a model rest the entry's `until` covers the rest (`Rested`).
That holds because an entry is only forgotten when it is that old, a rest never being longer than `Forget`, and is only evicted when the map has more models than it has room for, which the property excludes.

Routing (`RoutingInv`): when the price is fixed, the most that the attempts the price funds may cost is within it (`bound`), and an edit afterwards changes neither.
Getting there is arithmetic over lists: `Funding` walks down the ranking and keeps a model if its bound still fits in what remains, so that the sum of what is kept and the remainder are the price
(`AffordableRight`); a price is a quotient rounded up, so that it covers its cost (`QuotientCovers`). For `ChoosesWell` the ranking must exist: `Precedes` is a strict total order, since identifiers break
ties, and a finite set that is so ordered can be listed (`SortedExists`); ranking, moving a fallback up and cutting to the budget each keep a list free of repetitions and within the models in service (`RankRight`,
`WithFallbackRight`, `AffordableRight`). What the recursive functions compute is proved by induction over the natural numbers in the form of a lemma about their subsets (`Smallest`, `NatSets`).

A vendor's reply (`StreamInv`): the buffer holds what the first symbols of the wire have become once every CR LF is an LF, without the events that were handled (`Holds`). A chunk may end in a CR, which stays
until its LF arrives with the next one, and converting again what was already converted changes nothing (`UnixRight`); so the first break in the buffer is the end of the next event and the line before it is that event alone
(`EventRight`), and when the wire and the buffer are used up every event has been handled (`AllTaken`). The tokens recorded are those that the events handled so far tell of (`Tallied`), the current one included before or after its images
depending on the vendor; what they cost is the price of the tokens (`CostRight`) under `ProvidersAssumption`: a vendor never reports more than it charges for, and all tokens by the end of the answer (`Truthful`). A fee is only due where images can be made,
and there the record is marked.

Prompts (`ContextInv`): a prompt that was made refers to rows that have succeeded, and since such rows do not change (`Grows`), everything the property says of it can be said again after any step of another request
(`PromptKept`); what has to be known is what is true when it is made (`Prompted`). Which question a retried answer was given goes back to the shape of the rows (`RowsFit`: of a request a question and then at most one answer, reserved as long
as it is to be ended), because the last question before an answer is its own unless somebody wrote in between (`RetryRight`). That the greedy selection is the best that fits (`ExcerptsRight`) is an induction over the ranking: what is taken after `k` chunks is
the first ones of the ranking in their order, all whole but perhaps the last, and a chunk is only left out when no room remains (`Filled`); that a ranking exists at all is `ListedRight`.

Billing is proved in the style of rely and guarantee, since twenty-odd steps of many requests meet in the same rows. `BillingInv` says of the tables that payments and subscriptions are paired, one to one and
with agreeing statuses (`Paired`), that what the provider knows has a payment and a webhook means money (`Linked`), and the properties themselves. It says of a request what it asks for
(`Asks`) and what it relies on at its next await (`Needs`): the subscription it has created waits for its payment, the session it opens does not exist yet, what it will give back is not
pending. `Grows(r)` is what a step of request `r` does to the tables at most, and `Takes` that it takes over no one else's payment; one lemma shows that a step within these limits keeps
the needs of everybody else (`Alone`: of two requests with a key only one works on its payment). Then every step has to be shown to be within the limits and to keep its own needs, which
is one lemma each. `RowsAgree` is not inductive alone: a pending payment that is activated needs that its subscription still waits.

The chat page (`ChatInv`): a call of `send` or `attach` belongs to a version of the view. While this version is shown, the call's conversation is in view (`InPlace`) and Stop holds
its controller (`Stops`); afterwards it is aborted or its answer is ignored. What a read has got is of the conversation it was asked for (`CallOf`, `LoadOf`), an upload is in the conversation it was posted to
(`UploadOf`), and so what the view shows is of the conversation in its route or of the one it has created (`Pure`).

Administration (`AdminInv`): the property speaks of rows that no transaction holds. While one does, the entries tell of the state the row would be rolled back to (`Committed`), and what
the transaction has written follows from the statement it has reached (`Wrote`); a row has one holder. An entry that tells of the deletion of a row that is there belongs to a deletion under way (`Deletions`); it is known by the number of its edit, which no other request and no other entry has
(`Edits`), so a transaction that rolls back takes back its own entry and no other. For the ledger, a request that is to insert has seen no entry, and only one is, because of the advisory lock (`Knows`, `OneInserts`).

Identities (`IdentitiesInv`): what a window knows follows from how far its visit is (`Fits`). The heart is `Alone`: a journey somebody is away on is nobody else's, so that who agreed to it does not change between the exchange
and the sign-in; `Remembered` says that the cookie of a browser is of a journey begun in it, and `Accounts` that an identity, once it has an account, keeps it.

Pages (`PagesInv`): a request for the list that the hook still listens to is for the page's path and token and was sent after the last change that the page reported (`Listens`); what the hook
has is of the path and the token it was asked for (`Has`). For the flags, the answer to one handler resets none that another has set to keep others out (`HandlersFit`), which goes back to a
fact about the tables of operations: a flag that one operation sets and another waits for is one the first waits for as well (`FlagsMeet`).

The lock and the cookie (`TurnInv`), where there is `navigator.locks`: of two calls of a browser one waits for the other, so only one has the lock (`QueueInv`). A token that a refresh takes along, or that is
to become the cookie, counts unless its family was revoked or an answer about it was lost; so does the cookie, unless its successor is on the way back; and the families of two browsers, and of
a sign-in that is answered, are apart (`TokensInv`). A refresh of a browser that has signed out carries no token (`OutInv`). Without the lock `NoFalseAlarm` is false, as two tabs may take the same token along.


Only model-checked: liveness (`EventuallySettled`, `EveryCallEnds`, `PaidReachesUser`), which the provers cannot reach. Two kinds of reasoning are out of the provers' reach altogether: `ENABLED`, which fairness needs, and the
induction theorems of the library, which take an operator as a parameter; inductions over numbers are done with subsets of `Nat` instead.

## 4. Not modelled

Site settings (a row is written and audited), the audit log (append only), the Redis client and the rate counters built on it (any request may be admitted), health and metrics (read-only), the HTTP
shell, layout and wording of pages, seeds and scripts. The checks of `generate` before `reserve` (ownership, model capability) change nothing and only
narrow the calls that arrive. Of the web client, the preferences, usage and billing pages and the public pages are left out; so is the subscription provider,
which only reads. `reserveUsage` of `monetization.service.ts` is called nowhere.

## 5. What remains

A checkout that meets an edit of its promotion, between `Billing` and `Administration`.
