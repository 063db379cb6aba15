------------------------------ MODULE Generation ------------------------------
(***************************************************************************)
(* The part of generate() in chat.service.ts from the choice of candidate  *)
(* models to the final transaction, for the concurrent calls of one API    *)
(* process, which share the health of the models.                          *)
(*                                                                         *)
(* A call tries its candidates one after the other.  Between two awaits    *)
(* the code runs without interruption, so that an action here is the code  *)
(* from one await to the next; the client's disconnection, the deadline    *)
(* and the timer of the attempt may come at every await.                   *)
(***************************************************************************)
EXTENDS RoutingHealth, Sequences

CONSTANTS
  Calls,          \* requests to this process
  Modes,          \* routing modes of the requests
  Features,       \* tasks of the requests
  Nobody,         \* no model
  Rankings,       \* lists of candidates that rankModels() and
                  \* affordableCandidates() may return
  Duration,       \* maxDurationSeconds of the policy
  AttemptLimit,   \* attemptTimeoutSeconds of the policy
  Outputs,        \* bound: what providers send
  Disconnecting,  \* bound: calls whose client may disconnect
  MaxTime         \* bound: the clock stops here

ASSUME GenerationAssumption ==
  /\ Modes \subseteq {"AUTO", "MANUAL"}
  /\ Features \subseteq {"chat", "image", "document"}
  /\ Outputs \subseteq {"blank", "some", "usage", "image"}
  /\ Disconnecting \subseteq Calls
  /\ Nobody \notin Models
  /\ Rankings \subseteq Seq(Models)
  /\ \A s \in Rankings : /\ s # <<>>
                         /\ \A j, k \in DOMAIN s : s[j] = s[k] => j = k
  /\ Duration \in Nat \ {0} /\ AttemptLimit \in Nat \ {0} /\ MaxTime \in Nat

VARIABLES
  now,
  call      \* the local state of each call

vars == <<now, call, health, older>>

----------------------------------------------------------------------------
Running == {"open", "streaming", "saving", "document"}
Phases  == Running \cup {"idle", "chosen", "settling", "ended", "refused", "lost"}

Texts    == {"none", "blank", "some"}
Statuses == {"SUCCEEDED", "FAILED", "CANCELLED", "INTERRUPTED"}

\* One row of usageRecords.  `at` and `cause` are history: the time at which
\* the attempt ended and who ended it.
Record == [model : Models, status : Statuses, category : Categories \cup {"none"},
           at : Nat, cause : {"provider", "storage", "none"}]

CallState ==
  [phase     : Phases,
   mode      : {"AUTO", "MANUAL"},
   feature   : {"chat", "image", "document"},
   cands     : Seq(Models),
   i         : Nat,               \* index of the attempt, from 1
   deadline  : Nat,
   opened    : Nat,               \* history: when reserve() had returned
   first     : Nat,               \* history: start of the first attempt
   began     : Nat,               \* start of the attempt
   cancelled : BOOLEAN,           \* signal.aborted
   expired   : BOOLEAN,           \* deadline.aborted
   timedOut  : BOOLEAN,           \* attemptController.signal.aborted
   text      : Texts,             \* the answer's text: blank if only spaces
   artifacts : Nat,
   usage     : BOOLEAN,           \* the attempt reported tokens
   consumed  : BOOLEAN,
   status    : Statuses,
   records   : Seq(Record),
   author    : Models \cup {Nobody},  \* history: who wrote last
   spent     : BOOLEAN]           \* history: a provider reported output or cost

NewCall ==
  [phase |-> "idle", mode |-> "AUTO", feature |-> "chat", cands |-> <<>>,
   i |-> 0, deadline |-> 0, opened |-> 0, first |-> 0, began |-> 0,
   cancelled |-> FALSE, expired |-> FALSE, timedOut |-> FALSE, text |-> "none", artifacts |-> 0,
   usage |-> FALSE, consumed |-> FALSE, status |-> "FAILED", records |-> <<>>,
   author |-> Nobody, spent |-> FALSE]

Actual(x)  == x.cands[x.i]
IsLast(x)  == x.i = Len(x.cands)

AbortedByClient(x) == x.cancelled   \* faulty variant: without the deadline
Aborted(x) == x.cancelled \/ x.expired

\* attemptMs: timers truncate to whole units.
WholeLimit(n) == AttemptLimit       \* faulty variant: no share of the deadline
Share(n) == IF AttemptLimit < Duration \div n THEN AttemptLimit ELSE Duration \div n

Become(c, x) == call' = [call EXCEPT ![c] = x]

----------------------------------------------------------------------------
(* Candidates are chosen with the health of the moment, then reserve()     *)
(* waits for the database; the deadline starts after it.                   *)

Choose(c, mode, feature, cands) ==
  /\ call[c].phase = "idle"
  /\ IF mode = "MANUAL" THEN Len(cands) = 1
     ELSE \A j \in DOMAIN cands : Available(cands[j], now)
  /\ Become(c, [call[c] EXCEPT !.phase = "chosen", !.mode = mode,
                               !.feature = feature, !.cands = cands])
  /\ UNCHANGED <<now, health, older>>

Reserved(c) ==
  /\ call[c].phase = "chosen"
  /\ Become(c, [call[c] EXCEPT !.phase = "open", !.opened = now,
                               !.deadline = now + Duration])
  /\ UNCHANGED <<now, health, older>>

Refused(c) ==
  /\ call[c].phase = "chosen"
  /\ Become(c, [call[c] EXCEPT !.phase = "refused"])
  /\ UNCHANGED <<now, health, older>>

----------------------------------------------------------------------------
(* The head of the loop, for the next candidate of call state x. *)

NextAttempt(x) ==
  IF Aborted(x)
  THEN [x EXCEPT !.phase = "settling",
                 !.status = IF x.cancelled THEN "CANCELLED" ELSE "FAILED"]
  ELSE [x EXCEPT !.phase = "streaming", !.i = @ + 1, !.began = now,
                 !.first = IF x.i = 0 THEN now ELSE @,
                 !.timedOut = FALSE, !.usage = FALSE]

MessagesCreated(c) ==
  /\ call[c].phase = "open"
  /\ Become(c, NextAttempt(call[c]))
  /\ UNCHANGED <<now, health, older>>

MessagesFail(c) ==
  /\ call[c].phase = "open"
  /\ Become(c, [call[c] EXCEPT !.phase = "settling"])
  /\ UNCHANGED <<now, health, older>>

----------------------------------------------------------------------------
(* How an attempt ends.  `category` is that of the exception thrown; all   *)
(* exceptions but REQUEST may be retried with another model.               *)

CategoryOf(x, category) ==
  IF Aborted(x) THEN IF x.cancelled THEN "CANCELLED" ELSE "TRANSIENT"
  ELSE IF x.timedOut THEN "TRANSIENT" ELSE category

StatusOf(x) ==
  IF Aborted(x) THEN "CANCELLED"
  ELSE IF x.text # "none" \/ x.artifacts > 0 THEN "INTERRUPTED" ELSE "FAILED"

ConsumedAfter(x) == x.consumed \/ x.text = "some" \/ x.usage

StopsUnlessConsumed(x, category) ==   \* faulty variant: blank text is ignored
  \/ x.mode = "MANUAL" \/ ConsumedAfter(x) \/ Aborted(x)
  \/ category = "REQUEST" \/ IsLast(x)
Stops(x, category) ==
  \/ x.mode = "MANUAL" \/ ConsumedAfter(x) \/ x.text # "none" \/ Aborted(x)
  \/ category = "REQUEST" \/ IsLast(x)

Row(x, status, category, cause) ==
  [model |-> Actual(x), status |-> status, category |-> category,
   at |-> now, cause |-> cause]

\* Faulty variant: the status of the message is not that of the attempt.
KeepsStatus(x, category, cause) ==
  [x EXCEPT !.consumed = ConsumedAfter(x),
            !.records = Append(@, Row(x, StatusOf(x), CategoryOf(x, category), cause))]
Recorded(x, category, cause) ==
  [x EXCEPT !.status = StatusOf(x), !.consumed = ConsumedAfter(x),
            !.records = Append(@, Row(x, StatusOf(x), CategoryOf(x, category), cause))]

Fail(c, x, category, cause) ==
  /\ Failed(Actual(x), CategoryOf(x, category), now)
  /\ LET y == Recorded(x, category, cause)
     IN  Become(c, IF Stops(x, category) THEN [y EXCEPT !.phase = "settling"]
                   ELSE NextAttempt(y))
  /\ UNCHANGED now

Succeed(c, x) ==
  /\ Healed(Actual(x))
  /\ Become(c, [x EXCEPT !.phase = "settling", !.status = "SUCCEEDED",
                         !.consumed = TRUE,
                         !.records = Append(@, Row(x, "SUCCEEDED", "none", "none"))])
  /\ UNCHANGED now

----------------------------------------------------------------------------
(* What the adapter of the provider does while it streams. *)

Delta(c, text) ==
  LET x == call[c]
  IN  /\ x.phase = "streaming"
      /\ Become(c, [x EXCEPT !.text = IF @ = "some" THEN @ ELSE text,
                             !.author = Actual(x),
                             !.spent = @ \/ text = "some"])
      /\ UNCHANGED <<now, health, older>>

UsageReported(c) ==
  /\ call[c].phase = "streaming"
  /\ Become(c, [call[c] EXCEPT !.usage = TRUE, !.spent = TRUE])
  /\ UNCHANGED <<now, health, older>>

\* The callback `image`: a second image, or one that was not asked for, ends
\* the attempt.
Image(c) ==
  LET x == [call[c] EXCEPT !.consumed = TRUE, !.spent = TRUE]
  IN  /\ call[c].phase = "streaming"
      /\ IF x.feature # "image" \/ x.artifacts >= 1
         THEN Fail(c, x, "REQUEST", "provider")
         ELSE /\ Become(c, [x EXCEPT !.phase = "saving"])
              /\ UNCHANGED <<now, health, older>>

ImageSaved(c) ==
  LET x == call[c]
  IN  /\ x.phase = "saving"
      /\ Become(c, [x EXCEPT !.phase = "streaming", !.artifacts = @ + 1,
                             !.author = Actual(x)])
      /\ UNCHANGED <<now, health, older>>

\* saveGenerated() and saveDocument() throw exceptions that are not of class
\* ProviderFailure, which the catch takes for NETWORK_ERROR.
SaveFails(c) ==
  /\ call[c].phase \in {"saving", "document"}
  /\ Fail(c, call[c], "TRANSIENT", "storage")

StreamFails(c, category) ==
  /\ call[c].phase = "streaming"
  /\ Fail(c, call[c], category, "provider")

StreamReturns(c) ==
  LET x == call[c]
  IN  /\ x.phase = "streaming"
      /\ \/ /\ x.text # "some" /\ x.artifacts = 0           \* EMPTY_RESPONSE
            /\ Fail(c, x, "TRANSIENT", "provider")
         \/ /\ x.text = "some" /\ x.artifacts = 0           \* NO_IMAGE_RETURNED
            /\ x.feature = "image"
            /\ Fail(c, x, "REQUEST", "provider")
         \/ /\ x.text = "some" /\ x.feature = "document"
            /\ Become(c, [x EXCEPT !.phase = "document"])
            /\ UNCHANGED <<now, health, older>>
         \/ /\ x.artifacts > 0 \/ (x.text = "some" /\ x.feature = "chat")
            /\ Succeed(c, x)

DocumentSaved(c) ==
  /\ call[c].phase = "document"
  /\ Succeed(c, [call[c] EXCEPT !.artifacts = @ + 1])

----------------------------------------------------------------------------
(* Signals, the final transaction and the clock. *)

\* The client disconnects.
Cancel(c) ==
  /\ call[c].phase \in Running \cup {"chosen"} /\ ~call[c].cancelled
  /\ Become(c, [call[c] EXCEPT !.cancelled = TRUE])
  /\ UNCHANGED <<now, health, older>>

\* Faulty variant: the deadline is one of the timers of Auto.
DeadlineDueInAuto(c) ==
  /\ call[c].mode = "AUTO" /\ call[c].phase \in Running
  /\ ~call[c].expired /\ now >= call[c].deadline
DeadlineDue(c) ==
  call[c].phase \in Running /\ ~call[c].expired /\ now >= call[c].deadline

Deadline(c) ==
  /\ DeadlineDue(c)
  /\ Become(c, [call[c] EXCEPT !.expired = TRUE])
  /\ UNCHANGED <<now, health, older>>

AttemptDue(c) ==
  /\ call[c].phase \in Running \ {"open"} /\ ~call[c].timedOut
  /\ call[c].mode = "AUTO" /\ ~IsLast(call[c])
  /\ now >= call[c].began + Share(Len(call[c].cands))

AttemptTimeout(c) ==
  /\ AttemptDue(c)
  /\ Become(c, [call[c] EXCEPT !.timedOut = TRUE])
  /\ UNCHANGED <<now, health, older>>

Finish(c) ==
  /\ call[c].phase = "settling"
  /\ Become(c, [call[c] EXCEPT !.phase = "ended"])
  /\ UNCHANGED <<now, health, older>>

\* The final transaction fails: what the call has counted is lost with it.
FinishFails(c) ==
  /\ call[c].phase = "settling"
  /\ Become(c, [call[c] EXCEPT !.phase = "lost"])
  /\ UNCHANGED <<now, health, older>>

\* The stream of a provider fails when its signal aborts.
Interrupted(c) ==
  call[c].phase = "streaming" /\ (Aborted(call[c]) \/ call[c].timedOut)

\* Timers fire on time and aborted streams fail at once; writes take any time.
Tick ==
  /\ now < MaxTime
  /\ \A c \in Calls : ~DeadlineDue(c) /\ ~AttemptDue(c) /\ ~Interrupted(c)
  /\ now' = now + 1
  /\ UNCHANGED <<call, health, older>>

\* The bound on the clock is the only place where the model stops.
Terminating == now = MaxTime /\ UNCHANGED vars

----------------------------------------------------------------------------
Init ==
  /\ now = 0
  /\ call = [c \in Calls |-> NewCall]
  /\ health = [m \in {} |-> 0]
  /\ older = {}

Admission(c) ==
  \/ \E mode \in Modes, feature \in Features, cands \in Rankings :
       Choose(c, mode, feature, cands)
  \/ Reserved(c) \/ Refused(c)

Creation(c) == MessagesCreated(c) \/ MessagesFail(c)
Saving(c)   == ImageSaved(c) \/ SaveFails(c) \/ DocumentSaved(c)
Settling(c) == Finish(c) \/ FinishFails(c)

Streaming(c) ==
  \/ \E text \in Outputs \cap {"blank", "some"} : Delta(c, text)
  \/ "usage" \in Outputs /\ UsageReported(c)
  \/ "image" \in Outputs /\ Image(c)
  \/ StreamReturns(c)
  \/ \E category \in Categories \ {"CANCELLED"} : StreamFails(c, category)

Signals(c) ==
  \/ c \in Disconnecting /\ Cancel(c)
  \/ Deadline(c) \/ AttemptTimeout(c)

Next ==
  \/ \E c \in Calls : \/ Admission(c) \/ Creation(c) \/ Streaming(c)
                      \/ Saving(c) \/ Signals(c) \/ Settling(c)
  \/ Tick
  \/ Terminating

Spec == Init /\ [][Next]_vars

(* Timers fire, an aborted stream fails and the database answers. *)
StreamAborts(c) ==
  Interrupted(c) /\ \E category \in Categories \ {"CANCELLED"} : StreamFails(c, category)

Fairness ==
  /\ WF_vars(Tick)
  /\ \A c \in Calls :
       /\ WF_vars(Creation(c)) /\ WF_vars(Saving(c)) /\ WF_vars(Settling(c))
       /\ WF_vars(Deadline(c)) /\ WF_vars(AttemptTimeout(c))
       /\ WF_vars(StreamAborts(c))

FairSpec == Spec /\ Fairness

----------------------------------------------------------------------------
(* Properties. *)

(* The local state of each call and the health of the models are well typed. *)
TypeOK ==
  /\ now \in 0..MaxTime
  /\ call \in [Calls -> CallState]
  /\ DOMAIN health \subseteq Models /\ health \in [DOMAIN health -> Entry]
  /\ older \subseteq Models \X Models

(* Each call keeps the promise of module Answer: however attempts fail and *)
(* whenever the signals come, the answer has one author, and finalizeIn is *)
(* told that the allowance was consumed exactly if some provider delivered *)
(* output, an image or reported tokens.                                    *)
Stage(x) ==
  IF x.phase \in {"idle", "chosen", "refused"} THEN "idle"
  ELSE IF x.phase \in {"ended", "lost"} THEN x.phase ELSE "running"

Outcome(x) == IF x.phase = "ended" THEN x.status ELSE "NONE"
Charged(x) == x.phase = "ended" /\ x.consumed

Stages   == [c \in Calls |-> Stage(call[c])]
Authors  == [c \in Calls |-> call[c].author]
Costs    == [c \in Calls |-> call[c].spent]
Outcomes == [c \in Calls |-> Outcome(call[c])]
Charges  == [c \in Calls |-> Charged(call[c])]

Promise == INSTANCE Answer WITH
  stage <- Stages, author <- Authors, cost <- Costs,
  outcome <- Outcomes, charged <- Charges

KeepsPromise == Promise!Spec

(* A provider is not called once the client has gone or the deadline has   *)
(* passed, also when an attempt fails for another reason in the meantime.  *)
StopsWhenAsked ==
  [][\A c \in Calls :
       call[c].cancelled \/ call[c].expired => call'[c].i = call[c].i]_vars

(* When the attempts of a call are over there is one record for each of    *)
(* them, only the last may have succeeded or have left output, and the     *)
(* status of the message is that of the last attempt.                      *)
RecordsTell ==
  \A c \in Calls :
    LET x == call[c]
        n == Len(x.records)
    IN  x.phase \in {"settling", "ended"} =>
          /\ n = x.i
          /\ \A j \in 1..n : x.records[j].model = x.cands[j]
          /\ \A j \in 1..(n - 1) : x.records[j].status = "FAILED"
          /\ n > 0 => x.status = x.records[n].status
          /\ n = 0 => x.status \in {"FAILED", "CANCELLED"} /\ ~x.consumed

(* "Reserve time for remaining candidates" (chat.service.ts:359): if the   *)
(* earlier models hang, each later candidate still begins so early that    *)
(* the deadline leaves it, and everyone behind it, an equal part of the    *)
(* duration, less what the rows of the messages took, which are written    *)
(* when the deadline already runs; and no model that hangs costs the       *)
(* others more than the attempt's own limit.                               *)
FairShare ==
  \A c \in Calls :
    LET x    == call[c]
        n    == Len(x.cands)
        rows == x.first - x.opened
    IN  x.phase = "streaming" =>
          /\ n * (x.deadline - x.began + rows) >= (n - x.i + 1) * Duration
          /\ x.began - x.first <= (x.i - 1) * AttemptLimit

(* "Two transient failures, or one rate-limit response, cool a model down  *)
(* for 30 seconds.  Success resets" (docs/auto-routing.md), whichever      *)
(* concurrent calls the failures belong to.                                *)
AllRecords(m) ==
  {r \in [call : Calls, j : 1..Cardinality(Models)] :
     /\ r.j \in DOMAIN call[r.call].records
     /\ call[r.call].records[r.j].model = m}

RecordOf(r) == call[r.call].records[r.j]

NoSuccessSince(m, t) ==
  \A r \in AllRecords(m) : RecordOf(r).at >= t => RecordOf(r).status # "SUCCEEDED"

RestsAfterFailures ==
  Cardinality(Models) <= Capacity =>
    \A m \in Models : \A a, b \in AllRecords(m) :
      /\ RecordOf(a).category \in Penalized /\ RecordOf(b).category \in Penalized
      /\ a # b \/ RecordOf(b).category = "HTTP_429"
      /\ RecordOf(b).at - RecordOf(a).at \in 0..Forget
      /\ NoSuccessSince(m, RecordOf(a).at)
      /\ now < RecordOf(b).at + Cooldown
      => ~Available(m, now)

(* "User cancellation and request validation errors do not penalize model  *)
(* health" (docs/auto-routing.md): a penalty is due to a provider.         *)
PenaltiesEarned ==
  \A m \in DOMAIN health :
    \E r \in AllRecords(m) : /\ RecordOf(r).at = health[m].touched
                             /\ RecordOf(r).category \in Penalized
                             /\ RecordOf(r).cause = "provider"

(* Every call whose deadline falls within the bound of the clock ends,     *)
(* whatever its providers do.                                              *)
EveryCallEnds ==
  \A c \in Calls :
    call[c].phase \in Running /\ call[c].deadline <= MaxTime
      ~> call[c].phase \in {"ended", "lost"}

============================================================================
