--------------------------- MODULE GenerationProofs ---------------------------
(* Theorems about Generation: types, the promise of module Answer, that no *)
(* provider is called once the end of a call was asked for, that the       *)
(* records of the attempts are true, that the time is shared fairly and    *)
(* that Auto leaves alone a model which has just failed.                   *)
EXTENDS Generation, FunctionTheorems, FiniteSetTheorems, TLAPS

USE DEF vars

(* The inductive invariant, for the state x of one call.  Until the first  *)
(* attempt nothing has been written or spent.  During an attempt only its  *)
(* model has written anything, and the flags from which `consumed` will be *)
(* computed tell exactly whether something was spent.  When the attempts   *)
(* are over, `consumed` tells it.                                          *)

Fresh(x) ==
  /\ x.author = Nobody /\ x.spent = FALSE /\ x.consumed = FALSE
  /\ x.text = "none" /\ x.artifacts = 0 /\ x.usage = FALSE
  /\ x.i = 0 /\ x.status = "FAILED"

Attempt(x) ==
  /\ x.i \in 1..Len(x.cands)
  /\ x.author \in {Nobody, Actual(x)}
  /\ x.author = Nobody <=> (x.text = "none" /\ x.artifacts = 0)
  /\ x.artifacts > 0 => x.consumed
  /\ x.spent <=> ConsumedAfter(x)

Over(x) ==
  /\ x.spent <=> x.consumed
  /\ x.status = "SUCCEEDED" => x.author # Nobody /\ x.spent

Good(x) ==
  /\ x.phase \in {"idle", "chosen", "refused", "open"} => Fresh(x)
  /\ x.phase \in {"chosen", "open"} => Len(x.cands) > 0
  /\ x.phase \in {"streaming", "saving", "document"} => Attempt(x)
  /\ x.phase = "saving" => x.consumed
  /\ x.phase = "document" => x.text = "some"
  /\ x.phase \in {"settling", "ended", "lost"} => Over(x)

GenInv == TypeOK /\ \A c \in Calls : Good(call[c])

(* What the abstract answer does when the state of a call becomes y. *)

Same(x, y) ==
  /\ Stage(y) = Stage(x) /\ y.author = x.author /\ (y.spent <=> x.spent)
  /\ Outcome(y) = Outcome(x) /\ (Charged(y) <=> Charged(x))

Starts(x, y) ==
  /\ Stage(x) = "idle" /\ Stage(y) = "running"
  /\ y.author = x.author /\ (y.spent <=> x.spent)
  /\ Outcome(y) = Outcome(x) /\ (Charged(y) <=> Charged(x))

Produces(x, y) ==
  /\ Stage(x) = "running" /\ Stage(y) = "running"
  /\ \/ y.author = x.author
     \/ y.author \in Models /\ x.author \in {Nobody, y.author}
  /\ x.spent => y.spent
  /\ Outcome(y) = Outcome(x) /\ (Charged(y) <=> Charged(x))

Ends(x, y) ==
  /\ Stage(x) = "running" /\ Stage(y) = "ended"
  /\ y.status \in Statuses
  /\ y.status = "SUCCEEDED" => x.author # Nobody /\ x.spent
  /\ y.author = x.author /\ (y.spent <=> x.spent)
  /\ Outcome(y) = y.status /\ (Charged(y) <=> x.spent)

Loses(x, y) ==
  /\ Stage(x) = "running" /\ Stage(y) = "lost"
  /\ y.author = x.author /\ (y.spent <=> x.spent)
  /\ Outcome(y) = Outcome(x) /\ (Charged(y) <=> Charged(x))

AnswerStep(x, y) ==
  Same(x, y) \/ Starts(x, y) \/ Produces(x, y) \/ Ends(x, y) \/ Loses(x, y)

\* A step that keeps the invariant and both properties.
Legal(x, y) ==
  /\ y \in CallState
  /\ Good(y)
  /\ AnswerStep(x, y)
  /\ x.cancelled \/ x.expired => y.i = x.i

----------------------------------------------------------------------------
(* Attempts that end and begin. *)

LEMMA ActualType ==
  ASSUME NEW x \in CallState, x.i \in 1..Len(x.cands)
  PROVE  Actual(x) \in Models
  BY DEF CallState, Actual

LEMMA RowType ==
  ASSUME NEW x \in CallState, x.i \in 1..Len(x.cands), now \in Nat,
         NEW s \in Statuses, NEW category \in Categories \cup {"none"},
         NEW cause \in {"provider", "storage", "none"}
  PROVE  Append(x.records, Row(x, s, category, cause)) \in Seq(Record)
<1>1. Row(x, s, category, cause) \in Record
  BY ActualType DEF Row, Record
<1>2. x.records \in Seq(Record)
  BY DEF CallState
<1> QED
  BY <1>1, <1>2

LEMMA RecordedType ==
  ASSUME NEW x \in CallState, x.i \in 1..Len(x.cands), now \in Nat,
         NEW category \in Categories, NEW cause \in {"provider", "storage"}
  PROVE  Recorded(x, category, cause) \in CallState
<1>1. StatusOf(x) \in Statuses /\ CategoryOf(x, category) \in Categories
  BY DEF StatusOf, CategoryOf, Statuses, Categories
<1>2. Append(x.records, Row(x, StatusOf(x), CategoryOf(x, category), cause))
        \in Seq(Record)
  BY <1>1, RowType
<1>3. ConsumedAfter(x) \in BOOLEAN
  BY DEF ConsumedAfter, CallState
<1> HIDE DEF Record
<1> QED
  BY <1>1, <1>2, <1>3 DEF Recorded, CallState

LEMMA NextAttemptType ==
  ASSUME NEW x \in CallState, now \in Nat
  PROVE  NextAttempt(x) \in CallState
<1>1. CASE Aborted(x)
  BY <1>1 DEF NextAttempt, CallState, Phases, Running, Statuses
<1>2. CASE ~Aborted(x)
  <2> DEFINE f == IF x.i = 0 THEN now ELSE x.first
  <2>1. x.i + 1 \in Nat /\ f \in Nat
    BY DEF CallState
  <2> DEFINE y == [x EXCEPT !.phase = "streaming", !.i = x.i + 1, !.began = now]
             z == [y EXCEPT !.first = f, !.timedOut = FALSE, !.usage = FALSE]
  <2>2. NextAttempt(x) = z
    BY <1>2 DEF NextAttempt, CallState
  <2> HIDE DEF f
  <2>3. y \in CallState
    BY <2>1 DEF CallState, Phases, Running
  <2> HIDE DEF y
  <2>4. z \in CallState
    BY <2>1, <2>3 DEF CallState
  <2> QED
    BY <2>2, <2>4
<1> QED
  BY <1>1, <1>2

\* What a failed attempt leaves of the state of its call.
LEMMA RecordedFields ==
  ASSUME NEW x \in CallState, NEW category, NEW cause
  PROVE  LET y == Recorded(x, category, cause)
         IN  /\ y.status = StatusOf(x) /\ y.consumed = ConsumedAfter(x)
             /\ y.author = x.author /\ y.spent = x.spent /\ y.text = x.text
             /\ y.artifacts = x.artifacts /\ y.i = x.i /\ y.cands = x.cands
             /\ y.cancelled = x.cancelled /\ y.expired = x.expired
  BY DEF Recorded, CallState

\* What the next attempt begins with.
LEMMA NextAttemptFields ==
  ASSUME NEW x \in CallState, ~Aborted(x)
  PROVE  LET y == NextAttempt(x)
         IN  /\ y.phase = "streaming" /\ y.i = x.i + 1 /\ y.usage = FALSE
             /\ y.author = x.author /\ y.spent = x.spent /\ y.text = x.text
             /\ y.artifacts = x.artifacts /\ y.consumed = x.consumed
             /\ y.cands = x.cands
  BY DEF NextAttempt, CallState

\* The state of a call after its attempt failed.
AfterFailure(x, category, cause) ==
  LET y == Recorded(x, category, cause)
  IN  IF Stops(x, category) THEN [y EXCEPT !.phase = "settling"]
      ELSE NextAttempt(y)

\* A model is tried after another only if nothing was written or spent.
LEMMA FailureKeeps ==
  ASSUME NEW x \in CallState, Attempt(x), now \in Nat,
         NEW category \in Categories, NEW cause \in {"provider", "storage"}
  PROVE  LET z == AfterFailure(x, category, cause)
         IN  /\ z \in CallState /\ Good(z)
             /\ z.phase \in {"settling", "streaming"}
             /\ z.author = x.author /\ z.spent = x.spent
             /\ Aborted(x) => z.i = x.i
<1> DEFINE y == Recorded(x, category, cause)
           z == AfterFailure(x, category, cause)
<1>1. y \in CallState
  BY RecordedType DEF Attempt
<1>2. /\ y.status = StatusOf(x) /\ y.consumed = ConsumedAfter(x)
      /\ y.author = x.author /\ y.spent = x.spent /\ y.text = x.text
      /\ y.artifacts = x.artifacts /\ y.i = x.i /\ y.cands = x.cands
      /\ y.cancelled = x.cancelled /\ y.expired = x.expired
  BY RecordedFields
<1>3. CASE Stops(x, category)
  <2>1. z = [y EXCEPT !.phase = "settling"]
    BY <1>3 DEF AfterFailure
  <2> HIDE DEF y, z
  <2>2. z \in CallState
    BY <1>1, <2>1 DEF CallState, Phases
  <2>3. /\ z.phase = "settling" /\ z.status = y.status /\ z.consumed = y.consumed
        /\ z.author = y.author /\ z.spent = y.spent /\ z.i = y.i
    BY <1>1, <2>1 DEF CallState
  <2>4. StatusOf(x) # "SUCCEEDED"
    BY DEF StatusOf
  <2>5. Good(z)
    BY <1>2, <2>3, <2>4 DEF Good, Over, Attempt
  <2> QED
    BY <1>2, <2>2, <2>3, <2>5 DEF z
<1>4. CASE ~Stops(x, category)
  <2>1. z = NextAttempt(y) /\ ~Aborted(x) /\ ~ConsumedAfter(x) /\ x.text = "none"
        /\ ~IsLast(x)
    BY <1>4 DEF AfterFailure, Stops
  <2>2. ~Aborted(y)
    BY <1>2, <2>1 DEF Aborted
  <2> HIDE DEF y, z
  <2>3. z \in CallState
    BY <1>1, <2>1, NextAttemptType
  <2>4. /\ z.phase = "streaming" /\ z.i = y.i + 1 /\ z.usage = FALSE
        /\ z.author = y.author /\ z.spent = y.spent /\ z.text = y.text
        /\ z.artifacts = y.artifacts /\ z.consumed = y.consumed
        /\ z.cands = y.cands
    BY <1>1, <2>1, <2>2, NextAttemptFields
  <2>5. ~x.consumed /\ x.artifacts = 0 /\ x.author = Nobody /\ ~x.spent
    <3>1. ~x.consumed
      BY <2>1 DEF ConsumedAfter
    <3>2. x.artifacts = 0
      BY <3>1 DEF Attempt, CallState
    <3> QED
      BY <2>1, <3>1, <3>2 DEF Attempt
  <2>6. z.i \in 1..Len(z.cands)
    BY <1>2, <2>1, <2>4 DEF IsLast, Attempt, CallState
  <2>7. Attempt(z)
    BY <1>2, <2>1, <2>4, <2>5, <2>6 DEF Attempt, ConsumedAfter
  <2> QED
    BY <1>2, <2>1, <2>3, <2>4, <2>7 DEF Good, z
<1> QED
  BY <1>3, <1>4

----------------------------------------------------------------------------
(* Every action changes one call, legally. *)

StepOf(c) == \E y : Legal(call[c], y) /\ Become(c, y)

LEMMA CallFacts ==
  ASSUME NEW c \in Calls, GenInv
  PROVE  call[c] \in CallState /\ Good(call[c]) /\ now \in Nat
  BY GenerationAssumption DEF GenInv, TypeOK

LEMMA AdmissionLegal ==
  ASSUME NEW c \in Calls, GenInv, Admission(c)
  PROVE  StepOf(c)
<1> DEFINE x == call[c]
<1>1. x \in CallState /\ Good(x) /\ now \in Nat
  BY CallFacts
<1>2. ASSUME NEW mode \in Modes, NEW feature \in Features,
             NEW cands \in Rankings, Choose(c, mode, feature, cands)
      PROVE  StepOf(c)
  <2> DEFINE y == [x EXCEPT !.phase = "chosen", !.mode = mode,
                            !.feature = feature, !.cands = cands]
  <2>1. x.phase = "idle" /\ Become(c, y)
    BY <1>2 DEF Choose
  <2>2. /\ mode \in {"AUTO", "MANUAL"} /\ feature \in {"chat", "image", "document"}
        /\ cands \in Seq(Models) /\ Len(cands) > 0
    BY GenerationAssumption
  <2> HIDE DEF x
  <2>3. y \in CallState
    BY <1>1, <2>2 DEF CallState, Phases
  <2>4. Good(y)
    BY <1>1, <2>1, <2>2 DEF Good, Fresh, CallState
  <2>5. Same(x, y) /\ y.i = x.i
    BY <1>1, <2>1 DEF Same, Stage, Outcome, Charged, CallState, Running
  <2> QED
    BY <2>1, <2>3, <2>4, <2>5 DEF StepOf, Legal, AnswerStep, x
<1>3. ASSUME Reserved(c) PROVE StepOf(c)
  <2> DEFINE y == [x EXCEPT !.phase = "open", !.opened = now, !.deadline = now + Duration]
  <2>1. x.phase = "chosen" /\ Become(c, y)
    BY <1>3 DEF Reserved
  <2>2. now + Duration \in Nat
    BY <1>1, GenerationAssumption
  <2> HIDE DEF x
  <2>3. y \in CallState
    BY <1>1, <2>2 DEF CallState, Phases, Running
  <2>4. Good(y)
    BY <1>1, <2>1, <2>2 DEF Good, Fresh, CallState
  <2>5. Starts(x, y) /\ y.i = x.i
    BY <1>1, <2>1 DEF Starts, Stage, Outcome, Charged, CallState, Running
  <2> QED
    BY <2>1, <2>3, <2>4, <2>5 DEF StepOf, Legal, AnswerStep, x
<1>4. ASSUME Refused(c) PROVE StepOf(c)
  <2> DEFINE y == [x EXCEPT !.phase = "refused"]
  <2>1. x.phase = "chosen" /\ Become(c, y)
    BY <1>4 DEF Refused
  <2> HIDE DEF x
  <2>3. y \in CallState
    BY <1>1 DEF CallState, Phases
  <2>4. Good(y)
    BY <1>1, <2>1 DEF Good, Fresh, CallState
  <2>5. Same(x, y) /\ y.i = x.i
    BY <1>1, <2>1 DEF Same, Stage, Outcome, Charged, CallState, Running
  <2> QED
    BY <2>1, <2>3, <2>4, <2>5 DEF StepOf, Legal, AnswerStep, x
<1> QED
  BY <1>2, <1>3, <1>4 DEF Admission

LEMMA CreationLegal ==
  ASSUME NEW c \in Calls, GenInv, Creation(c)
  PROVE  StepOf(c)
<1> DEFINE x == call[c]
<1>1. x \in CallState /\ Good(x) /\ now \in Nat
  BY CallFacts
<1>2. ASSUME NEW y, x.phase = "open", Become(c, y), y \in CallState,
             \/ y.phase = "settling" /\ Over(y)
             \/ y.phase = "streaming" /\ Attempt(y),
             y.author = x.author, y.spent = x.spent,
             x.cancelled \/ x.expired => y.i = x.i
      PROVE  StepOf(c)
  <2> HIDE DEF x
  <2>1. Good(y)
    BY <1>2 DEF Good
  <2>2. Same(x, y)
    BY <1>2 DEF Same, Stage, Outcome, Charged, Running
  <2> QED
    BY <1>2, <2>1, <2>2 DEF StepOf, Legal, AnswerStep, x
<1>3. ASSUME MessagesCreated(c) PROVE StepOf(c)
  <2> DEFINE y == NextAttempt(x)
  <2>1. x.phase = "open" /\ Become(c, y)
    BY <1>3 DEF MessagesCreated
  <2> HIDE DEF x
  <2>2. y \in CallState
    BY <1>1, NextAttemptType
  <2>3. CASE Aborted(x)
    <3>1. y = [x EXCEPT !.phase = "settling",
                        !.status = IF x.cancelled THEN "CANCELLED" ELSE "FAILED"]
      BY <2>3 DEF NextAttempt
    <3>2. y.phase = "settling" /\ Over(y) /\ y.author = x.author
          /\ y.spent = x.spent /\ y.i = x.i
      BY <1>1, <2>1, <3>1 DEF Good, Fresh, Over, CallState
    <3> HIDE DEF y
    <3> QED
      BY <1>2, <2>1, <2>2, <3>2
  <2>4. CASE ~Aborted(x)
    <3>1. /\ y.phase = "streaming" /\ y.i = x.i + 1 /\ y.usage = FALSE
          /\ y.author = x.author /\ y.spent = x.spent /\ y.text = x.text
          /\ y.artifacts = x.artifacts /\ y.consumed = x.consumed
          /\ y.cands = x.cands
      BY <1>1, <2>4, NextAttemptFields
    <3> HIDE DEF y
    <3>2. Fresh(x) /\ Len(x.cands) \in Nat \ {0}
      BY <1>1, <2>1 DEF Good, CallState
    <3>3. Attempt(y)
      BY <3>1, <3>2 DEF Fresh, Attempt, ConsumedAfter
    <3>4. ~x.cancelled /\ ~x.expired
      BY <2>4 DEF Aborted
    <3> QED
      BY <1>2, <2>1, <2>2, <3>1, <3>3, <3>4
  <2> QED
    BY <2>3, <2>4
<1>4. ASSUME MessagesFail(c) PROVE StepOf(c)
  <2> DEFINE y == [x EXCEPT !.phase = "settling"]
  <2>1. x.phase = "open" /\ Become(c, y)
    BY <1>4 DEF MessagesFail
  <2> HIDE DEF x
  <2>2. y \in CallState
    BY <1>1 DEF CallState, Phases
  <2>3. y.phase = "settling" /\ Over(y) /\ y.author = x.author
        /\ y.spent = x.spent /\ y.i = x.i
    BY <1>1, <2>1 DEF Good, Fresh, Over, CallState
  <2> HIDE DEF y
  <2> QED
    BY <1>2, <2>1, <2>2, <2>3
<1> QED
  BY <1>3, <1>4 DEF Creation

LEMMA FailLegal ==
  ASSUME NEW c \in Calls, call[c] \in CallState, now \in Nat,
         call[c].phase \in {"streaming", "saving", "document"},
         NEW x \in CallState, Attempt(x),
         NEW category \in Categories, NEW cause \in {"provider", "storage"},
         Fail(c, x, category, cause),
         x.author = call[c].author, call[c].spent => x.spent, x.i = call[c].i,
         x.cancelled = call[c].cancelled, x.expired = call[c].expired
  PROVE  StepOf(c)
<1> DEFINE y == AfterFailure(x, category, cause)
<1>1. Become(c, y)
  BY DEF Fail, AfterFailure
<1>2. /\ y \in CallState /\ Good(y) /\ y.phase \in {"settling", "streaming"}
      /\ y.author = x.author /\ y.spent = x.spent
      /\ Aborted(x) => y.i = x.i
  BY FailureKeeps
<1> HIDE DEF y
<1>3. Produces(call[c], y)
  BY <1>2 DEF Produces, Stage, Outcome, Charged, Running
<1>4. call[c].cancelled \/ call[c].expired => y.i = call[c].i
  BY <1>2 DEF Aborted
<1> QED
  BY <1>1, <1>2, <1>3, <1>4 DEF StepOf, Legal, AnswerStep

LEMMA SucceedLegal ==
  ASSUME NEW c \in Calls, call[c] \in CallState, now \in Nat,
         call[c].phase \in {"streaming", "document"},
         NEW x \in CallState, x.i \in 1..Len(x.cands), Succeed(c, x),
         x.author = call[c].author, x.spent = call[c].spent, x.i = call[c].i,
         x.author # Nobody, x.spent
  PROVE  StepOf(c)
<1> DEFINE r == Append(x.records, Row(x, "SUCCEEDED", "none", "none"))
           y == [x EXCEPT !.phase = "settling", !.status = "SUCCEEDED",
                          !.consumed = TRUE, !.records = r]
<1>1. Become(c, y)
  BY DEF Succeed
<1>2. r \in Seq(Record)
  BY RowType DEF Statuses
<1> HIDE DEF r, Record
<1>3. y \in CallState
  BY <1>2 DEF CallState, Phases, Statuses
<1>4. /\ y.phase = "settling" /\ y.consumed = TRUE /\ y.author = x.author
      /\ y.spent = x.spent /\ y.i = x.i
  BY DEF CallState
<1> HIDE DEF y
<1>5. Good(y)
  BY <1>4 DEF Good, Over
<1>6. Same(call[c], y)
  BY <1>4 DEF Same, Stage, Outcome, Charged, Running
<1> QED
  BY <1>1, <1>3, <1>4, <1>5, <1>6 DEF StepOf, Legal, AnswerStep

LEMMA StreamingLegal ==
  ASSUME NEW c \in Calls, GenInv, Streaming(c)
  PROVE  StepOf(c)
<1> DEFINE x == call[c]
<1>1. x \in CallState /\ Good(x) /\ now \in Nat
  BY CallFacts
<1>2. x.phase = "streaming"
  BY DEF Streaming, Delta, UsageReported, Image, StreamReturns, StreamFails
<1>3. Attempt(x)
  BY <1>1, <1>2 DEF Good
<1>4. Actual(x) \in Models
  BY <1>1, <1>3, ActualType DEF Attempt
<1>5. ASSUME NEW text \in {"blank", "some"}, Delta(c, text) PROVE StepOf(c)
  <2> DEFINE t == IF x.text = "some" THEN x.text ELSE text
             p == x.spent \/ text = "some"
             y == [x EXCEPT !.text = t, !.author = Actual(x), !.spent = p]
  <2>1. Become(c, y)
    BY <1>5 DEF Delta
  <2>2. t \in {"blank", "some"} /\ p \in BOOLEAN
        /\ (t = "some" <=> x.text = "some" \/ text = "some")
    BY <1>1 DEF CallState
  <2>3. p <=> x.spent \/ text = "some"
    OBVIOUS
  <2> HIDE DEF x, t, p
  <2>4. y \in CallState
    BY <1>1, <1>4, <2>2 DEF CallState, Texts
  <2>5. /\ y.phase = x.phase /\ y.text = t /\ y.author = Actual(x) /\ y.spent = p
        /\ y.artifacts = x.artifacts /\ y.consumed = x.consumed
        /\ y.usage = x.usage /\ y.i = x.i /\ y.cands = x.cands
    BY <1>1 DEF CallState
  <2> HIDE DEF y
  <2>6. Actual(y) = Actual(x)
    BY <2>5 DEF Actual
  <2>7. Attempt(y)
    BY <1>3, <1>4, <2>2, <2>3, <2>5, <2>6, GenerationAssumption
       DEF Attempt, ConsumedAfter
  <2>8. Good(y)
    BY <1>2, <2>5, <2>7 DEF Good
  <2>9. Produces(x, y)
    BY <1>2, <1>3, <1>4, <2>3, <2>5
       DEF Produces, Stage, Outcome, Charged, Running, Attempt
  <2> QED
    BY <2>1, <2>4, <2>5, <2>8, <2>9 DEF StepOf, Legal, AnswerStep, x
<1>6. ASSUME UsageReported(c) PROVE StepOf(c)
  <2> DEFINE y == [x EXCEPT !.usage = TRUE, !.spent = TRUE]
  <2>1. Become(c, y)
    BY <1>6 DEF UsageReported
  <2> HIDE DEF x
  <2>2. y \in CallState
    BY <1>1 DEF CallState
  <2>3. /\ y.phase = x.phase /\ y.text = x.text /\ y.author = x.author
        /\ y.artifacts = x.artifacts /\ y.consumed = x.consumed
        /\ y.spent = TRUE /\ y.usage = TRUE /\ y.i = x.i /\ y.cands = x.cands
    BY <1>1 DEF CallState
  <2> HIDE DEF y
  <2>4. Attempt(y)
    BY <1>3, <2>3 DEF Attempt, ConsumedAfter, Actual
  <2>5. Good(y)
    BY <1>2, <2>3, <2>4 DEF Good
  <2>6. Produces(x, y)
    BY <1>2, <2>3 DEF Produces, Stage, Outcome, Charged, Running
  <2> QED
    BY <2>1, <2>2, <2>3, <2>5, <2>6 DEF StepOf, Legal, AnswerStep, x
<1>7. ASSUME Image(c) PROVE StepOf(c)
  <2> DEFINE y == [x EXCEPT !.consumed = TRUE, !.spent = TRUE]
  <2>1. y \in CallState
    BY <1>1 DEF CallState
  <2>2. /\ y.phase = x.phase /\ y.text = x.text /\ y.author = x.author
        /\ y.artifacts = x.artifacts /\ y.consumed = TRUE
        /\ y.spent = TRUE /\ y.usage = x.usage /\ y.i = x.i /\ y.cands = x.cands
        /\ y.cancelled = x.cancelled /\ y.expired = x.expired
    BY <1>1 DEF CallState
  <2>3. Fail(c, y, "REQUEST", "provider") \/ Become(c, [y EXCEPT !.phase = "saving"])
    BY <1>7 DEF Image
  <2> HIDE DEF y
  <2>4. Attempt(y)
    BY <1>3, <2>2 DEF Attempt, ConsumedAfter, Actual
  <2>5. CASE Fail(c, y, "REQUEST", "provider")
    BY <1>1, <1>2, <2>1, <2>2, <2>4, <2>5, FailLegal DEF Categories
  <2>6. CASE Become(c, [y EXCEPT !.phase = "saving"])
    <3> DEFINE z == [y EXCEPT !.phase = "saving"]
    <3> HIDE DEF x
    <3>1. z \in CallState
      BY <2>1 DEF CallState, Phases, Running
    <3>2. /\ z.phase = "saving" /\ z.text = y.text /\ z.author = y.author
          /\ z.artifacts = y.artifacts /\ z.consumed = y.consumed
          /\ z.spent = y.spent /\ z.usage = y.usage /\ z.i = y.i
          /\ z.cands = y.cands
      BY <2>1 DEF CallState
    <3>3. Become(c, z)
      BY <2>6
    <3> HIDE DEF z
    <3>4. Attempt(z)
      BY <2>4, <3>2 DEF Attempt, ConsumedAfter, Actual
    <3>5. Good(z)
      BY <2>2, <3>2, <3>4 DEF Good
    <3>6. Produces(x, z)
      BY <1>2, <2>2, <3>2 DEF Produces, Stage, Outcome, Charged, Running
    <3> QED
      BY <2>2, <3>1, <3>2, <3>3, <3>5, <3>6 DEF StepOf, Legal, AnswerStep, x
  <2> QED
    BY <2>3, <2>5, <2>6
<1>8. ASSUME NEW category \in Categories, Fail(c, x, category, "provider")
      PROVE  StepOf(c)
  BY <1>1, <1>2, <1>3, <1>8, FailLegal
<1>9. ASSUME StreamReturns(c) PROVE StepOf(c)
  <2>1. CASE Fail(c, x, "TRANSIENT", "provider")
    BY <1>8, <2>1 DEF Categories
  <2>2. CASE Fail(c, x, "REQUEST", "provider")
    BY <1>8, <2>2 DEF Categories
  <2>3. CASE x.text = "some" /\ Become(c, [x EXCEPT !.phase = "document"])
    <3> DEFINE z == [x EXCEPT !.phase = "document"]
    <3>1. Become(c, z)
      BY <2>3
    <3> HIDE DEF x
    <3>2. z \in CallState
      BY <1>1 DEF CallState, Phases, Running
    <3>3. /\ z.phase = "document" /\ z.text = x.text /\ z.author = x.author
          /\ z.artifacts = x.artifacts /\ z.consumed = x.consumed
          /\ z.spent = x.spent /\ z.usage = x.usage /\ z.i = x.i
          /\ z.cands = x.cands
      BY <1>1 DEF CallState
    <3> HIDE DEF z
    <3>4. Attempt(z)
      BY <1>3, <3>3 DEF Attempt, ConsumedAfter, Actual
    <3>5. Good(z)
      BY <2>3, <3>3, <3>4 DEF Good
    <3>6. Same(x, z)
      BY <1>2, <3>3 DEF Same, Stage, Outcome, Charged, Running
    <3> QED
      BY <3>1, <3>2, <3>3, <3>5, <3>6 DEF StepOf, Legal, AnswerStep, x
  <2>4. CASE (x.artifacts > 0 \/ x.text = "some") /\ Succeed(c, x)
    <3>1. x.author # Nobody /\ x.spent
      BY <1>1, <1>3, <2>4 DEF Attempt, ConsumedAfter, CallState
    <3> QED
      BY <1>1, <1>2, <1>3, <2>4, <3>1, SucceedLegal DEF Attempt
  <2> QED
    BY <1>9, <2>1, <2>2, <2>3, <2>4 DEF StreamReturns
<1>10. ASSUME NEW category \in Categories, StreamFails(c, category)
       PROVE  StepOf(c)
  BY <1>8, <1>10 DEF StreamFails
<1> QED
  BY <1>5, <1>6, <1>7, <1>9, <1>10 DEF Streaming

LEMMA SavingLegal ==
  ASSUME NEW c \in Calls, GenInv, Saving(c)
  PROVE  StepOf(c)
<1> DEFINE x == call[c]
<1>1. x \in CallState /\ Good(x) /\ now \in Nat
  BY CallFacts
<1>2. x.phase \in {"saving", "document"} /\ Attempt(x)
  BY <1>1 DEF Saving, ImageSaved, SaveFails, DocumentSaved, Good
<1>3. Actual(x) \in Models
  BY <1>1, <1>2, ActualType DEF Attempt
<1>4. ASSUME ImageSaved(c) PROVE StepOf(c)
  <2> DEFINE n == x.artifacts + 1
             y == [x EXCEPT !.phase = "streaming", !.artifacts = n,
                            !.author = Actual(x)]
  <2>0. n \in Nat /\ n > 0
    BY <1>1 DEF CallState
  <2>1. x.phase = "saving" /\ Become(c, y)
    BY <1>4 DEF ImageSaved
  <2> HIDE DEF x, n
  <2>2. y \in CallState
    BY <1>1, <1>3, <2>0 DEF CallState, Phases, Running
  <2>3. /\ y.phase = "streaming" /\ y.text = x.text /\ y.author = Actual(x)
        /\ y.artifacts = n /\ y.consumed = x.consumed
        /\ y.spent = x.spent /\ y.usage = x.usage /\ y.i = x.i
        /\ y.cands = x.cands
    BY <1>1 DEF CallState
  <2> HIDE DEF y
  <2>4. Actual(y) = Actual(x) /\ x.consumed
    BY <1>1, <2>1, <2>3 DEF Actual, Good
  <2>5. Attempt(y)
    BY <1>2, <1>3, <2>0, <2>3, <2>4, GenerationAssumption
       DEF Attempt, ConsumedAfter
  <2>6. Good(y)
    BY <2>3, <2>5 DEF Good
  <2>7. Produces(x, y)
    BY <1>2, <1>3, <2>1, <2>3 DEF Produces, Stage, Outcome, Charged, Running, Attempt
  <2> QED
    BY <2>1, <2>2, <2>3, <2>6, <2>7 DEF StepOf, Legal, AnswerStep, x
<1>5. ASSUME SaveFails(c) PROVE StepOf(c)
  <2>1. Fail(c, x, "TRANSIENT", "storage")
    BY <1>5 DEF SaveFails
  <2> QED
    BY <1>1, <1>2, <2>1, FailLegal DEF Categories
<1>6. ASSUME DocumentSaved(c) PROVE StepOf(c)
  <2> DEFINE n == x.artifacts + 1
             y == [x EXCEPT !.artifacts = n]
  <2>0. n \in Nat
    BY <1>1 DEF CallState
  <2>1. x.phase = "document" /\ Succeed(c, y)
    BY <1>6 DEF DocumentSaved
  <2> HIDE DEF n
  <2>2. y \in CallState
    BY <1>1, <2>0 DEF CallState
  <2>3. y.author = x.author /\ y.spent = x.spent /\ y.i = x.i /\ y.cands = x.cands
    BY <1>1 DEF CallState
  <2>4. x.author # Nobody /\ x.spent
    BY <1>1, <1>2, <2>1 DEF Good, Attempt, ConsumedAfter
  <2> HIDE DEF y
  <2> QED
    BY <1>1, <1>2, <2>1, <2>2, <2>3, <2>4, SucceedLegal DEF Attempt
<1> QED
  BY <1>4, <1>5, <1>6 DEF Saving

\* A signal changes one flag.
SameButFlags(x, y) ==
  /\ y.phase = x.phase /\ y.text = x.text /\ y.author = x.author
  /\ y.artifacts = x.artifacts /\ y.consumed = x.consumed
  /\ y.spent = x.spent /\ y.usage = x.usage /\ y.i = x.i
  /\ y.cands = x.cands /\ y.status = x.status

LEMMA FlagLegal ==
  ASSUME NEW c \in Calls, call[c] \in CallState, Good(call[c]),
         NEW y \in CallState, Become(c, y),
         SameButFlags(call[c], y)
  PROVE  StepOf(c)
<1>1. Good(y)
  BY DEF SameButFlags, Good, Fresh, Attempt, Over, ConsumedAfter, Actual
<1>2. Same(call[c], y) /\ y.i = call[c].i
  BY DEF SameButFlags, Same, Stage, Outcome, Charged
<1> QED
  BY <1>1, <1>2 DEF StepOf, Legal, AnswerStep

LEMMA SignalsLegal ==
  ASSUME NEW c \in Calls, GenInv, Signals(c)
  PROVE  StepOf(c)
<1> DEFINE x == call[c]
<1>1. x \in CallState /\ Good(x)
  BY CallFacts
<1>2. PICK y : /\ Become(c, y)
               /\ \/ y = [x EXCEPT !.cancelled = TRUE]
                  \/ y = [x EXCEPT !.expired = TRUE]
                  \/ y = [x EXCEPT !.timedOut = TRUE]
  BY DEF Signals, Cancel, Deadline, AttemptTimeout
<1> HIDE DEF x
<1>3. y \in CallState /\ SameButFlags(x, y)
  <2>1. CASE y = [x EXCEPT !.cancelled = TRUE]
    BY <1>1, <2>1 DEF SameButFlags, CallState
  <2>2. CASE y = [x EXCEPT !.expired = TRUE]
    BY <1>1, <2>2 DEF SameButFlags, CallState
  <2>3. CASE y = [x EXCEPT !.timedOut = TRUE]
    BY <1>1, <2>3 DEF SameButFlags, CallState
  <2> QED
    BY <1>2, <2>1, <2>2, <2>3
<1> QED
  BY <1>1, <1>2, <1>3, FlagLegal DEF x

LEMMA SettlingLegal ==
  ASSUME NEW c \in Calls, GenInv, Settling(c)
  PROVE  StepOf(c)
<1> DEFINE x == call[c]
<1>1. x \in CallState /\ Good(x)
  BY CallFacts
<1>2. ASSUME NEW phase \in {"ended", "lost"}, x.phase = "settling",
             Become(c, [x EXCEPT !.phase = phase])
      PROVE  StepOf(c)
  <2> DEFINE y == [x EXCEPT !.phase = phase]
  <2>1. Become(c, y)
    BY <1>2
  <2> HIDE DEF x
  <2>2. y \in CallState
    BY <1>1 DEF CallState, Phases
  <2>3. /\ y.phase = phase /\ y.author = x.author /\ y.consumed = x.consumed
        /\ y.spent = x.spent /\ y.i = x.i /\ y.status = x.status
        /\ x.status \in Statuses
    BY <1>1 DEF CallState
  <2> HIDE DEF y
  <2>4. Over(x)
    BY <1>1, <1>2 DEF Good
  <2>5. Good(y)
    BY <1>2, <2>3, <2>4 DEF Good, Over
  <2>6. Ends(x, y) \/ Loses(x, y)
    BY <1>2, <2>3, <2>4 DEF Ends, Loses, Over, Stage, Outcome, Charged, Running
  <2> QED
    BY <2>1, <2>2, <2>3, <2>5, <2>6 DEF StepOf, Legal, AnswerStep, x
<1> QED
  BY <1>2 DEF Settling, Finish, FinishFails

----------------------------------------------------------------------------
(* The health of the models stays well typed. *)

HealthTyped ==
  /\ DOMAIN health \subseteq Models /\ health \in [DOMAIN health -> Entry]
  /\ older \subseteq Models \X Models

LEMMA HealedTyped ==
  ASSUME HealthTyped, NEW m, Healed(m)
  PROVE  HealthTyped'
<1> DEFINE rest == DOMAIN health \ {m}
<1>1. health' = [d \in rest |-> health[d]] /\ older' = Among(older, rest)
  BY DEF Healed
<1>2. older' \subseteq older
  BY <1>1 DEF Among
<1>3. DOMAIN health' \subseteq Models /\ health' \in [DOMAIN health' -> Entry]
  BY <1>1 DEF HealthTyped
<1> QED
  BY <1>2, <1>3 DEF HealthTyped

LEMMA CountedTyped ==
  ASSUME HealthTyped, NEW m \in Models, NEW category, NEW t \in Nat,
         Counted(m, category, t)
  PROVE  HealthTyped'
<1> DEFINE rest == Kept(t) \ Evicted(m, t)
           n == Failures(m, t)
           u == Until(n, category, t)
           e == [failures |-> n, touched |-> t, until |-> u]
<1>1. rest \subseteq DOMAIN health /\ rest \subseteq Models
  BY DEF Kept, HealthTyped
<1>2. n \in Nat \ {0}
  <2>1. \A d \in Kept(t) : health[d].failures \in Nat
    BY DEF Kept, HealthTyped, Entry
  <2> QED
    BY <2>1 DEF Failures
<1>3. u \in Nat
  <2>1. t + Cooldown \in Nat
    BY HealthAssumption
  <2> HIDE DEF n
  <2> QED
    BY <2>1 DEF Until
<1> HIDE DEF n, u
<1>4. e \in Entry
  BY <1>2, <1>3 DEF Entry
<1>5. /\ health' = [d \in rest \cup {m} |-> IF d = m THEN e ELSE health[d]]
      /\ older' = Among(older, rest) \cup (IF m \in rest THEN {} ELSE rest \X {m})
  BY DEF Counted, n, u
<1> HIDE DEF rest, e
<1>6. older' \subseteq Models \X Models
  BY <1>1, <1>5 DEF Among, HealthTyped
<1>7. \A d \in rest \cup {m} : (IF d = m THEN e ELSE health[d]) \in Entry
  BY <1>1, <1>4 DEF HealthTyped
<1>8. DOMAIN health' \subseteq Models /\ health' \in [DOMAIN health' -> Entry]
  BY <1>1, <1>5, <1>7
<1> QED
  BY <1>6, <1>8 DEF HealthTyped

HealthStep ==
  \/ UNCHANGED <<health, older>>
  \/ \E m \in Models : Healed(m) \/ \E category : Counted(m, category, now)

LEMMA HealthStepTyped ==
  ASSUME HealthTyped, now \in Nat, HealthStep
  PROVE  HealthTyped'
<1>1. CASE UNCHANGED <<health, older>>
  BY <1>1 DEF HealthTyped
<1> QED
  BY <1>1, HealedTyped, CountedTyped DEF HealthStep

\* The attempt that ends belongs to a candidate, and the clock stands still.
LEMMA AttemptsStepHealth ==
  ASSUME NEW c \in Calls, GenInv,
         \/ Admission(c) \/ Creation(c) \/ Streaming(c)
         \/ Saving(c) \/ Signals(c) \/ Settling(c)
  PROVE  HealthStep /\ now' = now
<1> DEFINE x == call[c]
<1>1. x \in CallState /\ Good(x)
  BY CallFacts
<1>2. ASSUME NEW y, y.cands = x.cands, y.i = x.i,
             x.phase \in {"streaming", "saving", "document"}
      PROVE  Actual(y) \in Models
  <2>1. Actual(x) \in Models
    BY <1>1, <1>2, ActualType DEF Good, Attempt
  <2> QED
    BY <1>2, <2>1 DEF Actual
<1>3. ASSUME NEW y, y.cands = x.cands, y.i = x.i,
             x.phase \in {"streaming", "saving", "document"},
             NEW category, NEW cause, Fail(c, y, category, cause)
      PROVE  HealthStep /\ now' = now
  BY <1>2, <1>3 DEF Fail, Failed, HealthStep
<1>4. ASSUME NEW y, y.cands = x.cands, y.i = x.i,
             x.phase \in {"streaming", "saving", "document"}, Succeed(c, y)
      PROVE  HealthStep /\ now' = now
  BY <1>2, <1>4 DEF Succeed, HealthStep
<1>5. CASE Admission(c)
  BY <1>5 DEF Admission, Choose, Reserved, Refused, HealthStep
<1>6. CASE Creation(c)
  BY <1>6 DEF Creation, MessagesCreated, MessagesFail, HealthStep
<1>7. CASE Streaming(c)
  <2>1. ASSUME Image(c) PROVE HealthStep /\ now' = now
    <3> DEFINE y == [x EXCEPT !.consumed = TRUE, !.spent = TRUE]
    <3>1. y.cands = x.cands /\ y.i = x.i
      BY <1>1 DEF CallState
    <3>2. x.phase = "streaming"
          /\ (Fail(c, y, "REQUEST", "provider") \/ UNCHANGED <<now, health, older>>)
      BY <2>1 DEF Image
    <3> HIDE DEF y, x
    <3> QED
      BY <1>3, <3>1, <3>2 DEF HealthStep
  <2>2. ASSUME StreamReturns(c) PROVE HealthStep /\ now' = now
    <3>1. /\ x.phase = "streaming"
          /\ \/ \E category : Fail(c, x, category, "provider")
             \/ Succeed(c, x)
             \/ UNCHANGED <<now, health, older>>
      BY <2>2 DEF StreamReturns
    <3> QED
      BY <1>3, <1>4, <3>1 DEF HealthStep
  <2>3. ASSUME NEW category, StreamFails(c, category) PROVE HealthStep /\ now' = now
    BY <1>3, <2>3 DEF StreamFails
  <2>4. ASSUME UNCHANGED <<now, health, older>> PROVE HealthStep /\ now' = now
    BY <2>4 DEF HealthStep
  <2> QED
    BY <1>7, <2>1, <2>2, <2>3, <2>4 DEF Streaming, Delta, UsageReported
<1>8. CASE Saving(c)
  <2>1. ASSUME DocumentSaved(c) PROVE HealthStep /\ now' = now
    <3> DEFINE y == [x EXCEPT !.artifacts = x.artifacts + 1]
    <3>1. y.cands = x.cands /\ y.i = x.i
      BY <1>1 DEF CallState
    <3>2. x.phase = "document" /\ Succeed(c, y)
      BY <2>1 DEF DocumentSaved
    <3> HIDE DEF y
    <3> QED
      BY <1>4, <3>1, <3>2
  <2>2. ASSUME SaveFails(c) PROVE HealthStep /\ now' = now
    BY <1>3, <2>2 DEF SaveFails
  <2>3. ASSUME ImageSaved(c) PROVE HealthStep /\ now' = now
    BY <2>3 DEF ImageSaved, HealthStep
  <2> QED
    BY <1>8, <2>1, <2>2, <2>3 DEF Saving
<1>9. CASE Signals(c)
  BY <1>9 DEF Signals, Cancel, Deadline, AttemptTimeout, HealthStep
<1>10. CASE Settling(c)
  BY <1>10 DEF Settling, Finish, FinishFails, HealthStep
<1> QED
  BY <1>5, <1>6, <1>7, <1>8, <1>9, <1>10

----------------------------------------------------------------------------
(* The theorems. *)

\* What the step of one call does to the calls of the process.
CallsStep ==
  \/ UNCHANGED call
  \/ \E c \in Calls : StepOf(c)

LEMMA NextSteps ==
  ASSUME GenInv, [Next]_vars
  PROVE  CallsStep /\ HealthTyped' /\ now' \in 0..MaxTime
<1>1. now \in Nat /\ now \in 0..MaxTime /\ HealthTyped
  BY GenerationAssumption DEF GenInv, TypeOK, HealthTyped
<1>2. ASSUME NEW c \in Calls,
             \/ Admission(c) \/ Creation(c) \/ Streaming(c)
             \/ Saving(c) \/ Signals(c) \/ Settling(c)
      PROVE  CallsStep /\ HealthTyped' /\ now' \in 0..MaxTime
  <2>1. StepOf(c)
    BY <1>2, AdmissionLegal, CreationLegal, StreamingLegal, SavingLegal,
       SignalsLegal, SettlingLegal
  <2>2. HealthStep /\ now' = now
    BY <1>2, AttemptsStepHealth
  <2> QED
    BY <1>1, <2>1, <2>2, HealthStepTyped DEF CallsStep
<1>3. CASE Tick
  BY <1>1, <1>3, GenerationAssumption DEF Tick, CallsStep, HealthTyped
<1>4. CASE UNCHANGED vars
  BY <1>1, <1>4 DEF CallsStep, HealthTyped
<1> QED
  BY <1>2, <1>3, <1>4 DEF Next, Terminating

LEMMA InvInit ==
  ASSUME Init
  PROVE  GenInv
<1>1. NewCall \in CallState /\ Good(NewCall)
  <2>1. <<>> \in Seq(Models) /\ <<>> \in Seq(Record)
    OBVIOUS
  <2> HIDE DEF Record
  <2> QED
    BY <2>1 DEF NewCall, CallState, Good, Fresh, Phases, Running, Texts, Statuses
<1>2. DOMAIN health = {} /\ health \in [{} -> Entry]
  BY DEF Init
<1> QED
  BY <1>1, <1>2, GenerationAssumption DEF Init, GenInv, TypeOK

LEMMA InvNext ==
  ASSUME GenInv, [Next]_vars
  PROVE  GenInv'
<1>1. CallsStep /\ HealthTyped' /\ now' \in 0..MaxTime
  BY NextSteps
<1>2. call \in [Calls -> CallState] /\ \A c \in Calls : Good(call[c])
  BY DEF GenInv, TypeOK
<1>3. call' \in [Calls -> CallState] /\ \A c \in Calls : Good(call'[c])
  <2>1. ASSUME NEW c \in Calls, NEW y, Legal(call[c], y), Become(c, y)
        PROVE  call' \in [Calls -> CallState] /\ \A d \in Calls : Good(call'[d])
    BY <1>2, <2>1 DEF Legal, Become
  <2> QED
    BY <1>1, <1>2, <2>1 DEF CallsStep, StepOf
<1>4. (\A c \in Calls : Good(call[c]))'
  BY <1>3
<1> QED
  BY <1>1, <1>3, <1>4 DEF GenInv, TypeOK, HealthTyped

THEOREM GenerationInvariant == Spec => []GenInv
<1>1. Init => GenInv
  BY InvInit
<1>2. GenInv /\ [Next]_vars => GenInv'
  BY InvNext
<1> QED
  BY <1>1, <1>2, PTL DEF Spec

(* The local state of the calls of generate() and the map of the models'   *)
(* health stay well typed, for any number of calls, models and timers.     *)
THEOREM GenerationTypes == Spec => []TypeOK
<1>1. GenInv => TypeOK
  BY DEF GenInv
<1> QED
  BY <1>1, GenerationInvariant, PTL

(* Once the client has gone or the deadline has passed, generate() calls   *)
(* no other provider for the call, whatever ends the attempt.              *)
THEOREM StopsForGood == Spec => StopsWhenAsked
<1>1. ASSUME GenInv, [Next]_vars
      PROVE  [\A c \in Calls :
                call[c].cancelled \/ call[c].expired => call'[c].i = call[c].i]_vars
  <2>1. CallsStep
    BY <1>1, NextSteps
  <2>2. call \in [Calls -> CallState]
    BY <1>1 DEF GenInv, TypeOK
  <2>3. CASE UNCHANGED call
    BY <2>3
  <2>4. ASSUME NEW c \in Calls, NEW y, Legal(call[c], y), Become(c, y),
               NEW d \in Calls, call[d].cancelled \/ call[d].expired
        PROVE  call'[d].i = call[d].i
    BY <2>2, <2>4 DEF Legal, Become
  <2> QED
    BY <2>1, <2>3, <2>4 DEF CallsStep, StepOf
<1> QED
  BY <1>1, GenerationInvariant, PTL DEF Spec, StopsWhenAsked

----------------------------------------------------------------------------
(* Implementation of the abstract answer. *)

LEMMA AnswerInit ==
  ASSUME Init
  PROVE  Promise!Init
<1>1. \A c \in Calls : call[c] = NewCall
  BY DEF Init
<1>2. NewCall.phase = "idle" /\ NewCall.author = Nobody /\ NewCall.spent = FALSE
  BY DEF NewCall
<1> HIDE DEF NewCall
<1>3. Stage(NewCall) = "idle" /\ Outcome(NewCall) = "NONE" /\ Charged(NewCall) = FALSE
  BY <1>2 DEF Stage, Outcome, Charged, Running
<1>4. Stages = [c \in Calls |-> "idle"] /\ Authors = [c \in Calls |-> Nobody]
  BY <1>1, <1>2, <1>3 DEF Stages, Authors
<1>5. Costs = [c \in Calls |-> FALSE] /\ Outcomes = [c \in Calls |-> "NONE"]
  BY <1>1, <1>2, <1>3 DEF Costs, Outcomes
<1>6. Charges = [c \in Calls |-> FALSE]
  BY <1>1, <1>2, <1>3 DEF Charges
<1> QED
  BY <1>4, <1>5, <1>6 DEF Promise!Init

\* What the abstract answer sees of a call that becomes y.
LEMMA AnswerChanges ==
  ASSUME NEW c \in Calls, call \in [Calls -> CallState], NEW y, Become(c, y)
  PROVE  /\ Stages' = [Stages EXCEPT ![c] = Stage(y)]
         /\ Authors' = [Authors EXCEPT ![c] = y.author]
         /\ Costs' = [Costs EXCEPT ![c] = y.spent]
         /\ Outcomes' = [Outcomes EXCEPT ![c] = Outcome(y)]
         /\ Charges' = [Charges EXCEPT ![c] = Charged(y)]
<1>1. \A d \in Calls : call'[d] = IF d = c THEN y ELSE call[d]
  BY DEF Become
<1>3. Stages' = [Stages EXCEPT ![c] = Stage(y)]
  BY <1>1 DEF Stages, Stage
<1>4. Authors' = [Authors EXCEPT ![c] = y.author]
  BY <1>1 DEF Authors
<1>5. Costs' = [Costs EXCEPT ![c] = y.spent]
  BY <1>1 DEF Costs
<1>6. Outcomes' = [Outcomes EXCEPT ![c] = Outcome(y)]
  BY <1>1 DEF Outcomes, Outcome
<1>7. Charges' = [Charges EXCEPT ![c] = Charged(y)]
  BY <1>1 DEF Charges, Charged
<1> QED
  BY <1>3, <1>4, <1>5, <1>6, <1>7

\* A step of one call is one of the abstract answer, or nothing to it.
LEMMA AnswerNext ==
  ASSUME GenInv, NEW c \in Calls, NEW y, Legal(call[c], y), Become(c, y)
  PROVE  [Promise!Next]_(Promise!vars)
<1> DEFINE x == call[c]
           G == [Promise!Next]_(Promise!vars)
<1> SUFFICES G
  OBVIOUS
<1>1. /\ Stages' = [Stages EXCEPT ![c] = Stage(y)]
      /\ Authors' = [Authors EXCEPT ![c] = y.author]
      /\ Costs' = [Costs EXCEPT ![c] = y.spent]
      /\ Outcomes' = [Outcomes EXCEPT ![c] = Outcome(y)]
      /\ Charges' = [Charges EXCEPT ![c] = Charged(y)]
  BY AnswerChanges DEF GenInv, TypeOK
<1>2. /\ Stages[c] = Stage(x) /\ Authors[c] = x.author /\ Costs[c] = x.spent
      /\ Outcomes[c] = Outcome(x) /\ Charges[c] = Charged(x)
  BY DEF Stages, Authors, Costs, Outcomes, Charges
<1>3. /\ Stages = [Stages EXCEPT ![c] = Stages[c]]
      /\ Authors = [Authors EXCEPT ![c] = Authors[c]]
      /\ Costs = [Costs EXCEPT ![c] = Costs[c]]
      /\ Outcomes = [Outcomes EXCEPT ![c] = Outcomes[c]]
      /\ Charges = [Charges EXCEPT ![c] = Charges[c]]
  BY DEF Stages, Authors, Costs, Outcomes, Charges
<1>4. x.spent \in BOOLEAN /\ y.spent \in BOOLEAN
      /\ Charged(x) \in BOOLEAN /\ Charged(y) \in BOOLEAN
  BY DEF GenInv, TypeOK, Legal, CallState, Charged
<1>5. AnswerStep(x, y)
  BY DEF Legal
<1> HIDE DEF G, x
<1>6. CASE Same(x, y)
  <2>1. /\ Stages' = Stages /\ Authors' = Authors /\ Costs' = Costs
        /\ Outcomes' = Outcomes /\ Charges' = Charges
    BY <1>1, <1>2, <1>3, <1>4, <1>6 DEF Same
  <2> QED
    BY <2>1 DEF G, Promise!vars
<1>7. CASE Starts(x, y)
  <2>1. Stages[c] = "idle" /\ Stages' = [Stages EXCEPT ![c] = "running"]
    BY <1>1, <1>2, <1>7 DEF Starts
  <2>2. /\ Authors' = Authors /\ Costs' = Costs
        /\ Outcomes' = Outcomes /\ Charges' = Charges
    BY <1>1, <1>2, <1>3, <1>4, <1>7 DEF Starts
  <2>3. Promise!Start(c)
    BY <2>1, <2>2 DEF Promise!Start
  <2> QED
    BY <2>3 DEF G, Promise!Next
<1>8. CASE Produces(x, y)
  <2>1. /\ Stages[c] = "running" /\ Stages' = Stages
        /\ Outcomes' = Outcomes /\ Charges' = Charges
    BY <1>1, <1>2, <1>3, <1>4, <1>8 DEF Produces
  <2>2. Costs' = [Costs EXCEPT ![c] = Costs[c] \/ y.spent]
    BY <1>1, <1>2, <1>4, <1>8 DEF Produces
  <2>3. CASE y.author \in Models /\ x.author \in {Nobody, y.author}
    <3>1. Promise!Write(c, y.author, y.spent)
      BY <1>1, <1>2, <2>1, <2>2, <2>3 DEF Promise!Write
    <3> QED
      BY <1>4, <2>3, <3>1 DEF G, Promise!Next
  <2>4. CASE y.author = x.author
    <3>1. Authors' = Authors
      BY <1>1, <1>2, <1>3, <2>4
    <3>2. CASE y.spent
      <4>1. Costs' = [Costs EXCEPT ![c] = TRUE]
        BY <1>1, <1>4, <3>2
      <4>2. Promise!Spend(c)
        BY <2>1, <3>1, <4>1 DEF Promise!Spend
      <4> QED
        BY <4>2 DEF G, Promise!Next
    <3>3. CASE ~y.spent
      <4>1. Costs' = Costs
        BY <1>1, <1>2, <1>3, <1>4, <1>8, <3>3 DEF Produces
      <4> QED
        BY <2>1, <3>1, <4>1 DEF G, Promise!vars
    <3> QED
      BY <3>2, <3>3
  <2> QED
    BY <1>8, <2>3, <2>4 DEF Produces
<1>9. CASE Ends(x, y)
  <2>1. /\ Stages[c] = "running" /\ Stages' = [Stages EXCEPT ![c] = "ended"]
        /\ Authors' = Authors /\ Costs' = Costs
    BY <1>1, <1>2, <1>3, <1>4, <1>9 DEF Ends
  <2>2. /\ Outcomes' = [Outcomes EXCEPT ![c] = y.status]
        /\ Charges' = [Charges EXCEPT ![c] = Costs[c]]
    BY <1>1, <1>2, <1>4, <1>9 DEF Ends
  <2>3. y.status = "SUCCEEDED" => Authors[c] # Nobody /\ Costs[c]
    BY <1>2, <1>9 DEF Ends
  <2>4. Promise!End(c, y.status)
    BY <2>1, <2>2, <2>3 DEF Promise!End
  <2>5. y.status \in {"SUCCEEDED", "FAILED", "CANCELLED", "INTERRUPTED"}
    BY <1>9 DEF Ends, Statuses
  <2> QED
    BY <2>4, <2>5 DEF G, Promise!Next
<1>10. CASE Loses(x, y)
  <2>1. /\ Stages[c] = "running" /\ Stages' = [Stages EXCEPT ![c] = "lost"]
        /\ Authors' = Authors /\ Costs' = Costs
        /\ Outcomes' = Outcomes /\ Charges' = Charges
    BY <1>1, <1>2, <1>3, <1>4, <1>10 DEF Loses
  <2>2. Promise!Lose(c)
    BY <2>1 DEF Promise!Lose
  <2> QED
    BY <2>2 DEF G, Promise!Next
<1> QED
  BY <1>5, <1>6, <1>7, <1>8, <1>9, <1>10 DEF AnswerStep

(* Every behaviour of the calls is one of the abstract answer: an answer   *)
(* has one author, succeeds only with output, and is charged if and only   *)
(* if something was delivered, generated or billed on the way.             *)
THEOREM AnswersKeepPromise == Spec => KeepsPromise
<1>1. Init => Promise!Init
  BY AnswerInit
<1>2. GenInv /\ [Next]_vars => [Promise!Next]_(Promise!vars)
  <2>1. UNCHANGED call => UNCHANGED Promise!vars
    BY DEF Promise!vars, Stages, Authors, Costs, Outcomes, Charges
  <2> QED
    BY <2>1, NextSteps, AnswerNext DEF CallsStep, StepOf
<1> QED
  BY <1>1, <1>2, GenerationInvariant, PTL DEF Spec, KeepsPromise, Promise!Spec

----------------------------------------------------------------------------
(* Records and shares of the time.  While a call tries its candidates,     *)
(* every earlier attempt has left a record of failure, and each has taken  *)
(* no more than a share of the time since the first began.  An attempt     *)
(* that may still be followed by another one has not outlived its share,   *)
(* since its timer fires on time.                                          *)

FailedUpTo(x, k) ==
  \A j \in 1..k : x.records[j].model = x.cands[j] /\ x.records[j].status = "FAILED"

Fair(x) == x.began <= x.first + (x.i - 1) * Share(Len(x.cands))

RecordsTellOf(x) ==
  LET n == Len(x.records)
  IN  /\ n = x.i
      /\ \A j \in 1..n : x.records[j].model = x.cands[j]
      /\ \A j \in 1..(n - 1) : x.records[j].status = "FAILED"
      /\ n > 0 => x.status = x.records[n].status
      /\ n = 0 => x.status \in {"FAILED", "CANCELLED"} /\ ~x.consumed

Early  == {"idle", "chosen", "refused", "open"}
Trying == {"streaming", "saving", "document"}
Done   == {"settling", "ended", "lost"}

Told(x) ==
  /\ x.phase \in Early => x.records = <<>>
  /\ x.phase \in Trying => /\ Len(x.records) = x.i - 1
                           /\ FailedUpTo(x, x.i - 1)
                           /\ Fair(x)
  /\ x.phase \in Done => RecordsTellOf(x)

InTime(x, t) ==
  x.phase = "streaming" /\ x.mode = "AUTO" /\ ~x.consumed /\ ~IsLast(x) =>
    t <= x.began + Share(Len(x.cands))

TellInv == GenInv /\ \A c \in Calls : Told(call[c]) /\ InTime(call[c], now)

\* A step of one call that keeps this.
Tells(c) == \E y : Become(c, y) /\ Told(y) /\ InTime(y, now)

LEMMA ShareFits ==
  ASSUME NEW n \in Nat \ {0}
  PROVE  Share(n) \in Nat /\ Share(n) <= AttemptLimit /\ n * Share(n) <= Duration
<1> DEFINE q == Duration \div n
<1>1. Duration \in Nat /\ AttemptLimit \in Nat
  BY GenerationAssumption
<1>2. q \in Nat /\ n * q <= Duration
  BY <1>1
<1>3. Share(n) \in Nat /\ Share(n) <= q /\ Share(n) <= AttemptLimit
  BY <1>1, <1>2 DEF Share
<1> HIDE DEF q
<1>4. ASSUME NEW s \in Nat, s <= q
      PROVE  n * s <= n * q
  <2> DEFINE d == q - s
  <2>1. d \in Nat /\ q = s + d
    BY <1>2, <1>4
  <2> HIDE DEF d
  <2>2. n * d \in Nat /\ n * s \in Nat
    BY <2>1
  <2>3. n * q = n * s + n * d
    BY <2>1, SMTT(20)
  <2> QED
    BY <2>2, <2>3
<1>5. n * Share(n) <= n * q
  BY <1>3, <1>4
<1>6. n * q \in Nat /\ n * Share(n) \in Nat
  BY <1>2, <1>3
<1> QED
  BY <1>1, <1>2, <1>3, <1>5, <1>6

\* An attempt that has used its share follows one that began in time.
LEMMA OneShareMore ==
  ASSUME NEW k \in Nat, NEW s \in Nat, NEW b \in Nat, NEW f \in Nat, NEW t \in Nat,
         b <= f + k * s, t <= b + s
  PROVE  t <= f + (k + 1) * s
<1>1. (k + 1) * s = k * s + s
  BY SMTT(20)
<1>2. k * s \in Nat
  OBVIOUS
<1> DEFINE p == k * s
<1>3. p \in Nat /\ b <= f + p /\ (k + 1) * s = p + s
  BY <1>1, <1>2
<1> HIDE DEF p
<1> QED
  BY <1>3

\* A step that leaves the attempts of the call as they are.
Quiet(x, y) ==
  /\ \A S \in {Early, Trying, Done} : y.phase \in S => x.phase \in S
  /\ y.records = x.records /\ y.i = x.i /\ y.cands = x.cands /\ y.mode = x.mode
  /\ y.began = x.began /\ y.first = x.first
  /\ y.phase \in Done => y.status = x.status /\ y.consumed = x.consumed
  /\ y.phase = "streaming" /\ ~y.consumed => x.phase = "streaming" /\ ~x.consumed

LEMMA QuietTells ==
  ASSUME NEW c \in Calls, Told(call[c]), InTime(call[c], now), NEW y, Become(c, y),
         Quiet(call[c], y)
  PROVE  Tells(c)
<1> DEFINE x == call[c]
<1>0. /\ y.phase \in Early => x.phase \in Early
      /\ y.phase \in Trying => x.phase \in Trying
      /\ y.phase \in Done => x.phase \in Done
  BY DEF Quiet
<1> HIDE DEF x
<1>1. Told(y)
  <2>1. y.phase \in Early => y.records = <<>>
    BY <1>0 DEF Told, Quiet, x
  <2>2. y.phase \in Trying => /\ Len(y.records) = y.i - 1
                              /\ FailedUpTo(y, y.i - 1)
                              /\ Fair(y)
    BY <1>0 DEF Told, Quiet, FailedUpTo, Fair, x
  <2>3. y.phase \in Done => RecordsTellOf(y)
    BY <1>0 DEF Told, Quiet, RecordsTellOf, x
  <2> QED
    BY <2>1, <2>2, <2>3 DEF Told
<1>2. InTime(y, now)
  BY DEF InTime, Quiet, IsLast
<1> QED
  BY <1>1, <1>2 DEF Tells

LEMMA TellFacts ==
  ASSUME NEW c \in Calls, TellInv
  PROVE  /\ call[c] \in CallState /\ Good(call[c]) /\ now \in Nat
         /\ Told(call[c]) /\ InTime(call[c], now)
  BY CallFacts DEF TellInv

LEMMA AdmissionTells ==
  ASSUME NEW c \in Calls, TellInv, Admission(c)
  PROVE  Tells(c)
<1> DEFINE x == call[c]
<1>1. x \in CallState /\ Told(x) /\ InTime(x, now)
  BY TellFacts
<1>2. ASSUME NEW y, Become(c, y), x.phase \in Early, y.phase \in Early,
             y.records = x.records
      PROVE  Tells(c)
  <2>1. Told(y)
    BY <1>1, <1>2 DEF Told, Early, Trying, Done
  <2>2. InTime(y, now)
    BY <1>2 DEF InTime, Early
  <2> QED
    BY <1>2, <2>1, <2>2 DEF Tells
<1>3. ASSUME NEW mode, NEW feature, NEW cands, Choose(c, mode, feature, cands)
      PROVE  Tells(c)
  <2> DEFINE y == [x EXCEPT !.phase = "chosen", !.mode = mode,
                            !.feature = feature, !.cands = cands]
  <2>1. x.phase = "idle" /\ Become(c, y)
    BY <1>3 DEF Choose
  <2>2. y.phase = "chosen" /\ y.records = x.records
    BY <1>1 DEF CallState
  <2> HIDE DEF x, y
  <2> QED
    BY <1>2, <2>1, <2>2 DEF Early
<1>4. ASSUME Reserved(c) PROVE Tells(c)
  <2> DEFINE y == [x EXCEPT !.phase = "open", !.opened = now, !.deadline = now + Duration]
  <2>1. x.phase = "chosen" /\ Become(c, y)
    BY <1>4 DEF Reserved
  <2>2. y.phase = "open" /\ y.records = x.records
    BY <1>1 DEF CallState
  <2> HIDE DEF x, y
  <2> QED
    BY <1>2, <2>1, <2>2 DEF Early
<1>5. ASSUME Refused(c) PROVE Tells(c)
  <2> DEFINE y == [x EXCEPT !.phase = "refused"]
  <2>1. x.phase = "chosen" /\ Become(c, y)
    BY <1>5 DEF Refused
  <2>2. y.phase = "refused" /\ y.records = x.records
    BY <1>1 DEF CallState
  <2> HIDE DEF x, y
  <2> QED
    BY <1>2, <2>1, <2>2 DEF Early
<1> QED
  BY <1>3, <1>4, <1>5 DEF Admission

LEMMA CreationTells ==
  ASSUME NEW c \in Calls, TellInv, Creation(c)
  PROVE  Tells(c)
<1> DEFINE x == call[c]
<1>1. x \in CallState /\ Good(x) /\ now \in Nat /\ Told(x)
  BY TellFacts
<1>2. x.phase = "open"
  BY DEF Creation, MessagesCreated, MessagesFail
<1>3. /\ x.records = <<>> /\ x.i = 0 /\ x.status = "FAILED" /\ x.consumed = FALSE
      /\ Len(x.cands) \in Nat \ {0}
  BY <1>1, <1>2 DEF Told, Early, Good, Fresh, CallState
<1>4. ASSUME NEW y, Become(c, y), y.phase = "settling", y.records = x.records,
             y.i = x.i, y.status \in {"FAILED", "CANCELLED"}, y.consumed = x.consumed
      PROVE  Tells(c)
  <2>1. Told(y)
    BY <1>3, <1>4 DEF Told, Early, Trying, Done, RecordsTellOf
  <2>2. InTime(y, now)
    BY <1>4 DEF InTime
  <2> QED
    BY <1>4, <2>1, <2>2 DEF Tells
<1>5. ASSUME MessagesFail(c) PROVE Tells(c)
  <2> DEFINE y == [x EXCEPT !.phase = "settling"]
  <2>1. Become(c, y)
    BY <1>5 DEF MessagesFail
  <2>2. /\ y.phase = "settling" /\ y.records = x.records /\ y.i = x.i
        /\ y.status = x.status /\ y.consumed = x.consumed
    BY <1>1 DEF CallState
  <2> HIDE DEF x, y
  <2> QED
    BY <1>3, <1>4, <2>1, <2>2
<1>6. ASSUME MessagesCreated(c), Aborted(x) PROVE Tells(c)
  <2> DEFINE s == IF x.cancelled THEN "CANCELLED" ELSE "FAILED"
             y == [x EXCEPT !.phase = "settling", !.status = s]
  <2>1. Become(c, y)
    BY <1>6 DEF MessagesCreated, NextAttempt
  <2>2. /\ y.phase = "settling" /\ y.records = x.records /\ y.i = x.i
        /\ y.status = s /\ y.consumed = x.consumed
    BY <1>1 DEF CallState
  <2>3. s \in {"FAILED", "CANCELLED"}
    OBVIOUS
  <2> HIDE DEF x, y, s
  <2> QED
    BY <1>3, <1>4, <2>1, <2>2, <2>3
<1>7. ASSUME MessagesCreated(c), ~Aborted(x) PROVE Tells(c)
  <2> DEFINE y == NextAttempt(x)
             n == Len(x.cands)
  <2>1. Become(c, y)
    BY <1>7 DEF MessagesCreated
  <2>2. y = [x EXCEPT !.phase = "streaming", !.i = 1, !.began = now, !.first = now,
                      !.timedOut = FALSE, !.usage = FALSE]
    BY <1>3, <1>7 DEF NextAttempt
  <2> HIDE DEF x, y
  <2>3. /\ y.phase = "streaming" /\ y.i = 1 /\ y.began = now /\ y.first = now
        /\ y.records = x.records /\ y.cands = x.cands
    BY <1>1, <2>2 DEF CallState
  <2>4. n \in Nat \ {0} /\ Share(n) \in Nat
    BY <1>3, ShareFits
  <2>5. (y.i - 1) * Share(n) = 0
    BY <2>3, <2>4
  <2>9. Fair(y)
    BY <1>1, <2>3, <2>5 DEF Fair
  <2>10. Told(y)
    BY <1>3, <2>3, <2>9 DEF Told, Early, Trying, Done, FailedUpTo
  <2>11. InTime(y, now)
    BY <1>1, <2>3, <2>4 DEF InTime
  <2> QED
    BY <2>1, <2>10, <2>11 DEF Tells
<1> QED
  BY <1>5, <1>6, <1>7 DEF Creation

\* What a failed attempt leaves of the attempts of its call, and what the
\* next one makes of them.
LEMMA RecordedAttempts ==
  ASSUME NEW x \in CallState, NEW category, NEW cause
  PROVE  LET y == Recorded(x, category, cause)
         IN  /\ y.records = Append(x.records, Row(x, StatusOf(x),
                                                  CategoryOf(x, category), cause))
             /\ y.mode = x.mode /\ y.began = x.began /\ y.first = x.first
  BY DEF Recorded, CallState

LEMMA NextAttemptTimes ==
  ASSUME NEW x \in CallState, ~Aborted(x), x.i # 0
  PROVE  LET y == NextAttempt(x)
         IN  /\ y.records = x.records /\ y.mode = x.mode
             /\ y.began = now /\ y.first = x.first
  BY DEF NextAttempt, CallState

\* The record of an attempt that ended, after those of the earlier ones.
LEMMA OneRecordMore ==
  ASSUME NEW x \in CallState, x.i \in 1..Len(x.cands), Len(x.records) = x.i - 1,
         FailedUpTo(x, x.i - 1), NEW r \in Record, r.model = Actual(x)
  PROVE  LET rs == Append(x.records, r)
         IN  /\ Len(rs) = x.i
             /\ \A j \in 1..x.i : rs[j].model = x.cands[j]
             /\ \A j \in 1..(x.i - 1) : rs[j].status = "FAILED"
             /\ rs[x.i] = r
<1> DEFINE rs == Append(x.records, r)
<1>1. x.records \in Seq(Record) /\ x.i \in Nat \ {0}
  BY DEF CallState
<1> HIDE DEF Record
<1>2. Len(rs) = x.i /\ rs[x.i] = r
  BY <1>1
<1>3. \A j \in 1..(x.i - 1) : rs[j] = x.records[j]
  BY <1>1
<1>4. \A j \in 1..(x.i - 1) : rs[j].model = x.cands[j] /\ rs[j].status = "FAILED"
  BY <1>3 DEF FailedUpTo
<1> HIDE DEF rs
<1>5. \A j \in 1..x.i : j \in 1..(x.i - 1) \/ j = x.i
  BY <1>1
<1> QED
  BY <1>2, <1>4, <1>5 DEF Actual, rs

LEMMA FailTells ==
  ASSUME NEW c \in Calls, now \in Nat, NEW x \in CallState, Attempt(x),
         x.phase \in Trying, x.phase \in {"saving", "document"} => x.consumed \/ x.text = "some",
         Told(x), InTime(x, now),
         NEW category \in Categories, NEW cause \in {"provider", "storage"},
         Fail(c, x, category, cause)
  PROVE  Tells(c)
<1> DEFINE r == Row(x, StatusOf(x), CategoryOf(x, category), cause)
           y == Recorded(x, category, cause)
           z == AfterFailure(x, category, cause)
<1>1. Become(c, z)
  BY DEF Fail, AfterFailure
<1>2. y \in CallState
  BY RecordedType DEF Attempt
<1>3. /\ y.status = StatusOf(x) /\ y.consumed = ConsumedAfter(x)
      /\ y.i = x.i /\ y.cands = x.cands
      /\ y.cancelled = x.cancelled /\ y.expired = x.expired
      /\ y.mode = x.mode /\ y.began = x.began /\ y.first = x.first
  BY RecordedFields, RecordedAttempts
<1>4. y.records = Append(x.records, r)
  BY RecordedAttempts
<1>5. r \in Record /\ r.model = Actual(x) /\ r.status = StatusOf(x)
  <2>1. StatusOf(x) \in Statuses /\ CategoryOf(x, category) \in Categories
    BY DEF StatusOf, CategoryOf, Statuses, Categories
  <2>2. Actual(x) \in Models
    BY ActualType DEF Attempt
  <2> QED
    BY <2>1, <2>2 DEF Row, Record
<1>6. /\ x.i \in 1..Len(x.cands) /\ x.i \in Nat \ {0}
      /\ Len(x.records) = x.i - 1 /\ FailedUpTo(x, x.i - 1) /\ Fair(x)
  BY DEF Attempt, Told, CallState
<1> HIDE DEF r, y, z, Record
<1>7. /\ Len(y.records) = x.i
      /\ \A j \in 1..x.i : y.records[j].model = x.cands[j]
      /\ \A j \in 1..(x.i - 1) : y.records[j].status = "FAILED"
      /\ y.records[x.i] = r
  <2> DEFINE rs == Append(x.records, r)
  <2>1. /\ Len(rs) = x.i
        /\ \A j \in 1..x.i : rs[j].model = x.cands[j]
        /\ \A j \in 1..(x.i - 1) : rs[j].status = "FAILED"
        /\ rs[x.i] = r
    BY <1>5, <1>6, OneRecordMore
  <2>2. y.records = rs
    BY <1>4
  <2> HIDE DEF rs
  <2> QED
    BY <2>1, <2>2
<1>8. CASE Stops(x, category)
  <2>1. z = [y EXCEPT !.phase = "settling"]
    BY <1>8 DEF AfterFailure, y, z
  <2>2. /\ z.phase = "settling" /\ z.records = y.records /\ z.i = y.i
        /\ z.cands = y.cands /\ z.status = y.status
    BY <1>2, <2>1 DEF CallState
  <2>3. RecordsTellOf(z)
    <3>1. /\ Len(z.records) = z.i /\ z.i \in Nat \ {0}
          /\ z.records[z.i].status = z.status
      BY <1>3, <1>5, <1>6, <1>7, <2>2
    <3>2. \A j \in 1..z.i : z.records[j].model = z.cands[j]
      BY <1>3, <1>7, <2>2
    <3>3. \A j \in 1..(z.i - 1) : z.records[j].status = "FAILED"
      BY <1>3, <1>7, <2>2
    <3> QED
      BY <3>1, <3>2, <3>3 DEF RecordsTellOf
  <2>4. Told(z) /\ InTime(z, now)
    BY <2>2, <2>3 DEF Told, Early, Trying, Done, InTime
  <2> QED
    BY <1>1, <2>4 DEF Tells
<1>9. CASE ~Stops(x, category)
  <2> DEFINE n == Len(x.cands)
             s == Share(n)
  <2>1. /\ z = NextAttempt(y) /\ ~Aborted(x) /\ ~ConsumedAfter(x)
        /\ x.text = "none" /\ ~IsLast(x) /\ x.mode # "MANUAL"
    BY <1>9 DEF AfterFailure, Stops, y, z
  <2>2. ~Aborted(y)
    BY <1>3, <2>1 DEF Aborted
  <2>3. /\ z.phase = "streaming" /\ z.i = x.i + 1 /\ z.cands = x.cands
        /\ z.records = y.records /\ z.mode = x.mode
        /\ z.began = now /\ z.first = x.first
    <3>1. /\ z.phase = "streaming" /\ z.i = y.i + 1 /\ z.cands = y.cands
      BY <1>2, <2>1, <2>2, NextAttemptFields
    <3>2. y.i # 0
      BY <1>3, <1>6
    <3>3. /\ z.records = y.records /\ z.mode = y.mode
          /\ z.began = now /\ z.first = y.first
      BY <1>2, <2>1, <2>2, <3>2, NextAttemptTimes
    <3> QED
      BY <1>3, <3>1, <3>3
  <2>4. ~x.consumed /\ x.phase = "streaming" /\ x.mode = "AUTO"
    BY <2>1 DEF ConsumedAfter, Trying, CallState
  <2>5. x.artifacts = 0
    BY <2>4 DEF Attempt, CallState
  <2>6. StatusOf(x) = "FAILED"
    BY <2>1, <2>5 DEF StatusOf
  <2>7. FailedUpTo(z, z.i - 1) /\ Len(z.records) = z.i - 1
    <3>1. z.i - 1 = x.i
      BY <1>6, <2>3
    <3>2. \A j \in 1..x.i : j \in 1..(x.i - 1) \/ j = x.i
      BY <1>6
    <3>3. \A j \in 1..x.i : y.records[j].status = "FAILED"
      BY <1>5, <1>7, <2>6, <3>2
    <3> QED
      BY <1>7, <2>3, <3>1, <3>3 DEF FailedUpTo
  <2>8. n \in Nat \ {0} /\ s \in Nat /\ x.i < n
    <3>1. n \in Nat \ {0} /\ x.i < n
      BY <1>6, <2>1 DEF IsLast, CallState
    <3> QED
      BY <3>1, ShareFits
  <2>9. now <= x.began + s
    BY <2>1, <2>4 DEF InTime
  <2>10. Fair(z)
    <3> DEFINE k == x.i - 1
    <3>1. k \in Nat /\ z.i - 1 = k + 1
      BY <1>6, <2>3
    <3>2. x.began \in Nat /\ x.first \in Nat
      BY DEF CallState
    <3>3. x.began <= x.first + k * s
      BY <1>6 DEF Fair
    <3> HIDE DEF k, s
    <3>4. now <= x.first + (k + 1) * s
      BY <2>8, <2>9, <3>1, <3>2, <3>3, OneShareMore
    <3> QED
      BY <2>3, <3>1, <3>4 DEF Fair, s
  <2>11. Told(z)
    BY <2>3, <2>7, <2>10 DEF Told, Early, Trying, Done
  <2>12. InTime(z, now)
    BY <2>3, <2>8 DEF InTime
  <2> QED
    BY <1>1, <2>11, <2>12 DEF Tells
<1> QED
  BY <1>8, <1>9

LEMMA SucceedTells ==
  ASSUME NEW c \in Calls, now \in Nat, NEW x \in CallState, x.phase \in Trying,
         x.i \in 1..Len(x.cands), Told(x), Succeed(c, x)
  PROVE  Tells(c)
<1> DEFINE r == Row(x, "SUCCEEDED", "none", "none")
           rs == Append(x.records, r)
           y == [x EXCEPT !.phase = "settling", !.status = "SUCCEEDED",
                          !.consumed = TRUE, !.records = rs]
<1>1. Become(c, y)
  BY DEF Succeed
<1>2. r \in Record /\ r.model = Actual(x) /\ r.status = "SUCCEEDED"
  BY ActualType DEF Row, Record, Statuses
<1>3. x.i \in Nat \ {0} /\ Len(x.records) = x.i - 1 /\ FailedUpTo(x, x.i - 1)
  BY DEF Told, CallState
<1> HIDE DEF r, Record
<1>4. /\ Len(rs) = x.i
      /\ \A j \in 1..x.i : rs[j].model = x.cands[j]
      /\ \A j \in 1..(x.i - 1) : rs[j].status = "FAILED"
      /\ rs[x.i] = r
  BY <1>2, <1>3, OneRecordMore
<1> HIDE DEF rs
<1>5. /\ y.phase = "settling" /\ y.status = "SUCCEEDED" /\ y.records = rs
      /\ y.i = x.i /\ y.cands = x.cands
  BY DEF CallState
<1> HIDE DEF y
<1>6. RecordsTellOf(y)
  BY <1>2, <1>3, <1>4, <1>5 DEF RecordsTellOf
<1>7. Told(y) /\ InTime(y, now)
  BY <1>5, <1>6 DEF Told, Early, Trying, Done, InTime
<1> QED
  BY <1>1, <1>7 DEF Tells

LEMMA StreamingTells ==
  ASSUME NEW c \in Calls, TellInv, Streaming(c)
  PROVE  Tells(c)
<1> DEFINE x == call[c]
<1>1. x \in CallState /\ Good(x) /\ now \in Nat /\ Told(x) /\ InTime(x, now)
  BY TellFacts
<1>2. x.phase = "streaming" /\ x.phase \in Trying
  BY DEF Streaming, Delta, UsageReported, Image, StreamReturns, StreamFails, Trying
<1>3. Attempt(x) /\ x.i \in 1..Len(x.cands)
  BY <1>1, <1>2 DEF Good, Attempt
<1>4. ASSUME NEW y, Become(c, y), y.phase \in Trying, y.records = x.records,
             y.i = x.i, y.cands = x.cands, y.mode = x.mode, y.began = x.began,
             y.first = x.first, ~y.consumed => ~x.consumed
      PROVE  Tells(c)
  <2>1. Quiet(x, y)
    BY <1>2, <1>4 DEF Quiet, Early, Trying, Done
  <2> QED
    BY <1>1, <1>4, <2>1, QuietTells
<1>5. ASSUME NEW text, Delta(c, text) PROVE Tells(c)
  <2> DEFINE t == IF x.text = "some" THEN x.text ELSE text
             p == x.spent \/ text = "some"
             y == [x EXCEPT !.text = t, !.author = Actual(x), !.spent = p]
  <2>1. Become(c, y)
    BY <1>5 DEF Delta
  <2> HIDE DEF x, t, p
  <2>2. /\ y.phase = x.phase /\ y.records = x.records /\ y.i = x.i
        /\ y.cands = x.cands /\ y.mode = x.mode /\ y.began = x.began
        /\ y.first = x.first /\ y.consumed = x.consumed
    BY <1>1 DEF CallState
  <2> HIDE DEF y
  <2> QED
    BY <1>2, <1>4, <2>1, <2>2
<1>6. ASSUME UsageReported(c) PROVE Tells(c)
  <2> DEFINE y == [x EXCEPT !.usage = TRUE, !.spent = TRUE]
  <2>1. Become(c, y)
    BY <1>6 DEF UsageReported
  <2> HIDE DEF x
  <2>2. /\ y.phase = x.phase /\ y.records = x.records /\ y.i = x.i
        /\ y.cands = x.cands /\ y.mode = x.mode /\ y.began = x.began
        /\ y.first = x.first /\ y.consumed = x.consumed
    BY <1>1 DEF CallState
  <2> HIDE DEF y
  <2> QED
    BY <1>2, <1>4, <2>1, <2>2
<1>7. ASSUME Image(c) PROVE Tells(c)
  <2> DEFINE y == [x EXCEPT !.consumed = TRUE, !.spent = TRUE]
  <2>1. Fail(c, y, "REQUEST", "provider") \/ Become(c, [y EXCEPT !.phase = "saving"])
    BY <1>7 DEF Image
  <2>2. y \in CallState
    BY <1>1 DEF CallState
  <2>3. /\ y.phase = x.phase /\ y.records = x.records /\ y.i = x.i
        /\ y.cands = x.cands /\ y.mode = x.mode /\ y.began = x.began
        /\ y.first = x.first /\ y.consumed = TRUE /\ y.spent = TRUE
        /\ y.text = x.text /\ y.artifacts = x.artifacts /\ y.author = x.author
        /\ y.usage = x.usage
    BY <1>1 DEF CallState
  <2> HIDE DEF x, y
  <2>4. CASE Become(c, [y EXCEPT !.phase = "saving"])
    <3> DEFINE z == [y EXCEPT !.phase = "saving"]
    <3>1. Become(c, z)
      BY <2>4
    <3>2. /\ z.phase = "saving" /\ z.records = y.records /\ z.i = y.i
          /\ z.cands = y.cands /\ z.mode = y.mode /\ z.began = y.began
          /\ z.first = y.first /\ z.consumed = y.consumed
      BY <2>2 DEF CallState
    <3> HIDE DEF z
    <3> QED
      BY <1>4, <2>3, <3>1, <3>2 DEF Trying
  <2>5. CASE Fail(c, y, "REQUEST", "provider")
    <3>1. Attempt(y)
      BY <1>3, <2>3 DEF Attempt, ConsumedAfter, Actual
    <3>2. Told(y)
      BY <1>1, <1>2, <2>3
         DEF Told, Early, Trying, Done, FailedUpTo, Fair
    <3>3. InTime(y, now)
      BY <2>3 DEF InTime
    <3> QED
      BY <1>1, <1>2, <2>2, <2>3, <2>5, <3>1, <3>2, <3>3, FailTells DEF Categories
  <2> QED
    BY <2>1, <2>4, <2>5
<1>8. ASSUME NEW category \in Categories, Fail(c, x, category, "provider")
      PROVE  Tells(c)
  BY <1>1, <1>2, <1>3, <1>8, FailTells
<1>9. ASSUME StreamReturns(c) PROVE Tells(c)
  <2>1. CASE Fail(c, x, "TRANSIENT", "provider") \/ Fail(c, x, "REQUEST", "provider")
    BY <1>8, <2>1 DEF Categories
  <2>2. CASE Become(c, [x EXCEPT !.phase = "document"])
    <3> DEFINE z == [x EXCEPT !.phase = "document"]
    <3>1. Become(c, z)
      BY <2>2
    <3> HIDE DEF x
    <3>2. /\ z.phase = "document" /\ z.records = x.records /\ z.i = x.i
          /\ z.cands = x.cands /\ z.mode = x.mode /\ z.began = x.began
          /\ z.first = x.first /\ z.consumed = x.consumed
      BY <1>1 DEF CallState
    <3> HIDE DEF z
    <3> QED
      BY <1>4, <3>1, <3>2 DEF Trying
  <2>3. CASE Succeed(c, x)
    BY <1>1, <1>2, <1>3, <2>3, SucceedTells
  <2> QED
    BY <1>9, <2>1, <2>2, <2>3 DEF StreamReturns
<1>10. ASSUME NEW category \in Categories, StreamFails(c, category) PROVE Tells(c)
  BY <1>8, <1>10 DEF StreamFails
<1> QED
  BY <1>5, <1>6, <1>7, <1>9, <1>10 DEF Streaming

LEMMA SavingTells ==
  ASSUME NEW c \in Calls, TellInv, Saving(c)
  PROVE  Tells(c)
<1> DEFINE x == call[c]
<1>1. x \in CallState /\ Good(x) /\ now \in Nat /\ Told(x) /\ InTime(x, now)
  BY TellFacts
<1>2. x.phase \in {"saving", "document"} /\ x.phase \in Trying
  BY DEF Saving, ImageSaved, SaveFails, DocumentSaved, Trying
<1>3. /\ Attempt(x) /\ x.i \in 1..Len(x.cands)
      /\ x.phase = "saving" => x.consumed
      /\ x.phase = "document" => x.text = "some"
  BY <1>1, <1>2 DEF Good, Attempt
<1>4. ASSUME ImageSaved(c) PROVE Tells(c)
  <2> DEFINE n == x.artifacts + 1
             y == [x EXCEPT !.phase = "streaming", !.artifacts = n,
                            !.author = Actual(x)]
  <2>1. x.phase = "saving" /\ Become(c, y)
    BY <1>4 DEF ImageSaved
  <2> HIDE DEF x, n
  <2>2. /\ y.phase = "streaming" /\ y.records = x.records /\ y.i = x.i
        /\ y.cands = x.cands /\ y.mode = x.mode /\ y.began = x.began
        /\ y.first = x.first /\ y.consumed = x.consumed
    BY <1>1 DEF CallState
  <2> HIDE DEF y
  <2>3. Quiet(x, y)
    BY <1>2, <1>3, <2>1, <2>2 DEF Quiet, Early, Trying, Done
  <2> QED
    BY <1>1, <2>1, <2>3, QuietTells DEF x
<1>5. ASSUME SaveFails(c) PROVE Tells(c)
  <2>1. Fail(c, x, "TRANSIENT", "storage")
    BY <1>5 DEF SaveFails
  <2> QED
    BY <1>1, <1>2, <1>3, <2>1, FailTells DEF Categories
<1>6. ASSUME DocumentSaved(c) PROVE Tells(c)
  <2> DEFINE n == x.artifacts + 1
             y == [x EXCEPT !.artifacts = n]
  <2>1. x.phase = "document" /\ Succeed(c, y)
    BY <1>6 DEF DocumentSaved
  <2>2. n \in Nat
    BY <1>1 DEF CallState
  <2> HIDE DEF x, n
  <2>3. y \in CallState
    BY <1>1, <2>2 DEF CallState
  <2>4. /\ y.phase = x.phase /\ y.records = x.records /\ y.i = x.i
        /\ y.cands = x.cands /\ y.began = x.began /\ y.first = x.first
    BY <1>1 DEF CallState
  <2> HIDE DEF y
  <2>5. Told(y)
    BY <1>1, <1>2, <2>4 DEF Told, Early, Trying, Done, FailedUpTo, Fair
  <2> QED
    BY <1>1, <1>2, <1>3, <2>1, <2>3, <2>4, <2>5, SucceedTells
<1> QED
  BY <1>4, <1>5, <1>6 DEF Saving

LEMMA SignalsTell ==
  ASSUME NEW c \in Calls, TellInv, Signals(c)
  PROVE  Tells(c)
<1> DEFINE x == call[c]
<1>1. x \in CallState /\ Told(x) /\ InTime(x, now)
  BY TellFacts
<1>2. ASSUME NEW y, Become(c, y), y.phase = x.phase, y.records = x.records,
             y.i = x.i, y.cands = x.cands, y.mode = x.mode, y.began = x.began,
             y.first = x.first, y.status = x.status, y.consumed = x.consumed
      PROVE  Tells(c)
  <2>1. Quiet(x, y)
    BY <1>2 DEF Quiet
  <2> QED
    BY <1>1, <1>2, <2>1, QuietTells
<1>3. \/ Become(c, [x EXCEPT !.cancelled = TRUE])
      \/ Become(c, [x EXCEPT !.expired = TRUE])
      \/ Become(c, [x EXCEPT !.timedOut = TRUE])
  BY DEF Signals, Cancel, Deadline, AttemptTimeout
<1> HIDE DEF x
<1>4. ASSUME NEW y \in {[x EXCEPT !.cancelled = TRUE], [x EXCEPT !.expired = TRUE],
                        [x EXCEPT !.timedOut = TRUE]}
      PROVE  /\ y.phase = x.phase /\ y.records = x.records
             /\ y.i = x.i /\ y.cands = x.cands /\ y.mode = x.mode
             /\ y.began = x.began /\ y.first = x.first /\ y.status = x.status
             /\ y.consumed = x.consumed
  BY <1>1, <1>4 DEF CallState
<1> QED
  BY <1>2, <1>3, <1>4

LEMMA SettlingTells ==
  ASSUME NEW c \in Calls, TellInv, Settling(c)
  PROVE  Tells(c)
<1> DEFINE x == call[c]
<1>1. x \in CallState /\ Told(x) /\ InTime(x, now)
  BY TellFacts
<1>2. x.phase = "settling"
  BY DEF Settling, Finish, FinishFails
<1>3. PICK p \in {"ended", "lost"} : Become(c, [x EXCEPT !.phase = p])
  BY DEF Settling, Finish, FinishFails
<1> DEFINE y == [x EXCEPT !.phase = p]
<1> HIDE DEF x
<1>4. /\ y.phase \in {"ended", "lost"} /\ y.records = x.records
      /\ y.i = x.i /\ y.cands = x.cands /\ y.mode = x.mode
      /\ y.began = x.began /\ y.first = x.first /\ y.status = x.status
      /\ y.consumed = x.consumed
  BY <1>1, <1>3 DEF CallState
<1>5. Become(c, y)
  BY <1>3
<1> HIDE DEF y
<1>6. Quiet(x, y)
  BY <1>2, <1>4 DEF Quiet, Early, Trying, Done
<1> QED
  BY <1>1, <1>5, <1>6, QuietTells DEF x

\* The clock waits for the timer of an attempt and for the end of a stream
\* that it interrupted.
LEMMA TickTells ==
  ASSUME TellInv, Tick, NEW c \in Calls
  PROVE  InTime(call[c], now')
<1> DEFINE x == call[c]
<1>1. x \in CallState /\ Good(x) /\ now \in Nat
  BY TellFacts
<1>2. ~AttemptDue(c) /\ ~Interrupted(c) /\ now' = now + 1
  BY DEF Tick
<1>3. SUFFICES ASSUME x.phase = "streaming", x.mode = "AUTO", ~x.consumed, ~IsLast(x)
               PROVE  now' <= x.began + Share(Len(x.cands))
  BY DEF InTime
<1>4. ~x.timedOut
  BY <1>2, <1>3 DEF Interrupted
<1>5. ~(now >= x.began + Share(Len(x.cands)))
  BY <1>2, <1>3, <1>4 DEF AttemptDue, Running
<1>6. Len(x.cands) \in Nat \ {0} /\ x.began \in Nat
  BY <1>1, <1>3 DEF Good, Attempt, CallState
<1>7. Share(Len(x.cands)) \in Nat
  BY <1>6, ShareFits
<1> QED
  BY <1>1, <1>2, <1>5, <1>6, <1>7

LEMMA TellInit ==
  ASSUME Init
  PROVE  TellInv
<1>1. \A c \in Calls : call[c] = NewCall
  BY DEF Init
<1>2. Told(NewCall) /\ InTime(NewCall, now)
  BY DEF NewCall, Told, Early, Trying, Done, InTime
<1> QED
  BY <1>1, <1>2, InvInit DEF TellInv

LEMMA TellNext ==
  ASSUME TellInv, [Next]_vars
  PROVE  TellInv'
<1>1. GenInv' /\ call \in [Calls -> CallState]
  BY InvNext DEF TellInv, GenInv, TypeOK
<1>2. \A d \in Calls : Told(call[d]) /\ InTime(call[d], now)
  BY DEF TellInv
<1>3. ASSUME NEW c \in Calls,
             \/ Admission(c) \/ Creation(c) \/ Streaming(c)
             \/ Saving(c) \/ Signals(c) \/ Settling(c)
      PROVE  \A d \in Calls : Told(call'[d]) /\ InTime(call'[d], now')
  <2>1. Tells(c)
    BY <1>3, AdmissionTells, CreationTells, StreamingTells, SavingTells,
       SignalsTell, SettlingTells
  <2>2. now' = now
    BY <1>3, AttemptsStepHealth DEF TellInv
  <2>3. PICK y : Become(c, y) /\ Told(y) /\ InTime(y, now)
    BY <2>1 DEF Tells
  <2>4. \A d \in Calls : call'[d] = IF d = c THEN y ELSE call[d]
    BY <1>1, <2>3 DEF Become
  <2> QED
    BY <1>2, <2>2, <2>3, <2>4
<1>4. CASE Tick
  <2>1. call' = call
    BY <1>4 DEF Tick
  <2> QED
    BY <1>1, <1>2, <1>4, <2>1, TickTells DEF TellInv
<1>5. CASE UNCHANGED vars
  <2>1. call' = call /\ now' = now
    BY <1>5 DEF vars
  <2> QED
    BY <1>1, <1>2, <2>1 DEF TellInv
<1> QED
  BY <1>1, <1>3, <1>4, <1>5 DEF Next, Terminating, TellInv

THEOREM TellInvariant == Spec => []TellInv
<1>1. Init => TellInv
  BY TellInit
<1>2. TellInv /\ [Next]_vars => TellInv'
  BY TellNext
<1> QED
  BY <1>1, <1>2, PTL DEF Spec

(* usageRecords tells what happened: one record for each attempt, failures *)
(* before the last, whose status is that of the message, however attempts, *)
(* signals and the failures of the storage follow each other.              *)
THEOREM RecordsAreTrue == Spec => []RecordsTell
<1>1. TellInv => RecordsTell
  <2>1. ASSUME TellInv, NEW c \in Calls, call[c].phase \in {"settling", "ended"}
        PROVE  RecordsTellOf(call[c])
    BY <2>1 DEF TellInv, Told, Done
  <2> QED
    BY <2>1 DEF RecordsTell, RecordsTellOf
<1> QED
  BY <1>1, TellInvariant, PTL

\* The deadline of a call that runs was set when reserve() had returned.
Timed(x) == x.phase \in Running => x.deadline = x.opened + Duration

\* A step that leaves the deadline as it is.
SameDeadline(x, y) ==
  /\ y.deadline = x.deadline /\ y.opened = x.opened
  /\ y.phase \in Running => x.phase \in Running

LEMMA FailureKeepsTime ==
  ASSUME NEW c \in Calls, NEW x \in CallState, x.phase \in Running,
         NEW category, NEW cause, Fail(c, x, category, cause)
  PROVE  \E y : Become(c, y) /\ SameDeadline(x, y)
<1> DEFINE r == Recorded(x, category, cause)
           y == [r EXCEPT !.phase = "settling"]
           z == NextAttempt(r)
<1>1. Become(c, y) \/ Become(c, z)
  BY DEF Fail
<1>2. r.deadline = x.deadline /\ r.opened = x.opened
  BY DEF Recorded, CallState
<1>3. y.deadline = r.deadline /\ y.opened = r.opened
  BY DEF Recorded, CallState
<1>4. z.deadline = r.deadline /\ z.opened = r.opened
  BY DEF Recorded, CallState, NextAttempt
<1> QED
  BY <1>1, <1>2, <1>3, <1>4 DEF SameDeadline

LEMMA StepsKeepTime ==
  ASSUME NEW c \in Calls, GenInv, Timed(call[c]),
         \/ Admission(c) \/ Creation(c) \/ Streaming(c)
         \/ Saving(c) \/ Signals(c) \/ Settling(c)
  PROVE  \E y : Become(c, y) /\ Timed(y)
<1> DEFINE x == call[c]
<1>1. x \in CallState /\ now \in Nat
  BY CallFacts
<1>2. ASSUME NEW y, Become(c, y), SameDeadline(x, y)
      PROVE  \E z : Become(c, z) /\ Timed(z)
  BY <1>2 DEF SameDeadline, Timed
<1>3. ASSUME NEW w \in CallState, SameDeadline(x, w), w.phase \in Running,
             NEW category, NEW cause, Fail(c, w, category, cause)
      PROVE  \E z : Become(c, z) /\ Timed(z)
  <2>1. PICK y : Become(c, y) /\ SameDeadline(w, y)
    BY <1>3, FailureKeepsTime
  <2>2. SameDeadline(x, y)
    BY <1>3, <2>1 DEF SameDeadline
  <2> QED
    BY <1>2, <2>1, <2>2
<1>4. CASE Admission(c)
  <2>1. CASE Reserved(c)
    <3> DEFINE y == [x EXCEPT !.phase = "open", !.opened = now, !.deadline = now + Duration]
    <3>1. Become(c, y)
      BY <2>1 DEF Reserved
    <3> HIDE DEF x
    <3>2. y.deadline = now + Duration /\ y.opened = now
      BY <1>1 DEF CallState
    <3> HIDE DEF y
    <3> QED
      BY <3>1, <3>2 DEF Timed
  <2>2. ASSUME NEW mode, NEW feature, NEW cands, Choose(c, mode, feature, cands)
        PROVE  \E z : Become(c, z) /\ Timed(z)
    <3> DEFINE y == [x EXCEPT !.phase = "chosen", !.mode = mode,
                              !.feature = feature, !.cands = cands]
    <3>1. Become(c, y)
      BY <2>2 DEF Choose
    <3>2. y.phase = "chosen"
      BY <1>1 DEF CallState
    <3> HIDE DEF y
    <3> QED
      BY <3>1, <3>2 DEF Timed, Running
  <2>3. CASE Refused(c)
    <3> DEFINE y == [x EXCEPT !.phase = "refused"]
    <3>1. Become(c, y)
      BY <2>3 DEF Refused
    <3>2. y.phase = "refused"
      BY <1>1 DEF CallState
    <3> HIDE DEF y
    <3> QED
      BY <3>1, <3>2 DEF Timed, Running
  <2> QED
    BY <1>4, <2>1, <2>2, <2>3 DEF Admission
<1>5. CASE Creation(c)
  <2>1. PICK y \in {NextAttempt(x), [x EXCEPT !.phase = "settling"]} : Become(c, y)
    BY <1>5 DEF Creation, MessagesCreated, MessagesFail
  <2>2. x.phase = "open"
    BY <1>5 DEF Creation, MessagesCreated, MessagesFail
  <2> HIDE DEF x
  <2>3. y.deadline = x.deadline /\ y.opened = x.opened
    BY <1>1 DEF CallState, NextAttempt
  <2> QED
    BY <1>2, <2>1, <2>2, <2>3 DEF SameDeadline, Running
<1>6. CASE Streaming(c)
  <2>1. x.phase = "streaming"
    BY <1>6 DEF Streaming, Delta, UsageReported, Image, StreamReturns, StreamFails
  <2>2. SameDeadline(x, x) /\ x.phase \in Running
    BY <2>1 DEF SameDeadline, Running
  <2>3. ASSUME NEW text, Delta(c, text) PROVE \E z : Become(c, z) /\ Timed(z)
    <3> DEFINE t == IF x.text = "some" THEN x.text ELSE text
               p == x.spent \/ text = "some"
               y == [x EXCEPT !.text = t, !.author = Actual(x), !.spent = p]
    <3>1. Become(c, y)
      BY <2>3 DEF Delta
    <3> HIDE DEF x, t, p
    <3>2. SameDeadline(x, y)
      BY <1>1 DEF SameDeadline, CallState
    <3> QED
      BY <1>2, <3>1, <3>2
  <2>4. CASE UsageReported(c)
    <3> DEFINE y == [x EXCEPT !.usage = TRUE, !.spent = TRUE]
    <3>1. Become(c, y)
      BY <2>4 DEF UsageReported
    <3>2. SameDeadline(x, y)
      BY <1>1 DEF SameDeadline, CallState
    <3> QED
      BY <1>2, <3>1, <3>2
  <2>5. CASE Image(c)
    <3> DEFINE w == [x EXCEPT !.consumed = TRUE, !.spent = TRUE]
               y == [w EXCEPT !.phase = "saving"]
    <3>1. Fail(c, w, "REQUEST", "provider") \/ Become(c, y)
      BY <2>5 DEF Image
    <3> HIDE DEF x
    <3>2. w \in CallState /\ SameDeadline(x, w) /\ w.phase = x.phase
      BY <1>1 DEF SameDeadline, CallState
    <3>3. y.deadline = x.deadline /\ y.opened = x.opened
      BY <1>1 DEF CallState
    <3> HIDE DEF w, y
    <3>4. SameDeadline(x, y)
      BY <2>2, <3>3 DEF SameDeadline
    <3> QED
      BY <1>2, <1>3, <2>2, <3>1, <3>2, <3>4
  <2>6. CASE StreamReturns(c)
    <3>1. CASE \E category : Fail(c, x, category, "provider")
      BY <1>1, <1>3, <2>2, <3>1
    <3>2. CASE Become(c, [x EXCEPT !.phase = "document"])
      <4>1. SameDeadline(x, [x EXCEPT !.phase = "document"])
        BY <1>1, <2>2 DEF SameDeadline, CallState
      <4> QED
        BY <1>2, <3>2, <4>1
    <3>3. CASE Succeed(c, x)
      <4> DEFINE rs == Append(x.records, Row(x, "SUCCEEDED", "none", "none"))
                 y == [x EXCEPT !.phase = "settling", !.status = "SUCCEEDED",
                                !.consumed = TRUE, !.records = rs]
      <4>1. Become(c, y)
        BY <3>3 DEF Succeed
      <4> HIDE DEF x, rs
      <4>2. y.phase = "settling"
        BY <1>1 DEF CallState
      <4> QED
        BY <4>1, <4>2 DEF Timed, Running
    <3> QED
      BY <2>6, <3>1, <3>2, <3>3 DEF StreamReturns
  <2>7. CASE \E category : StreamFails(c, category)
    BY <1>1, <1>3, <2>2, <2>7 DEF StreamFails
  <2> QED
    BY <1>6, <2>3, <2>4, <2>5, <2>6, <2>7 DEF Streaming
<1>7. CASE Saving(c)
  <2>1. x.phase \in {"saving", "document"} /\ x.phase \in Running
    BY <1>7 DEF Saving, ImageSaved, SaveFails, DocumentSaved, Running
  <2>2. CASE ImageSaved(c)
    <3> DEFINE n == x.artifacts + 1
               y == [x EXCEPT !.phase = "streaming", !.artifacts = n,
                              !.author = Actual(x)]
    <3>1. Become(c, y)
      BY <2>2 DEF ImageSaved
    <3> HIDE DEF x, n
    <3>2. SameDeadline(x, y)
      BY <1>1, <2>1 DEF SameDeadline, CallState
    <3> QED
      BY <1>2, <3>1, <3>2
  <2>3. CASE SaveFails(c)
    <3>1. SameDeadline(x, x)
      BY DEF SameDeadline
    <3> QED
      BY <1>1, <1>3, <2>1, <2>3, <3>1 DEF SaveFails
  <2>4. CASE DocumentSaved(c)
    <3> DEFINE n == x.artifacts + 1
               w == [x EXCEPT !.artifacts = n]
               rs == Append(w.records, Row(w, "SUCCEEDED", "none", "none"))
               y == [w EXCEPT !.phase = "settling", !.status = "SUCCEEDED",
                              !.consumed = TRUE, !.records = rs]
    <3>1. Become(c, y)
      BY <2>4 DEF DocumentSaved, Succeed
    <3> HIDE DEF x, n, rs
    <3>2. y.phase = "settling"
      BY <1>1 DEF CallState
    <3> QED
      BY <3>1, <3>2 DEF Timed, Running
  <2> QED
    BY <1>7, <2>2, <2>3, <2>4 DEF Saving
<1>8. CASE Signals(c)
  <2>1. PICK y \in {[x EXCEPT !.cancelled = TRUE], [x EXCEPT !.expired = TRUE],
                    [x EXCEPT !.timedOut = TRUE]} : Become(c, y)
    BY <1>8 DEF Signals, Cancel, Deadline, AttemptTimeout
  <2> HIDE DEF x
  <2>2. SameDeadline(x, y)
    BY <1>1 DEF SameDeadline, CallState
  <2> QED
    BY <1>2, <2>1, <2>2
<1>9. CASE Settling(c)
  <2>1. PICK p \in {"ended", "lost"} : Become(c, [x EXCEPT !.phase = p])
    BY <1>9 DEF Settling, Finish, FinishFails
  <2> DEFINE y == [x EXCEPT !.phase = p]
  <2> HIDE DEF x
  <2>2. y.phase \notin Running
    BY <1>1, <2>1 DEF Running, CallState
  <2> QED
    BY <2>1, <2>2 DEF Timed
<1> QED
  BY <1>4, <1>5, <1>6, <1>7, <1>8, <1>9

LEMMA TimedNext ==
  ASSUME GenInv, \A c \in Calls : Timed(call[c]), [Next]_vars
  PROVE  \A c \in Calls : Timed(call'[c])
<1>1. call \in [Calls -> CallState]
  BY DEF GenInv, TypeOK
<1>2. ASSUME NEW c \in Calls,
             \/ Admission(c) \/ Creation(c) \/ Streaming(c)
             \/ Saving(c) \/ Signals(c) \/ Settling(c)
      PROVE  \A d \in Calls : Timed(call'[d])
  <2>1. PICK y : Become(c, y) /\ Timed(y)
    BY <1>2, StepsKeepTime
  <2>2. \A d \in Calls : call'[d] = IF d = c THEN y ELSE call[d]
    BY <1>1, <2>1 DEF Become
  <2> QED
    BY <2>1, <2>2
<1>3. CASE UNCHANGED call
  BY <1>3
<1> QED
  BY <1>2, <1>3 DEF Next, Tick, Terminating

\* n candidates of which i - 1 have used at most a share s each.
LEMMA PartsLeft ==
  ASSUME NEW n \in Nat \ {0}, NEW i \in 1..n, NEW s \in Nat, NEW D \in Nat, n * s <= D,
         NEW limit \in Nat, s <= limit, NEW u \in Int, u <= (i - 1) * s
  PROVE  n * (D - u) >= (n - i + 1) * D /\ u <= (i - 1) * limit
<1> DEFINE k == i - 1
<1>1. k \in Nat /\ n - i + 1 = n - k /\ u <= k * s
  OBVIOUS
<1> HIDE DEF k
<1>2. ASSUME NEW a \in Nat, NEW b \in Int, NEW e \in Int, b <= e
      PROVE  a * b <= a * e
  <2> DEFINE d == e - b
  <2>1. d \in Nat /\ e = b + d
    BY <1>2
  <2> HIDE DEF d
  <2>2. a * e = a * b + a * d /\ a * d \in Nat /\ a * b \in Int
    BY <2>1, SMTT(20)
  <2> QED
    BY <2>2
<1>3. k * s \in Nat /\ k * limit \in Nat /\ k * D \in Nat /\ n * u \in Int /\ n * s \in Nat /\ n * D \in Nat
  BY <1>1
<1>4. k * s <= k * limit
  BY <1>1, <1>2
<1>5. n * u <= n * (k * s)
  BY <1>1, <1>2, <1>3
<1>6. n * (k * s) = k * (n * s)
  BY <1>1, SMTT(20)
<1>7. k * (n * s) <= k * D
  BY <1>1, <1>2, <1>3
<1>8. n * (D - u) = n * D - n * u
  BY SMTT(20)
<1>9. (n - k) * D = n * D - k * D
  BY <1>1, SMTT(20)
<1>10. n * u <= k * D
  <2>1. n * (k * s) \in Int
    BY <1>1
  <2> QED
    BY <1>3, <1>5, <1>6, <1>7, <2>1
<1> QED
  BY <1>1, <1>3, <1>4, <1>8, <1>9, <1>10

(* "Reserve time for remaining candidates": for every number of candidates *)
(* and every setting of the two limits, each candidate begins so early     *)
(* that the deadline leaves it and those after it equal parts of the       *)
(* duration, less what the rows of the messages took.                      *)
THEOREM SharesAreFair == Spec => []FairShare
<1> DEFINE AllTimed == \A c \in Calls : Timed(call[c])
<1>1. TellInv /\ AllTimed => FairShare
  <2>1. ASSUME TellInv, NEW c \in Calls, call[c].phase = "streaming", Timed(call[c])
        PROVE  LET x == call[c]
                   n == Len(x.cands)
               IN  /\ n * (x.deadline - x.began + (x.first - x.opened)) >= (n - x.i + 1) * Duration
                   /\ x.began - x.first <= (x.i - 1) * AttemptLimit
    <3> DEFINE x == call[c]
               n == Len(x.cands)
               u == x.began - x.first
    <3>1. x \in CallState /\ Good(x) /\ Told(x)
      BY <2>1, TellFacts
    <3>2. Attempt(x) /\ Fair(x) /\ x.deadline = x.opened + Duration
      BY <2>1, <3>1 DEF Good, Told, Trying, Timed, Running
    <3>3. /\ n \in Nat \ {0} /\ x.i \in 1..n /\ x.began \in Nat /\ x.first \in Nat
          /\ x.opened \in Nat
      BY <3>1, <3>2 DEF Attempt, CallState
    <3>4. Share(n) \in Nat /\ Share(n) <= AttemptLimit /\ n * Share(n) <= Duration
      BY <3>3, ShareFits
    <3>5. Duration \in Nat /\ AttemptLimit \in Nat
      BY GenerationAssumption
    <3>6. x.began <= x.first + (x.i - 1) * Share(n)
      BY <3>2 DEF Fair
    <3> HIDE DEF x, n
    <3>7. u \in Int /\ u <= (x.i - 1) * Share(n)
      <4>1. (x.i - 1) * Share(n) \in Int
        BY <3>3, <3>4
      <4> QED
        BY <3>3, <3>6, <4>1
    <3>8. x.deadline - x.began + (x.first - x.opened) = Duration - u
      BY <3>2, <3>3, <3>5
    <3> HIDE DEF u
    <3>9. n * (Duration - u) >= (n - x.i + 1) * Duration /\ u <= (x.i - 1) * AttemptLimit
      BY <3>3, <3>4, <3>5, <3>7, PartsLeft
    <3> QED
      BY <3>8, <3>9 DEF x, n, u
  <2> QED
    BY <2>1 DEF FairShare
<1>2. Init => AllTimed
  BY DEF Init, NewCall, Timed, Running
<1>3. TellInv /\ AllTimed /\ [Next]_vars => AllTimed'
  BY TimedNext DEF TellInv
<1> QED
  BY <1>1, <1>2, <1>3, TellInvariant, PTL DEF Spec

----------------------------------------------------------------------------
(* Rest after failures.  The entry of a model knows of each failure since  *)
(* the last success that is not forgotten (Noted), and so it keeps the     *)
(* model away after two of them, or one of rate limits (Rested).           *)

Within(x) ==
  /\ Len(x.records) <= Len(x.cands)
  /\ \A j, k \in DOMAIN x.cands : x.cands[j] = x.cands[k] => j = k

Noted(m, a) ==
  /\ RecordOf(a).category \in Penalized
  /\ NoSuccessSince(m, RecordOf(a).at)
  /\ now <= RecordOf(a).at + Forget
  => m \in DOMAIN health /\ health[m].touched >= RecordOf(a).at

\* Two failures, or one of rate limits, that make the model rest.
Cools(m, a, b) ==
  /\ RecordOf(a).category \in Penalized /\ RecordOf(b).category \in Penalized
  /\ a # b \/ RecordOf(b).category = "HTTP_429"
  /\ RecordOf(b).at - RecordOf(a).at \in 0..Forget
  /\ NoSuccessSince(m, RecordOf(a).at)

Rested(m, a, b) ==
  Cools(m, a, b) /\ now < RecordOf(b).at + Cooldown
  => m \in DOMAIN health /\ health[m].until >= RecordOf(b).at + Cooldown

Rests(m) ==
  /\ \A a \in AllRecords(m) : RecordOf(a).at <= now /\ Noted(m, a)
  /\ \A a, b \in AllRecords(m) : Rested(m, a, b)

RestInv ==
  /\ TellInv
  /\ \A c \in Calls : Within(call[c])
  /\ Cardinality(Models) <= Capacity => \A m \in Models : Rests(m)

\* A step of one call that adds no record, and one that adds the record r.
Leaves(c) ==
  /\ \E y : /\ Become(c, y) /\ y.records = call[c].records
            /\ y.cands = call[c].cands \/ (y.records = <<>> /\ y.cands \in Rankings)
  /\ UNCHANGED <<health, older>>

Writes(c, r) ==
  /\ \E y : /\ Become(c, y) /\ y.records = Append(call[c].records, r)
            /\ y.cands = call[c].cands
  /\ Len(call[c].records) < Len(call[c].cands)
  /\ r \in Record /\ r.at = now
  /\ IF r.status = "SUCCEEDED" THEN r.category = "none" /\ Healed(r.model)
     ELSE Failed(r.model, r.category, now)

LEMMA FailWrites ==
  ASSUME NEW c \in Calls, now \in Nat, NEW x \in CallState, x.i \in 1..Len(x.cands),
         x.records = call[c].records, x.cands = call[c].cands, Len(x.records) = x.i - 1,
         NEW category \in Categories, NEW cause \in {"provider", "storage"},
         Fail(c, x, category, cause)
  PROVE  \E r : Writes(c, r)
<1> DEFINE r == Row(x, StatusOf(x), CategoryOf(x, category), cause)
           y == Recorded(x, category, cause)
           z == AfterFailure(x, category, cause)
<1>1. Become(c, z) /\ Failed(Actual(x), CategoryOf(x, category), now)
  BY DEF Fail, AfterFailure
<1>2. y \in CallState /\ y.cands = x.cands /\ y.records = Append(x.records, r)
  <2>1. y \in CallState
    BY RecordedType
  <2>2. y.cands = x.cands
    BY RecordedFields
  <2>3. y.records = Append(x.records, r)
    BY RecordedAttempts
  <2> QED
    BY <2>1, <2>2, <2>3
<1>3. /\ r \in Record /\ r.at = now /\ r.model = Actual(x)
      /\ r.category = CategoryOf(x, category) /\ r.status # "SUCCEEDED"
  <2>1. /\ StatusOf(x) \in Statuses \ {"SUCCEEDED"}
        /\ CategoryOf(x, category) \in Categories
    BY DEF StatusOf, CategoryOf, Statuses, Categories
  <2>2. Actual(x) \in Models
    BY ActualType
  <2> QED
    BY <2>1, <2>2 DEF Row, Record
<1>4. z = [y EXCEPT !.phase = "settling"] \/ z = NextAttempt(y)
  BY DEF AfterFailure, y, z
<1> HIDE DEF r, y, z, Record
<1>5. z.records = y.records /\ z.cands = y.cands
  <2>1. /\ [y EXCEPT !.phase = "settling"].records = y.records
        /\ [y EXCEPT !.phase = "settling"].cands = y.cands
    BY <1>2 DEF CallState
  <2>2. NextAttempt(y).records = y.records /\ NextAttempt(y).cands = y.cands
    BY <1>2 DEF NextAttempt, CallState
  <2> QED
    BY <1>4, <2>1, <2>2
<1>6. Len(x.records) < Len(x.cands)
  BY DEF CallState
<1> QED
  BY <1>1, <1>2, <1>3, <1>5, <1>6 DEF Writes

LEMMA SucceedWrites ==
  ASSUME NEW c \in Calls, now \in Nat, NEW x \in CallState, x.i \in 1..Len(x.cands),
         x.records = call[c].records, x.cands = call[c].cands, Len(x.records) = x.i - 1,
         Succeed(c, x)
  PROVE  \E r : Writes(c, r)
<1> DEFINE r == Row(x, "SUCCEEDED", "none", "none")
           rs == Append(x.records, r)
           y == [x EXCEPT !.phase = "settling", !.status = "SUCCEEDED",
                          !.consumed = TRUE, !.records = rs]
<1>1. Become(c, y) /\ Healed(Actual(x))
  BY DEF Succeed
<1>2. /\ r \in Record /\ r.at = now /\ r.model = Actual(x)
      /\ r.category = "none" /\ r.status = "SUCCEEDED"
  <2>1. Actual(x) \in Models
    BY ActualType
  <2> QED
    BY <2>1 DEF Row, Record, Statuses
<1> HIDE DEF r, Record
<1>3. y.records = rs /\ y.cands = x.cands
  BY DEF CallState
<1> HIDE DEF y
<1>4. Len(x.records) < Len(x.cands)
  BY DEF CallState
<1> QED
  BY <1>1, <1>2, <1>3, <1>4 DEF Writes

LEMMA StepWrites ==
  ASSUME NEW c \in Calls, TellInv,
         \/ Admission(c) \/ Creation(c) \/ Streaming(c)
         \/ Saving(c) \/ Signals(c) \/ Settling(c)
  PROVE  Leaves(c) \/ \E r : Writes(c, r)
<1> DEFINE x == call[c]
<1>1. x \in CallState /\ Good(x) /\ now \in Nat /\ Told(x)
  BY TellFacts
<1>2. ASSUME x.phase \in Trying
      PROVE  x.i \in 1..Len(x.cands) /\ Len(x.records) = x.i - 1
  BY <1>1, <1>2 DEF Good, Attempt, Told, Trying
<1> DEFINE Aside(y) == y.records = x.records /\ y.cands = x.cands
<1>3. ASSUME NEW y \in CallState, Aside(y), x.phase \in Trying,
             NEW category \in Categories, NEW cause \in {"provider", "storage"},
             Fail(c, y, category, cause), y.i = x.i
      PROVE  \E r : Writes(c, r)
  BY <1>1, <1>2, <1>3, FailWrites
<1>4. ASSUME NEW y \in CallState, Aside(y), x.phase \in Trying, Succeed(c, y), y.i = x.i
      PROVE  \E r : Writes(c, r)
  BY <1>1, <1>2, <1>4, SucceedWrites
<1>5. ASSUME NEW y, Become(c, y), Aside(y), UNCHANGED <<health, older>>
      PROVE  Leaves(c)
  BY <1>5 DEF Leaves
<1>6. CASE Admission(c)
  <2>1. ASSUME NEW mode \in Modes, NEW feature \in Features,
               NEW cands \in Rankings, Choose(c, mode, feature, cands)
        PROVE  Leaves(c)
    <3> DEFINE y == [x EXCEPT !.phase = "chosen", !.mode = mode,
                              !.feature = feature, !.cands = cands]
    <3>1. x.phase = "idle" /\ Become(c, y) /\ UNCHANGED <<health, older>>
      BY <2>1 DEF Choose
    <3>2. x.records = <<>>
      BY <1>1, <3>1 DEF Told, Early
    <3> HIDE DEF x
    <3>3. y.records = x.records /\ y.cands = cands
      BY <1>1 DEF CallState
    <3> HIDE DEF y
    <3> QED
      BY <3>1, <3>2, <3>3 DEF Leaves, x
  <2>2. ASSUME Reserved(c) PROVE Leaves(c)
    <3> DEFINE y == [x EXCEPT !.phase = "open", !.opened = now, !.deadline = now + Duration]
    <3>1. Become(c, y) /\ UNCHANGED <<health, older>>
      BY <2>2 DEF Reserved
    <3>2. Aside(y)
      BY <1>1 DEF CallState
    <3> HIDE DEF y
    <3> QED
      BY <1>5, <3>1, <3>2
  <2>3. ASSUME Refused(c) PROVE Leaves(c)
    <3> DEFINE y == [x EXCEPT !.phase = "refused"]
    <3>1. Become(c, y) /\ UNCHANGED <<health, older>>
      BY <2>3 DEF Refused
    <3>2. Aside(y)
      BY <1>1 DEF CallState
    <3> HIDE DEF y
    <3> QED
      BY <1>5, <3>1, <3>2
  <2> QED
    BY <1>6, <2>1, <2>2, <2>3 DEF Admission
<1>7. CASE Creation(c)
  <2>1. PICK y \in {NextAttempt(x), [x EXCEPT !.phase = "settling"]} : Become(c, y)
    BY <1>7 DEF Creation, MessagesCreated, MessagesFail
  <2>2. UNCHANGED <<health, older>>
    BY <1>7 DEF Creation, MessagesCreated, MessagesFail
  <2> HIDE DEF x
  <2>3. /\ NextAttempt(x).records = x.records /\ NextAttempt(x).cands = x.cands
        /\ [x EXCEPT !.phase = "settling"].records = x.records
        /\ [x EXCEPT !.phase = "settling"].cands = x.cands
    BY <1>1 DEF NextAttempt, CallState
  <2>4. Aside(y)
    BY <2>1, <2>3
  <2> QED
    BY <1>5, <2>1, <2>2, <2>4
<1>8. CASE Streaming(c)
  <2>0. x.phase = "streaming" /\ x.phase \in Trying
    BY <1>8 DEF Streaming, Delta, UsageReported, Image, StreamReturns, StreamFails, Trying
  <2>1. ASSUME NEW text, Delta(c, text) PROVE Leaves(c)
    <3> DEFINE t == IF x.text = "some" THEN x.text ELSE text
               p == x.spent \/ text = "some"
               y == [x EXCEPT !.text = t, !.author = Actual(x), !.spent = p]
    <3>1. Become(c, y) /\ UNCHANGED <<health, older>>
      BY <2>1 DEF Delta
    <3> HIDE DEF t, p
    <3>2. Aside(y)
      BY <1>1 DEF CallState
    <3> HIDE DEF y
    <3> QED
      BY <1>5, <3>1, <3>2
  <2>2. ASSUME UsageReported(c) PROVE Leaves(c)
    <3> DEFINE y == [x EXCEPT !.usage = TRUE, !.spent = TRUE]
    <3>1. Become(c, y) /\ UNCHANGED <<health, older>>
      BY <2>2 DEF UsageReported
    <3>2. Aside(y)
      BY <1>1 DEF CallState
    <3> HIDE DEF y
    <3> QED
      BY <1>5, <3>1, <3>2
  <2>3. ASSUME Image(c) PROVE Leaves(c) \/ \E r : Writes(c, r)
    <3> DEFINE y == [x EXCEPT !.consumed = TRUE, !.spent = TRUE]
    <3>1. y \in CallState
      BY <1>1 DEF CallState
    <3>2. Aside(y) /\ y.i = x.i
      BY <1>1 DEF CallState
    <3>3. \/ Fail(c, y, "REQUEST", "provider")
          \/ Become(c, [y EXCEPT !.phase = "saving"]) /\ UNCHANGED <<health, older>>
      BY <2>3 DEF Image
    <3> HIDE DEF y
    <3>4. [y EXCEPT !.phase = "saving"].records = y.records
          /\ [y EXCEPT !.phase = "saving"].cands = y.cands
      BY <3>1 DEF CallState
    <3>5. CASE Fail(c, y, "REQUEST", "provider")
      BY <1>3, <2>0, <3>1, <3>2, <3>5 DEF Categories
    <3>6. CASE Become(c, [y EXCEPT !.phase = "saving"]) /\ UNCHANGED <<health, older>>
      BY <1>5, <3>2, <3>4, <3>6
    <3> QED
      BY <3>3, <3>5, <3>6
  <2>4. ASSUME NEW category \in Categories, Fail(c, x, category, "provider")
        PROVE  \E r : Writes(c, r)
    BY <1>1, <1>3, <2>0, <2>4
  <2>5. ASSUME StreamReturns(c) PROVE Leaves(c) \/ \E r : Writes(c, r)
    <3>1. \/ Fail(c, x, "TRANSIENT", "provider") \/ Fail(c, x, "REQUEST", "provider")
          \/ Become(c, [x EXCEPT !.phase = "document"]) /\ UNCHANGED <<health, older>>
          \/ Succeed(c, x)
      BY <2>5 DEF StreamReturns
    <3> HIDE DEF x
    <3>2. [x EXCEPT !.phase = "document"].records = x.records
          /\ [x EXCEPT !.phase = "document"].cands = x.cands
      BY <1>1 DEF CallState
    <3>3. CASE Become(c, [x EXCEPT !.phase = "document"]) /\ UNCHANGED <<health, older>>
      BY <1>5, <3>2, <3>3
    <3> QED
      BY <1>1, <1>4, <2>0, <2>4, <3>1, <3>3 DEF Categories
  <2>6. ASSUME NEW category \in Categories, StreamFails(c, category)
        PROVE  \E r : Writes(c, r)
    BY <2>4, <2>6 DEF StreamFails
  <2> QED
    BY <1>8, <2>1, <2>2, <2>3, <2>5, <2>6 DEF Streaming
<1>9. CASE Saving(c)
  <2>0. x.phase \in Trying
    BY <1>9 DEF Saving, ImageSaved, SaveFails, DocumentSaved, Trying
  <2>1. ASSUME ImageSaved(c) PROVE Leaves(c)
    <3> DEFINE n == x.artifacts + 1
               y == [x EXCEPT !.phase = "streaming", !.artifacts = n, !.author = Actual(x)]
    <3>1. Become(c, y) /\ UNCHANGED <<health, older>>
      BY <2>1 DEF ImageSaved
    <3> HIDE DEF n
    <3>2. Aside(y)
      BY <1>1 DEF CallState
    <3> HIDE DEF y
    <3> QED
      BY <1>5, <3>1, <3>2
  <2>2. ASSUME SaveFails(c) PROVE \E r : Writes(c, r)
    BY <1>1, <1>3, <2>0, <2>2 DEF SaveFails, Categories
  <2>3. ASSUME DocumentSaved(c) PROVE \E r : Writes(c, r)
    <3> DEFINE n == x.artifacts + 1
               y == [x EXCEPT !.artifacts = n]
    <3>1. Succeed(c, y)
      BY <2>3 DEF DocumentSaved
    <3>2. n \in Nat
      BY <1>1 DEF CallState
    <3> HIDE DEF n, x
    <3>3. y \in CallState /\ y.records = x.records /\ y.cands = x.cands /\ y.i = x.i
      BY <1>1, <3>2 DEF CallState
    <3> HIDE DEF y
    <3> QED
      BY <1>4, <2>0, <3>1, <3>3
  <2> QED
    BY <1>9, <2>1, <2>2, <2>3 DEF Saving
<1>10. CASE Signals(c)
  <2>1. UNCHANGED <<health, older>>
    BY <1>10 DEF Signals, Cancel, Deadline, AttemptTimeout
  <2>2. \/ Become(c, [x EXCEPT !.cancelled = TRUE])
        \/ Become(c, [x EXCEPT !.expired = TRUE])
        \/ Become(c, [x EXCEPT !.timedOut = TRUE])
    BY <1>10 DEF Signals, Cancel, Deadline, AttemptTimeout
  <2> HIDE DEF x
  <2>3. ASSUME NEW y \in {[x EXCEPT !.cancelled = TRUE], [x EXCEPT !.expired = TRUE],
                          [x EXCEPT !.timedOut = TRUE]}
        PROVE  Aside(y)
    BY <1>1, <2>3 DEF CallState
  <2> QED
    BY <1>5, <2>1, <2>2, <2>3
<1>11. CASE Settling(c)
  <2>1. PICK p \in {"ended", "lost"} : Become(c, [x EXCEPT !.phase = p])
    BY <1>11 DEF Settling, Finish, FinishFails
  <2>2. UNCHANGED <<health, older>>
    BY <1>11 DEF Settling, Finish, FinishFails
  <2> HIDE DEF x
  <2>3. Aside([x EXCEPT !.phase = p])
    BY <1>1 DEF CallState
  <2> QED
    BY <1>5, <2>1, <2>2, <2>3
<1> QED
  BY <1>6, <1>7, <1>8, <1>9, <1>10, <1>11

\* No call has more records than there are models.
LEMMA FewRecords ==
  ASSUME NEW x \in CallState, Within(x)
  PROVE  Len(x.cands) <= Cardinality(Models)
<1> DEFINE n == Len(x.cands)
<1>0. n \in Nat
  BY DEF CallState
<1>1. n \in Nat /\ IsFiniteSet(1..n) /\ Cardinality(1..n) = n
  <2> HIDE DEF n
  <2> QED
    BY <1>0, FS_Interval
<1>2. x.cands \in [1..n -> Models]
  BY DEF CallState
<1>3. IsFiniteSet(Models) /\ Cardinality(Models) \in Nat
  BY HealthAssumption, FS_CardinalityType
<1>4. \A j, k \in 1..n : x.cands[j] = x.cands[k] => j = k
  BY <1>2 DEF Within
<1> HIDE DEF n
<1>5. ASSUME Cardinality(Models) < n PROVE FALSE
  <2>1. \E j, k \in 1..n : j # k /\ x.cands[j] = x.cands[k]
    BY <1>1, <1>2, <1>3, <1>5, FS_PigeonHole
  <2> QED
    BY <1>4, <2>1
<1> QED
  BY <1>1, <1>3, <1>5 DEF n

LEMMA WithinStep ==
  ASSUME NEW c \in Calls, call[c] \in CallState, Within(call[c]),
         Leaves(c) \/ \E r : Writes(c, r)
  PROVE  \E y : Become(c, y) /\ Within(y)
<1> DEFINE x == call[c]
<1>1. ASSUME NEW y, y.records = <<>>, y.cands \in Rankings PROVE Within(y)
  <2>1. Len(y.cands) \in Nat /\ \A j, k \in DOMAIN y.cands : y.cands[j] = y.cands[k] => j = k
    BY <1>1, GenerationAssumption
  <2> QED
    BY <1>1, <2>1 DEF Within
<1>2. CASE Leaves(c)
  BY <1>1, <1>2 DEF Leaves, Within
<1>3. CASE \E r : Writes(c, r)
  <2>1. PICK r : Writes(c, r)
    BY <1>3
  <2>2. PICK y : Become(c, y) /\ y.records = Append(x.records, r) /\ y.cands = x.cands
    BY <2>1 DEF Writes
  <2>3. Len(y.records) = Len(x.records) + 1 /\ Len(x.cands) \in Nat
    BY <2>1, <2>2 DEF CallState, Writes
  <2>4. Len(x.records) \in Nat /\ Len(x.records) < Len(x.cands)
    BY <2>1 DEF Writes, CallState
  <2> QED
    BY <2>2, <2>3, <2>4 DEF Within
<1> QED
  BY <1>2, <1>3

\* What a new record changes in what is known of a model.
LEMMA NewRecord ==
  ASSUME NEW c \in Calls, call \in [Calls -> CallState], \A d \in Calls : Within(call[d]),
         NEW r, Writes(c, r), NEW m \in Models,
         NEW n, n = Len(call[c].records) + 1
  PROVE  LET a == [call |-> c, j |-> n]
         IN  /\ AllRecords(m)' = AllRecords(m) \cup (IF r.model = m THEN {a} ELSE {})
             /\ a \notin AllRecords(m)
             /\ \A b \in AllRecords(m) : RecordOf(b)' = RecordOf(b)
             /\ RecordOf(a)' = r
<1> DEFINE x == call[c]
           a == [call |-> c, j |-> n]
<1>1. /\ x \in CallState /\ x.records \in Seq(Record) /\ n \in Nat \ {0}
      /\ n = Len(x.records) + 1
  BY DEF CallState
<1>2. PICK y : Become(c, y) /\ y.records = Append(x.records, r)
  BY DEF Writes
<1>3. \A d \in Calls : call'[d] = IF d = c THEN y ELSE call[d]
  BY <1>2 DEF Become
<1>4. n <= Cardinality(Models) /\ Cardinality(Models) \in Nat
  <2>1. Len(x.cands) <= Cardinality(Models) /\ Len(x.cands) \in Nat
    BY <1>1, FewRecords DEF CallState
  <2>2. Len(x.records) < Len(x.cands)
    BY DEF Writes
  <2>3. IsFiniteSet(Models) /\ Cardinality(Models) \in Nat
    BY HealthAssumption, FS_CardinalityType
  <2> QED
    BY <1>1, <2>1, <2>2, <2>3
<1>5. r \in Record
  BY DEF Writes
<1> HIDE DEF x, Record
<1>6. /\ DOMAIN y.records = DOMAIN x.records \cup {n} /\ n \notin DOMAIN x.records
      /\ y.records[n] = r
      /\ \A j \in DOMAIN x.records : y.records[j] = x.records[j]
  BY <1>1, <1>2, <1>5
<1>7. ASSUME NEW b \in AllRecords(m) PROVE RecordOf(b)' = RecordOf(b) /\ b # a
  <2>1. b.call \in Calls /\ b.j \in DOMAIN call[b.call].records
    BY DEF AllRecords
  <2>2. CASE b.call = c
    BY <1>3, <1>6, <2>1, <2>2 DEF RecordOf, x
  <2>3. CASE b.call # c
    BY <1>3, <2>1, <2>3 DEF RecordOf
  <2> QED
    BY <2>2, <2>3
<1>8. RecordOf(a)' = r
  BY <1>3, <1>6 DEF RecordOf
<1>9. ASSUME NEW b \in [call : Calls, j : 1..Cardinality(Models)]
      PROVE  b \in AllRecords(m)' <=> b \in AllRecords(m) \/ (b = a /\ r.model = m)
  <2>1. b \in AllRecords(m)' <=>
          b.j \in DOMAIN call'[b.call].records /\ call'[b.call].records[b.j].model = m
    BY <1>9 DEF AllRecords
  <2>2. b \in AllRecords(m) <=>
          b.j \in DOMAIN call[b.call].records /\ call[b.call].records[b.j].model = m
    BY <1>9 DEF AllRecords
  <2>3. b.call \in Calls /\ (b = a <=> b.call = c /\ b.j = n)
    BY <1>9
  <2>4. CASE b.call # c
    BY <1>3, <2>1, <2>2, <2>3, <2>4
  <2>5. CASE b.call = c
    <3>1. call'[b.call].records = y.records /\ call[b.call].records = x.records
      BY <1>3, <2>3, <2>5 DEF x
    <3>2. CASE b.j = n
      BY <1>6, <2>1, <2>2, <2>3, <2>5, <3>1, <3>2
    <3>3. CASE b.j # n
      BY <1>6, <2>1, <2>2, <2>3, <2>5, <3>1, <3>3
    <3> QED
      BY <3>2, <3>3
  <2> QED
    BY <2>4, <2>5
<1>10. a \in [call : Calls, j : 1..Cardinality(Models)]
  BY <1>1, <1>4
<1>11. AllRecords(m)' = AllRecords(m) \cup (IF r.model = m THEN {a} ELSE {})
  <2>1. /\ AllRecords(m) \subseteq [call : Calls, j : 1..Cardinality(Models)]
        /\ AllRecords(m)' \subseteq [call : Calls, j : 1..Cardinality(Models)]
    BY DEF AllRecords
  <2> HIDE DEF a
  <2> QED
    BY <1>9, <1>10, <2>1
<1> QED
  BY <1>7, <1>8, <1>11

\* The models of a map that is large enough are forgotten only by time.
LEMMA CountedKeeps ==
  ASSUME HealthTyped, Cardinality(Models) <= Capacity, now \in Nat,
         NEW n \in Models, NEW category \in Penalized, Failed(n, category, now)
  PROVE  /\ \A m \in Kept(now) \ {n} : m \in DOMAIN health' /\ health'[m] = health[m]
         /\ n \in DOMAIN health' /\ health'[n].touched = now
         /\ n \in Kept(now) \/ category = "HTTP_429" => health'[n].until = now + Cooldown
<1> DEFINE k == Failures(n, now)
           u == Until(k, category, now)
           e == [failures |-> k, touched |-> now, until |-> u]
           rest == Kept(now) \ Evicted(n, now)
<1>1. health' = [d \in rest \cup {n} |-> IF d = n THEN e ELSE health[d]]
  BY DEF Failed, Counted
<1>2. Evicted(n, now) = {}
  <2>1. CASE n \in Kept(now)
    BY <2>1 DEF Evicted
  <2>2. CASE n \notin Kept(now)
    <3>1. IsFiniteSet(Models) /\ Cardinality(Models) \in Nat /\ Capacity \in Nat
      BY HealthAssumption, FS_CardinalityType
    <3>2. Kept(now) \in SUBSET Models /\ Kept(now) # Models
      BY <2>2 DEF Kept, HealthTyped
    <3>3. Cardinality(Kept(now)) \in Nat /\ Cardinality(Kept(now)) < Cardinality(Models)
      <4>1. /\ IsFiniteSet(Kept(now)) /\ Cardinality(Kept(now)) <= Cardinality(Models)
            /\ Cardinality(Models) # Cardinality(Kept(now))
        BY <3>1, <3>2, FS_Subset
      <4>2. Cardinality(Kept(now)) \in Nat
        BY <4>1, FS_CardinalityType
      <4> QED
        BY <3>1, <4>1, <4>2
    <3>4. ~(Cardinality(Kept(now)) >= Capacity)
      BY <3>1, <3>3
    <3> QED
      BY <3>4 DEF Evicted
  <2> QED
    BY <2>1, <2>2
<1>3. n \in Kept(now) => k \in Nat /\ k >= 2
  <2>1. \A d \in Kept(now) : health[d].failures \in Nat \ {0}
    BY DEF Kept, HealthTyped, Entry
  <2> QED
    BY <2>1 DEF Failures
<1> HIDE DEF k
<1>4. n \in Kept(now) \/ category = "HTTP_429" => u = now + Cooldown
  BY <1>3 DEF Until
<1> HIDE DEF u
<1>5. e.touched = now /\ e.until = u
  OBVIOUS
<1> HIDE DEF e
<1> QED
  BY <1>1, <1>2, <1>4, <1>5

LEMMA RecordType ==
  ASSUME call \in [Calls -> CallState], NEW m, NEW a \in AllRecords(m)
  PROVE  RecordOf(a) \in Record /\ RecordOf(a).at \in Nat
<1>1. a.call \in Calls /\ a.j \in DOMAIN call[a.call].records
  BY DEF AllRecords
<1>2. call[a.call].records \in Seq(Record)
  BY <1>1 DEF CallState
<1> HIDE DEF Record
<1>3. RecordOf(a) \in Record
  BY <1>1, <1>2 DEF RecordOf
<1> QED
  BY <1>3 DEF Record

\* A failure that the entry of the model knows of keeps the entry.
LEMMA NotedKept ==
  ASSUME HealthTyped, now \in Nat, call \in [Calls -> CallState],
         NEW m, NEW a \in AllRecords(m), Noted(m, a),
         RecordOf(a).category \in Penalized, NoSuccessSince(m, RecordOf(a).at),
         now <= RecordOf(a).at + Forget
  PROVE  m \in Kept(now)
<1>1. m \in DOMAIN health /\ health[m].touched >= RecordOf(a).at
  BY DEF Noted
<1>2. health[m].touched \in Nat /\ RecordOf(a).at \in Nat /\ Forget \in Nat
  BY <1>1, RecordType, HealthAssumption DEF HealthTyped, Entry
<1> QED
  BY <1>1, <1>2 DEF Kept

LEMMA CoolingKept ==
  ASSUME HealthTyped, now \in Nat, call \in [Calls -> CallState],
         NEW m, NEW a \in AllRecords(m), NEW b \in AllRecords(m), Noted(m, b),
         Cools(m, a, b), now < RecordOf(b).at + Cooldown
  PROVE  m \in Kept(now)
<1>1. /\ RecordOf(a).at \in Nat /\ RecordOf(b).at \in Nat
      /\ Forget \in Nat /\ Cooldown \in Nat /\ Cooldown <= Forget
  BY RecordType, HealthAssumption
<1>2. RecordOf(b).at >= RecordOf(a).at
  BY <1>1 DEF Cools
<1>3. \A r \in AllRecords(m) : RecordOf(r).at \in Nat
  BY RecordType
<1>4. NoSuccessSince(m, RecordOf(b).at)
  BY <1>1, <1>2, <1>3 DEF Cools, NoSuccessSince
<1>5. now <= RecordOf(b).at + Forget
  BY <1>1
<1> QED
  BY <1>4, <1>5, NotedKept DEF Cools

\* A model of which there is no new record keeps its entry while it matters.
LEMMA OthersRest ==
  ASSUME HealthTyped, now \in Nat, now' = now, call \in [Calls -> CallState],
         NEW m, Rests(m), AllRecords(m)' = AllRecords(m),
         \A b \in AllRecords(m) : RecordOf(b)' = RecordOf(b),
         m \in Kept(now) => m \in DOMAIN health' /\ health'[m] = health[m]
  PROVE  Rests(m)'
<1>1. \A b \in AllRecords(m) : NoSuccessSince(m, RecordOf(b).at)' <=> NoSuccessSince(m, RecordOf(b).at)
  BY DEF NoSuccessSince
<1>2. ASSUME NEW a \in AllRecords(m) PROVE RecordOf(a)'.at <= now' /\ Noted(m, a)'
  <2>1. RecordOf(a).at <= now /\ Noted(m, a)
    BY DEF Rests
  <2>2. SUFFICES ASSUME RecordOf(a).category \in Penalized,
                        NoSuccessSince(m, RecordOf(a).at),
                        now <= RecordOf(a).at + Forget
                 PROVE  m \in DOMAIN health' /\ health'[m].touched >= RecordOf(a).at
    BY <1>1, <2>1 DEF Noted
  <2>3. m \in Kept(now)
    BY <2>1, <2>2, NotedKept
  <2> QED
    BY <2>1, <2>2, <2>3 DEF Noted
<1>3. ASSUME NEW a \in AllRecords(m), NEW b \in AllRecords(m)
      PROVE  Rested(m, a, b)'
  <2>1. Noted(m, b) /\ Rested(m, a, b)
    BY DEF Rests
  <2>2. Cools(m, a, b)' <=> Cools(m, a, b)
    BY <1>1 DEF Cools
  <2>3. SUFFICES ASSUME Cools(m, a, b), now < RecordOf(b).at + Cooldown
                 PROVE  m \in DOMAIN health' /\ health'[m].until >= RecordOf(b).at + Cooldown
    BY <2>2 DEF Rested
  <2>4. m \in Kept(now)
    BY <2>1, <2>3, CoolingKept
  <2> QED
    BY <2>1, <2>3, <2>4 DEF Rested
<1>4. \A a \in AllRecords(m)' : RecordOf(a)'.at <= now' /\ Noted(m, a)'
  BY <1>2
<1>5. \A a, b \in AllRecords(m)' : Rested(m, a, b)'
  BY <1>3
<1> QED
  BY <1>4, <1>5 DEF Rests

LEMMA SuccessRests ==
  ASSUME now \in Nat, now' = now, NEW m, NEW a, NEW r,
         a \in AllRecords(m)', RecordOf(a)' = r, r.at = now, r.status = "SUCCEEDED",
         \A b \in AllRecords(m)' : RecordOf(b)'.at \in Nat /\ RecordOf(b)'.at <= now
  PROVE  Rests(m)'
<1>1. \A b \in AllRecords(m)' : ~NoSuccessSince(m, RecordOf(b).at)'
  BY DEF NoSuccessSince
<1>2. \A b \in AllRecords(m)' : RecordOf(b)'.at <= now' /\ Noted(m, b)'
  BY <1>1 DEF Noted
<1>3. \A b, d \in AllRecords(m)' : Rested(m, b, d)'
  BY <1>1 DEF Rested, Cools
<1> QED
  BY <1>2, <1>3 DEF Rests

LEMMA FailureRests ==
  ASSUME HealthTyped, Cardinality(Models) <= Capacity, now \in Nat, now' = now,
         call \in [Calls -> CallState], NEW m \in Models, Rests(m), NEW a, NEW r,
         AllRecords(m)' = AllRecords(m) \cup {a}, a \notin AllRecords(m),
         \A b \in AllRecords(m) : RecordOf(b)' = RecordOf(b),
         RecordOf(a)' = r, r.at = now, r.category \in Penalized,
         Failed(m, r.category, now)
  PROVE  Rests(m)'
<1>0. /\ \A b \in AllRecords(m) : RecordOf(b).at \in Nat /\ RecordOf(b).at <= now
      /\ Forget \in Nat /\ Cooldown \in Nat /\ Cooldown <= Forget
  BY RecordType, HealthAssumption DEF Rests
<1>1. /\ m \in DOMAIN health' /\ health'[m].touched = now
      /\ m \in Kept(now) \/ r.category = "HTTP_429" => health'[m].until = now + Cooldown
  BY CountedKeeps
<1>2. \A b \in AllRecords(m)' : RecordOf(b)'.at <= now' /\ Noted(m, b)'
  BY <1>0, <1>1 DEF Noted
<1>3. \A b \in AllRecords(m) :
        NoSuccessSince(m, RecordOf(b).at)' => NoSuccessSince(m, RecordOf(b).at)
  BY DEF NoSuccessSince
<1>4. ASSUME NEW b \in AllRecords(m)', NEW d \in AllRecords(m)',
             Cools(m, b, d)', now < RecordOf(d)'.at + Cooldown
      PROVE  m \in Kept(now) \/ r.category = "HTTP_429"
  <2>1. CASE d = a /\ b = a
    BY <1>4, <2>1 DEF Cools
  <2>2. CASE d = a /\ b # a
    <3>1. b \in AllRecords(m) /\ RecordOf(b)' = RecordOf(b) /\ Noted(m, b)
      BY <2>2 DEF Rests
    <3>2. /\ RecordOf(b).category \in Penalized
          /\ NoSuccessSince(m, RecordOf(b).at) /\ now - RecordOf(b).at \in 0..Forget
      BY <1>3, <1>4, <2>2, <3>1 DEF Cools
    <3>3. now <= RecordOf(b).at + Forget
      BY <1>0, <3>1, <3>2
    <3> QED
      BY <3>1, <3>2, <3>3, NotedKept
  <2>3. CASE d # a
    <3>1. d \in AllRecords(m) /\ RecordOf(d)' = RecordOf(d) /\ Noted(m, d)
      BY <2>3 DEF Rests
    <3>2. RecordOf(d).category \in Penalized
      BY <1>4, <3>1 DEF Cools
    <3>3. NoSuccessSince(m, RecordOf(d).at)
      <4>1. /\ \A s \in AllRecords(m)' : RecordOf(s)'.at \in Nat
            /\ RecordOf(d)'.at >= RecordOf(b)'.at
        <5>1. \A s \in AllRecords(m)' : RecordOf(s)'.at \in Nat
          BY <1>0
        <5> QED
          BY <1>0, <1>4, <5>1 DEF Cools
      <4>2. NoSuccessSince(m, RecordOf(b).at)'
        BY <1>4 DEF Cools
      <4>3. \A s \in AllRecords(m)' : RecordOf(s)'.at >= RecordOf(b)'.at => RecordOf(s)'.status # "SUCCEEDED"
        BY <4>2 DEF NoSuccessSince
      <4>4. \A s \in AllRecords(m)' : RecordOf(s)'.at >= RecordOf(d)'.at => RecordOf(s)'.status # "SUCCEEDED"
        BY <4>1, <4>3
      <4> QED
        BY <3>1, <4>4 DEF NoSuccessSince
    <3>4. now <= RecordOf(d).at + Forget
      BY <1>0, <1>4, <3>1
    <3> QED
      BY <3>1, <3>2, <3>3, <3>4, NotedKept
  <2> QED
    BY <2>1, <2>2, <2>3
<1>5. ASSUME NEW b \in AllRecords(m)', NEW d \in AllRecords(m)' PROVE Rested(m, b, d)'
  <2>1. RecordOf(d)'.at \in Nat /\ RecordOf(d)'.at <= now
    BY <1>0
  <2> QED
    BY <1>0, <1>1, <1>4, <2>1 DEF Rested
<1> QED
  BY <1>2, <1>5 DEF Rests

\* A failure that does not count.
LEMMA OtherFailureRests ==
  ASSUME UNCHANGED health, now \in Nat, now' = now,
         NEW m \in Models, Rests(m), NEW a, NEW r,
         AllRecords(m)' \subseteq AllRecords(m) \cup {a},
         AllRecords(m) \subseteq AllRecords(m)',
         \A b \in AllRecords(m) : RecordOf(b)' = RecordOf(b),
         RecordOf(a)' = r, r.at = now, r.category \notin Penalized
  PROVE  Rests(m)'
<1>1. \A b \in AllRecords(m) :
        NoSuccessSince(m, RecordOf(b).at)' => NoSuccessSince(m, RecordOf(b).at)
  BY DEF NoSuccessSince
<1>2. ASSUME NEW b \in AllRecords(m)' PROVE RecordOf(b)'.at <= now' /\ Noted(m, b)'
  <2>1. CASE b \in AllRecords(m)
    BY <1>1, <2>1 DEF Rests, Noted
  <2>2. CASE b = a
    BY <2>2 DEF Noted
  <2> QED
    BY <2>1, <2>2
<1>3. ASSUME NEW b \in AllRecords(m)', NEW d \in AllRecords(m)' PROVE Rested(m, b, d)'
  <2>1. CASE b \in AllRecords(m) /\ d \in AllRecords(m)
    <3>1. Rested(m, b, d)
      BY <2>1 DEF Rests
    <3>2. Cools(m, b, d)' => Cools(m, b, d)
      BY <1>1, <2>1 DEF Cools
    <3> QED
      BY <2>1, <3>1, <3>2 DEF Rested
  <2>2. CASE b = a \/ d = a
    BY <2>2 DEF Rested, Cools
  <2> QED
    BY <2>1, <2>2
<1> QED
  BY <1>2, <1>3 DEF Rests

LEMMA WritesRests ==
  ASSUME HealthTyped, Cardinality(Models) <= Capacity, now \in Nat, now' = now,
         call \in [Calls -> CallState], \A d \in Calls : Within(call[d]),
         NEW c \in Calls, NEW r, Writes(c, r), NEW m \in Models, Rests(m)
  PROVE  Rests(m)'
<1>0. PICK n : n = Len(call[c].records) + 1
  OBVIOUS
<1> DEFINE a == [call |-> c, j |-> n]
<1>1. /\ AllRecords(m)' = AllRecords(m) \cup (IF r.model = m THEN {a} ELSE {})
      /\ a \notin AllRecords(m)
      /\ \A b \in AllRecords(m) : RecordOf(b)' = RecordOf(b)
      /\ RecordOf(a)' = r
  BY <1>0, NewRecord
<1> HIDE DEF a
<1>2. /\ r.at = now /\ r.model \in Models /\ r.category \in Categories \cup {"none"}
      /\ IF r.status = "SUCCEEDED" THEN r.category = "none" /\ Healed(r.model)
         ELSE Failed(r.model, r.category, now)
  BY DEF Writes, Record
<1>3. CASE r.status = "SUCCEEDED"
  <2>1. CASE r.model = m
    <3>1. \A b \in AllRecords(m) : RecordOf(b).at \in Nat /\ RecordOf(b).at <= now
      BY RecordType DEF Rests
    <3>2. \A b \in AllRecords(m)' : RecordOf(b)'.at \in Nat /\ RecordOf(b)'.at <= now
      BY <1>1, <1>2, <2>1, <3>1
    <3> QED
      BY <1>1, <1>2, <1>3, <2>1, <3>2, SuccessRests
  <2>2. CASE r.model # m
    <3>1. m \in Kept(now) => m \in DOMAIN health' /\ health'[m] = health[m]
      BY <1>2, <1>3, <2>2 DEF Healed, Kept
    <3>2. AllRecords(m)' = AllRecords(m)
      BY <1>1, <2>2
    <3> QED
      BY <1>1, <3>1, <3>2, OthersRest
  <2> QED
    BY <2>1, <2>2
<1>4. CASE r.status # "SUCCEEDED" /\ r.category \in Penalized
  <2>1. CASE r.model = m
    BY <1>1, <1>2, <1>4, <2>1, FailureRests
  <2>2. CASE r.model # m
    <3>1. m \in Kept(now) => m \in DOMAIN health' /\ health'[m] = health[m]
      BY <1>2, <1>4, <2>2, CountedKeeps
    <3>2. AllRecords(m)' = AllRecords(m)
      BY <1>1, <2>2
    <3> QED
      BY <1>1, <3>1, <3>2, OthersRest
  <2> QED
    BY <2>1, <2>2
<1>5. CASE r.status # "SUCCEEDED" /\ r.category \notin Penalized
  <2>1. UNCHANGED health
    BY <1>2, <1>5 DEF Failed
  <2> QED
    BY <1>1, <1>2, <1>5, <2>1, OtherFailureRests
<1> QED
  BY <1>3, <1>4, <1>5

\* Without a new record; the clock may advance.
LEMMA LeavesRests ==
  ASSUME UNCHANGED health, now \in Nat, now' \in Nat, now <= now',
         call \in [Calls -> CallState], NEW m, Rests(m),
         \A c \in Calls : call'[c].records = call[c].records
  PROVE  Rests(m)'
<1>1. AllRecords(m)' = AllRecords(m)
  BY DEF AllRecords
<1>2. \A b \in AllRecords(m) : RecordOf(b)' = RecordOf(b)
  BY DEF AllRecords, RecordOf
<1>3. \A b \in AllRecords(m) : RecordOf(b).at \in Nat
  BY RecordType
<1>4. \A b \in AllRecords(m) :
        NoSuccessSince(m, RecordOf(b).at)' <=> NoSuccessSince(m, RecordOf(b).at)
  BY <1>1, <1>2 DEF NoSuccessSince
<1>5. Forget \in Nat /\ Cooldown \in Nat
  BY HealthAssumption
<1>6. ASSUME NEW b \in AllRecords(m) PROVE RecordOf(b)'.at <= now' /\ Noted(m, b)'
  BY <1>2, <1>3, <1>4, <1>5 DEF Rests, Noted
<1>7. ASSUME NEW b \in AllRecords(m), NEW d \in AllRecords(m) PROVE Rested(m, b, d)'
  <2>1. Cools(m, b, d)' => Cools(m, b, d)
    BY <1>2, <1>4 DEF Cools
  <2>2. Rested(m, b, d)
    BY DEF Rests
  <2> QED
    BY <1>2, <1>3, <1>5, <2>1, <2>2 DEF Rested
<1> QED
  BY <1>1, <1>6, <1>7 DEF Rests

LEMMA RestInit ==
  ASSUME Init
  PROVE  RestInv
<1>1. \A c \in Calls : call[c].records = <<>> /\ call[c].cands = <<>>
  BY DEF Init, NewCall
<1>2. \A c \in Calls : Within(call[c])
  BY <1>1 DEF Within
<1>3. \A m \in Models : AllRecords(m) = {}
  BY <1>1 DEF AllRecords
<1>4. \A m \in Models : Rests(m)
  BY <1>3 DEF Rests
<1> QED
  BY <1>2, <1>4, TellInit DEF RestInv

LEMMA RestNext ==
  ASSUME RestInv, [Next]_vars
  PROVE  RestInv'
<1>1. TellInv' /\ TellInv
  BY TellNext DEF RestInv
<1>2. call \in [Calls -> CallState] /\ HealthTyped /\ now \in Nat /\ now' \in Nat
  BY <1>1, GenerationAssumption DEF TellInv, GenInv, TypeOK, HealthTyped
<1>3. \A c \in Calls : Within(call[c])
  BY DEF RestInv
<1>4. ASSUME NEW c \in Calls,
             \/ Admission(c) \/ Creation(c) \/ Streaming(c)
             \/ Saving(c) \/ Signals(c) \/ Settling(c)
      PROVE  /\ \A d \in Calls : Within(call'[d])
             /\ Cardinality(Models) <= Capacity => \A m \in Models : Rests(m)'
  <2>1. Leaves(c) \/ \E r : Writes(c, r)
    BY <1>1, <1>4, StepWrites
  <2>2. now' = now
    BY <1>1, <1>4, AttemptsStepHealth DEF TellInv
  <2>3. \A d \in Calls : Within(call'[d])
    <3>1. PICK y : Become(c, y) /\ Within(y)
      BY <1>2, <1>3, <2>1, WithinStep
    <3> QED
      BY <1>2, <1>3, <3>1 DEF Become
  <2>4. ASSUME Cardinality(Models) <= Capacity, NEW m \in Models PROVE Rests(m)'
    <3>1. Rests(m)
      BY <2>4 DEF RestInv
    <3>2. CASE Leaves(c)
      <4>1. UNCHANGED health
        BY <3>2 DEF Leaves
      <4>2. PICK y : Become(c, y) /\ y.records = call[c].records
        BY <3>2 DEF Leaves
      <4>3. \A d \in Calls : call'[d].records = call[d].records
        BY <1>2, <4>2 DEF Become
      <4> QED
        BY <1>2, <2>2, <3>1, <4>1, <4>3, LeavesRests
    <3>3. CASE \E r : Writes(c, r)
      BY <1>2, <1>3, <2>2, <2>4, <3>1, <3>3, WritesRests
    <3> QED
      BY <2>1, <3>2, <3>3
  <2> QED
    BY <2>3, <2>4
<1>5. ASSUME call' = call, UNCHANGED health, now <= now'
      PROVE  /\ \A d \in Calls : Within(call'[d])
             /\ Cardinality(Models) <= Capacity => \A m \in Models : Rests(m)'
  BY <1>2, <1>3, <1>5, LeavesRests DEF RestInv
<1>6. CASE Tick
  <2>1. call' = call /\ UNCHANGED health /\ now <= now'
    BY <1>2, <1>6 DEF Tick
  <2> QED
    BY <1>1, <1>5, <2>1 DEF RestInv
<1>7. CASE UNCHANGED vars
  <2>1. call' = call /\ UNCHANGED health /\ now <= now'
    BY <1>2, <1>7 DEF vars
  <2> QED
    BY <1>1, <1>5, <2>1 DEF RestInv
<1> QED
  BY <1>1, <1>4, <1>6, <1>7 DEF Next, Terminating, RestInv

THEOREM RestInvariant == Spec => []RestInv
<1>1. Init => RestInv
  BY RestInit
<1>2. RestInv /\ [Next]_vars => RestInv'
  BY RestNext
<1> QED
  BY <1>1, <1>2, PTL DEF Spec

(* Two failures of a model that count within the time to forget, or one    *)
(* rate limit, without a success since, keep it away for the cooldown:     *)
(* for any number of concurrent calls, as long as the map has room for all *)
(* the models.                                                             *)
THEOREM RestsIndeed == Spec => []RestsAfterFailures
<1>1. RestInv => RestsAfterFailures
  <2>1. SUFFICES ASSUME RestInv, Cardinality(Models) <= Capacity, NEW m \in Models,
                        NEW a \in AllRecords(m), NEW b \in AllRecords(m), Cools(m, a, b),
                        now < RecordOf(b).at + Cooldown
                 PROVE  ~Available(m, now)
    BY DEF RestsAfterFailures, Cools
  <2>2. Rested(m, a, b)
    BY <2>1 DEF RestInv, Rests
  <2>3. /\ call \in [Calls -> CallState] /\ now \in Nat
        /\ health \in [DOMAIN health -> Entry]
    BY <2>1, GenerationAssumption DEF RestInv, TellInv, GenInv, TypeOK
  <2>4. m \in DOMAIN health /\ health[m].until >= RecordOf(b).at + Cooldown
    BY <2>1, <2>2 DEF Rested
  <2>5. RecordOf(b).at \in Nat /\ Cooldown \in Nat /\ health[m].until \in Nat
    BY <2>3, <2>4, RecordType, HealthAssumption DEF Entry
  <2> QED
    BY <2>1, <2>3, <2>4, <2>5 DEF Available
<1> QED
  BY <1>1, RestInvariant, PTL

================================================================================
