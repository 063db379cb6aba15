------------------------------- MODULE Routing -------------------------------
(***************************************************************************)
(* From the price a client is shown to the list of models its request may  *)
(* call, while administrators edit models and policies: usage() of         *)
(* quota.service.ts, the first half of generate() in chat.service.ts, and  *)
(* registry.service.ts.  What follows the choice is module Generation.     *)
(***************************************************************************)
EXTENDS Generation, Credits, Functions

CONSTANTS
  Order,         \* the models by identifier, which breaks ties
  ModelEdits,    \* a model and the row that saveModel() is asked to write
  PolicyEdits,   \* a bucket and the row that savePolicy() is asked to write
  FirstModels,   \* AIModel rows at the start
  FirstPolicies, \* GenerationPolicy rows of the user's plan at the start
  Connected,     \* providers with credentials
  Tokens,        \* estimated context of a request
  Tasks,         \* what requests ask for and what the rules match in them
  Editors,       \* requests of administrators
  MaxEdits       \* bound: edits

Providers    == {"OPENAI", "GOOGLE", "ANTHROPIC", "MISTRAL"}
Capabilities == {"text", "vision", "files", "image_generation", "tools"}
Buckets      == {"AUTO"} \cup Models

\* `capabilities` leaves out those marked UNAVAILABLE; a price of zero for
\* images is one that is not configured.
AIModel ==
  [provider : Providers, enabled : BOOLEAN, maintenance : BOOLEAN,
   manualAvailable : BOOLEAN, autoAvailable : BOOLEAN, capabilities : SUBSET Capabilities,
   qualityTier : 1..4, routingPriority : Nat, routingCostScore : Nat,
   inputPrice : Nat, cachedInputPrice : Nat, cacheWriteInputPrice : Nat,
   outputPrice : Nat, imageBudget : Nat, currency : {"USD"}, creditCost : Nat \ {0},
   maxContext : Nat \ {0}, maxOutput : Nat \ {0}, fallbackId : Models \cup {Nobody}]

GenerationPolicy ==
  [enabled : BOOLEAN, allowedFeatures : SUBSET {"chat", "image"},
   allowedModelIds : SUBSET Models, maxAttempts : 1..5, minimumQualityTier : 1..4,
   costWeight : Nat, creditCost : Nat \ {0}, imageCreditCost : Nat,
   maxContext : Nat \ {0}, maxOutput : Nat \ {0}]

\* `capabilities` is what files and the feature need; the rest, what the rules
\* of Auto ask for when they match the text.
Task == [feature : {"chat", "image", "document"}, capabilities : SUBSET Capabilities,
         matched : SUBSET Capabilities, qualityTier : 1..4]

ASSUME RoutingAssumption ==
  /\ Order \in Seq(Models) /\ Range(Order) = Models
  /\ \A x \in ModelEdits : x[1] \in Models /\ x[2] \in AIModel
  /\ \A x \in PolicyEdits : x[1] \in Buckets /\ x[2] \in GenerationPolicy
  /\ FirstModels \in [Models -> AIModel] /\ FirstPolicies \in [Buckets -> GenerationPolicy]
  /\ Connected \subseteq Providers /\ Tokens \in Nat /\ MaxEdits \in Nat
  /\ Modes # {} /\ Tasks # {}
  /\ \A task \in Tasks : task \in Task /\ task.feature \in Features
  /\ \A n \in 1..Cardinality(Models) : \A s \in [1..n -> Models] :
       IsInjective(s) => s \in Rankings

VARIABLES
  aiModel,   \* AIModel rows
  policies,  \* GenerationPolicy rows of the plan, by bucket
  ask,       \* what the client and generate() know before the choice
  edit,      \* requests of administrators between two awaits
  edits      \* edits so far

registry == <<aiModel, policies, edit, edits>>
requests == <<now, call, health, older, ask>>

\* `policy` is what generate() has read; `price`, the credits it reserves, and
\* `bound`, what all its attempts may cost, are kept for the properties.
Ask == [pc : {"away", "shown", "asked", "sent", "refused"},
        mode : Modes, target : Models \cup {Nobody}, task : Tasks, maxCredits : Nat,
        policy : GenerationPolicy, price : Nat, bound : Nat]

Bucket(a)  == IF a.mode = "AUTO" THEN "AUTO" ELSE a.target
Feature(a) == IF a.task.feature = "image" THEN "image" ELSE "chat"
Asks(c, a) == ask' = [ask EXCEPT ![c] = a]

----------------------------------------------------------------------------
(* The registry: which models there are and which fit a request. *)

SupportsCapability(model, capability) ==
  /\ capability # "tools"
  /\ capability = "files" => model.provider # "MISTRAL"
  /\ capability = "image_generation" => model.provider # "ANTHROPIC" /\ model.imageBudget > 0
  /\ capability \in model.capabilities

InService(rows) ==   \* available()
  {m \in Models : rows[m].enabled /\ ~rows[m].maintenance /\ rows[m].provider \in Connected}

Suits(model, policy, required) ==
  /\ Tokens + policy.maxOutput <= model.maxContext
  /\ \A n \in required : SupportsCapability(model, n)

Spend(model, policy) == Tokens * model.inputPrice + policy.maxOutput * model.outputPrice

Fit(rows, permitted, policy, task) ==
  {m \in permitted :
     /\ Suits(rows[m], policy, task.capabilities \cup task.matched)
     /\ rows[m].qualityTier >= Larger(policy.minimumQualityTier, task.qualityTier)}

Rank(rows, policy, m) ==
  << IF policy.costWeight > 0 THEN Spend(rows[m], policy) ELSE 0,
     rows[m].routingCostScore, - rows[m].routingPriority,
     CHOOSE j \in DOMAIN Order : Order[j] = m >>

Precedes(rows, policy, a, b) ==
  LET x == Rank(rows, policy, a)
      y == Rank(rows, policy, b)
  IN  \E j \in 1..4 : x[j] < y[j] /\ \A i \in 1..(j - 1) : x[i] = y[i]

RankModels(rows, permitted, policy, task) ==
  LET fit == Fit(rows, permitted, policy, task)
  IN  CHOOSE s \in [1..Cardinality(fit) -> fit] :
        \A i, j \in DOMAIN s : i < j => Precedes(rows, policy, s[i], s[j])

\* The explicit fallback of the first model follows it, if it is ranked at all.
\* Faulty variant: the fallback need not be ranked.
FallbackAlways(rows, ranked) ==
  IF ranked = <<>> \/ rows[Head(ranked)].fallbackId = Nobody THEN ranked
  ELSE LET next == rows[Head(ranked)].fallbackId
       IN  <<Head(ranked), next>> \o SelectSeq(Tail(ranked), LAMBDA m : m # next)
WithFallback(rows, ranked) ==
  IF \A k \in 2..Len(ranked) : ranked[k] # rows[ranked[1]].fallbackId THEN ranked
  ELSE LET k == CHOOSE k \in 2..Len(ranked) : ranked[k] = rows[ranked[1]].fallbackId
           From(j) == IF j = 1 \/ j > k THEN j ELSE IF j = 2 THEN k ELSE j - 1
       IN  [j \in DOMAIN ranked |-> ranked[From(j)]]

Permitted(rows, a) ==
  LET offered == InService(rows)
  IN  IF a.mode = "AUTO"
      THEN {m \in offered \cap a.policy.allowedModelIds :
              Available(m, now) /\ rows[m].autoAvailable}
      ELSE {m \in offered \cap {a.target} : rows[m].manualAvailable}

Candidates(rows, a) ==
  IF a.mode = "AUTO"
  THEN AffordableCandidates(rows,
         WithFallback(rows, RankModels(rows, Permitted(rows, a), a.policy, a.task)),
         a.policy, Feature(a))
  ELSE IF a.target \in Permitted(rows, a) /\ Suits(rows[a.target], a.policy, a.task.capabilities)
       THEN <<a.target>> ELSE <<>>

Price(rows, a) ==
  IF a.mode = "AUTO" THEN AutoCredits(a.policy, Feature(a))
  ELSE ModelCredits(rows[a.target], a.policy, Feature(a))

Bounds(rows, cands, a) ==
  LET sum[k \in 0..Len(cands)] ==
        IF k = 0 THEN 0
        ELSE sum[k - 1] + RequestCostBound(rows[cands[k]], a.policy, Feature(a))
  IN  sum

SumOfBounds(rows, cands, a) == Bounds(rows, cands, a)[Len(cands)]

----------------------------------------------------------------------------
(* A request: the price is shown, the policies are read, models are chosen. *)

Show(c, mode, target, task) ==
  /\ ask[c].pc = "away"
  /\ (mode = "AUTO") <=> (target = Nobody)
  /\ LET a == [ask[c] EXCEPT !.pc = "shown", !.mode = mode, !.target = target, !.task = task]
         q == [a EXCEPT !.policy = policies[Bucket(a)]]
     IN  /\ q.policy.enabled /\ Feature(q) \in q.policy.allowedFeatures
         /\ Price(aiModel, q) # NoPrice
         /\ Asks(c, [a EXCEPT !.maxCredits = Price(aiModel, q)])
  /\ UNCHANGED <<now, call, health, older, registry>>

ReadPolicies(c) ==
  /\ ask[c].pc = "shown"
  /\ LET p == policies[Bucket(ask[c])]
     IN  Asks(c, IF p.enabled /\ Feature(ask[c]) \in p.allowedFeatures
                 THEN [ask[c] EXCEPT !.pc = "asked", !.policy = p]
                 ELSE [ask[c] EXCEPT !.pc = "refused"])
  /\ UNCHANGED <<now, call, health, older, registry>>

WithinCeiling(a, price) == price <= a.maxCredits

ChooseModels(c) ==
  /\ ask[c].pc = "asked"
  /\ LET a     == ask[c]
         cands == Candidates(aiModel, a)
         price == Price(aiModel, a)
     IN  IF /\ Tokens + a.policy.maxOutput <= a.policy.maxContext
            /\ cands # <<>> /\ price # NoPrice /\ WithinCeiling(a, price)
         THEN /\ Asks(c, [a EXCEPT !.pc = "sent", !.price = price,
                                 !.bound = SumOfBounds(aiModel, cands, a)])
              /\ Become(c, [call[c] EXCEPT !.phase = "chosen", !.mode = a.mode,
                              !.feature = a.task.feature, !.cands = cands])
         ELSE Asks(c, [a EXCEPT !.pc = "refused"]) /\ UNCHANGED call
  /\ UNCHANGED <<now, health, older, registry>>

----------------------------------------------------------------------------
(* Administrators.  What a row refers to is read before the transaction     *)
(* that writes it.                                                          *)

NoEdit == [pc |-> "idle"]

SaveModel(e, m, row) ==
  /\ edit[e] = NoEdit /\ edits < MaxEdits
  /\ row.fallbackId # m
  /\ "image_generation" \in row.capabilities => row.provider # "ANTHROPIC"
  /\ edit' = [edit EXCEPT ![e] = [pc |-> "model", id |-> m, row |-> row]]
  /\ edits' = edits + 1
  /\ UNCHANGED <<requests, aiModel, policies>>

WriteModel(e) ==
  /\ edit[e].pc = "model"
  /\ aiModel' = [aiModel EXCEPT ![edit[e].id] = edit[e].row]
  /\ edit' = [edit EXCEPT ![e] = NoEdit]
  /\ UNCHANGED <<requests, policies, edits>>

SavePolicy(e, b, row) ==
  /\ edit[e] = NoEdit /\ edits < MaxEdits
  /\ edit' = [edit EXCEPT ![e] = [pc |-> "policy", id |-> b, row |-> row]]
  /\ edits' = edits + 1
  /\ UNCHANGED <<requests, aiModel, policies>>

WritePolicy(e) ==
  /\ edit[e].pc = "policy"
  /\ policies' = [policies EXCEPT ![edit[e].id] = edit[e].row]
  /\ edit' = [edit EXCEPT ![e] = NoEdit]
  /\ UNCHANGED <<requests, aiModel, edits>>

----------------------------------------------------------------------------
RoutingInit ==
  /\ Init
  /\ aiModel = FirstModels /\ policies = FirstPolicies
  /\ ask = [c \in Calls |->
              [pc |-> "away", mode |-> CHOOSE mode \in Modes : TRUE, target |-> Nobody,
               task |-> CHOOSE task \in Tasks : TRUE, maxCredits |-> 0,
               policy |-> FirstPolicies["AUTO"], price |-> 0, bound |-> 0]]
  /\ edit = [e \in Editors |-> NoEdit] /\ edits = 0

Asking(c) ==
  \/ \E mode \in Modes, target \in Models \cup {Nobody}, task \in Tasks :
       Show(c, mode, target, task)
  \/ ReadPolicies(c) \/ ChooseModels(c)

Editing(e) ==
  \/ \E x \in ModelEdits : SaveModel(e, x[1], x[2])
  \/ \E x \in PolicyEdits : SavePolicy(e, x[1], x[2])
  \/ WriteModel(e) \/ WritePolicy(e)

\* What follows the choice: module Generation without its Choose.
Attempting ==
  \/ \E c \in Calls : \/ Reserved(c) \/ Refused(c) \/ Creation(c) \/ Streaming(c)
                      \/ Saving(c) \/ Signals(c) \/ Settling(c)
  \/ Tick
  \/ Terminating

RoutingNext ==
  \/ \E c \in Calls : Asking(c)
  \/ \E e \in Editors : Editing(e)
  \/ Attempting /\ UNCHANGED <<registry, ask>>

RoutingSpec == RoutingInit /\ [][RoutingNext]_<<requests, registry>>

----------------------------------------------------------------------------
(* Properties. *)

(* "The sum of the estimated bounds of every possible attempt must fit the *)
(* quote", and "the client's maxCredits ceiling prevents silently exceeding *)
(* the displayed price" (docs/credit-design.md): whatever administrators   *)
(* change after a client was shown the price, it pays no more, and what it *)
(* pays funds all the models that its request may call.                    *)
BudgetCovers ==
  \A c \in Calls : ask[c].pc = "sent" =>
    ask[c].bound <= ask[c].price * Budget /\ ask[c].price <= ask[c].maxCredits

(* A choice from the registry, with its ranking, fallback and budget, is   *)
(* one that module Generation allows: different models, and for Auto only  *)
(* ones that do not rest; "an explicit fallback cannot bypass these        *)
(* filters" (docs/auto-routing.md).                                        *)
ChoosesWell == Spec

=============================================================================
