------------------------------ MODULE MCService ------------------------------
(* Values of the constants of Routing, Providers and Context for model checking. *)
EXTENDS Routing, Providers, Context, TLC

CONSTANTS m1, m2, q1, q2, q3

MCOrder == <<m1, m2>>

MCModel(fallback) ==
  [provider |-> "OPENAI", enabled |-> TRUE, maintenance |-> FALSE,
   manualAvailable |-> TRUE, autoAvailable |-> TRUE, capabilities |-> {"text"},
   qualityTier |-> 1, routingPriority |-> 0, routingCostScore |-> 0,
   inputPrice |-> 1, cachedInputPrice |-> 0, cacheWriteInputPrice |-> 0,
   outputPrice |-> 1, imageBudget |-> 0, currency |-> "USD", creditCost |-> 1,
   maxContext |-> 4, maxOutput |-> 2, fallbackId |-> fallback]

MCDear(fallback) == [MCModel(fallback) EXCEPT !.inputPrice = 2, !.outputPrice = 2]
MCAway(fallback) == [MCModel(fallback) EXCEPT !.maintenance = TRUE]

MCModelEdits == {<<m1, MCDear(Nobody)>>, <<m2, MCDear(Nobody)>>, <<m2, MCAway(Nobody)>>}

MCPolicy(credits) ==
  [enabled |-> TRUE, allowedFeatures |-> {"chat"}, allowedModelIds |-> {m1, m2},
   maxAttempts |-> 2, minimumQualityTier |-> 1, costWeight |-> 1,
   creditCost |-> credits, imageCreditCost |-> 0, maxContext |-> 2, maxOutput |-> 1]

MCPolicyEdits == {<<"AUTO", MCPolicy(2)>>, <<m1, MCPolicy(2)>>}

MCFirstModels   == [m \in Models |-> IF m = m1 THEN MCModel(m2) ELSE MCModel(Nobody)]
MCFirstPolicies == [b \in Buckets |-> MCPolicy(1)]
MCTasks    == {[feature |-> "chat", capabilities |-> {"text"}, matched |-> {}, qualityTier |-> 1]}
MCRankings == {<<m1>>, <<m2>>, <<m1, m2>>, <<m2, m1>>}
MCSymmetry == Permutations(Calls)

\* Prices, policies and edits commute with the attempts, which read the rows
\* that were chosen: they come first; attempts follow when every client has
\* asked of Auto and without an edit.  A refused call is as good as one that
\* never chose, a lost one as good as one that ended.
MCChoiceFirst ==
  /\ \A c \in Calls : call'[c].phase \notin {"refused", "lost"}
  /\ UNCHANGED <<registry, ask>> =>
       edits = 0 /\ \A c \in Calls : ask[c].pc \in {"asked", "sent"} /\ ask[c].mode = "AUTO"
  /\ UNCHANGED call /\ ~UNCHANGED <<registry, ask>> =>
       \A c \in Calls : call[c].phase \in {"idle", "chosen"} /\ now = 0

MCBill == [input |-> 2, cached |-> 1, written |-> 0, output |-> 3]
MCBillWritten == [MCBill EXCEPT !["written"] = 1]

MCPrices == [input |-> 2, cached |-> 1, written |-> 3, output |-> 5]
Ev(images, end, usage) == [images |-> images, end |-> end, usage |-> usage]

\* The ways in which vendors report: all at once, as a running total, or input
\* first and output at the end.
MCEvents(vendor, images, end) ==
  CASE vendor = "ANTHROPIC" ->
         << Ev(0, "no", [input |-> 2, cached |-> 1, written |-> 1, output |-> 1]),
            Ev(0, "no", NoReport),
            Ev(0, "no", [output |-> 3]), Ev(0, end, NoReport) >>
    [] vendor = "GOOGLE" ->
         << Ev(images, "no", [input |-> 3, cached |-> 1, output |-> 1]),
            Ev(0, end, [input |-> 3, cached |-> 1, output |-> 3]) >>
    [] vendor = "OPENAI" ->
         << Ev(0, "no", NoReport),
            Ev(images, end, [input |-> 3, cached |-> 1, output |-> 3]) >>
    [] OTHER ->
         << Ev(images, "no", NoReport), Ev(0, end, [input |-> 3, output |-> 3]) >>

MCReply(vendor, image, capable, pdf, crlf, images, end) ==
  [vendor |-> vendor, image |-> image, capable |-> capable, pdf |-> pdf, crlf |-> crlf,
   fee |-> IF image \/ (vendor = "GOOGLE" /\ capable) THEN images ELSE 0,
   events |-> MCEvents(vendor, images, end),
   bill |-> CASE vendor = "ANTHROPIC" -> MCBillWritten
              [] vendor = "MISTRAL" -> [MCBill EXCEPT !["input"] = 3, !["cached"] = 0]
              [] OTHER -> MCBill]

MCReplies ==
  {MCReply(vendor, image, capable, pdf, crlf, images, end) :
     vendor \in Vendors, image \in BOOLEAN, capable \in BOOLEAN, pdf \in BOOLEAN, crlf \in BOOLEAN,
     images \in {0, 2}, end \in EventEnds}

MCChunk(terms, size) == [terms |-> terms, size |-> size]
MCText(terms, chunks) == [terms |-> terms, chunks |-> chunks]

MCShort == MCText({"x"}, <<MCChunk({"x"}, 2)>>)
MCLong  == MCText({"x", "y"}, <<MCChunk({"y"}, 2), MCChunk({"x", "y"}, 1)>>)
MCTexts == {MCShort, MCLong}
MCEndings == {<<"SUCCEEDED", MCLong>>, <<"FAILED", MCShort>>}

MCMaterial == MCText({"x", "y"}, <<MCChunk({"x"}, 2), MCChunk({}, 2), MCChunk({"x", "y"}, 1)>>)

\* One request is as good as another: they begin in the order of their names.
MCInTurn ==
  /\ request'[q2].pc # "idle" => request'[q1].pc # "idle"
  /\ request'[q3].pc # "idle" => request'[q2].pc # "idle"

\* The stream of an attempt sees nothing of its call but the signal of its end,
\* and a prompt is made of the conversation alone: they are checked one at a
\* time.
MCInit == RoutingInit /\ StreamInit /\ ContextInit

MCNext ==
  \/ ContextInit /\ reading.pc = "idle" /\ RoutingNext /\ MCChoiceFirst
     /\ UNCHANGED <<streamVars, talk>>
  \/ ContextInit /\ RoutingInit /\ StreamNext /\ UNCHANGED <<requests, registry, talk>>
  \/ reading.pc = "idle" /\ RoutingInit /\ ContextNext /\ MCInTurn
     /\ UNCHANGED <<requests, registry, streamVars>>

MCSpec == MCInit /\ [][MCNext]_<<requests, registry, streamVars, talk>>
=============================================================================
