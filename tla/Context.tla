------------------------------- MODULE Context -------------------------------
(***************************************************************************)
(* What a model is told of a conversation: the first half of generate() in *)
(* chat.service.ts and context.ts, over the messages that the requests of  *)
(* the conversation write, several of which may be under way.              *)
(*                                                                         *)
(* A text is the words that matter of it and the chunks it is cut into;    *)
(* a word that is cut through is in neither chunk.                         *)
(***************************************************************************)
EXTENDS Integers, Sequences, FiniteSets, FiniteSetsExt, Functions

CONSTANTS
  Requests,       \* requests of the conversation
  Contents,          \* what users and models write
  Instructions,   \* length of the instructions of the project
  Material,       \* its reference material, a text
  ProjectChars,   \* projectContextChars of the plan
  Verbatim,       \* messages told word for word: 8
  Recent,         \* messages looked at: 100
  OlderChars,     \* room for excerpts of the earlier ones: 2000
  Endings         \* how answers may end, with the text they have by then

Finished == {"SUCCEEDED", "FAILED", "CANCELLED", "INTERRUPTED"}

ASSUME ContextAssumption ==
  /\ {Instructions, ProjectChars, Verbatim, Recent, OlderChars} \subseteq Nat
  /\ \A text \in Contents \cup {Material} :
       /\ IsFiniteSet(text.terms) /\ Len(text.chunks) \in Nat
       /\ DOMAIN text.chunks = 1..Len(text.chunks)
       /\ \A c \in DOMAIN text.chunks : text.chunks[c].size \in Nat \ {0}
  /\ Endings \subseteq Finished \X Contents

VARIABLES
  thread,   \* Message rows, in the order of their creation
  request   \* where each request stands, and the prompt it has made

talk == <<thread, request>>

NoText   == [terms |-> {}, chunks |-> <<>>]
\* `told` is what history was when the prompt was made, for the properties.
NoPrompt == [told |-> <<>>, turns |-> <<>>, older |-> <<>>, reference |-> <<>>]
NewRequest == [pc |-> "idle", text |-> NoText, again |-> 0, prompt |-> NoPrompt]

Moves(r, v) == request' = [request EXCEPT ![r] = v]

\* The members of S in the order R.
Listed(S, R) ==
  [n \in 1..Cardinality(S) |-> CHOOSE x \in S : Cardinality({y \in S : <<y, x>> \in R}) = n - 1]
InOrder(S) == Listed(S, {p \in S \X S : p[1] < p[2]})

----------------------------------------------------------------------------
(* relevantContext: the chunks with most of the query's words, in order of *)
(* their number of them, as long as there is room.  A piece ends with a    *)
(* line break, and the last one may be cut.                                *)

Score(query, chunk) == Cardinality(query \cap chunk.terms)

\* The chunks of documents, each with its place: which document, which chunk.
ChunksOf(documents) ==
  UNION {{[of |-> documents[d].of, nth |-> c, chunk |-> documents[d].text.chunks[c]] :
            c \in DOMAIN documents[d].text.chunks} : d \in DOMAIN documents}

Earlier(a, b) == a.of < b.of \/ (a.of = b.of /\ a.nth < b.nth)

Better(query, a, b) ==
  \/ Score(query, a.chunk) > Score(query, b.chunk)
  \/ Score(query, a.chunk) = Score(query, b.chunk) /\ Earlier(a, b)

Found(query, documents) == {x \in ChunksOf(documents) : Score(query, x.chunk) > 0}

Ranked(query, documents) ==
  LET found == Found(query, documents)
  IN  Listed(found, {p \in found \X found : Better(query, p[1], p[2])})

Lengths(pieces) ==
  LET sum[n \in 0..Len(pieces)] == IF n = 0 THEN 0 ELSE sum[n - 1] + pieces[n].size + 1
  IN  sum

Length(pieces) == Lengths(pieces)[Len(pieces)]

Take(pieces, x, budget) ==
  LET remaining == budget - Length(pieces) IN
    IF remaining <= 1 THEN pieces
    ELSE Append(pieces, [of |-> x.of, nth |-> x.nth,
                         size |-> Min({x.chunk.size, remaining - 1})])

Taken(ranked, budget) ==
  LET taken[n \in 0..Len(ranked)] ==
        IF n = 0 THEN <<>> ELSE Take(taken[n - 1], ranked[n], budget)
  IN  taken

RelevantContext(query, documents, budget) ==
  LET ranked == Ranked(query, documents) IN Taken(ranked, budget)[Len(ranked)]

----------------------------------------------------------------------------
(* The prompt of a request.                                                *)

LastOf(n, seq) == SubSeq(seq, IF Len(seq) > n THEN Len(seq) - n + 1 ELSE 1, Len(seq))

\* Messages by their place in the thread.
History ==
  LastOf(Recent, InOrder({j \in DOMAIN thread : thread[j].status \in Finished}))

\* The text and the history of a request that is to answer message `again` anew.
Place(history, again) == CHOOSE j \in DOMAIN history : history[j] = again

Retriable(history, again) ==
  /\ \E j \in DOMAIN history : j > 1 /\ history[j] = again
  /\ thread[again].role = "assistant"
  /\ thread[history[Place(history, again) - 1]].role = "user"

\* Mutant: the question is told as well as asked.
UpToQuestion(history, again) ==
  IF again = 0 THEN history ELSE SubSeq(history, 1, Place(history, again) - 1)

UpTo(history, again) ==
  IF again = 0 THEN history ELSE SubSeq(history, 1, Place(history, again) - 2)

TextOf(history, text, again) ==
  IF again = 0 THEN text ELSE thread[history[Place(history, again) - 1]].text

\* A message among excerpts begins with the name of its role.
Labelled(m) ==
  [terms |-> m.text.terms,
   chunks |-> [c \in DOMAIN m.text.chunks |->
                 LET chunk == m.text.chunks[c]
                 IN  [terms |-> IF c = 1 THEN chunk.terms \cup {m.role} ELSE chunk.terms,
                      size  |-> chunk.size]]]

Succeeded(history) == InOrder({j \in Range(history) : thread[j].status = "SUCCEEDED"})

Former(history) ==
  LET early == SubSeq(history, 1, Len(history) - Verbatim)
  IN  [d \in DOMAIN early |-> [of |-> early[d], text |-> Labelled(thread[early[d]])]]

Older(history, text) == RelevantContext(text.terms, Former(history), OlderChars)

TheMaterial == <<[of |-> 0, text |-> Material]>>

ProjectBudget ==
  IF ProjectChars > Instructions THEN ProjectChars - Instructions ELSE 0

Reference(text) == RelevantContext(text.terms, TheMaterial, ProjectBudget)

Compose(r, text, again) ==
  /\ request[r].pc = "idle"
  /\ again # 0 => again \in DOMAIN thread
  /\ IF again # 0 /\ ~Retriable(History, again)
     THEN Moves(r, [request[r] EXCEPT !.pc = "refused"])
     ELSE LET asked == TextOf(History, text, again)
              told == Succeeded(UpTo(History, again))
          IN  Moves(r, [pc |-> "composed", text |-> asked, again |-> again,
                        prompt |-> [told |-> told,
                                    turns |-> LastOf(Verbatim, told),
                                    older |-> Older(told, asked),
                                    reference |-> Reference(asked)]])
  /\ UNCHANGED thread

(***************************************************************************)
(* The rows of the request: its question, its answer, and how that ended.  *)
(***************************************************************************)
Message(r, role, status, text) == [of |-> r, role |-> role, status |-> status, text |-> text]

SaveQuestion(r) ==
  /\ request[r].pc = "composed"
  /\ thread' = Append(thread, Message(r, "user", "SUCCEEDED", request[r].text))
  /\ Moves(r, [request[r] EXCEPT !.pc = "asked"])

SaveAnswer(r) ==
  /\ request[r].pc = "asked"
  /\ thread' = Append(thread, Message(r, "assistant", "RESERVED", NoText))
  /\ Moves(r, [request[r] EXCEPT !.pc = "reserved"])

\* reserve() refuses, or a row cannot be written.
GiveUp(r) ==
  /\ request[r].pc \in {"composed", "asked"}
  /\ Moves(r, [request[r] EXCEPT !.pc = "over"])
  /\ UNCHANGED thread

EndAnswer(r, status, text) ==
  /\ request[r].pc = "reserved"
  /\ \E j \in DOMAIN thread :
       /\ thread[j].of = r /\ thread[j].role = "assistant"
       /\ thread' = [thread EXCEPT ![j] = Message(r, "assistant", status, text)]
  /\ Moves(r, [request[r] EXCEPT !.pc = "over"])

-----------------------------------------------------------------------------
ContextInit == thread = <<>> /\ request = [r \in Requests |-> NewRequest]

ContextNext ==
  \E r \in Requests :
    \/ \E text \in Contents, again \in 0..Len(thread) : Compose(r, text, again)
    \/ SaveQuestion(r) \/ SaveAnswer(r) \/ GiveUp(r)
    \/ \E e \in Endings : EndAnswer(r, e[1], e[2])

ContextSpec == ContextInit /\ [][ContextNext]_talk

(***************************************************************************)
(* What RelevantContext is to return, said without an order of steps:      *)
(* pieces of different chunks that contain words of the query, within the  *)
(* budget; cut short at most at the end, when the room was used up; and a  *)
(* chunk that was left out is no better than those that were taken.        *)
(***************************************************************************)
Excerpts(query, documents, budget, pieces) ==
  LET all == ChunksOf(documents)
      room == budget - Length(pieces)
      Same(a, b) == a.of = b.of /\ a.nth = b.nth
      taken == {x \in all : \E j \in DOMAIN pieces : Same(pieces[j], x)}
  IN  /\ \A i, j \in DOMAIN pieces : i # j => ~Same(pieces[i], pieces[j])
      /\ \A j \in DOMAIN pieces : \E x \in all :
           /\ Same(pieces[j], x) /\ Score(query, x.chunk) > 0
           /\ \/ pieces[j].size = x.chunk.size
              \/ pieces[j].size < x.chunk.size /\ j = Len(pieces) /\ room = 0
      /\ pieces # <<>> => Length(pieces) <= budget
      /\ \A x \in all \ taken : Score(query, x.chunk) > 0 =>
           room <= 1 /\ \A y \in taken : Score(query, y.chunk) >= Score(query, x.chunk)

\* Two requests of which each began before the other had its answer's row.
Overlaps(r) ==
  \E i, j, k \in DOMAIN thread :
    /\ i < j /\ j < k
    /\ thread[i].of = r /\ thread[k].of = r /\ thread[j].of # r

QuestionOf(r) ==
  LET j == CHOOSE i \in DOMAIN thread : thread[i].of = r /\ thread[i].role = "user"
  IN  thread[j].text

(***************************************************************************)
(* What a prompt tells of the conversation (generate()).  It tells only of *)
(* messages that have succeeded, and of each once: the last ones word for  *)
(* word and in order, of earlier ones the excerpts that fit best, and of   *)
(* those before the `Recent` last nothing.  "No conversation history is    *)
(* silently truncated" (docs/auto-routing.md) is therefore not true of it: *)
(* this says what is told, and not that it is all.  Instructions and       *)
(* material of the project stay within what the plan allows.  An answer is *)
(* tried again with a question from before it, which is neither told as    *)
(* well nor followed by anything told.  It is the answer's own question,   *)
(* unless another request wrote rows between the two: the code then asks   *)
(* what the other had asked, and for that this makes no claim.             *)
(***************************************************************************)
PromptOK(r) ==
  LET p == request[r].prompt  text == request[r].text  again == request[r].again
      quoted == {p.older[j].of : j \in DOMAIN p.older}
  IN  /\ \A j \in DOMAIN p.told :
           /\ thread[p.told[j]].status = "SUCCEEDED" /\ thread[p.told[j]].of # r
           /\ j > 1 => p.told[j - 1] < p.told[j]
      /\ p.turns = LastOf(Verbatim, p.told)
      /\ Range(p.turns) \cap quoted = {}
      /\ Excerpts(text.terms, Former(p.told), OlderChars, p.older)
      /\ Length(p.reference) + Min({Instructions, ProjectChars}) <= ProjectChars
      /\ Excerpts(text.terms, TheMaterial, ProjectBudget, p.reference)
      /\ again # 0 =>
           /\ \E q \in 1..(again - 1) :
                /\ thread[q].role = "user" /\ text = thread[q].text
                /\ \A j \in DOMAIN p.told : p.told[j] < q
           /\ ~Overlaps(thread[again].of) =>
                /\ text = QuestionOf(thread[again].of)
                /\ \A j \in DOMAIN p.told : thread[p.told[j]].of # thread[again].of

PromptsRight ==
  \A r \in Requests : request[r].pc \notin {"idle", "refused"} => PromptOK(r)

=============================================================================
