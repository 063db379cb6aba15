------------------------------ MODULE Providers ------------------------------
(***************************************************************************)
(* One attempt at a vendor's API, providers.ts: the request, the events of *)
(* the stream however the network cuts it into chunks, the callbacks that  *)
(* they cause, and the tokens and the cost that are recorded.              *)
(*                                                                         *)
(* An event is abstracted to what the adapters take from it: images, a     *)
(* report of tokens, and whether it ends the answer.  Its text is passed   *)
(* on at once (Delta of module Generation).                                *)
(***************************************************************************)
EXTENDS Integers, Sequences

CONSTANTS
  Vendors,    \* that are asked
  Replies,    \* what they may send
  Prices,     \* of the model, by kind of token
  NoReport    \* an event without usage

Kinds     == {"input", "cached", "written", "output"}
EventEnds == {"no", "final", "error"}

\* A symbol of the wire is the number of an event (a line `data:`), a note (any
\* other line), or a part of the end of a line, which is LF or CR LF.
Note == 0
CR   == -1
LF   == -2

Event == [images : 0..2, end : EventEnds,
          usage : {NoReport} \cup UNION {[K -> Nat] : K \in SUBSET Kinds}]

\* `image`: an image was asked for; `capable`: the model can make one; `bill` are
\* the tokens that the vendor charges for, and `fee` what it charges beside them.
Reply == [vendor : Vendors, image : BOOLEAN, capable : BOOLEAN, pdf : BOOLEAN,
          crlf : BOOLEAN, events : Seq(Event), bill : [Kinds -> Nat], fee : Nat]

Of(report, k) == IF k \in DOMAIN report THEN report[k] ELSE 0

\* What the first n events tell of a kind of token: the last report does, and
\* from Anthropic the last one that has it.
Telling(r, n, k) ==
  {j \in 1..n : /\ r.events[j].usage # NoReport
                /\ r.vendor = "ANTHROPIC" => k \in DOMAIN r.events[j].usage}
Latest(S) == CHOOSE j \in S : \A i \in S : i <= j
Reported(r, n, k) ==
  IF Telling(r, n, k) = {} THEN 0 ELSE Of(r.events[Latest(Telling(r, n, k))].usage, k)

Ended(r, n) == \E j \in 1..n : r.events[j].end = "final"

\* Who makes images: tools that are asked to, and some of Google's models.
Draws(r) == r.image \/ (r.vendor = "GOOGLE" /\ r.capable)

\* Only Anthropic counts the input apart from what is cached or written.
Truthful(r) ==
  LET Uncached(n) == IF r.vendor = "ANTHROPIC" THEN Reported(r, n, "input")
                  ELSE Reported(r, n, "input") - Reported(r, n, "cached")
  IN  /\ r.vendor # "ANTHROPIC" =>
           r.bill["written"] = 0 /\ \A n \in 1..Len(r.events) : Reported(r, n, "written") = 0
      /\ r.vendor = "MISTRAL" => \A n \in 1..Len(r.events) : Reported(r, n, "cached") = 0
      /\ \A n \in 1..Len(r.events) :
           /\ Uncached(n) <= r.bill["input"]
           /\ \A k \in Kinds \ {"input"} : Reported(r, n, k) <= r.bill[k]
           /\ Ended(r, n) =>
                Uncached(n) = r.bill["input"] /\ \A k \in Kinds : k = "input" \/ Reported(r, n, k) = r.bill[k]

\* Vendors say the truth: never more than they charge for, and all of it by the
\* end of the answer, but of the fee, which is due for images, they say nothing.
ASSUME ProvidersAssumption ==
  /\ Vendors \subseteq {"OPENAI", "GOOGLE", "ANTHROPIC", "MISTRAL"}
  /\ Prices \in [Kinds -> Nat] /\ \A K \in SUBSET Kinds : NoReport \notin [K -> Nat]
  /\ \A r \in Replies :
       /\ r.vendor \in Vendors /\ Len(r.events) \in Nat /\ r.bill \in [Kinds -> Nat]
       /\ r.fee \in Nat /\ (r.fee > 0 => Draws(r))
       /\ \A j \in 1..Len(r.events) :
            LET told == r.events[j].usage
            IN  told = NoReport \/ \E K \in SUBSET Kinds : told \in [K -> Nat]
       /\ Truthful(r)

VARIABLES
  reply,     \* what the vendor sends
  wire,      \* of it, what is still to arrive
  lost,      \* history: the connection was cut
  reading    \* the local state of stream() and readEvents()

streamVars == <<reply, wire, lost, reading>>

Waiting == {"fetch", "read", "download", "image"}
Reading == [pc : {"idle", "returned", "failed"} \cup Waiting,
            buffer   : Seq(Nat \cup {CR, LF}),
            event    : Seq(Event),   \* the one whose images are saved
            images   : 0..2,         \* of it, those still to be saved
            complete : BOOLEAN,
            raw      : UNION {[K -> Nat] : K \in SUBSET Kinds},
            usage    : [{"input", "cached", "output"} -> Nat],
            reported : BOOLEAN,
            tool     : BOOLEAN,      \* raw.toolCostUnverified
            handled  : Nat,          \* history: events taken from the buffer
            category : {"none", "http", "vendor", "broken", "request", "aborted", "storage"}]

NoStream ==
  [pc |-> "idle", buffer |-> <<>>, event |-> <<>>, images |-> 0, complete |-> FALSE,
   raw |-> [k \in {} |-> 0], usage |-> [k \in {"input", "cached", "output"} |-> 0],
   reported |-> FALSE, tool |-> FALSE, handled |-> 0, category |-> "none"]

Fails(x, category) == [x EXCEPT !.pc = "failed", !.category = category]
Reads(x)           == reading' = x

----------------------------------------------------------------------------
(* The wire. *)

\* Some vendors name an event in a line before its data, and an empty line
\* follows it.
Frame(r, j) ==
  IF r.vendor \in {"OPENAI", "ANTHROPIC"}
  THEN IF r.crlf THEN <<Note, CR, LF, j, CR, LF, CR, LF>> ELSE <<Note, LF, j, LF, LF>>
  ELSE IF r.crlf THEN <<j, CR, LF, CR, LF>> ELSE <<j, LF, LF>>

Wire(r) ==
  LET size == Len(Frame(r, 1))
  IN  [k \in 1..(size * Len(r.events)) |->
         Frame(r, ((k - 1) \div size) + 1)[((k - 1) % size) + 1]]

\* Every CR LF is replaced by LF.
Put(out, s) ==
  IF s = LF /\ out # <<>> /\ out[Len(out)] = CR THEN [out EXCEPT ![Len(out)] = LF]
  ELSE Append(out, s)

Converted(text) ==
  LET out[k \in 0..Len(text)] == IF k = 0 THEN <<>> ELSE Put(out[k - 1], text[k])
  IN  out

Unix(text) == Converted(text)[Len(text)]

Normalised(buffer, chunk) == Unix(buffer \o chunk)

Breaks(buffer) == {j \in 1..(Len(buffer) - 1) : buffer[j] = LF /\ buffer[j + 1] = LF}
FirstBreak(buffer) == CHOOSE j \in Breaks(buffer) : \A k \in Breaks(buffer) : j <= k
DataLines(frame) == {j \in DOMAIN frame : frame[j] > 0}

----------------------------------------------------------------------------
(* Tokens. *)

Replaced(raw, report) == report   \* faulty variant: an earlier report is lost
Merged(raw, report) ==
  [k \in DOMAIN raw \cup DOMAIN report |-> IF k \in DOMAIN report THEN report[k] ELSE raw[k]]

\* OpenAI, Google and Mistral count cached tokens as input, Anthropic apart from
\* it, and sends its counts in more than one report.  The reports of OpenAI and
\* Google take the place of all that was in `raw`, a mark included.
Counts(x, vendor, report) ==
  IF report = NoReport THEN x
  ELSE LET raw == IF vendor = "ANTHROPIC" THEN Merged(x.raw, report) ELSE report
       IN  [x EXCEPT !.reported = TRUE, !.raw = raw,
              !.tool = @ /\ vendor \in {"ANTHROPIC", "MISTRAL"},
              !.usage = [input  |-> IF vendor = "ANTHROPIC"
                                    THEN Of(raw, "input") + Of(raw, "cached") + Of(raw, "written")
                                    ELSE Of(raw, "input"),
                         cached |-> IF vendor = "MISTRAL" THEN @.cached ELSE Of(raw, "cached"),
                         output |-> Of(raw, "output")]]

EstimateCost(usage, raw) ==
  LET written == Of(raw, "written")
      fresh   == usage.input - usage.cached - written
  IN  (IF fresh > 0 THEN fresh ELSE 0) * Prices["input"] + usage.cached * Prices["cached"]
        + written * Prices["written"] + usage.output * Prices["output"]

----------------------------------------------------------------------------
(* What an adapter does with an event, before and after its images. *)

Vendor == reply.vendor

Before(x, e) ==
  IF Vendor # "OPENAI" /\ e.end = "error" THEN Fails(x, "vendor")
  ELSE IF Vendor \in {"OPENAI", "ANTHROPIC"} THEN Counts(x, Vendor, e.usage)
  ELSE x

After(x, e) ==
  LET y == [(IF Vendor \in {"GOOGLE", "MISTRAL"} THEN Counts(x, Vendor, e.usage) ELSE x)
              EXCEPT !.complete = @ \/ e.end = "final", !.event = <<>>]
  IN  IF Vendor = "OPENAI" /\ e.end = "error" THEN Fails(y, "vendor")
      ELSE [y EXCEPT !.pc = "read"]

ImagesOf(e) ==
  IF Vendor = "ANTHROPIC" \/ (Vendor = "GOOGLE" /\ ~reply.image)
     \/ (Vendor = "OPENAI" /\ e.end # "final")
  THEN 0 ELSE e.images

\* Mistral names a file, which is downloaded first.  OpenAI marks the cost before
\* it hands an image over, Mistral when it is downloaded.
NextImage(x, n) ==
  [x EXCEPT !.images = n, !.pc = IF Vendor = "MISTRAL" THEN "download" ELSE "image",
            !.tool = @ \/ Vendor = "OPENAI"]

Handle(x, e) ==
  LET y == Before([x EXCEPT !.handled = @ + 1], e)
  IN  IF y.pc = "failed" THEN y
      ELSE IF ImagesOf(e) > 0 THEN NextImage([y EXCEPT !.event = <<e>>], ImagesOf(e))
      ELSE After(y, e)

----------------------------------------------------------------------------
(* One attempt. *)

Unsupported(r) == (r.vendor = "ANTHROPIC" /\ r.image) \/ (r.vendor = "MISTRAL" /\ r.pdf)

Request(r) ==
  /\ reading.pc = "idle"
  /\ reply' = r
  /\ wire' = Wire(r)
  /\ Reads(IF Unsupported(r) THEN Fails(NoStream, "request") ELSE [NoStream EXCEPT !.pc = "fetch"])
  /\ UNCHANGED lost

Opened ==
  /\ reading.pc = "fetch"
  /\ Reads([reading EXCEPT !.pc = "read"])
  /\ UNCHANGED <<reply, wire, lost>>

\* The status is not OK or there is no body.
NotOpened ==
  /\ reading.pc = "fetch"
  /\ Reads(Fails(reading, "http"))
  /\ UNCHANGED <<reply, wire, lost>>

Chunk(n) ==
  /\ reading.pc = "read" /\ Breaks(reading.buffer) = {}
  /\ Reads([reading EXCEPT !.buffer = Normalised(@, SubSeq(wire, 1, n))])
  /\ wire' = SubSeq(wire, n + 1, Len(wire))
  /\ UNCHANGED <<reply, lost>>

\* A frame with two events is no JSON.
NextEvent ==
  LET j     == FirstBreak(reading.buffer)
      frame == SubSeq(reading.buffer, 1, j - 1)
      data  == DataLines(frame)
      rest  == [reading EXCEPT !.buffer = SubSeq(@, j + 2, Len(@))]
  IN  /\ reading.pc = "read" /\ Breaks(reading.buffer) # {}
      /\ Reads(IF data = {} THEN rest
               ELSE IF \A d, e \in data : d = e
               THEN Handle(rest, reply.events[frame[CHOOSE d \in data : TRUE]])
               ELSE Fails(rest, "broken"))
      /\ UNCHANGED <<reply, wire, lost>>

Closed ==
  /\ reading.pc = "read" /\ Breaks(reading.buffer) = {} /\ wire = <<>>
  /\ Reads(IF reading.complete THEN [reading EXCEPT !.pc = "returned"]
           ELSE Fails(reading, "broken"))
  /\ UNCHANGED <<reply, wire, lost>>

Cut ==
  /\ reading.pc \in Waiting /\ wire # <<>>
  /\ wire' = <<>> /\ lost' = TRUE
  /\ UNCHANGED <<reply, reading>>

Download ==
  /\ reading.pc = "download"
  /\ \/ Reads([reading EXCEPT !.pc = "image", !.tool = TRUE])
     \/ Reads(Fails(reading, "vendor"))    \* not found
     \/ Reads(Fails(reading, "request"))   \* too large
  /\ UNCHANGED <<reply, wire, lost>>

Stored ==
  /\ reading.pc = "image"
  /\ Reads(IF reading.images > 1 THEN NextImage(reading, reading.images - 1)
           ELSE After([reading EXCEPT !.images = 0], Head(reading.event)))
  /\ UNCHANGED <<reply, wire, lost>>

NotStored ==
  /\ reading.pc = "image"
  /\ Reads(Fails(reading, "storage"))
  /\ UNCHANGED <<reply, wire, lost>>

\* The signal of the attempt.
Abort ==
  /\ reading.pc \in Waiting \ {"image"}
  /\ Reads(Fails(reading, "aborted"))
  /\ UNCHANGED <<reply, wire, lost>>

----------------------------------------------------------------------------
StreamInit ==
  /\ reply = CHOOSE r \in Replies : TRUE
  /\ wire = <<>> /\ lost = FALSE /\ reading = NoStream

StreamNext ==
  \/ \E r \in Replies : Request(r)
  \/ Opened \/ NotOpened \/ NextEvent \/ Closed \/ Cut
  \/ \E n \in 1..Len(wire) : Chunk(n)
  \/ Download \/ Stored \/ NotStored \/ Abort

StreamSpec == StreamInit /\ [][StreamNext]_streamVars

----------------------------------------------------------------------------
(* Properties. *)

(* "SSE frames can span arbitrary network chunks" (providers.ts): however  *)
(* the reply is cut, an attempt succeeds only with an answer that the      *)
(* vendor has ended, and fails as a broken stream only if something of the *)
(* reply did not arrive or the vendor did not end it.                      *)
EndedByVendor(n) == Ended(reply, n)

StreamsTold ==
  /\ reading.pc = "returned" => EndedByVendor(reading.handled)
  /\ reading.category = "broken" =>
       lost \/ ~EndedByVendor(Len(reply.events))

\* costEstimated: the record says that more may be charged.  finally marks every
\* attempt that may have made an image.
CostEstimated ==
  ~reading.reported \/ reading.tool \/ reply.image \/ (Vendor = "GOOGLE" /\ reply.capable)

TokenBill ==
  reply.bill["input"] * Prices["input"] + reply.bill["cached"] * Prices["cached"]
    + reply.bill["written"] * Prices["written"] + reply.bill["output"] * Prices["output"]
BillCost == TokenBill + reply.fee

(* "A text-token price alone is insufficient" (docs/credit-design.md), and *)
(* a record knows nothing else: once a vendor has reported, it never       *)
(* states more than is charged, of an answer that was returned it states   *)
(* what all of its tokens cost, in every way in which vendors count and    *)
(* report, and it states the whole bill unless it says costEstimated.  Of  *)
(* an attempt that failed it may state less, and without saying so.        *)
CostTold ==
  reading.reported =>
    LET cost == EstimateCost(reading.usage, reading.raw)
    IN  /\ cost <= BillCost
        /\ reading.pc = "returned" => cost = TokenBill
        /\ reading.pc = "returned" /\ ~CostEstimated => cost = BillCost

\* What an attempt hands back is what the vendor has sent, at its price.
ReplyTold == StreamsTold /\ CostTold
=============================================================================
