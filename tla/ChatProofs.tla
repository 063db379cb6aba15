----------------------------- MODULE ChatProofs -----------------------------
(***************************************************************************)
(* Theorems about the chat page, ChatView, in the workspace: conversations *)
(* stay apart in its view, and Stop reaches what is being answered.  The   *)
(* rows of the chat being well typed, all of the workspace stays within    *)
(* the plan.                                                               *)
(***************************************************************************)
EXTENDS WorkspaceProofs

USE TierAssumption, ChatAssumption

----------------------------------------------------------------------------
(* The chat page.  A call of send() or attach() belongs to a version of    *)
(* the view: while that version is shown the conversation of the call is   *)
(* in view, and afterwards the call is aborted or ignored.                 *)

OnItsWay == {"creating", "created", "posting", "open"}
Placed   == {"posting", "open", "reloading", "read"}

\* A message on its way, at x, in the view v: the button stops it, or it is
\* aborted.
Stops(m, x, v) ==
  x.pc \in OnItsWay =>
    IF x.version = v.version THEN v.abort = m /\ v.busy ELSE x.aborted

\* What a read of the conversation k has got is of k.
GotFrom(k, got) == /\ \A s \in got.shown : s.chat = k
                   /\ \A a \in got.files : stored[a] = k

CallOf(x, v) ==
  /\ x.version <= v.version
  /\ x.pc = "creating" => x.chat = NoChat
  /\ x.pc \in Placed \cup {"created"} => x.chat \in Chats
  /\ x.pc = "read" => GotFrom(x.chat, x.got)

LoadOf(x) ==
  /\ x.phase # "none" => x.chat \in Chats
  /\ x.phase = "read" => GotFrom(x.chat, x.got)

UploadOf(a, x) ==
  /\ x.pc \in {"idle", "creating", "created", "posting"} => stored[a] = NoChat
  /\ x.pc = "open" => stored[a] = x.chat

Seen(v) == {v.route.chat, v.created} \ {NoChat}

\* The view v, which loads as x says.
Pure(v, x) ==
  /\ \A s \in v.shown : s.chat \in Seen(v)
  /\ \A a \in v.files \cup v.selected : stored[a] \in Seen(v)
  /\ x.phase # "none" => x.chat = v.route.chat
  /\ v.created # NoChat => v.route.chat = NoChat

InPlace(x, v) == x.pc \in Placed /\ x.version = v.version => x.chat \in Seen(v)

ChatInv ==
  /\ ChatTypeOK
  /\ \A m \in Messages : Stops(m, work[m], view)
  /\ \A c \in Calls : CallOf(work[c], view)
  /\ LoadOf(load)
  /\ \A a \in Uploads : UploadOf(a, work[a])
  /\ ~mixed => Pure(view, load) /\ \A c \in Calls : InPlace(work[c], view)

LEMMA LeastFacts ==
  ASSUME NEW S \in SUBSET Nat, S # {}
  PROVE  Least(S) \in S
<1>1. IsWellFoundedOn(OpToRel(<, Nat), Nat)
  BY NatLessThanWellFounded
<1>2. PICK n \in S : \A k \in S : ~(<<k, n>> \in OpToRel(<, Nat))
  BY <1>1, WFMin
<1>3. ASSUME NEW k \in S
      PROVE  n <= k
  <2>1. k \in Nat /\ n \in Nat
    OBVIOUS
  <2>2. ~(k < n)
    BY <1>2, <2>1 DEF OpToRel
  <2> QED
    BY <2>1, <2>2
<1> QED
  BY <1>3 DEF Least

LEMMA ChatFacts ==
  ASSUME ChatInv
  PROVE  /\ chats \subseteq Chats /\ view \in View /\ view.version \in Nat /\ view.busy \in BOOLEAN
         /\ view.route \in Route /\ view.route.chat \in Chats \cup {NoChat}
         /\ view.created \in Chats \cup {NoChat} /\ view.abort \in Messages \cup {NoMessage}
         /\ view.shown \subseteq Shown /\ view.files \subseteq Uploads
         /\ view.selected \subseteq Uploads
         /\ load \in Load /\ url \in Route /\ url.chat \in Chats \cup {NoChat} /\ mixed \in BOOLEAN
         /\ work \in [Calls -> Work] /\ stored \in [Uploads -> Chats \cup {NoChat}]
         /\ NoChat \notin Chats /\ NoMessage \notin Messages
         /\ Messages \subseteq Calls /\ Uploads \subseteq Calls
  BY DEF ChatInv, ChatTypeOK, View, Route, NoChat, NoMessage, Calls

LEMMA WorkFacts ==
  ASSUME ChatInv, NEW c \in Calls
  PROVE  /\ work[c] \in Work /\ work[c].version \in Nat /\ work[c].aborted \in BOOLEAN
         /\ work[c].chat \in Chats \cup {NoChat} /\ CallOf(work[c], view)
  BY DEF ChatInv, ChatTypeOK, Work

\* Whatever a call may do: it goes on as x, in the view v of the same version,
\* takes nothing from what is in view but its own, and no button from another.
LEMMA CallGoes ==
  ASSUME ChatInv, NEW c \in Calls, NEW x \in Work, work' = [work EXCEPT ![c] = x],
         NEW v \in View, view' = v, v.version = view.version,
         load' = load, stored' = stored, answer' = answer, chats' \subseteq Chats,
         url' \in Route, mixed' \in BOOLEAN, mixed => mixed',
         c \in Messages => Stops(c, x, v),
         \A m \in Messages \ {c} : view.abort = m /\ view.busy => v.abort = m /\ v.busy,
         CallOf(x, v), c \in Uploads => UploadOf(c, x),
         ~mixed' => Pure(v, load) /\ InPlace(x, v) /\ Seen(view) \subseteq Seen(v)
  PROVE  ChatInv'
<1>1. \A d \in Calls : work'[d] = IF d = c THEN x ELSE work[d]
  BY ChatFacts
<1>2. \A m \in Messages : Stops(m, work[m], view)'
  <2> SUFFICES ASSUME NEW m \in Messages PROVE Stops(m, work[m], view)'
    OBVIOUS
  <2>1. m \in Calls /\ Stops(m, work[m], view)
    BY DEF ChatInv, Calls
  <2>2. CASE m = c
    BY <1>1, <2>1, <2>2 DEF Stops
  <2>3. CASE m # c
    <3>1. work'[m] = work[m]
      BY <1>1, <2>1, <2>3
    <3> QED
      BY <2>1, <2>3, <3>1 DEF Stops
  <2> QED
    BY <2>2, <2>3
<1>3. \A d \in Calls : CallOf(work[d], view)'
  BY <1>1 DEF ChatInv, CallOf, GotFrom
<1>4. LoadOf(load)'
  BY DEF ChatInv, LoadOf, GotFrom
<1>5. \A a \in Uploads : UploadOf(a, work[a])'
  <2>1. Uploads \subseteq Calls
    BY DEF Calls
  <2> QED
    BY <1>1, <2>1 DEF ChatInv, UploadOf
<1>6. ~mixed' => Pure(view, load)' /\ \A d \in Calls : InPlace(work[d], view)'
  <2> SUFFICES ASSUME ~mixed'
               PROVE  Pure(view, load)' /\ \A d \in Calls : InPlace(work[d], view)'
    OBVIOUS
  <2>1. ~mixed
    BY ChatFacts
  <2>2. Pure(view, load)'
    BY DEF Pure, Seen
  <2>3. ASSUME NEW d \in Calls
        PROVE  InPlace(work[d], view)'
    <3>1. InPlace(work[d], view)
      BY <2>1 DEF ChatInv
    <3> QED
      BY <1>1, <3>1 DEF InPlace, Seen
  <2> QED
    BY <2>2, <2>3
<1>7. ChatTypeOK'
  BY DEF ChatInv, ChatTypeOK
<1> QED
  BY <1>2, <1>3, <1>4, <1>5, <1>6, <1>7 DEF ChatInv

LEMMA WorkKept ==
  ASSUME NEW x \in Work,
         NEW label \in {"created", "posting", "open", "reloading", "read", "over"}
  PROVE  LET y == [x EXCEPT !.pc = label]
         IN  /\ y \in Work /\ y.pc = label /\ y.chat = x.chat /\ y.version = x.version
             /\ y.aborted = x.aborted /\ y.got = x.got
  BY DEF Work

LEMMA OverFacts ==
  /\ Unused \in Work /\ Unused.pc = "idle"
  /\ Over \in Work /\ Over.pc = "over" /\ Over.version = 0
<1>1. Nothing \in Snapshot
  BY DEF Nothing, Snapshot
<1>2. NoChat \in Chats \cup {NoChat} /\ 0 \in Nat /\ FALSE \in BOOLEAN
  OBVIOUS
<1>3. Unused \in Work
  BY <1>1, <1>2 DEF Unused, Work
<1>4. Unused.version = 0 /\ Unused.pc = "idle"
  BY DEF Unused
<1>5. Over = [Unused EXCEPT !.pc = "over"]
  BY DEF Over
<1> QED
  BY <1>3, <1>4, <1>5, WorkKept

\* A call ends, in the view v.
LEMMA CallEnds ==
  ASSUME ChatInv, NEW c \in Calls, Ends(c), NEW v \in View, view' = v,
         v.version = view.version, UNCHANGED <<server, load>>,
         url' \in Route, mixed' \in BOOLEAN, mixed => mixed',
         \A m \in Messages \ {c} : view.abort = m /\ view.busy => v.abort = m /\ v.busy,
         ~mixed' => Pure(v, load) /\ Seen(view) \subseteq Seen(v)
  PROVE  ChatInv'
<1>1. work' = [work EXCEPT ![c] = Over]
  BY DEF Ends
<1>2. Over \in Work /\ Over.pc = "over" /\ Over.version <= v.version
  BY OverFacts, ChatFacts
<1>3. /\ Stops(c, Over, v) /\ CallOf(Over, v) /\ UploadOf(c, Over) /\ InPlace(Over, v)
  BY <1>2 DEF Stops, OnItsWay, CallOf, Placed, UploadOf, InPlace
<1>4. stored' = stored /\ answer' = answer /\ chats' \subseteq Chats
  BY ChatFacts DEF server
<1> QED
  BY <1>1, <1>2, <1>3, <1>4, CallGoes

\* A call ends and nothing else changes.
LEMMA CallStops ==
  ASSUME ChatInv, NEW c \in Calls, Ends(c), UNCHANGED <<server, url, view, load, mixed>>
  PROVE  ChatInv'
<1>1. /\ view \in View /\ url' \in Route /\ mixed' \in BOOLEAN
      /\ ~mixed' => Pure(view, load)
  BY ChatFacts DEF ChatInv
<1> QED
  BY <1>1, CallEnds

\* The `finally` of send().
LEMMA SettlesKeeps ==
  ASSUME ChatInv, NEW m \in Messages, work[m].pc \in OnItsWay,
         NEW v \in View, Settles(m, v), v.version = view.version,
         v.abort = view.abort, v.busy = view.busy,
         UNCHANGED <<server, load>>, url' \in Route, mixed' \in BOOLEAN, mixed => mixed',
         ~mixed' => Pure(v, load) /\ Seen(view) \subseteq Seen(v),
         ~mixed' /\ work[m].version = view.version /\ work[m].chat # NoChat
           => work[m].chat \in Seen(v)
  PROVE  ChatInv'
<1>1. m \in Calls /\ Stops(m, work[m], view)
  BY DEF Calls, ChatInv
<1>2. CASE work[m].version # v.version
  <2>1. view' = v /\ Ends(m)
    BY <1>2 DEF Settles
  <2> QED
    BY <1>1, <2>1, CallEnds
<1>3. CASE work[m].version = v.version
  <2>1. view.abort = m
    BY <1>1, <1>3 DEF Stops
  <2>2. PICK y \in View : y = [v EXCEPT !.busy = FALSE, !.abort = NoMessage]
    BY DEF View
  <2>3. /\ y.version = v.version /\ y.route = v.route /\ y.created = v.created
        /\ y.shown = v.shown /\ y.files = v.files /\ y.selected = v.selected
    BY <2>2 DEF View
  <2>4. Seen(y) = Seen(v) /\ (Pure(v, load) => Pure(y, load))
    BY <2>3 DEF Seen, Pure
  <2>5. view' = y
    BY <1>3, <2>2 DEF Settles
  <2>6. CASE work[m].chat = NoChat
    <3>1. Ends(m)
      BY <1>3, <2>6 DEF Settles
    <3> QED
      BY <1>1, <2>1, <2>3, <2>4, <2>5, <3>1, CallEnds
  <2>7. CASE work[m].chat # NoChat
    <3>1. PICK x \in Work : x = [work[m] EXCEPT !.pc = "reloading"]
      BY <1>1, WorkFacts, WorkKept
    <3>2. /\ x.pc = "reloading" /\ x.chat = work[m].chat /\ x.version = work[m].version
      BY <1>1, <3>1, WorkFacts, WorkKept
    <3>3. work' = [work EXCEPT ![m] = x]
      BY <1>3, <2>7, <3>1 DEF Settles, Proceeds
    <3>4. work[m].chat \in Chats /\ work[m].version <= view.version
      BY <1>1, <2>7, WorkFacts DEF CallOf
    <3>5. CallOf(x, y)
      BY <2>3, <3>2, <3>4 DEF CallOf, Placed
    <3>6. Stops(m, x, y) /\ (m \in Uploads => UploadOf(m, x))
      BY <3>2 DEF Stops, OnItsWay, UploadOf
    <3>7. ~mixed' => Pure(y, load) /\ InPlace(x, y) /\ Seen(view) \subseteq Seen(y)
      BY <1>3, <2>4, <2>7, <3>2 DEF InPlace
    <3>8. stored' = stored /\ answer' = answer /\ chats' \subseteq Chats
      BY ChatFacts DEF server
    <3> QED
      BY <1>1, <2>1, <2>3, <2>5, <3>3, <3>5, <3>6, <3>7, <3>8, CallGoes
  <2> QED
    BY <2>6, <2>7
<1> QED
  BY <1>2, <1>3

LEMMA StartingFacts ==
  ASSUME ChatInv, NEW c \in Calls
  PROVE  LET x == Starting(c) IN
         /\ x \in Work /\ x.chat = view.route.chat /\ x.version = view.version
         /\ x.pc = IF view.route.chat = NoChat THEN "creating" ELSE "posting"
<1>1. /\ view.route.chat \in Chats \cup {NoChat} /\ view.version \in Nat
  BY ChatFacts
<1> QED
  BY <1>1, OverFacts DEF Starting, Work

\* A call that begins in a view, with the button as v has it.
LEMMA CallBegins ==
  ASSUME ChatInv, NEW c \in Calls, work[c].pc = "idle", work' = [work EXCEPT ![c] = Starting(c)],
         NEW v \in View, view' = v, v.version = view.version, v.route = view.route,
         v.created = view.created, v.shown = view.shown, v.files = view.files,
         v.selected = view.selected, UNCHANGED <<server, url, load, mixed>>,
         c \in Messages => v.abort = c /\ v.busy,
         \A m \in Messages \ {c} : view.abort = m /\ view.busy => v.abort = m /\ v.busy
  PROVE  ChatInv'
<1>1. PICK x \in Work : x = Starting(c)
  BY StartingFacts
<1>2. /\ x.chat = view.route.chat /\ x.version = view.version
      /\ x.pc = IF view.route.chat = NoChat THEN "creating" ELSE "posting"
  BY <1>1, StartingFacts
<1>3. view.route.chat \in Chats \cup {NoChat} /\ view.version \in Nat
  BY ChatFacts
<1>4. CallOf(x, v)
  BY <1>2, <1>3 DEF CallOf, Placed
<1>5. c \in Uploads => UploadOf(c, x)
  BY <1>2 DEF ChatInv, UploadOf
<1>6. c \in Messages => Stops(c, x, v)
  BY <1>2 DEF Stops
<1>7. Seen(v) = Seen(view) /\ (Pure(view, load) => Pure(v, load)) /\ InPlace(x, v)
  BY <1>2, <1>3 DEF Seen, Pure, InPlace, Placed
<1>8. /\ ~mixed' => Pure(view, load)
      /\ stored' = stored /\ answer' = answer /\ chats' \subseteq Chats /\ load' = load
      /\ url' \in Route /\ mixed' = mixed /\ mixed' \in BOOLEAN
  BY ChatFacts DEF ChatInv, server
<1>9. /\ ~mixed' => Pure(v, load) /\ InPlace(x, v) /\ Seen(view) \subseteq Seen(v)
      /\ work' = [work EXCEPT ![c] = x] /\ x \in Work /\ (mixed => mixed')
  BY <1>1, <1>7, <1>8
<1> QED
  BY <1>4, <1>5, <1>6, <1>8, <1>9, CallGoes

\* A call goes on in the view as it is.
LEMMA CallWorks ==
  ASSUME ChatInv, NEW c \in Calls, NEW x \in Work, work' = [work EXCEPT ![c] = x],
         UNCHANGED <<answer, stored, url, view, load, mixed>>, chats' \subseteq Chats,
         c \in Messages => Stops(c, x, view),
         CallOf(x, view), c \in Uploads => UploadOf(c, x), ~mixed => InPlace(x, view)
  PROVE  ChatInv'
<1>1. /\ ~mixed => Pure(view, load)
      /\ url' \in Route /\ mixed' \in BOOLEAN /\ view \in View
  BY ChatFacts DEF ChatInv
<1> QED
  BY <1>1, CallGoes

LEMMA CreateChatKeeps ==
  ASSUME ChatInv, NEW c \in Calls, CreateChat(c)
  PROVE  ChatInv'
<1>1. PICK k \in Chats \ chats : k = Least(Chats \ chats)
  BY LeastFacts DEF CreateChat
<1>2. /\ work[c] \in Work /\ CallOf(work[c], view) /\ work[c].pc = "creating"
  BY WorkFacts DEF CreateChat
<1>3. PICK x \in Work : x = [work[c] EXCEPT !.pc = "created", !.chat = k]
  BY <1>2 DEF Work
<1>4. /\ x.pc = "created" /\ x.chat = k /\ x.version = work[c].version
      /\ x.aborted = work[c].aborted
  BY <1>2, <1>3 DEF Work
<1>5. work' = [work EXCEPT ![c] = x]
  BY <1>1, <1>2, <1>3, ChatFacts DEF CreateChat
<1>6. chats' \subseteq Chats
  BY <1>1, ChatFacts DEF CreateChat
<1>7. c \in Messages => Stops(c, x, view)
  BY <1>2, <1>4 DEF ChatInv, Stops, OnItsWay
<1>8. c \in Uploads => UploadOf(c, x)
  BY <1>2, <1>4 DEF ChatInv, UploadOf
<1>9. CallOf(x, view) /\ InPlace(x, view)
  BY <1>1, <1>2, <1>4 DEF CallOf, InPlace, Placed
<1>10. UNCHANGED <<answer, stored, url, view, load, mixed>> /\ (~mixed => InPlace(x, view))
  BY <1>9 DEF CreateChat
<1> QED
  BY <1>3, <1>5, <1>6, <1>7, <1>8, <1>9, <1>10, CallWorks

LEMMA SendKeeps ==
  ASSUME ChatInv, NEW m \in Messages, SendMessage(m)
  PROVE  ChatInv'
<1>1. PICK v \in View : v = [view EXCEPT !.busy = TRUE, !.abort = m]
  BY ChatFacts DEF View
<1>2. /\ v.version = view.version /\ v.route = view.route /\ v.created = view.created
      /\ v.shown = view.shown /\ v.files = view.files /\ v.selected = view.selected
      /\ v.abort = m /\ v.busy
  BY <1>1, ChatFacts DEF View
<1>3. m \in Calls /\ view.abort \notin Messages
  BY ChatFacts DEF SendMessage
<1>4. /\ work[m].pc = "idle" /\ work' = [work EXCEPT ![m] = Starting(m)] /\ view' = v
      /\ UNCHANGED <<server, url, load, mixed>>
  BY <1>1 DEF SendMessage
<1> QED
  BY <1>2, <1>3, <1>4, CallBegins

LEMMA AttachKeeps ==
  ASSUME ChatInv, NEW a \in Uploads, Attach(a)
  PROVE  ChatInv'
<1>1. a \in Calls /\ a \notin Messages /\ view \in View
  BY ChatFacts
<1> QED
  BY <1>1, CallBegins DEF Attach

\* The page goes to the conversation a call has created.
LEMMA ArrivedFacts ==
  ASSUME ChatInv, NEW c \in Calls, work[c].pc = "created", Arrives(c)
  PROVE  LET v == Arrived(c) IN
         /\ v \in View /\ v.version = view.version /\ v.abort = view.abort
         /\ v.busy = view.busy
         /\ url' \in Route /\ mixed' \in BOOLEAN /\ (mixed => mixed')
         /\ work[c].chat \in Chats /\ work[c].chat \in Seen(v)
         /\ ~mixed' => Pure(v, load) /\ Seen(view) \subseteq Seen(v)
<1>1. work[c].chat \in Chats
  BY WorkFacts DEF CallOf
<1>2. PICK v \in View : v = [view EXCEPT !.created = work[c].chat]
  BY <1>1, ChatFacts DEF View
<1>3. /\ v.version = view.version /\ v.abort = view.abort /\ v.busy = view.busy
      /\ v.route = view.route /\ v.created = work[c].chat
      /\ v.shown = view.shown /\ v.files = view.files /\ v.selected = view.selected
  BY <1>2, ChatFacts DEF View
<1>4. url' \in Route /\ mixed' \in BOOLEAN /\ (mixed => mixed')
  BY <1>1, ChatFacts DEF Arrives, Route
<1>5. work[c].chat \in Seen(v)
  BY <1>1, <1>3, ChatFacts DEF Seen
<1>6. ASSUME ~mixed'
      PROVE  Pure(v, load) /\ Seen(view) \subseteq Seen(v)
  <2>1. ~mixed /\ view.created = NoChat /\ view.route.chat = NoChat /\ Pure(view, load)
    BY <1>6, ChatFacts DEF Arrives, ChatInv
  <2>2. Seen(view) = {}
    BY <2>1 DEF Seen
  <2> QED
    BY <1>3, <2>1, <2>2 DEF Pure
<1> QED
  BY <1>1, <1>2, <1>3, <1>4, <1>5, <1>6 DEF Arrived

LEMMA PostsKeeps ==
  ASSUME ChatInv, NEW m \in Messages, Posts(m)
  PROVE  ChatInv'
<1>1. /\ m \in Calls /\ m \notin Uploads /\ work[m].pc = "created" /\ UNCHANGED <<server, load>>
      /\ view \in View /\ work[m] \in Work /\ Stops(m, work[m], view) /\ CallOf(work[m], view)
  BY ChatFacts, WorkFacts, ChatAssumption DEF Posts, ChatInv
<1>2. CASE ~InVersion(m)
  <2>1. Settles(m, view) /\ UNCHANGED <<url, mixed>>
    BY <1>2 DEF Posts
  <2>2. /\ url' \in Route /\ mixed' \in BOOLEAN /\ (mixed => mixed')
        /\ ~mixed' => Pure(view, load)
    BY <2>1, ChatFacts DEF ChatInv
  <2> QED
    BY <1>1, <1>2, <2>1, <2>2, SettlesKeeps DEF InVersion, OnItsWay
<1>3. CASE InVersion(m)
  <2>1. Arrives(m)
    BY <1>3 DEF Posts
  <2>2. PICK v \in View : v = Arrived(m)
    BY <1>1, <2>1, ArrivedFacts
  <2>3. /\ v.version = view.version /\ v.abort = view.abort /\ v.busy = view.busy
        /\ url' \in Route /\ mixed' \in BOOLEAN /\ (mixed => mixed')
        /\ work[m].chat \in Chats /\ work[m].chat \in Seen(v)
        /\ ~mixed' => Pure(v, load) /\ Seen(view) \subseteq Seen(v)
    BY <1>1, <2>1, <2>2, ArrivedFacts
  <2>4. CASE work[m].aborted
    <3>1. Settles(m, v)
      BY <1>3, <2>2, <2>4 DEF Posts
    <3> QED
      BY <1>1, <2>2, <2>3, <3>1, SettlesKeeps DEF OnItsWay
  <2>5. CASE ~work[m].aborted
    <3>1. PICK x \in Work : x = [work[m] EXCEPT !.pc = "posting"]
      BY <1>1, WorkKept
    <3>2. /\ x.pc = "posting" /\ x.chat = work[m].chat /\ x.version = work[m].version
          /\ x.aborted = work[m].aborted
      BY <1>1, <3>1, WorkKept
    <3>3. view' = v /\ work' = [work EXCEPT ![m] = x]
      BY <1>3, <2>2, <2>5, <3>1 DEF Posts, Proceeds
    <3>4. Stops(m, x, v)
      BY <1>1, <2>3, <3>2 DEF Stops, OnItsWay
    <3>5. CallOf(x, v) /\ InPlace(x, v)
      BY <1>1, <2>3, <3>2 DEF CallOf, InPlace
    <3>6. stored' = stored /\ answer' = answer /\ chats' \subseteq Chats /\ load' = load
      BY <1>1, ChatFacts DEF server
    <3> QED
      BY <1>1, <2>2, <2>3, <3>1, <3>3, <3>4, <3>5, <3>6, CallGoes
  <2> QED
    BY <2>4, <2>5
<1> QED
  BY <1>2, <1>3

LEMMA SendFileKeeps ==
  ASSUME ChatInv, NEW a \in Uploads, SendFile(a)
  PROVE  ChatInv'
<1>1. /\ a \in Calls /\ a \notin Messages /\ work[a].pc = "created" /\ UNCHANGED <<server, load>>
      /\ view \in View /\ work[a] \in Work /\ CallOf(work[a], view) /\ UploadOf(a, work[a])
  BY ChatFacts, WorkFacts, ChatAssumption DEF SendFile, ChatInv
<1>2. CASE ~InVersion(a)
  BY <1>1, <1>2, CallStops DEF SendFile
<1>3. CASE InVersion(a)
  <2>1. Arrives(a)
    BY <1>3 DEF SendFile
  <2>2. PICK v \in View : v = Arrived(a)
    BY <1>1, <2>1, ArrivedFacts
  <2>3. /\ v.version = view.version /\ v.abort = view.abort /\ v.busy = view.busy
        /\ url' \in Route /\ mixed' \in BOOLEAN /\ (mixed => mixed')
        /\ work[a].chat \in Chats /\ work[a].chat \in Seen(v)
        /\ ~mixed' => Pure(v, load) /\ Seen(view) \subseteq Seen(v)
    BY <1>1, <2>1, <2>2, ArrivedFacts
  <2>4. PICK x \in Work : x = [work[a] EXCEPT !.pc = "posting"]
    BY <1>1, WorkKept
  <2>5. x.pc = "posting" /\ x.chat = work[a].chat /\ x.version = work[a].version
    BY <1>1, <2>4, WorkKept
  <2>6. view' = v /\ work' = [work EXCEPT ![a] = x]
    BY <1>3, <2>2, <2>4 DEF SendFile, Proceeds
  <2>7. CallOf(x, v) /\ InPlace(x, v) /\ UploadOf(a, x)
    BY <1>1, <2>3, <2>5 DEF CallOf, InPlace, UploadOf
  <2>8. stored' = stored /\ answer' = answer /\ chats' \subseteq Chats /\ load' = load
    BY <1>1, ChatFacts DEF server
  <2> QED
    BY <1>1, <2>2, <2>3, <2>4, <2>6, <2>7, <2>8, CallGoes
<1> QED
  BY <1>2, <1>3

\* What send() gives up in the view as it is.
LEMMA GivesUpKeeps ==
  ASSUME ChatInv, NEW m \in Messages,
         work[m].pc = "creating" \/ work[m].pc \in {"open", "posting"},
         Settles(m, view), UNCHANGED <<server, url, load, mixed>>
  PROVE  ChatInv'
<1>1. /\ m \in Calls /\ work[m].pc \in OnItsWay /\ view \in View
      /\ url' \in Route /\ mixed' \in BOOLEAN /\ (mixed => mixed')
      /\ ~mixed' => Pure(view, load)
  BY ChatFacts DEF ChatInv, OnItsWay
<1>2. ~mixed' /\ work[m].version = view.version /\ work[m].chat # NoChat
        => work[m].chat \in Seen(view)
  BY <1>1, WorkFacts DEF ChatInv, CallOf, InPlace, Placed
<1> QED
  BY <1>1, <1>2, SettlesKeeps

LEMMA NotCreatedKeeps ==
  ASSUME ChatInv, NEW m \in Messages, NotCreated(m)
  PROVE  ChatInv'
  BY GivesUpKeeps DEF NotCreated, CreateFails

LEMMA StreamEndsKeeps ==
  ASSUME ChatInv, NEW m \in Messages, StreamEnds(m)
  PROVE  ChatInv'
<1>1. work[m].pc \in {"open", "posting"} /\ Settles(m, view) /\ UNCHANGED <<server, url, load, mixed>>
  BY DEF StreamEnds
<1> QED
  BY <1>1, GivesUpKeeps

LEMMA StreamOpensKeeps ==
  ASSUME ChatInv, NEW m \in Messages, StreamOpens(m)
  PROVE  ChatInv'
<1>1. /\ m \in Calls /\ m \notin Uploads /\ work[m].pc = "posting" /\ ~work[m].aborted
      /\ UNCHANGED <<server, url, load, mixed>>
      /\ view \in View /\ work[m] \in Work /\ Stops(m, work[m], view) /\ CallOf(work[m], view)
  BY ChatFacts, WorkFacts, ChatAssumption DEF StreamOpens, ChatInv
<1>2. work[m].version = view.version /\ work[m].chat \in Chats
  BY <1>1 DEF Stops, OnItsWay, CallOf, Placed
<1> DEFINE seen == view.shown \cup {[message |-> m, chat |-> work[m].chat]}
<1>3. PICK v \in View : v = [view EXCEPT !.shown = seen]
  <2>1. seen \subseteq Shown
    BY <1>2, ChatFacts DEF Shown
  <2>2. view \in View
    BY ChatFacts
  <2> HIDE DEF seen
  <2> QED
    BY <2>1, <2>2 DEF View
<1>4. /\ v.version = view.version /\ v.abort = view.abort /\ v.busy = view.busy
      /\ v.route = view.route /\ v.created = view.created
      /\ v.shown = view.shown \cup {[message |-> m, chat |-> work[m].chat]}
      /\ v.files = view.files /\ v.selected = view.selected
  BY <1>3, ChatFacts DEF View
<1>5. PICK x \in Work : x = [work[m] EXCEPT !.pc = "open"]
  BY <1>1, WorkKept
<1>6. /\ x.pc = "open" /\ x.chat = work[m].chat /\ x.version = work[m].version
      /\ x.aborted = work[m].aborted
  BY <1>1, <1>5, WorkKept
<1>7. view' = v /\ work' = [work EXCEPT ![m] = x]
  BY <1>1, <1>3, <1>5 DEF StreamOpens, Proceeds
<1>8. Stops(m, x, v) /\ CallOf(x, v)
  BY <1>1, <1>2, <1>4, <1>6 DEF Stops, OnItsWay, CallOf
<1>9. ASSUME ~mixed'
      PROVE  Pure(v, load) /\ InPlace(x, v) /\ Seen(view) \subseteq Seen(v)
  <2>1. Pure(view, load) /\ work[m].chat \in Seen(view)
    BY <1>1, <1>2, <1>9 DEF ChatInv, InPlace, Placed
  <2>2. Seen(v) = Seen(view)
    BY <1>4 DEF Seen
  <2> QED
    BY <1>4, <1>6, <2>1, <2>2 DEF Pure, InPlace
<1>10. /\ stored' = stored /\ answer' = answer /\ chats' \subseteq Chats /\ load' = load
       /\ url' \in Route /\ mixed' \in BOOLEAN /\ (mixed => mixed')
  BY <1>1, ChatFacts DEF server
<1>11. /\ v \in View /\ x \in Work /\ (m \in Uploads => UploadOf(m, x))
       /\ \A n \in Messages \ {m} : view.abort = n /\ view.busy => v.abort = n /\ v.busy
  BY <1>1, <1>3, <1>4, <1>5
<1> HIDE DEF seen
<1> QED
  BY <1>1, <1>4, <1>7, <1>8, <1>9, <1>10, <1>11, CallGoes

LEMMA ContentsFacts ==
  ASSUME ChatInv, NEW k \in Chats
  PROVE  Contents(k) \in Snapshot /\ GotFrom(k, Contents(k))
  BY DEF Contents, Snapshot, Shown, GotFrom

LEMMA ReadBackKeeps ==
  ASSUME ChatInv, NEW m \in Messages, ReadBack(m)
  PROVE  ChatInv'
<1>1. /\ m \in Calls /\ m \notin Uploads /\ work[m].pc = "reloading"
      /\ UNCHANGED <<server, url, view, load, mixed>>
      /\ view \in View /\ work[m] \in Work /\ CallOf(work[m], view)
  BY ChatFacts, WorkFacts, ChatAssumption DEF ReadBack
<1>2. work[m].chat \in Chats
  BY <1>1 DEF CallOf, Placed
<1>3. PICK got \in Snapshot : got = Contents(work[m].chat) /\ GotFrom(work[m].chat, got)
  BY <1>2, ContentsFacts
<1>4. PICK x \in Work : x = [work[m] EXCEPT !.pc = "read", !.got = got]
  BY <1>1 DEF Work
<1>5. x.pc = "read" /\ x.chat = work[m].chat /\ x.version = work[m].version /\ x.got = got
  BY <1>1, <1>4 DEF Work
<1>6. work' = [work EXCEPT ![m] = x]
  BY <1>1, <1>3, <1>4, ChatFacts DEF ReadBack
<1>7. Stops(m, x, view) /\ CallOf(x, view)
  BY <1>1, <1>2, <1>3, <1>5 DEF Stops, OnItsWay, CallOf
<1>8. ~mixed => InPlace(x, view)
  BY <1>1, <1>5 DEF ChatInv, InPlace, Placed
<1>9. UNCHANGED <<answer, stored, url, view, load, mixed>> /\ chats' \subseteq Chats
  BY <1>1, ChatFacts DEF server
<1> QED
  BY <1>1, <1>4, <1>6, <1>7, <1>8, <1>9, CallWorks

LEMMA ReloadedKeeps ==
  ASSUME ChatInv, NEW m \in Messages, Reloaded(m)
  PROVE  ChatInv'
<1>1. /\ m \in Calls /\ work[m].pc = "read" /\ Ends(m) /\ UNCHANGED <<server, url, load, mixed>>
      /\ view \in View /\ work[m] \in Work /\ CallOf(work[m], view)
  BY ChatFacts, WorkFacts DEF Reloaded
<1>2. CASE ~InVersion(m)
  BY <1>1, <1>2, CallStops DEF Reloaded
<1>3. CASE InVersion(m)
  <2>1. work[m].got \in Snapshot /\ GotFrom(work[m].chat, work[m].got)
    BY <1>1 DEF CallOf, Work
  <2>2. PICK v \in View :
          v = [view EXCEPT !.shown = work[m].got.shown, !.files = work[m].got.files]
    BY <2>1, ChatFacts DEF View, Snapshot
  <2>3. /\ v.version = view.version /\ v.abort = view.abort /\ v.busy = view.busy
        /\ v.route = view.route /\ v.created = view.created
        /\ v.shown = work[m].got.shown /\ v.files = work[m].got.files
        /\ v.selected = view.selected
    BY <2>2, ChatFacts DEF View
  <2>4. view' = v
    BY <1>3, <2>2 DEF Reloaded
  <2>5. ASSUME ~mixed'
        PROVE  Pure(v, load) /\ Seen(view) \subseteq Seen(v)
    <3>1. Pure(view, load) /\ work[m].chat \in Seen(view)
      BY <1>1, <1>3, <2>5 DEF ChatInv, InPlace, Placed, InVersion
    <3>2. Seen(v) = Seen(view)
      BY <2>3 DEF Seen
    <3> QED
      BY <2>1, <2>3, <3>1, <3>2 DEF Pure, GotFrom
  <2>6. url' \in Route /\ mixed' \in BOOLEAN /\ (mixed => mixed')
    BY <1>1, ChatFacts
  <2>7. \A n \in Messages \ {m} : view.abort = n /\ view.busy => v.abort = n /\ v.busy
    BY <2>3
  <2> QED
    BY <1>1, <2>2, <2>3, <2>4, <2>5, <2>6, <2>7, CallEnds
<1> QED
  BY <1>2, <1>3

LEMMA StopAnswerKeeps ==
  ASSUME ChatInv, StopAnswer
  PROVE  ChatInv'
<1> DEFINE m == view.abort
<1>1. /\ m \in Messages /\ m \in Calls /\ m \notin Uploads
      /\ work' = [work EXCEPT ![m].aborted = TRUE]
      /\ UNCHANGED <<server, url, view, load, mixed>>
      /\ view \in View /\ work[m] \in Work /\ Stops(m, work[m], view) /\ CallOf(work[m], view)
  <2>1. m \in Messages
    BY ChatFacts DEF StopAnswer
  <2> QED
    BY <2>1, ChatFacts, WorkFacts, ChatAssumption DEF StopAnswer, ChatInv
<1> HIDE DEF m
<1>2. PICK x \in Work : x = [work[m] EXCEPT !.aborted = TRUE]
  BY <1>1 DEF Work
<1>3. /\ x.pc = work[m].pc /\ x.chat = work[m].chat /\ x.version = work[m].version
      /\ x.aborted /\ x.got = work[m].got
  BY <1>1, <1>2 DEF Work
<1>4. work' = [work EXCEPT ![m] = x]
  BY <1>1, <1>2, ChatFacts
<1>5. Stops(m, x, view) /\ CallOf(x, view)
  BY <1>1, <1>3 DEF Stops, CallOf
<1>6. ~mixed => InPlace(x, view)
  BY <1>1, <1>3 DEF ChatInv, InPlace
<1>7. UNCHANGED <<answer, stored, url, view, load, mixed>> /\ chats' \subseteq Chats
  BY <1>1, ChatFacts DEF server
<1> QED
  BY <1>1, <1>2, <1>4, <1>5, <1>6, <1>7, CallWorks

\* An uploaded file was in no conversation before: what has been read of one
\* did not name it.
LEMMA StoreFileKeeps ==
  ASSUME ChatInv, NEW a \in Uploads, StoreFile(a)
  PROVE  ChatInv'
<1>1. /\ a \in Calls /\ a \notin Messages /\ work[a].pc = "posting"
      /\ UNCHANGED <<chats, answer, url, view, load, mixed>>
      /\ work[a] \in Work /\ CallOf(work[a], view) /\ UploadOf(a, work[a])
  BY ChatFacts, WorkFacts, ChatAssumption DEF StoreFile, ChatInv
<1>2. work[a].chat \in Chats /\ stored[a] = NoChat
  BY <1>1 DEF CallOf, UploadOf, Placed
<1>3. PICK x \in Work : x = [work[a] EXCEPT !.pc = "open"]
  BY <1>1, WorkKept
<1>4. x.pc = "open" /\ x.chat = work[a].chat /\ x.version = work[a].version
  BY <1>1, <1>3, WorkKept
<1>5. work' = [work EXCEPT ![a] = x]
  BY <1>3 DEF StoreFile, Proceeds
<1>6. \A c \in Calls : work'[c] = IF c = a THEN x ELSE work[c]
  BY <1>5, ChatFacts
<1>7. /\ stored' \in [Uploads -> Chats \cup {NoChat}] /\ stored'[a] = work[a].chat
      /\ \A b \in Uploads : stored[b] # NoChat => stored'[b] = stored[b]
      /\ \A b \in Uploads \ {a} : stored'[b] = stored[b]
  BY <1>2, ChatFacts DEF StoreFile
<1>8. \A k \in Chats, got \in Snapshot : GotFrom(k, got) => GotFrom(k, got)'
  BY <1>7, ChatFacts DEF GotFrom, Snapshot
<1>9. ChatTypeOK'
  BY <1>1, <1>3, <1>5, <1>7 DEF ChatInv, ChatTypeOK
<1>10. \A m \in Messages : Stops(m, work[m], view)'
  BY <1>1, <1>6, ChatFacts DEF ChatInv, Stops
<1>11. \A c \in Calls : CallOf(work[c], view)'
  <2> SUFFICES ASSUME NEW c \in Calls PROVE CallOf(work[c], view)'
    OBVIOUS
  <2>1. CASE c = a
    BY <1>1, <1>2, <1>4, <1>6, <2>1 DEF CallOf
  <2>2. CASE c # a
    <3>1. work'[c] = work[c] /\ work[c].got \in Snapshot /\ CallOf(work[c], view)
      BY <1>6, <2>2, WorkFacts DEF Work
    <3> QED
      BY <1>1, <1>8, <3>1 DEF CallOf, Placed
  <2> QED
    BY <2>1, <2>2
<1>12. LoadOf(load)'
  <2>1. load.got \in Snapshot /\ LoadOf(load)
    BY DEF ChatInv, ChatTypeOK, Load
  <2> QED
    BY <1>1, <1>8, <2>1 DEF LoadOf
<1>13. \A b \in Uploads : UploadOf(b, work[b])'
  <2> SUFFICES ASSUME NEW b \in Uploads PROVE UploadOf(b, work[b])'
    OBVIOUS
  <2>1. CASE b = a
    BY <1>1, <1>4, <1>6, <1>7, <2>1 DEF UploadOf
  <2>2. CASE b # a
    BY <1>6, <1>7, <2>2, ChatFacts DEF ChatInv, UploadOf
  <2> QED
    BY <2>1, <2>2
<1>14. ASSUME ~mixed'
       PROVE  Pure(view, load)' /\ \A c \in Calls : InPlace(work[c], view)'
  <2>1. ~mixed /\ Pure(view, load) /\ \A c \in Calls : InPlace(work[c], view)
    BY <1>1, <1>14 DEF ChatInv
  <2>2. Seen(view)' = Seen(view) /\ NoChat \notin Seen(view)
    BY <1>1 DEF Seen
  <2>3. Pure(view, load)'
    BY <1>1, <1>7, <2>1, <2>2, ChatFacts DEF Pure
  <2>4. \A c \in Calls : InPlace(work[c], view)'
    BY <1>1, <1>4, <1>6, <2>1, <2>2 DEF InPlace, Placed
  <2> QED
    BY <2>3, <2>4
<1> QED
  BY <1>9, <1>10, <1>11, <1>12, <1>13, <1>14 DEF ChatInv

LEMMA AttachedKeeps ==
  ASSUME ChatInv, NEW a \in Uploads, Attached(a)
  PROVE  ChatInv'
<1>1. /\ a \in Calls /\ a \notin Messages /\ work[a].pc = "open" /\ Ends(a)
      /\ UNCHANGED <<server, url, load>> /\ mixed' = (mixed \/ ~InVersion(a))
      /\ view \in View /\ work[a] \in Work /\ UploadOf(a, work[a])
  BY ChatFacts, WorkFacts, ChatAssumption DEF Attached, ChatInv
<1> DEFINE files2 == view.files \cup {a}
           picked == view.selected \cup {a}
<1>2. files2 \subseteq Uploads /\ picked \subseteq Uploads
  BY ChatFacts
<1>3. view' = [view EXCEPT !.files = files2, !.selected = picked]
  BY DEF Attached
<1>4. /\ \A b \in files2 \cup picked : b \in view.files \cup view.selected \/ b = a
  OBVIOUS
<1> HIDE DEF files2, picked
<1>5. PICK v \in View : v = [view EXCEPT !.files = files2, !.selected = picked]
  BY <1>1, <1>2 DEF View
<1>6. /\ v.version = view.version /\ v.abort = view.abort /\ v.busy = view.busy
      /\ v.route = view.route /\ v.created = view.created
      /\ v.shown = view.shown /\ v.files = files2 /\ v.selected = picked
  BY <1>1, <1>5 DEF View
<1>7. ASSUME ~mixed'
      PROVE  Pure(v, load) /\ Seen(view) \subseteq Seen(v)
  <2>1. ~mixed /\ InVersion(a)
    BY <1>1, <1>7
  <2>2. Pure(view, load) /\ work[a].chat \in Seen(view)
    BY <1>1, <2>1 DEF ChatInv, InPlace, Placed, InVersion
  <2>3. stored[a] \in Seen(view)
    BY <1>1, <2>2 DEF UploadOf
  <2>4. Seen(v) = Seen(view)
    BY <1>6 DEF Seen
  <2> QED
    BY <1>4, <1>6, <2>2, <2>3, <2>4 DEF Pure
<1>8. url' \in Route /\ mixed' \in BOOLEAN /\ (mixed => mixed')
  BY <1>1, ChatFacts
<1>9. \A n \in Messages \ {a} : view.abort = n /\ view.busy => v.abort = n /\ v.busy
  BY <1>6
<1> QED
  BY <1>1, <1>3, <1>5, <1>6, <1>7, <1>8, <1>9, CallEnds

\* The view turns to v, and loads as x says, while no call moves.
LEMMA ViewTurns ==
  ASSUME ChatInv, NEW v \in View, view' = v, NEW x \in Load, load' = x,
         v.version = view.version, v.abort = view.abort, v.busy = view.busy,
         UNCHANGED <<chats, stored, work, mixed>>, url' \in Route,
         answer' \in [Messages -> [chat : Chats \cup {NoChat},
                                   status : {"none", "refused", "streams"}]],
         LoadOf(x), ~mixed => Pure(v, x) /\ Seen(view) \subseteq Seen(v)
  PROVE  ChatInv'
<1>1. ChatTypeOK'
  BY DEF ChatInv, ChatTypeOK
<1>2. \A m \in Messages : Stops(m, work[m], view)'
  BY DEF ChatInv, Stops
<1>3. \A c \in Calls : CallOf(work[c], view)'
  BY DEF ChatInv, CallOf, GotFrom
<1>4. LoadOf(load)'
  BY DEF LoadOf, GotFrom
<1>5. \A a \in Uploads : UploadOf(a, work[a])'
  BY DEF ChatInv, UploadOf
<1>6. ASSUME ~mixed'
      PROVE  Pure(view, load)' /\ \A c \in Calls : InPlace(work[c], view)'
  <2>1. Pure(v, x) /\ Seen(view) \subseteq Seen(v) /\ \A c \in Calls : InPlace(work[c], view)
    BY <1>6 DEF ChatInv
  <2>2. Pure(view, load)'
    BY <2>1 DEF Pure, Seen
  <2> QED
    BY <2>1, <2>2 DEF InPlace, Seen
<1> QED
  BY <1>1, <1>2, <1>3, <1>4, <1>5, <1>6 DEF ChatInv

LEMMA NoLoadFacts ==
  NoLoad \in Load /\ LoadOf(NoLoad) /\ NoLoad.phase = "none"
<1>1. Nothing \in Snapshot
  BY DEF Nothing, Snapshot
<1> QED
  BY <1>1 DEF NoLoad, Load, LoadOf

LEMMA AcceptKeeps ==
  ASSUME ChatInv, NEW m \in Messages, Accept(m)
  PROVE  ChatInv'
<1>1. work[m].chat \in Chats \cup {NoChat}
  BY ChatFacts, WorkFacts
<1>2. answer' \in [Messages -> [chat : Chats \cup {NoChat},
                                status : {"none", "refused", "streams"}]]
  BY <1>1 DEF Accept, ChatInv, ChatTypeOK
<1>3. UNCHANGED <<chats, stored, work, mixed, view, load, url>>
  BY DEF Accept
<1> QED
  BY <1>2, <1>3, ViewTurns, ChatFacts DEF ChatInv

LEMMA OpenChatKeeps ==
  ASSUME ChatInv, sent \in Nat, NEW k \in Chats \cup {NoChat}, OpenChat(k)
  PROVE  ChatInv'
<1>1. sent' \in Nat
  BY DEF OpenChat, Send
<1>2. url' \in Route
  BY <1>1 DEF OpenChat, Route
<1>3. UNCHANGED <<chats, stored, answer, work, mixed, view, load>>
  BY DEF OpenChat, server
<1>4. answer' \in [Messages -> [chat : Chats \cup {NoChat},
                                status : {"none", "refused", "streams"}]]
  BY <1>3 DEF ChatInv, ChatTypeOK
<1> QED
  BY <1>2, <1>3, <1>4, ViewTurns, ChatFacts DEF ChatInv

LEMMA DeselectKeeps ==
  ASSUME ChatInv, NEW a \in Uploads, Deselect(a)
  PROVE  ChatInv'
<1> DEFINE left == view.selected \ {a}
<1>1. left \subseteq view.selected /\ view' = [view EXCEPT !.selected = left]
  BY DEF Deselect
<1> HIDE DEF left
<1>2. PICK v \in View : v = [view EXCEPT !.selected = left]
  BY <1>1, ChatFacts DEF View
<1>3. /\ v.version = view.version /\ v.abort = view.abort /\ v.busy = view.busy
      /\ v.route = view.route /\ v.created = view.created
      /\ v.shown = view.shown /\ v.files = view.files /\ v.selected = left
  BY <1>2, ChatFacts DEF View
<1>4. Seen(v) = Seen(view)
  BY <1>3 DEF Seen
<1>5. ~mixed => Pure(v, load)
  BY <1>1, <1>3, <1>4 DEF ChatInv, Pure
<1>6. /\ UNCHANGED <<chats, stored, answer, work, mixed, load, url>>
      /\ answer' \in [Messages -> [chat : Chats \cup {NoChat},
                                   status : {"none", "refused", "streams"}]]
  BY DEF Deselect, server, ChatInv, ChatTypeOK
<1> QED
  BY <1>1, <1>2, <1>3, <1>4, <1>5, <1>6, ViewTurns, ChatFacts DEF ChatInv

LEMMA LoadReadKeeps ==
  ASSUME ChatInv, LoadRead
  PROVE  ChatInv'
<1>1. load \in Load /\ load.phase = "sent" /\ load.chat \in Chats
  BY ChatFacts DEF LoadRead, ChatInv, LoadOf
<1>2. PICK got \in Snapshot : got = Contents(load.chat) /\ GotFrom(load.chat, got)
  BY <1>1, ContentsFacts
<1>3. PICK x \in Load : x = [load EXCEPT !.phase = "read", !.got = got]
  BY <1>1 DEF Load
<1>4. x.phase = "read" /\ x.chat = load.chat /\ x.got = got
  BY <1>1, <1>3 DEF Load
<1>5. load' = x
  BY <1>2, <1>3 DEF LoadRead
<1>6. LoadOf(x)
  BY <1>1, <1>2, <1>4 DEF LoadOf
<1>7. ~mixed => Pure(view, x)
  BY <1>1, <1>4 DEF ChatInv, Pure
<1>8. /\ UNCHANGED <<chats, stored, answer, work, mixed, view, url>>
      /\ answer' \in [Messages -> [chat : Chats \cup {NoChat},
                                   status : {"none", "refused", "streams"}]]
  BY DEF LoadRead, server, ChatInv, ChatTypeOK
<1> QED
  BY <1>3, <1>5, <1>6, <1>7, <1>8, ViewTurns, ChatFacts

LEMMA LoadFailsKeeps ==
  ASSUME ChatInv, LoadFails
  PROVE  ChatInv'
<1>1. load' = NoLoad /\ UNCHANGED <<chats, stored, answer, work, mixed, view, url>>
  BY DEF LoadFails, server
<1>2. /\ ~mixed => Pure(view, NoLoad)
      /\ answer' \in [Messages -> [chat : Chats \cup {NoChat},
                                   status : {"none", "refused", "streams"}]]
  BY <1>1, NoLoadFacts DEF ChatInv, ChatTypeOK, Pure
<1> QED
  BY <1>1, <1>2, NoLoadFacts, ViewTurns, ChatFacts

LEMMA LoadedKeeps ==
  ASSUME ChatInv, Loaded
  PROVE  ChatInv'
<1>1. /\ load.got \in Snapshot /\ load.phase = "read" /\ load.chat \in Chats
      /\ GotFrom(load.chat, load.got)
  BY ChatFacts DEF Loaded, ChatInv, LoadOf, Load
<1>2. PICK v \in View : v = [view EXCEPT !.shown = load.got.shown, !.files = load.got.files,
                                         !.selected = {}]
  BY <1>1, ChatFacts DEF View, Snapshot
<1>3. /\ v.version = view.version /\ v.abort = view.abort /\ v.busy = view.busy
      /\ v.route = view.route /\ v.created = view.created
      /\ v.shown = load.got.shown /\ v.files = load.got.files /\ v.selected = {}
  BY <1>2, ChatFacts DEF View
<1>4. view' = v /\ load' = NoLoad /\ UNCHANGED <<chats, stored, answer, work, mixed, url>>
  BY <1>2 DEF Loaded, server
<1>5. Seen(v) = Seen(view)
  BY <1>3 DEF Seen
<1>6. ASSUME ~mixed
      PROVE  Pure(v, NoLoad)
  <2>1. Pure(view, load) /\ load.chat \in Seen(view)
    BY <1>1, <1>6, ChatFacts DEF ChatInv, Pure, Seen
  <2> QED
    BY <1>1, <1>3, <1>5, <2>1, NoLoadFacts DEF Pure, GotFrom
<1>7. answer' \in [Messages -> [chat : Chats \cup {NoChat},
                                status : {"none", "refused", "streams"}]]
  BY <1>4 DEF ChatInv, ChatTypeOK
<1> QED
  BY <1>2, <1>3, <1>4, <1>5, <1>6, <1>7, NoLoadFacts, ViewTurns, ChatFacts

\* The view of a conversation that the page has created goes on; another
\* route makes a new version, in which no call has its place.
LEMMA GoesOnKeeps ==
  ASSUME ChatInv, Render, view.created = url.chat, url.chat # NoChat
  PROVE  ChatInv'
<1>1. PICK v \in View : v = GoesOn
  BY ChatFacts DEF GoesOn, View
<1>2. /\ v.version = view.version /\ v.abort = view.abort /\ v.busy = view.busy
      /\ v.route = url /\ v.created = NoChat
      /\ v.shown = view.shown /\ v.files = view.files /\ v.selected = view.selected
  BY <1>1, ChatFacts DEF GoesOn, View
<1>3. view' = v /\ load' = NoLoad /\ UNCHANGED <<chats, stored, answer, work, mixed, url>>
  BY <1>1 DEF Render, server
<1>4. ASSUME ~mixed
      PROVE  Pure(v, NoLoad) /\ Seen(view) \subseteq Seen(v)
  <2>1. Pure(view, load)
    BY <1>4 DEF ChatInv
  <2>2. Seen(view) = {url.chat} /\ Seen(v) = {url.chat}
    BY <1>2, <2>1 DEF Pure, Seen
  <2> QED
    BY <1>2, <2>1, <2>2, NoLoadFacts DEF Pure
<1>5. answer' \in [Messages -> [chat : Chats \cup {NoChat},
                                status : {"none", "refused", "streams"}]]
  BY <1>3 DEF ChatInv, ChatTypeOK
<1> QED
  BY <1>1, <1>2, <1>3, <1>4, <1>5, NoLoadFacts, ViewTurns, ChatFacts

LEMMA ResetKeeps ==
  ASSUME ChatInv, Render, ~(view.created = url.chat /\ url.chat # NoChat)
  PROVE  ChatInv'
<1>1. PICK v \in View : v = Reset
  <2>1. view \in View /\ view.version + 1 \in Nat
    BY ChatFacts
  <2> QED
    BY <2>1, ChatFacts DEF Reset, View
<1>2. /\ v.version = view.version + 1 /\ v.route = url /\ v.created = view.created
      /\ v.shown = {} /\ v.files = {} /\ v.selected = {}
  BY <1>1, ChatFacts DEF Reset, View
<1>3. PICK x \in Load : x = IF url.chat = NoChat THEN NoLoad
                            ELSE [NoLoad EXCEPT !.phase = "sent", !.chat = url.chat]
  <2>1. NoLoad \in Load /\ url.chat \in Chats \cup {NoChat}
    BY NoLoadFacts, ChatFacts
  <2>2. CASE url.chat = NoChat
    BY <2>1, <2>2
  <2>3. CASE url.chat # NoChat
    <3>1. [NoLoad EXCEPT !.phase = "sent", !.chat = url.chat] \in Load
      BY <2>1 DEF Load
    <3> QED
      BY <2>3, <3>1
  <2> QED
    BY <2>2, <2>3
<1>4. /\ LoadOf(x) /\ (x.phase # "none" => x.chat = url.chat)
  <2>1. CASE url.chat = NoChat
    BY <1>3, <2>1, NoLoadFacts
  <2>2. CASE url.chat # NoChat
    <3>1. x = [NoLoad EXCEPT !.phase = "sent", !.chat = url.chat] /\ NoLoad \in Load
      BY <1>3, <2>2, NoLoadFacts
    <3>2. x.phase = "sent" /\ x.chat = url.chat
      BY <3>1 DEF Load
    <3> QED
      BY <2>2, <3>2, ChatFacts DEF LoadOf
  <2> QED
    BY <2>1, <2>2
<1>5. /\ view' = v /\ load' = x /\ UNCHANGED <<chats, stored, answer, url>>
      /\ mixed' = (mixed \/ view.created # NoChat)
      /\ work' = IF view.abort = NoMessage THEN work
                 ELSE [work EXCEPT ![view.abort].aborted = TRUE]
  BY <1>1, <1>3 DEF Render, server
<1>6. /\ work' \in [Calls -> Work]
      /\ \A c \in Calls : /\ work'[c].pc = work[c].pc /\ work'[c].chat = work[c].chat
                          /\ work'[c].version = work[c].version
                          /\ work'[c].got = work[c].got
                          /\ work[c].aborted => work'[c].aborted
      /\ view.abort \in Messages => work'[view.abort].aborted
  <2>1. CASE view.abort = NoMessage
    BY <1>5, <2>1, ChatFacts
  <2>2. CASE view.abort # NoMessage
    <3>1. view.abort \in Calls /\ work[view.abort] \in Work
      BY <2>2, ChatFacts, WorkFacts
    <3>2. PICK y \in Work : y = [work[view.abort] EXCEPT !.aborted = TRUE]
      BY <3>1 DEF Work
    <3>3. /\ y.pc = work[view.abort].pc /\ y.chat = work[view.abort].chat
          /\ y.version = work[view.abort].version /\ y.got = work[view.abort].got /\ y.aborted
      BY <3>1, <3>2 DEF Work
    <3>4. work' = [work EXCEPT ![view.abort] = y]
      BY <1>5, <2>2, <3>1, <3>2, ChatFacts
    <3>5. /\ work' \in [Calls -> Work]
          /\ \A c \in Calls : work'[c] = IF c = view.abort THEN y ELSE work[c]
      BY <3>1, <3>4, ChatFacts
    <3>6. ASSUME NEW c \in Calls
          PROVE  /\ work'[c].pc = work[c].pc /\ work'[c].chat = work[c].chat
                 /\ work'[c].version = work[c].version
                 /\ work'[c].got = work[c].got
                 /\ work[c].aborted => work'[c].aborted
      <4>1. CASE c = view.abort
        BY <3>3, <3>5, <4>1
      <4>2. CASE c # view.abort
        <5>1. work'[c] = work[c]
          BY <3>5, <4>2
        <5> QED
          BY <5>1
      <4> QED
        BY <4>1, <4>2
    <3>7. work'[view.abort].aborted
      BY <3>1, <3>3, <3>5
    <3> QED
      BY <3>5, <3>6, <3>7
  <2> QED
    BY <2>1, <2>2
<1>7. ChatTypeOK'
  BY <1>5, <1>6 DEF ChatInv, ChatTypeOK
<1>8. \A c \in Calls : work'[c].version <= view.version /\ view.version \in Nat
                       /\ work'[c].version \in Nat /\ work'[c].version # v.version
  BY <1>2, <1>6, WorkFacts, ChatFacts DEF CallOf
<1>9. \A m \in Messages : Stops(m, work[m], view)'
  <2> SUFFICES ASSUME NEW m \in Messages PROVE Stops(m, work[m], view)'
    OBVIOUS
  <2>1. m \in Calls /\ Stops(m, work[m], view)
    BY ChatFacts DEF ChatInv
  <2> QED
    BY <1>5, <1>6, <1>8, <2>1 DEF Stops
<1>10. \A c \in Calls : CallOf(work[c], view)'
  BY <1>2, <1>5, <1>6, <1>8, WorkFacts DEF CallOf, GotFrom
<1>11. LoadOf(load)'
  BY <1>4, <1>5 DEF LoadOf, GotFrom
<1>12. \A a \in Uploads : UploadOf(a, work[a])'
  BY <1>5, <1>6, ChatFacts DEF ChatInv, UploadOf
<1>13. ~mixed' => Pure(view, load)' /\ \A c \in Calls : InPlace(work[c], view)'
  BY <1>2, <1>4, <1>5, <1>8 DEF Pure, InPlace
<1> QED
  BY <1>7, <1>9, <1>10, <1>11, <1>12, <1>13 DEF ChatInv

LEMMA ChatInitially == ChatInit => ChatInv
<1> SUFFICES ASSUME ChatInit PROVE ChatInv
  OBVIOUS
<1>1. Nothing \in Snapshot /\ Unused \in Work /\ NoLoad \in Load /\ LoadOf(NoLoad)
      /\ NoLoad.phase = "none" /\ Unused.pc = "idle"
  BY OverFacts, NoLoadFacts DEF Nothing, Snapshot
<1>2. url \in Route
  BY DEF ChatInit, Route
<1>3. /\ view \in View /\ view.version = 0 /\ view.created = NoChat /\ view.shown = {}
      /\ view.files = {} /\ view.selected = {}
  BY <1>2 DEF ChatInit, View
<1>4. ChatTypeOK
  BY <1>1, <1>2, <1>3, ChatAssumption DEF ChatInit, ChatTypeOK
<1>5. \A c \in Calls : work[c].pc = "idle" /\ work[c].version = 0
  BY <1>1 DEF ChatInit, Unused
<1>6. \A c \in Calls : CallOf(work[c], view) /\ InPlace(work[c], view)
  BY <1>3, <1>5 DEF CallOf, InPlace, Placed
<1>7. \A m \in Messages : Stops(m, work[m], view)
  BY <1>5 DEF Stops, OnItsWay, Calls
<1>8. \A a \in Uploads : UploadOf(a, work[a])
  BY <1>5 DEF UploadOf, Calls, ChatInit
<1>9. LoadOf(load) /\ Pure(view, load)
  BY <1>1, <1>3 DEF ChatInit, Pure
<1> QED
  BY <1>4, <1>6, <1>7, <1>8, <1>9 DEF ChatInv

LEMMA SendingKeeps ==
  ASSUME ChatInv, NEW m \in Messages, Sending(m)
  PROVE  ChatInv'
<1>1. CASE ReloadFails(m)
  BY <1>1, CallStops, ChatFacts DEF ReloadFails
<1> QED
  BY <1>1, SendKeeps, PostsKeeps, NotCreatedKeeps, AcceptKeeps, StreamOpensKeeps,
     StreamEndsKeeps, ReadBackKeeps, ReloadedKeeps DEF Sending

LEMMA AttachingKeeps ==
  ASSUME ChatInv, NEW a \in Uploads, Attaching(a)
  PROVE  ChatInv'
<1>1. CASE NotAttached(a)
  BY <1>1, CallStops, ChatFacts DEF NotAttached
<1> QED
  BY <1>1, AttachKeeps, SendFileKeeps, StoreFileKeeps, AttachedKeeps, DeselectKeeps
  DEF Attaching

LEMMA ChatKeeps ==
  ASSUME ChatInv, Account, ChatNext
  PROVE  ChatInv'
<1>1. CASE \E k \in Chats \cup {NoChat} : OpenChat(k)
  <2>1. sent \in Nat
    BY DEF Account, MembershipTypeOK
  <2> QED
    BY <1>1, <2>1, OpenChatKeeps
<1>2. CASE Render
  BY <1>2, GoesOnKeeps, ResetKeeps
<1>3. CASE LoadRead \/ Loaded \/ LoadFails
  BY <1>3, LoadReadKeeps, LoadedKeeps, LoadFailsKeeps
<1>4. CASE StopAnswer
  BY <1>4, StopAnswerKeeps
<1>5. CASE \E c \in Calls : CreateChat(c)
  BY <1>5, CreateChatKeeps
<1>6. CASE \E m \in Messages : Sending(m)
  BY <1>6, SendingKeeps
<1>7. CASE \E a \in Uploads : Attaching(a)
  BY <1>7, AttachingKeeps
<1> QED
  BY <1>1, <1>2, <1>3, <1>4, <1>5, <1>6, <1>7 DEF ChatNext

LEMMA ChatLeft ==
  ASSUME ChatInv, UNCHANGED chat
  PROVE  ChatInv'
<1>1. /\ chats' = chats /\ answer' = answer /\ stored' = stored /\ url' = url
      /\ view' = view /\ load' = load /\ work' = work /\ mixed' = mixed
  BY DEF chat, server
<1> QED
  BY <1>1 DEF ChatInv, ChatTypeOK, Stops, CallOf, LoadOf, GotFrom, UploadOf, Pure, InPlace, Seen

LEMMA ChatHolds == Spec => []ChatInv
<1>1. Init => ChatInv
  BY ChatInitially DEF Init
<1>2. WorkspaceInv /\ ChatInv /\ [Next]_vars => ChatInv'
  BY ChatKeeps, ChatLeft DEF Next, vars, WorkspaceInv
<1> QED
  BY <1>1, <1>2, WorkspaceHolds, PTL DEF Spec

\* Every limit of the plan holds, of projects, workflows, files and bytes,
\* whatever requests overlap and whenever the plan changes: each is judged by a
\* plan the account has had, and counted under the account's lock
\* (projects.service.ts, workflows.service.ts, attachment.service.ts).
THEOREM StaysWithinPlan == Spec => []WithinPlan
<1>1. WorkspaceInv /\ LimitsInv /\ ChatInv => WithinPlan
  BY DEF WithinPlan, WorkspaceTypeOK, WorkspaceInv, Account, RunsInv, FilesInv, LimitsInv, ChatInv
<1> QED
  BY <1>1, WorkspaceHolds, LimitsHold, ChatHolds, PTL

\* What arrives late never mixes two conversations in one view, unless by one
\* of the three races that `mixed` names (chat.tsx).
THEOREM ConversationsStayApart == Spec => []ViewKeepsApart
<1>1. ChatInv => ViewKeepsApart
  BY DEF ChatInv, Pure, ViewKeepsApart, InView, Seen
<1> QED
  BY <1>1, ChatHolds, PTL

\* Stop, or leaving the view, reaches whatever is being answered: the one
\* message on its way that is not aborted yet is the one the page would abort.
THEOREM StopReaches == Spec => []StopReachesAnswer
<1>1. ASSUME ChatInv
      PROVE  StopReachesAnswer
  <2> SUFFICES ASSUME NEW m \in Messages, work[m].pc \in OnItsWay
               PROVE  work[m].aborted \/ (view.abort = m /\ view.busy /\ InVersion(m))
    BY DEF StopReachesAnswer, OnItsWay
  <2> QED
    BY <1>1 DEF ChatInv, Stops, InVersion
<1> QED
  BY <1>1, ChatHolds, PTL

=============================================================================
