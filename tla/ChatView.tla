------------------------------ MODULE ChatView ------------------------------
(***************************************************************************)
(* The chat page, chat.tsx: the view of one conversation at a time, while  *)
(* messages are answered, files are uploaded and the user moves on.        *)
(*                                                                         *)
(* The page keeps no copy per conversation: what arrives late is told from *)
(* what belongs to the view by a version, which every change of the route  *)
(* raises, and by a flag for the view that was created by the page itself. *)
(***************************************************************************)
EXTENDS Membership

CONSTANTS
  Messages,   \* messages the user sends, numbered from 1
  Uploads,    \* files the user attaches
  Chats,      \* identifiers of conversations, numbered from 1
  Existing    \* conversations from earlier visits

ASSUME ChatAssumption ==
  /\ Messages \subseteq Nat \ {0} /\ Chats \subseteq Nat \ {0}
  /\ Existing \subseteq Chats
  /\ Messages \cap Uploads = {}

VARIABLES
  chats,    \* server: Conversation rows
  answer,   \* server: the request for an answer and its Message row
  stored,   \* server: the conversation of an uploaded file
  url,      \* the route the router was last asked for
  view,     \* the state and the refs of the component
  load,     \* loadConversation() of the route in view
  work,     \* calls of send() and attach() in progress
  mixed     \* history: two conversations have met in one view

server  == <<chats, answer, stored>>
chat    == <<server, url, view, load, work, mixed>>

NoChat    == 0   \* the page of a new chat
NoMessage == 0
Calls == Messages \cup Uploads
Least(S) == CHOOSE n \in S : \A k \in S : n <= k
Route == [chat : Chats \cup {NoChat}, click : Nat]  \* ?id=, ?new=
Shown == [message : Messages, chat : Chats]

\* `route` is that of the last render.  `created` is createdNavigation, `abort`
\* the message whose controller abort.current is.
View == [route : Route, version : Nat, created : Chats \cup {NoChat}, busy : BOOLEAN,
         abort : Messages \cup {NoMessage}, shown : SUBSET Shown,
         files : SUBSET Uploads, selected : SUBSET Uploads]

\* What the server answers to a read of a conversation.
Snapshot == [shown : SUBSET Shown, files : SUBSET Uploads]
Nothing  == [shown |-> {}, files |-> {}]

Load   == [phase : {"none", "sent", "read"}, chat : Chats \cup {NoChat}, got : Snapshot]
NoLoad == [phase |-> "none", chat |-> NoChat, got |-> Nothing]

Work == [pc : {"idle", "creating", "created", "posting", "open", "reloading", "read", "over"},
         chat : Chats \cup {NoChat}, version : Nat, aborted : BOOLEAN, got : Snapshot]
Unused == [pc |-> "idle", chat |-> NoChat, version |-> 0, aborted |-> FALSE, got |-> Nothing]

Over == [Unused EXCEPT !.pc = "over"]
Proceeds(c, label) == work' = [work EXCEPT ![c].pc = label]
Ends(c) == work' = [work EXCEPT ![c] = Over]

Contents(k) == [shown |-> {[message |-> m, chat |-> k] : m \in {n \in Messages :
                         answer[n].chat = k /\ answer[n].status = "streams"}},
            files |-> {a \in Uploads : stored[a] = k}]

----------------------------------------------------------------------------
(* The router and the effect of a change of the route. *)

OpenChat(k) ==
  /\ Send
  /\ k \in chats \cup {NoChat}
  /\ url' = [chat |-> k, click |-> IF k = NoChat THEN sent' ELSE 0]
  /\ UNCHANGED <<server, view, load, work, mixed>>

\* The view of a conversation that the page has created just goes on.
GoesOn == [view EXCEPT !.route = url, !.created = NoChat]

Reset == [view EXCEPT !.route = url, !.version = @ + 1, !.busy = FALSE, !.abort = NoMessage,
                      !.shown = {}, !.files = {}, !.selected = {}]

Render ==
  /\ url # view.route
  /\ IF view.created = url.chat /\ url.chat # NoChat
     THEN view' = GoesOn /\ load' = NoLoad /\ UNCHANGED <<work, mixed>>
     ELSE /\ view' = Reset
          /\ load' = IF url.chat = NoChat THEN NoLoad
                     ELSE [NoLoad EXCEPT !.phase = "sent", !.chat = url.chat]
          /\ work' = IF view.abort = NoMessage THEN work
                     ELSE [work EXCEPT ![view.abort].aborted = TRUE]
          /\ mixed' = (mixed \/ view.created # NoChat)
  /\ UNCHANGED <<account, server, url>>

LoadRead ==
  /\ load.phase = "sent"
  /\ load' = [load EXCEPT !.phase = "read", !.got = Contents(load.chat)]
  /\ UNCHANGED <<account, server, url, view, work, mixed>>

Loaded ==
  /\ load.phase = "read"
  /\ view' = [view EXCEPT !.shown = load.got.shown, !.files = load.got.files, !.selected = {}]
  /\ load' = NoLoad
  /\ UNCHANGED <<account, server, url, work, mixed>>

LoadFails ==
  /\ load.phase # "none"
  /\ Fault
  /\ load' = NoLoad
  /\ UNCHANGED <<server, url, view, work, mixed>>

----------------------------------------------------------------------------
(* ensureConversation(), for send() and for attach(). *)

Starting(c) ==
  [Unused EXCEPT !.pc = IF view.route.chat = NoChat THEN "creating" ELSE "posting",
                 !.chat = view.route.chat, !.version = view.version]

CreateChat(c) ==
  /\ work[c].pc = "creating"
  /\ Chats \ chats # {}
  /\ LET k == Least(Chats \ chats)
     IN  /\ chats' = chats \cup {k}
         /\ work' = [work EXCEPT ![c].pc = "created", ![c].chat = k]
  /\ UNCHANGED <<account, answer, stored, url, view, load, mixed>>

InAnyVersion(c) == TRUE   \* faulty variant: what is late is taken up
InVersion(c) == work[c].version = view.version

\* The conversation has been created: the page goes to it, if the view is
\* still the one that asked for it.
Arrives(c) ==
  /\ url' = [chat |-> work[c].chat, click |-> 0]
  /\ mixed' = (mixed \/ view.created # NoChat \/ view.route.chat # NoChat)

Arrived(c) == [view EXCEPT !.created = work[c].chat]

CreateFails(c) ==
  /\ work[c].pc = "creating"
  /\ Fault

----------------------------------------------------------------------------
(* send() *)

SendMessage(m) ==
  /\ Send
  /\ work[m].pc = "idle" /\ \A n \in Messages : n < m => work[n].pc # "idle"
  /\ view.abort = NoMessage /\ ~view.busy
  /\ view' = [view EXCEPT !.busy = TRUE, !.abort = m]
  /\ work' = [work EXCEPT ![m] = Starting(m)]
  /\ UNCHANGED <<server, url, load, mixed>>

\* The `finally`, in a view v.  The faulty variant settles any view.
SettlesAnyView(m, v) ==
  /\ view' = [v EXCEPT !.busy = FALSE, !.abort = NoMessage]
  /\ IF work[m].chat = NoChat THEN Ends(m) ELSE Proceeds(m, "reloading")
Settles(m, v) ==
  IF work[m].version = v.version
  THEN /\ view' = [v EXCEPT !.busy = FALSE, !.abort = NoMessage]
       /\ IF work[m].chat = NoChat THEN Ends(m) ELSE Proceeds(m, "reloading")
  ELSE view' = v /\ Ends(m)

Posts(m) ==
  /\ work[m].pc = "created"
  /\ IF ~InVersion(m) THEN Settles(m, view) /\ UNCHANGED <<url, mixed>>
     ELSE /\ Arrives(m)
          /\ IF work[m].aborted THEN Settles(m, Arrived(m))
             ELSE view' = Arrived(m) /\ Proceeds(m, "posting")
  /\ UNCHANGED <<account, server, load>>

NotCreated(m) ==
  /\ CreateFails(m)
  /\ Settles(m, view)
  /\ UNCHANGED <<server, url, load, mixed>>

\* The server answers with a stream, and writes the messages, or refuses.
Accept(m) ==
  /\ work[m].pc = "posting" /\ answer[m].status = "none"
  /\ work[m].chat \in chats
  /\ \E status \in {"refused", "streams"} :
       answer' = [answer EXCEPT ![m] = [chat |-> work[m].chat, status |-> status]]
  /\ UNCHANGED <<account, chats, stored, url, view, load, work, mixed>>

StreamOpens(m) ==
  /\ work[m].pc = "posting" /\ ~work[m].aborted
  /\ answer[m].status = "streams"
  /\ view' = [view EXCEPT !.shown = @ \cup {[message |-> m, chat |-> work[m].chat]}]
  /\ Proceeds(m, "open")
  /\ UNCHANGED <<account, server, url, load, mixed>>

\* The stream ends, is cut off or aborted; the request was refused or lost.
StreamEnds(m) ==
  /\ \/ work[m].pc = "open" /\ UNCHANGED account
     \/ work[m].pc = "posting" /\ answer[m].status = "refused" /\ UNCHANGED account
     \/ work[m].pc = "posting" /\ work[m].aborted /\ UNCHANGED account
     \/ work[m].pc = "posting" /\ Fault
  /\ Settles(m, view)
  /\ UNCHANGED <<server, url, load, mixed>>

ReadBack(m) ==
  /\ work[m].pc = "reloading"
  /\ work' = [work EXCEPT ![m].pc = "read", ![m].got = Contents(work[m].chat)]
  /\ UNCHANGED <<account, server, url, view, load, mixed>>

Reloaded(m) ==
  /\ work[m].pc = "read"
  /\ view' = IF InVersion(m)
             THEN [view EXCEPT !.shown = work[m].got.shown, !.files = work[m].got.files]
             ELSE view
  /\ Ends(m)
  /\ UNCHANGED <<account, server, url, load, mixed>>

ReloadFails(m) ==
  /\ work[m].pc = "reloading"
  /\ Fault
  /\ Ends(m)
  /\ UNCHANGED <<server, url, view, load, mixed>>

StopAnswer ==
  /\ view.busy /\ view.abort # NoMessage /\ ~work[view.abort].aborted
  /\ work' = [work EXCEPT ![view.abort].aborted = TRUE]
  /\ UNCHANGED <<account, server, url, view, load, mixed>>

----------------------------------------------------------------------------
(* attach() *)

Attach(a) ==
  /\ Send
  /\ work[a].pc = "idle" /\ ~view.busy
  /\ work' = [work EXCEPT ![a] = Starting(a)]
  /\ UNCHANGED <<server, url, view, load, mixed>>

SendFile(a) ==
  /\ work[a].pc = "created"
  /\ IF ~InVersion(a) THEN Ends(a) /\ UNCHANGED <<view, url, mixed>>
     ELSE Arrives(a) /\ view' = Arrived(a) /\ Proceeds(a, "posting")
  /\ UNCHANGED <<account, server, load>>

StoreFile(a) ==
  /\ work[a].pc = "posting" /\ work[a].chat \in chats
  /\ stored' = [stored EXCEPT ![a] = work[a].chat]
  /\ Proceeds(a, "open")
  /\ UNCHANGED <<account, chats, answer, url, view, load, mixed>>

\* No version is compared here.
Attached(a) ==
  /\ work[a].pc = "open"
  /\ view' = [view EXCEPT !.files = @ \cup {a}, !.selected = @ \cup {a}]
  /\ mixed' = (mixed \/ ~InVersion(a))
  /\ Ends(a)
  /\ UNCHANGED <<account, server, url, load>>

NotAttached(a) ==
  /\ work[a].pc \in {"creating", "posting"}
  /\ Fault
  /\ Ends(a)
  /\ UNCHANGED <<server, url, view, load, mixed>>

Deselect(a) ==
  /\ a \in view.selected /\ ~view.busy
  /\ view' = [view EXCEPT !.selected = @ \ {a}]
  /\ UNCHANGED <<account, server, url, load, work, mixed>>

----------------------------------------------------------------------------
ChatInit ==
  /\ chats = Existing
  /\ answer = [m \in Messages |-> [chat |-> NoChat, status |-> "none"]]
  /\ stored = [a \in Uploads |-> NoChat]
  /\ url = [chat |-> NoChat, click |-> 0]
  /\ view = [route |-> url, version |-> 0, created |-> NoChat, busy |-> FALSE,
             abort |-> NoMessage, shown |-> {}, files |-> {}, selected |-> {}]
  /\ load = NoLoad
  /\ work = [c \in Calls |-> Unused]
  /\ mixed = FALSE

Sending(m) ==
  \/ SendMessage(m) \/ Posts(m) \/ NotCreated(m) \/ Accept(m)
  \/ StreamOpens(m) \/ StreamEnds(m) \/ ReadBack(m) \/ Reloaded(m) \/ ReloadFails(m)

Attaching(a) ==
  Attach(a) \/ SendFile(a) \/ StoreFile(a) \/ Attached(a) \/ NotAttached(a) \/ Deselect(a)

ChatNext ==
  \/ \E k \in Chats \cup {NoChat} : OpenChat(k)
  \/ Render \/ LoadRead \/ Loaded \/ LoadFails \/ StopAnswer
  \/ \E c \in Calls : CreateChat(c)
  \/ \E m \in Messages : Sending(m)
  \/ \E a \in Uploads : Attaching(a)

ChatTypeOK ==
  /\ chats \subseteq Chats
  /\ answer \in [Messages -> [chat : Chats \cup {NoChat},
                              status : {"none", "refused", "streams"}]]
  /\ stored \in [Uploads -> Chats \cup {NoChat}]
  /\ url \in Route /\ view \in View /\ load \in Load
  /\ work \in [Calls -> Work] /\ mixed \in BOOLEAN

(***************************************************************************)
(* "A route change starts a separate conversation" (chat.tsx): answers and *)
(* files in view belong to the conversation of its route, or to the one    *)
(* created for it, whatever arrives late from an earlier view.  Not so     *)
(* once `mixed`: a second request has created a conversation for the same  *)
(* view, a click has overtaken the navigation to a created conversation,   *)
(* or attach() has taken up an upload of another view.                     *)
(***************************************************************************)
InView == {view.route.chat, view.created} \ {NoChat}

ViewKeepsApart ==
  ~mixed => /\ \A s \in view.shown : s.chat \in InView
            /\ \A a \in view.files \cup view.selected : stored[a] \in InView

(***************************************************************************)
(* The user, or leaving the view, can always stop what is being answered:  *)
(* of the messages on their way only one is not aborted, and it is the one *)
(* that the button Stop and the next change of the route abort.            *)
(***************************************************************************)
StopReachesAnswer ==
  \A m \in Messages :
    work[m].pc \in {"creating", "created", "posting", "open"} =>
      work[m].aborted \/ (view.abort = m /\ view.busy /\ InVersion(m))

=============================================================================
