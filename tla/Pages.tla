-------------------------------- MODULE Pages --------------------------------
(***************************************************************************)
(* The pages of the web client that list records and edit them: workflows, *)
(* projects, conversations, prompts, users, models, settings and the audit *)
(* history.  Each has a resource, which it loads for its path and token, a *)
(* form in a dialog, flags that say it is busy, and handlers that wait for *)
(* an answer.                                                              *)
(*                                                                         *)
(* An action is what runs between two awaits, with the render and the      *)
(* effects that follow it.                                                 *)
(***************************************************************************)
EXTENDS Integers, FiniteSets

CONSTANTS
  PageKinds,   \* of pages that are opened
  Rows,       \* records of a list
  Paths,      \* what a search asks for
  Holder,     \* the account of each access token, in the order of their issue
  MaxTurns,   \* bound: pages opened, searches, refreshes by hand, new tokens
  MaxSends    \* bound: operations sent

AllKinds == {"workflows", "projects", "conversations", "prompts", "users", "registry",
             "settings", "audit"}
Accounts == {Holder[k] : k \in DOMAIN Holder}
Nowhere  == "none"    \* no record, or no list
New      == "new"     \* the record of a form that creates one
NoAnswer == [path |-> Nowhere, owner |-> Nowhere, written |-> 0]

ASSUME PagesAssumption ==
  /\ PageKinds \subseteq AllKinds /\ PageKinds # {} /\ Paths # {}
  /\ {Nowhere, New, "page"} \cap Rows = {}
  /\ 1 \in DOMAIN Holder
  /\ MaxTurns \in Nat /\ MaxSends \in Nat

VARIABLES
  kind,     \* the page that is open
  path,     \* what it asks for
  token,    \* the access token, by its number
  resource, \* the state of the hook that loads the list
  reads,    \* its requests under way
  form,     \* the record that the form is for
  busy,     \* the busy flags that are set
  dialog,   \* what FeedbackProvider shows
  asked,    \* handlers that wait for an answer of the user
  calls,    \* handlers that wait for an answer of the server
  turns, sends, \* so far
  written,  \* server: changes of an account's records so far
  told      \* history: the last of them that the page knows has been made

pages == <<kind, path, token, resource, reads, form, busy, dialog, asked, calls,
           turns, sends, written, told>>

\* An operation of a page: whether it belongs to the form, asks the user first,
\* is refused while a flag is set, sets flags itself, changes records, loads the
\* list again when it has succeeded, and opens a dialog when it has failed.  A
\* flag is one of the page or of a part of it: a row, or the form.
Form(name, alarms) ==
  [name |-> name, form |-> TRUE, asks |-> FALSE, unless |-> {"page"}, sets |-> {"page"},
   changes |-> TRUE, refreshes |-> TRUE, alarms |-> alarms]
Button(name, asks, unless, sets, alarms) ==
  [name |-> name, form |-> FALSE, asks |-> asks, unless |-> unless, sets |-> sets,
   changes |-> TRUE, refreshes |-> TRUE, alarms |-> alarms]
Look(name, unless, sets) ==
  [Button(name, FALSE, unless, sets, TRUE) EXCEPT !.changes = FALSE, !.refreshes = FALSE]

WorkflowSave       == Form("WorkflowSave", TRUE)
WorkflowRun        == Look("WorkflowRun", {"page"}, {"page"})
WorkflowToggle     == Button("WorkflowToggle", FALSE, {"page"}, {}, TRUE)
WorkflowHistory    == Look("WorkflowHistory", {}, {})
WorkflowRemoval    == Button("WorkflowRemoval", TRUE, {"page"}, {}, TRUE)
ProjectSave        == Form("ProjectSave", TRUE)
ProjectView        == Look("ProjectView", {}, {})
ProjectRemoval     == Button("ProjectRemoval", TRUE, {}, {}, TRUE)
ConversationRename == Form("ConversationRename", FALSE)
ConversationRemoval == Button("ConversationRemoval", TRUE, {"page"}, {"page"}, FALSE)
PromptSave         == Form("PromptSave", FALSE)
PromptRemoval      == Button("PromptRemoval", TRUE, {"page"}, {"page"}, FALSE)
UserSave           == Form("UserSave", TRUE)
ConfigurationSave  == [Form("ConfigurationSave", FALSE) EXCEPT !.unless = {"part"},
                                                              !.sets = {"page", "part"}]
SettingSave        == Button("SettingSave", FALSE, {"part"}, {"part"}, FALSE)
SettingReset       == Button("SettingReset", TRUE, {"part"}, {"part"}, FALSE)

OperationsOf(k) ==
  CASE k = "workflows"     -> {WorkflowSave, WorkflowRun, WorkflowToggle, WorkflowHistory,
                               WorkflowRemoval}
    [] k = "projects"      -> {ProjectSave, ProjectView, ProjectRemoval}
    [] k = "conversations" -> {ConversationRename, ConversationRemoval}
    [] k = "prompts"       -> {PromptSave, PromptRemoval}
    [] k = "users"         -> {UserSave}
    [] k = "registry"      -> {ConfigurationSave}
    [] k = "settings"      -> {SettingSave, SettingReset}
    [] k = "audit"         -> {}

Administrative == {"users", "registry", "settings", "audit"}   \* use useAdminResource()

Viewer == Holder[token]

\* The flag of a part is its record.
Flags(what, row) == (what \ {"part"}) \cup (IF "part" \in what THEN {row} ELSE {})

\* What a handler resets when it ends: `here` is what is left of the page that
\* it belongs to, "all", or "page" without the part, or "none".
Resets(c) ==
  IF c.here = "none" THEN {}
  ELSE IF c.here = "page" THEN Flags(c.op.sets \ {"part"}, c.row)
  ELSE Flags(c.op.sets, c.row)

\* The parts that calls belong to are taken away, or replaced by new ones.
Parted(old, gone) == (old \ gone) \cup {[c EXCEPT !.here = "page"] : c \in gone}
PartsOf(gone)     == {c.row : c \in {d \in gone : "part" \in d.op.sets}}

----------------------------------------------------------------------------
(* The resource. *)

NoData == [path |-> Nowhere, token |-> 0, failed |-> FALSE, data |-> NoAnswer]
Fresh  == [result |-> NoData, loading |-> TRUE, failed |-> FALSE]

\* The effect: the request under way is aborted, and another one begins.
Aborted(r) == [r EXCEPT !.live = FALSE]
Loads(old, p, t) ==
  /\ reads' = {Aborted(r) : r \in old} \cup
                {[path |-> p, token |-> t, live |-> TRUE, data |-> NoAnswer]}
  /\ resource' = [resource EXCEPT !.loading = TRUE, !.failed = FALSE]

\* What the hook returns of its last result.
Current == resource.result.path = path /\ resource.result.token = token
Data    == IF Current /\ ~resource.result.failed THEN resource.result.data ELSE NoAnswer
Loading == resource.loading \/ (kind \notin Administrative /\ ~Current)
Failed  == resource.failed \/ (Current /\ resource.result.failed)

Read(r) ==   \* the request reaches the server
  /\ r \in reads /\ r.data = NoAnswer
  /\ LET owner == Holder[r.token]
         data  == [path |-> r.path, owner |-> owner, written |-> written[owner]]
     IN  reads' = (reads \ {r}) \cup {[r EXCEPT !.data = data]}
  /\ UNCHANGED <<kind, path, token, resource, form, busy, dialog, asked, calls, turns,
                 sends, written, told>>

\* Mutant: the signal is not looked at.
StillHeard(r) == TRUE
Heard(r)      == r.live

\* A row of the settings is a component of its own, named after its last change:
\* it starts afresh when another one is loaded.
Renewed(data) ==
  {c \in calls : kind = "settings" /\ c.here = "all" /\ c.change \in 1..data.written}

Arrive(r) ==
  /\ r \in reads /\ r.data # NoAnswer
  /\ reads' = reads \ {r}
  /\ IF Heard(r)
     THEN /\ resource' = [result |-> [path |-> r.path, token |-> r.token, failed |-> FALSE,
                                      data |-> r.data],
                          loading |-> FALSE, failed |-> FALSE]
          /\ busy' = busy \ PartsOf(Renewed(r.data))
          /\ calls' = Parted(calls, Renewed(r.data))
     ELSE UNCHANGED <<resource, busy, calls>>
  /\ UNCHANGED <<kind, path, token, form, dialog, asked, turns, sends, written, told>>

\* useAdminResource() keeps its last result beside the error.
ReadFails(r) ==
  /\ r \in reads
  /\ reads' = reads \ {r}
  /\ resource' =
       IF ~Heard(r) THEN resource
       ELSE IF kind \in Administrative THEN [resource EXCEPT !.loading = FALSE, !.failed = TRUE]
       ELSE [resource EXCEPT !.loading = FALSE,
               !.result = [path |-> r.path, token |-> r.token, failed |-> TRUE, data |-> NoAnswer]]
  /\ UNCHANGED <<kind, path, token, form, busy, dialog, asked, calls, turns, sends, written, told>>

----------------------------------------------------------------------------
(* What the user does. *)

Turn == turns < MaxTurns /\ turns' = turns + 1

Uncovered == dialog = "none" /\ form = Nowhere   \* dialogs cover the page

OpenPage(k) ==
  /\ Turn /\ dialog = "none" /\ k # kind
  /\ kind' = k /\ path' \in Paths
  /\ reads' = {Aborted(r) : r \in reads} \cup
                {[path |-> path', token |-> token, live |-> TRUE, data |-> NoAnswer]}
  /\ resource' = Fresh
  /\ form' = Nowhere /\ busy' = {}
  /\ calls' = {[c EXCEPT !.here = "none"] : c \in calls}
  /\ told' = [a \in Accounts |-> 0]
  /\ UNCHANGED <<token, dialog, asked, sends, written>>

\* Pages with a filter; that of the audit history is applied, or cleared, at
\* once.
Filtered == {"conversations", "users", "audit"}

Search(p) ==
  /\ Turn /\ Uncovered /\ kind \in Filtered /\ p # path
  /\ path' = p
  /\ Loads(reads, p, token)
  /\ UNCHANGED <<kind, token, form, busy, dialog, asked, calls, sends, written, told>>

\* "Try again" and "Refresh".
Refresh ==
  /\ Turn /\ Uncovered
  /\ Loads(reads, path, token)
  /\ UNCHANGED <<kind, path, token, form, busy, dialog, asked, calls, sends, written, told>>

\* The session has been renewed, or belongs to another account.  Until the list
\* has been loaded for it, there are no rows, and no form of the registry.
NextToken ==
  /\ Turn /\ token + 1 \in DOMAIN Holder
  /\ token' = token + 1
  /\ Loads(reads, path, token')
  /\ LET gone == {c \in calls : c.here = "all" /\ kind \in {"settings", "registry"}}
     IN  calls' = Parted(calls, gone) /\ busy' = busy \ PartsOf(gone)
  /\ UNCHANGED <<kind, path, form, dialog, asked, sends, written, told>>

\* Which buttons open the form: some are disabled while the page is busy.
Creates == \/ kind \in {"projects", "prompts", "users"}
           \/ kind = "workflows" /\ busy = {}
           \/ kind = "registry" /\ Data # NoAnswer
Edits   == /\ Data # NoAnswer
           /\ \/ kind \in {"workflows", "projects", "users"} /\ ~Loading
              \/ kind \in {"conversations", "prompts"} /\ busy = {} /\ ~Loading
              \/ kind = "registry"

OpenForm(row) ==
  /\ Uncovered
  /\ IF row = New THEN Creates ELSE Edits
  /\ form' = row
  /\ UNCHANGED <<kind, path, token, resource, reads, busy, dialog, asked, calls, turns, sends,
                 written, told>>

CloseForm ==
  /\ dialog # "confirm" /\ form # Nowhere /\ "page" \notin busy
  /\ form' = Nowhere
  /\ UNCHANGED <<kind, path, token, resource, reads, busy, dialog, asked, calls, turns, sends,
                 written, told>>

Dismiss ==
  /\ dialog = "alert"
  /\ dialog' = "none"
  /\ UNCHANGED <<kind, path, token, resource, reads, form, busy, asked, calls, turns, sends,
                 written, told>>

----------------------------------------------------------------------------
(* Handlers. *)

\* Mutant: the flags are not looked at.
AtAnyTime(op, row) == TRUE
Ready(op, row) == Flags(op.unless, row) \cap busy = {}

\* The request of a handler, with its place in the order of sending, and with
\* the token that the page had when the user began.
Sends(op, row, t) ==
  /\ sends < MaxSends /\ sends' = sends + 1
  /\ busy' = busy \cup Flags(op.sets, row)
  /\ calls' = calls \cup {[op |-> op, row |-> row, number |-> sends, token |-> t,
                           here |-> "all", at |-> "sent", change |-> 0]}

Submit(op) ==
  /\ op \in OperationsOf(kind) /\ op.form
  /\ dialog = "none" /\ form # Nowhere /\ Ready(op, form)
  /\ kind = "registry" => Data # NoAnswer
  /\ Sends(op, form, token)
  /\ UNCHANGED <<kind, path, token, resource, reads, form, dialog, asked, turns, written, told>>

Click(op, row) ==
  /\ op \in OperationsOf(kind) /\ ~op.form
  /\ Uncovered /\ Data # NoAnswer /\ Ready(op, row)
  /\ ~Loading \/ kind = "settings"
  /\ IF op.asks THEN /\ dialog' = "confirm" /\ asked' = {[op |-> op, row |-> row, token |-> token]}
                     /\ UNCHANGED <<busy, calls, sends>>
     ELSE Sends(op, row, token) /\ UNCHANGED <<dialog, asked>>
  /\ UNCHANGED <<kind, path, token, resource, reads, form, turns, written, told>>

Confirm(x) ==
  /\ dialog = "confirm" /\ x \in asked
  /\ dialog' = "none" /\ asked' = asked \ {x}
  /\ Sends(x.op, x.row, x.token)
  /\ UNCHANGED <<kind, path, token, resource, reads, form, turns, written, told>>

Decline ==
  /\ dialog = "confirm"
  /\ dialog' = "none" /\ asked' = {}
  /\ UNCHANGED <<kind, path, token, resource, reads, form, busy, calls, turns, sends, written,
                 told>>

\* The server makes the change.
Make(c) ==
  /\ c \in calls /\ c.at = "sent"
  /\ LET owner == Holder[c.token]
         n     == written[owner] + (IF c.op.changes THEN 1 ELSE 0)
     IN  /\ written' = [written EXCEPT ![owner] = n]
         /\ calls' = (calls \ {c}) \cup {[c EXCEPT !.at = "made", !.change = n]}
  /\ UNCHANGED <<kind, path, token, resource, reads, form, busy, dialog, asked, turns, sends, told>>

Succeeds(c) ==
  /\ c \in calls /\ c.at = "made"
  /\ calls' = calls \ {c}
  /\ busy' = busy \ Resets(c)
  /\ form' = IF c.op.form /\ c.here # "none" THEN Nowhere ELSE form
  /\ IF c.op.refreshes /\ c.here # "none"
     THEN /\ Loads(reads, path, token)
          /\ told' = [told EXCEPT ![Holder[c.token]] = IF @ < c.change THEN c.change ELSE @]
     ELSE UNCHANGED <<reads, resource, told>>
  /\ UNCHANGED <<kind, path, token, dialog, asked, turns, sends, written>>

\* The server refuses, its answer is lost, or the user stops waiting for a run.
\* An alert takes the place of a question, which is answered with no.
Fails(c) ==
  /\ c \in calls
  /\ calls' = calls \ {c}
  /\ busy' = busy \ Resets(c)
  /\ \/ c.op.alarms /\ dialog' = "alert" /\ asked' = {}
     \/ (~c.op.alarms \/ c.op = WorkflowRun) /\ UNCHANGED <<dialog, asked>>
  /\ UNCHANGED <<kind, path, token, resource, reads, form, turns, sends, written, told>>

----------------------------------------------------------------------------
PagesInit ==
  /\ kind \in PageKinds
  /\ path = CHOOSE p \in Paths : TRUE
  /\ token = 1
  /\ resource = Fresh
  /\ reads = {[path |-> path, token |-> token, live |-> TRUE, data |-> NoAnswer]}
  /\ form = Nowhere /\ busy = {} /\ dialog = "none" /\ asked = {} /\ calls = {}
  /\ turns = 0 /\ sends = 0
  /\ written = [a \in Accounts |-> 0] /\ told = [a \in Accounts |-> 0]

PagesNext ==
  \/ \E r \in reads : Read(r) \/ Arrive(r) \/ ReadFails(r)
  \/ \E k \in PageKinds : OpenPage(k)
  \/ \E p \in Paths : Search(p)
  \/ Refresh \/ NextToken
  \/ \E row \in Rows \cup {New} : OpenForm(row)
  \/ CloseForm \/ Dismiss \/ Decline
  \/ \E op \in OperationsOf(kind) : Submit(op) \/ \E row \in Rows : Click(op, row)
  \/ \E x \in asked : Confirm(x)
  \/ \E c \in calls : Make(c) \/ Succeeds(c) \/ Fails(c)

PagesSpec == PagesInit /\ [][PagesNext]_pages

----------------------------------------------------------------------------
(* Properties. *)

(* However requests for a list overtake each other, while its page loads   *)
(* it again after a change, a search or a new token: what a page shows is  *)
(* of the account and the search that it is about; and once it is neither  *)
(* loading nor in error, it shows every change that it has reported to the *)
(* user as made.                                                           *)
ShowsCurrent ==
  Data # NoAnswer =>
    /\ Data.owner = Viewer /\ Data.path = path
    /\ ~Loading /\ ~Failed => Data.written >= told[Viewer]

(* No page waits for ever, although a part of it may be replaced while its *)
(* handler waits: a flag is set only while a handler that will reset it    *)
(* has a request under way; a handler that excludes others keeps them out  *)
(* until its answer has come; and one that has asked the user has its      *)
(* question on the screen.                                                 *)
NothingStuck ==
  /\ \A flag \in busy : \E c \in calls : flag \in Resets(c)
  /\ \A c \in calls : c.here = "all" => Resets(c) \cap Flags(c.op.unless, c.row) \subseteq busy
  /\ asked # {} <=> dialog = "confirm"
=============================================================================
