-------------------------------- MODULE Files --------------------------------
(***************************************************************************)
(* Uploaded and generated files: attachment.service.ts, and the deletion   *)
(* of a conversation in workspace.controller.ts.                           *)
(*                                                                         *)
(* A file is kept twice, as bytes on a disk and as a row of Attachment,    *)
(* with no transaction over both.  It is written before its row and        *)
(* unlinked after it; a refused row takes its bytes away again.            *)
(***************************************************************************)
EXTENDS Membership

CONSTANTS
  FileIds,        \* random names of files
  Size,           \* their sizes
  Home,           \* the conversation they are sent to
  Conversations,
  Transfers       \* slots for requests in flight

ASSUME FileAssumption ==
  /\ IsFiniteSet(FileIds)
  /\ Size \in [FileIds -> Nat]
  /\ Home \in [FileIds -> Conversations]

VARIABLES
  disk,         \* files in CHAT_STORAGE_DIR
  attachments,  \* Attachment rows
  conversations,\* Conversation rows
  used,         \* names given out so far
  transfer      \* requests in flight

storage == <<disk, attachments, conversations>>
files   == <<storage, used, transfer>>

\* A request: where it stands, the file it is at, the plan it read, the
\* conversation it deletes and the files of it that are left.
Transfer == [pc : {"idle", "policies", "write", "insert", "unwrite", "row", "unlink",
                   "list", "next", "drop"},
             file : FileIds \cup {"none"}, tier : Tiers \cup {"none"},
             conversation : Conversations \cup {"none"}, left : SUBSET FileIds]

Quiet == [pc |-> "idle", file |-> "none", tier |-> "none", conversation |-> "none",
          left |-> {}]

Moves(t, x) == transfer' = [transfer EXCEPT ![t] = IF x.pc = "idle" THEN Quiet ELSE x]
Goes(t, label) == Moves(t, [transfer[t] EXCEPT !.pc = label])

(***************************************************************************)
(* upload(), and saveDocument() and saveGenerated() with a file of a model *)
(***************************************************************************)
Upload(t, f) ==
  /\ transfer[t] = Quiet /\ Send
  /\ f \notin used
  /\ used' = used \cup {f}
  /\ Moves(t, [Quiet EXCEPT !.pc = "policies", !.file = f])
  /\ UNCHANGED storage

\* The plan is read once, before the account is locked.
ReadPolicies(t) ==
  /\ transfer[t].pc = "policies"
  /\ IF Allows[tier].files = 0
       THEN Goes(t, "idle")
       ELSE Moves(t, [transfer[t] EXCEPT !.pc = "write", !.tier = tier])
  /\ UNCHANGED <<account, storage, used>>

Write(t) ==
  /\ transfer[t].pc = "write"
  /\ disk' = disk \cup {transfer[t].file}
  /\ Goes(t, "insert")
  /\ UNCHANGED <<account, attachments, conversations, used>>

\* checkStorage(), over the rows of all conversations: how many bytes they
\* account for, each byte with its place in its file
Bytes(S) == UNION {{f} \X (1..Size[f]) : f \in S}
Total == Cardinality(Bytes(attachments))

\* Mutant: the file itself is not counted.
FitsWithoutItself(f, p) == /\ Total <= Allows[p].bytes
                           /\ Cardinality(attachments) < Allows[p].files

Fits(f, p) == /\ Total + Size[f] <= Allows[p].bytes
              /\ Cardinality(attachments) < Allows[p].files

\* The transaction: it runs with the account's row locked and also fails when
\* the conversation is gone.
Insert(t) ==
  /\ transfer[t].pc = "insert"
  /\ LET f == transfer[t].file IN
     IF Fits(f, transfer[t].tier) /\ Home[f] \in conversations
       THEN attachments' = attachments \cup {f} /\ Goes(t, "idle")
       ELSE Goes(t, "unwrite") /\ UNCHANGED attachments
  /\ UNCHANGED <<account, disk, conversations, used>>

Unwrite(t) ==
  /\ transfer[t].pc = "unwrite"
  /\ disk' = disk \ {transfer[t].file}
  /\ Goes(t, "idle")
  /\ UNCHANGED <<account, attachments, conversations, used>>

(***************************************************************************)
(* remove() of a file, and the deletion of a conversation, which removes   *)
(* the files it found one after the other and then the conversation; rows  *)
(* that came in between go with it.                                        *)
(***************************************************************************)
Remove(t, f) ==
  /\ transfer[t] = Quiet /\ Send
  /\ f \in attachments
  /\ Moves(t, [Quiet EXCEPT !.pc = "row", !.file = f])
  /\ UNCHANGED <<storage, used>>

\* The delete of a row that is gone throws.
DeleteRow(t) ==
  /\ transfer[t].pc = "row"
  /\ Goes(t, IF transfer[t].file \in attachments THEN "unlink" ELSE "idle")
  /\ attachments' = attachments \ {transfer[t].file}
  /\ UNCHANGED <<account, disk, conversations, used>>

Unlink(t) ==
  /\ transfer[t].pc = "unlink"
  /\ disk' = disk \ {transfer[t].file}
  /\ Goes(t, IF transfer[t].conversation = "none" THEN "idle" ELSE "next")
  /\ UNCHANGED <<account, attachments, conversations, used>>

DeleteConversation(t, c) ==
  /\ transfer[t] = Quiet /\ Send
  /\ c \in conversations
  /\ Moves(t, [Quiet EXCEPT !.pc = "list", !.conversation = c])
  /\ UNCHANGED <<storage, used>>

In(c) == {f \in attachments : Home[f] = c}

List(t) ==
  /\ transfer[t].pc = "list"
  /\ Moves(t, [transfer[t] EXCEPT !.pc = "next", !.left = In(transfer[t].conversation)])
  /\ UNCHANGED <<account, storage, used>>

\* A file that another request removed ends the deletion with 404.
NextFile(t) ==
  /\ transfer[t].pc = "next"
  /\ \/ transfer[t].left = {} /\ Goes(t, "drop")
     \/ \E f \in transfer[t].left :
          Moves(t, [transfer[t] EXCEPT !.pc = IF f \in attachments THEN "row" ELSE "idle",
                                       !.file = f, !.left = @ \ {f}])
  /\ UNCHANGED <<account, storage, used>>

\* Mutant: rows that came in between stay.
DropOnly(t) ==
  /\ transfer[t].pc = "drop"
  /\ conversations' = conversations \ {transfer[t].conversation}
  /\ Goes(t, "idle")
  /\ UNCHANGED <<account, disk, attachments, used>>

Drop(t) ==
  /\ transfer[t].pc = "drop"
  /\ LET c == transfer[t].conversation IN
     /\ conversations' = conversations \ {c}
     /\ attachments' = attachments \ In(c)
  /\ Goes(t, "idle")
  /\ UNCHANGED <<account, disk, used>>

CutOff(t) ==
  /\ transfer[t] # Quiet
  /\ Fault
  /\ Moves(t, Quiet)
  /\ UNCHANGED <<storage, used>>

FilesInit ==
  /\ disk = {} /\ attachments = {}
  /\ conversations = Conversations
  /\ used = {}
  /\ transfer = [t \in Transfers |-> Quiet]

FilesNext ==
  \E t \in Transfers :
    \/ \E f \in FileIds : Upload(t, f) \/ Remove(t, f)
    \/ \E c \in Conversations : DeleteConversation(t, c)
    \/ ReadPolicies(t) \/ Write(t) \/ Insert(t) \/ Unwrite(t)
    \/ DeleteRow(t) \/ Unlink(t) \/ List(t) \/ NextFile(t) \/ Drop(t)
    \/ CutOff(t)

-----------------------------------------------------------------------------
FilesTypeOK ==
  /\ disk \subseteq used /\ used \subseteq FileIds
  /\ attachments \subseteq FileIds
  /\ conversations \subseteq Conversations
  /\ transfer \in [Transfers -> Transfer]

\* Whoever is listed can be downloaded: wherever requests meet or end, a row
\* has its bytes on the disk and its conversation in the database.
RowsHaveFiles ==
  attachments \subseteq disk /\ \A f \in attachments : Home[f] \in conversations

\* The stored files fit into a plan the account had, although every request
\* judges by the plan it read earlier.
\* docs/credit-design.md:36: "Byte and count checks run under a user-row lock
\* when files are persisted, across conversations."
StorageWithinPlan ==
  attachments # {} =>
    \E p \in held : /\ Total <= Allows[p].bytes
                    /\ Cardinality(attachments) <= Allows[p].files

\* Bytes without a row are on their way in or out, or were left by a request
\* that was cut off, or came into a conversation while it was deleted.
\* docs/credit-design.md:36: "Rejected writes are removed from disk."
OrphansExplained ==
  \A f \in disk \ attachments :
    \/ \E t \in Transfers : transfer[t].file = f
    \/ faults > 0
    \/ Home[f] \notin conversations

\* The two stores have no common transaction: whatever is interrupted or runs
\* at the same time, they match in both directions.
FilesMatchRows == RowsHaveFiles /\ OrphansExplained

=============================================================================
