-------------------------- MODULE PendingOperations ---------------------------
(***************************************************************************)
(* archive::pending_operations: the messages of one contact that the       *)
(* server has not confirmed, in the order they were typed, and what each   *)
(* operation of the class does to them.  The class is used on the archive  *)
(* thread only, and every operation that changes what is stored writes the *)
(* whole list to its file before it returns; post_time_ is not stored.     *)
(*                                                                         *)
(* An entry is a not_sent_message.  Its text is a version number: 1 as     *)
(* typed, more after edits.  An edit makes a new object, a copy made from  *)
(* an object shares the history_message that holds text and message id, so *)
(* <<iid, ver>> names a history_message, and whether it carries a message  *)
(* id is kept beside the entries.                                          *)
(***************************************************************************)
EXTENDS Naturals, SequencesExt

CONSTANT Message  \* internal ids

Entry(iid, ver, modified) ==
  [iid |-> iid, ver |-> ver, modified |-> modified, deleted |-> FALSE,
   request |-> 0,    \* network_request_id_; 0: empty, the internal id is used
   recent |-> FALSE] \* post_time_ is less than post_messages_rate ago

Exists(pending, iid) == \E i \in DOMAIN pending : pending[i].iid = iid

\* Where the entry with an internal id is, which at most one has.
PlaceOf(pending, iid) == CHOOSE i \in DOMAIN pending : pending[i].iid = iid

EntryOf(pending, iid) == pending[PlaceOf(pending, iid)]

Replace(pending, iid, entry) ==
  [i \in DOMAIN pending |-> IF pending[i].iid = iid THEN entry ELSE pending[i]]

EraseEntry(pending, iid) ==
  IF Exists(pending, iid) THEN RemoveAt(pending, PlaceOf(pending, iid)) ELSE pending

InsertMessage(pending, entry) ==
  IF Exists(pending, entry.iid) THEN Replace(pending, entry.iid, entry) ELSE Append(pending, entry)

UpdateMessageIfExist(pending, entry) == Replace(pending, entry.iid, entry)

\* A user's delete marks the entry; it stays until the server confirms it.
MarkDeleted(pending, iid) ==
  [i \in DOMAIN pending |->
     IF pending[i].iid = iid THEN [pending[i] EXCEPT !.deleted = TRUE] ELSE pending[i]]

UpdateMessagePostTime(pending, iid) ==
  [i \in DOMAIN pending |->
     IF pending[i].iid = iid THEN [pending[i] EXCEPT !.recent = TRUE] ELSE pending[i]]

\* Does remove() keep this entry, as an edit to be sent for a confirmed message?
Kept(entry, remove_if_modified) == ~entry.deleted /\ entry.modified /\ ~remove_if_modified

\* remove() for the message of one block: the server has it, or refused it.
RemoveMessage(pending, iid, remove_if_modified, new_request) ==
  IF Exists(pending, iid) /\ Kept(EntryOf(pending, iid), remove_if_modified)
  THEN Replace(pending, iid,
               [EntryOf(pending, iid) EXCEPT !.modified = FALSE, !.request = new_request])
  ELSE EraseEntry(pending, iid)

UpdateWithImstate(pending, iid) ==
  IF Exists(pending, iid) /\ Kept(EntryOf(pending, iid), FALSE)
  THEN pending ELSE EraseEntry(pending, iid)

\* Mutant of LeavesDelete: not for an edited entry.
LeavesDeleteUnlessModified(pending, iid, has_id) ==
  /\ has_id /\ Exists(pending, iid)
  /\ EntryOf(pending, iid).deleted /\ ~EntryOf(pending, iid).modified

\* A deleted entry that leaves with a message id leaves a pending delete behind.
LeavesDelete(pending, iid, has_id) ==
  has_id /\ Exists(pending, iid) /\ EntryOf(pending, iid).deleted

\* Nothing marks a message duplicated_, so every entry is ready to be sent.
GetFirstReadyToSend(pending) == Head(pending)
===============================================================================
