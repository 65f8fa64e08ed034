------------------------------ MODULE ArchiveIndex ------------------------------
(***************************************************************************)
(* archive_index.cpp and the header part of history_message.cpp: the       *)
(* headers of one dialog by message id (headers_index_), linked by the id  *)
(* of the previous message.  An index is a function from a set of ids to   *)
(* headers; this module has its operations, as operators on such           *)
(* functions.                                                              *)
(*                                                                         *)
(* A header is reduced to what decides about links, duplicates and data:   *)
(* its flags, the offset of its data and the version of the last patch.    *)
(* `known' is not in the code.  It says whether `prev' was told by the     *)
(* server with a message: a patch comes without one, and has -1, which in  *)
(* a message means that nothing is older.                                  *)
(***************************************************************************)
EXTENDS Integers, FiniteSetsExt

CONSTANTS
    Ids,       \* the message ids there can be
    Versions   \* the patch versions there can be

ASSUME IndexAssumption ==
    /\ Ids \subseteq Nat \ {0}
    /\ IsFiniteSet(Ids)
    /\ Versions \subseteq Nat
    /\ 0 \in Versions

NoId == -1          \* no previous message
NotStored == -1     \* data_offset_ of a message that is not in the data file
Invalidated == 0    \* data_offset_ after invalidate_data_offset

Header == [id : Ids, prev : Ids \cup {NoId}, known : BOOLEAN,
           data : Nat \cup {NotStored}, version : Versions,
           patch : BOOLEAN, deleted : BOOLEAN, modified : BOOLEAN, updated : BOOLEAN]

\* a message as the server tells it
Message(i, p, v) ==
    [id |-> i, prev |-> p, known |-> TRUE, data |-> NotStored, version |-> v,
     patch |-> FALSE, deleted |-> FALSE, modified |-> FALSE, updated |-> FALSE]

\* make_deleted_patch, make_updated_patch, make_modified_patch
Patch(i, kind) ==
    [id |-> i, prev |-> NoId, known |-> FALSE, data |-> NotStored, version |-> 0,
     patch |-> TRUE, deleted |-> kind = "deleted", modified |-> kind = "modified",
     updated |-> kind \in {"updated", "modified"}]

Empty == [i \in {} |-> Message(i, NoId, 0)]

\* what skip_patches_and_deleted_forward does not skip
Visible(h) == ~h.patch /\ ~h.deleted

VisibleIds(idx) == {i \in DOMAIN idx : Visible(idx[i])}

\* get_first_msgid, get_last_msgid
FirstId(idx) == IF DOMAIN idx = {} THEN NoId ELSE Min(DOMAIN idx)
LastId(idx) == IF DOMAIN idx = {} THEN NoId ELSE Max(DOMAIN idx)

\* skip_patches_and_deleted_forward from the header `i' towards the older ones, without and with i
VisibleBelow(idx, i) == {j \in VisibleIds(idx) : j < i}
Older(idx, i) == LET v == VisibleBelow(idx, i) IN IF v = {} THEN NoId ELSE Max(v)

-----------------------------------------------------------------------------
(* Insertion *)

\* Mutant of Merge: a patch, which has no previous id, takes it away.
MergeTakingPrev(e, h) ==
    [id |-> e.id, prev |-> h.prev, known |-> e.known,
     data |-> IF h.data # NotStored /\ ~h.patch THEN h.data ELSE e.data,
     version |-> IF h.version > e.version THEN h.version ELSE e.version,
     patch |-> h.patch /\ e.patch /\ (e.deleted => h.deleted),
     deleted |-> h.deleted,
     modified |-> h.modified \/ e.modified,
     updated |-> h.updated \/ (h.patch /\ e.updated)]

\* message_header::merge_with: the header e of the index takes in h
Merge(e, h) ==
    LET told == h.prev # NoId \/ ~h.patch IN
    [id |-> e.id,
     prev |-> IF told THEN h.prev ELSE e.prev,
     known |-> IF told THEN h.known ELSE e.known,
     data |-> IF h.data # NotStored /\ ~h.patch THEN h.data ELSE e.data,
     version |-> IF h.version > e.version THEN h.version ELSE e.version,
     patch |-> h.patch /\ e.patch /\ (e.deleted => h.deleted),
     deleted |-> h.deleted,
     modified |-> h.modified \/ e.modified,
     updated |-> h.updated \/ (h.patch /\ e.updated)]

IsNext(idx, i, k) == k > i /\ \A j \in DOMAIN idx : j > i => k <= j

\* Mutant of Relinked: the deleted header is written where the next one is.
RelinkedOver(idx, e, h, k) ==
    IF IsNext(idx, e.id, k) /\ h.deleted /\ idx[k].prev = e.id THEN e ELSE idx[k]

\* the link of the header k when h comes for the header e that is there
Relinked(idx, e, h, k) ==
    IF ~IsNext(idx, e.id, k) THEN idx[k]
    ELSE IF h.deleted /\ idx[k].prev = e.id
         THEN [idx[k] EXCEPT !.prev = e.prev, !.known = @ /\ e.known]
    ELSE IF ~h.deleted /\ e.deleted /\ idx[k].prev = e.prev
         THEN [idx[k] EXCEPT !.prev = e.id]
    ELSE idx[k]

InsertHeader(idx, h) ==
    IF h.id \notin DOMAIN idx
    THEN [k \in DOMAIN idx \cup {h.id} |-> IF k = h.id THEN h ELSE idx[k]]
    ELSE [k \in DOMAIN idx |-> IF k = h.id THEN Merge(idx[k], h)
                                           ELSE Relinked(idx, idx[h.id], h, k)]

\* Mutant of SkipDuplicate: a patch is a duplicate of its message.
SkipDuplicateOfAnyKind(idx, m) ==
    /\ m.id \in DOMAIN idx
    /\ LET e == idx[m.id] IN
        /\ m.prev = e.prev
        /\ ~(m.version > e.version)
        /\ e.data # Invalidated

\* skip_duplicate; `version' stands for all that can differ in a message of the same id
SkipDuplicate(idx, m) ==
    /\ m.id \in DOMAIN idx
    /\ LET e == idx[m.id] IN
        /\ m.patch = e.patch
        /\ m.prev = e.prev
        /\ ~(m.version > e.version)
        /\ e.data # Invalidated

\* what insert_header leaves in its argument, which save_block then writes
Written(idx, h) ==
    IF h.id \notin DOMAIN idx THEN h
    ELSE LET m == Merge(idx[h.id], h) IN IF m.deleted \/ m.modified THEN h ELSE m

\* what insert_header adds to merged_count_
Merged(idx, h) ==
    IF h.id \notin DOMAIN idx \/ (Written(idx, h).patch /\ Written(idx, h).modified) THEN 0 ELSE 1

-----------------------------------------------------------------------------
(* Removal *)

\* delete_up_to
DeleteUpTo(idx, to) ==
    LET rest == {k \in DOMAIN idx : k > to} IN
    [k \in rest |->
        IF to \in DOMAIN idx /\ IsNext(idx, to, k) /\ idx[k].prev = to
        THEN [idx[k] EXCEPT !.prev = NoId] ELSE idx[k]]

\* whether delete_up_to rewrites the file: it finds `to', or nothing above it, or something below
DeleteRewrites(idx, to) ==
    to \in DOMAIN idx \/ (\A k \in DOMAIN idx : k < to) \/ (\E k \in DOMAIN idx : k < to)

\* the erasure in optimize: the `size' greatest ids stay, and the first of them is the oldest
KeepNewest(idx, size) ==
    LET rest == {k \in DOMAIN idx : Cardinality({j \in DOMAIN idx : j > k}) < size} IN
    [k \in rest |-> IF \A j \in rest : k <= j THEN [idx[k] EXCEPT !.prev = NoId] ELSE idx[k]]

-----------------------------------------------------------------------------
(* Holes *)

NoHole(error) == [error |-> error, from |-> NoId, to |-> NoId, depth |-> 0]
Hole(f, t, d) == [error |-> "ok", from |-> f, to |-> t, depth |-> d]

\* get_next_hole: from the header `from' (from the newest when -1) towards the older ones, at most
\* `depth' of them, the first whose link does not lead to the next one; "reached" stands for
\* last_reached and depth_reached
GetNextHole(idx, from, depth) ==
    LET start == IF from = NoId THEN Older(idx, LastId(idx) + 1) ELSE Older(idx, from + 1)
        passed(c) == {i \in VisibleIds(idx) : c < i /\ i <= start}
        holes == {c \in VisibleIds(idx) :
                    /\ c <= start /\ idx[c].prev # Older(idx, c)
                    /\ depth = -1 \/ c = start \/ Cardinality(passed(c)) < depth}
        c == Max(holes)
    IN  IF DOMAIN idx = {} THEN NoHole("ok")
        ELSE IF from > LastId(idx) THEN Hole(NoId, LastId(idx), 0)
        ELSE IF from # NoId /\ from \notin DOMAIN idx THEN NoHole("index_not_found")
        ELSE IF start = NoId THEN NoHole("ok")
        ELSE IF holes = {} THEN NoHole("reached")
        ELSE Hole(c, Older(idx, c), IF Older(idx, c) = NoId THEN 0 ELSE Cardinality(passed(c)) + 1)

\* validate_hole_request for a page of more than one message: where the next search begins
ValidateHoleRequest(idx, hole) ==
    LET older == Older(idx, hole.from) IN
    IF /\ hole.from # NoId /\ hole.to # NoId
       /\ hole.from \in DOMAIN idx /\ ~idx[hole.from].patch
       /\ older # NoId /\ older # idx[hole.from].prev
    THEN older ELSE hole.from

=============================================================================
