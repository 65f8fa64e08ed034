----------------------------- MODULE DownloadHoles -----------------------------
(***************************************************************************)
(* The history of an open dialog: im::download_holes over the archive     *)
(* index, and what it interleaves with.  A dialog that is opened, or told  *)
(* new messages by an event, has its missing history fetched page by page. *)
(* Each search is a chain of continuations: the next hole is found on the  *)
(* archive thread, checked against the dialog state, asked of the server,  *)
(* stored, and the search goes on from where it was.  Deletions come as a  *)
(* patch version: an event tells that there is a newer one, and each       *)
(* answer brings the deletions that the version of its request did not     *)
(* have.  Searches, events and local changes of the dialog state           *)
(* interleave between any two continuations; a request that failed waits   *)
(* in failed_requests for the next connection; a crash leaves what the     *)
(* last job of the archive wrote.                                          *)
(*                                                                         *)
(* The index is loaded, and each job of the archive thread is one step.    *)
(* The limit of the recursion, 30000, is not modelled: no search comes to  *)
(* it (FewRequests).                                                       *)
(***************************************************************************)
EXTENDS ArchiveIndex, Sequences, Functions

CONSTANTS
    Chains,         \* bound: the chains at a time
    PageSize,       \* history_request_page_size
    StartTop,       \* the newest message when the program starts
    MaxDelUpTo,     \* bound: the message up to which everything may be deleted
    Cost,           \* bound: [Happening -> Nat]
    MaxHappens      \* bound: the cost of all that happens beside new messages

\* What happens beside new messages.
Happening == {"deletion", "deletion up to", "opening", "local change", "failure", "crash"}

ASSUME HolesAssumption ==
    /\ PageSize \in Nat /\ PageSize > 1
    /\ Cost \in [Happening -> Nat \ {0}]
    /\ StartTop \in Nat /\ 1 .. StartTop \subseteq Ids /\ MaxDelUpTo \in Nat /\ MaxHappens \in Nat

VARIABLES
    live,             \* the server: the messages that are not deleted
    top,              \* the server: its newest message
    patches,          \* the server: the deletions, as ids; a patch version is a number of them
    emptied,          \* the server: delUpto
    headers_index,    \* headers_index_
    last_msgid,       \* dlg_state::last_msgid_
    del_up_to,        \* dlg_state::del_up_to_, as the server told it
    patch_version,    \* dlg_state::history_patch_version_
    event,            \* the dlg_state event in work
    copy,             \* the dialog state as a local change has read it, to be written back
    chain,            \* the chains
    failed,           \* failed_holes_requests_, for this contact
    wanted,           \* history: below this visible message an unlimited search has begun
    skipped,          \* history: the messages that unlimited searches gave up, or did not see
    undone,           \* history: the messages whose deletion came to nothing
    happened          \* the cost of what has happened

server == <<live, top, patches, emptied>>
state == <<last_msgid, del_up_to, patch_version>>
local == <<event, copy>>
history == <<wanted, skipped, undone>>
vars == <<server, headers_index, state, local, chain, failed, history, happened>>

NoRequest == [from |-> NoId, depth |-> 0, recursion |-> 0]
Unlimited == [from |-> NoId, depth |-> -1, recursion |-> -1]

\* the first request of a dialog that is opened, a search follows it
Opening == [from |-> NoId, depth |-> -2, recursion |-> 0]

Idle == [stage |-> "idle", request |-> NoRequest, hole |-> NoHole("ok"), version |-> 0,
         tail |-> 0, block |-> <<>>, older |-> NoId, last |-> NoId]
NoEvent == [stage |-> "none", block |-> <<>>, last |-> NoId, version |-> 0, upTo |-> NoId,
            changed |-> FALSE, deletes |-> FALSE]
NoCopy == [taken |-> FALSE, last |-> NoId, version |-> 0]

Newest(S) == IF S = {} THEN NoId ELSE Max(S)

\* the n-th of some ids
Nth(ids, n) == CHOOSE i \in ids : Cardinality({j \in ids : j <= i}) = n

\* messages as parse_history_messages_json makes them, each with the one before it
Block(ids, older) ==
    LET prev(i) == IF \A j \in ids : j >= i THEN older ELSE Max({j \in ids : j < i})
    IN  [n \in 1 .. Cardinality(ids) |-> Message(Nth(ids, n), prev(Nth(ids, n)), 0)]

OlderThan(i) == Newest({x \in live : x < i})

\* what earlier sessions left: some messages, each with the link that the server told
Init ==
    /\ live = 1 .. StartTop /\ top = StartTop /\ patches = <<>> /\ emptied = NoId
    /\ \E stored \in SUBSET (1 .. StartTop) :
          /\ headers_index = [i \in stored |-> Message(i, IF i = 1 THEN NoId ELSE i - 1, 0)]
          /\ last_msgid = Newest(stored)
    /\ del_up_to = NoId /\ patch_version = 0
    /\ event = NoEvent /\ copy = NoCopy
    /\ chain = [c \in Chains |-> Idle]
    /\ failed = NoRequest
    /\ wanted = NoId /\ skipped = {} /\ undone = {} /\ happened = 0

\* The bound on what happens: its cost.
Happens(what) == happened + Cost[what] <= MaxHappens /\ happened' = happened + Cost[what]

-----------------------------------------------------------------------------
(* The server *)

NewMessage ==
    /\ top + 1 \in Ids
    /\ top' = top + 1 /\ live' = live \cup {top'}
    /\ UNCHANGED <<patches, emptied, headers_index, state, local, chain, failed, history, happened>>

ServerDeletes(i) ==
    /\ Happens("deletion")
    /\ i \in live
    /\ live' = live \ {i} /\ patches' = Append(patches, i)
    /\ UNCHANGED <<top, emptied, headers_index, state, local, chain, failed, history>>

ServerDeletesUpTo(i) ==
    /\ Happens("deletion up to")
    /\ i \in live /\ i <= MaxDelUpTo
    /\ live' = live \ (1 .. i) /\ emptied' = i
    /\ UNCHANGED <<top, patches, headers_index, state, local, chain, failed, history>>

-----------------------------------------------------------------------------
(* The archive *)

\* what insert_history_block leaves of a block, and what becomes of a link below the delUpto
Fresh(idx, m) == ~SkipDuplicate(idx, m) /\ m.id > del_up_to
Trimmed(m) == IF m.prev <= del_up_to THEN [m EXCEPT !.prev = NoId] ELSE m

\* the headers of a block one after the other; all are compared with the index as it was before
InsertBlock(idx, block) ==
    LET inserted[n \in 0 .. Len(block)] ==
            IF n = 0 THEN idx
            ELSE IF Fresh(idx, block[n]) THEN InsertHeader(inserted[n - 1], Trimmed(block[n]))
            ELSE inserted[n - 1]
    IN  inserted[Len(block)]

\* Mutant of Stored: an answer with nothing older does not end the history.
StoredWithoutOldest(idx, block, from, older) == InsertBlock(idx, block)

\* insert_history_block; `from' and `older' are those of the answer: when nothing of it is new and
\* nothing is older, the message it was asked from is the first one
Stored(idx, block, from, older) ==
    LET oldest == /\ \A m \in Range(block) : ~Fresh(idx, m)
                  /\ from # NoId /\ older = NoId
                  /\ from \in DOMAIN idx /\ ~idx[from].patch
    IN  IF oldest THEN InsertHeader(idx, [idx[from] EXCEPT !.prev = NoId, !.known = TRUE])
        ELSE InsertBlock(idx, block)

\* update_history; a message that is put over its deletion undoes it
UpdateHistory(block, from, older) ==
    /\ headers_index' = Stored(headers_index, block, from, older)
    /\ undone' = undone \cup {i \in DOMAIN headers_index \ live :
                               /\ headers_index[i].deleted
                               /\ \E m \in Range(block) : m.id = i /\ ~m.patch}

\* merge_state: an older last message is taken only with another patch version.  Version
\* 0 is one told before the first deletion, or none, which leaves the one there is.
MergeState(last, version) ==
    \/ /\ version # patch_version
       /\ patch_version' = version /\ last_msgid' = last
    \/ /\ version \in {0, patch_version}
       /\ UNCHANGED patch_version
       /\ last_msgid' = IF last # NoId /\ last < last_msgid THEN last_msgid ELSE last

-----------------------------------------------------------------------------
(* The chains *)

\* download_holes(contact, from, depth, recursion)
Searching(from, depth, recursion) ==
    [Idle EXCEPT !.stage = "find",
                 !.request = [from |-> from, depth |-> depth, recursion |-> recursion]]

\* get_history_from_server for the newest message, with the deletions since the version
Asking(request, version) ==
    [Idle EXCEPT !.stage = "asked", !.request = request, !.version = version]

\* a request that no hole is the reason of
IsSingle(c) == chain[c].request \in {NoRequest, Opening}

\* the request is a search without a limit, and has the message x before it
Covers(r, x) == r.depth = -1 /\ (r.from = NoId \/ x <= r.from)

\* a chain ends; the search of an opened dialog follows its first request, however that went
End(c) == chain' = [chain EXCEPT ![c] =
                      IF chain[c].request = Opening THEN [Idle EXCEPT !.stage = "begin"] ELSE Idle]

\* get_archive_messages, the first request for a dialog
OpenDialog(c) ==
    /\ Happens("opening")
    /\ chain[c].stage = "idle"
    /\ chain' = [chain EXCEPT ![c] = Asking(Opening, patch_version)]
    /\ UNCHANGED <<server, headers_index, state, local, failed, history>>

\* download_holes(contact): from the last message of the dialog state
Begin(c) ==
    /\ chain[c].stage = "begin"
    /\ chain' = [chain EXCEPT ![c] = Searching(last_msgid, -1, 0)]
    /\ UNCHANGED <<server, headers_index, state, local, failed, history, happened>>

\* where an unlimited search begins to want history
Wanted(from) ==
    LET start == IF from = NoId THEN Newest(VisibleIds(headers_index)) ELSE Older(headers_index, from + 1)
    IN  IF start > wanted THEN start ELSE wanted

\* an unlimited search leaves these messages behind, where it should have gone through them
Skip(c, ids) == skipped' = IF chain[c].request.depth = -1 THEN skipped \cup ids ELSE skipped
Beyond(hole) == {x \in Ids : hole.from = NoId \/ x < hole.from}

\* what a search does not see: what is newer than the newest message, or between a message that
\* is gone meanwhile, from which it begins, and the visible one below, whose link leads on
PassedOver(from) ==
    IF from = NoId THEN {x \in Ids : Newest(VisibleIds(headers_index)) < x}
    ELSE IF from \in DOMAIN headers_index \ VisibleIds(headers_index)
    THEN {x \in Ids : Older(headers_index, from) < x /\ x < from} ELSE {}

\* the messages over which a link leads that the server never told: it was made of the link of a
\* deletion, which has none
Untold ==
    {x \in Ids : \E i \in VisibleIds(headers_index) :
        ~headers_index[i].known /\ Older(headers_index, i) < x /\ x < i}

\* get_next_hole, and the continuation up to get_dlg_state
FindHole(c) ==
    LET r == chain[c].request
        hole == GetNextHole(headers_index, r.from, r.depth)
        lost == hole.error = "index_not_found"
        nothing == r.recursion > 0 /\ hole.from = NoId
    IN  /\ chain[c].stage = "find"
        /\ IF hole.error # "ok" \/ nothing
           THEN End(c)
           ELSE chain' = [chain EXCEPT ![c].stage = "check", ![c].hole = hole]
        /\ wanted' = IF r.depth = -1 /\ ~lost THEN Wanted(r.from) ELSE wanted
        /\ skipped' = IF r.depth # -1 THEN skipped
                      ELSE IF lost THEN skipped \cup {x \in Ids : x <= r.from}
                      ELSE IF nothing /\ hole.error = "ok" THEN Ids
                      ELSE {x \in skipped : ~Covers(r, x)} \cup PassedOver(r.from) \cup Untold
        /\ UNCHANGED <<server, headers_index, state, local, failed, undone, happened>>

\* the continuation of get_dlg_state, which asks the server
CheckHole(c) ==
    LET r == chain[c].request
        hole == chain[c].hole
        obsolete == \/ hole.from > 0 /\ hole.from <= del_up_to
                    \/ hole.to > 0 /\ hole.to <= del_up_to
        tail == r.depth - hole.depth
    IN  /\ chain[c].stage = "check"
        /\ IF obsolete \/ (r.depth # -1 /\ tail <= 0)
           THEN End(c)
           ELSE chain' = [chain EXCEPT ![c].stage = "asked", ![c].version = patch_version,
                             ![c].tail = IF r.depth = -1 THEN -1 ELSE tail + PageSize + 1]
        /\ Skip(c, IF obsolete THEN Beyond(hole) ELSE {})
        /\ UNCHANGED <<server, headers_index, state, local, failed, wanted, undone, happened>>

\* the newest messages of the hole, and the deletions since the patch version of the request
Answer(c) ==
    LET hole == chain[c].hole
        size == IF IsSingle(c) THEN 1 ELSE PageSize
        inside == {x \in live : x > hole.to /\ (hole.from = NoId \/ x < hole.from)}
        page == {x \in inside : Cardinality({y \in inside : y > x}) < size}
        below == IF page # {} THEN Min(page) ELSE IF hole.from = NoId THEN top + 1 ELSE hole.from
        deleted == SubSeq(patches, chain[c].version + 1, Len(patches))
    IN  /\ chain[c].stage = "asked"
        /\ chain' = [chain EXCEPT ![c].stage = "answered", ![c].version = Len(patches),
                        ![c].older = OlderThan(below), ![c].last = Newest(live),
                        ![c].block = Block(page, OlderThan(below))
                                        \o [n \in DOMAIN deleted |-> Patch(deleted[n], "deleted")]]
        /\ UNCHANGED <<server, headers_index, state, local, failed, history, happened>>

\* set_dlg_state with the state that came with the messages
SetState(c) ==
    /\ chain[c].stage = "answered"
    /\ MergeState(chain[c].last, chain[c].version)
    /\ chain' = [chain EXCEPT ![c].stage = "store", ![c].last = NoId, ![c].version = 0]
    /\ UNCHANGED <<server, headers_index, del_up_to, local, failed, history, happened>>

\* update_history
Store(c) ==
    /\ chain[c].stage = "store"
    /\ UpdateHistory(chain[c].block, chain[c].hole.from, chain[c].older)
    /\ IF IsSingle(c) THEN End(c)
       ELSE chain' = [chain EXCEPT ![c].stage = "validate", ![c].block = <<>>, ![c].older = NoId]
    /\ UNCHANGED <<server, state, local, failed, wanted, skipped, happened>>

\* validate_hole_request, and download_holes again
Validate(c) ==
    LET from == ValidateHoleRequest(headers_index, chain[c].hole) IN
    /\ chain[c].stage = "validate"
    /\ chain' = [chain EXCEPT ![c] = Searching(from, @.tail, @.request.recursion + 1)]
    /\ Skip(c, {x \in Ids : from < x /\ x < chain[c].hole.from})
    /\ UNCHANGED <<server, headers_index, state, local, failed, wanted, undone, happened>>

\* Mutant of AddFailed: the last request stays.
AddFailedLast(r) == failed' = r

\* failed_requests::add: a second request makes the first one a search of everything
AddFailed(r) == failed' = IF failed = NoRequest THEN r ELSE Unlimited

\* the network fails, before or after the server made the answer
AskFails(c) ==
    /\ Happens("failure")
    /\ chain[c].stage = "asked"
    /\ IF IsSingle(c) THEN UNCHANGED failed ELSE AddFailed(chain[c].request)
    /\ End(c)
    /\ UNCHANGED <<server, headers_index, state, local, history>>

\* an error that is not to be repeated ends the search
AskRefused(c) ==
    /\ Happens("failure")
    /\ chain[c].stage = "asked"
    /\ End(c)
    /\ Skip(c, Beyond(chain[c].hole))
    /\ UNCHANGED <<server, headers_index, state, local, failed, wanted, undone>>

\* download_failed_holes, when the session resumes
DownloadFailedHoles(c) ==
    /\ failed # NoRequest /\ failed' = NoRequest
    /\ chain[c].stage = "idle"
    /\ chain' = [chain EXCEPT ![c] = Searching(failed.from, failed.depth, failed.recursion)]
    /\ UNCHANGED <<server, headers_index, state, local, history, happened>>

-----------------------------------------------------------------------------
(* The event *)

\* on_event_dlg_state: the state of the server, with the newest message when that is not known
\* here, is compared with the local one
EventComes ==
    LET last == Newest(live)
        news == last > last_msgid
        changed == patch_version # Len(patches)
        deletes == emptied > del_up_to
    IN  /\ event = NoEvent
        /\ news \/ changed \/ deletes
        /\ event' = [stage |-> "merge", last |-> last, version |-> Len(patches), upTo |-> emptied,
                     block |-> IF news THEN Block({last}, OlderThan(last)) ELSE <<>>,
                     changed |-> changed, deletes |-> deletes]
        /\ UNCHANGED <<server, headers_index, state, copy, chain, failed, history, happened>>

\* merge_state with the state of the server; of its delUpto, the last message stays when it goes
MergeServerState ==
    LET last == event.last
        taken == patch_version < event.version \/ last = NoId \/ last >= last_msgid
        deletes == event.upTo > del_up_to
    IN  /\ del_up_to' = IF taken /\ deletes THEN event.upTo ELSE del_up_to
        /\ last_msgid' = IF taken /\ ~(deletes /\ last_msgid = event.upTo) THEN last ELSE last_msgid

\* on_event_dlg_state_local_state_updated: the deletions are asked for when the patch version is
\* new, or the last message is not the one that came
EventMerges(c) ==
    LET news == event.block # <<>> IN
    /\ event.stage = "merge"
    /\ MergeServerState
    /\ event' = [NoEvent EXCEPT !.stage = IF event.deletes /\ ~news THEN "delete" ELSE "store",
                     !.block = event.block, !.deletes = event.deletes,
                     !.last = IF news THEN event.last ELSE last_msgid']
    /\ IF event.changed \/ (news /\ last_msgid' # event.last)
       THEN /\ chain[c].stage = "idle"
            /\ chain' = [chain EXCEPT ![c] = Asking(NoRequest, patch_version)]
       ELSE UNCHANGED chain
    /\ UNCHANGED <<server, headers_index, patch_version, copy, failed, history, happened>>

\* update_history with the tail, then download_holes from its last message
EventStores(c) ==
    LET count == Len(event.block) IN
    /\ event.stage = "store"
    /\ UpdateHistory(event.block, NoId, 0)
    /\ event' = IF event.deletes THEN [NoEvent EXCEPT !.stage = "trim"] ELSE NoEvent
    /\ IF event.last > 0
       THEN /\ chain[c].stage = "idle"
            /\ chain' = [chain EXCEPT ![c] =
                            Searching(event.last, IF count > 0 THEN count + 1 ELSE -1, 0)]
       ELSE UNCHANGED chain
    /\ UNCHANGED <<server, state, copy, failed, wanted, skipped, happened>>

\* on_del_up_to_changed; when the event had no tail, the last message is cleared after it
EventDeletes ==
    /\ event.stage \in {"delete", "trim"}
    /\ headers_index' = DeleteUpTo(headers_index, del_up_to)
    /\ last_msgid' = IF last_msgid <= del_up_to THEN NoId ELSE last_msgid
    /\ event' = IF event.stage = "delete" THEN [NoEvent EXCEPT !.stage = "clear"] ELSE NoEvent
    /\ UNCHANGED <<server, del_up_to, patch_version, copy, chain, failed, history, happened>>

-----------------------------------------------------------------------------
(* Local changes of the dialog state: it is read, and a changed copy written back. *)

TakeCopy ==
    /\ ~copy.taken
    /\ copy' = [taken |-> TRUE, last |-> last_msgid, version |-> patch_version]

\* a message is sent, messages are read, the dialog is hidden
LocalRead ==
    /\ Happens("local change")
    /\ TakeCopy
    /\ UNCHANGED <<server, headers_index, state, event, chain, failed, history>>

\* clear_last_message_in_dlg_state
ClearRead ==
    /\ event.stage = "clear" /\ event' = NoEvent
    /\ TakeCopy
    /\ UNCHANGED <<server, headers_index, state, chain, failed, history, happened>>

LocalWrite ==
    /\ copy.taken /\ copy' = NoCopy
    /\ MergeState(copy.last, copy.version)
    /\ UNCHANGED <<server, headers_index, del_up_to, event, chain, failed, history, happened>>

\* a deletion of the message i is in an answer whose state is saved and whose messages are next
InAnswer(i) ==
    \E c \in Chains : /\ chain[c].stage = "store"
                      /\ \E m \in Range(chain[c].block) : m.patch /\ m.id = i

\* What is in memory is gone; the state and the index are as their last jobs left them, which may
\* be the state of an answer whose messages are not stored.
Crash ==
    /\ Happens("crash")
    /\ chain' = [c \in Chains |-> Idle] /\ failed' = NoRequest
    /\ event' = NoEvent /\ copy' = NoCopy
    /\ wanted' = NoId /\ skipped' = {}
    /\ undone' = undone \cup {i \in Ids : InAnswer(i)}
    /\ UNCHANGED <<server, headers_index, state>>

-----------------------------------------------------------------------------

Next ==
    \/ NewMessage \/ \E i \in Ids : ServerDeletes(i) \/ ServerDeletesUpTo(i)
    \/ EventComes \/ EventDeletes \/ LocalRead \/ ClearRead \/ LocalWrite \/ Crash
    \/ \E c \in Chains :
          \/ OpenDialog(c) \/ DownloadFailedHoles(c) \/ EventMerges(c) \/ EventStores(c)
          \/ Begin(c) \/ FindHole(c) \/ CheckHole(c) \/ Answer(c) \/ AskFails(c) \/ AskRefused(c)
          \/ SetState(c) \/ Store(c) \/ Validate(c)

Spec == Init /\ [][Next]_vars

-----------------------------------------------------------------------------
(* Properties *)

Stages == {"idle", "begin", "find", "check", "asked", "answered", "store", "validate"}

Requests == [from : Ids \cup {NoId}, depth : Int, recursion : Int]

\* The variables have their types: what a chain holds fits its stage.
TypeOK ==
    /\ live \subseteq 1 .. top /\ top \in Nat /\ patches \in Seq(Ids) /\ emptied \in Ids \cup {NoId}
    /\ DOMAIN headers_index \subseteq Ids
    /\ \A i \in DOMAIN headers_index : headers_index[i] \in Header /\ headers_index[i].id = i
    /\ last_msgid \in Ids \cup {NoId} /\ del_up_to \in {NoId} \cup {i \in Ids : i <= emptied}
    /\ patch_version \in 0 .. Len(patches) /\ copy.version \in 0 .. Len(patches)
    /\ \A c \in Chains :
          /\ chain[c].stage \in Stages
          /\ chain[c].request \in Requests /\ chain[c].tail \in Int
          /\ chain[c].version \in 0 .. Len(patches)
          /\ chain[c].block # <<>> => chain[c].stage \in {"answered", "store"}
          /\ \A m \in Range(chain[c].block) : m \in Header
          /\ chain[c].stage = "idle" => chain[c] = Idle
    /\ event.block # <<>> => event.stage \in {"merge", "store"}
    /\ failed \in Requests /\ happened \in 0 .. MaxHappens

\* the messages that are not here although they should be
Missing == {x \in live : x > del_up_to /\ x \notin VisibleIds(headers_index)}

\* The next search from the newest message would find the hole that x is missing in; where
\* nothing newer is visible, the opening of the dialog asks for the newest message before it.
HoleShows(x) ==
    \/ \A i \in VisibleIds(headers_index) : i < x
    \/ \E i \in VisibleIds(headers_index) :
          /\ headers_index[i].prev # Older(headers_index, i)
          /\ Older(headers_index, i) < x /\ x < i

\* No gap is forgotten.  Each message that is missing shows as a hole of the index, except where a
\* link leads over it that the server never told.  And below a message from which an unlimited
\* search began, it is in front of a search that runs, or of one that waits for the next
\* connection, or a search gave it up.
NoGapForgotten ==
    \A x \in Missing :
        /\ HoleShows(x) \/ x \in Untold
        /\ x < wanted => \/ \E c \in Chains : Covers(chain[c].request, x)
                         \/ Covers(failed, x)
                         \/ x \in skipped

\* A search ends by itself, long before the limit of 30000: none of its answers leaves the index
\* so that the same hole is found again and again, however the index and the patch version change
\* meanwhile.  It asks at most once for each message, and once or twice more for whatever else
\* happens: the cost.
FewRequests == \A c \in Chains : chain[c].request.recursion <= Cardinality(Ids) + happened

\* A message whose deletion the patch version says is known is not shown, or the deletion is about
\* to be stored, for it will not be asked for again; unless a crash came between the state and the
\* messages of that answer, or an answer or an event that the server made before the deletion was
\* stored after it.
DeletedStayHidden ==
    \A n \in 1 .. patch_version :
        patches[n] > del_up_to /\ patches[n] \in VisibleIds(headers_index)
            => InAnswer(patches[n]) \/ patches[n] \in undone

\* Each answer helps.  When it is stored, the search finds another hole next, or none; unless the
\* answer told a deletion that is news here, or messages of it are gone meanwhile, for then the
\* hole may be as it was.  Nothing else makes download_holes ask again for what it has asked for:
\* not a link that the server tells and the index has not, a message that was deleted, a hole at
\* the first message of the dialog, or what another search stores meanwhile.
EachAnswerHelps ==
    [][\A c \in Chains :
          chain[c].stage = "store" /\ chain'[c].stage = "validate" =>
              LET hole == chain[c].hole
                  next == GetNextHole(headers_index', ValidateHoleRequest(headers_index', hole), -1)
              IN  next.from # NoId /\ next.from = hole.from /\ next.to = hole.to =>
                      \E m \in Range(chain[c].block) :
                          IF m.patch THEN Fresh(headers_index, m)
                          ELSE m.id \notin live \/ m.id <= del_up_to]_vars

=============================================================================
