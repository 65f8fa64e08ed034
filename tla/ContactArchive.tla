----------------------------- MODULE ContactArchive -----------------------------
(***************************************************************************)
(* contact_archive.cpp over archive_index.cpp, messages_data.cpp and       *)
(* storage.cpp: the history of one dialog in memory and in two files.  The *)
(* bodies of the messages are appended to one file, their headers, which   *)
(* hold the offsets of the bodies, to the other.  All calls run on the one *)
(* archive thread, so a job that began ends before the next one, unless    *)
(* the process dies.  A step of a job writes at most one block, and a      *)
(* crash between two steps leaves what was written, with a part of the     *)
(* next block or without.                                                  *)
(*                                                                         *)
(* A file is a sequence of blocks; the offset of a block is its number.    *)
(* A file that does not exist is an empty one.                             *)
(***************************************************************************)
EXTENDS ArchiveIndex, Sequences

CONSTANTS
    HistoryBlockSize,        \* history_block_size
    MaxIndexSize,            \* max_index_size
    IndexSizeNeedOptimize,   \* index_size_need_optimize
    Kinds,                   \* the patches the server sends: "deleted", "updated", "modified"
    MaxDeleted,              \* bound: the messages the server deletes
    MaxTold,                 \* bound: the messages and patches of all answers
    MaxJobs                  \* bound: the jobs

ASSUME ArchiveAssumption ==
    /\ HistoryBlockSize \in Nat \ {0}
    /\ MaxIndexSize \in Nat \ {0}
    /\ IndexSizeNeedOptimize \in Nat
    /\ IndexSizeNeedOptimize >= MaxIndexSize
    /\ Kinds \subseteq {"deleted", "updated", "modified"}
    /\ MaxDeleted \in Nat /\ MaxTold \in Nat
    /\ MaxJobs \in Nat

VARIABLES
    live,                \* the server: the messages that are not deleted
    del_up_to,           \* dlg_state::del_up_to_
    data_file,           \* the storage of messages_data: messages
    index_file,          \* the storage of archive_index: sequences of headers
    headers_index,       \* headers_index_
    merged_count,        \* merged_count_
    local_loaded,        \* contact_archive::local_loaded_
    loaded_from_local,   \* archive_index::loaded_from_local_
    at,                  \* the stage of the job that runs
    todo,                \* its messages or headers that the stage has to handle
    out,                 \* its messages or headers that the stage handled
    tmp_headers,         \* archive_index::load_from_local: tmp_headers
    pos,                 \* where its loop over a file or an index is
    after,               \* the stage that follows save_all
    kept,                \* history: the ids whose update_history succeeded, less what was deleted
    trimmed,             \* history: the ids up to this one were dropped by optimize
    told,                \* the messages told by the server
    jobs                 \* the jobs begun

server == <<live, del_up_to>>
files == <<data_file, index_file>>
memory == <<headers_index, merged_count, local_loaded, loaded_from_local>>
job == <<at, todo, out, tmp_headers, pos, after>>
history == <<kept, trimmed, told, jobs>>
vars == <<server, files, memory, job, history>>

Stages == {"idle", "filter", "data", "insert", "load", "reinsert", "trim",
           "truncate", "save", "drop"}

\* a block that was not written to its end
TornData == Message(NoId, NoId, 0)
Torn == <<>>

Init ==
    /\ live = Ids
    /\ del_up_to = NoId
    /\ data_file = <<>> /\ index_file = <<>>
    /\ headers_index = Empty /\ merged_count = 0
    /\ local_loaded = FALSE /\ loaded_from_local = FALSE
    /\ at = "idle" /\ todo = <<>> /\ out = <<>> /\ tmp_headers = Empty /\ pos = 0
    /\ after = "idle"
    /\ kept = {} /\ trimmed = NoId /\ told = 0 /\ jobs = 0

Begin(stage) ==
    /\ at = "idle" /\ jobs < MaxJobs
    /\ jobs' = jobs + 1
    /\ at' = stage /\ todo' = <<>> /\ out' = <<>> /\ pos' = 0 /\ after' = "idle"
    /\ UNCHANGED tmp_headers

\* save_all: the file is truncated before anything is written
BeginSave == Begin("truncate")

-----------------------------------------------------------------------------
(* The server *)

ServerDeletes(i) ==
    /\ at = "idle" /\ i \in live
    /\ live' = live \ {i}
    /\ Cardinality(Ids \ live') <= MaxDeleted
    /\ UNCHANGED <<del_up_to, files, memory, job, history>>

\* set_state with a greater del_up_to
DelUpToChanged(to) ==
    /\ at = "idle" /\ to > del_up_to
    /\ del_up_to' = to
    /\ live' = {i \in live : i > to}
    /\ Cardinality(Ids \ live') <= MaxDeleted
    /\ UNCHANGED <<files, memory, job, history>>

NothingBetween(p, i) == \A x \in live : ~(p < x /\ x < i)

\* what an answer or an event may hold, also one that was made before the last deletions
Told ==
    {Message(i, p, v) : i \in Ids, p \in Ids \cup {NoId}, v \in Versions}
        \cup {Patch(i, kind) : i \in Ids, kind \in Kinds}

Honest(m) ==
    /\ m.prev < m.id
    /\ m.known => NothingBetween(m.prev, m.id)
    /\ m.deleted => m.id \notin live

-----------------------------------------------------------------------------
(* insert_history_block *)

UpdateHistory ==
    /\ Begin("filter")
    /\ UNCHANGED <<server, files, memory, kept, trimmed, told>>

\* the next message of the block
FilterMessage(m) ==
    /\ at = "filter" /\ told < MaxTold /\ Honest(m)
    /\ told' = told + 1
    /\ out' = IF SkipDuplicate(headers_index, m) \/ m.id <= del_up_to THEN out
              ELSE Append(out, IF m.prev <= del_up_to THEN [m EXCEPT !.prev = NoId] ELSE m)
    /\ UNCHANGED <<server, files, memory, at, todo, tmp_headers, pos, after, kept, trimmed, jobs>>

HasData(h) == h.data \in 1 .. Len(data_file) /\ data_file[h.data].id = h.id

\* get_messages for one header: its body, or a message made from the header
Read(h) ==
    IF HasData(h) THEN [data_file[h.data] EXCEPT !.deleted = h.deleted]
    ELSE [Message(h.id, h.prev, 0) EXCEPT !.known = h.known, !.deleted = h.deleted]

\* invalidate_message_data(id, yes) after a body that could not be read
MarkUnread(i) ==
    headers_index' = IF HasData(headers_index[i]) THEN headers_index
                     ELSE [headers_index EXCEPT ![i].data = Invalidated, ![i].updated = TRUE]

ToStage(stage, list) == at' = stage /\ todo' = list /\ out' = <<>> /\ pos' = 0

EndFilter ==
    /\ at = "filter" /\ out # <<>>
    /\ ToStage("data", out)
    /\ UNCHANGED <<server, files, memory, tmp_headers, after, history>>

\* nothing new, and the server has nothing older than `from': it becomes the oldest
NothingOlder(from) ==
    /\ at = "filter" /\ out = <<>>
    /\ \A x \in live : x >= from
    /\ from \in DOMAIN headers_index /\ ~headers_index[from].patch
    /\ ToStage("data", <<[Read(headers_index[from]) EXCEPT !.prev = NoId, !.known = TRUE]>>)
    /\ MarkUnread(from)
    /\ UNCHANGED <<server, files, merged_count, local_loaded, loaded_from_local,
                   tmp_headers, after, history>>

EndUnchanged ==
    /\ at = "filter" /\ out = <<>>
    /\ ToStage("idle", <<>>)
    /\ UNCHANGED <<server, files, memory, tmp_headers, after, history>>

\* update_message_data: the body of a message the user edited is appended again
UpdateMessageData(i) ==
    /\ i \in VisibleIds(headers_index)
    /\ at = "idle" /\ jobs < MaxJobs /\ jobs' = jobs + 1
    /\ ToStage("data", <<[Read(headers_index[i]) EXCEPT !.version = 0]>>)
    /\ after' = "idle"
    /\ UNCHANGED <<server, files, memory, tmp_headers, kept, trimmed, told>>

\* messages_data::update: the body does not have the offset, the message learns it
WriteData ==
    /\ at = "data" /\ todo # <<>>
    /\ data_file' = Append(data_file, [Head(todo) EXCEPT !.data = NotStored])
    /\ out' = Append(out, [Head(todo) EXCEPT !.data = Len(data_file) + 1])
    /\ todo' = Tail(todo)
    /\ UNCHANGED <<server, index_file, memory, at, tmp_headers, pos, after, history>>

EndData ==
    /\ at = "data" /\ todo = <<>>
    /\ ToStage("insert", out)
    /\ UNCHANGED <<server, files, memory, tmp_headers, after, history>>

\* insert_header
Insert(h) ==
    /\ headers_index' = InsertHeader(headers_index, h)
    /\ merged_count' = merged_count + Merged(headers_index, h)

\* archive_index::update: insert_block, then save_block
InsertNext ==
    /\ at = "insert" /\ todo # <<>>
    /\ Insert(Head(todo))
    /\ out' = Append(out, Written(headers_index, Head(todo)))
    /\ todo' = Tail(todo)
    /\ UNCHANGED <<server, files, local_loaded, loaded_from_local, at, tmp_headers, pos, after,
                   history>>

SaveBlock ==
    /\ at = "insert" /\ todo = <<>>
    /\ index_file' = Append(index_file, out)
    /\ kept' = kept \cup {out[n].id : n \in DOMAIN out}
    /\ ToStage("idle", <<>>)
    /\ UNCHANGED <<server, data_file, memory, tmp_headers, after, trimmed, told, jobs>>

-----------------------------------------------------------------------------
(* save_all *)

Truncate ==
    /\ at = "truncate"
    /\ index_file' = <<>>
    /\ at' = "save" /\ pos' = 0
    /\ UNCHANGED <<server, data_file, memory, todo, out, tmp_headers, after, history>>

SaveHeader(i) ==
    /\ at = "save" /\ i \in DOMAIN headers_index /\ IsNext(headers_index, pos, i)
    /\ pos' = i
    /\ LET block == Append(out, headers_index[i]) IN
        IF Len(block) >= HistoryBlockSize \/ (\A j \in DOMAIN headers_index : j <= i)
        THEN index_file' = Append(index_file, block) /\ out' = <<>>
        ELSE out' = block /\ UNCHANGED index_file
    /\ UNCHANGED <<server, data_file, memory, at, todo, tmp_headers, after, history>>

EndSave ==
    /\ at = "save" /\ \A j \in DOMAIN headers_index : j <= pos
    /\ at' = after /\ after' = "idle" /\ pos' = 0
    /\ UNCHANGED <<server, files, memory, todo, out, tmp_headers, history>>

-----------------------------------------------------------------------------
(* load_from_local *)

\* the headers in memory are put aside
Load ==
    /\ ~local_loaded
    /\ at = "idle" /\ jobs < MaxJobs /\ jobs' = jobs + 1
    /\ ToStage("load", <<>>) /\ after' = "idle"
    /\ local_loaded' = TRUE
    /\ tmp_headers' = headers_index
    /\ headers_index' = Empty /\ merged_count' = 0
    /\ UNCHANGED <<server, files, loaded_from_local, kept, trimmed, told>>

\* read_data_block, and unserialize_block of what it returned
ReadBlock ==
    /\ at = "load" /\ todo = <<>>
    /\ pos < Len(index_file) /\ index_file[pos + 1] # Torn
    /\ todo' = index_file[pos + 1] /\ pos' = pos + 1
    /\ UNCHANGED <<server, files, memory, at, out, tmp_headers, after, history>>

LoadNext ==
    /\ at = "load" /\ todo # <<>>
    /\ Insert(Head(todo))
    /\ todo' = Tail(todo)
    /\ UNCHANGED <<server, files, local_loaded, loaded_from_local, at, out, tmp_headers, pos, after,
                   history>>

\* Mutant of EndLoad: what memory held before is forgotten.
EndLoadForgetting ==
    /\ at = "load" /\ todo = <<>>
    /\ pos < Len(index_file) => index_file[pos + 1] = Torn
    /\ after' = IF pos < Len(index_file) THEN "truncate" ELSE "trim"
    /\ at' = "reinsert" /\ pos' = 0 /\ tmp_headers' = Empty
    /\ UNCHANGED <<server, files, memory, todo, out, history>>

\* at the end of the file, or at a torn block: then what was read is saved as it is
EndLoad ==
    /\ at = "load" /\ todo = <<>>
    /\ pos < Len(index_file) => index_file[pos + 1] = Torn
    /\ after' = IF pos < Len(index_file) THEN "truncate" ELSE "trim"
    /\ at' = "reinsert" /\ pos' = 0
    /\ UNCHANGED <<server, files, memory, todo, out, tmp_headers, history>>

Reinsert(i) ==
    /\ at = "reinsert" /\ i \in DOMAIN tmp_headers /\ IsNext(tmp_headers, pos, i)
    /\ Insert(tmp_headers[i])
    /\ pos' = i
    /\ UNCHANGED <<server, files, local_loaded, loaded_from_local, at, todo, out, tmp_headers, after,
                   history>>

\* without a file load_from_local returns false too, and nothing is saved
EndReinsert ==
    /\ at = "reinsert" /\ \A j \in DOMAIN tmp_headers : j <= pos
    /\ tmp_headers' = Empty
    /\ at' = after /\ pos' = 0
    /\ after' = IF after = "truncate" THEN "trim" ELSE "idle"
    /\ loaded_from_local' \in IF after = "truncate" THEN {FALSE}
                              ELSE IF index_file = <<>> THEN BOOLEAN ELSE {TRUE}
    /\ UNCHANGED <<server, files, headers_index, merged_count, local_loaded, todo, out,
                   history>>

\* archive_index::delete_up_to within the job that runs
Delete(to) ==
    /\ headers_index' = DeleteUpTo(headers_index, to)
    /\ at' = IF DeleteRewrites(headers_index, to) THEN "truncate" ELSE "idle"
    /\ kept' = IF DeleteRewrites(headers_index, to) THEN kept \cap DOMAIN headers_index' ELSE kept

\* the end of contact_archive::load_from_local
Trim ==
    /\ at = "trim"
    /\ IF FirstId(headers_index) # NoId /\ del_up_to > FirstId(headers_index)
       THEN Delete(del_up_to)
       ELSE at' = "idle" /\ UNCHANGED <<headers_index, kept>>
    /\ after' = "idle"
    /\ UNCHANGED <<server, files, merged_count, local_loaded, loaded_from_local, todo, out,
                   tmp_headers, pos, trimmed, told, jobs>>

-----------------------------------------------------------------------------
(* The other calls *)

\* delete_messages_up_to, posted by on_del_up_to_changed: it does not load the index
DeleteMessagesUpTo(to) ==
    /\ to <= del_up_to
    /\ at = "idle" /\ jobs < MaxJobs /\ jobs' = jobs + 1
    /\ Delete(to)
    /\ after' = "idle"
    /\ UNCHANGED <<server, files, merged_count, local_loaded, loaded_from_local, todo, out,
                   tmp_headers, pos, trimmed, told>>

\* Mutant of DropHistory: the bodies go first.
DropDataFirst ==
    /\ at = "idle" /\ jobs < MaxJobs /\ jobs' = jobs + 1
    /\ ToStage("truncate", <<>>) /\ after' = "drop"
    /\ headers_index' = Empty /\ merged_count' = 0 /\ loaded_from_local' = FALSE
    /\ data_file' = <<>>
    /\ kept' = {}
    /\ UNCHANGED <<server, index_file, local_loaded, tmp_headers, trimmed, told>>

\* drop_history: the headers before the bodies they name
DropHistory ==
    /\ at = "idle" /\ jobs < MaxJobs /\ jobs' = jobs + 1
    /\ ToStage("truncate", <<>>) /\ after' = "drop"
    /\ headers_index' = Empty /\ merged_count' = 0 /\ loaded_from_local' = FALSE
    /\ kept' = {}
    /\ UNCHANGED <<server, files, local_loaded, tmp_headers, trimmed, told>>

DropData ==
    /\ at = "drop"
    /\ data_file' = <<>>
    /\ at' = "idle"
    /\ UNCHANGED <<server, index_file, memory, todo, out, tmp_headers, pos, after, history>>

NeedOptimize ==
    LET size == Cardinality(DOMAIN headers_index) IN
    \/ size > IndexSizeNeedOptimize
    \/ loaded_from_local /\ size > 0 /\ merged_count * 10 >= size

\* optimize, posted after each read
Optimize ==
    /\ NeedOptimize
    /\ BeginSave
    /\ IF Cardinality(DOMAIN headers_index) > MaxIndexSize
       THEN /\ headers_index' = KeepNewest(headers_index, MaxIndexSize)
            /\ \E first \in DOMAIN headers_index' :
                  /\ \A j \in DOMAIN headers_index' : first <= j
                  /\ trimmed' = IF first - 1 > trimmed THEN first - 1 ELSE trimmed
       ELSE UNCHANGED <<headers_index, trimmed>>
    /\ merged_count' = 0
    /\ kept' = kept \cap DOMAIN headers_index'
    /\ UNCHANGED <<server, files, local_loaded, loaded_from_local, told>>

\* invalidate_message_data
InvalidateData(i) ==
    /\ local_loaded /\ i \in DOMAIN headers_index
    /\ BeginSave
    /\ headers_index' = [headers_index EXCEPT ![i].data = Invalidated]
    /\ UNCHANGED <<server, files, merged_count, local_loaded, loaded_from_local, kept, trimmed, told>>

\* get_messages_buddies for a message whose body cannot be read
ReadMessage(i) ==
    /\ local_loaded /\ i \in VisibleIds(headers_index) /\ ~HasData(headers_index[i])
    /\ at = "idle"
    /\ MarkUnread(i)
    /\ UNCHANGED <<server, files, merged_count, local_loaded, loaded_from_local, job,
                   history>>

-----------------------------------------------------------------------------
(* Loss of memory, failures *)

Whole(file) == \A n \in DOMAIN file : file[n] # Torn

\* the ids in front of the first torn block
ReadableIds(file) ==
    UNION {{file[n][k].id : k \in DOMAIN file[n]} :
              n \in {n \in DOMAIN file : \A j \in 1 .. n : file[j] # Torn}}

\* what is lost with the memory: nothing, if no block of the file is torn or still to be written
KeptInFile ==
    kept' = IF Whole(index_file') /\ at # "save" THEN kept ELSE kept \cap ReadableIds(index_file')

Forget ==
    /\ headers_index' = Empty /\ merged_count' = 0
    /\ local_loaded' = FALSE /\ loaded_from_local' = FALSE

\* free, when the dialog is closed
Free ==
    /\ at = "idle" /\ local_loaded
    /\ Forget
    /\ UNCHANGED <<server, files, job, trimmed, told, jobs>>
    /\ KeptInFile

\* the file that is written now, and what a write that does not end leaves of it
WritesData == at = "data" /\ todo # <<>>
WritesIndex ==
    \/ at = "save" /\ \E j \in DOMAIN headers_index : j > pos
    \/ at = "insert" /\ todo = <<>>

\* write_data_block returns an error: the job ends, and the caller is told
WriteFails ==
    /\ \/ WritesData /\ data_file' = Append(data_file, TornData) /\ UNCHANGED index_file
       \/ WritesIndex /\ index_file' = Append(index_file, Torn) /\ UNCHANGED data_file
    /\ at' = after /\ after' = IF after = "trim" THEN "idle" ELSE after
    /\ todo' = <<>> /\ out' = <<>> /\ pos' = 0
    /\ UNCHANGED <<server, memory, tmp_headers, history>>

\* the process ends and starts again; a crash in a stage that writes nothing is one before the job
Crash ==
    /\ at \in {"idle", "data", "insert", "truncate", "save", "drop"}
    /\ \/ UNCHANGED files
       \/ WritesData /\ data_file' = Append(data_file, TornData) /\ UNCHANGED index_file
       \/ WritesIndex /\ index_file' = Append(index_file, Torn) /\ UNCHANGED data_file
    /\ KeptInFile
    /\ Forget
    /\ ToStage("idle", <<>>) /\ after' = "idle"
    /\ tmp_headers' = Empty
    /\ UNCHANGED <<server, trimmed, told, jobs>>

-----------------------------------------------------------------------------

Next ==
    \/ \E i \in Ids : ServerDeletes(i) \/ DelUpToChanged(i)
    \/ UpdateHistory \/ EndFilter \/ EndUnchanged
    \/ \E m \in Told : FilterMessage(m)
    \/ \E i \in Ids : NothingOlder(i) \/ UpdateMessageData(i)
    \/ WriteData \/ EndData \/ InsertNext \/ SaveBlock
    \/ Truncate \/ EndSave
    \/ \E i \in Ids : SaveHeader(i) \/ Reinsert(i)
    \/ Load \/ ReadBlock \/ LoadNext \/ EndLoad \/ EndReinsert \/ Trim
    \/ \E i \in Ids : DeleteMessagesUpTo(i) \/ InvalidateData(i) \/ ReadMessage(i)
    \/ DropHistory \/ DropData \/ Optimize
    \/ Free \/ WriteFails \/ Crash

Spec == Init /\ [][Next]_vars

-----------------------------------------------------------------------------
(* Properties *)

\* The variables have their types: the index holds each header under its id, and at most the
\* stages that handle messages or headers hold any.
TypeOK ==
    /\ live \subseteq Ids
    /\ del_up_to \in Ids \cup {NoId} /\ trimmed \in Nat \cup {NoId}
    /\ data_file \in Seq(Header \cup {TornData})
    /\ index_file \in Seq(Seq(Header))
    /\ DOMAIN headers_index \subseteq Ids
    /\ \A i \in DOMAIN headers_index : headers_index[i] \in Header /\ headers_index[i].id = i
    /\ DOMAIN tmp_headers \subseteq Ids
    /\ \A i \in DOMAIN tmp_headers : tmp_headers[i] \in Header /\ tmp_headers[i].id = i
    /\ merged_count \in Nat /\ pos \in Nat /\ told \in Nat /\ jobs \in Nat
    /\ local_loaded \in BOOLEAN /\ loaded_from_local \in BOOLEAN
    /\ at \in Stages /\ after \in Stages
    /\ todo \in Seq(Header) /\ out \in Seq(Header)
    /\ kept \subseteq Ids

Items(list) == {list[n] : n \in DOMAIN list}

\* every header there is, in memory, on its way or in the file
AllHeaders ==
    {headers_index[i] : i \in DOMAIN headers_index} \cup {tmp_headers[i] : i \in DOMAIN tmp_headers}
        \cup (IF at = "insert" THEN Items(todo) ELSE {})
        \cup UNION {Items(index_file[n]) : n \in DOMAIN index_file}

\* A header whose offset was not invalidated leads to the body of its own message, in memory and
\* in the file, after a crash at any step, a failed write and drop_history too: the body is
\* written before the header, and the headers go before the bodies.
NoDangling ==
    \A h \in AllHeaders : h.data \notin {NotStored, Invalidated} => HasData(h)

\* A link that the server told never hides a message: when a message names another as the one
\* before it, through deletions, merges of patches and versions, re-loads from the file and the
\* trimming by optimize and delete_up_to, there is no live message between them.  Otherwise
\* get_next_hole would find no hole there and the message would never be requested.
NoSilentGap ==
    \A i \in VisibleIds(headers_index) :
        headers_index[i].known =>
            ~\E x \in live : x > trimmed /\ headers_index[i].prev < x /\ x < i

\* A message that update_history reported as stored is in memory or in the readable part of the
\* file; it is in the file, unless a write failed or was cut off, or save_all is rewriting the
\* file, which begins by emptying it.
KeptSurvives ==
    /\ kept \subseteq ReadableIds(index_file) \cup DOMAIN headers_index \cup DOMAIN tmp_headers
    /\ Whole(index_file) /\ at # "save" => kept \subseteq ReadableIds(index_file)

=============================================================================
