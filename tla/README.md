# TLA+ specifications of the im-desktop core

This directory specifies the parts of the messenger core (`src/core`) whose correctness depends
on the order in which threads, callbacks, timers, network answers and crashes interleave. Every
definition is translated from the C++ source; `PROJECT.json` maps it to its file and lines, lists the
TLC runs, the hazards each property is aimed at, and the theorems.

## 1. The system

The program is a Qt client (`src/gui`) over a core library (`src/core`) that speaks the WIM/RAPI
protocol over HTTPS. The core is built around a few threads, each of which runs a queue of
closures:

| thread | where | runs |
|---|---|---|
| core thread | `main_thread.cpp` (a `threadpool` of one worker) | all of `im`: inputs of the gui, continuations, timer ticks, results of packets |
| archive thread | `local_history.cpp` (an `async_executer`) | everything that touches files of the history and of the outbox |
| send, fetch, loader, avatar, ... threads | `async_executer`s inside `im` | the blocking part of packets |
| curl service thread | `curl_multi_handler.cpp` | all HTTP requests, multiplexed by libcurl |
| scheduler thread | `scheduler.cpp` | repeating timers, each tick posted to the core thread |

A call from the core thread to another thread returns a handler whose `on_result_` the core thread
executes later, when the state it was computed from may have changed. Almost every hard behaviour
of the core comes from this: state read before such a hop and used after it, completions in an order
nobody wrote a test for, and flags that say "somebody will continue this".

### Components

State, operations and interactions of the components with a logic of their own. (`PROJECT.json`
lists all components, with the asset, parsing and I/O parts that are left out and why.)

* **Packet serializer** `wim_send_thread` (`wim_im.cpp` 316-492). State: `packets_queue_` by priority,
  `executed_packets_` (method names), `is_sending_locked_`; beside it the session id, and
  `failed_packets_` of `im`. Operations: `post_packet`, its completion on the core thread (answer, network
  error with retry, rate limit), `execute_packet_from_queue`, `clear`, `lock`, `unlock_and_execute_queued`.
  `im::start_session` locks it and unlocks it when the session is there; `im::post_packet` parks packets to be
  resent and `resume_failed_network_requests` posts them again. Hard: completions and retries while
  the lock is held, asynchronous packets beside the serialised ones, a new session under packets of
  the old one. Correct when: packets that must not run together do not, none starts while a session
  starts, none is lost, doubled or left waiting.
* **Outbox** `pending_operations` (`not_sent_messages.cpp`) and the chain `im::post_pending_messages` /
  `send_pending_message_async` (`wim_im.cpp`). State: the pending messages and deletes, in memory and in
  files; `sent_pending_messages_active_`; `post_messages_timer_`. The chain hops between core thread,
  archive thread and wire for each message, while the user edits and deletes, and while the fetch
  loop confirms messages by `dlg_state` and `imstate`. Hard: two threads, a timer, an answer that races with
  other confirmations, retries of what the server already has, crashes between two saves. Correct when:
  one chain runs, the server makes one message of each, nothing typed is lost, edits and deletes survive.
* **Thread pool** `threadpool.cpp`, the base of `async_executer`, `main_thread` and the curl workers. State:
  the deque, `stop_`, the workers. Operations: `push_back`, `push_front`, `raise_task`, the worker loop,
  the destructor. Hard: wakeups and the shutdown. Correct when: each accepted task runs once, no wakeup is
  lost, the destructor returns with everything executed.
* **HTTP engine** `curl_multi_handler.cpp`. State: `tasks_queue` by priority, `tasks` held by libcurl,
  five atomic flags. Operations: `perform(_async)`, `raise_task`, `reset`, `reset_sockets`,
  `process_stopped_tasks`, `cleanup`, and the service thread's loop. Hard: flags served and cleared one
  after another, a wait without predicate, a shutdown at any moment. Correct when: each request is
  answered exactly once, by priority, whatever is reset.
* **Archive** (`archive_index.cpp`, `contact_archive.cpp`, `messages_data.cpp`, `history_message.cpp`, `storage.cpp`). State:
  headers by id, linked by previous id, in memory and in a file; a file of bodies. Operations: `insert_history_block` with
  its merge of versions and patches, `load_from_local`, `save_all`, `delete_up_to`, `optimize`, `drop_history`,
  `invalidate_message_data`, `get_next_hole`. Hard: crashes and failed writes between and inside the two
  files, links around deleted and patched messages. Correct when: a header leads to its own body, what was stored
  stays stored, and a link never hides a message that is not there.
* **History download** (`wim_im.cpp`, `dialog_holes.h`). State: the continuations of each search, and `failed_holes_requests_`.
  A search looks for the next hole on the archive thread, checks it against the dialog state, asks the server, stores the
  answer and goes on. Hard: several searches, events and deletions between any two continuations. Correct when: no gap is
  forgotten, and each search ends.
* **Dialog state** (`dlg_state.cpp`, `wim_im.cpp`): copies read in one continuation and written in a later one.
* **Session** (`wim_im.cpp`): login, `start_session`, the fetch loop, resume after each answered fetch.
* **Gallery** (`gallery_cache.cpp`, `wim_im.cpp`): holes again, with a timer and a queue of requests.
* **Downloads** (`async_loader.cpp`): state: `in_progress_`, the chunks objects with their handlers and `active_seqs_`, `suspended_tasks_`,
  `cancelled_tasks_`, the cache of meta information, and for each file a `.tmp` and the file. Operations: `download_file_sharing`,
  `download_file_sharing_impl` for each chunk, `cancel_file_sharing`, `resume_suspended_tasks`, `save_filesharing_local_path`. Hard: the core
  thread, the `file_save_thread` and the curl threads look at the same download at different times; requests join and leave it;
  chunks fail, are suspended and resumed; a restart finds a part of a `.tmp`. Correct when: a file has one download, what takes
  its name is the file, everyone is told what happened, and in the end.
* **Uploads and avatars** (`loader.cpp`, `avatar_loader.cpp`): chunks of an upload one after the other, a queue of avatars.
* **Scheduler** (`scheduler.cpp`): repeating timers whose ticks are posted; `stop_timer` takes back nothing posted.
* Smaller stores (drafts, reactions, threads, mentions, contact list, stickers, tasks, statuses): mostly single-threaded
  caches of what the server sends.

## 2. Modules

| module | models | is checked with |
|---|---|---|
| `SendThread` | the packet serializer, `start_session`, resends | `MCSendThread` |
| `PacketLedger` | abstract: what the serializer promises each packet | `SendThread` refines it |
| `SendThread_proofs` | theorems about `SendThread`, also that it implements `PacketLedger` | proof system |
| `QueueLemmas` | lemmas on sequences, queues without repetition and queues by priority, for the two queues of the core | proof system |
| `PendingOperations` | `archive::pending_operations`, as operators on the list | through `Outbox` |
| `Outbox` | the sending chain, both threads, timer, wire, server, user, crashes | `MCOutbox` |
| `Delivery` | abstract: what sending promises the one who types | `Outbox` refines it |
| `Outbox_proofs` | theorems about `Outbox`, also that it implements `Delivery` | proof system |
| `ThreadPool` | `threadpool` | `MCThreadPool` |
| `TaskQueue` | abstract: what a pool promises those that give it tasks | `ThreadPool` refines it |
| `ThreadPool_proofs` | theorems about `ThreadPool`, also that it implements `TaskQueue` | proof system |
| `CurlMulti` | `curl_multi_handler` | `MCCurlMulti` |
| `RequestBook` | abstract: what the engine promises those that make requests | `CurlMulti` refines it |
| `CurlMulti_proofs` | theorems about `CurlMulti`, also that it implements `RequestBook` | proof system |
| `ArchiveIndex` | `archive_index` and `message_header`, as operators on functions from ids to headers | through the next two |
| `ContactArchive` | `contact_archive` over the index, the data file and the index file, with failed writes and crashes | `MCContactArchive` |
| `ContactArchive_proofs` | theorems about `ContactArchive`, and the lemmas on the index they rest on | proof system |
| `FileDownloads` | file sharing downloads of `async_loader`, the disk, cancellation, failures, restarts | `MCFileDownloads` |
| `FileDownloads_proofs` | theorems about `FileDownloads` | proof system |
| `DownloadHoles` | the searches for missing history, over `ArchiveIndex`, the dialog state and the server | `MCDownloadHoles` |
| `DownloadHoles_proofs` | theorems about `DownloadHoles` | proof system |

`ArchiveIndex` is used twice: in `ContactArchive` one dialog's jobs write it step by step to files that may be torn,
in `DownloadHoles` it stays in memory, each job is one step, and what interleaves are the continuations of the searches.

`Outbox` composes `PendingOperations` with the two threads. `SendThread` and `Outbox` each leave the
other's inside out: for the outbox a packet is on the wire, is answered, fails, or is dropped, which are the
outcomes `PacketLedger` lists; for the serializer a message is a packet of a method. That each of the
two threads of `Outbox` executes one task after the other, first in, first out, is `TaskQueue` with a limit of one and nothing that goes to the front or is raised, which a
`ThreadPool` with one worker implements; the archive thread and the `file_save_thread` of the other modules are such pools too. Operators
named "mutant of ..." in the modules are defects that the properties are known to detect; no
specification uses them.

### SendThread

`send` is one record with the state of `wim_send_thread` and the stage of each packet: `new`,
`queued`, `exec` (executing), `wire` (an asynchronous packet on its way), `dummy` (replaced by
the rate limit), `parked` (in `failed_packets_`), `answered`, `dropped`. The operations of the class
are operators from `send` to `send`, because the code calls one inside the other (a completion erases its
method and then executes the queue; a resume posts in a loop); the actions are what the core thread runs in
one go: a post, a completion with each kind of error, the steps of `start_session`, a step of the resume loop.

Abstracted: a packet is its method, its priority and whether it is synchronous, partially or fully
asynchronous; the priority values are the two sides of `priority_protocol()`. The completions of
packets in execution come in any order; the code's send executer has one worker, so
this allows more than can happen. A relogin with a valid o2 token is an error of another kind followed by a
`start_session`. The end of the object at logout is not modelled. The packets that carry invalid data and
are silently dropped count as dropped.

### PendingOperations and Outbox

An entry of the list is a `not_sent_message`; the text is a version number (1 as typed, higher after edits). Copies
share the `history_message` that carries text and message id, so the id is kept beside the entries (`ids`).
`archive_tasks` is the queue of the archive thread; `core_tasks` holds continuations and ticks for the
core thread; `chain` says, for each chain, where it is and which object it holds. The server keeps, per message,
the request ids it has seen, its version and how many messages it made of it. A crash loses memory and keeps
what was saved last, except that a crash inside `save()`, which truncates the file and then writes it, loses the
list.

Assumptions: one contact; no file sharing; edits only of messages without an id (`id == -1`, as the edit of a
pending message has); the server discards a request id it has seen, which the code relies on; a failed
request is handled by the server before the failure is known or never. What follows once a delete has entered
`pending_delete_messages_` is left out.

### ThreadPool

`at` places each worker in `run_task_impl`; everything done under `queue_mutex_` is one step, except
that a worker which found nothing holds the mutex at `wait` until it sleeps, because `stop_` is set without the
mutex and may change in between. `notifying` are the pushes that have left the mutex and not called
`notify_one` yet. A spurious wakeup is an action.

### CurlMulti

The service thread is at one of the flags in the order `tasks_stuff` looks at them, at `add_task`, at the
loop conditions, in a round of libcurl, or in the wait. Serving a flag and clearing it are two steps, as in
the code. `reset`, `cleanup`, `reset_sockets` and `process_stopped_tasks` are sequences of steps
of their callers, so that the service thread can come between any two. `orphans` are requests whose multi
handle was replaced under them; `torn` remembers that a reset was cut in two by the service thread (see
below). Time, sockets and `emit_signal` are left out: the select ends by its timeout at the latest.

### ArchiveIndex and ContactArchive

An index is a function from ids to headers, and each method of `archive_index` an operator on it: `InsertHeader` with
`Merge` and `Relinked`, `DeleteUpTo`, `KeepNewest` (the erasure of `optimize`), `GetNextHole`, `ValidateHoleRequest`. A header keeps what
decides about links, duplicates and bodies; a body is the message it was written from, and its offset the number of
its block. `known` is not in the code: it says whether a link was told with a message, or comes from a patch.

The archive thread runs one job after the other. `at` is the stage of the job; a step writes at most one block, so that a crash or a
failed write can come between any two blocks. A write that is cut short leaves a torn block, in front of
which the next load stops. A crash in a stage that only works in memory is one before the job.

Abstracted: `version` stands for everything that can differ between two messages of one id (quotes, polls, tasks,
reactions, threads); the list of older versions of a header and `drop_outdated_headers`; the file of the dialog state, which is taken
to be reliable; opening a file, which does not fail; a stream that loses its last bytes when it is closed, which
`storage::close` (storage.cpp:93) does not look at, so that the archive thread goes on as if the block were written. A file that does not exist is an empty one. `invalidate_message_data` loads
the index first when it is not loaded: that is a `Load` of its own here. The insertion does not load the index, as in the code: the headers it
inserts are put aside by the next load and inserted again over those of the file.

### DownloadHoles

`chain` says, for each chain of requests, which continuation comes next and what it captured: `find`, `check`, `asked`, `answered`,
`store` and `validate` are those of a search; a single request, for the newest message and the deletions since the patch version, has `asked`,
`answered` and `store` of them. An opened dialog begins with such a request (`OpenDialog`), and its search follows however that went
(`Begin`); an event that tells a new patch version makes one too (`EventMerges`).

The server has the messages (`live`), the list of deletions (a patch version is how many of them are known), and a delUpto (`emptied`). An answer
holds the newest page of the hole as the server is at that moment, the deletions since the patch version of the request,
and `olderMsgId`. The dialog state is `last_msgid`, `del_up_to` and `patch_version`, which may be 0 because no
version was told yet: such a state leaves the version it meets (`MergeState`), or, when the server told a version before the first deletion, replaces it. Three kinds of writes meet there, all
through `archive_state::merge_state`, which may refuse an older last message: of an answer (`SetState`), of an event, which
has compared its state with the local one in an earlier continuation (`EventComes`, `EventMerges`), and of a local change, which writes back a copy that
it read in an earlier continuation (`LocalRead`, `ClearRead`, `LocalWrite`). The messages are stored after the state (`Store`, `EventStores`). A
`Crash` loses the chains, the failed requests, the event and the copy; the state and the index are as their last jobs left them.

`wanted`, `skipped` and `undone` are not in the code: they remember what the properties need. `happened` is the bound on
deletions, opened dialogs, local changes, failures and crashes together: each has a cost.

Abstracted: the index is loaded; events come one at a time, and local changes too; `history_request_page_size` is greater than one (with a page of one message
`validate_hole_request` does nothing, and a hole in front of a message deleted on the server is asked for until the limit of 30000);
no clear patches; the requests by id that follow an updated patch are left out; a local change that sends a message with an id is taken for one without.
The archive does not answer with errors of its own.

### FileDownloads

A file is the sequence of its bytes, so that a byte at a wrong place can be told. `at` says where each request of the gui is, from the call to
the answer it gets; a chunks object is named after the request that made it, and `step` says where its download is: `check` (at the begin of
`download_file_sharing_impl`), `flight`, `stopped` (the stop function has ended the request, its completion has not run), `suspended`,
`finish` (the last job), `fire` (on its way through `fire_chunks_callback`). `by` is the thread that executes it, which does nothing
else. `save_queue` is the queue of the `file_save_thread`; what the code takes from one thread to the next by capture is kept per request
(`size`, `holds`, `named`). The last five variables are not in the code: they remember what the properties allow as a cause.

`write_memory_callback` writes each byte to the `.tmp` as it comes, and so does the model; a `.tmp` that was renamed or deleted takes no more
bytes (the stream still writes to the removed file, as on Linux). What is not flushed when the size is read, or when the
process ends, may be missing. The server may ignore the range and send the whole file, and the text of an error of
the server lands in the `.tmp` like any answer.

Abstracted: all files have the size `Total`, which is not zero; the modification time of a local file and its path, for which `local` stands (the size is
compared, `HasItsSize`: a file of another length is deleted and downloaded again, whatever its time); a url has one destination, and no request names its own; the priority is a
nondeterministic choice between one chunk and all that is left; continuations of the core thread come in any order. Left out: previews and
images (one request each, no chunks), the progress handler, `cleanup_cache`, and the loss of a push to
`suspended_tasks_` beside another push.

## 3. What is checked

All runs use two workers and finish within minutes. Deadlock checking is off everywhere because the
packets, messages, requests and tasks of an instance are used up, and a system with nothing to do stops.

| run | question | instance and why it is enough |
|---|---|---|
| `send_thread` | Do the queue, the lists, the serialisation and the lock survive every interleaving, and is `PacketLedger` implemented? | two ordinary packets, two messages of one method and an asynchronous packet: each class that is serialised has a rival, and an ordinary and an asynchronous packet may be resent; one new session, so that packets of the old one meet it. Messages are symmetric. |
| `send_thread_live` | Does nothing start while a session does? Is every queued packet settled? | ordinary packets only, two of one method and one of another, since an asynchronous completion does stall the queue (below); two new sessions, so that a start of one can fail and be repeated |
| `outbox` | One chain, no duplicate, no loss, nothing stranded but as named? | two messages, one edit of each, one crash, a possible second chain and one waiting tick: a second chain needs only one rival |
| `outbox_edits` | Does an edit or a delete survive confirmations, copies and crashes? Is `Delivery` implemented? | one message with two edits, so that an edit can come both before and after the first confirmation |
| `outbox_live` | Is every typed message sent? | two messages, so that one can arrive while the other is sent; no crash, since the next start begins anew |
| `outbox_timer` | Is the timer's assertion right? (violated) | one message, two waiting ticks |
| `thread_pool` | Run once, no lost wakeup, drained? Does every task run and the destructor return? Is `TaskQueue` implemented? | two workers, four tasks, one of which is raised and one pushed in front: more tasks than workers, and the theorems below hold for any number |
| `curl_multi` | Answered once, by priority, no orphan without a cancellation, no oversleeping? Is `RequestBook` implemented? | three priorities, one place in libcurl so that requests queue and only the protocol packet exceeds it, two resets of any kind and the shutdown |
| `curl_multi_live` | Is every request answered? | two requests, one reset, the shutdown |
| `contact_archive` | Do headers lead to their bodies, do links hide nothing, does what was stored survive? | three messages, so that a link has a message on both sides; three jobs of any kind, so that one can write, one fail or be cut off, and one load; blocks and an index of two, so that `save_all` writes two blocks and `optimize` trims |
| `download_holes` | Is no gap forgotten? Does each search end, and each answer help it? Does what was deleted stay hidden? | two chains, since `failed_requests` merges two and two answers can overtake each other; three messages with pages of two, so that a hole can take two pages; of deletions, a delUpto, opened dialogs, local changes and crashes any two, or one with two failed requests, or four failed requests. Chains are symmetric. |
| `file_downloads` | Is there one download of a file, is it the file, is what is told due, is everyone answered? | two requests for one file, so that one joins, follows or overtakes the other; a file of two bytes and ordinary requests for one (`MaxChunk` 0), so that it takes one answer or two; two faults, a failure or a restart each. Larger instances (three requests, two files, three bytes with two failures and a restart) have been checked with the same result. |

### What the runs show

*Serializer.* The serialisation (`ExecutionExact`, which is `ExclusiveExecution` and `ExecutedExact`), the
bookkeeping of waiting packets (`WaitingExact`, which is `QueueSorted` and `ListsExact`), the order of equals
(`EqualsKeepTheirOrder`) and the lock (`NoStartWhileLocked`) hold. `NoStartWhileLocked` names one exception, which occurs: when a
`startSession` fails, the queue is unlocked before the repeat locks it again, so its head starts with the old session
and the packets behind it are dropped. `StallOnlyAfterAsync` pins down the one way the queue
comes to rest with packets in it: the completion of an asynchronous packet does not look at the queue,
every other completion does. `LedgerSpec` says what a caller may expect, and shows what it
may not: a packet that meets the rate limit, or waits while a session is replaced, is lost without a
word to its caller.

*Outbox.* There is one chain, and it is active while it runs (`OneActiveChain`), the server makes one message of each
(`NoDuplicate`), and a message leaves the list only for the server, for a refusal or by a torn save
(`MessageIsKept`). The action properties name the exceptions they allow, and each does occur: a message inserted
between an empty fetch and its continuation waits for the next resume (`StrandedOnlyBy`); a copy of an
answered message is put back over a newer edit, and the second of two confirmations ends an edit (`EditIsKept`); an
edit clears a delete (`DeleteIsKept`). `TypedIsSent` holds with one exception: a packet of the chain
which the send thread drops never calls back, so that `sent_pending_messages_active_` stays true until a restart.

`DeliverySpec` leaves out how it is done. For the server the versions of a message only go forward, and the first one it takes makes the message, whatever a
copy, a confirmation or a crash did to the list. What `EditIsKept` allows to get lost is therefore an edit that is never sent, not one that is undone
on the server by an older text.

*The timer.* `wim_im.cpp:3119` asserts that `post_messages_timer_` is empty when the timer is set. The timer
repeats and each tick is posted to the core thread; two ticks waiting together each start a chain, and both
set a timer. `outbox_timer` finds this. The other outbox runs bound the waiting ticks to one, and so show what holds
as long as the core thread is never busy for a second with a tick waiting.

*Thread pool.* Each accepted task runs once and none is left behind (`ExecutedOnce`). `QueueSpec` adds what is
between the two: tasks start in the order in which they wait, which only `raise_task` changes, no more run than there are workers, and the pool is gone only when the last one
has ended. `EveryTaskRuns` holds without exception. `DestructorReturns` has a precondition: `stop_` and
`notify_all` are not under the mutex, and a worker between its test of `stop_` and its wait misses both;
then the destructor waits for ever.

*HTTP engine.* Each request stays in one place and is told once (`NeverLostNorDoubled`), in the order of
priority and within the limit (`StartsInOrder`). Two races are confined by the properties to where they are.
First, the wait has no predicate: what comes between the look at `tasks` and the wait is overslept until the
next notification, and nothing else is (`OversleepsOnlyFromIdle`). Second, `reset` stores `tasks_cancel` and
`reset_multi` one after the other: if the service thread serves the first, starts a request, and then sees
the second, the request's multi handle is cleaned up under it; no completion will come, and it holds one
of the ten places until the next cancellation (`OrphansAreCancelled`, with `torn` as its exception). `BookSpec` shows that neither race breaks what
a caller can see of the order: no request goes back to an earlier stage or runs again, what is tried is no less urgent than what goes on waiting, and a cancellation leaves out no request that
waits or runs, orphans included. Apart from these
every request is answered (`RequestsAreAnswered`), and `cleanup` answers what was in hand unless it
comes between the look at the cancel flag and the end of the thread (`CleanupAnswers`).

*Archive.* After a crash at any write, a failed write, and `drop_history` in the middle, a header whose offset was not invalidated
leads to the body of its own message (`NoDangling`): bodies are written before headers, and headers dropped before
bodies. A link the server told never spans a live message (`NoSilentGap`). A stored message stays in memory or in the readable
part of the file, and in the file, unless a write failed or `save_all` was cut off (`KeptSurvives`). The runs also
show what these properties leave out, and the code does:

* `save_all` truncates the index before it writes it, and appends land behind a torn block: what was in the file then is gone at the
  next load. The messages are downloaded again, since the links show the hole.
* A patch has -1 as its previous id. The deletion of a message never seen leaves a patch header without a link; when `load_from_local`
  inserts such a header, kept in memory, over the same header of the file, `insert_header` (`archive_index.cpp:167`) copies its -1 into
  the next message, which then counts as the oldest: nothing below is asked for. `NoSilentGap` leaves these links out (`known`).
* `delete_messages_up_to` and `optimize` do not load the index: on an index that is not loaded they rewrite the file from the headers
  in memory.
* An updated patch over a deleted patch makes a visible header of which nothing is known.

*Searches.* A message that is missing shows as a hole of the index, and below the start of an unlimited search it is in front of a running
search, or of one that waits in `failed_requests`, or a search gave it up (`NoGapForgotten`). That is not rare, and `skipped` collects where it
comes from: a hole that ends below the delUpto is cancelled with what is above it; a search from a message that was deleted
meanwhile begins below it, without its link; a search that begins at the newest visible message does not see what is newer than that
(`PassedOver`); `validate_hole_request` takes a hole that stayed for one that cannot be filled and goes on below it,
although only a message next to it was deleted; an error that is not repeated ends the search. A search from a last message that is in the dialog
state and not yet in the index ends at once. Where nothing is visible below a missing message and nothing above, only the first request of the
opened dialog finds the history again (`HoleShows`). The reset of two failed requests to one search of everything loses nothing.

One gap shows nowhere: a link can lead over it that the server never told (`Untold`). `Relinked` (`archive_index.cpp:167`) gives the next message
the link of a deleted header; when that header is a patch of a message never seen, it has none. Six messages, three
chains and some thirty steps bring it about: an older answer restores a deleted message, the patch of the message above is linked to it, and
when the deletions are delivered again, because a stale copy has set the patch version back, the next message counts as the oldest one, and what is
missing below it is never asked for. The bounds of the run are too small for that; it came out when the proof below did
not go through without `known`, and simulation of the larger instance showed the steps.

Each search ends with about one request for each message (`FewRequests`). More come from deletions, whose patches make an empty answer look like a
new one, and from what sets the patch version back: `merge_state` takes any other `history_patch_version` for a change, so a stale copy of a
local change, or an answer that was made earlier and comes later, replaces a newer version by an older one. The same deletions are then asked
for again, which costs requests and loses nothing.

Behind this is what one answer does (`EachAnswerHelps`): when it has been stored, the next hole is another one, or there is none. Only deletions that are news,
and messages of the answer that were deleted meanwhile, leave the hole as it was; an answer that fills nothing is recognised by `validate_hole_request`, and one with no message
ends the history.

`DeletedStayHidden` says what the patch version promises: a deletion it counts is in the index, or in the answer that is about to be
stored. Two exceptions are named (`undone`), and both occur, for the deletion is not asked for again:

* A crash between `set_dlg_state` and `update_history` (`wim_im.cpp:4819` and `:4846`): the version is saved and the deletion is not.
* An answer or an event which the server made before the deletion, stored after it: `merge_with` takes a message over a deleted header for one
  that was restored, and it is visible again.

*Downloads.* A url has one download, and whoever ends it finds it in `in_progress_` (`OneDownload`, the assertion of
`async_loader.cpp:1129`): the job looks at `in_progress_` again under its mutex. The other three properties name exceptions, and each occurs:

* A chunk that fails after some of its bytes came leaves them in the `.tmp`, and `downloaded_` does not count them; the stream of the next request
  appends the chunk again behind them. When the sum of the chunks is the size, a file that is too long takes the name and is told
  as a success. The text of an error of the server does the same, and so does a second download that begins with the size it read
  while the first one was writing. `FileIsWhole` holds for all other files (`spoilt` collects these).
* A request that joins between the last cancellation and `fire_chunks_callback` is told "cancelled" though nobody cancelled it
  (`late` in `VerdictIsDue`). A meta handler that finds no local path in its information deletes the file that another request was just
  told (`wiped`). The job that renames a complete `.tmp` can find it renamed already, and answers an error (`taken`).
* While any other file is downloaded, `cancel_file_sharing` looks for the request in `in_progress_` only: a request that still waits for
  its meta information is not cancelled, and its file comes.
* `suspended_tasks_` is pushed on the curl threads while the core thread pops it, without a mutex. A task lost there leaves its url in `in_progress_`
  for ever, and all later requests of it wait with it (`EveryDownloadIsAnswered`, whose exception is `lost`).

### Fairness

Weak fairness is asked of threads that have something to do: a worker's step, a continuation that
waits, an archive task, a push on its way to `notify_one`, a control call that has begun. Beyond that:

* `SendThread`: a packet in execution completes, since every request has a timeout; retries are
  bounded by `sent_repeat_count`. A started session ends.
* `Outbox`: the chain repeats a failed request, and of infinitely many attempts the server handles and answers some
  (strong fairness of `ServerHandles` and of the answers); the fetch loop, which polls for ever, resumes
  the chain and brings the server's `dlg_state`.
* `ThreadPool`: a task ends; strong fairness of taking the mutex, which other threads may hold again and again, so that a
  worker at the lock gets it some time. No fairness for spurious wakeups.
* `FileDownloads`: the threads go on, and curl ends every request; `im` asks again after `come_back_later`, and calls
  `resume_suspended_tasks` after each answered fetch of events (`wim_im.cpp:3399`), of which there is always another. Nobody has to cancel.
* `CurlMulti`: libcurl completes each request it holds (its timeout); strong fairness, as other requests share the rounds. No
  fairness for wakeups, resets or new requests.

## 4. What is proved

The type invariant of every module is proved (`TypeCorrect`). The runs check it only of `ContactArchive` and `FileDownloads`, whose types say what can be on
the disk; elsewhere the theorem stands in place of a run.

### The thread pool

`ThreadPool_proofs` proves, for any finite set of workers and tasks (`PoolAssumption` is the only assumption):

* `TypeCorrect`: `Spec => []TypeOK`.
* `NoTaskRunsTwice`: `Spec => []RunsOnce`. `RunsOnce` ties three pieces of state together: the deque, what
  each worker executes, and the status of each task. It is inductive with `TypeOK`; the work is in
  `RaiseTask`, which shifts a part of the deque, and in `TakeTask`.
* `AcceptedTasksAreExecuted`: `Spec => []DestructorDrains`. This needs `EmptyInv`: a worker waits or exits only
  when the deque is empty, and once `stop_` is set nothing is pushed; hence a destructor that has joined all
  workers leaves an empty deque, and with `RunsOnce` no task is queued or running.
* `TasksAreExecutedOnce`: `Spec => []ExecutedOnce`, the two together.
* `NoLostWakeup`: `Spec => []EnoughAwake`: while a worker sleeps, the tasks that wait are no more than the workers on
  their way to the deque and the notifications on their way to a sleeper. The argument counts: a push adds one task and one
  notification; a notification becomes one awake worker; a worker that takes a task takes one from both sides; a
  worker goes to sleep only when the deque is empty. The inductive invariant is
  `IInv == TypeOK /\ RunsOnce /\ EmptyInv /\ NotifyingPushed /\ EnoughAwake`.
* `PoolImplementsQueue`: `Spec => QueueSpec`, the refinement of `TaskQueue`. The deque is the abstract one, and whoever waits at the mutex, sleeps or is about to
  notify stutters. A start needs fewer running tasks than workers: by `RunsOnce` each running task is executed by one worker and no worker has two, so the
  running tasks are as many as the busy workers, and the one that takes the next is not busy (`FewerThanWorkers`). The pool is gone only with nothing left by `EmptyInv`.

### The serializer

`SendThread_proofs` proves, for any packets, methods, priorities and number of sessions
(`PacketAssumption` is the only assumption: what a packet may be, and that how it is executed depends on its method):

* `TypeCorrect`, `QueueIsSorted`, `WaitingOnce`, `ExecutedMatches`, `SerialExecution`, `LockIsReleased`: the invariants
  `TypeOK`, `QueueSorted`, `ListsExact`, `ExecutedExact`, `ExclusiveExecution`, `LockedHasStarter`.
* `WaitingIsExact`, `ExecutionIsExact`: the properties of the runs, `WaitingExact` and `ExecutionExact`, from these.
* `LockHoldsPacketsBack`: the action property `NoStartWhileLocked`, with its one exception.
* `StallsOnlyAfterAsync` and `EqualsStayInOrder`: the action properties `StallOnlyAfterAsync` and `EqualsKeepTheirOrder`.
* `ImplementsLedger`: `Spec => LedgerSpec`, the refinement of `PacketLedger`.

Beside the types of class `im` and `LockedHasStarter`, the inductive invariant `IInv` has three parts: `ThreadOK` (the queue lists exactly the queued packets, once;
`executed_packets` names exactly the methods in execution; no two packets in execution clash), the order of the queue, and
`ParkedHolds` (the two lists of parked packets). `ThreadOK(s, outside)` is stated of the record and of the packet that is between two
places, since the operators of the class are called one inside the other while a packet is popped and not yet
posted. The proof follows the code: one lemma for each operator (insertion, `PostPacket`, `ExecutePacketFromQueue`, erase,
`Restart`, the error handler), which says what it does to the record, then one for each action. The serialisation
rests on two lemmas, `ExecutionStarts` and `ExecutionEnds`: a packet that `PacketExecuted` lets start clashes with no
packet in execution, and erasing a method removes exactly the packet that ended, because packets of one method
never run together. That an insertion behind all that is not less urgent keeps a queue sorted and free of repetitions,
and what taking one out leaves, is in `QueueLemmas`, which the HTTP engine shares.

`StallsOnlyAfterAsync` needs no more than the invariant. What a look at the queue leaves in it was refused for a method in
`executed_packets`, and that a method is there means that a packet of it runs (`SomeoneRuns`, from `ExecutedHolds`): hence neither `PostPacket`
(`PostedMoves`) nor `ExecutePacketFromQueue` (`QueueMoves`) leaves a stalled queue, whatever it was before. Of the steps only the asynchronous completion
changes who runs, or the lock, without such a look or a restart, which locks.

`EqualsStayInOrder` splits a step in two. What comes before the look at the queue is `Steady`: an insertion by priority or a
restart puts no one before an equal that waits, and the first of the queue was first before, or is new (`InsertSteady`, where the order of the queue is needed). The look that follows pops the head and
may put it back, which is an insertion again, so that only the head moves (`ExecuteKeepsOrder`).

The refinement needs one more invariant, `Unlimited`: a packet executing on the worker is an ordinary one, and the rate limit is
not on. Without it a packet that is retried could turn into the empty task of the rate limit, which the ledger
does not allow a started packet. It holds because only an ordinary packet that completes turns the limit on, and
no other ordinary packet runs beside it.

### The HTTP engine

`CurlMulti_proofs` proves, for any finite set of requests, any priorities and any limit of parallel requests
(`CurlAssumption` is the only assumption):

* `TypeCorrect`: `Spec => []TypeOK`.
* `OneAnswerEach`: `Spec => []NeverLostNorDoubled`.
* `ResetsLeaveNoneHanging`: `Spec => []OrphansAreCancelled`.
* `OnlyIdleOversleeps`: the action property `OversleepsOnlyFromIdle`.
* `StartsFollowPriority`: the action property `StartsInOrder`.
* `EngineImplementsBook`: `Spec => BookSpec`, the refinement of `RequestBook`.

The inductive invariant is `IInv == RequestsOK /\ CallsType /\ ServiceType`. `RequestsOK` says that each request is in one place
(`OnePlace`: posted, in the queue once, held by libcurl, or answered) and that the queue is sorted (`InOrder`). `StartsInOrder` speaks of the
requests a step starts, which may be many: the requests taken are a prefix of a sorted queue, and when the last of those not less urgent than a given
one was started, fewer than the limit were held. `CallsShape`, a part of `CallsType`, says that what is left of a running call is the rest of
`reset`, `cleanup`, `reset_sockets` or `process_stopped_tasks`; so whoever has set a flag has the notification still ahead, and what is overslept was
missed between the look at `tasks` and the wait. For the orphans two more facts are needed: from the end of a cancellation until its flag is
cleared libcurl holds nothing (`CancelledAll`), and a reset that was not cut in two has its cancellation ahead of or just behind its new
handle (`ResetCovered`); the service thread looks at the flags in that order, so the old handle is empty when it goes.

For the refinement, `Progress` says how far a request is, as the first of the places it is found in; by `OnePlace` it is in no other, so that a step which moves it between two
places is one move of the book. The step of `add_task` is the only one that moves several requests two ways: what it takes from the queue is a prefix, hence the most
urgent ones by `InOrder`, and it splits into those that libcurl took and those that could not be started (`AddTaskTries`). The orphans are among those that run, so a
cancellation that empties `tasks` answers them with the others.

### The archive

`ContactArchive_proofs` proves, for any finite set of ids, any versions, block and index sizes and numbers of jobs (`IndexAssumption` and
`ArchiveAssumption`), over the lemmas on the index in its first part:

* `TypeCorrect`: `Spec => []TypeOK`.
* `HeadersLeadToTheirBodies`: `Spec => []NoDangling`.
* `LinksHideNothing`: `Spec => []NoSilentGap`.
* `StoredSurvives`: `Spec => []KeptSurvives`.

A header is *good* (`Good`) when its offset leads to its body and its link, if told, spans no live message. The invariant says that every header
there is, in memory, put aside by a load, on its way through a job, and in every block of the file, is good. It has to be said of
the files too, since a load brings their headers back, and of links that end in deleted messages, since a merge revives them. The lemmas on the index say that `Merge`, `Relinked`, `InsertHeader`, `DeleteUpTo` and `KeepNewest` make good headers of good ones; the
only hard one is `Relinked`, where the link of a deleted header is joined to that of the next one.

`StoredSurvives` has an invariant of its own, `KeptInv`, beside the first. It says where the kept ids are at each stage of a job. `InMemory`:
once the index was loaded, and whenever the file is about to be emptied or is being rewritten, they are all in memory; that makes it safe that
`save_all` begins with a truncation. `Looped` is what each loop has behind it: the headers that `save_all` passed are in the file or in
the block it collects; the blocks that `load_from_local` passed are in memory or in the list it unpacks; while what memory had before the load is inserted
again, a kept id is in memory or still put aside. `StageOK` says that the lists a job hands on are not empty, so that no block that the code writes
looks like a torn one, and that nothing is left in the list of `save_all` when its loop ends. `ReadableUpTo` is the lemma behind the
load: a loop that stops at the end or at a torn block has seen every block that is readable.

### The downloads

`FileDownloads_proofs` proves, for any sets of urls and requests, any size of files and chunks and any number of faults
(`FileDownloadsAssumption`):

* `TypeCorrect`: `Spec => []TypeOK`. The count of bytes needs `CountingOK`: less than the file is counted as long as it is not complete.
* `OneDownloadOfAUrl`: `Spec => []OneDownload`. `OneInv` adds that `in_progress_` holds a download of the url it is an entry of, and
  that a request is among the handlers of the download of its own url only. From this follows that the entry
  `fire_chunks_callback` finds is its own.
* `NamedFileIsWhole`: `Spec => []FileIsWhole`. `WholeInv` says of a url that is not spoilt: the `.tmp` is the begin of the file, and while an
  answer comes it ends where the next byte belongs, and the answer began at `downloaded_`. A byte that comes is then the next one. That no other
  download writes the `.tmp` is `OneInv`.
* `EveryVerdictIsDue`: `Spec => VerdictIsDue`. For each verdict an invariant says what must have been seen on every way to it:
  `CancelDue` (a handler that is not active was cancelled, or came late), `SuccessDue` (who holds the information of a local file, copies it or is about
  to be told, has the file or it was deleted for another), `ErrorDue` (a size that was read had a `.tmp`, which is there or was
  taken; an answer began where the last one ended, or a request failed).

### The outbox

`Outbox_proofs` proves, for any number of messages, edits, chains, ticks and crashes (`OutboxAssumption`):

* `TypeCorrect`: `Spec => []TypeOK`. `TypeInv` adds what ties the two threads together: each task and each continuation
  belongs to one chain or to nobody, and a chain is where its task says (`ShapeOf`).
* `OneChainAtATime`: if at most one tick waits (`MaxQueuedTicks = 1`), `Spec => []OneActiveChain`. `OneInv` is the same said of places in the queue
  instead of their number: a chain that is not idle, a tick that waits and a timer exclude each other, and the flag is set exactly when there is one.
* `TimerIsSetOnce`: under the same assumption, `Spec => PostTimerIsEmpty`: the assertion of `wim_im.cpp:3119` holds. With two waiting ticks it does not,
  which is the finding of the run `outbox_timer`.
* `MadeOnce`: `Spec => []NoDuplicate`. `SentInv` follows a request: an entry that was sent before has its request id among those that are stored
  with it (`RequestInv`), the server makes at most one message of an id and remembers the first request (`TakenInv`), and
  what is said to be delivered, by an answer or by an imstate, is (`KnownInv`).
* `KeptInHand`, `DeleteIsNotForgotten`, `StrandedOnlyThen`: the action properties `MessageIsKept`, `DeleteIsKept`, `StrandedOnlyBy`. The
  second needs `FreshInv`: a message is inserted once, and before anything else is known of it.
* `EditIsNotLost`: with one waiting tick, the action property `EditIsKept`. `OrderInv` says that versions reach the list in the order in which they were
  typed, and that a copy that is put back is there before the next fetch; `VersionsInv` that the version of an entry, in the list, held by the chain or in a
  task, lies between that of the server and the last one stored.
* `OutboxImplementsDelivery`: with one waiting tick, `Spec => DeliverySpec`, the refinement of `Delivery`. That the version of a packet lies between the one of the server
  and the last one stored is `VersionsInv`. What is new is the first delivery: the server ignores an update of a message it does not have, so the first packet that it takes must not be an
  update. `DeliveredInv` says that the server has a version exactly when it made the message, and that only of such a message can an entry carry a message id
  or a packet be an update; a message id comes with a confirmation only, and what is confirmed was delivered (`KnownInv`). The assumption
  is needed for the order: two ticks start two chains, and each may hold a version of its own.

The step lemmas (`TasksGrow`, `PendingMoves`, `ChainsMove`, `ServerMoves`, `AcceptedMoves`, `Fate`) say what any step can do to one part of the
state; each invariant then needs only those.

### The searches

`DownloadHoles_proofs` proves, for any set of ids, any number of chains, any page size and any bound on what happens (`IndexAssumption` and
`HolesAssumption`):

* `Invariant`: `Spec => []Inv`, and from it `TypeCorrect`: `Spec => []TypeOK`.
* `GapsAreFollowed`: `Spec => []NoGapForgotten`.
* `DeletionsAreKept`: `Spec => []DeletedStayHidden`.
* `AnswersHelp`: the action property `EachAnswerHelps`.

A header is *honest* (`Honest`) when its link leads to an older message, it is deleted only if the server deleted the message, it is a patch only of a
deletion, and its link, if the server told it, leads over no missing message. `Inv` says that the headers of the index, and of every block on its way to
it, are honest (`HonestIndex`, `HonestBlock`), and that no chain, event, copy or state is ahead of the server. Blocks have to be honest about all live
messages, the index only about those that are not in it (`Absent`); that is why the order in which answers are stored does not matter. An answer
that says that nothing is older holds everything that is (`Oldest`), as `insert_history_block` ends the history with it.

For `NoGapForgotten`, `GapInv` says that a missing message below `wanted` is *followed*: ahead of a chain, by its request and, once found, by its hole
(`Ahead`), or covered by the failed request, or given up. The step that matters is `get_next_hole`: a search without a limit passes nothing over that is not
behind an honest link, so the hole it finds is above all that is missing below its start (`SearchSees`, `FindHoleGap`). That a message that is missing shows at all
(`HoleIsShown`) needs the honest links only.

For `DeletedStayHidden`, `DeletedInv` says of the patch version of the state, of the copy and of each request that its deletions are *settled*
(`VersionOK`): stored, about to be stored, or recorded as one that came to nothing; an answer brings the deletions between the version of
its request and its own (`AnswerOK`). A version goes from the state to a copy or a request and back, so it may be old, but never one
whose deletions were not delivered. That storing a block buries what it deletes (`Buried`), whichever way it was merged, is an induction over the block.

For `EachAnswerHelps`, `PagesInv` says of an answer that its messages are older than the end of the hole it was asked from, and that one without
messages, for a hole with no lower end, says that nothing is older. Suppose that the same hole comes back after the block was stored, though the answer told no deletion
that was news and all its messages still live. The hole then has no lower end, since `validate_hole_request` goes on below the upper end of one that was not filled (`GoesBelow`). If
the answer has a message, that message is in the index now, visible, and below the upper end (`StoredIsVisible`), which so is not the last one any more. If it has
none, storing it left the upper end without a link (`OldestLink`), as the oldest message of a dialog has none, and below that there is no hole.

### What is model-checked only

Liveness under fairness is model-checked only (`EveryTaskRuns`, `DestructorReturns`, `QueuedIsSettled`,
`TypedIsSent`, `RequestsAreAnswered`, `CleanupAnswers`, `EveryDownloadIsAnswered`): it needs ENABLED, which is out of the prover's reach, and so is
induction over data.

Of the safety properties `FewRequests` of `DownloadHoles` is model-checked only. What it rests on is proved for every value of the constants: `EachAnswerHelps`, each answer changes what is asked next.
The bound itself is a count over whole runs: a request of a search is charged to a message, or to something that happened, and how often one
happening can be charged depends on how many chains hold an answer or a copy with an old patch version, which each can set the version back once. For two
chains, the instance of the run, the bound is exact enough to be found by TLC; no counterexample came out of instances with three, where it was searched but not exhausted.

## 5. Plan

Next modules, in this order:

1. The count behind `FewRequests`: a bound that names the number of chains, with the old patch versions they hold, and its proof from `EachAnswerHelps`.
2. The other jobs of the archive in `ContactArchive`: the old versions of headers, the queries that serialize a page; in
   `DownloadHoles` the clear patch and the requests by id.
3. An abstract specification of the history: the set of messages the server has, and the part of it the client knows. The other components with callers have theirs
   (`PacketLedger`, `TaskQueue`, `RequestBook`, `Delivery`).
4. The pending-delete chain, a second chain with the form of `Outbox`.
5. Session and poll loop over `SendThread`; the gallery; uploads and avatars, as far as the work reaches.
6. In `FileDownloads`: two destinations of one url, previews, and the cleanup of the cache against a download.

A run that checks one module's safety and liveness together replaces two where the instance allows, so that
the number of runs stays readable.

## 6. Not modelled

Beside the parts planned above: the gui, voip, text parsing, stickers, themes, statistics, disk cache
and updater, whose logic is I/O, parsing or caching on one thread; the configuration of libcurl; the serialisation formats of the archive; and
`async_task.cpp`'s registration of `on_result_` after the push, which all callers make from the core thread.
`PROJECT.json` gives the reason for each, and lists under "hazards" what no property covers yet.

## 7. Running

    tlc -workers 2 -config MCSendThread.cfg MCSendThread
    tlapm ThreadPool_proofs.tla

and likewise for the other pairs of module and configuration in `PROJECT.json`.
