-------------------------------- MODULE Outbox --------------------------------
(***************************************************************************)
(* Sending messages: what the user types, edits and deletes goes to the    *)
(* archive thread as tasks; im::post_pending_messages runs a chain of      *)
(* continuations over the pending messages, one at a time:                 *)
(*                                                                         *)
(*   fetch (archive) - fetched (core) - stamp (archive) - stamped (core)   *)
(*   - the packet on the wire - answered (core) - store (archive) - stored *)
(*   (core) - remove (archive) - removed (core) - fetch ...                *)
(*                                                                         *)
(* with a timer between fetched and the next fetch when the message was    *)
(* posted less than a second ago.  Meanwhile the fetch loop delivers what  *)
(* the server has (dlg_state, imstate), which also ends pending messages.  *)
(*                                                                         *)
(* Two threads, each first in, first out: the archive thread runs          *)
(* archive_tasks; the core thread runs core_tasks, the continuations and   *)
(* timer ticks posted to it, among inputs that may come at any moment.     *)
(***************************************************************************)
EXTENDS PendingOperations, FiniteSets

CONSTANTS
  MaxVersion,      \* bound: versions of a message, 1 + edits
  MaxChains,       \* bound: chains alive together
  MaxQueuedTicks,  \* bound: timer ticks waiting for the core thread
  MaxArchiveTasks, \* bound: tasks of the archive thread when a new input comes
  MaxRequests,     \* bound: network request ids generated
  MaxCrashes,      \* bound
  HistIds,         \* what an answer to send_message may carry: a message id or not
  DeletesAllowed   \* may the user delete pending messages

ASSUME OutboxAssumption ==
  /\ MaxVersion \in Nat \ {0} /\ MaxChains \in Nat \ {0} /\ MaxQueuedTicks \in Nat \ {0}
  /\ MaxArchiveTasks \in Nat \ {0} /\ MaxRequests \in Nat /\ MaxCrashes \in Nat
  /\ HistIds \subseteq BOOLEAN /\ DeletesAllowed \in BOOLEAN

Version == 1..MaxVersion
Chain == 1..MaxChains

VARIABLES
  typed,           \* [Message -> 0..MaxVersion]: versions the user has entered
  pending,         \* pending_messages_ of the contact
  pending_deletes, \* pending_delete_messages_: messages to be deleted on the server
  ids,             \* the history_messages, <<iid, ver>>, that carry a message id
  archive_tasks,   \* the queue of the archive thread
  core_tasks,      \* what waits for the core thread: continuations, named by their
                   \* chain, and ticks of the timer
  chain,           \* [Chain -> where the chain is, and the objects it holds]
  sent_pending_messages_active,
  timer,           \* post_messages_timer_ is not empty_timer_id
  timers,          \* timers of post_pending_messages the scheduler runs
  last_request,    \* network request ids generated so far
  server,          \* per message: the version it has, the request ids it has seen,
                   \* how many messages it made of it
  accepted,        \* [Message -> version]: the last one stored in pending
  refused,         \* messages the server refused for good
  crashes

vars == <<typed, pending, pending_deletes, ids, archive_tasks, core_tasks, chain,
          sent_pending_messages_active, timer, timers, last_request, server,
          accepted, refused, crashes>>

userVars == <<typed, crashes>>
storeVars == <<pending, pending_deletes, ids, last_request, accepted, refused>>
timerVars == <<timer, timers>>

TickTask == 0
NoEntry == [iid |-> "none"]
Idle == [at |-> "idle", entry |-> NoEntry, packet |-> NoEntry]

Init ==
  /\ typed = [m \in Message |-> 0]
  /\ pending = <<>>
  /\ pending_deletes = {}
  /\ ids = {}
  /\ archive_tasks = <<>>
  /\ core_tasks = <<>>
  /\ chain = [c \in Chain |-> Idle]
  /\ sent_pending_messages_active = FALSE
  /\ timer = FALSE /\ timers = 0
  /\ last_request = 0
  /\ server = [m \in Message |-> [ver |-> 0, seen |-> {}, made |-> 0]]
  /\ accepted = [m \in Message |-> 0]
  /\ refused = {}
  /\ crashes = 0

-------------------------------------------------------------------------------
(***************************************************************************)
(* post_pending_messages.                                                  *)
(***************************************************************************)
FetchTask(c) == [op |-> "fetch", chain |-> c]

\* The name a new chain gets: the first that is free.
Free(c) == chain[c] = Idle /\ \A d \in 1..(c - 1) : chain[d] # Idle

\* The body of post_pending_messages: chain c begins with a fetch queued behind tasks.
Begin(c, tasks) ==
  /\ sent_pending_messages_active' = TRUE
  /\ timer' = FALSE
  /\ timers' = IF timer THEN timers - 1 ELSE timers
  /\ chain' = [chain EXCEPT ![c] = [Idle EXCEPT !.at = "fetch"]]
  /\ archive_tasks' = Append(tasks, FetchTask(c))

\* Mutant of PostPendingMessages: the flag is not looked at.
PostPendingMessagesAgain(tasks) == \E c \in Chain : Free(c) /\ Begin(c, tasks)

\* post_pending_messages(false), after tasks were queued.
PostPendingMessages(tasks) ==
  IF sent_pending_messages_active
  THEN archive_tasks' = tasks /\ UNCHANGED <<sent_pending_messages_active, timerVars, chain>>
  ELSE \E c \in Chain : Free(c) /\ Begin(c, tasks)

RoomInArchive == Len(archive_tasks) < MaxArchiveTasks

Queue(task) == Append(archive_tasks, task)

-------------------------------------------------------------------------------
(***************************************************************************)
(* The user.                                                               *)
(***************************************************************************)
\* send_message_to_contact
SendMessageToContact(m) ==
  /\ RoomInArchive
  /\ typed[m] = 0
  /\ typed' = [typed EXCEPT ![m] = 1]
  /\ PostPendingMessages(Queue([op |-> "insert", entry |-> Entry(m, 1, FALSE)]))
  /\ UNCHANGED <<storeVars, core_tasks, server, crashes>>

\* Mutant of UpdateMessageToContact: the edit is not marked as one.
UpdateMessageUnmarked(m) ==
  /\ RoomInArchive
  /\ typed[m] \in 1..(MaxVersion - 1)
  /\ typed' = [typed EXCEPT ![m] = @ + 1]
  /\ PostPendingMessages(
       Queue([op |-> "update", entry |-> Entry(m, typed[m] + 1, FALSE), edit |-> TRUE]))
  /\ UNCHANGED <<storeVars, core_tasks, server, crashes>>

\* update_message_to_contact with id -1: the user edits a message shown as not sent.
\* Only a message with a description and no url does not wake the chain.
UpdateMessageToContact(m) ==
  /\ RoomInArchive
  /\ typed[m] \in 1..(MaxVersion - 1)
  /\ typed' = [typed EXCEPT ![m] = @ + 1]
  /\ LET tasks == Queue([op |-> "update", entry |-> Entry(m, typed[m] + 1, TRUE), edit |-> TRUE])
     IN \/ PostPendingMessages(tasks)
        \/ archive_tasks' = tasks /\ UNCHANGED <<chain, sent_pending_messages_active, timerVars>>
  /\ UNCHANGED <<storeVars, core_tasks, server, crashes>>

\* delete_archive_message for a message shown as not sent.
DeleteArchiveMessage(m) ==
  /\ DeletesAllowed
  /\ RoomInArchive
  /\ typed[m] > 0
  /\ archive_tasks' = Queue([op |-> "delete", iid |-> m])
  /\ UNCHANGED <<userVars, storeVars, core_tasks, chain, sent_pending_messages_active, timerVars, server>>

-------------------------------------------------------------------------------
(***************************************************************************)
(* The archive thread.                                                     *)
(***************************************************************************)
\* The chains hold pointers: what changes an object of the list changes what they see.
Seen(entry) ==
  IF \E i \in DOMAIN pending' : pending'[i].iid = entry.iid /\ pending'[i].ver = entry.ver
  THEN EntryOf(pending', entry.iid) ELSE entry

Held(c) == chain[c].entry # NoEntry

Task == Head(archive_tasks)

\* One task of the archive thread, after which it posts `to` to the core thread.
Run(op, to) ==
  /\ archive_tasks # <<>>
  /\ Head(archive_tasks).op = op
  /\ archive_tasks' = Tail(archive_tasks)
  /\ core_tasks' = core_tasks \o to
  /\ UNCHANGED <<userVars, sent_pending_messages_active, timerVars, server>>

ChainsSee == chain' = [c \in Chain |-> IF Held(c) THEN [chain[c] EXCEPT !.entry = Seen(@)] ELSE chain[c]]

ArchiveInsert ==
  /\ Run("insert", <<>>)
  /\ pending' = InsertMessage(pending, Task.entry)
  /\ accepted' = [accepted EXCEPT ![Task.entry.iid] = Task.entry.ver]
  /\ UNCHANGED <<pending_deletes, ids, last_request, refused, chain>>

\* update_if_exist_not_sent_message, for an edit or for the copy of a sent message.
ArchiveUpdate ==
  /\ Run("update", <<>>)
  /\ pending' = UpdateMessageIfExist(pending, Task.entry)
  /\ accepted' = IF Task.edit /\ Exists(pending, Task.entry.iid)
                 THEN [accepted EXCEPT ![Task.entry.iid] = Task.entry.ver] ELSE accepted
  /\ ChainsSee
  /\ UNCHANGED <<pending_deletes, ids, last_request, refused>>

ArchiveDelete ==
  /\ Run("delete", <<>>)
  /\ pending' = MarkDeleted(pending, Task.iid)
  /\ ChainsSee
  /\ UNCHANGED <<pending_deletes, ids, last_request, accepted, refused>>

\* Mutant of ArchiveFetch: the message leaves the list when it is fetched.
ArchiveFetchPops ==
  /\ Run("fetch", <<Task.chain>>)
  /\ chain' = [chain EXCEPT ![Task.chain].at = "fetched",
                            ![Task.chain].entry = IF pending = <<>> THEN NoEntry
                                                  ELSE GetFirstReadyToSend(pending)]
  /\ pending' = IF pending = <<>> THEN pending ELSE Tail(pending)
  /\ UNCHANGED <<pending_deletes, ids, last_request, accepted, refused>>

ArchiveFetch ==
  /\ Run("fetch", <<Task.chain>>)
  /\ chain' = [chain EXCEPT ![Task.chain].at = "fetched",
                            ![Task.chain].entry = IF pending = <<>> THEN NoEntry
                                                  ELSE GetFirstReadyToSend(pending)]
  /\ UNCHANGED storeVars

ArchiveStamp ==
  /\ Run("stamp", <<Task.chain>>)
  /\ pending' = UpdateMessagePostTime(pending, Task.iid)
  /\ chain' = [c \in Chain |->
                 IF ~Held(c) THEN chain[c]
                 ELSE [chain[c] EXCEPT !.entry = Seen(@),
                                       !.at = IF c = Task.chain THEN "stamped" ELSE @]]
  /\ UNCHANGED <<pending_deletes, ids, last_request, accepted, refused>>

\* update_history for the message: what it stores belongs to the history.
ArchiveStore ==
  /\ Run("store", <<Task.chain>>)
  /\ chain' = [chain EXCEPT ![Task.chain].at = "stored"]
  /\ UNCHANGED storeVars

\* Mutant of RemoveOutcome: the edit that stays is not given the message id.
RemoveOutcomeWithoutId ==
  LET iid == Task.iid
      kept == Exists(pending, iid) /\ Kept(EntryOf(pending, iid), Task.remove_if_modified)
      has_id == Task.ver = 0 \/ <<iid, Task.ver>> \in ids
  IN /\ kept => last_request < MaxRequests
     /\ pending' = RemoveMessage(pending, iid, Task.remove_if_modified, last_request + 1)
     /\ last_request' = IF kept THEN last_request + 1 ELSE last_request
     /\ pending_deletes' = IF LeavesDelete(pending, iid, has_id)
                           THEN pending_deletes \cup {iid} ELSE pending_deletes
     /\ refused' = IF Task.remove_if_modified THEN refused \cup {iid} ELSE refused
     /\ UNCHANGED ids

\* remove_messages_from_not_sent, for the chain that got the answer, for dlg_state
\* (chain 0), or for a refused message (chain 0, modified ones too).  A block that
\* comes from the server (ver 0) has a message id, a refused one may have none.
RemoveOutcome ==
  LET iid == Task.iid
      kept == Exists(pending, iid) /\ Kept(EntryOf(pending, iid), Task.remove_if_modified)
      has_id == Task.ver = 0 \/ <<iid, Task.ver>> \in ids
  IN /\ kept => last_request < MaxRequests
     /\ pending' = RemoveMessage(pending, iid, Task.remove_if_modified, last_request + 1)
     /\ last_request' = IF kept THEN last_request + 1 ELSE last_request
     /\ ids' = IF kept THEN ids \cup {<<iid, EntryOf(pending, iid).ver>>} ELSE ids
     /\ pending_deletes' = IF LeavesDelete(pending, iid, has_id)
                           THEN pending_deletes \cup {iid} ELSE pending_deletes
     /\ refused' = IF Task.remove_if_modified THEN refused \cup {iid} ELSE refused

ArchiveRemove ==
  /\ Run("remove", IF Task.chain = 0 THEN <<>> ELSE <<Task.chain>>)
  /\ RemoveOutcome
  /\ chain' = [c \in Chain |->
                 IF c = Task.chain THEN [Idle EXCEPT !.at = "removed"]
                 ELSE IF Held(c) THEN [chain[c] EXCEPT !.entry = Seen(@)] ELSE chain[c]]
  /\ UNCHANGED accepted

ArchiveImstate ==
  /\ Run("imstate", <<>>)
  /\ pending' = UpdateWithImstate(pending, Task.iid)
  /\ pending_deletes' = IF LeavesDelete(pending, Task.iid, TRUE)
                        THEN pending_deletes \cup {Task.iid} ELSE pending_deletes
  /\ ChainsSee
  /\ UNCHANGED <<ids, last_request, accepted, refused>>

ArchiveStep ==
  \/ ArchiveInsert \/ ArchiveUpdate \/ ArchiveDelete \/ ArchiveFetch
  \/ ArchiveStamp \/ ArchiveStore \/ ArchiveRemove \/ ArchiveImstate

-------------------------------------------------------------------------------
(***************************************************************************)
(* The continuations of the chain, on the core thread.                     *)
(***************************************************************************)
Unstored == UNCHANGED <<userVars, storeVars>>

\* The core thread runs the first of its tasks.
Continue(task) ==
  /\ core_tasks # <<>>
  /\ Head(core_tasks) = task
  /\ core_tasks' = Tail(core_tasks)

ChainEnds(c) ==
  /\ chain' = [chain EXCEPT ![c] = Idle]
  /\ sent_pending_messages_active' = FALSE

\* get_pending_message found nothing.
FetchedNothing(c) ==
  /\ chain[c].at = "fetched" /\ ~Held(c)
  /\ Continue(c)
  /\ ChainEnds(c)
  /\ UNCHANGED <<archive_tasks, timerVars, server>> /\ Unstored

\* Mutant of FetchedRecent: the timer is not set.
FetchedRecentNoTimer(c) ==
  /\ chain[c].at = "fetched" /\ Held(c)
  /\ Continue(c)
  /\ chain[c].entry.recent
  /\ chain' = [chain EXCEPT ![c] = Idle]
  /\ UNCHANGED <<archive_tasks, sent_pending_messages_active, timerVars, server>> /\ Unstored

\* The message was posted less than a second ago: the timer goes on from here.
FetchedRecent(c) ==
  /\ chain[c].at = "fetched" /\ Held(c)
  /\ Continue(c)
  /\ chain[c].entry.recent
  /\ chain' = [chain EXCEPT ![c] = Idle]
  /\ timer' = TRUE
  /\ timers' = timers + 1
  /\ UNCHANGED <<archive_tasks, sent_pending_messages_active, server>> /\ Unstored

FetchedReady(c) ==
  /\ chain[c].at = "fetched" /\ Held(c)
  /\ Continue(c)
  /\ ~chain[c].entry.recent
  /\ chain' = [chain EXCEPT ![c].at = "stamp"]
  /\ archive_tasks' = Queue([op |-> "stamp", chain |-> c, iid |-> chain[c].entry.iid])
  /\ UNCHANGED <<sent_pending_messages_active, timerVars, server>> /\ Unstored

\* send_pending_message_async: the packet is made from the object as it is now.
SendPendingMessageAsync(c) ==
  /\ chain[c].at = "stamped"
  /\ Continue(c)
  /\ LET e == chain[c].entry
     IN chain' = [chain EXCEPT
          ![c].at = "wire",
          ![c].packet = [iid |-> e.iid, ver |-> e.ver, request |-> e.request,
                         updated |-> <<e.iid, e.ver>> \in ids]]
  /\ UNCHANGED <<archive_tasks, sent_pending_messages_active, timerVars, server>> /\ Unstored

\* The answer is a success with a message id: store the message, then remove it.
AnsweredHistId(c) ==
  /\ TRUE \in HistIds
  /\ chain[c].at = "handled"
  /\ UNCHANGED core_tasks
  /\ chain' = [chain EXCEPT ![c].at = "store"]
  /\ archive_tasks' = Queue([op |-> "store", chain |-> c])
  /\ UNCHANGED <<sent_pending_messages_active, timerVars, server>> /\ Unstored

\* A success without one: a copy of the object goes to the list, the chain goes on.
AnsweredNoHistId(c) ==
  /\ FALSE \in HistIds
  /\ chain[c].at = "handled"
  /\ UNCHANGED core_tasks
  /\ Begin(c, Queue([op |-> "update", entry |-> chain[c].entry, edit |-> FALSE]))
  /\ UNCHANGED server /\ Unstored

\* The server refuses the message for good.
AnsweredRefused(c) ==
  /\ chain[c].at = "wire"
  /\ UNCHANGED core_tasks
  /\ ChainEnds(c)
  /\ archive_tasks' = Queue([op |-> "remove", chain |-> 0, iid |-> chain[c].entry.iid,
                             ver |-> chain[c].entry.ver, remove_if_modified |-> TRUE])
  /\ UNCHANGED <<timerVars, server>> /\ Unstored

\* Any other failure; the server may or may not have handled the packet.
AnsweredError(c) ==
  /\ chain[c].at \in {"wire", "handled"}
  /\ UNCHANGED core_tasks
  /\ ChainEnds(c)
  /\ UNCHANGED <<archive_tasks, timerVars, server>> /\ Unstored

\* The send thread drops the packet (clear, rate limit, no token): no handler runs.
PacketDropped(c) ==
  /\ chain[c].at = "wire"
  /\ UNCHANGED core_tasks
  /\ chain' = [chain EXCEPT ![c] = [Idle EXCEPT !.at = "dropped"]]
  /\ UNCHANGED <<archive_tasks, sent_pending_messages_active, timerVars, server>> /\ Unstored

Stored(c) ==
  /\ chain[c].at = "stored"
  /\ Continue(c)
  /\ chain' = [chain EXCEPT ![c].at = "remove"]
  /\ archive_tasks' = Queue([op |-> "remove", chain |-> c, iid |-> chain[c].entry.iid,
                             ver |-> 0, remove_if_modified |-> FALSE])
  /\ UNCHANGED <<sent_pending_messages_active, timerVars, server>> /\ Unstored

\* Mutant of Removed: the chain ends with the message.
RemovedEnds(c) ==
  /\ chain[c].at = "removed"
  /\ Continue(c)
  /\ ChainEnds(c)
  /\ UNCHANGED <<archive_tasks, timerVars, server>> /\ Unstored

\* The last reference to the answer's scope is gone: its handler runs, with success.
Removed(c) ==
  /\ chain[c].at = "removed"
  /\ Continue(c)
  /\ Begin(c, archive_tasks)
  /\ UNCHANGED server /\ Unstored

ChainStep(c) ==
  \/ FetchedNothing(c) \/ FetchedRecent(c) \/ FetchedReady(c) \/ SendPendingMessageAsync(c)
  \/ AnsweredHistId(c) \/ AnsweredNoHistId(c) \/ AnsweredRefused(c) \/ AnsweredError(c)
  \/ Stored(c) \/ Removed(c)

-------------------------------------------------------------------------------
(***************************************************************************)
(* Time, the network and crashes.                                          *)
(***************************************************************************)
Aged(e) == IF e = NoEntry THEN e ELSE [e EXCEPT !.recent = FALSE]

SecondPasses ==
  /\ pending' = [i \in DOMAIN pending |-> Aged(pending[i])]
  /\ chain' = [c \in Chain |-> [chain[c] EXCEPT !.entry = Aged(@)]]
  /\ <<pending, chain>> # <<pending', chain'>>
  /\ UNCHANGED <<userVars, pending_deletes, ids, last_request, accepted, refused, archive_tasks,
                 core_tasks, sent_pending_messages_active, timerVars, server>>

Ticks == Cardinality({i \in DOMAIN core_tasks : core_tasks[i] = TickTask})

\* The scheduler posts the timer's function every second, whether or not the core
\* thread has run the last one.  What was posted before the timer is not recent then.
TimerFires ==
  /\ timers > 0
  /\ Ticks < MaxQueuedTicks
  /\ core_tasks' = Append(core_tasks, TickTask)
  /\ pending' = [i \in DOMAIN pending |-> Aged(pending[i])]
  /\ chain' = [c \in Chain |-> [chain[c] EXCEPT !.entry = Aged(@)]]
  /\ UNCHANGED <<userVars, pending_deletes, ids, last_request, accepted, refused, archive_tasks,
                 sent_pending_messages_active, timerVars, server>>

\* The timer's function runs: post_pending_messages(true).
Tick ==
  /\ Continue(TickTask)
  /\ \E c \in Chain : Free(c) /\ Begin(c, archive_tasks)
  /\ UNCHANGED server /\ Unstored

\* resume_failed_network_requests, after every answered fetch.
ResumeFailedNetworkRequests ==
  /\ ~sent_pending_messages_active
  /\ PostPendingMessages(archive_tasks)
  /\ UNCHANGED <<core_tasks, server>> /\ Unstored

\* The server takes a request once: a request id it has seen changes nothing.
ServerHandles(c) ==
  /\ chain[c].at = "wire"
  /\ UNCHANGED core_tasks
  /\ LET p == chain[c].packet
     IN server' = IF p.request \in server[p.iid].seen THEN server
                  ELSE [server EXCEPT ![p.iid] =
                          [ver |-> p.ver, seen |-> @.seen \cup {p.request},
                           made |-> IF p.updated THEN @.made ELSE @.made + 1]]
  /\ chain' = [chain EXCEPT ![c].at = "handled"]
  /\ UNCHANGED <<archive_tasks, sent_pending_messages_active, timerVars>> /\ Unstored

\* The fetch loop delivers the message, with its request id, as part of a dialog.
OnDlgState(m) ==
  /\ RoomInArchive
  /\ server[m].ver > 0
  /\ archive_tasks' = Queue([op |-> "remove", chain |-> 0, iid |-> m,
                             ver |-> 0, remove_if_modified |-> FALSE])
  /\ UNCHANGED <<core_tasks, chain, sent_pending_messages_active, timerVars, server>> /\ Unstored

\* on_event_imstate for a request the server has taken.
OnEventImstate(m) ==
  /\ RoomInArchive
  /\ server[m].ver > 0
  /\ archive_tasks' = Queue([op |-> "imstate", iid |-> m])
  /\ UNCHANGED <<core_tasks, chain, sent_pending_messages_active, timerVars, server>> /\ Unstored

Saves == archive_tasks # <<>> /\ Task.op \in {"insert", "update", "delete", "remove", "imstate"}

\* A crash and a restart; torn: inside save(), between the truncation and the write.
Crash(torn) ==
  /\ crashes < MaxCrashes
  /\ torn => Saves
  /\ crashes' = crashes + 1
  /\ pending' = IF torn THEN <<>> ELSE [i \in DOMAIN pending |-> Aged(pending[i])]
  /\ archive_tasks' = <<>>
  /\ core_tasks' = <<>>
  /\ chain' = [c \in Chain |-> Idle]
  /\ sent_pending_messages_active' = FALSE
  /\ timer' = FALSE /\ timers' = 0
  /\ UNCHANGED <<typed, pending_deletes, ids, last_request, accepted, refused, server>>

Next ==
  \/ \E m \in Message :
       \/ SendMessageToContact(m) \/ UpdateMessageToContact(m) \/ DeleteArchiveMessage(m)
       \/ OnDlgState(m) \/ OnEventImstate(m)
  \/ ArchiveStep
  \/ \E c \in Chain : ChainStep(c) \/ PacketDropped(c) \/ ServerHandles(c)
  \/ SecondPasses \/ TimerFires \/ Tick
  \/ ResumeFailedNetworkRequests
  \/ \E torn \in BOOLEAN : Crash(torn)

Spec == Init /\ [][Next]_vars

(***************************************************************************)
(* The threads run their tasks, the scheduler its timers; a request that   *)
(* is tried again and again is taken and answered some time; the fetch     *)
(* loop is answered, delivers every message the server has, and resumes    *)
(* failed requests after each answer.                                      *)
(***************************************************************************)
Fairness ==
  /\ WF_vars(ArchiveStep)
  /\ WF_vars(SecondPasses) /\ WF_vars(TimerFires) /\ WF_vars(Tick)
  /\ WF_vars(ResumeFailedNetworkRequests)
  /\ \A c \in Chain : WF_vars(ChainStep(c)) /\ SF_vars(ServerHandles(c))
                       /\ SF_vars(AnsweredHistId(c) \/ AnsweredNoHistId(c))
  /\ \A m \in Message : SF_vars(OnDlgState(m))

FairSpec == Spec /\ Fairness

-------------------------------------------------------------------------------
(***************************************************************************)
(* Properties.                                                             *)
(***************************************************************************)
Entries ==
  [iid : Message, ver : Version, modified : BOOLEAN, deleted : BOOLEAN,
   request : 0..MaxRequests, recent : BOOLEAN]

Packets == [iid : Message, ver : Version, request : 0..MaxRequests, updated : BOOLEAN]

Tasks ==
  [op : {"insert"}, entry : Entries]
    \cup [op : {"update"}, entry : Entries, edit : BOOLEAN]
    \cup [op : {"delete", "imstate"}, iid : Message]
    \cup [op : {"fetch", "store"}, chain : Chain]
    \cup [op : {"stamp"}, chain : Chain, iid : Message]
    \cup [op : {"remove"}, chain : Chain \cup {0}, iid : Message, ver : Version \cup {0},
         remove_if_modified : BOOLEAN]

Places ==
  {"idle", "fetch", "fetched", "stamp", "stamped", "wire", "handled", "dropped", "store", "stored",
   "remove", "removed"}

TypeOK ==
  /\ typed \in [Message -> 0..MaxVersion]
  /\ pending \in Seq(Entries)
  /\ pending_deletes \subseteq Message
  /\ ids \subseteq Message \X Version
  /\ archive_tasks \in Seq(Tasks)
  /\ core_tasks \in Seq(Chain \cup {TickTask}) /\ Ticks \in 0..MaxQueuedTicks
  /\ chain \in [Chain -> [at : Places, entry : Entries \cup {NoEntry}, packet : Packets \cup {NoEntry}]]
  /\ sent_pending_messages_active \in BOOLEAN
  /\ timer \in BOOLEAN /\ timers \in Nat
  /\ last_request \in 0..MaxRequests
  /\ server \in [Message -> [ver : 0..MaxVersion, seen : SUBSET (0..MaxRequests), made : Nat]]
  /\ accepted \in [Message -> 0..MaxVersion]
  /\ refused \subseteq Message
  /\ crashes \in 0..MaxCrashes

\* sent_pending_messages_active_ is true exactly while something will continue the
\* chain: a continuation, a packet, the timer or a tick of it.  (A packet the send
\* thread dropped counts: the flag then stays true until a restart.)
ActiveHasChain ==
  sent_pending_messages_active <=> (\E c \in Chain : chain[c] # Idle) \/ timers > 0 \/ Ticks > 0

\* One message is on its way at a time: there is never a second chain beside the
\* first or beside its timer.
OneChain ==
  /\ \A c, d \in Chain : chain[c] # Idle /\ chain[d] # Idle => c = d
  /\ timers > 0 \/ Ticks > 0 => \A c \in Chain : chain[c] = Idle
  /\ timers <= 1 /\ (timer <=> timers = 1)

\* The flag alone keeps the chains apart, and it must not stay true without one:
\* there is exactly one chain while it is true, and none while it is false.
OneActiveChain == ActiveHasChain /\ OneChain

\* im_assert(post_messages_timer_ == empty_timer_id) when the timer is set.
PostTimerIsEmpty == [][timers' > timers => ~timer]_vars

\* However often a message is sent again, by retries, stale copies, edits and after
\* crashes, the server makes one message of it.
NoDuplicate == \A m \in Message : server[m].made <= 1

Torn == crashes' > crashes /\ pending' = <<>>

InHand(m) == Exists(pending, m) \/ server[m].ver > 0 \/ m \in refused

\* A typed message stays pending until the server has it or refuses it; only a
\* crash inside save() loses it.
MessageIsKept ==
  [][\A m \in Message : InHand(m) /\ ~InHand(m)' => Torn]_vars

Executes(op) == archive_tasks # <<>> /\ Task.op = op /\ archive_tasks' = Tail(archive_tasks)

StaleCopy(m) == Executes("update") /\ ~Task.edit /\ Task.entry.iid = m
SecondConfirmation(m) ==
  (Executes("imstate") \/ Executes("remove")) /\ Task.iid = m /\ EntryOf(pending, m).request > 0

Current(m) ==
  \/ Exists(pending, m) /\ EntryOf(pending, m).ver = accepted[m]
  \/ server[m].ver = accepted[m]
  \/ m \in refused \cup pending_deletes

\* The last edit that was stored stays pending until the server has it, refuses
\* the message or is to delete it, with three exceptions: the copy made of an answered message, put
\* back over an edit of the meantime; a second confirmation of an older version (the
\* answer, dlg_state and imstate each confirm it), which ends the edit the first one
\* turned into an update; a crash inside save().
EditIsKept ==
  [][\A m \in Message : Current(m) /\ ~Current(m)' => StaleCopy(m) \/ SecondConfirmation(m) \/ Torn]_vars

Marked(m) == Exists(pending, m) /\ EntryOf(pending, m).deleted

\* A delete that was noted on a pending message is never forgotten: the entry leaves
\* the list for pending_delete_messages_, with the exceptions of an edit or a copy
\* put over it, of a refusal, and of a crash inside save().
DeleteIsKept ==
  [][\A m \in Message : Marked(m) /\ ~Marked(m)'
       => m \in pending_deletes' \/ m \in refused' \/ (Executes("update") /\ Task.entry.iid = m) \/ Torn]_vars

\* Pending messages nobody is going to send.
Stranded ==
  /\ ~sent_pending_messages_active
  /\ pending # <<>> \/ \E i \in DOMAIN archive_tasks : archive_tasks[i].op = "insert"

\* The chain stops with messages left only when a packet failed, at a restart, or
\* when a message was inserted between an empty fetch and its continuation.
StrandedOnlyBy ==
  [][~Stranded /\ Stranded'
     => \/ crashes' > crashes
        \/ \E c \in Chain : /\ chain'[c] = Idle
                            /\ \/ chain[c].at \in {"wire", "handled"}
                               \/ chain[c].at = "fetched" /\ ~Held(c)]_vars

\* Every typed message reaches the server, unless it is refused or the send thread
\* drops a packet, which ends the chain without a word.
TypedIsSent ==
  \A m \in Message :
    typed[m] > 0 ~> server[m].ver > 0 \/ m \in refused \/ \E c \in Chain : chain[c].at = "dropped"

Delivered == INSTANCE Delivery WITH
  entered <- typed, kept <- accepted,
  delivered <- [m \in Message |-> server[m].ver], copies <- [m \in Message |-> server[m].made]

\* The outbox keeps the promise of Delivery: whatever chains, timers, copies, confirmations and
\* crashes bring back, the server is never given an older version of a message after a newer one,
\* nor one that was not stored, and the first one it takes makes the one message.
DeliverySpec == Delivered!Spec
===============================================================================
