---------------------------- MODULE FileDownloads ----------------------------
(***************************************************************************)
(* async_loader::download_file_sharing: files of the chats are downloaded  *)
(* in chunks into <name>.tmp, which is renamed when it is complete.  A     *)
(* request first asks for the meta information of its url, then a job of   *)
(* the file_save_thread either lets it join the download of that url in    *)
(* in_progress_ or makes a downloadable_file_chunks and begins.  The       *)
(* chunks object is named after the request that made it.                  *)
(*                                                                         *)
(* Three kinds of threads meet: the core thread (requests, cancellations,  *)
(* the answers of the meta information, resume_suspended_tasks), the       *)
(* file_save_thread (its jobs, first in first out) and the curl threads,   *)
(* where download_file_sharing_impl is called again for the next chunk.    *)
(* Only in_progress_ and the active_seqs_ have a mutex; suspended_tasks_   *)
(* has none.                                                               *)
(*                                                                         *)
(* A file is the sequence of its bytes; byte n of the server's file is n.  *)
(***************************************************************************)
EXTENDS Integers, Sequences, FiniteSets

CONSTANTS
  Url,
  Request,      \* the calls of the gui, by their _seq
  UrlOf,        \* [Request -> Url]
  Total,        \* total_size_: bytes of a file
  MaxChunk,     \* max_chunk_size: a request asks for one byte more
  NoFile,       \* the content of a file that does not exist
  NoRequest,    \* no entry in in_progress_
  MaxFaults     \* bound: requests that fail, and restarts

ASSUME FileDownloadsAssumption ==
  /\ UrlOf \in [Request -> Url]
  /\ Total \in Nat \ {0} /\ MaxChunk \in Nat /\ MaxFaults \in Nat
  /\ NoRequest \notin Request
  /\ NoFile \notin Seq(0..Total)

VARIABLES
  file, tmp,    \* [Url -> content]: file_name_ and tmp_file_name_ on the disk
  meta,         \* the urls whose meta information is in the cache
  local,        \* those where it names the file as it is on the disk, by its time
  at,           \* [Request -> where the request is]
  named,        \* requests that found the local file when they came, so that
                \* _file_name is its path
  holds,        \* requests whose meta information names the file as it is, by its time
  size,         \* [Request -> the size of the .tmp it read]
  save_queue,   \* jobs of the file_save_thread, <<kind, request>>
  cancelled_tasks,
  in_progress,  \* [Url -> the chunks object, or NoRequest]
  handlers, active_seqs, \* [chunks object -> requests]
  downloaded,   \* downloaded_ of a chunks object
  step,         \* [chunks object -> where its download is]
  by,           \* [chunks object -> the thread that executes it]
  from, goal,   \* the bytes of the answer are from + 1 .. goal
  got,          \* how many of them came
  verdict,      \* [chunks object -> _error of fire_chunks_callback]
  resuming,     \* the core thread is in the loop of resume_suspended_tasks
  failures, restarts,
  cancelled,    \* history: requests the user has cancelled
  late,         \* history: requests that joined a download that nobody wanted any
                \* more, or that was decided
  spoilt,       \* history: urls whose .tmp got bytes at another place than theirs, or
                \* was renamed with other bytes than were counted
  taken,        \* history: urls whose .tmp was renamed or deleted
  wiped         \* history: urls whose file was deleted for another download

disk == <<file, tmp, meta, local>>
asking == <<at, named, holds, size>>
chunks == <<handlers, active_seqs, downloaded, from, goal, got, verdict>>
running == <<step, by>>
history == <<cancelled, late, spoilt, taken, wiped>>
vars == <<disk, asking, save_queue, cancelled_tasks, in_progress, chunks, running,
          resuming, failures, restarts, history>>

Whole == [n \in 1..Total |-> n]
SizeOf(content) == IF content = NoFile THEN 0 ELSE Len(content)
OfUrl(u) == {r \in Request : UrlOf[r] = u}
\* the file on the disk has the size that the meta information tells
HasItsSize(u) == SizeOf(file[u]) = Total

\* how many bytes of an answer that comes may still be in the buffer of the stream
Unflushed(u) ==
  {n \in 0..SizeOf(tmp[u]) :
     n = 0 \/ \E o \in OfUrl(u) : step[o] \in {"flight", "stopped"} /\ n <= got[o]}

Told == {"success", "error", "cancelled", "saved"}

Init ==
  /\ file = [u \in Url |-> NoFile] /\ tmp = [u \in Url |-> NoFile]
  /\ meta = {} /\ local = {}
  /\ at = [r \in Request |-> "new"] /\ named = {} /\ holds = {}
  /\ size = [r \in Request |-> 0] /\ save_queue = <<>> /\ cancelled_tasks = {}
  /\ in_progress = [u \in Url |-> NoRequest]
  /\ handlers = [o \in Request |-> {}] /\ active_seqs = handlers
  /\ downloaded = [o \in Request |-> 0] /\ from = downloaded /\ goal = downloaded
  /\ got = downloaded /\ verdict = [o \in Request |-> "error"]
  /\ step = [o \in Request |-> "none"] /\ by = [o \in Request |-> "curl"]
  /\ resuming = FALSE /\ failures = 0 /\ restarts = 0
  /\ cancelled = {} /\ late = {} /\ spoilt = {} /\ taken = {} /\ wiped = {}

-----------------------------------------------------------------------------
(* A thread that executes download_file_sharing_impl or fire_chunks_callback *)
(* does nothing else; the curl threads are several.                          *)
Busy(thread) == \E o \in Request : by[o] = thread /\ step[o] \in {"check", "fire"}
CoreIsFree == ~Busy("core") /\ ~resuming /\ \A r \in Request : at[r] # "sized"
Job(kind, r) ==
  /\ ~Busy("save") /\ save_queue # <<>> /\ Head(save_queue) = <<kind, r>>
  /\ save_queue' = Tail(save_queue)
Push(kind, r) == save_queue' = Append(save_queue, <<kind, r>>)
Go(r, place) == at' = [at EXCEPT ![r] = place]
Fail == failures + restarts < MaxFaults /\ failures' = failures + 1

\* The file at the path is another than before, or none: no meta information
\* names it any more.
Replace(u, content) ==
  /\ file' = [file EXCEPT ![u] = content]
  /\ local' = local \ {u} /\ holds' = holds \ OfUrl(u)

DropTmp(u) == tmp' = [tmp EXCEPT ![u] = NoFile] /\ taken' = taken \cup {u}

\* Mutant of AddHandler: the request is only counted in the active_seqs_.
AddNoHandler(o, r) == handlers' = [handlers EXCEPT ![o] = @ \ {r}]
AddHandler(o, r) == handlers' = [handlers EXCEPT ![o] = @ \cup {r}]

\* update_file_chunks
UpdateFileChunks(o, r) ==
  /\ AddHandler(o, r)
  /\ active_seqs' = [active_seqs EXCEPT ![o] = @ \cup {r}]
  /\ late' = IF active_seqs[o] = {} \/ step[o] = "fire" THEN late \cup {r} ELSE late
  /\ Go(r, "waiting")
  /\ UNCHANGED <<downloaded, from, goal, got, verdict, cancelled, spoilt, wiped>>

-----------------------------------------------------------------------------
(* The meta information *)

\* download_file_sharing on the core thread, up to the job that it pushes
Download(r) ==
  LET o == in_progress[UrlOf[r]] IN
  /\ CoreIsFree /\ at[r] \in {"new", "later"}
  /\ \/ /\ o # NoRequest /\ UpdateFileChunks(o, r)
        /\ UNCHANGED <<named, save_queue, taken>>
     \/ /\ o = NoRequest /\ Push("clear", r) /\ Go(r, "clear")
        /\ named' = IF UrlOf[r] \in local /\ HasItsSize(UrlOf[r])
                     THEN named \cup {r} ELSE named \ {r}
        /\ UNCHANGED <<chunks, history>>
  /\ UNCHANGED <<disk, holds, size, cancelled_tasks, in_progress, running, resuming, failures, restarts>>

\* the job: the meta information is asked for again unless it names the file
ClearMeta(r) ==
  /\ Job("clear", r) /\ at[r] = "clear" /\ Go(r, "cleared")
  /\ IF r \in named
       THEN UNCHANGED <<meta, local, holds>>
       ELSE meta' = meta \ {UrlOf[r]} /\ local' = local \ {UrlOf[r]} /\ UNCHANGED holds
  /\ UNCHANGED <<file, tmp, named, size, cancelled_tasks, in_progress, chunks, running,
                 resuming, failures, restarts, history>>

\* download_metainfo: from the cache, or a request
RequestMeta(r) ==
  /\ IF UrlOf[r] \in meta
       THEN Go(r, "meta") /\ holds' = IF UrlOf[r] \in local THEN holds \cup {r} ELSE holds \ {r}
       ELSE Go(r, "request") /\ UNCHANGED holds
  /\ UNCHANGED <<disk, named, size, save_queue, cancelled_tasks, in_progress, chunks, running,
                 resuming, failures, restarts, history>>

Cleared(r) == CoreIsFree /\ at[r] = "cleared" /\ RequestMeta(r)

\* the completion of download() on a curl thread
MetaAnswer(r) ==
  /\ at[r] = "request" /\ Push("answer", r)
  /\ cancelled_tasks' = cancelled_tasks \ {r}
  /\ \/ Go(r, "metaCame") /\ UNCHANGED failures
     \/ r \in cancelled_tasks /\ Go(r, "metaRefused") /\ UNCHANGED failures
     \/ Fail /\ \E outcome \in {"metaRefused", "metaLater", "metaFailed"} : Go(r, outcome)
  /\ UNCHANGED <<disk, named, holds, size, in_progress, chunks, running, resuming, restarts, history>>

\* the job of download(), and the handler of download_metainfo: a network error
\* suspends the request, come_back_later lets im ask again after a time
MetaAnswered(r) ==
  /\ Job("answer", r)
  /\ \/ at[r] = "metaCame" /\ Go(r, "meta")
        /\ meta' = meta \cup {UrlOf[r]} /\ local' = local \ {UrlOf[r]} /\ holds' = holds \ {r}
     \/ /\ \/ at[r] = "metaRefused" /\ Go(r, "error")
           \/ at[r] = "metaLater" /\ Go(r, "later")
           \/ at[r] = "metaFailed" /\ Go(r, "suspended")
        /\ UNCHANGED <<meta, local, holds>>
  /\ UNCHANGED <<file, tmp, named, size, cancelled_tasks, in_progress, chunks, running,
                 resuming, failures, restarts, history>>

\* the file is the one that the meta information names, and has its size
IsSameFile(r) == r \in holds /\ HasItsSize(UrlOf[r])

\* the handler of the meta information: the file is there, or it is deleted and
\* downloaded again
MetaReady(r) ==
  LET u == UrlOf[r] IN
  /\ CoreIsFree /\ at[r] = "meta"
  /\ \/ /\ IsSameFile(r) /\ r \in named
        /\ Push("copy", r) /\ Go(r, "copy") /\ UNCHANGED <<file, local, holds, size, wiped>>
     \/ /\ IsSameFile(r) /\ r \notin named
        /\ Go(r, "success") /\ UNCHANGED <<file, local, holds, size, save_queue, wiped>>
     \/ /\ ~IsSameFile(r)
        /\ Replace(u, NoFile)
        /\ wiped' = IF file[u] = NoFile THEN wiped ELSE wiped \cup {u}
        /\ \E n \in Unflushed(u) : size' = [size EXCEPT ![r] = SizeOf(tmp[u]) - n]
        /\ Go(r, "sized") /\ UNCHANGED save_queue
  /\ UNCHANGED <<tmp, meta, named, cancelled_tasks, in_progress, chunks, running, resuming,
                 failures, restarts, cancelled, late, spoilt, taken>>

PushStart(r) ==
  /\ at[r] = "sized" /\ Push("start", r) /\ Go(r, "start")
  /\ UNCHANGED <<disk, named, holds, size, cancelled_tasks, in_progress, chunks, running,
                 resuming, failures, restarts, history>>

\* the local file is where it was asked for
Copy(r) ==
  /\ Job("copy", r) /\ at[r] = "copy" /\ Go(r, "success")
  /\ UNCHANGED <<disk, named, holds, size, cancelled_tasks, in_progress, chunks, running,
                 resuming, failures, restarts, history>>

-----------------------------------------------------------------------------
(* The chunks *)

\* tools::system::move_file of the .tmp
Move(u) == Replace(u, tmp[u]) /\ DropTmp(u)

\* the job that follows the meta information: the .tmp had all bytes
StartWithAll(r) ==
  LET u == UrlOf[r] IN
  /\ Job("start", r) /\ at[r] = "start" /\ size[r] = Total
  /\ \/ /\ tmp[u] # NoFile /\ Move(u) /\ Go(r, "success")
        /\ spoilt' = IF SizeOf(tmp[u]) # size[r] THEN spoilt \cup {u} ELSE spoilt
     \/ tmp[u] = NoFile /\ Go(r, "error") /\ UNCHANGED <<file, tmp, local, holds, taken, spoilt>>
  /\ size' = [size EXCEPT ![r] = 0]
  /\ UNCHANGED <<meta, named, cancelled_tasks, in_progress, chunks, running, resuming,
                 failures, restarts, cancelled, late, wiped>>

\* Mutant of BeganMeanwhile: in_progress_ is not looked at again.
NothingBegan(u) == u \notin Url
\* another download of the url began meanwhile
BeganMeanwhile(u) == in_progress[u] # NoRequest

\* or it had too many, or some, which are kept
Start(r) ==
  LET u == UrlOf[r]
      o == in_progress[u]
      kept == IF size[r] > Total THEN 0 ELSE size[r]
  IN
  /\ Job("start", r) /\ at[r] = "start" /\ size[r] # Total
  /\ IF size[r] > Total THEN DropTmp(u) ELSE UNCHANGED <<tmp, taken>>
  /\ \/ BeganMeanwhile(u) /\ UpdateFileChunks(o, r) /\ UNCHANGED <<in_progress, running>>
     \/ /\ ~BeganMeanwhile(u)
        /\ in_progress' = [in_progress EXCEPT ![u] = r]
        /\ handlers' = [handlers EXCEPT ![r] = {r}]
        /\ active_seqs' = [active_seqs EXCEPT ![r] = {r}]
        /\ downloaded' = [downloaded EXCEPT ![r] = kept]
        /\ step' = [step EXCEPT ![r] = "check"] /\ by' = [by EXCEPT ![r] = "save"]
        /\ Go(r, "waiting")
        /\ UNCHANGED <<from, goal, got, verdict, cancelled, late, spoilt, wiped>>
  /\ size' = [size EXCEPT ![r] = 0]
  /\ UNCHANGED <<file, meta, local, named, holds, cancelled_tasks, resuming, failures, restarts>>

Executes(o, place, thread) ==
  step' = [step EXCEPT ![o] = place] /\ by' = [by EXCEPT ![o] = thread]
GiveUp(o, error, thread) ==
  verdict' = [verdict EXCEPT ![o] = error] /\ Executes(o, "fire", thread)

\* download_file_sharing_impl: nobody wants the file any more ...
CheckFindsNobody(o) ==
  /\ step[o] = "check" /\ active_seqs[o] = {}
  /\ DropTmp(UrlOf[o]) /\ GiveUp(o, "cancelled", by[o])
  /\ UNCHANGED <<file, meta, local, asking, save_queue, cancelled_tasks, in_progress, handlers,
                 active_seqs, downloaded, from, goal, got, resuming, failures, restarts, cancelled,
                 late, spoilt, wiped>>

\* ... the .tmp cannot be opened ...
OpenFails(o) ==
  /\ step[o] = "check" /\ active_seqs[o] # {} /\ Fail
  /\ GiveUp(o, "error", by[o])
  /\ UNCHANGED <<disk, asking, save_queue, cancelled_tasks, in_progress, handlers,
                 active_seqs, downloaded, from, goal, got, resuming, restarts, history>>

\* ... or the next bytes are asked for: all with the highest priority, else
\* max_chunk_size of them, and one more, since the end of a range is included.
\* The server may send the whole file whatever the range.
AskForBytes(o) ==
  LET u == UrlOf[o]
      d == downloaded[o]
  IN
  /\ step[o] = "check" /\ active_seqs[o] # {}
  /\ tmp' = IF d > 0 /\ tmp[u] # NoFile THEN tmp ELSE [tmp EXCEPT ![u] = <<>>]
  /\ \/ \E last \in {d + MaxChunk + 1, Total} :
          /\ from' = [from EXCEPT ![o] = d]
          /\ goal' = [goal EXCEPT ![o] = IF last < Total THEN last ELSE Total]
          /\ spoilt' = IF SizeOf(tmp'[u]) # d THEN spoilt \cup {u} ELSE spoilt
          /\ UNCHANGED failures
     \/ /\ d > 0 /\ Fail
        /\ from' = [from EXCEPT ![o] = 0] /\ goal' = [goal EXCEPT ![o] = Total]
        /\ spoilt' = spoilt \cup {u}
  /\ got' = [got EXCEPT ![o] = 0]
  /\ Executes(o, "flight", "curl")
  /\ UNCHANGED <<file, meta, local, asking, save_queue, cancelled_tasks, in_progress, handlers,
                 active_seqs, downloaded, verdict, resuming, restarts, cancelled, late,
                 taken, wiped>>

\* write_memory_callback: what comes is written at once, whatever it is
Write(u, byte) ==
  tmp' = IF tmp[u] = NoFile THEN tmp ELSE [tmp EXCEPT ![u] = Append(@, byte)]
ReceiveByte(o) ==
  /\ step[o] = "flight" /\ from[o] + got[o] < goal[o]
  /\ Write(UrlOf[o], from[o] + got[o] + 1) /\ got' = [got EXCEPT ![o] = @ + 1]
  /\ UNCHANGED <<file, meta, local, asking, save_queue, cancelled_tasks, in_progress, handlers,
                 active_seqs, downloaded, from, goal, verdict, running, resuming, failures, restarts,
                 history>>

\* Mutant of AllCame: the last byte is counted twice.
NearlyAllCame(d) == d + 1 >= Total
AllCame(d) == d = Total
\* Mutant of TooManyCame: a file that is too long is not noticed.
NeverTooMany(d) == d < 0
TooManyCame(d) == d > Total

\* the completion on a curl thread, with all that was asked for
ChunkComes(o) ==
  LET d == downloaded[o] + got[o] IN
  /\ step[o] = "flight" /\ from[o] + got[o] = goal[o]
  /\ downloaded' = [downloaded EXCEPT ![o] = d] /\ got' = [got EXCEPT ![o] = 0]
  /\ \/ AllCame(d) /\ Push("finish", o) /\ Executes(o, "finish", "curl") /\ UNCHANGED verdict
     \/ TooManyCame(d) /\ GiveUp(o, "error", "curl") /\ UNCHANGED save_queue
     \/ ~AllCame(d) /\ ~TooManyCame(d) /\ Executes(o, "check", "curl") /\ UNCHANGED <<save_queue, verdict>>
  /\ UNCHANGED <<disk, asking, cancelled_tasks, in_progress, handlers, active_seqs, from, goal,
                 resuming, failures, restarts, history>>

\* suspended_tasks_.push, which has no mutex: beside the pop of the core thread
\* the task may be lost
Suspend(o) ==
  \/ Executes(o, "suspended", "curl")
  \/ resuming /\ Executes(o, "lost", "curl")

\* the completion with a failure that is neither an answer 4xx nor a success
ChunkFails(o) ==
  LET u == UrlOf[o] IN
  \/ /\ active_seqs[o] = {}
     /\ DropTmp(u) /\ GiveUp(o, "cancelled", "curl") /\ UNCHANGED spoilt
  \/ /\ active_seqs[o] # {}
     /\ Suspend(o) /\ UNCHANGED <<verdict, taken>>
     /\ \E garbage \in {<<>>, <<0>>} : \* the text of an error of the server
          /\ garbage # <<>> => got[o] = 0 /\ step[o] = "flight"
          /\ tmp' = IF tmp[u] = NoFile THEN tmp ELSE [tmp EXCEPT ![u] = @ \o garbage]
          /\ spoilt' = IF garbage # <<>> THEN spoilt \cup {u} ELSE spoilt

Break(o) ==
  /\ step[o] = "flight" /\ Fail /\ ChunkFails(o)
  /\ UNCHANGED <<file, meta, local, asking, save_queue, cancelled_tasks, in_progress, handlers,
                 active_seqs, downloaded, from, goal, got, resuming, restarts, cancelled, late,
                 wiped>>

Refuse(o) ==
  /\ step[o] = "flight" /\ Fail
  /\ DropTmp(UrlOf[o]) /\ GiveUp(o, "error", "curl")
  /\ UNCHANGED <<file, meta, local, asking, save_queue, cancelled_tasks, in_progress, handlers,
                 active_seqs, downloaded, from, goal, got, resuming, restarts, cancelled, late,
                 spoilt, wiped>>

\* the stop function, asked by curl before and during a request ...
Stop(o) ==
  /\ step[o] = "flight" /\ active_seqs[o] = {} /\ Executes(o, "stopped", "curl")
  /\ UNCHANGED <<disk, asking, save_queue, cancelled_tasks, in_progress, chunks, resuming,
                 failures, restarts, history>>

\* ... and the completion of the request it ended, by which time another request
\* may have joined
Stopped(o) ==
  /\ step[o] = "stopped" /\ ChunkFails(o)
  /\ UNCHANGED <<file, meta, local, asking, save_queue, cancelled_tasks, in_progress, handlers,
                 active_seqs, downloaded, from, goal, got, resuming, failures, restarts,
                 cancelled, late, wiped>>

\* the last job of a download
Finish(o) ==
  LET u == UrlOf[o] IN
  /\ Job("finish", o) /\ step[o] = "finish"
  /\ \/ tmp[u] # NoFile /\ Move(u) /\ GiveUp(o, "success", "save")
     \/ tmp[u] = NoFile /\ GiveUp(o, "error", "save") /\ UNCHANGED <<file, tmp, local, holds, taken>>
  /\ UNCHANGED <<meta, at, named, size, cancelled_tasks, in_progress, handlers, active_seqs,
                 downloaded, from, goal, got, resuming, failures, restarts, cancelled, late,
                 spoilt, wiped>>

\* fire_chunks_callback, after which the chunks object is gone
FireChunksCallback(o) ==
  LET e == in_progress[UrlOf[o]]
      Forget(f) == f' = [f EXCEPT ![o] = 0]
  IN
  /\ step[o] = "fire" /\ Executes(o, "none", "curl")
  /\ in_progress' = [in_progress EXCEPT ![UrlOf[o]] = NoRequest]
  /\ IF e = NoRequest
       THEN UNCHANGED <<at, handlers, active_seqs>>
       ELSE /\ at' = [r \in Request |-> IF r \in handlers[e] THEN verdict[o] ELSE at[r]]
            /\ handlers' = [handlers EXCEPT ![e] = {}]
            /\ active_seqs' = [active_seqs EXCEPT ![e] = {}]
  /\ Forget(downloaded) /\ Forget(from) /\ Forget(goal) /\ Forget(got)
  /\ verdict' = [verdict EXCEPT ![o] = "error"]
  /\ UNCHANGED <<disk, named, holds, size, save_queue, cancelled_tasks, resuming, failures,
                 restarts, history>>

-----------------------------------------------------------------------------
(* The other calls of the core thread *)

\* resume_suspended_tasks, after every answered fetch of events
BeginResume ==
  /\ CoreIsFree /\ (\E r \in Request : at[r] = "suspended" \/ step[r] = "suspended")
  /\ resuming' = TRUE
  /\ UNCHANGED <<disk, asking, save_queue, cancelled_tasks, in_progress, chunks, running,
                 failures, restarts, history>>

ResumeMeta(r) ==
  /\ resuming /\ ~Busy("core") /\ at[r] = "suspended" /\ RequestMeta(r)

ResumeChunks(o) ==
  /\ resuming /\ ~Busy("core") /\ step[o] = "suspended" /\ Executes(o, "check", "core")
  /\ UNCHANGED <<disk, asking, save_queue, cancelled_tasks, in_progress, chunks, resuming,
                 failures, restarts, history>>

EndResume ==
  /\ resuming /\ ~Busy("core")
  /\ \A r \in Request : at[r] # "suspended" /\ step[r] # "suspended"
  /\ resuming' = FALSE
  /\ UNCHANGED <<disk, asking, save_queue, cancelled_tasks, in_progress, chunks, running,
                 failures, restarts, history>>

\* Mutant of EraseSeq: the file is cancelled for all who wait for it.
EraseAll(o, r) == active_seqs' = [active_seqs EXCEPT ![o] = {q \in {r} : FALSE}]
EraseSeq(o, r) == active_seqs' = [active_seqs EXCEPT ![o] = @ \ {r}]

\* cancel_file_sharing.  While other files are downloaded, a request that has no
\* entry in in_progress_ yet is not cancelled.
CancelFileSharing(r) ==
  LET o == in_progress[UrlOf[r]] IN
  /\ CoreIsFree /\ at[r] \notin {"new", "dead"} \cup Told
  /\ cancelled' = cancelled \cup {r}
  /\ IF \A u \in Url : in_progress[u] = NoRequest
       THEN cancelled_tasks' = cancelled_tasks \cup {r} /\ UNCHANGED active_seqs
       ELSE /\ IF o = NoRequest THEN UNCHANGED active_seqs ELSE EraseSeq(o, r)
            /\ UNCHANGED cancelled_tasks
  /\ UNCHANGED <<disk, asking, save_queue, in_progress, handlers, downloaded, from, goal, got,
                 verdict, running, resuming, failures, restarts, late, spoilt, taken, wiped>>

\* save_filesharing_local_path, by im after a success
SaveLocalPath(r) ==
  LET u == UrlOf[r] IN
  /\ at[r] = "success" /\ Go(r, "saved")
  /\ local' = IF u \in meta /\ file[u] # NoFile THEN local \cup {u} ELSE local
  /\ UNCHANGED <<file, tmp, meta, named, holds, size, save_queue, cancelled_tasks, in_progress,
                 chunks, running, resuming, failures, restarts, history>>

\* The process ends and starts again: the disk stays, but for bytes of the last
\* requests that were not flushed.
Restart ==
  /\ failures + restarts < MaxFaults /\ restarts' = restarts + 1
  /\ \E n \in [Url -> 0..Total] :
       /\ \A u \in Url : n[u] \in Unflushed(u)
       /\ tmp' = [u \in Url |-> IF tmp[u] = NoFile THEN NoFile
                                ELSE SubSeq(tmp[u], 1, Len(tmp[u]) - n[u])]
  /\ at' = [r \in Request |-> IF at[r] \in {"new"} \cup Told THEN at[r] ELSE "dead"]
  /\ named' = {} /\ holds' = {} /\ size' = [r \in Request |-> 0]
  /\ save_queue' = <<>> /\ cancelled_tasks' = {} /\ resuming' = FALSE
  /\ in_progress' = [u \in Url |-> NoRequest]
  /\ handlers' = [o \in Request |-> {}] /\ active_seqs' = handlers'
  /\ downloaded' = [o \in Request |-> 0] /\ from' = downloaded' /\ goal' = downloaded'
  /\ got' = downloaded' /\ verdict' = [o \in Request |-> "error"]
  /\ step' = [o \in Request |-> "none"] /\ by' = [o \in Request |-> "curl"]
  /\ UNCHANGED <<file, meta, local, failures, history>>

CurlStep(r) ==
  \/ MetaAnswer(r) \/ ReceiveByte(r) \/ ChunkComes(r) \/ Stop(r) \/ Stopped(r)
  \/ Break(r) \/ Refuse(r)
\* download_file_sharing_impl and fire_chunks_callback, on any thread
ImplStep(r) ==
  CheckFindsNobody(r) \/ OpenFails(r) \/ AskForBytes(r) \/ FireChunksCallback(r)
SaveStep(r) ==
  \/ ClearMeta(r) \/ MetaAnswered(r) \/ Copy(r) \/ StartWithAll(r) \/ Start(r) \/ Finish(r)
CoreStep(r) == Cleared(r) \/ MetaReady(r) \/ PushStart(r) \/ ResumeMeta(r) \/ ResumeChunks(r)
Next ==
  \/ \E r \in Request :
       \/ Download(r) \/ CancelFileSharing(r) \/ SaveLocalPath(r)
       \/ CurlStep(r) \/ ImplStep(r) \/ SaveStep(r) \/ CoreStep(r)
  \/ BeginResume \/ EndResume \/ Restart

Spec == Init /\ [][Next]_vars
\* The threads go on, curl ends every request, im asks again after come_back_later
\* and fetches events for ever, so that resume_suspended_tasks is called again.
Fairness ==
  /\ \A r \in Request :
       /\ WF_vars(CurlStep(r)) /\ WF_vars(ImplStep(r)) /\ WF_vars(SaveStep(r))
       /\ WF_vars(CoreStep(r)) /\ WF_vars(at[r] = "later" /\ Download(r))
  /\ WF_vars(BeginResume) /\ WF_vars(EndResume)
FairSpec == Spec /\ Fairness
-----------------------------------------------------------------------------
Content == Seq(0..Total) \cup {NoFile}
Jobs == {"clear", "answer", "copy", "start", "finish"} \X Request
Places == {"new", "later", "clear", "cleared", "request", "metaCame", "metaRefused", "metaLater",
           "metaFailed", "meta", "sized", "suspended", "copy", "start", "waiting", "dead"} \cup Told
Steps == {"none", "check", "flight", "stopped", "suspended", "lost", "finish", "fire"}

\* Every variable has its type; answers stay inside the file and no more bytes are
\* counted than it has, but for one answer that ignored the range.
TypeOK ==
  /\ file \in [Url -> Content] /\ tmp \in [Url -> Content]
  /\ meta \subseteq Url /\ local \subseteq meta
  /\ at \in [Request -> Places] /\ named \subseteq Request /\ holds \subseteq Request
  /\ size \in [Request -> Nat] /\ save_queue \in Seq(Jobs)
  /\ cancelled_tasks \subseteq Request
  /\ in_progress \in [Url -> Request \cup {NoRequest}]
  /\ handlers \in [Request -> SUBSET Request] /\ active_seqs \in [Request -> SUBSET Request]
  /\ downloaded \in [Request -> 0..(2 * Total)]
  /\ from \in [Request -> 0..Total] /\ goal \in [Request -> 0..Total]
  /\ got \in [Request -> 0..Total] /\ verdict \in [Request -> Told \ {"saved"}]
  /\ step \in [Request -> Steps] /\ by \in [Request -> {"core", "save", "curl"}]
  /\ resuming \in BOOLEAN /\ failures \in 0..MaxFaults /\ restarts \in 0..MaxFaults
  /\ cancelled \subseteq Request /\ late \subseteq Request
  /\ spoilt \subseteq Url /\ taken \subseteq Url /\ wiped \subseteq Url

\* A url has one download at a time, the one in in_progress_, and whoever calls
\* fire_chunks_callback finds it there (the assertion of line 1129); it goes on
\* somewhere, and it has the handlers of those who wait.
OneDownload ==
  /\ \A o \in Request : step[o] # "none" <=> in_progress[UrlOf[o]] = o
  /\ \A r \in Request : at[r] = "waiting" <=> \E o \in Request : r \in handlers[o]
  /\ \A o \in Request : handlers[o] # {} => step[o] # "none"

\* The file that takes its name on the disk is the file of the server, byte for
\* byte, whatever was interrupted, resumed, joined and restarted, unless bytes got
\* into its .tmp at another place than theirs.
FileIsWhole == \A u \in Url : file[u] \in {NoFile, Whole} \/ u \in spoilt

Answers(r, answer) == at[r] # answer /\ at'[r] = answer
\* What is told is due.  "Cancelled" is told only to who cancelled, or joined a
\* download that was over; a success only with the file in its place, unless
\* another request deleted it; an error only when something failed, the user
\* cancelled, or another request took the .tmp away.
VerdictIsDue ==
  [][\A r \in Request :
       /\ Answers(r, "cancelled") => r \in cancelled \cup late
       /\ Answers(r, "success") => file'[UrlOf[r]] # NoFile \/ UrlOf[r] \in wiped
       /\ Answers(r, "error") => failures > 0 \/ r \in cancelled \/ UrlOf[r] \in taken]_vars

\* Every request is answered in the end, whoever cancels or joins and whatever is
\* suspended, unless the task of its download was lost from suspended_tasks_ or the
\* process ended.
EveryDownloadIsAnswered ==
  \A r \in Request :
    at[r] # "new" ~> \/ at[r] \in Told \cup {"dead"}
                     \/ \E o \in OfUrl(UrlOf[r]) : step[o] = "lost"
=============================================================================
