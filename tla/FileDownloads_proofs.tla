------------------------ MODULE FileDownloads_proofs -------------------------
(***************************************************************************)
(* Proofs about FileDownloads, for any number of urls, requests, bytes and *)
(* faults.  One inductive invariant after the other, each on top of those  *)
(* before it: the types and the counts of bytes (TypeInv); what            *)
(* in_progress_, the handlers and the places of the requests say of each   *)
(* other (OneInv); what the .tmp of an answer that comes has got (WholeInv);*)
(* and what every way to a verdict has seen (CancelDue, SuccessDue,        *)
(* ErrorDue).                                                              *)
(***************************************************************************)
EXTENDS FileDownloads, SequenceTheorems, TLAPS

(* Types *)
Unfinished == {"check", "flight", "stopped", "suspended", "lost"}
\* Less than the file is counted while it is not complete, and an answer stays in
\* its range.
CountingOK ==
  \A o \in Request :
    /\ step[o] \in Unfinished => downloaded[o] < Total
    /\ step[o] = "flight" => from[o] + got[o] <= goal[o]

\* TypeOK in parts, each with the variables that the actions change together.
DiskType ==
  /\ file \in [Url -> Content] /\ tmp \in [Url -> Content]
  /\ meta \subseteq Url /\ local \subseteq meta
AskType ==
  /\ at \in [Request -> Places] /\ named \subseteq Request /\ holds \subseteq Request
  /\ size \in [Request -> Nat]
QueueType ==
  /\ save_queue \in Seq(Jobs) /\ cancelled_tasks \subseteq Request
  /\ in_progress \in [Url -> Request \cup {NoRequest}]
ChunkType ==
  /\ handlers \in [Request -> SUBSET Request] /\ active_seqs \in [Request -> SUBSET Request]
  /\ downloaded \in [Request -> 0..(2 * Total)]
  /\ from \in [Request -> 0..Total] /\ goal \in [Request -> 0..Total]
  /\ got \in [Request -> 0..Total] /\ verdict \in [Request -> Told \ {"saved"}]
RunType ==
  /\ step \in [Request -> Steps] /\ by \in [Request -> {"core", "save", "curl"}]
  /\ resuming \in BOOLEAN
CountType ==
  /\ failures \in 0..MaxFaults /\ restarts \in 0..MaxFaults
  /\ cancelled \subseteq Request /\ late \subseteq Request
  /\ spoilt \subseteq Url /\ taken \subseteq Url /\ wiped \subseteq Url
TypeInv == DiskType /\ AskType /\ QueueType /\ ChunkType /\ RunType /\ CountType /\ CountingOK

LEMMA Sizes ==
  ASSUME NEW c \in Content
  PROVE  SizeOf(c) \in Nat /\ (c # NoFile => c \in Seq(0..Total) /\ SizeOf(c) = Len(c))
  BY DEF Content, SizeOf

LEMMA PushedJobs ==
  ASSUME NEW q \in Seq(Jobs), NEW r \in Request,
         NEW kind \in {"clear", "answer", "copy", "start", "finish"}
  PROVE  Append(q, <<kind, r>>) \in Seq(Jobs)
  BY DEF Jobs

LEMMA TailJobs ==
  ASSUME NEW q \in Seq(Jobs), q # <<>>
  PROVE  Tail(q) \in Seq(Jobs)
  OBVIOUS

LEMMA SetValues ==
  ASSUME NEW f \in [Request -> SUBSET Request], NEW o \in Request, NEW S \in SUBSET Request
  PROVE  [f EXCEPT ![o] = S] \in [Request -> SUBSET Request]
  OBVIOUS

LEMMA NextType == TypeInv /\ [Next]_vars => TypeInv'
<1> SUFFICES ASSUME TypeInv, [Next]_vars PROVE TypeInv'
  OBVIOUS
<1>0. DiskType /\ AskType /\ QueueType /\ ChunkType /\ RunType /\ CountType /\ CountingOK
  BY DEF TypeInv
<1> USE <1>0, FileDownloadsAssumption
<1>1. ASSUME NEW r \in Request, Download(r) PROVE TypeInv'
  <2>1. DiskType' /\ RunType' /\ CountingOK'
    BY <1>1 DEF Download, UpdateFileChunks, disk, chunks, running, DiskType, RunType, CountingOK
  <2>2. AskType'
    BY <1>1 DEF Download, Go, UpdateFileChunks, AskType, Places, Told
  <2>3. QueueType'
    BY <1>1, PushedJobs DEF Download, Push, QueueType
  <2>4. ChunkType'
    <3>1. ASSUME NEW o \in Request, UpdateFileChunks(o, r) PROVE ChunkType'
      BY <3>1, SetValues DEF UpdateFileChunks, AddHandler, ChunkType
    <3> QED
      BY <1>1, <3>1 DEF Download, chunks, ChunkType, QueueType
  <2>5. CountType'
    BY <1>1 DEF Download, UpdateFileChunks, history, CountType
  <2> QED
    BY <2>1, <2>2, <2>3, <2>4, <2>5 DEF TypeInv
<1>2. ASSUME NEW r \in Request, ClearMeta(r) PROVE TypeInv'
  <2>1. ChunkType' /\ RunType' /\ CountType' /\ CountingOK'
    BY <1>2 DEF ClearMeta, chunks, running, history, ChunkType, RunType, CountType, CountingOK
  <2>2. DiskType'
    BY <1>2 DEF ClearMeta, DiskType, Content
  <2>3. AskType'
    BY <1>2 DEF ClearMeta, Go, AskType, Places, Told
  <2>4. QueueType'
    BY <1>2, TailJobs DEF ClearMeta, Job, QueueType
  <2> QED
    BY <2>1, <2>2, <2>3, <2>4 DEF TypeInv
<1>3. ASSUME NEW r \in Request, RequestMeta(r) PROVE TypeInv'
  <2>1. DiskType' /\ QueueType' /\ ChunkType' /\ RunType' /\ CountType' /\ CountingOK'
    BY <1>3 DEF RequestMeta, disk, chunks, running, history, DiskType, QueueType, ChunkType,
      RunType, CountType, CountingOK
  <2>2. AskType'
    BY <1>3 DEF RequestMeta, Go, AskType, Places, Told
  <2> QED
    BY <2>1, <2>2 DEF TypeInv
<1>4. ASSUME NEW r \in Request, MetaAnswer(r) PROVE TypeInv'
  <2>1. DiskType' /\ ChunkType' /\ RunType' /\ CountingOK'
    BY <1>4 DEF MetaAnswer, disk, chunks, running, DiskType, ChunkType, RunType, CountingOK
  <2>2. AskType'
    BY <1>4 DEF MetaAnswer, Go, AskType, Places, Told
  <2>3. QueueType'
    BY <1>4, PushedJobs DEF MetaAnswer, Push, QueueType
  <2>4. CountType'
    BY <1>4 DEF MetaAnswer, Fail, history, CountType
  <2> QED
    BY <2>1, <2>2, <2>3, <2>4 DEF TypeInv
<1>5. ASSUME NEW r \in Request, MetaAnswered(r) PROVE TypeInv'
  <2>1. ChunkType' /\ RunType' /\ CountType' /\ CountingOK'
    BY <1>5 DEF MetaAnswered, chunks, running, history, ChunkType, RunType, CountType, CountingOK
  <2>2. DiskType'
    BY <1>5 DEF MetaAnswered, DiskType, Content
  <2>3. AskType'
    BY <1>5 DEF MetaAnswered, Go, AskType, Places, Told
  <2>4. QueueType'
    BY <1>5, TailJobs DEF MetaAnswered, Job, QueueType
  <2> QED
    BY <2>1, <2>2, <2>3, <2>4 DEF TypeInv
<1>6. ASSUME NEW r \in Request, MetaReady(r) PROVE TypeInv'
  <2>1. ChunkType' /\ RunType' /\ CountingOK'
    BY <1>6 DEF MetaReady, chunks, running, ChunkType, RunType, CountingOK
  <2>2. DiskType'
    BY <1>6 DEF MetaReady, Replace, DiskType, Content
  <2>3. AskType'
    <3>1. tmp[UrlOf[r]] \in Content
      BY DEF DiskType
    <3>2. \A n \in Unflushed(UrlOf[r]) : SizeOf(tmp[UrlOf[r]]) - n \in Nat
      BY <3>1, Sizes DEF Unflushed
    <3>3. size' \in [Request -> Nat]
      BY <1>6, <3>2 DEF MetaReady, AskType
    <3> QED
      BY <1>6, <3>3 DEF MetaReady, Replace, Go, AskType, Places, Told
  <2>4. QueueType'
    BY <1>6, PushedJobs DEF MetaReady, Push, QueueType
  <2>5. CountType'
    BY <1>6 DEF MetaReady, CountType
  <2> QED
    BY <2>1, <2>2, <2>3, <2>4, <2>5 DEF TypeInv
<1>7. ASSUME NEW r \in Request, PushStart(r) PROVE TypeInv'
  <2>1. DiskType' /\ ChunkType' /\ RunType' /\ CountType' /\ CountingOK'
    BY <1>7 DEF PushStart, disk, chunks, running, history, DiskType, ChunkType, RunType,
      CountType, CountingOK
  <2>2. AskType'
    BY <1>7 DEF PushStart, Go, AskType, Places, Told
  <2>3. QueueType'
    BY <1>7, PushedJobs DEF PushStart, Push, QueueType
  <2> QED
    BY <2>1, <2>2, <2>3 DEF TypeInv
<1>8. ASSUME NEW r \in Request, Copy(r) PROVE TypeInv'
  <2>1. DiskType' /\ ChunkType' /\ RunType' /\ CountType' /\ CountingOK'
    BY <1>8 DEF Copy, disk, chunks, running, history, DiskType, ChunkType, RunType, CountType,
      CountingOK
  <2>2. AskType'
    BY <1>8 DEF Copy, Go, AskType, Places, Told
  <2>3. QueueType'
    BY <1>8, TailJobs DEF Copy, Job, QueueType
  <2> QED
    BY <2>1, <2>2, <2>3 DEF TypeInv
<1>9. ASSUME NEW r \in Request, StartWithAll(r) PROVE TypeInv'
  <2>1. ChunkType' /\ RunType' /\ CountingOK'
    BY <1>9 DEF StartWithAll, chunks, running, ChunkType, RunType, CountingOK
  <2>2. DiskType'
    BY <1>9 DEF StartWithAll, DropTmp, Move, Replace, DiskType, Content
  <2>3. AskType'
    BY <1>9 DEF StartWithAll, Go, Move, Replace, AskType, Places, Told
  <2>4. QueueType'
    BY <1>9, TailJobs DEF StartWithAll, Job, QueueType
  <2>5. CountType'
    BY <1>9 DEF StartWithAll, DropTmp, Move, CountType
  <2> QED
    BY <2>1, <2>2, <2>3, <2>4, <2>5 DEF TypeInv
<1>10. ASSUME NEW r \in Request, Start(r) PROVE TypeInv'
  <2>1. DiskType'
    BY <1>10 DEF Start, DropTmp, DiskType, Content
  <2>2. AskType'
    BY <1>10 DEF Start, Go, UpdateFileChunks, AskType, Places, Told
  <2>3. QueueType'
    BY <1>10, TailJobs DEF Start, Job, QueueType
  <2>4. ChunkType'
    <3>1. ASSUME NEW o \in Request, UpdateFileChunks(o, r) PROVE ChunkType'
      BY <3>1, SetValues DEF UpdateFileChunks, AddHandler, ChunkType
    <3>2. CASE BeganMeanwhile(UrlOf[r])
      BY <1>10, <3>1, <3>2 DEF Start, BeganMeanwhile, QueueType
    <3>3. CASE ~BeganMeanwhile(UrlOf[r])
      <4>1. (IF size[r] > Total THEN 0 ELSE size[r]) \in 0..(2 * Total)
        BY DEF AskType
      <4> QED
        <5>1. handlers' \in [Request -> SUBSET Request] /\ active_seqs' \in [Request -> SUBSET Request]
          <6>1. {r} \in SUBSET Request /\ handlers \in [Request -> SUBSET Request]
                /\ active_seqs \in [Request -> SUBSET Request]
            BY DEF ChunkType
          <6>2. handlers' = [handlers EXCEPT ![r] = {r}] /\ active_seqs' = [active_seqs EXCEPT ![r] = {r}]
            BY <1>10, <3>3 DEF Start
          <6> QED
            BY <6>1, <6>2, SetValues
        <5>2. downloaded' \in [Request -> 0..(2 * Total)]
          BY <1>10, <3>3, <4>1 DEF Start, ChunkType
        <5> QED
          BY <1>10, <3>3, <5>1, <5>2 DEF Start, ChunkType
    <3> QED
      BY <3>2, <3>3
  <2>5. RunType'
    BY <1>10 DEF Start, running, RunType, Steps
  <2>6. CountType'
    BY <1>10 DEF Start, DropTmp, UpdateFileChunks, CountType
  <2>7. CountingOK'
    <3>1. CASE BeganMeanwhile(UrlOf[r])
      BY <1>10, <3>1 DEF Start, UpdateFileChunks, running, CountingOK
    <3>2. CASE ~BeganMeanwhile(UrlOf[r])
      <4>1. step'[r] = "check" /\ downloaded'[r] < Total
        BY <1>10, <3>2 DEF Start, RunType, ChunkType, AskType
      <4>2. \A q \in Request \ {r} : step'[q] = step[q] /\ downloaded'[q] = downloaded[q]
        BY <1>10, <3>2 DEF Start, RunType, ChunkType
      <4>3. UNCHANGED <<from, goal, got>>
        BY <1>10, <3>2 DEF Start
      <4> QED
        BY <4>1, <4>2, <4>3 DEF CountingOK
    <3> QED
      BY <3>1, <3>2
  <2> QED
    BY <2>1, <2>2, <2>3, <2>4, <2>5, <2>6, <2>7 DEF TypeInv
<1>11. ASSUME NEW o \in Request, CheckFindsNobody(o) PROVE TypeInv'
  <2>1. AskType' /\ QueueType'
    BY <1>11 DEF CheckFindsNobody, asking, AskType, QueueType
  <2>2. DiskType'
    BY <1>11 DEF CheckFindsNobody, DropTmp, DiskType, Content
  <2>3. ChunkType'
    BY <1>11 DEF CheckFindsNobody, GiveUp, ChunkType, Told
  <2>4. RunType'
    BY <1>11 DEF CheckFindsNobody, Executes, GiveUp, RunType, Steps
  <2>5. CountType'
    BY <1>11 DEF CheckFindsNobody, DropTmp, CountType
  <2>6. CountingOK'
    BY <1>11 DEF CheckFindsNobody, Executes, GiveUp, CountingOK, Unfinished
  <2> QED
    BY <2>1, <2>2, <2>3, <2>4, <2>5, <2>6 DEF TypeInv
<1>12. ASSUME NEW o \in Request, OpenFails(o) PROVE TypeInv'
  <2>1. DiskType' /\ AskType' /\ QueueType'
    BY <1>12 DEF OpenFails, disk, asking, DiskType, AskType, QueueType
  <2>2. ChunkType'
    BY <1>12 DEF OpenFails, GiveUp, ChunkType, Told
  <2>3. RunType'
    BY <1>12 DEF OpenFails, Executes, GiveUp, RunType, Steps
  <2>4. CountType'
    BY <1>12 DEF OpenFails, Fail, history, CountType
  <2>5. CountingOK'
    BY <1>12 DEF OpenFails, Executes, GiveUp, CountingOK, Unfinished
  <2> QED
    BY <2>1, <2>2, <2>3, <2>4, <2>5 DEF TypeInv
<1>13. ASSUME NEW o \in Request, AskForBytes(o) PROVE TypeInv'
  <2>1. AskType' /\ QueueType'
    BY <1>13 DEF AskForBytes, asking, AskType, QueueType
  <2>2. DiskType'
    BY <1>13 DEF AskForBytes, DiskType, Content
  <2>3. ChunkType'
    <3>1. downloaded[o] \in 0..Total
      BY <1>13 DEF AskForBytes, CountingOK, Unfinished, ChunkType
    <3>2. from' \in [Request -> 0..Total] /\ goal' \in [Request -> 0..Total]
      <4>1. \A last \in {downloaded[o] + MaxChunk + 1, Total} :
              (IF last < Total THEN last ELSE Total) \in 0..Total
        BY <3>1
      <4>2. /\ \E d \in 0..Total : from' = [from EXCEPT ![o] = d]
            /\ \E d \in 0..Total : goal' = [goal EXCEPT ![o] = d]
        BY <1>13, <3>1, <4>1 DEF AskForBytes
      <4> QED
        BY <4>2 DEF ChunkType
    <3> QED
      BY <1>13, <3>2 DEF AskForBytes, ChunkType
  <2>4. RunType'
    BY <1>13 DEF AskForBytes, Executes, RunType, Steps
  <2>5. CountType'
    BY <1>13 DEF AskForBytes, Fail, CountType
  <2>6. CountingOK'
    <3>1. step'[o] = "flight" /\ downloaded'[o] < Total
      BY <1>13 DEF AskForBytes, Executes, CountingOK, Unfinished, RunType
    <3>2. downloaded[o] \in 0..Total
      BY <1>13 DEF AskForBytes, CountingOK, Unfinished, ChunkType
    <3>3. from'[o] + got'[o] <= goal'[o]
      BY <1>13, <3>2 DEF AskForBytes, ChunkType
    <3>4. \A q \in Request \ {o} :
            /\ step'[q] = step[q] /\ downloaded'[q] = downloaded[q]
            /\ from'[q] = from[q] /\ goal'[q] = goal[q] /\ got'[q] = got[q]
      BY <1>13 DEF AskForBytes, Executes, RunType, ChunkType
    <3> QED
      BY <3>1, <3>3, <3>4 DEF CountingOK
  <2> QED
    BY <2>1, <2>2, <2>3, <2>4, <2>5, <2>6 DEF TypeInv
<1>14. ASSUME NEW o \in Request, ReceiveByte(o) PROVE TypeInv'
  <2>1. AskType' /\ QueueType' /\ RunType' /\ CountType'
    BY <1>14 DEF ReceiveByte, asking, running, history, AskType, QueueType, RunType, CountType
  <2>2. DiskType'
    <3>1. from[o] + got[o] + 1 \in 0..Total
      BY <1>14 DEF ReceiveByte, ChunkType
    <3>2. tmp[UrlOf[o]] # NoFile => Append(tmp[UrlOf[o]], from[o] + got[o] + 1) \in Seq(0..Total)
      BY <3>1 DEF DiskType, Content
    <3>3. tmp' \in [Url -> Content]
      BY <1>14, <3>2 DEF ReceiveByte, Write, DiskType, Content
    <3> QED
      BY <1>14, <3>3 DEF ReceiveByte, DiskType
  <2>3. ChunkType'
    BY <1>14 DEF ReceiveByte, ChunkType
  <2>4. CountingOK'
    <3>1. from[o] + (got[o] + 1) <= goal[o]
      BY <1>14 DEF ReceiveByte, ChunkType
    <3> QED
      BY <1>14, <3>1 DEF ReceiveByte, running, CountingOK, ChunkType
  <2> QED
    BY <2>1, <2>2, <2>3, <2>4 DEF TypeInv
<1>15. ASSUME NEW o \in Request, ChunkComes(o) PROVE TypeInv'
  <2>1. DiskType' /\ AskType' /\ CountType'
    BY <1>15 DEF ChunkComes, disk, asking, history, DiskType, AskType, CountType
  <2>2. QueueType'
    BY <1>15, PushedJobs DEF ChunkComes, Push, QueueType
  <2>3. ChunkType'
    <3>1. downloaded[o] + got[o] \in 0..(2 * Total)
      BY <1>15 DEF ChunkComes, CountingOK, Unfinished, ChunkType
    <3> QED
      BY <1>15, <3>1 DEF ChunkComes, GiveUp, ChunkType, Told
  <2>4. RunType'
    BY <1>15 DEF ChunkComes, Executes, GiveUp, RunType, Steps
  <2>5. CountingOK'
    <3>1. downloaded[o] + got[o] \in Nat
      BY DEF ChunkType
    <3>2. step'[o] # "flight" /\ (step'[o] \in Unfinished => downloaded'[o] < Total)
      BY <1>15, <3>1 DEF ChunkComes, AllCame, TooManyCame, Executes, GiveUp, RunType, ChunkType,
        Unfinished
    <3>3. \A q \in Request \ {o} :
            /\ step'[q] = step[q] /\ downloaded'[q] = downloaded[q]
            /\ from'[q] = from[q] /\ goal'[q] = goal[q] /\ got'[q] = got[q]
      BY <1>15 DEF ChunkComes, Executes, GiveUp, RunType, ChunkType
    <3> QED
      BY <3>2, <3>3 DEF CountingOK
  <2> QED
    BY <2>1, <2>2, <2>3, <2>4, <2>5 DEF TypeInv
<1>16. ASSUME NEW o \in Request, Break(o) PROVE TypeInv'
  <2>1. AskType' /\ QueueType'
    BY <1>16 DEF Break, asking, AskType, QueueType
  <2>2. DiskType'
    <3>1. \A c \in Content \ {NoFile} : c \o <<>> \in Content /\ c \o <<0>> \in Content
      BY DEF Content
    <3>2. tmp' \in [Url -> Content]
      <4>1. \/ tmp' = tmp
            \/ \E c \in Content : tmp' = [tmp EXCEPT ![UrlOf[o]] = c]
        <5>1. UrlOf[o] \in Url /\ tmp[UrlOf[o]] \in Content /\ NoFile \in Content
          BY DEF DiskType, Content
        <5> QED
          BY <1>16, <3>1, <5>1 DEF Break, ChunkFails, DropTmp
      <4> QED
        BY <4>1 DEF DiskType
    <3> QED
      BY <1>16, <3>2 DEF Break, DiskType
  <2>3. ChunkType'
    BY <1>16 DEF Break, ChunkFails, GiveUp, ChunkType, Told
  <2>4. RunType'
    BY <1>16 DEF Break, ChunkFails, Executes, GiveUp, Suspend, RunType, Steps
  <2>5. CountType'
    BY <1>16 DEF Break, ChunkFails, DropTmp, Fail, CountType
  <2>6. CountingOK'
    <3>1. step'[o] \in {"fire", "suspended", "lost"} /\ downloaded'[o] = downloaded[o]
      BY <1>16 DEF Break, ChunkFails, Suspend, Executes, GiveUp, RunType
    <3>2. \A q \in Request \ {o} : step'[q] = step[q]
      BY <1>16 DEF Break, ChunkFails, Suspend, Executes, GiveUp, RunType
    <3>3. UNCHANGED <<downloaded, from, goal, got>>
      BY <1>16 DEF Break
    <3> QED
      BY <1>16, <3>1, <3>2, <3>3 DEF Break, CountingOK, Unfinished
  <2> QED
    BY <2>1, <2>2, <2>3, <2>4, <2>5, <2>6 DEF TypeInv
<1>17. ASSUME NEW o \in Request, Refuse(o) PROVE TypeInv'
  <2>1. AskType' /\ QueueType'
    BY <1>17 DEF Refuse, asking, AskType, QueueType
  <2>2. DiskType'
    BY <1>17 DEF Refuse, DropTmp, DiskType, Content
  <2>3. ChunkType'
    BY <1>17 DEF Refuse, GiveUp, ChunkType, Told
  <2>4. RunType'
    BY <1>17 DEF Refuse, Executes, GiveUp, RunType, Steps
  <2>5. CountType'
    BY <1>17 DEF Refuse, DropTmp, Fail, CountType
  <2>6. CountingOK'
    BY <1>17 DEF Refuse, Executes, GiveUp, CountingOK, Unfinished
  <2> QED
    BY <2>1, <2>2, <2>3, <2>4, <2>5, <2>6 DEF TypeInv
<1>18. ASSUME NEW o \in Request, Stop(o) PROVE TypeInv'
  <2>1. DiskType' /\ AskType' /\ QueueType' /\ ChunkType' /\ CountType'
    BY <1>18 DEF Stop, disk, asking, chunks, history, DiskType, AskType, QueueType, ChunkType,
      CountType
  <2>2. RunType'
    BY <1>18 DEF Stop, Executes, RunType, Steps
  <2>3. CountingOK'
    BY <1>18 DEF Stop, Executes, chunks, CountingOK, Unfinished
  <2> QED
    BY <2>1, <2>2, <2>3 DEF TypeInv
<1>19. ASSUME NEW o \in Request, Stopped(o) PROVE TypeInv'
  <2>1. AskType' /\ QueueType'
    BY <1>19 DEF Stopped, asking, AskType, QueueType
  <2>2. DiskType'
    <3>1. \A c \in Content \ {NoFile} : c \o <<>> \in Content /\ c \o <<0>> \in Content
      BY DEF Content
    <3>2. tmp' \in [Url -> Content]
      <4>1. \/ tmp' = tmp
            \/ \E c \in Content : tmp' = [tmp EXCEPT ![UrlOf[o]] = c]
        <5>1. UrlOf[o] \in Url /\ tmp[UrlOf[o]] \in Content /\ NoFile \in Content
          BY DEF DiskType, Content
        <5> QED
          BY <1>19, <3>1, <5>1 DEF Stopped, ChunkFails, DropTmp
      <4> QED
        BY <4>1 DEF DiskType
    <3> QED
      BY <1>19, <3>2 DEF Stopped, DiskType
  <2>3. ChunkType'
    BY <1>19 DEF Stopped, ChunkFails, GiveUp, ChunkType, Told
  <2>4. RunType'
    BY <1>19 DEF Stopped, ChunkFails, Executes, GiveUp, Suspend, RunType, Steps
  <2>5. CountType'
    BY <1>19 DEF Stopped, ChunkFails, DropTmp, CountType
  <2>6. CountingOK'
    <3>1. step'[o] \in {"fire", "suspended", "lost"} /\ downloaded'[o] = downloaded[o]
      BY <1>19 DEF Stopped, ChunkFails, Suspend, Executes, GiveUp, RunType
    <3>2. \A q \in Request \ {o} : step'[q] = step[q]
      BY <1>19 DEF Stopped, ChunkFails, Suspend, Executes, GiveUp, RunType
    <3>3. UNCHANGED <<downloaded, from, goal, got>>
      BY <1>19 DEF Stopped
    <3> QED
      BY <1>19, <3>1, <3>2, <3>3 DEF Stopped, CountingOK, Unfinished
  <2> QED
    BY <2>1, <2>2, <2>3, <2>4, <2>5, <2>6 DEF TypeInv
<1>20. ASSUME NEW o \in Request, Finish(o) PROVE TypeInv'
  <2>1. DiskType'
    BY <1>20 DEF Finish, DropTmp, Move, Replace, DiskType, Content
  <2>2. AskType'
    BY <1>20 DEF Finish, Move, Replace, AskType
  <2>3. QueueType'
    BY <1>20, TailJobs DEF Finish, Job, QueueType
  <2>4. ChunkType'
    BY <1>20 DEF Finish, GiveUp, ChunkType, Told
  <2>5. RunType'
    BY <1>20 DEF Finish, Executes, GiveUp, RunType, Steps
  <2>6. CountType'
    BY <1>20 DEF Finish, DropTmp, Move, CountType
  <2>7. CountingOK'
    <3>1. step'[o] = "fire" /\ \A q \in Request \ {o} : step'[q] = step[q]
      BY <1>20 DEF Finish, Executes, GiveUp, RunType
    <3>2. UNCHANGED <<downloaded, from, goal, got>>
      BY <1>20 DEF Finish
    <3> QED
      BY <3>1, <3>2 DEF CountingOK, Unfinished
  <2> QED
    BY <2>1, <2>2, <2>3, <2>4, <2>5, <2>6, <2>7 DEF TypeInv
<1>21. ASSUME NEW o \in Request, FireChunksCallback(o) PROVE TypeInv'
  <2>1. DiskType' /\ CountType'
    BY <1>21 DEF FireChunksCallback, disk, history, DiskType, CountType
  <2>2. AskType'
    <3>1. verdict[o] \in Places
      BY DEF ChunkType, Places, Told
    <3>2. at' \in [Request -> Places]
      BY <1>21, <3>1 DEF FireChunksCallback, AskType
    <3> QED
      BY <1>21, <3>2 DEF FireChunksCallback, AskType
  <2>3. QueueType'
    BY <1>21 DEF FireChunksCallback, QueueType
  <2>4. ChunkType'
    <3>1. handlers' \in [Request -> SUBSET Request] /\ active_seqs' \in [Request -> SUBSET Request]
      BY <1>21, SetValues DEF FireChunksCallback, ChunkType, QueueType
    <3>2. 0 \in 0..Total /\ 0 \in 0..(2 * Total) /\ "error" \in Told \ {"saved"}
      BY DEF Told
    <3>3. /\ downloaded' = [downloaded EXCEPT ![o] = 0] /\ from' = [from EXCEPT ![o] = 0]
          /\ goal' = [goal EXCEPT ![o] = 0] /\ got' = [got EXCEPT ![o] = 0]
          /\ verdict' = [verdict EXCEPT ![o] = "error"]
      BY <1>21 DEF FireChunksCallback
    <3> QED
      BY <3>1, <3>2, <3>3 DEF ChunkType
  <2>5. RunType'
    BY <1>21 DEF FireChunksCallback, Executes, RunType, Steps
  <2>6. CountingOK'
    BY <1>21 DEF FireChunksCallback, Executes, CountingOK, Unfinished
  <2> QED
    BY <2>1, <2>2, <2>3, <2>4, <2>5, <2>6 DEF TypeInv
<1>22. ASSUME NEW o \in Request, ResumeChunks(o) PROVE TypeInv'
  <2>1. DiskType' /\ AskType' /\ QueueType' /\ ChunkType' /\ CountType'
    BY <1>22 DEF ResumeChunks, disk, asking, chunks, history, DiskType, AskType, QueueType,
      ChunkType, CountType
  <2>2. RunType'
    BY <1>22 DEF ResumeChunks, Executes, RunType, Steps
  <2>3. CountingOK'
    BY <1>22 DEF ResumeChunks, Executes, chunks, CountingOK, Unfinished
  <2> QED
    BY <2>1, <2>2, <2>3 DEF TypeInv
<1>23. ASSUME NEW r \in Request, CancelFileSharing(r) PROVE TypeInv'
  <2>1. DiskType' /\ AskType' /\ RunType' /\ CountingOK'
    BY <1>23 DEF CancelFileSharing, disk, asking, running, DiskType, AskType, RunType, CountingOK
  <2>2. QueueType'
    BY <1>23 DEF CancelFileSharing, QueueType
  <2>3. ChunkType'
    <3>1. \/ active_seqs' = active_seqs
          \/ \E o \in Request : active_seqs' = [active_seqs EXCEPT ![o] = @ \ {r}]
      BY <1>23 DEF CancelFileSharing, EraseSeq, QueueType
    <3>2. \A o \in Request : active_seqs[o] \ {r} \in SUBSET Request
      BY DEF ChunkType
    <3>3. active_seqs' \in [Request -> SUBSET Request]
      <4>1. active_seqs \in [Request -> SUBSET Request]
        BY DEF ChunkType
      <4>2. ASSUME NEW o \in Request, active_seqs' = [active_seqs EXCEPT ![o] = @ \ {r}]
            PROVE  active_seqs' \in [Request -> SUBSET Request]
        BY <3>2, <4>1, <4>2, SetValues
      <4> QED
        BY <3>1, <4>1, <4>2
    <3> QED
      BY <1>23, <3>3 DEF CancelFileSharing, ChunkType
  <2>4. CountType'
    BY <1>23 DEF CancelFileSharing, CountType
  <2> QED
    BY <2>1, <2>2, <2>3, <2>4 DEF TypeInv
<1>24. ASSUME NEW r \in Request, SaveLocalPath(r) PROVE TypeInv'
  <2>1. QueueType' /\ ChunkType' /\ RunType' /\ CountType' /\ CountingOK'
    BY <1>24 DEF SaveLocalPath, chunks, running, history, QueueType, ChunkType, RunType,
      CountType, CountingOK
  <2>2. DiskType'
    BY <1>24 DEF SaveLocalPath, DiskType, Content
  <2>3. AskType'
    BY <1>24 DEF SaveLocalPath, Go, AskType, Places, Told
  <2> QED
    BY <2>1, <2>2, <2>3 DEF TypeInv
<1>25. ASSUME BeginResume \/ EndResume \/ UNCHANGED vars PROVE TypeInv'
  BY <1>25 DEF BeginResume, EndResume, vars, disk, asking, chunks, running, history, TypeInv,
    DiskType, AskType, QueueType, ChunkType, RunType, CountType, CountingOK
<1>26. ASSUME Restart PROVE TypeInv'
  <2>1. ASSUME NEW u \in Url, tmp[u] # NoFile, NEW n \in Unflushed(u)
        PROVE  SubSeq(tmp[u], 1, Len(tmp[u]) - n) \in Seq(0..Total)
    <3>1. tmp[u] \in Seq(0..Total) /\ n \in 0..Len(tmp[u])
      BY <2>1, Sizes DEF DiskType, Content, Unflushed
    <3> QED
      BY <3>1
  <2>2. tmp' \in [Url -> Content]
    BY <1>26, <2>1 DEF Restart, Content
  <2>3. DiskType'
    BY <1>26, <2>2 DEF Restart, DiskType
  <2>4. AskType' /\ QueueType' /\ RunType'
    <3>1. at' \in [Request -> Places]
      BY <1>26 DEF Restart, AskType, Places
    <3>2. <<>> \in Seq(Jobs)
      OBVIOUS
    <3>3. QueueType'
      BY <1>26, <3>2 DEF Restart, QueueType
    <3> QED
      BY <1>26, <3>1, <3>3 DEF Restart, AskType, RunType, Steps
  <2>5. ChunkType' /\ CountType' /\ CountingOK'
    BY <1>26 DEF Restart, ChunkType, CountType, CountingOK, Unfinished, history, Told
  <2> QED
    BY <2>3, <2>4, <2>5 DEF TypeInv
<1> QED
  BY <1>1, <1>2, <1>3, <1>4, <1>5, <1>6, <1>7, <1>8, <1>9, <1>10, <1>11, <1>12, <1>13, <1>14,
    <1>15, <1>16, <1>17, <1>18, <1>19, <1>20, <1>21, <1>22, <1>23, <1>24, <1>25, <1>26
  DEF Next, CurlStep, ImplStep, SaveStep, CoreStep, Cleared, ResumeMeta

LEMMA InitType == Init => TypeInv
<1> SUFFICES ASSUME Init PROVE TypeInv
  OBVIOUS
<1> USE FileDownloadsAssumption
<1>1. DiskType /\ AskType
  BY DEF Init, DiskType, AskType, Content, Places
<1>2. QueueType
  <2>1. <<>> \in Seq(Jobs)
    OBVIOUS
  <2> QED
    BY <2>1 DEF Init, QueueType
<1>3. ChunkType /\ RunType
  <2>1. handlers \in [Request -> SUBSET Request] /\ active_seqs \in [Request -> SUBSET Request]
    BY DEF Init
  <2>2. /\ downloaded \in [Request -> 0..(2 * Total)] /\ from \in [Request -> 0..Total]
        /\ goal \in [Request -> 0..Total] /\ got \in [Request -> 0..Total]
    BY DEF Init
  <2>3. verdict \in [Request -> Told \ {"saved"}] /\ RunType
    BY DEF Init, RunType, Steps, Told
  <2> QED
    BY <2>1, <2>2, <2>3 DEF ChunkType
<1>4. CountType /\ CountingOK
  BY DEF Init, CountType, CountingOK, Unfinished
<1> QED
  BY <1>1, <1>2, <1>3, <1>4 DEF TypeInv

LEMMA TypeInvariant == Spec => []TypeInv
<1>1. Init => TypeInv
  BY InitType
<1>2. TypeInv /\ [Next]_vars => TypeInv'
  BY NextType
<1> QED
  BY <1>1, <1>2, PTL DEF Spec

\* Whatever the threads do, every variable keeps its type: no answer reaches
\* behind the end of the file, and no more bytes are counted than those of one
\* answer more than the file has (download_file_sharing_impl).
THEOREM TypeCorrect == Spec => []TypeOK
<1>1. TypeInv => TypeOK
  BY DEF TypeInv, DiskType, AskType, QueueType, ChunkType, RunType, CountType, TypeOK
<1> QED
  BY <1>1, TypeInvariant, PTL
-----------------------------------------------------------------------------
(* One download of a url *)
OneInv ==
  /\ \A o \in Request : step[o] # "none" <=> in_progress[UrlOf[o]] = o
  /\ \A r \in Request : at[r] = "waiting" <=> \E o \in Request : r \in handlers[o]
  /\ \A u \in Url : in_progress[u] # NoRequest => UrlOf[in_progress[u]] = u
  /\ \A r, o \in Request : r \in handlers[o] => in_progress[UrlOf[r]] = o

\* A request goes from one place to another, and neither is among the handlers.
GoesOn(r) ==
  /\ at[r] # "waiting"
  /\ \E place \in Places \ {"waiting"} : at' = [at EXCEPT ![r] = place]
  /\ UNCHANGED <<handlers, in_progress, step>>
\* A download goes on, and does not end.
RunsOn(o) ==
  /\ step[o] # "none"
  /\ \E place \in Steps \ {"none"} : step' = [step EXCEPT ![o] = place]
  /\ UNCHANGED <<at, handlers, in_progress>>

LEMMA GoingOn ==
  ASSUME AskType, OneInv, NEW r \in Request, GoesOn(r)
  PROVE  OneInv'
<1>1. \A q \in Request : at'[q] = "waiting" <=> at[q] = "waiting"
  BY DEF GoesOn, AskType
<1> QED
  BY <1>1 DEF GoesOn, OneInv

LEMMA RunningOn ==
  ASSUME RunType, OneInv, NEW o \in Request, RunsOn(o)
  PROVE  OneInv'
<1>1. \A q \in Request : step'[q] # "none" <=> step[q] # "none"
  BY DEF RunsOn, RunType
<1> QED
  BY <1>1 DEF RunsOn, OneInv

LEMMA Joining ==
  ASSUME FileDownloadsAssumption, TypeInv, OneInv, NEW r \in Request,
         at[r] # "waiting", in_progress[UrlOf[r]] # NoRequest,
         UpdateFileChunks(in_progress[UrlOf[r]], r), UNCHANGED <<in_progress, step>>
  PROVE  OneInv'
<1> DEFINE o == in_progress[UrlOf[r]]
<1>1. o \in Request
  BY DEF FileDownloadsAssumption, TypeInv, QueueType
<1>2. /\ \A q \in Request \ {r} : at'[q] = at[q]
      /\ at'[r] = "waiting"
  BY DEF UpdateFileChunks, Go, TypeInv, AskType
<1>3. /\ handlers'[o] = handlers[o] \cup {r}
      /\ \A p \in Request \ {o} : handlers'[p] = handlers[p]
  BY <1>1 DEF UpdateFileChunks, AddHandler, TypeInv, ChunkType
<1> HIDE DEF o
<1>4. \A q \in Request : at'[q] = "waiting" <=> \E p \in Request : q \in handlers'[p]
  BY <1>1, <1>2, <1>3 DEF OneInv
<1>5. \A q, p \in Request : q \in handlers'[p] => in_progress[UrlOf[q]] = p
  BY <1>3 DEF OneInv, o
<1> QED
  BY <1>4, <1>5 DEF OneInv

\* Two downloads of one url are one.
LEMMA OnlyOne ==
  ASSUME OneInv, NEW o \in Request, NEW p \in Request, UrlOf[o] = UrlOf[p],
         step[o] # "none", step[p] # "none"
  PROVE  o = p
  BY DEF OneInv

LEMMA NextOne == TypeInv /\ OneInv /\ [Next]_vars => OneInv'
<1> SUFFICES ASSUME TypeInv, OneInv, [Next]_vars PROVE OneInv'
  OBVIOUS
<1> USE FileDownloadsAssumption
<1>0. AskType /\ QueueType /\ ChunkType /\ RunType
  BY DEF TypeInv
<1>1. ASSUME NEW r \in Request,
             \/ ClearMeta(r) \/ Cleared(r) \/ ResumeMeta(r) \/ MetaAnswer(r) \/ MetaAnswered(r)
             \/ MetaReady(r) \/ PushStart(r) \/ Copy(r) \/ StartWithAll(r) \/ SaveLocalPath(r)
      PROVE  OneInv'
  <2>1. CASE ClearMeta(r)
    BY <2>1, <1>0, GoingOn DEF ClearMeta, GoesOn, Go, Places, chunks, running
  <2>2. CASE Cleared(r)
    BY <2>2, <1>0, GoingOn DEF Cleared, RequestMeta, GoesOn, Go, Places, chunks, running
  <2>3. CASE ResumeMeta(r)
    BY <2>3, <1>0, GoingOn DEF ResumeMeta, RequestMeta, GoesOn, Go, Places, chunks, running
  <2>4. CASE MetaAnswer(r)
    BY <2>4, <1>0, GoingOn DEF MetaAnswer, GoesOn, Go, Places, chunks, running
  <2>5. CASE MetaAnswered(r)
    BY <2>5, <1>0, GoingOn DEF MetaAnswered, GoesOn, Go, Places, Told, chunks, running
  <2>6. CASE MetaReady(r)
    BY <2>6, <1>0, GoingOn DEF MetaReady, GoesOn, Go, Places, Told, chunks, running
  <2>7. CASE PushStart(r)
    BY <2>7, <1>0, GoingOn DEF PushStart, GoesOn, Go, Places, chunks, running
  <2>8. CASE Copy(r)
    BY <2>8, <1>0, GoingOn DEF Copy, GoesOn, Go, Places, Told, chunks, running
  <2>9. CASE StartWithAll(r)
    BY <2>9, <1>0, GoingOn DEF StartWithAll, GoesOn, Go, Places, Told, chunks, running
  <2>10. CASE SaveLocalPath(r)
    BY <2>10, <1>0, GoingOn DEF SaveLocalPath, GoesOn, Go, Places, Told, chunks, running
  <2> QED
    BY <1>1, <2>1, <2>2, <2>3, <2>4, <2>5, <2>6, <2>7, <2>8, <2>9, <2>10
<1>2. ASSUME NEW o \in Request,
             \/ CheckFindsNobody(o) \/ OpenFails(o) \/ AskForBytes(o) \/ ChunkComes(o)
             \/ Break(o) \/ Refuse(o) \/ Stop(o) \/ Stopped(o) \/ Finish(o) \/ ResumeChunks(o)
      PROVE  OneInv'
  <2>1. CASE CheckFindsNobody(o)
    BY <2>1, <1>0, RunningOn DEF CheckFindsNobody, GiveUp, Executes, RunsOn, Steps, asking
  <2>2. CASE OpenFails(o)
    BY <2>2, <1>0, RunningOn DEF OpenFails, GiveUp, Executes, RunsOn, Steps, asking
  <2>3. CASE AskForBytes(o)
    BY <2>3, <1>0, RunningOn DEF AskForBytes, Executes, RunsOn, Steps, asking
  <2>4. CASE ChunkComes(o)
    BY <2>4, <1>0, RunningOn DEF ChunkComes, GiveUp, Executes, RunsOn, Steps, asking
  <2>5. CASE Break(o)
    BY <2>5, <1>0, RunningOn
    DEF Break, ChunkFails, Suspend, GiveUp, Executes, RunsOn, Steps, asking
  <2>6. CASE Refuse(o)
    BY <2>6, <1>0, RunningOn DEF Refuse, GiveUp, Executes, RunsOn, Steps, asking
  <2>7. CASE Stop(o)
    BY <2>7, <1>0, RunningOn DEF Stop, Executes, RunsOn, Steps, asking, chunks
  <2>8. CASE Stopped(o)
    BY <2>8, <1>0, RunningOn
    DEF Stopped, ChunkFails, Suspend, GiveUp, Executes, RunsOn, Steps, asking
  <2>9. CASE Finish(o)
    BY <2>9, <1>0, RunningOn DEF Finish, GiveUp, Executes, RunsOn, Steps
  <2>10. CASE ResumeChunks(o)
    BY <2>10, <1>0, RunningOn DEF ResumeChunks, Executes, RunsOn, Steps, asking, chunks
  <2> QED
    BY <1>2, <2>1, <2>2, <2>3, <2>4, <2>5, <2>6, <2>7, <2>8, <2>9, <2>10
<1>3. ASSUME NEW r \in Request, Download(r) PROVE OneInv'
  <2>1. CASE in_progress[UrlOf[r]] # NoRequest
    BY <1>3, <2>1, Joining DEF Download, running
  <2>2. CASE in_progress[UrlOf[r]] = NoRequest
    BY <1>3, <2>2, <1>0, GoingOn DEF Download, GoesOn, Go, Places, chunks, running
  <2> QED
    BY <2>1, <2>2
<1>4. ASSUME NEW r \in Request, Start(r) PROVE OneInv'
  <2>1. CASE BeganMeanwhile(UrlOf[r])
    BY <1>4, <2>1, Joining DEF Start, BeganMeanwhile, running
  <2>2. CASE ~BeganMeanwhile(UrlOf[r])
    <3>1. /\ in_progress' = [in_progress EXCEPT ![UrlOf[r]] = r]
          /\ handlers' = [handlers EXCEPT ![r] = {r}]
          /\ step' = [step EXCEPT ![r] = "check"]
          /\ at' = [at EXCEPT ![r] = "waiting"]
      BY <1>4, <2>2 DEF Start, Go
    <3>2. in_progress[UrlOf[r]] = NoRequest /\ at[r] # "waiting" /\ UrlOf[r] \in Url
      BY <1>4, <2>2 DEF Start, BeganMeanwhile
    <3>3. handlers[r] = {}
      <4>1. ASSUME NEW q \in Request, q \in handlers[r] PROVE FALSE
        <5>1. in_progress[UrlOf[q]] = r
          BY <4>1 DEF OneInv
        <5>2. UrlOf[r] = UrlOf[q]
          BY <5>1 DEF OneInv
        <5> QED
          BY <3>2, <5>1, <5>2
      <4> QED
        BY <4>1, <1>0 DEF ChunkType
    <3>4. /\ in_progress'[UrlOf[r]] = r
          /\ \A u \in Url \ {UrlOf[r]} : in_progress'[u] = in_progress[u]
          /\ handlers'[r] = {r} /\ step'[r] = "check" /\ at'[r] = "waiting"
          /\ \A q \in Request \ {r} :
               handlers'[q] = handlers[q] /\ step'[q] = step[q] /\ at'[q] = at[q]
      BY <3>1, <3>2, <1>0 DEF AskType, QueueType, ChunkType, RunType
    <3>5. \A o \in Request : step'[o] # "none" <=> in_progress'[UrlOf[o]] = o
      BY <3>2, <3>4 DEF OneInv
    <3>6. \A q \in Request : at'[q] = "waiting" <=> \E o \in Request : q \in handlers'[o]
      BY <3>2, <3>3, <3>4 DEF OneInv
    <3>7. \A u \in Url : in_progress'[u] # NoRequest => UrlOf[in_progress'[u]] = u
      BY <3>4 DEF OneInv
    <3>8. \A q, o \in Request : q \in handlers'[o] => in_progress'[UrlOf[q]] = o
      BY <3>2, <3>4 DEF OneInv
    <3> QED
      BY <3>5, <3>6, <3>7, <3>8 DEF OneInv
  <2> QED
    BY <2>1, <2>2
<1>5. ASSUME NEW o \in Request, FireChunksCallback(o) PROVE OneInv'
  <2>1. in_progress[UrlOf[o]] = o
    BY <1>5 DEF FireChunksCallback, OneInv
  <2>2. /\ in_progress'[UrlOf[o]] = NoRequest
        /\ \A u \in Url \ {UrlOf[o]} : in_progress'[u] = in_progress[u]
        /\ step'[o] = "none" /\ \A q \in Request \ {o} : step'[q] = step[q]
    BY <1>5, <1>0 DEF FireChunksCallback, Executes, QueueType, RunType
  <2>3. /\ \A r \in Request : at'[r] = IF r \in handlers[o] THEN verdict[o] ELSE at[r]
        /\ handlers'[o] = {} /\ \A q \in Request \ {o} : handlers'[q] = handlers[q]
    BY <1>5, <2>1, <1>0 DEF FireChunksCallback, ChunkType
  <2>4. verdict[o] # "waiting"
    BY <1>0 DEF ChunkType, Told
  <2>5. \A q \in Request : step'[q] # "none" <=> in_progress'[UrlOf[q]] = q
    BY <2>1, <2>2 DEF OneInv
  <2>6. ASSUME NEW r \in Request
        PROVE  at'[r] = "waiting" <=> \E q \in Request : r \in handlers'[q]
    <3>1. CASE r \in handlers[o]
      <4>1. \A q \in Request : r \in handlers[q] => q = o
        BY <3>1 DEF OneInv
      <4> QED
        BY <2>3, <2>4, <3>1, <4>1
    <3>2. CASE r \notin handlers[o]
      BY <2>3, <3>2 DEF OneInv
    <3> QED
      BY <3>1, <3>2
  <2>7. \A u \in Url : in_progress'[u] # NoRequest => UrlOf[in_progress'[u]] = u
    BY <2>2 DEF OneInv
  <2>8. ASSUME NEW r \in Request, NEW q \in Request, r \in handlers'[q]
        PROVE  in_progress'[UrlOf[r]] = q
    <3>1. q # o /\ in_progress[UrlOf[r]] = q
      BY <2>3, <2>8 DEF OneInv
    <3>2. UrlOf[r] # UrlOf[o]
      BY <2>1, <3>1
    <3> QED
      BY <2>2, <3>1, <3>2
  <2> QED
    BY <2>5, <2>6, <2>7, <2>8 DEF OneInv
<1>6. ASSUME Restart PROVE OneInv'
  <2>1. /\ step' = [o \in Request |-> "none"] /\ in_progress' = [u \in Url |-> NoRequest]
        /\ handlers' = [o \in Request |-> {}] /\ \A r \in Request : at'[r] # "waiting"
    BY <1>6 DEF Restart, Told
  <2> QED
    BY <2>1 DEF OneInv
<1>7. ASSUME UNCHANGED <<at, handlers, in_progress, step>> PROVE OneInv'
  BY <1>7 DEF OneInv
<1>8. ASSUME NEW r \in Request, CancelFileSharing(r) \/ ReceiveByte(r) PROVE OneInv'
  BY <1>7, <1>8 DEF CancelFileSharing, ReceiveByte, asking, running
<1>9. ASSUME BeginResume \/ EndResume \/ UNCHANGED vars PROVE OneInv'
  BY <1>7, <1>9 DEF BeginResume, EndResume, vars, asking, chunks, running
<1> QED
  BY <1>1, <1>2, <1>3, <1>4, <1>5, <1>6, <1>8, <1>9
  DEF Next, CurlStep, ImplStep, SaveStep, CoreStep

LEMMA OneInvariant == Spec => []OneInv
<1>1. Init => OneInv
  <2> SUFFICES ASSUME Init PROVE OneInv
    OBVIOUS
  <2> QED
    BY FileDownloadsAssumption DEF Init, OneInv
<1>2. TypeInv /\ OneInv /\ [Next]_vars => OneInv'
  BY NextOne
<1> QED
  BY <1>1, <1>2, TypeInvariant, PTL DEF Spec

\* A url has one download at a time, however its requests and the threads meet
\* between the first look at in_progress_ and the job that begins; whoever calls
\* fire_chunks_callback finds the download in in_progress_ (the assertion of
\* async_loader.cpp:1129), and a request waits exactly while a download that goes
\* on has its handler.
THEOREM OneDownloadOfAUrl == Spec => []OneDownload
<1>1. TypeInv /\ OneInv => OneDownload
  <2> SUFFICES ASSUME TypeInv, OneInv PROVE OneDownload
    OBVIOUS
  <2>1. ASSUME NEW o \in Request, handlers[o] # {} PROVE step[o] # "none"
    <3>1. PICK r \in Request : r \in handlers[o]
      BY <2>1 DEF TypeInv, ChunkType
    <3>2. in_progress[UrlOf[r]] = o /\ UrlOf[r] \in Url /\ o # NoRequest
      BY <3>1, FileDownloadsAssumption DEF OneInv
    <3>3. in_progress[UrlOf[o]] = o
      BY <3>2 DEF OneInv
    <3> QED
      BY <3>3 DEF OneInv
  <2> QED
    BY <2>1 DEF OneInv, OneDownload
<1> QED
  BY <1>1, TypeInvariant, OneInvariant, PTL

-----------------------------------------------------------------------------
(* The file is whole *)
Begins(c) == Len(c) <= Total /\ \A n \in 1..Len(c) : c[n] = n
DiskWhole ==
  \A u \in Url : u \notin spoilt =>
    /\ file[u] \in {NoFile, Whole}
    /\ tmp[u] = NoFile \/ Begins(tmp[u])
BytesFit ==
  \A o \in Request : UrlOf[o] \notin spoilt =>
    /\ step[o] = "flight" =>
         /\ from[o] = downloaded[o]
         /\ tmp[UrlOf[o]] = NoFile \/ Len(tmp[UrlOf[o]]) = from[o] + got[o]
    /\ step[o] = "finish" => tmp[UrlOf[o]] = NoFile \/ Len(tmp[UrlOf[o]]) = Total
WholeInv == DiskWhole /\ BytesFit

LEMMA AllBytes ==
  ASSUME NEW c \in Seq(0..Total), Begins(c), Len(c) = Total
  PROVE  c = Whole
<1>1. c = [n \in 1..Len(c) |-> c[n]]
  OBVIOUS
<1> QED
  BY <1>1 DEF Begins, Whole

LEMMA OneByteMore ==
  ASSUME FileDownloadsAssumption, NEW c \in Seq(0..Total), Begins(c), Len(c) < Total
  PROVE  Begins(Append(c, Len(c) + 1)) /\ Len(Append(c, Len(c) + 1)) = Len(c) + 1
  BY DEF Begins, FileDownloadsAssumption

LEMMA FewerBytes ==
  ASSUME FileDownloadsAssumption, NEW c \in Seq(0..Total), Begins(c), NEW n \in 0..Len(c)
  PROVE  Begins(SubSeq(c, 1, n))
  BY DEF Begins, FileDownloadsAssumption

\* No file gets bytes but those of a whole .tmp, and no answer is begun or ended.
LEMMA KeptWhole ==
  ASSUME WholeInv,
         \A u \in Url : u \notin spoilt' =>
           /\ u \notin spoilt
           /\ file'[u] \in {file[u], NoFile, Whole} /\ tmp'[u] \in {tmp[u], NoFile},
         \A o \in Request : step'[o] \in {"flight", "finish"} =>
           /\ step'[o] = step[o] /\ from'[o] = from[o]
           /\ got'[o] = got[o] /\ downloaded'[o] = downloaded[o],
         FileDownloadsAssumption
  PROVE  WholeInv'
<1>1. DiskWhole'
  BY DEF WholeInv, DiskWhole
<1>2. ASSUME NEW o \in Request, UrlOf[o] \notin spoilt',
             step'[o] = "flight" \/ step'[o] = "finish"
      PROVE  /\ step[o] = step'[o] /\ UrlOf[o] \notin spoilt
             /\ tmp'[UrlOf[o]] \in {tmp[UrlOf[o]], NoFile}
             /\ from'[o] = from[o] /\ got'[o] = got[o] /\ downloaded'[o] = downloaded[o]
  BY <1>2 DEF FileDownloadsAssumption
<1>3. BytesFit'
  BY <1>2 DEF WholeInv, BytesFit
<1> QED
  BY <1>1, <1>3 DEF WholeInv

LEMMA OthersRest ==
  ASSUME OneInv, NEW o \in Request, step[o] # "none"
  PROVE  \A p \in Request \ {o} : UrlOf[p] = UrlOf[o] => step[p] = "none"
  BY OnlyOne

LEMMA NextWhole == TypeInv /\ OneInv /\ WholeInv /\ [Next]_vars => WholeInv'
<1> SUFFICES ASSUME TypeInv, OneInv, WholeInv, [Next]_vars PROVE WholeInv'
  OBVIOUS
<1> USE FileDownloadsAssumption
<1>0. /\ DiskType /\ AskType /\ ChunkType /\ RunType
      /\ DiskWhole /\ BytesFit
  BY DEF TypeInv, WholeInv
<1>1. ASSUME UNCHANGED <<file, tmp, spoilt, step, from, got, downloaded>>
      PROVE  WholeInv'
  BY <1>1, KeptWhole
<1>2. ASSUME NEW r \in Request,
             \/ Download(r) \/ ClearMeta(r) \/ Cleared(r) \/ ResumeMeta(r) \/ MetaAnswer(r)
             \/ MetaAnswered(r) \/ PushStart(r) \/ Copy(r) \/ CancelFileSharing(r)
             \/ SaveLocalPath(r)
      PROVE  WholeInv'
  BY <1>1, <1>2 DEF Download, UpdateFileChunks, ClearMeta, Cleared, ResumeMeta, RequestMeta,
    MetaAnswer, MetaAnswered, PushStart, Copy, CancelFileSharing, SaveLocalPath, disk, chunks,
    running, history
<1>3. ASSUME BeginResume \/ EndResume \/ UNCHANGED vars PROVE WholeInv'
  BY <1>1, <1>3 DEF BeginResume, EndResume, vars, disk, chunks, running, history
<1>4. ASSUME NEW r \in Request, MetaReady(r) PROVE WholeInv'
  <2>1. UNCHANGED <<tmp, spoilt, step, from, got, downloaded>>
    BY <1>4 DEF MetaReady, chunks, running
  <2>2. \A u \in Url : file'[u] \in {file[u], NoFile}
    BY <1>4, <1>0 DEF MetaReady, Replace, DiskType
  <2> QED
    BY <2>1, <2>2, KeptWhole
<1>5. ASSUME NEW r \in Request, StartWithAll(r) PROVE WholeInv'
  <2> DEFINE u == UrlOf[r]
  <2>1. UNCHANGED <<step, from, got, downloaded>>
    BY <1>5 DEF StartWithAll, chunks, running
  <2>2. CASE tmp[u] = NoFile
    BY <1>1, <1>5, <2>1, <2>2 DEF StartWithAll
  <2>3. CASE tmp[u] # NoFile
    <3>1. /\ spoilt' = IF Len(tmp[u]) # Total THEN spoilt \cup {u} ELSE spoilt
          /\ file' = [file EXCEPT ![u] = tmp[u]] /\ tmp' = [tmp EXCEPT ![u] = NoFile]
      BY <1>5, <2>3 DEF StartWithAll, Move, Replace, DropTmp, SizeOf
    <3>2. tmp[u] \in Seq(0..Total)
      BY <1>0, <2>3 DEF DiskType, Content
    <3>3. u \notin spoilt' => u \notin spoilt /\ tmp[u] = Whole
      BY <1>0, <2>3, <3>1, <3>2, AllBytes DEF DiskWhole
    <3>4. \A v \in Url : v \notin spoilt' =>
            /\ v \notin spoilt
            /\ file'[v] \in {file[v], NoFile, Whole} /\ tmp'[v] \in {tmp[v], NoFile}
      BY <1>0, <3>1, <3>3 DEF DiskType
    <3> QED
      BY <2>1, <3>4, KeptWhole
  <2> QED
    BY <2>2, <2>3
<1>6. ASSUME NEW r \in Request, Start(r) PROVE WholeInv'
  <2>1. UNCHANGED <<file, spoilt, from, got>>
    BY <1>6 DEF Start, UpdateFileChunks
  <2>2. \A u \in Url : tmp'[u] \in {tmp[u], NoFile}
    BY <1>6, <1>0 DEF Start, DropTmp, DiskType
  <2>3. \A o \in Request : step'[o] \in {"flight", "finish"} =>
          step'[o] = step[o] /\ downloaded'[o] = downloaded[o]
    BY <1>6, <1>0 DEF Start, UpdateFileChunks, running, RunType, ChunkType
  <2> QED
    BY <2>1, <2>2, <2>3, KeptWhole
<1>7. ASSUME NEW o \in Request, CheckFindsNobody(o) \/ Refuse(o) \/ OpenFails(o) PROVE WholeInv'
  <2>1. UNCHANGED <<file, spoilt, from, got, downloaded>>
    BY <1>7 DEF CheckFindsNobody, Refuse, OpenFails, disk, history
  <2>2. \A u \in Url : tmp'[u] \in {tmp[u], NoFile}
    BY <1>7, <1>0 DEF CheckFindsNobody, Refuse, OpenFails, DropTmp, disk, DiskType
  <2>3. \A p \in Request : step'[p] \in {"flight", "finish"} => step'[p] = step[p]
    BY <1>7, <1>0 DEF CheckFindsNobody, Refuse, OpenFails, GiveUp, Executes, RunType
  <2> QED
    BY <2>1, <2>2, <2>3, KeptWhole
<1>8. ASSUME NEW o \in Request, Stop(o) \/ ResumeChunks(o) PROVE WholeInv'
  <2>1. UNCHANGED <<file, tmp, spoilt, from, got, downloaded>>
    BY <1>8 DEF Stop, ResumeChunks, disk, chunks, history
  <2>2. \A p \in Request : step'[p] \in {"flight", "finish"} => step'[p] = step[p]
    BY <1>8, <1>0 DEF Stop, ResumeChunks, Executes, RunType
  <2> QED
    BY <2>1, <2>2, KeptWhole
<1>9. ASSUME NEW o \in Request, Break(o) \/ Stopped(o) PROVE WholeInv'
  <2>1. ChunkFails(o) /\ UNCHANGED <<file, from, got, downloaded>>
    BY <1>9 DEF Break, Stopped
  <2>2. \A u \in Url : u \notin spoilt' => u \notin spoilt /\ tmp'[u] \in {tmp[u], NoFile}
    <3>1. CASE active_seqs[o] = {}
      BY <2>1, <3>1, <1>0 DEF ChunkFails, DropTmp, DiskType
    <3>2. CASE active_seqs[o] # {}
      <4>1. PICK garbage \in {<<>>, <<0>>} :
              /\ tmp' = IF tmp[UrlOf[o]] = NoFile THEN tmp
                        ELSE [tmp EXCEPT ![UrlOf[o]] = @ \o garbage]
              /\ spoilt' = IF garbage # <<>> THEN spoilt \cup {UrlOf[o]} ELSE spoilt
        BY <2>1, <3>2 DEF ChunkFails
      <4>2. CASE garbage = <<>>
        <5>1. tmp[UrlOf[o]] # NoFile => tmp[UrlOf[o]] \o garbage = tmp[UrlOf[o]]
          BY <1>0, <4>2 DEF DiskType, Content
        <5> QED
          BY <4>1, <4>2, <5>1, <1>0 DEF DiskType
      <4>3. CASE garbage # <<>>
        BY <4>1, <4>3, <1>0 DEF DiskType
      <4> QED
        BY <4>2, <4>3
    <3> QED
      BY <3>1, <3>2
  <2>3. \A p \in Request : step'[p] \in {"flight", "finish"} => step'[p] = step[p]
    BY <2>1, <1>0 DEF ChunkFails, Suspend, GiveUp, Executes, RunType
  <2> QED
    BY <2>1, <2>2, <2>3, KeptWhole
<1>10. ASSUME NEW o \in Request, FireChunksCallback(o) PROVE WholeInv'
  <2>1. UNCHANGED <<file, tmp, spoilt>>
    BY <1>10 DEF FireChunksCallback, disk, history
  <2>2. /\ step'[o] = "none"
        /\ \A p \in Request \ {o} :
             /\ step'[p] = step[p] /\ from'[p] = from[p]
             /\ got'[p] = got[p] /\ downloaded'[p] = downloaded[p]
    BY <1>10, <1>0 DEF FireChunksCallback, Executes, RunType, ChunkType
  <2> QED
    BY <2>1, <2>2, KeptWhole
<1>11. ASSUME NEW o \in Request, Finish(o) PROVE WholeInv'
  <2> DEFINE u == UrlOf[o]
  <2>1. UNCHANGED <<spoilt, from, got, downloaded>>
    BY <1>11 DEF Finish
  <2>2. \A p \in Request : step'[p] \in {"flight", "finish"} => step'[p] = step[p]
    BY <1>11, <1>0 DEF Finish, GiveUp, Executes, RunType
  <2>3. CASE tmp[u] = NoFile
    BY <1>11, <2>1, <2>2, <2>3, KeptWhole DEF Finish
  <2>4. CASE tmp[u] # NoFile
    <3>1. file' = [file EXCEPT ![u] = tmp[u]] /\ tmp' = [tmp EXCEPT ![u] = NoFile]
      BY <1>11, <2>4 DEF Finish, Move, Replace, DropTmp
    <3>2. tmp[u] \in Seq(0..Total) /\ step[o] = "finish"
      BY <1>0, <1>11, <2>4 DEF DiskType, Content, Finish
    <3>3. u \notin spoilt => tmp[u] = Whole
      BY <1>0, <2>4, <3>2, AllBytes DEF DiskWhole, BytesFit
    <3>4. \A v \in Url : v \notin spoilt =>
            file'[v] \in {file[v], NoFile, Whole} /\ tmp'[v] \in {tmp[v], NoFile}
      BY <1>0, <3>1, <3>3 DEF DiskType
    <3> QED
      BY <2>1, <2>2, <3>4, KeptWhole
  <2> QED
    BY <2>3, <2>4
<1>12. ASSUME NEW o \in Request, AskForBytes(o) PROVE WholeInv'
  <2> DEFINE u == UrlOf[o]
             d == downloaded[o]
  <2>1. \A p \in Request \ {o} : UrlOf[p] = u => step[p] = "none"
    BY <1>12, OthersRest DEF AskForBytes
  <2>2. /\ UNCHANGED <<file, downloaded>> /\ u \in Url
        /\ tmp' = IF d > 0 /\ tmp[u] # NoFile THEN tmp ELSE [tmp EXCEPT ![u] = <<>>]
        /\ got'[o] = 0 /\ step'[o] = "flight" /\ d \in Nat
    BY <1>12, <1>0 DEF AskForBytes, Executes, ChunkType, RunType
  <2>3. \A p \in Request \ {o} :
          step'[p] = step[p] /\ from'[p] = from[p] /\ got'[p] = got[p]
    BY <1>12, <1>0 DEF AskForBytes, Executes, ChunkType, RunType
  <2>4. tmp'[u] \in Seq(0..Total) /\ \A v \in Url \ {u} : tmp'[v] = tmp[v]
    <3>1. <<>> \in Seq(0..Total)
      OBVIOUS
    <3>2. tmp \in [Url -> Content] /\ (tmp[u] # NoFile => tmp[u] \in Seq(0..Total))
      BY <2>2, <1>0 DEF DiskType, Content
    <3> QED
      BY <2>2, <3>1, <3>2
  <2>5. \/ from'[o] = d /\ spoilt' = IF Len(tmp'[u]) # d THEN spoilt \cup {u} ELSE spoilt
        \/ spoilt' = spoilt \cup {u}
    <3>1. SizeOf(tmp'[u]) = Len(tmp'[u])
      BY <2>4, FileDownloadsAssumption DEF SizeOf
    <3> QED
      BY <1>12, <3>1, <1>0 DEF AskForBytes, ChunkType
  <2>6. spoilt \subseteq spoilt' /\ (u \notin spoilt' => from'[o] = d /\ Len(tmp'[u]) = d)
    BY <2>5
  <2>7. u \notin spoilt' => Begins(tmp'[u])
    <3>1. Begins(<<>>)
      BY DEF Begins
    <3> QED
      BY <2>2, <2>6, <3>1, <1>0 DEF DiskWhole, DiskType
  <2>8. DiskWhole'
    BY <2>2, <2>4, <2>6, <2>7, <1>0 DEF DiskWhole
  <2>9. ASSUME NEW p \in Request, p # o, UrlOf[p] \notin spoilt',
               step'[p] = "flight" \/ step'[p] = "finish"
        PROVE  /\ step'[p] = step[p] /\ UrlOf[p] \notin spoilt
               /\ tmp'[UrlOf[p]] = tmp[UrlOf[p]]
    BY <2>1, <2>3, <2>4, <2>6, <2>9
  <2>10. BytesFit'
    BY <2>2, <2>3, <2>6, <2>9, <1>0 DEF BytesFit
  <2> QED
    BY <2>8, <2>10 DEF WholeInv
<1>13. ASSUME NEW o \in Request, ReceiveByte(o) PROVE WholeInv'
  <2> DEFINE u == UrlOf[o]
             n == from[o] + got[o]
  <2>1. \A p \in Request \ {o} : UrlOf[p] = u => step[p] = "none"
    BY <1>13, OthersRest DEF ReceiveByte
  <2>2. /\ UNCHANGED <<file, spoilt, step, from, downloaded>> /\ u \in Url /\ step[o] = "flight"
        /\ tmp' = IF tmp[u] = NoFile THEN tmp ELSE [tmp EXCEPT ![u] = Append(@, n + 1)]
        /\ got' = [got EXCEPT ![o] = @ + 1]
    BY <1>13 DEF ReceiveByte, Write, running, history
  <2>3. n \in Nat /\ n < Total /\ got'[o] = got[o] + 1 /\ got[o] \in Nat /\ from[o] \in Nat
    BY <1>13, <2>2, <1>0 DEF ReceiveByte, ChunkType
  <2>4. \A v \in Url \ {u} : tmp'[v] = tmp[v]
    BY <2>2, <1>0 DEF DiskType
  <2>5. u \notin spoilt => tmp'[u] = NoFile \/ (Begins(tmp'[u]) /\ Len(tmp'[u]) = n + 1)
    <3>1. CASE tmp[u] = NoFile
      BY <2>2, <3>1
    <3>2. CASE tmp[u] # NoFile
      <4>1. tmp[u] \in Seq(0..Total) /\ tmp'[u] = Append(tmp[u], n + 1)
        BY <2>2, <3>2, <1>0 DEF DiskType, Content
      <4>2. u \notin spoilt => Begins(tmp[u]) /\ Len(tmp[u]) = n
        BY <2>2, <3>2, <1>0 DEF DiskWhole, BytesFit
      <4> QED
        BY <2>3, <4>1, <4>2, OneByteMore
    <3> QED
      BY <3>1, <3>2
  <2>6. DiskWhole'
    BY <2>2, <2>4, <2>5, <1>0 DEF DiskWhole
  <2>7. ASSUME NEW p \in Request, p # o, step[p] # "none"
        PROVE  tmp'[UrlOf[p]] = tmp[UrlOf[p]] /\ got'[p] = got[p]
    BY <2>1, <2>2, <2>4, <2>7, <1>0 DEF ChunkType
  <2>8. BytesFit'
    <3>1. ASSUME NEW p \in Request, UrlOf[p] \notin spoilt, step[p] = "flight"
          PROVE  /\ from[p] = downloaded[p]
                 /\ tmp'[UrlOf[p]] = NoFile \/ Len(tmp'[UrlOf[p]]) = from[p] + got'[p]
      <4>1. CASE p = o
        BY <2>3, <2>5, <3>1, <4>1, <1>0 DEF BytesFit
      <4>2. CASE p # o
        BY <2>7, <3>1, <4>2, <1>0 DEF BytesFit
      <4> QED
        BY <4>1, <4>2
    <3>2. ASSUME NEW p \in Request, UrlOf[p] \notin spoilt, step[p] = "finish"
          PROVE  tmp'[UrlOf[p]] = NoFile \/ Len(tmp'[UrlOf[p]]) = Total
      BY <2>2, <2>7, <3>2, <1>0 DEF BytesFit
    <3> QED
      BY <2>2, <3>1, <3>2 DEF BytesFit
  <2> QED
    BY <2>6, <2>8 DEF WholeInv
<1>14. ASSUME NEW o \in Request, ChunkComes(o) PROVE WholeInv'
  <2> DEFINE u == UrlOf[o]
  <2>1. UNCHANGED <<file, tmp, spoilt, from>> /\ u \in Url /\ step[o] = "flight"
    BY <1>14 DEF ChunkComes, disk, history
  <2>2. \A p \in Request \ {o} :
          step'[p] = step[p] /\ got'[p] = got[p] /\ downloaded'[p] = downloaded[p]
    BY <1>14, <1>0 DEF ChunkComes, GiveUp, Executes, ChunkType, RunType
  <2>3. /\ step'[o] \in {"finish", "fire", "check"}
        /\ step'[o] = "finish" => downloaded[o] + got[o] = Total
    BY <1>14, <1>0 DEF ChunkComes, GiveUp, Executes, AllCame, RunType
  <2>4. u \notin spoilt /\ step'[o] = "finish" => tmp[u] = NoFile \/ Len(tmp[u]) = Total
    BY <2>1, <2>3, <1>0 DEF BytesFit
  <2>5. DiskWhole'
    BY <2>1, <1>0 DEF DiskWhole
  <2>6. BytesFit'
    BY <2>1, <2>2, <2>3, <2>4, <1>0 DEF BytesFit
  <2> QED
    BY <2>5, <2>6 DEF WholeInv
<1>15. ASSUME Restart PROVE WholeInv'
  <2>1. UNCHANGED <<file, spoilt>> /\ \A o \in Request : step'[o] = "none"
    BY <1>15 DEF Restart, history
  <2>2. ASSUME NEW u \in Url, u \notin spoilt
        PROVE  tmp'[u] = NoFile \/ Begins(tmp'[u])
    <3>1. CASE tmp[u] = NoFile
      BY <1>15, <3>1 DEF Restart
    <3>2. CASE tmp[u] # NoFile
      <4>1. PICK n \in Unflushed(u) : tmp'[u] = SubSeq(tmp[u], 1, Len(tmp[u]) - n)
        BY <1>15, <3>2 DEF Restart
      <4>2. tmp[u] \in Seq(0..Total) /\ n \in 0..Len(tmp[u]) /\ Begins(tmp[u])
        BY <2>2, <3>2, <1>0, Sizes DEF DiskType, Content, DiskWhole, Unflushed
      <4>3. Len(tmp[u]) - n \in 0..Len(tmp[u])
        BY <4>2
      <4> QED
        BY <4>1, <4>2, <4>3, FewerBytes
    <3> QED
      BY <3>1, <3>2
  <2> QED
    BY <2>1, <2>2, <1>0 DEF WholeInv, DiskWhole, BytesFit
<1> QED
  BY <1>2, <1>3, <1>4, <1>5, <1>6, <1>7, <1>8, <1>9, <1>10, <1>11, <1>12, <1>13, <1>14, <1>15
  DEF Next, CurlStep, ImplStep, SaveStep, CoreStep

\* The file that takes its name on the disk is the file of the server, byte for
\* byte, for every length and every size of the requests, whatever was
\* interrupted, suspended, joined and restarted, unless bytes got into its .tmp at
\* another place than theirs (download_file_sharing_impl, write_memory_callback).
THEOREM NamedFileIsWhole == Spec => []FileIsWhole
<1>1. Init => WholeInv
  BY FileDownloadsAssumption DEF Init, WholeInv, DiskWhole, BytesFit
<1>2. TypeInv /\ OneInv /\ WholeInv /\ [Next]_vars => WholeInv'
  BY NextWhole
<1>3. WholeInv => FileIsWhole
  BY DEF WholeInv, DiskWhole, FileIsWhole
<1> QED
  BY <1>1, <1>2, <1>3, TypeInvariant, OneInvariant, PTL DEF Spec

-----------------------------------------------------------------------------
(* What is told is due *)
Excused == cancelled \cup late
CancelDue ==
  \A o \in Request :
    /\ handlers[o] \ active_seqs[o] \subseteq Excused
    /\ step[o] = "fire" /\ verdict[o] = "cancelled" => handlers[o] \subseteq Excused

Here(u) == file[u] # NoFile \/ u \in wiped
SuccessDue ==
  /\ \A u \in local : file[u] # NoFile
  /\ \A r \in Request :
       /\ r \in holds => file[UrlOf[r]] # NoFile
       /\ at[r] = "copy" => Here(UrlOf[r])
       /\ step[r] = "fire" /\ verdict[r] = "success" => Here(UrlOf[r])

Accounted(u) == tmp[u] # NoFile \/ u \in taken
ErrorDue ==
  /\ cancelled_tasks \subseteq cancelled
  /\ \A r \in Request :
       /\ at[r] = "metaRefused" => failures > 0 \/ r \in cancelled
       /\ size[r] > 0 => Accounted(UrlOf[r])
       /\ step[r] \in {"flight", "finish"} => Accounted(UrlOf[r])
       /\ step[r] = "flight" => from[r] = downloaded[r] \/ failures > 0
       /\ step[r] = "fire" /\ verdict[r] = "error" => failures > 0 \/ UrlOf[r] \in taken

\* No handler comes or goes, and a cancellation is decided only when nobody is
\* active.
LEMMA KeptCancel ==
  ASSUME CancelDue, UNCHANGED <<handlers, active_seqs>>, Excused \subseteq Excused',
         \A o \in Request : step'[o] = "fire" /\ verdict'[o] = "cancelled" =>
           active_seqs[o] = {} \/ (step[o] = "fire" /\ verdict[o] = "cancelled")
  PROVE  CancelDue'
  BY DEF CancelDue

LEMMA JoiningIsExcused ==
  ASSUME TypeInv, CancelDue, NEW o \in Request, NEW r \in Request, UpdateFileChunks(o, r),
         UNCHANGED step
  PROVE  CancelDue'
<1>1. /\ handlers'[o] = handlers[o] \cup {r} /\ active_seqs'[o] = active_seqs[o] \cup {r}
      /\ \A p \in Request \ {o} : handlers'[p] = handlers[p] /\ active_seqs'[p] = active_seqs[p]
  BY DEF UpdateFileChunks, AddHandler, TypeInv, ChunkType
<1>2. /\ UNCHANGED <<verdict, cancelled>> /\ late \subseteq late'
      /\ step[o] = "fire" => r \in late'
  BY DEF UpdateFileChunks
<1> QED
  BY <1>1, <1>2 DEF CancelDue, Excused

LEMMA NextCancel == TypeInv /\ OneInv /\ CancelDue /\ [Next]_vars => CancelDue'
<1> SUFFICES ASSUME TypeInv, OneInv, CancelDue, [Next]_vars PROVE CancelDue'
  OBVIOUS
<1> USE FileDownloadsAssumption
<1>0. QueueType /\ ChunkType /\ RunType
  BY DEF TypeInv
<1>1. ASSUME UNCHANGED <<handlers, active_seqs, step, verdict, cancelled, late>>
      PROVE  CancelDue'
  BY <1>1 DEF CancelDue, Excused
<1>2. ASSUME NEW r \in Request,
             \/ ClearMeta(r) \/ Cleared(r) \/ ResumeMeta(r) \/ MetaAnswer(r) \/ MetaAnswered(r)
             \/ MetaReady(r) \/ PushStart(r) \/ Copy(r) \/ StartWithAll(r) \/ SaveLocalPath(r)
             \/ ReceiveByte(r)
      PROVE  CancelDue'
  BY <1>1, <1>2 DEF ClearMeta, Cleared, ResumeMeta, RequestMeta, MetaAnswer, MetaAnswered,
    MetaReady, PushStart, Copy, StartWithAll, SaveLocalPath, ReceiveByte, chunks, running, history
<1>3. ASSUME BeginResume \/ EndResume \/ UNCHANGED vars PROVE CancelDue'
  BY <1>1, <1>3 DEF BeginResume, EndResume, vars, chunks, running, history
<1>4. ASSUME NEW o \in Request, CheckFindsNobody(o) \/ Break(o) \/ Stopped(o) PROVE CancelDue'
  <2>1. UNCHANGED <<handlers, active_seqs, cancelled, late>>
    BY <1>4 DEF CheckFindsNobody, Break, Stopped
  <2>2. \A p \in Request : step'[p] = "fire" =>
          (active_seqs[p] = {} /\ p = o) \/ (step[p] = "fire" /\ verdict'[p] = verdict[p])
    BY <1>4, <1>0
    DEF CheckFindsNobody, Break, Stopped, ChunkFails, Suspend, GiveUp, Executes, RunType,
      ChunkType
  <2> QED
    BY <2>1, <2>2, KeptCancel DEF Excused
<1>5. ASSUME NEW o \in Request,
             \/ OpenFails(o) \/ AskForBytes(o) \/ ChunkComes(o) \/ Refuse(o) \/ Stop(o)
             \/ Finish(o) \/ ResumeChunks(o)
      PROVE  CancelDue'
  <2>1. UNCHANGED <<handlers, active_seqs, cancelled, late>>
    BY <1>5 DEF OpenFails, AskForBytes, ChunkComes, Refuse, Stop, Finish, ResumeChunks, chunks,
      history
  <2>2. \A p \in Request \ {o} : step'[p] = step[p] /\ verdict'[p] = verdict[p]
    BY <1>5, <1>0 DEF OpenFails, AskForBytes, ChunkComes, Refuse, Stop, Finish, ResumeChunks,
      GiveUp, Executes, chunks, RunType, ChunkType
  <2>3. step'[o] # "fire" \/ verdict'[o] # "cancelled"
    BY <1>5, <1>0 DEF OpenFails, AskForBytes, ChunkComes, Refuse, Stop, Finish, ResumeChunks,
      GiveUp, Executes, RunType, ChunkType
  <2> QED
    BY <2>1, <2>2, <2>3, KeptCancel DEF Excused
<1>6. ASSUME NEW r \in Request, Download(r) PROVE CancelDue'
  <2>1. CASE in_progress[UrlOf[r]] # NoRequest
    BY <1>6, <2>1, <1>0, JoiningIsExcused DEF Download, running, QueueType
  <2>2. CASE in_progress[UrlOf[r]] = NoRequest
    BY <1>1, <1>6, <2>2 DEF Download, chunks, running, history
  <2> QED
    BY <2>1, <2>2
<1>7. ASSUME NEW r \in Request, Start(r) PROVE CancelDue'
  <2>1. CASE BeganMeanwhile(UrlOf[r])
    BY <1>7, <2>1, <1>0, JoiningIsExcused DEF Start, BeganMeanwhile, running, QueueType
  <2>2. CASE ~BeganMeanwhile(UrlOf[r])
    <3>1. UNCHANGED <<verdict, cancelled, late>>
      BY <1>7, <2>2 DEF Start
    <3>2. /\ handlers'[r] = {r} /\ active_seqs'[r] = {r} /\ step'[r] = "check"
          /\ \A p \in Request \ {r} :
               /\ handlers'[p] = handlers[p] /\ active_seqs'[p] = active_seqs[p]
               /\ step'[p] = step[p]
      BY <1>7, <2>2, <1>0 DEF Start, ChunkType, RunType
    <3> QED
      BY <3>1, <3>2 DEF CancelDue, Excused
  <2> QED
    BY <2>1, <2>2
<1>8. ASSUME NEW o \in Request, FireChunksCallback(o) PROVE CancelDue'
  <2>1. in_progress[UrlOf[o]] = o
    BY <1>8 DEF FireChunksCallback, OneInv
  <2>2. /\ handlers'[o] = {} /\ active_seqs'[o] = {} /\ step'[o] = "none"
        /\ \A p \in Request \ {o} :
             /\ handlers'[p] = handlers[p] /\ active_seqs'[p] = active_seqs[p]
             /\ step'[p] = step[p] /\ verdict'[p] = verdict[p]
    BY <1>8, <2>1, <1>0 DEF FireChunksCallback, Executes, ChunkType, RunType
  <2>3. UNCHANGED <<cancelled, late>>
    BY <1>8 DEF FireChunksCallback, history
  <2> QED
    BY <2>2, <2>3 DEF CancelDue, Excused
<1>9. ASSUME NEW r \in Request, CancelFileSharing(r) PROVE CancelDue'
  <2>1. /\ UNCHANGED <<handlers, step, verdict, late>> /\ cancelled' = cancelled \cup {r}
    BY <1>9 DEF CancelFileSharing, running
  <2>2. \A o \in Request : active_seqs[o] \ {r} \subseteq active_seqs'[o]
    <3>1. \/ UNCHANGED active_seqs
          \/ \E p \in Request : active_seqs' = [active_seqs EXCEPT ![p] = @ \ {r}]
      BY <1>9, <1>0 DEF CancelFileSharing, EraseSeq, QueueType
    <3>2. active_seqs \in [Request -> SUBSET Request]
      BY <1>0 DEF ChunkType
    <3>3. ASSUME NEW p \in Request, active_seqs' = [active_seqs EXCEPT ![p] = @ \ {r}]
          PROVE  \A o \in Request : active_seqs[o] \ {r} \subseteq active_seqs'[o]
      BY <3>2, <3>3
    <3> QED
      BY <3>1, <3>3
  <2> QED
    BY <2>1, <2>2 DEF CancelDue, Excused
<1>10. ASSUME Restart PROVE CancelDue'
  <2>1. \A o \in Request : handlers'[o] = {} /\ step'[o] = "none"
    BY <1>10 DEF Restart
  <2> QED
    BY <2>1 DEF CancelDue
<1> QED
  BY <1>2, <1>3, <1>4, <1>5, <1>6, <1>7, <1>8, <1>9, <1>10
  DEF Next, CurlStep, ImplStep, SaveStep, CoreStep

\* A file goes only where that is noted, and no meta information, copy or verdict
\* names it anew without it.
LEMMA KeptSuccess ==
  ASSUME SuccessDue, FileDownloadsAssumption,
         \A u \in Url : Here(u) => Here(u)',
         \A u \in local' : file'[u] # NoFile,
         \A r \in Request : r \in holds' => file'[UrlOf[r]] # NoFile,
         \A r \in Request : at'[r] = "copy" => at[r] = "copy" \/ Here(UrlOf[r])',
         \A o \in Request : step'[o] = "fire" /\ verdict'[o] = "success" =>
           (step[o] = "fire" /\ verdict[o] = "success") \/ Here(UrlOf[o])'
  PROVE  SuccessDue'
<1>1. \A r \in Request : UrlOf[r] \in Url
  BY DEF FileDownloadsAssumption
<1> QED
  BY <1>1 DEF SuccessDue

LEMMA NextSuccess == TypeInv /\ SuccessDue /\ [Next]_vars => SuccessDue'
<1> SUFFICES ASSUME TypeInv, SuccessDue, [Next]_vars PROVE SuccessDue'
  OBVIOUS
<1> USE FileDownloadsAssumption
<1>0. DiskType /\ AskType /\ ChunkType /\ RunType
  BY DEF TypeInv
<1>1. \A r \in Request : UrlOf[r] \in Url
  OBVIOUS
<1>2. ASSUME UNCHANGED <<file, wiped>>, local' \subseteq local,
             \A r \in Request : r \in holds' => r \in holds \/ UrlOf[r] \in local,
             \A r \in Request : at'[r] = "copy" => at[r] = "copy",
             \A o \in Request : step'[o] = "fire" /\ verdict'[o] = "success" =>
               step[o] = "fire" /\ verdict[o] = "success"
      PROVE  SuccessDue'
  BY <1>1, <1>2, KeptSuccess DEF SuccessDue, Here
<1>3. ASSUME NEW r \in Request,
             \/ Download(r) \/ ClearMeta(r) \/ Cleared(r) \/ ResumeMeta(r) \/ MetaAnswer(r)
             \/ MetaAnswered(r) \/ PushStart(r) \/ Copy(r)
      PROVE  SuccessDue'
  <2>1. UNCHANGED <<file, wiped, step, verdict>>
    BY <1>3 DEF Download, UpdateFileChunks, ClearMeta, Cleared, ResumeMeta, RequestMeta,
      MetaAnswer, MetaAnswered, PushStart, Copy, disk, chunks, running, history
  <2>2. /\ local' \subseteq local
        /\ \A q \in Request : q \in holds' => q \in holds \/ UrlOf[q] \in local
    BY <1>3 DEF Download, ClearMeta, Cleared, ResumeMeta, RequestMeta, MetaAnswer, MetaAnswered,
      PushStart, Copy, disk
  <2>3. \A q \in Request : at'[q] = "copy" => at[q] = "copy"
    BY <1>3, <1>0 DEF Download, UpdateFileChunks, ClearMeta, Cleared, ResumeMeta, RequestMeta,
      MetaAnswer, MetaAnswered, PushStart, Copy, Go, AskType
  <2> QED
    BY <1>2, <2>1, <2>2, <2>3
<1>4. ASSUME NEW r \in Request, CancelFileSharing(r) \/ ReceiveByte(r) PROVE SuccessDue'
  BY <1>2, <1>4 DEF CancelFileSharing, ReceiveByte, disk, asking, running, history
<1>5. ASSUME BeginResume \/ EndResume \/ UNCHANGED vars PROVE SuccessDue'
  BY <1>2, <1>5 DEF BeginResume, EndResume, vars, disk, asking, chunks, running, history
<1>6. ASSUME NEW o \in Request,
             \/ CheckFindsNobody(o) \/ OpenFails(o) \/ AskForBytes(o) \/ ChunkComes(o)
             \/ Break(o) \/ Refuse(o) \/ Stop(o) \/ Stopped(o) \/ ResumeChunks(o)
      PROVE  SuccessDue'
  <2>1. UNCHANGED <<file, local, holds, at, wiped>>
    BY <1>6 DEF CheckFindsNobody, OpenFails, AskForBytes, ChunkComes, Break, Refuse, Stop,
      Stopped,
      ResumeChunks, disk, asking, history
  <2>2. \A p \in Request \ {o} : step'[p] = step[p] /\ verdict'[p] = verdict[p]
    BY <1>6, <1>0 DEF CheckFindsNobody, OpenFails, AskForBytes, ChunkComes, Break, Refuse, Stop,
      Stopped, ResumeChunks, ChunkFails, Suspend, GiveUp, Executes, chunks, RunType, ChunkType
  <2>3. step'[o] # "fire" \/ verdict'[o] # "success"
    BY <1>6, <1>0 DEF CheckFindsNobody, OpenFails, AskForBytes, ChunkComes, Break, Refuse, Stop,
      Stopped, ResumeChunks, ChunkFails, Suspend, GiveUp, Executes, RunType, ChunkType
  <2> QED
    BY <1>2, <2>1, <2>2, <2>3
<1>7. ASSUME NEW r \in Request, Start(r) PROVE SuccessDue'
  <2>1. UNCHANGED <<file, local, holds, wiped, verdict>>
    BY <1>7 DEF Start, UpdateFileChunks
  <2>2. \A q \in Request : step'[q] = "fire" => step[q] = "fire"
    BY <1>7, <1>0 DEF Start, running, RunType
  <2>3. \A q \in Request : at'[q] = "copy" => at[q] = "copy"
    BY <1>7, <1>0 DEF Start, UpdateFileChunks, Go, AskType
  <2> QED
    BY <1>2, <2>1, <2>2, <2>3
<1>8. ASSUME NEW r \in Request, MetaReady(r) PROVE SuccessDue'
  <2>1. UNCHANGED <<step, verdict>>
    BY <1>8 DEF MetaReady, chunks, running
  <2>2. \A q \in Request : at'[q] = "copy" => at[q] = "copy" \/ (q = r /\ r \in holds)
    BY <1>8, <1>0 DEF MetaReady, IsSameFile, Go, AskType
  <2>3. CASE IsSameFile(r)
    <3>1. UNCHANGED <<file, local, holds, wiped>>
      BY <1>8, <2>3 DEF MetaReady
    <3> QED
      BY <2>1, <2>2, <3>1, KeptSuccess DEF SuccessDue, Here
  <2>4. CASE ~IsSameFile(r)
    <3>1. /\ file' = [file EXCEPT ![UrlOf[r]] = NoFile]
          /\ local' = local \ {UrlOf[r]} /\ holds' = holds \ OfUrl(UrlOf[r])
          /\ wiped' = IF file[UrlOf[r]] = NoFile THEN wiped ELSE wiped \cup {UrlOf[r]}
      BY <1>8, <2>4 DEF MetaReady, Replace
    <3>2. \A u \in Url : Here(u) => Here(u)'
      BY <3>1, <1>0 DEF Here, DiskType
    <3>3. \A u \in local' : file'[u] # NoFile
      BY <3>1, <1>0 DEF SuccessDue, DiskType
    <3>4. \A q \in Request : q \in holds' => file'[UrlOf[q]] # NoFile
      BY <1>1, <3>1, <1>0 DEF SuccessDue, OfUrl, DiskType
    <3>5. \A q \in Request : at'[q] = "copy" => at[q] = "copy"
      BY <1>8, <2>4, <1>0 DEF MetaReady, Go, AskType
    <3> QED
      BY <2>1, <3>2, <3>3, <3>4, <3>5, KeptSuccess
  <2> QED
    BY <2>3, <2>4
<1>9. ASSUME NEW r \in Request, Move(UrlOf[r]), tmp[UrlOf[r]] # NoFile, UNCHANGED wiped
      PROVE  /\ Here(UrlOf[r])' /\ \A u \in Url : Here(u) => Here(u)'
             /\ \A u \in local' : file'[u] # NoFile
             /\ \A q \in Request : q \in holds' => file'[UrlOf[q]] # NoFile
  <2>1. /\ file' = [file EXCEPT ![UrlOf[r]] = tmp[UrlOf[r]]]
        /\ local' = local \ {UrlOf[r]} /\ holds' = holds \ OfUrl(UrlOf[r])
    BY <1>9 DEF Move, Replace
  <2>2. file'[UrlOf[r]] # NoFile /\ \A u \in Url \ {UrlOf[r]} : file'[u] = file[u]
    BY <1>1, <1>9, <2>1, <1>0 DEF DiskType
  <2> QED
    BY <1>1, <1>9, <2>1, <2>2, <1>0 DEF Here, SuccessDue, OfUrl, DiskType
<1>10. ASSUME NEW r \in Request, StartWithAll(r) PROVE SuccessDue'
  <2>1. UNCHANGED <<wiped, step, verdict>>
    BY <1>10 DEF StartWithAll, chunks, running
  <2>2. \A q \in Request : at'[q] = "copy" => at[q] = "copy"
    BY <1>10, <1>0 DEF StartWithAll, Go, AskType
  <2>3. CASE tmp[UrlOf[r]] = NoFile
    BY <1>2, <1>10, <2>1, <2>2, <2>3 DEF StartWithAll
  <2>4. CASE tmp[UrlOf[r]] # NoFile
    BY <1>9, <1>10, <2>1, <2>2, <2>4, KeptSuccess DEF StartWithAll
  <2> QED
    BY <2>3, <2>4
<1>11. ASSUME NEW o \in Request, Finish(o) PROVE SuccessDue'
  <2>1. UNCHANGED <<at, wiped>>
    BY <1>11 DEF Finish
  <2>2. \A p \in Request \ {o} : step'[p] = step[p] /\ verdict'[p] = verdict[p]
    BY <1>11, <1>0 DEF Finish, GiveUp, Executes, RunType, ChunkType
  <2>3. CASE tmp[UrlOf[o]] = NoFile
    <3>1. verdict'[o] = "error" /\ UNCHANGED <<file, local, holds>>
      BY <1>11, <2>3, <1>0 DEF Finish, GiveUp, ChunkType
    <3> QED
      BY <1>2, <2>1, <2>2, <3>1
  <2>4. CASE tmp[UrlOf[o]] # NoFile
    BY <1>9, <1>11, <2>1, <2>2, <2>4, KeptSuccess DEF Finish
  <2> QED
    BY <2>3, <2>4
<1>12. ASSUME NEW o \in Request, FireChunksCallback(o) PROVE SuccessDue'
  <2>1. UNCHANGED <<file, local, holds, wiped>>
    BY <1>12 DEF FireChunksCallback, disk, history
  <2>2. \A p \in Request : step'[p] = "fire" => step[p] = "fire" /\ verdict'[p] = verdict[p]
    BY <1>12, <1>0 DEF FireChunksCallback, Executes, RunType, ChunkType
  <2>3. \A p \in Request : verdict[p] # "copy"
    BY <1>0 DEF ChunkType, Told
  <2>4. \A q \in Request : at'[q] = "copy" => at[q] = "copy"
    BY <1>12, <2>3, <1>0 DEF FireChunksCallback, AskType
  <2> QED
    BY <1>2, <2>1, <2>2, <2>4
<1>13. ASSUME NEW r \in Request, SaveLocalPath(r) PROVE SuccessDue'
  <2>1. UNCHANGED <<file, holds, wiped, step, verdict>>
    BY <1>13 DEF SaveLocalPath, chunks, running, history
  <2>2. \A u \in local' : file[u] # NoFile
    BY <1>13 DEF SaveLocalPath, SuccessDue
  <2>3. \A q \in Request : at'[q] = "copy" => at[q] = "copy"
    BY <1>13, <1>0 DEF SaveLocalPath, Go, AskType
  <2> QED
    BY <2>1, <2>2, <2>3, KeptSuccess DEF SuccessDue, Here
<1>14. ASSUME Restart PROVE SuccessDue'
  <2>1. /\ UNCHANGED <<file, local, wiped>> /\ holds' = {}
        /\ \A r \in Request : at'[r] # "copy" /\ step'[r] = "none"
    BY <1>14 DEF Restart, history, Told
  <2> QED
    BY <1>2, <2>1
<1> QED
  BY <1>3, <1>4, <1>5, <1>6, <1>7, <1>8, <1>10, <1>11, <1>12, <1>13, <1>14
  DEF Next, CurlStep, ImplStep, SaveStep, CoreStep

\* Failures and cancellations are kept in mind, a .tmp goes only where that is
\* noted, and nothing is refused, counted or decided anew without them.
LEMMA KeptError ==
  ASSUME ErrorDue, FileDownloadsAssumption,
         failures > 0 => failures' > 0, cancelled \subseteq cancelled',
         taken \subseteq taken', cancelled_tasks' \subseteq cancelled_tasks \cup cancelled',
         \A u \in Url : Accounted(u) => Accounted(u)',
         \A r \in Request : at'[r] = "metaRefused" =>
           at[r] = "metaRefused" \/ failures' > 0 \/ r \in cancelled',
         \A r \in Request : size'[r] > 0 => size[r] > 0 \/ Accounted(UrlOf[r])',
         \A o \in Request : step'[o] \in {"flight", "finish"} =>
           step[o] \in {"flight", "finish"} \/ Accounted(UrlOf[o])',
         \A o \in Request : step'[o] = "flight" =>
           \/ step[o] = "flight" /\ from'[o] = from[o] /\ downloaded'[o] = downloaded[o]
           \/ from'[o] = downloaded'[o] \/ failures' > 0,
         \A o \in Request : step'[o] = "fire" /\ verdict'[o] = "error" =>
           \/ step[o] = "fire" /\ verdict[o] = "error"
           \/ failures' > 0 \/ UrlOf[o] \in taken'
  PROVE  ErrorDue'
<1>1. \A r \in Request : UrlOf[r] \in Url
  BY DEF FileDownloadsAssumption
<1> QED
  BY <1>1 DEF ErrorDue

LEMMA NextError == TypeInv /\ ErrorDue /\ [Next]_vars => ErrorDue'
<1> SUFFICES ASSUME TypeInv, ErrorDue, [Next]_vars PROVE ErrorDue'
  OBVIOUS
<1> USE FileDownloadsAssumption
<1>0. DiskType /\ AskType /\ ChunkType /\ RunType /\ CountType
  BY DEF TypeInv
<1>1. \A r \in Request : UrlOf[r] \in Url
  OBVIOUS
\* the disk, the counters and the downloads stay
<1>2. ASSUME UNCHANGED <<tmp, taken, step, from, downloaded, verdict>>,
             failures > 0 => failures' > 0, cancelled \subseteq cancelled',
             cancelled_tasks' \subseteq cancelled_tasks \cup cancelled',
             \A r \in Request : at'[r] = "metaRefused" =>
               at[r] = "metaRefused" \/ failures' > 0 \/ r \in cancelled',
             \A r \in Request : size'[r] > 0 => size[r] > 0 \/ Accounted(UrlOf[r])
      PROVE  ErrorDue'
  BY <1>2, KeptError DEF Accounted
<1>3. ASSUME NEW r \in Request,
             \/ Download(r) \/ ClearMeta(r) \/ Cleared(r) \/ ResumeMeta(r) \/ MetaAnswered(r)
             \/ PushStart(r) \/ Copy(r) \/ SaveLocalPath(r)
      PROVE  ErrorDue'
  <2>1. UNCHANGED <<tmp, taken, step, from, downloaded, verdict, failures, cancelled,
                    cancelled_tasks, size>>
    BY <1>3 DEF Download, UpdateFileChunks, ClearMeta, Cleared, ResumeMeta, RequestMeta,
      MetaAnswered, PushStart, Copy, SaveLocalPath, disk, chunks, running, history
  <2>2. \A q \in Request : at'[q] = "metaRefused" => at[q] = "metaRefused"
    BY <1>3, <1>0 DEF Download, UpdateFileChunks, ClearMeta, Cleared, ResumeMeta, RequestMeta,
      MetaAnswered, PushStart, Copy, SaveLocalPath, Go, AskType
  <2> QED
    BY <1>2, <2>1, <2>2
<1>4. ASSUME NEW r \in Request, MetaAnswer(r) PROVE ErrorDue'
  <2>1. /\ UNCHANGED <<tmp, taken, step, from, downloaded, verdict, cancelled, size>>
        /\ cancelled_tasks' \subseteq cancelled_tasks
        /\ failures' = failures \/ failures' = failures + 1
    BY <1>4 DEF MetaAnswer, Fail, disk, chunks, running, history
  <2>2. \A q \in Request : at'[q] = "metaRefused" =>
          at[q] = "metaRefused" \/ failures' > 0 \/ q \in cancelled
    BY <1>4, <1>0 DEF MetaAnswer, Fail, Go, AskType, CountType, ErrorDue
  <2> QED
    BY <1>2, <2>1, <2>2, <1>0 DEF CountType
<1>5. ASSUME NEW r \in Request, MetaReady(r) PROVE ErrorDue'
  <2>1. UNCHANGED <<tmp, taken, step, from, downloaded, verdict, failures, cancelled, cancelled_tasks>>
    BY <1>5 DEF MetaReady, chunks, running
  <2>2. \A q \in Request : at'[q] = "metaRefused" => at[q] = "metaRefused"
    BY <1>5, <1>0 DEF MetaReady, Go, AskType
  <2>3. ASSUME NEW q \in Request, size'[q] > 0 PROVE size[q] > 0 \/ Accounted(UrlOf[q])
    <3>1. \/ size'[q] = size[q]
          \/ q = r /\ \E n \in Unflushed(UrlOf[r]) : size'[r] = SizeOf(tmp[UrlOf[r]]) - n
      BY <1>5, <1>0 DEF MetaReady, AskType
    <3>2. CASE q = r /\ \E n \in Unflushed(UrlOf[r]) : size'[r] = SizeOf(tmp[UrlOf[r]]) - n
      <4>1. tmp[UrlOf[r]] = NoFile => SizeOf(tmp[UrlOf[r]]) = 0
        BY DEF SizeOf
      <4> QED
        BY <2>3, <3>2, <4>1 DEF Unflushed, Accounted
    <3> QED
      BY <2>3, <3>1, <3>2
  <2> QED
    BY <1>2, <2>1, <2>2, <2>3
<1>6. ASSUME NEW r \in Request, CancelFileSharing(r) PROVE ErrorDue'
  <2>1. /\ UNCHANGED <<tmp, taken, step, from, downloaded, verdict, failures, at, size>>
        /\ cancelled' = cancelled \cup {r} /\ cancelled_tasks' \subseteq cancelled_tasks \cup {r}
    BY <1>6 DEF CancelFileSharing, disk, asking, running
  <2> QED
    BY <1>2, <2>1
<1>7. ASSUME BeginResume \/ EndResume \/ UNCHANGED vars PROVE ErrorDue'
  BY <1>2, <1>7 DEF BeginResume, EndResume, vars, disk, asking, chunks, running, history
\* the download of one request goes on, and its .tmp stays or its going is noted
<1>8. ASSUME NEW o \in Request, UNCHANGED <<cancelled, cancelled_tasks>>,
             failures' = failures \/ failures' = failures + 1,
             \A q \in Request : at'[q] = "metaRefused" => at[q] = "metaRefused",
             \A q \in Request : size'[q] > 0 => size[q] > 0,
             taken \subseteq taken', \A u \in Url : Accounted(u) => Accounted(u)',
             \A p \in Request \ {o} :
               /\ step'[p] = step[p] /\ verdict'[p] = verdict[p]
               /\ from'[p] = from[p] /\ downloaded'[p] = downloaded[p],
             step'[o] = "fire" /\ verdict'[o] = "error" => failures' > 0 \/ UrlOf[o] \in taken',
             step'[o] = "finish" => step[o] = "flight",
             step'[o] = "flight" => from'[o] = downloaded'[o] \/ failures' > 0,
             step'[o] = "flight" => Accounted(UrlOf[o])'
      PROVE  ErrorDue'
  <2>1. failures > 0 => failures' > 0
    BY <1>8, <1>0 DEF CountType
  <2>2. \A p \in Request : step'[p] \in {"flight", "finish"} =>
          step[p] \in {"flight", "finish"} \/ Accounted(UrlOf[p])'
    BY <1>8
  <2>3. \A p \in Request : step'[p] = "flight" =>
          \/ step[p] = "flight" /\ from'[p] = from[p] /\ downloaded'[p] = downloaded[p]
          \/ from'[p] = downloaded'[p] \/ failures' > 0
    BY <1>8
  <2>4. \A p \in Request : step'[p] = "fire" /\ verdict'[p] = "error" =>
           \/ step[p] = "fire" /\ verdict[p] = "error"
           \/ failures' > 0 \/ UrlOf[p] \in taken'
    BY <1>8
  <2> QED
    BY <1>8, <2>1, <2>2, <2>3, <2>4, KeptError
<1>9. ASSUME NEW u \in Url, DropTmp(u)
      PROVE  u \in taken' /\ taken \subseteq taken' /\ \A v \in Url : Accounted(v) => Accounted(v)'
  BY <1>9, <1>0 DEF DropTmp, Accounted, DiskType
<1>10. ASSUME NEW r \in Request, StartWithAll(r) PROVE ErrorDue'
  <2>1. UNCHANGED <<cancelled, cancelled_tasks, failures, step, verdict, from, downloaded>>
    BY <1>10 DEF StartWithAll, chunks, running
  <2>2. /\ \A q \in Request : at'[q] = "metaRefused" => at[q] = "metaRefused"
        /\ \A q \in Request : size'[q] > 0 => size[q] > 0
    BY <1>10, <1>0 DEF StartWithAll, Go, AskType
  <2>3. taken \subseteq taken' /\ \A v \in Url : Accounted(v) => Accounted(v)'
    BY <1>1, <1>9, <1>10 DEF StartWithAll, Move, Accounted
  <2> QED
    BY <2>1, <2>2, <2>3, KeptError
<1>11. ASSUME NEW r \in Request, Start(r) PROVE ErrorDue'
  <2>1. UNCHANGED <<cancelled, cancelled_tasks, failures, verdict, from>>
    BY <1>11 DEF Start, UpdateFileChunks
  <2>2. /\ \A q \in Request : at'[q] = "metaRefused" => at[q] = "metaRefused"
        /\ \A q \in Request : size'[q] > 0 => size[q] > 0
    BY <1>11, <1>0 DEF Start, UpdateFileChunks, Go, AskType
  <2>3. taken \subseteq taken' /\ \A v \in Url : Accounted(v) => Accounted(v)'
    BY <1>1, <1>9, <1>11 DEF Start, Accounted
  <2>4. \/ UNCHANGED <<step, downloaded>>
        \/ /\ step'[r] = "check"
           /\ \A p \in Request \ {r} : step'[p] = step[p] /\ downloaded'[p] = downloaded[p]
    BY <1>11, <1>0 DEF Start, UpdateFileChunks, running, ChunkType, RunType
  <2> QED
    BY <2>1, <2>2, <2>3, <2>4, KeptError
<1>12. ASSUME NEW o \in Request, CheckFindsNobody(o) \/ Refuse(o) PROVE ErrorDue'
  <2>1. /\ UNCHANGED <<cancelled, cancelled_tasks, at, size, from, downloaded>>
        /\ failures' = failures \/ failures' = failures + 1
    BY <1>12 DEF CheckFindsNobody, Refuse, Fail, asking
  <2>2. UrlOf[o] \in taken' /\ taken \subseteq taken' /\ \A v \in Url : Accounted(v) => Accounted(v)'
    BY <1>1, <1>9, <1>12 DEF CheckFindsNobody, Refuse
  <2>3. /\ step'[o] = "fire"
        /\ \A p \in Request \ {o} : step'[p] = step[p] /\ verdict'[p] = verdict[p]
    BY <1>12, <1>0 DEF CheckFindsNobody, Refuse, GiveUp, Executes, RunType, ChunkType
  <2> QED
    BY <1>8, <2>1, <2>2, <2>3
<1>13. ASSUME NEW o \in Request, OpenFails(o) \/ Stop(o) \/ ResumeChunks(o) PROVE ErrorDue'
  <2>1. /\ UNCHANGED <<cancelled, cancelled_tasks, at, size, from, downloaded, tmp, taken>>
        /\ failures' = failures \/ failures' = failures + 1
    BY <1>13 DEF OpenFails, Stop, ResumeChunks, Fail, asking, chunks, disk, history
  <2>2. /\ step'[o] = "fire" => failures' > 0
        /\ step'[o] \notin {"flight", "finish"}
        /\ \A p \in Request \ {o} : step'[p] = step[p] /\ verdict'[p] = verdict[p]
    BY <1>13, <1>0 DEF OpenFails, Stop, ResumeChunks, Fail, GiveUp, Executes, chunks, RunType,
      ChunkType, CountType
  <2> QED
    BY <1>8, <2>1, <2>2 DEF Accounted
<1>14. ASSUME NEW o \in Request, AskForBytes(o) PROVE ErrorDue'
  <2>1. /\ UNCHANGED <<cancelled, cancelled_tasks, at, size, downloaded, verdict, taken>>
        /\ failures' = failures \/ failures' = failures + 1
    BY <1>14 DEF AskForBytes, Fail, asking
  <2>2. /\ step'[o] = "flight" /\ \A p \in Request \ {o} : step'[p] = step[p] /\ from'[p] = from[p]
    BY <1>14, <1>0 DEF AskForBytes, Executes, RunType, ChunkType
  <2>3. from'[o] = downloaded[o] \/ failures' > 0
    BY <1>14, <1>0 DEF AskForBytes, Fail, ChunkType, CountType
  <2>4. tmp'[UrlOf[o]] # NoFile /\ \A v \in Url \ {UrlOf[o]} : tmp'[v] = tmp[v]
    <3>1. <<>> # NoFile
      <4>1. <<>> \in Seq(0..Total)
        OBVIOUS
      <4> QED
        BY <4>1
    <3>2. tmp' = IF downloaded[o] > 0 /\ tmp[UrlOf[o]] # NoFile THEN tmp
                 ELSE [tmp EXCEPT ![UrlOf[o]] = <<>>]
      BY <1>14 DEF AskForBytes
    <3> QED
      BY <1>1, <3>1, <3>2, <1>0 DEF DiskType
  <2>5. Accounted(UrlOf[o])' /\ \A v \in Url : Accounted(v) => Accounted(v)'
    BY <2>1, <2>4 DEF Accounted
  <2> QED
    BY <1>8, <2>1, <2>2, <2>3, <2>5
<1>15. ASSUME NEW o \in Request, ReceiveByte(o) PROVE ErrorDue'
  <2>1. UNCHANGED <<cancelled, cancelled_tasks, at, size, failures, step, from, downloaded,
                    verdict, taken>>
    BY <1>15 DEF ReceiveByte, asking, running, history
  <2>2. \A v \in Url : tmp[v] # NoFile => tmp'[v] # NoFile
    <3>1. tmp[UrlOf[o]] # NoFile => Append(tmp[UrlOf[o]], from[o] + got[o] + 1) # NoFile
      <4>1. from[o] + got[o] + 1 \in 0..Total
        BY <1>15, <1>0 DEF ReceiveByte, ChunkType
      <4>2. tmp[UrlOf[o]] # NoFile => tmp[UrlOf[o]] \in Seq(0..Total)
        BY <1>1, <1>0 DEF DiskType, Content
      <4>3. \A c \in Seq(0..Total), n \in 0..Total : Append(c, n) \in Seq(0..Total)
        OBVIOUS
      <4> QED
        BY <4>1, <4>2, <4>3
    <3> QED
      BY <1>1, <1>15, <3>1, <1>0 DEF ReceiveByte, Write, DiskType
  <2> QED
    BY <2>1, <2>2, KeptError DEF Accounted
<1>16. ASSUME NEW o \in Request, ChunkComes(o) PROVE ErrorDue'
  <2>1. /\ UNCHANGED <<cancelled, cancelled_tasks, at, size, failures, from, tmp, taken>>
        /\ step[o] = "flight"
    BY <1>16 DEF ChunkComes, asking, disk, history
  <2>2. /\ step'[o] # "flight"
        /\ \A p \in Request \ {o} :
             step'[p] = step[p] /\ verdict'[p] = verdict[p] /\ downloaded'[p] = downloaded[p]
    BY <1>16, <1>0 DEF ChunkComes, GiveUp, Executes, RunType, ChunkType
  <2>3. step'[o] = "fire" => failures > 0
    <3>1. step'[o] = "fire" => downloaded[o] + got[o] > Total
      BY <1>16, <1>0 DEF ChunkComes, GiveUp, Executes, TooManyCame, RunType
    <3>2. from[o] + got[o] <= Total
      BY <1>16, <1>0 DEF ChunkComes, ChunkType
    <3>3. from[o] = downloaded[o] \/ failures > 0
      BY <2>1 DEF ErrorDue
    <3> QED
      BY <3>1, <3>2, <3>3, <1>0 DEF ChunkType
  <2> QED
    BY <1>8, <2>1, <2>2, <2>3 DEF Accounted
<1>17. ASSUME NEW o \in Request, Break(o) \/ Stopped(o) PROVE ErrorDue'
  <2>1. /\ UNCHANGED <<cancelled, cancelled_tasks, at, size, from, downloaded>>
        /\ failures' = failures \/ failures' = failures + 1
        /\ ChunkFails(o)
    BY <1>17 DEF Break, Stopped, Fail, asking
  <2>2. /\ step'[o] = "fire" => verdict'[o] = "cancelled"
        /\ step'[o] \notin {"flight", "finish"}
        /\ \A p \in Request \ {o} : step'[p] = step[p] /\ verdict'[p] = verdict[p]
    BY <2>1, <1>0 DEF ChunkFails, Suspend, GiveUp, Executes, RunType, ChunkType
  <2>3. taken \subseteq taken' /\ \A v \in Url : Accounted(v) => Accounted(v)'
    <3>1. CASE active_seqs[o] = {}
      BY <1>1, <1>9, <2>1, <3>1 DEF ChunkFails
    <3>2. CASE active_seqs[o] # {}
      <4>1. UNCHANGED taken
        BY <2>1, <3>2 DEF ChunkFails
      <4>2. PICK garbage \in {<<>>, <<0>>} :
              tmp' = IF tmp[UrlOf[o]] = NoFile THEN tmp
                     ELSE [tmp EXCEPT ![UrlOf[o]] = @ \o garbage]
        BY <2>1, <3>2 DEF ChunkFails
      <4>3. tmp[UrlOf[o]] # NoFile => tmp[UrlOf[o]] \o garbage # NoFile
        <5>1. \A c \in Seq(0..Total) : c \o <<>> \in Seq(0..Total) /\ c \o <<0>> \in Seq(0..Total)
          OBVIOUS
        <5> QED
          BY <1>1, <5>1, <1>0 DEF DiskType, Content
      <4>4. \A v \in Url : tmp[v] # NoFile => tmp'[v] # NoFile
        BY <1>1, <4>2, <4>3, <1>0 DEF DiskType
      <4> QED
        BY <4>1, <4>4 DEF Accounted
    <3> QED
      BY <3>1, <3>2
  <2> QED
    BY <1>8, <2>1, <2>2, <2>3
<1>18. ASSUME NEW o \in Request, Finish(o) PROVE ErrorDue'
  <2>1. UNCHANGED <<cancelled, cancelled_tasks, at, size, from, downloaded, failures>>
        /\ step[o] = "finish"
    BY <1>18 DEF Finish
  <2>2. /\ step'[o] = "fire"
        /\ \A p \in Request \ {o} : step'[p] = step[p] /\ verdict'[p] = verdict[p]
    BY <1>18, <1>0 DEF Finish, GiveUp, Executes, RunType, ChunkType
  <2>3. CASE tmp[UrlOf[o]] = NoFile
    <3>1. UrlOf[o] \in taken /\ UNCHANGED <<tmp, taken>>
      BY <1>18, <2>1, <2>3 DEF Finish, ErrorDue, Accounted
    <3> QED
      BY <1>8, <2>1, <2>2, <3>1 DEF Accounted
  <2>4. CASE tmp[UrlOf[o]] # NoFile
    <3>1. DropTmp(UrlOf[o]) /\ verdict'[o] = "success"
      BY <1>18, <2>4, <1>0 DEF Finish, Move, GiveUp, ChunkType
    <3>2. taken \subseteq taken' /\ \A v \in Url : Accounted(v) => Accounted(v)'
      BY <1>1, <1>9, <3>1
    <3> QED
      BY <1>8, <2>1, <2>2, <3>1, <3>2
  <2> QED
    BY <2>3, <2>4
<1>19. ASSUME NEW o \in Request, FireChunksCallback(o) PROVE ErrorDue'
  <2>1. UNCHANGED <<cancelled, cancelled_tasks, size, failures, tmp, taken>>
    BY <1>19 DEF FireChunksCallback, disk, history
  <2>2. /\ step'[o] = "none"
        /\ \A p \in Request \ {o} :
             /\ step'[p] = step[p] /\ verdict'[p] = verdict[p]
             /\ from'[p] = from[p] /\ downloaded'[p] = downloaded[p]
    BY <1>19, <1>0 DEF FireChunksCallback, Executes, RunType, ChunkType
  <2>3. \A p \in Request : verdict[p] # "metaRefused"
    BY <1>0 DEF ChunkType, Told
  <2>4. \A q \in Request : at'[q] = "metaRefused" => at[q] = "metaRefused"
    BY <1>19, <2>3, <1>0 DEF FireChunksCallback, AskType
  <2> QED
    BY <1>8, <2>1, <2>2, <2>4 DEF Accounted
<1>20. ASSUME Restart PROVE ErrorDue'
  <2>1. /\ UNCHANGED <<failures, cancelled, taken>> /\ cancelled_tasks' = {}
        /\ \A r \in Request : at'[r] # "metaRefused" /\ size'[r] = 0 /\ step'[r] = "none"
    BY <1>20 DEF Restart, history, Told
  <2> QED
    BY <2>1 DEF ErrorDue
<1> QED
  BY <1>3, <1>4, <1>5, <1>6, <1>7, <1>10, <1>11, <1>12, <1>13, <1>14, <1>15, <1>16, <1>17, <1>18,
     <1>19, <1>20
  DEF Next, CurlStep, ImplStep, SaveStep, CoreStep

TellsDue ==
  \A r \in Request :
    /\ Answers(r, "cancelled") => r \in cancelled \cup late
    /\ Answers(r, "success") => file'[UrlOf[r]] # NoFile \/ UrlOf[r] \in wiped
    /\ Answers(r, "error") => failures > 0 \/ r \in cancelled \/ UrlOf[r] \in taken

LEMMA NextTells ==
  TypeInv /\ OneInv /\ CancelDue /\ SuccessDue /\ ErrorDue /\ [Next]_vars => TellsDue
<1> SUFFICES ASSUME TypeInv, OneInv, CancelDue, SuccessDue, ErrorDue, [Next]_vars PROVE TellsDue
  OBVIOUS
<1> USE FileDownloadsAssumption
<1>0. DiskType /\ AskType /\ ChunkType
  BY DEF TypeInv
<1>1. ASSUME \A q \in Request : at'[q] = at[q] \/ at'[q] \notin {"cancelled", "success", "error"}
      PROVE  TellsDue
  BY <1>1 DEF TellsDue, Answers
<1>2. ASSUME NEW r \in Request,
             \/ Download(r) \/ ClearMeta(r) \/ Cleared(r) \/ ResumeMeta(r) \/ MetaAnswer(r)
             \/ PushStart(r) \/ Start(r) \/ SaveLocalPath(r)
      PROVE  TellsDue
  <2>1. \A q \in Request : at'[q] = at[q] \/ at'[q] \notin {"cancelled", "success", "error"}
    BY <1>2, <1>0 DEF Download, UpdateFileChunks, ClearMeta, Cleared, ResumeMeta, RequestMeta,
      MetaAnswer, PushStart, Start, SaveLocalPath, Go, AskType
  <2> QED
    BY <1>1, <2>1
<1>3. ASSUME NEW r \in Request,
             \/ CancelFileSharing(r) \/ CheckFindsNobody(r) \/ OpenFails(r) \/ AskForBytes(r)
             \/ ReceiveByte(r) \/ ChunkComes(r) \/ Break(r) \/ Refuse(r) \/ Stop(r) \/ Stopped(r)
             \/ Finish(r) \/ ResumeChunks(r)
      PROVE  TellsDue
  <2>1. UNCHANGED at
    BY <1>3 DEF CancelFileSharing, CheckFindsNobody, OpenFails, AskForBytes, ReceiveByte,
      ChunkComes,
      Break, Refuse, Stop, Stopped, Finish, ResumeChunks, asking
  <2> QED
    BY <1>1, <2>1
<1>4. ASSUME BeginResume \/ EndResume \/ UNCHANGED vars PROVE TellsDue
  BY <1>1, <1>4 DEF BeginResume, EndResume, vars, asking
<1>5. ASSUME Restart PROVE TellsDue
  <2>1. \A q \in Request : at'[q] = at[q] \/ at'[q] = "dead"
    BY <1>5 DEF Restart
  <2> QED
    BY <1>1, <2>1
<1>6. ASSUME NEW r \in Request, MetaAnswered(r) PROVE TellsDue
  <2>1. \A q \in Request :
          \/ at'[q] = at[q] \/ at'[q] \notin {"cancelled", "success", "error"}
          \/ q = r /\ at[r] = "metaRefused" /\ at'[r] = "error"
    BY <1>6, <1>0 DEF MetaAnswered, Go, AskType
  <2> QED
    BY <2>1 DEF TellsDue, Answers, ErrorDue
<1>7. ASSUME NEW r \in Request, MetaReady(r) PROVE TellsDue
  <2>1. \A q \in Request :
          \/ at'[q] = at[q] \/ at'[q] \notin {"cancelled", "success", "error"}
          \/ q = r /\ r \in holds /\ at'[r] = "success" /\ UNCHANGED file
    BY <1>7, <1>0 DEF MetaReady, IsSameFile, Go, AskType
  <2> QED
    BY <2>1 DEF TellsDue, Answers, SuccessDue
<1>8. ASSUME NEW r \in Request, Copy(r) PROVE TellsDue
  <2>1. /\ UNCHANGED file /\ at[r] = "copy" /\ at'[r] = "success"
        /\ \A q \in Request \ {r} : at'[q] = at[q]
    BY <1>8, <1>0 DEF Copy, Go, disk, AskType
  <2> QED
    BY <2>1 DEF TellsDue, Answers, SuccessDue, Here
<1>9. ASSUME NEW r \in Request, StartWithAll(r) PROVE TellsDue
  <2>1. UrlOf[r] \in Url /\ \A q \in Request \ {r} : at'[q] = at[q]
    BY <1>9, <1>0 DEF StartWithAll, Go, AskType
  <2>2. CASE tmp[UrlOf[r]] # NoFile
    <3>1. at'[r] = "success" /\ file'[UrlOf[r]] # NoFile
      BY <1>9, <2>1, <2>2, <1>0 DEF StartWithAll, Move, Replace, Go, AskType, DiskType
    <3> QED
      BY <2>1, <3>1 DEF TellsDue, Answers
  <2>3. CASE tmp[UrlOf[r]] = NoFile
    <3>1. at'[r] = "error" /\ size[r] > 0
      BY <1>9, <2>3, <1>0 DEF StartWithAll, Go, AskType
    <3> QED
      BY <2>1, <2>3, <3>1 DEF TellsDue, Answers, ErrorDue, Accounted
  <2> QED
    BY <2>2, <2>3
<1>10. ASSUME NEW o \in Request, FireChunksCallback(o) PROVE TellsDue
  <2>1. in_progress[UrlOf[o]] = o /\ step[o] = "fire" /\ UNCHANGED file
    BY <1>10 DEF FireChunksCallback, OneInv, disk
  <2>2. \A q \in Request : at'[q] = IF q \in handlers[o] THEN verdict[o] ELSE at[q]
    BY <1>10, <2>1 DEF FireChunksCallback
  <2>3. ASSUME NEW q \in Request, q \in handlers[o] PROVE UrlOf[q] = UrlOf[o]
    <3>1. in_progress[UrlOf[q]] = o /\ UrlOf[q] \in Url
      BY <2>3 DEF OneInv
    <3> QED
      BY <3>1 DEF OneInv
  <2>4. ASSUME NEW q \in Request, q \in handlers[o]
        PROVE  /\ verdict[o] = "cancelled" => q \in cancelled \cup late
               /\ verdict[o] = "success" => file[UrlOf[q]] # NoFile \/ UrlOf[q] \in wiped
               /\ verdict[o] = "error" => failures > 0 \/ UrlOf[q] \in taken
    BY <2>1, <2>3, <2>4 DEF CancelDue, Excused, SuccessDue, Here, ErrorDue
  <2> QED
    BY <2>1, <2>2, <2>4 DEF TellsDue, Answers
<1> QED
  BY <1>2, <1>3, <1>4, <1>5, <1>6, <1>7, <1>8, <1>9, <1>10
  DEF Next, CurlStep, ImplStep, SaveStep, CoreStep

\* What a request is told is due, whatever the threads of the core, of the disk and
\* of curl do: "cancelled" only to who cancelled or joined a download that was over,
\* a success only with the file in its place or deleted for another request, an
\* error only when something failed, the user cancelled, or another request took
\* the .tmp away (fire_chunks_callback and the jobs that answer without a download).
THEOREM EveryVerdictIsDue == Spec => VerdictIsDue
<1>1. Init => CancelDue /\ SuccessDue /\ ErrorDue
  BY DEF Init, CancelDue, SuccessDue, ErrorDue
<1>2. TypeInv /\ OneInv /\ CancelDue /\ [Next]_vars => CancelDue'
  BY NextCancel
<1>3. TypeInv /\ SuccessDue /\ [Next]_vars => SuccessDue'
  BY NextSuccess
<1>4. TypeInv /\ ErrorDue /\ [Next]_vars => ErrorDue'
  BY NextError
<1>5. TypeInv /\ OneInv /\ CancelDue /\ SuccessDue /\ ErrorDue /\ [Next]_vars => TellsDue
  BY NextTells
<1>6. vars' = vars => TellsDue
  BY DEF vars, asking, TellsDue, Answers
<1> QED
  BY <1>1, <1>2, <1>3, <1>4, <1>5, <1>6, TypeInvariant, OneInvariant, PTL
  DEF Spec, VerdictIsDue, TellsDue
=============================================================================
