---------------------------- MODULE MCSendThread ------------------------------
(* SendThread on small instances.                                           *)
EXTENDS SendThread

CONSTANTS h1, h2, m1, m2, a1, d1,
          getHistory, delMsgBatch, sendIM, getIdInfo

\* Two ordinary packets, two messages, an asynchronous packet.
MixedPackets == {h1, h2, m1, m2, a1}
MixedMethods == {getHistory, delMsgBatch, sendIM, getIdInfo}
MixedMethodOf == (h1 :> getHistory) @@ (h2 :> delMsgBatch) @@ (m1 :> sendIM)
                 @@ (m2 :> sendIM) @@ (a1 :> getIdInfo)
MixedPriority == (h1 :> 2) @@ (h2 :> 2) @@ (m1 :> 1) @@ (m2 :> 1) @@ (a1 :> 45)
MixedPartial == {m1, m2}

\* The two messages differ in nothing but their names.
MessageSymmetry == Permutations({m1, m2})

\* Ordinary packets only.
SyncPackets == {h1, h2, d1}
SyncMethods == {getHistory, delMsgBatch}
SyncMethodOf == (h1 :> getHistory) @@ (h2 :> getHistory) @@ (d1 :> delMsgBatch)
SyncPriority == (h1 :> 2) @@ (h2 :> 2) @@ (d1 :> 1)
===============================================================================
