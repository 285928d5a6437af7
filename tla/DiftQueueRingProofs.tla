------------------------ MODULE DiftQueueRingProofs ------------------------
(***************************************************************************)
(* The initial states satisfy the inductive invariant of the record queue, *)
(* and every step preserves its layers TypeOK, Control, Startup and Ring,  *)
(* for every number of chunks, size of chunk and length of run.            *)
(***************************************************************************)
EXTENDS DiftQueueInv, TLAPS

USE QueueAssumption

(* The index arithmetic of head and tail, without the remainder.           *)
LEMMA NextChunkValue ==
    ASSUME NEW i \in Chunks
    PROVE  NextChunk(i) = IF i = Q - 1 THEN 0 ELSE i + 1
<1>1. CASE i = Q - 1
  <2>1. NextChunk(i) = Q % Q  BY <1>1 DEF NextChunk, Chunks
  <2>2. Q % Q = 0  OBVIOUS
  <2>. QED  BY <1>1, <2>1, <2>2
<1>2. CASE i # Q - 1
  <2>1. i + 1 \in 0 .. Q - 1  BY <1>2 DEF Chunks
  <2>2. (i + 1) % Q = i + 1  BY <2>1
  <2>. QED  BY <1>2, <2>2 DEF NextChunk
<1>. QED  BY <1>1, <1>2

(* The same for the offset of enqptr and deqptr within a chunk.            *)
LEMMA NextSlotValue ==
    ASSUME NEW k \in Slots
    PROVE  (k + 1) % C = IF k = C - 1 THEN 0 ELSE k + 1
<1>1. CASE k = C - 1
  <2>1. C % C = 0  OBVIOUS
  <2>. QED  BY <1>1, <2>1 DEF Slots
<1>2. CASE k # C - 1
  <2>1. k + 1 \in 0 .. C - 1  BY <1>2 DEF Slots
  <2>2. (k + 1) % C = k + 1  BY <2>1
  <2>. QED  BY <1>2, <2>2
<1>. QED  BY <1>1, <1>2

(* The ring has no chunk that is its own successor, and no two chunks with *)
(* the same successor.                                                     *)
LEMMA NextChunkInjective ==
    /\ \A i \in Chunks : NextChunk(i) \in Chunks /\ NextChunk(i) # i
    /\ \A i, j \in Chunks : NextChunk(i) = NextChunk(j) => i = j
<1>1. \A i \in Chunks : NextChunk(i) = IF i = Q - 1 THEN 0 ELSE i + 1
  BY NextChunkValue
<1>. QED  BY <1>1 DEF Chunks

-----------------------------------------------------------------------------
(* Every variable keeps its type.                                          *)

(* enqueue_dift_record stores a record and keeps the types.                *)
LEMMA StoreType ==
    ASSUME TypeOK, NEW kind \in Kinds, NEW next \in RunPoints,
           Store(kind, next), insync' \in BOOLEAN
    PROVE  TypeOK'
<1>1. enq_off' \in Slots  BY NextSlotValue DEF TypeOK, Store, Slots
<1>2. [n |-> sent, kind |-> kind] \in Record  BY DEF TypeOK, Record
<1>3. q_records' \in [Chunks -> [Slots -> Record]]
  BY <1>2 DEF TypeOK, Store
<1>4. ppc' \in RunPoints \cup ChunkPoints /\ ret' \in RunPoints
  BY DEF TypeOK, Store, RunPoints, ChunkPoints
<1>5. sent' \in Nat  BY DEF TypeOK, Store
<1>. QED
  BY <1>1, <1>3, <1>4, <1>5 DEF TypeOK, Store, switch, consumer

(* dift_start sets every variable to a value of its type.                  *)
LEMMA TypeInit == Init => TypeOK
<1>. SUFFICES ASSUME Init PROVE TypeOK  OBVIOUS
<1>1. [n |-> 0, kind |-> "data"] \in Record  BY DEF Record, Kinds
<1>2. /\ q_chunks_flag \in [Chunks -> Flags]
      /\ q_records \in [Chunks -> [Slots -> Record]]
      /\ data \in Record
  BY <1>1 DEF Init, Flags
<1>3. {0, 1, Q - 1} \subseteq Chunks /\ 0 \in Slots  BY DEF Chunks, Slots
<1>. QED
  BY ZenonT(120), <1>2, <1>3 DEF Init, TypeOK, RunPoints, ChunkPoints, ConsumerPoints

(* Every step keeps the types.                                             *)
LEMMA TypeNext == TypeOK /\ [Next]_vars => TypeOK'
<1>. SUFFICES ASSUME TypeOK, [Next]_vars PROVE TypeOK'  OBVIOUS
<1>. USE DEF switch, producer, consumer, history
<1>0. NextChunk(head) \in Chunks /\ NextChunk(tail) \in Chunks
  BY NextChunkInjective DEF TypeOK
<1>1. CASE UNCHANGED vars  BY <1>1 DEF TypeOK, vars
<1>2. CASE BlockRecord
  BY <1>2, StoreType DEF BlockRecord, TypeOK, Kinds, RunPoints
<1>3. CASE DiskRecord
  BY <1>3, StoreType DEF DiskRecord, TypeOK, Kinds, RunPoints
<1>4. CASE TbBegin
  BY <1>4, StoreType DEF TbBegin, TypeOK, Kinds, RunPoints
<1>5. CASE SyncBegin
  BY SMTT(120), <1>5, StoreType DEF SyncBegin, TypeOK, Kinds, RunPoints
<1>6. CASE EnqueueLoc
  BY <1>6, StoreType DEF EnqueueLoc, TypeOK, Kinds, RunPoints
<1>7. CASE EnqueueSync
  BY <1>7, StoreType DEF EnqueueSync, TypeOK, Kinds, RunPoints
<1>8. CASE Kick  BY <1>8 DEF Kick, TypeOK, RunPoints, ChunkPoints
<1>9. CASE Publish  BY <1>9 DEF Publish, TypeOK, ChunkPoints, Flags
<1>10. CASE Spin  BY <1>10 DEF Spin, TypeOK, ChunkPoints
<1>11. CASE Claim
  <2>1. /\ q_chunks_flag' \in [Chunks -> Flags]
        /\ first' \in [Chunks -> Nat]
    BY <1>11 DEF Claim, TypeOK, Flags
  <2>2. enq_off' \in Slots /\ ppc' \in RunPoints
    BY <1>11 DEF Claim, TypeOK, Slots
  <2>. QED  BY <1>11, <1>0, <2>1, <2>2 DEF Claim, TypeOK
<1>12. CASE Wait  BY <1>12 DEF Wait, TypeOK, RunPoints
<1>13. CASE Reset  BY ZenonT(120), <1>13 DEF Reset, TypeOK, RunPoints
<1>14. CASE Switch  BY <1>14 DEF Switch, TypeOK
<1>15. CASE Quiet  BY <1>15 DEF Quiet, TypeOK, vars
<1>16. CASE Dequeue  BY <1>16 DEF Dequeue, TypeOK, ConsumerPoints
<1>17. CASE Release  BY <1>17 DEF Release, TypeOK, ConsumerPoints, Flags
<1>18. CASE Await  BY <1>18 DEF Await, TypeOK, ConsumerPoints
<1>19. CASE Take
  <2>1. q_chunks_flag' \in [Chunks -> Flags]  BY <1>19 DEF Take, TypeOK, Flags
  <2>2. deq_off' \in Slots /\ cpc' \in ConsumerPoints
    BY <1>19 DEF Take, Slots, ConsumerPoints
  <2>. QED  BY <1>19, <1>0, <2>1, <2>2 DEF Take, TypeOK
<1>20. CASE Read
  <2>1. deq_off' \in Slots  BY <1>20, NextSlotValue DEF Read, TypeOK, Slots
  <2>2. data' \in Record  BY <1>20 DEF Read, TypeOK
  <2>. QED  BY <1>20, <2>1, <2>2 DEF Read, TypeOK, ConsumerPoints
<1>21. CASE HandleLoc
  <2>1. in_block' \in BOOLEAN /\ got' = got + 1 /\ cpc' = "dequeue"
    BY <1>21, Zenon DEF HandleLoc
  <2>2. UNCHANGED <<q_chunks_flag, q_records, producer, switch, tail,
                    prev_tail, deq_chunk, deq_off, data, ok_signal, sent,
                    first, upto>>
    BY <1>21, Zenon DEF HandleLoc
  <2>. QED  BY <2>1, <2>2 DEF TypeOK, ConsumerPoints
<1>22. CASE HandleSync
  BY <1>22 DEF HandleSync, TypeOK, ConsumerPoints, Slots
<1>23. CASE HandleOther  BY <1>23 DEF HandleOther, TypeOK, ConsumerPoints
<1>. QED
  BY <1>1, <1>2, <1>3, <1>4, <1>5, <1>6, <1>7, <1>8, <1>9, <1>10, <1>11,
     <1>12, <1>13, <1>14, <1>15, <1>16, <1>17, <1>18, <1>19, <1>20, <1>21,
     <1>22, <1>23
  DEF Next, Emulator, Routine, Analyser

(* Type correctness of the queue's variables.                              *)
THEOREM TypeCorrect == Spec => []TypeOK
BY TypeInit, TypeNext, PTL DEF Spec

-----------------------------------------------------------------------------
(* The layers of the inductive invariant hold initially.                   *)

(* The program counters agree with the indices at the start.               *)
LEMMA ControlInit == Init => Control /\ Startup
<1>. SUFFICES ASSUME Init PROVE Control /\ Startup  OBVIOUS
<1>1. NextChunk(0) = 1 /\ NextChunk(Q - 1) = 0  BY NextChunkValue DEF Chunks
<1>2. Control
  BY <1>1 DEF Init, Control, Point, Between, ChunkPoints, NotStarted
<1>3. Startup
  BY DEF Init, Startup, BlocksHaveCodes, ChunkPoints, Point
<1>. QED  BY <1>2, <1>3

(* At the start one chunk is being filled and all others are free.         *)
LEMMA RingInit == Init => Ring
<1>. SUFFICES ASSUME Init PROVE Ring  OBVIOUS
<1>1. \A i \in Chunks : q_chunks_flag[i] = IF i = 0 THEN "FILLING" ELSE "AVAILABLE"
  BY DEF Init
<1>2. NotStarted /\ ~ ConsumerHolds /\ ~ Between
  BY DEF Init, NotStarted, ConsumerHolds, Between
<1>3. {0, 1, Q - 1} \subseteq Chunks /\ Q - 1 # 0  BY DEF Chunks
<1>. QED  BY <1>1, <1>2, <1>3, NextChunkInjective DEF Init, Ring

(* At the start no record is stored, framed or waited for.                 *)
LEMMA StreamInit == Init => Stream /\ Frames /\ Syncs
<1>. SUFFICES ASSUME Init PROVE Stream /\ Frames /\ Syncs  OBVIOUS
<1>1. \A i \in Chunks : ~ Handed(i) /\ q_chunks_flag[i] # "FILLED"
  BY DEF Init, Handed
<1>2. ~ ConsumerHolds /\ ~ Between /\ Fill = 0 /\ Point = "run" /\ ~ Awaiting
  BY DEF Init, NotStarted, ConsumerHolds, Between, Fill, Point, ChunkPoints,
         Awaiting
<1>3. TailReady  BY <1>2 DEF Init, TailReady
<1>4. Stream
  BY <1>1, <1>2, <1>3 DEF Init, Stream, Filling, TailFirst, Chunks, Slots
<1>5. Frames
  BY <1>1, <1>2, <1>3 DEF Init, Frames, ChunksFramed, ChunksLinked, HeadFramed,
      ReaderFramed, TailContinues, Continues, Framed
<1>6. Syncs
  BY SMTT(120), <1>1, <1>2 DEF Init, Syncs, Slots
<1>. QED  BY <1>4, <1>5, <1>6

-----------------------------------------------------------------------------
(* Control.                                                                *)

(* Every step keeps the program counters in step with the indices.         *)
LEMMA ControlNext == IInv /\ [Next]_vars => Control'
<1>. SUFFICES ASSUME IInv, [Next]_vars PROVE Control'  OBVIOUS
<1>. USE DEF switch, producer, consumer, history, IInv, TypeOK, Control,
             Point, Between, ChunkPoints, NotStarted
<1>0. (enq_off + 1) % C = IF enq_off = C - 1 THEN 0 ELSE enq_off + 1
  BY NextSlotValue
<1>1. CASE UNCHANGED vars  BY <1>1 DEF vars
<1>2. CASE BlockRecord  BY <1>2 DEF BlockRecord, Store
<1>3. CASE DiskRecord  BY <1>3 DEF DiskRecord, Store
<1>4. CASE TbBegin  BY <1>4 DEF TbBegin, Store
<1>5. CASE SyncBegin  BY <1>5 DEF SyncBegin, Store
<1>6. CASE EnqueueLoc  BY <1>6 DEF EnqueueLoc, Store
<1>7. CASE EnqueueSync  BY <1>7 DEF EnqueueSync, Store
<1>8. CASE Kick  BY <1>8 DEF Kick
<1>9. CASE Publish  BY <1>9 DEF Publish
<1>10. CASE Spin  BY <1>10 DEF Spin
<1>11. CASE Claim  BY <1>11 DEF Claim
<1>12. CASE Wait  BY <1>12 DEF Wait
<1>13. CASE Reset  BY <1>13 DEF Reset
<1>14. CASE Switch  BY <1>14 DEF Switch
<1>15. CASE Quiet  BY <1>15 DEF Quiet, vars
<1>16. CASE Dequeue  BY <1>16 DEF Dequeue, Startup
<1>17. CASE Release  BY <1>17 DEF Release
<1>18. CASE Await  BY <1>18 DEF Await
<1>19. CASE Take  BY <1>19 DEF Take
<1>20. CASE Read  BY <1>20 DEF Read
<1>21. CASE HandleLoc  BY <1>21 DEF HandleLoc
<1>22. CASE HandleSync  BY <1>22 DEF HandleSync
<1>23. CASE HandleOther  BY <1>23 DEF HandleOther
<1>. QED
  BY ZenonT(120), <1>1, <1>2, <1>3, <1>4, <1>5, <1>6, <1>7, <1>8, <1>9, <1>10, <1>11,
     <1>12, <1>13, <1>14, <1>15, <1>16, <1>17, <1>18, <1>19, <1>20, <1>21,
     <1>22, <1>23
  DEF Next, Emulator, Routine, Analyser

-----------------------------------------------------------------------------
(* Startup: chunk Q - 1 stays clear until the analysis thread has stored   *)
(* its first AVAILABLE there.                                              *)

(* Until its first chunk is taken, the analysis thread owns none.          *)
LEMMA StartupNext == IInv /\ [Next]_vars => Startup'
<1>. SUFFICES ASSUME IInv, [Next]_vars, NotStarted' PROVE Startup'
  BY DEF Startup
<1>. USE DEF switch, producer, consumer, history, IInv, TypeOK,
             ChunkPoints, BlocksHaveCodes, Point
<1>0. /\ (enq_off + 1) % C = IF enq_off = C - 1 THEN 0 ELSE enq_off + 1
      /\ NextChunk(head) = IF head = Q - 1 THEN 0 ELSE head + 1
      /\ enq_off \in 0 .. C - 1 /\ prev_head \in 0 .. Q - 1
  BY NextSlotValue, NextChunkValue DEF Slots, Chunks
<1>1. CASE UNCHANGED vars  BY <1>1 DEF vars, Startup, NotStarted
<1>2. CASE BlockRecord  BY <1>2 DEF BlockRecord, Store, Startup, NotStarted
<1>3. CASE DiskRecord
  BY SMTT(120), <1>3, <1>0 DEF DiskRecord, Store, Startup, NotStarted
<1>4. CASE TbBegin  BY <1>4 DEF TbBegin, Store, Startup, NotStarted
<1>5. CASE SyncBegin
  BY SMTT(120), <1>5, <1>0 DEF SyncBegin, Store, Startup, NotStarted
<1>6. CASE EnqueueLoc
  BY SMTT(120), <1>6, <1>0 DEF EnqueueLoc, Store, Startup, NotStarted
<1>7. CASE EnqueueSync
  BY SMTT(120), <1>7, <1>0 DEF EnqueueSync, Store, Startup, NotStarted
<1>8. CASE Kick  BY SMTT(120), <1>8, <1>0 DEF Kick, Startup, NotStarted
<1>9. CASE Publish  BY <1>9 DEF Publish, Startup, NotStarted
<1>10. CASE Spin  BY <1>10 DEF Spin, Startup, NotStarted
<1>11. CASE Claim
  <2>1. NotStarted  BY <1>11 DEF Claim, NotStarted
  <2>2. head = prev_head + 1 /\ head < Q - 1
    <3>1. head = prev_head + 1 /\ prev_head <= EarlyChunks + 1
      BY <1>11, <2>1 DEF Claim, Startup
    <3>. QED  BY <1>0, <3>1
  <2>3. /\ prev_head' = prev_head + 1 /\ head' = prev_head' + 1
        /\ ppc' = ret /\ enq_off' = 0 /\ insync' = insync
    BY <1>11, <2>2, <1>0 DEF Claim
  <2>4. UNCHANGED <<tail, prev_tail, deq_off, in_block, ok_signal, switch>>
    BY <1>11 DEF Claim
  <2>5. /\ prev_head <= EarlyChunks + 1
        /\ ret # "wait" => prev_head <= EarlyChunks
        /\ ret = "run" => prev_head < EarlyChunks
        /\ ret \notin ChunkPoints
    BY <1>11, <2>1 DEF Claim, Startup, RunPoints
  <2>. QED  BY SMTT(120), <2>1, <2>3, <2>4, <2>5, <1>0, <1>11 DEF Startup, Claim
<1>12. CASE Wait  BY <1>12 DEF Wait, Startup, NotStarted
<1>13. CASE Reset  BY <1>13 DEF Reset, Startup, NotStarted, Syncs
<1>14. CASE Switch  BY <1>14 DEF Switch, Startup, NotStarted
<1>15. CASE Quiet  BY <1>15 DEF Quiet, vars, Startup, NotStarted
<1>16. CASE Dequeue  BY <1>16 DEF Dequeue, Startup, NotStarted
<1>17. CASE Release \/ Await \/ Take \/ Read
  BY <1>17 DEF Release, Await, Take, Read, NotStarted
<1>18. CASE HandleLoc  BY <1>18 DEF HandleLoc, NotStarted
<1>19. CASE HandleSync  BY <1>19 DEF HandleSync, NotStarted
<1>20. CASE HandleOther  BY <1>20 DEF HandleOther, NotStarted
<1>. QED
  BY <1>1, <1>2, <1>3, <1>4, <1>5, <1>6, <1>7, <1>8, <1>9, <1>10, <1>11,
     <1>12, <1>13, <1>14, <1>15, <1>16, <1>17, <1>18, <1>19, <1>20
  DEF Next, Emulator, Routine, Analyser

-----------------------------------------------------------------------------
(* Ring: the flags of the chunks.                                          *)

(* A step that leaves the indices, the flags and the ownership of the      *)
(* chunks alone preserves the description of the ring.                     *)
LEMMA RingFrame ==
    ASSUME Ring, UNCHANGED <<q_chunks_flag, head, prev_head, tail, prev_tail>>,
           Between' <=> Between, ConsumerHolds' <=> ConsumerHolds,
           ppc' = "claim" => ppc = "claim", cpc' = "take" => cpc = "take"
    PROVE  Ring'
BY DEF Ring

(* Every step keeps the free chunks and the handed ones two segments of    *)
(* the ring.                                                               *)
LEMMA RingNext == IInv /\ [Next]_vars => Ring'
<1>. SUFFICES ASSUME IInv, [Next]_vars PROVE Ring'  OBVIOUS
<1>. USE DEF switch, producer, consumer, history
<1>0. /\ TypeOK /\ Control /\ Startup /\ Ring
      /\ head \in Chunks /\ prev_head \in Chunks /\ head = NextChunk(prev_head)
      /\ tail \in Chunks /\ prev_tail \in Chunks /\ tail = NextChunk(prev_tail)
      /\ q_chunks_flag \in [Chunks -> Flags]
  BY DEF IInv, TypeOK, Control
<1>1. CASE UNCHANGED vars
  BY <1>0, <1>1, RingFrame DEF vars, Between, ConsumerHolds, NotStarted
<1>2. CASE BlockRecord \/ DiskRecord \/ TbBegin \/ SyncBegin
  <2>1. PICK next \in {"run", "loc"} : ppc = "run" /\
             \E kind \in Kinds : Store(kind, next)
    BY <1>2 DEF BlockRecord, DiskRecord, TbBegin, SyncBegin, Kinds
  <2>. QED
    BY <1>0, <2>1, RingFrame DEF Store, Between, ConsumerHolds, NotStarted
<1>3. CASE EnqueueLoc \/ EnqueueSync
  <2>1. PICK next \in {"run", "sync", "kick"} : ppc \in {"loc", "sync"} /\
             \E kind \in Kinds : Store(kind, next)
    BY <1>3 DEF EnqueueLoc, EnqueueSync, Kinds
  <2>. QED
    BY <1>0, <2>1, RingFrame DEF Store, Between, ConsumerHolds, NotStarted
<1>4. CASE Kick
  BY <1>0, <1>4, RingFrame DEF Kick, Between, ConsumerHolds, NotStarted
<1>5. CASE Wait \/ Reset \/ Switch \/ Quiet
  BY ZenonT(120), <1>0, <1>5, RingFrame
  DEF Wait, Reset, Switch, Quiet, vars, Between, ConsumerHolds, NotStarted
<1>6. CASE Publish
  <2>1. /\ q_chunks_flag' = [q_chunks_flag EXCEPT ![prev_head] = "FILLED"]
        /\ ~ Between /\ Between' /\ ppc' = "spin" /\ cpc' = cpc
        /\ UNCHANGED <<head, prev_head, tail, prev_tail>>
        /\ ConsumerHolds' <=> ConsumerHolds
    BY <1>6 DEF Publish, Between, ConsumerHolds, NotStarted
  <2>. QED  BY <1>0, <2>1, NextChunkInjective DEF Ring
<1>7. CASE Spin
  <2>1. /\ Between /\ Between' /\ cpc' = cpc
        /\ UNCHANGED <<q_chunks_flag, head, prev_head, tail, prev_tail>>
        /\ ConsumerHolds' <=> ConsumerHolds
        /\ q_chunks_flag[head] = "AVAILABLE"
    BY <1>7 DEF Spin, Between, ConsumerHolds, NotStarted
  <2>. QED  BY <1>0, <2>1 DEF Ring
<1>8. CASE Claim
  <2>1. /\ q_chunks_flag' = [q_chunks_flag EXCEPT ![head] = "FILLING"]
        /\ Between /\ ~ Between' /\ cpc' = cpc /\ ppc' # "claim"
        /\ prev_head' = head /\ head' = NextChunk(head)
        /\ UNCHANGED <<tail, prev_tail>>
        /\ ConsumerHolds' <=> ConsumerHolds
        /\ ppc = "claim" /\ ret \in RunPoints
    BY <1>8, <1>0 DEF Claim, Between, ConsumerHolds, NotStarted, TypeOK, RunPoints
  <2>. QED  BY SMTT(120), <1>0, <2>1, NextChunkInjective DEF Ring
<1>9. CASE Dequeue
  BY <1>0, <1>9, RingFrame
  DEF Dequeue, Between, ConsumerHolds, NotStarted, Startup
<1>10. CASE Release
  <2>1. /\ q_chunks_flag' = [q_chunks_flag EXCEPT ![prev_tail] = "AVAILABLE"]
        /\ ~ ConsumerHolds' /\ Between' = Between /\ ppc' = ppc
        /\ cpc' = "await"
        /\ UNCHANGED <<head, prev_head, tail, prev_tail>>
    BY <1>10 DEF Release, Between, ConsumerHolds
  <2>2. ConsumerHolds \/ q_chunks_flag[prev_tail] = "AVAILABLE"
    <3>1. CASE ~ NotStarted  BY <1>10, <3>1 DEF Release, ConsumerHolds
    <3>2. CASE NotStarted
      <4>1. prev_tail # prev_head  BY <1>0, <3>2 DEF Startup
      <4>2. q_chunks_flag[prev_tail] \in Flags  BY <1>0
      <4>. QED  BY <1>0, <3>2, <4>1, <4>2 DEF Ring, ConsumerHolds, Flags
    <3>. QED  BY <3>1, <3>2
  <2>. QED  BY <1>0, <2>1, <2>2, NextChunkInjective DEF Ring
<1>11. CASE Await
  <2>1. /\ Between' = Between /\ ppc' = ppc
        /\ UNCHANGED <<q_chunks_flag, head, prev_head, tail, prev_tail>>
        /\ ~ ConsumerHolds' /\ ~ ConsumerHolds
        /\ q_chunks_flag[tail] = "FILLED"
    BY <1>11 DEF Await, Between, ConsumerHolds, NotStarted
  <2>. QED  BY <1>0, <2>1 DEF Ring
<1>12. CASE Take
  <2>1. /\ q_chunks_flag' = [q_chunks_flag EXCEPT ![tail] = "CONSUMING"]
        /\ Between' = Between /\ ppc' = ppc /\ cpc' = "read"
        /\ prev_tail' = tail /\ tail' = NextChunk(tail)
        /\ UNCHANGED <<head, prev_head>>
        /\ ~ ConsumerHolds /\ ConsumerHolds' /\ cpc = "take"
    BY <1>12 DEF Take, Between, ConsumerHolds, NotStarted
  <2>. QED  BY SMTT(120), <1>0, <2>1, NextChunkInjective DEF Ring
<1>13. CASE Read
  BY <1>0, <1>13, RingFrame DEF Read, Between, ConsumerHolds, NotStarted
<1>14. CASE HandleLoc \/ HandleSync \/ HandleOther
  <2>1. /\ UNCHANGED <<q_chunks_flag, head, prev_head, tail, prev_tail, ppc>>
        /\ cpc = "handle" /\ cpc' = "dequeue" /\ got' = got + 1
    BY <1>14, Zenon DEF HandleLoc, HandleSync, HandleOther
  <2>2. got' # 0  BY SMTT(120), <1>0, <2>1 DEF TypeOK
  <2>. QED
    BY <1>0, <2>1, <2>2, RingFrame DEF Between, ConsumerHolds, NotStarted
<1>. QED
  BY <1>1, <1>2, <1>3, <1>4, <1>5, <1>6, <1>7, <1>8, <1>9, <1>10, <1>11,
     <1>12, <1>13, <1>14
  DEF Next, Emulator, Routine, Analyser

=============================================================================
