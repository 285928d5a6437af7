------------------------ MODULE DiftQueueFrameProofs ------------------------
(***************************************************************************)
(* Every step preserves the layer Frames of the inductive invariant.       *)
(***************************************************************************)
EXTENDS DiftQueueSyncProofs

USE QueueAssumption

-----------------------------------------------------------------------------
(* Frames: the pairs of "begin" and "loc".                                 *)

(* A record stored after "begin" is the "loc" that belongs to it.          *)
LEMMA FramesStore ==
    ASSUME IInv, NEW kind \in Kinds, NEW next \in RunPoints,
           ppc \in RunPoints, Store(kind, next),
           kind = "loc" <=> ppc = "loc", kind = "begin" <=> next = "loc"
    PROVE  Frames'
<1>. USE DEF consumer
<1>0. /\ ChunksFramed /\ ChunksLinked /\ HeadFramed /\ ReaderFramed
      /\ Ring /\ q_records \in [Chunks -> [Slots -> Record]]
      /\ prev_head \in Chunks /\ prev_tail \in Chunks /\ tail \in Chunks
      /\ first \in [Chunks -> Nat] /\ upto \in [Chunks -> Nat]
      /\ Point = ppc
  BY DEF IInv, Frames, TypeOK, Point, RunPoints, ChunkPoints
<1>1. /\ ~ Between /\ ~ Between' /\ Point' = next
      /\ Fill \in Slots /\ Fill' = Fill + 1 /\ Fill' # 0
      /\ q_records' = [q_records EXCEPT ![prev_head][Fill] =
                          [n |-> sent, kind |-> kind]]
      /\ q_chunks_flag[prev_head] = "FILLING"
      /\ UNCHANGED <<q_chunks_flag, prev_head, prev_tail, tail, got, first,
                     upto, cpc, in_block, deq_off, data>>
      /\ ConsumerHolds' <=> ConsumerHolds
      /\ TailReady' /\ TailReady
  BY StoreFacts DEF Slots
<1>2. \A i \in Chunks : i # prev_head => q_records'[i] = q_records[i]
  BY <1>0, <1>1
<1>3. /\ q_records'[prev_head][Fill].kind = kind
      /\ \A k \in Slots : k # Fill =>
           q_records'[prev_head][k] = q_records[prev_head][k]
  BY <1>0, <1>1
<1>4. \A i \in Chunks : Continues(i)' <=> Continues(i)
  BY <1>0, <1>1, <1>2, <1>3 DEF Continues, Slots
<1>5. \A i \in Chunks : Handed(i)' =>
        /\ Handed(i) /\ i # prev_head
        /\ Framed(i, upto[i] - first[i])' <=> Framed(i, upto[i] - first[i])
        /\ LastKind(i)' = LastKind(i)
  BY <1>0, <1>1, <1>2 DEF Handed, Framed, LastKind
<1>6. Framed(prev_head, Fill)'
  <2>. SUFFICES ASSUME NEW k \in 1 .. C - 1, k < Fill + 1
                PROVE  q_records'[prev_head][k].kind = "loc" <=>
                         q_records'[prev_head][k - 1].kind = "begin"
    BY <1>1 DEF Framed
  <2>1. CASE k < Fill
    <3>1. Framed(prev_head, Fill)  BY <1>0, <1>1 DEF HeadFramed
    <3>2. k \in Slots /\ k - 1 \in Slots /\ k # Fill /\ k - 1 # Fill
      BY <1>1, <2>1 DEF Slots
    <3>. QED  BY <1>3, <2>1, <3>1, <3>2 DEF Framed
  <2>2. CASE k = Fill
    BY <1>0, <1>1, <1>3, <2>2 DEF HeadFramed, Slots
  <2>. QED  BY <1>1, <2>1, <2>2 DEF Slots
<1>7. q_records'[prev_head][Fill' - 1].kind = "begin" <=> Point' = "loc"
  BY <1>1, <1>3 DEF Slots
<1>8. TailContinues' <=> TailContinues
  BY <1>0, <1>1, <1>4 DEF TailContinues
<1>9. ConsumerHolds =>
        /\ q_records'[prev_tail] = q_records[prev_tail]
        /\ Handed(prev_tail)
  BY <1>0, <1>1, <1>2 DEF Ring, Handed
<1>10. ConsumerHolds => (Framing' <=> Framing) /\ LastKind(prev_tail)' = LastKind(prev_tail)
  BY <1>0, <1>1, <1>4, <1>9 DEF Framing, LastKind
<1>11. \A i \in Chunks : q_chunks_flag[i] = "FILLED" => Handed(i)' /\ i # prev_head
  BY <1>1 DEF Handed
<1>12. \A i \in Chunks : q_chunks_flag[i] = "FILLED" =>
         (LastKind(i)' = "begin" <=> Continues(NextChunk(i))')
  BY <1>0, <1>4, <1>5, <1>11, NextChunkInjective DEF ChunksLinked
<1>13. ChunksFramed'  BY <1>0, <1>5 DEF ChunksFramed
<1>14. ChunksLinked'  BY <1>1, <1>11, <1>12 DEF ChunksLinked
<1>15. HeadFramed'  BY <1>1, <1>6, <1>7 DEF HeadFramed
<1>16. ReaderFramed'  BY <1>0, <1>1, <1>8, <1>10 DEF ReaderFramed
<1>. QED  BY <1>13, <1>14, <1>15, <1>16 DEF Frames

(* A step that moves neither thread across a record or a chunk.            *)
LEMMA FramesFrame ==
    ASSUME Frames, Ring, tail \in Chunks, prev_head \in Chunks,
           UNCHANGED <<q_chunks_flag, q_records, prev_head, tail, prev_tail,
                       first, upto, in_block>>,
           Between' <=> Between, Fill' = Fill, Point' = "loc" <=> Point = "loc",
           Between => ret' = ret,
           ~ Between => (ppc = "loc" <=> ppc' = "loc"),
           ConsumerHolds' <=> ConsumerHolds, ConsumerHolds => Framing'
    PROVE  Frames'
<1>1. \A i : Continues(i)' <=> Continues(i)  BY DEF Continues
<1>2. TailContinues' <=> TailContinues
  <2>1. TailReady' <=> TailReady  BY DEF TailReady
  <2>2. ~ TailReady => Between  BY DEF Ring, TailReady
  <2>. QED  BY <1>1, <2>1, <2>2 DEF TailContinues
<1>3. \A i : LastKind(i)' = LastKind(i)  BY DEF LastKind
<1>4. ChunksFramed'
  BY DEF Frames, ChunksFramed, Handed, Framed
<1>5. HeadFramed'
  <2>1. ~ Between => Framed(prev_head, Fill)'
    BY DEF Frames, HeadFramed, Framed
  <2>. QED  BY <2>1 DEF Frames, HeadFramed
<1>6. ChunksLinked'
  <2>1. \A i \in Chunks : q_chunks_flag[i] = "FILLED" /\ i = prev_head =>
          Between
    BY DEF Ring
  <2>. QED  BY <1>1, <1>3, <2>1 DEF Frames, ChunksLinked
<1>7. ReaderFramed'
  <2>1. LastKind(prev_tail)' = LastKind(prev_tail)  BY DEF LastKind
  <2>. QED  BY <1>2, <2>1 DEF Frames, ReaderFramed
<1>. QED  BY <1>4, <1>5, <1>6, <1>7 DEF Frames

(* A step of the emulation thread keeps the pairs together.               *)
LEMMA FramesEmulator == IInv /\ (Emulator \/ UNCHANGED vars) => Frames'
<1>. SUFFICES ASSUME IInv, Emulator \/ UNCHANGED vars PROVE Frames'  OBVIOUS
<1>. USE DEF switch, producer, consumer, history
<1>0. /\ TypeOK /\ Control /\ Startup /\ Ring /\ Stream /\ Frames
      /\ ChunksFramed /\ ChunksLinked /\ HeadFramed /\ ReaderFramed
      /\ head \in Chunks /\ prev_head \in Chunks /\ head = NextChunk(prev_head)
      /\ tail \in Chunks /\ prev_tail \in Chunks /\ tail = NextChunk(prev_tail)
      /\ enq_off \in Slots /\ deq_off \in Slots
      /\ q_chunks_flag \in [Chunks -> Flags]
      /\ first \in [Chunks -> Nat] /\ upto \in [Chunks -> Nat]
      /\ sent \in Nat /\ got \in Nat
  BY DEF IInv, Frames, TypeOK, Control
<1>1. CASE \/ BlockRecord \/ DiskRecord \/ TbBegin \/ SyncBegin
           \/ EnqueueLoc \/ EnqueueSync
  <2>1. PICK kind \in Kinds, next \in RunPoints :
             /\ Store(kind, next) /\ ppc \in RunPoints
             /\ kind = "loc" <=> ppc = "loc"
             /\ kind = "begin" <=> next = "loc"
    BY <1>1, StoreActions DEF RunPoints
  <2>. QED  BY <2>1, FramesStore
<1>2. CASE UNCHANGED vars \/ Kick \/ Wait \/ Reset \/ Switch \/ Quiet \/ Spin
  <2>1. /\ UNCHANGED <<q_chunks_flag, q_records, prev_head, tail, prev_tail,
                       sent, got, first, upto, cpc, deq_off, data, in_block>>
        /\ Between' <=> Between
        /\ Between => ret' = ret
        /\ ppc = "loc" <=> ppc' = "loc"
    BY ZenonT(120), <1>2 DEF vars, Kick, Wait, Reset, Switch, Quiet, Spin, Between
  <2>2. Fill' = Fill /\ (Point' = "loc" <=> Point = "loc")
    BY ZenonT(120), <1>2
    DEF vars, Kick, Wait, Reset, Switch, Quiet, Spin, Fill, Point, ChunkPoints
  <2>3. ConsumerHolds' <=> ConsumerHolds
    BY <2>1 DEF ConsumerHolds, NotStarted
  <2>4. ConsumerHolds => Framing'
    <3>1. ConsumerHolds => Framing  BY <1>0 DEF ReaderFramed
    <3>2. LastKind(prev_tail)' = LastKind(prev_tail)  BY <2>1 DEF LastKind
    <3>3. Continues(prev_tail)' <=> Continues(prev_tail)
      BY <2>1, <2>2 DEF Continues
    <3>. QED  BY <2>1, <3>1, <3>2, <3>3 DEF Framing
  <2>. QED  BY <1>0, <2>1, <2>2, <2>3, <2>4, FramesFrame
<1>3. CASE Publish
  <2>1. /\ q_chunks_flag' = [q_chunks_flag EXCEPT ![prev_head] = "FILLED"]
        /\ upto' = [upto EXCEPT ![prev_head] = sent]
        /\ ~ Between /\ Between' /\ ppc = "publish" /\ ret' = ret
        /\ UNCHANGED <<q_records, prev_head, tail, prev_tail, sent, got, first,
                       cpc, deq_off, data, in_block>>
        /\ ConsumerHolds' <=> ConsumerHolds
    BY <1>3 DEF Publish, Between, ConsumerHolds, NotStarted
  <2>2. Fill \in 1 .. C /\ sent - first[prev_head] = Fill /\ Point = ret
    BY <1>0, <2>1 DEF Fill, Slots, Stream, Filling, Point, ChunkPoints
  <2>3. \A i : Continues(i)' <=> Continues(i)
    BY <2>1, <2>2 DEF Continues
  <2>4. TailReady /\ TailReady'
    BY <1>0, <2>1 DEF TailReady, Ring
  <2>5. TailContinues' <=> TailContinues
    BY <2>1, <2>3, <2>4 DEF TailContinues
  <2>6. \A i \in Chunks : i # prev_head =>
          /\ LastKind(i)' = LastKind(i) /\ (Handed(i)' <=> Handed(i))
          /\ Framed(i, upto[i] - first[i])' <=> Framed(i, upto[i] - first[i])
    BY <1>0, <2>1 DEF LastKind, Handed, Framed
  <2>7. LastKind(prev_head)' = q_records[prev_head][Fill - 1].kind
    <3>1. sent - 1 - first[prev_head] = Fill - 1  BY <1>0, <2>2
    <3>. QED  BY <1>0, <2>1, <3>1 DEF LastKind
  <2>8. LastKind(prev_head)' = "begin" <=> ret = "loc"
    BY <1>0, <2>1, <2>2, <2>7 DEF HeadFramed
  <2>9. Framed(prev_head, upto[prev_head] - first[prev_head])'
    <3>1. Framed(prev_head, Fill)  BY <1>0, <2>1 DEF HeadFramed
    <3>2. upto'[prev_head] - first'[prev_head] = Fill  BY <1>0, <2>1, <2>2
    <3>. QED  BY <2>1, <3>1, <3>2 DEF Framed
  <2>10. ConsumerHolds => prev_tail # prev_head
    BY <1>0, <2>1 DEF Ring
  <2>11. ConsumerHolds => Framing'
    <3>1. ConsumerHolds => Framing  BY <1>0 DEF ReaderFramed
    <3>2. ConsumerHolds => LastKind(prev_tail)' = LastKind(prev_tail)
      BY <1>0, <2>1, <2>10 DEF LastKind
    <3>3. Continues(prev_tail)' <=> Continues(prev_tail)  BY <2>1, <2>3
    <3>. QED  BY <2>1, <3>1, <3>2, <3>3 DEF Framing
  <2>12. \A i \in Chunks : q_chunks_flag'[i] = "FILLED" /\ i # prev_head =>
           (LastKind(i)' = "begin" <=> Continues(NextChunk(i))')
    <3>. SUFFICES ASSUME NEW i \in Chunks, i # prev_head,
                         q_chunks_flag'[i] = "FILLED"
                  PROVE  LastKind(i)' = "begin" <=> Continues(NextChunk(i))'
      OBVIOUS
    <3>1. q_chunks_flag[i] = "FILLED"  BY <1>0, <2>1
    <3>2. LastKind(i) = "begin" <=> Continues(NextChunk(i))
      BY <1>0, <3>1 DEF ChunksLinked
    <3>3. LastKind(i)' = LastKind(i)  BY <2>6
    <3>4. Continues(NextChunk(i))' <=> Continues(NextChunk(i))
      BY <2>1, <2>3 DEF Continues, NextChunk
    <3>. QED  BY <3>2, <3>3, <3>4
  <2>13. ChunksFramed'  BY <1>0, <2>1, <2>6, <2>9 DEF ChunksFramed
  <2>14. ChunksLinked'  BY <2>1, <2>8, <2>12 DEF ChunksLinked
  <2>15. HeadFramed'  BY <2>1 DEF HeadFramed
  <2>16. ReaderFramed'
    <3>1. ConsumerHolds => LastKind(prev_tail)' = LastKind(prev_tail)
      BY <1>0, <2>1, <2>10 DEF LastKind
    <3>. QED  BY <1>0, <2>1, <2>5, <2>11, <3>1 DEF ReaderFramed
  <2>. QED  BY <2>13, <2>14, <2>15, <2>16 DEF Frames
<1>4. CASE Claim
  <2>0. PICK h \in Chunks : h = head  BY <1>0
  <2>1. /\ q_chunks_flag' = [q_chunks_flag EXCEPT ![head] = "FILLING"]
        /\ first' = [first EXCEPT ![head] = sent]
        /\ Between /\ q_chunks_flag[head] = "AVAILABLE" /\ prev_head' = head
        /\ UNCHANGED <<q_records, tail, prev_tail, sent, got, upto, cpc,
                       deq_off, data, in_block>>
        /\ ConsumerHolds' <=> ConsumerHolds
        /\ ppc' = ret
    BY <1>0, <1>4 DEF Claim, Between, ConsumerHolds, NotStarted, Ring
  <2>2. ~ Between' /\ Fill' = 0
    BY <1>0, <1>4 DEF Claim, Between, Fill, TypeOK, RunPoints
  <2>3. \A i \in Chunks : i # h => (Continues(i)' <=> Continues(i))
    BY <2>0, <2>1 DEF Continues
  <2>4. Continues(h)' <=> ret = "loc"  BY <2>0, <2>1, <2>2 DEF Continues
  <2>5. \A i \in Chunks : i # h =>
          /\ LastKind(i)' = LastKind(i) /\ (Handed(i)' <=> Handed(i))
          /\ Framed(i, upto[i] - first[i])' <=> Framed(i, upto[i] - first[i])
    BY <1>0, <2>0, <2>1 DEF LastKind, Handed, Framed
  <2>6. ~ Handed(h)'  BY <1>0, <2>0, <2>1 DEF Handed
  <2>7. ASSUME NEW i \in Chunks, q_chunks_flag'[i] = "FILLED", i # h
        PROVE  LastKind(i)' = "begin" <=> Continues(NextChunk(i))'
    <3>1. q_chunks_flag[i] = "FILLED"  BY <1>0, <2>0, <2>1, <2>7
    <3>2. CASE i = prev_head
      BY <1>0, <2>0, <2>4, <2>5, <2>7, <3>1, <3>2 DEF ChunksLinked
    <3>3. CASE i # prev_head
      <4>1. q_chunks_flag[NextChunk(i)] = "FILLED"
        BY <1>0, <2>1, <3>1, <3>3 DEF Ring
      <4>2. NextChunk(i) # h /\ NextChunk(i) \in Chunks
        BY <2>0, <2>1, <4>1, NextChunkInjective
      <4>3. LastKind(i) = "begin" <=> Continues(NextChunk(i))
        BY <1>0, <3>1, <3>3 DEF ChunksLinked
      <4>. QED  BY <2>3, <2>5, <2>7, <4>2, <4>3
    <3>. QED  BY <3>2, <3>3
  <2>8. TailContinues' <=> TailContinues
    <3>1. CASE tail = head
      BY <1>0, <2>0, <2>1, <2>2, <2>4, <3>1 DEF TailContinues, TailReady
    <3>2. CASE tail # head
      <4>1. q_chunks_flag[tail] = "FILLED"  BY <1>0, <2>1, <3>2 DEF Ring
      <4>. QED  BY <1>0, <2>0, <2>1, <2>3, <3>2, <4>1 DEF TailContinues, TailReady
    <3>. QED  BY <3>1, <3>2
  <2>9. ConsumerHolds => prev_tail # head  BY <1>0, <2>1 DEF Ring
  <2>10. ConsumerHolds => Framing' /\ LastKind(prev_tail)' = LastKind(prev_tail)
    <3>1. ConsumerHolds => Framing  BY <1>0 DEF ReaderFramed
    <3>2. ConsumerHolds => /\ LastKind(prev_tail)' = LastKind(prev_tail)
                           /\ Continues(prev_tail)' <=> Continues(prev_tail)
      BY <1>0, <2>0, <2>1, <2>3, <2>5, <2>9
    <3>. QED  BY <2>1, <3>1, <3>2 DEF Framing
  <2>11. Framed(h, Fill)'  BY <2>2 DEF Framed
  <2>12. ChunksFramed'  BY <1>0, <2>5, <2>6 DEF ChunksFramed
  <2>13. ChunksLinked'
    <3>1. q_chunks_flag'[h] # "FILLED" /\ prev_head' = h  BY <1>0, <2>0, <2>1
    <3>. QED  BY <2>7, <3>1 DEF ChunksLinked
  <2>14. HeadFramed'  BY <2>0, <2>1, <2>2, <2>11 DEF HeadFramed
  <2>15. ReaderFramed'  BY <1>0, <2>1, <2>8, <2>10 DEF ReaderFramed
  <2>. QED  BY <2>12, <2>13, <2>14, <2>15 DEF Frames
<1>. QED
  BY <1>1, <1>2, <1>3, <1>4 DEF Emulator, Routine

-----------------------------------------------------------------------------
(* A step of the analysis thread keeps in_block in step with the records.  *)
LEMMA FramesAnalyser == IInv /\ Analyser => Frames'
<1>. SUFFICES ASSUME IInv, Analyser PROVE Frames'  OBVIOUS
<1>. USE DEF switch, producer, consumer, history
<1>0. /\ TypeOK /\ Control /\ Startup /\ Ring /\ Stream /\ Frames
      /\ ChunksFramed /\ ChunksLinked /\ HeadFramed /\ ReaderFramed
      /\ head \in Chunks /\ prev_head \in Chunks /\ head = NextChunk(prev_head)
      /\ tail \in Chunks /\ prev_tail \in Chunks /\ tail = NextChunk(prev_tail)
      /\ enq_off \in Slots /\ deq_off \in Slots
      /\ q_chunks_flag \in [Chunks -> Flags]
      /\ first \in [Chunks -> Nat] /\ upto \in [Chunks -> Nat]
      /\ sent \in Nat /\ got \in Nat
  BY DEF IInv, Frames, TypeOK, Control
<1>1. CASE Dequeue \/ Await
  <2>1. /\ UNCHANGED <<q_chunks_flag, q_records, prev_head, tail, prev_tail,
                       sent, got, first, upto, deq_off, data, in_block, ppc,
                       ret, enq_off>>
        /\ \/ cpc = "dequeue" /\ cpc' = IF deq_off = 0 THEN "release" ELSE "read"
           \/ cpc = "await" /\ cpc' = "take"
    BY <1>1 DEF Dequeue, Await
  <2>2. ConsumerHolds' <=> ConsumerHolds
    BY <1>0, <2>1 DEF ConsumerHolds, NotStarted, Startup
  <2>3. /\ Between' <=> Between
        /\ Fill' = Fill /\ Point' = Point
    BY <2>1 DEF Between, Fill, Point
  <2>4. ConsumerHolds => Framing'
    <3>1. SUFFICES ASSUME ConsumerHolds PROVE Framing'  OBVIOUS
    <3>2. Framing /\ cpc = "dequeue"
      BY <1>0, <2>1, <3>1 DEF ReaderFramed, ConsumerHolds
    <3>3. LastKind(prev_tail)' = LastKind(prev_tail)  BY <2>1 DEF LastKind
    <3>4. CASE deq_off = 0  BY <2>1, <3>2, <3>3, <3>4 DEF Framing
    <3>5. CASE deq_off # 0  BY <2>1, <3>2, <3>5 DEF Framing
    <3>. QED  BY <3>4, <3>5
  <2>. QED  BY <1>0, <2>1, <2>2, <2>3, <2>4, FramesFrame
<1>2. CASE Release
  <2>1. /\ q_chunks_flag' = [q_chunks_flag EXCEPT ![prev_tail] = "AVAILABLE"]
        /\ UNCHANGED <<q_records, prev_head, tail, prev_tail, sent, got, first,
                       upto, ppc, ret, enq_off, in_block>>
        /\ ~ ConsumerHolds' /\ cpc = "release" /\ deq_off = 0
    BY <1>0, <1>2 DEF Release, ConsumerHolds, Control
  <2>2. /\ Between' <=> Between
        /\ Fill' = Fill /\ Point' = Point
    BY <2>1 DEF Between, Fill, Point
  <2>3. \A i : Continues(i)' <=> Continues(i)  BY <2>1, <2>2 DEF Continues
  <2>4. TailContinues' <=> TailContinues
    BY <1>0, <2>1, <2>2, <2>3, NextChunkInjective DEF TailContinues, TailReady
  <2>5. in_block <=> TailContinues
    <3>1. CASE ConsumerHolds
      <4>1. Framing /\ (LastKind(prev_tail) = "begin" <=> TailContinues)
        BY <1>0, <3>1 DEF ReaderFramed
      <4>2. in_block <=> LastKind(prev_tail) = "begin"
        BY <2>1, <4>1 DEF Framing
      <4>. QED  BY <4>1, <4>2
    <3>2. CASE ~ ConsumerHolds  BY <1>0, <3>2 DEF ReaderFramed
    <3>. QED  BY <3>1, <3>2
  <2>6. \A i \in Chunks :
          /\ Handed(i)' => Handed(i)
          /\ q_chunks_flag'[i] = "FILLED" => q_chunks_flag[i] = "FILLED"
    BY <1>0, <2>1 DEF Handed
  <2>7. \A i \in Chunks : Handed(i)' => Framed(i, upto[i] - first[i])'
    <3>1. \A i \in Chunks : Handed(i) => Framed(i, upto[i] - first[i])
      BY <1>0 DEF ChunksFramed
    <3>. QED  BY <2>1, <2>6, <3>1 DEF Framed
  <2>8. ~ Between => Framed(prev_head, Fill)'
    <3>1. ~ Between => Framed(prev_head, Fill)  BY <1>0 DEF HeadFramed
    <3>. QED  BY <2>1, <2>2, <3>1 DEF Framed
  <2>9. \A i : LastKind(i)' = LastKind(i)  BY <2>1 DEF LastKind
  <2>10. ChunksFramed'  BY <2>7 DEF ChunksFramed
  <2>11. ChunksLinked'  BY <1>0, <2>1, <2>3, <2>6, <2>9 DEF ChunksLinked
  <2>12. HeadFramed'  BY <1>0, <2>1, <2>2, <2>8 DEF HeadFramed
  <2>13. ReaderFramed'  BY <2>1, <2>4, <2>5 DEF ReaderFramed
  <2>. QED  BY <2>10, <2>11, <2>12, <2>13 DEF Frames
<1>3. CASE Take
  <2>0. PICK t \in Chunks : t = tail  BY <1>0
  <2>1. /\ q_chunks_flag' = [q_chunks_flag EXCEPT ![t] = "CONSUMING"]
        /\ UNCHANGED <<q_records, prev_head, sent, got, first, upto, ppc, ret,
                       enq_off, in_block>>
        /\ prev_tail' = t /\ tail' = NextChunk(t) /\ deq_off' = 0
        /\ ConsumerHolds' /\ ~ ConsumerHolds /\ cpc = "take" /\ cpc' = "read"
        /\ q_chunks_flag[t] = "FILLED"
    BY <1>0, <1>3, <2>0 DEF Take, ConsumerHolds, NotStarted, Ring
  <2>2. /\ Between' <=> Between
        /\ Fill' = Fill /\ Point' = Point
    BY <2>1 DEF Between, Fill, Point
  <2>3. \A i : /\ Continues(i)' <=> Continues(i)
               /\ LastKind(i)' = LastKind(i)
    BY <2>1, <2>2 DEF Continues, LastKind
  <2>4. \A i \in Chunks :
          /\ Handed(i)' => Handed(i)
          /\ q_chunks_flag'[i] = "FILLED" => q_chunks_flag[i] = "FILLED"
    BY <1>0, <2>1 DEF Handed
  <2>5. LastKind(t) = "begin" <=> TailContinues'
    <3>1. CASE t = prev_head
      <4>1. Between  BY <1>0, <2>1, <3>1 DEF Ring
      <4>2. head # t /\ q_chunks_flag[head] # "FILLED"
        BY <1>0, <2>0, <3>1, NextChunkInjective DEF Ring
      <4>3. ~ TailReady'
        BY <1>0, <2>1, <2>2, <3>1, <4>1, <4>2 DEF TailReady
      <4>4. TailContinues' <=> ret = "loc"  BY <2>1, <4>3 DEF TailContinues
      <4>. QED  BY <1>0, <2>1, <3>1, <4>4 DEF ChunksLinked
    <3>2. CASE t # prev_head
      <4>1. \/ q_chunks_flag[NextChunk(t)] = "FILLED"
            \/ NextChunk(t) = prev_head /\ ~ Between
        BY <1>0, <2>1, <3>2 DEF Ring
      <4>2. TailReady'
        BY <1>0, <2>1, <2>2, <4>1, NextChunkInjective DEF TailReady
      <4>3. TailContinues' <=> Continues(NextChunk(t))'
        <5>1. TailContinues' <=> Continues(tail)'  BY <4>2 DEF TailContinues
        <5>. QED  BY <2>1, <5>1 DEF Continues
      <4>4. LastKind(t) = "begin" <=> Continues(NextChunk(t))
        BY <1>0, <2>1, <3>2 DEF ChunksLinked
      <4>. QED  BY <2>3, <4>3, <4>4
    <3>. QED  BY <3>1, <3>2
  <2>6. in_block <=> Continues(t)
    <3>1. in_block <=> TailContinues  BY <1>0, <2>1 DEF ReaderFramed
    <3>2. TailReady  BY <2>0, <2>1 DEF TailReady
    <3>. QED  BY <2>0, <3>1, <3>2 DEF TailContinues
  <2>7. Framing'
    <3>1. Continues(prev_tail)' <=> Continues(t)'  BY <2>1 DEF Continues
    <3>. QED  BY <2>1, <2>3, <2>6, <3>1 DEF Framing
  <2>8. LastKind(prev_tail)' = LastKind(t)  BY <2>1 DEF LastKind
  <2>9. \A i \in Chunks : Handed(i)' => Framed(i, upto[i] - first[i])'
    <3>1. \A i \in Chunks : Handed(i) => Framed(i, upto[i] - first[i])
      BY <1>0 DEF ChunksFramed
    <3>. QED  BY <2>1, <2>4, <3>1 DEF Framed
  <2>10. ~ Between => Framed(prev_head, Fill)'
    <3>1. ~ Between => Framed(prev_head, Fill)  BY <1>0 DEF HeadFramed
    <3>. QED  BY <2>1, <2>2, <3>1 DEF Framed
  <2>11. ChunksFramed'  BY <2>9 DEF ChunksFramed
  <2>12. ChunksLinked'  BY <1>0, <2>1, <2>3, <2>4 DEF ChunksLinked
  <2>13. HeadFramed'  BY <1>0, <2>1, <2>2, <2>10 DEF HeadFramed
  <2>14. ReaderFramed'
    <3>1. LastKind(prev_tail)' = "begin" <=> TailContinues'  BY <2>5, <2>8
    <3>. QED  BY <2>1, <2>7, <3>1 DEF ReaderFramed
  <2>. QED  BY <2>11, <2>12, <2>13, <2>14 DEF Frames
<1>4. CASE Read
  <2>1. /\ UNCHANGED <<q_chunks_flag, q_records, prev_head, tail, prev_tail,
                       sent, got, first, upto, ppc, ret, enq_off, in_block>>
        /\ cpc = "read" /\ cpc' = "handle" /\ ConsumerHolds /\ ConsumerHolds'
        /\ data' = q_records[prev_tail][deq_off]
    BY <1>0, <1>4 DEF Read, ConsumerHolds, NotStarted, Control
  <2>2. /\ Between' <=> Between
        /\ Fill' = Fill /\ Point' = Point
    BY <2>1 DEF Between, Fill, Point
  <2>3. q_chunks_flag[prev_tail] = "CONSUMING"  BY <1>0, <2>1 DEF Ring
  <2>4. in_block <=> data'.kind = "loc"
    <3>1. CASE deq_off = 0
      <4>1. Continues(prev_tail) <=> q_records[prev_tail][0].kind = "loc"
        <5>1. ~ (prev_tail = prev_head /\ ~ Between)
          BY <1>0, <2>3 DEF Ring
        <5>. QED  BY <5>1 DEF Continues
      <4>2. in_block <=> Continues(prev_tail)
        <5>1. Framing  BY <1>0, <2>1 DEF ReaderFramed
        <5>. QED  BY <2>1, <3>1, <5>1 DEF Framing
      <4>3. data'.kind = q_records[prev_tail][0].kind  BY <2>1, <3>1
      <4>. QED  BY <4>1, <4>2, <4>3
    <3>2. CASE deq_off # 0
      <4>1. deq_off \in 1 .. C - 1 /\ deq_off < upto[prev_tail] - first[prev_tail]
        <5>1. Reading  BY <1>0, <2>1 DEF Stream
        <5>2. got = first[prev_tail] + deq_off /\ got < upto[prev_tail]
          BY <2>1, <5>1 DEF Reading
        <5>. QED  BY <1>0, <3>2, <5>2 DEF Slots
      <4>2. Framed(prev_tail, upto[prev_tail] - first[prev_tail])
        <5>1. Handed(prev_tail)  BY <2>3 DEF Handed
        <5>. QED  BY <1>0, <5>1 DEF ChunksFramed
      <4>3. in_block <=> q_records[prev_tail][deq_off - 1].kind = "begin"
        <5>1. Framing  BY <1>0, <2>1 DEF ReaderFramed
        <5>. QED  BY <2>1, <3>2, <5>1 DEF Framing
      <4>4. \/ q_records[prev_tail][deq_off].kind = "loc"
            \/ q_records[prev_tail][deq_off - 1].kind # "begin"
        BY <4>1, <4>2 DEF Framed
      <4>5. \/ q_records[prev_tail][deq_off].kind # "loc"
            \/ q_records[prev_tail][deq_off - 1].kind = "begin"
        BY <4>1, <4>2 DEF Framed
      <4>. QED  BY Zenon, <2>1, <4>3, <4>4, <4>5
    <3>. QED  BY <3>1, <3>2
  <2>5. Framing'  BY <2>1, <2>4 DEF Framing
  <2>6. /\ Between => ret' = ret
        /\ ~ Between => (ppc = "loc" <=> ppc' = "loc")
        /\ Point' = "loc" <=> Point = "loc"
    BY <2>1, <2>2
  <2>. QED  BY <1>0, <2>1, <2>2, <2>5, <2>6, FramesFrame
<1>5. CASE HandleLoc \/ HandleSync \/ HandleOther
  <2>1. /\ UNCHANGED <<q_chunks_flag, q_records, prev_head, tail, prev_tail,
                       sent, first, upto, ppc, ret, enq_off>>
        /\ cpc = "handle" /\ cpc' = "dequeue" /\ got' = got + 1
        /\ deq_off' = 0 \/ deq_off' = deq_off
    BY <1>5, Zenon DEF HandleLoc, HandleSync, HandleOther
  <2>2. ConsumerHolds /\ ConsumerHolds'
    BY <1>0, <2>1 DEF ConsumerHolds, NotStarted
  <2>3. in_block' <=> data.kind = "begin"
    <3>1. in_block <=> data.kind = "loc"
      <4>1. Framing  BY <1>0, <2>2 DEF ReaderFramed
      <4>. QED  BY <2>1, <4>1 DEF Framing
    <3>2. CASE HandleLoc
      <4>1. in_block /\ ~ in_block'  BY <3>2, Zenon DEF HandleLoc
      <4>. QED  BY <3>1, <4>1
    <3>3. CASE HandleSync
      <4>1. ~ in_block /\ data.kind = "sync" /\ in_block' = in_block
        BY <3>3, Zenon DEF HandleSync
      <4>. QED  BY <3>1, <4>1
    <3>4. CASE HandleOther
      BY <3>4, Zenon DEF HandleOther
    <3>. QED  BY <1>5, <3>2, <3>3, <3>4
  <2>4. /\ got = first[prev_tail] + LastRead
        /\ data = q_records[prev_tail][LastRead] /\ LastRead \in Slots
    <3>1. Reading  BY <1>0, <2>2 DEF Stream
    <3>2. LastRead \in Slots  BY <1>0 DEF LastRead, Slots
    <3>. QED  BY <2>1, <3>1, <3>2 DEF Reading
  <2>5. Framing'
    <3>1. CASE deq_off' = 0
      <4>1. upto[prev_tail] = got + 1
        <5>0. [Next]_vars  BY DEF Next
        <5>1. Stream'  BY <5>0, StreamNext
        <5>2. Reading'  BY <2>2, <5>1 DEF Stream
        <5>. QED  BY <2>1, <3>1, <5>2 DEF Reading
      <4>2. upto[prev_tail] - 1 - first[prev_tail] = LastRead
        <5>1. first[prev_tail] \in Nat /\ LastRead \in Nat
          BY <1>0, <2>4 DEF Slots
        <5>2. upto[prev_tail] = first[prev_tail] + LastRead + 1
          BY <2>4, <4>1
        <5>. QED  BY <5>1, <5>2
      <4>3. LastKind(prev_tail)' = data.kind
        <5>1. LastKind(prev_tail)' = q_records[prev_tail][LastRead].kind
          BY <2>1, <4>2 DEF LastKind
        <5>. QED  BY <2>4, <5>1
      <4>4. in_block' <=> LastKind(prev_tail)' = "begin"  BY <2>3, <4>3
      <4>. QED  BY <2>1, <3>1, <4>4 DEF Framing
    <3>2. CASE deq_off' # 0
      <4>1. LastRead = deq_off' - 1  BY <2>1, <3>2 DEF LastRead
      <4>2. in_block' <=> q_records'[prev_tail'][deq_off' - 1].kind = "begin"
        BY <2>1, <2>3, <2>4, <4>1
      <4>. QED  BY <2>1, <3>2, <4>2 DEF Framing
    <3>. QED  BY <3>1, <3>2
  <2>6. /\ Between' <=> Between
        /\ Fill' = Fill /\ Point' = Point
    BY <2>1 DEF Between, Fill, Point
  <2>7. \A i : /\ Continues(i)' <=> Continues(i)
               /\ LastKind(i)' = LastKind(i) /\ (Handed(i)' <=> Handed(i))
    BY <2>1, <2>6 DEF Continues, LastKind, Handed
  <2>8. TailContinues' <=> TailContinues
    <3>1. TailReady' <=> TailReady  BY <2>1, <2>6 DEF TailReady
    <3>2. Continues(tail)' <=> Continues(tail)  BY <2>1, <2>6 DEF Continues
    <3>. QED  BY <2>1, <3>1, <3>2 DEF TailContinues
  <2>10. \A i \in Chunks : Handed(i)' => Framed(i, upto[i] - first[i])'
    <3>1. \A i \in Chunks : Handed(i) => Framed(i, upto[i] - first[i])
      BY <1>0 DEF ChunksFramed
    <3>. QED  BY <2>1, <2>7, <3>1 DEF Framed
  <2>11. ~ Between => Framed(prev_head, Fill)'
    <3>1. ~ Between => Framed(prev_head, Fill)  BY <1>0 DEF HeadFramed
    <3>. QED  BY <2>1, <2>6, <3>1 DEF Framed
  <2>12. ChunksFramed'  BY <2>10 DEF ChunksFramed
  <2>13. ChunksLinked'  BY <1>0, <2>1, <2>7 DEF ChunksLinked
  <2>14. HeadFramed'
    <3>1. HeadFramed  BY DEF IInv, Frames
    <3>. QED  BY <2>1, <2>6, <2>11, <3>1 DEF HeadFramed
  <2>15. ReaderFramed'
    <3>1. LastKind(prev_tail) = "begin" <=> TailContinues
      <4>1. ReaderFramed  BY DEF IInv, Frames
      <4>. QED  BY <2>2, <4>1 DEF ReaderFramed
    <3>2. LastKind(prev_tail)' = LastKind(prev_tail)  BY <2>1 DEF LastKind
    <3>3. LastKind(prev_tail)' = "begin" <=> TailContinues'
      BY <2>8, <3>1, <3>2
    <3>. QED  BY <2>2, <2>5, <3>3 DEF ReaderFramed
  <2>. QED  BY <2>12, <2>13, <2>14, <2>15 DEF Frames
<1>. QED
  BY <1>1, <1>2, <1>3, <1>4, <1>5 DEF Analyser

(* Every step keeps the pairs of "begin" and "loc" together.               *)
LEMMA FramesNext == IInv /\ [Next]_vars => Frames'
BY FramesEmulator, FramesAnalyser DEF Next

=============================================================================
