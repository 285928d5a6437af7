----------------------- MODULE DiftQueueStreamProofs -----------------------
(***************************************************************************)
(* Every step of the record queue preserves the layer Stream of the        *)
(* inductive invariant.                                                    *)
(***************************************************************************)
EXTENDS DiftQueueRingProofs

USE QueueAssumption

-----------------------------------------------------------------------------
(* Facts about the steps that the record layers share.                     *)

(* A store goes to the first free slot of a chunk that the analysis thread *)
(* does not hold.                                                          *)
LEMMA StoreFacts ==
    ASSUME IInv, NEW kind \in Kinds, NEW next \in RunPoints,
           ppc \in RunPoints, Store(kind, next)
    PROVE  /\ ~ Between /\ ~ Between' /\ Point' = next
           /\ Fill = enq_off /\ Fill \in Slots /\ Fill' = Fill + 1
           /\ q_records' = [q_records EXCEPT ![prev_head][Fill] =
                                [n |-> sent, kind |-> kind]]
           /\ sent' = sent + 1
           /\ q_chunks_flag[prev_head] = "FILLING"
           /\ UNCHANGED <<q_chunks_flag, head, prev_head, consumer, ok_signal,
                          got, first, upto>>
           /\ ConsumerHolds' <=> ConsumerHolds
           /\ TailReady' /\ TailReady
<1>. USE DEF consumer
<1>1. ~ Between /\ ppc # "publish" /\ ppc \notin ChunkPoints
  BY DEF Between, RunPoints, ChunkPoints
<1>2. Fill = enq_off /\ enq_off \in Slots /\ enq_chunk = prev_head
  BY <1>1 DEF Fill, IInv, TypeOK, Control
<1>3. (enq_off + 1) % C = IF enq_off = C - 1 THEN 0 ELSE enq_off + 1
  BY <1>2, NextSlotValue
<1>4. ~ Between' /\ Point' = next
  BY DEF Store, Between, Point, RunPoints, ChunkPoints
<1>5. Fill' = Fill + 1
  BY <1>2, <1>3 DEF Store, Fill, Slots, RunPoints
<1>6. q_chunks_flag[prev_head] = "FILLING" /\ TailReady
  BY ZenonT(120), <1>1 DEF IInv, TypeOK, Ring, TailReady
<1>. QED
  BY <1>1, <1>2, <1>4, <1>5, <1>6
  DEF Store, ConsumerHolds, NotStarted, TailReady

(* The six actions of the emulation thread that store a record.            *)
LEMMA StoreActions ==
    ASSUME \/ BlockRecord \/ DiskRecord \/ TbBegin \/ SyncBegin
           \/ EnqueueLoc \/ EnqueueSync
    PROVE  \E kind \in Kinds, next \in RunPoints :
             /\ Store(kind, next)
             /\ \/ ppc = "run" /\ kind = "data" /\ next = "run"
                \/ ppc = "run" /\ kind = "begin" /\ next = "loc"
                \/ ppc = "loc" /\ kind = "loc" /\ next \in {"run", "sync"}
                \/ ppc = "sync" /\ kind = "sync" /\ next = "kick"
BY DEF BlockRecord, DiskRecord, TbBegin, SyncBegin, EnqueueLoc, EnqueueSync,
       Kinds, RunPoints

-----------------------------------------------------------------------------
(* Stream: the numbers of the records.                                     *)

(* A record stored gets the next number, in the chunk that is filled.      *)
LEMMA StreamStore ==
    ASSUME IInv, NEW kind \in Kinds, NEW next \in RunPoints,
           ppc \in RunPoints, Store(kind, next)
    PROVE  Stream'
<1>. USE StoreFacts DEF consumer
<1>0. /\ Stream /\ q_records \in [Chunks -> [Slots -> Record]]
      /\ prev_head \in Chunks /\ prev_tail \in Chunks /\ Fill \in Slots
      /\ first \in [Chunks -> Nat] /\ sent \in Nat
  BY DEF IInv, TypeOK
<1>1. ASSUME NEW i \in Chunks, Handed(i)' PROVE Numbered(i)'
  <2>1. i # prev_head /\ Handed(i)  BY <1>1 DEF Handed
  <2>2. q_records'[i] = q_records[i]  BY <2>1, <1>0
  <2>. QED  BY SMTT(120), <2>1, <2>2, <1>0 DEF Stream, Numbered
<1>2. Filling'
  <2>1. q_records'[prev_head][Fill].n = sent  BY <1>0
  <2>2. \A k \in Slots : k < Fill =>
          q_records'[prev_head][k] = q_records[prev_head][k]
    BY <1>0 DEF Slots
  <2>3. \A k \in Slots : k < Fill + 1 =>
          q_records'[prev_head][k].n = first[prev_head] + k
    <3>1. \A k \in Slots : k < Fill =>
            q_records[prev_head][k].n = first[prev_head] + k
      BY <1>0 DEF Stream, Filling
    <3>2. sent = first[prev_head] + Fill  BY <1>0 DEF Stream, Filling
    <3>3. \A k \in Slots : k < Fill + 1 => k < Fill \/ k = Fill
      BY <1>0 DEF Slots
    <3>. QED  BY <2>1, <2>2, <3>1, <3>2, <3>3
  <2>4. sent + 1 = first[prev_head] + (Fill + 1)
    BY <1>0 DEF Stream, Filling, Slots
  <2>. QED  BY <1>0, <2>3, <2>4 DEF Filling
<1>3. TailFirst' = TailFirst  BY DEF TailFirst
<1>4. ConsumerHolds => Reading'
  <2>. SUFFICES ASSUME ConsumerHolds PROVE Reading'  OBVIOUS
  <2>1. q_chunks_flag[prev_tail] = "CONSUMING"  BY <1>0 DEF IInv, Ring
  <2>2. q_records'[prev_tail] = q_records[prev_tail]  BY <2>1, <1>0
  <2>. QED  BY <2>2, <1>0 DEF Stream, Reading, LastRead
<1>. QED  BY <1>0, <1>1, <1>2, <1>3, <1>4 DEF Stream

(* A step that touches no record keeps their numbers.                      *)
LEMMA StreamFrame ==
    ASSUME Stream, ConsumerHolds => Reading',
           UNCHANGED <<q_chunks_flag, q_records, prev_head, tail, prev_tail,
                       sent, got, first, upto>>,
           Between' <=> Between, Fill' = Fill,
           ConsumerHolds' <=> ConsumerHolds
    PROVE  Stream'
<1>1. TailFirst' = TailFirst  BY DEF TailFirst, TailReady
<1>2. Filling'  BY DEF Stream, Filling
<1>. QED  BY <1>1, <1>2 DEF Stream, Handed, Numbered

(* Every step keeps the numbers of the records in order over the ring.     *)
LEMMA StreamNext == IInv /\ [Next]_vars => Stream'
<1>. SUFFICES ASSUME IInv, [Next]_vars PROVE Stream'  OBVIOUS
<1>. USE DEF switch, producer, consumer, history
<1>0. /\ TypeOK /\ Control /\ Startup /\ Ring /\ Stream /\ Syncs
      /\ head \in Chunks /\ prev_head \in Chunks /\ head = NextChunk(prev_head)
      /\ tail \in Chunks /\ prev_tail \in Chunks /\ tail = NextChunk(prev_tail)
      /\ enq_off \in Slots /\ deq_off \in Slots
      /\ q_chunks_flag \in [Chunks -> Flags]
      /\ first \in [Chunks -> Nat] /\ upto \in [Chunks -> Nat]
      /\ sent \in Nat /\ got \in Nat
  BY DEF IInv, TypeOK, Control
<1>1. CASE \/ BlockRecord \/ DiskRecord \/ TbBegin \/ SyncBegin
           \/ EnqueueLoc \/ EnqueueSync
  <2>1. PICK kind \in Kinds, next \in RunPoints :
             Store(kind, next) /\ ppc \in RunPoints
    BY <1>1, StoreActions DEF RunPoints
  <2>. QED  BY <2>1, StreamStore
<1>2. CASE UNCHANGED vars \/ Kick \/ Wait \/ Reset \/ Switch \/ Quiet
  <2>1. /\ UNCHANGED <<q_chunks_flag, q_records, prev_head, tail, prev_tail,
                       sent, got, first, upto, cpc, deq_off, data>>
        /\ Between' <=> Between
    BY ZenonT(120), <1>2 DEF vars, Kick, Wait, Reset, Switch, Quiet, Between
  <2>2. Fill' = Fill
    BY ZenonT(120), <1>2 DEF vars, Kick, Wait, Reset, Switch, Quiet, Fill
  <2>3. ConsumerHolds' <=> ConsumerHolds
    BY <2>1 DEF ConsumerHolds, NotStarted
  <2>4. ConsumerHolds => Reading'
    BY <1>0, <2>1 DEF Stream, Reading, LastRead
  <2>. QED  BY <1>0, <2>1, <2>2, <2>3, <2>4, StreamFrame
<1>3. CASE Publish
  <2>1. /\ q_chunks_flag' = [q_chunks_flag EXCEPT ![prev_head] = "FILLED"]
        /\ upto' = [upto EXCEPT ![prev_head] = sent]
        /\ ~ Between /\ Between' /\ ppc = "publish"
        /\ UNCHANGED <<q_records, prev_head, tail, prev_tail, sent, got, first,
                       cpc, deq_off, data>>
        /\ ConsumerHolds' <=> ConsumerHolds
    BY <1>3 DEF Publish, Between, ConsumerHolds, NotStarted
  <2>2. Fill \in 1 .. C /\ sent = first[prev_head] + Fill
    BY SMTT(120), <1>0, <2>1 DEF Fill, Slots, Stream, Filling
  <2>3. ASSUME NEW i \in Chunks, Handed(i)' PROVE Numbered(i)'
    <3>1. CASE i = prev_head
      <4>1. first[i] < sent /\ sent <= first[i] + C  BY <1>0, <2>2, <3>1
      <4>2. \A k \in Slots : first[i] + k < sent =>
               q_records[i][k].n = first[i] + k
        BY <1>0, <2>1, <2>2, <3>1 DEF Stream, Filling, Slots
      <4>3. ASSUME sent < first[i] + C
            PROVE  q_records[i][sent - 1 - first[i]].kind = "sync"
        <5>1. Fill # C /\ sent - 1 - first[i] = Fill - 1
          BY <1>0, <2>2, <3>1, <4>3
        <5>2. enq_off # 0  BY <2>1, <5>1 DEF Fill
        <5>3. ret = "wait"  BY <1>0, <2>1, <5>2 DEF Control
        <5>. QED  BY <1>0, <2>1, <3>1, <5>1, <5>3 DEF Syncs
      <4>. QED  BY <1>0, <2>1, <3>1, <4>1, <4>2, <4>3 DEF Numbered
    <3>2. CASE i # prev_head
      BY <1>0, <2>1, <2>3, <3>2 DEF Stream, Handed, Numbered
    <3>. QED  BY <3>1, <3>2
  <2>4. Filling'  BY <1>0, <2>1 DEF Filling
  <2>5. \A i \in Chunks : q_chunks_flag'[i] = "FILLED" /\ i # prev_head =>
          upto'[i] = first[NextChunk(i)]
    BY <1>0, <2>1 DEF Stream
  <2>6. TailFirst' = TailFirst
    BY <1>0, <2>1 DEF TailFirst, TailReady, Ring
  <2>7. ConsumerHolds => prev_tail # prev_head
    BY <1>0, <2>1 DEF Ring
  <2>8. ConsumerHolds => Reading' /\ upto'[prev_tail] = upto[prev_tail]
    BY <1>0, <2>1, <2>7 DEF Stream, Reading, LastRead
  <2>. QED  BY <1>0, <2>1, <2>3, <2>4, <2>5, <2>6, <2>8 DEF Stream
<1>4. CASE Spin
  <2>1. /\ UNCHANGED <<q_chunks_flag, q_records, prev_head, tail, prev_tail,
                       sent, got, first, upto, cpc, deq_off, data>>
        /\ Between' <=> Between
        /\ Fill' = Fill
    BY <1>4 DEF Spin, Between, Fill
  <2>2. ConsumerHolds' <=> ConsumerHolds
    BY <2>1 DEF ConsumerHolds, NotStarted
  <2>3. ConsumerHolds => Reading'
    BY <1>0, <2>1 DEF Stream, Reading, LastRead
  <2>. QED  BY <1>0, <2>1, <2>2, <2>3, StreamFrame
<1>5. CASE Claim
  <2>1. /\ q_chunks_flag' = [q_chunks_flag EXCEPT ![head] = "FILLING"]
        /\ first' = [first EXCEPT ![head] = sent]
        /\ Between /\ q_chunks_flag[head] = "AVAILABLE" /\ prev_head' = head
        /\ UNCHANGED <<q_records, tail, prev_tail, sent, got, upto, cpc,
                       deq_off, data>>
        /\ ConsumerHolds' <=> ConsumerHolds
    BY <1>0, <1>5 DEF Claim, Between, ConsumerHolds, NotStarted, Ring
  <2>2. ~ Between' /\ Fill' = 0
    BY <1>0, <1>5 DEF Claim, Between, Fill, TypeOK, RunPoints
  <2>3. \A i \in Chunks : Handed(i)' => Numbered(i)'
    BY <1>0, <2>1 DEF Stream, Handed, Numbered
  <2>4. Filling'  BY SMTT(120), <1>0, <2>1, <2>2 DEF Filling, Slots
  <2>5. ASSUME NEW i \in Chunks, q_chunks_flag'[i] = "FILLED", i # head
        PROVE  upto[i] = first'[NextChunk(i)]
    <3>1. q_chunks_flag[i] = "FILLED"  BY <1>0, <2>1, <2>5
    <3>2. CASE i = prev_head
      BY <1>0, <2>1, <3>2 DEF Stream, Filling
    <3>3. CASE i # prev_head
      <4>1. q_chunks_flag[NextChunk(i)] = "FILLED"
        BY <1>0, <2>1, <3>1, <3>3 DEF Ring
      <4>2. upto[i] = first[NextChunk(i)]  BY <1>0, <3>1, <3>3 DEF Stream
      <4>. QED  BY <1>0, <2>1, <4>1, <4>2, NextChunkInjective
    <3>. QED  BY <3>2, <3>3
  <2>6. TailFirst' = TailFirst
    <3>1. CASE tail = head
      BY <1>0, <2>1, <2>2, <3>1 DEF TailFirst, TailReady
    <3>2. CASE tail # head
      <4>1. q_chunks_flag[tail] = "FILLED"  BY <1>0, <2>1, <3>2 DEF Ring
      <4>. QED  BY <1>0, <2>1, <3>2, <4>1 DEF TailFirst, TailReady
    <3>. QED  BY <3>1, <3>2
  <2>7. ConsumerHolds => prev_tail # head
    BY <1>0, <2>1 DEF Ring
  <2>8. ConsumerHolds => Reading'
    BY <1>0, <2>1, <2>7 DEF Stream, Reading, LastRead
  <2>. QED  BY <1>0, <2>1, <2>3, <2>4, <2>5, <2>6, <2>8 DEF Stream
<1>6. CASE Dequeue \/ Await
  <2>1. /\ UNCHANGED <<q_chunks_flag, q_records, prev_head, tail, prev_tail,
                       sent, got, first, upto, deq_off, data, ppc, enq_off>>
        /\ \/ cpc = "dequeue" /\ cpc' = IF deq_off = 0 THEN "release" ELSE "read"
           \/ cpc = "await" /\ cpc' = "take"
    BY <1>6 DEF Dequeue, Await
  <2>2. ConsumerHolds' <=> ConsumerHolds
    BY <1>0, <2>1 DEF ConsumerHolds, NotStarted, Startup
  <2>3. ConsumerHolds => Reading'
    BY <1>0, <2>1 DEF Stream, Reading, ConsumerHolds
  <2>4. (Between' <=> Between) /\ Fill' = Fill  BY <2>1 DEF Between, Fill
  <2>. QED  BY <1>0, <2>1, <2>2, <2>3, <2>4, StreamFrame
<1>7. CASE Release
  <2>1. /\ q_chunks_flag' = [q_chunks_flag EXCEPT ![prev_tail] = "AVAILABLE"]
        /\ UNCHANGED <<q_records, prev_head, tail, prev_tail, sent, got, first,
                       upto, ppc, enq_off>>
        /\ ~ ConsumerHolds' /\ cpc = "release" /\ deq_off = 0
    BY <1>0, <1>7 DEF Release, ConsumerHolds, Control
  <2>2. (Between' <=> Between) /\ Fill' = Fill  BY <2>1 DEF Between, Fill
  <2>3. Filling'  BY <1>0, <2>1, <2>2 DEF Stream, Filling
  <2>4. TailFirst' = TailFirst
    BY <1>0, <2>1, <2>2, NextChunkInjective DEF TailFirst, TailReady
  <2>5. TailFirst = got
    BY <1>0, <2>1 DEF Stream, Reading
  <2>6. \A i \in Chunks : Handed(i)' => Numbered(i)'
    BY <1>0, <2>1 DEF Stream, Handed, Numbered
  <2>7. \A i \in Chunks : q_chunks_flag'[i] = "FILLED" =>
           q_chunks_flag[i] = "FILLED"
    BY <1>0, <2>1
  <2>. QED  BY <1>0, <2>1, <2>3, <2>4, <2>5, <2>6, <2>7 DEF Stream
<1>8. CASE Take
  <2>1. /\ q_chunks_flag' = [q_chunks_flag EXCEPT ![tail] = "CONSUMING"]
        /\ UNCHANGED <<q_records, prev_head, sent, got, first, upto, ppc,
                       enq_off>>
        /\ prev_tail' = tail /\ tail' = NextChunk(tail) /\ deq_off' = 0
        /\ ConsumerHolds' /\ ~ ConsumerHolds /\ cpc = "take" /\ cpc' = "read"
        /\ q_chunks_flag[tail] = "FILLED"
    BY <1>0, <1>8 DEF Take, ConsumerHolds, NotStarted, Ring
  <2>2. (Between' <=> Between) /\ Fill' = Fill  BY <2>1 DEF Between, Fill
  <2>3. Filling'  BY <1>0, <2>1, <2>2 DEF Stream, Filling
  <2>4. \A i \in Chunks : Handed(i)' => Numbered(i)'
    BY SMTT(120), <1>0, <2>1 DEF Stream, Handed, Numbered
  <2>5. \A i \in Chunks : q_chunks_flag'[i] = "FILLED" =>
           q_chunks_flag[i] = "FILLED"
    BY <1>0, <2>1
  <2>6. TailFirst' = upto[tail]
    <3>1. CASE tail = prev_head
      <4>1. Between  BY <1>0, <2>1, <3>1 DEF Ring
      <4>2. head # tail /\ q_chunks_flag[head] # "FILLED"
        BY <1>0, <3>1, NextChunkInjective DEF Ring
      <4>3. ~ TailReady'
        BY <1>0, <2>1, <2>2, <3>1, <4>1, <4>2 DEF TailReady
      <4>. QED  BY <1>0, <2>1, <3>1, <4>1, <4>3 DEF TailFirst, Stream, Filling
    <3>2. CASE tail # prev_head
      <4>1. \/ q_chunks_flag[NextChunk(tail)] = "FILLED"
            \/ NextChunk(tail) = prev_head /\ ~ Between
        BY <1>0, <2>1, <3>2 DEF Ring
      <4>2. TailReady'
        BY <1>0, <2>1, <2>2, <4>1, NextChunkInjective DEF TailReady
      <4>. QED  BY <1>0, <2>1, <3>2, <4>2 DEF TailFirst, Stream
    <3>. QED  BY <3>1, <3>2
  <2>7. Reading'
    <3>1. got = first[tail]  BY <1>0, <2>1 DEF Stream, TailFirst, TailReady
    <3>2. first[tail] < upto[tail]
      BY SMTT(120), <1>0, <2>1 DEF Stream, Handed, Numbered
    <3>. QED  BY SMTT(120), <1>0, <2>1, <3>1, <3>2 DEF Reading
  <2>. QED  BY <1>0, <2>1, <2>3, <2>4, <2>5, <2>6, <2>7 DEF Stream
<1>9. CASE Read
  <2>1. /\ UNCHANGED <<q_chunks_flag, q_records, prev_head, tail, prev_tail,
                       sent, got, first, upto, ppc, enq_off>>
        /\ cpc = "read" /\ cpc' = "handle" /\ ConsumerHolds /\ ConsumerHolds'
        /\ data' = q_records[prev_tail][deq_off]
        /\ deq_off' = IF deq_off = C - 1 THEN 0 ELSE deq_off + 1
    BY <1>0, <1>9, NextSlotValue DEF Read, ConsumerHolds, NotStarted, Control
  <2>2. (Between' <=> Between) /\ Fill' = Fill  BY <2>1 DEF Between, Fill
  <2>3. LastRead' = deq_off  BY SMTT(120), <1>0, <2>1 DEF LastRead, Slots
  <2>4. Reading'
    <3>1. Reading  BY <1>0, <2>1 DEF Stream
    <3>. QED  BY <2>1, <2>3, <3>1 DEF Reading
  <2>. QED  BY <1>0, <2>1, <2>2, <2>4, StreamFrame
<1>10. CASE HandleLoc \/ HandleSync \/ HandleOther
  <2>1. /\ UNCHANGED <<q_chunks_flag, q_records, prev_head, tail, prev_tail,
                       sent, first, upto, ppc, enq_off>>
        /\ cpc = "handle" /\ cpc' = "dequeue" /\ got' = got + 1
        /\ \/ data.kind = "sync" /\ deq_off' = 0
           \/ data.kind # "sync" /\ deq_off' = deq_off
    <3>1. CASE HandleLoc
      <4>1. in_block /\ cpc = "handle" BY <3>1, Zenon DEF HandleLoc
      <4>2. data.kind = "loc"
        BY <4>1 DEF IInv, Frames, ReaderFramed, Framing, ConsumerHolds, NotStarted
      <4>. QED  BY <3>1, <4>2, Zenon DEF HandleLoc
    <3>2. CASE HandleSync  BY <3>2, Zenon DEF HandleSync
    <3>3. CASE HandleOther  BY <3>3, Zenon DEF HandleOther
    <3>. QED  BY <1>10, <3>1, <3>2, <3>3
  <2>2. ConsumerHolds /\ ConsumerHolds'
    BY <1>0, <2>1 DEF ConsumerHolds, NotStarted
  <2>3. (Between' <=> Between) /\ Fill' = Fill  BY <2>1 DEF Between, Fill
  <2>4. Handed(prev_tail)  BY <1>0, <2>2 DEF Ring, Handed
  <2>5. /\ got = first[prev_tail] + LastRead /\ got < upto[prev_tail]
        /\ data = q_records[prev_tail][LastRead] /\ LastRead \in Slots
    <3>1. Reading  BY <1>0, <2>2 DEF Stream
    <3>2. LastRead \in Slots  BY <1>0 DEF LastRead, Slots
    <3>. QED  BY <2>1, <3>1, <3>2 DEF Reading
  <2>6. Reading'
    <3>1. CASE data.kind = "sync"
      <4>1. upto[prev_tail] = got + 1
        <5>1. \A k \in Slots :
                /\ first[prev_tail] + k < upto[prev_tail]
                /\ got <= first[prev_tail] + k
                /\ q_records[prev_tail][k].kind = "sync"
                => first[prev_tail] + k + 1 = sent /\ upto[prev_tail] = sent
          BY <1>0, <2>4 DEF Syncs
        <5>. QED  BY <1>0, <2>5, <3>1, <5>1
      <4>. QED  BY <2>1, <3>1, <4>1 DEF Reading
    <3>2. CASE data.kind # "sync" /\ deq_off = 0
      <4>1. upto[prev_tail] = got + 1
        <5>1. LastRead = C - 1  BY <3>2 DEF LastRead
        <5>2. upto[prev_tail] <= first[prev_tail] + C
          BY <1>0, <2>4 DEF Stream, Numbered
        <5>. QED  BY <1>0, <2>5, <5>1, <5>2
      <4>. QED  BY <2>1, <3>2, <4>1 DEF Reading
    <3>3. CASE data.kind # "sync" /\ deq_off # 0
      <4>1. LastRead = deq_off - 1  BY <3>3 DEF LastRead
      <4>2. upto[prev_tail] # got + 1
        <5>. SUFFICES ASSUME upto[prev_tail] = got + 1 PROVE FALSE  OBVIOUS
        <5>1. /\ upto[prev_tail] < first[prev_tail] + C
              /\ upto[prev_tail] - 1 - first[prev_tail] = LastRead
          BY <1>0, <2>5, <4>1 DEF Slots
        <5>2. Numbered(prev_tail)  BY <1>0, <2>4 DEF Stream
        <5>3. q_records[prev_tail][LastRead].kind = "sync"
          BY <5>1, <5>2 DEF Numbered
        <5>. QED  BY <2>5, <3>3, <5>3
      <4>3. got + 1 = first[prev_tail] + deq_off /\ got + 1 < upto[prev_tail]
        BY SMTT(120), <1>0, <2>5, <4>1, <4>2 DEF Slots
      <4>. QED  BY <2>1, <3>3, <4>3 DEF Reading
    <3>. QED  BY <3>1, <3>2, <3>3
  <2>7. TailFirst' = TailFirst  BY <2>1, <2>3 DEF TailFirst, TailReady
  <2>8. Filling'  BY <1>0, <2>1, <2>3 DEF Stream, Filling
  <2>. QED
    BY <1>0, <2>1, <2>2, <2>6, <2>7, <2>8 DEF Stream, Handed, Numbered
<1>. QED
  BY <1>1, <1>2, <1>3, <1>4, <1>5, <1>6, <1>7, <1>8, <1>9, <1>10
  DEF Next, Emulator, Routine, Analyser

=============================================================================
