------------------------ MODULE DiftQueueSyncProofs ------------------------
(***************************************************************************)
(* Every step of the record queue preserves the layer Syncs of the         *)
(* inductive invariant.                                                    *)
(***************************************************************************)
EXTENDS DiftQueueStreamProofs

USE QueueAssumption

-----------------------------------------------------------------------------
(* Syncs: the hand-shake of dift_sync.                                     *)

(* A record stored keeps the account of the REC_SYNC records.              *)
LEMMA SyncsStore ==
    ASSUME IInv, NEW kind \in Kinds, NEW next \in RunPoints,
           ppc \in {"run", "loc", "sync"}, Store(kind, next),
           kind = "sync" => ppc = "sync" /\ next = "kick",
           next = "kick" => kind = "sync", next # "wait", next # "reset"
    PROVE  Syncs'
<1>. USE DEF consumer
<1>0. /\ Stream /\ Syncs /\ Ring
      /\ q_records \in [Chunks -> [Slots -> Record]]
      /\ prev_head \in Chunks /\ sent \in Nat
      /\ first \in [Chunks -> Nat] /\ upto \in [Chunks -> Nat]
      /\ ppc \in RunPoints
  BY DEF IInv, TypeOK, RunPoints
<1>1. /\ ~ Between /\ ~ Between' /\ Point' = next
      /\ Fill = enq_off /\ Fill \in Slots /\ Fill' = Fill + 1
      /\ q_records' = [q_records EXCEPT ![prev_head][Fill] =
                          [n |-> sent, kind |-> kind]]
      /\ sent' = sent + 1
      /\ q_chunks_flag[prev_head] = "FILLING"
      /\ UNCHANGED <<q_chunks_flag, prev_head, ok_signal, got, first, upto>>
  BY <1>0, StoreFacts
<1>2. ~ Awaiting /\ ppc # "reset" /\ ~ ok_signal /\ Point \notin {"kick", "wait"}
  BY <1>0, <1>1 DEF Awaiting, Syncs, Point, ChunkPoints
<1>3. \A i \in Chunks : Handed(i) => q_records'[i] = q_records[i]
  BY <1>0, <1>1 DEF Handed
<1>4. \A k \in Slots : k < Fill =>
        /\ q_records'[prev_head][k] = q_records[prev_head][k]
        /\ q_records[prev_head][k].kind # "sync"
  BY <1>0, <1>1, <1>2 DEF Syncs, Slots
<1>5. q_records'[prev_head][Fill].kind = kind
  BY <1>0, <1>1
<1>6. \A k \in Slots : k < Fill' /\ q_records'[prev_head][k].kind = "sync" =>
        k + 1 = Fill' /\ Point' \in {"kick", "wait"}
  BY <1>1, <1>4, <1>5 DEF Slots
<1>7. \A i \in Chunks, k \in Slots :
         Handed(i) /\ first[i] + k < upto[i] /\ got <= first[i] + k
           => q_records'[i][k].kind # "sync"
  BY <1>0, <1>2, <1>3 DEF Syncs
<1>8. ppc' # "reset"  BY DEF Store
<1>9. ppc' = "publish" => ret' # "wait"  BY DEF Store, RunPoints
<1>10. ppc' = "kick" => kind = "sync"  BY DEF Store
<1>11. \A i \in Chunks : Handed(i)' => Handed(i) /\ upto'[i] <= sent'
  BY <1>0, <1>1 DEF Handed, Syncs
<1>12. Fill' - 1 = Fill  BY <1>1 DEF Slots
<1>. QED
  BY <1>1, <1>2, <1>5, <1>6, <1>7, <1>8, <1>9, <1>10, <1>11, <1>12 DEF Syncs

(* Every step keeps the signal in step with the last REC_SYNC.             *)
LEMMA SyncsNext == IInv /\ [Next]_vars => Syncs'
<1>. SUFFICES ASSUME IInv, [Next]_vars PROVE Syncs'  OBVIOUS
<1>. USE DEF switch, producer, consumer, history
<1>0. /\ TypeOK /\ Control /\ Ring /\ Stream /\ Syncs
      /\ head \in Chunks /\ prev_head \in Chunks
      /\ tail \in Chunks /\ prev_tail \in Chunks
      /\ enq_off \in Slots /\ deq_off \in Slots
      /\ q_chunks_flag \in [Chunks -> Flags]
      /\ first \in [Chunks -> Nat] /\ upto \in [Chunks -> Nat]
      /\ sent \in Nat /\ got \in Nat
  BY DEF IInv, TypeOK
<1>1. CASE \/ BlockRecord \/ DiskRecord \/ TbBegin \/ SyncBegin
           \/ EnqueueLoc \/ EnqueueSync
  BY <1>1, StoreActions, SyncsStore
<1>2. CASE UNCHANGED vars \/ Switch \/ Quiet
  BY SMTT(120), <1>0, <1>2
  DEF vars, Switch, Quiet, Syncs, Handed, Between, Fill, Point, Awaiting
<1>3. CASE Kick
  <2>1. /\ UNCHANGED <<q_chunks_flag, q_records, prev_head, enq_off, sent, got,
                       first, upto, ok_signal>>
        /\ ~ Between /\ ~ Between' /\ Fill' = Fill /\ ppc' # "reset"
        /\ Awaiting => Awaiting'
    BY <1>3 DEF Kick, Between, Fill, Awaiting
  <2>2. Point \in {"kick", "wait"} => Point' \in {"kick", "wait"}
    BY <1>3 DEF Kick, Point, ChunkPoints
  <2>3. (ppc' = "publish" /\ ret' = "wait") \/ (ppc' = "kick" /\ enq_off' # 0)
          => ppc = "kick" /\ enq_off # 0
    BY <1>3 DEF Kick
  <2>4. ppc # "reset"  BY <1>3 DEF Kick
  <2>. QED  BY <1>0, <2>1, <2>2, <2>3, <2>4 DEF Syncs, Handed
<1>4. CASE Publish
  <2>1. /\ q_chunks_flag' = [q_chunks_flag EXCEPT ![prev_head] = "FILLED"]
        /\ upto' = [upto EXCEPT ![prev_head] = sent]
        /\ ppc = "publish" /\ ~ Between /\ Between' /\ ppc' = "spin"
        /\ UNCHANGED <<q_records, prev_head, sent, got, first, ok_signal, ret>>
    BY <1>4 DEF Publish, Between
  <2>2. ~ Awaiting /\ ~ ok_signal  BY <1>0, <2>1 DEF Awaiting, Syncs
  <2>3. Point = ret /\ sent = first[prev_head] + Fill
    BY <1>0, <2>1 DEF Point, ChunkPoints, Stream, Filling
  <2>4. Fill \in 1 .. C  BY <1>0, <2>1 DEF Fill, Slots
  <2>5. \A k \in Slots :
          k < Fill /\ q_records[prev_head][k].kind = "sync" =>
            k + 1 = Fill /\ ret \in {"kick", "wait"}
    BY <1>0, <2>1, <2>3 DEF Syncs
  <2>6. ASSUME NEW i \in Chunks, NEW k \in Slots, Handed(i)',
               first[i] + k < upto'[i], got <= first[i] + k,
               q_records[i][k].kind = "sync"
        PROVE  first[i] + k + 1 = sent /\ upto'[i] = sent /\ Awaiting'
    <3>1. CASE i = prev_head
      BY <1>0, <2>1, <2>3, <2>4, <2>5, <2>6, <3>1 DEF Awaiting, Slots
    <3>2. CASE i # prev_head
      <4>1. Handed(i) /\ upto'[i] = upto[i]
        BY <1>0, <2>1, <2>6, <3>2 DEF Handed
      <4>. QED  BY <1>0, <2>2, <2>6, <4>1 DEF Syncs
    <3>. QED  BY <3>1, <3>2
  <2>7. \A i \in Chunks : Handed(i)' => upto'[i] <= sent
    BY <1>0, <2>1 DEF Handed, Syncs
  <2>. QED  BY <2>1, <2>2, <2>6, <2>7 DEF Syncs
<1>5. CASE Spin
  <2>1. /\ UNCHANGED <<q_chunks_flag, q_records, prev_head, sent, got, first,
                       upto, ok_signal>>
        /\ Between /\ Between' /\ ppc' = "claim"
        /\ Awaiting => Awaiting'
    BY <1>5 DEF Spin, Between, Awaiting
  <2>2. ppc # "reset"  BY <1>5 DEF Spin
  <2>. QED  BY <1>0, <2>1, <2>2 DEF Syncs, Handed
<1>6. CASE Claim
  <2>1. /\ q_chunks_flag' = [q_chunks_flag EXCEPT ![head] = "FILLING"]
        /\ first' = [first EXCEPT ![head] = sent]
        /\ UNCHANGED <<q_records, sent, got, upto, ok_signal>>
        /\ ppc = "claim" /\ ppc' = ret /\ enq_off' = 0
        /\ ret \in RunPoints /\ ret # "reset"
    BY <1>0, <1>6 DEF Claim, TypeOK, Control, ChunkPoints
  <2>2. ~ Between' /\ Fill' = 0 /\ ppc' # "publish"
    BY <2>1 DEF Between, Fill, RunPoints
  <2>3. Awaiting => Awaiting'
    BY <2>1 DEF Awaiting, Between
  <2>4. \A i \in Chunks : Handed(i)' => Handed(i) /\ first'[i] = first[i]
    BY <1>0, <2>1 DEF Handed
  <2>. QED  BY <1>0, <2>1, <2>2, <2>3, <2>4 DEF Syncs, Slots
<1>7. CASE Wait
  <2>1. /\ UNCHANGED <<q_chunks_flag, q_records, prev_head, sent, got, first,
                       upto, ok_signal, enq_off>>
        /\ ok_signal /\ ppc = "wait" /\ ppc' = "reset"
    BY <1>7 DEF Wait
  <2>2. enq_off = 0  BY <1>0, <2>1 DEF Control
  <2>3. Fill' = 0 /\ ~ Between'  BY <2>1, <2>2 DEF Fill, Between
  <2>. QED  BY <1>0, <2>1, <2>3 DEF Syncs, Handed, Slots
<1>8. CASE Reset
  <2>1. /\ UNCHANGED <<q_chunks_flag, q_records, prev_head, sent, got, first,
                       upto, enq_off>>
        /\ ppc = "reset" /\ ppc' = "run" /\ ~ ok_signal'
    BY <1>8 DEF Reset
  <2>2. enq_off = 0 /\ ok_signal  BY <1>0, <2>1 DEF Control, Syncs
  <2>3. Fill' = 0 /\ ~ Between'  BY <2>1, <2>2 DEF Fill, Between
  <2>. QED  BY <1>0, <2>1, <2>2, <2>3 DEF Syncs, Handed, Slots
<1>9. CASE Dequeue \/ Await \/ Read
  <2>1. UNCHANGED <<q_chunks_flag, q_records, prev_head, sent, got, first,
                    upto, ok_signal, ppc, ret, enq_off>>
    BY <1>9 DEF Dequeue, Await, Read
  <2>2. /\ Between' <=> Between
        /\ Fill' = Fill /\ Point' = Point /\ (Awaiting' <=> Awaiting)
    BY <2>1 DEF Between, Fill, Point, Awaiting
  <2>. QED  BY <1>0, <2>1, <2>2 DEF Syncs, Handed
<1>10. CASE Release
  <2>1. \A i \in Chunks : Handed(i)' => Handed(i)
    BY <1>0, <1>10 DEF Release, Handed
  <2>2. UNCHANGED <<q_records, prev_head, sent, got, first, upto, ok_signal,
                    ppc, ret, enq_off>>
    BY <1>10 DEF Release
  <2>3. /\ Between' <=> Between
        /\ Fill' = Fill /\ Point' = Point /\ (Awaiting' <=> Awaiting)
    BY <2>2 DEF Between, Fill, Point, Awaiting
  <2>. QED  BY <1>0, <2>1, <2>2, <2>3 DEF Syncs
<1>11. CASE Take
  <2>1. \A i \in Chunks : Handed(i)' => Handed(i)
    BY <1>0, <1>11 DEF Take, Handed, Ring
  <2>2. UNCHANGED <<q_records, prev_head, sent, got, first, upto, ok_signal,
                    ppc, ret, enq_off>>
    BY <1>11 DEF Take
  <2>3. /\ Between' <=> Between
        /\ Fill' = Fill /\ Point' = Point /\ (Awaiting' <=> Awaiting)
    BY <2>2 DEF Between, Fill, Point, Awaiting
  <2>. QED  BY <1>0, <2>1, <2>2, <2>3 DEF Syncs
<1>12. CASE HandleLoc \/ HandleSync \/ HandleOther
  <2>1. /\ UNCHANGED <<q_chunks_flag, q_records, prev_head, sent, first, upto,
                       ppc, ret, enq_off>>
        /\ cpc = "handle" /\ got' = got + 1
        /\ \/ data.kind = "sync" /\ ok_signal'
           \/ data.kind # "sync" /\ ok_signal' = ok_signal
    <3>1. CASE HandleLoc
      <4>1. in_block /\ cpc = "handle"  BY <3>1, Zenon DEF HandleLoc
      <4>2. data.kind = "loc"
        BY <4>1 DEF IInv, Frames, ReaderFramed, Framing, ConsumerHolds, NotStarted
      <4>. QED  BY <3>1, <4>2, Zenon DEF HandleLoc
    <3>2. CASE HandleSync  BY <3>2, Zenon DEF HandleSync
    <3>3. CASE HandleOther  BY <3>3, Zenon DEF HandleOther
    <3>. QED  BY <1>12, <3>1, <3>2, <3>3
  <2>2. /\ Between' <=> Between
        /\ Fill' = Fill /\ Point' = Point /\ (Awaiting' <=> Awaiting)
    BY <2>1 DEF Between, Fill, Point, Awaiting
  <2>3. Handed(prev_tail)
    BY <1>0, <2>1 DEF Ring, Handed, ConsumerHolds, NotStarted
  <2>4. /\ got = first[prev_tail] + LastRead /\ got < upto[prev_tail]
        /\ data = q_records[prev_tail][LastRead] /\ LastRead \in Slots
    <3>1. Reading  BY <1>0, <2>1 DEF Stream, ConsumerHolds, NotStarted
    <3>2. LastRead \in Slots  BY <1>0 DEF LastRead, Slots
    <3>. QED  BY <2>1, <3>1, <3>2 DEF Reading
  <2>5. ~ ok_signal  BY SMTT(120), <1>0, <2>3, <2>4 DEF Syncs
  <2>6. CASE data.kind # "sync"
    <3>1. ~ ok_signal'  BY <2>1, <2>5, <2>6
    <3>2. \A i \in Chunks, k \in Slots :
            got + 1 <= first[i] + k => got <= first[i] + k
      BY <1>0 DEF Slots
    <3>. QED
      BY <1>0, <2>1, <2>2, <2>5, <3>1, <3>2 DEF Syncs, Handed
  <2>7. CASE data.kind = "sync"
    <3>1. got + 1 = sent /\ Awaiting  BY SMTT(120), <1>0, <2>3, <2>4, <2>7 DEF Syncs
    <3>2. Between \/ Fill = 0  BY <3>1 DEF Awaiting, Fill
    <3>3. ~ (ppc = "publish" /\ ret = "wait") /\ ~ (ppc = "kick" /\ enq_off # 0)
      BY <3>1 DEF Awaiting, Between
    <3>. QED
      BY SMTT(120), <1>0, <2>1, <2>2, <2>7, <3>1, <3>2, <3>3 DEF Syncs, Handed, Slots
  <2>. QED  BY <2>6, <2>7
<1>. QED
  BY <1>1, <1>2, <1>3, <1>4, <1>5, <1>6, <1>7, <1>8, <1>9, <1>10, <1>11,
     <1>12
  DEF Next, Emulator, Routine, Analyser

=============================================================================
