-------------------------- MODULE DiftQueueProofs --------------------------
(***************************************************************************)
(* The theorems about the queue: its safety properties, which follow from  *)
(* the inductive invariant, and that it implements the queue of DiftFifo.  *)
(***************************************************************************)
EXTENDS DiftQueueFrameProofs, DiftQueueFifo, SequenceTheorems

USE QueueAssumption

-----------------------------------------------------------------------------
(* The theorems.                                                           *)

(* The layers together are inductive.                                      *)
LEMMA Inductive == IInv /\ [Next]_vars => IInv'
BY TypeNext, ControlNext, StartupNext, RingNext, StreamNext, FramesNext,
   SyncsNext DEF IInv

(* The inductive invariant holds in every reachable state.                 *)
THEOREM Invariance == Spec => []IInv
<1>1. Init => IInv
  BY TypeInit, ControlInit, RingInit, StreamInit DEF IInv
<1>. QED  BY <1>1, Inductive, PTL DEF Spec

(* The two threads never work on the same chunk.                           *)
THEOREM ChunkExclusionHolds == Spec => []ChunkExclusion
<1>1. IInv => ChunkExclusion
  <2>. SUFFICES ASSUME IInv, ProducerHolds, ConsumerHolds
                PROVE  enq_chunk # deq_chunk
    BY DEF ChunkExclusion
  <2>1. /\ enq_chunk = prev_head /\ deq_chunk = prev_tail
        /\ prev_head \in Chunks /\ prev_tail \in Chunks
    <3>1. TypeOK /\ Control  BY DEF IInv
    <3>. QED  BY <3>1 DEF TypeOK, Control, ConsumerHolds
  <2>2. ~ Between  BY DEF ProducerHolds, Between, RunPoints
  <2>. QED  BY <2>1, <2>2 DEF IInv, Ring
<1>. QED  BY <1>1, Invariance, PTL

(* Records are handled in order, exactly once, as they were stored.        *)
THEOREM InOrderHolds == Spec => []InOrder
<1>1. IInv => InOrder
  <2>. SUFFICES ASSUME IInv, cpc = "handle" PROVE data.n = got
    BY DEF InOrder
  <2>1. ConsumerHolds  BY DEF ConsumerHolds, NotStarted
  <2>2. prev_tail \in Chunks /\ deq_off \in Slots  BY DEF IInv, TypeOK
  <2>3. Handed(prev_tail)  BY <2>1, <2>2 DEF IInv, Ring, Handed
  <2>4. LastRead \in Slots  BY <2>2 DEF LastRead, Slots
  <2>. QED
    BY <2>1, <2>2, <2>3, <2>4 DEF IInv, Stream, Numbered, Reading
<1>. QED  BY <1>1, Invariance, PTL

(* The signal is up only when every record is handled.                     *)
THEOREM SyncDrainsHolds == Spec => []SyncDrains
<1>1. IInv => SyncDrains  BY DEF IInv, Syncs, SyncDrains
<1>. QED  BY <1>1, Invariance, PTL

(* The analysis thread takes location words for location words.            *)
THEOREM WellFramedHolds == Spec => []WellFramed
<1>1. IInv => WellFramed
  BY DEF IInv, Frames, ReaderFramed, Framing, WellFramed, ConsumerHolds,
         NotStarted
<1>. QED  BY <1>1, Invariance, PTL

-----------------------------------------------------------------------------
(* The ring implements DiftFifo.                                           *)

(* Every record that is not handled yet is in exactly one chunk.           *)
Placed ==
    /\ got <= sent
    /\ \A n \in got .. sent - 1 : \E i \in Chunks :
         HasRecord(i, n) /\ \A j \in Chunks : HasRecord(j, n) => j = i

(* A sequence is a function on an initial segment of the numbers.          *)
LEMMA SeqOfFunction ==
    ASSUME NEW S, NEW m \in Nat, NEW f \in [1 .. m -> S]
    PROVE  f \in Seq(S) /\ Len(f) = m
OBVIOUS

(* What a step leaves alone: a record that is still to be handled stays in *)
(* its chunk, where it was put.                                            *)
Stays(n) ==
    \A j \in Chunks :
      /\ HasRecord(j, n)' <=> HasRecord(j, n)
      /\ HasRecord(j, n) =>
           /\ first'[j] = first[j]
           /\ q_records'[j][n - first[j]] = q_records[j][n - first[j]]

(* A record before the next free slot k of a chunk is in another slot.     *)
LEMMA EarlierSlot ==
    ASSUME NEW m \in Int, NEW f \in Nat, NEW k \in Slots, f <= m, m < f + k
    PROVE  m - f \in Slots /\ m - f # k
BY DEF Slots

(* A record stored disturbs none of those that wait.                       *)
LEMMA StaysStore ==
    ASSUME IInv, NEW kind \in Kinds, NEW next \in RunPoints,
           ppc \in RunPoints, Store(kind, next), NEW n \in got .. sent - 1
    PROVE  Stays(n)
<1>. USE DEF consumer
<1>0. /\ q_records \in [Chunks -> [Slots -> Record]]
      /\ prev_head \in Chunks /\ Fill \in Slots
      /\ first \in [Chunks -> Nat] /\ upto \in [Chunks -> Nat] /\ sent \in Nat /\ got \in Nat
      /\ sent = first[prev_head] + Fill
      /\ UNCHANGED <<q_chunks_flag, first, upto>>
      /\ q_records' = [q_records EXCEPT ![prev_head][Fill] =
                           [n |-> sent, kind |-> kind]]
  BY StoreFacts DEF IInv, TypeOK, Stream, Filling
<1>. SUFFICES ASSUME NEW j \in Chunks
              PROVE  /\ HasRecord(j, n)' <=> HasRecord(j, n)
                     /\ HasRecord(j, n) =>
                          /\ first'[j] = first[j]
                          /\ q_records'[j][n - first[j]] = q_records[j][n - first[j]]
  BY DEF Stays
<1>1. HasRecord(j, n)' <=> HasRecord(j, n)  BY <1>0 DEF HasRecord
<1>2. CASE j # prev_head  BY <1>0, <1>1, <1>2
<1>3. CASE j = prev_head /\ HasRecord(j, n)
  <2>1. n - first[j] \in Slots /\ n - first[j] # Fill
    <3>1. first[j] \in Nat /\ first[j] <= n /\ sent = first[j] + Fill
      BY <1>0, <1>3 DEF HasRecord
    <3>2. n \in Int /\ n < sent  BY <1>0
    <3>. QED  BY <1>0, <3>1, <3>2, EarlierSlot
  <2>. QED  BY <1>0, <1>1, <1>3, <2>1
<1>. QED  BY <1>1, <1>2, <1>3

(* No step of either thread disturbs a record that is not handled by it.   *)
LEMMA StaysNext ==
    ASSUME IInv, Next, NEW n \in got' .. sent - 1
    PROVE  Stays(n) /\ n \in got .. sent - 1
<1>. USE DEF switch, producer, consumer, history
<1>0. /\ TypeOK /\ Control /\ Startup /\ Ring /\ Stream /\ Syncs
      /\ head \in Chunks /\ prev_head \in Chunks /\ tail \in Chunks /\ prev_tail \in Chunks
      /\ q_chunks_flag \in [Chunks -> Flags]
      /\ first \in [Chunks -> Nat] /\ upto \in [Chunks -> Nat]
      /\ sent \in Nat /\ got \in Nat
  BY DEF IInv, TypeOK
<1>1. CASE BlockRecord \/ DiskRecord \/ TbBegin \/ SyncBegin \/ EnqueueLoc \/ EnqueueSync
  <2>1. PICK kind \in Kinds, next \in RunPoints : Store(kind, next) /\ ppc \in {"run", "loc", "sync"}
    BY <1>1, StoreActions
  <2>2. got' = got  BY <2>1 DEF Store
  <2>. QED  BY <2>1, <2>2, StaysStore DEF RunPoints
<1>2. CASE Publish
  <2>1. ~ Between  BY <1>2 DEF Publish, Between
  <2>2. q_chunks_flag[prev_head] = "FILLING"  BY <1>0, <2>1 DEF Ring
  <2>. QED  BY <1>0, <1>2, <2>2 DEF Publish, Stays, HasRecord
<1>3. CASE Claim
  <2>1. q_chunks_flag[head] = "AVAILABLE"  BY <1>0, <1>3 DEF Claim, Ring
  <2>. QED  BY <1>0, <1>3, <2>1 DEF Claim, Stays, HasRecord
<1>4. CASE Release
  <2>1. ~ HasRecord(prev_tail, n)
    <3>1. CASE ConsumerHolds
      <4>1. got = upto[prev_tail]
        BY <1>0, <1>4, <3>1 DEF Release, Control, Stream, Reading
      <4>2. q_chunks_flag[prev_tail] = "CONSUMING"  BY <1>0, <3>1 DEF Ring
      <4>3. n >= got  BY <1>0, <1>4 DEF Release
      <4>. QED  BY <1>0, <4>1, <4>2, <4>3 DEF HasRecord
    <3>2. CASE ~ ConsumerHolds
      <4>1. prev_tail # prev_head
        BY <1>0, <1>4, <3>2 DEF Release, ConsumerHolds, Startup, Chunks
      <4>2. q_chunks_flag[prev_tail] = "AVAILABLE"
        BY <1>0, <3>2, <4>1 DEF Ring, Flags
      <4>. QED  BY <4>2 DEF HasRecord
    <3>. QED  BY <3>1, <3>2
  <2>. QED  BY <1>0, <1>4, <2>1 DEF Release, Stays, HasRecord
<1>5. CASE Take
  <2>1. q_chunks_flag[tail] = "FILLED"  BY <1>0, <1>5 DEF Take, Ring
  <2>. QED  BY <1>0, <1>5, <2>1 DEF Take, Stays, HasRecord
<1>6. CASE UNCHANGED <<q_chunks_flag, q_records, first, upto, sent>> /\ got' \in {got, got + 1}
  BY <1>0, <1>6 DEF Stays, HasRecord
<1>7. CASE Kick \/ Spin \/ Wait \/ Reset \/ Switch \/ Quiet \/ Dequeue \/ Await \/ Read
  BY <1>6, <1>7 DEF Kick, Spin, Wait, Reset, Switch, Quiet, vars, Dequeue, Await, Read
<1>8. CASE HandleLoc \/ HandleSync \/ HandleOther
  BY <1>6, <1>8 DEF HandleLoc, HandleSync, HandleOther
<1>. QED
  BY <1>1, <1>2, <1>3, <1>4, <1>5, <1>7, <1>8 DEF Next, Emulator, Routine, Analyser

(* A record handled was there.                                             *)
LEMMA HandlesOne ==
    ASSUME IInv, cpc = "handle"
    PROVE  got < sent
<1>1. ConsumerHolds /\ prev_tail \in Chunks  BY DEF ConsumerHolds, NotStarted, IInv, TypeOK
<1>2. got < upto[prev_tail]  BY <1>1 DEF IInv, Stream, Reading
<1>3. Handed(prev_tail)  BY <1>1 DEF IInv, Ring, Handed
<1>. QED
  BY <1>1, <1>2, <1>3 DEF IInv, Syncs, TypeOK

(* How the numbers change: a store adds one, a turn of analysis_mainloop   *)
(* takes one away, and never both.                                         *)
LEMMA Numbers ==
    ASSUME IInv, Next
    PROVE  /\ got \in Nat /\ sent \in Nat
           /\ \/ sent' = sent /\ got' = got
              \/ sent' = sent + 1 /\ got' = got
              \/ sent' = sent /\ got' = got + 1 /\ got < sent
<1>. USE DEF switch, producer, consumer, history
<1>0. got \in Nat /\ sent \in Nat  BY DEF IInv, TypeOK
<1>1. CASE Emulator
  BY <1>0, <1>1 DEF Emulator, BlockRecord, DiskRecord, TbBegin, SyncBegin, EnqueueLoc,
     EnqueueSync, Store, Routine, Kick, Publish, Spin, Claim, Wait, Reset, Switch, Quiet, vars
<1>2. CASE Analyser
  BY <1>0, <1>2, HandlesOne DEF Analyser, Dequeue, Release, Await, Take, Read, HandleLoc,
     HandleSync, HandleOther
<1>. QED  BY <1>0, <1>1, <1>2 DEF Next

(* A new record goes to the chunk that is filled and is in no other.       *)
LEMMA NewRecord ==
    ASSUME IInv, NEW kind \in Kinds, NEW next \in RunPoints,
           ppc \in RunPoints, Store(kind, next), NEW n, n = sent
    PROVE  /\ prev_head \in Chunks /\ prev_head' = prev_head
           /\ \E i \in Chunks : i = prev_head /\ HasRecord(i, n)'
           /\ \A j \in Chunks : HasRecord(j, n)' => j = prev_head
           /\ q_records'[prev_head][n - first'[prev_head]].kind = kind
<1>. USE StoreFacts DEF consumer
<1>0. /\ q_records \in [Chunks -> [Slots -> Record]] /\ q_chunks_flag \in [Chunks -> Flags]
      /\ prev_head \in Chunks /\ Fill \in Slots
      /\ first \in [Chunks -> Nat] /\ upto \in [Chunks -> Nat] /\ sent \in Nat
      /\ sent = first[prev_head] + Fill
  BY DEF IInv, TypeOK, Stream, Filling
<1>1. ASSUME NEW j \in Chunks, HasRecord(j, n)' PROVE j = prev_head
  <2>1. CASE Handed(j)
    <3>1. upto[j] <= sent  BY <2>1 DEF IInv, Syncs
    <3>2. q_chunks_flag[j] # "FILLING"  BY <2>1 DEF Handed
    <3>. QED  BY <1>0, <1>1, <3>1, <3>2 DEF HasRecord
  <2>2. CASE ~ Handed(j)
    <3>1. q_chunks_flag[j] = "FILLING"  BY <1>0, <1>1, <2>2 DEF HasRecord, Handed, Flags
    <3>. QED  BY <3>1 DEF IInv, Ring
  <2>. QED  BY <2>1, <2>2
<1>2. \E i \in Chunks : i = prev_head /\ HasRecord(i, n)'  BY <1>0 DEF HasRecord, Slots
<1>3. q_records'[prev_head][n - first'[prev_head]].kind = kind
  <2>1. n - first'[prev_head] = Fill  BY <1>0 DEF Slots
  <2>. QED  BY <1>0, <2>1
<1>. QED  BY <1>0, <1>1, <1>2, <1>3

(* Placed holds at the start, where no record is stored.                   *)
LEMMA PlacedInit == Init => Placed
BY DEF Init, Placed

(* A step puts a new record in one chunk and gives no chunk back whose     *)
(* records are not all handled.                                            *)
LEMMA PlacedNext == IInv /\ Placed /\ [Next]_vars => Placed'
<1>. SUFFICES ASSUME IInv, Placed, [Next]_vars PROVE Placed'  OBVIOUS
<1>1. CASE UNCHANGED vars
  BY <1>1 DEF vars, history, Placed, HasRecord
<1>2. CASE Next
  <2>1. got' <= sent'  BY <1>2, Numbers DEF Placed
  <2>2. ASSUME NEW n \in got' .. sent' - 1
        PROVE  \E i \in Chunks : HasRecord(i, n)' /\ \A j \in Chunks : HasRecord(j, n)' => j = i
    <3>1. CASE n \in got' .. sent - 1
      <4>1. Stays(n) /\ n \in got .. sent - 1  BY <1>2, <3>1, StaysNext
      <4>. QED  BY <4>1 DEF Placed, Stays
    <3>2. CASE n \notin got' .. sent - 1
      <4>1. sent' = sent + 1 /\ n = sent
        BY <1>2, <2>2, <3>2, Numbers
      <4>2. BlockRecord \/ DiskRecord \/ TbBegin \/ SyncBegin \/ EnqueueLoc \/ EnqueueSync
        <5>0. sent \in Nat /\ sent' # sent  BY <1>2, <4>1, Numbers
        <5>. QED
          BY <1>2, <5>0 DEF Next, Emulator, Routine, Analyser, Kick, Publish, Spin, Claim, Wait,
             Reset, Switch, Quiet, vars, history, Dequeue, Release, Await, Take, Read, HandleLoc,
             HandleSync, HandleOther
      <4>3. PICK kind \in Kinds, next \in RunPoints : Store(kind, next) /\ ppc \in {"run", "loc", "sync"}
        BY <4>2, StoreActions
      <4>4. ppc \in RunPoints  BY <4>3 DEF RunPoints
      <4>. QED  BY <4>1, <4>3, <4>4, NewRecord
    <3>. QED  BY <3>1, <3>2
  <2>. QED  BY <2>1, <2>2 DEF Placed
<1>. QED  BY <1>1, <1>2

(* The chunk that holds a record gives its kind.                           *)
InChunk ==
    \A j \in 1 .. sent - got : \A i \in Chunks :
      HasRecord(i, got + j - 1) /\ (\A k \in Chunks : HasRecord(k, got + j - 1) => k = i) =>
        Pending[j] = q_records[i][(got + j - 1) - first[i]].kind

(* The kind of a record can be read off the chunk it is in.                *)
LEMMA KindIs == InChunk
<1>. SUFFICES ASSUME NEW j \in 1 .. sent - got, NEW i \in Chunks, HasRecord(i, got + j - 1),
                     \A k \in Chunks : HasRecord(k, got + j - 1) => k = i
              PROVE  Pending[j] = q_records[i][(got + j - 1) - first[i]].kind
  BY Zenon DEF InChunk
<1>1. Pending[j] = KindOf(got + j - 1)  BY DEF Pending
<1>2. ChunkOf(got + j - 1) = i  BY Zenon DEF ChunkOf
<1>. QED  BY <1>1, <1>2 DEF KindOf

(* The same after a step.                                                  *)
LEMMA KindIsNext == InChunk'
BY KindIs, PTL

(* The record with number n, in the chunk i, is the one at its place in    *)
(* the queue.                                                              *)
LEMMA PendingAt ==
    ASSUME IInv, Placed, NEW j \in 1 .. sent - got
    PROVE  \E i \in Chunks : 
              /\ HasRecord(i, got + j - 1)
              /\ \A k \in Chunks : HasRecord(k, got + j - 1) => k = i
              /\ Pending[j] = q_records[i][(got + j - 1) - first[i]].kind
              /\ Pending[j] \in Kinds
<1>0. /\ q_records \in [Chunks -> [Slots -> Record]] /\ q_chunks_flag \in [Chunks -> Flags]
      /\ prev_head \in Chunks /\ enq_off \in Slots
      /\ first \in [Chunks -> Nat] /\ upto \in [Chunks -> Nat] /\ sent \in Nat /\ got \in Nat
  BY DEF IInv, TypeOK
<1>1. got + j - 1 \in got .. sent - 1  BY <1>0
<1>2. PICK i \in Chunks : HasRecord(i, got + j - 1)
                          /\ \A k \in Chunks : HasRecord(k, got + j - 1) => k = i
  BY <1>1, Zenon DEF Placed
<1>3. Pending[j] = q_records[i][(got + j - 1) - first[i]].kind
  BY <1>2, KindIs, Zenon DEF InChunk
<1>4. (got + j - 1) - first[i] \in Slots
  <2>1. CASE Handed(i)
    <3>1. upto[i] <= first[i] + C  BY <2>1 DEF IInv, Stream, Numbered
    <3>2. q_chunks_flag[i] # "FILLING"  BY <2>1 DEF Handed
    <3>. QED  BY <1>0, <1>1, <1>2, <3>1, <3>2 DEF HasRecord, Slots
  <2>2. CASE ~ Handed(i)
    <3>1. q_chunks_flag[i] = "FILLING"  BY <1>0, <1>2, <2>2 DEF HasRecord, Handed, Flags
    <3>2. i = prev_head /\ ~ Between  BY <3>1 DEF IInv, Ring
    <3>3. sent = first[i] + Fill  BY <3>2 DEF IInv, Stream, Filling
    <3>4. Fill \in Nat /\ Fill <= C
      <4>1. Fill = C \/ Fill = enq_off  BY DEF Fill
      <4>. QED  BY <1>0, <4>1 DEF Slots
    <3>5. first[i] <= got + j - 1 /\ got + j - 1 <= sent - 1  BY <1>0, <1>2 DEF HasRecord
    <3>6. first[i] \in Nat /\ got \in Nat /\ sent \in Nat /\ j \in Nat  BY <1>0
    <3>. QED  BY <3>3, <3>4, <3>5, <3>6 DEF Slots
  <2>. QED  BY <2>1, <2>2
<1>5. q_records[i][(got + j - 1) - first[i]].kind \in Kinds
  BY <1>0, <1>4 DEF Record
<1>. QED  BY <1>2, <1>3, <1>5

(* What waits in the ring is a sequence of kinds.                          *)
LEMMA PendingSeq ==
    IInv /\ Placed => Pending \in Seq(Kinds) /\ Len(Pending) = sent - got
<1>. SUFFICES ASSUME IInv, Placed
              PROVE  Pending \in Seq(Kinds) /\ Len(Pending) = sent - got
  OBVIOUS
<1>1. sent - got \in Nat  BY DEF Placed, IInv, TypeOK
<1>2. \A j \in 1 .. sent - got : Pending[j] \in Kinds  BY PendingAt
<1>3. Pending \in [1 .. sent - got -> Kinds]  BY <1>2 DEF Pending
<1>. QED  BY <1>1, <1>3, SeqOfFunction

(* PendingSeq after a step.                                                *)
LEMMA PendingSeqNext ==
    ASSUME IInv, Placed, Next
    PROVE  /\ Pending \in Seq(Kinds) /\ Len(Pending) = sent - got
           /\ Pending' \in Seq(Kinds) /\ Len(Pending') = sent' - got'
<1>1. (IInv /\ Placed => Pending \in Seq(Kinds) /\ Len(Pending) = sent - got)'
  BY PendingSeq, PTL
<1>2. IInv' /\ Placed'  BY Inductive, PlacedNext
<1>. QED  BY <1>1, <1>2, PendingSeq

(* The places of a record before and after some are handled.               *)
LEMMA Places ==
    ASSUME NEW g \in Nat, NEW s \in Nat, NEW h \in Nat, g <= h,
           NEW m \in Int, m >= 1, h + m - 1 <= s - 1
    PROVE  /\ h + m - 1 \in h .. s - 1
           /\ m + (h - g) \in 1 .. s - g
OBVIOUS

(* A record that stays keeps its kind and moves up by the records handled. *)
LEMMA Shift ==
    ASSUME IInv, Placed, Next, NEW g, g = got', NEW r, r = sent',
           NEW m \in 1 .. r - g, g + m - 1 <= sent - 1
    PROVE  /\ m + (g - got) \in 1 .. sent - got
           /\ Pending'[m] = Pending[m + (g - got)]
<1>0. /\ got \in Nat /\ sent \in Nat /\ g \in Nat /\ r \in Nat /\ got <= g
      /\ m \in Int /\ m >= 1
  <2>1. /\ got \in Nat /\ sent \in Nat
        /\ \/ r = sent /\ g = got
           \/ r = sent + 1 /\ g = got
           \/ r = sent /\ g = got + 1 /\ got < sent
    BY Numbers
  <2>. QED  BY <2>1
<1>1. PICK n \in got' .. sent - 1 : n = g + m - 1
  <2>1. g + m - 1 \in g .. sent - 1  BY <1>0, Places, Zenon
  <2>. QED  BY <2>1, Zenon
<1>2. Stays(n) /\ n \in got .. sent - 1  BY StaysNext
<1>3. PICK j \in 1 .. sent - got : j = m + (g - got) /\ got + j - 1 = n
  <2>1. m + (g - got) \in 1 .. sent - got  BY <1>0, Places, Zenon
  <2>2. got + (m + (g - got)) - 1 = n  BY <1>0, <1>1
  <2>. QED  BY <2>1, <2>2, Zenon
<1>4. PICK i \in Chunks : /\ HasRecord(i, n)
                          /\ \A k \in Chunks : HasRecord(k, n) => k = i
                          /\ Pending[j] = q_records[i][n - first[i]].kind
  <2>1. PICK i \in Chunks : /\ HasRecord(i, got + j - 1)
                            /\ \A k \in Chunks : HasRecord(k, got + j - 1) => k = i
                            /\ Pending[j] = q_records[i][(got + j - 1) - first[i]].kind
    BY <1>3, PendingAt
  <2>. QED  BY <1>3, <2>1
<1>5. /\ HasRecord(i, n)'
      /\ \A k \in Chunks : HasRecord(k, n)' => k = i
      /\ Pending[j] = q_records'[i][n - first'[i]].kind
  BY <1>2, <1>4 DEF Stays
<1>6. Pending'[m] = q_records'[i][(g + m - 1) - first'[i]].kind
  <2>1. \A k \in Chunks : HasRecord(k, got + m - 1)' <=> HasRecord(k, n)'
    BY <1>1 DEF HasRecord
  <2>. QED  BY <1>5, <2>1, KindIsNext DEF InChunk
<1>. QED  BY <1>1, <1>3, <1>5, <1>6

-----------------------------------------------------------------------------
(* What each kind of step does to the abstract queue.                      *)

(* No record added, none handled: the queue stays.                         *)
LEMMA PendingKept ==
    ASSUME IInv, Placed, Next, sent' = sent, got' = got
    PROVE  Pending' = Pending
<1>0. got \in Nat /\ sent \in Nat  BY Numbers
<1>1. \A m \in 1 .. sent - got : Pending'[m] = Pending[m]
  <2>. SUFFICES ASSUME NEW m \in 1 .. sent - got PROVE Pending'[m] = Pending[m]  OBVIOUS
  <2>1. got + m - 1 <= sent - 1 /\ m + (got - got) = m  BY <1>0
  <2>2. Pending'[m] = Pending[m + (got - got)]  BY <2>1, Shift
  <2>. QED  BY <2>1, <2>2
<1>. QED  BY <1>1, PendingSeqNext, SeqEqual

(* A record handled: the queue loses its first element.                    *)
LEMMA PendingTail ==
    ASSUME IInv, Placed, Next, sent' = sent, got' = got + 1
    PROVE  Pending # << >> /\ Pending' = Tail(Pending)
<1>0. got \in Nat /\ sent \in Nat /\ got < sent  BY Numbers
<1>1. \A m \in 1 .. sent - (got + 1) : Pending'[m] = Pending[m + 1]
  <2>. SUFFICES ASSUME NEW m \in 1 .. sent - (got + 1) PROVE Pending'[m] = Pending[m + 1]
    OBVIOUS
  <2>1. (got + 1) + m - 1 <= sent - 1 /\ m + ((got + 1) - got) = m + 1  BY <1>0
  <2>2. Pending'[m] = Pending[m + ((got + 1) - got)]  BY <2>1, Shift
  <2>. QED  BY <2>1, <2>2
<1>2. Pending # << >>  BY <1>0, PendingSeqNext, EmptySeq
<1>3. /\ Tail(Pending) \in Seq(Kinds) /\ Len(Tail(Pending)) = sent - (got + 1)
      /\ \A m \in 1 .. sent - (got + 1) : Tail(Pending)[m] = Pending[m + 1]
  <2>1. Len(Pending) - 1 = sent - (got + 1)  BY <1>0, PendingSeqNext
  <2>. QED  BY <1>2, <2>1, PendingSeqNext, HeadTailProperties
<1>. QED  BY <1>1, <1>2, <1>3, PendingSeqNext, SeqEqual

(* A record stored: the queue gets a last element.                         *)
LEMMA PendingAppend ==
    ASSUME IInv, Placed, Next, NEW kind \in Kinds, NEW next \in RunPoints,
           ppc \in RunPoints, Store(kind, next)
    PROVE  Pending' = Append(Pending, kind)
<1>0. got \in Nat /\ sent \in Nat /\ sent' = sent + 1 /\ got' = got /\ got <= sent
  BY Numbers, StoreFacts DEF Placed
<1>1. \A m \in 1 .. sent - got : Pending'[m] = Pending[m]
  <2>. SUFFICES ASSUME NEW m \in 1 .. sent - got PROVE Pending'[m] = Pending[m]  OBVIOUS
  <2>1. got + m - 1 <= sent - 1 /\ m + (got - got) = m /\ m \in 1 .. (sent + 1) - got
    BY <1>0
  <2>2. Pending'[m] = Pending[m + (got - got)]  BY <1>0, <2>1, Shift
  <2>. QED  BY <2>1, <2>2
<1>2. Pending'[sent - got + 1] = kind
  <2>1. PICK n : n = sent  OBVIOUS
  <2>2. PICK m \in 1 .. sent' - got' : m = sent - got + 1 /\ got' + m - 1 = n
    <3>1. /\ sent - got + 1 \in 1 .. (sent + 1) - got
          /\ got + (sent - got + 1) - 1 = sent
      BY <1>0
    <3>. QED  BY <1>0, <2>1, <3>1, Zenon
  <2>3. PICK i \in Chunks :
           /\ HasRecord(i, n)' /\ \A k \in Chunks : HasRecord(k, n)' => k = i
           /\ q_records'[i][n - first'[i]].kind = kind
    BY <2>1, NewRecord
  <2>4. \A k \in Chunks : HasRecord(k, got + m - 1)' <=> HasRecord(k, n)'
    BY <2>2 DEF HasRecord
  <2>5. Pending'[m] = q_records'[i][(got' + m - 1) - first'[i]].kind
    BY <2>3, <2>4, KindIsNext DEF InChunk
  <2>. QED  BY <2>2, <2>3, <2>5
<1>3. /\ Append(Pending, kind) \in Seq(Kinds) /\ Len(Append(Pending, kind)) = sent - got + 1
      /\ \A m \in 1 .. sent - got : Append(Pending, kind)[m] = Pending[m]
      /\ Append(Pending, kind)[sent - got + 1] = kind
  BY PendingSeqNext, AppendProperties
<1>4. Len(Pending') = sent - got + 1  BY <1>0, PendingSeqNext
<1>5. \A m \in 1 .. sent - got + 1 : m \in 1 .. sent - got \/ m = sent - got + 1
  BY <1>0
<1>. QED  BY <1>1, <1>2, <1>3, <1>4, <1>5, PendingSeqNext, SeqEqual

(* The ring starts as an empty queue.                                      *)
LEMMA FifoInit == Init => Fifo!Init
<1>. SUFFICES ASSUME Init PROVE Fifo!Init  OBVIOUS
<1>1. Pending = << >>  BY DEF Init, Pending
<1>2. Waiting = FALSE  BY DEF Init, Waiting, ChunkPoints
<1>. QED  BY <1>1, <1>2, Zenon DEF Fifo!Init

(* Every step of the ring is a step of the queue or leaves it alone.       *)
LEMMA FifoNext ==
    IInv /\ Placed /\ [Next]_vars => [Fifo!Next]_<<Pending, Waiting>>
<1>. SUFFICES ASSUME IInv, Placed, [Next]_vars
              PROVE  Fifo!Next \/ (Pending' = Pending /\ Waiting' = Waiting)
  OBVIOUS
<1>. USE DEF switch, producer, consumer, history
<1>1. CASE UNCHANGED vars
  <2>1. Waiting' = Waiting  BY <1>1 DEF vars, Waiting
  <2>2. Pending' = Pending  BY <1>1 DEF vars, Pending, KindOf, ChunkOf, HasRecord
  <2>. QED  BY <2>1, <2>2
<1>2. CASE Next /\ (BlockRecord \/ DiskRecord \/ TbBegin \/ SyncBegin \/ EnqueueLoc \/ EnqueueSync)
  <2>1. PICK kind \in Kinds, next \in RunPoints :
           /\ Store(kind, next)
           /\ \/ ppc = "run" /\ kind = "data" /\ next = "run"
              \/ ppc = "run" /\ kind = "begin" /\ next = "loc"
              \/ ppc = "loc" /\ kind = "loc" /\ next \in {"run", "sync"}
              \/ ppc = "sync" /\ kind = "sync" /\ next = "kick"
    BY <1>2, StoreActions
  <2>2. ppc \in RunPoints  BY <2>1 DEF RunPoints
  <2>3. Pending' = Append(Pending, kind)  BY <1>2, <2>1, <2>2, PendingAppend
  <2>4. ~ Waiting  BY <2>1 DEF Waiting, ChunkPoints
  <2>5. Waiting' = (next \in {"kick", "wait", "reset"})
    <3>1. Point' = next  BY <2>1, <2>2, StoreFacts
    <3>. QED  BY <3>1 DEF Point, Waiting
  <2>6. Waiting' = (kind = "sync")  BY <2>1, <2>5
  <2>. QED  BY <2>3, <2>4, <2>6, Zenon DEF Fifo!Next, Fifo!Enqueue
<1>3. CASE Next /\ (HandleLoc \/ HandleSync \/ HandleOther)
  <2>1. /\ sent' = sent /\ got' = got + 1 /\ ppc' = ppc /\ ret' = ret
    BY <1>3 DEF HandleLoc, HandleSync, HandleOther
  <2>2. Pending # << >> /\ Pending' = Tail(Pending)  BY <1>3, <2>1, PendingTail
  <2>3. Waiting' = Waiting  BY <2>1 DEF Waiting
  <2>. QED  BY <2>2, <2>3, Zenon DEF Fifo!Next, Fifo!Handle
<1>4. CASE Next /\ Reset
  <2>1. sent' = sent /\ got' = got /\ ppc = "reset" /\ ppc' = "run"  BY <1>4 DEF Reset
  <2>2. Pending' = Pending  BY <1>4, <2>1, PendingKept
  <2>3. got = sent  BY <2>1 DEF IInv, Syncs
  <2>4. Pending = << >>
    <3>1. Len(Pending) = 0 /\ Pending \in Seq(Kinds)
      BY <1>4, <2>3, PendingSeqNext DEF IInv, TypeOK
    <3>. QED  BY <3>1, EmptySeq
  <2>5. Waiting /\ Waiting' = FALSE  BY <2>1 DEF Waiting, ChunkPoints
  <2>. QED  BY <2>2, <2>4, <2>5, Zenon DEF Fifo!Next, Fifo!Return
<1>5. CASE Next /\ (Kick \/ Publish \/ Spin \/ Claim \/ Wait \/ Switch \/ Quiet
                   \/ Dequeue \/ Release \/ Await \/ Take \/ Read)
  <2>1. sent' = sent /\ got' = got
    BY <1>5 DEF Kick, Publish, Spin, Claim, Wait, Switch, Quiet, vars, Dequeue, Release,
       Await, Take, Read
  <2>2. Pending' = Pending  BY <1>5, <2>1, PendingKept
  <2>3. CASE Kick \/ Publish \/ Spin \/ Claim \/ Wait
    <3>1. ret \in RunPoints  BY DEF IInv, TypeOK
    <3>2. Waiting' = Waiting
      <4>. USE DEF Waiting, ChunkPoints
      <4>1. CASE Kick  BY <4>1 DEF Kick
      <4>2. CASE Publish  BY <4>2 DEF Publish
      <4>3. CASE Spin  BY <4>3 DEF Spin
      <4>4. CASE Claim  BY <3>1, <4>4 DEF Claim, RunPoints
      <4>5. CASE Wait  BY <4>5 DEF Wait
      <4>. QED  BY <2>3, <4>1, <4>2, <4>3, <4>4, <4>5
    <3>. QED  BY <2>2, <3>2
  <2>4. CASE ppc' = ppc /\ ret' = ret  BY <2>2, <2>4 DEF Waiting
  <2>. QED
    BY <1>5, <2>3, <2>4 DEF Switch, Quiet, vars, Dequeue, Release, Await, Take, Read
<1>. QED
  BY <1>1, <1>2, <1>3, <1>4, <1>5 DEF Next, Emulator, Routine, Analyser

(* The ring implements the safety part of DiftFifo for every size: the two *)
(* threads see one first-in first-out queue, and dift_sync returns only    *)
(* when it is empty.                                                       *)
THEOREM RingIsFifo == Spec => Fifo!Spec
<1>1. Spec => []Placed
  <2>1. Init => Placed  BY PlacedInit
  <2>2. IInv /\ Placed /\ [Next]_vars => Placed'  BY PlacedNext
  <2>. QED  BY <2>1, <2>2, Invariance, PTL DEF Spec
<1>. QED
  BY <1>1, Invariance, FifoInit, FifoNext, PTL DEF Spec, Fifo!Spec, Fifo!vars

=============================================================================
