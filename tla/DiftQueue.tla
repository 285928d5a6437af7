------------------------------ MODULE DiftQueue ------------------------------
(***************************************************************************)
(* The record queue between the emulation thread (producer) and the DIFT   *)
(* analysis thread (consumer): ext/dift/dift.c.                            *)
(*                                                                         *)
(* q_records is a ring of Q chunks of C records.  A chunk is handed over   *)
(* by its flag only, AVAILABLE -> FILLING -> FILLED -> CONSUMING ->        *)
(* AVAILABLE, and every access to a flag is a step of its own.  A record   *)
(* is abstracted to its number in the order of enqueueing and its kind:    *)
(* "begin" and "loc" are the pair that closes a code block, "sync" is      *)
(* REC_SYNC, "data" is every other record or address.                      *)
(*                                                                         *)
(* Memory is sequentially consistent: on x86 the stores of one thread are  *)
(* seen in order, and each thread publishes by a store that follows its    *)
(* accesses to the chunk (with an mfence on the producer's side).          *)
(***************************************************************************)
EXTENDS Integers

CONSTANTS
    Q,            \* Q_CHUNKS_SIZE
    C,            \* SIZE_OF_CHUNK / sizeof(uint64_t)
    EarlyChunks,  \* scheduling assumption, see DiskRecord
    MaxRecords    \* bound: number of records a behaviour enqueues

ASSUME QueueAssumption ==
    /\ Q \in Nat /\ C \in Nat /\ C >= 3
    /\ EarlyChunks \in Nat /\ EarlyChunks + 4 <= Q
    /\ MaxRecords \in Nat

Chunks == 0 .. Q - 1
Slots  == 0 .. C - 1
Flags  == {"AVAILABLE", "FILLING", "FILLED", "CONSUMING"}
Kinds  == {"data", "begin", "loc", "sync"}
Record == [n : Nat, kind : Kinds]

VARIABLES
    q_chunks_flag,   \* chunk -> flag
    q_records,       \* chunk -> slot -> record
    head, prev_head, \* producer's indices
    enq_chunk, enq_off,   \* enqptr; enq_off = 0 iff it is on a chunk boundary
    ppc,             \* where the emulation thread is
    ret,             \* where it continues once it has a new chunk
    insync,          \* it is inside dift_sync
    dift_enabled, dift_switch_pending,
    tail, prev_tail, \* consumer's indices
    deq_chunk, deq_off,   \* deqptr; deq_off = 0 iff NULL or on a boundary
    cpc,             \* where the analysis thread is
    in_block,        \* it is inside interpret_dift_codes, reading the "loc"
    data,            \* result of the last rec_dequeue
    ok_signal,       \* dift_thread_ok_signal
    sent, got,       \* history: records enqueued, records handled
    first, upto      \* history: numbers of the records of each chunk

producer == <<head, prev_head, enq_chunk, enq_off, ppc, ret, insync>>
switch   == <<dift_enabled, dift_switch_pending>>
consumer == <<tail, prev_tail, deq_chunk, deq_off, cpc, in_block, data>>
history  == <<sent, got, first, upto>>
vars     == <<q_chunks_flag, q_records, producer, switch, consumer, ok_signal,
              history>>

RunPoints  == {"run", "loc", "sync", "kick", "wait", "reset"}
ChunkPoints == {"publish", "spin", "claim"}
ConsumerPoints == {"dequeue", "release", "await", "take", "read", "handle"}

NextChunk(i) == (i + 1) % Q

-----------------------------------------------------------------------------
(* dift_start: init_queue and init_dift_context, then the thread starts.   *)
Init ==
    /\ q_chunks_flag = [i \in Chunks |->
                          IF i = 0 THEN "FILLING" ELSE "AVAILABLE"]
    /\ q_records = [i \in Chunks |->
                      [k \in Slots |-> [n |-> 0, kind |-> "data"]]]
    /\ head = 1 /\ prev_head = 0
    /\ enq_chunk = 0 /\ enq_off = 0
    /\ ppc = "run" /\ ret = "run" /\ insync = FALSE
    /\ dift_enabled = FALSE /\ dift_switch_pending = FALSE
    /\ tail = 0 /\ prev_tail = Q - 1
    /\ deq_chunk = 0 /\ deq_off = 0
    /\ cpc = "dequeue" /\ in_block = FALSE
    /\ data = [n |-> 0, kind |-> "data"]
    /\ ok_signal = FALSE
    /\ sent = 0 /\ got = 0
    /\ first = [i \in Chunks |-> 0] /\ upto = [i \in Chunks |-> 0]

-----------------------------------------------------------------------------
(* Emulation thread.                                                       *)

(* dift_rec_enqueue and its generated twins: store at enqptr and advance;  *)
(* at the end of the chunk the routine goes on to publish it.              *)
Store(kind, next) ==
    /\ q_records' = [q_records EXCEPT ![enq_chunk][enq_off] =
                         [n |-> sent, kind |-> kind]]
    /\ enq_off' = (enq_off + 1) % C
    /\ sent' = sent + 1
    /\ IF enq_off' = 0
       THEN ppc' = "publish" /\ ret' = next
       ELSE ppc' = next /\ UNCHANGED ret
    /\ UNCHANGED <<q_chunks_flag, head, prev_head, enq_chunk, switch, consumer,
                   ok_signal, got, first, upto>>

(* The translated code of a block carries DIFT records only if it was      *)
(* translated with DIFT enabled, and the cpu loop flushes every block      *)
(* before it goes on after a switch.                                       *)
BlocksHaveCodes == dift_enabled /\ ~ dift_switch_pending

BlockRecord ==
    /\ ppc = "run" /\ sent < MaxRecords
    /\ BlocksHaveCodes
    /\ Store("data", "run")
    /\ UNCHANGED insync

(* The analysis thread has not yet made the store that opens its first     *)
(* next_block, which marks chunk Q - 1 AVAILABLE.                          *)
NotStarted == got = 0 /\ cpc \in {"dequeue", "release"}

(* A disk transfer may be recorded as soon as DIFT is enabled, before the  *)
(* flush and its dift_sync.  Assumption: the records that come before the  *)
(* analysis thread is first scheduled leave it a part of the ring.         *)
DiskRecord ==
    /\ ppc = "run" /\ sent < MaxRecords
    /\ dift_enabled
    /\ NotStarted => prev_head < EarlyChunks
    /\ Store("data", "run")
    /\ UNCHANGED insync

(* The prologue of a code block enqueues BEFORE_BLOCK_BEGIN and the word   *)
(* that locates the codes of the previous block.                           *)
TbBegin ==
    /\ ppc = "run" /\ sent + 1 < MaxRecords
    /\ BlocksHaveCodes
    /\ Store("begin", "loc")
    /\ UNCHANGED insync

(* dift_sync, called by tb_flush and by the translator when it translates  *)
(* the running block again.                                                *)
SyncBegin ==
    /\ ppc = "run" /\ sent + 2 < MaxRecords
    /\ Store("begin", "loc")
    /\ insync' = TRUE

EnqueueLoc ==
    /\ ppc = "loc"
    /\ Store("loc", IF insync THEN "sync" ELSE "run")
    /\ UNCHANGED insync

EnqueueSync ==
    /\ ppc = "sync"
    /\ Store("sync", "kick")
    /\ UNCHANGED insync

(* Mutant: a half-filled chunk is not handed over before the wait.         *)
KickNothing ==
    /\ ppc = "kick"
    /\ ppc' = "wait"
    /\ UNCHANGED <<q_chunks_flag, q_records, head, prev_head, enq_chunk,
                   enq_off, ret, insync, switch, consumer, ok_signal, history>>

(* kick_enqptr: nothing to do on a chunk boundary, else publish the        *)
(* partially filled chunk.                                                 *)
Kick ==
    /\ ppc = "kick"
    /\ IF enq_off = 0
       THEN ppc' = "wait" /\ UNCHANGED ret
       ELSE ppc' = "publish" /\ ret' = "wait"
    /\ UNCHANGED <<q_chunks_flag, q_records, head, prev_head, enq_chunk,
                   enq_off, insync, switch, consumer, ok_signal, history>>

Publish ==
    /\ ppc = "publish"
    /\ q_chunks_flag' = [q_chunks_flag EXCEPT ![prev_head] = "FILLED"]
    /\ upto' = [upto EXCEPT ![prev_head] = sent]
    /\ ppc' = "spin"
    /\ UNCHANGED <<q_records, head, prev_head, enq_chunk, enq_off, ret,
                   insync, switch, consumer, ok_signal, sent, got, first>>

(* Mutant: a chunk that is being read counts as free.                      *)
SpinFilled ==
    /\ ppc = "spin"
    /\ q_chunks_flag[head] # "FILLED"
    /\ ppc' = "claim"
    /\ UNCHANGED <<q_chunks_flag, q_records, head, prev_head, enq_chunk,
                   enq_off, ret, insync, switch, consumer, ok_signal, history>>

(* The spin on the flag of the next chunk.                                 *)
Spin ==
    /\ ppc = "spin"
    /\ q_chunks_flag[head] = "AVAILABLE"
    /\ ppc' = "claim"
    /\ UNCHANGED <<q_chunks_flag, q_records, head, prev_head, enq_chunk,
                   enq_off, ret, insync, switch, consumer, ok_signal, history>>

Claim ==
    /\ ppc = "claim"
    /\ q_chunks_flag' = [q_chunks_flag EXCEPT ![head] = "FILLING"]
    /\ enq_chunk' = head /\ enq_off' = 0
    /\ prev_head' = head
    /\ head' = NextChunk(head)
    /\ first' = [first EXCEPT ![head] = sent]
    /\ ppc' = ret
    /\ UNCHANGED <<q_records, ret, insync, switch, consumer, ok_signal, sent,
                   got, upto>>

(* Mutant: dift_sync does not wait.                                        *)
WaitNot ==
    /\ ppc = "wait"
    /\ ppc' = "reset"
    /\ UNCHANGED <<q_chunks_flag, q_records, head, prev_head, enq_chunk,
                   enq_off, ret, insync, switch, consumer, ok_signal, history>>

(* wait_dift_analysis and the end of dift_sync.  The flush that answers a   *)
(* pending switch then clears it; the other callers leave it.              *)
Wait ==
    /\ ppc = "wait"
    /\ ok_signal
    /\ ppc' = "reset"
    /\ UNCHANGED <<q_chunks_flag, q_records, head, prev_head, enq_chunk,
                   enq_off, ret, insync, switch, consumer, ok_signal, history>>

(* Mutant: dift_sync leaves the signal up.                                 *)
ResetKeepsSignal ==
    /\ ppc = "reset"
    /\ insync' = FALSE
    /\ dift_switch_pending' \in {dift_switch_pending, FALSE}
    /\ ppc' = "run"
    /\ UNCHANGED <<q_chunks_flag, q_records, head, prev_head, enq_chunk,
                   enq_off, ret, dift_enabled, consumer, ok_signal, history>>

Reset ==
    /\ ppc = "reset"
    /\ ok_signal' = FALSE
    /\ insync' = FALSE
    /\ dift_switch_pending' \in {dift_switch_pending, FALSE}
    /\ ppc' = "run"
    /\ UNCHANGED <<q_chunks_flag, q_records, head, prev_head, enq_chunk,
                   enq_off, ret, dift_enabled, consumer, history>>

(* dift_enable and dift_disable, called by the monitor under the global    *)
(* lock, so never in the middle of the emulation thread's routines.        *)
Switch ==
    /\ ppc = "run"
    /\ dift_enabled' = ~ dift_enabled
    /\ dift_switch_pending' = TRUE
    /\ UNCHANGED <<q_chunks_flag, q_records, producer, consumer, ok_signal,
                   history>>

-----------------------------------------------------------------------------
(* Analysis thread.                                                        *)

(* rec_dequeue: a NULL or exhausted deqptr asks for the next chunk.        *)
Dequeue ==
    /\ cpc = "dequeue"
    /\ cpc' = IF deq_off = 0 THEN "release" ELSE "read"
    /\ UNCHANGED <<q_chunks_flag, q_records, producer, switch, tail, prev_tail,
                   deq_chunk, deq_off, in_block, data, ok_signal, history>>

(* Mutant: the chunk that was read is not given back.                      *)
ReleaseNothing ==
    /\ cpc = "release"
    /\ cpc' = "await"
    /\ UNCHANGED <<q_chunks_flag, q_records, producer, switch, tail, prev_tail,
                   deq_chunk, deq_off, in_block, data, ok_signal, history>>

(* next_block, in its four accesses.                                       *)
Release ==
    /\ cpc = "release"
    /\ q_chunks_flag' = [q_chunks_flag EXCEPT ![prev_tail] = "AVAILABLE"]
    /\ cpc' = "await"
    /\ UNCHANGED <<q_records, producer, switch, tail, prev_tail, deq_chunk,
                   deq_off, in_block, data, ok_signal, history>>

Await ==
    /\ cpc = "await"
    /\ q_chunks_flag[tail] = "FILLED"
    /\ cpc' = "take"
    /\ UNCHANGED <<q_chunks_flag, q_records, producer, switch, tail, prev_tail,
                   deq_chunk, deq_off, in_block, data, ok_signal, history>>

Take ==
    /\ cpc = "take"
    /\ q_chunks_flag' = [q_chunks_flag EXCEPT ![tail] = "CONSUMING"]
    /\ deq_chunk' = tail /\ deq_off' = 0
    /\ prev_tail' = tail
    /\ tail' = NextChunk(tail)
    /\ cpc' = "read"
    /\ UNCHANGED <<q_records, producer, switch, in_block, data, ok_signal,
                   history>>

Read ==
    /\ cpc = "read"
    /\ data' = q_records[deq_chunk][deq_off]
    /\ deq_off' = (deq_off + 1) % C
    /\ cpc' = "handle"
    /\ UNCHANGED <<q_chunks_flag, q_records, producer, switch, tail, prev_tail,
                   deq_chunk, in_block, ok_signal, history>>

(* One turn of analysis_mainloop.  A block begin is followed by one more   *)
(* rec_dequeue in interpret_dift_codes, whose result is not compared with  *)
(* anything.                                                               *)
HandleLoc ==
    /\ cpc = "handle" /\ in_block
    /\ in_block' = FALSE
    /\ got' = got + 1
    /\ cpc' = "dequeue"
    /\ UNCHANGED <<q_chunks_flag, q_records, producer, switch, tail, prev_tail,
                   deq_chunk, deq_off, data, ok_signal, sent, first, upto>>

(* Mutant: the analysis thread goes on reading the chunk after a SYNC.     *)
HandleSyncReadsOn ==
    /\ cpc = "handle" /\ ~ in_block /\ data.kind = "sync"
    /\ ok_signal' = TRUE
    /\ got' = got + 1
    /\ cpc' = "dequeue"
    /\ UNCHANGED <<q_chunks_flag, q_records, producer, switch, tail, prev_tail,
                   deq_chunk, deq_off, in_block, data, sent, first, upto>>

HandleSync ==
    /\ cpc = "handle" /\ ~ in_block /\ data.kind = "sync"
    /\ ok_signal' = TRUE
    /\ deq_off' = 0
    /\ got' = got + 1
    /\ cpc' = "dequeue"
    /\ UNCHANGED <<q_chunks_flag, q_records, producer, switch, tail, prev_tail,
                   deq_chunk, in_block, data, sent, first, upto>>

(* Mutant: the location word is not taken from the queue.                  *)
HandleOtherLeavesLoc ==
    /\ cpc = "handle" /\ ~ in_block /\ data.kind # "sync"
    /\ got' = got + 1
    /\ cpc' = "dequeue"
    /\ UNCHANGED <<q_chunks_flag, q_records, producer, switch, tail, prev_tail,
                   deq_chunk, deq_off, in_block, data, ok_signal, sent, first,
                   upto>>

HandleOther ==
    /\ cpc = "handle" /\ ~ in_block /\ data.kind # "sync"
    /\ in_block' = (data.kind = "begin")
    /\ got' = got + 1
    /\ cpc' = "dequeue"
    /\ UNCHANGED <<q_chunks_flag, q_records, producer, switch, tail, prev_tail,
                   deq_chunk, deq_off, data, ok_signal, sent, first, upto>>

-----------------------------------------------------------------------------

(* The emulation thread may go on for ever without enqueueing anything,    *)
(* and the loops that wait for a flag or for the signal turn on the spot.  *)
Quiet ==
    /\ \/ ppc = "run"
       \/ ppc = "spin" /\ q_chunks_flag[head] # "AVAILABLE"
       \/ ppc = "wait" /\ ~ ok_signal
       \/ cpc = "await" /\ q_chunks_flag[tail] # "FILLED"
    /\ UNCHANGED vars

(* The steps of a routine that the emulation thread has entered.           *)
Routine == \/ EnqueueLoc \/ EnqueueSync \/ Kick \/ Publish \/ Spin \/ Claim
           \/ Wait \/ Reset

Emulator == \/ BlockRecord \/ DiskRecord \/ TbBegin \/ SyncBegin
            \/ Switch \/ Routine \/ Quiet
Analyser == \/ Dequeue \/ Release \/ Await \/ Take \/ Read
            \/ HandleLoc \/ HandleSync \/ HandleOther

Next == Emulator \/ Analyser

Spec == Init /\ [][Next]_vars

(* Both threads run; the emulation thread need not start a new routine.    *)
FairSpec == Spec /\ WF_vars(Routine) /\ WF_vars(Analyser)

-----------------------------------------------------------------------------
TypeOK ==
    /\ q_chunks_flag \in [Chunks -> Flags]
    /\ q_records \in [Chunks -> [Slots -> Record]]
    /\ head \in Chunks /\ prev_head \in Chunks
    /\ enq_chunk \in Chunks /\ enq_off \in Slots
    /\ ppc \in RunPoints \cup ChunkPoints /\ ret \in RunPoints
    /\ insync \in BOOLEAN
    /\ dift_enabled \in BOOLEAN /\ dift_switch_pending \in BOOLEAN
    /\ tail \in Chunks /\ prev_tail \in Chunks
    /\ deq_chunk \in Chunks /\ deq_off \in Slots
    /\ cpc \in ConsumerPoints /\ in_block \in BOOLEAN
    /\ data \in Record
    /\ ok_signal \in BOOLEAN
    /\ sent \in Nat /\ got \in Nat
    /\ first \in [Chunks -> Nat] /\ upto \in [Chunks -> Nat]

ProducerHolds == ppc \in RunPoints \cup {"publish"}
ConsumerHolds == /\ cpc \in {"dequeue", "release", "read", "handle"}
                 /\ ~ NotStarted

(* The two threads never work on the same chunk: the emulation thread      *)
(* never fills a chunk that rec_dequeue is still reading.                  *)
ChunkExclusion ==
    ProducerHolds /\ ConsumerHolds => enq_chunk # deq_chunk

(* Records are handled in the order of enqueueing, none lost, repeated or  *)
(* read from a stale slot, across chunk ends and chunks that kick_enqptr   *)
(* hands over half full.                                                   *)
InOrder == cpc = "handle" => data.n = got

(* dift_sync returns only when every record enqueued so far is handled:    *)
(* the signal is never left over from an earlier sync.                     *)
SyncDrains == ok_signal => got = sent

(* The word that interpret_dift_codes takes unseen from the queue is the   *)
(* location word of a block, and the main loop never takes one for data.   *)
WellFramed == cpc = "handle" => (in_block <=> data.kind = "loc")

(* dift_sync, which spins in kick_enqptr and in wait_dift_analysis,        *)
(* returns.                                                                *)
SyncReturns == insync ~> ~ insync

(* An emulation thread that finds the ring full gets its next chunk.       *)
SpinEnds == ppc = "spin" ~> ppc = "claim"

=============================================================================
