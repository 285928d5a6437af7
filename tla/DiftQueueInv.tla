---------------------------- MODULE DiftQueueInv ----------------------------
(***************************************************************************)
(* The inductive invariant of DiftQueue, in three layers: where each       *)
(* thread stands (Control), which flag every chunk carries (Ring), and     *)
(* what the records of the handed-over chunks are (Stream, Frames, Syncs). *)
(***************************************************************************)
EXTENDS DiftQueue

(* The emulation thread has given up prev_head and has not yet claimed the *)
(* next chunk.                                                             *)
Between == ppc \in {"spin", "claim"}

(* The number of records in the chunk that the emulation thread fills.     *)
Fill == IF ppc = "publish" /\ enq_off = 0 THEN C ELSE enq_off

(* The point of the emulation thread's routine, seen through the steps     *)
(* that change the chunk.                                                  *)
Point == IF ppc \in ChunkPoints THEN ret ELSE ppc

(* Where the indices and offsets of each thread stand.                     *)
Control ==
    /\ head = NextChunk(prev_head) /\ enq_chunk = prev_head
    /\ tail = NextChunk(prev_tail)
    /\ ~ NotStarted /\ cpc \notin {"await", "take"} => deq_chunk = prev_tail
    /\ insync => Point \in {"loc", "sync", "kick", "wait", "reset"}
    /\ Point \in {"sync", "kick", "wait", "reset"} => insync
    /\ ppc \in ChunkPoints => ret # "reset"
    /\ Between /\ ret # "wait" => enq_off = 0
    /\ ppc = "publish" => (enq_off = 0 <=> ret # "wait")
    /\ ppc \in {"wait", "reset"} => enq_off = 0
    /\ cpc \in {"release", "await", "take"} => deq_off = 0

(* Before the analysis thread's first store the emulation thread stays     *)
(* clear of chunk Q - 1: only early disk records and one dift_sync.        *)
Startup ==
    NotStarted =>
      /\ tail = 0 /\ prev_tail = Q - 1 /\ deq_off = 0 /\ ~ in_block
      /\ ~ ok_signal /\ ~ BlocksHaveCodes
      /\ head = prev_head + 1 /\ (Point = "loc" => insync)
      /\ prev_head <= EarlyChunks + 2
      /\ ppc = "run" => prev_head <= EarlyChunks
      /\ ppc = "loc" => \/ prev_head <= EarlyChunks
                        \/ prev_head = EarlyChunks + 1 /\ enq_off = 0
      /\ ppc = "sync" => \/ prev_head <= EarlyChunks
                         \/ prev_head = EarlyChunks + 1 /\ enq_off <= 1
      /\ ppc = "kick" => \/ prev_head <= EarlyChunks
                         \/ prev_head = EarlyChunks + 1 /\ enq_off <= 2
      /\ ppc \in ChunkPoints =>
           /\ prev_head <= EarlyChunks + 1
           /\ ret # "wait" => prev_head <= EarlyChunks
           /\ ret = "run" => prev_head < EarlyChunks

(* Who holds which chunk, and that what is FILLED is one run of chunks     *)
(* that starts at the analysis thread's tail and ends at prev_head.        *)
Ring ==
    /\ \A i \in Chunks :
         /\ q_chunks_flag[i] = "FILLING" <=> i = prev_head /\ ~ Between
         /\ q_chunks_flag[i] = "CONSUMING" <=> i = prev_tail /\ ConsumerHolds
         /\ q_chunks_flag[i] = "FILLED" /\ i # prev_head =>
              \/ q_chunks_flag[NextChunk(i)] = "FILLED"
              \/ NextChunk(i) = prev_head /\ ~ Between
         /\ (\/ q_chunks_flag[NextChunk(i)] = "FILLED"
             \/ NextChunk(i) = prev_head /\ ~ Between)
            => NextChunk(i) = tail \/ q_chunks_flag[i] = "FILLED"
    /\ Between => \/ q_chunks_flag[prev_head] = "FILLED"
                  \/ tail = head /\ q_chunks_flag[head] # "FILLED"
    /\ q_chunks_flag[head] = "FILLED" => head = tail
    /\ ppc = "claim" => q_chunks_flag[head] = "AVAILABLE"
    /\ cpc = "take" => q_chunks_flag[tail] = "FILLED"
    /\ \/ q_chunks_flag[tail] = "FILLED"
       \/ tail = prev_head /\ ~ Between
       \/ tail = head /\ Between
    /\ q_chunks_flag[prev_tail] = "FILLED" => prev_tail = prev_head
    /\ q_chunks_flag[prev_tail] \in {"FILLED", "FILLING"} =>
         q_chunks_flag[tail] = "FILLED"


(* Chunk i holds records for the analysis thread.                          *)
Handed(i) == q_chunks_flag[i] \in {"FILLED", "CONSUMING"}

(* The number, and the kind, that the chunk at tail starts with.           *)
TailReady == q_chunks_flag[tail] = "FILLED" \/ (tail = prev_head /\ ~ Between)
TailFirst == IF TailReady THEN first[tail] ELSE sent

(* The slot of the record that the analysis thread has just read.          *)
LastRead == IF deq_off = 0 THEN C - 1 ELSE deq_off - 1

(* The numbers of the records of a chunk are consecutive, and a chunk that *)
(* is handed over half full ends with a SYNC.                              *)
Numbered(i) ==
    /\ first[i] < upto[i] /\ upto[i] <= first[i] + C
    /\ \A k \in Slots : first[i] + k < upto[i] =>
         q_records[i][k].n = first[i] + k
    /\ upto[i] < first[i] + C =>
         q_records[i][upto[i] - 1 - first[i]].kind = "sync"

(* The chunk that the emulation thread fills.                              *)
Filling ==
    /\ ~ Between =>
         /\ sent = first[prev_head] + Fill
         /\ \A k \in Slots : k < Fill =>
              q_records[prev_head][k].n = first[prev_head] + k
    /\ Between => upto[prev_head] = sent

(* The position of the analysis thread in the chunk that it reads.         *)
Reading ==
    /\ cpc = "read" => got = first[prev_tail] + deq_off
    /\ cpc = "handle" => /\ got = first[prev_tail] + LastRead
                         /\ data = q_records[prev_tail][LastRead]
    /\ cpc \in {"read", "handle"} => got < upto[prev_tail]
    /\ cpc = "dequeue" /\ deq_off # 0 =>
         got = first[prev_tail] + deq_off /\ got < upto[prev_tail]
    /\ cpc \in {"dequeue", "release"} /\ deq_off = 0 => got = upto[prev_tail]

(* The numbers run on from chunk to chunk, from the analysis thread's      *)
(* position to the emulation thread's.                                     *)
Stream ==
    /\ \A i \in Chunks : Handed(i) => Numbered(i)
    /\ Filling
    /\ \A i \in Chunks : q_chunks_flag[i] = "FILLED" /\ i # prev_head =>
         upto[i] = first[NextChunk(i)]
    /\ TailFirst = IF ConsumerHolds THEN upto[prev_tail] ELSE got
    /\ ConsumerHolds => Reading

(* The first record of chunk i is the second half of a block begin.        *)
Continues(i) == IF i = prev_head /\ ~ Between /\ Fill = 0
                THEN ppc = "loc"
                ELSE q_records[i][0].kind = "loc"
TailContinues == IF TailReady THEN Continues(tail) ELSE ret = "loc"
LastKind(i) == q_records[i][upto[i] - 1 - first[i]].kind

(* Among the first m records of chunk i a "loc" follows every "begin" and  *)
(* nothing else.                                                           *)
Framed(i, m) ==
    \A k \in 1 .. C - 1 : k < m =>
      (q_records[i][k].kind = "loc" <=> q_records[i][k - 1].kind = "begin")

(* in_block says that the next record of the analysis thread is a "loc".   *)
Framing ==
    /\ cpc \in {"read", "dequeue"} /\ deq_off # 0 =>
         (in_block <=> q_records[prev_tail][deq_off - 1].kind = "begin")
    /\ cpc = "read" /\ deq_off = 0 => (in_block <=> Continues(prev_tail))
    /\ cpc = "handle" => (in_block <=> data.kind = "loc")
    /\ cpc \in {"dequeue", "release"} /\ deq_off = 0 =>
         (in_block <=> LastKind(prev_tail) = "begin")

(* A "loc" follows every "begin" and nothing else, within a chunk and from *)
(* chunk to chunk.                                                         *)
ChunksFramed ==
    \A i \in Chunks : Handed(i) => Framed(i, upto[i] - first[i])
ChunksLinked ==
    \A i \in Chunks : q_chunks_flag[i] = "FILLED" =>
      (LastKind(i) = "begin" <=>
         IF i = prev_head THEN ret = "loc" ELSE Continues(NextChunk(i)))
HeadFramed ==
    ~ Between =>
      /\ Framed(prev_head, Fill)
      /\ Fill # 0 =>
           (q_records[prev_head][Fill - 1].kind = "begin" <=> Point = "loc")
ReaderFramed ==
    IF ConsumerHolds
    THEN Framing /\ (LastKind(prev_tail) = "begin" <=> TailContinues)
    ELSE in_block <=> TailContinues
Frames == ChunksFramed /\ ChunksLinked /\ HeadFramed /\ ReaderFramed

(* A SYNC not yet handled is the last record of all, its sender has handed *)
(* it over and waits, and the signal is down; the signal is up only when   *)
(* everything is handled.                                                  *)
Awaiting == \/ Between /\ ret \in {"kick", "wait"}
            \/ ppc \in {"kick", "wait"} /\ enq_off = 0
Syncs ==
    /\ \A i \in Chunks : Handed(i) => upto[i] <= sent
    /\ \A i \in Chunks, k \in Slots :
         Handed(i) /\ first[i] + k < upto[i] /\ got <= first[i] + k
           /\ q_records[i][k].kind = "sync" =>
             first[i] + k + 1 = sent /\ upto[i] = sent /\ Awaiting /\ ~ ok_signal
    /\ ~ Between => \A k \in Slots :
         k < Fill /\ q_records[prev_head][k].kind = "sync" =>
           k + 1 = Fill /\ Point \in {"kick", "wait"} /\ ~ ok_signal
    /\ ok_signal => got = sent /\ (Awaiting \/ ppc = "reset")
    /\ ppc = "reset" => ok_signal
    /\ (ppc = "publish" /\ ret = "wait") \/ (ppc = "kick" /\ enq_off # 0) =>
         q_records[prev_head][Fill - 1].kind = "sync"

IInv == TypeOK /\ Control /\ Startup /\ Ring /\ Stream /\ Frames /\ Syncs

=============================================================================
