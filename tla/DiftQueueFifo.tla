---------------------------- MODULE DiftQueueFifo ----------------------------
(***************************************************************************)
(* The ring of chunks implements the queue of DiftFifo.                    *)
(***************************************************************************)
EXTENDS DiftQueue, Sequences

(* Chunk j holds the record with number n: it is being filled, or it is    *)
(* handed over and not yet given back.                                     *)
HasRecord(j, n) ==
    /\ q_chunks_flag[j] # "AVAILABLE"
    /\ first[j] <= n
    /\ q_chunks_flag[j] = "FILLING" \/ n < upto[j]

(* The kind of the record with number n.                                   *)
ChunkOf(n) == CHOOSE j \in Chunks : HasRecord(j, n)
KindOf(n)  == q_records[ChunkOf(n)][n - first[ChunkOf(n)]].kind

(* The records that are not handled yet, and a dift_sync past its record.  *)
Pending == [j \in 1 .. sent - got |-> KindOf(got + j - 1)]
Waiting ==
    (IF ppc \in ChunkPoints THEN ret ELSE ppc) \in {"kick", "wait", "reset"}

Fifo == INSTANCE DiftFifo WITH pending <- Pending, waiting <- Waiting

(* Through all splitting into chunks, partial chunks and reuse of chunks,  *)
(* the two threads see one first-in first-out queue, and dift_sync returns *)
(* only when, and as soon as, that queue is empty.                         *)
IsFifo == Fifo!FairSpec

=============================================================================
