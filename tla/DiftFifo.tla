------------------------------ MODULE DiftFifo ------------------------------
(***************************************************************************)
(* What the record queue of ext/dift/dift.c promises: an unbounded queue   *)
(* of records in order, and dift_sync as a barrier.                        *)
(***************************************************************************)
EXTENDS Sequences

CONSTANT Kinds   \* kinds of records, "sync" among them

VARIABLES
    pending,   \* kinds of the records enqueued and not yet handled
    waiting    \* the emulation thread is in dift_sync, past its REC_SYNC

vars == <<pending, waiting>>

Init == pending = << >> /\ waiting = FALSE

Enqueue(kind) ==
    /\ ~ waiting
    /\ pending' = Append(pending, kind)
    /\ waiting' = (kind = "sync")

Handle ==
    /\ pending # << >>
    /\ pending' = Tail(pending)
    /\ UNCHANGED waiting

(* dift_sync returns once nothing is left.                                 *)
Return ==
    /\ waiting /\ pending = << >>
    /\ waiting' = FALSE
    /\ UNCHANGED pending

Next == (\E kind \in Kinds : Enqueue(kind)) \/ Handle \/ Return

Spec == Init /\ [][Next]_vars

(* Records are certain to be handled only once somebody waits for them:    *)
(* until then they may sit in a chunk that is not full.                    *)
FairSpec == Spec /\ WF_vars(waiting /\ Handle) /\ WF_vars(Return)

=============================================================================
