------------------------------- MODULE DiftDma -------------------------------
(***************************************************************************)
(* Disk transfers and the records DIFT makes of them.  A DMA request walks  *)
(* the scatter-gather list of its device in rounds: dma_blk_cb maps as much *)
(* memory as it can get, hands it to the block layer and is called again    *)
(* when that is done (dma-helpers.c).  The block layer runs every request,  *)
(* DMA or not, in a coroutine (block/io.c), which at its end enqueues one   *)
(* record for each entry of the list.  That a request is one of DMA it      *)
(* learns from the global last_blk_io_dma.                                  *)
(*                                                                          *)
(* Everything runs in the main loop, so a step is what happens from one     *)
(* callback to its return: a coroutine may finish at once or yield.         *)
(***************************************************************************)
EXTENDS Integers, SequencesExt

CONSTANTS
    Dma,        \* DMA requests
    Plain,      \* other requests of the block layer (PIO, multiwrite)
    Sg,         \* Sg[r]: the list of [base, len]
    Sector,     \* Sector[r]: where the transfer starts on the disk
    Write,      \* Write[r]: to the disk
    SECTOR,     \* BDRV_SECTOR_SIZE
    MaxFails    \* bound: maps that give nothing

Requests == Dma \cup Plain

ASSUME DmaAssumption ==
    /\ Dma \cap Plain = {} /\ SECTOR \in Nat \ {0} /\ MaxFails \in Nat
    /\ \A r \in Dma : Sector[r] \in Nat /\ Write[r] \in BOOLEAN
    /\ \A r \in Dma : \A i \in DOMAIN Sg[r] : Sg[r][i].base \in Nat /\ Sg[r][i].len \in Nat \ {0}

VARIABLES
    last_blk_io_dma,
    dift,        \* dift_is_enabled
    st,          \* request -> "new", "wait" for memory, "io", "bh" (done, its
                 \* callback scheduled), "failed" (likewise, with an error),
                 \* "over", "error", "dead" (cancelled while it waited)
    dbs,         \* request -> what its coroutine takes for a DMAAIOCB, or NULL
    pos,         \* DMA request -> sg_cur_index and sg_cur_byte, as a position
    round,       \* DMA request -> [start, size, sector] of the current round
    book,        \* what was transferred and recorded, see NoBook
    split,       \* history: requests not transferred in one round
    cut,         \* history: requests of which the end of a round was discarded
    fails        \* maps that gave nothing

vars == <<last_blk_io_dma, dift, st, dbs, pos, round, book, split, cut, fails>>

NULL == "null"
NoRound == [start |-> 0, size |-> 0, sector |-> 0]

\* The bytes a request transferred and the bytes in its records, both as
\* <<write, memory, disk>>; the requests done in one round that ended with
\* DIFT disabled; whether a DMA request was refused since the last reset of the flag.
NoBook == [moved |-> [r \in Dma |-> {}], recorded |-> [r \in Dma |-> {}],
           missed |-> {}, aborted |-> FALSE]

Init ==
    /\ last_blk_io_dma = FALSE /\ dift \in BOOLEAN /\ fails = 0
    /\ st = [r \in Requests |-> "new"] /\ dbs = [r \in Requests |-> NULL]
    /\ pos = [r \in Dma |-> 0]
    /\ round = [r \in Dma |-> [NoRound EXCEPT !.sector = Sector[r]]]
    /\ book = NoBook /\ split = {} /\ cut = {}

-----------------------------------------------------------------------------
(* The list.                                                               *)

Before(r, i) == FoldLeft(LAMBDA n, e : n + e.len, 0, SubSeq(Sg[r], 1, i - 1))
Total(r)     == Before(r, Len(Sg[r]) + 1)

\* The entries the position is behind: 0 .. sg_cur_index - 1.
Passed(r, p) == {i \in DOMAIN Sg[r] : Before(r, i + 1) <= p}

\* The bytes of entry i, the first of them at address disk.
Bytes(r, i, disk) ==
    {<<Write[r], Sg[r][i].base + k, disk + k>> : k \in 0 .. Sg[r][i].len - 1}

\* The bytes round t transfers: size bytes of the list, from start on.
Transfer(r, t) ==
    LET first == t.sector * SECTOR
    IN  {b \in UNION {Bytes(r, i, first + Before(r, i) - t.start) : i \in DOMAIN Sg[r]} :
           b[3] \in first .. first + t.size - 1}

\* The bytes in the records at the end of round t: every entry so far, as if
\* the list started with this round; nothing at address 0.
Recorded(r, t, p) ==
    UNION {Bytes(r, i, (t.sector * SECTOR) + Before(r, i)) :
             i \in {j \in Passed(r, p) : Sg[r][j].base # 0}}

-----------------------------------------------------------------------------
(* The coroutine of request r.  Steps that follow each other in one callback *)
(* pass the flag and the book on: flag and bk are their values so far.      *)

\* The opaque of the request is taken for a DMAAIOCB when the flag is set.
TakesFor(r, flag) == IF flag THEN r ELSE NULL

\* The book at the end of bdrv_co_do_rw.  What is recorded of a request that
\* is mistaken for one of DMA is whatever its opaque holds: not modelled.
Ended(bk, r, t, p, taken, ok) ==
    IF r \in Plain THEN [bk EXCEPT !.aborted = FALSE]
    ELSE [moved    |-> IF ok THEN [bk.moved EXCEPT ![r] = @ \cup Transfer(r, t)] ELSE bk.moved,
          recorded |-> IF ok /\ taken = r /\ dift
                       THEN [bk.recorded EXCEPT ![r] = @ \cup Recorded(r, t, p)]
                       ELSE bk.recorded,
          missed   |-> IF dift \/ t.size # Total(r) THEN bk.missed ELSE bk.missed \cup {r},
          aborted  |-> FALSE]

\* The flag stays as it is.
FlagAfter_kept(flag) == flag

\* It resets the flag.
FlagAfter(flag) == FALSE

\* bdrv_co_do_rw yields: the request is under way.
Yields(r, flag, bk) ==
    /\ st' = [st EXCEPT ![r] = "io"]
    /\ dbs' = [dbs EXCEPT ![r] = TakesFor(r, flag)]
    /\ last_blk_io_dma' = flag
    /\ book' = bk

\* It ends before it yields: bdrv_co_maybe_schedule_bh.
AtOnce(r, t, p, flag, bk, ok) ==
    /\ st' = [st EXCEPT ![r] = IF ok THEN "bh" ELSE "failed"]
    /\ dbs' = [dbs EXCEPT ![r] = NULL]
    /\ last_blk_io_dma' = FlagAfter(flag)
    /\ book' = Ended(bk, r, t, p, TakesFor(r, flag), ok)

\* blk_check_request refuses: abort_aio_request, and no coroutine.
Refused(r, flag, bk) ==
    /\ st' = [st EXCEPT ![r] = "failed"]
    /\ dbs' = [dbs EXCEPT ![r] = NULL]
    /\ last_blk_io_dma' = flag
    /\ book' = [bk EXCEPT !.aborted = @ \/ r \in Dma]

Io(r, t, p, flag, bk) ==
    \/ Yields(r, flag, bk)
    \/ \E ok \in BOOLEAN : AtOnce(r, t, p, flag, bk, ok)
    \/ Refused(r, flag, bk)

-----------------------------------------------------------------------------
(* dma_blk_cb.                                                             *)

\* Every round starts at the first sector.
NextSector_first(r) == round[r].sector

\* The next sector: behind what the last round transferred.
NextSector(r) == round[r].sector + (round[r].size \div SECTOR)

\* Nothing could be mapped: wait until cpu_notify_map_clients.
MapWait(r, flag, bk) ==
    /\ fails < MaxFails /\ fails' = fails + 1
    /\ st' = [st EXCEPT ![r] = "wait"]
    /\ dbs' = [dbs EXCEPT ![r] = NULL]
    /\ round' = [round EXCEPT ![r] = [start |-> pos[r], size |-> 0, sector |-> NextSector(r)]]
    /\ last_blk_io_dma' = flag /\ book' = bk
    /\ UNCHANGED <<pos, split, cut>>

\* Memory was mapped up to position p; the part of a sector at the end is
\* discarded, and the position stays behind it.
Round(r, p, flag, bk) ==
    LET size == ((p - pos[r]) \div SECTOR) * SECTOR
        t    == [start |-> pos[r], size |-> size, sector |-> NextSector(r)]
    IN  /\ pos' = [pos EXCEPT ![r] = p]
        /\ round' = [round EXCEPT ![r] = t]
        /\ split' = IF size = Total(r) THEN split ELSE split \cup {r}
        /\ cut' = IF size = p - pos[r] THEN cut ELSE cut \cup {r}
        /\ Io(r, t, p, flag, bk)
        /\ UNCHANGED fails

\* dma_complete: unmap, and the callback of the device.
dma_complete(r, ok, flag, bk) ==
    /\ st' = [st EXCEPT ![r] = IF ok THEN "over" ELSE "error"]
    /\ dbs' = [dbs EXCEPT ![r] = NULL]
    /\ last_blk_io_dma' = flag /\ book' = bk
    /\ UNCHANGED <<pos, round, split, cut, fails>>

Walk(r, ok, flag, set, bk) ==
    IF ~ ok \/ pos[r] = Total(r) THEN dma_complete(r, ok, flag, bk)
    ELSE \/ MapWait(r, flag, bk)
         \/ \E p \in pos[r] + 1 .. Total(r) : Round(r, p, set, bk)

\* The flag is not set before the request is handed on.
dma_blk_cb_unset(r, ok, flag, bk) == Walk(r, ok, flag, flag, bk)

dma_blk_cb(r, ok, flag, bk) == Walk(r, ok, flag, TRUE, bk)

-----------------------------------------------------------------------------
(* Callbacks of the main loop.                                             *)

\* The callback of request r.
Callback(r, ok, flag, bk) ==
    \/ r \in Dma /\ dma_blk_cb(r, ok, flag, bk)
    \/ /\ r \in Plain
       /\ st' = [st EXCEPT ![r] = IF ok THEN "over" ELSE "error"]
       /\ dbs' = [dbs EXCEPT ![r] = NULL]
       /\ last_blk_io_dma' = flag /\ book' = bk
       /\ UNCHANGED <<pos, round, split, cut, fails>>

dma_blk_io(r) ==
    /\ st[r] = "new"
    /\ dma_blk_cb(r, TRUE, last_blk_io_dma, book)
    /\ UNCHANGED dift

\* A request that is not one of DMA: blk_aio_readv, bdrv_co_aio_rw_vector.
PlainIo(r) ==
    /\ st[r] = "new"
    /\ Io(r, NoRound, 0, last_blk_io_dma, book)
    /\ UNCHANGED <<dift, pos, round, split, cut, fails>>

\* The bottom half of a request that waited: memory may be available again.
reschedule_dma(r) ==
    /\ st[r] = "wait"
    /\ dma_blk_cb(r, TRUE, last_blk_io_dma, book)
    /\ UNCHANGED dift

\* A request that was refused or failed has no bottom half.
CallbackBh_done(r) ==
    /\ st[r] = "bh"
    /\ Callback(r, TRUE, last_blk_io_dma, book)
    /\ UNCHANGED dift

\* The bottom half of a request that did not yield or was refused:
\* bdrv_co_em_bh, error_callback_bh.
CallbackBh(r) ==
    /\ st[r] \in {"bh", "failed"}
    /\ Callback(r, st[r] = "bh", last_blk_io_dma, book)
    /\ UNCHANGED dift

\* The disk is done: the coroutine resumes, ends, and bdrv_co_complete makes
\* the callback.
Resume(r) ==
    /\ st[r] = "io"
    /\ \E ok \in BOOLEAN :
         LET t == IF r \in Dma THEN round[r] ELSE NoRound
             p == IF r \in Dma THEN pos[r] ELSE 0
         IN  Callback(r, ok, FlagAfter(last_blk_io_dma), Ended(book, r, t, p, dbs[r], ok))
    /\ UNCHANGED dift

\* The device cancels.  The block layer finishes what it has begun; a request
\* that waits for memory loses its bottom half.
dma_aio_cancel(r) ==
    /\ st[r] = "wait"
    /\ st' = [st EXCEPT ![r] = "dead"]
    /\ UNCHANGED <<last_blk_io_dma, dift, dbs, pos, round, book, split, cut, fails>>

\* dift_enable, dift_disable.
SwitchDift ==
    /\ dift' = ~ dift
    /\ UNCHANGED <<last_blk_io_dma, st, dbs, pos, round, book, split, cut, fails>>

Next ==
    \/ \E r \in Dma : dma_blk_io(r) \/ reschedule_dma(r) \/ dma_aio_cancel(r)
    \/ \E r \in Plain : PlainIo(r)
    \/ \E r \in Requests : CallbackBh(r) \/ Resume(r)
    \/ SwitchDift

\* The main loop runs every bottom half and the disk answers every request.
\* It assumes that a map client is notified: whoever holds the memory that
\* could not be mapped gives it back.
Spec ==
    /\ Init /\ [][Next]_vars
    /\ \A r \in Dma : WF_vars(reschedule_dma(r) \/ CallbackBh(r) \/ Resume(r))

-----------------------------------------------------------------------------
(* Properties.                                                             *)

\* Entries of the list, byte by byte, at their place on the disk.
Place(r, entries) ==
    UNION {Bytes(r, i, (Sector[r] * SECTOR) + Before(r, i)) : i \in entries}

\* When the callback of the device is made (dma_complete), a request that went
\* to the disk in one round while DIFT was enabled has been recorded byte for
\* byte (bdrv_co_do_rw), whatever other requests ran meanwhile and did to
\* last_blk_io_dma; only entries at address 0 are left out.  Not so after
\* several rounds: each takes its own first sector for that of the list.
RecordedExactly ==
    \A r \in Dma \ (split \cup book.missed) :
      st[r] = "over" =>
        book.recorded[r] = Place(r, {i \in DOMAIN Sg[r] : Sg[r][i].base # 0})

\* dma_blk_cb transfers the whole list, each byte to its place, over any number
\* of rounds and waits for memory, unless a round had to discard a part of a
\* sector at its end: it does not step back over what it discarded.
TransferredWhole ==
    \A r \in Dma \ cut : st[r] = "over" => book.moved[r] = Place(r, DOMAIN Sg[r])

\* While last_blk_io_dma is set, a DMA request is in the block layer, or one was
\* refused by blk_check_request before it got there: bdrv_co_do_rw takes the
\* opaque of another request for a DMAAIOCB in these two cases only.
FlagOwned ==
    last_blk_io_dma => book.aborted \/ \E r \in Dma : st[r] = "io"

\* Every DMA request ends (dma_complete), so that again and again none is under
\* way, unless dma_aio_cancel took its bottom half away while it waited for
\* memory: then its device is never called back.
Completes ==
    []<>(\A r \in Dma : st[r] \in {"new", "over", "error", "dead"})
=============================================================================
