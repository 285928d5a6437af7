----------------------------- MODULE DiftBlock -----------------------------
(***************************************************************************)
(* Translated blocks and the interpretation of their IF-codes.             *)
(*                                                                         *)
(* The translator writes the IF-codes of a block into the block's slot of  *)
(* dift_code_buffer, up to the first label or helper call or until the     *)
(* slot is full, and makes the block enqueue the later ones itself.  At    *)
(* run time a block enqueues the addresses it touches, counts the cached   *)
(* codes it has passed in dift_code_cntr, and announces the block before   *)
(* it as a window (loc, cntr, off) of the code buffer.  The analysis       *)
(* thread interprets that window, and then what else was enqueued, against *)
(* the addresses.                                                          *)
(*                                                                         *)
(* The queue is the abstract one of DiftFifo, which DiftQueue implements.  *)
(* A code is <<block, number of its instruction>>.                         *)
(***************************************************************************)
EXTENDS Integers, Sequences, FiniteSets

CONSTANTS
    Blocks,     \* guest blocks
    Insns,      \* block -> sequence of the kinds of its instructions
    Addrs,      \* guest physical addresses
    PerTb,      \* CONFIG_IF_CODES_PER_TB
    MaxTb,      \* CONFIG_MAX_TB_ESTI
    Margin,     \* slots kept free by cpu_exec (10000 in the code)
    MaxEvents   \* bound: switches, block entries, restores and transfers

(* "reg" has a code, "mem" a code and an address; "helper" calls a helper  *)
(* or branches over the next instruction.                                  *)
Kinds == {"reg", "mem", "helper"}

ASSUME BlockAssumption ==
    /\ Insns \in [Blocks -> Seq(Kinds)]
    /\ PerTb \in Nat /\ PerTb >= 2
    /\ Margin \in Nat \ {0} /\ MaxTb \in Nat /\ MaxTb > Margin
    /\ MaxEvents \in Nat

VARIABLES
    dift_code_buffer,
    dift_code_top, dift_code_loc, dift_code_cntr, dift_code_off,
    tbs,         \* block -> its translation, or NoTb
    dift_enabled,
    pending,     \* dift_switch_pending or obhook_pending_hooks
    at, block, insn,   \* the emulation thread, and the instruction it is at
    queue,       \* records between the threads
    ok_signal,   \* dift_thread_ok_signal
    q_addrs,     \* words collected by the analysis thread
    dpc,         \* where the analysis thread is
    ptr_code, ptr_code_end, end_backup,
    events,      \* counts up to MaxEvents
    owed,        \* history: effects executed and not yet interpreted
    wrong,       \* history: an effect was interpreted that was not owed next
    stale,       \* history: a dift_sync ignored an offset in use
    overwritten  \* history: a translation wrote over a REC_END in use

cache   == <<dift_code_buffer, dift_code_top, tbs>>
counter == <<dift_code_loc, dift_code_cntr, dift_code_off>>
guest   == <<at, block, insn>>
switch  == <<dift_enabled, pending>>
reader  == <<q_addrs, dpc, ptr_code, ptr_code_end, end_backup>>
faults  == <<stale, overwritten>>
history == <<faults, events>>
vars    == <<cache, counter, guest, switch, queue, ok_signal, reader, owed,
             wrong, history>>

NoTb       == [loc |-> -1, idx |-> 0]
NoCode     == <<"none", 0>>
BlockBegin == <<"begin", 0>>
RecEnd     == <<"end", 0>>
Disk       == <<"disk", 0>>

Cells == 0 .. MaxTb * PerTb - 1

(* Words of the queue: a code, an address, the frame of a block, a SYNC.   *)
Code(c)             == [t |-> "code", code |-> c]
Address(a)          == [t |-> "addr", addr |-> a]
Window(loc, cn, of) == [t |-> "loc", loc |-> loc, cntr |-> cn, off |-> of]
BeforeBlockBegin    == [t |-> "before"]
Sync                == [t |-> "sync"]

-----------------------------------------------------------------------------
(* Translation.                                                            *)

(* gen_dift_enqueue_i64: code i goes to the cache while no label or helper *)
(* has appeared; the cache is closed when PerTb - 1 codes are in it.       *)
Cached(b, i) == i <= PerTb - 2 /\ \A j \in 1 .. i : Insns[b][j] # "helper"

CachedCodes(b) == {i \in 0 .. Len(Insns[b]) : Cached(b, i)}

CodeAt(b, i) == IF i = 0 THEN BlockBegin ELSE <<b, i>>

(* gen_intermediate_code_internal with DIFT enabled: the codes of block b  *)
(* in the slot of its translation.                                         *)
Filled(buffer, b, loc) ==
    [c \in Cells |->
        IF \E i \in CachedCodes(b) : c = loc * PerTb + i
        THEN CodeAt(b, c - loc * PerTb)
        ELSE buffer[c]]

-----------------------------------------------------------------------------
Init ==
    /\ dift_code_buffer = [c \in Cells |-> NoCode]
    /\ dift_code_top = 0
    /\ dift_code_loc = 0 /\ dift_code_cntr = 0 /\ dift_code_off = 0
    /\ tbs = [b \in Blocks |-> NoTb]
    /\ dift_enabled = FALSE /\ pending = FALSE
    /\ at = "loop" /\ block \in Blocks /\ insn = 1
    /\ queue = << >> /\ ok_signal = FALSE
    /\ q_addrs = << >> /\ dpc = "main"
    /\ ptr_code = 0 /\ ptr_code_end = 0 /\ end_backup = NoCode
    /\ owed = << >> /\ wrong = FALSE
    /\ stale = FALSE /\ overwritten = FALSE /\ events = 0

Event == ~ wrong /\ events < MaxEvents /\ events' = events + 1

(* dift_enable and dift_disable, or a new hook, both between two runs of   *)
(* the cpu loop.                                                           *)
Switch ==
    /\ Event
    /\ at = "loop" /\ ~ pending
    /\ dift_enabled' \in BOOLEAN
    /\ pending' = TRUE
    /\ UNCHANGED <<cache, counter, guest, queue, ok_signal, reader, owed,
                   wrong, faults>>

(* dift_sync up to its wait.  Its window leaves out dift_code_off.         *)
StartSync(next) ==
    /\ queue' = queue \o <<BeforeBlockBegin,
                           Window(dift_code_loc, dift_code_cntr, 0), Sync>>
    /\ at' = next
    /\ stale' = (stale \/ (dift_code_off # 0 /\
                           (dift_code_cntr >= dift_code_off \/ next = "resume")))

(* Mutant: the signal is not lowered.                                      *)
EndSyncKeepsSignal ==
    /\ ok_signal
    /\ UNCHANGED ok_signal
    /\ dift_code_cntr' = 0

(* The end of dift_sync.                                                   *)
EndSync ==
    /\ ok_signal
    /\ ok_signal' = FALSE
    /\ dift_code_cntr' = 0

NearlyFull == dift_code_top + Margin > MaxTb

(* cpu_exec flushes the translations when the code cache is nearly full    *)
(* and when a switch or hook is pending.  Two reasons at the same time     *)
(* cost two flushes in the code, one here.                                 *)
Flush ==
    /\ at = "loop" /\ (NearlyFull \/ pending)
    /\ StartSync("flush")
    /\ UNCHANGED <<cache, counter, block, insn, switch, ok_signal, reader, owed,
                   wrong, overwritten, events>>

(* tb_flush after its dift_sync, and the reset of the pending flags.       *)
Flushed ==
    /\ at = "flush"
    /\ EndSync
    /\ dift_code_top' = 0 /\ tbs' = [b \in Blocks |-> NoTb]
    /\ pending' = FALSE /\ at' = "loop"
    /\ UNCHANGED <<dift_code_buffer, dift_code_loc, dift_code_off, block, insn,
                   dift_enabled, queue, reader, owed, wrong, history>>

(* The REC_END of the window being interpreted is among the cells of b.    *)
Terminates(b, loc) ==
    dpc = "code" /\ \E i \in CachedCodes(b) : ptr_code_end = loc * PerTb + i

(* tb_alloc takes the next slot; the translation writes the codes there.   *)
Translate(b) ==
    /\ at = "loop" /\ ~ NearlyFull /\ ~ pending /\ ~ wrong
    /\ tbs[b] = NoTb
    /\ dift_code_top' = dift_code_top + 1
    /\ IF dift_enabled
       THEN /\ tbs' = [tbs EXCEPT ![b] = [loc |-> dift_code_top,
                                          idx |-> Cardinality(CachedCodes(b))]]
            /\ dift_code_buffer' = Filled(dift_code_buffer, b, dift_code_top)
            /\ overwritten' = (overwritten \/ Terminates(b, dift_code_top))
       ELSE /\ tbs' = [tbs EXCEPT ![b] = [loc |-> dift_code_top, idx |-> 0]]
            /\ UNCHANGED <<dift_code_buffer, overwritten>>
    /\ UNCHANGED <<counter, guest, switch, queue, ok_signal, reader, owed, wrong,
                   stale, events>>

-----------------------------------------------------------------------------
(* Execution.                                                              *)

(* tb_begin, the prologue of a block with DIFT codes, announces the block  *)
(* before this one; its first code is REC_BLOCK_BEGIN.                     *)
Enter(b) ==
    /\ Event
    /\ at = "loop" /\ ~ pending
    /\ tbs[b] # NoTb
    /\ at' = "run" /\ block' = b /\ insn' = 1
    /\ IF tbs[b].idx # 0
       THEN /\ queue' = queue \o <<BeforeBlockBegin,
                  Window(dift_code_loc, dift_code_cntr, dift_code_off)>>
            /\ dift_code_loc' = tbs[b].loc
            /\ dift_code_cntr' = 1 /\ dift_code_off' = 0
       ELSE UNCHANGED <<queue, counter>>
    /\ UNCHANGED <<cache, switch, ok_signal, reader, owed, wrong, faults>>

Traced == tbs[block].idx # 0
Running(kind) ==
    at = "run" /\ insn <= Len(Insns[block]) /\ Insns[block][insn] = kind

(* An instruction with IF-codes: gen_dift_enqueue_i64, then                *)
(* gen_dift_enqueue_addr, then gen_dift_sync_i64.                          *)
Retire(words) ==
    /\ insn' = insn + 1
    /\ IF ~ Traced
       THEN UNCHANGED <<queue, dift_code_cntr, owed>>
       ELSE /\ owed' = Append(owed, <<<<block, insn>>, words>>)
            /\ IF Cached(block, insn)
               THEN queue' = queue \o words /\ dift_code_cntr' = insn + 1
               ELSE /\ queue' = queue \o <<Code(<<block, insn>>)>> \o words
                    /\ UNCHANGED dift_code_cntr
    /\ UNCHANGED <<cache, dift_code_loc, dift_code_off, at, block, switch,
                   ok_signal, reader, wrong, history>>

RegInsn == Running("reg") /\ Retire(<< >>)
MemInsn == Running("mem") /\ \E a \in Addrs : Retire(<<Address(a)>>)

HelperInsn ==
    /\ Running("helper")
    /\ insn' \in {insn + 1, insn + 2}
    /\ UNCHANGED <<cache, counter, at, block, switch, queue, ok_signal, reader,
                   owed, wrong, history>>

(* A disk transfer is recorded by the emulation thread between two blocks, *)
(* or from the helper of an I/O instruction.                               *)
DiskRecord ==
    /\ Event
    /\ at = "loop" \/ Running("helper")
    /\ dift_enabled
    /\ \E a \in Addrs :
          /\ queue' = queue \o <<Code(Disk), Address(a)>>
          /\ owed' = Append(owed, <<Disk, <<Address(a)>>>>)
    /\ UNCHANGED <<cache, counter, guest, switch, ok_signal, reader, wrong, faults>>

(* The block ends, or a helper leaves it.                                  *)
Leave ==
    /\ (at = "run" /\ insn > Len(Insns[block])) \/ Running("helper")
    /\ at' = "loop"
    /\ UNCHANGED <<cache, counter, block, insn, switch, queue, ok_signal, reader,
                   owed, wrong, history>>

(* cpu_restore_state at a faulting access, at an access the device reports *)
(* (cpu_report_tpr_access, after which the block goes on), or in a helper: *)
(* the block is translated again, its slot first being synchronised.       *)
Restore(next) ==
    /\ Event
    /\ Running("mem") \/ Running("helper")
    /\ IF Traced
       THEN StartSync(next) /\ dift_code_off' = dift_code_cntr
       ELSE /\ at' = (IF next = "fault" THEN "loop" ELSE "run")
            /\ UNCHANGED <<queue, dift_code_off, stale>>
    /\ UNCHANGED <<cache, dift_code_loc, dift_code_cntr, block, insn, switch,
                   ok_signal, reader, owed, wrong, overwritten>>

Restored ==
    /\ at \in {"fault", "resume"}
    /\ EndSync
    /\ dift_code_buffer' = Filled(dift_code_buffer, block, tbs[block].loc)
    /\ at' = (IF at = "fault" THEN "loop" ELSE "run")
    /\ UNCHANGED <<dift_code_top, tbs, dift_code_loc, dift_code_off, block, insn,
                   switch, queue, reader, owed, wrong, history>>

-----------------------------------------------------------------------------
(* The analysis thread.                                                    *)

Enqueued(kinds) == dpc = "main" /\ queue # << >> /\ Head(queue).t \in kinds

(* analysis_mainloop: words are collected until the block is announced.    *)
Collect ==
    /\ Enqueued({"code", "addr"})
    /\ q_addrs' = Append(q_addrs, Head(queue))
    /\ queue' = Tail(queue)
    /\ UNCHANGED <<cache, counter, guest, switch, ok_signal, dpc, ptr_code,
                   ptr_code_end, end_backup, owed, wrong, history>>

SyncReached ==
    /\ Enqueued({"sync"})
    /\ ok_signal' = TRUE
    /\ queue' = Tail(queue)
    /\ UNCHANGED <<cache, counter, guest, switch, reader, owed, wrong, history>>


(* interpret_dift_codes: an offset beyond the count belongs to a block     *)
(* that did not go on after it was restored.                               *)
WindowOff(w) == IF w.cntr < w.off THEN 0 ELSE w.off

(* BEFORE_BLOCK_BEGIN closes q_addrs, and the window that follows it is    *)
(* looked up in the code buffer.                                           *)
Announce ==
    /\ Enqueued({"before"}) /\ Len(queue) > 1
    /\ LET w == queue[2] IN
          /\ ptr_code' = w.loc * PerTb + WindowOff(w)
          /\ ptr_code_end' = w.loc * PerTb + w.cntr
    /\ end_backup' = dift_code_buffer[ptr_code_end']
    /\ q_addrs' = Append(q_addrs, Code(RecEnd))
    /\ queue' = Tail(Tail(queue))
    /\ dpc' = "patch"
    /\ UNCHANGED <<cache, counter, guest, switch, ok_signal, owed, wrong, history>>

(* The window is terminated by a REC_END in the code buffer itself.        *)
Patch ==
    /\ dpc = "patch"
    /\ dift_code_buffer' = [dift_code_buffer EXCEPT ![ptr_code_end] = RecEnd]
    /\ dpc' = "code"
    /\ UNCHANGED <<dift_code_top, tbs, counter, guest, switch, queue, ok_signal,
                   q_addrs, ptr_code, ptr_code_end, end_backup, owed, wrong,
                   faults, events>>

HasAddress(c) == c = Disk \/ (c[2] # 0 /\ Insns[c[1]][c[2]] = "mem")

(* One code of the policy, with the words it takes for its addresses.      *)
Apply(c, words) ==
    LET taken  == IF HasAddress(c) /\ words # << >>
                  THEN <<Head(words)>> ELSE << >>
        effect == <<c, taken>>
    IN  /\ q_addrs' = SubSeq(words, Len(taken) + 1, Len(words))
        /\ IF c = BlockBegin
           THEN UNCHANGED <<owed, wrong>>
           ELSE IF owed # << >> /\ Head(owed) = effect
           THEN owed' = Tail(owed) /\ UNCHANGED wrong
           ELSE wrong' = TRUE /\ UNCHANGED owed

InterpretCode ==
    /\ dpc = "code" /\ ptr_code \in Cells /\ dift_code_buffer[ptr_code] # RecEnd
    /\ Apply(dift_code_buffer[ptr_code], q_addrs)
    /\ ptr_code' = ptr_code + 1
    /\ UNCHANGED <<cache, counter, guest, switch, queue, ok_signal, dpc,
                   ptr_code_end, end_backup, faults, events>>

(* Mutant: the code under the REC_END is not put back.                     *)
UnpatchNothing ==
    /\ dpc = "code" /\ ptr_code \in Cells /\ dift_code_buffer[ptr_code] = RecEnd
    /\ dpc' = "rest"
    /\ UNCHANGED <<cache, counter, guest, switch, queue, ok_signal, q_addrs,
                   ptr_code, ptr_code_end, end_backup, owed, wrong, history>>

Unpatch ==
    /\ dpc = "code" /\ ptr_code \in Cells /\ dift_code_buffer[ptr_code] = RecEnd
    /\ dift_code_buffer' = [dift_code_buffer EXCEPT ![ptr_code_end] = end_backup]
    /\ dpc' = "rest"
    /\ UNCHANGED <<dift_code_top, tbs, counter, guest, switch, queue, ok_signal,
                   q_addrs, ptr_code, ptr_code_end, end_backup, owed, wrong,
                   faults, events>>

(* interpret_dift_codes_rest: codes and addresses from the queue.  A word  *)
(* that is no code is interpreted as one all the same.                     *)
InterpretRest ==
    /\ dpc = "rest" /\ q_addrs # << >> /\ q_addrs[1] # Code(RecEnd)
    /\ IF q_addrs[1].t = "code"
       THEN Apply(q_addrs[1].code, Tail(q_addrs))
       ELSE wrong' = TRUE /\ q_addrs' = Tail(q_addrs) /\ UNCHANGED owed
    /\ UNCHANGED <<cache, counter, guest, switch, queue, ok_signal, dpc, ptr_code,
                   ptr_code_end, end_backup, faults, events>>

BlockDone ==
    /\ dpc = "rest" /\ (q_addrs = << >> \/ q_addrs[1] = Code(RecEnd))
    /\ q_addrs' = << >> /\ dpc' = "main"
    /\ ptr_code' = 0 /\ ptr_code_end' = 0 /\ end_backup' = NoCode
    /\ UNCHANGED <<cache, counter, guest, switch, queue, ok_signal, owed, wrong,
                   faults, events>>

-----------------------------------------------------------------------------
Emulator ==
    \/ Switch \/ Flush \/ Flushed \/ Restored \/ Leave \/ DiskRecord
    \/ RegInsn \/ MemInsn \/ HelperInsn
    \/ \E b \in Blocks : Translate(b) \/ Enter(b)
    \/ \E next \in {"fault", "resume"} : Restore(next)

Analyser ==
    \/ Collect \/ SyncReached \/ Announce \/ Patch \/ InterpretCode
    \/ Unpatch \/ InterpretRest \/ BlockDone

(* Once a wrong effect was interpreted, only what has begun is followed.   *)
Over == wrong /\ UNCHANGED vars

Next == Emulator \/ Analyser \/ Over

Spec == Init /\ [][Next]_vars

-----------------------------------------------------------------------------
(* Properties.                                                             *)

(* The state is well formed; windows stay in the code buffer and no slot   *)
(* is taken beyond the end of dift_code_buffer.                            *)
TypeOK ==
    /\ dift_code_top \in 0 .. MaxTb - Margin + 1
    /\ dift_code_loc \in 0 .. MaxTb - 1
    /\ dift_code_cntr \in 0 .. PerTb - 1 /\ dift_code_off \in 0 .. PerTb - 1
    /\ \A b \in Blocks : /\ tbs[b].loc \in -1 .. MaxTb - 1
                         /\ tbs[b].idx \in 0 .. PerTb - 1
    /\ at \in {"loop", "run", "flush", "fault", "resume"}
    /\ dpc \in {"main", "patch", "code", "rest"}
    /\ ptr_code_end \in Cells /\ (ptr_code \in Cells \/ wrong)
    /\ {dift_enabled, pending, ok_signal} \subseteq BOOLEAN
    /\ {wrong, stale, overwritten} \subseteq BOOLEAN


(* The words of q_addrs that are not of a disk transfer.                   *)
OfBlocks ==
    {i \in DOMAIN q_addrs :
        q_addrs[i] # Code(Disk) /\ (i = 1 \/ q_addrs[i - 1] # Code(Disk))}

(* What one run of block b may enqueue: the addresses, and the codes that  *)
(* are not cached.                                                         *)
WordsOf(b) ==
    LET Has(i) == Insns[b][i] # "helper"
    IN  Cardinality({i \in DOMAIN Insns[b] : Insns[b][i] = "mem"})
          + Cardinality({i \in DOMAIN Insns[b] : Has(i) /\ ~ Cached(b, i)})

(* When dift_sync is answered, nothing the guest executed is left to be    *)
(* interpreted.  And q_addrs, which has 4096 entries and no check, never   *)
(* collects the words of more than one block: only disk transfers between  *)
(* two blocks come on top.  (analysis_mainloop, REC_SYNC and q_addrs_top.) *)
Drained ==
    /\ ok_signal /\ ~ stale /\ ~ overwritten => owed = << >>
    /\ \E b \in Blocks : Cardinality(OfBlocks) <= WordsOf(b) + 1

(* The state is well formed, no slot holding more codes than fit in it.    *)
(* The codes of a block stay in its slot for as long as the block may run: *)
(* the REC_END the analysis thread writes over one of them is gone before  *)
(* the emulation thread writes the slot, and puts the right code back.     *)
CodeStable ==
    /\ TypeOK
    /\ \A b \in Blocks : tbs[b].idx # 0 =>
          \A i \in CachedCodes(b) :
             LET c == tbs[b].loc * PerTb + i IN
             \/ dift_code_buffer[c] = CodeAt(b, i)
             \/ dpc = "code" /\ c = ptr_code_end

(* dift.c:1110, of a SYNC: "It is preceded by a BEFORE_BLOCK_BEGIN, so all *)
(* IF-codes had been processed."                                           *)
AllProcessed == ok_signal => owed = << >> /\ ~ wrong

=============================================================================
