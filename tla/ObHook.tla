------------------------------- MODULE ObHook -------------------------------
(***************************************************************************)
(* Out-of-box hooks: the two-layer table of hooks and its index            *)
(* (obhook.c), the test for hooked addresses in the translation of an      *)
(* instruction (translate.c), the flush that follows a new hook            *)
(* (cpu-exec.c) and the dispatcher that calls the callbacks                *)
(* (mba_helper.c).                                                         *)
(*                                                                         *)
(* Emu is the thread that emulates the guest; between two blocks it also   *)
(* serves the monitor.  Others are threads that use the interface without  *)
(* QEMU's global lock.                                                     *)
(***************************************************************************)
EXTENDS Integers, Sequences, SequencesExt

CONSTANTS
    Others,      \* other threads
    Adders,      \* the threads that add hooks
    Procs,       \* values of CR3
    Kernel,      \* addresses in kernel space
    Blocks,      \* guest blocks, each the sequence of its instructions
    Frame,       \* Frame[p][a]: physical address of a in process p
    Unmapped,    \* pairs <<p, a>> that have no page at first
    Linked,      \* whether blocks are chained
    MaxD,        \* MAX_NM_OBHOOK
    MaxOps       \* bound: operations on hooks

Addrs == UNION {Range(b) : b \in Blocks}

ASSUME ObHookAssumption ==
    /\ Adders \subseteq Others \cup {"emu"}
    /\ Kernel \subseteq Addrs /\ Unmapped \subseteq Procs \X Addrs
    /\ Linked \in BOOLEAN /\ MaxD \in Nat /\ MaxOps \in Nat
    /\ \A p \in Procs : Addrs \subseteq DOMAIN Frame[p]

VARIABLES
    hook_tbl,      \* the values of CR3 in the first layer
    proc_obhk_tbl, \* the keys <<cr3, addr>> in the second layer
    cb_list,       \* key -> sequence of descriptors
    index_tbl,     \* descriptor -> its key, or NoKey
    enabled, top_d, obhook_pending_hooks,
    writer,        \* the thread that holds the write lock, or NULL
    tpc,           \* thread -> its place in obhook_add
    new_d,         \* thread -> the descriptor it is adding
    ops, leftover, \* counts operations; history: an allocation failed
    mapped,        \* pairs <<p, a>> that have a page
    tbs,           \* translations
    at, proc, tb, insn, eip,  \* the emulation thread
    cur,           \* the callback record the dispatcher stands on, or End
    called,        \* callbacks called for this instruction
    began,         \* history: the count of operations when it was dispatched
    dangling       \* history: the dispatcher stood on a freed record

tables   == <<hook_tbl, proc_obhk_tbl, cb_list, index_tbl, enabled, leftover>>
adding   == <<tpc, new_d, writer, ops>>
flags    == <<top_d, obhook_pending_hooks>>
cpu      == <<at, proc, tb, insn, eip>>
dispatch == <<cur, called, began, dangling>>
vars     == <<tables, adding, flags, mapped, tbs, cpu, dispatch>>

Emu       == "emu"
NULL      == "null"
NoKey     == << >>
End       == -1    \* the end of a list of callbacks
Universal == "universal"
Threads   == Others \cup {Emu}
Ds        == 0 .. MaxD - 1
Keys      == (Procs \cup {Universal}) \X Addrs
NoTb      == [block |-> << >>, frame |-> 0, hooked |-> {}]

Init ==
    /\ hook_tbl = {} /\ proc_obhk_tbl = {} /\ cb_list = [k \in Keys |-> << >>]
    /\ index_tbl = [d \in Ds |-> NoKey] /\ enabled = [d \in Ds |-> FALSE]
    /\ top_d = -1 /\ obhook_pending_hooks = FALSE /\ writer = NULL
    /\ tpc = [t \in Threads |-> "idle"] /\ new_d = [t \in Threads |-> 0]
    /\ ops = 0 /\ leftover = FALSE
    /\ mapped = (Procs \X Addrs) \ Unmapped
    /\ tbs = {}
    /\ at = "loop" /\ proc \in Procs /\ tb = NoTb /\ insn = 0 /\ eip = NULL
    /\ cur = End /\ called = << >> /\ began = 0 /\ dangling = FALSE

-----------------------------------------------------------------------------
(* obhook.c                                                                *)

(* The monitor is served between two blocks; other threads at any time.    *)
Operates(t) ==
    /\ tpc[t] = "idle" /\ (t = Emu => at = "loop")
    /\ ops < MaxOps /\ ops' = ops + 1
    /\ UNCHANGED <<mapped, tbs, cpu, cur, called, began>>

is_kern_addr(addr) == addr \in Kernel

FreeDs == {d \in Ds : index_tbl[d] = NoKey}

(* get_obhook_descriptor                                                   *)
get_obhook_descriptor == CHOOSE d \in FreeDs : \A e \in FreeDs : d <= e

(* obhook_add_process and obhook_add_universal, up to the index table.     *)
AddHook(t, key) ==
    /\ Operates(t)
    /\ writer = NULL /\ writer' = t
    /\ FreeDs # {}
    /\ key[1] = Universal => is_kern_addr(key[2])
    /\ LET d == get_obhook_descriptor IN
          /\ hook_tbl' = hook_tbl \cup {key[1]}
          /\ proc_obhk_tbl' = proc_obhk_tbl \cup {key}
          /\ cb_list' = [cb_list EXCEPT ![key] = Append(@, d)]
          /\ index_tbl' = [index_tbl EXCEPT ![d] = key]
          /\ enabled' = [enabled EXCEPT ![d] = TRUE]
          /\ new_d' = [new_d EXCEPT ![t] = d]
    /\ tpc' = [tpc EXCEPT ![t] = "added"]
    /\ UNCHANGED <<flags, leftover, dangling>>

(* The allocation of the second layer or of the callback fails; the layers *)
(* already there stay.                                                     *)
AddFails(t, key) ==
    /\ Operates(t)
    /\ writer = NULL /\ FreeDs # {}
    /\ key[1] = Universal => is_kern_addr(key[2])
    /\ hook_tbl' = hook_tbl \cup {key[1]}
    /\ proc_obhk_tbl' \in {proc_obhk_tbl, proc_obhk_tbl \cup {key}}
    /\ leftover' = TRUE
    /\ UNCHANGED <<cb_list, index_tbl, enabled, flags, writer, tpc, new_d, dangling>>


AddPending(t) ==
    /\ tpc[t] = "added"
    /\ obhook_pending_hooks' = TRUE
    /\ tpc' = [tpc EXCEPT ![t] = "pending"]
    /\ UNCHANGED <<top_d, tables, new_d, writer, ops, mapped, tbs, cpu, dispatch>>

AddTop(t) ==
    /\ tpc[t] = "pending"
    /\ top_d' = (IF new_d[t] > top_d THEN new_d[t] ELSE top_d)
    /\ writer' = NULL
    /\ tpc' = [tpc EXCEPT ![t] = "idle"]
    /\ UNCHANGED <<obhook_pending_hooks, tables, new_d, ops, mapped, tbs, cpu,
                   dispatch>>


(* obhook_delete takes no lock.                                            *)
Delete(t, d) ==
    /\ Operates(t)
    /\ index_tbl[d] # NoKey
    /\ LET key  == index_tbl[d]
           rest == SelectSeq(cb_list[key], LAMBDA e : e # d)
           keys == IF rest = << >> THEN proc_obhk_tbl \ {key} ELSE proc_obhk_tbl
       IN  /\ cb_list' = [cb_list EXCEPT ![key] = rest]
           /\ proc_obhk_tbl' = keys
           /\ hook_tbl' = IF rest = << >> /\ \A k \in keys : k[1] # key[1]
                          THEN hook_tbl \ {key[1]} ELSE hook_tbl
    /\ index_tbl' = [index_tbl EXCEPT ![d] = NoKey]
    /\ dangling' = (dangling \/ cur = d)
    /\ UNCHANGED <<enabled, leftover, flags, writer, tpc, new_d>>

(* obhook_enable and obhook_disable take no lock either.                   *)
toggle_obhk(t, d) ==
    /\ Operates(t)
    /\ index_tbl[d] # NoKey
    /\ enabled' = [enabled EXCEPT ![d] = ~ @]
    /\ UNCHANGED <<hook_tbl, proc_obhk_tbl, cb_list, index_tbl, leftover, flags,
                   writer, tpc, new_d, dangling>>

(* get_obhk_cb_internal                                                    *)
get_obhk_cb_internal(key) ==
    IF key[1] \in hook_tbl /\ key \in proc_obhk_tbl THEN cb_list[key] ELSE << >>

(* The first record of a list, and the one behind d.                       *)
First(key) ==
    LET l == get_obhk_cb_internal(key) IN IF l = << >> THEN End ELSE Head(l)

Following(d) ==
    LET l == cb_list[index_tbl[d]]
        i == CHOOSE j \in DOMAIN l : l[j] = d
    IN  IF i = Len(l) THEN End ELSE l[i + 1]

-----------------------------------------------------------------------------
(* The emulation thread.                                                   *)

Emulates == tpc[Emu] = "idle" /\ ~ dangling /\ UNCHANGED <<tables, adding>>

(* cpu_exec: a pending hook flushes the translations; the flag is lowered  *)
(* after that.                                                             *)
Flush ==
    /\ Emulates /\ at = "loop" /\ obhook_pending_hooks
    /\ tbs' = {} /\ at' = "flushed"
    /\ UNCHANGED <<flags, mapped, proc, tb, insn, eip, dispatch>>

Flushed ==
    /\ Emulates /\ at = "flushed"
    /\ obhook_pending_hooks' = FALSE /\ at' = "find"
    /\ UNCHANGED <<top_d, mapped, tbs, proc, tb, insn, eip, dispatch>>

NoFlush ==
    /\ Emulates /\ at = "loop" /\ ~ obhook_pending_hooks
    /\ at' = "find"
    /\ UNCHANGED <<flags, mapped, tbs, proc, tb, insn, eip, dispatch>>

(* disas_insn: the hooks up to top_d, each in the address space of its     *)
(* process, against the physical address of the instruction.               *)
Hooked(p, addr) ==
    \E d \in Ds :
       /\ d <= top_d /\ index_tbl[d] # NoKey
       /\ LET q == IF index_tbl[d][1] = Universal THEN p ELSE index_tbl[d][1]
              a == index_tbl[d][2]
          IN  <<q, a>> \in mapped /\ Frame[q][a] = Frame[p][addr]

Translation(p, b) ==
    [block |-> b, frame |-> Frame[p][b[1]],
     hooked |-> {i \in DOMAIN b : Hooked(p, b[i])}]

(* The translation of b that process p runs, or none.                      *)
Found(p, b) == {t \in tbs : t.block = b /\ t.frame = Frame[p][b[1]]}

Translate(b) ==
    /\ Emulates /\ at = "find" /\ Found(proc, b) = {}
    /\ \A a \in Range(b) : <<proc, a>> \in mapped
    /\ tbs' = tbs \cup {Translation(proc, b)}
    /\ UNCHANGED <<flags, mapped, cpu, dispatch>>

(* The block is entered from cpu_exec, with eip at its first instruction.  *)
Enter(b) ==
    /\ Emulates /\ at = "find" /\ Found(proc, b) # {}
    /\ \A a \in Range(b) : <<proc, a>> \in mapped
    /\ tb' \in Found(proc, b) /\ insn' = 1 /\ eip' = b[1]
    /\ at' = "insn"
    /\ UNCHANGED <<flags, mapped, tbs, proc, dispatch>>

(* A chained block is entered without storing eip (gen_goto_tb).           *)
Chain(b) ==
    /\ Emulates /\ Linked /\ at = "insn" /\ insn > Len(tb.block)
    /\ Found(proc, b) # {}
    /\ tb' \in Found(proc, b) /\ insn' = 1
    /\ UNCHANGED <<flags, mapped, tbs, at, proc, eip, dispatch>>

(* The block ends, and the guest may switch to another process.            *)
Leave ==
    /\ Emulates /\ at = "insn" /\ insn > Len(tb.block)
    /\ at' = "loop" /\ proc' \in Procs /\ tb' = NoTb /\ insn' = 0 /\ eip' = NULL
    /\ UNCHANGED <<flags, mapped, tbs, dispatch>>

(* An instruction without hooks; a hooked one calls the dispatcher.        *)
Step ==
    /\ Emulates /\ at = "insn" /\ insn \in DOMAIN tb.block \ tb.hooked
    /\ insn' = insn + 1
    /\ UNCHANGED <<flags, mapped, tbs, at, proc, tb, eip, dispatch>>

(* helper_obhook_dispatcher looks eip up, first among the universal hooks  *)
(* and then among those of the process.                                    *)
DispatchUniversal ==
    /\ Emulates /\ at = "insn" /\ insn \in tb.hooked /\ writer = NULL
    /\ cur' = IF is_kern_addr(eip) THEN First(<<Universal, eip>>) ELSE End
    /\ called' = << >> /\ began' = ops /\ at' = "univ"
    /\ UNCHANGED <<flags, mapped, tbs, proc, tb, insn, eip, dangling>>

(* Mutant: without hooks of its own, a process gets those of another.      *)
DispatchAnyProc ==
    /\ Emulates /\ at = "univ" /\ cur = End /\ writer = NULL
    /\ \E p \in Procs :
          /\ First(<<proc, eip>>) # End => p = proc
          /\ cur' = First(<<p, eip>>)
    /\ at' = "proc"
    /\ UNCHANGED <<flags, mapped, tbs, proc, tb, insn, eip, called, began, dangling>>

DispatchProc ==
    /\ Emulates /\ at = "univ" /\ cur = End /\ writer = NULL
    /\ cur' = First(<<proc, eip>>)
    /\ at' = "proc"
    /\ UNCHANGED <<flags, mapped, tbs, proc, tb, insn, eip, called, began, dangling>>

(* Mutant: a disabled callback ends the walk.                              *)
CallbackStops ==
    /\ Emulates /\ at \in {"univ", "proc"} /\ cur # End
    /\ called' = (IF enabled[cur] THEN Append(called, cur) ELSE called)
    /\ cur' = (IF enabled[cur] THEN Following(cur) ELSE End)
    /\ UNCHANGED <<flags, mapped, tbs, cpu, began, dangling>>

(* LL_FOREACH over the list that was looked up.                            *)
Callback ==
    /\ Emulates /\ at \in {"univ", "proc"} /\ cur # End
    /\ called' = (IF enabled[cur] THEN Append(called, cur) ELSE called)
    /\ cur' = Following(cur)
    /\ UNCHANGED <<flags, mapped, tbs, cpu, began, dangling>>

Dispatched ==
    /\ Emulates /\ at = "proc" /\ cur = End
    /\ at' = "insn" /\ insn' = insn + 1 /\ called' = << >>
    /\ UNCHANGED <<flags, mapped, tbs, proc, tb, eip, cur, began, dangling>>

(* The guest gets a page for an address.                                   *)
MapPage(p, a) ==
    /\ Emulates /\ at = "find" /\ <<p, a>> \notin mapped
    /\ mapped' = mapped \cup {<<p, a>>}
    /\ UNCHANGED <<flags, tbs, cpu, dispatch>>

(* What follows the use of a freed record is not described.                *)
Over == dangling /\ UNCHANGED vars

Next ==
    \/ \E t \in Adders, key \in Keys : AddHook(t, key) \/ AddFails(t, key)
    \/ \E t \in Threads : AddPending(t) \/ AddTop(t)
    \/ \E t \in Threads, d \in Ds : Delete(t, d) \/ toggle_obhk(t, d)
    \/ Flush \/ Flushed \/ NoFlush \/ Leave \/ Step
    \/ \E b \in Blocks : Translate(b) \/ Enter(b) \/ Chain(b)
    \/ DispatchUniversal \/ DispatchProc \/ Callback \/ Dispatched
    \/ \E p \in Procs, a \in Addrs : MapPage(p, a)
    \/ Over

Spec == Init /\ [][Next]_vars

-----------------------------------------------------------------------------
(* Properties.                                                             *)

(* The state is well formed; no descriptor in use is above top_d.          *)
TypeOK ==
    /\ hook_tbl \subseteq Procs \cup {Universal} /\ proc_obhk_tbl \subseteq Keys
    /\ index_tbl \in [Ds -> Keys \cup {NoKey}]
    /\ writer = NULL => \A d \in Ds : index_tbl[d] # NoKey => d <= top_d
    /\ mapped \subseteq Procs \X Addrs
    /\ at \in {"loop", "flushed", "find", "insn", "univ", "proc"}
    /\ writer \in Threads \cup {NULL}


(* The hooks that instruction i of block b meets in process p.             *)
Meets(p, b, i) ==
    {d \in Ds : /\ index_tbl[d] # NoKey /\ index_tbl[d][2] = b[i]
                /\ index_tbl[d][1] \in {p, Universal}}


(* The callbacks of an instruction, in order.                              *)
Expected ==
    LET addr == tb.block[insn]
        all  == (IF is_kern_addr(addr) THEN cb_list[<<Universal, addr>>] ELSE << >>)
                \o cb_list[<<proc, addr>>]
    IN  SelectSeq(all, LAMBDA d : enabled[d])

(* obhook.h:127, of cb: "callback routine to be invoked when the hook is   *)
(* triggered".  A hooked instruction whose address eip holds calls exactly *)
(* its enabled callbacks, universal ones first, unless another thread      *)
(* changes hooks in the meantime.  Generated code stores eip only when it  *)
(* leaves a block, so the others miss theirs.  (helper_obhook_dispatcher.) *)
Fires ==
    [][Dispatched /\ began = ops /\ eip = tb.block[insn]
          => called = Expected]_vars

(* A callback is called in its own process only, unless it is universal,   *)
(* though processes share the translations of shared code, and is enabled  *)
(* at that moment.  (helper_obhook_dispatcher.)                            *)
OwnProcess ==
    [][called' # called /\ called' # << >> =>
          index_tbl[cur][1] \in {proc, Universal} /\ enabled[cur]]_vars

=============================================================================
