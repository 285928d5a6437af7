------------------------------ MODULE Systrace ------------------------------
(***************************************************************************)
(* System call tracing (systrace.c): the table and the list of tracers,    *)
(* and the contexts that bind the return of a system call to its entry.    *)
(* Guest threads enter the kernel with SYSCALL and leave it with SYSRET    *)
(* (seg_helper.c).  Monitor commands and the virtual CPU both run under    *)
(* QEMU's global lock, so each handler is one step.                        *)
(***************************************************************************)
EXTENDS Integers, Sequences, SequencesExt, FiniteSets

CONSTANTS
    Guests,     \* guest threads, each with its own thread number
    Process,    \* Process[g]: CR3 of the thread
    Nums,       \* system call numbers
    Wanted,     \* tracers the user asks for: [cr3, num, is_entry]
    Capacity,   \* contexts in a bucket from which uthash may expand
    MaxNM,      \* MAX_NM_SYSTRACE
    MaxOps, MaxCalls  \* bounds: monitor commands, system calls

CR3_ALL     == "cr3_all"
SYSCALL_ALL == "syscall_all"
NULL        == 0
Nothing     == [recs |-> << >>, num |-> "none"]
Handles     == 0 .. MaxNM - 1

\* What the constants must satisfy; the module that gives their values assumes it.
SystraceAssumption ==
    /\ {MaxNM, MaxOps, MaxCalls, Capacity} \subseteq Nat
    /\ DOMAIN Process = Guests
    /\ \A w \in Wanted :
          /\ w.cr3 \in Range(Process) \cup {CR3_ALL}
          /\ w.num \in Nums \cup {SYSCALL_ALL}
          /\ w.is_entry \in BOOLEAN

VARIABLES
    records,        \* handle -> record, or NULL; a record is a number
    ll_records,     \* the list
    spec,           \* record -> what it traces
    ops, calls,
    g_syscall_ctx,  \* contexts, in the order in which a search meets them
    memfrs_ready,   \* structures and global variables are known
    stack,          \* guest thread -> system calls under way, newest first,
                    \* and "user" where the kernel has called user mode
    fired,          \* what the last event called: records and number told
    upcalled,       \* history: guest threads that had an upcall
    left,           \* history: guest thread -> system calls left otherwise
    expanded        \* history: the table of contexts has been expanded

tbl  == <<records, ll_records, spec, ops>>
past == <<upcalled, left>>
vars == <<tbl, calls, g_syscall_ctx, memfrs_ready, stack, fired, past, expanded>>

Init ==
    /\ records = [h \in Handles |-> NULL] /\ ll_records = << >> /\ spec = << >>
    /\ ops = 0 /\ calls = 0
    /\ g_syscall_ctx = << >> /\ memfrs_ready = FALSE
    /\ stack = [g \in Guests |-> << >>] /\ fired = Nothing
    /\ upcalled = {} /\ left = [g \in Guests |-> 0] /\ expanded = FALSE

-----------------------------------------------------------------------------
(* The monitor.                                                            *)

Command ==
    /\ ops < MaxOps /\ ops' = ops + 1
    /\ fired' = Nothing
    /\ UNCHANGED <<calls, g_syscall_ctx, memfrs_ready, stack, past, expanded>>

Free == {h \in Handles : records[h] = NULL}

(* systrace_add: the first empty slot, or SYSTRACE_ERR_FULL_TRACE.         *)
Add(w) ==
    /\ Command
    /\ IF Free # {}
       THEN LET new_handle == CHOOSE h \in Free : \A k \in Free : h <= k
            IN  /\ spec' = Append(spec, w)
                /\ ll_records' = Append(ll_records, Len(spec'))
                /\ records' = [records EXCEPT ![new_handle] = Len(spec')]
       ELSE UNCHANGED <<records, ll_records, spec>>

(* Mutant: the slot is not emptied.                                        *)
DeleteKeepsSlot(h) ==
    /\ Command
    /\ UNCHANGED <<spec, records>>
    /\ ll_records' = SelectSeq(ll_records, LAMBDA r : r # records[h])

(* systrace_delete: nothing happens to a handle without a record.          *)
Delete(h) ==
    /\ Command
    /\ UNCHANGED spec
    /\ IF records[h] # NULL /\ records[h] \in Range(ll_records)
       THEN /\ ll_records' = SelectSeq(ll_records, LAMBDA r : r # records[h])
            /\ records' = [records EXCEPT ![h] = NULL]
       ELSE UNCHANGED <<records, ll_records>>

(* The user loads the structures and the global variables.                 *)
MemfrsReady ==
    /\ ~ memfrs_ready /\ memfrs_ready' = TRUE
    /\ fired' = Nothing
    /\ UNCHANGED <<tbl, calls, g_syscall_ctx, stack, past, expanded>>

-----------------------------------------------------------------------------
(* Events.                                                                 *)

(* event_callret, the loop over the list: the callbacks invoked, in order, *)
(* and the number that their context shows.                                *)
Invoked(cr3, is_enter, num) ==
    LET Match(r) ==
           /\ spec[r].cr3 \in {CR3_ALL, cr3}
           /\ spec[r].is_entry = is_enter
           /\ spec[r].num \in {SYSCALL_ALL, num}
    IN  [recs |-> SelectSeq(ll_records, Match), num |-> num]

(* context_idx is (CR3 << 20) | thread, and HASH_ADD_INT takes its low 32  *)
(* bits.  CR3 is a multiple of 2^12, so these are the thread's number.     *)
Key(g) == g

(* Mutant: behind the contexts of its bucket.                              *)
HashAddLast(ctx) ==
    g_syscall_ctx' = Append(g_syscall_ctx, ctx) /\ UNCHANGED expanded

(* HASH_ADD_INT: in front of its bucket.  An expansion reverses the order  *)
(* of the contexts that stay in one bucket, those of one key among them.   *)
HashAdd(ctx) ==
    LET added == <<ctx>> \o g_syscall_ctx
    IN  \/ g_syscall_ctx' = added /\ UNCHANGED expanded
        \/ /\ Len(added) >= Capacity
           /\ g_syscall_ctx' = Reverse(added) /\ expanded' = TRUE

(* Positions of the contexts with the key, in the order of the search.     *)
Found(key) == {i \in DOMAIN g_syscall_ctx : g_syscall_ctx[i].key = key}

(* event_callret on entry                                                  *)
OnSyscall(g, num) ==
    IF memfrs_ready
    THEN /\ HashAdd([key |-> Key(g), num |-> num])
         /\ fired' = Invoked(Process[g], TRUE, num)
    ELSE UNCHANGED <<g_syscall_ctx, expanded>> /\ fired' = Nothing

(* Mutant: the context found is not removed.                               *)
OnSysretKeeps(g) ==
    IF memfrs_ready /\ Found(Key(g)) # {}
    THEN LET i == CHOOSE j \in Found(Key(g)) : \A k \in Found(Key(g)) : j <= k
         IN  /\ fired' = Invoked(Process[g], FALSE, g_syscall_ctx[i].num)
             /\ UNCHANGED g_syscall_ctx
    ELSE UNCHANGED g_syscall_ctx /\ fired' = Nothing

(* event_callret on return: HASH_FIND_INT, the callbacks, free_context.    *)
OnSysret(g) ==
    IF memfrs_ready /\ Found(Key(g)) # {}
    THEN LET i == CHOOSE j \in Found(Key(g)) : \A k \in Found(Key(g)) : j <= k
         IN  /\ fired' = Invoked(Process[g], FALSE, g_syscall_ctx[i].num)
             /\ g_syscall_ctx' = RemoveAt(g_syscall_ctx, i)
    ELSE UNCHANGED g_syscall_ctx /\ fired' = Nothing

InKernel(g) == stack[g] # << >> /\ Head(stack[g]) # "user"

(* helper_syscall                                                          *)
Syscall(g, num) ==
    /\ ~ InKernel(g) /\ calls < MaxCalls /\ calls' = calls + 1
    /\ stack' = [stack EXCEPT ![g] = <<num>> \o @]
    /\ OnSyscall(g, num)
    /\ UNCHANGED <<tbl, memfrs_ready, past>>

(* helper_sysret at the end of a system call                               *)
Sysret(g) ==
    /\ InKernel(g) /\ Len(stack[g]) = 1
    /\ stack' = [stack EXCEPT ![g] = Tail(@)]
    /\ OnSysret(g)
    /\ UNCHANGED <<tbl, calls, memfrs_ready, past, expanded>>

(* helper_sysret when the kernel calls user mode from a system call        *)
Upcall(g) ==
    /\ InKernel(g) /\ Len(stack[g]) = 1
    /\ stack' = [stack EXCEPT ![g] = <<"user">> \o @]
    /\ upcalled' = upcalled \cup {g}
    /\ OnSysret(g)
    /\ UNCHANGED <<tbl, calls, memfrs_ready, left, expanded>>

(* The system call that ends such a callback resumes the one below it.     *)
UpcallEnds(g) ==
    /\ InKernel(g) /\ Len(stack[g]) = 3
    /\ stack' = [stack EXCEPT ![g] = Tail(Tail(@))]
    /\ fired' = Nothing
    /\ UNCHANGED <<tbl, calls, g_syscall_ctx, memfrs_ready, past, expanded>>

(* A system call ends with IRET or with its thread: no event.              *)
OtherExit(g) ==
    /\ InKernel(g) /\ Len(stack[g]) = 1
    /\ stack' = [stack EXCEPT ![g] = << >>]
    /\ left' = [left EXCEPT ![g] = @ + 1]
    /\ fired' = Nothing
    /\ UNCHANGED <<tbl, calls, g_syscall_ctx, memfrs_ready, upcalled, expanded>>

Next ==
    \/ \E w \in Wanted : Add(w)
    \/ \E h \in Handles : Delete(h)
    \/ MemfrsReady
    \/ \E g \in Guests, num \in Nums : Syscall(g, num)
    \/ \E g \in Guests : Sysret(g)
    \/ \E g \in Guests : Upcall(g)
    \/ \E g \in Guests : UpcallEnds(g)
    \/ \E g \in Guests : OtherExit(g)

Spec == Init /\ [][Next]_vars

-----------------------------------------------------------------------------
(* Properties.                                                             *)

(* The table has a slot for every handle and no other, list and table hold *)
(* records that were made, and contexts belong to guest threads.           *)
(* (systrace_add and event_callret.)                                       *)
TypeOK ==
    /\ records \in [Handles -> NULL .. Len(spec)]
    /\ spec \in Seq(Wanted) /\ ll_records \in Seq(1 .. Len(spec))
    /\ g_syscall_ctx \in Seq([key : Guests, num : Nums])
    /\ stack \in [Guests -> Seq(Nums \cup {"user"})]

(* The state is well formed, within the capacity of the table.             *)
(* The records of the table are exactly those of the list, each under one  *)
(* handle, whatever was added and deleted before: a tracer whose handle    *)
(* was returned is reached by events and can be deleted.                   *)
(* (systrace_add and systrace_delete.)                                     *)
TableIsList ==
    /\ TypeOK
    /\ Range(ll_records) = {records[h] : h \in Handles} \ {NULL}
    /\ IsInjective(ll_records)
    /\ \A h, k \in Handles : records[h] = records[k] => h = k \/ records[h] = NULL

(* systrace.c, "Find the responding system call context": the callbacks   *)
(* invoked at the return of a system call are those that trace the call    *)
(* that returns, and they are shown its number, whatever calls of this and *)
(* other threads lie in between.  It takes an upcall in the same thread,   *)
(* or an expansion of the table while a context of the thread is left      *)
(* over, to break this.  (event_callret.)                                  *)
BoundReturn ==
    \A g \in Guests \ upcalled :
       Sysret(g) /\ fired'.recs # << >> /\ (left[g] = 0 \/ ~ expanded)
          => fired' = Invoked(Process[g], FALSE, Head(stack[g]))

(* systrace.c, "Remove the system call context after system call return":  *)
(* a thread has no more contexts than system calls under way and system    *)
(* calls that it left without SYSRET.  (event_callret and free_context.)   *)
NoLeak ==
    \A g \in Guests :
       Cardinality(Found(Key(g)))
          <= Cardinality({i \in DOMAIN stack[g] : stack[g][i] # "user"}) + left[g]

=============================================================================
