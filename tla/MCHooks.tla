------------------------------ MODULE MCHooks ------------------------------
(***************************************************************************)
(* The three extensions that watch the guest from translated code and from *)
(* helpers: out-of-box hooks, system call tracer and instruction tracer.   *)
(* They share no state, so a behaviour watches one of them, chosen at the  *)
(* start, and leaves the others alone.                                     *)
(*                                                                         *)
(* Hooks: two processes that share the block of code at "s" and "u"; the   *)
(* kernel address "k" has a page of its own in each, and none in p2 at     *)
(* first.  System calls: two threads of two processes, and tracers of one  *)
(* process or all, one call or all, entries or returns.  Tracers: every    *)
(* kind but the kernel tracers of a single process, which                  *)
(* add_tracer_internal treats as tracers of its user code.                 *)
(***************************************************************************)
EXTENDS ObHook, TLC

CONSTANTS
    Guests, Nums, Capacity, MaxNM, MaxCalls,  \* of Systrace
    Cr3s, UINT16_MAX, TracerOps               \* of Tracer

MCFrame  == "p1" :> ("s" :> 1 @@ "u" :> 4 @@ "k" :> 2) @@
            "p2" :> ("s" :> 1 @@ "u" :> 4 @@ "k" :> 3)
MCBlocks == {<<"s", "u">>, <<"k">>}
NoPage   == {<<"p2", "k">>}

VARIABLES
    watched,                                  \* the extension
    records, ll_records, spec, s_ops, calls, g_syscall_ctx, memfrs_ready,
    stack, s_fired, upcalled, left, expanded, \* of Systrace
    head, serial_num, asked, event, t_fired, t_ops  \* of Tracer

s_vars == <<records, ll_records, spec, s_ops, calls, g_syscall_ctx, memfrs_ready,
            stack, s_fired, upcalled, left, expanded>>
t_vars == <<head, serial_num, asked, event, t_fired, t_ops>>

S == INSTANCE Systrace WITH
        Process <- [g \in Guests |-> IF g = "t1" THEN "p1" ELSE "p2"],
        Wanted <- {[cr3 |-> "p1",      num |-> "syscall_all", is_entry |-> TRUE],
                   [cr3 |-> "cr3_all", num |-> "syscall_all", is_entry |-> FALSE],
                   [cr3 |-> "p1",      num |-> "open",        is_entry |-> FALSE]},
        ops <- s_ops, fired <- s_fired

T == INSTANCE Tracer WITH
        Kinds <- {k \in [cr3 : {"p1", "0"}, is_kernel : BOOLEAN, gran : {"instr", "block"}] :
                    k.is_kernel => k.cr3 = "0"},
        MaxOps <- TracerOps, ops <- t_ops, fired <- t_fired

ASSUME S!SystraceAssumption /\ T!TracerAssumption

AllInit ==
    /\ watched \in {"obhook", "systrace", "tracer"}
    /\ Init /\ S!Init /\ T!Init
    /\ watched # "obhook" => proc = "p1"

HookNext     == watched = "obhook"   /\ Next   /\ UNCHANGED <<watched, s_vars, t_vars>>
SystraceNext == watched = "systrace" /\ S!Next /\ UNCHANGED <<watched, vars, t_vars>>
TracerNext   == watched = "tracer"   /\ T!Next /\ UNCHANGED <<watched, vars, s_vars>>

\* The guest has made all the system calls the bound allows.
SystraceOver ==
    /\ watched = "systrace" /\ calls = MaxCalls
    /\ UNCHANGED <<watched, vars, s_vars, t_vars>>

AllSpec ==
    AllInit /\ [][HookNext \/ SystraceNext \/ TracerNext \/ SystraceOver]_<<watched, vars, s_vars, t_vars>>

-----------------------------------------------------------------------------
(* Properties of the other two modules, see there.                         *)

\* Table and list of system call tracers hold the same records, and a thread
\* keeps no more contexts than it has system calls under way or left otherwise.
\* (systrace_add, systrace_delete, event_callret.)
TableIsList == S!TableIsList /\ S!NoLeak

\* The callbacks at the return of a system call are those of the call that
\* returns.  (event_callret.)
Bound == [][S!BoundReturn]_s_vars

=============================================================================
