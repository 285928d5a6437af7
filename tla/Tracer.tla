------------------------------- MODULE Tracer -------------------------------
(***************************************************************************)
(* The instruction and block tracers (tracer.c): their six lists, the      *)
(* interface that adds, enables and disables them, and the dispatchers     *)
(* that translated code calls (mba_helper.c, translate.c).  Interface and  *)
(* dispatchers run under QEMU's global lock, each as one step.             *)
(***************************************************************************)
EXTENDS Integers, Sequences, SequencesExt, FiniteSets

CONSTANTS
    Cr3s,        \* CR3 values of guest processes
    Kinds,       \* tracers that the user asks for: [cr3, is_kernel, gran]
    UINT16_MAX,  \* the largest uid
    MaxOps       \* bound: calls of the interface

All == "0"  \* the CR3 0 of a tracer of every process

\* What the constants must satisfy; the module that gives their values assumes it.
TracerAssumption ==
    /\ UINT16_MAX \in Nat /\ MaxOps \in Nat /\ All \notin Cr3s
    /\ Kinds \subseteq [cr3 : Cr3s \cup {All}, is_kernel : BOOLEAN,
                        gran : {"instr", "block"}]

Lists == {"process", "universal_kernel", "universal"} \X {"instr", "block"}

VARIABLES
    head,        \* list -> records, [uid, cr3, enabled]
    serial_num,
    asked,       \* what the user asked for: uid -> kind, and whether enabled
    event,       \* the last instruction or block
    fired,       \* uids of the tracers it called
    ops

vars == <<head, serial_num, asked, event, fired, ops>>

NoEvent == [gran |-> "none", cr3 |-> All, kern |-> FALSE, jump |-> FALSE]

Init ==
    /\ head = [l \in Lists |-> << >>] /\ serial_num = 0
    /\ asked = << >> /\ event = NoEvent /\ fired = << >> /\ ops = 0

Call == /\ ops < MaxOps /\ ops' = ops + 1
        /\ event' = NoEvent /\ fired' = << >>

-----------------------------------------------------------------------------
(* The interface.                                                          *)

(* add_tracer_internal: the list of a tracer                               *)
ListOf(k) ==
    << CASE k.cr3 # All   -> "process"
         [] k.cr3 = All /\ k.is_kernel -> "universal_kernel"
         [] k.cr3 = All /\ ~ k.is_kernel -> "universal",
       k.gran >>


(* tracer_add_inst_tracer, tracer_add_block_tracer: disabled at first, and *)
(* TRACER_MAX_TRACER_ID when the uids are used up.                         *)
Add(k) ==
    /\ Call
    /\ IF serial_num = UINT16_MAX
       THEN UNCHANGED <<head, serial_num, asked>>
       ELSE /\ serial_num' = serial_num + 1
            /\ head' = [head EXCEPT ![ListOf(k)] =
                  Append(@, [uid |-> serial_num', cr3 |-> k.cr3, enabled |-> FALSE])]
            /\ asked' = Append(asked, [kind |-> k, on |-> FALSE])

(* get_tracer: where the record with the uid is                            *)
get_tracer(uid) ==
    {p \in Lists \X (1 .. UINT16_MAX) :
        p[2] \in DOMAIN head[p[1]] /\ head[p[1]][p[2]].uid = uid}

(* tracer_enable_tracer, tracer_disable_tracer; TRACER_INVALID_ID if there *)
(* is no such tracer.                                                      *)
SetEnabled(uid, on) ==
    /\ Call
    /\ UNCHANGED serial_num
    /\ IF get_tracer(uid) = {}
       THEN UNCHANGED head
       ELSE LET p == CHOOSE q \in get_tracer(uid) : TRUE
            IN  head' = [head EXCEPT ![p[1]][p[2]].enabled = on]
    /\ asked' = [u \in DOMAIN asked |->
                    IF u = uid THEN [asked[u] EXCEPT !.on = on] ELSE asked[u]]

(* tracer_clean_up                                                         *)
CleanUp ==
    /\ Call
    /\ head' = [l \in Lists |-> << >>]
    /\ serial_num' = 0 /\ asked' = << >>

-----------------------------------------------------------------------------
(* The guest.                                                              *)

Uids(recs) == [i \in DOMAIN recs |-> recs[i].uid]

(* Mutant: the block tracers of the kernel run without being enabled.      *)
DispatchedDisabled(gran, cr3, kern) ==
    LET Own(r)     == r.cr3 = cr3 /\ r.enabled
        Enabled(r) == r.enabled \/ (kern /\ gran = "block")
    IN  Uids(IF kern
             THEN SelectSeq(head[<<"universal_kernel", gran>>], Enabled)
             ELSE SelectSeq(head[<<"process", gran>>], Own)
                  \o SelectSeq(head[<<"universal", gran>>], Enabled))

(* helper_tracer_dispatcher, helper_btracer_dispatcher: the tracers called *)
Dispatched(gran, cr3, kern) ==
    LET Own(r)     == r.cr3 = cr3 /\ r.enabled
        Enabled(r) == r.enabled
    IN  Uids(IF kern
             THEN SelectSeq(head[<<"universal_kernel", gran>>], Enabled)
             ELSE SelectSeq(head[<<"process", gran>>], Own)
                  \o SelectSeq(head[<<"universal", gran>>], Enabled))

(* disas_insn puts the call in front of the code of every instruction.     *)
Instruction(cr3, kern) ==
    /\ event' = [gran |-> "instr", cr3 |-> cr3, kern |-> kern, jump |-> FALSE]
    /\ fired' = Dispatched("instr", cr3, kern)
    /\ UNCHANGED <<head, serial_num, asked, ops>>

(* gen_eob puts the call at the end of a block.                            *)
Eob(cr3, kern) ==
    /\ event' = [gran |-> "block", cr3 |-> cr3, kern |-> kern, jump |-> FALSE]
    /\ fired' = Dispatched("block", cr3, kern)
    /\ UNCHANGED <<head, serial_num, asked, ops>>

(* gen_goto_tb ends a block that jumps within its page without gen_eob.    *)
GotoTb(cr3, kern) ==
    /\ event' = [gran |-> "block", cr3 |-> cr3, kern |-> kern, jump |-> TRUE]
    /\ fired' = << >>
    /\ UNCHANGED <<head, serial_num, asked, ops>>

Next ==
    \/ \E k \in Kinds : Add(k)
    \/ \E uid \in 0 .. UINT16_MAX, on \in BOOLEAN : SetEnabled(uid, on)
    \/ CleanUp
    \/ \E cr3 \in Cr3s, kern \in BOOLEAN : Instruction(cr3, kern)
    \/ \E cr3 \in Cr3s, kern \in BOOLEAN : Eob(cr3, kern)
    \/ \E cr3 \in Cr3s, kern \in BOOLEAN : GotoTb(cr3, kern)

Spec == Init /\ [][Next]_vars

-----------------------------------------------------------------------------
(* Properties.                                                             *)

(* tracer.h, "unique identifier": the records of all six lists have the    *)
(* uids 1 to serial_num, each once, after any number of additions and      *)
(* clean-ups.  (add_tracer_internal and tracer_clean_up.)                  *)
UidUnique ==
    /\ serial_num \in 0 .. UINT16_MAX /\ Len(asked) = serial_num
    /\ \A uid \in 0 .. UINT16_MAX :
          Cardinality(get_tracer(uid)) = IF uid \in 1 .. serial_num THEN 1 ELSE 0

(* The tracers that tracer.h promises to call at the event: enabled ones   *)
(* of its granularity, of its process or of all, and for kernel code those *)
(* with is_kernel, for user code those without.                            *)
Due ==
    {u \in DOMAIN asked :
        /\ asked[u].on /\ asked[u].kind.gran = event.gran
        /\ asked[u].kind.cr3 \in {All, event.cr3}
        /\ asked[u].kind.is_kernel = event.kern}


=============================================================================
