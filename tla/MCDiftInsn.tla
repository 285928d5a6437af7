----------------------------- MODULE MCDiftInsn -----------------------------
(***************************************************************************)
(* Three frames of RAM of 16 bytes.  Virtual page 0 is followed by a page   *)
(* that is not its neighbour in RAM, page 2 holds translated code, page 3   *)
(* is a device.                                                             *)
(***************************************************************************)
EXTENDS DiftInsn, DiftFlow

MCPages ==
    [p \in 0 .. 3 |->
       CASE p = 0 -> [frame |-> 0, kind |-> "ram"]
         [] p = 1 -> [frame |-> 2, kind |-> "ram"]
         [] p = 2 -> [frame |-> 1, kind |-> "code"]
         [] p = 3 -> [frame |-> 0, kind |-> "io"]]

-----------------------------------------------------------------------------
\* Only mov Gv, Ev between registers.
MovNext == \E q \in RRO : Execute(mov_Gv_Ev_reg(q.r, q.s, q.ot))
MovSpec == Init /\ [][MovNext]_vars

\* "mov Gv, Ev" carries the taint of Ev to Gv (the comment of opcode 0x8b).
MovCarries == flow \subseteq dirty
=============================================================================
