---------------------------- MODULE MCDiftBlock ----------------------------
(* Two blocks: one whose third code no longer fits its slot, one with a    *)
(* helper in the middle.                                                   *)
EXTENDS DiftBlock, TLC

CONSTANTS b1, b2, a1, a2

MCBlocks == {b1, b2}
MCInsns  == b1 :> <<"mem", "mem", "reg">> @@ b2 :> <<"helper", "mem">>
MCAddrs  == {a1, a2}

Symmetry == Permutations(MCAddrs)
=============================================================================
