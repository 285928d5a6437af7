------------------------------ MODULE MCDiftDma ------------------------------
EXTENDS DiftDma

(* Two lists: entries that are no whole sectors, of which the sum is; and an  *)
(* entry at address 0.                                                       *)
MCSg == [r \in {"d1", "d2"} |->
           IF r = "d1" THEN <<[base |-> 20, len |-> 3], [base |-> 30, len |-> 1]>>
           ELSE <<[base |-> 0, len |-> 1], [base |-> 40, len |-> 1]>>]

MCSector == [r \in {"d1", "d2"} |-> IF r = "d1" THEN 1 ELSE 4]
MCWrite  == [r \in {"d1", "d2"} |-> r = "d1"]
=============================================================================
