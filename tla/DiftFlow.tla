------------------------------ MODULE DiftFlow ------------------------------
(***************************************************************************)
(* Taint against data.  dirty is what the records of the instructions       *)
(* executed make of the dirty tables, flow is where the data computed from  *)
(* the tainted byte really went.  The instructions are those of DiftInsn.   *)
(***************************************************************************)
EXTENDS DiftPolicy

CONSTANTS Insns,      \* the instructions
          MaxInsns    \* bound on the instructions executed

VARIABLES dirty,     \* the cells tainted in the dirty tables
          flow,      \* the cells that hold data computed from the tainted one
          n,         \* instructions executed
          lost,      \* a named case that drops taint met tainted data
          blurred,   \* a named case that spreads taint met a tainted cell
          leftover,  \* an instruction that does not clear R_DIFT_TMP ran
          exited     \* the requests for which dift_rec_case_nb found no case

vars == <<dirty, flow, n, lost, blurred, leftover, exited>>

-----------------------------------------------------------------------------
\* The cells that hold guest data: not R_DIFT_TMP, nothing behind the RAM.
Real == {R(i, k) : i \in 0 .. R_DIFT_TMP - 1, k \in 0 .. 7}
          \cup {X(i, k) : i \in 0 .. 15, k \in 0 .. 15} \cup {M(a) : a \in 0 .. RamSize - 1}

\* The scratch register.
Tmp == {R(R_DIFT_TMP, k) : k \in 0 .. 7}

\* The cells an instruction that can be translated writes or reads, in its
\* records or with its data.
Translatable == {i \in Insns : i.lacks = {}}
Touches(t) == DOMAIN t \cup UNION {t[c] : c \in DOMAIN t}
Touched(i) == Touches(i.data) \cup UNION {Touches(t) : t \in i.does}

\* Records name cells of the tables; only data goes to and comes from devices.
ASSUME InsnsAssumption == \A i \in Insns : \A t \in i.does : NoCell \notin Touches(t)

\* Any cell an instruction touches may be the dirty one.  The scratch register
\* and the cells behind the RAM hold no data; what ran before tainted them, the
\* first and clean_source by one of the cases named.
Init ==
    /\ \E i \in Translatable : \E c \in Touched(i) \ {NoCell} : dirty = {c}
    /\ flow = dirty \cap Real
    /\ n = 0
    /\ lost = FALSE
    /\ blurred = (M(clean_source) \in dirty)
    /\ leftover = (dirty \cap Tmp # {})
    /\ exited = {}

\* A translated instruction runs, and its records are applied.
Execute(i) ==
    /\ n < MaxInsns
    /\ exited = {}
    /\ i.lacks = {}
    /\ \E t \in i.does : dirty' = Apply(t, dirty)
    /\ flow' = Apply(i.data, flow) \cap Real
    /\ n' = n + 1
    /\ lost' = (lost \/ i.drop \cap flow # {})
    /\ blurred' = (blurred \/ i.blur \cap dirty # {})
    /\ leftover' = (leftover \/ i.leaves)
    /\ UNCHANGED exited

\* A request without a case ends the emulator while it translates.
Exit(i) ==
    /\ n < MaxInsns
    /\ exited = {}
    /\ i.lacks # {}
    /\ exited' = i.lacks
    /\ UNCHANGED <<dirty, flow, n, lost, blurred, leftover>>

Next == \E i \in Insns : Execute(i) \/ Exit(i)

Spec == Init /\ [][Next]_vars

-----------------------------------------------------------------------------
\* Taint follows the data: as long as no instruction met tainted data in one of
\* the cases named as dropping it, every cell that holds data computed from the
\* tainted byte is dirty, whichever path the accesses took and whatever address
\* was kept before (the records of translate.c against the code beside them).
NothingLost == ~lost => flow \subseteq dirty

\* Taint stays with the data: as long as no instruction met a tainted cell in
\* one of the cases named as spreading it, a dirty cell of the guest holds data
\* computed from the tainted byte; nothing behind the RAM and nothing left in
\* R_DIFT_TMP leaks back, and clean_source stays clean.
NothingInvented == ~blurred => M(clean_source) \notin dirty /\ dirty \cap Real \subseteq flow

\* The scratch register is clean between instructions ("Clear R_DIFT_TMP"):
\* only xadd to memory leaves taint in it.
TmpClean == ~leftover => dirty \cap Tmp = {}

\* Every request the translator makes has a case, so dift_rec_case_nb does not
\* end the emulator; the exception is push and pop of fs and gs with a dflag of
\* MO_64, whose size wraps to MO_8.
Translated ==
    exited \subseteq {<<"MEM", "REG", MO_8, "mix_assign">>, <<"REG", "MEM", MO_8, "mix_assign">>}
=============================================================================
