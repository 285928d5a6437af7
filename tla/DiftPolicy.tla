----------------------------- MODULE DiftPolicy -----------------------------
(***************************************************************************)
(* The taint propagation policy of DIFT (ext/dift/dift-policy.h): what each *)
(* record of the IF codes does to the dirty tables, which requests have a   *)
(* case at all (case_list in ext/dift/dift.c), and how the translator packs *)
(* a request into a record (gen_dift_* in target-i386/translate.c).         *)
(*                                                                          *)
(* The three tables are one address space of cells, laid out as in struct   *)
(* dift_context, so an index past a row names the cell the C expression     *)
(* names.  Every handler copies or ORs tag bytes, so the tag bits do not    *)
(* influence each other: one tag stands for all of them, and the tables are *)
(* the set of the cells that carry it.                                      *)
(***************************************************************************)
EXTENDS Integers, Functions

CONSTANT RamSize     \* phys_ram_size

ASSUME RamAssumption == RamSize \in Nat \ {0}

MO_8  == 0
MO_16 == 1
MO_32 == 2
MO_64 == 3

\* The sizes of SSE requests (XMM_MO_*).
XMM_MO_32  == 0
XMM_MO_64  == 1
XMM_MO_128 == 2

R_EAX == 0
R_EDX == 2
R_EBX == 3
R_ESP == 4
R_EBP == 5
R_RIP == 16
R_SEG_REG_BASE == 17
R_DIFT_TMP == 23
R_NONE == 24

(***************************************************************************)
(* Cells: reg_dirty_tbl[24][8], xmm_dirty_tbl[16][16] behind it, and        *)
(* mem_dirty_tbl, which is allocated a page longer than the RAM: the first  *)
(* byte behind the RAM is clean_source, the next one null_sink.             *)
(***************************************************************************)
R(i, k) == 8 * i + k
X(i, k) == 192 + 16 * i + k
M(a)    == 512 + a
NoCell  == -1       \* a byte of a device: it keeps no taint

clean_source == RamSize
null_sink    == RamSize + 1

\* Operands: the cells of a request, by byte.
Reg(i, n)     == [k \in 0 .. n - 1 |-> R(i, k)]
Byte(i, k)    == [x \in {0} |-> R(i, k)]
Xmm(i, lo, n) == [k \in 0 .. n - 1 |-> X(i, lo + k)]
Mem(a, n)     == [k \in 0 .. n - 1 |-> M(a + k)]

(***************************************************************************)
(* A transfer is a function from the cells it writes to the cells each of   *)
(* them is computed from.                                                   *)
(***************************************************************************)
Assign(d, s)    == [c \in Range(d) |-> {s[k] : k \in {j \in DOMAIN d : d[j] = c}}]
Join(d, s)      == [c \in Range(d) |-> {c} \cup Assign(d, s)[c]]
MixAssign(d, s) == [c \in Range(d) |-> Range(s)]
MixJoin(d, s)   == [c \in Range(d) |-> Range(d) \cup Range(s)]
Clear(d)        == [c \in Range(d) |-> {}]

\* The tables (a set of tainted cells) after a transfer.
Apply(t, tainted) ==
    (tainted \ DOMAIN t) \cup {c \in DOMAIN t : t[c] \cap tainted # {}}

(***************************************************************************)
(* The requests that have a case: <<destination, source, size, effect>>.    *)
(* The effect strings stand for the EFFECT_* and XMM_EFFECT_* combinations. *)
(***************************************************************************)
Sizes == {MO_8, MO_16, MO_32, MO_64}

case_list ==
    ({"REG"} \X {"REG"} \X {MO_8} \X {"inside_assign", "inside_append"})
      \cup ({"REG"} \X {"REG"} \X Sizes \X {"oo_assign", "oo_append", "mix_append"})
      \cup ({"REG"} \X {"MEM"} \X Sizes \X {"oo_assign", "oo_append", "mix_append"})
      \cup ({"REG"} \X {"MEM"} \X (Sizes \ {MO_8}) \X {"mix_assign"})
      \cup ({"MEM"} \X {"REG"} \X Sizes \X {"oo_assign", "oo_append", "mix_append"})
      \cup ({"MEM"} \X {"REG"} \X (Sizes \ {MO_8}) \X {"mix_assign"})
      \cup ({"MEM"} \X {"MEM"} \X Sizes \X {"oo_assign"})
      \cup ({"REG", "MEM"} \X {"IM"} \X Sizes \X {"clear"})
      \cup ({"XMM"} \X {"XMM", "MEM"} \X {XMM_MO_32, XMM_MO_64, XMM_MO_128} \X {"low"})
      \cup ({"MEM"} \X {"XMM"} \X {XMM_MO_32, XMM_MO_64, XMM_MO_128} \X {"low"})
      \cup ({"XMM"} \X {"XMM"} \X {XMM_MO_64} \X {"l2h", "h2l"})
      \cup {<<"XMM", "MEM", XMM_MO_64, "high">>, <<"MEM", "XMM", XMM_MO_64, "high">>}
      \cup ({"XMM"} \X {"REG"} \X {XMM_MO_32, XMM_MO_64} \X {"low"})
      \cup ({"REG"} \X {"XMM"} \X {XMM_MO_32, XMM_MO_64} \X {"low"})
      \cup ({"XMM"} \X {"XMM", "MEM"} \X {XMM_MO_32} \X {"dup_low", "dup_high"})
      \cup ({"XMM"} \X {"XMM", "MEM"} \X {XMM_MO_64} \X {"dup_low"})
      \cup {<<"XMM", "IM", XMM_MO_128, "clear">>}

-----------------------------------------------------------------------------
(***************************************************************************)
(* The translator's side: a request packed into the union v1 of struct      *)
(* dift_record, byte by byte.  The size decides the case by its two low     *)
(* bits and the layout by the comparison with MO_8.                         *)
(***************************************************************************)
Rec(dst, src, ot, effect, v) == [op |-> "rec", case |-> <<dst, src, ot % 4, effect>>, v1 |-> v]

gen_dift_reg_reg(dreg, sreg, effect, ot, dbyte, sbyte) ==
    Rec("REG", "REG", ot, effect,
        IF ot = MO_8 THEN <<sreg, dreg, sbyte, dbyte>> ELSE <<sreg, dreg, 0, 0>>)

gen_dift_reg_mem(reg, effect, ot, hl, base) ==
    Rec("REG", "MEM", ot, effect,
        IF ot = MO_8 THEN <<reg, hl, R_NONE, base>> ELSE <<reg, R_NONE, base, 0>>)

gen_dift_mem_reg(reg, effect, ot, hl, base) ==
    Rec("MEM", "REG", ot, effect,
        IF ot = MO_8 THEN <<reg, hl, R_NONE, base>> ELSE <<reg, R_NONE, base, 0>>)

gen_dift_mem_mem(effect, ot) == Rec("MEM", "MEM", ot, effect, <<0, 0, 0, 0>>)

gen_dift_reg_im(reg, ot, hl) ==
    Rec("REG", "IM", ot, "clear", IF ot = MO_8 THEN <<reg, hl, 0, 0>> ELSE <<reg, 0, 0, 0>>)

gen_dift_mem_im(ot) == Rec("MEM", "IM", ot, "clear", <<0, 0, 0, 0>>)

gen_dift_inside_reg(reg, dbyte, sbyte, effect) ==
    Rec("REG", "REG", MO_8, effect, <<reg, dbyte, sbyte, 0>>)

gen_dift_xmm_xmm(dreg, sreg, ot, effect) == Rec("XMM", "XMM", ot, effect, <<sreg, dreg, 0, 0>>)
gen_dift_xmm_mem(dreg, ot, effect) == Rec("XMM", "MEM", ot, effect, <<dreg, R_NONE, R_NONE, 0>>)
gen_dift_mem_xmm(sreg, ot, effect) == Rec("MEM", "XMM", ot, effect, <<sreg, R_NONE, R_NONE, 0>>)
\* The half named for a form that has none.
gen_dift_xmm_reg_high(dreg, sreg, ot, effect) == Rec("XMM", "REG", ot, "high", <<sreg, dreg, 0, 0>>)
gen_dift_xmm_reg(dreg, sreg, ot, effect) == Rec("XMM", "REG", ot, effect, <<sreg, dreg, 0, 0>>)
gen_dift_reg_xmm(dreg, sreg, ot, effect) == Rec("REG", "XMM", ot, effect, <<sreg, dreg, 0, 0>>)
gen_dift_xmm_im(dreg, ot) == Rec("XMM", "IM", ot, "clear", <<dreg, 0, 0, 0>>)

-----------------------------------------------------------------------------
(***************************************************************************)
(* The handlers.  v is the record's v1, ot its size, ra and wa the guest    *)
(* physical addresses dequeued after it.                                    *)
(***************************************************************************)
r2r_d(v, ot) == IF ot = MO_8 THEN Byte(v[2], v[4]) ELSE Reg(v[2], 2^ot)
r2r_s(v, ot) == IF ot = MO_8 THEN Byte(v[1], v[3]) ELSE Reg(v[1], 2^ot)
r2m_r(v, ot) == IF ot = MO_8 THEN Byte(v[1], v[2]) ELSE Reg(v[1], 2^ot)

\* Outside the RAM a read is redirected to clean_source, a write to null_sink.
ReadAt(ra)  == IF ra < RamSize THEN ra ELSE clean_source
WriteAt(wa) == IF wa < RamSize THEN wa ELSE null_sink

inside_reg_assign(v) == Assign(Byte(v[1], v[2]), Byte(v[1], v[3]))
inside_reg_append(v) == Join(Byte(v[1], v[2]), Byte(v[1], v[3]))

reg_reg_oo_assign(v, ot)  == Assign(r2r_d(v, ot), r2r_s(v, ot))
reg_reg_oo_append(v, ot)  == Join(r2r_d(v, ot), r2r_s(v, ot))

\* The destination's own taint forgotten.
reg_reg_mix_append_assign(v, ot) == MixAssign(r2r_d(v, ot), r2r_s(v, ot))

\* With MO_8 the case table leads to the one-to-one handler: one byte mixed
\* with one byte is the same.
reg_reg_mix_append(v, ot) == MixJoin(r2r_d(v, ot), r2r_s(v, ot))

\* CONFIG_INDIRECT_TAINT: a byte or word load also takes the taint of the low
\* bytes of the base and index registers it was addressed with.
IndirectTaint(v, ot) ==
    LET regs == CASE ot = MO_8  -> {v[3], v[4]} \ {R_NONE}
                  [] ot = MO_16 -> {v[2], v[3]} \ {R_NONE}
                  [] OTHER      -> {}
    IN  {R(i, k) : i \in regs, k \in 0 .. 2^ot - 1}

\* The old taint of the register kept.
reg_mem_oo_assign_keep(v, ot, ra) == Join(r2m_r(v, ot), Mem(ReadAt(ra), 2^ot))

reg_mem_oo_assign(v, ot, ra) ==
    LET t == Assign(r2m_r(v, ot), Mem(ReadAt(ra), 2^ot))
    IN  [c \in DOMAIN t |-> t[c] \cup IndirectTaint(v, ot)]

reg_mem_oo_append(v, ot, ra)  == Join(r2m_r(v, ot), Mem(ReadAt(ra), 2^ot))
reg_mem_mix_assign(v, ot, ra) == MixAssign(r2m_r(v, ot), Mem(ReadAt(ra), 2^ot))
reg_mem_mix_append(v, ot, ra) == MixJoin(r2m_r(v, ot), Mem(ReadAt(ra), 2^ot))

mem_reg_oo_assign(v, ot, wa)  == Assign(Mem(WriteAt(wa), 2^ot), r2m_r(v, ot))
mem_reg_oo_append(v, ot, wa)  == Join(Mem(WriteAt(wa), 2^ot), r2m_r(v, ot))
mem_reg_mix_assign(v, ot, wa) == MixAssign(Mem(WriteAt(wa), 2^ot), r2m_r(v, ot))
mem_reg_mix_append(v, ot, wa) == MixJoin(Mem(WriteAt(wa), 2^ot), r2m_r(v, ot))

mem_mem_oo_assign(ot, ra, wa) == Assign(Mem(WriteAt(wa), 2^ot), Mem(ReadAt(ra), 2^ot))

reg_im_clear(v, ot)  == Clear(r2m_r(v, ot))
mem_im_clear(ot, wa) == Clear(Mem(WriteAt(wa), 2^ot))

\* The bytes of an SSE size.
XBytes(ot) == 4 * 2^ot

xmm_xmm_oo_assign(v, ot, effect) ==
    CASE effect = "low" -> Assign(Xmm(v[2], 0, XBytes(ot)), Xmm(v[1], 0, XBytes(ot)))
      [] effect = "l2h" -> Assign(Xmm(v[2], 8, 8), Xmm(v[1], 0, 8))
      [] effect = "h2l" -> Assign(Xmm(v[2], 0, 8), Xmm(v[1], 8, 8))

xmm_reg_oo_assign(v, ot) == Assign(Xmm(v[2], 0, XBytes(ot)), Reg(v[1], XBytes(ot)))
reg_xmm_oo_assign(v, ot) == Assign(Reg(v[2], XBytes(ot)), Xmm(v[1], 0, XBytes(ot)))

xmm_mem_oo_assign(v, ot, effect, ra) ==
    Assign(Xmm(v[1], IF effect = "high" THEN 8 ELSE 0, XBytes(ot)), Mem(ReadAt(ra), XBytes(ot)))

mem_xmm_oo_assign(v, ot, effect, wa) ==
    Assign(Mem(WriteAt(wa), XBytes(ot)), Xmm(v[1], IF effect = "high" THEN 8 ELSE 0, XBytes(ot)))

\* Which byte of the source the duplicating moves put at byte k: the even or
\* the odd double word of each half.
DupByte(k, effect) == (k - (k % 8)) + (k % 4) + (IF effect = "dup_high" THEN 4 ELSE 0)

xmm_xmm_oo_assign_dup(v, ot, effect) ==
    Assign(Xmm(v[2], 0, 16),
           [k \in 0 .. 15 |-> X(v[1], IF ot = XMM_MO_64 THEN k % 8 ELSE DupByte(k, effect))])

\* The 64 bit form reads 16 bytes of memory: the halves are not duplicated.
xmm_mem_oo_assign_dup(v, ot, effect, ra) ==
    Assign(Xmm(v[1], 0, 16),
           [k \in 0 .. 15 |-> M(ReadAt(ra) + (IF ot = XMM_MO_64 THEN k ELSE DupByte(k, effect)))])

xmm_im_clear(v) == Clear(Xmm(v[1], 0, 16))

(***************************************************************************)
(* THREADED_DISPATCH: the handler of a record's case.                       *)
(***************************************************************************)
Handler(rec, ra, wa) ==
    LET c  == rec.case
        v  == rec.v1
        ot == c[3]
        ef == c[4]
        pair == <<c[1], c[2]>>
    IN  CASE ef = "inside_assign" -> inside_reg_assign(v)
          [] ef = "inside_append" -> inside_reg_append(v)
          [] pair = <<"REG", "REG">> /\ ef = "oo_assign"  -> reg_reg_oo_assign(v, ot)
          [] pair = <<"REG", "REG">> /\ ef = "oo_append"  -> reg_reg_oo_append(v, ot)
          [] pair = <<"REG", "REG">> /\ ef = "mix_append" -> reg_reg_mix_append(v, ot)
          [] pair = <<"REG", "MEM">> /\ ef = "oo_assign"  -> reg_mem_oo_assign(v, ot, ra)
          [] pair = <<"REG", "MEM">> /\ ef = "oo_append"  -> reg_mem_oo_append(v, ot, ra)
          [] pair = <<"REG", "MEM">> /\ ef = "mix_assign" -> reg_mem_mix_assign(v, ot, ra)
          [] pair = <<"REG", "MEM">> /\ ef = "mix_append" -> reg_mem_mix_append(v, ot, ra)
          [] pair = <<"MEM", "REG">> /\ ef = "oo_assign"  -> mem_reg_oo_assign(v, ot, wa)
          [] pair = <<"MEM", "REG">> /\ ef = "oo_append"  -> mem_reg_oo_append(v, ot, wa)
          [] pair = <<"MEM", "REG">> /\ ef = "mix_assign" -> mem_reg_mix_assign(v, ot, wa)
          [] pair = <<"MEM", "REG">> /\ ef = "mix_append" -> mem_reg_mix_append(v, ot, wa)
          [] pair = <<"MEM", "MEM">> -> mem_mem_oo_assign(ot, ra, wa)
          [] pair = <<"REG", "IM">>  -> reg_im_clear(v, ot)
          [] pair = <<"MEM", "IM">>  -> mem_im_clear(ot, wa)
          [] pair = <<"XMM", "IM">>  -> xmm_im_clear(v)
          [] pair = <<"XMM", "XMM">> /\ ef \in {"low", "l2h", "h2l"} -> xmm_xmm_oo_assign(v, ot, ef)
          [] pair = <<"XMM", "XMM">> /\ ef \in {"dup_low", "dup_high"} -> xmm_xmm_oo_assign_dup(v, ot, ef)
          [] pair = <<"XMM", "REG">> -> xmm_reg_oo_assign(v, ot)
          [] pair = <<"REG", "XMM">> -> reg_xmm_oo_assign(v, ot)
          [] pair = <<"XMM", "MEM">> /\ ef \in {"low", "high"} -> xmm_mem_oo_assign(v, ot, ef, ra)
          [] pair = <<"XMM", "MEM">> /\ ef \in {"dup_low", "dup_high"} -> xmm_mem_oo_assign_dup(v, ot, ef, ra)
          [] pair = <<"MEM", "XMM">> -> mem_xmm_oo_assign(v, ot, ef, wa)
=============================================================================
