------------------------------ MODULE DiftInsn ------------------------------
(***************************************************************************)
(* Instrumented instructions (target-i386/translate.c): for each one the    *)
(* memory accesses it makes, the records it enqueues, and, beside them, the *)
(* data flow of the code it emulates.  DiftFlow executes them.              *)
(*                                                                          *)
(* A record carries no address.  It is followed by last_mem_read_addr or    *)
(* last_mem_write_addr, which the access paths (the TLB hit code of         *)
(* tcg/i386/tcg-target.c and the helpers of softmmu_template.h) leave       *)
(* behind; code fetches and helpers write them too, so what an instruction  *)
(* finds in them is arbitrary.  The records are applied in the order they   *)
(* are enqueued (DiftBlock, DiftQueue).                                     *)
(*                                                                          *)
(* Flags, address dependences and the adjustment of stack and index         *)
(* pointers by constants are not data flow here.                            *)
(***************************************************************************)
EXTENDS DiftPolicy, SequencesExt

CONSTANTS PageSize,   \* TARGET_PAGE_SIZE
          Pages,      \* guest virtual page -> [frame, kind]
          Addrs,      \* guest virtual addresses of memory operands
          Regs,       \* register operands
          Segs,       \* segment register operands
          Xmms        \* XMM operands

ASSUME OperandAssumption ==
    Regs \subseteq 0 .. 15 /\ Segs \subseteq 0 .. 5 /\ Xmms \subseteq 0 .. 15

ASSUME InsnAssumption ==
    /\ \A p \in DOMAIN Pages :
         /\ Pages[p].kind \in {"ram", "code", "io"}
         /\ Pages[p].kind # "io" => (Pages[p].frame + 1) * PageSize <= RamSize
    /\ \A a \in Addrs : {a \div PageSize, (a + 15) \div PageSize} \subseteq DOMAIN Pages

-----------------------------------------------------------------------------
(***************************************************************************)
(* Memory.  A page is RAM, RAM that holds translated code (its write entry  *)
(* in the TLB has TLB_NOTDIRTY, so stores take the I/O path), or a device.  *)
(***************************************************************************)
Outside == RamSize + PageSize   \* clean_source or null_sink minus phys_ram_base

Page(va) == va \div PageSize
Kind(va) == Pages[Page(va)].kind
Phys(va) == Pages[Page(va)].frame * PageSize + (va % PageSize)
Spans(va, size) == Page(va) # Page(va + size - 1)

At(va, size) == [k \in 0 .. size - 1 |-> IF Kind(va + k) = "io" THEN NoCell ELSE M(Phys(va + k))]

\* The TLB hit code keeps the host address it accesses.
tcg_out_qemu_ld(va) == Phys(va)
tcg_out_qemu_st(va) == Phys(va)

helper_le_ld_aligned(va) == IF Kind(va) = "io" THEN Outside ELSE Phys(va)

\* An access that spans two pages is two aligned accesses; the address kept
\* is the one of the first, which starts below the bytes asked for.
helper_le_ld(va, size) ==
    IF Spans(va, size) THEN helper_le_ld_aligned(va - (va % size)) ELSE helper_le_ld_aligned(va)

helper_ret_stb(va) == IF Kind(va) \in {"io", "code"} THEN Outside ELSE Phys(va)

\* A store that spans two pages is a loop over its bytes; the address kept is
\* the one of byte 0.
helper_le_st(va, size) == helper_ret_stb(va)

\* The TLB hit code runs for plain pages only.
LoadAddr(va, size, hit) ==
    IF hit /\ Kind(va) # "io" /\ ~Spans(va, size)
    THEN tcg_out_qemu_ld(va) ELSE helper_le_ld(va, size)
StoreAddr(va, size, hit) ==
    IF hit /\ Kind(va) = "ram" /\ ~Spans(va, size)
    THEN tcg_out_qemu_st(va) ELSE helper_le_st(va, size)

(***************************************************************************)
(* Where the address kept is not the one of every byte of the access: the   *)
(* cells involved.                                                          *)
(***************************************************************************)
RdFrom(va, size, count) ==
    LET start == IF Spans(va, size) THEN va - (va % size) ELSE va
    IN  Range(Mem(IF Kind(va) = "io" THEN clean_source ELSE Phys(start), count))

WrTo(va, count) == IF Kind(va) = "ram" THEN Range(Mem(Phys(va), count)) ELSE {}

RdSlip(va, size) ==
    IF Spans(va, size) THEN Range(At(va, size)) \cup RdFrom(va, size, size) ELSE {}

WrSlip(va, size, src) ==
    IF Spans(va, size) \/ Kind(va) = "code"
    THEN Range(At(va, size)) \cup src \cup WrTo(va, size) ELSE {}

\* A read of several bytes at clean_source runs on into null_sink.
RdSink(va, size) == IF Kind(va) = "io" THEN {M(clean_source + k) : k \in 1 .. size - 1} ELSE {}

-----------------------------------------------------------------------------
(***************************************************************************)
(* Instructions.                                                            *)
(***************************************************************************)
Ld(va, size) == [op |-> "ld", va |-> va, size |-> size]
St(va, size) == [op |-> "st", va |-> va, size |-> size]

\* One transfer after another.
Then(t, u) ==
    [c \in DOMAIN t \cup DOMAIN u |->
       IF c \in DOMAIN u THEN UNION {IF x \in DOMAIN t THEN t[x] ELSE {x} : x \in u[c]} ELSE t[c]]

\* The effect of the records of ops, each with the addresses kept by then;
\* hit says which path the accesses take, stale what was kept before.
Records(ops, hit, stale) ==
    LET Step(s, o) ==
          CASE o.op = "ld"  -> [s EXCEPT !.ra = LoadAddr(o.va, o.size, hit)]
            [] o.op = "st"  -> [s EXCEPT !.wa = StoreAddr(o.va, o.size, hit)]
            [] o.op = "rec" -> [s EXCEPT !.does = Then(s.does, Handler(o, s.ra, s.wa))]
    IN  FoldLeft(Step, [does |-> <<>>, ra |-> stale, wa |-> stale], ops).does

\* An instruction: what its records may do, the requests without a case, the
\* data flow emulated, the cells whose taint the records lose (drop) and those
\* whose taint they spread (blur).
Insn(ops, data, drop, blur) ==
    [does   |-> {Records(ops, hit, stale) : hit \in BOOLEAN, stale \in {0, Outside}},
     lacks  |-> {o.case : o \in {x \in Range(ops) : x.op = "rec"}} \ case_list,
     data   |-> data,
     drop   |-> drop,
     blur   |-> blur,
     leaves |-> FALSE]

byte_reg_is_xH(r, rex) == r \in 4 .. 7 /\ ~rex

\* The cells of a register operand, and what gen_op_mov_reg_v does beyond
\* them: a 32 bit write clears the upper half, which no record says.
GR(r, ot, rex) ==
    CASE ot # MO_8 -> Reg(r, 2^ot)
      [] ot = MO_8 /\ byte_reg_is_xH(r, rex) -> Byte(r - 4, 1)
      [] OTHER -> Byte(r, 0)
Upper(r)  == {R(r, k) : k \in 4 .. 7}
ZX(r, ot) == IF ot = MO_32 THEN [c \in Upper(r) |-> {}] ELSE <<>>
Up(r, ot) == IF ot = MO_32 THEN Upper(r) ELSE {}

\* The register and byte a record names: reg > 3 is a high byte in a byte
\* operation.
N(r, ot)  == IF ot = MO_8 /\ r > 3 THEN r - 4 ELSE r
HL(r, ot) == IF ot = MO_8 /\ r > 3 THEN 1 ELSE 0

\* With a REX prefix it is the low byte of another register.
RexSlip(r, ot, rex) ==
    IF ot = MO_8 /\ r > 3 /\ (rex \/ r >= 8) THEN {R(r, 0), R(r - 4, 1)} ELSE {}

\* A sum or a difference: each byte depends on the bytes up to it.
UpTo(d, c) == {j \in DOMAIN d : \E k \in DOMAIN d : d[k] = c /\ j <= k}
Carry(d, s) == [c \in Range(d) |-> UNION {{d[j], s[j]} : j \in UpTo(d, c)}]
NotTop(d)   == {d[k] : k \in {j \in DOMAIN d : j + 1 \in DOMAIN d}}
NotLow(d)   == {d[k] : k \in DOMAIN d \ {0}}

\* The Ev operand: a register, or memory addressed by base.
EReg(r)        == [mem |-> FALSE, r |-> r, va |-> 0, base |-> R_NONE]
EMem(va, base) == [mem |-> TRUE, r |-> 0, va |-> va, base |-> base]
ELd(e, ot)     == IF e.mem THEN <<Ld(e.va, 2^ot)>> ELSE <<>>
ECells(e, ot)  == IF e.mem THEN At(e.va, 2^ot) ELSE GR(e.r, ot, FALSE)
ESlip(e, ot)   == IF e.mem THEN RdSlip(e.va, 2^ot) ELSE {}
ESink(e, ot)   == IF e.mem THEN RdSink(e.va, 2^ot) ELSE {}
EIndirect(e, ot) == IF e.base # R_NONE /\ ot \in {MO_8, MO_16}
                    THEN {R(e.base, k) : k \in 0 .. 2^ot - 1} ELSE {}

\* The record that brings Ev to a register.
ERec(reg, hl, e, effect, ot) ==
    IF e.mem THEN gen_dift_reg_mem(reg, effect, ot, hl, e.base)
             ELSE gen_dift_reg_reg(reg, N(e.r, ot), effect, ot, hl, HL(e.r, ot))

(* mov *)
mov_Ev_Gv_reg(rm, reg, ot, rex) ==
    LET slip == RexSlip(rm, ot, rex) \cup RexSlip(reg, ot, rex)
        all  == IF slip = {} THEN {} ELSE slip \cup Range(GR(rm, ot, rex)) \cup Range(GR(reg, ot, rex))
    IN  Insn(<<gen_dift_reg_reg(N(rm, ot), N(reg, ot), "oo_assign", ot, HL(rm, ot), HL(reg, ot))>>,
             Assign(GR(rm, ot, rex), GR(reg, ot, rex)) @@ ZX(rm, ot),
             all, all \cup Up(rm, ot))

mov_Ev_Gv_mem(va, base, reg, ot) ==
    LET src  == Range(GR(reg, ot, FALSE))
        slip == WrSlip(va, 2^ot, src)
    IN  Insn(<<St(va, 2^ot), gen_dift_mem_reg(N(reg, ot), "oo_assign", ot, HL(reg, ot), base)>>,
             Assign(At(va, 2^ot), GR(reg, ot, FALSE)), slip, slip)

\* The record of the register form names source and destination the other way
\* round.
mov_Gv_Ev_reg(reg, rm, ot) ==
    Insn(<<gen_dift_reg_reg(N(rm, ot), N(reg, ot), "oo_assign", ot, HL(rm, ot), HL(reg, ot))>>,
         Assign(GR(reg, ot, FALSE), GR(rm, ot, FALSE)) @@ ZX(reg, ot),
         IF rm = reg THEN {} ELSE Range(GR(rm, ot, FALSE)),
         Up(reg, ot) \cup (IF rm = reg THEN {} ELSE Range(GR(reg, ot, FALSE))))

\* Also mov EAX, Ov and lods.
mov_Gv_Ev_mem(reg, e, ot) ==
    Insn(ELd(e, ot) \o <<gen_dift_reg_mem(N(reg, ot), "oo_assign", ot, HL(reg, ot), e.base)>>,
         Assign(GR(reg, ot, FALSE), ECells(e, ot)) @@ ZX(reg, ot),
         ESlip(e, ot), ESlip(e, ot) \cup ESink(e, ot) \cup EIndirect(e, ot) \cup Up(reg, ot))

mov_Ev_Iv_mem(va, ot) ==
    Insn(<<St(va, 2^ot), gen_dift_mem_im(ot)>>, Clear(At(va, 2^ot)),
         WrSlip(va, 2^ot, {}), WrSlip(va, 2^ot, {}))

\* The register form emits no record.
mov_Ev_Iv_reg(rm, ot) ==
    Insn(<<>>, Clear(GR(rm, ot, FALSE)) @@ ZX(rm, ot), {}, Range(GR(rm, ot, FALSE)) \cup Up(rm, ot))

\* The record forgets REX.B and takes a REX register for a high byte.
mov_R_Ib(r, rex) ==
    LET b    == r % 8
        slip == IF r >= 8 \/ (rex /\ r > 3) THEN {R(r, 0), R(N(b, MO_8), HL(b, MO_8))} ELSE {}
    IN  Insn(<<gen_dift_reg_im(N(b, MO_8), MO_8, HL(b, MO_8))>>, Clear(GR(r, MO_8, rex)), slip, slip)

mov_R_Iv(r, ot) ==
    Insn(<<gen_dift_reg_im(r, ot, 0)>>, Clear(Reg(r, 2^ot)) @@ ZX(r, ot), {}, Up(r, ot))

mov_seg_Ev(seg, e) ==
    Insn(ELd(e, MO_16) \o <<ERec(R_SEG_REG_BASE + seg, 0, e, "oo_assign", MO_16)>>,
         Assign(Reg(R_SEG_REG_BASE + seg, 2), ECells(e, MO_16)),
         ESlip(e, MO_16), ESlip(e, MO_16) \cup ESink(e, MO_16) \cup EIndirect(e, MO_16))

mov_Gv_seg_reg(rm, seg, dflag) ==
    LET rest == [k \in 2 .. 7 |-> R(rm, k)]
    IN  Insn(<<gen_dift_reg_reg(rm, R_SEG_REG_BASE + seg, "oo_assign", MO_16, 0, 0)>>,
             Assign(Reg(rm, 2), Reg(R_SEG_REG_BASE + seg, 2))
               @@ (IF dflag = MO_16 THEN <<>> ELSE Clear(rest)),
             {}, IF dflag = MO_16 THEN {} ELSE Range(rest))

mov_Ev_seg_mem(va, seg) ==
    LET slip == WrSlip(va, 2, Range(Reg(R_SEG_REG_BASE + seg, 2)))
    IN  Insn(<<St(va, 2), gen_dift_mem_reg(R_SEG_REG_BASE + seg, "oo_assign", MO_16, 0, R_NONE)>>,
             Assign(At(va, 2), Reg(R_SEG_REG_BASE + seg, 2)), slip, slip)

\* les, lds, lss, lfs, lgs: the pointer, then the selector behind it.
lxx_Gv(reg, seg, va, ot) ==
    LET sel  == va + 2^ot
        slip == RdSlip(va, 2^ot) \cup RdSlip(sel, 2)
    IN  Insn(<<Ld(va, 2^ot), gen_dift_reg_mem(reg, "oo_assign", ot, 0, R_NONE),
               Ld(sel, 2), gen_dift_reg_mem(R_SEG_REG_BASE + seg, "oo_assign", MO_16, 0, R_NONE)>>,
             Assign(Reg(reg, 2^ot), At(va, 2^ot)) @@ ZX(reg, ot)
               @@ Assign(Reg(R_SEG_REG_BASE + seg, 2), At(sel, 2)),
             slip, slip \cup RdSink(va, 2^ot) \cup RdSink(sel, 2) \cup Up(reg, ot))

\* movzx and movsx: the same records, those of movsx.  A word extended to a
\* word takes byte 0 for byte 1.
movx_Gv_Ev(reg, e, ot, d_ot, signed) ==
    LET src == ECells(e, ot)
        top == src[2^ot - 1]
        fill == IF d_ot = MO_64 THEN <<7, 6, 5, 4, 3, 2, 1>> ELSE IF d_ot = MO_32 THEN <<3, 2, 1>> ELSE <<1>>
        from == IF d_ot = MO_16 THEN 0 ELSE ot
        word == IF ot = MO_16 /\ d_ot = MO_16 THEN Range(src) ELSE {}
    IN  Insn(ELd(e, ot) \o <<ERec(R_DIFT_TMP, 0, e, "oo_assign", ot)>>
               \o [i \in DOMAIN fill |-> gen_dift_inside_reg(R_DIFT_TMP, fill[i], from, "inside_assign")]
               \o <<gen_dift_reg_reg(reg, R_DIFT_TMP, "oo_assign", d_ot, 0, 0),
                    gen_dift_reg_im(R_DIFT_TMP, MO_64, 0)>>,
             [c \in Range(Reg(reg, 2^d_ot)) |->
                LET k == c - R(reg, 0) IN IF k < 2^ot THEN {src[k]} ELSE IF signed THEN {top} ELSE {}]
               @@ ZX(reg, d_ot),
             ESlip(e, ot) \cup word,
             ESlip(e, ot) \cup ESink(e, ot) \cup EIndirect(e, ot) \cup word \cup Up(reg, d_ot)
               \cup (IF signed \/ ot = d_ot THEN {} ELSE {top}))

\* The records add the base to what the register held, byte by byte.
lea_Gv(reg, base, ot) ==
    Insn(IF reg = base THEN <<>> ELSE <<gen_dift_reg_reg(reg, base, "oo_append", ot, 0, 0)>>,
         [c \in Range(Reg(reg, 2^ot)) |-> {R(base, j) : j \in 0 .. c - R(reg, 0)}] @@ ZX(reg, ot),
         NotTop(Reg(base, 2^ot)),
         Up(reg, ot) \cup (IF reg = base THEN {} ELSE Range(Reg(reg, 2^ot))))

(* xchg and xadd *)
\* R_DIFT_TMP not cleared.
xchg_reg_uncleared(rm, reg, ot) ==
    Insn(<<gen_dift_reg_reg(R_DIFT_TMP, N(reg, ot), "oo_assign", ot, 0, HL(reg, ot)),
           gen_dift_reg_reg(N(reg, ot), N(rm, ot), "oo_assign", ot, HL(reg, ot), HL(rm, ot)),
           gen_dift_reg_reg(N(rm, ot), R_DIFT_TMP, "oo_assign", ot, HL(rm, ot), 0)>>,
         Assign(GR(reg, ot, FALSE), GR(rm, ot, FALSE)) @@ Assign(GR(rm, ot, FALSE), GR(reg, ot, FALSE))
           @@ ZX(reg, ot) @@ ZX(rm, ot),
         {}, Up(reg, ot) \cup Up(rm, ot))

xchg_reg(rm, reg, ot) ==
    Insn(<<gen_dift_reg_reg(R_DIFT_TMP, N(reg, ot), "oo_assign", ot, 0, HL(reg, ot)),
           gen_dift_reg_reg(N(reg, ot), N(rm, ot), "oo_assign", ot, HL(reg, ot), HL(rm, ot)),
           gen_dift_reg_reg(N(rm, ot), R_DIFT_TMP, "oo_assign", ot, HL(rm, ot), 0),
           gen_dift_reg_im(R_DIFT_TMP, MO_64, 0)>>,
         Assign(GR(reg, ot, FALSE), GR(rm, ot, FALSE)) @@ Assign(GR(rm, ot, FALSE), GR(reg, ot, FALSE))
           @@ ZX(reg, ot) @@ ZX(rm, ot),
         {}, Up(reg, ot) \cup Up(rm, ot))

xchg_mem(e, reg, ot) ==
    LET g    == GR(reg, ot, FALSE)
        slip == WrSlip(e.va, 2^ot, Range(g)) \cup ESlip(e, ot)
    IN  Insn(<<Ld(e.va, 2^ot), St(e.va, 2^ot),
               gen_dift_reg_reg(R_DIFT_TMP, N(reg, ot), "oo_assign", ot, 0, HL(reg, ot)),
               gen_dift_reg_mem(N(reg, ot), "oo_assign", ot, HL(reg, ot), e.base),
               gen_dift_mem_reg(R_DIFT_TMP, "oo_assign", ot, 0, e.base),
               gen_dift_reg_im(R_DIFT_TMP, MO_64, 0)>>,
             Assign(g, ECells(e, ot)) @@ Assign(ECells(e, ot), g) @@ ZX(reg, ot),
             slip, slip \cup ESink(e, ot) \cup EIndirect(e, ot) \cup Up(reg, ot))

xadd_reg(rm, reg, ot) ==
    LET d == GR(rm, ot, FALSE)
        s == GR(reg, ot, FALSE)
    IN  Insn(<<gen_dift_reg_reg(R_DIFT_TMP, N(rm, ot), "oo_assign", ot, 0, HL(rm, ot)),
               gen_dift_reg_reg(N(rm, ot), N(reg, ot), "mix_append", ot, HL(rm, ot), HL(reg, ot)),
               gen_dift_reg_reg(N(reg, ot), R_DIFT_TMP, "oo_assign", ot, HL(reg, ot), 0),
               gen_dift_reg_im(R_DIFT_TMP, MO_64, 0)>>,
             Carry(d, s) @@ Assign(s, d) @@ ZX(rm, ot) @@ ZX(reg, ot),
             IF rm = reg THEN NotTop(d) ELSE {},
             NotLow(d) \cup NotLow(s) \cup Up(rm, ot) \cup Up(reg, ot))

\* The memory form records only the load into R_DIFT_TMP.
xadd_mem(e, reg, ot) ==
    LET m == ECells(e, ot)
        g == GR(reg, ot, FALSE)
        all == Range(m) \cup Range(g) \cup ESlip(e, ot)
    IN  [Insn(<<Ld(e.va, 2^ot), gen_dift_reg_mem(R_DIFT_TMP, "oo_assign", ot, 0, e.base), St(e.va, 2^ot)>>,
              Assign(g, m) @@ Carry(m, g) @@ ZX(reg, ot),
              all, all \cup ESink(e, ot) \cup EIndirect(e, ot) \cup Up(reg, ot))
         EXCEPT !.leaves = TRUE]

(* arithmetic and logic: k is "mix" for add, adc, sub and sbb, "oo" for and *)
(* and or, "xor" for xor                                                    *)
AluEffect(k)   == IF k = "mix" THEN "mix_append" ELSE "oo_append"
Alu(k, d, s)   == IF k = "mix" THEN Carry(d, s) ELSE Join(d, s)
AluBlur(k, d, s) == IF k = "mix" THEN NotLow(d) \cup NotLow(s) ELSE {}

op_reg_Ev(k, d, e, ot) ==
    LET zero == k = "xor" /\ ~e.mem /\ e.r = d
        g == GR(d, ot, FALSE)
        s == ECells(e, ot)
    IN  Insn(ELd(e, ot) \o <<IF zero THEN gen_dift_reg_im(N(d, ot), ot, HL(d, ot))
                                     ELSE ERec(N(d, ot), HL(d, ot), e, AluEffect(k), ot)>>,
             (IF zero THEN Clear(g) ELSE Alu(k, g, s)) @@ ZX(d, ot),
             ESlip(e, ot), ESlip(e, ot) \cup ESink(e, ot) \cup AluBlur(k, g, s) \cup Up(d, ot))

op_mem_reg(k, e, s, ot) ==
    LET g    == GR(s, ot, FALSE)
        slip == WrSlip(e.va, 2^ot, Range(g))
    IN  Insn(<<Ld(e.va, 2^ot), St(e.va, 2^ot),
               gen_dift_mem_reg(N(s, ot), AluEffect(k), ot, HL(s, ot), e.base)>>,
             Alu(k, ECells(e, ot), g), slip, slip \cup AluBlur(k, ECells(e, ot), g))

\* With an immediate gen_dift_op emits nothing for a register (also inc, dec,
\* neg and, as "oo", not) ...
op_reg_im(k, d, ot) ==
    LET g == GR(d, ot, FALSE)
    IN  Insn(<<>>, (IF k = "mix" THEN Carry(g, g) ELSE <<>>) @@ ZX(d, ot),
             IF k = "mix" THEN NotTop(g) ELSE {}, Up(d, ot))

\* ... and clears a memory operand (also not and neg).
op_mem_im(k, va, ot) ==
    LET m == At(va, 2^ot)
    IN  Insn(<<Ld(va, 2^ot), St(va, 2^ot), gen_dift_mem_im(ot)>>,
             IF k = "mix" THEN Carry(m, m) ELSE <<>>,
             Range(m) \cup WrSlip(va, 2^ot, {}), WrSlip(va, 2^ot, {}))

inc_mem(va, ot) ==
    Insn(<<Ld(va, 2^ot), St(va, 2^ot)>>, Carry(At(va, 2^ot), At(va, 2^ot)), NotTop(At(va, 2^ot)), {})

\* mul, imul, div and idiv of the accumulator: every byte of the result
\* depends on every operand byte.  A byte operand in AH..BH is taken for byte
\* 0 of the register numbered 4..7; a 64 bit div is recorded as a 32 bit one.
Acc(ot) == IF ot = MO_8 THEN Range(Reg(R_EAX, 2)) ELSE Range(Reg(R_EAX, 2^ot)) \cup Range(Reg(R_EDX, 2^ot))

AccRec(e, effect, ot) ==
    IF e.mem THEN gen_dift_reg_mem(R_EAX, effect, ot, 0, e.base)
             ELSE gen_dift_reg_reg(R_EAX, e.r, effect, ot, 0, 0)

AccSlip(e, ot) == IF ot = MO_8 /\ ~e.mem /\ e.r > 3 THEN Range(ECells(e, ot)) \cup {R(e.r, 0)} ELSE {}

mul_Ev(e, ot) ==
    LET src == (IF ot = MO_8 THEN {R(R_EAX, 0)} ELSE Range(Reg(R_EAX, 2^ot))) \cup Range(ECells(e, ot))
    IN  Insn(ELd(e, ot) \o
               (IF ot = MO_8
                THEN <<AccRec(e, "oo_append", ot), gen_dift_inside_reg(R_EAX, 1, 0, "inside_assign")>>
                ELSE <<AccRec(e, "mix_append", ot), gen_dift_reg_reg(R_EDX, R_EAX, "oo_assign", ot, 0, 0)>>),
             [c \in Acc(ot) |-> src] @@ ZX(R_EAX, ot) @@ ZX(R_EDX, ot),
             ESlip(e, ot) \cup AccSlip(e, ot),
             ESlip(e, ot) \cup AccSlip(e, ot) \cup ESink(e, ot)
               \cup Up(R_EAX, ot) \cup (IF ot = MO_8 THEN {} ELSE Up(R_EDX, ot)))

div_Ev(e, ot, signed) ==
    LET w    == IF ot = MO_64 /\ ~signed THEN MO_32 ELSE ot
        src  == Acc(ot) \cup Range(ECells(e, ot))
        slip == AccSlip(e, ot) \cup (IF w = ot THEN {} ELSE src)
    IN  Insn(ELd(e, ot) \o
               (IF ot = MO_8
                THEN <<AccRec(e, "oo_append", ot), gen_dift_inside_reg(R_EAX, 0, 1, "inside_append"),
                       gen_dift_inside_reg(R_EAX, 1, 0, "inside_assign")>>
                ELSE <<AccRec(e, "mix_append", w), gen_dift_reg_reg(R_EAX, R_EDX, "mix_append", w, 0, 0),
                       gen_dift_reg_reg(R_EDX, R_EAX, "oo_assign", w, 0, 0)>>),
             [c \in Acc(ot) |-> src] @@ ZX(R_EAX, ot) @@ ZX(R_EDX, ot),
             ESlip(e, ot) \cup slip,
             ESlip(e, ot) \cup slip \cup ESink(e, ot)
               \cup Up(R_EAX, ot) \cup (IF ot = MO_8 THEN {} ELSE Up(R_EDX, ot)))

\* With an immediate the old value of the register takes no part.
imul_Gv_Ev(reg, e, ot, imm) ==
    LET g == Reg(reg, 2^ot)
    IN  Insn(ELd(e, ot) \o <<ERec(reg, 0, e, "mix_append", ot)>>,
             (IF imm THEN MixAssign(g, ECells(e, ot)) ELSE MixJoin(g, ECells(e, ot))) @@ ZX(reg, ot),
             ESlip(e, ot),
             ESlip(e, ot) \cup ESink(e, ot) \cup Up(reg, ot) \cup (IF imm THEN Range(g) ELSE {}))

\* CWD, CDQ, CQO: EDX is filled with the sign of EAX.
cdq(ot) ==
    LET top == 2^ot - 1
    IN  Insn(<<gen_dift_reg_reg(R_EDX, R_EAX, "oo_assign", ot, 0, 0)>>
               \o [i \in 1 .. top |-> gen_dift_inside_reg(R_EDX, i - 1, top, "inside_assign")],
             [c \in Range(Reg(R_EDX, 2^ot)) |-> {R(R_EAX, top)}] @@ ZX(R_EDX, ot), {}, Up(R_EDX, ot))

\* CBW, CWDE, CDQE and xlat emit no record.
cbw(ot) ==
    LET top == R(R_EAX, 2^(ot - 1) - 1)
        ext == {R(R_EAX, k) : k \in 2^(ot - 1) .. 2^ot - 1}
    IN  Insn(<<>>, [c \in ext |-> {top}] @@ ZX(R_EAX, ot), {top}, ext \cup Up(R_EAX, ot))

xlat(va) ==
    Insn(<<Ld(va, 1)>>, Assign(Byte(R_EAX, 0), At(va, 1)), Range(At(va, 1)), {R(R_EAX, 0)})

(* the stack *)
mo_pushpop(dflag, code64) == IF ~code64 \/ dflag = MO_16 THEN dflag ELSE MO_64

\* Some requests have the size dflag + MO_16.  That is the size pushed only
\* for a dflag of MO_32 in 64 bit code; for MO_64 it is the case of MO_8 in
\* the layout of the others, so the index register is taken for the byte.
StackSlip(reg, va, dflag, code64) ==
    LET w == 2^mo_pushpop(dflag, code64)
    IN  IF dflag = MO_64
        THEN Range(Reg(reg, 8)) \cup Range(At(va, 8)) \cup {R(reg, R_NONE), R(R_EAX, 0)}
        ELSE {R(reg, k) : k \in w .. 2^(dflag + 1) - 1}
               \cup (IF Kind(va) = "io" THEN {} ELSE {M(Phys(va) + k) : k \in w .. 2^(dflag + 1) - 1})

\* The record also forgets REX.B.
push_reg(r, va, dflag, code64) ==
    LET w    == 2^mo_pushpop(dflag, code64)
        rexb == IF r >= 8 THEN Range(Reg(r, 8)) \cup Range(Reg(r % 8, 8)) ELSE {}
        slip == StackSlip(r % 8, va, dflag, code64) \cup WrSlip(va, w, Range(Reg(r, w))) \cup rexb
    IN  Insn(<<St(va, w), gen_dift_mem_reg(r % 8, "oo_assign", dflag + MO_16, 0, R_NONE)>>,
             Assign(At(va, w), Reg(r, w)), slip, slip)

pop_reg(r, va, dflag, code64) ==
    LET ot   == mo_pushpop(dflag, code64)
        rexb == IF r >= 8 THEN Range(Reg(r, 8)) \cup Range(Reg(r % 8, 8)) \cup Range(At(va, 2^ot)) ELSE {}
    IN  Insn(<<Ld(va, 2^ot), gen_dift_reg_mem(r % 8, "oo_assign", ot, 0, R_NONE)>>,
             Assign(Reg(r, 2^ot), At(va, 2^ot)) @@ ZX(r, ot),
             RdSlip(va, 2^ot) \cup rexb,
             RdSlip(va, 2^ot) \cup rexb \cup RdSink(va, 2^ot) \cup Up(r, ot))

\* movs, push Ev and pop Ev of memory.
move_mem_mem(to, from, ot) ==
    LET slip == WrSlip(to, 2^ot, Range(At(from, 2^ot))) \cup RdSlip(from, 2^ot)
    IN  Insn(<<Ld(from, 2^ot), St(to, 2^ot), gen_dift_mem_mem("oo_assign", ot)>>,
             Assign(At(to, 2^ot), At(from, 2^ot)),
             slip \cup (IF slip = {} THEN {} ELSE Range(At(to, 2^ot))),
             slip \cup RdSink(from, 2^ot))

push_Ev_reg(r, va, ot) == mov_Ev_Gv_mem(va, R_NONE, r, ot)
push_Iv(va, ot)        == mov_Ev_Iv_mem(va, ot)
stos(va, ot)           == mov_Ev_Gv_mem(va, R_NONE, R_EAX, ot)
lods(va, ot)           == mov_Gv_Ev_mem(R_EAX, EMem(va, R_NONE), ot)

\* An effect no byte request has: with a dflag of MO_64 the translator exits.
push_seg(seg, va, dflag, code64) ==
    LET w    == 2^mo_pushpop(dflag, code64)
        sr   == R_SEG_REG_BASE + seg
        slip == StackSlip(sr, va, dflag, code64) \cup WrSlip(va, w, Range(Reg(sr, 8)))
    IN  Insn(<<St(va, w), gen_dift_mem_reg(sr, "mix_assign", dflag + MO_16, 0, R_NONE)>>,
             Assign(At(va, 2), Reg(sr, 2)) @@ Clear(At(va, w)),
             slip, slip \cup Range(Reg(sr, 8)))

pop_seg(seg, va, dflag, code64) ==
    LET w    == 2^mo_pushpop(dflag, code64)
        sr   == R_SEG_REG_BASE + seg
        slip == StackSlip(sr, va, dflag, code64) \cup RdSlip(va, w)
    IN  Insn(<<Ld(va, w), gen_dift_reg_mem(sr, "mix_assign", dflag + MO_16, 0, R_NONE)>>,
             Assign(Reg(sr, 2), At(va, 2)),
             slip \cup (Range(Reg(sr, 8)) \ Range(Reg(sr, 2))),
             slip \cup Range(At(va, w)) \cup RdSink(va, 8))

enter(va, dflag, code64) ==
    LET ot   == mo_pushpop(dflag, code64)
        over == 2^ot .. (IF code64 THEN 8 ELSE 4) - 1
        slip == WrSlip(va, 2^ot, Range(Reg(R_EBP, 2^ot)))
                  \cup {R(R_EBP, k) : k \in over} \cup {R(R_ESP, k) : k \in over}
    IN  Insn(<<St(va, 2^ot), gen_dift_mem_reg(R_EBP, "oo_assign", ot, 0, R_NONE),
               gen_dift_reg_reg(R_EBP, R_ESP, "oo_assign", IF code64 THEN MO_64 ELSE MO_32, 0, 0)>>,
             Assign(At(va, 2^ot), Reg(R_EBP, 2^ot)) @@ Assign(Reg(R_EBP, 2^ot), Reg(R_ESP, 2^ot))
               @@ ZX(R_EBP, ot),
             slip, slip \cup Up(R_EBP, ot))

\* The move of EBP to ESP is not recorded.
leave(va, dflag, code64) ==
    LET w    == 2^mo_pushpop(dflag, code64)
        e    == IF code64 THEN MO_64 ELSE MO_32
        slip == StackSlip(R_EBP, va, dflag, code64) \cup RdSlip(va, w) \cup Range(Reg(R_EBP, 8))
    IN  Insn(<<Ld(va, w), gen_dift_reg_mem(R_EBP, "oo_assign", dflag + MO_16, 0, R_NONE)>>,
             Assign(Reg(R_EBP, w), At(va, w)) @@ ZX(R_EBP, mo_pushpop(dflag, code64))
               @@ Assign(Reg(R_ESP, 2^e), Reg(R_EBP, 2^e)) @@ ZX(R_ESP, e),
             slip, slip \cup Range(Reg(R_ESP, 8)) \cup RdSink(va, 8))

(* control transfers: R_RIP holds the target, a direct one is a constant *)
RipRest(w) == Clear([k \in w .. 7 |-> R(R_RIP, k)])

ret(va, dflag, code64) ==
    LET w    == 2^mo_pushpop(dflag, code64)
        slip == StackSlip(R_RIP, va, dflag, code64) \cup RdSlip(va, w)
    IN  Insn(<<Ld(va, w), gen_dift_reg_mem(R_RIP, "oo_assign", dflag + MO_16, 0, R_NONE)>>,
             Assign(Reg(R_RIP, w), At(va, w)) @@ RipRest(w),
             slip, slip \cup DOMAIN RipRest(w) \cup RdSink(va, 8))

call_im(va, dflag, code64) ==
    LET w    == 2^mo_pushpop(dflag, code64)
        slip == StackSlip(R_RIP, va, dflag, code64) \cup WrSlip(va, w, {})
    IN  Insn(<<St(va, w), gen_dift_mem_reg(R_RIP, "oo_assign", dflag + MO_16, 0, R_NONE)>>,
             Clear(At(va, w)) @@ RipRest(0), slip, slip \cup Range(Reg(R_RIP, 8)))

jmp_im(dflag) ==
    Insn(<<gen_dift_reg_im(R_RIP, dflag + MO_16, 0)>>, RipRest(0), {},
         IF dflag = MO_32 THEN {} ELSE Range(Reg(R_RIP, 8)))

\* The target is recorded as R_DIFT_TMP, which nothing loads.
call_Ev(e, va) ==
    LET slip == WrSlip(va, 8, {}) \cup Range(ECells(e, MO_64))
    IN  Insn(ELd(e, MO_64)
               \o <<St(va, 8), gen_dift_mem_reg(R_RIP, "oo_assign", MO_64, 0, R_NONE),
                    gen_dift_reg_reg(R_RIP, R_DIFT_TMP, "oo_assign", MO_64, 0, 0),
                    gen_dift_reg_im(R_DIFT_TMP, MO_64, 0)>>,
             Clear(At(va, 8)) @@ Assign(Reg(R_RIP, 8), ECells(e, MO_64)),
             slip, slip \cup Range(Reg(R_RIP, 8)) \cup Range(Reg(R_DIFT_TMP, 8)))

jmp_Ev(e) ==
    Insn(ELd(e, MO_64) \o <<ERec(R_RIP, 0, e, "oo_assign", MO_64)>>,
         Assign(Reg(R_RIP, 8), ECells(e, MO_64)),
         ESlip(e, MO_64), ESlip(e, MO_64) \cup ESink(e, MO_64))

(* SSE moves.  The 128 bit accesses (gen_ldo_env_A0, gen_sto_env_A0) are two *)
(* of 64 bits, and the record that follows them has the address of the       *)
(* second: 8 bytes too high.                                                 *)
LdO(va) == <<Ld(va, 8), Ld(va + 8, 8)>>
StO(va) == <<St(va, 8), St(va + 8, 8)>>
WideRd(va)    == Range(At(va, 16)) \cup RdFrom(va + 8, 8, 16)
WideWr(va, x) == Range(At(va, 16)) \cup WrTo(va + 8, 16) \cup Range(Xmm(x, 0, 16))

movo_load(x, va) ==
    Insn(LdO(va) \o <<gen_dift_xmm_mem(x, XMM_MO_128, "low")>>,
         Assign(Xmm(x, 0, 16), At(va, 16)), WideRd(va), WideRd(va))

movo_store(va, x) ==
    Insn(StO(va) \o <<gen_dift_mem_xmm(x, XMM_MO_128, "low")>>,
         Assign(At(va, 16), Xmm(x, 0, 16)), WideWr(va, x), WideWr(va, x))

movo_reg(d, s) ==
    Insn(<<gen_dift_xmm_xmm(d, s, XMM_MO_128, "low")>>, Assign(Xmm(d, 0, 16), Xmm(s, 0, 16)), {}, {})

\* movss, movsd and movq loads clear the rest of the register.
mov_scalar_load(x, va, ot) ==
    LET w == XBytes(ot)
    IN  Insn(<<Ld(va, w), gen_dift_xmm_im(x, XMM_MO_128), gen_dift_xmm_mem(x, ot, "low")>>,
             Assign(Xmm(x, 0, w), At(va, w)) @@ Clear(Xmm(x, 0, 16)),
             RdSlip(va, w), RdSlip(va, w) \cup RdSink(va, w))

mov_scalar_reg(d, s, ot) ==
    Insn(<<gen_dift_xmm_xmm(d, s, ot, "low")>>, Assign(Xmm(d, 0, XBytes(ot)), Xmm(s, 0, XBytes(ot))), {}, {})

\* Cleared before it is copied: a movq of a register to itself loses it.
movq_reg(d, s) ==
    Insn(<<gen_dift_xmm_im(d, XMM_MO_128), gen_dift_xmm_xmm(d, s, XMM_MO_64, "low")>>,
         Assign(Xmm(d, 0, 8), Xmm(s, 0, 8)) @@ Clear(Xmm(d, 8, 8)),
         IF d = s THEN Range(Xmm(d, 0, 8)) ELSE {}, {})

\* movss, movsd, movq, movlps and movhps (half = 8) stores and the
\* non-temporal ones.
mov_scalar_store(va, x, ot, half) ==
    LET w    == XBytes(ot)
        slip == WrSlip(va, w, Range(Xmm(x, half, w)))
    IN  Insn(<<St(va, w), gen_dift_mem_xmm(x, ot, IF half = 0 THEN "low" ELSE "high")>>,
             Assign(At(va, w), Xmm(x, half, w)), slip, slip)

movlh_load(x, va, half) ==
    Insn(<<Ld(va, 8), gen_dift_xmm_mem(x, XMM_MO_64, IF half = 0 THEN "low" ELSE "high")>>,
         Assign(Xmm(x, half, 8), At(va, 8)), RdSlip(va, 8), RdSlip(va, 8) \cup RdSink(va, 8))

movhlps(d, s) ==
    Insn(<<gen_dift_xmm_xmm(d, s, XMM_MO_64, "h2l")>>, Assign(Xmm(d, 0, 8), Xmm(s, 8, 8)), {}, {})
movlhps(d, s) ==
    Insn(<<gen_dift_xmm_xmm(d, s, XMM_MO_64, "l2h")>>, Assign(Xmm(d, 8, 8), Xmm(s, 0, 8)), {}, {})

\* movsldup (odd = 0) and movshdup (odd = 4): XMM_L(0) and XMM_L(2), or
\* XMM_L(1) and XMM_L(3), twice.
Dup32(k, odd) == IF k < 8 THEN odd + (k % 4) ELSE 8 + odd + (k % 4)
DupEffect(odd) == IF odd = 0 THEN "dup_low" ELSE "dup_high"

movdup32_reg(d, s, odd) ==
    Insn(<<gen_dift_xmm_xmm(d, s, XMM_MO_32, DupEffect(odd))>>,
         Assign(Xmm(d, 0, 16), [k \in 0 .. 15 |-> X(s, Dup32(k, odd))]), {}, {})

movdup32_mem(x, va, odd) ==
    Insn(LdO(va) \o <<gen_dift_xmm_mem(x, XMM_MO_32, DupEffect(odd))>>,
         Assign(Xmm(x, 0, 16), [k \in 0 .. 15 |-> At(va, 16)[Dup32(k, odd)]]), WideRd(va), WideRd(va))

movddup_reg(d, s) ==
    Insn(<<gen_dift_xmm_xmm(d, s, XMM_MO_64, "dup_low")>>,
         Assign(Xmm(d, 0, 16), [k \in 0 .. 15 |-> X(s, k % 8)]), {}, {})

\* One access of 8 bytes, but the handler reads 16.
movddup_mem(x, va) ==
    LET slip == Range(At(va, 8)) \cup RdFrom(va, 8, 16)
    IN  Insn(<<Ld(va, 8), gen_dift_xmm_mem(x, XMM_MO_64, "dup_low")>>,
             Assign(Xmm(x, 0, 16), [k \in 0 .. 15 |-> At(va, 8)[k % 8]]), slip, slip)

\* movd and movq between XMM and Ev: the rest of the XMM register is cleared,
\* which is not recorded.
movd_load(x, e, ot) ==
    LET w == 2^ot
    IN  Insn(ELd(e, ot) \o <<IF e.mem THEN gen_dift_xmm_mem(x, ot - 2, "low")
                                      ELSE gen_dift_xmm_reg(x, e.r, ot - 2, "low")>>,
             Assign(Xmm(x, 0, w), ECells(e, ot)) @@ Clear(Xmm(x, 0, 16)),
             ESlip(e, ot), ESlip(e, ot) \cup ESink(e, ot) \cup Range(Xmm(x, w, 16 - w)))

movd_store_reg(r, x, ot) ==
    Insn(<<gen_dift_reg_xmm(r, x, ot - 2, "low")>>, Assign(Reg(r, 2^ot), Xmm(x, 0, 2^ot)) @@ ZX(r, ot),
         {}, Up(r, ot))

-----------------------------------------------------------------------------
(***************************************************************************)
(* The instructions over the operands of the instance.  A byte operand is   *)
(* one without REX prefix, except in mov.                                   *)
(***************************************************************************)
Evs  == {EReg(r) : r \in Regs} \cup {EMem(va, b) : va \in Addrs, b \in {R_NONE, R_EBX}}
Words == Sizes \ {MO_8}
NoRex(r, ot) == ot = MO_8 => r < 8

RO  == {q \in [r : Regs, ot : Sizes] : NoRex(q.r, q.ot)}
RRO == {q \in [r : Regs, s : Regs, ot : Sizes] : NoRex(q.r, q.ot) /\ NoRex(q.s, q.ot)}
EO  == {q \in [e : Evs, ot : Sizes] : NoRex(q.e.r, q.ot)}
REO == {q \in [r : Regs, e : Evs, ot : Sizes] : NoRex(q.r, q.ot) /\ NoRex(q.e.r, q.ot)}
RMO == {q \in REO : q.e.mem}
AO  == [va : Addrs, ot : Sizes]
Ops == {"mix", "oo", "xor"}

\* The operand and address sizes of a stack instruction: 16 or 64 bits in 64
\* bit code, where the translator's dflag may also be MO_32, 16 or 32 outside.
Modes == {<<MO_16, TRUE>>, <<MO_32, TRUE>>, <<MO_64, TRUE>>, <<MO_16, FALSE>>, <<MO_32, FALSE>>}

MovInsns ==
    {mov_Ev_Gv_reg(r, s, ot, rex) : r \in Regs, s \in Regs, ot \in Sizes, rex \in BOOLEAN}
      \cup {mov_Ev_Gv_mem(q.e.va, q.e.base, q.r, q.ot) : q \in RMO}
      \cup {mov_Gv_Ev_reg(q.r, q.s, q.ot) : q \in RRO}
      \cup {mov_Gv_Ev_mem(q.r, q.e, q.ot) : q \in RMO}
      \cup {mov_Ev_Iv_mem(q.va, q.ot) : q \in AO}
      \cup {mov_Ev_Iv_reg(q.r, q.ot) : q \in RO}
      \cup {mov_R_Ib(r, rex) : r \in Regs, rex \in BOOLEAN}
      \cup {mov_R_Iv(r, ot) : r \in Regs, ot \in Words}
      \cup {mov_seg_Ev(g, e) : g \in Segs, e \in Evs}
      \cup {mov_Gv_seg_reg(r, g, ot) : r \in Regs, g \in Segs, ot \in Words}
      \cup {mov_Ev_seg_mem(va, g) : va \in Addrs, g \in Segs}
      \cup {lxx_Gv(r, g, va, ot) : r \in Regs, g \in Segs, va \in Addrs, ot \in {MO_16, MO_32}}
      \cup {movx_Gv_Ev(r, e, MO_8, d, sg) : r \in Regs, e \in {x \in Evs : x.r < 8}, d \in Words, sg \in BOOLEAN}
      \cup {movx_Gv_Ev(r, e, MO_16, d, sg) : r \in Regs, e \in Evs, d \in Words, sg \in BOOLEAN}
      \cup {lea_Gv(r, b, ot) : r \in Regs, b \in Regs, ot \in Words}
      \cup {move_mem_mem(a, b, ot) : a \in Addrs, b \in Addrs, ot \in Sizes}
      \cup {stos(q.va, q.ot) : q \in AO} \cup {lods(q.va, q.ot) : q \in AO}

AluInsns ==
    {xchg_reg(q.r, q.s, q.ot) : q \in RRO} \cup {xchg_mem(q.e, q.r, q.ot) : q \in RMO}
      \cup {xadd_reg(q.r, q.s, q.ot) : q \in RRO} \cup {xadd_mem(q.e, q.r, q.ot) : q \in RMO}
      \cup UNION {{op_reg_Ev(k, q.r, q.e, q.ot) : q \in REO} : k \in Ops}
      \cup UNION {{op_mem_reg(k, q.e, q.r, q.ot) : q \in RMO} : k \in Ops}
      \cup UNION {{op_reg_im(k, q.r, q.ot) : q \in RO} : k \in Ops}
      \cup {op_mem_im(k, va, ot) : k \in Ops, va \in Addrs, ot \in Sizes}
      \cup {inc_mem(q.va, q.ot) : q \in AO}
      \cup {mul_Ev(q.e, q.ot) : q \in EO} \cup {div_Ev(q.e, q.ot, TRUE) : q \in EO}
      \cup {div_Ev(q.e, q.ot, FALSE) : q \in EO}
      \cup {imul_Gv_Ev(r, e, ot, im) : r \in Regs, e \in Evs, ot \in Words, im \in BOOLEAN}
      \cup {cdq(ot) : ot \in Words} \cup {cbw(ot) : ot \in Words} \cup {xlat(va) : va \in Addrs}

StackInsns ==
    UNION {{push_reg(r, va, m[1], m[2]), pop_reg(r, va, m[1], m[2])} : r \in Regs, va \in Addrs, m \in Modes}
      \cup UNION {{push_seg(g, va, m[1], m[2]), pop_seg(g, va, m[1], m[2])} : g \in Segs, va \in Addrs, m \in Modes}
      \cup UNION {{enter(va, m[1], m[2]), leave(va, m[1], m[2]), ret(va, m[1], m[2]), call_im(va, m[1], m[2])} :
                    va \in Addrs, m \in Modes}
      \cup {push_Ev_reg(r, va, ot) : r \in Regs, va \in Addrs, ot \in Words}
      \cup {push_Iv(va, ot) : va \in Addrs, ot \in Words}
      \cup {jmp_im(ot) : ot \in Words} \cup {jmp_Ev(e) : e \in Evs}
      \cup {call_Ev(e, va) : e \in Evs, va \in Addrs}

SseInsns ==
    UNION {{movo_load(x, va), movo_store(va, x), movddup_mem(x, va)} : x \in Xmms, va \in Addrs}
      \cup UNION {{movo_reg(x, y), movq_reg(x, y), movhlps(x, y), movlhps(x, y), movddup_reg(x, y)} :
                    x \in Xmms, y \in Xmms}
      \cup UNION {{mov_scalar_load(x, va, ot), mov_scalar_store(va, x, ot, 0)} :
                    x \in Xmms, va \in Addrs, ot \in {XMM_MO_32, XMM_MO_64}}
      \cup {mov_scalar_store(va, x, XMM_MO_64, 8) : x \in Xmms, va \in Addrs}
      \cup {mov_scalar_reg(x, y, ot) : x \in Xmms, y \in Xmms, ot \in {XMM_MO_32, XMM_MO_64}}
      \cup {movlh_load(x, va, half) : x \in Xmms, va \in Addrs, half \in {0, 8}}
      \cup {movdup32_reg(x, y, odd) : x \in Xmms, y \in Xmms, odd \in {0, 4}}
      \cup {movdup32_mem(x, va, odd) : x \in Xmms, va \in Addrs, odd \in {0, 4}}
      \cup {movd_load(x, e, ot) : x \in Xmms, e \in Evs, ot \in {MO_32, MO_64}}
      \cup {movd_store_reg(r, x, ot) : r \in Regs, x \in Xmms, ot \in {MO_32, MO_64}}

AllInsns == MovInsns \cup AluInsns \cup StackInsns \cup SseInsns
=============================================================================
