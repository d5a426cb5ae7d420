------------------------------- MODULE A32Isel -------------------------------
(***************************************************************************)
(* Instruction selection for the 32-bit Arm: the table of patterns of      *)
(* CodeGenA32/isel_tab.py, how a pattern is found for an instruction and   *)
(* how its templates become instruction words and relocations.             *)
(*                                                                         *)
(* A function f has the kinds and the cpu registers <<class, number>> of   *)
(* its registers, and the slots of its stack regions once they are final.  *)
(***************************************************************************)
EXTENDS IrOpcodes, A32Opcodes

\* Template arguments, PARAM and the enumerations of CpuA32/opcode_tab.py.  The number of
\* an operand counts from 0 in the source.
reg(n) == <<"reg", n + 1>>
num(n) == <<"num", n + 1>>
num_neg(n) == <<"neg", n + 1>>
num_not(n) == <<"not", n + 1>>
num1_lo16 == <<"lo16", 2>>
num1_hi16 == <<"hi16", 2>>
stk_offset(n) == <<"stk", n + 1>>
stk1_offset2_lo == <<"stk_lo", 2>>
stk1_offset2_hi == <<"stk_hi", 2>>
scratch == <<"scratch", 0>>
reloc_lo16(n) == <<"MOVW_ABS_NC", n + 1>>
reloc_hi16(n) == <<"MOVT_ABS", n + 1>>
bbl(n) == <<"JUMP24", n + 1>>
fun0 == <<"CALL", 1>>
Lit(n) == <<"lit", n>>
lsl == Lit(0)
lsr == Lit(1)
asr == Lit(2)
ror_rrx == Lit(3)
r7 == Lit(7)
sp == Lit(13)
link_reg == Lit(14)
pc == Lit(15)
pUW == Lit(3)       \* after the access, add
pUw == Lit(2)
Puw == Lit(4)       \* before the access, subtract
PuW == Lit(5)
PUw == Lit(6)
Preds == <<"eq", "ne", "cs", "cc", "mi", "pl", "vs", "vc", "hi", "ls", "ge", "lt", "gt", "le", "al">>
Pred(name) == Lit((CHOOSE i \in DOMAIN Preds : Preds[i] = name) - 1)

\* InsTmpl: every opcode that the table uses has a condition.
TP(pred, name, args) == [name |-> name, args |-> <<Pred(pred)>> \o args]
T(name, args) == TP("al", name, args)

----------------------------------------------------------------------------
(* Immediates.                                                             *)

CanRotate(x) == Rotations(Low(x, 32)) # {}
WordBelow(x, n) == IsBelow(x, n) /\ x \cap {0, 1} = {}
NegativeBelow(x, n) == x = {} \/ (IsNegative(x) /\ IsBelow(Negate(x), n))

\* _NUM_MATCHERS.  The bound of the scaled ones is on half of the value.
ImmFits(constr, x) ==
    CASE constr \in {"pos_8_bits_shifted", "pos_stk_combo_8_bits_shifted"} -> CanRotate(x)
      [] constr = "neg_8_bits_shifted" -> CanRotate(Negate(x))
      [] constr = "not_8_bits_shifted" -> CanRotate(Invert(x))
      [] constr = "pos_5_bits" -> IsBelow(x, 5)
      [] constr \in {"pos_12_bits", "pos_stk_combo_12_bits"} -> IsBelow(x, 12)
      [] constr = "neg_12_bits" -> NegativeBelow(x, 12)
      [] constr \in {"pos_8_bits", "pos_stk_combo_8_bits"} -> IsBelow(x, 8)
      [] constr = "neg_8_bits" -> NegativeBelow(x, 8)
      [] constr = "pos_8_bits_times_4" -> WordBelow(x, 9)
      [] constr = "neg_8_bits_times_4" -> NegativeBelow(x, 9) /\ x \cap {0, 1} = {}
      [] constr = "pos_stk_combo_8_bits_times_4" -> IsBelow(x, 9)
      [] constr \in {"pos_16_bits", "pos_stk_combo_16_bits"} -> IsBelow(x, 16)
      [] constr = "any_32_bits" -> TRUE
_IMM_KIND_STK == {"pos_stk_combo_8_bits_shifted", "pos_stk_combo_8_bits", "pos_stk_combo_8_bits_times_4",
                  "pos_stk_combo_12_bits", "pos_stk_combo_16_bits"}

----------------------------------------------------------------------------
(* The patterns.                                                           *)

Row(opc, types, imms, emit) == <<[opc |-> opc, types |-> types, imms |-> imms, emit |-> emit]>>
X == "INVALID"          \* an operand without a type
N == "invalid"          \* an operand that must not be an immediate
Imm2(x) == <<N, N, x>>
Imm1(x) == <<N, x, N>>
Offsets == <<"U32", "S32">>
Both(Body(_)) == ForEach(Offsets, Body)

\* Loads: of a register offset, of a positive and a negative immediate one, of the stack.
LoadWord(k1, name, k2) ==
    LET addressed(mode, more) == <<reg(0), mode, reg(1)>> \o more
    IN  Row("ld", <<k1, "A32", k2>>, Imm2(N), <<T(name \o "_reg", addressed(PUw, <<lsl, reg(2), Lit(0)>>))>>)
        \o Row("ld", <<k1, "A32", k2>>, Imm2("pos_12_bits"), <<T(name \o "_imm", addressed(PUw, <<num(2)>>))>>)
        \o Row("ld", <<k1, "A32", k2>>, Imm2("neg_12_bits"), <<T(name \o "_imm", addressed(Puw, <<num_neg(2)>>))>>)
        \o Row("ld.stk", <<k1, X, k2>>, Imm2("pos_stk_combo_12_bits"),
               <<T(name \o "_imm", <<reg(0), PUw, sp, stk_offset(1)>>)>>)
LoadFloat(k1, name, k2) ==
    Row("ld", <<k1, "A32", k2>>, Imm2("pos_8_bits_times_4"), <<T(name, <<reg(0), PUw, reg(1), num(2)>>)>>)
    \o Row("ld", <<k1, "A32", k2>>, Imm2("neg_8_bits_times_4"), <<T(name, <<reg(0), Puw, reg(1), num_neg(2)>>)>>)
    \o Row("ld.stk", <<k1, X, k2>>, Imm2("pos_stk_combo_8_bits_times_4"),
           <<T(name, <<reg(0), PUw, sp, stk_offset(1)>>)>>)
\* As the source has them: a negative offset is added and a positive one subtracted.
LoadHalf(k1, name, k2) ==
    Row("ld", <<k1, "A32", k2>>, Imm2(N), <<T(name \o "_reg", <<reg(0), PUw, reg(1), reg(2)>>)>>)
    \o Row("ld", <<k1, "A32", k2>>, Imm2("neg_8_bits"), <<T(name \o "_imm", <<reg(0), PUw, reg(1), num_neg(2)>>)>>)
    \o Row("ld", <<k1, "A32", k2>>, Imm2("pos_8_bits"), <<T(name \o "_imm", <<reg(0), Puw, reg(1), num(2)>>)>>)
    \o Row("ld.stk", <<k1, X, k2>>, Imm2("pos_stk_combo_8_bits"),
           <<T(name \o "_imm", <<reg(0), PUw, sp, stk_offset(1)>>)>>)
Each(list, P(_, _, _)) == ForEach(list, LAMBDA e : P(e[1], e[2], "U32") \o P(e[1], e[2], "S32"))

InitLoad ==
    Each(<< <<"U32", "ldr">>, <<"S32", "ldr">>, <<"A32", "ldr">>, <<"C32", "ldr">>, <<"U8", "ldrb">> >>, LoadWord)
    \o Each(<< <<"F32", "vldr.f32">>, <<"F64", "vldr.f64">> >>, LoadFloat)
    \o Each(<< <<"S8", "ldrsb">>, <<"U16", "ldrh">>, <<"S16", "ldrsh">> >>, LoadHalf)

\* The two immediate forms of a store, and the one to the stack.
StoreImmediate(k, name, k1, range) ==
    Row("st", <<"A32", k1, k>>, Imm1("pos_" \o range), <<T(name, <<PUw, reg(0), num(1), reg(2)>>)>>)
    \o Row("st", <<"A32", k1, k>>, Imm1("neg_" \o range), <<T(name, <<Puw, reg(0), num_neg(1), reg(2)>>)>>)
    \o Row("st.stk", <<X, k1, k>>, Imm1("pos_stk_combo_" \o range), <<T(name, <<PUw, sp, stk_offset(0), reg(2)>>)>>)
StoreWord(k, name, k1) ==
    Row("st", <<"A32", k1, k>>, Imm1(N), <<T(name \o "_reg", <<PUw, reg(0), lsl, reg(1), Lit(0), reg(2)>>)>>)
    \o StoreImmediate(k, name \o "_imm", k1, "12_bits")
StoreFloat(k, name, k1) == StoreImmediate(k, name, k1, "8_bits_times_4")
StoreHalf(k, name, k1) ==
    Row("st", <<"A32", k1, k>>, Imm1(N), <<T(name \o "_reg", <<PUw, reg(0), reg(1), reg(2)>>)>>)
    \o StoreImmediate(k, name \o "_imm", k1, "8_bits")

InitStore ==
    Each(<< <<"U32", "str">>, <<"S32", "str">>, <<"A32", "str">>, <<"C32", "str">>, <<"U8", "strb">>,
            <<"S8", "strb">> >>, StoreWord)
    \o Each(<< <<"F32", "vstr.f32">>, <<"F64", "vstr.f64">> >>, StoreFloat)
    \o Each(<< <<"U16", "strh">>, <<"S16", "strh">> >>, StoreHalf)

----------------------------------------------------------------------------
AluBoth(k, opc, name) ==
    Row(opc, <<k, k, k>>, Imm2(N), <<T(name \o "_regimm", <<reg(0), reg(1), lsl, reg(2), Lit(0)>>)>>)
    \o Row(opc, <<k, k, k>>, Imm2("pos_8_bits_shifted"), <<T(name \o "_imm", <<reg(0), reg(1), num(2)>>)>>)
AluOf(k) ==
    AluBoth(k, "and", "and") \o AluBoth(k, "xor", "eor") \o AluBoth(k, "add", "add")
    \o AluBoth(k, "or", "orr") \o AluBoth(k, "sub", "sub")
    \o Row("and", <<k, k, k>>, Imm2("not_8_bits_shifted"), <<T("bic_imm", <<reg(0), reg(1), num_not(2)>>)>>)
    \o Row("sub", <<k, k, k>>, Imm1("pos_8_bits_shifted"), <<T("rsb_imm", <<reg(0), reg(2), num(1)>>)>>)
    \o Row("mul", <<k, k, k>>, Imm2(N), <<T("mul", <<reg(0), reg(1), reg(2)>>)>>)
Shift(opc, k, dir) ==
    Row(opc, <<k, k, k>>, Imm2(N), <<T("mov_regreg", <<reg(0), dir, reg(1), reg(2)>>)>>)
    \o Row(opc, <<k, k, k>>, Imm2("pos_5_bits"), <<T("mov_regimm", <<reg(0), dir, reg(1), num(2)>>)>>)
Three(opc, k, name) == Row(opc, <<k, k, k>>, Imm2(N), <<T(name, <<reg(0), reg(1), reg(2)>>)>>)

InitAlu ==
    Both(AluOf) \o Shift("shl", "U32", lsl) \o Shift("shl", "S32", lsl)
    \o Shift("shr", "U32", lsr) \o Shift("shr", "S32", asr)
    \o Three("div", "U32", "udiv") \o Three("div", "S32", "sdiv")

LeaOf(k) ==
    LET lea(imm, name, args) == Row("lea", <<"A32", "A32", k>>, Imm2(imm), <<T(name, <<reg(0), reg(1)>> \o args)>>)
        LeaStk(imm, emit) == Row("lea.stk", <<"A32", X, k>>, Imm2(imm), emit)
        addSp == T("add_regimm", <<reg(0), sp, lsl, reg(0), Lit(0)>>)
    IN  lea(N, "add_regimm", <<lsl, reg(2), Lit(0)>>)
        \o lea("pos_8_bits_shifted", "add_imm", <<num(2)>>)
        \o lea("neg_8_bits_shifted", "sub_imm", <<num_neg(2)>>)
        \o Row("lea.mem", <<"A32", X, k>>, Imm2("any_32_bits"),
               <<T("movw", <<reg(0), reloc_lo16(1)>>), T("movt", <<reg(0), reloc_hi16(1)>>)>>)
        \o LeaStk("pos_stk_combo_8_bits_shifted", <<T("add_imm", <<reg(0), sp, stk_offset(1)>>)>>)
        \o LeaStk("pos_stk_combo_16_bits", <<T("movw", <<reg(0), stk_offset(1)>>), addSp>>)
        \o LeaStk("any_32_bits", <<T("movw", <<reg(0), stk1_offset2_lo>>),
                                   T("movt", <<reg(0), stk1_offset2_hi>>), addSp>>)
InitLea ==
    Row("lea.fun", <<"C32", X>>, <<N, N>>,
        <<T("movw", <<reg(0), reloc_lo16(1)>>), T("movt", <<reg(0), reloc_hi16(1)>>)>>)
    \o Both(LeaOf)

\* InsTmplMove: a register to register move, or one instruction for an immediate.
MovReg(pred, n) == TP(pred, "mov_regimm", <<reg(0), lsl, reg(n), Lit(0)>>)
MoveOf(k) ==
    LET mov(imm, emit) == Row("mov", <<k, k>>, <<N, imm>>, emit)
    IN  mov("pos_8_bits_shifted", <<T("mov_imm", <<reg(0), num(1)>>)>>)
        \o mov("not_8_bits_shifted", <<T("mvn_imm", <<reg(0), num_not(1)>>)>>)
        \o mov("pos_16_bits", <<T("movw", <<reg(0), num(1)>>)>>)
        \o mov(N, <<MovReg("al", 1)>>)
        \o mov("any_32_bits", <<T("movw", <<reg(0), num1_lo16>>), T("movt", <<reg(0), num1_hi16>>)>>)
InitMove == ForEach(<<"U32", "S32", "A32", "C32", "U16", "S16", "U8", "S8">>, MoveOf)

----------------------------------------------------------------------------
CmpRegs(a, b) == T("cmp_regimm", <<reg(a), lsl, reg(b), Lit(0)>>)
CmpImm(a, n) == T("cmp_imm", <<reg(a), num(n)>>)
Jump(pred) == TP(pred, "b", <<bbl(2)>>)
BranchOn(opc, k, pred) ==
    Row(opc, <<k, k, X>>, Imm2(N), <<CmpRegs(0, 1), Jump(pred)>>)
    \o Row(opc, <<k, k, X>>, Imm1("pos_8_bits_shifted"), <<CmpImm(0, 1), Jump(pred)>>)
BranchOnConst(opc, k, pred) ==
    Row(opc, <<k, k, X>>, <<"pos_8_bits_shifted", N, N>>, <<CmpImm(1, 0), Jump(pred)>>)
BranchEqual(k) == BranchOn("beq", k, "eq") \o BranchOn("bne", k, "ne")
BranchLess(k) ==
    IF k = "S32"
    THEN BranchOn("blt", k, "lt") \o BranchOnConst("blt", k, "gt")
         \o BranchOn("ble", k, "le") \o BranchOnConst("ble", k, "ge")
    ELSE BranchOn("blt", k, "cc") \o BranchOnConst("blt", k, "hi")
         \o BranchOn("ble", k, "ls") \o BranchOnConst("ble", k, "cs")
BranchFloat(k, cmp) ==
    ForEach(<< <<"beq", "eq">>, <<"bne", "ne">>, <<"blt", "mi">>, <<"ble", "ls">> >>, LAMBDA b :
        Row(b[1], <<k, k, X>>, Imm2(N), <<T(cmp, <<reg(0), reg(1)>>), T("vmrs_APSR_nzcv_fpscr", <<>>), Jump(b[2])>>))
InitCondBra ==
    ForEach(<<"U32", "S32", "A32", "C32">>, BranchEqual)
    \o ForEach(<<"U32", "A32", "C32", "S32">>, BranchLess)
    \o BranchFloat("F32", "vcmp.f32") \o BranchFloat("F64", "vcmp.f64")

\* The four ways to have the two values of a conditional move as registers or immediates.
IMM_1_2 == << <<N, N>>, <<N, "pos_16_bits">>, <<"pos_16_bits", N>>, <<"pos_16_bits", "pos_16_bits">> >>
MoveIf(pred, imm, n) == IF imm = N THEN MovReg(pred, n) ELSE TP(pred, "movw", <<reg(0), num(n)>>)
Conditional(opc, k, imm3, imm4, cmp, pred, inverse) ==
    ForEach(IMM_1_2, LAMBDA i :
        Row(opc, <<k, k, k, k, k>>, <<N, i[1], i[2], imm3, imm4>>,
            <<cmp, MoveIf(pred, i[1], 1), MoveIf(inverse, i[2], 2)>>))
SelectEqual(k) ==
    Conditional("cmpeq", k, N, N, CmpRegs(3, 4), "eq", "ne")
    \o Conditional("cmpeq", k, N, "pos_8_bits_shifted", CmpImm(3, 4), "eq", "ne")
SelectLess(k) ==
    LET less == IF k = "S32" THEN <<"lt", "ge">> ELSE <<"cc", "cs">>
        more == IF k = "S32" THEN <<"gt", "le">> ELSE <<"hi", "ls">>
    IN  Conditional("cmplt", k, N, N, CmpRegs(3, 4), less[1], less[2])
        \o Conditional("cmplt", k, N, "pos_8_bits_shifted", CmpImm(3, 4), less[1], less[2])
        \o Conditional("cmplt", k, "pos_8_bits_shifted", N, CmpImm(4, 3), more[1], more[2])
InitCmp ==
    ForEach(<<"U32", "S32", "A32", "C32">>, SelectEqual) \o ForEach(<<"U32", "A32", "S32">>, SelectLess)

InitMiscBra ==
    Row("bra", <<X>>, <<N>>, <<T("b", <<bbl(0)>>)>>)
    \o Row("bsr", <<X>>, <<N>>, <<T("bl", <<link_reg, fun0>>)>>)
    \o Row("jsr", <<"C32", X>>, <<N, N>>, <<T("blx_reg", <<reg(0)>>)>>)
    \o Row("trap", <<>>, <<>>, <<T("ud2", <<>>)>>)
    \o Row("syscall", <<X, "U32">>, <<N, "pos_16_bits">>,
           <<T("str_imm", <<PuW, sp, Lit(4), r7>>), T("movw", <<r7, num(1)>>),
             T("svc", <<Lit(0)>>), T("ldr_imm", <<r7, pUw, sp, Lit(4)>>)>>)
    \o Row("switch", <<"U32", X>>, <<N, N>>,
           <<T("movw", <<scratch, reloc_lo16(1)>>), T("movt", <<scratch, reloc_hi16(1)>>),
             T("ldr_reg", <<pc, PUw, scratch, lsl, reg(0), Lit(2)>>)>>)

----------------------------------------------------------------------------
MoveKinds(opc, pairs) == ForEach(pairs, LAMBDA p : Row(opc, p, <<N, N>>, <<MovReg("al", 1)>>))
Pairs(ks1, ks2) == FlattenSeq([i \in DOMAIN ks1 |-> [j \in DOMAIN ks2 |-> <<ks1[i], ks2[j]>>]])
Extend(to, from, name) ==
    Row("conv", <<to, from>>, <<N, N>>, <<T(name, <<reg(0), ror_rrx, reg(1), Lit(0)>>)>>)
InitConv ==
    MoveKinds("conv", Pairs(<<"U32", "S32", "U16", "S16", "U8", "S8">>, <<"U32", "S32">>)
                      \o Pairs(<<"U16", "S16", "U8", "S8">>, <<"U16", "S16">>)
                      \o Pairs(<<"U8", "S8">>, <<"U8", "S8">>))
    \o Extend("U32", "U8", "uxtb") \o Extend("S32", "S8", "sxtb")
    \o Extend("U32", "U16", "uxth") \o Extend("S32", "S16", "sxth")
    \o MoveKinds("bitcast", Pairs(<<"U32", "S32", "A32", "C32">>, <<"U32", "S32", "A32", "C32">>))

FloatOf(k, suffix) ==
    LET two(opc) == Row(opc, <<k, k>>, <<N, N>>, <<T("vmov" \o suffix, <<reg(0), reg(1)>>)>>)
        toInt(int, name) == Row("conv", <<int, k>>, <<N, N>>,
                                <<T(name \o suffix, <<scratch, reg(1)>>), T("vmov_stoa", <<reg(0), scratch>>)>>)
    IN  two("mov") \o two("trunc")
        \o Three("add", k, "vadd" \o suffix) \o Three("sub", k, "vsub" \o suffix)
        \o Three("mul", k, "vmul" \o suffix) \o Three("div", k, "vdiv" \o suffix)
        \o toInt("S32", "vcvt.s32") \o toInt("U32", "vcvt.u32")
FromInt(k, int, through, name) ==
    Row("conv", <<k, int>>, <<N, N>>, <<T("vmov_atos", <<through, reg(1)>>), T(name, <<reg(0), through>>)>>)
InitVFP ==
    FloatOf("F32", ".f32") \o FloatOf("F64", ".f64")
    \o FromInt("F32", "S32", reg(0), "vcvt.f32.s32") \o FromInt("F32", "U32", reg(0), "vcvt.f32.u32")
    \o FromInt("F64", "S32", scratch, "vcvt.f64.s32") \o FromInt("F64", "U32", scratch, "vcvt.f64.u32")

Patterns == InitLoad \o InitStore \o InitAlu \o InitLea \o InitMove \o InitCondBra \o InitCmp
            \o InitMiscBra \o InitConv \o InitVFP
PatternTable == [opc \in DOMAIN Table |-> SelectSeq(Patterns, LAMBDA p : p.opc = opc)]
PatternsOf(opc) == PatternTable[opc]

----------------------------------------------------------------------------
(* Finding a pattern for the instruction ins of the function f.            *)

MatchesTypeConstraints(f, p, ins) ==
    \A i \in DOMAIN p.types : p.types[i] # X => KindOf(f, ins.ops[i]) = p.types[i]

\* MATCH_IMPOSSIBLE has more positions than any instruction has operands.
MATCH_IMPOSSIBLE == 1 .. 8
ImmValue(f, constr, ins, i) ==
    IF constr \in _IMM_KIND_STK THEN Plus(ins.ops[i][3], Number(f.slots[ins.ops[i - 1][2]])) ELSE ins.ops[i][3]
MatchesImmConstraints(f, p, ins) ==
    LET consts == {i \in DOMAIN ins.ops : IsConst(ins.ops[i])}
        impossible == \/ \E i \in DOMAIN ins.ops : IsReg(ins.ops[i]) /\ p.imms[i] # N
                      \/ \E i \in consts : p.imms[i] \in _IMM_KIND_STK /\ ins.ops[i - 1][1] # "stk"
    IN  IF impossible THEN MATCH_IMPOSSIBLE
        ELSE {i \in consts : p.imms[i] = N \/ ~ImmFits(p.imms[i], ImmValue(f, p.imms[i], ins, i))}

\* The number of the first pattern that matches, 0 is None.
FindMatchingPattern(f, ins) ==
    SelectInSeq(PatternsOf(ins.opc), LAMBDA p :
        MatchesTypeConstraints(f, p, ins) /\ MatchesImmConstraints(f, p, ins) = {})

\* The operands to rewrite so that the pattern that is nearest matches.
FindtImmediateMismatchesInBestMatchPattern(f, ins) ==
    LET Better(best, p) ==
            IF ~MatchesTypeConstraints(f, p, ins) THEN best
            ELSE LET m == MatchesImmConstraints(f, p, ins)
                 IN  IF Cardinality(m) < Cardinality(best) THEN m ELSE best
    IN  FoldForward(Better, MATCH_IMPOSSIBLE, PatternsOf(ins.opc))

----------------------------------------------------------------------------
(* Instruction words.  A word is [ins, reloc]: an opcode with the bits of  *)
(* its operands, and <<kind, symbol, addend>> or <<>>.  ctx is the         *)
(* EmitContext: the registers to save, the size of the frame, the scratch. *)

GetStackOffset(f, ins, i) == Plus(Number(f.slots[ins.ops[i][2]]), ins.ops[i + 1][3])

\* _ExtractTmplArgOp; the operand of a relocation is cleared before it is assembled.
ExtractTmplArgOp(f, ins, arg, ctx) ==
    LET i == arg[2]
        val == ins.ops[i][3]
    IN  CASE arg[1] = "lit" -> Ones(i)
          [] arg[1] = "reg" -> Ones(f.cpu[ins.ops[i][2]][2])
          [] arg[1] = "num" -> Low(val, 32)
          [] arg[1] = "neg" -> Low(Negate(val), 32)
          [] arg[1] = "not" -> Low(Invert(val), 32)
          [] arg[1] = "lo16" -> Low(val, 16)
          [] arg[1] = "hi16" -> Low(ShiftRight(val, 16), 16)
          [] arg[1] = "stk" -> Low(GetStackOffset(f, ins, i), 32)
          [] arg[1] = "stk_lo" -> Low(GetStackOffset(f, ins, i), 16)
          [] arg[1] = "stk_hi" -> Low(ShiftRight(GetStackOffset(f, ins, i), 16), 16)
          [] arg[1] = "scratch" -> Ones(ctx.scratch[2])
          [] OTHER -> {}

\* _HandleReloc: the addend is the offset of lea.mem.
IsReloc(arg) == arg[1] \in {"MOVW_ABS_NC", "MOVT_ABS", "JUMP24", "CALL"}
RelocOf(ins, arg) ==
    <<arg[1], ins.ops[arg[2]][2], IF ins.opc = "lea.mem" THEN ins.ops[3][3] ELSE {}>>

MakeInsFromTmpl(f, tmpl, ins, ctx) ==
    LET relocs == SelectSeq(tmpl.args, IsReloc)
    IN  [name |-> tmpl.name,
         ops |-> [i \in DOMAIN tmpl.args |-> ExtractTmplArgOp(f, ins, tmpl.args[i], ctx)],
         reloc |-> IF relocs = <<>> THEN <<>> ELSE RelocOf(ins, relocs[1])]

A32ByName == [n \in {A32Table[i].name : i \in DOMAIN A32Table} |->
                 A32Table[CHOOSE i \in DOMAIN A32Table : A32Table[i].name = n]]
Encodes(armins) == CanAssemble(A32ByName[armins.name], armins.ops)
Assembled(armins) == [word |-> AssembleOperands(A32ByName[armins.name], armins.ops), reloc |-> armins.reloc]

\* _InsAddNop1ForCodeSel: the kind of the scratch register, or none.
Nop1Kind(f, ins) ==
    CASE ins.opc = "switch" -> "C32"
      [] ins.opc = "conv" /\ RegIsInt(KindOf(f, ins.ops[1])) /\ flavor(KindOf(f, ins.ops[2])) = "F" -> "F32"
      [] ins.opc = "conv" /\ RegIsInt(KindOf(f, ins.ops[2])) /\ KindOf(f, ins.ops[1]) = "F64" -> "F32"
      [] OTHER -> "none"

----------------------------------------------------------------------------
(* Entering and leaving a function.                                        *)

ArmIns(name, ops) == [name |-> name, ops |-> <<Ones(14)>> \o ops, reloc |-> <<>>]
SP == Ones(13)
SetMin(s) == CHOOSE x \in s : \A y \in s : x <= y
SetMax(s) == CHOOSE x \in s : \A y \in s : x >= y

\* ArmGetFltRegRanges: the first register and how many from there to the last one.
FltStart(regs) == Ones(SetMin(regs))
FltCount(regs) == Ones(SetMax(regs) - SetMin(regs) + 1)

\* _HighByte: what one add_imm or sub_imm can take of x.
HighByte(x) ==
    LET shift == CHOOSE s \in {2 * k : k \in 0 .. 12} :
                    x \div 2^s <= 255 /\ \A t \in {2 * k : k \in 0 .. 12} : t < s => x \div 2^t > 255
    IN  (x \div 2^shift) * 2^shift
StackChunks[n \in Nat] == IF n = 0 THEN <<>> ELSE <<HighByte(n)>> \o StackChunks[n - HighByte(n)]
AdjustSp(name, n) ==
    [i \in DOMAIN StackChunks[n] |-> ArmIns(name, <<SP, SP, Ones(StackChunks[n][i])>>)]

EmitFunProlog(ctx) ==
    (IF ctx.stm = {} THEN <<>> ELSE <<ArmIns("stm", <<Ones(5), SP, ctx.stm>>)>>)
    \o (IF ctx.vstm = {} THEN <<>>
        ELSE <<ArmIns("vstm_s", <<Ones(5), SP, FltCount(ctx.vstm), FltStart(ctx.vstm)>>)>>)
    \o AdjustSp("sub_imm", ctx.stk_size)
\* A plausible slip: registers are restored before the stack pointer.
EmitFunEpilog_RegistersFirst(ctx) ==
    (IF ctx.vldm = {} THEN <<>>
     ELSE <<ArmIns("vldm_s", <<FltCount(ctx.vldm), FltStart(ctx.vldm), Ones(3), SP>>)>>)
    \o AdjustSp("add_imm", ctx.stk_size)
    \o (IF ctx.ldm = {} THEN <<>> ELSE <<ArmIns("ldm", <<ctx.ldm, Ones(3), SP>>)>>)
    \o (IF 15 \in ctx.ldm THEN <<>> ELSE <<ArmIns("bx", <<Ones(14)>>)>>)
EmitFunEpilog(ctx) ==
    AdjustSp("add_imm", ctx.stk_size)
    \o (IF ctx.vldm = {} THEN <<>>
        ELSE <<ArmIns("vldm_s", <<FltCount(ctx.vldm), FltStart(ctx.vldm), Ones(3), SP>>)>>)
    \o (IF ctx.ldm = {} THEN <<>> ELSE <<ArmIns("ldm", <<ctx.ldm, Ones(3), SP>>)>>)
    \o (IF 15 \in ctx.ldm THEN <<>> ELSE <<ArmIns("bx", <<Ones(14)>>)>>)
=============================================================================
