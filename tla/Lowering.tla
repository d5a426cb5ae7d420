------------------------------- MODULE Lowering -------------------------------
(***************************************************************************)
(* Local rewrites of Base/lowering.py and Base/canonicalize.py that the    *)
(* Arm back end uses, and the generic rewriters of Base/ir.py they run in. *)
(*                                                                         *)
(* A rewrite takes a function and an instruction and returns the function, *)
(* which may have new scratch registers, and what replaces the             *)
(* instruction.  Besides its registers and code a function f has id, the   *)
(* number of scratch registers so far, consts, the constants that were     *)
(* moved to memory by the name of their Mem, params, what the conversion   *)
(* of arguments carries along, and ok: no assertion has failed.            *)
(***************************************************************************)
EXTENDS IrOpcodes

ScratchName(n) == "$" \o ToString(n)
\* GetScratchReg, once for every kind of a sequence; Scratch(f, n) is the n-th of them.
GetScratchRegs(f, ks) ==
    LET Add(acc, k) == [acc EXCEPT !.id = @ + 1, !.kinds = (ScratchName(acc.id + 1) :> k) @@ @]
    IN  FoldForward(Add, f, ks)
Scratch(f, n) == R(ScratchName(f.id + n))

Rewritten(f, inss) == [f |-> f, inss |-> inss]
Keep(f, ins) == Rewritten(f, <<ins>>)
WithOp(ins, pos, op) == Ins(ins.opc, [i \in DOMAIN ins.ops |-> IF i = pos THEN op ELSE ins.ops[i]])

\* BblGenericRewrite and its reverse, over all bbls.
BblGenericRewrite(f, b, T(_, _)) ==
    LET Step(acc, ins) == LET r == T(acc.f, ins) IN Rewritten(r.f, acc.inss \o r.inss)
        end == FoldForward(Step, Rewritten(f, <<>>), f.bbls[b])
    IN  [end.f EXCEPT !.bbls[b] = end.inss]
BblGenericRewriteReverse(f, b, T(_, _)) ==
    LET Step(acc, ins) == LET r == T(acc.f, ins) IN Rewritten(r.f, r.inss \o acc.inss)
        end == FoldBackward(Step, Rewritten(f, <<>>), f.bbls[b])
    IN  [end.f EXCEPT !.bbls[b] = end.inss]
Bbls(f) == [b \in DOMAIN f.bbls |-> b]
FunGenericRewrite(f, T(_, _)) ==
    LET Bbl(acc, b) == BblGenericRewrite(acc, b, T) IN FoldForward(Bbl, f, Bbls(f))
FunGenericRewriteReverse(f, T(_, _)) ==
    LET Bbl(acc, b) == BblGenericRewriteReverse(acc, b, T) IN FoldBackward(Bbl, f, Bbls(f))

----------------------------------------------------------------------------
\* x % y is x - x / y * y.  The quotient of floating point operands is truncated first.
InsEliminateRem(f, ins) ==
    LET k == KindOf(f, ins.ops[1])
        x == ins.ops[2]
        y == ins.ops[3]
        n == IF flavor(k) = "F" THEN 3 ELSE 2
    IN  IF ins.opc # "rem" THEN Keep(f, ins)
        ELSE Rewritten(GetScratchRegs(f, [i \in 1 .. n |-> k]),
                 <<Ins("div", <<Scratch(f, 1), x, y>>)>>
                 \o (IF n = 3 THEN <<Ins("trunc", <<Scratch(f, 2), Scratch(f, 1)>>)>> ELSE <<>>)
                 \o <<Ins("mul", <<Scratch(f, n), Scratch(f, n - 1), y>>),
                      Ins("sub", <<ins.ops[1], x, Scratch(f, n)>>)>>)

\* A register offset from a stack region needs the address of the region in a register.
InsEliminateStkLoadStoreWithRegOffset(f, ins, base_kind, offset_kind) ==
    LET at == IF ins.opc = "st.stk" THEN 1 ELSE 2
        plain == [op \in {"st.stk", "ld.stk", "lea.stk"} |->
                     CASE op = "st.stk" -> "st" [] op = "ld.stk" -> "ld" [] op = "lea.stk" -> "lea"]
    IN  IF ins.opc \in DOMAIN plain /\ IsReg(ins.ops[at + 1])
        THEN Rewritten(GetScratchRegs(f, <<base_kind>>),
                 <<Ins("lea.stk", <<Scratch(f, 1), ins.ops[at], C(offset_kind, {})>>),
                   WithOp(Ins(plain[ins.opc], ins.ops), at, Scratch(f, 1))>>)
        ELSE Keep(f, ins)

\* Static memory too.  An immediate offset goes with the address.
InsEliminateMemLoadStore(f, ins, base_kind, offset_kind) ==
    LET at == IF ins.opc = "st.mem" THEN 1 ELSE 2
        offset == ins.ops[at + 1]
        zero == C(offset_kind, {})
        access(lea_offset, own) ==
            <<Ins("lea.mem", <<Scratch(f, 1), ins.ops[at], lea_offset>>),
              Ins(IF at = 1 THEN "st" ELSE "ld", [ins.ops EXCEPT ![at] = Scratch(f, 1), ![at + 1] = own])>>
    IN  IF ins.opc \notin {"st.mem", "ld.mem"} THEN Keep(f, ins)
        ELSE Rewritten(GetScratchRegs(f, <<base_kind>>),
                       IF IsConst(offset) THEN access(offset, zero) ELSE access(zero, offset))

InsEliminateImmediateStores(f, ins) ==
    IF kind(ins.opc) = "ST" /\ IsConst(ins.ops[3])
    THEN Rewritten(GetScratchRegs(f, <<ins.ops[3][2]>>),
                   <<Ins("mov", <<Scratch(f, 1), ins.ops[3]>>), WithOp(ins, 3, Scratch(f, 1))>>)
    ELSE Keep(f, ins)

\* FindOrAddConstMem: one Mem for all uses of a constant.
ConstMem(const) == "$const_" \o const[2] \o "_" \o ToString(const[3])
InsMoveImmediatesToMemory(f, ins, k) ==
    LET positions == SelectSeq([i \in DOMAIN ins.ops |-> i], LAMBDA i : IsConst(ins.ops[i]) /\ ins.ops[i][2] = k)
        Move(acc, i) ==
            Rewritten([GetScratchRegs(acc.f, <<k>>) EXCEPT
                          !.consts = (ConstMem(ins.ops[i]) :> ins.ops[i]) @@ @],
                      SubSeq(acc.inss, 1, Len(acc.inss) - 1)
                      \o <<Ins("ld.mem", <<Scratch(acc.f, 1), <<"mem", ConstMem(ins.ops[i])>>, C("U32", {})>>),
                           WithOp(Last(acc.inss), i, Scratch(acc.f, 1))>>)
    IN  FoldForward(Move, Keep(f, ins), positions)

\* The instructions that load the immediates at the given positions, and ins.
InsEliminateImmediates(f, ins, positions) ==
    LET Eliminate(acc, pos) ==
            Rewritten(GetScratchRegs(acc.f, <<ins.ops[pos][2]>>),
                      SubSeq(acc.inss, 1, Len(acc.inss) - 1)
                      \o <<Ins("mov", <<Scratch(acc.f, 1), ins.ops[pos]>>),
                           WithOp(Last(acc.inss), pos, Scratch(acc.f, 1))>>)
    IN  FoldForward(Eliminate, Keep(f, ins), SetToSortSeq(positions, <))

----------------------------------------------------------------------------
\* FunRegWidthWidening: registers and constants of the narrow kind become wide, except
\* that memory is still accessed with the narrow width: a load goes to a narrow register
\* and is then extended, a store is of a narrowed copy.
WidenConst(ins, narrow, wide) ==
    LET memory == CASE kind(ins.opc) = "ST" -> {3} [] kind(ins.opc) = "LD" -> {1} [] OTHER -> {}
    IN  [ins EXCEPT !.ops = [i \in DOMAIN ins.ops |->
            IF i \notin memory /\ IsConst(ins.ops[i]) /\ ins.ops[i][2] = narrow
            THEN C(wide, ins.ops[i][3]) ELSE ins.ops[i]]]
InsWiden(f, source, narrow_regs, narrow, wide) ==
    LET ins == WidenConst(source, narrow, wide)
        narrowed == GetScratchRegs(f, <<narrow>>)
        tmp == Scratch(f, 1)
        IsNarrow(op) == IsReg(op) /\ op[2] \in narrow_regs
    IN  IF kind(ins.opc) = "LD" /\ IsNarrow(ins.ops[1])
        THEN Rewritten(narrowed, <<WithOp(ins, 1, tmp), Ins("conv", <<ins.ops[1], tmp>>)>>)
        ELSE IF kind(ins.opc) = "ST" /\ IsNarrow(ins.ops[3])
        THEN Rewritten(narrowed, <<Ins("conv", <<tmp, ins.ops[3]>>), WithOp(ins, 3, tmp)>>)
        ELSE Keep(f, ins)

WidenKinds(ks, narrow, wide) == [i \in DOMAIN ks |-> IF ks[i] = narrow THEN wide ELSE ks[i]]
WidenSig(sig, narrow, wide) ==
    [ins |-> WidenKinds(sig.ins, narrow, wide), outs |-> WidenKinds(sig.outs, narrow, wide)]
FunRegWidthWidening(f, narrow, wide) ==
    LET narrow_regs == {r \in DOMAIN f.kinds : f.kinds[r] = narrow}
        widened == [f EXCEPT !.kinds = WidenKinds(@, narrow, wide),
                             !.sig = WidenSig(@, narrow, wide),
                             !.sigs = [g \in DOMAIN @ |-> WidenSig(@[g], narrow, wide)]]
    IN  FunGenericRewrite(widened, LAMBDA g, ins : InsWiden(g, ins, narrow_regs, narrow, wide))

----------------------------------------------------------------------------
\* canonicalize.py: the immediate of a commutative instruction comes last.
InsCanonicalize(f, ins) ==
    LET k == kind(ins.opc)
        a == CASE k = "ALU" -> 2 [] k = "CMP" -> 4 [] k = "COND_BRA" -> 1 [] OTHER -> 0
    IN  IF /\ "COMMUTATIVE" \in attributes(ins.opc)
           /\ IsConst(ins.ops[a]) /\ ~IsConst(ins.ops[a + 1])
        THEN Keep(f, [ins EXCEPT !.ops[a] = ins.ops[a + 1], !.ops[a + 1] = ins.ops[a]])
        ELSE Keep(f, ins)
=============================================================================
