------------------------------ MODULE CodeGenA32 ------------------------------
(***************************************************************************)
(* The 32-bit Arm back end for one function, from the intermediate         *)
(* representation the optimizer leaves to instruction words: the passes of *)
(* CodeGenA32/codegen.py and legalize.py in their order, one action per    *)
(* pass.                                                                   *)
(*                                                                         *)
(* A function f is a record:                                               *)
(*   kinds, cpu       the kind of each register and, once it has one, its  *)
(*                    machine register <<class, number>>                   *)
(*   bbls             a sequence of instruction sequences; a bbl operand   *)
(*                    is <<"bbl", its place>>                              *)
(*   jtbs             the bbls of each jump table                          *)
(*   stks, slots, stk_size   alignment and size of each stack region, and  *)
(*                    where they are once the stack is final               *)
(*   sig, sigs        the signatures of f and of the functions it calls    *)
(*   order            the names of registers and stack regions in f,       *)
(*                    sorted; the compiler's own come before them          *)
(*   id, consts, params, ok   see Lowering                                 *)
(***************************************************************************)
EXTENDS Lowering, A32Isel

CONSTANT Functions      \* the functions to compile

NoCpu == <<"none", 0>>
LR == INSTANCE LiveRanges WITH NoReg <- "none", NoCpuReg <- NoCpu

VARIABLES source,       \* what is compiled
          fun,          \* what it is now
          code,         \* its instruction words, a sequence for each bbl
          phase         \* the pass that comes next, "done", or "failed" by an assertion

vars == <<source, fun, code, phase>>

----------------------------------------------------------------------------
(* Machine registers: regs.py.                                             *)

GPR(n) == <<"r", n>>
FLT(n) == <<"s", n>>
DBL(n) == <<"d", n>>
GPR_CALLEE_SAVE_REGS == [i \in 1 .. 6 |-> GPR(5 + i)]
FLT_CALLEE_SAVE_REGS == [i \in 1 .. 16 |-> FLT(15 + i)]
GPR_PARAMETER_REGS == [i \in 1 .. 6 |-> GPR(i - 1)]
GPR_NOT_LAC_REGS == GPR_PARAMETER_REGS \o <<GPR(12), GPR(14)>>
FLT_PARAMETER_REGS == [i \in 1 .. 16 |-> FLT(i - 1)]

\* A32RegToAllocMask: a d-register is two s-registers.
Units(c) == IF c[1] = "d" THEN {FLT(2 * c[2]), FLT(2 * c[2] + 1)} ELSE {c}

\* GetCpuRegsForSignature; "ok" is whether there are enough registers.
GetCpuRegsForSignature(ks) ==
    LET Put(acc, k) ==
            LET d == (acc.flt + 1) \div 2
            IN  CASE k = "F32" -> [acc EXCEPT !.ok = @ /\ acc.flt < 16, !.flt = @ + 1,
                                              !.out = Append(@, FLT(acc.flt))]
                  [] k = "F64" -> [acc EXCEPT !.ok = @ /\ d < 8, !.flt = 2 * d + 2,
                                              !.out = Append(@, DBL(d))]
                  [] OTHER -> [acc EXCEPT !.ok = @ /\ acc.gpr < 6, !.gpr = @ + 1,
                                          !.out = Append(@, GPR(acc.gpr))]
    IN  FoldForward(Put, [gpr |-> 0, flt |-> 0, out |-> <<>>, ok |-> TRUE], ks)
SigRegs(ks) == GetCpuRegsForSignature(ks).out
SigsOk(f) ==
    /\ GetCpuRegsForSignature(f.sig.ins).ok /\ GetCpuRegsForSignature(f.sig.outs).ok
    /\ \A g \in DOMAIN f.sigs : GetCpuRegsForSignature(f.sigs[g].ins).ok /\ GetCpuRegsForSignature(f.sigs[g].outs).ok

CpuName(c, k) == "$" \o c[1] \o ToString(c[2]) \o "_" \o k
FindOrAddCpuReg(f, c, k) == [f EXCEPT !.kinds = (CpuName(c, k) :> k) @@ @, !.cpu = (CpuName(c, k) :> c) @@ @]
HasCpuReg(f, r) == r \in DOMAIN f.cpu

\* _InsPopargConversion, forward, and _InsPushargConversionReverse.
InsPopargConversion(f, ins) ==
    LET k == KindOf(f, ins.ops[1])
        c == Head(f.params)
        arg == FindOrAddCpuReg(f, c, k)
    IN  IF ins.opc = "poparg"
        THEN Rewritten([arg EXCEPT !.params = Tail(@)], <<Ins("mov", <<ins.ops[1], R(CpuName(c, k))>>)>>)
        ELSE Keep([f EXCEPT !.ok = @ /\ f.params = <<>>,
                            !.params = IF is_call(ins.opc) THEN SigRegs(f.sigs[Callee(ins)].outs) ELSE <<>>], ins)
InsPushargConversionReverse(f, ins) ==
    LET k == KindOf(f, ins.ops[1])
        c == Head(f.params)
        arg == FindOrAddCpuReg(f, c, k)
    IN  IF ins.opc = "pusharg"
        THEN Rewritten([arg EXCEPT !.params = Tail(@)], <<Ins("mov", <<R(CpuName(c, k)), ins.ops[1]>>)>>)
        ELSE Keep([f EXCEPT !.ok = @ /\ f.params = <<>>,
                            !.params = IF is_call(ins.opc) THEN SigRegs(f.sigs[Callee(ins)].ins)
                                       ELSE IF ins.opc = "ret" THEN SigRegs(f.sig.outs) ELSE <<>>], ins)
FunPushargConversion(f) == FunGenericRewriteReverse([f EXCEPT !.params = <<>>], InsPushargConversionReverse)
FunPopargConversion(f) ==
    FunGenericRewrite([f EXCEPT !.params = SigRegs(f.sig.ins)], InsPopargConversion)

----------------------------------------------------------------------------
(* What is live, and the live ranges of a bbl.                             *)

RegNames(ops) == LET regs == SelectSeq(ops, IsReg) IN [i \in DOMAIN regs |-> regs[i][2]]
Defs(ins) == RegNames(SubSeq(ins.ops, 1, def_ops_count(ins.opc)))
Uses(ins) == RegNames(SubSeq(ins.ops, def_ops_count(ins.opc) + 1, Len(ins.ops)))
RegsOf(f) == UNION {ToSet(RegNames(ins.ops)) : ins \in ToSet(FlattenSeq(f.bbls))}
LastOpc(f, b) == IF f.bbls[b] = <<>> THEN "nop" ELSE Last(f.bbls[b]).opc
Succ(f, b) ==
    LET named == {op \in UNION {ToSet(ins.ops) : ins \in ToSet(f.bbls[b])} : op[1] \in {"bbl", "jtb"}}
    IN  UNION {IF op[1] = "bbl" THEN {op[2]} ELSE ToSet(f.jtbs[op[2]]) : op \in named}
        \cup (IF "NO_FALL_THROUGH" \in attributes(LastOpc(f, b)) THEN {} ELSE {b + 1})

\* The results of a call arrive in machine registers.
ResultRegs(f, ins) ==
    IF is_call(ins.opc) THEN {r \in DOMAIN f.cpu : f.cpu[r] \in ToSet(SigRegs(f.sigs[Callee(ins)].outs))} ELSE {}
LiveBefore(f, ins, live) == (live \ (ResultRegs(f, ins) \cup ToSet(Defs(ins)))) \cup ToSet(Uses(ins))
LiveIn(f, b, live) == FoldBackward(LAMBDA acc, ins : LiveBefore(f, ins, acc), live, f.bbls[b])
LiveOut(f) ==
    LET Round(out, i) == [b \in DOMAIN f.bbls |-> UNION {LiveIn(f, s, out[s]) : s \in Succ(f, b)}]
    IN  FoldForward(Round, [b \in DOMAIN f.bbls |-> {}], Bbls(f))

CpuOf(f) == [r \in DOMAIN f.kinds |-> IF HasCpuReg(f, r) THEN f.cpu[r] ELSE NoCpu]
ScanIns(f, ins) ==
    LET sig == f.sigs[Callee(ins)]
    IN  [op |-> IF is_call(ins.opc) THEN "call" ELSE ins.opc, def |-> Defs(ins), use |-> Uses(ins),
         cin |-> IF is_call(ins.opc) THEN ToSet(SigRegs(sig.ins)) ELSE {},
         cout |-> IF is_call(ins.opc) THEN ToSet(SigRegs(sig.outs)) ELSE {}]
LiveRangesOf(f, b, live_out) ==
    LR!BblGetLiveRanges([i \in DOMAIN f.bbls[b] |-> ScanIns(f, f.bbls[b][i])],
                        FoldSet(LAMBDA r, seq : Append(seq, r), <<>>, live_out),
                        CpuOf(f), ToSet(SigRegs(f.sig.outs)))

\* FunComputeRegStatsLAC: registers live at the start of a bbl, and across a call.
FunComputeRegStatsLAC(f, live_out) ==
    LET Walk(acc, ins) ==
            [live |-> (acc.live \ ToSet(Defs(ins))) \cup ToSet(Uses(ins)),
             lac |-> IF is_call(ins.opc) THEN acc.lac \cup acc.live ELSE acc.lac]
        ends == {FoldBackward(Walk, [live |-> live_out[b], lac |-> {}], f.bbls[b]) : b \in DOMAIN f.bbls}
    IN  [global |-> UNION {e.live : e \in ends}, lac |-> UNION {e.lac : e \in ends}]

\* REG_KIND_MAP_ARM.
RegKind(k) == IF flavor(k) = "F" THEN k ELSE "S32"

\* FunComputeBblRegUsageStats: as many as the ranges of a kind, across calls or not, that
\* hold a register at a time.
HeldWith(lrs, n) == {n} \cup {m \in DOMAIN lrs : /\ LR!Before(lrs, m, n) /\ lrs[m].last # LR!NO_USE
                                                /\ lrs[m].last > lrs[n].def}
MostHeld(lrs) == SetMax({0} \cup {Cardinality(HeldWith(lrs, n)) : n \in DOMAIN lrs})
FunComputeBblRegUsageStats(f, live_out) ==
    LET local(lr, k, lac) == /\ ~LR!is_use_lr(lr) /\ lr.last # LR!AFTER_BBL /\ lr.def # LR!BEFORE_BBL
                             /\ ~HasCpuReg(f, lr.reg) /\ RegKind(f.kinds[lr.reg]) = k /\ lr.lac = lac
        In(b, k, lac) == MostHeld(SelectSeq(LiveRangesOf(f, b, live_out[b]), LAMBDA lr : local(lr, k, lac)))
    IN  [k \in {"S32", "F32", "F64"}, lac \in BOOLEAN |-> SetMax({In(b, k, lac) : b \in DOMAIN f.bbls})]

----------------------------------------------------------------------------
(* Registers for the values that live across bbls: legalize.py.            *)

_spilling_needed(needed, global_lac, local_not_lac) ==
    \/ needed.global_lac + needed.local_lac > Len(global_lac)
    \/ needed.global_lac + needed.local_lac + needed.global_not_lac + needed.local_not_lac
          > Len(global_lac) + Len(local_not_lac)

Excess(s, n) == SubSeq(s, n + 1, Len(s))
\* A plausible slip: registers that carry arguments are not left out.
_GetRegPoolsForGlobals_AnyOthers(needed, regs_lac, regs_not_lac, pre_allocated) ==
    LET keep == needed.local_not_lac + (IF _spilling_needed(needed, regs_lac, regs_not_lac) THEN 1 ELSE 0)
    IN  [lac |-> SubSeq(regs_lac, 1, SetMin({needed.global_lac, Len(regs_lac)})),
         not_lac |-> Excess(regs_not_lac, keep) \o Excess(Excess(regs_lac, needed.global_lac), needed.local_lac)]
\* The registers for globals that live across calls, and for the others.  A register
\* in use for arguments is left to the locals, whose allocator looks for conflicts.
_GetRegPoolsForGlobals(needed, regs_lac, regs_not_lac, pre_allocated) ==
    LET keep == needed.local_not_lac + (IF _spilling_needed(needed, regs_lac, regs_not_lac) THEN 1 ELSE 0)
        usable == SelectSeq(Excess(regs_not_lac, keep), LAMBDA c : c \notin pre_allocated)
    IN  [lac |-> SubSeq(regs_lac, 1, SetMin({needed.global_lac, Len(regs_lac)})),
         not_lac |-> usable \o Excess(Excess(regs_lac, needed.global_lac), needed.local_lac)]

\* _AssignCpuRegOrMarkForSpilling.  A double takes its number from the s-register that is
\* next, whether or not that is even, and asserts that the one after it follows.
_AssignCpuRegOrMarkForSpilling(f, assign_to, cpu_regs) ==
    LET Assign(acc, r) ==
            LET c == cpu_regs[acc.n]
            IN  IF acc.n > Len(cpu_regs) THEN [acc EXCEPT !.spilled = Append(@, r)]
                ELSE IF f.kinds[r] = "F64"
                THEN [acc EXCEPT !.n = @ + 2, !.f.cpu = (r :> DBL(c[2] \div 2)) @@ @,
                                 !.f.ok = /\ @ /\ acc.n < Len(cpu_regs)
                                          /\ cpu_regs[acc.n + 1][2] = c[2] + 1]
                ELSE [acc EXCEPT !.n = @ + 1, !.f.cpu = (r :> c) @@ @]
    IN  FoldForward(Assign, [f |-> f, n |-> 1, spilled |-> <<>>], assign_to)

\* InsSpillRegs: loaded before it is read, stored after it is written; last operand first.
Slot(r) == "$spill_" \o r
InsSpillRegs(f, ins, spilled, offset_kind) ==
    LET hit == SelectSeq(Reverse([n \in DOMAIN ins.ops |-> n]), LAMBDA n : IsReg(ins.ops[n]) /\ ins.ops[n][2] \in spilled)
        zero == C(offset_kind, {})
        Spill(acc, n) ==
            LET tmp == Scratch(acc.f, 1)
                stk == <<"stk", Slot(ins.ops[n][2])>>
                new == [acc EXCEPT !.f = GetScratchRegs(@, <<KindOf(f, ins.ops[n])>>), !.ins = WithOp(@, n, tmp)]
            IN  IF n <= def_ops_count(ins.opc)
                THEN [new EXCEPT !.after = Append(@, Ins("st.stk", <<stk, zero, tmp>>))]
                ELSE [new EXCEPT !.before = Append(@, Ins("ld.stk", <<tmp, stk, zero>>))]
        end == FoldForward(Spill, [f |-> f, ins |-> ins, before |-> <<>>, after |-> <<>>], hit)
    IN  Rewritten(end.f, end.before \o <<end.ins>> \o end.after)
FunSpillRegs(f, spilled, offset_kind) ==
    LET bytes(r) == bitwidth(f.kinds[r]) \div 8
        regs == ToSet(spilled)
        with == [f EXCEPT !.stks = [s \in {Slot(r) : r \in regs} |->
                     LET r == CHOOSE x \in regs : Slot(x) = s IN [size |-> bytes(r), alignment |-> bytes(r)]] @@ @]
    IN  IF regs = {} THEN f ELSE FunGenericRewrite(with, LAMBDA g, ins : InsSpillRegs(g, ins, regs, offset_kind))

\* PhaseGlobalRegAlloc, after the conversion of the arguments.
_FunGlobalRegStats(f, stats) ==
    [k \in {"S32", "F32", "F64"}, lac \in BOOLEAN |->
        SelectSeq(f.order, LAMBDA r : /\ r \in stats.global /\ ~HasCpuReg(f, r)
                                      /\ RegKind(f.kinds[r]) = k /\ (r \in stats.lac) = lac)]
\* The doubles that live across calls are counted for both.
NeededFlt(global, local) ==
    [global_lac |-> Len(global["F32", TRUE]) + 2 * Len(global["F64", TRUE]),
     global_not_lac |-> Len(global["F32", FALSE]) + 2 * Len(global["F64", TRUE]),
     local_lac |-> local["F32", TRUE] + 2 * local["F64", TRUE],
     local_not_lac |-> 2 + local["F32", FALSE] + 2 * local["F64", FALSE]]
NeededGpr(global, local) ==
    [global_lac |-> Len(global["S32", TRUE]), global_not_lac |-> Len(global["S32", FALSE]),
     local_lac |-> local["S32", TRUE], local_not_lac |-> 1 + local["S32", FALSE]]
AssignGlobals(f, global, gpr, flt) ==
    LET Assign(acc, p) ==
            LET a == _AssignCpuRegOrMarkForSpilling(acc.f, p[1], p[2])
            IN  [f |-> a.f, spilled |-> acc.spilled \o a.spilled]
    IN  FoldForward(Assign, [f |-> f, spilled |-> <<>>],
                    << <<global["S32", TRUE], gpr.lac>>, <<global["S32", FALSE], gpr.not_lac>>,
                       <<global["F64", TRUE] \o global["F32", TRUE], flt.lac>>,
                       <<global["F64", FALSE] \o global["F32", FALSE], flt.not_lac>> >>)
PhaseGlobalRegAlloc(f) ==
    LET pre_allocated == {f.cpu[r] : r \in DOMAIN f.cpu}
        pools(global, local) ==
            AssignGlobals(f, global,
                _GetRegPoolsForGlobals(NeededGpr(global, local), GPR_CALLEE_SAVE_REGS, GPR_NOT_LAC_REGS, pre_allocated),
                _GetRegPoolsForGlobals(NeededFlt(global, local), FLT_CALLEE_SAVE_REGS, FLT_PARAMETER_REGS, pre_allocated))
        assigned(live_out) == pools(_FunGlobalRegStats(f, FunComputeRegStatsLAC(f, live_out)),
                                    FunComputeBblRegUsageStats(f, live_out))
        spill(a) == FunSpillRegs(a.f, a.spilled, "U32")
    IN  spill(assigned(LiveOut(f)))

----------------------------------------------------------------------------
(* The stack, and registers inside a bbl.                                  *)

\* FinalizeStackSlots: by name, each aligned.
FinalizeStackSlots(f) ==
    LET names == SelectSeq([i \in DOMAIN f.order |-> Slot(f.order[i])] \o f.order, LAMBDA n : n \in DOMAIN f.stks)
        Place(acc, n) ==
            LET a == f.stks[n].alignment
                slot == ((acc.stk_size + a - 1) \div a) * a
            IN  [acc EXCEPT !.slots = (n :> slot) @@ @, !.stk_size = slot + f.stks[n].size]
    IN  FoldForward(Place, [f EXCEPT !.stk_size = 0], names)

\* A plausible slip: stores are forgotten.
InsRewriteOutOfBoundsOffsetsStk_LoadsOnly(f, ins) ==
    LET zero == C("U32", {})
    IN  IF ins.opc # "ld.stk" \/ FindtImmediateMismatchesInBestMatchPattern(f, ins) = {} THEN Keep(f, ins)
        ELSE Rewritten(GetScratchRegs(f, <<"A32">>),
                       <<Ins("lea.stk", <<Scratch(f, 1), ins.ops[2], ins.ops[3]>>),
                         Ins("ld", <<ins.ops[1], Scratch(f, 1), zero>>)>>)
InsRewriteOutOfBoundsOffsetsStk(f, ins) ==
    LET at == IF ins.opc = "st.stk" THEN 1 ELSE 2
        offset == ins.ops[at + 1]
        zero == C("U32", {})
        split(lea_offset, own) ==
            <<Ins("lea.stk", <<Scratch(f, 1), ins.ops[at], lea_offset>>),
              Ins(IF at = 1 THEN "st" ELSE "ld", [ins.ops EXCEPT ![at] = Scratch(f, 1), ![at + 1] = own])>>
        fit(mismatches) ==
            IF mismatches = {} THEN Keep(f, ins)
            ELSE Rewritten([GetScratchRegs(f, <<"A32">>) EXCEPT
                               !.ok = /\ @ /\ mismatches # MATCH_IMPOSSIBLE /\ at + 1 \in mismatches
                                      /\ at = 1 => mismatches = {2}],
                           IF IsConst(offset) THEN split(offset, zero) ELSE split(zero, offset))
    IN  IF ins.opc \notin {"st.stk", "ld.stk"} THEN Keep(f, ins)
        ELSE fit(FindtImmediateMismatchesInBestMatchPattern(f, ins))

\* _BblRegAllocOrSpill as far as no range is spilled: every range takes the first free
\* register of its class that no range of a machine register conflicts with.
Allocatable == ToSet(GPR_CALLEE_SAVE_REGS \o GPR_NOT_LAC_REGS \o FLT_CALLEE_SAVE_REGS \o FLT_PARAMETER_REGS)
CalleeSaved == ToSet(GPR_CALLEE_SAVE_REGS \o FLT_CALLEE_SAVE_REGS)
Candidates(k) == CASE k = "F64" -> [i \in 1 .. 16 |-> DBL(i - 1)]
                   [] k = "F32" -> [i \in 1 .. 32 |-> FLT(i - 1)]
                   [] OTHER -> [i \in 1 .. 16 |-> GPR(i - 1)]
BblRegAlloc(f, lrs) ==
    LET reserved == {n \in DOMAIN lrs : ~LR!is_use_lr(lrs[n]) /\ HasCpuReg(f, lrs[n].reg)}
        conflict(c, lr) == \E n \in reserved : /\ Units(f.cpu[lrs[n].reg]) \cap Units(c) # {}
                                               /\ lrs[n].last > lr.def /\ lrs[n].def < lr.last
        available(acc, lr) ==
            LET class == IF lr.lac THEN acc.free \cap CalleeSaved ELSE acc.free \ CalleeSaved
            IN  SelectSeq(Candidates(f.kinds[lr.reg]), LAMBDA c : Units(c) \subseteq class /\ ~conflict(c, lr))
        End(acc, lr) ==
            LET over == {m \in ToSet(lr.uses) : lrs[m].last = lr.def}
            IN  [acc EXCEPT !.free = @ \cup UNION {Units(acc.cpu[lrs[m].reg]) : m \in over}]
        Start(acc, lr) ==
            LET regs == available(acc, lr)
            IN  IF regs = <<>> THEN [acc EXCEPT !.ok = FALSE]
                ELSE [acc EXCEPT !.cpu = (lr.reg :> regs[1]) @@ @,
                                 !.free = IF lr.last = LR!NO_USE THEN @ ELSE @ \ Units(regs[1])]
        Scan(acc, n) == IF ~acc.ok \/ n \in reserved THEN acc
                        ELSE IF LR!is_use_lr(lrs[n]) THEN End(acc, lrs[n]) ELSE Start(acc, lrs[n])
        allocated(end) == [f EXCEPT !.cpu = end.cpu, !.ok = end.ok]
    IN  allocated(FoldForward(Scan, [free |-> Allocatable, cpu |-> f.cpu, ok |-> f.ok], LR!Sorted(lrs)))
FunLocalRegAlloc(f) ==
    LET live_out == LiveOut(f)
        Bbl(acc, b) == BblRegAlloc(acc, LiveRangesOf(acc, b, live_out[b]))
    IN  FoldForward(Bbl, f, Bbls(f))

InsMoveEliminationCpu(f, ins) ==
    IF ins.opc = "mov" /\ IsReg(ins.ops[2]) /\ f.cpu[ins.ops[1][2]] = f.cpu[ins.ops[2][2]]
    THEN Rewritten(f, <<>>) ELSE Keep(f, ins)

----------------------------------------------------------------------------
(* Emitting.                                                               *)

\* FunComputeEmitContext: the callee-save registers in use and, where it can be lost, the
\* return address are saved; the whole frame is a multiple of 16.
FunComputeEmitContext(f) ==
    LET units == UNION {Units(f.cpu[r]) : r \in RegsOf(f)}
        Numbers(class) == {u[2] : u \in {v \in units : v[1] = class}}
        gpr == Numbers("r") \cap 6 .. 11
        flt == Numbers("s") \cap 16 .. 31
        link == 14 \in Numbers("r") \/ \E ins \in ToSet(FlattenSeq(f.bbls)) : ins.opc \in {"bsr", "jsr"}
        saved == 4 * (Cardinality(gpr) + Cardinality(flt) + (IF link THEN 1 ELSE 0))
    IN  [stm |-> gpr \cup (IF link THEN {14} ELSE {}), ldm |-> gpr \cup (IF link THEN {15} ELSE {}),
         vstm |-> flt, vldm |-> flt,
         stk_size |-> ((f.stk_size + saved + 15) \div 16) * 16 - saved,
         scratch |-> NoCpu]

\* The instructions for one instruction, and the scratch register that a nop1 reserves
\* for the one after it.
EmitIns(f, acc, ins) ==
    LET add(inss) == [acc EXCEPT !.inss = @ \o inss]
        fill(emit) == add([i \in DOMAIN emit |-> MakeInsFromTmpl(f, emit[i], ins, acc.ctx)])
        use(n) == IF n = 0 THEN [acc EXCEPT !.ok = FALSE] ELSE fill(PatternsOf(ins.opc)[n].emit)
    IN  CASE ins.opc = "nop1" -> [acc EXCEPT !.ctx.scratch = f.cpu[ins.ops[1][2]]]
          [] ins.opc = "ret" -> add(EmitFunEpilog(acc.ctx))
          [] OTHER -> use(FindMatchingPattern(f, ins))
EmitBbl(f, acc, b) ==
    LET Step(a, ins) == EmitIns(f, a, ins)
        ended(a) == [a EXCEPT !.bbls = Append(@, a.inss)]
    IN  ended(FoldForward(Step, [acc EXCEPT !.inss = IF b = 1 THEN EmitFunProlog(acc.ctx) ELSE <<>>], f.bbls[b]))
_FunCodeGenArm32(f) ==
    LET Bbl(acc, b) == EmitBbl(f, acc, b)
    IN  FoldForward(Bbl, [bbls |-> <<>>, inss |-> <<>>, ctx |-> FunComputeEmitContext(f), ok |-> TRUE], Bbls(f))

----------------------------------------------------------------------------
(* The passes.                                                             *)

Init == /\ source \in Functions
        /\ fun = source
        /\ code = <<>>
        /\ phase = "check"

\* A pass makes g of the function; a failed assertion ends the compilation.
Pass(from, to, g) ==
    /\ phase = from
    /\ fun' = g
    /\ phase' = IF fun'.ok THEN to ELSE "failed"
    /\ UNCHANGED <<source, code>>
Checked(f, ok) == [f EXCEPT !.ok = @ /\ ok]

LegalizeAllCheck == Pass("check", "widen", Checked(fun, FunCheck(fun, TRUE)))
Widen ==
    LET widened(f, ks) == FunRegWidthWidening(f, ks[1], ks[2])
        checked(f) == Checked(f, SigsOk(f))
    IN  /\ phase = "widen"
        /\ Pass("widen", "rem", checked(FoldForward(widened, fun,
                << <<"U8", "U32">>, <<"S8", "S32">>, <<"S16", "S32">>, <<"U16", "U32">> >>)))
EliminateRem == phase = "rem" /\ Pass("rem", "stk", FunGenericRewrite(fun, InsEliminateRem))
EliminateStkLoadStoreWithRegOffset ==
    /\ phase = "stk"
    /\ Pass("stk", "flt", FunGenericRewrite(fun, LAMBDA f, ins :
            InsEliminateStkLoadStoreWithRegOffset(f, ins, "A32", "S32")))
MoveImmediatesToMemory ==
    /\ phase = "flt"
    /\ Pass("flt", "mem", FunGenericRewrite(
            FunGenericRewrite(fun, LAMBDA f, ins : InsMoveImmediatesToMemory(f, ins, "F32")),
            LAMBDA f, ins : InsMoveImmediatesToMemory(f, ins, "F64")))
EliminateMemLoadStore ==
    /\ phase = "mem"
    /\ Pass("mem", "canonicalize", FunGenericRewrite(fun, LAMBDA f, ins :
            InsEliminateMemLoadStore(f, ins, "A32", "S32")))
Canonicalize == phase = "canonicalize" /\ Pass("canonicalize", "stores", FunGenericRewrite(fun, InsCanonicalize))
EliminateImmediateStores ==
    phase = "stores" /\ Pass("stores", "immediates", FunGenericRewrite(fun, InsEliminateImmediateStores))

\* Stack offsets are not known yet; arguments become moves.
InsRewriteOutOfBoundsImmediates(f, ins) ==
    LET fit(mismatches) == IF mismatches = MATCH_IMPOSSIBLE THEN Keep(Checked(f, FALSE), ins)
                           ELSE InsEliminateImmediates(f, ins, mismatches)
    IN  IF ins.opc \in {"nop1", "ret", "st.stk", "ld.stk", "lea.stk", "poparg", "pusharg"} THEN Keep(f, ins)
        ELSE fit(FindtImmediateMismatchesInBestMatchPattern(f, ins))
RewriteOutOfBoundsImmediates ==
    phase = "immediates" /\ Pass("immediates", "nop1", FunGenericRewrite(fun, InsRewriteOutOfBoundsImmediates))

InsAddNop1ForCodeSel(f, ins) ==
    LET k == Nop1Kind(f, ins)
    IN  IF k = "none" THEN Keep(f, ins)
        ELSE Rewritten(GetScratchRegs(f, <<k>>), <<Ins("nop1", <<Scratch(f, 1)>>), ins>>)
AddNop1ForCodeSel ==
    /\ phase = "nop1"
    /\ LET g == FunGenericRewrite(fun, InsAddNop1ForCodeSel)
       IN  Pass("nop1", "args", Checked(g, FunCheck(g, FALSE)))

ConvertArguments ==
    /\ phase = "args"
    /\ IF FunCheck(fun, TRUE) THEN Pass("args", "global", FunPopargConversion(FunPushargConversion(fun)))
       ELSE Pass("args", "global", Checked(fun, FALSE))
GlobalRegAlloc == phase = "global" /\ Pass("global", "slots", PhaseGlobalRegAlloc(fun))
RewriteOutOfBoundsOffsetsStk ==
    /\ phase = "slots"
    /\ Pass("slots", "local", FunGenericRewrite(FinalizeStackSlots(fun), InsRewriteOutOfBoundsOffsetsStk))
LocalRegAlloc == phase = "local" /\ Pass("local", "moves", FunLocalRegAlloc(fun))
MoveElimination ==
    phase = "moves" /\ Pass("moves", "emit", FunGenericRewrite(FinalizeStackSlots(fun), InsMoveEliminationCpu))

\* Every instruction is assembled, which asserts that its operands fit.
EmitUnitAsBinary(out) ==
    IF out.ok /\ \A b \in DOMAIN out.bbls : \A i \in DOMAIN out.bbls[b] : Encodes(out.bbls[b][i])
    THEN [b \in DOMAIN out.bbls |-> [i \in DOMAIN out.bbls[b] |-> Assembled(out.bbls[b][i])]] ELSE <<>>
Emit ==
    /\ phase = "emit"
    /\ code' = EmitUnitAsBinary(_FunCodeGenArm32(fun))
    /\ phase' = IF code' = <<>> THEN "failed" ELSE "done"
    /\ UNCHANGED <<source, fun>>

Next ==
    \/ LegalizeAllCheck \/ Widen \/ EliminateRem \/ EliminateStkLoadStoreWithRegOffset \/ MoveImmediatesToMemory
    \/ EliminateMemLoadStore \/ Canonicalize \/ EliminateImmediateStores \/ RewriteOutOfBoundsImmediates
    \/ AddNop1ForCodeSel \/ ConvertArguments \/ GlobalRegAlloc \/ RewriteOutOfBoundsOffsetsStk
    \/ LocalRegAlloc \/ MoveElimination \/ Emit
Spec == Init /\ [][Next]_vars
=============================================================================
