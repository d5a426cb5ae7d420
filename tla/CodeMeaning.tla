----------------------------- MODULE CodeMeaning -----------------------------
(***************************************************************************)
(* What the generated words do on a 32-bit Arm processor, as far as the    *)
(* back end uses it, and that this is what the function means: the words   *)
(* are decoded with the table of CpuA32/opcode_tab.py and their relocations*)
(* are resolved against the memory of IrMeaning.                           *)
(***************************************************************************)
EXTENDS CodeGenA32, IrMeaning

\* A decoded instruction: its name, its operands, the condition first, and its relocation.
DecodeAs(opc, w) == [name |-> opc.name, ops |-> DisassembleOperands(opc, w.word), reloc |-> w.reloc]
Decode(w) == DecodeAs(A32Table[A32FindOpcode(w.word)], w)
Decoded(words) == [b \in DOMAIN words |-> [i \in DOMAIN words[b] |-> Decode(words[b][i])]]

\* The flags N, Z, C and V after the comparison of integers and of floating point values.
IntFlags(a, b) ==
    [n |-> 31 \in Sub32(a, b), z |-> a = b, c |-> ~Below(a, b), v |-> (31 \in Sub32(a, b)) # BelowSigned(a, b)]
FltFlags(order) ==
    [n |-> order = "less", z |-> order = "equal", c |-> order # "less", v |-> order = "unordered"]
ConditionHolds(bits, fl) ==
    LET name == Preds[Index(bits) + 1]
    IN  CASE name = "eq" -> fl.z
          [] name = "ne" -> ~fl.z
          [] name = "cs" -> fl.c
          [] name = "cc" -> ~fl.c
          [] name = "mi" -> fl.n
          [] name = "pl" -> ~fl.n
          [] name = "vs" -> fl.v
          [] name = "vc" -> ~fl.v
          [] name = "hi" -> fl.c /\ ~fl.z
          [] name = "ls" -> ~fl.c \/ fl.z
          [] name = "ge" -> fl.n = fl.v
          [] name = "lt" -> fl.n # fl.v
          [] name = "gt" -> ~fl.z /\ fl.n = fl.v
          [] name = "le" -> fl.z \/ fl.n # fl.v
          [] name = "al" -> TRUE

----------------------------------------------------------------------------
(* Registers, operands and memory of the machine state m.                  *)

g(m, op) == m.r[Index(op)]
SetReg(m, op, bits) == [m EXCEPT !.r[Index(op)] = bits]
FltUnits(name_is_f64, op) == IF name_is_f64 THEN <<2 * Index(op), 2 * Index(op) + 1>> ELSE <<Index(op)>>
GetFlt(m, k, op) ==
    LET u == FltUnits(k = "F64", op) IN ValueOf(k, FlattenSeq([i \in DOMAIN u |-> m.s[u[i]]]))
SetFlt(m, k, op, v) ==
    LET u == FltUnits(k = "F64", op)
        bytes == BytesOf(k, v)
    IN  [m EXCEPT !.s = [i \in ToSet(u) |-> SubSeq(bytes, 4 * (i - u[1]) + 1, 4 * (i - u[1]) + 4)] @@ @]

\* A register shifted by an amount; an immediate 0 is 32 for the right shifts.
Shifted(mode, x, n) ==
    CASE mode = {} -> Low(ShiftLeft(x, n), 32)
      [] mode = {0} -> ShiftRight(x, n)
      [] mode = {1} -> ShiftRightSigned(x, IF n > 32 THEN 32 ELSE n)
      [] mode = {0, 1} -> RotateLeft(x, 32 - (n % 32))
ImmShift(mode, x, imm) == Shifted(mode, x, IF imm = {} /\ mode # {} THEN 32 ELSE Index(imm))

\* The last operand of an ALU instruction: an immediate or a shifted register.
SecondOperand(m, form, ops) ==
    CASE form = "_imm" -> ops[1]
      [] form = "_regimm" -> ImmShift(ops[1], g(m, ops[2]), ops[3])
      [] form = "_regreg" -> Shifted(ops[1], g(m, ops[2]), Index(Low(g(m, ops[3]), 8)))
AluResult(name, a, b) ==
    CASE name = "and" -> a \cap b
      [] name = "bic" -> a \ b
      [] name = "orr" -> a \cup b
      [] name = "eor" -> Xor(a, b)
      [] name = "add" -> Add32(a, b)
      [] name = "sub" -> Sub32(a, b)
      [] name = "rsb" -> Sub32(b, a)
      [] name = "mov" -> b
      [] name = "mvn" -> 0 .. 31 \ b

\* The address operands: mode, base, then an immediate, a register or a shifted register.
OffsetOf(m, form, ops) ==
    IF form = "_imm" THEN ops[3]
    ELSE IF Len(ops) = 3 THEN g(m, ops[3]) ELSE ImmShift(ops[3], g(m, ops[4]), ops[5])
AddressOf(m, form, ops) ==
    LET base == g(m, ops[2])
        moved == IF 1 \in ops[1] THEN Add32(base, OffsetOf(m, form, ops)) ELSE Sub32(base, OffsetOf(m, form, ops))
        back == 0 \in ops[1] \/ 2 \notin ops[1]
    IN  [at |-> IF 2 \in ops[1] THEN moved ELSE base,
         m |-> IF back THEN SetReg(m, ops[2], moved) ELSE m]

\* Where a transfer of n words starts, and the base after it.
MultipleOf(m, mode, base, n) ==
    LET low == IF 1 \in mode THEN g(m, base) ELSE Sub32(g(m, base), Ones(4 * n))
        end == IF 1 \in mode THEN Add32(g(m, base), Ones(4 * n)) ELSE low
    IN  [at |-> IF (1 \in mode) = (2 \in mode) THEN Add32(low, Ones(4)) ELSE low,
         m |-> IF 0 \in mode THEN SetReg(m, base, end) ELSE m]
WordAt(a, i) == Add32(a, Ones(4 * (i - 1)))

----------------------------------------------------------------------------
(* Leaving the function, for a moment or for good.                         *)

ReturnAddress == {2, 30, 31}
SavedAcrossCalls(m) == [r |-> [i \in {6, 7, 8, 9, 10, 11, 13} |-> m.r[i]], s |-> [i \in 16 .. 31 |-> m.s[i]]]
ArgValue(m, c, k) ==
    IF c[1] = "r" THEN IntVal(m.r[c[2]]) ELSE GetFlt(m, k, Ones(c[2]))
ArgValues(m, ks) == [j \in DOMAIN ks |-> ArgValue(m, SigRegs(ks)[j], ks[j])]
SetArg(m, c, k, v) == IF c[1] = "r" THEN [m EXCEPT !.r[c[2]] = v[2]] ELSE SetFlt(m, k, Ones(c[2]), v)
SetArgs(m, ks, vs) ==
    LET Set(acc, j) == SetArg(acc, SigRegs(ks)[j], ks[j], vs[j]) IN FoldLeft(Set, m, [j \in DOMAIN ks |-> j])

Stop(m, event) == [m EXCEPT !.log = Append(@, event), !.halted = TRUE]
\* A jump goes to a bbl or returns.
Jump32(f, m, a) ==
    LET to == {b \in DOMAIN f.bbls : BblAddress(b) = a}
    IN  CASE a = ReturnAddress ->
               Stop(m, <<"ret", ArgValues(m, f.sig.outs),
                         IF SavedAcrossCalls(m) = m.entry THEN "restored" ELSE "lost">>)
          [] a # ReturnAddress /\ to # {} -> [m EXCEPT !.b = CHOOSE b \in to : TRUE, !.i = 1]
          [] OTHER -> Stop(m, <<"wild jump", a>>)

\* Another function keeps the callee-save registers; whatever else it does to the
\* registers, the caller must not depend on it.
Trashed(m) == [m EXCEPT !.r = [i \in {0, 1, 2, 3, 4, 5, 12, 14} |-> Ones(7001 * m.n + 131 * i)] @@ @,
                        !.s = [i \in 0 .. 15 |-> BytesOf("F32", FltVal(<<"trash", m.n, i>>))] @@ @]
Leave(m, sig, event, next) ==
    LET results == [j \in DOMAIN sig.outs |-> ResultOf(sig.outs[j], m.n, j)]
    IN  [SetArgs(next, sig.outs, results) EXCEPT !.n = @ + 1, !.log = Append(@, event \o <<ArgValues(m, sig.ins)>>)]
Call(f, env, m, a) ==
    LET named == {n \in DOMAIN f.sigs : SymbolAddress(env, n) = a}
    IN  IF named = {} THEN Stop(m, <<"wild call", a>>)
        ELSE Leave(m, f.sigs[CHOOSE n \in named : TRUE], <<"call", a>>, Trashed(m))
\* The kernel changes the registers of its results only.
SyscallOf(f) == CHOOSE ins \in ToSet(FlattenSeq(f.bbls)) : ins.opc = "syscall"
Syscall(f, m) == Leave(m, f.sigs[Callee(SyscallOf(f))], <<"syscall", m.r[7]>>, m)

----------------------------------------------------------------------------
(* Instructions.                                                           *)

Named(names, forms) ==
    [n \in {p[1] \o p[2] : p \in names \X forms} |-> CHOOSE p \in names \X forms : p[1] \o p[2] = n]
AluForms == Named({"and", "bic", "orr", "eor", "add", "sub", "rsb"}, {"_imm", "_regimm", "_regreg"})
MoveForms == Named({"mov", "mvn", "cmp"}, {"_imm", "_regimm", "_regreg"})
LoadForms == Named({"ldr", "ldrb", "ldrh", "ldrsb", "ldrsh"}, {"_imm", "_reg"})
StoreForms == Named({"str", "strb", "strh"}, {"_imm", "_reg"})
MemKind == [ldr |-> "U32", ldrb |-> "U8", ldrh |-> "U16", ldrsb |-> "S8", ldrsh |-> "S16",
            str |-> "U32", strb |-> "U8", strh |-> "U16"]
FltForms == Named({"vadd", "vsub", "vmul", "vdiv", "vmov", "vcmp", "vldr", "vstr"}, {".f32", ".f64"})
FltOpc == [vadd |-> "add", vsub |-> "sub", vmul |-> "mul", vdiv |-> "div"]
ConvForms == Named({"vcvt.s32", "vcvt.u32"}, {".f32", ".f64"}) @@ Named({"vcvt.f32", "vcvt.f64"}, {".s32", ".u32"})
KindNamed == (".f32" :> "F32") @@ (".f64" :> "F64") @@ (".s32" :> "S32") @@ (".u32" :> "U32")
             @@ ("vcvt.f32" :> "F32") @@ ("vcvt.f64" :> "F64") @@ ("vcvt.s32" :> "S32") @@ ("vcvt.u32" :> "U32")
ExtendKind == [uxtb |-> "U8", sxtb |-> "S8", uxth |-> "U16", sxth |-> "S16"]

MemoryStep(f, env, m, ins) ==
    LET ops == Tail(ins.ops)
        name == ins.name
        loadForm == LoadForms[name]
        a == AddressOf(m, loadForm[2], Tail(ops))
        k == MemKind[loadForm[1]]
        value == Load(env, m.mem, k, a.at)[2]
        storeForm == StoreForms[name]
        d == AddressOf(m, storeForm[2], Front(ops))
        stored == BytesOf(MemKind[storeForm[1]], IntVal(g(m, Last(ops))))
    IN  IF name \in DOMAIN StoreForms THEN [d.m EXCEPT !.mem = StoreBytes(@, d.at, stored)]
        ELSE IF Index(ops[1]) = 15 THEN Jump32(f, a.m, value) ELSE SetReg(a.m, ops[1], value)

FloatStep(f, env, m, ins) ==
    LET ops == Tail(ins.ops)
        form == FltForms[ins.name]
        k == KindNamed[form[2]]
        v(n) == GetFlt(m, k, ops[n])
        ld == AddressOf(m, "_imm", Tail(ops))
        st == AddressOf(m, "_imm", Front(ops))
    IN  CASE form[1] \in DOMAIN FltOpc -> SetFlt(m, k, ops[1], FltVal(<<FltOpc[form[1]], v(2)[2], v(3)[2]>>))
          [] form[1] = "vmov" -> SetFlt(m, k, ops[1], v(2))
          [] form[1] = "vcmp" -> [m EXCEPT !.fpscr = FltFlags(FltOrder(env, v(1)[2], v(2)[2]))]
          [] form[1] = "vldr" -> SetFlt(m, k, ops[1], Load(env, m.mem, k, ld.at))
          [] form[1] = "vstr" -> [m EXCEPT !.mem = StoreBytes(@, st.at, BytesOf(k, GetFlt(m, k, Last(ops))))]

\* Integers pass through a single precision register.
ConvertStep(m, ins) ==
    LET to == KindNamed[ConvForms[ins.name][1]]
        from == KindNamed[ConvForms[ins.name][2]]
        src == ins.ops[3]
        x == IF flavor(from) = "F" THEN GetFlt(m, from, src) ELSE ValueOf(from, m.s[Index(src)])
        v == Convert(to, from, x)
    IN  IF flavor(to) = "F" THEN SetFlt(m, to, ins.ops[2], v)
        ELSE [m EXCEPT !.s[Index(ins.ops[2])] = BytesOf(to, v)]

\* The registers of a multiple transfer: a set of integer registers, or a count and the
\* first floating point register.
IsCore(what) == Len(what) = 1
Transferred(what) ==
    IF IsCore(what) THEN SetToSortSeq(what[1], <) ELSE [i \in 1 .. Index(what[1]) |-> Index(what[2]) + i - 1]
StoreMultiple(m, core, regs, t) ==
    LET Put(acc, i) == StoreBytes(acc, WordAt(t.at, i), IF core THEN BytesOf("U32", IntVal(m.r[regs[i]])) ELSE m.s[regs[i]])
    IN  [t.m EXCEPT !.mem = FoldLeft(Put, @, [i \in DOMAIN regs |-> i])]
LoadMultiple(env, m, core, regs, t) ==
    LET place == [r \in ToSet(regs) |-> WordAt(t.at, CHOOSE i \in DOMAIN regs : regs[i] = r)]
        Raw(a) == [j \in 1 .. 4 |-> ByteAt(env, m.mem, Add32(a, Ones(j - 1)))]
    IN  IF core THEN [t.m EXCEPT !.r = [r \in ToSet(regs) |-> Load(env, m.mem, "U32", place[r])[2]] @@ @]
        ELSE [t.m EXCEPT !.s = [r \in ToSet(regs) |-> Raw(place[r])] @@ @]
JumpIfLoaded(f, m, regs) == IF 15 \in ToSet(regs) THEN Jump32(f, m, m.r[15]) ELSE m
MultipleStep(f, env, m, ins) ==
    LET ops == Tail(ins.ops)
        store == SubSeq(ops, 3, Len(ops))
        load == SubSeq(ops, 1, Len(ops) - 2)
        base == SubSeq(ops, Len(ops) - 1, Len(ops))
        Moved(mode_base, regs) == MultipleOf(m, mode_base[1], mode_base[2], Len(regs))
        Loaded(regs) == LoadMultiple(env, m, IsCore(load), regs, Moved(base, regs))
    IN  CASE ins.name \in {"stm", "vstm_s"} ->
               StoreMultiple(m, IsCore(store), Transferred(store), Moved(ops, Transferred(store)))
          [] ins.name = "vldm_s" -> Loaded(Transferred(load))
          [] ins.name = "ldm" -> JumpIfLoaded(f, Loaded(Transferred(load)), Transferred(load))

\* The symbol of a relocation, plus the addend.
Target(env, ins) == Add32(Address(env, IF ins.reloc[1] = "JUMP24" THEN <<"bbl", ins.reloc[2]>> ELSE <<"sym", ins.reloc[2]>>),
                          Low(ins.reloc[3], 32))
OtherStep(f, env, m, ins) ==
    LET ops == Tail(ins.ops)
        name == ins.name
        set(x) == SetReg(m, ops[1], x)
        half(n) == IF ins.reloc = <<>> THEN ops[2] ELSE Low(ShiftRight(Target(env, ins), n), 16)
        two == SecondOperand(m, MoveForms[name][2], Tail(ops))
    IN  CASE name \in DOMAIN AluForms ->
               set(AluResult(AluForms[name][1], g(m, ops[2]), SecondOperand(m, AluForms[name][2], SubSeq(ops, 3, Len(ops)))))
          [] name \in DOMAIN MoveForms ->
               IF MoveForms[name][1] = "cmp" THEN [m EXCEPT !.flags = IntFlags(g(m, ops[1]), two)]
               ELSE set(AluResult(MoveForms[name][1], {}, two))
          [] name = "movw" -> set(half(0))
          [] name = "movt" -> set(Low(g(m, ops[1]), 16) \cup ShiftLeft(half(16), 16))
          [] name = "mul" -> set(Mul32(g(m, ops[2]), g(m, ops[3])))
          [] name = "udiv" -> set(Quotient(g(m, ops[2]), g(m, ops[3])))
          [] name = "sdiv" -> set(QuotientSigned(g(m, ops[2]), g(m, ops[3])))
          [] name \in DOMAIN ExtendKind -> set(Normal(ExtendKind[name], g(m, ops[3])))
          [] name = "vmov_stoa" -> set(ValueOf("U32", m.s[Index(ops[2])])[2])
          [] name = "vmov_atos" -> [m EXCEPT !.s[Index(ops[1])] = BytesOf("U32", IntVal(g(m, ops[2])))]
          [] name = "vmrs_APSR_nzcv_fpscr" -> [m EXCEPT !.flags = m.fpscr]
          [] name = "b" -> Jump32(f, m, Target(env, ins))
          [] name = "bx" -> Jump32(f, m, g(m, ops[1]))
          [] name = "bl" -> Call(f, env, m, Target(env, ins))
          [] name = "blx_reg" -> Call(f, env, m, g(m, ops[1]))
          [] name = "svc" -> Syscall(f, m)
          [] name = "ud2" -> Stop(m, <<"trap">>)
MachineStep(f, env, prog, cur) ==
    LET ins == prog[cur.b][cur.i]
        m == [cur EXCEPT !.i = @ + 1]
    IN  IF ~ConditionHolds(ins.ops[1], m.flags) THEN m
        ELSE IF ins.name \in DOMAIN LoadForms \cup DOMAIN StoreForms THEN MemoryStep(f, env, m, ins)
        ELSE IF ins.name \in DOMAIN FltForms THEN FloatStep(f, env, m, ins)
        ELSE IF ins.name \in DOMAIN ConvForms THEN ConvertStep(m, ins)
        ELSE IF ins.name \in {"stm", "ldm", "vstm_s", "vldm_s"} THEN MultipleStep(f, env, m, ins)
        ELSE OtherStep(f, env, m, ins)

\* Enter with the arguments in their registers, the stack at 2^30.
StackTop == {30}
MachineInit(f, env) ==
    LET none == [n |-> FALSE, z |-> FALSE, c |-> FALSE, v |-> FALSE]
        r == [i \in 0 .. 15 |-> CASE i = 13 -> StackTop [] i = 14 -> ReturnAddress [] OTHER -> Ones(3000 + 17 * i)]
        s == [i \in 0 .. 31 |-> BytesOf("F32", FltVal(<<"entry", i>>))]
        m == SetArgs([b |-> 1, i |-> 1, n |-> 1, r |-> r, s |-> s, flags |-> none, fpscr |-> none, log |-> <<>>,
                      mem |-> [a \in {} |-> <<>>], halted |-> FALSE], f.sig.ins, env.params)
    IN  ("entry" :> SavedAcrossCalls(m)) @@ m
MachineNext(f, env, prog, m) ==
    IF m.i <= Len(prog[m.b]) THEN MachineStep(f, env, prog, m)
    ELSE IF m.b < Len(prog) THEN [m EXCEPT !.b = @ + 1, !.i = 1]
    ELSE Stop(m, <<"ran off the end">>)
RECURSIVE MachineRun(_, _, _, _, _)
MachineRun(f, env, prog, m, steps) ==
    IF m.halted THEN m
    ELSE IF steps = 1 THEN MachineNext(f, env, prog, m)
    ELSE MachineRun(f, env, prog, MachineRun(f, env, prog, m, steps \div 2), steps - steps \div 2)

----------------------------------------------------------------------------
(* Properties.                                                             *)

CONSTANTS Worlds(_),    \* the arguments a function is run with, [params, order]
          MaxSteps      \* bound: how far the function and its code are followed

\* The stack regions of the source are where the code has them.
FrameOf(ctx) == ctx.stk_size + 4 * (Cardinality(ctx.stm) + Cardinality(ctx.vstm))
FrameSize(f) == FrameOf(FunComputeEmitContext(f))
Env(f, g0, w) ==
    [params |-> w.params, order |-> w.order, jtbs |-> f.jtbs, consts |-> g0.consts,
     names |-> f.names \o SetToSeq(DOMAIN g0.consts),
     stks |-> [n \in DOMAIN f.stks |-> Add32(Sub32(StackTop, Ones(FrameSize(g0))), Ones(g0.slots[n]))]]

\* Below the stack's top only the regions of the source count.
Outside(f, env, mem) ==
    LET inRegion(a) == \E n \in DOMAIN f.stks : LET d == Sub32(a, env.stks[n])
                                                IN  IsBelow(d, 16) /\ Index(d) < f.stks[n].size
        own(a) == 17 .. 29 \subseteq a /\ {30, 31} \cap a = {} /\ ~inRegion(a)
    IN  [a \in {x \in DOMAIN mem : ~own(x)} |-> mem[a]]

\* For every run of the function that ends, its code makes the same calls with the same
\* arguments, leaves the same memory and returns the same values, with the registers and
\* the stack that a callee keeps restored.
SameEnd(f, env, ir, m) ==
    ir.halted => /\ m.halted
                 /\ m.log = ir.log
                 /\ Outside(f, env, m.mem) = Outside(f, env, ir.mem)
SameRun(f, env, prog) ==
    SameEnd(f, env, IrRun(f, env, IrInit(f, env), MaxSteps),
                    MachineRun(f, env, prog, MachineInit(f, env), 4 * MaxSteps))
SameRuns(f, g0, prog) == \A w \in Worlds(f) : SameRun(f, Env(f, g0, w), prog)
SameMeaning(f, g0, words) == SameRuns(f, g0, Decoded(words))
CodeMeansSame == phase = "done" => SameMeaning(source, fun, code)

\* Every function that passes the first check is compiled: no pattern is missing, no
\* assertion of a later pass fails, every operand fits.
CodeGenSucceeds == phase = "failed" => ~FunCheck(source, TRUE)

\* What an instruction reads and writes when the machine registers that carry arguments
\* and results count too.
Carriers(ks) == {CpuName(SigRegs(ks)[j], ks[j]) : j \in DOMAIN ks}
Reads(f, ins) ==
    ToSet(Uses(ins)) \cup (CASE is_call(ins.opc) -> Carriers(f.sigs[Callee(ins)].ins)
                             [] ins.opc = "ret" -> Carriers(f.sig.outs)
                             [] OTHER -> {})
Writes(f, ins) == ToSet(Defs(ins)) \cup (IF is_call(ins.opc) THEN Carriers(f.sigs[Callee(ins)].outs) ELSE {})
\* What is still needed after each instruction of a bbl and before the first, when out is
\* needed at its end.
NeededIn(f, b, out) ==
    LET Before(acc, ins) == <<(acc[1] \ Writes(f, ins)) \cup Reads(f, ins)>> \o acc
    IN  FoldBackward(Before, <<out>>, f.bbls[b])
NeededOut(f) ==
    LET Round(out, i) == [b \in DOMAIN f.bbls |-> UNION {Head(NeededIn(f, s, out[s])) : s \in Succ(f, b)}]
    IN  FoldForward(Round, [b \in DOMAIN f.bbls |-> {}], Bbls(f))

\* No write to a register destroys another one that is still needed: what is written
\* shares no unit with it, what is needed over a call is in registers that the callee
\* keeps, and at the start nothing is needed but the arguments.
Spared(f, ins, needed) ==
    LET others == needed \ Writes(f, ins)
    IN  /\ \A w \in Writes(f, ins), r \in others : Units(f.cpu[w]) \cap Units(f.cpu[r]) = {}
        /\ is_call(ins.opc) => \A r \in others : Units(f.cpu[r]) \subseteq CalleeSaved
LiveRegistersDisjoint ==
    phase = "moves" =>
        LET out == NeededOut(fun)
        IN  /\ \A b \in DOMAIN fun.bbls :
                  LET needed == NeededIn(fun, b, out[b])
                  IN  \A i \in DOMAIN fun.bbls[b] : Spared(fun, fun.bbls[b][i], needed[i + 1])
            /\ Head(NeededIn(fun, 1, out[1])) \subseteq Carriers(fun.sig.ins)
=============================================================================
