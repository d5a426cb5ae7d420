------------------------------ MODULE IrMeaning ------------------------------
(***************************************************************************)
(* What a function of the intermediate representation does, as the         *)
(* descriptions of the opcodes in Base/opcode_tab.py have it: the          *)
(* reference that generated code is compared with.  It computes with 32    *)
(* bits; floating point is left uninterpreted, as terms.                   *)
(*                                                                         *)
(* A value is <<"int", bits>>, sign- or zero-extended from its kind, or    *)
(* <<"flt", term>>.  Memory is a function from the addresses written so    *)
(* far to bytes, a byte of a floating point value being a part of it.      *)
(* An environment env is                                                   *)
(*   params, order   the arguments, and how different floating point       *)
(*                   values compare: 1 or -1 by rank, 0 not at all         *)
(*   names           functions, Mems and jump tables, in memory order      *)
(*   stks            the address of each stack region                      *)
(*   jtbs, consts    the contents of the jump tables and constant Mems     *)
(* The result of a run is what can be seen from outside: log, the calls,   *)
(* traps and returns with the values they pass, and mem.                   *)
(***************************************************************************)
EXTENDS IrOpcodes

IntVal(bits) == <<"int", bits>>
FltVal(term) == <<"flt", term>>

Add32(a, b) == AddWithin(a, b, 32)
Sub32(a, b) == AddWithin(a, Negate(b), 32)
Index(bits) == FoldSet(LAMBDA i, n : n + 2^i, 0, bits)
Xor(a, b) == (a \ b) \cup (b \ a)
Below(a, b) == a # b /\ Max(Xor(a, b)) \in b
BelowSigned(a, b) == Below(Xor(a, {31}), Xor(b, {31}))

\* Byte by byte, as numbers.
Mul32(a, b) ==
    LET byte(x, i) == Index(Low(ShiftRight(x, 8 * i), 8))
        Column(acc, n) ==
            LET sum == FoldSet(LAMBDA i, t : t + byte(a, i) * byte(b, n - i), acc.carry, 0 .. n)
            IN  [bits |-> acc.bits \cup ShiftLeft(Ones(sum % 256), 8 * n), carry |-> sum \div 256]
    IN  FoldLeft(Column, [bits |-> {}, carry |-> 0], <<0, 1, 2, 3>>).bits

\* Division truncates; by zero it gives zero, as the processor has it.  Half of the
\* dividend is a number TLC can divide.
Quotient(a, b) ==
    LET d == Index(b)
        half == Index(ShiftRight(a, 1))
        rest == half % d
        odd == IF 0 \in a THEN 1 ELSE 0
    IN  CASE b = {} -> {}
          [] 31 \in b -> IF Below(a, b) THEN {} ELSE {0}
          [] OTHER -> ShiftLeft(Ones(half \div d), 1) \cup (IF rest >= d - rest - odd THEN {0} ELSE {})
Magnitude(a) == IF 31 \in a THEN Sub32({}, a) ELSE a
QuotientSigned(a, b) ==
    LET q == Quotient(Magnitude(a), Magnitude(b)) IN IF 31 \in Xor(a, b) THEN Sub32({}, q) ELSE q
ShiftRightSigned(a, n) == ShiftRight(a, n) \cup (IF 31 \in a THEN 32 - n .. 31 ELSE {})

Normal(k, bits) ==
    LET low == Low(bits, bitwidth(k)) IN IF flavor(k) = "S" THEN SignExtend(low, bitwidth(k)) ELSE low

----------------------------------------------------------------------------
(* Memory.                                                                 *)

BytesOf(k, v) ==
    LET n == bitwidth(k) \div 8
    IN  [i \in 1 .. n |-> IF v[1] = "int" THEN <<"byte", Low(ShiftRight(v[2], 8 * (i - 1)), 8)>>
                          ELSE <<"part", v[2], i, n>>]
ValueOf(k, bytes) ==
    LET whole == FltVal(bytes[1][2])
        bits(i) == IF bytes[i][1] = "byte" THEN ShiftLeft(bytes[i][2], 8 * (i - 1)) ELSE {8 * i - 3}
    IN  IF flavor(k) # "F" THEN IntVal(Normal(k, UNION {bits(i) : i \in DOMAIN bytes}))
        ELSE IF bytes = BytesOf(k, whole) THEN whole ELSE FltVal(<<"bytes", bytes>>)

\* The first symbol is at 2^20, the next 2^16 further; code is below.
SymbolAddress(env, name) == Ones(65536 * (15 + IndexFirstSubSeq(<<name>>, env.names)))
BblAddress(b) == Ones(4096 * b)
Address(env, op) ==
    CASE op[1] = "stk" -> env.stks[op[2]]
      [] op[1] = "bbl" -> BblAddress(op[2])
      [] OTHER -> SymbolAddress(env, op[2])

\* Memory that nothing was stored to: jump tables, constants, and bytes that tell
\* different addresses apart.
InitialByte(env, a) ==
    LET page == Index(ShiftRight(a, 16)) - 15
        name == IF page \in DOMAIN env.names THEN env.names[page] ELSE ""
        at == Index(Low(a, 16))
    IN  IF name \in DOMAIN env.jtbs /\ at < 4 * Len(env.jtbs[name])
        THEN BytesOf("U32", IntVal(BblAddress(env.jtbs[name][(at \div 4) + 1])))[(at % 4) + 1]
        ELSE IF name \in DOMAIN env.consts
        THEN BytesOf(env.consts[name][2], FltVal(<<"const", env.consts[name][3]>>))[at + 1]
        ELSE <<"byte", {j \in 0 .. 7 : Cardinality({i \in a : (i + 3 * (i \div 8)) % 8 = j}) % 2 = 1}>>

ByteAt(env, mem, a) == IF a \in DOMAIN mem THEN mem[a] ELSE InitialByte(env, a)
Load(env, mem, k, a) ==
    ValueOf(k, [i \in 1 .. bitwidth(k) \div 8 |-> ByteAt(env, mem, Add32(a, Ones(i - 1)))])
StoreBytes(mem, a, bytes) ==
    LET at(i) == Add32(a, Ones(i - 1))
        put == {at(i) : i \in DOMAIN bytes}
    IN  [x \in put |-> bytes[CHOOSE i \in DOMAIN bytes : at(i) = x]] @@ mem

----------------------------------------------------------------------------
(* Operations.                                                             *)

IntAlu(opc, k, a, b) ==
    Normal(k, CASE opc = "add" -> Add32(a, b)
                [] opc = "sub" -> Sub32(a, b)
                [] opc = "mul" -> Mul32(a, b)
                [] opc = "div" -> IF flavor(k) = "S" THEN QuotientSigned(a, b) ELSE Quotient(a, b)
                [] opc = "rem" -> Sub32(a, Mul32(b, IF flavor(k) = "S" THEN QuotientSigned(a, b) ELSE Quotient(a, b)))
                [] opc = "and" -> a \cap b
                [] opc = "or" -> a \cup b
                [] opc = "xor" -> Xor(a, b)
                [] opc = "shl" -> Low(ShiftLeft(a, Index(Low(b, 5))), 32)
                [] opc = "shr" -> IF flavor(k) = "S" THEN ShiftRightSigned(a, Index(Low(b, 5)))
                                  ELSE ShiftRight(a, Index(Low(b, 5))))
Operate(opc, k, x, y) ==
    IF flavor(k) = "F" THEN FltVal(<<opc, x[2], y[2]>>) ELSE IntVal(IntAlu(opc, k, x[2], y[2]))

Rank(term) == CASE term[1] = "param" -> term[2] [] term[1] = "result" -> 60 + term[3] [] OTHER -> 90
FltOrder(env, s, t) ==
    CASE env.order = 0 -> "unordered"
      [] env.order # 0 /\ s = t -> "equal"
      [] env.order # 0 /\ s # t -> IF env.order * Rank(s) < env.order * Rank(t) THEN "less" ELSE "greater"
Equal(env, k, x, y) == IF flavor(k) = "F" THEN FltOrder(env, x[2], y[2]) = "equal" ELSE x = y
Less(env, k, x, y) == CASE flavor(k) = "F" -> FltOrder(env, x[2], y[2]) = "less"
                        [] flavor(k) = "S" -> BelowSigned(x[2], y[2])
                        [] OTHER -> Below(x[2], y[2])
Holds(env, opc, k, x, y) ==
    CASE opc \in {"beq", "cmpeq"} -> Equal(env, k, x, y)
      [] opc = "bne" -> ~Equal(env, k, x, y)
      [] opc \in {"blt", "cmplt"} -> Less(env, k, x, y)
      [] opc = "ble" -> Less(env, k, x, y) \/ Equal(env, k, x, y)

\* An integer from a floating point value is not interpreted either.
Convert(to, from, x) ==
    CASE flavor(from) # "F" /\ flavor(to) # "F" -> IntVal(Normal(to, x[2]))
      [] flavor(from) # "F" /\ flavor(to) = "F" -> FltVal(<<"conv", to, flavor(from), x[2]>>)
      [] flavor(from) = "F" -> IntVal(Normal(to, Ones(2^16 * Rank(x[2]) + bitwidth(from) + (IF flavor(to) = "S" THEN 1 ELSE 0))))

\* What the n-th call returns.
ResultOf(k, n, j) ==
    IF flavor(k) = "F" THEN FltVal(<<"result", n, j>>) ELSE IntVal(Normal(k, Ones(40503 * n + 9973 * j) \cup {31}))

----------------------------------------------------------------------------
(* A run.                                                                  *)

Operand(st, op) ==
    IF IsReg(op) THEN st.regs[op[2]]
    ELSE IF flavor(op[2]) = "F" THEN FltVal(<<"const", op[3]>>) ELSE IntVal(Normal(op[2], op[3]))
IrCall(f, st, name, event) ==
    LET outs == f.sigs[name].outs
    IN  [st EXCEPT !.n = @ + 1, !.push = <<>>, !.log = Append(@, event \o <<Reverse(st.push)>>),
                   !.pop = [j \in DOMAIN outs |-> ResultOf(outs[j], st.n, j)]]

\* The address of a load, store or lea: a base and an offset.
BaseOf(env, st, op) == IF IsReg(op) \/ IsConst(op) THEN Operand(st, op)[2] ELSE Address(env, op)

IrStep(f, env, cur) ==
    LET ins == f.bbls[cur.b][cur.i]
        opc == ins.opc
        ops == ins.ops
        st == [cur EXCEPT !.i = @ + 1]
        val(n) == Operand(st, ops[n])
        k == KindOf(f, ops[1])
        set(v) == [st EXCEPT !.regs[ops[1][2]] = v]
        goto(b) == [st EXCEPT !.b = b, !.i = 1]
        address(n) == Add32(BaseOf(env, st, ops[n]), val(n + 1)[2])
        stop(event) == [st EXCEPT !.log = Append(@, event), !.halted = TRUE]
    IN  CASE kind(opc) = "ALU" -> set(Operate(opc, k, val(2), val(3)))
          [] kind(opc) = "CMP" -> set(IF Holds(env, opc, KindOf(f, ops[4]), val(4), val(5)) THEN val(2) ELSE val(3))
          [] kind(opc) = "COND_BRA" -> IF Holds(env, opc, k, val(1), val(2)) THEN goto(ops[3][2]) ELSE st
          [] opc \in {"mov", "bitcast"} -> set(val(2))
          [] opc = "conv" -> set(Convert(k, KindOf(f, ops[2]), val(2)))
          [] kind(opc) = "LEA" -> set(IntVal(address(2)))
          [] kind(opc) = "LEA1" -> set(IntVal(Address(env, ops[2])))
          [] kind(opc) = "LD" -> set(Load(env, st.mem, k, address(2)))
          [] kind(opc) = "ST" -> [st EXCEPT !.mem = StoreBytes(@, address(1), BytesOf(KindOf(f, ops[3]), val(3)))]
          [] opc = "poparg" -> [set(Head(st.pop)) EXCEPT !.pop = Tail(@)]
          [] opc = "pusharg" -> [st EXCEPT !.push = Append(@, val(1))]
          [] opc = "bra" -> goto(ops[1][2])
          [] opc = "switch" -> goto(f.jtbs[ops[2][2]][Index(val(1)[2]) + 1])
          [] opc \in {"bsr", "jsr"} -> IrCall(f, st, Callee(ins), <<"call", BaseOf(env, st, ops[1])>>)
          [] opc = "syscall" -> IrCall(f, st, Callee(ins), <<"syscall", val(2)[2]>>)
          [] opc = "ret" -> stop(<<"ret", Reverse(st.push), "restored">>)
          [] opc = "trap" -> stop(<<"trap">>)

IrInit(f, env) ==
    [b |-> 1, i |-> 1, n |-> 1, push |-> <<>>, pop |-> env.params, log |-> <<>>, mem |-> [a \in {} |-> <<>>],
     regs |-> [r \in DOMAIN f.kinds |-> FltVal(<<"undefined">>)], halted |-> FALSE]
IrNext(f, env, st) ==
    IF st.i > Len(f.bbls[st.b]) THEN [st EXCEPT !.b = @ + 1, !.i = 1] ELSE IrStep(f, env, st)
RECURSIVE IrRun(_, _, _, _)
IrRun(f, env, st, steps) ==
    IF st.halted THEN st
    ELSE IF steps = 1 THEN IrNext(f, env, st)
    ELSE IrRun(f, env, IrRun(f, env, st, steps \div 2), steps - steps \div 2)
=============================================================================
