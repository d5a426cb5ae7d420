------------------------------ MODULE IrOpcodes ------------------------------
(***************************************************************************)
(* The instructions of the intermediate representation: Base/opcode_tab.py *)
(* with the operand kinds, the type constraints and the attributes of      *)
(* every opcode, the data kinds of Base/ir.py's registers and constants,   *)
(* and what Base/sanity.py checks of an instruction and of the order of    *)
(* pushed and popped arguments.                                            *)
(*                                                                         *)
(* An instruction is [opc, ops].  An operand is <<"reg", name>>,           *)
(* <<"const", kind, value>> or <<c, name>> with c one of stk, mem, fun,    *)
(* bbl, jtb.  The value of an integer constant is the set of its bits in a *)
(* two's complement wider than any data kind (Wide bits).                  *)
(***************************************************************************)
EXTENDS BitFields, TLC

Wide == 40

\* Python's integers, for the few operations that the compiler applies to constants.
Invert(s) == (0 .. Wide - 1) \ s
Number(n) == IF n >= 0 THEN Ones(n) ELSE Invert(Ones(-(n + 1)))
RECURSIVE CarryInto(_, _)
CarryInto(sum, carry) ==
    IF carry = {} THEN sum
    ELSE CarryInto((sum \ carry) \cup (carry \ sum), ShiftLeft(sum \cap carry, 1))
AddWithin(a, b, width) == Low(CarryInto(a, b), width)
Plus(a, b) == AddWithin(a, b, Wide)
Negate(s) ==
    IF s = {} THEN {} ELSE LET low == Min(s) IN {low} \cup {i \in low + 1 .. Wide - 1 : i \notin s}
IsNegative(s) == Wide - 1 \in s
IsBelow(s, n) == s \subseteq 0 .. n - 1                 \* 0 <= x < 2^n

----------------------------------------------------------------------------
(* Data kinds.                                                             *)

DK == [S8 |-> <<"S", 8>>, S16 |-> <<"S", 16>>, S32 |-> <<"S", 32>>, S64 |-> <<"S", 64>>,
       U8 |-> <<"U", 8>>, U16 |-> <<"U", 16>>, U32 |-> <<"U", 32>>, U64 |-> <<"U", 64>>,
       F8 |-> <<"F", 8>>, F16 |-> <<"F", 16>>, F32 |-> <<"F", 32>>, F64 |-> <<"F", 64>>,
       A32 |-> <<"A", 32>>, A64 |-> <<"A", 64>>, C32 |-> <<"C", 32>>, C64 |-> <<"C", 64>>]
flavor(k) == DK[k][1]
bitwidth(k) == DK[k][2]
RegIsInt(k) == flavor(k) \in {"S", "U"}

\* CheckTypeConstraint, last being the kind of the previous typed operand.
CheckTypeConstraint(last, tc, k) ==
    CASE tc = "ANY" -> TRUE
      [] tc = "ADDR_NUM" -> flavor(k) # "C"
      [] tc = "NUM" -> flavor(k) \in {"U", "S", "F"}
      [] tc \in {"INT", "OFFSET"} -> flavor(k) \in {"U", "S"}
      [] tc = "ADDR" -> flavor(k) = "A"
      [] tc = "CODE" -> flavor(k) = "C"
      [] tc = "SINT" -> flavor(k) = "S"
      [] tc = "UINT" -> flavor(k) = "U"
      [] tc = "ADDR_INT" -> flavor(k) \in {"A", "S", "U"}
      [] tc = "FLT" -> flavor(k) = "F"
      [] tc = "SAME_AS_PREV" -> last = k
      [] tc = "SAME_SIZE_AS_PREV" -> last # "INVALID" /\ bitwidth(last) = bitwidth(k)

----------------------------------------------------------------------------
(* Opcodes: <<kind, operands, attributes>>, an operand being               *)
(* <<operand kind, type constraint>>.                                      *)

Reg(tc) == <<"REG", tc>>
Opd(tc) == <<"REG_OR_CONST", tc>>
Sym(k) == <<k, "INVALID">>
Rows(names, row) == [n \in names |-> row]

SAME == "SAME_AS_PREV"
AluOps(tc) == <<Reg(tc), Opd(SAME), Opd(SAME)>>
Unary(tc) == <<Reg(tc), Opd(SAME)>>
Select(tc) == <<Reg(tc), Opd(SAME), Opd(SAME), Opd(SAME), Opd(SAME)>>
Branch(tc) == <<Opd(tc), Opd(SAME), Sym("BBL")>>

Arithmetic ==
    Rows({"add", "mul", "min", "max"}, <<"ALU", AluOps("NUM"), {"COMMUTATIVE"}>>)
    @@ Rows({"sub", "div"}, <<"ALU", AluOps("NUM"), {}>>)
    @@ Rows({"xor", "and", "or"}, <<"ALU", AluOps("INT"), {"COMMUTATIVE"}>>)
    @@ Rows({"rem", "shl", "shr", "rotl"}, <<"ALU", AluOps("INT"), {}>>)

ControlFlow ==
    Rows({"beq", "bne"}, <<"COND_BRA", Branch("ANY"), {"COMMUTATIVE", "BBL_TERMINATOR"}>>)
    @@ Rows({"blt", "ble"}, <<"COND_BRA", Branch("ADDR_NUM"), {"BBL_TERMINATOR"}>>)
    @@ Rows({"switch"}, <<"SWITCH", <<Reg("UINT"), Sym("JTB")>>, {"BBL_TERMINATOR", "NO_FALL_THROUGH"}>>)
    @@ Rows({"bra"}, <<"BRA", <<Sym("BBL")>>, {"BBL_TERMINATOR", "NO_FALL_THROUGH"}>>)
    @@ Rows({"ret", "trap"}, <<"RET", <<>>, {"BBL_TERMINATOR", "NO_FALL_THROUGH"}>>)
    @@ Rows({"bsr"}, <<"BSR", <<Sym("FUN")>>, {"CALL"}>>)
    @@ Rows({"jsr"}, <<"JSR", <<Reg("CODE"), Sym("FUN")>>, {"CALL"}>>)
    @@ Rows({"syscall"}, <<"SYSCALL", <<Sym("FUN"), <<"CONST", "UINT">> >>, {"CALL"}>>)

Moves ==
    Rows({"pusharg"}, <<"PUSHARG", <<Opd("ANY")>>, {"SPECIAL"}>>)
    @@ Rows({"poparg"}, <<"POPARG", <<Reg("ANY")>>, {"SPECIAL"}>>)
    @@ Rows({"conv"}, <<"CONV", <<Reg("NUM"), Opd("NUM")>>, {}>>)
    @@ Rows({"bitcast"}, <<"CONV", <<Reg("ANY"), Opd("SAME_SIZE_AS_PREV")>>, {}>>)
    @@ Rows({"mov"}, <<"MOV", Unary("ANY"), {}>>)
    @@ Rows({"cmpeq"}, <<"CMP", Select("ANY"), {"COMMUTATIVE"}>>)
    @@ Rows({"cmplt"}, <<"CMP", Select("ADDR_NUM"), {}>>)
    @@ Rows({"lea"}, <<"LEA", <<Reg("ADDR"), Opd(SAME), Opd("OFFSET")>>, {}>>)
    @@ Rows({"lea.mem"}, <<"LEA", <<Reg("ADDR"), Sym("MEM"), Opd("OFFSET")>>, {}>>)
    @@ Rows({"lea.stk"}, <<"LEA", <<Reg("ADDR"), Sym("STK"), Opd("OFFSET")>>, {}>>)
    @@ Rows({"lea.fun"}, <<"LEA1", <<Reg("CODE"), Sym("FUN")>>, {}>>)

Memory ==
    Rows({"ld"}, <<"LD", <<Reg("ANY"), Opd("ADDR"), Opd("OFFSET")>>, {"MEM_RD"}>>)
    @@ Rows({"ld.mem"}, <<"LD", <<Reg("ANY"), Sym("MEM"), Opd("OFFSET")>>, {"MEM_RD"}>>)
    @@ Rows({"ld.stk"}, <<"LD", <<Reg("ANY"), Sym("STK"), Opd("OFFSET")>>, {"MEM_RD"}>>)
    @@ Rows({"st"}, <<"ST", <<Reg("ADDR"), Opd("OFFSET"), Opd("ANY")>>, {"MEM_WR"}>>)
    @@ Rows({"st.mem"}, <<"ST", <<Sym("MEM"), Opd("OFFSET"), Opd("ANY")>>, {"MEM_WR"}>>)
    @@ Rows({"st.stk"}, <<"ST", <<Sym("STK"), Opd("OFFSET"), Opd("ANY")>>, {"MEM_WR"}>>)

MemoryBlocks ==
    Rows({"bcopy"}, <<"BCOPY", <<Reg("ADDR"), Reg(SAME), Opd("OFFSET")>>, {"MEM_WR", "MEM_RD"}>>)
    @@ Rows({"bzero"}, <<"BZERO", <<Reg("ADDR"), Opd("OFFSET")>>, {"MEM_WR"}>>)

\* The offset is a field of a struct; none of these has attributes.
StructAccess ==
    Rows({"st.stks"}, <<"ST", <<Sym("STK"), Sym("FIELD"), Reg("ANY")>>, {}>>)
    @@ Rows({"ld.stks"}, <<"LD", <<Reg("ANY"), Sym("STK"), Sym("FIELD")>>, {}>>)
    @@ Rows({"lea.stks"}, <<"LEA1", <<Reg("ADDR"), Sym("FIELD")>>, {}>>)
    @@ Rows({"lds"}, <<"LD", <<Reg("ANY"), Reg("ADDR"), Sym("FIELD")>>, {}>>)
    @@ Rows({"sts"}, <<"ST", <<Reg("ADDR"), Sym("FIELD"), Reg("ANY")>>, {}>>)
    @@ Rows({"adds"}, <<"ALU", <<Reg("ADDR"), Reg(SAME), Sym("FIELD")>>, {}>>)

FloatFunctions ==
    Rows({"sqrt", "abs", "sign", "ceil", "floor", "trunc", "round", "sin", "cos", "tan", "asin",
          "acos", "atan", "exp", "log"}, <<"ALU1", Unary("FLT"), {}>>)
BitCounts == Rows({"cntpop", "cntlz", "cnttz"}, <<"ALU1", Unary("INT"), {}>>)
Nops == Rows({"nop"}, <<"NOP", <<>>, {}>>) @@ Rows({"nop1"}, <<"NOP1", <<Reg("ANY")>>, {"SPECIAL"}>>)

Table == Arithmetic @@ ControlFlow @@ Moves @@ Memory @@ MemoryBlocks @@ StructAccess
         @@ FloatFunctions @@ BitCounts @@ Nops

kind(opc) == Table[opc][1]
operand_kinds(opc) == [i \in DOMAIN Table[opc][2] |-> Table[opc][2][i][1]]
constraints(opc) == [i \in DOMAIN Table[opc][2] |-> Table[opc][2][i][2]]
attributes(opc) == Table[opc][3]
is_call(opc) == "CALL" \in attributes(opc)
is_bbl_terminator(opc) == "BBL_TERMINATOR" \in attributes(opc)

\* How many of the leading operands are written.
def_ops_count(opc) ==
    IF kind(opc) \in {"LEA", "LEA1", "ALU", "ALU1", "CMP", "MOV", "CONV", "LD", "POPARG", "NOP1"} THEN 1 ELSE 0

\* What the table's constructor asserts of every row.
ASSUME TableWellFormed ==
    \A opc \in DOMAIN Table :
        /\ Len(Table[opc][2]) <= 5
        /\ \A i \in DOMAIN operand_kinds(opc) :
              (operand_kinds(opc)[i] \in {"REG", "CONST", "REG_OR_CONST"}) = (constraints(opc)[i] # "INVALID")

----------------------------------------------------------------------------
(* Instructions of a function f, whose kinds gives each register's kind.   *)

Ins(opc, ops) == [opc |-> opc, ops |-> ops]
R(name) == <<"reg", name>>
C(k, value) == <<"const", k, value>>
IsReg(op) == op[1] = "reg"
IsConst(op) == op[1] = "const"
KindOf(f, op) == IF IsReg(op) THEN f.kinds[op[2]] ELSE op[2]

\* InsCheckConstraints and _CheckIns of sanity.py.
InsCheck(f, ins) ==
    LET typed == {n \in DOMAIN ins.ops : IsReg(ins.ops[n]) \/ IsConst(ins.ops[n])}
        earlier(n) == {m \in typed : m < n}
        last(n) == IF earlier(n) = {} THEN "INVALID"
                   ELSE KindOf(f, ins.ops[CHOOSE m \in earlier(n) : \A k \in earlier(n) : k <= m])
    IN  /\ Len(ins.ops) = Len(operand_kinds(ins.opc))
        /\ \A n \in DOMAIN ins.ops :
              LET op == ins.ops[n]
                  ok == operand_kinds(ins.opc)[n]
              IN  /\ IsReg(op) => ok \in {"REG", "REG_OR_CONST"} /\ op[2] \in DOMAIN f.kinds
                  /\ IsConst(op) => ok \in {"CONST", "REG_OR_CONST"}
                  /\ n \notin typed => ok = [stk |-> "STK", mem |-> "MEM", fun |-> "FUN",
                                             bbl |-> "BBL", jtb |-> "JTB"][op[1]]
                  /\ n \in typed => CheckTypeConstraint(last(n), constraints(ins.opc)[n], KindOf(f, op))

\* FunArgState: the kinds pushed and still to be popped at each instruction.  The callees'
\* signatures are in f.sigs, a signature is [ins, outs].
Callee(ins) == CHOOSE n \in {ins.ops[i][2] : i \in {j \in DOMAIN ins.ops : ins.ops[j][1] = "fun"}} : TRUE
ArgStep(f, acc, ins) ==
    CASE ins.opc = "poparg" ->
            IF acc.pop # <<>> /\ Head(acc.pop) = KindOf(f, ins.ops[1])
            THEN [acc EXCEPT !.pop = Tail(acc.pop)] ELSE [acc EXCEPT !.ok = FALSE]
      [] ins.opc = "pusharg" -> [acc EXCEPT !.ok = acc.ok /\ acc.pop = <<>>,
                                            !.push = Append(acc.push, KindOf(f, ins.ops[1]))]
      [] ins.opc = "ret" -> [acc EXCEPT !.ok = acc.ok /\ acc.pop = <<>> /\ Reverse(acc.push) = f.sig.outs,
                                        !.push = <<>>]
      [] is_call(ins.opc) ->
            LET sig == f.sigs[Callee(ins)]
            IN  [ok |-> acc.ok /\ acc.pop = <<>> /\ Reverse(acc.push) = sig.ins,
                 push |-> <<>>, pop |-> sig.outs]
      [] OTHER -> [acc EXCEPT !.ok = acc.ok /\ acc.pop = <<>> /\ acc.push = <<>>]

FunCheck(f, check_push_pop) ==
    LET inss == FlattenSeq(f.bbls)
        Step(acc, ins) == ArgStep(f, acc, ins)
    IN  /\ \A i \in DOMAIN inss : InsCheck(f, inss[i])
        /\ \A b \in DOMAIN f.bbls : \A i \in 1 .. Len(f.bbls[b]) - 1 : ~is_bbl_terminator(f.bbls[b][i].opc)
        /\ check_push_pop => FoldForward(Step, [ok |-> TRUE, push |-> <<>>, pop |-> f.sig.ins], inss).ok
=============================================================================
