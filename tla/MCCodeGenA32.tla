---- MODULE MCCodeGenA32 ----
(* Functions that reach every group of patterns of the instruction table with the
   immediates at the bounds of their encodings, and the register and stack allocation
   with calls, branches, spills and frames of every size class. *)
EXTENDS CodeMeaning

\* The arguments of a run: integers by place, and how floating point values compare.
Ones32(n) == Low(Number(n), 32)
Top(bits) == Xor(bits, 8 .. 31)
Ints(V(_), order) == [ints |-> [i \in 1 .. 6 |-> V(i)], order |-> order]
Spread(i) == Ones(70937 * i + 5)
Mixed == {Ints(Spread, 1),
          Ints(LAMBDA i : IF i % 2 = 1 THEN Spread(i) ELSE Top(Spread(i)), 0),
          Ints(LAMBDA i : IF i % 2 = 0 THEN Spread(i) ELSE Top(Spread(i)), -1)}
\* For comparisons: next to each other, equal, and on both sides of the sign.
Near == {Ints(LAMBDA i : Ones32(256 * i), 1), Ints(LAMBDA i : Ones32(512), -1),
         Ints(LAMBDA i : Ones32(IF i = 2 THEN -1 ELSE 768), 0), Ints(LAMBDA i : Ones32(IF i = 3 THEN -512 ELSE 511), 1)}
ArgOf(k, i, bits) == IF flavor(k) = "F" THEN FltVal(<<"param", i>>)
                     ELSE IF i = 1 \/ (k = "A32" /\ i = 2) THEN IntVal(Ones(65536 * (64 + i)))
                     ELSE IntVal(Normal(k, bits))
MCWorlds(f) ==
    {[params |-> [i \in DOMAIN f.sig.ins |-> ArgOf(f.sig.ins[i], i, w.ints[i])], order |-> w.order] : w \in f.worlds}

\* A function from its signature, registers, code, and the rest in more.
Names == <<"a", "b", "c", "d", "e", "f", "g", "h", "i", "p", "q", "r", "s", "t", "u", "v", "w", "x", "y", "z">>
Fun(ins, outs, kinds, bbls, more) ==
    LET plain == [kinds |-> kinds, cpu |-> <<>>, bbls |-> bbls, jtbs |-> <<>>, stks |-> <<>>, slots |-> <<>>,
                  stk_size |-> 0, sig |-> [ins |-> ins, outs |-> outs], sigs |-> <<>>, id |-> 0, consts |-> <<>>,
                  params |-> <<>>, ok |-> TRUE, names |-> <<"G", "M", "J", "K">>, worlds |-> Mixed]
        all == more @@ plain
    IN  ("order" :> SelectSeq(Names, LAMBDA n : n \in DOMAIN kinds \cup DOMAIN all.stks)) @@ all
None == [x \in {} |-> 0]
Kinds(names, k) == [n \in ToSet(names) |-> k]
Const(k, n) == C(k, IF flavor(k) = "S" THEN Number(n) ELSE Low(Number(n), 32))
U(n) == Const("U32", n)
Pop(names) == [i \in DOMAIN names |-> Ins("poparg", <<R(names[i])>>)]
Push(names) == [i \in DOMAIN names |-> Ins("pusharg", <<R(names[i])>>)]
Ret == <<Ins("ret", <<>>)>>
Cat(list, Body(_, _)) == FlattenSeq([i \in DOMAIN list |-> Body(i, list[i])])
\* A register that is local to a bbl is written once, as the optimizer leaves it.
Tmp(i) == R("t" \o ToString(i))
Tmps(n, k) == [x \in {Tmp(i)[2] : i \in 0 .. n} |-> k]
\* The i-th result is computed by an instruction and stored through p, the first parameter.
Store(i, op) == Ins("st", <<R("p"), U(8 * i), op>>)
Result(opc, i, ops) == <<Ins(opc, <<Tmp(i)>> \o ops), Store(i, Tmp(i))>>
Params == <<"p", "a", "b", "c">>
M == <<"mem", "M">>
\* Parameters p of kind A32 and a, b, c of kinds ks; n results of kind k; q and d are extra.
Straight(ks, n, k, more, inss) ==
    LET kinds == ("p" :> "A32") @@ ("q" :> "A32") @@ ("d" :> "U32") @@ Tmps(n, k)
                 @@ [x \in {Params[i + 1] : i \in DOMAIN ks} |-> ks[IndexFirstSubSeq(<<x>>, Params) - 1]]
    IN  Fun(<<"A32">> \o ks, <<>>, kinds, <<Pop(SubSeq(Params, 1, Len(ks) + 1)) \o inss \o Ret>>, more)

\* One operation on a and b, then with immediates on either side.
AluOn(opc, k, consts) ==
    Straight(<<k, k>>, 2 * Len(consts), k, None,
        Result(opc, 0, <<R("a"), R("b")>>)
        \o Cat(consts, LAMBDA i, n : Result(opc, 2 * i, <<R("a"), Const(k, n)>>)
                                     \o Result(opc, 2 * i - 1, <<Const(k, n), R("b")>>)))
ShiftOn(opc, k) ==
    Straight(<<k, k>>, 6, k, None,
        <<Ins("and", <<Tmp(5), R("b"), Const(k, 31)>>)>> \o Result(opc, 0, <<R("a"), Tmp(5)>>)
        \o Cat(<<1, 7, 31>>, LAMBDA i, n : Result(opc, i, <<R("a"), Const(k, n)>>)))
IntKinds == {"U32", "S32"}
Bounds == <<0, 255, 256, 257, 65535, 16711680, -1, -256, -257, 2147483647>>
AluFuns ==
    {AluOn(opc, k, Bounds) : opc \in {"add", "sub"}, k \in IntKinds}
    \cup {AluOn(opc, "U32", <<0, 255, 257, -1, -256, -258>>) : opc \in {"and", "or", "xor"}}
    \cup {AluOn("and", "S32", <<-256>>)}
    \cup {AluOn(opc, k, <<1, 7, -3>>) : opc \in {"mul", "div", "rem"}, k \in IntKinds}
    \cup {AluOn(opc, k, <<>>) : opc \in {"add", "sub", "mul", "div"}, k \in {"F32", "F64"}}
    \cup {AluOn("add", k, <<3>>) : k \in {"F32", "F64"}}
    \cup {ShiftOn(opc, k) : opc \in {"shl", "shr"}, k \in IntKinds}

\* Moves of constants and between kinds.
MoveFuns ==
    {Straight(<<k>>, 10, k, None, Result("mov", 0, <<R("a")>>)
        \o Cat(Bounds, LAMBDA i, n : Result("mov", i, <<Const(k, n)>>))) : k \in {"U32", "S32", "A32", "C32"}}
    \cup {Straight(<<k>>, 3, k, None, Result("mov", 0, <<R("a")>>)
        \o Cat(<<0, 100>>, LAMBDA i, n : Result("mov", i, <<Const(k, n)>>))) : k \in {"U8", "S8", "U16", "S16", "F32", "F64"}}
    \cup {Straight(<<p[2]>>, 1, p[1], None, Result("conv", 0, <<R("a")>>)) :
            p \in (IntKinds \X IntKinds) \cup (IntKinds \X {"F32", "F64"}) \cup ({"F32", "F64"} \X IntKinds)}
    \cup {Straight(<<from>>, 1, to, None, Result("bitcast", 0, <<R("a")>>)) :
            to \in {"U32", "S32", "A32", "C32"}, from \in {"U32", "S32", "A32", "C32"}}

\* Loads of kind k through a with offsets of kind ok, the last one in b; stores of c.
Access(k, ok, loads, stores) ==
    Straight(<<"A32", ok, k>>, 9, k, None,
        Cat(loads, LAMBDA i, n : Result("ld", i, <<R("a"), Const(ok, n)>>))
        \o Cat(stores, LAMBDA i, n : <<Ins("st", <<R("a"), Const(ok, n), R("c")>>)>>)
        \o (IF flavor(k) = "F" THEN <<>>
            ELSE Result("ld", 0, <<R("a"), R("b")>>) \o <<Ins("st", <<R("a"), R("b"), R("c")>>),
                                                         Ins("st", <<R("a"), Const(ok, 5004), Const(k, 17)>>)>>))
WordOffsets(ok) == <<0, 1, 4095, 4096>> \o (IF ok = "U32" THEN <<>> ELSE <<-1, -4095, -4096>>)
HalfOffsets(ok) == <<0, 255, 256>> \o (IF ok = "U32" THEN <<>> ELSE <<-1, -255, -256>>)
FloatOffsets(ok) == <<0, 4, 508>> \o (IF ok = "U32" THEN <<>> ELSE <<-4, -508>>)
AccessFuns ==
    {Access(k, ok, WordOffsets(ok), WordOffsets(ok)) : k \in {"U32", "S32", "A32", "C32", "U8"}, ok \in IntKinds}
    \cup {Access("S8", ok, <<0, 256>>, WordOffsets(ok)) : ok \in IntKinds}
    \cup {Access(k, ok, <<0, 256, 1020>>, HalfOffsets(ok)) : k \in {"U16", "S16"}, ok \in IntKinds}
    \cup {Access(k, ok, FloatOffsets(ok), FloatOffsets(ok)) : k \in {"F32", "F64"}, ok \in IntKinds}

\* Addresses, static memory and the stack.  x is in front of y, which is used.
LeaFuns ==
    {Straight(<<"A32", ok>>, 9, "A32", None,
        Result("lea", 0, <<R("a"), R("b")>>)
        \o Cat(<<0, 255, 257, 65536>> \o (IF ok = "U32" THEN <<>> ELSE <<-1, -255, -257>>), LAMBDA i, n :
               Result("lea", i, <<R("a"), Const(ok, n)>>))
        \o Result("lea.mem", 8, <<M, Const(ok, 12)>>)) : ok \in IntKinds}
    \cup {Straight(<<"U32", k>>, 5, k, None,
        <<Ins("st.mem", <<M, U(4), R("b")>>), Ins("st.mem", <<M, R("a"), Const(k, 9)>>)>>
        \o Result("ld.mem", 1, <<M, U(8)>>) \o Result("ld.mem", 2, <<M, Const("S32", 4)>>) \o Result("ld.mem", 3, <<M, R("a")>>)) :
            k \in {"U32", "S8"}}
Frame(size, k, ok) ==
    LET stks == ("x" :> [size |-> size, alignment |-> 4]) @@ ("y" :> [size |-> 24, alignment |-> 8])
        y == <<"stk", "y">>
    IN  Straight(<<"U32", k>>, 5, k, ("stks" :> stks),
            <<Ins("and", <<R("d"), R("a"), U(4)>>), Ins("st.stk", <<y, Const(ok, 8), R("b")>>), Ins("st.stk", <<y, Const(ok, 0), Const(k, 9)>>),
              Ins("lea.stk", <<R("q"), y, Const(ok, 8)>>), Ins("st", <<R("p"), U(48), R("q")>>)>>
            \o Result("ld.stk", 1, <<y, Const(ok, 8)>>) \o Result("ld.stk", 2, <<y, Const(ok, 0)>>)
            \o (IF flavor(k) = "F" THEN <<>>
                ELSE <<Ins("st.stk", <<y, R("d"), R("b")>>)>> \o Result("ld.stk", 3, <<y, R("d")>>)))
FrameFuns ==
    {Frame(size, "U32", ok) : size \in {4, 230, 1000, 4080, 65520, 70000}, ok \in IntKinds}
    \cup {Frame(4, k, ok) : k \in {"S32", "A32", "C32", "U8", "S8", "U16", "S16"}, ok \in IntKinds}
    \cup {Frame(4080, k, "U32") : k \in {"S16", "U8"}} \cup {Frame(500, k, ok) : k \in {"F32", "F64"}, ok \in IntKinds}

\* A sequence of tests; the i-th result is stored if the i-th branch is not taken.
Near0 == [worlds |-> Near]
Tests(ks, branches) ==
    LET n == Len(branches)
        test(i) == <<Ins(branches[i][1], <<branches[i][2], branches[i][3], <<"bbl", 2 * i + 1>> >>)>>
        plain == Straight(ks, 0, "U32", Near0, <<>>)
    IN  [plain EXCEPT !.bbls = <<Pop(SubSeq(Params, 1, Len(ks) + 1)) \o test(1)>>
                               \o [j \in 1 .. 2 * n - 1 |-> IF j % 2 = 0 THEN test((j \div 2) + 1) ELSE <<Store(j, U(j))>>]
                               \o <<Ret>>]
AB == << <<R("a"), R("b")>>, <<R("b"), R("a")>>, <<R("a"), R("a")>> >>
Against(k, consts) ==
    FlattenSeq([i \in DOMAIN consts |-> << <<R("a"), Const(k, consts[i])>>, <<Const(k, consts[i]), R("a")>> >>])
BranchFun(opc, k, pairs) == Tests(<<k, k>>, [i \in DOMAIN pairs |-> <<opc>> \o pairs[i]])
BranchFuns ==
    {BranchFun(opc, k, AB \o Against(k, <<511, 512>>)) : opc \in {"beq", "bne", "blt", "ble"}, k \in {"U32", "S32"}}
    \cup {BranchFun(opc, "A32", AB \o Against("A32", <<512>>)) : opc \in {"beq", "bne", "blt", "ble"}}
    \cup {BranchFun(opc, "C32", AB \o Against("C32", <<512>>)) : opc \in {"beq", "bne"}}
    \cup {BranchFun(opc, "F32", AB) : opc \in {"beq", "bne", "blt", "ble"}}
    \cup {BranchFun(opc, "F64", <<pair>>) : opc \in {"beq", "bne", "blt", "ble"}, pair \in ToSet(AB)}

\* One of two values, each a register or an immediate, by a comparison.
Small2(k) == << <<R("b"), R("c")>>, <<R("b"), Const(k, 7)>>, <<Const(k, 65535), R("c")>>, <<Const(k, 7), Const(k, 9)>> >>
Large2(k) == << <<Const(k, -5), R("b")>> >>
SelectFun(opc, k, values, pairs) ==
    Straight(<<k, k, k>>, 12, k, Near0, Cat(pairs, LAMBDA i, p :
        Cat(values, LAMBDA j, v : Result(opc, Len(values) * (i - 1) + j, v \o p))))
SelectFuns ==
    {SelectFun("cmplt", k, Small2(k), <<AB[1]>> \o Against(k, <<512>>)) : k \in {"U32", "S32", "A32"}}
    \cup {SelectFun("cmpeq", k, Small2(k), <<AB[1], <<R("a"), Const(k, 512)>> >>) : k \in {"U32", "S32", "A32", "C32"}}
    \cup {SelectFun(opc, k, Large2(k), <<AB[3]>> \o Against(k, <<511, -1>>)) : k \in IntKinds, opc \in {"cmpeq", "cmplt"}}

\* Calls of G, which takes and returns three values.
Callees(ks, outs) == [sigs |-> ("G" :> [ins |-> ks, outs |-> outs])]
FunG == <<"fun", "G">>
AfterCall(vals, saved, k) ==
    Pop(vals) \o Cat(vals, LAMBDA i, r : <<Store(i, R(r))>>) \o Cat(saved, LAMBDA i, r : <<Store(i + 4, R(r))>>)
CallFun(ks, outs, pushed, call, saved) ==
    LET results == [i \in DOMAIN outs |-> Tmp(i)[2]]
        plain == Straight(ks, 0, "U32", Callees(ks, outs), Push(pushed) \o call \o AfterCall(results, saved, "U32"))
    IN  [plain EXCEPT !.kinds = ("f" :> "C32") @@ [r \in ToSet(results) |-> outs[CHOOSE i \in DOMAIN outs : results[i] = r]] @@ @]
Bsr == <<Ins("bsr", <<FunG>>)>>
Jsr == <<Ins("lea.fun", <<R("f"), FunG>>), Ins("jsr", <<R("f"), FunG>>)>>
Syscall5 == <<Ins("syscall", <<FunG, U(5)>>)>>
Ints3 == <<"U32", "U32", "U32">>
CallFuns ==
    {CallFun(Ints3, <<"U32", "S32">>, order, Bsr, <<"a", "b">>) :
        order \in {<<"c", "b", "a">>, <<"a", "b", "c">>, <<"b", "a", "c">>, <<"a", "a", "b">>}}
    \cup {CallFun(Ints3, <<"S32">>, <<"b", "c", "a">>, Syscall5, <<"c">>),
          CallFun(<<"F32", "F64", "F32">>, <<"F64", "F32">>, <<"a", "b", "c">>, Bsr, <<"a", "b">>),
          CallFun(<<"F32", "U32", "F64">>, <<"F32", "U32">>, <<"c", "b", "a">>, Bsr, <<"c">>)}
    \cup {LET plain == CallFun(Ints3, <<"U32">>, <<"c", "b", "a">>, <<>>, <<>>)
          IN  [plain EXCEPT !.bbls = <<Pop(Params) \o <<Jsr[1]>> \o Push(<<"c", "b", "a">>) \o <<Jsr[2]>>
                                       \o AfterCall(<<"t1">>, <<"b">>, "U32") \o Ret>>]}

\* Values that live across bbls and, with a call between them, across the call; more of
\* them than there are registers for.
Vals == <<"q", "r", "s", "t", "u", "v", "w", "x">>
Globals(k, n, call) ==
    LET prev(i) == IF i = 1 THEN "a" ELSE Vals[i - 1]
        vs == SubSeq(Vals, 1, n)
    IN  Fun(<<"A32", k>>, <<>>, ("p" :> "A32") @@ ("a" :> k) @@ [v \in ToSet(vs) |-> k],
            <<Pop(<<"p", "a">>) \o Cat(vs, LAMBDA i, v : <<Ins("add", <<R(v), R(prev(i)), R("a")>>)>>)
                  \o <<Ins("beq", <<R("p"), R("p"), <<"bbl", 3>> >>)>>,
              call,
              Cat(vs, LAMBDA i, v : <<Store(i, R(v))>>) \o Ret>>, Callees(<<>>, <<>>))
\* Two doubles that live across bbls, next to a float that does not: the first double
\* register is assigned from s3.  The doubles are read from memory; or one of them is an
\* argument, and the float another one, which arrives in s2.
Doubles(ins, first) ==
    LET kinds == ("p" :> "A32") @@ ("q" :> "F64") @@ ("r" :> "F64") @@ ("f" :> "F32") @@ ("t1" :> "F32")
    IN  Fun(ins, <<>>, kinds,
            <<first \o <<Ins("add", <<R("r"), R("q"), R("q")>>), Ins("add", <<R("t1"), R("f"), R("f")>>), Store(1, R("t1")),
                         Ins("beq", <<R("p"), R("p"), <<"bbl", 3>> >>)>>,
              <<>>,
              <<Store(2, R("q")), Store(3, R("r"))>> \o Ret>>, None)
OddStart ==
    Doubles(<<"A32">>, Pop(<<"p">>) \o <<Ins("ld", <<R("q"), R("p"), U(0)>>), Ins("ld", <<R("f"), R("p"), U(8)>>)>>)
GlobalFuns ==
    {Globals("U32", n, call) : n \in {5, 8}, call \in {<<>>, Bsr}} \cup {Globals(k, 3, Bsr) : k \in {"U8", "F32", "F64"}}
    \cup {OddStart}

\* A loop, a switch, a trap, results, and code that the first check refuses.
ControlFuns ==
    LET kinds == ("p" :> "A32") @@ Kinds(<<"a", "b", "i", "s", "t1">>, "U32")
        Code(outs, bbls, more) == Fun(<<"A32", "U32", "U32">>, outs, kinds, bbls, more)
        pop == Pop(<<"p", "a", "b">>)
        bra(n) == <<Ins("bra", << <<"bbl", n>> >>)>>
    IN  {Code(<<>>, <<pop \o <<Ins("mov", <<R("i"), U(3)>>), Ins("mov", <<R("s"), U(0)>>)>>,
                      <<Ins("add", <<R("s"), R("s"), R("a")>>), Ins("sub", <<R("i"), R("i"), U(1)>>),
                        Ins("bne", <<R("i"), U(0), <<"bbl", 2>> >>)>>,
                      <<Store(1, R("s"))>> \o Ret>>, None),
         Code(<<>>, <<pop \o <<Ins("and", <<R("t1"), R("a"), U(1)>>), Ins("switch", <<R("t1"), <<"jtb", "J">> >>)>>,
                      <<Store(1, R("a"))>> \o bra(4), <<Store(2, R("b"))>>, Ret>>, [jtbs |-> ("J" :> <<3, 2>>)]),
         Code(<<>>, <<pop \o <<Ins("blt", <<R("a"), R("b"), <<"bbl", 3>> >>)>>, <<Ins("trap", <<>>)>>, Ret>>, None),
         Code(<<"U32", "A32", "U32">>, <<pop \o Push(<<"a", "p", "b">>) \o Ret>>, None),
         Code(<<"U32">>, <<pop \o Push(<<"p">>) \o Ret>>, None),
         Code(<<>>, <<pop \o Ret \o Ret>>, None),
         Code(<<>>, <<pop \o <<Ins("add", <<R("s"), R("a"), R("p")>>)>> \o Ret>>, None)}
AllFunctions ==
    AluFuns \cup MoveFuns \cup AccessFuns \cup LeaFuns \cup FrameFuns \cup BranchFuns \cup SelectFuns
    \cup CallFuns \cup GlobalFuns \cup ControlFuns

\* Doubles that arrive as arguments and live across bbls: MCGlobalRegs.cfg.
DoubleArguments == {BranchFun("blt", "F64", AB)}

\* A double that moves from d0 to d1 while the float is in s2: for Functions in
\* MCGlobalRegs.cfg it shows what README.md says of legalize.py:337.
DoubleThenFloat == {Doubles(<<"F64", "F32", "A32">>, Pop(<<"q", "f", "p">>))}
=============================================================================
