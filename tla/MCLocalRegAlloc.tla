------------------------- MODULE MCLocalRegAlloc -------------------------
(***************************************************************************)
(* Small bbls for the two halves of local register allocation.             *)
(*                                                                         *)
(* Live ranges: every bbl of up to three instructions, and those that end  *)
(* in a ret, with two virtual registers and one bound to machine register  *)
(* 0.                                                                      *)
(*                                                                         *)
(* Scans: straight-line bbls in which instruction k writes register k and  *)
(* reads earlier ones.  Few machine registers make spilling common: two    *)
(* caller-save core registers (0, 1), two callee-save ones (2, 3; 3 holds  *)
(* a global), and two d-registers made of four s-registers (10 to 13).  A  *)
(* call takes its argument and returns its result in unit 0.               *)
(***************************************************************************)
EXTENDS BblLiveRanges

R(n, k) == [name |-> <<0, n>>, kind |-> k]
G(n) == R(n, "gpr")
Arg == R(20, "gpr")
Global == R(21, "gpr")

MCPinned == {Arg, Global}
MCPinnedTo == (Arg :> {0}) @@ (Global :> {3})
MCLiveOut == <<Global>>
MCFunOut == {{0}}
MCCpuRegs == [gpr |-> <<{0}, {1}, {2}, {3}>>,
              f32 |-> <<{10}, {11}, {12}, {13}>>,
              f64 |-> <<{10, 11}, {12, 13}>>]
MCCalleeSave == {2, 3}

Op(id, def, use) == [op |-> "op", id |-> id, def |-> def, use |-> use, cin |-> {}, cout |-> {}]
Call(id) == [op |-> "call", id |-> id, def |-> <<>>, use |-> <<>>, cin |-> {{0}}, cout |-> {{0}}]

Ordered(s) == {<<a, b>> : a, b \in s}
Pairs(rs) == {<<rs[p[1]], rs[p[2]]>> : p \in {q \in Ordered(DOMAIN rs) : q[1] < q[2]}}

(* Only core registers, two at most in each instruction. *)
Straight ==
  {<<Op(1, <<G(1)>>, <<>>), Op(2, <<G(2)>>, <<>>), Op(3, <<G(3)>>, u3), Op(4, <<G(4)>>, u4),
     Op(5, <<>>, u5), Op(6, <<>>, u6)>> :
     u3 \in {<<>>, <<G(1)>>, <<G(2), G(1)>>}, u4 \in {<<>>, <<G(1)>>, <<G(3), G(2)>>},
     u5 \in {<<>>} \cup Ordered({G(n) : n \in 1..4}),
     u6 \in Pairs([n \in 1..4 |-> G(n)])}

(* A call with its argument and result; the global is written last. *)
WithCall ==
  {<<Op(1, <<G(1)>>, <<>>), Op(2, <<G(2)>>, u2), Op(3, <<Arg>>, u3), Call(4),
     Op(5, <<G(5)>>, u5), Op(6, def6, u6)>> :
     u2 \in {<<>>, <<G(1)>>, <<Global>>}, u3 \in {<<G(1)>>, <<G(2)>>},
     u5 \in {<<Arg>>, <<G(1), Arg>>, <<G(2)>>}, def6 \in {<<>>, <<Global>>},
     u6 \in Ordered({G(1), G(2), G(5)})}

(* s- and d-registers share units. *)
Floats ==
  {LET f(n) == R(n, ks[n])
   IN <<Op(1, <<f(1)>>, <<>>), Op(2, <<f(2)>>, <<>>), Op(3, <<f(3)>>, <<f(u3)>>),
        Op(4, <<f(4)>>, <<f(u4)>>), Op(5, <<>>, <<f(u5[1]), f(u5[2])>>), Op(6, <<>>, <<f(u6)>>)>> :
     ks \in [1..4 -> {"f32", "f64"}], u3 \in 1..2, u4 \in 1..3,
     u5 \in {<<4, 3>>, <<2, 3>>, <<1, 2>>}, u6 \in 1..4}

MCBodies == Straight \cup WithCall \cup Floats
-----------------------------------------------------------------------------
va == G(1)
vb == G(2)
vp == Arg

MCRangeReg == {va, vb, vp}

RangeOp(def, use) == Op(1, def, use)
RangeCall(use, cin, cout) == [Call(1) EXCEPT !.use = use, !.cin = cin, !.cout = cout]
Ret == [Op(1, <<>>, <<>>) EXCEPT !.op = "ret"]

Moves == {RangeOp(<<va>>, <<>>), RangeOp(<<va>>, <<va>>), RangeOp(<<vb>>, <<va, vb>>), RangeOp(<<va>>, <<vp>>),
          RangeOp(<<vp>>, <<vb>>), RangeOp(<<>>, <<va, va>>), RangeOp(<<va, vb>>, <<va>>)}
Calls == {RangeCall(<<>>, {{0}}, {}), RangeCall(<<va>>, {}, {{0}}), RangeCall(<<>>, {}, {})}

MCRangeBodies ==
  {<<a, b, c>> : a, b, c \in Moves \cup Calls}
    \cup {<<a, b, c, d>> : a \in Moves, b \in Calls, c \in Moves, d \in Moves \cup {Ret}}
MCRangeLiveOuts == {<<>>, <<va>>, <<vb>>, <<va, vb>>}
=============================================================================
