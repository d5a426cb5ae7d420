--------------------------- MODULE MCReachingDefs ---------------------------
(***************************************************************************)
(* Functions of three bbls and two registers: an entry that defines both,  *)
(* one or none, and two bbls of every kind below; edges make straight      *)
(* lines, diamonds, loops, loops into the middle of the layout and double  *)
(* edges.  The passes do not look at the kinds of registers, so neither    *)
(* does this.                                                              *)
(***************************************************************************)
EXTENDS ReachingDefs

CONSTANTS b1, b2, b3, x, y, m

MCOrder == <<b1, b2, b3>>
MCReg == {x, y}
MCMem == {m}

I(opc, ops) == [opc |-> opc, ops |-> ops]
Arg(r) == I("poparg", <<r>>)
Mov(r, s) == I("mov", <<r, s>>)
Lea(r, s, k) == I("lea", <<r, s, k>>)
LeaMem(r, k) == I("lea_mem", <<r, m, k>>)
Ld(r, s, k) == I("ld", <<r, s, k>>)
St(r, k, s) == I("st", <<r, k, s>>)
Push(s) == I("pusharg", <<s>>)

Entries ==
  {<<>>, <<Arg(x)>>, <<Arg(x), Mov(y, x)>>, <<Arg(y), Mov(x, y), Arg(y)>>, <<Arg(y), Lea(x, y, 4)>>,
   <<LeaMem(x, 4), Mov(y, 0)>>, <<Arg(x), Ld(y, x, 0), Lea(x, y, x)>>}

Middles ==
  {<<>>, <<Push(x), Push(y)>>, <<Mov(x, y), Ld(y, x, 4)>>, <<Lea(y, x, 4), Ld(x, y, 0)>>,
   <<Arg(y), Mov(x, y), Arg(y)>>, <<St(x, 4, y), Lea(x, x, y)>>, <<Mov(y, x)>>,
   <<LeaMem(y, 4), Push(x)>>, <<Ld(x, x, y), Mov(y, 4)>>, <<Lea(x, y, 4), Lea(y, x, 4)>>}

Exits == {<<St(x, 0, y), Ld(y, x, y), Push(y)>>, <<Lea(x, y, 4), Ld(y, x, 0), St(y, 4, x)>>}

Edges ==
  {[f \in Bbl |-> CASE f = b1 -> e[1] [] f = b2 -> e[2] [] f = b3 -> e[3]] : e \in
     {<< <<b2>>, <<b3>>, <<>> >>, << <<b2>>, <<b2, b3>>, <<>> >>, << <<b2, b3>>, <<b3>>, <<>> >>,
      << <<b3>>, <<>>, <<b2, b2>> >>, << <<b3>>, <<b3>>, <<b2>> >>, << <<b2>>, <<b3>>, <<b2>> >>,
      << <<b2, b3>>, <<b3, b3>>, <<b2>> >>}}

MCPrograms ==
  [code : {[f \in Bbl |-> CASE f = b1 -> c1 [] f = b2 -> c2 [] f = b3 -> c3] :
             c1 \in Entries, c2 \in Middles, c3 \in Middles \cup Exits},
   edge_out : Edges]
=============================================================================
