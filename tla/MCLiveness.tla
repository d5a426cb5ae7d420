----------------------------- MODULE MCLiveness -----------------------------
(***************************************************************************)
(* Small functions for Liveness.                                           *)
(*                                                                         *)
(* A function has an entry, a middle and an exit bbl.  The edges of the    *)
(* first two range over loops, a self loop, a diamond edge and a double    *)
(* edge; bodies mix dead code, updates in place, writes that hide a read,  *)
(* a store and a call that returns a result.                               *)
(***************************************************************************)
EXTENDS Liveness

CONSTANTS b1, b2, b3, x, y

MCBbl == {b1, b2, b3}
MCOrder == <<b1, b2, b3>>
MCReg == {x, y}

I(def, use, res, effect) == [def |-> def, use |-> use, res |-> res, effect |-> effect]
Copy(r, s) == I({r}, {s}, {}, FALSE)
Const(r) == I({r}, {}, {}, FALSE)
Add(r, s) == I({r}, {r, s}, {}, FALSE)
Store(r) == I({}, {r}, {}, TRUE)
Call(res) == I({}, {}, res, TRUE)

MCBodies == {<<Copy(x, y)>>, <<Add(y, x)>>, <<Const(x), Add(x, y), Store(x)>>,
             <<Store(x), Const(x)>>, <<Call({y})>>, <<>>}

(* Successor lists of the first two bbls; b3 returns. *)
SuccLists == {<<b2>>, <<b1, b3>>, <<b2, b3>>, <<b3, b3>>, <<b1, b2>>}

(* The edge_in lists AddEdgeOut builds from the successor lists. *)
EdgeIn(succ) ==
  [b \in MCBbl |->
     FlattenSeq([n \in 1..3 |->
       LET s == succ[MCOrder[n]]
       IN [k \in 1..Len(SelectSeq(s, LAMBDA t : t = b)) |-> MCOrder[n]]])]

MCCfgs == {EdgeIn((b1 :> s1) @@ (b2 :> s2) @@ (b3 :> <<>>)) : s1, s2 \in SuccLists}

=============================================================================
