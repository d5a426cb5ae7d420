----------------------------- MODULE MCRegTable -----------------------------
(***************************************************************************)
(* Five registers.  One function uses five names, so that nodes with two   *)
(* children, deep successors and every rotation occur; names meet handles, *)
(* and so priorities, in every order.  The other uses one of the names, to *)
(* share the group; it may make that name up although it is taken.         *)
(***************************************************************************)
EXTENDS RegTable

CONSTANTS f1, f2

MCFun == {f1, f2}
MCNames == [f \in MCFun |-> IF f = f1 THEN 1..5 ELSE {}]
MCScratch == [f \in MCFun |-> IF f = f1 THEN {} ELSE {1}]
MCPrio == <<1, 3, 2, 3, 2>>
=============================================================================
