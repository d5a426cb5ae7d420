------------------------------- MODULE MCCfg -------------------------------
(***************************************************************************)
(* Functions of three bbls.  Their bodies mix fall-throughs, returns in    *)
(* the middle, conditional branches followed by code or by a branch,       *)
(* switches, loops, empty bbls and bbls that only branch, trailing ones    *)
(* included.                                                               *)
(***************************************************************************)
EXTENDS Cfg

MCBbl == 1..3

Plain(id) == [k |-> "plain", id |-> id]
Ret(id) == [k |-> "ret", id |-> id]
Cond(op, id, to) == [k |-> "cond", id |-> id, op |-> op, swapped |-> FALSE, to |-> to]
Switch(id) == [k |-> "switch", id |-> id, jtb |-> "j"]

(* The n-th instruction of bbl b. *)
Ids == <<<<"a1", "a2">>, <<"b1", "b2", "b3">>, <<"c1", "c2">>>>
Id(b, n) == Ids[b][n]
MCName == UNION {ToSet(Ids[b]) : b \in MCBbl}

Entries ==
  {<<Plain(Id(1, 1))>>, <<Switch(Id(1, 1))>>}
    \cup {<<Cond("ble", Id(1, 1), t), Bra(u)>> : t, u \in {2, 3}}
    \cup {<<Plain(Id(1, 1)), Cond("beq", Id(1, 2), t)>> : t \in MCBbl}

Middles ==
  {<<>>, <<Plain(Id(2, 1))>>, <<Switch(Id(2, 1)), Plain(Id(2, 2))>>,
   <<Plain(Id(2, 1)), Ret(Id(2, 2)), Plain(Id(2, 3))>>}
    \cup {<<Bra(t)>> : t \in MCBbl}
    \cup {<<Plain(Id(2, 1)), Bra(t)>> : t \in MCBbl}
    \cup {<<Cond("blt", Id(2, 1), t), Bra(u)>> : t, u \in MCBbl}
    \cup {<<Cond("bne", Id(2, 1), t), Plain(Id(2, 2))>> : t \in MCBbl}

Ends ==
  {<<>>, <<Plain(Id(3, 1)), Ret(Id(3, 2))>>, <<Bra(1)>>, <<Bra(2)>>,
   <<Plain(Id(3, 1)), Bra(2)>>, <<Cond("bne", Id(3, 1), 2), Ret(Id(3, 2))>>,
   <<Cond("ble", Id(3, 1), 1), Bra(2)>>}

MCJtb == {[j |-> [def |-> 2, tab |-> <<3, 2>>]], [j |-> [def |-> 3, tab |-> <<3, 1>>]]}

MCFunctions ==
  {[bbls |-> <<1, 2, 3>>, inss |-> <<e, m, z>>, jtb |-> j] :
     e \in Entries, m \in Middles, z \in Ends, j \in MCJtb}

(* A function that may spin in a bbl that only branches to itself. *)
MCSpinning ==
  {[bbls |-> <<1, 2, 3>>, inss |-> <<<<Cond("beq", Id(1, 1), 2), Ret(Id(1, 2))>>, <<Bra(2)>>,
                               <<Ret(Id(3, 1))>>>>, jtb |-> <<>>]}

MCOrders == {"lt", "eq", "gt"}
=============================================================================
