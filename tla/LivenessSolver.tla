--------------------------- MODULE LivenessSolver ---------------------------
(***************************************************************************)
(* What the backward data-flow solver of Base/liveness promises, whatever  *)
(* the order in which it takes the basic blocks (bbls) from its worklist.  *)
(* The Python and the C++ solver differ in that order, in what they keep   *)
(* on the worklist and in whether they remember live_in; both are          *)
(* implementations of this module (Liveness, for both languages).         *)
(*                                                                         *)
(* A register is live at the end of a bbl when some path from there reads  *)
(* it before writing it.  pred, live_def and live_use describe the program *)
(* and never change; they are variables so that one run of TLC can start   *)
(* from many programs.                                                     *)
(***************************************************************************)
EXTENDS FiniteSets

CONSTANTS Bbl,  (* the bbls of one function         *)
          Reg   (* the registers of that function   *)

VARIABLES
  pred,      (* pred[b]: the bbls with an edge to b                         *)
  live_def,  (* live_def[b]: registers b writes                             *)
  live_use,  (* live_use[b]: registers b reads before it writes them        *)
  live_out,  (* live_out[b]: registers found live at the end of b           *)
  active     (* bbls whose contribution to their predecessors may be stale  *)

program == <<pred, live_def, live_use>>
vars == <<pred, live_def, live_use, live_out, active>>

(* What b needs on entry when `out` is live at its end. *)
NeededIn(b, out) == (out \ live_def[b]) \cup live_use[b]

Init ==
  /\ pred \in [Bbl -> SUBSET Bbl]
  /\ live_def \in [Bbl -> SUBSET Reg]
  /\ live_use \in [Bbl -> SUBSET Reg]
  /\ live_out = [b \in Bbl |-> {}]
  /\ active = Bbl

(* The bbls whose live_out grows when b hands its needs to its preds. *)
Grown(b) == {p \in pred[b] : ~(NeededIn(b, live_out[b]) \subseteq live_out[p])}

(***************************************************************************)
(* Take an active bbl and merge what it needs into its predecessors; the   *)
(* ones that grew become active.  The bbl itself may stay active: a        *)
(* worklist with duplicates still holds the other copy.                    *)
(***************************************************************************)
Visit(b) ==
  /\ b \in active
  /\ live_out' = [p \in Bbl |-> IF p \in pred[b]
                                THEN live_out[p] \cup NeededIn(b, live_out[b])
                                ELSE live_out[p]]
  /\ active' \in {(active \ {b}) \cup Grown(b), active \cup Grown(b)}
  /\ UNCHANGED program

Next == \E b \in Bbl : Visit(b)

Spec == Init /\ [][Next]_vars

-----------------------------------------------------------------------------
(* Every bbl's needs are met by each of its predecessors. *)
IsSolution(out) ==
  \A b \in Bbl : \A p \in pred[b] : NeededIn(b, out[b]) \subseteq out[p]

(* The smallest such assignment: no register is live without a reason. *)
IsLeastSolution(out) ==
  /\ IsSolution(out)
  /\ \A other \in [Bbl -> SUBSET Reg] :
        IsSolution(other) => \A b \in Bbl : out[b] \subseteq other[b]

TypeOK ==
  /\ pred \in [Bbl -> SUBSET Bbl]
  /\ live_def \in [Bbl -> SUBSET Reg]
  /\ live_use \in [Bbl -> SUBSET Reg]
  /\ live_out \in [Bbl -> SUBSET Reg]
  /\ active \subseteq Bbl

(* A bbl that left the worklist has told its predecessors all it needs. *)
SettledUnlessActive ==
  \A b \in Bbl \ active : \A p \in pred[b] :
    NeededIn(b, live_out[b]) \subseteq live_out[p]

(* The solver never marks a register live that no solution needs. *)
BelowEverySolution ==
  \A other \in [Bbl -> SUBSET Reg] :
    IsSolution(other) => \A b \in Bbl : live_out[b] \subseteq other[b]

(***************************************************************************)
(* What every visit of _FunLivenessFixpoint preserves, and what makes an   *)
(* empty worklist mean "done".                                             *)
(***************************************************************************)
IInv == TypeOK /\ SettledUnlessActive /\ BelowEverySolution

(***************************************************************************)
(* The solver's promise (the while loop of _FunLivenessFixpoint): when the *)
(* worklist is empty the live_out sets are the least solution of the       *)
(* liveness equations, for every order in which bbls were visited.         *)
(***************************************************************************)
LeastSolutionAtEnd == active = {} => IsLeastSolution(live_out)
=============================================================================
