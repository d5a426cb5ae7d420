------------------------ MODULE LivenessSolverProofs ------------------------
(***************************************************************************)
(* TLAPS proofs about LivenessSolver, for every set of bbls and registers, *)
(* finite or not.                                                          *)
(***************************************************************************)
EXTENDS LivenessSolver, TLAPS

(***************************************************************************)
(* A visit keeps the types.                                                *)
(***************************************************************************)
LEMMA TypeInductive == TypeOK /\ [Next]_vars => TypeOK'
<1> SUFFICES ASSUME TypeOK, [Next]_vars
             PROVE  TypeOK'
  OBVIOUS
<1>1. ASSUME NEW b \in Bbl, Visit(b)
      PROVE  TypeOK'
  <2>1. NeededIn(b, live_out[b]) \subseteq Reg
    BY DEF TypeOK, NeededIn
  <2>2. live_out' \in [Bbl -> SUBSET Reg]
    BY <1>1, <2>1 DEF TypeOK, Visit
  <2>3. active' \subseteq Bbl
    BY <1>1 DEF TypeOK, Visit, Grown
  <2> QED
    BY <1>1, <2>2, <2>3 DEF TypeOK, Visit, program
<1>2. CASE UNCHANGED vars
  BY <1>2 DEF TypeOK, vars
<1> QED
  BY <1>1, <1>2 DEF Next

(***************************************************************************)
(* Type correctness: the live sets stay sets of registers of the function  *)
(* and the worklist stays a set of its bbls (the data of                   *)
(* _FunLivenessFixpoint).                                                  *)
(***************************************************************************)
THEOREM TypeCorrect == Spec => []TypeOK
<1>1. Init => TypeOK
  BY DEF Init, TypeOK
<1> QED
  BY <1>1, TypeInductive, PTL DEF Spec

(***************************************************************************)
(* More live at the end of a bbl never makes it need less on entry: the    *)
(* transfer function of the solver is monotone.                            *)
(***************************************************************************)
LEMMA NeededInMonotone ==
  ASSUME NEW b \in Bbl, NEW small, NEW large, small \subseteq large
  PROVE  NeededIn(b, small) \subseteq NeededIn(b, large)
BY DEF NeededIn

(***************************************************************************)
(* One visit keeps every inactive bbl settled: the bbl just visited has    *)
(* handed over its needs, and a bbl whose own live_out grew is active.     *)
(***************************************************************************)
LEMMA VisitKeepsSettled ==
  ASSUME TypeOK, SettledUnlessActive, NEW v \in Bbl, Visit(v)
  PROVE  SettledUnlessActive'
<1> DEFINE need == NeededIn(v, live_out[v])
<1>1. ASSUME NEW p \in Bbl
      PROVE  /\ live_out[p] \subseteq live_out'[p]
             /\ p \in pred[v] => need \subseteq live_out'[p]
             /\ p \notin Grown(v) => live_out'[p] = live_out[p]
  BY DEF Visit, Grown, TypeOK
<1>2. ASSUME NEW b \in Bbl, NEW out
      PROVE  NeededIn(b, out)' = (out' \ live_def[b]) \cup live_use[b]
  BY DEF Visit, program, NeededIn
<1> SUFFICES ASSUME NEW b \in Bbl, b \notin active', NEW p \in pred[b]
             PROVE  (live_out'[b] \ live_def[b]) \cup live_use[b]
                      \subseteq live_out'[p]
  BY DEF SettledUnlessActive, Visit, program, NeededIn
<1>3. p \in Bbl /\ b \notin Grown(v)
  BY DEF Visit, TypeOK
<1>4. live_out'[b] = live_out[b]
  BY <1>1, <1>3
<1>5. CASE b = v
  BY <1>1, <1>3, <1>4, <1>5 DEF NeededIn
<1>6. CASE b # v
  <2>1. b \notin active
    BY <1>6 DEF Visit
  <2>2. NeededIn(b, live_out[b]) \subseteq live_out[p]
    BY <2>1 DEF SettledUnlessActive
  <2> QED
    BY <1>1, <1>3, <1>4, <2>2 DEF NeededIn
<1> QED
  BY <1>5, <1>6

(***************************************************************************)
(* One visit adds nothing that some solution does without: what it adds is *)
(* needed by the visited bbl in every solution.                            *)
(***************************************************************************)
LEMMA VisitStaysBelow ==
  ASSUME TypeOK, BelowEverySolution, NEW v \in Bbl, Visit(v)
  PROVE  BelowEverySolution'
<1> SUFFICES ASSUME NEW other \in [Bbl -> SUBSET Reg], IsSolution(other)',
                    NEW b \in Bbl
             PROVE  live_out'[b] \subseteq other[b]
  BY DEF BelowEverySolution
<1>1. IsSolution(other)
  BY DEF IsSolution, NeededIn, Visit, program
<1>2. /\ live_out[b] \subseteq other[b]
      /\ live_out[v] \subseteq other[v]
  BY <1>1 DEF BelowEverySolution
<1>3. CASE b \in pred[v]
  <2>1. NeededIn(v, live_out[v]) \subseteq NeededIn(v, other[v])
    BY <1>2, NeededInMonotone
  <2>2. NeededIn(v, other[v]) \subseteq other[b]
    BY <1>1, <1>3 DEF IsSolution
  <2> QED
    BY <1>2, <1>3, <2>1, <2>2 DEF Visit
<1>4. CASE b \notin pred[v]
  BY <1>2, <1>4 DEF Visit
<1> QED
  BY <1>3, <1>4

(***************************************************************************)
(* The inductive invariant: types, settled unless active, and below every  *)
(* solution (each visit of _FunLivenessFixpoint keeps it).                 *)
(***************************************************************************)
THEOREM Invariance == Spec => []IInv
<1>1. Init => IInv
  BY DEF Init, IInv, TypeOK, SettledUnlessActive, BelowEverySolution
<1>2. IInv /\ [Next]_vars => IInv'
  <2> SUFFICES ASSUME IInv, TypeOK', [Next]_vars
               PROVE  IInv'
    BY TypeInductive DEF IInv
  <2>1. ASSUME NEW b \in Bbl, Visit(b)
        PROVE  IInv'
    BY <2>1, VisitKeepsSettled, VisitStaysBelow DEF IInv
  <2>2. CASE UNCHANGED vars
    BY <2>2 DEF IInv, vars, SettledUnlessActive, BelowEverySolution,
                IsSolution, NeededIn
  <2> QED
    BY <2>1, <2>2 DEF Next
<1> QED
  BY <1>1, <1>2, PTL DEF Spec

(***************************************************************************)
(* The solver computes the least solution, in whatever order it visits the *)
(* bbls of any function: the order of `active` in _FunLivenessFixpoint     *)
(* affects only how long it takes.                                         *)
(***************************************************************************)
THEOREM SolverCorrect == Spec => []LeastSolutionAtEnd
<1>1. IInv => LeastSolutionAtEnd
  BY DEF IInv, TypeOK, SettledUnlessActive, BelowEverySolution,
         LeastSolutionAtEnd, IsLeastSolution, IsSolution
<1> QED
  BY <1>1, Invariance, PTL
=============================================================================
