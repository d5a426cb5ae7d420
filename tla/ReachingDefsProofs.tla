------------------------- MODULE ReachingDefsProofs -------------------------
(***************************************************************************)
(* The solver of ReachingDefs, for every function, with loops, undefined   *)
(* registers and any layout, in Python and in the port: every visit makes  *)
(* progress, and when the worklist is empty each use has got exactly the   *)
(* definition that reaches it on all paths.  Then the rewrites: none looks *)
(* up a register that has no definition.  Only this last part uses that    *)
(* every bbl can be reached.                                               *)
(***************************************************************************)
EXTENDS ReachingDefs, FoldTheorems

(* How SameDef compares while the solver runs: no operand has a definition *)
(* yet, so two instructions are equal in Python when they are written      *)
(* alike.                                                                  *)
Same(x, y) ==
  \/ x = y
  \/ lang = "py" /\ x \in Places /\ y \in Places /\ SameText(x, y)

(* The code the solver reads. *)
Fresh(ins) == [opc |-> ins.opc, ops |-> ins.ops, defs |-> [n \in DOMAIN ins.ops |-> INVALID]]
FreshCode ==
  [b \in Bbl |-> [i \in DOMAIN source.code[b] |-> Fresh(source.code[b][i])]]

Own(b, r) == LastDef(source.code, b, r)

(* Some bbl reads r before it writes it. *)
ReadSomewhere(r) == \E c \in Bbl : ReadFirst(source.code[c], r)

-----------------------------------------------------------------------------
(* The inductive invariant of the solver. *)

SolverTypes ==
  /\ lang \in {"py", "cc"} /\ source \in Programs /\ code = FreshCode
  /\ defs_in \in [Bbl -> [Reg -> Definition]]
  /\ defs_out \in [Bbl -> [Reg -> Definition]]
  /\ active \in Seq(Bbl) /\ active_set \subseteq ToSet(active)

(* What left a bbl is its own last definition, or what came in when it was *)
(* visited: that may only have moved to the top since.                     *)
Carried ==
  \A b \in Bbl, r \in Reg :
    \/ defs_out[b][r] = NoDef
    \/ Own(b, r) # NoDef /\ defs_out[b][r] = Own(b, r)
    \/ Own(b, r) = NoDef /\ (defs_out[b][r] = defs_in[b][r] \/ defs_in[b][r] = b)

(* What a bbl that is not on the worklist would let out, it has let out.   *)
SettledUnlessActive ==
  \A b \in Bbl : b \notin ToSet(active) =>
    \A r \in Reg : Same(NewOut(b)[r], defs_out[b][r])

(* What left a bbl has been merged into its successors. *)
Covers(x, y, top) == y = NoDef \/ x = top \/ (x # NoDef /\ Same(x, y))
Merged ==
  \A b \in Bbl : \A s \in Succ(b), r \in Reg : Covers(defs_in[s][r], defs_out[b][r], s)

(* A bbl stands for several definitions only where several meet: different *)
(* ones, or in Python one and the undefined value.                         *)
Several(defs) ==
  \/ lang = "py" /\ NoDef \in defs
  \/ \E g, k \in defs \ {NoDef} : ~Same(g, k)
Justified(b, r, d) ==
  \/ d = NoDef
  \/ d \in Reaching(r)[b]
  \/ d \in Bbl /\ Several(Reaching(r)[b])
AllJustified == \A b \in Bbl, r \in Reg : Justified(b, r, defs_in[b][r])

(* In Python a register that some bbl reads first is defined by the first  *)
(* bbl of the function.                                                    *)
UndefinedKnown ==
  lang = "py" => \A r \in Reg : ReadSomewhere(r) => defs_in[First][r] = First

SolverInv ==
  SolverTypes /\ Carried /\ SettledUnlessActive /\ Merged /\ AllJustified /\ UndefinedKnown

IInv == (pc = "fixpoint" => SolverInv) /\ DefsExact

-----------------------------------------------------------------------------
(* Functions, instructions and their places. *)

(* What Programs says of a function: its instructions are typed, its       *)
(* places are pairs, and neither a bbl nor the undefined value is a place. *)
LEMMA Shape ==
  ASSUME source \in Programs
  PROVE  /\ First \in Bbl /\ NoDef \notin Bbl /\ NoDef \notin Places /\ Bbl \cap Places = {}
         /\ \A b \in Bbl : /\ source.code[b] \in Seq(Instruction)
                           /\ Len(source.code[b]) \in Nat
                           /\ DOMAIN source.code[b] = 1 .. Len(source.code[b])
                           /\ source.edge_out[b] \in Seq(Bbl)
         /\ \A h \in Places : /\ h = <<h[1], h[2]>> /\ h[1] \in Bbl
                              /\ h[2] \in DOMAIN source.code[h[1]]
                              /\ At(source.code, h) \in Instruction
         /\ \A b \in Bbl : \A i \in DOMAIN source.code[b] : <<b, i>> \in Places
<1>1. source \in [code : [Bbl -> Seq(Instruction)], edge_out : [Bbl -> Seq(Bbl)]]
  BY ReachingDefsAssumption
<1>2. First \in Bbl
  BY ReachingDefsAssumption DEF First
<1>3. ASSUME NEW b \in Bbl
      PROVE  /\ source.code[b] \in Seq(Instruction)
             /\ Len(source.code[b]) \in Nat
             /\ DOMAIN source.code[b] = 1 .. Len(source.code[b])
             /\ source.edge_out[b] \in Seq(Bbl)
  BY <1>1
<1>4. ASSUME NEW h \in Places
      PROVE  /\ h = <<h[1], h[2]>> /\ h[1] \in Bbl /\ h[2] \in DOMAIN source.code[h[1]]
             /\ At(source.code, h) \in Instruction /\ h \in Bbl \X Nat
  <2>1. PICK b \in Bbl : h \in {<<b, i>> : i \in DOMAIN source.code[b]}
    BY DEF Places
  <2>2. PICK i \in DOMAIN source.code[b] : h = <<b, i>>
    BY <2>1
  <2>3. h[1] = b /\ h[2] = i /\ i \in 1 .. Len(source.code[b])
    BY <1>3, <2>2
  <2>4. source.code[b][i] \in Instruction
    BY <1>3, <2>3
  <2> QED
    BY <1>3, <2>2, <2>3, <2>4 DEF At
<1>5. \A b \in Bbl : \A i \in DOMAIN source.code[b] : <<b, i>> \in Places
  BY DEF Places
<1>6. NoDef \notin Bbl /\ NoDef \notin Places /\ Bbl \cap Places = {}
  BY <1>4, ReachingDefsAssumption
<1> HIDE DEF Places
<1> QED
  BY <1>2, <1>3, <1>4, <1>5, <1>6

(* The solver's code is the source's. *)
LEMMA CodeShape ==
  ASSUME source \in Programs, code = FreshCode
  PROVE  /\ \A b \in Bbl : Len(code[b]) = Len(source.code[b]) /\ DOMAIN code[b] = DOMAIN source.code[b]
         /\ \A b \in Bbl : \A i \in DOMAIN source.code[b] :
              code[b][i] = Fresh(source.code[b][i])
         /\ \A h \in Places : At(code, h) = Fresh(At(source.code, h))
<1>1. ASSUME NEW b \in Bbl
      PROVE  /\ Len(code[b]) = Len(source.code[b]) /\ DOMAIN code[b] = DOMAIN source.code[b]
             /\ \A i \in DOMAIN source.code[b] : code[b][i] = Fresh(source.code[b][i])
  <2> DEFINE n == Len(source.code[b])
             S == {Fresh(source.code[b][i]) : i \in 1 .. n}
  <2>1. n \in Nat /\ DOMAIN source.code[b] = 1 .. n
    BY Shape
  <2> HIDE DEF n
  <2>2. code[b] = [i \in 1 .. n |-> Fresh(source.code[b][i])]
    BY <2>1 DEF FreshCode
  <2>3. code[b] \in [1 .. n -> S] /\ \A i \in 1 .. n : code[b][i] = Fresh(source.code[b][i])
    BY <2>2
  <2> HIDE DEF S
  <2>4. Len(code[b]) = n
    BY <2>1, <2>3
  <2> QED
    BY <2>1, <2>3, <2>4 DEF n
<1>2. ASSUME NEW h \in Places
      PROVE  At(code, h) = Fresh(At(source.code, h))
  BY <1>1, Shape DEF At
<1> QED
  BY <1>1, <1>2

-----------------------------------------------------------------------------
(* The last place at which something is so. *)
LEMMA Latest ==
  ASSUME NEW n \in Nat, NEW I \in SUBSET (1 .. n), I # {}
  PROVE  Max(I) \in I /\ Max(I) \in 1 .. n /\ \A k \in I : k <= Max(I)
<1> DEFINE T == {n - k : k \in I}
<1>1. T \subseteq Nat /\ T # {}
  OBVIOUS
<1>2. PICK t \in T : \A u \in T : t <= u
  <2> HIDE DEF T
  <2> QED
    BY <1>1, Least
<1>3. PICK m \in I : t = n - m
  OBVIOUS
<1>4. \A k \in I : m >= k
  <2> SUFFICES ASSUME NEW k \in I
               PROVE  m >= k
    OBVIOUS
  <2>1. n - m <= n - k
    BY <1>2, <1>3
  <2>2. m \in Nat /\ k \in Nat
    OBVIOUS
  <2> QED
    BY <2>1, <2>2
<1>5. Max(I) \in I /\ \A k \in I : Max(I) >= k
  BY <1>4 DEF Max
<1> QED
  BY <1>5

(* LastDef finds the last instruction of a bbl that defines r. *)
Definers(body, r) == {i \in 1 .. Len(body) : Defines(body[i], r)}

(* It is the last place of the bbl that defines r, if there is one. *)
LEMMA LastDefIs ==
  ASSUME NEW c, NEW b \in Bbl, NEW r, Len(c[b]) \in Nat
  PROVE  /\ Definers(c[b], r) = {} => LastDef(c, b, r) = NoDef
         /\ Definers(c[b], r) # {} => LastDef(c, b, r) = <<b, Max(Definers(c[b], r))>>
<1> DEFINE n == Len(c[b])
           I == {i \in 1 .. n : Defines(c[b][i], r)}
           last == SelectLastInSubSeq(c[b], 1, Len(c[b]), LAMBDA ins : Defines(ins, r))
<1>1. I = Definers(c[b], r) /\ n \in Nat
  BY DEF Definers
<1>2. last = IF I # {} THEN Max(I) ELSE 0
  BY DEF SelectLastInSubSeq
<1>3. LastDef(c, b, r) = IF last = 0 THEN NoDef ELSE <<b, last>>
  BY DEF LastDef
<1> HIDE DEF I, last, n
<1>4. I # {} => Max(I) # 0
  <2>1. I \in SUBSET (1 .. n)
    BY DEF I
  <2> QED
    BY <1>1, <2>1, Latest
<1> QED
  BY <1>1, <1>2, <1>3, <1>4

(* The last definition of a bbl is the same in the source and in the code  *)
(* of the solver.                                                          *)
LEMMA OwnIs ==
  ASSUME source \in Programs, code = FreshCode, NEW b \in Bbl, NEW r
  PROVE  /\ LastDef(code, b, r) = Own(b, r)
         /\ Own(b, r) = NoDef \/ Own(b, r) \in Places
         /\ Own(b, r) = NoDef <=> Definers(source.code[b], r) = {}
<1>1. /\ Len(code[b]) = Len(source.code[b]) /\ Len(source.code[b]) \in Nat
      /\ DOMAIN source.code[b] = 1 .. Len(source.code[b])
      /\ \A i \in 1 .. Len(source.code[b]) : code[b][i] = Fresh(source.code[b][i])
  BY Shape, CodeShape
<1>2. \A ins : Defines(Fresh(ins), r) <=> Defines(ins, r)
  BY DEF Defines, Fresh
<1>3. Definers(code[b], r) = Definers(source.code[b], r)
  BY <1>1, <1>2 DEF Definers
<1> DEFINE D == Definers(source.code[b], r)
<1>7. /\ D = {} => Own(b, r) = NoDef
      /\ D # {} => Own(b, r) = <<b, Max(D)>>
  <2> DEFINE c == source.code
  <2>1. Len(c[b]) \in Nat /\ D = Definers(c[b], r) /\ Own(b, r) = LastDef(c, b, r)
    BY <1>1 DEF Own
  <2> HIDE DEF c, D
  <2> QED
    BY <2>1, LastDefIs
<1>8. /\ D = {} => LastDef(code, b, r) = NoDef
      /\ D # {} => LastDef(code, b, r) = <<b, Max(D)>>
  <2>1. Len(code[b]) \in Nat /\ D = Definers(code[b], r)
    BY <1>1, <1>3
  <2> HIDE DEF D
  <2> QED
    BY <2>1, LastDefIs
<1>4. LastDef(code, b, r) = Own(b, r)
  BY <1>7, <1>8
<1>5. ASSUME Definers(source.code[b], r) # {}
      PROVE  Own(b, r) \in Places
  <2>1. Definers(source.code[b], r) \in SUBSET (1 .. Len(source.code[b]))
    BY DEF Definers
  <2>2. Max(Definers(source.code[b], r)) \in 1 .. Len(source.code[b])
    BY <1>1, <1>5, <2>1, Latest
  <2> QED
    BY <1>1, <1>5, <1>7, <2>2, Shape
<1>6. NoDef \notin Places
  BY Shape
<1> QED
  BY <1>1, <1>4, <1>5, <1>6, <1>7

(* A function has finitely many places, so comparing definitions ends. *)
LEMMA FinitePlaces ==
  ASSUME source \in Programs
  PROVE  IsFiniteSet(Bbl) /\ Cardinality(Bbl) \in Nat /\ Cardinality(Places) \in Nat
<1>1. /\ Len(Order) \in Nat /\ Order \in [1 .. Len(Order) -> Bbl]
      /\ \A b \in Bbl : \E i \in 1 .. Len(Order) : Order[i] = b
  BY ReachingDefsAssumption DEF Bbl, ToSet
<1>2. Order \in Surjection(1 .. Len(Order), Bbl)
  BY <1>1 DEF Surjection
<1>3. IsFiniteSet(Bbl)
  BY <1>1, <1>2, FS_NatSurjection DEF ExistsSurjection
<1> DEFINE In(b) == {<<b, i>> : i \in DOMAIN source.code[b]}
           Ins == {In(b) : b \in Bbl}
<1>4. IsFiniteSet(Ins)
  <2> DEFINE f == [b \in Bbl |-> In(b)]
  <2> HIDE DEF In
  <2>1. f \in Surjection(Bbl, Ins)
    BY DEF Surjection
  <2> HIDE DEF f, Ins
  <2> QED
    BY <1>3, <2>1, FS_Surjection
<1>5. ASSUME NEW b \in Bbl
      PROVE  IsFiniteSet(In(b))
  <2> DEFINE D == DOMAIN source.code[b]
             f == [i \in D |-> <<b, i>>]
  <2>1. IsFiniteSet(D)
    <3> DEFINE n == Len(source.code[b])
    <3>1. n \in Int /\ 1 \in Int /\ D = 1 .. n
      BY Shape
    <3> HIDE DEF n, D
    <3> QED
      BY <3>1, FS_Interval
  <2>2. f \in Surjection(D, In(b))
    BY DEF Surjection
  <2> HIDE DEF f, D, In
  <2> QED
    BY <2>1, <2>2, FS_Surjection
<1>6. \A T \in Ins : IsFiniteSet(T)
  BY <1>5
<1>7. Places = UNION Ins
  BY DEF Places
<1> HIDE DEF Ins
<1>8. IsFiniteSet(Places)
  BY <1>4, <1>6, <1>7, FS_UNION
<1> QED
  BY <1>3, <1>8, FS_CardinalityType

-----------------------------------------------------------------------------
(* Comparing definitions. *)

(* While the solver runs SameDef, as deep as it looks, is Same. *)
LEMMA SameDefIs ==
  ASSUME source \in Programs, code = FreshCode, NEW x, NEW y
  PROVE  SameDef(code, x, y) <=> Same(x, y)
<1> DEFINE pairs == {p \in Places \X Places : Alike(code, p[1], p[2])}
           Deeper(shallow) ==
             {p \in shallow : \A k \in DOMAIN At(code, p[1]).defs :
                \/ At(code, p[1]).defs[k] = At(code, p[2]).defs[k]
                \/ <<At(code, p[1]).defs[k], At(code, p[2]).defs[k]>> \in shallow}
           F(h) == [n \in Nat |-> IF n = 0 THEN pairs ELSE Deeper(h[n - 1])]
           equal == CHOOSE h : h = F(h)
           const == [n \in Nat |-> pairs]
<1>1. \A h \in Places : At(code, h) = Fresh(At(source.code, h))
                        /\ At(source.code, h) \in Instruction
  BY Shape, CodeShape
<1>2. Deeper(pairs) = pairs
  <2> SUFFICES ASSUME NEW p \in pairs, NEW k \in DOMAIN At(code, p[1]).defs
               PROVE  At(code, p[1]).defs[k] = At(code, p[2]).defs[k]
    OBVIOUS
  <2>1. p[1] \in Places /\ p[2] \in Places /\ At(code, p[1]).ops = At(code, p[2]).ops
    BY DEF Alike
  <2> QED
    BY <1>1, <2>1 DEF Fresh
<1> HIDE DEF pairs, Deeper
<1>3. const = F(const)
  <2>1. \A n \in Nat : const[n] = pairs
    OBVIOUS
  <2>2. \A n \in Nat : n # 0 => n - 1 \in Nat
    OBVIOUS
  <2> QED
    BY <1>2, <2>1, <2>2
<1> HIDE DEF const
<1>4. equal = F(equal)
  <2> HIDE DEF F
  <2> QED
    BY <1>3, Zenon
<1> HIDE DEF equal
<1>5. \A n \in Nat : equal[n] = IF n = 0 THEN pairs ELSE Deeper(equal[n - 1])
  BY <1>4
<1>6. Nat \subseteq {n \in Nat : equal[n] = pairs}
  <2> DEFINE S == {n \in Nat : equal[n] = pairs}
  <2>1. 0 \in S
    BY <1>5
  <2>2. ASSUME NEW n \in Nat, n \in S
        PROVE  n + 1 \in S
    <3>1. n + 1 \in Nat /\ n + 1 # 0 /\ (n + 1) - 1 = n
      OBVIOUS
    <3>2. equal[n + 1] = Deeper(equal[n])
      BY <1>5, <3>1
    <3> QED
      BY <1>2, <2>2, <3>1, <3>2
  <2> HIDE DEF S
  <2>3. Nat \subseteq S
    BY <2>1, <2>2, Induction
  <2> QED
    BY <2>3 DEF S
<1>7. equal[Cardinality(Places)] = pairs
  BY <1>6, FinitePlaces
<1>8. SameDef(code, x, y) <=>
        \/ x = y
        \/ /\ lang = "py" /\ IsIns(x) /\ IsIns(y)
           /\ Alike(code, x, y) /\ <<x, y>> \in equal[Cardinality(Places)]
  BY Zenon DEF SameDef, equal, pairs, Deeper
<1>9. IsIns(x) /\ IsIns(y) /\ Alike(code, x, y) => <<x, y>> \in pairs
  BY DEF IsIns, pairs
<1>10. ASSUME x \in Places, y \in Places
       PROVE  Alike(code, x, y) <=> SameText(x, y)
  <2>1. /\ At(code, x).opc = At(source.code, x).opc /\ At(code, x).ops = At(source.code, x).ops
        /\ At(code, y).opc = At(source.code, y).opc /\ At(code, y).ops = At(source.code, y).ops
    BY <1>1, <1>10 DEF Fresh
  <2> DEFINE g == At(source.code, x)
             k == At(source.code, y)
  <2>2. g \in Instruction /\ k \in Instruction
    BY <1>1, <1>10
  <2> HIDE DEF g, k
  <2>3. g = k <=> g.opc = k.opc /\ g.ops = k.ops
    BY <2>2 DEF Instruction
  <2> QED
    BY <2>1, <2>3 DEF Alike, SameText, g, k
<1> QED
  BY <1>7, <1>8, <1>9, <1>10 DEF IsIns, Same

(* Being written alike is an equivalence, so definitions may be compared *)
(* in any order.                                                         *)
LEMMA SameIsEquivalence ==
  /\ \A x : Same(x, x)
  /\ \A x, y : Same(x, y) => Same(y, x)
  /\ \A x, y, z : Same(x, y) /\ Same(y, z) => Same(x, z)
BY DEF Same, SameText

-----------------------------------------------------------------------------
(* A visit pushes the successors whose map changes. *)
LEMMA PushedIs ==
  ASSUME source \in Programs, NEW b \in Bbl, NEW out, NEW set
  PROVE  /\ Pushed(b, out, set) \in Seq(Bbl)
         /\ \A s \in Succ(b), r \in Reg :
              Changes(defs_in[s][r], out[r], s) /\ (lang = "cc" => s \notin set)
                => s \in ToSet(Pushed(b, out, set))
<1> DEFINE succ == source.edge_out[b]
           now(k, r) == LET old == defs_in[succ[k]][r]
                        IN IF \E j \in 1 .. (k - 1) : succ[j] = succ[k]
                           THEN Join(old, out[r], succ[k]) ELSE old
           change(k) == /\ \E r \in Reg : Changes(now(k, r), out[r], succ[k])
                        /\ lang = "cc" => succ[k] \notin set
           seqs == [k \in DOMAIN succ |-> IF change(k) THEN <<succ[k]>> ELSE <<>>]
           n == Len(succ)
<1>1. Pushed(b, out, set) = FlattenSeq(seqs)
  BY DEF Pushed
<1>2. n \in Nat /\ DOMAIN succ = 1 .. n /\ succ \in Seq(Bbl) /\ \A k \in 1 .. n : succ[k] \in Bbl
  BY Shape
<1>3. /\ seqs = [k \in 1 .. n |-> seqs[k]]
      /\ \A k \in 1 .. n : seqs[k] = IF change(k) THEN <<succ[k]>> ELSE <<>>
  BY <1>2
<1> HIDE DEF change, seqs, n
<1>4. ASSUME NEW k \in 1 .. n
      PROVE  seqs[k] \in Seq(Bbl)
  <2>1. <<succ[k]>> \in Seq(Bbl) /\ <<>> \in Seq(Bbl)
    BY <1>2
  <2> QED
    BY <1>3, <2>1
<1>5. /\ seqs \in Seq(Bbl \X Nat \cup Seq(Bbl)) /\ Len(seqs) = n /\ DOMAIN seqs = 1 .. n
      /\ Len(seqs) = 0 => seqs = <<>>
  <2> DEFINE S == Bbl \X Nat \cup Seq(Bbl)
  <2>1. \A k \in 1 .. n : seqs[k] \in S
    BY <1>4
  <2> HIDE DEF S
  <2>2. seqs \in [1 .. n -> S]
    BY <1>3, <2>1
  <2>3. seqs \in Seq(S) /\ Len(seqs) = n
    BY <1>2, <2>2
  <2> QED
    BY <2>2, <2>3 DEF S
<1>6. /\ FlattenSeq(seqs) \in Seq(Bbl)
      /\ \A k \in 1 .. n : ToSet(seqs[k]) \subseteq ToSet(FlattenSeq(seqs))
  <2>1. /\ Len(seqs) \in Nat /\ DOMAIN seqs = 1 .. Len(seqs)
        /\ \A k \in 1 .. Len(seqs) : seqs[k] \in Seq(Bbl)
    BY <1>2, <1>4, <1>5
  <2> QED
    BY <1>5, <2>1, FlatteningHolds
<1>7. ASSUME NEW s \in Succ(b), NEW r \in Reg, Changes(defs_in[s][r], out[r], s),
             lang = "cc" => s \notin set
      PROVE  s \in ToSet(Pushed(b, out, set))
  <2> DEFINE T == {k \in 1 .. n : succ[k] = s}
  <2>1. T \subseteq Nat /\ T # {}
    BY <1>2 DEF Succ, ToSet
  <2>2. PICK k \in T : \A j \in T : k <= j
    <3> HIDE DEF T
    <3> QED
      BY <2>1, Least
  <2>3. k \in 1 .. n /\ succ[k] = s
    OBVIOUS
  <2>4. ~\E j \in 1 .. (k - 1) : succ[j] = succ[k]
    <3> SUFFICES ASSUME NEW j \in 1 .. (k - 1), succ[j] = succ[k]
                 PROVE  FALSE
      OBVIOUS
    <3>1. j \in 1 .. n /\ ~(k <= j)
      BY <1>2, <2>3
    <3> QED
      BY <2>2, <2>3, <3>1
  <2>5. now(k, r) = defs_in[s][r]
    BY <2>3, <2>4
  <2>6. change(k)
    BY <1>7, <2>3, <2>5 DEF change
  <2>7. seqs[k] = <<s>>
    BY <1>3, <2>3, <2>6
  <2>8. s \in ToSet(seqs[k])
    BY <2>7 DEF ToSet
  <2> QED
    BY <1>1, <1>6, <2>3, <2>8
<1> QED
  BY <1>1, <1>6, <1>7

-----------------------------------------------------------------------------
(* The definitions that reach a bbl. *)

Fact == Places \cup {NoDef}
LetOut(in, b, r) == IF Own(b, r) # NoDef THEN {Own(b, r)} ELSE in[b]
Further(in, r) ==
  [b \in Bbl |-> in[b] \cup UNION {LetOut(in, p, r) : p \in {q \in Bbl : b \in Succ(q)}}]
AtStart == [b \in Bbl |-> IF b = First THEN {NoDef} ELSE {}]

(* The rounds by which Reaching is computed. *)
ReachingRounds(r) ==
  {w \in [0 .. Cardinality(Bbl) -> [Bbl -> SUBSET Fact]] :
     /\ w[0] = AtStart /\ w[Cardinality(Bbl)] = Reaching(r)
     /\ \A k \in 1 .. Cardinality(Bbl) : w[k] = Further(w[k - 1], r)}

(* A round of Reaching yields facts. *)
LEMMA FurtherTypes ==
  ASSUME source \in Programs, code = FreshCode, NEW r, NEW in \in [Bbl -> SUBSET Fact]
  PROVE  Further(in, r) \in [Bbl -> SUBSET Fact]
<1>1. \A p \in Bbl : LetOut(in, p, r) \subseteq Fact
  BY OwnIs DEF LetOut, Fact
<1>2. \A b \in Bbl : Further(in, r)[b] \subseteq Fact
  BY <1>1 DEF Further
<1> QED
  BY <1>2 DEF Further

(* Reaching is the last of these rounds: what a round adds stays, and the *)
(* bbls bound their number.                                               *)
LEMMA ReachingLoop ==
  ASSUME source \in Programs, code = FreshCode, NEW r
  PROVE  \E w : w \in ReachingRounds(r)
<1> DEFINE N == Cardinality(Bbl)
           F(h) == [n \in 0 .. N |-> IF n = 0 THEN AtStart ELSE Further(h[n - 1], r)]
           fold == CHOOSE h : h = F(h)
           A == [Bbl -> SUBSET Fact]
           step == [x \in (1 .. N) \X A |-> Further(x[2], r)]
<1>0. N \in Nat
  BY FinitePlaces
<1> HIDE DEF N
<1>1. AtStart \in A /\ step \in StepsOn(N, A)
  <2>1. AtStart \in A
    BY DEF AtStart, Fact
  <2>2. \A z \in (1 .. N) \X A : Further(z[2], r) \in A
    BY FurtherTypes
  <2> QED
    BY <2>1, <2>2 DEF StepsOn
<1>2. PICK g : g \in Iterates(N, A, AtStart, step)
  <2> HIDE DEF step, A
  <2> QED
    BY <1>0, <1>1, Iteration
<1>3. g \in [0 .. N -> A] /\ g[0] = AtStart /\ \A k \in 1 .. N : g[k] = Further(g[k - 1], r)
  <2>1. \A k \in 1 .. N, v \in A : step[<<k, v>>] = Further(v, r)
    OBVIOUS
  <2> HIDE DEF step, A
  <2>2. /\ g \in [0 .. N -> A] /\ g[0] = AtStart
        /\ \A k \in 1 .. N : g[k] = step[<<k, g[k - 1]>>]
    BY <1>2 DEF Iterates
  <2>3. \A k \in 1 .. N : g[k - 1] \in A
    BY <1>0, <2>2
  <2> QED
    BY <2>1, <2>2, <2>3
<1>4. g = F(g)
  BY <1>3
<1>5. fold = F(fold)
  <2> HIDE DEF F
  <2> QED
    BY <1>4, Zenon
<1>6. Reaching(r) = fold[N]
  BY Zenon DEF Reaching, N, AtStart, Further, LetOut, Own
<1> HIDE DEF fold
<1>7. fold[0] = AtStart /\ \A k \in 1 .. N : fold[k] = Further(fold[k - 1], r)
  BY <1>0, <1>5
<1>8. fold \in [0 .. N -> A]
  <2> DEFINE I == [k \in 0 .. N |-> A]
  <2>1. fold[0] \in I[0]
    BY <1>0, <1>1, <1>7
  <2>2. ASSUME NEW k \in 1 .. N, fold[k - 1] \in I[k - 1]
        PROVE  fold[k] \in I[k]
    <3>1. fold[k - 1] \in A
      BY <1>0, <2>2
    <3>2. Further(fold[k - 1], r) \in A
      BY <3>1, FurtherTypes
    <3> QED
      BY <1>7, <3>2
  <2>3. \A k \in 0 .. N : fold[k] \in I[k]
    <3> HIDE DEF I
    <3> QED
      BY <1>0, <2>1, <2>2, Stays
  <2> QED
    BY <1>5, <2>3
<1> QED
  BY <1>6, <1>7, <1>8 DEF N, ReachingRounds

(* One more round adds nothing: each definition has reached every bbl it   *)
(* reaches within as many edges as there are bbls.                         *)
LEMMA ReachingClosed ==
  ASSUME source \in Programs, code = FreshCode, NEW r
  PROVE  /\ Reaching(r) \in [Bbl -> SUBSET Fact]
         /\ NoDef \in Reaching(r)[First]
         /\ \A p \in Bbl : \A s \in Succ(p) :
              /\ Own(p, r) # NoDef => Own(p, r) \in Reaching(r)[s]
              /\ Own(p, r) = NoDef => Reaching(r)[p] \subseteq Reaching(r)[s]
<1> DEFINE N == Cardinality(Bbl)
           A == [Bbl -> SUBSET Fact]
<1>1. N \in Nat /\ IsFiniteSet(Bbl)
  BY FinitePlaces
<1>2. PICK w : w \in ReachingRounds(r)
  BY ReachingLoop
<1>3. /\ w \in [0 .. N -> A] /\ w[0] = AtStart /\ w[N] = Reaching(r)
      /\ \A k \in 1 .. N : w[k] = Further(w[k - 1], r)
  BY <1>2 DEF ReachingRounds
<1> HIDE DEF N
<1> DEFINE v == [k \in 0 .. N + 1 |-> IF k = N + 1 THEN Further(w[N], r) ELSE w[k]]
<1>4. /\ \A k \in 0 .. N : v[k] = w[k]
      /\ v[N + 1] = Further(w[N], r)
      /\ \A k \in 1 .. N + 1 : k - 1 \in 0 .. N /\ v[k] = Further(v[k - 1], r)
  <2>1. \A k \in 0 .. N : k \in 0 .. N + 1 /\ k # N + 1
    BY <1>1
  <2>2. N + 1 \in 0 .. N + 1
    BY <1>1
  <2>3. \A k \in 1 .. N + 1 : k - 1 \in 0 .. N /\ (k = N + 1 => k - 1 = N) /\ (k # N + 1 => k \in 1 .. N)
    BY <1>1
  <2>4. \A k \in 0 .. N : v[k] = w[k]
    BY <2>1
  <2>5. v[N + 1] = Further(w[N], r)
    BY <2>2
  <2> HIDE DEF v
  <2>6. ASSUME NEW k \in 1 .. N + 1
        PROVE  v[k] = Further(v[k - 1], r)
    <3>1. v[k - 1] = w[k - 1]
      BY <2>3, <2>4
    <3>2. CASE k = N + 1
      BY <2>3, <2>5, <3>1, <3>2
    <3>3. CASE k \in 1 .. N
      <4>1. v[k] = w[k]
        BY <2>4, <3>3
      <4> QED
        BY <1>3, <3>1, <3>3, <4>1
    <3> QED
      BY <2>3, <3>2, <3>3
  <2> QED
    BY <2>3, <2>4, <2>5, <2>6
<1>5. \A k \in 0 .. N + 1 : v[k] \in A
  <2>1. \A k \in 0 .. N : v[k] \in A
    BY <1>3, <1>4
  <2>2. v[N + 1] \in A
    BY <1>1, <1>3, <1>4, FurtherTypes
  <2> HIDE DEF v, A
  <2> QED
    BY <1>1, <2>1, <2>2
<1> HIDE DEF v
<1>6. ASSUME NEW g \in Fact
      PROVE  \A b \in Bbl : g \in v[N + 1][b] => g \in v[N][b]
  <2> DEFINE u == [k \in 0 .. N + 1 |-> {b \in Bbl : g \in v[k][b]}]
  <2>1. \A k \in 0 .. N + 1 : u[k] = {b \in Bbl : g \in v[k][b]}
    OBVIOUS
  <2> HIDE DEF u
  <2>2. \A k \in 0 .. N + 1 : u[k] \subseteq Bbl
    BY <2>1
  <2>3. ASSUME NEW k \in 1 .. N + 1
        PROVE  u[k] = u[k - 1] \cup {b \in Bbl : \E p \in Bbl :
                        b \in Succ(p) /\ g \in LetOut(v[k - 1], p, r)}
    <3>1. k \in 0 .. N + 1 /\ k - 1 \in 0 .. N + 1
      BY <1>1
    <3>2. v[k] = Further(v[k - 1], r)
      BY <1>4
    <3>3. \A b \in Bbl : v[k][b] = v[k - 1][b] \cup
            UNION {LetOut(v[k - 1], p, r) : p \in {q \in Bbl : b \in Succ(q)}}
      BY <3>2 DEF Further
    <3> QED
      BY <2>1, <3>1, <3>3
  <2>4. ASSUME NEW k \in 0 .. N + 1, NEW p \in Bbl
        PROVE  g \in LetOut(v[k], p, r) <=> IF Own(p, r) # NoDef THEN g = Own(p, r) ELSE p \in u[k]
    BY <2>1 DEF LetOut
  <2>5. \A k \in 0 .. N : u[k] \subseteq u[k + 1]
    <3> SUFFICES ASSUME NEW k \in 0 .. N
                 PROVE  u[k] \subseteq u[k + 1]
      OBVIOUS
    <3>1. k + 1 \in 1 .. N + 1 /\ (k + 1) - 1 = k
      BY <1>1
    <3> QED
      BY <2>3, <3>1
  <2>6. \A k \in 1 .. N : u[k] = u[k - 1] => u[k + 1] = u[k]
    <3> SUFFICES ASSUME NEW k \in 1 .. N, u[k] = u[k - 1]
                 PROVE  u[k + 1] = u[k]
      OBVIOUS
    <3>1. /\ k + 1 \in 1 .. N + 1 /\ (k + 1) - 1 = k /\ k \in 1 .. N + 1
          /\ k \in 0 .. N + 1 /\ k - 1 \in 0 .. N + 1
      BY <1>1
    <3>2. u[k + 1] = u[k] \cup {b \in Bbl : \E p \in Bbl : b \in Succ(p) /\ g \in LetOut(v[k], p, r)}
      BY <2>3, <3>1
    <3>3. u[k] = u[k - 1] \cup {b \in Bbl : \E p \in Bbl :
                                  b \in Succ(p) /\ g \in LetOut(v[k - 1], p, r)}
      BY <2>3, <3>1
    <3>4. \A p \in Bbl : g \in LetOut(v[k], p, r) <=> g \in LetOut(v[k - 1], p, r)
      BY <2>4, <3>1
    <3> QED
      BY <3>2, <3>3, <3>4
  <2>7. u[N + 1] = u[N]
    BY <1>1, <2>2, <2>5, <2>6, ChainStops DEF N
  <2> QED
    BY <1>1, <2>1, <2>7
<1>7. /\ v[N] = Reaching(r) /\ v[0] = AtStart /\ v[N] \in A /\ v[N + 1] = Further(Reaching(r), r)
      /\ v[N + 1] \in A
  <2>1. N \in 0 .. N + 1 /\ N + 1 \in 0 .. N + 1 /\ N \in 0 .. N /\ 0 \in 0 .. N
    BY <1>1
  <2> QED
    BY <1>3, <1>4, <1>5, <2>1
<1>8. Reaching(r) \in A
  BY <1>7
<1>9. \A b \in Bbl : Further(Reaching(r), r)[b] \subseteq Reaching(r)[b]
  <2> SUFFICES ASSUME NEW b \in Bbl, NEW g \in v[N + 1][b]
               PROVE  g \in v[N][b]
    BY <1>7
  <2>1. g \in Fact
    BY <1>7
  <2> QED
    BY <1>6, <2>1
<1>10. ASSUME NEW p \in Bbl, NEW s \in Succ(p)
       PROVE  LetOut(Reaching(r), p, r) \subseteq Reaching(r)[s]
  <2>1. s \in Bbl
    BY Shape DEF Succ, ToSet
  <2>2. LetOut(Reaching(r), p, r) \subseteq Further(Reaching(r), r)[s]
    BY <2>1 DEF Further
  <2> QED
    BY <1>9, <2>1, <2>2
<1>11. NoDef \in Reaching(r)[First]
  <2> DEFINE I == [k \in 0 .. N |-> {x \in A : NoDef \in x[First]}]
  <2>1. First \in Bbl
    BY Shape
  <2>2. w[0] \in I[0]
    <3>1. 0 \in 0 .. N
      BY <1>1
    <3> QED
      BY <1>3, <2>1, <3>1 DEF AtStart
  <2>3. ASSUME NEW k \in 1 .. N, w[k - 1] \in I[k - 1]
        PROVE  w[k] \in I[k]
    <3>1. k \in 0 .. N /\ k - 1 \in 0 .. N
      BY <1>1
    <3>2. NoDef \in w[k - 1][First] /\ w[k] \in A
      BY <1>3, <2>3, <3>1
    <3>3. w[k][First] = w[k - 1][First] \cup
            UNION {LetOut(w[k - 1], p, r) : p \in {q \in Bbl : First \in Succ(q)}}
      BY <1>3, <2>1 DEF Further
    <3> QED
      BY <3>1, <3>2, <3>3
  <2>4. \A k \in 0 .. N : w[k] \in I[k]
    <3> HIDE DEF I
    <3> QED
      BY <1>1, <2>2, <2>3, Stays
  <2>5. N \in 0 .. N
    BY <1>1
  <2> QED
    BY <1>3, <2>4, <2>5
<1> QED
  BY <1>8, <1>10, <1>11 DEF LetOut

-----------------------------------------------------------------------------
(* What a step that keeps the function and the language keeps. *)
ReachingOf(src, r) ==
  LET own(b) == LastDef(src.code, b, r)
      out(in, b) == IF own(b) # NoDef THEN {own(b)} ELSE in[b]
      within[n \in 0 .. Cardinality(Bbl)] ==
        IF n = 0 THEN [b \in Bbl |-> IF b = First THEN {NoDef} ELSE {}]
        ELSE [b \in Bbl |-> within[n - 1][b]
                \cup UNION {out(within[n - 1], p) : p \in {q \in Bbl : b \in ToSet(src.edge_out[q])}}]
  IN within[Cardinality(Bbl)]

(* Whatever is read off the function and the language alone stays as it *)
(* is.                                                                  *)
LEMMA Kept ==
  ASSUME lang' = lang, source' = source
  PROVE  /\ Places' = Places /\ Definition' = Definition /\ FreshCode' = FreshCode
         /\ \A b : Succ(b)' = Succ(b)
         /\ \A b, r : Own(b, r)' = Own(b, r)
         /\ \A x, y : Same(x, y)' <=> Same(x, y)
         /\ \A r : Reaching(r)' = Reaching(r)
         /\ \A r : ReadSomewhere(r)' <=> ReadSomewhere(r)
         /\ \A R : Several(R)' <=> Several(R)
         /\ \A x, y, s : Covers(x, y, s)' <=> Covers(x, y, s)
<1>1. Places' = Places
  BY DEF Places
<1>2. Definition' = Definition
  BY <1>1 DEF Definition
<1>3. FreshCode' = FreshCode
  BY DEF FreshCode
<1>4. \A b : Succ(b)' = Succ(b)
  BY DEF Succ
<1>5. \A b, r : Own(b, r)' = Own(b, r)
  BY DEF Own
<1>6. \A x, y : Same(x, y)' <=> Same(x, y)
  BY <1>1 DEF Same, SameText, At
<1>7. \A r : Reaching(r)' = Reaching(r)
  <2> SUFFICES ASSUME NEW r
               PROVE  Reaching(r)' = Reaching(r)
    OBVIOUS
  <2>1. Reaching(r) = ReachingOf(source, r)
    BY Zenon DEF Reaching, ReachingOf, Succ
  <2>2. Reaching(r)' = ReachingOf(source', r)
    BY Zenon DEF Reaching, ReachingOf, Succ
  <2> QED
    BY <2>1, <2>2
<1>8. \A r : ReadSomewhere(r)' <=> ReadSomewhere(r)
  BY DEF ReadSomewhere
<1>9. \A R : Several(R)' <=> Several(R)
  BY <1>6 DEF Several
<1>10. \A x, y, s : Covers(x, y, s)' <=> Covers(x, y, s)
  BY <1>6 DEF Covers
<1> QED
  BY <1>1, <1>2, <1>3, <1>4, <1>5, <1>6, <1>7, <1>8, <1>9, <1>10

-----------------------------------------------------------------------------
(* Joining two definitions. *)
LEMMA JoinIs ==
  ASSUME source \in Programs, code = FreshCode, NEW old, NEW new, NEW top
  PROVE  /\ new = NoDef => Join(old, new, top) = old
         /\ new # NoDef /\ old = NoDef => Join(old, new, top) = new
         /\ new # NoDef /\ old # NoDef /\ Same(old, new) => Join(old, new, top) = old
         /\ new # NoDef /\ old # NoDef /\ ~Same(old, new) => Join(old, new, top) = top
         /\ Changes(old, new, top) <=> /\ new # NoDef
                                       /\ old = NoDef \/ ~Same(old, new)
                                       /\ lang = "cc" => old # top
<1>1. SameDef(code, old, new) <=> Same(old, new)
  BY SameDefIs
<1> QED
  BY <1>1 DEF Join, Changes

(* What a map becomes covers what was merged into it, and what it covered; *)
(* if nothing changes by it, the map stays.                                *)
LEMMA JoinCovers ==
  ASSUME source \in Programs, code = FreshCode, NEW old, NEW new, NEW top \in Bbl
  PROVE  /\ Covers(Join(old, new, top), new, top)
         /\ \A y : Covers(old, y, top) => Covers(Join(old, new, top), y, top)
         /\ ~Changes(old, new, top) => Join(old, new, top) = old
         /\ Join(old, new, top) \in {old, new, top}
         /\ old = top => Join(old, new, top) = top
<1>1. NoDef # top
  BY Shape
<1> QED
  BY <1>1, JoinIs DEF Covers, Same

(* What leaves a bbl. *)
LEMMA NewOutIs ==
  ASSUME SolverTypes, NEW b \in Bbl
  PROVE  /\ NewOut(b) \in [Reg -> Definition]
         /\ \A r \in Reg : NewOut(b)[r] = IF Own(b, r) # NoDef THEN Own(b, r) ELSE defs_in[b][r]
<1>1. \A r \in Reg : LastDef(code, b, r) = Own(b, r) /\ Own(b, r) \in Definition
  BY OwnIs DEF SolverTypes, Definition
<1>2. \A r \in Reg : defs_in[b][r] \in Definition
  BY DEF SolverTypes
<1>3. NewOut(b) = [r \in Reg |-> IF Own(b, r) # NoDef THEN Own(b, r) ELSE defs_in[b][r]]
  BY <1>1 DEF NewOut
<1> QED
  BY <1>1, <1>2, <1>3

(* What a visit does. *)
Visited == Last(active)
NewIn(b) ==
  [s \in Bbl |-> IF s \in Succ(b) THEN [r \in Reg |-> Join(defs_in[s][r], NewOut(b)[r], s)]
                 ELSE defs_in[s]]

(* A visit replaces what leaves one bbl, and what enters each successor by *)
(* the join; the changed ones are pushed.                                  *)
LEMMA VisitEffect ==
  ASSUME SolverTypes, Visit
  PROVE  LET b == Visited
         IN /\ b \in Bbl /\ active # <<>> /\ Front(active) \in Seq(Bbl)
            /\ Len(Front(active)) < Len(active)
            /\ ToSet(active) = ToSet(Front(active)) \cup {b}
            /\ lang' = lang /\ source' = source /\ code' = code /\ pc' = pc
            /\ active_set' = active_set \ {b}
            /\ \/ /\ \A r \in Reg : Same(NewOut(b)[r], defs_out[b][r])
                  /\ active' = Front(active) /\ defs_in' = defs_in /\ defs_out' = defs_out
               \/ /\ ~\A r \in Reg : Same(NewOut(b)[r], defs_out[b][r])
                  /\ active' = Front(active) \o Pushed(b, NewOut(b), active_set')
                  /\ defs_out' = [defs_out EXCEPT ![b] = NewOut(b)]
                  /\ defs_in' = NewIn(b)
<1> DEFINE b == Visited
<1>0. b = Last(active)
  BY DEF Visited
<1> HIDE DEF b
<1>1. /\ active \in Seq(Bbl) /\ active # <<>>
      /\ source \in Programs /\ code = FreshCode
  BY DEF SolverTypes, Visit
<1>2. /\ b \in Bbl /\ Front(active) \in Seq(Bbl) /\ Len(Front(active)) = Len(active) - 1
      /\ ToSet(active) = ToSet(Front(active)) \cup {b} /\ Len(active) \in Nat
  BY <1>0, <1>1, Popping
<1>3. \A x, y : SameDef(code, x, y) <=> Same(x, y)
  BY <1>1, SameDefIs
<1>4. \A s : Contains(source.edge_out[b], s) <=> s \in Succ(b)
  BY <1>1, <1>2, Shape, Containing DEF Succ
<1>5. /\ lang' = lang /\ source' = source /\ code' = code /\ pc' = pc
      /\ active_set' = active_set \ {b}
  BY <1>0 DEF Visit
<1>6. \/ /\ \A r \in Reg : Same(NewOut(b)[r], defs_out[b][r])
         /\ active' = Front(active) /\ defs_in' = defs_in /\ defs_out' = defs_out
      \/ /\ ~\A r \in Reg : Same(NewOut(b)[r], defs_out[b][r])
         /\ active' = Front(active) \o Pushed(b, NewOut(b), active_set')
         /\ defs_out' = [defs_out EXCEPT ![b] = NewOut(b)]
         /\ defs_in' = NewIn(b)
  BY <1>0, <1>3, <1>4 DEF Visit, Rest, NewIn
<1>7. Len(Front(active)) < Len(active)
  BY <1>2
<1> QED
  BY <1>1, <1>2, <1>5, <1>6, <1>7 DEF b

-----------------------------------------------------------------------------
(* The invariant. *)

(* At the start nothing has left a bbl and every bbl is on the worklist. *)
LEMMA InitInv ==
  ASSUME Init
  PROVE  SolverInv
<1>1. /\ lang \in {"py", "cc"} /\ source \in Programs /\ code = FreshCode
      /\ defs_in = [b \in Bbl |-> [r \in Reg |->
           IF lang = "py" /\ b = First /\ ReadSomewhere(r) THEN First ELSE NoDef]]
      /\ defs_out = [b \in Bbl |-> [r \in Reg |-> NoDef]]
      /\ active = Reverse(Order) /\ active_set \subseteq Bbl
  BY Zenon DEF Init, FreshCode, Fresh, ReadSomewhere
<1>2. First \in Bbl /\ NoDef \notin Bbl
  BY <1>1, Shape
<1>3. \A b \in Bbl, r \in Reg :
        /\ defs_out[b][r] = NoDef
        /\ defs_in[b][r] = IF lang = "py" /\ b = First /\ ReadSomewhere(r) THEN First ELSE NoDef
  BY <1>1
<1>4. active \in Seq(Bbl) /\ ToSet(active) = Bbl
  <2> DEFINE n == Len(Order)
  <2>1. n \in Nat /\ Order \in [1 .. n -> Bbl] /\ \A b \in Bbl : \E i \in 1 .. n : Order[i] = b
    BY ReachingDefsAssumption DEF Bbl, ToSet
  <2>2. active = [i \in 1 .. n |-> Order[(n - i) + 1]]
    BY <1>1 DEF Reverse
  <2> HIDE DEF n
  <2>3. \A i \in 1 .. n : (n - i) + 1 \in 1 .. n /\ (n - ((n - i) + 1)) + 1 = i
    BY <2>1
  <2>4. active \in [1 .. n -> Bbl]
    BY <2>1, <2>2, <2>3
  <2>5. active \in Seq(Bbl) /\ DOMAIN active = 1 .. n
    BY <2>1, <2>4
  <2>6. ASSUME NEW b \in Bbl
        PROVE  b \in ToSet(active)
    <3>1. PICK i \in 1 .. n : Order[i] = b
      BY <2>1
    <3>2. (n - i) + 1 \in 1 .. n /\ active[(n - i) + 1] = b
      BY <2>2, <2>3, <3>1
    <3> QED
      BY <2>5, <3>2 DEF ToSet
  <2>7. ToSet(active) \subseteq Bbl
    BY <2>4, <2>5 DEF ToSet
  <2> QED
    BY <2>5, <2>6, <2>7
<1>5. SolverTypes
  <2>1. defs_in \in [Bbl -> [Reg -> Definition]] /\ defs_out \in [Bbl -> [Reg -> Definition]]
    BY <1>1, <1>2 DEF Definition
  <2> QED
    BY <1>1, <1>4, <2>1 DEF SolverTypes
<1>6. Carried
  BY <1>3 DEF Carried
<1>7. SettledUnlessActive
  BY <1>4 DEF SettledUnlessActive
<1>8. Merged
  BY <1>3 DEF Merged, Covers
<1>9. AllJustified
  <2> SUFFICES ASSUME NEW b \in Bbl, NEW r \in Reg
               PROVE  Justified(b, r, defs_in[b][r])
    BY DEF AllJustified
  <2>1. NoDef \in Reaching(r)[First]
    BY <1>1, ReachingClosed
  <2> QED
    BY <1>2, <1>3, <2>1 DEF Justified, Several
<1>10. UndefinedKnown
  BY <1>2, <1>3 DEF UndefinedKnown
<1> QED
  BY <1>5, <1>6, <1>7, <1>8, <1>9, <1>10 DEF SolverInv

(* What a visit leaves of the maps. *)
LEMMA VisitMaps ==
  ASSUME SolverTypes, Visit
  PROVE  /\ SolverTypes' /\ ToSet(Front(active)) \subseteq ToSet(active')
         /\ \A b \in Bbl : NewOut(b)' = [r \in Reg |-> IF Own(b, r) # NoDef THEN Own(b, r)
                                                        ELSE defs_in'[b][r]]
         /\ \A s \in Bbl, r \in Reg :
              \/ defs_in'[s][r] = defs_in[s][r]
              \/ /\ s \in Succ(Visited) /\ Changes(defs_in[s][r], NewOut(Visited)[r], s)
                 /\ defs_in'[s][r] = Join(defs_in[s][r], NewOut(Visited)[r], s)
                 /\ s \in ToSet(active')
<1> DEFINE b == Visited
           out == NewOut(b)
<1>1. source \in Programs /\ code = FreshCode
  BY DEF SolverTypes
<1>2. /\ b \in Bbl /\ Front(active) \in Seq(Bbl) /\ ToSet(active) = ToSet(Front(active)) \cup {b}
      /\ lang' = lang /\ source' = source /\ code' = code
      /\ active_set' = active_set \ {b}
  BY VisitEffect
<1>3. \/ active' = Front(active) /\ defs_in' = defs_in /\ defs_out' = defs_out
      \/ /\ active' = Front(active) \o Pushed(b, out, active_set')
         /\ defs_out' = [defs_out EXCEPT ![b] = out] /\ defs_in' = NewIn(b)
  BY VisitEffect
<1>4. out \in [Reg -> Definition] /\ Succ(b) \subseteq Bbl
  BY <1>1, <1>2, NewOutIs, Shape DEF Succ, ToSet
<1>5. \A s \in Succ(b), r \in Reg :
        /\ Join(defs_in[s][r], out[r], s) \in {defs_in[s][r], out[r], s}
        /\ ~Changes(defs_in[s][r], out[r], s) => Join(defs_in[s][r], out[r], s) = defs_in[s][r]
  BY <1>1, <1>4, JoinCovers
<1>6. \A s \in Bbl, r \in Reg :
        NewIn(b)[s][r] = IF s \in Succ(b) THEN Join(defs_in[s][r], out[r], s) ELSE defs_in[s][r]
  BY DEF NewIn
<1>7. defs_in' \in [Bbl -> [Reg -> Definition]] /\ defs_out' \in [Bbl -> [Reg -> Definition]]
  <2>1. \A s \in Bbl, r \in Reg : defs_in[s][r] \in Definition /\ out[r] \in Definition /\ s \in Definition
    BY <1>4 DEF SolverTypes, Definition
  <2>2. \A s \in Bbl, r \in Reg : NewIn(b)[s][r] \in Definition
    BY <1>4, <1>5, <1>6, <2>1
  <2>3. NewIn(b) \in [Bbl -> [Reg -> Definition]]
    <3>1. \A s \in Bbl : NewIn(b)[s] \in [Reg -> Definition]
      <4> SUFFICES ASSUME NEW s \in Bbl
                   PROVE  NewIn(b)[s] \in [Reg -> Definition]
        OBVIOUS
      <4>1. NewIn(b)[s] = [r \in Reg |-> NewIn(b)[s][r]]
        BY DEF NewIn, SolverTypes
      <4> QED
        BY <2>2, <4>1
    <3>2. NewIn(b) = [s \in Bbl |-> NewIn(b)[s]]
      BY DEF NewIn
    <3> QED
      BY <3>1, <3>2
  <2> HIDE DEF out, b
  <2> QED
    BY <1>3, <1>4, <2>3 DEF SolverTypes
<1> DEFINE pushed == Pushed(b, out, active_set')
<1>8. /\ pushed \in Seq(Bbl)
      /\ \A s \in Succ(b), r \in Reg :
           Changes(defs_in[s][r], out[r], s) /\ (lang = "cc" => s \notin active_set')
             => s \in ToSet(pushed)
  BY <1>1, <1>2, PushedIs
<1> DEFINE rest == Front(active)
<1>9. rest \o pushed \in Seq(Bbl) /\ ToSet(rest \o pushed) = ToSet(rest) \cup ToSet(pushed)
  <2> HIDE DEF rest, pushed
  <2>1. rest \in Seq(Bbl) /\ pushed \in Seq(Bbl)
    BY <1>2, <1>8 DEF rest
  <2> QED
    BY <2>1, Concatenating
<1>10. active' \in Seq(Bbl) /\ active_set' \subseteq ToSet(rest) /\ ToSet(rest) \subseteq ToSet(active')
  <2>1. active_set' \subseteq ToSet(rest)
    BY <1>2 DEF SolverTypes
  <2> HIDE DEF rest, pushed, b, out
  <2>2. active' = rest \/ active' = rest \o pushed
    BY <1>3 DEF rest, pushed
  <2> QED
    BY <1>2, <1>9, <2>1, <2>2 DEF rest
<1>11. SolverTypes'
  <2>1. Definition' = Definition /\ FreshCode' = FreshCode
    BY <1>2, Kept
  <2> QED
    BY <1>2, <1>7, <1>10, <2>1 DEF SolverTypes
<1>12. ASSUME NEW c \in Bbl
       PROVE  NewOut(c)' = [r \in Reg |-> IF Own(c, r) # NoDef THEN Own(c, r) ELSE defs_in'[c][r]]
  <2>1. NewOut(c)' = [r \in Reg |-> IF LastDef(code, c, r) # NoDef THEN LastDef(code, c, r)
                                    ELSE defs_in'[c][r]]
    BY <1>2 DEF NewOut
  <2>2. \A r : LastDef(code, c, r) = Own(c, r)
    BY <1>1, OwnIs
  <2> QED
    BY <2>1, <2>2
<1>13. ASSUME NEW s \in Bbl, NEW r \in Reg, defs_in'[s][r] # defs_in[s][r]
       PROVE  /\ s \in Succ(b) /\ Changes(defs_in[s][r], out[r], s)
              /\ defs_in'[s][r] = Join(defs_in[s][r], out[r], s) /\ s \in ToSet(active')
  <2>1. active' = rest \o pushed /\ defs_in' = NewIn(b)
    BY <1>3, <1>13
  <2>2. s \in Succ(b) /\ defs_in'[s][r] = Join(defs_in[s][r], out[r], s)
    BY <1>6, <1>13, <2>1
  <2>3. Changes(defs_in[s][r], out[r], s)
    BY <1>5, <1>13, <2>2
  <2>4. s \in active_set' \/ s \in ToSet(pushed)
    BY <1>8, <2>2, <2>3
  <2> HIDE DEF rest, pushed, b, out
  <2>5. s \in ToSet(active')
    BY <1>9, <1>10, <2>1, <2>4
  <2> QED
    BY <2>2, <2>3, <2>5
<1> QED
  BY <1>10, <1>11, <1>12, <1>13

(* A visit keeps each part of the invariant. *)
LEMMA VisitKeepsInv ==
  ASSUME SolverInv, Visit
  PROVE  SolverInv'
<1> DEFINE b == Visited
           out == NewOut(b)
<1> USE DEF SolverInv
<1>1. source \in Programs /\ code = FreshCode /\ NoDef \notin Bbl
  BY Shape DEF SolverTypes
<1>2. /\ b \in Bbl /\ lang' = lang /\ source' = source /\ code' = code
      /\ ToSet(active) = ToSet(Front(active)) \cup {b}
  BY VisitEffect
<1>3. \/ /\ \A r \in Reg : Same(out[r], defs_out[b][r])
         /\ active' = Front(active) /\ defs_in' = defs_in /\ defs_out' = defs_out
      \/ /\ active' = Front(active) \o Pushed(b, out, active_set')
         /\ defs_out' = [defs_out EXCEPT ![b] = out] /\ defs_in' = NewIn(b)
  BY VisitEffect
<1>4. \A r \in Reg : out[r] = IF Own(b, r) # NoDef THEN Own(b, r) ELSE defs_in[b][r]
  BY <1>2, NewOutIs
<1>5. /\ SolverTypes' /\ ToSet(Front(active)) \subseteq ToSet(active')
      /\ \A c \in Bbl, r \in Reg : NewOut(c)'[r] = IF Own(c, r) # NoDef THEN Own(c, r)
                                                   ELSE defs_in'[c][r]
      /\ \A s \in Bbl, r \in Reg :
           \/ defs_in'[s][r] = defs_in[s][r]
           \/ /\ s \in Succ(b) /\ Changes(defs_in[s][r], out[r], s)
              /\ defs_in'[s][r] = Join(defs_in[s][r], out[r], s)
              /\ s \in ToSet(active')
  BY VisitMaps
<1>6. \A c \in Bbl, r \in Reg :
        defs_out'[c][r] = defs_out[c][r] \/ (c = b /\ defs_out'[c][r] = out[r])
  BY <1>2, <1>3 DEF SolverTypes
<1>7. \A s \in Bbl, r \in Reg :
        /\ Covers(Join(defs_in[s][r], out[r], s), out[r], s)
        /\ \A y : Covers(defs_in[s][r], y, s) => Covers(Join(defs_in[s][r], out[r], s), y, s)
        /\ ~Changes(defs_in[s][r], out[r], s) => Join(defs_in[s][r], out[r], s) = defs_in[s][r]
        /\ defs_in[s][r] = s => Join(defs_in[s][r], out[r], s) = s
  BY <1>1, JoinCovers
<1>8. /\ \A x, y : Same(x, y)' <=> Same(x, y)
      /\ \A c, r : Own(c, r)' = Own(c, r)
      /\ \A c : Succ(c)' = Succ(c)
      /\ \A r : Reaching(r)' = Reaching(r)
      /\ \A R : Several(R)' <=> Several(R)
      /\ \A r : ReadSomewhere(r)' <=> ReadSomewhere(r)
      /\ \A x, y, s : Covers(x, y, s)' <=> Covers(x, y, s)
  BY <1>2, Kept
<1>9. \A c \in Bbl : Succ(c) \subseteq Bbl
  BY <1>1, Shape DEF Succ, ToSet
<1> HIDE DEF b, out, SolverInv
(* what came into a bbl with a definition stays or moves to the top *)
<1>10. \A s \in Bbl, r \in Reg :
         defs_in[s][r] # NoDef => defs_in'[s][r] \in {defs_in[s][r], s}
  <2> SUFFICES ASSUME NEW s \in Bbl, NEW r \in Reg, defs_in[s][r] # NoDef
               PROVE  Join(defs_in[s][r], out[r], s) \in {defs_in[s][r], s}
    BY <1>5
  <2> QED
    BY <1>1, JoinIs
<1>11. Carried'
  <2> SUFFICES ASSUME NEW c \in Bbl, NEW r \in Reg
               PROVE  \/ defs_out'[c][r] = NoDef
                      \/ Own(c, r) # NoDef /\ defs_out'[c][r] = Own(c, r)
                      \/ /\ Own(c, r) = NoDef
                         /\ defs_out'[c][r] = defs_in'[c][r] \/ defs_in'[c][r] = c
    BY <1>8 DEF Carried
  <2>1. \/ defs_out[c][r] = NoDef
        \/ Own(c, r) # NoDef /\ defs_out[c][r] = Own(c, r)
        \/ Own(c, r) = NoDef /\ (defs_out[c][r] = defs_in[c][r] \/ defs_in[c][r] = c)
    BY DEF SolverInv, Carried
  <2> QED
    BY <1>1, <1>4, <1>6, <1>10, <2>1
<1>12. SettledUnlessActive'
  <2> SUFFICES ASSUME NEW c \in Bbl, c \notin ToSet(active'), NEW r \in Reg
               PROVE  Same(NewOut(c)'[r], defs_out'[c][r])
    BY <1>8 DEF SettledUnlessActive
  <2>1. NewOut(c)'[r] = NewOut(c)[r]
    <3>1. defs_in'[c][r] = defs_in[c][r]
      BY <1>5
    <3>2. NewOut(c)[r] = IF Own(c, r) # NoDef THEN Own(c, r) ELSE defs_in[c][r]
      BY NewOutIs DEF SolverInv
    <3> QED
      BY <1>5, <3>1, <3>2
  <2>2. CASE c = b
    BY <1>2, <1>3, <1>6, <2>1, <2>2 DEF Same, out, SolverTypes, SolverInv
  <2>3. CASE c # b
    <3>1. c \notin ToSet(active)
      BY <1>2, <1>5, <2>3
    <3> QED
      BY <1>6, <2>1, <2>3, <3>1 DEF SolverInv, SettledUnlessActive
  <2> QED
    BY <2>2, <2>3
<1>13. Merged'
  <2> SUFFICES ASSUME NEW c \in Bbl, NEW s \in Succ(c), NEW r \in Reg
               PROVE  Covers(defs_in'[s][r], defs_out'[c][r], s)
    BY <1>8 DEF Merged
  <2>1. s \in Bbl
    BY <1>9
  <2>2. Covers(defs_in[s][r], defs_out[c][r], s)
    BY DEF SolverInv, Merged
  <2>3. Covers(defs_in'[s][r], defs_out[c][r], s)
    BY <1>5, <1>7, <2>1, <2>2
  <2>4. CASE defs_out'[c][r] = defs_out[c][r]
    BY <2>3, <2>4
  <2>5. CASE c = b /\ defs_out' = [defs_out EXCEPT ![b] = out] /\ defs_in' = NewIn(b)
    <3>1. defs_in'[s][r] = Join(defs_in[s][r], out[r], s)
      BY <2>1, <2>5 DEF NewIn, out
    <3>2. defs_out'[c][r] = out[r]
      BY <1>2, <2>5 DEF SolverInv, SolverTypes
    <3> QED
      BY <1>7, <2>1, <3>1, <3>2
  <2> QED
    BY <1>3, <1>6, <2>4, <2>5
<1>14. AllJustified'
  <2> SUFFICES ASSUME NEW s \in Bbl, NEW r \in Reg
               PROVE  Justified(s, r, defs_in'[s][r])
    BY <1>8 DEF AllJustified, Justified
  <2>1. \A c \in Bbl : Justified(c, r, defs_in[c][r])
    BY DEF SolverInv, AllJustified
  <2>2. SUFFICES ASSUME s \in Succ(b), Changes(defs_in[s][r], out[r], s)
                 PROVE  Justified(s, r, Join(defs_in[s][r], out[r], s))
    BY <1>5, <2>1
  <2>3. /\ Own(b, r) # NoDef => Own(b, r) \in Reaching(r)[s]
        /\ Own(b, r) = NoDef => Reaching(r)[b] \subseteq Reaching(r)[s]
    <3>1. \A p \in Bbl : \A c \in Succ(p) :
            /\ Own(p, r) # NoDef => Own(p, r) \in Reaching(r)[c]
            /\ Own(p, r) = NoDef => Reaching(r)[p] \subseteq Reaching(r)[c]
      BY <1>1, ReachingClosed
    <3> QED
      BY <1>2, <2>2, <3>1
  <2>4. \A R, T : R \subseteq T /\ Several(R) => Several(T)
    BY DEF Several
  <2>5. Justified(s, r, out[r])
    BY <1>2, <1>4, <2>1, <2>3, <2>4 DEF Justified
  <2>6. Justified(s, r, defs_in[s][r])
    BY <2>1
  <2>7. ASSUME out[r] # NoDef, defs_in[s][r] # NoDef, ~Same(defs_in[s][r], out[r])
        PROVE  Several(Reaching(r)[s])
    BY <2>5, <2>6, <2>7 DEF Justified, Several
  <2> QED
    BY <1>1, <2>5, <2>6, <2>7, JoinIs DEF Justified
<1>15. UndefinedKnown'
  <2>1. First \in Bbl
    BY <1>1, Shape
  <2> QED
    BY <1>2, <1>5, <1>7, <1>8, <2>1 DEF SolverInv, UndefinedKnown
<1> QED
  BY <1>5, <1>11, <1>12, <1>13, <1>14, <1>15 DEF SolverInv

-----------------------------------------------------------------------------
(* A visit either only shortens the worklist or moves what leaves a bbl    *)
(* towards the top.                                                        *)
LEMMA VisitProgresses ==
  ASSUME SolverInv, Visit
  PROVE  \/ defs_out' = defs_out /\ defs_in' = defs_in /\ Len(active') < Len(active)
         \/ /\ defs_out' # defs_out
            /\ \A b \in Bbl, r \in Reg :
                 \/ defs_out'[b][r] = defs_out[b][r]
                 \/ Rank(b, defs_out[b][r]) < Rank(b, defs_out'[b][r])
<1> DEFINE v == Visited
           out == NewOut(v)
<1>1. source \in Programs /\ code = FreshCode /\ NoDef \notin Bbl /\ v \in Bbl
  BY Shape, VisitEffect DEF SolverInv, SolverTypes
<1>2. CASE active' = Front(active) /\ defs_in' = defs_in /\ defs_out' = defs_out
  BY <1>2, VisitEffect DEF SolverInv
<1>3. CASE /\ ~\A r \in Reg : Same(out[r], defs_out[v][r])
           /\ defs_out' = [defs_out EXCEPT ![v] = out]
  <2>1. \A b \in Bbl : defs_out'[b] = IF b = v THEN out ELSE defs_out[b]
    BY <1>1, <1>3 DEF SolverInv, SolverTypes
  <2>2. PICK r \in Reg : ~Same(out[r], defs_out[v][r])
    BY <1>3
  <2>3. out[r] # defs_out[v][r]
    BY <2>2 DEF Same
  <2>4. defs_out' # defs_out
    BY <1>1, <2>1, <2>3
  <2>5. ASSUME NEW s \in Reg, out[s] # defs_out[v][s]
        PROVE  Rank(v, defs_out[v][s]) < Rank(v, out[s])
    <3>1. out[s] = IF Own(v, s) # NoDef THEN Own(v, s) ELSE defs_in[v][s]
      BY <1>1, NewOutIs DEF SolverInv
    <3>2. \/ defs_out[v][s] = NoDef
          \/ Own(v, s) # NoDef /\ defs_out[v][s] = Own(v, s)
          \/ Own(v, s) = NoDef /\ (defs_out[v][s] = defs_in[v][s] \/ defs_in[v][s] = v)
      BY <1>1 DEF SolverInv, Carried
    <3>3. defs_out[v][s] = NoDef \/ out[s] = v
      BY <2>5, <3>1, <3>2
    <3> HIDE DEF v, out
    <3> QED
      BY <1>1, <2>5, <3>3 DEF Rank
  <2> HIDE DEF v, out
  <2> QED
    BY <2>1, <2>4, <2>5
<1> QED
  BY <1>2, <1>3, VisitEffect DEF SolverInv

-----------------------------------------------------------------------------
(* When the worklist is empty. *)

(* Then what each bbl lets out has been merged into its successors. *)
LEMMA AllMerged ==
  ASSUME SolverInv, active = <<>>
  PROVE  \A p \in Bbl : \A s \in Succ(p), r \in Reg : Covers(defs_in[s][r], NewOut(p)[r], s)
<1> SUFFICES ASSUME NEW p \in Bbl, NEW s \in Succ(p), NEW r \in Reg
             PROVE  Covers(defs_in[s][r], NewOut(p)[r], s)
  OBVIOUS
<1>1. NoDef \notin Places
  BY Shape DEF SolverInv, SolverTypes
<1>2. Same(NewOut(p)[r], defs_out[p][r])
  BY DEF SolverInv, SettledUnlessActive, ToSet
<1>3. Covers(defs_in[s][r], defs_out[p][r], s)
  BY DEF SolverInv, Merged
<1>4. NewOut(p)[r] = NoDef <=> defs_out[p][r] = NoDef
  BY <1>1, <1>2 DEF Same
<1> QED
  BY <1>2, <1>3, <1>4, SameIsEquivalence DEF Covers

(* What came into a bbl, d, accounts for the definition g that reaches it. *)
AccountsFor(d, g, r) ==
  \/ d \in Bbl
  \/ g # NoDef /\ d # NoDef /\ Same(d, g)
  \/ g = NoDef /\ (lang = "cc" \/ ~ReadSomewhere(r))

(* When nothing is left to visit, every definition that reaches a bbl is *)
(* accounted for.                                                        *)
LEMMA AllAccountedFor ==
  ASSUME SolverInv, active = <<>>, NEW r \in Reg
  PROVE  \A b \in Bbl : \A g \in Reaching(r)[b] : AccountsFor(defs_in[b][r], g, r)
<1> DEFINE N == Cardinality(Bbl)
           Good(m) == \A b \in Bbl : \A g \in m[b] : AccountsFor(defs_in[b][r], g, r)
           I == [k \in 0 .. N |-> {m \in [Bbl -> SUBSET Fact] : Good(m)}]
<1>1. source \in Programs /\ code = FreshCode /\ N \in Nat /\ lang \in {"py", "cc"}
      /\ First \in Bbl /\ NoDef \notin Bbl /\ NoDef \notin Places /\ Bbl \cap Places = {}
  BY Shape, FinitePlaces DEF SolverInv, SolverTypes
<1>2. PICK w : w \in ReachingRounds(r)
  BY <1>1, ReachingLoop
<1>3. /\ w \in [0 .. N -> [Bbl -> SUBSET Fact]] /\ w[0] = AtStart /\ w[N] = Reaching(r)
      /\ \A k \in 1 .. N : w[k] = Further(w[k - 1], r)
  BY <1>2 DEF ReachingRounds
<1> HIDE DEF N
<1>4. w[0] \in I[0]
  <2>1. 0 \in 0 .. N
    BY <1>1
  <2>2. Good(AtStart)
    BY <1>1 DEF AtStart, AccountsFor, SolverInv, UndefinedKnown
  <2> QED
    BY <1>3, <2>1, <2>2
<1>5. ASSUME NEW k \in 1 .. N, w[k - 1] \in I[k - 1]
      PROVE  w[k] \in I[k]
  <2>1. k \in 0 .. N /\ k - 1 \in 0 .. N
    BY <1>1
  <2>2. Good(w[k - 1]) /\ w[k - 1] \in [Bbl -> SUBSET Fact] /\ w[k] \in [Bbl -> SUBSET Fact]
    BY <1>3, <1>5, <2>1
  <2>3. ASSUME NEW b \in Bbl, NEW p \in Bbl, b \in Succ(p), NEW g \in LetOut(w[k - 1], p, r)
        PROVE  AccountsFor(defs_in[b][r], g, r)
    <3>1. Covers(defs_in[b][r], NewOut(p)[r], b)
      BY <2>3, AllMerged
    <3>2. NewOut(p)[r] = IF Own(p, r) # NoDef THEN Own(p, r) ELSE defs_in[p][r]
      BY NewOutIs DEF SolverInv
    <3>3. CASE Own(p, r) # NoDef
      BY <3>1, <3>2, <3>3 DEF LetOut, Covers, AccountsFor
    <3>4. CASE Own(p, r) = NoDef
      <4>1. g \in w[k - 1][p] /\ Covers(defs_in[b][r], defs_in[p][r], b)
        BY <3>1, <3>2, <3>4 DEF LetOut
      <4>2. AccountsFor(defs_in[p][r], g, r)
        BY <2>2, <4>1
      <4>3. CASE defs_in[p][r] \in Bbl
        BY <1>1, <4>1, <4>3 DEF Covers, Same, AccountsFor
      <4>4. CASE g # NoDef /\ defs_in[p][r] # NoDef /\ Same(defs_in[p][r], g)
        BY <4>1, <4>4, SameIsEquivalence DEF Covers, AccountsFor
      <4>5. CASE g = NoDef /\ (lang = "cc" \/ ~ReadSomewhere(r))
        BY <4>5 DEF AccountsFor
      <4> QED
        BY <4>2, <4>3, <4>4, <4>5 DEF AccountsFor
    <3> QED
      BY <3>3, <3>4
  <2>4. \A b \in Bbl : w[k][b] = w[k - 1][b] \cup
          UNION {LetOut(w[k - 1], p, r) : p \in {q \in Bbl : b \in Succ(q)}}
    BY <1>3 DEF Further
  <2>5. Good(w[k])
    BY <2>2, <2>3, <2>4
  <2> QED
    BY <2>1, <2>2, <2>5
<1>6. \A k \in 0 .. N : w[k] \in I[k]
  <2> HIDE DEF I
  <2> QED
    BY <1>1, <1>4, <1>5, Stays
<1>7. N \in 0 .. N
  BY <1>1
<1>8. Good(w[N])
  BY <1>6, <1>7
<1> QED
  BY <1>3, <1>8

(* The definition a bbl gives a register that it reads first is exact.     *)
Exact(b, r, def) ==
  LET reach == Reaching(r)[b]
      known == reach \ {NoDef}
      single == /\ known # {} /\ \A g, k \in known : Same(g, k)
                /\ lang = "py" => known = reach
  IN IF single THEN def \in known ELSE def \in Bbl

(* It is the one definition that reaches it, or the bbl when several do. *)
LEMMA SettledExact ==
  ASSUME SolverInv, active = <<>>, NEW b \in Bbl, NEW r \in Reg,
         ReadFirst(source.code[b], r), Settled[b][r] # NoDef
  PROVE  Exact(b, r, Settled[b][r])
<1> DEFINE reach == Reaching(r)[b]
           known == reach \ {NoDef}
           agree == \A g, k \in known : Same(g, k)
           d == defs_in[b][r]
           def == Settled[b][r]
<1>1. source \in Programs /\ code = FreshCode /\ lang \in {"py", "cc"}
      /\ NoDef \notin Bbl /\ NoDef \notin Places /\ Bbl \cap Places = {}
  BY Shape DEF SolverInv, SolverTypes
<1>2. ReadSomewhere(r)
  BY DEF ReadSomewhere
<1>3. def = IF lang = "cc" /\ d = NoDef THEN b ELSE d
  BY DEF Settled
<1>4. \A g \in reach : AccountsFor(d, g, r)
  BY AllAccountedFor
<1>5. d = NoDef \/ d \in reach \/ (d \in Bbl /\ Several(reach))
  BY DEF SolverInv, AllJustified, Justified
<1>6. known \subseteq Places
  BY <1>1, ReachingClosed DEF Fact
<1> HIDE DEF reach, d, def
<1>7. CASE known # {} /\ agree /\ (lang = "py" => known = reach)
  <2>1. d # NoDef
    BY <1>1, <1>4, <1>7 DEF AccountsFor
  <2>2. ~Several(reach)
    BY <1>7 DEF Several
  <2>3. def = d /\ d \in known
    BY <1>3, <1>5, <2>1, <2>2
  <2> QED
    BY <1>7, <2>3 DEF Exact, reach, def
<1>8. CASE ~(known # {} /\ agree /\ (lang = "py" => known = reach))
  <2>0. SUFFICES def \in Bbl
    BY <1>8 DEF Exact, reach, def
  <2>1. CASE ~agree
    <3>1. PICK g \in known, k \in known : ~Same(g, k)
      BY <2>1
    <3>2. d \in Bbl \/ (Same(d, g) /\ Same(d, k))
      BY <1>4, <3>1 DEF AccountsFor
    <3>3. d \in Bbl
      BY <3>1, <3>2, SameIsEquivalence
    <3> QED
      BY <1>1, <1>3, <3>3
  <2>2. CASE lang = "py" /\ NoDef \in reach
    <3>1. d \in Bbl
      BY <1>2, <1>4, <2>2 DEF AccountsFor
    <3> QED
      BY <1>1, <1>3, <3>1
  <2>3. CASE known = {} /\ NoDef \notin reach
    <3>1. reach = {} /\ ~Several(reach)
      BY <2>3 DEF Several
    <3> QED
      BY <1>3, <1>5, <3>1 DEF def
  <2>4. CASE known = {} /\ lang = "cc"
    <3>1. d = NoDef \/ d \in Bbl
      BY <1>5, <2>4
    <3> QED
      BY <1>3, <2>4, <3>1
  <2> QED
    BY <1>1, <1>8, <2>1, <2>2, <2>3, <2>4
<1> QED
  BY <1>7, <1>8

-----------------------------------------------------------------------------
(* Publishing the result. *)

(* What DefsExact says of operand n of the instruction at h in the code c. *)
ExactAt(c, h, n) ==
  LET r == At(c, h).ops[n]
      def == At(c, h).defs[n]
      before == {g \in Places : g[1] = h[1] /\ g[2] < h[2] /\ Defines(At(c, g), r)}
      reach == Reaching(r)[h[1]]
      known == reach \ {NoDef}
      agree == \A g, k \in known : g = k \/ (lang = "py" /\ SameText(g, k))
      single == known # {} /\ agree /\ (lang = "py" => known = reach)
  IN IF before # {} THEN def \in before /\ \A g \in before : g[2] <= def[2]
     ELSE IF single THEN def \in known ELSE def \in Bbl

(* DefsExact of the next state, operand by operand. *)
LEMMA DefsExactNext ==
  ASSUME lang' = lang, source' = source,
         pc' = "regs" => \A h \in Places : \A n \in UseSlots(At(code', h)) : ExactAt(code', h, n)
  PROVE  DefsExact'
<1>1. /\ Places' = Places /\ \A r : Reaching(r)' = Reaching(r)
      /\ \A g, k : SameText(g, k)' <=> SameText(g, k)
  BY Kept DEF SameText, At
<1> SUFFICES ASSUME pc' = "regs", NEW h \in Places, NEW n \in UseSlots(At(code', h))
             PROVE  LET r == At(code', h).ops[n]
                        def == At(code', h).defs[n]
                        before == {g \in Places : g[1] = h[1] /\ g[2] < h[2]
                                                  /\ Defines(At(code', g), r)}
                        reach == Reaching(r)[h[1]]
                        known == reach \ {NoDef}
                        agree == \A g, k \in known : g = k \/ (lang = "py" /\ SameText(g, k))
                        single == known # {} /\ agree /\ (lang = "py" => known = reach)
                    IN IF before # {} THEN def \in before /\ \A g \in before : g[2] <= def[2]
                       ELSE IF single THEN def \in known ELSE def \in Bbl
  BY <1>1, SMTT(30) DEF DefsExact
<1> QED
  BY DEF ExactAt

(* DefAt finds the last definition before instruction i of b, if any.      *)
Earlier(b, i, r) == {k \in 1 .. i - 1 : Defines(code[b][k], r)}

(* DefAt is that definition, or what entered the bbl. *)
LEMMA DefAtIs ==
  ASSUME NEW b \in Bbl, NEW i \in Nat, i # 0, NEW r
  PROVE  /\ Earlier(b, i, r) = {} => DefAt(b, i, r) = Settled[b][r]
         /\ Earlier(b, i, r) # {} => DefAt(b, i, r) = <<b, Max(Earlier(b, i, r))>>
<1> DEFINE I == {k \in 1 .. i - 1 : Defines(code[b][k], r)}
           last == SelectLastInSubSeq(code[b], 1, i - 1, LAMBDA ins : Defines(ins, r))
<1>1. I = Earlier(b, i, r) /\ i - 1 \in Nat
  BY DEF Earlier
<1>2. last = IF I # {} THEN Max(I) ELSE 0
  BY DEF SelectLastInSubSeq
<1>3. DefAt(b, i, r) = IF last = 0 THEN Settled[b][r] ELSE <<b, last>>
  BY DEF DefAt
<1> HIDE DEF I, last
<1>4. I # {} => Max(I) # 0
  <2>1. I \in SUBSET (1 .. i - 1)
    BY DEF I
  <2> QED
    BY <1>1, <2>1, Latest
<1> QED
  BY <1>1, <1>2, <1>3, <1>4

(* What the end of the solver writes into the instructions is exact. *)
LEMMA PublishExact ==
  ASSUME SolverInv, Publish
  PROVE  DefsExact'
<1>1. /\ source \in Programs /\ code = FreshCode /\ active = <<>>
      /\ lang' = lang /\ source' = source
      /\ code' = [b \in Bbl |-> [i \in DOMAIN code[b] |->
                    [code[b][i] EXCEPT !.defs = OperandDefs(b, i)]]]
      /\ pc' = "regs" => ~\E g \in Places : Contains(At(code', g).defs, NoDef)
  BY DEF Publish, SolverInv, SolverTypes
<1>2. ASSUME NEW h \in Places
      PROVE  /\ At(code', h).opc = At(source.code, h).opc
             /\ At(code', h).ops = At(source.code, h).ops
             /\ At(code', h).defs = OperandDefs(h[1], h[2])
             /\ code[h[1]][h[2]].opc = At(source.code, h).opc
             /\ code[h[1]][h[2]].ops = At(source.code, h).ops
  <2>1. h[1] \in Bbl /\ h[2] \in DOMAIN code[h[1]]
    BY <1>1, Shape, CodeShape
  <2>2. At(code', h) = [code[h[1]][h[2]] EXCEPT !.defs = OperandDefs(h[1], h[2])]
    BY <1>1, <2>1 DEF At
  <2>3. code[h[1]][h[2]] = Fresh(At(source.code, h))
    BY <1>1, CodeShape DEF At
  <2> QED
    BY <2>2, <2>3 DEF Fresh
<1>3. ASSUME pc' = "regs", NEW h \in Places, NEW n \in UseSlots(At(code', h))
      PROVE  ExactAt(code', h, n)
  <2> DEFINE b == h[1]
             i == h[2]
             ins == At(source.code, h)
             r == ins.ops[n]
             I == Earlier(b, i, r)
             def == DefAt(b, i, r)
             before == {g \in Places : g[1] = b /\ g[2] < i /\ Defines(At(code', g), r)}
  <2>1. /\ b \in Bbl /\ h = <<b, i>> /\ i \in DOMAIN source.code[b] /\ ins \in Instruction
        /\ i \in 1 .. Len(source.code[b]) /\ Len(source.code[b]) \in Nat
        /\ DOMAIN source.code[b] = 1 .. Len(source.code[b])
    BY <1>1, Shape
  <2>2. /\ n \in DOMAIN ins.ops /\ n > NumDefs(ins.opc) /\ r \in Reg
        /\ n \in UseSlots(ins) /\ n \in UseSlots(code[b][i])
    BY <1>2 DEF UseSlots
  <2>3. At(code', h).ops[n] = r /\ At(code', h).defs[n] = def
    BY <1>2, <2>2 DEF OperandDefs
  <2>4. ASSUME NEW k \in 1 .. i - 1
        PROVE  /\ <<b, k>> \in Places /\ k \in DOMAIN source.code[b]
               /\ Defines(code[b][k], r) <=> Defines(source.code[b][k], r)
               /\ Defines(At(code', <<b, k>>), r) <=> Defines(code[b][k], r)
    <3>1. k \in DOMAIN source.code[b]
      BY <2>1
    <3>2. <<b, k>> \in Places
      BY <1>1, <2>1, <3>1, Shape
    <3> QED
      BY <1>2, <3>1, <3>2 DEF Defines, At
  <2>5. ASSUME NEW g \in before
        PROVE  g[2] \in I /\ g = <<b, g[2]>>
    <3>1. g[2] \in DOMAIN source.code[b] /\ g = <<b, g[2]>> /\ g[2] < i
      BY <1>1, Shape
    <3>2. g[2] \in 1 .. i - 1
      BY <2>1, <3>1
    <3> QED
      BY <2>4, <3>1, <3>2 DEF Earlier
  <2>6. \A k \in I : <<b, k>> \in before
    BY <2>1, <2>4 DEF Earlier
  <2>7. i \in Nat /\ i # 0 /\ i - 1 \in Nat /\ I \in SUBSET (1 .. i - 1)
    BY <2>1 DEF Earlier
  <2> DEFINE reach == Reaching(r)[b]
             known == reach \ {NoDef}
             agree == \A g, k \in known : g = k \/ (lang = "py" /\ SameText(g, k))
             single == known # {} /\ agree /\ (lang = "py" => known = reach)
  <2>8. SUFFICES IF before # {} THEN def \in before /\ \A g \in before : g[2] <= def[2]
                 ELSE IF single THEN def \in known ELSE def \in Bbl
    BY <2>3 DEF ExactAt
  <2>9. CASE I # {}
    <3>1. Max(I) \in I /\ \A k \in I : k <= Max(I)
      <4> HIDE DEF I, i
      <4> QED
        BY <2>7, <2>9, Latest
    <3>2. def = <<b, Max(I)>>
      BY <2>1, <2>7, <2>9, DefAtIs
    <3> HIDE DEF I, def, before, reach, b, i
    <3>3. def \in before /\ def[2] = Max(I)
      BY <2>6, <3>1, <3>2
    <3>4. \A g \in before : g[2] <= def[2]
      BY <2>5, <3>1, <3>3
    <3> QED
      BY <3>3, <3>4
  <2>10. CASE I = {}
    <3>1. def = Settled[b][r]
      BY <2>1, <2>7, <2>10, DefAtIs
    <3>2. before = {}
      BY <2>5, <2>10
    <3>3. ReadFirst(source.code[b], r)
      <4>1. \A j \in 1 .. i - 1 : ~Defines(source.code[b][j], r)
        BY <2>4, <2>10 DEF Earlier
      <4> QED
        BY <2>1, <2>2, <4>1 DEF ReadFirst, At
    <3>4. def # NoDef
      <4>1. ~Contains(OperandDefs(b, i), NoDef)
        BY <1>1, <1>2, <1>3
      <4>2. n \in 1 .. Len(OperandDefs(b, i))
        <5> DEFINE ops == ins.ops
                   F == OperandDefs(b, i)
                   S == {F[k] : k \in DOMAIN ops}
        <5>1. ops \in Seq(Reg \cup Mem \cup Nat)
          BY <2>1 DEF Instruction
        <5>2. DOMAIN ops = 1 .. Len(ops) /\ Len(ops) \in Nat /\ n \in DOMAIN ops
          BY <2>2, <5>1
        <5>3. F = [k \in DOMAIN ops |-> F[k]]
          BY <1>2 DEF OperandDefs
        <5> HIDE DEF F, ops
        <5>4. F \in [1 .. Len(ops) -> S]
          BY <5>2, <5>3
        <5> HIDE DEF S
        <5>5. Len(F) = Len(ops)
          BY <5>2, <5>4
        <5> QED
          BY <5>2, <5>5 DEF F
      <4>3. OperandDefs(b, i)[n] = def
        BY <1>2, <2>3
      <4> QED
        BY <4>1, <4>2, <4>3 DEF Contains
    <3>5. Exact(b, r, def)
      <4> HIDE DEF b, r, def
      <4> QED
        BY <1>1, <2>1, <2>2, <3>1, <3>3, <3>4, SettledExact
    <3>6. known \subseteq Places
      BY <1>1, <2>1, ReachingClosed DEF Fact
    <3>7. agree <=> \A g, k \in known : Same(g, k)
      BY <3>6 DEF Same
    <3> QED
      BY <3>2, <3>5, <3>7 DEF Exact
  <2> QED
    BY <2>9, <2>10
<1> QED
  BY <1>1, <1>3, DefsExactNext

-----------------------------------------------------------------------------
(* No other step starts or ends while the solver runs. *)
LEMMA OtherSteps ==
  ASSUME FunPropagateRegs \/ FunPropagateConsts \/ FunStrengthReduction \/ FunLoadStoreSimplify
  PROVE  pc # "fixpoint" /\ pc' # "fixpoint" /\ pc' # "regs"
<1>1. CASE FunPropagateRegs
  BY <1>1 DEF FunPropagateRegs, Rewritten
<1>2. CASE FunPropagateConsts
  BY <1>2 DEF FunPropagateConsts, Rewritten
<1>3. CASE FunStrengthReduction
  BY <1>3 DEF FunStrengthReduction, Rewritten
<1>4. CASE FunLoadStoreSimplify
  BY <1>4 DEF FunLoadStoreSimplify, Rewritten
<1> QED
  BY <1>1, <1>2, <1>3, <1>4

(* A stuttering step keeps the invariant. *)
LEMMA Unchanging ==
  ASSUME UNCHANGED vars, SolverInv
  PROVE  SolverInv'
<1>1. /\ lang' = lang /\ source' = source /\ code' = code /\ defs_in' = defs_in
      /\ defs_out' = defs_out /\ active' = active /\ active_set' = active_set
  BY DEF vars
<1>2. /\ Places' = Places /\ Definition' = Definition /\ FreshCode' = FreshCode
      /\ \A b : Succ(b)' = Succ(b)
      /\ \A b, r : Own(b, r)' = Own(b, r)
      /\ \A x, y : Same(x, y)' <=> Same(x, y)
      /\ \A r : Reaching(r)' = Reaching(r)
      /\ \A r : ReadSomewhere(r)' <=> ReadSomewhere(r)
      /\ \A R : Several(R)' <=> Several(R)
      /\ \A x, y, s : Covers(x, y, s)' <=> Covers(x, y, s)
  BY <1>1, Kept
<1>3. SolverTypes'
  BY <1>1, <1>2 DEF SolverInv, SolverTypes
<1>4. Carried'
  BY <1>1, <1>2 DEF SolverInv, Carried
<1>5. SettledUnlessActive'
  <2>1. \A b : NewOut(b)' = NewOut(b)
    BY <1>1 DEF NewOut
  <2> QED
    BY <1>1, <1>2, <2>1 DEF SolverInv, SettledUnlessActive
<1>6. Merged'
  BY <1>1, <1>2 DEF SolverInv, Merged
<1>7. AllJustified'
  BY <1>1, <1>2 DEF SolverInv, AllJustified, Justified
<1>8. UndefinedKnown'
  BY <1>1, <1>2 DEF SolverInv, UndefinedKnown
<1> QED
  BY <1>3, <1>4, <1>5, <1>6, <1>7, <1>8 DEF SolverInv

(* Every step keeps the invariant. *)
LEMMA StepKeepsInv ==
  ASSUME IInv, [Next]_vars
  PROVE  IInv'
<1>1. CASE Visit
  <2>1. pc = "fixpoint" /\ pc' = "fixpoint"
    BY <1>1 DEF Visit
  <2>2. SolverInv'
    BY <1>1, <2>1, VisitKeepsInv DEF IInv
  <2>3. DefsExact'
    BY <2>1 DEF DefsExact
  <2> QED
    BY <2>2, <2>3 DEF IInv
<1>2. CASE Publish
  <2>1. pc = "fixpoint" /\ pc' # "fixpoint"
    BY <1>2 DEF Publish
  <2>2. DefsExact'
    BY <1>2, <2>1, PublishExact DEF IInv
  <2> QED
    BY <2>1, <2>2 DEF IInv
<1>3. CASE FunPropagateRegs \/ FunPropagateConsts \/ FunStrengthReduction \/ FunLoadStoreSimplify
  BY <1>3, OtherSteps DEF IInv, DefsExact
<1>4. CASE UNCHANGED vars
  <2>1. pc' = "fixpoint" => SolverInv'
    BY <1>4, Unchanging DEF vars, IInv
  <2>2. DefsExact'
    <3>1. lang' = lang /\ source' = source /\ code' = code /\ pc' = pc
      BY <1>4 DEF vars
    <3>2. pc = "regs" => \A h \in Places : \A n \in UseSlots(At(code, h)) : ExactAt(code, h, n)
      BY DEF IInv, DefsExact, ExactAt
    <3>3. \A h : UseSlots(At(code', h)) = UseSlots(At(code, h))
      BY <3>1
    <3>4. \A h, n : ExactAt(code', h, n) <=> ExactAt(code, h, n)
      BY <3>1
    <3>5. pc' = "regs" => \A h \in Places : \A n \in UseSlots(At(code', h)) : ExactAt(code', h, n)
      BY <3>1, <3>2, <3>3, <3>4
    <3> QED
      BY <3>1, <3>5, DefsExactNext
  <2> QED
    BY <1>4, <2>1, <2>2 DEF vars, IInv
<1> QED
  BY <1>1, <1>2, <1>3, <1>4 DEF Next

(* The invariant holds of every function, in Python and in the port. *)
THEOREM SolverInvariance == Spec => []IInv
<1>1. Init => IInv
  BY InitInv DEF Init, IInv, DefsExact
<1>2. IInv /\ [Next]_vars => IInv'
  BY StepKeepsInv
<1> QED
  BY <1>1, <1>2, PTL DEF Spec

(***************************************************************************)
(* When the solver has ended, each use of a register has got an            *)
(* instruction exactly when that is the only definition that reaches it on *)
(* any path, and else a bbl.                                               *)
(***************************************************************************)
THEOREM DefinitionsExact == Spec => []DefsExact
<1>1. IInv => DefsExact
  BY DEF IInv
<1> QED
  BY <1>1, SolverInvariance, PTL

(***************************************************************************)
(* Every visit shortens the worklist or moves what leaves a bbl towards    *)
(* the top, so no function makes the solver run forever.                   *)
(***************************************************************************)
THEOREM EveryVisitProgresses == Spec => VisitsProgress
<1>1. IInv /\ [Next]_vars =>
        [pc = "fixpoint" /\ pc' = "fixpoint" =>
           \/ defs_out' = defs_out /\ defs_in' = defs_in /\ Len(active') < Len(active)
           \/ /\ defs_out' # defs_out
              /\ \A b \in Bbl, r \in Reg :
                   \/ defs_out'[b][r] = defs_out[b][r]
                   \/ Rank(b, defs_out[b][r]) < Rank(b, defs_out'[b][r])]_vars
  <2> SUFFICES ASSUME IInv, Next, pc = "fixpoint", pc' = "fixpoint"
               PROVE  \/ defs_out' = defs_out /\ defs_in' = defs_in /\ Len(active') < Len(active)
                      \/ /\ defs_out' # defs_out
                         /\ \A b \in Bbl, r \in Reg :
                              \/ defs_out'[b][r] = defs_out[b][r]
                              \/ Rank(b, defs_out[b][r]) < Rank(b, defs_out'[b][r])
    OBVIOUS
  <2>1. Visit
    BY OtherSteps DEF Next, Publish
  <2> QED
    BY <2>1, VisitProgresses DEF IInv
<1> QED
  BY <1>1, SolverInvariance, PTL DEF Spec, VisitsProgress

-----------------------------------------------------------------------------
(* The lookups of the passes. *)

(* r is defined when the instruction at h is reached: something came into  *)
(* its bbl for it, or an earlier instruction of the bbl writes it.         *)
Defined(h, r) ==
  \/ defs_in[h[1]][r] # NoDef
  \/ \E j \in 1 .. h[2] - 1 : Defines(source.code[h[1]][j], r)

(* What is defined at g is defined at h: some path leads from g to h. *)
Before(g, h) == \A r \in Reg : Defined(g, r) => Defined(h, r)

(* The opcodes, operands and definitions while the passes run. *)
Opcode ==
  {At(source.code, h).opc : h \in Places} \cup {"mov", "lea", "ld", "st", "lea_mem", "ld_mem", "st_mem"}
Operand == Reg \cup Mem \cup Nat
OperandDef == Places \cup Bbl \cup {INVALID}
Annotated == [opc : Opcode, ops : Seq(Operand), defs : Seq(OperandDef)]

(* The instruction at h still writes what it wrote, it reads defined       *)
(* registers only, and the definitions it refers to come before it.        *)
Sound(h, ins) ==
  /\ ins \in Annotated /\ Len(ins.defs) = Len(ins.ops) /\ WellFormed(ins)
  /\ NumDefs(ins.opc) = NumDefs(At(source.code, h).opc)
  /\ NumDefs(ins.opc) = 1 => ins.ops[1] = At(source.code, h).ops[1]
  /\ \A n \in UseSlots(ins) : Defined(h, ins.ops[n])
  /\ \A n \in DOMAIN ins.defs :
       ins.defs[n] \in Places => n \in UseSlots(ins) /\ Before(ins.defs[n], h)

SoundCode ==
  {c \in [Bbl -> Seq(Annotated)] :
     /\ \A b \in Bbl : Len(c[b]) = Len(source.code[b])
     /\ \A h \in Places : Sound(h, At(c, h))}

(* Python's passes keep the code sound, and no lookup has failed. *)
LookupInv ==
  /\ pc # "failed" /\ lang \in {"py", "cc"}
  /\ pc # "fixpoint" /\ lang = "py" =>
       /\ source \in Programs /\ defs_in \in [Bbl -> [Reg -> Definition]]
       /\ code \in SoundCode

(* What the passes need to know of the solver's result. *)
Context ==
  lang = "py" /\ source \in Programs /\ defs_in \in [Bbl -> [Reg -> Definition]]

(* The states of a pass, and those in which the instruction at h may look  *)
(* up every register that is defined there.                                *)
Fine == {TRUE}
States == [code : SoundCode, avail : [Reg -> Definition], ok : Fine]
Ready(h) == {st \in States : \A r \in Reg : Defined(h, r) => st.avail[r] # NoDef}

(* A place of sound code holds a sound instruction. *)
LEMMA SoundAt ==
  ASSUME Context, NEW c \in SoundCode, NEW h \in Places
  PROVE  /\ Sound(h, At(c, h)) /\ h[1] \in Bbl /\ c \in [Bbl -> Seq(Annotated)]
         /\ Len(c[h[1]]) \in Nat /\ h[2] \in 1 .. Len(c[h[1]])
<1>1. /\ h[1] \in Bbl /\ h[2] \in DOMAIN source.code[h[1]]
      /\ DOMAIN source.code[h[1]] = 1 .. Len(source.code[h[1]])
  BY Shape DEF Context
<1>2. /\ c \in [Bbl -> Seq(Annotated)] /\ Len(c[h[1]]) = Len(source.code[h[1]])
      /\ Sound(h, At(c, h))
  BY <1>1 DEF SoundCode
<1> QED
  BY <1>1, <1>2

(* Code stays sound when a sound instruction replaces one. *)
LEMMA Replacing ==
  ASSUME Context, NEW c \in SoundCode, NEW h \in Places, NEW new, Sound(h, new)
  PROVE  /\ [c EXCEPT ![h[1]][h[2]] = new] \in SoundCode
         /\ At([c EXCEPT ![h[1]][h[2]] = new], h) = new
<1> DEFINE b == h[1]
           i == h[2]
           body == [c[b] EXCEPT ![i] = new]
           d == [c EXCEPT ![b] = body]
<1>1. b \in Bbl /\ c \in [Bbl -> Seq(Annotated)] /\ i \in 1 .. Len(c[b]) /\ Len(c[b]) \in Nat
  BY SoundAt
<1>2. new \in Annotated
  BY DEF Sound
<1>3. body \in Seq(Annotated) /\ Len(body) = Len(c[b]) /\ body[i] = new
      /\ \A j \in 1 .. Len(c[b]) : j # i => body[j] = c[b][j]
  <2> DEFINE s == c[b]
  <2>1. s \in Seq(Annotated) /\ i \in 1 .. Len(s)
    BY <1>1
  <2>2. body = [s EXCEPT ![i] = new]
    OBVIOUS
  <2> HIDE DEF s, i, body
  <2>3. body \in Seq(Annotated) /\ Len(body) = Len(s) /\ body[i] = new
        /\ \A j \in 1 .. Len(s) : j # i => body[j] = s[j]
    BY <1>2, <2>1, <2>2
  <2> QED
    BY <2>3 DEF s, i
<1>4. d = [c EXCEPT ![h[1]][h[2]] = new]
  OBVIOUS
<1> HIDE DEF body
<1>5. d \in [Bbl -> Seq(Annotated)] /\ d[b] = body /\ \A a \in Bbl : a # b => d[a] = c[a]
  BY <1>1, <1>3
<1> HIDE DEF d
<1>6. At(d, h) = new
  BY <1>3, <1>5 DEF At
<1>7. \A a \in Bbl : Len(d[a]) = Len(source.code[a])
  BY <1>3, <1>5 DEF SoundCode
<1>8. ASSUME NEW g \in Places
      PROVE  Sound(g, At(d, g))
  <2>1. g[1] \in Bbl /\ g[2] \in 1 .. Len(c[g[1]]) /\ Sound(g, At(c, g))
    BY SoundAt
  <2>2. g = <<g[1], g[2]>> /\ h = <<b, i>>
    BY Shape DEF Context
  <2>3. CASE g = h
    BY <1>6, <2>3
  <2>4. CASE g # h
    <3>1. g[1] # b \/ g[2] # i
      BY <2>2, <2>4
    <3>2. At(d, g) = At(c, g)
      BY <1>3, <1>5, <2>1, <3>1 DEF At
    <3> QED
      BY <2>1, <3>2
  <2> QED
    BY <2>3, <2>4
<1> QED
  BY <1>4, <1>5, <1>6, <1>7, <1>8 DEF SoundCode

(* A lookup of a defined register finds it. *)
LEMMA LookedIs ==
  ASSUME NEW h, NEW st \in Ready(h), NEW op, op \in Reg => Defined(h, op)
  PROVE  Looked(st, op) = st
<1>1. st \in States /\ (op \in Reg => st.avail[op] # NoDef)
  BY DEF Ready
<1>2. st = [code |-> st.code, avail |-> st.avail, ok |-> st.ok] /\ st.ok \in Fine
  BY <1>1 DEF States
<1>3. Looked(st, op) = [st EXCEPT !.ok = st.ok]
  <2>1. st.ok = TRUE
    BY <1>2 DEF Fine
  <2>2. (st.ok /\ (op \in Reg => st.avail[op] # NoDef)) = st.ok
    BY <1>1, <2>1, Zenon
  <2> QED
    BY <2>2 DEF Looked
<1> QED
  BY <1>2, <1>3

(* What SetOperand makes of an instruction. *)
Edited(ins, n, op, def) == [ins EXCEPT !.ops[n] = op, !.defs[n] = def]

Typed == [code : [Bbl -> Seq(Annotated)], avail : [Reg -> Definition], ok : Fine]
Body(c, h, new) == [c[h[1]] EXCEPT ![h[2]] = new]
WithCode(st, c) == [st EXCEPT !.code = c]
Put(st, h, new) == WithCode(st, [st.code EXCEPT ![h[1]] = Body(st.code, h, new)])

(* A state with other code. *)
LEMMA WithCodeIs ==
  ASSUME NEW st, NEW C, st \in [code : C, avail : [Reg -> Definition], ok : Fine], NEW c
  PROVE  /\ WithCode(st, c) = [code |-> c, avail |-> st.avail, ok |-> st.ok]
         /\ st = [code |-> st.code, avail |-> st.avail, ok |-> st.ok]
BY DEF WithCode

(* It replaces the instruction by the edited one. *)
LEMMA SetOperandIs ==
  ASSUME NEW st \in Typed, NEW h, h[1] \in Bbl, h[2] \in DOMAIN st.code[h[1]],
         NEW n, NEW op, NEW def
  PROVE  SetOperand(st, h, n, op, def) = Put(st, h, Edited(At(st.code, h), n, op, def))
  BY DEF SetOperand, Edited, At, Typed, Put, WithCode, Body

(* Writing an instruction twice is writing it once. *)
LEMMA Writing ==
  ASSUME NEW st \in Typed, NEW h, h[1] \in Bbl, h[2] \in 1 .. Len(st.code[h[1]]),
         Len(st.code[h[1]]) \in Nat, NEW new \in Annotated
  PROVE  /\ Put(st, h, new) \in Typed /\ At(Put(st, h, new).code, h) = new
         /\ Len(Put(st, h, new).code[h[1]]) = Len(st.code[h[1]])
         /\ h[2] \in DOMAIN Put(st, h, new).code[h[1]]
         /\ Put(st, h, new).avail = st.avail
         /\ \A other : Put(Put(st, h, new), h, other) = Put(st, h, other)
<1> DEFINE b == h[1]
           i == h[2]
           c == st.code
           s == c[b]
           body == [s EXCEPT ![i] = new]
           d == [c EXCEPT ![b] = body]
           w == WithCode(st, d)
<1>1. /\ c \in [Bbl -> Seq(Annotated)] /\ s \in Seq(Annotated) /\ i \in 1 .. Len(s) /\ b \in Bbl
      /\ Len(s) \in Nat
  BY DEF Typed
<1>2. st = [code |-> c, avail |-> st.avail, ok |-> st.ok] /\ st.avail \in [Reg -> Definition]
  BY DEF Typed
<1>3. Put(st, h, new) = w /\ w = [code |-> d, avail |-> st.avail, ok |-> st.ok]
  BY WithCodeIs DEF Put, Body, Typed
<1>4. body \in Seq(Annotated) /\ Len(body) = Len(s) /\ body[i] = new /\ DOMAIN body = 1 .. Len(s)
      /\ \A other : [body EXCEPT ![i] = other] = [s EXCEPT ![i] = other]
  <2> HIDE DEF s, i
  <2> QED
    BY <1>1
<1>5. d \in [Bbl -> Seq(Annotated)] /\ d[b] = body
      /\ \A more : [d EXCEPT ![b] = more] = [c EXCEPT ![b] = more]
  <2> HIDE DEF body, c, b
  <2> QED
    BY <1>1, <1>4
<1>7. w \in Typed /\ w.code = d /\ w.avail = st.avail /\ w.ok = st.ok
  <2>1. st.ok \in Fine
    BY DEF Typed
  <2> HIDE DEF d, w
  <2>2. w.code = d /\ w.avail = st.avail /\ w.ok = st.ok
    BY <1>3
  <2>3. w \in [code : [Bbl -> Seq(Annotated)], avail : [Reg -> Definition], ok : Fine]
    BY <1>2, <1>3, <1>5, <2>1
  <2> QED
    BY <2>2, <2>3 DEF Typed
<1>6. \A other : Put(w, h, other) = Put(st, h, other)
  <2> SUFFICES ASSUME NEW other
               PROVE  Put(w, h, other) = Put(st, h, other)
    OBVIOUS
  <2>1. Put(w, h, other) = [code |-> [d EXCEPT ![b] = [d[b] EXCEPT ![i] = other]],
                            avail |-> st.avail, ok |-> st.ok]
    <3> DEFINE more == [d EXCEPT ![b] = [d[b] EXCEPT ![i] = other]]
    <3>1. Put(w, h, other) = WithCode(w, more)
      <4> HIDE DEF d, w
      <4> QED
        BY <1>7 DEF Put, Body
    <3>2. Put(w, h, other) = [code |-> more, avail |-> st.avail, ok |-> st.ok]
      <4> DEFINE C == [Bbl -> Seq(Annotated)]
      <4>1. w \in [code : C, avail : [Reg -> Definition], ok : Fine]
        BY <1>7 DEF Typed
      <4> HIDE DEF more, w, d, C
      <4>2. WithCode(w, more) = [code |-> more, avail |-> w.avail, ok |-> w.ok]
        BY <4>1, WithCodeIs
      <4> QED
        BY <1>7, <3>1, <4>2
    <3> QED
      BY <3>2
  <2>2. Put(st, h, other) = [code |-> [c EXCEPT ![b] = [s EXCEPT ![i] = other]],
                             avail |-> st.avail, ok |-> st.ok]
    BY WithCodeIs DEF Put, Body, Typed
  <2>3. [d EXCEPT ![b] = [d[b] EXCEPT ![i] = other]] = [c EXCEPT ![b] = [s EXCEPT ![i] = other]]
    <3> DEFINE u == [body EXCEPT ![i] = other]
               v == [s EXCEPT ![i] = other]
    <3>1. u = v /\ d[b] = body
      BY <1>4, <1>5
    <3> HIDE DEF u, v
    <3>2. [d EXCEPT ![b] = v] = [c EXCEPT ![b] = v]
      BY <1>5
    <3> HIDE DEF d, body, s, c
    <3> QED
      BY <3>1, <3>2 DEF u, v
  <2> QED
    BY <2>1, <2>2, <2>3
<1> HIDE DEF d, body, w
<1>8. At(w.code, h) = new /\ Len(w.code[b]) = Len(s) /\ DOMAIN w.code[b] = 1 .. Len(s)
  BY <1>4, <1>5, <1>7 DEF At
<1> QED
  BY <1>1, <1>3, <1>6, <1>7, <1>8

(* A state in which a pass may go on. *)
LEMMA ReadyIs ==
  ASSUME Context, NEW h \in Places, NEW st \in Ready(h)
  PROVE  /\ st \in States /\ st \in Typed /\ st.code \in SoundCode
         /\ h[1] \in Bbl /\ h[2] \in 1 .. Len(st.code[h[1]]) /\ Len(st.code[h[1]]) \in Nat
         /\ h[2] \in DOMAIN st.code[h[1]]
         /\ Sound(h, At(st.code, h)) /\ At(st.code, h) \in Annotated
         /\ \A g \in Places : Sound(g, At(st.code, g))
<1>1. st \in States /\ st.code \in SoundCode /\ st.avail \in [Reg -> Definition] /\ st.ok \in Fine
      /\ st = [code |-> st.code, avail |-> st.avail, ok |-> st.ok]
  BY DEF Ready, States
<1>2. st.code \in [Bbl -> Seq(Annotated)]
  BY <1>1, SoundAt
<1>3. st \in Typed
  BY <1>1, <1>2 DEF Typed
<1>4. /\ Sound(h, At(st.code, h)) /\ h[1] \in Bbl /\ Len(st.code[h[1]]) \in Nat
      /\ h[2] \in 1 .. Len(st.code[h[1]])
  BY <1>1, SoundAt
<1>5. h[2] \in DOMAIN st.code[h[1]]
  BY <1>2, <1>4
<1>6. At(st.code, h) \in Annotated
  BY <1>4 DEF Sound
<1>7. \A g \in Places : Sound(g, At(st.code, g))
  BY <1>1, SoundAt
<1> QED
  BY <1>1, <1>3, <1>4, <1>5, <1>6, <1>7

(* It stays so when a sound instruction replaces the one at h. *)
LEMMA PutReady ==
  ASSUME Context, NEW h \in Places, NEW st \in Ready(h), NEW new, Sound(h, new)
  PROVE  Put(st, h, new) \in Ready(h) /\ At(Put(st, h, new).code, h) = new
<1> DEFINE d == [st.code EXCEPT ![h[1]][h[2]] = new]
           w == Put(st, h, new)
<1>1. st \in States /\ st.code \in SoundCode /\ st = [code |-> st.code, avail |-> st.avail, ok |-> st.ok]
  BY ReadyIs DEF States
<1>2. d \in SoundCode /\ At(d, h) = new
  BY <1>1, Replacing
<1>3. w = [code |-> d, avail |-> st.avail, ok |-> st.ok]
  BY <1>1, WithCodeIs DEF Put, Body, States
<1> HIDE DEF d, w
<1>4. w \in States /\ w.avail = st.avail /\ w.code = d
  BY <1>1, <1>2, <1>3 DEF States
<1> QED
  BY <1>2, <1>4 DEF Ready, w

-----------------------------------------------------------------------------
(* What the passes do with an instruction. *)

(* An operand that may stand in the instruction at h. *)
Admissible(h, op, def) ==
  /\ op \in Reg => Defined(h, op)
  /\ def \in Places => op \in Reg /\ Before(def, h)

(* An instruction whose operands are kept, or replaced by admissible ones, *)
(* stays sound.                                                            *)
LEMMA EditedSound ==
  ASSUME NEW h, NEW ins, Sound(h, ins), NEW new \in Annotated,
         Len(new.ops) = Len(ins.ops), Len(new.defs) = Len(ins.ops), WellFormed(new),
         NumDefs(new.opc) = NumDefs(ins.opc),
         \A k \in 1 .. Len(ins.ops) :
           \/ new.ops[k] = ins.ops[k] /\ new.defs[k] = ins.defs[k]
           \/ k > NumDefs(ins.opc) /\ Admissible(h, new.ops[k], new.defs[k]),
         NumDefs(ins.opc) = 1 => new.ops[1] = ins.ops[1]
  PROVE  Sound(h, new)
<1>1. /\ ins \in Annotated /\ Len(ins.defs) = Len(ins.ops) /\ Len(ins.ops) \in Nat
      /\ DOMAIN ins.ops = 1 .. Len(ins.ops) /\ DOMAIN new.ops = 1 .. Len(ins.ops)
      /\ DOMAIN ins.defs = 1 .. Len(ins.ops) /\ DOMAIN new.defs = 1 .. Len(ins.ops)
  BY DEF Sound, Annotated
<1>2. ASSUME NEW n \in UseSlots(new)
      PROVE  Defined(h, new.ops[n])
  <2>1. n \in 1 .. Len(ins.ops) /\ n > NumDefs(ins.opc) /\ new.ops[n] \in Reg
    BY <1>1 DEF UseSlots
  <2>2. CASE new.ops[n] = ins.ops[n]
    <3>1. n \in UseSlots(ins)
      BY <1>1, <2>1, <2>2 DEF UseSlots
    <3> QED
      BY <2>2, <3>1 DEF Sound
  <2> QED
    BY <2>1, <2>2 DEF Admissible
<1>3. ASSUME NEW n \in DOMAIN new.defs, new.defs[n] \in Places
      PROVE  n \in UseSlots(new) /\ Before(new.defs[n], h)
  <2>1. n \in 1 .. Len(ins.ops)
    BY <1>1
  <2>2. CASE new.ops[n] = ins.ops[n] /\ new.defs[n] = ins.defs[n]
    <3>1. n \in UseSlots(ins) /\ Before(ins.defs[n], h)
      BY <1>1, <1>3, <2>1, <2>2 DEF Sound
    <3> QED
      BY <1>1, <2>1, <2>2, <3>1 DEF UseSlots
  <2>3. CASE n > NumDefs(ins.opc) /\ Admissible(h, new.ops[n], new.defs[n])
    BY <1>1, <1>3, <2>1, <2>3 DEF Admissible, UseSlots
  <2> QED
    BY <2>1, <2>2, <2>3
<1> QED
  BY <1>2, <1>3 DEF Sound

(* Operands of an instruction before h may stand in the one at h. *)
LEMMA Inherited ==
  ASSUME NEW g, NEW ins, Sound(g, ins), NEW h, Before(g, h),
         NEW k \in 1 .. Len(ins.ops), k > NumDefs(ins.opc)
  PROVE  /\ Admissible(h, ins.ops[k], ins.defs[k])
         /\ ins.ops[k] \in Operand /\ ins.defs[k] \in OperandDef
<1>1. /\ ins \in Annotated /\ Len(ins.ops) \in Nat /\ DOMAIN ins.ops = 1 .. Len(ins.ops)
      /\ DOMAIN ins.defs = 1 .. Len(ins.ops)
      /\ ins.ops[k] \in Operand /\ ins.defs[k] \in OperandDef
  BY DEF Sound, Annotated
<1>2. ins.ops[k] \in Reg => Defined(h, ins.ops[k])
  <2> SUFFICES ASSUME ins.ops[k] \in Reg
               PROVE  Defined(h, ins.ops[k])
    OBVIOUS
  <2>1. k \in UseSlots(ins)
    BY <1>1 DEF UseSlots
  <2> QED
    BY <2>1 DEF Sound, Before
<1>3. ins.defs[k] \in Places => ins.ops[k] \in Reg /\ Before(ins.defs[k], h)
  <2> SUFFICES ASSUME ins.defs[k] \in Places
               PROVE  ins.ops[k] \in Reg /\ Before(ins.defs[k], h)
    OBVIOUS
  <2>1. k \in UseSlots(ins) /\ Before(ins.defs[k], g)
    BY <1>1 DEF Sound
  <2> QED
    BY <2>1 DEF UseSlots, Before
<1> QED
  BY <1>1, <1>2, <1>3 DEF Admissible

(* An edited instruction has one other operand. *)
Edits(ins, n, op, def, new) ==
  /\ new \in Annotated /\ new.opc = ins.opc
  /\ Len(new.ops) = Len(ins.ops) /\ Len(new.defs) = Len(ins.ops)
  /\ new.ops[n] = op /\ new.defs[n] = def
  /\ \A k \in 1 .. Len(ins.ops) :
       k # n => new.ops[k] = ins.ops[k] /\ new.defs[k] = ins.defs[k]

(* Edited edits one operand. *)
LEMMA EditedIs ==
  ASSUME NEW ins \in Annotated, Len(ins.defs) = Len(ins.ops), NEW n \in 1 .. Len(ins.ops),
         NEW op \in Operand, NEW def \in OperandDef
  PROVE  Edits(ins, n, op, def, Edited(ins, n, op, def))
<1> DEFINE ops == [ins.ops EXCEPT ![n] = op]
           defs == [ins.defs EXCEPT ![n] = def]
           new == Edited(ins, n, op, def)
<1>1. /\ ops \in Seq(Operand) /\ Len(ops) = Len(ins.ops) /\ ops[n] = op
      /\ \A k \in 1 .. Len(ins.ops) : k # n => ops[k] = ins.ops[k]
  <2> DEFINE s == ins.ops
  <2>1. s \in Seq(Operand)
    BY DEF Annotated
  <2> HIDE DEF s
  <2> QED
    BY <2>1 DEF s
<1>2. /\ defs \in Seq(OperandDef) /\ Len(defs) = Len(ins.ops) /\ defs[n] = def
      /\ \A k \in 1 .. Len(ins.ops) : k # n => defs[k] = ins.defs[k]
  <2> DEFINE s == ins.defs
  <2>1. s \in Seq(OperandDef) /\ Len(s) = Len(ins.ops)
    BY DEF Annotated
  <2> HIDE DEF s
  <2> QED
    BY <2>1 DEF s
<1>3. new = [opc |-> ins.opc, ops |-> ops, defs |-> defs]
  <2> DEFINE A == Opcode
             B == Seq(Operand)
             C == Seq(OperandDef)
  <2>1. ins \in [opc : A, ops : B, defs : C]
    BY DEF Annotated
  <2> HIDE DEF A, B, C
  <2>2. new \in [opc : {ins.opc}, ops : {ops}, defs : {defs}]
    BY <2>1 DEF Edited
  <2> HIDE DEF ops, defs, new
  <2> QED
    BY <2>2
<1> HIDE DEF ops, defs
<1>4. new \in Annotated /\ new.opc = ins.opc /\ new.ops = ops /\ new.defs = defs
  BY <1>1, <1>2, <1>3 DEF Annotated
<1> QED
  BY <1>1, <1>2, <1>4 DEF Edits

(* A state that may stand before the instruction at h, whose operands are  *)
(* m.                                                                      *)
Readies(h, m) == {st \in Ready(h) : Len(At(st.code, h).ops) = m}

(* Replacing an operand by an admissible one keeps the code sound. *)
LEMMA SetOperandSound ==
  ASSUME Context, NEW h \in Places, NEW st \in Ready(h), NEW ins, ins = At(st.code, h),
         NEW n \in 1 .. Len(ins.ops), n \in UseSlots(ins),
         NEW op \in Reg \cup Nat, NEW def \in OperandDef, Admissible(h, op, def)
  PROVE  SetOperand(st, h, n, op, def) \in Readies(h, Len(ins.ops))
<1> DEFINE new == Edited(ins, n, op, def)
<1>1. /\ st \in Typed /\ h[1] \in Bbl /\ h[2] \in DOMAIN st.code[h[1]]
      /\ Sound(h, ins) /\ ins \in Annotated /\ Len(ins.defs) = Len(ins.ops) /\ WellFormed(ins)
  BY ReadyIs DEF Sound
<1>2. SetOperand(st, h, n, op, def) = Put(st, h, new)
  BY <1>1, SetOperandIs
<1>3. op \in Operand
  BY DEF Operand
<1>4. /\ new \in Annotated /\ new.opc = ins.opc
      /\ Len(new.ops) = Len(ins.ops) /\ Len(new.defs) = Len(ins.ops)
      /\ new.ops[n] = op /\ new.defs[n] = def
      /\ \A k \in 1 .. Len(ins.ops) :
           k # n => new.ops[k] = ins.ops[k] /\ new.defs[k] = ins.defs[k]
  <2>1. Edits(ins, n, op, def, new)
    BY <1>1, <1>3, EditedIs
  <2> HIDE DEF new
  <2> QED
    BY <2>1 DEF Edits
<1> HIDE DEF new
<1>5. n > NumDefs(ins.opc) /\ ins.ops[n] \in Reg
  BY DEF UseSlots
<1>6. Reg \cap Mem = {}
  BY ProgramsAssumption
<1>7. WellFormed(new)
  <2>1. ASSUME new.opc = "mov"
        PROVE  Len(new.ops) = 2
    BY <1>1, <1>4, <2>1 DEF WellFormed
  <2>2. ASSUME new.opc \in {"lea", "lea_mem", "ld", "st"}
        PROVE  Len(new.ops) = 3 /\ new.ops[OffsetSlot(new.opc)] \in Reg \cup Nat
    <3>1. Len(ins.ops) = 3 /\ ins.ops[OffsetSlot(ins.opc)] \in Reg \cup Nat
      BY <1>1, <1>4, <2>2 DEF WellFormed
    <3>2. OffsetSlot(ins.opc) \in 1 .. 3
      BY DEF OffsetSlot
    <3> QED
      BY <1>4, <3>1, <3>2
  <2>3. ASSUME new.opc = "lea_mem"
        PROVE  new.ops[2] \in Mem
    <3>1. ins.ops[2] \in Mem /\ Len(ins.ops) = 3
      BY <1>1, <1>4, <2>3 DEF WellFormed
    <3> QED
      BY <1>4, <1>5, <1>6, <3>1
  <2> QED
    BY <2>1, <2>2, <2>3 DEF WellFormed
<1>8. ASSUME NumDefs(ins.opc) = 1
      PROVE  new.ops[1] = ins.ops[1]
  <2>1. n # 1 /\ 1 \in 1 .. Len(ins.ops)
    BY <1>1, <1>5, <1>8 DEF Annotated
  <2> QED
    BY <1>4, <2>1
<1>9. Sound(h, new)
  BY <1>1, <1>4, <1>5, <1>7, <1>8, EditedSound
<1>10. Put(st, h, new) \in Ready(h) /\ At(Put(st, h, new).code, h) = new
  BY <1>9, PutReady
<1> QED
  BY <1>2, <1>4, <1>10 DEF Readies

(* A copy has two operands and its second is what it copies. *)
LEMMA CopyIs ==
  ASSUME NEW g, NEW mov, Sound(g, mov), mov.opc = "mov", NEW h, Before(g, h)
  PROVE  /\ Admissible(h, mov.ops[2], mov.defs[2])
         /\ mov.ops[2] \in Operand /\ mov.defs[2] \in OperandDef
<1>1. 2 \in 1 .. Len(mov.ops) /\ 2 > NumDefs(mov.opc)
  BY DEF Sound, WellFormed, NumDefs
<1> QED
  BY <1>1, Inherited

(* FunPropagateRegs and FunPropagateConsts find what they look up.         *)
LEMMA PropagateSound ==
  ASSUME Context, NEW pass, NEW h \in Places, NEW m, NEW st \in Readies(h, m),
         NEW n \in 1 .. m, m \in Nat
  PROVE  Propagate(pass, st, h, n) \in Readies(h, m)
<1> DEFINE ins == At(st.code, h)
           g == ins.defs[n]
           mov == At(st.code, g)
           src == mov.ops[2]
           def == mov.defs[2]
<1>1. st \in Ready(h) /\ Len(ins.ops) = m /\ Sound(h, ins) /\ n \in 1 .. Len(ins.ops)
  BY ReadyIs DEF Readies
<1>2. n \in DOMAIN ins.defs
  BY <1>1 DEF Sound, Annotated
<1>3. ASSUME g \in Places, mov.opc = "mov"
      PROVE  /\ n \in UseSlots(ins) /\ Admissible(h, src, def)
             /\ src \in Operand /\ def \in OperandDef
  <2>1. n \in UseSlots(ins) /\ Before(g, h)
    BY <1>1, <1>2, <1>3 DEF Sound
  <2>2. Sound(g, mov)
    BY <1>1, <1>3, ReadyIs
  <2> QED
    BY <1>3, <2>1, <2>2, CopyIs
<1>4. PropagateReg(st, h, n) \in Readies(h, m)
  <2>1. CASE ~(g \in Places /\ mov.opc = "mov" /\ src \in Reg)
    BY <2>1 DEF PropagateReg, IsIns
  <2>2. CASE g \in Places /\ mov.opc = "mov" /\ src \in Reg
    <3>1. Looked(st, src) = st
      BY <1>1, <1>3, <2>2, LookedIs DEF Admissible
    <3>2. CASE ~SameDef(st.code, st.avail[src], def)
      BY <2>2, <3>1, <3>2 DEF PropagateReg, IsIns
    <3>3. CASE SameDef(st.code, st.avail[src], def)
      <4>1. PropagateReg(st, h, n) = SetOperand(st, h, n, src, def)
        BY <2>2, <3>1, <3>3 DEF PropagateReg, IsIns
      <4> HIDE DEF ins, src, def
      <4>2. SetOperand(st, h, n, src, def) \in Readies(h, Len(ins.ops))
        BY <1>1, <1>3, <2>2, SetOperandSound DEF ins
      <4> QED
        BY <1>1, <4>1, <4>2
    <3> QED
      BY <3>2, <3>3
  <2> QED
    BY <2>1, <2>2
<1>5. PropagateConst(st, h, n) \in Readies(h, m)
  <2>1. CASE ~(g \in Places /\ mov.opc = "mov" /\ src \notin Reg \cup Mem)
    BY <2>1 DEF PropagateConst, IsIns
  <2>2. CASE g \in Places /\ mov.opc = "mov" /\ src \notin Reg \cup Mem
    <3>1. src \in Reg \cup Nat /\ n \in UseSlots(ins)
      BY <1>3, <2>2 DEF Operand
    <3>2. INVALID \in OperandDef /\ Admissible(h, src, INVALID)
      <4>1. INVALID \notin Places
        BY ProgramsAssumption, Shape DEF Context
      <4> QED
        BY <2>2, <4>1 DEF OperandDef, Admissible
    <3>3. PropagateConst(st, h, n) = SetOperand(st, h, n, src, INVALID)
      BY <2>2 DEF PropagateConst, IsIns
    <3> HIDE DEF ins, src, def
    <3>4. SetOperand(st, h, n, src, INVALID) \in Readies(h, Len(ins.ops))
      BY <1>1, <3>1, <3>2, SetOperandSound DEF ins
    <3> QED
      BY <1>1, <3>3, <3>4
  <2> QED
    BY <2>1, <2>2
<1> QED
  BY <1>4, <1>5 DEF Propagate

(* One operand after another. *)
LEMMA EachSound ==
  ASSUME Context, NEW pass, NEW h \in Places, NEW st \in Ready(h)
  PROVE  EachOperand(pass, st, h) \in Ready(h)
<1> DEFINE ops == At(st.code, h).ops
           seq == [n \in DOMAIN ops |-> n]
           m == Len(seq)
           Rnd(v, e) == Propagate(pass, v, h, e)
           F(x) == [j \in 0 .. m |->
                      IF j = 0 THEN st
                      ELSE CHOOSE end \in {Rnd(mid, seq[j]) : mid \in {x[j - 1]}} : TRUE]
           fold == CHOOSE x : x = F(x)
           A == Readies(h, m)
           I == [j \in 0 .. m |-> A]
           step == [z \in (1 .. m) \X A |-> Rnd(z[2], seq[z[1]])]
<1>1. m \in Nat /\ Len(ops) = m /\ \A j \in 1 .. m : seq[j] = j
  <2>1. ops \in Seq(Operand)
    BY ReadyIs DEF Annotated
  <2>2. DOMAIN ops = 1 .. Len(ops) /\ Len(ops) \in Nat
    BY <2>1
  <2>3. seq \in [1 .. Len(ops) -> Nat]
    BY <2>2
  <2> HIDE DEF ops
  <2>4. m = Len(ops)
    BY <2>2, <2>3
  <2> QED
    BY <2>2, <2>4
<1>2. st \in A
  BY <1>1 DEF Readies
<1>3. \A j \in 1 .. m : \A v \in A : Rnd(v, seq[j]) \in A
  <2> SUFFICES ASSUME NEW j \in 1 .. m, NEW v \in A
               PROVE  Rnd(v, seq[j]) \in A
    OBVIOUS
  <2>1. seq[j] \in 1 .. m
    BY <1>1
  <2> HIDE DEF seq, m
  <2> QED
    BY <1>1, <2>1, PropagateSound
<1> HIDE DEF Rnd, seq, m, ops
<1>4. \A j \in 1 .. m : j - 1 \in 0 .. m /\ \A v \in A : step[<<j, v>>] = Rnd(v, seq[j])
  BY <1>1
<1> HIDE DEF step, A
<1>5. PICK x : x \in Loops(m, I, A, st, step)
  <2>1. Rounds(m, I, step) /\ Family(m, I, A) /\ st \in I[0]
    BY <1>1, <1>2, <1>3, <1>4 DEF Rounds, Family
  <2> HIDE DEF I
  <2> QED
    BY <1>1, <2>1, Looping
<1>6. ASSUME NEW j \in 1 .. m, NEW v
      PROVE  (CHOOSE end \in {Rnd(mid, seq[j]) : mid \in {v}} : TRUE) = Rnd(v, seq[j])
  OBVIOUS
<1>7. x = F(x)
  <2>1. \A j \in 1 .. m : x[j - 1] \in A /\ x[j] = step[<<j, x[j - 1]>>]
    <3>1. \A j \in 1 .. m : x[j - 1] \in I[j - 1] /\ x[j] = step[<<j, x[j - 1]>>]
      BY <1>5 DEF Loops
    <3> QED
      BY <1>4, <3>1
  <2>2. \A j \in 1 .. m : x[j] = Rnd(x[j - 1], seq[j])
    BY <1>4, <2>1
  <2> QED
    BY <1>5, <1>6, <2>2 DEF Loops
<1>8. fold = F(fold)
  <2> HIDE DEF F
  <2> QED
    BY <1>7, Zenon
<1>9. EachOperand(pass, st, h) = fold[m]
  BY Zenon DEF EachOperand, FoldForward, Rnd, seq, m, ops
<1> HIDE DEF fold
<1>10. fold[0] = st /\ \A j \in 1 .. m : fold[j] = Rnd(fold[j - 1], seq[j])
  BY <1>1, <1>6, <1>8
<1>11. \A j \in 0 .. m : fold[j] \in I[j]
  <2>1. fold[0] \in I[0]
    BY <1>1, <1>2, <1>10
  <2>2. ASSUME NEW j \in 1 .. m, fold[j - 1] \in I[j - 1]
        PROVE  fold[j] \in I[j]
    <3>1. fold[j - 1] \in A /\ j \in 0 .. m
      BY <1>4, <2>2
    <3> QED
      BY <1>3, <1>10, <3>1
  <2> HIDE DEF I
  <2> QED
    BY <1>1, <2>1, <2>2, Stays
<1>12. fold[m] \in A
  BY <1>1, <1>11
<1> QED
  BY <1>9, <1>12 DEF A, Readies

(* FunStrengthReduction looks nothing up, and what it makes of `lea` reads *)
(* no more than that did.                                                  *)
LEMMA ReduceSound ==
  ASSUME Context, NEW h \in Places, NEW st \in Ready(h)
  PROVE  ReduceLea(st, h) \in Ready(h)
<1> DEFINE ins == At(st.code, h)
           new == [opc |-> "mov", ops |-> <<ins.ops[1], ins.ops[2]>>, defs |-> <<INVALID, INVALID>>]
<1>1. CASE ins.opc # "lea" \/ ins.ops[3] # 0
  BY <1>1 DEF ReduceLea
<1>2. CASE ~(ins.opc # "lea" \/ ins.ops[3] # 0)
  <2>1. /\ Sound(h, ins) /\ ins \in Annotated /\ ins.opc = "lea"
        /\ st \in Typed /\ h[1] \in Bbl /\ h[2] \in DOMAIN st.code[h[1]]
    BY <1>2, ReadyIs
  <2>2. ReduceLea(st, h) = Put(st, h, new)
    <3>1. lang = "py"
      BY DEF Context
    <3>2. ReduceLea(st, h) = [st EXCEPT !.code[h[1]][h[2]] = new]
      BY <1>2, <3>1 DEF ReduceLea
    <3> HIDE DEF new
    <3> QED
      BY <3>2 DEF Put, WithCode, Body
  <2>3. Len(ins.ops) = 3 /\ DOMAIN ins.ops = 1 .. 3 /\ ins.ops[1] \in Operand /\ ins.ops[2] \in Operand
    BY <2>1 DEF Sound, WellFormed, Annotated
  <2>4. new \in Annotated /\ Len(new.ops) = 2 /\ Len(new.defs) = 2 /\ new.opc = "mov"
        /\ new.ops[1] = ins.ops[1] /\ new.ops[2] = ins.ops[2]
        /\ new.defs[1] = INVALID /\ new.defs[2] = INVALID
        /\ DOMAIN new.ops = 1 .. 2 /\ DOMAIN new.defs = 1 .. 2
    <3> DEFINE a == ins.ops[1]
               b == ins.ops[2]
               ops == <<a, b>>
               defs == <<INVALID, INVALID>>
    <3>1. INVALID \in OperandDef /\ a \in Operand /\ b \in Operand
      BY <2>3 DEF OperandDef
    <3> HIDE DEF a, b
    <3>2. /\ ops \in Seq(Operand) /\ Len(ops) = 2 /\ ops[1] = a /\ ops[2] = b /\ DOMAIN ops = 1 .. 2
          /\ defs \in Seq(OperandDef) /\ Len(defs) = 2 /\ defs[1] = INVALID /\ defs[2] = INVALID
          /\ DOMAIN defs = 1 .. 2
      BY <3>1
    <3>3. new = [opc |-> "mov", ops |-> ops, defs |-> defs]
      BY DEF a, b
    <3> DEFINE B == Seq(Operand)
               C == Seq(OperandDef)
    <3>4. new.opc = "mov" /\ new.ops = ops /\ new.defs = defs
      <4> HIDE DEF ops, defs, new
      <4> QED
        BY <3>3
    <3>5. new \in [opc : Opcode, ops : B, defs : C]
      <4>1. ops \in B /\ defs \in C /\ "mov" \in Opcode
        BY <3>2 DEF Opcode
      <4> HIDE DEF ops, defs, new, B, C
      <4> QED
        BY <3>3, <4>1
    <3>6. new \in Annotated
      <4> HIDE DEF new
      <4> QED
        BY <3>5 DEF Annotated
    <3> HIDE DEF ops, defs, new
    <3> QED
      BY <3>2, <3>4, <3>6 DEF a, b
  <2> HIDE DEF new
  <2>5. Sound(h, new)
    <3>1. WellFormed(new)
      BY <2>4 DEF WellFormed
    <3>2. NumDefs(new.opc) = 1 /\ NumDefs(ins.opc) = 1
      BY <2>1, <2>4 DEF NumDefs
    <3>3. ASSUME NEW n \in UseSlots(new)
          PROVE  Defined(h, new.ops[n])
      <4>1. n = 2 /\ ins.ops[2] \in Reg
        BY <2>4, <3>2, <3>3 DEF UseSlots
      <4>2. 2 \in UseSlots(ins)
        BY <2>3, <3>2, <4>1 DEF UseSlots
      <4> QED
        BY <2>1, <2>4, <4>1, <4>2 DEF Sound
    <3>4. \A n \in DOMAIN new.defs : new.defs[n] \notin Places
      <4>1. INVALID \notin Places
        BY ProgramsAssumption, Shape DEF Context
      <4> QED
        BY <2>4, <4>1
    <3> QED
      BY <2>1, <2>4, <3>1, <3>2, <3>3, <3>4 DEF Sound
  <2> QED
    BY <2>2, <2>5, PutReady
<1> QED
  BY <1>1, <1>2

(* Where an access gets its address from: the operand and its definition. *)
LEMMA OffsetIs ==
  ASSUME Context, NEW g, NEW base, Sound(g, base), base.opc \in {"lea_mem", "lea", "mov"},
         NEW h, Before(g, h), NEW o1 \in Reg \cup Nat, NEW def \in OperandDef,
         Admissible(h, o1, def), Combines(base, o1)
  PROVE  LET off == CombinedOffset(base, o1, def)
         IN off[1] \in Reg \cup Nat /\ off[2] \in OperandDef /\ Admissible(h, off[1], off[2])
<1> DEFINE off == CombinedOffset(base, o1, def)
<1>0. SUFFICES off[1] \in Reg \cup Nat /\ off[2] \in OperandDef /\ Admissible(h, off[1], off[2])
  OBVIOUS
<1>1. CASE base.opc = "mov" \/ base.ops[3] = 0
  <2>1. off[1] = o1 /\ off[2] = def
    BY <1>1 DEF CombinedOffset
  <2> HIDE DEF off
  <2> QED
    BY <2>1
<1>2. CASE ~(base.opc = "mov" \/ base.ops[3] = 0)
  <2>1. /\ Len(base.ops) = 3 /\ base.ops[3] \in Reg \cup Nat
        /\ 3 \in 1 .. Len(base.ops) /\ 3 > NumDefs(base.opc)
    <3>1. OffsetSlot(base.opc) = 3 /\ WellFormed(base) /\ NumDefs(base.opc) \in {0, 1}
      BY <1>2 DEF OffsetSlot, Sound, NumDefs
    <3> QED
      BY <1>2, <3>1 DEF WellFormed
  <2>2. Admissible(h, base.ops[3], base.defs[3]) /\ base.defs[3] \in OperandDef
    BY <2>1, Inherited
  <2>3. CASE o1 = 0
    <3>1. off[1] = base.ops[3] /\ off[2] = base.defs[3]
      BY <1>2, <2>3 DEF CombinedOffset
    <3> HIDE DEF off
    <3> QED
      BY <2>1, <2>2, <3>1
  <2>4. CASE o1 # 0
    <3>1. off[1] = o1 + base.ops[3] /\ off[2] = INVALID
      BY <1>2, <2>4 DEF CombinedOffset
    <3>2. o1 \in Nat /\ base.ops[3] \in Nat
      BY <1>2, <2>1, <2>4 DEF Combines
    <3>3. off[1] \in Nat
      <4> HIDE DEF off
      <4> QED
        BY <3>1, <3>2
    <3>4. off[1] \notin Reg /\ INVALID \notin Places
      BY <3>3, ProgramsAssumption, Shape DEF Context
    <3> HIDE DEF off
    <3> QED
      BY <3>1, <3>3, <3>4 DEF Admissible, OperandDef
  <2> QED
    BY <2>3, <2>4
<1> QED
  BY <1>1, <1>2

(* An access, with its address replaced. *)
Accessing(ins, opc, n, root, def, off) ==
  Edited(Edited([ins EXCEPT !.opc = opc], n, root, def), n + 1, off[1], off[2])

SoundAccess(h, ins, opc, n, root, def, off) ==
  /\ Sound(h, Accessing(ins, opc, n, root, def, off))
  /\ [ins EXCEPT !.opc = opc] \in Annotated
  /\ Edited([ins EXCEPT !.opc = opc], n, root, def) \in Annotated

(* It reads what its new address is computed from, and that is defined.    *)
LEMMA AccessSound ==
  ASSUME Context, NEW h, NEW ins, Sound(h, ins), NEW n,
         ins.opc \in {"st", "ld", "lea"}, n \in 1 .. 2, n = 1 <=> ins.opc = "st",
         NEW bopc, NEW root \in Operand, NEW def \in OperandDef, Admissible(h, root, def),
         bopc = "lea_mem" => root \in Mem,
         NEW off, off[1] \in Reg \cup Nat, off[2] \in OperandDef, Admissible(h, off[1], off[2]),
         NEW opc, opc = NewOpc(bopc, ins.opc)
  PROVE  SoundAccess(h, ins, opc, n, root, def, off)
<1> DEFINE i1 == [ins EXCEPT !.opc = opc]
           i2 == Edited(i1, n, root, def)
           new == Edited(i2, n + 1, off[1], off[2])
<1>1. /\ ins \in Annotated /\ Len(ins.ops) = 3 /\ Len(ins.defs) = 3 /\ WellFormed(ins)
      /\ n \in 1 .. 3 /\ n + 1 \in 1 .. 3 /\ n + 1 = OffsetSlot(ins.opc)
      /\ n > NumDefs(ins.opc)
  BY DEF Sound, WellFormed, OffsetSlot, NumDefs
<1>2. /\ opc \in Opcode /\ NumDefs(opc) = NumDefs(ins.opc) /\ opc # "mov"
      /\ opc \in {"lea", "lea_mem", "ld", "st"} => OffsetSlot(opc) = n + 1
      /\ opc = "lea_mem" => n = 2 /\ bopc = "lea_mem"
  <2>1. CASE bopc = "lea_mem"
    <3>1. CASE ins.opc = "ld"
      BY <2>1, <3>1 DEF NewOpc, NumDefs, OffsetSlot, Opcode
    <3>2. CASE ins.opc = "st"
      BY <2>1, <3>2 DEF NewOpc, NumDefs, OffsetSlot, Opcode
    <3>3. CASE ins.opc = "lea"
      BY <2>1, <3>3 DEF NewOpc, NumDefs, OffsetSlot, Opcode
    <3> QED
      BY <3>1, <3>2, <3>3
  <2>2. CASE bopc # "lea_mem"
    BY <1>1, <2>2 DEF NewOpc, NumDefs, OffsetSlot, Annotated
  <2> QED
    BY <2>1, <2>2
<1>3. i1 \in Annotated /\ i1.opc = opc /\ i1.ops = ins.ops /\ i1.defs = ins.defs
  <2> DEFINE B == Seq(Operand)
             C == Seq(OperandDef)
  <2>1. ins \in [opc : Opcode, ops : B, defs : C]
    BY <1>1 DEF Annotated
  <2> HIDE DEF B, C
  <2>2. i1 = [opc |-> opc, ops |-> ins.ops, defs |-> ins.defs]
    BY <2>1
  <2> HIDE DEF i1
  <2>3. i1.opc = opc /\ i1.ops = ins.ops /\ i1.defs = ins.defs
    BY <2>2
  <2>4. i1 \in [opc : Opcode, ops : B, defs : C]
    BY <1>2, <2>1, <2>2
  <2> QED
    BY <2>3, <2>4 DEF Annotated, B, C
<1> HIDE DEF i1
<1>4. /\ i2 \in Annotated /\ i2.opc = opc /\ Len(i2.ops) = 3 /\ Len(i2.defs) = 3
      /\ i2.ops[n] = root /\ i2.defs[n] = def
      /\ \A k \in 1 .. 3 : k # n => i2.ops[k] = ins.ops[k] /\ i2.defs[k] = ins.defs[k]
  <2>1. Len(i1.ops) = 3 /\ Len(i1.defs) = Len(i1.ops) /\ n \in 1 .. Len(i1.ops)
    BY <1>1, <1>3
  <2>2. Edits(i1, n, root, def, i2)
    BY <1>3, <2>1, EditedIs
  <2> HIDE DEF i2
  <2> QED
    BY <1>3, <2>1, <2>2 DEF Edits
<1> HIDE DEF i2
<1>5. /\ new \in Annotated /\ new.opc = opc /\ Len(new.ops) = 3 /\ Len(new.defs) = 3
      /\ new.ops[n + 1] = off[1] /\ new.defs[n + 1] = off[2]
      /\ \A k \in 1 .. 3 : k # n + 1 => new.ops[k] = i2.ops[k] /\ new.defs[k] = i2.defs[k]
  <2>1. off[1] \in Operand
    BY DEF Operand
  <2> HIDE DEF new
  <2>2. new = Edited(i2, n + 1, off[1], off[2])
    BY DEF new
  <2> DEFINE x == off[1]
             y == off[2]
  <2> HIDE DEF x, y
  <2>3. x \in Operand /\ y \in OperandDef /\ new = Edited(i2, n + 1, x, y)
    BY <2>1, <2>2 DEF x, y
  <2>4. /\ new \in Annotated /\ new.opc = opc /\ Len(new.ops) = 3 /\ Len(new.defs) = 3
        /\ new.ops[n + 1] = x /\ new.defs[n + 1] = y
        /\ \A k \in 1 .. 3 : k # n + 1 => new.ops[k] = i2.ops[k] /\ new.defs[k] = i2.defs[k]
    <3>1. Len(i2.ops) = 3 /\ Len(i2.defs) = Len(i2.ops) /\ n + 1 \in 1 .. Len(i2.ops)
      BY <1>1, <1>4
    <3> DEFINE w == Edited(i2, n + 1, x, y)
               q == n + 1
    <3>2. q \in 1 .. Len(i2.ops)
      BY <3>1
    <3> HIDE DEF q
    <3>3. Edits(i2, q, x, y, Edited(i2, q, x, y))
      BY <1>4, <2>3, <3>1, <3>2, EditedIs
    <3>4. new = Edited(i2, q, x, y)
      BY <2>3 DEF q
    <3> QED
      BY <1>4, <3>1, <3>3, <3>4 DEF q, Edits
  <2> QED
    BY <2>4 DEF x, y
<1> HIDE DEF new
<1>6. WellFormed(new)
  <2>1. ASSUME new.opc \in {"lea", "lea_mem", "ld", "st"}
        PROVE  new.ops[OffsetSlot(new.opc)] \in Reg \cup Nat
    BY <1>2, <1>5, <2>1
  <2>2. ASSUME new.opc = "lea_mem"
        PROVE  new.ops[2] \in Mem
    <3>1. n = 2 /\ root \in Mem
      BY <1>2, <1>5, <2>2
    <3> QED
      BY <1>4, <1>5, <3>1
  <2> QED
    BY <1>2, <1>5, <2>1, <2>2 DEF WellFormed
<1>7. \A k \in 1 .. 3 :
        \/ new.ops[k] = ins.ops[k] /\ new.defs[k] = ins.defs[k]
        \/ k > NumDefs(ins.opc) /\ Admissible(h, new.ops[k], new.defs[k])
  <2> SUFFICES ASSUME NEW k \in 1 .. 3
               PROVE  \/ new.ops[k] = ins.ops[k] /\ new.defs[k] = ins.defs[k]
                      \/ k > NumDefs(ins.opc) /\ Admissible(h, new.ops[k], new.defs[k])
    OBVIOUS
  <2>1. CASE k = n + 1
    <3>1. NumDefs(ins.opc) \in {0, 1}
      BY DEF NumDefs
    <3>2. k > NumDefs(ins.opc)
      BY <1>1, <2>1, <3>1
    <3> QED
      BY <1>5, <2>1, <3>2
  <2>2. CASE k = n
    BY <1>1, <1>4, <1>5, <2>2
  <2>3. CASE k # n /\ k # n + 1
    BY <1>4, <1>5, <2>3
  <2> QED
    BY <2>1, <2>2, <2>3
<1>8. NumDefs(ins.opc) = 1 => new.ops[1] = ins.ops[1]
  <2>1. NumDefs(ins.opc) = 1 => n # 1 /\ n + 1 # 1
    BY <1>1
  <2> QED
    BY <1>1, <1>4, <1>5, <2>1
<1>9. Sound(h, new)
  BY <1>1, <1>2, <1>5, <1>6, <1>7, <1>8, EditedSound
<1> QED
  BY <1>3, <1>4, <1>9 DEF SoundAccess, Accessing, new, i1, i2

(* FunLoadStoreSimplify finds what it looks up.                            *)
LEMMA SimplifySound ==
  ASSUME Context, NEW h \in Places, NEW st \in Ready(h)
  PROVE  Simplify(st, h) \in Ready(h)
<1> DEFINE ins == At(st.code, h)
           n == IF ins.opc = "st" THEN 1 ELSE 2
           g == ins.defs[n]
           base == At(st.code, g)
           suits == /\ ins.opc \in {"st", "ld", "lea"} /\ IsIns(g)
                    /\ base.opc \in {"lea_mem", "lea", "mov"}
           root == base.ops[2]
           def == base.defs[2]
           o1 == ins.ops[n + 1]
           off == CombinedOffset(base, o1, ins.defs[n + 1])
           st1 == IF def = INVALID THEN st ELSE Looked(st, root)
           st2 == IF off[2] = INVALID THEN st1 ELSE Looked(st1, off[1])
           opc == NewOpc(base.opc, ins.opc)
           moved == [st2 EXCEPT !.code[h[1]][h[2]].opc = opc]
           last == SetOperand(SetOperand(moved, h, n, root, def), h, n + 1, off[1], off[2])
<1>1. Simplify(st, h) =
        IF ~suits THEN st
        ELSE IF ~Available(st, root, def) THEN st1
        ELSE IF ~Combines(base, o1) THEN st1
        ELSE IF ~Available(st, off[1], off[2]) THEN st2
        ELSE last
  BY Zenon DEF Simplify
<1> HIDE DEF last
<1>2. CASE ~suits
  BY <1>1, <1>2
<1>3. CASE suits
  <2>1. /\ Sound(h, ins) /\ ins \in Annotated /\ WellFormed(ins) /\ st \in Typed
        /\ h[1] \in Bbl /\ h[2] \in 1 .. Len(st.code[h[1]]) /\ Len(st.code[h[1]]) \in Nat
    BY ReadyIs DEF Sound
  <2>2. /\ Len(ins.ops) = 3 /\ Len(ins.defs) = 3 /\ DOMAIN ins.defs = 1 .. 3
        /\ ins.ops[OffsetSlot(ins.opc)] \in Reg \cup Nat
    <3>1. Len(ins.ops) = 3 /\ Len(ins.defs) = 3 /\ ins.ops[OffsetSlot(ins.opc)] \in Reg \cup Nat
      BY <1>3, <2>1 DEF Sound, WellFormed
    <3> QED
      BY <2>1, <3>1 DEF Annotated
  <2>3. /\ n \in 1 .. 2 /\ (n = 1 <=> ins.opc = "st")
        /\ n + 1 \in 1 .. 3 /\ n + 1 = OffsetSlot(ins.opc) /\ n + 1 > NumDefs(ins.opc)
    BY <1>3 DEF OffsetSlot, NumDefs
  <2> HIDE DEF n
  <2>4. g \in Places /\ Before(g, h) /\ Sound(g, base)
    <3>1. g \in Places
      BY <1>3 DEF IsIns
    <3> HIDE DEF ins
    <3>2. n \in DOMAIN ins.defs
      BY <2>2, <2>3
    <3>3. Before(g, h)
      BY <2>1, <3>1, <3>2 DEF Sound
    <3> QED
      BY <3>1, <3>3, ReadyIs
  <2> HIDE DEF g
  <2>5. /\ root \in Operand /\ def \in OperandDef /\ Admissible(h, root, def)
        /\ base.opc = "lea_mem" => root \in Mem
    <3>1. WellFormed(base) /\ base.opc \in {"lea_mem", "lea", "mov"}
      BY <1>3, <2>4 DEF Sound
    <3> HIDE DEF base
    <3>2. 2 \in 1 .. Len(base.ops) /\ 2 > NumDefs(base.opc)
          /\ (base.opc = "lea_mem" => root \in Mem)
      <4>1. Len(base.ops) \in {2, 3} /\ (base.opc = "lea_mem" => base.ops[2] \in Mem)
        BY <3>1 DEF WellFormed
      <4>2. NumDefs(base.opc) = 1
        BY <3>1 DEF NumDefs
      <4>3. \A m \in {2, 3} : 2 \in 1 .. m
        OBVIOUS
      <4>4. 2 \in 1 .. Len(base.ops)
        BY <4>1, <4>3, Zenon
      <4>5. 2 > NumDefs(base.opc)
        BY <4>2
      <4> QED
        BY <4>1, <4>4, <4>5, Zenon
    <3> QED
      BY <2>4, <3>2, Inherited
  <2>6. st1 = st
    BY <2>5, LookedIs DEF Admissible
  <2>7. CASE ~Available(st, root, def) \/ ~Combines(base, o1)
    BY <1>1, <1>3, <2>6, <2>7
  <2>8. CASE Available(st, root, def) /\ Combines(base, o1)
    <3>1. off[1] \in Reg \cup Nat /\ off[2] \in OperandDef /\ Admissible(h, off[1], off[2])
      <4> DEFINE d1 == ins.defs[n + 1]
                 k == n + 1
      <4>1. k \in 1 .. Len(ins.ops) /\ k > NumDefs(ins.opc) /\ Before(h, h) /\ o1 \in Reg \cup Nat
        BY <2>2, <2>3 DEF Before
      <4> HIDE DEF k, ins
      <4>2. Admissible(h, ins.ops[k], ins.defs[k]) /\ ins.defs[k] \in OperandDef
        BY <2>1, <4>1, Inherited
      <4>3. Admissible(h, o1, d1) /\ d1 \in OperandDef
        BY <4>2 DEF k
      <4> HIDE DEF d1, o1, base
      <4>4. LET x == CombinedOffset(base, o1, d1)
            IN x[1] \in Reg \cup Nat /\ x[2] \in OperandDef /\ Admissible(h, x[1], x[2])
        BY <1>3, <2>4, <2>8, <4>1, <4>3, OffsetIs
      <4> QED
        BY <4>4 DEF d1
    <3> HIDE DEF off
    <3>2. st2 = st
      <4>1. off[2] = INVALID \/ Looked(st, off[1]) = st
        BY <3>1, LookedIs DEF Admissible
      <4> HIDE DEF st1
      <4> QED
        BY <2>6, <4>1
    <3>3. CASE ~Available(st, off[1], off[2])
      BY <1>1, <1>3, <2>8, <3>2, <3>3
    <3>4. CASE Available(st, off[1], off[2])
      <4> DEFINE i1 == [ins EXCEPT !.opc = opc]
                 i2 == Edited(i1, n, root, def)
                 i3 == Edited(i2, n + 1, off[1], off[2])
      <4>1. Simplify(st, h) = last
        BY <1>1, <1>3, <2>8, <3>4
      <4>2. Sound(h, i3) /\ i1 \in Annotated /\ i2 \in Annotated
        <5>1. ins.opc \in {"st", "ld", "lea"}
          BY <1>3
        <5> HIDE DEF ins, root, def
        <5>2. SoundAccess(h, ins, opc, n, root, def, off)
          <6> DEFINE bopc == base.opc
          <6>1. (bopc = "lea_mem" => root \in Mem) /\ opc = NewOpc(bopc, ins.opc)
            BY <2>5
          <6>2. /\ Sound(h, ins) /\ n \in 1 .. 2
                /\ root \in Operand /\ def \in OperandDef /\ Admissible(h, root, def)
            BY <2>1, <2>3, <2>5
          <6>3. n = 1 <=> ins.opc = "st"
            BY <2>3
          <6> HIDE DEF bopc, base, opc
          <6> QED
            BY <3>1, <5>1, <6>1, <6>2, <6>3, AccessSound, SMTT(60)
        <5> QED
          BY <5>2 DEF SoundAccess, Accessing
      <4>3. moved = Put(st, h, i1)
        <5>1. moved = [st EXCEPT !.code[h[1]][h[2]].opc = opc]
          BY <3>2
        <5> HIDE DEF moved, opc
        <5> QED
          BY <5>1 DEF Put, WithCode, Body, At
      <4> HIDE DEF i1, moved
      <4>4. /\ moved \in Typed /\ At(moved.code, h) = i1
            /\ Len(moved.code[h[1]]) = Len(st.code[h[1]]) /\ h[2] \in DOMAIN moved.code[h[1]]
            /\ \A other : Put(moved, h, other) = Put(st, h, other)
        BY <2>1, <4>2, <4>3, Writing
      <4> DEFINE mid == SetOperand(moved, h, n, root, def)
      <4>5. mid = Put(st, h, i2)
        <5> HIDE DEF root, def, i2
        <5>1. SetOperand(moved, h, n, root, def) = Put(moved, h, Edited(i1, n, root, def))
          BY <2>1, <4>4, SetOperandIs
        <5> QED
          BY <4>4, <5>1 DEF i2
      <4> HIDE DEF i2, mid
      <4>6. /\ mid \in Typed /\ At(mid.code, h) = i2 /\ h[2] \in DOMAIN mid.code[h[1]]
            /\ \A other : Put(mid, h, other) = Put(st, h, other)
        BY <2>1, <4>2, <4>5, Writing
      <4>7. last = SetOperand(mid, h, n + 1, off[1], off[2])
        BY Zenon DEF last, mid
      <4>8. last = Put(st, h, i3)
        <5>1. SetOperand(mid, h, n + 1, off[1], off[2])
                = Put(mid, h, Edited(i2, n + 1, off[1], off[2]))
          <6> DEFINE k == n + 1
                     a == off[1]
                     b == off[2]
          <6> HIDE DEF k, a, b
          <6>1. SetOperand(mid, h, k, a, b) = Put(mid, h, Edited(i2, k, a, b))
            BY <2>1, <4>6, SetOperandIs
          <6> QED
            BY <6>1 DEF k, a, b
        <5> QED
          BY <4>6, <4>7, <5>1
      <4> HIDE DEF i3
      <4> QED
        BY <4>1, <4>2, <4>8, PutReady
    <3> QED
      BY <3>3, <3>4
  <2> QED
    BY <2>7, <2>8
<1> QED
  BY <1>2, <1>3

(* The place after h in its bbl. *)
Following(h) == <<h[1], h[2] + 1>>

(* A pass handles the instruction at h: the registers that are defined     *)
(* after it may be looked up by the next one.                              *)
LEMMA AtPlaceSound ==
  ASSUME Context, NEW pass, NEW h \in Places, NEW st \in States,
         h[2] = 1 \/ st \in Ready(h)
  PROVE  AtPlace(pass, st, h) \in Ready(Following(h))
<1> DEFINE st0 == IF h[2] = 1 THEN [st EXCEPT !.avail = defs_in[h[1]]] ELSE st
           new == Rewrite(pass, st0, h)
           ins == At(new.code, h)
           r1 == ins.ops[1]
           own == At(source.code, h)
           last == IF NumDefs(ins.opc) = 0 THEN new ELSE [new EXCEPT !.avail[r1] = h]
<1>1. st0 \in Ready(h)
  <2>1. CASE h[2] = 1
    <3>1. h[1] \in Bbl /\ defs_in[h[1]] \in [Reg -> Definition]
      BY Shape DEF Context
    <3>2. st0 = [code |-> st.code, avail |-> defs_in[h[1]], ok |-> st.ok]
      BY <2>1 DEF States
    <3> HIDE DEF st0
    <3>3. st0 \in States /\ st0.avail = defs_in[h[1]]
      BY <3>1, <3>2 DEF States
    <3>4. \A r \in Reg : Defined(h, r) => defs_in[h[1]][r] # NoDef
      BY <2>1 DEF Defined
    <3> QED
      BY <3>3, <3>4 DEF Ready
  <2>2. CASE h[2] # 1
    BY <2>2
  <2> QED
    BY <2>1, <2>2
<1> HIDE DEF st0
<1>2. new \in Ready(h)
  <2>1. EachOperand(pass, st0, h) \in Ready(h)
    BY <1>1, EachSound
  <2>2. ReduceLea(st0, h) \in Ready(h) /\ Simplify(st0, h) \in Ready(h)
    BY <1>1, ReduceSound, SimplifySound
  <2> QED
    BY <2>1, <2>2 DEF Rewrite
<1> HIDE DEF new
<1>3. /\ new \in States /\ new = [code |-> new.code, avail |-> new.avail, ok |-> new.ok]
      /\ new.avail \in [Reg -> Definition]
      /\ \A r \in Reg : Defined(h, r) => new.avail[r] # NoDef
  BY <1>2 DEF Ready, States
<1>4. /\ Sound(h, ins) /\ h[1] \in Bbl /\ h[2] \in Nat /\ h[2] # 0
      /\ h \in Definition /\ h # NoDef
  BY <1>2, ReadyIs, Shape DEF Definition, Context
<1>5. AtPlace(pass, st, h) = last
  BY DEF AtPlace, st0, new
<1>6. /\ last \in States
      /\ \A r \in Reg : last.avail[r] = IF NumDefs(ins.opc) # 0 /\ r = r1 THEN h ELSE new.avail[r]
  <2>1. CASE NumDefs(ins.opc) = 0
    BY <1>3, <2>1
  <2>2. CASE NumDefs(ins.opc) # 0
    <3> HIDE DEF r1
    <3> DEFINE a == [new.avail EXCEPT ![r1] = h]
    <3>1. last = [code |-> new.code, avail |-> a, ok |-> new.ok]
      BY <1>3, <2>2
    <3>2. /\ a \in [Reg -> Definition]
          /\ \A r \in Reg : a[r] = IF r = r1 THEN h ELSE new.avail[r]
      BY <1>3, <1>4
    <3> HIDE DEF a, last
    <3>3. last \in States /\ last.avail = a
      BY <1>3, <3>1, <3>2 DEF States
    <3> QED
      BY <2>2, <3>2, <3>3
  <2> QED
    BY <2>1, <2>2
<1> HIDE DEF last
<1>7. ASSUME NEW r \in Reg, Defined(Following(h), r)
      PROVE  last.avail[r] # NoDef
  <2>1. CASE Defined(h, r)
    BY <1>3, <1>4, <1>6, <2>1
  <2>2. CASE ~Defined(h, r)
    <3>1. Defines(own, r)
      <4>1. PICK j \in 1 .. h[2] : Defines(source.code[h[1]][j], r)
        BY <1>4, <1>7, <2>2 DEF Defined, Following
      <4>2. j = h[2]
        BY <1>4, <2>2, <4>1 DEF Defined
      <4> QED
        BY <4>1, <4>2 DEF At
    <3>2. NumDefs(ins.opc) = 1 /\ r1 = r
      BY <1>4, <3>1 DEF Defines, Sound
    <3> QED
      BY <1>4, <1>6, <3>2
  <2> QED
    BY <2>1, <2>2
<1> QED
  BY <1>5, <1>6, <1>7 DEF Ready

(* A list of places that walks over bbls from their first instruction on.  *)
Chained(v) ==
  \A i \in 1 .. Len(v) : v[i][2] = 1 \/ (i > 1 /\ v[i] = Following(v[i - 1]))

(* One such list after another is one. *)
LEMMA Chaining ==
  ASSUME NEW S, NEW v \in Seq(S), NEW w \in Seq(S), Chained(v), Chained(w)
  PROVE  v \o w \in Seq(S) /\ Chained(v \o w)
<1> DEFINE u == v \o w
<1>1. /\ Len(v) \in Nat /\ Len(w) \in Nat /\ u \in Seq(S) /\ Len(u) = Len(v) + Len(w)
      /\ \A i \in 1 .. Len(v) : u[i] = v[i]
      /\ \A i \in 1 .. Len(w) : u[Len(v) + i] = w[i]
  OBVIOUS
<1> HIDE DEF u
<1>2. ASSUME NEW i \in 1 .. Len(u)
      PROVE  u[i][2] = 1 \/ (i > 1 /\ u[i] = Following(u[i - 1]))
  <2>1. CASE i \in 1 .. Len(v)
    <3>1. v[i][2] = 1 \/ (i > 1 /\ v[i] = Following(v[i - 1]))
      BY <2>1 DEF Chained
    <3>2. i > 1 => i - 1 \in 1 .. Len(v)
      BY <1>1, <2>1
    <3> QED
      BY <1>1, <2>1, <3>1, <3>2
  <2>2. CASE i \notin 1 .. Len(v)
    <3> DEFINE j == i - Len(v)
    <3>1. j \in 1 .. Len(w) /\ i = Len(v) + j
      BY <1>1, <2>2
    <3>2. w[j][2] = 1 \/ (j > 1 /\ w[j] = Following(w[j - 1]))
      BY <3>1 DEF Chained
    <3>3. j > 1 => j - 1 \in 1 .. Len(w) /\ i - 1 = Len(v) + (j - 1) /\ i > 1
      BY <1>1, <3>1
    <3> HIDE DEF j
    <3> QED
      BY <1>1, <3>1, <3>2, <3>3
  <2> QED
    BY <2>1, <2>2
<1> QED
  BY <1>1, <1>2 DEF Chained, u

(* Layout is. *)
LEMMA LayoutChained ==
  ASSUME Context, code \in SoundCode
  PROVE  Layout \in Seq(Places) /\ Chained(Layout)
<1> DEFINE seqs == [n \in DOMAIN Order |-> [i \in DOMAIN code[Order[n]] |-> <<Order[n], i>>]]
           n == Len(seqs)
           I == [k \in 0 .. n |-> {v \in Seq(Places) : Chained(v)}]
<1>1. Layout = FlattenSeq(seqs)
  BY DEF Layout
<1>2. /\ Order \in Seq(Bbl) /\ DOMAIN Order = 1 .. Len(Order) /\ Len(Order) \in Nat
  BY ReachingDefsAssumption
<1>3. n = Len(Order) /\ DOMAIN seqs = 1 .. Len(Order) /\ (n = 0 => seqs = <<>>)
  <2> DEFINE T == {seqs[k] : k \in DOMAIN Order}
  <2>1. seqs \in [1 .. Len(Order) -> T]
    BY <1>2
  <2> HIDE DEF seqs, T
  <2>2. n = Len(Order)
    BY <1>2, <2>1
  <2> QED
    BY <1>2, <2>1, <2>2
<1>4. ASSUME NEW k \in 1 .. n
      PROVE  seqs[k] \in Seq(Places) /\ Chained(seqs[k])
  <2> DEFINE b == Order[k]
             body == code[b]
             s == [i \in DOMAIN body |-> <<b, i>>]
  <2>1. b \in Bbl /\ seqs[k] = s
    BY <1>2, <1>3
  <2>2. /\ body \in Seq(Annotated) /\ Len(body) = Len(source.code[b])
        /\ DOMAIN source.code[b] = 1 .. Len(source.code[b]) /\ Len(source.code[b]) \in Nat
        /\ \A i \in DOMAIN source.code[b] : <<b, i>> \in Places
    BY <2>1, Shape DEF SoundCode, Context
  <2>3. DOMAIN body = 1 .. Len(source.code[b])
    BY <2>2
  <2> HIDE DEF b, body, seqs
  <2>4. s \in [1 .. Len(source.code[b]) -> Places]
    BY <2>2, <2>3
  <2>5. s \in Seq(Places) /\ Len(s) = Len(source.code[b])
    <3> HIDE DEF s
    <3> QED
      BY <2>2, <2>4
  <2>6. \A i \in 1 .. Len(s) : s[i] = <<b, i>>
    BY <2>2, <2>3, <2>5
  <2> HIDE DEF s
  <2>7. ASSUME NEW i \in 1 .. Len(s)
        PROVE  s[i][2] = 1 \/ (i > 1 /\ s[i] = Following(s[i - 1]))
    <3>1. Len(s) \in Nat
      BY <2>2, <2>5
    <3>2. i # 1 => i > 1 /\ i - 1 \in 1 .. Len(s) /\ (i - 1) + 1 = i
      BY <3>1
    <3> QED
      BY <2>6, <3>2 DEF Following
  <2> QED
    BY <2>1, <2>5, <2>7 DEF Chained
<1>5. PICK g : g \in Flattens(Places, seqs)
  <2> HIDE DEF seqs
  <2>1. Len(seqs) \in Nat /\ DOMAIN seqs = 1 .. Len(seqs) /\ (Len(seqs) = 0 => seqs = <<>>)
        /\ \A k \in 1 .. Len(seqs) : seqs[k] \in Seq(Places)
    BY <1>2, <1>3, <1>4
  <2> QED
    BY <2>1, FlatteningRounds
<1>6. /\ g \in [0 .. n -> Seq(Places)] /\ g[0] = <<>> /\ g[n] = FlattenSeq(seqs)
      /\ \A k \in 1 .. n : g[k] = g[k - 1] \o seqs[k]
  BY <1>5 DEF Flattens
<1>7. n \in Nat
  BY <1>2, <1>3
<1> HIDE DEF seqs, n
<1>8. g[0] \in I[0]
  BY <1>6, <1>7 DEF Chained
<1>9. ASSUME NEW k \in 1 .. n, g[k - 1] \in I[k - 1]
      PROVE  g[k] \in I[k]
  <2>1. g[k - 1] \in Seq(Places) /\ Chained(g[k - 1]) /\ k \in 0 .. n
    BY <1>7, <1>9
  <2>2. g[k] \in Seq(Places) /\ Chained(g[k])
    BY <1>4, <1>6, <2>1, Chaining
  <2> QED
    BY <2>1, <2>2
<1> HIDE DEF I
<1>10. g[n] \in I[n]
  BY <1>7, <1>8, <1>9, Stays
<1> QED
  BY <1>1, <1>6, <1>7, <1>10 DEF I

(* A pass looks up defined registers only. *)
LEMMA WalkSound ==
  ASSUME Context, code \in SoundCode, NEW pass
  PROVE  Walk(pass) \in States
<1> DEFINE truth == TRUE
           st == [code |-> code, avail |-> defs_in[First], ok |-> truth]
           n == Len(Layout)
           Rnd(v, e) == AtPlace(pass, v, e)
           F(x) == [j \in 0 .. n |->
                      IF j = 0 THEN st
                      ELSE CHOOSE end \in {Rnd(mid, Layout[j]) : mid \in {x[j - 1]}} : TRUE]
           fold == CHOOSE x : x = F(x)
           I == [j \in 0 .. n |->
                   {v \in States : j < n => Layout[j + 1][2] = 1 \/ v \in Ready(Layout[j + 1])}]
           step == [z \in (1 .. n) \X States |-> Rnd(z[2], Layout[z[1]])]
<1>1. /\ n \in Nat /\ \A j \in 1 .. n : Layout[j] \in Places
      /\ \A j \in 1 .. n : Layout[j][2] = 1 \/ (j > 1 /\ Layout[j] = Following(Layout[j - 1]))
  BY LayoutChained DEF Chained
<1>2. st \in States
  <2>1. First \in Bbl /\ defs_in[First] \in [Reg -> Definition] /\ truth \in Fine
    BY Shape DEF Context, Fine
  <2> HIDE DEF truth
  <2> QED
    BY <2>1 DEF States
<1>3. ASSUME NEW j \in 1 .. n, NEW v \in I[j - 1]
      PROVE  v \in States /\ Rnd(v, Layout[j]) \in I[j]
  <2>1. j - 1 \in 0 .. n /\ j \in 0 .. n /\ j - 1 < n /\ (j - 1) + 1 = j
    BY <1>1
  <2>2. v \in States /\ (Layout[j][2] = 1 \/ v \in Ready(Layout[j]))
    BY <2>1
  <2>3. Rnd(v, Layout[j]) \in Ready(Following(Layout[j]))
    BY <1>1, <2>2, AtPlaceSound
  <2>4. Rnd(v, Layout[j]) \in States
    BY <2>3 DEF Ready
  <2>5. j < n => j + 1 \in 1 .. n /\ (j + 1) - 1 = j
    BY <1>1
  <2>6. j < n => Layout[j + 1][2] = 1 \/ Layout[j + 1] = Following(Layout[j])
    BY <1>1, <2>5
  <2> HIDE DEF Rnd
  <2> QED
    BY <2>1, <2>2, <2>3, <2>4, <2>6
<1>4. I[0] \subseteq States /\ st \in I[0]
  <2>1. 0 < n => 1 \in 1 .. n /\ 0 + 1 = 1
    BY <1>1
  <2>2. 0 < n => Layout[0 + 1][2] = 1
    BY <1>1, <2>1
  <2> HIDE DEF st
  <2> QED
    BY <1>1, <1>2, <2>2
<1>5. \A j \in 0 .. n : I[j] \subseteq States
  OBVIOUS
<1> HIDE DEF Rnd, n, st
<1>6. \A j \in 1 .. n : j - 1 \in 0 .. n /\ \A v \in States : step[<<j, v>>] = Rnd(v, Layout[j])
  BY <1>1
<1> HIDE DEF step, I
<1>7. PICK x : x \in Loops(n, I, States, st, step)
  <2>1. ASSUME NEW j \in 1 .. n, NEW v \in I[j - 1]
        PROVE  step[<<j, v>>] \in I[j]
    BY <1>3, <1>6
  <2>2. Rounds(n, I, step) /\ Family(n, I, States)
    BY <1>5, <2>1 DEF Rounds, Family
  <2> QED
    BY <1>1, <1>4, <2>2, Looping
<1>8. ASSUME NEW j \in 1 .. n, NEW v
      PROVE  (CHOOSE end \in {Rnd(mid, Layout[j]) : mid \in {v}} : TRUE) = Rnd(v, Layout[j])
  OBVIOUS
<1>9. x = F(x)
  <2>1. \A j \in 1 .. n : x[j - 1] \in I[j - 1] /\ x[j] = step[<<j, x[j - 1]>>]
    BY <1>7 DEF Loops
  <2>2. \A j \in 1 .. n : x[j] = Rnd(x[j - 1], Layout[j])
    BY <1>3, <1>6, <2>1
  <2> QED
    BY <1>7, <1>8, <2>2 DEF Loops
<1>10. fold = F(fold)
  <2> HIDE DEF F
  <2> QED
    BY <1>9, Zenon
<1>11. Walk(pass) = fold[n]
  BY Zenon DEF Walk, FoldForward, Rnd, n, st
<1> HIDE DEF fold
<1>12. fold[0] = st /\ \A j \in 1 .. n : fold[j] = Rnd(fold[j - 1], Layout[j])
  BY <1>1, <1>8, <1>10
<1>13. ASSUME NEW j \in 1 .. n, fold[j - 1] \in I[j - 1]
       PROVE  fold[j] \in I[j]
  BY <1>3, <1>12, <1>13
<1>14. fold[n] \in I[n]
  <2>1. fold[0] \in I[0]
    BY <1>4, <1>12
  <2> QED
    BY <1>1, <1>13, <2>1, Stays
<1> QED
  BY <1>1, <1>5, <1>11, <1>14

-----------------------------------------------------------------------------
(* What the solver leaves to the passes. *)

(* A register that is defined at the end of a bbl is known in its          *)
(* successors.                                                             *)
LEMMA DefinednessFlows ==
  ASSUME SolverInv, active = <<>>, NEW b \in Bbl, NEW s \in Succ(b), NEW r \in Reg,
         Own(b, r) # NoDef \/ defs_in[b][r] # NoDef
  PROVE  defs_in[s][r] # NoDef
<1>1. Covers(defs_in[s][r], NewOut(b)[r], s) /\ NewOut(b)[r] # NoDef
  BY AllMerged, NewOutIs DEF SolverInv
<1>2. s # NoDef
  BY ReachingDefsAssumption, Shape, <1>1 DEF SolverInv, SolverTypes, Succ, ToSet
<1> QED
  BY <1>1, <1>2 DEF Covers

(* In Python a register that a bbl reads first is known there: the entry   *)
(* knows it, and every bbl can be reached.                                 *)
LEMMA ReadsKnown ==
  ASSUME SolverInv, active = <<>>, lang = "py", NEW b \in Bbl, NEW r \in Reg,
         ReadFirst(source.code[b], r)
  PROVE  defs_in[b][r] # NoDef
<1> DEFINE S == {c \in Bbl : defs_in[c][r] # NoDef}
<1>1. source \in Programs /\ First \in Bbl /\ NoDef \notin Bbl
  BY Shape DEF SolverInv, SolverTypes
<1>2. First \in S
  BY <1>1 DEF SolverInv, UndefinedKnown, ReadSomewhere
<1>3. ASSUME NEW c \in S
      PROVE  ToSet(source.edge_out[c]) \subseteq S
  <2> SUFFICES ASSUME NEW s \in Succ(c)
               PROVE  s \in S
    BY DEF Succ
  <2>1. s \in Bbl
    BY <1>1, Shape DEF Succ, ToSet
  <2>2. defs_in[s][r] # NoDef
    BY DefinednessFlows
  <2> QED
    BY <2>1, <2>2
<1>4. S = Bbl
  <2>1. S \in SUBSET Bbl
    OBVIOUS
  <2> HIDE DEF S
  <2> QED
    BY <1>1, <1>2, <1>3, <2>1, ProgramsAssumption
<1> QED
  BY <1>4

(* The last definition of a bbl is one of its places. *)
LEMMA OwnPlace ==
  ASSUME source \in Programs, code = FreshCode, NEW b \in Bbl, NEW r, Own(b, r) # NoDef
  PROVE  Own(b, r)[1] = b /\ Own(b, r)[2] \in 1 .. Len(source.code[b])
<1> DEFINE I == Definers(source.code[b], r)
           n == Len(source.code[b])
<1>1. n \in Nat /\ I # {} /\ I \in SUBSET (1 .. n)
  BY OwnIs, Shape DEF Definers
<1>2. Own(b, r) = <<b, Max(I)>>
  BY <1>1, LastDefIs DEF Own
<1> HIDE DEF I, n
<1>3. Max(I) \in 1 .. n
  BY <1>1, Latest
<1> QED
  BY <1>2, <1>3 DEF n

(* A register that is defined at a place of a bbl is defined at its end.   *)
LEMMA DefinedAtEnd ==
  ASSUME source \in Programs, code = FreshCode, NEW b \in Bbl, NEW p,
         p[1] = b, p[2] \in 1 .. Len(source.code[b]), NEW r, Defined(p, r)
  PROVE  Own(b, r) # NoDef \/ defs_in[b][r] # NoDef
<1>1. CASE defs_in[b][r] # NoDef
  BY <1>1
<1>2. CASE defs_in[b][r] = NoDef
  <2>1. PICK j \in 1 .. p[2] - 1 : Defines(source.code[b][j], r)
    BY <1>2 DEF Defined
  <2>2. j \in 1 .. Len(source.code[b])
    BY Shape
  <2>3. Definers(source.code[b], r) # {}
    BY <2>1, <2>2 DEF Definers
  <2> QED
    BY <2>3, OwnIs
<1> QED
  BY <1>1, <1>2

(* What is defined where a definition is made is known wherever that       *)
(* definition reaches.                                                     *)
LEMMA ReachingBefore ==
  ASSUME SolverInv, active = <<>>, NEW r \in Reg
  PROVE  \A b \in Bbl : \A p \in Reaching(r)[b] \ {NoDef} :
           \A q \in Reg : Defined(p, q) => defs_in[b][q] # NoDef
<1> DEFINE N == Cardinality(Bbl)
           Known(p, b) == \A q \in Reg : Defined(p, q) => defs_in[b][q] # NoDef
           Good(m) == \A b \in Bbl : \A p \in m[b] \ {NoDef} : Known(p, b)
           I == [k \in 0 .. N |-> {m \in [Bbl -> SUBSET Fact] : Good(m)}]
<1>1. source \in Programs /\ code = FreshCode /\ N \in Nat
  BY FinitePlaces DEF SolverInv, SolverTypes
<1>2. PICK w \in ReachingRounds(r) : TRUE
  BY <1>1, ReachingLoop
<1>3. /\ w \in [0 .. N -> [Bbl -> SUBSET Fact]] /\ w[0] = AtStart /\ w[N] = Reaching(r)
      /\ \A k \in 1 .. N : w[k] = Further(w[k - 1], r)
  BY <1>2 DEF ReachingRounds
<1>4. w[0] \in I[0]
  <2>1. w[0] \in [Bbl -> SUBSET Fact]
    BY <1>1, <1>3
  <2>2. \A b \in Bbl : w[0][b] \ {NoDef} = {}
    BY <1>3 DEF AtStart
  <2> HIDE DEF Known
  <2> QED
    BY <1>1, <2>1, <2>2
<1>5. ASSUME NEW k \in 1 .. N, w[k - 1] \in I[k - 1]
      PROVE  w[k] \in I[k]
  <2>1. /\ k - 1 \in 0 .. N /\ k \in 0 .. N /\ w[k] = Further(w[k - 1], r)
        /\ w[k] \in [Bbl -> SUBSET Fact] /\ Good(w[k - 1])
    <3> HIDE DEF N, Known
    <3>1. k - 1 \in 0 .. N /\ k \in 0 .. N
      BY <1>1
    <3> QED
      BY <1>3, <1>5, <3>1
  <2> DEFINE m == w[k - 1]
  <2>2. ASSUME NEW b \in Bbl, NEW p \in w[k][b] \ {NoDef}
        PROVE  Known(p, b)
    <3>1. CASE p \in m[b]
      BY <2>1, <3>1
    <3>2. CASE p \notin m[b]
      <4>1. PICK c \in Bbl : b \in Succ(c) /\ p \in LetOut(m, c, r)
        BY <2>1, <2>2, <3>2 DEF Further
      <4>2. ASSUME NEW q \in Reg, Defined(p, q)
            PROVE  Own(c, q) # NoDef \/ defs_in[c][q] # NoDef
        <5>1. CASE Own(c, r) # NoDef
          <6>1. p = Own(c, r)
            BY <4>1, <5>1 DEF LetOut
          <6> QED
            BY <1>1, <4>2, <5>1, <6>1, OwnPlace, DefinedAtEnd
        <5>2. CASE Own(c, r) = NoDef
          BY <2>1, <2>2, <4>1, <4>2, <5>2 DEF LetOut
        <5> QED
          BY <5>1, <5>2
      <4> QED
        BY <4>1, <4>2, DefinednessFlows
    <3> QED
      BY <3>1, <3>2
  <2> HIDE DEF Known
  <2> QED
    BY <2>1, <2>2
<1> HIDE DEF I
<1>6. w[N] \in I[N]
  BY <1>1, <1>4, <1>5, Stays
<1> QED
  BY <1>1, <1>3, <1>6 DEF I

(* Every use finds a definition; in Python its register is defined, and    *)
(* what is defined where the definition was made is defined at the use.    *)
LEMMA DefAtSound ==
  ASSUME SolverInv, active = <<>>, NEW h \in Places, NEW n \in UseSlots(At(source.code, h)),
         NEW r, r = At(source.code, h).ops[n]
  PROVE  /\ DefAt(h[1], h[2], r) \in Places \cup Bbl
         /\ lang = "py" => /\ Defined(h, r)
                           /\ DefAt(h[1], h[2], r) \in Places => Before(DefAt(h[1], h[2], r), h)
<1> DEFINE b == h[1]
           i == h[2]
           I == Earlier(b, i, r)
           d == DefAt(b, i, r)
<1>1. /\ source \in Programs /\ code = FreshCode /\ lang \in {"py", "cc"} /\ r \in Reg
      /\ n \in DOMAIN At(source.code, h).ops
      /\ defs_in \in [Bbl -> [Reg -> Definition]] /\ NoDef \notin Bbl /\ Bbl \cap Places = {}
  BY Shape DEF SolverInv, SolverTypes, UseSlots
<1>2. /\ b \in Bbl /\ h = <<b, i>> /\ i \in 1 .. Len(source.code[b]) /\ Len(source.code[b]) \in Nat
      /\ DOMAIN source.code[b] = 1 .. Len(source.code[b])
  BY <1>1, Shape
<1>3. ASSUME NEW k \in 1 .. i - 1
      PROVE  /\ <<b, k>> \in Places
             /\ Defines(code[b][k], r) <=> Defines(source.code[b][k], r)
  <2>1. k \in DOMAIN source.code[b]
    BY <1>2
  <2>2. code[b][k] = Fresh(source.code[b][k]) /\ <<b, k>> \in Places
    BY <1>1, <1>2, <2>1, Shape, CodeShape
  <2> QED
    BY <2>2 DEF Fresh, Defines
<1>4. i \in Nat /\ i # 0 /\ i - 1 \in Nat /\ I \in SUBSET (1 .. i - 1)
  BY <1>2 DEF Earlier
<1>5. CASE I # {}
  <2>1. Max(I) \in I /\ Max(I) \in 1 .. i - 1
    <3> HIDE DEF I, i
    <3> QED
      BY <1>4, <1>5, Latest
  <2>2. d = <<b, Max(I)>>
    BY <1>2, <1>4, <1>5, DefAtIs
  <2>3. Defines(code[b][Max(I)], r)
    BY <2>1 DEF Earlier
  <2> DEFINE m == Max(I)
  <2> HIDE DEF m, I, d
  <2>4. d \in Places /\ m \in 1 .. i - 1 /\ Defines(source.code[b][m], r) /\ d = <<b, m>>
    BY <1>3, <2>1, <2>2, <2>3 DEF m
  <2>5. Defined(h, r)
    BY <2>4 DEF Defined
  <2>6. Before(d, h)
    <3>1. \A j \in 1 .. m - 1 : j \in 1 .. i - 1
      BY <1>4, <2>4
    <3> QED
      BY <2>4, <3>1 DEF Before, Defined
  <2> QED
    BY <2>4, <2>5, <2>6 DEF d
<1>6. CASE I = {}
  <2>1. d = Settled[b][r]
    BY <1>2, <1>4, <1>6, DefAtIs
  <2>2. d = IF lang = "cc" /\ defs_in[b][r] = NoDef THEN b ELSE defs_in[b][r]
    BY <1>1, <1>2, <2>1 DEF Settled
  <2>3. defs_in[b][r] \in Places \cup Bbl \cup {NoDef}
    BY <1>1, <1>2 DEF Definition
  <2>4. ReadFirst(source.code[b], r)
    <3>1. \A j \in 1 .. i - 1 : ~Defines(source.code[b][j], r)
      BY <1>3, <1>6 DEF Earlier
    <3> QED
      BY <1>2, <3>1 DEF ReadFirst, At
  <2> HIDE DEF d, b, i
  <2>5. CASE lang = "cc"
    BY <1>2, <2>2, <2>3, <2>5 DEF d, b, i
  <2>6. CASE lang = "py"
    <3>1. defs_in[b][r] # NoDef
      BY <1>1, <1>2, <2>4, <2>6, ReadsKnown
    <3>2. d = defs_in[b][r]
      BY <2>2, <2>6
    <3>3. \A q \in Reg : defs_in[b][q] # NoDef => Defined(h, q)
      BY DEF Defined, b
    <3>4. ASSUME d \in Places
          PROVE  Before(d, h)
      <4>1. d \in Reaching(r)[b] \ {NoDef}
        BY <1>1, <1>2, <3>1, <3>2, <3>4 DEF SolverInv, AllJustified, Justified
      <4>2. \A q \in Reg : Defined(d, q) => defs_in[b][q] # NoDef
        BY <1>1, <1>2, <4>1, ReachingBefore
      <4> QED
        BY <3>3, <4>2 DEF Before
    <3> QED
      BY <1>1, <2>3, <3>1, <3>2, <3>3, <3>4 DEF d, b, i
  <2> QED
    BY <1>1, <2>5, <2>6
<1> QED
  BY <1>5, <1>6

(* Every use is given a definition, and the code is sound.                 *)
LEMMA PublishSound ==
  ASSUME SolverInv, Publish
  PROVE  pc' = "regs" /\ (lang = "py" => defs_in' = defs_in /\ code' \in SoundCode)
<1>1. /\ source \in Programs /\ code = FreshCode /\ active = <<>>
      /\ defs_in \in [Bbl -> [Reg -> Definition]]
      /\ defs_in' = Settled
      /\ code' = [b \in Bbl |-> [i \in DOMAIN code[b] |->
                    [code[b][i] EXCEPT !.defs = OperandDefs(b, i)]]]
      /\ pc' = IF \E h \in Places : Contains(At(code', h).defs, NoDef)
               THEN "failed" ELSE "regs"
  BY DEF Publish, SolverInv, SolverTypes
<1>2. NoDef \notin Bbl /\ NoDef \notin Places /\ NoDef # INVALID /\ INVALID \notin Places
  <2>1. source \in Programs
    BY <1>1
  <2>2. NoDef \notin Bbl /\ NoDef \notin Places
    BY <2>1, Shape
  <2>3. \A h \in Places : h = <<h[1], h[2]>> /\ h[1] \in Bbl /\ h[2] \in Nat
    BY <2>1, Shape
  <2> QED
    BY <2>2, <2>3, ProgramsAssumption
<1>3. ASSUME NEW h \in Places
      PROVE  LET ins == At(source.code, h)
                 new == At(code', h)
             IN /\ new = [opc |-> ins.opc, ops |-> ins.ops, defs |-> new.defs]
                /\ new.opc = ins.opc /\ new.ops = ins.ops
                /\ new.defs \in [1 .. Len(ins.ops) -> OperandDef]
                /\ DOMAIN ins.ops = 1 .. Len(ins.ops)
                /\ Len(ins.ops) \in Nat /\ ins.ops \in Seq(Operand)
                /\ \A n \in DOMAIN ins.ops :
                     \/ /\ n \in UseSlots(ins) /\ new.defs[n] \in Places \cup Bbl
                        /\ lang = "py" => /\ Defined(h, ins.ops[n])
                                          /\ new.defs[n] \in Places => Before(new.defs[n], h)
                     \/ n \notin UseSlots(ins) /\ new.defs[n] = INVALID
  <2> DEFINE ins == At(source.code, h)
             new == At(code', h)
             b == h[1]
             i == h[2]
             defs == OperandDefs(b, i)
  <2>1. /\ b \in Bbl /\ i \in DOMAIN code[b] /\ ins \in Instruction
        /\ code[b][i] = Fresh(ins)
    BY <1>1, Shape, CodeShape DEF At
  <2>2. new = [Fresh(ins) EXCEPT !.defs = defs]
    BY <1>1, <2>1 DEF At
  <2>3. new.opc = ins.opc /\ new.ops = ins.ops /\ new.defs = defs
        /\ new = [opc |-> ins.opc, ops |-> ins.ops, defs |-> defs]
    <3> HIDE DEF defs, ins, new
    <3> QED
      BY <2>2 DEF Fresh
  <2>4. ins.ops \in Seq(Operand)
    BY <2>1 DEF Instruction, Operand
  <2>5. defs = [n \in DOMAIN ins.ops |->
                  IF n \in UseSlots(ins) THEN DefAt(b, i, ins.ops[n]) ELSE INVALID]
    BY <2>1 DEF OperandDefs, Fresh, UseSlots
  <2>6. DOMAIN ins.ops = 1 .. Len(ins.ops) /\ Len(ins.ops) \in Nat
    <3> DEFINE s == ins.ops
    <3> HIDE DEF ins
    <3>1. s \in Seq(Operand)
      BY <2>4
    <3> HIDE DEF s
    <3>2. DOMAIN s = 1 .. Len(s) /\ Len(s) \in Nat
      BY <3>1
    <3> QED
      BY <3>2 DEF s
  <2>7. ASSUME NEW n \in DOMAIN ins.ops
        PROVE  \/ /\ n \in UseSlots(ins) /\ defs[n] \in Places \cup Bbl
                  /\ lang = "py" => /\ Defined(h, ins.ops[n])
                                    /\ defs[n] \in Places => Before(defs[n], h)
               \/ n \notin UseSlots(ins) /\ defs[n] = INVALID
    <3>1. CASE n \in UseSlots(ins)
      <4>1. defs[n] = DefAt(h[1], h[2], ins.ops[n])
        BY <2>5, <3>1
      <4> HIDE DEF defs
      <4> QED
        BY <1>1, <3>1, <4>1, DefAtSound
    <3>2. CASE n \notin UseSlots(ins)
      BY <2>5, <3>2
    <3> QED
      BY <3>1, <3>2
  <2>8. defs \in [1 .. Len(ins.ops) -> OperandDef]
    <3>1. \A n \in 1 .. Len(ins.ops) : defs[n] \in OperandDef
      BY <2>6, <2>7 DEF OperandDef
    <3>2. defs = [n \in 1 .. Len(ins.ops) |-> defs[n]]
      BY <2>5, <2>6
    <3> HIDE DEF defs, ins
    <3> QED
      BY <3>1, <3>2
  <2> HIDE DEF ins, defs, new
  <2>9. /\ new = [opc |-> ins.opc, ops |-> ins.ops, defs |-> new.defs]
        /\ new.defs \in [1 .. Len(ins.ops) -> OperandDef]
        /\ \A n \in DOMAIN ins.ops :
             \/ /\ n \in UseSlots(ins) /\ new.defs[n] \in Places \cup Bbl
                /\ lang = "py" => /\ Defined(h, ins.ops[n])
                                  /\ new.defs[n] \in Places => Before(new.defs[n], h)
             \/ n \notin UseSlots(ins) /\ new.defs[n] = INVALID
    BY <2>3, <2>7, <2>8
  <2> QED
    BY <2>3, <2>4, <2>6, <2>9 DEF ins, new
<1>4. ASSUME NEW h \in Places
      PROVE  /\ ~Contains(At(code', h).defs, NoDef) /\ At(code', h) \in Annotated
             /\ Len(At(code', h).defs) = Len(At(code', h).ops)
             /\ lang = "py" => Sound(h, At(code', h))
  <2> DEFINE ins == At(source.code, h)
             new == At(code', h)
  <2>1. /\ new = [opc |-> ins.opc, ops |-> ins.ops, defs |-> new.defs]
        /\ new.opc = ins.opc /\ new.ops = ins.ops
        /\ new.defs \in [1 .. Len(ins.ops) -> OperandDef]
        /\ DOMAIN ins.ops = 1 .. Len(ins.ops)
        /\ Len(ins.ops) \in Nat /\ ins.ops \in Seq(Operand)
        /\ \A n \in DOMAIN ins.ops :
             \/ /\ n \in UseSlots(ins) /\ new.defs[n] \in Places \cup Bbl
                /\ lang = "py" => /\ Defined(h, ins.ops[n])
                                  /\ new.defs[n] \in Places => Before(new.defs[n], h)
             \/ n \notin UseSlots(ins) /\ new.defs[n] = INVALID
    BY <1>3
  <2>2. h[1] \in Bbl /\ h[2] \in DOMAIN source.code[h[1]] /\ ins.opc \in Opcode
    BY <1>1, Shape DEF Opcode
  <2>3. WellFormed(ins)
    BY <1>1, <2>2, ProgramsAssumption DEF At
  <2>4. UseSlots(new) = UseSlots(ins)
    BY <2>1 DEF UseSlots
  <2>5. WellFormed(new)
    BY <2>1, <2>3 DEF WellFormed
  <2> HIDE DEF ins, new
  <2>6. new.defs \in Seq(OperandDef) /\ Len(new.defs) = Len(ins.ops)
        /\ DOMAIN new.defs = 1 .. Len(ins.ops)
    <3> DEFINE s == new.defs
               m == Len(ins.ops)
    <3>1. s \in [1 .. m -> OperandDef] /\ m \in Nat
      BY <2>1
    <3> HIDE DEF s, m
    <3>2. s \in Seq(OperandDef) /\ Len(s) = m /\ DOMAIN s = 1 .. m
      BY <3>1
    <3> QED
      BY <3>2 DEF s, m
  <2>7. new \in Annotated
    <3> DEFINE a == ins.opc
               B == Seq(Operand)
               C == Seq(OperandDef)
               ops == ins.ops
               defs == new.defs
    <3>1. new = [opc |-> a, ops |-> ops, defs |-> defs] /\ a \in Opcode /\ ops \in B /\ defs \in C
      BY <2>1, <2>2, <2>6
    <3> HIDE DEF a, B, C, ops, defs
    <3>2. new \in [opc : Opcode, ops : B, defs : C]
      BY <3>1
    <3> QED
      BY <3>2 DEF Annotated, B, C
  <2>8. ~Contains(new.defs, NoDef)
    <3>1. \A n \in 1 .. Len(ins.ops) : new.defs[n] # NoDef
      BY <1>2, <2>1
    <3> QED
      BY <2>6, <3>1 DEF Contains
  <2>9. ASSUME lang = "py"
        PROVE  Sound(h, new)
    <3>1. \A n \in UseSlots(new) : n \in DOMAIN ins.ops /\ Defined(h, new.ops[n])
      BY <2>1, <2>4, <2>9 DEF UseSlots
    <3>2. ASSUME NEW n \in DOMAIN new.defs, new.defs[n] \in Places
          PROVE  n \in UseSlots(new) /\ Before(new.defs[n], h)
      BY <1>2, <2>1, <2>4, <2>6, <2>9, <3>2
    <3> QED
      BY <2>1, <2>5, <2>6, <2>7, <3>1, <3>2 DEF Sound, ins
  <2> QED
    BY <2>1, <2>6, <2>7, <2>8, <2>9 DEF new
<1>5. pc' = "regs"
  BY <1>1, <1>4
<1>6. ASSUME lang = "py"
      PROVE  defs_in' = defs_in
  <2>1. Settled = [b \in Bbl |-> [r \in Reg |-> defs_in[b][r]]]
    BY <1>6 DEF Settled
  <2>2. \A b \in Bbl : [r \in Reg |-> defs_in[b][r]] = defs_in[b]
    BY <1>1
  <2>3. [b \in Bbl |-> defs_in[b]] = defs_in
    BY <1>1
  <2> QED
    BY <1>1, <2>1, <2>2, <2>3
<1>7. ASSUME lang = "py"
      PROVE  code' \in SoundCode
  <2>1. ASSUME NEW b \in Bbl
        PROVE  code'[b] \in Seq(Annotated) /\ Len(code'[b]) = Len(source.code[b])
    <3> DEFINE s == code'[b]
               m == Len(source.code[b])
    <3>1. m \in Nat /\ DOMAIN code[b] = 1 .. m
          /\ \A i \in 1 .. m : <<b, i>> \in Places
      BY <1>1, Shape, CodeShape
    <3>2. s = [i \in 1 .. m |-> s[i]]
      BY <1>1, <3>1
    <3>3. \A i \in 1 .. m : s[i] \in Annotated
      <4>1. \A i \in 1 .. m : At(code', <<b, i>>) = s[i]
        BY DEF At
      <4> HIDE DEF s
      <4> QED
        BY <1>4, <3>1, <4>1
    <3> HIDE DEF s, m
    <3>4. s \in [1 .. m -> Annotated]
      BY <3>2, <3>3
    <3>5. s \in Seq(Annotated) /\ Len(s) = m
      BY <3>1, <3>4
    <3> QED
      BY <3>5 DEF s, m
  <2>2. code' \in [Bbl -> Seq(Annotated)]
    <3>1. code' = [b \in Bbl |-> code'[b]]
      BY <1>1
    <3> QED
      BY <2>1, <3>1
  <2> QED
    BY <1>4, <1>7, <2>1, <2>2 DEF SoundCode
<1> QED
  BY <1>5, <1>6, <1>7

-----------------------------------------------------------------------------
(* No step fails. *)

(* What sound code is depends on the program and the solver's result only. *)
LEMMA SoundCodeKept ==
  ASSUME source' = source, defs_in' = defs_in
  PROVE  SoundCode' = SoundCode /\ Definition' = Definition
<1>1. Places' = Places
  BY DEF Places
<1>2. Opcode' = Opcode /\ OperandDef' = OperandDef /\ Annotated' = Annotated
  BY <1>1 DEF Opcode, OperandDef, Annotated, At
<1>3. \A h, r : Defined(h, r)' <=> Defined(h, r)
  BY DEF Defined
<1>4. \A g, h : Before(g, h)' <=> Before(g, h)
  BY <1>3 DEF Before
<1>5. \A h, ins : Sound(h, ins)' <=> Sound(h, ins)
  BY <1>1, <1>2, <1>3, <1>4 DEF Sound, At
<1> QED
  BY <1>1, <1>2, <1>5 DEF SoundCode, Definition, At

(* A pass finds what it looks up, or, in the port, need not.               *)
LEMMA PassKeepsInv ==
  ASSUME LookupInv, pc # "fixpoint", NEW pass, NEW next, next # "failed",
         Rewritten(Walk(pass), next)
  PROVE  LookupInv'
<1> DEFINE st == Walk(pass)
<1>1. /\ lang' = lang /\ source' = source /\ defs_in' = defs_in /\ code' = st.code
      /\ pc' = IF st.ok \/ lang = "cc" THEN next ELSE "failed"
  BY DEF Rewritten
<1>2. CASE lang = "cc"
  BY <1>1, <1>2 DEF LookupInv
<1>3. CASE lang = "py"
  <2>1. Context /\ code \in SoundCode
    BY <1>3 DEF LookupInv, Context
  <2>2. st \in States
    BY <2>1, WalkSound
  <2> HIDE DEF st
  <2>3. st.ok /\ st.code \in SoundCode
    BY <2>2 DEF States, Fine
  <2> QED
    BY <1>1, <1>3, <2>1, <2>3, SoundCodeKept DEF LookupInv, Context
<1> QED
  BY <1>2, <1>3 DEF LookupInv

(* No step fails, and the passes keep the code sound. *)
LEMMA StepKeepsLookups ==
  ASSUME IInv, LookupInv, [Next]_vars
  PROVE  LookupInv'
<1>1. CASE Visit
  BY <1>1 DEF Visit, LookupInv
<1>2. CASE Publish
  <2>1. SolverInv /\ lang' = lang /\ source' = source
    BY <1>2 DEF Publish, IInv
  <2>2. pc' = "regs" /\ (lang = "py" => defs_in' = defs_in /\ code' \in SoundCode)
    BY <1>2, <2>1, PublishSound
  <2>3. source \in Programs /\ defs_in \in [Bbl -> [Reg -> Definition]]
    BY <2>1 DEF SolverInv, SolverTypes
  <2> QED
    BY <2>1, <2>2, <2>3, SoundCodeKept DEF LookupInv
<1>3. CASE FunPropagateRegs
  BY <1>3, PassKeepsInv DEF FunPropagateRegs
<1>4. CASE FunPropagateConsts
  BY <1>4, PassKeepsInv DEF FunPropagateConsts
<1>5. CASE FunStrengthReduction
  BY <1>5, PassKeepsInv DEF FunStrengthReduction
<1>6. CASE FunLoadStoreSimplify
  BY <1>6, PassKeepsInv DEF FunLoadStoreSimplify
<1>7. CASE UNCHANGED vars
  <2>1. /\ lang' = lang /\ source' = source /\ code' = code /\ defs_in' = defs_in /\ pc' = pc
    BY <1>7 DEF vars
  <2> QED
    BY <2>1, SoundCodeKept DEF LookupInv
<1> QED
  BY <1>1, <1>2, <1>3, <1>4, <1>5, <1>6, <1>7 DEF Next

(***************************************************************************)
(* Whatever the program, no register is looked up that has no definition:  *)
(* neither when the definitions are published nor by one of the rewrites,  *)
(* which read what earlier rewrites have written.                          *)
(***************************************************************************)
THEOREM LookupsSucceed == Spec => []NoLookupFails
<1>1. Init => LookupInv
  BY DEF Init, LookupInv
<1>2. IInv /\ LookupInv /\ [Next]_vars => LookupInv'
  BY StepKeepsLookups
<1>3. LookupInv => NoLookupFails
  BY DEF LookupInv, NoLookupFails
<1> QED
  BY <1>1, <1>2, <1>3, SolverInvariance, PTL DEF Spec
=============================================================================
