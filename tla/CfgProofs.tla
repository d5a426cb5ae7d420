----------------------------- MODULE CfgProofs -----------------------------
(***************************************************************************)
(* Two theorems about the control-flow graph, for functions of any size.   *)
(*                                                                         *)
(* FlipInverts: inverting a conditional branch negates its test, which is  *)
(* what FunAddUnconditionalBranches relies on when it falls through to the *)
(* bbl a branch jumped to.  Unordered operands are outside of the three    *)
(* orders, and so of the theorem.                                          *)
(*                                                                         *)
(* EdgesAreTheCode: the edges of every bbl are the ways control can leave  *)
(* it.  The argument follows the passes, and its inductive invariant (at   *)
(* the end) says what each of them hands to the next one:                  *)
(*   SplitBbls      every bbl is in the layout, terminators come last      *)
(*   InitBbls       edges out are the targets and the bbl fallen into,     *)
(*                  edge_in mirrors edge_out                               *)
(*   removing bra   only bbls with a successor are empty                   *)
(*   RemoveEmptyBbls  what holds is the mirror, and that a switch's edges  *)
(*                  are its table: a jump table is shared, and is patched  *)
(*                  for all of its switches at the first of them           *)
(*   FunCheckCFG    the shape of every bbl, which other passes keep        *)
(*   LinearizeAll   bbls in a row, each fitting the one behind it, where   *)
(*                  a new bbl may come in between                          *)
(* Each loop is a fold; a lemma per loop (..Loop) says that a family of    *)
(* sets that its rounds lead through holds its result.                     *)
(***************************************************************************)
EXTENDS Cfg, FoldTheorems, SequenceTheorems

(* The conditional branches of the IR.                                     *)
CondBra(Id, Bbl) ==
  [k : {"cond"}, id : Id, op : DOMAIN BranchInversion, swapped : BOOLEAN, to : Bbl]

(* The record InsFlipCondBra returns, field by field.                      *)
LEMMA FlippedFields ==
  ASSUME NEW Id, NEW Bbl, NEW ins \in CondBra(Id, Bbl), NEW new_target \in Bbl
  PROVE  LET flipped == InsFlipCondBra(ins, new_target)
         IN /\ flipped.k = "cond" /\ flipped.id = ins.id /\ flipped.to = new_target
            /\ flipped.op = BranchInversion[ins.op].op
            /\ flipped.swapped = IF BranchInversion[ins.op].flip THEN ~ins.swapped ELSE ins.swapped
<1> DEFINE inversion == BranchInversion[ins.op]
<1> HIDE DEF inversion
<1>1. InsFlipCondBra(ins, new_target) = [ins EXCEPT !.to = new_target, !.op = inversion.op,
                 !.swapped = IF inversion.flip THEN ~@ ELSE @]
  BY Zenon DEF InsFlipCondBra, inversion
<1> QED BY <1>1 DEF CondBra, inversion

(* When each of the four branches is taken; swapped operands mirror the    *)
(* order.                                                                  *)
LEMMA TakenOf ==
  ASSUME NEW ins, NEW order \in {"lt", "eq", "gt"}, ins.swapped \in BOOLEAN
  PROVE  /\ ins.op = "beq" => (Taken(ins, order) <=> order = "eq")
         /\ ins.op = "bne" => (Taken(ins, order) <=> order # "eq")
         /\ ins.op = "blt" => (Taken(ins, order) <=> order = IF ins.swapped THEN "gt" ELSE "lt")
         /\ ins.op = "ble" => (Taken(ins, order) <=> order # IF ins.swapped THEN "lt" ELSE "gt")
<1>1. CASE ins.swapped = TRUE BY <1>1 DEF Taken, Mirror, TakenWhen
<1>2. CASE ins.swapped = FALSE BY <1>2 DEF Taken, Mirror, TakenWhen
<1> QED BY <1>1, <1>2

(***************************************************************************)
(* The inverted branch (InsFlipCondBra) is taken exactly when the branch   *)
(* it replaces is not: beq and bne exchange, blt becomes ble with its      *)
(* operands swapped, and ble becomes blt the same way.                     *)
(***************************************************************************)
THEOREM FlipInverts ==
  ASSUME NEW Id, NEW Bbl, NEW ins \in CondBra(Id, Bbl), NEW new_target \in Bbl,
         NEW order \in {"lt", "eq", "gt"}
  PROVE  Taken(InsFlipCondBra(ins, new_target), order) <=> ~Taken(ins, order)
<1> DEFINE flipped == InsFlipCondBra(ins, new_target)
           op == ins.op
<1>1. flipped.op = BranchInversion[ins.op].op BY FlippedFields
<1>2. flipped.swapped = IF BranchInversion[ins.op].flip THEN ~ins.swapped ELSE ins.swapped
  BY FlippedFields
<1> HIDE DEF flipped
<1>3. op \in {"beq", "bne", "blt", "ble"} /\ ins.swapped \in BOOLEAN
  BY DEF CondBra, BranchInversion
<1>4. flipped.swapped = IF op \in {"blt", "ble"}
                        THEN IF ins.swapped THEN FALSE ELSE TRUE ELSE ins.swapped
  <2>1. CASE op \in {"blt", "ble"}
    <3>1. BranchInversion[ins.op].flip = TRUE BY <2>1 DEF BranchInversion
    <3>2. flipped.swapped = ~ins.swapped BY <1>2, <3>1, Zenon
    <3>3. CASE ins.swapped = TRUE BY <2>1, <3>2, <3>3
    <3>4. CASE ins.swapped = FALSE BY <2>1, <3>2, <3>4
    <3> QED BY <1>3, <3>3, <3>4
  <2>2. CASE op \in {"beq", "bne"}
    <3>1. BranchInversion[ins.op].flip = FALSE BY <2>2 DEF BranchInversion
    <3>2. flipped.swapped = ins.swapped BY <1>2, <3>1, Zenon
    <3> QED BY <2>2, <3>2
  <2> QED BY <1>3, <2>1, <2>2
<1>5. flipped.swapped \in BOOLEAN BY <1>3, <1>4
<1>6. (op = "beq" => flipped.op = "bne") /\ (op = "bne" => flipped.op = "beq")
      /\ (op = "blt" => flipped.op = "ble") /\ (op = "ble" => flipped.op = "blt")
  BY <1>1 DEF BranchInversion
<1>7. /\ flipped.op = "beq" => (Taken(flipped, order) <=> order = "eq")
      /\ flipped.op = "bne" => (Taken(flipped, order) <=> order # "eq")
      /\ flipped.op = "blt" => (Taken(flipped, order) <=> order = IF flipped.swapped THEN "gt" ELSE "lt")
      /\ flipped.op = "ble" => (Taken(flipped, order) <=> order # IF flipped.swapped THEN "lt" ELSE "gt")
  BY <1>5, TakenOf
<1>8. /\ op = "beq" => (Taken(ins, order) <=> order = "eq")
      /\ op = "bne" => (Taken(ins, order) <=> order # "eq")
      /\ op = "blt" => (Taken(ins, order) <=> order = IF ins.swapped THEN "gt" ELSE "lt")
      /\ op = "ble" => (Taken(ins, order) <=> order # IF ins.swapped THEN "lt" ELSE "gt")
  BY <1>3, TakenOf
<1>9. Taken(flipped, order) <=> ~Taken(ins, order)
  <2>1. CASE op \in {"beq", "bne"} BY <1>6, <1>7, <1>8, <2>1
  <2>2. CASE op \in {"blt", "ble"} /\ ins.swapped = TRUE BY <1>4, <1>6, <1>7, <1>8, <2>2
  <2>3. CASE op \in {"blt", "ble"} /\ ins.swapped = FALSE BY <1>4, <1>6, <1>7, <1>8, <2>3
  <2> QED BY <1>3, <2>1, <2>2, <2>3
<1> QED BY <1>9, Zenon DEF flipped
-----------------------------------------------------------------------------
(* How often an element is in a sequence. *)
Places(s, e) == {n \in DOMAIN s : s[n] = e}

(* The number of places is a number, and 0 only where there are none.      *)
LEMMA Counting ==
  ASSUME NEW S, NEW s \in Seq(S), NEW e
  PROVE  /\ IsFiniteSet(Places(s, e)) /\ Times(s, e) = Cardinality(Places(s, e))
         /\ Times(s, e) \in Nat
         /\ Times(s, e) = 0 <=> e \notin ToSet(s)
<1>1. /\ Len(s) \in Nat /\ DOMAIN s = 1 .. Len(s) /\ Places(s, e) \subseteq 1 .. Len(s)
  BY DEF Places
<1>2. IsFiniteSet(Places(s, e))
  <2> DEFINE n == Len(s)
  <2>1. n \in Int /\ 1 \in Int
    BY <1>1
  <2>2. Places(s, e) \subseteq 1 .. n
    BY <1>1
  <2> HIDE DEF n
  <2>3. IsFiniteSet(1 .. n)
    BY <2>1, FS_Interval
  <2> QED
    BY <2>2, <2>3, FS_Subset
<1>3. Times(s, e) = Cardinality(Places(s, e))
  BY DEF Times, Places
<1>4. Times(s, e) \in Nat
  BY <1>2, <1>3, FS_CardinalityType
<1>5. Times(s, e) = 0 <=> Places(s, e) = {}
  BY <1>2, <1>3, FS_EmptySet
<1>6. Places(s, e) = {} <=> e \notin ToSet(s)
  BY DEF Places, ToSet
<1> QED
  BY <1>2, <1>3, <1>4, <1>5, <1>6

(* The elements of two sequences that follow each other.                   *)
LEMMA CountingBoth ==
  ASSUME NEW S, NEW s \in Seq(S), NEW t \in Seq(S), NEW e
  PROVE  Times(s \o t, e) = Times(s, e) + Times(t, e)
<1> DEFINE u == s \o t
           m == Len(s)
           n == Len(t)
           P == Places(s, e)
           Q == Places(t, e)
           R == {m + k : k \in Q}
<1>1. /\ u \in Seq(S) /\ m \in Nat /\ n \in Nat /\ Len(u) = m + n
      /\ \A k \in 1 .. m : u[k] = s[k]
      /\ \A k \in 1 .. n : u[m + k] = t[k]
      /\ DOMAIN s = 1 .. m /\ DOMAIN t = 1 .. n
  OBVIOUS
<1>2. DOMAIN u = 1 .. m + n
  BY <1>1
<1> HIDE DEF u, m, n
<1>3. Places(u, e) = P \cup R
  <2>1. ASSUME NEW k \in Places(u, e)
        PROVE  k \in P \cup R
    <3>1. k \in 1 .. m + n /\ u[k] = e
      BY <1>2 DEF Places
    <3>2. CASE k <= m
      <4>1. k \in 1 .. m
        BY <1>1, <3>1, <3>2
      <4> QED
        BY <1>1, <3>1, <4>1 DEF Places
    <3>3. CASE k > m
      <4>1. k - m \in 1 .. n /\ m + (k - m) = k
        BY <1>1, <3>1, <3>3
      <4>2. t[k - m] = e
        BY <1>1, <3>1, <4>1
      <4>3. k - m \in Q
        BY <1>1, <4>1, <4>2 DEF Places
      <4> QED
        BY <4>1, <4>3
    <3> QED
      BY <1>1, <3>1, <3>2, <3>3
  <2>2. ASSUME NEW k \in P
        PROVE  k \in Places(u, e)
    <3>1. k \in 1 .. m /\ s[k] = e
      BY <1>1 DEF Places
    <3>2. k \in 1 .. m + n
      BY <1>1, <3>1
    <3> QED
      BY <1>1, <1>2, <3>1, <3>2 DEF Places
  <2>3. ASSUME NEW k \in Q
        PROVE  m + k \in Places(u, e)
    <3>1. k \in 1 .. n /\ t[k] = e
      BY <1>1 DEF Places
    <3>2. m + k \in 1 .. m + n
      BY <1>1, <3>1
    <3> QED
      BY <1>1, <1>2, <3>1, <3>2 DEF Places
  <2> QED
    BY <2>1, <2>2, <2>3
<1>4. P \subseteq 1 .. m /\ Q \subseteq 1 .. n
  BY <1>1 DEF Places
<1>5. IsFiniteSet(P) /\ IsFiniteSet(Q) /\ Times(s, e) = Cardinality(P) /\ Times(t, e) = Cardinality(Q)
  BY Counting
<1>6. Times(u, e) = Cardinality(P \cup R)
  BY <1>1, <1>3, Counting
<1> HIDE DEF P, Q
<1>7. P \cap R = {}
  BY <1>1, <1>4
<1>8. IsFiniteSet(R) /\ Cardinality(R) = Cardinality(Q)
  <2> DEFINE g == [k \in Q |-> m + k]
  <2>1. g \in Bijection(Q, R)
    <3>1. \A j, k \in Q : m + j = m + k => j = k
      BY <1>1, <1>4
    <3> QED
      BY <3>1 DEF Bijection, Injection, Surjection, IsInjective
  <2> HIDE DEF g, R
  <2>2. ExistsBijection(Q, R)
    BY <2>1 DEF ExistsBijection
  <2> QED
    BY <1>5, <2>2, FS_Bijection
<1> HIDE DEF R
<1>9. Cardinality(P \cup R) = Cardinality(P) + Cardinality(R) - Cardinality(P \cap R)
  BY <1>5, <1>8, FS_Union
<1>10. Cardinality(P \cap R) = 0
  BY <1>7, FS_EmptySet
<1>11. Cardinality(P) \in Nat /\ Cardinality(R) \in Nat
  BY <1>5, <1>8, FS_CardinalityType
<1>12. Times(u, e) = Times(s, e) + Times(t, e)
  BY <1>5, <1>6, <1>8, <1>9, <1>10, <1>11
<1> QED
  BY <1>12 DEF u

(* A sequence of one element.                                              *)
LEMMA CountingOne ==
  ASSUME NEW x, NEW e
  PROVE  Times(<<x>>, e) = IF x = e THEN 1 ELSE 0
<1>1. Places(<<x>>, e) = IF x = e THEN {1} ELSE {}
  BY DEF Places
<1>2. Times(<<x>>, e) = Cardinality(Places(<<x>>, e))
  BY DEF Times, Places
<1>3. Cardinality({1}) = 1 /\ Cardinality({}) = 0
  BY FS_Singleton, FS_EmptySet
<1> QED
  BY <1>1, <1>2, <1>3

(* One more element.                                                       *)
LEMMA CountingAppend ==
  ASSUME NEW S, NEW s \in Seq(S), NEW x \in S, NEW e
  PROVE  Times(Append(s, x), e) = Times(s, e) + IF x = e THEN 1 ELSE 0
<1>1. Append(s, x) = s \o <<x>>
  OBVIOUS
<1> DEFINE t == <<x>>
<1>2. t \in Seq(S) /\ Times(t, e) = IF x = e THEN 1 ELSE 0
  BY CountingOne
<1>3. Append(s, x) = s \o t
  BY <1>1
<1> HIDE DEF t
<1>4. Times(s \o t, e) = Times(s, e) + Times(t, e)
  BY <1>2, CountingBoth
<1> QED
  BY <1>2, <1>3, <1>4

(* One more element at the end.                                            *)
LEMMA AppendingLast ==
  ASSUME NEW S, NEW s \in Seq(S), NEW t \in Seq(S), NEW x \in S
  PROVE  s \o Append(t, x) = Append(s \o t, x)
OBVIOUS

(* RemoveFirst takes one of the places away, if there is one.              *)
LEMMA CountingRemoveFirst ==
  ASSUME NEW S, NEW s \in Seq(S), NEW x, x \in ToSet(s), NEW e
  PROVE  /\ RemoveFirst(s, x) \in Seq(S) /\ Len(RemoveFirst(s, x)) = Len(s) - 1
         /\ Times(RemoveFirst(s, x), e) = Times(s, e) - IF x = e THEN 1 ELSE 0
<1> DEFINE I == {k \in 1 .. Len(s) : s[k] = x}
           i == Min(I)
           n == Len(s)
           front == SubSeq(s, 1, i - 1)
           back == SubSeq(s, i + 1, Len(s))
<1>1. n \in Nat /\ DOMAIN s = 1 .. n /\ \E k \in 1 .. n : s[k] = x
  BY DEF ToSet
<1>2. I # {} /\ I \subseteq Nat
  BY <1>1
<1>3. \E k \in I : \A l \in I : k <= l
  <2> HIDE DEF I
  <2> QED
    BY <1>2, Least
<1>4. i \in I
  <2> HIDE DEF I
  <2> QED
    BY <1>3 DEF Min
<1>5. i \in 1 .. n /\ s[i] = x /\ i # 0
  BY <1>1, <1>4
<1>6. RemoveFirst(s, x) = RemoveAt(s, i)
  <2>1. SelectInSeq(s, LAMBDA v : v = x) = i
    BY <1>2 DEF SelectInSeq
  <2> QED
    BY <1>1, <2>1 DEF RemoveFirst
<1>7. RemoveAt(s, i) = front \o back
  BY DEF RemoveAt
<1> HIDE DEF i, n
<1>8. /\ front \in Seq(S) /\ back \in Seq(S) /\ Len(front) = i - 1 /\ Len(back) = n - i
  <2>1. \A k \in 1 .. n : s[k] \in S
    BY <1>1, ElementOfSeq DEF n
  <2>2. /\ 1 \in Int /\ i - 1 \in Int /\ i + 1 \in Int /\ n \in Int
        /\ \A k \in 1 .. i - 1 : k \in 1 .. n
        /\ \A k \in i + 1 .. n : k \in 1 .. n
    BY <1>1, <1>5
  <2>3. front \in Seq(S) /\ Len(front) = IF 1 <= i - 1 THEN (i - 1) - 1 + 1 ELSE 0
    BY <2>1, <2>2, SubSeqProperties
  <2>4. back = SubSeq(s, i + 1, n)
    BY DEF n
  <2>5. back \in Seq(S) /\ Len(back) = IF i + 1 <= n THEN n - (i + 1) + 1 ELSE 0
    <3> HIDE DEF back
    <3> QED
      BY <2>1, <2>2, <2>4, SubSeqProperties
  <2> QED
    BY <1>1, <1>5, <2>3, <2>5
<1> HIDE DEF front, back
<1>9. s = (front \o <<x>>) \o back
  <2>1. 1 \in 1 .. n + 1 /\ i \in 0 .. n /\ i - 1 \in 0 .. i /\ i \in i .. n /\ n \in i .. n
        /\ 1 - 1 = 0 /\ (i - 1) + 1 = i /\ i - 1 \in Int
    BY <1>1, <1>5
  <2>2. SubSeq(s, 1, i - 1) \o SubSeq(s, i, i) = SubSeq(s, 1, i)
    <3>1. 1 \in 1 .. Len(s) + 1 /\ i - 1 \in (1 - 1) .. Len(s) /\ i \in (i - 1) .. Len(s)
      BY <1>1, <1>5 DEF n
    <3>2. SubSeq(s, 1, i - 1) \o SubSeq(s, (i - 1) + 1, i) = SubSeq(s, 1, i)
      BY <3>1, ConcatAdjacentSubSeq
    <3> QED
      BY <2>1, <3>2
  <2>3. SubSeq(s, i, i) = <<x>>
    <3> DEFINE t == SubSeq(s, i, i)
    <3>1. \A k \in i .. i : s[k] \in {x}
      BY <1>5
    <3>2. i \in Int
      BY <1>5
    <3>3. t \in Seq({x}) /\ Len(t) = IF i <= i THEN i - i + 1 ELSE 0
      BY <3>1, <3>2, SubSeqProperties
    <3> HIDE DEF t
    <3>4. Len(t) = 1
      BY <3>2, <3>3
    <3>5. t = <<x>>
      <4> DEFINE v == <<x>>
      <4>1. v \in Seq({x}) /\ Len(v) = 1 /\ v[1] = x
        OBVIOUS
      <4> HIDE DEF v
      <4>2. \A k \in 1 .. Len(t) : t[k] = x
        BY <3>3, ElementOfSeq
      <4>3. \A k \in 1 .. Len(t) : t[k] = v[k]
        BY <3>4, <4>1, <4>2
      <4>4. t = v
        BY <3>3, <3>4, <4>1, <4>3, SeqEqual
      <4> QED
        BY <4>4 DEF v
    <3> QED
      BY <3>5 DEF t
  <2>4. SubSeq(s, 1, i) \o back = SubSeq(s, 1, n)
    <3>1. 1 \in 1 .. Len(s) + 1 /\ i \in (1 - 1) .. Len(s) /\ n \in i .. Len(s)
      BY <1>1, <1>5 DEF n
    <3>2. SubSeq(s, 1, i) \o SubSeq(s, i + 1, n) = SubSeq(s, 1, n)
      BY <3>1, ConcatAdjacentSubSeq
    <3> QED
      BY <3>2 DEF back, n
  <2>5. SubSeq(s, 1, n) = s
    BY SubSeqFull DEF n
  <2> QED
    BY <2>2, <2>3, <2>4, <2>5 DEF front, back
<1>10. x \in S /\ <<x>> \in Seq(S)
  BY <1>1, <1>5
<1>11. Times(s, e) = Times(front, e) + Times(<<x>>, e) + Times(back, e)
  <2> DEFINE t == <<x>>
  <2>1. t \in Seq(S) /\ s = (front \o t) \o back
    BY <1>9, <1>10
  <2> HIDE DEF t
  <2> DEFINE u == front \o t
  <2>2. u \in Seq(S) /\ Times(u, e) = Times(front, e) + Times(t, e)
    BY <1>8, <2>1, CountingBoth
  <2>3. s = u \o back
    BY <2>1
  <2> HIDE DEF u
  <2>4. Times(s, e) = Times(u, e) + Times(back, e)
    BY <1>8, <2>2, <2>3, CountingBoth
  <2> QED
    BY <2>2, <2>4 DEF t
<1>12. Times(front, e) \in Nat /\ Times(back, e) \in Nat
  BY <1>8, Counting
<1>13. Times(front \o back, e) = Times(front, e) + Times(back, e)
  BY <1>8, CountingBoth
<1>14. Times(<<x>>, e) = IF x = e THEN 1 ELSE 0
  BY CountingOne
<1>15. front \o back \in Seq(S) /\ Len(front \o back) = n - 1
  <2>1. front \o back \in Seq(S) /\ Len(front \o back) = Len(front) + Len(back)
    BY <1>8, ConcatProperties
  <2> QED
    BY <1>1, <1>5, <1>8, <2>1
<1> QED
  BY <1>6, <1>7, <1>11, <1>12, <1>13, <1>14, <1>15 DEF n

(* ReplaceAll hands the places of one element over to another.             *)
LEMMA CountingReplaceAll ==
  ASSUME NEW S, NEW s \in Seq(S), NEW old, NEW new \in S, NEW e
  PROVE  /\ ReplaceAll(s, old, new) \in Seq(S) /\ Len(ReplaceAll(s, old, new)) = Len(s)
         /\ Times(ReplaceAll(s, old, new), e) =
              IF old = new THEN Times(s, e)
              ELSE IF e = old THEN 0
              ELSE IF e = new THEN Times(s, new) + Times(s, old) ELSE Times(s, e)
<1> DEFINE t == ReplaceAll(s, old, new)
<1>1. /\ Len(s) \in Nat /\ DOMAIN s = 1 .. Len(s) /\ t \in Seq(S) /\ Len(t) = Len(s)
      /\ DOMAIN t = 1 .. Len(s)
      /\ \A k \in 1 .. Len(s) : t[k] = IF s[k] = old THEN new ELSE s[k]
  BY DEF ReplaceAll
<1> HIDE DEF t
<1>2. \A x : Places(t, x) = {k \in 1 .. Len(s) : t[k] = x}
  BY <1>1 DEF Places
<1>3. \A x : Places(s, x) = {k \in 1 .. Len(s) : s[k] = x}
  BY <1>1 DEF Places
<1>4. \A x : Times(t, x) = Cardinality(Places(t, x))
  BY DEF Times, Places
<1>5. \A x : Times(s, x) = Cardinality(Places(s, x))
  BY DEF Times, Places
<1>6. ASSUME old = new
      PROVE  Places(t, e) = Places(s, e)
  BY <1>1, <1>2, <1>3, <1>6
<1>7. ASSUME old # new, e = old
      PROVE  Places(t, e) = {}
  BY <1>1, <1>2, <1>7
<1>8. ASSUME old # new, e # old, e # new
      PROVE  Places(t, e) = Places(s, e)
  <2>1. \A k \in 1 .. Len(s) : t[k] = e <=> s[k] = e
    BY <1>1, <1>8
  <2>2. Places(t, e) = {k \in 1 .. Len(s) : t[k] = e}
    BY ONLY <1>2
  <2>3. Places(s, e) = {k \in 1 .. Len(s) : s[k] = e}
    BY ONLY <1>3
  <2> QED
    BY ONLY <2>1, <2>2, <2>3
<1>9. ASSUME old # new, e = new
      PROVE  /\ Places(t, e) = Places(s, new) \cup Places(s, old)
             /\ Places(s, new) \cap Places(s, old) = {}
  BY <1>1, <1>2, <1>3, <1>9
<1>10. ASSUME old # new, e = new
       PROVE  Times(t, e) = Times(s, new) + Times(s, old)
  <2>1. /\ IsFiniteSet(Places(s, new)) /\ IsFiniteSet(Places(s, old))
        /\ Times(s, new) \in Nat /\ Times(s, old) \in Nat
    BY Counting
  <2>2. Cardinality(Places(s, new) \cup Places(s, old))
          = Cardinality(Places(s, new)) + Cardinality(Places(s, old))
              - Cardinality(Places(s, new) \cap Places(s, old))
    BY <2>1, FS_Union
  <2>3. Cardinality(Places(s, new) \cap Places(s, old)) = 0
    BY <1>9, <1>10, FS_EmptySet
  <2>4. Times(t, e) = Cardinality(Places(s, new) \cup Places(s, old))
    BY <1>4, <1>9, <1>10
  <2>5. Times(s, new) = Cardinality(Places(s, new)) /\ Times(s, old) = Cardinality(Places(s, old))
    BY <1>5
  <2> QED
    BY <2>1, <2>2, <2>3, <2>4, <2>5
<1>11. Cardinality({}) = 0
  BY FS_EmptySet
<1>12. Times(t, e) =
              IF old = new THEN Times(s, e)
              ELSE IF e = old THEN 0
              ELSE IF e = new THEN Times(s, new) + Times(s, old) ELSE Times(s, e)
  BY <1>4, <1>5, <1>6, <1>7, <1>8, <1>10, <1>11
<1> QED
  BY <1>1, <1>12 DEF t

(* The same element a number of times.                                     *)
Copies(m, b) == [n \in 1 .. m |-> b]

(* How often that element is in it.                                        *)
LEMMA CountingCopies ==
  ASSUME NEW S, NEW m \in Nat, NEW b \in S, NEW e
  PROVE  Copies(m, b) \in Seq(S) /\ Times(Copies(m, b), e) = IF e = b THEN m ELSE 0
<1> DEFINE s == Copies(m, b)
<1>1. s \in Seq(S) /\ DOMAIN s = 1 .. m /\ \A n \in 1 .. m : s[n] = b
  BY DEF Copies
<1> HIDE DEF s
<1>2. Times(s, e) = Cardinality(Places(s, e))
  BY <1>1, Counting
<1>3. Places(s, e) = IF e = b THEN 1 .. m ELSE {}
  BY <1>1 DEF Places
<1>4. Cardinality(1 .. m) = m /\ Cardinality({}) = 0
  BY FS_Interval, FS_EmptySet
<1>5. Times(s, e) = IF e = b THEN m ELSE 0
  BY <1>2, <1>3, <1>4
<1> QED
  BY <1>1, <1>5 DEF s

(* What the rounds of Without keep to.                                     *)
WithoutStays(s, x, I) ==
  \A j \in 1 .. Len(s) : \A v \in I[j - 1] : (IF s[j] = x THEN v ELSE Append(v, s[j])) \in I[j]

(* A family of sets that the rounds of Without lead through holds its     *)
(* result.                                                                 *)
LEMMA WithoutLoop ==
  ASSUME NEW s, Len(s) \in Nat, NEW x, NEW I, <<>> \in I[0], WithoutStays(s, x, I)
  PROVE  Without(s, x) \in I[Len(s)]
<1> DEFINE base == <<>>
           seq == s
           n == Len(seq)
           Rnd(v, e) == (IF e = x THEN v ELSE Append(v, e))
           F(h) == [j \in 0 .. n |->
                      IF j = 0 THEN base
                      ELSE CHOOSE end \in {Rnd(mid, seq[j]) : mid \in {h[j - 1]}} : TRUE]
           fold == CHOOSE h : h = F(h)
           A == UNION {I[j] : j \in 0 .. n}
           step == [z \in (1 .. n) \X A |-> Rnd(z[2], seq[z[1]])]
<1>0. n \in Nat /\ base \in I[0]
  OBVIOUS
<1>1. \A j \in 1 .. n : \A v \in I[j - 1] : Rnd(v, seq[j]) \in I[j]
  BY DEF WithoutStays
<1> HIDE DEF Rnd, seq, n, base
<1>2. \A j \in 0 .. n : I[j] \subseteq A
  OBVIOUS
<1>3. \A j \in 1 .. n : j - 1 \in 0 .. n /\ \A v \in I[j - 1] : step[<<j, v>>] = Rnd(v, seq[j])
  <2>1. \A j \in 1 .. n : j - 1 \in 0 .. n
    BY <1>0
  <2>2. \A j \in 1 .. n : \A v \in A : step[<<j, v>>] = Rnd(v, seq[j])
    OBVIOUS
  <2> HIDE DEF step
  <2> QED
    BY <1>2, <2>1, <2>2
<1> HIDE DEF step, A
<1>4. PICK g : g \in Loops(n, I, A, base, step)
  <2>1. Rounds(n, I, step) /\ Family(n, I, A)
    BY <1>1, <1>2, <1>3 DEF Rounds, Family
  <2> QED
    BY <1>0, <2>1, Looping
<1>5. ASSUME NEW j \in 1 .. n, NEW v
      PROVE  (CHOOSE end \in {Rnd(mid, seq[j]) : mid \in {v}} : TRUE) = Rnd(v, seq[j])
  OBVIOUS
<1>6. g = F(g)
  <2>1. \A j \in 1 .. n : g[j] = Rnd(g[j - 1], seq[j])
    BY <1>3, <1>4 DEF Loops
  <2> QED
    BY <1>4, <1>5, <2>1 DEF Loops
<1>7. fold = F(fold)
  <2> HIDE DEF F
  <2> QED
    BY <1>6, Zenon
<1>8. Without(s, x) = fold[n]
  BY Zenon DEF Without, FoldForward, Rnd, seq, n, base
<1> HIDE DEF fold
<1>9. fold[0] = base /\ \A j \in 1 .. n : fold[j] = Rnd(fold[j - 1], seq[j])
  BY <1>0, <1>5, <1>7
<1>10. \A j \in 0 .. n : fold[j] \in I[j]
  <2>1. fold[0] \in I[0]
    BY <1>0, <1>9
  <2>2. ASSUME NEW j \in 1 .. n, fold[j - 1] \in I[j - 1]
        PROVE  fold[j] \in I[j]
    BY <1>1, <1>9, <2>2
  <2> QED
    BY <1>0, <2>1, <2>2, Stays
<1>11. n \in 0 .. n
  BY <1>0
<1> QED
  BY <1>8, <1>10, <1>11 DEF n, seq

(* Without takes all places of an element away and leaves the others.      *)
LEMMA CountingWithout ==
  ASSUME NEW S, NEW s \in Seq(S), NEW e
  PROVE  /\ Without(s, e) \in Seq(S)
         /\ \A x : Times(Without(s, e), x) = IF x = e THEN 0 ELSE Times(s, x)
<1> DEFINE n == Len(s)
           Upto(j) == SubSeq(s, 1, j)
           I == [j \in 0 .. n |->
                   {t \in Seq(S) : \A x : Times(t, x) = IF x = e THEN 0 ELSE Times(Upto(j), x)}]
<1>1. n \in Nat /\ \A j \in 1 .. n : s[j] \in S
  BY ElementOfSeq
<1>2. <<>> \in I[0]
  <2>1. Upto(0) = <<>>
    BY SubSeqEmpty
  <2>2. \A x : Places(<<>>, x) = {}
    BY DEF Places
  <2>3. \A x : Times(<<>>, x) = 0
    BY <2>2, FS_EmptySet DEF Times, Places
  <2>4. 0 \in 0 .. n
    BY <1>1
  <2>5. <<>> \in Seq(S)
    BY EmptySeq
  <2> QED
    BY <2>1, <2>3, <2>4, <2>5
<1>3. ASSUME NEW j \in 1 .. n, NEW v \in I[j - 1]
      PROVE  (IF s[j] = e THEN v ELSE Append(v, s[j])) \in I[j]
  <2>1. j - 1 \in 0 .. n /\ j \in 0 .. n
    BY <1>1
  <2>2. v \in Seq(S) /\ \A x : Times(v, x) = IF x = e THEN 0 ELSE Times(Upto(j - 1), x)
    BY <2>1
  <2>3. Upto(j - 1) \in Seq(S)
    <3>1. \A k \in 1 .. j - 1 : k \in 1 .. n
      BY <1>1
    <3>2. 1 \in Int /\ j - 1 \in Int
      BY <1>1
    <3> QED
      BY <1>1, <3>1, <3>2, SubSeqProperties
  <2>4. Upto(j) = Append(Upto(j - 1), s[j])
    <3>1. j \in 1 .. Len(s) /\ 1 \in 1 .. Len(s) /\ j \in 1 .. Len(s)
      BY <1>1
    <3>2. SubSeq(s, 1, j) = SubSeq(s, 1, j - 1) \o <<s[j]>>
      <4>1. j \in 1 .. Len(s)
        BY <3>1
      <4> QED
        BY <3>1, <4>1, SubSeqRecursiveSecond
    <3> HIDE DEF n
    <3>3. SubSeq(s, 1, j - 1) \o <<s[j]>> = Append(SubSeq(s, 1, j - 1), s[j])
      BY <2>3
    <3> QED
      BY <3>2, <3>3
  <2> HIDE DEF Upto
  <2>5. \A x : Times(Upto(j), x) = Times(Upto(j - 1), x) + IF s[j] = x THEN 1 ELSE 0
    BY <1>1, <2>3, <2>4, CountingAppend
  <2>6. \A x : Times(Upto(j - 1), x) \in Nat
    BY <2>3, Counting
  <2>7. CASE s[j] = e
    <3>1. \A x : Times(v, x) = IF x = e THEN 0 ELSE Times(Upto(j), x)
      BY <2>2, <2>5, <2>6, <2>7
    <3> QED
      BY <2>1, <2>2, <2>7, <3>1
  <2>8. CASE s[j] # e
    <3>1. \A x : Times(Append(v, s[j]), x) = Times(v, x) + IF s[j] = x THEN 1 ELSE 0
      BY <1>1, <2>2, CountingAppend
    <3>2. \A x : Times(Append(v, s[j]), x) = IF x = e THEN 0 ELSE Times(Upto(j), x)
      BY <2>2, <2>5, <2>6, <2>8, <3>1
    <3>3. Append(v, s[j]) \in Seq(S)
      BY <1>1, <2>2
    <3> QED
      BY <2>1, <2>8, <3>2, <3>3
  <2> QED
    BY <2>7, <2>8
<1>4. WithoutStays(s, e, I)
  <2> HIDE DEF I
  <2> QED
    BY <1>3 DEF WithoutStays
<1>5. Without(s, e) \in I[Len(s)]
  <2> HIDE DEF I
  <2> QED
    BY <1>1, <1>2, <1>4, WithoutLoop
<1>6. Upto(Len(s)) = s /\ Len(s) \in 0 .. n
  BY <1>1, SubSeqFull
<1> QED
  BY <1>5, <1>6

-----------------------------------------------------------------------------
(* A function of N bbls with jump tables J.                                *)
Flow(N, J) ==
  [bbls : Seq(1 .. N), inss : [1 .. N -> Seq(Instruction(1 .. N, J))],
   jtb : [J -> JumpTable(1 .. N)],
   edge_out : [1 .. N -> Seq(1 .. N)], edge_in : [1 .. N -> Seq(1 .. N)]]

(* edge_in mirrors edge_out.                                               *)
Mirrored(f) ==
  \A b, s \in DOMAIN f.inss : Times(f.edge_out[b], s) = Times(f.edge_in[s], b)

(* Functions that differ in their edges at most.                           *)
SameCode(f, g) == g.bbls = f.bbls /\ g.inss = f.inss /\ g.jtb = f.jtb

(* The fields of a function whose edges were replaced.                     *)
WithEdges(f, into, out) == [f EXCEPT !.edge_in = into, !.edge_out = out]

(* A function with other edges is the same otherwise.                      *)
LEMMA EdgeFields ==
  ASSUME NEW N \in Nat, NEW J, NEW f \in Flow(N, J),
         NEW into \in [1 .. N -> Seq(1 .. N)], NEW out \in [1 .. N -> Seq(1 .. N)],
         NEW g, g = WithEdges(f, into, out)
  PROVE  g \in Flow(N, J) /\ SameCode(f, g) /\ g.edge_in = into /\ g.edge_out = out
BY DEF Flow, SameCode, WithEdges

(* A bbl is a predecessor where it has a successor.                        *)
LEMMA Predecessors ==
  ASSUME NEW N \in Nat, NEW J, NEW f \in Flow(N, J), Mirrored(f), NEW b \in 1 .. N, NEW s \in 1 .. N
  PROVE  /\ f.edge_out[b] \in Seq(1 .. N) /\ f.edge_in[s] \in Seq(1 .. N)
         /\ Times(f.edge_out[b], s) = Times(f.edge_in[s], b) /\ Times(f.edge_out[b], s) \in Nat
         /\ s \in ToSet(f.edge_out[b]) <=> b \in ToSet(f.edge_in[s])
<1>1. f.edge_out[b] \in Seq(1 .. N) /\ f.edge_in[s] \in Seq(1 .. N) /\ DOMAIN f.inss = 1 .. N
  BY DEF Flow
<1>2. Times(f.edge_out[b], s) = Times(f.edge_in[s], b)
  BY <1>1 DEF Mirrored
<1>3. /\ Times(f.edge_out[b], s) = 0 <=> s \notin ToSet(f.edge_out[b])
      /\ Times(f.edge_in[s], b) = 0 <=> b \notin ToSet(f.edge_in[s])
      /\ Times(f.edge_out[b], s) \in Nat
  BY <1>1, Counting
<1> QED
  BY <1>1, <1>2, <1>3

(* What the operations on edges make of f.                                 *)
Added(N, J, f, b, s, g) ==
  /\ g \in Flow(N, J) /\ Mirrored(g) /\ SameCode(f, g)
  /\ g.edge_out = [f.edge_out EXCEPT ![b] = Append(f.edge_out[b], s)]
Deleted(N, J, f, b, s, g) ==
  /\ g \in Flow(N, J) /\ Mirrored(g) /\ SameCode(f, g)
  /\ g.edge_out = [f.edge_out EXCEPT ![b] = RemoveFirst(f.edge_out[b], s)]
  /\ Len(g.edge_out[b]) = Len(f.edge_out[b]) - 1
Replaced(N, J, f, b, old, new, g) ==
  /\ g \in Flow(N, J) /\ Mirrored(g) /\ SameCode(f, g)
  /\ g.edge_out = [f.edge_out EXCEPT ![b] = ReplaceAll(f.edge_out[b], old, new)]

(* AddEdgeOut adds the edge at both ends.                                  *)
LEMMA Adding ==
  ASSUME NEW N \in Nat, NEW J, NEW f \in Flow(N, J), Mirrored(f), NEW b \in 1 .. N, NEW s \in 1 .. N
  PROVE  Added(N, J, f, b, s, AddEdgeOut(f, b, s))
<1> DEFINE g == AddEdgeOut(f, b, s)
           into == [f.edge_in EXCEPT ![s] = Append(f.edge_in[s], b)]
           out == [f.edge_out EXCEPT ![b] = Append(f.edge_out[b], s)]
<1>1. f.edge_out \in [1 .. N -> Seq(1 .. N)] /\ f.edge_in \in [1 .. N -> Seq(1 .. N)]
  BY DEF Flow
<1>2. into \in [1 .. N -> Seq(1 .. N)] /\ out \in [1 .. N -> Seq(1 .. N)]
  BY <1>1
<1>3. \A c, t \in 1 .. N : Times(out[c], t) = Times(f.edge_out[c], t) + IF c = b /\ t = s THEN 1 ELSE 0
  <2>1. ASSUME NEW c \in 1 .. N, NEW t \in 1 .. N
        PROVE  Times(out[c], t) = Times(f.edge_out[c], t) + IF c = b /\ t = s THEN 1 ELSE 0
    <3>1. CASE c = b
      <4>1. out[c] = Append(f.edge_out[b], s)
        BY <1>1, <3>1
      <4>2. f.edge_out[b] \in Seq(1 .. N)
        BY <1>1
      <4> HIDE DEF out
      <4>3. Times(out[c], t) = Times(f.edge_out[b], t) + IF s = t THEN 1 ELSE 0
        BY <4>1, <4>2, CountingAppend
      <4> QED
        BY <3>1, <4>3
    <3>2. CASE c # b
      <4>1. out[c] = f.edge_out[c] /\ Times(f.edge_out[c], t) \in Nat
        BY <1>1, <3>2, Counting
      <4> QED
        BY <3>2, <4>1
    <3> QED
      BY <3>1, <3>2
  <2> QED
    BY <2>1
<1>4. \A c, t \in 1 .. N : Times(into[t], c) = Times(f.edge_in[t], c) + IF c = b /\ t = s THEN 1 ELSE 0
  <2>1. ASSUME NEW c \in 1 .. N, NEW t \in 1 .. N
        PROVE  Times(into[t], c) = Times(f.edge_in[t], c) + IF c = b /\ t = s THEN 1 ELSE 0
    <3>1. CASE t = s
      <4>1. into[t] = Append(f.edge_in[s], b)
        BY <1>1, <3>1
      <4>2. f.edge_in[s] \in Seq(1 .. N)
        BY <1>1
      <4> HIDE DEF into
      <4>3. Times(into[t], c) = Times(f.edge_in[s], c) + IF b = c THEN 1 ELSE 0
        BY <4>1, <4>2, CountingAppend
      <4> QED
        BY <3>1, <4>3
    <3>2. CASE t # s
      <4>1. into[t] = f.edge_in[t] /\ Times(f.edge_in[t], c) \in Nat
        BY <1>1, <3>2, Counting
      <4> QED
        BY <3>2, <4>1
    <3> QED
      BY <3>1, <3>2
  <2> QED
    BY <2>1
<1>5. g = WithEdges(f, into, out)
  BY DEF AddEdgeOut, WithEdges
<1> HIDE DEF g, into, out
<1>6. g \in Flow(N, J) /\ SameCode(f, g) /\ g.edge_in = into /\ g.edge_out = out
  BY <1>2, <1>5, EdgeFields
<1>7. DOMAIN g.inss = 1 .. N /\ DOMAIN f.inss = 1 .. N
  BY <1>6 DEF Flow
<1>8. Mirrored(g)
  <2>1. \A c, t \in 1 .. N : Times(f.edge_out[c], t) = Times(f.edge_in[t], c)
    BY <1>7 DEF Mirrored
  <2>2. \A c, t \in 1 .. N : Times(out[c], t) = Times(into[t], c)
    BY <1>3, <1>4, <2>1
  <2> QED
    BY <1>6, <1>7, <2>2 DEF Mirrored
<1> QED
  BY <1>6, <1>8 DEF g, out, Added

(* DelEdgeOut takes one edge away at both ends.                            *)
LEMMA Deleting ==
  ASSUME NEW N \in Nat, NEW J, NEW f \in Flow(N, J), Mirrored(f), NEW b \in 1 .. N, NEW s \in 1 .. N,
         s \in ToSet(f.edge_out[b])
  PROVE  Deleted(N, J, f, b, s, DelEdgeOut(f, b, s))
<1> DEFINE g == DelEdgeOut(f, b, s)
           into == [f.edge_in EXCEPT ![s] = RemoveFirst(f.edge_in[s], b)]
           out == [f.edge_out EXCEPT ![b] = RemoveFirst(f.edge_out[b], s)]
<1>1. f.edge_out \in [1 .. N -> Seq(1 .. N)] /\ f.edge_in \in [1 .. N -> Seq(1 .. N)]
  BY DEF Flow
<1>2. b \in ToSet(f.edge_in[s])
  BY Predecessors
<1>3. /\ RemoveFirst(f.edge_in[s], b) \in Seq(1 .. N)
      /\ RemoveFirst(f.edge_out[b], s) \in Seq(1 .. N)
      /\ Len(RemoveFirst(f.edge_out[b], s)) = Len(f.edge_out[b]) - 1
      /\ \A c : Times(RemoveFirst(f.edge_in[s], b), c) = Times(f.edge_in[s], c) - IF b = c THEN 1 ELSE 0
      /\ \A t : Times(RemoveFirst(f.edge_out[b], s), t) = Times(f.edge_out[b], t) - IF s = t THEN 1 ELSE 0
  <2>1. f.edge_out[b] \in Seq(1 .. N) /\ f.edge_in[s] \in Seq(1 .. N)
    BY <1>1
  <2> QED
    BY <1>2, <2>1, CountingRemoveFirst, SMTT(30)
<1>4. into \in [1 .. N -> Seq(1 .. N)] /\ out \in [1 .. N -> Seq(1 .. N)]
  BY <1>1, <1>3
<1>5. \A c, t \in 1 .. N : Times(out[c], t) = Times(f.edge_out[c], t) - IF c = b /\ t = s THEN 1 ELSE 0
  <2>1. ASSUME NEW c \in 1 .. N, NEW t \in 1 .. N
        PROVE  Times(out[c], t) = Times(f.edge_out[c], t) - IF c = b /\ t = s THEN 1 ELSE 0
    <3>1. CASE c = b
      BY <1>1, <1>3, <3>1
    <3>2. CASE c # b
      <4>1. out[c] = f.edge_out[c] /\ Times(f.edge_out[c], t) \in Nat
        BY <1>1, <3>2, Counting
      <4> QED
        BY <3>2, <4>1
    <3> QED
      BY <3>1, <3>2
  <2> QED
    BY <2>1
<1>6. \A c, t \in 1 .. N : Times(into[t], c) = Times(f.edge_in[t], c) - IF c = b /\ t = s THEN 1 ELSE 0
  <2>1. ASSUME NEW c \in 1 .. N, NEW t \in 1 .. N
        PROVE  Times(into[t], c) = Times(f.edge_in[t], c) - IF c = b /\ t = s THEN 1 ELSE 0
    <3>1. CASE t = s
      BY <1>1, <1>3, <3>1
    <3>2. CASE t # s
      <4>1. into[t] = f.edge_in[t] /\ Times(f.edge_in[t], c) \in Nat
        BY <1>1, <3>2, Counting
      <4> QED
        BY <3>2, <4>1
    <3> QED
      BY <3>1, <3>2
  <2> QED
    BY <2>1
<1>7. g = WithEdges(f, into, out)
  BY DEF DelEdgeOut, WithEdges
<1>8. Len(out[b]) = Len(f.edge_out[b]) - 1
  BY <1>1, <1>3
<1> HIDE DEF g, into, out
<1>9. g \in Flow(N, J) /\ SameCode(f, g) /\ g.edge_in = into /\ g.edge_out = out
  BY ONLY N \in Nat, f \in Flow(N, J), <1>4, <1>7, EdgeFields
<1>10. DOMAIN g.inss = 1 .. N /\ DOMAIN f.inss = 1 .. N
  BY <1>9 DEF Flow
<1>11. Mirrored(g)
  <2>1. \A c, t \in 1 .. N : Times(f.edge_out[c], t) = Times(f.edge_in[t], c)
    BY <1>10 DEF Mirrored
  <2>2. \A c, t \in 1 .. N : Times(out[c], t) = Times(into[t], c)
    BY <1>5, <1>6, <2>1
  <2> QED
    BY <1>9, <1>10, <2>2 DEF Mirrored
<1>12. Len(g.edge_out[b]) = Len(f.edge_out[b]) - 1
  BY <1>8, <1>9
<1> QED
  BY <1>9, <1>11, <1>12 DEF g, out, Deleted

(* ReplaceEdgeOut moves all edges from b to old at both ends.              *)
LEMMA Replacing ==
  ASSUME NEW N \in Nat, NEW J, NEW f \in Flow(N, J), Mirrored(f),
         NEW b \in 1 .. N, NEW old \in 1 .. N, NEW new \in 1 .. N
  PROVE  Replaced(N, J, f, b, old, new, ReplaceEdgeOut(f, b, old, new))
<1> DEFINE g == ReplaceEdgeOut(f, b, old, new)
           m == Times(f.edge_out[b], old)
           moved == Copies(m, b)
           left == Without(f.edge_in[old], b)
           in1 == [f.edge_in EXCEPT ![old] = left]
           into == [in1 EXCEPT ![new] = in1[new] \o moved]
           out == [f.edge_out EXCEPT ![b] = ReplaceAll(f.edge_out[b], old, new)]
<1>1. f.edge_out \in [1 .. N -> Seq(1 .. N)] /\ f.edge_in \in [1 .. N -> Seq(1 .. N)]
  BY DEF Flow
<1>2. DOMAIN f.inss = 1 .. N
  BY DEF Flow
<1>3. \A c, t \in 1 .. N : /\ Times(f.edge_out[c], t) = Times(f.edge_in[t], c)
                           /\ Times(f.edge_out[c], t) \in Nat
  BY Predecessors
<1>4. /\ ReplaceAll(f.edge_out[b], old, new) \in Seq(1 .. N)
      /\ \A t : Times(ReplaceAll(f.edge_out[b], old, new), t) =
              IF old = new THEN Times(f.edge_out[b], t)
              ELSE IF t = old THEN 0
              ELSE IF t = new THEN Times(f.edge_out[b], new) + m ELSE Times(f.edge_out[b], t)
  <2>1. f.edge_out[b] \in Seq(1 .. N)
    BY <1>1
  <2> QED
    BY <2>1, CountingReplaceAll
<1>5. left \in Seq(1 .. N) /\ \A c : Times(left, c) = IF c = b THEN 0 ELSE Times(f.edge_in[old], c)
  <2>1. f.edge_in[old] \in Seq(1 .. N)
    BY <1>1
  <2> QED
    BY <2>1, CountingWithout
<1>6. m \in Nat
  BY <1>3
<1>7. moved \in Seq(1 .. N) /\ \A c : Times(moved, c) = IF c = b THEN m ELSE 0
  <2> HIDE DEF m
  <2> QED
    BY <1>6, CountingCopies
<1>8. g = WithEdges(f, into, out)
  <2>1. g = [f EXCEPT !.edge_out[b] = ReplaceAll(@, old, new), !.edge_in = into]
    BY Zenon DEF ReplaceEdgeOut, Copies
  <2> HIDE DEF into
  <2>3. g = [f EXCEPT !.edge_out = out, !.edge_in = into]
    BY <2>1
  <2> HIDE DEF out
  <2> QED
    BY <2>3 DEF WithEdges, Flow
<1> HIDE DEF g, m, moved, left
<1>9. out \in [1 .. N -> Seq(1 .. N)] /\ in1 \in [1 .. N -> Seq(1 .. N)]
  BY <1>1, <1>4, <1>5
<1>10. \A t \in 1 .. N : in1[t] = IF t = old THEN left ELSE f.edge_in[t]
  BY <1>1
<1> HIDE DEF in1
<1>11. in1[new] \o moved \in Seq(1 .. N)
  <2>1. in1[new] \in Seq(1 .. N)
    BY <1>9
  <2> QED
    BY <1>7, <2>1, ConcatProperties
<1>12. into \in [1 .. N -> Seq(1 .. N)]
  BY <1>9, <1>11
<1>13. \A c, t \in 1 .. N : Times(in1[t], c) = IF c = b /\ t = old THEN 0 ELSE Times(f.edge_in[t], c)
  BY <1>5, <1>10
<1>14. \A c \in 1 .. N : Times(in1[new] \o moved, c) = Times(in1[new], c) + IF c = b THEN m ELSE 0
  <2>1. in1[new] \in Seq(1 .. N)
    BY <1>9
  <2>2. \A c : Times(in1[new] \o moved, c) = Times(in1[new], c) + Times(moved, c)
    BY <1>7, <2>1, CountingBoth
  <2> QED
    BY <1>7, <2>2
<1>15. \A t \in 1 .. N : into[t] = IF t = new THEN in1[new] \o moved ELSE in1[t]
  BY <1>9
<1>16. \A c \in 1 .. N : out[c] = IF c = b THEN ReplaceAll(f.edge_out[b], old, new) ELSE f.edge_out[c]
  BY <1>1
<1> HIDE DEF into, out
<1>17. g \in Flow(N, J) /\ SameCode(f, g) /\ g.edge_in = into /\ g.edge_out = out
  <2>1. out \in [1 .. N -> Seq(1 .. N)]
    BY <1>9
  <2> QED
    BY ONLY N \in Nat, f \in Flow(N, J), <1>8, <2>1, <1>12, EdgeFields
<1>18. \A c, t \in 1 .. N : Times(out[c], t) = Times(into[t], c)
  <2>1. ASSUME NEW c \in 1 .. N, NEW t \in 1 .. N
        PROVE  Times(out[c], t) = Times(into[t], c)
    <3>1. /\ Times(f.edge_out[c], t) = Times(f.edge_in[t], c)
          /\ Times(f.edge_out[c], t) \in Nat
          /\ m = Times(f.edge_out[b], old)
      BY <1>3 DEF m
    <3>2. Times(into[t], c) = Times(in1[t], c) + IF c = b /\ t = new THEN m ELSE 0
      <4>1. CASE t = new
        BY <1>14, <1>15, <4>1
      <4>2. CASE t # new
        BY <1>13, <1>15, <3>1, <4>2
      <4> QED
        BY <4>1, <4>2
    <3>3. Times(in1[t], c) = IF c = b /\ t = old THEN 0 ELSE Times(f.edge_in[t], c)
      BY <1>13
    <3>4. CASE c # b
      BY <1>16, <3>1, <3>2, <3>3, <3>4
    <3>5. CASE c = b
      <4>1. Times(out[c], t) = IF old = new THEN Times(f.edge_out[b], t)
              ELSE IF t = old THEN 0
              ELSE IF t = new THEN Times(f.edge_out[b], new) + m ELSE Times(f.edge_out[b], t)
        BY <1>4, <1>16, <3>5
      <4> QED
        BY <1>6, <3>1, <3>2, <3>3, <3>5, <4>1
    <3> QED
      BY <3>4, <3>5
  <2> QED
    BY <2>1
<1>19. Mirrored(g)
  <2>1. DOMAIN g.inss = 1 .. N
    BY <1>17 DEF Flow
  <2> QED
    BY <1>17, <1>18, <2>1 DEF Mirrored
<1> QED
  BY <1>17, <1>19 DEF g, out, Replaced

-----------------------------------------------------------------------------
(* A function on 1 .. N is a sequence of N elements.                       *)
LEMMA TableIsSeq ==
  ASSUME NEW N \in Nat, NEW X, NEW t
  PROVE  t \in [1 .. N -> X] <=> t \in Seq(X) /\ Len(t) = N
<1>1. ASSUME t \in [1 .. N -> X]
      PROVE  t \in Seq(X) /\ Len(t) = N
  BY <1>1, SeqDef
<1>2. ASSUME t \in Seq(X), Len(t) = N
      PROVE  t \in [1 .. N -> X]
  BY <1>2, LenProperties
<1> QED
  BY <1>1, <1>2

(* The fields that the kinds of instructions have.                         *)
LEMMA InstructionFields ==
  ASSUME NEW B, NEW J, NEW ins \in Instruction(B, J)
  PROVE  /\ ins.k \in {"plain", "ret", "bra", "cond", "switch"}
         /\ ins.k = "bra" => ins \in [k : {"bra"}, to : B]
         /\ ins.k = "cond" => ins \in CondBra(Name, B)
         /\ ins.k = "switch" => ins \in [k : {"switch"}, id : Name, jtb : J]
         /\ ins.k \in {"bra", "cond"} => ins.to \in B
         /\ ins.k = "switch" => ins.jtb \in J
BY DEF Instruction, CondBra

(* Instructions and jump tables stay such when there are more bbls.        *)
LEMMA MoreBbls ==
  ASSUME NEW M \in Nat, NEW N \in Nat, M <= N, NEW J
  PROVE  /\ Instruction(1 .. M, J) \subseteq Instruction(1 .. N, J)
         /\ Seq(Instruction(1 .. M, J)) \subseteq Seq(Instruction(1 .. N, J))
         /\ Seq(1 .. M) \subseteq Seq(1 .. N)
         /\ JumpTable(1 .. M) \subseteq JumpTable(1 .. N)
<1>1. 1 .. M \subseteq 1 .. N
  OBVIOUS
<1>2. Instruction(1 .. M, J) \subseteq Instruction(1 .. N, J)
  <2> DEFINE A == 1 .. M
             B == 1 .. N
  <2>1. A \subseteq B
    BY <1>1
  <2> HIDE DEF A, B
  <2>2. Instruction(A, J) \subseteq Instruction(B, J)
    BY <2>1 DEF Instruction
  <2> QED
    BY <2>2 DEF A, B
<1>3. ASSUME NEW X, NEW Y, X \subseteq Y
      PROVE  Seq(X) \subseteq Seq(Y)
  BY <1>3, SeqMonotonic
<1>4. Seq(1 .. M) \subseteq Seq(1 .. N)
  BY <1>1, <1>3
<1>5. JumpTable(1 .. M) \subseteq JumpTable(1 .. N)
  <2> DEFINE A == 1 .. M
             B == 1 .. N
  <2>1. A \subseteq B /\ Seq(A) \subseteq Seq(B)
    BY <1>1, <1>4
  <2> HIDE DEF A, B
  <2>2. JumpTable(A) \subseteq JumpTable(B)
    BY <2>1 DEF JumpTable
  <2> QED
    BY <2>2 DEF A, B
<1> QED
  BY <1>2, <1>3, <1>4, <1>5

-----------------------------------------------------------------------------
(* No instruction but the last one is a terminator.                        *)
Tidy(inss) == \A n \in 1 .. Len(inss) - 1 : ~IsTerminator(inss[n])


(* What the rounds of Cuts keep to.                                        *)
CutsStays(inss, I) ==
  \A j \in 1 .. Len([m \in DOMAIN inss |-> m]) : \A v \in I[j - 1] :
    CutBehind(inss, v, [m \in DOMAIN inss |-> m][j]) \in I[j]

(* A family of sets that the rounds of Cuts lead through holds its result. *)
LEMMA CutsLoop ==
  ASSUME NEW inss, DOMAIN inss = 1 .. Len(inss), Len(inss) \in Nat,
         NEW I, [out |-> <<>>, last |-> 1] \in I[0], CutsStays(inss, I)
  PROVE  Cuts(inss) \in I[Len([m \in DOMAIN inss |-> m])]
<1> DEFINE base == [out |-> <<>>, last |-> 1]
           seq == [m \in DOMAIN inss |-> m]
           n == Len(seq)
           Rnd(v, e) == CutBehind(inss, v, e)
           F(h) == [j \in 0 .. n |->
                      IF j = 0 THEN base
                      ELSE CHOOSE end \in {Rnd(mid, seq[j]) : mid \in {h[j - 1]}} : TRUE]
           fold == CHOOSE h : h = F(h)
           A == UNION {I[j] : j \in 0 .. n}
           step == [z \in (1 .. n) \X A |-> Rnd(z[2], seq[z[1]])]
<1>0. n \in Nat /\ base \in I[0]
  OBVIOUS
<1>1. \A j \in 1 .. n : \A v \in I[j - 1] : Rnd(v, seq[j]) \in I[j]
  BY DEF CutsStays
<1> HIDE DEF Rnd, seq, n, base
<1>2. \A j \in 0 .. n : I[j] \subseteq A
  OBVIOUS
<1>3. \A j \in 1 .. n : j - 1 \in 0 .. n /\ \A v \in I[j - 1] : step[<<j, v>>] = Rnd(v, seq[j])
  <2>1. \A j \in 1 .. n : j - 1 \in 0 .. n
    BY <1>0
  <2>2. \A j \in 1 .. n : \A v \in A : step[<<j, v>>] = Rnd(v, seq[j])
    OBVIOUS
  <2> HIDE DEF step
  <2> QED
    BY <1>2, <2>1, <2>2
<1> HIDE DEF step, A
<1>4. PICK g : g \in Loops(n, I, A, base, step)
  <2>1. Rounds(n, I, step) /\ Family(n, I, A)
    BY <1>1, <1>2, <1>3 DEF Rounds, Family
  <2> QED
    BY <1>0, <2>1, Looping
<1>5. ASSUME NEW j \in 1 .. n, NEW v
      PROVE  (CHOOSE end \in {Rnd(mid, seq[j]) : mid \in {v}} : TRUE) = Rnd(v, seq[j])
  OBVIOUS
<1>6. g = F(g)
  <2>1. \A j \in 1 .. n : g[j] = Rnd(g[j - 1], seq[j])
    BY <1>3, <1>4 DEF Loops
  <2> QED
    BY <1>4, <1>5, <2>1 DEF Loops
<1>7. fold = F(fold)
  <2> HIDE DEF F
  <2> QED
    BY <1>6, Zenon
<1>8. Cuts(inss) = fold[n]
  BY Zenon DEF Cuts, FoldForward, Rnd, seq, n, base
<1> HIDE DEF fold
<1>9. fold[0] = base /\ \A j \in 1 .. n : fold[j] = Rnd(fold[j - 1], seq[j])
  BY <1>0, <1>5, <1>7
<1>10. \A j \in 0 .. n : fold[j] \in I[j]
  <2>1. fold[0] \in I[0]
    BY <1>0, <1>9
  <2>2. ASSUME NEW j \in 1 .. n, fold[j - 1] \in I[j - 1]
        PROVE  fold[j] \in I[j]
    BY <1>1, <1>9, <2>2
  <2> QED
    BY <1>0, <2>1, <2>2, Stays
<1>11. n \in 0 .. n
  BY <1>0
<1> QED
  BY <1>8, <1>10, <1>11 DEF n, seq

(* Part of a sequence.                                                     *)
LEMMA Parts ==
  ASSUME NEW S, NEW s \in Seq(S), NEW m \in Nat \ {0}, NEW n \in 0 .. Len(s)
  PROVE  /\ SubSeq(s, m, n) \in Seq(S)
         /\ Len(SubSeq(s, m, n)) = IF m <= n THEN n - m + 1 ELSE 0
         /\ \A i \in 1 .. n - m + 1 : SubSeq(s, m, n)[i] = s[m + i - 1]
<1> DEFINE l == Len(s)
<1>1. l \in Nat /\ \A k \in 1 .. l : s[k] \in S
  BY ElementOfSeq
<1>2. n \in 0 .. l
  OBVIOUS
<1> HIDE DEF l
<1>3. n \in Int /\ m \in Int /\ \A k \in m .. n : s[k] \in S
  BY <1>1, <1>2
<1> QED
  BY <1>3, SubSeqProperties

(* The pieces of a bbl are tidy: SubRanges cuts behind each terminator.    *)
LEMMA Cutting ==
  ASSUME NEW S, NEW inss \in Seq(S)
  PROVE  LET parts == SubRanges(inss)
         IN /\ parts \in Seq(Seq(S)) /\ Len(parts) \in Nat \ {0}
            /\ \A k \in 1 .. Len(parts) : Tidy(parts[k])
<1> DEFINE n == Len(inss)
           Cut == [out : Seq(Seq(S)), last : Nat]
           Clear(v, j) == \A m \in v.last .. j : m < n => ~IsTerminator(inss[m])
           I == [j \in 0 .. n |->
                   {v \in Cut : /\ \A k \in 1 .. Len(v.out) : Tidy(v.out[k])
                                /\ v.last \in 1 .. j + 1 /\ Clear(v, j)}]
           base == [out |-> <<>>, last |-> 1]
           seq == [m \in DOMAIN inss |-> m]
<1>1. n \in Nat /\ DOMAIN inss = 1 .. n /\ \A k \in 1 .. n : inss[k] \in S
  BY ElementOfSeq
<1>2. seq \in Seq(Nat) /\ Len(seq) = n /\ \A k \in 1 .. n : seq[k] = k
  BY <1>1
<1>3. base \in I[0]
  <2>1. base \in Cut /\ base.out = <<>> /\ base.last = 1 /\ Len(base.out) = 0
    <3>1. <<>> \in Seq(Seq(S))
      BY EmptySeq
    <3> QED
      BY <3>1
  <2> HIDE DEF base
  <2>2. 0 \in 0 .. n /\ Clear(base, 0)
    BY <1>1, <2>1
  <2>3. 1 \in 1 .. 0 + 1 /\ \A k \in 1 .. Len(base.out) : Tidy(base.out[k])
    BY <2>1
  <2> QED
    BY <2>1, <2>2, <2>3
<1>4. ASSUME NEW j \in 1 .. n, NEW v \in I[j - 1]
      PROVE  CutBehind(inss, v, j) \in I[j]
  <2>1. j - 1 \in 0 .. n /\ j \in 0 .. n /\ j \in Nat /\ n \in Nat
    BY <1>1
  <2>2. /\ v \in Cut /\ \A k \in 1 .. Len(v.out) : Tidy(v.out[k])
        /\ v.last \in 1 .. (j - 1) + 1 /\ Clear(v, j - 1)
    BY <2>1
  <2>3. v.last \in 1 .. j /\ v.out \in Seq(Seq(S))
    BY <2>1, <2>2
  <2>4. CASE j < Len(inss) /\ IsTerminator(inss[j])
    <3> DEFINE piece == SubSeq(inss, v.last, j)
               out == Append(v.out, piece)
               w == [out |-> out, last |-> j + 1]
    <3>1. CutBehind(inss, v, j) = w
      BY <2>4 DEF CutBehind
    <3>2. /\ piece \in Seq(S) /\ Len(piece) = j - v.last + 1
          /\ \A i \in 1 .. j - v.last + 1 : piece[i] = inss[v.last + i - 1]
      <4>1. v.last \in Nat \ {0} /\ j \in 0 .. Len(inss) /\ v.last <= j
        BY <2>1, <2>3
      <4> HIDE DEF n
      <4> QED
        BY <4>1, Parts
    <3> HIDE DEF piece
    <3>3. Tidy(piece)
      <4>1. ASSUME NEW i \in 1 .. Len(piece) - 1
            PROVE  ~IsTerminator(piece[i])
        <5>1. i \in 1 .. j - v.last + 1 /\ v.last + i - 1 \in v.last .. j - 1 /\ v.last + i - 1 < n
          BY <2>1, <2>3, <3>2
        <5>2. piece[i] = inss[v.last + i - 1]
          BY <3>2, <5>1
        <5> HIDE DEF n
        <5> QED
          BY <2>2, <5>1, <5>2
      <4> QED
        BY <4>1 DEF Tidy
    <3>4. /\ out \in Seq(Seq(S)) /\ Len(out) = Len(v.out) + 1 /\ Len(v.out) \in Nat
          /\ \A k \in 1 .. Len(v.out) : out[k] = v.out[k]
          /\ out[Len(v.out) + 1] = piece
      BY <2>3, <3>2
    <3> HIDE DEF out
    <3>5. \A k \in 1 .. Len(out) : Tidy(out[k])
      <4>1. ASSUME NEW k \in 1 .. Len(out)
            PROVE  k \in 1 .. Len(v.out) \/ k = Len(v.out) + 1
        BY <3>4
      <4> QED
        BY <2>2, <3>3, <3>4, <4>1
    <3>6. w \in Cut /\ w.out = out /\ w.last = j + 1
      BY <2>1, <3>4
    <3> HIDE DEF w
    <3>7. w.last \in 1 .. j + 1 /\ Clear(w, j)
      BY <2>1, <3>6
    <3> QED
      BY <2>1, <3>1, <3>5, <3>6, <3>7
  <2>5. CASE ~(j < Len(inss) /\ IsTerminator(inss[j]))
    <3>1. CutBehind(inss, v, j) = v
      BY <2>5 DEF CutBehind
    <3>2. Clear(v, j)
      <4>1. ASSUME NEW m \in v.last .. j, m < n
            PROVE  ~IsTerminator(inss[m])
        <5>1. CASE m = j
          BY <2>5, <4>1, <5>1
        <5>2. CASE m # j
          <6>1. m \in v.last .. j - 1
            BY <2>1, <2>3, <4>1, <5>2
          <6> HIDE DEF n
          <6> QED
            BY <2>2, <4>1, <6>1
        <5> QED
          BY <5>1, <5>2
      <4> QED
        BY <4>1
    <3>3. v.last \in 1 .. j + 1
      BY <2>1, <2>3
    <3> HIDE DEF Clear, n
    <3> QED
      BY <2>1, <2>2, <3>1, <3>2, <3>3
  <2> QED
    BY <2>4, <2>5
<1>5. CutsStays(inss, I)
  <2>1. ASSUME NEW j \in 1 .. Len(seq), NEW v \in I[j - 1]
        PROVE  CutBehind(inss, v, seq[j]) \in I[j]
    <3>1. j \in 1 .. n /\ seq[j] = j
      BY <1>2
    <3> HIDE DEF I, seq
    <3> QED
      BY <1>4, <3>1
  <2> HIDE DEF I
  <2> QED
    BY <2>1 DEF CutsStays
<1>6. Cuts(inss) \in I[Len(seq)]
  <2> HIDE DEF I
  <2> QED
    BY <1>1, <1>3, <1>5, CutsLoop
<1> DEFINE cut == Cuts(inss)
           piece == SubSeq(inss, cut.last, Len(inss))
           parts == SubRanges(inss)
<1>7. parts = Append(cut.out, piece)
  BY DEF SubRanges
<1>8. /\ cut \in Cut /\ \A k \in 1 .. Len(cut.out) : Tidy(cut.out[k])
      /\ cut.last \in 1 .. n + 1 /\ Clear(cut, n)
  <2>1. n \in 0 .. n /\ cut \in I[n]
    BY <1>1, <1>2, <1>6
  <2> HIDE DEF cut
  <2> QED
    BY <2>1
<1> HIDE DEF cut, parts, I
<1>9. /\ piece \in Seq(S) /\ Len(piece) = IF cut.last <= n THEN n - cut.last + 1 ELSE 0
      /\ \A i \in 1 .. n - cut.last + 1 : piece[i] = inss[cut.last + i - 1]
  <2>1. cut.last \in Nat \ {0} /\ n \in 0 .. Len(inss)
    BY <1>1, <1>8
  <2> QED
    BY <2>1, Parts
<1> HIDE DEF piece
<1>10. Tidy(piece)
  <2>1. ASSUME NEW i \in 1 .. Len(piece) - 1
        PROVE  ~IsTerminator(piece[i])
    <3>1. /\ i \in 1 .. n - cut.last + 1
          /\ cut.last + i - 1 \in cut.last .. n /\ cut.last + i - 1 < n
      BY <1>1, <1>8, <1>9
    <3>2. piece[i] = inss[cut.last + i - 1]
      BY <1>9, <3>1
    <3> HIDE DEF n
    <3> QED
      BY <1>8, <3>1, <3>2
  <2> QED
    BY <2>1 DEF Tidy
<1>11. /\ parts \in Seq(Seq(S)) /\ Len(parts) = Len(cut.out) + 1 /\ Len(cut.out) \in Nat
       /\ \A k \in 1 .. Len(cut.out) : parts[k] = cut.out[k]
       /\ parts[Len(cut.out) + 1] = piece
  <2>1. cut.out \in Seq(Seq(S))
    BY <1>8
  <2> HIDE DEF n
  <2> QED
    BY <1>7, <1>9, <2>1
<1>12. \A k \in 1 .. Len(parts) : Tidy(parts[k])
  <2>1. ASSUME NEW k \in 1 .. Len(parts)
        PROVE  k \in 1 .. Len(cut.out) \/ k = Len(cut.out) + 1
    BY <1>11
  <2> QED
    BY <1>8, <1>10, <1>11, <2>1
<1>13. Len(parts) \in Nat \ {0}
  BY <1>11
<1> QED
  BY <1>11, <1>12, <1>13 DEF parts

(* What is kept of a bbl is a part of it.                                  *)
LEMMA Reachable ==
  ASSUME NEW S, NEW inss \in Seq(S)
  PROVE  RemoveUnreachableIns(inss) \in Seq(S)
<1> DEFINE P == {i \in 1 .. Len(inss) : inss[i].k \in {"ret", "bra"}}
           stop == IF P # {} THEN Min(P) ELSE 0
<1>1. RemoveUnreachableIns(inss) = IF stop = 0 THEN inss ELSE SubSeq(inss, 1, stop)
  BY DEF RemoveUnreachableIns, SelectInSeq
<1>2. CASE P = {}
  BY <1>1, <1>2
<1>3. CASE P # {}
  <2>1. P \subseteq Nat
    OBVIOUS
  <2>2. \E k \in P : \A l \in P : k <= l
    <3> HIDE DEF P
    <3> QED
      BY <1>3, <2>1, Least
  <2>3. Min(P) \in P
    <3> HIDE DEF P
    <3> QED
      BY <2>2 DEF Min
  <2>4. stop \in P
    BY <1>3, <2>3
  <2>5. stop \in 1 .. Len(inss) /\ Len(inss) \in Nat
    BY <2>4
  <2> HIDE DEF stop, P
  <2>6. stop \in 0 .. Len(inss) /\ 1 \in Nat \ {0} /\ stop # 0
    BY <2>5
  <2>7. SubSeq(inss, 1, stop) \in Seq(S)
    BY <2>6, Parts
  <2> QED
    BY <1>1, <2>6, <2>7
<1> QED
  BY <1>2, <1>3

(* A function without edges.                                               *)
NoEdges(f) == \A b \in DOMAIN f.inss : f.edge_out[b] = <<>> /\ f.edge_in[b] = <<>>

(* Splitting a bbl: a number of new bbls, all pieces tidy.                 *)
Splits(M, K, J, f, b, g) ==
  /\ g \in Flow(M + K, J) /\ NoEdges(g) /\ g.jtb = f.jtb
  /\ IsInjective(g.bbls) /\ ToSet(g.bbls) = ToSet(f.bbls) \cup {b} \cup M + 1 .. M + K
  /\ \A c \in {b} \cup M + 1 .. M + K : Tidy(g.inss[c])
  /\ \A c \in 1 .. M : c # b => g.inss[c] = f.inss[c]

(* SplitBbl splits.                                                        *)
LEMMA Splitting ==
  ASSUME NEW M \in Nat, NEW J, NEW f \in Flow(M, J), NoEdges(f), NEW b \in 1 .. M,
         IsInjective(f.bbls), b \notin ToSet(f.bbls)
  PROVE  \E K \in Nat : Splits(M, K, J, f, b, SplitBbl(f, b))
<1> DEFINE parts == SubRanges(RemoveUnreachableIns(Inss(f, b)))
           new == Tail(parts)
           K == Len(new)
           N == M + K
           g == SplitBbl(f, b)
           Ins == Instruction(1 .. M, J)
           no_edges == [n \in DOMAIN new |-> <<>>]
           numbers == [n \in DOMAIN new |-> Newest(f) + n]
           inss == [f.inss EXCEPT ![b] = Head(parts)]
           bbls == (f.bbls \o <<b>>) \o numbers
<1>1. /\ f.bbls \in Seq(1 .. M) /\ f.inss \in [1 .. M -> Seq(Ins)] /\ f.jtb \in [J -> JumpTable(1 .. M)]
      /\ f.edge_out \in [1 .. M -> Seq(1 .. M)] /\ f.edge_in \in [1 .. M -> Seq(1 .. M)]
  BY DEF Flow
<1>2. /\ parts \in Seq(Seq(Ins)) /\ Len(parts) \in Nat \ {0}
      /\ \A k \in 1 .. Len(parts) : Tidy(parts[k])
  <2>1. f.inss[b] \in Seq(Ins)
    BY <1>1
  <2> HIDE DEF Ins
  <2>2. RemoveUnreachableIns(Inss(f, b)) \in Seq(Ins)
    BY <2>1, Reachable DEF Inss
  <2> QED
    BY <2>2, Cutting
<1> HIDE DEF parts
<1>3. parts # <<>>
  BY <1>2
<1>4. /\ Head(parts) \in Seq(Ins) /\ Head(parts) = parts[1]
      /\ new \in Seq(Seq(Ins)) /\ K \in Nat /\ K = Len(parts) - 1
      /\ \A n \in 1 .. K : new[n] = parts[n + 1]
  <2>1. /\ Head(parts) \in Seq(Ins) /\ new \in Seq(Seq(Ins)) /\ Len(new) = Len(parts) - 1
        /\ \A i \in 1 .. Len(new) : new[i] = parts[i + 1]
    <3> HIDE DEF Ins
    <3> QED
      BY <1>2, <1>3, HeadTailProperties
  <2>2. Head(parts) = parts[1]
    BY <1>2, <1>3
  <2> HIDE DEF Ins
  <2> QED
    BY <1>2, <2>1, <2>2
<1>5. Tidy(Head(parts)) /\ \A n \in 1 .. K : Tidy(new[n])
  <2>1. 1 \in 1 .. Len(parts) /\ \A n \in 1 .. K : n + 1 \in 1 .. Len(parts)
    BY <1>2, <1>4
  <2> HIDE DEF K, new
  <2> QED
    BY <1>2, <1>4, <2>1
<1>6. Newest(f) = M /\ DOMAIN new = 1 .. K
  <2>1. f.inss \in [1 .. M -> Seq(Ins)]
    BY <1>1
  <2>2. Len(f.inss) = M
    BY <2>1, TableIsSeq
  <2>3. new \in Seq(Seq(Ins))
    BY <1>4
  <2> QED
    BY <2>2, <2>3 DEF Newest
<1>7. g = [f EXCEPT !.inss = inss \o new, !.edge_out = f.edge_out \o no_edges,
                    !.edge_in = f.edge_in \o no_edges, !.bbls = bbls]
  <2> DEFINE h == [f EXCEPT !.inss[b] = Head(parts)]
             split == NewBbls(h, new)
  <2>1. g = [split EXCEPT !.bbls = @ \o <<b>> \o numbers]
    BY Zenon DEF SplitBbl, parts
  <2>2. h = [f EXCEPT !.inss = inss]
    OBVIOUS
  <2>3. split = [h EXCEPT !.inss = @ \o new, !.edge_out = @ \o no_edges, !.edge_in = @ \o no_edges]
    BY Zenon DEF NewBbls
  <2> HIDE DEF split, inss, h, numbers, no_edges, new
  <2>4. h \in [bbls : {f.bbls}, inss : {inss}, jtb : {f.jtb},
              edge_out : {f.edge_out}, edge_in : {f.edge_in}]
    BY <2>2 DEF Flow
  <2>5. split \in [bbls : {f.bbls}, inss : {inss \o new}, jtb : {f.jtb},
                  edge_out : {f.edge_out \o no_edges},
                   edge_in : {f.edge_in \o no_edges}]
    BY <2>3, <2>4
  <2>6. g = [split EXCEPT !.bbls = bbls]
    BY <2>1, <2>5
  <2> HIDE DEF bbls, g
  <2> QED
    BY <2>5, <2>6 DEF Flow
<1> HIDE DEF g, new, K
<1>8. /\ no_edges \in [1 .. K -> {<<>>}] /\ numbers \in [1 .. K -> M + 1 .. M + K]
      /\ \A n \in 1 .. K : numbers[n] = M + n
  <2>1. \A n \in 1 .. K : M + n \in M + 1 .. M + K
    BY <1>4
  <2> QED
    BY <1>6, <2>1
<1>9. inss \in [1 .. M -> Seq(Ins)] /\ \A c \in 1 .. M : inss[c] = IF c = b THEN Head(parts) ELSE f.inss[c]
  BY <1>1, <1>4
<1> HIDE DEF inss, no_edges, numbers
<1>10. Seq(Ins) \subseteq Seq(Instruction(1 .. N, J)) /\ Seq(1 .. M) \subseteq Seq(1 .. N)
       /\ JumpTable(1 .. M) \subseteq JumpTable(1 .. N) /\ N \in Nat
  <2>1. M <= N /\ N \in Nat
    BY <1>4
  <2> HIDE DEF N
  <2> QED
    BY <2>1, MoreBbls
<1>11. /\ inss \o new \in [1 .. N -> Seq(Instruction(1 .. N, J))]
       /\ \A c \in 1 .. M : (inss \o new)[c] = inss[c]
       /\ \A n \in 1 .. K : (inss \o new)[M + n] = new[n]
  <2> DEFINE X == Seq(Ins)
  <2>1. inss \in Seq(X) /\ Len(inss) = M /\ new \in Seq(X) /\ Len(new) = K
    <3>1. inss \in [1 .. M -> X] /\ new \in Seq(X) /\ Len(new) = K
      BY <1>4, <1>9 DEF K
    <3> HIDE DEF X
    <3> QED
      BY <3>1, TableIsSeq
  <2> HIDE DEF X
  <2>2. /\ inss \o new \in Seq(X) /\ Len(inss \o new) = N
        /\ \A i \in 1 .. N : (inss \o new)[i] = IF i <= M THEN inss[i] ELSE new[i - M]
    BY <2>1, ConcatProperties
  <2>3. inss \o new \in [1 .. N -> X]
    BY <1>10, <2>2, TableIsSeq
  <2>4. inss \o new \in [1 .. N -> Seq(Instruction(1 .. N, J))]
    BY <1>10, <2>3 DEF X
  <2>5. \A c \in 1 .. M : c \in 1 .. N /\ c <= M
    BY <1>4
  <2>6. \A n \in 1 .. K : M + n \in 1 .. N /\ ~(M + n <= M) /\ (M + n) - M = n
    BY <1>4
  <2> HIDE DEF N
  <2> QED
    BY <2>2, <2>4, <2>5, <2>6
<1>12. ASSUME NEW e \in [1 .. M -> Seq(1 .. M)], \A c \in 1 .. M : e[c] = <<>>
       PROVE  e \o no_edges \in [1 .. N -> Seq(1 .. N)] /\ \A c \in 1 .. N : (e \o no_edges)[c] = <<>>
  <2> DEFINE X == {<<>>}
  <2>1. e \in [1 .. M -> X]
    BY <1>12
  <2>2. e \in Seq(X) /\ Len(e) = M /\ no_edges \in Seq(X) /\ Len(no_edges) = K
    <3> HIDE DEF X
    <3>1. no_edges \in [1 .. K -> X]
      BY <1>8 DEF X
    <3> QED
      BY <1>4, <2>1, <3>1, TableIsSeq
  <2>3. e \o no_edges \in Seq(X) /\ Len(e \o no_edges) = N
    <3> HIDE DEF X
    <3> QED
      BY <2>2, ConcatProperties
  <2>4. e \o no_edges \in [1 .. N -> X]
    <3> HIDE DEF X, N
    <3> QED
      BY <1>10, <2>3, TableIsSeq
  <2>5. <<>> \in Seq(1 .. N)
    BY EmptySeq
  <2> HIDE DEF N
  <2> QED
    BY <2>4, <2>5
<1>13. \A c \in 1 .. M : f.edge_out[c] = <<>> /\ f.edge_in[c] = <<>>
  BY <1>1 DEF NoEdges
<1>14. bbls \in Seq(1 .. N) /\ IsInjective(bbls)
       /\ ToSet(bbls) = ToSet(f.bbls) \cup {b} \cup M + 1 .. M + K
  <2> DEFINE s == f.bbls \o <<b>>
  <2>1. s = Append(f.bbls, b)
    BY <1>1
  <2>2. s \in Seq(1 .. M) /\ ToSet(s) = ToSet(f.bbls) \cup {b} /\ IsInjective(s)
    <3> DEFINE a == Append(f.bbls, b)
    <3>1. a \in Seq(1 .. M) /\ ToSet(a) = ToSet(f.bbls) \cup {b}
          /\ (IsInjective(f.bbls) /\ b \notin ToSet(f.bbls) => IsInjective(a))
      BY <1>1, Pushing
    <3>2. s = a
      BY <2>1
    <3> HIDE DEF a, s
    <3> QED
      BY <3>1, <3>2
  <2> HIDE DEF s
  <2> DEFINE m == Len(s)
             t == s \o numbers
  <2>3. /\ m \in Nat /\ DOMAIN s = 1 .. m /\ \A i \in 1 .. m : s[i] \in 1 .. M
    BY <2>2, ElementOfSeq
  <2>4. numbers \in Seq(1 .. N) /\ Len(numbers) = K /\ s \in Seq(1 .. N)
    <3>1. M + 1 .. M + K \subseteq 1 .. N
      BY <1>4
    <3>2. numbers \in [1 .. K -> 1 .. N]
      BY <1>8, <3>1
    <3> HIDE DEF N
    <3>3. numbers \in Seq(1 .. N) /\ Len(numbers) = K
      BY <1>4, <3>2, TableIsSeq
    <3> QED
      BY <1>10, <2>2, <3>3
  <2>5. /\ t \in Seq(1 .. N) /\ Len(t) = m + K
        /\ \A i \in 1 .. m + K : t[i] = IF i <= m THEN s[i] ELSE numbers[i - m]
    <3> HIDE DEF N
    <3> QED
      BY <2>4, ConcatProperties
  <2>6. DOMAIN t = 1 .. m + K
    <3> HIDE DEF N, t
    <3> QED
      BY <2>5, LenProperties
  <2> HIDE DEF t, m
  <2>7. \A i \in 1 .. m : i \in 1 .. m + K /\ t[i] = s[i] /\ t[i] \in 1 .. M
    <3>1. \A i \in 1 .. m : i \in 1 .. m + K /\ i <= m
      BY <1>4, <2>3
    <3> QED
      BY <2>3, <2>5, <3>1
  <2>8. \A n \in 1 .. K : m + n \in 1 .. m + K /\ t[m + n] = M + n
    <3>1. \A n \in 1 .. K : m + n \in 1 .. m + K /\ ~(m + n <= m) /\ (m + n) - m = n
      BY <1>4, <2>3
    <3> QED
      BY <1>8, <2>5, <3>1
  <2>9. ASSUME NEW i \in 1 .. m + K
        PROVE  i \in 1 .. m \/ \E n \in 1 .. K : i = m + n
    <3>1. i \in 1 .. m \/ (i - m \in 1 .. K /\ i = m + (i - m))
      BY <1>4, <2>3
    <3> QED
      BY <3>1
  <2>10. IsInjective(t)
    <3>1. ASSUME NEW i \in 1 .. m + K, NEW j \in 1 .. m + K, t[i] = t[j]
          PROVE  i = j
      <4>1. CASE i \in 1 .. m /\ j \in 1 .. m
        BY <2>2, <2>3, <2>7, <3>1, <4>1 DEF IsInjective
      <4>2. ASSUME NEW k \in 1 .. m, NEW n \in 1 .. K
            PROVE  t[k] # t[m + n]
        <5>1. t[k] \in 1 .. M /\ t[m + n] = M + n
          BY <2>7, <2>8
        <5> QED
          BY <1>4, <5>1
      <4>3. ASSUME NEW n \in 1 .. K, NEW l \in 1 .. K, i = m + n, j = m + l
            PROVE  i = j
        <5>1. M + n = M + l
          BY <2>8, <3>1, <4>3
        <5>2. n = l
          BY <1>4, <5>1
        <5> QED
          BY <4>3, <5>2
      <4> QED
        BY <2>9, <3>1, <4>1, <4>2, <4>3
    <3> QED
      BY <2>6, <3>1 DEF IsInjective
  <2>11. ToSet(t) = ToSet(s) \cup M + 1 .. M + K
    <3>1. ASSUME NEW i \in 1 .. m + K
          PROVE  t[i] \in ToSet(s) \cup M + 1 .. M + K
      <4>1. CASE i \in 1 .. m
        BY <2>3, <2>7, <4>1 DEF ToSet
      <4>2. ASSUME NEW n \in 1 .. K, i = m + n
            PROVE  t[i] \in M + 1 .. M + K
        <5>1. t[i] = M + n
          BY <2>8, <4>2
        <5> QED
          BY <1>4, <5>1
      <4> QED
        BY <2>9, <4>1, <4>2
    <3>2. ASSUME NEW i \in 1 .. m
          PROVE  s[i] \in ToSet(t)
      BY <2>6, <2>7 DEF ToSet
    <3>3. ASSUME NEW c \in M + 1 .. M + K
          PROVE  c \in ToSet(t)
      <4>1. c - M \in 1 .. K /\ M + (c - M) = c
        BY <1>4
      <4>2. m + (c - M) \in 1 .. m + K /\ t[m + (c - M)] = c
        BY <2>8, <4>1
      <4> QED
        BY <2>6, <4>2 DEF ToSet
    <3> QED
      BY <2>3, <2>6, <3>1, <3>2, <3>3 DEF ToSet
  <2>12. bbls = t
    BY DEF t, s
  <2> HIDE DEF bbls
  <2> QED
    BY <2>2, <2>5, <2>10, <2>11, <2>12
<1> HIDE DEF bbls
<1>15. /\ g \in Flow(N, J) /\ g.inss = inss \o new /\ g.jtb = f.jtb /\ g.bbls = bbls
       /\ g.edge_out = f.edge_out \o no_edges /\ g.edge_in = f.edge_in \o no_edges
  <2> DEFINE i == inss \o new
             o == f.edge_out \o no_edges
             e == f.edge_in \o no_edges
  <2>1. g = [f EXCEPT !.inss = i, !.edge_out = o, !.edge_in = e, !.bbls = bbls]
    BY <1>7
  <2>2. o \in [1 .. N -> Seq(1 .. N)] /\ e \in [1 .. N -> Seq(1 .. N)]
    BY <1>1, <1>12, <1>13
  <2>3. i \in [1 .. N -> Seq(Instruction(1 .. N, J))] /\ bbls \in Seq(1 .. N)
    BY <1>11, <1>14
  <2>4. f.jtb \in [J -> JumpTable(1 .. N)]
    BY <1>1, <1>10
  <2> HIDE DEF i, o, e, N
  <2>5. g \in Flow(N, J) /\ g.inss = i /\ g.jtb = f.jtb /\ g.bbls = bbls /\ g.edge_out = o /\ g.edge_in = e
    BY <2>1, <2>2, <2>3, <2>4 DEF Flow
  <2> QED
    BY <2>5 DEF i, o, e
<1>16. NoEdges(g)
  <2>1. DOMAIN g.inss = 1 .. N
    BY <1>15 DEF Flow
  <2>2. \A c \in 1 .. N : g.edge_out[c] = <<>> /\ g.edge_in[c] = <<>>
    BY <1>1, <1>12, <1>13, <1>15
  <2> QED
    BY <2>1, <2>2 DEF NoEdges
<1>17. \A c \in {b} \cup M + 1 .. M + K : Tidy(g.inss[c])
  <2>1. Tidy(g.inss[b])
    BY <1>5, <1>9, <1>11, <1>15
  <2>2. ASSUME NEW c \in M + 1 .. M + K
        PROVE  Tidy(g.inss[c])
    <3>1. c - M \in 1 .. K /\ M + (c - M) = c
      BY <1>4
    <3>2. g.inss[c] = new[c - M]
      BY <1>11, <1>15, <3>1
    <3> QED
      BY <1>5, <3>1, <3>2
  <2> QED
    BY <2>1, <2>2
<1>18. \A c \in 1 .. M : c # b => g.inss[c] = f.inss[c]
  BY <1>9, <1>11, <1>15
<1>19. Splits(M, K, J, f, b, g)
  BY <1>14, <1>15, <1>16, <1>17, <1>18 DEF Splits
<1> QED
  BY <1>4, <1>19 DEF g

(* What the rounds of SplitBbls keep to.                                   *)
SplitStays(f, I) ==
  \A j \in 1 .. Len(f.bbls) : \A v \in I[j - 1] : SplitBbl(v, f.bbls[j]) \in I[j]

(* A family of sets that its rounds lead through holds its result.         *)
LEMMA SplitLoop ==
  ASSUME NEW f, Len(f.bbls) \in Nat, NEW I, [f EXCEPT !.bbls = <<>>] \in I[0], SplitStays(f, I)
  PROVE  SplitBbls(f) \in I[Len(f.bbls)]
<1> DEFINE base == [f EXCEPT !.bbls = <<>>]
           seq == f.bbls
           n == Len(seq)
           Rnd(v, e) == SplitBbl(v, e)
           F(h) == [j \in 0 .. n |->
                      IF j = 0 THEN base
                      ELSE CHOOSE end \in {Rnd(mid, seq[j]) : mid \in {h[j - 1]}} : TRUE]
           fold == CHOOSE h : h = F(h)
           A == UNION {I[j] : j \in 0 .. n}
           step == [z \in (1 .. n) \X A |-> Rnd(z[2], seq[z[1]])]
<1>0. n \in Nat /\ base \in I[0]
  OBVIOUS
<1>1. \A j \in 1 .. n : \A v \in I[j - 1] : Rnd(v, seq[j]) \in I[j]
  BY DEF SplitStays
<1> HIDE DEF Rnd, seq, n, base
<1>2. \A j \in 0 .. n : I[j] \subseteq A
  OBVIOUS
<1>3. \A j \in 1 .. n : j - 1 \in 0 .. n /\ \A v \in I[j - 1] : step[<<j, v>>] = Rnd(v, seq[j])
  <2>1. \A j \in 1 .. n : j - 1 \in 0 .. n
    BY <1>0
  <2>2. \A j \in 1 .. n : \A v \in A : step[<<j, v>>] = Rnd(v, seq[j])
    OBVIOUS
  <2> HIDE DEF step
  <2> QED
    BY <1>2, <2>1, <2>2
<1> HIDE DEF step, A
<1>4. PICK g : g \in Loops(n, I, A, base, step)
  <2>1. Rounds(n, I, step) /\ Family(n, I, A)
    BY <1>1, <1>2, <1>3 DEF Rounds, Family
  <2> QED
    BY <1>0, <2>1, Looping
<1>5. ASSUME NEW j \in 1 .. n, NEW v
      PROVE  (CHOOSE end \in {Rnd(mid, seq[j]) : mid \in {v}} : TRUE) = Rnd(v, seq[j])
  OBVIOUS
<1>6. g = F(g)
  <2>1. \A j \in 1 .. n : g[j] = Rnd(g[j - 1], seq[j])
    BY <1>3, <1>4 DEF Loops
  <2> QED
    BY <1>4, <1>5, <2>1 DEF Loops
<1>7. fold = F(fold)
  <2> HIDE DEF F
  <2> QED
    BY <1>6, Zenon
<1>8. SplitBbls(f) = fold[n]
  BY Zenon DEF SplitBbls, FoldForward, Rnd, seq, n, base
<1> HIDE DEF fold
<1>9. fold[0] = base /\ \A j \in 1 .. n : fold[j] = Rnd(fold[j - 1], seq[j])
  BY <1>0, <1>5, <1>7, SMTT(30)
<1>10. \A j \in 0 .. n : fold[j] \in I[j]
  <2>1. fold[0] \in I[0]
    BY <1>0, <1>9
  <2>2. ASSUME NEW j \in 1 .. n, fold[j - 1] \in I[j - 1]
        PROVE  fold[j] \in I[j]
    BY <1>1, <1>9, <2>2
  <2> QED
    BY <1>0, <2>1, <2>2, Stays
<1>11. n \in 0 .. n
  BY <1>0
<1> QED
  BY <1>8, <1>10, <1>11 DEF n, seq

(* A function in which every bbl is in the layout and tidy.                *)
LaidOut(M, J, f) ==
  /\ f \in Flow(M, J) /\ NoEdges(f) /\ IsInjective(f.bbls) /\ ToSet(f.bbls) = 1 .. M
  /\ \A c \in 1 .. M : Tidy(f.inss[c])

(* The first j bbls of f are split: they and the new bbls are in the       *)
(* layout and tidy.                                                        *)
SplitUpto(f, N, J, j, M, v) ==
  /\ v \in Flow(M, J) /\ N <= M /\ NoEdges(v) /\ v.jtb = f.jtb /\ IsInjective(v.bbls)
  /\ ToSet(v.bbls) = {f.bbls[i] : i \in 1 .. j} \cup N + 1 .. M
  /\ \A c \in ToSet(v.bbls) : Tidy(v.inss[c])

(* One more bbl is split.                                                  *)
LEMMA SplittingOne ==
  ASSUME NEW N \in Nat, NEW J, NEW f \in Flow(N, J), IsInjective(f.bbls),
         NEW j \in 1 .. Len(f.bbls), NEW M \in Nat, NEW v, SplitUpto(f, N, J, j - 1, M, v)
  PROVE  \E K \in Nat : SplitUpto(f, N, J, j, K, SplitBbl(v, f.bbls[j]))
<1> DEFINE b == f.bbls[j]
           g == SplitBbl(v, b)
           n == Len(f.bbls)
           old == {f.bbls[i] : i \in 1 .. j - 1}
<1>1. /\ n \in Nat /\ DOMAIN f.bbls = 1 .. n /\ \A i \in 1 .. n : f.bbls[i] \in 1 .. N
  <2>1. f.bbls \in Seq(1 .. N)
    BY DEF Flow
  <2> QED
    BY <2>1, ElementOfSeq
<1>2. /\ v \in Flow(M, J) /\ N <= M /\ NoEdges(v) /\ v.jtb = f.jtb /\ IsInjective(v.bbls)
      /\ ToSet(v.bbls) = old \cup N + 1 .. M /\ \A c \in ToSet(v.bbls) : Tidy(v.inss[c])
  BY DEF SplitUpto
<1>3. b \in 1 .. N /\ b \in 1 .. M
  <2>1. b \in 1 .. N
    BY <1>1
  <2> HIDE DEF b
  <2> QED
    BY <1>2, <2>1
<1>4. b \notin old
  <2>1. \A i \in 1 .. j - 1 : i \in 1 .. n /\ i # j
    BY <1>1
  <2> HIDE DEF n
  <2> QED
    BY <1>1, <2>1 DEF IsInjective, n
<1>5. {f.bbls[i] : i \in 1 .. j} = old \cup {b}
  <2>1. \A i : i \in 1 .. j <=> i \in 1 .. j - 1 \/ i = j
    BY <1>1
  <2> QED
    BY <2>1
<1>6. old \subseteq 1 .. N
  <2>1. \A i \in 1 .. j - 1 : i \in 1 .. n
    BY <1>1
  <2> HIDE DEF n
  <2> QED
    BY <1>1, <2>1
<1> HIDE DEF b, g, old
<1>7. b \notin ToSet(v.bbls)
  BY <1>2, <1>3, <1>4
<1>8. PICK K \in Nat : Splits(M, K, J, v, b, g)
  BY <1>2, <1>3, <1>7, Splitting DEF g
<1>9. /\ g \in Flow(M + K, J) /\ NoEdges(g) /\ g.jtb = v.jtb /\ IsInjective(g.bbls)
      /\ ToSet(g.bbls) = ToSet(v.bbls) \cup {b} \cup M + 1 .. M + K
      /\ \A c \in {b} \cup M + 1 .. M + K : Tidy(g.inss[c])
      /\ \A c \in 1 .. M : c # b => g.inss[c] = v.inss[c]
  BY <1>8 DEF Splits
<1>10. N + 1 .. M + K = N + 1 .. M \cup M + 1 .. M + K /\ M + K \in Nat /\ N <= M + K
  BY <1>2, <1>8
<1>11. ToSet(g.bbls) = old \cup {b} \cup N + 1 .. M + K
  BY <1>2, <1>9, <1>10
<1>12. ASSUME NEW c \in ToSet(g.bbls)
       PROVE  Tidy(g.inss[c])
  <2>1. CASE c \in {b} \cup M + 1 .. M + K
    BY <1>9, <2>1
  <2>2. CASE c \in ToSet(v.bbls)
    <3>1. c \in 1 .. M /\ c # b
      <4>1. N <= M
        BY <1>2
      <4>2. 1 .. N \subseteq 1 .. M /\ N + 1 .. M \subseteq 1 .. M
        BY <4>1
      <4> QED
        BY <1>2, <1>6, <1>7, <2>2, <4>2
    <3> QED
      BY <1>2, <1>9, <2>2, <3>1
  <2> QED
    BY <1>9, <2>1, <2>2
<1>13. SplitUpto(f, N, J, j, M + K, g)
  BY <1>2, <1>5, <1>9, <1>10, <1>11, <1>12 DEF SplitUpto
<1> QED
  BY <1>10, <1>13 DEF g, b

(* FunSplitBbls leaves all bbls in the layout, and tidy.                   *)
LEMMA SplittingAll ==
  ASSUME NEW N \in Nat, NEW J, NEW f \in Flow(N, J), NoEdges(f), IsInjective(f.bbls),
         ToSet(f.bbls) = 1 .. N
  PROVE  \E M \in Nat : LaidOut(M, J, SplitBbls(f)) /\ SplitBbls(f).jtb = f.jtb
<1> DEFINE n == Len(f.bbls)
           Vals == UNION {Flow(M, J) : M \in Nat}
           base == [f EXCEPT !.bbls = <<>>]
           I == [j \in 0 .. n |-> {v \in Vals : \E M \in Nat : SplitUpto(f, N, J, j, M, v)}]
<1>1. n \in Nat /\ DOMAIN f.bbls = 1 .. n
  <2>1. f.bbls \in Seq(1 .. N)
    BY DEF Flow
  <2> QED
    BY <2>1
<1> HIDE DEF n
<1>2. base \in I[0]
  <2>1. base \in Flow(N, J) /\ base.bbls = <<>> /\ base.inss = f.inss /\ base.jtb = f.jtb
        /\ base.edge_out = f.edge_out /\ base.edge_in = f.edge_in
    <3>1. <<>> \in Seq(1 .. N)
      BY EmptySeq
    <3> QED
      BY <3>1 DEF Flow
  <2>2. NoEdges(base)
    BY <2>1 DEF NoEdges
  <2>3. ToSet(<<>>) = {} /\ IsInjective(<<>>)
    BY DEF ToSet, IsInjective
  <2>4. {f.bbls[i] : i \in 1 .. 0} \cup N + 1 .. N = {}
    OBVIOUS
  <2>5. SplitUpto(f, N, J, 0, N, base)
    <3> HIDE DEF base
    <3> QED
      BY <2>1, <2>2, <2>3, <2>4 DEF SplitUpto
  <2>6. 0 \in 0 .. n /\ base \in Vals
    BY <1>1, <2>1
  <2> QED
    BY <2>5, <2>6
<1>3. SplitStays(f, I)
  <2>1. ASSUME NEW j \in 1 .. n, NEW v \in I[j - 1]
        PROVE  SplitBbl(v, f.bbls[j]) \in I[j]
    <3>1. j - 1 \in 0 .. n /\ j \in 0 .. n
      BY <1>1
    <3>2. PICK M \in Nat : SplitUpto(f, N, J, j - 1, M, v)
      BY <3>1
    <3>3. PICK K \in Nat : SplitUpto(f, N, J, j, K, SplitBbl(v, f.bbls[j]))
      BY <3>2, SplittingOne DEF n
    <3>4. SplitBbl(v, f.bbls[j]) \in Flow(K, J)
      BY <3>3 DEF SplitUpto
    <3> QED
      BY <3>1, <3>3, <3>4
  <2> HIDE DEF I
  <2> QED
    BY <2>1 DEF SplitStays, n
<1>4. SplitBbls(f) \in I[Len(f.bbls)]
  <2> HIDE DEF I
  <2> QED
    BY <1>1, <1>2, <1>3, SplitLoop DEF n
<1>5. PICK M \in Nat : SplitUpto(f, N, J, n, M, SplitBbls(f))
  <2>1. n \in 0 .. n
    BY <1>1
  <2> QED
    BY <1>4, <2>1 DEF n
<1>6. {f.bbls[i] : i \in 1 .. n} = 1 .. N
  BY <1>1 DEF ToSet
<1> DEFINE g == SplitBbls(f)
<1> HIDE DEF g
<1>7. /\ g \in Flow(M, J) /\ N <= M /\ NoEdges(g) /\ g.jtb = f.jtb /\ IsInjective(g.bbls)
      /\ ToSet(g.bbls) = {f.bbls[i] : i \in 1 .. n} \cup N + 1 .. M
      /\ \A c \in ToSet(g.bbls) : Tidy(g.inss[c])
  BY <1>5 DEF SplitUpto, g
<1>8. ToSet(g.bbls) = 1 .. M
  <2>1. N <= M
    BY <1>7
  <2>2. 1 .. M = 1 .. N \cup N + 1 .. M
    BY <2>1
  <2> QED
    BY <1>6, <1>7, <2>2
<1>9. LaidOut(M, J, g) /\ g.jtb = f.jtb
  BY <1>7, <1>8 DEF LaidOut
<1> QED
  BY <1>9 DEF g

-----------------------------------------------------------------------------
(* The last instruction of a bbl is one.                                   *)
LEMMA LastOne ==
  ASSUME NEW S, NEW s \in Seq(S), s # <<>>
  PROVE  Last(s) \in S /\ Len(s) \in Nat \ {0} /\ Last(s) = s[Len(s)] /\ 1 \in 1 .. Len(s)
<1>1. Len(s) \in Nat \ {0}
  BY EmptySeq
<1>2. Len(s) \in 1 .. Len(s) /\ 1 \in 1 .. Len(s)
  BY <1>1
<1>3. s[Len(s)] \in S
  BY <1>2, ElementOfSeq
<1> QED
  BY <1>1, <1>2, <1>3 DEF Last

(* A bbl jumps to bbls.                                                    *)
LEMMA TargetsType ==
  ASSUME NEW N \in Nat, NEW J, NEW f \in Flow(N, J), NEW b \in 1 .. N
  PROVE  Targets(f, b) \in Seq(1 .. N)
<1> DEFINE B == 1 .. N
           ins == Last(f.inss[b])
<1>1. f.inss[b] \in Seq(Instruction(B, J)) /\ f.jtb \in [J -> JumpTable(B)]
  BY DEF Flow
<1>2. CASE f.inss[b] = <<>>
  BY <1>2, EmptySeq DEF Targets, Inss
<1>3. CASE f.inss[b] # <<>>
  <2>1. ins \in Instruction(B, J)
    <3> HIDE DEF B
    <3> QED
      BY <1>1, <1>3, LastOne
  <2>2. Targets(f, b) = InsTargets(f, ins)
    BY <1>3 DEF Targets, Inss
  <2> HIDE DEF ins, B
  <2>3. /\ ins.k \in {"bra", "cond"} => ins.to \in B
        /\ ins.k = "switch" => ins.jtb \in J
    BY <2>1, InstructionFields
  <2>4. CASE ins.k \in {"bra", "cond"}
    BY <2>2, <2>3, <2>4 DEF InsTargets, B
  <2>5. CASE ins.k = "switch"
    <3> DEFINE jt == f.jtb[ins.jtb]
    <3>1. jt \in JumpTable(B)
      BY <1>1, <2>3, <2>5
    <3>2. InsTargets(f, ins) = <<jt.def>> \o jt.tab
      BY <2>5 DEF InsTargets
    <3> HIDE DEF jt
    <3>3. <<jt.def>> \in Seq(B) /\ jt.tab \in Seq(B)
      BY <3>1 DEF JumpTable
    <3>4. <<jt.def>> \o jt.tab \in Seq(B)
      BY <3>3, ConcatProperties
    <3> QED
      BY <2>2, <3>2, <3>4 DEF B
  <2>6. CASE ins.k \notin {"bra", "cond", "switch"}
    <3>1. InsTargets(f, ins) = <<>>
      BY <2>6 DEF InsTargets
    <3> QED
      BY <2>2, <3>1, EmptySeq DEF B
  <2> QED
    BY <2>4, <2>5, <2>6
<1> QED
  BY <1>2, <1>3

(* Where a bbl goes is a matter of its instructions and jump tables.       *)
LEMMA SameTargets ==
  ASSUME NEW f, NEW g, SameCode(f, g), NEW b
  PROVE  Targets(g, b) = Targets(f, b) /\ (FallsThrough(g, b) <=> FallsThrough(f, b))
BY DEF SameCode, Targets, InsTargets, FallsThrough, Inss

(* What the rounds of AddTargets keep to.                                  *)
TargetsStays(f, b, I) ==
  \A j \in 1 .. Len(Targets(f, b)) : \A v \in I[j - 1] : AddEdgeOut(v, b, Targets(f, b)[j]) \in I[j]

(* A family of sets that its rounds lead through holds its result.         *)
LEMMA TargetsLoop ==
  ASSUME NEW f, NEW b, Len(Targets(f, b)) \in Nat, NEW I, f \in I[0], TargetsStays(f, b, I)
  PROVE  AddTargets(f, b) \in I[Len(Targets(f, b))]
<1> DEFINE base == f
           seq == Targets(f, b)
           n == Len(seq)
           Rnd(v, e) == AddEdgeOut(v, b, e)
           F(h) == [j \in 0 .. n |->
                      IF j = 0 THEN base
                      ELSE CHOOSE end \in {Rnd(mid, seq[j]) : mid \in {h[j - 1]}} : TRUE]
           fold == CHOOSE h : h = F(h)
           A == UNION {I[j] : j \in 0 .. n}
           step == [z \in (1 .. n) \X A |-> Rnd(z[2], seq[z[1]])]
<1>0. n \in Nat /\ base \in I[0]
  OBVIOUS
<1>1. \A j \in 1 .. n : \A v \in I[j - 1] : Rnd(v, seq[j]) \in I[j]
  BY DEF TargetsStays
<1> HIDE DEF Rnd, seq, n, base
<1>2. \A j \in 0 .. n : I[j] \subseteq A
  OBVIOUS
<1>3. \A j \in 1 .. n : j - 1 \in 0 .. n /\ \A v \in I[j - 1] : step[<<j, v>>] = Rnd(v, seq[j])
  <2>1. \A j \in 1 .. n : j - 1 \in 0 .. n
    BY <1>0
  <2>2. \A j \in 1 .. n : \A v \in A : step[<<j, v>>] = Rnd(v, seq[j])
    OBVIOUS
  <2> HIDE DEF step
  <2> QED
    BY <1>2, <2>1, <2>2
<1> HIDE DEF step, A
<1>4. PICK g : g \in Loops(n, I, A, base, step)
  <2>1. Rounds(n, I, step) /\ Family(n, I, A)
    BY <1>1, <1>2, <1>3 DEF Rounds, Family
  <2> QED
    BY <1>0, <2>1, Looping
<1>5. ASSUME NEW j \in 1 .. n, NEW v
      PROVE  (CHOOSE end \in {Rnd(mid, seq[j]) : mid \in {v}} : TRUE) = Rnd(v, seq[j])
  OBVIOUS
<1>6. g = F(g)
  <2>1. \A j \in 1 .. n : g[j] = Rnd(g[j - 1], seq[j])
    BY <1>3, <1>4 DEF Loops
  <2> QED
    BY <1>4, <1>5, <2>1 DEF Loops
<1>7. fold = F(fold)
  <2> HIDE DEF F
  <2> QED
    BY <1>6, Zenon
<1>8. AddTargets(f, b) = fold[n]
  BY Zenon DEF AddTargets, FoldForward, Rnd, seq, n, base
<1> HIDE DEF fold
<1>9. fold[0] = base /\ \A j \in 1 .. n : fold[j] = Rnd(fold[j - 1], seq[j])
  BY <1>0, <1>5, <1>7
<1>10. \A j \in 0 .. n : fold[j] \in I[j]
  <2>1. fold[0] \in I[0]
    BY <1>0, <1>9
  <2>2. ASSUME NEW j \in 1 .. n, fold[j - 1] \in I[j - 1]
        PROVE  fold[j] \in I[j]
    BY <1>1, <1>9, <2>2
  <2> QED
    BY <1>0, <2>1, <2>2, Stays
<1>11. n \in 0 .. n
  BY <1>0
<1> QED
  BY <1>8, <1>10, <1>11 DEF n, seq

(* AddTargets appends the targets to the edges of b.                       *)
TargetsAdded(N, J, f, b, g) ==
  /\ g \in Flow(N, J) /\ Mirrored(g) /\ SameCode(f, g)
  /\ g.edge_out = [f.edge_out EXCEPT ![b] = f.edge_out[b] \o Targets(f, b)]

(* AddTargets does that.                                                   *)
LEMMA AddingTargets ==
  ASSUME NEW N \in Nat, NEW J, NEW f \in Flow(N, J), Mirrored(f), NEW b \in 1 .. N
  PROVE  TargetsAdded(N, J, f, b, AddTargets(f, b))
<1> DEFINE to == Targets(f, b)
           n == Len(to)
           out == f.edge_out[b]
           I == [j \in 0 .. n |->
                   {h \in Flow(N, J) : /\ Mirrored(h) /\ SameCode(f, h)
                                       /\ h.edge_out = [f.edge_out EXCEPT ![b] = out \o SubSeq(to, 1, j)]}]
<1>1. to \in Seq(1 .. N)
  BY TargetsType
<1> HIDE DEF to
<1>2. n \in Nat /\ DOMAIN to = 1 .. n /\ \A i \in 1 .. n : to[i] \in 1 .. N
  BY <1>1, ElementOfSeq
<1>3. f.edge_out \in [1 .. N -> Seq(1 .. N)] /\ out \in Seq(1 .. N)
  BY DEF Flow
<1>4. f \in I[0]
  <2>1. SubSeq(to, 1, 0) = <<>>
    BY SubSeqEmpty
  <2>2. out \o <<>> = out
    <3> HIDE DEF out
    <3> QED
      BY <1>3, ConcatEmptySeq
  <2>3. f.edge_out = [f.edge_out EXCEPT ![b] = out]
    BY <1>3
  <2>4. 0 \in 0 .. n /\ SameCode(f, f)
    BY <1>2 DEF SameCode
  <2> HIDE DEF out
  <2> QED
    BY <2>1, <2>2, <2>3, <2>4
<1>5. ASSUME NEW j \in 1 .. n, NEW h \in I[j - 1]
      PROVE  AddEdgeOut(h, b, to[j]) \in I[j]
  <2> DEFINE part == SubSeq(to, 1, j - 1)
             x == to[j]
             g == AddEdgeOut(h, b, x)
  <2>1. j - 1 \in 0 .. n /\ j \in 0 .. n /\ x \in 1 .. N
    BY <1>2
  <2>2. /\ h \in Flow(N, J) /\ Mirrored(h) /\ SameCode(f, h)
        /\ h.edge_out = [f.edge_out EXCEPT ![b] = out \o part]
    BY <2>1
  <2>3. part \in Seq(1 .. N)
    <3>1. 1 \in Nat \ {0} /\ j - 1 \in 0 .. Len(to)
      BY <2>1
    <3> QED
      BY <1>1, <3>1, Parts
  <2>4. SubSeq(to, 1, j) = Append(part, x)
    <3>1. 1 \in 1 .. Len(to) /\ j \in 1 .. Len(to)
      BY <1>2
    <3>2. SubSeq(to, 1, j) = SubSeq(to, 1, j - 1) \o <<to[j]>>
      BY <1>1, <3>1, SubSeqRecursiveSecond
    <3> HIDE DEF part
    <3>3. part \o <<to[j]>> = Append(part, to[j])
      BY <2>3
    <3> QED
      BY <3>2, <3>3 DEF part
  <2> HIDE DEF part, out, g, n, I, x
  <2>5. out \o SubSeq(to, 1, j) = Append(out \o part, x)
    <3>1. out \o Append(part, x) = Append(out \o part, x)
      BY <1>3, <2>1, <2>3, AppendingLast, SMTT(30)
    <3> QED
      BY <2>4, <3>1
  <2>6. h.edge_out[b] = out \o part
    BY <1>3, <2>2
  <2>7. /\ g \in Flow(N, J) /\ Mirrored(g) /\ SameCode(h, g)
        /\ g.edge_out = [h.edge_out EXCEPT ![b] = Append(h.edge_out[b], x)]
    <3>1. Added(N, J, h, b, x, AddEdgeOut(h, b, x))
      BY <2>1, <2>2, Adding
    <3> QED
      BY <3>1 DEF g, Added
  <2>8. g.edge_out = [h.edge_out EXCEPT ![b] = out \o SubSeq(to, 1, j)]
    BY <2>5, <2>6, <2>7
  <2>9. g.edge_out = [f.edge_out EXCEPT ![b] = out \o SubSeq(to, 1, j)]
    BY <1>3, <2>2, <2>8
  <2>10. SameCode(f, g)
    BY <2>2, <2>7 DEF SameCode
  <2> QED
    BY <2>1, <2>7, <2>9, <2>10 DEF n, g, I, x
<1>6. TargetsStays(f, b, I)
  <2> HIDE DEF I
  <2> QED
    BY <1>5 DEF TargetsStays, to
<1>7. AddTargets(f, b) \in I[n]
  <2> HIDE DEF I
  <2> QED
    BY <1>2, <1>4, <1>6, TargetsLoop DEF to
<1>8. SubSeq(to, 1, n) = to /\ n \in 0 .. n
  BY <1>1, <1>2, SubSeqFull
<1> QED
  BY <1>7, <1>8 DEF to, TargetsAdded

(* What the rounds of InitBbls keep to.                                    *)
InitStays(f, I) ==
  \A j \in 1 .. Len(f.bbls) : \A v \in I[j - 1] : InitBbl(v, f.bbls[j]) \in I[j]

(* A family of sets that its rounds lead through holds its result.         *)
LEMMA InitLoop ==
  ASSUME NEW f, Len(f.bbls) \in Nat, NEW I, [f |-> f, fall_through |-> {}] \in I[0], InitStays(f, I)
  PROVE  InitBbls(f) \in I[Len(f.bbls)]
<1> DEFINE base == [f |-> f, fall_through |-> {}]
           seq == f.bbls
           n == Len(seq)
           Rnd(v, e) == InitBbl(v, e)
           F(h) == [j \in 0 .. n |->
                      IF j = 0 THEN base
                      ELSE CHOOSE end \in {Rnd(mid, seq[j]) : mid \in {h[j - 1]}} : TRUE]
           fold == CHOOSE h : h = F(h)
           A == UNION {I[j] : j \in 0 .. n}
           step == [z \in (1 .. n) \X A |-> Rnd(z[2], seq[z[1]])]
<1>0. n \in Nat /\ base \in I[0]
  OBVIOUS
<1>1. \A j \in 1 .. n : \A v \in I[j - 1] : Rnd(v, seq[j]) \in I[j]
  BY DEF InitStays
<1> HIDE DEF Rnd, seq, n, base
<1>2. \A j \in 0 .. n : I[j] \subseteq A
  OBVIOUS
<1>3. \A j \in 1 .. n : j - 1 \in 0 .. n /\ \A v \in I[j - 1] : step[<<j, v>>] = Rnd(v, seq[j])
  <2>1. \A j \in 1 .. n : j - 1 \in 0 .. n
    BY <1>0
  <2>2. \A j \in 1 .. n : \A v \in A : step[<<j, v>>] = Rnd(v, seq[j])
    OBVIOUS
  <2> HIDE DEF step
  <2> QED
    BY <1>2, <2>1, <2>2
<1> HIDE DEF step, A
<1>4. PICK g : g \in Loops(n, I, A, base, step)
  <2>1. Rounds(n, I, step) /\ Family(n, I, A)
    BY <1>1, <1>2, <1>3 DEF Rounds, Family
  <2> QED
    BY <1>0, <2>1, Looping
<1>5. ASSUME NEW j \in 1 .. n, NEW v
      PROVE  (CHOOSE end \in {Rnd(mid, seq[j]) : mid \in {v}} : TRUE) = Rnd(v, seq[j])
  OBVIOUS
<1>6. g = F(g)
  <2>1. \A j \in 1 .. n : g[j] = Rnd(g[j - 1], seq[j])
    BY <1>3, <1>4 DEF Loops
  <2> QED
    BY <1>4, <1>5, <2>1 DEF Loops
<1>7. fold = F(fold)
  <2> HIDE DEF F
  <2> QED
    BY <1>6, Zenon
<1>8. InitBbls(f) = fold[n]
  BY Zenon DEF InitBbls, FoldForward, Rnd, seq, n, base
<1> HIDE DEF fold
<1>9. fold[0] = base /\ \A j \in 1 .. n : fold[j] = Rnd(fold[j - 1], seq[j])
  BY <1>0, <1>5, <1>7
<1>10. \A j \in 0 .. n : fold[j] \in I[j]
  <2>1. fold[0] \in I[0]
    BY <1>0, <1>9
  <2>2. ASSUME NEW j \in 1 .. n, fold[j - 1] \in I[j - 1]
        PROVE  fold[j] \in I[j]
    BY <1>1, <1>9, <2>2
  <2> QED
    BY <1>0, <2>1, <2>2, Stays
<1>11. n \in 0 .. n
  BY <1>0
<1> QED
  BY <1>8, <1>10, <1>11 DEF n, seq

(* The edges of the i-th bbl when j bbls were handled: its targets, and    *)
(* the bbl it falls into.                                                  *)
Onward(f, i, j) ==
  IF FallsThrough(f, f.bbls[i]) /\ i < j THEN <<f.bbls[i + 1]>> ELSE <<>>
InitUpto(f, N, J, j, st) ==
  /\ st.f \in Flow(N, J) /\ Mirrored(st.f) /\ SameCode(f, st.f)
  /\ st.fall_through = IF j > 0 /\ FallsThrough(f, f.bbls[j]) THEN {f.bbls[j]} ELSE {}
  /\ \A i \in 1 .. j : st.f.edge_out[f.bbls[i]] = Targets(f, f.bbls[i]) \o Onward(f, i, j)
  /\ \A i \in j + 1 .. Len(f.bbls) : st.f.edge_out[f.bbls[i]] = <<>>

(* One more bbl gets its edges.                                            *)
LEMMA InitOne ==
  ASSUME NEW N \in Nat, NEW J, NEW f \in Flow(N, J), IsInjective(f.bbls),
         NEW j \in 1 .. Len(f.bbls), NEW st, InitUpto(f, N, J, j - 1, st)
  PROVE  InitUpto(f, N, J, j, InitBbl(st, f.bbls[j]))
<1> DEFINE b == f.bbls[j]
           n == Len(f.bbls)
           p == f.bbls[j - 1]
           g == IF st.fall_through = {} THEN st.f
                ELSE AddEdgeOut(st.f, CHOOSE q \in st.fall_through : TRUE, b)
           h == AddTargets(g, b)
           out == InitBbl(st, b)
           Half(w) ==
             /\ w \in Flow(N, J) /\ Mirrored(w) /\ SameCode(f, w)
             /\ \A i \in 1 .. j - 1 : w.edge_out[f.bbls[i]] = Targets(f, f.bbls[i]) \o Onward(f, i, j)
             /\ \A i \in j .. n : w.edge_out[f.bbls[i]] = <<>>
<1>1. /\ n \in Nat /\ DOMAIN f.bbls = 1 .. n /\ \A i \in 1 .. n : f.bbls[i] \in 1 .. N
  <2>1. f.bbls \in Seq(1 .. N)
    BY DEF Flow
  <2> QED
    BY <2>1, ElementOfSeq
<1> HIDE DEF n
<1>2. j \in 1 .. n /\ b \in 1 .. N /\ \A i \in 1 .. n : f.bbls[i] = b => i = j
  <2>1. j \in 1 .. n
    BY DEF n
  <2> QED
    BY <1>1, <2>1 DEF IsInjective
<1>3. j > 1 => j - 1 \in 1 .. n /\ p \in 1 .. N /\ \A i \in 1 .. n : f.bbls[i] = p => i = j - 1
  <2>1. j > 1 => j - 1 \in 1 .. n
    BY <1>1, <1>2
  <2> QED
    BY <1>1, <2>1 DEF IsInjective
<1>4. /\ st.f \in Flow(N, J) /\ Mirrored(st.f) /\ SameCode(f, st.f)
      /\ st.fall_through = IF j - 1 > 0 /\ FallsThrough(f, p) THEN {p} ELSE {}
      /\ \A i \in 1 .. j - 1 : st.f.edge_out[f.bbls[i]] = Targets(f, f.bbls[i]) \o Onward(f, i, j - 1)
      /\ \A i \in j .. n : st.f.edge_out[f.bbls[i]] = <<>>
  <2>1. (j - 1) + 1 = j
    BY <1>2
  <2> QED
    BY <2>1 DEF InitUpto, n
<1>5. out = [f |-> h, fall_through |-> IF FallsThrough(g, b) THEN {b} ELSE {}]
  BY Zenon DEF InitBbl
<1> HIDE DEF out, h
<1>6. ASSUME j > 1, FallsThrough(f, p)
      PROVE  Half(g)
  <2>1. g = AddEdgeOut(st.f, p, b)
    <3>1. st.fall_through = {p}
      BY <1>2, <1>4, <1>6
    <3>2. (CHOOSE q \in {p} : TRUE) = p
      OBVIOUS
    <3> HIDE DEF p
    <3> QED
      BY <3>1, <3>2
  <2> HIDE DEF g, b, p
  <2>2. Added(N, J, st.f, p, b, g)
    BY <1>2, <1>3, <1>4, <1>6, <2>1, Adding
  <2>3. /\ g \in Flow(N, J) /\ Mirrored(g) /\ SameCode(st.f, g)
        /\ g.edge_out = [st.f.edge_out EXCEPT ![p] = Append(st.f.edge_out[p], b)]
    BY <2>2 DEF Added
  <2>4. st.f.edge_out \in [1 .. N -> Seq(1 .. N)]
    BY <1>4 DEF Flow
  <2>5. \A i \in j .. n : g.edge_out[f.bbls[i]] = <<>>
    <3>1. ASSUME NEW i \in j .. n
          PROVE  g.edge_out[f.bbls[i]] = <<>>
      <4>1. i \in 1 .. n /\ i # j - 1
        BY <1>1, <1>2
      <4>2. f.bbls[i] # p /\ f.bbls[i] \in 1 .. N
        BY <1>1, <1>3, <1>6, <4>1
      <4> QED
        BY <1>4, <2>3, <2>4, <4>2
    <3> QED
      BY <3>1
  <2>6. \A i \in 1 .. j - 1 : g.edge_out[f.bbls[i]] = Targets(f, f.bbls[i]) \o Onward(f, i, j)
    <3>1. ASSUME NEW i \in 1 .. j - 1, i # j - 1
          PROVE  g.edge_out[f.bbls[i]] = Targets(f, f.bbls[i]) \o Onward(f, i, j)
      <4>1. i \in 1 .. n /\ (i < j <=> i < j - 1)
        BY <1>1, <1>2, <3>1
      <4>2. f.bbls[i] # p /\ f.bbls[i] \in 1 .. N
        BY <1>1, <1>3, <1>6, <3>1, <4>1
      <4>3. Onward(f, i, j) = Onward(f, i, j - 1)
        BY <4>1 DEF Onward
      <4> QED
        BY <1>4, <2>3, <2>4, <4>2, <4>3
    <3>2. g.edge_out[p] = Targets(f, p) \o Onward(f, j - 1, j)
      <4>1. p \in 1 .. N /\ b \in 1 .. N
        BY <1>2, <1>3, <1>6
      <4>2. Targets(f, p) \in Seq(1 .. N)
        BY <4>1, TargetsType
      <4>3. j - 1 \in 1 .. j - 1 /\ (j - 1) + 1 = j /\ ~(j - 1 < j - 1) /\ j - 1 < j
        BY <1>2, <1>6
      <4>4. Onward(f, j - 1, j) = <<b>> /\ Onward(f, j - 1, j - 1) = <<>>
        BY <1>6, <4>3 DEF Onward, p, b
      <4>5. st.f.edge_out[p] = Targets(f, p) \o <<>>
        BY <1>4, <4>3, <4>4 DEF p
      <4> DEFINE to == Targets(f, p)
      <4> HIDE DEF to
      <4>6. to \o <<>> = to /\ Append(to, b) = to \o <<b>>
        BY <4>1, <4>2 DEF to
      <4>7. g.edge_out[p] = Append(to, b)
        BY <2>3, <2>4, <4>1, <4>5, <4>6 DEF to
      <4> QED
        BY <4>4, <4>6, <4>7 DEF to
    <3> QED
      BY <3>1, <3>2 DEF p
  <2>7. SameCode(f, g)
    BY <1>4, <2>3 DEF SameCode
  <2> QED
    BY <2>3, <2>5, <2>6, <2>7
<1>7. ASSUME ~(j > 1 /\ FallsThrough(f, p))
      PROVE  Half(g)
  <2>1. st.fall_through = {}
    BY <1>2, <1>4, <1>7
  <2>2. g = st.f
    BY <2>1
  <2> HIDE DEF g, b
  <2>3. \A i \in 1 .. j - 1 : g.edge_out[f.bbls[i]] = Targets(f, f.bbls[i]) \o Onward(f, i, j)
    <3>1. ASSUME NEW i \in 1 .. j - 1
          PROVE  Onward(f, i, j) = Onward(f, i, j - 1)
      <4>1. (i < j <=> i < j - 1) \/ (i = j - 1 /\ j > 1)
        BY <1>2
      <4> QED
        BY <1>7, <4>1 DEF Onward, p
    <3> QED
      BY <1>4, <2>2, <3>1
  <2> QED
    BY <1>4, <2>2, <2>3
<1>8. /\ g \in Flow(N, J) /\ Mirrored(g) /\ SameCode(f, g)
      /\ \A i \in 1 .. j - 1 : g.edge_out[f.bbls[i]] = Targets(f, f.bbls[i]) \o Onward(f, i, j)
      /\ \A i \in j .. n : g.edge_out[f.bbls[i]] = <<>>
  <2>1. Half(g)
    <3> HIDE DEF Half
    <3> QED
      BY <1>6, <1>7
  <2> HIDE DEF g
  <2> QED
    BY <2>1
<1> HIDE DEF g, b, p
<1>9. /\ h \in Flow(N, J) /\ Mirrored(h) /\ SameCode(g, h)
      /\ h.edge_out = [g.edge_out EXCEPT ![b] = g.edge_out[b] \o Targets(g, b)]
  <2>1. TargetsAdded(N, J, g, b, h)
    BY <1>2, <1>8, AddingTargets DEF h
  <2> QED
    BY <2>1 DEF TargetsAdded
<1>10. g.edge_out[b] = <<>> /\ Targets(g, b) = Targets(f, b) /\ (FallsThrough(g, b) <=> FallsThrough(f, b))
       /\ g.edge_out \in [1 .. N -> Seq(1 .. N)]
  <2>1. j \in j .. n
    BY <1>1, <1>2
  <2>2. g.edge_out[b] = <<>>
    BY <1>8, <2>1 DEF b
  <2> QED
    BY <1>8, <2>2, SameTargets DEF Flow
<1>11. h.edge_out[b] = Targets(f, b) \o Onward(f, j, j)
  <2> DEFINE to == Targets(f, b)
  <2>1. to \in Seq(1 .. N)
    BY <1>2, TargetsType
  <2>2. Onward(f, j, j) = <<>>
    BY <1>2 DEF Onward
  <2> HIDE DEF to
  <2>3. <<>> \o to = to /\ to \o <<>> = to
    BY <2>1, ConcatEmptySeq
  <2>4. h.edge_out[b] = <<>> \o to
    BY <1>2, <1>9, <1>10 DEF to
  <2> QED
    BY <2>2, <2>3, <2>4 DEF to
<1>12. \A i \in 1 .. n : i # j => h.edge_out[f.bbls[i]] = g.edge_out[f.bbls[i]]
  BY <1>1, <1>2, <1>9, <1>10
<1>13. \A i \in 1 .. j : h.edge_out[f.bbls[i]] = Targets(f, f.bbls[i]) \o Onward(f, i, j)
  <2>1. \A i \in 1 .. j : i = j \/ (i \in 1 .. j - 1 /\ i \in 1 .. n /\ i # j)
    BY <1>1, <1>2
  <2>2. ASSUME NEW i \in 1 .. j
        PROVE  h.edge_out[f.bbls[i]] = Targets(f, f.bbls[i]) \o Onward(f, i, j)
    <3>1. CASE i = j
      BY <1>11, <3>1 DEF b
    <3>2. CASE i # j
      BY <1>8, <1>12, <2>1, <3>2
    <3> QED
      BY <3>1, <3>2
  <2> QED
    BY <2>2
<1>14. \A i \in j + 1 .. n : h.edge_out[f.bbls[i]] = <<>>
  <2>1. \A i \in j + 1 .. n : i \in j .. n /\ i \in 1 .. n /\ i # j
    BY <1>1, <1>2
  <2> QED
    BY <1>8, <1>12, <2>1
<1>15. SameCode(f, h)
  BY <1>8, <1>9 DEF SameCode
<1>16. out.f = h /\ out.fall_through = IF j > 0 /\ FallsThrough(f, b) THEN {b} ELSE {}
  BY <1>2, <1>5, <1>10
<1>17. InitUpto(f, N, J, j, out)
  BY <1>9, <1>13, <1>14, <1>15, <1>16 DEF InitUpto, n, b
<1> QED
  BY <1>17 DEF out, b

(* FunInitCFG gives each bbl of the layout the edges of its targets, and   *)
(* one to the bbl that it falls into.                                      *)
LEMMA InitAll ==
  ASSUME NEW N \in Nat, NEW J, NEW f \in Flow(N, J), NoEdges(f), IsInjective(f.bbls)
  PROVE  InitUpto(f, N, J, Len(f.bbls), InitBbls(f))
<1> DEFINE n == Len(f.bbls)
           State == [f : Flow(N, J), fall_through : SUBSET (1 .. N)]
           base == [f |-> f, fall_through |-> {}]
           I == [j \in 0 .. n |-> {st \in State : InitUpto(f, N, J, j, st)}]
<1>1. /\ n \in Nat /\ DOMAIN f.bbls = 1 .. n /\ \A i \in 1 .. n : f.bbls[i] \in 1 .. N
  <2>1. f.bbls \in Seq(1 .. N)
    BY DEF Flow
  <2> QED
    BY <2>1, ElementOfSeq
<1> HIDE DEF n
<1>2. base \in I[0]
  <2>1. DOMAIN f.inss = 1 .. N
    BY DEF Flow
  <2>2. \A b \in 1 .. N : f.edge_out[b] = <<>> /\ f.edge_in[b] = <<>>
    BY <2>1 DEF NoEdges
  <2>3. Mirrored(f)
    <3>1. \A b, s \in 1 .. N : f.edge_out[b] = f.edge_in[s]
      BY <2>2
    <3>2. ASSUME NEW e
          PROVE  Times(<<>>, e) = 0
      <4>1. Places(<<>>, e) = {}
        BY DEF Places
      <4> QED
        BY <4>1, FS_EmptySet DEF Times, Places
    <3> QED
      BY <2>1, <2>2, <3>2 DEF Mirrored
  <2>4. base.f = f /\ base.fall_through = {} /\ base \in State /\ SameCode(f, f) /\ 0 \in 0 .. n
    BY <1>1 DEF SameCode
  <2> HIDE DEF base
  <2>5. \A i \in 0 + 1 .. n : i \in 1 .. n
    OBVIOUS
  <2>6. InitUpto(f, N, J, 0, base)
    BY <1>1, <2>2, <2>3, <2>4, <2>5 DEF InitUpto, n
  <2> QED
    BY <2>4, <2>6
<1>3. InitStays(f, I)
  <2>1. ASSUME NEW j \in 1 .. n, NEW st \in I[j - 1]
        PROVE  InitBbl(st, f.bbls[j]) \in I[j]
    <3> DEFINE w == InitBbl(st, f.bbls[j])
    <3>1. j - 1 \in 0 .. n /\ j \in 0 .. n /\ f.bbls[j] \in 1 .. N /\ j \in 1 .. Len(f.bbls)
      BY <1>1 DEF n
    <3>2. InitUpto(f, N, J, j - 1, st)
      BY <3>1
    <3>3. InitUpto(f, N, J, j, w)
      BY <3>1, <3>2, InitOne
    <3>4. w \in State
      <4>1. w.f \in Flow(N, J) /\ w.fall_through \in SUBSET (1 .. N)
        BY <3>1, <3>3 DEF InitUpto
      <4>2. w = [f |-> w.f, fall_through |-> w.fall_through]
        BY DEF InitBbl
      <4> HIDE DEF w
      <4> QED
        BY <4>1, <4>2
    <3> QED
      BY <3>1, <3>3, <3>4
  <2> HIDE DEF I
  <2> QED
    BY <2>1 DEF InitStays, n
<1>4. InitBbls(f) \in I[Len(f.bbls)]
  <2> HIDE DEF I
  <2> QED
    BY <1>1, <1>2, <1>3, InitLoop DEF n
<1>5. n \in 0 .. n
  BY <1>1
<1> QED
  BY <1>4, <1>5 DEF n

-----------------------------------------------------------------------------
(* The edges of a switch are its targets, in their order.                  *)
SwitchExact(f) ==
  \A b \in DOMAIN f.inss :
    f.inss[b] # <<>> /\ Last(f.inss[b]).k = "switch" => f.edge_out[b] = Targets(f, b)

(* A flow graph whose layout names each bbl once.                          *)
Graph(N, J, f) ==
  f \in Flow(N, J) /\ Mirrored(f) /\ IsInjective(f.bbls) /\ SwitchExact(f)

(* What FunInitCFG makes: no bbl that is empty or ends with a branch is    *)
(* without a successor.                                                    *)
Edged(N, J, f) ==
  /\ Graph(N, J, f) /\ \A c \in 1 .. N : Tidy(f.inss[c])
  /\ \A c \in ToSet(f.bbls) :
       (f.inss[c] = <<>> \/ Last(f.inss[c]).k = "bra") => f.edge_out[c] # <<>>

(* A function with the edges that InitBbls made, and a layout without the  *)
(* last bbl when that one falls through.                                   *)
LEMMA Edging ==
  ASSUME NEW N \in Nat, NEW J, NEW f, LaidOut(N, J, f),
         NEW st, st = InitBbls(f), NEW g, g \in Flow(N, J), IsInjective(g.bbls),
         g.inss = st.f.inss, g.jtb = st.f.jtb, g.edge_out = st.f.edge_out, g.edge_in = st.f.edge_in,
         f.bbls # <<>> /\ FallsThrough(f, f.bbls[Len(f.bbls)]) => f.bbls[Len(f.bbls)] \notin ToSet(g.bbls)
  PROVE  Edged(N, J, g)
<1> DEFINE n == Len(f.bbls)
<1>1. /\ f \in Flow(N, J) /\ NoEdges(f) /\ IsInjective(f.bbls) /\ ToSet(f.bbls) = 1 .. N
      /\ \A c \in 1 .. N : Tidy(f.inss[c])
  BY DEF LaidOut
<1>2. f.bbls \in Seq(1 .. N) /\ f.edge_out \in [1 .. N -> Seq(1 .. N)] /\ DOMAIN f.inss = 1 .. N
  BY <1>1 DEF Flow
<1>3. n \in Nat /\ DOMAIN f.bbls = 1 .. n /\ \A i \in 1 .. n : f.bbls[i] \in 1 .. N
  BY <1>2, ElementOfSeq
<1>4. InitUpto(f, N, J, n, st)
  <2> HIDE DEF n
  <2> QED
    BY <1>1, InitAll DEF n
<1> HIDE DEF n
<1>5. /\ st.f \in Flow(N, J) /\ Mirrored(st.f) /\ SameCode(f, st.f)
      /\ \A i \in 1 .. n : st.f.edge_out[f.bbls[i]] = Targets(f, f.bbls[i]) \o Onward(f, i, n)
  BY <1>4 DEF InitUpto
<1>6. g.inss = f.inss /\ g.jtb = f.jtb /\ DOMAIN g.inss = 1 .. N
  BY <1>2, <1>5 DEF SameCode
<1>7. Mirrored(g)
  BY <1>5 DEF Mirrored
<1>8. \A b : Targets(g, b) = Targets(f, b)
  BY <1>6 DEF Targets, InsTargets, Inss
<1>9. \A c \in 1 .. N : \E i \in 1 .. n : c = f.bbls[i]
  BY <1>1, <1>3 DEF ToSet
<1>10. SwitchExact(g)
  <2>1. ASSUME NEW b \in 1 .. N, g.inss[b] # <<>>, Last(g.inss[b]).k = "switch"
        PROVE  g.edge_out[b] = Targets(g, b)
    <3>1. PICK i \in 1 .. n : b = f.bbls[i]
      BY <1>9
    <3>2. ~FallsThrough(f, b)
      BY <1>6, <2>1 DEF FallsThrough, HasFallthrough, Inss
    <3>3. g.edge_out[b] = Targets(f, b) \o <<>>
      BY <1>5, <3>1, <3>2 DEF Onward
    <3> DEFINE to == Targets(f, b)
    <3>4. to \in Seq(1 .. N)
      BY <1>1, TargetsType
    <3> HIDE DEF to
    <3>5. to \o <<>> = to
      BY <3>4, ConcatEmptySeq
    <3> QED
      BY <1>8, <3>3, <3>5 DEF to
  <2> QED
    BY <1>6, <2>1 DEF SwitchExact
<1>11. ASSUME NEW c \in ToSet(g.bbls), g.inss[c] = <<>> \/ Last(g.inss[c]).k = "bra"
       PROVE  g.edge_out[c] # <<>>
  <2> DEFINE to == Targets(f, c)
  <2>1. c \in 1 .. N
    <3>1. g.bbls \in Seq(1 .. N)
      BY DEF Flow
    <3> QED
      BY <3>1, ElementOfSeq DEF ToSet
  <2>2. PICK i \in 1 .. n : c = f.bbls[i]
    BY <1>9, <2>1
  <2>3. g.edge_out[c] = to \o Onward(f, i, n)
    BY <1>5, <2>2
  <2>4. to \in Seq(1 .. N)
    BY <1>1, <2>1, TargetsType
  <2>5. CASE g.inss[c] = <<>>
    <3>1. FallsThrough(f, c)
      BY <1>6, <2>5 DEF FallsThrough, Inss
    <3>2. i < n
      <4>1. ASSUME i = n
            PROVE  FALSE
        <5>1. f.bbls # <<>>
          BY <1>3, EmptySeq DEF n
        <5> QED
          BY <2>2, <3>1, <4>1, <5>1 DEF n
      <4> QED
        BY <1>3, <4>1
    <3>3. Onward(f, i, n) = <<f.bbls[i + 1]>> /\ i + 1 \in 1 .. n
      BY <1>3, <2>2, <3>1, <3>2 DEF Onward
    <3> DEFINE x == f.bbls[i + 1]
    <3>4. x \in 1 .. N
      BY <1>3, <3>3
    <3> HIDE DEF x, to
    <3>5. to \o <<x>> # <<>>
      BY <2>4, <3>4
    <3> QED
      BY <2>3, <3>3, <3>5 DEF x
  <2>6. CASE g.inss[c] # <<>> /\ Last(g.inss[c]).k = "bra"
    <3> DEFINE ins == Last(f.inss[c])
    <3>1. to = <<ins.to>> /\ ~FallsThrough(f, c)
      BY <1>6, <2>6 DEF Targets, InsTargets, Inss, FallsThrough, HasFallthrough
    <3>2. Onward(f, i, n) = <<>>
      BY <2>2, <3>1 DEF Onward
    <3> HIDE DEF to
    <3>3. to \o <<>> = to
      BY <2>4, ConcatEmptySeq
    <3>4. to # <<>>
      BY <3>1
    <3> QED
      BY <2>3, <3>2, <3>3, <3>4
  <2> QED
    BY <1>11, <2>5, <2>6
<1> QED
  BY <1>1, <1>6, <1>7, <1>10, <1>11 DEF Edged, Graph

(* FunInitCFG, without and with a last bbl that is dropped.                *)
LEMMA EdgingAll ==
  ASSUME NEW N \in Nat, NEW J, NEW f, LaidOut(N, J, f), NEW st, st = InitBbls(f)
  PROVE  /\ st.fall_through = {} => Edged(N, J, st.f)
         /\ st.fall_through # {} => Edged(N, J, [st.f EXCEPT !.bbls = Front(@)])
<1> DEFINE n == Len(f.bbls)
           last == f.bbls[n]
           g == [st.f EXCEPT !.bbls = Front(@)]
<1>1. f \in Flow(N, J) /\ NoEdges(f) /\ IsInjective(f.bbls)
  BY DEF LaidOut
<1>2. f.bbls \in Seq(1 .. N) /\ n \in Nat
  BY <1>1 DEF Flow
<1>3. InitUpto(f, N, J, n, st)
  <2> HIDE DEF n
  <2> QED
    BY <1>1, InitAll DEF n
<1>4. /\ st.f \in Flow(N, J) /\ SameCode(f, st.f)
      /\ st.fall_through = IF n > 0 /\ FallsThrough(f, last) THEN {last} ELSE {}
  <2> HIDE DEF n
  <2> QED
    BY <1>3 DEF InitUpto
<1>5. n > 0 <=> f.bbls # <<>>
  BY <1>2, EmptySeq
<1>6. st.f.bbls = f.bbls
  BY <1>4 DEF SameCode
<1>7. ASSUME st.fall_through = {}
      PROVE  Edged(N, J, st.f)
  <2>1. ~(f.bbls # <<>> /\ FallsThrough(f, last))
    BY <1>4, <1>5, <1>7
  <2> DEFINE w == st.f
  <2>2. w \in Flow(N, J) /\ IsInjective(w.bbls)
    BY <1>1, <1>4, <1>6
  <2> HIDE DEF w
  <2>3. Edged(N, J, w)
    BY <2>1, <2>2, Edging DEF w
  <2> QED
    BY <2>3 DEF w
<1>8. ASSUME st.fall_through # {}
      PROVE  Edged(N, J, g)
  <2>1. f.bbls # <<>>
    BY <1>4, <1>5, <1>8
  <2> DEFINE front == Front(f.bbls)
  <2>2. front \in Seq(1 .. N) /\ IsInjective(front) /\ Last(f.bbls) \notin ToSet(front)
    BY <1>1, <1>2, <2>1, Popping
  <2>3. Last(f.bbls) = last
    BY DEF Last
  <2> HIDE DEF front
  <2>4. g = [st.f EXCEPT !.bbls = front]
    BY <1>6 DEF front
  <2> HIDE DEF g
  <2>5. /\ g \in Flow(N, J) /\ g.bbls = front /\ g.inss = st.f.inss /\ g.jtb = st.f.jtb
        /\ g.edge_out = st.f.edge_out /\ g.edge_in = st.f.edge_in
    BY <1>4, <2>2, <2>4 DEF Flow
  <2>6. last \notin ToSet(g.bbls)
    BY <2>2, <2>3, <2>5
  <2> QED
    BY <2>2, <2>5, <2>6, Edging
<1> QED
  BY <1>7, <1>8

(* Where a bbl goes is a matter of its instructions and the jump tables.   *)
LEMMA TargetsOf ==
  ASSUME NEW f, NEW g, NEW b, g.inss[b] = f.inss[b], g.jtb = f.jtb
  PROVE  Targets(g, b) = Targets(f, b) /\ (FallsThrough(g, b) <=> FallsThrough(f, b))
<1>1. \A ins : InsTargets(g, ins) = InsTargets(f, ins)
  BY DEF InsTargets
<1> QED
  BY <1>1 DEF Targets, FallsThrough, Inss

(* What FunRemoveUnconditionalBranches makes: only bbls with a successor   *)
(* are empty.                                                              *)
Unbranched(N, J, f) ==
  /\ Graph(N, J, f)
  /\ \A c \in ToSet(f.bbls) : f.inss[c] = <<>> => f.edge_out[c] # <<>>

(* Without its branch a tidy bbl does not end with a switch.               *)
LEMMA Unbranching ==
  ASSUME NEW N \in Nat, NEW J, NEW f, Edged(N, J, f),
         NEW g, g = [f EXCEPT !.inss =
           [b \in DOMAIN @ |-> IF /\ Contains(f.bbls, b) /\ @[b] # <<>>
                                  /\ Last(@[b]).k = "bra"
                               THEN Front(@[b]) ELSE @[b]]]
  PROVE  Unbranched(N, J, g)
<1> DEFINE Ins == Instruction(1 .. N, J)
           Has(b) == Contains(f.bbls, b) /\ f.inss[b] # <<>> /\ Last(f.inss[b]).k = "bra"
           inss == [b \in DOMAIN f.inss |-> IF Has(b) THEN Front(f.inss[b]) ELSE f.inss[b]]
<1>1. /\ f \in Flow(N, J) /\ Mirrored(f) /\ IsInjective(f.bbls) /\ SwitchExact(f)
      /\ \A c \in 1 .. N : Tidy(f.inss[c])
      /\ \A c \in ToSet(f.bbls) :
           (f.inss[c] = <<>> \/ Last(f.inss[c]).k = "bra") => f.edge_out[c] # <<>>
  BY DEF Edged, Graph
<1>2. /\ f.inss \in [1 .. N -> Seq(Ins)] /\ DOMAIN f.inss = 1 .. N
      /\ f.bbls \in Seq(1 .. N)
  BY <1>1 DEF Flow
<1> HIDE DEF Ins
<1>3. \A b \in 1 .. N : Has(b) => /\ Front(f.inss[b]) \in Seq(Ins)
                                  /\ Len(Front(f.inss[b])) = Len(f.inss[b]) - 1
  BY <1>2, Popping
<1>4. inss \in [1 .. N -> Seq(Ins)]
  <2> HIDE DEF Has
  <2> QED
    BY <1>2, <1>3
<1>5. /\ g \in Flow(N, J) /\ g.inss = inss /\ g.bbls = f.bbls /\ g.jtb = f.jtb
      /\ g.edge_out = f.edge_out /\ g.edge_in = f.edge_in
  <2>1. g = [f EXCEPT !.inss = inss]
    OBVIOUS
  <2> HIDE DEF inss
  <2> QED
    BY <1>1, <1>4, <2>1 DEF Flow, Ins
<1>6. Mirrored(g)
  BY <1>1, <1>2, <1>4, <1>5 DEF Mirrored
<1>7. SwitchExact(g)
  <2>1. ASSUME NEW b \in 1 .. N, g.inss[b] # <<>>, Last(g.inss[b]).k = "switch"
        PROVE  g.edge_out[b] = Targets(g, b)
    <3>1. CASE Has(b)
      <4> DEFINE s == f.inss[b]
                 t == Front(s)
      <4>1. s \in Seq(Ins) /\ s # <<>> /\ t \in Seq(Ins) /\ Len(t) = Len(s) - 1 /\ Tidy(s)
        BY <1>1, <1>2, <1>3, <3>1
      <4>2. g.inss[b] = t
        BY <1>2, <1>5, <3>1
      <4>3. Last(t) = s[Len(s) - 1] /\ Len(s) - 1 \in 1 .. Len(s) - 1
        <5>1. Len(t) \in Nat \ {0} /\ Last(t) = t[Len(t)]
          BY <2>1, <4>1, <4>2, LastOne
        <5>2. \A i \in 1 .. Len(s) - 1 : t[i] = s[i]
          <6> HIDE DEF s
          <6> QED
            BY <4>1 DEF Front
        <5> HIDE DEF s, t
        <5> QED
          BY <4>1, <5>1, <5>2
      <4>4. ~IsTerminator(Last(t))
        BY <4>1, <4>3 DEF Tidy
      <4> QED
        BY <2>1, <4>2, <4>4 DEF IsTerminator
    <3>2. CASE ~Has(b)
      <4>1. g.inss[b] = f.inss[b]
        BY <1>2, <1>5, <3>2
      <4>2. f.edge_out[b] = Targets(f, b)
        BY <1>1, <1>2, <2>1, <4>1 DEF SwitchExact
      <4>3. Targets(g, b) = Targets(f, b)
        BY <1>5, <4>1, TargetsOf
      <4> QED
        BY <1>5, <4>2, <4>3
    <3> QED
      BY <3>1, <3>2
  <2>2. DOMAIN g.inss = 1 .. N
    BY <1>4, <1>5
  <2> QED
    BY <2>1, <2>2 DEF SwitchExact
<1>8. ASSUME NEW c \in ToSet(g.bbls), g.inss[c] = <<>>
      PROVE  g.edge_out[c] # <<>>
  <2>1. c \in 1 .. N
    BY <1>2, <1>5, ElementOfSeq DEF ToSet
  <2>2. CASE Has(c)
    BY <1>1, <1>5, <1>8, <2>2
  <2>3. CASE ~Has(c)
    <3>1. f.inss[c] = <<>>
      BY <1>2, <1>5, <1>8, <2>1, <2>3
    <3> QED
      BY <1>1, <1>5, <1>8, <3>1
  <2> QED
    BY <2>2, <2>3
<1> QED
  BY <1>1, <1>5, <1>6, <1>7, <1>8 DEF Unbranched, Graph

-----------------------------------------------------------------------------
(* The elements of a finite set in a row.                                  *)
LEMMA Listing ==
  ASSUME NEW S, IsFiniteSet(S)
  PROVE  SetToSeq(S) \in Seq(S) /\ ToSet(SetToSeq(S)) = S
<1> DEFINE n == Cardinality(S)
           D == 1 .. n
           s == SetToSeq(S)
<1>1. n \in Nat
  BY FS_CardinalityType
<1>2. IsFiniteSet(D) /\ Cardinality(D) = n
  BY <1>1, FS_Interval
<1>3. ExistsBijection(D, S)
  BY <1>2, FS_SameCardinalityBij
<1>4. \E t \in [D -> S] : IsInjective(t)
  BY <1>3 DEF ExistsBijection, Bijection, Injection
<1>5. s \in [D -> S] /\ IsInjective(s)
  BY <1>4 DEF SetToSeq
<1> HIDE DEF s
<1>6. s \in Surjection(D, S)
  <2>1. s \in Injection(D, S)
    BY <1>5 DEF Injection
  <2> HIDE DEF D
  <2> QED
    BY <1>2, <2>1, FS_Injection
<1>7. \A x \in S : \E i \in D : s[i] = x
  BY <1>6 DEF Surjection
<1> HIDE DEF n
<1>8. s \in Seq(S) /\ DOMAIN s = D
  BY <1>1, <1>5
<1>9. ToSet(s) = S
  BY <1>5, <1>7, <1>8 DEF ToSet
<1> QED
  BY <1>8, <1>9 DEF s

(* Replacing twice is replacing once.                                      *)
LEMMA ReplacingAgain ==
  ASSUME NEW S, NEW s \in Seq(S), NEW old, NEW new
  PROVE  ReplaceAll(ReplaceAll(s, old, new), old, new) = ReplaceAll(s, old, new)
<1> DEFINE t == ReplaceAll(s, old, new)
           u == ReplaceAll(t, old, new)
           n == Len(s)
<1>1. n \in Nat
  OBVIOUS
<1>2. t = [i \in 1 .. n |-> IF s[i] = old THEN new ELSE s[i]]
  BY DEF ReplaceAll
<1> HIDE DEF n, t
<1>3. Len(t) = n
  BY <1>1, <1>2
<1>4. u = [i \in 1 .. n |-> IF t[i] = old THEN new ELSE t[i]]
  BY <1>3 DEF ReplaceAll
<1>5. \A i \in 1 .. n : (IF t[i] = old THEN new ELSE t[i]) = IF s[i] = old THEN new ELSE s[i]
  BY <1>2
<1> HIDE DEF u
<1>6. u = t
  BY <1>2, <1>4, <1>5
<1> QED
  BY <1>6 DEF u, t

(* A replacement of what is not there.                                     *)
LEMMA ReplacingNone ==
  ASSUME NEW S, NEW s \in Seq(S), NEW old, NEW new, old \notin ToSet(s)
  PROVE  ReplaceAll(s, old, new) = s
<1> DEFINE n == Len(s)
<1>1. n \in Nat /\ s = [i \in 1 .. n |-> s[i]] /\ DOMAIN s = 1 .. n
  OBVIOUS
<1>2. \A i \in 1 .. n : s[i] # old
  BY <1>1 DEF ToSet
<1>3. ReplaceAll(s, old, new) = [i \in 1 .. n |-> IF s[i] = old THEN new ELSE s[i]]
  BY DEF ReplaceAll
<1> HIDE DEF n
<1> QED
  BY <1>1, <1>2, <1>3

(* A jump table that goes to new and not old, and where a switch with it   *)
(* goes.                                                                   *)
PatchedTable(jt, old, new) ==
  [def |-> Forward(jt.def, old, new), tab |-> ReplaceAll(jt.tab, old, new)]

(* A patched table is one, and leads where the patched targets do.         *)
LEMMA PatchingTable ==
  ASSUME NEW B, NEW jt \in JumpTable(B), NEW old, NEW new \in B
  PROVE  /\ PatchedTable(jt, old, new) \in JumpTable(B)
         /\ <<PatchedTable(jt, old, new).def>> \o PatchedTable(jt, old, new).tab
              = ReplaceAll(<<jt.def>> \o jt.tab, old, new)
<1> DEFINE def == jt.def
           tab == jt.tab
           pd == Forward(def, old, new)
           pt == ReplaceAll(tab, old, new)
           p == PatchedTable(jt, old, new)
<1>1. def \in B /\ tab \in Seq(B)
  BY DEF JumpTable
<1>2. p.def = pd /\ p.tab = pt /\ p = [def |-> pd, tab |-> pt]
  BY DEF PatchedTable
<1> HIDE DEF def, tab
<1>3. pd \in B
  BY <1>1 DEF Forward
<1>4. pt \in Seq(B)
  BY <1>1, CountingReplaceAll
<1>5. pd = (IF def = old THEN new ELSE def)
  BY DEF Forward
<1>6. <<pd>> \o pt = ReplaceAll(<<def>> \o tab, old, new)
  <2> DEFINE n == Len(tab)
             s == <<def>> \o tab
             u == <<pd>> \o pt
  <2>1. n \in Nat /\ pt = [i \in 1 .. n |-> IF tab[i] = old THEN new ELSE tab[i]]
    BY <1>1 DEF ReplaceAll
  <2> HIDE DEF n, pt, pd
  <2>2. Len(pt) = n
    BY <2>1
  <2>3. s \in Seq(B) /\ Len(s) = n + 1 /\ \A i \in 1 .. n + 1 : s[i] = IF i = 1 THEN def ELSE tab[i - 1]
    BY <1>1 DEF n
  <2>4. u \in Seq(B) /\ Len(u) = n + 1 /\ \A i \in 1 .. n + 1 : u[i] = IF i = 1 THEN pd ELSE pt[i - 1]
    BY <1>3, <1>4, <2>1, <2>2
  <2> HIDE DEF s, u
  <2>5. ReplaceAll(s, old, new) = [i \in 1 .. n + 1 |-> IF s[i] = old THEN new ELSE s[i]]
    BY <2>3 DEF ReplaceAll
  <2>6. \A i \in 1 .. n + 1 : u[i] = IF s[i] = old THEN new ELSE s[i]
    <3>1. ASSUME NEW i \in 1 .. n + 1
          PROVE  u[i] = IF s[i] = old THEN new ELSE s[i]
      <4>1. i = 1 \/ i - 1 \in 1 .. n
        BY <2>1
      <4> QED
        BY <1>5, <2>1, <2>3, <2>4, <4>1
    <3> QED
      BY <3>1
  <2>7. u = [i \in 1 .. n + 1 |-> u[i]]
    BY <2>4
  <2> QED
    BY <2>5, <2>6, <2>7 DEF s, u
<1>8. p \in JumpTable(B)
  <2> HIDE DEF p, pd, pt
  <2> QED
    BY <1>2, <1>3, <1>4 DEF JumpTable
<1> QED
  <2> HIDE DEF p, pd, pt
  <2>1. <<p.def>> \o p.tab = <<pd>> \o pt
    BY <1>2
  <2> QED
    BY <1>6, <1>8, <2>1 DEF p, def, tab

(* Patching twice is patching once.                                        *)
LEMMA PatchingTwice ==
  ASSUME NEW B, NEW jt \in JumpTable(B), NEW old, NEW new
  PROVE  PatchedTable(PatchedTable(jt, old, new), old, new) = PatchedTable(jt, old, new)
<1> DEFINE pd == Forward(jt.def, old, new)
           tab == jt.tab
           pt == ReplaceAll(tab, old, new)
           p == PatchedTable(jt, old, new)
<1>1. tab \in Seq(B)
  BY DEF JumpTable
<1>2. p.def = pd /\ p.tab = pt /\ p = [def |-> pd, tab |-> pt]
  BY DEF PatchedTable
<1>3. Forward(pd, old, new) = pd
  BY DEF Forward
<1> HIDE DEF tab
<1>4. ReplaceAll(pt, old, new) = pt
  BY <1>1, ReplacingAgain
<1>5. PatchedTable(p, old, new) = [def |-> Forward(p.def, old, new), tab |-> ReplaceAll(p.tab, old, new)]
  BY DEF PatchedTable
<1> HIDE DEF p, pd, pt
<1>6. PatchedTable(p, old, new) = p
  BY <1>2, <1>3, <1>4, <1>5
<1> QED
  BY <1>6 DEF p

(* What patching the last instruction of b makes of f.                     *)
Patched(N, J, f, b, old, new, g) ==
  /\ g \in Flow(N, J) /\ g.bbls = f.bbls /\ g.edge_out = f.edge_out /\ g.edge_in = f.edge_in
  /\ \A c \in 1 .. N : c # b => g.inss[c] = f.inss[c]
  /\ LET ins == Last(f.inss[b])
     IN /\ g.inss[b] = IF ins.k \in {"bra", "cond"}
                       THEN Append(Front(f.inss[b]), [ins EXCEPT !.to = Forward(ins.to, old, new)])
                       ELSE f.inss[b]
        /\ g.jtb = IF ins.k = "switch"
                   THEN [f.jtb EXCEPT ![ins.jtb] = PatchedTable(f.jtb[ins.jtb], old, new)]
                   ELSE f.jtb

(* A branch stays one of its kind when it goes elsewhere.                  *)
LEMMA Retargeting ==
  ASSUME NEW B, NEW J, NEW ins \in Instruction(B, J), ins.k \in {"bra", "cond"}, NEW x \in B
  PROVE  /\ [ins EXCEPT !.to = x] \in Instruction(B, J)
         /\ [ins EXCEPT !.to = x].k = ins.k /\ [ins EXCEPT !.to = x].to = x
<1>1. ins \in [k : {"bra"}, to : B] \/ ins \in CondBra(Name, B)
  BY InstructionFields
<1>2. CASE ins \in [k : {"bra"}, to : B]
  BY <1>2 DEF Instruction
<1>3. CASE ins \in CondBra(Name, B)
  BY <1>3 DEF Instruction, CondBra
<1> QED
  BY <1>1, <1>2, <1>3

(* Patching does that.                                                     *)
LEMMA Patching ==
  ASSUME NEW N \in Nat, NEW J, NEW f \in Flow(N, J), NEW b \in 1 .. N, f.inss[b] # <<>>,
         NEW old \in 1 .. N, NEW new \in 1 .. N
  PROVE  Patched(N, J, f, b, old, new, InsMaybePatchNewSuccessor(f, b, old, new))
<1> DEFINE B == 1 .. N
           Ins == Instruction(B, J)
           s == f.inss[b]
           ins == Last(s)
           to == Forward(ins.to, old, new)
           patched == [ins EXCEPT !.to = to]
           g == InsMaybePatchNewSuccessor(f, b, old, new)
<1>1. f.inss \in [1 .. N -> Seq(Ins)] /\ f.jtb \in [J -> JumpTable(B)]
  BY DEF Flow
<1>2. old \in B /\ new \in B
  OBVIOUS
<1> HIDE DEF B, Ins
<1>3. s \in Seq(Ins)
  BY <1>1
<1>4. ins \in Ins /\ Front(s) \in Seq(Ins)
  <2> HIDE DEF s
  <2> QED
    BY <1>3, LastOne, Popping DEF s
<1>5. CASE ins.k \in {"bra", "cond"}
  <2> DEFINE t == Append(Front(s), patched)
  <2>1. to \in B
    <3>1. ins.to \in B
      BY <1>4, <1>5, InstructionFields DEF Ins
    <3> QED
      BY <1>2, <3>1 DEF Forward
  <2> HIDE DEF to
  <2>2. patched \in Ins
    BY <1>4, <1>5, <2>1, Retargeting DEF Ins
  <2>3. t \in Seq(Ins)
    <3> HIDE DEF patched, s
    <3> QED
      BY <1>4, <2>2
  <2>4. g = [f EXCEPT !.inss = [f.inss EXCEPT ![b] = t]]
    BY <1>5 DEF InsMaybePatchNewSuccessor, Inss, to
  <2> HIDE DEF g, t
  <2>5. [f.inss EXCEPT ![b] = t] \in [1 .. N -> Seq(Ins)]
    BY <1>1, <2>3
  <2>6. g \in Flow(N, J)
    BY <2>4, <2>5 DEF Flow, Ins, B
  <2>7. /\ g.bbls = f.bbls /\ g.edge_out = f.edge_out /\ g.edge_in = f.edge_in /\ g.jtb = f.jtb
        /\ g.inss = [f.inss EXCEPT ![b] = t]
    BY <2>4 DEF Flow
  <2>8. g.inss[b] = t /\ \A c \in 1 .. N : c # b => g.inss[c] = f.inss[c]
    BY <1>1, <2>7
  <2>9. ins.k # "switch"
    BY <1>5
  <2> HIDE DEF patched
  <2>10. patched = [ins EXCEPT !.to = Forward(ins.to, old, new)]
    BY DEF patched, to
  <2> QED
    BY <1>5, <2>6, <2>7, <2>8, <2>9, <2>10 DEF Patched, t, g, s
<1>6. CASE ins.k = "switch"
  <2> DEFINE jt == f.jtb[ins.jtb]
             p == PatchedTable(jt, old, new)
  <2>1. ins.jtb \in J
    BY <1>4, <1>6, InstructionFields DEF Ins
  <2>2. p \in JumpTable(B)
    <3>1. jt \in JumpTable(B)
      BY <1>1, <2>1
    <3> HIDE DEF jt
    <3> QED
      BY <1>2, <3>1, PatchingTable
  <2>3. g = [f EXCEPT !.jtb = [f.jtb EXCEPT ![ins.jtb] = p]]
    BY <1>6 DEF InsMaybePatchNewSuccessor, Inss, PatchedTable
  <2> HIDE DEF g, p
  <2>4. [f.jtb EXCEPT ![ins.jtb] = p] \in [J -> JumpTable(B)]
    BY <1>1, <2>2
  <2>5. /\ g \in Flow(N, J) /\ g.bbls = f.bbls /\ g.edge_out = f.edge_out /\ g.edge_in = f.edge_in
        /\ g.inss = f.inss /\ g.jtb = [f.jtb EXCEPT ![ins.jtb] = p]
    BY <2>3, <2>4 DEF Flow, B
  <2> QED
    BY <1>6, <2>5 DEF Patched, g, p
<1>7. CASE ins.k \notin {"bra", "cond", "switch"}
  <2>1. g = f
    BY <1>7 DEF InsMaybePatchNewSuccessor, Inss
  <2> HIDE DEF g
  <2> QED
    BY <1>7, <2>1 DEF Patched, g
<1> QED
  BY <1>5, <1>6, <1>7

(* The predecessors Z of b were handled, and go to succ.                   *)
Kept(f, g, c) ==
  /\ g.inss[c] = <<>> <=> f.inss[c] = <<>>
  /\ f.inss[c] # <<>> => /\ Last(g.inss[c]).k = Last(f.inss[c]).k
                         /\ Last(f.inss[c]).k = "switch" => g.inss[c] = f.inss[c]
BypassUpto(N, J, f, b, succ, Z, g) ==
  /\ g \in Flow(N, J) /\ Mirrored(g) /\ g.bbls = f.bbls
  /\ \A c \in 1 .. N : g.edge_out[c] = IF c \in Z THEN ReplaceAll(f.edge_out[c], b, succ)
                                       ELSE f.edge_out[c]
  /\ \A c \in 1 .. N : Kept(f, g, c)
  /\ \A t \in J : g.jtb[t] \in {f.jtb[t], PatchedTable(f.jtb[t], b, succ)}
  /\ \A c \in Z : f.inss[c] # <<>> /\ Last(f.inss[c]).k = "switch"
                    => LET t == Last(f.inss[c]).jtb IN g.jtb[t] = PatchedTable(f.jtb[t], b, succ)

(* One more of them is handled.                                            *)
LEMMA BypassingOne ==
  ASSUME NEW N \in Nat, NEW J, NEW f \in Flow(N, J), NEW b \in 1 .. N, NEW succ \in 1 .. N,
         NEW Z, Z \subseteq 1 .. N, NEW w, BypassUpto(N, J, f, b, succ, Z, w), NEW z \in 1 .. N
  PROVE  BypassUpto(N, J, f, b, succ, Z \cup {z}, Bypass(w, z, b, succ))
<1> DEFINE g == IF w.inss[z] = <<>> THEN w ELSE InsMaybePatchNewSuccessor(w, z, b, succ)
           u == ReplaceEdgeOut(g, z, b, succ)
           B == 1 .. N
           P(jt) == PatchedTable(jt, b, succ)
<1>1. /\ w \in Flow(N, J) /\ Mirrored(w) /\ w.bbls = f.bbls
      /\ \A c \in 1 .. N : w.edge_out[c] = IF c \in Z THEN ReplaceAll(f.edge_out[c], b, succ)
                                           ELSE f.edge_out[c]
      /\ \A c \in 1 .. N : Kept(f, w, c)
      /\ \A t \in J : w.jtb[t] \in {f.jtb[t], PatchedTable(f.jtb[t], b, succ)}
      /\ \A c \in Z : f.inss[c] # <<>> /\ Last(f.inss[c]).k = "switch"
                    => LET t == Last(f.inss[c]).jtb IN w.jtb[t] = PatchedTable(f.jtb[t], b, succ)
  BY DEF BypassUpto
<1>2. /\ f.inss \in [1 .. N -> Seq(Instruction(B, J))] /\ f.jtb \in [J -> JumpTable(B)]
      /\ f.edge_out \in [1 .. N -> Seq(B)]
      /\ w.inss \in [1 .. N -> Seq(Instruction(B, J))] /\ w.jtb \in [J -> JumpTable(B)]
      /\ w.edge_out \in [1 .. N -> Seq(B)] /\ DOMAIN w.inss = 1 .. N
  BY <1>1 DEF Flow
<1>3. b \in B /\ succ \in B
  OBVIOUS
<1> HIDE DEF B
<1>4. \A t \in J : f.jtb[t] \in JumpTable(B) /\ P(P(f.jtb[t])) = P(f.jtb[t])
  <2>1. ASSUME NEW t \in J
        PROVE  f.jtb[t] \in JumpTable(B) /\ P(P(f.jtb[t])) = P(f.jtb[t])
    <3> DEFINE jt == f.jtb[t]
    <3>1. jt \in JumpTable(B)
      BY <1>2
    <3> HIDE DEF jt
    <3>2. PatchedTable(PatchedTable(jt, b, succ), b, succ) = PatchedTable(jt, b, succ)
      BY <1>3, <3>1, PatchingTwice
    <3> QED
      BY <3>1, <3>2 DEF jt
  <2> QED
    BY <2>1
<1> DEFINE Switch(h, c) == h.inss[c] # <<>> /\ Last(h.inss[c]).k = "switch"
<1>5. /\ g \in Flow(N, J) /\ g.bbls = w.bbls /\ g.edge_out = w.edge_out /\ g.edge_in = w.edge_in
      /\ \A c \in 1 .. N : Kept(w, g, c)
      /\ g.jtb = IF Switch(w, z) THEN [w.jtb EXCEPT ![Last(w.inss[z]).jtb] = P(w.jtb[Last(w.inss[z]).jtb])]
                 ELSE w.jtb
  <2>1. CASE w.inss[z] = <<>>
    <3>1. g = w
      BY <2>1
    <3> HIDE DEF g
    <3> QED
      BY <1>1, <2>1, <3>1 DEF Kept
  <2>2. CASE w.inss[z] # <<>>
    <3>1. g = InsMaybePatchNewSuccessor(w, z, b, succ)
      BY <2>2
    <3> HIDE DEF g
    <3>2. Patched(N, J, w, z, b, succ, g)
      BY <1>1, <2>2, <3>1, Patching
    <3> DEFINE s == w.inss[z]
               ins == Last(s)
    <3>3. /\ g \in Flow(N, J) /\ g.bbls = w.bbls /\ g.edge_out = w.edge_out /\ g.edge_in = w.edge_in
          /\ \A c \in 1 .. N : c # z => g.inss[c] = w.inss[c]
          /\ g.inss[z] = IF ins.k \in {"bra", "cond"}
                       THEN Append(Front(s), [ins EXCEPT !.to = Forward(ins.to, b, succ)])
                       ELSE s
          /\ g.jtb = IF ins.k = "switch" THEN [w.jtb EXCEPT ![ins.jtb] = P(w.jtb[ins.jtb])] ELSE w.jtb
      BY <3>2, Zenon DEF Patched
    <3>4. Kept(w, g, z)
      <4>1. CASE ins.k \in {"bra", "cond"}
        <5> DEFINE x == [ins EXCEPT !.to = Forward(ins.to, b, succ)]
                   front == Front(s)
        <5>1. s \in Seq(Instruction(B, J))
          BY <1>2
        <5>2. ins \in Instruction(B, J) /\ front \in Seq(Instruction(B, J))
          <6> HIDE DEF s
          <6> QED
            BY <2>2, <5>1, LastOne, Popping DEF s
        <5>3. x \in Instruction(B, J) /\ x.k = ins.k
          <6>1. Forward(ins.to, b, succ) \in B
            BY <1>3, <4>1, <5>2, InstructionFields DEF Forward
          <6> QED
            BY <4>1, <5>2, <6>1, Retargeting
        <5>4. g.inss[z] = Append(front, x)
          BY <3>3, <4>1
        <5> HIDE DEF x, front, s
        <5>5. Append(front, x) # <<>> /\ Last(Append(front, x)) = x
          BY <5>2, <5>3 DEF Last
        <5>6. ins.k # "switch"
          BY <4>1
        <5> QED
          BY <2>2, <5>3, <5>4, <5>5, <5>6 DEF Kept, s
      <4>2. CASE ins.k \notin {"bra", "cond"}
        BY <2>2, <3>3, <4>2 DEF Kept
      <4> QED
        BY <4>1, <4>2
    <3>5. \A c \in 1 .. N : Kept(w, g, c)
      BY <3>3, <3>4 DEF Kept
    <3>6. Switch(w, z) <=> ins.k = "switch"
      BY <2>2
    <3> HIDE DEF P
    <3> QED
      BY <3>3, <3>5, <3>6
  <2> QED
    BY <2>1, <2>2
<1> HIDE DEF g
<1>6. Mirrored(g)
  <2>1. DOMAIN g.inss = DOMAIN w.inss
    BY <1>2, <1>5 DEF Flow
  <2> QED
    BY <1>1, <1>5, <2>1 DEF Mirrored
<1>7. /\ u \in Flow(N, J) /\ Mirrored(u) /\ SameCode(g, u)
      /\ u.edge_out = [g.edge_out EXCEPT ![z] = ReplaceAll(g.edge_out[z], b, succ)]
  <2>1. Replaced(N, J, g, z, b, succ, u)
    BY <1>5, <1>6, Replacing
  <2> HIDE DEF u
  <2> QED
    BY <2>1 DEF Replaced
<1>8. Bypass(w, z, b, succ) = u
  BY DEF Bypass, g, Inss
<1> HIDE DEF u
<1>9. u.bbls = f.bbls /\ u.inss = g.inss /\ u.jtb = g.jtb
  BY <1>1, <1>5, <1>7 DEF SameCode
<1>10. ASSUME NEW c \in 1 .. N
       PROVE  u.edge_out[c] = IF c \in Z \cup {z} THEN ReplaceAll(f.edge_out[c], b, succ)
                              ELSE f.edge_out[c]
  <2> DEFINE s == f.edge_out[c]
             r == ReplaceAll(s, b, succ)
  <2>1. ReplaceAll(r, b, succ) = r
    <3>1. s \in Seq(B)
      BY <1>2
    <3> HIDE DEF s
    <3> QED
      BY <3>1, ReplacingAgain
  <2>2. w.edge_out[c] = IF c \in Z THEN r ELSE s
    BY <1>1
  <2> HIDE DEF r
  <2>3. u.edge_out[c] = IF c = z THEN ReplaceAll(w.edge_out[c], b, succ) ELSE w.edge_out[c]
    BY <1>2, <1>5, <1>7
  <2>4. ReplaceAll(s, b, succ) = r
    BY DEF r
  <2> HIDE DEF s
  <2>5. u.edge_out[c] = IF c \in Z \cup {z} THEN r ELSE s
    BY <2>1, <2>2, <2>3, <2>4
  <2> QED
    BY <2>5 DEF r, s
<1>11. ASSUME NEW c \in 1 .. N
       PROVE  Kept(f, u, c)
  <2>1. Kept(f, w, c) /\ Kept(w, g, c)
    BY <1>1, <1>5
  <2> QED
    BY <1>9, <2>1 DEF Kept
<1>12. ASSUME NEW t \in J
       PROVE  /\ u.jtb[t] \in {f.jtb[t], P(f.jtb[t])}
              /\ w.jtb[t] = P(f.jtb[t]) => u.jtb[t] = P(f.jtb[t])
              /\ Switch(w, z) /\ Last(w.inss[z]).jtb = t => u.jtb[t] = P(f.jtb[t])
  <2> HIDE DEF P, Switch
  <2>1. w.jtb[t] \in {f.jtb[t], P(f.jtb[t])}
    BY <1>1 DEF P
  <2>2. u.jtb[t] = IF Switch(w, z) /\ Last(w.inss[z]).jtb = t THEN P(w.jtb[t]) ELSE w.jtb[t]
    BY <1>2, <1>5, <1>9
  <2>3. P(P(f.jtb[t])) = P(f.jtb[t])
    BY <1>4
  <2>4. P(w.jtb[t]) = P(f.jtb[t])
    BY <2>1, <2>3
  <2> QED
    BY <2>1, <2>2, <2>4
<1>13. ASSUME NEW c \in Z \cup {z}, Switch(f, c)
       PROVE  u.jtb[Last(f.inss[c]).jtb] = P(f.jtb[Last(f.inss[c]).jtb])
  <2> DEFINE t == Last(f.inss[c]).jtb
  <2>1. c \in 1 .. N
    OBVIOUS
  <2>2. t \in J
    <3> DEFINE s == f.inss[c]
               ins == Last(s)
    <3>1. s \in Seq(Instruction(B, J)) /\ s # <<>>
      BY <1>2, <1>13, <2>1
    <3> HIDE DEF s
    <3>2. ins \in Instruction(B, J)
      BY <3>1, LastOne
    <3>3. ins.k = "switch"
      BY <1>13 DEF s
    <3> HIDE DEF ins
    <3>4. ins.jtb \in J
      BY <3>2, <3>3, InstructionFields
    <3> QED
      BY <3>4 DEF ins, s
  <2>3. CASE c \in Z
    <3>1. w.jtb[t] = P(f.jtb[t])
      BY <1>1, <1>13, <2>3
    <3> HIDE DEF P, t
    <3>2. u.jtb[t] = P(f.jtb[t])
      BY <1>12, <2>2, <3>1
    <3> QED
      BY <3>2 DEF t
  <2>4. CASE c = z
    <3>1. Kept(f, w, c)
      BY <1>1, <2>1
    <3>2. w.inss[c] = f.inss[c]
      BY <1>13, <3>1 DEF Kept
    <3>3. Switch(w, z) /\ Last(w.inss[z]).jtb = t
      BY <1>13, <2>4, <3>2
    <3> HIDE DEF P, t, Switch
    <3>4. u.jtb[t] = P(f.jtb[t])
      BY <1>12, <2>2, <3>3
    <3> QED
      BY <3>4 DEF t
  <2> QED
    BY <2>3, <2>4
<1> QED
  BY <1>7, <1>8, <1>9, <1>10, <1>11, <1>12, <1>13 DEF BypassUpto

(* What the rounds of BypassAll keep to.                                   *)
BypassStays(f, b, succ, I) ==
  \A j \in 1 .. Len(SetToSeq(ToSet(f.edge_in[b]))) : \A v \in I[j - 1] :
    Bypass(v, SetToSeq(ToSet(f.edge_in[b]))[j], b, succ) \in I[j]

(* A family of sets that its rounds lead through holds its result.         *)
LEMMA BypassLoop ==
  ASSUME NEW f, NEW b, NEW succ, Len(SetToSeq(ToSet(f.edge_in[b]))) \in Nat,
         NEW I, f \in I[0], BypassStays(f, b, succ, I)
  PROVE  BypassAll(f, b, succ) \in I[Len(SetToSeq(ToSet(f.edge_in[b])))]
<1> DEFINE base == f
           seq == SetToSeq(ToSet(f.edge_in[b]))
           n == Len(seq)
           Rnd(v, e) == Bypass(v, e, b, succ)
           F(h) == [j \in 0 .. n |->
                      IF j = 0 THEN base
                      ELSE CHOOSE end \in {Rnd(mid, seq[j]) : mid \in {h[j - 1]}} : TRUE]
           fold == CHOOSE h : h = F(h)
           A == UNION {I[j] : j \in 0 .. n}
           step == [z \in (1 .. n) \X A |-> Rnd(z[2], seq[z[1]])]
<1>0. n \in Nat /\ base \in I[0]
  OBVIOUS
<1>1. \A j \in 1 .. n : \A v \in I[j - 1] : Rnd(v, seq[j]) \in I[j]
  BY DEF BypassStays
<1> HIDE DEF Rnd, seq, n, base
<1>2. \A j \in 0 .. n : I[j] \subseteq A
  OBVIOUS
<1>3. \A j \in 1 .. n : j - 1 \in 0 .. n /\ \A v \in I[j - 1] : step[<<j, v>>] = Rnd(v, seq[j])
  <2>1. \A j \in 1 .. n : j - 1 \in 0 .. n
    BY <1>0
  <2>2. \A j \in 1 .. n : \A v \in A : step[<<j, v>>] = Rnd(v, seq[j])
    OBVIOUS
  <2> HIDE DEF step
  <2> QED
    BY <1>2, <2>1, <2>2
<1> HIDE DEF step, A
<1>4. PICK g : g \in Loops(n, I, A, base, step)
  <2>1. Rounds(n, I, step) /\ Family(n, I, A)
    BY <1>1, <1>2, <1>3 DEF Rounds, Family
  <2> QED
    BY <1>0, <2>1, Looping
<1>5. ASSUME NEW j \in 1 .. n, NEW v
      PROVE  (CHOOSE end \in {Rnd(mid, seq[j]) : mid \in {v}} : TRUE) = Rnd(v, seq[j])
  OBVIOUS
<1>6. g = F(g)
  <2>1. \A j \in 1 .. n : g[j] = Rnd(g[j - 1], seq[j])
    BY <1>3, <1>4 DEF Loops
  <2> QED
    BY <1>4, <1>5, <2>1 DEF Loops
<1>7. fold = F(fold)
  <2> HIDE DEF F
  <2> QED
    BY <1>6, Zenon
<1>8. BypassAll(f, b, succ) = fold[n]
  BY Zenon DEF BypassAll, FoldForward, Rnd, seq, n, base
<1> HIDE DEF fold
<1>9. fold[0] = base /\ \A j \in 1 .. n : fold[j] = Rnd(fold[j - 1], seq[j])
  BY <1>0, <1>5, <1>7
<1>10. \A j \in 0 .. n : fold[j] \in I[j]
  <2>1. fold[0] \in I[0]
    BY <1>0, <1>9
  <2>2. ASSUME NEW j \in 1 .. n, fold[j - 1] \in I[j - 1]
        PROVE  fold[j] \in I[j]
    BY <1>1, <1>9, <2>2
  <2> QED
    BY <1>0, <2>1, <2>2, Stays
<1>11. n \in 0 .. n
  BY <1>0
<1> QED
  BY <1>8, <1>10, <1>11 DEF n, seq

(* After the empty bbl was bypassed, edges are where they were, if to      *)
(* others.                                                                 *)
Bypassed(N, J, f, g) ==
  /\ g \in Flow(N, J) /\ Mirrored(g) /\ SwitchExact(g) /\ g.bbls = f.bbls
  /\ \A c \in 1 .. N : /\ g.inss[c] = <<>> <=> f.inss[c] = <<>>
                       /\ Len(g.edge_out[c]) = Len(f.edge_out[c])

(* All predecessors are handled: a jump table that one of their switches   *)
(* uses was patched, and any other did not mention b.                      *)
LEMMA BypassingAll ==
  ASSUME NEW N \in Nat, NEW J, NEW f \in Flow(N, J), Mirrored(f), SwitchExact(f),
         NEW b \in 1 .. N, NEW succ \in 1 .. N
  PROVE  Bypassed(N, J, f, BypassAll(f, b, succ))
<1> DEFINE preds == ToSet(f.edge_in[b])
           seq == SetToSeq(preds)
           n == Len(seq)
           Z(j) == {seq[i] : i \in 1 .. j}
           I == [j \in 0 .. n |-> {w \in Flow(N, J) : BypassUpto(N, J, f, b, succ, Z(j), w)}]
           g == BypassAll(f, b, succ)
           Ins == Instruction(1 .. N, J)
           Table1 == JumpTable(1 .. N)
           Switch(h, c) == h.inss[c] # <<>> /\ Last(h.inss[c]).k = "switch"
<1>1. /\ f.inss \in [1 .. N -> Seq(Ins)] /\ f.jtb \in [J -> Table1]
      /\ f.edge_out \in [1 .. N -> Seq(1 .. N)] /\ f.edge_in \in [1 .. N -> Seq(1 .. N)]
      /\ DOMAIN f.inss = 1 .. N
  BY DEF Flow
<1>2. preds \subseteq 1 .. N /\ IsFiniteSet(preds)
  <2>1. f.edge_in[b] \in Seq(1 .. N)
    BY <1>1
  <2>2. preds \subseteq 1 .. N
    BY <2>1, ElementOfSeq DEF ToSet
  <2>3. IsFiniteSet(1 .. N)
    BY FS_Interval
  <2> HIDE DEF preds
  <2> QED
    BY <2>2, <2>3, FS_Subset
<1>3. seq \in Seq(preds) /\ ToSet(seq) = preds
  <2> HIDE DEF preds
  <2> QED
    BY <1>2, Listing
<1> HIDE DEF seq
<1>4. n \in Nat /\ DOMAIN seq = 1 .. n /\ \A i \in 1 .. n : seq[i] \in preds
  <2> HIDE DEF preds
  <2> QED
    BY <1>3, ElementOfSeq
<1> HIDE DEF n
<1>5. f \in I[0]
  <2>1. \A i : i \notin 1 .. 0
    OBVIOUS
  <2>2. Z(0) = {}
    BY <2>1
  <2> HIDE DEF Z
  <2>3. BypassUpto(N, J, f, b, succ, Z(0), f)
    BY <1>1, <2>2 DEF BypassUpto, Kept
  <2>4. 0 \in 0 .. n
    BY <1>4
  <2> QED
    BY <2>3, <2>4
<1>6. ASSUME NEW j \in 1 .. n, NEW w \in I[j - 1]
      PROVE  Bypass(w, seq[j], b, succ) \in I[j]
  <2> DEFINE z == seq[j]
             h == Bypass(w, z, b, succ)
             Y == Z(j - 1)
  <2>1. j - 1 \in 0 .. n /\ j \in 0 .. n /\ z \in 1 .. N
    BY <1>2, <1>4
  <2>2. BypassUpto(N, J, f, b, succ, Y, w)
    BY <2>1
  <2>3. Y \subseteq 1 .. N
    <3>1. \A i \in 1 .. j - 1 : i \in 1 .. n
      BY <1>4
    <3> QED
      BY <1>2, <1>4, <3>1
  <2>4. Z(j) = Y \cup {z}
    <3>1. \A i : i \in 1 .. j <=> i \in 1 .. j - 1 \/ i = j
      BY <1>4
    <3> QED
      BY <3>1
  <2> HIDE DEF Z, Y, z
  <2>5. BypassUpto(N, J, f, b, succ, Y \cup {z}, h)
    BY <2>1, <2>2, <2>3, BypassingOne
  <2>6. h \in Flow(N, J)
    BY <2>5 DEF BypassUpto
  <2> HIDE DEF h
  <2> QED
    BY <2>1, <2>4, <2>5, <2>6 DEF h, z
<1>7. BypassStays(f, b, succ, I)
  <2> HIDE DEF I
  <2> QED
    BY <1>6 DEF BypassStays, n, seq
<1>8. BypassAll(f, b, succ) \in I[n]
  <2> HIDE DEF I
  <2> QED
    BY <1>4, <1>5, <1>7, BypassLoop DEF n, seq
<1>9. BypassUpto(N, J, f, b, succ, preds, g)
  <2>1. Z(n) = preds
    BY <1>3, <1>4 DEF ToSet
  <2>2. n \in 0 .. n
    BY <1>4
  <2>3. BypassUpto(N, J, f, b, succ, Z(n), g)
    <3> HIDE DEF Z
    <3> QED
      BY <1>8, <2>2
  <2> HIDE DEF Z, preds, g
  <2> QED
    BY <2>1, <2>3
<1> HIDE DEF g, preds, I
<1>10. /\ g \in Flow(N, J) /\ Mirrored(g) /\ g.bbls = f.bbls
       /\ \A c \in 1 .. N : g.edge_out[c] = IF c \in preds THEN ReplaceAll(f.edge_out[c], b, succ)
                                            ELSE f.edge_out[c]
       /\ \A c \in 1 .. N : Kept(f, g, c)
       /\ \A t \in J : g.jtb[t] \in {f.jtb[t], PatchedTable(f.jtb[t], b, succ)}
       /\ \A c \in preds : f.inss[c] # <<>> /\ Last(f.inss[c]).k = "switch"
                    => LET t == Last(f.inss[c]).jtb IN g.jtb[t] = PatchedTable(f.jtb[t], b, succ)
  BY <1>9 DEF BypassUpto
<1>11. \A c \in 1 .. N : g.edge_out[c] = ReplaceAll(f.edge_out[c], b, succ)
  <2>1. ASSUME NEW c \in 1 .. N, c \notin preds
        PROVE  ReplaceAll(f.edge_out[c], b, succ) = f.edge_out[c]
    <3>1. b \notin ToSet(f.edge_out[c])
      BY <2>1, Predecessors DEF preds
    <3> DEFINE s == f.edge_out[c]
    <3>2. s \in Seq(1 .. N) /\ b \notin ToSet(s)
      BY <1>1, <3>1
    <3> HIDE DEF s
    <3>3. ReplaceAll(s, b, succ) = s
      BY <3>2, ReplacingNone
    <3> QED
      BY <3>3 DEF s
  <2> QED
    BY <1>10, <2>1
<1>12. \A c \in 1 .. N : Len(g.edge_out[c]) = Len(f.edge_out[c])
  <2>1. ASSUME NEW c \in 1 .. N
        PROVE  Len(ReplaceAll(f.edge_out[c], b, succ)) = Len(f.edge_out[c])
    <3> DEFINE s == f.edge_out[c]
    <3>1. s \in Seq(1 .. N)
      BY <1>1
    <3> HIDE DEF s
    <3>2. Len(ReplaceAll(s, b, succ)) = Len(s)
      BY <3>1, CountingReplaceAll
    <3> QED
      BY <3>2 DEF s
  <2> QED
    BY <1>11, <2>1
<1>13. ASSUME NEW c \in 1 .. N, Switch(g, c)
       PROVE  g.edge_out[c] = Targets(g, c)
  <2> DEFINE s == f.inss[c]
             ins == Last(s)
             t == ins.jtb
             jt == f.jtb[t]
             p == PatchedTable(jt, b, succ)
             out == <<jt.def>> \o jt.tab
  <2>1. g.inss[c] = f.inss[c] /\ Switch(f, c)
    <3>1. Kept(f, g, c)
      BY <1>10
    <3> QED
      BY <1>13, <3>1 DEF Kept
  <2>2. t \in J
    <3>1. s \in Seq(Ins) /\ s # <<>> /\ Last(s).k = "switch"
      BY <1>1, <2>1
    <3> HIDE DEF s
    <3>2. ins \in Ins
      <4> HIDE DEF Ins
      <4> QED
        BY <3>1, LastOne
    <3> QED
      BY <3>1, <3>2, InstructionFields
  <2>3. f.edge_out[c] = out
    <3>1. f.edge_out[c] = Targets(f, c)
      BY <1>1, <2>1 DEF SwitchExact
    <3> QED
      BY <2>1, <3>1 DEF Targets, InsTargets, Inss
  <2>4. Targets(g, c) = <<g.jtb[t].def>> \o g.jtb[t].tab
    BY <1>13, <2>1 DEF Targets, InsTargets, Inss
  <2>5. <<p.def>> \o p.tab = ReplaceAll(out, b, succ)
    <3>1. jt \in JumpTable(1 .. N)
      BY <1>1, <2>2
    <3> HIDE DEF jt
    <3> QED
      BY <3>1, PatchingTable, SMTT(30)
  <2>6. g.edge_out[c] = ReplaceAll(out, b, succ)
    BY <1>11, <2>3
  <2>7. g.jtb[t] \in {jt, p} /\ (c \in preds => g.jtb[t] = p)
    <3> HIDE DEF Switch
    <3>1. g.jtb[t] \in {jt, p}
      BY <1>10, <2>2
    <3>2. ASSUME c \in preds
          PROVE  g.jtb[t] = p
      BY <1>10, <2>1, <3>2, Zenon DEF Switch
    <3> QED
      BY <3>1, <3>2
  <2>8. c \notin preds => g.edge_out[c] = out
    BY <1>10, <2>3
  <2> HIDE DEF p, out, jt, t, s
  <2> DEFINE gt == g.jtb[t]
  <2>9. CASE gt = p
    BY <2>4, <2>5, <2>6, <2>9
  <2>10. CASE gt = jt /\ c \notin preds
    <3>1. Targets(g, c) = <<jt.def>> \o jt.tab
      BY <2>4, <2>10
    <3> QED
      BY <2>8, <2>10, <3>1 DEF out
  <2> QED
    BY <2>7, <2>9, <2>10
<1>14. SwitchExact(g)
  <2>1. DOMAIN g.inss = 1 .. N
    BY <1>10 DEF Flow
  <2> QED
    BY <1>13, <2>1 DEF SwitchExact
<1>15. \A c \in 1 .. N : g.inss[c] = <<>> <=> f.inss[c] = <<>>
  BY <1>10 DEF Kept
<1>16. Bypassed(N, J, f, g)
  BY <1>10, <1>12, <1>14, <1>15 DEF Bypassed
<1> QED
  BY <1>16 DEF g

(* What the rounds of RemoveEmptyBbls keep to.                             *)
RemoveStays(f, I) ==
  \A j \in 1 .. Len(f.bbls) : \A v \in I[j - 1] : RemoveEmptyBbl(v, f.bbls[j]) \in I[j]

(* A family of sets that its rounds lead through holds its result.         *)
LEMMA RemoveLoop ==
  ASSUME NEW f, Len(f.bbls) \in Nat, NEW I, [f EXCEPT !.bbls = <<>>] \in I[0], RemoveStays(f, I)
  PROVE  RemoveEmptyBbls(f) \in I[Len(f.bbls)]
<1> DEFINE base == [f EXCEPT !.bbls = <<>>]
           seq == f.bbls
           n == Len(seq)
           Rnd(v, e) == RemoveEmptyBbl(v, e)
           F(h) == [j \in 0 .. n |->
                      IF j = 0 THEN base
                      ELSE CHOOSE end \in {Rnd(mid, seq[j]) : mid \in {h[j - 1]}} : TRUE]
           fold == CHOOSE h : h = F(h)
           A == UNION {I[j] : j \in 0 .. n}
           step == [z \in (1 .. n) \X A |-> Rnd(z[2], seq[z[1]])]
<1>0. n \in Nat /\ base \in I[0]
  OBVIOUS
<1>1. \A j \in 1 .. n : \A v \in I[j - 1] : Rnd(v, seq[j]) \in I[j]
  BY DEF RemoveStays
<1> HIDE DEF Rnd, seq, n, base
<1>2. \A j \in 0 .. n : I[j] \subseteq A
  OBVIOUS
<1>3. \A j \in 1 .. n : j - 1 \in 0 .. n /\ \A v \in I[j - 1] : step[<<j, v>>] = Rnd(v, seq[j])
  <2>1. \A j \in 1 .. n : j - 1 \in 0 .. n
    BY <1>0
  <2>2. \A j \in 1 .. n : \A v \in A : step[<<j, v>>] = Rnd(v, seq[j])
    OBVIOUS
  <2> HIDE DEF step
  <2> QED
    BY <1>2, <2>1, <2>2
<1> HIDE DEF step, A
<1>4. PICK g : g \in Loops(n, I, A, base, step)
  <2>1. Rounds(n, I, step) /\ Family(n, I, A)
    BY <1>1, <1>2, <1>3 DEF Rounds, Family
  <2> QED
    BY <1>0, <2>1, Looping
<1>5. ASSUME NEW j \in 1 .. n, NEW v
      PROVE  (CHOOSE end \in {Rnd(mid, seq[j]) : mid \in {v}} : TRUE) = Rnd(v, seq[j])
  OBVIOUS
<1>6. g = F(g)
  <2>1. \A j \in 1 .. n : g[j] = Rnd(g[j - 1], seq[j])
    BY <1>3, <1>4 DEF Loops
  <2> QED
    BY <1>4, <1>5, <2>1 DEF Loops
<1>7. fold = F(fold)
  <2> HIDE DEF F
  <2> QED
    BY <1>6, Zenon
<1>8. RemoveEmptyBbls(f) = fold[n]
  BY Zenon DEF RemoveEmptyBbls, FoldForward, Rnd, seq, n, base
<1> HIDE DEF fold
<1>9. fold[0] = base /\ \A j \in 1 .. n : fold[j] = Rnd(fold[j - 1], seq[j])
  BY <1>0, <1>5, <1>7, SMTT(30)
<1>10. \A j \in 0 .. n : fold[j] \in I[j]
  <2>1. fold[0] \in I[0]
    BY <1>0, <1>9
  <2>2. ASSUME NEW j \in 1 .. n, fold[j - 1] \in I[j - 1]
        PROVE  fold[j] \in I[j]
    BY <1>1, <1>9, <2>2
  <2> QED
    BY <1>0, <2>1, <2>2, Stays
<1>11. n \in 0 .. n
  BY <1>0
<1> QED
  BY <1>8, <1>10, <1>11 DEF n, seq

(* The first j bbls are handled, and those of them that are empty are no   *)
(* longer in the layout; every other empty bbl has a successor.            *)
RemoveUpto(N, J, f, j, g) ==
  /\ Graph(N, J, g) /\ ToSet(g.bbls) \subseteq {f.bbls[i] : i \in 1 .. j}
  /\ \A c \in 1 .. N : g.inss[c] = <<>> <=> f.inss[c] = <<>>
  /\ \A i \in j + 1 .. Len(f.bbls) :
       f.inss[f.bbls[i]] = <<>> => g.edge_out[f.bbls[i]] # <<>>

(* One more of them is handled.                                            *)
LEMMA RemovingOne ==
  ASSUME NEW N \in Nat, NEW J, NEW f, Unbranched(N, J, f),
         NEW j \in 1 .. Len(f.bbls), NEW w, RemoveUpto(N, J, f, j - 1, w)
  PROVE  RemoveUpto(N, J, f, j, RemoveEmptyBbl(w, f.bbls[j]))
<1> DEFINE n == Len(f.bbls)
           b == f.bbls[j]
           r == RemoveEmptyBbl(w, b)
           Old(m) == {f.bbls[i] : i \in 1 .. m}
<1>1. f \in Flow(N, J) /\ IsInjective(f.bbls)
  BY DEF Unbranched, Graph
<1>2. n \in Nat /\ DOMAIN f.bbls = 1 .. n /\ \A i \in 1 .. n : f.bbls[i] \in 1 .. N
  <2>1. f.bbls \in Seq(1 .. N)
    BY <1>1 DEF Flow
  <2> QED
    BY <2>1, ElementOfSeq
<1>3. /\ w \in Flow(N, J) /\ Mirrored(w) /\ IsInjective(w.bbls) /\ SwitchExact(w)
      /\ ToSet(w.bbls) \subseteq Old(j - 1)
      /\ \A c \in 1 .. N : w.inss[c] = <<>> <=> f.inss[c] = <<>>
      /\ \A i \in j .. n : f.inss[f.bbls[i]] = <<>> => w.edge_out[f.bbls[i]] # <<>>
  <2>1. (j - 1) + 1 = j
    OBVIOUS
  <2> QED
    BY <2>1 DEF RemoveUpto, Graph
<1>4. /\ w.bbls \in Seq(1 .. N) /\ w.inss \in [1 .. N -> Seq(Instruction(1 .. N, J))]
      /\ w.edge_out \in [1 .. N -> Seq(1 .. N)] /\ DOMAIN w.inss = 1 .. N
  BY <1>3 DEF Flow
<1> HIDE DEF n
<1>5. j \in 1 .. n
  BY DEF n
<1>6. b \in 1 .. N /\ b \notin Old(j - 1) /\ Old(j) = Old(j - 1) \cup {b}
  <2>1. \A i \in 1 .. j - 1 : i \in 1 .. n /\ i # j
    BY <1>2, <1>5
  <2>2. \A i : i \in 1 .. j <=> i \in 1 .. j - 1 \/ i = j
    BY <1>2, <1>5
  <2>3. b \notin Old(j - 1)
    BY <1>1, <1>2, <1>5, <2>1 DEF IsInjective
  <2> QED
    BY <1>2, <1>5, <2>2, <2>3
<1>7. \A i \in j + 1 .. n : i \in j .. n /\ i \in 1 .. n /\ f.bbls[i] # b /\ f.bbls[i] \in 1 .. N
  <2>1. \A i \in j + 1 .. n : i \in j .. n /\ i \in 1 .. n /\ i # j
    BY <1>2, <1>5
  <2> QED
    BY <1>1, <1>2, <1>5, <2>1 DEF IsInjective
<1> HIDE DEF Old, b
<1>8. CASE w.inss[b] # <<>>
  <2> DEFINE more == Append(w.bbls, b)
  <2>1. r = [w EXCEPT !.bbls = more]
    BY <1>8 DEF RemoveEmptyBbl, Inss
  <2>2. b \notin ToSet(w.bbls)
    BY <1>3, <1>6
  <2>3. more \in Seq(1 .. N) /\ ToSet(more) = ToSet(w.bbls) \cup {b} /\ IsInjective(more)
    BY <1>3, <1>4, <1>6, <2>2, Pushing
  <2> HIDE DEF r, more
  <2>4. /\ r \in Flow(N, J) /\ r.bbls = more /\ r.inss = w.inss /\ r.jtb = w.jtb
        /\ r.edge_out = w.edge_out /\ r.edge_in = w.edge_in
    BY <1>3, <2>1, <2>3 DEF Flow
  <2>5. Mirrored(r)
    BY <1>3, <2>4 DEF Mirrored
  <2>6. SwitchExact(r)
    BY <1>3, <2>4, TargetsOf DEF SwitchExact
  <2>7. Graph(N, J, r)
    BY <2>3, <2>4, <2>5, <2>6 DEF Graph
  <2>8. ToSet(r.bbls) \subseteq Old(j)
    BY <1>3, <1>6, <2>3, <2>4
  <2>9. \A i \in j + 1 .. n : f.inss[f.bbls[i]] = <<>> => r.edge_out[f.bbls[i]] # <<>>
    BY <1>3, <1>7, <2>4
  <2> QED
    BY <1>3, <2>4, <2>7, <2>8, <2>9 DEF RemoveUpto, r, n, b, Old
<1>9. CASE w.inss[b] = <<>>
  <2> DEFINE out == w.edge_out[b]
             succ == out[1]
             g == DelEdgeOut(w, b, succ)
             h == BypassAll(g, b, succ)
  <2>1. r = h
    BY <1>9 DEF RemoveEmptyBbl, Inss
  <2>2. out \in Seq(1 .. N) /\ out # <<>>
    <3>1. j \in j .. n /\ f.inss[b] = <<>>
      BY <1>2, <1>3, <1>5, <1>6, <1>9
    <3>2. out # <<>>
      BY <1>3, <3>1 DEF b
    <3> QED
      BY <1>4, <1>6, <3>2
  <2>3. succ \in 1 .. N /\ succ \in ToSet(out)
    <3> HIDE DEF out
    <3>1. 1 \in 1 .. Len(out)
      BY <2>2, LastOne
    <3> QED
      BY <2>2, <3>1, ElementOfSeq DEF ToSet
  <2> HIDE DEF r, h, g, succ
  <2>4. Deleted(N, J, w, b, succ, g)
    BY <1>3, <1>6, <2>3, Deleting DEF g
  <2>5. /\ g \in Flow(N, J) /\ Mirrored(g) /\ SameCode(w, g)
        /\ g.edge_out = [w.edge_out EXCEPT ![b] = RemoveFirst(w.edge_out[b], succ)]
    BY <2>4 DEF Deleted
  <2>6. g.bbls = w.bbls /\ g.inss = w.inss /\ g.jtb = w.jtb
    BY <2>5 DEF SameCode
  <2>7. \A c \in 1 .. N : c # b => g.edge_out[c] = w.edge_out[c]
    BY <1>4, <2>5
  <2>8. SwitchExact(g)
    <3>1. ASSUME NEW c \in 1 .. N, g.inss[c] # <<>>, Last(g.inss[c]).k = "switch"
          PROVE  g.edge_out[c] = Targets(g, c)
      <4>1. c # b
        BY <1>9, <2>6, <3>1
      <4>2. w.edge_out[c] = Targets(w, c)
        BY <1>3, <1>4, <2>6, <3>1 DEF SwitchExact
      <4> QED
        BY <2>6, <2>7, <4>1, <4>2, TargetsOf
    <3> QED
      BY <1>4, <2>6, <3>1 DEF SwitchExact
  <2>9. Bypassed(N, J, g, h)
    BY <1>6, <2>3, <2>5, <2>8, BypassingAll DEF h
  <2>10. /\ h \in Flow(N, J) /\ Mirrored(h) /\ SwitchExact(h) /\ h.bbls = g.bbls
         /\ \A c \in 1 .. N : /\ h.inss[c] = <<>> <=> g.inss[c] = <<>>
                              /\ Len(h.edge_out[c]) = Len(g.edge_out[c])
    BY <2>9 DEF Bypassed
  <2>11. Graph(N, J, h)
    BY <1>3, <2>6, <2>10 DEF Graph
  <2>12. ToSet(h.bbls) \subseteq Old(j)
    BY <1>3, <1>6, <2>6, <2>10
  <2>13. ASSUME NEW i \in j + 1 .. n, f.inss[f.bbls[i]] = <<>>
         PROVE  h.edge_out[f.bbls[i]] # <<>>
    <3> DEFINE c == f.bbls[i]
               s == w.edge_out[c]
               t == h.edge_out[c]
    <3>1. c \in 1 .. N /\ c # b /\ s # <<>>
      BY <1>3, <1>7, <2>13
    <3>2. s \in Seq(1 .. N) /\ t \in Seq(1 .. N)
      BY <1>4, <2>10, <3>1 DEF Flow
    <3>3. Len(t) = Len(s)
      BY <2>7, <2>10, <3>1
    <3> HIDE DEF s, t
    <3>4. t # <<>>
      BY <3>1, <3>2, <3>3, EmptySeq
    <3> QED
      BY <3>4 DEF t
  <2>14. \A c \in 1 .. N : h.inss[c] = <<>> <=> f.inss[c] = <<>>
    BY <1>3, <2>6, <2>10
  <2> QED
    BY <2>1, <2>11, <2>12, <2>13, <2>14 DEF RemoveUpto, r, n, b, Old
<1> QED
  BY <1>8, <1>9

(* RemoveEmptyBbls leaves a flow graph whose switches keep their edges.    *)
LEMMA RemovingAll ==
  ASSUME NEW N \in Nat, NEW J, NEW f, Unbranched(N, J, f)
  PROVE  Graph(N, J, RemoveEmptyBbls(f))
<1> DEFINE n == Len(f.bbls)
           base == [f EXCEPT !.bbls = <<>>]
           I == [j \in 0 .. n |-> {w \in Flow(N, J) : RemoveUpto(N, J, f, j, w)}]
<1>1. /\ f \in Flow(N, J) /\ Mirrored(f) /\ SwitchExact(f)
      /\ \A c \in ToSet(f.bbls) : f.inss[c] = <<>> => f.edge_out[c] # <<>>
  BY DEF Unbranched, Graph
<1>2. f.bbls \in Seq(1 .. N) /\ n \in Nat /\ DOMAIN f.bbls = 1 .. n
  BY <1>1 DEF Flow
<1> HIDE DEF n
<1>3. base \in I[0]
  <2>1. <<>> \in Seq(1 .. N)
    BY EmptySeq
  <2>2. /\ base \in Flow(N, J) /\ base.bbls = <<>> /\ base.inss = f.inss /\ base.jtb = f.jtb
        /\ base.edge_out = f.edge_out /\ base.edge_in = f.edge_in
    BY <1>1, <2>1 DEF Flow
  <2> HIDE DEF base
  <2>3. Mirrored(base)
    BY <1>1, <2>2 DEF Mirrored
  <2>4. SwitchExact(base)
    BY <1>1, <2>2, TargetsOf DEF SwitchExact
  <2>5. ToSet(<<>>) = {} /\ IsInjective(<<>>)
    BY DEF ToSet, IsInjective
  <2>6. \A i \in 0 + 1 .. n : f.bbls[i] \in ToSet(f.bbls)
    BY <1>2, SMTT(30) DEF ToSet
  <2>7. RemoveUpto(N, J, f, 0, base)
    BY <1>1, <2>2, <2>3, <2>4, <2>5, <2>6 DEF RemoveUpto, Graph, n
  <2>8. 0 \in 0 .. n
    BY <1>2
  <2> QED
    BY <2>2, <2>7, <2>8
<1>4. RemoveStays(f, I)
  <2>1. ASSUME NEW j \in 1 .. n, NEW w \in I[j - 1]
        PROVE  RemoveEmptyBbl(w, f.bbls[j]) \in I[j]
    <3> DEFINE r == RemoveEmptyBbl(w, f.bbls[j])
    <3>1. j - 1 \in 0 .. n /\ j \in 0 .. n /\ j \in 1 .. Len(f.bbls)
      BY <1>2 DEF n
    <3>2. RemoveUpto(N, J, f, j - 1, w)
      BY <3>1
    <3>3. RemoveUpto(N, J, f, j, r)
      BY <3>1, <3>2, RemovingOne
    <3>4. r \in Flow(N, J)
      BY <3>3 DEF RemoveUpto, Graph
    <3> HIDE DEF r
    <3> QED
      BY <3>1, <3>3, <3>4 DEF r
  <2> HIDE DEF I
  <2> QED
    BY <2>1 DEF RemoveStays, n
<1>5. RemoveEmptyBbls(f) \in I[Len(f.bbls)]
  <2> HIDE DEF I
  <2> QED
    BY <1>2, <1>3, <1>4, RemoveLoop DEF n
<1>6. n \in 0 .. n
  BY <1>2
<1>7. RemoveUpto(N, J, f, n, RemoveEmptyBbls(f))
  BY <1>5, <1>6 DEF n
<1> QED
  BY <1>7 DEF RemoveUpto

-----------------------------------------------------------------------------
(* What the last instruction of a bbl says of its edges.                   *)
Kind(f, b) == IF f.inss[b] = <<>> THEN "none" ELSE Last(f.inss[b]).k
Shaped(f, b) ==
  LET out == f.edge_out[b]
      ins == Last(f.inss[b])
  IN /\ Tidy(f.inss[b])
     /\ Kind(f, b) \in {"none", "plain"} => Len(out) = 1
     /\ Kind(f, b) = "cond" => Len(out) = 2 /\ ins.to \in ToSet(out)
     /\ Kind(f, b) = "bra" => out = <<ins.to>>
     /\ Kind(f, b) = "ret" => out = <<>>
     /\ Kind(f, b) = "switch" => out = Targets(f, b)

(* Edges stay within the bbls of L, or outside.                            *)
Inside(f, L) == \A b \in DOMAIN f.edge_out : \A c \in ToSet(f.edge_out[b]) : b \in L <=> c \in L

(* What FunCheckCFG lets pass.                                             *)
Checked(N, J, f) ==
  /\ f \in Flow(N, J) /\ Mirrored(f) /\ IsInjective(f.bbls) /\ Inside(f, ToSet(f.bbls))
  /\ \A b \in ToSet(f.bbls) : Shaped(f, b)

(* A bbl has one of these kinds.                                           *)
LEMMA Kinds ==
  ASSUME NEW N \in Nat, NEW J, NEW f \in Flow(N, J), NEW b \in 1 .. N
  PROVE  /\ Kind(f, b) \in {"none", "plain", "ret", "bra", "cond", "switch"}
         /\ Kind(f, b) # "none" <=> f.inss[b] # <<>>
         /\ Kind(f, b) # "none" => /\ Last(f.inss[b]) \in Instruction(1 .. N, J)
                                   /\ Kind(f, b) = Last(f.inss[b]).k
         /\ FallsThrough(f, b) <=> Kind(f, b) \in {"none", "plain", "cond"}
<1> DEFINE s == f.inss[b]
           Ins == Instruction(1 .. N, J)
           ins == Last(s)
<1>1. s \in Seq(Ins)
  BY DEF Flow
<1> HIDE DEF s, Ins
<1>2. ASSUME s # <<>>
      PROVE  ins \in Ins
  BY <1>1, <1>2, LastOne
<1>3. ASSUME s # <<>>
      PROVE  ins.k \in {"plain", "ret", "bra", "cond", "switch"}
  BY <1>2, <1>3, InstructionFields DEF Ins
<1>4. Kind(f, b) = IF s = <<>> THEN "none" ELSE ins.k
  BY DEF Kind, s
<1>5. FallsThrough(f, b) <=> s = <<>> \/ ins.k \in {"plain", "cond"}
  BY DEF FallsThrough, HasFallthrough, Inss, s
<1> HIDE DEF ins
<1>6. Kind(f, b) \in {"none", "plain", "ret", "bra", "cond", "switch"} /\ (Kind(f, b) # "none" <=> s # <<>>)
  BY <1>3, <1>4
<1>7. FallsThrough(f, b) <=> Kind(f, b) \in {"none", "plain", "cond"}
  BY <1>3, <1>4, <1>5
<1> QED
  BY <1>2, <1>4, <1>6, <1>7 DEF s, ins, Ins

(* The check accepts only bbls of that shape.                              *)
LEMMA Checking ==
  ASSUME NEW N \in Nat, NEW J, NEW f, Graph(N, J, f), FunCheckCFG(f, FALSE)
  PROVE  Checked(N, J, f)
<1>1. f \in Flow(N, J) /\ Mirrored(f) /\ IsInjective(f.bbls) /\ SwitchExact(f)
  BY DEF Graph
<1>2. /\ f.bbls \in Seq(1 .. N) /\ f.edge_out \in [1 .. N -> Seq(1 .. N)]
      /\ f.inss \in [1 .. N -> Seq(Instruction(1 .. N, J))] /\ DOMAIN f.inss = 1 .. N
  BY <1>1 DEF Flow
<1>3. /\ \A b \in ToSet(f.bbls) : \A n \in 1 .. Len(Inss(f, b)) - 1 : ~IsTerminator(Inss(f, b)[n])
      /\ \A n \in DOMAIN f.bbls : LastInsOK(f, n, FALSE)
  BY DEF FunCheckCFG
<1>4. ASSUME NEW b \in ToSet(f.bbls)
      PROVE  Shaped(f, b)
  <2> DEFINE out == f.edge_out[b]
             ins == Last(f.inss[b])
             kind == Kind(f, b)
  <2>1. PICK n \in DOMAIN f.bbls : f.bbls[n] = b
    BY DEF ToSet
  <2>2. b \in 1 .. N
    BY <1>2, <2>1, SMTT(30)
  <2>3. /\ kind = "cond" => Len(out) = 2 /\ Contains(out, ins.to)
        /\ kind = "bra" => Len(out) = 1 /\ out[1] = ins.to
        /\ kind = "ret" => out = <<>>
        /\ kind \in {"none", "plain"} => Len(out) = 1
    <3>1. LastInsOK(f, n, FALSE)
      BY <1>3, <2>1
    <3> QED
      BY <2>1, <3>1 DEF LastInsOK, Kind, Inss
  <2>4. out \in Seq(1 .. N)
    BY <1>2, <2>2
  <2>5. Tidy(f.inss[b])
    BY <1>3 DEF Tidy, Inss
  <2>6. kind = "switch" => out = Targets(f, b)
    <3>1. kind = "switch" => f.inss[b] # <<>> /\ ins.k = "switch"
      BY DEF Kind
    <3> QED
      BY <1>1, <1>2, <2>2, <3>1 DEF SwitchExact
  <2> DEFINE to == ins.to
  <2> HIDE DEF to
  <2>7. kind = "cond" => to \in ToSet(out)
    <3> HIDE DEF out, kind
    <3> QED
      BY <2>3, <2>4, Containing DEF to
  <2>8. kind = "bra" => out = <<to>>
    <3> HIDE DEF out, kind
    <3> QED
      BY <2>3, <2>4 DEF to
  <2> QED
    BY <2>3, <2>5, <2>6, <2>7, <2>8 DEF Shaped, to
<1>5. Inside(f, ToSet(f.bbls))
  <2> DEFINE L == ToSet(f.bbls)
  <2> SUFFICES ASSUME NEW b \in DOMAIN f.edge_out, NEW c \in ToSet(f.edge_out[b])
               PROVE  b \in L <=> c \in L
    BY DEF Inside
  <2>1. EdgesStayInside(f)
    BY DEF FunCheckCFG
  <2>2. b \in 1 .. N /\ f.edge_out[b] \in Seq(1 .. N)
    BY <1>2
  <2>3. c \in 1 .. N
    BY <2>2, ElementOfSeq DEF ToSet
  <2>4. b \in ToSet(f.edge_in[c])
    BY <1>1, <2>2, <2>3, Predecessors
  <2> HIDE DEF L
  <2>5. /\ b \in L => ToSet(f.edge_out[b]) \subseteq L
        /\ c \in L => ToSet(f.edge_in[c]) \subseteq L
    BY <2>1 DEF EdgesStayInside, L
  <2> QED
    BY <2>4, <2>5
<1> QED
  BY <1>1, <1>4, <1>5 DEF Checked

(* Nothing but the first x goes.                                           *)
LEMMA RemovingLess ==
  ASSUME NEW S, NEW s \in Seq(S), NEW x, x \in ToSet(s)
  PROVE  ToSet(RemoveFirst(s, x)) \subseteq ToSet(s)
<1> DEFINE t == RemoveFirst(s, x)
<1>1. ASSUME NEW e \in ToSet(t)
      PROVE  e \in ToSet(s)
  <2>1. t \in Seq(S) /\ Times(t, e) = Times(s, e) - IF x = e THEN 1 ELSE 0
    BY CountingRemoveFirst
  <2> HIDE DEF t
  <2>2. Times(t, e) \in Nat /\ Times(t, e) # 0
    BY <1>1, <2>1, Counting
  <2>3. Times(s, e) \in Nat /\ (Times(s, e) = 0 <=> e \notin ToSet(s))
    BY Counting
  <2>4. Times(s, e) # 0
    BY <2>1, <2>2, <2>3
  <2> QED
    BY <2>3, <2>4
<1> QED
  BY <1>1

(* A sequence without the element at one place.                            *)
LEMMA RemovingAt ==
  ASSUME NEW S, NEW s \in Seq(S), NEW n \in 1 .. Len(s)
  PROVE  /\ RemoveAt(s, n) \in Seq(S) /\ Len(RemoveAt(s, n)) = Len(s) - 1
         /\ \A i \in 1 .. Len(s) - 1 : RemoveAt(s, n)[i] = IF i < n THEN s[i] ELSE s[i + 1]
<1> DEFINE m == Len(s)
           front == SubSeq(s, 1, n - 1)
           back == SubSeq(s, n + 1, m)
           t == front \o back
<1>1. m \in Nat /\ n \in 1 .. m
  OBVIOUS
<1>2. front \in Seq(S) /\ Len(front) = n - 1 /\ \A i \in 1 .. n - 1 : front[i] = s[i]
  BY <1>1
<1>3. back \in Seq(S) /\ Len(back) = m - n /\ \A i \in 1 .. m - n : back[i] = s[n + i]
  BY <1>1
<1>4. RemoveAt(s, n) = t
  BY DEF RemoveAt
<1> HIDE DEF front, back, m
<1>5. /\ t \in Seq(S) /\ Len(t) = Len(front) + Len(back)
      /\ \A i \in 1 .. Len(front) + Len(back) :
           t[i] = IF i <= Len(front) THEN front[i] ELSE back[i - Len(front)]
  BY <1>2, <1>3, ConcatProperties
<1> HIDE DEF t
<1>6. \A i \in 1 .. m - 1 : t[i] = IF i < n THEN s[i] ELSE s[i + 1]
  <2>1. ASSUME NEW i \in 1 .. m - 1
        PROVE  t[i] = IF i < n THEN s[i] ELSE s[i + 1]
    <3>1. CASE i < n
      <4>1. i \in 1 .. n - 1 /\ i <= Len(front) /\ i \in 1 .. Len(front) + Len(back)
        BY <1>1, <1>2, <1>3, <3>1
      <4> QED
        BY <1>2, <1>5, <3>1, <4>1
    <3>2. CASE ~(i < n)
      <4>1. i - Len(front) \in 1 .. m - n /\ ~(i <= Len(front)) /\ i \in 1 .. Len(front) + Len(back)
            /\ n + (i - Len(front)) = i + 1
        BY <1>1, <1>2, <1>3, <3>2
      <4> QED
        BY <1>3, <1>5, <3>2, <4>1
    <3> QED
      BY <3>1, <3>2
  <2> QED
    BY <2>1
<1>7. Len(t) = m - 1
  BY <1>1, <1>2, <1>3, <1>5
<1> QED
  BY <1>4, <1>5, <1>6, <1>7 DEF m

(* Where edges lead is a matter of the edges.                              *)
LEMMA InsideSame ==
  ASSUME NEW f, NEW g, g.edge_out = f.edge_out, NEW L, Inside(f, L)
  PROVE  Inside(g, L)
BY DEF Inside

(* The shape of a bbl is a matter of its instructions and edges.           *)
LEMMA SameShape ==
  ASSUME NEW f, NEW g, NEW b, g.inss[b] = f.inss[b], g.edge_out[b] = f.edge_out[b],
         g.jtb = f.jtb, Shaped(f, b)
  PROVE  Shaped(g, b)
<1>1. Targets(g, b) = Targets(f, b)
  BY TargetsOf
<1>2. Kind(g, b) = Kind(f, b)
  BY DEF Kind
<1> QED
  BY <1>1, <1>2 DEF Shaped

(* An instruction that is no terminator is plain.                          *)
LEMMA PlainOne ==
  ASSUME NEW B, NEW J, NEW s \in Seq(Instruction(B, J)), NEW i \in 1 .. Len(s), ~IsTerminator(s[i])
  PROVE  s[i].k = "plain"
<1> DEFINE ins == s[i]
<1>1. ins \in Instruction(B, J)
  BY ElementOfSeq
<1> HIDE DEF ins
<1>2. ins.k \in {"plain", "ret", "bra", "cond", "switch"}
  BY <1>1, InstructionFields
<1>3. ~IsTerminator(ins)
  BY DEF ins
<1>4. ins.k = "plain"
  BY <1>2, <1>3 DEF IsTerminator
<1> QED
  BY <1>4 DEF ins

(* A useless instruction goes: what was the last but one may be the last   *)
(* one then, and is no terminator.                                         *)
LEMMA DroppingIns ==
  ASSUME NEW N \in Nat, NEW J, NEW f, Checked(N, J, f), NEW b \in ToSet(f.bbls),
         NEW n \in DOMAIN f.inss[b], f.inss[b][n].k = "plain",
         NEW g, g = [f EXCEPT !.inss[b] = RemoveAt(@, n)]
  PROVE  Checked(N, J, g)
<1> DEFINE Ins == Instruction(1 .. N, J)
           s == f.inss[b]
           t == RemoveAt(s, n)
           m == Len(s)
<1>1. f \in Flow(N, J) /\ Mirrored(f) /\ IsInjective(f.bbls) /\ \A c \in ToSet(f.bbls) : Shaped(f, c)
  BY DEF Checked
<1>2. /\ f.bbls \in Seq(1 .. N) /\ f.inss \in [1 .. N -> Seq(Ins)] /\ DOMAIN f.inss = 1 .. N
      /\ \A c \in ToSet(f.bbls) : c \in 1 .. N
  <2>1. f.bbls \in Seq(1 .. N) /\ f.inss \in [1 .. N -> Seq(Ins)]
    BY <1>1 DEF Flow
  <2>2. \A c \in ToSet(f.bbls) : c \in 1 .. N
    BY <2>1, ElementOfSeq DEF ToSet
  <2> QED
    BY <2>1, <2>2
<1> HIDE DEF Ins
<1>3. s \in Seq(Ins) /\ m \in Nat /\ n \in 1 .. m /\ Tidy(s) /\ s[n].k = "plain" /\ b \in 1 .. N
  <2>1. s \in Seq(Ins)
    BY <1>2
  <2>2. Tidy(s)
    BY <1>1 DEF Shaped
  <2>3. DOMAIN s = 1 .. m /\ m \in Nat
    <3> HIDE DEF s
    <3> QED
      BY <2>1
  <2> QED
    BY <1>2, <2>1, <2>2, <2>3
<1>4. t \in Seq(Ins) /\ Len(t) = m - 1 /\ \A i \in 1 .. m - 1 : t[i] = IF i < n THEN s[i] ELSE s[i + 1]
  <2> HIDE DEF s, m
  <2> QED
    BY <1>3, RemovingAt DEF m
<1> HIDE DEF t
<1>5. /\ g \in Flow(N, J) /\ g.inss = [f.inss EXCEPT ![b] = t] /\ g.bbls = f.bbls /\ g.jtb = f.jtb
      /\ g.edge_out = f.edge_out /\ g.edge_in = f.edge_in
  <2>1. g = [f EXCEPT !.inss = [f.inss EXCEPT ![b] = t]]
    BY DEF t
  <2>2. [f.inss EXCEPT ![b] = t] \in [1 .. N -> Seq(Ins)]
    BY <1>2, <1>4
  <2> QED
    BY <1>1, <2>1, <2>2 DEF Flow, Ins
<1>6. DOMAIN g.inss = 1 .. N /\ g.inss[b] = t /\ \A c \in 1 .. N : c # b => g.inss[c] = f.inss[c]
  BY <1>2, <1>3, <1>5
<1>7. Mirrored(g)
  <2>1. DOMAIN g.inss = DOMAIN f.inss
    BY <1>2, <1>6
  <2> QED
    BY <1>1, <1>5, <2>1 DEF Mirrored
<1>8. m > 1 => Last(t) = t[m - 1] /\ m - 1 \in 1 .. m - 1 /\ t # <<>>
  <2>1. Last(t) = t[m - 1]
    BY <1>4 DEF Last
  <2> HIDE DEF m
  <2> QED
    BY <1>3, <1>4, <2>1, EmptySeq
<1>9. m = 1 => t = <<>>
  BY <1>4, EmptySeq
<1>10. s # <<>> /\ Last(s) = s[m]
  BY <1>3, EmptySeq DEF Last
<1> HIDE DEF s, m
<1>11. Tidy(t)
  <2>1. ASSUME NEW i \in 1 .. (m - 1) - 1
        PROVE  ~IsTerminator(t[i])
    <3>1. i \in 1 .. m - 1 /\ i + 1 \in 1 .. m - 1
      BY <1>3
    <3> QED
      BY <1>3, <1>4, <3>1 DEF Tidy, m
  <2> QED
    BY <1>4, <2>1 DEF Tidy
<1>12. Kind(f, b) = Last(s).k
  BY <1>10 DEF Kind, s
<1>13. n < m => Kind(g, b) = Kind(f, b) /\ Last(t) = Last(s)
  <2>1. ASSUME n < m
        PROVE  t # <<>> /\ Last(t) = Last(s)
    <3>1. m > 1 /\ ~(m - 1 < n) /\ (m - 1) + 1 = m
      BY <1>3, <2>1
    <3> QED
      BY <1>4, <1>8, <1>10, <3>1
  <2> QED
    BY <1>6, <1>12, <2>1 DEF Kind
<1>14. n = m => Kind(f, b) = "plain" /\ Kind(g, b) \in {"none", "plain"}
  <2>1. ASSUME n = m
        PROVE  Kind(f, b) = "plain"
    BY <1>3, <1>10, <1>12, <2>1
  <2>2. ASSUME n = m, m > 1
        PROVE  Kind(g, b) = "plain"
    <3>1. m - 1 \in 1 .. m - 1 /\ m - 1 < n /\ m - 1 \in 1 .. m
      BY <1>3, <2>2
    <3>2. Last(t) = s[m - 1] /\ ~IsTerminator(s[m - 1])
      BY <1>3, <1>4, <1>8, <2>2, <3>1 DEF Tidy, m
    <3>3. s[m - 1].k = "plain"
      <4>1. m - 1 \in 1 .. Len(s)
        BY <3>1 DEF m
      <4>2. s \in Seq(Instruction(1 .. N, J))
        BY <1>3 DEF Ins
      <4> DEFINE i == m - 1
      <4>3. i \in 1 .. Len(s) /\ ~IsTerminator(s[i])
        BY <3>2, <4>1
      <4> HIDE DEF i
      <4>4. s[i].k = "plain"
        BY <4>2, <4>3, PlainOne
      <4> QED
        BY <4>4 DEF i
    <3> QED
      BY <1>6, <1>8, <2>2, <3>2, <3>3 DEF Kind
  <2>3. ASSUME m = 1
        PROVE  Kind(g, b) = "none"
    BY <1>6, <1>9, <2>3 DEF Kind
  <2>4. m = 1 \/ m > 1
    BY <1>3
  <2> QED
    BY <2>1, <2>2, <2>3, <2>4
<1>15. Shaped(g, b)
  <2>1. Shaped(f, b)
    BY <1>1
  <2>2. CASE n < m
    <3>1. Kind(f, b) = "switch" => Targets(g, b) = Targets(f, b)
      <4>1. f.inss[b] # <<>> /\ g.inss[b] # <<>>
        BY <1>3, <1>6, <1>8, <1>10, <2>2 DEF s
      <4>2. Last(g.inss[b]) = Last(f.inss[b])
        BY <1>6, <1>13, <2>2 DEF s
      <4>3. \A x : InsTargets(g, x) = InsTargets(f, x)
        BY <1>5 DEF InsTargets
      <4> QED
        BY <4>1, <4>2, <4>3 DEF Targets, Inss
    <3>2. Last(g.inss[b]) = Last(f.inss[b]) /\ Kind(g, b) = Kind(f, b) /\ g.edge_out[b] = f.edge_out[b]
      BY <1>5, <1>6, <1>13, <2>2 DEF s
    <3> QED
      BY <1>6, <1>11, <2>1, <3>1, <3>2 DEF Shaped
  <2>3. CASE n = m
    <3>1. Len(g.edge_out[b]) = 1
      BY <1>5, <1>14, <2>1, <2>3 DEF Shaped
    <3> QED
      BY <1>6, <1>11, <1>14, <2>3, <3>1 DEF Shaped
  <2> QED
    BY <1>3, <2>2, <2>3
<1>16. ASSUME NEW c \in ToSet(g.bbls)
       PROVE  Shaped(g, c)
  <2>1. c \in 1 .. N /\ c \in ToSet(f.bbls)
    BY <1>2, <1>5
  <2>2. CASE c = b
    BY <1>15, <2>2
  <2>3. CASE c # b
    BY <1>1, <1>5, <1>6, <2>1, <2>3, SameShape
  <2> QED
    BY <2>2, <2>3
<1> QED
  <2>1. Inside(g, ToSet(g.bbls))
    BY <1>5, InsideSame DEF Checked
  <2> QED
    BY <1>1, <1>5, <1>7, <1>16, <2>1 DEF Checked

(* A branch on constants goes, with one of its two edges.                  *)
LEMMA FoldingBra ==
  ASSUME NEW N \in Nat, NEW J, NEW f, Checked(N, J, f), NEW b \in ToSet(f.bbls),
         f.inss[b] # <<>>, Last(f.inss[b]).k = "cond", NEW drop, drop \in ToSet(f.edge_out[b]),
         NEW g, g = DelEdgeOut([f EXCEPT !.inss[b] = Front(@)], b, drop)
  PROVE  Checked(N, J, g)
<1> DEFINE Ins == Instruction(1 .. N, J)
           s == f.inss[b]
           t == Front(s)
           w == [f EXCEPT !.inss[b] = Front(@)]
<1>1. f \in Flow(N, J) /\ Mirrored(f) /\ IsInjective(f.bbls) /\ \A c \in ToSet(f.bbls) : Shaped(f, c)
  BY DEF Checked
<1>2. /\ f.bbls \in Seq(1 .. N) /\ f.inss \in [1 .. N -> Seq(Ins)] /\ DOMAIN f.inss = 1 .. N
      /\ f.edge_out \in [1 .. N -> Seq(1 .. N)] /\ \A c \in ToSet(f.bbls) : c \in 1 .. N
  <2>1. f.bbls \in Seq(1 .. N) /\ f.inss \in [1 .. N -> Seq(Ins)] /\ f.edge_out \in [1 .. N -> Seq(1 .. N)]
    BY <1>1 DEF Flow
  <2>2. \A c \in ToSet(f.bbls) : c \in 1 .. N
    BY <2>1, ElementOfSeq DEF ToSet
  <2> QED
    BY <2>1, <2>2
<1> HIDE DEF Ins
<1>3. s \in Seq(Ins) /\ s # <<>> /\ b \in 1 .. N /\ Tidy(s) /\ drop \in 1 .. N
  <2>1. f.edge_out[b] \in Seq(1 .. N)
    BY <1>2
  <2>2. drop \in 1 .. N
    BY <2>1, ElementOfSeq DEF ToSet
  <2> QED
    BY <1>1, <1>2, <2>2 DEF Shaped
<1> HIDE DEF s
<1>4. t \in Seq(Ins) /\ Len(t) = Len(s) - 1 /\ Len(s) \in Nat \ {0}
  BY <1>3, LastOne, Popping
<1>5. \A i \in 1 .. Len(s) - 1 : t[i] = s[i]
  BY <1>3 DEF Front
<1> HIDE DEF t
<1>6. /\ w \in Flow(N, J) /\ w.inss = [f.inss EXCEPT ![b] = t] /\ w.bbls = f.bbls /\ w.jtb = f.jtb
      /\ w.edge_out = f.edge_out /\ w.edge_in = f.edge_in
  <2>1. w = [f EXCEPT !.inss = [f.inss EXCEPT ![b] = t]]
    BY DEF t, s
  <2>2. [f.inss EXCEPT ![b] = t] \in [1 .. N -> Seq(Ins)]
    BY <1>2, <1>4
  <2> HIDE DEF w
  <2> QED
    BY <1>1, <2>1, <2>2 DEF Flow, Ins
<1> HIDE DEF w
<1>7. DOMAIN w.inss = 1 .. N /\ w.inss[b] = t /\ \A c \in 1 .. N : c # b => w.inss[c] = f.inss[c]
  BY <1>2, <1>3, <1>6
<1>8. Mirrored(w)
  BY <1>1, <1>2, <1>6, <1>7, ZenonT(30) DEF Mirrored
<1>9. g = DelEdgeOut(w, b, drop)
  BY DEF w
<1>10. Deleted(N, J, w, b, drop, g)
  BY <1>3, <1>6, <1>8, <1>9, Deleting
<1>11. /\ g \in Flow(N, J) /\ Mirrored(g) /\ g.bbls = f.bbls /\ g.inss = w.inss /\ g.jtb = f.jtb
       /\ \A c \in 1 .. N : c # b => g.edge_out[c] = f.edge_out[c]
       /\ Len(g.edge_out[b]) = Len(f.edge_out[b]) - 1
  BY <1>2, <1>6, <1>10 DEF Deleted, SameCode
<1>12. Len(f.edge_out[b]) = 2
  <2>1. Shaped(f, b) /\ Kind(f, b) = "cond"
    BY <1>1 DEF Kind
  <2> QED
    BY <2>1 DEF Shaped
<1>13. Tidy(t)
  <2>1. \A i \in 1 .. Len(t) - 1 : i \in 1 .. Len(s) - 1
    BY <1>4
  <2> QED
    BY <1>3, <1>5, <2>1 DEF Tidy
<1>14. Kind(g, b) \in {"none", "plain"}
  <2>1. g.inss[b] = t
    BY <1>7, <1>11
  <2>2. CASE t = <<>>
    BY <2>1, <2>2 DEF Kind
  <2>3. CASE t # <<>>
    <3>1. Last(t) = t[Len(t)] /\ Len(t) \in Nat \ {0}
      BY <1>4, <2>3, LastOne
    <3> DEFINE i == Len(s) - 1
    <3>2. i \in 1 .. i /\ i \in 1 .. Len(s) /\ Len(t) = i
      BY <1>4, <3>1
    <3>3. Last(t) = s[i]
      BY <1>5, <3>1, <3>2
    <3>4. ~IsTerminator(s[i])
      BY <1>3, <3>2 DEF Tidy
    <3> HIDE DEF i
    <3>5. s[i].k = "plain"
      BY <1>3, <3>2, <3>4, PlainOne DEF Ins
    <3> QED
      BY <2>1, <2>3, <3>3, <3>5 DEF Kind
  <2> QED
    BY <2>2, <2>3
<1>15. Shaped(g, b)
  <2>1. Len(g.edge_out[b]) = 1
    BY <1>11, <1>12
  <2> QED
    BY <1>7, <1>11, <1>13, <1>14, <2>1 DEF Shaped
<1>16. ASSUME NEW c \in ToSet(g.bbls)
       PROVE  Shaped(g, c)
  <2>1. c \in 1 .. N /\ c \in ToSet(f.bbls)
    BY <1>2, <1>11
  <2>2. CASE c = b
    BY <1>15, <2>2
  <2>3. CASE c # b
    BY <1>1, <1>7, <1>11, <2>1, <2>3, SameShape
  <2> QED
    BY <2>2, <2>3
<1> QED
  <2> DEFINE L == ToSet(f.bbls)
             x == f.edge_out[b]
             y == RemoveFirst(x, drop)
  <2>1. x \in Seq(1 .. N) /\ DOMAIN f.edge_out = 1 .. N
    BY <1>2, <1>3
  <2>2. g.edge_out = [f.edge_out EXCEPT ![b] = y]
    BY <1>6, <1>10 DEF Deleted
  <2>3. drop \in ToSet(x)
    OBVIOUS
  <2> HIDE DEF x
  <2>4. ToSet(y) \subseteq ToSet(x)
    BY <2>1, <2>3, RemovingLess
  <2> HIDE DEF L, y
  <2>5. Inside(f, L)
    BY DEF Checked, L
  <2>6. DOMAIN g.edge_out = DOMAIN f.edge_out /\ \A c \in DOMAIN f.edge_out : ToSet(g.edge_out[c]) \subseteq ToSet(f.edge_out[c])
    BY <1>3, <2>1, <2>2, <2>4 DEF x
  <2>7. Inside(g, L)
    BY <2>5, <2>6 DEF Inside
  <2> QED
    BY <1>1, <1>11, <1>16, <2>7 DEF Checked, L

-----------------------------------------------------------------------------
(* The edges of b are its targets, and one to the bbl that comes next.     *)
Ways(f, b, next) ==
  IF FallsThrough(f, b) /\ next # {} THEN Targets(f, b) \o SetToSeq(next) ELSE Targets(f, b)
Fits(f, b, next) == ToBag(f.edge_out[b]) = ToBag(Ways(f, b, next))

(* Sequences with the same elements as often make the same bag.            *)
LEMMA SameBag ==
  ASSUME NEW S, NEW s \in Seq(S), NEW t \in Seq(S), \A e : Times(s, e) = Times(t, e)
  PROVE  ToBag(s) = ToBag(t)
<1>1. \A u : ToBag(u) = [e \in Range(u) |-> Times(u, e)]
  BY DEF ToBag, Times
<1>2. \A e : (e \in Range(s) <=> Times(s, e) # 0) /\ (e \in Range(t) <=> Times(t, e) # 0)
  <2>1. Range(s) = ToSet(s) /\ Range(t) = ToSet(t)
    BY DEF Range, ToSet
  <2>2. \A e : Times(s, e) = 0 <=> e \notin ToSet(s)
    BY Counting
  <2>3. \A e : Times(t, e) = 0 <=> e \notin ToSet(t)
    BY Counting
  <2> QED
    BY <2>1, <2>2, <2>3
<1>3. Range(s) = Range(t)
  BY <1>2
<1>4. [e \in Range(s) |-> Times(s, e)] = [e \in Range(t) |-> Times(t, e)]
  BY <1>3
<1> QED
  BY <1>1, <1>4

(* A set of one element in a row.                                          *)
LEMMA ListingOne ==
  ASSUME NEW x
  PROVE  SetToSeq({x}) = <<x>>
<1> DEFINE s == SetToSeq({x})
<1>1. Cardinality({x}) = 1
  BY FS_Singleton
<1>2. s = CHOOSE h \in [1 .. 1 -> {x}] : IsInjective(h)
  BY <1>1 DEF SetToSeq
<1>3. <<x>> \in [1 .. 1 -> {x}] /\ IsInjective(<<x>>)
  BY DEF IsInjective
<1>4. s \in [1 .. 1 -> {x}]
  BY <1>2, <1>3
<1> HIDE DEF s
<1>5. s \in Seq({x}) /\ Len(s) = 1 /\ s[1] = x
  <2>1. s \in Seq({x}) /\ Len(s) = 1
    BY <1>4, TableIsSeq
  <2>2. 1 \in 1 .. 1
    OBVIOUS
  <2>3. s[1] \in {x}
    BY <1>4, <2>2
  <2> QED
    BY <2>1, <2>3
<1>6. s = <<x>>
  BY <1>5
<1> QED
  BY <1>6 DEF s

(* A bbl that nothing is fallen into from has the edges of its targets.    *)
LEMMA FitsAny ==
  ASSUME NEW N \in Nat, NEW J, NEW f \in Flow(N, J), NEW b \in 1 .. N, Shaped(f, b),
         ~FallsThrough(f, b), NEW next
  PROVE  Fits(f, b, next)
<1> DEFINE ins == Last(f.inss[b])
<1>1. /\ Kind(f, b) \in {"ret", "bra", "switch"} /\ f.inss[b] # <<>> /\ Kind(f, b) = ins.k
  BY Kinds
<1>2. f.edge_out[b] = Targets(f, b)
  <2> HIDE DEF ins
  <2>1. Targets(f, b) = InsTargets(f, ins)
    BY <1>1 DEF Targets, Inss, ins
  <2>2. CASE ins.k = "ret"
    BY <1>1, <2>1, <2>2 DEF Shaped, InsTargets
  <2>3. CASE ins.k = "bra"
    BY <1>1, <2>1, <2>3 DEF Shaped, InsTargets, ins
  <2>4. CASE ins.k = "switch"
    BY <1>1, <2>4 DEF Shaped
  <2> QED
    BY <1>1, <2>2, <2>3, <2>4
<1> QED
  BY <1>2 DEF Fits, Ways

(* A bbl without a terminator has one edge.                                *)
LEMMA FitsNext ==
  ASSUME NEW f, NEW b, f.inss[b] = <<>> \/ Last(f.inss[b]).k = "plain",
         NEW x, f.edge_out[b] = <<x>>
  PROVE  Fits(f, b, {x})
<1>1. FallsThrough(f, b)
  BY DEF FallsThrough, HasFallthrough, Inss
<1>2. Targets(f, b) = <<>>
  BY DEF Targets, InsTargets, Inss
<1>3. Ways(f, b, {x}) = <<>> \o <<x>>
  <2>1. {x} # {}
    OBVIOUS
  <2> QED
    BY <1>1, <1>2, <2>1, ListingOne DEF Ways
<1>4. <<>> \o <<x>> = <<x>>
  OBVIOUS
<1> QED
  BY <1>3, <1>4 DEF Fits

(* A conditional branch has two, in either order.                          *)
LEMMA FitsCond ==
  ASSUME NEW S, NEW f, NEW b, f.inss[b] # <<>>, Last(f.inss[b]).k = "cond",
         NEW to \in S, to = Last(f.inss[b]).to, NEW x \in S, f.edge_out[b] \in Seq(S),
         \A e : Times(f.edge_out[b], e) = Times(<<to>>, e) + Times(<<x>>, e)
  PROVE  Fits(f, b, {x})
<1>1. FallsThrough(f, b)
  BY DEF FallsThrough, HasFallthrough, Inss
<1>2. Targets(f, b) = <<to>>
  BY DEF Targets, InsTargets, Inss
<1>3. Ways(f, b, {x}) = <<to>> \o <<x>>
  <2>1. {x} # {}
    OBVIOUS
  <2> QED
    BY <1>1, <1>2, <2>1, ListingOne DEF Ways
<1> DEFINE p == <<to>>
           q == <<x>>
           w == p \o q
<1>4. p \in Seq(S) /\ q \in Seq(S)
  OBVIOUS
<1> HIDE DEF p, q
<1>5. w \in Seq(S) /\ \A e : Times(w, e) = Times(p, e) + Times(q, e)
  BY <1>4, CountingBoth, ConcatProperties
<1>6. \A e : Times(f.edge_out[b], e) = Times(w, e)
  BY <1>5 DEF p, q
<1> DEFINE out == f.edge_out[b]
<1> HIDE DEF w, out
<1>7. out \in Seq(S) /\ \A e : Times(out, e) = Times(w, e)
  BY <1>6 DEF out
<1>8. ToBag(out) = ToBag(w)
  BY <1>5, <1>7, SameBag
<1> QED
  BY <1>3, <1>8 DEF Fits, w, p, q, out

(* While the branches are removed, what is left of the edges without the   *)
(* target of the last instruction is the way on.                           *)
LEMMA ChecksFit ==
  ASSUME NEW N \in Nat, NEW J, NEW f, Checked(N, J, f), NEW b \in ToSet(f.bbls)
  PROVE  Fits(f, b, Fall(f, FALSE, b))
<1> DEFINE out == f.edge_out[b]
           ins == Last(f.inss[b])
           to == ins.to
           next == Fall(f, FALSE, b)
<1>1. f \in Flow(N, J) /\ Shaped(f, b)
  BY DEF Checked
<1>2. b \in 1 .. N /\ out \in Seq(1 .. N)
  <2>1. f.bbls \in Seq(1 .. N) /\ f.edge_out \in [1 .. N -> Seq(1 .. N)]
    BY <1>1 DEF Flow
  <2>2. b \in 1 .. N
    BY <2>1, ElementOfSeq DEF ToSet
  <2> QED
    BY <2>1, <2>2
<1>3. /\ Kind(f, b) \in {"none", "plain", "ret", "bra", "cond", "switch"}
      /\ Kind(f, b) # "none" <=> f.inss[b] # <<>>
      /\ Kind(f, b) # "none" => ins \in Instruction(1 .. N, J) /\ Kind(f, b) = ins.k
      /\ FallsThrough(f, b) <=> Kind(f, b) \in {"none", "plain", "cond"}
  BY <1>1, <1>2, Kinds
<1>4. CASE Kind(f, b) \in {"ret", "bra", "switch"}
  <2> HIDE DEF next
  <2>1. ~FallsThrough(f, b)
    BY <1>3, <1>4
  <2>2. Fits(f, b, next)
    BY <1>1, <1>2, <2>1, FitsAny
  <2> QED
    BY <2>2 DEF next
<1>5. CASE Kind(f, b) \in {"none", "plain"}
  <2>1. Len(out) = 1
    BY <1>1, <1>5 DEF Shaped
  <2> DEFINE x == out[1]
  <2> HIDE DEF out
  <2>2. out = <<x>> /\ ToSet(out) = {x}
    <3>1. out = <<x>>
      BY <1>2, <2>1
    <3> HIDE DEF x
    <3>2. ToSet(<<x>>) = {x}
      BY DEF ToSet
    <3> QED
      BY <3>1, <3>2
  <2>3. next = ToSet(out)
    BY <2>1 DEF Fall, out
  <2>4. f.inss[b] = <<>> \/ Last(f.inss[b]).k = "plain"
    BY <1>3, <1>5
  <2> HIDE DEF x, next
  <2>5. Fits(f, b, {x})
    BY <2>2, <2>4, FitsNext DEF out
  <2> QED
    BY <2>2, <2>3, <2>5 DEF next
<1>6. CASE Kind(f, b) = "cond"
  <2>1. Len(out) = 2 /\ to \in ToSet(out) /\ f.inss[b] # <<>> /\ ins.k = "cond"
    BY <1>1, <1>3, <1>6 DEF Shaped
  <2>2. to \in 1 .. N
    <3> HIDE DEF ins
    <3> QED
      BY <1>3, <1>6, InstructionFields
  <2>3. Targets(f, b) = <<to>>
    BY <2>1 DEF Targets, InsTargets, Inss
  <2> HIDE DEF out, to
  <2> DEFINE r == RemoveFirst(out, to)
             x == r[1]
  <2>4. r \in Seq(1 .. N) /\ Len(r) = Len(out) - 1
        /\ \A e : Times(r, e) = Times(out, e) - IF to = e THEN 1 ELSE 0
    <3>1. out \in Seq(1 .. N) /\ to \in ToSet(out)
      BY <1>2, <2>1
    <3> QED
      BY ONLY <3>1, CountingRemoveFirst
  <2> HIDE DEF r
  <2>5. r = <<x>> /\ x \in 1 .. N
    <3>1. r \in Seq(1 .. N) /\ Len(r) = 1
      BY <2>1, <2>4
    <3> QED
      BY ONLY <3>1, SMTT(30)
  <2> HIDE DEF x
  <2>6. next = {x}
    <3>1. next = ToSet(RemoveFirst(out, Targets(f, b)[1]))
      <4>1. Len(Targets(f, b)) = 1
        BY <2>3
      <4> QED
        BY <2>1, <4>1 DEF Fall, out
    <3>2. next = ToSet(r)
      <4>1. Targets(f, b)[1] = to
        BY <2>3
      <4> HIDE DEF next
      <4> QED
        BY <3>1, <4>1 DEF r
    <3>3. ToSet(<<x>>) = {x}
      BY DEF ToSet
    <3> QED
      BY <2>5, <3>2, <3>3
  <2>7. ASSUME NEW e
        PROVE  Times(out, e) = Times(<<to>>, e) + Times(<<x>>, e)
    <3>1. Times(<<to>>, e) = IF to = e THEN 1 ELSE 0
      BY CountingOne
    <3>2. Times(out, e) \in Nat
      BY <1>2, Counting
    <3> QED
      BY <2>4, <2>5, <3>1, <3>2
  <2> HIDE DEF next
  <2>8. Fits(f, b, {x})
    <3>1. to = Last(f.inss[b]).to
      BY DEF to
    <3> QED
      BY <1>2, <2>1, <2>2, <2>5, <2>7, <3>1, FitsCond DEF out
  <2> QED
    BY <2>6, <2>8 DEF next
<1> QED
  BY <1>3, <1>4, <1>5, <1>6

-----------------------------------------------------------------------------
(* A bbl that nothing happened to fits as before.                          *)
LEMMA SameFit ==
  ASSUME NEW f, NEW g, NEW b, g.inss[b] = f.inss[b], g.edge_out[b] = f.edge_out[b],
         g.jtb = f.jtb, NEW next, Fits(f, b, next)
  PROVE  Fits(g, b, next)
<1>1. Targets(g, b) = Targets(f, b) /\ (FallsThrough(g, b) <=> FallsThrough(f, b))
  BY TargetsOf
<1>2. Ways(g, b, next) = Ways(f, b, next)
  BY <1>1 DEF Ways
<1> QED
  BY <1>2 DEF Fits

(* Bbls in a row: each fits the one behind it, and the last one what is to *)
(* come.                                                                   *)
Behind(s, k, next) == IF k < Len(s) THEN {s[k + 1]} ELSE next
Row(f, s, next) == \A k \in 1 .. Len(s) : Fits(f, s[k], Behind(s, k, next))

(* The row gets longer.                                                    *)
LEMMA LongerRow ==
  ASSUME NEW S, NEW f, NEW s \in Seq(S), NEW x \in S, Row(f, s, {x}), NEW next, Fits(f, x, next)
  PROVE  Row(f, Append(s, x), next)
<1> DEFINE t == Append(s, x)
           n == Len(s)
<1>1. n \in Nat /\ Len(t) = n + 1 /\ \A k \in 1 .. n + 1 : t[k] = IF k = n + 1 THEN x ELSE s[k]
  OBVIOUS
<1> HIDE DEF t
<1>2. \A k \in 1 .. n : Fits(f, s[k], Behind(s, k, {x}))
  BY DEF Row
<1> HIDE DEF n
<1>3. ASSUME NEW k \in 1 .. n + 1
      PROVE  Fits(f, t[k], Behind(t, k, next))
  <2>1. CASE k = n + 1
    <3>1. Behind(t, k, next) = next /\ t[k] = x
      BY <1>1, <2>1 DEF Behind
    <3> QED
      BY <3>1
  <2>2. CASE k # n + 1
    <3>1. k \in 1 .. n /\ k < n + 1 /\ k + 1 \in 1 .. n + 1
      BY <1>1, <2>2
    <3>2. t[k] = s[k] /\ t[k + 1] = IF k < n THEN s[k + 1] ELSE x
      BY <1>1, <3>1
    <3>3. Behind(t, k, next) = {t[k + 1]}
      BY <1>1, <3>1 DEF Behind
    <3>4. Behind(s, k, {x}) = {t[k + 1]}
      BY <3>1, <3>2 DEF Behind, n
    <3> QED
      BY <1>2, <3>1, <3>2, <3>3, <3>4
  <2> QED
    BY <2>1, <2>2
<1>4. Row(f, t, next)
  BY <1>1, <1>3 DEF Row
<1> QED
  BY <1>4 DEF t

(* A row that nothing happened to.                                         *)
LEMMA SameRow ==
  ASSUME NEW S, NEW f, NEW g, NEW s \in Seq(S), NEW next, Row(f, s, next), g.jtb = f.jtb,
         \A c \in ToSet(s) : g.inss[c] = f.inss[c] /\ g.edge_out[c] = f.edge_out[c]
  PROVE  Row(g, s, next)
<1>1. ASSUME NEW k \in 1 .. Len(s)
      PROVE  Fits(g, s[k], Behind(s, k, next))
  <2> DEFINE c == s[k]
             x == Behind(s, k, next)
  <2>1. c \in ToSet(s)
    BY DEF ToSet
  <2>2. Fits(f, c, x)
    BY DEF Row
  <2> HIDE DEF c, x
  <2>3. Fits(g, c, x)
    BY <2>1, <2>2, SameFit
  <2> QED
    BY <2>3 DEF c, x
<1> QED
  BY <1>1 DEF Row

(* A table with one more entry.                                            *)
OneMore(M, X, t, x, u) ==
  u \in [1 .. M + 1 -> X] /\ u[M + 1] = x /\ \A c \in 1 .. M : u[c] = t[c]

(* Appending to a table does that.                                         *)
LEMMA LongerTable ==
  ASSUME NEW M \in Nat, NEW X, NEW t \in [1 .. M -> X], NEW x \in X
  PROVE  OneMore(M, X, t, x, t \o <<x>>)
<1> DEFINE K == M + 1
           u == t \o <<x>>
<1>1. t \in Seq(X) /\ Len(t) = M
  BY TableIsSeq
<1>2. u \in Seq(X) /\ Len(u) = K /\ u[K] = x /\ \A c \in 1 .. M : u[c] = t[c]
  BY <1>1
<1>3. K \in Nat
  OBVIOUS
<1> HIDE DEF u, K
<1>4. u \in [1 .. K -> X]
  BY <1>2, <1>3, TableIsSeq
<1> QED
  BY <1>2, <1>4 DEF u, K, OneMore

(* One more bbl, without edges.                                            *)
Grown(M, J, f, inss, g) ==
  /\ g \in Flow(M + 1, J) /\ Mirrored(g) /\ g.bbls = f.bbls /\ g.jtb = f.jtb
  /\ \A c \in 1 .. M : g.inss[c] = f.inss[c] /\ g.edge_out[c] = f.edge_out[c]
  /\ g.inss[M + 1] = inss /\ g.edge_out[M + 1] = <<>> /\ Newest(g) = M + 1

(* NewBbls does that.                                                      *)
LEMMA Growing ==
  ASSUME NEW M \in Nat, NEW J, NEW f \in Flow(M, J), Mirrored(f),
         NEW inss \in Seq(Instruction(1 .. M, J))
  PROVE  Grown(M, J, f, inss, NewBbls(f, <<inss>>))
<1> DEFINE K == M + 1
           g == NewBbls(f, <<inss>>)
           Ins == Instruction(1 .. M, J)
           Ins1 == Instruction(1 .. K, J)
           none == [n \in DOMAIN <<inss>> |-> <<>>]
           code == f.inss \o <<inss>>
           out == f.edge_out \o none
           into == f.edge_in \o none
<1>1. /\ f.inss \in [1 .. M -> Seq(Ins)] /\ f.edge_out \in [1 .. M -> Seq(1 .. M)]
      /\ f.edge_in \in [1 .. M -> Seq(1 .. M)] /\ f.jtb \in [J -> JumpTable(1 .. M)]
      /\ f.bbls \in Seq(1 .. M) /\ DOMAIN f.inss = 1 .. M
  BY DEF Flow
<1>2. K \in Nat /\ M <= K
  OBVIOUS
<1>3. /\ Seq(Ins) \subseteq Seq(Ins1) /\ Seq(1 .. M) \subseteq Seq(1 .. K)
      /\ JumpTable(1 .. M) \subseteq JumpTable(1 .. K)
  <2> HIDE DEF K
  <2> QED
    BY <1>2, MoreBbls
<1>4. none = << <<>> >>
  <2>1. DOMAIN <<inss>> = 1 .. 1
    OBVIOUS
  <2> QED
    BY <2>1
<1> HIDE DEF none, Ins, Ins1
<1>6. code \in [1 .. K -> Seq(Ins1)] /\ code[K] = inss /\ \A c \in 1 .. M : code[c] = f.inss[c]
  <2> DEFINE X == Seq(Ins1)
             t == f.inss
  <2>1. t \in [1 .. M -> X] /\ inss \in X
    BY <1>1, <1>3 DEF Ins
  <2> HIDE DEF X, t
  <2>2. OneMore(M, X, t, inss, t \o <<inss>>)
    BY <2>1, LongerTable
  <2> QED
    BY <2>2 DEF OneMore, X, t
<1>7. <<>> \in Seq(1 .. K)
  BY EmptySeq
<1>8. out \in [1 .. K -> Seq(1 .. K)] /\ out[K] = <<>> /\ \A c \in 1 .. M : out[c] = f.edge_out[c]
  <2> DEFINE X == Seq(1 .. K)
             t == f.edge_out
             x == <<>>
  <2>1. t \in [1 .. M -> X] /\ x \in X
    BY <1>1, <1>3, <1>7
  <2> HIDE DEF X, t, x
  <2>2. OneMore(M, X, t, x, t \o <<x>>)
    BY <2>1, LongerTable
  <2> QED
    BY <1>4, <2>2 DEF OneMore, X, t, x
<1>9. into \in [1 .. K -> Seq(1 .. K)] /\ into[K] = <<>> /\ \A c \in 1 .. M : into[c] = f.edge_in[c]
  <2> DEFINE X == Seq(1 .. K)
             t == f.edge_in
             x == <<>>
  <2>1. t \in [1 .. M -> X] /\ x \in X
    BY <1>1, <1>3, <1>7
  <2> HIDE DEF X, t, x
  <2>2. OneMore(M, X, t, x, t \o <<x>>)
    BY <2>1, LongerTable
  <2> QED
    BY <1>4, <2>2 DEF OneMore, X, t, x
<1>10. g = [f EXCEPT !.inss = code, !.edge_out = out, !.edge_in = into]
  BY DEF NewBbls, none
<1> HIDE DEF code, out, into, g
<1>11. /\ g \in Flow(K, J) /\ g.bbls = f.bbls /\ g.jtb = f.jtb /\ g.inss = code
       /\ g.edge_out = out /\ g.edge_in = into
  <2>1. f.bbls \in Seq(1 .. K) /\ f.jtb \in [J -> JumpTable(1 .. K)]
    BY <1>1, <1>3
  <2> HIDE DEF K
  <2> QED
    BY <1>6, <1>8, <1>9, <1>10, <2>1 DEF Flow, Ins1
<1>12. ASSUME NEW e
       PROVE  Times(<<>>, e) = 0
  <2>1. Places(<<>>, e) = {}
    BY DEF Places
  <2> QED
    BY <2>1, FS_EmptySet DEF Times, Places
<1>13. \A c \in 1 .. M : Times(f.edge_out[c], K) = 0 /\ Times(f.edge_in[c], K) = 0
  <2>1. ASSUME NEW c \in 1 .. M, NEW s \in Seq(1 .. M)
        PROVE  Times(s, K) = 0
    <3>1. K \notin 1 .. M
      OBVIOUS
    <3>2. K \notin ToSet(s)
      BY <3>1, ElementOfSeq DEF ToSet
    <3> HIDE DEF K
    <3> QED
      BY <3>2, Counting
  <2> HIDE DEF K
  <2>2. \A c \in 1 .. M : f.edge_out[c] \in Seq(1 .. M) /\ f.edge_in[c] \in Seq(1 .. M)
    BY <1>1
  <2> QED
    BY <2>1, <2>2
<1>14. Mirrored(g)
  <2>1. DOMAIN g.inss = 1 .. K
    BY <1>6, <1>11
  <2>2. ASSUME NEW c \in 1 .. K, NEW t \in 1 .. K
        PROVE  Times(out[c], t) = Times(into[t], c)
    <3>1. CASE c \in 1 .. M /\ t \in 1 .. M
      <4>1. Times(f.edge_out[c], t) = Times(f.edge_in[t], c)
        BY <1>1, <3>1 DEF Mirrored
      <4> QED
        BY <1>8, <1>9, <3>1, <4>1
    <3>2. CASE c \in 1 .. M /\ t = K
      BY <1>8, <1>9, <1>12, <1>13, <3>2
    <3>3. CASE c = K /\ t \in 1 .. M
      BY <1>8, <1>9, <1>12, <1>13, <3>3
    <3>4. CASE c = K /\ t = K
      BY <1>8, <1>9, <1>12, <3>4
    <3>5. (c \in 1 .. M \/ c = K) /\ (t \in 1 .. M \/ t = K)
      OBVIOUS
    <3> QED
      BY <3>1, <3>2, <3>3, <3>4, <3>5
  <2> HIDE DEF K
  <2> QED
    BY <1>11, <2>1, <2>2 DEF Mirrored
<1>15. Newest(g) = K
  <2>1. code \in Seq(Seq(Ins1)) /\ Len(code) = K
    <3> HIDE DEF K
    <3> QED
      BY <1>2, <1>6, TableIsSeq
  <2> QED
    BY <1>11, <2>1 DEF Newest
<1>16. Grown(M, J, f, inss, g)
  <2>1. \A c \in 1 .. M : g.inss[c] = f.inss[c] /\ g.edge_out[c] = f.edge_out[c]
    BY <1>6, <1>8, <1>11
  <2>2. g.inss[K] = inss /\ g.edge_out[K] = <<>>
    BY <1>6, <1>8, <1>11
  <2> QED
    BY <1>11, <1>14, <1>15, <2>1, <2>2 DEF Grown, K
<1> QED
  BY <1>16 DEF g

(* The first j bbls are handled: they and the new bbls make a row, and the *)
(* others are as they were.                                                *)
After(f, j) == IF j < Len(f.bbls) THEN {f.bbls[j + 1]} ELSE {}
LinUpto(N, J, f, j, M, st) ==
  /\ st.f \in Flow(M, J) /\ N <= M /\ Mirrored(st.f) /\ st.f.bbls = f.bbls /\ st.f.jtb = f.jtb
  /\ st.bbls \in Seq(1 .. M) /\ IsInjective(st.bbls)
  /\ ToSet(st.bbls) = {f.bbls[i] : i \in 1 .. j} \cup N + 1 .. M
  /\ \A i \in j + 1 .. Len(f.bbls) : /\ st.f.inss[f.bbls[i]] = f.inss[f.bbls[i]]
                                     /\ st.f.edge_out[f.bbls[i]] = f.edge_out[f.bbls[i]]
  /\ Row(st.f, st.bbls, After(f, j))

(* The j-th bbl after j - 1 of them.                                       *)
LEMMA NextBbl ==
  ASSUME NEW N \in Nat, NEW J, NEW f \in Flow(N, J), IsInjective(f.bbls),
         NEW j \in 1 .. Len(f.bbls), NEW M \in Nat, NEW st, LinUpto(N, J, f, j - 1, M, st)
  PROVE  /\ f.bbls[j] \in 1 .. N /\ f.bbls[j] \in 1 .. M /\ f.bbls[j] \notin ToSet(st.bbls)
         /\ \A i \in j + 1 .. Len(f.bbls) : f.bbls[i] # f.bbls[j] /\ f.bbls[i] \in 1 .. M
         /\ {f.bbls[i] : i \in 1 .. j} = {f.bbls[i] : i \in 1 .. j - 1} \cup {f.bbls[j]}
         /\ st.f.inss[f.bbls[j]] = f.inss[f.bbls[j]] /\ st.f.edge_out[f.bbls[j]] = f.edge_out[f.bbls[j]]
         /\ Row(st.f, st.bbls, {f.bbls[j]})
<1> DEFINE n == Len(f.bbls)
           b == f.bbls[j]
           old == {f.bbls[i] : i \in 1 .. j - 1}
<1>1. n \in Nat /\ DOMAIN f.bbls = 1 .. n /\ \A i \in 1 .. n : f.bbls[i] \in 1 .. N
  <2>1. f.bbls \in Seq(1 .. N)
    BY DEF Flow
  <2> QED
    BY <2>1, ElementOfSeq
<1>2. /\ st.f \in Flow(M, J) /\ N <= M /\ ToSet(st.bbls) = old \cup N + 1 .. M
      /\ \A i \in j .. n : /\ st.f.inss[f.bbls[i]] = f.inss[f.bbls[i]]
                           /\ st.f.edge_out[f.bbls[i]] = f.edge_out[f.bbls[i]]
      /\ Row(st.f, st.bbls, After(f, j - 1))
  <2>1. (j - 1) + 1 = j
    OBVIOUS
  <2> QED
    BY <2>1 DEF LinUpto
<1> HIDE DEF n
<1>3. j \in 1 .. n
  BY DEF n
<1>4. \A i \in 1 .. n : f.bbls[i] = b => i = j
  BY <1>1, <1>3 DEF IsInjective
<1>5. b \in 1 .. N /\ 1 .. N \subseteq 1 .. M
  <2>1. N <= M
    BY <1>2
  <2>2. 1 .. N \subseteq 1 .. M
    BY <2>1
  <2> QED
    BY <1>1, <1>3, <2>2
<1>6. b \notin ToSet(st.bbls)
  <2>1. \A i \in 1 .. j - 1 : i \in 1 .. n /\ i # j
    BY <1>1, <1>3
  <2>2. b \notin old
    <3> HIDE DEF b
    <3> QED
      BY <1>4, <2>1
  <2>3. b \notin N + 1 .. M
    <3> HIDE DEF b
    <3> QED
      BY <1>5
  <2> QED
    BY <1>2, <2>2, <2>3
<1>7. \A i \in j + 1 .. n : f.bbls[i] # b /\ f.bbls[i] \in 1 .. M
  <2>1. \A i \in j + 1 .. n : i \in 1 .. n /\ i # j
    BY <1>1, <1>3
  <2> QED
    BY <1>1, <1>4, <1>5, <2>1
<1>8. {f.bbls[i] : i \in 1 .. j} = old \cup {b}
  <2>1. \A i : i \in 1 .. j <=> i \in 1 .. j - 1 \/ i = j
    BY <1>1, <1>3
  <2> QED
    BY <2>1
<1>9. st.f.inss[b] = f.inss[b] /\ st.f.edge_out[b] = f.edge_out[b]
  <2>1. j \in j .. n
    BY <1>1, <1>3
  <2> QED
    BY <1>2, <2>1
<1>10. After(f, j - 1) = {b}
  <2>1. (j - 1) + 1 = j /\ j - 1 < n
    BY <1>1, <1>3
  <2> QED
    BY <2>1 DEF After, n
<1>11. Row(st.f, st.bbls, {b})
  BY <1>2, <1>10
<1> HIDE DEF old, b
<1> QED
  BY <1>5, <1>6, <1>7, <1>8, <1>9, <1>11 DEF n, b, old

(* After the j-th bbl was handled, and maybe K - M new ones made.          *)
LEMMA Placing ==
  ASSUME NEW N \in Nat, NEW J, NEW f \in Flow(N, J), IsInjective(f.bbls),
         NEW j \in 1 .. Len(f.bbls), NEW M \in Nat, NEW st, LinUpto(N, J, f, j - 1, M, st),
         NEW K \in Nat, M <= K, NEW h \in Flow(K, J), Mirrored(h), h.bbls = f.bbls, h.jtb = f.jtb,
         \A c \in 1 .. M : c # f.bbls[j] => h.inss[c] = st.f.inss[c] /\ h.edge_out[c] = st.f.edge_out[c],
         NEW t, t.f = h, t.bbls \in Seq(1 .. K), IsInjective(t.bbls),
         ToSet(t.bbls) = ToSet(st.bbls) \cup {f.bbls[j]} \cup M + 1 .. K,
         Row(h, t.bbls, After(f, j))
  PROVE  LinUpto(N, J, f, j, K, t)
<1> DEFINE b == f.bbls[j]
           n == Len(f.bbls)
<1>1. /\ N <= M /\ ToSet(st.bbls) = {f.bbls[i] : i \in 1 .. j - 1} \cup N + 1 .. M
      /\ \A i \in (j - 1) + 1 .. n : /\ st.f.inss[f.bbls[i]] = f.inss[f.bbls[i]]
                                     /\ st.f.edge_out[f.bbls[i]] = f.edge_out[f.bbls[i]]
  BY DEF LinUpto
<1>2. /\ \A i \in j + 1 .. n : f.bbls[i] # b /\ f.bbls[i] \in 1 .. M
      /\ {f.bbls[i] : i \in 1 .. j} = {f.bbls[i] : i \in 1 .. j - 1} \cup {b}
  BY NextBbl, ZenonT(30)
<1>3. \A i \in j + 1 .. n : /\ h.inss[f.bbls[i]] = f.inss[f.bbls[i]]
                            /\ h.edge_out[f.bbls[i]] = f.edge_out[f.bbls[i]]
  <2>1. \A i \in j + 1 .. n : i \in (j - 1) + 1 .. n
    OBVIOUS
  <2> HIDE DEF b, n
  <2> QED
    BY <1>1, <1>2, <2>1 DEF b
<1>4. N + 1 .. M \cup M + 1 .. K = N + 1 .. K /\ N <= K
  <2>1. N <= M
    BY <1>1
  <2> QED
    BY <2>1
<1>5. ToSet(t.bbls) = {f.bbls[i] : i \in 1 .. j} \cup N + 1 .. K
  BY <1>1, <1>2, <1>4
<1> HIDE DEF b, n
<1> QED
  BY <1>3, <1>4, <1>5 DEF LinUpto, n

(* A row that ends with b.                                                 *)
RowBy(M, h, s, b, next) ==
  /\ Append(s, b) \in Seq(1 .. M) /\ IsInjective(Append(s, b))
  /\ ToSet(Append(s, b)) = ToSet(s) \cup {b} /\ Row(h, Append(s, b), next)

(* The row with the j-th bbl.                                              *)
LEMMA RowWith ==
  ASSUME NEW N \in Nat, NEW J, NEW f \in Flow(N, J), IsInjective(f.bbls),
         NEW j \in 1 .. Len(f.bbls), NEW M \in Nat, NEW st, LinUpto(N, J, f, j - 1, M, st),
         NEW h, h.jtb = f.jtb,
         \A c \in 1 .. M : c # f.bbls[j] => h.inss[c] = st.f.inss[c] /\ h.edge_out[c] = st.f.edge_out[c],
         NEW b, b = f.bbls[j], NEW s, s = st.bbls, NEW next, Fits(h, b, next)
  PROVE  RowBy(M, h, s, b, next)
<1>1. s \in Seq(1 .. M) /\ IsInjective(s) /\ st.f.jtb = f.jtb
  BY DEF LinUpto
<1>2. b \in 1 .. M /\ b \notin ToSet(s) /\ Row(st.f, s, {b})
  BY NextBbl
<1>3. Append(s, b) \in Seq(1 .. M) /\ ToSet(Append(s, b)) = ToSet(s) \cup {b} /\ IsInjective(Append(s, b))
  BY <1>1, <1>2, Pushing
<1>4. Row(h, s, {b})
  <2>1. \A c \in ToSet(s) : c \in 1 .. M /\ c # b
    BY <1>1, <1>2, ElementOfSeq, SMTT(30) DEF ToSet
  <2>2. \A c \in ToSet(s) : h.inss[c] = st.f.inss[c] /\ h.edge_out[c] = st.f.edge_out[c]
    BY <2>1
  <2> DEFINE w == st.f
  <2>3. h.jtb = w.jtb /\ \A c \in ToSet(s) : h.inss[c] = w.inss[c] /\ h.edge_out[c] = w.edge_out[c]
    BY <1>1, <2>2
  <2>4. Row(w, s, {b})
    BY <1>2
  <2> DEFINE x == {b}
  <2> HIDE DEF w, x
  <2>5. Row(h, s, x)
    BY <1>1, <2>3, <2>4, SameRow DEF x
  <2> QED
    BY <2>5 DEF x
<1>5. Row(h, Append(s, b), next)
  <2>1. Fits(h, b, next)
    OBVIOUS
  <2> QED
    BY <1>1, <1>2, <1>4, <2>1, LongerRow
<1> QED
  BY <1>3, <1>5 DEF RowBy

(* The round when no bbl is made.                                          *)
LEMMA OneRound ==
  ASSUME NEW N \in Nat, NEW J, NEW f \in Flow(N, J), IsInjective(f.bbls),
         NEW j \in 1 .. Len(f.bbls), NEW M \in Nat, NEW st, LinUpto(N, J, f, j - 1, M, st),
         NEW h \in Flow(M, J), Mirrored(h), h.bbls = f.bbls, h.jtb = f.jtb,
         \A c \in 1 .. M : c # f.bbls[j] => h.inss[c] = st.f.inss[c] /\ h.edge_out[c] = st.f.edge_out[c],
         NEW b, b = f.bbls[j], NEW s, s = st.bbls, NEW next, next = After(f, j), Fits(h, b, next),
         NEW t, t.f = h, t.bbls = Append(s, b)
  PROVE  LinUpto(N, J, f, j, M, t)
<1>1. /\ t.bbls \in Seq(1 .. M) /\ IsInjective(t.bbls)
      /\ ToSet(t.bbls) = ToSet(s) \cup {b} /\ Row(h, t.bbls, next)
  <2>1. RowBy(M, h, s, b, next)
    BY RowWith, ZenonT(30)
  <2> QED
    BY <2>1 DEF RowBy
<1>2. M <= M /\ M + 1 .. M = {}
  OBVIOUS
<1>3. ToSet(t.bbls) = ToSet(st.bbls) \cup {f.bbls[j]} \cup M + 1 .. M
  BY <1>1, <1>2
<1> QED
  BY <1>1, <1>2, <1>3, Placing

(* An instruction of b becomes another one, or a branch is appended.       *)
LEMMA ChangingIns ==
  ASSUME NEW M \in Nat, NEW J, NEW w \in Flow(M, J), Mirrored(w), NEW b \in 1 .. M,
         NEW s \in Seq(Instruction(1 .. M, J)), NEW h, h = [w EXCEPT !.inss[b] = s]
  PROVE  /\ h \in Flow(M, J) /\ Mirrored(h) /\ h.bbls = w.bbls /\ h.jtb = w.jtb
         /\ h.inss[b] = s /\ h.edge_out = w.edge_out
         /\ \A c \in 1 .. M : c # b => h.inss[c] = w.inss[c]
<1> DEFINE inss == [w.inss EXCEPT ![b] = s]
           Ins == Instruction(1 .. M, J)
<1>1. w.inss \in [1 .. M -> Seq(Ins)]
  BY DEF Flow
<1> HIDE DEF Ins
<1>2. inss \in [1 .. M -> Seq(Ins)] /\ inss[b] = s /\ \A c \in 1 .. M : c # b => inss[c] = w.inss[c]
  BY <1>1 DEF Ins
<1>3. h = [w EXCEPT !.inss = inss]
  OBVIOUS
<1> HIDE DEF inss
<1>4. /\ h \in Flow(M, J) /\ h.inss = inss /\ h.bbls = w.bbls /\ h.jtb = w.jtb
      /\ h.edge_out = w.edge_out /\ h.edge_in = w.edge_in
  BY <1>2, <1>3 DEF Flow, Ins
<1>5. DOMAIN h.inss = 1 .. M /\ DOMAIN w.inss = 1 .. M
  BY <1>1, <1>2, <1>4
<1>6. Mirrored(h)
  <2>1. DOMAIN h.inss = DOMAIN w.inss
    BY <1>5
  <2> QED
    BY <1>4, <2>1 DEF Mirrored
<1> QED
  BY <1>2, <1>4, <1>6

(* A bbl that ends with a branch has the edge to its target.               *)
LEMMA FitsBra ==
  ASSUME NEW f, NEW b, f.inss[b] # <<>>, Last(f.inss[b]).k = "bra",
         f.edge_out[b] = <<Last(f.inss[b]).to>>, NEW next
  PROVE  Fits(f, b, next)
<1>1. ~FallsThrough(f, b)
  BY DEF FallsThrough, HasFallthrough, Inss
<1>2. Targets(f, b) = f.edge_out[b]
  BY DEF Targets, InsTargets, Inss
<1> QED
  BY <1>1, <1>2 DEF Fits, Ways

(* A sequence of two.                                                      *)
LEMMA TwoInARow ==
  ASSUME NEW x, NEW y
  PROVE  <<x, y>> = <<x>> \o <<y>>
<1> DEFINE s == <<x>> \o <<y>>
           S == {x, y}
<1>1. <<x>> \in Seq(S) /\ <<y>> \in Seq(S)
  OBVIOUS
<1>2. s \in Seq(S) /\ Len(s) = 2 /\ s[1] = x /\ s[2] = y
  BY <1>1
<1> HIDE DEF s
<1>3. s = <<x, y>>
  BY <1>2
<1> QED
  BY <1>3 DEF s

(* Two edges: the target of the branch, and the other one.                 *)
LEMMA TwoEdges ==
  ASSUME NEW S, NEW out \in Seq(S), Len(out) = 2, NEW to, to \in ToSet(out),
         NEW other, other = IF to = out[2] THEN out[1] ELSE out[2]
  PROVE  /\ to \in S /\ other \in S /\ ToSet(out) = {to, other}
         /\ \A e : Times(out, e) = Times(<<to>>, e) + Times(<<other>>, e)
<1> DEFINE p == out[1]
           q == out[2]
           pp == <<p>>
           qq == <<q>>
<1>1. out = pp \o qq /\ p \in S /\ q \in S /\ ToSet(out) = {p, q}
  <2>1. DOMAIN out = 1 .. 2 /\ 1 .. 2 = {1, 2}
    OBVIOUS
  <2>2. ToSet(out) = {p, q}
    BY <2>1 DEF ToSet
  <2>3. p \in S /\ q \in S
    OBVIOUS
  <2>4. out = <<p, q>>
    OBVIOUS
  <2> HIDE DEF p, q
  <2>5. <<p, q>> = <<p>> \o <<q>>
    BY TwoInARow
  <2> QED
    BY <2>2, <2>3, <2>4, <2>5
<1>2. pp \in Seq(S) /\ qq \in Seq(S)
  BY <1>1
<1>3. other = IF to = q THEN p ELSE q
  OBVIOUS
<1> HIDE DEF p, q
<1>4. \A e : Times(pp, e) = (IF p = e THEN 1 ELSE 0) /\ Times(qq, e) = (IF q = e THEN 1 ELSE 0)
  BY CountingOne
<1>5. /\ \A e : Times(<<to>>, e) = IF to = e THEN 1 ELSE 0
      /\ \A e : Times(<<other>>, e) = IF other = e THEN 1 ELSE 0
  BY CountingOne
<1> HIDE DEF pp, qq
<1>6. \A e : Times(out, e) = Times(pp, e) + Times(qq, e)
  BY <1>1, <1>2, CountingBoth
<1>7. to = p \/ to = q
  BY <1>1
<1>8. to \in S /\ other \in S /\ {p, q} = {to, other}
  BY <1>1, <1>3, <1>7
<1>9. ASSUME NEW e
      PROVE  Times(out, e) = Times(<<to>>, e) + Times(<<other>>, e)
  BY <1>3, <1>4, <1>5, <1>6, <1>7
<1> QED
  BY <1>1, <1>8, <1>9

(* The last one of a sequence that got longer.                             *)
LEMMA LastAppended ==
  ASSUME NEW S, NEW s \in Seq(S), NEW x \in S
  PROVE  /\ Append(s, x) \in Seq(S) /\ Append(s, x) # <<>> /\ Last(Append(s, x)) = x
         /\ Len(Append(s, x)) = Len(s) + 1
<1> DEFINE u == Append(s, x)
           n == Len(s) + 1
<1>1. u \in Seq(S) /\ Len(u) = n /\ u[n] = x /\ n # 0
  OBVIOUS
<1> HIDE DEF u, n
<1>2. u # <<>>
  BY <1>1
<1> QED
  BY <1>1, <1>2, LastOne DEF u, n

(* Another instruction in the last place leaves a bbl tidy.                *)
LEMMA TidyReplaced ==
  ASSUME NEW S, NEW s \in Seq(S), s # <<>>, Tidy(s), NEW x
  PROVE  Tidy(Append(Front(s), x))
<1> DEFINE t == Front(s)
           u == Append(t, x)
           n == Len(s)
<1>1. t \in Seq(S) /\ Len(t) = n - 1 /\ n \in Nat \ {0}
  BY Popping
<1>2. \A i \in 1 .. n - 1 : t[i] = s[i]
  BY DEF Front
<1> HIDE DEF t, n
<1>3. Len(u) = n /\ \A i \in 1 .. n - 1 : u[i] = t[i]
  BY <1>1
<1> HIDE DEF u
<1>4. \A i \in 1 .. n - 1 : ~IsTerminator(s[i])
  BY DEF Tidy, n
<1> QED
  BY <1>2, <1>3, <1>4 DEF Tidy, u, t

(* So does a branch behind a plain instruction.                            *)
LEMMA TidyAppended ==
  ASSUME NEW S, NEW s \in Seq(S), Tidy(s), s = <<>> \/ Last(s).k = "plain", NEW x
  PROVE  Tidy(Append(s, x))
<1> DEFINE u == Append(s, x)
           n == Len(s)
<1>1. Len(u) = n + 1 /\ n \in Nat /\ \A i \in 1 .. n : u[i] = s[i]
  OBVIOUS
<1>2. n # 0 => Last(s) = s[n] /\ s # <<>>
  BY LastOne
<1>3. \A i \in 1 .. n - 1 : ~IsTerminator(s[i])
  BY DEF Tidy
<1> HIDE DEF u, n
<1>4. n # 0 => ~IsTerminator(s[n])
  BY <1>2 DEF IsTerminator
<1>5. \A i \in 1 .. n : ~IsTerminator(u[i])
  BY <1>1, <1>3, <1>4
<1> QED
  BY <1>1, <1>5 DEF Tidy, u

(* The shape of a bbl that ends with a branch.                             *)
LEMMA ShapedBra ==
  ASSUME NEW f, NEW b, f.inss[b] # <<>>, Last(f.inss[b]).k = "bra", Tidy(f.inss[b]),
         f.edge_out[b] = <<Last(f.inss[b]).to>>
  PROVE  Shaped(f, b)
<1>1. Kind(f, b) = "bra"
  BY DEF Kind
<1> QED
  BY <1>1 DEF Shaped

(* The shape of a bbl that ends with a conditional branch.                 *)
LEMMA ShapedCond ==
  ASSUME NEW f, NEW b, f.inss[b] # <<>>, Last(f.inss[b]).k = "cond", Tidy(f.inss[b]),
         Len(f.edge_out[b]) = 2, Last(f.inss[b]).to \in ToSet(f.edge_out[b])
  PROVE  Shaped(f, b)
<1>1. Kind(f, b) = "cond"
  BY DEF Kind
<1> QED
  BY <1>1 DEF Shaped

(* What the new bbl with a branch makes of f: the edge from b to other     *)
(* leads through it.                                                       *)
Spliced(M, J, f, b, other, g) ==
  /\ g \in Flow(M + 1, J) /\ Mirrored(g) /\ g.bbls = f.bbls /\ g.jtb = f.jtb
  /\ \A c \in 1 .. M : c # b => g.inss[c] = f.inss[c] /\ g.edge_out[c] = f.edge_out[c]
  /\ Fits(g, b, {M + 1}) /\ \A next : Fits(g, M + 1, next)
  /\ Shaped(g, b) /\ Shaped(g, M + 1) /\ g.edge_out[M + 1] = <<other>>
  /\ ToSet(g.edge_out[b]) \subseteq ToSet(f.edge_out[b]) \cup {M + 1}
  /\ other \in ToSet(f.edge_out[b])

(* AddBraBbl does that.                                                    *)
LEMMA Splicing ==
  ASSUME NEW M \in Nat, NEW J, NEW f \in Flow(M, J), Mirrored(f), NEW b \in 1 .. M,
         f.inss[b] # <<>>, Last(f.inss[b]).k = "cond", NEW to \in 1 .. M, to = Last(f.inss[b]).to,
         NEW other \in 1 .. M,
         \A e : Times(f.edge_out[b], e) = Times(<<to>>, e) + Times(<<other>>, e),
         Tidy(f.inss[b]), Len(f.edge_out[b]) = 2, NEW st, st.f = f
  PROVE  Spliced(M, J, f, b, other, AddBraBbl(st, b, other).f)
<1> DEFINE K == M + 1
           new == <<Bra(other)>>
           g == NewBbls(f, <<new>>)
           p == InsMaybePatchNewSuccessor(g, b, other, K)
           r == ReplaceEdgeOut(p, b, other, K)
           h == AddEdgeOut(r, K, other)
           ins == Last(f.inss[b])
           out == f.edge_out[b]
<1>1. new \in Seq(Instruction(1 .. M, J)) /\ Bra(other).k = "bra" /\ Bra(other).to = other
  <2>1. Bra(other) \in Instruction(1 .. M, J)
    BY DEF Bra, Instruction
  <2>2. Bra(other).k = "bra" /\ Bra(other).to = other
    BY DEF Bra
  <2> HIDE DEF Instruction
  <2> QED
    BY <2>1, <2>2
<1>2. /\ f.inss \in [1 .. M -> Seq(Instruction(1 .. M, J))] /\ f.edge_out \in [1 .. M -> Seq(1 .. M)]
      /\ out \in Seq(1 .. M)
  <2> HIDE DEF Instruction
  <2> QED
    BY DEF Flow
<1>3. K \in Nat /\ b \in 1 .. K /\ other \in 1 .. K /\ K \in 1 .. K /\ K \notin 1 .. M /\ K # b
      /\ K # other /\ K # to /\ \A c \in 1 .. M : c \in 1 .. K /\ c # K
  OBVIOUS
<1> HIDE DEF new
<1>4. Grown(M, J, f, new, g)
  BY <1>1, Growing
<1> HIDE DEF g
<1>5. AddBraBbl(st, b, other).f = h
  <2>1. AddBraBbl(st, b, other).f
          = AddEdgeOut(ReplaceEdgeOut(InsMaybePatchNewSuccessor(g, b, other, Newest(g)),
                                      b, other, Newest(g)), Newest(g), other)
    BY DEF AddBraBbl, g, new
  <2>2. Newest(g) = K
    BY <1>4 DEF Grown
  <2> HIDE DEF K
  <2> QED
    BY <2>1, <2>2
<1> HIDE DEF K
<1>6. /\ g \in Flow(K, J) /\ Mirrored(g) /\ g.bbls = f.bbls /\ g.jtb = f.jtb
      /\ \A c \in 1 .. M : g.inss[c] = f.inss[c] /\ g.edge_out[c] = f.edge_out[c]
      /\ g.inss[K] = new /\ g.edge_out[K] = <<>>
  BY <1>4 DEF Grown, K
<1>7. g.inss[b] = f.inss[b] /\ g.inss[b] # <<>> /\ Last(g.inss[b]) = ins /\ ins.k = "cond"
  BY <1>6
<1> HIDE DEF ins, p
<1>8. Patched(K, J, g, b, other, K, p)
  BY <1>3, <1>6, <1>7, Patching DEF p
<1> DEFINE patched == [ins EXCEPT !.to = Forward(ins.to, other, K)]
           code == Append(Front(f.inss[b]), patched)
<1> HIDE DEF patched
<1>9. /\ p \in Flow(K, J) /\ p.bbls = f.bbls /\ p.edge_out = g.edge_out /\ p.edge_in = g.edge_in
      /\ p.jtb = f.jtb /\ p.inss[b] = code
      /\ \A c \in 1 .. K : c # b => p.inss[c] = g.inss[c]
  BY <1>6, <1>7, <1>8 DEF Patched, patched
<1> HIDE DEF code
<1>10. Mirrored(p)
  <2>1. DOMAIN p.inss = DOMAIN g.inss
    BY <1>6, <1>9 DEF Flow
  <2> QED
    BY <1>6, <1>9, <2>1 DEF Mirrored
<1> HIDE DEF r
<1>11. Replaced(K, J, p, b, other, K, r)
  BY <1>3, <1>9, <1>10, Replacing DEF r
<1> HIDE DEF h
<1>12. Added(K, J, r, K, other, h)
  <2>1. r \in Flow(K, J) /\ Mirrored(r)
    BY <1>11 DEF Replaced
  <2> QED
    BY <1>3, <2>1, Adding DEF h
<1> DEFINE ra == ReplaceAll(out, other, K)
<1>13. /\ h \in Flow(K, J) /\ Mirrored(h) /\ h.bbls = f.bbls /\ h.jtb = f.jtb /\ h.inss = p.inss
       /\ h.edge_out[b] = ra /\ h.edge_out[K] = <<other>>
       /\ \A c \in 1 .. M : c # b => h.edge_out[c] = f.edge_out[c]
  <2>1. g.edge_out \in [1 .. K -> Seq(1 .. K)]
    BY <1>6 DEF Flow
  <2>2. r.edge_out = [g.edge_out EXCEPT ![b] = ReplaceAll(g.edge_out[b], other, K)]
    BY <1>9, <1>11 DEF Replaced
  <2>3. h.edge_out = [r.edge_out EXCEPT ![K] = Append(r.edge_out[K], other)]
    BY <1>12 DEF Added
  <2>4. g.edge_out[b] = out /\ g.edge_out[K] = <<>>
    BY <1>6
  <2> HIDE DEF out
  <2> DEFINE y == ReplaceAll(g.edge_out[b], other, K)
  <2>5. y = ra
    BY <2>4
  <2> HIDE DEF y, ra
  <2>6. r.edge_out = [g.edge_out EXCEPT ![b] = y] /\ DOMAIN g.edge_out = 1 .. K
    BY <2>1, <2>2 DEF y
  <2>7. r.edge_out[K] = <<>> /\ r.edge_out[b] = y /\ DOMAIN r.edge_out = 1 .. K
        /\ \A c \in 1 .. M : c # b => r.edge_out[c] = g.edge_out[c]
    BY <1>3, <2>4, <2>6
  <2>8. Append(r.edge_out[K], other) = <<other>>
    BY <2>7
  <2>9. /\ h.edge_out[b] = ra /\ h.edge_out[K] = <<other>>
        /\ \A c \in 1 .. M : c # b => h.edge_out[c] = f.edge_out[c]
    BY <1>3, <1>6, <2>3, <2>5, <2>7, <2>8
  <2>10. h \in Flow(K, J) /\ Mirrored(h) /\ h.bbls = f.bbls /\ h.jtb = f.jtb /\ h.inss = p.inss
    BY <1>9, <1>11, <1>12 DEF Added, Replaced, SameCode
  <2> QED
    BY <2>9, <2>10
<1>14. /\ code # <<>> /\ Last(code) = patched
       /\ patched.k = "cond" /\ patched.to = IF to = other THEN K ELSE to
  <2> DEFINE S == Instruction(1 .. K, J)
             s == g.inss[b]
             x == Forward(ins.to, other, K)
  <2>1. s \in Seq(S) /\ s # <<>>
    <3> HIDE DEF S
    <3>1. g.inss \in [1 .. K -> Seq(S)]
      BY <1>6 DEF Flow, S
    <3> QED
      BY <1>3, <1>7, <3>1
  <2>2. ins.to = to
    BY DEF ins
  <2>3. x \in 1 .. K /\ x = IF to = other THEN K ELSE to
    BY <1>3, <2>2 DEF Forward
  <2> HIDE DEF S, s
  <2>4. ins \in S /\ Front(s) \in Seq(S)
    BY <1>7, <2>1, Popping DEF s
  <2>5. patched \in S /\ patched.k = "cond" /\ patched.to = x
    <3>1. patched = [ins EXCEPT !.to = x]
      BY DEF patched
    <3> HIDE DEF x, patched
    <3>2. x \in 1 .. K /\ ins \in Instruction(1 .. K, J)
      BY <2>3, <2>4 DEF S
    <3>3. ins.k = "cond" /\ ins.k \in {"bra", "cond"}
      BY <1>7
    <3> DEFINE B == 1 .. K
    <3> HIDE DEF B
    <3>5. x \in B /\ ins \in Instruction(B, J)
      BY <3>2 DEF B
    <3>6. /\ [ins EXCEPT !.to = x] \in Instruction(B, J)
          /\ [ins EXCEPT !.to = x].k = ins.k /\ [ins EXCEPT !.to = x].to = x
      BY ONLY <3>3, <3>5, Retargeting
    <3>4. /\ [ins EXCEPT !.to = x] \in Instruction(1 .. K, J)
          /\ [ins EXCEPT !.to = x].k = ins.k /\ [ins EXCEPT !.to = x].to = x
      BY <3>6 DEF B
    <3> QED
      BY <3>1, <3>3, <3>4 DEF S
  <2> HIDE DEF x
  <2>6. code = Append(Front(s), patched)
    BY <1>7 DEF code, s
  <2> QED
    BY <2>3, <2>4, <2>5, <2>6, LastAppended
<1>15. Fits(h, b, {K})
  <2> DEFINE y == patched.to
             o == h.edge_out[b]
             hb == h.inss[b]
  <2>1. hb # <<>> /\ Last(hb).k = "cond" /\ y = Last(hb).to /\ y \in 1 .. K
    BY <1>3, <1>9, <1>13, <1>14
  <2>2. out \in Seq(1 .. K)
    <3>1. M <= K
      BY DEF K
    <3> HIDE DEF out
    <3> QED
      BY <1>2, <1>3, <3>1, MoreBbls
  <2> HIDE DEF out
  <2>3. o \in Seq(1 .. K)
    <3> DEFINE B == 1 .. K
    <3> HIDE DEF B, o
    <3>1. out \in Seq(B) /\ K \in B
      BY <1>3, <2>2 DEF B
    <3>2. ReplaceAll(out, other, K) \in Seq(B)
      BY ONLY <3>1, CountingReplaceAll
    <3>3. o = ReplaceAll(out, other, K)
      BY <1>13 DEF o, ra
    <3> QED
      BY <3>2, <3>3 DEF B
  <2>4. ASSUME NEW e
        PROVE  Times(o, e) = Times(<<y>>, e) + Times(<<K>>, e)
    <3>1. /\ Times(<<y>>, e) = (IF y = e THEN 1 ELSE 0) /\ Times(<<K>>, e) = (IF K = e THEN 1 ELSE 0)
      BY CountingOne
    <3>2. \A x : /\ Times(<<to>>, x) = (IF to = x THEN 1 ELSE 0)
                 /\ Times(<<other>>, x) = (IF other = x THEN 1 ELSE 0)
      BY CountingOne
    <3>3. \A x : Times(out, x) = (IF to = x THEN 1 ELSE 0) + (IF other = x THEN 1 ELSE 0)
      BY <3>2 DEF out
    <3>4. Times(ra, e) = IF other = K THEN Times(out, e)
              ELSE IF e = other THEN 0
              ELSE IF e = K THEN Times(out, K) + Times(out, other) ELSE Times(out, e)
      BY <1>3, <2>2, CountingReplaceAll DEF ra
    <3> HIDE DEF y, o, ra
    <3>5. y = IF to = other THEN K ELSE to
      BY <1>14 DEF y
    <3>6. o = ra
      BY <1>13 DEF o
    <3> QED
      BY <1>3, <3>1, <3>3, <3>4, <3>5, <3>6
  <2> HIDE DEF y, o, hb
  <2>5. /\ h.inss[b] # <<>> /\ Last(h.inss[b]).k = "cond" /\ y = Last(h.inss[b]).to
    BY <2>1 DEF hb
  <2>6. h.edge_out[b] \in Seq(1 .. K)
        /\ \A e : Times(h.edge_out[b], e) = Times(<<y>>, e) + Times(<<K>>, e)
    BY <2>3, <2>4 DEF o
  <2> QED
    BY <1>3, <2>1, <2>5, <2>6, FitsCond
<1>16. ASSUME NEW next
       PROVE  Fits(h, K, next)
  <2>1. h.inss[K] = new
    BY <1>3, <1>6, <1>9, <1>13
  <2>2. new # <<>> /\ Last(new) = Bra(other)
    <3>1. Len(new) = 1 /\ new[1] = Bra(other)
      BY DEF new
    <3>2. new # <<>>
      BY DEF new
    <3> HIDE DEF Bra
    <3>3. Last(new) = new[Len(new)]
      BY <1>1, <3>2, LastOne
    <3> QED
      BY <3>1, <3>2, <3>3
  <2>3. h.inss[K] # <<>> /\ Last(h.inss[K]).k = "bra" /\ h.edge_out[K] = <<Last(h.inss[K]).to>>
    BY <1>1, <1>13, <2>1, <2>2
  <2> QED
    BY <2>3, FitsBra
<1>17. \A c \in 1 .. M : c # b => h.inss[c] = f.inss[c] /\ h.edge_out[c] = f.edge_out[c]
  BY <1>3, <1>6, <1>9, <1>13
<1>19. Shaped(h, K)
  <2>1. h.inss[K] = new
    BY <1>3, <1>6, <1>9, <1>13
  <2>2. Len(new) = 1 /\ new[1] = Bra(other) /\ new # <<>>
    BY DEF new
  <2>3. Last(new) = Bra(other)
    <3> HIDE DEF Bra
    <3>1. Last(new) = new[Len(new)]
      BY <1>1, <2>2, LastOne
    <3> QED
      BY <2>2, <3>1
  <2>4. Tidy(new)
    BY <2>2 DEF Tidy
  <2>5. h.inss[K] # <<>> /\ Last(h.inss[K]).k = "bra" /\ h.edge_out[K] = <<Last(h.inss[K]).to>>
    BY <1>1, <1>13, <2>1, <2>2, <2>3
  <2>6. Tidy(h.inss[K])
    BY <2>1, <2>4
  <2> QED
    BY ONLY <2>5, <2>6, ShapedBra
<1>20. other \in ToSet(out)
  <2>1. Times(<<other>>, other) = 1 /\ Times(<<to>>, other) \in Nat
    BY CountingOne
  <2>2. Times(out, other) # 0
    BY <2>1
  <2> HIDE DEF out
  <2> QED
    BY <1>2, <2>2, Counting
<1>21. out \in Seq(1 .. K)
  <2>1. M <= K
    BY DEF K
  <2> HIDE DEF out
  <2> QED
    BY <1>2, <1>3, <2>1, MoreBbls
<1>22. ra \in Seq(1 .. K) /\ Len(ra) = 2
       /\ \A e : Times(ra, e) = IF other = K THEN Times(out, e)
                               ELSE IF e = other THEN 0
                               ELSE IF e = K THEN Times(out, K) + Times(out, other) ELSE Times(out, e)
  <2>1. Len(out) = 2
    OBVIOUS
  <2> DEFINE B == 1 .. K
  <2>2. K \in B /\ out \in Seq(B)
    BY <1>3, <1>21
  <2> HIDE DEF out, B
  <2>3. ASSUME NEW e
        PROVE  /\ ra \in Seq(B) /\ Len(ra) = Len(out)
               /\ Times(ra, e) = IF other = K THEN Times(out, e)
                                ELSE IF e = other THEN 0
                                ELSE IF e = K THEN Times(out, K) + Times(out, other)
                                ELSE Times(out, e)
    BY ONLY <2>2, CountingReplaceAll DEF ra
  <2> HIDE DEF ra
  <2> QED
    BY <2>1, <2>3 DEF B
<1>23. ToSet(ra) \subseteq ToSet(out) \cup {K}
  <2> HIDE DEF out, ra
  <2> SUFFICES ASSUME NEW e \in ToSet(ra), e # K
               PROVE  e \in ToSet(out)
    OBVIOUS
  <2>1. Times(ra, e) # 0
    BY <1>22, Counting
  <2>2. Times(out, e) # 0
    BY <1>3, <1>22, <2>1
  <2> QED
    BY <1>21, <2>2, Counting
<1>24. patched.to \in ToSet(ra)
  <2> DEFINE y == patched.to
  <2>1. y = IF to = other THEN K ELSE to
    BY <1>14
  <2>2. Times(out, to) # 0 /\ Times(out, to) \in Nat /\ Times(out, K) \in Nat
    <3>1. Times(<<to>>, to) = 1 /\ \A x : Times(<<other>>, x) \in Nat /\ Times(<<to>>, x) \in Nat
      BY CountingOne
    <3>2. Times(out, to) = Times(<<to>>, to) + Times(<<other>>, to)
      OBVIOUS
    <3>3. Times(out, to) \in Nat /\ Times(out, K) \in Nat
      <4> HIDE DEF out
      <4> QED
        BY <1>21, Counting
    <3> HIDE DEF out
    <3> QED
      BY <3>1, <3>2, <3>3
  <2> HIDE DEF out, ra, y
  <2>3. Times(ra, y) # 0
    BY <1>3, <1>22, <2>1, <2>2
  <2>4. y \in ToSet(ra)
    BY <1>22, <2>3, Counting
  <2> QED
    BY <2>4 DEF y
<1>25. Shaped(h, b)
  <2>1. h.inss[b] = code
    BY <1>9, <1>13
  <2>2. Tidy(code)
    <3>1. f.inss[b] \in Seq(Instruction(1 .. M, J))
      BY <1>2
    <3> QED
      BY <3>1, TidyReplaced DEF code
  <2> HIDE DEF ra
  <2>3. h.inss[b] # <<>> /\ Last(h.inss[b]).k = "cond" /\ Tidy(h.inss[b])
    BY <1>14, <2>1, <2>2
  <2>4. Len(h.edge_out[b]) = 2 /\ Last(h.inss[b]).to \in ToSet(h.edge_out[b])
    BY <1>13, <1>14, <1>22, <1>24, <2>1
  <2> QED
    BY ONLY <2>3, <2>4, ShapedCond
<1>26. ToSet(h.edge_out[b]) \subseteq ToSet(f.edge_out[b]) \cup {K} /\ other \in ToSet(f.edge_out[b])
  BY <1>13, <1>20, <1>23
<1> HIDE DEF out, ra
<1>18. Spliced(M, J, f, b, other, h)
  BY <1>13, <1>15, <1>16, <1>17, <1>19, <1>25, <1>26 DEF Spliced, K
<1> QED
  BY <1>5, <1>18

(* What the rounds of FunAddUnconditionalBranches work on.                 *)
LinState(J) == [f : UNION {Flow(M, J) : M \in Nat}, bbls : Seq(Nat), ok : BOOLEAN]

(* Bbls in the row have their shape, and edges do not leave the function.  *)
Formed(f, N, M, st) ==
  /\ \A c \in ToSet(st.bbls) : Shaped(st.f, c)
  /\ Inside(st.f, ToSet(f.bbls) \cup N + 1 .. M)
LinTo(N, J, f, j, M, st) == LinUpto(N, J, f, j, M, st) /\ Formed(f, N, M, st)

(* The round handles the j-th bbl, M being the number of bbls so far.      *)
LinRound(N, J, f, j, M, st) ==
  /\ Checked(N, J, f) /\ j \in 1 .. Len(f.bbls)
  /\ st \in LinState(J) /\ st.ok /\ LinTo(N, J, f, j - 1, M, st)

(* What it finds.                                                          *)
Found(N, M, J, f, j, st, w, b, s) ==
  /\ w = st.f /\ b = f.bbls[j] /\ s = st.bbls
  /\ f \in Flow(N, J) /\ IsInjective(f.bbls) /\ j \in 1 .. Len(f.bbls)
  /\ w \in Flow(M, J) /\ Mirrored(w) /\ w.bbls = f.bbls /\ w.jtb = f.jtb
  /\ N <= M /\ b \in 1 .. M /\ Shaped(w, b) /\ LinUpto(N, J, f, j - 1, M, st)
  /\ s \in Seq(1 .. M) /\ Formed(f, N, M, st) /\ b \in ToSet(f.bbls) /\ b \notin ToSet(s)
  /\ w.inss[b] = f.inss[b]

(* A round finds that.                                                     *)
LEMMA Finding ==
  ASSUME NEW N \in Nat, NEW J, NEW f, NEW j, NEW M \in Nat, NEW st, LinRound(N, J, f, j, M, st),
         NEW w, w = st.f, NEW b, b = f.bbls[j], NEW s, s = st.bbls
  PROVE  Found(N, M, J, f, j, st, w, b, s)
<1>1. /\ f \in Flow(N, J) /\ IsInjective(f.bbls) /\ j \in 1 .. Len(f.bbls)
      /\ LinUpto(N, J, f, j - 1, M, st) /\ Formed(f, N, M, st)
  BY DEF LinRound, LinTo, Checked
<1>2. /\ w \in Flow(M, J) /\ Mirrored(w) /\ w.bbls = f.bbls /\ w.jtb = f.jtb /\ N <= M
      /\ s \in Seq(1 .. M)
  BY <1>1 DEF LinUpto
<1>3. b \in 1 .. M /\ w.inss[b] = f.inss[b] /\ w.edge_out[b] = f.edge_out[b]
  <2>1. j \in (j - 1) + 1 .. Len(f.bbls)
    <3> DEFINE m == Len(f.bbls)
    <3>1. m \in Nat /\ j \in 1 .. m
      BY <1>1 DEF Flow
    <3> HIDE DEF m
    <3>2. j \in (j - 1) + 1 .. m
      BY <3>1
    <3> QED
      BY <3>2 DEF m
  <2>2. w.inss[b] = f.inss[b] /\ w.edge_out[b] = f.edge_out[b]
    BY <1>1, <2>1 DEF LinUpto
  <2>3. b \in 1 .. N
    <3>1. f.bbls \in Seq(1 .. N)
      BY <1>1 DEF Flow
    <3> QED
      BY <1>1, <3>1, ElementOfSeq
  <2> QED
    BY <1>2, <2>2, <2>3
<1>4. b \in ToSet(f.bbls) /\ Shaped(f, b)
  <2>1. f.bbls \in Seq(1 .. N)
    BY <1>1 DEF Flow
  <2>2. b \in ToSet(f.bbls)
    BY <1>1, <2>1 DEF ToSet
  <2> QED
    BY <2>2 DEF LinRound, Checked
<1>5. Shaped(w, b)
  BY <1>2, <1>3, <1>4, SameShape
<1>6. b \notin ToSet(s)
  <2>1. b \notin ToSet(st.bbls)
    BY <1>1, NextBbl, ZenonT(30)
  <2> QED
    BY <2>1
<1> QED
  BY <1>1, <1>2, <1>3, <1>4, <1>5, <1>6 DEF Found

(* The layout becomes longer, and nothing else changes.                    *)
StateWith(J, st, b, t) ==
  /\ t \in LinState(J) /\ t.f = st.f /\ t.bbls = Append(st.bbls, b) /\ t.ok = st.ok
  /\ [t EXCEPT !.ok = FALSE] \in LinState(J) /\ ~[t EXCEPT !.ok = FALSE].ok

(* Appending to the layout does that.                                      *)
LEMMA KeptState ==
  ASSUME NEW J, NEW st \in LinState(J), NEW b \in Nat, NEW t, t = [st EXCEPT !.bbls = Append(@, b)]
  PROVE  StateWith(J, st, b, t)
<1> DEFINE X == UNION {Flow(M, J) : M \in Nat}
           s == Append(st.bbls, b)
<1> HIDE DEF X
<1>1. st \in [f : X, bbls : Seq(Nat), ok : BOOLEAN]
  BY DEF LinState, X
<1>2. s \in Seq(Nat) /\ t = [st EXCEPT !.bbls = s]
  BY <1>1
<1> HIDE DEF s
<1>3. /\ t \in [f : X, bbls : Seq(Nat), ok : BOOLEAN] /\ t.f = st.f /\ t.bbls = s /\ t.ok = st.ok
      /\ [t EXCEPT !.ok = FALSE] \in [f : X, bbls : Seq(Nat), ok : BOOLEAN]
      /\ ~[t EXCEPT !.ok = FALSE].ok
  BY <1>1, <1>2
<1> QED
  BY <1>3 DEF LinState, X, s, StateWith

(* An instruction of b changes as well.                                    *)
StateOf(J, st, h, b, t) ==
  t \in LinState(J) /\ t.f = h /\ t.bbls = Append(st.bbls, b) /\ t.ok = st.ok

(* Changing the instructions of b does that.                               *)
LEMMA ChangedState ==
  ASSUME NEW J, NEW st \in LinState(J), NEW M \in Nat, NEW w \in Flow(M, J), w = st.f,
         NEW b \in 1 .. M, NEW u \in Seq(Instruction(1 .. M, J)),
         NEW h, h = [w EXCEPT !.inss[b] = u], NEW kept, kept = [st EXCEPT !.bbls = Append(@, b)],
         NEW t, t = [kept EXCEPT !.f.inss[b] = u]
  PROVE  StateOf(J, st, h, b, t)
<1> DEFINE X == UNION {Flow(K, J) : K \in Nat}
<1>1. h \in Flow(M, J)
  <2> DEFINE Ins == Instruction(1 .. M, J)
  <2> HIDE DEF Ins
  <2> QED
    BY DEF Flow, Ins
<1>2. h \in X
  BY <1>1
<1>3. kept \in LinState(J) /\ kept.f = w /\ kept.bbls = Append(st.bbls, b) /\ kept.ok = st.ok
  <2>1. b \in Nat
    OBVIOUS
  <2>2. StateWith(J, st, b, kept)
    BY <2>1, KeptState
  <2> QED
    BY <2>2 DEF StateWith
<1>4. t = [kept EXCEPT !.f = h]
  BY <1>3
<1> HIDE DEF X
<1>5. kept \in [f : X, bbls : Seq(Nat), ok : BOOLEAN]
  BY <1>3 DEF LinState, X
<1>6. t \in [f : X, bbls : Seq(Nat), ok : BOOLEAN] /\ t.f = h /\ t.bbls = kept.bbls /\ t.ok = kept.ok
  BY <1>2, <1>4, <1>5
<1> QED
  BY <1>3, <1>6 DEF LinState, X, StateOf

(* The j-th bbl joins the row: what counts is its shape.                   *)
LEMMA JoinedForm ==
  ASSUME NEW N, NEW M \in Nat, NEW J, NEW f, NEW j, NEW st, NEW w, NEW b, NEW s,
         Found(N, M, J, f, j, st, w, b, s), NEW h, h.jtb = w.jtb, h.edge_out = w.edge_out,
         \A c \in 1 .. M : c # b => h.inss[c] = w.inss[c], Shaped(h, b),
         NEW t, t.f = h, t.bbls = Append(s, b)
  PROVE  Formed(f, N, M, t)
<1>1. /\ w = st.f /\ s = st.bbls /\ b \in 1 .. M /\ s \in Seq(1 .. M) /\ b \notin ToSet(s)
      /\ \A c \in ToSet(s) : Shaped(w, c)
      /\ Inside(w, ToSet(f.bbls) \cup N + 1 .. M)
  BY DEF Found, Formed
<1>2. ToSet(t.bbls) = ToSet(s) \cup {b}
  BY <1>1, Pushing
<1>3. ASSUME NEW c \in ToSet(s)
      PROVE  Shaped(h, c)
  <2>1. c \in 1 .. M /\ c # b
    BY <1>1, ElementOfSeq DEF ToSet
  <2>2. h.inss[c] = w.inss[c] /\ h.edge_out[c] = w.edge_out[c] /\ Shaped(w, c)
    BY <1>1, <2>1
  <2> QED
    BY <2>2, SameShape
<1>4. \A c \in ToSet(t.bbls) : Shaped(h, c)
  BY <1>2, <1>3
<1> DEFINE L == ToSet(f.bbls) \cup N + 1 .. M
<1>5. Inside(w, L)
  BY <1>1
<1> HIDE DEF L
<1>6. Inside(h, L)
  BY <1>5, InsideSame
<1> QED
  BY <1>4, <1>6 DEF Formed, L

(* So does the bbl made for a branch.                                      *)
LEMMA SplicedForm ==
  ASSUME NEW N \in Nat, NEW M \in Nat, NEW J, NEW f, NEW j, NEW st, NEW w, NEW b, NEW s,
         Found(N, M, J, f, j, st, w, b, s), NEW other, NEW h, Spliced(M, J, w, b, other, h),
         NEW K, K = M + 1, NEW t, t.f = h, ToSet(t.bbls) = ToSet(s) \cup {b} \cup {K}
  PROVE  Formed(f, N, K, t)
<1> DEFINE L == ToSet(f.bbls) \cup N + 1 .. M
           R == ToSet(f.bbls) \cup N + 1 .. K
<1>1. /\ w = st.f /\ s = st.bbls /\ b \in 1 .. M /\ s \in Seq(1 .. M) /\ b \notin ToSet(s)
      /\ \A c \in ToSet(s) : Shaped(w, c)
      /\ Inside(w, L) /\ w.jtb = f.jtb /\ b \in ToSet(f.bbls) /\ N <= M
      /\ w \in Flow(M, J) /\ f \in Flow(N, J)
  BY DEF Found, Formed
<1>2. /\ h \in Flow(K, J) /\ h.jtb = w.jtb
      /\ \A c \in 1 .. M : c # b => h.inss[c] = w.inss[c] /\ h.edge_out[c] = w.edge_out[c]
      /\ Shaped(h, b) /\ Shaped(h, K) /\ h.edge_out[K] = <<other>>
      /\ ToSet(h.edge_out[b]) \subseteq ToSet(w.edge_out[b]) \cup {K}
      /\ other \in ToSet(w.edge_out[b])
  BY DEF Spliced
<1>3. ASSUME NEW c \in ToSet(s)
      PROVE  Shaped(h, c)
  <2>1. c \in 1 .. M /\ c # b
    BY <1>1, ElementOfSeq DEF ToSet
  <2>2. h.inss[c] = w.inss[c] /\ h.edge_out[c] = w.edge_out[c] /\ Shaped(w, c)
    BY <1>1, <1>2, <2>1
  <2> QED
    BY <1>2, <2>2, SameShape
<1>4. \A c \in ToSet(t.bbls) : Shaped(h, c)
  BY <1>2, <1>3
<1>5. DOMAIN h.edge_out = 1 .. K /\ DOMAIN w.edge_out = 1 .. M /\ w.edge_out \in [1 .. M -> Seq(1 .. M)]
  BY <1>1, <1>2 DEF Flow
<1>6. /\ \A c \in 1 .. M : c \in R <=> c \in L
      /\ K \in R /\ b \in L /\ \A c \in 1 .. K : c \in 1 .. M \/ c = K
  <2>1. \A c \in 1 .. M : c \in N + 1 .. K <=> c \in N + 1 .. M
    OBVIOUS
  <2>2. K \in N + 1 .. K /\ \A c \in 1 .. K : c \in 1 .. M \/ c = K
    BY <1>1
  <2> QED
    BY <1>1, <2>1, <2>2
<1> HIDE DEF L, R
<1>7. \A c \in 1 .. M : ToSet(w.edge_out[c]) \subseteq 1 .. M
  BY <1>5, ElementOfSeq DEF ToSet
<1>8. \A c \in 1 .. M : \A e \in ToSet(w.edge_out[c]) : c \in L <=> e \in L
  BY <1>1, <1>5 DEF Inside
<1>9. Inside(h, R)
  <2>1. ASSUME NEW c \in 1 .. K, NEW e \in ToSet(h.edge_out[c])
        PROVE  c \in R <=> e \in R
    <3>1. CASE c = K
      <4>1. ToSet(<<other>>) = {other}
        BY DEF ToSet
      <4>2. e = other
        BY <1>2, <2>1, <3>1, <4>1
      <4>3. other \in L /\ other \in 1 .. M
        BY <1>1, <1>2, <1>6, <1>7, <1>8
      <4> QED
        BY <1>6, <3>1, <4>2, <4>3
    <3>2. CASE c = b
      <4>1. e \in ToSet(w.edge_out[b]) \/ e = K
        BY <1>2, <2>1, <3>2
      <4>2. e \in ToSet(w.edge_out[b]) => e \in L /\ e \in 1 .. M
        BY <1>1, <1>6, <1>7, <1>8
      <4> QED
        BY <1>1, <1>6, <3>2, <4>1, <4>2
    <3>3. CASE c # K /\ c # b
      <4>1. c \in 1 .. M
        BY <1>6, <3>3
      <4>2. e \in ToSet(w.edge_out[c])
        BY <1>2, <2>1, <3>3, <4>1
      <4> QED
        BY <1>6, <1>7, <1>8, <4>1, <4>2
    <3> QED
      BY <3>1, <3>2, <3>3
  <2> QED
    BY <1>5, <2>1 DEF Inside
<1> QED
  BY <1>4, <1>9 DEF Formed, R

(* The round when only the layout changes.                                 *)
LEMMA KeptRound ==
  ASSUME NEW N \in Nat, NEW J, NEW f, NEW j, NEW M \in Nat, NEW st, NEW w, NEW b, NEW s,
         Found(N, M, J, f, j, st, w, b, s), Fits(w, b, After(f, j)),
         NEW t, t.f = w, t.bbls = Append(s, b)
  PROVE  LinTo(N, J, f, j, M, t)
<1>1. /\ f \in Flow(N, J) /\ IsInjective(f.bbls) /\ j \in 1 .. Len(f.bbls) /\ w = st.f
      /\ LinUpto(N, J, f, j - 1, M, st) /\ w \in Flow(M, J) /\ Mirrored(w) /\ w.bbls = f.bbls
      /\ w.jtb = f.jtb /\ b = f.bbls[j] /\ s = st.bbls
  BY DEF Found
<1>2. \A c \in 1 .. M : c # f.bbls[j] => w.inss[c] = st.f.inss[c] /\ w.edge_out[c] = st.f.edge_out[c]
  BY <1>1
<1> DEFINE next == After(f, j)
<1>3. Fits(w, b, next) /\ next = After(f, j)
  OBVIOUS
<1> HIDE DEF next
<1>4. LinUpto(N, J, f, j, M, t)
  BY <1>1, <1>2, <1>3, OneRound
<1>5. Formed(f, N, M, t)
  <2>1. Shaped(w, b) /\ w.jtb = w.jtb /\ w.edge_out = w.edge_out
        /\ \A c \in 1 .. M : c # b => w.inss[c] = w.inss[c]
    BY DEF Found
  <2>2. Found(N, M, J, f, j, st, w, b, s) /\ t.f = w /\ t.bbls = Append(s, b) /\ M \in Nat
    OBVIOUS
  <2> QED
    BY ONLY <2>1, <2>2, JoinedForm
<1> QED
  BY <1>4, <1>5 DEF LinTo

(* The round when the last instruction of b changes, or it gets a branch.  *)
LEMMA ChangedRound ==
  ASSUME NEW N \in Nat, NEW J, NEW f, NEW j, NEW M \in Nat, NEW st, NEW w, NEW b, NEW s,
         Found(N, M, J, f, j, st, w, b, s), NEW u \in Seq(Instruction(1 .. M, J)),
         NEW h, h = [w EXCEPT !.inss[b] = u], Fits(h, b, After(f, j)), Shaped(h, b),
         NEW t, t.f = h, t.bbls = Append(s, b)
  PROVE  LinTo(N, J, f, j, M, t)
<1>1. /\ f \in Flow(N, J) /\ IsInjective(f.bbls) /\ j \in 1 .. Len(f.bbls) /\ w = st.f
      /\ LinUpto(N, J, f, j - 1, M, st) /\ w \in Flow(M, J) /\ Mirrored(w) /\ w.bbls = f.bbls
      /\ w.jtb = f.jtb /\ b = f.bbls[j] /\ s = st.bbls /\ b \in 1 .. M
  BY DEF Found
<1>2. /\ h \in Flow(M, J) /\ Mirrored(h) /\ h.bbls = w.bbls /\ h.jtb = w.jtb
      /\ h.edge_out = w.edge_out
      /\ \A c \in 1 .. M : c # b => h.inss[c] = w.inss[c]
  BY <1>1, ChangingIns
<1>3. \A c \in 1 .. M : c # f.bbls[j] => h.inss[c] = st.f.inss[c] /\ h.edge_out[c] = st.f.edge_out[c]
  BY <1>1, <1>2
<1>4. h.bbls = f.bbls /\ h.jtb = f.jtb
  BY <1>1, <1>2
<1> DEFINE next == After(f, j)
<1>5. Fits(h, b, next) /\ next = After(f, j)
  OBVIOUS
<1>6. N \in Nat /\ M \in Nat /\ t.f = h /\ t.bbls = Append(s, b)
  OBVIOUS
<1> HIDE DEF next
<1>7. LinUpto(N, J, f, j, M, t)
  <2>1. /\ f \in Flow(N, J) /\ IsInjective(f.bbls) /\ j \in 1 .. Len(f.bbls)
        /\ LinUpto(N, J, f, j - 1, M, st) /\ b = f.bbls[j] /\ s = st.bbls
    BY <1>1
  <2>2. h \in Flow(M, J) /\ Mirrored(h)
    BY <1>2
  <2> QED
    BY ONLY <1>3, <1>4, <1>5, <1>6, <2>1, <2>2, OneRound, ZenonT(30)
<1>8. Formed(f, N, M, t)
  <2>1. Found(N, M, J, f, j, st, w, b, s) /\ Shaped(h, b)
    OBVIOUS
  <2> QED
    BY ONLY <1>2, <1>6, <2>1, JoinedForm
<1> QED
  BY <1>7, <1>8 DEF LinTo

(* The round that makes a bbl with a branch: it comes behind b.            *)
LEMMA SplicedRound ==
  ASSUME NEW N \in Nat, NEW J, NEW f, NEW j, NEW M \in Nat, NEW st, NEW w, NEW b, NEW s,
         Found(N, M, J, f, j, st, w, b, s), NEW other, NEW h, Spliced(M, J, w, b, other, h),
         NEW K, K = M + 1, NEW t, t.f = h, t.bbls = s \o <<b, K>>
  PROVE  LinTo(N, J, f, j, K, t)
<1>1. /\ f \in Flow(N, J) /\ IsInjective(f.bbls) /\ j \in 1 .. Len(f.bbls) /\ w = st.f
      /\ LinUpto(N, J, f, j - 1, M, st) /\ w \in Flow(M, J) /\ Mirrored(w) /\ w.bbls = f.bbls
      /\ w.jtb = f.jtb /\ b = f.bbls[j] /\ s = st.bbls /\ b \in 1 .. M /\ s \in Seq(1 .. M)
  BY DEF Found
<1> DEFINE next == After(f, j)
           x == {K}
<1> HIDE DEF next, x
<1>2. /\ h \in Flow(K, J) /\ Mirrored(h) /\ h.bbls = f.bbls /\ h.jtb = f.jtb
      /\ \A c \in 1 .. M : c # b => h.inss[c] = w.inss[c] /\ h.edge_out[c] = w.edge_out[c]
      /\ Fits(h, b, x) /\ Fits(h, K, next)
  BY <1>1 DEF Spliced, x
<1>3. \A c \in 1 .. M : c # f.bbls[j] => h.inss[c] = st.f.inss[c] /\ h.edge_out[c] = st.f.edge_out[c]
  BY <1>1, <1>2
<1>4. RowBy(M, h, s, b, x)
  BY <1>1, <1>2, <1>3, RowWith, ZenonT(30)
<1> DEFINE r == Append(s, b)
           u == Append(r, K)
<1>5. r \in Seq(1 .. M) /\ IsInjective(r) /\ ToSet(r) = ToSet(s) \cup {b} /\ Row(h, r, {K})
  BY <1>4 DEF RowBy, x
<1>6. K \in Nat /\ M <= K /\ K \in 1 .. K /\ K \notin 1 .. M /\ K .. K = {K}
  OBVIOUS
<1>7. t.bbls = u
  <2>1. <<b, K>> = <<b>> \o <<K>>
    BY TwoInARow
  <2>2. s \in Seq(1 .. K) /\ b \in 1 .. K
    BY <1>1, <1>6, MoreBbls
  <2> DEFINE S == 1 .. K
  <2>3. K \in S /\ b \in S /\ s \in Seq(S)
    BY <1>6, <2>2
  <2> HIDE DEF S
  <2>4. s \o (<<b>> \o <<K>>) = Append(Append(s, b), K)
    BY <2>3
  <2> QED
    BY <2>1, <2>4
<1>8. r \in Seq(1 .. K)
  BY <1>5, <1>6, MoreBbls
<1>9. K \notin ToSet(r)
  BY <1>5, <1>6, ElementOfSeq DEF ToSet
<1> HIDE DEF r
<1>10. u \in Seq(1 .. K) /\ ToSet(u) = ToSet(r) \cup {K} /\ IsInjective(u)
  BY <1>5, <1>6, <1>8, <1>9, Pushing
<1>11. Row(h, u, next)
  BY <1>2, <1>5, <1>6, <1>8, LongerRow
<1>12. ToSet(u) = ToSet(st.bbls) \cup {f.bbls[j]} \cup M + 1 .. K
  <2>1. M + 1 .. K = {K}
    BY <1>6
  <2> QED
    BY <1>1, <1>5, <1>10, <2>1
<1> HIDE DEF u
<1>13. /\ t.bbls \in Seq(1 .. K) /\ IsInjective(t.bbls) /\ Row(h, t.bbls, After(f, j))
       /\ ToSet(t.bbls) = ToSet(st.bbls) \cup {f.bbls[j]} \cup M + 1 .. K
  BY <1>7, <1>10, <1>11, <1>12 DEF next
<1>14. LinUpto(N, J, f, j, K, t)
  <2>1. N \in Nat /\ M \in Nat /\ t.f = h
    OBVIOUS
  <2> QED
    BY ONLY <1>1, <1>2, <1>3, <1>6, <1>13, <2>1, Placing, ZenonT(30)
<1>15. Formed(f, N, K, t)
  <2>1. ToSet(t.bbls) = ToSet(s) \cup {b} \cup {K}
    BY <1>5, <1>7, <1>10 DEF u
  <2> QED
    BY <2>1, SplicedForm
<1> QED
  BY <1>14, <1>15 DEF LinTo

(* An inverted branch is a conditional branch.                             *)
LEMMA FlippedType ==
  ASSUME NEW Id, NEW Bbl, NEW ins \in CondBra(Id, Bbl), NEW new_target \in Bbl
  PROVE  InsFlipCondBra(ins, new_target) \in CondBra(Id, Bbl)
<1> DEFINE inversion == BranchInversion[ins.op]
<1>1. inversion.op \in DOMAIN BranchInversion /\ inversion.flip \in BOOLEAN
  <2>1. ins.op \in {"beq", "bne", "ble", "blt"}
    BY DEF CondBra, BranchInversion
  <2>2. DOMAIN BranchInversion = {"beq", "bne", "ble", "blt"}
    BY DEF BranchInversion
  <2>3. /\ BranchInversion["beq"].op = "bne" /\ BranchInversion["bne"].op = "beq"
        /\ BranchInversion["ble"].op = "blt" /\ BranchInversion["blt"].op = "ble"
    BY DEF BranchInversion
  <2>4. /\ BranchInversion["beq"].flip = FALSE /\ BranchInversion["bne"].flip = FALSE
        /\ BranchInversion["ble"].flip = TRUE /\ BranchInversion["blt"].flip = TRUE
    BY DEF BranchInversion
  <2> HIDE DEF BranchInversion
  <2>5. BranchInversion[ins.op].op \in DOMAIN BranchInversion
    BY <2>1, <2>2, <2>3
  <2>6. BranchInversion[ins.op].flip \in BOOLEAN
    BY <2>1, <2>4
  <2> QED
    BY <2>5, <2>6
<1> HIDE DEF inversion
<1>2. InsFlipCondBra(ins, new_target) = [ins EXCEPT !.to = new_target, !.op = inversion.op,
                 !.swapped = IF inversion.flip THEN ~@ ELSE @]
  BY Zenon DEF InsFlipCondBra, inversion
<1> DEFINE s == IF inversion.flip THEN ~ins.swapped ELSE ins.swapped
<1>3. s \in BOOLEAN
  BY <1>1 DEF CondBra
<1>4. InsFlipCondBra(ins, new_target) = [ins EXCEPT !.to = new_target, !.op = inversion.op, !.swapped = s]
  BY <1>2
<1> HIDE DEF s
<1> QED
  BY <1>1, <1>3, <1>4 DEF CondBra

(* What a round does, case by case.                                        *)
Cases(st, b, n, w, out, cond, other, next, kept, t) ==
  /\ ~FallsThrough(w, b) => t = kept
  /\ FallsThrough(w, b) /\ n = Len(w.bbls) => t = [kept EXCEPT !.ok = FALSE]
  /\ FallsThrough(w, b) /\ n # Len(w.bbls) /\ Len(out) = 1 =>
       t = IF next = out[1] THEN kept
           ELSE [kept EXCEPT !.f.inss[b] = Append(kept.f.inss[b], Bra(out[1]))]
  /\ FallsThrough(w, b) /\ n # Len(w.bbls) /\ Len(out) # 1 =>
       t = IF ~Contains(out, next) THEN AddBraBbl(st, b, other)
           ELSE IF cond.to = next /\ cond.to # other
           THEN [kept EXCEPT !.f.inss[b] = Append(Front(kept.f.inss[b]), InsFlipCondBra(cond, other))]
           ELSE kept

(* Linearize is those cases.                                               *)
LEMMA RoundCases ==
  ASSUME NEW st, st.ok, NEW b, NEW n, NEW w, w = st.f, NEW out, out = w.edge_out[b],
         NEW cond, cond = Last(w.inss[b]),
         NEW other, other = IF cond.to = out[2] THEN out[1] ELSE out[2],
         NEW next, next = w.bbls[n + 1], NEW kept, kept = [st EXCEPT !.bbls = Append(@, b)]
  PROVE  Cases(st, b, n, w, out, cond, other, next, kept, Linearize(st, b, n))
<1>1. Linearize(st, b, n) =
        IF ~st.ok \/ ~FallsThrough(w, b) THEN kept
        ELSE IF n = Len(w.bbls) THEN [kept EXCEPT !.ok = FALSE]
        ELSE IF Len(out) = 1
        THEN IF next = out[1] THEN kept
             ELSE [kept EXCEPT !.f.inss[b] = Append(@, Bra(out[1]))]
        ELSE IF ~Contains(out, next) THEN AddBraBbl(st, b, other)
        ELSE IF cond.to = next /\ cond.to # other
        THEN [kept EXCEPT !.f.inss[b] = Append(Front(@), InsFlipCondBra(cond, other))]
        ELSE kept
  BY Zenon DEF Linearize, Inss
<1> QED
  BY <1>1, Zenon DEF Cases

(* The function could not be left in order: nothing more happens.          *)
LEMMA NoRound ==
  ASSUME NEW st, ~st.ok, NEW b, NEW n
  PROVE  Linearize(st, b, n) = [st EXCEPT !.bbls = Append(@, b)]
BY Zenon DEF Linearize

(* What a round leaves.                                                    *)
Rounded(N, J, f, j, t) ==
  /\ t \in LinState(J) /\ (t.ok => \E K \in Nat : LinTo(N, J, f, j, K, t))
  /\ t.ok \/ FallsThrough(f, Last(f.bbls))

(* The bbl that comes next.                                                *)
LEMMA NextOne ==
  ASSUME NEW N \in Nat, NEW J, NEW f \in Flow(N, J), NEW j \in 1 .. Len(f.bbls), j # Len(f.bbls)
  PROVE  f.bbls[j + 1] \in 1 .. N /\ After(f, j) = {f.bbls[j + 1]}
<1> DEFINE n == Len(f.bbls)
<1>1. n \in Nat /\ \A i \in 1 .. n : f.bbls[i] \in 1 .. N
  <2>1. f.bbls \in Seq(1 .. N)
    BY DEF Flow
  <2> QED
    BY <2>1, ElementOfSeq
<1>2. j \in 1 .. n /\ j # n
  OBVIOUS
<1> HIDE DEF n
<1>3. j < n /\ j + 1 \in 1 .. n
  BY <1>1, <1>2
<1> QED
  BY <1>1, <1>3 DEF After, n

(* A bbl without a terminator: it is kept, or gets a branch.               *)
Straight(f, j, st, w, b, x, next, kept, t) ==
  /\ x = w.edge_out[b][1] /\ next = f.bbls[j + 1] /\ kept = [st EXCEPT !.bbls = Append(@, b)]
  /\ t = IF next = x THEN kept
         ELSE [kept EXCEPT !.f.inss[b] = Append(kept.f.inss[b], Bra(x))]

(* The round of such a bbl.                                                *)
LEMMA StraightRound ==
  ASSUME NEW N \in Nat, NEW J, NEW f, NEW j, NEW M \in Nat, NEW st, NEW w, NEW b, NEW s,
         Found(N, M, J, f, j, st, w, b, s), st \in LinState(J), st.ok, j # Len(f.bbls),
         Kind(w, b) \in {"none", "plain"}, NEW x, NEW next, NEW kept, NEW t,
         Straight(f, j, st, w, b, x, next, kept, t)
  PROVE  Rounded(N, J, f, j, t)
<1>0. /\ x = w.edge_out[b][1] /\ next = f.bbls[j + 1] /\ kept = [st EXCEPT !.bbls = Append(@, b)]
      /\ t = IF next = x THEN kept
             ELSE [kept EXCEPT !.f.inss[b] = Append(kept.f.inss[b], Bra(x))]
  BY DEF Straight
<1> USE <1>0
<1> DEFINE out == w.edge_out[b]
           S == 1 .. M
<1>1. /\ w = st.f /\ s = st.bbls /\ w \in Flow(M, J) /\ b \in 1 .. M /\ Shaped(w, b)
      /\ f \in Flow(N, J) /\ j \in 1 .. Len(f.bbls)
  BY DEF Found
<1>2. out \in Seq(S) /\ w.inss[b] \in Seq(Instruction(S, J))
  <2> DEFINE Ins == Instruction(S, J)
  <2> HIDE DEF Ins
  <2>1. w.edge_out \in [1 .. M -> Seq(S)] /\ w.inss \in [1 .. M -> Seq(Ins)]
    BY <1>1 DEF Flow, Ins
  <2> QED
    BY <1>1, <2>1 DEF Ins
<1>3. Len(out) = 1
  BY <1>1 DEF Shaped
<1> HIDE DEF out
<1>4. out = <<x>> /\ x \in S
  <2>1. x = out[1]
    BY DEF out
  <2> HIDE DEF S
  <2>2. out = <<out[1]>> /\ out[1] \in S
    <3>1. out \in Seq(S) /\ Len(out) = 1
      BY <1>2, <1>3
    <3>2. out[1] \in S
      BY ONLY <3>1
    <3>3. out = <<out[1]>>
      BY ONLY <3>1
    <3> QED
      BY <3>2, <3>3
  <2> QED
    BY <2>1, <2>2
<1>5. After(f, j) = {next}
  BY <1>1, NextOne
<1>6. b \in Nat
  BY <1>1
<1>7. StateWith(J, st, b, kept)
  BY <1>6, KeptState
<1>8. kept \in LinState(J) /\ kept.f = w /\ kept.bbls = Append(s, b) /\ kept.ok
  BY <1>1, <1>7 DEF StateWith
<1>11. w.inss[b] = <<>> \/ Last(w.inss[b]).k = "plain"
  BY <1>1, Kinds
<1>9. CASE next = x
  <2>2. Fits(w, b, {x})
    BY <1>4, <1>11, FitsNext DEF out
  <2>3. Fits(w, b, After(f, j))
    BY <1>5, <1>9, <2>2
  <2>4. LinTo(N, J, f, j, M, kept)
    BY <1>8, <2>3, KeptRound
  <2>5. t = kept
    BY <1>9
  <2> QED
    BY <1>8, <2>4, <2>5 DEF Rounded
<1>10. CASE next # x
  <2> DEFINE u == Append(w.inss[b], Bra(x))
             h == [w EXCEPT !.inss[b] = u]
             Ins == Instruction(S, J)
  <2>1. Bra(x) \in Ins /\ Bra(x).k = "bra" /\ Bra(x).to = x
    BY <1>4 DEF Bra, Instruction
  <2> HIDE DEF Ins, S
  <2>2. u \in Seq(Ins) /\ u # <<>> /\ Last(u) = Bra(x)
    <3> DEFINE y == w.inss[b]
    <3>1. y \in Seq(Ins)
      BY <1>2 DEF Ins
    <3> HIDE DEF y
    <3>2. Append(y, Bra(x)) \in Seq(Ins) /\ Append(y, Bra(x)) # <<>> /\ Last(Append(y, Bra(x))) = Bra(x)
      BY <2>1, <3>1, LastAppended
    <3> QED
      BY <3>2 DEF y
  <2>3. t = [kept EXCEPT !.f.inss[b] = u]
    BY <1>8, <1>10
  <2> HIDE DEF u
  <2>4. u \in Seq(Instruction(1 .. M, J))
    BY <2>2 DEF Ins, S
  <2> HIDE DEF h
  <2>5. t \in LinState(J) /\ t.f = h /\ t.bbls = Append(st.bbls, b) /\ t.ok
    <3>1. h = [w EXCEPT !.inss[b] = u]
      BY DEF h
    <3>3. /\ M \in Nat /\ st \in LinState(J) /\ kept = [st EXCEPT !.bbls = Append(@, b)]
          /\ w = st.f /\ w \in Flow(M, J) /\ b \in 1 .. M
      BY <1>1
    <3>2. StateOf(J, st, h, b, t)
      BY ONLY <2>3, <2>4, <3>1, <3>3, ChangedState
    <3> QED
      BY <3>2 DEF StateOf
  <2>6. h.inss[b] = u /\ h.edge_out[b] = out
    BY <1>1 DEF h, Flow, out
  <2>7. h.inss[b] # <<>> /\ Last(h.inss[b]).k = "bra" /\ h.edge_out[b] = <<Last(h.inss[b]).to>>
    BY <1>4, <2>1, <2>2, <2>6
  <2>8. Fits(h, b, After(f, j))
    BY <2>7, FitsBra
  <2>9. h = [w EXCEPT !.inss[b] = u] /\ t.f = h /\ t.bbls = Append(s, b)
    BY <1>1, <2>5 DEF h
  <2>11. Shaped(h, b)
    <3>1. Tidy(w.inss[b])
      BY <1>1 DEF Shaped
    <3> DEFINE y == w.inss[b]
    <3>2. y \in Seq(Ins) /\ Tidy(y) /\ (y = <<>> \/ Last(y).k = "plain") /\ u = Append(y, Bra(x))
      BY <1>2, <1>11, <3>1 DEF Ins, u
    <3> HIDE DEF y
    <3>3. Tidy(u)
      BY <3>2, TidyAppended
    <3> QED
      BY <2>6, <2>7, <3>3, ShapedBra
  <2>10. LinTo(N, J, f, j, M, t)
    <3>1. N \in Nat /\ M \in Nat /\ Found(N, M, J, f, j, st, w, b, s)
      OBVIOUS
    <3> QED
      BY ONLY <2>4, <2>8, <2>9, <2>11, <3>1, ChangedRound
  <2> QED
    BY <2>5, <2>10 DEF Rounded
<1> QED
  BY <1>9, <1>10

(* What AddBraBbl returns, field by field.                                 *)
LEMMA BraFields ==
  ASSUME NEW st, NEW b, NEW other, NEW K, K = Newest(NewBbls(st.f, << <<Bra(other)>> >>)),
         NEW t, t = AddBraBbl(st, b, other)
  PROVE  t = [f |-> t.f, bbls |-> st.bbls \o <<b, K>>, ok |-> st.ok]
<1> DEFINE g == NewBbls(st.f, << <<Bra(other)>> >>)
           h == AddEdgeOut(ReplaceEdgeOut(InsMaybePatchNewSuccessor(g, b, other, Newest(g)),
                                          b, other, Newest(g)), Newest(g), other)
<1> HIDE DEF g
<1>1. t = [f |-> h, bbls |-> st.bbls \o <<b, Newest(g)>>, ok |-> st.ok]
  BY Zenon DEF AddBraBbl, g
<1>2. Newest(g) = K
  BY DEF g
<1> HIDE DEF h
<1> QED
  BY <1>1, <1>2

(* A bbl with a conditional branch: it is kept, or inverted, or its other  *)
(* edge gets a bbl with a branch.                                          *)
Forked(f, j, st, w, b, out, cond, other, next, kept, t) ==
  /\ out = w.edge_out[b] /\ cond = Last(w.inss[b]) /\ next = f.bbls[j + 1]
  /\ other = IF cond.to = out[2] THEN out[1] ELSE out[2]
  /\ kept = [st EXCEPT !.bbls = Append(@, b)]
  /\ t = IF ~Contains(out, next) THEN AddBraBbl(st, b, other)
         ELSE IF cond.to = next /\ cond.to # other
         THEN [kept EXCEPT !.f.inss[b] = Append(Front(kept.f.inss[b]), InsFlipCondBra(cond, other))]
         ELSE kept

(* The round of such a bbl.                                                *)
LEMMA CondRound ==
  ASSUME NEW N \in Nat, NEW J, NEW f, NEW j, NEW M \in Nat, NEW st, NEW w, NEW b, NEW s,
         Found(N, M, J, f, j, st, w, b, s), st \in LinState(J), st.ok, j # Len(f.bbls),
         Kind(w, b) = "cond", NEW out, NEW cond, NEW other, NEW next, NEW kept, NEW t,
         Forked(f, j, st, w, b, out, cond, other, next, kept, t)
  PROVE  Rounded(N, J, f, j, t)
<1>0. /\ out = w.edge_out[b] /\ cond = Last(w.inss[b]) /\ next = f.bbls[j + 1]
      /\ other = IF cond.to = out[2] THEN out[1] ELSE out[2]
      /\ kept = [st EXCEPT !.bbls = Append(@, b)]
      /\ t = IF ~Contains(out, next) THEN AddBraBbl(st, b, other)
             ELSE IF cond.to = next /\ cond.to # other
             THEN [kept EXCEPT !.f.inss[b] = Append(Front(kept.f.inss[b]), InsFlipCondBra(cond, other))]
             ELSE kept
  BY DEF Forked
<1> USE <1>0
<1> DEFINE S == 1 .. M
           Ins == Instruction(S, J)
           to == cond.to
           y == w.inss[b]
<1>1. /\ w = st.f /\ s = st.bbls /\ w \in Flow(M, J) /\ Mirrored(w) /\ b \in 1 .. M /\ Shaped(w, b)
      /\ f \in Flow(N, J) /\ j \in 1 .. Len(f.bbls) /\ s \in Seq(1 .. M)
  BY DEF Found
<1>2. out \in Seq(S) /\ y \in Seq(Ins)
  <2> HIDE DEF Ins
  <2>1. w.edge_out \in [1 .. M -> Seq(S)] /\ w.inss \in [1 .. M -> Seq(Ins)]
    BY <1>1 DEF Flow, Ins
  <2> QED
    BY <1>1, <2>1
<1>3. Len(out) = 2 /\ to \in ToSet(out) /\ Tidy(y)
  BY <1>1 DEF Shaped
<1>4. y # <<>> /\ cond \in Ins /\ cond.k = "cond" /\ Last(y) = cond
  BY <1>1, Kinds
<1> HIDE DEF to, S, Ins
<1>5. /\ to \in S /\ other \in S /\ ToSet(out) = {to, other}
      /\ \A e : Times(out, e) = Times(<<to>>, e) + Times(<<other>>, e)
  <2>1. other = IF to = out[2] THEN out[1] ELSE out[2]
    BY DEF to
  <2> QED
    BY <1>2, <1>3, <2>1, TwoEdges, SMTT(30)
<1>6. After(f, j) = {next}
  <2>1. N \in Nat /\ f \in Flow(N, J) /\ j \in 1 .. Len(f.bbls) /\ j # Len(f.bbls)
    BY <1>1
  <2>2. After(f, j) = {f.bbls[j + 1]}
    BY ONLY <2>1, NextOne
  <2>3. next = f.bbls[j + 1]
    BY <1>0
  <2> QED
    BY ONLY <2>2, <2>3
<1>7. StateWith(J, st, b, kept)
  <2>1. b \in Nat
    <3>1. b \in 1 .. M /\ M \in Nat
      BY <1>1
    <3> QED
      BY ONLY <3>1
  <2> QED
    BY <2>1, KeptState
<1>8. kept \in LinState(J) /\ kept.f = w /\ kept.bbls = Append(s, b) /\ kept.ok
  BY <1>1, <1>7 DEF StateWith
<1>13. other \in ToSet(out)
  BY <1>5
<1>9. Contains(out, next) <=> next \in {to, other}
  BY <1>2, <1>5, Containing
<1>10. CASE next \notin {to, other}
  <2> DEFINE K == M + 1
             h == AddBraBbl(st, b, other).f
  <2>1. t = AddBraBbl(st, b, other)
    BY <1>9, <1>10
  <2>2. Spliced(M, J, w, b, other, h)
    <3>1. to \in 1 .. M /\ other \in 1 .. M
      BY <1>5 DEF S
    <3>2. w.inss[b] # <<>> /\ Last(w.inss[b]).k = "cond" /\ to = Last(w.inss[b]).to
      BY <1>4 DEF to
    <3>3. \A e : Times(w.edge_out[b], e) = Times(<<to>>, e) + Times(<<other>>, e)
      BY <1>5
    <3>4. M \in Nat /\ w \in Flow(M, J) /\ Mirrored(w) /\ b \in 1 .. M /\ st.f = w
      BY <1>1
    <3>5. Tidy(w.inss[b]) /\ Len(w.edge_out[b]) = 2
      BY <1>3
    <3> QED
      BY ONLY <3>1, <3>2, <3>3, <3>4, <3>5, Splicing
  <2> HIDE DEF h
  <2>3. t.f = h /\ t.bbls = s \o <<b, K>> /\ t = [f |-> t.f, bbls |-> t.bbls, ok |-> st.ok]
    <3>1. Newest(NewBbls(st.f, << <<Bra(other)>> >>)) = K
      <4>1. <<Bra(other)>> \in Seq(Instruction(1 .. M, J))
        <5>1. Bra(other) \in Ins
          BY <1>5 DEF Bra, Instruction, Ins
        <5> HIDE DEF Bra
        <5>2. <<Bra(other)>> \in Seq(Ins)
          BY <5>1
        <5> QED
          BY <5>2 DEF Ins, S
      <4>2. Grown(M, J, w, <<Bra(other)>>, NewBbls(w, << <<Bra(other)>> >>))
        BY <1>1, <4>1, Growing
      <4> QED
        BY <1>1, <4>2 DEF Grown
    <3> HIDE DEF K
    <3>2. t.f = h
      BY <2>1 DEF h
    <3>3. t = [f |-> t.f, bbls |-> st.bbls \o <<b, K>>, ok |-> st.ok]
      BY ONLY <2>1, <3>1, BraFields
    <3> DEFINE z == st.bbls \o <<b, K>>
    <3> HIDE DEF z
    <3>4. t = [f |-> t.f, bbls |-> z, ok |-> st.ok]
      BY <3>3 DEF z
    <3>5. t.bbls = z
      <4> DEFINE tf == t.f
      <4>1. t = [f |-> tf, bbls |-> z, ok |-> st.ok]
        BY ONLY <3>4
      <4> HIDE DEF tf
      <4>2. [f |-> tf, bbls |-> z, ok |-> st.ok].bbls = z
        OBVIOUS
      <4> QED
        BY ONLY <4>1, <4>2
    <3>6. z = s \o <<b, K>>
      BY <1>1 DEF z
    <3> QED
      BY <3>2, <3>4, <3>5, <3>6
  <2>4. K \in Nat /\ K = M + 1
    OBVIOUS
  <2> HIDE DEF K
  <2>5. LinTo(N, J, f, j, K, t)
    <3>1. N \in Nat /\ M \in Nat /\ Found(N, M, J, f, j, st, w, b, s)
      OBVIOUS
    <3> QED
      BY ONLY <2>2, <2>3, <2>4, <3>1, SplicedRound
  <2>6. t \in LinState(J)
    <3>1. t.f \in Flow(K, J) /\ t.bbls \in Seq(1 .. K)
      BY <2>5 DEF LinTo, LinUpto
    <3> DEFINE X == UNION {Flow(L, J) : L \in Nat}
    <3>2. t.f \in X
      BY <2>4, <3>1
    <3>3. t.bbls \in Seq(Nat)
      <4>1. 1 .. K \subseteq Nat
        OBVIOUS
      <4>2. Seq(1 .. K) \subseteq Seq(Nat)
        BY <4>1, SeqMonotonic
      <4> QED
        BY <3>1, <4>2
    <3> HIDE DEF X
    <3>4. st \in [f : X, bbls : Seq(Nat), ok : BOOLEAN]
      BY DEF LinState, X
    <3>5. st.ok \in BOOLEAN
      BY <3>4
    <3>6. [f |-> t.f, bbls |-> t.bbls, ok |-> st.ok] \in [f : X, bbls : Seq(Nat), ok : BOOLEAN]
      BY <3>2, <3>3, <3>5
    <3>7. t \in [f : X, bbls : Seq(Nat), ok : BOOLEAN]
      BY ONLY <2>3, <3>6
    <3> QED
      BY <3>7 DEF LinState, X
  <2>7. t.ok
    <3> DEFINE tf == t.f
               tb == t.bbls
    <3>1. t = [f |-> tf, bbls |-> tb, ok |-> st.ok]
      BY ONLY <2>3
    <3> HIDE DEF tf, tb
    <3>2. [f |-> tf, bbls |-> tb, ok |-> st.ok].ok = st.ok
      OBVIOUS
    <3>3. t.ok = st.ok
      BY ONLY <3>1, <3>2
    <3> QED
      BY <3>3
  <2> QED
    BY <2>4, <2>5, <2>6, <2>7 DEF Rounded
<1>11. CASE next \in {to, other} /\ to = next /\ to # other
  <2> DEFINE flipped == InsFlipCondBra(cond, other)
             front == Front(y)
             u == Append(front, flipped)
             h == [w EXCEPT !.inss[b] = u]
  <2>1. cond \in CondBra(Name, S)
    BY <1>4, InstructionFields DEF Ins
  <2>2. flipped \in CondBra(Name, S) /\ flipped.k = "cond" /\ flipped.to = other
    <3>1. other \in S
      BY <1>5
    <3>4. /\ InsFlipCondBra(cond, other).k = "cond"
          /\ InsFlipCondBra(cond, other).to = other
      BY ONLY <2>1, <3>1, FlippedFields
    <3>2. flipped.k = "cond" /\ flipped.to = other
      BY <3>4
    <3>3. flipped \in CondBra(Name, S)
      BY <2>1, <3>1, FlippedType
    <3> QED
      BY <3>2, <3>3
  <2> HIDE DEF flipped
  <2>3. flipped \in Ins
    BY <2>2 DEF Ins, CondBra, Instruction
  <2> HIDE DEF y
  <2>4. front \in Seq(Ins)
    BY <1>2, <1>4, Popping
  <2> HIDE DEF front
  <2>5. u \in Seq(Ins) /\ u # <<>> /\ Last(u) = flipped
    BY <2>3, <2>4, LastAppended
  <2>6. t = [kept EXCEPT !.f.inss[b] = u]
    <3>1. to = cond.to /\ kept.f.inss[b] = y
      BY <1>8 DEF to, y
    <3> QED
      BY <1>9, <1>11, <3>1 DEF flipped, front
  <2> HIDE DEF u, h
  <2>7. u \in Seq(Instruction(1 .. M, J)) /\ h = [w EXCEPT !.inss[b] = u]
    BY <2>5 DEF Ins, S, h
  <2>8. t \in LinState(J) /\ t.f = h /\ t.bbls = Append(s, b) /\ t.ok
    <3>1. /\ M \in Nat /\ st \in LinState(J) /\ kept = [st EXCEPT !.bbls = Append(@, b)]
          /\ w = st.f /\ w \in Flow(M, J) /\ b \in 1 .. M
      BY <1>1
    <3>2. StateOf(J, st, h, b, t)
      BY ONLY <2>6, <2>7, <3>1, ChangedState
    <3> QED
      BY <1>1, <3>2 DEF StateOf
  <2>9. h.inss[b] = u /\ h.edge_out[b] = out
    BY <1>1 DEF h, Flow
  <2>10. Fits(h, b, {next})
    <3>1. h.inss[b] # <<>> /\ Last(h.inss[b]).k = "cond" /\ other = Last(h.inss[b]).to
      BY <2>2, <2>5, <2>9
    <3>2. ASSUME NEW e
          PROVE  Times(h.edge_out[b], e) = Times(<<other>>, e) + Times(<<next>>, e)
      <4>1. /\ Times(<<other>>, e) = (IF other = e THEN 1 ELSE 0)
            /\ Times(<<next>>, e) = (IF next = e THEN 1 ELSE 0)
        BY CountingOne
      <4>2. Times(out, e) = Times(<<next>>, e) + Times(<<other>>, e)
        BY <1>5, <1>11
      <4> QED
        BY <2>9, <4>1, <4>2, SMTT(30)
    <3>3. h.edge_out[b] \in Seq(S) /\ next \in S /\ other \in S
      BY <1>2, <1>5, <1>11, <2>9
    <3> QED
      BY ONLY <3>1, <3>2, <3>3, FitsCond
  <2>12. Shaped(h, b)
    <3>1. Tidy(u)
      <4>1. y \in Seq(Ins) /\ y # <<>> /\ Tidy(y)
        BY <1>2, <1>3, <1>4
      <4> QED
        BY <4>1, TidyReplaced DEF u, front
    <3>2. h.inss[b] # <<>> /\ Last(h.inss[b]).k = "cond" /\ Last(h.inss[b]).to = other
      BY <2>2, <2>5, <2>9
    <3>3. Tidy(h.inss[b]) /\ Len(h.edge_out[b]) = 2 /\ other \in ToSet(h.edge_out[b])
      BY <1>3, <1>13, <2>9, <3>1
    <3> QED
      BY ONLY <3>2, <3>3, ShapedCond
  <2>11. LinTo(N, J, f, j, M, t)
    <3>1. N \in Nat /\ M \in Nat /\ Found(N, M, J, f, j, st, w, b, s)
      OBVIOUS
    <3>2. Fits(h, b, After(f, j))
      BY <1>6, <2>10
    <3> QED
      BY ONLY <2>7, <2>8, <2>12, <3>1, <3>2, ChangedRound
  <2> QED
    BY <2>8, <2>11 DEF Rounded
<1>12. CASE next \in {to, other} /\ ~(to = next /\ to # other)
  <2>1. next = other
    BY <1>12
  <2>2. t = kept
    BY <1>9, <1>12 DEF to
  <2>3. w.inss[b] # <<>> /\ Last(w.inss[b]).k = "cond" /\ to = Last(w.inss[b]).to
    BY <1>4 DEF to
  <2>4. /\ w.edge_out[b] \in Seq(S)
        /\ \A e : Times(w.edge_out[b], e) = Times(<<to>>, e) + Times(<<other>>, e)
    BY <1>2, <1>5
  <2>5. Fits(w, b, {other})
    BY ONLY <1>5, <2>3, <2>4, FitsCond
  <2>6. Fits(w, b, After(f, j))
    BY <1>6, <2>1, <2>5
  <2>7. LinTo(N, J, f, j, M, kept)
    BY <1>8, <2>6, KeptRound
  <2> QED
    BY <1>8, <2>2, <2>7 DEF Rounded
<1> QED
  BY <1>10, <1>11, <1>12

(* One round.                                                              *)
LEMMA Rounding ==
  ASSUME NEW N \in Nat, NEW J, NEW f, NEW j, NEW M \in Nat, NEW st, LinRound(N, J, f, j, M, st)
  PROVE  Rounded(N, J, f, j, Linearize(st, f.bbls[j], j))
<1> DEFINE w == st.f
           b == f.bbls[j]
           s == st.bbls
           out == w.edge_out[b]
           cond == Last(w.inss[b])
           other == IF cond.to = out[2] THEN out[1] ELSE out[2]
           next == f.bbls[j + 1]
           kept == [st EXCEPT !.bbls = Append(@, b)]
           t == Linearize(st, b, j)
           x == out[1]
<1> HIDE DEF w, b, s
<1>1. Found(N, M, J, f, j, st, w, b, s)
  BY Finding DEF w, b, s
<1>2. /\ w = st.f /\ s = st.bbls /\ w \in Flow(M, J) /\ b \in 1 .. M /\ Shaped(w, b) /\ w.bbls = f.bbls
  BY <1>1 DEF Found
<1>3. st \in LinState(J) /\ st.ok
  BY DEF LinRound
<1>4. Cases(st, b, j, w, out, cond, other, next, kept, t)
  <2>1. next = w.bbls[j + 1]
    BY <1>2
  <2> HIDE DEF next, other, cond, out, kept
  <2> QED
    BY <1>2, <1>3, <2>1, RoundCases DEF other, cond, out, kept
<1> HIDE DEF out, cond, other, next, kept, t, x
<1>5. StateWith(J, st, b, kept)
  <2>1. b \in Nat
    BY <1>2
  <2> QED
    BY <1>3, <2>1, KeptState DEF kept
<1>6. kept \in LinState(J) /\ kept.f = w /\ kept.bbls = Append(s, b) /\ kept.ok
  BY <1>2, <1>3, <1>5 DEF StateWith
<1>7. /\ FallsThrough(w, b) <=> Kind(w, b) \in {"none", "plain", "cond"}
      /\ Kind(w, b) \in {"none", "plain", "ret", "bra", "cond", "switch"}
  BY <1>2, Kinds
<1>8. CASE ~FallsThrough(w, b)
  <2>1. t = kept
    BY <1>4, <1>8 DEF Cases
  <2>2. Fits(w, b, After(f, j))
    BY <1>2, <1>8, FitsAny
  <2>3. LinTo(N, J, f, j, M, kept)
    BY <1>1, <1>6, <2>2, KeptRound
  <2> QED
    BY <1>6, <2>1, <2>3 DEF Rounded, t, b
<1>9. CASE FallsThrough(w, b) /\ j = Len(w.bbls)
  <2>1. t = [kept EXCEPT !.ok = FALSE]
    BY <1>4, <1>9 DEF Cases
  <2>2. t \in LinState(J) /\ ~t.ok
    BY <1>5, <2>1 DEF StateWith
  <2>3. w.inss[b] = f.inss[b] /\ b = f.bbls[Len(f.bbls)] /\ f.bbls \in Seq(1 .. N) /\ f.bbls # <<>>
    <3>1. w.inss[b] = f.inss[b] /\ b = f.bbls[j] /\ j \in 1 .. Len(f.bbls) /\ f \in Flow(N, J)
      BY <1>1 DEF Found
    <3>2. j = Len(f.bbls)
      BY <1>2, <1>9
    <3>3. f.bbls \in Seq(1 .. N) /\ b = f.bbls[Len(f.bbls)] /\ Len(f.bbls) \in 1 .. Len(f.bbls)
      BY ONLY <3>1, <3>2 DEF Flow
    <3>4. f.bbls # <<>>
      BY ONLY <3>3
    <3> QED
      BY ONLY <3>1, <3>3, <3>4
  <2>4. Last(f.bbls) = b
    BY <2>3, LastOne
  <2>5. FallsThrough(f, b)
    BY <1>9, <2>3 DEF FallsThrough, Inss
  <2> QED
    BY <2>2, <2>4, <2>5 DEF Rounded, t, b
<1>10. CASE FallsThrough(w, b) /\ j # Len(w.bbls) /\ Kind(w, b) \in {"none", "plain"}
  <2>1. Len(out) = 1
    BY <1>2, <1>10 DEF Shaped, out
  <2>2. t = IF next = x THEN kept
            ELSE [kept EXCEPT !.f.inss[b] = Append(kept.f.inss[b], Bra(x))]
    BY <1>4, <1>10, <2>1 DEF Cases, x
  <2>3. x = w.edge_out[b][1] /\ next = f.bbls[j + 1] /\ kept = [st EXCEPT !.bbls = Append(@, b)]
    BY DEF x, out, next, kept
  <2>4. N \in Nat /\ M \in Nat /\ j # Len(f.bbls) /\ Kind(w, b) \in {"none", "plain"}
    BY <1>2, <1>10
  <2>5. Straight(f, j, st, w, b, x, next, kept, t)
    BY <2>2, <2>3 DEF Straight
  <2>6. Rounded(N, J, f, j, t)
    BY ONLY <1>1, <1>3, <2>4, <2>5, StraightRound
  <2> QED
    BY <2>6 DEF t, b
<1>11. CASE FallsThrough(w, b) /\ j # Len(w.bbls) /\ Kind(w, b) = "cond"
  <2>1. Len(out) # 1
    <3>1. Shaped(w, b)
      BY <1>2
    <3>2. Kind(w, b) = "cond" => Len(w.edge_out[b]) = 2
      BY ONLY <3>1 DEF Shaped
    <3>3. Len(w.edge_out[b]) = 2
      BY ONLY <3>2, <1>11
    <3> QED
      BY ONLY <3>3 DEF out
  <2>2. t = IF ~Contains(out, next) THEN AddBraBbl(st, b, other)
            ELSE IF cond.to = next /\ cond.to # other
            THEN [kept EXCEPT !.f.inss[b] = Append(Front(kept.f.inss[b]), InsFlipCondBra(cond, other))]
            ELSE kept
    BY <1>4, <1>11, <2>1 DEF Cases
  <2>3. /\ out = w.edge_out[b] /\ cond = Last(w.inss[b]) /\ next = f.bbls[j + 1]
        /\ other = IF cond.to = out[2] THEN out[1] ELSE out[2]
        /\ kept = [st EXCEPT !.bbls = Append(@, b)]
    BY DEF out, cond, other, next, kept
  <2>4. N \in Nat /\ M \in Nat /\ j # Len(f.bbls) /\ Kind(w, b) = "cond"
    BY <1>2, <1>11
  <2>5. Forked(f, j, st, w, b, out, cond, other, next, kept, t)
    BY <2>2, <2>3 DEF Forked
  <2>6. Rounded(N, J, f, j, t)
    BY ONLY <1>1, <1>3, <2>4, <2>5, CondRound
  <2> QED
    BY <2>6 DEF t, b
<1> QED
  BY <1>7, <1>8, <1>9, <1>10, <1>11

(* What the rounds of LinearizeAll keep to.                                *)
LinStays(f, I) ==
  \A j \in 1 .. Len([m \in DOMAIN f.bbls |-> m]) : \A v \in I[j - 1] :
    Linearize(v, f.bbls[[m \in DOMAIN f.bbls |-> m][j]], [m \in DOMAIN f.bbls |-> m][j]) \in I[j]

(* A family of sets that its rounds lead through holds its result.         *)
LEMMA LinLoop ==
  ASSUME NEW f, DOMAIN f.bbls = 1 .. Len(f.bbls), Len(f.bbls) \in Nat,
         NEW I, [f |-> f, bbls |-> <<>>, ok |-> TRUE] \in I[0], LinStays(f, I)
  PROVE  LinearizeAll(f) \in I[Len([m \in DOMAIN f.bbls |-> m])]
<1> DEFINE base == [f |-> f, bbls |-> <<>>, ok |-> TRUE]
           seq == [m \in DOMAIN f.bbls |-> m]
           n == Len(seq)
           Rnd(v, e) == Linearize(v, f.bbls[e], e)
           F(h) == [j \in 0 .. n |->
                      IF j = 0 THEN base
                      ELSE CHOOSE end \in {Rnd(mid, seq[j]) : mid \in {h[j - 1]}} : TRUE]
           fold == CHOOSE h : h = F(h)
           A == UNION {I[j] : j \in 0 .. n}
           step == [z \in (1 .. n) \X A |-> Rnd(z[2], seq[z[1]])]
<1>0. n \in Nat /\ base \in I[0]
  OBVIOUS
<1>1. \A j \in 1 .. n : \A v \in I[j - 1] : Rnd(v, seq[j]) \in I[j]
  BY DEF LinStays
<1> HIDE DEF Rnd, seq, n, base
<1>2. \A j \in 0 .. n : I[j] \subseteq A
  OBVIOUS
<1>3. \A j \in 1 .. n : j - 1 \in 0 .. n /\ \A v \in I[j - 1] : step[<<j, v>>] = Rnd(v, seq[j])
  <2>1. \A j \in 1 .. n : j - 1 \in 0 .. n
    BY <1>0
  <2>2. \A j \in 1 .. n : \A v \in A : step[<<j, v>>] = Rnd(v, seq[j])
    OBVIOUS
  <2> HIDE DEF step
  <2> QED
    BY <1>2, <2>1, <2>2
<1> HIDE DEF step, A
<1>4. PICK g : g \in Loops(n, I, A, base, step)
  <2>1. Rounds(n, I, step) /\ Family(n, I, A)
    BY <1>1, <1>2, <1>3 DEF Rounds, Family
  <2> QED
    BY <1>0, <2>1, Looping
<1>5. ASSUME NEW j \in 1 .. n, NEW v
      PROVE  (CHOOSE end \in {Rnd(mid, seq[j]) : mid \in {v}} : TRUE) = Rnd(v, seq[j])
  OBVIOUS
<1>6. g = F(g)
  <2>1. \A j \in 1 .. n : g[j] = Rnd(g[j - 1], seq[j])
    BY <1>3, <1>4 DEF Loops
  <2> QED
    BY <1>4, <1>5, <2>1 DEF Loops
<1>7. fold = F(fold)
  <2> HIDE DEF F
  <2> QED
    BY <1>6, Zenon
<1>8. LinearizeAll(f) = fold[n]
  BY Zenon DEF LinearizeAll, FoldForward, Rnd, seq, n, base
<1> HIDE DEF fold
<1>9. fold[0] = base /\ \A j \in 1 .. n : fold[j] = Rnd(fold[j - 1], seq[j])
  BY <1>0, <1>5, <1>7
<1>10. \A j \in 0 .. n : fold[j] \in I[j]
  <2>1. fold[0] \in I[0]
    BY <1>0, <1>9
  <2>2. ASSUME NEW j \in 1 .. n, fold[j - 1] \in I[j - 1]
        PROVE  fold[j] \in I[j]
    BY <1>1, <1>9, <2>2
  <2> QED
    BY <1>0, <2>1, <2>2, Stays
<1>11. n \in 0 .. n
  BY <1>0
<1> QED
  BY <1>8, <1>10, <1>11 DEF n, seq

(* LinearizeAll handles all bbls, or refuses as the last one falls through. *)
LEMMA LinearizingAll ==
  ASSUME NEW N \in Nat, NEW J, NEW f, Checked(N, J, f), NEW st, st = LinearizeAll(f)
  PROVE  /\ st.ok => \E M \in Nat : LinTo(N, J, f, Len(f.bbls), M, st)
         /\ st.ok \/ FallsThrough(f, Last(f.bbls))
<1> DEFINE n == Len(f.bbls)
           base == [f |-> f, bbls |-> <<>>, ok |-> TRUE]
           order == [m \in DOMAIN f.bbls |-> m]
           refused == FallsThrough(f, Last(f.bbls))
           I == [j \in 0 .. n |-> {v \in LinState(J) :
                   (v.ok => \E M \in Nat : LinTo(N, J, f, j, M, v)) /\ (v.ok \/ refused)}]
<1>1. f \in Flow(N, J) /\ Mirrored(f)
  BY DEF Checked
<1>2. f.bbls \in Seq(1 .. N) /\ n \in Nat /\ DOMAIN f.bbls = 1 .. n
  BY <1>1 DEF Flow
<1> HIDE DEF n, refused
<1>3. Len(order) = n /\ \A j \in 1 .. n : order[j] = j
  <2>1. order \in [1 .. n -> Nat]
    BY <1>2
  <2>2. \A j \in 1 .. n : order[j] = j
    BY <1>2
  <2> HIDE DEF order
  <2> QED
    BY <1>2, <2>1, <2>2, TableIsSeq
<1>4. base \in I[0]
  <2> DEFINE X == UNION {Flow(M, J) : M \in Nat}
  <2>1. f \in X
    BY <1>1
  <2> HIDE DEF X
  <2>2. <<>> \in Seq(Nat) /\ <<>> \in Seq(1 .. N)
    BY EmptySeq
  <2>3. base \in LinState(J)
    BY <2>1, <2>2 DEF LinState, X
  <2>4. base.f = f /\ base.bbls = <<>> /\ base.ok
    OBVIOUS
  <2> HIDE DEF base
  <2>5. ToSet(<<>>) = {} /\ IsInjective(<<>>)
    BY DEF ToSet, IsInjective
  <2>6. {f.bbls[i] : i \in 1 .. 0} = {} /\ N + 1 .. N = {}
    OBVIOUS
  <2>7. Row(f, <<>>, After(f, 0))
    <3>1. 1 .. Len(<<>>) = {}
      OBVIOUS
    <3> QED
      BY <3>1 DEF Row
  <2>8. N <= N
    OBVIOUS
  <2>9. LinUpto(N, J, f, 0, N, base)
    BY <1>1, <2>2, <2>4, <2>5, <2>6, <2>7, <2>8 DEF LinUpto
  <2>11. Formed(f, N, N, base)
    <3>1. Inside(f, ToSet(f.bbls)) /\ ToSet(f.bbls) \cup N + 1 .. N = ToSet(f.bbls)
      BY <2>6 DEF Checked
    <3> QED
      BY <2>4, <2>5, <3>1 DEF Formed
  <2>10. 0 \in 0 .. n
    BY <1>2
  <2> QED
    BY <2>3, <2>4, <2>9, <2>10, <2>11 DEF LinTo
<1>5. ASSUME NEW j \in 1 .. n, NEW v \in I[j - 1]
      PROVE  Linearize(v, f.bbls[j], j) \in I[j]
  <2> DEFINE t == Linearize(v, f.bbls[j], j)
             b == f.bbls[j]
  <2>1. j - 1 \in 0 .. n /\ j \in 0 .. n /\ j \in 1 .. Len(f.bbls)
    BY <1>2 DEF n
  <2>2. /\ v \in LinState(J) /\ (v.ok => \E M \in Nat : LinTo(N, J, f, j - 1, M, v))
        /\ v.ok \/ refused
    BY <2>1
  <2>3. Rounded(N, J, f, j, t)
    <3>1. CASE v.ok
      <4>1. PICK M \in Nat : LinTo(N, J, f, j - 1, M, v)
        BY <2>2, <3>1
      <4>2. LinRound(N, J, f, j, M, v)
        BY <2>1, <2>2, <3>1, <4>1 DEF LinRound
      <4> HIDE DEF I
      <4> QED
        BY <4>2, Rounding
    <3>2. CASE ~v.ok
      <4>1. b \in Nat
        BY <1>2, <2>1, ElementOfSeq
      <4>2. t = [v EXCEPT !.bbls = Append(@, b)]
        BY <3>2, NoRound
      <4> HIDE DEF t, b, I
      <4>3. StateWith(J, v, b, t)
        BY <2>2, <4>1, <4>2, KeptState
      <4>4. t \in LinState(J) /\ ~t.ok
        BY <3>2, <4>3 DEF StateWith
      <4> QED
        BY <2>2, <3>2, <4>4 DEF Rounded, refused
    <3> QED
      BY <3>1, <3>2
  <2> HIDE DEF t
  <2>4. t \in I[j]
    BY <2>1, <2>3 DEF Rounded, refused
  <2> QED
    BY <2>4 DEF t
<1>6. LinStays(f, I)
  <2> HIDE DEF I
  <2>1. ASSUME NEW j \in 1 .. Len(order), NEW v \in I[j - 1]
        PROVE  Linearize(v, f.bbls[order[j]], order[j]) \in I[j]
    <3>1. j \in 1 .. n /\ order[j] = j
      BY <1>3
    <3> HIDE DEF order
    <3> QED
      BY <1>5, <3>1
  <2> QED
    BY <2>1 DEF LinStays
<1>7. LinearizeAll(f) \in I[Len(order)]
  <2> HIDE DEF I
  <2> QED
    BY <1>2, <1>4, <1>6, LinLoop DEF n
<1>8. n \in 0 .. n
  BY <1>2
<1>9. st \in I[n]
  BY <1>3, <1>7
<1> QED
  BY <1>8, <1>9 DEF n, refused

(* The function in its new order: every bbl fits the one behind it.        *)
InOrder(M, J, g) ==
  /\ g \in Flow(M, J) /\ Mirrored(g) /\ IsInjective(g.bbls)
  /\ \A b \in ToSet(g.bbls) : Fits(g, b, Fall(g, TRUE, b)) /\ Shaped(g, b)
  /\ Row(g, g.bbls, {}) /\ Inside(g, ToSet(g.bbls))

(* The new layout puts the row in order.                                   *)
LEMMA Ordering ==
  ASSUME NEW N \in Nat, NEW J, NEW f \in Flow(N, J), NEW M \in Nat, NEW st,
         LinTo(N, J, f, Len(f.bbls), M, st), NEW g, g = [st.f EXCEPT !.bbls = st.bbls]
  PROVE  InOrder(M, J, g)
<1> DEFINE w == st.f
           s == st.bbls
           n == Len(s)
<1>1. /\ w \in Flow(M, J) /\ Mirrored(w) /\ s \in Seq(1 .. M) /\ IsInjective(s) /\ Row(w, s, {})
      /\ ToSet(s) = ToSet(f.bbls) \cup N + 1 .. M
      /\ \A c \in ToSet(s) : Shaped(w, c)
      /\ Inside(w, ToSet(s))
  <2>1. After(f, Len(f.bbls)) = {}
    <3>1. Len(f.bbls) \in Nat
      BY DEF Flow
    <3> QED
      BY <3>1 DEF After
  <2>2. /\ w \in Flow(M, J) /\ Mirrored(w) /\ s \in Seq(1 .. M) /\ IsInjective(s) /\ Row(w, s, {})
        /\ ToSet(s) = {f.bbls[i] : i \in 1 .. Len(f.bbls)} \cup N + 1 .. M
    BY <2>1 DEF LinTo, LinUpto
  <2>3. ToSet(f.bbls) = {f.bbls[i] : i \in 1 .. Len(f.bbls)}
    <3> DEFINE y == f.bbls
               B == 1 .. N
    <3>1. y \in Seq(B)
      BY DEF Flow
    <3> HIDE DEF y, B
    <3>2. DOMAIN y = 1 .. Len(y)
      BY <3>1
    <3> QED
      BY <3>2 DEF ToSet, y
  <2>4. (\A c \in ToSet(s) : Shaped(w, c)) /\ Inside(w, ToSet(f.bbls) \cup N + 1 .. M)
    BY DEF LinTo, Formed
  <2> HIDE DEF w, s
  <2> QED
    BY <2>2, <2>3, <2>4
<1>2. g = [w EXCEPT !.bbls = s]
  OBVIOUS
<1> HIDE DEF w, s
<1>3. /\ g \in Flow(M, J) /\ g.bbls = s /\ g.inss = w.inss /\ g.jtb = w.jtb
      /\ g.edge_out = w.edge_out /\ g.edge_in = w.edge_in
  <2> DEFINE Ins == [1 .. M -> Seq(Instruction(1 .. M, J))]
             Jtb == [J -> JumpTable(1 .. M)]
  <2> HIDE DEF Ins, Jtb
  <2> QED
    BY <1>1, <1>2 DEF Flow, Ins, Jtb
<1>4. Mirrored(g)
  BY <1>1, <1>3 DEF Mirrored
<1>5. n \in Nat /\ DOMAIN s = 1 .. n
  BY <1>1
<1> HIDE DEF n
<1>6. ASSUME NEW b \in ToSet(s)
      PROVE  Fits(g, b, Fall(g, TRUE, b))
  <2>1. PICK k \in 1 .. n : s[k] = b
    BY <1>5 DEF ToSet
  <2> DEFINE next == Behind(s, k, {})
             now == Fall(g, TRUE, b)
  <2>2. \A m \in 1 .. n : s[m] = b => m = k
    BY <1>1, <1>5, <2>1 DEF IsInjective
  <2>3. now = {s[m + 1] : m \in {i \in 1 .. n - 1 : s[i] = b}}
    BY <1>3 DEF Fall, n
  <2>4. now = next
    <3>1. CASE k < n
      <4>1. k \in 1 .. n - 1 /\ \A i \in 1 .. n - 1 : i \in 1 .. n
        BY <1>5, <3>1
      <4>2. {i \in 1 .. n - 1 : s[i] = b} = {k}
        BY <2>1, <2>2, <4>1
      <4>3. next = {s[k + 1]}
        BY <3>1 DEF Behind, n
      <4> HIDE DEF now, next
      <4> QED
        BY <2>3, <4>2, <4>3
    <3>2. CASE ~(k < n)
      <4>1. k \notin 1 .. n - 1 /\ \A i \in 1 .. n - 1 : i \in 1 .. n
        BY <1>5, <3>2
      <4>2. {i \in 1 .. n - 1 : s[i] = b} = {}
        BY <2>2, <4>1
      <4>3. next = {}
        BY <3>2 DEF Behind, n
      <4> HIDE DEF now, next
      <4> QED
        BY <2>3, <4>2, <4>3
    <3> QED
      BY <3>1, <3>2
  <2>5. Fits(w, b, next)
    BY <1>1, <2>1 DEF Row, n
  <2> HIDE DEF next, now
  <2>6. Fits(g, b, next)
    BY <1>3, <2>5, SameFit
  <2> QED
    BY <2>4, <2>6 DEF now
<1>7. ASSUME NEW b \in ToSet(s)
      PROVE  Shaped(g, b)
  BY <1>1, <1>3, SameShape
<1>8. Row(g, s, {})
  <2>1. \A c \in ToSet(s) : g.inss[c] = w.inss[c] /\ g.edge_out[c] = w.edge_out[c]
    BY <1>3
  <2> DEFINE S == 1 .. M
             next == {}
  <2> HIDE DEF S, next
  <2>2. s \in Seq(S) /\ Row(w, s, next) /\ g.jtb = w.jtb
    BY <1>1, <1>3 DEF S, next
  <2>3. Row(g, s, next)
    BY ONLY <2>1, <2>2, SameRow
  <2> QED
    BY <2>3 DEF next
<1>9. Inside(g, ToSet(s))
  <2> DEFINE L == ToSet(s)
  <2>1. Inside(w, L)
    BY <1>1
  <2> HIDE DEF L
  <2>2. Inside(g, L)
    BY <1>3, <2>1, InsideSame
  <2> QED
    BY <2>2 DEF L
<1> QED
  BY <1>1, <1>3, <1>4, <1>6, <1>7, <1>8, <1>9 DEF InOrder

(* Edges that fit lead where the ways lead, as often.                      *)
LEMMA FitsBack ==
  ASSUME NEW f, NEW b, NEW next, Fits(f, b, next)
  PROVE  /\ ToSet(f.edge_out[b]) = ToSet(Ways(f, b, next))
         /\ \A e \in ToSet(f.edge_out[b]) : Times(f.edge_out[b], e) = Times(Ways(f, b, next), e)
<1> DEFINE s == f.edge_out[b]
           t == Ways(f, b, next)
<1>1. ToBag(s) = ToBag(t)
  BY DEF Fits
<1> HIDE DEF s, t
<1>2. \A u : ToBag(u) = [e \in Range(u) |-> Times(u, e)]
  BY DEF ToBag, Times
<1>3. [e \in Range(s) |-> Times(s, e)] = [e \in Range(t) |-> Times(t, e)]
  BY <1>1, <1>2
<1>4. Range(s) = Range(t) /\ \A e \in Range(s) : Times(s, e) = Times(t, e)
  BY <1>3
<1>5. Range(s) = ToSet(s) /\ Range(t) = ToSet(t)
  BY DEF Range, ToSet
<1> QED
  BY <1>4, <1>5 DEF s, t

(* A bbl that falls through has an edge to the bbl that comes next.        *)
LEMMA FallsTo ==
  ASSUME NEW N \in Nat, NEW J, NEW f \in Flow(N, J), NEW b \in 1 .. N, Shaped(f, b),
         FallsThrough(f, b), NEW next, next = {} \/ (\E x : next = {x}), Fits(f, b, next)
  PROVE  /\ next # {} /\ next \subseteq ToSet(f.edge_out[b])
         /\ Kind(f, b) # "cond" => next = {f.edge_out[b][1]}
<1> DEFINE out == f.edge_out[b]
           ways == Ways(f, b, next)
           ins == Last(f.inss[b])
<1>1. ToSet(out) = ToSet(ways) /\ \A e \in ToSet(out) : Times(out, e) = Times(ways, e)
  BY FitsBack
<1>2. out \in Seq(1 .. N)
  BY DEF Flow
<1>3. /\ Kind(f, b) \in {"none", "plain", "cond"}
      /\ Kind(f, b) # "none" <=> f.inss[b] # <<>>
      /\ Kind(f, b) # "none" => Kind(f, b) = ins.k
  BY Kinds
<1> HIDE DEF out, ins
<1>4. ToSet(<<>>) = {} /\ \A x : ToSet(<<x>>) = {x}
  BY DEF ToSet
<1>5. CASE Kind(f, b) = "cond"
  <2> DEFINE to == ins.to
             other == IF to = out[2] THEN out[1] ELSE out[2]
  <2>1. Len(out) = 2 /\ to \in ToSet(out)
    BY <1>5 DEF Shaped, out, ins
  <2>2. Targets(f, b) = <<to>>
    <3>1. Targets(f, b) = InsTargets(f, ins)
      BY <1>3, <1>5 DEF Targets, Inss, ins
    <3> QED
      BY <1>3, <1>5, <3>1 DEF InsTargets
  <2> HIDE DEF to
  <2>7. other = IF to = out[2] THEN out[1] ELSE out[2]
    OBVIOUS
  <2> HIDE DEF other
  <2> DEFINE B == 1 .. N
  <2>8. out \in Seq(B)
    BY <1>2
  <2> HIDE DEF B
  <2>3. /\ to \in B /\ other \in B /\ ToSet(out) = {to, other}
        /\ \A e : Times(out, e) = Times(<<to>>, e) + Times(<<other>>, e)
    BY <2>1, <2>7, <2>8, TwoEdges, SMTT(30)
  <2>4. other \in ToSet(out)
    BY <2>3
  <2>5. CASE next = {}
    <3>1. ways = <<to>>
      BY <2>2, <2>5 DEF Ways
    <3>2. to = other
      BY <1>1, <1>4, <2>4, <3>1
    <3>3. Times(out, to) = Times(<<to>>, to)
      BY <1>1, <2>1, <3>1
    <3>4. Times(<<to>>, to) = 1
      BY CountingOne
    <3> QED
      BY <2>3, <3>2, <3>3, <3>4
  <2>6. ASSUME NEW x, next = {x}
        PROVE  next \subseteq ToSet(out)
    <3>1. ways = <<to>> \o <<x>>
      <4>1. {x} # {}
        OBVIOUS
      <4> QED
        BY <2>2, <2>6, <4>1, ListingOne DEF Ways
    <3>2. <<to>> \o <<x>> = <<to, x>>
      BY TwoInARow
    <3>3. x \in ToSet(<<to, x>>)
      <4>1. DOMAIN <<to, x>> = 1 .. 2 /\ 2 \in 1 .. 2 /\ <<to, x>>[2] = x
        OBVIOUS
      <4> QED
        BY <4>1 DEF ToSet
    <3> QED
      BY <1>1, <2>6, <3>1, <3>2, <3>3
  <2> QED
    BY <1>5, <2>5, <2>6 DEF out
<1>6. CASE Kind(f, b) # "cond"
  <2>1. Len(out) = 1
    BY <1>3, <1>6 DEF Shaped, out
  <2>2. out[1] \in ToSet(out) /\ ToSet(out) = {out[1]}
    BY <1>2, <2>1 DEF ToSet
  <2>3. Targets(f, b) = <<>>
    BY <1>3, <1>6 DEF Targets, Inss, InsTargets, ins
  <2>4. next # {}
    <3>1. next = {} => ways = <<>>
      BY <2>3 DEF Ways
    <3> QED
      BY <1>1, <1>4, <2>2, <3>1
  <2>5. PICK x : next = {x}
    BY <2>4
  <2>6. ways = <<x>>
    <3>1. ways = <<>> \o <<x>>
      BY <2>3, <2>4, <2>5, ListingOne DEF Ways
    <3>2. <<>> \o <<x>> = <<x>>
      OBVIOUS
    <3> QED
      BY <3>1, <3>2
  <2>7. ToSet(out) = {x}
    BY <1>1, <1>4, <2>6
  <2> QED
    BY <2>2, <2>4, <2>5, <2>7 DEF out
<1> QED
  BY <1>5, <1>6

(* What LastInsOK asks of a bbl with these edges, instructions and next.   *)
LEMMA OneIsOK ==
  ASSUME NEW M \in Nat, NEW J, NEW g, InOrder(M, J, g), NEW n \in DOMAIN g.bbls
  PROVE  LastInsOK(g, n, TRUE)
<1> DEFINE b == g.bbls[n]
           out == g.edge_out[b]
           next == Behind(g.bbls, n, {})
           ins == Last(g.inss[b])
           mirrored == \A s \in ToSet(out) : Contains(g.edge_in[s], b)
<1>1. g \in Flow(M, J) /\ Mirrored(g) /\ Row(g, g.bbls, {}) /\ g.bbls \in Seq(1 .. M)
  BY DEF InOrder, Flow
<1>2. n \in 1 .. Len(g.bbls) /\ b \in 1 .. M /\ b \in ToSet(g.bbls)
  BY <1>1 DEF ToSet
<1>3. Shaped(g, b) /\ Fits(g, b, next)
  BY <1>1, <1>2 DEF InOrder, Row
<1>4. next = (IF n < Len(g.bbls) THEN {g.bbls[n + 1]} ELSE {})
  BY DEF Behind
<1>5. out \in Seq(1 .. M)
  BY <1>1, <1>2 DEF Flow
<1>6. next = {} \/ (\E x : next = {x})
  BY <1>4
<1> HIDE DEF b, next
<1>7. mirrored
  <2>1. ASSUME NEW s \in ToSet(out)
        PROVE  Contains(g.edge_in[s], b)
    <3>1. s \in 1 .. M
      BY <1>5, ElementOfSeq DEF ToSet
    <3>2. g.edge_in[s] \in Seq(1 .. M) /\ b \in ToSet(g.edge_in[s])
      BY <1>1, <1>2, <2>1, <3>1, Predecessors
    <3> QED
      BY <3>2, Containing
  <2> QED
    BY <2>1
<1>8. /\ Kind(g, b) \in {"none", "plain", "ret", "bra", "cond", "switch"}
      /\ FallsThrough(g, b) <=> Kind(g, b) \in {"none", "plain", "cond"}
  BY <1>1, <1>2, Kinds
<1>9. Kind(g, b) = "cond" => Contains(out, ins.to)
  BY <1>3, <1>5, Containing DEF Shaped
<1>10. FallsThrough(g, b) => /\ next # {} /\ next \subseteq ToSet(out)
                             /\ Kind(g, b) # "cond" => next = {out[1]}
  BY <1>1, <1>2, <1>3, <1>6, FallsTo
<1>11. /\ Kind(g, b) = "cond" => Len(out) = 2
       /\ Kind(g, b) = "bra" => Len(out) = 1 /\ out[1] = ins.to
       /\ Kind(g, b) = "ret" => out = <<>>
       /\ Kind(g, b) \in {"none", "plain"} => Len(out) = 1
  <2> DEFINE to == ins.to
  <2> HIDE DEF out, to
  <2>1. Kind(g, b) = "bra" => out = <<to>>
    BY <1>3 DEF Shaped, out, to
  <2>2. out = <<to>> => Len(out) = 1 /\ out[1] = to
    OBVIOUS
  <2>3. /\ Kind(g, b) = "cond" => Len(out) = 2
        /\ Kind(g, b) = "ret" => out = <<>>
        /\ Kind(g, b) \in {"none", "plain"} => Len(out) = 1
    BY <1>3 DEF Shaped, out
  <2> QED
    BY <2>1, <2>2, <2>3 DEF to
<1>12. Kind(g, b) = IF Inss(g, b) = <<>> THEN "none" ELSE Last(Inss(g, b)).k
  BY DEF Kind, Inss
<1>13. LastInsOK(g, n, TRUE) <=>
         /\ Kind(g, b) = "cond" =>
               Len(out) = 2 /\ mirrored /\ Contains(out, ins.to) /\ next \cap ToSet(out) # {}
         /\ Kind(g, b) = "bra" => Len(out) = 1 /\ mirrored /\ out[1] = ins.to
         /\ Kind(g, b) = "ret" => out = <<>>
         /\ Kind(g, b) \in {"none", "plain"} =>
               /\ Len(out) = 1 /\ mirrored
               /\ Kind(g, b) = "plain" => next = {out[1]}
  BY <1>4, <1>12, Zenon DEF LastInsOK, Inss, b
<1> HIDE DEF out, ins, mirrored
<1>14. Kind(g, b) = "cond" => next \cap ToSet(out) # {}
  BY <1>8, <1>10
<1>15. Kind(g, b) = "plain" => next = {out[1]}
  BY <1>8, <1>10
<1> QED
  BY <1>7, <1>9, <1>11, <1>13, <1>14, <1>15

(* A function in its new order passes the check that follows.              *)
LEMMA InOrderPasses ==
  ASSUME NEW M \in Nat, NEW J, NEW g, InOrder(M, J, g)
  PROVE  FunCheckCFG(g, TRUE)
<1> DEFINE L == ToSet(g.bbls)
<1>1. g \in Flow(M, J) /\ Mirrored(g) /\ Inside(g, L) /\ \A b \in L : b \in 1 .. M
  <2>1. g \in Flow(M, J) /\ Mirrored(g) /\ Inside(g, L)
    BY DEF InOrder
  <2>2. g.bbls \in Seq(1 .. M)
    BY <2>1 DEF Flow
  <2> QED
    BY <2>1, <2>2, ElementOfSeq DEF ToSet
<1>2. DOMAIN g.edge_out = 1 .. M
  BY <1>1 DEF Flow
<1>3. ASSUME NEW b \in L
      PROVE  ToSet(g.edge_out[b]) \subseteq L /\ ToSet(g.edge_in[b]) \subseteq L
  <2>1. b \in 1 .. M
    BY <1>1
  <2>2. ToSet(g.edge_out[b]) \subseteq L
    BY <1>1, <1>2, <2>1 DEF Inside
  <2>3. ASSUME NEW p \in ToSet(g.edge_in[b])
        PROVE  p \in L
    <3>1. p \in 1 .. M
      <4>1. g.edge_in[b] \in Seq(1 .. M)
        BY <1>1, <2>1 DEF Flow
      <4> QED
        BY <4>1, ElementOfSeq DEF ToSet
    <3>2. b \in ToSet(g.edge_out[p])
      BY <1>1, <2>1, <2>3, <3>1, Predecessors
    <3> QED
      BY <1>1, <1>2, <3>1, <3>2 DEF Inside
  <2> QED
    BY <2>2, <2>3
<1>4. EdgesStayInside(g)
  BY <1>3 DEF EdgesStayInside
<1>5. ASSUME NEW b \in L
      PROVE  \A n \in 1 .. (Len(Inss(g, b)) - 1) : ~IsTerminator(Inss(g, b)[n])
  <2>1. Tidy(g.inss[b])
    BY DEF InOrder, Shaped
  <2> QED
    BY <2>1 DEF Tidy, Inss
<1>6. \A n \in DOMAIN g.bbls : LastInsOK(g, n, TRUE)
  BY OneIsOK
<1> QED
  BY <1>4, <1>5, <1>6 DEF FunCheckCFG


-----------------------------------------------------------------------------
(* The inductive invariant: what each pass hands to the next one.          *)
Given(N, J, f) ==
  f \in Flow(N, J) /\ NoEdges(f) /\ IsInjective(f.bbls) /\ ToSet(f.bbls) = 1 .. N
PassesOf(N, J, f, p) ==
  /\ p = "linear" => Given(N, J, f)
  /\ p = "split" => LaidOut(N, J, f)
  /\ p = "edges" => Edged(N, J, f)
  /\ p = "no_bra" => Unbranched(N, J, f)
  /\ p = "no_empty" => Graph(N, J, f)
  /\ p = "cfg" => Checked(N, J, f)
  /\ p \in {"with_bra", "done"} => InOrder(N, J, f)
  /\ p = "exit_failed" => FallsThrough(f, Last(f.bbls))
Passes(f, p) == \E J : \E N \in Nat : PassesOf(N, J, f, p)

(* A function without edges.                                               *)
LEMMA InitPasses ==
  ASSUME Init
  PROVE  Passes(fun, pc)
<1>1. PICK f \in Functions :
        fun = [bbls |-> f.bbls, inss |-> f.inss, jtb |-> f.jtb,
               edge_out |-> [b \in DOMAIN f.inss |-> <<>>],
               edge_in |-> [b \in DOMAIN f.inss |-> <<>>]]
  BY DEF Init
<1> DEFINE N == Len(f.inss)
           J == DOMAIN f.jtb
           B == DOMAIN f.inss
           none == [b \in 1 .. N |-> <<>>]
           Ins == Instruction(B, J)
<1>2. /\ f.jtb \in [J -> JumpTable(B)] /\ f.inss \in Seq(Seq(Ins))
      /\ f.bbls \in Seq(B) /\ IsInjective(f.bbls) /\ ToSet(f.bbls) = B
  <2> HIDE DEF Ins
  <2> QED
    BY FunctionsAssumption DEF Ins
<1>3. N \in Nat /\ B = 1 .. N
  <2> HIDE DEF Ins
  <2> QED
    BY <1>2
<1> HIDE DEF N, B, J, Ins
<1>4. f.inss \in [1 .. N -> Seq(Ins)]
  <2> DEFINE X == Seq(Ins)
  <2>1. f.inss \in Seq(X) /\ Len(f.inss) = N
    BY <1>2 DEF N
  <2> HIDE DEF X
  <2> QED
    BY <1>3, <2>1, TableIsSeq DEF X
<1>5. none \in [1 .. N -> Seq(1 .. N)] /\ \A b \in 1 .. N : none[b] = <<>>
  <2>1. <<>> \in Seq(1 .. N)
    BY EmptySeq
  <2> QED
    BY <2>1
<1>6. fun = [bbls |-> f.bbls, inss |-> f.inss, jtb |-> f.jtb, edge_out |-> none, edge_in |-> none]
  <2>1. DOMAIN f.inss = 1 .. N
    BY <1>3 DEF B
  <2> QED
    BY <1>1, <2>1
<1> HIDE DEF none
<1>7. /\ fun.bbls = f.bbls /\ fun.inss = f.inss /\ fun.jtb = f.jtb
      /\ fun.edge_out = none /\ fun.edge_in = none
  BY <1>6
<1>8. fun \in Flow(N, J)
  BY <1>2, <1>3, <1>4, <1>5, <1>6 DEF Flow, Ins
<1>9. NoEdges(fun)
  <2>1. DOMAIN fun.inss = 1 .. N
    BY <1>4, <1>7
  <2> QED
    BY <1>5, <1>7, <2>1 DEF NoEdges
<1>10. Given(N, J, fun)
  BY <1>2, <1>3, <1>7, <1>8, <1>9 DEF Given
<1>11. pc = "linear"
  BY DEF Init
<1>12. PassesOf(N, J, fun, pc)
  BY <1>10, <1>11 DEF PassesOf
<1> QED
  BY <1>3, <1>12 DEF Passes

(* One step of the passes.                                                 *)
LEMMA NextPasses ==
  ASSUME Passes(fun, pc), [Next]_vars
  PROVE  Passes(fun', pc')
<1>0. PICK J : \E N \in Nat : PassesOf(N, J, fun, pc)
  BY DEF Passes
<1>1. PICK N \in Nat : PassesOf(N, J, fun, pc)
  BY <1>0
<1>2. ASSUME NEW M \in Nat, PassesOf(M, J, fun', pc')
      PROVE  Passes(fun', pc')
  BY <1>2 DEF Passes
<1>3. CASE FunSplitBbls
  <2>1. pc = "linear" /\ fun' = SplitBbls(fun) /\ pc' = "split"
    BY <1>3 DEF FunSplitBbls
  <2>2. fun \in Flow(N, J) /\ NoEdges(fun) /\ IsInjective(fun.bbls) /\ ToSet(fun.bbls) = 1 .. N
    BY <1>1, <2>1 DEF PassesOf, Given
  <2>3. PICK M \in Nat : LaidOut(M, J, SplitBbls(fun))
    BY <2>2, SplittingAll
  <2>4. PassesOf(M, J, fun', pc')
    BY <2>1, <2>3 DEF PassesOf
  <2> QED
    BY <1>2, <2>4
<1>4. CASE FunInitCFG
  <2> DEFINE st == InitBbls(fun)
  <2>1. LaidOut(N, J, fun)
    BY <1>1, <1>4 DEF PassesOf, FunInitCFG
  <2>2. /\ st.fall_through = {} => Edged(N, J, st.f)
        /\ st.fall_through # {} => Edged(N, J, [st.f EXCEPT !.bbls = Front(@)])
    BY <2>1, EdgingAll
  <2>3. \/ st.fall_through = {} /\ fun' = st.f /\ pc' = "edges"
        \/ pc' = "init_failed"
        \/ st.fall_through # {} /\ fun' = [st.f EXCEPT !.bbls = Front(@)] /\ pc' = "edges"
    BY <1>4 DEF FunInitCFG
  <2> HIDE DEF st
  <2>4. pc' = "init_failed" \/ (pc' = "edges" /\ Edged(N, J, fun'))
    BY <2>2, <2>3
  <2>5. PassesOf(N, J, fun', pc')
    BY <2>4 DEF PassesOf
  <2> QED
    BY <1>2, <2>5
<1>5. CASE FunRemoveUnconditionalBranches
  <2>1. Edged(N, J, fun)
    BY <1>1, <1>5 DEF PassesOf, FunRemoveUnconditionalBranches
  <2>2. pc' = "no_bra" /\ fun' = [fun EXCEPT !.inss =
           [b \in DOMAIN @ |-> IF /\ Contains(fun.bbls, b) /\ @[b] # <<>>
                                  /\ Last(@[b]).k = "bra"
                               THEN Front(@[b]) ELSE @[b]]]
    BY <1>5 DEF FunRemoveUnconditionalBranches
  <2>3. Unbranched(N, J, fun')
    BY <2>1, <2>2, Unbranching
  <2>4. PassesOf(N, J, fun', pc')
    BY <2>2, <2>3 DEF PassesOf
  <2> QED
    BY <1>2, <2>4
<1>6. CASE FunRemoveEmptyBbls
  <2>1. Unbranched(N, J, fun)
    BY <1>1, <1>6 DEF PassesOf, FunRemoveEmptyBbls
  <2>2. pc' = "init_failed" \/ (pc' = "no_empty" /\ fun' = RemoveEmptyBbls(fun))
    BY <1>6 DEF FunRemoveEmptyBbls
  <2>3. Graph(N, J, RemoveEmptyBbls(fun))
    BY <2>1, RemovingAll
  <2>4. PassesOf(N, J, fun', pc')
    BY <2>2, <2>3 DEF PassesOf
  <2> QED
    BY <1>2, <2>4
<1>7. CASE CheckAfterInit
  <2>1. Graph(N, J, fun) /\ fun' = fun
    BY <1>1, <1>7 DEF PassesOf, CheckAfterInit
  <2>2. pc' = "init_failed" \/ (pc' = "cfg" /\ FunCheckCFG(fun, FALSE))
    BY <1>7 DEF CheckAfterInit
  <2>3. FunCheckCFG(fun, FALSE) => Checked(N, J, fun)
    BY <2>1, Checking
  <2>4. PassesOf(N, J, fun', pc')
    BY <2>1, <2>2, <2>3 DEF PassesOf
  <2> QED
    BY <1>2, <2>4
<1>8. ASSUME NEW b \in ToSet(fun.bbls), NEW n \in DOMAIN fun.inss[b], DropIns(b, n)
      PROVE  Passes(fun', pc')
  <2>1. /\ Checked(N, J, fun) /\ fun.inss[b][n].k = "plain"
        /\ fun' = [fun EXCEPT !.inss[b] = RemoveAt(@, n)] /\ pc' = "cfg"
    BY <1>1, <1>8 DEF PassesOf, DropIns
  <2>2. Checked(N, J, fun')
    BY <2>1, DroppingIns
  <2>3. PassesOf(N, J, fun', pc')
    BY <2>1, <2>2 DEF PassesOf
  <2> QED
    BY <1>2, <2>3
<1>9. ASSUME NEW b \in ToSet(fun.bbls), NEW order \in Orders, FoldCondBra(b, order)
      PROVE  Passes(fun', pc')
  <2> DEFINE ins == Last(fun.inss[b])
             out == fun.edge_out[b]
             drop == IF ~Taken(ins, order) THEN ins.to
                     ELSE IF out[1] = ins.to THEN out[2] ELSE out[1]
  <2>1. /\ Checked(N, J, fun) /\ fun.inss[b] # <<>> /\ ins.k = "cond" /\ pc' = "cfg"
        /\ fun' = DelEdgeOut([fun EXCEPT !.inss[b] = Front(@)], b, drop)
    BY <1>1, <1>9 DEF PassesOf, FoldCondBra
  <2>2. out \in Seq(1 .. N) /\ Len(out) = 2 /\ ins.to \in ToSet(out)
    <3>1. fun \in Flow(N, J) /\ Shaped(fun, b)
      BY <2>1 DEF Checked
    <3>2. b \in 1 .. N
      <4>1. fun.bbls \in Seq(1 .. N)
        BY <3>1 DEF Flow
      <4> QED
        BY <4>1, ElementOfSeq DEF ToSet
    <3>3. out \in Seq(1 .. N)
      BY <3>1, <3>2 DEF Flow
    <3>4. Kind(fun, b) = "cond"
      BY <2>1 DEF Kind
    <3> QED
      BY <3>1, <3>3, <3>4 DEF Shaped
  <2>3. drop \in ToSet(out)
    <3> DEFINE taken == Taken(ins, order)
               to == ins.to
    <3> HIDE DEF out, ins, taken, to
    <3>1. out[1] \in ToSet(out) /\ out[2] \in ToSet(out)
      BY <2>2 DEF ToSet
    <3>2. drop = IF ~taken THEN to ELSE IF out[1] = to THEN out[2] ELSE out[1]
      BY DEF taken, to
    <3> QED
      BY <2>2, <3>1, <3>2 DEF to
  <2> HIDE DEF drop
  <2>4. Checked(N, J, fun')
    BY <2>1, <2>3, FoldingBra
  <2>5. PassesOf(N, J, fun', pc')
    BY <2>1, <2>4 DEF PassesOf
  <2> QED
    BY <1>2, <2>5
<1>10. CASE FunAddUnconditionalBranches
  <2> DEFINE st == LinearizeAll(fun)
  <2>1. Checked(N, J, fun)
    BY <1>1, <1>10 DEF PassesOf, FunAddUnconditionalBranches
  <2>2. \/ st.ok /\ fun' = [st.f EXCEPT !.bbls = st.bbls] /\ pc' = "with_bra"
        \/ ~st.ok /\ fun' = fun /\ pc' = "exit_failed"
    BY <1>10 DEF FunAddUnconditionalBranches
  <2> HIDE DEF st
  <2>3. CASE ~st.ok /\ fun' = fun /\ pc' = "exit_failed"
    <3>2. FallsThrough(fun, Last(fun.bbls))
      BY <2>1, <2>3, LinearizingAll DEF st
    <3>1. PassesOf(N, J, fun', pc')
      BY <2>3, <3>2 DEF PassesOf
    <3> QED
      BY <1>2, <3>1
  <2>4. CASE st.ok /\ fun' = [st.f EXCEPT !.bbls = st.bbls] /\ pc' = "with_bra"
    <3>1. PICK M \in Nat : LinTo(N, J, fun, Len(fun.bbls), M, st)
      BY <2>1, <2>4, LinearizingAll DEF st
    <3>2. fun \in Flow(N, J)
      BY <2>1 DEF Checked
    <3>3. InOrder(M, J, fun')
      BY <2>4, <3>1, <3>2, Ordering
    <3>4. PassesOf(M, J, fun', pc')
      BY <2>4, <3>3 DEF PassesOf
    <3> QED
      BY <1>2, <3>4
  <2> QED
    BY <2>2, <2>3, <2>4
<1>11. CASE CheckAfterExit
  <2>1. InOrder(N, J, fun) /\ fun' = fun
    BY <1>1, <1>11 DEF PassesOf, CheckAfterExit
  <2>3. FunCheckCFG(fun, TRUE)
    BY <2>1, InOrderPasses
  <2>4. pc' = "done"
    BY <1>11, <2>3 DEF CheckAfterExit
  <2>2. PassesOf(N, J, fun', pc')
    BY <2>1, <2>4 DEF PassesOf
  <2> QED
    BY <1>2, <2>2
<1>12. CASE UNCHANGED vars
  BY <1>12 DEF vars
<1> QED
  BY <1>3, <1>4, <1>5, <1>6, <1>7, <1>8, <1>9, <1>10, <1>11, <1>12 DEF Next

(* In the graph and in the new order the edges are the ways.               *)
LEMMA PassesMatch ==
  ASSUME Passes(fun, pc)
  PROVE  EdgesMatchCode
<1>0. PICK J : \E N \in Nat : PassesOf(N, J, fun, pc)
  BY DEF Passes
<1>1. PICK N \in Nat : PassesOf(N, J, fun, pc)
  BY <1>0
<1>2. SUFFICES ASSUME pc \in {"cfg", "with_bra", "done"}
               PROVE  /\ Mirrored(fun)
                      /\ \A b \in ToSet(fun.bbls) : Fits(fun, b, Fall(fun, IsLinear, b))
  BY DEF EdgesMatchCode, Mirrored, Fits, Ways
<1>3. CASE pc = "cfg"
  <2>1. Checked(N, J, fun)
    BY <1>1, <1>3 DEF PassesOf
  <2>2. \A b : Fall(fun, IsLinear, b) = Fall(fun, FALSE, b)
    BY <1>3 DEF Fall, IsLinear
  <2>3. \A b \in ToSet(fun.bbls) : Fits(fun, b, Fall(fun, FALSE, b))
    BY <2>1, ChecksFit
  <2> QED
    BY <2>1, <2>2, <2>3 DEF Checked
<1>4. CASE pc \in {"with_bra", "done"}
  <2>1. InOrder(N, J, fun)
    BY <1>1, <1>4 DEF PassesOf
  <2>2. \A b : Fall(fun, IsLinear, b) = Fall(fun, TRUE, b)
    BY <1>4 DEF Fall, IsLinear
  <2> QED
    BY <2>1, <2>2 DEF InOrder
<1> QED
  BY <1>2, <1>3, <1>4

(***************************************************************************)
(* Whatever the passes of FunCfgInit and FunCfgExit, and the passes in     *)
(* between, did to a function, the edges of every bbl are, with their      *)
(* multiplicity, the ways control can leave it, and edge_in mirrors        *)
(* edge_out.                                                               *)
(***************************************************************************)
THEOREM EdgesAreTheCode == Spec => []EdgesMatchCode
<1>1. Init => Passes(fun, pc)
  BY InitPasses
<1>2. Passes(fun, pc) /\ [Next]_vars => Passes(fun, pc)'
  BY NextPasses
<1>3. Passes(fun, pc) => EdgesMatchCode
  BY PassesMatch
<1> QED
  BY <1>1, <1>2, <1>3, PTL DEF Spec

(***************************************************************************)
(* The way back, from the graph to linear code, is refused only if the     *)
(* last bbl of the layout falls through: FunAddUnconditionalBranches       *)
(* raises its assertion for nothing else, and the check behind it accepts  *)
(* every function it returns.                                              *)
(***************************************************************************)
THEOREM ExitOnlyFailsAtTheEnd == Spec => []ExitFailsAtTheEnd
<1>1. Init => Passes(fun, pc)
  BY InitPasses
<1>2. Passes(fun, pc) /\ [Next]_vars => Passes(fun, pc)'
  BY NextPasses
<1>3. Passes(fun, pc) => ExitFailsAtTheEnd
  BY DEF Passes, PassesOf, ExitFailsAtTheEnd
<1> QED
  BY <1>1, <1>2, <1>3, PTL DEF Spec
=============================================================================
