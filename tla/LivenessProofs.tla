--------------------------- MODULE LivenessProofs ---------------------------
(***************************************************************************)
(* Proofs about Liveness, for every function: what its four loops compute, *)
(* the invariant IInv, that either language's worklist loop implements     *)
(* LivenessSolver, and from these that the live sets are exact and the     *)
(* removal that uses them is sound.                                        *)
(***************************************************************************)
EXTENDS Liveness, FoldTheorems

(* What all_liveness holds for a bbl, and the accumulator of the loop over *)
(* edge_in                                                                 *)
LiveRec == [live_def : SUBSET Reg, live_use : SUBSET Reg,
            live_in : SUBSET Reg, live_out : SUBSET Reg]
Acc == [liveness : [Bbls -> LiveRec], active : Seq(Bbls)]

(* The liveness after handing live to the predecessors ps, and those of ps *)
(* whose live_out grew by it                                               *)
HandedTo(ps, l, live) ==
  [q \in Bbls |-> IF q \in ps THEN [l[q] EXCEPT !.live_out = l[q].live_out \cup live]
                  ELSE l[q]]
Grew(ps, l, live) == {p \in ps : ~(live \subseteq l[p].live_out)}

(* What one round of either loop over edge_in does to the accumulator st: *)
(* the predecessor p gets live, and is in the worklist if it grew         *)
Merges(st, new, p, live) ==
  /\ new \in Acc
  /\ new.liveness = HandedTo({p}, st.liveness, live)
  /\ ToSet(new.active) = ToSet(st.active) \cup Grew({p}, st.liveness, live)
  /\ lang = "py" /\ IsInjective(st.active) => IsInjective(new.active)

(* Comparing sizes, as the Python does, tells whether a union grew *)
LEMMA Growing ==
  ASSUME NEW old \in SUBSET Reg, NEW live \in SUBSET Reg
  PROVE  Cardinality(old \cup live) > Cardinality(old) <=> ~(live \subseteq old)
<1>1. IsFiniteSet(old) /\ IsFiniteSet(live) /\ IsFiniteSet(old \cup live)
  BY FS_Subset, Shape
<1>2. Cardinality(old) \in Nat /\ Cardinality(old \cup live) \in Nat
  BY <1>1, FS_CardinalityType
<1>3. CASE live \subseteq old
  <2>1. old \cup live = old BY <1>3
  <2> QED BY <1>2, <1>3, <2>1
<1>4. CASE ~(live \subseteq old)
  <2>1. old \subseteq old \cup live /\ old # old \cup live BY <1>4
  <2> QED BY <1>1, <1>2, <2>1, <1>4, FS_Subset
<1> QED BY <1>3, <1>4

(* One round of the loop of _FunLivenessFixpoint merges into p; the stack *)
(* stays free of duplicates                                               *)
LEMMA MergePython ==
  ASSUME NEW st \in Acc, NEW p \in Bbls, NEW live \in SUBSET Reg
  PROVE  Merges(st, MergeIntoPred(st, p, live), p, live)
<1> DEFINE out == st.liveness[p].live_out \cup live
           new == MergeIntoPred(st, p, live)
<1>1. st.liveness \in [Bbls -> LiveRec] /\ st.active \in Seq(Bbls) BY DEF Acc
<1>2. st.liveness[p] \in LiveRec BY <1>1
<1>3. new.liveness = HandedTo({p}, st.liveness, live)
  <2>1. new.liveness = [st.liveness EXCEPT ![p].live_out = out]
    BY DEF MergeIntoPred
  <2>2. new.liveness = [st.liveness EXCEPT ![p] = [st.liveness[p] EXCEPT !.live_out = out]]
    BY <2>1
  <2> QED BY <1>1, <2>2 DEF HandedTo
<1>4. HandedTo({p}, st.liveness, live) \in [Bbls -> LiveRec]
  BY <1>1, <1>2 DEF HandedTo, LiveRec
<1>5. out \in SUBSET Reg /\ st.liveness[p].live_out \in SUBSET Reg
  BY <1>2 DEF LiveRec
<1>6. CASE live \subseteq st.liveness[p].live_out
  <2>1. new.active = st.active
    BY <1>5, <1>6, Growing DEF MergeIntoPred
  <2>2. Grew({p}, st.liveness, live) = {}
    BY <1>6 DEF Grew
  <2>3. new \in Acc
    BY <1>1, <1>3, <1>4, <2>1 DEF MergeIntoPred, Acc
  <2> QED
    BY <1>3, <2>1, <2>2, <2>3 DEF Merges
<1>7. CASE ~(live \subseteq st.liveness[p].live_out)
  <2>1. new.active = IF Contains(st.active, p) THEN st.active ELSE Append(st.active, p)
    BY <1>5, <1>7, Growing DEF MergeIntoPred
  <2>2. Grew({p}, st.liveness, live) = {p}
    BY <1>7 DEF Grew
  <2>3. new.active \in Seq(Bbls) /\ ToSet(new.active) = ToSet(st.active) \cup {p}
        /\ (IsInjective(st.active) => IsInjective(new.active))
    BY <1>1, <2>1, Containing, Pushing
  <2>4. new \in Acc
    BY <1>1, <1>3, <1>4, <2>3 DEF MergeIntoPred, Acc
  <2> QED
    BY <1>3, <2>2, <2>3, <2>4 DEF Merges
<1> QED
  BY <1>6, <1>7

(* So does one round of the loop of the port, as long as the set it *)
(* consults holds only bbls that are in the stack                   *)
LEMMA MergePort ==
  ASSUME lang = "cc", NEW st \in Acc, NEW p \in Bbls, NEW live \in SUBSET Reg, NEW set,
         set \subseteq ToSet(st.active)
  PROVE  Merges(st, MergeIntoPredCC(st, p, live, set), p, live)
<1> DEFINE out == st.liveness[p].live_out \cup live
           new == MergeIntoPredCC(st, p, live, set)
<1>1. st.liveness \in [Bbls -> LiveRec] /\ st.active \in Seq(Bbls)
  BY DEF Acc
<1>2. st.liveness[p] \in LiveRec
  BY <1>1
<1>3. new.liveness = HandedTo({p}, st.liveness, live)
  <2>1. new.liveness = [st.liveness EXCEPT ![p].live_out = out]
    BY DEF MergeIntoPredCC
  <2>2. new.liveness = [st.liveness EXCEPT ![p] = [st.liveness[p] EXCEPT !.live_out = out]]
    BY <2>1
  <2> QED
    BY <1>1, <2>2 DEF HandedTo
<1>4. HandedTo({p}, st.liveness, live) \in [Bbls -> LiveRec]
  BY <1>1, <1>2 DEF HandedTo, LiveRec
<1>5. new.active = IF live \subseteq st.liveness[p].live_out \/ p \in set
                   THEN st.active ELSE Append(st.active, p)
  BY DEF MergeIntoPredCC
<1>6. new.active \in Seq(Bbls)
      /\ ToSet(new.active) = ToSet(st.active) \cup Grew({p}, st.liveness, live)
  BY <1>1, <1>5, Pushing DEF Grew
<1>7. new \in Acc
  BY <1>3, <1>4, <1>6 DEF MergeIntoPredCC, Acc
<1> QED
  BY <1>3, <1>6, <1>7 DEF Merges


(* rounds over a list of predecessors *)
MergedAll(old, new, ps, live) ==
  /\ new \in Acc
  /\ new.liveness = HandedTo(ps, old.liveness, live)
  /\ ToSet(new.active) = ToSet(old.active) \cup Grew(ps, old.liveness, live)
  /\ lang = "py" /\ IsInjective(old.active) => IsInjective(new.active)

(* MergedAll describes the loop before its first round ... *)
LEMMA MergingNone ==
  ASSUME NEW st \in Acc, NEW live
  PROVE  MergedAll(st, st, {}, live)
<1>1. st.liveness \in [Bbls -> LiveRec]
  BY DEF Acc
<1>2. HandedTo({}, st.liveness, live) = st.liveness /\ Grew({}, st.liveness, live) = {}
  BY <1>1 DEF HandedTo, Grew
<1> QED
  BY <1>2 DEF MergedAll

(* ... it describes one more round ... *)
LEMMA MergingOneMore ==
  ASSUME NEW old \in Acc, NEW mid, NEW new, NEW ps, NEW p \in Bbls, NEW live \in SUBSET Reg,
         MergedAll(old, mid, ps, live), Merges(mid, new, p, live)
  PROVE  MergedAll(old, new, ps \cup {p}, live)
<1> DEFINE l == old.liveness
<1>1. l \in [Bbls -> LiveRec]
  BY DEF Acc
<1>4. HandedTo({p}, HandedTo(ps, l, live), live) = HandedTo(ps \cup {p}, l, live)
  <2>1. ASSUME NEW q \in Bbls
        PROVE  HandedTo({p}, HandedTo(ps, l, live), live)[q] = HandedTo(ps \cup {p}, l, live)[q]
    BY <1>1 DEF HandedTo, LiveRec
  <2> QED
    BY <2>1 DEF HandedTo
<1>5. Grew({p}, HandedTo(ps, l, live), live) \cup Grew(ps, l, live) = Grew(ps \cup {p}, l, live)
  BY <1>1 DEF Grew, HandedTo, LiveRec
<1> QED
  BY <1>4, <1>5 DEF Merges, MergedAll

(* ... and so all rounds: the live_out of every predecessor, repeated or   *)
(* not, is extended by live, and exactly those that grew join the worklist *)
LEMMA MergingAll ==
  ASSUME NEW h, NEW n \in Nat, NEW seq, NEW live \in SUBSET Reg, h[0] \in Acc,
         \A k \in 1 .. n : seq[k] \in Bbls,
         \A k \in 1 .. n : h[k - 1] \in Acc => Merges(h[k - 1], h[k], seq[k], live)
  PROVE  MergedAll(h[0], h[n], {seq[k] : k \in 1 .. n}, live)
<1> DEFINE ps(m) == {seq[k] : k \in 1 .. m}
           Good(m, st) == MergedAll(h[0], st, ps(m), live)
           I == [m \in 0 .. n |-> {st \in Acc : Good(m, st)}]
<1>2. Good(0, h[0])
  <2>1. ps(0) = {}
    OBVIOUS
  <2> QED
    BY <2>1, MergingNone
<1>3. ASSUME NEW k \in 1 .. n, h[k - 1] \in Acc, Good(k - 1, h[k - 1])
      PROVE  h[k] \in Acc /\ Good(k, h[k])
  <2>2. Merges(h[k - 1], h[k], seq[k], live)
    BY <1>3
  <2>3. ps(k) = ps(k - 1) \cup {seq[k]}
    OBVIOUS
  <2> HIDE DEF ps
  <2>4. MergedAll(h[0], h[k], ps(k - 1) \cup {seq[k]}, live)
    BY <1>3, <2>2, MergingOneMore
  <2> QED
    BY <2>3, <2>4 DEF MergedAll
<1> HIDE DEF Good
<1>4. \A k \in 0 .. n : h[k] \in I[k]
  <2>1. h[0] \in I[0]
    BY <1>2
  <2>2. \A k \in 1 .. n : h[k - 1] \in I[k - 1] => h[k] \in I[k]
    BY <1>3
  <2> HIDE DEF I
  <2> QED
    BY <2>1, <2>2, Stays
<1>5. Good(n, h[n])
  BY <1>4
<1> QED
  BY <1>5 DEF Good
(* The loop over edge_in of Visit, round by round. *)
LEMMA PythonLoop ==
  ASSUME NEW base \in Acc, NEW seq \in Seq(Bbls), NEW live \in SUBSET Reg
  PROVE  \E h : /\ h[0] = base /\ \A k \in 1 .. Len(seq) : h[k] = MergeIntoPred(h[k - 1], seq[k], live)
               /\ MergeIntoPreds(base, seq, live) = h[Len(seq)]
<1> DEFINE n == Len(seq)
           F(h) == [k \in 0 .. n |->
                      IF k = 0 THEN base
                      ELSE CHOOSE end \in {MergeIntoPred(mid, seq[k], live) : mid \in {h[k - 1]}} : TRUE]
           fold == CHOOSE h : h = F(h)
           step == [x \in (1 .. n) \X Acc |-> MergeIntoPred(x[2], seq[x[1]], live)]
<1>1. n \in Nat /\ base \in Acc /\ step \in StepsOn(n, Acc)
  <2>1. ASSUME NEW st \in Acc, NEW k \in 1 .. n
        PROVE  MergeIntoPred(st, seq[k], live) \in Acc
    <3>1. seq[k] \in Bbls
      OBVIOUS
    <3> QED
      BY <3>1, MergePython DEF Merges
  <2> QED
    BY <2>1 DEF StepsOn
<1>2. PICK g : g \in Iterates(n, Acc, base, step)
  <2> HIDE DEF step, n
  <2> QED
    BY <1>1, Iteration
<1>3. /\ g \in [0 .. n -> Acc] /\ g[0] = base
      /\ \A k \in 1 .. n : g[k] = MergeIntoPred(g[k - 1], seq[k], live)
  BY <1>2 DEF Iterates
<1>4. ASSUME NEW k \in 1 .. n, NEW v
      PROVE  (CHOOSE end \in {MergeIntoPred(mid, seq[k], live) : mid \in {v}} : TRUE) = MergeIntoPred(v, seq[k], live)
  OBVIOUS
<1>5. g = F(g)
  BY <1>3, <1>4
<1>6. fold = F(fold)
  <2> HIDE DEF F
  <2> QED
    BY <1>5, Zenon
<1>7. MergeIntoPreds(base, seq, live) = fold[n]
  BY Zenon DEF MergeIntoPreds, FoldForward
<1> HIDE DEF fold
<1>8. fold[0] = base /\ \A k \in 1 .. n : fold[k] = MergeIntoPred(fold[k - 1], seq[k], live)
  BY <1>4, <1>6
<1> QED
  BY <1>7, <1>8

(* The effect of MergeIntoPreds, the whole loop over edge_in in Python *)
LEMMA PythonMerges ==
  ASSUME NEW base \in Acc, NEW seq \in Seq(Bbls), NEW live \in SUBSET Reg
  PROVE  MergedAll(base, MergeIntoPreds(base, seq, live), ToSet(seq), live)
<1>1. PICK h : /\ h[0] = base
               /\ \A k \in 1 .. Len(seq) : h[k] = MergeIntoPred(h[k - 1], seq[k], live)
               /\ MergeIntoPreds(base, seq, live) = h[Len(seq)]
  BY PythonLoop
<1>2. Len(seq) \in Nat /\ \A k \in 1 .. Len(seq) : seq[k] \in Bbls
  OBVIOUS
<1>3. \A k \in 1 .. Len(seq) : h[k - 1] \in Acc => Merges(h[k - 1], h[k], seq[k], live)
  BY <1>1, <1>2, MergePython
<1>4. MergedAll(h[0], h[Len(seq)], {seq[k] : k \in 1 .. Len(seq)}, live)
  <2> DEFINE n == Len(seq)
  <2> HIDE DEF n
  <2> QED
    BY <1>1, <1>2, <1>3, MergingAll DEF n
<1>5. ToSet(seq) = {seq[k] : k \in 1 .. Len(seq)}
  BY DEF ToSet
<1> QED
  BY <1>1, <1>4, <1>5

(* The accumulators whose stack holds the bbls of the port's set *)
AccOver(set) == {st \in Acc : set \subseteq ToSet(st.active)}

(* The same for VisitCC. *)
LEMMA PortLoop ==
  ASSUME lang = "cc", NEW base \in Acc, NEW seq \in Seq(Bbls), NEW live \in SUBSET Reg,
         NEW set, set \subseteq ToSet(base.active)
  PROVE  \E h : /\ h[0] = base /\ \A k \in 1 .. Len(seq) : h[k] = MergeIntoPredCC(h[k - 1], seq[k], live, set)
               /\ MergeIntoPredsCC(base, seq, live, set) = h[Len(seq)]
<1> DEFINE n == Len(seq)
           F(h) == [k \in 0 .. n |->
                      IF k = 0 THEN base
                      ELSE CHOOSE end \in {MergeIntoPredCC(mid, seq[k], live, set) : mid \in {h[k - 1]}} : TRUE]
           fold == CHOOSE h : h = F(h)
           step == [x \in (1 .. n) \X AccOver(set) |-> MergeIntoPredCC(x[2], seq[x[1]], live, set)]
<1>1. n \in Nat /\ base \in AccOver(set) /\ step \in StepsOn(n, AccOver(set))
  <2>1. ASSUME NEW st \in AccOver(set), NEW k \in 1 .. n
        PROVE  MergeIntoPredCC(st, seq[k], live, set) \in AccOver(set)
    <3>1. seq[k] \in Bbls
      OBVIOUS
    <3> QED
      <4>1. st \in Acc /\ set \subseteq ToSet(st.active)
        BY DEF AccOver
      <4>2. Merges(st, MergeIntoPredCC(st, seq[k], live, set), seq[k], live)
        BY <3>1, <4>1, MergePort
      <4> QED
        BY <4>1, <4>2 DEF Merges, AccOver
  <2> QED
    BY <2>1 DEF StepsOn, AccOver
<1>2. PICK g : g \in Iterates(n, AccOver(set), base, step)
  <2> HIDE DEF step, n
  <2> QED
    BY <1>1, Iteration
<1>3. /\ g \in [0 .. n -> AccOver(set)] /\ g[0] = base
      /\ \A k \in 1 .. n : g[k] = MergeIntoPredCC(g[k - 1], seq[k], live, set)
  <2>1. ASSUME NEW k \in 1 .. n, NEW v \in AccOver(set)
        PROVE  step[<<k, v>>] = MergeIntoPredCC(v, seq[k], live, set)
    OBVIOUS
  <2> HIDE DEF step
  <2>2. /\ g \in [0 .. n -> AccOver(set)] /\ g[0] = base
        /\ \A k \in 1 .. n : g[k] = step[<<k, g[k - 1]>>]
    BY <1>2 DEF Iterates
  <2>3. \A k \in 1 .. n : g[k - 1] \in AccOver(set)
    BY <1>1, <2>2
  <2> QED
    BY <2>1, <2>2, <2>3
<1>4. ASSUME NEW k \in 1 .. n, NEW v
      PROVE  (CHOOSE end \in {MergeIntoPredCC(mid, seq[k], live, set) : mid \in {v}} : TRUE) = MergeIntoPredCC(v, seq[k], live, set)
  OBVIOUS
<1>5. g = F(g)
  BY <1>3, <1>4
<1>6. fold = F(fold)
  <2> HIDE DEF F
  <2> QED
    BY <1>5, Zenon
<1>7. MergeIntoPredsCC(base, seq, live, set) = fold[n]
  BY Zenon DEF MergeIntoPredsCC, FoldForward
<1> HIDE DEF fold
<1>8. fold[0] = base /\ \A k \in 1 .. n : fold[k] = MergeIntoPredCC(fold[k - 1], seq[k], live, set)
  BY <1>4, <1>6
<1> QED
  BY <1>7, <1>8

(* The effect of MergeIntoPredsCC, the whole loop over edge_in in the port *)
LEMMA PortMerges ==
  ASSUME lang = "cc", NEW base \in Acc, NEW seq \in Seq(Bbls), NEW live \in SUBSET Reg,
         NEW set, set \subseteq ToSet(base.active)
  PROVE  MergedAll(base, MergeIntoPredsCC(base, seq, live, set), ToSet(seq), live)
         /\ set \subseteq ToSet(MergeIntoPredsCC(base, seq, live, set).active)
<1>1. PICK h : /\ h[0] = base
               /\ \A k \in 1 .. Len(seq) : h[k] = MergeIntoPredCC(h[k - 1], seq[k], live, set)
               /\ MergeIntoPredsCC(base, seq, live, set) = h[Len(seq)]
  BY PortLoop
<1>2. Len(seq) \in Nat /\ \A k \in 1 .. Len(seq) : seq[k] \in Bbls
  OBVIOUS
<1> DEFINE n == Len(seq)
           I == [k \in 0 .. n |-> AccOver(set)]
<1> HIDE DEF n
<1>3. \A k \in 0 .. n : h[k] \in I[k]
  <2>1. h[0] \in I[0]
    BY <1>1, <1>2 DEF AccOver, n
  <2>2. ASSUME NEW k \in 1 .. n, h[k - 1] \in I[k - 1]
        PROVE  h[k] \in I[k]
    <3>1. k - 1 \in 0 .. n /\ seq[k] \in Bbls /\ h[k] = MergeIntoPredCC(h[k - 1], seq[k], live, set)
      BY <1>1, <1>2 DEF n
    <3>2. h[k - 1] \in Acc /\ set \subseteq ToSet(h[k - 1].active)
      BY <2>2, <3>1 DEF AccOver
    <3>3. Merges(h[k - 1], h[k], seq[k], live)
      BY <3>1, <3>2, MergePort
    <3>4. h[k] \in Acc /\ ToSet(h[k - 1].active) \subseteq ToSet(h[k].active)
      BY <3>3 DEF Merges
    <3> QED
      BY <3>2, <3>4 DEF AccOver
  <2> HIDE DEF I
  <2> QED
    BY <1>2, <2>1, <2>2, Stays DEF n
<1>4. ASSUME NEW k \in 1 .. n
      PROVE  Merges(h[k - 1], h[k], seq[k], live)
  <2>1. h[k - 1] \in Acc /\ set \subseteq ToSet(h[k - 1].active)
    BY <1>2, <1>3 DEF AccOver, n
  <2> QED
    BY <1>1, <1>2, <2>1, MergePort DEF n
<1>5. MergedAll(h[0], h[n], {seq[k] : k \in 1 .. n}, live)
  BY <1>1, <1>2, <1>4, MergingAll DEF n
<1>6. ToSet(seq) = {seq[k] : k \in 1 .. n}
  BY DEF ToSet, n
<1>7. set \subseteq ToSet(h[n].active)
  BY <1>2, <1>3 DEF AccOver, n
<1> QED
  BY <1>1, <1>5, <1>6, <1>7 DEF n

(* The accumulator of the backward loop of _BblDefUse, and its start *)
DefUse == [def : SUBSET Reg, use : SUBSET Reg]
NoDefUse == [def |-> {}, use |-> {}]

(* The loop of _BblDefUse, instruction by instruction. *)
LEMMA DefUseLoop ==
  ASSUME NEW b, NEW seq \in Seq(Ins), prog[b] = seq
  PROVE  \E d : /\ d[Len(seq) + 1] = NoDefUse
                /\ \A i \in 1 .. Len(seq) : d[i] = InsUpdateDefUse(d[i + 1], seq[i])
                /\ BblDefUse(b) = d[1]
<1> DEFINE n == Len(seq)
           rev == Reverse(seq)
           F(h) == [k \in 0 .. n |->
                      IF k = 0 THEN NoDefUse
                      ELSE CHOOSE end \in {InsUpdateDefUse(mid, rev[k]) : mid \in {h[k - 1]}} : TRUE]
           fold == CHOOSE h : h = F(h)
           step == [x \in (1 .. n) \X DefUse |-> InsUpdateDefUse(x[2], rev[x[1]])]
<1>0. /\ n \in Nat /\ rev \in Seq(Ins) /\ Len(rev) = n
      /\ \A k \in 1 .. n : rev[k] = seq[n - k + 1] /\ rev[k] \in Ins
  BY DEF Reverse
<1> HIDE DEF rev
<1>1. NoDefUse \in DefUse /\ step \in StepsOn(n, DefUse)
  BY <1>0 DEF StepsOn, DefUse, NoDefUse, InsUpdateDefUse, Ins
<1>2. PICK g : g \in Iterates(n, DefUse, NoDefUse, step)
  <2> HIDE DEF step, n
  <2> QED
    BY <1>0, <1>1, Iteration
<1>3. /\ g \in [0 .. n -> DefUse] /\ g[0] = NoDefUse
      /\ \A k \in 1 .. n : g[k] = InsUpdateDefUse(g[k - 1], rev[k])
  <2>1. ASSUME NEW k \in 1 .. n, NEW v \in DefUse
        PROVE  step[<<k, v>>] = InsUpdateDefUse(v, rev[k])
    OBVIOUS
  <2> HIDE DEF step, n
  <2>2. /\ g \in [0 .. n -> DefUse] /\ g[0] = NoDefUse
        /\ \A k \in 1 .. n : g[k] = step[<<k, g[k - 1]>>]
    BY <1>2 DEF Iterates
  <2>3. \A k \in 1 .. n : g[k - 1] \in DefUse
    BY <1>0, <2>2
  <2> QED
    BY <2>1, <2>2, <2>3
<1>4. ASSUME NEW k \in 1 .. n, NEW v
      PROVE  (CHOOSE end \in {InsUpdateDefUse(mid, rev[k]) : mid \in {v}} : TRUE)
                = InsUpdateDefUse(v, rev[k])
  OBVIOUS
<1>5. g = F(g)
  BY <1>3, <1>4
<1>6. fold = F(fold)
  <2> HIDE DEF F
  <2> QED
    BY <1>5, Zenon
<1>7. BblDefUse(b) = fold[n]
  <2>1. FoldForward(InsUpdateDefUse, NoDefUse, rev) = fold[Len(rev)]
    BY <1>0, Zenon DEF FoldForward
  <2> QED
    BY <1>0, <2>1, Zenon DEF BblDefUse, FoldBackward, NoDefUse, rev
<1> HIDE DEF fold
<1>8. fold[0] = NoDefUse /\ \A k \in 1 .. n : fold[k] = InsUpdateDefUse(fold[k - 1], rev[k])
  BY <1>4, <1>6
<1> DEFINE d == [i \in 1 .. n + 1 |-> fold[n + 1 - i]]
<1>9. d[n + 1] = NoDefUse /\ d[1] = fold[n]
  BY <1>0, <1>8
<1>10. ASSUME NEW i \in 1 .. n
       PROVE  d[i] = InsUpdateDefUse(d[i + 1], seq[i])
  <2>1. /\ n + 1 - i \in 1 .. n /\ (n + 1 - i) - 1 = n + 1 - (i + 1)
        /\ n - (n + 1 - i) + 1 = i /\ i + 1 \in 1 .. n + 1
    BY <1>0
  <2>2. fold[n + 1 - i] = InsUpdateDefUse(fold[n + 1 - (i + 1)], seq[i])
    BY <1>0, <1>8, <2>1
  <2>3. d[i] = fold[n + 1 - i] /\ d[i + 1] = fold[n + 1 - (i + 1)]
    BY <2>1
  <2> QED
    BY <2>2, <2>3
<1> QED
  BY <1>7, <1>9, <1>10

(* The registers written, and those read before being written, by the *)
(* instructions of seq from position i on                             *)
WrittenFrom(seq, i) == {r \in Reg : \E j \in i .. Len(seq) : r \in Writes(seq[j])}
ReadFirstFrom(seq, i) ==
  {r \in Reg : \E j \in i .. Len(seq) : /\ r \in seq[j].use
                                        /\ \A k \in i .. (j - 1) : r \notin Writes(seq[k])}

(* InsUpdateDefUse extends both sets by one instruction in front *)
LEMMA DefUseStep ==
  ASSUME NEW seq \in Seq(Ins), NEW i \in 1 .. Len(seq)
  PROVE  InsUpdateDefUse([def |-> WrittenFrom(seq, i + 1), use |-> ReadFirstFrom(seq, i + 1)], seq[i])
           = [def |-> WrittenFrom(seq, i), use |-> ReadFirstFrom(seq, i)]
<1> DEFINE n == Len(seq)
           ins == seq[i]
<1>1. /\ i .. n = {i} \cup (i + 1 .. n) /\ i \in Nat /\ n \in Nat
      /\ ins.def \subseteq Reg /\ ins.use \subseteq Reg /\ ins.res \subseteq Reg
  <2>1. n \in Nat /\ i \in Nat /\ i <= n /\ ins \in Ins
    OBVIOUS
  <2> QED
    BY <2>1 DEF Ins
<1>2. WrittenFrom(seq, i) = WrittenFrom(seq, i + 1) \cup ins.res \cup ins.def
  BY <1>1 DEF WrittenFrom, Writes
<1>3. ReadFirstFrom(seq, i)
        = (ReadFirstFrom(seq, i + 1) \ (ins.res \cup ins.def)) \cup ins.use
  <2>1. ASSUME NEW r \in Reg, NEW j \in i + 1 .. n
        PROVE  (\A k \in i .. (j - 1) : r \notin Writes(seq[k]))
                 <=> /\ r \notin Writes(ins)
                     /\ \A k \in i + 1 .. (j - 1) : r \notin Writes(seq[k])
    <3>1. i .. (j - 1) = {i} \cup (i + 1 .. (j - 1))
      BY <1>1
    <3> QED
      BY <3>1
  <2>2. i .. (i - 1) = {}
    BY <1>1
  <2>3. ASSUME NEW r \in Reg
        PROVE  r \in ReadFirstFrom(seq, i)
                 <=> r \in (ReadFirstFrom(seq, i + 1) \ (ins.res \cup ins.def)) \cup ins.use
    BY <1>1, <2>1, <2>2 DEF ReadFirstFrom, Writes
  <2> QED
    BY <1>1, <2>3 DEF ReadFirstFrom
<1> QED
  BY <1>2, <1>3 DEF InsUpdateDefUse

(* _BblDefUse finds exactly the registers the bbl writes, and those it     *)
(* reads before writing them: live_def and live_use, described by the code *)
(* of the bbl                                                              *)
LEMMA DefUseExact ==
  ASSUME NEW b, prog[b] \in Seq(Ins)
  PROVE  BblDefUse(b) = [def |-> WrittenFrom(prog[b], 1), use |-> ReadFirstFrom(prog[b], 1)]
<1> DEFINE seq == prog[b]
           n == Len(seq)
           Exact(i) == [def |-> WrittenFrom(seq, i), use |-> ReadFirstFrom(seq, i)]
           I == [i \in 1 .. n + 1 |-> {Exact(i)}]
<1>1. PICK d : /\ d[n + 1] = NoDefUse
               /\ \A i \in 1 .. n : d[i] = InsUpdateDefUse(d[i + 1], seq[i])
               /\ BblDefUse(b) = d[1]
  BY DefUseLoop
<1>2. d[n + 1] \in I[n + 1]
  <2>1. n + 1 .. n = {} /\ n \in Nat
    OBVIOUS
  <2>2. Exact(n + 1) = NoDefUse
    BY <2>1 DEF WrittenFrom, ReadFirstFrom, NoDefUse
  <2> QED
    BY <1>1, <2>1, <2>2
<1>3. ASSUME NEW i \in 1 .. n, d[i + 1] \in I[i + 1]
      PROVE  d[i] \in I[i]
  <2>1. i + 1 \in 1 .. n + 1 /\ i \in 1 .. n + 1
    OBVIOUS
  <2>2. d[i + 1] = Exact(i + 1)
    BY <1>3, <2>1
  <2>3. InsUpdateDefUse(Exact(i + 1), seq[i]) = Exact(i)
    BY DefUseStep
  <2> QED
    BY <1>1, <2>1, <2>2, <2>3
<1>4. \A i \in 1 .. n + 1 : d[i] \in I[i]
  <2> HIDE DEF I
  <2>1. n \in Nat
    OBVIOUS
  <2> HIDE DEF n
  <2> QED
    BY <1>2, <1>3, <2>1, StaysBackwards
<1>5. d[1] \in I[1]
  <2>1. 1 \in 1 .. n + 1
    OBVIOUS
  <2> QED
    BY <1>4, <2>1
<1> QED
  BY <1>1, <1>5

-----------------------------------------------------------------------------
(* The accumulator of the backward loop of _BblRemoveUselessInstructions *)
SweepState == [live : SUBSET Reg, keep : Seq(Nat)]

(* The loop of _BblRemoveUselessInstructions, instruction by instruction. *)
LEMMA SweepLoop ==
  ASSUME NEW b, prog[b] \in Seq(Ins), inss[b] = Positions(b), liveness[b].live_out \in SUBSET Reg
  PROVE  LET n == Len(prog[b])
         IN \E d \in [1 .. n + 1 -> SweepState] :
              /\ d[n + 1] = [live |-> liveness[b].live_out, keep |-> <<>>]
              /\ \A i \in 1 .. n : d[i] = InsUpdateLiveness(d[i + 1], prog[b][i], i)
              /\ ScanBackwards(b) = d[1]
<1> DEFINE n == Len(prog[b])
           base == [live |-> liveness[b].live_out, keep |-> <<>>]
           rev == Reverse(inss[b])
           Round(st, i) == InsUpdateLiveness(st, prog[b][i], i)
           F(h) == [k \in 0 .. n |->
                      IF k = 0 THEN base
                      ELSE CHOOSE end \in {Round(mid, rev[k]) : mid \in {h[k - 1]}} : TRUE]
           fold == CHOOSE h : h = F(h)
           step == [x \in (1 .. n) \X SweepState |-> Round(x[2], rev[x[1]])]
<1>0. /\ n \in Nat /\ Len(rev) = n
      /\ \A k \in 1 .. n : rev[k] = n - k + 1 /\ rev[k] \in 1 .. n
  BY DEF Reverse, Positions
<1> HIDE DEF rev, n
<1>a. ASSUME NEW st \in SweepState, NEW i \in 1 .. n
      PROVE  Round(st, i) \in SweepState
  <2>1. prog[b][i] \in Ins /\ i \in Nat
    BY <1>0 DEF n
  <2> QED
    BY <2>1 DEF SweepState, InsUpdateLiveness, Ins
<1>1. base \in SweepState /\ step \in StepsOn(n, SweepState)
  <2>1. base \in SweepState
    BY DEF SweepState
  <2> HIDE DEF Round
  <2> QED
    BY <1>0, <1>a, <2>1 DEF StepsOn
<1> HIDE DEF Round
<1>2. PICK g : g \in Iterates(n, SweepState, base, step)
  <2> HIDE DEF step
  <2> QED
    BY <1>0, <1>1, Iteration
<1>3. /\ g \in [0 .. n -> SweepState] /\ g[0] = base
      /\ \A k \in 1 .. n : g[k] = Round(g[k - 1], rev[k])
  <2>1. ASSUME NEW k \in 1 .. n, NEW v \in SweepState
        PROVE  step[<<k, v>>] = Round(v, rev[k])
    OBVIOUS
  <2> HIDE DEF step
  <2>2. /\ g \in [0 .. n -> SweepState] /\ g[0] = base
        /\ \A k \in 1 .. n : g[k] = step[<<k, g[k - 1]>>]
    BY <1>2 DEF Iterates
  <2>3. \A k \in 1 .. n : g[k - 1] \in SweepState
    BY <1>0, <2>2
  <2> QED
    BY <2>1, <2>2, <2>3
<1>4. ASSUME NEW k \in 1 .. n, NEW v
      PROVE  (CHOOSE end \in {Round(mid, rev[k]) : mid \in {v}} : TRUE) = Round(v, rev[k])
  OBVIOUS
<1>5. g = F(g)
  BY <1>3, <1>4
<1>6. fold = F(fold)
  <2> HIDE DEF F
  <2> QED
    BY <1>5, Zenon
<1>7. ScanBackwards(b) = fold[n]
  <2>1. FoldForward(LAMBDA st, i : InsUpdateLiveness(st, prog[b][i], i), base, rev)
          = fold[Len(rev)]
    BY <1>0, Zenon DEF FoldForward, Round
  <2> QED
    BY <1>0, <2>1, Zenon DEF ScanBackwards, FoldBackward, rev
<1> HIDE DEF fold
<1>8. fold[0] = base /\ \A k \in 1 .. n : fold[k] = Round(fold[k - 1], rev[k])
  BY <1>0, <1>4, <1>6
<1>9. \A k \in 0 .. n : fold[k] \in SweepState
  <2> DEFINE I == [k \in 0 .. n |-> SweepState]
  <2>0. fold[0] \in I[0]
    BY <1>0, <1>1, <1>8
  <2>1. ASSUME NEW k \in 1 .. n, fold[k - 1] \in I[k - 1]
        PROVE  fold[k] \in I[k]
    <3>1. k - 1 \in 0 .. n /\ fold[k] = Round(fold[k - 1], rev[k])
      BY <1>0, <1>8
    <3>2. fold[k - 1] \in SweepState
      BY <2>1, <3>1
    <3> HIDE DEF Round
    <3> QED
      BY <1>0, <1>a, <3>1, <3>2
  <2>2. \A k \in 0 .. n : fold[k] \in I[k]
    <3> HIDE DEF I
    <3> QED
      BY <1>0, <2>0, <2>1, Stays
  <2> QED
    BY <2>2
<1> DEFINE d == [i \in 1 .. n + 1 |-> fold[n + 1 - i]]
<1>10. d \in [1 .. n + 1 -> SweepState] /\ d[n + 1] = base /\ d[1] = fold[n]
  <2>1. \A i \in 1 .. n + 1 : n + 1 - i \in 0 .. n
    BY <1>0
  <2>2. \A i \in 1 .. n + 1 : fold[n + 1 - i] \in SweepState
    BY <1>9, <2>1
  <2>3. n + 1 - (n + 1) = 0 /\ n + 1 - 1 = n /\ 1 \in 1 .. n + 1 /\ n + 1 \in 1 .. n + 1
    BY <1>0
  <2>4. d[n + 1] = fold[0] /\ d[1] = fold[n]
    BY <2>3
  <2> QED
    BY <1>8, <2>2, <2>4
<1>11. ASSUME NEW i \in 1 .. n
       PROVE  d[i] = Round(d[i + 1], i)
  <2>1. /\ n + 1 - i \in 1 .. n /\ (n + 1 - i) - 1 = n + 1 - (i + 1)
        /\ n - (n + 1 - i) + 1 = i /\ i + 1 \in 1 .. n + 1
    BY <1>0
  <2>2. fold[n + 1 - i] = Round(fold[n + 1 - (i + 1)], i)
    BY <1>0, <1>8, <2>1
  <2>3. d[i] = fold[n + 1 - i] /\ d[i + 1] = fold[n + 1 - (i + 1)]
    BY <1>0, <2>1
  <2> QED
    BY <2>2, <2>3
<1> HIDE DEF d
<1> QED
  BY <1>7, <1>10, <1>11 DEF Round, n

(* What _InsUpdateLiveness decides about an instruction before which live *)
(* would be live, and what is live in front of it                         *)
Needed(ins, live) == ins.effect \/ ins.def \cap (live \ ins.res) # {}
LiveBefore(ins, live) ==
  ((live \ ins.res) \ ins.def) \cup (IF Needed(ins, live) THEN ins.use ELSE {})

(* The positions are collected last first and reversed at the end *)
Descending(s) == \A i, j \in DOMAIN s : i < j => s[i] > s[j]
Ascending(s) == \A i, j \in DOMAIN s : i < j => s[i] < s[j]

(* kept and live are what a sweep over seq leaves and computes *)
SweepOf(seq, out, kept, live) ==
  /\ live[Len(seq) + 1] = out
  /\ \A i \in 1 .. Len(seq) : live[i] = LiveBefore(seq[i], live[i + 1])
  /\ ToSet(kept) = {i \in 1 .. Len(seq) : Needed(seq[i], live[i + 1])}
  /\ Ascending(kept)

(* The loop leaves in inss[b] what SweepOf describes: live registers     *)
(* between any two instructions, from live_out backwards, and, in order, *)
(* the positions of the instructions needed at their place               *)
LEMMA Sweep ==
  ASSUME NEW b, prog[b] \in Seq(Ins), inss[b] = Positions(b), liveness[b].live_out \in SUBSET Reg
  PROVE  \E live \in [1 .. Len(prog[b]) + 1 -> SUBSET Reg] :
           SweepOf(prog[b], liveness[b].live_out, Reverse(ScanBackwards(b).keep), live)
<1> DEFINE n == Len(prog[b])
           ins(i) == prog[b][i]
<1>1. PICK d \in [1 .. n + 1 -> SweepState] :
         /\ d[n + 1] = [live |-> liveness[b].live_out, keep |-> <<>>]
         /\ \A i \in 1 .. n : d[i] = InsUpdateLiveness(d[i + 1], prog[b][i], i)
         /\ ScanBackwards(b) = d[1]
  BY SweepLoop
<1>2. n \in Nat
  OBVIOUS
<1> HIDE DEF n
<1> DEFINE live == [i \in 1 .. n + 1 |-> d[i].live]
           Kept(i) == {j \in i .. n : Needed(prog[b][j], live[j + 1])}
           Good(i, keep) == keep \in Seq(Nat) /\ ToSet(keep) = Kept(i) /\ Descending(keep)
           I == [i \in 1 .. n + 1 |-> {keep \in Seq(Nat) : Good(i, keep)}]
           keeps == [i \in 1 .. n + 1 |-> d[i].keep]
<1>3. ASSUME NEW i \in 1 .. n
      PROVE  /\ i + 1 \in 1 .. n + 1 /\ i \in 1 .. n + 1
             /\ live[i] = LiveBefore(prog[b][i], live[i + 1])
             /\ keeps[i] = IF Needed(prog[b][i], live[i + 1]) THEN Append(keeps[i + 1], i)
                           ELSE keeps[i + 1]
  <2>1. i + 1 \in 1 .. n + 1 /\ i \in 1 .. n + 1
    BY <1>2
  <2>2. d[i] = InsUpdateLiveness(d[i + 1], prog[b][i], i)
    BY <1>1
  <2> QED
    BY <2>1, <2>2 DEF InsUpdateLiveness, LiveBefore, Needed
<1>4. Good(n + 1, keeps[n + 1])
  <2>1. n + 1 .. n = {} /\ n + 1 \in 1 .. n + 1
    BY <1>2
  <2>2. keeps[n + 1] = <<>> /\ Kept(n + 1) = {}
    BY <1>1, <2>1
  <2>3. <<>> \in Seq(Nat) /\ ToSet(<<>>) = {} /\ Descending(<<>>)
    BY DEF ToSet, Descending
  <2> HIDE DEF Kept, keeps
  <2> QED
    BY <2>2, <2>3
<1>5. ASSUME NEW i \in 1 .. n, Good(i + 1, keeps[i + 1])
      PROVE  Good(i, keeps[i])
  <2> DEFINE old == keeps[i + 1]
  <2>1. /\ i .. n = {i} \cup (i + 1 .. n) /\ i \in Nat
        /\ old \in Seq(Nat) /\ ToSet(old) = Kept(i + 1) /\ Descending(old)
    <3>1. i .. n = {i} \cup (i + 1 .. n) /\ i \in Nat
      BY <1>2
    <3> HIDE DEF Kept, keeps
    <3> QED
      BY <1>5, <3>1
  <2>a. \A x \in Kept(i + 1) : x > i
    BY <1>2
  <2>2. CASE ~Needed(prog[b][i], live[i + 1])
    <3>1. Kept(i) = Kept(i + 1) /\ keeps[i] = old
      BY <1>3, <2>1, <2>2
    <3> QED
      BY <2>1, <3>1
  <2>3. CASE Needed(prog[b][i], live[i + 1])
    <3>1. Kept(i) = Kept(i + 1) \cup {i} /\ keeps[i] = Append(old, i)
      BY <1>3, <2>1, <2>3
    <3> HIDE DEF old
    <3>2. keeps[i] \in Seq(Nat) /\ ToSet(keeps[i]) = Kept(i)
      <4> HIDE DEF Kept, keeps
      <4> QED
        BY <2>1, <3>1, Pushing
    <3>3. \A k \in DOMAIN old : old[k] \in Kept(i + 1)
      BY <2>1 DEF ToSet
    <3> HIDE DEF Kept, keeps
    <3>4. \A k \in DOMAIN old : old[k] > i
      BY <2>a, <3>3
    <3>5. Descending(Append(old, i))
      BY <2>1, <3>4 DEF Descending
    <3> QED
      BY <3>1, <3>2, <3>5
  <2> QED
    BY <2>2, <2>3
<1> HIDE DEF Good, keeps
<1>6. \A i \in 1 .. n + 1 : keeps[i] \in I[i]
  <2>1. keeps[n + 1] \in I[n + 1]
    BY <1>2, <1>4 DEF Good
  <2>2. \A i \in 1 .. n : keeps[i + 1] \in I[i + 1] => keeps[i] \in I[i]
    BY <1>3, <1>5 DEF Good
  <2> HIDE DEF I
  <2> QED
    BY <1>2, <2>1, <2>2, StaysBackwards
<1>7. Good(1, keeps[1]) /\ keeps[1] = ScanBackwards(b).keep
  <2>1. 1 \in 1 .. n + 1
    BY <1>2
  <2> QED
    BY <1>1, <1>6, <2>1 DEF keeps
<1> DEFINE keep == ScanBackwards(b).keep
<1>8. keep \in Seq(Nat) /\ ToSet(keep) = Kept(1) /\ Descending(keep)
  BY <1>7 DEF Good
<1> HIDE DEF keep, Kept
<1>9. Ascending(Reverse(keep)) /\ ToSet(Reverse(keep)) = Kept(1)
  <2>1. /\ Len(keep) \in Nat /\ DOMAIN keep = 1 .. Len(keep)
        /\ \A i \in 1 .. Len(keep) : keep[i] \in Nat
    BY <1>8
  <2>2. /\ Reverse(keep) \in Seq(Nat) /\ Len(Reverse(keep)) = Len(keep)
        /\ ToSet(Reverse(keep)) = Kept(1)
        /\ \A i \in 1 .. Len(keep) : Reverse(keep)[i] = keep[Len(keep) - i + 1]
    BY <1>8, Reversing
  <2>3. ASSUME NEW i \in DOMAIN Reverse(keep), NEW j \in DOMAIN Reverse(keep), i < j
        PROVE  Reverse(keep)[i] < Reverse(keep)[j]
    <3>1. i \in 1 .. Len(keep) /\ j \in 1 .. Len(keep)
      BY <2>2
    <3>2. /\ Len(keep) - i + 1 \in DOMAIN keep /\ Len(keep) - j + 1 \in DOMAIN keep
          /\ Len(keep) - j + 1 < Len(keep) - i + 1
      BY <2>1, <2>3, <3>1
    <3>3. keep[Len(keep) - j + 1] > keep[Len(keep) - i + 1]
      BY <1>8, <3>2 DEF Descending
    <3> QED
      BY <2>1, <2>2, <3>1, <3>2, <3>3
  <2> QED
    BY <2>2, <2>3 DEF Ascending
<1>10. live \in [1 .. n + 1 -> SUBSET Reg] /\ live[n + 1] = liveness[b].live_out
  BY <1>1, <1>2 DEF SweepState
<1> HIDE DEF live
<1> QED
  BY <1>3, <1>9, <1>10 DEF SweepOf, n, keep, Kept

-----------------------------------------------------------------------------
(* The rest of the inductive invariant *)
Swept(b) == \E live \in [1 .. Len(prog[b]) + 1 -> SUBSET Reg] :
              SweepOf(prog[b], liveness[b].live_out, inss[b], live)

(* The rest of the inductive invariant: the Python has no set; what the  *)
(* solver's end and the removal's progress mean for the worklists; a bbl *)
(* not yet rewritten has all its instructions, one rewritten has been    *)
(* swept                                                                 *)
RInv ==
  /\ lang = "py" => active_set = {}
  /\ IsInjective(todo)
  /\ pc = "done" => todo = <<>>
  /\ pc \in {"remove", "done"} => active = <<>>
  /\ \A b \in Bbls : IF pc \in {"def_use", "fixpoint"} \/ b \in ToSet(todo)
                     THEN inss[b] = Positions(b) ELSE Swept(b)

Inv == IInv /\ RInv

(* What TypeOK says of the data of one bbl *)
LEMMA Types ==
  ASSUME TypeOK
  PROVE  /\ liveness \in [Bbls -> LiveRec] /\ active \in Seq(Bbls)
         /\ \A b \in Bbls : /\ prog[b] \in Seq(Ins) /\ edge_in[b] \in Seq(Bbls)
                            /\ ToSet(edge_in[b]) \subseteq Bbls
                            /\ liveness[b] \in LiveRec
<1>1. /\ liveness \in [Bbls -> LiveRec] /\ active \in Seq(Bbls)
      /\ prog \in [Bbls -> Bodies] /\ edge_in \in Cfgs
  BY DEF TypeOK, LiveRec
<1>2. edge_in \in [Bbls -> Seq(Bbls)]
  BY <1>1, Shape
<1>3. ASSUME NEW b \in Bbls
      PROVE  ToSet(edge_in[b]) \subseteq Bbls
  <2>1. edge_in[b] \in Seq(Bbls)
    BY <1>2
  <2> QED
    BY <2>1 DEF ToSet
<1> QED
  BY <1>1, <1>2, <1>3, Shape

(* What an iteration of the solver's loop does, in both languages: the bbl *)
(* on top of the stack hands its live_in to all its predecessors           *)
VisitStep(b) ==
  LET live == NewLiveIn(b)
      ps == ToSet(edge_in[b])
  IN /\ pc = "fixpoint" /\ active # <<>> /\ b = Last(active)
     /\ liveness' \in [Bbls -> LiveRec]
     /\ \A q \in Bbls :
          /\ liveness'[q].live_out = liveness[q].live_out \cup (IF q \in ps THEN live ELSE {})
          /\ liveness'[q].live_in = IF lang = "py" /\ q = b THEN live ELSE liveness[q].live_in
          /\ liveness'[q].live_def = liveness[q].live_def
          /\ liveness'[q].live_use = liveness[q].live_use
     /\ active' \in Seq(Bbls)
     /\ ToSet(active') = ToSet(Front(active)) \cup Grew(ps, liveness, live)
     /\ lang = "py" => IsInjective(active')
     /\ active_set' \subseteq ToSet(active') /\ (lang = "py" => active_set' = {})
     /\ UNCHANGED <<lang, prog, edge_in, inss, todo, pc>>

(* Comparing sizes, as the Python does, tells whether a growing set is new *)
LEMMA SameSize ==
  ASSUME NEW old \in SUBSET Reg, NEW new \in SUBSET Reg, old \subseteq new, NothingNew(new, old)
  PROVE  new = old
<1>1. IsFiniteSet(old) /\ IsFiniteSet(new)
  BY FS_Subset, Shape
<1>2. Cardinality(old) \in Nat /\ Cardinality(new) \in Nat
  BY <1>1, FS_CardinalityType
<1>3. old # new => Cardinality(old) < Cardinality(new)
  BY <1>1, <1>2, FS_Subset
<1> QED
  BY <1>2, <1>3 DEF NothingNew

(* An iteration in Python is such a step: when it skips the bbl, live_in *)
(* is what the predecessors have already                                 *)
LEMMA VisitEffect ==
  ASSUME Inv, Visit
  PROVE  \E b \in Bbls : VisitStep(b)
<1> DEFINE b == Last(active)
           live == NewLiveIn(b)
           ps == ToSet(edge_in[b])
           rest == Front(active)
<1>1. /\ lang = "py" /\ pc = "fixpoint" /\ active # <<>> /\ active_set = {}
      /\ UNCHANGED <<lang, prog, edge_in, active_set, inss, todo, pc>>
  BY DEF Visit, Inv, RInv
<1>2. /\ liveness \in [Bbls -> LiveRec] /\ active \in Seq(Bbls) /\ IsInjective(active)
      /\ b \in Bbls /\ rest \in Seq(Bbls) /\ IsInjective(rest)
      /\ edge_in[b] \in Seq(Bbls) /\ ps \subseteq Bbls
  <2>1. TypeOK /\ IsInjective(active)
    BY <1>1 DEF Inv, IInv, TypeOK
  <2>2. b \in Bbls /\ rest \in Seq(Bbls) /\ IsInjective(rest)
    BY <1>1, <2>1, Types, Popping
  <2> QED
    BY <2>1, <2>2, Types
<1>3. /\ liveness[b] \in LiveRec /\ live \in SUBSET Reg
      /\ liveness[b].live_in \subseteq live
      /\ \A p \in ps : liveness[b].live_in \subseteq liveness[p].live_out
  BY <1>2 DEF NewLiveIn, LiveRec, Inv, IInv
<1>4. CASE NothingNew(live, liveness[b].live_in)
  <2>1. active' = rest /\ liveness' = liveness
    BY <1>4 DEF Visit, Rest
  <2>2. live = liveness[b].live_in
    BY <1>3, <1>4, SameSize DEF LiveRec
  <2>3. Grew(ps, liveness, live) = {}
    BY <1>3, <2>2 DEF Grew
  <2>4. \A q \in Bbls : liveness[q].live_out = liveness[q].live_out \cup (IF q \in ps THEN live ELSE {})
    BY <1>3, <2>2
  <2> HIDE DEF live, ps, rest, b
  <2>5. VisitStep(b)
    BY <1>1, <1>2, <2>1, <2>2, <2>3, <2>4 DEF VisitStep, live, ps, rest, b
  <2> QED
    BY <1>2, <2>5
<1>5. CASE ~NothingNew(live, liveness[b].live_in)
  <2> DEFINE base == [liveness |-> [liveness EXCEPT ![b].live_in = live], active |-> rest]
             st == MergeIntoPreds(base, edge_in[b], live)
  <2>1. liveness' = st.liveness /\ active' = st.active
    BY <1>5 DEF Visit, Rest
  <2>2. base.liveness = [q \in Bbls |-> IF q = b THEN [liveness[q] EXCEPT !.live_in = live]
                                        ELSE liveness[q]]
    BY <1>2
  <2>3. base \in Acc
    BY <1>2, <1>3, <2>2 DEF Acc, LiveRec
  <2>4. MergedAll(base, st, ps, live)
    <3> HIDE DEF base, live
    <3> QED
      BY <1>2, <1>3, <2>3, PythonMerges
  <2>5. /\ liveness' \in [Bbls -> LiveRec] /\ active' \in Seq(Bbls)
        /\ liveness' = HandedTo(ps, base.liveness, live)
        /\ ToSet(active') = ToSet(rest) \cup Grew(ps, base.liveness, live)
        /\ IsInjective(active')
    BY <1>1, <1>2, <2>1, <2>4 DEF MergedAll, Acc
  <2>6. Grew(ps, base.liveness, live) = Grew(ps, liveness, live)
    BY <1>2, <2>2 DEF Grew, LiveRec
  <2>7. ASSUME NEW q \in Bbls
        PROVE  /\ liveness'[q].live_out = liveness[q].live_out \cup (IF q \in ps THEN live ELSE {})
               /\ liveness'[q].live_in = IF lang = "py" /\ q = b THEN live ELSE liveness[q].live_in
               /\ liveness'[q].live_def = liveness[q].live_def
               /\ liveness'[q].live_use = liveness[q].live_use
    <3> DEFINE m == base.liveness[q]
    <3>1. liveness[q] \in LiveRec
      BY <1>2
    <3>2. /\ m \in LiveRec /\ m.live_out = liveness[q].live_out
          /\ m.live_in = IF q = b THEN live ELSE liveness[q].live_in
          /\ m.live_def = liveness[q].live_def /\ m.live_use = liveness[q].live_use
      BY <1>3, <2>2, <3>1 DEF LiveRec
    <3> HIDE DEF m, live, ps, b
    <3>3. liveness'[q] = IF q \in ps THEN [m EXCEPT !.live_out = m.live_out \cup live] ELSE m
      BY <2>5 DEF HandedTo, m
    <3> QED
      BY <1>1, <3>2, <3>3 DEF LiveRec
  <2> HIDE DEF live, ps, rest, b
  <2>8. VisitStep(b)
    BY <1>1, <1>2, <2>5, <2>6, <2>7 DEF VisitStep, live, ps, rest, b
  <2> QED
    BY <1>2, <2>8
<1> QED
  BY <1>4, <1>5

(* So is an iteration in the port, although active_set may lack bbls that *)
(* the stack holds: a duplicate in the stack is harmless                  *)
LEMMA VisitCCEffect ==
  ASSUME Inv, VisitCC
  PROVE  \E b \in Bbls : VisitStep(b)
<1> DEFINE b == Last(active)
           live == NewLiveIn(b)
           set == active_set \ {b}
           ps == ToSet(edge_in[b])
           rest == Front(active)
           preds == IF live = liveness[b].live_in THEN <<>> ELSE edge_in[b]
           base == [liveness |-> liveness, active |-> rest]
           st == MergeIntoPredsCC(base, preds, live, set)
<1>1. /\ lang = "cc" /\ pc = "fixpoint" /\ active # <<>>
      /\ liveness' = st.liveness /\ active' = st.active /\ active_set' = set
      /\ UNCHANGED <<lang, prog, edge_in, inss, todo, pc>>
  BY DEF VisitCC
<1>2. /\ liveness \in [Bbls -> LiveRec] /\ active \in Seq(Bbls)
      /\ b \in Bbls /\ rest \in Seq(Bbls) /\ ToSet(active) = ToSet(rest) \cup {b}
      /\ edge_in[b] \in Seq(Bbls) /\ ps \subseteq Bbls
  <2>1. TypeOK
    BY DEF Inv, IInv
  <2>2. b \in Bbls /\ rest \in Seq(Bbls) /\ ToSet(active) = ToSet(rest) \cup {b}
    BY <1>1, <2>1, Types, Popping
  <2> QED
    BY <2>1, <2>2, Types
<1>3. /\ liveness[b] \in LiveRec /\ live \in SUBSET Reg /\ liveness[b].live_in = {}
      /\ set \subseteq ToSet(rest)
  BY <1>1, <1>2 DEF NewLiveIn, LiveRec, Inv, IInv, TypeOK
<1>4. base \in Acc /\ base.liveness = liveness /\ base.active = rest
  BY <1>2 DEF Acc
<1>5. preds \in Seq(Bbls) /\ ToSet(preds) \subseteq ps
  BY <1>2 DEF ToSet
<1>6. MergedAll(base, st, ToSet(preds), live) /\ set \subseteq ToSet(st.active)
  <2> HIDE DEF base, live, set, preds
  <2> QED
    BY <1>1, <1>3, <1>4, <1>5, PortMerges
<1>7. /\ liveness' \in [Bbls -> LiveRec] /\ active' \in Seq(Bbls)
      /\ liveness' = HandedTo(ToSet(preds), liveness, live)
      /\ ToSet(active') = ToSet(rest) \cup Grew(ToSet(preds), liveness, live)
      /\ active_set' \subseteq ToSet(active')
  BY <1>1, <1>4, <1>6 DEF MergedAll, Acc
<1>8. ToSet(preds) = ps \/ (ToSet(preds) = {} /\ live = {})
  BY <1>3 DEF ToSet
<1>9. Grew(ToSet(preds), liveness, live) = Grew(ps, liveness, live)
  BY <1>8 DEF Grew
<1>10. ASSUME NEW q \in Bbls
       PROVE  /\ liveness'[q].live_out = liveness[q].live_out \cup (IF q \in ps THEN live ELSE {})
              /\ liveness'[q].live_in = liveness[q].live_in
              /\ liveness'[q].live_def = liveness[q].live_def
              /\ liveness'[q].live_use = liveness[q].live_use
  <2> HIDE DEF live, ps, preds, base, st
  <2>1. liveness[q] \in LiveRec
    BY <1>2
  <2>2. liveness'[q] = IF q \in ToSet(preds)
                       THEN [liveness[q] EXCEPT !.live_out = liveness[q].live_out \cup live]
                       ELSE liveness[q]
    BY <1>7 DEF HandedTo
  <2> QED
    BY <1>8, <2>1, <2>2 DEF LiveRec
<1> HIDE DEF live, ps, rest, b, preds, base, st, set
<1>11. VisitStep(b)
  BY <1>1, <1>2, <1>7, <1>9, <1>10 DEF VisitStep, live, ps, rest, b
<1> QED
  BY <1>2, <1>11

(* Init and stuttering, then one lemma per action *)
LEMMA Unchanging ==
  ASSUME UNCHANGED prog
  PROVE  \A b : BblDefUse(b)' = BblDefUse(b) /\ Positions(b)' = Positions(b)
BY DEF BblDefUse, Positions

(* Before the first pass there is nothing to be wrong about. *)
LEMMA InitInv ==
  ASSUME Init
  PROVE  Inv
<1> USE DEF Init
<1>1. TypeOK
  <2>0. inss \in [Bbls -> Seq(Nat)]
    <3>1. ASSUME NEW b \in Bbls
          PROVE  Positions(b) \in Seq(Nat)
      <4>1. Len(prog[b]) \in Nat
        BY Shape
      <4> QED
        BY <4>1 DEF Positions
    <3> QED
      BY <3>1
  <2>1. Order \in Seq(Bbls) /\ <<>> \in Seq(Bbls) /\ IsInjective(<<>>)
    BY Shape DEF IsInjective
  <2>2. ASSUME NEW b \in Bbls
        PROVE  ToSet(inss[b]) \subseteq DOMAIN prog[b]
    <3>1. prog[b] \in Seq(Ins)
      BY Shape
    <3> QED
      BY <3>1 DEF Positions, ToSet
  <2> QED
    BY <2>0, <2>1, <2>2 DEF TypeOK
<1>2. IInv
  BY <1>1 DEF IInv
<1>3. RInv
  BY DEF RInv, IsInjective
<1> QED
  BY <1>2, <1>3 DEF Inv

(* A step of the solver keeps all parts, whichever language took it *)
LEMMA VisitKeepsInv ==
  ASSUME Inv, NEW b \in Bbls, VisitStep(b)
  PROVE  Inv'
<1> DEFINE live == NewLiveIn(b)
           ps == ToSet(edge_in[b])
<1> USE DEF Inv
<1>1. /\ TypeOK /\ pc = "fixpoint" /\ liveness \in [Bbls -> LiveRec]
      /\ UNCHANGED <<lang, prog, edge_in, inss, todo, pc>>
  BY Types DEF IInv, VisitStep
<1>2. TypeOK'
  <2>1. liveness' \in [Bbls -> LiveRec] /\ active' \in Seq(Bbls)
        /\ (lang = "py" => IsInjective(active')) /\ active_set' \subseteq ToSet(active')
    BY DEF VisitStep
  <2> QED
    BY <1>1, <2>1 DEF TypeOK, LiveRec
<1>3. ASSUME NEW c \in Bbls
      PROVE  LET l == liveness'[c]
             IN /\ l.live_in \subseteq (l.live_out \ l.live_def) \cup l.live_use
                /\ \A p \in ToSet(edge_in[c]) : l.live_in \subseteq liveness'[p].live_out
                /\ lang = "cc" => l.live_in = {}
                /\ l.live_def = BblDefUse(c).def /\ l.live_use = BblDefUse(c).use
  <2> DEFINE l == liveness'[c]
  <2>1. /\ l.live_out = liveness[c].live_out \cup (IF c \in ps THEN live ELSE {})
        /\ l.live_in = IF lang = "py" /\ c = b THEN live ELSE liveness[c].live_in
        /\ l.live_def = liveness[c].live_def /\ l.live_use = liveness[c].live_use
    BY DEF VisitStep
  <2>2. /\ liveness[c].live_in \subseteq (liveness[c].live_out \ liveness[c].live_def) \cup liveness[c].live_use
        /\ \A p \in ToSet(edge_in[c]) : liveness[c].live_in \subseteq liveness[p].live_out
        /\ lang = "cc" => liveness[c].live_in = {}
        /\ liveness[c].live_def = BblDefUse(c).def /\ liveness[c].live_use = BblDefUse(c).use
    BY <1>1 DEF IInv, NewLiveIn
  <2>3. ASSUME NEW p \in ToSet(edge_in[c])
        PROVE  l.live_in \subseteq liveness'[p].live_out
    <3>1. p \in Bbls
      BY <1>1, Types
    <3>2. liveness'[p].live_out = liveness[p].live_out \cup (IF p \in ps THEN live ELSE {})
      BY <3>1 DEF VisitStep
    <3> QED
      BY <2>1, <2>2, <3>2
  <2>4. l.live_in \subseteq (l.live_out \ l.live_def) \cup l.live_use
    <3>1. CASE lang = "py" /\ c = b
      BY <2>1, <3>1 DEF NewLiveIn
    <3>2. CASE ~(lang = "py" /\ c = b)
      BY <2>1, <2>2, <3>2
    <3> QED
      BY <3>1, <3>2
  <2>5. lang = "cc" => l.live_in = {}
    BY <2>1, <2>2
  <2> QED
    BY <2>1, <2>2, <2>3, <2>4, <2>5
<1>4. IInv'
  <2>1. \A c : BblDefUse(c)' = BblDefUse(c)
    BY <1>1, Unchanging
  <2> QED
    BY <1>1, <1>2, <1>3, <2>1 DEF IInv, NewLiveIn
<1>5. RInv'
  BY <1>1 DEF RInv, VisitStep, Positions, Swept
<1> QED
  BY <1>4, <1>5

(* live_def and live_use are computed for every bbl and every bbl is put *)
(* on the worklist                                                       *)
LEMMA ComputeDefUseKeepsInv ==
  ASSUME Inv, ComputeDefUse
  PROVE  Inv'
<1> USE DEF Inv, ComputeDefUse
<1>1. TypeOK /\ UNCHANGED <<lang, prog, edge_in, inss, todo>> /\ pc = "def_use" /\ pc' = "fixpoint"
  BY DEF IInv
<1>2. ASSUME NEW b \in Bbls
      PROVE  liveness'[b] \in LiveRec
  <2>1. prog[b] \in Seq(Ins)
    BY <1>1, Types
  <2>2. BblDefUse(b).def \subseteq Reg /\ BblDefUse(b).use \subseteq Reg
    BY <2>1, DefUseExact DEF WrittenFrom, ReadFirstFrom
  <2> QED
    BY <2>2 DEF NewLiveness, LiveRec
<1>3. TypeOK'
  <2>1. liveness' \in [Bbls -> LiveRec] /\ active_set' \subseteq ToSet(active')
    BY <1>2 DEF Bbls
  <2> QED
    BY <1>1, <2>1, Shape DEF TypeOK, LiveRec
<1>4. IInv'
  <2>1. \A c : BblDefUse(c)' = BblDefUse(c)
    BY <1>1, Unchanging
  <2> QED
    BY <1>1, <1>3, <2>1 DEF IInv, NewLiveness, NewLiveIn
<1>5. RInv'
  BY <1>1 DEF RInv, Positions, Swept
<1> QED
  BY <1>4, <1>5

(* The removal starts with every bbl to rewrite and all instructions in *)
(* place                                                                *)
LEMMA FixpointReachedKeepsInv ==
  ASSUME Inv, FixpointReached
  PROVE  Inv'
<1> USE DEF Inv, FixpointReached
<1>1. TypeOK
  BY DEF IInv
<1>2. TypeOK'
  BY <1>1, Shape DEF TypeOK
<1>4. IInv'
  <2>1. \A c : BblDefUse(c)' = BblDefUse(c)
    BY Unchanging
  <2> QED
    BY <1>2, <2>1 DEF IInv, NewLiveIn
<1>5. RInv'
  BY Shape DEF RInv, Positions, Swept, Bbls
<1> QED
  BY <1>4, <1>5

(* Nothing is left to rewrite *)
LEMMA FinishKeepsInv ==
  ASSUME Inv, Finish
  PROVE  Inv'
<1> USE DEF Inv, Finish
<1>2. TypeOK'
  BY DEF TypeOK, IInv
<1>4. IInv'
  <2>1. \A c : BblDefUse(c)' = BblDefUse(c)
    BY Unchanging
  <2> QED
    BY <1>2, <2>1 DEF IInv, NewLiveIn
<1>5. RInv'
  BY DEF RInv, Positions, Swept
<1> QED
  BY <1>4, <1>5

(* Rewriting b turns its positions into swept ones and leaves the other *)
(* bbls alone                                                           *)
LEMMA RemoveKeepsInv ==
  ASSUME Inv, NEW b \in Bbls, BblRemoveUselessInstructions(b)
  PROVE  Inv'
<1> USE DEF Inv, BblRemoveUselessInstructions
<1>1. /\ TypeOK /\ pc = "remove" /\ IsInjective(todo) /\ todo \in Seq(Bbls) /\ todo # <<>>
      /\ b = Head(todo) /\ inss' = [inss EXCEPT ![b] = Reverse(ScanBackwards(b).keep)]
      /\ todo' = Tail(todo) /\ inss \in [Bbls -> Seq(Nat)]
      /\ UNCHANGED <<lang, prog, edge_in, liveness, active, active_set, pc>>
  BY DEF IInv, RInv, TypeOK
<1>2. /\ todo' \in Seq(Bbls) /\ IsInjective(todo') /\ ToSet(todo') = ToSet(todo) \ {b}
      /\ b \in ToSet(todo)
  BY <1>1, Shifting
<1>3. prog[b] \in Seq(Ins) /\ inss[b] = Positions(b) /\ liveness[b].live_out \in SUBSET Reg
  BY <1>1, <1>2, Types DEF RInv, LiveRec
<1>4. PICK live \in [1 .. Len(prog[b]) + 1 -> SUBSET Reg] :
         SweepOf(prog[b], liveness[b].live_out, Reverse(ScanBackwards(b).keep), live)
  BY <1>3, Sweep
<1>5. Reverse(ScanBackwards(b).keep) \in Seq(Nat)
  <2>1. ScanBackwards(b).keep \in Seq(Nat)
    <3>1. 1 \in 1 .. Len(prog[b]) + 1
      BY <1>3
    <3>2. PICK d \in [1 .. Len(prog[b]) + 1 -> SweepState] : ScanBackwards(b) = d[1]
      BY <1>3, SweepLoop
    <3> QED
      BY <3>1, <3>2 DEF SweepState
  <2> QED
    BY <2>1, Reversing
<1>6. ASSUME NEW c \in Bbls
      PROVE  inss'[c] \in Seq(Nat) /\ ToSet(inss'[c]) \subseteq DOMAIN prog[c]
  <2>1. CASE c = b
    <3>1. inss'[c] = Reverse(ScanBackwards(b).keep)
      BY <1>1, <2>1
    <3>2. ToSet(inss'[c]) \subseteq 1 .. Len(prog[b])
      BY <1>4, <3>1 DEF SweepOf
    <3> QED
      BY <1>3, <1>5, <2>1, <3>1, <3>2
  <2>2. CASE c # b
    BY <1>1, <2>2 DEF TypeOK
  <2> QED
    BY <2>1, <2>2
<1>7. TypeOK'
  BY <1>1, <1>2, <1>6 DEF TypeOK
<1>8. IInv'
  <2>1. \A c : BblDefUse(c)' = BblDefUse(c)
    BY <1>1, Unchanging
  <2> QED
    BY <1>1, <1>7, <2>1 DEF IInv, NewLiveIn
<1>9. ASSUME NEW c \in Bbls
      PROVE  IF c \in ToSet(todo') THEN inss'[c] = Positions(c)' ELSE Swept(c)'
  <2>1. CASE c = b
    <3>1. inss'[c] = Reverse(ScanBackwards(b).keep) /\ c \notin ToSet(todo')
      BY <1>1, <1>2, <2>1
    <3>2. Swept(c)'
      BY <1>1, <1>4, <2>1, <3>1 DEF Swept
    <3> QED
      BY <3>1, <3>2
  <2>2. CASE c # b
    <3>1. inss'[c] = inss[c] /\ (c \in ToSet(todo') <=> c \in ToSet(todo))
      BY <1>1, <1>2, <2>2
    <3> QED
      BY <1>1, <3>1 DEF RInv, Positions, Swept
  <2> QED
    BY <2>1, <2>2
<1>10. RInv'
  BY <1>1, <1>2, <1>9 DEF RInv
<1> QED
  BY <1>8, <1>10

(* IInv, which the runs check, and RInv hold in every reachable state, of *)
(* both languages and for every function                                  *)
THEOREM Invariance == Spec => []Inv
<1>1. ASSUME Inv, [Next]_vars
      PROVE  Inv'
  <2>1. CASE Visit \/ VisitCC
    BY <1>1, <2>1, VisitEffect, VisitCCEffect, VisitKeepsInv
  <2>2. CASE ComputeDefUse
    BY <1>1, <2>2, ComputeDefUseKeepsInv
  <2>3. CASE FixpointReached
    BY <1>1, <2>3, FixpointReachedKeepsInv
  <2>4. ASSUME NEW b \in Bbls, BblRemoveUselessInstructions(b)
        PROVE  Inv'
    BY <1>1, <2>4, RemoveKeepsInv
  <2>5. CASE Finish
    BY <1>1, <2>5, FinishKeepsInv
  <2>6. CASE UNCHANGED vars
    <3>1. \A c : BblDefUse(c)' = BblDefUse(c)
      BY <2>6, Unchanging DEF vars
    <3> QED
      BY <1>1, <2>6, <3>1 DEF vars, Inv, IInv, RInv, TypeOK, NewLiveIn, Positions, Swept
  <2> QED
    BY <1>1, <2>1, <2>2, <2>3, <2>4, <2>5, <2>6 DEF Next
<1> QED
  BY <1>1, InitInv, PTL DEF Spec

(* In particular the invariant the run checks *)
THEOREM CodeInvariance == Spec => []IInv
  BY Invariance, PTL DEF Inv

-----------------------------------------------------------------------------
(* A step of the solver's loop visits a bbl of LivenessSolver ... *)
LEMMA SolverVisit ==
  ASSUME Inv, NEW b \in Bbls, VisitStep(b)
  PROVE  Solver!Visit(b)
<1> DEFINE live == NewLiveIn(b)
           ps == ToSet(edge_in[b])
           pred == [c \in Bbls |-> ToSet(edge_in[c])]
           live_def == [c \in Bbls |-> BblDefUse(c).def]
           live_use == [c \in Bbls |-> BblDefUse(c).use]
           live_out == [c \in Bbls |-> liveness[c].live_out]
           act == IF pc = "def_use" THEN Bbls ELSE ToSet(active)
<1>1. /\ pc = "fixpoint" /\ active \in Seq(Bbls) /\ active # <<>> /\ b = Last(active)
      /\ UNCHANGED <<prog, edge_in, pc>> /\ ps \subseteq Bbls
  BY Types DEF Inv, IInv, VisitStep
<1>2. liveness[b].live_def = BblDefUse(b).def /\ liveness[b].live_use = BblDefUse(b).use
  BY <1>1 DEF Inv, IInv
<1>3. Solver!NeededIn(b, live_out[b]) = live
  BY <1>2 DEF Solver!NeededIn, NewLiveIn
<1>4. b \in act /\ act = ToSet(active) /\ act' = ToSet(active')
  BY <1>1, Popping
<1>5. live_out' = [p \in Bbls |-> IF p \in pred[b]
                                  THEN live_out[p] \cup Solver!NeededIn(b, live_out[b])
                                  ELSE live_out[p]]
  <2>1. \A p \in Bbls : liveness'[p].live_out
                          = liveness[p].live_out \cup (IF p \in ps THEN live ELSE {})
    BY DEF VisitStep
  <2> QED
    BY <1>3, <2>1
<1>6. Solver!Grown(b) = Grew(ps, liveness, live)
  BY <1>1, <1>3 DEF Solver!Grown, Grew
<1>7. act' \in {(act \ {b}) \cup Solver!Grown(b), act \cup Solver!Grown(b)}
  <2>1. ToSet(active') = ToSet(Front(active)) \cup Grew(ps, liveness, live)
    BY DEF VisitStep
  <2>2. ToSet(active) = ToSet(Front(active)) \cup {b}
    BY <1>1, Popping
  <2> QED
    BY <1>4, <1>6, <2>1, <2>2
<1>8. UNCHANGED <<pred, live_def, live_use>>
  BY <1>1, Unchanging
<1> QED
  BY <1>4, <1>5, <1>7, <1>8 DEF Solver!Visit, Solver!program

(* ... and no other step changes what LivenessSolver sees: computing    *)
(* live_def and live_use happens before its Init, and the removal after *)
(* its last step                                                        *)
LEMMA SolverStutters ==
  ASSUME Inv, \/ ComputeDefUse
              \/ FixpointReached
              \/ \E b \in Bbls : BblRemoveUselessInstructions(b)
              \/ Finish
              \/ UNCHANGED vars
  PROVE  UNCHANGED Solver!vars
<1>1. UNCHANGED <<prog, edge_in>>
  BY DEF ComputeDefUse, FixpointReached, BblRemoveUselessInstructions, Finish, vars
<1>2. \A b : BblDefUse(b)' = BblDefUse(b)
  BY <1>1, Unchanging
<1>3. /\ [b \in Bbls |-> liveness[b].live_out]' = [b \in Bbls |-> liveness[b].live_out]
      /\ (IF pc = "def_use" THEN Bbls ELSE ToSet(active))'
           = (IF pc = "def_use" THEN Bbls ELSE ToSet(active))
  <2>1. CASE ComputeDefUse
    BY <2>1 DEF ComputeDefUse, NewLiveness, Inv, IInv, Bbls
  <2>2. CASE FixpointReached \/ (\E b \in Bbls : BblRemoveUselessInstructions(b)) \/ Finish
    BY <2>2 DEF FixpointReached, BblRemoveUselessInstructions, Finish
  <2>3. CASE UNCHANGED vars
    BY <2>3 DEF vars
  <2> QED
    BY <2>1, <2>2, <2>3
<1> QED
  BY <1>1, <1>2, <1>3 DEF Solver!vars

(* The initial states of the pass are those of LivenessSolver *)
LEMMA SolverInit ==
  ASSUME Init
  PROVE  Solver!Init
<1>1. ASSUME NEW b \in Bbls
      PROVE  /\ ToSet(edge_in[b]) \subseteq Bbls
             /\ BblDefUse(b).def \subseteq Reg /\ BblDefUse(b).use \subseteq Reg
  <2>1. TypeOK
    BY InitInv DEF Inv, IInv
  <2>2. prog[b] \in Seq(Ins) /\ ToSet(edge_in[b]) \subseteq Bbls
    BY <2>1, Types
  <2> QED
    BY <2>2, DefUseExact DEF WrittenFrom, ReadFirstFrom
<1> QED
  BY <1>1 DEF Init, Solver!Init

(* Every step of the pass is a visit of LivenessSolver or a stutter *)
LEMMA SolverStep ==
  ASSUME Inv, [Next]_vars
  PROVE  [Solver!Next]_(Solver!vars)
<1>1. CASE Visit \/ VisitCC
  <2>1. PICK b \in Bbls : VisitStep(b)
    BY <1>1, VisitEffect, VisitCCEffect
  <2>2. Solver!Visit(b)
    BY <2>1, SolverVisit
  <2> QED
    BY <2>2 DEF Solver!Next
<1>2. CASE ~(Visit \/ VisitCC)
  BY <1>2, SolverStutters DEF Next
<1> QED
  BY <1>1, <1>2

(* The worklist loops of liveness.py and liveness.cc implement the order- *)
(* free solver: for every function, every order of its bbls and of their  *)
(* predecessor lists                                                      *)
THEOREM Refinement == Spec => ImplementsSolver
BY SolverInit, SolverStep, Invariance, PTL DEF Spec, ImplementsSolver, Solver!Spec

(* The theorems about LivenessSolver, for the live sets of this pass *)
Facts == INSTANCE LivenessSolverProofs WITH
  Bbl <- Bbls,
  pred <- [b \in Bbls |-> ToSet(edge_in[b])],
  live_def <- [b \in Bbls |-> BblDefUse(b).def],
  live_use <- [b \in Bbls |-> BblDefUse(b).use],
  live_out <- [b \in Bbls |-> liveness[b].live_out],
  active <- IF pc = "def_use" THEN Bbls ELSE ToSet(active)

(* When the worklist of either language is empty, live_out is the least *)
(* solution of the liveness equations: SolverCorrect, through the       *)
(* refinement                                                           *)
THEOREM LeastAtEnd == Spec => []LeastSolutionAtEnd
<1>1. Spec => Facts!Spec
  <2>1. Init => Facts!Init
    BY SolverInit DEF Solver!Init, Facts!Init
  <2>2. Inv /\ [Next]_vars => [Facts!Next]_(Facts!vars)
    BY SolverStep DEF Solver!Next, Facts!Next, Solver!vars, Facts!vars, Solver!Visit, Facts!Visit,
      Solver!Grown, Facts!Grown, Solver!NeededIn, Facts!NeededIn, Solver!program, Facts!program
  <2> QED
    BY <2>1, <2>2, Invariance, PTL DEF Spec, Facts!Spec
<1>2. Facts!Spec => []Facts!LeastSolutionAtEnd
  BY Facts!SolverCorrect
<1>3. Facts!LeastSolutionAtEnd => LeastSolutionAtEnd
  BY DEF Facts!LeastSolutionAtEnd, LeastSolutionAtEnd, Solver!LeastSolutionAtEnd,
    Facts!IsLeastSolution, Solver!IsLeastSolution, Facts!IsSolution, Solver!IsSolution,
    Facts!NeededIn, Solver!NeededIn
<1> QED
  BY <1>1, <1>2, <1>3, PTL

-----------------------------------------------------------------------------
(* A function has finitely many bbls *)
LEMMA FiniteBbls == IsFiniteSet(Bbls) /\ Cardinality(Bbls) \in Nat
<1>1. /\ Len(Order) \in Nat /\ Order \in [1 .. Len(Order) -> Bbls]
      /\ \A b \in Bbls : \E i \in 1 .. Len(Order) : Order[i] = b
  BY Shape DEF Bbls, ToSet
<1>2. Order \in Surjection(1 .. Len(Order), Bbls)
  BY <1>1 DEF Surjection
<1>3. IsFiniteSet(Bbls)
  BY <1>1, <1>2, FS_NatSurjection DEF ExistsSurjection
<1> QED
  BY <1>3, FS_CardinalityType

(* The bbls that a path of at most N bbls leads to, step by step. *)
LEMMA ReachedLoop ==
  ASSUME NEW b \in Bbls, NEW r
  PROVE  LET N == Cardinality(Bbls)
         IN \E w \in [0 .. N -> SUBSET Bbls] :
              /\ w[0] = Succ(b)
              /\ \A k \in 1 .. N :
                   w[k] = w[k - 1] \cup UNION {Succ(c) : c \in {d \in w[k - 1] : ~WrittenIn(d, r)}}
              /\ Reached(b, r) = w[N]
<1> DEFINE N == Cardinality(Bbls)
           Further(s) == s \cup UNION {Succ(c) : c \in {d \in s : ~WrittenIn(d, r)}}
           F(h) == [n \in 0 .. N |-> IF n = 0 THEN Succ(b) ELSE Further(h[n - 1])]
           fold == CHOOSE h : h = F(h)
           A == SUBSET Bbls
           step == [x \in (1 .. N) \X A |-> Further(x[2])]
<1>0. N \in Nat
  BY FiniteBbls
<1> HIDE DEF N
<1>1. Succ(b) \in A /\ step \in StepsOn(N, A)
  BY DEF StepsOn, Succ
<1>2. PICK g : g \in Iterates(N, A, Succ(b), step)
  <2> HIDE DEF step, A
  <2> QED
    BY <1>0, <1>1, Iteration
<1>3. g \in [0 .. N -> A] /\ g[0] = Succ(b) /\ \A k \in 1 .. N : g[k] = Further(g[k - 1])
  <2>1. ASSUME NEW k \in 1 .. N, NEW v \in A
        PROVE  step[<<k, v>>] = Further(v)
    OBVIOUS
  <2> HIDE DEF step, A, Further
  <2>2. /\ g \in [0 .. N -> A] /\ g[0] = Succ(b)
        /\ \A k \in 1 .. N : g[k] = step[<<k, g[k - 1]>>]
    BY <1>2 DEF Iterates
  <2>3. \A k \in 1 .. N : g[k - 1] \in A
    BY <1>0, <2>2
  <2> QED
    BY <2>1, <2>2, <2>3
<1>4. g = F(g)
  <2> HIDE DEF Further
  <2> QED
    BY <1>3
<1>5. fold = F(fold)
  <2> HIDE DEF F
  <2> QED
    BY <1>4, Zenon
<1>6. Reached(b, r) = fold[N]
  BY Zenon DEF Reached, N
<1> HIDE DEF fold, Further
<1>7. fold[0] = Succ(b) /\ \A k \in 1 .. N : fold[k] = Further(fold[k - 1])
  BY <1>0, <1>5
<1>8. fold \in [0 .. N -> A]
  <2> DEFINE I == [k \in 0 .. N |-> A]
  <2>1. fold[0] \in I[0]
    BY <1>0, <1>1, <1>7
  <2>2. ASSUME NEW k \in 1 .. N, fold[k - 1] \in I[k - 1]
        PROVE  fold[k] \in I[k]
    <3>1. fold[k - 1] \in A
      BY <1>0, <2>2
    <3>2. Further(fold[k - 1]) \in A
      BY <3>1 DEF Further, Succ
    <3> QED
      BY <1>7, <3>2
  <2>3. \A k \in 0 .. N : fold[k] \in I[k]
    <3> HIDE DEF I
    <3> QED
      BY <1>0, <2>1, <2>2, Stays
  <2> QED
    BY <1>5, <2>3
<1> QED
  BY <1>6, <1>7, <1>8 DEF N, Further

(* what no bbl after the end of b needs is not needed where b is reached *)
LEMMA ReachedNotNeeded ==
  ASSUME Inv, pc = "done", NEW b \in Bbls, NEW r \in Reg, r \notin liveness[b].live_out,
         \A c \in Bbls : \A p \in ToSet(edge_in[c]) : NewLiveIn(c) \subseteq liveness[p].live_out
  PROVE  \A c \in Reached(b, r) : c \in Bbls /\ r \notin NewLiveIn(c)
<1> DEFINE N == Cardinality(Bbls)
<1>1. PICK w \in [0 .. N -> SUBSET Bbls] :
         /\ w[0] = Succ(b)
         /\ \A k \in 1 .. N :
              w[k] = w[k - 1] \cup UNION {Succ(c) : c \in {d \in w[k - 1] : ~WrittenIn(d, r)}}
         /\ Reached(b, r) = w[N]
  BY ReachedLoop
<1>2. N \in Nat
  BY FiniteBbls
<1> DEFINE Clean == {s \in SUBSET Bbls : \A c \in s : r \notin NewLiveIn(c)}
<1> HIDE DEF N
<1>3. ASSUME NEW d \in Bbls, r \notin liveness[d].live_out
      PROVE  Succ(d) \in Clean
  <2>1. ASSUME NEW c \in Succ(d)
        PROVE  c \in Bbls /\ d \in ToSet(edge_in[c])
    BY Containing, Types DEF Succ, Inv, IInv
  <2> QED
    BY <1>3, <2>1 DEF Succ
<1>4. ASSUME NEW d \in Bbls, ~WrittenIn(d, r), r \notin NewLiveIn(d)
      PROVE  r \notin liveness[d].live_out
  <2>1. liveness[d].live_def = BblDefUse(d).def /\ prog[d] \in Seq(Ins)
    BY Types DEF Inv, IInv
  <2>2. r \notin liveness[d].live_def
    BY <1>4, <2>1, DefUseExact DEF WrittenFrom, WrittenIn
  <2> QED
    BY <1>4, <2>2 DEF NewLiveIn
<1> HIDE DEF Clean
<1> DEFINE I == [k \in 0 .. N |-> Clean]
<1>5. w[0] \in I[0]
  BY <1>1, <1>2, <1>3
<1>6. ASSUME NEW k \in 1 .. N, w[k - 1] \in I[k - 1]
      PROVE  w[k] \in I[k]
  <2>1. w[k - 1] \in Clean
    BY <1>2, <1>6
  <2>2. ASSUME NEW d \in w[k - 1], ~WrittenIn(d, r)
        PROVE  Succ(d) \in Clean
    BY <1>3, <1>4, <2>1, <2>2 DEF Clean
  <2>3. w[k] \in Clean
    BY <1>1, <2>1, <2>2 DEF Clean
  <2> QED
    BY <2>3
<1>7. \A k \in 0 .. N : w[k] \in I[k]
  <2> HIDE DEF I
  <2> QED
    BY <1>2, <1>5, <1>6, Stays
<1>8. w[N] \in Clean
  BY <1>2, <1>7
<1> QED
  BY <1>1, <1>8 DEF Clean

(* Within a bbl: a register that is dead after i and is not written stays dead *)
LEMMA DeadStays ==
  ASSUME NEW seq \in Seq(Ins), NEW out, NEW kept, NEW live, SweepOf(seq, out, kept, live),
         NEW i \in 0 .. Len(seq), NEW m \in i + 1 .. Len(seq) + 1, NEW r,
         r \notin live[i + 1], \A j \in i + 1 .. m - 1 : r \notin Writes(seq[j])
  PROVE  r \notin live[m]
<1> DEFINE n == m - (i + 1)
           h == [k \in 0 .. n |-> live[i + 1 + k]]
           I == [k \in 0 .. n |-> {l \in {live[j] : j \in 1 .. Len(seq) + 1} : r \notin l}]
<1>1. Len(seq) \in Nat /\ i \in Nat /\ m \in Nat /\ n \in Nat /\ m <= Len(seq) + 1
  OBVIOUS
<1>2. h[0] \in I[0]
  BY <1>1
<1>3. ASSUME NEW k \in 1 .. n, h[k - 1] \in I[k - 1]
      PROVE  h[k] \in I[k]
  <2> DEFINE j == i + k
  <2>1. /\ j \in i + 1 .. m - 1 /\ j \in 1 .. Len(seq) /\ h[k - 1] = live[j] /\ h[k] = live[j + 1]
        /\ j + 1 \in 1 .. Len(seq) + 1
    BY <1>1
  <2>2. r \notin live[j] /\ r \notin Writes(seq[j])
    BY <1>1, <1>3, <2>1
  <2>3. live[j] = LiveBefore(seq[j], live[j + 1])
    BY <2>1 DEF SweepOf
  <2> HIDE DEF j, h
  <2>4. r \notin live[j + 1]
    BY <2>2, <2>3 DEF LiveBefore, Writes
  <2> QED
    BY <2>1, <2>4
<1>4. \A k \in 0 .. n : h[k] \in I[k]
  <2> HIDE DEF I, h, n
  <2> QED
    BY <1>1, <1>2, <1>3, Stays
<1>5. h[n] = live[m]
  BY <1>1
<1>6. r \notin h[n]
  <2> HIDE DEF h, n
  <2> QED
    BY <1>1, <1>4
<1> QED
  BY <1>5, <1>6

(* At the end the live sets satisfy the liveness equations and every bbl *)
(* has been swept with them                                              *)
LEMMA AtEnd ==
  ASSUME Inv, LeastSolutionAtEnd, pc = "done"
  PROVE  /\ \A b \in Bbls : Swept(b)
         /\ \A c \in Bbls : \A p \in ToSet(edge_in[c]) : NewLiveIn(c) \subseteq liveness[p].live_out
<1>1. active = <<>> /\ todo = <<>>
  BY DEF Inv, RInv
<1>2. ToSet(active) = {} /\ ToSet(todo) = {}
  BY <1>1 DEF ToSet
<1>3. \A b \in Bbls : Swept(b)
  BY <1>2 DEF Inv, RInv
<1>4. Solver!IsSolution([b \in Bbls |-> liveness[b].live_out])
  BY <1>2 DEF LeastSolutionAtEnd, Solver!LeastSolutionAtEnd, Solver!IsLeastSolution
<1>5. ASSUME NEW c \in Bbls, NEW p \in ToSet(edge_in[c])
      PROVE  NewLiveIn(c) \subseteq liveness[p].live_out
  <2>1. p \in Bbls
    BY Types DEF Inv, IInv
  <2>2. (liveness[c].live_out \ BblDefUse(c).def) \cup BblDefUse(c).use \subseteq liveness[p].live_out
    BY <1>4, <2>1 DEF Solver!IsSolution, Solver!NeededIn
  <2>3. liveness[c].live_def = BblDefUse(c).def /\ liveness[c].live_use = BblDefUse(c).use
    BY DEF Inv, IInv
  <2> QED
    BY <2>2, <2>3 DEF NewLiveIn
<1> QED
  BY <1>3, <1>5

(* What one bbl's sweep removes, no instruction kept anywhere may read *)
LEMMA KeepsWhatIsRead ==
  ASSUME Inv, LeastSolutionAtEnd
  PROVE  RemovalKeepsWhatIsRead
<1> SUFFICES ASSUME pc = "done", NEW b \in Bbls
             PROVE  /\ \A i \in DOMAIN prog[b] \ ToSet(inss[b]) :
                         /\ ~prog[b][i].effect
                         /\ \A r \in prog[b][i].def, c \in Bbls : \A k \in ToSet(inss[c]) :
                              ~MayRead(c, k, b, i, r)
                    /\ \A i, j \in DOMAIN inss[b] : i < j => inss[b][i] < inss[b][j]
  BY DEF RemovalKeepsWhatIsRead
<1>1. \A c \in Bbls : prog[c] \in Seq(Ins) /\ Swept(c)
  BY AtEnd, Types DEF Inv, IInv
<1> DEFINE n == Len(prog[b])
<1>2. PICK live \in [1 .. n + 1 -> SUBSET Reg] :
         SweepOf(prog[b], liveness[b].live_out, inss[b], live)
  BY <1>1 DEF Swept
<1>3. n \in Nat /\ DOMAIN prog[b] = 1 .. n /\ \A i \in 1 .. n : prog[b][i] \in Ins
  BY <1>1
<1>4. \A i, j \in DOMAIN inss[b] : i < j => inss[b][i] < inss[b][j]
  BY <1>2 DEF SweepOf, Ascending
<1>5. ASSUME NEW i \in DOMAIN prog[b] \ ToSet(inss[b])
      PROVE  /\ ~prog[b][i].effect /\ prog[b][i].def \subseteq Reg
             /\ prog[b][i].def \cap live[i + 1] = {}
  <2>1. ~Needed(prog[b][i], live[i + 1]) /\ prog[b][i] \in Ins
    BY <1>2, <1>3 DEF SweepOf
  <2> QED
    BY <2>1 DEF Needed, Ins
<1>6. ASSUME NEW i \in DOMAIN prog[b] \ ToSet(inss[b]), NEW r \in prog[b][i].def,
             NEW c \in Bbls, NEW k \in ToSet(inss[c]), MayRead(c, k, b, i, r)
      PROVE  FALSE
  <2>1. r \in Reg /\ r \notin live[i + 1] /\ i \in 1 .. n
    BY <1>3, <1>5
  <2>2. PICK livec \in [1 .. Len(prog[c]) + 1 -> SUBSET Reg] :
           SweepOf(prog[c], liveness[c].live_out, inss[c], livec)
    BY <1>1 DEF Swept
  <2>3. k \in 1 .. Len(prog[c])
    BY <2>2 DEF SweepOf
  <2>4. CASE c = b /\ i < k /\ \A j \in (i + 1) .. (k - 1) : r \notin Writes(prog[b][j])
    <3>1. k \in 1 .. n /\ Needed(prog[b][k], live[k + 1]) /\ live[k] = LiveBefore(prog[b][k], live[k + 1])
      BY <1>2, <2>3, <2>4 DEF SweepOf
    <3>2. r \in live[k]
      BY <3>1, <1>6, <2>4 DEF LiveBefore, MayRead
    <3>3. i \in 0 .. Len(prog[b]) /\ k \in i + 1 .. Len(prog[b]) + 1
      BY <1>3, <2>1, <2>4, <3>1
    <3>4. r \notin live[k]
      BY <1>1, <1>2, <2>1, <2>4, <3>3, DeadStays
    <3> QED
      BY <3>2, <3>4
  <2>5. CASE /\ SurvivesBbl(b, i, r) /\ c \in Reached(b, r)
             /\ \A j \in 1 .. (k - 1) : r \notin Writes(prog[c][j])
    <3>1. r \notin live[n + 1]
      <4>1. i \in 0 .. Len(prog[b]) /\ n + 1 \in i + 1 .. Len(prog[b]) + 1 /\ (n + 1) - 1 = n
        BY <1>3, <2>1
      <4>2. \A j \in i + 1 .. (n + 1) - 1 : r \notin Writes(prog[b][j])
        BY <2>5, <4>1 DEF SurvivesBbl
      <4> HIDE DEF n
      <4> QED
        BY <1>1, <1>2, <2>1, <4>1, <4>2, DeadStays
    <3>2. r \notin liveness[b].live_out
      BY <1>2, <3>1 DEF SweepOf
    <3>3. r \notin NewLiveIn(c)
      BY <2>1, <2>5, <3>2, AtEnd, ReachedNotNeeded
    <3>4. r \in BblDefUse(c).use
      <4>1. r \in ReadFirstFrom(prog[c], 1)
        BY <1>6, <2>1, <2>3, <2>5 DEF ReadFirstFrom, MayRead
      <4> QED
        BY <1>1, <4>1, DefUseExact
    <3> QED
      BY <3>3, <3>4 DEF NewLiveIn, Inv, IInv
  <2> QED
    BY <1>6, <2>4, <2>5 DEF MayRead
<1> QED
  BY <1>4, <1>5, <1>6

(* FunRemoveUselessInstructions drops no write that a kept instruction may *)
(* read, in any function: RemovalKeepsWhatIsRead                           *)
THEOREM RemovalSound == Spec => []RemovalKeepsWhatIsRead
BY KeepsWhatIsRead, LeastAtEnd, Invariance, PTL

-----------------------------------------------------------------------------
(* The rounds by which ReadFrom is computed *)
LEMMA ReadFromLoop ==
  ASSUME NEW r
  PROVE  LET N == Cardinality(Bbls)
         IN \E w \in [0 .. N -> SUBSET Bbls] :
              /\ w[0] = {b \in Bbls : ReadBeforeWritten(b, r)}
              /\ \A k \in 1 .. N :
                   w[k] = w[k - 1] \cup {b \in Bbls : /\ ~WrittenIn(b, r)
                                                     /\ Succ(b) \cap w[k - 1] # {}}
              /\ ReadFrom(r) = w[N]
<1> DEFINE N == Cardinality(Bbls)
           base == {b \in Bbls : ReadBeforeWritten(b, r)}
           Further(s) == s \cup {b \in Bbls : ~WrittenIn(b, r) /\ Succ(b) \cap s # {}}
           F(h) == [n \in 0 .. N |-> IF n = 0 THEN base ELSE Further(h[n - 1])]
           fold == CHOOSE h : h = F(h)
           A == SUBSET Bbls
           step == [x \in (1 .. N) \X A |-> Further(x[2])]
<1>0. N \in Nat
  BY FiniteBbls
<1> HIDE DEF N
<1>1. base \in A /\ step \in StepsOn(N, A)
  BY DEF StepsOn
<1> HIDE DEF base
<1>2. PICK g : g \in Iterates(N, A, base, step)
  <2> HIDE DEF step, A
  <2> QED
    BY <1>0, <1>1, Iteration
<1>3. g \in [0 .. N -> A] /\ g[0] = base /\ \A k \in 1 .. N : g[k] = Further(g[k - 1])
  <2>1. ASSUME NEW k \in 1 .. N, NEW v \in A
        PROVE  step[<<k, v>>] = Further(v)
    OBVIOUS
  <2> HIDE DEF step, A, Further
  <2>2. /\ g \in [0 .. N -> A] /\ g[0] = base
        /\ \A k \in 1 .. N : g[k] = step[<<k, g[k - 1]>>]
    BY <1>2 DEF Iterates
  <2>3. \A k \in 1 .. N : g[k - 1] \in A
    BY <1>0, <2>2
  <2> QED
    BY <2>1, <2>2, <2>3
<1>4. g = F(g)
  <2> HIDE DEF Further
  <2> QED
    BY <1>3
<1>5. fold = F(fold)
  <2> HIDE DEF F
  <2> QED
    BY <1>4, Zenon
<1>6. ReadFrom(r) = fold[N]
  BY Zenon DEF ReadFrom, N, base
<1> HIDE DEF fold, Further
<1>7. fold[0] = base /\ \A k \in 1 .. N : fold[k] = Further(fold[k - 1])
  BY <1>0, <1>5
<1>8. fold \in [0 .. N -> A]
  <2> DEFINE I == [k \in 0 .. N |-> A]
  <2>1. fold[0] \in I[0]
    BY <1>0, <1>1, <1>7
  <2>2. ASSUME NEW k \in 1 .. N, fold[k - 1] \in I[k - 1]
        PROVE  fold[k] \in I[k]
    <3>1. fold[k - 1] \in A
      BY <1>0, <2>2
    <3>2. Further(fold[k - 1]) \in A
      BY <3>1 DEF Further
    <3> QED
      BY <1>7, <3>2
  <2>3. \A k \in 0 .. N : fold[k] \in I[k]
    <3> HIDE DEF I
    <3> QED
      BY <1>0, <2>1, <2>2, Stays
  <2> QED
    BY <1>5, <2>3
<1> QED
  BY <1>6, <1>7, <1>8 DEF N, Further, base

(* ReadFrom is the set it describes: a bbl is in it when it reads r first, *)
(* or passes r on to a bbl in it; and every bbl in it has a reason         *)
LEMMA ReadFromClosed ==
  ASSUME NEW r
  PROVE  /\ ReadFrom(r) \subseteq Bbls
         /\ \A b \in Bbls : ReadBeforeWritten(b, r) => b \in ReadFrom(r)
         /\ \A b \in Bbls : ~WrittenIn(b, r) /\ Succ(b) \cap ReadFrom(r) # {} => b \in ReadFrom(r)
<1> DEFINE N == Cardinality(Bbls)
           Further(s) == s \cup {b \in Bbls : ~WrittenIn(b, r) /\ Succ(b) \cap s # {}}
<1>1. PICK w \in [0 .. N -> SUBSET Bbls] :
         /\ w[0] = {b \in Bbls : ReadBeforeWritten(b, r)}
         /\ \A k \in 1 .. N : w[k] = Further(w[k - 1])
         /\ ReadFrom(r) = w[N]
  BY ReadFromLoop
<1>2. N \in Nat /\ IsFiniteSet(Bbls) /\ N = Cardinality(Bbls)
  BY FiniteBbls
<1> HIDE DEF N
<1> DEFINE v == [k \in 0 .. N + 1 |-> IF k = N + 1 THEN Further(w[N]) ELSE w[k]]
<1>3. /\ \A k \in 0 .. N : v[k] = w[k]
      /\ v[N + 1] = Further(w[N])
  BY <1>2
<1>4. \A k \in 1 .. N + 1 : v[k] = Further(v[k - 1])
  <2> SUFFICES ASSUME NEW k \in 1 .. N + 1
               PROVE  v[k] = Further(v[k - 1])
    OBVIOUS
  <2>1. CASE k = N + 1
    <3>1. k - 1 = N /\ N \in 0 .. N
      BY <1>2, <2>1
    <3> HIDE DEF v, Further
    <3> QED
      BY <1>3, <2>1, <3>1
  <2>2. CASE k \in 1 .. N
    <3>1. k - 1 \in 0 .. N /\ k \in 0 .. N
      BY <1>2, <2>2
    <3> HIDE DEF v, Further
    <3> QED
      BY <1>1, <1>3, <2>2, <3>1
  <2>3. k = N + 1 \/ k \in 1 .. N
    <3> HIDE DEF v, Further
    <3> QED
      BY <1>2
  <2> HIDE DEF v, Further
  <2> QED
    BY <2>1, <2>2, <2>3
<1>5. \A k \in 0 .. N + 1 : v[k] \subseteq Bbls
  <2>1. N \in 0 .. N /\ \A k \in 0 .. N + 1 : k = N + 1 \/ k \in 0 .. N
    <3> HIDE DEF v, Further
    <3> QED
      BY <1>2
  <2>2. \A k \in 0 .. N : w[k] \subseteq Bbls
    BY <1>1
  <2>3. w[N] \subseteq Bbls
    BY <2>1, <2>2
  <2>4. Further(w[N]) \subseteq Bbls
    BY <2>3
  <2> HIDE DEF v, Further
  <2> QED
    BY <1>3, <2>1, <2>2, <2>4
<1> HIDE DEF v
<1>6. ASSUME NEW k \in 0 .. N
      PROVE  v[k] \subseteq v[k + 1]
  <2>1. k + 1 \in 1 .. N + 1 /\ (k + 1) - 1 = k
    BY <1>2
  <2> QED
    BY <1>4, <2>1
<1>7. ASSUME NEW k \in 1 .. N, v[k] = v[k - 1]
      PROVE  v[k + 1] = v[k]
  <2>1. k + 1 \in 1 .. N + 1 /\ (k + 1) - 1 = k /\ k \in 1 .. N + 1
    BY <1>2
  <2> HIDE DEF Further
  <2> QED
    BY <1>4, <1>7, <2>1
<1>8. v[N + 1] = v[N]
  BY <1>2, <1>5, <1>6, <1>7, ChainStops
<1>9. ReadFrom(r) = Further(ReadFrom(r)) /\ ReadFrom(r) \subseteq Bbls
  BY <1>1, <1>2, <1>3, <1>8
<1>10. w[0] \subseteq w[N]
  <2> DEFINE I == [k \in 0 .. N |-> {s \in SUBSET Bbls : w[0] \subseteq s}]
  <2>1. w[0] \in I[0]
    BY <1>1, <1>2
  <2>2. ASSUME NEW k \in 1 .. N, w[k - 1] \in I[k - 1]
        PROVE  w[k] \in I[k]
    <3>1. w[k] = Further(w[k - 1]) /\ w[k] \in SUBSET Bbls
      BY <1>1, <1>2
    <3>2. w[0] \subseteq w[k - 1]
      BY <1>2, <2>2
    <3> QED
      BY <3>1, <3>2
  <2>3. \A k \in 0 .. N : w[k] \in I[k]
    <3> HIDE DEF I
    <3> QED
      BY <1>2, <2>1, <2>2, Stays
  <2> QED
    BY <1>2, <2>3
<1> QED
  BY <1>1, <1>9, <1>10

(* A solution of the liveness equations has r live at the start of every *)
(* bbl in ReadFrom                                                       *)
LEMMA ReadFromNeeded ==
  ASSUME Inv, pc = "done", NEW r \in Reg,
         \A c \in Bbls : \A p \in ToSet(edge_in[c]) : NewLiveIn(c) \subseteq liveness[p].live_out
  PROVE  \A b \in ReadFrom(r) : r \in NewLiveIn(b)
<1> DEFINE N == Cardinality(Bbls)
           Needing == {s \in SUBSET Bbls : \A b \in s : r \in NewLiveIn(b)}
<1>1. PICK w \in [0 .. N -> SUBSET Bbls] :
         /\ w[0] = {b \in Bbls : ReadBeforeWritten(b, r)}
         /\ \A k \in 1 .. N : w[k] = w[k - 1] \cup {b \in Bbls : /\ ~WrittenIn(b, r)
                                                                 /\ Succ(b) \cap w[k - 1] # {}}
         /\ ReadFrom(r) = w[N]
  BY ReadFromLoop
<1>2. N \in Nat
  BY FiniteBbls
<1> HIDE DEF N
<1>3. ASSUME NEW b \in Bbls
      PROVE  /\ prog[b] \in Seq(Ins)
             /\ liveness[b].live_def = WrittenFrom(prog[b], 1)
             /\ liveness[b].live_use = ReadFirstFrom(prog[b], 1)
  <2>1. prog[b] \in Seq(Ins)
    BY Types DEF Inv, IInv
  <2> QED
    BY <2>1, DefUseExact DEF Inv, IInv
<1>4. ASSUME NEW b \in Bbls, ReadBeforeWritten(b, r)
      PROVE  r \in NewLiveIn(b)
  <2>1. r \in ReadFirstFrom(prog[b], 1)
    BY <1>3, <1>4 DEF ReadBeforeWritten, ReadFirstFrom
  <2> QED
    BY <1>3, <2>1 DEF NewLiveIn
<1>5. ASSUME NEW b \in Bbls, ~WrittenIn(b, r), NEW c \in Succ(b), r \in NewLiveIn(c)
      PROVE  r \in NewLiveIn(b)
  <2>1. c \in Bbls /\ b \in ToSet(edge_in[c])
    BY Containing, Types DEF Succ, Inv, IInv
  <2>2. r \in liveness[b].live_out
    BY <1>5, <2>1
  <2>3. r \notin liveness[b].live_def
    BY <1>3, <1>5 DEF WrittenFrom, WrittenIn
  <2> QED
    BY <2>2, <2>3 DEF NewLiveIn
<1> DEFINE I == [k \in 0 .. N |-> Needing]
<1>6. w[0] \in I[0]
  BY <1>1, <1>2, <1>4
<1>7. ASSUME NEW k \in 1 .. N, w[k - 1] \in I[k - 1]
      PROVE  w[k] \in I[k]
  <2>1. w[k - 1] \in Needing
    BY <1>2, <1>7
  <2>2. w[k] \in Needing
    BY <1>1, <1>5, <2>1
  <2> QED
    BY <2>2
<1>8. \A k \in 0 .. N : w[k] \in I[k]
  <2> HIDE DEF I
  <2> QED
    BY <1>2, <1>6, <1>7, Stays
<1>9. w[N] \in Needing
  BY <1>2, <1>8
<1> QED
  BY <1>1, <1>9

(* The least solution is the one the program's paths describe: LiveAtEnd *)
(* solves the equations, so live_out is within it, and ReadFromNeeded is *)
(* the converse                                                          *)
LEMMA Exact ==
  ASSUME Inv, LeastSolutionAtEnd
  PROVE  LivenessExact
<1> SUFFICES ASSUME pc = "done"
             PROVE  \A b \in Bbls : liveness[b].live_out = LiveAtEnd(b)
  BY DEF LivenessExact
<1> DEFINE exact == [b \in Bbls |-> LiveAtEnd(b)]
<1>1. \A c \in Bbls : \A p \in ToSet(edge_in[c]) : NewLiveIn(c) \subseteq liveness[p].live_out
  BY AtEnd
<1>2. ASSUME NEW b \in Bbls
      PROVE  LiveAtEnd(b) \subseteq liveness[b].live_out
  <2> SUFFICES ASSUME NEW r \in Reg, NEW c \in Succ(b) \cap ReadFrom(r)
               PROVE  r \in liveness[b].live_out
    BY DEF LiveAtEnd
  <2>1. c \in Bbls /\ b \in ToSet(edge_in[c])
    BY Containing, Types DEF Succ, Inv, IInv
  <2>2. r \in NewLiveIn(c)
    BY <1>1, ReadFromNeeded
  <2> QED
    BY <1>1, <2>1, <2>2
<1>3. ASSUME NEW c \in Bbls, NEW p \in ToSet(edge_in[c])
      PROVE  (exact[c] \ BblDefUse(c).def) \cup BblDefUse(c).use \subseteq exact[p]
  <2>1. prog[c] \in Seq(Ins) /\ p \in Bbls /\ c \in Succ(p)
    BY Containing, Types DEF Succ, Inv, IInv
  <2>2. ASSUME NEW r \in BblDefUse(c).use
        PROVE  r \in exact[p]
    <3>1. r \in Reg /\ ReadBeforeWritten(c, r)
      BY <2>1, <2>2, DefUseExact DEF ReadFirstFrom, ReadBeforeWritten
    <3>2. c \in ReadFrom(r)
      BY <3>1, ReadFromClosed
    <3> QED
      BY <2>1, <3>1, <3>2 DEF LiveAtEnd
  <2>3. ASSUME NEW r \in LiveAtEnd(c), r \notin BblDefUse(c).def
        PROVE  r \in exact[p]
    <3>1. r \in Reg /\ Succ(c) \cap ReadFrom(r) # {}
      BY DEF LiveAtEnd
    <3>2. ~WrittenIn(c, r)
      BY <2>1, <2>3, <3>1, DefUseExact DEF WrittenFrom, WrittenIn
    <3>3. c \in ReadFrom(r)
      BY <3>1, <3>2, ReadFromClosed
    <3> QED
      BY <2>1, <3>1, <3>3 DEF LiveAtEnd
  <2> QED
    BY <2>2, <2>3
<1>4. exact \in [Bbls -> SUBSET Reg]
  BY DEF LiveAtEnd
<1>5. active = <<>> /\ ToSet(active) = {}
  BY DEF Inv, RInv, ToSet
<1> HIDE DEF exact
<1>6. Solver!IsSolution(exact)
  BY <1>3 DEF Solver!IsSolution, Solver!NeededIn
<1>7. \A b \in Bbls : liveness[b].live_out \subseteq exact[b]
  BY <1>4, <1>5, <1>6 DEF LeastSolutionAtEnd, Solver!LeastSolutionAtEnd, Solver!IsLeastSolution
<1> QED
  BY <1>2, <1>7 DEF exact

(* FunComputeLivenessInfo leaves in live_out exactly the registers that *)
(* some path from the end of the bbl reads before writing, in both      *)
(* languages and for every function: LivenessExact                      *)
THEOREM ExactAtEnd == Spec => []LivenessExact
BY Exact, LeastAtEnd, Invariance, PTL
=============================================================================
