-------------------------- MODULE LinearScanProofs --------------------------
(***************************************************************************)
(* Local register allocation, for every bbl, register file and binding     *)
(* that the assumptions of LinearScan and BblLiveRanges allow: no two live *)
(* ranges hold one unit, and the ranges BblGetLiveRanges finds are those   *)
(* that the instructions call for.                                         *)
(*                                                                         *)
(* The scan.  Its invariant, ScanInv, says of the ranges handled so far    *)
(* (Sound): a register is one of the range's kind, no reserved range that  *)
(* needs one of its units overlaps it, of two ranges that were given a     *)
(* unit and not spilled since only the later one can still be live, and    *)
(* the units of a live one are not free.  Spilling an earlier range keeps  *)
(* it because the latest suitable range is taken: any range that holds its *)
(* units by now would come later, be of the same family, and be taken      *)
(* first.  Ending a range that was bound to a register before the scan     *)
(* keeps it because has_conflict looks ahead.                              *)
(*                                                                         *)
(* The ranges.  Known says what the walk from the last instruction to the  *)
(* first knows when it has come to a position: which ranges are open, that *)
(* they are those of the registers that are live there, that they cover    *)
(* liveness exactly behind it, where the next call is, and which values in *)
(* machine registers still wait for their definition.  An instruction      *)
(* acts in three parts (InsEffect, Passing), and each part of Known is     *)
(* carried over it by a lemma of its own.                                  *)
(*                                                                         *)
(* The parts below: searches and the order of the list; what spilling,     *)
(* scratch registers, use entries and definitions keep; that Sorted sorts; *)
(* the shape of the ranges BblGetLiveRanges finds; that a bbl rewritten    *)
(* with loads and stores is again a bbl; the invariant of the scan; the    *)
(* effect of an instruction on the ranges; what the walk knows; the        *)
(* invariant of the whole.                                                 *)
(***************************************************************************)
EXTENDS BblLiveRanges, FoldTheorems

(* The least number of a set, as the searches from the left find it. *)
LEMMA LeastOf ==
  ASSUME NEW I, I \subseteq Nat, I # {}
  PROVE  Min(I) \in I /\ \A y \in I : Min(I) <= y
<1>1. \E x \in I : \A y \in I : x <= y
  BY Least
<1> QED
  BY <1>1 DEF Min

(* The greatest number of a bounded set, as the searches from the right *)
(* find it.                                                             *)
LEMMA GreatestOf ==
  ASSUME NEW n \in Nat, NEW I, I \subseteq 0 .. n, I # {}
  PROVE  Max(I) \in I /\ \A y \in I : Max(I) >= y
<1> DEFINE J == {j \in 0 .. n : n - j \in I}
<1>1. PICK e \in I : TRUE
  OBVIOUS
<1>2. n - e \in J /\ J \subseteq Nat
  <2>1. e \in 0 .. n
    BY <1>1
  <2>2. n - e \in 0 .. n /\ n - (n - e) = e
    BY <2>1
  <2> QED
    BY <1>1, <2>2
<1>3. PICK x \in J : \A y \in J : x <= y
  BY <1>2, Least
<1>4. \A y \in I : n - y \in J /\ y \in 0 .. n
  OBVIOUS
<1>5. n - x \in I /\ \A y \in I : n - x >= y
  BY <1>3, <1>4
<1> QED
  BY <1>5 DEF Max

-----------------------------------------------------------------------------
(* The ranges of a list the scan works on. *)
RangeRec == [def : Int, last : Int, reg : Register \cup {NoReg}, uses : Seq(Nat),
             lac : BOOLEAN, pre : BOOLEAN, cpu : (SUBSET Unit) \cup {Spill, NoCpuReg}]

(* A list of ranges: a range starts before it ends; a use entry names    *)
(* ranges that started before it, at one position there is one; reserved *)
(* ranges have a machine register.                                       *)
WellFormed(L) ==
  /\ L \in Seq(RangeRec)
  /\ \A n \in 1 .. Len(L) :
       /\ L[n].def <= AFTER_BBL
       /\ is_use_lr(L[n]) =>
            /\ L[n].last = L[n].def /\ ~L[n].pre
            /\ \A j \in 1 .. Len(L[n].uses) :
                 /\ L[n].uses[j] \in 1 .. Len(L) /\ ~is_use_lr(L[L[n].uses[j]])
                 /\ L[L[n].uses[j]].def < L[n].def
       /\ ~is_use_lr(L[n]) => L[n].def < L[n].last
       /\ L[n].pre => L[n].cpu \in SUBSET Unit
  /\ \A n, m \in 1 .. Len(L) :
       n # m /\ is_use_lr(L[n]) /\ is_use_lr(L[m]) => L[n].def # L[m].def

(* ord lists the ranges of L, each once, as live_ranges.sort() does. *)
InOrder(L, ord) ==
  /\ ord \in Seq(1 .. Len(L)) /\ Len(ord) = Len(L)
  /\ \A n \in 1 .. Len(L) : \E p \in 1 .. Len(L) : ord[p] = n
  /\ \A p, q \in 1 .. Len(L) : p < q => Before(L, ord[p], ord[q])

(* A range that holds a register of the pool, and one that does at x or *)
(* later.                                                               *)
Keeps(L, n) == ~is_use_lr(L[n]) /\ ~L[n].pre /\ L[n].cpu # Spill
Live(L, n, x) == Keeps(L, n) /\ L[n].last # NO_USE /\ L[n].last >= x

(* Of the ranges at places before k: registers are of the range's kind; *)
Kinds(L, ord, k) ==
  \A p \in 1 .. k - 1 : Keeps(L, ord[p]) => L[ord[p]].cpu \in ToSet(CpuRegs[L[ord[p]].reg.kind])
(* a reserved range that needs a unit of the register does not overlap; *)
Reserve(L, ord, k) ==
  \A p \in 1 .. k - 1 : \A m \in 1 .. Len(L) :
    /\ Keeps(L, ord[p]) /\ L[ord[p]].last # NO_USE
    /\ L[m].pre /\ L[m].cpu \cap L[ord[p]].cpu # {}
    => L[m].last <= L[ord[p]].def \/ L[ord[p]].last <= L[m].def
(* of two that hold a unit, both not spilled, only the later one can be *)
(* live at x or beyond;                                                 *)
Later(L, ord, k, x) ==
  \A p, q \in 1 .. k - 1 :
    Live(L, ord[p], x) /\ Keeps(L, ord[q]) /\ L[ord[q]].cpu \cap L[ord[p]].cpu # {} => q <= p
(* and the units of one that is live at x are not free. *)
NotFree(L, ord, free, k, x) ==
  \A p \in 1 .. k - 1 : Live(L, ord[p], x) => L[ord[p]].cpu \cap free = {}
Sound(L, ord, free, k, x) ==
  Kinds(L, ord, k) /\ Reserve(L, ord, k) /\ Later(L, ord, k, x) /\ NotFree(L, ord, free, k, x)

(* The state while one range is handled; scratch registers count as free, *)
(* for they will be.                                                      *)
ScanState == [lrs : Seq(RangeRec), free : SUBSET Unit, scratch : Seq(SUBSET Unit), ok : BOOLEAN]
Good(st, k, x) ==
  /\ st \in ScanState /\ WellFormed(st.lrs) /\ InOrder(st.lrs, order)
  /\ Sound(st.lrs, order, st.free \cup UNION ToSet(st.scratch), k, x)

(* L2 is L but for ranges before place k that were spilled since *)
Frame(L, L2, k) ==
  /\ L2 \in Seq(RangeRec) /\ Len(L2) = Len(L)
  /\ \A n \in 1 .. Len(L) :
       /\ L2[n].def = L[n].def /\ L2[n].last = L[n].last /\ L2[n].reg = L[n].reg
       /\ L2[n].uses = L[n].uses /\ L2[n].lac = L[n].lac /\ L2[n].pre = L[n].pre
       /\ L2[n].cpu = L[n].cpu \/ (/\ L2[n].cpu = Spill /\ ~L[n].pre /\ ~is_use_lr(L[n])
                                   /\ \E p \in 1 .. k - 1 : order[p] = n)

(* The order of ranges does not depend on the registers they have. *)
LEMMA SameShape ==
  ASSUME NEW L, WellFormed(L), InOrder(L, order),
         NEW L2 \in Seq(RangeRec), Len(L2) = Len(L),
         \A n \in 1 .. Len(L) :
            /\ L2[n].def = L[n].def /\ L2[n].last = L[n].last /\ L2[n].reg = L[n].reg
            /\ L2[n].uses = L[n].uses /\ L2[n].pre = L[n].pre
            /\ L2[n].pre => L2[n].cpu = L[n].cpu
  PROVE  WellFormed(L2) /\ InOrder(L2, order)
<1>1. \A n \in 1 .. Len(L) : is_use_lr(L2[n]) <=> is_use_lr(L[n])
  BY DEF is_use_lr
<1>2. ASSUME NEW n \in 1 .. Len(L)
      PROVE  /\ L2[n].def <= AFTER_BBL
             /\ is_use_lr(L2[n]) =>
                  /\ L2[n].last = L2[n].def /\ ~L2[n].pre
                  /\ \A j \in 1 .. Len(L2[n].uses) :
                       /\ L2[n].uses[j] \in 1 .. Len(L) /\ ~is_use_lr(L2[L2[n].uses[j]])
                       /\ L2[L2[n].uses[j]].def < L2[n].def
             /\ ~is_use_lr(L2[n]) => L2[n].def < L2[n].last
             /\ L2[n].pre => L2[n].cpu \in SUBSET Unit
  <2>1. L2[n].def <= AFTER_BBL
    BY DEF WellFormed
  <2>2. ~is_use_lr(L2[n]) => L2[n].def < L2[n].last
    BY <1>1 DEF WellFormed
  <2>3. L2[n].pre => L2[n].cpu \in SUBSET Unit
    BY DEF WellFormed
  <2>4. is_use_lr(L2[n]) => L2[n].last = L2[n].def /\ ~L2[n].pre
    BY <1>1 DEF WellFormed
  <2>5. ASSUME is_use_lr(L2[n]), NEW j \in 1 .. Len(L2[n].uses)
        PROVE  /\ L2[n].uses[j] \in 1 .. Len(L) /\ ~is_use_lr(L2[L2[n].uses[j]])
               /\ L2[L2[n].uses[j]].def < L2[n].def
    <3>1. L2[n].uses = L[n].uses /\ L2[n].def = L[n].def /\ is_use_lr(L[n])
      BY <1>1, <2>5
    <3>2. /\ L[n].uses[j] \in 1 .. Len(L) /\ ~is_use_lr(L[L[n].uses[j]])
          /\ L[L[n].uses[j]].def < L[n].def
      BY <2>5, <3>1 DEF WellFormed
    <3> QED
      BY <1>1, <3>1, <3>2
  <2> QED
    BY <2>1, <2>2, <2>3, <2>4, <2>5
<1>3. ASSUME NEW n \in 1 .. Len(L), NEW m \in 1 .. Len(L), n # m,
             is_use_lr(L2[n]), is_use_lr(L2[m])
      PROVE  L2[n].def # L2[m].def
  BY <1>1, <1>3 DEF WellFormed
<1>4. WellFormed(L2)
  BY <1>2, <1>3 DEF WellFormed
<1>5. ASSUME NEW a \in 1 .. Len(L), NEW b \in 1 .. Len(L), Before(L, a, b)
      PROVE  Before(L2, a, b)
  BY <1>5 DEF Before
<1>6. ASSUME NEW p \in 1 .. Len(L), NEW q \in 1 .. Len(L), p < q
      PROVE  Before(L2, order[p], order[q])
  <2>1. Len(order) = Len(L) /\ order \in Seq(1 .. Len(L)) /\ Before(L, order[p], order[q])
    BY <1>6 DEF InOrder
  <2>2. order[p] \in 1 .. Len(L) /\ order[q] \in 1 .. Len(L)
    BY <2>1
  <2> QED
    BY <2>1, <2>2, <1>5
<1>7. InOrder(L2, order)
  BY <1>6 DEF InOrder
<1> QED
  BY <1>4, <1>7

(* The list with another register for range n. *)
WithCpu(L, n, c) == [L EXCEPT ![n].cpu = c]

(* Giving one range another register leaves everything else of the list as *)
(* it is.                                                                  *)
LEMMA SetCpu ==
  ASSUME NEW L, WellFormed(L), InOrder(L, order), NEW n \in 1 .. Len(L), ~L[n].pre,
         NEW c \in (SUBSET Unit) \cup {Spill, NoCpuReg},
         NEW L2, L2 = WithCpu(L, n, c)
  PROVE  /\ WellFormed(L2) /\ InOrder(L2, order)
         /\ L2 \in Seq(RangeRec) /\ Len(L2) = Len(L)
         /\ \A m \in 1 .. Len(L) :
              /\ L2[m].def = L[m].def /\ L2[m].last = L[m].last /\ L2[m].reg = L[m].reg
              /\ L2[m].uses = L[m].uses /\ L2[m].lac = L[m].lac /\ L2[m].pre = L[m].pre
              /\ L2[m].cpu = IF m = n THEN c ELSE L[m].cpu
<1>1. L \in Seq(RangeRec) /\ DOMAIN L = 1 .. Len(L) /\ Len(L) \in Nat
  BY DEF WellFormed
<1>2. L2 = [L EXCEPT ![n] = [L[n] EXCEPT !.cpu = c]]
  BY DEF WithCpu
<1>3. \A m \in 1 .. Len(L) : L2[m] = IF m = n THEN [L[n] EXCEPT !.cpu = c] ELSE L[m]
  BY <1>1, <1>2
<1>4. [L[n] EXCEPT !.cpu = c] \in RangeRec /\ \A m \in 1 .. Len(L) : L[m] \in RangeRec
  <2>1. \A m \in 1 .. Len(L) : L[m] \in RangeRec
    BY <1>1
  <2> QED
    BY <2>1 DEF RangeRec
<1>5. L2 \in Seq(RangeRec) /\ Len(L2) = Len(L)
  BY <1>1, <1>2, <1>4
<1>6. \A m \in 1 .. Len(L) :
         /\ L2[m].def = L[m].def /\ L2[m].last = L[m].last /\ L2[m].reg = L[m].reg
         /\ L2[m].uses = L[m].uses /\ L2[m].lac = L[m].lac /\ L2[m].pre = L[m].pre
         /\ L2[m].cpu = IF m = n THEN c ELSE L[m].cpu
  <2>1. L[n] \in RangeRec
    BY <1>4
  <2> QED
    BY <2>1, <1>3 DEF RangeRec
<1>7. \A m \in 1 .. Len(L) : L2[m].pre => L2[m].cpu = L[m].cpu
  BY <1>6
<1>8. WellFormed(L2) /\ InOrder(L2, order)
  BY <1>5, <1>6, <1>7, SameShape
<1> QED
  BY <1>5, <1>6, <1>8

-----------------------------------------------------------------------------
(* The places of a sorted list: every range has one, earlier places hold   *)
(* ranges that start no later.                                             *)
LEMMA Ordering ==
  ASSUME NEW L, WellFormed(L), InOrder(L, order)
  PROVE  /\ Len(L) \in Nat /\ Len(order) = Len(L) /\ DOMAIN order = 1 .. Len(L)
         /\ DOMAIN L = 1 .. Len(L)
         /\ \A n \in 1 .. Len(L) : L[n] \in RangeRec
         /\ \A p \in 1 .. Len(L) : order[p] \in 1 .. Len(L)
         /\ \A n \in 1 .. Len(L) : \E p \in 1 .. Len(L) : order[p] = n
         /\ \A p, q \in 1 .. Len(L) : p < q => Before(L, order[p], order[q])
         /\ \A p, q \in 1 .. Len(L) : p <= q => L[order[p]].def <= L[order[q]].def
         /\ \A p, q \in 1 .. Len(L) : p # q => order[p] # order[q]
<1>1. /\ L \in Seq(RangeRec) /\ Len(L) \in Nat /\ order \in Seq(1 .. Len(L))
      /\ Len(order) = Len(L) /\ DOMAIN order = 1 .. Len(L) /\ DOMAIN L = 1 .. Len(L)
      /\ \A p, q \in 1 .. Len(L) : p < q => Before(L, order[p], order[q])
      /\ \A n \in 1 .. Len(L) : \E p \in 1 .. Len(L) : order[p] = n
  BY DEF InOrder, WellFormed
<1>2. \A n \in 1 .. Len(L) : L[n] \in RangeRec
  BY <1>1
<1>3. \A n \in 1 .. Len(L) : L[n].def \in Int /\ L[n].last \in Int
  BY <1>2 DEF RangeRec
<1>4. \A p \in 1 .. Len(L) : order[p] \in 1 .. Len(L)
  <2>1. order \in Seq(1 .. Len(L)) /\ Len(order) = Len(L)
    BY <1>1
  <2> QED
    BY <2>1
<1>5. ASSUME NEW p \in 1 .. Len(L), NEW q \in 1 .. Len(L), p < q
      PROVE  L[order[p]].def <= L[order[q]].def /\ order[p] # order[q]
  <2>1. Before(L, order[p], order[q]) /\ order[p] \in 1 .. Len(L) /\ order[q] \in 1 .. Len(L)
    BY <1>1, <1>4, <1>5
  <2>2. L[order[p]].def \in Int /\ L[order[q]].def \in Int /\ L[order[p]].last \in Int
    BY <1>3, <2>1
  <2> QED
    BY <2>1, <2>2 DEF Before
<1>6. ASSUME NEW p \in 1 .. Len(L), NEW q \in 1 .. Len(L), p <= q
      PROVE  L[order[p]].def <= L[order[q]].def
  <2>1. CASE p = q
    BY <2>1, <1>3, <1>4
  <2>2. CASE p < q
    BY <2>2, <1>5
  <2> QED
    BY <1>6, <2>1, <2>2
<1>7. ASSUME NEW p \in 1 .. Len(L), NEW q \in 1 .. Len(L), p # q
      PROVE  order[p] # order[q]
  <2>1. p < q \/ q < p
    BY <1>7
  <2> QED
    BY <2>1, <1>5
<1> QED
  BY <1>1, <1>2, <1>4, <1>6, <1>7

(* has_conflict looks at the first reserved range that is open; if that    *)
(* starts too late to matter, so do all others.                            *)
LEMMA Conflict ==
  ASSUME NEW L, WellFormed(L), InOrder(L, order), NEW u, NEW def \in Int, NEW last \in Int,
         ~has_conflict(L, u, def, last), NEW m \in 1 .. Len(L), L[m].pre, u \in L[m].cpu
  PROVE  L[m].last <= def \/ last <= L[m].def
<1> SUFFICES ASSUME L[m].last > def
             PROVE  last <= L[m].def
  <2>1. L[m].last \in Int
    BY Ordering DEF RangeRec
  <2> QED
    BY <2>1
<1> DEFINE I == {p \in 1 .. Len(order) : Reserved(L, order[p], u) /\ L[order[p]].last > def}
<1>1. PICK p \in 1 .. Len(L) : order[p] = m
  BY Ordering
<1>2. p \in I /\ I \subseteq Nat
  <2>1. p \in 1 .. Len(order) /\ Len(order) \in Nat
    BY Ordering
  <2>2. Reserved(L, order[p], u)
    BY <1>1 DEF Reserved
  <2> QED
    BY <1>1, <2>1, <2>2
<1>3. Min(I) \in I /\ Min(I) <= p
  BY <1>2, LeastOf
<1>4. Min(I) # 0 /\ Min(I) \in 1 .. Len(L)
  BY <1>3, Ordering
<1>5. ~(L[order[Min(I)]].def < last)
  <2>1. has_conflict(L, u, def, last) <=> Min(I) # 0 /\ L[order[Min(I)]].def < last
    BY <1>2 DEF has_conflict, SelectInSeq
  <2> QED
    BY <1>4, <2>1
<1> HIDE DEF I
<1>6. L[order[Min(I)]].def <= L[order[p]].def
  BY <1>3, <1>4, Ordering
<1>7. L[order[Min(I)]].def \in Int /\ L[m].def \in Int
  <2>1. L[order[Min(I)]] \in RangeRec /\ L[m] \in RangeRec
    BY <1>4, Ordering
  <2> QED
    BY <2>1 DEF RangeRec
<1> QED
  BY <1>1, <1>5, <1>6, <1>7

(* What get_available_reg offers is free and in no conflict. *)
LEMMA Choosing ==
  ASSUME NEW L, NEW free, NEW kind \in DOMAIN CpuRegs, NEW lac, NEW def, NEW last,
         NEW c, c = get_available_reg(L, free, kind, lac, def, last), c # Spill
  PROVE  /\ c \in ToSet(CpuRegs[kind]) /\ c \in SUBSET Unit /\ c \subseteq free
         /\ \A u \in c : ~has_conflict(L, u, def, last)
<1> DEFINE class == IF lac THEN free \cap CalleeSave ELSE free \ CalleeSave
           fits(d) == d \subseteq class /\ \A u \in d : ~has_conflict(L, u, def, last)
           seq == CpuRegs[kind]
           I == {p \in 1 .. Len(seq) : fits(seq[p])}
<1>1. c = IF I # {} THEN (IF Min(I) = 0 THEN Spill ELSE seq[Min(I)]) ELSE Spill
  BY DEF get_available_reg, SelectInSeq
<1>2. I # {} /\ c = seq[Min(I)]
  <2> HIDE DEF I, seq
  <2> QED
    BY <1>1
<1>3. Min(I) \in I
  <2>1. I \subseteq Nat
    OBVIOUS
  <2> HIDE DEF I
  <2> QED
    BY <1>2, <2>1, LeastOf
<1>4. Min(I) \in 1 .. Len(seq) /\ fits(seq[Min(I)])
  <2> HIDE DEF fits, seq
  <2> QED
    BY <1>3
<1>5. seq \in Seq(SUBSET Unit)
  BY CpuRegAssumption
<1>6. seq[Min(I)] \in ToSet(seq) /\ seq[Min(I)] \in SUBSET Unit
  <2> HIDE DEF seq, I
  <2> QED
    BY <1>4, <1>5 DEF ToSet
<1> HIDE DEF I
<1>7. c \in ToSet(seq) /\ c \in SUBSET Unit /\ fits(c)
  BY <1>2, <1>4, <1>6
<1> QED
  BY <1>7

-----------------------------------------------------------------------------
(* Ranges before place k may be spilled repeatedly. *)
LEMMA FrameTwice ==
  ASSUME NEW L1, NEW L2, NEW L3, NEW k, Frame(L1, L2, k), Frame(L2, L3, k)
  PROVE  Frame(L1, L3, k)
<1>1. /\ L3 \in Seq(RangeRec) /\ Len(L3) = Len(L1) /\ Len(L2) = Len(L1)
  BY DEF Frame
<1>2. ASSUME NEW n \in 1 .. Len(L1)
      PROVE  /\ L3[n].def = L1[n].def /\ L3[n].last = L1[n].last /\ L3[n].reg = L1[n].reg
             /\ L3[n].uses = L1[n].uses /\ L3[n].lac = L1[n].lac /\ L3[n].pre = L1[n].pre
             /\ L3[n].cpu = L1[n].cpu \/ (/\ L3[n].cpu = Spill /\ ~L1[n].pre /\ ~is_use_lr(L1[n])
                                          /\ \E p \in 1 .. k - 1 : order[p] = n)
  BY <1>1 DEF Frame, is_use_lr
<1> QED
  BY <1>1, <1>2 DEF Frame

(* A list of ranges differs from itself by no spill. *)
LEMMA FrameNone ==
  ASSUME NEW L \in Seq(RangeRec), NEW k
  PROVE  Frame(L, L, k)
BY DEF Frame

(* A machine register of a handled range is one of its kind. *)
LEMMA Registers ==
  ASSUME NEW L, WellFormed(L), InOrder(L, order), NEW k \in 1 .. Len(L) + 1, Kinds(L, order, k),
         NEW p \in 1 .. k - 1, Keeps(L, order[p])
  PROVE  /\ order[p] \in 1 .. Len(L) /\ p \in 1 .. Len(L)
         /\ L[order[p]].reg \in Register /\ L[order[p]].reg.kind \in DOMAIN CpuRegs
         /\ L[order[p]].cpu \in ToSet(CpuRegs[L[order[p]].reg.kind])
         /\ L[order[p]].cpu \in SUBSET Unit
<1>1. p \in 1 .. Len(L) /\ order[p] \in 1 .. Len(L) /\ L[order[p]] \in RangeRec
  <2>1. p \in 1 .. Len(L)
    BY Ordering
  <2> QED
    BY <2>1, Ordering
<1> DEFINE lr == L[order[p]]
<1>2. lr.reg \in Register
  <2>1. lr.reg # NoReg
    BY DEF Keeps, is_use_lr
  <2> HIDE DEF lr
  <2> QED
    BY <1>1, <2>1 DEF RangeRec, lr
<1>3. lr.reg.kind \in DOMAIN CpuRegs
  BY <1>2 DEF Register
<1>4. lr.cpu \in ToSet(CpuRegs[lr.reg.kind])
  BY DEF Kinds
<1>5. lr.cpu \in SUBSET Unit
  <2>1. CpuRegs[lr.reg.kind] \in Seq(SUBSET Unit)
    BY <1>3, CpuRegAssumption
  <2> HIDE DEF lr
  <2> QED
    BY <1>4, <2>1 DEF ToSet
<1> QED
  BY <1>1, <1>2, <1>3, <1>4, <1>5

(* Ranges that share a unit are of one family. *)
LEMMA SameFamily ==
  ASSUME NEW k \in DOMAIN CpuRegs, NEW l \in DOMAIN CpuRegs,
         NEW c \in ToSet(CpuRegs[k]), NEW d \in ToSet(CpuRegs[l]), c \cap d # {}
  PROVE  family(k) = family(l)
BY CpuRegAssumption

(* _SpillEarlierLiveRange may take the register of a range that has ended; *)
(* no other live range holds it then, for that one would come later, be of *)
(* the same family, and so have been spilled first.                        *)
LEMMA SpillingEarlier ==
  ASSUME NEW st, NEW k \in 1 .. Len(st.lrs) + 1, NEW x \in Int, Good(st, k, x), NEW reg,
         NEW pos \in Int, pos < x
  PROVE  LET s == SpillEarlier(st, reg, pos, k)
         IN /\ Good(s, k, x) /\ Frame(st.lrs, s.lrs, k) /\ s.scratch = st.scratch
<1> DEFINE s == SpillEarlier(st, reg, pos, k)
           L == st.lrs
           taken == st.free \cup UNION ToSet(st.scratch)
           spillable(m) ==
             /\ ~is_use_lr(L[m]) /\ ~L[m].pre /\ L[m].cpu # Spill
             /\ L[m].last > pos /\ family(L[m].reg.kind) = family(reg.kind)
           I == {j \in 1 .. k - 1 : spillable(order[j])}
           m == IF I # {} THEN Max(I) ELSE 0
<1>1. /\ WellFormed(L) /\ InOrder(L, order) /\ L \in Seq(RangeRec) /\ Len(L) \in Nat
      /\ st \in ScanState /\ st.free \in SUBSET Unit /\ st.scratch \in Seq(SUBSET Unit)
      /\ Sound(L, order, taken, k, x) /\ k \in 1 .. Len(L) + 1
  BY DEF Good, ScanState, WellFormed
<1>2. s = IF m = 0 THEN [st EXCEPT !.ok = FALSE]
          ELSE [give_back(st, L[order[m]].cpu) EXCEPT !.lrs[order[m]].cpu = Spill]
  BY DEF SpillEarlier, SelectLastInSubSeq
<1>3. CASE m = 0
  <2>1. s \in ScanState /\ s.lrs = L /\ s.free = st.free /\ s.scratch = st.scratch
    BY <1>1, <1>2, <1>3 DEF ScanState
  <2> HIDE DEF s
  <2> QED
    BY <1>1, <2>1, FrameNone DEF Good, s
<1>4. CASE m # 0
  <2>1. m \in I /\ \A j \in I : m >= j
    <3>1. I # {} /\ m = Max(I)
      BY <1>4
    <3>2. I \subseteq 0 .. Len(L)
      BY <1>1
    <3> HIDE DEF I
    <3> QED
      BY <1>1, <3>1, <3>2, GreatestOf
  <2>2. m \in 1 .. k - 1 /\ spillable(order[m])
    BY <2>1
  <2> HIDE DEF m
  <2> DEFINE n == order[m]
             L2 == WithCpu(L, n, Spill)
  <2>3. Keeps(L, n)
    BY <2>2 DEF Keeps
  <2>4. n \in 1 .. Len(L) /\ L[n].reg.kind \in DOMAIN CpuRegs /\ L[n].cpu \in SUBSET Unit
        /\ L[n].cpu \in ToSet(CpuRegs[L[n].reg.kind]) /\ m \in 1 .. Len(L)
    BY <1>1, <2>2, <2>3, Registers DEF Sound
  <2>5. /\ WellFormed(L2) /\ InOrder(L2, order) /\ L2 \in Seq(RangeRec) /\ Len(L2) = Len(L)
        /\ \A j \in 1 .. Len(L) :
             /\ L2[j].def = L[j].def /\ L2[j].last = L[j].last /\ L2[j].reg = L[j].reg
             /\ L2[j].uses = L[j].uses /\ L2[j].lac = L[j].lac /\ L2[j].pre = L[j].pre
             /\ L2[j].cpu = IF j = n THEN Spill ELSE L[j].cpu
    <3>1. ~L[n].pre
      BY <2>2
    <3>2. Spill \in (SUBSET Unit) \cup {Spill, NoCpuReg}
      OBVIOUS
    <3>3. L2 = WithCpu(L, n, Spill)
      OBVIOUS
    <3>4. WellFormed(L) /\ InOrder(L, order) /\ n \in 1 .. Len(L)
      BY <1>1, <2>4
    <3> HIDE DEF n, L, L2
    <3> QED
      BY <3>1, <3>2, <3>3, <3>4, SetCpu
  <2>6. s \in ScanState /\ s.lrs = L2 /\ s.free = st.free \cup L[n].cpu /\ s.scratch = st.scratch
    <3>1. s = [st EXCEPT !.free = st.free \cup L[n].cpu, !.lrs = L2]
      BY <1>1, <1>2, <1>4 DEF give_back, ScanState, m, WithCpu
    <3> HIDE DEF s, L2, n
    <3> QED
      BY <1>1, <2>4, <2>5, <3>1 DEF ScanState
  <2> HIDE DEF s
  <2>7. Frame(L, L2, k)
    <3>1. \E p \in 1 .. k - 1 : order[p] = n
      BY <2>2
    <3>2. ~L[n].pre /\ ~is_use_lr(L[n])
      BY <2>2
    <3> HIDE DEF L2, n, L
    <3> QED
      BY <2>5, <3>1, <3>2 DEF Frame
  <2>8. \A j \in 1 .. k - 1 : order[j] \in 1 .. Len(L) /\ j \in 1 .. Len(L)
    <3>1. \A j \in 1 .. k - 1 : j \in 1 .. Len(L)
      BY <1>1
    <3>2. \A j \in 1 .. Len(L) : order[j] \in 1 .. Len(L)
      BY <1>1, Ordering
    <3> QED
      BY <3>1, <3>2
  <2>9. \A j \in 1 .. k - 1 : Keeps(L2, order[j]) =>
           j # m /\ Keeps(L, order[j]) /\ L2[order[j]].cpu = L[order[j]].cpu
    <3> HIDE DEF L2, L
    <3> QED
      BY <2>5, <2>8 DEF Keeps, is_use_lr
  <2>10. \A j \in 1 .. k - 1 : Live(L2, order[j], x) => Live(L, order[j], x)
    <3> HIDE DEF L2, L
    <3> QED
      BY <2>5, <2>8, <2>9 DEF Live
  <2>11. Kinds(L2, order, k)
    <3>1. Kinds(L, order, k)
      BY <1>1 DEF Sound
    <3> HIDE DEF L2, L
    <3> QED
      BY <2>5, <2>8, <2>9, <3>1 DEF Kinds
  <2>12. Reserve(L2, order, k)
    <3>1. Reserve(L, order, k)
      BY <1>1 DEF Sound
    <3>2. \A j \in 1 .. Len(L) : L2[j].pre => L2[j].cpu = L[j].cpu
      <4> HIDE DEF L2
      <4> QED
        BY <2>2, <2>5
    <3>3. ASSUME NEW p \in 1 .. k - 1, NEW j \in 1 .. Len(L),
                 Keeps(L2, order[p]), L2[order[p]].last # NO_USE,
                 L2[j].pre, L2[j].cpu \cap L2[order[p]].cpu # {}
          PROVE  L2[j].last <= L2[order[p]].def \/ L2[order[p]].last <= L2[j].def
      <4> HIDE DEF L2, L
      <4>1. /\ Keeps(L, order[p]) /\ L[order[p]].last # NO_USE
            /\ L[j].pre /\ L[j].cpu \cap L[order[p]].cpu # {}
        BY <2>5, <2>8, <2>9, <3>2, <3>3
      <4>2. L[j].last <= L[order[p]].def \/ L[order[p]].last <= L[j].def
        BY <3>1, <4>1 DEF Reserve
      <4> QED
        BY <2>5, <2>8, <4>2
    <3>4. Len(L2) = Len(L)
      BY <2>5
    <3> HIDE DEF L2, L, n
    <3> QED
      BY <3>3, <3>4 DEF Reserve
  <2>13. Later(L2, order, k, x)
    <3>1. Later(L, order, k, x)
      BY <1>1 DEF Sound
    <3> HIDE DEF L2, L
    <3> QED
      BY <2>9, <2>10, <3>1 DEF Later, Live
  <2>14. NotFree(L2, order, taken \cup L[n].cpu, k, x)
    <3>1. NotFree(L, order, taken, k, x) /\ Later(L, order, k, x) /\ Kinds(L, order, k)
      BY <1>1 DEF Sound
    <3>2. ASSUME NEW p \in 1 .. k - 1, Live(L2, order[p], x)
          PROVE  L2[order[p]].cpu \cap L[n].cpu = {}
      <4>1. p # m /\ Live(L, order[p], x) /\ Keeps(L, order[p])
            /\ L2[order[p]].cpu = L[order[p]].cpu
        <5> HIDE DEF L2, L
        <5> QED
          BY <2>9, <2>10, <3>2 DEF Live
      <4> SUFFICES ASSUME L[order[p]].cpu \cap L[n].cpu # {}
                   PROVE  FALSE
        <5> HIDE DEF L2, L, n
        <5> QED
          BY <4>1
      <4>2. m <= p
        <5> HIDE DEF L
        <5> QED
          BY <2>2, <2>3, <3>1, <4>1 DEF Later
      <4>3. /\ L[order[p]].reg.kind \in DOMAIN CpuRegs
            /\ L[order[p]].cpu \in ToSet(CpuRegs[L[order[p]].reg.kind])
            /\ order[p] \in 1 .. Len(L)
        <5> HIDE DEF L
        <5> QED
          BY <1>1, <3>1, <4>1, Registers
      <4>4. family(L[order[p]].reg.kind) = family(L[n].reg.kind)
        <5> HIDE DEF L, n
        <5> QED
          BY <2>4, <4>3, SameFamily
      <4>5. L[order[p]].last \in Int /\ L[order[p]].last >= x
        <5>1. L[order[p]] \in RangeRec
          BY <1>1, <4>3
        <5> HIDE DEF L
        <5> QED
          BY <4>1, <5>1 DEF Live, RangeRec
      <4>6. spillable(order[p])
        <5>1. family(L[n].reg.kind) = family(reg.kind)
          BY <2>2
        <5>2. L[order[p]].last > pos
          <6> HIDE DEF L
          <6> QED
            BY <4>5
        <5> HIDE DEF L, n
        <5> QED
          BY <4>1, <4>4, <5>1, <5>2 DEF Keeps
      <4>7. p \in I
        BY <4>6
      <4> HIDE DEF I
      <4> QED
        BY <2>1, <2>2, <4>1, <4>2, <4>7
    <3> HIDE DEF L2, L, n
    <3>3. ASSUME NEW p \in 1 .. k - 1, Live(L2, order[p], x)
          PROVE  L2[order[p]].cpu \cap (taken \cup L[n].cpu) = {}
      <4>1. L2[order[p]].cpu \cap taken = {}
        <5> HIDE DEF taken
        <5> QED
          BY <2>9, <2>10, <3>1, <3>3 DEF NotFree, Live
      <4> HIDE DEF taken
      <4> QED
        BY <3>2, <3>3, <4>1
    <3> HIDE DEF taken
    <3> QED
      BY <3>3 DEF NotFree
  <2>15. s.free \cup UNION ToSet(s.scratch) = taken \cup L[n].cpu
    BY <2>6
  <2> HIDE DEF taken, L2, L, n
  <2>16. Good(s, k, x)
    BY <2>5, <2>6, <2>11, <2>12, <2>13, <2>14, <2>15 DEF Good, Sound
  <2> QED
    BY <2>6, <2>7, <2>16 DEF L, s
<1> QED
  BY <1>3, <1>4

(* Taking a scratch register keeps the scan sound: it is counted as free.  *)
LEMMA TakingScratch ==
  ASSUME NEW st, NEW k \in 1 .. Len(st.lrs) + 1, NEW x \in Int, Good(st, k, x),
         NEW n \in 1 .. Len(st.lrs), ~is_use_lr(st.lrs[n]), NEW pos \in Int, NEW from \in Int,
         from < x
  PROVE  LET s == TakeScratch(st, n, pos, from, k)
         IN Good(s, k, x) /\ Frame(st.lrs, s.lrs, k)
<1> DEFINE s == TakeScratch(st, n, pos, from, k)
           free == Wants(st, n, FALSE, pos, NO_USE)
           st2 == IF free # Spill THEN st ELSE SpillEarlier(st, st.lrs[n].reg, from, k)
           c == Wants(st2, n, FALSE, pos, NO_USE)
<1>1. s = IF ~st2.ok \/ c = Spill THEN [st2 EXCEPT !.ok = FALSE]
          ELSE [st2 EXCEPT !.free = st2.free \ c, !.scratch = Append(st2.scratch, c)]
  <2> HIDE DEF st2, c
  <2>1. s = IF ~st2.ok \/ c = Spill THEN [st2 EXCEPT !.ok = FALSE]
            ELSE [st2 EXCEPT !.free = @ \ c, !.scratch = Append(@, c)]
    BY DEF TakeScratch, st2, c
  <2> QED
    BY <2>1
<1>2. Good(st2, k, x) /\ Frame(st.lrs, st2.lrs, k)
  <2>1. CASE free # Spill
    BY <2>1, FrameNone DEF Good, WellFormed
  <2>2. CASE ~(free # Spill)
    BY <2>2, SpillingEarlier
  <2> QED
    BY <2>1, <2>2
<1> HIDE DEF st2
<1>3. /\ st2 \in ScanState /\ st2.lrs \in Seq(RangeRec) /\ st2.free \in SUBSET Unit
      /\ st2.scratch \in Seq(SUBSET Unit) /\ Len(st2.lrs) = Len(st.lrs)
      /\ st2.lrs[n] \in RangeRec /\ st2.lrs[n].reg = st.lrs[n].reg
  BY <1>2 DEF Good, ScanState, Frame
<1>4. st2.lrs[n].reg.kind \in DOMAIN CpuRegs
  <2>1. st2.lrs[n].reg # NoReg
    BY <1>3 DEF is_use_lr
  <2>2. st2.lrs[n].reg \in Register
    BY <1>3, <2>1 DEF RangeRec
  <2> QED
    BY <2>2 DEF Register
<1>5. c # Spill => c \in SUBSET Unit /\ c \subseteq st2.free
  <2> DEFINE no == FALSE
  <2>1. c = get_available_reg(st2.lrs, st2.free, st2.lrs[n].reg.kind, no, pos, NO_USE)
    BY DEF Wants
  <2> HIDE DEF c, no
  <2> QED
    BY <1>4, <2>1, Choosing
<1> HIDE DEF c
<1>6. CASE ~st2.ok \/ c = Spill
  <2>1. s \in ScanState /\ s.lrs = st2.lrs /\ s.free = st2.free /\ s.scratch = st2.scratch
    BY <1>1, <1>3, <1>6 DEF ScanState
  <2> HIDE DEF s
  <2> QED
    BY <1>2, <2>1 DEF Good, s
<1>7. CASE st2.ok /\ c # Spill
  <2>1. s = [st2 EXCEPT !.free = st2.free \ c, !.scratch = Append(st2.scratch, c)]
    BY <1>1, <1>7
  <2>2. /\ Append(st2.scratch, c) \in Seq(SUBSET Unit)
        /\ ToSet(Append(st2.scratch, c)) = ToSet(st2.scratch) \cup {c}
    BY <1>3, <1>5, <1>7, Pushing
  <2> HIDE DEF s
  <2>3. /\ s \in ScanState /\ s.lrs = st2.lrs /\ s.free = st2.free \ c
        /\ s.scratch = Append(st2.scratch, c)
    BY <1>3, <2>1, <2>2 DEF ScanState
  <2>4. s.free \cup UNION ToSet(s.scratch) = st2.free \cup UNION ToSet(st2.scratch)
    BY <1>5, <1>7, <2>2, <2>3
  <2> QED
    BY <1>2, <2>3, <2>4 DEF Good, s
<1> QED
  BY <1>6, <1>7

(* ReleaseScratch: scratch registers go back, so that free and scratch *)
(* units together stay what they were.                                 *)
LEMMA Releasing ==
  ASSUME NEW st, NEW k, NEW x, Good(st, k, x)
  PROVE  LET s == ReleaseScratch(st)
         IN Good(s, k, x) /\ s.lrs = st.lrs /\ s.scratch = <<>> /\ s.ok = st.ok
<1> DEFINE s == ReleaseScratch(st)
<1>1. st \in ScanState
  BY DEF Good
<1>2. UNION ToSet(st.scratch) \in SUBSET Unit
  <2>1. st.scratch \in Seq(SUBSET Unit)
    BY <1>1 DEF ScanState
  <2> QED
    BY <2>1 DEF ToSet
<1>3. /\ s \in ScanState /\ s.lrs = st.lrs /\ s.scratch = <<>> /\ s.ok = st.ok
      /\ s.free = st.free \cup UNION ToSet(st.scratch)
  <2>1. s = [st EXCEPT !.free = st.free \cup UNION ToSet(st.scratch), !.scratch = <<>>]
    BY <1>1 DEF ReleaseScratch, ScanState
  <2>2. /\ st.free \cup UNION ToSet(st.scratch) \in SUBSET Unit
        /\ <<>> \in Seq(SUBSET Unit)
    BY <1>1, <1>2 DEF ScanState
  <2> HIDE DEF s
  <2> QED
    BY <1>1, <2>1, <2>2 DEF ScanState
<1>4. ToSet(<<>>) = {}
  BY DEF ToSet
<1>5. s.free \cup UNION ToSet(s.scratch) = st.free \cup UNION ToSet(st.scratch)
  BY <1>3, <1>4
<1> HIDE DEF s
<1> QED
  BY <1>3, <1>5 DEF Good, s

-----------------------------------------------------------------------------
(* The loop over the uses of an instruction, round by round. *)
LoadingStays(uses, pos, k, A) ==
  \A j \in 1 .. Len(uses), v \in A : LoadUse(v, uses[j], pos, k) \in A

(* A set of states that each round of LoadUses keeps to holds its result. *)
LEMMA LoadLoop ==
  ASSUME NEW st, NEW uses \in Seq(Nat), NEW pos, NEW k, NEW A, st \in A,
         LoadingStays(uses, pos, k, A)
  PROVE  LoadUses(st, uses, pos, k) \in A
<1> DEFINE n == Len(uses)
           Rnd(v, u) == LoadUse(v, u, pos, k)
           F(h) == [j \in 0 .. n |->
                      IF j = 0 THEN st
                      ELSE CHOOSE end \in {Rnd(mid, uses[j]) : mid \in {h[j - 1]}} : TRUE]
           fold == CHOOSE h : h = F(h)
           step == [z \in (1 .. n) \X A |-> Rnd(z[2], uses[z[1]])]
<1>0. n \in Nat
  OBVIOUS
<1>1. step \in StepsOn(n, A)
  <2> HIDE DEF n
  <2> QED
    BY DEF StepsOn, n, LoadingStays
<1>2. PICK g : g \in Iterates(n, A, st, step)
  <2> HIDE DEF step, n
  <2> QED
    BY <1>0, <1>1, Iteration
<1> HIDE DEF Rnd, n
<1>3. g \in [0 .. n -> A] /\ g[0] = st /\ \A j \in 1 .. n : g[j] = Rnd(g[j - 1], uses[j])
  <2>1. ASSUME NEW j \in 1 .. n, NEW v \in A
        PROVE  step[<<j, v>>] = Rnd(v, uses[j])
    OBVIOUS
  <2> HIDE DEF step
  <2>2. g \in [0 .. n -> A] /\ g[0] = st /\ \A j \in 1 .. n : g[j] = step[<<j, g[j - 1]>>]
    BY <1>2 DEF Iterates
  <2>3. \A j \in 1 .. n : g[j - 1] \in A
    <3>1. \A j \in 1 .. n : j - 1 \in 0 .. n
      BY <1>0
    <3> QED
      BY <2>2, <3>1
  <2> QED
    BY <2>1, <2>2, <2>3
<1>4. ASSUME NEW j \in 1 .. n, NEW v
      PROVE  (CHOOSE end \in {Rnd(mid, uses[j]) : mid \in {v}} : TRUE) = Rnd(v, uses[j])
  OBVIOUS
<1>5. g = F(g)
  BY <1>3, <1>4
<1>6. fold = F(fold)
  <2> HIDE DEF F
  <2> QED
    BY <1>5, Zenon
<1>7. LoadUses(st, uses, pos, k) = fold[n]
  BY Zenon DEF LoadUses, FoldForward, Rnd, n
<1> HIDE DEF fold
<1>8. fold[0] = st /\ \A j \in 1 .. n : fold[j] = Rnd(fold[j - 1], uses[j])
  BY <1>0, <1>4, <1>6
<1>9. \A j \in 0 .. n : fold[j] \in A
  <2> DEFINE I == [j \in 0 .. n |-> A]
  <2>1. fold[0] \in I[0]
    BY <1>0, <1>8
  <2>2. ASSUME NEW j \in 1 .. n, fold[j - 1] \in I[j - 1]
        PROVE  fold[j] \in I[j]
    <3>1. j - 1 \in 0 .. n /\ fold[j] = Rnd(fold[j - 1], uses[j])
      BY <1>0, <1>8
    <3>2. fold[j - 1] \in A
      BY <2>2, <3>1
    <3> QED
      BY <1>0, <3>1, <3>2 DEF Rnd, n, LoadingStays
  <2>3. \A j \in 0 .. n : fold[j] \in I[j]
    <3> HIDE DEF I
    <3> QED
      BY <1>0, <2>1, <2>2, Stays
  <2> QED
    BY <2>3
<1> QED
  BY <1>0, <1>7, <1>9

(* The uses of a use entry are ranges that started before it. *)
LEMMA Loading ==
  ASSUME NEW st, NEW k \in 1 .. Len(st.lrs) + 1, NEW x \in Int, Good(st, k, x),
         NEW uses \in Seq(Nat), NEW pos \in Int,
         \A j \in 1 .. Len(uses) : /\ uses[j] \in 1 .. Len(st.lrs)
                                   /\ ~is_use_lr(st.lrs[uses[j]])
                                   /\ st.lrs[uses[j]].def < x
  PROVE  LET s == LoadUses(st, uses, pos, k)
         IN Good(s, k, x) /\ Frame(st.lrs, s.lrs, k)
<1> DEFINE A == {v \in ScanState : Good(v, k, x) /\ Frame(st.lrs, v.lrs, k)}
<1>1. st \in A
  BY FrameNone DEF Good, WellFormed
<1>2. ASSUME NEW j \in 1 .. Len(uses), NEW v \in A
      PROVE  LoadUse(v, uses[j], pos, k) \in A
  <2> DEFINE n == uses[j]
             s == TakeScratch(v, n, pos, v.lrs[n].def, k)
  <2>1. /\ v \in ScanState /\ Good(v, k, x) /\ Frame(st.lrs, v.lrs, k)
        /\ v.lrs \in Seq(RangeRec) /\ Len(v.lrs) = Len(st.lrs)
    BY DEF Frame
  <2>2. /\ n \in 1 .. Len(v.lrs) /\ ~is_use_lr(v.lrs[n]) /\ v.lrs[n].def < x
        /\ v.lrs[n] \in RangeRec
    <3>1. n \in 1 .. Len(st.lrs) /\ ~is_use_lr(st.lrs[n]) /\ st.lrs[n].def < x
      OBVIOUS
    <3> HIDE DEF n
    <3>2. v.lrs[n].def = st.lrs[n].def /\ v.lrs[n].reg = st.lrs[n].reg
      BY <2>1, <3>1 DEF Frame
    <3> QED
      BY <2>1, <3>1, <3>2 DEF is_use_lr
  <2>3. v.lrs[n].def \in Int /\ k \in 1 .. Len(v.lrs) + 1
    BY <2>1, <2>2 DEF RangeRec
  <2> HIDE DEF n
  <2>4. Good(s, k, x) /\ Frame(v.lrs, s.lrs, k)
    BY <2>1, <2>2, <2>3, TakingScratch
  <2>5. s \in A
    <3>1. Frame(st.lrs, s.lrs, k)
      <4> HIDE DEF s
      <4> QED
        BY <2>1, <2>4, FrameTwice
    <3> HIDE DEF s
    <3> QED
      BY <2>4, <3>1 DEF Good
  <2>6. LoadUse(v, n, pos, k) = v \/ LoadUse(v, n, pos, k) = s
    BY DEF LoadUse
  <2> HIDE DEF s, A
  <2> QED
    BY <2>5, <2>6 DEF n
<1> HIDE DEF A
<1>3. LoadingStays(uses, pos, k, A)
  BY <1>2 DEF LoadingStays
<1>4. LoadUses(st, uses, pos, k) \in A
  BY <1>1, <1>3, LoadLoop
<1> QED
  BY <1>4 DEF A

(* Sound only looks at ranges that are live at x; later, fewer are.        *)
LEMMA SoundLater ==
  ASSUME NEW L, WellFormed(L), InOrder(L, order), NEW free, NEW k \in 1 .. Len(L) + 1,
         NEW x \in Int, NEW y \in Int, x <= y, Sound(L, order, free, k, x)
  PROVE  Sound(L, order, free, k, y)
<1>1. \A p \in 1 .. k - 1 : Live(L, order[p], y) => Live(L, order[p], x)
  <2>1. ASSUME NEW p \in 1 .. k - 1, Live(L, order[p], y)
        PROVE  Live(L, order[p], x)
    <3>1. p \in 1 .. Len(L)
      BY Ordering
    <3>2. order[p] \in 1 .. Len(L)
      BY <3>1, Ordering
    <3>3. L[order[p]].last \in Int
      BY <3>2, Ordering DEF RangeRec
    <3> QED
      BY <2>1, <3>3 DEF Live
  <2> QED
    BY <2>1
<1>2. Later(L, order, k, y)
  BY <1>1 DEF Sound, Later
<1>3. NotFree(L, order, free, k, y)
  BY <1>1 DEF Sound, NotFree
<1> QED
  BY <1>2, <1>3 DEF Sound

(* A range that is not given a register of the pool adds nothing.          *)
LEMMA SoundNext ==
  ASSUME NEW L, WellFormed(L), InOrder(L, order), NEW free, NEW k \in 1 .. Len(L),
         NEW x \in Int, Sound(L, order, free, k, x), ~Keeps(L, order[k])
  PROVE  Sound(L, order, free, k + 1, x)
<1>1. \A p \in 1 .. (k + 1) - 1 : p = k \/ p \in 1 .. k - 1
  OBVIOUS
<1>2. Kinds(L, order, k + 1)
  BY <1>1 DEF Sound, Kinds
<1>3. Reserve(L, order, k + 1)
  BY <1>1 DEF Sound, Reserve
<1>4. Later(L, order, k + 1, x)
  BY <1>1 DEF Sound, Later, Live
<1>5. NotFree(L, order, free, k + 1, x)
  BY <1>1 DEF Sound, NotFree, Live
<1> QED
  BY <1>2, <1>3, <1>4, <1>5 DEF Sound

(* The registers of the ranges that end at a use entry: no range that is   *)
(* live beyond it holds a unit of them.  A reserved range would be in      *)
(* conflict with it, and of two ranges of the pool each would come later.  *)
LEMMA Ending ==
  ASSUME NEW L, WellFormed(L), InOrder(L, order), NEW free \in SUBSET Unit,
         NEW k \in 1 .. Len(L), is_use_lr(L[order[k]]), NEW x, x = L[order[k]].def,
         Sound(L, order, free, k, x),
         NEW n \in ToSet(L[order[k]].uses), Ends(L[n], x),
         NEW p \in 1 .. k - 1, Live(L, order[p], x + 1)
  PROVE  L[n].cpu \in SUBSET Unit /\ L[n].cpu \cap L[order[p]].cpu = {}
<1> DEFINE e == order[k]
           m == order[p]
<1>1. /\ e \in 1 .. Len(L) /\ p \in 1 .. Len(L) /\ L[e] \in RangeRec /\ p < k
      /\ Len(L) \in Nat /\ Sound(L, order, free, k, x)
  <2>1. Len(L) \in Nat
    BY Ordering
  <2>2. p \in 1 .. Len(L) /\ p < k
    BY <2>1
  <2>3. e \in 1 .. Len(L) /\ L[e] \in RangeRec
    BY Ordering
  <2> HIDE DEF e
  <2> QED
    BY <2>1, <2>2, <2>3
<1>2. m \in 1 .. Len(L) /\ L[m] \in RangeRec /\ Before(L, m, e)
  BY <1>1, Ordering
<1> HIDE DEF e, m
<1>3. n \in 1 .. Len(L) /\ ~is_use_lr(L[n]) /\ L[n].def < x
  <2>1. PICK j \in 1 .. Len(L[e].uses) : n = L[e].uses[j]
    <3>1. L[e].uses \in Seq(Nat) /\ n \in ToSet(L[e].uses)
      BY <1>1 DEF RangeRec, e
    <3> QED
      BY <3>1 DEF ToSet
  <2> QED
    BY <1>1, <2>1 DEF WellFormed, e
<1>4. L[n] \in RangeRec
  BY <1>3, Ordering
<1>5. /\ L[n].def \in Int /\ L[n].last \in Int /\ L[m].def \in Int /\ L[m].last \in Int
      /\ x \in Int /\ L[e].last = x /\ L[e].def = x /\ x <= AFTER_BBL /\ k \in Nat
      /\ L[n].last = x /\ L[n].cpu # Spill
  <2>1. L[e].last = L[e].def /\ L[e].def <= AFTER_BBL
    BY <1>1 DEF WellFormed, e
  <2> QED
    BY <1>1, <1>2, <1>4, <2>1 DEF RangeRec, e, Ends
<1>6. Keeps(L, m) /\ L[m].last # NO_USE /\ L[m].last >= x + 1
  BY DEF Live, m
<1>7. L[m].def < x
  <2>1. L[m].def < L[m].last
    BY <1>2, <1>6 DEF WellFormed, Keeps
  <2> QED
    BY <1>2, <1>5, <1>6, <2>1 DEF Before, e
<1>8. CASE L[n].pre
  <2>1. L[n].cpu \in SUBSET Unit
    BY <1>3, <1>8 DEF WellFormed
  <2>2. L[n].cpu \cap L[m].cpu # {} => L[n].last <= L[m].def \/ L[m].last <= L[n].def
    BY <1>1, <1>3, <1>6, <1>8 DEF Sound, Reserve, m
  <2>3. ~(L[n].last <= L[m].def \/ L[m].last <= L[n].def)
    BY <1>3, <1>5, <1>6, <1>7, SMTT(20)
  <2> QED
    BY <2>1, <2>2, <2>3 DEF m
<1>9. CASE ~L[n].pre
  <2>1. Keeps(L, n)
    BY <1>3, <1>5, <1>9 DEF Keeps
  <2>2. PICK q \in 1 .. Len(L) : order[q] = n
    BY <1>3, Ordering
  <2>3. q < k
    <3>1. k <= q => L[e].def <= L[n].def
      BY <2>2, Ordering DEF e
    <3> QED
      BY <1>3, <1>5, <2>2, <3>1 DEF e
  <2>4. q \in 1 .. k - 1 /\ k \in 1 .. Len(L) + 1
    BY <2>3
  <2>5. L[n].cpu \in SUBSET Unit
    BY <1>1, <2>1, <2>2, <2>4, Registers DEF Sound
  <2>6. Live(L, order[q], x) /\ Keeps(L, order[q])
    <3>1. x # NO_USE
      BY <1>5 DEF NO_USE, AFTER_BBL
    <3> QED
      BY <1>5, <2>1, <2>2, <3>1 DEF Live
  <2>7. Live(L, order[p], x) /\ Keeps(L, order[p])
    BY <1>5, <1>6 DEF Live, m
  <2>8. L[order[q]].cpu \cap L[order[p]].cpu # {} => q <= p /\ p <= q
    BY <1>1, <2>4, <2>6, <2>7 DEF Sound, Later
  <2>9. q # p
    BY <1>5, <1>6, <2>2 DEF m
  <2> QED
    BY <2>2, <2>4, <2>5, <2>8, <2>9
<1> QED
  BY <1>8, <1>9

(* The registers given back at a use entry are registers.                  *)
LEMMA EndingUnits ==
  ASSUME NEW L, WellFormed(L), InOrder(L, order), NEW free \in SUBSET Unit,
         NEW k \in 1 .. Len(L), is_use_lr(L[order[k]]), NEW x, x = L[order[k]].def,
         Sound(L, order, free, k, x),
         NEW n \in ToSet(L[order[k]].uses), Ends(L[n], x)
  PROVE  L[n].cpu \in SUBSET Unit
<1> DEFINE e == order[k]
<1>1. e \in 1 .. Len(L) /\ L[e] \in RangeRec /\ Len(L) \in Nat
  <2>1. e \in 1 .. Len(L) /\ Len(L) \in Nat
    BY Ordering
  <2> HIDE DEF e
  <2> QED
    BY <2>1, Ordering
<1> HIDE DEF e
<1>3. n \in 1 .. Len(L) /\ ~is_use_lr(L[n]) /\ L[n].def < x
  <2>1. PICK j \in 1 .. Len(L[e].uses) : n = L[e].uses[j]
    <3>1. L[e].uses \in Seq(Nat) /\ n \in ToSet(L[e].uses)
      BY <1>1 DEF RangeRec, e
    <3> QED
      BY <3>1 DEF ToSet
  <2> QED
    BY <1>1, <2>1 DEF WellFormed, e
<1>4. L[n].def \in Int /\ x \in Int /\ L[e].def = x /\ L[n].cpu # Spill
  BY <1>1, <1>3, Ordering DEF RangeRec, e, Ends
<1>8. CASE L[n].pre
  BY <1>3, <1>8 DEF WellFormed
<1>9. CASE ~L[n].pre
  <2>1. Keeps(L, n)
    BY <1>3, <1>4, <1>9 DEF Keeps
  <2>2. PICK q \in 1 .. Len(L) : order[q] = n
    BY <1>3, Ordering
  <2>3. q < k
    <3>1. k <= q => L[e].def <= L[n].def
      BY <2>2, Ordering DEF e
    <3> QED
      BY <1>3, <1>4, <2>2, <3>1
  <2>4. q \in 1 .. k - 1 /\ k \in 1 .. Len(L) + 1
    BY <2>3
  <2> QED
    BY <1>1, <2>1, <2>2, <2>4, Registers DEF Sound
<1> QED
  BY <1>8, <1>9

(* A use entry: load what was spilled, end what ends here.                 *)
LEMMA HandlingUse ==
  ASSUME NEW st, NEW k \in 1 .. Len(st.lrs), NEW x, x = st.lrs[order[k]].def,
         Good(st, k, x), is_use_lr(st.lrs[order[k]]), HandleUse(st, k).ok
  PROVE  LET s == HandleUse(st, k)
         IN Good(s, k + 1, x + 1) /\ s.scratch = <<>> /\ Frame(st.lrs, s.lrs, k)
<1> DEFINE uses == st.lrs[order[k]].uses
           loaded == LoadUses(st, uses, x, k)
           back == UNION {loaded.lrs[n].cpu : n \in {m \in ToSet(uses) : Ends(loaded.lrs[m], x)}}
           ended == EndRanges(loaded, uses, x)
           s == HandleUse(st, k)
<1>1. /\ st \in ScanState /\ WellFormed(st.lrs) /\ InOrder(st.lrs, order)
      /\ order[k] \in 1 .. Len(st.lrs) /\ st.lrs[order[k]] \in RangeRec /\ Len(st.lrs) \in Nat
      /\ k \in Nat
  <2> DEFINE L == st.lrs
             p == k
  <2>1. WellFormed(L) /\ InOrder(L, order) /\ st \in ScanState /\ p \in 1 .. Len(L)
    BY DEF Good
  <2> HIDE DEF L, p
  <2>2. order[p] \in 1 .. Len(L) /\ Len(L) \in Nat
    BY <2>1, Ordering
  <2>3. L[order[p]] \in RangeRec
    BY <2>1, <2>2, Ordering
  <2>4. p \in Nat
    BY <2>1, <2>2
  <2> QED
    BY <2>1, <2>2, <2>3, <2>4 DEF L, p
<1>2. x \in Int /\ uses \in Seq(Nat)
  BY <1>1 DEF RangeRec
<1>3. \A j \in 1 .. Len(uses) : /\ uses[j] \in 1 .. Len(st.lrs)
                                /\ ~is_use_lr(st.lrs[uses[j]])
                                /\ st.lrs[uses[j]].def < x
  BY <1>1 DEF WellFormed
<1>5. s = ReleaseScratch(ended)
  <2>1. s = IF ~loaded.ok THEN loaded ELSE ReleaseScratch(ended)
    BY DEF HandleUse
  <2>2. s.ok
    OBVIOUS
  <2> HIDE DEF s, loaded, ended
  <2> QED
    BY <2>1, <2>2
<1> HIDE DEF uses, s
<1>4. Good(loaded, k, x) /\ Frame(st.lrs, loaded.lrs, k)
  <2>1. k \in 1 .. Len(st.lrs) + 1
    BY <1>1
  <2> QED
    BY <1>2, <1>3, <2>1, Loading
<1> HIDE DEF loaded
<1>6. /\ loaded \in ScanState /\ WellFormed(loaded.lrs) /\ InOrder(loaded.lrs, order)
      /\ loaded.lrs \in Seq(RangeRec)
      /\ loaded.free \in SUBSET Unit /\ UNION ToSet(loaded.scratch) \in SUBSET Unit
      /\ Sound(loaded.lrs, order, loaded.free \cup UNION ToSet(loaded.scratch), k, x)
      /\ Len(loaded.lrs) = Len(st.lrs)
  <2>1. /\ loaded \in ScanState /\ loaded.free \in SUBSET Unit
        /\ loaded.scratch \in Seq(SUBSET Unit) /\ loaded.lrs \in Seq(RangeRec)
    BY <1>4 DEF Good, ScanState
  <2>2. UNION ToSet(loaded.scratch) \in SUBSET Unit
    BY <2>1 DEF ToSet
  <2> QED
    BY <1>4, <2>1, <2>2 DEF Good, Frame
<1>7. /\ loaded.lrs[order[k]].uses = uses /\ loaded.lrs[order[k]].def = x
      /\ is_use_lr(loaded.lrs[order[k]])
  BY <1>1, <1>4 DEF Frame, is_use_lr, uses
<1> DEFINE taken == loaded.free \cup UNION ToSet(loaded.scratch)
<1>8. taken \in SUBSET Unit /\ Sound(loaded.lrs, order, taken, k, x)
  BY <1>6
<1>9. k \in 1 .. Len(loaded.lrs) /\ k \in 1 .. Len(loaded.lrs) + 1
  BY <1>1, <1>6
<1>10. ASSUME NEW n \in ToSet(uses), Ends(loaded.lrs[n], x)
       PROVE  /\ loaded.lrs[n].cpu \in SUBSET Unit
              /\ \A p \in 1 .. k - 1 : Live(loaded.lrs, order[p], x + 1)
                                       => loaded.lrs[n].cpu \cap loaded.lrs[order[p]].cpu = {}
  <2> HIDE DEF taken
  <2>1. ASSUME NEW p \in 1 .. k - 1, Live(loaded.lrs, order[p], x + 1)
        PROVE  loaded.lrs[n].cpu \cap loaded.lrs[order[p]].cpu = {}
    BY <1>6, <1>7, <1>8, <1>9, <1>10, <2>1, Ending
  <2>2. loaded.lrs[n].cpu \in SUBSET Unit
    BY <1>6, <1>7, <1>8, <1>9, <1>10, EndingUnits
  <2> QED
    BY <2>1, <2>2
<1>11. back \in SUBSET Unit
  BY <1>10
<1>12. /\ ended \in ScanState /\ ended.lrs = loaded.lrs /\ ended.scratch = loaded.scratch
       /\ ended.ok = loaded.ok /\ ended.free = loaded.free \cup back
  <2>1. ended = [loaded EXCEPT !.free = loaded.free \cup back]
    BY <1>6 DEF EndRanges, give_back, ScanState
  <2> HIDE DEF ended, back
  <2> QED
    BY <1>6, <1>11, <2>1 DEF ScanState
<1>13. Sound(loaded.lrs, order, taken, k, x + 1)
  <2> HIDE DEF taken
  <2> QED
    BY <1>2, <1>6, <1>8, <1>9, SoundLater
<1> HIDE DEF ended
<1>14. Sound(loaded.lrs, order, ended.free \cup UNION ToSet(ended.scratch), k, x + 1)
  <2>1. ended.free \cup UNION ToSet(ended.scratch) = taken \cup back
    <3> HIDE DEF back
    <3> QED
      BY <1>12
  <2>2. NotFree(loaded.lrs, order, taken \cup back, k, x + 1)
    <3>1. \A p \in 1 .. k - 1 : Live(loaded.lrs, order[p], x + 1)
            => loaded.lrs[order[p]].cpu \cap back = {}
      BY <1>10
    <3> HIDE DEF taken, back
    <3> QED
      BY <1>13, <3>1 DEF Sound, NotFree
  <2> HIDE DEF taken, back
  <2> QED
    BY <1>13, <2>1, <2>2 DEF Sound
<1>15. Good(ended, k + 1, x + 1)
  <2> DEFINE all == ended.free \cup UNION ToSet(ended.scratch)
  <2>1. ~Keeps(loaded.lrs, order[k])
    BY <1>7 DEF Keeps
  <2>2. Sound(loaded.lrs, order, all, k, x + 1)
    BY <1>14
  <2> HIDE DEF all
  <2>3. Sound(loaded.lrs, order, all, k + 1, x + 1)
    BY <1>2, <1>6, <1>9, <2>1, <2>2, SoundNext
  <2> QED
    BY <1>6, <1>12, <2>3 DEF Good, all
<1>16. Good(s, k + 1, x + 1) /\ s.lrs = ended.lrs /\ s.scratch = <<>>
  BY <1>5, <1>15, Releasing
<1> QED
  BY <1>4, <1>12, <1>16 DEF s

OnlyAt(L, L2, k, c) ==
  /\ Len(L2) = Len(L)
  /\ \A p \in 1 .. k - 1 : order[p] \in 1 .. Len(L) /\ L2[order[p]] = L[order[p]]
  /\ \A m \in 1 .. Len(L) :
       /\ L2[m].def = L[m].def /\ L2[m].last = L[m].last /\ L2[m].reg = L[m].reg
       /\ L2[m].pre = L[m].pre
       /\ L2[m].cpu = IF m = order[k] THEN c ELSE L[m].cpu

(* Earlier places are not disturbed by the register of the range at k.     *)
LEMMA SoundSame ==
  ASSUME NEW L, WellFormed(L), InOrder(L, order), NEW free, NEW k \in 1 .. Len(L), NEW x,
         ~L[order[k]].pre, NEW c \in (SUBSET Unit) \cup {Spill, NoCpuReg},
         NEW L2, L2 = WithCpu(L, order[k], c), Sound(L, order, free, k, x)
  PROVE  /\ WellFormed(L2) /\ InOrder(L2, order)
         /\ Kinds(L2, order, k) /\ Reserve(L2, order, k)
         /\ Later(L2, order, k, x) /\ NotFree(L2, order, free, k, x)
         /\ OnlyAt(L, L2, k, c)
<1> DEFINE n == order[k]
<1>1. /\ Len(L) \in Nat /\ n \in 1 .. Len(L) /\ k \in Nat /\ L \in Seq(RangeRec)
      /\ \A p \in 1 .. k - 1 : p \in 1 .. Len(L) /\ p # k
  <2>1. Len(L) \in Nat /\ L \in Seq(RangeRec)
    BY Ordering DEF WellFormed
  <2>2. n \in 1 .. Len(L)
    BY Ordering
  <2> HIDE DEF n
  <2> QED
    BY <2>1, <2>2
<1>2. \A p \in 1 .. k - 1 : order[p] \in 1 .. Len(L) /\ order[p] # n
  BY <1>1, Ordering
<1> HIDE DEF n
<1>3. /\ WellFormed(L2) /\ InOrder(L2, order) /\ Len(L2) = Len(L)
      /\ \A m \in 1 .. Len(L) :
              /\ L2[m].def = L[m].def /\ L2[m].last = L[m].last /\ L2[m].reg = L[m].reg
              /\ L2[m].pre = L[m].pre
              /\ L2[m].cpu = IF m = n THEN c ELSE L[m].cpu
  <2>1. ~L[n].pre /\ L2 = WithCpu(L, n, c)
    BY DEF n
  <2> QED
    BY <1>1, <2>1, SetCpu
<1>4. \A p \in 1 .. k - 1 : L2[order[p]] = L[order[p]]
  <2>1. L2 = [L EXCEPT ![n] = [L[n] EXCEPT !.cpu = c]] /\ DOMAIN L = 1 .. Len(L)
    BY <1>1 DEF WithCpu, n
  <2>2. \A m \in 1 .. Len(L) : m # n => L2[m] = L[m]
    BY <2>1
  <2> QED
    BY <1>2, <2>2
<1>5. \A p \in 1 .. k - 1 : /\ Keeps(L2, order[p]) <=> Keeps(L, order[p])
                            /\ Live(L2, order[p], x) <=> Live(L, order[p], x)
  BY <1>4 DEF Live, Keeps
<1>6. Kinds(L2, order, k)
  BY <1>4, <1>5 DEF Sound, Kinds
<1>7. Reserve(L2, order, k)
  <2>1. \A m \in 1 .. Len(L) : L2[m].pre => L[m].pre /\ L2[m].cpu = L[m].cpu
    BY <1>3 DEF n
  <2> QED
    BY <1>3, <1>4, <1>5, <2>1 DEF Sound, Reserve
<1>8. Later(L2, order, k, x)
  BY <1>4, <1>5 DEF Sound, Later
<1>9. NotFree(L2, order, free, k, x)
  BY <1>4, <1>5 DEF Sound, NotFree
<1>10. OnlyAt(L, L2, k, c)
  BY <1>2, <1>3, <1>4 DEF OnlyAt, n
<1> QED
  BY <1>3, <1>6, <1>7, <1>8, <1>9, <1>10

GetsCpu(L, L2, n, c) == L2 = WithCpu(L, n, c)
Leaves(L, free, free2, n, c) == free2 = IF L[n].last = NO_USE THEN free ELSE free \ c
Clear(L, c, def, last) == \A u \in c : ~has_conflict(L, u, def, last)

(* A range gets a machine register that is free and in no conflict.        *)
LEMMA SoundTaken ==
  ASSUME NEW L, WellFormed(L), InOrder(L, order), NEW free \in SUBSET Unit,
         NEW k \in 1 .. Len(L), NEW x,
         ~L[order[k]].pre, ~is_use_lr(L[order[k]]), Sound(L, order, free, k, x),
         NEW c \in SUBSET Unit, c \subseteq free, c \in ToSet(CpuRegs[L[order[k]].reg.kind]),
         Clear(L, c, L[order[k]].def, L[order[k]].last),
         NEW L2, GetsCpu(L, L2, order[k], c),
         NEW free2, Leaves(L, free, free2, order[k], c)
  PROVE  /\ WellFormed(L2) /\ InOrder(L2, order) /\ Len(L2) = Len(L)
         /\ Kinds(L2, order, k + 1) /\ Reserve(L2, order, k + 1)
         /\ Later(L2, order, k + 1, x) /\ NotFree(L2, order, free2, k + 1, x)
<1> DEFINE n == order[k]
<1>1. n \in 1 .. Len(L) /\ L[n] \in RangeRec /\ k \in Nat
  <2>1. n \in 1 .. Len(L) /\ Len(L) \in Nat
    BY Ordering
  <2> HIDE DEF n
  <2> QED
    BY <2>1, Ordering
<1>2. L[n].def \in Int /\ L[n].last \in Int /\ free2 = IF L[n].last = NO_USE THEN free ELSE free \ c
  BY <1>1 DEF RangeRec, Leaves
<1>3. /\ WellFormed(L2) /\ InOrder(L2, order) /\ Len(L2) = Len(L)
      /\ Sound(L2, order, free, k, x)
      /\ \A p \in 1 .. k - 1 : order[p] \in 1 .. Len(L) /\ L2[order[p]] = L[order[p]]
      /\ \A m \in 1 .. Len(L) :
              /\ L2[m].def = L[m].def /\ L2[m].last = L[m].last /\ L2[m].reg = L[m].reg
              /\ L2[m].pre = L[m].pre
              /\ L2[m].cpu = IF m = n THEN c ELSE L[m].cpu
  <2>1. /\ c \in (SUBSET Unit) \cup {Spill, NoCpuReg} /\ ~L[order[k]].pre
        /\ L2 = WithCpu(L, order[k], c) /\ Sound(L, order, free, k, x)
    BY DEF GetsCpu
  <2>2. /\ WellFormed(L2) /\ InOrder(L2, order)
        /\ Kinds(L2, order, k) /\ Reserve(L2, order, k)
        /\ Later(L2, order, k, x) /\ NotFree(L2, order, free, k, x)
        /\ OnlyAt(L, L2, k, c)
    <3> HIDE DEF n
    <3> QED
      BY <2>1, SoundSame
  <2> QED
    BY <2>2 DEF Sound, OnlyAt
<1>4. \A p \in 1 .. (k + 1) - 1 : p = k \/ p \in 1 .. k - 1
  BY <1>1
<1>5. /\ L2[n].cpu = c /\ L2[n].def = L[n].def /\ L2[n].last = L[n].last /\ L2[n].reg = L[n].reg
      /\ ~L2[n].pre
  BY <1>1, <1>3
<1>6. ASSUME NEW m \in 1 .. Len(L), L2[m].pre, L2[m].cpu \cap c # {}
      PROVE  L2[m].last <= L[n].def \/ L[n].last <= L2[m].def
  <2>1. L[m].pre /\ L2[m].cpu = L[m].cpu /\ L2[m].last = L[m].last /\ L2[m].def = L[m].def
    BY <1>3, <1>5, <1>6
  <2>2. PICK u \in c : u \in L[m].cpu
    BY <1>6, <2>1
  <2>3. ~has_conflict(L, u, L[n].def, L[n].last)
    BY DEF Clear
  <2> HIDE DEF n
  <2> QED
    BY <1>2, <2>1, <2>2, <2>3, Conflict
<1>7. \A p \in 1 .. k - 1 : Live(L, order[p], x) => L2[order[p]].cpu \cap c = {}
  BY <1>3 DEF Sound, NotFree, Live, Keeps
<1>8. \A p \in 1 .. k - 1 : Live(L2, order[p], x) <=> Live(L, order[p], x)
  BY <1>3 DEF Live, Keeps
<1>9. Kinds(L2, order, k + 1)
  BY <1>3, <1>4, <1>5 DEF Sound, Kinds
<1>10. Reserve(L2, order, k + 1)
  <2> SUFFICES ASSUME NEW p \in 1 .. (k + 1) - 1, NEW m \in 1 .. Len(L2),
                      Keeps(L2, order[p]), L2[order[p]].last # NO_USE,
                      L2[m].pre, L2[m].cpu \cap L2[order[p]].cpu # {}
               PROVE  L2[m].last <= L2[order[p]].def \/ L2[order[p]].last <= L2[m].def
    BY DEF Reserve
  <2>1. CASE p = k
    BY <1>3, <1>5, <1>6, <2>1
  <2>2. CASE p \in 1 .. k - 1
    BY <1>3, <2>2 DEF Sound, Reserve
  <2> QED
    BY <1>4, <2>1, <2>2
<1>11. Later(L2, order, k + 1, x)
  <2> SUFFICES ASSUME NEW p \in 1 .. (k + 1) - 1, NEW q \in 1 .. (k + 1) - 1,
                      Live(L2, order[p], x), Keeps(L2, order[q]),
                      L2[order[q]].cpu \cap L2[order[p]].cpu # {}
               PROVE  q <= p
    BY DEF Later
  <2>1. CASE p = k
    BY <1>1, <2>1
  <2>2. CASE p \in 1 .. k - 1 /\ q = k
    BY <1>5, <1>7, <1>8, <2>2
  <2>3. CASE p \in 1 .. k - 1 /\ q \in 1 .. k - 1
    BY <1>3, <2>3 DEF Sound, Later
  <2> QED
    BY <1>4, <2>1, <2>2, <2>3
<1>12. NotFree(L2, order, free2, k + 1, x)
  <2> SUFFICES ASSUME NEW p \in 1 .. (k + 1) - 1, Live(L2, order[p], x)
               PROVE  L2[order[p]].cpu \cap free2 = {}
    BY DEF NotFree
  <2>1. CASE p = k
    BY <1>2, <1>5, <2>1 DEF Live
  <2>2. CASE p \in 1 .. k - 1
    BY <1>2, <1>3, <2>2 DEF Sound, NotFree
  <2> QED
    BY <1>4, <2>1, <2>2
<1> QED
  BY <1>3, <1>9, <1>10, <1>11, <1>12

Unspilled(L) == \A n \in 1 .. Len(L) : L[n].cpu # Spill

(* A definition: a register that is free and in no conflict, or a spill    *)
(* with a scratch register for its store.                                  *)
LEMMA HandlingDef ==
  ASSUME NEW st, NEW k \in 1 .. Len(st.lrs), NEW x, x = st.lrs[order[k]].def + 1,
         Good(st, k, x), st.scratch = <<>>, HandleDef(st, k).ok,
         ~is_use_lr(st.lrs[order[k]]), ~st.lrs[order[k]].pre
  PROVE  LET s == HandleDef(st, k)
         IN /\ Good(s, k + 1, x) /\ s.scratch = <<>> /\ Len(s.lrs) = Len(st.lrs)
            /\ s.lrs[order[k]].def = st.lrs[order[k]].def
            /\ Unspilled(st.lrs) /\ s.lrs[order[k]].cpu # Spill => Unspilled(s.lrs)
<1> DEFINE n == order[k]
           L == st.lrs
           lr == L[n]
           c == Wants(st, n, lr.lac, lr.def, lr.last)
           s == HandleDef(st, k)
           st1 == [st EXCEPT !.lrs[n].cpu = Spill]
           st2 == TakeScratch(st1, n, lr.def, lr.def, k)
<1>1. s = IF c = Spill THEN (IF st2.ok THEN ReleaseScratch(st2) ELSE st2)
          ELSE [st EXCEPT !.lrs[n].cpu = c, !.free = IF lr.last = NO_USE THEN @ ELSE @ \ c]
  <2> HIDE DEF c, st2
  <2> QED
    BY DEF HandleDef, c, st2
<1>2. s.ok
  OBVIOUS
<1>3. /\ st \in ScanState /\ WellFormed(L) /\ InOrder(L, order) /\ L \in Seq(RangeRec)
      /\ n \in 1 .. Len(L) /\ lr \in RangeRec /\ Len(L) \in Nat /\ k \in Nat
      /\ st.free \in SUBSET Unit
  <2>1. WellFormed(L) /\ InOrder(L, order) /\ st \in ScanState
    BY DEF Good
  <2>2. n \in 1 .. Len(L) /\ Len(L) \in Nat
    <3> HIDE DEF L
    <3> QED
      BY <2>1, Ordering DEF L
  <2>3. L \in Seq(RangeRec) /\ st.free \in SUBSET Unit
    BY <2>1 DEF ScanState
  <2> HIDE DEF L, n
  <2> QED
    BY <2>1, <2>2, <2>3
<1>4. Sound(L, order, st.free, k, x)
  <2>1. st.free \cup UNION ToSet(st.scratch) = st.free
    BY DEF ToSet
  <2> QED
    BY <2>1 DEF Good
<1>5. lr.def \in Int /\ lr.last \in Int /\ lr.reg \in Register /\ lr.reg.kind \in DOMAIN CpuRegs
  <2>1. lr \in RangeRec /\ lr.reg # NoReg
    BY <1>3 DEF is_use_lr
  <2> HIDE DEF lr
  <2>2. lr.reg \in Register
    BY <2>1 DEF RangeRec
  <2> QED
    BY <2>1, <2>2 DEF RangeRec, Register
<1>6. c # Spill => /\ c \in ToSet(CpuRegs[lr.reg.kind]) /\ c \in SUBSET Unit /\ c \subseteq st.free
                   /\ \A u \in c : ~has_conflict(L, u, lr.def, lr.last)
  <2>1. c = get_available_reg(L, st.free, lr.reg.kind, lr.lac, lr.def, lr.last)
    BY DEF Wants
  <2> HIDE DEF c, lr, L
  <2> QED
    BY <1>5, <2>1, Choosing
<1>7. /\ ~L[order[k]].pre /\ ~is_use_lr(L[order[k]]) /\ k \in 1 .. Len(L)
      /\ x = L[order[k]].def + 1 /\ lr = L[order[k]] /\ n = order[k] /\ L = st.lrs
  OBVIOUS
<1> HIDE DEF c, s
<1>8. CASE c # Spill
  <2> DEFINE L2 == WithCpu(L, n, c)
             free2 == IF lr.last = NO_USE THEN st.free ELSE st.free \ c
  <2>1. s = [st EXCEPT !.lrs = L2, !.free = free2]
    <3>1. s = [st EXCEPT !.lrs[n].cpu = c, !.free = IF lr.last = NO_USE THEN @ ELSE @ \ c]
      <4> HIDE DEF st2
      <4> QED
        BY <1>1, <1>8
    <3>2. s = [st EXCEPT !.lrs = [st.lrs EXCEPT ![n].cpu = c], !.free = free2]
      BY <1>3, <3>1 DEF ScanState
    <3> QED
      BY <3>2 DEF WithCpu
  <2>2. /\ GetsCpu(L, L2, order[k], c) /\ free2 \in SUBSET st.free
        /\ Leaves(L, st.free, free2, order[k], c)
    BY DEF Leaves, GetsCpu
  <2>3. /\ WellFormed(L2) /\ InOrder(L2, order) /\ Len(L2) = Len(L)
        /\ Sound(L2, order, free2, k + 1, x)
    <3>1. /\ c \in SUBSET Unit /\ c \subseteq st.free /\ c \in ToSet(CpuRegs[L[order[k]].reg.kind])
          /\ Clear(L, c, L[order[k]].def, L[order[k]].last)
      BY <1>6, <1>8 DEF Clear
    <3>2. /\ WellFormed(L2) /\ InOrder(L2, order) /\ Len(L2) = Len(L)
          /\ Kinds(L2, order, k + 1) /\ Reserve(L2, order, k + 1)
          /\ Later(L2, order, k + 1, x) /\ NotFree(L2, order, free2, k + 1, x)
      <4> DEFINE fr == st.free
      <4>1. /\ WellFormed(L) /\ InOrder(L, order) /\ k \in 1 .. Len(L)
            /\ ~L[order[k]].pre /\ ~is_use_lr(L[order[k]])
            /\ fr \in SUBSET Unit /\ Sound(L, order, fr, k, x)
            /\ c \in SUBSET Unit /\ c \subseteq fr
            /\ c \in ToSet(CpuRegs[L[order[k]].reg.kind])
            /\ Clear(L, c, L[order[k]].def, L[order[k]].last)
            /\ GetsCpu(L, L2, order[k], c) /\ Leaves(L, fr, free2, order[k], c)
        BY <1>3, <1>4, <1>7, <2>2, <3>1
      <4> HIDE DEF L, n, lr, L2, free2, fr
      <4>2. /\ WellFormed(L2) /\ InOrder(L2, order) /\ Len(L2) = Len(L)
            /\ Kinds(L2, order, k + 1) /\ Reserve(L2, order, k + 1)
            /\ Later(L2, order, k + 1, x) /\ NotFree(L2, order, free2, k + 1, x)
        BY ONLY <4>1, SoundTaken
      <4> QED
        BY <4>2
    <3> QED
      BY <3>2 DEF Sound
  <2>4. /\ L2 \in Seq(RangeRec) /\ L2[n].def = lr.def
        /\ \A m \in 1 .. Len(L) : L2[m].cpu = IF m = n THEN c ELSE L[m].cpu
    <3>1. c \in (SUBSET Unit) \cup {Spill, NoCpuReg} /\ ~L[n].pre /\ L2 = WithCpu(L, n, c)
      BY <1>6, <1>8
    <3> HIDE DEF L, n, L2
    <3> QED
      BY <1>3, <3>1, SetCpu
  <2> HIDE DEF L2, free2
  <2>5. s \in ScanState /\ s.lrs = L2 /\ s.free = free2 /\ s.scratch = <<>>
    BY <1>3, <2>1, <2>2, <2>4 DEF ScanState
  <2>6. s.free \cup UNION ToSet(s.scratch) = free2
    BY <2>5 DEF ToSet
  <2>7. Good(s, k + 1, x)
    BY <2>3, <2>5, <2>6 DEF Good
  <2>8. Unspilled(L) => Unspilled(s.lrs)
    <3> HIDE DEF L, n
    <3> QED
      BY <1>8, <2>3, <2>4, <2>5 DEF Unspilled
  <2> QED
    BY <2>3, <2>4, <2>5, <2>7, <2>8 DEF s
<1>9. CASE c = Spill
  <2> DEFINE L1 == WithCpu(L, n, Spill)
  <2>1. st1 \in ScanState /\ st1.lrs = L1 /\ st1.free = st.free /\ st1.scratch = <<>>
        /\ L1 \in Seq(RangeRec) /\ Len(L1) = Len(L)
        /\ \A m \in 1 .. Len(L) : /\ L1[m].def = L[m].def /\ L1[m].reg = L[m].reg
                                  /\ L1[m].cpu = IF m = n THEN Spill ELSE L[m].cpu
    <3>1. Spill \in (SUBSET Unit) \cup {Spill, NoCpuReg} /\ ~L[n].pre /\ L1 = WithCpu(L, n, Spill)
      OBVIOUS
    <3>2. L1 \in Seq(RangeRec) /\ Len(L1) = Len(L)
          /\ \A m \in 1 .. Len(L) : /\ L1[m].def = L[m].def /\ L1[m].reg = L[m].reg
                                    /\ L1[m].cpu = IF m = n THEN Spill ELSE L[m].cpu
      <4> HIDE DEF L, n, L1
      <4> QED
        BY <1>3, <3>1, SetCpu
    <3>3. st1 = [st EXCEPT !.lrs = L1]
      BY <1>3 DEF ScanState, WithCpu
    <3> HIDE DEF L1, L, n, st1
    <3> QED
      BY <1>3, <3>2, <3>3 DEF ScanState, L
  <2>2. /\ WellFormed(L1) /\ InOrder(L1, order) /\ Sound(L1, order, st.free, k, x)
    <3>1. /\ Spill \in (SUBSET Unit) \cup {Spill, NoCpuReg} /\ ~L[order[k]].pre
          /\ L1 = WithCpu(L, order[k], Spill)
      OBVIOUS
    <3>2. /\ WellFormed(L1) /\ InOrder(L1, order)
          /\ Kinds(L1, order, k) /\ Reserve(L1, order, k)
          /\ Later(L1, order, k, x) /\ NotFree(L1, order, st.free, k, x)
      <4> HIDE DEF L, n, L1
      <4> QED
        BY <1>3, <1>4, <1>7, <3>1, SoundSame
    <3> QED
      BY <3>2 DEF Sound
  <2> HIDE DEF L1, st1
  <2>3. Good(st1, k, x)
    <3>1. st1.free \cup UNION ToSet(st1.scratch) = st.free
      BY <2>1 DEF ToSet
    <3> QED
      BY <2>1, <2>2, <3>1 DEF Good
  <2>4. Good(st2, k, x) /\ Frame(L1, st2.lrs, k)
    <3>1. k \in 1 .. Len(st1.lrs) + 1 /\ n \in 1 .. Len(st1.lrs) /\ x \in Int /\ lr.def < x
      BY <1>3, <1>5, <1>7, <2>1
    <3>2. ~is_use_lr(st1.lrs[n])
      <4> HIDE DEF n, L
      <4> QED
        BY <1>3, <1>7, <2>1 DEF is_use_lr
    <3> DEFINE d == lr.def
    <3>3. d \in Int /\ d < x
      BY <1>5, <3>1
    <3>4. Good(TakeScratch(st1, n, d, d, k), k, x) /\ Frame(st1.lrs, TakeScratch(st1, n, d, d, k).lrs, k)
      <4> HIDE DEF d, n
      <4> QED
        BY <2>3, <3>1, <3>2, <3>3, TakingScratch
    <3> QED
      BY <2>1, <3>4
  <2> HIDE DEF st2
  <2>5. s = ReleaseScratch(st2)
    BY <1>1, <1>2, <1>9
  <2>6. /\ n \in 1 .. Len(st2.lrs) /\ k \in 1 .. Len(st2.lrs) /\ Len(st2.lrs) = Len(L)
        /\ st2.lrs[n].cpu = Spill /\ st2.lrs[n].def = lr.def
    <3> HIDE DEF n, L
    <3> QED
      BY <1>3, <1>7, <2>1, <2>4 DEF Frame, lr
  <2>7. Good(st2, k + 1, x)
    <3> DEFINE all == st2.free \cup UNION ToSet(st2.scratch)
    <3>1. /\ WellFormed(st2.lrs) /\ InOrder(st2.lrs, order) /\ Sound(st2.lrs, order, all, k, x)
          /\ st2 \in ScanState /\ x \in Int
      BY <1>5, <1>7, <2>4 DEF Good
    <3>2. ~Keeps(st2.lrs, order[k])
      BY <2>6 DEF Keeps
    <3> HIDE DEF all
    <3>3. Sound(st2.lrs, order, all, k + 1, x)
      BY <2>6, <3>1, <3>2, SoundNext
    <3> QED
      BY <3>1, <3>3 DEF Good, all
  <2>8. Good(s, k + 1, x) /\ s.lrs = st2.lrs /\ s.scratch = <<>>
    BY <2>5, <2>7, Releasing
  <2> QED
    BY <2>6, <2>8 DEF s
<1> QED
  BY <1>8, <1>9

(* Where the scan stands when place k comes next: what ended before holds  *)
(* nothing.                                                                *)
NextPosition(L, ord, k) ==
  IF k > Len(L) THEN AFTER_BBL + 1
  ELSE IF is_use_lr(L[ord[k]]) THEN L[ord[k]].def ELSE L[ord[k]].def + 1

(* The place after a range is over no earlier than the range's own   *)
(* definition: uses come before definitions at one position, and one *)
(* instruction has one use entry.                                    *)
LEMMA Advancing ==
  ASSUME NEW L, WellFormed(L), InOrder(L, order), NEW k \in 1 .. Len(L)
  PROVE  NextPosition(L, order, k + 1) \in Int /\ L[order[k]].def + 1 <= NextPosition(L, order, k + 1)
<1> DEFINE a == order[k]
           b == order[k + 1]
<1>1. Len(L) \in Nat /\ k \in Nat /\ a \in 1 .. Len(L)
  BY Ordering
<1>2. L[a].def \in Int /\ L[a].def <= AFTER_BBL /\ L[a].last \in Int
  <2>1. L[a] \in RangeRec
    BY <1>1, Ordering
  <2>2. L[a].def <= AFTER_BBL
    BY <1>1 DEF WellFormed
  <2> HIDE DEF a
  <2> QED
    BY <2>1, <2>2 DEF RangeRec
<1>3. CASE k + 1 > Len(L)
  BY <1>1, <1>2, <1>3 DEF NextPosition, AFTER_BBL
<1>4. CASE k + 1 \in 1 .. Len(L)
  <2>1. b \in 1 .. Len(L) /\ Before(L, a, b) /\ a # b
    BY <1>1, <1>4, Ordering
  <2>2. L[b].def \in Int /\ L[b].last \in Int
    <3>1. L[b] \in RangeRec
      BY <2>1, Ordering
    <3> HIDE DEF b
    <3> QED
      BY <3>1 DEF RangeRec
  <2>3. NextPosition(L, order, k + 1) = IF is_use_lr(L[b]) THEN L[b].def ELSE L[b].def + 1
    BY <1>1, <1>4 DEF NextPosition
  <2> HIDE DEF a, b
  <2>4. L[a].def <= L[b].def
    BY <1>2, <2>1, <2>2 DEF Before
  <2>5. is_use_lr(L[b]) => L[a].def # L[b].def
    <3> SUFFICES ASSUME is_use_lr(L[b]), L[a].def = L[b].def
                 PROVE  FALSE
      OBVIOUS
    <3>1. L[b].last = L[b].def /\ L[a].last <= L[b].last
      BY <1>2, <2>1, <2>2 DEF WellFormed, Before
    <3>2. ~is_use_lr(L[a])
      BY <1>1, <2>1 DEF WellFormed
    <3>3. L[a].def < L[a].last
      BY <1>1, <3>2 DEF WellFormed
    <3> QED
      BY <1>2, <2>2, <3>1, <3>3
  <2> DEFINE d == L[a].def
             f == L[b].def
             next == NextPosition(L, order, k + 1)
  <2>6. d \in Int /\ f \in Int /\ d <= f
    BY <1>2, <2>2, <2>4
  <2>7. next = f + 1 \/ (next = f /\ d # f)
    BY <2>3, <2>5
  <2> HIDE DEF d, f, next
  <2>8. next \in Int /\ d + 1 <= next
    BY <2>6, <2>7
  <2> QED
    BY <2>8 DEF a, d, next
<1> QED
  BY <1>1, <1>3, <1>4

(* Sorted sorts: the number of ranges that come before it is the place of  *)
(* a range, and no two ranges share a place.                               *)
LEMMA Sorting ==
  ASSUME NEW L, Len(L) \in Nat, DOMAIN L = 1 .. Len(L),
         \A n \in 1 .. Len(L) : L[n].def \in Int /\ L[n].last \in Int
  PROVE  InOrder(L, Sorted(L))
<1> DEFINE N == Len(L)
           D == 1 .. N
           Bef(n) == {m \in D : Before(L, m, n)}
           rank == [n \in D |-> Cardinality(Bef(n))]
           s == Sorted(L)
<1>1. N \in Nat /\ DOMAIN L = D /\ \A n \in D : L[n].def \in Int /\ L[n].last \in Int
  OBVIOUS
<1>2. s = [p \in D |-> CHOOSE n \in D : rank[n] = p - 1]
  BY <1>1 DEF Sorted
<1>3. \A a \in D : ~Before(L, a, a)
  BY <1>1 DEF Before
<1>4. \A a, b \in D : a # b => Before(L, a, b) \/ Before(L, b, a)
  BY <1>1 DEF Before
<1>5. \A a, b, c \in D : Before(L, a, b) /\ Before(L, b, c) => Before(L, a, c)
  BY <1>1 DEF Before
<1>6. IsFiniteSet(D) /\ Cardinality(D) = N
  <2> HIDE DEF N
  <2> QED
    BY <1>1, FS_Interval
<1>7. ASSUME NEW a \in D
      PROVE  IsFiniteSet(Bef(a)) /\ rank[a] \in 0 .. N - 1 /\ rank[a] = Cardinality(Bef(a))
  <2>1. Bef(a) \subseteq D \ {a} /\ a \in D
    BY <1>3
  <2>2. IsFiniteSet(D \ {a}) /\ Cardinality(D \ {a}) = N - 1
    <3> HIDE DEF D
    <3> QED
      BY <1>6, FS_RemoveElement
  <2>3. IsFiniteSet(Bef(a)) /\ Cardinality(Bef(a)) <= N - 1 /\ Cardinality(Bef(a)) \in Nat
    <3> HIDE DEF D, N, Bef
    <3>1. IsFiniteSet(Bef(a)) /\ Cardinality(Bef(a)) <= Cardinality(D \ {a})
      BY <2>1, <2>2, FS_Subset
    <3> QED
      BY <2>2, <3>1, FS_CardinalityType
  <2> HIDE DEF Bef
  <2> QED
    BY <1>1, <2>3
<1>15. \A a \in D : rank[a] \in Nat /\ rank[a] + 1 \in D /\ (rank[a] + 1) - 1 = rank[a]
  <2> HIDE DEF rank, Bef
  <2>1. \A a \in D : rank[a] \in 0 .. N - 1
    BY <1>7
  <2> HIDE DEF N
  <2> QED
    BY <1>1, <2>1
<1>8. ASSUME NEW a \in D, NEW b \in D, Before(L, a, b)
      PROVE  rank[a] < rank[b]
  <2>1. Bef(a) \subseteq Bef(b) /\ a \in Bef(b) /\ a \notin Bef(a)
    BY <1>3, <1>5, <1>8
  <2>2. IsFiniteSet(Bef(b)) /\ rank[a] = Cardinality(Bef(a)) /\ rank[b] = Cardinality(Bef(b))
        /\ rank[a] \in Nat /\ rank[b] \in Nat
    <3> HIDE DEF rank, Bef
    <3> QED
      BY <1>7, <1>15
  <2> HIDE DEF Bef, rank
  <2>3. Cardinality(Bef(a)) <= Cardinality(Bef(b)) /\ Cardinality(Bef(a)) # Cardinality(Bef(b))
    BY <2>1, <2>2, FS_Subset
  <2> QED
    BY <2>2, <2>3
<1>9. rank \in Injection(D, 0 .. N - 1)
  <2>1. rank \in [D -> 0 .. N - 1]
    BY <1>7
  <2>2. ASSUME NEW a \in D, NEW b \in D, rank[a] = rank[b]
        PROVE  a = b
    <3> HIDE DEF rank
    <3>1. rank[a] \in Nat /\ rank[b] \in Nat
      BY <1>15
    <3> QED
      BY <1>4, <1>8, <2>2, <3>1
  <2> HIDE DEF rank, D
  <2> QED
    BY <2>1, <2>2 DEF Injection, IsInjective
<1>10. rank \in Surjection(D, 0 .. N - 1)
  <2> HIDE DEF rank, D
  <2>1. IsFiniteSet(0 .. N - 1) /\ Cardinality(0 .. N - 1) = N
    <3>1. 0 \in Int /\ N - 1 \in Int
      BY <1>1
    <3> HIDE DEF N
    <3>2. /\ IsFiniteSet(0 .. N - 1)
          /\ Cardinality(0 .. N - 1) = IF 0 > N - 1 THEN 0 ELSE (N - 1) - 0 + 1
      BY <3>1, FS_Interval
    <3> QED
      BY <1>1, <3>2
  <2> QED
    BY <1>6, <1>9, <2>1, FS_Injection
<1>11. ASSUME NEW p \in D
       PROVE  s[p] \in D /\ rank[s[p]] = p - 1
  <2>1. \E n \in D : rank[n] = p - 1
    <3>1. p - 1 \in 0 .. N - 1
      BY <1>1
    <3> HIDE DEF rank
    <3> QED
      BY <1>10, <3>1 DEF Surjection
  <2> HIDE DEF rank
  <2> QED
    BY <1>2, <2>1
<1>12. ASSUME NEW n \in D
       PROVE  \E p \in D : s[p] = n
  <2> HIDE DEF rank, s
  <2>1. rank[n] + 1 \in D /\ (rank[n] + 1) - 1 = rank[n]
    BY <1>15
  <2>2. s[rank[n] + 1] \in D /\ rank[s[rank[n] + 1]] = rank[n]
    BY <1>11, <2>1
  <2> QED
    BY <1>9, <2>1, <2>2 DEF Injection, IsInjective
<1>13. ASSUME NEW p \in D, NEW q \in D, p < q
       PROVE  Before(L, s[p], s[q])
  <2> HIDE DEF rank, s
  <2>1. /\ s[p] \in D /\ s[q] \in D /\ rank[s[p]] = p - 1 /\ rank[s[q]] = q - 1
        /\ p \in Nat /\ q \in Nat
    BY <1>1, <1>11
  <2>2. s[p] # s[q] /\ ~(rank[s[q]] < rank[s[p]])
    BY <1>13, <2>1
  <2> QED
    BY <1>4, <1>8, <2>1, <2>2
<1>14. s \in Seq(D) /\ Len(s) = N
  <2>1. s = [p \in 1 .. N |-> s[p]] /\ \A p \in 1 .. N : s[p] \in D
    BY <1>2, <1>11
  <2> HIDE DEF s, rank, D, N
  <2> QED
    BY <1>1, <2>1
<1> QED
  <2> HIDE DEF s, rank
  <2> QED
    BY <1>12, <1>13, <1>14 DEF InOrder, s

-----------------------------------------------------------------------------
(* The walk that finds the live ranges.  Positions from u on have their    *)
(* use entries, open ranges end at o or later.                             *)
Plain == [def : Int, last : Int, reg : Register \cup {NoReg}, num_uses : Nat, uses : Seq(Nat),
          lac : BOOLEAN]
Partial(R) == UNION {[S -> Nat] : S \in SUBSET R}
Calls == SUBSET SUBSET Unit
Walks(R) == [out : Seq(Plain), last_use : Partial(R), call_pos : Int, call_in : Calls]

Target(out, t, x) == t \in 1 .. Len(out) /\ ~is_use_lr(out[t]) /\ out[t].def < x
Targets(out, uses, x) == \A j \in 1 .. Len(uses) : Target(out, uses[j], x)
Entry(out, e, R, u) ==
  /\ e.def <= AFTER_BBL
  /\ is_use_lr(e) => e.last = e.def /\ u <= e.def /\ Targets(out, e.uses, e.def)
  /\ ~is_use_lr(e) => e.def < e.last /\ e.reg \in R
Entries(out, R, u) == \A n \in 1 .. Len(out) : Entry(out, out[n], R, u)
OneUse(out) ==
  \A n, m \in 1 .. Len(out) :
    n # m /\ is_use_lr(out[n]) /\ is_use_lr(out[m]) => out[n].def # out[m].def
IsOpen(out, n, r, o) == n \in 1 .. Len(out) /\ out[n].reg = r /\ out[n].def = -1 /\ o <= out[n].last
Shape(st, R, o, u) ==
  /\ st \in Walks(R) /\ Entries(st.out, R, u) /\ OneUse(st.out)
  /\ \A r \in DOMAIN st.last_use : IsOpen(st.out, st.last_use[r], r, o)
CallAhead(st, p) == st.call_in # {} => p < st.call_pos

(* The types of a walk's parts. *)
LEMMA Walking ==
  ASSUME NEW R, R \subseteq Register, NEW st, st \in Walks(R)
  PROVE  /\ st.out \in Seq(Plain) /\ Len(st.out) \in Nat /\ DOMAIN st.out = 1 .. Len(st.out)
         /\ \A n \in 1 .. Len(st.out) : st.out[n] \in Plain
         /\ DOMAIN st.last_use \subseteq R /\ st.last_use \in [DOMAIN st.last_use -> Nat]
         /\ st.call_pos \in Int /\ st.call_in \in SUBSET SUBSET Unit
<1>1. st.out \in Seq(Plain)
  BY DEF Walks
<1>2. Len(st.out) \in Nat /\ DOMAIN st.out = 1 .. Len(st.out)
      /\ \A n \in 1 .. Len(st.out) : st.out[n] \in Plain
  BY <1>1
<1>3. PICK S \in SUBSET R : st.last_use \in [S -> Nat]
  BY DEF Walks, Partial
<1>4. DOMAIN st.last_use \subseteq R /\ st.last_use \in [DOMAIN st.last_use -> Nat]
  BY <1>3
<1> QED
  BY <1>1, <1>2, <1>4 DEF Walks, Calls

(* What holds from u on with open ranges up to o holds for earlier open *)
(* ranges and later uses.                                               *)
LEMMA Relaxing ==
  ASSUME NEW R, R \subseteq Register, NEW st, NEW o \in Int, NEW u \in Int, NEW p \in Int,
         NEW q \in Int, p <= o, q <= u, Shape(st, R, o, u)
  PROVE  Shape(st, R, p, q)
<1>1. st \in Walks(R) /\ \A n \in 1 .. Len(st.out) : st.out[n].def \in Int /\ st.out[n].last \in Int
  BY Walking DEF Shape, Plain
<1>2. Entries(st.out, R, q)
  BY <1>1 DEF Shape, Entries, Entry
<1>3. \A r \in DOMAIN st.last_use : IsOpen(st.out, st.last_use[r], r, p)
  BY <1>1 DEF Shape, IsOpen
<1> QED
  BY <1>1, <1>2, <1>3 DEF Shape

(* The list out is the list old and an entry e behind it.                  *)
Extended(old, out, e, R, o, q) ==
  /\ out \in Seq(Plain) /\ Len(out) = Len(old) + 1 /\ out[Len(out)] = e
  /\ Len(out) \in 1 .. Len(out)
  /\ Entries(out, R, q) /\ OneUse(out)
  /\ \A n, r : IsOpen(old, n, r, o) => IsOpen(out, n, r, o)

(* One more entry at the end of the list. *)
LEMMA Appending ==
  ASSUME NEW R, R \subseteq Register, NEW st, NEW o, NEW u \in Int, Shape(st, R, o, u),
         NEW e \in Plain, NEW q \in Int, q <= u, Entry(st.out, e, R, q), is_use_lr(e) => e.def < u,
         NEW out, out = Append(st.out, e)
  PROVE  Extended(st.out, out, e, R, o, q)
<1> DEFINE old == st.out
<1>1. /\ old \in Seq(Plain) /\ Len(old) \in Nat /\ \A n \in 1 .. Len(old) : old[n] \in Plain
      /\ Entries(old, R, u) /\ OneUse(old)
  BY Walking DEF Shape
<1> HIDE DEF old
<1>2. /\ out \in Seq(Plain) /\ Len(out) = Len(old) + 1
      /\ \A n \in 1 .. Len(out) : n \in 1 .. Len(old) \/ n = Len(out)
      /\ \A n \in 1 .. Len(old) : n \in 1 .. Len(out) /\ out[n] = old[n]
      /\ out[Len(out)] = e /\ Len(out) \in 1 .. Len(out)
  <2>1. out = Append(old, e)
    BY DEF old
  <2> QED
    BY <1>1, <2>1
<1>3. \A t, x : Target(old, t, x) => Target(out, t, x)
  BY <1>2 DEF Target
<1>4. Entry(out, e, R, q)
  BY <1>3 DEF Entry, Targets, old
<1>5. \A n \in 1 .. Len(old) : Entry(out, old[n], R, q)
  <2>1. ASSUME NEW n \in 1 .. Len(old)
        PROVE  Entry(out, old[n], R, q)
    <3>1. Entry(old, old[n], R, u) /\ old[n].def \in Int
      BY <1>1 DEF Entries, Plain
    <3>2. Targets(old, old[n].uses, old[n].def) => Targets(out, old[n].uses, old[n].def)
      BY <1>3 DEF Targets
    <3> QED
      BY <3>1, <3>2 DEF Entry
  <2> QED
    BY <2>1
<1>6. Entries(out, R, q)
  BY <1>2, <1>4, <1>5 DEF Entries
<1>7. OneUse(out)
  <2>1. \A n \in 1 .. Len(old) : is_use_lr(old[n]) /\ is_use_lr(e) => old[n].def # e.def
    <3>1. e.def \in Int /\ \A n \in 1 .. Len(old) : old[n].def \in Int
      BY <1>1 DEF Plain
    <3>2. \A n \in 1 .. Len(old) : is_use_lr(old[n]) => u <= old[n].def
      BY <1>1 DEF Entries, Entry
    <3> QED
      BY <3>1, <3>2
  <2> SUFFICES ASSUME NEW n \in 1 .. Len(out), NEW m \in 1 .. Len(out), n # m,
                      is_use_lr(out[n]), is_use_lr(out[m])
               PROVE  out[n].def # out[m].def
    BY DEF OneUse
  <2>2. CASE n \in 1 .. Len(old) /\ m \in 1 .. Len(old)
    BY <1>1, <1>2, <2>2 DEF OneUse
  <2>3. CASE n \in 1 .. Len(old) /\ m = Len(out)
    BY <1>2, <2>1, <2>3
  <2>4. CASE m \in 1 .. Len(old) /\ n = Len(out)
    BY <1>2, <2>1, <2>4
  <2> QED
    BY <1>2, <2>2, <2>3, <2>4
<1>8. \A n, r : IsOpen(old, n, r, o) => IsOpen(out, n, r, o)
  BY <1>2 DEF IsOpen
<1> QED
  BY <1>2, <1>6, <1>7, <1>8 DEF old, Extended

(* finalize_lr of open ranges, at a position before all use entries.       *)
LEMMA Finalizing ==
  ASSUME NEW R, R \subseteq Register, NEW st, NEW o \in Int, NEW u \in Int, Shape(st, R, o, u),
         NEW regs, regs \subseteq DOMAIN st.last_use,
         NEW p \in Int, p < o, p < u, p <= AFTER_BBL
  PROVE  LET s == FinalizeAll(st, regs, p)
         IN /\ Shape(s, R, o, u) /\ s.call_pos = st.call_pos /\ s.call_in = st.call_in
            /\ DOMAIN s.last_use = DOMAIN st.last_use \ regs
<1> DEFINE ns == {st.last_use[r] : r \in regs}
           old == st.out
           out == [n \in 1 .. Len(old) |->
                     IF n \in ns THEN [old[n] EXCEPT !.def = p, !.lac = CrossesCall(st, n)]
                     ELSE old[n]]
           lu == [r \in DOMAIN st.last_use \ regs |-> st.last_use[r]]
           s == FinalizeAll(st, regs, p)
<1>1. /\ st \in Walks(R) /\ old \in Seq(Plain) /\ Len(old) \in Nat /\ DOMAIN old = 1 .. Len(old)
      /\ \A n \in 1 .. Len(old) : old[n] \in Plain
      /\ DOMAIN st.last_use \subseteq R /\ st.last_use \in [DOMAIN st.last_use -> Nat]
  BY Walking DEF Shape
<1>2. s = [st EXCEPT !.out = out, !.last_use = lu]
  BY <1>1 DEF FinalizeAll, Walks
<1>3. /\ Entries(old, R, u) /\ OneUse(old)
      /\ \A r \in DOMAIN st.last_use : IsOpen(old, st.last_use[r], r, o)
  BY DEF Shape
<1>4. \A n \in ns : n \in 1 .. Len(old) /\ old[n].reg \in Register /\ old[n].def = -1 /\ o <= old[n].last
  BY <1>1, <1>3 DEF IsOpen
<1> HIDE DEF ns, old
<1>5. \A n \in 1 .. Len(old) : CrossesCall(st, n) \in BOOLEAN
  BY DEF CrossesCall
<1>6. ASSUME NEW n \in 1 .. Len(old)
      PROVE  /\ out[n] \in Plain /\ out[n].reg = old[n].reg /\ out[n].last = old[n].last
             /\ out[n].uses = old[n].uses /\ out[n].def = IF n \in ns THEN p ELSE old[n].def
  <2>1. old[n] \in Plain /\ CrossesCall(st, n) \in BOOLEAN
    BY <1>1, <1>5
  <2>2. out[n] = IF n \in ns THEN [old[n] EXCEPT !.def = p, !.lac = CrossesCall(st, n)] ELSE old[n]
    OBVIOUS
  <2> HIDE DEF out
  <2> QED
    BY <2>1, <2>2 DEF Plain
<1>7. out \in Seq(Plain) /\ Len(out) = Len(old)
  <2>1. out = [n \in 1 .. Len(old) |-> out[n]] /\ \A n \in 1 .. Len(old) : out[n] \in Plain
    BY <1>6
  <2> HIDE DEF out
  <2> QED
    BY <1>1, <2>1
<1> HIDE DEF out
<1>8. \A n \in 1 .. Len(old) : is_use_lr(out[n]) <=> is_use_lr(old[n])
  BY <1>6 DEF is_use_lr
<1>9. \A n \in ns : ~is_use_lr(old[n])
  BY <1>4, PinnedAssumption DEF is_use_lr
<1>10. Entries(out, R, u)
  <2> SUFFICES ASSUME NEW n \in 1 .. Len(old)
               PROVE  Entry(out, out[n], R, u)
    BY <1>7 DEF Entries
  <2>1. /\ Entry(old, old[n], R, u) /\ old[n].def \in Int /\ old[n].last \in Int
        /\ old[n].uses \in Seq(Nat)
    BY <1>1, <1>3 DEF Entries, Plain
  <2>2. out[n].def <= AFTER_BBL
    BY <1>6, <2>1 DEF Entry
  <2>3. ~is_use_lr(out[n]) => out[n].def < out[n].last /\ out[n].reg \in R
    BY <1>4, <1>6, <1>8, <2>1 DEF Entry
  <2>4. is_use_lr(out[n]) => out[n].last = out[n].def /\ u <= out[n].def
    BY <1>6, <1>8, <1>9, <2>1 DEF Entry
  <2>5. ASSUME is_use_lr(out[n]), NEW j \in 1 .. Len(out[n].uses)
        PROVE  Target(out, out[n].uses[j], out[n].def)
    <3> DEFINE t == out[n].uses[j]
    <3>1. /\ out[n].uses = old[n].uses /\ out[n].def = old[n].def /\ is_use_lr(old[n])
          /\ u <= old[n].def
      BY <1>6, <1>8, <1>9, <2>1, <2>5 DEF Entry
    <3>2. Target(old, t, old[n].def)
      BY <2>1, <2>5, <3>1 DEF Entry, Targets
    <3> HIDE DEF t
    <3>3. t \in 1 .. Len(old) /\ ~is_use_lr(old[t]) /\ old[t].def < old[n].def
      BY <3>2 DEF Target
    <3>4. out[t].def < old[n].def
      <4>1. /\ u <= old[n].def /\ old[t].def < old[n].def /\ old[n].def \in Int
            /\ out[t].def = IF t \in ns THEN p ELSE old[t].def
        BY <1>6, <2>1, <3>1, <3>3
      <4> QED
        BY ONLY <4>1, u \in Int, p \in Int, p < u
    <3> QED
      BY <1>7, <1>8, <3>1, <3>3, <3>4 DEF Target, t
  <2> QED
    BY <2>2, <2>3, <2>4, <2>5 DEF Entry, Targets
<1>11. OneUse(out)
  BY <1>3, <1>6, <1>7, <1>8, <1>9 DEF OneUse
<1>12. ASSUME NEW r \in DOMAIN lu
       PROVE  IsOpen(out, lu[r], r, o)
  <2>1. lu[r] = st.last_use[r] /\ IsOpen(old, lu[r], r, o) /\ r \notin regs
    BY <1>3
  <2>2. lu[r] \notin ns
    <3>1. \A z \in regs : old[st.last_use[z]].reg = z
      BY <1>3 DEF IsOpen
    <3> QED
      BY <2>1, <3>1 DEF IsOpen, ns
  <2> HIDE DEF lu
  <2> QED
    BY <1>6, <1>7, <2>1, <2>2 DEF IsOpen
<1>13. lu \in Partial(R) /\ DOMAIN lu = DOMAIN st.last_use \ regs
  <2>1. lu \in [DOMAIN st.last_use \ regs -> Nat]
    BY <1>1
  <2> HIDE DEF lu
  <2> QED
    BY <1>1, <2>1 DEF Partial
<1> HIDE DEF s, lu
<1>14. s \in Walks(R) /\ s.out = out /\ s.last_use = lu /\ s.call_pos = st.call_pos
       /\ s.call_in = st.call_in
  BY <1>1, <1>2, <1>7, <1>13 DEF Walks
<1> QED
  BY <1>10, <1>11, <1>12, <1>13, <1>14 DEF Shape, s

(* initialize_lr: a range that is open until its definition is met.        *)
Opened(st, s, R, o, u, reg) ==
  /\ Shape(s, R, o, u) /\ s.call_pos = st.call_pos /\ s.call_in = st.call_in
  /\ DOMAIN s.last_use = DOMAIN st.last_use \cup {reg}

(* A register met for the first time, read or live at the end, opens a *)
(* range.                                                              *)
LEMMA Opening ==
  ASSUME NEW R, R \subseteq Register, NEW st, NEW o \in Int, NEW u \in Int, Shape(st, R, o, u),
         NEW pos \in Int, o <= pos, 0 <= pos, NEW reg \in R
  PROVE  LET s == initialize_lr(st, pos, reg)
         IN Opened(st, s, R, o, u, reg)
<1> DEFINE s == initialize_lr(st, pos, reg)
           e == LiveRange(-1, pos, reg, 1, <<>>)
           out == Append(st.out, e)
           lu == [r \in DOMAIN st.last_use \cup {reg} |->
                    IF r = reg THEN Len(st.out) + 1 ELSE st.last_use[r]]
<1>1. /\ st \in Walks(R) /\ st.out \in Seq(Plain) /\ Len(st.out) \in Nat
      /\ DOMAIN st.last_use \subseteq R /\ st.last_use \in [DOMAIN st.last_use -> Nat]
  BY Walking DEF Shape
<1>2. s = [st EXCEPT !.out = out, !.last_use = lu]
  BY <1>1 DEF initialize_lr, Walks
<1>3. reg \in Register /\ reg # NoReg /\ ~is_use_lr(e)
  BY PinnedAssumption DEF is_use_lr, LiveRange
<1>4. e \in Plain /\ e.def = -1 /\ e.last = pos /\ e.reg = reg
  BY <1>3 DEF LiveRange, Plain
<1>5. Entry(st.out, e, R, u)
  <2> HIDE DEF e
  <2> QED
    BY <1>3, <1>4 DEF Entry, AFTER_BBL
<1> HIDE DEF e
<1>6. /\ out \in Seq(Plain) /\ Len(out) = Len(st.out) + 1 /\ out[Len(out)] = e
      /\ Len(out) \in 1 .. Len(out) /\ Entries(out, R, u) /\ OneUse(out)
      /\ \A n, r : IsOpen(st.out, n, r, o) => IsOpen(out, n, r, o)
  <2>1. /\ Shape(st, R, o, u) /\ R \subseteq Register /\ u \in Int /\ u <= u /\ e \in Plain
        /\ Entry(st.out, e, R, u) /\ (is_use_lr(e) => e.def < u) /\ out = Append(st.out, e)
    BY <1>3, <1>4, <1>5
  <2>2. ~is_use_lr(e)
    BY <1>3
  <2> HIDE DEF out
  <2>3. Extended(st.out, out, e, R, o, u)
    BY ONLY <2>1, <2>2, Appending
  <2> QED
    BY <2>3 DEF Extended
<1> HIDE DEF out
<1>7. IsOpen(out, Len(out), reg, o)
  BY <1>4, <1>6 DEF IsOpen
<1>8. \A r \in DOMAIN st.last_use : IsOpen(out, st.last_use[r], r, o)
  BY <1>6 DEF Shape
<1>9. \A r \in DOMAIN lu : IsOpen(out, lu[r], r, o)
  BY <1>6, <1>7, <1>8
<1>10. lu \in Partial(R) /\ DOMAIN lu = DOMAIN st.last_use \cup {reg}
  <2>1. lu \in [DOMAIN st.last_use \cup {reg} -> Nat]
    BY <1>1
  <2> HIDE DEF lu
  <2> QED
    BY <1>1, <2>1 DEF Partial
<1> HIDE DEF s, lu
<1>11. s \in Walks(R) /\ s.out = out /\ s.last_use = lu /\ s.call_pos = st.call_pos
       /\ s.call_in = st.call_in
  BY <1>1, <1>2, <1>6, <1>10 DEF Walks
<1> QED
  BY <1>6, <1>9, <1>10, <1>11 DEF Shape, Opened, s

(* What the walk needs of an instruction. *)
Readable(ins, R) ==
  /\ ins.def \in Seq(R) /\ ins.use \in Seq(R) /\ ins.cin \in SUBSET SUBSET Unit
  /\ ins.op = "call" => ins.def = <<>>

(* AtCallOrRet: results end ranges, and the call is the nearest one now. *)
LEMMA Calling ==
  ASSUME NEW R, R \subseteq Register, NEW st, NEW p \in Nat, p < AFTER_BBL,
         Shape(st, R, p + 1, p + 1), CallAhead(st, p), NEW ins, Readable(ins, R), NEW b
  PROVE  LET s == AtCallOrRet(st, ins, p, b, FunOut)
         IN /\ Shape(s, R, p + 1, p + 1) /\ CallAhead(s, p - 1)
            /\ ins.op # "call" => CallAhead(s, p)
<1> DEFINE regs == {r \in DOMAIN st.last_use : b[r] \in ins.cout}
           f == FinalizeAll(st, regs, p)
           s == AtCallOrRet(st, ins, p, b, FunOut)
<1>0. st \in Walks(R) /\ st.call_pos \in Int /\ FunOut \in SUBSET SUBSET Unit
  BY Walking, PinnedAssumption DEF Shape
<1>1. Shape(f, R, p + 1, p + 1)
  <2>1. regs \subseteq DOMAIN st.last_use /\ p + 1 \in Int /\ p < p + 1 /\ p <= AFTER_BBL /\ p \in Int
    BY DEF AFTER_BBL
  <2> HIDE DEF regs
  <2> QED
    BY <2>1, Finalizing
<1> HIDE DEF f
<1>2. CASE ins.op = "ret" /\ FunOut # {}
  <2>1. s = [st EXCEPT !.call_pos = AFTER_BBL, !.call_in = FunOut]
    BY <1>2 DEF AtCallOrRet
  <2> HIDE DEF s
  <2>2. /\ s \in Walks(R) /\ s.out = st.out /\ s.last_use = st.last_use
        /\ s.call_pos = AFTER_BBL
    <3>1. FunOut \in Calls /\ AFTER_BBL \in Int
      BY <1>0 DEF Calls, AFTER_BBL
    <3> QED
      BY <1>0, <2>1, <3>1 DEF Walks
  <2> QED
    BY <2>2 DEF Shape, CallAhead, s, AFTER_BBL
<1>3. CASE ~(ins.op = "ret" /\ FunOut # {}) /\ ins.op = "call"
  <2>1. s = [f EXCEPT !.call_pos = p, !.call_in = ins.cin]
    BY <1>3 DEF AtCallOrRet, f
  <2>2. f \in Walks(R)
    BY <1>1 DEF Shape
  <2> HIDE DEF s
  <2>3. /\ s \in Walks(R) /\ s.out = f.out /\ s.last_use = f.last_use
        /\ s.call_pos = p
    <3> DEFINE taken == ins.cin
    <3>1. taken \in Calls /\ p \in Int /\ s = [f EXCEPT !.call_pos = p, !.call_in = taken]
      BY <2>1 DEF Readable, Calls
    <3> HIDE DEF taken
    <3> QED
      BY ONLY <2>2, <3>1 DEF Walks
  <2> QED
    BY <1>1, <1>3, <2>3 DEF Shape, CallAhead, s
<1>4. CASE ~(ins.op = "ret" /\ FunOut # {}) /\ ins.op # "call"
  <2>1. s = st
    BY <1>4 DEF AtCallOrRet
  <2> QED
    BY <1>0, <2>1 DEF CallAhead
<1> QED
  BY <1>2, <1>3, <1>4

(* AtDef: the definition ends the walk's open range, or makes one for a *)
(* value that is dead or a call's argument.                             *)
LEMMA Defining ==
  ASSUME NEW R, R \subseteq Register, NEW st, NEW p \in Nat, p < AFTER_BBL,
         Shape(st, R, p + 1, p + 1), CallAhead(st, p), NEW reg \in R, NEW b
  PROVE  LET s == AtDef(st, reg, p, b)
         IN Shape(s, R, p + 1, p + 1) /\ CallAhead(s, p)
<1> DEFINE s == AtDef(st, reg, p, b)
           last == IF b[reg] \in st.call_in THEN st.call_pos ELSE NO_USE
           e == LiveRange(p, last, reg, 0, <<>>)
<1>0. st \in Walks(R) /\ st.call_pos \in Int
  BY Walking DEF Shape
<1>1. CASE reg \in DOMAIN st.last_use
  <2>1. s = FinalizeAll(st, {reg}, p)
    BY <1>1 DEF AtDef, finalize_lr
  <2>2. p + 1 \in Int /\ p < p + 1 /\ p <= AFTER_BBL /\ p \in Int /\ {reg} \subseteq DOMAIN st.last_use
    BY <1>1 DEF AFTER_BBL
  <2>3. Shape(s, R, p + 1, p + 1) /\ s.call_pos = st.call_pos /\ s.call_in = st.call_in
    BY <2>1, <2>2, Finalizing
  <2> QED
    BY <2>3 DEF CallAhead
<1>2. CASE reg \notin DOMAIN st.last_use
  <2>1. s = [st EXCEPT !.out = Append(st.out, e)]
    BY <1>0, <1>2 DEF AtDef, Walks
  <2>2. last \in Int /\ p < last
    BY <1>0 DEF CallAhead, NO_USE, AFTER_BBL
  <2>3. ~is_use_lr(e)
    BY PinnedAssumption DEF is_use_lr, LiveRange
  <2> HIDE DEF last
  <2>4. e \in Plain /\ e.def = p /\ e.last = last /\ e.reg = reg
    BY <2>2 DEF LiveRange, Plain
  <2> HIDE DEF e
  <2>5. Entry(st.out, e, R, p + 1)
    BY <2>2, <2>3, <2>4 DEF Entry, AFTER_BBL
  <2> DEFINE out == Append(st.out, e)
  <2>6. /\ out \in Seq(Plain) /\ Entries(out, R, p + 1) /\ OneUse(out)
        /\ \A n, r : IsOpen(st.out, n, r, p + 1) => IsOpen(out, n, r, p + 1)
    <3>1. p + 1 \in Int /\ p + 1 <= p + 1
      OBVIOUS
    <3>2. /\ Shape(st, R, p + 1, p + 1) /\ R \subseteq Register /\ p + 1 \in Int /\ e \in Plain
          /\ Entry(st.out, e, R, p + 1) /\ ~is_use_lr(e) /\ out = Append(st.out, e)
      BY <2>3, <2>4, <2>5
    <3> HIDE DEF out
    <3>3. Extended(st.out, out, e, R, p + 1, p + 1)
      BY ONLY <3>1, <3>2, Appending
    <3> QED
      BY <3>3 DEF Extended
  <2>7. s = [st EXCEPT !.out = out]
    BY <2>1
  <2> HIDE DEF out, s
  <2>8. /\ s \in Walks(R) /\ s.out = out /\ s.last_use = st.last_use
        /\ s.call_pos = st.call_pos /\ s.call_in = st.call_in
    BY <1>0, <2>6, <2>7 DEF Walks
  <2> QED
    BY <2>6, <2>8 DEF Shape, CallAhead, s
<1> QED
  BY <1>1, <1>2

Noted(st, s, R, p, reg) ==
  /\ Shape(s, R, p, p + 1) /\ CallAhead(s, p - 1)
  /\ DOMAIN s.last_use = DOMAIN st.last_use \cup {reg}

(* AtUse: the register has an open range afterwards. *)
LEMMA Using ==
  ASSUME NEW R, R \subseteq Register, NEW st, NEW p \in Nat,
         Shape(st, R, p, p + 1), CallAhead(st, p - 1), NEW reg \in R
  PROVE  Noted(st, AtUse(st, reg, p), R, p, reg)
<1> DEFINE s == AtUse(st, reg, p)
           t == st.last_use[reg]
           out == [st.out EXCEPT ![t] = [st.out[t] EXCEPT !.num_uses = st.out[t].num_uses + 1]]
<1>1. CASE reg \notin DOMAIN st.last_use
  <2>1. s = initialize_lr(st, p, reg)
    BY <1>1 DEF AtUse
  <2>2. p \in Int /\ p + 1 \in Int /\ p <= p /\ 0 <= p
    OBVIOUS
  <2>3. /\ Shape(s, R, p, p + 1) /\ s.call_pos = st.call_pos /\ s.call_in = st.call_in
        /\ DOMAIN s.last_use = DOMAIN st.last_use \cup {reg}
    <3> DEFINE t2 == initialize_lr(st, p, reg)
    <3>1. Opened(st, t2, R, p, p + 1, reg)
      BY <2>2, Opening
    <3> HIDE DEF s, t2
    <3> QED
      BY <2>1, <3>1 DEF t2, Opened
  <2> QED
    BY <2>3 DEF CallAhead, Noted
<1>2. CASE reg \in DOMAIN st.last_use
  <2>0. /\ st \in Walks(R) /\ st.out \in Seq(Plain) /\ Len(st.out) \in Nat
        /\ DOMAIN st.out = 1 .. Len(st.out)
        /\ \A n \in 1 .. Len(st.out) : st.out[n] \in Plain
    BY Walking DEF Shape
  <2>1. s = [st EXCEPT !.out = out]
    <3>1. s = [st EXCEPT !.out[t].num_uses = @ + 1]
      BY <1>2 DEF AtUse
    <3> QED
      BY <2>0, <3>1 DEF Walks
  <2>2. t \in 1 .. Len(st.out)
    BY <1>2 DEF Shape, IsOpen
  <2> HIDE DEF t
  <2>3. \A n \in 1 .. Len(st.out) : out[n] = IF n = t THEN [st.out[t] EXCEPT !.num_uses = st.out[t].num_uses + 1]
                                             ELSE st.out[n]
    BY <2>0, <2>2
  <2>4. [st.out[t] EXCEPT !.num_uses = st.out[t].num_uses + 1] \in Plain
    <3> DEFINE e == st.out[t]
    <3>1. e \in Plain
      BY <2>0, <2>2
    <3> HIDE DEF e
    <3> DEFINE x == e.num_uses + 1
    <3>3. x \in Nat
      BY <3>1 DEF Plain
    <3> HIDE DEF x
    <3>4. [e EXCEPT !.num_uses = x] \in Plain
      BY <3>1, <3>3 DEF Plain
    <3>2. [e EXCEPT !.num_uses = e.num_uses + 1] \in Plain
      BY <3>4 DEF x
    <3> QED
      BY <3>2 DEF e
  <2>5. out \in Seq(Plain) /\ Len(out) = Len(st.out)
    BY <2>0, <2>2, <2>4
  <2> HIDE DEF out
  <2>6. \A n \in 1 .. Len(st.out) :
          /\ out[n].def = st.out[n].def /\ out[n].last = st.out[n].last
          /\ out[n].reg = st.out[n].reg /\ out[n].uses = st.out[n].uses
    BY <2>0, <2>2, <2>3 DEF Plain
  <2>7. \A n \in 1 .. Len(st.out) : is_use_lr(out[n]) <=> is_use_lr(st.out[n])
    BY <2>6 DEF is_use_lr
  <2>8. Entries(st.out, R, p + 1) /\ OneUse(st.out)
    BY DEF Shape
  <2>9. \A n, x : Target(st.out, n, x) => Target(out, n, x)
    BY <2>5, <2>6, <2>7 DEF Target
  <2>10. Entries(out, R, p + 1)
    <3> SUFFICES ASSUME NEW n \in 1 .. Len(st.out)
                 PROVE  Entry(out, out[n], R, p + 1)
      BY <2>5 DEF Entries
    <3>1. Entry(st.out, st.out[n], R, p + 1)
      BY <2>8 DEF Entries
    <3>2. Targets(st.out, st.out[n].uses, st.out[n].def) => Targets(out, out[n].uses, out[n].def)
      BY <2>6, <2>9 DEF Targets
    <3> QED
      BY <2>6, <2>7, <3>1, <3>2 DEF Entry
  <2>11. OneUse(out)
    <3>1. \A n \in 1 .. Len(st.out) : /\ out[n].def = st.out[n].def
                                      /\ is_use_lr(out[n]) <=> is_use_lr(st.out[n])
      BY <2>6, <2>7
    <3> QED
      BY ONLY <2>5, <2>8, <3>1 DEF OneUse
  <2>12. \A n, r : IsOpen(st.out, n, r, p) => IsOpen(out, n, r, p)
    BY <2>5, <2>6 DEF IsOpen
  <2> HIDE DEF s
  <2>13. /\ s \in Walks(R) /\ s.out = out /\ s.last_use = st.last_use
         /\ s.call_pos = st.call_pos /\ s.call_in = st.call_in
    BY <2>0, <2>1, <2>5 DEF Walks
  <2> QED
    BY <1>2, <2>10, <2>11, <2>12, <2>13 DEF Shape, CallAhead, Noted, s
<1> QED
  BY <1>1, <1>2

(* The loop over the registers an instruction writes.                      *)
DefsStays(st, ins, pos, b, I) ==
  \A j \in 1 .. Len(ins.def) : \A v \in I[j - 1] : AtDef(v, ins.def[j], pos, b) \in I[j]

(* A family of sets that the rounds of AtDefs lead through holds its *)
(* result.                                                           *)
LEMMA DefsLoop ==
  ASSUME NEW st, NEW ins, ins.def \in Seq(Register), NEW pos, NEW b, NEW I, st \in I[0], DefsStays(st, ins, pos, b, I)
  PROVE  AtDefs(st, ins, pos, b) \in I[Len(ins.def)]
<1> DEFINE base == st
           seq == ins.def
           n == Len(seq)
           Rnd(v, e) == AtDef(v, e, pos, b)
           F(h) == [j \in 0 .. n |->
                      IF j = 0 THEN base
                      ELSE CHOOSE end \in {Rnd(mid, seq[j]) : mid \in {h[j - 1]}} : TRUE]
           fold == CHOOSE h : h = F(h)
           A == UNION {I[j] : j \in 0 .. n}
           step == [z \in (1 .. n) \X A |-> Rnd(z[2], seq[z[1]])]
<1>0. n \in Nat /\ base \in I[0]
  OBVIOUS
<1>1. \A j \in 1 .. n : \A v \in I[j - 1] : Rnd(v, seq[j]) \in I[j]
  BY DEF DefsStays
<1> HIDE DEF Rnd, seq, n, base
<1>2. \A j \in 0 .. n : I[j] \subseteq A
  OBVIOUS
<1>3. \A j \in 1 .. n : j - 1 \in 0 .. n /\ \A v \in I[j - 1] : step[<<j, v>>] = Rnd(v, seq[j])
  <2>1. \A j \in 1 .. n : j - 1 \in 0 .. n
    BY <1>0
  <2>2. \A j \in 1 .. n : \A v \in A : step[<<j, v>>] = Rnd(v, seq[j])
    OBVIOUS
  <2> HIDE DEF step
  <2> QED
    BY <1>2, <2>1, <2>2
<1> HIDE DEF step, A
<1>4. PICK g : g \in Loops(n, I, A, base, step)
  <2>1. Rounds(n, I, step) /\ Family(n, I, A)
    BY <1>1, <1>2, <1>3 DEF Rounds, Family
  <2> QED
    BY <1>0, <2>1, Looping
<1>5. ASSUME NEW j \in 1 .. n, NEW v
      PROVE  (CHOOSE end \in {Rnd(mid, seq[j]) : mid \in {v}} : TRUE) = Rnd(v, seq[j])
  OBVIOUS
<1>6. g = F(g)
  <2>1. \A j \in 1 .. n : g[j] = Rnd(g[j - 1], seq[j])
    BY <1>3, <1>4 DEF Loops
  <2> QED
    BY <1>4, <1>5, <2>1 DEF Loops
<1>7. fold = F(fold)
  <2> HIDE DEF F
  <2> QED
    BY <1>6, Zenon
<1>8. AtDefs(st, ins, pos, b) = fold[n]
  BY Zenon DEF AtDefs, FoldForward, Rnd, seq, n, base
<1> HIDE DEF fold
<1>9. fold[0] = base /\ \A j \in 1 .. n : fold[j] = Rnd(fold[j - 1], seq[j])
  BY <1>0, <1>5, <1>7
<1>10. \A j \in 0 .. n : fold[j] \in I[j]
  <2>1. fold[0] \in I[0]
    BY <1>0, <1>9
  <2>2. ASSUME NEW j \in 1 .. n, fold[j - 1] \in I[j - 1]
        PROVE  fold[j] \in I[j]
    BY <1>1, <1>9, <2>2
  <2> QED
    BY <1>0, <2>1, <2>2, Stays
<1>11. n \in 0 .. n
  BY <1>0
<1> QED
  BY <1>8, <1>10, <1>11 DEF n, seq

(* The loop over the registers an instruction reads.                       *)
UsesStays(st, ins, pos, I) ==
  \A j \in 1 .. Len(ins.use) : \A v \in I[j - 1] : AtUse(v, ins.use[j], pos) \in I[j]

(* The same for AtUses. *)
LEMMA UsesLoop ==
  ASSUME NEW st, NEW ins, ins.use \in Seq(Register), NEW pos, NEW I, st \in I[0], UsesStays(st, ins, pos, I)
  PROVE  AtUses(st, ins, pos) \in I[Len(ins.use)]
<1> DEFINE base == st
           seq == ins.use
           n == Len(seq)
           Rnd(v, e) == AtUse(v, e, pos)
           F(h) == [j \in 0 .. n |->
                      IF j = 0 THEN base
                      ELSE CHOOSE end \in {Rnd(mid, seq[j]) : mid \in {h[j - 1]}} : TRUE]
           fold == CHOOSE h : h = F(h)
           A == UNION {I[j] : j \in 0 .. n}
           step == [z \in (1 .. n) \X A |-> Rnd(z[2], seq[z[1]])]
<1>0. n \in Nat /\ base \in I[0]
  OBVIOUS
<1>1. \A j \in 1 .. n : \A v \in I[j - 1] : Rnd(v, seq[j]) \in I[j]
  BY DEF UsesStays
<1> HIDE DEF Rnd, seq, n, base
<1>2. \A j \in 0 .. n : I[j] \subseteq A
  OBVIOUS
<1>3. \A j \in 1 .. n : j - 1 \in 0 .. n /\ \A v \in I[j - 1] : step[<<j, v>>] = Rnd(v, seq[j])
  <2>1. \A j \in 1 .. n : j - 1 \in 0 .. n
    BY <1>0
  <2>2. \A j \in 1 .. n : \A v \in A : step[<<j, v>>] = Rnd(v, seq[j])
    OBVIOUS
  <2> HIDE DEF step
  <2> QED
    BY <1>2, <2>1, <2>2
<1> HIDE DEF step, A
<1>4. PICK g : g \in Loops(n, I, A, base, step)
  <2>1. Rounds(n, I, step) /\ Family(n, I, A)
    BY <1>1, <1>2, <1>3 DEF Rounds, Family
  <2> QED
    BY <1>0, <2>1, Looping
<1>5. ASSUME NEW j \in 1 .. n, NEW v
      PROVE  (CHOOSE end \in {Rnd(mid, seq[j]) : mid \in {v}} : TRUE) = Rnd(v, seq[j])
  OBVIOUS
<1>6. g = F(g)
  <2>1. \A j \in 1 .. n : g[j] = Rnd(g[j - 1], seq[j])
    BY <1>3, <1>4 DEF Loops
  <2> QED
    BY <1>4, <1>5, <2>1 DEF Loops
<1>7. fold = F(fold)
  <2> HIDE DEF F
  <2> QED
    BY <1>6, Zenon
<1>8. AtUses(st, ins, pos) = fold[n]
  BY Zenon DEF AtUses, FoldForward, Rnd, seq, n, base
<1> HIDE DEF fold
<1>9. fold[0] = base /\ \A j \in 1 .. n : fold[j] = Rnd(fold[j - 1], seq[j])
  BY <1>0, <1>5, <1>7
<1>10. \A j \in 0 .. n : fold[j] \in I[j]
  <2>1. fold[0] \in I[0]
    BY <1>0, <1>9
  <2>2. ASSUME NEW j \in 1 .. n, fold[j - 1] \in I[j - 1]
        PROVE  fold[j] \in I[j]
    BY <1>1, <1>9, <2>2
  <2> QED
    BY <1>0, <2>1, <2>2, Stays
<1>11. n \in 0 .. n
  BY <1>0
<1> QED
  BY <1>8, <1>10, <1>11 DEF n, seq

(* The loop that collects the ranges it reads.                             *)
UsedStays(st, ins, I) ==
  \A j \in 1 .. Len(ins.use) : \A v \in I[j - 1] : AddUsed(v, st.last_use[ins.use[j]]) \in I[j]

(* The same for UsedRanges. *)
LEMMA UsedLoop ==
  ASSUME NEW st, NEW ins, ins.use \in Seq(Register), NEW I, <<>> \in I[0], UsedStays(st, ins, I)
  PROVE  UsedRanges(st, ins) \in I[Len(ins.use)]
<1> DEFINE base == <<>>
           seq == ins.use
           n == Len(seq)
           Rnd(v, e) == AddUsed(v, st.last_use[e])
           F(h) == [j \in 0 .. n |->
                      IF j = 0 THEN base
                      ELSE CHOOSE end \in {Rnd(mid, seq[j]) : mid \in {h[j - 1]}} : TRUE]
           fold == CHOOSE h : h = F(h)
           A == UNION {I[j] : j \in 0 .. n}
           step == [z \in (1 .. n) \X A |-> Rnd(z[2], seq[z[1]])]
<1>0. n \in Nat /\ base \in I[0]
  OBVIOUS
<1>1. \A j \in 1 .. n : \A v \in I[j - 1] : Rnd(v, seq[j]) \in I[j]
  BY DEF UsedStays
<1> HIDE DEF Rnd, seq, n, base
<1>2. \A j \in 0 .. n : I[j] \subseteq A
  OBVIOUS
<1>3. \A j \in 1 .. n : j - 1 \in 0 .. n /\ \A v \in I[j - 1] : step[<<j, v>>] = Rnd(v, seq[j])
  <2>1. \A j \in 1 .. n : j - 1 \in 0 .. n
    BY <1>0
  <2>2. \A j \in 1 .. n : \A v \in A : step[<<j, v>>] = Rnd(v, seq[j])
    OBVIOUS
  <2> HIDE DEF step
  <2> QED
    BY <1>2, <2>1, <2>2
<1> HIDE DEF step, A
<1>4. PICK g : g \in Loops(n, I, A, base, step)
  <2>1. Rounds(n, I, step) /\ Family(n, I, A)
    BY <1>1, <1>2, <1>3 DEF Rounds, Family
  <2> QED
    BY <1>0, <2>1, Looping
<1>5. ASSUME NEW j \in 1 .. n, NEW v
      PROVE  (CHOOSE end \in {Rnd(mid, seq[j]) : mid \in {v}} : TRUE) = Rnd(v, seq[j])
  OBVIOUS
<1>6. g = F(g)
  <2>1. \A j \in 1 .. n : g[j] = Rnd(g[j - 1], seq[j])
    BY <1>3, <1>4 DEF Loops
  <2> QED
    BY <1>4, <1>5, <2>1 DEF Loops
<1>7. fold = F(fold)
  <2> HIDE DEF F
  <2> QED
    BY <1>6, Zenon
<1>8. UsedRanges(st, ins) = fold[n]
  BY Zenon DEF UsedRanges, FoldForward, Rnd, seq, n, base
<1> HIDE DEF fold
<1>9. fold[0] = base /\ \A j \in 1 .. n : fold[j] = Rnd(fold[j - 1], seq[j])
  BY <1>0, <1>5, <1>7
<1>10. \A j \in 0 .. n : fold[j] \in I[j]
  <2>1. fold[0] \in I[0]
    BY <1>0, <1>9
  <2>2. ASSUME NEW j \in 1 .. n, fold[j - 1] \in I[j - 1]
        PROVE  fold[j] \in I[j]
    BY <1>1, <1>9, <2>2
  <2> QED
    BY <1>0, <2>1, <2>2, Stays
<1>11. n \in 0 .. n
  BY <1>0
<1> QED
  BY <1>8, <1>10, <1>11 DEF n, seq

(* The loop over the registers that are live at the end of the bbl.        *)
PastBblStays(outs, I) ==
  \A j \in 1 .. Len(outs) : \A v \in I[j - 1] : initialize_lr(v, AFTER_BBL, outs[j]) \in I[j]

(* The same for PastBbl. *)
LEMMA PastBblLoop ==
  ASSUME NEW outs, outs \in Seq(Register),
         NEW st, st = [out |-> <<>>, last_use |-> <<>>, call_pos |-> -1, call_in |-> {}], 
         NEW I, st \in I[0], PastBblStays(outs, I)
  PROVE  PastBbl(outs) \in I[Len(outs)]
<1> DEFINE base == st
           seq == outs
           n == Len(seq)
           Rnd(v, e) == initialize_lr(v, AFTER_BBL, e)
           F(h) == [j \in 0 .. n |->
                      IF j = 0 THEN base
                      ELSE CHOOSE end \in {Rnd(mid, seq[j]) : mid \in {h[j - 1]}} : TRUE]
           fold == CHOOSE h : h = F(h)
           A == UNION {I[j] : j \in 0 .. n}
           step == [z \in (1 .. n) \X A |-> Rnd(z[2], seq[z[1]])]
<1>0. n \in Nat /\ base \in I[0]
  OBVIOUS
<1>1. \A j \in 1 .. n : \A v \in I[j - 1] : Rnd(v, seq[j]) \in I[j]
  BY DEF PastBblStays
<1> HIDE DEF Rnd, seq, n, base
<1>2. \A j \in 0 .. n : I[j] \subseteq A
  OBVIOUS
<1>3. \A j \in 1 .. n : j - 1 \in 0 .. n /\ \A v \in I[j - 1] : step[<<j, v>>] = Rnd(v, seq[j])
  <2>1. \A j \in 1 .. n : j - 1 \in 0 .. n
    BY <1>0
  <2>2. \A j \in 1 .. n : \A v \in A : step[<<j, v>>] = Rnd(v, seq[j])
    OBVIOUS
  <2> HIDE DEF step
  <2> QED
    BY <1>2, <2>1, <2>2
<1> HIDE DEF step, A
<1>4. PICK g : g \in Loops(n, I, A, base, step)
  <2>1. Rounds(n, I, step) /\ Family(n, I, A)
    BY <1>1, <1>2, <1>3 DEF Rounds, Family
  <2> QED
    BY <1>0, <2>1, Looping
<1>5. ASSUME NEW j \in 1 .. n, NEW v
      PROVE  (CHOOSE end \in {Rnd(mid, seq[j]) : mid \in {v}} : TRUE) = Rnd(v, seq[j])
  OBVIOUS
<1>6. g = F(g)
  <2>1. \A j \in 1 .. n : g[j] = Rnd(g[j - 1], seq[j])
    BY <1>3, <1>4 DEF Loops
  <2> QED
    BY <1>4, <1>5, <2>1 DEF Loops
<1>7. fold = F(fold)
  <2> HIDE DEF F
  <2> QED
    BY <1>6, Zenon
<1>8. PastBbl(outs) = fold[n]
  BY Zenon DEF PastBbl, FoldForward, Rnd, seq, n, base
<1> HIDE DEF fold
<1>9. fold[0] = base /\ \A j \in 1 .. n : fold[j] = Rnd(fold[j - 1], seq[j])
  BY <1>0, <1>5, <1>7
<1>10. \A j \in 0 .. n : fold[j] \in I[j]
  <2>1. fold[0] \in I[0]
    BY <1>0, <1>9
  <2>2. ASSUME NEW j \in 1 .. n, fold[j - 1] \in I[j - 1]
        PROVE  fold[j] \in I[j]
    BY <1>1, <1>9, <2>2
  <2> QED
    BY <1>0, <2>1, <2>2, Stays
<1>11. n \in 0 .. n
  BY <1>0
<1> QED
  BY <1>8, <1>10, <1>11 DEF n, seq

(* The walk over the instructions, last one first.                         *)
WalkStays(code, st, b, I) ==
  \A j \in 1 .. Len(Reverse([k \in 1 .. Len(code) |-> k])) : \A v \in I[j - 1] : AtIns(v, code[Reverse([k \in 1 .. Len(code) |-> k])[j]], Reverse([k \in 1 .. Len(code) |-> k])[j] - 1, b, FunOut) \in I[j]

(* The same for WalkBack. *)
LEMMA WalkLoop ==
  ASSUME NEW code, Len(code) \in Nat, NEW st, NEW b, NEW I, st \in I[0], WalkStays(code, st, b, I)
  PROVE  WalkBack(code, st, b, FunOut) \in I[Len(Reverse([k \in 1 .. Len(code) |-> k]))]
<1> DEFINE base == st
           seq == Reverse([k \in 1 .. Len(code) |-> k])
           n == Len(seq)
           Rnd(v, e) == AtIns(v, code[e], e - 1, b, FunOut)
           F(h) == [j \in 0 .. n |->
                      IF j = 0 THEN base
                      ELSE CHOOSE end \in {Rnd(mid, seq[j]) : mid \in {h[j - 1]}} : TRUE]
           fold == CHOOSE h : h = F(h)
           A == UNION {I[j] : j \in 0 .. n}
           step == [z \in (1 .. n) \X A |-> Rnd(z[2], seq[z[1]])]
<1>0. n \in Nat /\ base \in I[0]
  OBVIOUS
<1>1. \A j \in 1 .. n : \A v \in I[j - 1] : Rnd(v, seq[j]) \in I[j]
  BY DEF WalkStays
<1> HIDE DEF Rnd, seq, n, base
<1>2. \A j \in 0 .. n : I[j] \subseteq A
  OBVIOUS
<1>3. \A j \in 1 .. n : j - 1 \in 0 .. n /\ \A v \in I[j - 1] : step[<<j, v>>] = Rnd(v, seq[j])
  <2>1. \A j \in 1 .. n : j - 1 \in 0 .. n
    BY <1>0
  <2>2. \A j \in 1 .. n : \A v \in A : step[<<j, v>>] = Rnd(v, seq[j])
    OBVIOUS
  <2> HIDE DEF step
  <2> QED
    BY <1>2, <2>1, <2>2
<1> HIDE DEF step, A
<1>4. PICK g : g \in Loops(n, I, A, base, step)
  <2>1. Rounds(n, I, step) /\ Family(n, I, A)
    BY <1>1, <1>2, <1>3 DEF Rounds, Family
  <2> QED
    BY <1>0, <2>1, Looping
<1>5. ASSUME NEW j \in 1 .. n, NEW v
      PROVE  (CHOOSE end \in {Rnd(mid, seq[j]) : mid \in {v}} : TRUE) = Rnd(v, seq[j])
  OBVIOUS
<1>6. g = F(g)
  <2>1. \A j \in 1 .. n : g[j] = Rnd(g[j - 1], seq[j])
    BY <1>3, <1>4 DEF Loops
  <2> QED
    BY <1>4, <1>5, <2>1 DEF Loops
<1>7. fold = F(fold)
  <2> HIDE DEF F
  <2> QED
    BY <1>6, Zenon
<1>8. WalkBack(code, st, b, FunOut) = fold[n]
  BY Zenon DEF WalkBack, FoldBackward, FoldForward, Rnd, seq, n, base
<1> HIDE DEF fold
<1>9. fold[0] = base /\ \A j \in 1 .. n : fold[j] = Rnd(fold[j - 1], seq[j])
  BY <1>0, <1>5, <1>7
<1>10. \A j \in 0 .. n : fold[j] \in I[j]
  <2>1. fold[0] \in I[0]
    BY <1>0, <1>9
  <2>2. ASSUME NEW j \in 1 .. n, fold[j - 1] \in I[j - 1]
        PROVE  fold[j] \in I[j]
    BY <1>1, <1>9, <2>2
  <2> QED
    BY <1>0, <2>1, <2>2, Stays
<1>11. n \in 0 .. n
  BY <1>0
<1> QED
  BY <1>8, <1>10, <1>11 DEF n, seq

(* The loop over the operands of an instruction, last one first.           *)
OperandsStays(ops, spilled, I) ==
  \A j \in 1 .. Len(Reverse([m \in 1 .. Len(ops) |-> m])) : \A v \in I[j - 1] : (IF ops[Reverse([m \in 1 .. Len(ops) |-> m])[j]] \in spilled THEN Append(v, Reverse([m \in 1 .. Len(ops) |-> m])[j]) ELSE v) \in I[j]

(* The same for SpilledOperands. *)
LEMMA OperandsLoop ==
  ASSUME NEW ops, Len(ops) \in Nat, NEW spilled, NEW I, <<>> \in I[0], OperandsStays(ops, spilled, I)
  PROVE  SpilledOperands(ops, spilled) \in I[Len(Reverse([m \in 1 .. Len(ops) |-> m]))]
<1> DEFINE base == <<>>
           seq == Reverse([m \in 1 .. Len(ops) |-> m])
           n == Len(seq)
           Rnd(v, e) == (IF ops[e] \in spilled THEN Append(v, e) ELSE v)
           F(h) == [j \in 0 .. n |->
                      IF j = 0 THEN base
                      ELSE CHOOSE end \in {Rnd(mid, seq[j]) : mid \in {h[j - 1]}} : TRUE]
           fold == CHOOSE h : h = F(h)
           A == UNION {I[j] : j \in 0 .. n}
           step == [z \in (1 .. n) \X A |-> Rnd(z[2], seq[z[1]])]
<1>0. n \in Nat /\ base \in I[0]
  OBVIOUS
<1>1. \A j \in 1 .. n : \A v \in I[j - 1] : Rnd(v, seq[j]) \in I[j]
  BY DEF OperandsStays
<1> HIDE DEF Rnd, seq, n, base
<1>2. \A j \in 0 .. n : I[j] \subseteq A
  OBVIOUS
<1>3. \A j \in 1 .. n : j - 1 \in 0 .. n /\ \A v \in I[j - 1] : step[<<j, v>>] = Rnd(v, seq[j])
  <2>1. \A j \in 1 .. n : j - 1 \in 0 .. n
    BY <1>0
  <2>2. \A j \in 1 .. n : \A v \in A : step[<<j, v>>] = Rnd(v, seq[j])
    OBVIOUS
  <2> HIDE DEF step
  <2> QED
    BY <1>2, <2>1, <2>2
<1> HIDE DEF step, A
<1>4. PICK g : g \in Loops(n, I, A, base, step)
  <2>1. Rounds(n, I, step) /\ Family(n, I, A)
    BY <1>1, <1>2, <1>3 DEF Rounds, Family
  <2> QED
    BY <1>0, <2>1, Looping
<1>5. ASSUME NEW j \in 1 .. n, NEW v
      PROVE  (CHOOSE end \in {Rnd(mid, seq[j]) : mid \in {v}} : TRUE) = Rnd(v, seq[j])
  OBVIOUS
<1>6. g = F(g)
  <2>1. \A j \in 1 .. n : g[j] = Rnd(g[j - 1], seq[j])
    BY <1>3, <1>4 DEF Loops
  <2> QED
    BY <1>4, <1>5, <2>1 DEF Loops
<1>7. fold = F(fold)
  <2> HIDE DEF F
  <2> QED
    BY <1>6, Zenon
<1>8. SpilledOperands(ops, spilled) = fold[n]
  BY Zenon DEF SpilledOperands, FoldBackward, FoldForward, Rnd, seq, n, base
<1> HIDE DEF fold
<1>9. fold[0] = base /\ \A j \in 1 .. n : fold[j] = Rnd(fold[j - 1], seq[j])
  BY <1>0, <1>5, <1>7
<1>10. \A j \in 0 .. n : fold[j] \in I[j]
  <2>1. fold[0] \in I[0]
    BY <1>0, <1>9
  <2>2. ASSUME NEW j \in 1 .. n, fold[j - 1] \in I[j - 1]
        PROVE  fold[j] \in I[j]
    BY <1>1, <1>9, <2>2
  <2> QED
    BY <1>0, <2>1, <2>2, Stays
<1>11. n \in 0 .. n
  BY <1>0
<1> QED
  BY <1>8, <1>10, <1>11 DEF n, seq

(* An instruction, from the position behind it to its own.                 *)
LEMMA AtInstruction ==
  ASSUME NEW R, R \subseteq Register, NEW st, NEW p \in Nat, p < AFTER_BBL,
         Shape(st, R, p + 1, p + 1), CallAhead(st, p), NEW ins, Readable(ins, R), NEW b
  PROVE  Shape(AtIns(st, ins, p, b, FunOut), R, p, p)
         /\ CallAhead(AtIns(st, ins, p, b, FunOut), p - 1)
<1> DEFINE s1 == AtCallOrRet(st, ins, p, b, FunOut)
           s2 == AtDefs(s1, ins, p, b)
           s3 == AtUses(s2, ins, p)
           s == AtIns(st, ins, p, b, FunOut)
           used == UsedRanges(s3, ins)
           e == LiveRange(p, p, NoReg, 0, used)
<1>0. /\ ins.def \in Seq(R) /\ ins.use \in Seq(R) /\ (ins.op = "call" => ins.def = <<>>)
      /\ ins.def \in Seq(Register) /\ ins.use \in Seq(Register)
      /\ p \in Int /\ p + 1 \in Int /\ p - 1 \in Int
  BY DEF Readable
<1>1. s = IF ins.use = <<>> THEN s3 ELSE [s3 EXCEPT !.out = Append(@, e)]
  BY DEF AtIns
<1> HIDE DEF s
<1>2. Shape(s1, R, p + 1, p + 1) /\ CallAhead(s1, p - 1) /\ (ins.op # "call" => CallAhead(s1, p))
  BY Calling
<1> HIDE DEF s1
<1>3. Shape(s2, R, p + 1, p + 1) /\ CallAhead(s2, p - 1)
  <2> DEFINE A == {v \in Walks(R) : /\ Shape(v, R, p + 1, p + 1) /\ CallAhead(v, p - 1)
                                    /\ ins.op # "call" => CallAhead(v, p)}
             I == [j \in 0 .. Len(ins.def) |-> A]
  <2>1. s1 \in I[0]
    BY <1>0, <1>2 DEF Shape
  <2>2. ASSUME NEW j \in 1 .. Len(ins.def), NEW v \in A
        PROVE  AtDef(v, ins.def[j], p, b) \in A
    <3>1. ins.op # "call" /\ ins.def[j] \in R
      BY <1>0
    <3> DEFINE t == AtDef(v, ins.def[j], p, b)
    <3>2. Shape(t, R, p + 1, p + 1) /\ CallAhead(t, p)
      BY <2>2, <3>1, Defining
    <3> HIDE DEF t
    <3>3. CallAhead(t, p - 1) /\ t \in Walks(R)
      <4>1. t \in Walks(R)
        BY <3>2 DEF Shape
      <4>2. t.call_pos \in Int
        BY <4>1 DEF Walks
      <4> QED
        BY <3>2, <4>1, <4>2 DEF CallAhead
    <3> QED
      BY <3>2, <3>3 DEF t
  <2>3. DefsStays(s1, ins, p, b, I)
    <3>1. \A j \in 1 .. Len(ins.def) : j - 1 \in 0 .. Len(ins.def) /\ j \in 0 .. Len(ins.def)
      BY <1>0
    <3> HIDE DEF A
    <3> QED
      BY <2>2, <3>1 DEF DefsStays
  <2>4. s2 \in I[Len(ins.def)]
    <3> HIDE DEF I
    <3> QED
      BY <1>0, <2>1, <2>3, DefsLoop
  <2>5. s2 \in A
    BY <1>0, <2>4
  <2> QED
    BY <2>5
<1> HIDE DEF s2
<1>4. /\ Shape(s3, R, p, p + 1) /\ CallAhead(s3, p - 1)
      /\ \A k \in 1 .. Len(ins.use) : ins.use[k] \in DOMAIN s3.last_use
  <2> DEFINE I == [j \in 0 .. Len(ins.use) |->
                     {v \in Walks(R) : /\ Shape(v, R, p, p + 1) /\ CallAhead(v, p - 1)
                                       /\ \A k \in 1 .. j : ins.use[k] \in DOMAIN v.last_use}]
  <2>1. s2 \in I[0]
    <3>1. p <= p + 1 /\ p + 1 <= p + 1
      OBVIOUS
    <3>2. Shape(s2, R, p, p + 1)
      BY <1>0, <1>3, <3>1, Relaxing
    <3> QED
      BY <1>0, <1>3, <3>2 DEF Shape
  <2>2. ASSUME NEW j \in 1 .. Len(ins.use), NEW v \in I[j - 1]
        PROVE  AtUse(v, ins.use[j], p) \in I[j]
    <3> DEFINE t == AtUse(v, ins.use[j], p)
    <3>1. ins.use[j] \in R /\ j - 1 \in 0 .. Len(ins.use) /\ j \in 0 .. Len(ins.use)
      BY <1>0
    <3>2. /\ Shape(v, R, p, p + 1) /\ CallAhead(v, p - 1)
          /\ \A k \in 1 .. j - 1 : ins.use[k] \in DOMAIN v.last_use
      BY <3>1
    <3>3. /\ Shape(t, R, p, p + 1) /\ CallAhead(t, p - 1)
          /\ DOMAIN t.last_use = DOMAIN v.last_use \cup {ins.use[j]}
      <4> DEFINE reg == ins.use[j]
      <4>1. reg \in R /\ R \subseteq Register /\ p \in Nat
        BY <3>1
      <4> HIDE DEF reg
      <4>2. Noted(v, AtUse(v, reg, p), R, p, reg)
        BY ONLY <3>2, <4>1, Using
      <4> QED
        BY <4>2 DEF Noted, reg
    <3> HIDE DEF t
    <3>4. \A k \in 1 .. j : ins.use[k] \in DOMAIN t.last_use
      <4>1. \A k \in 1 .. j : k \in 1 .. j - 1 \/ k = j
        BY <3>1
      <4> QED
        BY <3>2, <3>3, <4>1
    <3>5. t \in Walks(R)
      BY <3>3 DEF Shape
    <3> QED
      BY <3>1, <3>3, <3>4, <3>5 DEF t
  <2>3. UsesStays(s2, ins, p, I)
    BY <2>2 DEF UsesStays
  <2>4. s3 \in I[Len(ins.use)]
    <3> HIDE DEF I
    <3> QED
      BY <1>0, <2>1, <2>3, UsesLoop
  <2>5. Len(ins.use) \in 0 .. Len(ins.use)
    BY <1>0
  <2> HIDE DEF s3
  <2> QED
    BY <2>4, <2>5
<1> HIDE DEF s3
<1>5. CASE ins.use = <<>>
  <2>1. p <= p /\ p <= p + 1
    OBVIOUS
  <2>2. Shape(s3, R, p, p)
    BY <1>0, <1>4, <2>1, Relaxing
  <2> QED
    BY <1>1, <1>4, <1>5, <2>2 DEF s
<1>6. CASE ins.use # <<>>
  <2>1. used \in Seq(Nat) /\ Targets(s3.out, used, p)
    <3> DEFINE A == {v \in Seq(Nat) : Targets(s3.out, v, p)}
               I == [j \in 0 .. Len(ins.use) |-> A]
    <3>1. <<>> \in I[0]
      <4>1. 0 \in 0 .. Len(ins.use) /\ <<>> \in Seq(Nat) /\ Targets(s3.out, <<>>, p)
        BY <1>0 DEF Targets
      <4> QED
        BY <4>1
    <3>2. ASSUME NEW j \in 1 .. Len(ins.use), NEW v \in A
          PROVE  AddUsed(v, s3.last_use[ins.use[j]]) \in A
      <4> DEFINE t == s3.last_use[ins.use[j]]
      <4>1. IsOpen(s3.out, t, ins.use[j], p) /\ ins.use[j] \in Register
        BY <1>0, <1>4 DEF Shape
      <4>2. t \in Nat /\ Target(s3.out, t, p)
        <5>1. ins.use[j] # NoReg
          BY <4>1, PinnedAssumption
        <5> HIDE DEF t
        <5>2. t \in 1 .. Len(s3.out) /\ s3.out[t].reg = ins.use[j] /\ s3.out[t].def = -1
          BY <4>1 DEF IsOpen
        <5>3. t \in Nat
          BY <5>2
        <5> QED
          BY <5>1, <5>2, <5>3 DEF Target, is_use_lr
      <4> HIDE DEF t
      <4>3. Append(v, t) \in Seq(Nat) /\ Targets(s3.out, Append(v, t), p)
        <5>1. \A k \in 1 .. Len(Append(v, t)) : Append(v, t)[k] = t \/ (k \in 1 .. Len(v) /\ Append(v, t)[k] = v[k])
          OBVIOUS
        <5> QED
          BY <4>2, <5>1 DEF Targets
      <4> QED
        BY <4>3 DEF AddUsed, t
    <3>3. UsedStays(s3, ins, I)
      <4>1. \A j \in 1 .. Len(ins.use) : j - 1 \in 0 .. Len(ins.use) /\ j \in 0 .. Len(ins.use)
        BY <1>0
      <4> HIDE DEF A
      <4> QED
        BY <3>2, <4>1 DEF UsedStays
    <3>4. used \in I[Len(ins.use)]
      <4> HIDE DEF I
      <4> QED
        BY <1>0, <3>1, <3>3, UsedLoop
    <3>5. used \in A
      BY <1>0, <3>4
    <3> QED
      BY <3>5
  <2> HIDE DEF used
  <2>2. e \in Plain /\ is_use_lr(e) /\ e.def = p /\ e.last = p /\ e.uses = used
    BY <2>1 DEF LiveRange, Plain, is_use_lr
  <2> HIDE DEF e
  <2>3. Entry(s3.out, e, R, p)
    BY <2>1, <2>2 DEF Entry, AFTER_BBL
  <2> DEFINE out == Append(s3.out, e)
  <2>4. /\ Shape(s3, R, p, p + 1) /\ R \subseteq Register /\ p + 1 \in Int /\ p \in Int
        /\ p <= p + 1 /\ e \in Plain /\ Entry(s3.out, e, R, p)
        /\ (is_use_lr(e) => e.def < p + 1) /\ e.def < p + 1 /\ out = Append(s3.out, e)
    BY <1>0, <1>4, <2>2, <2>3
  <2>5. s3 \in Walks(R) /\ s3.out \in Seq(Plain) /\ out \in Seq(Plain)
    BY <1>4, <2>2, Walking DEF Shape
  <2>6. s = [s3 EXCEPT !.out = out]
    BY <1>1, <1>6, <2>5 DEF Walks
  <2> HIDE DEF out
  <2>7. Extended(s3.out, out, e, R, p, p)
    BY ONLY <2>4, Appending
  <2>8. /\ Entries(out, R, p) /\ OneUse(out)
        /\ \A n, r : IsOpen(s3.out, n, r, p) => IsOpen(out, n, r, p)
    BY <2>7 DEF Extended
  <2>9. /\ s \in Walks(R) /\ s.out = out /\ s.last_use = s3.last_use
        /\ s.call_pos = s3.call_pos /\ s.call_in = s3.call_in
    BY <2>5, <2>6 DEF Walks
  <2> QED
    BY <1>4, <2>8, <2>9 DEF Shape, CallAhead, s
<1> QED
  BY <1>5, <1>6

(* The live ranges of a bbl are as the scan expects them.                  *)
CodeOk(code, R) == Len(code) \in Nat /\ Len(code) < AFTER_BBL /\ \A k \in 1 .. Len(code) : Readable(code[k], R)

(* Ranges start before they end, use entries name ranges that started *)
(* earlier, and no two use entries share a position.                  *)
LEMMA LiveRangesShape ==
  ASSUME NEW R, R \subseteq Register, NEW outs \in Seq(R), NEW code, CodeOk(code, R), NEW b
  PROVE  LET out == BblGetLiveRanges(code, outs, b, FunOut)
         IN out \in Seq(Plain) /\ Entries(out, R, 0) /\ OneUse(out)
<1> DEFINE empty == [out |-> <<>>, last_use |-> <<>>, call_pos |-> -1, call_in |-> {}]
           n == Len(code)
           start == PastBbl(outs)
           walked == WalkBack(code, start, b, FunOut)
<1>0. n \in Nat /\ n < AFTER_BBL /\ Len(outs) \in Nat
  BY DEF CodeOk
<1>1. Shape(start, R, n, n) /\ start.call_in = {}
  <2> DEFINE A == {v \in Walks(R) : Shape(v, R, n, n) /\ v.call_in = {}}
             I == [j \in 0 .. Len(outs) |-> A]
  <2>1. empty \in A
    <3>1. <<>> \in Partial(R) /\ DOMAIN <<>> = {}
      <4>1. <<>> \in [{} -> Nat]
        OBVIOUS
      <4> QED
        BY <4>1 DEF Partial
    <3>2. empty \in Walks(R)
      BY <3>1 DEF Walks, Calls
    <3>3. Shape(empty, R, n, n)
      BY <3>1, <3>2 DEF Shape, Entries, OneUse
    <3> QED
      BY <3>2, <3>3
  <2>2. ASSUME NEW j \in 1 .. Len(outs), NEW v \in A
        PROVE  initialize_lr(v, AFTER_BBL, outs[j]) \in A
    <3> DEFINE reg == outs[j]
               t == initialize_lr(v, AFTER_BBL, reg)
    <3>1. /\ reg \in R /\ n \in Int /\ AFTER_BBL \in Int /\ n <= AFTER_BBL /\ 0 <= AFTER_BBL
          /\ Shape(v, R, n, n) /\ R \subseteq Register
      BY <1>0 DEF AFTER_BBL
    <3> HIDE DEF reg, n, A
    <3>2. Opened(v, t, R, n, n, reg)
      BY ONLY <3>1, Opening
    <3> HIDE DEF t
    <3>3. Shape(t, R, n, n) /\ t.call_in = {} /\ t \in Walks(R)
      BY <2>2, <3>2 DEF Opened, Shape, A
    <3> QED
      BY <3>3 DEF A, reg, t
  <2>3. PastBblStays(outs, I)
    <3>1. \A j \in 1 .. Len(outs) : j - 1 \in 0 .. Len(outs) /\ j \in 0 .. Len(outs)
      BY <1>0
    <3> HIDE DEF A, empty
    <3> QED
      BY <2>2, <3>1 DEF PastBblStays
  <2>4. start \in I[Len(outs)]
    <3>1. empty \in I[0]
      BY <1>0, <2>1
    <3> HIDE DEF I
    <3> QED
      BY <2>3, <3>1, PastBblLoop
  <2>5. start \in A
    BY <1>0, <2>4
  <2> QED
    BY <2>5
<1> HIDE DEF start
<1>2. Shape(walked, R, 0, 0)
  <2> DEFINE rev == Reverse([k \in 1 .. n |-> k])
             I == [j \in 0 .. n |-> {v \in Walks(R) : Shape(v, R, n - j, n - j)
                                                      /\ CallAhead(v, (n - j) - 1)}]
  <2>0. Len(rev) = n /\ \A j \in 1 .. n : rev[j] = n - j + 1
    <3> DEFINE ks == [k \in 1 .. n |-> k]
    <3>1. ks \in Seq(Nat) /\ Len(ks) = n /\ \A k \in 1 .. n : ks[k] = k
      BY <1>0
    <3>2. rev = Reverse(ks)
      OBVIOUS
    <3> HIDE DEF ks, n, rev
    <3>4. Len(rev) = n /\ \A j \in 1 .. n : rev[j] = ks[n - j + 1]
      BY <3>1, <3>2, Reversing
    <3>3. \A j \in 1 .. n : n - j + 1 \in 1 .. n
      BY <1>0
    <3> QED
      BY <3>1, <3>3, <3>4
  <2> HIDE DEF rev
  <2>1. start \in I[0]
    <3>1. n - 0 = n /\ 0 \in 0 .. n
      BY <1>0
    <3>2. start \in Walks(R) /\ CallAhead(start, n - 1)
      BY <1>1 DEF Shape, CallAhead
    <3> QED
      BY <1>1, <3>1, <3>2
  <2>2. ASSUME NEW j \in 1 .. n, NEW v \in I[j - 1]
        PROVE  AtIns(v, code[rev[j]], rev[j] - 1, b, FunOut) \in I[j]
    <3> DEFINE p == n - j
               ins == code[rev[j]]
    <3>1. /\ j - 1 \in 0 .. n /\ j \in 0 .. n /\ p \in Nat /\ n - (j - 1) = p + 1
          /\ (n - (j - 1)) - 1 = p /\ rev[j] - 1 = p /\ p < AFTER_BBL /\ rev[j] \in 1 .. n
      <4>1. rev[j] = n - j + 1
        BY <2>0
      <4> DEFINE x == rev[j]
      <4> HIDE DEF n, x
      <4>2. n \in Nat /\ j \in 1 .. n /\ x = n - j + 1 /\ n < AFTER_BBL
        BY <1>0, <4>1 DEF x
      <4>3. x \in 1 .. n /\ x - 1 = n - j /\ n - j < AFTER_BBL
        BY <4>2 DEF AFTER_BBL
      <4> QED
        BY <4>2, <4>3 DEF x
    <3>2. Shape(v, R, p + 1, p + 1) /\ CallAhead(v, p)
      BY <3>1
    <3>3. Readable(ins, R)
      BY <3>1 DEF CodeOk
    <3> DEFINE t == AtIns(v, ins, p, b, FunOut)
    <3> HIDE DEF p, ins
    <3>4. Shape(t, R, p, p) /\ CallAhead(t, p - 1)
      BY <3>1, <3>2, <3>3, AtInstruction
    <3>5. t \in Walks(R)
      BY <3>4 DEF Shape
    <3> HIDE DEF t
    <3>6. t \in I[j]
      BY <3>1, <3>4, <3>5 DEF p
    <3> HIDE DEF I
    <3> QED
      BY <3>1, <3>6 DEF t, ins
  <2>3. WalkStays(code, start, b, I)
    <3> HIDE DEF I
    <3> QED
      BY <2>0, <2>2 DEF WalkStays, rev
  <2>4. walked \in I[n]
    <3>1. walked \in I[Len(rev)]
      <4> HIDE DEF I
      <4> QED
        BY <1>0, <2>1, <2>3, WalkLoop DEF rev
    <3> HIDE DEF I, rev
    <3> QED
      BY <2>0, <3>1
  <2>5. n \in 0 .. n /\ n - n = 0
    BY <1>0
  <2> HIDE DEF walked
  <2> QED
    BY <2>4, <2>5
<1> HIDE DEF walked
<1> DEFINE f == FinalizeAll(walked, DOMAIN walked.last_use, BEFORE_BBL)
<1>3. Shape(f, R, 0, 0)
  <2>1. BEFORE_BBL \in Int /\ BEFORE_BBL < 0 /\ BEFORE_BBL <= AFTER_BBL /\ 0 \in Int
    BY DEF BEFORE_BBL, AFTER_BBL
  <2> DEFINE regs == DOMAIN walked.last_use
             zero == 0
             p == BEFORE_BBL
  <2>2. regs \subseteq DOMAIN walked.last_use /\ Shape(walked, R, zero, zero) /\ zero \in Int
        /\ p \in Int /\ p < zero /\ p <= AFTER_BBL
    BY <1>2, <2>1
  <2> HIDE DEF regs, zero, p
  <2>3. Shape(FinalizeAll(walked, regs, p), R, zero, zero)
    BY <2>2, Finalizing
  <2> QED
    BY <2>3 DEF regs, zero, p
<1>4. BblGetLiveRanges(code, outs, b, FunOut) = f.out
  BY DEF BblGetLiveRanges, walked, start
<1> HIDE DEF f
<1> QED
  BY <1>3, <1>4, Walking DEF Shape


(* While nothing is spilled a use entry spills nothing.                    *)
LEMMA UseSpillsNothing ==
  ASSUME NEW st, NEW k \in 1 .. Len(st.lrs), st \in ScanState, WellFormed(st.lrs),
         InOrder(st.lrs, order), is_use_lr(st.lrs[order[k]]), Unspilled(st.lrs)
  PROVE  HandleUse(st, k).lrs = st.lrs
<1> DEFINE uses == st.lrs[order[k]].uses
           x == st.lrs[order[k]].def
           A == {st}
<1>1. uses \in Seq(Nat) /\ \A j \in 1 .. Len(uses) : uses[j] \in 1 .. Len(st.lrs)
  <2>1. order[k] \in 1 .. Len(st.lrs)
    BY Ordering
  <2>2. st.lrs[order[k]] \in RangeRec
    BY <2>1, Ordering
  <2>3. uses \in Seq(Nat)
    BY <2>2 DEF RangeRec
  <2>4. \A j \in 1 .. Len(uses) : uses[j] \in 1 .. Len(st.lrs)
    BY <2>1 DEF WellFormed
  <2> QED
    BY <2>3, <2>4
<1>2. LoadUses(st, uses, x, k) = st
  <2>1. LoadingStays(uses, x, k, A)
    <3>1. \A j \in 1 .. Len(uses) : st.lrs[uses[j]].cpu # Spill
      BY <1>1 DEF Unspilled
    <3> HIDE DEF uses
    <3> QED
      BY <3>1 DEF LoadingStays, LoadUse
  <2>2. LoadUses(st, uses, x, k) \in A
    <3> HIDE DEF uses
    <3>1. st \in A
      OBVIOUS
    <3> HIDE DEF A
    <3> QED
      BY <1>1, <2>1, <3>1, LoadLoop
  <2> QED
    BY <2>2
<1>3. HandleUse(st, k) = IF ~st.ok THEN st ELSE ReleaseScratch(EndRanges(st, uses, x))
  BY <1>2 DEF HandleUse
<1>4. EndRanges(st, uses, x) \in ScanState \/ EndRanges(st, uses, x).lrs = st.lrs
  BY DEF EndRanges, give_back, ScanState
<1>5. ReleaseScratch(EndRanges(st, uses, x)).lrs = st.lrs
  <2> HIDE DEF uses, x
  <2> DEFINE back == UNION {st.lrs[n].cpu : n \in {m \in ToSet(uses) : Ends(st.lrs[m], x)}}
  <2>1. EndRanges(st, uses, x) = [st EXCEPT !.free = @ \cup back]
    BY DEF EndRanges, give_back
  <2> HIDE DEF back
  <2> QED
    BY <2>1 DEF ReleaseScratch, ScanState
<1> QED
  BY <1>3, <1>5

(* Registers that are bound are machine registers.                         *)
Bound(b, R) == \A r \in R : b[r] \in (SUBSET Unit) \cup {NoCpuReg}

(* The ranges a scan starts from are well formed and none is spilled. *)
LEMMA RangesOk ==
  ASSUME NEW R, R \subseteq Register, LiveOut \in Seq(R), NEW code, CodeOk(code, R),
         NEW b, Bound(b, R)
  PROVE  WellFormed(RangesFor(code, b)) /\ Unspilled(RangesFor(code, b))
<1> DEFINE plain == BblGetLiveRanges(code, LiveOut, b, FunOut)
           bound(lr) == ~is_use_lr(lr) /\ b[lr.reg] # NoCpuReg
           mark(lr) == [def |-> lr.def, last |-> lr.last, reg |-> lr.reg,
                        uses |-> lr.uses, lac |-> lr.lac, pre |-> bound(lr),
                        cpu |-> IF bound(lr) THEN b[lr.reg] ELSE NoCpuReg]
           L == RangesFor(code, b)
           N == Len(plain)
<1>1. plain \in Seq(Plain) /\ Entries(plain, R, 0) /\ OneUse(plain)
  BY LiveRangesShape
<1>2. L = [n \in DOMAIN plain |-> mark(plain[n])]
  BY DEF RangesFor
<1> HIDE DEF plain, L
<1>3. N \in Nat /\ DOMAIN plain = 1 .. N /\ \A n \in 1 .. N : plain[n] \in Plain
  BY <1>1
<1>4. ASSUME NEW n \in 1 .. N
      PROVE  /\ L[n] \in RangeRec /\ L[n].def = plain[n].def /\ L[n].last = plain[n].last
             /\ L[n].reg = plain[n].reg /\ L[n].uses = plain[n].uses /\ L[n].cpu # Spill
             /\ L[n].pre => ~is_use_lr(plain[n]) /\ L[n].cpu \in SUBSET Unit
  <2> DEFINE lr == plain[n]
             c == IF bound(lr) THEN b[lr.reg] ELSE NoCpuReg
             pre == bound(lr)
  <2>1. lr \in Plain /\ (~is_use_lr(lr) => lr.reg \in R)
    BY <1>1, <1>3 DEF Entries, Entry
  <2> HIDE DEF lr
  <2>2. c \in (SUBSET Unit) \cup {NoCpuReg} /\ (pre => c \in SUBSET Unit) /\ pre \in BOOLEAN
        /\ (pre => ~is_use_lr(lr))
    BY <2>1 DEF Bound
  <2>3. c # Spill
    <3> HIDE DEF c
    <3> QED
      BY <2>2, CpuRegAssumption
  <2>4. L[n] = [def |-> lr.def, last |-> lr.last, reg |-> lr.reg,
                uses |-> lr.uses, lac |-> lr.lac, pre |-> pre, cpu |-> c]
    BY <1>2, <1>3 DEF lr
  <2> HIDE DEF c, pre
  <2>5. /\ L[n].def = lr.def /\ L[n].last = lr.last
        /\ L[n].reg = lr.reg /\ L[n].uses = lr.uses /\ L[n].cpu = c /\ L[n].pre = pre
    BY <2>4
  <2>6. L[n] \in RangeRec
    BY <2>1, <2>2, <2>4 DEF RangeRec, Plain
  <2> QED
    BY <2>2, <2>3, <2>5, <2>6 DEF lr
<1>5. L \in Seq(RangeRec) /\ Len(L) = N
  <2>1. L = [n \in 1 .. N |-> L[n]] /\ \A n \in 1 .. N : L[n] \in RangeRec
    BY <1>2, <1>3, <1>4
  <2> HIDE DEF N
  <2> QED
    BY <1>3, <2>1
<1>6. \A n \in 1 .. N : is_use_lr(L[n]) <=> is_use_lr(plain[n])
  BY <1>4 DEF is_use_lr
<1> HIDE DEF N
<1>7. ASSUME NEW n \in 1 .. N
      PROVE  /\ L[n].def <= AFTER_BBL
             /\ is_use_lr(L[n]) =>
                  /\ L[n].last = L[n].def /\ ~L[n].pre
                  /\ \A j \in 1 .. Len(L[n].uses) :
                       /\ L[n].uses[j] \in 1 .. N /\ ~is_use_lr(L[L[n].uses[j]])
                       /\ L[L[n].uses[j]].def < L[n].def
             /\ ~is_use_lr(L[n]) => L[n].def < L[n].last
             /\ L[n].pre => L[n].cpu \in SUBSET Unit
  <2>1. Entry(plain, plain[n], R, 0)
    BY <1>1 DEF Entries, N
  <2>2. is_use_lr(L[n]) =>
           \A j \in 1 .. Len(L[n].uses) :
             /\ L[n].uses[j] \in 1 .. N /\ ~is_use_lr(L[L[n].uses[j]])
             /\ L[L[n].uses[j]].def < L[n].def
    <3> SUFFICES ASSUME is_use_lr(L[n]), NEW j \in 1 .. Len(L[n].uses)
                 PROVE  /\ L[n].uses[j] \in 1 .. N /\ ~is_use_lr(L[L[n].uses[j]])
                        /\ L[L[n].uses[j]].def < L[n].def
      OBVIOUS
    <3>1. Target(plain, plain[n].uses[j], plain[n].def) /\ L[n].uses = plain[n].uses
          /\ L[n].def = plain[n].def
      BY <1>4, <1>6, <2>1 DEF Entry, Targets
    <3> DEFINE t == L[n].uses[j]
    <3>2. Target(plain, t, plain[n].def)
      BY <3>1
    <3> HIDE DEF t
    <3>3. t \in 1 .. N /\ ~is_use_lr(plain[t]) /\ plain[t].def < plain[n].def
      BY <3>2 DEF Target, N
    <3> QED
      BY <1>4, <1>6, <3>1, <3>3 DEF t
  <2> QED
    BY <1>4, <1>6, <2>1, <2>2 DEF Entry
<1>8. \A n, m \in 1 .. N :
        n # m /\ is_use_lr(L[n]) /\ is_use_lr(L[m]) => L[n].def # L[m].def
  BY <1>1, <1>4, <1>6 DEF OneUse, N
<1>9. WellFormed(L)
  BY <1>5, <1>7, <1>8 DEF WellFormed
<1>10. Unspilled(L)
  BY <1>4, <1>5 DEF Unspilled
<1> QED
  BY <1>9, <1>10 DEF L

(* The registers of a bbl are registers, and its instructions name no      *)
(* others.                                                                 *)
LEMMA RegistersOf ==
  ASSUME NEW code, CodeOk(code, Register), DOMAIN code = 1 .. Len(code)
  PROVE  /\ RegsOf(code) \subseteq Register /\ LiveOut \in Seq(RegsOf(code))
         /\ CodeOk(code, RegsOf(code))
<1> DEFINE R == RegsOf(code)
           N == Len(code)
<1>1. \A k \in 1 .. N : code[k].def \in Seq(Register) /\ code[k].use \in Seq(Register)
                        /\ code[k].cin \in SUBSET SUBSET Unit
                        /\ (code[k].op = "call" => code[k].def = <<>>)
  BY DEF CodeOk, Readable
<1>2. ToSet(LiveOut) \subseteq Register /\ LiveOut \in Seq(ToSet(LiveOut))
  <2>1. LiveOut \in Seq(Pinned) /\ Pinned \subseteq Register
    BY PinnedAssumption
  <2> QED
    BY <2>1 DEF ToSet
<1>3. ASSUME NEW k \in 1 .. N
      PROVE  /\ ToSet(code[k].def) \subseteq Register /\ ToSet(code[k].use) \subseteq Register
             /\ code[k].def \in Seq(ToSet(code[k].def)) /\ code[k].use \in Seq(ToSet(code[k].use))
  <2> DEFINE d == code[k].def
             u == code[k].use
  <2>1. d \in Seq(Register) /\ u \in Seq(Register)
    BY <1>1
  <2> HIDE DEF d, u
  <2>2. /\ ToSet(d) \subseteq Register /\ ToSet(u) \subseteq Register
        /\ d \in Seq(ToSet(d)) /\ u \in Seq(ToSet(u))
    BY <2>1 DEF ToSet
  <2> QED
    BY <2>2 DEF d, u
<1>4. R \subseteq Register /\ ToSet(LiveOut) \subseteq R
      /\ \A k \in 1 .. N : ToSet(code[k].def) \subseteq R /\ ToSet(code[k].use) \subseteq R
  BY <1>2, <1>3 DEF RegsOf
<1> HIDE DEF R
<1>5. LiveOut \in Seq(R)
  BY <1>2, <1>4
<1>6. ASSUME NEW k \in 1 .. N
      PROVE  Readable(code[k], R)
  <2> DEFINE d == code[k].def
             u == code[k].use
  <2>1. d \in Seq(ToSet(d)) /\ u \in Seq(ToSet(u)) /\ ToSet(d) \subseteq R /\ ToSet(u) \subseteq R
    BY <1>3, <1>4
  <2> HIDE DEF d, u
  <2>2. d \in Seq(R) /\ u \in Seq(R)
    BY <2>1
  <2> QED
    BY <1>1, <2>2 DEF Readable, d, u
<1>7. CodeOk(code, R)
  BY <1>6 DEF CodeOk
<1> QED
  BY <1>4, <1>5, <1>7 DEF R

(* The bodies the constants give are such bbls.                            *)
LEMMA BodiesOk ==
  ASSUME NEW code \in Bodies
  PROVE  /\ CodeOk(code, Register) /\ DOMAIN code = 1 .. Len(code)
         /\ Bound(Binding(code), RegsOf(code)) /\ DOMAIN Binding(code) = RegsOf(code)
<1>1. code \in Seq(Ins) /\ Len(code) * (MAX_OPERANDS + 1) < AFTER_BBL
      /\ \A k \in DOMAIN code : code[k].op = "call" => code[k].def = <<>>
  BY BodiesAssumption
<1>2. Len(code) \in Nat /\ DOMAIN code = 1 .. Len(code) /\ \A k \in 1 .. Len(code) : code[k] \in Ins
  BY <1>1
<1>3. Len(code) < AFTER_BBL
  BY <1>1, <1>2 DEF MAX_OPERANDS, AFTER_BBL
<1>4. ASSUME NEW k \in 1 .. Len(code)
      PROVE  Readable(code[k], Register)
  <2>1. code[k] \in Ins /\ (code[k].op = "call" => code[k].def = <<>>)
    BY <1>1, <1>2
  <2> QED
    BY <2>1 DEF Ins, Readable
<1>5. CodeOk(code, Register)
  BY <1>2, <1>3, <1>4 DEF CodeOk
<1>6. ASSUME NEW r \in RegsOf(code)
      PROVE  Binding(code)[r] \in (SUBSET Unit) \cup {NoCpuReg}
  <2>1. CASE r \in Pinned
    <3>1. r.kind \in DOMAIN CpuRegs
      BY <2>1, PinnedAssumption DEF Register
    <3> DEFINE rs == CpuRegs[r.kind]
    <3>2. rs \in Seq(SUBSET Unit) /\ PinnedTo[r] \in ToSet(rs)
      BY <2>1, <3>1, PinnedAssumption, CpuRegAssumption
    <3> HIDE DEF rs
    <3>3. PinnedTo[r] \in SUBSET Unit
      BY <3>2 DEF ToSet
    <3> QED
      BY <2>1, <3>3 DEF Binding
  <2>2. CASE r \notin Pinned
    BY <2>2 DEF Binding
  <2> QED
    BY <2>1, <2>2
<1> QED
  BY <1>2, <1>5, <1>6 DEF Bound, Binding


-----------------------------------------------------------------------------
(* The loads and stores around an instruction: one of each operand at most. *)
LEMMA SpilledList ==
  ASSUME NEW ops \in Seq(Register), NEW spilled
  PROVE  /\ SpilledOperands(ops, spilled) \in Seq(1 .. Len(ops))
         /\ Len(SpilledOperands(ops, spilled)) <= Len(ops)
<1> DEFINE N == Len(ops)
           ks == [m \in 1 .. N |-> m]
           rev == Reverse(ks)
           I == [j \in 0 .. N |-> {v \in Seq(1 .. N) : Len(v) <= j}]
<1>0. N \in Nat
  OBVIOUS
<1>1. Len(rev) = N /\ \A j \in 1 .. N : rev[j] \in 1 .. N
  <2>1. ks \in Seq(1 .. N) /\ Len(ks) = N
    <3> HIDE DEF N
    <3> QED
      BY <1>0
  <2>2. rev = Reverse(ks)
    OBVIOUS
  <2> HIDE DEF ks, rev, N
  <2>3. rev \in Seq(1 .. N) /\ Len(rev) = N
    BY <2>1, <2>2, Reversing
  <2> QED
    BY <2>3
<1>2. <<>> \in I[0]
  <2>1. 0 \in 0 .. N /\ <<>> \in Seq(1 .. N) /\ Len(<<>>) = 0
    BY <1>0
  <2> QED
    BY <2>1
<1>3. OperandsStays(ops, spilled, I)
  <2> HIDE DEF rev
  <2>1. ASSUME NEW j \in 1 .. N, NEW v \in I[j - 1]
        PROVE  (IF ops[rev[j]] \in spilled THEN Append(v, rev[j]) ELSE v) \in I[j]
    <3>1. j - 1 \in 0 .. N /\ j \in 0 .. N /\ rev[j] \in 1 .. N
      BY <1>0, <1>1
    <3>2. v \in Seq(1 .. N) /\ Len(v) <= j - 1
      BY <3>1
    <3> DEFINE e == rev[j]
    <3> HIDE DEF e, N
    <3>3. Append(v, e) \in Seq(1 .. N) /\ Len(Append(v, e)) = Len(v) + 1 /\ Len(v) \in Nat
      BY <3>1, <3>2 DEF e
    <3>4. Len(v) <= j /\ Len(Append(v, e)) <= j
      BY <3>1, <3>2, <3>3
    <3> QED
      BY <3>1, <3>2, <3>3, <3>4 DEF e
  <2> HIDE DEF I
  <2> QED
    BY <1>1, <2>1 DEF OperandsStays, rev
<1>4. SpilledOperands(ops, spilled) \in I[N]
  <2>1. SpilledOperands(ops, spilled) \in I[Len(rev)]
    <3> HIDE DEF I
    <3> QED
      BY <1>0, <1>2, <1>3, OperandsLoop
  <2> HIDE DEF I, rev
  <2> QED
    BY <1>1, <2>1
<1>5. N \in 0 .. N
  BY <1>0
<1> HIDE DEF N
<1> QED
  BY <1>4, <1>5 DEF N

(* InsSpillRegs makes at most one load or store for each operand, and *)
(* names registers only.                                              *)
LEMMA SpillingIns ==
  ASSUME NEW ins \in Ins, ins.op = "call" => ins.def = <<>>, NEW k \in Nat, NEW spilled,
         Len(ins.def) + Len(ins.use) <= MAX_OPERANDS
  PROVE  LET s == InsSpillRegs(ins, k, spilled)
         IN /\ s \in Seq(ToSet(s)) /\ Len(s) <= MAX_OPERANDS + 1
            /\ \A e \in ToSet(s) : Readable(e, Register)
<1> DEFINE scratch(r, n) == [name |-> <<k, n>>, kind |-> r.kind]
           place(seq, at) == [n \in DOMAIN seq |-> IF seq[n] \in spilled
                                                   THEN scratch(seq[n], at + n) ELSE seq[n]]
           mem(op, r, def, use) == [op |-> op, slot |-> r, id |-> 0, def |-> def, use |-> use,
                                    cin |-> {}, cout |-> {}]
           ld(n) == mem("ld", ins.use[n], <<scratch(ins.use[n], Len(ins.def) + n)>>, <<>>)
           st(n) == mem("st", ins.def[n], <<>>, <<scratch(ins.def[n], n)>>)
           uses == SpilledOperands(ins.use, spilled)
           defs == SpilledOperands(ins.def, spilled)
           mid == [ins EXCEPT !.use = place(ins.use, Len(ins.def)), !.def = place(ins.def, 0)]
           E == {e \in {ld(n) : n \in 1 .. Len(ins.use)} \cup {mid}
                       \cup {st(n) : n \in 1 .. Len(ins.def)} : Readable(e, Register)}
           s == InsSpillRegs(ins, k, spilled)
           loads == [m \in DOMAIN uses |-> ld(uses[m])]
           stores == [m \in DOMAIN defs |-> st(defs[m])]
<1>0. /\ ins.def \in Seq(Register) /\ ins.use \in Seq(Register) /\ ins.cin \in SUBSET SUBSET Unit
      /\ Len(ins.def) \in Nat /\ Len(ins.use) \in Nat
  BY DEF Ins
<1>1. ASSUME NEW r \in Register, NEW n \in Nat
      PROVE  scratch(r, n) \in Register
  <2>1. r.kind \in DOMAIN CpuRegs /\ <<k, n>> \in Nat \X Nat
    BY DEF Register
  <2> QED
    BY <2>1 DEF Register
<1>2. ASSUME NEW n \in 1 .. Len(ins.use)
      PROVE  Readable(ld(n), Register)
  <2>1. ins.use[n] \in Register /\ Len(ins.def) + n \in Nat
    BY <1>0
  <2> DEFINE x == scratch(ins.use[n], Len(ins.def) + n)
             e == ld(n)
  <2>2. x \in Register
    BY <1>1, <2>1
  <2>3. e.op = "ld" /\ e.def = <<x>> /\ e.use = <<>> /\ e.cin = {}
    OBVIOUS
  <2> HIDE DEF x, e
  <2> QED
    BY <2>2, <2>3 DEF Readable, e
<1>3. ASSUME NEW n \in 1 .. Len(ins.def)
      PROVE  Readable(st(n), Register)
  <2>1. ins.def[n] \in Register /\ n \in Nat
    BY <1>0
  <2> DEFINE x == scratch(ins.def[n], n)
             e == st(n)
  <2>2. x \in Register
    BY <1>1, <2>1
  <2>3. e.op = "st" /\ e.def = <<>> /\ e.use = <<x>> /\ e.cin = {}
    OBVIOUS
  <2> HIDE DEF x, e
  <2> QED
    BY <2>2, <2>3 DEF Readable, e
<1>4. ASSUME NEW seq \in Seq(Register), NEW at \in Nat
      PROVE  place(seq, at) \in Seq(Register) /\ Len(place(seq, at)) = Len(seq)
  <2>1. DOMAIN seq = 1 .. Len(seq) /\ Len(seq) \in Nat /\ \A n \in 1 .. Len(seq) : seq[n] \in Register
    OBVIOUS
  <2>2. \A n \in 1 .. Len(seq) : place(seq, at)[n] \in Register /\ at + n \in Nat
    BY <1>1, <2>1
  <2>3. place(seq, at) = [n \in 1 .. Len(seq) |-> place(seq, at)[n]]
    BY <2>1
  <2> HIDE DEF place
  <2> QED
    BY <2>1, <2>2, <2>3
<1>5. Readable(mid, Register)
  <2> DEFINE u == place(ins.use, Len(ins.def))
             d == place(ins.def, 0)
  <2>1. u \in Seq(Register) /\ d \in Seq(Register) /\ Len(d) = Len(ins.def)
    BY <1>0, <1>4
  <2>2. mid = [ins EXCEPT !.use = u, !.def = d]
    OBVIOUS
  <2> HIDE DEF mid, u, d
  <2>3. mid.op = ins.op /\ mid.cin = ins.cin /\ mid.use = u /\ mid.def = d
    BY <2>2 DEF Ins
  <2>4. ins.op = "call" => d = <<>>
    BY <2>1
  <2> QED
    BY <1>0, <2>1, <2>3, <2>4 DEF Readable
<1>6. /\ uses \in Seq(1 .. Len(ins.use)) /\ Len(uses) <= Len(ins.use) /\ Len(uses) \in Nat
      /\ defs \in Seq(1 .. Len(ins.def)) /\ Len(defs) <= Len(ins.def) /\ Len(defs) \in Nat
  <2>1. uses \in Seq(1 .. Len(ins.use)) /\ Len(uses) <= Len(ins.use)
    BY <1>0, SpilledList
  <2>2. defs \in Seq(1 .. Len(ins.def)) /\ Len(defs) <= Len(ins.def)
    BY <1>0, SpilledList
  <2> HIDE DEF uses, defs
  <2> QED
    BY <2>1, <2>2
<1>7. s = loads \o <<mid>> \o stores
  BY DEF InsSpillRegs
<1>8. \A n \in 1 .. Len(ins.use) : ld(n) \in E
  BY <1>2
<1>9. \A n \in 1 .. Len(ins.def) : st(n) \in E
  BY <1>3
<1>10. mid \in E
  BY <1>5
<1>11. \A e \in E : Readable(e, Register)
  OBVIOUS
<1> HIDE DEF E, s, uses, defs, mid, ld, st
<1>12. loads \in Seq(E) /\ Len(loads) = Len(uses)
  <2>1. DOMAIN uses = 1 .. Len(uses) /\ \A m \in 1 .. Len(uses) : uses[m] \in 1 .. Len(ins.use)
    BY <1>6
  <2> QED
    BY <1>6, <1>8, <2>1
<1>13. stores \in Seq(E) /\ Len(stores) = Len(defs)
  <2>1. DOMAIN defs = 1 .. Len(defs) /\ \A m \in 1 .. Len(defs) : defs[m] \in 1 .. Len(ins.def)
    BY <1>6
  <2> QED
    BY <1>6, <1>9, <2>1
<1> HIDE DEF loads, stores
<1>14. s \in Seq(E) /\ Len(s) = Len(uses) + 1 + Len(defs)
  <2> DEFINE left == loads \o <<mid>>
  <2>1. <<mid>> \in Seq(E) /\ Len(<<mid>>) = 1 /\ s = left \o stores
    BY <1>7, <1>10
  <2>2. left \in Seq(E) /\ Len(left) = Len(loads) + 1 /\ Len(loads) \in Nat
    BY <1>12, <2>1
  <2> HIDE DEF left
  <2>3. left \o stores \in Seq(E) /\ Len(left \o stores) = Len(left) + Len(stores)
    BY ONLY <1>13, <2>2
  <2> QED
    BY ONLY <1>12, <1>13, <2>1, <2>2, <2>3
<1>15. s \in Seq(ToSet(s)) /\ ToSet(s) \subseteq E
  BY <1>14 DEF ToSet
<1>16. Len(s) <= MAX_OPERANDS + 1
  <2>1. Len(ins.def) + Len(ins.use) <= MAX_OPERANDS
    OBVIOUS
  <2> DEFINE a == Len(uses)
             d == Len(defs)
             x == Len(ins.use)
             y == Len(ins.def)
  <2>2. /\ a \in Nat /\ d \in Nat /\ x \in Nat /\ y \in Nat /\ a <= x /\ d <= y
        /\ y + x <= MAX_OPERANDS /\ Len(s) = a + 1 + d
    BY <1>0, <1>6, <1>14, <2>1
  <2> HIDE DEF a, d, x, y
  <2>3. a + 1 + d <= MAX_OPERANDS + 1
    BY ONLY <2>2 DEF MAX_OPERANDS
  <2> QED
    BY ONLY <2>2, <2>3
<1> QED
  BY <1>11, <1>15, <1>16 DEF s

(* The rewritten bbl is again one whose ranges can be scanned. *)
LEMMA SpillingBbl ==
  ASSUME NEW code \in Bodies, NEW spilled
  PROVE  LET c == BblSpillRegs(code, spilled)
         IN CodeOk(c, Register) /\ DOMAIN c = 1 .. Len(c)
<1> DEFINE N == Len(code)
           seqs == [k \in DOMAIN code |-> InsSpillRegs(code[k], k, spilled)]
           S == UNION {ToSet(seqs[k]) : k \in 1 .. N}
           c == BblSpillRegs(code, spilled)
           m == MAX_OPERANDS + 1
<1>1. /\ N \in Nat /\ DOMAIN code = 1 .. N /\ N * m < AFTER_BBL /\ m \in Nat
      /\ \A k \in 1 .. N : /\ code[k] \in Ins /\ (code[k].op = "call" => code[k].def = <<>>)
                           /\ Len(code[k].def) + Len(code[k].use) <= MAX_OPERANDS
  <2>1. code \in Seq(Ins) /\ N * m < AFTER_BBL /\ m \in Nat
    <3>1. m \in Nat
      BY DEF MAX_OPERANDS
    <3> QED
      BY <3>1, BodiesAssumption
  <2>2. N \in Nat /\ DOMAIN code = 1 .. N /\ \A k \in 1 .. N : code[k] \in Ins
    BY <2>1
  <2> QED
    BY <2>1, <2>2, BodiesAssumption
<1>2. ASSUME NEW k \in 1 .. N
      PROVE  /\ seqs[k] \in Seq(ToSet(seqs[k])) /\ Len(seqs[k]) <= m
             /\ \A e \in ToSet(seqs[k]) : Readable(e, Register)
  <2> DEFINE ins == code[k]
  <2>1. /\ ins \in Ins /\ (ins.op = "call" => ins.def = <<>>) /\ k \in Nat
        /\ Len(ins.def) + Len(ins.use) <= MAX_OPERANDS
    <3> HIDE DEF N
    <3>1. k \in Nat
      BY <1>1
    <3> QED
      BY <1>1, <3>1
  <2>2. seqs[k] = InsSpillRegs(ins, k, spilled)
    BY <1>1
  <2> HIDE DEF ins, seqs
  <2> QED
    BY <2>1, <2>2, SpillingIns
<1>3. DOMAIN seqs = 1 .. N /\ Len(seqs) = N /\ (N = 0 => seqs = <<>>)
  <2> HIDE DEF N
  <2>1. seqs = [k \in 1 .. N |-> InsSpillRegs(code[k], k, spilled)]
    BY <1>1
  <2> HIDE DEF seqs
  <2> QED
    BY <1>1, <2>1
<1>4. c = FlattenSeq(seqs)
  BY DEF BblSpillRegs
<1> HIDE DEF seqs, c, m, N
<1>5. \A k \in 1 .. N : seqs[k] \in Seq(S) /\ Len(seqs[k]) <= m
  <2>1. \A k \in 1 .. N : ToSet(seqs[k]) \subseteq S
    OBVIOUS
  <2> HIDE DEF S
  <2> QED
    BY <1>2, <2>1
<1>6. \A e \in S : Readable(e, Register)
  BY <1>2
<1> HIDE DEF S
<1>7. c \in Seq(S) /\ Len(c) <= N * m
  BY <1>1, <1>3, <1>4, <1>5, Flattening
<1>8. Len(c) \in Nat /\ DOMAIN c = 1 .. Len(c) /\ \A k \in 1 .. Len(c) : c[k] \in S
  BY <1>7
<1>9. Len(c) < AFTER_BBL
  <2>1. N * m \in Int
    BY <1>1
  <2> QED
    BY <1>1, <1>7, <1>8, <2>1 DEF AFTER_BBL
<1> QED
  BY <1>6, <1>8, <1>9 DEF CodeOk, c

-----------------------------------------------------------------------------
(* The invariant of the scan: the list is sound up to the next range.      *)
Scanning ==
  /\ WellFormed(lrs) /\ InOrder(lrs, order)
  /\ i \in 1 .. Len(lrs) + 1 /\ avail \in SUBSET Unit
  /\ Sound(lrs, order, avail, i, NextPosition(lrs, order, i))

(* In the first round the bbl is the one that came, in the second nothing *)
(* is spilled.                                                            *)
ScanInv ==
  /\ round \in {1, 2}
  /\ pc = "scan" =>
       /\ Scanning
       /\ round = 1 => source \in Bodies /\ bbl = source /\ cpu = Binding(source)
       /\ round = 2 => Unspilled(lrs)

(* A new scan starts with all units free and no range handled.             *)
LEMMA Starting ==
  ASSUME NEW L, WellFormed(L)
  PROVE  /\ InOrder(L, Sorted(L)) /\ 1 \in 1 .. Len(L) + 1 /\ Unit \in SUBSET Unit
         /\ Sound(L, Sorted(L), Unit, 1, NextPosition(L, Sorted(L), 1))
<1>1. InOrder(L, Sorted(L))
  <2>1. L \in Seq(RangeRec) /\ Len(L) \in Nat /\ DOMAIN L = 1 .. Len(L)
    BY DEF WellFormed
  <2>2. \A n \in 1 .. Len(L) : L[n] \in RangeRec
    BY <2>1
  <2>3. \A n \in 1 .. Len(L) : L[n].def \in Int /\ L[n].last \in Int
    BY <2>2 DEF RangeRec
  <2> QED
    BY <2>1, <2>3, Sorting
<1>2. Len(L) \in Nat
  BY DEF WellFormed
<1>3. 1 \in 1 .. Len(L) + 1
  BY <1>2
<1>4. 1 .. 1 - 1 = {}
  OBVIOUS
<1>5. Sound(L, Sorted(L), Unit, 1, NextPosition(L, Sorted(L), 1))
  BY <1>4 DEF Sound, Kinds, Reserve, Later, NotFree
<1> QED
  BY <1>1, <1>3, <1>5

(* Behind a handled range the scan goes on at the next one's position.     *)
Resumes(s, k) ==
  /\ WellFormed(s.lrs) /\ InOrder(s.lrs, order)
  /\ k + 1 \in 1 .. Len(s.lrs) + 1 /\ s.free \in SUBSET Unit
  /\ Sound(s.lrs, order, s.free, k + 1, NextPosition(s.lrs, order, k + 1))

(* Once a range is handled at its own position, the scan is sound at the *)
(* position of the next one.                                             *)
LEMMA Resuming ==
  ASSUME NEW s, s.scratch = <<>>, NEW k \in 1 .. Len(s.lrs),
         Good(s, k + 1, s.lrs[order[k]].def + 1)
  PROVE  Resumes(s, k)
<1> DEFINE L == s.lrs
           x == L[order[k]].def + 1
           all == s.free \cup UNION ToSet(s.scratch)
<1>1. s \in ScanState /\ WellFormed(L) /\ InOrder(L, order) /\ Sound(L, order, all, k + 1, x)
  BY DEF Good
<1>2. all = s.free
  BY DEF ToSet
<1> HIDE DEF all
<1>3. Len(L) \in Nat /\ k \in 1 .. Len(L) /\ k + 1 \in 1 .. Len(L) + 1
  <2>1. Len(L) \in Nat
    BY <1>1 DEF WellFormed
  <2> HIDE DEF L
  <2>2. k \in 1 .. Len(L)
    BY DEF L
  <2> QED
    BY <2>1, <2>2
<1>4. x \in Int
  <2>1. order[k] \in 1 .. Len(L)
    BY <1>1, <1>3, Ordering
  <2>2. L[order[k]] \in RangeRec
    BY <1>1, <2>1, Ordering
  <2> QED
    BY <2>2 DEF RangeRec
<1>5. NextPosition(L, order, k + 1) \in Int /\ x <= NextPosition(L, order, k + 1)
  BY <1>1, <1>3, Advancing
<1> DEFINE y == NextPosition(L, order, k + 1)
           free == s.free
           k1 == k + 1
<1>6. /\ y \in Int /\ x <= y /\ WellFormed(L) /\ InOrder(L, order) /\ k1 \in 1 .. Len(L) + 1
      /\ Sound(L, order, free, k1, x) /\ x \in Int
  BY <1>1, <1>2, <1>3, <1>4, <1>5
<1> HIDE DEF L, x, y, free, k1
<1>7. Sound(L, order, free, k1, y)
  BY <1>6, SoundLater
<1>8. free \in SUBSET Unit
  BY <1>1 DEF ScanState, free
<1> QED
  BY <1>6, <1>7, <1>8 DEF Resumes, L, y, free, k1

(* One turn of the scan keeps the invariant; in the second round nothing *)
(* is spilled.                                                           *)
LEMMA ScanStep ==
  ASSUME ScanInv, Scan, pc' = "scan"
  PROVE  Scanning' /\ (round = 2 => Unspilled(lrs'))
<1> DEFINE st0 == [lrs |-> lrs, free |-> avail, scratch |-> <<>>, ok |-> TRUE]
           lr == lrs[order[i]]
           s == IF is_use_lr(lr) THEN HandleUse(st0, i)
                ELSE IF lr.pre THEN st0 ELSE HandleDef(st0, i)
           x == NextPosition(lrs, order, i)
<1>1. /\ pc = "scan" /\ i <= Len(order) /\ lrs' = s.lrs /\ avail' = s.free /\ i' = i + 1
      /\ order' = order /\ round' = round /\ s.ok /\ (round = 1 \/ s.lrs[order[i]].cpu # Spill)
  <2> HIDE DEF st0
  <2> DEFINE ok == s.ok /\ (round = 1 \/ s.lrs[order[i]].cpu # Spill)
  <2>1. /\ pc = "scan" /\ i <= Len(order) /\ lrs' = s.lrs /\ avail' = s.free /\ i' = i + 1
        /\ order' = order /\ round' = round /\ pc' = IF ok THEN "scan" ELSE "failed"
    BY DEF Scan, st0
  <2> HIDE DEF ok, s
  <2>2. ok
    BY <2>1
  <2> QED
    BY <2>1, <2>2 DEF ok
<1>2. /\ WellFormed(lrs) /\ InOrder(lrs, order) /\ avail \in SUBSET Unit
      /\ Sound(lrs, order, avail, i, x) /\ round \in {1, 2} /\ (round = 2 => Unspilled(lrs))
      /\ i \in 1 .. Len(lrs) + 1
  BY <1>1 DEF ScanInv, Scanning
<1>3. /\ i \in 1 .. Len(lrs) /\ order[i] \in 1 .. Len(lrs) /\ lr \in RangeRec
      /\ Len(lrs) \in Nat /\ DOMAIN lrs = 1 .. Len(lrs)
  <2>1. Len(order) = Len(lrs) /\ Len(lrs) \in Nat
    BY <1>2, Ordering
  <2>2. i \in 1 .. Len(lrs)
    BY <1>1, <1>2, <2>1
  <2> QED
    BY <1>2, <2>1, <2>2, Ordering
<1>4. x = IF is_use_lr(lr) THEN lr.def ELSE lr.def + 1
  BY <1>3 DEF NextPosition
<1> HIDE DEF x
<1>5. /\ st0 \in ScanState /\ st0.lrs = lrs /\ st0.scratch = <<>> /\ st0.free = avail
      /\ Good(st0, i, x)
  <2>1. st0 \in ScanState /\ st0.free \cup UNION ToSet(st0.scratch) = avail
    BY <1>2 DEF ScanState, WellFormed, ToSet
  <2> QED
    BY <1>2, <2>1 DEF Good
<1> HIDE DEF st0
<1>6. /\ Good(s, i + 1, s.lrs[order[i]].def + 1) /\ s.scratch = <<>> /\ i \in 1 .. Len(s.lrs)
      /\ round = 2 => Unspilled(s.lrs)
  <2>1. CASE is_use_lr(lr)
    <3>1. s = HandleUse(st0, i) /\ x = lr.def
      BY <1>4, <2>1
    <3>2. Good(s, i + 1, x + 1) /\ s.scratch = <<>> /\ Frame(lrs, s.lrs, i)
      <4>1. /\ i \in 1 .. Len(st0.lrs) /\ x = st0.lrs[order[i]].def /\ Good(st0, i, x)
            /\ is_use_lr(st0.lrs[order[i]]) /\ HandleUse(st0, i).ok
        BY <1>1, <1>3, <1>5, <2>1, <3>1
      <4> HIDE DEF s
      <4>2. /\ Good(HandleUse(st0, i), i + 1, x + 1) /\ HandleUse(st0, i).scratch = <<>>
            /\ Frame(st0.lrs, HandleUse(st0, i).lrs, i)
        BY <4>1, HandlingUse
      <4> QED
        BY <1>5, <3>1, <4>2
    <3>3. round = 2 => s.lrs = lrs
      <4>1. WellFormed(st0.lrs) /\ InOrder(st0.lrs, order) /\ i \in 1 .. Len(st0.lrs)
            /\ is_use_lr(st0.lrs[order[i]])
        BY <1>2, <1>3, <1>5, <2>1
      <4> HIDE DEF s
      <4>2. round = 2 => Unspilled(st0.lrs)
        BY <1>2, <1>5
      <4> QED
        BY <1>5, <3>1, <4>1, <4>2, UseSpillsNothing
    <3> HIDE DEF s
    <3>4. Len(s.lrs) = Len(lrs) /\ s.lrs[order[i]].def = lr.def
      BY <1>3, <3>2 DEF Frame
    <3> QED
      BY <1>2, <1>3, <3>1, <3>2, <3>3, <3>4
  <2>2. CASE ~is_use_lr(lr) /\ lr.pre
    <3>1. s = st0 /\ x = lr.def + 1
      BY <1>4, <2>2
    <3> HIDE DEF s
    <3>2. ~Keeps(lrs, order[i]) /\ x \in Int
      BY <1>3, <2>2, <3>1 DEF Keeps, RangeRec
    <3> DEFINE all == st0.free \cup UNION ToSet(st0.scratch)
    <3>3. Sound(lrs, order, all, i, x)
      BY <1>5 DEF Good
    <3> HIDE DEF all
    <3>4. Sound(lrs, order, all, i + 1, x)
      BY <1>2, <1>3, <3>2, <3>3, SoundNext
    <3>5. Good(st0, i + 1, x)
      BY <1>2, <1>5, <3>4 DEF Good, all
    <3> QED
      BY <1>2, <1>3, <1>5, <3>1, <3>5
  <2>3. CASE ~is_use_lr(lr) /\ ~lr.pre
    <3>1. s = HandleDef(st0, i) /\ x = lr.def + 1
      BY <1>4, <2>3
    <3>2. /\ Good(s, i + 1, x) /\ s.scratch = <<>> /\ Len(s.lrs) = Len(lrs)
          /\ s.lrs[order[i]].def = lr.def
          /\ Unspilled(lrs) /\ s.lrs[order[i]].cpu # Spill => Unspilled(s.lrs)
      <4>1. /\ i \in 1 .. Len(st0.lrs) /\ x = st0.lrs[order[i]].def + 1 /\ Good(st0, i, x)
            /\ st0.scratch = <<>> /\ HandleDef(st0, i).ok
            /\ ~is_use_lr(st0.lrs[order[i]]) /\ ~st0.lrs[order[i]].pre
        BY <1>1, <1>3, <1>5, <2>3, <3>1
      <4> HIDE DEF s
      <4>2. /\ Good(HandleDef(st0, i), i + 1, x) /\ HandleDef(st0, i).scratch = <<>>
            /\ Len(HandleDef(st0, i).lrs) = Len(st0.lrs)
            /\ HandleDef(st0, i).lrs[order[i]].def = st0.lrs[order[i]].def
            /\ Unspilled(st0.lrs) /\ HandleDef(st0, i).lrs[order[i]].cpu # Spill
                 => Unspilled(HandleDef(st0, i).lrs)
        BY <4>1, HandlingDef
      <4> QED
        BY <1>5, <3>1, <4>2
    <3> HIDE DEF s
    <3>3. round = 2 => Unspilled(s.lrs)
      BY <1>1, <1>2, <3>2
    <3> QED
      BY <1>3, <3>1, <3>2, <3>3
  <2> QED
    BY <2>1, <2>2, <2>3
<1> HIDE DEF s
<1>7. Resumes(s, i)
  BY <1>6, Resuming
<1> QED
  BY <1>1, <1>6, <1>7 DEF Resumes, Scanning


(* After the last range: what a register is assigned is a machine register. *)
LEMMA Assigning ==
  ASSUME Scanning, i > Len(order), Bound(cpu, DOMAIN cpu)
  PROVE  Bound(Assigned, DOMAIN cpu)
<1>1. /\ WellFormed(lrs) /\ InOrder(lrs, order) /\ i = Len(lrs) + 1 /\ Len(lrs) \in Nat
      /\ DOMAIN lrs = 1 .. Len(lrs) /\ Kinds(lrs, order, i)
  <2>1. WellFormed(lrs) /\ InOrder(lrs, order) /\ Kinds(lrs, order, i) /\ i \in 1 .. Len(lrs) + 1
    BY DEF Scanning, Sound
  <2>2. Len(order) = Len(lrs) /\ Len(lrs) \in Nat /\ DOMAIN lrs = 1 .. Len(lrs)
    BY <2>1, Ordering
  <2> QED
    BY <2>1, <2>2
<1>2. ASSUME NEW n \in Scanned, lrs[n].cpu # Spill
      PROVE  lrs[n].cpu \in SUBSET Unit
  <2>1. n \in 1 .. Len(lrs) /\ Keeps(lrs, n)
    BY <1>1, <1>2 DEF Scanned, Keeps
  <2>2. PICK p \in 1 .. Len(lrs) : order[p] = n
    BY <1>1, <2>1, Ordering
  <2>3. p \in 1 .. i - 1 /\ i \in 1 .. Len(lrs) + 1
    BY <1>1
  <2> QED
    BY <1>1, <2>1, <2>2, <2>3, Registers
<1>3. ASSUME NEW r \in DOMAIN cpu
      PROVE  Assigned[r] \in (SUBSET Unit) \cup {NoCpuReg}
  <2> DEFINE mine == {n \in Scanned : lrs[n].reg = r /\ lrs[n].cpu # Spill}
             latest == CHOOSE n \in mine : \A m \in mine : ~Before(lrs, n, m)
  <2>1. Assigned[r] = IF mine = {} THEN cpu[r] ELSE lrs[latest].cpu
    BY DEF Assigned
  <2>2. CASE mine = {}
    BY <2>1, <2>2 DEF Bound
  <2>3. CASE mine # {}
    <3> DEFINE P == {p \in 1 .. Len(lrs) : order[p] \in mine}
    <3>1. P # {} /\ P \subseteq 0 .. Len(lrs)
      <4>1. PICK n \in mine : TRUE
        BY <2>3
      <4>2. n \in 1 .. Len(lrs)
        BY <1>1 DEF Scanned
      <4>3. PICK p \in 1 .. Len(lrs) : order[p] = n
        BY <1>1, <4>2, Ordering
      <4> HIDE DEF mine
      <4>4. p \in P
        BY <4>1, <4>3
      <4> QED
        BY <4>4
    <3> DEFINE q == Max(P)
    <3>2. q \in P /\ \A p \in P : q >= p
      <4> HIDE DEF P
      <4> QED
        BY <1>1, <3>1, GreatestOf
    <3> HIDE DEF q
    <3>3. ASSUME NEW m \in mine
          PROVE  ~Before(lrs, order[q], m)
      <4>1. m \in 1 .. Len(lrs)
        BY <1>1 DEF Scanned
      <4>2. PICK p \in 1 .. Len(lrs) : order[p] = m
        BY <1>1, <4>1, Ordering
      <4>3. p \in P /\ q \in 1 .. Len(lrs)
        <5> HIDE DEF mine
        <5> QED
          BY <3>2, <4>2
      <4>4. p = q \/ (p < q /\ Before(lrs, m, order[q]))
        <5>1. q >= p /\ q \in Int /\ p \in Int
          BY <3>2, <4>3
        <5>2. p < q => Before(lrs, order[p], order[q])
          BY <1>1, <4>3, Ordering
        <5> QED
          BY <4>2, <5>1, <5>2
      <4>5. /\ lrs[m].def \in Int /\ lrs[m].last \in Int /\ m \in Int
            /\ order[q] \in Int /\ lrs[order[q]].def \in Int /\ lrs[order[q]].last \in Int
        <5>1. order[q] \in 1 .. Len(lrs)
          BY <1>1, <4>3, Ordering
        <5> DEFINE z == order[q]
        <5>2. lrs[m] \in RangeRec /\ lrs[z] \in RangeRec
          BY <1>1, <4>1, <5>1, Ordering
        <5>3. m \in Int /\ z \in Int
          BY <4>1, <5>1
        <5> HIDE DEF z
        <5>4. /\ lrs[m].def \in Int /\ lrs[m].last \in Int
              /\ lrs[z].def \in Int /\ lrs[z].last \in Int
          BY <5>2 DEF RangeRec
        <5> QED
          BY <5>3, <5>4 DEF z
      <4> QED
        BY <4>2, <4>4, <4>5 DEF Before
    <3>4. \E n \in mine : \A m \in mine : ~Before(lrs, n, m)
      <4>1. order[q] \in mine
        BY <3>2
      <4> HIDE DEF mine
      <4> QED
        BY <3>3, <4>1
    <3>5. latest \in mine
      <4> HIDE DEF mine
      <4> QED
        BY <3>4
    <3> HIDE DEF latest
    <3> QED
      BY <1>2, <2>1, <2>3, <3>5
  <2> HIDE DEF mine, latest
  <2> QED
    BY <2>2, <2>3
<1> QED
  BY <1>3 DEF Bound

(* The first scan starts with the ranges of the bbl as it came. *)
LEMMA InitInv == Init => ScanInv
<1> SUFFICES ASSUME Init
             PROVE  ScanInv
  OBVIOUS
<1>1. /\ source \in Bodies /\ bbl = source /\ cpu = Binding(source) /\ lrs = RangesFor(source, cpu)
      /\ order = Sorted(lrs) /\ i = 1 /\ avail = Unit /\ round = 1
  BY DEF Init
<1> DEFINE R == RegsOf(source)
<1>2. /\ R \subseteq Register /\ LiveOut \in Seq(R) /\ CodeOk(source, R)
      /\ Bound(cpu, R)
  BY <1>1, BodiesOk, RegistersOf
<1> HIDE DEF R
<1>3. WellFormed(lrs)
  BY <1>1, <1>2, RangesOk
<1>4. Scanning
  BY <1>1, <1>3, Starting DEF Scanning
<1> QED
  BY <1>1, <1>4 DEF ScanInv

(* The second scan starts with the ranges of the rewritten bbl. *)
LEMMA RescanStep ==
  ASSUME ScanInv, SpillAndRescan
  PROVE  Scanning' /\ round' = 2 /\ Unspilled(lrs')
<1>1. /\ pc = "scan" /\ i > Len(order) /\ SpilledRegs # {} /\ bbl' = BblSpillRegs(bbl, SpilledRegs)
      /\ cpu' = [r \in RegsOf(bbl') |-> IF r \in DOMAIN cpu THEN Assigned[r] ELSE NoCpuReg]
      /\ lrs' = RangesFor(bbl', cpu') /\ order' = Sorted(lrs') /\ i' = 1 /\ avail' = Unit
      /\ round' = 2
  BY DEF SpillAndRescan
<1>2. Scanning /\ round \in {1, 2}
  BY <1>1 DEF ScanInv
<1>3. source \in Bodies /\ bbl = source /\ cpu = Binding(source)
  <2>1. round # 2
    <3>1. PICK n \in Scanned : lrs[n].cpu = Spill
      BY <1>1 DEF SpilledRegs
    <3>2. WellFormed(lrs) /\ n \in DOMAIN lrs
      BY <1>2 DEF Scanning, Scanned
    <3>3. n \in 1 .. Len(lrs)
      BY <3>2 DEF WellFormed
    <3>4. ~Unspilled(lrs)
      BY <3>1, <3>3 DEF Unspilled
    <3> QED
      BY <1>1, <3>4 DEF ScanInv
  <2> QED
    BY <1>1, <1>2, <2>1 DEF ScanInv
<1>4. Bound(cpu, DOMAIN cpu)
  BY <1>3, BodiesOk
<1>5. Bound(Assigned, DOMAIN cpu)
  BY <1>1, <1>2, <1>4, Assigning
<1> DEFINE code == bbl'
           b == cpu'
           R == RegsOf(code)
<1>6. R \subseteq Register /\ LiveOut \in Seq(R) /\ CodeOk(code, R)
  <2>1. CodeOk(code, Register) /\ DOMAIN code = 1 .. Len(code)
    BY <1>1, <1>3, SpillingBbl
  <2> HIDE DEF code
  <2> QED
    BY <2>1, RegistersOf
<1>7. Bound(b, R)
  BY <1>1, <1>5 DEF Bound
<1>8. lrs' = RangesFor(code, b)
  BY <1>1
<1> HIDE DEF code, b, R
<1>9. WellFormed(lrs') /\ Unspilled(lrs')
  BY <1>6, <1>7, <1>8, RangesOk
<1> DEFINE L == lrs'
<1>10. /\ InOrder(L, Sorted(L)) /\ 1 \in 1 .. Len(L) + 1 /\ Unit \in SUBSET Unit
       /\ Sound(L, Sorted(L), Unit, 1, NextPosition(L, Sorted(L), 1))
  <2>1. WellFormed(L)
    BY <1>9
  <2> HIDE DEF L
  <2> QED
    BY <2>1, Starting
<1> QED
  BY <1>1, <1>9, <1>10 DEF Scanning

(* Every step keeps the invariant. *)
LEMMA NextInv == ScanInv /\ [Next]_vars => ScanInv'
<1> SUFFICES ASSUME ScanInv, [Next]_vars
             PROVE  ScanInv'
  OBVIOUS
<1>1. CASE Scan
  <2>1. round' = round /\ source' = source /\ bbl' = bbl /\ cpu' = cpu /\ pc = "scan"
    BY <1>1 DEF Scan
  <2>2. pc' = "scan" => Scanning' /\ (round = 2 => Unspilled(lrs'))
    BY <1>1, ScanStep
  <2> QED
    BY <2>1, <2>2 DEF ScanInv, Unspilled
<1>2. CASE Finish
  BY <1>2 DEF Finish, ScanInv
<1>3. CASE SpillAndRescan
  <2>1. Scanning' /\ round' = 2 /\ Unspilled(lrs')
    BY <1>3, RescanStep
  <2> QED
    BY <2>1 DEF ScanInv, Unspilled
<1>4. CASE UNCHANGED vars
  BY <1>4 DEF vars, ScanInv, Scanning, Unspilled
<1> QED
  BY <1>1, <1>2, <1>3, <1>4 DEF Next

(* A range that holds a register is live at the next position.             *)
LEMMA HeldOnce == ScanInv => NoUnitHeldTwice
<1> SUFFICES ASSUME ScanInv, pc = "scan"
             PROVE  \A n \in Holding : /\ lrs[n].cpu \cap avail = {}
                                       /\ \A m \in Holding \ {n} : lrs[n].cpu \cap lrs[m].cpu = {}
  BY DEF NoUnitHeldTwice
<1> DEFINE x == NextPosition(lrs, order, i)
<1>1. /\ WellFormed(lrs) /\ InOrder(lrs, order) /\ i \in 1 .. Len(lrs) + 1
      /\ Sound(lrs, order, avail, i, x)
  BY DEF ScanInv, Scanning
<1>2. /\ Len(lrs) \in Nat /\ Len(order) = Len(lrs) /\ DOMAIN lrs = 1 .. Len(lrs)
      /\ \A n \in 1 .. Len(lrs) : lrs[n].def \in Int /\ lrs[n].last \in Int
  <2>1. /\ Len(lrs) \in Nat /\ Len(order) = Len(lrs) /\ DOMAIN lrs = 1 .. Len(lrs)
        /\ \A n \in 1 .. Len(lrs) : lrs[n] \in RangeRec
    BY <1>1, Ordering
  <2> QED
    BY <2>1 DEF RangeRec
<1>3. ASSUME NEW n \in Holding
      PROVE  Keeps(lrs, n) /\ Live(lrs, n, x) /\ \E p \in 1 .. i - 1 : order[p] = n
  <2>1. /\ n \in 1 .. Len(lrs) /\ Keeps(lrs, n) /\ lrs[n].last # NO_USE
        /\ \E p \in 1 .. i - 1 : order[p] = n
    BY <1>2 DEF Holding, Scanned, Keeps
  <2>2. \/ lrs[n].last > Position
        \/ i <= Len(order) /\ is_use_lr(lrs[order[i]]) /\ lrs[n].last = Position
    BY DEF Holding
  <2>3. lrs[n].last >= x
    <3>1. CASE i > Len(lrs)
      BY <1>1, <1>2, <2>1, <2>2, <3>1 DEF Position, NextPosition, AFTER_BBL
    <3>2. CASE i <= Len(lrs)
      <4>1. order[i] \in 1 .. Len(lrs)
        BY <1>1, <1>2, <3>2, Ordering
      <4>2. lrs[order[i]].def \in Int /\ Position = lrs[order[i]].def
        BY <1>2, <3>2, <4>1 DEF Position
      <4>3. x = IF is_use_lr(lrs[order[i]]) THEN lrs[order[i]].def ELSE lrs[order[i]].def + 1
        BY <1>1, <1>2, <3>2 DEF NextPosition
      <4> HIDE DEF x
      <4> QED
        BY <1>2, <2>1, <2>2, <4>2, <4>3
    <3> QED
      BY <1>1, <1>2, <3>1, <3>2
  <2> QED
    BY <2>1, <2>3 DEF Live
<1> HIDE DEF x
<1>4. ASSUME NEW n \in Holding
      PROVE  lrs[n].cpu \cap avail = {}
  BY <1>1, <1>3 DEF Sound, NotFree
<1>5. ASSUME NEW n \in Holding, NEW m \in Holding, lrs[n].cpu \cap lrs[m].cpu # {}
      PROVE  n = m
  <2>1. PICK p \in 1 .. i - 1 : order[p] = n
    BY <1>3
  <2>2. PICK q \in 1 .. i - 1 : order[q] = m
    BY <1>3
  <2>3. p <= q /\ q <= p
    BY <1>1, <1>3, <1>5, <2>1, <2>2 DEF Sound, Later
  <2> QED
    BY <2>1, <2>2, <2>3
<1> QED
  BY <1>4, <1>5

(***************************************************************************)
(* The two scans of a bbl never hand out a unit that a range still holds,  *)
(* for every bbl, register file and binding the constants allow.           *)
(***************************************************************************)
THEOREM ScanHoldsUnitsOnce == Spec => []NoUnitHeldTwice
<1>1. Spec => []ScanInv
  BY InitInv, NextInv, PTL DEF Spec
<1> QED
  BY <1>1, HeldOnce, PTL

-----------------------------------------------------------------------------
(* The bbl at hand and what is live after its positions.                   *)
Given == bbl \in RangeBodies /\ live_out \in RangeLiveOuts
Virtual(r) == RangeCpu[r] = NoCpuReg

(* The instructions of a bbl, as the walk and the properties see them. *)
LEMMA BblFacts ==
  ASSUME Given
  PROVE  /\ CodeOk(bbl, RangeReg) /\ Len(bbl) \in Nat /\ Len(bbl) < AFTER_BBL
         /\ RangeReg \subseteq Register /\ live_out \in Seq(RangeReg) /\ IsInjective(live_out)
         /\ \A p \in Pos :
              /\ p \in Nat /\ p + 1 \in 1 .. Len(bbl) /\ p < AFTER_BBL /\ Readable(At(p), RangeReg)
              /\ At(p).op = "ret" => p = Len(bbl) - 1
              /\ At(p).cout \in SUBSET SUBSET Unit
              /\ \A r \in RangeReg : At(p).op = "call" /\ Reads(p, r) => RangeCpu[r] \notin At(p).cin
<1>1. bbl \in Seq(Ins) /\ Len(bbl) < AFTER_BBL
  BY RangesAssumption DEF Given
<1>2. /\ Len(bbl) \in Nat /\ DOMAIN bbl = 1 .. Len(bbl)
      /\ \A k \in 1 .. Len(bbl) : bbl[k] \in Ins
  BY <1>1
<1>3. ASSUME NEW k \in 1 .. Len(bbl)
      PROVE  /\ Readable(bbl[k], RangeReg) /\ bbl[k].cout \in SUBSET SUBSET Unit
             /\ bbl[k].op = "ret" => k = Len(bbl)
  <2>1. /\ bbl[k].def \in Seq(RangeReg) /\ bbl[k].use \in Seq(RangeReg)
        /\ bbl[k].op = "call" => bbl[k].def = <<>>
        /\ bbl[k].op = "ret" => k = Len(bbl)
    BY <1>2, RangesAssumption DEF Given
  <2>2. bbl[k].cin \in SUBSET SUBSET Unit /\ bbl[k].cout \in SUBSET SUBSET Unit
    BY <1>2 DEF Ins
  <2> QED
    BY <2>1, <2>2 DEF Readable
<1>4. ASSUME NEW k \in 1 .. Len(bbl), NEW r \in RangeReg, bbl[k].op = "call", Contains(bbl[k].use, r)
      PROVE  RangeCpu[r] \notin bbl[k].cin
  <2>1. bbl[k].use \in Seq(RangeReg)
    BY <1>3 DEF Readable
  <2>2. \A n \in DOMAIN bbl[k].use : RangeCpu[bbl[k].use[n]] \notin bbl[k].cin
    BY <1>2, <1>4, RangesAssumption DEF Given
  <2>3. PICK n \in 1 .. Len(bbl[k].use) : bbl[k].use[n] = r
    BY <1>4 DEF Contains
  <2>4. n \in DOMAIN bbl[k].use
    BY <2>1
  <2> QED
    BY <2>2, <2>3, <2>4
<1>5. CodeOk(bbl, RangeReg)
  BY <1>1, <1>2, <1>3 DEF CodeOk
<1>6. RangeReg \subseteq Register /\ live_out \in Seq(RangeReg) /\ IsInjective(live_out)
  BY RangesAssumption DEF Given
<1>7. ASSUME NEW p \in Pos
      PROVE  /\ p \in Nat /\ p + 1 \in 1 .. Len(bbl) /\ p < AFTER_BBL /\ Readable(At(p), RangeReg)
             /\ At(p).op = "ret" => p = Len(bbl) - 1
             /\ At(p).cout \in SUBSET SUBSET Unit
             /\ \A r \in RangeReg : At(p).op = "call" /\ Reads(p, r) => RangeCpu[r] \notin At(p).cin
  <2>1. p \in Nat /\ p + 1 \in 1 .. Len(bbl) /\ p < AFTER_BBL
    BY <1>1, <1>2 DEF Pos, AFTER_BBL
  <2> DEFINE k == p + 1
  <2>2. k \in 1 .. Len(bbl) /\ At(p) = bbl[k] /\ (k = Len(bbl) => p = Len(bbl) - 1)
    <3>1. At(p) = bbl[k]
      BY DEF At
    <3>2. p + 1 = Len(bbl) => p = Len(bbl) - 1
      <4> DEFINE n == Len(bbl)
      <4>1. p \in Nat /\ n \in Nat
        BY <1>2, <2>1
      <4> HIDE DEF n
      <4>2. p + 1 = n => p = n - 1
        BY ONLY <4>1
      <4> QED
        BY <4>2 DEF n
    <3> QED
      BY <2>1, <3>1, <3>2
  <2> HIDE DEF k
  <2>3. /\ Readable(At(p), RangeReg) /\ At(p).cout \in SUBSET SUBSET Unit
        /\ At(p).op = "ret" => p = Len(bbl) - 1
    BY <1>3, <2>2
  <2>4. \A r \in RangeReg : At(p).op = "call" /\ Reads(p, r) => RangeCpu[r] \notin At(p).cin
    BY <1>4, <2>2 DEF Reads
  <2> QED
    BY <2>1, <2>3, <2>4
<1> QED
  BY <1>1, <1>2, <1>5, <1>6, <1>7

(* A register without a machine register is none of a call's. *)
LEMMA NoneTaken ==
  ASSUME NEW cpus \in SUBSET SUBSET Unit
  PROVE  NoCpuReg \notin cpus
BY CpuRegAssumption

(* Liveness in front of an instruction from liveness behind it. *)
LEMMA LiveBefore ==
  ASSUME Given, NEW p \in Pos, NEW r
  PROVE  LiveAfter(p - 1, r) <=> Reads(p, r) \/ (~Writes(p, r) /\ LiveAfter(p, r))
<1>1. Len(bbl) \in Nat
  BY BblFacts
<1>2. \A q \in Int : p < q =>
        (WrittenWithin(p - 1, q, r) <=> Writes(p, r) \/ WrittenWithin(p, q, r))
  BY <1>1 DEF WrittenWithin, Pos
<1>3. ~WrittenWithin(p - 1, p, r)
  BY <1>1 DEF WrittenWithin, Pos
<1>4. \A q \in Pos : q \in Int /\ (p - 1 < q <=> q = p \/ p < q)
  BY <1>1 DEF Pos
<1>5. Len(bbl) \in Int /\ p < Len(bbl)
  BY <1>1 DEF Pos
<1>6. ASSUME LiveAfter(p - 1, r)
      PROVE  Reads(p, r) \/ (~Writes(p, r) /\ LiveAfter(p, r))
  <2>1. CASE \E q \in Pos : p - 1 < q /\ Reads(q, r) /\ ~WrittenWithin(p - 1, q, r)
    BY <1>2, <1>4, <2>1 DEF LiveAfter
  <2>2. CASE Contains(live_out, r) /\ ~WrittenWithin(p - 1, Len(bbl), r)
    BY <1>2, <1>5, <2>2 DEF LiveAfter
  <2> QED
    BY <1>6, <2>1, <2>2 DEF LiveAfter
<1>7. ASSUME Reads(p, r)
      PROVE  LiveAfter(p - 1, r)
  BY <1>3, <1>4, <1>7 DEF LiveAfter
<1>8. ASSUME ~Writes(p, r), LiveAfter(p, r)
      PROVE  LiveAfter(p - 1, r)
  <2>1. CASE \E q \in Pos : p < q /\ Reads(q, r) /\ ~WrittenWithin(p, q, r)
    BY <1>2, <1>4, <1>8, <2>1 DEF LiveAfter
  <2>2. CASE Contains(live_out, r) /\ ~WrittenWithin(p, Len(bbl), r)
    BY <1>2, <1>5, <1>8, <2>2 DEF LiveAfter
  <2> QED
    BY <1>8, <2>1, <2>2 DEF LiveAfter
<1> QED
  BY <1>6, <1>7, <1>8

(* Behind the last instruction, what the bbl's successors need is live. *)
LEMMA LiveAtEnd ==
  ASSUME Given, NEW r
  PROVE  LiveAfter(Len(bbl) - 1, r) <=> Contains(live_out, r)
<1>1. Len(bbl) \in Nat
  BY BblFacts
<1>2. \A q \in Pos : ~(Len(bbl) - 1 < q)
  BY <1>1 DEF Pos
<1>3. ~WrittenWithin(Len(bbl) - 1, Len(bbl), r)
  BY <1>2 DEF WrittenWithin
<1> QED
  BY <1>2, <1>3 DEF LiveAfter

-----------------------------------------------------------------------------
(* What the parts of the walk do to the ranges found so far.               *)
Crossing(cp, last) == cp # -1 /\ cp # AFTER_BBL /\ cp < last

(* lr2 is lr, but for the number of its uses *)
Alike(lr, lr2) ==
  /\ lr2.def = lr.def /\ lr2.last = lr.last /\ lr2.reg = lr.reg
  /\ lr2.uses = lr.uses /\ lr2.lac = lr.lac
SameCall(st, s) == s.call_pos = st.call_pos /\ s.call_in = st.call_in

OpenOf(st, regs) == {st.last_use[r] : r \in regs}
(* lr2 is lr with its definition at p, cp the nearest call. *)
Closed(lr, lr2, p, cp) ==
  /\ lr2.reg = lr.reg /\ lr2.last = lr.last /\ lr2.uses = lr.uses
  /\ lr2.def = p /\ (lr2.lac <=> Crossing(cp, lr.last))
Finalized(st, s, regs, p) ==
  /\ Len(s.out) = Len(st.out) /\ SameCall(st, s)
  /\ \A n \in 1 .. Len(st.out) :
       IF n \in OpenOf(st, regs) THEN Closed(st.out[n], s.out[n], p, st.call_pos)
       ELSE Alike(st.out[n], s.out[n])
  /\ DOMAIN s.last_use = DOMAIN st.last_use \ regs
  /\ \A r \in DOMAIN s.last_use : s.last_use[r] = st.last_use[r]

(* One more range, of reg. *)
Added(st, s, def, last, reg) ==
  /\ Len(s.out) = Len(st.out) + 1 /\ SameCall(st, s)
  /\ \A n \in 1 .. Len(st.out) : s.out[n] = st.out[n]
  /\ s.out[Len(s.out)].def = def /\ s.out[Len(s.out)].last = last
  /\ s.out[Len(s.out)].reg = reg
(* It is open now. *)
NowOpen(st, s, reg) ==
  /\ DOMAIN s.last_use = DOMAIN st.last_use \cup {reg}
  /\ \A r \in DOMAIN s.last_use :
       s.last_use[r] = IF r = reg THEN Len(s.out) ELSE st.last_use[r]
(* One more use of a range. *)
Counted(st, s) ==
  /\ Len(s.out) = Len(st.out) /\ SameCall(st, s) /\ s.last_use = st.last_use
  /\ \A n \in 1 .. Len(st.out) : Alike(st.out[n], s.out[n])

(* finalize_lr sets where a range starts and whether it crosses a call. *)
LEMMA FinalizeEffect ==
  ASSUME NEW R, R \subseteq Register, NEW st, st \in Walks(R), NEW regs, NEW p
  PROVE  Finalized(st, FinalizeAll(st, regs, p), regs, p)
<1> DEFINE ns == {st.last_use[r] : r \in regs}
           old == st.out
           out == [n \in 1 .. Len(old) |->
                     IF n \in ns THEN [old[n] EXCEPT !.def = p, !.lac = CrossesCall(st, n)]
                     ELSE old[n]]
           lu == [r \in DOMAIN st.last_use \ regs |-> st.last_use[r]]
           s == FinalizeAll(st, regs, p)
<1>1. /\ old \in Seq(Plain) /\ Len(old) \in Nat /\ DOMAIN old = 1 .. Len(old)
      /\ \A n \in 1 .. Len(old) : old[n] \in Plain
  BY Walking
<1>2. s = [st EXCEPT !.out = out, !.last_use = lu]
  BY <1>1 DEF FinalizeAll, Walks
<1>3. s.out = out /\ s.last_use = lu /\ s.call_pos = st.call_pos /\ s.call_in = st.call_in
  BY <1>2 DEF Walks
<1> HIDE DEF s, old, ns
<1>4. ASSUME NEW n \in 1 .. Len(old)
      PROVE  IF n \in ns THEN Closed(old[n], out[n], p, st.call_pos) ELSE Alike(old[n], out[n])
  <2>1. old[n] \in Plain
    BY <1>1
  <2>2. out[n] = IF n \in ns THEN [old[n] EXCEPT !.def = p, !.lac = CrossesCall(st, n)] ELSE old[n]
    OBVIOUS
  <2> HIDE DEF out
  <2>3. CrossesCall(st, n) <=> Crossing(st.call_pos, old[n].last)
    BY DEF CrossesCall, Crossing, old
  <2>4. CASE n \in ns
    <3> DEFINE flag == CrossesCall(st, n)
               lr == old[n]
    <3>1. out[n] = [lr EXCEPT !.def = p, !.lac = flag]
      BY <2>2, <2>4
    <3>2. lr \in Plain /\ (flag <=> Crossing(st.call_pos, lr.last))
      BY <2>1, <2>3
    <3> HIDE DEF flag, lr
    <3>3. Closed(lr, out[n], p, st.call_pos)
      BY <3>1, <3>2 DEF Closed, Plain
    <3> QED
      BY <2>4, <3>3 DEF lr
  <2>5. CASE n \notin ns
    BY <2>2, <2>5 DEF Alike
  <2> QED
    BY <2>4, <2>5
<1>5. Len(out) = Len(old)
  BY <1>1
<1> HIDE DEF out
<1>6. DOMAIN lu = DOMAIN st.last_use \ regs /\ \A r \in DOMAIN lu : lu[r] = st.last_use[r]
  OBVIOUS
<1> HIDE DEF lu
<1> QED
  BY <1>3, <1>4, <1>5, <1>6 DEF Finalized, SameCall, OpenOf, s, ns, old

(* initialize_lr adds an open range. *)
LEMMA OpenEffect ==
  ASSUME NEW R, R \subseteq Register, NEW st, st \in Walks(R), NEW pos \in Int, NEW reg \in R
  PROVE  /\ Added(st, initialize_lr(st, pos, reg), -1, pos, reg)
         /\ NowOpen(st, initialize_lr(st, pos, reg), reg)
<1> DEFINE s == initialize_lr(st, pos, reg)
           e == LiveRange(-1, pos, reg, 1, <<>>)
           old == st.out
           out == Append(old, e)
           lu == [r \in DOMAIN st.last_use \cup {reg} |->
                    IF r = reg THEN Len(old) + 1 ELSE st.last_use[r]]
<1>1. old \in Seq(Plain) /\ Len(old) \in Nat
  BY Walking
<1>2. s = [st EXCEPT !.out = out, !.last_use = lu]
  BY DEF initialize_lr, Walks
<1>3. s.out = out /\ s.last_use = lu /\ s.call_pos = st.call_pos /\ s.call_in = st.call_in
  BY <1>2 DEF Walks
<1>4. e.def = -1 /\ e.last = pos /\ e.reg = reg
  BY DEF LiveRange
<1> HIDE DEF s, old, e
<1>5. /\ Len(out) = Len(old) + 1 /\ out[Len(out)] = e
      /\ \A n \in 1 .. Len(old) : out[n] = old[n]
  BY <1>1
<1> HIDE DEF out
<1>6. /\ DOMAIN lu = DOMAIN st.last_use \cup {reg}
      /\ \A r \in DOMAIN lu : lu[r] = IF r = reg THEN Len(old) + 1 ELSE st.last_use[r]
  OBVIOUS
<1> HIDE DEF lu
<1>7. Added(st, s, -1, pos, reg)
  BY <1>3, <1>4, <1>5 DEF Added, SameCall, old
<1>8. NowOpen(st, s, reg)
  BY <1>3, <1>5, <1>6 DEF NowOpen
<1> QED
  BY <1>7, <1>8 DEF s

(* A definition of a register that has no open range adds a range that *)
(* ends at the next call if that takes the register.                   *)
LEMMA DeadEffect ==
  ASSUME NEW R, R \subseteq Register, NEW st, st \in Walks(R), NEW p, NEW reg, NEW b,
         reg \notin DOMAIN st.last_use
  PROVE  LET s == AtDef(st, reg, p, b)
         IN /\ Added(st, s, p, IF b[reg] \in st.call_in THEN st.call_pos ELSE NO_USE, reg)
            /\ s.last_use = st.last_use
<1> DEFINE s == AtDef(st, reg, p, b)
           last == IF b[reg] \in st.call_in THEN st.call_pos ELSE NO_USE
           e == LiveRange(p, last, reg, 0, <<>>)
           old == st.out
           out == Append(old, e)
<1>1. old \in Seq(Plain) /\ Len(old) \in Nat
  BY Walking
<1>2. s = [st EXCEPT !.out = out]
  BY DEF AtDef, Walks
<1>3. s.out = out /\ s.last_use = st.last_use /\ s.call_pos = st.call_pos /\ s.call_in = st.call_in
  BY <1>2 DEF Walks
<1>4. e.def = p /\ e.last = last /\ e.reg = reg
  BY DEF LiveRange
<1> HIDE DEF s, old, e, last
<1>5. /\ Len(out) = Len(old) + 1 /\ out[Len(out)] = e
      /\ \A n \in 1 .. Len(old) : out[n] = old[n]
  BY <1>1
<1> HIDE DEF out
<1>7. Added(st, s, p, last, reg)
  BY <1>3, <1>4, <1>5 DEF Added, SameCall, old
<1> QED
  BY <1>3, <1>7 DEF s, last

(* A further read of a register counts a use of its open range. *)
LEMMA CountEffect ==
  ASSUME NEW R, R \subseteq Register, NEW st, st \in Walks(R), NEW p, NEW reg,
         reg \in DOMAIN st.last_use, st.last_use[reg] \in 1 .. Len(st.out)
  PROVE  Counted(st, AtUse(st, reg, p))
<1> DEFINE s == AtUse(st, reg, p)
           t == st.last_use[reg]
           old == st.out
           out == [old EXCEPT ![t] = [old[t] EXCEPT !.num_uses = old[t].num_uses + 1]]
<1>1. /\ old \in Seq(Plain) /\ Len(old) \in Nat /\ DOMAIN old = 1 .. Len(old)
      /\ \A n \in 1 .. Len(old) : old[n] \in Plain
  BY Walking
<1>2. s = [st EXCEPT !.out = out]
  <2>1. s = [st EXCEPT !.out[t].num_uses = @ + 1]
    BY DEF AtUse
  <2> QED
    BY <1>1, <2>1 DEF Walks
<1>3. s.out = out /\ s.last_use = st.last_use /\ s.call_pos = st.call_pos /\ s.call_in = st.call_in
  BY <1>2 DEF Walks
<1> HIDE DEF s
<1>4. t \in 1 .. Len(old)
  OBVIOUS
<1> HIDE DEF t, old
<1>5. Len(out) = Len(old)
  <2>1. DOMAIN out = DOMAIN old /\ \A n \in 1 .. Len(old) : out[n] = IF n = t
             THEN [old[t] EXCEPT !.num_uses = old[t].num_uses + 1] ELSE old[n]
    BY <1>1, <1>4
  <2>2. out = [n \in 1 .. Len(old) |-> out[n]]
    BY <1>1
  <2> HIDE DEF out
  <2> QED
    BY <1>1, <2>2
<1>6. ASSUME NEW n \in 1 .. Len(old)
      PROVE  Alike(old[n], out[n])
  <2>1. out[n] = IF n = t THEN [old[t] EXCEPT !.num_uses = old[t].num_uses + 1] ELSE old[n]
    BY <1>1, <1>4
  <2> HIDE DEF out
  <2>2. old[n] \in Plain
    BY <1>1
  <2> DEFINE lr == old[n]
             x == old[t].num_uses + 1
  <2>3. CASE n = t
    <3>1. out[n] = [lr EXCEPT !.num_uses = x] /\ lr \in Plain
      BY <2>1, <2>2, <2>3
    <3> HIDE DEF lr, x
    <3>2. Alike(lr, out[n])
      BY <3>1 DEF Alike, Plain
    <3> QED
      BY <3>2 DEF lr
  <2>4. CASE n # t
    BY <2>1, <2>4 DEF Alike
  <2> QED
    BY <2>3, <2>4
<1> HIDE DEF out
<1> QED
  BY <1>3, <1>5, <1>6 DEF Counted, SameCall, s, old

-----------------------------------------------------------------------------
(* From st, behind the instruction at p, to v, in the middle of it.  The   *)
(* registers W were written, those of D as operands, and those of U read;  *)
(* cp is the nearest call behind the definitions.                          *)

(* What a range n that came up is: a definition nothing reads below, or    *)
(* the open range of a register that was read.                             *)
Argument(v, n, p, r) ==
  v.out[n].reg = r /\ v.out[n].def = p /\ RangeCpu[r] \in v.call_in /\ v.out[n].last = v.call_pos
Unread(v, n, p) ==
  v.out[n].def = p /\ (v.out[n].last = NO_USE \/ Argument(v, n, p, v.out[n].reg))
Started(v, n, p) ==
  /\ v.out[n].def = -1 /\ v.out[n].last = p
  /\ v.out[n].reg \in DOMAIN v.last_use /\ v.last_use[v.out[n].reg] = n
Made(v, n, p, D, U) ==
  \/ v.out[n].reg \in D /\ Unread(v, n, p)
  \/ v.out[n].reg \in U /\ Started(v, n, p)

Survives(st, v, n, p, cp, W) ==
  IF n \in OpenOf(st, W \cap DOMAIN st.last_use) THEN Closed(st.out[n], v.out[n], p, cp)
  ELSE Alike(st.out[n], v.out[n])

Partway(st, v, p, cp, W, D, U) ==
  /\ Len(st.out) <= Len(v.out)
  /\ \A n \in 1 .. Len(st.out) : Survives(st, v, n, p, cp, W)
  /\ \A n \in 1 .. Len(v.out) : Len(st.out) < n => Made(v, n, p, D, U)
  /\ DOMAIN v.last_use = (DOMAIN st.last_use \ W) \cup U
  /\ \A r \in DOMAIN st.last_use \ W : v.last_use[r] = st.last_use[r]
  /\ \A r \in U \ (DOMAIN st.last_use \ W) : Len(st.out) < v.last_use[r]
  /\ \A r \in D \ DOMAIN st.last_use :
       RangeCpu[r] \in v.call_in => \E n \in 1 .. Len(v.out) : Argument(v, n, p, r)

(* What became of a range through two changes. *)
LEMMA TwoChanges ==
  ASSUME NEW a, NEW b, NEW c, NEW p, NEW cp
  PROVE  /\ Alike(a, b) /\ Alike(b, c) => Alike(a, c)
         /\ Alike(a, b) /\ Closed(b, c, p, cp) => Closed(a, c, p, cp)
         /\ Closed(a, b, p, cp) /\ Alike(b, c) => Closed(a, c, p, cp)
         /\ Closed(a, b, p, cp) /\ Closed(b, c, p, cp) => Closed(a, c, p, cp)
BY DEF Alike, Closed

(* A definition. *)
LEMMA DefEffect ==
  ASSUME NEW R, R \subseteq Register, NEW st, st \in Walks(R), NEW v, NEW p \in Nat, p < AFTER_BBL,
         Shape(v, R, p + 1, p + 1), CallAhead(v, p), NEW reg \in R,
         NEW W, NEW D, Partway(st, v, p, v.call_pos, W, D, {})
  PROVE  /\ Partway(st, AtDef(v, reg, p, RangeCpu), p, v.call_pos, W \cup {reg}, D \cup {reg}, {})
         /\ SameCall(v, AtDef(v, reg, p, RangeCpu))
<1> DEFINE s == AtDef(v, reg, p, RangeCpu)
           cp == v.call_pos
<1>0. /\ v \in Walks(R) /\ Len(v.out) \in Nat /\ Len(st.out) \in Nat
      /\ \A r \in DOMAIN v.last_use : v.last_use[r] \in 1 .. Len(v.out)
  BY Walking DEF Shape, IsOpen
<1>1. /\ Len(st.out) <= Len(v.out)
      /\ \A n \in 1 .. Len(st.out) : Survives(st, v, n, p, cp, W)
      /\ \A n \in 1 .. Len(v.out) : Len(st.out) < n => Made(v, n, p, D, {})
      /\ DOMAIN v.last_use = DOMAIN st.last_use \ W
      /\ \A r \in DOMAIN st.last_use \ W : v.last_use[r] = st.last_use[r]
      /\ \A r \in D \ DOMAIN st.last_use :
           RangeCpu[r] \in v.call_in => \E n \in 1 .. Len(v.out) : Argument(v, n, p, r)
  BY DEF Partway
<1>2. CASE reg \in DOMAIN v.last_use
  <2>1. s = FinalizeAll(v, {reg}, p)
    BY <1>2 DEF AtDef, finalize_lr
  <2>2. Finalized(v, s, {reg}, p)
    BY <1>0, <2>1, FinalizeEffect
  <2> HIDE DEF s
  <2>3. /\ Len(s.out) = Len(v.out) /\ SameCall(v, s)
        /\ \A n \in 1 .. Len(v.out) :
             IF n = v.last_use[reg] THEN Closed(v.out[n], s.out[n], p, cp) ELSE Alike(v.out[n], s.out[n])
        /\ DOMAIN s.last_use = DOMAIN v.last_use \ {reg}
        /\ \A r \in DOMAIN s.last_use : s.last_use[r] = v.last_use[r]
    BY <2>2 DEF Finalized, OpenOf
  <2>4. reg \in DOMAIN st.last_use /\ reg \notin W /\ v.last_use[reg] = st.last_use[reg]
    BY <1>1, <1>2
  <2>5. OpenOf(st, (W \cup {reg}) \cap DOMAIN st.last_use)
          = OpenOf(st, W \cap DOMAIN st.last_use) \cup {v.last_use[reg]}
    BY <2>4 DEF OpenOf
  <2>6. ASSUME NEW n \in 1 .. Len(st.out)
        PROVE  Survives(st, s, n, p, cp, W \cup {reg})
    <3>1. Survives(st, v, n, p, cp, W) /\ n \in 1 .. Len(v.out)
      BY <1>0, <1>1
    <3>2. IF n = v.last_use[reg] THEN Closed(v.out[n], s.out[n], p, cp) ELSE Alike(v.out[n], s.out[n])
      BY <2>3, <3>1
    <3>3. n \in OpenOf(st, (W \cup {reg}) \cap DOMAIN st.last_use)
            <=> n \in OpenOf(st, W \cap DOMAIN st.last_use) \/ n = v.last_use[reg]
      BY <2>5
    <3>4. CASE n = v.last_use[reg]
      BY <3>1, <3>2, <3>3, <3>4, TwoChanges DEF Survives
    <3>5. CASE n # v.last_use[reg]
      BY <3>1, <3>2, <3>3, <3>5, TwoChanges DEF Survives
    <3> QED
      BY <3>4, <3>5
  <2>7. ASSUME NEW n \in 1 .. Len(s.out), Len(st.out) < n
        PROVE  Made(s, n, p, D \cup {reg}, {})
    <3>1. Made(v, n, p, D, {}) /\ n \in 1 .. Len(v.out)
      BY <1>1, <2>3, <2>7
    <3>2. Closed(v.out[n], s.out[n], p, cp) \/ Alike(v.out[n], s.out[n])
      BY <2>3, <3>1
    <3> QED
      BY <2>3, <3>1, <3>2 DEF Made, Unread, Argument, Closed, Alike, SameCall
  <2>8. ASSUME NEW r \in (D \cup {reg}) \ DOMAIN st.last_use, RangeCpu[r] \in s.call_in
        PROVE  \E n \in 1 .. Len(s.out) : Argument(s, n, p, r)
    <3>1. r \in D \ DOMAIN st.last_use /\ RangeCpu[r] \in v.call_in
      BY <2>3, <2>4, <2>8 DEF SameCall
    <3>2. PICK n \in 1 .. Len(v.out) : Argument(v, n, p, r)
      BY <1>1, <3>1
    <3>3. Closed(v.out[n], s.out[n], p, cp) \/ Alike(v.out[n], s.out[n])
      BY <2>3
    <3>4. Argument(s, n, p, r)
      BY <2>3, <3>2, <3>3 DEF Argument, Closed, Alike, SameCall
    <3> QED
      BY <2>3, <3>4
  <2>9. /\ DOMAIN s.last_use = (DOMAIN st.last_use \ (W \cup {reg})) \cup {}
        /\ \A r \in DOMAIN st.last_use \ (W \cup {reg}) : s.last_use[r] = st.last_use[r]
    BY <1>1, <2>3
  <2> QED
    BY <1>1, <2>3, <2>6, <2>7, <2>8, <2>9 DEF Partway, s
<1>3. CASE reg \notin DOMAIN v.last_use
  <2>1. /\ Added(v, s, p, IF RangeCpu[reg] \in v.call_in THEN v.call_pos ELSE NO_USE, reg)
        /\ s.last_use = v.last_use
    BY <1>0, <1>3, DeadEffect
  <2> HIDE DEF s
  <2>2. /\ Len(s.out) = Len(v.out) + 1 /\ SameCall(v, s)
        /\ \A n \in 1 .. Len(v.out) : s.out[n] = v.out[n]
        /\ Unread(s, Len(s.out), p) /\ s.out[Len(s.out)].reg = reg
        /\ RangeCpu[reg] \in s.call_in => Argument(s, Len(s.out), p, reg)
    BY <2>1 DEF Added, Unread, Argument, SameCall
  <2>3. OpenOf(st, (W \cup {reg}) \cap DOMAIN st.last_use) = OpenOf(st, W \cap DOMAIN st.last_use)
    BY <1>1, <1>3 DEF OpenOf
  <2>4. ASSUME NEW n \in 1 .. Len(st.out)
        PROVE  Survives(st, s, n, p, cp, W \cup {reg})
    <3>1. Survives(st, v, n, p, cp, W) /\ n \in 1 .. Len(v.out) /\ s.out[n] = v.out[n]
      BY <1>0, <1>1, <2>2
    <3> QED
      BY <2>3, <3>1 DEF Survives
  <2>5. ASSUME NEW n \in 1 .. Len(s.out), Len(st.out) < n
        PROVE  Made(s, n, p, D \cup {reg}, {})
    <3>1. CASE n = Len(s.out)
      BY <2>2, <3>1 DEF Made
    <3>2. CASE n # Len(s.out)
      <4>1. n \in 1 .. Len(v.out)
        BY <1>0, <2>2, <3>2
      <4>2. Made(v, n, p, D, {}) /\ s.out[n] = v.out[n]
        BY <1>1, <2>2, <2>5, <4>1
      <4> QED
        BY <2>2, <4>2 DEF Made, Unread, Argument, SameCall
    <3> QED
      BY <3>1, <3>2
  <2>6. ASSUME NEW r \in (D \cup {reg}) \ DOMAIN st.last_use, RangeCpu[r] \in s.call_in
        PROVE  \E n \in 1 .. Len(s.out) : Argument(s, n, p, r)
    <3>1. CASE r = reg
      <4>1. Len(s.out) \in 1 .. Len(s.out)
        BY <1>0, <2>2
      <4> QED
        BY <2>2, <2>6, <3>1, <4>1
    <3>2. CASE r # reg
      <4>1. PICK n \in 1 .. Len(v.out) : Argument(v, n, p, r)
        BY <1>1, <2>2, <2>6, <3>2 DEF SameCall
      <4>2. n \in 1 .. Len(s.out) /\ Argument(s, n, p, r)
        BY <1>0, <2>2, <4>1 DEF Argument, SameCall
      <4> QED
        BY <4>2
    <3> QED
      BY <3>1, <3>2
  <2>7. /\ DOMAIN s.last_use = (DOMAIN st.last_use \ (W \cup {reg})) \cup {}
        /\ \A r \in DOMAIN st.last_use \ (W \cup {reg}) : s.last_use[r] = st.last_use[r]
        /\ Len(st.out) <= Len(s.out)
    BY <1>0, <1>1, <1>3, <2>1, <2>2
  <2> QED
    BY <2>2, <2>4, <2>5, <2>6, <2>7 DEF Partway, s
<1> QED
  BY <1>2, <1>3

(* A read. *)
LEMMA UseEffect ==
  ASSUME NEW R, R \subseteq Register, NEW st, st \in Walks(R), NEW v, NEW p \in Nat, p < AFTER_BBL,
         Shape(v, R, p, p + 1), NEW reg \in R,
         NEW W, NEW D, NEW U, NEW cp, Partway(st, v, p, cp, W, D, U)
  PROVE  /\ Partway(st, AtUse(v, reg, p), p, cp, W, D, U \cup {reg})
         /\ SameCall(v, AtUse(v, reg, p))
<1> DEFINE s == AtUse(v, reg, p)
<1>0. /\ v \in Walks(R) /\ Len(v.out) \in Nat /\ Len(st.out) \in Nat
      /\ \A r \in DOMAIN v.last_use : v.last_use[r] \in 1 .. Len(v.out)
  BY Walking DEF Shape, IsOpen
<1>1. /\ Len(st.out) <= Len(v.out)
      /\ \A n \in 1 .. Len(st.out) : Survives(st, v, n, p, cp, W)
      /\ \A n \in 1 .. Len(v.out) : Len(st.out) < n => Made(v, n, p, D, U)
      /\ DOMAIN v.last_use = (DOMAIN st.last_use \ W) \cup U
      /\ \A r \in DOMAIN st.last_use \ W : v.last_use[r] = st.last_use[r]
      /\ \A r \in U \ (DOMAIN st.last_use \ W) : Len(st.out) < v.last_use[r]
      /\ \A r \in D \ DOMAIN st.last_use :
           RangeCpu[r] \in v.call_in => \E n \in 1 .. Len(v.out) : Argument(v, n, p, r)
  BY DEF Partway
<1>2. CASE reg \in DOMAIN v.last_use
  <2>1. Counted(v, s)
    BY <1>0, <1>2, CountEffect
  <2> HIDE DEF s
  <2>2. /\ Len(s.out) = Len(v.out) /\ SameCall(v, s) /\ s.last_use = v.last_use
        /\ \A n \in 1 .. Len(v.out) : Alike(v.out[n], s.out[n])
    BY <2>1 DEF Counted
  <2>3. ASSUME NEW n \in 1 .. Len(st.out)
        PROVE  Survives(st, s, n, p, cp, W)
    <3>1. Survives(st, v, n, p, cp, W) /\ n \in 1 .. Len(v.out) /\ Alike(v.out[n], s.out[n])
      BY <1>0, <1>1, <2>2
    <3> QED
      BY <3>1, TwoChanges DEF Survives
  <2>4. ASSUME NEW n \in 1 .. Len(s.out), Len(st.out) < n
        PROVE  Made(s, n, p, D, U \cup {reg})
    <3>1. Made(v, n, p, D, U) /\ Alike(v.out[n], s.out[n])
      BY <1>1, <2>2, <2>4
    <3> QED
      BY <2>2, <3>1 DEF Made, Unread, Started, Argument, Alike, SameCall
  <2>5. ASSUME NEW r \in D \ DOMAIN st.last_use, RangeCpu[r] \in s.call_in
        PROVE  \E n \in 1 .. Len(s.out) : Argument(s, n, p, r)
    <3>1. PICK n \in 1 .. Len(v.out) : Argument(v, n, p, r)
      BY <1>1, <2>2, <2>5 DEF SameCall
    <3>2. n \in 1 .. Len(s.out) /\ Argument(s, n, p, r)
      BY <2>2, <3>1 DEF Argument, Alike, SameCall
    <3> QED
      BY <3>2
  <2>6. /\ DOMAIN s.last_use = (DOMAIN st.last_use \ W) \cup (U \cup {reg})
        /\ \A r \in DOMAIN st.last_use \ W : s.last_use[r] = st.last_use[r]
        /\ \A r \in (U \cup {reg}) \ (DOMAIN st.last_use \ W) : Len(st.out) < s.last_use[r]
    BY <1>1, <1>2, <2>2
  <2> QED
    BY <1>1, <2>2, <2>3, <2>4, <2>5, <2>6 DEF Partway, s
<1>3. CASE reg \notin DOMAIN v.last_use
  <2>1. s = initialize_lr(v, p, reg)
    BY <1>3 DEF AtUse
  <2>2. Added(v, s, -1, p, reg) /\ NowOpen(v, s, reg)
    <3>1. p \in Int
      OBVIOUS
    <3> QED
      BY <1>0, <2>1, <3>1, OpenEffect
  <2> HIDE DEF s
  <2>3. /\ Len(s.out) = Len(v.out) + 1 /\ SameCall(v, s)
        /\ \A n \in 1 .. Len(v.out) : s.out[n] = v.out[n]
        /\ DOMAIN s.last_use = DOMAIN v.last_use \cup {reg} /\ s.last_use[reg] = Len(s.out)
        /\ \A r \in DOMAIN v.last_use : s.last_use[r] = v.last_use[r]
        /\ s.out[Len(s.out)].reg = reg /\ Started(s, Len(s.out), p)
    BY <1>3, <2>2 DEF Added, NowOpen, Started
  <2>4. ASSUME NEW n \in 1 .. Len(st.out)
        PROVE  Survives(st, s, n, p, cp, W)
    <3>1. Survives(st, v, n, p, cp, W) /\ n \in 1 .. Len(v.out) /\ s.out[n] = v.out[n]
      BY <1>0, <1>1, <2>3
    <3> QED
      BY <3>1 DEF Survives
  <2>5. ASSUME NEW n \in 1 .. Len(s.out), Len(st.out) < n
        PROVE  Made(s, n, p, D, U \cup {reg})
    <3>1. CASE n = Len(s.out)
      BY <2>3, <3>1 DEF Made
    <3>2. CASE n # Len(s.out)
      <4>1. n \in 1 .. Len(v.out)
        BY <1>0, <2>3, <3>2
      <4>2. Made(v, n, p, D, U) /\ s.out[n] = v.out[n]
        BY <1>1, <2>3, <2>5, <4>1
      <4> QED
        BY <2>3, <4>2 DEF Made, Unread, Started, Argument, SameCall
    <3> QED
      BY <3>1, <3>2
  <2>6. ASSUME NEW r \in D \ DOMAIN st.last_use, RangeCpu[r] \in s.call_in
        PROVE  \E n \in 1 .. Len(s.out) : Argument(s, n, p, r)
    <3>1. PICK n \in 1 .. Len(v.out) : Argument(v, n, p, r)
      BY <1>1, <2>3, <2>6 DEF SameCall
    <3>2. n \in 1 .. Len(s.out) /\ Argument(s, n, p, r)
      BY <1>0, <2>3, <3>1 DEF Argument, SameCall
    <3> QED
      BY <3>2
  <2>7. /\ DOMAIN s.last_use = (DOMAIN st.last_use \ W) \cup (U \cup {reg})
        /\ \A r \in DOMAIN st.last_use \ W : s.last_use[r] = st.last_use[r]
        /\ \A r \in (U \cup {reg}) \ (DOMAIN st.last_use \ W) : Len(st.out) < s.last_use[r]
        /\ Len(st.out) <= Len(s.out)
    BY <1>0, <1>1, <1>3, <2>3
  <2> QED
    BY <2>3, <2>4, <2>5, <2>6, <2>7 DEF Partway, s
<1> QED
  BY <1>2, <1>3

(* The nearest call behind an instruction, seen from in front of it. *)
Called(st, s, ins, p) ==
  IF ins.op = "ret" /\ FunOut # {} THEN s.call_pos = AFTER_BBL /\ s.call_in = FunOut
  ELSE IF ins.op = "call" THEN s.call_pos = p /\ s.call_in = ins.cin
  ELSE SameCall(st, s)
Returned(ins) == {r \in RangeReg : ins.op = "call" /\ RangeCpu[r] \in ins.cout}

(* A call ends the ranges of its results and is the nearest one then. *)
LEMMA CallEffect ==
  ASSUME NEW st, NEW p \in Nat, p < AFTER_BBL, Shape(st, RangeReg, p + 1, p + 1),
         RangeReg \subseteq Register, NEW ins, Readable(ins, RangeReg)
  PROVE  LET s == AtCallOrRet(st, ins, p, RangeCpu, FunOut)
         IN /\ Called(st, s, ins, p)
            /\ Partway(st, s, p, IF ins.op = "call" THEN st.call_pos ELSE s.call_pos,
                       Returned(ins), {}, {})
<1> DEFINE regs == {r \in DOMAIN st.last_use : RangeCpu[r] \in ins.cout}
           f == FinalizeAll(st, regs, p)
           s == AtCallOrRet(st, ins, p, RangeCpu, FunOut)
           cp == IF ins.op = "call" THEN st.call_pos ELSE s.call_pos
           W == Returned(ins)
<1>0. /\ st \in Walks(RangeReg) /\ Len(st.out) \in Nat /\ DOMAIN st.last_use \subseteq RangeReg
      /\ FunOut \in Calls
  <2>1. st \in Walks(RangeReg)
    BY DEF Shape
  <2> QED
    BY <2>1, Walking, PinnedAssumption DEF Calls
<1>1. ASSUME s.out = st.out, s.last_use = st.last_use, ins.op # "call"
      PROVE  Partway(st, s, p, cp, W, {}, {})
  <2>1. W = {}
    BY <1>1 DEF Returned
  <2>2. OpenOf(st, W \cap DOMAIN st.last_use) = {}
    BY <2>1 DEF OpenOf
  <2> HIDE DEF s, cp, W
  <2>3. \A n \in 1 .. Len(st.out) : Survives(st, s, n, p, cp, W)
    BY <1>1, <2>2 DEF Survives, Alike
  <2> QED
    BY <1>0, <1>1, <2>1, <2>3 DEF Partway
<1>2. CASE ins.op = "ret" /\ FunOut # {}
  <2>1. s = [st EXCEPT !.call_pos = AFTER_BBL, !.call_in = FunOut]
    BY <1>2 DEF AtCallOrRet
  <2> HIDE DEF s, cp
  <2>2. /\ s.out = st.out /\ s.last_use = st.last_use
        /\ s.call_pos = AFTER_BBL /\ s.call_in = FunOut
    BY <1>0, <2>1 DEF Walks
  <2>3. Called(st, s, ins, p)
    BY <1>2, <2>2 DEF Called
  <2>4. ins.op # "call"
    BY <1>2
  <2> QED
    BY <1>1, <2>2, <2>3, <2>4 DEF s, cp
<1>3. CASE ~(ins.op = "ret" /\ FunOut # {}) /\ ins.op = "call"
  <2>1. s = [f EXCEPT !.call_pos = p, !.call_in = ins.cin]
    BY <1>3 DEF AtCallOrRet, f
  <2>2. f \in Walks(RangeReg) /\ Finalized(st, f, regs, p)
    <3>1. regs \subseteq DOMAIN st.last_use /\ p + 1 \in Int /\ p < p + 1 /\ p <= AFTER_BBL /\ p \in Int
      BY DEF AFTER_BBL
    <3> HIDE DEF regs
    <3> QED
      BY <1>0, <3>1, Finalizing, FinalizeEffect DEF Shape
  <2> HIDE DEF f
  <2> DEFINE cin == ins.cin
  <2>3. s = [f EXCEPT !.call_pos = p, !.call_in = cin]
    BY <2>1
  <2> HIDE DEF s, cin
  <2>4. s.out = f.out /\ s.last_use = f.last_use /\ s.call_pos = p /\ s.call_in = cin
    BY <2>2, <2>3 DEF Walks
  <2>5. Called(st, s, ins, p)
    BY <1>3, <2>4 DEF Called, cin
  <2>6. W \cap DOMAIN st.last_use = regs
    BY <1>0, <1>3 DEF Returned
  <2>7. cp = st.call_pos
    BY <1>3
  <2> HIDE DEF W, regs, cp
  <2>8. \A n \in 1 .. Len(st.out) : Survives(st, s, n, p, cp, W)
    BY <2>2, <2>4, <2>6, <2>7 DEF Survives, Finalized
  <2>9. /\ Len(s.out) = Len(st.out) /\ DOMAIN s.last_use = DOMAIN st.last_use \ W
        /\ \A r \in DOMAIN st.last_use \ W : s.last_use[r] = st.last_use[r]
    BY <2>2, <2>4, <2>6 DEF Finalized
  <2>10. Partway(st, s, p, cp, W, {}, {})
    BY <1>0, <2>8, <2>9 DEF Partway
  <2> QED
    BY <2>5, <2>10 DEF s, cp, W
<1>4. CASE ~(ins.op = "ret" /\ FunOut # {}) /\ ins.op # "call"
  <2>1. s = st
    BY <1>4 DEF AtCallOrRet
  <2>2. Called(st, s, ins, p)
    BY <1>4, <2>1 DEF Called, SameCall
  <2> HIDE DEF s, cp
  <2> QED
    BY <1>1, <1>4, <2>1, <2>2 DEF s, cp
<1> QED
  BY <1>2, <1>3, <1>4

(* The list of ranges read names the open range of a register read once. *)
LEMMA UsedOnce ==
  ASSUME NEW st, NEW ins, ins.use \in Seq(Register),
         \A j \in 1 .. Len(ins.use) : st.last_use[ins.use[j]] \in Nat
  PROVE  /\ UsedRanges(st, ins) \in Seq(Nat)
         /\ \A r \in ToSet(ins.use) :
              \E k \in DOMAIN UsedRanges(st, ins) :
                /\ UsedRanges(st, ins)[k] = st.last_use[r]
                /\ \A j \in DOMAIN UsedRanges(st, ins) :
                     UsedRanges(st, ins)[j] = st.last_use[r] => j = k
<1> DEFINE used == UsedRanges(st, ins)
           n == Len(ins.use)
           I == [j \in 0 .. n |->
                   {v \in Seq(Nat) : /\ IsInjective(v)
                                     /\ \A k \in 1 .. j : st.last_use[ins.use[k]] \in ToSet(v)}]
<1>0. n \in Nat
  OBVIOUS
<1>1. <<>> \in I[0]
  BY <1>0 DEF IsInjective
<1>2. ASSUME NEW j \in 1 .. n, NEW v \in I[j - 1]
      PROVE  AddUsed(v, st.last_use[ins.use[j]]) \in I[j]
  <2> DEFINE t == st.last_use[ins.use[j]]
  <2>1. j - 1 \in 0 .. n /\ j \in 0 .. n /\ \A k \in 1 .. j : k \in 1 .. j - 1 \/ k = j
    BY <1>0
  <2>2. /\ v \in Seq(Nat) /\ IsInjective(v) /\ t \in Nat
        /\ \A k \in 1 .. j - 1 : st.last_use[ins.use[k]] \in ToSet(v)
    BY <2>1
  <2>3. \A k \in 1 .. j : st.last_use[ins.use[k]] \in ToSet(v) \cup {t}
    BY <2>1, <2>2
  <2>4. Contains(v, t) <=> t \in ToSet(v)
    BY <2>2, Containing
  <2> DEFINE w == AddUsed(v, t)
  <2>5. w \in Seq(Nat) /\ IsInjective(w) /\ ToSet(w) = ToSet(v) \cup {t}
    <3>1. CASE t \in ToSet(v)
      BY <2>2, <2>4, <3>1 DEF AddUsed
    <3>2. CASE t \notin ToSet(v)
      <4>1. w = Append(v, t)
        BY <2>4, <3>2 DEF AddUsed
      <4> HIDE DEF w, t
      <4> QED
        BY <2>2, <3>2, <4>1, Pushing
    <3> QED
      BY <3>1, <3>2
  <2> HIDE DEF w
  <2>6. w \in I[j]
    BY <2>1, <2>3, <2>5
  <2> QED
    BY <2>6 DEF w
<1>3. used \in I[n]
  <2>1. UsedStays(st, ins, I)
    <3> HIDE DEF I
    <3> QED
      BY <1>2 DEF UsedStays
  <2> HIDE DEF I
  <2> QED
    BY <1>1, <2>1, UsedLoop
<1>4. n \in 0 .. n
  BY <1>0
<1> HIDE DEF used
<1>5. /\ used \in Seq(Nat) /\ IsInjective(used)
      /\ \A k \in 1 .. n : st.last_use[ins.use[k]] \in ToSet(used)
  BY <1>3, <1>4
<1>6. ASSUME NEW r \in ToSet(ins.use)
      PROVE  \E k \in DOMAIN used :
               used[k] = st.last_use[r] /\ \A j \in DOMAIN used : used[j] = st.last_use[r] => j = k
  <2>1. PICK m \in 1 .. n : ins.use[m] = r
    BY DEF ToSet
  <2>2. st.last_use[r] \in ToSet(used)
    BY <1>5, <2>1
  <2>3. PICK k \in DOMAIN used : used[k] = st.last_use[r]
    BY <2>2 DEF ToSet
  <2> QED
    BY <1>5, <2>3 DEF IsInjective
<1> QED
  BY <1>5, <1>6 DEF used

Overwritten(p) == Returned(At(p)) \cup ToSet(At(p).def)
NamesOnce(e, m) ==
  \E k \in DOMAIN e.uses : e.uses[k] = m /\ \A j \in DOMAIN e.uses : e.uses[j] = m => j = k

(* From st, behind the instruction at p, to v, with all its operands seen. *)
Passes(st, v, p) ==
  /\ Shape(st, RangeReg, p + 1, p + 1) /\ Shape(v, RangeReg, p, p + 1)
  /\ Called(st, v, At(p), p)
  /\ Partway(st, v, p, IF At(p).op = "call" THEN st.call_pos ELSE v.call_pos,
             Overwritten(p), ToSet(At(p).def), ToSet(At(p).use))
(* From there to s, with the use entry of the instruction. *)
Notes(v, s, p) ==
  /\ s.last_use = v.last_use /\ SameCall(v, s)
  /\ At(p).use = <<>> => s.out = v.out
  /\ At(p).use # <<>> =>
       /\ Len(s.out) = Len(v.out) + 1 /\ \A n \in 1 .. Len(v.out) : s.out[n] = v.out[n]
       /\ s.out[Len(s.out)].reg = NoReg
       /\ s.out[Len(s.out)].def = p /\ s.out[Len(s.out)].last = p
       /\ \A r \in ToSet(At(p).use) : NamesOnce(s.out[Len(s.out)], v.last_use[r])

Upto(seq, j) == {seq[k] : k \in 1 .. j}

(* An instruction, from the position behind it to its own. *)
LEMMA InsEffect ==
  ASSUME Given, NEW p \in Pos, NEW st, Shape(st, RangeReg, p + 1, p + 1), CallAhead(st, p)
  PROVE  \E v : Passes(st, v, p) /\ Notes(v, AtIns(st, At(p), p, RangeCpu, FunOut), p)
<1> DEFINE R == RangeReg
           ins == At(p)
           s1 == AtCallOrRet(st, ins, p, RangeCpu, FunOut)
           s2 == AtDefs(s1, ins, p, RangeCpu)
           s3 == AtUses(s2, ins, p)
           s == AtIns(st, ins, p, RangeCpu, FunOut)
           used == UsedRanges(s3, ins)
           e == LiveRange(p, p, NoReg, 0, used)
           cp == IF ins.op = "call" THEN st.call_pos ELSE s1.call_pos
<1>0. /\ R \subseteq Register /\ p \in Nat /\ p < AFTER_BBL /\ Readable(ins, R)
      /\ Shape(st, R, p + 1, p + 1) /\ st \in Walks(R)
      /\ p \in Int /\ p + 1 \in Int /\ p - 1 \in Int
  <2>1. R \subseteq Register /\ p \in Nat /\ p < AFTER_BBL /\ Readable(ins, R)
    BY BblFacts
  <2> QED
    BY <2>1 DEF Shape
<1>1. /\ ins.def \in Seq(R) /\ ins.use \in Seq(R) /\ (ins.op = "call" => ins.def = <<>>)
      /\ ins.def \in Seq(Register) /\ ins.use \in Seq(Register)
      /\ Len(ins.def) \in Nat /\ Len(ins.use) \in Nat
  BY <1>0 DEF Readable
<1>2. /\ ToSet(ins.def) = Upto(ins.def, Len(ins.def)) /\ ToSet(ins.use) = Upto(ins.use, Len(ins.use))
      /\ Upto(ins.def, 0) = {} /\ Upto(ins.use, 0) = {}
  BY <1>1 DEF ToSet, Upto
<1>3. s = IF ins.use = <<>> THEN s3 ELSE [s3 EXCEPT !.out = Append(@, e)]
  BY DEF AtIns
<1> HIDE DEF s
<1>4. /\ Shape(s1, R, p + 1, p + 1) /\ (ins.op # "call" => CallAhead(s1, p))
      /\ Called(st, s1, ins, p) /\ Partway(st, s1, p, cp, Returned(ins), {}, {})
  BY <1>0, Calling, CallEffect
<1> HIDE DEF s1, R, ins
<1>5. /\ Shape(s2, R, p + 1, p + 1) /\ SameCall(s1, s2)
      /\ Partway(st, s2, p, cp, Returned(ins) \cup ToSet(ins.def), ToSet(ins.def), {})
  <2> DEFINE W(j) == Returned(ins) \cup Upto(ins.def, j)
             Fits(v, j) == /\ Shape(v, R, p + 1, p + 1) /\ (ins.op # "call" => CallAhead(v, p))
                           /\ SameCall(s1, v)
                           /\ Partway(st, v, p, cp, W(j), Upto(ins.def, j), {})
             I == [j \in 0 .. Len(ins.def) |-> {v \in Walks(R) : Fits(v, j)}]
  <2>1. s1 \in I[0]
    <3>1. W(0) = Returned(ins) /\ s1 \in Walks(R) /\ 0 \in 0 .. Len(ins.def) /\ SameCall(s1, s1)
      BY <1>1, <1>2, <1>4 DEF Shape, SameCall
    <3>2. Fits(s1, 0)
      BY <1>2, <1>4, <3>1
    <3> HIDE DEF Fits
    <3> QED
      BY <3>1, <3>2
  <2>2. ASSUME NEW j \in 1 .. Len(ins.def), NEW v \in I[j - 1]
        PROVE  AtDef(v, ins.def[j], p, RangeCpu) \in I[j]
    <3> DEFINE reg == ins.def[j]
               t == AtDef(v, reg, p, RangeCpu)
    <3>1. /\ ins.op # "call" /\ reg \in R /\ j - 1 \in 0 .. Len(ins.def) /\ j \in 0 .. Len(ins.def)
      BY <1>1
    <3>2. W(j) = W(j - 1) \cup {reg} /\ Upto(ins.def, j) = Upto(ins.def, j - 1) \cup {reg}
      <4>1. \A k \in 1 .. j : k \in 1 .. j - 1 \/ k = j
        BY <3>1
      <4>2. \A k \in 1 .. j - 1 : k \in 1 .. j
        BY <3>1
      <4> QED
        BY <4>1, <4>2 DEF Upto
    <3>3. Fits(v, j - 1) /\ v \in Walks(R)
      <4> HIDE DEF Fits
      <4> QED
        BY <3>1
    <3>4. /\ Shape(v, R, p + 1, p + 1) /\ CallAhead(v, p) /\ SameCall(s1, v) /\ cp = v.call_pos
          /\ Partway(st, v, p, v.call_pos, W(j - 1), Upto(ins.def, j - 1), {})
      <4>1. cp = v.call_pos
        BY <3>1, <3>3 DEF SameCall
      <4> HIDE DEF W, cp
      <4> QED
        BY <3>1, <3>3, <4>1
    <3> HIDE DEF reg, W, I, Fits
    <3>5. Shape(t, R, p + 1, p + 1) /\ CallAhead(t, p)
      BY <1>0, <3>1, <3>4, Defining
    <3>6. /\ Partway(st, t, p, v.call_pos, W(j), Upto(ins.def, j), {}) /\ SameCall(v, t)
      <4> DEFINE W0 == W(j - 1)
                 D0 == Upto(ins.def, j - 1)
      <4>1. Partway(st, v, p, v.call_pos, W0, D0, {})
        BY <3>4
      <4> HIDE DEF W0, D0, t
      <4>2. /\ Partway(st, t, p, v.call_pos, W0 \cup {reg}, D0 \cup {reg}, {}) /\ SameCall(v, t)
        BY <1>0, <3>1, <3>4, <4>1, DefEffect DEF t
      <4> QED
        BY <3>2, <4>2 DEF W0, D0
    <3> HIDE DEF t, cp
    <3>7. Fits(t, j)
      BY <3>4, <3>5, <3>6 DEF Fits, SameCall
    <3>8. t \in I[j]
      BY <3>1, <3>5, <3>7 DEF I, Shape
    <3> QED
      BY <3>8 DEF t, reg
  <2>3. DefsStays(s1, ins, p, RangeCpu, I)
    <3> HIDE DEF I
    <3> QED
      BY <2>2 DEF DefsStays
  <2>4. s2 \in I[Len(ins.def)]
    <3> HIDE DEF I
    <3> QED
      BY <1>1, <2>1, <2>3, DefsLoop
  <2>5. Fits(s2, Len(ins.def))
    <3> HIDE DEF Fits, s2
    <3>1. Len(ins.def) \in 0 .. Len(ins.def)
      BY <1>1
    <3> QED
      BY <2>4, <3>1
  <2> HIDE DEF s2, cp
  <2> QED
    BY <1>2, <2>5
<1> HIDE DEF s2
<1>6. /\ Shape(s3, R, p, p + 1) /\ SameCall(s2, s3)
      /\ Partway(st, s3, p, cp, Returned(ins) \cup ToSet(ins.def), ToSet(ins.def), ToSet(ins.use))
  <2> DEFINE W == Returned(ins) \cup ToSet(ins.def)
             D == ToSet(ins.def)
             Fits(v, j) == /\ Shape(v, R, p, p + 1) /\ CallAhead(v, p - 1) /\ SameCall(s2, v)
                           /\ Partway(st, v, p, cp, W, D, Upto(ins.use, j))
             I == [j \in 0 .. Len(ins.use) |-> {v \in Walks(R) : Fits(v, j)}]
  <2>1. s2 \in I[0]
    <3>1. Shape(s2, R, p, p + 1)
      <4>1. p <= p + 1 /\ p + 1 <= p + 1
        BY <1>0
      <4> QED
        BY <1>0, <1>5, <4>1, Relaxing
    <3>2. CallAhead(s2, p - 1)
      <4>1. st.call_pos \in Int /\ s1.call_pos \in Int
        BY <1>0, <1>4, Walking DEF Shape
      <4>2. CallAhead(s1, p - 1)
        BY <1>0, <1>4, <4>1 DEF CallAhead, Called, SameCall
      <4> QED
        BY <1>5, <4>2 DEF CallAhead, SameCall
    <3>3. s2 \in Walks(R) /\ 0 \in 0 .. Len(ins.use) /\ SameCall(s2, s2)
      BY <1>1, <1>5 DEF Shape, SameCall
    <3> HIDE DEF cp
    <3>4. Fits(s2, 0)
      BY <1>2, <1>5, <3>1, <3>2, <3>3
    <3> HIDE DEF Fits
    <3> QED
      BY <3>3, <3>4
  <2>2. ASSUME NEW j \in 1 .. Len(ins.use), NEW v \in I[j - 1]
        PROVE  AtUse(v, ins.use[j], p) \in I[j]
    <3> DEFINE reg == ins.use[j]
               t == AtUse(v, reg, p)
    <3>1. reg \in R /\ j - 1 \in 0 .. Len(ins.use) /\ j \in 0 .. Len(ins.use)
      BY <1>1
    <3>2. Upto(ins.use, j) = Upto(ins.use, j - 1) \cup {reg}
      <4>1. \A k \in 1 .. j : k \in 1 .. j - 1 \/ k = j
        BY <3>1
      <4>2. \A k \in 1 .. j - 1 : k \in 1 .. j
        BY <3>1
      <4> QED
        BY <4>1, <4>2 DEF Upto
    <3>3. Fits(v, j - 1) /\ v \in Walks(R)
      <4> HIDE DEF Fits
      <4> QED
        BY <3>1
    <3> HIDE DEF reg, I, cp, W, D
    <3>4. /\ Shape(v, R, p, p + 1) /\ CallAhead(v, p - 1) /\ SameCall(s2, v)
          /\ Partway(st, v, p, cp, W, D, Upto(ins.use, j - 1))
      BY <3>3
    <3> HIDE DEF Fits
    <3>5. Noted(v, t, R, p, reg)
      <4> HIDE DEF t
      <4> QED
        BY <1>0, <3>1, <3>4, Using DEF t
    <3>6. Partway(st, t, p, cp, W, D, Upto(ins.use, j)) /\ SameCall(v, t)
      BY <1>0, <3>1, <3>2, <3>4, UseEffect
    <3> HIDE DEF t
    <3>7. Fits(t, j)
      BY <3>4, <3>5, <3>6 DEF Fits, SameCall, Noted
    <3>8. t \in I[j]
      BY <3>1, <3>5, <3>7 DEF I, Shape, Noted
    <3> QED
      BY <3>8 DEF t, reg
  <2>3. UsesStays(s2, ins, p, I)
    <3> HIDE DEF I
    <3> QED
      BY <2>2 DEF UsesStays
  <2>4. s3 \in I[Len(ins.use)]
    <3> HIDE DEF I
    <3> QED
      BY <1>1, <2>1, <2>3, UsesLoop
  <2>5. Fits(s3, Len(ins.use))
    <3> HIDE DEF Fits, s3
    <3>1. Len(ins.use) \in 0 .. Len(ins.use)
      BY <1>1
    <3> QED
      BY <2>4, <3>1
  <2> HIDE DEF s3, cp
  <2> QED
    BY <1>2, <2>5
<1> HIDE DEF s3
<1>7. SameCall(s1, s3)
  BY <1>5, <1>6 DEF SameCall
<1>8. Passes(st, s3, p)
  <2>1. Called(st, s3, ins, p)
    BY <1>4, <1>7 DEF Called, SameCall
  <2>2. cp = IF ins.op = "call" THEN st.call_pos ELSE s3.call_pos
    BY <1>7 DEF SameCall
  <2> HIDE DEF cp
  <2> QED
    BY <1>0, <1>6, <2>1, <2>2 DEF Passes, Overwritten, ins, R
<1>9. Notes(s3, s, p)
  <2>1. s3 \in Walks(R) /\ s3.out \in Seq(Plain) /\ Len(s3.out) \in Nat
        /\ \A r \in DOMAIN s3.last_use : s3.last_use[r] \in Nat
    <3>1. s3 \in Walks(R)
      BY <1>6 DEF Shape
    <3> QED
      BY <1>0, <3>1, Walking
  <2>2. \A j \in 1 .. Len(ins.use) : s3.last_use[ins.use[j]] \in Nat
    <3>1. ToSet(ins.use) \subseteq DOMAIN s3.last_use
      BY <1>6 DEF Partway
    <3>2. \A j \in 1 .. Len(ins.use) : ins.use[j] \in ToSet(ins.use)
      BY <1>1 DEF ToSet
    <3> QED
      BY <2>1, <3>1, <3>2
  <2>3. CASE ins.use = <<>>
    BY <1>3, <2>3 DEF Notes, SameCall, ins
  <2>4. CASE ins.use # <<>>
    <3>1. \A r \in ToSet(ins.use) : NamesOnce(e, s3.last_use[r])
      <4>1. \A r \in ToSet(ins.use) : \E k \in DOMAIN used : used[k] = s3.last_use[r]
               /\ \A j \in DOMAIN used : used[j] = s3.last_use[r] => j = k
        BY <1>1, <2>2, UsedOnce
      <4>2. e.uses = used
        BY DEF LiveRange
      <4> HIDE DEF e, used
      <4> QED
        BY <4>1, <4>2 DEF NamesOnce
    <3>2. e.reg = NoReg /\ e.def = p /\ e.last = p
      BY DEF LiveRange
    <3> DEFINE out == Append(s3.out, e)
    <3>3. s = [s3 EXCEPT !.out = out]
      BY <1>3, <2>4
    <3>4. /\ s.out = out /\ s.last_use = s3.last_use /\ s.call_pos = s3.call_pos
          /\ s.call_in = s3.call_in
      BY <2>1, <3>3 DEF Walks
    <3> HIDE DEF e
    <3>5. /\ Len(out) = Len(s3.out) + 1 /\ out[Len(out)] = e
          /\ \A n \in 1 .. Len(s3.out) : out[n] = s3.out[n]
      BY <2>1
    <3> HIDE DEF out
    <3> QED
      BY <2>4, <3>1, <3>2, <3>4, <3>5 DEF Notes, SameCall, ins
  <2> QED
    BY <2>3, <2>4
<1> QED
  BY <1>8, <1>9 DEF s, ins

-----------------------------------------------------------------------------
(* What the walk knows when positions from p on are behind it.             *)
IsRange(st, n) == n \in 1 .. Len(st.out) /\ st.out[n].reg \in RangeReg
CoversAt(st, n, r, q) == n \in 1 .. Len(st.out) /\ st.out[n].reg = r /\ Covers(st.out[n], q)
ReadWithin(a, b, r) == \E q \in Pos : a < q /\ q < b /\ Reads(q, r)
Holds(st, r, e) == r \in DOMAIN st.last_use /\ e <= st.out[st.last_use[r]].last

(* a range is open, and the one last_use names, or starts at p or later;   *)
Settled(st, p) ==
  \A n : IsRange(st, n) =>
    /\ st.out[n].def = -1 => /\ st.out[n].reg \in DOMAIN st.last_use
                             /\ st.last_use[st.out[n].reg] = n /\ st.out[n].last # NO_USE
    /\ st.out[n].def # -1 => p <= st.out[n].def
(* the virtual registers with an open range are those live in front of p;  *)
Entered(st, p) ==
  \A r \in RangeReg : Virtual(r) => (r \in DOMAIN st.last_use <=> LiveAfter(p - 1, r))
(* one range covers a position where a virtual register is live, else none; *)
Exactly(st, p) ==
  \A r \in RangeReg, q \in Pos : Virtual(r) /\ p <= q =>
    /\ LiveAfter(q, r) <=> \E n : CoversAt(st, n, r, q)
    /\ \A n, m : CoversAt(st, n, r, q) /\ CoversAt(st, m, r, q) => n = m
(* call_pos is the nearest call, or tells that there is none;              *)
Nearest(st, p) ==
  \/ \E c \in Pos : /\ p <= c /\ At(c).op = "call" /\ st.call_pos = c /\ st.call_in = At(c).cin
                    /\ \A d \in Pos : p <= d /\ At(d).op = "call" => c <= d
  \/ /\ \A d \in Pos : p <= d => At(d).op # "call"
     /\ \/ st.call_pos = -1 /\ st.call_in = {}
        \/ st.call_pos = AFTER_BBL /\ st.call_in = FunOut
(* a virtual register's range that is complete is flagged for a call in it; *)
Flagged(lr) ==
  lr.lac <=> \E c \in Pos : At(c).op = "call" /\ lr.def < c /\ c < lr.last
Flags(st, p) ==
  \A n : /\ IsRange(st, n) /\ Virtual(st.out[n].reg)
         /\ st.out[n].def # -1 /\ st.out[n].last # NO_USE
         => Flagged(st.out[n])
(* a value in a machine register that is still to be used is known of;     *)
Reaches(st, p) ==
  \A r \in RangeReg, e \in Pos : ~Virtual(r) /\ p <= e /\ ~WrittenWithin(p - 1, e, r) =>
    /\ Reads(e, r) => Holds(st, r, e)
    /\ Takes(e, r) /\ ~ReadWithin(p - 1, e, r) =>
         \/ Holds(st, r, e)
         \/ r \notin DOMAIN st.last_use /\ RangeCpu[r] \in st.call_in /\ e <= st.call_pos
(* so that the range of its definition reaches its use;                    *)
Feeds(st, p) ==
  \A r \in RangeReg, d, e \in Pos :
    /\ ~Virtual(r) /\ p <= d /\ d < e /\ Contains(At(d).def, r) /\ ~WrittenWithin(d, e, r)
    /\ Reads(e, r) \/ (Takes(e, r) /\ ~ReadWithin(d, e, r))
    => \E n \in 1 .. Len(st.out) : \A q \in d .. (e - 1) : CoversAt(st, n, r, q)
(* a use entry names a range that ends where its instruction reads it.     *)
EndsAt(st, n, m) ==
  /\ IsRange(st, m) /\ st.out[m].last = st.out[n].def
  /\ Contains(At(st.out[n].def).use, st.out[m].reg)
Named(st, p) ==
  \A n \in 1 .. Len(st.out) : st.out[n].reg = NoReg =>
    /\ st.out[n].def \in Pos
    /\ \A m : EndsAt(st, n, m) => NamesOnce(st.out[n], m)

Known(st, p) ==
  /\ Settled(st, p) /\ Entered(st, p) /\ Exactly(st, p) /\ Nearest(st, p) /\ Flags(st, p)
  /\ Reaches(st, p) /\ Feeds(st, p) /\ Named(st, p)
Walked(st, p) == Shape(st, RangeReg, p, p) /\ CallAhead(st, p - 1) /\ Known(st, p)

(* What an instruction at p makes of a range: if it is of a register that  *)
(* was written, it starts there.                                           *)
Carried(st, v, n, p, cp) ==
  /\ IsRange(v, n) /\ v.out[n].reg = st.out[n].reg /\ v.out[n].last = st.out[n].last
  /\ IF st.out[n].def = -1 /\ st.out[n].reg \in Overwritten(p)
     THEN v.out[n].def = p /\ (v.out[n].lac <=> Crossing(cp, st.out[n].last))
     ELSE v.out[n].def = st.out[n].def /\ v.out[n].lac = st.out[n].lac
Passed(st, v, p) ==
  LET cp == IF At(p).op = "call" THEN st.call_pos ELSE v.call_pos
      stay == DOMAIN st.last_use \ Overwritten(p)
      D == ToSet(At(p).def)
      U == ToSet(At(p).use)
  IN /\ \A n : IsRange(st, n) => Carried(st, v, n, p, cp)
     /\ \A n : IsRange(v, n) => IsRange(st, n) \/ (n \notin 1 .. Len(st.out) /\ Made(v, n, p, D, U))
     /\ \A n : IsRange(st, n) => /\ st.out[n].def \in Int /\ st.out[n].last \in Int
                                 /\ p + 1 <= st.out[n].last
     /\ DOMAIN v.last_use = stay \cup U /\ DOMAIN v.last_use \subseteq RangeReg
     /\ DOMAIN st.last_use \subseteq RangeReg
     /\ \A r \in DOMAIN st.last_use : /\ IsRange(st, st.last_use[r]) /\ st.out[st.last_use[r]].reg = r
                                      /\ st.out[st.last_use[r]].def = -1
     /\ \A r \in DOMAIN v.last_use : /\ IsRange(v, v.last_use[r]) /\ v.out[v.last_use[r]].reg = r
                                     /\ v.out[v.last_use[r]].def = -1 /\ p <= v.out[v.last_use[r]].last
     /\ \A r \in stay : v.last_use[r] = st.last_use[r]
     /\ \A r \in D \ DOMAIN st.last_use :
          RangeCpu[r] \in v.call_in => \E n : IsRange(v, n) /\ Argument(v, n, p, r)

(* The effect of an instruction in these terms. *)
LEMMA Passing ==
  ASSUME Given, NEW p \in Pos, NEW st, NEW v, Passes(st, v, p), Settled(st, p + 1)
  PROVE  Passed(st, v, p)
<1> DEFINE R == RangeReg
           cp == IF At(p).op = "call" THEN st.call_pos ELSE v.call_pos
           stay == DOMAIN st.last_use \ Overwritten(p)
           D == ToSet(At(p).def)
           U == ToSet(At(p).use)
<1>1. /\ R \subseteq Register /\ NoReg \notin R /\ p \in Nat /\ p < AFTER_BBL /\ Readable(At(p), R)
      /\ p \in Int /\ p + 1 \in Int
  BY BblFacts, PinnedAssumption
<1>2. /\ st \in Walks(R) /\ v \in Walks(R) /\ Entries(st.out, R, p + 1) /\ Entries(v.out, R, p + 1)
      /\ \A r \in DOMAIN st.last_use : IsOpen(st.out, st.last_use[r], r, p + 1)
      /\ \A r \in DOMAIN v.last_use : IsOpen(v.out, v.last_use[r], r, p)
      /\ Partway(st, v, p, cp, Overwritten(p), D, U)
  BY DEF Passes, Shape
<1>3. /\ Len(st.out) \in Nat /\ Len(v.out) \in Nat
      /\ \A n \in 1 .. Len(st.out) : st.out[n] \in Plain
      /\ DOMAIN st.last_use \subseteq R /\ DOMAIN v.last_use \subseteq R
  BY <1>1, <1>2, Walking
<1>4. /\ Len(st.out) <= Len(v.out)
      /\ \A n \in 1 .. Len(st.out) : Survives(st, v, n, p, cp, Overwritten(p))
      /\ \A n \in 1 .. Len(v.out) : Len(st.out) < n => Made(v, n, p, D, U)
      /\ DOMAIN v.last_use = stay \cup U
      /\ \A r \in stay : v.last_use[r] = st.last_use[r]
      /\ \A r \in D \ DOMAIN st.last_use :
           RangeCpu[r] \in v.call_in => \E n \in 1 .. Len(v.out) : Argument(v, n, p, r)
  BY <1>2 DEF Partway
<1>5. D \subseteq R /\ U \subseteq R
  <2>1. At(p).def \in Seq(R) /\ At(p).use \in Seq(R)
    BY <1>1 DEF Readable
  <2> QED
    BY <2>1 DEF ToSet
<1>6. \A r \in DOMAIN st.last_use :
        /\ IsRange(st, st.last_use[r]) /\ st.out[st.last_use[r]].reg = r
        /\ st.out[st.last_use[r]].def = -1 /\ p + 1 <= st.out[st.last_use[r]].last
  BY <1>2, <1>3 DEF IsOpen, IsRange
<1>7. \A r \in DOMAIN v.last_use :
        /\ IsRange(v, v.last_use[r]) /\ v.out[v.last_use[r]].reg = r
        /\ v.out[v.last_use[r]].def = -1 /\ p <= v.out[v.last_use[r]].last
  BY <1>2, <1>3 DEF IsOpen, IsRange
<1> HIDE DEF R, cp, D, U
<1>8. ASSUME NEW n, IsRange(st, n)
      PROVE  /\ Carried(st, v, n, p, cp) /\ st.out[n].def \in Int /\ st.out[n].last \in Int
             /\ p + 1 <= st.out[n].last
  <2>1. n \in 1 .. Len(st.out) /\ st.out[n].reg \in R /\ n \in 1 .. Len(v.out)
    BY <1>3, <1>4, <1>8 DEF IsRange, R
  <2>2. Survives(st, v, n, p, cp, Overwritten(p))
    BY <1>4, <2>1
  <2>3. n \in OpenOf(st, Overwritten(p) \cap DOMAIN st.last_use)
          <=> st.out[n].def = -1 /\ st.out[n].reg \in Overwritten(p)
    <3>1. ASSUME n \in OpenOf(st, Overwritten(p) \cap DOMAIN st.last_use)
          PROVE  st.out[n].def = -1 /\ st.out[n].reg \in Overwritten(p)
      BY <1>6, <3>1 DEF OpenOf
    <3>2. ASSUME st.out[n].def = -1, st.out[n].reg \in Overwritten(p)
          PROVE  n \in OpenOf(st, Overwritten(p) \cap DOMAIN st.last_use)
      BY <1>8, <3>2 DEF OpenOf, Settled
    <3> QED
      BY <3>1, <3>2
  <2>4. Carried(st, v, n, p, cp)
    <3>1. v.out[n].reg = st.out[n].reg /\ v.out[n].last = st.out[n].last
      BY <2>2 DEF Survives, Closed, Alike
    <3>2. IsRange(v, n)
      BY <2>1, <3>1 DEF IsRange, R
    <3> QED
      BY <2>2, <2>3, <3>1, <3>2 DEF Carried, Survives, Closed, Alike
  <2>5. st.out[n].def \in Int /\ st.out[n].last \in Int
    BY <1>3, <2>1 DEF Plain
  <2>6. p + 1 <= st.out[n].last
    <3>1. CASE st.out[n].def = -1
      BY <1>6, <1>8, <3>1 DEF Settled
    <3>2. CASE st.out[n].def # -1
      <4>1. p + 1 <= st.out[n].def
        BY <1>8, <3>2 DEF Settled
      <4>2. st.out[n].def < st.out[n].last
        BY <1>1, <1>2, <2>1 DEF Entries, Entry, is_use_lr
      <4> QED
        BY <1>1, <2>5, <4>1, <4>2
    <3> QED
      BY <3>1, <3>2
  <2> QED
    BY <2>4, <2>5, <2>6
<1>9. ASSUME NEW n, IsRange(v, n)
      PROVE  IsRange(st, n) \/ (n \notin 1 .. Len(st.out) /\ Made(v, n, p, D, U))
  <2>1. CASE n \in 1 .. Len(st.out)
    <3>1. v.out[n].reg = st.out[n].reg
      BY <1>4, <2>1 DEF Survives, Closed, Alike
    <3> QED
      BY <1>9, <2>1, <3>1 DEF IsRange
  <2>2. CASE n \notin 1 .. Len(st.out)
    BY <1>3, <1>4, <1>9, <2>2 DEF IsRange
  <2> QED
    BY <2>1, <2>2
<1>10. ASSUME NEW r \in D \ DOMAIN st.last_use, RangeCpu[r] \in v.call_in
       PROVE  \E n : IsRange(v, n) /\ Argument(v, n, p, r)
  <2>1. PICK n \in 1 .. Len(v.out) : Argument(v, n, p, r)
    BY <1>4, <1>10
  <2>2. r \in R
    BY <1>5
  <2>3. IsRange(v, n)
    BY <2>1, <2>2 DEF IsRange, Argument, R
  <2> QED
    BY <2>1, <2>3
<1> QED
  BY <1>3, <1>4, <1>6, <1>7, <1>8, <1>9, <1>10 DEF Passed, R, cp, D, U

(* Which registers an instruction writes. *)
LEMMA Overwriting ==
  ASSUME Given, NEW p \in Pos, NEW r \in RangeReg
  PROVE  /\ r \in ToSet(At(p).def) <=> Contains(At(p).def, r)
         /\ r \in ToSet(At(p).use) <=> Reads(p, r)
         /\ Virtual(r) => (r \in Overwritten(p) <=> Writes(p, r))
         /\ r \in Overwritten(p) => Writes(p, r)
         /\ r \in ToSet(At(p).def) => r \in Overwritten(p)
         /\ ~Virtual(r) /\ At(p).op = "call" => Writes(p, r)
<1>1. /\ At(p).def \in Seq(RangeReg) /\ At(p).use \in Seq(RangeReg)
      /\ At(p).cout \in SUBSET SUBSET Unit
  BY BblFacts DEF Readable
<1>2. /\ r \in ToSet(At(p).def) <=> Contains(At(p).def, r)
      /\ r \in ToSet(At(p).use) <=> Contains(At(p).use, r)
  BY <1>1, Containing
<1>3. NoCpuReg \notin At(p).cout
  BY <1>1, NoneTaken
<1> QED
  BY <1>2, <1>3 DEF Overwritten, Returned, Writes, Reads, Virtual

-----------------------------------------------------------------------------
(* Each part of what the walk knows, from behind an instruction to its own *)
(* position.                                                               *)
Passage(st, v, p) == Passes(st, v, p) /\ Passed(st, v, p) /\ Settled(st, p + 1)

(* Open ranges are those of last_use, others have started. *)
LEMMA SettledStep ==
  ASSUME Given, NEW p \in Pos, NEW st, NEW v, Passage(st, v, p)
  PROVE  Settled(v, p)
<1>1. p \in Nat /\ p < AFTER_BBL
  BY BblFacts
<1> SUFFICES ASSUME NEW n, IsRange(v, n)
             PROVE  /\ v.out[n].def = -1 => /\ v.out[n].reg \in DOMAIN v.last_use
                                            /\ v.last_use[v.out[n].reg] = n /\ v.out[n].last # NO_USE
                    /\ v.out[n].def # -1 => p <= v.out[n].def
  BY DEF Settled
<1>2. CASE IsRange(st, n)
  <2>1. /\ v.out[n].reg = st.out[n].reg /\ v.out[n].last = st.out[n].last
        /\ IF st.out[n].def = -1 /\ st.out[n].reg \in Overwritten(p) THEN v.out[n].def = p
           ELSE v.out[n].def = st.out[n].def
        /\ st.out[n].def \in Int
    BY <1>2 DEF Passage, Passed, Carried
  <2>2. CASE st.out[n].def = -1 /\ st.out[n].reg \in Overwritten(p)
    BY <1>1, <2>1, <2>2
  <2>3. CASE st.out[n].def = -1 /\ st.out[n].reg \notin Overwritten(p)
    <3> DEFINE r == st.out[n].reg
    <3>1. r \in DOMAIN st.last_use /\ st.last_use[r] = n /\ st.out[n].last # NO_USE
      BY <1>2, <2>3 DEF Passage, Settled
    <3>2. r \in DOMAIN v.last_use /\ v.last_use[r] = st.last_use[r]
      BY <2>3, <3>1 DEF Passage, Passed
    <3> QED
      BY <2>1, <2>3, <3>1, <3>2
  <2>4. CASE st.out[n].def # -1
    <3>1. p + 1 <= st.out[n].def
      BY <1>2, <2>4 DEF Passage, Settled
    <3> QED
      BY <1>1, <2>1, <2>4, <3>1
  <2> QED
    BY <2>2, <2>3, <2>4
<1>3. CASE ~IsRange(st, n)
  <2>1. Made(v, n, p, ToSet(At(p).def), ToSet(At(p).use))
    BY <1>3 DEF Passage, Passed
  <2> QED
    BY <1>1, <2>1 DEF Made, Unread, Started, NO_USE, AFTER_BBL
<1> QED
  BY <1>2, <1>3

(* The virtual registers with an open range are those that are live. *)
LEMMA EnteredStep ==
  ASSUME Given, NEW p \in Pos, NEW st, NEW v, Passage(st, v, p), Entered(st, p + 1)
  PROVE  Entered(v, p)
<1> SUFFICES ASSUME NEW r \in RangeReg, Virtual(r)
             PROVE  r \in DOMAIN v.last_use <=> LiveAfter(p - 1, r)
  BY DEF Entered
<1>1. r \in DOMAIN st.last_use <=> LiveAfter(p, r)
  <2>1. (p + 1) - 1 = p
    BY BblFacts
  <2> QED
    BY <2>1 DEF Entered
<1>2. DOMAIN v.last_use = (DOMAIN st.last_use \ Overwritten(p)) \cup ToSet(At(p).use)
  BY DEF Passage, Passed
<1> QED
  BY <1>1, <1>2, Overwriting, LiveBefore

(* A new range of a virtual register covers nothing yet. *)
LEMMA NothingNew ==
  ASSUME Given, NEW p \in Pos, NEW st, NEW v, Passage(st, v, p),
         NEW n, IsRange(v, n), ~IsRange(st, n), Virtual(v.out[n].reg)
  PROVE  v.out[n].last = NO_USE \/ (v.out[n].def = -1 /\ v.out[n].last = p)
<1>1. Made(v, n, p, ToSet(At(p).def), ToSet(At(p).use))
  BY DEF Passage, Passed
<1>2. NoCpuReg \notin v.call_in
  <2>1. v \in Walks(RangeReg)
    BY DEF Passage, Passes, Shape
  <2>2. v.call_in \in SUBSET SUBSET Unit
    BY <2>1, BblFacts, Walking
  <2> QED
    BY <2>2, NoneTaken
<1> QED
  BY <1>1, <1>2 DEF Made, Unread, Started, Argument, Virtual

(* Where a virtual register is live one of its ranges covers. *)
LEMMA ExactlyStep ==
  ASSUME Given, NEW p \in Pos, NEW st, NEW v, Passage(st, v, p),
         Entered(st, p + 1), Exactly(st, p + 1)
  PROVE  Exactly(v, p)
<1>1. p \in Int /\ p \in Nat /\ (p + 1) - 1 = p /\ \A q \in Pos : q \in Nat
  BY BblFacts
<1>2. ASSUME NEW r \in RangeReg, Virtual(r), NEW q \in Pos, p <= q, NEW n, CoversAt(v, n, r, q)
      PROVE  /\ IsRange(st, n) /\ st.out[n].reg = r /\ st.out[n].last = v.out[n].last
             /\ Carried(st, v, n, p, IF At(p).op = "call" THEN st.call_pos ELSE v.call_pos)
  <2>1. IsRange(v, n) /\ v.out[n].reg = r /\ v.out[n].last # NO_USE /\ q < v.out[n].last
    BY <1>2 DEF CoversAt, Covers, IsRange
  <2>2. IsRange(st, n)
    BY <1>1, <1>2, <2>1, NothingNew
  <2> QED
    BY <2>1, <2>2 DEF Passage, Passed, Carried
<1>3. ASSUME NEW r \in RangeReg, Virtual(r), NEW q \in Pos, p < q, NEW n
      PROVE  CoversAt(v, n, r, q) <=> CoversAt(st, n, r, q)
  <2>1. ASSUME CoversAt(v, n, r, q)
        PROVE  CoversAt(st, n, r, q)
    BY <1>1, <1>2, <1>3, <2>1 DEF CoversAt, Covers, IsRange, Carried
  <2>2. ASSUME CoversAt(st, n, r, q)
        PROVE  CoversAt(v, n, r, q)
    <3>1. IsRange(st, n)
      BY <2>2 DEF CoversAt, IsRange
    <3>2. Carried(st, v, n, p, IF At(p).op = "call" THEN st.call_pos ELSE v.call_pos)
      BY <3>1 DEF Passage, Passed
    <3> QED
      BY <1>1, <1>3, <2>2, <3>2 DEF CoversAt, Covers, IsRange, Carried
  <2> QED
    BY <2>1, <2>2
<1>4. ASSUME NEW r \in RangeReg, Virtual(r), NEW n
      PROVE  CoversAt(v, n, r, p) <=> r \in DOMAIN st.last_use /\ n = st.last_use[r]
  <2>1. ASSUME CoversAt(v, n, r, p)
        PROVE  r \in DOMAIN st.last_use /\ n = st.last_use[r]
    <3>1. /\ IsRange(st, n) /\ st.out[n].reg = r
          /\ Carried(st, v, n, p, IF At(p).op = "call" THEN st.call_pos ELSE v.call_pos)
      BY <1>1, <1>2, <1>4, <2>1
    <3>2. v.out[n].def <= p
      BY <2>1 DEF CoversAt, Covers
    <3>3. st.out[n].def = -1
      <4>1. SUFFICES ASSUME st.out[n].def # -1
                     PROVE  FALSE
        OBVIOUS
      <4>2. p + 1 <= st.out[n].def /\ v.out[n].def = st.out[n].def /\ st.out[n].def \in Int
        BY <3>1, <4>1 DEF Passage, Settled, Passed, Carried
      <4> QED
        BY <1>1, <3>2, <4>2
    <3> QED
      BY <3>1, <3>3 DEF Passage, Settled
  <2>2. ASSUME r \in DOMAIN st.last_use, n = st.last_use[r]
        PROVE  CoversAt(v, n, r, p)
    <3>1. IsRange(st, n) /\ st.out[n].reg = r /\ st.out[n].def = -1
      BY <2>2 DEF Passage, Passed
    <3>2. p + 1 <= st.out[n].last /\ st.out[n].last \in Int /\ st.out[n].last # NO_USE
      BY <3>1 DEF Passage, Passed, Settled
    <3>3. Carried(st, v, n, p, IF At(p).op = "call" THEN st.call_pos ELSE v.call_pos)
      BY <3>1 DEF Passage, Passed
    <3> QED
      BY <1>1, <3>1, <3>2, <3>3 DEF CoversAt, Covers, IsRange, Carried
  <2> QED
    BY <2>1, <2>2
<1> SUFFICES ASSUME NEW r \in RangeReg, NEW q \in Pos, Virtual(r), p <= q
             PROVE  /\ LiveAfter(q, r) <=> \E n : CoversAt(v, n, r, q)
                    /\ \A n, m : CoversAt(v, n, r, q) /\ CoversAt(v, m, r, q) => n = m
  BY DEF Exactly
<1>5. CASE q = p
  <2>1. r \in DOMAIN st.last_use <=> LiveAfter(p, r)
    BY <1>1 DEF Entered
  <2> QED
    BY <1>4, <1>5, <2>1
<1>6. CASE q # p
  <2>1. p < q /\ p + 1 <= q
    BY <1>1, <1>6
  <2>2. /\ LiveAfter(q, r) <=> \E n : CoversAt(st, n, r, q)
        /\ \A n, m : CoversAt(st, n, r, q) /\ CoversAt(st, m, r, q) => n = m
    BY <2>1 DEF Exactly
  <2>3. \A n : CoversAt(v, n, r, q) <=> CoversAt(st, n, r, q)
    BY <1>3, <2>1
  <2> QED
    BY <2>2, <2>3
<1> QED
  BY <1>5, <1>6

(* The nearest call. *)
LEMMA NearestStep ==
  ASSUME Given, NEW p \in Pos, NEW st, NEW v, Called(st, v, At(p), p), Nearest(st, p + 1)
  PROVE  Nearest(v, p)
<1>1. /\ p \in Nat /\ \A q \in Pos : q \in Nat /\ (p <= q <=> q = p \/ p + 1 <= q)
      /\ (At(p).op = "ret" => \A q \in Pos : p <= q => q = p)
  <2>1. p \in Nat /\ Len(bbl) \in Nat /\ (At(p).op = "ret" => p = Len(bbl) - 1)
    BY BblFacts
  <2> QED
    BY <2>1 DEF Pos
<1>2. CASE At(p).op = "ret" /\ FunOut # {}
  <2>1. v.call_pos = AFTER_BBL /\ v.call_in = FunOut
    BY <1>2 DEF Called
  <2>2. \A q \in Pos : p <= q => At(q).op # "call"
    BY <1>1, <1>2
  <2> QED
    BY <2>1, <2>2 DEF Nearest
<1>3. CASE At(p).op = "call"
  <2>1. v.call_pos = p /\ v.call_in = At(p).cin
    BY <1>3 DEF Called
  <2>2. p <= p
    BY <1>1
  <2> QED
    BY <1>3, <2>1, <2>2 DEF Nearest
<1>4. CASE ~(At(p).op = "ret" /\ FunOut # {}) /\ At(p).op # "call"
  <2>1. SameCall(st, v)
    BY <1>4 DEF Called
  <2> QED
    BY <1>1, <1>4, <2>1 DEF Nearest, SameCall
<1> QED
  BY <1>2, <1>3, <1>4

(* Comparing with the nearest call tells whether there is one before x. *)
LEMMA NextCall ==
  ASSUME Given, NEW x \in Int, NEW s, NEW k \in Int, NEW p \in Int, Nearest(s, k),
         \A d \in Pos : At(d).op = "call" => (k <= d <=> p < d)
  PROVE  Crossing(s.call_pos, x) <=> \E c \in Pos : At(c).op = "call" /\ p < c /\ c < x
<1>1. \A c \in Pos : c \in Nat /\ c < AFTER_BBL
  BY BblFacts
<1>2. CASE \E c \in Pos : /\ k <= c /\ At(c).op = "call" /\ s.call_pos = c
                          /\ \A d \in Pos : k <= d /\ At(d).op = "call" => c <= d
  <2>1. PICK c \in Pos : /\ k <= c /\ At(c).op = "call" /\ s.call_pos = c
                         /\ \A d \in Pos : k <= d /\ At(d).op = "call" => c <= d
    BY <1>2
  <2>2. Crossing(s.call_pos, x) <=> c < x
    BY <1>1, <2>1 DEF Crossing, AFTER_BBL
  <2>3. p < c
    BY <2>1
  <2>4. \A d \in Pos : At(d).op = "call" /\ p < d /\ d < x => c < x
    BY <1>1, <2>1
  <2> QED
    BY <2>1, <2>2, <2>3, <2>4
<1>3. CASE /\ \A d \in Pos : k <= d => At(d).op # "call"
           /\ s.call_pos = -1 \/ s.call_pos = AFTER_BBL
  BY <1>3 DEF Crossing
<1> QED
  BY <1>2, <1>3 DEF Nearest

(* The flag of a range that starts at p. *)
LEMMA FlagsStep ==
  ASSUME Given, NEW p \in Pos, NEW st, NEW v, Passage(st, v, p),
         Nearest(st, p + 1), Nearest(v, p), Flags(st, p + 1)
  PROVE  Flags(v, p)
<1>1. p \in Int /\ p + 1 \in Int /\ \A d \in Pos : d \in Nat /\ (p + 1 <= d <=> p < d)
      /\ (d # p => (p <= d <=> p < d))
  BY BblFacts
<1> SUFFICES ASSUME NEW n, IsRange(v, n), Virtual(v.out[n].reg), v.out[n].def # -1,
                    v.out[n].last # NO_USE
             PROVE  Flagged(v.out[n])
  BY DEF Flags
<1> DEFINE cp == IF At(p).op = "call" THEN st.call_pos ELSE v.call_pos
<1>2. IsRange(st, n)
  BY NothingNew
<1>3. Carried(st, v, n, p, cp) /\ st.out[n].last \in Int
  BY <1>2 DEF Passage, Passed
<1> DEFINE x == st.out[n].last
<1>4. Crossing(cp, x) <=> \E c \in Pos : At(c).op = "call" /\ p < c /\ c < x
  <2>1. x \in Int
    BY <1>3
  <2> HIDE DEF x
  <2>2. CASE At(p).op = "call"
    BY <1>1, <2>1, <2>2, NextCall
  <2>3. CASE At(p).op # "call"
    <3>1. \A d \in Pos : At(d).op = "call" => (p <= d <=> p < d)
      BY <1>1, <2>3
    <3> QED
      BY <1>1, <2>1, <2>3, <3>1, NextCall
  <2> QED
    BY <2>2, <2>3
<1> HIDE DEF cp
<1>5. CASE st.out[n].def = -1
  <2>1. v.out[n].def = p /\ v.out[n].last = x /\ (v.out[n].lac <=> Crossing(cp, x))
    BY <1>3, <1>5 DEF Carried
  <2> HIDE DEF x
  <2> QED
    BY <1>4, <2>1 DEF Flagged
<1>6. CASE st.out[n].def # -1
  <2>1. /\ v.out[n].def = st.out[n].def /\ v.out[n].last = st.out[n].last
        /\ v.out[n].lac = st.out[n].lac /\ v.out[n].reg = st.out[n].reg
    BY <1>3, <1>6 DEF Carried
  <2>2. Flagged(st.out[n])
    BY <1>2, <1>6, <2>1 DEF Flags
  <2> QED
    BY <2>1, <2>2 DEF Flagged
<1> QED
  BY <1>5, <1>6

(* A value in a machine register that is still to be used. *)
LEMMA ReachesStep ==
  ASSUME Given, NEW p \in Pos, NEW st, NEW v, Passage(st, v, p), Reaches(st, p + 1)
  PROVE  Reaches(v, p)
<1>1. /\ p \in Int /\ (p + 1) - 1 = p /\ p < AFTER_BBL
      /\ \A q \in Pos : q \in Nat /\ (p <= q /\ q # p => p < q /\ p + 1 <= q)
      /\ At(p).op = "ret" => \A q \in Pos : p <= q => q = p
  <2>1. p \in Nat /\ Len(bbl) \in Nat /\ (At(p).op = "ret" => p = Len(bbl) - 1)
    BY BblFacts
  <2> QED
    BY <2>1, BblFacts DEF Pos
<1>2. /\ DOMAIN v.last_use = (DOMAIN st.last_use \ Overwritten(p)) \cup ToSet(At(p).use)
      /\ \A r \in DOMAIN v.last_use : p <= v.out[v.last_use[r]].last
      /\ \A r \in DOMAIN st.last_use \ Overwritten(p) : v.last_use[r] = st.last_use[r]
      /\ Called(st, v, At(p), p)
  BY DEF Passage, Passed, Passes
<1> SUFFICES ASSUME NEW r \in RangeReg, NEW e \in Pos, ~Virtual(r), p <= e,
                    ~WrittenWithin(p - 1, e, r)
             PROVE  /\ Reads(e, r) => Holds(v, r, e)
                    /\ Takes(e, r) /\ ~ReadWithin(p - 1, e, r) =>
                         \/ Holds(v, r, e)
                         \/ r \notin DOMAIN v.last_use /\ RangeCpu[r] \in v.call_in /\ e <= v.call_pos
  BY DEF Reaches
<1>3. CASE e = p
  <2>1. r \in DOMAIN v.last_use => Holds(v, r, p)
    BY <1>2 DEF Holds
  <2>2. Reads(p, r) => r \in DOMAIN v.last_use
    BY <1>2, Overwriting
  <2>3. Takes(p, r) => RangeCpu[r] \in v.call_in /\ p <= v.call_pos
    <3>1. CASE At(p).op = "call" /\ RangeCpu[r] \in At(p).cin
      BY <1>1, <1>2, <3>1 DEF Called
    <3>2. CASE At(p).op = "ret" /\ RangeCpu[r] \in FunOut
      BY <1>1, <1>2, <3>2 DEF Called, AFTER_BBL
    <3> QED
      BY <3>1, <3>2 DEF Takes
  <2> QED
    BY <1>3, <2>1, <2>2, <2>3
<1>4. CASE e # p
  <2>1. p < e /\ p + 1 <= e
    BY <1>1, <1>4
  <2>2. ~Writes(p, r)
    BY <1>1, <2>1 DEF WrittenWithin
  <2>3. ~WrittenWithin(p, e, r)
    BY <1>1 DEF WrittenWithin
  <2>4. r \notin Overwritten(p) /\ At(p).op # "call"
    BY <2>2, Overwriting
  <2>5. At(p).op # "ret"
    BY <1>1, <1>4
  <2>6. SameCall(st, v)
    BY <1>2, <2>4, <2>5 DEF Called
  <2>7. /\ Reads(e, r) => Holds(st, r, e)
        /\ Takes(e, r) /\ ~ReadWithin(p, e, r) =>
             \/ Holds(st, r, e)
             \/ r \notin DOMAIN st.last_use /\ RangeCpu[r] \in st.call_in /\ e <= st.call_pos
    <3>1. (p + 1) - 1 = p
      BY <1>1
    <3> QED
      BY <2>1, <2>3, <3>1 DEF Reaches
  <2>8. Holds(st, r, e) => Holds(v, r, e)
    <3>1. ASSUME Holds(st, r, e)
          PROVE  Holds(v, r, e)
      <4>1. /\ r \in DOMAIN st.last_use /\ e <= st.out[st.last_use[r]].last
            /\ r \in DOMAIN v.last_use /\ v.last_use[r] = st.last_use[r]
        BY <1>2, <2>4, <3>1 DEF Holds
      <4>2. IsRange(st, st.last_use[r])
        BY <4>1 DEF Passage, Passed
      <4>3. v.out[st.last_use[r]].last = st.out[st.last_use[r]].last
        BY <4>2 DEF Passage, Passed, Carried
      <4> QED
        BY <4>1, <4>3 DEF Holds
    <3> QED
      BY <3>1
  <2>9. ~ReadWithin(p - 1, e, r) => ~ReadWithin(p, e, r) /\ ~Reads(p, r)
    BY <1>1, <2>1 DEF ReadWithin
  <2>10. ~Reads(p, r) /\ r \notin DOMAIN st.last_use => r \notin DOMAIN v.last_use
    BY <1>2, Overwriting
  <2> QED
    BY <2>6, <2>7, <2>8, <2>9, <2>10 DEF SameCall
<1> QED
  BY <1>3, <1>4

(* A definition at p is covered up to its use. *)
LEMMA FeedsStep ==
  ASSUME Given, NEW p \in Pos, NEW st, NEW v, Passage(st, v, p),
         Nearest(st, p + 1), Reaches(st, p + 1), Feeds(st, p + 1)
  PROVE  Feeds(v, p)
<1>1. /\ p \in Int /\ (p + 1) - 1 = p /\ p < AFTER_BBL /\ p \in Nat
      /\ \A q \in Pos : /\ q \in Nat /\ q < AFTER_BBL /\ (p <= q /\ q # p => p < q /\ p + 1 <= q)
      /\ At(p).op = "ret" => \A q \in Pos : p <= q => q = p
      /\ At(p).op = "call" => At(p).def = <<>>
  <2>1. p \in Nat /\ Len(bbl) \in Nat /\ (At(p).op = "ret" => p = Len(bbl) - 1)
        /\ Readable(At(p), RangeReg)
    BY BblFacts
  <2> QED
    BY <2>1, BblFacts DEF Pos, Readable
<1> SUFFICES ASSUME NEW r \in RangeReg, NEW d \in Pos, NEW e \in Pos,
                    ~Virtual(r), p <= d, d < e, Contains(At(d).def, r), ~WrittenWithin(d, e, r),
                    Reads(e, r) \/ (Takes(e, r) /\ ~ReadWithin(d, e, r))
             PROVE  \E n \in 1 .. Len(v.out) : \A q \in d .. (e - 1) : CoversAt(v, n, r, q)
  BY DEF Feeds
<1>2. CASE d # p
  <2>1. p + 1 <= d
    BY <1>1, <1>2
  <2>2. PICK n \in 1 .. Len(st.out) : \A q \in d .. (e - 1) : CoversAt(st, n, r, q)
    BY <2>1 DEF Feeds
  <2>3. ASSUME NEW q \in d .. (e - 1)
        PROVE  CoversAt(v, n, r, q)
    <3>1. CoversAt(st, n, r, q) /\ q \in Int /\ p <= q
      BY <1>1, <2>1, <2>2
    <3>2. IsRange(st, n) /\ st.out[n].reg = r
      BY <3>1 DEF CoversAt, IsRange
    <3>3. Carried(st, v, n, p, IF At(p).op = "call" THEN st.call_pos ELSE v.call_pos)
      BY <3>2 DEF Passage, Passed
    <3> QED
      BY <1>1, <3>1, <3>2, <3>3 DEF CoversAt, Covers, Carried, IsRange
  <2>4. n \in 1 .. Len(v.out)
    <3>1. d \in d .. (e - 1)
      BY <1>1
    <3> QED
      BY <2>3, <3>1 DEF CoversAt
  <2> QED
    BY <2>3, <2>4
<1>3. CASE d = p
  <2>1. /\ Reads(e, r) => Holds(st, r, e)
        /\ Takes(e, r) /\ ~ReadWithin(p, e, r) =>
             \/ Holds(st, r, e)
             \/ r \notin DOMAIN st.last_use /\ RangeCpu[r] \in st.call_in /\ e <= st.call_pos
    <3>1. p + 1 <= e /\ ~WrittenWithin((p + 1) - 1, e, r)
      BY <1>1, <1>3
    <3> QED
      BY <1>1, <3>1 DEF Reaches
  <2>2. r \in ToSet(At(p).def) /\ r \in Overwritten(p)
    BY <1>3, Overwriting
  <2>3. At(p).op # "call" /\ At(p).op # "ret"
    <3>1. At(p).op # "call"
      BY <1>1, <2>2 DEF ToSet
    <3>2. e # p /\ p <= e
      <4>1. p < e /\ e \in Int
        BY <1>1, <1>3
      <4> QED
        BY <1>1, <4>1
    <3> QED
      BY <1>1, <3>1, <3>2
  <2>4. SameCall(st, v)
    BY <2>3 DEF Passage, Passes, Called
  <2>5. CASE Holds(st, r, e)
    <3> DEFINE n == st.last_use[r]
    <3>1. /\ IsRange(st, n) /\ st.out[n].reg = r /\ st.out[n].def = -1
          /\ e <= st.out[n].last
      BY <2>5 DEF Holds, Passage, Passed
    <3> HIDE DEF n
    <3>2. st.out[n].last # NO_USE /\ st.out[n].last \in Int
      BY <3>1 DEF Passage, Passed, Settled
    <3>3. /\ IsRange(v, n) /\ v.out[n].reg = r /\ v.out[n].last = st.out[n].last
          /\ v.out[n].def = p
      BY <2>2, <3>1 DEF Passage, Passed, Carried
    <3>4. \A q \in d .. (e - 1) : CoversAt(v, n, r, q)
      BY <1>1, <1>3, <3>1, <3>2, <3>3 DEF CoversAt, Covers, IsRange
    <3> QED
      BY <3>3, <3>4 DEF IsRange
  <2>6. CASE ~Holds(st, r, e)
    <3>1. r \notin DOMAIN st.last_use /\ RangeCpu[r] \in v.call_in /\ e <= v.call_pos
      BY <1>3, <2>1, <2>4, <2>6 DEF SameCall
    <3>2. PICK n : IsRange(v, n) /\ Argument(v, n, p, r)
      BY <2>2, <3>1 DEF Passage, Passed
    <3>3. v.call_pos \in Int /\ v.call_pos # NO_USE
      BY <1>1, <2>4 DEF Nearest, SameCall, NO_USE, AFTER_BBL
    <3>4. \A q \in d .. (e - 1) : CoversAt(v, n, r, q)
      BY <1>1, <1>3, <3>1, <3>2, <3>3 DEF CoversAt, Covers, IsRange, Argument
    <3> QED
      BY <3>2, <3>4 DEF IsRange
  <2> QED
    BY <2>5, <2>6
<1> QED
  BY <1>2, <1>3

(* A register that a call takes from its caller is not one its operands *)
(* name, so that no range ends at a read because of the call.           *)
LEMMA NotArgument ==
  ASSUME Given, NEW p, NEW v, Nearest(v, p), NEW q \in Pos, NEW n, NEW r \in RangeReg,
         Reads(q, r), v.out[n].reg = r, v.out[n].last = q, NEW x, Unread(v, n, x)
  PROVE  FALSE
<1>1. q \in Nat /\ q < AFTER_BBL /\ (At(q).op = "call" => RangeCpu[r] \notin At(q).cin)
  BY BblFacts
<1>2. RangeCpu[r] \in v.call_in /\ v.call_pos = q
  BY <1>1 DEF Unread, Argument, NO_USE, AFTER_BBL
<1> QED
  BY <1>1, <1>2 DEF Nearest, AFTER_BBL

(* Use entries keep their names; one that is there has none of the ranges *)
(* that come up.                                                          *)
LEMMA NamedStep ==
  ASSUME Given, NEW p \in Pos, NEW st, NEW v, Passage(st, v, p), Nearest(v, p), Named(st, p + 1)
  PROVE  Named(v, p)
<1>1. /\ RangeReg \subseteq Register /\ NoReg \notin RangeReg /\ p \in Int /\ p \in Nat
      /\ p + 1 \in Int /\ At(p).def \in Seq(RangeReg) /\ At(p).use \in Seq(RangeReg)
  BY BblFacts, PinnedAssumption DEF Readable
<1>2. /\ st \in Walks(RangeReg) /\ v \in Walks(RangeReg) /\ Entries(st.out, RangeReg, p + 1)
      /\ \A r \in DOMAIN st.last_use : IsOpen(st.out, st.last_use[r], r, p + 1)
  BY DEF Passage, Passes, Shape
<1>3. /\ Len(st.out) \in Nat /\ Len(v.out) \in Nat /\ DOMAIN st.last_use \subseteq RangeReg
      /\ \A n \in 1 .. Len(st.out) : st.out[n].def \in Int
  <2>1. \A n \in 1 .. Len(st.out) : st.out[n] \in Plain
    BY <1>1, <1>2, Walking
  <2> QED
    BY <1>1, <1>2, <2>1, Walking DEF Plain
<1>4. /\ \A n \in 1 .. Len(st.out) :
           IF n \in OpenOf(st, Overwritten(p) \cap DOMAIN st.last_use)
           THEN v.out[n].reg = st.out[n].reg ELSE Alike(st.out[n], v.out[n])
      /\ \A n \in 1 .. Len(v.out) : Len(st.out) < n => Made(v, n, p, ToSet(At(p).def), ToSet(At(p).use))
  BY DEF Passage, Passes, Partway, Survives, Closed
<1>5. ToSet(At(p).def) \subseteq RangeReg /\ ToSet(At(p).use) \subseteq RangeReg
  BY <1>1 DEF ToSet
<1> SUFFICES ASSUME NEW n \in 1 .. Len(v.out), v.out[n].reg = NoReg
             PROVE  /\ v.out[n].def \in Pos
                    /\ \A m : EndsAt(v, n, m) => NamesOnce(v.out[n], m)
  BY DEF Named
<1>6. n \in 1 .. Len(st.out)
  <2>1. ~(Len(st.out) < n)
    BY <1>1, <1>4, <1>5 DEF Made
  <2> QED
    BY <1>3, <2>1
<1>7. Alike(st.out[n], v.out[n])
  <2>1. n \notin OpenOf(st, Overwritten(p) \cap DOMAIN st.last_use)
    <3>1. ASSUME NEW r \in DOMAIN st.last_use
          PROVE  st.last_use[r] # n
      <4>1. st.out[st.last_use[r]].reg = r /\ r \in RangeReg
        BY <1>2, <1>3 DEF IsOpen
      <4> QED
        BY <1>1, <1>4, <1>6, <4>1 DEF Alike
    <3> QED
      BY <3>1 DEF OpenOf
  <2> QED
    BY <1>4, <1>6, <2>1
<1>8. st.out[n].reg = NoReg /\ st.out[n].def = v.out[n].def /\ st.out[n].uses = v.out[n].uses
  BY <1>7 DEF Alike
<1>9. st.out[n].def \in Pos /\ p + 1 <= st.out[n].def
  <2>1. Entry(st.out, st.out[n], RangeReg, p + 1) /\ is_use_lr(st.out[n])
    BY <1>2, <1>6, <1>8 DEF Entries, is_use_lr
  <2> QED
    BY <1>6, <1>8, <2>1 DEF Named, Entry
<1>10. ASSUME NEW m, EndsAt(v, n, m)
       PROVE  NamesOnce(v.out[n], m)
  <2>1. IsRange(v, m) /\ v.out[m].last = st.out[n].def /\ Contains(At(st.out[n].def).use, v.out[m].reg)
    BY <1>8, <1>10 DEF EndsAt
  <2>2. CASE IsRange(st, m)
    <3>1. v.out[m].reg = st.out[m].reg /\ v.out[m].last = st.out[m].last
      BY <2>2 DEF Passage, Passed, Carried
    <3>2. EndsAt(st, n, m)
      BY <2>1, <2>2, <3>1 DEF EndsAt
    <3>3. NamesOnce(st.out[n], m)
      BY <1>6, <1>8, <3>2 DEF Named
    <3> QED
      BY <1>8, <3>3 DEF NamesOnce
  <2>3. CASE ~IsRange(st, m)
    <3>1. Made(v, m, p, ToSet(At(p).def), ToSet(At(p).use))
      BY <2>1, <2>3 DEF Passage, Passed
    <3>2. ~Started(v, m, p)
      BY <1>1, <1>3, <1>6, <1>9, <2>1 DEF Started
    <3>3. Unread(v, m, p)
      BY <3>1, <3>2 DEF Made
    <3>4. v.out[m].reg \in RangeReg /\ Reads(st.out[n].def, v.out[m].reg)
      BY <2>1 DEF IsRange, Reads
    <3> QED
      BY <1>9, <2>1, <3>3, <3>4, NotArgument
  <2> QED
    BY <2>2, <2>3
<1> QED
  BY <1>8, <1>9, <1>10

(* The use entry of the instruction changes nothing about ranges, and names *)
(* each that ends there once.                                               *)
LEMMA NotesStep ==
  ASSUME Given, NEW p \in Pos, NEW st, NEW v, NEW s, Passage(st, v, p), Notes(v, s, p), Known(v, p)
  PROVE  Known(s, p)
<1>1. /\ NoReg \notin RangeReg /\ p \in Nat /\ p + 1 \in Int
  BY BblFacts, PinnedAssumption
<1>2. /\ Len(v.out) \in Nat /\ s.last_use = v.last_use /\ SameCall(v, s)
      /\ Len(v.out) <= Len(s.out) /\ Len(s.out) \in Nat
      /\ \A n \in 1 .. Len(v.out) : n \in 1 .. Len(s.out) /\ s.out[n] = v.out[n]
      /\ \A n \in 1 .. Len(s.out) : n \in 1 .. Len(v.out) \/
           /\ n \notin 1 .. Len(v.out) /\ s.out[n].reg = NoReg /\ s.out[n].def = p
           /\ \A r \in ToSet(At(p).use) : NamesOnce(s.out[n], v.last_use[r])
  <2>1. v \in Walks(RangeReg)
    BY DEF Passage, Passes, Shape
  <2>2. Len(v.out) \in Nat
    BY <2>1, BblFacts, Walking
  <2>3. CASE At(p).use = <<>>
    BY <2>2, <2>3 DEF Notes
  <2>4. CASE At(p).use # <<>>
    BY <2>2, <2>4 DEF Notes
  <2> QED
    BY <2>3, <2>4
<1>3. \A n : IsRange(s, n) <=> IsRange(v, n)
  BY <1>1, <1>2 DEF IsRange
<1>4. \A n : IsRange(v, n) => s.out[n] = v.out[n]
  BY <1>2 DEF IsRange
<1>5. \A n, q : \A r \in RangeReg : CoversAt(s, n, r, q) <=> CoversAt(v, n, r, q)
  BY <1>3, <1>4 DEF CoversAt, IsRange
<1>6. Settled(s, p)
  <2>1. Settled(v, p)
    BY DEF Known
  <2> QED
    BY <1>2, <1>3, <1>4, <2>1 DEF Settled
<1>7. Entered(s, p) /\ Nearest(s, p)
  BY <1>2 DEF Known, Entered, Nearest, SameCall
<1>8. Exactly(s, p)
  BY <1>5 DEF Known, Exactly
<1>9. Flags(s, p)
  <2>1. Flags(v, p)
    BY DEF Known
  <2> QED
    BY <1>3, <1>4, <2>1 DEF Flags
<1>10. Reaches(s, p)
  <2>1. \A r, e : Holds(s, r, e) <=> Holds(v, r, e)
    BY <1>2, <1>4 DEF Holds, Passage, Passed
  <2> QED
    BY <1>2, <2>1 DEF Known, Reaches, SameCall
<1>11. Feeds(s, p)
  <2> SUFFICES ASSUME NEW r \in RangeReg, NEW d \in Pos, NEW e \in Pos,
                      ~Virtual(r), p <= d, d < e, Contains(At(d).def, r), ~WrittenWithin(d, e, r),
                      Reads(e, r) \/ (Takes(e, r) /\ ~ReadWithin(d, e, r))
               PROVE  \E n \in 1 .. Len(s.out) : \A q \in d .. (e - 1) : CoversAt(s, n, r, q)
    BY DEF Feeds
  <2>1. PICK n \in 1 .. Len(v.out) : \A q \in d .. (e - 1) : CoversAt(v, n, r, q)
    BY DEF Known, Feeds
  <2> QED
    BY <1>2, <1>5, <2>1
<1>12. Named(s, p)
  <2> SUFFICES ASSUME NEW n \in 1 .. Len(s.out), s.out[n].reg = NoReg
               PROVE  /\ s.out[n].def \in Pos
                      /\ \A m : EndsAt(s, n, m) => NamesOnce(s.out[n], m)
    BY DEF Named
  <2>1. CASE n \in 1 .. Len(v.out)
    <3>1. s.out[n] = v.out[n]
      BY <1>2, <2>1
    <3>2. \A m : EndsAt(s, n, m) => EndsAt(v, n, m)
      BY <1>3, <1>4, <3>1 DEF EndsAt
    <3> QED
      BY <2>1, <3>1, <3>2 DEF Known, Named
  <2>2. CASE n \notin 1 .. Len(v.out)
    <3>1. s.out[n].def = p /\ \A r \in ToSet(At(p).use) : NamesOnce(s.out[n], v.last_use[r])
      BY <1>2, <2>2
    <3>2. ASSUME NEW m, EndsAt(s, n, m)
          PROVE  NamesOnce(s.out[n], m)
      <4> DEFINE r == v.out[m].reg
      <4>1. IsRange(v, m) /\ v.out[m].last = p /\ Reads(p, r) /\ r \in RangeReg
        BY <1>3, <1>4, <3>1, <3>2 DEF EndsAt, Reads, IsRange
      <4>2. ~IsRange(st, m)
        <5>1. SUFFICES ASSUME IsRange(st, m)
                       PROVE  FALSE
          OBVIOUS
        <5>2. v.out[m].last = st.out[m].last /\ p + 1 <= st.out[m].last
          BY <5>1 DEF Passage, Passed, Carried
        <5> QED
          BY <1>1, <4>1, <5>2
      <4>3. Made(v, m, p, ToSet(At(p).def), ToSet(At(p).use))
        BY <4>1, <4>2 DEF Passage, Passed
      <4>4. ~Unread(v, m, p)
        BY <4>1, NotArgument DEF Known
      <4>5. v.last_use[r] = m
        BY <4>3, <4>4 DEF Made, Started
      <4>6. r \in ToSet(At(p).use)
        BY <4>1, Overwriting
      <4> QED
        BY <3>1, <4>5, <4>6
    <3> QED
      BY <3>1, <3>2
  <2> QED
    BY <2>1, <2>2
<1> QED
  BY <1>6, <1>7, <1>8, <1>9, <1>10, <1>11, <1>12 DEF Known

(* All of it, over one instruction. *)
LEMMA WalkStep ==
  ASSUME Given, NEW p \in Pos, NEW st, Walked(st, p + 1)
  PROVE  Walked(AtIns(st, At(p), p, RangeCpu, FunOut), p)
<1> DEFINE s == AtIns(st, At(p), p, RangeCpu, FunOut)
<1>1. /\ RangeReg \subseteq Register /\ p \in Nat /\ p < AFTER_BBL /\ Readable(At(p), RangeReg)
      /\ (p + 1) - 1 = p
  BY BblFacts
<1>2. Shape(st, RangeReg, p + 1, p + 1) /\ CallAhead(st, p)
  BY <1>1 DEF Walked
<1>3. Shape(s, RangeReg, p, p) /\ CallAhead(s, p - 1)
  BY <1>1, <1>2, AtInstruction
<1>4. PICK v : Passes(st, v, p) /\ Notes(v, s, p)
  BY <1>2, InsEffect
<1> HIDE DEF s
<1>5. Passage(st, v, p)
  BY <1>4, Passing DEF Walked, Known, Passage
<1>6. Nearest(v, p)
  BY <1>4, NearestStep DEF Walked, Known, Passes
<1>7. Known(v, p)
  BY <1>5, <1>6, SettledStep, EnteredStep, ExactlyStep, FlagsStep, ReachesStep, FeedsStep, NamedStep
     DEF Walked, Known
<1>8. Known(s, p)
  BY <1>4, <1>5, <1>7, NotesStep
<1> QED
  BY <1>3, <1>8 DEF Walked, s

-----------------------------------------------------------------------------
(* The start of the walk: one open range for each of the first j registers *)
(* that are live at the end.                                               *)
Begun(v, j) ==
  /\ Shape(v, RangeReg, Len(bbl), Len(bbl)) /\ v.call_in = {} /\ v.call_pos = -1
  /\ DOMAIN v.last_use = Upto(live_out, j)
  /\ \A n \in 1 .. Len(v.out) :
       /\ v.out[n].def = -1 /\ v.out[n].last = AFTER_BBL
       /\ v.out[n].reg \in DOMAIN v.last_use /\ v.last_use[v.out[n].reg] = n

(* The next register has no range yet, since none is listed twice. *)
LEMMA FrontStep ==
  ASSUME Given, NEW j \in 1 .. Len(live_out), NEW v, Begun(v, j - 1)
  PROVE  Begun(initialize_lr(v, AFTER_BBL, live_out[j]), j)
<1> DEFINE R == RangeReg
           N == Len(bbl)
           reg == live_out[j]
           s == initialize_lr(v, AFTER_BBL, reg)
<1>1. /\ R \subseteq Register /\ N \in Nat /\ N < AFTER_BBL /\ reg \in R
      /\ live_out \in Seq(R) /\ IsInjective(live_out) /\ Len(live_out) \in Nat
  BY BblFacts
<1>2. Shape(v, R, N, N) /\ v \in Walks(R)
  BY DEF Begun, Shape
<1>3. Upto(live_out, j) = Upto(live_out, j - 1) \cup {reg}
  <2>1. \A k \in 1 .. j : k \in 1 .. (j - 1) \/ k = j
    BY <1>1
  <2>2. \A k \in 1 .. (j - 1) : k \in 1 .. j
    BY <1>1
  <2>3. j \in 1 .. j
    BY <1>1
  <2> QED
    BY <2>1, <2>2, <2>3 DEF Upto
<1>4. reg \notin Upto(live_out, j - 1)
  <2> SUFFICES ASSUME NEW k \in 1 .. (j - 1), live_out[k] = reg
               PROVE  FALSE
    BY DEF Upto
  <2>1. k \in DOMAIN live_out /\ j \in DOMAIN live_out /\ k # j
    BY <1>1
  <2> QED
    BY <1>1, <2>1 DEF IsInjective
<1>5. N \in Int /\ AFTER_BBL \in Int /\ N <= AFTER_BBL /\ 0 <= AFTER_BBL
  BY <1>1 DEF AFTER_BBL
<1> HIDE DEF R, N, reg
<1>6. Opened(v, s, R, N, N, reg)
  BY ONLY <1>1, <1>2, <1>5, Opening
<1>7. Added(v, s, -1, AFTER_BBL, reg) /\ NowOpen(v, s, reg)
  BY <1>1, <1>2, <1>5, OpenEffect
<1> HIDE DEF s
<1>8. Shape(s, R, N, N) /\ s.call_in = {} /\ s.call_pos = -1
  BY <1>6, <1>7 DEF Opened, Added, SameCall, Begun
<1>9. DOMAIN s.last_use = Upto(live_out, j)
  BY <1>3, <1>7 DEF NowOpen, Begun
<1>10. ASSUME NEW n \in 1 .. Len(s.out)
       PROVE  /\ s.out[n].def = -1 /\ s.out[n].last = AFTER_BBL
              /\ s.out[n].reg \in DOMAIN s.last_use /\ s.last_use[s.out[n].reg] = n
  <2>1. Len(v.out) \in Nat /\ Len(s.out) = Len(v.out) + 1
    BY <1>1, <1>2, <1>7, Walking DEF Added
  <2>2. CASE n = Len(s.out)
    BY <1>7, <2>2 DEF Added, NowOpen
  <2>3. CASE n # Len(s.out)
    <3>1. n \in 1 .. Len(v.out)
      BY <2>1, <2>3
    <3>2. s.out[n] = v.out[n]
      BY <1>7, <3>1 DEF Added
    <3>3. /\ v.out[n].def = -1 /\ v.out[n].last = AFTER_BBL
          /\ v.out[n].reg \in Upto(live_out, j - 1) /\ v.last_use[v.out[n].reg] = n
      BY <3>1 DEF Begun
    <3> QED
      BY <1>3, <1>4, <1>7, <1>9, <3>2, <3>3 DEF NowOpen
  <2> QED
    BY <2>2, <2>3
<1> QED
  BY <1>8, <1>9, <1>10 DEF Begun, s, reg, R, N

(* When all of them have their range, the walk knows what it should. *)
LEMMA WalkStart ==
  ASSUME Given
  PROVE  Walked(PastBbl(live_out), Len(bbl))
<1> DEFINE empty == [out |-> <<>>, last_use |-> <<>>, call_pos |-> -1, call_in |-> {}]
           R == RangeReg
           N == Len(bbl)
           start == PastBbl(live_out)
           I == [j \in 0 .. Len(live_out) |-> {v \in Walks(R) : Begun(v, j)}]
<1>1. /\ R \subseteq Register /\ N \in Nat /\ N < AFTER_BBL
      /\ live_out \in Seq(R) /\ live_out \in Seq(Register) /\ Len(live_out) \in Nat
      /\ DOMAIN live_out = 1 .. Len(live_out)
  <2>1. R \subseteq Register /\ N \in Nat /\ N < AFTER_BBL /\ live_out \in Seq(R)
    BY BblFacts
  <2>2. live_out \in Seq(Register) /\ Len(live_out) \in Nat /\ DOMAIN live_out = 1 .. Len(live_out)
    <3> HIDE DEF R
    <3> QED
      BY ONLY <2>1
  <2> QED
    BY <2>1, <2>2
<1>2. Begun(start, Len(live_out))
  <2>1. empty \in I[0]
    <3>1. <<>> \in Partial(R) /\ DOMAIN <<>> = {}
      <4>1. <<>> \in [{} -> Nat]
        OBVIOUS
      <4> QED
        BY <4>1 DEF Partial
    <3>2. empty \in Walks(R)
      BY <3>1 DEF Walks, Calls
    <3>3. Shape(empty, R, N, N)
      BY <3>1, <3>2 DEF Shape, Entries, OneUse
    <3>4. Upto(live_out, 0) = {}
      BY DEF Upto
    <3>5. Begun(empty, 0)
      BY <3>1, <3>3, <3>4 DEF Begun
    <3>6. 0 \in 0 .. Len(live_out)
      BY <1>1
    <3> HIDE DEF empty
    <3> QED
      BY <3>2, <3>5, <3>6
  <2>2. PastBblStays(live_out, I)
    <3>1. ASSUME NEW j \in 1 .. Len(live_out), NEW v \in I[j - 1]
          PROVE  initialize_lr(v, AFTER_BBL, live_out[j]) \in I[j]
      <4>1. j - 1 \in 0 .. Len(live_out) /\ j \in 0 .. Len(live_out)
        BY <1>1
      <4>2. Begun(v, j - 1)
        BY <4>1
      <4> DEFINE t == initialize_lr(v, AFTER_BBL, live_out[j])
      <4>3. Begun(t, j)
        BY <4>2, FrontStep
      <4> HIDE DEF t
      <4>4. t \in Walks(R)
        BY <4>3 DEF Begun, Shape
      <4>5. t \in I[j]
        BY <4>1, <4>3, <4>4
      <4> QED
        BY <4>5 DEF t
    <3> HIDE DEF I
    <3> QED
      BY <3>1 DEF PastBblStays
  <2>3. start \in I[Len(live_out)]
    <3> HIDE DEF I, R
    <3> QED
      BY <1>1, <2>1, <2>2, PastBblLoop
  <2>4. Len(live_out) \in 0 .. Len(live_out)
    BY <1>1
  <2> HIDE DEF start
  <2> QED
    BY <2>3, <2>4
<1> HIDE DEF start, I
<1>3. Shape(start, R, N, N) /\ start.call_in = {} /\ start.call_pos = -1
  BY <1>2 DEF Begun
<1>4. CallAhead(start, N - 1)
  BY <1>3 DEF CallAhead
<1>5. \A p \in Pos : p < N /\ p \in Nat
  BY <1>1 DEF Pos
<1>6. \A n : IsRange(start, n) =>
        /\ start.out[n].def = -1 /\ start.out[n].last = AFTER_BBL
        /\ start.out[n].reg \in DOMAIN start.last_use /\ start.last_use[start.out[n].reg] = n
  BY <1>2 DEF Begun, IsRange
<1>7. Settled(start, N)
  BY <1>6 DEF Settled, AFTER_BBL, NO_USE
<1>8. Entered(start, N)
  <2> SUFFICES ASSUME NEW r \in R
               PROVE  r \in DOMAIN start.last_use <=> LiveAfter(N - 1, r)
    BY DEF Entered
  <2>1. LiveAfter(N - 1, r) <=> Contains(live_out, r)
    BY LiveAtEnd
  <2>2. Contains(live_out, r) <=> r \in Upto(live_out, Len(live_out))
    BY DEF Contains, Upto
  <2> QED
    BY <1>2, <2>1, <2>2 DEF Begun
<1>9. \A p \in Pos : ~(N <= p)
  BY <1>1, <1>5
<1>10. Exactly(start, N) /\ Reaches(start, N) /\ Feeds(start, N)
  BY <1>9 DEF Exactly, Reaches, Feeds
<1>11. Nearest(start, N)
  BY <1>3, <1>9 DEF Nearest
<1>12. Flags(start, N)
  BY <1>6 DEF Flags
<1>13. \A n \in 1 .. Len(start.out) : start.out[n].reg # NoReg
  <2>1. \A n \in 1 .. Len(start.out) : start.out[n].reg \in R
    <3>1. DOMAIN start.last_use \subseteq R
      BY <1>1, <1>3, Walking DEF Shape
    <3>2. \A n \in 1 .. Len(start.out) : start.out[n].reg \in DOMAIN start.last_use
      BY <1>2 DEF Begun
    <3> QED
      BY <3>1, <3>2
  <2> QED
    BY <1>1, <2>1, PinnedAssumption
<1>14. Named(start, N)
  BY <1>13 DEF Named
<1> QED
  BY <1>3, <1>4, <1>7, <1>8, <1>10, <1>11, <1>12, <1>14 DEF Walked, Known, start, N, R

(* The walk takes the instructions from the last to the first. *)
LEMMA WalkAll ==
  ASSUME Given
  PROVE  Walked(WalkBack(bbl, PastBbl(live_out), RangeCpu, FunOut), 0)
<1> DEFINE n == Len(bbl)
           start == PastBbl(live_out)
           walked == WalkBack(bbl, start, RangeCpu, FunOut)
           rev == Reverse([k \in 1 .. n |-> k])
           I == [j \in 0 .. n |-> {v \in Walks(RangeReg) : Walked(v, n - j)}]
<1>0. n \in Nat
  BY BblFacts
<1>1. Walked(start, n)
  BY WalkStart
<1> HIDE DEF start
<1>2. Len(rev) = n /\ \A j \in 1 .. n : rev[j] = n - j + 1
  <2> DEFINE ks == [k \in 1 .. n |-> k]
  <2>1. ks \in Seq(Nat) /\ Len(ks) = n /\ \A k \in 1 .. n : ks[k] = k
    BY <1>0
  <2>2. rev = Reverse(ks)
    OBVIOUS
  <2> HIDE DEF ks, n, rev
  <2>3. Len(rev) = n /\ \A j \in 1 .. n : rev[j] = ks[n - j + 1]
    BY <2>1, <2>2, Reversing
  <2>4. \A j \in 1 .. n : n - j + 1 \in 1 .. n
    BY <1>0
  <2> QED
    BY <2>1, <2>3, <2>4
<1> HIDE DEF rev
<1>3. start \in I[0]
  <2>1. n - 0 = n /\ 0 \in 0 .. n
    BY <1>0
  <2>2. start \in Walks(RangeReg)
    BY <1>1 DEF Walked, Shape
  <2> QED
    BY <1>1, <2>1, <2>2
<1>4. ASSUME NEW j \in 1 .. n, NEW v \in I[j - 1]
      PROVE  AtIns(v, bbl[rev[j]], rev[j] - 1, RangeCpu, FunOut) \in I[j]
  <2> DEFINE p == n - j
  <2>1. /\ j - 1 \in 0 .. n /\ j \in 0 .. n /\ n - (j - 1) = p + 1
        /\ rev[j] - 1 = p /\ rev[j] = p + 1 /\ p \in Pos
    <3>1. rev[j] = n - j + 1
      BY <1>2
    <3> DEFINE x == rev[j]
    <3>2. \A q : q \in Pos <=> q \in 0 .. (n - 1)
      BY DEF Pos
    <3> HIDE DEF n, x
    <3>3. n \in Nat /\ j \in 1 .. n /\ x = n - j + 1
      BY <1>0, <3>1 DEF x
    <3>4. x = p + 1 /\ x - 1 = p /\ n - j \in 0 .. (n - 1)
      BY <3>3
    <3> QED
      BY <3>2, <3>3, <3>4 DEF x
  <2>2. Walked(v, p + 1)
    BY <2>1
  <2> DEFINE t == AtIns(v, At(p), p, RangeCpu, FunOut)
  <2>3. At(p) = bbl[rev[j]]
    BY <2>1 DEF At
  <2> HIDE DEF p
  <2>4. Walked(t, p)
    BY <2>1, <2>2, WalkStep
  <2> HIDE DEF t
  <2>5. t \in Walks(RangeReg)
    BY <2>4 DEF Walked, Shape
  <2>6. t \in I[j]
    BY <2>1, <2>4, <2>5 DEF p
  <2> HIDE DEF I
  <2> QED
    BY <2>1, <2>3, <2>6 DEF t
<1>5. WalkStays(bbl, start, RangeCpu, I)
  <2> HIDE DEF I
  <2> QED
    BY <1>2, <1>4 DEF WalkStays, rev
<1>6. walked \in I[n]
  <2>1. walked \in I[Len(rev)]
    <3> HIDE DEF I
    <3> QED
      BY <1>0, <1>3, <1>5, WalkLoop DEF rev
  <2> HIDE DEF I, rev
  <2> QED
    BY <1>2, <2>1
<1>7. n \in 0 .. n /\ n - n = 0
  BY <1>0
<1> HIDE DEF walked
<1>8. Walked(walked, 0)
  BY <1>6, <1>7
<1> QED
  BY <1>8 DEF walked, start

-----------------------------------------------------------------------------
(* What is left open has its definition in front of the bbl.               *)
Found(w) ==
  /\ Len(lrs) = Len(w.out) /\ Len(w.out) \in Nat /\ DOMAIN lrs = 1 .. Len(lrs)
  /\ \A n \in 1 .. Len(lrs) :
       /\ lrs[n].def \in Int /\ lrs[n].last \in Int /\ w.out[n].def \in Int
       /\ lrs[n].reg = w.out[n].reg /\ lrs[n].last = w.out[n].last /\ lrs[n].uses = w.out[n].uses
       /\ is_use_lr(lrs[n]) \/ IsRange(w, n)
       /\ IF IsRange(w, n) /\ w.out[n].def = -1
          THEN lrs[n].def = BEFORE_BBL /\ (lrs[n].lac <=> Crossing(w.call_pos, lrs[n].last))
          ELSE lrs[n].def = w.out[n].def /\ lrs[n].lac = w.out[n].lac
  /\ \A n \in 1 .. Len(lrs) :
       IF is_use_lr(lrs[n])
       THEN lrs[n].last = lrs[n].def /\ Targets(lrs, lrs[n].uses, lrs[n].def)
       ELSE lrs[n].def < lrs[n].last

(* The ranges that are found. *)
Ranges == \E w : Walked(w, 0) /\ Found(w)

LEMMA RangesFound ==
  ASSUME Given, lrs = BblGetLiveRanges(bbl, live_out, RangeCpu, FunOut)
  PROVE  Ranges
<1> DEFINE R == RangeReg
           w == WalkBack(bbl, PastBbl(live_out), RangeCpu, FunOut)
           regs == DOMAIN w.last_use
           f == FinalizeAll(w, regs, BEFORE_BBL)
<1>1. Walked(w, 0)
  BY WalkAll
<1>2. lrs = f.out
  BY DEF BblGetLiveRanges
<1>3. R \subseteq Register /\ live_out \in Seq(R) /\ CodeOk(bbl, R) /\ NoReg \notin R
  BY BblFacts, PinnedAssumption
<1> HIDE DEF R
<1>4. lrs \in Seq(Plain) /\ Entries(lrs, R, 0)
  BY <1>3, LiveRangesShape
<1> HIDE DEF w
<1>5. w \in Walks(R) /\ Shape(w, R, 0, 0)
  BY <1>1 DEF Walked, Shape, R
<1>6. Finalized(w, f, regs, BEFORE_BBL)
  BY <1>3, <1>5, FinalizeEffect
<1> HIDE DEF f
<1>7. /\ Len(lrs) = Len(w.out) /\ Len(w.out) \in Nat /\ DOMAIN lrs = 1 .. Len(lrs)
      /\ \A n \in 1 .. Len(lrs) : lrs[n] \in Plain
      /\ \A n \in 1 .. Len(w.out) : w.out[n] \in Plain
  <2>1. Len(lrs) = Len(w.out)
    BY <1>2, <1>6 DEF Finalized
  <2>2. DOMAIN lrs = 1 .. Len(lrs) /\ \A n \in 1 .. Len(lrs) : lrs[n] \in Plain
    BY <1>4
  <2> QED
    BY <1>3, <1>5, <2>1, <2>2, Walking
<1>8. ASSUME NEW n \in 1 .. Len(lrs)
      PROVE  n \in OpenOf(w, regs) <=> IsRange(w, n) /\ w.out[n].def = -1
  <2>1. n \in 1 .. Len(w.out)
    BY <1>7
  <2>2. ASSUME n \in OpenOf(w, regs)
        PROVE  IsRange(w, n) /\ w.out[n].def = -1
    <3>1. PICK r \in regs : n = w.last_use[r]
      BY <2>2 DEF OpenOf
    <3>2. IsOpen(w.out, n, r, 0)
      BY <1>5, <3>1 DEF Shape
    <3>3. r \in R
      BY <1>3, <1>5, Walking
    <3> QED
      BY <3>2, <3>3 DEF IsOpen, IsRange, R
  <2>3. ASSUME IsRange(w, n), w.out[n].def = -1
        PROVE  n \in OpenOf(w, regs)
    <3>1. w.out[n].reg \in regs /\ w.last_use[w.out[n].reg] = n
      BY <1>1, <2>3 DEF Walked, Known, Settled
    <3> QED
      BY <3>1 DEF OpenOf
  <2> QED
    BY <2>2, <2>3
<1> HIDE DEF regs
<1>9. ASSUME NEW n \in 1 .. Len(lrs)
      PROVE  /\ lrs[n].def \in Int /\ lrs[n].last \in Int /\ w.out[n].def \in Int
             /\ lrs[n].reg = w.out[n].reg /\ lrs[n].last = w.out[n].last
             /\ lrs[n].uses = w.out[n].uses
             /\ is_use_lr(lrs[n]) \/ IsRange(w, n)
             /\ IF IsRange(w, n) /\ w.out[n].def = -1
                THEN /\ lrs[n].def = BEFORE_BBL
                     /\ lrs[n].lac <=> Crossing(w.call_pos, lrs[n].last)
                ELSE lrs[n].def = w.out[n].def /\ lrs[n].lac = w.out[n].lac
             /\ IF is_use_lr(lrs[n])
                THEN lrs[n].last = lrs[n].def /\ Targets(lrs, lrs[n].uses, lrs[n].def)
                ELSE lrs[n].def < lrs[n].last
  <2>1. n \in 1 .. Len(w.out) /\ lrs[n] \in Plain /\ w.out[n] \in Plain
    BY <1>7
  <2>2. lrs[n].def \in Int /\ lrs[n].last \in Int /\ w.out[n].def \in Int
    BY <2>1 DEF Plain
  <2>3. IF n \in OpenOf(w, regs) THEN Closed(w.out[n], lrs[n], BEFORE_BBL, w.call_pos)
        ELSE Alike(w.out[n], lrs[n])
    BY <1>2, <1>6, <2>1 DEF Finalized
  <2>4. lrs[n].reg = w.out[n].reg /\ lrs[n].last = w.out[n].last /\ lrs[n].uses = w.out[n].uses
    BY <2>3 DEF Closed, Alike
  <2>5. IF is_use_lr(lrs[n])
        THEN lrs[n].last = lrs[n].def /\ Targets(lrs, lrs[n].uses, lrs[n].def)
        ELSE lrs[n].def < lrs[n].last /\ lrs[n].reg \in R
    BY <1>4 DEF Entries, Entry
  <2>6. is_use_lr(lrs[n]) \/ IsRange(w, n)
    BY <2>1, <2>4, <2>5 DEF IsRange, R
  <2>7. IF IsRange(w, n) /\ w.out[n].def = -1
        THEN lrs[n].def = BEFORE_BBL /\ (lrs[n].lac <=> Crossing(w.call_pos, lrs[n].last))
        ELSE lrs[n].def = w.out[n].def /\ lrs[n].lac = w.out[n].lac
    BY <1>8, <2>3, <2>4 DEF Closed, Alike
  <2> QED
    BY <2>2, <2>4, <2>5, <2>6, <2>7
<1>10. Found(w)
  BY <1>7, <1>9 DEF Found
<1> QED
  BY <1>1, <1>10 DEF Ranges

-----------------------------------------------------------------------------
(* What the walk knows, said of the ranges.                                *)

(* The ranges cover the positions they covered when the walk ended. *)
LEMMA CoverFound ==
  ASSUME Given, NEW w, Found(w), NEW r \in RangeReg, NEW q \in Pos, NEW n
  PROVE  n \in RangesOf(r) /\ Covers(lrs[n], q) <=> CoversAt(w, n, r, q)
<1>1. q \in Nat
  BY BblFacts
<1>2. NoReg # r
  BY BblFacts, PinnedAssumption
<1>3. ASSUME n \in 1 .. Len(lrs), lrs[n].reg = r
      PROVE  Covers(lrs[n], q) <=> Covers(w.out[n], q)
  <2>1. IsRange(w, n)
    BY <1>2, <1>3 DEF Found, is_use_lr
  <2>2. lrs[n].last = w.out[n].last /\ w.out[n].def \in Int /\ w.out[n].last \in Int
    BY <1>3 DEF Found
  <2>3. CASE w.out[n].def = -1
    <3>1. lrs[n].def = BEFORE_BBL
      BY <1>3, <2>1, <2>3 DEF Found
    <3> QED
      BY <1>1, <2>2, <2>3, <3>1 DEF Covers, BEFORE_BBL
  <2>4. CASE w.out[n].def # -1
    <3>1. lrs[n].def = w.out[n].def
      BY <1>3, <2>1, <2>4 DEF Found
    <3> QED
      BY <2>2, <3>1 DEF Covers
  <2> QED
    BY <2>3, <2>4
<1> QED
  BY <1>3 DEF Found, RangesOf, CoversAt

(* In front of the bbl, that is what is still open. *)
LEMMA CoverOpen ==
  ASSUME Given, NEW w, Walked(w, 0), Found(w), NEW r \in RangeReg, NEW n
  PROVE  n \in RangesOf(r) /\ Covers(lrs[n], -1)
           <=> r \in DOMAIN w.last_use /\ n = w.last_use[r]
<1>1. NoReg # r
  BY BblFacts, PinnedAssumption
<1>2. ASSUME n \in RangesOf(r), Covers(lrs[n], -1)
      PROVE  r \in DOMAIN w.last_use /\ n = w.last_use[r]
  <2>1. n \in 1 .. Len(lrs) /\ lrs[n].reg = r
    BY <1>2 DEF RangesOf, Found
  <2>2. IsRange(w, n) /\ w.out[n].reg = r
    BY <1>1, <2>1 DEF Found, is_use_lr
  <2>3. w.out[n].def = -1
    <3> SUFFICES ASSUME w.out[n].def # -1
                 PROVE  FALSE
      OBVIOUS
    <3>1. lrs[n].def = w.out[n].def /\ w.out[n].def \in Int
      BY <2>1, <2>2 DEF Found
    <3>2. 0 <= w.out[n].def
      BY <2>2 DEF Walked, Known, Settled
    <3> QED
      BY <1>2, <3>1, <3>2 DEF Covers
  <2> QED
    BY <2>2, <2>3 DEF Walked, Known, Settled
<1>3. ASSUME r \in DOMAIN w.last_use, n = w.last_use[r]
      PROVE  n \in RangesOf(r) /\ Covers(lrs[n], -1)
  <2>1. /\ n \in 1 .. Len(w.out) /\ w.out[n].reg = r /\ w.out[n].def = -1
        /\ 0 <= w.out[n].last
    BY <1>3 DEF Walked, Shape, IsOpen
  <2>2. IsRange(w, n)
    BY <2>1 DEF IsRange
  <2>3. w.out[n].last # NO_USE
    BY <2>1, <2>2 DEF Walked, Known, Settled
  <2>4. /\ n \in 1 .. Len(lrs) /\ lrs[n].reg = r /\ lrs[n].last = w.out[n].last
        /\ lrs[n].last \in Int /\ lrs[n].def = BEFORE_BBL
    BY <2>1, <2>2 DEF Found
  <2> QED
    BY <2>1, <2>3, <2>4 DEF Found, RangesOf, Covers, BEFORE_BBL
<1> QED
  BY <1>2, <1>3

(* A virtual register is covered once where it is live. *)
LEMMA VirtualExact ==
  ASSUME Given, Ranges, NEW r \in RangeReg, RangeCpu[r] = NoCpuReg, NEW q \in Pos \cup {-1}
  PROVE  Cardinality({n \in RangesOf(r) : Covers(lrs[n], q)}) = IF LiveAfter(q, r) THEN 1 ELSE 0
<1> DEFINE cover == {n \in RangesOf(r) : Covers(lrs[n], q)}
<1>1. PICK w : Walked(w, 0) /\ Found(w)
  BY DEF Ranges
<1>2. Virtual(r)
  BY DEF Virtual
<1>3. /\ LiveAfter(q, r) <=> \E n : n \in cover
      /\ \A n, m : n \in cover /\ m \in cover => n = m
  <2>1. CASE q \in Pos
    <3>1. q \in Nat
      BY <2>1, BblFacts
    <3>2. \A n : n \in cover <=> CoversAt(w, n, r, q)
      BY <1>1, <2>1, CoverFound
    <3> HIDE DEF cover
    <3>3. /\ LiveAfter(q, r) <=> \E n : CoversAt(w, n, r, q)
          /\ \A n, m : CoversAt(w, n, r, q) /\ CoversAt(w, m, r, q) => n = m
      BY <1>1, <1>2, <2>1, <3>1 DEF Walked, Known, Exactly
    <3> QED
      BY <3>2, <3>3
  <2>2. CASE q = -1
    <3>1. \A n : n \in cover <=> r \in DOMAIN w.last_use /\ n = w.last_use[r]
      BY <1>1, <2>2, CoverOpen
    <3> HIDE DEF cover
    <3>2. r \in DOMAIN w.last_use <=> LiveAfter(0 - 1, r)
      BY <1>1, <1>2 DEF Walked, Known, Entered
    <3>3. q = 0 - 1
      BY <2>2
    <3> QED
      BY <3>1, <3>2, <3>3
  <2> QED
    BY <2>1, <2>2
<1> HIDE DEF cover
<1>4. CASE LiveAfter(q, r)
  <2>1. PICK n : n \in cover
    BY <1>3, <1>4
  <2>2. cover = {n}
    BY <1>3, <2>1
  <2>3. Cardinality(cover) = 1
    BY <2>2, FS_Singleton
  <2> QED
    BY <1>4, <2>3 DEF cover
<1>5. CASE ~LiveAfter(q, r)
  <2>1. cover = {}
    BY <1>3, <1>5
  <2>2. Cardinality(cover) = 0
    BY <2>1, FS_EmptySet
  <2> QED
    BY <1>5, <2>2 DEF cover
<1> QED
  BY <1>4, <1>5

(* The ranges of a virtual register tell of the calls in them. *)
LEMMA CallsFlagged ==
  ASSUME Given, Ranges, NEW n \in DOMAIN lrs, ~is_use_lr(lrs[n]),
         RangeCpu[lrs[n].reg] = NoCpuReg, lrs[n].last # NO_USE
  PROVE  lrs[n].lac <=> \E c \in Pos : /\ At(c).op = "call"
                                       /\ lrs[n].def < c /\ c < lrs[n].last
<1>1. PICK w : Walked(w, 0) /\ Found(w)
  BY DEF Ranges
<1>2. /\ n \in 1 .. Len(lrs) /\ IsRange(w, n) /\ lrs[n].last \in Int /\ lrs[n].last = w.out[n].last
      /\ Virtual(w.out[n].reg)
  BY <1>1 DEF Found, Virtual
<1>3. CASE w.out[n].def = -1
  <2>1. lrs[n].def = BEFORE_BBL /\ (lrs[n].lac <=> Crossing(w.call_pos, lrs[n].last))
    BY <1>1, <1>2, <1>3 DEF Found
  <2>2. \A d \in Pos : At(d).op = "call" => (0 <= d <=> BEFORE_BBL < d)
    <3>1. \A d \in Pos : d \in Nat
      BY BblFacts
    <3> QED
      BY <3>1 DEF BEFORE_BBL
  <2>3. Nearest(w, 0) /\ BEFORE_BBL \in Int /\ 0 \in Int
    BY <1>1 DEF Walked, Known, BEFORE_BBL
  <2> DEFINE x == lrs[n].last
             before == BEFORE_BBL
             k == 0
  <2>4. /\ x \in Int /\ before \in Int /\ k \in Int /\ Nearest(w, k)
        /\ \A d \in Pos : At(d).op = "call" => (k <= d <=> before < d)
    BY <1>2, <2>2, <2>3
  <2> HIDE DEF x, before, k
  <2>5. Crossing(w.call_pos, x) <=> \E c \in Pos : At(c).op = "call" /\ before < c /\ c < x
    BY <2>4, NextCall
  <2> QED
    BY <2>1, <2>5 DEF x, before
<1>4. CASE w.out[n].def # -1
  <2>1. lrs[n].def = w.out[n].def /\ lrs[n].lac = w.out[n].lac
    BY <1>1, <1>2, <1>4 DEF Found
  <2>2. Flagged(w.out[n])
    BY <1>1, <1>2, <1>4 DEF Walked, Known, Flags
  <2> QED
    BY <1>2, <2>1, <2>2 DEF Flagged
<1> QED
  BY <1>3, <1>4

(* A value in a machine register is covered up to its use. *)
LEMMA ValueCovered ==
  ASSUME Given, Ranges, NEW r \in RangeReg, RangeCpu[r] # NoCpuReg, NEW d \in Pos, NEW e \in Pos,
         d < e, Contains(At(d).def, r), ~WrittenWithin(d, e, r),
         Reads(e, r) \/ (Takes(e, r) /\ ~\E q \in (d + 1)..(e - 1) : Reads(q, r))
  PROVE  \E n \in RangesOf(r) : \A p \in d..(e - 1) : Covers(lrs[n], p)
<1>1. PICK w : Walked(w, 0) /\ Found(w)
  BY DEF Ranges
<1>2. d \in Nat /\ e \in Nat /\ \A p \in Pos : p \in Nat
  BY BblFacts
<1>3. ReadWithin(d, e, r) => \E q \in (d + 1)..(e - 1) : Reads(q, r)
  BY <1>2 DEF ReadWithin
<1>4. PICK n \in 1 .. Len(w.out) : \A q \in d .. (e - 1) : CoversAt(w, n, r, q)
  <2>1. Feeds(w, 0) /\ ~Virtual(r) /\ 0 <= d
    BY <1>1, <1>2 DEF Walked, Known, Virtual
  <2> QED
    BY <1>3, <2>1 DEF Feeds
<1>5. \A q \in d .. (e - 1) : q \in Pos
  BY <1>2 DEF Pos
<1>6. \A q \in d .. (e - 1) : n \in RangesOf(r) /\ Covers(lrs[n], q)
  BY <1>1, <1>4, <1>5, CoverFound
<1>7. d \in d .. (e - 1)
  BY <1>2
<1> QED
  BY <1>6, <1>7

(* A use entry comes before what its instruction defines and names each *)
(* range that ends there once.                                          *)
LEMMA UseFirst ==
  ASSUME Given, Ranges, NEW a \in DOMAIN Sorted(lrs), NEW b \in DOMAIN Sorted(lrs),
         is_use_lr(lrs[Sorted(lrs)[a]]), ~is_use_lr(lrs[Sorted(lrs)[b]])
  PROVE  LET use == lrs[Sorted(lrs)[a]]
             lr == lrs[Sorted(lrs)[b]]
         IN /\ use.def = lr.def => a < b
            /\ (lr.def < use.def /\ lr.last = use.def /\ Contains(At(use.def).use, lr.reg))
                 => Cardinality({k \in DOMAIN use.uses : use.uses[k] = Sorted(lrs)[b]}) = 1
<1> DEFINE s == Sorted(lrs)
           n == s[a]
           m == s[b]
           use == lrs[n]
           lr == lrs[m]
           named == {k \in DOMAIN use.uses : use.uses[k] = m}
<1>1. PICK w : Walked(w, 0) /\ Found(w)
  BY DEF Ranges
<1>2. InOrder(lrs, s)
  <2>1. Len(lrs) \in Nat /\ DOMAIN lrs = 1 .. Len(lrs)
        /\ \A k \in 1 .. Len(lrs) : lrs[k].def \in Int /\ lrs[k].last \in Int
    BY <1>1 DEF Found
  <2> QED
    BY <2>1, Sorting
<1> HIDE DEF s
<1>3. /\ n \in 1 .. Len(lrs) /\ m \in 1 .. Len(lrs) /\ n # m
      /\ a \in 1 .. Len(lrs) /\ b \in 1 .. Len(lrs) /\ Len(lrs) \in Nat
  <2>1. s \in Seq(1 .. Len(lrs)) /\ Len(s) = Len(lrs) /\ a \in DOMAIN s /\ b \in DOMAIN s
    BY <1>2 DEF InOrder, s
  <2>2. Len(lrs) \in Nat /\ is_use_lr(lrs[n]) /\ ~is_use_lr(lrs[m])
    BY <1>1 DEF Found, s
  <2>3. a \in 1 .. Len(lrs) /\ b \in 1 .. Len(lrs)
    BY <2>1
  <2>4. \A k \in 1 .. Len(s) : s[k] \in 1 .. Len(lrs)
    <3> DEFINE S == 1 .. Len(lrs)
    <3>1. s \in Seq(S)
      BY <2>1
    <3> HIDE DEF S
    <3>2. \A k \in 1 .. Len(s) : s[k] \in S
      BY ONLY <3>1
    <3> QED
      BY <3>2 DEF S
  <2>5. n \in 1 .. Len(lrs) /\ m \in 1 .. Len(lrs)
    BY <2>1, <2>3, <2>4
  <2> QED
    BY <2>2, <2>3, <2>5
<1> HIDE DEF n, m
<1>4. /\ use.def \in Int /\ lr.def \in Int /\ lr.last \in Int /\ use.last = use.def
      /\ lr.def < lr.last /\ is_use_lr(use) /\ ~is_use_lr(lr)
  BY <1>1, <1>3 DEF Found, n, m, s
<1>5. ASSUME use.def = lr.def
      PROVE  a < b
  <2>1. Before(lrs, n, m) /\ ~Before(lrs, m, n)
    BY <1>4, <1>5 DEF Before
  <2>2. b < a => Before(lrs, m, n)
    BY <1>2, <1>3 DEF InOrder, n, m
  <2>3. a # b
    BY <1>3 DEF n, m
  <2> QED
    BY <1>3, <2>1, <2>2, <2>3
<1>6. ASSUME lr.def < use.def, lr.last = use.def, Contains(At(use.def).use, lr.reg)
      PROVE  Cardinality(named) = 1
  <2>1. /\ IsRange(w, m) /\ w.out[m].reg = lr.reg /\ w.out[m].last = lr.last
        /\ w.out[n].reg = NoReg /\ w.out[n].uses = use.uses /\ n \in 1 .. Len(w.out)
    BY <1>1, <1>3, <1>4 DEF Found, is_use_lr
  <2>2. ~IsRange(w, n)
    BY <2>1, BblFacts, PinnedAssumption DEF IsRange
  <2>3. w.out[n].def = use.def
    BY <1>1, <1>3, <2>2 DEF Found
  <2>4. EndsAt(w, n, m)
    BY <1>6, <2>1, <2>3 DEF EndsAt
  <2>5. NamesOnce(w.out[n], m)
    BY <1>1, <2>1, <2>4 DEF Walked, Known, Named
  <2>6. PICK k \in DOMAIN use.uses : /\ use.uses[k] = m
                                     /\ \A j \in DOMAIN use.uses : use.uses[j] = m => j = k
    BY <2>1, <2>5 DEF NamesOnce
  <2>7. named = {k}
    BY <2>6
  <2> HIDE DEF named
  <2> QED
    BY <2>7, FS_Singleton
<1> QED
  BY <1>5, <1>6 DEF n, m, s

-----------------------------------------------------------------------------
(* A bbl of the first half is computed on in one step; of the second half, *)
(* scanned.                                                                *)
RangesInv ==
  /\ turn \in {"start", "done"} => Given /\ pc = "idle"
  /\ turn = "done" => lrs = BblGetLiveRanges(bbl, live_out, RangeCpu, FunOut)
AllocInv == ScanInv /\ RangesInv

LEMMA AllocInitInv == AllocInit => AllocInv
<1>1. ASSUME RangesInit
      PROVE  AllocInv
  BY <1>1 DEF RangesInit, AllocInv, ScanInv, RangesInv, Given
<1>2. ASSUME Init, turn = "idle"
      PROVE  AllocInv
  BY <1>2, InitInv DEF AllocInv, RangesInv
<1> QED
  BY <1>1, <1>2 DEF AllocInit

LEMMA AllocNextInv == AllocInv /\ [AllocNext]_<<vars, live_out, turn>> => AllocInv'
<1> SUFFICES ASSUME AllocInv, [AllocNext]_<<vars, live_out, turn>>
             PROVE  AllocInv'
  OBVIOUS
<1>1. CASE GetLiveRanges
  <2>1. Given /\ pc = "idle" /\ round \in {1, 2}
    BY <1>1 DEF GetLiveRanges, AllocInv, RangesInv, ScanInv
  <2>2. ScanInv'
    BY <1>1, <2>1 DEF GetLiveRanges, ScanInv
  <2>3. Given'
    BY <1>1, <2>1 DEF GetLiveRanges, Given
  <2>4. lrs' = BblGetLiveRanges(bbl', live_out', RangeCpu, FunOut) /\ pc' = "idle"
    BY <1>1, <2>1 DEF GetLiveRanges
  <2> QED
    BY <2>2, <2>3, <2>4 DEF AllocInv, RangesInv
<1>2. CASE Next /\ UNCHANGED <<live_out, turn>>
  <2>1. pc = "scan" /\ turn' = turn
    BY <1>2 DEF Next, Scan, Finish, SpillAndRescan
  <2>2. turn' \notin {"start", "done"}
    BY <2>1 DEF AllocInv, RangesInv
  <2>3. ScanInv'
    BY <1>2, NextInv DEF AllocInv
  <2> QED
    BY <2>2, <2>3 DEF AllocInv, RangesInv
<1>3. CASE UNCHANGED <<vars, live_out, turn>>
  <2>1. ScanInv'
    BY <1>3, NextInv DEF AllocInv
  <2>2. RangesInv'
    BY <1>3 DEF AllocInv, RangesInv, Given, vars
  <2> QED
    BY <2>1, <2>2 DEF AllocInv
<1> QED
  BY <1>1, <1>2, <1>3 DEF AllocNext

(* What holds of the ranges of a bbl. *)
LEMMA RangesKnown == AllocInv /\ turn = "done" => Given /\ Ranges
BY RangesFound DEF AllocInv, RangesInv

LEMMA ExactFound == AllocInv => VirtualRangesExact
BY RangesKnown, VirtualExact DEF VirtualRangesExact

LEMMA CoverageFound == AllocInv => CpuRangesCover
BY RangesKnown, ValueCovered DEF CpuRangesCover

LEMMA LacFound == AllocInv => LacExact
BY RangesKnown, CallsFlagged DEF LacExact

LEMMA UsesFound == AllocInv => UsesPrecedeDefs
BY RangesKnown, UseFirst DEF UsesPrecedeDefs

(***************************************************************************)
(* The invariant of local register allocation: every bbl is one whose      *)
(* ranges are computed or one that is scanned, and a scan is sound.        *)
(***************************************************************************)
THEOREM AllocInvariance == AllocSpec => []AllocInv
BY AllocInitInv, AllocNextInv, PTL DEF AllocSpec

(***************************************************************************)
(* The ranges BblGetLiveRanges finds for a virtual register cover exactly  *)
(* the positions where it is live, each by one range, for every bbl, every *)
(* set of live registers and every binding the constants allow.            *)
(***************************************************************************)
THEOREM VirtualRangesAreExact == AllocSpec => []VirtualRangesExact
BY AllocInvariance, ExactFound, PTL

(***************************************************************************)
(* A value written to a machine register is covered from the instruction   *)
(* that writes it to the one, call or ret that takes it.                   *)
(***************************************************************************)
THEOREM CpuRangesReachUses == AllocSpec => []CpuRangesCover
BY AllocInvariance, CoverageFound, PTL

(***************************************************************************)
(* The live-across-call flag of a virtual register's range tells whether a *)
(* call lies strictly inside it.                                           *)
(***************************************************************************)
THEOREM LacIsExact == AllocSpec => []LacExact
BY AllocInvariance, LacFound, PTL

(***************************************************************************)
(* The sorted ranges have an instruction's use entry before what it        *)
(* writes, and the entry names each range that ends there once.            *)
(***************************************************************************)
THEOREM UsesComeFirst == AllocSpec => []UsesPrecedeDefs
BY AllocInvariance, UsesFound, PTL

(***************************************************************************)
(* Over both halves of the allocation, no unit is held twice.              *)
(***************************************************************************)
THEOREM AllocHoldsUnitsOnce == AllocSpec => []NoUnitHeldTwice
<1>1. AllocInv => NoUnitHeldTwice
  BY HeldOnce DEF AllocInv
<1> QED
  BY <1>1, AllocInvariance, PTL
=============================================================================
