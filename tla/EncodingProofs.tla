--------------------------- MODULE EncodingProofs ---------------------------
(***************************************************************************)
(* Proofs about Encoding.                                                  *)
(***************************************************************************)
EXTENDS Encoding, FoldTheorems

----------------------------------------------------------------------------
(* Sets of bits.                                                           *)

Bits32 == SUBSET WordBits

(* What shifting moves where.                                              *)
LEMMA Shifts ==
  ASSUME NEW s, s \subseteq Nat, NEW n \in Nat
  PROVE  /\ ShiftLeft(s, n) \subseteq Nat /\ ShiftRight(s, n) \subseteq Nat
         /\ \A i \in Int : i \in ShiftLeft(s, n) <=> i - n \in s
         /\ \A i \in Int : i \in ShiftRight(s, n) <=> i >= 0 /\ i + n \in s
<1>1. \A i \in Int : i \in ShiftLeft(s, n) <=> i - n \in s
  <2> SUFFICES ASSUME NEW i \in Int
               PROVE  i \in ShiftLeft(s, n) <=> i - n \in s
    OBVIOUS
  <2>1. ASSUME i - n \in s
        PROVE  i \in ShiftLeft(s, n)
    <3>1. i = (i - n) + n
      OBVIOUS
    <3> QED
      BY <2>1, <3>1 DEF ShiftLeft
  <2> QED
    BY <2>1 DEF ShiftLeft
<1>2. ShiftLeft(s, n) \subseteq Nat
  BY DEF ShiftLeft
<1>3. \A i \in Int : i \in ShiftRight(s, n) <=> i >= 0 /\ i + n \in s
  <2> SUFFICES ASSUME NEW i \in Int
               PROVE  i \in ShiftRight(s, n) <=> i >= 0 /\ i + n \in s
    OBVIOUS
  <2>1. ASSUME i >= 0, i + n \in s
        PROVE  i \in ShiftRight(s, n)
    <3>1. i = (i + n) - n /\ i + n >= n
      BY <2>1
    <3> QED
      BY <2>1, <3>1 DEF ShiftRight
  <2>2. ASSUME i \in ShiftRight(s, n)
        PROVE  i >= 0 /\ i + n \in s
    <3>1. PICK j \in s : j >= n /\ i = j - n
      BY <2>2 DEF ShiftRight
    <3> QED
      BY <3>1
  <2> QED
    BY <2>1, <2>2
<1>4. ShiftRight(s, n) \subseteq Nat
  BY DEF ShiftRight
<1> QED
  BY <1>1, <1>2, <1>3, <1>4

(* The same sets, element by element.                                      *)
LEMMA SameBits ==
  ASSUME NEW s, s \subseteq Nat, NEW t, t \subseteq Nat, \A i \in Nat : i \in s <=> i \in t
  PROVE  s = t
OBVIOUS

(* The bits of a range are the positions it occupies.                      *)
LEMMA RangePlaces ==
  ASSUME NEW r, r[2] \in Nat, r[3] \in Nat
  PROVE  RangeMask(r) \subseteq Nat /\ RangeMask(r) = r[3] .. (r[3] + r[2] - 1)
<1> DEFINE n == r[3]
           d == 0 .. r[2] - 1
           m == ShiftLeft(d, n)
           p == n .. (n + r[2] - 1)
<1>1. d \subseteq Nat /\ n \in Nat /\ p \subseteq Nat
  OBVIOUS
<1>2. \A i \in Nat : i \in p <=> i - n \in d
  OBVIOUS
<1> HIDE DEF d, n, p
<1>3. m \subseteq Nat /\ \A i \in Int : i \in m <=> i - n \in d
  BY <1>1, Shifts
<1> HIDE DEF m
<1>6. ASSUME NEW i \in Nat
      PROVE  i \in m <=> i \in p
  BY <1>2, <1>3
<1>4. m = p
  BY <1>1, <1>3, <1>6, SameBits
<1>5. RangeMask(r) = m
  BY DEF RangeMask, m, d, n
<1> QED
  BY <1>1, <1>4, <1>5 DEF p, n

(* The content of a range.                                                 *)
Piece(w, r) == Low(ShiftRight(w, r[3]), r[2])

LEMMA Pieces ==
  ASSUME NEW w, w \subseteq Nat, NEW r, r[2] \in Nat, r[3] \in Nat
  PROVE  /\ Piece(w, r) \subseteq Nat
         /\ \A i \in Int : i \in Piece(w, r) <=> i \in 0 .. r[2] - 1 /\ i + r[3] \in w
<1> DEFINE n == r[3]
           m == ShiftRight(w, n)
<1>1. n \in Nat
  OBVIOUS
<1> HIDE DEF n
<1>2. m \subseteq Nat /\ \A i \in Int : i \in m <=> i >= 0 /\ i + n \in w
  BY <1>1, Shifts
<1> HIDE DEF m
<1> DEFINE k == r[2]
           z == Piece(w, r)
<1>3. z = {i \in m : i < k}
  BY DEF Piece, Low, m, n
<1>4. k \in Nat
  OBVIOUS
<1> HIDE DEF k, z
<1>5. z \subseteq Nat
  BY <1>2, <1>3
<1>6. ASSUME NEW i \in Int
      PROVE  i \in z <=> i \in 0 .. k - 1 /\ i + n \in w
  BY <1>2, <1>3, <1>4
<1> QED
  BY <1>5, <1>6 DEF n, k, z

(* Putting the content back gives the bits the word has in the range.      *)
LEMMA PutBack ==
  ASSUME NEW w, w \subseteq Nat, NEW r, r[2] \in Nat, r[3] \in Nat
  PROVE  ShiftLeft(Piece(w, r), r[3]) = w \cap RangeMask(r)
<1> DEFINE x == Piece(w, r)
           n == r[3]
           k == r[2]
           y == ShiftLeft(x, n)
           m == RangeMask(r)
<1>1. x \subseteq Nat /\ \A i \in Int : i \in x <=> i \in 0 .. k - 1 /\ i + n \in w
  BY Pieces
<1>2. m \subseteq Nat /\ m = n .. (n + k - 1)
  BY RangePlaces
<1>0. n \in Nat /\ k \in Nat
  OBVIOUS
<1> HIDE DEF x, n, m, k
<1>3. y \subseteq Nat /\ \A i \in Int : i \in y <=> i - n \in x
  BY <1>0, <1>1, Shifts
<1> HIDE DEF y
<1>4. ASSUME NEW i \in Nat
      PROVE  i \in y <=> i \in w \cap m
  <2>1. i - n \in Int /\ (i - n) + n = i /\ (i - n \in 0 .. k - 1 <=> i \in n .. (n + k - 1))
    BY <1>0
  <2> QED
    BY <1>1, <1>2, <1>3, <2>1
<1>5. y = w \cap m
  BY <1>2, <1>3, <1>4, SameBits
<1> QED
  BY <1>5 DEF y, x, n, m

(* What was put into a range is found there, if nothing else is in it.     *)
LEMMA FoundAgain ==
  ASSUME NEW r, r[2] \in Nat, r[3] \in Nat, NEW x, x \subseteq 0 .. r[2] - 1,
         NEW w, w \subseteq Nat, w \cap RangeMask(r) = ShiftLeft(x, r[3])
  PROVE  Piece(w, r) = x
<1> DEFINE n == r[3]
           k == r[2]
           y == ShiftLeft(x, n)
           m == RangeMask(r)
           z == Piece(w, r)
<1>0. n \in Nat /\ k \in Nat /\ x \subseteq 0 .. k - 1 /\ x \subseteq Nat /\ w \cap m = y
  OBVIOUS
<1>1. z \subseteq Nat /\ \A i \in Int : i \in z <=> i \in 0 .. k - 1 /\ i + n \in w
  BY Pieces
<1>2. m = n .. (n + k - 1)
  BY RangePlaces
<1> HIDE DEF n, m, k, z
<1>3. \A i \in Int : i \in y <=> i - n \in x
  BY <1>0, Shifts
<1> HIDE DEF y
<1>4. ASSUME NEW i \in Nat
      PROVE  i \in z <=> i \in x
  <2>1. i + n \in Int /\ (i + n) - n = i /\ (i + n \in m <=> i \in 0 .. k - 1)
    BY <1>0, <1>2
  <2>2. i \in z <=> i + n \in y
    BY <1>0, <1>1, <2>1
  <2> QED
    BY <1>3, <2>1, <2>2
<1>5. z = x
  BY <1>0, <1>1, <1>4, SameBits
<1> QED
  BY <1>5 DEF z

(* What is put into a range does not leave it.                             *)
LEMMA StaysWithin ==
  ASSUME NEW r, r[2] \in Nat, r[3] \in Nat, NEW x, x \subseteq 0 .. r[2] - 1
  PROVE  ShiftLeft(x, r[3]) \subseteq RangeMask(r)
<1> DEFINE n == r[3]
           k == r[2]
           y == ShiftLeft(x, n)
           m == RangeMask(r)
<1>0. n \in Nat /\ k \in Nat /\ x \subseteq 0 .. k - 1 /\ x \subseteq Nat
  OBVIOUS
<1>1. m = n .. (n + k - 1)
  BY RangePlaces
<1> HIDE DEF n, m, k
<1>2. y \subseteq Nat /\ \A i \in Int : i \in y <=> i - n \in x
  BY <1>0, Shifts
<1> HIDE DEF y
<1>3. y \subseteq m
  <2> SUFFICES ASSUME NEW i \in y
               PROVE  i \in m
    OBVIOUS
  <2>1. i \in Nat /\ i - n \in 0 .. k - 1
    BY <1>0, <1>2
  <2> QED
    BY <1>0, <1>1, <2>1
<1> QED
  BY <1>3 DEF y, m, n

----------------------------------------------------------------------------
(* The loops over the ranges of an operand kind: there are three at most.  *)

NotYet == [returned |-> FALSE, val |-> {}]
Whole(v) == [ok |-> TRUE, bits |-> {}, rest |-> v]

LEMMA TakingRanges ==
  ASSUME NEW f, Len(f) \in 1 .. 3, NEW w, NEW a, NEW b, NEW c, a = TakeRange(w, NotYet, f[1]),
         b = TakeRange(w, a, f[2]), c = TakeRange(w, b, f[3])
  PROVE  DecodeOperand(f, w) = (IF Len(f) = 1 THEN a ELSE IF Len(f) = 2 THEN b ELSE c).val
<1> DEFINE base == NotYet
           seq == f
           n == Len(seq)
           Rnd(v, e) == TakeRange(w, v, e)
           F(h) == [j \in 0 .. n |->
                      IF j = 0 THEN base
                      ELSE CHOOSE end \in {Rnd(mid, seq[j]) : mid \in {h[j - 1]}} : TRUE]
           fold == CHOOSE h : h = F(h)
           g == [j \in 0 .. n |-> IF j = 0 THEN base ELSE IF j = 1 THEN a ELSE IF j = 2 THEN b ELSE c]
<1>1. n \in 1 .. 3 /\ a = Rnd(base, seq[1]) /\ b = Rnd(a, seq[2]) /\ c = Rnd(b, seq[3])
  OBVIOUS
<1>2. DecodeOperand(f, w) = fold[n].val
  BY Zenon DEF DecodeOperand, FoldForward, NotYet
<1> HIDE DEF Rnd, seq, n, base
<1>3. ASSUME NEW j \in 1 .. n, NEW v
      PROVE  (CHOOSE end \in {Rnd(mid, seq[j]) : mid \in {v}} : TRUE) = Rnd(v, seq[j])
  OBVIOUS
<1>4. g = F(g)
  <2>1. \A j \in 1 .. n : g[j] = Rnd(g[j - 1], seq[j])
    <3> SUFFICES ASSUME NEW j \in 1 .. n
                 PROVE  g[j] = Rnd(g[j - 1], seq[j])
      OBVIOUS
    <3>1. n \in 1 .. 3 /\ j - 1 \in 0 .. n
      BY <1>1
    <3>2. CASE j = 1
      BY <1>1, <3>1, <3>2
    <3>3. CASE j = 2
      BY <1>1, <3>1, <3>3
    <3>4. CASE j = 3
      BY <1>1, <3>1, <3>4
    <3> QED
      BY <3>1, <3>2, <3>3, <3>4
  <2>2. \A j \in 0 .. n : g[j] = (IF j = 0 THEN base
                      ELSE CHOOSE end \in {Rnd(mid, seq[j]) : mid \in {g[j - 1]}} : TRUE)
    <3>1. g[0] = base
      BY <1>1
    <3> HIDE DEF g
    <3>2. ASSUME NEW j \in 1 .. n
          PROVE  g[j] = CHOOSE end \in {Rnd(mid, seq[j]) : mid \in {g[j - 1]}} : TRUE
      BY <1>3, <2>1
    <3> QED
      BY <1>1, <3>1, <3>2
  <2> QED
    BY <2>2
<1>5. fold = F(fold)
  <2> HIDE DEF F
  <2> QED
    BY <1>4, Zenon
<1> HIDE DEF fold
<1>6. fold[0] = base /\ \A j \in 1 .. n : fold[j] = Rnd(fold[j - 1], seq[j])
  BY <1>1, <1>3, <1>5
<1>7. fold[n] = IF n = 1 THEN a ELSE IF n = 2 THEN b ELSE c
  <2>1. fold[1] = a
    BY <1>1, <1>6
  <2>2. n >= 2 => fold[2] = b
    BY <1>1, <1>6, <2>1
  <2>3. n = 3 => fold[3] = c
    BY <1>1, <1>6, <2>2
  <2> QED
    BY <1>1, <2>1, <2>2, <2>3
<1> QED
  BY <1>2, <1>7 DEF n, seq

LEMMA PuttingRanges ==
  ASSUME NEW Kind, NEW f \in Seq(Kind), Len(f) \in 1 .. 3, NEW v, NEW n, n = Len(f),
         NEW a, NEW b, NEW c,
         a = PutRange(Whole(v), f[n]), b = PutRange(a, f[n - 1]), c = PutRange(b, f[n - 2])
  PROVE  EncodeOperand(f, v) = IF n = 1 THEN a ELSE IF n = 2 THEN b ELSE c
<1> DEFINE base == Whole(v)
           seq == Reverse(f)
           N == Len(seq)
           F(h) == [j \in 0 .. N |->
                      IF j = 0 THEN base
                      ELSE CHOOSE end \in {PutRange(mid, seq[j]) : mid \in {h[j - 1]}} : TRUE]
           fold == CHOOSE h : h = F(h)
           g == [j \in 0 .. N |-> IF j = 0 THEN base ELSE IF j = 1 THEN a ELSE IF j = 2 THEN b ELSE c]
<1>1. EncodeOperand(f, v) = fold[N]
  BY Zenon DEF EncodeOperand, FoldBackward, FoldForward, Whole
<1>2. N = n /\ \A i \in 1 .. n : seq[i] = f[n - i + 1]
  BY Reversing
<1> HIDE DEF seq, N, base
<1>3. /\ N \in 1 .. 3 /\ a = PutRange(base, seq[1]) /\ (N >= 2 => b = PutRange(a, seq[2]))
      /\ (N = 3 => c = PutRange(b, seq[3]))
  <2>1. seq[1] = f[n] /\ (n >= 2 => seq[2] = f[n - 1]) /\ (n = 3 => seq[3] = f[n - 2])
    BY <1>2
  <2> QED
    BY <1>2, <2>1 DEF base
<1>4. ASSUME NEW j \in 1 .. N, NEW x
      PROVE  (CHOOSE end \in {PutRange(mid, seq[j]) : mid \in {x}} : TRUE) = PutRange(x, seq[j])
  OBVIOUS
<1>5. g = F(g)
  <2>1. \A j \in 1 .. N : g[j] = PutRange(g[j - 1], seq[j])
    <3> SUFFICES ASSUME NEW j \in 1 .. N
                 PROVE  g[j] = PutRange(g[j - 1], seq[j])
      OBVIOUS
    <3>1. N \in 1 .. 3 /\ j - 1 \in 0 .. N
      BY <1>3
    <3>2. CASE j = 1
      BY <1>3, <3>1, <3>2
    <3>3. CASE j = 2
      BY <1>3, <3>1, <3>3
    <3>4. CASE j = 3
      BY <1>3, <3>1, <3>4
    <3> QED
      BY <3>1, <3>2, <3>3, <3>4
  <2>2. \A j \in 0 .. N : g[j] = (IF j = 0 THEN base
                      ELSE CHOOSE end \in {PutRange(mid, seq[j]) : mid \in {g[j - 1]}} : TRUE)
    <3>1. g[0] = base
      BY <1>3
    <3> HIDE DEF g
    <3>2. ASSUME NEW j \in 1 .. N
          PROVE  g[j] = CHOOSE end \in {PutRange(mid, seq[j]) : mid \in {g[j - 1]}} : TRUE
      BY <1>4, <2>1
    <3> QED
      BY <1>3, <3>1, <3>2
  <2> QED
    BY <2>2
<1>6. fold = F(fold)
  <2> HIDE DEF F
  <2> QED
    BY <1>5, Zenon
<1> HIDE DEF fold
<1>7. fold[0] = base /\ \A j \in 1 .. N : fold[j] = PutRange(fold[j - 1], seq[j])
  BY <1>3, <1>4, <1>6
<1>8. fold[N] = IF N = 1 THEN a ELSE IF N = 2 THEN b ELSE c
  <2>1. fold[1] = a
    BY <1>3, <1>7
  <2>2. N >= 2 => fold[2] = b
    BY <1>3, <1>7, <2>1
  <2>3. N = 3 => fold[3] = c
    BY <1>3, <1>7, <2>2
  <2> QED
    BY <1>3, <2>1, <2>2, <2>3
<1> QED
  BY <1>1, <1>2, <1>8

----------------------------------------------------------------------------
(* Operands of one range.                                                  *)

Plain(modifier, width) ==
  \/ modifier \in {"Verbatim", "Times4", "Times8"}
  \/ modifier = "Times2Plus4" /\ width = 1
  \/ modifier = "Signed" /\ width > 0

Empty(modifier, width) == modifier \in {"Force0", "Force3", "Force6", "Force14"} /\ width = 0

(* What Spilled says of the operand of an opcode.                          *)
SpillsOver(modifier, width, val) ==
  \/ modifier = "Times4" /\ ~(val \subseteq 2 .. width + 1)
  \/ modifier = "Times8" /\ ~(val \subseteq 3 .. width + 2)
  \/ modifier = "Times2Plus4" /\ ~(val \subseteq 1 .. width + 1)
  \/ modifier = "Signed" /\ val \ (0 .. width - 2) \notin {{}, width - 1 .. 31}

(* Shifting there and back.                                                *)
LEMMA ThereAndBack ==
  ASSUME NEW x, x \subseteq Nat, NEW n \in Nat
  PROVE  ShiftRight(ShiftLeft(x, n), n) = x
<1> DEFINE y == ShiftLeft(x, n)
           z == ShiftRight(y, n)
<1>1. y \subseteq Nat /\ \A i \in Int : i \in y <=> i - n \in x
  BY Shifts
<1> HIDE DEF y
<1>2. z \subseteq Nat /\ \A i \in Int : i \in z <=> i >= 0 /\ i + n \in y
  BY <1>1, Shifts
<1> HIDE DEF z
<1>3. ASSUME NEW i \in Nat
      PROVE  i \in z <=> i \in x
  <2>1. i + n \in Int /\ (i + n) - n = i
    OBVIOUS
  <2> QED
    BY <1>1, <1>2, <2>1
<1>4. z = x
  BY <1>2, <1>3, SameBits
<1> QED
  BY <1>4 DEF z, y

(* And back and there, for a number that loses nothing.                    *)
LEMMA BackAndThere ==
  ASSUME NEW x, x \subseteq Nat, NEW n \in Nat, \A i \in x : i >= n
  PROVE  ShiftLeft(ShiftRight(x, n), n) = x
<1> DEFINE y == ShiftRight(x, n)
           z == ShiftLeft(y, n)
<1>1. y \subseteq Nat /\ \A i \in Int : i \in y <=> i >= 0 /\ i + n \in x
  BY Shifts
<1> HIDE DEF y
<1>2. z \subseteq Nat /\ \A i \in Int : i \in z <=> i - n \in y
  BY <1>1, Shifts
<1> HIDE DEF z
<1>3. ASSUME NEW i \in Nat
      PROVE  i \in z <=> i \in x
  <2>1. i - n \in Int /\ (i - n) + n = i /\ (i - n >= 0 <=> i >= n)
    OBVIOUS
  <2> QED
    BY <1>1, <1>2, <2>1
<1>4. z = x
  BY <1>2, <1>3, SameBits
<1> QED
  BY <1>4 DEF z, y

(* What a range gives, the encoding of the range takes, and gives the same *)
(* bits.                                                                   *)
LEMMA DecodedIsTaken ==
  ASSUME NEW modifier, NEW width \in 0 .. 32, Plain(modifier, width), NEW x, x \subseteq 0 .. width - 1,
         NEW v, v = DecodeSingle(modifier, x, width)
  PROVE  EncodeRange(modifier, v, width).ok /\ EncodeRange(modifier, v, width).x = x
<1>0. x \subseteq Nat
  OBVIOUS
<1>1. CASE modifier = "Verbatim"
  BY <1>1 DEF DecodeSingle, EncodeRange
<1>2. ASSUME NEW n \in {2, 3}
      PROVE  /\ ShiftLeft(x, n) \subseteq Nat
             /\ \A i \in ShiftLeft(x, n) : i >= n
             /\ ShiftRight(ShiftLeft(x, n), n) = x
  <2> DEFINE y == ShiftLeft(x, n)
  <2>0. n \in Nat
    OBVIOUS
  <2>1. y \subseteq Nat /\ \A i \in Int : i \in y <=> i - n \in x
    BY <1>0, <2>0, Shifts
  <2>2. ShiftRight(y, n) = x
    BY <1>0, <2>0, ThereAndBack
  <2> HIDE DEF y
  <2>3. \A i \in y : i >= n
    BY <1>0, <2>1
  <2> QED
    BY <2>1, <2>2, <2>3 DEF y
<1>3. CASE modifier = "Times4"
  <2>1. v = ShiftLeft(x, 2)
    BY <1>3 DEF DecodeSingle
  <2>2. /\ EncodeRange(modifier, v, width).ok <=> (v \cap {0, 1} = {})
        /\ EncodeRange(modifier, v, width).x = ShiftRight(v, 2)
    BY <1>3 DEF EncodeRange
  <2>3. v \cap {0, 1} = {} /\ ShiftRight(v, 2) = x
    BY <1>2, <2>1
  <2> QED
    BY <2>2, <2>3
<1>4. CASE modifier = "Times8"
  <2>1. v = ShiftLeft(x, 3)
    BY <1>4 DEF DecodeSingle
  <2>2. /\ EncodeRange(modifier, v, width).ok <=> (v \cap {0, 1, 2} = {})
        /\ EncodeRange(modifier, v, width).x = ShiftRight(v, 3)
    BY <1>4 DEF EncodeRange
  <2>3. v \cap {0, 1, 2} = {} /\ ShiftRight(v, 3) = x
    BY <1>2, <2>1
  <2> QED
    BY <2>2, <2>3
<1>5. CASE modifier = "Times2Plus4"
  <2>1. v = ShiftLeft(x, 1) \cup {2} /\ width = 1 /\ x \subseteq {0}
    BY <1>5 DEF DecodeSingle, Plain
  <2>2. /\ EncodeRange(modifier, v, width).ok <=> (2 \in v /\ 0 \notin v)
        /\ EncodeRange(modifier, v, width).x = ShiftRight(v \ {2}, 1)
    BY <1>5 DEF EncodeRange
  <2> DEFINE y == ShiftLeft(x, 1)
  <2>3. y \subseteq Nat /\ \A i \in Int : i \in y <=> i - 1 \in x
    BY <1>0, Shifts
  <2>4. ShiftRight(y, 1) = x
    BY <1>0, ThereAndBack
  <2>5. v = y \cup {2}
    BY <2>1
  <2> HIDE DEF y
  <2>6. 0 \notin y /\ 2 \notin y
    BY <2>1, <2>3
  <2>7. v \ {2} = y
    BY <2>5, <2>6
  <2>8. 2 \in v /\ 0 \notin v
    BY <2>5, <2>6
  <2> QED
    BY <2>2, <2>4, <2>7, <2>8
<1>6. CASE modifier = "Signed"
  <2>1. v = (IF width - 1 \in x THEN x \cup (width .. 31) ELSE x) /\ width > 0
    BY <1>6 DEF DecodeSingle, Plain, SignExtend
  <2>2. /\ EncodeRange(modifier, v, width).ok <=> (v \ (0 .. width - 1) \in {{}, width .. 31})
        /\ EncodeRange(modifier, v, width).x = Low(v, width)
    BY <1>6 DEF EncodeRange
  <2>5. \A i \in x : i \in Nat /\ i < width
    BY <1>0
  <2>6. ASSUME width - 1 \in x
        PROVE  v \ (0 .. width - 1) = width .. 31 /\ {i \in v : i < width} = x
    <3>1. v = x \cup (width .. 31)
      BY <2>1, <2>6
    <3> DEFINE up == width .. 31
               low == 0 .. width - 1
    <3>4. \A i \in up : i \notin low /\ ~(i < width)
      OBVIOUS
    <3>5. v = x \cup up /\ x \subseteq low
      BY <3>1
    <3> HIDE DEF up, low
    <3>2. v \ low = up
      BY <3>4, <3>5
    <3>3. {i \in v : i < width} = x
      BY <2>5, <3>4, <3>5
    <3> QED
      BY <3>2, <3>3 DEF up, low
  <2>7. ASSUME width - 1 \notin x
        PROVE  v \ (0 .. width - 1) = {} /\ {i \in v : i < width} = x
    <3>1. v = x
      BY <2>1, <2>7
    <3>2. v \ (0 .. width - 1) = {}
      BY <3>1
    <3>3. {i \in v : i < width} = x
      BY <2>5, <3>1
    <3> QED
      BY <3>2, <3>3
  <2>3. v \ (0 .. width - 1) \in {{}, width .. 31}
    BY <2>6, <2>7
  <2>4. Low(v, width) = x
    BY <2>6, <2>7 DEF Low
  <2> QED
    BY <2>2, <2>3, <2>4
<1> QED
  BY <1>1, <1>3, <1>4, <1>5, <1>6 DEF Plain

(* The other way round: what the encoding of a range takes without a spill *)
(* stays within it and is read back.                                       *)
LEMMA TakenIsDecoded ==
  ASSUME NEW modifier, NEW width \in 0 .. 32, Plain(modifier, width), NEW v \in Bits32,
         EncodeRange(modifier, v, width).ok, ~SpillsOver(modifier, width, v),
         NEW x, x = EncodeRange(modifier, v, width).x
  PROVE  /\ x \subseteq 0 .. width - 1
         /\ width # 0 => DecodeSingle(modifier, x, width) = v
<1>0. v \subseteq Nat /\ v \subseteq 0 .. 31
  BY DEF Bits32, WordBits
<1>1. CASE modifier = "Verbatim"
  BY <1>1 DEF DecodeSingle, EncodeRange
<1>2. ASSUME NEW n \in {2, 3}, v \subseteq n .. width + n - 1, x = ShiftRight(v, n)
      PROVE  x \subseteq 0 .. width - 1 /\ ShiftLeft(x, n) = v
  <2>1. n \in Nat /\ \A i \in v : i >= n
    BY <1>2
  <2>2. ShiftLeft(ShiftRight(v, n), n) = v
    BY <1>0, <2>1, BackAndThere
  <2>3. x \subseteq Nat /\ \A i \in Int : i \in x <=> i >= 0 /\ i + n \in v
    BY <1>0, <1>2, <2>1, Shifts
  <2>4. ASSUME NEW i \in x
        PROVE  i \in 0 .. width - 1
    <3>1. i \in Nat /\ i + n \in n .. width + n - 1
      BY <1>2, <2>3
    <3> QED
      BY <2>1, <3>1
  <2> QED
    BY <1>2, <2>2, <2>4
<1>3. CASE modifier = "Times4"
  <2>1. x = ShiftRight(v, 2) /\ v \subseteq 2 .. width + 2 - 1
    BY <1>3 DEF EncodeRange, SpillsOver
  <2>2. x \subseteq 0 .. width - 1 /\ ShiftLeft(x, 2) = v
    BY <1>2, <2>1
  <2> QED
    BY <1>3, <2>2 DEF DecodeSingle
<1>4. CASE modifier = "Times8"
  <2>1. x = ShiftRight(v, 3) /\ v \subseteq 3 .. width + 3 - 1
    BY <1>4 DEF EncodeRange, SpillsOver
  <2>2. x \subseteq 0 .. width - 1 /\ ShiftLeft(x, 3) = v
    BY <1>2, <2>1
  <2> QED
    BY <1>4, <2>2 DEF DecodeSingle
<1>5. CASE modifier = "Times2Plus4"
  <2>1. width = 1 /\ x = ShiftRight(v \ {2}, 1) /\ 2 \in v /\ v \subseteq {1, 2}
    <3>1. width = 1
      BY <1>5 DEF Plain
    <3>2. x = ShiftRight(v \ {2}, 1) /\ 2 \in v
      BY <1>5 DEF EncodeRange
    <3>3. v \subseteq 1 .. width + 1
      BY <1>5 DEF SpillsOver
    <3> QED
      BY <3>1, <3>2, <3>3
  <2> DEFINE y == v \ {2}
  <2>2. y \subseteq {1} /\ y \subseteq Nat /\ v = y \cup {2}
    BY <2>1
  <2>3. x = ShiftRight(y, 1)
    BY <2>1
  <2> HIDE DEF y
  <2>4. ShiftLeft(ShiftRight(y, 1), 1) = y
    <3>1. \A i \in y : i >= 1
      BY <2>2
    <3> QED
      BY <2>2, <3>1, BackAndThere
  <2>5. x \subseteq Nat /\ \A i \in Int : i \in x <=> i >= 0 /\ i + 1 \in y
    BY <2>2, <2>3, Shifts
  <2>6. x \subseteq 0 .. width - 1
    BY <2>1, <2>2, <2>5
  <2>7. DecodeSingle(modifier, x, width) = ShiftLeft(x, 1) \cup {2}
    BY <1>5 DEF DecodeSingle
  <2> QED
    BY <2>2, <2>3, <2>4, <2>6, <2>7
<1>6. CASE modifier = "Signed"
  <2>1. x = Low(v, width) /\ width > 0 /\ v \ (0 .. width - 2) \in {{}, width - 1 .. 31}
    BY <1>6 DEF EncodeRange, SpillsOver, Plain
  <2>2. x = {i \in v : i < width}
    BY <2>1 DEF Low
  <2>3. DecodeSingle(modifier, x, width) = IF width - 1 \in x THEN x \cup (width .. 31) ELSE x
    BY <1>6 DEF DecodeSingle, SignExtend
  <2>4. CASE v \ (0 .. width - 2) = {}
    <3>1. v \subseteq 0 .. width - 2
      BY <2>4
    <3>2. \A i \in v : i < width /\ i # width - 1
      BY <3>1
    <3>4. x = v /\ width - 1 \notin v
      BY <2>2, <3>2
    <3> QED
      BY <2>3, <3>1, <3>4
  <2>5. CASE v \ (0 .. width - 2) = width - 1 .. 31
    <3>1. \A i \in 0 .. 31 : i >= width - 1 => i \in v
      BY <2>1, <2>5
    <3>2. \A i \in 0 .. 31 : i \in width .. 31 <=> i >= width
      BY <2>1
    <3>3. x \subseteq 0 .. width - 1
      BY <1>0, <2>2
    <3>4. width - 1 \in x
      BY <2>1, <2>2, <3>1
    <3>5. x \cup (width .. 31) = v
      BY <1>0, <2>1, <2>2, <3>1
    <3> QED
      BY <2>3, <3>3, <3>4, <3>5
  <2> QED
    BY <2>1, <2>4, <2>5
<1> QED
  BY <1>1, <1>3, <1>4, <1>5, <1>6 DEF Plain

----------------------------------------------------------------------------
(* Rotated immediates.                                                     *)

LEMMA RotationReturns ==
  ASSUME NEW s, s \subseteq 0 .. 31, NEW a \in 0 .. 32
  PROVE  /\ RotateLeft(s, a) \subseteq 0 .. 31
         /\ RotateLeft(RotateLeft(s, a), 32 - a) = s
<1>1. ASSUME NEW i \in 0 .. 31
      PROVE  (i + a) % 32 \in 0 .. 31 /\ (((i + a) % 32) + (32 - a)) % 32 = i
  <2>1. CASE i + a < 32
    <3>1. (i + a) % 32 = i + a
      BY <2>1
    <3>2. (i + 32) % 32 = i
      OBVIOUS
    <3> QED
      BY <3>1, <3>2, <2>1
  <2>2. CASE i + a >= 32
    <3>1. (i + a) % 32 = i + a - 32
      BY <2>2
    <3>2. i % 32 = i
      OBVIOUS
    <3> QED
      BY <3>1, <3>2, <2>2
  <2> QED
    BY <2>1, <2>2
<1> DEFINE t == RotateLeft(s, a)
           u == RotateLeft(t, 32 - a)
<1>2. t = {(i + a) % 32 : i \in s} /\ u = {(j + (32 - a)) % 32 : j \in t}
  BY DEF RotateLeft
<1>3. t \subseteq 0 .. 31
  BY <1>1, <1>2
<1> HIDE DEF t, u
<1>4. u \subseteq s
  <2> SUFFICES ASSUME NEW k \in u
               PROVE  k \in s
    OBVIOUS
  <2>1. PICK j \in t : k = (j + (32 - a)) % 32
    BY <1>2
  <2>2. PICK i \in s : j = (i + a) % 32
    BY <1>2
  <2> QED
    BY <1>1, <2>1, <2>2
<1>5. s \subseteq u
  <2> SUFFICES ASSUME NEW i \in s
               PROVE  i \in u
    OBVIOUS
  <2>1. (i + a) % 32 \in t
    BY <1>2
  <2>2. (((i + a) % 32) + (32 - a)) % 32 \in u
    BY <1>2, <2>1
  <2> QED
    BY <1>1, <2>2
<1> QED
  BY <1>3, <1>4, <1>5 DEF t, u

(* Every twelve bits stand for an immediate that has a rotation.           *)
LEMMA RotatedIsTaken ==
  ASSUME NEW x, x \subseteq 0 .. 11
  PROVE  DecodeRotatedImm(x) \subseteq 0 .. 31 /\ Rotations(DecodeRotatedImm(x)) # {}
<1> DEFINE rot == {r \in 0 .. 15 : Ones(r) = ShiftRight(x, 8)}
           r == CHOOSE q \in rot : TRUE
           y == ShiftRight(x, 8)
           b == Low(x, 8)
           v == RotateLeft(b, 32 - 2 * r)
<1>1. y \subseteq Nat /\ \A i \in Int : i \in y <=> i >= 0 /\ i + 8 \in x
  <2> DEFINE n == 8
             z == ShiftRight(x, n)
  <2>1. x \subseteq Nat /\ n \in Nat
    OBVIOUS
  <2> HIDE DEF n
  <2>2. z \subseteq Nat /\ \A i \in Int : i \in z <=> i >= 0 /\ i + n \in x
    BY <2>1, Shifts
  <2> QED
    BY <2>2 DEF n, z
<1>2. y \in SUBSET (0 .. 3)
  <2> HIDE DEF y
  <2> QED
    BY <1>1
<1>3. r \in 0 .. 15
  BY <1>2, NibbleAssumption
<1>4. b \subseteq 0 .. 7
  <2>1. b = {i \in x : i < 8}
    BY DEF Low
  <2> HIDE DEF b
  <2>2. ASSUME NEW i \in b
        PROVE  i \in 0 .. 7
    <3>1. i \in 0 .. 11 /\ i < 8
      BY <2>1
    <3> QED
      BY <3>1
  <2> QED
    BY <2>2
<1>5. DecodeRotatedImm(x) = v
  BY DEF DecodeRotatedImm
<1> HIDE DEF r, b
<1>6. v \subseteq 0 .. 31 /\ RotateLeft(v, 32 - (32 - 2 * r)) = b
  <2> DEFINE a == 32 - 2 * r
  <2>1. a \in 0 .. 32 /\ b \subseteq 0 .. 31
    BY <1>3, <1>4
  <2> HIDE DEF a
  <2>2. RotateLeft(b, a) \subseteq 0 .. 31 /\ RotateLeft(RotateLeft(b, a), 32 - a) = b
    BY <2>1, RotationReturns
  <2> QED
    BY <2>2 DEF a
<1> HIDE DEF v
<1>7. RotateLeft(v, 2 * r) \subseteq 0 .. 7
  <2>1. 32 - (32 - 2 * r) = 2 * r
    BY <1>3
  <2> QED
    BY <1>4, <1>6, <2>1
<1> QED
  BY <1>3, <1>5, <1>6, <1>7 DEF Rotations

(* An immediate that has a rotation is read back.                          *)
LEMMA RotatedIsDecoded ==
  ASSUME NEW v \in Bits32, Rotations(v) # {}, NEW x, x = EncodeRotateImm(v)
  PROVE  x \subseteq 0 .. 11 /\ DecodeRotatedImm(x) = v
<1> DEFINE R == Rotations(v)
           r == CHOOSE q \in R : \A p \in R : q <= p
           b == RotateLeft(v, 2 * r)
           o == Ones(r)
           h == ShiftLeft(o, 8)
<1>1. R \subseteq Nat /\ R # {}
  BY DEF Rotations
<1>2. r \in R
  <2> HIDE DEF R
  <2>1. \E q \in R : \A p \in R : q <= p
    BY <1>1, Least
  <2> QED
    BY <2>1
<1>3. r \in 0 .. 15 /\ b \subseteq 0 .. 7
  <2> HIDE DEF r
  <2> QED
    BY <1>2 DEF Rotations
<1>4. x = h \cup b
  BY DEF EncodeRotateImm
<1> HIDE DEF r, R
<1>5. RotateLeft(b, 32 - 2 * r) = v
  <2> DEFINE a == 2 * r
  <2>1. a \in 0 .. 32 /\ v \subseteq 0 .. 31
    BY <1>3 DEF Bits32, WordBits
  <2> HIDE DEF a
  <2>2. RotateLeft(RotateLeft(v, a), 32 - a) = v
    BY <2>1, RotationReturns
  <2> QED
    BY <2>2 DEF a
<1>6. o \subseteq 0 .. 3
  BY <1>3, NibbleAssumption
<1> HIDE DEF b, o
<1>7. h \subseteq Nat /\ \A i \in Int : i \in h <=> i - 8 \in o
  <2> DEFINE n == 8
             z == ShiftLeft(o, n)
  <2>1. o \subseteq Nat /\ n \in Nat
    BY <1>6
  <2> HIDE DEF n
  <2>2. z \subseteq Nat /\ \A i \in Int : i \in z <=> i - n \in o
    BY <2>1, Shifts
  <2> QED
    BY <2>2 DEF n, z
<1> HIDE DEF h
<1>8. h \subseteq 8 .. 11
  BY <1>6, <1>7
<1>9. x \subseteq 0 .. 11 /\ x \subseteq Nat
  BY <1>3, <1>4, <1>8
<1>10. Low(x, 8) = b
  <2>1. (\A i \in h : i \in Int /\ ~(i < 8)) /\ (\A i \in b : i \in Int /\ i < 8)
    BY <1>3, <1>8
  <2>2. {i \in h \cup b : i < 8} = b
    BY <2>1
  <2> QED
    BY <1>4, <2>2 DEF Low
<1>11. ShiftRight(x, 8) = o
  <2> DEFINE y == ShiftRight(x, 8)
  <2>1. y \subseteq Nat /\ \A i \in Int : i \in y <=> i >= 0 /\ i + 8 \in x
    <3> DEFINE n == 8
               z == ShiftRight(x, n)
    <3>1. n \in Nat
      OBVIOUS
    <3> HIDE DEF n
    <3>2. z \subseteq Nat /\ \A i \in Int : i \in z <=> i >= 0 /\ i + n \in x
      BY <1>9, <3>1, Shifts
    <3> QED
      BY <3>2 DEF n, z
  <2> HIDE DEF y
  <2>2. ASSUME NEW i \in Nat
        PROVE  i \in y <=> i \in o
    <3>1. i + 8 \in Int /\ (i + 8) - 8 = i /\ i + 8 \notin 0 .. 7
      OBVIOUS
    <3>2. i + 8 \in x <=> i + 8 \in h
      BY <1>3, <1>4, <3>1
    <3> QED
      BY <1>7, <2>1, <3>1, <3>2
  <2>3. o \subseteq Nat
    BY <1>6
  <2>4. y = o
    BY <2>1, <2>2, <2>3, SameBits
  <2> QED
    BY <2>4 DEF y
<1> DEFINE rot == {q \in 0 .. 15 : Ones(q) = ShiftRight(x, 8)}
           c == CHOOSE q \in rot : TRUE
<1>12. r \in rot /\ c = r
  <2>1. rot = {r}
    BY <1>3, <1>11, NibbleAssumption DEF o
  <2> QED
    BY <2>1
<1>13. DecodeRotatedImm(x) = RotateLeft(Low(x, 8), 32 - 2 * c)
  BY DEF DecodeRotatedImm
<1> QED
  BY <1>5, <1>9, <1>10, <1>12, <1>13

----------------------------------------------------------------------------
(* An operand kind as a whole.                                             *)

(* A kind whose ranges do not meet, in a word.                             *)
Apart(f) ==
  /\ \A k \in DOMAIN f : RangeMask(f[k]) \subseteq WordBits
  /\ \A k, l \in DOMAIN f : k # l => RangeMask(f[k]) \cap RangeMask(f[l]) = {}

Kinds == STRING \X (0 .. 32) \X (0 .. 31)

(* One range: what decoding and encoding do.                               *)
LEMMA OneRange ==
  ASSUME NEW f \in Seq(Kinds), Len(f) = 1, NEW modifier, modifier = f[1][1],
         modifier \notin {"U", "Lo", "W", "Hi", "P"}, NEW w, NEW v
  PROVE  /\ FieldMask(f) = RangeMask(f[1])
         /\ DecodeOperand(f, w) = DecodeSingle(modifier, Piece(w, f[1]), f[1][2])
         /\ EncodeOperand(f, v).ok <=> EncodeRange(modifier, v, f[1][2]).ok
         /\ EncodeOperand(f, v).bits = ShiftLeft(EncodeRange(modifier, v, f[1][2]).x, f[1][3])
<1>1. FieldMask(f) = RangeMask(f[1])
  BY DEF FieldMask
<1> DEFINE a == TakeRange(w, NotYet, f[1])
           b == TakeRange(w, a, f[2])
           c == TakeRange(w, b, f[3])
<1>2. a.val = DecodeSingle(modifier, Piece(w, f[1]), f[1][2])
  BY DEF TakeRange, NotYet, Piece
<1>3. Len(f) \in 1 .. 3
  OBVIOUS
<1> HIDE DEF a, b, c
<1>4. DecodeOperand(f, w) = (IF Len(f) = 1 THEN a ELSE IF Len(f) = 2 THEN b ELSE c).val
  BY <1>3, TakingRanges DEF a, b, c
<1> DEFINE n == Len(f)
           p == PutRange(Whole(v), f[n])
           q == PutRange(p, f[n - 1])
           s == PutRange(q, f[n - 2])
<1>5. /\ p.ok <=> EncodeRange(modifier, v, f[1][2]).ok
      /\ p.bits = ShiftLeft(EncodeRange(modifier, v, f[1][2]).x, f[1][3])
  BY DEF PutRange, Whole
<1>6. n = 1 /\ n \in 1 .. 3 /\ n = Len(f)
  OBVIOUS
<1>7. EncodeOperand(f, v) = IF n = 1 THEN p ELSE IF n = 2 THEN q ELSE s
  <2>1. p = PutRange(Whole(v), f[n]) /\ q = PutRange(p, f[n - 1]) /\ s = PutRange(q, f[n - 2])
    OBVIOUS
  <2> HIDE DEF n, p, q, s
  <2> QED
    BY <1>6, <2>1, PuttingRanges
<1> HIDE DEF n, p, q, s
<1> QED
  BY <1>1, <1>2, <1>4, <1>5, <1>6, <1>7

(* A number put together from the bits from n upwards and those below.     *)
LEMMA Joining ==
  ASSUME NEW n \in Nat, NEW h, h \subseteq Nat, NEW l, l \subseteq 0 .. n - 1,
         NEW v, v = ShiftLeft(h, n) \cup l
  PROVE  v \subseteq Nat /\ Low(v, n) = l /\ ShiftRight(v, n) = h
<1> DEFINE u == ShiftLeft(h, n)
           z == ShiftRight(v, n)
<1>1. u \subseteq Nat /\ \A i \in Int : i \in u <=> i - n \in h
  BY Shifts
<1>2. v = u \cup l
  OBVIOUS
<1> HIDE DEF u
<1>3. \A i \in u : i \in Int /\ ~(i < n)
  BY <1>1
<1>4. \A i \in l : i \in Nat /\ i < n
  OBVIOUS
<1>5. v \subseteq Nat /\ Low(v, n) = l
  BY <1>1, <1>2, <1>3, <1>4 DEF Low
<1>6. z \subseteq Nat /\ \A i \in Int : i \in z <=> i >= 0 /\ i + n \in v
  <2>1. n \in Nat /\ v \subseteq Nat
    BY <1>5
  <2> QED
    BY ONLY <2>1, Shifts
<1> HIDE DEF z
<1>7. ASSUME NEW i \in Nat
      PROVE  i \in z <=> i \in h
  <2>1. i + n \in Int /\ (i + n) - n = i /\ ~(i + n < n)
    OBVIOUS
  <2>2. i + n \in v <=> i + n \in u
    BY <1>2, <1>4, <2>1
  <2> QED
    BY <1>1, <1>6, <2>1, <2>2
<1>8. z = h
  BY <1>6, <1>7, SameBits
<1> QED
  BY <1>5, <1>8 DEF z

LEMMA Splitting ==
  ASSUME NEW n \in Nat, NEW v, v \subseteq Nat
  PROVE  /\ Low(v, n) \subseteq 0 .. n - 1 /\ ShiftRight(v, n) \subseteq Nat
         /\ ShiftLeft(ShiftRight(v, n), n) \cup Low(v, n) = v
<1> DEFINE h == ShiftRight(v, n)
           u == ShiftLeft(h, n)
           l == Low(v, n)
<1>1. l = {i \in v : i < n}
  BY DEF Low
<1>2. h \subseteq Nat /\ \A i \in Int : i \in h <=> i >= 0 /\ i + n \in v
  BY Shifts
<1> HIDE DEF h, l
<1>3. u \subseteq Nat /\ \A i \in Int : i \in u <=> i - n \in h
  BY <1>2, Shifts
<1> HIDE DEF u
<1>4. l \subseteq Nat /\ \A i \in l : i \in 0 .. n - 1
  <2>1. ASSUME NEW i \in l
        PROVE  i \in Nat /\ i \in 0 .. n - 1
    <3>1. i \in Nat /\ i < n
      BY <1>1
    <3> QED
      BY <3>1
  <2> QED
    BY <2>1
<1>5. ASSUME NEW i \in Nat
      PROVE  i \in u \cup l <=> i \in v
  <2>1. i - n \in Int /\ (i - n) + n = i /\ (i - n >= 0 <=> ~(i < n))
    OBVIOUS
  <2>2. i \in u <=> ~(i < n) /\ i \in v
    BY <1>2, <1>3, <2>1
  <2> QED
    BY <1>1, <2>2
<1>6. u \cup l = v
  <2> DEFINE y == u \cup l
  <2>1. y \subseteq Nat /\ \A i \in Nat : i \in y <=> i \in v
    BY <1>3, <1>4, <1>5
  <2> HIDE DEF y
  <2>2. y = v
    BY <2>1, SameBits
  <2> QED
    BY <2>2 DEF y
<1> QED
  BY <1>2, <1>4, <1>6 DEF h, u, l

(* Two ranges, the high one first.                                         *)
Twofold(f, w, v, n) ==
  /\ FieldMask(f) = RangeMask(f[1]) \cup RangeMask(f[2])
  /\ DecodeOperand(f, w) = ShiftLeft(Piece(w, f[1]), n) \cup Piece(w, f[2])
  /\ EncodeOperand(f, v).ok <=> ShiftRight(v, n) \subseteq 0 .. f[1][2] - 1
  /\ EncodeOperand(f, v).bits = ShiftLeft(Low(v, n), f[2][3]) \cup ShiftLeft(ShiftRight(v, n), f[1][3])

LEMMA HighAndLow ==
  ASSUME NEW f \in Seq(Kinds), Len(f) = 2, f[1][1] = "Hi", f[2][1] = "Lo", NEW w, NEW v,
         NEW n, n = f[2][2]
  PROVE  Twofold(f, w, v, n)
<1>1. FieldMask(f) = RangeMask(f[1]) \cup RangeMask(f[2])
  <2>1. DOMAIN f = {1, 2}
    OBVIOUS
  <2> QED
    BY <2>1 DEF FieldMask
<1> DEFINE a == TakeRange(w, NotYet, f[1])
           b == TakeRange(w, a, f[2])
           c == TakeRange(w, b, f[3])
<1>2. ~a.returned /\ a.val = Piece(w, f[1])
  BY DEF TakeRange, NotYet, Piece, DecodeSingle
<1> HIDE DEF a
<1>3. b.val = ShiftLeft(Piece(w, f[1]), n) \cup Piece(w, f[2])
  BY <1>2 DEF TakeRange, Piece
<1>4. Len(f) \in 1 .. 3
  OBVIOUS
<1> HIDE DEF b, c
<1>5. DecodeOperand(f, w) = (IF Len(f) = 1 THEN a ELSE IF Len(f) = 2 THEN b ELSE c).val
  BY <1>4, TakingRanges DEF a, b, c
<1> DEFINE m == Len(f)
           p == PutRange(Whole(v), f[m])
           q == PutRange(p, f[m - 1])
           s == PutRange(q, f[m - 2])
<1>6. m = 2 /\ m \in 1 .. 3 /\ m = Len(f) /\ m - 1 = 1
  OBVIOUS
<1>7. EncodeOperand(f, v) = IF m = 1 THEN p ELSE IF m = 2 THEN q ELSE s
  <2>1. p = PutRange(Whole(v), f[m]) /\ q = PutRange(p, f[m - 1]) /\ s = PutRange(q, f[m - 2])
    OBVIOUS
  <2> HIDE DEF m, p, q, s
  <2> QED
    BY <1>6, <2>1, PuttingRanges
<1> HIDE DEF m
<1>8. p.ok /\ p.bits = ShiftLeft(Low(v, n), f[2][3]) /\ p.rest = ShiftRight(v, n)
  BY <1>6 DEF PutRange, Whole, EncodeRange
<1> HIDE DEF p
<1>9. /\ q.ok <=> ShiftRight(v, n) \subseteq 0 .. f[1][2] - 1
      /\ q.bits = ShiftLeft(Low(v, n), f[2][3]) \cup ShiftLeft(ShiftRight(v, n), f[1][3])
  BY <1>6, <1>8 DEF PutRange, EncodeRange
<1> HIDE DEF q, s
<1> QED
  BY <1>1, <1>3, <1>5, <1>6, <1>7, <1>9 DEF Twofold

(* Two ranges, the low one first: decoding returns with the first.         *)
LEMMA LowAndHigh ==
  ASSUME NEW f \in Seq(Kinds), Len(f) = 2, f[1][1] = "Lo", f[2][1] = "Hi", NEW w, NEW v
  PROVE  /\ FieldMask(f) = RangeMask(f[1]) \cup RangeMask(f[2])
         /\ DecodeOperand(f, w) = Piece(w, f[1])
         /\ EncodeOperand(f, v).ok <=> v \subseteq 0 .. f[2][2] - 1
         /\ EncodeOperand(f, v).bits =
              ShiftLeft(v, f[2][3]) \cup ShiftLeft(Low(v, f[1][2]), f[1][3])
<1>1. FieldMask(f) = RangeMask(f[1]) \cup RangeMask(f[2])
  <2>1. DOMAIN f = {1, 2}
    OBVIOUS
  <2> QED
    BY <2>1 DEF FieldMask
<1> DEFINE a == TakeRange(w, NotYet, f[1])
           b == TakeRange(w, a, f[2])
           c == TakeRange(w, b, f[3])
<1>2. a.returned /\ a.val = Piece(w, f[1])
  <2>1. ShiftLeft({}, f[1][2]) = {}
    BY DEF ShiftLeft
  <2> QED
    BY <2>1 DEF TakeRange, NotYet, Piece
<1> HIDE DEF a
<1>3. b.val = Piece(w, f[1])
  BY <1>2 DEF TakeRange
<1>4. Len(f) \in 1 .. 3
  OBVIOUS
<1> HIDE DEF b, c
<1>5. DecodeOperand(f, w) = (IF Len(f) = 1 THEN a ELSE IF Len(f) = 2 THEN b ELSE c).val
  BY <1>4, TakingRanges DEF a, b, c
<1> DEFINE m == Len(f)
           p == PutRange(Whole(v), f[m])
           q == PutRange(p, f[m - 1])
           s == PutRange(q, f[m - 2])
<1>6. m = 2 /\ m \in 1 .. 3 /\ m = Len(f) /\ m - 1 = 1
  OBVIOUS
<1>7. EncodeOperand(f, v) = IF m = 1 THEN p ELSE IF m = 2 THEN q ELSE s
  <2>1. p = PutRange(Whole(v), f[m]) /\ q = PutRange(p, f[m - 1]) /\ s = PutRange(q, f[m - 2])
    OBVIOUS
  <2> HIDE DEF m, p, q, s
  <2> QED
    BY <1>6, <2>1, PuttingRanges
<1> HIDE DEF m
<1>8. (p.ok <=> v \subseteq 0 .. f[2][2] - 1) /\ p.bits = ShiftLeft(v, f[2][3]) /\ p.rest = v
  BY <1>6 DEF PutRange, Whole, EncodeRange
<1> HIDE DEF p
<1>9. /\ q.ok <=> v \subseteq 0 .. f[2][2] - 1
      /\ q.bits = ShiftLeft(v, f[2][3]) \cup ShiftLeft(Low(v, f[1][2]), f[1][3])
  BY <1>6, <1>8 DEF PutRange, EncodeRange
<1> HIDE DEF q, s
<1> QED
  BY <1>1, <1>3, <1>5, <1>6, <1>7, <1>9

(* The three bits of an addressing mode.                                   *)
Threefold(f, w, v, n, k, r) ==
  /\ FieldMask(f) = RangeMask(f[1]) \cup RangeMask(f[2]) \cup RangeMask(f[3])
  /\ DecodeOperand(f, w) =
       ShiftLeft(ShiftLeft(Piece(w, f[1]), k) \cup Piece(w, f[2]), n) \cup Piece(w, f[3])
  /\ EncodeOperand(f, v).ok <=> ShiftRight(r, k) \subseteq 0 .. f[1][2] - 1
  /\ EncodeOperand(f, v).bits =
       ShiftLeft(Low(v, n), f[3][3]) \cup ShiftLeft(Low(r, k), f[2][3])
       \cup ShiftLeft(ShiftRight(r, k), f[1][3])

LEMMA ThreeRanges ==
  ASSUME NEW f \in Seq(Kinds), Len(f) = 3, f[1][1] = "P", f[2][1] = "U", f[3][1] = "W", NEW w, NEW v,
         NEW n, n = f[3][2], NEW k, k = f[2][2], NEW r, r = ShiftRight(v, n)
  PROVE  Threefold(f, w, v, n, k, r)
<1>1. FieldMask(f) = RangeMask(f[1]) \cup RangeMask(f[2]) \cup RangeMask(f[3])
  <2>1. DOMAIN f = {1, 2, 3}
    OBVIOUS
  <2> QED
    BY <2>1 DEF FieldMask
<1> DEFINE a == TakeRange(w, NotYet, f[1])
           b == TakeRange(w, a, f[2])
           c == TakeRange(w, b, f[3])
<1>2. ~a.returned /\ a.val = Piece(w, f[1])
  BY DEF TakeRange, NotYet, Piece, DecodeSingle
<1> HIDE DEF a
<1>3. ~b.returned /\ b.val = ShiftLeft(Piece(w, f[1]), k) \cup Piece(w, f[2])
  BY <1>2 DEF TakeRange, Piece
<1> HIDE DEF b
<1>10. c.val = ShiftLeft(ShiftLeft(Piece(w, f[1]), k) \cup Piece(w, f[2]), n) \cup Piece(w, f[3])
  BY <1>3 DEF TakeRange, Piece
<1>4. Len(f) \in 1 .. 3
  OBVIOUS
<1> HIDE DEF c
<1>5. DecodeOperand(f, w) = (IF Len(f) = 1 THEN a ELSE IF Len(f) = 2 THEN b ELSE c).val
  BY <1>4, TakingRanges DEF a, b, c
<1> DEFINE m == Len(f)
           p == PutRange(Whole(v), f[m])
           q == PutRange(p, f[m - 1])
           s == PutRange(q, f[m - 2])
<1>6. m = 3 /\ m \in 1 .. 3 /\ m = Len(f) /\ m - 1 = 2 /\ m - 2 = 1
  OBVIOUS
<1>7. EncodeOperand(f, v) = IF m = 1 THEN p ELSE IF m = 2 THEN q ELSE s
  <2>1. p = PutRange(Whole(v), f[m]) /\ q = PutRange(p, f[m - 1]) /\ s = PutRange(q, f[m - 2])
    OBVIOUS
  <2> HIDE DEF m, p, q, s
  <2> QED
    BY <1>6, <2>1, PuttingRanges
<1> HIDE DEF m
<1>8. p.ok /\ p.bits = ShiftLeft(Low(v, n), f[3][3]) /\ p.rest = r
  BY <1>6 DEF PutRange, Whole, EncodeRange
<1> HIDE DEF p
<1>9. /\ q.ok /\ q.rest = ShiftRight(r, k)
      /\ q.bits = ShiftLeft(Low(v, n), f[3][3]) \cup ShiftLeft(Low(r, k), f[2][3])
  BY <1>6, <1>8 DEF PutRange, EncodeRange
<1> HIDE DEF q
<1>11. /\ s.ok <=> ShiftRight(r, k) \subseteq 0 .. f[1][2] - 1
       /\ s.bits = ShiftLeft(Low(v, n), f[3][3]) \cup ShiftLeft(Low(r, k), f[2][3])
                    \cup ShiftLeft(ShiftRight(r, k), f[1][3])
  BY <1>6, <1>9 DEF PutRange, EncodeRange
<1> HIDE DEF s
<1> QED
  BY <1>1, <1>5, <1>6, <1>7, <1>10, <1>11 DEF Threefold

(* The widths and the positions of the ranges of a kind.                   *)
LEMMA KindTypes ==
  ASSUME NEW f, IsKind(f)
  PROVE  /\ f \in Seq(Kinds) /\ Len(f) \in 1 .. 3 /\ DOMAIN f = 1 .. Len(f)
         /\ \A k \in 1 .. Len(f) : f[k][2] \in 0 .. 32 /\ f[k][3] \in Nat /\ f[k][2] \in Nat
<1>1. f \in Seq(Kinds) /\ Len(f) \in 1 .. 3
  BY DEF IsKind, Kinds
<1>2. \A k \in 1 .. Len(f) : f[k] \in Kinds
  BY <1>1
<1>3. \A r \in Kinds : r[2] \in 0 .. 32 /\ r[3] \in Nat /\ r[2] \in Nat
  BY DEF Kinds
<1> QED
  BY <1>1, <1>2, <1>3

(* An operand read from a word is taken by the assembler and gives the     *)
(* same bits, a rotated immediate possibly others.                         *)
LEMMA OperandOfWord ==
  ASSUME NEW f, IsKind(f), f[1][1] # "Lo", NEW w \in Bits32, NEW v, v = DecodeOperand(f, w)
  PROVE  /\ EncodeOperand(f, v).ok
         /\ f[1][1] # "Rotated" => EncodeOperand(f, v).bits = w \cap FieldMask(f)
<1>1. /\ f \in Seq(Kinds) /\ Len(f) \in 1 .. 3 /\ DOMAIN f = 1 .. Len(f)
      /\ \A k \in 1 .. Len(f) : f[k][2] \in 0 .. 32 /\ f[k][3] \in Nat /\ f[k][2] \in Nat
  BY KindTypes
<1>2. w \subseteq Nat
  BY DEF Bits32, WordBits
<1>3. ASSUME NEW k \in 1 .. Len(f)
      PROVE  /\ Piece(w, f[k]) \subseteq 0 .. f[k][2] - 1 /\ Piece(w, f[k]) \subseteq Nat
             /\ ShiftLeft(Piece(w, f[k]), f[k][3]) = w \cap RangeMask(f[k])
  <2> DEFINE r == f[k]
             x == Piece(w, r)
  <2>1. r[2] \in Nat /\ r[3] \in Nat
    BY <1>1
  <2> HIDE DEF r
  <2>2. x \subseteq Nat /\ \A i \in Int : i \in x <=> i \in 0 .. r[2] - 1 /\ i + r[3] \in w
    BY <1>2, <2>1, Pieces
  <2>3. ShiftLeft(x, r[3]) = w \cap RangeMask(r)
    BY <1>2, <2>1, PutBack
  <2> HIDE DEF x
  <2>4. x \subseteq 0 .. r[2] - 1
    BY <2>2
  <2> QED
    BY <2>2, <2>3, <2>4 DEF x, r
<1> DEFINE modifier == f[1][1]
           width == f[1][2]
<1>4. CASE Len(f) = 1
  <2>0. modifier \notin {"U", "Lo", "W", "Hi", "P"}
    BY <1>4 DEF IsKind
  <2> DEFINE x == Piece(w, f[1])
             e == EncodeRange(modifier, v, width)
  <2>1. /\ FieldMask(f) = RangeMask(f[1])
        /\ v = DecodeSingle(modifier, x, width)
        /\ EncodeOperand(f, v).ok <=> e.ok
        /\ EncodeOperand(f, v).bits = ShiftLeft(e.x, f[1][3])
    BY <1>1, <1>4, <2>0, OneRange
  <2>2. x \subseteq 0 .. width - 1 /\ ShiftLeft(x, f[1][3]) = w \cap RangeMask(f[1]) /\ width \in 0 .. 32
    BY <1>1, <1>3, <1>4
  <2> HIDE DEF x
  <2>3. CASE Plain(modifier, width)
    <3> HIDE DEF modifier, width
    <3>2. width \in 0 .. 32 /\ x \subseteq 0 .. width - 1 /\ v = DecodeSingle(modifier, x, width)
      BY <2>1, <2>2
    <3>1. e.ok /\ e.x = x
      BY ONLY <2>3, <3>2, DecodedIsTaken
    <3> QED
      BY <2>1, <2>2, <3>1
  <2>4. CASE modifier = "Rotated" /\ width = 12
    <3>1. v = DecodeRotatedImm(x) /\ x \subseteq 0 .. 11
      BY <2>1, <2>2, <2>4 DEF DecodeSingle
    <3>2. Rotations(v) # {}
      BY <3>1, RotatedIsTaken
    <3>3. e.ok
      BY <2>4, <3>2 DEF EncodeRange
    <3> QED
      BY <2>1, <2>4, <3>3
  <2>5. CASE Empty(modifier, width)
    <3>1. e.ok /\ e.x = {}
      BY <2>5 DEF EncodeRange, Empty
    <3>2. x = {}
      BY <2>2, <2>5 DEF Empty
    <3> QED
      BY <2>1, <2>2, <3>1, <3>2
  <2>6. Plain(modifier, width) \/ (modifier = "Rotated" /\ width = 12) \/ Empty(modifier, width)
    BY <1>4 DEF IsKind, Plain, Empty
  <2> QED
    BY <2>3, <2>4, <2>5, <2>6
<1>5. CASE Len(f) = 2
  <2>0. f[1][1] = "Hi" /\ f[2][1] = "Lo"
    BY <1>5 DEF IsKind
  <2> DEFINE n == f[2][2]
             x == Piece(w, f[1])
             y == Piece(w, f[2])
  <2>1. /\ FieldMask(f) = RangeMask(f[1]) \cup RangeMask(f[2])
        /\ v = ShiftLeft(x, n) \cup y
        /\ EncodeOperand(f, v).ok <=> ShiftRight(v, n) \subseteq 0 .. width - 1
        /\ EncodeOperand(f, v).bits =
              ShiftLeft(Low(v, n), f[2][3]) \cup ShiftLeft(ShiftRight(v, n), f[1][3])
    <3>1. f \in Seq(Kinds) /\ Len(f) = 2 /\ n = f[2][2]
      BY <1>1, <1>5
    <3> HIDE DEF n
    <3>2. Twofold(f, w, v, n)
      BY ONLY <2>0, <3>1, HighAndLow
    <3> QED
      BY <3>2 DEF Twofold
  <2>2. /\ n \in Nat /\ x \subseteq Nat /\ y \subseteq 0 .. n - 1 /\ x \subseteq 0 .. width - 1
        /\ ShiftLeft(x, f[1][3]) = w \cap RangeMask(f[1])
        /\ ShiftLeft(y, f[2][3]) = w \cap RangeMask(f[2])
    BY <1>1, <1>3, <1>5
  <2> HIDE DEF x, y, n
  <2>3. Low(v, n) = y /\ ShiftRight(v, n) = x
    <3>1. n \in Nat /\ x \subseteq Nat /\ y \subseteq 0 .. n - 1 /\ v = ShiftLeft(x, n) \cup y
      BY <2>1, <2>2
    <3> QED
      BY ONLY <3>1, Joining
  <2> QED
    BY <2>1, <2>2, <2>3
<1>6. CASE Len(f) = 3
  <2>0. f[1][1] = "P" /\ f[2][1] = "U" /\ f[3][1] = "W"
    BY <1>6 DEF IsKind
  <2> DEFINE n == f[3][2]
             k == f[2][2]
             x == Piece(w, f[1])
             y == Piece(w, f[2])
             z == Piece(w, f[3])
             u == ShiftLeft(x, k) \cup y
             r == ShiftRight(v, n)
  <2>1. /\ FieldMask(f) = RangeMask(f[1]) \cup RangeMask(f[2]) \cup RangeMask(f[3])
        /\ v = ShiftLeft(u, n) \cup z
        /\ EncodeOperand(f, v).ok <=> ShiftRight(r, k) \subseteq 0 .. width - 1
        /\ EncodeOperand(f, v).bits =
              ShiftLeft(Low(v, n), f[3][3]) \cup ShiftLeft(Low(r, k), f[2][3])
              \cup ShiftLeft(ShiftRight(r, k), f[1][3])
    <3>1. f \in Seq(Kinds) /\ Len(f) = 3 /\ n = f[3][2] /\ k = f[2][2] /\ r = ShiftRight(v, n)
      BY <1>1, <1>6
    <3>2. u = ShiftLeft(Piece(w, f[1]), k) \cup Piece(w, f[2]) /\ z = Piece(w, f[3])
      OBVIOUS
    <3> HIDE DEF n, k, r, u, z
    <3>3. Threefold(f, w, v, n, k, r)
      BY ONLY <2>0, <3>1, ThreeRanges
    <3> QED
      BY <3>2, <3>3 DEF Threefold
  <2>2. /\ n \in Nat /\ k \in Nat /\ x \subseteq Nat /\ y \subseteq 0 .. k - 1 /\ z \subseteq 0 .. n - 1
        /\ x \subseteq 0 .. width - 1
        /\ ShiftLeft(x, f[1][3]) = w \cap RangeMask(f[1])
        /\ ShiftLeft(y, f[2][3]) = w \cap RangeMask(f[2])
        /\ ShiftLeft(z, f[3][3]) = w \cap RangeMask(f[3])
    <3>1. 1 \in 1 .. Len(f) /\ 2 \in 1 .. Len(f) /\ 3 \in 1 .. Len(f)
      BY <1>6
    <3> QED
      BY <1>1, <1>3, <3>1
  <2>3. u = ShiftLeft(x, k) \cup y
    OBVIOUS
  <2> HIDE DEF x, y, z, n, k, u
  <2>4. u \subseteq Nat /\ Low(u, k) = y /\ ShiftRight(u, k) = x
    <3>1. k \in Nat /\ x \subseteq Nat /\ y \subseteq 0 .. k - 1
      BY <2>2
    <3> QED
      BY ONLY <2>3, <3>1, Joining
  <2>5. Low(v, n) = z /\ ShiftRight(v, n) = u
    <3>1. n \in Nat /\ u \subseteq Nat /\ z \subseteq 0 .. n - 1 /\ v = ShiftLeft(u, n) \cup z
      BY <2>1, <2>2, <2>4
    <3> QED
      BY ONLY <3>1, Joining
  <2> QED
    BY <2>1, <2>2, <2>4, <2>5
<1> QED
  BY <1>1, <1>4, <1>5, <1>6

(* Bits in a range: they stay there, and a word that has them there has the *)
(* number.                                                                 *)
Holds(r, x) ==
  /\ ShiftLeft(x, r[3]) \subseteq RangeMask(r)
  /\ \A w \in Bits32 : w \cap RangeMask(r) = ShiftLeft(x, r[3]) => Piece(w, r) = x

LEMMA Holding ==
  ASSUME NEW r, r[2] \in Nat, r[3] \in Nat, NEW x, x \subseteq 0 .. r[2] - 1
  PROVE  Holds(r, x)
<1>1. ShiftLeft(x, r[3]) \subseteq RangeMask(r)
  BY StaysWithin
<1>2. ASSUME NEW w \in Bits32, w \cap RangeMask(r) = ShiftLeft(x, r[3])
      PROVE  Piece(w, r) = x
  <2>1. w \subseteq Nat
    BY DEF Bits32, WordBits
  <2> QED
    BY <1>2, <2>1, FoundAgain
<1> QED
  BY <1>1, <1>2 DEF Holds

(* What a word holds in one of the parts it is put together from.          *)
LEMMA InItsPart ==
  ASSUME NEW w, NEW one, NEW two, NEW x, NEW y, one \cap two = {}, x \subseteq one, y \subseteq two,
         w \cap (one \cup two) = x \cup y
  PROVE  w \cap one = x /\ w \cap two = y
OBVIOUS

(* An operand that is taken, and does not spill, stays within its ranges,  *)
(* and a word that holds it there gives it back.                           *)
LEMMA WordOfOperand ==
  ASSUME NEW f, IsKind(f), Apart(f), NEW v \in Bits32, EncodeOperand(f, v).ok,
         ~SpillsOver(f[1][1], f[1][2], v), NEW bits, bits = EncodeOperand(f, v).bits
  PROVE  /\ bits \subseteq FieldMask(f)
         /\ f[1][2] # 0 =>
              \A w \in Bits32 : w \cap FieldMask(f) = bits => DecodeOperand(f, w) = v
<1>1. /\ f \in Seq(Kinds) /\ Len(f) \in 1 .. 3 /\ DOMAIN f = 1 .. Len(f)
      /\ \A k \in 1 .. Len(f) : f[k][2] \in 0 .. 32 /\ f[k][3] \in Nat /\ f[k][2] \in Nat
  BY KindTypes
<1>2. v \subseteq Nat
  BY DEF Bits32, WordBits
<1>4. \A k, l \in 1 .. Len(f) : k # l => RangeMask(f[k]) \cap RangeMask(f[l]) = {}
  BY <1>1 DEF Apart
<1> DEFINE modifier == f[1][1]
           width == f[1][2]
<1>5. CASE Len(f) = 1
  <2>0. modifier \notin {"U", "Lo", "W", "Hi", "P"}
    BY <1>5 DEF IsKind
  <2> DEFINE e == EncodeRange(modifier, v, width)
             x == e.x
  <2>1. /\ FieldMask(f) = RangeMask(f[1])
        /\ \A w : DecodeOperand(f, w) = DecodeSingle(modifier, Piece(w, f[1]), width)
        /\ e.ok /\ bits = ShiftLeft(x, f[1][3])
    BY <1>1, <1>5, <2>0, OneRange
  <2>2. width \in 0 .. 32
    BY <1>1, <1>5
  <2>7. ASSUME x \subseteq 0 .. width - 1, width # 0 => DecodeSingle(modifier, x, width) = v
        PROVE  /\ bits \subseteq FieldMask(f)
               /\ width # 0 => \A w \in Bits32 : w \cap FieldMask(f) = bits => DecodeOperand(f, w) = v
    <3>1. /\ ShiftLeft(x, f[1][3]) \subseteq RangeMask(f[1])
          /\ \A w \in Bits32 : w \cap RangeMask(f[1]) = ShiftLeft(x, f[1][3]) => Piece(w, f[1]) = x
      <4> DEFINE r == f[1]
      <4>1. r[2] \in Nat /\ r[3] \in Nat /\ x \subseteq 0 .. r[2] - 1
        BY <1>1, <1>5, <2>7
      <4> HIDE DEF r, x
      <4>2. Holds(r, x)
        BY ONLY <4>1, Holding
      <4> QED
        BY <4>2 DEF Holds, r
    <3> HIDE DEF x, modifier, width
    <3> QED
      BY <2>1, <2>7, <3>1
  <2>3. CASE Plain(modifier, width)
    <3>1. ~SpillsOver(modifier, width, v)
      OBVIOUS
    <3>2. x \subseteq 0 .. width - 1 /\ (width # 0 => DecodeSingle(modifier, x, width) = v)
      <4>1. e.ok /\ x = e.x
        BY <2>1
      <4> HIDE DEF modifier, width, x
      <4> QED
        BY ONLY <2>2, <2>3, <3>1, <4>1, v \in Bits32, TakenIsDecoded
    <3> QED
      BY <2>7, <3>2
  <2>4. CASE modifier = "Rotated" /\ width = 12
    <3>1. Rotations(v) # {} /\ x = EncodeRotateImm(v)
      BY <2>1, <2>4 DEF EncodeRange
    <3> HIDE DEF x
    <3>2. x \subseteq 0 .. 11 /\ DecodeRotatedImm(x) = v
      BY <3>1, RotatedIsDecoded
    <3>3. DecodeSingle(modifier, x, width) = v
      BY <2>4, <3>2 DEF DecodeSingle
    <3>4. x \subseteq 0 .. width - 1
      BY <2>4, <3>2
    <3> QED
      BY <2>7, <3>3, <3>4
  <2>5. CASE Empty(modifier, width)
    <3>1. x = {} /\ width = 0
      BY <2>5 DEF EncodeRange, Empty
    <3> QED
      BY <2>7, <3>1
  <2>6. Plain(modifier, width) \/ (modifier = "Rotated" /\ width = 12) \/ Empty(modifier, width)
    BY <1>5 DEF IsKind, Plain, Empty
  <2> QED
    BY <2>3, <2>4, <2>5, <2>6
<1>6. CASE Len(f) = 2 /\ f[1][1] = "Hi"
  <2>0. f[1][1] = "Hi" /\ f[2][1] = "Lo"
    BY <1>6 DEF IsKind
  <2> DEFINE n == f[2][2]
             h == ShiftRight(v, n)
             l == Low(v, n)
             one == RangeMask(f[1])
             two == RangeMask(f[2])
             x == ShiftLeft(h, f[1][3])
             y == ShiftLeft(l, f[2][3])
  <2>1. /\ FieldMask(f) = one \cup two
        /\ \A w : DecodeOperand(f, w) = ShiftLeft(Piece(w, f[1]), n) \cup Piece(w, f[2])
        /\ h \subseteq 0 .. width - 1
        /\ bits = x \cup y
    <3>1. f \in Seq(Kinds) /\ Len(f) = 2 /\ n = f[2][2]
      BY <1>1, <1>6
    <3> HIDE DEF n, h, l
    <3>2. \A w : Twofold(f, w, v, n)
      BY ONLY <2>0, <3>1, HighAndLow
    <3> QED
      BY <3>2 DEF Twofold, h, l
  <2>2. n \in Nat /\ one \cap two = {}
    BY <1>1, <1>4, <1>6
  <2>3. l \subseteq 0 .. n - 1 /\ ShiftLeft(h, n) \cup l = v
    <3> HIDE DEF n
    <3> QED
      BY <1>2, <2>2, Splitting
  <2>4. x \subseteq one /\ \A w \in Bits32 : w \cap one = x => Piece(w, f[1]) = h
    <3> DEFINE r == f[1]
    <3>1. r[2] \in Nat /\ r[3] \in Nat /\ h \subseteq 0 .. r[2] - 1
      BY <1>1, <1>6, <2>1
    <3> HIDE DEF r, h
    <3>2. Holds(r, h)
      BY ONLY <3>1, Holding
    <3> QED
      BY <3>2 DEF Holds, r
  <2>5. y \subseteq two /\ \A w \in Bits32 : w \cap two = y => Piece(w, f[2]) = l
    <3> DEFINE r == f[2]
    <3>1. r[2] \in Nat /\ r[3] \in Nat /\ l \subseteq 0 .. r[2] - 1
      BY <1>1, <1>6, <2>3
    <3> HIDE DEF r, l
    <3>2. Holds(r, l)
      BY ONLY <3>1, Holding
    <3> QED
      BY <3>2 DEF Holds, r
  <2>6. ASSUME NEW w \in Bits32, w \cap FieldMask(f) = bits
        PROVE  DecodeOperand(f, w) = v
    <3> HIDE DEF one, two, x, y, h, l, n
    <3>1. w \cap one = x /\ w \cap two = y
      BY <2>1, <2>2, <2>4, <2>5, <2>6, InItsPart
    <3> QED
      BY <2>1, <2>3, <2>4, <2>5, <3>1
  <2>7. bits \subseteq FieldMask(f)
    <3> HIDE DEF one, two, x, y
    <3> QED
      BY <2>1, <2>4, <2>5
  <2> QED
    BY <2>6, <2>7
<1>7. CASE Len(f) = 2 /\ f[1][1] = "Lo"
  <2>0. f[1][1] = "Lo" /\ f[2][1] = "Hi" /\ f[2][2] = 1
    BY <1>7 DEF IsKind
  <2> DEFINE l == Low(v, width)
             one == RangeMask(f[1])
             two == RangeMask(f[2])
             x == ShiftLeft(l, f[1][3])
             y == ShiftLeft(v, f[2][3])
  <2>1. /\ FieldMask(f) = one \cup two
        /\ \A w : DecodeOperand(f, w) = Piece(w, f[1])
        /\ v \subseteq 0 .. f[2][2] - 1
        /\ bits = y \cup x
    BY <1>1, <1>7, <2>0, LowAndHigh
  <2>2. width \in Nat /\ one \cap two = {}
    BY <1>1, <1>4, <1>7
  <2>3. l \subseteq 0 .. width - 1 /\ (width # 0 => l = v)
    <3>1. v \subseteq {0} /\ l = {i \in v : i < width}
      BY <2>0, <2>1 DEF Low
    <3>3. width \in Nat
      BY <2>2
    <3> HIDE DEF l, width
    <3>2. \A i \in l : i = 0 /\ i \in 0 .. width - 1
      BY <3>1, <3>3
    <3>4. width # 0 => \A i \in v : i < width
      BY <3>1, <3>3
    <3> QED
      BY <3>1, <3>2, <3>4
  <2>4. x \subseteq one /\ \A w \in Bits32 : w \cap one = x => Piece(w, f[1]) = l
    <3> DEFINE r == f[1]
    <3>1. r[2] \in Nat /\ r[3] \in Nat /\ l \subseteq 0 .. r[2] - 1
      BY <1>1, <1>7, <2>3
    <3> HIDE DEF r, l
    <3>2. Holds(r, l)
      BY ONLY <3>1, Holding
    <3> QED
      BY <3>2 DEF Holds, r
  <2>5. y \subseteq two
    <3> DEFINE r == f[2]
    <3>1. r[2] \in Nat /\ r[3] \in Nat /\ v \subseteq 0 .. r[2] - 1
      BY <1>1, <1>7, <2>1
    <3> HIDE DEF r
    <3>2. Holds(r, v)
      BY ONLY <3>1, Holding
    <3> QED
      BY <3>2 DEF Holds, r
  <2>6. ASSUME NEW w \in Bits32, w \cap FieldMask(f) = bits, width # 0
        PROVE  DecodeOperand(f, w) = v
    <3> HIDE DEF one, two, x, y, l, width
    <3>1. w \cap one = x
      BY <2>1, <2>2, <2>4, <2>5, <2>6, InItsPart
    <3> QED
      BY <2>1, <2>3, <2>4, <2>6, <3>1
  <2>7. bits \subseteq FieldMask(f)
    <3> HIDE DEF one, two, x, y
    <3> QED
      BY <2>1, <2>4, <2>5
  <2> QED
    BY <2>6, <2>7
<1>8. CASE Len(f) = 3
  <2>0. f[1][1] = "P" /\ f[2][1] = "U" /\ f[3][1] = "W"
    BY <1>8 DEF IsKind
  <2> DEFINE n == f[3][2]
             k == f[2][2]
             r == ShiftRight(v, n)
             h == ShiftRight(r, k)
             m == Low(r, k)
             l == Low(v, n)
             one == RangeMask(f[1])
             two == RangeMask(f[2])
             three == RangeMask(f[3])
             x == ShiftLeft(h, f[1][3])
             y == ShiftLeft(m, f[2][3])
             z == ShiftLeft(l, f[3][3])
  <2>1. \A w : Threefold(f, w, v, n, k, r)
    <3>1. f \in Seq(Kinds) /\ Len(f) = 3 /\ n = f[3][2] /\ k = f[2][2] /\ r = ShiftRight(v, n)
      BY <1>1, <1>8
    <3> HIDE DEF n, k, r
    <3> QED
      BY ONLY <2>0, <3>1, ThreeRanges
  <2>2. /\ FieldMask(f) = one \cup two \cup three
        /\ \A w : DecodeOperand(f, w) =
                     ShiftLeft(ShiftLeft(Piece(w, f[1]), k) \cup Piece(w, f[2]), n) \cup Piece(w, f[3])
        /\ h \subseteq 0 .. width - 1
        /\ bits = x \cup y \cup z
    <3> HIDE DEF n, k, r
    <3> QED
      BY <2>1 DEF Threefold
  <2>3. n \in Nat /\ k \in Nat /\ one \cap two = {} /\ one \cap three = {} /\ two \cap three = {}
    BY <1>1, <1>4, <1>8
  <2>4. l \subseteq 0 .. n - 1 /\ r \subseteq Nat /\ ShiftLeft(r, n) \cup l = v
    <3> HIDE DEF n
    <3> QED
      BY <1>2, <2>3, Splitting
  <2>5. m \subseteq 0 .. k - 1 /\ ShiftLeft(h, k) \cup m = r
    <3> HIDE DEF k, r
    <3> QED
      BY <2>3, <2>4, Splitting
  <2>6. x \subseteq one /\ \A w \in Bits32 : w \cap one = x => Piece(w, f[1]) = h
    <3> DEFINE part == f[1]
    <3>1. part[2] \in Nat /\ part[3] \in Nat /\ h \subseteq 0 .. part[2] - 1
      BY <1>1, <1>8, <2>2
    <3> HIDE DEF part, h
    <3>2. Holds(part, h)
      BY ONLY <3>1, Holding
    <3> QED
      BY <3>2 DEF Holds, part
  <2>7. y \subseteq two /\ \A w \in Bits32 : w \cap two = y => Piece(w, f[2]) = m
    <3> DEFINE part == f[2]
    <3>1. part[2] \in Nat /\ part[3] \in Nat /\ m \subseteq 0 .. part[2] - 1
      BY <1>1, <1>8, <2>5
    <3> HIDE DEF part, m
    <3>2. Holds(part, m)
      BY ONLY <3>1, Holding
    <3> QED
      BY <3>2 DEF Holds, part
  <2>8. z \subseteq three /\ \A w \in Bits32 : w \cap three = z => Piece(w, f[3]) = l
    <3> DEFINE part == f[3]
    <3>1. part[2] \in Nat /\ part[3] \in Nat /\ l \subseteq 0 .. part[2] - 1
      BY <1>1, <1>8, <2>4
    <3> HIDE DEF part, l
    <3>2. Holds(part, l)
      BY ONLY <3>1, Holding
    <3> QED
      BY <3>2 DEF Holds, part
  <2>9. ASSUME NEW w \in Bits32, w \cap FieldMask(f) = bits
        PROVE  DecodeOperand(f, w) = v
    <3> HIDE DEF one, two, three, x, y, z, h, m, l, r, n, k
    <3>1. w \cap (one \cup two \cup three) = x \cup y \cup z
      BY <2>2, <2>9
    <3>2. w \cap one = x /\ w \cap two = y /\ w \cap three = z
      BY <2>3, <2>6, <2>7, <2>8, <3>1
    <3>3. Piece(w, f[1]) = h /\ Piece(w, f[2]) = m /\ Piece(w, f[3]) = l
      BY <2>6, <2>7, <2>8, <3>2
    <3> QED
      BY <2>2, <2>4, <2>5, <3>3
  <2>10. bits \subseteq FieldMask(f)
    <3> HIDE DEF one, two, three, x, y, z
    <3> QED
      BY <2>2, <2>6, <2>7, <2>8
  <2> QED
    BY <2>9, <2>10
<1>9. Len(f) = 1 \/ (Len(f) = 2 /\ f[1][1] = "Hi") \/ (Len(f) = 2 /\ f[1][1] = "Lo") \/ Len(f) = 3
  BY DEF IsKind
<1> QED
  BY <1>5, <1>6, <1>7, <1>8, <1>9

----------------------------------------------------------------------------
(* Opcodes.                                                                *)

(* What TablesAssumption says of each opcode.                              *)
Sound(opc) == opc \in Opcodes /\ WellFormed(opc) /\ \A k \in DOMAIN opc.fields : IsKind(opc.fields[k])

(* The pattern and the operands share out the bits of the word.            *)
Parted(opc) ==
  /\ \A k \in DOMAIN opc.fields : Apart(opc.fields[k]) /\ FieldMask(opc.fields[k]) \subseteq WordBits
  /\ \A k, l \in DOMAIN opc.fields : k # l => FieldMask(opc.fields[k]) \cap FieldMask(opc.fields[l]) = {}
  /\ \A k \in DOMAIN opc.fields : FieldMask(opc.fields[k]) \cap opc.mask = {}
  /\ \A i \in WordBits : i \in opc.mask \/ \E k \in DOMAIN opc.fields : i \in FieldMask(opc.fields[k])
  /\ opc.value \subseteq opc.mask /\ opc.mask \subseteq WordBits

LEMMA OpcodeParts ==
  ASSUME NEW opc, Sound(opc)
  PROVE  Parted(opc)
<1> DEFINE fs == opc.fields
           Part(p) == RangeMask(fs[p[1]][p[2]])
           places == UNION {{i} \X DOMAIN fs[i] : i \in DOMAIN fs}
<1>1. /\ \A p, q \in places : p # q => Part(p) \cap Part(q) = {}
      /\ \A p \in places : Part(p) \cap opc.mask = {}
      /\ opc.mask \cup UNION {Part(p) : p \in places} = WordBits
      /\ opc.value \subseteq opc.mask
  BY DEF Sound, WellFormed
<1>2. \A k \in DOMAIN fs : \A i \in DOMAIN fs[k] :
         <<k, i>> \in places /\ Part(<<k, i>>) = RangeMask(fs[k][i])
  OBVIOUS
<1>3. \A p \in places : p[1] \in DOMAIN fs /\ p[2] \in DOMAIN fs[p[1]]
  OBVIOUS
<1> HIDE DEF places
<1>4. \A k \in DOMAIN fs : \A i : i \in FieldMask(fs[k]) <=> \E r \in DOMAIN fs[k] : i \in Part(<<k, r>>)
  BY <1>2 DEF FieldMask
<1>5. ASSUME NEW k \in DOMAIN fs
      PROVE  Apart(fs[k])
  <2>1. ASSUME NEW i \in DOMAIN fs[k], NEW j \in DOMAIN fs[k], i # j
        PROVE  RangeMask(fs[k][i]) \cap RangeMask(fs[k][j]) = {}
    <3>1. <<k, i>> \in places /\ <<k, j>> \in places /\ <<k, i>> # <<k, j>>
      BY <1>2, <2>1
    <3>2. Part(<<k, i>>) \cap Part(<<k, j>>) = {}
      BY <1>1, <3>1
    <3> QED
      BY <1>2, <3>2
  <2>2. ASSUME NEW i \in DOMAIN fs[k]
        PROVE  RangeMask(fs[k][i]) \subseteq WordBits
    <3>1. <<k, i>> \in places /\ Part(<<k, i>>) = RangeMask(fs[k][i])
      BY <1>2
    <3> HIDE DEF Part
    <3> QED
      BY <1>1, <3>1
  <2> QED
    BY <2>1, <2>2 DEF Apart
<1>6. ASSUME NEW k \in DOMAIN fs
      PROVE  FieldMask(fs[k]) \subseteq WordBits /\ FieldMask(fs[k]) \cap opc.mask = {}
  <2> SUFFICES ASSUME NEW i \in FieldMask(fs[k])
               PROVE  i \in WordBits /\ i \notin opc.mask
    OBVIOUS
  <2>1. PICK r \in DOMAIN fs[k] : i \in Part(<<k, r>>)
    BY <1>4
  <2>2. <<k, r>> \in places
    BY <1>2
  <2> HIDE DEF Part
  <2> QED
    BY <1>1, <2>1, <2>2
<1>7. ASSUME NEW k \in DOMAIN fs, NEW l \in DOMAIN fs, k # l, NEW i \in FieldMask(fs[k]), i \in FieldMask(fs[l])
      PROVE  FALSE
  <2>1. PICK r \in DOMAIN fs[k] : i \in Part(<<k, r>>)
    BY <1>4
  <2>2. PICK s \in DOMAIN fs[l] : i \in Part(<<l, s>>)
    BY <1>4, <1>7
  <2>3. <<k, r>> \in places /\ <<l, s>> \in places /\ <<k, r>> # <<l, s>>
    BY <1>2, <1>7
  <2> HIDE DEF Part
  <2>4. Part(<<k, r>>) \cap Part(<<l, s>>) = {}
    BY <1>1, <2>3
  <2> QED
    BY <2>1, <2>2, <2>4
<1>8. ASSUME NEW i \in WordBits, i \notin opc.mask
      PROVE  \E k \in DOMAIN fs : i \in FieldMask(fs[k])
  <2>1. PICK p \in places : i \in Part(p)
    BY <1>1, <1>8
  <2>2. p[1] \in DOMAIN fs /\ p[2] \in DOMAIN fs[p[1]] /\ i \in RangeMask(fs[p[1]][p[2]])
    BY <1>3, <2>1
  <2> QED
    BY <2>2 DEF FieldMask
<1>9. opc.mask \subseteq WordBits
  BY <1>1
<1>10. \A k, l \in DOMAIN fs : k # l => FieldMask(fs[k]) \cap FieldMask(fs[l]) = {}
  BY <1>7
<1> QED
  BY <1>1, <1>5, <1>6, <1>8, <1>9, <1>10 DEF Parted

(* A word of an opcode, taken apart and put together again.                *)
LEMMA WordReturns ==
  ASSUME NEW opc, Sound(opc), NEW w \in Bits32, Matches(opc, w),
         \A k \in DOMAIN opc.fields : opc.fields[k][1][1] # "Lo",
         NEW ops, ops = DisassembleOperands(opc, w)
  PROVE  /\ CanAssemble(opc, ops)
         /\ (\A k \in DOMAIN opc.fields : opc.fields[k][1][1] = "Rotated" =>
                EncodeOperand(opc.fields[k], ops[k]).bits = w \cap FieldMask(opc.fields[k]))
            => AssembleOperands(opc, ops) = w
<1> DEFINE fs == opc.fields
           F(k) == FieldMask(fs[k])
           E(k) == EncodeOperand(fs[k], ops[k])
<1>1. Parted(opc)
  BY OpcodeParts
<1>2. fs \in Seq(Seq(STRING \X (0 .. 32) \X (0 .. 31)))
  BY DEF Sound, Opcodes
<1>3. DOMAIN ops = DOMAIN fs /\ Len(ops) = Len(fs) /\ \A k \in DOMAIN fs : ops[k] = DecodeOperand(fs[k], w)
  BY <1>2 DEF DisassembleOperands
<1>4. ASSUME NEW k \in DOMAIN fs
      PROVE  E(k).ok /\ (fs[k][1][1] # "Rotated" => E(k).bits = w \cap F(k))
  <2> DEFINE f == fs[k]
             v == ops[k]
  <2>1. IsKind(f) /\ f[1][1] # "Lo" /\ v = DecodeOperand(f, w)
    BY <1>3, <1>4 DEF Sound
  <2> HIDE DEF f, v
  <2>2. EncodeOperand(f, v).ok /\ (f[1][1] # "Rotated" => EncodeOperand(f, v).bits = w \cap FieldMask(f))
    BY <2>1, OperandOfWord
  <2> QED
    BY <2>2 DEF f, v
<1>5. CanAssemble(opc, ops)
  BY <1>3, <1>4 DEF CanAssemble
<1>6. ASSUME \A k \in DOMAIN fs : fs[k][1][1] = "Rotated" => E(k).bits = w \cap F(k)
      PROVE  AssembleOperands(opc, ops) = w
  <2>1. \A k \in DOMAIN fs : E(k).bits = w \cap F(k)
    BY <1>4, <1>6
  <2>2. AssembleOperands(opc, ops) = opc.value \cup UNION {E(k).bits : k \in DOMAIN fs}
    BY <1>3 DEF AssembleOperands
  <2>3. opc.value = w \cap opc.mask
    BY DEF Matches
  <2>4. \A i \in w : i \in opc.mask \/ \E k \in DOMAIN fs : i \in F(k)
    BY <1>1 DEF Parted, Bits32
  <2> HIDE DEF E, F
  <2> QED
    BY <2>1, <2>2, <2>3, <2>4
<1> QED
  BY <1>5, <1>6

(* Operands that are accepted and do not spill, put together and taken     *)
(* apart again.                                                            *)
LEMMA OperandsReturn ==
  ASSUME NEW opc, Sound(opc), NEW ops \in Seq(Bits32), CanAssemble(opc, ops),
         \A k \in DOMAIN ops : ~SpillsOver(opc.fields[k][1][1], opc.fields[k][1][2], ops[k]),
         NEW w, w = AssembleOperands(opc, ops)
  PROVE  /\ w \in Bits32 /\ Matches(opc, w) /\ DOMAIN ops = DOMAIN opc.fields
         /\ \A k \in DOMAIN opc.fields : opc.fields[k][1][2] # 0 => DecodeOperand(opc.fields[k], w) = ops[k]
<1> DEFINE fs == opc.fields
           F(k) == FieldMask(fs[k])
           b(k) == EncodeOperand(fs[k], ops[k]).bits
<1>1. Parted(opc)
  BY OpcodeParts
<1>2. fs \in Seq(Seq(STRING \X (0 .. 32) \X (0 .. 31)))
  BY DEF Sound, Opcodes
<1>3. DOMAIN ops = DOMAIN fs
  BY <1>2 DEF CanAssemble
<1>4. ASSUME NEW k \in DOMAIN fs
      PROVE  /\ b(k) \subseteq F(k)
             /\ fs[k][1][2] # 0 => \A x \in Bits32 : x \cap F(k) = b(k) => DecodeOperand(fs[k], x) = ops[k]
  <2> DEFINE f == fs[k]
             v == ops[k]
             bits == b(k)
  <2>1. IsKind(f) /\ Apart(f) /\ v \in Bits32 /\ EncodeOperand(f, v).ok
        /\ ~SpillsOver(f[1][1], f[1][2], v) /\ bits = EncodeOperand(f, v).bits
    BY <1>1, <1>3, <1>4 DEF Sound, Parted, CanAssemble
  <2> HIDE DEF f, v, bits
  <2>2. /\ bits \subseteq FieldMask(f)
        /\ f[1][2] # 0 => \A x \in Bits32 : x \cap FieldMask(f) = bits => DecodeOperand(f, x) = v
    BY ONLY <2>1, WordOfOperand
  <2> QED
    BY <2>2 DEF f, v, bits
<1>5. w = opc.value \cup UNION {b(k) : k \in DOMAIN fs}
  BY <1>3 DEF AssembleOperands
<1>6. /\ \A k \in DOMAIN fs : F(k) \subseteq WordBits /\ F(k) \cap opc.mask = {}
      /\ \A k, l \in DOMAIN fs : k # l => F(k) \cap F(l) = {}
      /\ opc.value \subseteq opc.mask /\ opc.mask \subseteq WordBits
  BY <1>1 DEF Parted
<1>7. \A k \in DOMAIN fs : b(k) \subseteq F(k)
  BY <1>4
<1> HIDE DEF b, F
<1>8. w \in Bits32
  BY <1>5, <1>6, <1>7 DEF Bits32
<1>9. w \cap opc.mask = opc.value
  BY <1>5, <1>6, <1>7
<1>10. ASSUME NEW k \in DOMAIN fs
       PROVE  w \cap F(k) = b(k)
  <2>1. \A l \in DOMAIN fs : l # k => b(l) \cap F(k) = {}
    BY <1>6, <1>7
  <2> QED
    BY <1>5, <1>6, <1>7, <2>1
<1> QED
  BY <1>3, <1>4, <1>8, <1>9, <1>10 DEF Matches

----------------------------------------------------------------------------
(* FindOpcode is the first opcode of the table that the word matches.      *)

LEMMA FirstOne ==
  ASSUME NEW I, I \subseteq Nat, I # {}
  PROVE  Min(I) \in I /\ \A m \in I : Min(I) <= m
<1>1. \E x \in I : \A y \in I : x <= y
  BY Least
<1> QED
  BY <1>1 DEF Min

Found(i, w, n) ==
  \/ n = 0 /\ \A m \in DOMAIN Table(i) : ~Matches(Table(i)[m], w)
  \/ /\ n \in DOMAIN Table(i) /\ Matches(Table(i)[n], w)
     /\ \A m \in DOMAIN Table(i) : Matches(Table(i)[m], w) => n <= m

LEMMA Finding ==
  ASSUME NEW i \in ISAs, NEW w, NEW n, n = FindOpcode(i, w)
  PROVE  Found(i, w, n)
<1> DEFINE T == Table(i)
           M(m) == Matches(T[m], w)
           I == {m \in 1 .. Len(T) : M(m)}
<1>1. T \in Seq(Opcodes) /\ i \in {"A32", "A64"}
  BY TablesAssumption
<1>2. n = IF I # {} THEN Min(I) ELSE 0
  <2>1. CASE i = "A32"
    BY <2>1 DEF FindOpcode, Table, A32FindOpcode, SelectInSeq
  <2>2. CASE i = "A64"
    <3> DEFINE R(m) == A64!Registered(T[m], w \cap A64!Top) /\ A64!Matches(T[m], w)
               J == {m \in 1 .. Len(T) : R(m)}
    <3>0. T = A64!A64Table
      BY <2>2 DEF Table
    <3>1. n = IF J # {} THEN A64!Min(J) ELSE 0
      BY <2>2, <3>0 DEF FindOpcode, A64!A64FindOpcode, A64!SelectInSeq
    <3>2. ASSUME NEW m \in 1 .. Len(T)
          PROVE  R(m) <=> M(m)
      <4> DEFINE opc == T[m]
                 top == w \cap A64!Top
      <4>1. A64!Matches(opc, w) <=> w \cap opc.mask = opc.value
        BY DEF A64!Matches
      <4>2. M(m) <=> w \cap opc.mask = opc.value
        BY DEF Matches
      <4>3. ASSUME w \cap opc.mask = opc.value
            PROVE  A64!Registered(opc, top)
        <5> DEFINE free == top \ opc.mask
        <5> HIDE DEF opc
        <5>1. free \in SUBSET (A64!Top \ opc.mask) /\ top = (opc.value \cap A64!Top) \cup free
          BY <4>3
        <5> QED
          BY <5>1 DEF A64!Registered
      <4> QED
        BY <4>1, <4>2, <4>3
    <3>3. I = J
      BY <3>2
    <3>4. A64!Min(J) = Min(J)
      BY DEF A64!Min, Min
    <3> QED
      BY <3>1, <3>3, <3>4
  <2> QED
    BY <1>1, <2>1, <2>2
<1> HIDE DEF T, M
<1>3. Len(T) \in Nat /\ DOMAIN T = 1 .. Len(T)
  BY <1>1
<1>4. CASE I = {}
  <2>1. n = 0 /\ \A m \in 1 .. Len(T) : ~M(m)
    BY <1>2, <1>4
  <2> QED
    BY <1>3, <2>1 DEF Found, T, M
<1>5. CASE I # {}
  <2>1. I \subseteq Nat
    BY <1>3
  <2>2. n \in I /\ \A m \in I : n <= m
    <3> HIDE DEF I
    <3> QED
      BY <1>2, <1>5, <2>1, FirstOne
  <2>3. n \in 1 .. Len(T) /\ M(n) /\ \A m \in 1 .. Len(T) : M(m) => n <= m
    BY <2>2
  <2> QED
    BY <1>3, <2>3 DEF Found, T, M
<1> QED
  BY <1>4, <1>5

(* The opcodes that give the word another opcode found before them.        *)
LEMMA LessSpecific ==
  ASSUME NEW i \in ISAs, NEW w, NEW m \in DOMAIN Table(i), NEW n \in DOMAIN Table(i), m < n,
         Matches(Table(i)[m], w), Matches(Table(i)[n], w)
  PROVE  /\ i = "A32" /\ TakenBy(Table(i)[n], Table(i)[m])
         /\ Cardinality(Table(i)[n].mask) < Cardinality(Table(i)[m].mask)
<1> DEFINE first == Table(i)[m]
           second == Table(i)[n]
<1>1. first.value \cap second.mask = second.value \cap first.mask
  BY DEF Matches
<1> QED
  BY <1>1, SeparabilityAssumption

----------------------------------------------------------------------------
(* The states.                                                             *)

(* Of a word: the opcode found and its operands, and the word they are put *)
(* together to.                                                            *)
WordState ==
  /\ start.word \in Bits32 /\ phase \in {"word", "ins", "done", "refused"}
  /\ phase = "word" => word = start.word
  /\ phase # "word" => /\ ins = FindOpcode(isa, start.word)
                       /\ ins # 0 => operands = DisassembleOperands(Table(isa)[ins], start.word)
                       /\ ins = 0 => phase = "done"
  /\ phase = "ins" => word = start.word
  /\ phase = "done" /\ ins # 0 => /\ CanAssemble(Table(isa)[ins], operands)
                                  /\ word = AssembleOperands(Table(isa)[ins], operands)
  /\ phase = "refused" => ~CanAssemble(Table(isa)[ins], operands)

(* Of operands: the word they are put together to, and what is found there. *)
OperandsState ==
  /\ start.ins \in DOMAIN Table(isa) /\ start.operands \in Seq(Bits32)
  /\ phase \in {"word", "ins", "done", "refused"}
  /\ phase = "ins" => ins = start.ins /\ operands = start.operands
  /\ phase \in {"word", "done"} => /\ CanAssemble(Table(isa)[start.ins], start.operands)
                                   /\ word = AssembleOperands(Table(isa)[start.ins], start.operands)
  /\ phase = "done" => /\ ins = FindOpcode(isa, word)
                       /\ ins # 0 => operands = DisassembleOperands(Table(isa)[ins], word)

IInv ==
  /\ isa \in ISAs
  /\ GivenWord => WordState
  /\ ~GivenWord => OperandsState

LEMMA Invariance == Spec => []IInv
<1>1. ASSUME Init
      PROVE  IInv
  <2>0. isa \in ISAs
    BY <1>1 DEF Init
  <2>1. PICK n \in DOMAIN Table(isa) :
          \/ \E w \in Words(Table(isa)[n]) :
                /\ start = [word |-> w, ins |-> 0, operands |-> <<>>]
                /\ phase = "word" /\ word = w /\ ins = 0 /\ operands = <<>>
          \/ \E ops \in OperandLists(Table(isa)[n]) :
                /\ start = [word |-> {}, ins |-> n, operands |-> ops]
                /\ phase = "ins" /\ word = {} /\ ins = n /\ operands = ops
    BY <1>1 DEF Init
  <2>2. Words(Table(isa)[n]) \subseteq Bits32 /\ OperandLists(Table(isa)[n]) \subseteq Seq(Bits32)
    BY <2>0, InputAssumption DEF Bits32
  <2>3. n # 0
    BY <2>0, TablesAssumption
  <2>4. CASE start.ins = 0
    BY <2>0, <2>1, <2>2, <2>3, <2>4 DEF IInv, GivenWord, WordState
  <2>5. CASE start.ins # 0
    BY <2>0, <2>1, <2>2, <2>3, <2>5 DEF IInv, GivenWord, OperandsState
  <2> QED
    BY <2>4, <2>5
<1>2. ASSUME IInv, [Next]_vars
      PROVE  IInv'
  <2>1. CASE Disassemble
    <3>1. start' = start /\ isa' = isa /\ word' = word /\ phase = "word"
      BY <2>1 DEF Disassemble
    <3>2. CASE GivenWord
      BY <1>2, <2>1, <3>1, <3>2 DEF Disassemble, IInv, GivenWord, WordState
    <3>3. CASE ~GivenWord
      BY <1>2, <2>1, <3>1, <3>3 DEF Disassemble, IInv, GivenWord, OperandsState
    <3> QED
      BY <3>2, <3>3
  <2>2. CASE Assemble
    <3>1. start' = start /\ isa' = isa /\ ins' = ins /\ operands' = operands /\ phase = "ins"
      BY <2>2 DEF Assemble
    <3>2. CASE GivenWord
      <4>1. ins # 0
        BY <1>2, <3>1, <3>2 DEF IInv, WordState
      <4> QED
        BY <1>2, <2>2, <3>1, <3>2, <4>1 DEF Assemble, IInv, GivenWord, WordState, TheOpcode
    <3>3. CASE ~GivenWord
      BY <1>2, <2>2, <3>1, <3>3 DEF Assemble, IInv, GivenWord, OperandsState, TheOpcode
    <3> QED
      BY <3>2, <3>3
  <2>3. CASE UNCHANGED vars
    BY <1>2, <2>3 DEF vars, IInv, GivenWord, WordState, OperandsState
  <2> QED
    BY <1>2, <2>1, <2>2, <2>3 DEF Next
<1> QED
  BY <1>1, <1>2, PTL DEF Spec

----------------------------------------------------------------------------
(* The properties of the run.                                              *)

(* Every word of an opcode comes back from DisassembleOperands and         *)
(* AssembleOperands as it was: the assertion data == data2 that            *)
(* opcode_test.py makes of the words of its listings, of every word, but   *)
(* for a rotated immediate in another form and tbz's bit number.           *)
THEOREM WordsSurvive == Spec => []WordSurvives
<1>1. ASSUME IInv, GivenWord, ins # 0, phase \in {"done", "refused"}, ~SplitLowFirst
      PROVE  phase = "done" /\ (word = start.word \/ OtherRotation)
  <2> DEFINE opc == Table(isa)[ins]
             w == start.word
             fs == opc.fields
  <2>1. WordState /\ isa \in ISAs
    BY <1>1 DEF IInv
  <2>2. /\ w \in Bits32 /\ ins = FindOpcode(isa, w) /\ operands = DisassembleOperands(opc, w)
        /\ phase = "done" => word = AssembleOperands(opc, operands)
        /\ phase = "refused" => ~CanAssemble(opc, operands)
    BY <1>1, <2>1 DEF WordState
  <2>3. ins \in DOMAIN Table(isa) /\ Matches(opc, w)
    <3>1. Found(isa, w, ins)
      BY <2>1, <2>2, Finding
    <3> QED
      BY <1>1, <3>1 DEF Found
  <2>4. Sound(opc)
    BY <2>1, <2>3, TablesAssumption DEF Sound
  <2>5. \A k \in DOMAIN fs : fs[k][1][1] # "Lo"
    BY <1>1 DEF SplitLowFirst, TheOpcode
  <2>6. TheOpcode = opc
    BY DEF TheOpcode
  <2> HIDE DEF opc, w
  <2>7. /\ CanAssemble(opc, operands)
        /\ (\A k \in DOMAIN fs : fs[k][1][1] = "Rotated" =>
                EncodeOperand(fs[k], operands[k]).bits = w \cap FieldMask(fs[k]))
            => AssembleOperands(opc, operands) = w
    BY <2>2, <2>3, <2>4, <2>5, WordReturns
  <2>8. ASSUME ~OtherRotation
        PROVE  AssembleOperands(opc, operands) = w
    <3>1. ASSUME NEW k \in DOMAIN fs, fs[k][1][1] = "Rotated"
          PROVE  EncodeOperand(fs[k], operands[k]).bits = w \cap FieldMask(fs[k])
      <4>1. IsKind(fs[k])
        BY <2>4 DEF Sound
      <4>2. 1 \in DOMAIN fs[k]
        BY <4>1, KindTypes
      <4>3. k \in Uses("Rotated")
        BY <2>6, <3>1, <4>2 DEF Uses, Range
      <4> QED
        BY <2>6, <2>8, <4>3 DEF OtherRotation, w
    <3> QED
      BY <2>7, <3>1
  <2> QED
    BY <1>1, <2>2, <2>7, <2>8 DEF w
<1>2. IInv => WordSurvives
  BY <1>1 DEF WordSurvives
<1> QED
  BY <1>2, Invariance, PTL

(* Every list of operands that AssembleOperands accepts, and that does not *)
(* spill, is read back from the word by the same opcode, or by one that    *)
(* _CheckDiscriminantSeparability knows to be written before it.           *)
THEOREM OperandsAreReadBack == Spec => []OperandsSurvive
<1>1. ASSUME IInv, ~GivenWord, phase = "done", \A i \in DOMAIN start.operands : ~Spilled(i)
      PROVE  \/ /\ ins = start.ins
                /\ \A i \in DOMAIN operands : operands[i] = start.operands[i] \/ Implied(i)
             \/ ins # 0 /\ isa = "A32" /\ TakenBy(Given, TheOpcode)
  <2> DEFINE opc == Table(isa)[start.ins]
             ops == start.operands
             fs == opc.fields
  <2>1. OperandsState /\ isa \in ISAs
    BY <1>1 DEF IInv
  <2>2. /\ start.ins \in DOMAIN Table(isa) /\ ops \in Seq(Bits32) /\ CanAssemble(opc, ops)
        /\ word = AssembleOperands(opc, ops) /\ ins = FindOpcode(isa, word)
        /\ ins # 0 => operands = DisassembleOperands(Table(isa)[ins], word)
    BY <1>1, <2>1 DEF OperandsState
  <2>3. Sound(opc)
    BY <2>1, <2>2, TablesAssumption DEF Sound
  <2>4. Given = opc
    BY DEF Given
  <2>5. \A k \in DOMAIN ops : ~SpillsOver(fs[k][1][1], fs[k][1][2], ops[k])
    BY <1>1, <2>4 DEF Spilled, SpillsOver
  <2>6. /\ word \in Bits32 /\ Matches(opc, word) /\ DOMAIN ops = DOMAIN fs
        /\ \A k \in DOMAIN fs : fs[k][1][2] # 0 => DecodeOperand(fs[k], word) = ops[k]
    <3> HIDE DEF opc, ops
    <3> QED
      BY <2>2, <2>3, <2>5, OperandsReturn
  <2>7. /\ ins \in DOMAIN Table(isa) /\ Matches(Table(isa)[ins], word) /\ ins <= start.ins /\ ins # 0
    <3>1. Found(isa, word, ins)
      BY <2>1, <2>2, Finding
    <3>2. DOMAIN Table(isa) \subseteq Nat \ {0}
      BY <2>1, TablesAssumption
    <3> QED
      BY <2>2, <2>6, <3>1, <3>2 DEF Found
  <2>8. CASE ins = start.ins
    <3>1. operands = [k \in DOMAIN fs |-> DecodeOperand(fs[k], word)]
      BY <2>2, <2>7, <2>8 DEF DisassembleOperands
    <3>2. \A k \in DOMAIN operands : operands[k] = ops[k] \/ fs[k][1][2] = 0
      BY <2>6, <3>1
    <3> QED
      BY <2>4, <2>8, <3>2 DEF Implied
  <2>9. CASE ins # start.ins
    <3>1. start.ins \in Nat /\ ins \in Nat
      BY <2>1, <2>2, <2>7, TablesAssumption
    <3>2. ins < start.ins
      BY <2>7, <2>9, <3>1
    <3>3. isa = "A32" /\ TakenBy(opc, Table(isa)[ins])
      BY <2>1, <2>2, <2>6, <2>7, <3>2, LessSpecific
    <3> QED
      BY <2>4, <2>7, <3>3 DEF TheOpcode
  <2> QED
    BY <2>8, <2>9
<1>2. IInv => OperandsSurvive
  BY <1>1 DEF OperandsSurvive
<1> QED
  BY <1>2, Invariance, PTL

(* Of all opcodes that a word matches, FindOpcode gives the one that fixes *)
(* most bits, whatever the word.                                           *)
THEOREM MostSpecificIsFound == Spec => []MostSpecificFound
<1>1. ASSUME IInv, phase # "word", GivenWord, NEW n \in DOMAIN Table(isa), Matches(Table(isa)[n], start.word)
      PROVE  ins # 0 /\ (n = ins \/ Cardinality(Table(isa)[n].mask) < Cardinality(TheOpcode.mask))
  <2>1. WordState /\ isa \in ISAs
    BY <1>1 DEF IInv
  <2>2. ins = FindOpcode(isa, start.word)
    BY <1>1, <2>1 DEF WordState
  <2>3. Found(isa, start.word, ins)
    BY <2>1, <2>2, Finding
  <2>4. ins \in DOMAIN Table(isa) /\ Matches(Table(isa)[ins], start.word) /\ ins <= n
    BY <1>1, <2>3 DEF Found
  <2>5. n \in Nat /\ ins \in Nat /\ ins # 0
    BY <2>1, <2>4, TablesAssumption
  <2>6. CASE ins < n
    BY <1>1, <2>1, <2>4, <2>5, <2>6, LessSpecific DEF TheOpcode
  <2> QED
    BY <2>4, <2>5, <2>6
<1>2. IInv => MostSpecificFound
  BY <1>1 DEF MostSpecificFound
<1> QED
  BY <1>2, Invariance, PTL
=============================================================================
