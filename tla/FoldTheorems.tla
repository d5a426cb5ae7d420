---------------------------- MODULE FoldTheorems ----------------------------
(***************************************************************************)
(* Facts about loops over a sequence, as FoldForward of SeqFolds writes    *)
(* them.  An induction theorem that takes a predicate cannot be used with  *)
(* the provers at hand, so induction is over a set of numbers, and a loop  *)
(* is given by its states: a function of the rounds done.                  *)
(***************************************************************************)
EXTENDS SeqFolds, FiniteSetTheorems, WellFoundedInduction, TLAPS

(* Every set of natural numbers but the empty one has a least element: the *)
(* first round of a loop at which something is so.                         *)
LEMMA Least ==
  ASSUME NEW T, T \subseteq Nat, T # {}
  PROVE  \E x \in T : \A y \in T : x <= y
<1>1. PICK x \in T : \A y \in T : ~(<<y, x>> \in OpToRel(<, Nat))
  BY NatLessThanWellFounded, WFMin
<1>2. ASSUME NEW y \in T
      PROVE  x <= y
  <2>1. x \in Nat /\ y \in Nat
    OBVIOUS
  <2>2. <<y, x>> \notin OpToRel(<, Nat)
    BY <1>1
  <2>3. ~(y < x)
    BY <2>1, <2>2 DEF OpToRel
  <2> QED
    BY <2>1, <2>3
<1> QED
  BY <1>2

(* Induction over the rounds of a loop: a set that holds 0 and, with each  *)
(* number, the next one holds all of them.                                 *)
LEMMA Induction ==
  ASSUME NEW S, 0 \in S, \A n \in Nat : n \in S => n + 1 \in S
  PROVE  Nat \subseteq S
<1> SUFFICES ASSUME Nat \ S # {}
             PROVE  FALSE
  OBVIOUS
<1>1. PICK x \in Nat \ S : \A y \in Nat \ S : x <= y
  BY Least
<1>2. x # 0 /\ x - 1 \in Nat /\ x - 1 \notin Nat \ S
  BY <1>1
<1> QED
  BY <1>1, <1>2

(* The states of a loop of n rounds over A, which starts with base and in  *)
(* round k does step[<<k, state>>].                                        *)
StepsOn(n, A) == [(1 .. n) \X A -> A]
Iterates(n, A, base, step) ==
  {g \in [0 .. n -> A] : /\ g[0] = base
                         /\ \A k \in 1 .. n : g[k] = step[<<k, g[k - 1]>>]}

(* A loop of n rounds has its states. *)
LEMMA Iteration ==
  ASSUME NEW n \in Nat, NEW A, NEW base \in A, NEW step \in StepsOn(n, A)
  PROVE  \E g : g \in Iterates(n, A, base, step)
<1> USE DEF StepsOn, Iterates
<1> DEFINE Up(m, g) == g[0] = base /\ \A k \in 1 .. m : g[k] = step[<<k, g[k - 1]>>]
           S == {m \in Nat : m <= n => \E g \in [0 .. m -> A] : Up(m, g)}
<1>1. 0 \in S
  <2>1. [k \in 0 .. 0 |-> base] \in [0 .. 0 -> A] /\ Up(0, [k \in 0 .. 0 |-> base])
    OBVIOUS
  <2> QED
    BY <2>1
<1>2. ASSUME NEW m \in Nat, m \in S
      PROVE  m + 1 \in S
  <2> SUFFICES ASSUME m + 1 <= n
               PROVE  \E g \in [0 .. m + 1 -> A] : Up(m + 1, g)
    OBVIOUS
  <2>1. PICK g \in [0 .. m -> A] : Up(m, g)
    BY <1>2
  <2> DEFINE new == step[<<m + 1, g[m]>>]
             h == [k \in 0 .. m + 1 |-> IF k = m + 1 THEN new ELSE g[k]]
  <2>2. new \in A
    OBVIOUS
  <2>3. h \in [0 .. m + 1 -> A]
    BY <2>2
  <2>4. h[0] = base
    BY <2>1
  <2>5. ASSUME NEW k \in 1 .. m + 1
        PROVE  h[k] = step[<<k, h[k - 1]>>]
    <3>1. h[k - 1] = g[k - 1]
      OBVIOUS
    <3>2. CASE k = m + 1
      <4>1. h[k] = new /\ k - 1 = m
        BY <3>2
      <4>2. h[k - 1] = g[m]
        BY <3>1, <4>1
      <4> HIDE DEF h
      <4> QED
        BY <3>2, <4>1, <4>2
    <3>3. CASE k \in 1 .. m
      BY <2>1, <3>1, <3>3
    <3> QED
      BY <3>2, <3>3
  <2> QED
    BY <2>3, <2>4, <2>5
<1> QED
  <2> HIDE DEF S
  <2>1. n \in S
    BY <1>1, <1>2, Induction
  <2> QED
    BY <2>1 DEF S

(* A loop invariant: what holds of the state before the first round and is *)
(* kept by each round holds after every round.  I[k] is the set of states  *)
(* for which it holds after k rounds.                                      *)
LEMMA Stays ==
  ASSUME NEW n \in Nat, NEW h, NEW I, h[0] \in I[0],
         \A k \in 1 .. n : h[k - 1] \in I[k - 1] => h[k] \in I[k]
  PROVE  \A k \in 0 .. n : h[k] \in I[k]
<1> DEFINE S == {m \in Nat : m <= n => h[m] \in I[m]}
<1>1. 0 \in S
  OBVIOUS
<1>2. ASSUME NEW m \in Nat, m \in S
      PROVE  m + 1 \in S
  <2>1. m + 1 <= n => m + 1 \in 1 .. n /\ (m + 1) - 1 = m /\ h[m] \in I[m]
    BY <1>2
  <2> QED
    BY <2>1
<1> HIDE DEF S
<1>3. \A k \in 0 .. n : k \in S
  BY <1>1, <1>2, Induction
<1> QED
  BY <1>3 DEF S

(* A loop whose rounds are only known to make sense while its invariant    *)
(* holds has states, and they satisfy the invariant.                       *)
Family(n, I, A) == \A k \in 0 .. n : I[k] \subseteq A
Rounds(n, I, step) == \A k \in 1 .. n : \A v \in I[k - 1] : step[<<k, v>>] \in I[k]
Loops(n, I, A, base, step) ==
  {g \in [0 .. n -> A] :
     g[0] = base /\ \A k \in 1 .. n : g[k - 1] \in I[k - 1] /\ g[k] = step[<<k, g[k - 1]>>]}

(* A loop function defined by CHOOSE takes the values of its iteration. *)
LEMMA Looping ==
  ASSUME NEW n \in Nat, NEW I, NEW A, Family(n, I, A), NEW base \in I[0],
         NEW step, Rounds(n, I, step)
  PROVE  \E g : g \in Loops(n, I, A, base, step)
<1> USE DEF Family, Rounds
<1> DEFINE safe == [z \in (1 .. n) \X A |-> IF z[2] \in I[z[1] - 1] THEN step[z] ELSE base]
<1>1. base \in A /\ 0 \in 0 .. n
  OBVIOUS
<1>2. \A k \in 1 .. n, v \in A : safe[<<k, v>>] = IF v \in I[k - 1] THEN step[<<k, v>>] ELSE base
  OBVIOUS
<1>3. \A k \in 1 .. n, v \in A : safe[<<k, v>>] \in A
  <2>1. \A k \in 1 .. n : k \in 0 .. n
    OBVIOUS
  <2> HIDE DEF safe
  <2> QED
    BY <1>1, <1>2, <2>1
<1>4. safe \in StepsOn(n, A)
  <2>1. \A z \in (1 .. n) \X A : safe[z] \in A
    <3>1. \A z \in (1 .. n) \X A : z = <<z[1], z[2]>> /\ z[1] \in 1 .. n /\ z[2] \in A
      OBVIOUS
    <3> HIDE DEF safe
    <3> QED
      BY <1>3, <3>1
  <2>2. safe = [z \in (1 .. n) \X A |-> safe[z]]
    OBVIOUS
  <2> HIDE DEF safe
  <2> QED
    BY <2>1, <2>2 DEF StepsOn
<1> HIDE DEF safe
<1>5. PICK g : g \in Iterates(n, A, base, safe)
  BY <1>1, <1>4, Iteration
<1>6. g \in [0 .. n -> A] /\ g[0] = base /\ \A k \in 1 .. n : g[k] = safe[<<k, g[k - 1]>>]
  BY <1>5 DEF Iterates
<1>7. \A k \in 1 .. n : k - 1 \in 0 .. n /\ g[k - 1] \in A
  <2>1. \A k \in 1 .. n : k - 1 \in 0 .. n
    OBVIOUS
  <2> QED
    BY <1>6, <2>1
<1>8. \A k \in 0 .. n : g[k] \in I[k]
  <2>1. g[0] \in I[0]
    BY <1>6
  <2>2. ASSUME NEW k \in 1 .. n, g[k - 1] \in I[k - 1]
        PROVE  g[k] \in I[k]
    <3>1. g[k] = safe[<<k, g[k - 1]>>] /\ g[k - 1] \in A
      BY <1>6, <1>7
    <3>2. g[k] = step[<<k, g[k - 1]>>]
      BY <1>2, <2>2, <3>1
    <3>3. \A v \in I[k - 1] : step[<<k, v>>] \in I[k]
      OBVIOUS
    <3> QED
      BY <2>2, <3>2, <3>3
  <2> QED
    BY <2>1, <2>2, Stays
<1>9. \A k \in 1 .. n : g[k - 1] \in I[k - 1] /\ g[k] = step[<<k, g[k - 1]>>]
  BY <1>2, <1>6, <1>7, <1>8
<1> QED
  BY <1>6, <1>9 DEF Loops

(* The same for a loop that walks a sequence of n elements backwards: h[k] *)
(* is its state when elements k and up have been handled.                  *)
LEMMA StaysBackwards ==
  ASSUME NEW n \in Nat, NEW h, NEW I, h[n + 1] \in I[n + 1],
         \A k \in 1 .. n : h[k + 1] \in I[k + 1] => h[k] \in I[k]
  PROVE  \A k \in 1 .. n + 1 : h[k] \in I[k]
<1> DEFINE g == [k \in 0 .. n |-> h[n + 1 - k]]
           J == [k \in 0 .. n |-> I[n + 1 - k]]
<1>1. g[0] \in J[0]
  BY n + 1 - 0 = n + 1
<1>2. ASSUME NEW k \in 1 .. n, g[k - 1] \in J[k - 1]
      PROVE  g[k] \in J[k]
  <2>1. n + 1 - k \in 1 .. n /\ n + 1 - (k - 1) = (n + 1 - k) + 1
    OBVIOUS
  <2>2. h[(n + 1 - k) + 1] \in I[(n + 1 - k) + 1]
    BY <1>2, <2>1
  <2> QED
    BY <2>1, <2>2
<1>3. \A k \in 0 .. n : g[k] \in J[k]
  <2> HIDE DEF g, J
  <2> QED
    BY <1>1, <1>2, Stays
<1>4. ASSUME NEW k \in 1 .. n + 1
      PROVE  h[k] \in I[k]
  <2>1. n + 1 - k \in 0 .. n /\ n + 1 - (n + 1 - k) = k
    OBVIOUS
  <2> QED
    BY <1>3, <2>1
<1> QED
  BY <1>4

-----------------------------------------------------------------------------
(* A growing chain of subsets of a finite set that stands still for good   *)
(* once it has stood still for one step does so within as many steps as    *)
(* the set has elements.                                                   *)
LEMMA ChainStops ==
  ASSUME NEW U, IsFiniteSet(U), NEW w, NEW N \in Nat, N = Cardinality(U),
         \A k \in 0 .. N + 1 : w[k] \subseteq U,
         \A k \in 0 .. N : w[k] \subseteq w[k + 1],
         \A k \in 1 .. N : w[k] = w[k - 1] => w[k + 1] = w[k]
  PROVE  w[N + 1] = w[N]
<1> DEFINE P(k) == Cardinality(w[k]) >= k \/ (k >= 1 /\ w[k] = w[k - 1])
           S == {k \in Nat : k <= N + 1 => P(k)}
<1>1. ASSUME NEW k \in 0 .. N + 1
      PROVE  IsFiniteSet(w[k]) /\ Cardinality(w[k]) \in Nat /\ Cardinality(w[k]) <= N
  BY FS_Subset, FS_CardinalityType
<1>2. 0 \in S
  BY <1>1
<1>3. ASSUME NEW k \in Nat, k \in S
      PROVE  k + 1 \in S
  <2> SUFFICES ASSUME k + 1 <= N + 1, w[k + 1] # w[k]
               PROVE  Cardinality(w[k + 1]) >= k + 1
    OBVIOUS
  <2>1. k \in 0 .. N /\ k + 1 \in 0 .. N + 1 /\ k \in 0 .. N + 1
    OBVIOUS
  <2>2. Cardinality(w[k]) >= k
    BY <1>3, <2>1
  <2>3. w[k] \subseteq w[k + 1]
    BY <2>1
  <2>4. Cardinality(w[k]) <= Cardinality(w[k + 1]) /\ Cardinality(w[k]) # Cardinality(w[k + 1])
    BY <1>1, <2>1, <2>3, FS_Subset
  <2>5. Cardinality(w[k]) \in Nat /\ Cardinality(w[k + 1]) \in Nat
    BY <1>1, <2>1
  <2> QED
    BY <2>2, <2>4, <2>5
<1> HIDE DEF S
<1>4. N + 1 \in S
  BY <1>2, <1>3, Induction
<1>5. P(N + 1)
  BY <1>4 DEF S
<1> QED
  BY <1>1, <1>5

-----------------------------------------------------------------------------
(* What a stack or a list holds after a push. *)
LEMMA Pushing ==
  ASSUME NEW S, NEW s \in Seq(S), NEW e \in S
  PROVE  /\ Append(s, e) \in Seq(S)
         /\ ToSet(Append(s, e)) = ToSet(s) \cup {e}
         /\ IsInjective(s) /\ e \notin ToSet(s) => IsInjective(Append(s, e))
<1>1. /\ Append(s, e) \in Seq(S) /\ Len(Append(s, e)) = Len(s) + 1
      /\ \A i \in 1 .. Len(s) + 1 : Append(s, e)[i] = IF i <= Len(s) THEN s[i] ELSE e
  OBVIOUS
<1>2. DOMAIN s = 1 .. Len(s) /\ DOMAIN Append(s, e) = 1 .. Len(s) + 1 /\ Len(s) \in Nat
  BY <1>1
<1> DEFINE t == Append(s, e)
<1> HIDE DEF t
<1>3. ToSet(t) = ToSet(s) \cup {e}
  <2>1. ASSUME NEW i \in DOMAIN t
        PROVE  t[i] \in ToSet(s) \cup {e}
    BY <1>1, <1>2 DEF ToSet, t
  <2>2. ASSUME NEW i \in DOMAIN s
        PROVE  s[i] \in ToSet(t)
    BY <1>1, <1>2 DEF ToSet, t
  <2>3. e \in ToSet(t)
    <3>1. Len(s) + 1 \in DOMAIN t /\ t[Len(s) + 1] = e
      BY <1>1, <1>2 DEF t
    <3> QED
      BY <3>1 DEF ToSet
  <2> QED
    BY <2>1, <2>2, <2>3 DEF ToSet
<1>4. IsInjective(s) /\ e \notin ToSet(s) => IsInjective(t)
  BY <1>1, <1>2 DEF IsInjective, t, ToSet
<1> QED
  BY <1>1, <1>3, <1>4 DEF t

(* What a stack holds before and after its top is taken. *)
LEMMA Popping ==
  ASSUME NEW S, NEW s \in Seq(S), s # <<>>
  PROVE  /\ Front(s) \in Seq(S) /\ Last(s) \in S /\ Len(Front(s)) = Len(s) - 1
         /\ ToSet(s) = ToSet(Front(s)) \cup {Last(s)}
         /\ IsInjective(s) => IsInjective(Front(s)) /\ Last(s) \notin ToSet(Front(s))
<1> DEFINE t == Front(s)
<1>1. /\ Len(s) \in Nat \ {0} /\ t \in Seq(S) /\ Len(t) = Len(s) - 1
      /\ \A i \in 1 .. Len(s) - 1 : t[i] = s[i]
  <2>1. Len(s) \in Nat \ {0}
    OBVIOUS
  <2>2. t = [i \in 1 .. Len(s) - 1 |-> s[i]]
    BY <2>1 DEF Front
  <2> QED
    BY <2>1, <2>2
<1>2. DOMAIN s = 1 .. Len(s) /\ DOMAIN t = 1 .. Len(s) - 1
  BY <1>1
<1> HIDE DEF t
<1>3. ToSet(s) = ToSet(t) \cup {Last(s)}
  <2>1. ASSUME NEW i \in DOMAIN s
        PROVE  s[i] \in ToSet(t) \cup {Last(s)}
    BY <1>1, <1>2 DEF ToSet, Last
  <2>2. ASSUME NEW i \in DOMAIN t
        PROVE  t[i] \in ToSet(s)
    BY <1>1, <1>2 DEF ToSet
  <2>3. Last(s) \in ToSet(s)
    BY <1>1, <1>2 DEF ToSet, Last
  <2> QED
    BY <2>1, <2>2, <2>3 DEF ToSet
<1>4. IsInjective(s) => IsInjective(t) /\ Last(s) \notin ToSet(t)
  BY <1>1, <1>2 DEF IsInjective, Last, ToSet
<1> QED
  BY <1>1, <1>3, <1>4 DEF t, Last

(* Contains, which scans positions, is membership *)
LEMMA Containing ==
  ASSUME NEW S, NEW s \in Seq(S), NEW e
  PROVE  Contains(s, e) <=> e \in ToSet(s)
BY DEF ToSet, Contains

(* What a list holds after another one was appended. *)
LEMMA Concatenating ==
  ASSUME NEW S, NEW s \in Seq(S), NEW t \in Seq(S)
  PROVE  s \o t \in Seq(S) /\ ToSet(s \o t) = ToSet(s) \cup ToSet(t)
<1> DEFINE u == s \o t
<1>1. /\ u \in Seq(S) /\ Len(u) = Len(s) + Len(t) /\ Len(s) \in Nat /\ Len(t) \in Nat
      /\ \A i \in 1 .. Len(s) : u[i] = s[i]
      /\ \A i \in 1 .. Len(t) : u[Len(s) + i] = t[i]
  OBVIOUS
<1>2. DOMAIN s = 1 .. Len(s) /\ DOMAIN t = 1 .. Len(t) /\ DOMAIN u = 1 .. Len(s) + Len(t)
  BY <1>1
<1> HIDE DEF u
<1>3. ASSUME NEW i \in DOMAIN u
      PROVE  u[i] \in ToSet(s) \cup ToSet(t)
  <2>1. CASE i \in 1 .. Len(s)
    BY <1>1, <1>2, <2>1 DEF ToSet
  <2>2. CASE i \notin 1 .. Len(s)
    <3>1. i - Len(s) \in 1 .. Len(t) /\ Len(s) + (i - Len(s)) = i
      BY <1>1, <1>2, <2>2
    <3> QED
      BY <1>1, <1>2, <3>1 DEF ToSet
  <2> QED
    BY <2>1, <2>2
<1>4. ASSUME NEW i \in 1 .. Len(s)
      PROVE  s[i] \in ToSet(u)
  <2>1. i \in DOMAIN u
    BY <1>1, <1>2
  <2> QED
    BY <1>1, <2>1 DEF ToSet
<1>5. ASSUME NEW i \in 1 .. Len(t)
      PROVE  t[i] \in ToSet(u)
  <2>1. Len(s) + i \in DOMAIN u
    BY <1>1, <1>2
  <2> QED
    BY <1>1, <2>1 DEF ToSet
<1> QED
  BY <1>1, <1>2, <1>3, <1>4, <1>5 DEF ToSet, u

(* The same for a list that is worked off from its head. *)
LEMMA Shifting ==
  ASSUME NEW S, NEW s \in Seq(S), s # <<>>, IsInjective(s)
  PROVE  /\ Tail(s) \in Seq(S) /\ Head(s) \in ToSet(s) /\ Head(s) \in S
         /\ ToSet(Tail(s)) = ToSet(s) \ {Head(s)}
         /\ IsInjective(Tail(s))
<1> DEFINE t == Tail(s)
<1>1. /\ Len(s) \in Nat \ {0} /\ t \in Seq(S) /\ Len(t) = Len(s) - 1
      /\ \A i \in 1 .. Len(s) - 1 : t[i] = s[i + 1]
      /\ Head(s) = s[1]
  OBVIOUS
<1>2. DOMAIN s = 1 .. Len(s) /\ DOMAIN t = 1 .. Len(s) - 1
  BY <1>1
<1> HIDE DEF t
<1>3. ASSUME NEW i \in DOMAIN t
      PROVE  t[i] \in ToSet(s) \ {Head(s)}
  <2>1. i + 1 \in DOMAIN s /\ 1 \in DOMAIN s /\ i + 1 # 1 /\ t[i] = s[i + 1]
    BY <1>1, <1>2
  <2> QED
    BY <1>1, <2>1 DEF ToSet, IsInjective
<1>4. ASSUME NEW i \in DOMAIN s, s[i] # Head(s)
      PROVE  s[i] \in ToSet(t)
  <2>1. i - 1 \in DOMAIN t /\ t[i - 1] = s[i]
    BY <1>1, <1>2, <1>4
  <2> QED
    BY <2>1 DEF ToSet
<1>5. ToSet(t) = ToSet(s) \ {Head(s)}
  BY <1>3, <1>4 DEF ToSet
<1>6. ASSUME NEW i \in DOMAIN t, NEW j \in DOMAIN t, t[i] = t[j]
      PROVE  i = j
  <2>1. i + 1 \in DOMAIN s /\ j + 1 \in DOMAIN s /\ s[i + 1] = s[j + 1]
    BY <1>1, <1>2, <1>6
  <2>2. i + 1 = j + 1
    BY <2>1 DEF IsInjective
  <2> QED
    BY <1>1, <1>2, <2>2
<1>7. Head(s) \in ToSet(s)
  BY <1>1, <1>2 DEF ToSet
<1> QED
  BY <1>1, <1>5, <1>6, <1>7 DEF t, IsInjective

(* A list that was collected backwards and is turned round. *)
LEMMA Reversing ==
  ASSUME NEW S, NEW s \in Seq(S)
  PROVE  /\ Reverse(s) \in Seq(S) /\ Len(Reverse(s)) = Len(s)
         /\ \A i \in 1 .. Len(s) : Reverse(s)[i] = s[Len(s) - i + 1]
         /\ ToSet(Reverse(s)) = ToSet(s)
<1> DEFINE t == Reverse(s)
           n == Len(s)
<1>1. /\ n \in Nat /\ t \in Seq(S) /\ Len(t) = n /\ DOMAIN t = 1 .. n /\ DOMAIN s = 1 .. n
      /\ \A i \in 1 .. n : t[i] = s[n - i + 1]
  BY DEF Reverse
<1> HIDE DEF t, n
<1>2. \A i \in 1 .. n : n - i + 1 \in 1 .. n /\ n - (n - i + 1) + 1 = i
  BY <1>1
<1>3. ASSUME NEW i \in 1 .. n
      PROVE  t[i] \in ToSet(s) /\ s[i] \in ToSet(t)
  <2>1. t[i] = s[n - i + 1] /\ s[i] = t[n - i + 1]
    BY <1>1, <1>2
  <2> QED
    BY <1>1, <1>2, <2>1 DEF ToSet
<1>4. ToSet(t) = ToSet(s)
  BY <1>1, <1>3 DEF ToSet
<1> QED
  BY <1>1, <1>4 DEF t, n


(* FlattenSeq concatenates the sequences one after another. *)
Flattens(S, seqs) ==
  {g \in [0 .. Len(seqs) -> Seq(S)] :
     /\ g[0] = <<>> /\ g[Len(seqs)] = FlattenSeq(seqs)
     /\ \A k \in 1 .. Len(seqs) : g[k] = g[k - 1] \o seqs[k]}

(* FlattenSeq exists as the iteration that appends one sequence after *)
(* another.                                                           *)
LEMMA FlatteningRounds ==
  ASSUME NEW S, NEW seqs, Len(seqs) \in Nat, DOMAIN seqs = 1 .. Len(seqs),
         \A k \in 1 .. Len(seqs) : seqs[k] \in Seq(S), Len(seqs) = 0 => seqs = <<>>
  PROVE  \E g : g \in Flattens(S, seqs)
<1> USE DEF Flattens
<1> DEFINE n == Len(seqs)
           F(f) == [i \in 1 .. n |-> IF i = 1 THEN seqs[i] ELSE f[i - 1] \o seqs[i]]
           flat == CHOOSE f : f = F(f)
           A == Seq(S)
           step == [z \in (1 .. n) \X A |-> z[2] \o seqs[z[1]]]
<1>0. n \in Nat
  OBVIOUS
<1>1. CASE n = 0
  <2> DEFINE g == [k \in 0 .. 0 |-> <<>>]
  <2>1. FlattenSeq(seqs) = <<>>
    BY <1>1 DEF FlattenSeq
  <2>2. g \in [0 .. 0 -> Seq(S)] /\ g[0] = <<>>
    OBVIOUS
  <2> HIDE DEF g
  <2> QED
    BY <1>1, <2>1, <2>2
<1>2. CASE n # 0
  <2>1. n > 0 /\ n \in 1 .. n /\ n \in 0 .. n
    BY <1>0, <1>2
  <2>2. FlattenSeq(seqs) = flat[n]
    <3> HIDE DEF flat
    <3> QED
      BY <1>2, Zenon DEF FlattenSeq, flat
  <2>3. \A z \in (1 .. n) \X A : z[2] \o seqs[z[1]] \in A
    <3> SUFFICES ASSUME NEW z \in (1 .. n) \X A
                 PROVE  z[2] \o seqs[z[1]] \in A
      OBVIOUS
    <3>1. z[1] \in 1 .. n /\ z[2] \in Seq(S) /\ seqs[z[1]] \in Seq(S)
      OBVIOUS
    <3> QED
      BY <3>1
  <2>4. step \in StepsOn(n, A) /\ <<>> \in A
    BY <2>3 DEF StepsOn
  <2>5. \A k \in 1 .. n, v \in A : step[<<k, v>>] = v \o seqs[k]
    OBVIOUS
  <2> HIDE DEF step, A, n
  <2>6. PICK g : g \in Iterates(n, A, <<>>, step)
    BY <1>0, <2>4, Iteration
  <2>7. /\ g \in [0 .. n -> A] /\ g[0] = <<>>
        /\ \A k \in 1 .. n : k - 1 \in 0 .. n /\ g[k] = step[<<k, g[k - 1]>>]
    BY <1>0, <2>6 DEF Iterates
  <2>8. \A k \in 1 .. n : g[k] = g[k - 1] \o seqs[k]
    BY <2>5, <2>7
  <2> DEFINE h == [k \in 1 .. n |-> g[k]]
  <2>9. h = F(h)
    <3>1. ASSUME NEW k \in 1 .. n
          PROVE  g[k] = IF k = 1 THEN seqs[k] ELSE h[k - 1] \o seqs[k]
      <4>1. CASE k = 1
        <5>1. seqs[k] \in Seq(S) /\ <<>> \o seqs[k] = seqs[k]
          BY DEF n
        <5>2. g[k - 1] = <<>>
          BY <2>7, <4>1
        <5> HIDE DEF h
        <5> QED
          BY <2>8, <4>1, <5>1, <5>2
      <4>2. CASE k # 1
        <5>1. h[k - 1] = g[k - 1]
          BY <1>0, <4>2
        <5> HIDE DEF h
        <5> QED
          BY <2>8, <4>2, <5>1
      <4> QED
        BY <4>1, <4>2
    <3> QED
      BY <3>1
  <2> HIDE DEF h
  <2>10. flat = F(flat)
    <3> HIDE DEF F
    <3> QED
      BY <2>9, Zenon
  <2> HIDE DEF flat
  <2> DEFINE f == [k \in 0 .. n |-> IF k = 0 THEN <<>> ELSE flat[k]]
  <2>11. ASSUME NEW k \in 1 .. n
         PROVE  f[k] = flat[k] /\ f[k] = f[k - 1] \o seqs[k]
    <3>1. k \in 0 .. n /\ k - 1 \in 0 .. n /\ f[k] = flat[k]
      BY <1>0
    <3>2. flat[k] = IF k = 1 THEN seqs[k] ELSE flat[k - 1] \o seqs[k]
      BY <2>10
    <3>3. CASE k = 1
      <4>1. seqs[k] \in Seq(S) /\ <<>> \o seqs[k] = seqs[k] /\ f[k - 1] = <<>>
        BY <1>0, <3>3 DEF n
      <4> HIDE DEF f
      <4> QED
        BY <3>1, <3>2, <3>3, <4>1
    <3>4. CASE k # 1
      <4>1. f[k - 1] = flat[k - 1]
        BY <3>1, <3>4
      <4> HIDE DEF f
      <4> QED
        BY <3>1, <3>2, <3>4, <4>1
    <3> QED
      BY <3>3, <3>4
  <2>12. f[0] = <<>> /\ f = [k \in 0 .. n |-> f[k]]
    BY <1>0
  <2> HIDE DEF f
  <2>13. \A k \in 0 .. n : f[k] \in A
    <3> DEFINE I == [k \in 0 .. n |-> A]
    <3>1. f[0] \in I[0]
      BY <1>0, <2>4, <2>12
    <3>2. ASSUME NEW k \in 1 .. n, f[k - 1] \in I[k - 1]
          PROVE  f[k] \in I[k]
      <4>1. f[k - 1] \in Seq(S) /\ seqs[k] \in Seq(S)
        BY <2>7, <3>2 DEF A, n
      <4>2. f[k - 1] \o seqs[k] \in Seq(S)
        BY <4>1
      <4>3. f[k] \in Seq(S)
        BY <2>11, <4>2
      <4> QED
        BY <1>0, <4>3 DEF A
    <3>3. \A k \in 0 .. n : f[k] \in I[k]
      <4> HIDE DEF I
      <4> QED
        BY <1>0, <3>1, <3>2, Stays
    <3> QED
      BY <3>3
  <2>14. f \in [0 .. n -> A]
    BY <2>12, <2>13
  <2> QED
    BY <2>1, <2>2, <2>11, <2>12, <2>14 DEF A, n
<1> QED
  BY <1>1, <1>2

(* What it makes of sequences of at most m elements, and what is in it.    *)
LEMMA Flattening ==
  ASSUME NEW S, NEW m \in Nat, NEW seqs, Len(seqs) \in Nat, DOMAIN seqs = 1 .. Len(seqs),
         \A k \in 1 .. Len(seqs) : seqs[k] \in Seq(S) /\ Len(seqs[k]) <= m,
         Len(seqs) = 0 => seqs = <<>>
  PROVE  FlattenSeq(seqs) \in Seq(S) /\ Len(FlattenSeq(seqs)) <= Len(seqs) * m
<1> DEFINE n == Len(seqs)
           I == [k \in 0 .. n |-> {v \in Seq(S) : Len(v) <= k * m}]
<1>0. PICK g : g \in Flattens(S, seqs)
  BY FlatteningRounds
<1>1. /\ g \in [0 .. n -> Seq(S)] /\ g[0] = <<>> /\ g[n] = FlattenSeq(seqs)
      /\ \A k \in 1 .. n : g[k] = g[k - 1] \o seqs[k]
  BY <1>0 DEF Flattens
<1>2. g[0] \in I[0]
  <2>1. 0 \in 0 .. n /\ <<>> \in Seq(S) /\ Len(<<>>) = 0 /\ 0 * m = 0
    OBVIOUS
  <2> QED
    BY <1>1, <2>1
<1>3. ASSUME NEW k \in 1 .. n, g[k - 1] \in I[k - 1]
      PROVE  g[k] \in I[k]
  <2>1. k - 1 \in 0 .. n /\ k \in 0 .. n /\ k - 1 \in Nat /\ k \in Nat
    OBVIOUS
  <2>2. g[k - 1] \in Seq(S) /\ Len(g[k - 1]) <= (k - 1) * m
    BY <1>3, <2>1
  <2>3. seqs[k] \in Seq(S) /\ Len(seqs[k]) <= m
    OBVIOUS
  <2>4. /\ g[k] \in Seq(S) /\ Len(g[k]) = Len(g[k - 1]) + Len(seqs[k])
        /\ Len(g[k - 1]) \in Nat /\ Len(seqs[k]) \in Nat
    <3> DEFINE s == g[k - 1]
               t == seqs[k]
    <3>1. g[k] = s \o t /\ s \in Seq(S) /\ t \in Seq(S)
      BY <1>1, <2>2, <2>3
    <3> HIDE DEF s, t
    <3>2. g[k] \in Seq(S) /\ Len(g[k]) = Len(s) + Len(t) /\ Len(s) \in Nat /\ Len(t) \in Nat
      BY <3>1
    <3> QED
      BY <3>2 DEF s, t
  <2>5. (k - 1) * m + m = k * m
    BY <2>1
  <2>6. (k - 1) * m \in Nat /\ k * m \in Nat
    BY <2>1
  <2> DEFINE x == (k - 1) * m
             y == k * m
  <2>7. Len(g[k]) <= y
    <3>1. x + m = y /\ x \in Nat /\ y \in Nat /\ Len(g[k - 1]) <= x
      BY <2>2, <2>5, <2>6
    <3> HIDE DEF x, y
    <3> QED
      BY <2>3, <2>4, <3>1
  <2> QED
    BY <2>1, <2>4, <2>7
<1>4. \A k \in 0 .. n : g[k] \in I[k]
  <2> HIDE DEF I
  <2> QED
    BY <1>2, <1>3, Stays
<1>5. n \in 0 .. n
  OBVIOUS
<1>6. g[n] \in Seq(S) /\ Len(g[n]) <= n * m
  BY <1>4, <1>5
<1> QED
  BY <1>1, <1>6

(* FlattenSeq obeys its recursion. *)
LEMMA FlatteningHolds ==
  ASSUME NEW S, NEW seqs, Len(seqs) \in Nat, DOMAIN seqs = 1 .. Len(seqs),
         \A k \in 1 .. Len(seqs) : seqs[k] \in Seq(S), Len(seqs) = 0 => seqs = <<>>
  PROVE  /\ FlattenSeq(seqs) \in Seq(S)
         /\ \A k \in 1 .. Len(seqs) : ToSet(seqs[k]) \subseteq ToSet(FlattenSeq(seqs))
<1> DEFINE n == Len(seqs)
           I == [k \in 0 .. n |->
                   {v \in Seq(S) : \A j \in 1 .. k : ToSet(seqs[j]) \subseteq ToSet(v)}]
<1>0. PICK g : g \in Flattens(S, seqs)
  BY FlatteningRounds
<1>1. /\ g \in [0 .. n -> Seq(S)] /\ g[0] = <<>> /\ g[n] = FlattenSeq(seqs)
      /\ \A k \in 1 .. n : g[k] = g[k - 1] \o seqs[k]
  BY <1>0 DEF Flattens
<1>2. g[0] \in I[0]
  <2>1. 0 \in 0 .. n /\ 1 .. 0 = {}
    OBVIOUS
  <2> QED
    BY <1>1, <2>1
<1>3. ASSUME NEW k \in 1 .. n, g[k - 1] \in I[k - 1]
      PROVE  g[k] \in I[k]
  <2>1. k - 1 \in 0 .. n /\ k \in 0 .. n /\ seqs[k] \in Seq(S)
    OBVIOUS
  <2>2. g[k - 1] \in Seq(S) /\ \A j \in 1 .. k - 1 : ToSet(seqs[j]) \subseteq ToSet(g[k - 1])
    BY <1>3, <2>1
  <2> DEFINE s == g[k - 1]
             t == seqs[k]
  <2>3. g[k] = s \o t /\ s \in Seq(S) /\ t \in Seq(S)
    BY <1>1, <2>1, <2>2
  <2> HIDE DEF s, t
  <2>4. /\ g[k] \in Seq(S) /\ Len(g[k]) = Len(s) + Len(t)
        /\ Len(s) \in Nat /\ Len(t) \in Nat
        /\ \A i \in 1 .. Len(s) : g[k][i] = s[i]
        /\ \A i \in 1 .. Len(t) : g[k][Len(s) + i] = t[i]
    BY <2>3
  <2>5. DOMAIN s = 1 .. Len(s) /\ DOMAIN t = 1 .. Len(t) /\ DOMAIN g[k] = 1 .. Len(s) + Len(t)
    BY <2>3, <2>4
  <2>6. ToSet(s) \subseteq ToSet(g[k])
    <3> SUFFICES ASSUME NEW i \in 1 .. Len(s)
                 PROVE  s[i] \in ToSet(g[k])
      BY <2>5 DEF ToSet
    <3>1. i \in 1 .. Len(s) + Len(t)
      BY <2>4
    <3> QED
      BY <2>4, <2>5, <3>1 DEF ToSet
  <2>7. ToSet(t) \subseteq ToSet(g[k])
    <3> SUFFICES ASSUME NEW i \in 1 .. Len(t)
                 PROVE  t[i] \in ToSet(g[k])
      BY <2>5 DEF ToSet
    <3>1. Len(s) + i \in 1 .. Len(s) + Len(t)
      BY <2>4
    <3> QED
      BY <2>4, <2>5, <3>1 DEF ToSet
  <2>8. \A j \in 1 .. k : j \in 1 .. k - 1 \/ j = k
    OBVIOUS
  <2>9. \A j \in 1 .. k : ToSet(seqs[j]) \subseteq ToSet(g[k])
    BY <2>2, <2>6, <2>7, <2>8 DEF s, t
  <2> QED
    BY <2>1, <2>4, <2>9
<1>4. \A k \in 0 .. n : g[k] \in I[k]
  <2> HIDE DEF I
  <2> QED
    BY <1>2, <1>3, Stays
<1>5. n \in 0 .. n
  OBVIOUS
<1> QED
  BY <1>1, <1>4, <1>5
=============================================================================
