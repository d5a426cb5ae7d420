------------------------------- MODULE Stripe -------------------------------
(***************************************************************************)
(* One StripeGroup of Util/stripe.cc: elements 1 to max_instances - 1 of   *)
(* its first stripe (element 0 is never used), the free ones linked        *)
(* through their first word.  The holder of an element may write anything  *)
(* there.  num_news_ and num_dels_ are counted but never read, and are     *)
(* left out; handles are their indices.                                    *)
(***************************************************************************)
EXTENDS Naturals, Sequences, FiniteSets

CONSTANT max_instances

ASSUME MaxAssumption == max_instances \in Nat /\ max_instances > 1

VARIABLES
  word,         (* word[h]: the first word of element h *)
  first_free,   (* head of the free list, 0 if it is empty *)
  held,         (* elements the program holds *)
  out           (* what New returned, 0 if it was not called last *)

group == <<word, first_free, held, out>>

Slot == 1..(max_instances - 1)
Word == 0..(max_instances - 1)

(* AllocateAllStripes *)
StripeInit ==
  /\ word = [h \in Slot |-> IF h = max_instances - 1 THEN 0 ELSE h + 1]
  /\ first_free = 1
  /\ held = {} /\ out = 0

(* Asserts when the list is empty. *)
New ==
  /\ first_free # 0
  /\ first_free' = word[first_free]
  /\ held' = held \cup {first_free} /\ out' = first_free
  /\ UNCHANGED word

Del_KeepsWord(h) ==   \* mutant: the link is not written
  /\ h \in held
  /\ first_free' = h
  /\ held' = held \ {h} /\ out' = 0
  /\ UNCHANGED word

(* The program deletes only what it holds. *)
Del(h) ==
  /\ h \in held
  /\ word' = [word EXCEPT ![h] = first_free]
  /\ first_free' = h
  /\ held' = held \ {h} /\ out' = 0

(* The holders write their data over the elements. *)
Write ==
  /\ word' \in [Slot -> Word]
  /\ \A h \in Slot \ held : word'[h] = word[h]
  /\ UNCHANGED <<first_free, held, out>>

StripeNext == New \/ Write \/ \E h \in Slot : Del(h)

StripeSpec == StripeInit /\ [][StripeNext]_group

-----------------------------------------------------------------------------
StripeTypeOK ==
  /\ word \in [Slot -> Word]
  /\ first_free \in Word
  /\ held \subseteq Slot /\ out \in Slot \cup {0}

(* s is the free list: it starts at first_free, each element links to the  *)
(* next and the last to none, and none is in it twice.                     *)
Links(s) ==
  /\ first_free = IF Len(s) = 0 THEN 0 ELSE s[1]
  /\ \A i \in 1..Len(s) : word[s[i]] = IF i = Len(s) THEN 0 ELSE s[i + 1]

ListsFree(s) ==
  /\ \A i, j \in 1..Len(s) : s[i] = s[j] => i = j
  /\ \A h \in Slot : h \notin held <=> \E i \in 1..Len(s) : s[i] = h

FreeListOf(S) == \E s \in S : Links(s) /\ ListsFree(s)

(***************************************************************************)
(* The free list is a simple list of exactly the elements nobody holds,    *)
(* whatever the program wrote into those it holds: no element is lost and  *)
(* none is handed out twice.                                               *)
(***************************************************************************)
FreeListExact == FreeListOf([1..Cardinality(Slot \ held) -> Slot])

(* The group implements a pool: New never returns a held element. *)
Pool == INSTANCE StripePool
ImplementsPool == Pool!Spec
=============================================================================
