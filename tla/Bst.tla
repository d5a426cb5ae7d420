-------------------------------- MODULE Bst --------------------------------
(***************************************************************************)
(* Util/bst.h: the intrusive binary search tree that holds the symbol      *)
(* tables of a unit and of its functions (and the entries of jump tables). *)
(* A tree t has the links of all items (left, right and parent, 0 for      *)
(* none), the container's root, and what a handle gives: key and prio, a   *)
(* hash of the handle.  Item 0 is real memory that nobody owns; BstDel may *)
(* write its parent link.  Adding rotates an item upwards by priority.     *)
(***************************************************************************)
EXTENDS Naturals, Sequences

Relink_KeepsRoot(t, p, old, new) ==   \* mutant: the root is never replaced
  IF p = 0 THEN t
  ELSE IF t.left[p] = old THEN [t EXCEPT !.left[p] = new]
  ELSE [t EXCEPT !.right[p] = new]

(* p's child `old` becomes `new`; without a parent it is the root. *)
Relink(t, p, old, new) ==
  IF p = 0 THEN [t EXCEPT !.root = new]
  ELSE IF t.left[p] = old THEN [t EXCEPT !.left[p] = new]
  ELSE [t EXCEPT !.right[p] = new]

Adopt(t, child, p) == IF child = 0 THEN t ELSE [t EXCEPT !.parent[child] = p]

RotateLeft(t, top) ==
  LET p == t.parent[top]
      r == t.right[top]
      x == t.left[r]
      moved == [t EXCEPT !.left[r] = top, !.parent[top] = r, !.right[top] = x]
  IN Relink([Adopt(moved, x, top) EXCEPT !.parent[r] = p], p, top, r)

RotateRight_LosesChild(t, top) ==   \* mutant: l's right child keeps its parent
  LET p == t.parent[top]
      l == t.left[top]
      x == t.right[l]
      moved == [t EXCEPT !.right[l] = top, !.parent[top] = l, !.left[top] = x]
  IN Relink([moved EXCEPT !.parent[l] = p], p, top, l)

RotateRight(t, top) ==
  LET p == t.parent[top]
      l == t.left[top]
      x == t.right[l]
      moved == [t EXCEPT !.right[l] = top, !.parent[top] = l, !.left[top] = x]
  IN Relink([Adopt(moved, x, top) EXCEPT !.parent[l] = p], p, top, l)

(* The loop after an insertion: a rotation makes node its parent's parent, *)
(* and the walk goes on above it.                                          *)
RECURSIVE Bubble(_, _)
Bubble(t, node) ==
  LET p == IF node = 0 THEN 0 ELSE t.parent[node]
  IN IF p = 0 THEN t
     ELSE IF t.prio[p] >= t.prio[node] THEN Bubble(t, p)
     ELSE LET turned == IF t.left[p] = node THEN RotateRight(t, p) ELSE RotateLeft(t, p)
          IN Bubble(turned, turned.parent[node])

(* The node to insert under, or the one that has the key already. *)
RECURSIVE Descend(_, _, _)
Descend(t, node, key) ==
  LET next == IF key < t.key[node] THEN t.left[node] ELSE t.right[node]
  IN IF key = t.key[node] \/ next = 0 THEN node ELSE Descend(t, next, key)

Attach(t, p, item) ==
  [IF t.key[item] < t.key[p] THEN [t EXCEPT !.left[p] = item]
   ELSE [t EXCEPT !.right[p] = item]
     EXCEPT !.parent[item] = p]

BstAdd_SaysTrue(t, item) ==   \* mutant: a duplicate is reported as added
  LET clean == [t EXCEPT !.left[item] = 0, !.right[item] = 0]
      place == Descend(clean, clean.root, t.key[item])
  IN IF clean.root = 0
     THEN [tree |-> [clean EXCEPT !.root = item, !.parent[item] = 0], ok |-> TRUE]
     ELSE IF t.key[place] = t.key[item] THEN [tree |-> clean, ok |-> TRUE]
     ELSE [tree |-> Bubble(Attach(clean, place, item), item), ok |-> TRUE]

(* BstAdd clears the item's links before it looks for its place. *)
BstAdd(t, item) ==
  LET clean == [t EXCEPT !.left[item] = 0, !.right[item] = 0]
      place == Descend(clean, clean.root, t.key[item])
  IN IF clean.root = 0
     THEN [tree |-> [clean EXCEPT !.root = item, !.parent[item] = 0], ok |-> TRUE]
     ELSE IF t.key[place] = t.key[item] THEN [tree |-> clean, ok |-> FALSE]
     ELSE [tree |-> Bubble(Attach(clean, place, item), item), ok |-> TRUE]

RECURSIVE BstSmallest(_, _)
BstSmallest(t, node) ==
  IF t.left[node] = 0 THEN node ELSE BstSmallest(t, t.left[node])

(* BstDel of an item with at most one child. *)
Unlink(t, item) ==
  LET child == IF t.left[item] = 0 THEN t.right[item] ELSE t.left[item]
  IN Relink(Adopt(t, child, t.parent[item]), t.parent[item], item, child)

BstDel_StaleRight(t, item) ==   \* mutant: right is not read again
  IF t.left[item] = 0 \/ t.right[item] = 0 THEN Unlink(t, item)
  ELSE LET next == BstSmallest(t, t.right[item])
           right == t.right[item]
           cut == Unlink(t, next)
           put == [cut EXCEPT !.right[next] = right, !.left[next] = cut.left[item],
                              !.parent[next] = cut.parent[item],
                              !.parent[right] = next, !.parent[cut.left[item]] = next]
       IN Relink(put, cut.parent[item], item, next)

(* With two children the item's place goes to the next one in order, which *)
(* is unlinked first.  If that was its right child, right may be 0 now.    *)
BstDel(t, item) ==
  IF t.left[item] = 0 \/ t.right[item] = 0 THEN Unlink(t, item)
  ELSE LET next == BstSmallest(t, t.right[item])
           cut == Unlink(t, next)
           right == cut.right[item]
           put == [cut EXCEPT !.right[next] = right, !.left[next] = cut.left[item],
                              !.parent[next] = cut.parent[item],
                              !.parent[right] = next, !.parent[cut.left[item]] = next]
       IN Relink(put, cut.parent[item], item, next)

RECURSIVE FindFrom(_, _, _)
FindFrom(t, node, key) ==
  IF node = 0 \/ key = t.key[node] THEN node
  ELSE FindFrom(t, IF key < t.key[node] THEN t.left[node] ELSE t.right[node], key)

BstFind(t, key) == FindFrom(t, t.root, key)

(* BstIter: operator++ goes down to the right, or up until it comes from   *)
(* the left.                                                               *)
RECURSIVE ClimbFrom(_, _)
ClimbFrom(t, last) ==
  LET p == t.parent[last]
  IN IF p = 0 \/ t.left[p] = last THEN p ELSE ClimbFrom(t, p)

After(t, node) ==
  IF t.right[node] # 0 THEN BstSmallest(t, t.right[node]) ELSE ClimbFrom(t, node)

RECURSIVE IterFrom(_, _)
IterFrom(t, node) == IF node = 0 THEN <<>> ELSE <<node>> \o IterFrom(t, After(t, node))

BstIter(t) == IF t.root = 0 THEN <<>> ELSE IterFrom(t, BstSmallest(t, t.root))
=============================================================================
