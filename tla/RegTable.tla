------------------------------ MODULE RegTable ------------------------------
(***************************************************************************)
(* The registers of a unit's functions in the C++ port (Base/ir.h, ir.cc,  *)
(* reg_stats.cc).  RegNew takes an element of the REG stripe group and     *)
(* FunRegAdd puts it into the tree of its function; a register nobody      *)
(* refers to is taken out with FunRegDel and freed with RegDel.  The first *)
(* stripe of the group is RegBst, and its first word is the left link: the *)
(* free list and the left children of all functions share memory.          *)
(***************************************************************************)
EXTENDS Stripe, Bst

CONSTANTS
  Fun,
  Names,     (* Names[f]: register names that are looked up in f first *)
  Scratch,   (* Scratch[f]: names FunGetScratchReg makes up *)
  Prio,      (* priority(h) of each handle *)
  MaxDead    (* how many registers are dropped at once *)

VARIABLES
  right, parent,   (* links of each element, and of element 0 *)
  root,            (* reg_syms of each function *)
  name,            (* of each element, 0 before the first *)
  syms,            (* history: what was added to each function and not deleted *)
  todo             (* what the program is in the middle of *)

links == <<right, parent, root>>
vars == <<word, first_free, held, out, right, parent, root, name, syms, todo>>

Node == Slot \cup {0}
Idle == [op |-> "idle"]

Tree(f) ==
  [left |-> [n \in Node |-> IF n = 0 THEN 0 ELSE word[n]], right |-> right,
   parent |-> parent, root |-> root[f], key |-> name, prio |-> Prio]

(* The links and the root of f become those of t; nothing reads the parent *)
(* link of element 0.                                                      *)
Store(f, t) ==
  /\ word' = [h \in Slot |-> t.left[h]]
  /\ right' = t.right /\ parent' = [t.parent EXCEPT ![0] = 0]
  /\ root' = [root EXCEPT ![f] = t.root]

Regs(f) == BstIter(Tree(f))

-----------------------------------------------------------------------------
(* Links nobody has written yet, or whose element was freed: the element *)
(* itself stands for whatever is found there.                            *)
Garbage == [n \in Node |-> n]

Init ==
  /\ StripeInit
  /\ right = Garbage /\ parent = Garbage
  /\ root = [f \in Fun |-> 0] /\ name = [h \in Slot |-> 0]
  /\ syms = [f \in Fun |-> {}]
  /\ todo = Idle

RegNew(f, n) ==
  /\ todo = Idle
  /\ New
  /\ name' = [name EXCEPT ![first_free] = n]
  /\ todo' = [op |-> "add", fun |-> f, regs |-> <<first_free>>]
  /\ UNCHANGED <<links, syms>>

(* So does the parser with the registers that are declared. *)
FunFindOrAddCpuReg(f, n) ==
  todo = Idle /\ BstFind(Tree(f), n) = 0 /\ RegNew(f, n)

(* Makes up a name; a parsed register may have it already. *)
FunGetScratchReg(f, n) == RegNew(f, n)

(* Callers ignore the result: a register that is refused stays allocated. *)
FunRegAdd ==
  /\ todo.op = "add"
  /\ LET f == todo.fun
         reg == Head(todo.regs)
         result == BstAdd(Tree(f), reg)
     IN /\ Store(f, result.tree)
        /\ syms' = IF result.ok THEN [syms EXCEPT ![f] = @ \cup {reg}] ELSE syms
  /\ todo' = Idle
  /\ UNCHANGED <<first_free, held, out, name>>

(* FunDropUnreferencedRegs collects the registers, then deletes them. *)
FunDropUnreferencedRegs(f, dead) ==
  /\ todo = Idle
  /\ todo' = [op |-> "unlink", fun |-> f,
              regs |-> SelectSeq(Regs(f), LAMBDA reg : reg \in dead)]
  /\ UNCHANGED <<group, links, name, syms>>

FunRegDel ==
  /\ todo.op = "unlink"
  /\ LET reg == Head(todo.regs)
     IN /\ Store(todo.fun, BstDel(Tree(todo.fun), reg))
        /\ syms' = [syms EXCEPT ![todo.fun] = @ \ {reg}]
  /\ todo' = [todo EXCEPT !.op = "free"]
  /\ UNCHANGED <<first_free, held, out, name>>

(* What the element held is gone; the next register is deleted. *)
Forget(reg) ==
  /\ right' = [right EXCEPT ![reg] = reg]
  /\ parent' = [parent EXCEPT ![reg] = reg]
  /\ name' = [name EXCEPT ![reg] = 0]
  /\ todo' = IF Len(todo.regs) = 1 THEN Idle
             ELSE [todo EXCEPT !.op = "unlink", !.regs = Tail(@)]
  /\ UNCHANGED <<root, syms>>

RegDel_Poisons ==   \* mutant: the links are cleared after Del
  /\ todo.op = "free"
  /\ LET reg == Head(todo.regs)
     IN /\ word' = [word EXCEPT ![reg] = 0]
        /\ first_free' = reg /\ held' = held \ {reg} /\ out' = 0
        /\ Forget(reg)

RegDel == todo.op = "free" /\ LET reg == Head(todo.regs) IN Del(reg) /\ Forget(reg)

Next ==
  \/ \E f \in Fun : \/ \E n \in Names[f] : FunFindOrAddCpuReg(f, n)
                    \/ \E n \in Scratch[f] : FunGetScratchReg(f, n)
                    \/ \E dead \in SUBSET syms[f] :
                         /\ Cardinality(dead) \in 1..MaxDead
                         /\ FunDropUnreferencedRegs(f, dead)
  \/ FunRegAdd
  \/ FunRegDel
  \/ RegDel

Spec == Init /\ [][Next]_vars

-----------------------------------------------------------------------------
(* Types; no register is in two functions; and child and parent links      *)
(* agree and stay among the registers of the function.                     *)
TypeOK ==
  /\ StripeTypeOK
  /\ right \in [Node -> Node] /\ parent \in [Node -> Node]
  /\ todo.op \in {"idle", "add", "unlink", "free"}
  /\ \A f \in Fun :
       /\ syms[f] \subseteq held
       /\ \A g \in Fun \ {f} : syms[f] \cap syms[g] = {}
       /\ root[f] \in syms[f] \cup {0}
       /\ root[f] # 0 => parent[root[f]] = 0
       /\ \A n \in syms[f] : \A child \in {word[n], right[n]} \ {0} :
            child \in syms[f] /\ parent[child] = n

(***************************************************************************)
(* Iterating visits exactly the registers added and not deleted, each once *)
(* and by name: the parent links that operator++ climbs survive rotations  *)
(* and deletions, and no free list runs through them.                      *)
(***************************************************************************)
IterExact ==
  \A f \in Fun :
    LET seen == Regs(f)
    IN /\ {seen[n] : n \in DOMAIN seen} = syms[f]
       /\ \A n \in 1..(Len(seen) - 1) : name[seen[n]] < name[seen[n + 1]]

(* Looking a name up finds the function's register of that name, and       *)
(* nothing when it has none.                                               *)
FindExact ==
  \A f \in Fun : \A n \in Names[f] \cup Scratch[f] :
    LET found == BstFind(Tree(f), n)
    IN IF found = 0 THEN \A reg \in syms[f] : name[reg] # n
       ELSE found \in syms[f] /\ name[found] = n

(* A register is refused exactly when the function has one of that name;   *)
(* then its tree stays as it is.  No other function is touched.            *)
DuplicatesRefused ==
  [][\A f \in Fun, reg \in Slot : todo = [op |-> "add", fun |-> f, regs |-> <<reg>>] =>
       /\ reg \in syms'[f] <=> \A k \in syms[f] : name[k] # name[reg]
       /\ reg \notin syms'[f] => Regs(f)' = Regs(f)
       /\ \A g \in Fun \ {f} : Regs(g)' = Regs(g)]_vars

(* The trees use the group as its contract asks: whatever they link, they  *)
(* write only to elements that are held.                                   *)
ImplementsStripe == StripeSpec
=============================================================================
