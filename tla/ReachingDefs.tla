---------------------------- MODULE ReachingDefs ----------------------------
(***************************************************************************)
(* Base/reaching_defs.py and its port Base/reaching_defs.cc in the order   *)
(* FunOptBasic runs them on a function: FunComputeReachingDefs,            *)
(* FunPropagateRegs, FunPropagateConsts, the reduction of `lea x = y 0`    *)
(* that FunStrengthReduction does in between, and FunLoadStoreSimplify.    *)
(*                                                                         *)
(* A definition is known by the place <<b, i>> of its instruction, or by a *)
(* bbl it flows into from several predecessors.  Python compares           *)
(* instructions by value (ir.Ins is a dataclass), the port by handle.      *)
(* Constant folding, which needs two constant operands, is left out.       *)
(***************************************************************************)
EXTENDS Naturals, FiniteSets, Sequences, SeqFolds, Bags

CONSTANTS
  Order,      (* the bbls of the function in layout order *)
  Reg,        (* its registers, none bound to a machine register *)
  Mem,        (* memory objects *)
  NoDef,      (* not in the map (py), HandleBottom (cc) *)
  INVALID,    (* ir.INS_INVALID: an operand that is no use of a register *)
  Programs,   (* records of code and edge_out *)
  MaxPath     (* how many bbls the runs that compare programs visit *)

Bbl == ToSet(Order)
First == Head(Order)

Instruction == [opc : STRING, ops : Seq(Reg \cup Mem \cup Nat)]

ASSUME ReachingDefsAssumption ==
  /\ Order \in Seq(Bbl) /\ Order # <<>>
  /\ NoDef \notin Bbl /\ NoDef \notin Bbl \X Nat
  /\ \A b \in Bbl : b \notin Bbl \X Nat
  /\ Programs \subseteq [code : [Bbl -> Seq(Instruction)], edge_out : [Bbl -> Seq(Bbl)]]

(* The operands of the opcodes that the passes look into. *)
OffsetSlot(opc) == IF opc = "st" THEN 2 ELSE 3
WellFormed(ins) ==
  /\ ins.opc = "mov" => Len(ins.ops) = 2
  /\ ins.opc \in {"lea", "lea_mem", "ld", "st"} =>
       Len(ins.ops) = 3 /\ ins.ops[OffsetSlot(ins.opc)] \in Reg \cup Nat
  /\ ins.opc = "lea_mem" => ins.ops[2] \in Mem

(* Unreachable code has been removed: every bbl can be reached. *)
ASSUME ProgramsAssumption ==
  /\ INVALID # NoDef /\ INVALID \notin Bbl /\ INVALID \notin Bbl \X Nat
  /\ Reg \cap Mem = {} /\ Reg \cap Nat = {}
  /\ \A p \in Programs :
       /\ \A b \in Bbl : \A i \in DOMAIN p.code[b] : WellFormed(p.code[b][i])
       /\ \A S \in SUBSET Bbl :
            First \in S /\ (\A b \in S : ToSet(p.edge_out[b]) \subseteq S) => S = Bbl

VARIABLES
  lang,      (* "py" or "cc" *)
  source,    (* code[b][i] = [opc, ops] and edge_out *)
  code,      (* code[b][i] = [opc, ops, defs]: defs is ins.operand_defs *)
  defs_in,   (* per bbl: register -> definition *)
  defs_out,
  active,    (* the worklist, a stack *)
  active_set,
  pc

vars == <<lang, source, code, defs_in, defs_out, active, active_set, pc>>

Places == UNION {{<<b, i>> : i \in DOMAIN source.code[b]} : b \in Bbl}
At(c, h) == c[h[1]][h[2]]
IsIns(d) == d \in Places

(* Operands are registers, memory objects and numbers. *)
NumDefs(opc) == IF opc \in {"st", "st_mem", "pusharg"} THEN 0 ELSE 1
UseSlots(ins) == {n \in DOMAIN ins.ops : n > NumDefs(ins.opc) /\ ins.ops[n] \in Reg}
Defines(ins, r) == NumDefs(ins.opc) = 1 /\ ins.ops[1] = r

-----------------------------------------------------------------------------
Alike(c, p, q) == At(c, p).opc = At(c, q).opc /\ At(c, p).ops = At(c, q).ops

(* x == y while the code is c.  Comparing two instructions in Python       *)
(* compares opcodes, operands and, likewise, operand_defs.                 *)
SameDef(c, x, y) ==
  LET pairs == {p \in Places \X Places : Alike(c, p[1], p[2])}
      equal[n \in Nat] ==
        IF n = 0 THEN pairs
        ELSE LET shallow == equal[n - 1]
             IN {p \in shallow : \A k \in DOMAIN At(c, p[1]).defs :
                   LET d == At(c, p[1]).defs[k]
                       e == At(c, p[2]).defs[k]
                   IN d = e \/ <<d, e>> \in shallow}
  IN \/ x = y
     \/ /\ lang = "py" /\ IsIns(x) /\ IsIns(y)
        /\ Alike(c, x, y) /\ <<x, y>> \in equal[Cardinality(Places)]

-----------------------------------------------------------------------------
(* The solver. *)

(* _BblComputeDefs, BblInitReachingDefs *)
LastDef(c, b, r) ==
  LET i == SelectLastInSubSeq(c[b], 1, Len(c[b]), LAMBDA ins : Defines(ins, r))
  IN IF i = 0 THEN NoDef ELSE <<b, i>>

ReadFirst(body, r) ==
  \E i \in DOMAIN body : /\ \E n \in UseSlots(body[i]) : body[i].ops[n] = r
                         /\ \A j \in 1..(i - 1) : ~Defines(body[j], r)

NewOut_ForgetsIn(b) ==   \* mutant: starts from an empty map
  [r \in Reg |-> LastDef(code, b, r)]

NewOut(b) ==
  [r \in Reg |-> IF LastDef(code, b, r) # NoDef THEN LastDef(code, b, r) ELSE defs_in[b][r]]

Join_Keeps(old, new, top) == IF old = NoDef THEN new ELSE old   \* mutant: no top

Join_Latest(old, new, top) == IF new = NoDef THEN old ELSE new   \* mutant

(* What a bbl takes for a register when a predecessor offers `new`.        *)
Join(old, new, top) ==
  IF new = NoDef THEN old
  ELSE IF old = NoDef THEN new
  ELSE IF SameDef(code, old, new) THEN old ELSE top

(* _MergeReachingDefs reports a change even if the register is top already; *)
(* HandleVecCombineWith does not.                                          *)
Changes(old, new, top) ==
  /\ new # NoDef
  /\ old = NoDef \/ ~SameDef(code, old, new)
  /\ lang = "cc" => old # top

(* Bbls pushed for the edges of b, one by one: by the time a second edge   *)
(* to the same bbl is merged the first has been.                           *)
Pushed(b, out, set) ==
  LET succ == source.edge_out[b]
      now(k, r) == LET old == defs_in[succ[k]][r]
                   IN IF \E j \in 1..(k - 1) : succ[j] = succ[k]
                      THEN Join(old, out[r], succ[k]) ELSE old
      change(k) == /\ \E r \in Reg : Changes(now(k, r), out[r], succ[k])
                   /\ lang = "cc" => succ[k] \notin set
  IN FlattenSeq([k \in DOMAIN succ |-> IF change(k) THEN <<succ[k]>> ELSE <<>>])

Rest(stack) == Front(stack)

(* One iteration of the while loop. *)
Visit ==
  /\ pc = "fixpoint" /\ active # <<>>
  /\ LET b == Last(active)
         out == NewOut(b)
         set == active_set \ {b}
     IN /\ active_set' = set
        /\ IF \A r \in Reg : SameDef(code, out[r], defs_out[b][r])
           THEN /\ active' = Rest(active)
                /\ UNCHANGED <<defs_in, defs_out>>
           ELSE /\ defs_out' = [defs_out EXCEPT ![b] = out]
                /\ defs_in' = [s \in Bbl |->
                     IF Contains(source.edge_out[b], s)
                     THEN [r \in Reg |-> Join(defs_in[s][r], out[r], s)]
                     ELSE defs_in[s]]
                /\ active' = Rest(active) \o Pushed(b, out, set)
  /\ UNCHANGED <<lang, source, code, pc>>

(* A register that may be undefined: the port lets it flow into the bbl.   *)
Settled ==
  [b \in Bbl |-> [r \in Reg |-> IF lang = "cc" /\ defs_in[b][r] = NoDef THEN b
                               ELSE defs_in[b][r]]]

(* The definition that reaches instruction i of b for register r. *)
DefAt(b, i, r) ==
  LET j == SelectLastInSubSeq(code[b], 1, i - 1, LAMBDA ins : Defines(ins, r))
  IN IF j = 0 THEN Settled[b][r] ELSE <<b, j>>

OperandDefs(b, i) ==
  [n \in DOMAIN code[b][i].ops |->
     IF n \in UseSlots(code[b][i]) THEN DefAt(b, i, code[b][i].ops[n]) ELSE INVALID]

(* Step 3; in Python a register that is not in the map is a KeyError.      *)
Publish ==
  /\ pc = "fixpoint" /\ active = <<>>
  /\ defs_in' = Settled
  /\ code' = [b \in Bbl |-> [i \in DOMAIN code[b] |->
                [code[b][i] EXCEPT !.defs = OperandDefs(b, i)]]]
  /\ pc' = IF \E h \in Places : Contains(At(code', h).defs, NoDef)
           THEN "failed" ELSE "regs"
  /\ UNCHANGED <<lang, source, defs_out, active, active_set>>
-----------------------------------------------------------------------------
(* The rewrites.  Each walks over the function in layout order; avail maps *)
(* a register to its definition at the instruction that is looked at.      *)

Layout == FlattenSeq([n \in DOMAIN Order |->
            [i \in DOMAIN code[Order[n]] |-> <<Order[n], i>>]])

Available_Always(st, op, def) == TRUE   \* mutant: the register may have changed

(* The operand still has the value def gave it. *)
Available(st, op, def) ==
  \/ op \notin Reg
  \/ def # INVALID /\ SameDef(st.code, st.avail[op], def)

(* A lookup of a register that is not in the map fails. *)
Looked(st, op) == [st EXCEPT !.ok = @ /\ (op \in Reg => st.avail[op] # NoDef)]

SetOperand(st, h, n, op, def) ==
  [st EXCEPT !.code[h[1]][h[2]] = [@ EXCEPT !.ops[n] = op, !.defs[n] = def]]

(* _BblPropagateRegOperands for operand n of the instruction at h. *)
PropagateReg(st, h, n) ==
  LET mov == At(st.code, h).defs[n]
      copies == IsIns(mov) /\ At(st.code, mov).opc = "mov" /\ At(st.code, mov).ops[2] \in Reg
      src == At(st.code, mov).ops[2]
      def == At(st.code, mov).defs[2]
  IN IF ~copies THEN st
     ELSE IF ~SameDef(st.code, st.avail[src], def) THEN Looked(st, src)
     ELSE SetOperand(Looked(st, src), h, n, src, def)

(* _InsPropagateConsts for operand n of the instruction at h. *)
PropagateConst(st, h, n) ==
  LET mov == At(st.code, h).defs[n]
  IN IF /\ IsIns(mov) /\ At(st.code, mov).opc = "mov"
        /\ At(st.code, mov).ops[2] \notin Reg \cup Mem
     THEN SetOperand(st, h, n, At(st.code, mov).ops[2], INVALID)
     ELSE st

Propagate(pass, st, h, n) ==
  IF pass = "regs" THEN PropagateReg(st, h, n) ELSE PropagateConst(st, h, n)

EachOperand(pass, st, h) ==
  FoldForward(LAMBDA acc, n : Propagate(pass, acc, h, n), st, [n \in DOMAIN At(st.code, h).ops |-> n])

(* _InsStrengthReduction of `lea x = y 0`; Ins.Init clears operand_defs, *)
(* the port leaves them.                                                 *)
ReduceLea(st, h) ==
  LET ins == At(st.code, h)
  IN IF ins.opc # "lea" \/ ins.ops[3] # 0 THEN st
     ELSE [st EXCEPT !.code[h[1]][h[2]] =
             [opc |-> "mov", ops |-> <<ins.ops[1], ins.ops[2]>>,
              defs |-> <<INVALID, IF lang = "py" THEN INVALID ELSE ins.defs[2]>>]]

(* _LOAD_STORE_BASE_REWRITE, NewOPC *)
NewOpc(base, opc) ==
  IF base = "lea_mem"
  THEN IF opc = "ld" THEN "ld_mem" ELSE IF opc = "st" THEN "st_mem" ELSE "lea_mem"
  ELSE opc

(* _CombinedOffset: the offset from base's base, and its definition. *)
Combines(base, o1) == base.opc = "mov" \/ o1 = 0 \/ base.ops[3] = 0 \/ {o1, base.ops[3]} \cap Reg = {}
CombinedOffset(base, o1, def) ==
  IF base.opc = "mov" \/ base.ops[3] = 0 THEN <<o1, def>>
  ELSE IF o1 = 0 THEN <<base.ops[3], base.defs[3]>>
  ELSE <<o1 + base.ops[3], INVALID>>

(* _InsTryLoadStoreSimplify: access what base was computed from. *)
Simplify(st, h) ==
  LET ins == At(st.code, h)
      n == IF ins.opc = "st" THEN 1 ELSE 2
      suits == /\ ins.opc \in {"st", "ld", "lea"} /\ IsIns(ins.defs[n])
               /\ At(st.code, ins.defs[n]).opc \in {"lea_mem", "lea", "mov"}
      base == At(st.code, ins.defs[n])
      root == base.ops[2]
      off == CombinedOffset(base, ins.ops[n + 1], ins.defs[n + 1])
      st1 == IF base.defs[2] = INVALID THEN st ELSE Looked(st, root)
      st2 == IF off[2] = INVALID THEN st1 ELSE Looked(st1, off[1])
      moved == [st2 EXCEPT !.code[h[1]][h[2]].opc = NewOpc(base.opc, ins.opc)]
  IN IF ~suits THEN st
     ELSE IF ~Available(st, root, base.defs[2]) THEN st1
     ELSE IF ~Combines(base, ins.ops[n + 1]) THEN st1
     ELSE IF ~Available(st, off[1], off[2]) THEN st2
     ELSE SetOperand(SetOperand(moved, h, n, root, base.defs[2]), h, n + 1, off[1], off[2])

(* What a pass does with the instruction at h, and what avail is after it. *)
Rewrite(pass, st, h) ==
  IF pass = "reduce" THEN ReduceLea(st, h)
  ELSE IF pass = "simplify" THEN Simplify(st, h) ELSE EachOperand(pass, st, h)

AtPlace(pass, st, h) ==
  LET new == Rewrite(pass, IF h[2] = 1 THEN [st EXCEPT !.avail = defs_in[h[1]]] ELSE st, h)
      ins == At(new.code, h)
  IN IF NumDefs(ins.opc) = 0 THEN new ELSE [new EXCEPT !.avail[ins.ops[1]] = h]

Walk(pass) ==
  FoldForward(LAMBDA st, h : AtPlace(pass, st, h),
              [code |-> code, avail |-> defs_in[First], ok |-> TRUE], Layout)

Rewritten(st, next) ==
  /\ code' = st.code
  /\ pc' = IF st.ok \/ lang = "cc" THEN next ELSE "failed"
  /\ UNCHANGED <<lang, source, defs_in, defs_out, active, active_set>>

FunPropagateRegs ==
  pc = "regs" /\ Rewritten(Walk("regs"), "consts")

FunPropagateConsts ==
  pc = "consts" /\ Rewritten(Walk("consts"), "reduce")

FunStrengthReduction == pc = "reduce" /\ Rewritten(Walk("reduce"), "simplify")

FunLoadStoreSimplify == pc = "simplify" /\ Rewritten(Walk("simplify"), "done")

-----------------------------------------------------------------------------
Init ==
  /\ lang \in {"py", "cc"}
  /\ source \in Programs
  /\ code = [b \in Bbl |-> [i \in DOMAIN source.code[b] |->
               LET ins == source.code[b][i]
               IN [opc |-> ins.opc, ops |-> ins.ops,
                   defs |-> [n \in DOMAIN ins.ops |-> INVALID]]]]
  /\ defs_in = [b \in Bbl |-> [r \in Reg |->
                  IF lang = "py" /\ b = First /\ \E c \in Bbl : ReadFirst(source.code[c], r)
                  THEN First ELSE NoDef]]
  /\ defs_out = [b \in Bbl |-> [r \in Reg |-> NoDef]]
  /\ active = Reverse(Order)
  /\ active_set = IF lang = "cc" THEN Bbl ELSE {}
  /\ pc = "fixpoint"

Next ==
  \/ Visit
  \/ Publish
  \/ FunPropagateRegs
  \/ FunPropagateConsts
  \/ FunStrengthReduction
  \/ FunLoadStoreSimplify

Spec == Init /\ [][Next]_vars

-----------------------------------------------------------------------------
(* Reference definitions. *)

Succ(b) == ToSet(source.edge_out[b])

(* The definitions of r that some path carries to the start of each bbl;   *)
(* NoDef for a path from the start of the function without one.            *)
Reaching(r) ==
  LET own(b) == LastDef(source.code, b, r)
      out(in, b) == IF own(b) # NoDef THEN {own(b)} ELSE in[b]
      within[n \in 0..Cardinality(Bbl)] ==
        IF n = 0 THEN [b \in Bbl |-> IF b = First THEN {NoDef} ELSE {}]
        ELSE [b \in Bbl |-> within[n - 1][b]
                \cup UNION {out(within[n - 1], p) : p \in {q \in Bbl : b \in Succ(q)}}]
  IN within[Cardinality(Bbl)]

SameText(h, g) == At(source.code, h) = At(source.code, g)

(* Sequences of bbls the function may visit, from its start. *)
Paths ==
  LET of[n \in 1..MaxPath] ==
        IF n = 1 THEN {<<First>>}
        ELSE of[n - 1] \cup UNION {{Append(p, b) : b \in Succ(Last(p))} : p \in of[n - 1]}
  IN of[MaxPath]

(* What a run computes.  A value is a sum: unknown terms and a number.     *)
(* Every load and every argument is a new unknown.                         *)
Unknown(x) == [terms |-> SetToBag({x}), num |-> 0]
Number(k) == [terms |-> EmptyBag, num |-> k]
Sum2(v, w) == [terms |-> v.terms (+) w.terms, num |-> v.num + w.num]
Value(env, x) ==
  IF x \in Reg THEN env[x] ELSE IF x \in Mem THEN Unknown(x) ELSE Number(x)

(* t is the time; log collects the addresses and values that are used.     *)
Execute(st, ins, t) ==
  LET v(n) == Value(st.env, ins.ops[n])
      define(val) == [st EXCEPT !.env[ins.ops[1]] = val]
      use(val) == [st EXCEPT !.log = Append(@, val)]
  IN CASE ins.opc = "poparg" -> define(Unknown(<<t>>))
       [] ins.opc = "mov" -> define(v(2))
       [] ins.opc \in {"lea", "lea_mem"} -> define(Sum2(v(2), v(3)))
       [] ins.opc \in {"ld", "ld_mem"} ->
            [define(Unknown(<<t>>)) EXCEPT !.log = Append(@, Sum2(v(2), v(3)))]
       [] ins.opc \in {"st", "st_mem"} -> use(<<Sum2(v(1), v(2)), v(3)>>)
       [] ins.opc = "pusharg" -> use(v(1))

Log(c, path) ==
  LET trace == FlattenSeq([n \in DOMAIN path |-> c[path[n]]])
      start == [env |-> [r \in Reg |-> Unknown(<<r>>)], log |-> <<>>]
  IN FoldLeft(LAMBDA st, t : Execute(st, trace[t], t), start, [t \in DOMAIN trace |-> t]).log

-----------------------------------------------------------------------------
Definition == Places \cup Bbl \cup {NoDef}

TypeOK ==
  /\ lang \in {"py", "cc"} /\ source \in Programs
  /\ defs_in \in [Bbl -> [Reg -> Definition]]
  /\ defs_out \in [Bbl -> [Reg -> Definition]]
  /\ active \in Seq(Bbl) /\ active_set \subseteq ToSet(active)
  /\ \A h \in Places : /\ Len(At(code, h).defs) = Len(At(code, h).ops)
                       /\ ToSet(At(code, h).defs) \subseteq Places \cup Bbl \cup {INVALID}

(***************************************************************************)
(* FunCheckReachingDefs and the lookups of the passes never fail: every    *)
(* register that is read, or that a read is replaced by, has a definition. *)
(***************************************************************************)
NoLookupFails == pc # "failed"

(***************************************************************************)
(* A use is given an instruction exactly when all definitions that reach   *)
(* it on some path are that instruction (for Python: are written alike),   *)
(* whatever the order in which the worklist visits the bbls.  In the port  *)
(* an undefined value that meets another becomes the other; in Python it   *)
(* is one of its own.                                                      *)
(***************************************************************************)
DefsExact ==
  pc = "regs" =>
    \A h \in Places : \A n \in UseSlots(At(code, h)) :
      LET r == At(code, h).ops[n]
          def == At(code, h).defs[n]
          before == {g \in Places : g[1] = h[1] /\ g[2] < h[2] /\ Defines(At(code, g), r)}
          reach == Reaching(r)[h[1]]
          known == reach \ {NoDef}
          agree == \A g, k \in known : g = k \/ (lang = "py" /\ SameText(g, k))
          single == known # {} /\ agree /\ (lang = "py" => known = reach)
      IN IF before # {} THEN def \in before /\ \A g \in before : g[2] <= def[2]
         ELSE IF single THEN def \in known ELSE def \in Bbl

(* A load or an argument that occurs twice: alike, but another value.      *)
HasTwins ==
  \E h, g \in Places : h # g /\ SameText(h, g) /\ At(source.code, h).opc \in {"poparg", "ld"}

(* A bbl reads a register that no definition on some path has written.    *)
ReadsUndefined ==
  \E b \in Bbl, r \in Reg : ReadFirst(source.code[b], r) /\ NoDef \in Reaching(r)[b]

Preserved == \A path \in Paths : Log(code, path) = Log(source.code, path)

(***************************************************************************)
(* The rewrites keep what every run uses, addresses and values, although   *)
(* the definitions they rely on were computed once, before all of them.    *)
(* In Python this needs that no load or argument occurs twice, in the port *)
(* that no undefined value is read.                                        *)
(***************************************************************************)
MeaningPreserved ==
  /\ pc = "done"
  /\ lang = "py" => ~HasTwins
  /\ lang = "cc" => ~ReadsUndefined
  => Preserved

(***************************************************************************)
(* The comment on REG_DEF_MAP: "an entry with value of type ir.Ins         *)
(* indicated that the reg is defined by the instruction pointed to".  The  *)
(* rewrites then never replace a register by one that has been redefined.  *)
(***************************************************************************)
PointedToDefines == pc = "done" /\ lang = "py" => Preserved

Rank(b, d) == IF d = NoDef THEN 0 ELSE IF d = b THEN 2 ELSE 1

(***************************************************************************)
(* Why the worklist runs empty, although Python pushes a bbl for every     *)
(* change, one of the top to the top included, and keeps duplicates: a     *)
(* visit that does not shorten it moves what leaves a bbl towards the top. *)
(***************************************************************************)
VisitsProgress ==
  [][pc = "fixpoint" /\ pc' = "fixpoint" =>
       \/ defs_out' = defs_out /\ defs_in' = defs_in /\ Len(active') < Len(active)
       \/ /\ defs_out' # defs_out
          /\ \A b \in Bbl, r \in Reg :
               \/ defs_out'[b][r] = defs_out[b][r]
               \/ Rank(b, defs_out[b][r]) < Rank(b, defs_out'[b][r])]_vars
=============================================================================
