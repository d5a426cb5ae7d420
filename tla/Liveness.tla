------------------------------ MODULE Liveness ------------------------------
(***************************************************************************)
(* Base/liveness.py and its C++ port Base/liveness.cc:                     *)
(* FunComputeLivenessInfo followed by FunRemoveUselessInstructions on one  *)
(* function.  The two agree but for the solver's loop: the port keeps a    *)
(* set of active bbls beside the stack, to which a bbl pushed again is not *)
(* returned, so the stack may hold a bbl several times; and it never       *)
(* stores BblLiveIn, so it skips a bbl only when that needs nothing.       *)
(*                                                                         *)
(* An instruction is abstracted to what the pass looks at: the registers   *)
(* it writes and reads, the registers a call returns its results in        *)
(* (callee.cpu_live_out), and whether it has a side effect.                *)
(***************************************************************************)
EXTENDS FiniteSets, SeqFolds

CONSTANTS
  Order,     (* fun.bbls: the bbls in layout order, each once, at least one *)
  Reg,       (* fun.regs                                                    *)
  Bodies,    (* the instruction sequences a bbl may hold, of Seq(Ins)       *)
  Cfgs       (* the edge_in functions it may have, of [Bbls -> Seq(Bbls)]   *)

Bbls == ToSet(Order)
(* Only calls return results, and OAS_SIDE_EFFECT holds of every call. *)
Ins == {ins \in [def : SUBSET Reg, use : SUBSET Reg, res : SUBSET Reg, effect : BOOLEAN] :
          ins.res # {} => ins.effect}

ASSUME Shape ==
  /\ Order \in Seq(Bbls) /\ IsInjective(Order)
  /\ IsFiniteSet(Reg)
  /\ Bodies \subseteq Seq(Ins)
  /\ Cfgs \subseteq [Bbls -> Seq(Bbls)]

VARIABLES
  lang,      (* "py" or "cc": which of the two runs                         *)
  prog,      (* prog[b]: the instructions of b when the pass starts         *)
  edge_in,   (* edge_in[b]: list of predecessors, repeated for double edges *)
  liveness,  (* all_liveness: live_def, live_use, live_in, live_out per bbl *)
  active,    (* the worklist, a stack                                       *)
  active_set,(* the set the port keeps beside it                            *)
  inss,      (* inss[b]: positions in prog[b] of the instructions b has now *)
  todo,      (* bbls FunRemoveUselessInstructions has still to rewrite      *)
  pc

vars == <<lang, prog, edge_in, liveness, active, active_set, inss, todo, pc>>

Positions(b) == [i \in 1..Len(prog[b]) |-> i]

-----------------------------------------------------------------------------
(* _InsUpdateDefUse: walking backwards, account for one more instruction. *)
InsUpdateDefUse(du, ins) ==
  [def |-> du.def \cup ins.res \cup ins.def,
   use |-> (du.use \ (ins.res \cup ins.def)) \cup ins.use]

(* _BblDefUse *)
BblDefUse(b) ==
  FoldBackward(InsUpdateDefUse, [def |-> {}, use |-> {}], prog[b])

NewLiveness(b) ==
  [live_def |-> BblDefUse(b).def, live_use |-> BblDefUse(b).use,
   live_in |-> {}, live_out |-> {}]

ComputeDefUse ==
  /\ pc = "def_use"
  /\ liveness' = [b \in Bbls |-> NewLiveness(b)]
  /\ active' = Order
  /\ active_set' = IF lang = "cc" THEN Bbls ELSE {}
  /\ pc' = "fixpoint"
  /\ UNCHANGED <<lang, prog, edge_in, inss, todo>>

-----------------------------------------------------------------------------
NewLiveIn_KillsOwnUses(b) ==   \* mutant: the write wins over the read
  (liveness[b].live_out \cup liveness[b].live_use) \ liveness[b].live_def

NewLiveIn(b) ==
  (liveness[b].live_out \ liveness[b].live_def) \cup liveness[b].live_use

NothingNew_OffByOne(new, old) == Cardinality(new) <= Cardinality(old) + 1  \* mutant

(* len(live_in) <= len(liveness.live_in) *)
NothingNew(new, old) == Cardinality(new) <= Cardinality(old)

Rest_Peeks(stack) == stack   \* mutant: the top is read but not popped

(* active.pop(-1) *)
Rest(stack) == Front(stack)

MergeIntoPred_Overwrites(st, p, live_in) ==   \* mutant: it forgets its other successors
  LET grow == ~(live_in \subseteq st.liveness[p].live_out)
  IN  [liveness |-> [st.liveness EXCEPT ![p].live_out = live_in],
       active |-> IF grow /\ ~Contains(st.active, p)
                  THEN Append(st.active, p) ELSE st.active]

(* One round of the `for pred in bbl.edge_in` loop. *)
MergeIntoPred(st, p, live_in) ==
  LET out == st.liveness[p].live_out \cup live_in
      grew == Cardinality(out) > Cardinality(st.liveness[p].live_out)
  IN  [liveness |-> [st.liveness EXCEPT ![p].live_out = out],
       active |-> IF grew /\ ~Contains(st.active, p)
                  THEN Append(st.active, p) ELSE st.active]

MergeIntoPreds(st, preds, live_in) ==
  FoldForward(LAMBDA acc, p : MergeIntoPred(acc, p, live_in), st, preds)

(* One iteration of the while loop of _FunLivenessFixpoint. *)
Visit ==
  /\ lang = "py" /\ pc = "fixpoint" /\ active # <<>>
  /\ LET b == Last(active)
         rest == Rest(active)
         live_in == NewLiveIn(b)
     IN IF NothingNew(live_in, liveness[b].live_in)
        THEN active' = rest /\ UNCHANGED liveness
        ELSE LET st == MergeIntoPreds([liveness |-> [liveness EXCEPT ![b].live_in = live_in],
                                       active |-> rest],
                                      edge_in[b], live_in)
             IN liveness' = st.liveness /\ active' = st.active
  /\ UNCHANGED <<lang, prog, edge_in, active_set, inss, todo, pc>>

(* One round of the port's BblPredEdgIter loop; set is without the bbl     *)
(* being visited and does not change within the loop.                      *)
MergeIntoPredCC(st, p, live, set) ==
  LET out == st.liveness[p].live_out \cup live
  IN  [liveness |-> [st.liveness EXCEPT ![p].live_out = out],
       active |-> IF out = st.liveness[p].live_out \/ p \in set
                  THEN st.active ELSE Append(st.active, p)]

MergeIntoPredsCC(st, preds, live, set) ==
  FoldForward(LAMBDA acc, p : MergeIntoPredCC(acc, p, live, set), st, preds)

VisitCC_ErasesTooLate ==   \* mutant: the bbl leaves the set after the loop
  /\ lang = "cc" /\ pc = "fixpoint" /\ active # <<>>
  /\ LET b == Last(active)
         live == NewLiveIn(b)
         st == MergeIntoPredsCC([liveness |-> liveness, active |-> Front(active)],
                                IF live = liveness[b].live_in THEN <<>> ELSE edge_in[b],
                                live, active_set)
     IN /\ liveness' = st.liveness
        /\ active' = st.active
        /\ active_set' = active_set \ {b}
  /\ UNCHANGED <<lang, prog, edge_in, inss, todo, pc>>

(* One iteration of the while loop of FunLivenessFixpoint in the port. *)
VisitCC ==
  /\ lang = "cc" /\ pc = "fixpoint" /\ active # <<>>
  /\ LET b == Last(active)
         live == NewLiveIn(b)
         set == active_set \ {b}
         st == MergeIntoPredsCC([liveness |-> liveness, active |-> Front(active)],
                                IF live = liveness[b].live_in THEN <<>> ELSE edge_in[b],
                                live, set)
     IN /\ liveness' = st.liveness
        /\ active' = st.active
        /\ active_set' = set
  /\ UNCHANGED <<lang, prog, edge_in, inss, todo, pc>>

FixpointReached ==
  /\ pc = "fixpoint" /\ active = <<>>
  /\ pc' = "remove"
  /\ todo' = Order
  /\ UNCHANGED <<lang, prog, edge_in, liveness, active, active_set, inss>>

-----------------------------------------------------------------------------
InsUpdateLiveness_UsesFirst(st, ins, i) ==   \* mutant: reads added before kills
  LET live == st.live \ ins.res
      is_live == ins.effect \/ ins.def \cap live # {}
  IN  [live |-> (live \cup (IF is_live THEN ins.use ELSE {})) \ ins.def,
       keep |-> IF is_live THEN Append(st.keep, i) ELSE st.keep]

(* _InsUpdateLiveness: st.live is the set of live registers, st.keep the   *)
(* positions kept so far, last first; i is the next position backwards.    *)
InsUpdateLiveness(st, ins, i) ==
  LET live == st.live \ ins.res
      is_live == ins.effect \/ ins.def \cap live # {}
  IN  [live |-> (live \ ins.def) \cup (IF is_live THEN ins.use ELSE {}),
       keep |-> IF is_live THEN Append(st.keep, i) ELSE st.keep]

(* The loop of _BblRemoveUselessInstructions over the instructions of b. *)
ScanBackwards(b) ==
  FoldBackward(LAMBDA st, i : InsUpdateLiveness(st, prog[b][i], i),
               [live |-> liveness[b].live_out, keep |-> <<>>], inss[b])

BblRemoveUselessInstructions(b) ==
  /\ pc = "remove" /\ todo # <<>> /\ b = Head(todo)
  /\ inss' = [inss EXCEPT ![b] = Reverse(ScanBackwards(b).keep)]
  /\ todo' = Tail(todo)
  /\ UNCHANGED <<lang, prog, edge_in, liveness, active, active_set, pc>>

Finish ==
  /\ pc = "remove" /\ todo = <<>>
  /\ pc' = "done"
  /\ UNCHANGED <<lang, prog, edge_in, liveness, active, active_set, inss, todo>>

-----------------------------------------------------------------------------
Init ==
  /\ lang \in {"py", "cc"}
  /\ prog \in [Bbls -> Bodies]
  /\ edge_in \in Cfgs
  /\ liveness = [b \in Bbls |-> [live_def |-> {}, live_use |-> {},
                                live_in |-> {}, live_out |-> {}]]
  /\ active = <<>>
  /\ active_set = {}
  /\ inss = [b \in Bbls |-> Positions(b)]
  /\ todo = <<>>
  /\ pc = "def_use"

Next ==
  \/ ComputeDefUse
  \/ Visit
  \/ VisitCC
  \/ FixpointReached
  \/ \E b \in Bbls : BblRemoveUselessInstructions(b)
  \/ Finish

Spec == Init /\ [][Next]_vars
(* Both passes run to completion on one thread. *)
FairSpec == Spec /\ WF_vars(Next)

-----------------------------------------------------------------------------
(* Reference definitions, read off the program's paths and not its code.   *)

Succ(b) == {s \in Bbls : Contains(edge_in[s], b)}

Writes(ins) == ins.def \cup ins.res

ReadBeforeWritten(b, r) ==
  \E i \in DOMAIN prog[b] : /\ r \in prog[b][i].use
                            /\ \A j \in 1..(i - 1) : r \notin Writes(prog[b][j])

WrittenIn(b, r) == \E i \in DOMAIN prog[b] : r \in Writes(prog[b][i])

(* The bbls on whose entry the value of r may still be read. *)
ReadFrom(r) ==
  LET within[n \in 0..Cardinality(Bbls)] ==
        IF n = 0
        THEN {b \in Bbls : ReadBeforeWritten(b, r)}
        ELSE within[n - 1] \cup {b \in Bbls : /\ ~WrittenIn(b, r)
                                             /\ Succ(b) \cap within[n - 1] # {}}
  IN within[Cardinality(Bbls)]

LiveAtEnd(b) == {r \in Reg : Succ(b) \cap ReadFrom(r) # {}}

(* The value instruction i of b writes to r reaches the end of b. *)
SurvivesBbl(b, i, r) == \A j \in (i + 1)..Len(prog[b]) : r \notin Writes(prog[b][j])

(* The bbls the value in r at the end of b may reach the start of. *)
Reached(b, r) ==
  LET within[n \in 0..Cardinality(Bbls)] ==
        IF n = 0
        THEN Succ(b)
        ELSE within[n - 1]
               \cup UNION {Succ(c) : c \in {d \in within[n - 1] : ~WrittenIn(d, r)}}
  IN within[Cardinality(Bbls)]

(* Instruction k of c may read the value that instruction i of b wrote to r. *)
MayRead(c, k, b, i, r) ==
  /\ r \in prog[c][k].use
  /\ \/ c = b /\ i < k /\ \A j \in (i + 1)..(k - 1) : r \notin Writes(prog[b][j])
     \/ /\ SurvivesBbl(b, i, r)
        /\ c \in Reached(b, r)
        /\ \A j \in 1..(k - 1) : r \notin Writes(prog[c][j])

-----------------------------------------------------------------------------
TypeOK ==
  /\ lang \in {"py", "cc"}
  /\ prog \in [Bbls -> Bodies]
  /\ edge_in \in Cfgs
  /\ liveness \in [Bbls -> [live_def : SUBSET Reg, live_use : SUBSET Reg,
                           live_in : SUBSET Reg, live_out : SUBSET Reg]]
  /\ active \in Seq(Bbls)
  /\ lang = "py" => IsInjective(active)
  /\ active_set \subseteq ToSet(active)
  /\ inss \in [Bbls -> Seq(Nat)]
  /\ \A b \in Bbls : ToSet(inss[b]) \subseteq DOMAIN prog[b]
  /\ todo \in Seq(Bbls)
  /\ pc \in {"def_use", "fixpoint", "remove", "done"}

(***************************************************************************)
(* What the solver's loop maintains, in both languages: live_in is what b  *)
(* has handed to its predecessors (Python) or unused (the port), live_def  *)
(* and live_use describe the code, and nothing is live before the loop.    *)
(***************************************************************************)
IInv ==
  /\ TypeOK
  /\ \A b \in Bbls :
       LET l == liveness[b]
       IN /\ l.live_in \subseteq NewLiveIn(b)
          /\ \A p \in ToSet(edge_in[b]) : l.live_in \subseteq liveness[p].live_out
          /\ lang = "cc" => l.live_in = {}
          /\ IF pc = "def_use" THEN l.live_out = {}
             ELSE l.live_def = BblDefUse(b).def /\ l.live_use = BblDefUse(b).use

(* The variables of LivenessSolver as those of the code. *)
Solver == INSTANCE LivenessSolver WITH
  Bbl <- Bbls,
  pred <- [b \in Bbls |-> ToSet(edge_in[b])],
  live_def <- [b \in Bbls |-> BblDefUse(b).def],
  live_use <- [b \in Bbls |-> BblDefUse(b).use],
  live_out <- [b \in Bbls |-> liveness[b].live_out],
  active <- IF pc = "def_use" THEN Bbls ELSE ToSet(active)

(***************************************************************************)
(* Every iteration of the worklist loop, the skips, the double edges and   *)
(* the port's duplicates included, is one visit of LivenessSolver or       *)
(* changes nothing it sees; so both compute the same sets.                 *)
(***************************************************************************)
ImplementsSolver == Solver!Spec

(***************************************************************************)
(* When the worklist of either language is empty, live_out is the least    *)
(* solution of the liveness equations.                                     *)
(***************************************************************************)
LeastSolutionAtEnd == Solver!LeastSolutionAtEnd

(***************************************************************************)
(* FunComputeLivenessInfo: the live_out it leaves is exactly the set of    *)
(* registers some path from the end of the bbl reads before writing.       *)
(***************************************************************************)
LivenessExact ==
  pc = "done" => \A b \in Bbls : liveness[b].live_out = LiveAtEnd(b)

(***************************************************************************)
(* FunRemoveUselessInstructions: no instruction that stays can read a      *)
(* value whose writer was removed, side effects stay, and the order of     *)
(* what stays is the original one.                                         *)
(***************************************************************************)
RemovalKeepsWhatIsRead ==
  pc = "done" =>
    \A b \in Bbls :
      /\ \A i \in DOMAIN prog[b] \ ToSet(inss[b]) :
           /\ ~prog[b][i].effect
           /\ \A r \in prog[b][i].def, c \in Bbls : \A k \in ToSet(inss[c]) :
                ~MayRead(c, k, b, i, r)
      /\ \A i, j \in DOMAIN inss[b] : i < j => inss[b][i] < inss[b][j]

(***************************************************************************)
(* Both passes terminate in both languages: the worklist runs empty on     *)
(* every program, loops included, although the set that keeps duplicates   *)
(* off the port's stack goes stale.                                        *)
(***************************************************************************)
Terminates == <>(pc = "done")
=============================================================================
