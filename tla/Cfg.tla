-------------------------------- MODULE Cfg --------------------------------
(***************************************************************************)
(* Base/cfg.py as the optimizer drives it (FunCfgInit, FunCfgExit): from   *)
(* linear code to a control-flow graph without branch instructions, and    *)
(* back.  In between, other passes drop instructions and fold branches.    *)
(*                                                                         *)
(* bbls are numbered in the order of their creation.  An instruction is a  *)
(* record whose field k is its kind; a jtb (jump table) may be shared by   *)
(* several switches.                                                       *)
(***************************************************************************)
EXTENDS Integers, Sequences, FiniteSets, SeqFolds

CONSTANTS
  Name,        (* instructions other than branches have one              *)
  Functions,   (* the functions the pass may be given: [bbls, inss, jtb] *)
  Orders,      (* how the operands of a conditional branch may compare   *)
  MaxEdits     (* bound: instructions other passes take away             *)

ASSUME OrdersAssumption == Orders \subseteq {"lt", "eq", "gt"} /\ MaxEdits \in Nat

(* Conditional branches: what they test, and their inversion. *)
Mirror == [lt |-> "gt", eq |-> "eq", gt |-> "lt"]
TakenWhen == [beq |-> {"eq"}, bne |-> {"lt", "gt"}, blt |-> {"lt"}, ble |-> {"lt", "eq"}]

BranchInversion ==
  [beq |-> [op |-> "bne", flip |-> FALSE], bne |-> [op |-> "beq", flip |-> FALSE],
   ble |-> [op |-> "blt", flip |-> TRUE], blt |-> [op |-> "ble", flip |-> TRUE]]

(* Instructions of a function with bbls B and jump tables J; bra, cond and *)
(* switch are terminators.                                                 *)
Instruction(B, J) ==
  [k : {"plain", "ret"}, id : Name]
    \cup [k : {"bra"}, to : B]
    \cup [k : {"cond"}, id : Name, op : DOMAIN BranchInversion, swapped : BOOLEAN, to : B]
    \cup [k : {"switch"}, id : Name, jtb : J]
JumpTable(B) == [def : B, tab : Seq(B)]

(* A function refers to its own bbls and jump tables, and its layout names *)
(* each bbl once.                                                          *)
ASSUME FunctionsAssumption ==
  \A f \in Functions :
    LET B == DOMAIN f.inss
    IN /\ f.jtb \in [DOMAIN f.jtb -> JumpTable(B)]
       /\ f.inss \in Seq(Seq(Instruction(B, DOMAIN f.jtb)))
       /\ f.bbls \in Seq(B) /\ IsInjective(f.bbls) /\ ToSet(f.bbls) = B

VARIABLES
  fun,      (* bbls: the layout; inss, edge_out, edge_in: per bbl; jtb *)
  pc,
  source,   (* history: what the function meant when the passes began *)
  dropped   (* history: outcome by which each removed instruction goes *)

vars == <<fun, pc, source, dropped>>

IsTerminator(ins) == ins.k \in {"ret", "bra", "cond", "switch"}
HasFallthrough(ins) == ins.k \in {"plain", "cond"}

Inss(f, b) == f.inss[b]

(* A bbl of its own for each list of instructions; the last one's number. *)
NewBbls(f, lists) ==
  LET no_edges == [n \in DOMAIN lists |-> <<>>]
  IN [f EXCEPT !.inss = @ \o lists, !.edge_out = @ \o no_edges, !.edge_in = @ \o no_edges]
Newest(f) == Len(f.inss)

(* How often e is in seq, and seq without it. *)
Times(seq, e) == Cardinality({n \in DOMAIN seq : seq[n] = e})
Without(seq, e) ==
  FoldForward(LAMBDA acc, x : IF x = e THEN acc ELSE Append(acc, x), <<>>, seq)

AddEdgeOut(f, b, succ) ==
  [f EXCEPT !.edge_in[succ] = Append(@, b), !.edge_out[b] = Append(@, succ)]

DelEdgeOut(f, b, succ) ==
  [f EXCEPT !.edge_in[succ] = RemoveFirst(@, b), !.edge_out[b] = RemoveFirst(@, succ)]

ReplaceEdgeOut_OnlyIn(f, b, old, new) ==   \* mutant: old keeps b among its predecessors
  [f EXCEPT !.edge_out[b] = ReplaceAll(@, old, new),
            !.edge_in[new] = @ \o [n \in 1..Times(f.edge_out[b], old) |-> b]]

ReplaceEdgeOut_First(f, b, old, new) ==   \* mutant: only one of two like edges
  IF Contains(f.edge_out[b], old)
  THEN [f EXCEPT !.edge_out[b] = ReplaceAt(@, SelectInSeq(@, LAMBDA s : s = old), new),
                 !.edge_in[old] = RemoveFirst(@, b), !.edge_in[new] = Append(@, b)]
  ELSE f

(* Every edge from b to old goes to new; their number stays the same. *)
ReplaceEdgeOut(f, b, old, new) ==
  LET moved == [n \in 1..Times(f.edge_out[b], old) |-> b]
      left == [f.edge_in EXCEPT ![old] = Without(@, b)]
  IN [f EXCEPT !.edge_out[b] = ReplaceAll(@, old, new),
               !.edge_in = [left EXCEPT ![new] = @ \o moved]]

-----------------------------------------------------------------------------
RemoveUnreachableIns(inss) ==
  LET stop == SelectInSeq(inss, LAMBDA ins : ins.k \in {"ret", "bra"})
  IN IF stop = 0 THEN inss ELSE SubSeq(inss, 1, stop)

(* The pieces of a bbl: all but the last end with a terminator. *)
CutBehind(inss, acc, n) ==
  IF n < Len(inss) /\ IsTerminator(inss[n])
  THEN [out |-> Append(acc.out, SubSeq(inss, acc.last, n)), last |-> n + 1]
  ELSE acc
Cuts(inss) ==
  FoldForward(LAMBDA acc, n : CutBehind(inss, acc, n), [out |-> <<>>, last |-> 1],
              [n \in DOMAIN inss |-> n])
SubRanges(inss) ==
  LET cut == Cuts(inss) IN Append(cut.out, SubSeq(inss, cut.last, Len(inss)))

SplitBbl(f, b) ==
  LET parts == SubRanges(RemoveUnreachableIns(Inss(f, b)))
      new == Tail(parts)
      split == NewBbls([f EXCEPT !.inss[b] = Head(parts)], new)
  IN [split EXCEPT !.bbls = @ \o <<b>> \o [n \in DOMAIN new |-> Newest(f) + n]]

SplitBbls(f) == FoldForward(SplitBbl, [f EXCEPT !.bbls = <<>>], f.bbls)

FunSplitBbls ==
  /\ pc = "linear"
  /\ fun' = SplitBbls(fun)
  /\ pc' = "split"
  /\ UNCHANGED <<source, dropped>>

-----------------------------------------------------------------------------
(* Where an instruction, or the last one of b, may jump.  A switch goes to *)
(* its default or to an entry of its table.                                *)
InsTargets(f, ins) ==
  IF ins.k \in {"bra", "cond"} THEN <<ins.to>>
  ELSE IF ins.k = "switch" THEN <<f.jtb[ins.jtb].def>> \o f.jtb[ins.jtb].tab
  ELSE <<>>

Targets(f, b) == IF Inss(f, b) = <<>> THEN <<>> ELSE InsTargets(f, Last(Inss(f, b)))

FallsThrough(f, b) == Inss(f, b) = <<>> \/ HasFallthrough(Last(Inss(f, b)))

AddTargets(f, b) == FoldForward(LAMBDA h, succ : AddEdgeOut(h, b, succ), f, Targets(f, b))

InitBbl(st, b) ==
  LET g == IF st.fall_through = {} THEN st.f
           ELSE AddEdgeOut(st.f, CHOOSE p \in st.fall_through : TRUE, b)
  IN [f |-> AddTargets(g, b), fall_through |-> IF FallsThrough(g, b) THEN {b} ELSE {}]

InitBbls(f) == FoldForward(InitBbl, [f |-> f, fall_through |-> {}], f.bbls)

(* A last bbl that falls through is dropped, and must be empty. *)
FunInitCFG ==
  /\ pc = "split"
  /\ LET st == InitBbls(fun)
     IN IF st.fall_through = {} THEN fun' = st.f /\ pc' = "edges"
        ELSE IF Inss(fun, Last(fun.bbls)) # <<>> THEN fun' = st.f /\ pc' = "init_failed"
        ELSE fun' = [st.f EXCEPT !.bbls = Front(@)] /\ pc' = "edges"
  /\ UNCHANGED <<source, dropped>>

FunRemoveUnconditionalBranches ==
  /\ pc = "edges"
  /\ fun' = [fun EXCEPT !.inss =
       [b \in DOMAIN @ |-> IF /\ Contains(fun.bbls, b) /\ @[b] # <<>>
                              /\ Last(@[b]).k = "bra"
                           THEN Front(@[b]) ELSE @[b]]]
  /\ pc' = "no_bra"
  /\ UNCHANGED <<source, dropped>>

-----------------------------------------------------------------------------
Forward(to, old, new) == IF to = old THEN new ELSE to

(* The last instruction of b, or its jump table, goes to new and not old. *)
InsMaybePatchNewSuccessor(f, b, old, new) ==
  LET ins == Last(Inss(f, b))
      patched == [ins EXCEPT !.to = Forward(@, old, new)]
  IN IF ins.k \in {"bra", "cond"} THEN [f EXCEPT !.inss[b] = Append(Front(@), patched)]
     ELSE IF ins.k = "switch"
     THEN [f EXCEPT !.jtb[ins.jtb] = [def |-> Forward(@.def, old, new),
                                      tab |-> ReplaceAll(@.tab, old, new)]]
     ELSE f

Bypass(f, pred, b, succ) ==
  LET g == IF Inss(f, pred) = <<>> THEN f ELSE InsMaybePatchNewSuccessor(f, pred, b, succ)
  IN ReplaceEdgeOut(g, pred, b, succ)

BypassAll(f, b, succ) ==
  FoldForward(LAMBDA h, pred : Bypass(h, pred, b, succ), f, SetToSeq(ToSet(f.edge_in[b])))

(* One round of the loop.  Each predecessor is handled once. *)
RemoveEmptyBbl(f, b) ==
  IF Inss(f, b) # <<>> THEN [f EXCEPT !.bbls = Append(@, b)]
  ELSE LET succ == f.edge_out[b][1]
       IN BypassAll(DelEdgeOut(f, b, succ), b, succ)

RemoveEmptyBbls(f) == FoldForward(RemoveEmptyBbl, [f EXCEPT !.bbls = <<>>], f.bbls)

(* An empty entry bbl is refused ("NYI"). *)
FunRemoveEmptyBbls ==
  /\ pc = "no_bra"
  /\ IF Inss(fun, fun.bbls[1]) = <<>>
     THEN pc' = "init_failed" /\ UNCHANGED fun
     ELSE /\ fun' = RemoveEmptyBbls(fun)
          /\ pc' = "no_empty"
  /\ UNCHANGED <<source, dropped>>

-----------------------------------------------------------------------------
(* sanity.FunCheckCFG *)
EdgesStayInside(f) ==
  \A b \in ToSet(f.bbls) :
    ToSet(f.edge_out[b]) \cup ToSet(f.edge_in[b]) \subseteq ToSet(f.bbls)

LastInsOK(f, n, check_fallthroughs) ==
  LET b == f.bbls[n]
      out == f.edge_out[b]
      mirrored == \A s \in ToSet(out) : Contains(f.edge_in[s], b)
      next == IF n < Len(f.bbls) THEN {f.bbls[n + 1]} ELSE {}
      kind == IF Inss(f, b) = <<>> THEN "none" ELSE Last(Inss(f, b)).k
  IN /\ kind = "cond" =>
          /\ Len(out) = 2 /\ mirrored /\ Contains(out, Last(Inss(f, b)).to)
          /\ check_fallthroughs => next \cap ToSet(out) # {}
     /\ kind = "bra" => Len(out) = 1 /\ mirrored /\ out[1] = Last(Inss(f, b)).to
     /\ kind = "ret" => out = <<>>
     /\ kind \in {"none", "plain"} =>
          /\ Len(out) = 1 /\ mirrored
          /\ check_fallthroughs /\ kind = "plain" => next = {out[1]}

FunCheckCFG(f, check_fallthroughs) ==
  /\ EdgesStayInside(f)
  /\ \A b \in ToSet(f.bbls) : \A n \in 1..(Len(Inss(f, b)) - 1) : ~IsTerminator(Inss(f, b)[n])
  /\ \A n \in DOMAIN f.bbls : LastInsOK(f, n, check_fallthroughs)

CheckAfterInit ==
  /\ pc = "no_empty"
  /\ pc' = IF FunCheckCFG(fun, FALSE) THEN "cfg" ELSE "init_failed"
  /\ UNCHANGED <<fun, source, dropped>>

-----------------------------------------------------------------------------
Taken(ins, order) == (IF ins.swapped THEN Mirror[order] ELSE order) \in TakenWhen[ins.op]

InsFlipCondBra_KeepsOperands(ins, new_target) ==   \* mutant: ble becomes blt, unswapped
  [ins EXCEPT !.to = new_target, !.op = BranchInversion[@].op]

InsFlipCondBra(ins, new_target) ==
  LET inversion == BranchInversion[ins.op]
  IN [ins EXCEPT !.to = new_target, !.op = inversion.op,
                 !.swapped = IF inversion.flip THEN ~@ ELSE @]

(* Other passes: a useless instruction goes (liveness.py, lowering.py), or *)
(* a branch on constants, with the edge it never takes (reaching_defs.py). *)
DropIns(b, n) ==
  /\ pc = "cfg" /\ Cardinality(DOMAIN dropped) < MaxEdits
  /\ fun.inss[b][n].k = "plain"
  /\ fun' = [fun EXCEPT !.inss[b] = RemoveAt(@, n)]
  /\ dropped' = dropped @@ (fun.inss[b][n].id :> "next")
  /\ UNCHANGED <<pc, source>>

FoldCondBra(b, order) ==
  /\ pc = "cfg" /\ Cardinality(DOMAIN dropped) < MaxEdits
  /\ fun.inss[b] # <<>>
  /\ LET ins == Last(fun.inss[b])
         out == fun.edge_out[b]
         drop == IF ~Taken(ins, order) THEN ins.to
                 ELSE IF out[1] = ins.to THEN out[2] ELSE out[1]
     IN /\ ins.k = "cond"
        /\ fun' = DelEdgeOut([fun EXCEPT !.inss[b] = Front(@)], b, drop)
        /\ dropped' = dropped @@ (ins.id :> order)
  /\ UNCHANGED <<pc, source>>

-----------------------------------------------------------------------------
Bra(to) == [k |-> "bra", to |-> to]

(* A conditional branch neither of whose successors comes next: its        *)
(* fall-through edge gets a bbl of its own with a branch.                  *)
AddBraBbl(st, b, other) ==
  LET f == NewBbls(st.f, <<<<Bra(other)>>>>)
      bbl_bra == Newest(f)
      patched == InsMaybePatchNewSuccessor(f, b, other, bbl_bra)
  IN [f |-> AddEdgeOut(ReplaceEdgeOut(patched, b, other, bbl_bra), bbl_bra, other),
      bbls |-> st.bbls \o <<b, bbl_bra>>, ok |-> st.ok]

(* One round of the loop, b being the n-th bbl. *)
Linearize(st, b, n) ==
  LET f == st.f
      out == f.edge_out[b]
      cond == Last(Inss(f, b))
      other == IF cond.to = out[2] THEN out[1] ELSE out[2]
      next == f.bbls[n + 1]
      kept == [st EXCEPT !.bbls = Append(@, b)]
  IN IF ~st.ok \/ ~FallsThrough(f, b) THEN kept
     ELSE IF n = Len(f.bbls) THEN [kept EXCEPT !.ok = FALSE]
     ELSE IF Len(out) = 1
          THEN IF next = out[1] THEN kept
               ELSE [kept EXCEPT !.f.inss[b] = Append(@, Bra(out[1]))]
     ELSE IF ~Contains(out, next) THEN AddBraBbl(st, b, other)
     ELSE IF cond.to = next /\ cond.to # other
          THEN [kept EXCEPT !.f.inss[b] = Append(Front(@), InsFlipCondBra(cond, other))]
     ELSE kept

LinearizeAll(f) ==
  FoldForward(LAMBDA acc, n : Linearize(acc, f.bbls[n], n), [f |-> f, bbls |-> <<>>, ok |-> TRUE],
              [n \in DOMAIN f.bbls |-> n])

FunAddUnconditionalBranches ==
  /\ pc = "cfg"
  /\ LET st == LinearizeAll(fun)
     IN IF st.ok THEN fun' = [st.f EXCEPT !.bbls = st.bbls] /\ pc' = "with_bra"
        ELSE pc' = "exit_failed" /\ UNCHANGED fun
  /\ UNCHANGED <<source, dropped>>

CheckAfterExit ==
  /\ pc = "with_bra"
  /\ pc' = IF FunCheckCFG(fun, TRUE) THEN "done" ELSE "exit_failed"
  /\ UNCHANGED <<fun, source, dropped>>

-----------------------------------------------------------------------------
(* What a function means: from the entry and after each outcome of each    *)
(* instruction, the instruction reached next, branches aside.  It is read  *)
(* off the layout, or off the edges while the branches are removed.        *)

IsLinear == pc \in {"linear", "split", "edges", "with_bra", "done"}

(* The bbl that control enters at the end of b, if there is one. *)
Fall(f, linear, b) ==
  IF linear
  THEN {f.bbls[n + 1] : n \in {m \in 1..(Len(f.bbls) - 1) : f.bbls[m] = b}}
  ELSE LET to == Targets(f, b)
       IN IF Len(f.edge_out[b]) = 2 /\ Len(to) = 1
          THEN ToSet(RemoveFirst(f.edge_out[b], to[1])) ELSE ToSet(f.edge_out[b])

(* From position n of b: an instruction, or a bbl to enter, or the end. *)
Point(f, linear, b, n) ==
  IF n > Len(Inss(f, b))
  THEN IF Fall(f, linear, b) = {} THEN [to |-> "end"]
       ELSE [bbl |-> CHOOSE c \in Fall(f, linear, b) : TRUE]
  ELSE IF Inss(f, b)[n].k = "bra" THEN [bbl |-> Inss(f, b)[n].to]
  ELSE [to |-> Inss(f, b)[n].id]

(* The instruction found on entering b, or "end", or "spin" forever. *)
Entering(f, linear) ==
  LET reach[fuel \in 0..Len(f.inss)] ==
        [b \in DOMAIN f.inss |->
           LET point == Point(f, linear, b, 1)
           IN IF "to" \in DOMAIN point THEN point.to
              ELSE IF fuel = 0 THEN "spin" ELSE reach[fuel - 1][point.bbl]]
  IN reach[Len(f.inss)]

Outcomes(f, ins) ==
  CASE ins.k = "plain" -> {"next"}
    [] ins.k = "cond" -> Orders
    [] ins.k = "switch" -> 0..Len(f.jtb[ins.jtb].tab)
    [] OTHER -> {}

Meaning(f, linear) ==
  LET enter == Entering(f, linear)
      Follow(point) == IF "to" \in DOMAIN point THEN point.to ELSE enter[point.bbl]
      After(b, n, outcome) ==
        LET ins == Inss(f, b)[n]
        IN CASE ins.k = "cond" /\ Taken(ins, outcome) -> enter[ins.to]
             [] ins.k = "switch" -> enter[InsTargets(f, ins)[outcome + 1]]
             [] OTHER -> Follow(Point(f, linear, b, n + 1))
      places == UNION {{b} \X DOMAIN Inss(f, b) : b \in ToSet(f.bbls)}
      seen == {p \in places : Inss(f, p[1])[p[2]].k # "bra"}
      id(p) == Inss(f, p[1])[p[2]].id
      place == [i \in {id(p) : p \in seen} |-> CHOOSE p \in seen : id(p) = i]
  IN [entry |-> enter[f.bbls[1]],
      step |-> [i \in DOMAIN place |->
                  LET p == place[i]
                  IN [outcome \in Outcomes(f, Inss(f, p[1])[p[2]]) |->
                        After(p[1], p[2], outcome)]]]

(* Where source goes when the removed instructions are passed over. *)
Skipping(i) ==
  LET skip[fuel \in 0..Cardinality(DOMAIN dropped), j \in DOMAIN source.step \cup {"end", "spin"}] ==
        IF j \notin DOMAIN dropped THEN j
        ELSE IF fuel = 0 THEN "spin" ELSE skip[fuel - 1, source.step[j][dropped[j]]]
  IN skip[Cardinality(DOMAIN dropped), i]

-----------------------------------------------------------------------------
Init ==
  /\ \E f \in Functions :
       fun = [bbls |-> f.bbls, inss |-> f.inss, jtb |-> f.jtb,
              edge_out |-> [b \in DOMAIN f.inss |-> <<>>],
              edge_in |-> [b \in DOMAIN f.inss |-> <<>>]]
  /\ pc = "linear"
  /\ source = Meaning(fun, TRUE)
  /\ dropped = <<>>

Next ==
  \/ FunSplitBbls \/ FunInitCFG \/ FunRemoveUnconditionalBranches
  \/ FunRemoveEmptyBbls \/ CheckAfterInit
  \/ \E b \in ToSet(fun.bbls) :
       \/ \E n \in DOMAIN fun.inss[b] : DropIns(b, n)
       \/ \E order \in Orders : FoldCondBra(b, order)
  \/ FunAddUnconditionalBranches \/ CheckAfterExit

Spec == Init /\ [][Next]_vars

-----------------------------------------------------------------------------
Failed == pc \in {"init_failed", "exit_failed"}

(* Types; the layout names each bbl once. *)
TypeOK ==
  /\ pc \in {"linear", "split", "edges", "no_bra", "no_empty", "cfg", "with_bra", "done",
             "init_failed", "exit_failed"}
  /\ fun.bbls \in Seq(DOMAIN fun.inss) /\ IsInjective(fun.bbls)
  /\ DOMAIN fun.edge_out = DOMAIN fun.inss /\ DOMAIN fun.edge_in = DOMAIN fun.inss
  /\ DOMAIN dropped \subseteq DOMAIN source.step

(***************************************************************************)
(* Every pass of FunCfgInit and FunCfgExit keeps the function's meaning:   *)
(* it starts with the same instruction, and after each instruction that is *)
(* left and each of its outcomes the same one comes next, passing over     *)
(* what the passes in between removed.  (Code from which the source fell   *)
(* off the end of the function has none.)                                  *)
(***************************************************************************)
BehaviourPreserved ==
  ~Failed /\ pc # "no_empty" =>
    LET now == Meaning(fun, IsLinear)
    IN /\ source.entry # "end" => now.entry = Skipping(source.entry)
       /\ \A i \in DOMAIN now.step :
            /\ DOMAIN now.step[i] = DOMAIN source.step[i]
            /\ \A outcome \in DOMAIN now.step[i] :
                 LET to == Skipping(source.step[i][outcome])
                 IN to # "end" => now.step[i][outcome] = to

(***************************************************************************)
(* Whatever FunInitCFG, the removal of empty bbls and the new branches did *)
(* to them, the edges of every bbl are, with their multiplicity, the ways  *)
(* control can leave it, and edge_in mirrors edge_out.                     *)
(***************************************************************************)
EdgesMatchCode ==
  pc \in {"cfg", "with_bra", "done"} =>
    /\ \A b, s \in DOMAIN fun.inss :
         Times(fun.edge_out[b], s) = Times(fun.edge_in[s], b)
    /\ \A b \in ToSet(fun.bbls) :
         LET to == Targets(fun, b)
             ways == IF FallsThrough(fun, b) /\ Fall(fun, IsLinear, b) # {}
                     THEN to \o SetToSeq(Fall(fun, IsLinear, b)) ELSE to
         IN ToBag(fun.edge_out[b]) = ToBag(ways)

(* What FailuresExplained says of the way back: no other assertion of      *)
(* FunAddUnconditionalBranches or of the FunCheckCFG behind it fails.      *)
ExitFailsAtTheEnd == pc = "exit_failed" => FallsThrough(fun, Last(fun.bbls))

(***************************************************************************)
(* The assertions on the way fail only for a function whose entry holds no *)
(* instruction, that has code from which control falls off its end, or     *)
(* that has a loop of nothing but branches; and the way back fails only    *)
(* when the last bbl of the layout has a successor to fall into.           *)
(***************************************************************************)
FailuresExplained ==
  /\ pc = "init_failed" =>
       \/ Inss(fun, fun.bbls[1]) = <<>>
       \/ \E i \in DOMAIN source.step : \E outcome \in DOMAIN source.step[i] :
            source.step[i][outcome] \in {"end", "spin"}
       \/ source.entry \in {"end", "spin"}
  /\ ExitFailsAtTheEnd

(* The assertion of FunCheckCFG that follows FunCfgInit: `missing`, no     *)
(* edge leads out of the function.                                         *)
RemovalKeepsEdgesInside == pc = "no_empty" => EdgesStayInside(fun)
=============================================================================
