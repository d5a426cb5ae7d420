--------------------------- MODULE BblLiveRanges ---------------------------
(***************************************************************************)
(* The two halves of local register allocation: the live ranges of a bbl,  *)
(* here checked on their own, and the scan over them (LinearScan).  A      *)
(* behaviour takes one half of the problems, and the variables of the      *)
(* other are idle.                                                         *)
(*                                                                         *)
(* One bbl, one computation by BblGetLiveRanges, and the ranges compared   *)
(* with liveness read off the instructions directly.  Unlike in the scan,  *)
(* registers without a machine register may be live at the end of the bbl, *)
(* as when the ranges are computed for statistics.                         *)
(***************************************************************************)
EXTENDS LinearScan

CONSTANTS
  RangeReg,      (* registers of the function *)
  RangeBodies,   (* instruction sequences to try *)
  RangeLiveOuts  (* lists of registers that may be live at the end *)

(* The machine register a register is bound to, or NoCpuReg. *)
RangeCpu == [r \in RangeReg |-> IF r \in Pinned THEN PinnedTo[r] ELSE NoCpuReg]

(* live_out is a set; a ret ends the bbl; a call names no register that it *)
(* writes, and does not read its target from one that holds an argument.   *)
ASSUME RangesAssumption ==
  /\ RangeReg \subseteq Register
  /\ \A regs \in RangeLiveOuts : regs \in Seq(RangeReg) /\ IsInjective(regs)
  /\ \A code \in RangeBodies :
       /\ code \in Seq(Ins) /\ Len(code) < AFTER_BBL
       /\ \A k \in DOMAIN code :
            /\ code[k].def \in Seq(RangeReg) /\ code[k].use \in Seq(RangeReg)
            /\ code[k].op = "ret" => k = Len(code)
            /\ code[k].op = "call" =>
                 /\ code[k].def = <<>>
                 /\ \A n \in DOMAIN code[k].use : RangeCpu[code[k].use[n]] \notin code[k].cin

VARIABLES
  live_out,   (* bbl.live_out *)
  turn        (* "start", "done", or "idle" while the scan has its turn *)

RangesInit ==
  /\ bbl \in RangeBodies
  /\ live_out \in RangeLiveOuts
  /\ lrs = <<>>
  /\ turn = "start"
  /\ source = <<>> /\ cpu = <<>> /\ order = <<>> /\ i = 1 /\ avail = {} /\ round = 1
  /\ pc = "idle"

GetLiveRanges ==
  /\ turn = "start"
  /\ lrs' = BblGetLiveRanges(bbl, live_out, RangeCpu, FunOut)
  /\ turn' = "done"
  /\ UNCHANGED <<bbl, live_out, source, cpu, order, i, avail, round, pc>>

AllocInit == RangesInit \/ (Init /\ live_out = <<>> /\ turn = "idle")
AllocNext == GetLiveRanges \/ (Next /\ UNCHANGED <<live_out, turn>>)
AllocSpec == AllocInit /\ [][AllocNext]_<<vars, live_out, turn>>

-----------------------------------------------------------------------------
(* Liveness after position p (-1: at the start), by definition.            *)

Pos == 0..(Len(bbl) - 1)
At(p) == bbl[p + 1]
(* Argument and result registers are caller-save: a call loses them.       *)
Writes(p, r) ==
  Contains(At(p).def, r) \/ (At(p).op = "call" /\ RangeCpu[r] # NoCpuReg)
Reads(p, r) == Contains(At(p).use, r)
(* Read by the callee or the caller, not named as an operand. *)
Takes(p, r) == \/ At(p).op = "call" /\ RangeCpu[r] \in At(p).cin
               \/ At(p).op = "ret" /\ RangeCpu[r] \in FunOut

WrittenWithin(a, b, r) == \E q \in Pos : a < q /\ q < b /\ Writes(q, r)

LiveAfter(p, r) ==
  \/ \E q \in Pos : p < q /\ Reads(q, r) /\ ~WrittenWithin(p, q, r)
  \/ Contains(live_out, r) /\ ~WrittenWithin(p, Len(bbl), r)

(* A range nothing reads (NO_USE) covers nothing but the write itself. *)
Covers(lr, p) == lr.last # NO_USE /\ lr.def <= p /\ p < lr.last
RangesOf(r) == {n \in DOMAIN lrs : lrs[n].reg = r}

-----------------------------------------------------------------------------
(***************************************************************************)
(* The ranges of a virtual register cover exactly the positions after      *)
(* which it is live, no two of them at once: two registers may share a     *)
(* machine register precisely when their ranges do not overlap.            *)
(***************************************************************************)
VirtualRangesExact ==
  turn = "done" =>
    \A r \in {r \in RangeReg : RangeCpu[r] = NoCpuReg}, p \in Pos \cup {-1} :
      Cardinality({n \in RangesOf(r) : Covers(lrs[n], p)})
        = IF LiveAfter(p, r) THEN 1 ELSE 0

(***************************************************************************)
(* A machine register written as an operand is covered up to where its     *)
(* value goes: the last operand that reads it or, when no operand does,    *)
(* the call or ret that takes it as an argument or result.  The allocator  *)
(* keeps other values out of the register that long, and a range left as   *)
(* having no use would keep them out for the rest of the bbl.              *)
(***************************************************************************)
CpuRangesCover ==
  turn = "done" =>
    \A r \in {r \in RangeReg : RangeCpu[r] # NoCpuReg}, d, e \in Pos :
      (/\ d < e /\ Contains(At(d).def, r) /\ ~WrittenWithin(d, e, r)
       /\ Reads(e, r) \/ (Takes(e, r) /\ ~\E q \in (d + 1)..(e - 1) : Reads(q, r)))
        => \E n \in RangesOf(r) : \A p \in d..(e - 1) : Covers(lrs[n], p)

(***************************************************************************)
(* A virtual register is flagged live-across-call exactly when a call sits *)
(* strictly inside its range: flagged too rarely its value is clobbered,   *)
(* too often callee-save registers run out.                                *)
(***************************************************************************)
LacExact ==
  turn = "done" =>
    \A n \in DOMAIN lrs :
      (~is_use_lr(lrs[n]) /\ RangeCpu[lrs[n].reg] = NoCpuReg /\ lrs[n].last # NO_USE) =>
        (lrs[n].lac <=> \E c \in Pos : /\ At(c).op = "call"
                                       /\ lrs[n].def < c /\ c < lrs[n].last)

(***************************************************************************)
(* After sorting, the use entry of an instruction comes before everything  *)
(* the instruction defines, and names each range it reads exactly once:    *)
(* the scan can free the inputs before it places the outputs.              *)
(***************************************************************************)
UsesPrecedeDefs ==
  turn = "done" =>
    LET sorted == Sorted(lrs) IN
    \A a, b \in DOMAIN sorted :
      LET use == lrs[sorted[a]]
          lr == lrs[sorted[b]]
      IN (is_use_lr(use) /\ ~is_use_lr(lr)) =>
           /\ use.def = lr.def => a < b
           /\ (lr.def < use.def /\ lr.last = use.def
                 /\ Contains(At(use.def).use, lr.reg))
                => Cardinality({k \in DOMAIN use.uses : use.uses[k] = sorted[b]}) = 1
=============================================================================
