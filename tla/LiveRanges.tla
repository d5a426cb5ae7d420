----------------------------- MODULE LiveRanges -----------------------------
(***************************************************************************)
(* Base/liveness.py: BblGetLiveRanges, the live ranges of one bbl, which   *)
(* the register allocator scans.                                           *)
(*                                                                         *)
(* An instruction is a record: op ("op", "call", "ret"), the registers it  *)
(* writes (def) and reads (use) in operand order, and for a call the       *)
(* machine registers its callee takes arguments in and returns results in  *)
(* (cin, cout).  A live range is found by its number in the list, because  *)
(* "use" entries point at the ranges they end or extend.                   *)
(***************************************************************************)
EXTENDS Integers, Sequences, FiniteSets, SeqFolds, TLC

CONSTANTS
  NoReg,     (* ir.REG_INVALID: the reg of a "use" entry *)
  NoCpuReg   (* ir.CPU_REG_INVALID: not assigned yet     *)

BEFORE_BBL == -32000
AFTER_BBL == 32000
NO_USE == AFTER_BBL + 1

LiveRange(def, last, reg, num, uses) ==
  [def |-> def, last |-> last, reg |-> reg, num_uses |-> num, uses |-> uses,
   lac |-> FALSE]

is_use_lr(lr) == lr.reg = NoReg

(* __lt__: uses come before the definitions at the same position. *)
Before(lrs, a, b) ==
  \/ lrs[a].def < lrs[b].def
  \/ lrs[a].def = lrs[b].def /\ lrs[a].last < lrs[b].last
  \/ lrs[a].def = lrs[b].def /\ lrs[a].last = lrs[b].last /\ a < b

(* live_ranges.sort(), as the numbers of the ranges in order: in place p   *)
(* is the range that p - 1 others come before.                             *)
Sorted(lrs) ==
  LET rank == [n \in DOMAIN lrs |-> Cardinality({m \in DOMAIN lrs : Before(lrs, m, n)})]
  IN [p \in DOMAIN lrs |-> CHOOSE n \in DOMAIN lrs : rank[n] = p - 1]

-----------------------------------------------------------------------------
(* The walk's state: out, last_use (register -> number of its open range), *)
(* and the nearest call below: its position and argument registers.        *)

initialize_lr(st, pos, reg) ==
  [st EXCEPT !.out = Append(@, LiveRange(-1, pos, reg, 1, <<>>)),
             !.last_use = [r \in DOMAIN @ \cup {reg} |->
                             IF r = reg THEN Len(st.out) + 1 ELSE @[r]]]

CrossesCall_AtUse(st, n) ==   \* mutant: a read by the call itself counts
  /\ st.call_pos # -1 /\ st.call_pos # AFTER_BBL
  /\ st.call_pos <= st.out[n].last

CrossesCall(st, n) ==
  /\ st.call_pos # -1 /\ st.call_pos # AFTER_BBL
  /\ st.call_pos < st.out[n].last

(* finalize_lr for the open ranges of regs. *)
FinalizeAll(st, regs, def_pos) ==
  LET ns == {st.last_use[r] : r \in regs}
  IN [st EXCEPT !.out = [n \in DOMAIN @ |->
                           IF n \in ns
                           THEN [@[n] EXCEPT !.def = def_pos, !.lac = CrossesCall(st, n)]
                           ELSE @[n]],
                !.last_use = [r \in DOMAIN @ \ regs |-> @[r]]]

finalize_lr(st, reg, def_pos) == FinalizeAll(st, {reg}, def_pos)

(* RET and calls: results end ranges, then the call is the nearest one. *)
AtCallOrRet(st, ins, pos, cpu, fun_out) ==
  IF ins.op = "ret" /\ fun_out # {}
  THEN [st EXCEPT !.call_pos = AFTER_BBL, !.call_in = fun_out]
  ELSE IF ins.op = "call"
  THEN [FinalizeAll(st, {r \in DOMAIN st.last_use : cpu[r] \in ins.cout}, pos)
          EXCEPT !.call_pos = pos, !.call_in = ins.cin]
  ELSE st

AtDef_IgnoresCall(st, reg, pos, cpu) ==   \* mutant: arguments look dead
  IF reg \in DOMAIN st.last_use
  THEN finalize_lr(st, reg, pos)
  ELSE [st EXCEPT !.out = Append(@, LiveRange(pos, NO_USE, reg, 0, <<>>))]

AtDef(st, reg, pos, cpu) ==
  IF reg \in DOMAIN st.last_use
  THEN finalize_lr(st, reg, pos)
  ELSE [st EXCEPT !.out = Append(@, LiveRange(pos, IF cpu[reg] \in st.call_in
                                                   THEN st.call_pos ELSE NO_USE,
                                              reg, 0, <<>>))]

AtDefs(st, ins, pos, cpu) ==
  FoldForward(LAMBDA acc, r : AtDef(acc, r, pos, cpu), st, ins.def)

AtUse(st, reg, pos) ==
  IF reg \in DOMAIN st.last_use
  THEN [st EXCEPT !.out[st.last_use[reg]].num_uses = @ + 1]
  ELSE initialize_lr(st, pos, reg)

AtUses(st, ins, pos) ==
  FoldForward(LAMBDA acc, r : AtUse(acc, r, pos), st, ins.use)

UsedRanges_PerOperand(st, ins) ==   \* mutant: once per operand
  [k \in DOMAIN ins.use |-> st.last_use[ins.use[k]]]

(* The ranges an instruction reads, each once, in operand order. *)
AddUsed(acc, n) == IF Contains(acc, n) THEN acc ELSE Append(acc, n)
UsedRanges(st, ins) ==
  FoldForward(LAMBDA acc, r : AddUsed(acc, st.last_use[r]), <<>>, ins.use)

AtIns_UsesFirst(st, ins, pos, cpu, fun_out) ==   \* mutant: reads before writes
  LET s1 == AtCallOrRet(st, ins, pos, cpu, fun_out)
      s2 == AtUses(s1, ins, pos)
      used == UsedRanges(s2, ins)
      s3 == AtDefs(s2, ins, pos, cpu)
  IN  IF ins.use = <<>> THEN s3
      ELSE [s3 EXCEPT !.out = Append(@, LiveRange(pos, pos, NoReg, 0, used))]

AtIns(st, ins, pos, cpu, fun_out) ==
  LET s1 == AtCallOrRet(st, ins, pos, cpu, fun_out)
      s2 == AtDefs(s1, ins, pos, cpu)
      s3 == AtUses(s2, ins, pos)
  IN  IF ins.use = <<>> THEN s3
      ELSE [s3 EXCEPT !.out = Append(@, LiveRange(pos, pos, NoReg, 0,
                                                  UsedRanges(s3, ins)))]

(* The ranges that extend past the bbl. *)
PastBbl(live_out) ==
  FoldForward(LAMBDA acc, r : initialize_lr(acc, AFTER_BBL, r),
              [out |-> <<>>, last_use |-> <<>>, call_pos |-> -1, call_in |-> {}], live_out)

WalkBack(bbl, st, cpu, fun_out) ==
  FoldBackward(LAMBDA acc, k : AtIns(acc, bbl[k], k - 1, cpu, fun_out), st,
               [k \in 1..Len(bbl) |-> k])

(***************************************************************************)
(* BblGetLiveRanges(bbl, fun, live_out, True): bbl is a sequence whose     *)
(* first instruction has position 0, live_out a list of registers, cpu     *)
(* gives each register's machine register, fun_out is fun.cpu_live_out.    *)
(***************************************************************************)
BblGetLiveRanges(bbl, live_out, cpu, fun_out) ==
  LET walked == WalkBack(bbl, PastBbl(live_out), cpu, fun_out)
  IN  FinalizeAll(walked, DOMAIN walked.last_use, BEFORE_BBL).out
=============================================================================
