----------------------------- MODULE LinearScan -----------------------------
(***************************************************************************)
(* Register allocation inside one bbl: _BblRegAllocOrSpill of              *)
(* CodeGenA32/regs.py with the linear scan of Base/reg_alloc.py and the    *)
(* register pool RegPoolArm.  Scan once; if ranges were spilled, rewrite   *)
(* the bbl with loads and stores around their uses and scan again, this    *)
(* time with no spilling allowed.                                          *)
(*                                                                         *)
(* A machine register is the set of units its allocation mask names: one   *)
(* core register, one s-register, or the two halves of a d-register.  The  *)
(* pool is the set of free units; the callee-save ones serve the ranges    *)
(* that live across calls, the others the rest.  A register of the         *)
(* function is a record of a name and a kind.                              *)
(***************************************************************************)
EXTENDS LiveRanges

CONSTANTS
  Spill,         (* ir.CPU_REG_SPILL *)
  CpuRegs,       (* CpuRegs[kind]: the machine registers of a kind, lowest first *)
  CalleeSave,    (* units a callee preserves *)
  Pinned,        (* registers bound to a machine register before the scan *)
  PinnedTo,      (* PinnedTo[r]: the machine register of r \in Pinned *)
  Bodies,        (* instruction sequences a bbl may hold *)
  LiveOut,       (* bbl.live_out: global registers, so bound ones *)
  FunOut         (* fun.cpu_live_out *)

Unit == UNION {UNION ToSet(CpuRegs[k]) : k \in DOMAIN CpuRegs}

family(kind) == IF kind = "gpr" THEN 1 ELSE 2   \* get_cpu_reg_family

Register == [name : Nat \X Nat, kind : DOMAIN CpuRegs]
Ins == [op : {"op", "call", "ret"}, id : Nat, def : Seq(Register), use : Seq(Register),
        cin : SUBSET SUBSET Unit, cout : SUBSET SUBSET Unit]
(* o.MAX_OPERANDS *)
MAX_OPERANDS == 5

ASSUME UnitAssumption == CalleeSave \subseteq Unit /\ Unit \subseteq Nat
(* Core and floating point registers have no unit in common. *)
ASSUME CpuRegAssumption ==
  /\ \A k \in DOMAIN CpuRegs : CpuRegs[k] \in Seq(SUBSET Unit)
  /\ \A k, l \in DOMAIN CpuRegs : family(k) # family(l) =>
       \A c \in ToSet(CpuRegs[k]), d \in ToSet(CpuRegs[l]) : c \cap d = {}
  /\ Spill # NoCpuReg /\ \A c \in SUBSET Unit : c \notin {Spill, NoCpuReg}
ASSUME PinnedAssumption ==
  /\ DOMAIN PinnedTo = Pinned /\ Pinned \subseteq Register /\ NoReg \notin Register
  /\ \A r \in Pinned : PinnedTo[r] \in ToSet(CpuRegs[r.kind])
  /\ LiveOut \in Seq(Pinned) /\ FunOut \in SUBSET SUBSET Unit
(* A call names no register it writes; and a bbl, the loads and stores of  *)
(* every operand included, ends before AFTER_BBL.                          *)
ASSUME BodiesAssumption ==
  \A code \in Bodies :
    /\ code \in Seq(Ins)
    /\ Len(code) * (MAX_OPERANDS + 1) < AFTER_BBL
    /\ \A k \in DOMAIN code : /\ Len(code[k].def) + Len(code[k].use) <= MAX_OPERANDS
                              /\ code[k].op = "call" => code[k].def = <<>>

VARIABLES
  source,   (* the bbl as it came                                  *)
  bbl,      (* the bbl as it is now                                *)
  cpu,      (* cpu[r]: r.cpu_reg for every register of the bbl     *)
  lrs,      (* its live ranges; cpu and pre (PRE_ALLOC) added      *)
  order,    (* their numbers, sorted                               *)
  i,        (* the next one to handle                              *)
  avail,    (* free units of the pool                              *)
  round,    (* 1: spilling allowed, 2: not                         *)
  pc        (* "scan", "done", or "failed" on a failed assertion   *)

vars == <<source, bbl, cpu, lrs, order, i, avail, round, pc>>

RegsOf(code) ==
  ToSet(LiveOut)
    \cup UNION {ToSet(code[k].def) \cup ToSet(code[k].use) : k \in DOMAIN code}

-----------------------------------------------------------------------------
(* RegPoolArm *)

(* A range reserved on unit u (add_reserved_range). *)
Reserved(ranges, n, u) == ranges[n].pre /\ u \in ranges[n].cpu

has_conflict_FirstOnly(ranges, u, def, last) ==   \* mutant: ended ranges stay
  LET first == SelectInSeq(order, LAMBDA n : Reserved(ranges, n, u))
  IN first # 0 /\ ranges[order[first]].last > def /\ ranges[order[first]].def < last

(* PreAllocation.has_conflict, which holds the ranges reserved on u in     *)
(* sorted order: the first one that has not ended decides.  The code drops *)
(* those that have for good; queries come in increasing order, so none of  *)
(* them would be found later, and the cursor is left out.                  *)
has_conflict(ranges, u, def, last) ==
  LET first == SelectInSeq(order, LAMBDA n : Reserved(ranges, n, u) /\ ranges[n].last > def)
  IN first # 0 /\ ranges[order[first]].def < last

(* get_available_reg for a range [def, last] of the given kind. *)
get_available_reg(ranges, free, kind, lac, def, last) ==
  LET class == IF lac THEN free \cap CalleeSave ELSE free \ CalleeSave
      fits(c) == c \subseteq class /\ \A u \in c : ~has_conflict(ranges, u, def, last)
      good == SelectInSeq(CpuRegs[kind], fits)
  IN IF good = 0 THEN Spill ELSE CpuRegs[kind][good]

-----------------------------------------------------------------------------
(* The scan; st collects ranges, free units, scratch registers and ok      *)
(* while one live range is handled.  n is a range, k a place in the order. *)

give_back(st, c) == [st EXCEPT !.free = @ \cup c]

Wants(st, n, lac, def, last) ==
  get_available_reg(st.lrs, st.free, st.lrs[n].reg.kind, lac, def, last)

(* _SpillEarlierLiveRange: the latest range before place k that has a      *)
(* register of the family and is used after pos gives it up.               *)
SpillEarlier(st, reg, pos, k) ==
  LET spillable(m) ==
        /\ ~is_use_lr(st.lrs[m]) /\ ~st.lrs[m].pre /\ st.lrs[m].cpu # Spill
        /\ st.lrs[m].last > pos /\ family(st.lrs[m].reg.kind) = family(reg.kind)
      m == SelectLastInSubSeq(order, 1, k - 1, spillable)
  IN IF m = 0 THEN [st EXCEPT !.ok = FALSE]
     ELSE [give_back(st, st.lrs[order[m]].cpu) EXCEPT !.lrs[order[m]].cpu = Spill]

(* A register for the load or store of the spilled range n at pos, taken   *)
(* from a range used after `from` if none is free.                         *)
TakeScratch(st, n, pos, from, k) ==
  LET free == Wants(st, n, FALSE, pos, NO_USE)
      st2 == IF free # Spill THEN st ELSE SpillEarlier(st, st.lrs[n].reg, from, k)
      c == Wants(st2, n, FALSE, pos, NO_USE)
  IN IF ~st2.ok \/ c = Spill THEN [st2 EXCEPT !.ok = FALSE]
     ELSE [st2 EXCEPT !.free = @ \ c, !.scratch = Append(@, c)]

ReleaseScratch(st) ==
  [st EXCEPT !.free = @ \cup UNION ToSet(st.scratch), !.scratch = <<>>]

Ends_AtEveryUse(lr, pos) == lr.cpu # Spill   \* mutant: not only at the last use

Ends(lr, pos) == lr.last = pos /\ lr.cpu # Spill

(* _HandleUseLiveRange: ranges that end here give their register back. *)
EndRanges(st, uses, pos) ==
  give_back(st, UNION {st.lrs[n].cpu : n \in {m \in ToSet(uses) : Ends(st.lrs[m], pos)}})

(* A scratch register to load range n into, if it was spilled. *)
LoadUse(st, n, pos, k) ==
  IF ~st.ok \/ st.lrs[n].pre \/ st.lrs[n].cpu # Spill THEN st
  ELSE TakeScratch(st, n, pos, st.lrs[n].def, k)

LoadUses(st, uses, pos, k) == FoldForward(LAMBDA acc, n : LoadUse(acc, n, pos, k), st, uses)

(* _HandleUseLiveRangeFancy *)
HandleUse(st, k) ==
  LET use == st.lrs[order[k]]
      loaded == LoadUses(st, use.uses, use.def, k)
  IN IF ~loaded.ok THEN loaded ELSE ReleaseScratch(EndRanges(loaded, use.uses, use.def))

(* _HandleDefLiveRangeFancy *)
HandleDef(st, k) ==
  LET n == order[k]
      lr == st.lrs[n]
      c == Wants(st, n, lr.lac, lr.def, lr.last)
  IN IF c = Spill
     THEN LET st2 == TakeScratch([st EXCEPT !.lrs[n].cpu = Spill], n, lr.def, lr.def, k)
          IN IF st2.ok THEN ReleaseScratch(st2) ELSE st2
     ELSE [st EXCEPT !.lrs[n].cpu = c,
                     !.free = IF lr.last = NO_USE THEN @ ELSE @ \ c]

-----------------------------------------------------------------------------
(* The live ranges of code, those of registers already bound marked.       *)
RangesFor(code, binding) ==
  LET plain == BblGetLiveRanges(code, LiveOut, binding, FunOut)
      bound(lr) == ~is_use_lr(lr) /\ binding[lr.reg] # NoCpuReg
      mark(lr) == [def |-> lr.def, last |-> lr.last, reg |-> lr.reg,
                   uses |-> lr.uses, lac |-> lr.lac, pre |-> bound(lr),
                   cpu |-> IF bound(lr) THEN binding[lr.reg] ELSE NoCpuReg]
  IN [n \in DOMAIN plain |-> mark(plain[n])]

Binding(code) ==
  [r \in RegsOf(code) |-> IF r \in Pinned THEN PinnedTo[r] ELSE NoCpuReg]

Init ==
  /\ source \in Bodies
  /\ bbl = source
  /\ cpu = Binding(source)
  /\ lrs = RangesFor(source, cpu)
  /\ order = Sorted(lrs)
  /\ i = 1
  /\ avail = Unit
  /\ round = 1
  /\ pc = "scan"

(* RegisterAssignerLinearScanFancy: one turn of its while loop.  In the    *)
(* second round the pool asserts where it would have to spill.             *)
Scan ==
  /\ pc = "scan" /\ i <= Len(order)
  /\ LET lr == lrs[order[i]]
         st0 == [lrs |-> lrs, free |-> avail, scratch |-> <<>>, ok |-> TRUE]
         st == IF is_use_lr(lr) THEN HandleUse(st0, i)
               ELSE IF lr.pre THEN st0 ELSE HandleDef(st0, i)
         ok == st.ok /\ (round = 1 \/ st.lrs[order[i]].cpu # Spill)
     IN /\ lrs' = st.lrs
        /\ avail' = st.free
        /\ i' = i + 1
        /\ pc' = IF ok THEN "scan" ELSE "failed"
  /\ UNCHANGED <<source, bbl, cpu, order, round>>

(* _AssignAllocatedRegsAndReturnSpilledRegs *)
Scanned == {n \in DOMAIN lrs : ~is_use_lr(lrs[n]) /\ ~lrs[n].pre}
SpilledRegs == {lrs[n].reg : n \in {m \in Scanned : lrs[m].cpu = Spill}}
Assigned ==
  [r \in DOMAIN cpu |->
     LET mine == {n \in Scanned : lrs[n].reg = r /\ lrs[n].cpu # Spill}
     IN IF mine = {} THEN cpu[r]
        ELSE lrs[CHOOSE n \in mine : \A m \in mine : ~Before(lrs, n, m)].cpu]

(* InsSpillRegs: every spilled operand of instruction k gets a register of *)
(* its own, loaded before or stored after; operands are taken last first.  *)
SpilledOperands(seq, spilled) ==
  FoldBackward(LAMBDA acc, n : IF seq[n] \in spilled THEN Append(acc, n) ELSE acc,
               <<>>, [n \in 1..Len(seq) |-> n])

InsSpillRegs(ins, k, spilled) ==
  LET scratch(r, n) == [name |-> <<k, n>>, kind |-> r.kind]
      place(seq, at) == [n \in DOMAIN seq |-> IF seq[n] \in spilled
                                              THEN scratch(seq[n], at + n) ELSE seq[n]]
      mem(op, r, def, use) == [op |-> op, slot |-> r, id |-> 0, def |-> def, use |-> use,
                               cin |-> {}, cout |-> {}]
      ld(n) == mem("ld", ins.use[n], <<scratch(ins.use[n], Len(ins.def) + n)>>, <<>>)
      st(n) == mem("st", ins.def[n], <<>>, <<scratch(ins.def[n], n)>>)
      uses == SpilledOperands(ins.use, spilled)
      defs == SpilledOperands(ins.def, spilled)
  IN [m \in DOMAIN uses |-> ld(uses[m])]
       \o <<[ins EXCEPT !.use = place(ins.use, Len(ins.def)), !.def = place(ins.def, 0)]>>
       \o [m \in DOMAIN defs |-> st(defs[m])]

(* BblSpillRegs *)
BblSpillRegs(code, spilled) ==
  FlattenSeq([k \in DOMAIN code |-> InsSpillRegs(code[k], k, spilled)])

Finish ==
  /\ pc = "scan" /\ i > Len(order) /\ SpilledRegs = {}
  /\ cpu' = Assigned
  /\ pc' = "done"
  /\ UNCHANGED <<source, bbl, lrs, order, i, avail, round>>

SpillAndRescan ==
  /\ pc = "scan" /\ i > Len(order) /\ SpilledRegs # {}
  /\ bbl' = BblSpillRegs(bbl, SpilledRegs)
  /\ cpu' = [r \in RegsOf(bbl') |-> IF r \in DOMAIN cpu THEN Assigned[r] ELSE NoCpuReg]
  /\ lrs' = RangesFor(bbl', cpu')
  /\ order' = Sorted(lrs')
  /\ i' = 1
  /\ avail' = Unit
  /\ round' = 2
  /\ UNCHANGED <<source, pc>>

Next == Scan \/ Finish \/ SpillAndRescan

Spec == Init /\ [][Next]_vars

-----------------------------------------------------------------------------
(* What a bbl computes: run it over places (units, registers without one,  *)
(* and the stack slots of spilled registers) and log what each original    *)
(* instruction reads.  Every write makes a new value; a call loses what    *)
(* its callee may clobber.                                                 *)

Junk == -1
Units(c) == {<<"unit", u>> : u \in c}
Slot(r) == <<"slot", r>>
Places(r, binding) ==
  IF binding[r] = NoCpuReg THEN {<<"reg", r>>} ELSE Units(binding[r])

Written(st, places, val) == [st EXCEPT !.env = [p \in places |-> val] @@ @]
Read(st, places) == {IF p \in DOMAIN st.env THEN st.env[p] ELSE Junk : p \in places}

AfterCall(st, ins) ==
  Written(Written(st, Units(Unit \ CalleeSave), Junk), Units(UNION ins.cout), 1000 + ins.id)

Step(st, ins, binding) ==
  CASE ins.op = "ld" ->
         Written(st, Places(ins.def[1], binding),
                 CHOOSE v \in Read(st, {Slot(ins.slot)}) : TRUE)
    [] ins.op = "st" ->
         Written(st, {Slot(ins.slot)},
                 LET v == Read(st, Places(ins.use[1], binding))
                 IN IF Cardinality(v) = 1 THEN CHOOSE x \in v : TRUE ELSE Junk)
    [] OTHER ->
         LET taken == Units(IF ins.op = "ret" THEN UNION FunOut ELSE UNION ins.cin)
             seen == <<[n \in DOMAIN ins.use |-> Read(st, Places(ins.use[n], binding))],
                       Read(st, taken)>>
             called == IF ins.op = "call" THEN AfterCall(st, ins) ELSE st
             write(acc, n) == Written(acc, Places(ins.def[n], binding), 10 * ins.id + n)
         IN [FoldLeft(write, called, [n \in DOMAIN ins.def |-> n])
               EXCEPT !.log = Append(@, seen)]

Meaning(code, binding) ==
  LET start == [env |-> [p \in Units(Unit) |-> 2000 + p[2]], log |-> <<>>]
      end == FoldLeft(LAMBDA st, ins : Step(st, ins, binding), start, code)
  IN Append(end.log, [n \in DOMAIN LiveOut |-> Read(end, Places(LiveOut[n], binding))])

-----------------------------------------------------------------------------
(* Types; every range gets a register of its own kind, and a range that is *)
(* live across a call one its callee preserves.                            *)
TypeOK ==
  /\ avail \subseteq Unit /\ i \in 1..(Len(order) + 1)
  /\ round \in {1, 2} /\ pc \in {"scan", "done", "failed"}
  /\ DOMAIN cpu = RegsOf(bbl)
  /\ \A r \in DOMAIN cpu : cpu[r] \in ToSet(CpuRegs[r.kind]) \cup {NoCpuReg}
  /\ \A n \in DOMAIN lrs : lrs[n].cpu \notin {Spill, NoCpuReg} =>
       /\ lrs[n].cpu \in ToSet(CpuRegs[lrs[n].reg.kind])
       /\ ~lrs[n].pre => (lrs[n].cpu \subseteq CalleeSave <=> lrs[n].lac)

(* Ranges that hold a register now: handled, and not yet ended. *)
Position == IF i <= Len(order) THEN lrs[order[i]].def ELSE AFTER_BBL
Holding ==
  {n \in Scanned : /\ \E k \in 1..(i - 1) : order[k] = n
                   /\ lrs[n].cpu # Spill /\ lrs[n].last # NO_USE
                   /\ \/ lrs[n].last > Position
                      \/ /\ i <= Len(order) /\ is_use_lr(lrs[order[i]])
                         /\ lrs[n].last = Position}

(***************************************************************************)
(* While a range holds a register, no other range holds any unit of it and *)
(* the pool does not offer it (get_available_reg, give_back_available_reg).*)
(***************************************************************************)
NoUnitHeldTwice ==
  pc = "scan" =>
    \A n \in Holding :
      /\ lrs[n].cpu \cap avail = {}
      /\ \A m \in Holding \ {n} : lrs[n].cpu \cap lrs[m].cpu = {}

(***************************************************************************)
(* Allocation changes where values are kept and nothing else: when it      *)
(* succeeds, every instruction of the original bbl reads the values it     *)
(* read before, loads, stores and calls included.                          *)
(***************************************************************************)
MeaningPreserved ==
  pc = "done" => Meaning(bbl, cpu) = Meaning(source, Binding(source))

=============================================================================
