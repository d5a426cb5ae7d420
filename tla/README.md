# Cwerg: specifications, model checks and proofs

Cwerg is a compiler back end: a small IR with a text form (`Base`), a C front
end that emits it (`FrontEndC`), an optimizer over it (`Base`), a code generator
for 32-bit Arm (`CodeGenA32`, on top of the assembler in `CpuA32` and the ELF
writer in `Elf`), and a support library for the C++ version (`Util`). Most parts
exist twice, in Python and in C++.

This directory holds TLA+ modules for the parts in which the order of steps
matters, the TLC configurations that check them on small instances, and TLAPS
proofs for instances of every size. `PROJECT.json` lists the components, the runs,
the hazards, the theorems, and the source lines behind every definition.

1. [The system](#1-the-system)
2. [Modules and what they model](#2-modules-and-what-they-model)
3. [Runs: questions, bounds, results](#3-runs-questions-bounds-results)
4. [Where the code departs from what it says](#4-where-the-code-departs-from-what-it-says)
5. [Proofs](#5-proofs)
6. [What is only model-checked, and what is not modelled](#6-what-is-only-model-checked-and-what-is-not-modelled)
7. [Plan](#7-plan)

To run: `tlc -config MCCfg.cfg MCCfg` and `tlapm CfgProofs.tla`, likewise for
the others.

## 1. The system

A `Unit` holds functions (`Fun`) and memory objects (`Mem`); a function holds
registers, stack slots, jump tables (`Jtb`) and basic blocks (`Bbl`); a bbl holds
instructions (`Ins`). Every pass takes a function, changes it in place and leaves
analysis results in it (edges, live_out, operand_defs) that later passes trust.
The passes run one after another on one thread. The only concurrency is in the
C++ tools: a debug web server runs beside the main thread.

| component | state it keeps | operations | hard about it | what makes it correct |
|---|---|---|---|---|
| liveness (`Base/liveness`) | live_def/use/in/out per bbl, a worklist | fixpoint, removal of useless instructions | stale skip tests, duplicates on the worklist, loops | live_out is the least solution, i.e. exactly what some path reads; the fixpoint ends; no removed write is read |
| live ranges (`Base/liveness`) | ranges open at the current position, last call | one backward walk over a bbl | calls, argument and result registers, ties in the order | a range covers exactly where its value is needed; the live-across-call flag is exact |
| linear scan (`Base/reg_alloc`, `CodeGenA32/regs`) | free registers, reserved ranges, spilled ranges | allocate, give back, spill an earlier range, rewrite, rescan | backtracking, two halves of the pool, s- and d-registers that overlap | no register is held twice; the rewritten bbl computes the same; it does not run out |
| control-flow graph (`Base/cfg`, `Base/sanity`) | layout, edges both ways, jump tables | split, build edges, drop and re-insert branches, remove empty bbls | double edges, shared tables, self loops, the last bbl | the function means the same; edges are what control can do |
| reaching definitions, propagation (`Base/reaching_defs`) | definitions at bbl entry, operand_defs | fixpoint, constant, register and load/store propagation | results used after later rewrites; folding in unbounded integers | an operand's definition is the only one that reaches it, when used |
| register statistics (`Base/reg_stats`) | per register: uses in one bbl or several, across calls | classify, rename local uses | renaming per bbl, counts as a bound | every use keeps its value; counts suffice for allocation |
| opcode tables (`Base/opcode_tab`, `Base/ir`) | none | operand kinds and type rules of every IR opcode, checks before code generation | order of pushed and popped arguments | what passes the checks can be compiled |
| lowering (`Base/lowering`, `Base/canonicalize`) | scratch registers, constants in memory | rewrite one instruction into several | widths, signs, corner cases | the replacement computes the same value |
| legalization, calling convention, global allocation (`CodeGenA32/legalize`, `regs`) | register pools, reg.cpu_reg, stack slots | bring into the form the patterns want, bind arguments, choose pools, assign, spill to the stack | counts and pairs of registers, moves in parallel, offsets that depend on later slots | two values live together never share a register; nothing that passes the first check gets stuck |
| instruction selection (`CodeGenA32/isel_tab`, `codegen`) | the emit context: saved registers, frame, scratch | match patterns, fill in templates, prologue and epilogue | a range for every immediate, and every gap between two | the words do what the function says |
| instruction tables (`CpuA32/opcode_tab`, `CpuA64/opcode_tab`) | none | assemble and disassemble an instruction word | scattered operands, overlapping patterns | one is the inverse of the other; the most specific opcode is found |
| text form (`Base/serialize`) | forward-declared functions and bbls | parse line by line | use before declaration | every reference resolves to the one declaration |
| assembler (`CpuA32/assembler`) | sections, symbols, local symbols, relocations, the current function and section | one per directive, linking, relocation | use before definition, local names | every reference ends at its one definition; a program is refused for a cause only |
| ELF files (`Elf/elfhelper`) | sections, segments, file | lay out, save, load, verify | addresses and offsets advance together | the file can be loaded; reading it back loses nothing |
| C front end (`FrontEndC`) | AST, fresh names, meta data | transformations, translation to IR | control flow of C, name capture | the transformed statement does the same |
| stripes and handles (`Util/stripe`, `Util/handle`) | free list through the elements | New, Del, statistics | users overwrite the links | an element is free or held, never both, never neither |
| search tree (`Util/bst`) | left, right, parent in the items | add, delete, find, iterate | rotations and deletions must keep parent links | iteration and lookup see exactly the items, in order |
| lists (`Util/list`) | next, prev in the items, head and tail in the container | insert, append, unlink, iterate | container as sentinel at both ends | forwards and backwards give the same sequence |
| breakpoints, web server (`Util/breakpoint`, `Util/webserver`, the tools' `main`) | mutex, condition, flag; the page | Break, Resume, serve a request | interleavings, spurious wakeups, unlocked reads, assertions that fail on either thread | no lost wakeup, no false link, every handler returns |

Interactions. The tools call parse -> `FunCfgInit` -> optimizer passes ->
`FunCfgExit` -> legalize -> global allocation -> local allocation -> selection ->
assembler -> ELF file. Everything from the legalization on trusts the passes before
it and stops with an assertion otherwise. `FunCfgInit` gives every other pass its
edges. Liveness feeds the removal of useless instructions, the register statistics
and, as live_out, the live ranges; the ranges feed the linear scan, whose bound
registers come from global allocation. In C++ every IR object is an element of a
stripe, found through a search tree and linked in lists. The console's server thread
reads all of that while the main thread runs.

## 2. Modules and what they model

A pass is a sequence of actions, one per turn of its worklist or loop where
intermediate states matter (the solvers, the scan) and one per pass where only the
result does (the control-flow graph, the back end). A `for` loop that destructively
updates as it goes is a fold with the same order of updates. `pc` names the place
in the caller. Definitions marked `mutant` are not part of the models: each is a
plausible bug used to confirm that a property can fail.

**LivenessSolver** - the contract of the two solvers: take any active bbl, merge
what it needs into its predecessors, activate those that grew; the visited bbl may
stay active (a worklist with duplicates). `Visit` is the body of the loop without
an order. Programs (`pred`, `live_def`, `live_use`) are constant variables, so one
run starts from many.

**Liveness** - `liveness.py`, lines 14-186, and the same passes of `liveness.cc`;
`lang` says which of the two runs. `prog` is the function; instructions are abstracted
to the registers they write and read, those a call returns results in, and whether
they have a side effect. `ComputeDefUse`; `Visit` (one turn of `_FunLivenessFixpoint`
with its skip by set size and its membership test) or `VisitCC` (one turn of the
port's loop: a stack and a set of active bbls, the set never refilled, BblLiveIn never
stored); `BblRemoveUselessInstructions` (one bbl). `ImplementsSolver` maps `active`
to the set of its elements and, before the first step, to all bbls.

**ReachingDefs** - `reaching_defs.py` and `reaching_defs.cc` as `FunOptBasic` runs
them: the solver (`Visit`, `Publish`), `FunPropagateRegs`, `FunPropagateConsts`,
`FunLoadStoreSimplify`, and the part of `FunStrengthReduction` that turns
`lea x = y 0`, which the others produce, into a `mov`. A definition is a place in the
code, or the bbl at whose start several meet. What Python and the port do differently
is in `SameDef` (value or handle), `Changes`, `Init` and `Settled` (what an undefined
register is: in the port no definition, so what it meets wins; in Python one of the
first bbl's own) and `ReduceLea` (whether `operand_defs` are cleared). Each rewrite is a
fold over the layout that changes the code while it looks at it, so a later
comparison sees instructions already rewritten. Operand kinds are left out: the passes
do not read them. Constant folding, which needs two constant operands, is left out.

**LiveRanges**, **BblLiveRanges** - `BblGetLiveRanges` with its closures
(`initialize_lr`, `finalize_lr`) as operators on the state of the walk, `last_use`
and the last call among it; and the specification of local register allocation that
`local_regs` checks (`AllocSpec`): a behaviour either computes the ranges of one bbl, which
are compared with liveness read off the instructions, or is one of `LinearScan`, which
computes them for its own bbls. `Before` is `LiveRange.__lt__`.

**LinearScan** - `_BblRegAllocOrSpill` of `CodeGenA32/regs.py` with the Fancy
assigner and `InsSpillRegs` of `Base/reg_alloc.py` and the pool `RegPoolArm`.
A machine register is a set of units, so a d-register is two s-registers. `Scan`
is one turn of the assigner's loop, backtracking included; `SpillAndRescan` the
rewriting and the second round; `pc = "failed"` an assertion. A bbl's meaning is
obtained by running it over registers and slots with every written value new.

**Cfg** - `Base/cfg.py` as `FunCfgInit` and `FunCfgExit` of `optimize.py` call it,
and `FunCheckCFG`. One action per pass. Between the two, `DropIns` and `FoldCondBra`
stand for the passes that take instructions away (other passes rewrite
instructions and leave control flow alone). Derived names are bbl numbers, which
makes them fresh as `NewDerivedBblName` does. A function's meaning is what
instruction comes first, and next after every outcome of every instruction.

**IrOpcodes**, **Lowering**, **A32Isel**, **CodeGenA32** - the back end for one
function. `IrOpcodes` is the table of `Base/opcode_tab.py` as records (operand kinds, type
rules, attributes) with the checks of `sanity.py`; `Lowering` the rewriters of
`lowering.py` and `canonicalize.py`, each from an instruction to the instructions that
replace it; `A32Isel` the patterns of `isel_tab.py`, how one is found and how its
templates become words; `CodeGenA32` the passes of `legalize.py`, `regs.py` and
`codegen.py`, one action each, in their order. `phase` is the next pass, `phase = "failed"`
an assertion; `ok` of a function carries one out of a nested rewrite. Constants are sets
of bits (`Wide` of them, wider than any kind), so that every range check of a pattern is
the one of the source. A machine register is `<<class, number>>`; `Units` gives a
d-register its two s-registers.

**IrMeaning**, **CodeMeaning** - the reference. `IrMeaning` runs a function as the
descriptions in `opcode_tab.py` have it, in 32 bits, with floating point results as
uninterpreted terms; `CodeMeaning` decodes the generated words with the table of
`CpuA32/opcode_tab.py` and runs them on a model of the processor, with flags, addressing
modes, calls that trash what a callee may, and the Linux system call. Two runs are the
same when the calls, traps and returns, with the values they pass, and the memory
outside the frame are.

**BitFields**, **A32Opcodes**, **A64Opcodes**, **Encoding** - `CpuA32/opcode_tab.py` and
`CpuA64/opcode_tab.py`: bit ranges and their modifiers, operand kinds, and every opcode of
both tables in the order of the source. A word is the set of its 1 bits. `Encoding` takes
a word apart and puts it together, or the other way round.

**ObjectFile**, **Assembler** - `Elf/elfhelper.py` for 32-bit executables, and
`CpuA32/assembler.py` with its tool. One action per directive, then `EndOfUnit` (start-up
code and linker symbols), `Assemble` (layout and relocations), `SaveExe`, and what
`elfhelper.py`'s clone mode does: `LoadExe` and `Clone`. Every directive's assertion is its
guard, and its failure ends in `refused`. Sections keep sizes, and the words that
relocations patch; other bytes are left out. `refs` and `defs` are ghost variables that
record what the text says.

**SeqFolds** - `FoldForward` and `FoldBackward`, as functions of the number of elements
done: a loop of the code is a fold, and this form can be both evaluated by TLC on
long sequences and reasoned about. `RECURSIVE` operators occur only in `Bst`,
`IrOpcodes`, `IrMeaning` and `CodeMeaning`, of which nothing is proved.

**FoldTheorems** - what the proofs need to know of loops (section 5). The proofs about a
module M are in `MProofs`, those about `Stripe` and `DebugConsole` in `UtilProofs`.

**Bst** - `Util/bst.h`. `BstAdd`, `BstDel`, `BstFind` and `BstIter` as operators
on a tree's links, written in the order the code writes them, deletion by its recursive
call included. The hash that gives priorities is any assignment to handles.

**StripePool**, **Stripe** - a pool of elements, and `StripeGroup` with its free
list threaded through the first word of free elements. `Write` is what holders may do:
overwrite that word, in any elements they hold, with anything.

**RegTable** - registers of the C++ version, which puts `Bst` over `Stripe`:
`RegNew` and `FunRegAdd` (from a parsed name or `FunFindOrAddCpuReg`, which look it up,
and from `FunGetScratchReg`, which does not), and `FunDropUnreferencedRegs` with
`FunRegDel` and `RegDel` for each register. Every call is a step. The
REG group's first stripe is `RegBst`, whose first word is `left`: `word` is the free
list's link and the tree's left link. Functions share the group and have a tree each.
`ImplementsStripe` is the contract between the two: a step of a tree is a `Write`.

**BreakPointSpec**, **DebugConsole** - what a breakpoint promises; and
`codegen_tool.cc`'s `main`, the server's loop, and `Break`/`Resume` at the
granularity of lock, unlock, wait, wake and notify. `optimize_tool.cc` is the case
without early returns. A page is rendered row by row, reading `ready_` unlocked.
`shown` is the set of links on it, and a link is dropped when its breakpoint is
resumed. Assertions fail on both threads (`WorkFails`, `ServerFails`: the socket, the
header of a request, writing an answer). What that means depends on `handler`: before
`SetAbortHandler`, which `main` calls after the server thread has started, the process is
gone; afterwards the thread that failed sleeps for good and the other one goes on. What the handlers print about IR and stripes is left out.

## 3. Runs: questions, bounds, results

Passing runs: every property listed holds on every reachable state or behaviour.

| run | question | instance |
|---|---|---|
| `liveness` | Do the Python pass and its port compute exact, least liveness, end, implement the contract, keep the invariant of the proofs, and remove only what nobody reads? | three bbls, two registers, six bodies, 25 graphs with loops, self loop and double edge, both languages; 115,872 states |
| `local_regs` | Are ranges, call flags and order exact? Is a register ever held twice, and does an allocated bbl still compute the same? | ranges: all bbls of three instructions out of ten, and of four with a call in second place; scans: six instructions, straight code, a call with argument, result and a global, mixed s/d-registers; 62,740 states |
| `reaching_defs` | Is each use's definition exact, and do rewrites that rely on definitions computed once keep what a function uses? | three bbls, two registers, 5,880 functions with loops, diamonds and double edges, entries that define both registers, one or none, both languages; runs of five bbls compared; 128,360 states |
| `reg_table` | Do the free list and the trees, in the same memory, stay exact through additions, refusals and deletions? | five registers, two functions, five names and one made up though it may be taken, two dropped at once; 1,975,973 states |
| `cfg` | Do the passes keep a function's meaning and edges, and when do their assertions fail? | 2,772 functions of three bbls, up to two edits; 109,184 states |
| `debug_console` | Do the two threads meet correctly? | two modes, both breakpoints, two spurious wakeups, any number of requests, a failure at any call of the server; 1,655 states |
| `encoding` | Is assembling the inverse of disassembling for each opcode, and is the opcode found the right one? | all 215 opcodes of the 32-bit Arm and 791 of the 64-bit Arm, each bit of each word, operands around each limit |
| `object` | Does every reference end at its definition, can the file be loaded and read back, and is a program refused for a cause only? | two functions with any two of nine pieces of code, six kinds of data, with and without start-up code; one rich program with a line left out, doubled or exchanged; a program whose local names are those of the generated code, one with half an instruction's alignment, one without code |
| `backend` | Do the generated words do what the function says, does every function that passes the first check get through, and do two needed values ever share a register? | 186 functions, up to 100 IR steps for each of three or four sets of arguments; 3,117 states |

Bounds, and why they are enough.

- Liveness treats each register on its own, so one or two registers show all
  interactions (the second is needed for copies). Three bbls allow a loop within a
  loop, a bbl on two paths and an unreachable one; the proof covers the rest.
- `MaxEdits = 2` in `cfg` is enough to empty a bbl of two instructions, and to
  drop both a plain instruction and a branch; `Functions` mixes entries, middles and
  ends so that double edges, shared tables, chains of empty bbls and trailing empty
  bbls occur together.
- Four core registers, two on each side of a call, and two d-registers make
  spilling and backtracking the normal case: 1,457 of the 2,394 bbls are rescanned
  after spilling. In 666 the registers do not suffice and the second round's
  assertion fails; `MeaningPreserved` speaks of the 1,728 that succeed.
- `MaxPath = 5` bbls visit every bbl of a loop of two twice and leave it, so a
  value from an earlier turn can be confused with one from a later turn.
- Five registers in one tree make every shape of a node's neighbourhood (two
  children, successor a child or deeper, with or without a child of its own), and
  names meet handles, and so priorities, in every order. `MaxDead = 2` lets
  a register be unlinked after another one was freed. Links of a free element, which
  are never read, are given one value.
- `encoding` has no bound on the tables. Bits of a word are tried alone, together and
  flipped in the pattern; since ranges are copied bit by bit, words that differ in one
  bit tell all ranges apart. The theorems (section 5) are about all words and operands.
- The functions of `backend` reach every group of patterns: each integer and float
  operation with registers and with constants on both sides of each limit (8 bits
  rotated, 12 bits, 16 bits, negated, inverted), loads and stores of every kind with
  every base and offset, frames just below and above each size the prologue treats
  differently, comparisons of equal, adjacent and opposite numbers and of unordered
  floats, calls with swapped and mixed arguments, more values across bbls than there
  are registers, a loop, a switch, a trap, a system call. `MaxSteps` = 100 lets each
  of them return (the machine may take four times as many).
- Not among them, because the code is known to be wrong or has no pattern there (section
  4): shifts by 0 or by 32 and more, narrowing conversions, arithmetic in 8 and 16
  bits other than sums that are stored, `trunc`, halfword and signed byte loads with
  an offset other than 0 within a byte's range, a float constant pushed after another
  argument, two doubles as arguments that live across bbls.
- `MaxSpurious = 2` bounds wakeups without a notify; one suffices to wake early and
  a second to do it again after a re-check. The proofs allow any number.

Fairness. The passes are single-threaded and run to completion:
`WF_vars(Next)`. In the console both threads are scheduled (`WF` of each one's
steps) and a thread that repeatedly finds a mutex free gets it (`SF` of the lock
actions; each is held for a few instructions only). Nobody has to send a request,
so nothing says that a stopped thread is ever resumed; and no assertion has to fail
(`ServerFails` is outside `ServerStep`), so nothing holds only because one does.

The systems end: a pass is done, a program exits or waits for a request that need not
come, a group of registers is exhausted. `CHECK_DEADLOCK` is off, and termination is a
property where it is at stake.

How the main properties are stated:

- `CodeMeansSame` compares the run of the function before the first pass with the run
  of the words after the last, for every set of arguments, so that it does not matter
  which of the passes is wrong. `CodeGenSucceeds` says that what `FunCheck` accepts is
  never given up later. `LiveRegistersDisjoint` computes what is needed from the
  rewritten code, the registers that carry arguments and results included.
- `WordSurvives` and `OperandsSurvive` name the exceptions: rotated immediates in a form
  that the assembler does not choose, one 64-bit field, operands outside a range
  that no assertion checks. `MostSpecificFound` is why the order of the tables is right.
- `RelocsResolved` compares the finished words with the text (`refs`, `defs`), not
  with the relocations; `CloneFaithful` the file with its copy; `RefusedOnlyForCause`
  lists the causes.
- `LivenessExact` compares live_out with a definition by paths, `LeastSolutionAtEnd`
  with all solutions of the equations, so neither repeats the code's transfer
  function as its own justification.
- `RemovalKeepsWhatIsRead` speaks of the instructions that stay, over all bbls:
  none of them may read, on any path, a value whose writer is gone.
- `MeaningPreserved` and `BehaviourPreserved` compare the program before
  and after by running it, not by comparing its text.
- `DefsExact` compares the definition an operand was given with all that reach it,
  computed round by round over the edges (`Reaching`). A register no definition has
  reached may be read: then the comparison follows each language's own convention,
  the one the port states at `reaching_defs.cc:92-97`.
- `MeaningPreserved` of `ReachingDefs` has two conditions, each where the code claims no
  more: in Python no load or argument occurs twice (section 4), and in the port no
  undefined value is read, since the port takes it to be whatever it meets.
- In `reaching_defs` a run collects every address and value that is stored, loaded
  from or passed on, with each load and each argument a new unknown.
- `VisitsProgress` is why that solver ends: a visit shortens the worklist or moves
  what leaves a bbl towards the top, which has height two.
- `EdgesMatchCode` compares bags: a branch whose two targets coincide has two edges.
- `FailuresExplained` bounds the assertions: they fail only for an entry
  without instruction, code that falls off the end, a loop of nothing but branches,
  and (on the way back) a last bbl that has a successor.
- `NoUnitHeldTwice` relates three things the scan keeps apart: ranges, their
  registers, and the pool.
- `FreeListExact` says that the list is as long as there are free elements, and that each is in it.
- `LinkMeansStopped` is why the unlocked read of `ready_` is benign.

## 4. Where the code departs from what it says

Three runs look for one violation each, and TLC finds it.

- `cfg_spin` (`cfg.py:194-203`): a bbl that only branches to itself is its own
  successor when it is removed as empty. Its predecessors keep an edge to a bbl
  that is gone, and the assertion at `sanity.py:46` fails. Reproduced with the
  Python optimizer on `.bbl spin / bra spin`.
- `reaching_defs_py` (`reaching_defs.py:425`, also 331): instructions are compared by
  value where the comments speak of the instruction pointed to. A second `poparg b`
  passes for the first, and `mov a = b`, between the two, makes a use of `a` become
  one of the new `b`. Reproduced with the Python optimizer, which folds
  `sub x = a b` to 0. `MeaningPreserved` therefore asks of Python that no load or
  argument occurs twice; the port compares handles and needs no such condition.

- `global_regs` (`legalize.py:242`): the pool for values that live across bbls leaves
  out the registers in use for arguments, but compares s-registers with the
  d-registers of arguments. Two doubles that arrive as arguments and live across bbls
  overwrite each other. Reproduced with the Python code generator.

Further, seen while modelling. The first, third, fourth and fifth were reproduced with the
Python tools, the others are read off the code:

- `cfg.py:221`: a function whose last bbl branches back loses the branch; putting it back
  reads past the end of the layout. The assertion that should guard it is off by one.
  `FailuresExplained` names it among the causes.
- `reg_alloc.py:208`: four registers per class are not enough, contrary to the docstring,
  because an operand that the scan has passed already may be spilled to make room for
  another operand of the same instruction.
- `isel_tab.py:694-699`: loads of S8, U16 and S16 with an offset within a byte's range
  subtract a positive one and add a negative one. The stores (line 750) are right.
- `lowering.py:340`: a float constant that is pushed after another argument is loaded
  between the two pushargs, and `sanity.py:168` stops the compiler.
- `legalize.py:337`: a double that lives across bbls takes the next two s-registers of
  the pool, but its d-register is `s // 2`; the alignment check `no % 1` holds of every
  number. When an odd one is next, the d-register has a half that is not from the pool. With
  an F64 argument in `d0` and an F32 argument in `s2`, `d1` is assigned, and moving the
  double there destroys the float: `MCGlobalRegs.cfg` with `Functions <- DoubleThenFloat`
  shows it. Without a float in the way, as in one function of `backend`, an odd start only
  wastes a register.
- `isel_tab.py`: `shr x y 0` becomes a shift by 32; shifts by the width or more, `trunc`
  to a smaller kind and `conv` to a narrower kind lose their meaning; there are no patterns
  for float accesses with a register or a large offset, for conversions between
  float kinds, nor for several opcodes; a float access with an offset into a stack
  slot does not check that the sum is a multiple of four.
- `legalize.py`: the count of doubles (408) uses the wrong key; slots for spilled locals
  are made after the offsets that do not fit were rewritten. `regs.py:110` lets a
  seventh integer parameter pass.
- `CpuA64/opcode_tab.py`: `class Ins` (line 1167) lacks its decorator, so `Disassemble` raises;
  the bit number of `tbz` (line 298) is put together in the wrong order; scaled immediates
  (404) may spill into other bits; branch offsets wrap at twice their range. The 32-bit
  disassembler asserts what rotated immediates in another form do not satisfy.
- `elfhelper.py`: `_load_symbols` reads a field before it unpacks it; `Reloc.pack` misplaces a
  parenthesis; a segment that begins with `.bss` is not congruent; verifying refuses a
  later segment that happens to start on a page. `assembler.py` rounds a branch to data
  that is not on a word, patches relocations in `.bss` that no file holds, and accepts
  a `.mem` without its end as the last directive.
- `codegen_tool.cc`: the server thread starts before the abort handler is set (lines 213,
  216), so a port in use ends the tool or not by chance, and a tool that goes on may wait at a
  breakpoint nobody can resume, under the message "webserver still active" (160);
  the modes that return early never reach the breakpoint before exit
  and end in `std::terminate`; `webserver.cc` answers every request
  twice; an item of the "treap" may stay under one of lower priority, which costs
  balance and nothing else; a register whose made-up name is taken stays outside the
  port's symbol table.

## 5. Proofs

| theorem | module | says |
|---|---|---|
| `TypeCorrect`, `Invariance`, `SolverCorrect` | `LivenessSolverProofs` | for every set of bbls and registers and every order of visits: an empty worklist means live_out is the least solution |
| `CodeInvariance` | `LivenessProofs` | for every function, in Python and in the port: `IInv`, what the loop maintains |
| `Refinement` | `LivenessProofs` | likewise: each turn of either loop is a visit of `LivenessSolver` or a stutter (`ImplementsSolver`) |
| `LeastAtEnd`, `ExactAtEnd` | `LivenessProofs` | likewise: at the end live_out is the least solution, and is exactly what some path reads (`LeastSolutionAtEnd`, `LivenessExact`) |
| `RemovalSound` | `LivenessProofs` | likewise: no instruction that stays can read a value whose writer was removed (`RemovalKeepsWhatIsRead`) |
| `SolverInvariance`, `DefinitionsExact` | `ReachingDefsProofs` | for every function, in Python and in the port: each use gets an instruction exactly when that alone reaches it on all paths, and else a bbl (`DefsExact`) |
| `EveryVisitProgresses` | `ReachingDefsProofs` | likewise: each turn of the solver shortens the worklist or moves what leaves a bbl towards the top (`VisitsProgress`) |
| `LookupsSucceed` | `ReachingDefsProofs` | for every function whose bbls can all be reached: neither the publishing of the definitions nor any of the four rewrites looks up a register that has none (`NoLookupFails`) |
| `ScanHoldsUnitsOnce` | `LinearScanProofs` | for every bbl, register file and binding: no unit is held by two ranges at a time (`NoUnitHeldTwice`) |
| `AllocInvariance`, `AllocHoldsUnitsOnce` | `LinearScanProofs` | likewise for all behaviours of `AllocSpec`, which the run checks |
| `VirtualRangesAreExact`, `CpuRangesReachUses`, `LacIsExact`, `UsesComeFirst` | `LinearScanProofs` | for every bbl, set of live registers and binding: what `BblGetLiveRanges` finds covers exactly what is live, reaches the use of every value in a machine register, knows the calls inside, and sorts reads before writes (`VirtualRangesExact`, `CpuRangesCover`, `LacExact`, `UsesPrecedeDefs`) |
| `FreeListIsExact`, `NewReturnsFreeElements` | `UtilProofs` | for a group of every size: the free list is exact; the group implements the pool |
| `MutexesHeldAsWritten`, `ResumeLinksExact` | `UtilProofs` | for every set of modes and any number of spurious wakeups: mutexes are held as written; links are exact |
| `BreakPointSteps` | `UtilProofs` | likewise: every step is a step of `BreakPointSpec` or a stutter |
| `EdgesAreTheCode` | `CfgProofs` | for every function: after `FunCfgInit`, after the edits in between and after `FunCfgExit` the edges are, as often, the ways control can leave a bbl, and `edge_in` mirrors `edge_out` (`EdgesMatchCode`) |
| `ExitOnlyFailsAtTheEnd` | `CfgProofs` | likewise: `FunCfgExit` raises an assertion only if the last bbl of the layout falls through (the second half of `FailuresExplained`) |
| `WordsSurvive` | `EncodingProofs` | for every word that an opcode of either Arm matches: taken apart and put together it is the same, but for the exceptions named (`WordSurvives`) |
| `OperandsAreReadBack` | `EncodingProofs` | for every list of operands of every opcode that is accepted and does not spill: the word gives the same opcode, or one known to be written before it, and the same operands (`OperandsSurvive`) |
| `MostSpecificIsFound` | `EncodingProofs` | for every word: of the opcodes it matches, `FindOpcode` gives the one that fixes most bits (`MostSpecificFound`) |
| `FlipInverts` | `CfgProofs` | for every conditional branch: the inverted branch is taken exactly when the old one is not |

### Assumptions

They are the named ASSUMEs of the modules; TLC evaluates them in the runs.

- `Liveness` (`Shape`): the layout has each bbl once, there are finitely many
  registers, and an instruction that returns results in registers has a side effect. In
  the source these are the calls, and both call opcodes are declared with
  `OAS_SIDE_EFFECT` (`opcode_tab.py:108`, 595-610). Nothing is assumed of the graph:
  unreachable bbls, self loops and double edges are included.
- `ReachingDefs` (`ReachingDefsAssumption`): the types of a function, a layout that is
  not empty, and that a bbl, an instruction's place and "no definition" are different
  things. Nothing is assumed there of the graph or of which registers are defined.
  `ProgramsAssumption`, which only `LookupsSucceed` uses: a `mov` has two operands, an
  access three, with a register or a number for its offset and a memory object as the
  base of `lea.mem` (`opcode_tab.py:668-717`); registers, memory objects and numbers
  differ; and every set of bbls that has the first one and is closed under edges has all
  of them. The last is the precondition that `FunComputeReachingDefs` states: "This
  should be run after unreachable code has been removed" (`reaching_defs.py:97`).
  No pass before it removes such bbls in general (`FunCfgInit` drops instructions behind
  a branch, empty bbls and an empty last one), so it is a condition on the input: an
  unreachable bbl that reads a register makes Python's publishing fail. The solver's
  theorems do not need it.
- `LinearScan`: `CpuRegAssumption` - core and floating point registers have no unit in
  common (a register of 64 bits may share units with others of its own family in any
  way); `PinnedAssumption` - a register bound beforehand is bound to one of its kind;
  `BodiesAssumption` - an instruction has at most `MAX_OPERANDS` operands
  (`opcode_tab.py:10`), a call names none that it writes (`_OFS_NO_DEF`,
  `opcode_tab.py:85`), and a bbl, even with a load or store around each operand, has
  fewer than `AFTER_BBL` = 32000 positions, without which `liveness.py:214` takes a
  position within the bbl for one behind it; `UnitAssumption` - units are numbers.
- `BblLiveRanges` (`RangesAssumption`): live_out is a set, listed in some order; only the
  last instruction of a bbl is a ret; a call names no register it writes; the bbl has
  fewer than `AFTER_BBL` positions; and a call does not name as its target a register
  bound to a machine register that holds one of its arguments. Registers are bound before
  local allocation by the conversion of arguments, whose registers no other instruction
  names but a mov (`regs.py:117-173`), and by global allocation, which leaves out machine
  registers that arguments use (`legalize.py:238-246`).
- `Cfg` (`FunctionsAssumption`): a function's instructions refer to its own bbls and jump
  tables, and its layout names each bbl once: `AddBbl` refuses a second one of that name
  (`ir.py:448-452`), and `FunSplitBbls` and the parser a bbl that is mentioned and never
  defined (`cfg.py:62`, `serialize.py:483`). Nothing is assumed of where the branches lead, of code that cannot be reached or of the end
  of the layout: that is what the assertions of the passes are for. (`OrdersAssumption`
  only bounds the run.)
- `Encoding`: `TablesAssumption` - every opcode is `WellFormed`, which its constructor
  asserts (`CpuA32/opcode_tab.py:623-637`), and its operand kinds are as the loop behind
  `FIELD_DETAILS` (430-443) asserts and as the entries are, a high range before a low one but
  for `tbz`'s; `SeparabilityAssumption` - of two 32-bit opcodes that share a word the first
  fixes more bits and is one that `_CheckDiscriminantSeparability` (697-740) knows, and no
  two 64-bit opcodes share one; `NibbleAssumption` - numbers below 16 are the sets of
  their bits; `InputAssumption` - words and operands have 32 bits. All but the last are about the
  two tables of the source and nothing else, so `encoding`, which evaluates them on all 1006 opcodes
  and all pairs of them, settles them; nothing is assumed of the words.
- `Stripe`: a group has at least one usable element. `DebugConsole`: `None` differs
  from the breakpoints and the threads, the modes that return early are modes.
- `IrOpcodes` has `TableWellFormed`, which no theorem uses: TLC evaluates it.

### How loops are proved (`FoldTheorems`)

A loop of the code is a fold, and a fold is a recursive function. The library's
induction theorems take a predicate as a parameter, which the provers at hand cannot
instantiate; so induction is over a *set* of numbers. `Least` (every non-empty set of
naturals has a least element) follows from the library's well-foundedness of `<`;
`Induction` from it: a set that holds 0 and with each number the next holds all.
`Iteration` shows that a recursively defined function exists and obeys its equation,
and `Looping` the same of a loop whose body makes sense only while its invariant
holds. `Stays` and `StaysBackwards` carry a set of states through the rounds.
`ChainStops` says that sets growing within a finite one stop growing after as many
rounds as it has elements, which closes definitions by paths. For each loop there is
then a lemma "the fold is the last of these rounds" (`PythonLoop`, `SweepLoop`,
`WalkLoop`, ...). They are alike, because a lemma cannot take the loop's body as a
parameter either. The rest of the module says what pushing, popping, reversing,
concatenating and flattening do to the elements of a sequence.

### The arguments

*LivenessSolver.* "An empty worklist means least solution" is not inductive: it says
nothing before the end. `IInv` adds two facts. `SettledUnlessActive`: what an
inactive bbl needs, its predecessors have, which at the end makes live_out a
solution. `BelowEverySolution`: live_out is below every solution, which makes it the
least. A visit keeps the first because every bbl that grew is activated, the
second because what a bbl needs is monotone in its live_out (`NeededInMonotone`).

*Liveness.* The loops are dealt with first: one turn over `edge_in` hands live_in to
each predecessor once or more often, in either language to the same effect
(`PythonMerges`, `PortMerges`); `DefUseExact` and `Sweep` say what the two walks over a
bbl's instructions compute. `IInv`, which `liveness` checks too, then says why the
skip of `liveness.py:156` is right: Python's live_in is what the bbl has already
handed to its predecessors, so one of the same size, being included, is the same
(`SameSize`); in the port live_in stays empty and the set beside the stack is a subset of
it, so a bbl that is thought absent may be pushed twice and none is forgotten. With
that, a turn is a `Visit` of the solver or changes nothing it sees (`SolverStep`), and
`SolverCorrect` carries over through the instance `Facts`. `ExactAtEnd` needs both
directions of the definition by paths: what no bbl after b needs is not needed where b
leads (`ReachedNotNeeded`), and what is read on a path is in every solution
(`ReadFromNeeded`). For the removal, `RInv` says that a bbl already rewritten is what
one sweep from its live_out leaves (`Swept`); a removed write is dead at its place
(`DeadStays`), and the live sets, which are not recomputed, do not grow by removals.

*ReachingDefs.* `DefsExact` speaks of the end only. While the solver runs,
`SolverInv` says: what left a bbl is its own last definition or what came in when it was
visited, which can only have moved to the top since (`Carried`); what a bbl not on the
worklist would let out it has let out (`SettledUnlessActive`); what left a bbl is merged
into its successors (`Merged`); and a definition stands at the entry of a bbl only if it
reaches it, the bbl itself only if several do (`AllJustified`). With an empty worklist the
first three make the maps cover everything that reaches a bbl, the fourth makes them
claim no more. `Reaching` is computed in as many rounds as there are bbls;
`ReachingClosed` shows that another one adds nothing. Python's comparison of
instructions by value goes into their operands' definitions, and the model bounds how
deep; while the solver runs no operand has one, so it is the comparison of opcode and
operands (`SameDefIs`). `UndefinedKnown` is how Python treats a register that a function
reads before it writes it. `SolverInv` was also evaluated by TLC on all states of
`reaching_defs`.

`LookupsSucceed` follows the rewrites, whose maps have an entry only for registers that
are *defined* at a place: something came into the bbl for them, or an earlier
instruction of it writes them (`Defined`). In the port an undefined register has the bbl
itself as its definition, so nothing fails. In Python `LookupInv` says that the code is
*sound* after every pass: each instruction writes what it wrote at first, reads
registers defined at its place, and refers only to definitions from places before which
nothing is defined that is not defined here too (`Before`). This is what makes
replacing an operand by an operand of its definition harmless: that operand, and the
definitions *it* refers to, are defined here as well (`Inherited`). Code becomes sound
when the definitions are published: a definition that is defined at the end of a bbl is
known in its successors (`DefinednessFlows`), hence a register that is read first
anywhere is known everywhere (`ReadsKnown`, from the first bbl's own definition and
reachability), and what is defined where a definition is made is known wherever that
definition reaches (`ReachingBefore`, along the rounds of `Reaching`). It stays sound
in every round of a pass over the layout (`WalkSound`), in whose course the map holds
every register that is defined at the next place (`Ready`, `AtPlaceSound`); each
rewrite has a lemma (`PropagateSound`, `ReduceSound`, `SimplifySound`).

*LinearScan.* `ScanHoldsUnitsOnce` says more than that a free unit is given out: a
range is spilled *earlier* than the place of the scan to make room, has given its
register back already or not, and reserved ranges lie ahead. The invariant `ScanInv` has four
parts (`Sound`), of the ranges handled so far. `Kinds`: a register is of the range's kind.
`Reserve`: a reserved range that needs a unit of it does not overlap; this is what looking ahead
in `has_conflict` gives. `Later`: of two ranges that hold a common unit, both not
spilled, only the later one can still be live; it holds because the range the code spills is the
latest suitable one, so nothing else that is live holds its units. `NotFree`: the units of a live
range are not in the pool. To start with, what the walk over the bbl
produces must have the shape the scan relies on (`WellFormed`: a range starts before it ends, a
use entry names ranges that started before it, one per position): `LiveRangesShape`
proves it of `BblGetLiveRanges` by an invariant of the walk, and `Sorting` that the
order is one. After a spill, the rewritten bbl is again a bbl of the
kind assumed (`SpillingBbl`) and the second round spills nothing, which the code asserts;
where the assertion fails the scan stops. `ScanInv` was also evaluated by TLC on all
states of `local_regs`.

*LiveRanges.* The properties speak of the finished list; the walk goes backwards, and what
it knows at a position is `Known`, eight facts about the positions behind it. A range is open,
and then the one `last_use` names, or starts at p or later (`Settled`). The virtual registers
that have an open range are those that are live in front of p (`Entered`), and behind p
exactly one range covers each position where one is live (`Exactly`). `call_pos` is the next call, or
tells that there is none (`Nearest`); complete ranges are flagged for the calls in them (`Flags`).
A value in a machine register whose definition is still to come either has an open range
that reaches its use, or the next call takes it and the walk knows (`Reaches`); from a
definition already met, a range reaches the use (`Feeds`). A use entry names each range that ends
there once (`Named`). None of these is inductive alone: `Exactly` needs `Entered`, because a
definition closes the range that is open; `Feeds` needs `Reaches`; `Named` needs that a range is
not left ending at a read because the call takes the register. An instruction is first
described as a relation (`Passes`: what the call, the written and the read operands do to
each range, from a loop lemma for each of the two lists), and each fact has a lemma that
carries it over that relation (`SettledStep` to `NamedStep`); `WalkStart` deals with the registers that are
live at the end, `WalkAll` with the fold over the instructions, and `RangesFound` with the
ranges that are left open and start in front of the bbl. The ranges of registers that are bound
and those that are not are treated apart, as in the code: a call ends a range of
a register it returns a result in, and others of bound registers it lets run, which is why
`CpuRangesCover` promises less than `VirtualRangesExact`.

*Stripe.* `FreeListExact` quantifies over sequences of the right length so that
TLC can evaluate it. The proof's `FList` quantifies over all sequences and is
inductive with the types: `New` takes the head of the witness off, `Del` puts an
element in front (`DelKeeps` builds it), a write changes only held elements, which are
not in it. The length then follows: the list maps its positions one to one to the
free elements (`ListIsExact`, with `FiniteSetTheorems`). The refinement needs only that
`first_free`, if not 0, is an element of the list and thus not held. `StripeSpec` is
what these theorems are about, and `reg_table` checks that registers are a
`StripeSpec` (`ImplementsStripe`), so they hold of registers too.

*Encoding.* The run tries each bit of each opcode; 2^32 words, and operands in every combination,
are for the proof. Loops over the ranges of an operand are unfolded, there are three at
most (`TakingRanges`, `PuttingRanges`). What a range gives is taken back by its modifier
(`DecodedIsTaken`, `TakenIsDecoded`; `RotationReturns` for the rotated immediate, of which only the
value returns, not the rotation); joining ranges and splitting a number are inverse
(`Joining`, `Splitting`). So an operand read from a word is accepted, with the same bits
(`OperandOfWord`), and an operand accepted that does not spill is read back from every
word that has its bits (`WordOfOperand`). The pattern and the operands share
out the word (`OpcodeParts`), which makes the same true of whole words (`WordReturns`,
`OperandsReturn`). `FindOpcode` is the first match in the table in both files (`Finding`): the
lists by top byte of the 64-bit one lose no match. Two opcodes that match
a word agree where both have a fixed bit, so `SeparabilityAssumption` applies (`LessSpecific`).
`IInv` says what `ins`, `operands` and `word` are at each phase.

*DebugConsole.* `TypeOK` says which thread holds which mutex. `LinkMeansStopped` is
not inductive: rendering the next row must know that a flag that is false now
belongs to a breakpoint the main thread is at. That is
`NotReadyMeansStopped`; it holds since only `Leave` goes on and `Leave` waits for the
flag. `RowsOK` and `NotYetServing` support it; the latter also says that a failure of the
server aborts the process only while `main` is about to set the handler, so not while it is
in a breakpoint. `BreakPointSteps` maps each step to the
abstract breakpoints (`Effects`: `Clear` stops one, `ResumeSet` releases one, `Leave`
passes one, nothing else moves any). It needs one more invariant, `PassedInOrder`:
the breakpoints are hit in their order and once each, so the one that is hit has not
been passed. That a resumed breakpoint is passed in the end needs fairness and stays
with `debug_console`.

*Cfg.* `EdgesMatchCode` speaks of three places; the inductive invariant `Passes` says what
each pass hands to the next one. `FunSplitBbls` leaves every bbl tidy, with a
terminator at its end at most (`LaidOut`). `FunInitCFG` makes a flow graph (`Graph`): edges
mirrored, and a switch has as its edges its table, in order; a bbl with nothing but a
branch has a successor (`Edged`, `Unbranched`), so the loop that removes empty
bbls always finds one. `FunRemoveEmptyBbls` keeps `Graph` only: a jump table may
be shared, and is patched for one switch while the edges of the others, not yet handled, still
lead to the empty bbl. So the invariant of its inner loop (`BypassUpto`) says of the
switches handled that their edges are their table, and of the others that they are once the
replacement is made. What the rest of the code assumes is not kept
but checked there: the number of edges of each kind of bbl comes from `FunCheckCFG`
(`Checked`, `Shaped`). That is enough to know the way on: of a conditional branch's two edges,
whichever is not the target (`ChecksFit`). Dropping an instruction and folding a
branch keep it (`DroppingIns`, `FoldingBra`). In `FunAddUnconditionalBranches` the bbls handled so far form
a row in which each fits the one behind it (`Row`), the others are as they were,
and new bbls have the numbers above the old ones (`LinUpto`); the three cases (kept, a
branch or an inversion, a bbl with a branch) have a lemma each (`KeptRound`, `ChangedRound`,
`SplicedRound`). Edges are compared by how often each occurs (`Times`), which is what a
bag is and what the operations on edges can be described by
(`CountingReplaceAll`, ...). For `ExitOnlyFailsAtTheEnd` the rounds
also keep the shapes and that no edge leads out of the layout (`Formed`); a function with
both and its edges in order passes the check (`InOrderPasses`), so only the assertion
in `FunAddUnconditionalBranches` is left.

`FlipInverts` is the fact behind `BehaviourPreserved` in
`FunAddUnconditionalBranches`: the table of inversions and the test of every operator
agree for operands that compare as less, equal or greater. For unordered
operands it would be false, which is a hazard without a property.

## 6. What is only model-checked, and what is not modelled

Only model-checked:

- termination, that handlers return (`HandlerReturns`) and the liveness half of
  `ImplementsBreakPoint`: liveness under fairness is outside what TLAPS proves here;
- both `MeaningPreserved`: that rewriting with definitions computed once, and that
  spilling, keep what a program computes. Both compare two runs of a program;
- that the control-flow graph keeps the meaning of a function (`BehaviourPreserved`), and
  the causes for which `FunCfgInit` fails (in `FailuresExplained`): both follow a function
  through its empty bbls, a recursion over data;
- `Bst` and `RegTable`, whose operators are recursive;
- the assembler and the back end: `Loadable`, `RelocsResolved` and the like speak of the sums of many
  sections' sizes, `CodeMeansSame` of two runs of a program, which are recursive (`IrRun`,
  `MachineRun`).

Left out of the models, on purpose: names, text and layout of the IR; operand kinds
and constants in passes that look only at registers or only at control flow;
unordered (NaN) comparisons in `Cfg`, for which the IR fixes no meaning; the data race
of the page handlers with the passes; sockets, and signals that end the process from
outside (a write to a closed connection among them); a build with `NDEBUG`, where `ASSERT` is
empty. In `LinearScan`, the cursor of `PreAllocation` (`reg_alloc.py:19`): the first range that
has not ended is searched for, which finds the same one while the ranges are scanned in
order; and the assertion of `add` that reserved ranges arrive in that order. In `CodeGenA32`: the
optimizer before the first check; `FunCfgExit`, which `Cfg` has (the model's functions
already have their branches), and `FunSeparateLocalRegUsage`, which gives each bbl names
of its own for local registers; spilling within a bbl, which `LinearScan` has
(the model stops with `failed` instead); `order`, the names in sorted order, is given. In
`ObjectFile`: 64-bit files, notes and other segments that overlap, and reading
relocations.

Not modelled at all: the text form of the IR, the C front end, the C back end's text,
disassemblers, test programs, the standard library (programs in the IR), and the
tools that draw pages for people. `PROJECT.json` gives the reason for each.

## 7. Plan

Done: the analyses and allocation of one bbl, reaching definitions and what is built
on them, the control-flow graph, the support library's allocator, tree and
console; the tables of instructions and their encodings, the assembler and ELF
executables; the back end from the IR to instruction words, composed of lowering,
the calling convention, live ranges, both register allocations, selection and encoding.
Proved: both data-flow solvers, the removal of useless instructions, that the rewrites
find every definition they look up, live ranges, the linear scan's use of registers, the edges of
the control-flow graph and when the way back from it fails, the encoding of instructions, the stripe
allocator, the console's breakpoints.
Next, in order:

1. **LinearScanProofs**, second part - that every value is where its readers look
   (`MeaningPreserved` of `LinearScan`), from an invariant of registers and slots.
2. **Assembler** - that sections laid out one after another are disjoint and
   aligned, for every number and size of sections.
3. **CfgCC** - the C++ control-flow graph with edges in intrusive lists, composed
   with **List** (`Util/list.h`), against `Cfg` as its specification.
4. **Serialize** - forward declarations: every reference resolves to one
   declaration; parsing what was rendered gives the same unit.
5. **FrontEnd** - the control-flow transformations of the C front end; **StripeLayout** with
   its 32-bit sizes.
