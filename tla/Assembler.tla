----------------------------- MODULE Assembler -----------------------------
(***************************************************************************)
(* CpuA32/assembler.py and assembler_tool.py: a source text is parsed line *)
(* by line into a unit, the unit is linked into an executable, and that is *)
(* saved; Elf/elfhelper.py's "clone" mode then reads it back, verifies it  *)
(* and saves it again.  A line is a tuple: a directive with its arguments, *)
(* or <<"ins", opcode, reloc, symbol, local, addend>> with "reloc" one of  *)
(* the kinds of relocations or "none".  Of the bytes of a section only the *)
(* words that a relocation patches are kept, at their offsets.             *)
(***************************************************************************)
EXTENDS A32Opcodes, ObjectFile

CONSTANTS Programs,             \* source texts
          Startup               \* add_startup_code: subset of BOOLEAN

VARIABLES program, startup, pc,
          phase,                \* "parse", "link", "save", "load", "clone", "done", "refused"
          unit, exe, file,
          copy, cloned,         \* the file read back, and what it is written as
          refs,                 \* ghost: what each relocated word was written to mean
          defs,                 \* ghost: where each name was defined, and how aligned
          scope                 \* ghost: the number of functions ended

vars == <<program, startup, pc, phase, unit, exe, file, copy, cloned, refs, defs, scope>>

NoSection == "none"
EmptyUnit ==
    [sec |-> [n \in {".text", ".rodata", ".data", ".bss"} |->
                MakeSection(n, IF n = ".bss" THEN "NOBITS" ELSE "PROGBITS", TRUE, 1)],
     globals |-> <<>>, locals |-> <<>>, symbols |-> <<>>, relocs |-> <<>>, mem |-> NoSection, fun |-> NoSection]

Init ==
    /\ program \in Programs /\ startup \in Startup /\ pc = 1 /\ phase = "parse" /\ scope = 0
    /\ unit = EmptyUnit /\ exe = <<>> /\ file = <<>> /\ copy = <<>> /\ cloned = <<>> /\ refs = {} /\ defs = {}

----------------------------------------------------------------------------
(* Symbols and relocations.  The maps are functions from the names they    *)
(* hold to numbers of symbols.                                             *)

SymbolMap(u, local) == IF local THEN u.locals ELSE u.globals
Known(u, name, local) == name \in DOMAIN SymbolMap(u, local)
Bind(map, name, n) == [x \in DOMAIN map \cup {name} |-> IF x = name THEN n ELSE map[x]]
NewSymbol(u, name, local, sec) ==
    LET n == Len(u.symbols) + 1
        value == IF sec = NoSection THEN -1 ELSE u.sec[sec].size
        v == [u EXCEPT !.symbols = Append(@, [name |-> name, local |-> local, sec |-> sec,
                                              value |-> value, shndx |-> 0])]
    IN  IF local THEN [v EXCEPT !.locals = Bind(@, name, n)] ELSE [v EXCEPT !.globals = Bind(@, name, n)]

\* AddSymbol with a section: a new symbol, or the definition of one that was referenced.
CanDefine(u, name, local) ==
    Known(u, name, local) => u.symbols[SymbolMap(u, local)[name]].sec = NoSection
\* A plausible slip: the definition of a name that was referenced leaves its value alone.
AddSymbol_SectionOnly(u, name, sec, local) ==
    IF ~Known(u, name, local) THEN NewSymbol(u, name, local, sec)
    ELSE [u EXCEPT !.symbols[SymbolMap(u, local)[name]].sec = sec]
AddSymbol(u, name, sec, local) ==
    IF ~Known(u, name, local) THEN NewSymbol(u, name, local, sec)
    ELSE [u EXCEPT !.symbols[SymbolMap(u, local)[name]].sec = sec,
                   !.symbols[SymbolMap(u, local)[name]].value = u.sec[sec].size]
FindOrAddSymbol(u, name, local) ==
    IF Known(u, name, local) THEN u ELSE NewSymbol(u, name, local, NoSection)

\* A word of a section that a relocation will patch: AddReloc, then AddData.
AddWord(u, sec, word, kind, name, local, addend) ==
    LET v == FindOrAddSymbol(u, name, local)
        at == v.sec[sec].size
    IN  [v EXCEPT !.relocs = Append(@, [kind |-> kind, sec |-> sec, offset |-> at,
                                        sym |-> SymbolMap(v, local)[name], addend |-> addend]),
                  !.sec[sec].data = @ \cup {<<at, word>>},
                  !.sec[sec].size = at + 4]
AddBytes(u, sec, n) == [u EXCEPT !.sec[sec].size = @ + n]

----------------------------------------------------------------------------
(* UnitParse: one action for each directive.                               *)

Line == program[pc]
Reading(op) == phase = "parse" /\ pc <= Len(program) /\ Line[1] = op
NextLine == pc' = pc + 1 /\ UNCHANGED <<program, startup, phase, exe, file, copy, cloned>>
\* An assertion of a directive stops the tool.
Refuse ==
    /\ phase' = "refused"
    /\ UNCHANGED <<program, startup, pc, unit, exe, file, copy, cloned, refs, defs, scope>>
Guarded(ok, Step) == (ok /\ Step /\ NextLine) \/ (~ok /\ Refuse)

Defines(name, local, sec, align, u) ==
    defs' = defs \cup {[name |-> name, local |-> local, scope |-> IF local THEN scope ELSE -1,
                        sec |-> sec, offset |-> u.sec[sec].size, align |-> align]}
Refers(sec, kind, name, local, addend) ==
    refs' = refs \cup {[name |-> name, local |-> local, scope |-> IF local THEN scope ELSE -1,
                        sec |-> sec, offset |-> unit.sec[sec].size, kind |-> kind, addend |-> addend]}

\* A name in a section after padding it: the start of a function or of data, or a label.
Place(u, name, sec, align, local) == AddSymbol([u EXCEPT !.sec[sec] = PadData(@, align)], name, sec, local)

FunStart ==
    /\ Reading(".fun")
    /\ LET name == Line[2]
           align == Line[3]
           u == Place(unit, name, ".text", align, FALSE)
       IN  Guarded(CanPad(unit.sec[".text"], align, 4) /\ CanDefine(unit, name, FALSE) /\ unit.fun = NoSection,
                   /\ unit' = [u EXCEPT !.fun = name]
                   /\ Defines(name, FALSE, ".text", align, u)
                   /\ UNCHANGED <<refs, scope>>)

\* A plausible slip: the local names outlive their function.
FunEnd_KeepsLocals ==
    /\ Reading(".endfun")
    /\ Guarded(unit.fun # NoSection,
               unit' = [unit EXCEPT !.fun = NoSection] /\ scope' = scope + 1 /\ UNCHANGED <<refs, defs>>)
FunEnd ==
    /\ Reading(".endfun")
    /\ Guarded(unit.fun # NoSection,
               /\ unit' = [unit EXCEPT !.fun = NoSection, !.locals = <<>>]
               /\ scope' = scope + 1
               /\ UNCHANGED <<refs, defs>>)

MemStart ==
    /\ Reading(".mem") \/ Reading(".localmem")
    /\ LET name == Line[2]
           align == Line[3]
           sec == Line[4]
           local == Line[1] = ".localmem"
           u == Place(unit, name, sec, align, local)
       IN  Guarded(unit.mem = NoSection /\ CanDefine(unit, name, local),
                   /\ unit' = [u EXCEPT !.mem = sec]
                   /\ Defines(name, local, sec, align, u)
                   /\ UNCHANGED <<refs, scope>>)

MemEnd ==
    /\ Reading(".endmem")
    /\ Guarded(unit.mem # NoSection,
               unit' = [unit EXCEPT !.mem = NoSection] /\ UNCHANGED <<refs, defs, scope>>)

AddData ==
    /\ Reading(".data")
    /\ Guarded(unit.mem # NoSection,
               unit' = AddBytes(unit, unit.mem, Line[2]) /\ UNCHANGED <<refs, defs, scope>>)

\* AddFunAddr, AddMemAddr and, in a function, AddBblAddr.
AddAddr ==
    /\ Reading(".addr.fun") \/ Reading(".addr.mem") \/ Reading(".addr.bbl")
    /\ LET local == Line[1] = ".addr.bbl"
           addend == IF Line[1] = ".addr.mem" THEN Line[3] ELSE 0
       IN  Guarded(unit.mem # NoSection /\ (local => unit.fun # NoSection),
                   /\ unit' = AddWord(unit, unit.mem, {}, "ABS32", Line[2], local, addend)
                   /\ Refers(unit.mem, "ABS32", Line[2], local, addend)
                   /\ UNCHANGED <<defs, scope>>)

AddLabel ==
    /\ Reading(".bbl")
    /\ LET u == Place(unit, Line[2], ".text", Line[3], TRUE)
       IN  Guarded(/\ CanPad(unit.sec[".text"], Line[3], 4) /\ unit.fun # NoSection
                   /\ CanDefine(unit, Line[2], TRUE),
                   /\ unit' = u
                   /\ Defines(Line[2], TRUE, ".text", Line[3], u)
                   /\ UNCHANGED <<refs, scope>>)

\* An instruction, whose relocated operand is assembled as 0.
ALWAYS == Ones(14)
R1 == Ones(1)
InsWord(opcode) ==
    CASE opcode = "b" -> AssembleOperands(B, <<ALWAYS, {}>>)
      [] opcode = "bl" -> AssembleOperands(BL, <<ALWAYS, Ones(14), {}>>)
      [] opcode = "movw" -> AssembleOperands(MOVW, <<ALWAYS, R1, {}>>)
      [] opcode = "movt" -> AssembleOperands(MOVT, <<ALWAYS, R1, {}>>)
      [] OTHER -> {}
NaturalKind(opcode) ==
    CASE opcode = "b" -> "JUMP24" [] opcode = "bl" -> "CALL" [] opcode = "movw" -> "MOVW_ABS_NC"
      [] opcode = "movt" -> "MOVT_ABS" [] OTHER -> "none"
AddIns ==
    /\ Reading("ins")
    /\ IF Line[3] = "none"
       THEN unit' = AddBytes(unit, ".text", 4) /\ UNCHANGED refs
       ELSE /\ unit' = AddWord(unit, ".text", InsWord(Line[2]), Line[3], Line[4], Line[5], Line[6])
            /\ Refers(".text", Line[3], Line[4], Line[5], Line[6])
    /\ UNCHANGED <<defs, scope>> /\ NextLine

\* AddLinkerDefs: the end of the writable data.
RwEnd == "$$rw_data_end"
LinkerSection(u) == IF u.sec[".bss"].size > 0 THEN ".bss" ELSE IF u.sec[".data"].size > 0 THEN ".data" ELSE NoSection
AddLinkerDefs(u) ==
    IF LinkerSection(u) = NoSection THEN u ELSE Place(u, RwEnd, LinkerSection(u), 16, FALSE)

\* AddStartUpCode: six instructions, the third of which calls main.
AddStartUpCode(u) ==
    LET v == [AddBytes(Place(u, "_start", ".text", 16, FALSE), ".text", 8) EXCEPT !.fun = "_start"]
    IN  [AddBytes(AddWord(v, ".text", InsWord("bl"), "CALL", "main", FALSE, 0), ".text", 12)
            EXCEPT !.fun = NoSection, !.locals = <<>>]

LinkerDef(u, name) ==
    LET x == u.symbols[u.globals[name]]
    IN  [name |-> name, local |-> FALSE, scope |-> -1, sec |-> x.sec, offset |-> x.value, align |-> 16]

\* The end of UnitParse, and assembler_tool's check that every symbol is defined.
EndOfUnit ==
    /\ phase = "parse" /\ pc > Len(program)
    /\ LET u == AddLinkerDefs(unit)
           v == IF startup THEN AddStartUpCode(u) ELSE u
           ok == /\ LinkerSection(unit) # NoSection => CanDefine(unit, RwEnd, FALSE)
                 /\ startup => /\ CanPad(u.sec[".text"], 16, 4) /\ CanDefine(u, "_start", FALSE)
                               /\ u.fun = NoSection
                 /\ \A i \in DOMAIN v.symbols : v.symbols[i].sec # NoSection
       IN  \/ /\ ok
              /\ unit' = v /\ phase' = "link"
              /\ defs' = defs \cup {LinkerDef(v, name) : name \in
                                      (IF LinkerSection(unit) = NoSection THEN {} ELSE {RwEnd})
                                      \cup (IF startup THEN {"_start"} ELSE {})}
              /\ refs' = IF ~startup THEN refs
                         ELSE refs \cup {[name |-> "main", local |-> FALSE, scope |-> -1, sec |-> ".text",
                                         offset |-> Last(v.relocs).offset, kind |-> "CALL", addend |-> 0]}
              /\ UNCHANGED <<program, startup, pc, exe, file, copy, cloned, scope>>
           \/ ~ok /\ Refuse

----------------------------------------------------------------------------
(* Assemble: sections and segments, layout, symbols, relocations.          *)

NamesSize(names) == 1 + FoldLeft(LAMBDA n, name : IF name = "" THEN n ELSE n + Len(name) + 1, 0, names)
Sized(sec, n, data) == [sec EXCEPT !.size = n, !.data = data]

BuildExe(u) ==
    LET Used(n) == u.sec[n].size > 0
        rw == SelectSeq(<<".data", ".bss">>, Used)
        others == <<".ARM.attributes", ".symtab", ".strtab", ".shstrtab">>
        Seg(flags, names) == [MakeSegment("LOAD", flags, 65536) EXCEPT !.sections = names]
        segments == <<Seg("RX", <<"", ".text">>)>>
                    \o (IF Used(".rodata") THEN <<Seg("R", <<".rodata">>)>> ELSE <<>>)
                    \o (IF rw # <<>> THEN <<Seg("RW", rw)>> ELSE <<>>)
                    \o << [MakePseudoSegment EXCEPT !.sections = others] >>
        names == FlattenSeq([i \in DOMAIN segments |-> segments[i].sections])
        symbolNames == [i \in DOMAIN u.symbols |-> u.symbols[i].name]
        sec == [n \in ToSet(names) |->
                  CASE n = "" -> MakeSection("", "NULL", FALSE, 0)
                    [] n = ".ARM.attributes" -> Sized(MakeSection(n, "ARM_ATTRIBUTES", FALSE, 1), 18, "attributes")
                    [] n = ".symtab" -> [Sized(MakeSection(n, "SYMTAB", FALSE, 4), SymbolSize * Len(u.symbols), <<>>)
                                            EXCEPT !.link = Len(names) - 2]
                    [] n = ".strtab" -> Sized(MakeSection(n, "STRTAB", FALSE, 1), NamesSize(symbolNames), symbolNames)
                    [] n = ".shstrtab" -> Sized(MakeSection(n, "STRTAB", FALSE, 1), NamesSize(names), names)
                    [] OTHER -> u.sec[n]]
    IN  UpdateVaddrsAndOffset([sections |-> names, sec |-> sec, segments |-> segments, start |-> 131072,
                               phoff |-> NONE, shoff |-> NONE, entry |-> NONE])

Bits32(n) == IF n >= 0 THEN Ones(n) ELSE (0 .. 31) \ Ones(-n - 1)

\* The address of a symbol once the sections have theirs.
Resolved(u, e) ==
    [i \in DOMAIN u.symbols |->
        [u.symbols[i] EXCEPT !.value = @ + e.sec[u.symbols[i].sec].addr,
                             !.shndx = SelectInSeq(e.sections, LAMBDA n : n = u.symbols[i].sec) - 1]]

\* _patch_ins: the word has to be of that opcode.
PatchIns(word, opcode, pos, value) ==
    LET ops == [DisassembleOperands(opcode, word) EXCEPT ![pos] = value]
    IN  [ok |-> Matches(opcode, word) /\ CanAssemble(opcode, ops), word |-> AssembleOperands(opcode, ops)]

BranchOffset(rel, symVal, e) == (symVal - e.sec[rel.sec].addr - rel.offset - 8) \div 4

Patch(rel, word, symVal, e) ==
    CASE rel.kind = "MOVW_ABS_NC" -> PatchIns(word, MOVW, 3, Bits32(symVal % 65536))
      [] rel.kind = "MOVT_ABS" -> PatchIns(word, MOVT, 3, Bits32((symVal \div 65536) % 65536))
      [] rel.kind = "JUMP24" -> PatchIns(word, B, 2, Bits32(BranchOffset(rel, symVal, e)))
      [] rel.kind = "CALL" -> PatchIns(word, BL, 3, Bits32(BranchOffset(rel, symVal, e)))
      [] OTHER -> [ok |-> TRUE, word |-> Bits32(symVal)]

\* _ApplyRelocation, on the executable; "ok" is whether no assertion failed so far.
ApplyRelocation(acc, rel) ==
    LET old == (CHOOSE c \in acc.exe.sec[rel.sec].data : c[1] = rel.offset)[2]
        new == Patch(rel, old, acc.symbols[rel.sym].value + rel.addend, acc.exe)
    IN  [acc EXCEPT !.ok = @ /\ new.ok,
                    !.exe.sec[rel.sec].data = (@ \ {<<rel.offset, old>>}) \cup {<<rel.offset, new.word>>}]

\* A symbol of a section that is not in the executable, because it is empty, has no address.
Assemble ==
    /\ phase = "link"
    /\ LET e == BuildExe(unit)
           placed == /\ unit.sec[".text"].size > 0
                     /\ \A i \in DOMAIN unit.symbols : unit.symbols[i].sec \in DOMAIN e.sec
           symbols == Resolved(unit, e)
           applied == FoldLeft(ApplyRelocation, [ok |-> TRUE, exe |-> e, symbols |-> symbols], unit.relocs)
       IN  IF placed /\ applied.ok /\ Known(unit, "_start", FALSE)
           THEN /\ exe' = [applied.exe EXCEPT !.sec[".symtab"].data = symbols,
                                              !.entry = symbols[unit.globals["_start"]].value]
                /\ unit' = [unit EXCEPT !.symbols = symbols]
                /\ phase' = "save"
                /\ UNCHANGED <<program, startup, pc, file, copy, cloned, refs, defs, scope>>
           ELSE Refuse

----------------------------------------------------------------------------
SaveExe ==
    /\ phase = "save"
    /\ LET f == Save(exe)
       IN  IF f.ok THEN file' = f /\ phase' = "load" /\ UNCHANGED <<program, startup, pc, unit, exe, copy, cloned, refs, defs, scope>>
                   ELSE Refuse

\* "clone": load, verify, save.
LoadExe ==
    /\ phase = "load"
    /\ copy' = Load(file)
    /\ phase' = "clone"
    /\ UNCHANGED <<program, startup, pc, unit, exe, file, cloned, refs, defs, scope>>

Clone ==
    /\ phase = "clone"
    /\ IF copy.ok /\ Verify(copy) /\ Save(copy).ok
       THEN /\ cloned' = Save(copy) /\ phase' = "done"
            /\ UNCHANGED <<program, startup, pc, unit, exe, file, copy, refs, defs, scope>>
       ELSE Refuse

Next ==
    \/ FunStart \/ FunEnd \/ MemStart \/ MemEnd \/ AddData \/ AddAddr \/ AddLabel \/ AddIns
    \/ EndOfUnit \/ Assemble \/ SaveExe \/ LoadExe \/ Clone

Spec == Init /\ [][Next]_vars

----------------------------------------------------------------------------
Built == phase \in {"save", "load", "clone", "done"}
Loads == SelectSeq(exe.segments, LAMBDA p : p.type = "LOAD")
InMemory == {n \in DOMAIN exe.sec : exe.sec[n].alloc /\ exe.sec[n].size > 0}
Address(sec, offset) == exe.sec[sec].addr + offset
WordAt(sec, offset) == (CHOOSE c \in exe.sec[sec].data : c[1] = offset)[2]
Number(bits) == SumSet({2^i : i \in bits})
SignedNumber(bits) == IF 31 \in bits THEN -1 - Number(WordBits \ bits) ELSE Number(bits)
Only(opcode, pos, word, value) ==
    Matches(opcode, word) /\ SignedNumber(DisassembleOperands(opcode, word)[pos]) = value

\* From here on a branch may be too far for its 24 bits.
Huge == \E n \in DOMAIN unit.sec : unit.sec[n].size >= 4194304

\* The word of a reference leads to the one definition of that name that it can see: a
\* global one, or a local one of the same function, wherever in the text that comes.
\* A branch that is not to a whole word (data) is rounded down, silently, and so is the
\* distance of one that is up to twice as far as it can be.
RelocsResolved ==
    Built /\ ~Huge => \A r \in refs :
        LET seen == {d \in defs : d.name = r.name /\ d.scope = r.scope}
            word == WordAt(r.sec, r.offset)
        IN  /\ Cardinality(seen) = 1
            /\ \A d \in seen :
                 LET to == Address(d.sec, d.offset) + r.addend
                     words == (to - (Address(r.sec, r.offset) + 8)) \div 4
                 IN  CASE r.kind = "MOVW_ABS_NC" -> Only(MOVW, 3, word, to % 65536) /\ word \cap (12 .. 15) = {12}
                       [] r.kind = "MOVT_ABS" -> Only(MOVT, 3, word, to \div 65536) /\ word \cap (12 .. 15) = {12}
                       [] r.kind = "JUMP24" -> Only(B, 2, word, words)
                       [] r.kind = "CALL" -> Only(BL, 3, word, words)
                       [] OTHER -> Number(word) = to

Overlap(a, n, b, m) == a < b + m /\ b < a + n
\* What the loader of the operating system needs of the layout: every name as aligned as
\* it was asked to be, sections apart in memory and in the file, no page of memory in two
\* segments, and each segment at the same place of its page in memory and in the file.
\* The last fails for writable data that begins with .bss: its place in the file is not
\* aligned, but it has no bytes there.
Loadable ==
    Built =>
        /\ \A d \in defs : Address(d.sec, d.offset) % d.align = 0
        /\ \A n, m \in InMemory : n # m =>
             /\ ~Overlap(exe.sec[n].addr, exe.sec[n].size, exe.sec[m].addr, exe.sec[m].size)
             /\ ~Overlap(exe.sec[n].offset, InFile(exe.sec[n]), exe.sec[m].offset, InFile(exe.sec[m]))
        /\ \A i, j \in DOMAIN Loads : i < j =>
             (Loads[i].vaddr + Loads[i].memsz - 1) \div 65536 < Loads[j].vaddr \div 65536
        /\ \A i \in DOMAIN Loads : Loads[i].filesz > 0 => (Loads[i].vaddr - Loads[i].offset) % Loads[i].align = 0

\* A segment after the first that starts on a page is taken to want that, and a page of
\* the file as well: verifying refuses what the assembler wrote.
OnAPage == \E i \in DOMAIN Loads : i > 1 /\ Loads[i].vaddr % 65536 = 0

\* Reading an executable back loses nothing: its sections go to the segments they came
\* from, with their contents, it passes the verification, and it is written as it was.
CloneFaithful ==
    /\ phase = "refused" /\ exe # <<>> => OnAPage
    /\ phase \in {"clone", "done"} =>
         /\ copy.sections = exe.sections
         /\ \A n \in DOMAIN exe.sec : InFile(exe.sec[n]) > 0 => copy.sec[n] = exe.sec[n]
         /\ [i \in DOMAIN copy.segments |-> copy.segments[i].sections]
              = [i \in DOMAIN exe.segments |-> exe.segments[i].sections]
    /\ phase = "done" => cloned = file

\* A program is refused for a reason: a name defined twice in a scope or nowhere, a
\* directive out of place, code that is not whole instructions, a word whose relocation is
\* for another instruction, a name in a section that stays empty, no code, or too much of
\* it, or nothing to enter at.
Defining == {".fun", ".mem", ".localmem", ".bbl"}
OutOfPlace ==
    \/ Line[1] = ".fun" /\ unit.fun # NoSection
    \/ Line[1] \in {".endfun", ".bbl", ".addr.bbl"} /\ unit.fun = NoSection
    \/ Line[1] \in {".mem", ".localmem"} /\ unit.mem # NoSection
    \/ Line[1] \in {".endmem", ".data", ".addr.fun", ".addr.mem", ".addr.bbl"} /\ unit.mem = NoSection
Misaligned == Line[1] \in {".fun", ".bbl"} /\ Line[3] % 4 # 0
Twice ==
    /\ Line[1] \in Defining
    /\ \E d \in defs : d.name = Line[2] /\ d.scope = IF Line[1] \in {".bbl", ".localmem"} THEN scope ELSE -1
Nowhere(r) == \A d \in defs : d.name # r.name \/ d.scope # r.scope
Defined(name) == \E d \in defs : d.name = name /\ ~d.local
RefusedOnlyForCause ==
    phase = "refused" /\ exe = <<>> =>
        IF pc <= Len(program) THEN OutOfPlace \/ Misaligned \/ Twice
        ELSE \/ \E r \in refs : Nowhere(r)
             \/ startup /\ (~Defined("main") \/ Defined("_start") \/ unit.fun # NoSection)
             \/ ~startup /\ ~Defined("_start")
             \/ Defined(RwEnd)
             \/ unit.sec[".text"].size = 0 \/ Huge
             \/ \E d \in defs : unit.sec[d.sec].size = 0
             \/ \E i \in DOMAIN program : program[i][1] = "ins" /\ program[i][3] # "none"
                                           /\ program[i][3] # NaturalKind(program[i][2])
=============================================================================
