----------------------------- MODULE ObjectFile -----------------------------
(***************************************************************************)
(* Elf/elfhelper.py for the 32-bit little-endian executables that the      *)
(* assembler makes: the layout of sections and segments, writing a file,   *)
(* reading it back and verifying what was read.  A section is a record     *)
(* whose "data" is whatever its owner puts there; the executable keeps its *)
(* sections under their names, as the source shares one object between the *)
(* list of sections and a segment.  Segments that overlap others (notes,   *)
(* TLS, ...), which only other linkers make, are left out.                 *)
(***************************************************************************)
EXTENDS Integers, SequencesExt

NONE == -1                                  \* TO_BE_FILLED_IN_LATER
EHdrSize == 16 + 36                         \* EHdrIdent.SIZE + EHdr.SIZE
PHdrSize == 32
SHdrSize == 40
SymbolSize == 16

Align(x, align) == IF align <= 1 THEN x ELSE ((x + align - 1) \div align) * align

MakeSection(name, type, alloc, alignment) ==
    [name |-> name, type |-> type, alloc |-> alloc, align |-> alignment,
     addr |-> NONE, offset |-> NONE, size |-> 0, link |-> 0, data |-> {}]

\* Pad and PadData: the alignment of a section is the largest asked of it.
CanPad(sec, n, unit) == n > 0 => sec.size % unit = 0 /\ n % unit = 0
\* A plausible slip: padding without telling the section how aligned it has to be.
PadData_KeepsAlign(sec, n) == [sec EXCEPT !.size = IF n <= 0 THEN @ ELSE Align(@, n)]
PadData(sec, n) == [sec EXCEPT !.align = IF @ < n THEN n ELSE @,
                               !.size = IF n <= 0 THEN @ ELSE Align(@, n)]

MakeSegment(type, flags, align) ==
    [type |-> type, flags |-> flags, align |-> align, pseudo |-> FALSE, hard |-> FALSE, sections |-> <<>>,
     offset |-> NONE, vaddr |-> NONE, filesz |-> NONE, memsz |-> NONE]
MakePseudoSegment == [MakeSegment("NULL", "", 0) EXCEPT !.pseudo = TRUE]

InFile(sec) == IF sec.type = "NOBITS" THEN 0 ELSE sec.size
Headers(exe) == SelectSeq(exe.segments, LAMBDA p : ~p.pseudo)
CombinedHeaderSize(exe) == EHdrSize + PHdrSize * Len(Headers(exe))

----------------------------------------------------------------------------
(* Layout.                                                                 *)

\* update_vaddr_and_offset of a section: the section, and where the next one may start.
PlaceSection(sec, vaddr, offset) ==
    LET va == Align(vaddr, sec.align)
        off == Align(offset, sec.align)
    IN  CASE sec.type = "NULL" ->
               [sec |-> [sec EXCEPT !.addr = 0, !.offset = 0], vaddr |-> vaddr, offset |-> offset]
          [] sec.type = "NOBITS" ->
               [sec |-> [sec EXCEPT !.addr = va, !.offset = offset], vaddr |-> va + sec.size, offset |-> offset]
          [] OTHER ->
               [sec |-> [sec EXCEPT !.addr = IF sec.alloc THEN va ELSE 0, !.offset = off],
                vaddr |-> va + sec.size, offset |-> off + sec.size]

\* Where the sections of the next segment start, and then each of them in turn.
PlaceSegment(exe, acc, phdr) ==
    LET first == acc.offset = 0
        begin == [acc EXCEPT
            !.offset = IF first THEN CombinedHeaderSize(exe)
                       ELSE IF phdr.hard THEN Align(@ + 1, phdr.align) ELSE @,
            !.vaddr = IF first THEN CombinedHeaderSize(exe) + exe.start
                      ELSE IF phdr.hard THEN Align(@ + 1, phdr.align) ELSE @ + phdr.align]
        Place(a, name) ==
            LET p == PlaceSection(exe.sec[name], a.vaddr, a.offset)
            IN  [sec |-> [a.sec EXCEPT ![name] = p.sec], vaddr |-> p.vaddr, offset |-> p.offset]
    IN  FoldLeft(Place, begin, phdr.sections)

PlaceAll(exe) ==
    FoldLeft(LAMBDA acc, phdr : PlaceSegment(exe, acc, phdr),
             [sec |-> exe.sec, vaddr |-> 0, offset |-> 0], exe.segments)

\* A plausible slip: the size in memory is the size in the file.
SegmentHeader_ForgetsBss(exe, i) ==
    LET p == exe.segments[i]
        first == exe.sec[Head(p.sections)]
        last == exe.sec[Last(p.sections)]
        offset == IF i = 1 THEN 0 ELSE first.offset
        vaddr == IF i = 1 THEN exe.start ELSE first.addr
        size == last.offset + InFile(last) - offset
    IN  [p EXCEPT !.offset = offset, !.vaddr = vaddr, !.filesz = size, !.memsz = size]
\* The program header of a segment whose sections are placed.  The first one of type LOAD
\* covers the headers of the file.
SegmentHeader(exe, i) ==
    LET p == exe.segments[i]
        first == exe.sec[Head(p.sections)]
        last == exe.sec[Last(p.sections)]
        isFirstLoad == p.type = "LOAD" /\ \A j \in 1 .. i - 1 : exe.segments[j].type # "LOAD"
        offset == IF isFirstLoad THEN 0 ELSE first.offset
        vaddr == IF isFirstLoad THEN exe.start ELSE first.addr
    IN  [p EXCEPT !.offset = offset, !.vaddr = vaddr,
                  !.filesz = last.offset + InFile(last) - offset,
                  !.memsz = last.addr + last.size - vaddr]

UpdateVaddrsAndOffset(exe) ==
    LET placed == PlaceAll(exe)
        e == [exe EXCEPT !.sec = placed.sec, !.shoff = Align(placed.offset, 4), !.phoff = EHdrSize]
    IN  [e EXCEPT !.segments = [i \in DOMAIN @ |-> IF @[i].pseudo THEN @[i] ELSE SegmentHeader(e, i)]]

\* verify_vaddrs_and_offsets: the same pass, which asserts what the other one assigns.
Verify(exe) == UpdateVaddrsAndOffset(exe) = exe

----------------------------------------------------------------------------
(* A file: its header, the program headers, the bytes of the sections as   *)
(* chunks, and the section headers.                                        *)

SectionHeader(sec) == [sec EXCEPT !.data = {}]
SegmentFields(p) == [p EXCEPT !.sections = <<>>, !.hard = FALSE]

\* The sections are written in the order of the segments, with padding up to the place
\* they want; one that is already behind is an offset corruption.
Save(exe) ==
    LET names == FlattenSeq([i \in DOMAIN exe.segments |-> exe.segments[i].sections])
        Write(acc, name) ==
            LET s == exe.sec[name]
            IN  IF InFile(s) = 0 THEN acc
                ELSE [ok |-> acc.ok /\ s.offset >= acc.offset, offset |-> s.offset + s.size,
                      chunks |-> acc.chunks \cup {[offset |-> s.offset, size |-> s.size, data |-> s.data]}]
        body == FoldLeft(Write, [ok |-> TRUE, offset |-> CombinedHeaderSize(exe), chunks |-> {}], names)
    IN  [ok |-> body.ok /\ exe.phoff = EHdrSize /\ Align(body.offset, 4) = exe.shoff,
         phoff |-> exe.phoff, shoff |-> exe.shoff, shstrndx |-> Len(exe.sections), entry |-> exe.entry,
         phdrs |-> [i \in DOMAIN Headers(exe) |-> SegmentFields(Headers(exe)[i])],
         chunks |-> body.chunks,
         shdrs |-> [i \in DOMAIN names |-> SectionHeader(exe.sec[names[i]])]]

\* What fin.read returns: the bytes of one section when its header is right.
ReadAt(file, offset, size) ==
    LET there == {c \in file.chunks : c.offset = offset /\ c.size = size}
    IN  IF there = {} THEN {} ELSE (CHOOSE c \in there : TRUE).data

IsInside(offset, size, offset2, size2) ==
    offset2 <= offset /\ offset <= offset2 + size2 /\ offset2 <= offset + size /\ offset + size <= offset2 + size2

\* phdrs_containing_shdr, for a section and the header of a segment.
ContainsSection(phdr, sec) ==
    /\ IsInside(sec.offset, InFile(sec), phdr.offset, phdr.filesz)
    /\ sec.addr # 0 => IsInside(sec.addr, sec.size, phdr.vaddr, phdr.memsz)

\* Sections go to every segment that contains them, and from the first one that no segment
\* contains, to a pseudo segment at the end.
Load(file) ==
    LET phdrs == [i \in DOMAIN file.phdrs |->
                    [file.phdrs[i] EXCEPT !.hard = file.phdrs[i].vaddr % file.phdrs[i].align = 0]]
        loads == SelectSeq(phdrs, LAMBDA p : p.type = "LOAD")
        names == [i \in DOMAIN file.shdrs |-> file.shdrs[i].name]
        sec == [n \in ToSet(names) |->
                  LET s == file.shdrs[CHOOSE i \in DOMAIN names : names[i] = n]
                  IN  IF InFile(s) = 0 THEN s ELSE [s EXCEPT !.data = ReadAt(file, s.offset, s.size)]]
        Owners(n) == {i \in DOMAIN phdrs : ContainsSection(phdrs[i], sec[n])}
        stray == SelectSeq(names, LAMBDA n : Owners(n) = {})
        mapped == SelectSeq(names, LAMBDA n : Owners(n) # {})
    IN  [ok |-> /\ names = mapped \o stray
                /\ \A n \in ToSet(stray) : sec[n].type # "NULL"
                /\ \A n \in ToSet(names) : \A i \in Owners(n) : Cardinality(Owners(n)) > 1 => phdrs[i].type = "LOAD",
         sections |-> names, sec |-> sec,
         segments |-> [i \in DOMAIN phdrs |-> [phdrs[i] EXCEPT !.sections = SelectSeq(mapped, LAMBDA n : i \in Owners(n))]]
                      \o (IF stray = <<>> THEN <<>> ELSE << [MakePseudoSegment EXCEPT !.sections = stray] >>),
         start |-> IF loads = <<>> THEN 0 ELSE loads[1].vaddr,
         phoff |-> file.phoff, shoff |-> file.shoff, entry |-> file.entry]
=============================================================================
