---------------------------- MODULE MCAssembler ----------------------------
(***************************************************************************)
(* Two functions, the first with any two pieces of code, the second with   *)
(* labels of the same names; data of every kind, small, empty or on a      *)
(* page; started by the generated code or by the second function.  And one *)
(* rich program with one of its lines left out, doubled, or exchanged with *)
(* the next; one whose local names are those of the generated code; one    *)
(* with half an instruction's alignment; and one without code.             *)
(***************************************************************************)
EXTENDS Assembler

Ins(opcode, kind, name, local, addend) == <<"ins", opcode, kind, name, local, addend>>
PlainIns == Ins("nop", "none", "", FALSE, 0)
Label == <<".bbl", "L", 4>>
JumpTable == << <<".localmem", "T", 4, ".rodata">>, <<".addr.bbl", "L">>, <<".addr.bbl", "L">>, <<".endmem">>,
                Ins("movw", "MOVW_ABS_NC", "T", TRUE, 0), Ins("movt", "MOVT_ABS", "T", TRUE, 0) >>
Pieces == { <<PlainIns>>, <<Ins("bl", "CALL", "main", FALSE, 0)>>, <<Ins("bl", "CALL", "aux", FALSE, 0)>>,
            <<Ins("b", "JUMP24", "L", TRUE, 0)>>, <<Label>>, << <<".bbl", "M", 16>> >>, JumpTable,
            <<Ins("movw", "MOVW_ABS_NC", "d", FALSE, 4), Ins("movt", "MOVT_ABS", "d", FALSE, 4)>>,
            <<Ins("movt", "MOVW_ABS_NC", "d", FALSE, 0)>> }
Fun(name, align, body) == << <<".fun", name, align>> >> \o body \o << <<".endfun">> >>

Firsts == {Fun("main", 16, a \o b) : a, b \in Pieces}
Seconds == {Fun("_start", 8, <<Ins("b", "JUMP24", "L", TRUE, 0), Label>>),
            Fun("aux", 32, JumpTable \o <<Label, Ins("bl", "CALL", "main", FALSE, 0)>>)}
Mem(name, align, sec, body) == << <<".mem", name, align, sec>> >> \o body \o << <<".endmem">> >>
Datas == {Mem("d", 8, ".rodata", << <<".data", 5>> >>),
          Mem("e", 1, ".rodata", << <<".data", 3>> >>)
            \o Mem("d", 65536, ".data", << <<".data", 9>>, <<".addr.fun", "main">>, <<".addr.mem", "d", 1>> >>),
          Mem("d", 4, ".bss", << <<".data", 7>> >>),
          Mem("d", 4, ".data", << <<".data", 1>> >>) \o Mem("e", 64, ".bss", << <<".data", 70000>> >>),
          Mem("d", 4, ".data", <<>>)}
Whole == {f \o g \o d : f \in Firsts, g \in Seconds, d \in Datas}

Rich == Mem("d", 4, ".data", << <<".data", 1>>, <<".addr.fun", "aux">> >>)
        \o Fun("main", 16, <<Ins("b", "JUMP24", "L", TRUE, 0), Label, Ins("bl", "CALL", "aux", FALSE, 0)>> \o JumpTable)
        \o Fun("aux", 4, <<Label, Ins("movw", "MOVW_ABS_NC", "d", FALSE, 0)>>)
Broken ==
    {RemoveAt(Rich, i) : i \in DOMAIN Rich} \cup {InsertAt(Rich, i, Rich[i]) : i \in DOMAIN Rich}
    \cup {[Rich EXCEPT ![i] = Rich[i + 1], ![i + 1] = Rich[i]] : i \in 1 .. Len(Rich) - 1}
Shadowing ==
    Fun("main", 4, << <<".bbl", "_start", 4>>, Ins("b", "JUMP24", "_start", TRUE, 0) >>)
    \o << <<".localmem", RwEnd, 4, ".data">>, <<".data", 2>>, <<".addr.fun", "_start">>, <<".endmem">> >>
Halfway == Fun("main", 2, <<>>)
OnlyData == Mem("_start", 4, ".data", << <<".data", 4>> >>)
MCPrograms == Whole \cup Broken \cup {Shadowing, Halfway, OnlyData}
=============================================================================
