----------------------------- MODULE A32Opcodes -----------------------------
(***************************************************************************)
(* CpuA32/opcode_tab.py: the operand kinds and the table of the 215        *)
(* opcodes, in the order of the source, with which FindOpcode decides      *)
(* between overlapping patterns.  Flags, memory widths and effects on the  *)
(* status register, which assembling and disassembling do not read, are    *)
(* left out.                                                               *)
(***************************************************************************)
EXTENDS BitFields

\* FIELD_DETAILS: the ranges of each operand kind.
REG_0_3 == << <<"Verbatim", 4, 0>> >>
REG_8_11 == << <<"Verbatim", 4, 8>> >>
REG_12_15 == << <<"Verbatim", 4, 12>> >>
REG_16_19 == << <<"Verbatim", 4, 16>> >>
REG_PAIR_12_15 == REG_12_15
REG_LINK == << <<"Force14", 0, 0>> >>
DREG_0_3_5 == << <<"Hi", 1, 5>>, <<"Lo", 4, 0>> >>
DREG_12_15_22 == << <<"Hi", 1, 22>>, <<"Lo", 4, 12>> >>
DREG_16_19_7 == << <<"Hi", 1, 7>>, <<"Lo", 4, 16>> >>
SREG_0_3_5 == << <<"Hi", 4, 0>>, <<"Lo", 1, 5>> >>
SREG_12_15_22 == << <<"Hi", 4, 12>>, <<"Lo", 1, 22>> >>
SREG_16_19_7 == << <<"Hi", 4, 16>>, <<"Lo", 1, 7>> >>
IMM_7_11 == << <<"Verbatim", 5, 7>> >>
IMM_10_11 == << <<"Times8", 2, 10>> >>
SIMM_0_23 == << <<"Signed", 24, 0>> >>
IMM_0_23 == << <<"Verbatim", 24, 0>> >>
IMM_0_7_8_11 == << <<"Rotated", 12, 0>> >>
IMM_ZERO == << <<"Force0", 0, 0>> >>
IMM_0_11_16_19 == << <<"Hi", 4, 16>>, <<"Lo", 12, 0>> >>
IMM_0_7_times4 == << <<"Times4", 8, 0>> >>
IMM_0_11 == << <<"Verbatim", 12, 0>> >>
IMM_0_3_8_11 == << <<"Hi", 4, 8>>, <<"Lo", 4, 0>> >>
SHIFT_MODE_5_6 == << <<"Verbatim", 2, 5>> >>
SHIFT_MODE_ROT == << <<"Force3", 0, 0>> >>
ADDR_BASE_ONLY == << <<"Force6", 0, 0>> >>
ADDR_BASE_WITH_OFFSET == << <<"P", 1, 24>>, <<"U", 1, 23>>, <<"W", 1, 21>> >>
ADDR_BASE_WITH_OFFSET2 == << <<"Times2Plus4", 1, 23>> >>
ADDR_MULTI == ADDR_BASE_WITH_OFFSET
REGLIST_0_15 == << <<"Verbatim", 16, 0>> >>
REG_RANGE_0_7 == << <<"Verbatim", 8, 0>> >>
REG_RANGE_1_7 == << <<"Verbatim", 7, 1>> >>
PRED_28_31 == << <<"Verbatim", 4, 28>> >>

Opc(name, bits, fields) == <<Opcode(name, bits, <<PRED_28_31>> \o fields)>>

----------------------------------------------------------------------------
Root(n) == <<3, n, 26>>
Bit(v, pos) == <<1, v, pos>>
Nibble(v, pos) == <<15, v, pos>>
\* The variants that set the status register: suffix and bit 20.
S == << <<"", 0>>, <<"s", 1>> >>

Multiply ==
    LET long == <<REG_12_15, REG_16_19, REG_0_3, REG_8_11>>
        short == <<REG_16_19, REG_0_3, REG_8_11>>
        Bits(n) == <<Root(0), Nibble(n, 21), Bit(0, 25), Nibble(9, 4)>>
    IN  ForEach(S, LAMBDA s :
            LET M(name, n, more, fields) == Opc(name \o s[1], Bits(n) \o <<Bit(s[2], 20)>> \o more, fields)
            IN  M("mul", 0, <<Nibble(0, 12)>>, short)
                \o M("mla", 1, <<>>, short \o <<REG_12_15>>)
                \o M("umull", 4, <<>>, long)
                \o M("umlal", 5, <<>>, <<REG_16_19, REG_12_15, REG_0_3, REG_8_11>>)
                \o M("smull", 6, <<>>, long)
                \o M("smlal", 7, <<>>, long))
        \o Opc("mls", Bits(3) \o <<Bit(0, 20)>>, short \o <<REG_12_15>>)
        \o ForEach(<< <<"bb", 8>>, <<"tb", 10>>, <<"bt", 12>>, <<"tt", 14>> >>, LAMBDA e :
               Opc("smla" \o e[1], <<Root(0), <<63, 16, 20>>, Nibble(e[2], 4)>>, short \o <<REG_12_15>>)
               \o Opc("smul" \o e[1], <<Root(0), <<63, 22, 20>>, Nibble(0, 12), Nibble(e[2], 4)>>, short))

Exclusive ==
    Opc("strex", <<Root(0), <<63, 24, 20>>, Nibble(15, 8), Nibble(9, 4)>>,
        <<REG_12_15, REG_0_3, ADDR_BASE_ONLY, REG_16_19>>)
    \o Opc("ldrex", <<Root(0), <<63, 25, 20>>, Nibble(15, 8), Nibble(9, 4), Nibble(15, 0)>>,
           <<REG_12_15, ADDR_BASE_ONLY, REG_16_19>>)

HalfwordMemory ==
    ForEach(<< <<"imm", <<Bit(1, 22)>>, <<ADDR_BASE_WITH_OFFSET, REG_16_19, IMM_0_3_8_11>> >>,
               <<"reg", <<Bit(0, 22), Nibble(0, 8)>>, <<ADDR_BASE_WITH_OFFSET, REG_16_19, REG_0_3>> >> >>,
        LAMBDA v :
            LET Bits(load, n) == v[2] \o <<Root(0), Bit(0, 25), Bit(load, 20), Nibble(n, 4)>>
                Mem(name, load, n, fields) == Opc(name \o "_" \o v[1], Bits(load, n), fields)
            IN  Mem("ldrh", 1, 11, <<REG_12_15>> \o v[3])
                \o Mem("ldrsb", 1, 13, <<REG_12_15>> \o v[3])
                \o Mem("ldrsh", 1, 15, <<REG_12_15>> \o v[3])
                \o Mem("strh", 0, 11, v[3] \o <<REG_12_15>>)
                \o Mem("ldrd", 0, 13, <<REG_PAIR_12_15>> \o v[3])
                \o Mem("strd", 0, 15, v[3] \o <<REG_PAIR_12_15>>))

\* The three forms of the second operand of an ALU instruction.
Shifter(name, bits, fields) ==
    Opc(name \o "_regreg", bits \o <<Bit(0, 25), Bit(0, 7), Bit(1, 4)>>,
        fields \o <<SHIFT_MODE_5_6, REG_0_3, REG_8_11>>)
    \o Opc(name \o "_regimm", bits \o <<Bit(0, 25), Bit(0, 4)>>,
           fields \o <<SHIFT_MODE_5_6, REG_0_3, IMM_7_11>>)
    \o Opc(name \o "_imm", bits \o <<Bit(1, 25)>>, fields \o <<IMM_0_7_8_11>>)

Alu ==
    ForEach(<< <<"and", 0>>, <<"eor", 1>>, <<"sub", 2>>, <<"rsb", 3>>, <<"add", 4>>,
               <<"adc", 5>>, <<"sbc", 6>>, <<"rsc", 7>>, <<"orr", 12>>, <<"bic", 14>> >>, LAMBDA o :
        ForEach(S, LAMBDA s : Shifter(o[1] \o s[1], <<Root(0), Bit(s[2], 20), Nibble(o[2], 21)>>,
                                      <<REG_12_15, REG_16_19>>)))

SwapAndBranchExchange ==
    LET bits(n) == <<Root(0), Nibble(n, 21), Bit(0, 25), Bit(0, 20)>>
    IN  ForEach(<< <<"swp", 8>>, <<"swpb", 10>> >>, LAMBDA s :
            Opc(s[1], bits(s[2]) \o <<Nibble(0, 8), Nibble(9, 4)>>,
                <<REG_12_15, REG_0_3, ADDR_BASE_ONLY, REG_16_19>>))
        \o Opc("bx", bits(9) \o << <<4095, 4095, 8>>, Nibble(1, 4)>>, <<REG_0_3>>)
        \o Opc("blx_reg", bits(9) \o << <<4095, 4095, 8>>, Nibble(3, 4)>>, <<REG_0_3>>)
        \o Opc("clz", bits(11) \o <<Nibble(15, 8), Nibble(15, 16), Nibble(1, 4)>>, <<REG_12_15, REG_0_3>>)

TestAndMove ==
    ForEach(<< <<"tst", 8>>, <<"teq", 9>>, <<"cmp", 10>>, <<"cmn", 11>> >>, LAMBDA o :
        Shifter(o[1], <<Root(0), Nibble(o[2], 21), Bit(1, 20), Nibble(0, 12)>>, <<REG_16_19>>))
    \o ForEach(<< <<"mov", 13>>, <<"mvn", 15>> >>, LAMBDA o :
           ForEach(S, LAMBDA s : Shifter(o[1] \o s[1],
               <<Root(0), Bit(s[2], 20), Nibble(o[2], 21), Nibble(0, 16)>>, <<REG_12_15>>)))

\* The two halves of an address, which relocations patch.
MOVW == Opc("movw", <<Root(0), <<63, 48, 20>> >>, <<REG_12_15, IMM_0_11_16_19>>)[1]
MOVT == Opc("movt", <<Root(0), <<63, 52, 20>> >>, <<REG_12_15, IMM_0_11_16_19>>)[1]

----------------------------------------------------------------------------
DivideAndExtend ==
    ForEach(<< <<"sdiv", 49>>, <<"udiv", 51>> >>, LAMBDA d :
        Opc(d[1], <<Root(1), <<63, d[2], 20>>, Nibble(15, 12), Nibble(1, 4)>>, <<REG_16_19, REG_0_3, REG_8_11>>))
    \o ForEach(<< <<"b", 2>>, <<"b16", 0>>, <<"h", 3>> >>, LAMBDA e :
           LET bits(n) == <<Root(1), <<63, 7, 4>>, <<3, e[2], 20>>, Nibble(n, 22)>>
               rotated == <<SHIFT_MODE_ROT, REG_0_3, IMM_10_11>>
           IN  Opc("uxt" \o e[1], bits(11) \o <<Nibble(15, 16)>>, <<REG_12_15>> \o rotated)
               \o Opc("sxt" \o e[1], bits(10) \o <<Nibble(15, 16)>>, <<REG_12_15>> \o rotated)
               \o Opc("uxta" \o e[1], bits(11), <<REG_12_15, REG_16_19>> \o rotated)
               \o Opc("sxta" \o e[1], bits(10), <<REG_12_15, REG_16_19>> \o rotated))
    \o ForEach(<< <<"rev", 3>>, <<"rev16", 11>> >>, LAMBDA r :
           Opc(r[1], <<Root(1), <<1023, 703, 16>>, Nibble(15, 8), Nibble(r[2], 4)>>, <<REG_12_15, REG_0_3>>))

\* Prefetches precede the loads they look like.
WordMemory ==
    ForEach(<< <<"_reg", <<Bit(1, 25), Bit(0, 4)>>,
                 <<ADDR_BASE_WITH_OFFSET, REG_16_19, SHIFT_MODE_5_6, REG_0_3, IMM_7_11>> >>,
               <<"_imm", <<Bit(0, 25)>>, <<ADDR_BASE_WITH_OFFSET, REG_16_19, IMM_0_11>> >> >>, LAMBDA v :
        <<Opcode("ldp" \o v[1], v[2] \o <<Root(1), Bit(1, 22), Bit(1, 20), Nibble(15, 12), Nibble(15, 28)>>, v[3])>>
        \o ForEach(<< <<"", 0>>, <<"b", 1>> >>, LAMBDA e :
               LET bits(load) == v[2] \o <<Root(1), Bit(e[2], 22), Bit(load, 20)>>
               IN  Opc("ldr" \o e[1] \o v[1], bits(1), <<REG_12_15>> \o v[3])
                   \o Opc("str" \o e[1] \o v[1], bits(0), v[3] \o <<REG_12_15>>)))
    \o Opc("ud2", <<Root(1), <<67108863, 66060528, 0>> >>, <<>>)

\* Branches, which relocations patch, and transfers of several registers.
B == Opc("b", <<Root(2), Bit(1, 25), Bit(0, 24)>>, <<SIMM_0_23>>)[1]
BL == Opc("bl", <<Root(2), Bit(1, 25), Bit(1, 24)>>, <<REG_LINK, SIMM_0_23>>)[1]
MultipleAndBranch ==
    LET bits(load) == <<Root(2), Bit(0, 25), Bit(load, 20), Bit(0, 22)>>
    IN  Opc("stm", bits(0), <<ADDR_MULTI, REG_16_19, REGLIST_0_15>>)
        \o Opc("ldm", bits(1), <<REGLIST_0_15, ADDR_MULTI, REG_16_19>>)
        \o <<B, BL>>

----------------------------------------------------------------------------
\* The single and double precision forms of a floating point instruction.
FP == << <<".f32", 10, SREG_12_15_22, SREG_16_19_7, SREG_0_3_5>>,
         <<".f64", 11, DREG_12_15_22, DREG_16_19_7, DREG_0_3_5>> >>

FloatMemory ==
    LET Bits(load, n) == <<Root(3), <<3, 1, 24>>, <<3, load, 20>>, Nibble(n, 8)>>
        address == <<ADDR_BASE_WITH_OFFSET2, REG_16_19, IMM_0_7_times4>>
    IN  Opc("svc", <<Root(3), <<3, 3, 24>> >>, <<IMM_0_23>>)
        \o ForEach(FP, LAMBDA p : Opc("vldr" \o p[1], Bits(1, p[2]), <<p[3]>> \o address))
        \o ForEach(FP, LAMBDA p : Opc("vstr" \o p[1], Bits(0, p[2]), address \o <<p[3]>>))

FloatMove ==
    LET two(n) == <<Root(3), <<63, n, 20>>, <<253, 177, 4>> >>
        one(n) == <<Root(3), <<63, n, 20>>, Nibble(10, 8), <<127, 16, 0>> >>
    IN  Opc("vmov_atof", two(4), <<DREG_0_3_5, REG_12_15, REG_16_19>>)
        \o Opc("vmov_ftoa", two(5), <<REG_12_15, REG_16_19, DREG_0_3_5>>)
        \o Opc("vmov_atos", one(32), <<SREG_16_19_7, REG_12_15>>)
        \o Opc("vmov_stoa", one(33), <<REG_12_15, SREG_16_19_7>>)

FloatConvert ==
    LET Dst(t) == IF t = "f64" THEN DREG_12_15_22 ELSE SREG_12_15_22
        Src(t) == IF t = "f64" THEN DREG_0_3_5 ELSE SREG_0_3_5
    IN  ForEach(<< <<"f32", "f64", 55, 188>>, <<"f64", "f32", 55, 172>>, <<"s32", "f64", 61, 188>>,
                   <<"s32", "f32", 61, 172>>, <<"u32", "f64", 60, 188>>, <<"u32", "f32", 60, 172>>,
                   <<"f64", "s32", 56, 188>>, <<"f32", "s32", 56, 172>>, <<"f64", "u32", 56, 180>>,
                   <<"f32", "u32", 56, 164>> >>, LAMBDA c :
            Opc("vcvt." \o c[1] \o "." \o c[2], <<Root(3), <<7, 5, 23>>, <<63, c[3], 16>>, <<253, c[4], 4>> >>,
                <<Dst(c[1]), Src(c[2])>>))

FloatCompareAndUnary ==
    ForEach(<< <<"vcmp", 4>>, <<"vcmpe", 12>> >>, LAMBDA n :
        LET bits(x) == <<Root(3), <<3, 3, 20>>, <<7, 5, 23>>, <<13, n[2], 4>>, Nibble(x, 16)>>
        IN  ForEach(FP, LAMBDA p : Opc(n[1] \o p[1], bits(4) \o <<Nibble(p[2], 8)>>, <<p[3], p[5]>>))
            \o ForEach(FP, LAMBDA p : Opc(n[1] \o p[1] \o "_zero",
                   bits(5) \o <<Nibble(p[2], 8), <<47, 0, 0>> >>, <<p[3], IMM_ZERO>>)))
    \o ForEach(<< <<"vabs", 0, 12>>, <<"vmov", 0, 4>>, <<"vsqrt", 1, 12>>, <<"vneg", 1, 4>> >>, LAMBDA n :
           ForEach(FP, LAMBDA p : Opc(n[1] \o p[1],
               <<Root(3), <<7, 5, 23>>, Nibble(n[2], 16), <<13, n[3], 4>>, <<3, 3, 20>>, Nibble(p[2], 8)>>,
               <<p[3], p[5]>>)))

FloatAlu ==
    ForEach(<< <<"vdiv", 5, 0, 0>>, <<"vmul", 4, 2, 0>>, <<"vadd", 4, 3, 0>>, <<"vsub", 4, 3, 4>>,
               <<"vnmul", 4, 2, 4>>, <<"vnmls", 4, 1, 0>>, <<"vnmla", 4, 1, 4>>,
               <<"vmls", 4, 0, 4>>, <<"vmla", 4, 0, 0>> >>, LAMBDA n :
        ForEach(FP, LAMBDA p : Opc(n[1] \o p[1],
            <<Root(3), <<7, n[2], 23>>, <<3, n[3], 20>>, <<5, n[4], 4>>, Nibble(p[2], 8)>>,
            <<p[3], p[4], p[5]>>)))

FloatMultiple ==
    LET bits(load, n) == <<Root(3), Bit(0, 25), Bit(load, 20), Nibble(n, 8)>>
        base == <<ADDR_MULTI, REG_16_19>>
    IN  Opc("vldm_s", bits(1, 10), <<REG_RANGE_0_7, SREG_12_15_22>> \o base)
        \o Opc("vldm_f", bits(1, 11) \o <<Bit(0, 0)>>, <<REG_RANGE_1_7, DREG_12_15_22>> \o base)
        \o Opc("vstm_s", bits(0, 10), base \o <<REG_RANGE_0_7, SREG_12_15_22>>)
        \o Opc("vstm_f", bits(0, 11) \o <<Bit(0, 0)>>, base \o <<REG_RANGE_1_7, DREG_12_15_22>>)
        \o Opc("vmrs_APSR_nzcv_fpscr", <<Root(3), <<67108863, 49412624, 0>> >>, <<>>)

----------------------------------------------------------------------------
A32Table == Multiply \o Exclusive \o HalfwordMemory \o Alu \o SwapAndBranchExchange \o TestAndMove
            \o <<MOVW, MOVT>> \o DivideAndExtend \o WordMemory \o MultipleAndBranch
            \o FloatMemory \o FloatMove \o FloatConvert \o FloatCompareAndUnary \o FloatAlu \o FloatMultiple

\* Opcodes are grouped by bits 25 to 27, which every pattern fixes; within a group, and
\* hence in the table, the first match wins.  0 is None.
A32FindOpcode_LastWins(word) == SelectLastInSeq(A32Table, LAMBDA opc : Matches(opc, word))
A32FindOpcode(word) == SelectInSeq(A32Table, LAMBDA opc : Matches(opc, word))
=============================================================================
