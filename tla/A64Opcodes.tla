----------------------------- MODULE A64Opcodes -----------------------------
(***************************************************************************)
(* CpuA64/opcode_tab.py: the operand kinds and the table of the 791        *)
(* opcodes.  The register files (W, X, B, H, S, D, Q) and the scaled       *)
(* immediates have kinds of their own in the source but the same ranges,   *)
(* so they are one kind here.                                              *)
(***************************************************************************)
EXTENDS BitFields

\* FIELD_DETAILS: the ranges of each operand kind.
Plain(width, pos) == << <<"Verbatim", width, pos>> >>
REG_0_4 == Plain(5, 0)
REG_5_9 == Plain(5, 5)
REG_10_14 == Plain(5, 10)
REG_16_20 == Plain(5, 16)
IMM_0_3 == Plain(4, 0)
SIMM_0_25 == Plain(26, 0)
SIMM_5_18 == Plain(14, 5)
IMM_5_20 == Plain(16, 5)
IMM_5_20_21_22 == Plain(18, 5)
SIMM_5_23 == Plain(19, 5)
SHIFT_10_12_LIMIT4 == Plain(3, 10)
IMM_10_15 == Plain(6, 10)
IMM_10_21 == Plain(12, 10)
IMM_10_21_22 == Plain(13, 10)
SIMM_12_20 == Plain(9, 12)
IMM_13_20_FLT == Plain(8, 13)
SIMM_15_21 == Plain(7, 15)
IMM_16_20 == Plain(5, 16)
IMM_16_22 == Plain(7, 16)
SHIFT_21_22 == Plain(2, 21)
SHIFT_22_23 == Plain(2, 22)
SHIFT_12_14_15 == << <<"Hi", 2, 14>>, <<"Lo", 1, 12>> >>
SIMM_5_23_29_30 == << <<"Hi", 19, 5>>, <<"Lo", 2, 29>> >>
IMM_19_23_31 == << <<"Lo", 5, 19>>, <<"Hi", 1, 31>> >>
IMM_FLT_ZERO == << <<"Force0", 0, 0>> >>

A64Opc(name, bits, fields) == <<Opcode(name, bits, fields)>>
\* One opcode for each row <<name, bits>> of a list.
OpcodeRows(rows, bits, fields) == ForEach(rows, LAMBDA row : A64Opc(row[1], bits \o row[2], fields))

Group(n) == <<7, n, 26>>
Top3(n) == <<7, n, 29>>
Top2(n) == <<3, n, 29>>
Flag(v, pos) == <<1, v, pos>>
W == << <<"_w", Flag(0, 31)>>, <<"_x", Flag(1, 31)>> >>
COND == <<"_eq", "_ne", "_cs", "_cc", "_mi", "_pl", "_vs", "_vc", "_hi", "_ls", "_ge", "_lt", "_gt", "_le">>
CondBits == [i \in DOMAIN COND |-> i - 1]

----------------------------------------------------------------------------
ThreeReg == <<REG_0_4, REG_5_9, REG_16_20>>

AluReg ==
    LET Row(name, top, n, invert) == <<name, <<Top2(top), <<3, n, 24>>, Flag(invert, 21)>> >>
    IN  ForEach(W, LAMBDA w :
            OpcodeRows(<<Row("add", 0, 3, 0), Row("and", 0, 2, 0), Row("bic", 0, 2, 1), Row("sub", 2, 3, 0),
                         Row("orr", 1, 2, 0), Row("orn", 1, 2, 1), Row("eor", 2, 2, 0), Row("eon", 2, 2, 1),
                         Row("adds", 1, 3, 0), Row("ands", 3, 2, 0), Row("bics", 3, 2, 1), Row("subs", 3, 3, 0)>>,
                       <<Group(2), w[2]>>, <<REG_0_4, REG_5_9, SHIFT_22_23, REG_16_20, IMM_10_15>>)
            \o ForEach(<<0, 1, 2, 3, 4, 5, 6, 7>>, LAMBDA option :
                   OpcodeRows(<< <<"add", <<Top2(0)>> >>, <<"sub", <<Top2(2)>> >>,
                                 <<"adds", <<Top2(1)>> >>, <<"subs", <<Top2(3)>> >> >>,
                              <<Group(2), w[2], <<7, option, 13>>, <<31, 25, 21>> >>,
                              <<REG_0_4, REG_5_9, SHIFT_10_12_LIMIT4, REG_16_20>>)))

A64Exclusive ==
    ForEach(<<6, 4, 2, 0>>, LAMBDA size :
        LET Load(name, n) == A64Opc(name, <<Top3(size), Group(2), <<65535, n, 10>> >>, <<REG_0_4, REG_5_9>>)
            Store(name, n) == A64Opc(name, <<Top3(size), Group(2), <<31, 0, 21>>, <<63, n, 10>> >>,
                                     <<REG_16_20, REG_5_9, REG_0_4>>)
        IN  Load("ldxr", \h17df) \o Load("ldaxr", \h17ff) \o Load("ldar", \h37ff)
            \o Store("stxr", 31) \o Store("stlxr", 63)
            \o A64Opc("stlr", <<Top3(size), Group(2), <<65535, \h27ff, 10>> >>, <<REG_5_9, REG_0_4>>))

\* The post-indexed, the pre-indexed and the plain form of a load or store of a pair.
PairForms(name, bits, n, fields) ==
    OpcodeRows(<< <<name \o "_imm_post", << <<15, n, 22>> >> >>, <<name \o "_imm_pre", << <<15, n + 4, 22>> >> >>,
                  <<name \o "_imm", << <<15, n + 2, 22>> >> >> >>, bits, fields)

LoadPair == <<REG_0_4, REG_10_14, REG_5_9, SIMM_15_21>>
StorePair == <<REG_5_9, SIMM_15_21, REG_0_4, REG_10_14>>
Pairs ==
    ForEach(<<5, 1, 3>>, LAMBDA size : PairForms("ldp", <<Top3(size), Group(2)>>, 3, LoadPair))
    \o ForEach(<<5, 1>>, LAMBDA size : PairForms("stp", <<Top3(size), Group(2)>>, 2, StorePair))
FloatPairs ==
    ForEach(<<1, 3, 5>>, LAMBDA size :
        PairForms("fstp", <<Top3(size), Group(3)>>, 2, StorePair)
        \o PairForms("fldp", <<Top3(size), Group(3)>>, 3, LoadPair))

Immediates ==
    LET two == <<REG_0_4, REG_5_9>>
        wide == << <<7, 5, 23>> >>
        logical == << <<7, 4, 23>> >>
        field == << <<7, 6, 23>> >>
    IN  ForEach(W, LAMBDA w :
            LET bits == <<Group(4), w[2]>>
            IN  OpcodeRows(<< <<"add_imm", <<Top2(0)>> >>, <<"sub_imm", <<Top2(2)>> >>,
                              <<"adds_imm", <<Top2(1)>> >>, <<"subs_imm", <<Top2(3)>> >> >>,
                           bits \o <<Flag(0, 23), <<3, 1, 24>> >>, two \o <<IMM_10_21_22>>)
                \o OpcodeRows(<< <<"and_imm", <<Top2(0)>> >>, <<"eor_imm", <<Top2(2)>> >>,
                                 <<"orr_imm", <<Top2(1)>> >>, <<"ands_imm", <<Top2(3)>> >> >>,
                              bits \o logical, two \o <<IMM_10_21_22>>)
                \o OpcodeRows(<< <<"bfm", <<Top2(1)>> >>, <<"ubfm", <<Top2(2)>> >>, <<"sbfm", <<Top2(0)>> >> >>,
                              bits \o field, two \o <<IMM_16_22, IMM_10_15>>)
                \o A64Opc("extr", bits \o <<Top2(0), <<7, 7, 23>>, Flag(w[2][2], 22), Flag(0, 21)>>,
                          ThreeReg \o <<IMM_10_15>>)
                \o A64Opc("movk", bits \o wide \o <<Top2(3)>>, <<REG_0_4, SHIFT_21_22, IMM_5_20>>)
                \o OpcodeRows(<< <<"movz", <<Top2(2)>> >>, <<"movn", <<Top2(0)>> >> >>,
                              bits \o wide, <<REG_0_4, IMM_5_20_21_22>>))
        \o OpcodeRows(<< <<"adr", <<Flag(0, 31)>> >>, <<"adrp", <<Flag(1, 31)>> >> >>,
                      <<Group(4), <<3, 0, 24>> >>, <<REG_0_4, SIMM_5_23_29_30>>)

----------------------------------------------------------------------------
Jumps ==
    LET Whole(n) == <<Top3(6), <<\h3ffffff, n, 0>> >>
        Register(n) == <<Top3(6), <<65535, n, 10>>, <<31, 0, 0>> >>
        root == <<Group(5)>>
    IN  OpcodeRows(<< <<"b", <<Top3(0)>> >>, <<"bl", <<Top3(4)>> >> >>, root, <<SIMM_0_25>>)
        \o OpcodeRows(<< <<"ret", Register(\h97c0)>>, <<"br", Register(\h87c0)>>, <<"blr", Register(\h8fc0)>> >>,
                      root, <<REG_5_9>>)
        \o OpcodeRows([i \in DOMAIN COND |-> <<"b" \o COND[i], <<Top3(2), <<3, 0, 24>>, <<31, i - 1, 0>> >> >>],
                      root, <<SIMM_5_23>>)
        \o OpcodeRows(<< <<"cbnz_64", <<Top3(5), <<3, 1, 24>> >> >>, <<"cbnz_32", <<Top3(1), <<3, 1, 24>> >> >>,
                         <<"cbz_64", <<Top3(5), <<3, 0, 24>> >> >>, <<"cbz_32", <<Top3(1), <<3, 0, 24>> >> >> >>,
                      root, <<REG_0_4, SIMM_5_23>>)
        \o OpcodeRows(<< <<"tbz", <<Top2(1), <<3, 2, 24>> >> >>, <<"tbnz", <<Top2(1), <<3, 3, 24>> >> >> >>,
                      root, <<REG_0_4, IMM_19_23_31, SIMM_5_18>>)
        \o OpcodeRows(<< <<"hlt", << <<31, 2, 21>>, <<31, 0, 0>> >> >>, <<"brk", << <<31, 1, 21>>, <<31, 0, 0>> >> >>,
                         <<"svc", << <<31, 0, 21>>, <<31, 1, 0>> >> >> >>, root \o <<Top3(6)>>, <<IMM_5_20>>)
        \o OpcodeRows(<< <<"yield", Whole(\h103203f)>>, <<"nop", Whole(\h103201f)>>, <<"eret", Whole(\h29f03e0)>>,
                         <<"isb", Whole(\h1033fdf)>>, <<"clrex", Whole(\h1033f5f)>>,
                         <<"dmb_ish", Whole(\h1033bbf)>>, <<"dmb_ishld", Whole(\h10339bf)>>,
                         <<"dmb_ishst", Whole(\h1033abf)>>, <<"dsb_ish", Whole(\h1033b9f)>>,
                         <<"dsb_ishld", Whole(\h103399f)>>, <<"dsb_ishst", Whole(\h1033a9f)>> >>, root, <<>>)

Arithmetic ==
    LET Row(name, top, n, m) == <<name, <<Top2(top), <<31, n, 21>>, <<63, m, 10>> >> >>
        long == <<Group(6), Flag(1, 31), <<3, 3, 24>>, Top2(0)>>
    IN  ForEach(W, LAMBDA w :
            OpcodeRows(<< <<"madd", <<Flag(0, 15)>> >>, <<"msub", <<Flag(1, 15)>> >> >>,
                       <<Group(6), w[2], <<3, 3, 24>>, <<7, 0, 21>>, Top2(0)>>, ThreeReg \o <<REG_10_14>>)
            \o OpcodeRows(<<Row("udiv", 0, 22, 2), Row("sdiv", 0, 22, 3), Row("lslv", 0, 22, 8),
                            Row("lsrv", 0, 22, 9), Row("asrv", 0, 22, 10), Row("rorv", 0, 22, 11),
                            Row("adc", 0, 16, 0), Row("sbc", 2, 16, 0),
                            Row("adcs", 1, 16, 0), Row("sbcs", 3, 16, 0)>>, <<Group(6), w[2]>>, ThreeReg))
        \o OpcodeRows(<< <<"smaddl", << <<7, 1, 21>>, Flag(0, 15)>> >>, <<"smsubl", << <<7, 1, 21>>, Flag(1, 15)>> >>,
                         <<"umaddl", << <<7, 5, 21>>, Flag(0, 15)>> >>, <<"umsubl", << <<7, 5, 21>>, Flag(1, 15)>> >> >>,
                      long, ThreeReg \o <<REG_10_14>>)
        \o OpcodeRows(<< <<"smulh", << <<7, 2, 21>> >> >>, <<"umulh", << <<7, 6, 21>> >> >> >>,
                      long \o << <<31, 31, 10>>, Flag(0, 15)>>, ThreeReg)

\* Loads and stores of one register.  "unscaled" is the width of the field that tells
\* the addressing modes apart, with its value.
Unscaled(n, low) == << <<31, n, 21>>, <<3, low, 10>> >>
RegIndex(n, x) == << <<31, n, 21>>, Flag(x, 13), <<3, 2, 10>> >>
Memory ==
    ForEach(<< <<"_x", 7>>, <<"_w", 5>>, <<"_h", 3>>, <<"_b", 1>> >>, LAMBDA e :
        LET bits == <<Group(6), Top3(e[2])>>
            near == <<REG_0_4, REG_5_9, SIMM_12_20>>
            far == <<REG_0_4, REG_5_9, IMM_10_21>>
            index == <<REG_0_4, REG_5_9, SHIFT_12_14_15, REG_16_20>>
            Stored(fields) == Tail(fields) \o <<REG_0_4>>
            \* load and sign-extend: the six forms for one destination.
            Signed(n, m) ==
                A64Opc("ldrs" \o e[1] \o "_imm", bits \o << <<15, n, 22>> >>, far)
                \o OpcodeRows(<< <<"ldrs" \o e[1] \o "_imm_pre", Unscaled(m, 3)>>,
                                 <<"ldrs" \o e[1] \o "_imm_post", Unscaled(m, 1)>>,
                                 <<"ldurs" \o e[1] \o "_imm", Unscaled(m, 0)>> >>, bits, near)
                \o OpcodeRows(<< <<"ldrs" \o e[1] \o "_reg_w", RegIndex(m + 1, 0)>>,
                                 <<"ldrs" \o e[1] \o "_reg_x", RegIndex(m + 1, 1)>> >>, bits, index)
        IN  A64Opc("ldr" \o e[1] \o "_imm", bits \o << <<15, 5, 22>> >>, far)
            \o OpcodeRows(<< <<"ldr_imm_pre", Unscaled(2, 3)>>, <<"ldr_imm_post", Unscaled(2, 1)>>,
                             <<"ldur_imm", Unscaled(2, 0)>> >>, bits, near)
            \o OpcodeRows(<< <<"ldr_reg_w", RegIndex(3, 0)>>, <<"ldr_reg_x", RegIndex(3, 1)>> >>, bits, index)
            \o OpcodeRows(<< <<"str_reg_w", RegIndex(1, 0)>>, <<"str_reg_x", RegIndex(1, 1)>> >>, bits, Stored(index))
            \o A64Opc("str" \o e[1] \o "_imm", bits \o << <<15, 4, 22>> >>, Stored(far))
            \o OpcodeRows(<< <<"str_imm_pre", Unscaled(0, 3)>>, <<"str_imm_post", Unscaled(0, 1)>>,
                             <<"stur_imm", Unscaled(0, 0)>> >>, bits, Stored(near))
            \o CASE e[1] = "_w" -> Signed(6, 4)
                 [] e[1] \in {"_b", "_h"} -> Signed(7, 6) \o Signed(6, 4)
                 [] OTHER -> <<>>)

ConditionalFor(w, c) ==
    LET Compare(name, top, low) == <<name, <<Top2(top), <<31, 18, 21>>, <<3, low, 10>>, Flag(0, 4)>> >>
        bits == <<w[2], Group(6), <<15, c, 12>> >>
    IN  OpcodeRows(<< <<"csel", <<Top2(0), <<3, 0, 10>> >> >>, <<"csneg", <<Top2(2), <<3, 1, 10>> >> >>,
                      <<"csinc", <<Top2(0), <<3, 1, 10>> >> >>, <<"csinv", <<Top2(2), <<3, 0, 10>> >> >> >>,
                   bits \o << <<31, 20, 21>> >>, ThreeReg)
        \o OpcodeRows(<<Compare("ccmp_reg", 3, 0), Compare("ccmp_imm", 3, 2),
                        Compare("ccmn_reg", 1, 0), Compare("ccmn_imm", 1, 2)>>,
                      bits, <<REG_5_9, IMM_16_20, IMM_0_3>>)
Conditional ==
    ForEach(W, LAMBDA w : ForEach(CondBits, LAMBDA c : ConditionalFor(w, c)))
    \o ForEach(<< <<"rbit", 6, 0>>, <<"rbit", 2, 0>>, <<"clz", 6, 4>>, <<"clz", 2, 4>>, <<"cls", 6, 5>>, <<"cls", 2, 5>>,
                   <<"rev", 6, 3>>, <<"rev", 2, 2>>, <<"rev32", 6, 2>>, <<"rev16", 6, 1>>, <<"rev16", 2, 1>> >>, LAMBDA r :
           A64Opc(r[1], <<Group(6), <<8191, \h1600, 13>>, Top3(r[2]), <<7, r[3], 10>> >>, <<REG_0_4, REG_5_9>>))

----------------------------------------------------------------------------
FloatArithmetic ==
    LET root == <<Group(7), Top3(0), <<7, 4, 23>>, Flag(1, 21)>>
        Binary(name, n) == <<name, << <<63, n, 10>> >> >>
        Unary(name, n) == <<name, << <<2047, n, 10>> >> >>
    IN  ForEach(<<Flag(0, 22), Flag(1, 22)>>, LAMBDA w :
            A64Opc("fmov_imm", root \o <<w, <<255, 128, 5>> >>, <<REG_0_4, IMM_13_20_FLT>>)
            \o OpcodeRows(<<Binary("fmul", 2), Binary("fdiv", 6), Binary("fadd", 10), Binary("fsub", 14),
                            Binary("fmax", 18), Binary("fmaxnm", 26), Binary("fmin", 22),
                            Binary("fminnm", 30), Binary("fnmul", 34)>>, root \o <<w>>, ThreeReg)
            \o OpcodeRows(<< <<"fmadd", <<Flag(0, 21), Flag(0, 15)>> >>, <<"fmsub", <<Flag(0, 21), Flag(1, 15)>> >>,
                             <<"fnmadd", <<Flag(1, 21), Flag(0, 15)>> >>, <<"fnmsub", <<Flag(1, 21), Flag(1, 15)>> >> >>,
                          <<Group(7), Top3(0), w, <<7, 6, 23>> >>, ThreeReg \o <<REG_10_14>>)
            \o OpcodeRows(<< <<"fabd", << <<7, 5, 23>>, <<63, 53, 10>> >> >>,
                             <<"fcmge", << <<7, 4, 23>>, <<63, 57, 10>> >> >>,
                             <<"fcmgt", << <<7, 5, 23>>, <<63, 57, 10>> >> >> >>,
                          <<Group(7), Top3(3), w, Flag(1, 21)>>, ThreeReg)
            \o A64Opc("fcmp_zero", root \o <<w, <<31, 0, 16>>, <<63, 8, 10>>, <<31, 8, 0>> >>,
                      <<REG_5_9, IMM_FLT_ZERO>>)
            \o A64Opc("fcmp", root \o <<w, <<63, 8, 10>>, <<31, 0, 0>> >>, <<REG_5_9, REG_16_20>>)
            \o OpcodeRows(<<Unary("fabs", \h30), Unary("fneg", \h50), Unary("fsqrt", \h70),
                            Unary("frinta", \h190), Unary("frinti", \h1f0), Unary("frintm", \h150),
                            Unary("frintn", \h110), Unary("frintp", \h130), Unary("frintx", \h1d0),
                            Unary("frintz", \h170)>>, root \o <<w>>, <<REG_0_4, REG_5_9>>)
            \o ForEach(CondBits, LAMBDA c :
                   A64Opc("fcsel", root \o <<w, <<15, c, 12>>, <<3, 3, 10>> >>, ThreeReg)
                   \o A64Opc("fccmp", root \o <<w, <<15, c, 12>>, <<3, 1, 10>>, Flag(0, 4)>>,
                             <<REG_5_9, REG_16_20, IMM_0_3>>)))

\* The five widths: bits 30 and 31, and what is added to bits 22 and 23.
FloatAccess(n, load, e) ==
    LET bits == <<Group(7), Flag(1, 29), <<3, e[2], 30>>, <<3, e[3] + load, 22>> >>
        Near(low) == << <<3, 0, 24>>, Flag(0, 21), <<3, low, 10>> >>
        Index(x) == << <<3, 0, 24>>, Flag(x, 13), Flag(1, 21), <<3, 2, 10>> >>
        Order(fields) == IF load = 1 THEN <<REG_0_4>> \o fields ELSE fields \o <<REG_0_4>>
    IN  OpcodeRows(<< <<n \o "_imm_post", Near(1)>>, <<n \o "_imm_pre", Near(3)>>, <<n \o "_unscaled_imm", Near(0)>> >>,
                   bits, Order(<<REG_5_9, SIMM_12_20>>))
        \o A64Opc(n \o "_imm", bits \o << <<3, 1, 24>> >>, Order(<<REG_5_9, IMM_10_21>>))
        \o OpcodeRows(<< <<n \o "_reg_w", Index(0)>>, <<n \o "_reg_x", Index(1)>> >>,
                      bits, Order(<<REG_5_9, SHIFT_12_14_15, REG_16_20>>))
FloatLoadsAndStores ==
    LET widths == << <<"_b", 0, 0>>, <<"_h", 1, 0>>, <<"_s", 2, 0>>, <<"_d", 3, 0>>, <<"_q", 0, 2>> >>
    IN  ForEach(widths, LAMBDA e : FloatAccess("fldr" \o e[1], 1, e))
        \o ForEach(widths, LAMBDA e : FloatAccess("fstr" \o e[1], 0, e))

FloatConversions ==
    LET two == <<REG_0_4, REG_5_9>>
        root == <<Group(7), <<7, 4, 23>>, Top2(0)>>
        kinds == <<"h", "s", "d">>
        code == [h |-> 3, s |-> 0, d |-> 1]
    IN  OpcodeRows([i \in 1 .. 4 |-> << <<"s_from_w", "w_from_s", "d_from_x", "x_from_d">>[i],
                                        <<Flag((i - 1) \div 2, 31), <<3, (i - 1) \div 2, 22>>, Flag(0, 19), Flag(i % 2, 16)>> >>],
                   <<Top2(0), Group(7), <<3, 2, 24>>, <<3, 2, 20>>, <<3, 3, 17>>, <<63, 0, 10>> >>, two)
        \o ForEach(kinds, LAMBDA dst : ForEach(SelectSeq(kinds, LAMBDA k : k # dst), LAMBDA src :
               A64Opc("fcvt_" \o dst \o "_" \o src,
                      <<Top3(0), Group(7), <<3, 2, 24>>, <<3, code[src], 22>>, <<31, 17, 17>>,
                        <<3, code[dst], 15>>, <<31, 16, 10>> >>, two)))
        \o ForEach(W, LAMBDA w : ForEach(<<Flag(0, 22), Flag(1, 22)>>, LAMBDA p :
               OpcodeRows([i \in 1 .. 12 |->
                   << <<"fcvtas", "fcvtau", "fcvtms", "fcvtmu", "fcvtns", "fcvtnu",
                        "fcvtps", "fcvtpu", "fcvtzs", "fcvtzu", "scvtf", "ucvtf">>[i],
                      << <<4095, <<\h900, \h940, \hc00, \hc40, \h800, \h840, \ha00, \ha40,
                                   \he00, \he40, \h880, \h8c0>>[i], 10>> >> >>],
                   root \o <<w[2], p>>, two)))

----------------------------------------------------------------------------
A64Table == AluReg \o A64Exclusive \o Pairs \o FloatPairs \o Immediates \o Jumps \o Arithmetic \o Memory
            \o Conditional \o FloatArithmetic \o FloatLoadsAndStores \o FloatConversions

\* An opcode is entered under its value in the top byte with every choice of the bits its
\* mask does not cover, and looked up in the list of the word's top byte.  0 is None.
Top == 24 .. 31
Registered(opc, top) == \E dont_care \in SUBSET (Top \ opc.mask) : top = (opc.value \cap Top) \cup dont_care
A64FindOpcode(word) ==
    SelectInSeq(A64Table, LAMBDA opc : Registered(opc, word \cap Top) /\ Matches(opc, word))
=============================================================================
