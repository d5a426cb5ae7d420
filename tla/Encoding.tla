------------------------------ MODULE Encoding ------------------------------
(***************************************************************************)
(* Assembling and disassembling one instruction word, for the 32-bit and   *)
(* the 64-bit Arm: what CpuA32/opcode_test.py does with every word of its  *)
(* listings, and the other way round, what the assembler does with the     *)
(* operands of a source line and the disassembler with the result.         *)
(***************************************************************************)
EXTENDS A32Opcodes
A64 == INSTANCE A64Opcodes

CONSTANTS ISAs,                 \* the instruction sets to look at
          Words(_),             \* words to take apart, of an opcode
          OperandLists(_)       \* operands to assemble, of an opcode

VARIABLES isa,
          start,                \* what was given: a word, or an opcode and its operands
          phase,                \* "word", "ins", "done", or "refused" by an assertion
          word,
          ins,                  \* the number of the opcode in its table, 0 is None
          operands

vars == <<isa, start, phase, word, ins, operands>>

Table(i) == IF i = "A32" THEN A32Table ELSE A64!A64Table
FindOpcode(i, w) == IF i = "A32" THEN A32FindOpcode(w) ELSE A64!A64FindOpcode(w)
TheOpcode == Table(isa)[ins]

----------------------------------------------------------------------------
(* Facts about the two tables, which the files assert in part when they    *)
(* are loaded.  The proofs use them instead of the tables.                 *)

\* The loop behind FIELD_DETAILS: how the ranges of an operand kind go together, with the
\* order and the widths that the entries have.
IsKind(f) ==
    LET Modifier(k) == f[k][1]
        Width(k) == f[k][2]
    IN  /\ f \in Seq(STRING \X (0 .. 32) \X (0 .. 31))
        /\ \/ /\ Len(f) = 1
              /\ \/ Modifier(1) \in {"Verbatim", "Times4", "Times8"}
                 \/ Modifier(1) = "Times2Plus4" /\ Width(1) = 1
                 \/ Modifier(1) = "Signed" /\ Width(1) > 0
                 \/ Modifier(1) = "Rotated" /\ Width(1) = 12
                 \/ Modifier(1) \in {"Force0", "Force3", "Force6", "Force14"} /\ Width(1) = 0
           \/ Len(f) = 2 /\ Modifier(1) = "Hi" /\ Modifier(2) = "Lo"
           \/ Len(f) = 2 /\ Modifier(1) = "Lo" /\ Modifier(2) = "Hi" /\ Width(2) = 1
           \/ Len(f) = 3 /\ Modifier(1) = "P" /\ Modifier(2) = "U" /\ Modifier(3) = "W"

Opcodes == [name : STRING, mask : SUBSET WordBits, value : SUBSET WordBits,
            fields : Seq(Seq(STRING \X (0 .. 32) \X (0 .. 31)))]

\* What the constructor asserts, of every opcode.
ASSUME TablesAssumption ==
    \A i \in ISAs :
        /\ i \in {"A32", "A64"} /\ Table(i) \in Seq(Opcodes)
        /\ \A n \in DOMAIN Table(i) : /\ WellFormed(Table(i)[n])
                                      /\ \A k \in DOMAIN Table(i)[n].fields : IsKind(Table(i)[n].fields[k])

\* What one opcode gives up to a more specific one that comes before it: no condition
\* (prefetch before a byte load), pc as the addend (extend before extend-and-add), one
\* register (before several registers).
TakenBy(loser, winner) ==
    \/ {PRED_28_31, REG_16_19} \cap (Range(loser.fields) \ Range(winner.fields)) # {}
    \/ /\ REG_RANGE_0_7 \in Range(loser.fields) \/ REG_RANGE_1_7 \in Range(loser.fields)
       /\ {21, 24} \subseteq winner.mask

\* What _CheckDiscriminantSeparability asserts of every two opcodes of the 32-bit table that
\* some word matches; in the 64-bit table there are none.
ASSUME SeparabilityAssumption ==
    \A i \in ISAs : \A m, n \in DOMAIN Table(i) :
        LET first == Table(i)[m]
            second == Table(i)[n]
        IN  m < n /\ first.value \cap second.mask = second.value \cap first.mask =>
                /\ i = "A32" /\ TakenBy(second, first)
                /\ Cardinality(second.mask) < Cardinality(first.mask)

\* A rotation is four bits, which stand for sixteen numbers.
ASSUME NibbleAssumption ==
    /\ \A r \in 0 .. 15 : Ones(r) \subseteq 0 .. 3
    /\ \A q, r \in 0 .. 15 : Ones(q) = Ones(r) => q = r
    /\ \A s \in SUBSET (0 .. 3) : \E r \in 0 .. 15 : Ones(r) = s

\* Words and operands have 32 bits.
ASSUME InputAssumption ==
    \A i \in ISAs : \A n \in DOMAIN Table(i) :
        /\ Words(Table(i)[n]) \subseteq SUBSET WordBits
        /\ OperandLists(Table(i)[n]) \subseteq Seq(SUBSET WordBits)
----------------------------------------------------------------------------

Init ==
    /\ isa \in ISAs
    /\ \E n \in DOMAIN Table(isa) :
          \/ \E w \in Words(Table(isa)[n]) :
                /\ start = [word |-> w, ins |-> 0, operands |-> <<>>]
                /\ phase = "word" /\ word = w /\ ins = 0 /\ operands = <<>>
          \/ \E ops \in OperandLists(Table(isa)[n]) :
                /\ start = [word |-> {}, ins |-> n, operands |-> ops]
                /\ phase = "ins" /\ word = {} /\ ins = n /\ operands = ops

\* FindOpcode, then the operands of the word.  A word of no opcode is left at that.
Disassemble ==
    /\ phase = "word"
    /\ ins' = FindOpcode(isa, word)
    /\ operands' = IF ins' = 0 THEN <<>> ELSE DisassembleOperands(Table(isa)[ins'], word)
    /\ phase' = IF ins' = 0 \/ start.ins # 0 THEN "done" ELSE "ins"
    /\ UNCHANGED <<isa, start, word>>

Assemble ==
    /\ phase = "ins"
    /\ IF CanAssemble(TheOpcode, operands)
       THEN /\ word' = AssembleOperands(TheOpcode, operands)
            /\ phase' = IF start.ins # 0 THEN "word" ELSE "done"
       ELSE /\ phase' = "refused"
            /\ UNCHANGED word
    /\ UNCHANGED <<isa, start, ins, operands>>

Next == Disassemble \/ Assemble
Spec == Init /\ [][Next]_vars

----------------------------------------------------------------------------
GivenWord == start.ins = 0
Uses(modifier) == {i \in DOMAIN TheOpcode.fields : \E r \in Range(TheOpcode.fields[i]) : r[1] = modifier}

\* An immediate whose rotation is not the first that reaches its value: it is assembled
\* with another one.  (The disassembler's main and opcode_test.py assert that it is not.)
OtherRotation ==
    \E i \in Uses("Rotated") : EncodeOperand(TheOpcode.fields[i], operands[i]).bits
                               # start.word \cap FieldMask(TheOpcode.fields[i])

\* The bit tested by tbz and tbnz of the 64-bit Arm: its ranges are listed low before high.
SplitLowFirst == \E i \in DOMAIN TheOpcode.fields : TheOpcode.fields[i][1][1] = "Lo"

\* A word that is taken apart and put together again is the same word: opcode_test.py's
\* data == data2, for the exceptions above and nothing else.  Neither isa's decoding may
\* forget a bit, nor its encoding refuse what decoding produced.
WordSurvives ==
    GivenWord /\ ins # 0 /\ phase \in {"done", "refused"} =>
        \/ phase = "done" /\ word = start.word
        \/ phase = "done" /\ OtherRotation
        \/ SplitLowFirst

----------------------------------------------------------------------------
\* An operand outside its range that no assertion stops: a scaled immediate spills into
\* the bits above its range, a signed one of twice the range wraps around.
Given == Table(isa)[start.ins]
Spilled(i) ==
    LET modifier == Given.fields[i][1][1]
        width == Given.fields[i][1][2]
        val == start.operands[i]
    IN  \/ modifier = "Times4" /\ ~(val \subseteq 2 .. width + 1)
        \/ modifier = "Times8" /\ ~(val \subseteq 3 .. width + 2)
        \/ modifier = "Times2Plus4" /\ ~(val \subseteq 1 .. width + 1)
        \/ modifier = "Signed" /\ val \ (0 .. width - 2) \notin {{}, width - 1 .. 31}

\* An operand that is not in the word at all: the link register of bl, a shift mode.
Implied(i) == Given.fields[i][1][2] = 0

\* The operands that are accepted are the operands that are read back, and by the same
\* opcode: no two instructions share a word but those that the source knows of.
OperandsSurvive ==
    ~GivenWord /\ phase = "done" =>
        \/ \E i \in DOMAIN start.operands : Spilled(i)
        \/ /\ ins = start.ins
           /\ \A i \in DOMAIN operands : operands[i] = start.operands[i] \/ Implied(i)
        \/ ins # 0 /\ isa = "A32" /\ TakenBy(Given, TheOpcode)

\* Of the opcodes that a word matches, the one found is the one that fixes most bits: the
\* order in which the tables are written, and the top byte under which the 64-bit table
\* files an opcode, never hide a more specific pattern behind a less specific one.
MostSpecificFound ==
    phase # "word" /\ GivenWord =>
        \A n \in DOMAIN Table(isa) : Matches(Table(isa)[n], start.word) =>
            ins # 0 /\ (n = ins \/ Cardinality(Table(isa)[n].mask) < Cardinality(TheOpcode.mask))
=============================================================================
