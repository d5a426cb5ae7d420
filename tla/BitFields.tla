------------------------------ MODULE BitFields ------------------------------
(***************************************************************************)
(* How an instruction word is put together, in CpuA32/opcode_tab.py and,   *)
(* copied, in CpuA64/opcode_tab.py.  A word is the set of its bits that    *)
(* are 1; an operand is a set of bits as well, a negative one in 32-bit    *)
(* two's complement.  A bit pattern is a sequence of <<mask, value, pos>>; *)
(* an operand kind is the sequence of its bit ranges                       *)
(* <<modifier, width, pos>>, which is all that assembling and              *)
(* disassembling know of it.                                               *)
(***************************************************************************)
EXTENDS SeqFolds, FiniteSets

WordBits == 0 .. 31

\* The bits of a number below 2^31.
Ones(n) == {i \in 0 .. 30 : (n \div 2^i) % 2 = 1}

ShiftLeft(s, n) == {i + n : i \in s}
ShiftRight(s, n) == {i - n : i \in {j \in s : j >= n}}
RotateLeft(s, n) == {(i + n) % 32 : i \in s}
Low(s, width) == {i \in s : i < width}

----------------------------------------------------------------------------
\* Bits: the mask and the value of a pattern.
Mask(bits) == UNION {ShiftLeft(Ones(bits[i][1]), bits[i][3]) : i \in DOMAIN bits}
Value(bits) == UNION {ShiftLeft(Ones(bits[i][2]), bits[i][3]) : i \in DOMAIN bits}

RangeMask(r) == ShiftLeft(0 .. r[2] - 1, r[3])
FieldMask(f) == UNION {RangeMask(f[i]) : i \in DOMAIN f}

Opcode(name, bits, fields) ==
    [name |-> name, mask |-> Mask(bits), value |-> Value(bits), fields |-> fields]

\* What the constructor asserts: at most seven operands, and every bit of the word
\* belongs to the pattern or to one range of one operand.
WellFormed(opc) ==
    LET places == UNION {{i} \X DOMAIN opc.fields[i] : i \in DOMAIN opc.fields}
        Part(p) == RangeMask(opc.fields[p[1]][p[2]])
    IN  /\ Len(opc.fields) <= 7
        /\ \A p, q \in places : p # q => Part(p) \cap Part(q) = {}
        /\ \A p \in places : Part(p) \cap opc.mask = {}
        /\ opc.mask \cup UNION {Part(p) : p \in places} = WordBits
        /\ opc.value \subseteq opc.mask

----------------------------------------------------------------------------
(* Operands out of a word.                                                 *)

SignExtend_BeyondTop(s, width) == IF width \in s THEN s \cup (width .. 31) ELSE s
SignExtend(s, width) == IF width - 1 \in s THEN s \cup (width .. 31) ELSE s

DecodeRotatedImm(s) ==
    LET rot == {r \in 0 .. 15 : Ones(r) = ShiftRight(s, 8)}
    IN  RotateLeft(Low(s, 8), 32 - 2 * (CHOOSE r \in rot : TRUE))

\* An operand that is one range.
DecodeSingle(modifier, x, width) ==
    CASE modifier = "Times4" -> ShiftLeft(x, 2)
      [] modifier = "Times8" -> ShiftLeft(x, 3)
      [] modifier = "Times2Plus4" -> ShiftLeft(x, 1) \cup {2}
      [] modifier = "Signed" -> SignExtend(x, width)
      [] modifier = "Rotated" -> DecodeRotatedImm(x)
      [] modifier = "Force0" -> Ones(0)
      [] modifier = "Force3" -> Ones(3)
      [] modifier = "Force6" -> Ones(6)
      [] modifier = "Force14" -> Ones(14)
      [] OTHER -> x

\* The ranges are visited in order and the first but Hi, P and U returns.
TakeRange(word, acc, r) ==
    LET x == Low(ShiftRight(word, r[3]), r[2])
    IN  IF acc.returned THEN acc
        ELSE [returned |-> r[1] \notin {"Hi", "P", "U"},
              val |-> IF r[1] \in {"U", "Lo", "W"} THEN ShiftLeft(acc.val, r[2]) \cup x
                      ELSE DecodeSingle(r[1], x, r[2])]
DecodeOperand(f, word) ==
    FoldForward(LAMBDA acc, r : TakeRange(word, acc, r), [returned |-> FALSE, val |-> {}], f).val

----------------------------------------------------------------------------
(* Operands into a word.  "ok" is whether every assertion holds.           *)

Rotations(s) == {r \in 0 .. 15 : RotateLeft(s, 2 * r) \subseteq 0 .. 7}
EncodeRotateImm(s) ==
    LET r == CHOOSE x \in Rotations(s) : \A y \in Rotations(s) : x <= y
    IN  ShiftLeft(Ones(r), 8) \cup RotateLeft(s, 2 * r)

\* One range of an operand: whether it is accepted, and its bits.  Bits does not check
\* that they stay within the range, and a signed value passes from -2^width to 2^width - 1.
EncodeRange(modifier, val, width) ==
    CASE modifier \in {"Verbatim", "Hi", "P"} -> [ok |-> val \subseteq 0 .. width - 1, x |-> val]
      [] modifier = "Times4" -> [ok |-> val \cap {0, 1} = {}, x |-> ShiftRight(val, 2)]
      [] modifier = "Times8" -> [ok |-> val \cap {0, 1, 2} = {}, x |-> ShiftRight(val, 3)]
      [] modifier = "Times2Plus4" -> [ok |-> 2 \in val /\ 0 \notin val, x |-> ShiftRight(val \ {2}, 1)]
      [] modifier = "Signed" -> [ok |-> val \ (0 .. width - 1) \in {{}, width .. 31}, x |-> Low(val, width)]
      [] modifier = "Rotated" -> [ok |-> Rotations(val) # {},
                                  x |-> IF Rotations(val) = {} THEN {} ELSE EncodeRotateImm(val)]
      [] modifier \in {"U", "Lo", "W"} -> [ok |-> TRUE, x |-> Low(val, width)]
      [] OTHER -> [ok |-> TRUE, x |-> {}]

PutRange(acc, r) ==
    LET e == EncodeRange(r[1], acc.rest, r[2])
    IN  [ok |-> acc.ok /\ e.ok,
         bits |-> acc.bits \cup ShiftLeft(e.x, r[3]),
         rest |-> IF r[1] \in {"U", "Lo", "W"} THEN ShiftRight(acc.rest, r[2]) ELSE acc.rest]
\* The ranges are visited from the last to the first, and what they take is shifted out.
EncodeOperand_InOrder(f, val) ==
    FoldForward(PutRange, [ok |-> TRUE, bits |-> {}, rest |-> val], f)
EncodeOperand(f, val) ==
    FoldBackward(PutRange, [ok |-> TRUE, bits |-> {}, rest |-> val], f)

CanAssemble(opc, operands) ==
    /\ Len(operands) = Len(opc.fields)
    /\ \A i \in DOMAIN operands : EncodeOperand(opc.fields[i], operands[i]).ok
AssembleOperands(opc, operands) ==
    opc.value \cup UNION {EncodeOperand(opc.fields[i], operands[i]).bits : i \in DOMAIN operands}

Matches(opc, word) == word \cap opc.mask = opc.value
DisassembleOperands(opc, word) == [i \in DOMAIN opc.fields |-> DecodeOperand(opc.fields[i], word)]

\* The body of a for loop over a list that appends to the table.
ForEach(list, Body(_)) == FlattenSeq([i \in DOMAIN list |-> Body(list[i])])
=============================================================================
