----------------------------- MODULE MCEncoding -----------------------------
(***************************************************************************)
(* Every opcode of both tables.  Words: the bits of the operands all 0,    *)
(* all 1, one of them 1, and the pattern with one of its bits flipped.     *)
(* Operands: one of them a power of two up to just beyond its range, all   *)
(* ones or, when signed, negative; the others 0 or all ones.               *)
(***************************************************************************)
EXTENDS Encoding

Free(opc) == WordBits \ opc.mask
MCWords(opc) ==
    {opc.value \cup Free(opc)} \cup {opc.value \cup {b} : b \in Free(opc)} \cup {opc.value}
    \cup {SymDiff(opc.value, {b}) : b \in opc.mask}

Width(f) == Cardinality(FieldMask(f))
Values(f) == {{b} : b \in 0 .. Width(f) + 3} \cup {{}, 0 .. Width(f) - 1}
             \cup (IF f[1][1] = "Signed" THEN {(Width(f) - 1) .. 31, Width(f) .. 31} ELSE {})
MCOperandLists(opc) ==
    LET low == DisassembleOperands(opc, opc.value)
        high == DisassembleOperands(opc, opc.value \cup Free(opc))
    IN  UNION {{[base EXCEPT ![i] = v] : v \in Values(opc.fields[i]), base \in {low, high}} : i \in DOMAIN opc.fields}

BothISAs == {"A32", "A64"}

=============================================================================
