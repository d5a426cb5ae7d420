------------------------------- MODULE SeqFolds -------------------------------
(***************************************************************************)
(* FoldLeft and FoldRight of SequencesExt as functions of the number of    *)
(* elements handled, which a proof can unfold and which nest no deeper in  *)
(* TLC than the sequence is long: TLC evaluates an argument only where it  *)
(* is needed, so that the result so far is bound by a set, whose elements  *)
(* it evaluates at once.                                                   *)
(***************************************************************************)
EXTENDS Integers, SequencesExt

\* op(... op(op(base, seq[1]), seq[2]) ..., seq[n])
FoldForward(op(_, _), base, seq) ==
    LET acc[n \in 0 .. Len(seq)] ==
            IF n = 0 THEN base
            ELSE CHOOSE end \in {op(mid, seq[n]) : mid \in {acc[n - 1]}} : TRUE
    IN  acc[Len(seq)]
\* op(... op(op(base, seq[n]), seq[n - 1]) ..., seq[1])
FoldBackward(op(_, _), base, seq) == FoldForward(op, base, Reverse(seq))
=============================================================================
