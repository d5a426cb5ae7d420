--------------------------- MODULE BreakPointSpec ---------------------------
(***************************************************************************)
(* What a software breakpoint promises (Util/breakpoint.h), locks and      *)
(* wakeups left out: a thread that hits one stops; it goes on only after a *)
(* Resume that came later than the hit, and then it does go on.  A Resume  *)
(* of a breakpoint nobody is stopped at changes nothing.                   *)
(***************************************************************************)
CONSTANT BP   \* breakpoints, each hit at most once

VARIABLE phase   \* phase[b]: "idle", "stopped", "released", "passed"

TypeOK == phase \in [BP -> {"idle", "stopped", "released", "passed"}]

Init == phase = [b \in BP |-> "idle"]

Move(b, from, to) == phase[b] = from /\ phase' = [phase EXCEPT ![b] = to]

Break(b) == Move(b, "idle", "stopped")
Resume(b) == Move(b, "stopped", "released")
Pass(b) == Move(b, "released", "passed")

Next == \E b \in BP : Break(b) \/ Resume(b) \/ Pass(b)

Spec == Init /\ [][Next]_phase /\ \A b \in BP : WF_phase(Pass(b))
=============================================================================
