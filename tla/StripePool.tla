----------------------------- MODULE StripePool -----------------------------
(***************************************************************************)
(* What a StripeGroup promises its users: New hands out an element nobody  *)
(* holds, and Del takes an element back from its holder.                   *)
(***************************************************************************)
CONSTANT Slot   \* elements of the group

VARIABLES
  held,   (* elements handed out and not yet deleted *)
  out     (* what New returned, 0 if it was not called last *)

TypeOK == held \subseteq Slot /\ out \in Slot \cup {0}

Init == held = {} /\ out = 0

New == \E h \in Slot \ held : held' = held \cup {h} /\ out' = h
Del == \E h \in held : held' = held \ {h} /\ out' = 0

Next == New \/ Del

Spec == Init /\ [][Next]_<<held, out>>
=============================================================================
