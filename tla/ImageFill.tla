----------------------------- MODULE ImageFill -----------------------------
(***************************************************************************)
(* What render_to_canvas promises its caller, with no thread in sight: the *)
(* pixels of the image are painted one at a time, none of them twice, and  *)
(* the call returns when, and only when, the whole image is there.         *)
(***************************************************************************)
CONSTANT Pixels

VARIABLES
  painted,    \* the pixels that hold their final colour
  returned    \* has the call returned?

vars == <<painted, returned>>

Init == painted = {} /\ returned = FALSE

Paint(p) ==
  /\ ~returned
  /\ p \notin painted
  /\ painted' = painted \cup {p}
  /\ UNCHANGED returned

Return ==
  /\ ~returned
  /\ painted = Pixels
  /\ returned' = TRUE
  /\ UNCHANGED painted

Next == Return \/ \E p \in Pixels : Paint(p)

Spec == Init /\ [][Next]_vars
=============================================================================
