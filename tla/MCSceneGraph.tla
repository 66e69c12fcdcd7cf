---------------------------- MODULE MCSceneGraph ----------------------------
(* Two groups, to nest; a closed cone, which a ray may meet four times; a  *)
(* sphere; and a plane, whose box is infinite.  One transformation moves   *)
(* and one turns around: they lead elsewhere in the other order.           *)
EXTENDS SceneGraph

CONSTANTS outer, inner, ball, cone, floor

MCGroups == {outer, inner}
MCLeaves == {ball, cone, floor}
MCKind == (ball :> "sphere") @@ (cone :> "cone") @@ (floor :> "plane")
MCRadius == (ball :> 1) @@ (cone :> 2) @@ (floor :> 0)
MCUnbounded == {floor}
MCTransforms == {[facing |-> "same", shift |-> 2], [facing |-> "opposite", shift |-> 0]}
=============================================================================
