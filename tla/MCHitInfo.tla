----------------------------- MODULE MCHitInfo -----------------------------
(* HitInfo for a world of a closed cone, which a ray can cross four times, *)
(* and solids it crosses at most twice.                                    *)
EXTENDS HitInfo

CONSTANT cone

MCMaxXs == [o \in Objects |-> IF o = cone THEN 4 ELSE 2]
MCTimes == -1 .. 1
=============================================================================
