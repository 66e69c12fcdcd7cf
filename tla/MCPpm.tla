------------------------------- MODULE MCPpm -------------------------------
(* Ppm for components that are printed as 0, 9, 10, 99, 100 and 255: all   *)
(* lengths, on both sides of where they change, and both ends of Clamp.    *)
EXTENDS Ppm

MCComponents == {-5, 35, 36, 388, 389, 1500}
=============================================================================
