--------------------------- MODULE MCReplayCache ---------------------------
(* Instances of ReplayCache for TLC: processes and texts are               *)
(* interchangeable.                                                        *)
EXTENDS ReplayCache, TLC

Symmetry == Permutations(Proc) \cup Permutations(Text)
=============================================================================
