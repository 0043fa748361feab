------------------------------ MODULE MCDiffExec ------------------------------
(* Instances of DiffExec for TLC. *)
EXTENDS DiffExec

\* The second of two cases ends abnormally.
LastAbends == {N}
=============================================================================
