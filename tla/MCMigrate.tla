------------------------------ MODULE MCMigrate ------------------------------
(* Instances of Migrate for TLC. *)
EXTENDS Migrate

\* Bound: the first run gets no repairs answered.  It ends with a variant, with
\* nobody, broken off, or killed while it writes, and the second finds that.
FirstUnrepaired == runs = 1 /\ round > 0 => pc' # "emit"
=============================================================================
