------------------------------ MODULE MCPropGen ------------------------------
(***************************************************************************)
(* Generators of every mode: one case of three values, several cases of    *)
(* fewer, more failures than are shrunk, no case at all.  A top of 1 is    *)
(* below SmallDraws - 1; KeyOf leaves two keys for up to three records.    *)
(***************************************************************************)
EXTENDS PropGen

G(mode, min, max, top, count, numeric) ==
    [mode |-> mode, min |-> min, max |-> max, top |-> top, count |-> count,
     numeric |-> numeric]

Small == {
    G("fields", 3, 3, 3, 1, {1, 3}), G("fields", 1, 1, 3, 3, {1}),
    G("fields", 2, 2, 2, 2, {1, 2}),
    G("records", 1, 3, 2, 1, {}), G("records", 0, 2, 2, 2, {}),
    G("layout", 1, 3, 1, 2, {}), G("indexed", 1, 3, 3, 1, {}),
    G("indexed", 0, 2, 3, 2, {}), G("records", 0, 2, 2, 0, {})}

\* A PICTURE of fewer digits than a small draw may have.
Narrow == {G("fields", 1, 1, 1, 1, {1})}
=============================================================================
