------------------------------ MODULE CondSplit ------------------------------
(***************************************************************************)
(* How layer C turns a condition into paths: condAlternatives of           *)
(* cli/src/verify/symexec.ts.                                              *)
(*                                                                         *)
(* A parsed condition is a chain of n atoms under one connective.  Asserted *)
(* or denied it splits a path into alternatives, each of which fixes the   *)
(* truth of some of the atoms.  An input is a valuation of the atoms.      *)
(***************************************************************************)
EXTENDS Naturals

Kind == {"and", "or"}
Parsed == [kind : Kind, n : Nat \ {0}]

\* The condition itself.
Holds(parsed, v) ==
    IF parsed.kind = "and" THEN \A i \in 1..parsed.n : v[i]
                           ELSE \E i \in 1..parsed.n : v[i]

(***************************************************************************)
(* An alternative fixes the truth of atoms 1 .. upto.                      *)
(***************************************************************************)
\* OR forks when true, AND when false.
Forks(parsed, taken) == taken = (parsed.kind = "or")

\* When it does not fork, no atom decides: all are false for OR, true for AND.
Undecided(parsed) == [i \in 1..parsed.n |-> parsed.kind = "and"]

\* When it does, alternative k is: the first atom to decide is atom k.
DecidedBy(parsed, k) ==
    [i \in 1..k |-> IF i < k THEN parsed.kind = "and" ELSE parsed.kind = "or"]

Alternatives(parsed, taken) ==
    IF Forks(parsed, taken) THEN {DecidedBy(parsed, k) : k \in 1..parsed.n}
                            ELSE {Undecided(parsed)}

\* An input satisfies an alternative.
Satisfies(v, alt) == \A i \in DOMAIN alt : v[i] = alt[i]
=============================================================================
