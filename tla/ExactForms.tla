------------------------------ MODULE ExactForms ------------------------------
(***************************************************************************)
(* The values and constraints layer C reasons with: ExactForm, its affine  *)
(* proxy, store's rounding and constraintHolds of                          *)
(* cli/src/verify/symexec.ts.                                              *)
(*                                                                         *)
(* The code's rationals are integers here, in a fine unit every number of  *)
(* the module is a multiple of; an input counts the steps of its PICTURE   *)
(* grid.  A form is an affine part and terms that went through a rounded   *)
(* store:  c + SUM coef[i]*x[i] + SUM k * round(inner, u, mode)            *)
(* where round counts the multiples of u and k is what one is worth.       *)
(***************************************************************************)
EXTENDS Integers, Sequences, SequencesExt, FiniteSetsExt

CONSTANTS
    Top,   \* Top[i]: the largest value of input i, in steps of its grid
    Grid,  \* Grid[i]: fine units in one step
    Unit   \* fine units in 1

ASSUME GridAssumption ==
    /\ Unit \in Nat \ {0}
    /\ DOMAIN Top = DOMAIN Grid
    /\ \A i \in DOMAIN Grid : Top[i] \in Nat /\ Grid[i] \in 1..Unit /\ Unit % Grid[i] = 0

Input == DOMAIN Top
IsAssignment(x) == x \in [Input -> Nat] /\ \A i \in Input : x[i] <= Top[i]
Assignments == {x \in [Input -> 0..Max({Top[i] : i \in Input})] : IsAssignment(x)}
Zeros == [i \in Input |-> 0]

Magnitude(n) == IF n < 0 THEN -n ELSE n
FloorDiv(n, d) == IF d > 0 THEN n \div d ELSE (-n) \div (-d)

-----------------------------------------------------------------------------
(***************************************************************************)
(* Building forms                                                          *)
(***************************************************************************)
Constant(c) == [coef |-> [i \in Input |-> 0], c |-> c, rounds |-> <<>>]
Variable(i) == [Constant(0) EXCEPT !.coef[i] = Grid[i]]

Combine(f, g) ==
    [coef |-> [i \in Input |-> f.coef[i] + g.coef[i]], c |-> f.c + g.c, rounds |-> f.rounds \o g.rounds]
Scale(f, n) ==
    [coef |-> [i \in Input |-> n * f.coef[i]], c |-> n * f.c,
     rounds |-> [t \in DOMAIN f.rounds |-> [f.rounds[t] EXCEPT !.k = n * @]]]
Minus(f, c) == [f EXCEPT !.c = @ - c]

\* Every on-grid input puts the form on the grid of step u.
OnGrid(f, u) ==
    /\ f.c % u = 0
    /\ \A i \in Input : f.coef[i] % u = 0
    /\ \A t \in DOMAIN f.rounds : f.rounds[t].k % u = 0

\* Storing into a field of step u rounds what is not on its grid.
Store(f, u, mode) ==
    IF OnGrid(f, u) THEN f
    ELSE [Constant(0) EXCEPT !.rounds = <<[k |-> u, u |-> u, mode |-> mode, inner |-> f]>>]

-----------------------------------------------------------------------------
(***************************************************************************)
(* What a form is worth                                                    *)
(***************************************************************************)
Affine(f, x) ==
    LET sum[i \in 0..Len(Top)] == IF i = 0 THEN f.c ELSE sum[i - 1] + f.coef[i] * x[i]
    IN sum[Len(Top)]

\* v rounded to multiples of u: half away from zero, or toward zero.
Toward(v, u) == IF v < 0 THEN -((-v) \div u) ELSE v \div u
Rounded(v, u, mode) ==
    IF mode = "trunc" THEN Toward(v, u)
    ELSE IF v < 0 THEN -((2 * (-v) + u) \div (2 * u)) ELSE (2 * v + u) \div (2 * u)

RECURSIVE Value(_, _)
Value(f, x) ==
    LET worth(r) == r.k * Rounded(Value(r.inner, x), r.u, r.mode)
        sum[t \in 0..Len(f.rounds)] ==
          IF t = 0 THEN Affine(f, x) ELSE sum[t - 1] + worth(f.rounds[t])
    IN sum[Len(f.rounds)]

Terms(f) == {i \in Input : f.coef[i] # 0}

RECURSIVE Vars(_)
Vars(f) == Terms(f) \cup UNION {Vars(f.rounds[t].inner) : t \in DOMAIN f.rounds}

\* A staircase that never goes down in any input.
RECURSIVE Rising(_)
Rising(f) ==
    /\ \A i \in Terms(f) : f.coef[i] > 0
    /\ \A t \in DOMAIN f.rounds : f.rounds[t].k > 0 /\ Rising(f.rounds[t].inner)

\* The affine view of a form over a denominator, and how far it may be off.
RECURSIVE Proxy(_)
Proxy(f) ==
    FoldLeft(LAMBDA p, r :
               LET q == Proxy(r.inner)
                   w == p.den * r.k
                   slack == IF r.mode = "trunc" THEN r.u ELSE r.u \div 2
               IN [coef |-> [i \in Input |-> p.coef[i] * q.den * r.u + w * q.coef[i]],
                   c |-> p.c * q.den * r.u + w * q.c,
                   den |-> p.den * q.den * r.u,
                   fuzz |-> p.fuzz * q.den * r.u + Magnitude(w) * (q.fuzz + q.den * slack)],
             [coef |-> f.coef, c |-> f.c, den |-> 1, fuzz |-> 0], f.rounds)

\* The finest input step of an affine form.
Ulp(a) == IF Terms(a) = {} THEN Unit ELSE Min({Grid[i] : i \in Terms(a)})

-----------------------------------------------------------------------------
(***************************************************************************)
(* Constraints: (form op 0) has the truth taken.                           *)
(***************************************************************************)
Ops == {">", "<", ">=", "<=", "=", "<>"}
Sign(op) == CASE op = ">" -> {1} [] op = "<" -> {-1} [] op = "=" -> {0}
              [] op = ">=" -> {0, 1} [] op = "<=" -> {-1, 0} [] op = "<>" -> {-1, 1}
SignOf(v) == IF v > 0 THEN 1 ELSE IF v < 0 THEN -1 ELSE 0

Negated(op) == CHOOSE o \in Ops : Sign(o) = {-1, 0, 1} \ Sign(op)
Flipped(op) == CHOOSE o \in Ops : Sign(o) = {-s : s \in Sign(op)}

Holds(con, x) == (SignOf(Value(con.form, x)) \in Sign(con.op)) = con.taken
AllHold(cons, x) == \A n \in DOMAIN cons : Holds(cons[n], x)

\* The relation a constraint asks of its form.
Effective(con) == IF con.taken THEN con.op ELSE Negated(con.op)
=============================================================================
