------------------------------- MODULE Solvers -------------------------------
(***************************************************************************)
(* The searches layer C finds boundary inputs with: solveEquality,         *)
(* solveCongruence, the two lower bounds, the staircase and composed       *)
(* solvers and the probes of cli/src/verify/symexec.ts.                    *)
(*                                                                         *)
(* A search returns the sequence of what it would propose, in the order it *)
(* looks; a caller that wants one takes the head.  The variables of a form *)
(* are tried in the order of the inputs.                                   *)
(***************************************************************************)
EXTENDS ExactForms

CONSTANT MaxSolutions  \* symbolic.maxBoundarySolutions

UpTo(n, s) == SubSeq(s, 1, IF Len(s) < n THEN Len(s) ELSE n)
First(s) == UpTo(1, s)
InOrder(S) == SetToSortSeq(S, <)
Gather(s, Op(_)) == FlattenSeq([n \in DOMAIN s |-> Op(s[n])])
Sifted(s, P(_)) == SelectSeq(s, P)

\* MUTANT of InPicture: one value past the largest is let in.
InPictureOff(j, v) == v \in 0..(Top[j] + 1)

InPicture(j, v) == v \in 0..Top[j]

\* The line through base along one input: its points, and one of them.
Point(base, j, v) == [base EXCEPT ![j] = v]
Line(base, j) == [n \in 1..(Top[j] + 1) |-> Point(base, j, n - 1)]

-----------------------------------------------------------------------------
(***************************************************************************)
(* Equality over one free input                                            *)
(***************************************************************************)
SolveEquality(a, target, bases, cons) ==
    Gather(bases, LAMBDA base :
      Gather(InOrder(Terms(a)), LAMBDA j :
        Sifted(Line(base, j), LAMBDA x : Affine(a, x) = target /\ AllHold(cons, x))))

-----------------------------------------------------------------------------
(***************************************************************************)
(* k*x = h (mod m): the first positive solutions from lo up to top         *)
(***************************************************************************)
egcd[p \in Nat \X Nat] ==
    IF p[2] = 0 THEN <<p[1], 1, 0>>
    ELSE LET e == egcd[<<p[2], p[1] % p[2]>>]
         IN <<e[1], e[3], e[2] - (p[1] \div p[2]) * e[3]>>

\* The smallest solution of k*x = h (mod m), k and h divided by their gcd.
Residue(k, h, m) ==
    LET inverse == egcd[<<IF k = 0 THEN m ELSE k, m>>][2]
    IN (h * (inverse % m)) % m

\* MUTANT of SolveCongruence: the search starts one period late.
SolveCongruenceLate(k, h, m, limit, top, lo) ==
    LET kk == k % m
        g == egcd[<<IF kk = 0 THEN m ELSE kk, m>>][1]
        period == m \div g
        x0 == Residue((kk \div g) % period, ((h % m) \div g) % period, period)
        from == IF lo > 1 THEN lo ELSE 1
        skipped == IF x0 < from THEN (from - x0 + period) \div period ELSE 0
        first == x0 + skipped * period
    IN IF (h % m) % g # 0 \/ first > top THEN <<>>
       ELSE UpTo(limit, [n \in 1..((top - first) \div period + 1) |-> first + (n - 1) * period])

SolveCongruence(k, h, m, limit, top, lo) ==
    LET kk == k % m
        g == egcd[<<IF kk = 0 THEN m ELSE kk, m>>][1]
        period == m \div g
        x0 == Residue((kk \div g) % period, ((h % m) \div g) % period, period)
        from == IF lo > 1 THEN lo ELSE 1
        skipped == IF x0 < from THEN (from - x0 + period - 1) \div period ELSE 0
        first == x0 + skipped * period
    IN IF (h % m) % g # 0 \/ first > top THEN <<>>
       ELSE UpTo(limit, [n \in 1..((top - first) \div period + 1) |-> first + (n - 1) * period])

-----------------------------------------------------------------------------
(***************************************************************************)
(* Lower bounds on an input, in steps of its grid                          *)
(***************************************************************************)
Facing(op, k) == IF k > 0 THEN op ELSE Flipped(op)
BoundsBelow(op) == op \in {">", ">=", "="}

\* One rounded term over input j alone, rising with it.
OneRoundOver(f, j) ==
    /\ Len(f.rounds) = 1 /\ f.rounds[1].k # 0
    /\ f.rounds[1].inner.rounds = <<>> /\ Terms(f.rounds[1].inner) = {j}
    /\ f.rounds[1].inner.coef[j] > 0

Slack(r) == IF r.mode = "half-up" THEN r.u \div 2 ELSE 0

\* singleVarLowerBound, taken down to the grid: at most one bound.
SingleVarLowerBound(con, j) ==
    LET f == con.form
        r == f.rounds[1]
        a == r.inner.coef[j]
        count == IF Facing(Effective(con), r.k) = ">" THEN FloorDiv(-f.c, r.k) + 1
                                                     ELSE -FloorDiv(f.c, r.k)
    IN IF f.rounds = <<>> /\ Terms(f) = {j} /\ BoundsBelow(Facing(Effective(con), f.coef[j]))
       THEN {FloorDiv(-f.c, f.coef[j])}
       ELSE IF OneRoundOver(f, j) /\ Terms(f) = {} /\ BoundsBelow(Facing(Effective(con), r.k))
       THEN {FloorDiv(count * r.u - Slack(r) - r.inner.c, a)}
       ELSE IF /\ OneRoundOver(f, j) /\ Terms(f) = {j} /\ f.coef[j] > 0 /\ r.k > 0
               /\ BoundsBelow(Effective(con))
       THEN {FloorDiv(-(f.c * r.u + r.k * (r.inner.c + Slack(r))), f.coef[j] * r.u + r.k * a)}
       ELSE {}

\* The least v in 0..top where P is true, P true at top and rising.
Bisect(P(_), top) ==
    LET half[r \in Nat \X Nat] ==
          LET mid == (r[1] + r[2]) \div 2 IN
          IF r[1] >= r[2] THEN r[2]
          ELSE IF P(mid) THEN half[<<r[1], mid>>] ELSE half[<<mid + 1, r[2]>>]
    IN half[<<0, top>>]

\* freeVarLowerBoundThroughRounding, one constraint.
ThroughRoundingBound(con, j) ==
    LET gate(v) == Holds(con, Point(Zeros, j, v))
    IN IF /\ con.form.rounds # <<>> /\ Vars(con.form) = {j} /\ Rising(con.form)
          /\ ~gate(0) /\ gate(Top[j])
       THEN {Bisect(gate, Top[j])} ELSE {}

\* The tightest of them: where a search over input j starts on a path.
SearchStart(cons, j) ==
    Max({0} \cup UNION {SingleVarLowerBound(cons[n], j) \cup ThroughRoundingBound(cons[n], j) :
                        n \in DOMAIN cons})

-----------------------------------------------------------------------------
(***************************************************************************)
(* A boundary of one rounded term: solveThroughRounding                    *)
(***************************************************************************)
InnerTargets(r, v) ==
    IF r.mode = "half-up" THEN <<4 * r.u * v - 2 * r.u, 4 * r.u * v, 4 * r.u * v + r.u>>
                          ELSE <<4 * r.u * v, 4 * r.u * v + 2 * r.u>>

SolveThroughRounding(f, offset, bases, cons) ==
    LET r == f.rounds[1]
        away == offset * Magnitude(r.k) - f.c
        v == (SignOf(r.k) * away) \div Magnitude(r.k)
    IN IF r.k = 0 \/ away % Magnitude(r.k) # 0 \/ v < 0 THEN <<>>
       ELSE Gather(Sifted(InnerTargets(r, v), LAMBDA t : t >= 0),
                   LAMBDA t : SolveEquality(Scale(r.inner, 4), t, bases, cons))

-----------------------------------------------------------------------------
(***************************************************************************)
(* A boundary of a rising staircase: solveMixedRounding                    *)
(***************************************************************************)
Ascending(lo, hi) == [n \in 1..(hi - lo + 1) |-> lo + n - 1]

\* The inputs looked at around the crossing x0, nearest first.
Around(x0, offset) ==
    CASE offset = 0 -> Ascending(x0, x0 + 4)
      [] offset = 1 -> Ascending(x0, x0 + 8)
      [] offset = -1 -> [n \in 1..8 |-> x0 - n]

\* The least x of the line with a value not below zero, or one past its end.
Crossing(f, j, base) ==
    LET above(v) == Value(f, Point(base, j, v)) >= 0
    IN IF above(0) THEN 0 ELSE IF ~above(Top[j]) THEN Top[j] + 1 ELSE Bisect(above, Top[j])

SolveMixedRounding(f, offset, bases, cons) ==
    IF f.rounds = <<>> \/ Cardinality(Vars(f)) # 1 \/ ~Rising(f) THEN <<>>
    ELSE LET j == CHOOSE i \in Vars(f) : TRUE IN
         Gather(bases, LAMBDA base :
           LET near == Sifted(Around(Crossing(f, j, base), offset), LAMBDA v : InPicture(j, v))
               points == [n \in DOMAIN near |-> Point(base, j, near[n])]
           IN Sifted(points, LAMBDA x : SignOf(Value(f, x)) = offset /\ AllHold(cons, x)))

\* restrictExactToVar: every input but j is put at its value in base.
RECURSIVE RestrictToVar(_, _, _)
RestrictToVar(f, j, base) ==
    LET inner == [t \in DOMAIN f.rounds |-> [f.rounds[t] EXCEPT !.inner = RestrictToVar(@, j, base)]]
        settled == {t \in DOMAIN inner : Vars(inner[t].inner) = {}}
    IN [coef |-> [i \in Input |-> IF i = j THEN f.coef[i] ELSE 0],
        c |-> Affine(f, Point(base, j, 0))
              + MapThenSumSet(LAMBDA t : inner[t].k * Rounded(inner[t].inner.c, inner[t].u, inner[t].mode),
                              settled),
        rounds |-> Sifted(inner, LAMBDA r : Vars(r.inner) # {})]

SolveMixedRoundingMultiVar(f, offset, bases, cons) ==
    Gather(InOrder(Vars(f)), LAMBDA j :
      Gather(bases, LAMBDA base : SolveMixedRounding(RestrictToVar(f, j, base), offset, <<base>>, cons)))

-----------------------------------------------------------------------------
(***************************************************************************)
(* A half of an expression over one rounded value: solveComposedRounding   *)
(***************************************************************************)
\* Round half up, as its count of u.
RoundGrid(y, u) == (2 * y + u) \div (2 * u)

SolveComposedRounding(f, m, bases, cons) ==
    LET r == f.rounds[1]
        j == CHOOSE i \in Terms(r.inner) : TRUE
        a == r.inner.coef[j]
        start == SearchStart(cons, j)
        low == RoundGrid(a * start + r.inner.c, r.u)
        counts == SolveCongruence(r.k, m \div 2 - f.c, m, 3 * MaxSolutions,
                                  RoundGrid(a * Top[j] + r.inner.c, r.u),
                                  IF start > 0 /\ low > 0 THEN low ELSE 0)
        \* the least x rounded to count d, and the end of those that are
        least(d) == -FloorDiv(-(2 * d * r.u - r.u - 2 * r.inner.c), 2 * a)
        within(d) == /\ InPicture(j, least(d))
                     /\ 2 * a * least(d) < 2 * d * r.u + r.u - 2 * r.inner.c
    IN IF \/ ~(\E i \in Input : OneRoundOver(f, i)) \/ Terms(f) # {}
          \/ f.rounds[1].mode # "half-up" \/ f.rounds[1].k <= 0
       THEN <<>>
       ELSE UpTo(MaxSolutions, Gather(Sifted(counts, within), LAMBDA d :
              First(Sifted([n \in DOMAIN bases |-> Point(bases[n], j, least(d))],
                           LAMBDA x : AllHold(cons, x)))))

-----------------------------------------------------------------------------
(***************************************************************************)
(* Repairing one constraint of a candidate                                 *)
(***************************************************************************)
\* The grid neighbours of where the proxy a meets the target, nearest first.
ProbeGridNeighbors(con, a, target, x) ==
    IF con.form.rounds = <<>> THEN <<>>
    ELSE UpTo(3, Gather(InOrder(Terms(a)), LAMBDA j :
           LET floor == FloorDiv(target - Affine(a, Point(x, j, 0)), a.coef[j])
               near == <<floor>> \o Gather(Ascending(1, 8), LAMBDA n : <<floor + n, floor - n>>)
               inside == Sifted(near, LAMBDA v : InPicture(j, v))
           IN Sifted([n \in DOMAIN inside |-> Point(x, j, inside[n])], LAMBDA y : Holds(con, y))))

\* The decision value aimed at, times the proxy's denominator.
RepairTarget(con, a) ==
    LET margin == a.fuzz + a.den * Ulp(a)
        exact == a.fuzz = 0
    IN CASE Effective(con) = "=" -> 0
         [] Effective(con) = ">=" -> IF exact THEN 0 ELSE margin
         [] Effective(con) = "<=" -> IF exact THEN 0 ELSE -margin
         [] Effective(con) \in {">", "<>"} -> margin
         [] Effective(con) = "<" -> -margin

\* What is tried instead of x, whose first violated constraint is con.
Repairs(con, x) ==
    LET a == Proxy(con.form)
        solved == SolveEquality(a, RepairTarget(con, a), <<x>>, <<>>)
    IN IF solved # <<>> THEN First(solved)
       ELSE ProbeGridNeighbors(con, a, RepairTarget(con, a), x)
=============================================================================
