------------------------------ MODULE MCRealize ------------------------------
(***************************************************************************)
(* Modules for layer C: X is a PIC 99 that ends at 30, Y a PIC 9V9 that    *)
(* ends at 1.2; the fine unit is a hundredth.  Values are built by the     *)
(* stores that build them in the engine.                                   *)
(***************************************************************************)
EXTENDS Realize

MCTop == <<30, 12>>
MCGrid == <<100, 10>>

X == Variable(1)
Y == Variable(2)
Plus(f, c) == Minus(f, -c)

\* p/q of a form.
Part(f, p, q) ==
    [coef |-> [i \in Input |-> (f.coef[i] * p) \div q], c |-> (f.c * p) \div q,
     rounds |-> [t \in DOMAIN f.rounds |-> [f.rounds[t] EXCEPT !.k = (@ * p) \div q]]]

Share == Store(Part(X, 35, 100), 100, "half-up")
Cut == Store(Part(X, 35, 100), 100, "trunc")
Cost == Store(Part(Y, 7, 10), 10, "half-up")
Net == Store(Plus(Part(Share, 3, 10), 20), 100, "half-up")

\* COMPUTE ROUNDED, its target in steps of m.
Factor(f) == [form |-> f, source |-> FALSE]
Source == [form |-> Constant(0), source |-> TRUE]
Compute(factors, m) == [site |-> 11, factors |-> factors, m |-> m, grid |-> 100, top |-> 99]

Asks(site, f, op, taken) == [site |-> site, form |-> f, op |-> op, taken |-> taken]
Fits(f, max) == <<Asks(0, f, ">=", TRUE), Asks(0, Minus(f, max), "<=", TRUE)>>
Path(cons, computes) == [cons |-> cons, opaque |-> {}, computes |-> computes, makes |-> <<>>]
Module(paths) == [paths |-> paths, base |-> <<4, 3>>]
Based(base, modules) == {[m EXCEPT !.base = base] : m \in modules}

\* IF f op c ... with a store before it, and the computation on both sides.
Fork(f, c, op, stored, compute) ==
    Module(<<Path(Fits(stored, 900) \o <<Asks(1, Minus(f, c), op, TRUE)>>, <<compute>>),
             Path(Fits(stored, 900) \o <<Asks(1, Minus(f, c), op, FALSE)>>, <<compute>>)>>)

Gates ==
    {<<X, 1200, ">=">>, <<Combine(X, Scale(Y, -2)), 600, ">">>, <<Share, 500, ">">>, <<Cut, 300, ">=">>,
     <<Scale(Share, -1), -700, "<">>, <<Combine(Part(X, 1, 2), Share), 1400, ">">>, <<Net, 200, ">=">>,
     <<Combine(Share, Cost), 620, "=">>, <<Combine(Y, Cut), 450, ">=">>}

Rate(r) == [form |-> Constant(r), source |-> FALSE]
Linear == Compute(<<Factor(Combine(Part(X, 15, 100), Part(Y, 1, 2)))>>, 10)
Composed == Compute(<<Factor(Share), Rate(5)>>, 1000)
Product == Compute(<<Factor(X), Factor(Y)>>, 10000)
Rest == {Compute(<<Factor(X), Rate(35)>>, 10000), Compute(<<Factor(Net)>>, 1000),
         Compute(<<Factor(Scale(X, 2))>>, 100), Compute(<<Factor(Share), Rate(40)>>, 10000),
         Compute(<<Rate(50)>>, 100)}
Computes == {Linear, Composed, Product} \cup Rest

Forks == {Fork(g[1], g[2], g[3], Share, c) : g \in Gates, c \in {Linear, Composed, Product}}
         \cup {Fork(Share, 500, ">", Share, c) : c \in Rest}

\* A chain of gates on one path, as a loop unrolled leaves it.
Chain(compute) ==
    Module(<<Path(<<Asks(1, Minus(X, 500), ">", TRUE), Asks(2, Minus(Share, 700), "=", TRUE),
                    Asks(3, Minus(Y, 50), "<>", TRUE), Asks(3, Minus(Y, 40), ">", TRUE)>>, <<compute>>),
             Path(<<Asks(1, Minus(X, 500), ">", TRUE), Asks(2, Minus(Share, 700), "=", FALSE),
                    Asks(4, Minus(Net, 300), "<", TRUE)>>, <<compute>>),
             Path(<<Asks(1, Minus(X, 500), ">", FALSE), Asks(4, Minus(Net, 100), "<", FALSE)>>, <<compute>>)>>)

\* Dead code: a gate beyond the PICTURE, and a constant that contradicts.
Dead(compute) ==
    Module(<<Path(<<Asks(1, Minus(X, 3000), ">", TRUE)>>, <<compute>>),
             Path(<<Asks(1, Minus(X, 3000), ">", FALSE), Asks(2, Constant(-100), ">=", TRUE)>>, <<compute>>),
             Path(<<Asks(1, Minus(X, 3000), ">", FALSE), Asks(2, Constant(-100), ">=", FALSE),
                    Asks(3, Minus(X, 3000), "=", TRUE)>>, <<compute>>),
             Path(<<Asks(1, Minus(X, 3000), ">", FALSE), Asks(2, Constant(-100), ">=", FALSE),
                    Asks(3, Minus(X, 3000), "=", FALSE)>>, <<>>)>>)

\* The field that is multiplied was made as X * Y, which the engine does not know.
Produce(factor, m, opaque) ==
    LET compute == Compute(<<Source, Rate(factor)>>, m) IN
    Module(<<[Path(<<Asks(1, Minus(X, 1000), ">", TRUE)>>, <<compute>>) EXCEPT !.makes = <<1, 2>>],
             [Path(<<Asks(1, Minus(X, 1000), ">", FALSE)>>, <<compute>>)
                EXCEPT !.makes = <<1, 2>>, !.opaque = opaque],
             Path(<<Asks(1, Minus(X, 1000), ">", FALSE)>>, <<>>)>>)

\* The base case may make a factor whole, or nothing.
Bases ==
    LET forks == {Fork(g[1], g[2], g[3], Share, Product) : g \in Gates} IN
    Based(<<4, 10>>, forks) \cup Based(<<20, 5>>, forks) \cup Based(<<0, 0>>, forks)

MCModules ==
    Bases \cup Forks \cup {Chain(c) : c \in Computes} \cup {Dead(c) : c \in Computes}
    \cup {Produce(35, 10000, {}), Produce(35, 10000, {2}), Produce(40, 10000, {}), Produce(100, 10000, {})}

\* COMPUTE A ROUNDED = X * X * RATE, RATE being .25.
Square ==
    {Fork(X, 500, ">", Share, Compute(<<Factor(X), Factor(X), Rate(25)>>, 1000000))}

\* COMPUTE A ROUNDED = X * Y, with Y = 1.0 in the base case.
Whole == Based(<<4, 10>>, {Fork(X, 1200, ">=", Share, Product)})

\* IF A >= 0 with A = X * .5 - 10 truncated: 19 is on the path, and is passed over.
Sunk ==
    LET a == Store(Plus(Part(X, 1, 2), -1000), 100, "trunc") IN
    {Fork(a, 0, ">=", Constant(0), Linear)}
=============================================================================
