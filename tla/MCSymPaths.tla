------------------------------ MODULE MCSymPaths ------------------------------
(***************************************************************************)
(* Programs for the path explorer, each with a shape its code treats in a  *)
(* way of its own.                                                         *)
(***************************************************************************)
EXTENDS SymPaths

CONSTANTS x, y, n, m, b, v   \* fields; b and v are views of the same bytes

Fields == {x, y, n, m, b, v}
Overlaid == {{b, v}}

Prog(stmts, bytes, lengths) ==
    [stmts |-> stmts, bytes |-> bytes, lengths |-> lengths,
     init |-> [w \in Fields |-> IF w \in {x, y} THEN Opaque ELSE 0]]

Is(f, k) == Cond("or", <<Atom(Of(f), "=", Lit(k))>>)
Below(f, k) == Cond("or", <<Atom(Of(f), "<", Lit(k))>>)
Either(f, g, k) == Cond("or", <<Atom(Of(f), "=", Lit(k)), Atom(Of(g), "=", Lit(k))>>)
Both(f, g, k) == Cond("and", <<Atom(Of(f), "=", Lit(k)), Atom(Of(g), "<", Of(f))>>)
Add1(f) == Move(f, Plus(f, 1))

\* Compound conditions, nested, and a program end in a branch.
Branches == Prog(<<Accept(x), Accept(y),
    If(Either(x, y, 1), <<Move(n, Of(x)), If(Both(x, y, 2), <<Stop>>, <<Add1(n)>>)>>,
                        <<Move(n, Lit(2))>>),
    If(Cond("and", <<Atom(Of(n), "<", Of(x)), Atom(Of(y), "<", Lit(2))>>),
       <<Move(m, Lit(1))>>, <<>>)>>, {}, {2})

\* A loop whose rounds depend on the input, beyond the bound for some.
Counting == Prog(<<Accept(x),
    Until(Is(n, 3), <<If(Is(x, 3), <<Stop>>, <<Add1(n)>>)>>),
    If(Is(n, 3), <<Move(y, Lit(0))>>, <<Move(y, Lit(1))>>)>>, {}, {1})
Search == Prog(<<Accept(x), Accept(y),
    Until(Either(n, n, 3), <<Add1(n), If(Cond("or", <<Atom(Of(n), "=", Of(x)),
        Atom(Of(m), "=", Of(y))>>), <<Move(n, Lit(3))>>, <<>>)>>),
    If(Below(x, 2), <<Move(m, Lit(2))>>, <<>>)>>, {}, {2})

\* PERFORM x TIMES, whose body writes x, in a loop of constant length.
Nested == Prog(<<Accept(x),
    Until(Is(m, 2), <<Times(Of(x), <<Move(x, Lit(0)), Add1(n)>>), Add1(m)>>)>>, {}, {1})

\* A loop that never ends for some cases, one that never ends, and one whose
\* guard is opaque.
Endless == Prog(<<Accept(x), Until(Is(x, 1), <<>>), Move(n, Of(x))>>, {}, {1})
Spin == Prog(<<Until(Is(n, 1), <<>>), Add1(n)>>, {}, {0})
Unguarded == Prog(<<Accept(x), If(Is(b, 0), <<Move(n, Of(x))>>, <<>>),
    Until(Cond("and", <<Atom(Of(b), "=", Lit(0)), Atom(Of(n), "=", Of(x))>>),
          <<Add1(n)>>)>>, {b, v}, {1})

\* A count that loses its digits in the loop: the exit is thought contradictory.
Wrapping == Prog(<<Accept(x), If(Is(x, 1), <<Move(n, Lit(3))>>, <<Move(n, Lit(2))>>),
    Until(Is(n, 0), <<Add1(n)>>), Move(m, Of(x))>>, {}, {1})

\* Records: read to the end, with and without a look at each record.
ReadAll == Prog(<<Until(Is(n, 1),
    <<Read(x, <<If(Is(x, 1), <<Add1(m)>>, <<>>)>>, <<Move(n, Lit(1))>>)>>)>>, {}, 0..3)
ReadTwice == Prog(<<Read(x, <<>>, <<Move(n, Lit(1))>>), Read(x, <<>>, <<>>)>>, {}, 0..1)
ReadThree == Prog(<<Read(x, <<Read(x, <<Read(x, <<Add1(n)>>, <<>>)>>, <<>>)>>, <<>>)>>, {}, 0..3)

\* A byte window: what it was moved over is no longer known.
Windowed == Prog(<<Accept(x), Move(b, Lit(1)), Window(b, Of(x)),
    If(Is(b, 1), <<Add1(n)>>, <<>>), If(Is(n, 1), <<Move(m, Of(x))>>, <<>>)>>, {b, v}, {1})

Ordinary == {Windowed, Branches, Counting, Search, Nested, Endless, Spin, Unguarded,
             Wrapping, ReadAll, ReadTwice, ReadThree}

\* A count that overflows its field.
Overflow == {Prog(<<Accept(x), Move(n, Lit(3)), Add1(n),
                    If(Is(n, 0), <<Move(m, Lit(1))>>, <<>>)>>, {}, {1})}

\* A field set through its other view.
OtherView == {Prog(<<Accept(x), Move(b, Lit(1)), Move(v, Of(x)),
                     If(Is(b, 1), <<Add1(n)>>, <<>>)>>, {b, v}, {1})}

\* A byte window that is written in a round beyond the bound.
LateWindow == {Prog(<<Accept(x), Move(b, Lit(1)),
    Until(Is(n, 3), <<Add1(n), If(Is(n, 3), <<Window(b, Of(x))>>, <<>>)>>)>>, {b, v}, {1})}

\* Two lines accepted into one field.
TwoLines == {Prog(<<Accept(x), Move(n, Of(x)), Accept(x),
                    If(Cond("or", <<Atom(Of(x), "=", Of(n))>>), <<>>, <<Move(m, Lit(1))>>)>>,
                  {}, {2})}

\* As many records as there are.
Count == {Prog(<<Until(Is(n, 1),
    <<Read(x, <<If(Is(m, 0), <<If(Is(x, 1), <<Move(m, Lit(1))>>, <<Move(m, Lit(1))>>)>>, <<>>)>>,
           <<Move(n, Lit(1))>>)>>)>>, {}, 0..2)}
=============================================================================
