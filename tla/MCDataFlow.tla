------------------------------ MODULE MCDataFlow ------------------------------
(***************************************************************************)
(* Programs for layer D: the shapes its rules tell apart.                  *)
(***************************************************************************)
EXTENDS DataFlow

Ref(v) == Expr({v}, {}, {})
Num(n) == Expr({}, {n}, {})
Say(k, v) == Display(<<Text(k), Shows(v)>>)

Plain == [a |-> Item(None, None), b |-> Item(None, 1000), c |-> Item(None, 100),
          rate |-> Item(3, None), pct |-> Item(100, None), t |-> Item(None, 100),
          view |-> View("a", 2), i |-> Item(None, None), w |-> Item(None, None),
          acc |-> Item(0, 1000), msg |-> Item(None, None)]

\* The statements between the inputs and the outputs.
Middle ==
    {<<Compute(Whole("c"), Expr({"a", "rate"}, {}, {2}), TRUE)>>,
     <<Move(Ref("a"), {Whole("b"), Whole("c")}), Compute(Whole("b"), Expr({"b", "c"}, {5}, {}), FALSE)>>,
     <<If(<<Compute(Whole("c"), Expr({"a", "pct"}, {}, {}), TRUE)>>,
          <<Compute(Whole("c"), Expr({"b"}, {7}, {1}), FALSE)>>)>>,
     <<Loop(<<Compute(Whole("b"), Expr({"c"}, {}, {}), FALSE),
              Compute(Whole("c"), Expr({"b", "a", "acc"}, {}, {}), TRUE),
              Compute(Whole("acc"), Expr({"acc", "b"}, {}, {}), FALSE)>>)>>,
     <<Varying("i", Ref("a"), Num(2), <<Compute(Cell("t"), Expr({"i", "b"}, {}, {}), FALSE)>>),
       Compute(Whole("c"), Expr({"t"}, {}, {}), FALSE)>>,
     <<Window("w", Ref("b")), Move(Ref("w"), {Whole("c")})>>,
     <<Compute(Whole("c"), Expr({"view", "msg"}, {}, {}), FALSE)>>,
     <<Compute(Whole("c"), Expr({"view"}, {10}, {}), FALSE),
       If(<<Say("EARLY", "c"), Stop>>, <<Move(Num(4), {Whole("rate"), Whole("c")})>>)>>,
     <<Loop(<<Loop(<<Move(Ref("c"), {Whole("acc")}), Move(Ref("b"), {Whole("c")})>>),
              If(<<Move(Ref("a"), {Whole("b")})>>, <<>>)>>)>>}

Inputs == {<<Accept(Whole("a")), Accept(Whole("b"))>>, <<Accept(Whole("a")), Accept(Cell("t")), Accept(Whole("b"))>>}
Outputs == {<<Say("OUT", "c")>>,
            <<Display(<<Text("OUT"), Shows("c"), Text("SUM"), Shows("acc"), Text(None), Shows("a")>>)>>,
            <<Display(<<Text("A"), Shows("b"), Text("B"), Shows("c"), Text("C"), Shows("t")>>), Say("A", "rate")>>}

\* A file read in a loop; its fields are stored nowhere else.
Filed == [rec |-> Item(None, None), f1 |-> Item(None, None), f2 |-> Item(None, None), a |-> Item(None, None),
          n |-> Item(0, 100), sum |-> Item(None, 1000)]
ReadLoop(body) ==
    <<Accept(Whole("a")), Loop(<<Read("rec", [f1 |-> 0, f2 |-> 2], <<Move(Num(1), {Whole("n")})>>, body)>>),
      Say("SUM", "sum"), Say("N", "n")>>
Bodies == {<<Compute(Whole("sum"), Expr({"sum", "f1"}, {}, {}), FALSE)>>,
           <<Move(Ref("rec"), {Whole("n")}), Move(Ref("f1"), {Whole("sum")}), Say("SUM", "a")>>,
           <<Move(Ref("f2"), {Whole("n")}), Compute(Whole("sum"), Expr({"a", "n"}, {}, {}), TRUE)>>}

MCPrograms ==
    {[items |-> Plain, stmts |-> i \o m \o o] : i \in Inputs, m \in Middle, o \in Outputs}
    \cup {[items |-> Filed, stmts |-> ReadLoop(b)] : b \in Bodies}
    \cup {[items |-> Plain, stmts |-> <<Accept(Whole("a")), Display(<<Text(None), Shows("a")>>)>>]}

\* A table whose element has a VALUE, filled through its subscript.
Table == [a |-> Item(None, None), t |-> Item(3, 100), c |-> Item(None, 100)]
TableProgram ==
    {[items |-> Table,
      stmts |-> <<Accept(Whole("a")), Move(Ref("a"), {Cell("t")}),
                  Compute(Whole("c"), Expr({"t"}, {}, {}), FALSE), Say("OUT", "c")>>]}
=============================================================================
