------------------------------- MODULE CobolRun -------------------------------
(***************************************************************************)
(* What a COBOL program does with an input, as far as layer C reasons      *)
(* about it: the ground truth the path explorer of SymPaths is held        *)
(* against.  The code of the repository runs the program in a container to *)
(* learn it, so this module is external to the repository's own code.      *)
(*                                                                         *)
(* A program is a tree of statements over unsigned fields of one size.  A  *)
(* case is the sequence of lines on its standard input, or of the records  *)
(* of its input file.  Arithmetic is one field plus a constant.            *)
(***************************************************************************)
EXTENDS Integers, Sequences, SequencesExt, CondSplit

CONSTANTS
    Var,       \* the fields
    MaxValue,  \* the largest number a field holds
    Views,     \* pairs {v, w} of fields that are views of the same bytes
    Fuel,      \* bound: statements after which a run counts as endless
    None       \* "no field": the expression is its constant

Input == 0..MaxValue

\* Expressions and statements.
Lit(n) == [var |-> None, plus |-> n]
Of(v) == [var |-> v, plus |-> 0]
Plus(v, n) == [var |-> v, plus |-> n]
Atom(l, op, r) == [left |-> l, op |-> op, right |-> r]
Cond(kind, atoms) == [kind |-> kind, atoms |-> atoms]

Move(to, e) == [kind |-> "move", to |-> to, from |-> e]
Window(to, e) == [kind |-> "move-window", to |-> to, from |-> e]
Accept(to) == [kind |-> "accept", to |-> to]
Stop == [kind |-> "stop-run"]
If(c, yes, no) == [kind |-> "if", cond |-> c, then |-> yes, else |-> no]
Until(c, body) == [kind |-> "perform-until", cond |-> c, body |-> body]
Times(e, body) == [kind |-> "perform-times", times |-> e, body |-> body]
Read(to, found, atEnd) ==
    [kind |-> "read", to |-> to, notAtEnd |-> found, atEnd |-> atEnd]

Loops == {"perform-until", "perform-times"}
Stores == {"move", "move-window", "accept", "read"}

\* The statements whose own statements are in L.
Expressions == [var : Var \cup {None}, plus : Nat]
Conditions ==
    [kind : Kind, atoms : Seq([left : Expressions, op : {"=", "<"}, right : Expressions]) \ {<<>>}]
Statements(L) ==
    [kind : {"move", "move-window"}, to : Var, from : Expressions]
    \cup [kind : {"accept"}, to : Var] \cup [kind : {"stop-run"}]
    \cup [kind : {"if"}, cond : Conditions, then : Seq(L), else : Seq(L)]
    \cup [kind : {"read"}, to : Var, notAtEnd : Seq(L), atEnd : Seq(L)]
    \cup [kind : {"perform-until"}, cond : Conditions, body : Seq(L)]
    \cup [kind : {"perform-times"}, times : Expressions, body : Seq(L)]

\* The state of a run: the fields, the lines or records consumed, whether it
\* has ended, whether a store has lost high-order digits.
RunStates == [store : [Var -> Input], reads : Nat, ended : BOOLEAN, wrapped : BOOLEAN]
Begin(init) == [store |-> init, reads |-> 0, ended |-> FALSE, wrapped |-> FALSE]

Value(store, e) == e.plus + IF e.var = None THEN 0 ELSE store[e.var]
Compares(x, op, y) == \/ op = "=" /\ x = y
                      \/ op = "<" /\ x < y

\* The truth of each atom of a condition, and of the condition.
Truths(cond, store) ==
    [i \in DOMAIN cond.atoms |->
        LET a == cond.atoms[i]
        IN  Compares(Value(store, a.left), a.op, Value(store, a.right))]
Shape(cond) == [kind |-> cond.kind, n |-> Len(cond.atoms)]
True(cond, store) == Holds(Shape(cond), Truths(cond, store))

\* The fields that share storage with v; what statements can change.
Shared(v) == {w \in Var \ {v} : {v, w} \in Views}
Changed(stmts) == UNION {{s.to} \cup Shared(s.to) : s \in {w \in stmts : w.kind \in Stores}}

\* A store keeps the low-order digits, in every view of the bytes.
Put(st, v, x) ==
    [st EXCEPT !.store = [w \in Var |-> IF w \in {v} \cup Shared(v)
                                        THEN x % (MaxValue + 1) ELSE @[w]],
               !.wrapped = @ \/ x \notin Input]

\* An input has a line for every ACCEPT; past its end a field keeps its value.
Take(case, st, v) ==
    IF st.reads < Len(case) THEN Put([st EXCEPT !.reads = @ + 1], v, case[st.reads + 1])
                            ELSE st

\* Statements that only change fields, or end the run.
Advance(case, st, s) ==
    CASE s.kind \in {"move", "move-window"} -> Put(st, s.to, Value(st.store, s.from))
      [] s.kind = "accept"                  -> Take(case, st, s.to)
      [] s.kind = "stop-run"                -> [st EXCEPT !.ended = TRUE]

\* One statement of a run with the statements r.rest left.
Step(case, r) ==
    LET s == Head(r.rest)
        Continue(st, stmts) == [st |-> st, rest |-> stmts \o Tail(r.rest)]
    IN  IF r.st.ended \/ r.rest = <<>> THEN r
        ELSE CASE s.kind = "if" ->
                    Continue(r.st, IF True(s.cond, r.st.store) THEN s.then ELSE s.else)
               [] s.kind = "read" ->
                    IF r.st.reads < Len(case)
                    THEN Continue(Take(case, r.st, s.to), s.notAtEnd)
                    ELSE Continue(r.st, s.atEnd)
               [] s.kind = "perform-until" ->
                    Continue(r.st, IF True(s.cond, r.st.store) THEN <<>> ELSE Append(s.body, s))
               [] s.kind = "perform-times" ->
                    LET left == Value(r.st.store, s.times)
                    IN  Continue(r.st, IF left = 0 THEN <<>>
                                       ELSE Append(s.body, Times(Lit(left - 1), s.body)))
               [] OTHER -> Continue(Advance(case, r.st, s), <<>>)

\* The run from st through stmts; a run out of fuel never comes back.
Run(case, st, stmts) ==
    LET after[n \in 0..Fuel] ==
            IF n = 0 THEN {[st |-> st, rest |-> stmts]}
            ELSE {Step(case, r) : r \in after[n - 1]}
    IN  CHOOSE last \in {[r.st EXCEPT !.ended = @ \/ r.rest # <<>>] : r \in after[Fuel]} : TRUE
=============================================================================
