------------------------------- MODULE DataFlow -------------------------------
(***************************************************************************)
(* Layer D: static data-flow equivalence (cli/src/verify/staticflow.ts).   *)
(*                                                                         *)
(* A program's flows are read off its text, resolved per output key and    *)
(* compared with the flows of the migrated Java.  What they are held       *)
(* against is a run of the program that carries, with every value, the     *)
(* facets it derives from.                                                 *)
(*                                                                         *)
(* A facet is a pair <<tag, value>>: an input position, a constant, a      *)
(* rounding mode, a decimal shift, a storage capacity or a reason why the  *)
(* derivation is unresolved.  Numbers are scaled so that all are integers. *)
(***************************************************************************)
EXTENDS Integers, Sequences, SequencesExt, FiniteSets, Functions, TLC

CONSTANTS
    Programs,   \* [items, stmts]: the data division and what the entry chain runs
    MaxRounds,  \* bound: rounds of a loop in a run
    None        \* no VALUE, no capacity, no redefinition, no key

VARIABLES
    prog,
    todo,      \* the statements a run has still to execute
    prov,      \* the facets of each variable's present value
    sites,     \* what the run has consumed: lines of stdin, the file
    shown,     \* the facets of everything printed so far under a key
    modern,    \* the flows extracted from the migrated Java
    report     \* [verdict, status] or None

vars == <<prog, todo, prov, sites, shown, modern, report>>

\* Operands and statements.  A target names a variable or a cell of a table;
\* a source expression has references, literals and divisions by 10^d.
Item(value, cap) == [value |-> value, cap |-> cap, redefines |-> None, delta |-> 0]
View(of, delta) == [value |-> None, cap |-> None, redefines |-> of, delta |-> delta]
Expr(refs, lits, shifts) == [refs |-> refs, lits |-> lits, shifts |-> shifts]
Whole(v) == [base |-> v, cell |-> FALSE]
Cell(v) == [base |-> v, cell |-> TRUE]

Accept(t) == [kind |-> "accept", target |-> t]
Compute(t, e, rounded) == [kind |-> "compute", target |-> t, expr |-> e, rounded |-> rounded]
Move(e, ts) == [kind |-> "move", expr |-> e, to |-> ts]
Window(v, e) == [kind |-> "move-window", target |-> Whole(v), expr |-> e]
If(yes, no) == [kind |-> "if", then |-> yes, else |-> no]
Loop(body) == [kind |-> "perform-until", body |-> body]
Varying(v, from, by, body) ==
    [kind |-> "perform-varying", var |-> v, from |-> from, by |-> by, body |-> body]
Read(record, slots, atEnd, notAtEnd) ==
    [kind |-> "read", record |-> record, slots |-> slots, atEnd |-> atEnd, notAtEnd |-> notAtEnd]
Display(ops) == [kind |-> "display", operands |-> ops]
Text(key) == [literal |-> TRUE, name |-> key]     \* a literal that ends in KEY=, or None
Shows(v) == [literal |-> FALSE, name |-> v]
Stop == [kind |-> "stop-run"]

Tagged(tag, values) == {<<tag, x>> : x \in values}
Unresolved(facets) == \E f \in facets : f[1] = "unresolved"
PowersOfTen == {10, 100, 1000, 10000}

-----------------------------------------------------------------------------
(***************************************************************************)
(* The flows of the text.                                                  *)
(***************************************************************************)
\* collectAssigned: every target, as written.  Loop bodies are paragraphs of
\* their own there, and are collected as such.
RECURSIVE CollectAssigned(_)
CollectAssigned(stmts) ==
    IF stmts = <<>> THEN {}
    ELSE LET s == Head(stmts)
         IN  CollectAssigned(Tail(stmts)) \cup
             CASE s.kind = "move" -> s.to
               [] s.kind \in {"move-window", "compute", "accept"} -> {s.target}
               [] s.kind = "read" ->
                    {Whole(s.record)} \cup CollectAssigned(s.atEnd) \cup CollectAssigned(s.notAtEnd)
               [] s.kind = "if" -> CollectAssigned(s.then) \cup CollectAssigned(s.else)
               [] s.kind = "perform-varying" -> {Whole(s.var)} \cup CollectAssigned(s.body)
               [] s.kind = "perform-until" -> CollectAssigned(s.body)
               [] OTHER -> {}

\* MUTANT of IsConstant: what the program stores is not looked at.
IsConstantAnyway(p, v) == p.items[v].value # None

\* A name is a constant when it has a VALUE and is not among the targets.
IsConstant(p, v) == p.items[v].value # None /\ Whole(v) \notin CollectAssigned(p.stmts)

\* exprFlow: the literals and constants of an expression, and its other names.
ExprFlow(p, e) ==
    [sources |-> {v \in e.refs : ~IsConstant(p, v)},
     facets  |-> Tagged("const", e.lits \cup {p.items[v].value : v \in {w \in e.refs : IsConstant(p, w)}})
                 \cup Tagged("shift", e.shifts)]
Capacity(p, v) == Tagged("cap", {p.items[v].cap} \ {None})

\* merged(name), with what is added to its flow.
Merge(flows, name, sources, facets) ==
    LET old == IF name \in DOMAIN flows THEN flows[name] ELSE [sources |-> {}, facets |-> {}]
    IN  name :> [sources |-> old.sources \cup sources, facets |-> old.facets \cup facets] @@ flows
MergeAll(flows, names, sources, facets(_)) ==
    FoldLeft(LAMBDA fs, n : Merge(fs, n, sources, facets(n)), flows, SetToSeq(names))

\* seedRedefines: a view derives from its target, at another scale.
Views(p) == {v \in DOMAIN p.items : p.items[v].redefines # None}
Rescaled(p, v) == Tagged("shift", {p.items[v].delta} \ {0})
SeedRedefines(p) ==
    [v \in Views(p) |-> [sources |-> {p.items[v].redefines}, facets |-> Rescaled(p, v)]]

\* The operand after a literal KEY= is the key's.
ShowOperand(acc, op) ==
    IF op.literal THEN [acc EXCEPT !.pending = op.name]
    ELSE IF acc.pending = None THEN acc
    ELSE [outputs |-> Merge(acc.outputs, acc.pending, {op.name}, {}), pending |-> None]

\* walk: branches and loop bodies contribute their flows once, as a union.
RECURSIVE Walk(_, _, _)
Walk(p, acc, stmts) ==
    IF stmts = <<>> THEN acc
    ELSE LET s == Head(stmts)
             flows == acc.flows
         IN  Walk(p, CASE s.kind = "accept" ->
                    [acc EXCEPT !.flows = Merge(flows, s.target.base, {}, {<<"input", acc.lines>>}),
                                !.lines = @ + 1]
               [] s.kind = "read" ->
                    LET pos == <<"input", acc.lines>>
                        fields == MergeAll(Merge(flows, s.record, {}, {pos}), DOMAIN s.slots, {},
                                    LAMBDA n : {pos} \cup Tagged("shift", {s.slots[n]} \ {0}))
                    IN  Walk(p, Walk(p, [acc EXCEPT !.flows = fields, !.lines = @ + 1], s.atEnd),
                             s.notAtEnd)
               [] s.kind = "compute" ->
                    LET e == ExprFlow(p, s.expr)
                        rounding == IF s.rounded THEN {<<"round", "half-up">>} ELSE {}
                    IN  [acc EXCEPT !.flows = Merge(flows, s.target.base, e.sources,
                                        e.facets \cup rounding \cup Capacity(p, s.target.base))]
               [] s.kind = "move" ->
                    LET e == ExprFlow(p, s.expr)
                        consts == {f \in e.facets : f[1] = "const"}
                    IN  [acc EXCEPT !.flows = MergeAll(flows, {t.base : t \in s.to}, e.sources,
                                        LAMBDA n : consts \cup Capacity(p, n))]
               [] s.kind = "if" -> Walk(p, Walk(p, acc, s.then), s.else)
               [] s.kind = "perform-varying" ->
                    LET from == ExprFlow(p, s.from)
                        by == ExprFlow(p, s.by)
                    IN  Walk(p, [acc EXCEPT !.flows = Merge(flows, s.var, from.sources \cup by.sources,
                                                            from.facets \cup by.facets)], s.body)
               [] s.kind = "perform-until" -> Walk(p, acc, s.body)
               [] s.kind = "display" ->
                    [acc EXCEPT !.outputs =
                        FoldLeft(ShowOperand, [outputs |-> @, pending |-> None], s.operands).outputs]
               [] s.kind = "move-window" ->
                    [acc EXCEPT !.flows = Merge(flows, s.target.base, {}, {<<"unresolved", s.target.base>>})]
               [] OTHER -> acc, Tail(stmts))

\* extractLegacyFlows.
Extract(p) == Walk(p, [flows |-> SeedRedefines(p), outputs |-> <<>>, lines |-> 0], p.stmts)

\* resolveFlow: depth first, each source once; visited is shared by the calls.
RECURSIVE ResolveFlow(_, _, _)
ResolveFlow(flow, flows, visited) ==
    FoldLeft(LAMBDA out, src :
        IF src \in out.visited THEN out
        ELSE IF src \notin DOMAIN flows
        THEN [facets |-> out.facets \cup {<<"unresolved", src>>}, visited |-> out.visited \cup {src}]
        ELSE LET r == ResolveFlow(flows[src], flows, out.visited \cup {src})
             IN  [facets |-> out.facets \cup r.facets, visited |-> r.visited],
        [facets |-> flow.facets, visited |-> visited], SetToSeq(flow.sources))

\* MUTANT of LegacyResolved: one visited set for all the keys.
LegacyResolvedShared(p) ==
    LET x == Extract(p)
        all == FoldLeft(LAMBDA acc, k :
                 LET r == ResolveFlow(x.outputs[k], x.flows, acc.visited)
                 IN  [of |-> k :> r.facets @@ acc.of, visited |-> r.visited],
                 [of |-> <<>>, visited |-> {}], SetToSeq(DOMAIN x.outputs))
    IN  all.of

LegacyResolved(p) ==
    LET x == Extract(p)
    IN  [k \in DOMAIN x.outputs |-> ResolveFlow(x.outputs[k], x.flows, {}).facets]

-----------------------------------------------------------------------------
(***************************************************************************)
(* The comparison.                                                         *)
(***************************************************************************)
Compared(facets) ==
    {f \in facets : \/ f[1] \in {"input", "round", "shift"}
                    \/ f[1] = "const" /\ f[2] \notin PowersOfTen}

\* MUTANT of CompareKey: shifts are taken for harmless, as capacities are.
CompareKeyShiftless(legacy, java, key) ==
    IF key \notin DOMAIN legacy \cap DOMAIN java THEN "DIVERGENT"
    ELSE IF {f \in Compared(legacy[key]) : f[1] # "shift"} # {f \in Compared(java[key]) : f[1] # "shift"}
    THEN "DIVERGENT"
    ELSE IF Unresolved(legacy[key] \cup java[key]) THEN "UNRESOLVED" ELSE "VERIFIED"

CompareKey(legacy, java, key) ==
    IF key \notin DOMAIN legacy \cap DOMAIN java THEN "DIVERGENT"
    ELSE IF Compared(legacy[key]) # Compared(java[key]) THEN "DIVERGENT"
    ELSE IF Unresolved(legacy[key] \cup java[key]) THEN "UNRESOLVED" ELSE "VERIFIED"

\* MUTANT of Status: the keys of the Java alone are not looked at.
StatusLegacy(legacy, java) == [k \in DOMAIN legacy |-> CompareKey(legacy, java, k)]

Status(legacy, java) ==
    [k \in DOMAIN legacy \cup DOMAIN java |-> CompareKey(legacy, java, k)]
Verdict(status) ==
    IF DOMAIN status = {} THEN "NO-EVIDENCE"
    ELSE IF "DIVERGENT" \in Range(status) THEN "FAIL" ELSE "PASS"

-----------------------------------------------------------------------------
(***************************************************************************)
(* A run of the program: what its output really derives from.  Branches    *)
(* and the number of rounds are free.                                      *)
(***************************************************************************)
Stored(p) == {t.base : t \in CollectAssigned(p.stmts)}

\* A VALUE that the program may overwrite is an initial value; the extractor
\* counts it for nothing.
Initially(p) ==
    [v \in DOMAIN p.items |->
        IF p.items[v].value = None THEN {}
        ELSE {<<IF v \in Stored(p) THEN "initial" ELSE "const", p.items[v].value>>}]

Facets(v) == IF prog.items[v].redefines = None THEN prov[v]
             ELSE prov[prog.items[v].redefines] \cup Rescaled(prog, v)
Derived(e) == Tagged("const", e.lits) \cup Tagged("shift", e.shifts)
              \cup UNION {Facets(v) : v \in e.refs}

\* A store into a cell leaves the other cells of the table as they are.
Store(to, facets) ==
    [v \in DOMAIN prov |->
        IF \E t \in to : t.base = v
        THEN facets \cup IF Cell(v) \in to THEN prov[v] ELSE {}
        ELSE prov[v]]

Init ==
    /\ prog \in Programs
    /\ todo = prog.stmts
    /\ prov = Initially(prog)
    /\ sites = <<>> /\ shown = <<>>
    /\ modern = None /\ report = None

Running(kind) == todo # <<>> /\ Head(todo).kind = kind

RunAccept ==
    /\ Running("accept")
    /\ sites' = Append(sites, "line")
    /\ prov' = Store({Head(todo).target}, {<<"input", Len(sites)>>})
    /\ todo' = Tail(todo)
    /\ UNCHANGED <<prog, shown, modern, report>>

\* The records of the file are one logical input.
RunRead ==
    /\ Running("read")
    /\ LET s == Head(todo)
           pos == IF "file" \in Range(sites) THEN CHOOSE i \in DOMAIN sites : sites[i] = "file"
                  ELSE Len(sites) + 1
       IN  /\ sites' = IF pos > Len(sites) THEN Append(sites, "file") ELSE sites
           /\ \/ /\ prov' = [v \in DOMAIN prov |->
                        IF v = s.record THEN {<<"input", pos - 1>>}
                        ELSE IF v \in DOMAIN s.slots
                        THEN {<<"input", pos - 1>>} \cup Tagged("shift", {s.slots[v]} \ {0})
                        ELSE prov[v]]
                 /\ todo' = s.notAtEnd \o Tail(todo)
              \/ todo' = s.atEnd \o Tail(todo) /\ UNCHANGED prov
    /\ UNCHANGED <<prog, shown, modern, report>>

RunStore ==
    /\ todo # <<>> /\ Head(todo).kind \in {"compute", "move", "move-window"}
    /\ LET s == Head(todo) IN
       prov' = CASE s.kind = "compute" ->
                      Store({s.target}, Derived(s.expr)
                                        \cup IF s.rounded THEN {<<"round", "half-up">>} ELSE {})
                 [] s.kind = "move" -> Store(s.to, Derived(s.expr))
                 [] s.kind = "move-window" -> Store({Cell(s.target.base)}, Derived(s.expr))
    /\ todo' = Tail(todo)
    /\ UNCHANGED <<prog, sites, shown, modern, report>>

RunIf ==
    /\ Running("if")
    /\ \E branch \in {Head(todo).then, Head(todo).else} : todo' = branch \o Tail(todo)
    /\ UNCHANGED <<prog, prov, sites, shown, modern, report>>

RunLoop ==
    /\ Running("perform-until")
    /\ \E n \in 0..MaxRounds :
         todo' = FlattenSeq([i \in 1..n |-> Head(todo).body]) \o Tail(todo)
    /\ UNCHANGED <<prog, prov, sites, shown, modern, report>>

\* The variable is set from FROM, and after each round raised by BY.
RunVarying ==
    /\ Running("perform-varying")
    /\ LET s == Head(todo)
           raise == Compute(Whole(s.var), [s.by EXCEPT !.refs = @ \cup {s.var}], FALSE)
       IN  /\ prov' = Store({Whole(s.var)}, Derived(s.from))
           /\ \E n \in 0..MaxRounds :
                todo' = FlattenSeq([i \in 1..n |-> Append(s.body, raise)]) \o Tail(todo)
    /\ UNCHANGED <<prog, sites, shown, modern, report>>

\* What follows a KEY=, up to the next literal, is its value.
RunDisplay ==
    /\ Running("display")
    /\ LET ops == Head(todo).operands
           keyed == {j \in (DOMAIN ops) \X (DOMAIN ops) :
                       /\ ops[j[1]].literal /\ ops[j[1]].name # None
                       /\ \A i \in (j[1] + 1)..j[2] : ~ops[i].literal
                       /\ j[1] < j[2]}
       IN  shown' = FoldLeft(LAMBDA acc, j :
                      LET k == ops[j[1]].name
                      IN  k :> Facets(ops[j[2]].name) \cup (IF k \in DOMAIN acc THEN acc[k] ELSE {}) @@ acc,
                      shown, SetToSeq(keyed))
    /\ todo' = Tail(todo)
    /\ UNCHANGED <<prog, prov, sites, modern, report>>

RunStop ==
    /\ Running("stop-run")
    /\ todo' = <<>>
    /\ UNCHANGED <<prog, prov, sites, shown, modern, report>>

\* The flows JavaFlow may find in the Java: those of the legacy side, or with
\* a facet lost or added for one key, without the key, or with another.
Variants(legacy) ==
    LET all == UNION Range(legacy) \cup {<<"const", 7>>, <<"unresolved", "lambda">>}
    IN  {legacy, "EXTRA" :> {} @@ legacy} \cup
        UNION {{[legacy EXCEPT ![k] = @ \ {f}] : f \in all}
               \cup {[legacy EXCEPT ![k] = @ \cup {f}] : f \in all}
               \cup {Restrict(legacy, DOMAIN legacy \ {k})} : k \in DOMAIN legacy}

\* runStaticFlow, once the run has shown what it shows.
RunStaticFlow ==
    /\ todo = <<>> /\ report = None
    /\ LET legacy == LegacyResolved(prog) IN
       /\ modern' \in Variants(legacy)
       /\ LET status == Status(legacy, modern')
          IN  report' = [verdict |-> Verdict(status), status |-> status]
    /\ UNCHANGED <<prog, todo, prov, sites, shown>>

Next == \/ RunAccept \/ RunRead \/ RunStore \/ RunIf \/ RunLoop \/ RunVarying
        \/ RunDisplay \/ RunStop \/ RunStaticFlow

Spec == Init /\ [][Next]_vars

-----------------------------------------------------------------------------
TypeOK ==
    /\ prog \in Programs
    /\ DOMAIN prov = DOMAIN prog.items
    /\ sites \in Seq({"line", "file"})
    /\ report # None => /\ Range(report.status) \subseteq {"VERIFIED", "DIVERGENT", "UNRESOLVED"}
                        /\ DOMAIN modern \subseteq DOMAIN report.status

\* The memoised resolution finds what is reachable: a facet of every flow on
\* some path of sources from the key's, however the flows are tangled.
ResolveIsReachable ==
    LET x == Extract(prog)
        step(S) == S \cup UNION {x.flows[v].sources : v \in S \cap DOMAIN x.flows}
        reach[n \in Nat, k \in DOMAIN x.outputs] ==
            IF n = 0 THEN x.outputs[k].sources ELSE step(reach[n - 1, k])
    IN  \A k \in DOMAIN x.outputs :
          LET from == reach[Cardinality(DOMAIN prog.items), k]
          IN  LegacyResolved(prog)[k] =
                x.outputs[k].facets \cup Tagged("unresolved", from \ DOMAIN x.flows)
                \cup UNION {x.flows[v].facets : v \in from \cap DOMAIN x.flows}

\* Whatever path a run takes, the facets behind a value it prints under a key
\* are among those layer D resolves for that key, or the key is disclosed as
\* unresolved.  (Initial values of variables that are stored into are not
\* facets of any flow.)
DerivationCovered ==
    \A k \in DOMAIN shown :
        LET legacy == LegacyResolved(prog)
        IN  k \in DOMAIN legacy /\ (\/ Unresolved(legacy[k])
                                    \/ Compared(shown[k]) \subseteq legacy[k])

\* PASS means that the migrated Java has lost nothing a run of the program
\* uses: no input, constant, rounding or shift, of any key not unresolved.
PassKeepsDerivation ==
    report # None /\ report.verdict = "PASS" =>
        \A k \in DOMAIN shown :
            /\ k \in DOMAIN modern
            /\ report.status[k] = "VERIFIED" => Compared(shown[k]) \subseteq modern[k]
=============================================================================
