------------------------------- MODULE Lowering -------------------------------
(***************************************************************************)
(* Control flow in the ProLeap front end (ProLeapFrontend.java): bodies of *)
(* inline PERFORMs become paragraphs of their own, and the GO TO gate      *)
(* decides which programs layers C and D get to see.                       *)
(*                                                                         *)
(* A program is the sequence of its paragraphs' statement lists, and a     *)
(* paragraph is known by its position.  Statements that neither jump nor   *)
(* perform are acts; conditions are names.                                 *)
(***************************************************************************)
EXTENDS Integers, Sequences, SequencesExt

Act(id) == [kind |-> "act", id |-> id]
Accept(id) == [kind |-> "accept", id |-> id]
If(c, yes, no) == [kind |-> "if", id |-> c, then |-> yes, else |-> no]
GoTo(p) == [kind |-> "go-to", target |-> p]
Stop == [kind |-> "stop-run"]
Exit == [kind |-> "exit"]

\* PERFORM target [THRU thru] and PERFORM target [THRU thru] UNTIL id; without
\* THRU the range ends where it begins.
Perform(target, thru) == [kind |-> "perform", target |-> target, thru |-> thru]
Until(id, target, thru) ==
    [kind |-> "perform-until", id |-> id, target |-> target, thru |-> thru]

\* PERFORM ... END-PERFORM, in the source only.
Inline(body) == [kind |-> "inline", body |-> body]
InlineUntil(id, body) == [kind |-> "inline-until", id |-> id, body |-> body]

Kind(stmts, kinds) == {i \in DOMAIN stmts : stmts[i].kind \in kinds}

\* The statements of a list in the order of the text, those in IFs included.
RECURSIVE Flat(_)
Flat(stmts) ==
    IF stmts = <<>> THEN <<>>
    ELSE LET s == Head(stmts)
         IN  <<s>> \o (IF s.kind = "if" THEN Flat(s.then) \o Flat(s.else) ELSE <<>>)
                   \o Flat(Tail(stmts))
Occurring(stmts, kinds) == {s \in ToSet(Flat(stmts)) : s.kind \in kinds}

-----------------------------------------------------------------------------
(***************************************************************************)
(* Inline bodies are hoisted, inner ones first, and appended after the     *)
(* paragraphs of the source.  A lowered program: its paragraphs, and how   *)
(* many of them the source has (paragraphOrder lists no others).           *)
(***************************************************************************)
\* MUTANT of LowerList: bodies in the ELSE of an IF stay where they are.
RECURSIVE LowerThens(_, _, _)
LowerThens(stmts, hoisted, sources) ==
    IF stmts = <<>> THEN [stmts |-> <<>>, hoisted |-> hoisted]
    ELSE LET s == Head(stmts)
             first ==
               CASE s.kind \in {"inline", "inline-until"} ->
                      LET body == LowerThens(s.body, hoisted, sources)
                          new == Append(body.hoisted, body.stmts)
                          at == sources + Len(new)
                      IN  [stmt |-> IF s.kind = "inline" THEN Perform(at, at)
                                    ELSE Until(s.id, at, at),
                           hoisted |-> new]
                 [] s.kind = "if" ->
                      LET yes == LowerThens(s.then, hoisted, sources)
                      IN  [stmt |-> If(s.id, yes.stmts, s.else), hoisted |-> yes.hoisted]
                 [] OTHER -> [stmt |-> s, hoisted |-> hoisted]
             others == LowerThens(Tail(stmts), first.hoisted, sources)
         IN  [stmts |-> <<first.stmt>> \o others.stmts, hoisted |-> others.hoisted]

\* lowerStatements: [stmts, hoisted] of a list, after the bodies in hoisted.
RECURSIVE LowerList(_, _, _)
LowerList(stmts, hoisted, sources) ==
    IF stmts = <<>> THEN [stmts |-> <<>>, hoisted |-> hoisted]
    ELSE LET s == Head(stmts)
             first ==
               CASE s.kind \in {"inline", "inline-until"} ->
                      LET body == LowerList(s.body, hoisted, sources)
                          new == Append(body.hoisted, body.stmts)
                          at == sources + Len(new)
                      IN  [stmt |-> IF s.kind = "inline" THEN Perform(at, at)
                                    ELSE Until(s.id, at, at),
                           hoisted |-> new]
                 [] s.kind = "if" ->
                      LET yes == LowerList(s.then, hoisted, sources)
                          no == LowerList(s.else, yes.hoisted, sources)
                      IN  [stmt |-> If(s.id, yes.stmts, no.stmts), hoisted |-> no.hoisted]
                 [] OTHER -> [stmt |-> s, hoisted |-> hoisted]
             others == LowerList(Tail(stmts), first.hoisted, sources)
         IN  [stmts |-> <<first.stmt>> \o others.stmts, hoisted |-> others.hoisted]

Lower(source) ==
    LET lowered == FoldLeft(LAMBDA acc, stmts :
              LET l == LowerList(stmts, acc.hoisted, Len(source))
              IN  [paras |-> Append(acc.paras, l.stmts), hoisted |-> l.hoisted],
            [paras |-> <<>>, hoisted |-> <<>>], source)
    IN  [paras |-> lowered.paras \o lowered.hoisted, sources |-> Len(source)]

-----------------------------------------------------------------------------
(***************************************************************************)
(* gateGotos                                                               *)
(***************************************************************************)
\* indexOf in paragraphOrder, which a hoisted paragraph is not in.
Index(p, prog) == IF p <= prog.sources THEN p ELSE -1

AllStatements(prog, kinds) ==
    UNION {Occurring(prog.paras[p], kinds) : p \in DOMAIN prog.paras}

\* Paragraphs reachable by a PERFORM.
Performed(prog) ==
    UNION {s.target..s.thru : s \in {t \in AllStatements(prog, {"perform", "perform-until"}) :
                                        Index(t.target, prog) >= 0}}

\* A GO TO is the last statement of its block.
RECURSIVE TailPlaced(_)
TailPlaced(stmts) ==
    /\ Kind(stmts, {"go-to"}) \subseteq {Len(stmts)}
    /\ \A i \in Kind(stmts, {"if"}) : TailPlaced(stmts[i].then) /\ TailPlaced(stmts[i].else)

\* MUTANT of AcceptsFirst: begun anew with each paragraph.
AcceptsFirstEach(prog) ==
    \A p \in DOMAIN prog.paras :
        LET text == Flat(prog.paras[p])
        IN  \A i \in Kind(text, {"go-to"}), j \in Kind(text, {"accept"}) : j < i

\* No ACCEPT follows a GO TO in the text.
AcceptsFirst(prog) ==
    LET text == FlattenSeq([p \in DOMAIN prog.paras |-> Flat(prog.paras[p])])
    IN  \A i \in Kind(text, {"go-to"}), j \in Kind(text, {"accept"}) : j < i

IsPureExit(p, prog) == prog.paras[p] \in {<<>>, <<Exit>>}

\* Stage 1: the early exit of a PERFORM THRU range around paragraph p.
EarlyExit(p, target, prog) ==
    /\ IsPureExit(target, prog)
    /\ \A s \in AllStatements(prog, {"perform-until"}) :
         s.thru = target => s.target = s.thru
    /\ \E s \in AllStatements(prog, {"perform"}) :
         /\ s.thru = target /\ s.target # s.thru
         /\ s.target <= Index(p, prog) /\ Index(p, prog) < target

\* Stage 2: a forward jump at top level.
ForwardJump(p, target, prog) ==
    p \notin Performed(prog) /\ Index(target, prog) > Index(p, prog)

Admitted(prog) ==
    /\ \A p \in DOMAIN prog.paras : TailPlaced(prog.paras[p])
    /\ AcceptsFirst(prog)
    /\ \A p \in DOMAIN prog.paras : \A g \in Occurring(prog.paras[p], {"go-to"}) :
         EarlyExit(p, g.target, prog) \/ ForwardJump(p, g.target, prog)
=============================================================================
