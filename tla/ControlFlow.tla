----------------------------- MODULE ControlFlow -----------------------------
(***************************************************************************)
(* The rewrites in front of layers C and D: topLevelChain, inlineStatements*)
(* and eliminateExitGotos of cli/src/verify/symexec.ts turn a program of   *)
(* paragraphs, PERFORMs and GO TOs into one tree of statements.            *)
(*                                                                         *)
(* The specification runs both side by side: the program as it is in the   *)
(* source, and the tree as the explorer walks it.  Both are given the same *)
(* truths for their conditions.                                            *)
(***************************************************************************)
EXTENDS Lowering

CONSTANTS
    Programs,  \* sources
    MaxTests   \* bound: conditions tested in a run

-----------------------------------------------------------------------------
\* A thrown SymbolicDeclined, in place of what would have been built.
Declined == [kind |-> "declined"]

HasGoto(stmts) == Occurring(stmts, {"go-to"}) # {}
HasGotoTo(stmts, exit) == \E s \in Occurring(stmts, {"go-to"}) : s.target = exit
EndsInGotoTo(stmts, exit) ==
    stmts # <<>> /\ Last(stmts) = GoTo(exit)

\* topLevelChain: the statements executed from paragraph p on.  A list is cut
\* at a program end; an IF that jumps becomes the last statement, each branch
\* with its own continuation.
RECURSIVE Chain(_, _), WithoutJumps(_, _, _, _)
Chain(p, paras) ==
    IF p > Len(paras) THEN <<>>
    ELSE WithoutJumps(paras[p], p, Chain(p + 1, paras), paras)
WithoutJumps(stmts, p, after, paras) ==
    IF stmts = <<>> THEN after
    ELSE LET s == Head(stmts)
             rest == WithoutJumps(Tail(stmts), p, after, paras)
             Branch(b) == IF HasGoto(b) THEN WithoutJumps(b, p, rest, paras) ELSE b \o rest
         IN  CASE s.kind = "go-to" ->
                    IF s.target <= p \/ Len(stmts) > 1 THEN <<Declined>>
                    ELSE Chain(s.target, paras)
               [] s.kind = "stop-run" -> <<s>>
               [] s.kind = "if" /\ HasGoto(<<s>>) ->
                    <<If(s.id, Branch(s.then), Branch(s.else))>>
               [] OTHER -> <<s>> \o rest

\* eliminateExitGotos: the early exits from a range that ends with exit.
RECURSIVE WithoutExits(_, _)
WithoutExits(stmts, exit) ==
    IF stmts = <<>> THEN <<>>
    ELSE LET s == Head(stmts)
             rest == Tail(stmts)
         IN  CASE s.kind = "go-to" ->
                    IF s.target = exit /\ rest = <<>> THEN <<>> ELSE <<Declined>>
               [] s.kind = "if" /\ HasGotoTo(s.then, exit) ->
                    IF HasGotoTo(s.else, exit) \/ ~EndsInGotoTo(s.then, exit) THEN <<Declined>>
                    ELSE <<If(s.id, WithoutExits(Front(s.then), exit),
                                    WithoutExits(s.else \o rest, exit))>>
               [] s.kind = "if" /\ HasGotoTo(s.else, exit) /\ ~HasGotoTo(s.then, exit) ->
                    IF ~EndsInGotoTo(s.else, exit) THEN <<Declined>>
                    ELSE <<If(s.id, WithoutExits(s.then \o rest, exit),
                                    WithoutExits(Front(s.else), exit))>>
               [] s.kind = "if" /\ ~HasGotoTo(<<s>>, exit) ->
                    <<If(s.id, WithoutExits(s.then, exit), WithoutExits(s.else, exit))>>
                      \o WithoutExits(rest, exit)
               [] OTHER -> <<s>> \o WithoutExits(rest, exit)

\* MUTANT of RangeOf: slice(i, j) instead of slice(i, j + 1).
RangeUpTo(s, paras) ==
    FlattenSeq(SubSeq(paras, s.target, IF s.thru = s.target THEN s.thru ELSE s.thru - 1))

\* rangeStatements of rangeNames
RangeOf(s, paras) == FlattenSeq(SubSeq(paras, s.target, s.thru))

\* inlineStatements: performed is the stack of paragraphs being inlined.
RECURSIVE Inlined(_, _, _)
Inlined(stmts, performed, paras) ==
    IF stmts = <<>> THEN <<>>
    ELSE LET s == Head(stmts)
             first ==
               CASE s.kind = "perform" ->
                      LET names == s.target..s.thru
                          body == Inlined(RangeOf(s, paras), performed \cup names, paras)
                      IN  IF names \cap performed # {} THEN <<Declined>>
                          ELSE IF s.thru = s.target THEN body
                          ELSE WithoutExits(body, s.thru)
                 [] s.kind = "if" ->
                      <<If(s.id, Inlined(s.then, performed, paras),
                                 Inlined(s.else, performed, paras))>>
                 [] OTHER -> <<s>>
         IN  first \o Inlined(Tail(stmts), performed, paras)

Tree(paras) == Inlined(Chain(1, paras), {1}, paras)

\* loopBody: no ACCEPT in it, and no exits are eliminated.
LoopBody(s, paras) ==
    LET body == Inlined(RangeOf(s, paras), s.target..s.thru, paras)
    IN  IF Occurring(body, {"accept"}) # {} THEN <<Declined>> ELSE body

\* acceptOrder: the lines of the standard input, by the ACCEPT that is bound
\* to each.
AcceptOrder(tree) == SelectSeq(Flat(tree), LAMBDA s : s.kind = "accept")

-----------------------------------------------------------------------------
VARIABLES
    source,   \* the program as written
    real,     \* its run: the statements left of the paragraph it is in, that
              \* paragraph, and the PERFORMs under way, innermost first
    lowered,  \* the program as lowered
    tree,     \* the statements the explorer has left
    lines,    \* the ACCEPTs executed
    tests     \* conditions tested

vars == <<source, real, lowered, tree, lines, tests>>

Visible == {"act", "accept", "if", "inline-until", "perform-until"}
AtEnd(stmts) == stmts = <<>> \/ Head(stmts).kind = "stop-run"

\* What the program does next that can be observed, if it is clear.
RealEnds ==
    \/ real.stmts # <<>> /\ Head(real.stmts).kind = "stop-run"
    \/ /\ real.stmts = <<>> /\ real.para = Len(source)
       /\ real.frames # <<>> => Head(real.frames).end # real.para
RealReady == RealEnds \/ (real.stmts # <<>> /\ Head(real.stmts).kind \in Visible)
TreeReady == AtEnd(tree) \/ Head(tree).kind \in Visible
TreeDeclined == ~AtEnd(tree) /\ Head(tree).kind \in {"declined", "go-to"}

Label(s) == <<IF s.kind \in {"act", "accept", "if"} THEN s.kind ELSE "until", s.id>>
RealNext == IF RealEnds THEN <<"end">> ELSE Label(Head(real.stmts))
TreeNext == IF AtEnd(tree) THEN <<"end">> ELSE Label(Head(tree))

TypeOK ==
    /\ source \in Programs
    /\ \A p \in DOMAIN lowered.paras :
         /\ Occurring(lowered.paras[p], {"inline", "inline-until"}) = {}
         /\ \A s \in Occurring(lowered.paras[p], {"perform", "perform-until"}) :
              s.target <= s.thru /\ s.thru \in DOMAIN lowered.paras
    /\ real.para \in DOMAIN source
    /\ \A i \in DOMAIN real.frames : real.frames[i].end \in DOMAIN source
    /\ tests \in 0..MaxTests
    /\ ToSet(lines) \subseteq UNION {Occurring(lowered.paras[p], {"accept"}) :
                                        p \in DOMAIN lowered.paras}

Init ==
    /\ source \in Programs
    /\ lowered = Lower(source)
    /\ Admitted(lowered)
    /\ real = [stmts |-> source[1], para |-> 1, frames |-> <<>>]
    /\ tree = Tree(lowered.paras)
    /\ lines = <<>>
    /\ tests = 0

-----------------------------------------------------------------------------
(***************************************************************************)
(* The program itself.  The end of a paragraph is the end of the innermost *)
(* PERFORM if its range ends there, of no other.                           *)
(***************************************************************************)
Enter(s, after) ==
    real' = [stmts |-> source[s.target], para |-> s.target,
             frames |-> <<[end |-> s.thru, stmts |-> after, para |-> real.para]>>
                          \o real.frames]

Proceed ==
    /\ ~TreeDeclined
    /\ real.stmts = <<>> /\ ~RealEnds
    /\ IF real.frames # <<>> /\ Head(real.frames).end = real.para
         THEN LET f == Head(real.frames)
              IN  real' = [stmts |-> f.stmts, para |-> f.para, frames |-> Tail(real.frames)]
         ELSE /\ real.para < Len(source)
              /\ real' = [real EXCEPT !.stmts = source[real.para + 1], !.para = @ + 1]
    /\ UNCHANGED <<source, lowered, tree, lines, tests>>

Silent ==
    /\ ~TreeDeclined
    /\ real.stmts # <<>>
    /\ LET s == Head(real.stmts)
       IN  \/ s.kind = "go-to"
              /\ real' = [real EXCEPT !.stmts = source[s.target], !.para = s.target]
           \/ s.kind = "perform" /\ Enter(s, Tail(real.stmts))
           \/ s.kind = "inline" /\ real' = [real EXCEPT !.stmts = s.body \o Tail(@)]
           \/ s.kind = "exit" /\ real' = [real EXCEPT !.stmts = Tail(@)]
    /\ UNCHANGED <<source, lowered, tree, lines, tests>>

\* execute passes over EXIT.
SkipExit ==
    /\ ~AtEnd(tree) /\ Head(tree).kind = "exit"
    /\ tree' = Tail(tree)
    /\ UNCHANGED <<source, real, lowered, lines, tests>>

(***************************************************************************)
(* Both do the same visible thing.                                         *)
(***************************************************************************)
Together == RealReady /\ TreeReady /\ RealNext = TreeNext /\ ~RealEnds

Both(kinds) == Together /\ Head(real.stmts).kind \in kinds

DoAct ==
    /\ Both({"act", "accept"})
    /\ lines' = IF Head(tree).kind = "accept" THEN Append(lines, Head(tree)) ELSE lines
    /\ real' = [real EXCEPT !.stmts = Tail(@)]
    /\ tree' = Tail(tree)
    /\ UNCHANGED <<source, lowered, tests>>

DoIf ==
    /\ Both({"if"})
    /\ tests < MaxTests /\ tests' = tests + 1
    /\ \E yes \in BOOLEAN :
         LET Taken(s) == IF yes THEN s.then ELSE s.else
         IN  /\ real' = [real EXCEPT !.stmts = Taken(Head(@)) \o Tail(@)]
             /\ tree' = Taken(Head(tree)) \o Tail(tree)
    /\ UNCHANGED <<source, lowered, lines>>

\* The test before a round: the loop is over, or its body comes first.
DoUntil ==
    /\ Both({"perform-until", "inline-until"})
    /\ tests < MaxTests /\ tests' = tests + 1
    /\ \/ /\ real' = [real EXCEPT !.stmts = Tail(@)]
          /\ tree' = Tail(tree)
       \/ /\ LET s == Head(real.stmts)
             IN  IF s.kind = "perform-until" THEN Enter(s, real.stmts)
                 ELSE real' = [real EXCEPT !.stmts = s.body \o @]
          /\ tree' = LoopBody(Head(tree), lowered.paras) \o tree
    /\ UNCHANGED <<source, lowered, lines>>

Next == Proceed \/ Silent \/ SkipExit \/ DoAct \/ DoIf \/ DoUntil

Spec == Init /\ [][Next]_vars

-----------------------------------------------------------------------------
\* The tree is the program: what the program does next is what the tree does
\* next, up to the end, unless layer C declines the module.
TreeIsProgram == RealReady /\ TreeReady => RealNext = TreeNext

\* ProLeapFrontend.java (lines 3251-3254): everything the GO TO gate does not
\* admit is unsupported "so [...] the layer-C rewrites stay total": no program
\* that was admitted, and whose PERFORMs do not recur, is declined.
RewritesTotal == ~TreeDeclined

\* An ACCEPT reads the line it is bound to, its place in acceptOrder, if no
\* ACCEPT of the source is performed or in a branch.
Unconditional ==
    \A p \in DOMAIN source : \A s \in Occurring(source[p], {"accept"}) :
        s \in ToSet(source[p]) /\ p \notin Performed(lowered)
AcceptsInOrder ==
    Unconditional =>
        \A i \in DOMAIN lines :
            SelectInSeq(AcceptOrder(Tree(lowered.paras)), LAMBDA s : s = lines[i]) = i
=============================================================================
