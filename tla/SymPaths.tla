------------------------------- MODULE SymPaths -------------------------------
(***************************************************************************)
(* Layer C's path exploration: execute, executeLoop, unrollLoop,           *)
(* loopCondStates and store of cli/src/verify/symexec.ts.                  *)
(*                                                                         *)
(* The explorer walks the statement tree of a program and splits the path  *)
(* at IF, at the exit test of a loop and at READ.  It recurses; here the   *)
(* paths not yet finished wait on a stack with the statements they have    *)
(* left, and a loop being unrolled is a frame among those statements.      *)
(*                                                                         *)
(* A symbolic value is the function from cases to numbers that it denotes  *)
(* (an affine form in the code), or Opaque.  A constraint is the set of    *)
(* cases it holds for.  Scales, rounding and fuzz are left out: values are *)
(* integers.  PERFORM VARYING is the move, the until and the increment it  *)
(* is executed as.                                                         *)
(***************************************************************************)
EXTENDS CobolRun, FiniteSets

CONSTANTS
    Opaque,      \* the value the engine does not know
    MaxUnroll,   \* symbolic.maxLoopUnroll
    MaxPaths,    \* symbolic.maxPaths
    MaxRecords,  \* symbolic.records.max
    Depth,       \* bound: how deep statements nest
    Programs     \* the programs explored

VARIABLES
    program,   \* what is explored: stmts, init, bytes, lengths (of its cases)
    pending,   \* the paths not finished, the one being executed first
    done,      \* PathState[], the paths enumerated
    declined,  \* SymbolicDeclined has been thrown
    beyond,    \* history: cases a path says it leaves out
    overflown  \* history: cases that have lost digits at the test of a loop

ASSUME BoundsAssumption ==
    {MaxValue, Fuel, MaxUnroll, MaxPaths, MaxRecords, Depth} \subseteq Nat

vars == <<program, pending, done, declined, beyond, overflown>>

Cases == UNION {[1..n -> Input] : n \in program.lengths}

-----------------------------------------------------------------------------
(***************************************************************************)
(* Values and constraints                                                  *)
(***************************************************************************)
\* Input variable i; a case too short to have it is out of every constraint.
Missing == -1000
Slot(i) == [c \in Cases |-> IF i \in DOMAIN c THEN c[i] ELSE Missing]

Sym(env, e) ==
    IF e.var = None THEN [c \in Cases |-> e.plus]
    ELSE IF env[e.var] = Opaque THEN Opaque
    ELSE [c \in Cases |-> env[e.var][c] + e.plus]

\* A comparison of two known values with the truth it is asserted with.
Asserted(x, op, y, truth) ==
    [holds |-> {c \in Cases : x[c] >= 0 /\ y[c] >= 0
                              /\ Compares(x[c], op, y[c]) = truth},
     constant |-> \A c, d \in Cases : x[c] - y[c] = x[d] - y[d]]

\* The atoms of a condition whose operands are both known.
Known(env, cond) ==
    {i \in DOMAIN cond.atoms : /\ Sym(env, cond.atoms[i].left) # Opaque
                               /\ Sym(env, cond.atoms[i].right) # Opaque}

\* MUTANT of AssertedAtom: the truth the atom is asserted with is lost.
AtomHolds(env, a, truth) ==
    Asserted(Sym(env, a.left), a.op, Sym(env, a.right), TRUE)

AssertedAtom(env, a, truth) ==
    Asserted(Sym(env, a.left), a.op, Sym(env, a.right), truth)

\* provablyFalse
Contradiction(con) == con.constant /\ con.holds = {}

(***************************************************************************)
(* A path: env, constraints, unknown (some condition has no affine form),  *)
(* readCount, eofSeen, terminated, the statements left, and took: what the *)
(* program really does with the cases that take the path (history).        *)
(***************************************************************************)
FirstPath(prog) ==
    LET cases == UNION {[1..n -> Input] : n \in prog.lengths} IN
    [env |-> [v \in Var |-> IF v \in prog.bytes \/ prog.init[v] = Opaque
                            THEN Opaque ELSE [c \in cases |-> prog.init[v]]],
     cons |-> {}, unknown |-> FALSE, reads |-> 0, eof |-> FALSE,
     ended |-> FALSE, rest |-> prog.stmts,
     took |-> [c \in cases |-> Begin([v \in Var |-> IF prog.init[v] = Opaque
                                                    THEN 0 ELSE prog.init[v]])]]

Only(p, S) == [p EXCEPT !.took = [c \in DOMAIN @ \cap S |-> @[c]]]
Goes(p, stmts) == [p EXCEPT !.rest = stmts \o Tail(@)]

\* The cases of p in S, under the constraints pushed.
Narrow(p, S, pushed, unknown) ==
    [Only(p, S) EXCEPT !.cons = @ \cup pushed, !.unknown = @ \/ unknown]

\* MUTANT of StoreIn: the capacity is one less.
StoreTight(p, v, x) ==
    [p EXCEPT !.env[v] = x,
              !.cons = @ \cup IF x = Opaque THEN {}
                              ELSE {Asserted(x, "<", Sym(p.env, Lit(MaxValue)), TRUE)}]

\* store: the value, and the field's capacity as a constraint on the path (no
\* value here is negative, so that of the lower end is left out).
StoreIn(p, v, x) ==
    [p EXCEPT !.env[v] = x,
              !.cons = @ \cup IF x = Opaque THEN {}
                              ELSE {Asserted(x, "<", Sym(p.env, Lit(MaxValue + 1)), TRUE)}]

\* The statements directly within one, and all within a list of them.
Parts(s) ==
    CASE s.kind = "if"    -> s.then \o s.else
      [] s.kind = "read"  -> s.notAtEnd \o s.atEnd
      [] s.kind \in Loops -> s.body
      [] OTHER            -> <<>>
Within(stmts) ==
    LET upto[n \in 0..Depth] ==
            IF n = 0 THEN ToSet(stmts)
            ELSE UNION {{s} \cup ToSet(Parts(s)) : s \in upto[n - 1]}
    IN  upto[Depth]

\* acceptOrder: the targets of every ACCEPT, in source order, and not in loops.
AcceptOrder(stmts) ==
    LET Opened(s) == IF s.kind = "if" THEN Parts(s) ELSE <<s>>
        open[n \in 0..Depth] ==
            IF n = 0 THEN stmts
            ELSE LET outer == open[n - 1]
                 IN  FlattenSeq([i \in DOMAIN outer |-> Opened(outer[i])])
        accepts == SelectSeq(open[Depth], LAMBDA s : s.kind = "accept")
    IN  [i \in DOMAIN accepts |-> accepts[i].to]
Position(v) == SelectInSeq(AcceptOrder(program.stmts), LAMBDA w : w = v)

\* A program is a finite tree of statements; Depth reaches its leaves.
ASSUME ProgramsAssumption ==
    \A prog \in Programs :
        /\ prog.init \in [Var -> Input \cup {Opaque}] /\ prog.lengths \subseteq Nat
        /\ prog.stmts \in Seq(Within(prog.stmts))
        /\ Within(prog.stmts) \subseteq Statements(Within(prog.stmts))
        /\ \A s \in Within(prog.stmts) : s.kind \in Loops =>
              s \in Within(<<s>>) /\ Within(<<s>>) \subseteq Statements(Within(<<s>>))

\* MUTANT of Writes: what is nested in a statement of the loop is not collected.
WritesFlat(stmts) ==
    {s.to : s \in {w \in ToSet(stmts) \cup UNION {ToSet(Parts(s)) : s \in ToSet(stmts)} :
                    w.kind \in {"move", "accept", "read"}}}

\* collectWrites
Writes(stmts) == {s.to : s \in {w \in Within(stmts) : w.kind \in {"move", "accept", "read"}}}

-----------------------------------------------------------------------------
(***************************************************************************)
(* One path splits                                                         *)
(***************************************************************************)
\* The paths a condition with the given truth splits p into, each with the
\* constraints it gained.
Split(p, cond, truth) ==
    LET known == Known(p.env, cond)
        Tells(c) == Truths(cond, p.took[c].store)
    IN  IF known = {}
        THEN {[path |-> Narrow(p, {c \in DOMAIN p.took : Holds(Shape(cond), Tells(c)) = truth},
                               {}, TRUE),
               pushed |-> {}]}
        ELSE {LET pushed == {AssertedAtom(p.env, cond.atoms[i], alt[i]) :
                                i \in known \cap DOMAIN alt}
              IN  [path |-> Narrow(p, {c \in DOMAIN p.took : Satisfies(Tells(c), alt)},
                                   pushed, ~(DOMAIN alt \subseteq known)),
                   pushed |-> pushed] :
              alt \in Alternatives(Shape(cond), truth)}

\* The exit test of a loop.  The count of PERFORM TIMES was taken before the
\* first round; that the loop is left is "= depth", that it goes on "> depth".
LoopSplit(p, frame, exit) ==
    IF frame.loop.kind = "perform-until" THEN Split(p, frame.loop.cond, exit)
    ELSE LET depth == Sym(p.env, Lit(frame.depth))
             pushed == IF frame.times = Opaque THEN {}
                       ELSE {IF exit THEN Asserted(frame.times, "=", depth, TRUE)
                                     ELSE Asserted(depth, "<", frame.times, TRUE)}
         IN  {[path |-> Narrow(p, {c \in DOMAIN p.took : (frame.count[c] = frame.depth) = exit},
                               pushed, frame.times = Opaque),
               pushed |-> pushed]}

Live(splits) == {a.path : a \in {b \in splits : \A con \in b.pushed : ~Contradiction(con)}}

\* MUTANT of Poisoned: the fields keep the values of the last round.
Unpoisoned(p, frame) == [p EXCEPT !.unknown = TRUE]

\* The path the unroller gives up on: it stands for every case that needs more
\* rounds, without a constraint that says so, and forgets what the loop writes.
Poisoned(p, frame) ==
    LET writes == Writes(<<frame.loop>>)
    IN  [p EXCEPT !.env = [v \in Var |-> IF v \in writes THEN Opaque ELSE @[v]],
                  !.unknown = TRUE]

\* What the cases still in the loop do in its remaining rounds (history).
GoesOn(p, frame, c) ==
    IF frame.loop.kind = "perform-until"
    THEN ~True(frame.loop.cond, p.took[c].store)
    ELSE frame.count[c] > frame.depth
LastRounds(p, frame) ==
    [c \in {d \in DOMAIN p.took : GoesOn(p, frame, d)} |->
        Run(c, p.took[c],
            IF frame.loop.kind = "perform-until" THEN <<frame.loop>>
            ELSE <<Times(Lit(frame.count[c] - frame.depth), frame.loop.body)>>)]

-----------------------------------------------------------------------------
(***************************************************************************)
(* Actions: the next statement of the path being executed                  *)
(***************************************************************************)
Now == Head(pending)
Statement == Head(Now.rest)
At(kinds) == /\ ~declined /\ pending # <<>> /\ Now.rest # <<>> /\ ~Now.ended
             /\ Statement.kind \in kinds

\* The path is replaced by the paths it splits into.
Become(paths) == pending' = paths \o Tail(pending)

Init ==
    /\ program \in Programs
    /\ pending = <<FirstPath(program)>>
    /\ done = <<>> /\ declined = FALSE /\ beyond = {} /\ overflown = {}

\* The concrete side of a statement that does not split.
Advanced(p) == [p EXCEPT !.took = [c \in DOMAIN @ |-> Advance(c, @[c], Statement)],
                         !.rest = Tail(@)]

DoMove ==
    /\ At({"move"})
    /\ Become(<<StoreIn(Advanced(Now), Statement.to, Sym(Now.env, Statement.from))>>)
    /\ UNCHANGED <<program, done, declined, beyond, overflown>>

DoWindow ==
    /\ At({"move-window"})
    /\ Become(<<[Advanced(Now) EXCEPT !.env[Statement.to] = Opaque]>>)
    /\ UNCHANGED <<program, done, declined, beyond, overflown>>

DoAccept ==
    /\ At({"accept"})
    /\ Become(<<[Advanced(Now) EXCEPT !.env[Statement.to] = Slot(Position(Statement.to))]>>)
    /\ UNCHANGED <<program, done, declined, beyond, overflown>>

DoStop ==
    /\ At({"stop-run"})
    /\ Become(<<[Advanced(Now) EXCEPT !.ended = TRUE]>>)
    /\ UNCHANGED <<program, done, declined, beyond, overflown>>

\* Both branches, none pruned.
DoIf ==
    /\ At({"if"})
    /\ Become(SetToSeq({Goes(a.path, Statement.then) : a \in Split(Now, Statement.cond, TRUE)})
              \o SetToSeq({Goes(a.path, Statement.else) : a \in Split(Now, Statement.cond, FALSE)}))
    /\ UNCHANGED <<program, done, declined, beyond, overflown>>

\* executeLoop: the count of PERFORM TIMES is taken once.
DoLoop ==
    /\ At({"perform-until", "perform-times"})
    /\ LET times == Statement.kind = "perform-times"
       IN  Become(<<Goes(Now, <<[kind |-> "unroll", loop |-> Statement, depth |-> 0,
               times |-> IF times THEN Sym(Now.env, Statement.times) ELSE Opaque,
               count |-> [c \in DOMAIN Now.took |->
                   IF times THEN Value(Now.took[c].store, Statement.times) ELSE 0]]>>)>>)
    /\ UNCHANGED <<program, done, declined, beyond, overflown>>

\* The cases with which a loop is tested after a store has lost digits.
Overflowing == overflown' = overflown \cup {c \in DOMAIN Now.took : Now.took[c].wrapped}

Exits == {Goes(p, <<>>) : p \in Live(LoopSplit(Now, Statement, TRUE))}

\* MUTANT of Round: the rounds are not counted.
RoundUncounted(p) == Goes(p, Append(Statement.loop.body, Statement))

\* Another round: the body, then the frame one deeper.
Round(p) == Goes(p, Append(Statement.loop.body, [Statement EXCEPT !.depth = @ + 1]))

DoUnroll ==
    /\ At({"unroll"}) /\ Statement.depth < MaxUnroll
    /\ Become(SetToSeq(Exits)
              \o SetToSeq({Round(p) : p \in Live(LoopSplit(Now, Statement, FALSE))}))
    /\ Overflowing /\ UNCHANGED <<program, done, declined, beyond>>

\* MUTANT of DoGiveUp: the deeper cases are dropped.
GiveUpSilently ==
    /\ At({"unroll"}) /\ Statement.depth >= MaxUnroll
    /\ Become(SetToSeq(Exits))
    /\ Overflowing /\ UNCHANGED <<program, done, declined, beyond>>

\* The bound: a case that ends the program in there is left out.
DoGiveUp ==
    /\ At({"unroll"}) /\ Statement.depth >= MaxUnroll
    /\ LET last == LastRounds(Now, Statement)
           gone == {c \in DOMAIN last : last[c].ended}
           trunc == Goes(Only([Poisoned(Now, Statement) EXCEPT !.took = last],
                              DOMAIN last \ gone), <<>>)
       IN  /\ Become(Append(SetToSeq(Exits), trunc))
           /\ beyond' = beyond \cup gone
    /\ Overflowing /\ UNCHANGED <<program, done, declined>>

\* READ splits on whether there is another record; without a constraint.
HasRecord(p) ==
    LET q == Only(p, {c \in Cases : Len(c) > p.reads})
    IN  [Goes(q, Statement.notAtEnd) EXCEPT
            !.env[Statement.to] = Slot(p.reads + 1), !.reads = @ + 1,
            !.took = [c \in DOMAIN @ |-> Take(c, @[c], Statement.to)]]
AtEnd(p) ==
    [Goes(Only(p, {c \in Cases : Len(c) = p.reads}), Statement.atEnd) EXCEPT !.eof = TRUE]

\* MUTANT of DoRead: the number of record slots is not looked at.
ReadUnbounded ==
    /\ At({"read"}) /\ ~Now.eof
    /\ Become(<<HasRecord(Now), AtEnd(Now)>>)
    /\ UNCHANGED <<program, done, declined, beyond, overflown>>

DoRead ==
    /\ At({"read"}) /\ ~Now.eof
    /\ Become((IF Now.reads < MaxRecords THEN <<HasRecord(Now)>> ELSE <<>>) \o <<AtEnd(Now)>>)
    /\ beyond' = beyond \cup IF Now.reads < MaxRecords THEN {}
                             ELSE {c \in DOMAIN Now.took : Len(c) > Now.reads}
    /\ UNCHANGED <<program, done, declined, overflown>>

ReadAfterEnd ==
    /\ At({"read"}) /\ Now.eof
    /\ declined' = TRUE
    /\ UNCHANGED <<program, pending, done, beyond, overflown>>

\* The path is enumerated; too many of them are refused.  (The code counts
\* after each split, so that the last path a loop gives up on may be one more.)
Finish ==
    /\ ~declined /\ pending # <<>> /\ (Now.rest = <<>> \/ Now.ended)
    /\ done' = Append(done, [Now EXCEPT !.rest = <<>>])
    /\ pending' = Tail(pending)
    /\ declined' = (Len(done) + 1 > MaxPaths)
    /\ UNCHANGED <<program, beyond, overflown>>

Next == \/ DoMove \/ DoWindow \/ DoAccept \/ DoStop \/ DoIf \/ DoLoop
        \/ DoUnroll \/ DoGiveUp \/ DoRead \/ ReadAfterEnd \/ Finish

\* The exploration is one synchronous call: it runs until it returns.
Spec == Init /\ [][Next]_vars /\ WF_vars(Next)

-----------------------------------------------------------------------------
(***************************************************************************)
(* What the rest of layer C takes from a path                              *)
(***************************************************************************)
Paths == ToSet(pending) \cup ToSet(done)
Accepts(p, c) == \A con \in p.cons : c \in con.holds

\* A path said to be dead code: a constraint that nothing in the domain meets.
Infeasible(p) == \E con \in p.cons : con.holds = {}

\* The cases a witness is chosen from: readCount records, or every line.
Records == \E n \in program.lengths : n # Len(AcceptOrder(program.stmts))
Witnesses(p) == IF p.unknown THEN {}
                ELSE {c \in Cases : Accepts(p, c) /\ (Records => Len(c) = p.reads)}

TypeOK ==
    /\ program \in Programs /\ declined \in BOOLEAN /\ beyond \subseteq Cases
    /\ \A p \in Paths :
         /\ DOMAIN p.took \subseteq Cases /\ DOMAIN p.env = Var
         /\ \A con \in p.cons : con.holds \subseteq Cases
         /\ p.reads \in 0..MaxRecords
    /\ Len(done) <= MaxPaths + 1

\* What layer C takes for granted about the program, at the statement where it
\* matters: no field it knows shares storage with one that is stored to, the
\* lines are accepted in the order of the text, records are all counted, and a
\* loop given up on changes what is collected or is not known.
Regular ==
    /\ At(Stores) => \A w \in Shared(Statement.to) : Now.env[w] = Opaque
    /\ At({"accept"}) => \A c \in DOMAIN Now.took :
          Now.took[c].reads + 1 = Position(Statement.to) /\ Position(Statement.to) <= Len(c)
    /\ At({"read"}) => Records /\ \A c \in DOMAIN Now.took : Now.took[c].reads = Now.reads
    /\ At({"unroll"}) /\ Statement.depth >= MaxUnroll =>
          LET loop == <<Statement.loop>>
          IN  \A w \in Changed(Within(loop)) \ Writes(loop) : Now.env[w] = Opaque

\* No behaviour of the program is lost silently: a case is on a path, or a
\* path says that such cases are left out ("disclosed, never dropped"), or it
\* lost digits in a loop ("wrap semantics belong to layers A/B").
NothingDropped ==
    ~declined => \A c \in Cases : c \in beyond \cup overflown
                                  \/ \E p \in Paths : c \in DOMAIN p.took

\* What is not opaque on a path is what the program has in that field, for
\* every case that takes the path and meets its constraints.
ValuesAreReal ==
    \A p \in Paths : \A c \in DOMAIN p.took : \A v \in Var :
        Accepts(p, c) /\ p.env[v] # Opaque => p.env[v][c] = p.took[c].store[v]

\* A witness for a path takes the path: running it says something about it.
WitnessTakesPath ==
    \A p \in ToSet(done) : Witnesses(p) \subseteq DOMAIN p.took

\* A path is called infeasible only if no case takes it before a store of the
\* program loses digits.
DeadUnlessWrapped ==
    \A p \in Paths : Infeasible(p) =>
        \A c \in DOMAIN p.took : p.took[c].wrapped

\* "proved, not guessed": no case at all takes a path called infeasible.
DeadIsDead == \A p \in Paths : Infeasible(p) => DOMAIN p.took = {}

\* A case is counted as covering a path only if it takes the path.
CoveredIsTaken ==
    \A p, q \in ToSet(done) : ~p.unknown /\ ~Infeasible(p) =>
        \A c \in Witnesses(q) : Accepts(p, c) => c \in DOMAIN p.took

\* The exploration comes to an end, whatever the loops of the program do.
ExplorationEnds == <>(declined \/ pending = <<>>)
=============================================================================
