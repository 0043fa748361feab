------------------------------- MODULE Realize -------------------------------
(***************************************************************************)
(* Layer C after its paths are known: runSymExec of                        *)
(* cli/src/verify/symexec.ts from the infeasible paths to the report.      *)
(*                                                                         *)
(* Every path gets a witness, every condition three boundary inputs and    *)
(* every rounded money computation inputs that put it on a half; what was  *)
(* found is run on both programs.  A path is its constraints, in order,    *)
(* each from the condition at a site or (site 0) from a store; the sites   *)
(* whose condition has no affine form on it; and its rounded computations. *)
(* A computation is a product of factors rounded to multiples of m, which  *)
(* counts the product of the factors' units.  A factor is a form, or the   *)
(* source: a value the path made as the product of two inputs.             *)
(***************************************************************************)
EXTENDS Solvers

CONSTANTS
    Modules,    \* what may be verified: paths, base
    MaxRepairs, \* candidates looked at for a witness
    Trouble     \* bound on the runs that do not pass

ASSUME RealizeAssumption ==
    MaxSolutions \in Nat \ {0} /\ MaxRepairs \in Nat \ {0} /\ Trouble \in Nat

VARIABLES
    module,    \* the module verified
    phase,     \* "witness", "branch", "half", "run" or "done"
    n,         \* the item of the phase's work it is at
    tried,     \* the candidates queued for the witness sought
    rounds,    \* how many were looked at
    witness,   \* per path, the witness if one was found
    cases,     \* the cases of the obligations
    missed,    \* unrealizedPaths: site, path, why
    exempt,    \* the rounding sites found NOT-APPLICABLE
    results    \* CaseResult status of the cases run

vars == <<module, phase, n, tried, rounds, witness, cases, missed, exempt, results>>

-----------------------------------------------------------------------------
(***************************************************************************)
(* The module's paths                                                      *)
(***************************************************************************)
Paths == module.paths
PathNo == DOMAIN Paths

\* MUTANT of Impossible: an input is thought to stay below its largest value.
ImpossibleStrict(con) ==
    /\ con.form.rounds = <<>> /\ Cardinality(Terms(con.form)) <= 1
    /\ LET ends == {Affine(con.form, Zeros), Affine(con.form, Top)}
           lo == Min(ends)  hi == Max(ends)
           reached == {s \in {-1, 0, 1} : \/ s = -1 /\ lo < 0
                                          \/ s = 0 /\ lo <= 0 /\ hi > 0
                                          \/ s = 1 /\ hi > 0}
       IN reached \cap Sign(Effective(con)) = {}

\* A decision value no input can bring to the sign asked for.
Impossible(con) ==
    /\ con.form.rounds = <<>> /\ Cardinality(Terms(con.form)) <= 1
    /\ LET ends == {Affine(con.form, Zeros), Affine(con.form, Top)}
           lo == Min(ends)  hi == Max(ends)
           reached == {s \in {-1, 0, 1} : \/ s = -1 /\ lo < 0
                                          \/ s = 0 /\ lo <= 0 /\ hi >= 0
                                          \/ s = 1 /\ hi > 0}
       IN reached \cap Sign(Effective(con)) = {}

Infeasible(p) == \E i \in DOMAIN Paths[p].cons : Impossible(Paths[p].cons[i])
Live == {p \in PathNo : ~Infeasible(p)}
FixedCandidates(p) == witness[p] \o <<module.base, Zeros>>

-----------------------------------------------------------------------------
(***************************************************************************)
(* Witnesses: repair the first violated constraint, try again              *)
(***************************************************************************)
Seek(w) ==
    /\ phase = "witness" /\ n \in PathNo
    /\ witness' = Append(witness, w)
    /\ n' = n + 1
    /\ tried' = <<module.base, Zeros>>
    /\ rounds' = 0
    /\ UNCHANGED <<module, phase, cases, missed, exempt, results>>

SkipWitness == Seek(<<>>) /\ (Infeasible(n) \/ Paths[n].opaque # {})

Sought == phase = "witness" /\ n \in PathNo /\ ~Infeasible(n) /\ Paths[n].opaque = {}
Looking == Sought /\ rounds < MaxRepairs /\ tried # <<>>

FindWitness == Looking /\ AllHold(Paths[n].cons, Head(tried)) /\ Seek(<<Head(tried)>>)

RepairCandidate ==
    /\ Looking /\ ~AllHold(Paths[n].cons, Head(tried))
    /\ LET x == Head(tried)
           cons == Paths[n].cons
           violated == SelectInSeq(cons, LAMBDA con : ~Holds(con, x))
       IN tried' = Tail(tried) \o Repairs(cons[violated], x)
    /\ rounds' = rounds + 1
    /\ UNCHANGED <<module, phase, n, witness, cases, missed, exempt, results>>

GiveUp == Sought /\ ~Looking /\ Seek(<<>>)

-----------------------------------------------------------------------------
(***************************************************************************)
(* Branch boundaries                                                       *)
(***************************************************************************)
SitesOf(cons) == {cons[i].site : i \in DOMAIN cons} \ {0}
CondSites == UNION {SitesOf(Paths[p].cons) : p \in Live}
BranchWork ==
    Gather(InOrder(CondSites), LAMBDA s : [o \in 1..3 |-> [site |-> s, offset |-> o - 2]])

\* The decision value of a site on a path: where it is first decided.
FormAt(p, s) ==
    Paths[p].cons[SelectInSeq(Paths[p].cons, LAMBDA con : con.site = s)].form

\* Solve on every path whose decision value has the shape.
OnPaths(s, Shape(_), Solve(_, _, _)) ==
    Gather(InOrder({p \in Live : s \in SitesOf(Paths[p].cons) /\ Shape(FormAt(p, s))}),
           LAMBDA p : LET xs == Solve(FormAt(p, s), FixedCandidates(p), Paths[p].cons)
                      IN [i \in DOMAIN xs |-> [path |-> p, x |-> xs[i]]])

IsAffine(f) == f.rounds = <<>> /\ Terms(f) # {}
IsRounded(f) == Len(f.rounds) = 1 /\ Terms(f) = {} /\ f.rounds[1].inner.rounds = <<>>
                /\ Terms(f.rounds[1].inner) # {}
IsStaircase(f) == f.rounds # <<>> /\ Cardinality(Vars(f)) = 1 /\ Rising(f)
IsMultiVar(f) == f.rounds # <<>> /\ Cardinality(Vars(f)) > 1 /\ Rising(f)

\* The boundary inputs of a site, the one the code takes first.
Boundary(s, offset) ==
    OnPaths(s, IsAffine, LAMBDA f, bs, cons : SolveEquality(f, offset * Ulp(f), bs, cons))
    \o OnPaths(s, IsRounded, LAMBDA f, bs, cons : SolveThroughRounding(f, offset, bs, cons))
    \o OnPaths(s, IsStaircase, LAMBDA f, bs, cons : SolveMixedRounding(f, offset, bs, cons))
    \o OnPaths(s, IsMultiVar, LAMBDA f, bs, cons : SolveMixedRoundingMultiVar(f, offset, bs, cons))

\* The work of a phase is done: go to the next.
Enter(from, next, work) ==
    /\ phase = from /\ n > work
    /\ phase' = next /\ n' = 1
    /\ UNCHANGED <<module, tried, rounds, witness, cases, missed, exempt, results>>

StartBranches == Enter("witness", "branch", Len(Paths))

RealizeBranch ==
    /\ phase = "branch" /\ n \in DOMAIN BranchWork
    /\ LET w == BranchWork[n]
           found == First(Boundary(w.site, w.offset))
       IN cases' = cases \o [i \in DOMAIN found |->
                     [kind |-> "branch", site |-> w.site, offset |-> w.offset,
                      path |-> found[i].path, x |-> found[i].x]]
    /\ n' = n + 1
    /\ UNCHANGED <<module, phase, tried, rounds, witness, missed, exempt, results>>

-----------------------------------------------------------------------------
(***************************************************************************)
(* Rounding halves                                                         *)
(***************************************************************************)
RoundSites == UNION {{Paths[p].computes[i].site : i \in DOMAIN Paths[p].computes} : p \in Live}
PathsOf(s) == {p \in Live : \E i \in DOMAIN Paths[p].computes : Paths[p].computes[i].site = s}

\* The first time the path makes the computation.
ComputeAt(p, s) ==
    Paths[p].computes[SelectInSeq(Paths[p].computes, LAMBDA c : c.site = s)]

\* Each site on each of its paths, then the site as a whole (path 0).
HalfWork ==
    Gather(InOrder(RoundSites), LAMBDA s :
      LET ps == InOrder(PathsOf(s)) \o <<0>>
      IN [i \in DOMAIN ps |-> [site |-> s, path |-> ps[i]]])

CasesOf(kind, s) == Sifted(cases, LAMBDA c : c.kind = kind /\ c.site = s)
AtHalves(s, p, xs) ==
    [i \in DOMAIN xs |-> [kind |-> "half", site |-> s, offset |-> 0, path |-> p, x |-> xs[i]]]

\* MUTANT of HalvesOn: the inputs that are held fixed are forgotten.
HalvesOnAlone(a, m, p, base, j) ==
    LET sols == SolveCongruence(a.coef[j], m \div 2 - a.c, m,
                                MaxSolutions, Top[j], SearchStart(Paths[p].cons, j))
    IN Sifted([i \in DOMAIN sols |-> Point(base, j, sols[i])],
              LAMBDA x : AllHold(Paths[p].cons, x))

\* The half points of form a on a line that the path's constraints let pass.
HalvesOn(a, m, p, base, j) ==
    LET sols == SolveCongruence(a.coef[j], m \div 2 - Affine(a, Point(base, j, 0)), m,
                                MaxSolutions, Top[j], SearchStart(Paths[p].cons, j))
    IN Sifted([i \in DOMAIN sols |-> Point(base, j, sols[i])],
              LAMBDA x : AllHold(Paths[p].cons, x))

\* tryCongruence: the points of the first line that has any.  The cap on an
\* obligation's cases is looked at after a case is added.
Congruence(a, c, p, bases) ==
    LET room == 2 * MaxSolutions - Len(CasesOf("half", c.site))
        lines == Sifted(Gather(bases, LAMBDA base :
                          Gather(InOrder(Terms(a)), LAMBDA j : <<HalvesOn(a, c.m, p, base, j)>>)),
                        LAMBDA xs : xs # <<>>)
    IN IF lines = <<>> THEN <<>> ELSE UpTo(IF room > 1 THEN room ELSE 1, lines[1])

(***************************************************************************)
(* linearizeProduct: hold all factors but one at fixed, none of them zero. *)
(***************************************************************************)
Known(factor) == ~factor.source /\ factor.form.rounds = <<>>

\* The product of the factors other than number free.
Others(factors, free, x) ==
    FoldLeft(LAMBDA v, i : IF i = free THEN v ELSE v * Affine(factors[i].form, x),
             1, [i \in DOMAIN factors |-> i])

\* The factor that is left free, if there is one.
FreeFactor(factors, fixed) ==
    LET frees == {i \in DOMAIN factors : Terms(factors[i].form) # {} /\ Others(factors, i, fixed) # 0}
    IN IF Len(factors) < 2 \/ frees = {} \/ \E i \in DOMAIN factors : ~Known(factors[i]) THEN <<>>
       ELSE <<Min(frees)>>

LinearizeProduct(factors, fixed) ==
    Gather(FreeFactor(factors, fixed),
           LAMBDA free : <<Scale(factors[free].form, Others(factors, free, fixed))>>)

\* The witness of the path, or the base case.
Fixed(p) == IF witness[p] = <<>> THEN module.base ELSE witness[p][1]

(***************************************************************************)
(* One computation on one path: the inputs found, or why there are none.   *)
(***************************************************************************)
Found(xs) == [xs |-> xs, why |-> "realized"]
Missed(why) == [xs |-> <<>>, why |-> why]

ByCongruence(a, c, p, bases) ==
    IF OnGrid(a, c.m) THEN Missed("exact")
    ELSE IF Congruence(a, c, p, bases) = <<>> THEN Missed("nosolution")
    ELSE Found(Congruence(a, c, p, bases))

\* The expression is affine: at most one factor moves, and the engine knows it.
Moving(c) == {i \in DOMAIN c.factors : Vars(c.factors[i].form) # {}}
HasSource(c) == \E i \in DOMAIN c.factors : c.factors[i].source
Nonlinear(c) == Cardinality(Moving(c)) > 1 \/ HasSource(c)
Expression(c) ==
    LET free == IF Moving(c) = {} THEN 1 ELSE Min(Moving(c))
    IN Scale(c.factors[free].form, Others(c.factors, free, Zeros))

Outcome(c, p) ==
    LET f == Expression(c)
        composed == SolveComposedRounding(f, c.m, FixedCandidates(p), Paths[p].cons)
        linear == LinearizeProduct(c.factors, Fixed(p))
    IN IF Nonlinear(c)
       THEN IF linear = <<>> THEN Missed("opaque") ELSE ByCongruence(linear[1], c, p, <<Fixed(p)>>)
       ELSE IF Vars(f) = {} THEN Missed("constant")
       ELSE IF f.rounds = <<>> THEN ByCongruence(f, c, p, FixedCandidates(p))
       ELSE IF composed = <<>> THEN Missed("drift") ELSE Found(composed)

RealizeHalf ==
    /\ phase = "half" /\ n \in DOMAIN HalfWork /\ HalfWork[n].path # 0
    /\ LET s == HalfWork[n].site
           p == HalfWork[n].path
           o == Outcome(ComputeAt(p, s), p)
       IN /\ cases' = cases \o AtHalves(s, p, o.xs)
          /\ missed' = IF o.why = "realized" THEN missed
                       ELSE missed \cup {[site |-> s, path |-> p, why |-> o.why]}
    /\ n' = n + 1
    /\ UNCHANGED <<module, phase, tried, rounds, witness, exempt, results>>

(***************************************************************************)
(* legacyRoundingRealization: a field times a constant; inputs are found   *)
(* when the field is made of two, one put at 1.                            *)
(***************************************************************************)
Producible(p, i, j, s, sols) ==
    LET c == ComputeAt(CHOOSE q \in PathsOf(s) : TRUE, s)
        one == Unit \div Grid[j]
        fits == Sifted(sols, LAMBDA v : Grid[i] = c.grid /\ v <= Top[i])
    IN Sifted([k \in DOMAIN fits |-> Point(Point(module.base, i, fits[k]), j, one)],
              LAMBDA x : Paths[p].opaque # {} \/ AllHold(Paths[p].cons, x))

Produced(p, s, sols) ==
    IF Paths[p].makes = <<>> \/ ~HasSource(ComputeAt(CHOOSE q \in PathsOf(s) : TRUE, s)) THEN <<>>
    ELSE LET i == Paths[p].makes[1]  j == Paths[p].makes[2]
             one == Producible(p, i, j, s, sols)
         IN IF one # <<>> THEN one ELSE Producible(p, j, i, s, sols)

\* The computation as constant times source, if that is its shape.
ConstantOf(c) == {f \in {c.factors[i] : i \in DOMAIN c.factors} : ~f.source /\ Vars(f.form) = {}}
IsScaledSource(c) ==
    Len(c.factors) = 2 /\ Cardinality(ConstantOf(c)) = 1

FallBack(s) ==
    LET c == ComputeAt(CHOOSE q \in PathsOf(s) : TRUE, s)
        k == (CHOOSE f \in ConstantOf(c) : TRUE).form.c * c.grid
        sols == IF k % c.m = 0 THEN <<>> ELSE SolveCongruence(k, c.m \div 2, c.m, MaxSolutions, c.top, 0)
        none == {p \in PathNo : Produced(p, s, sols) = <<>>}
    IN IF ~IsScaledSource(c)
       THEN /\ missed' = {u \in missed : u.site # s}
            /\ UNCHANGED <<cases, exempt>>
       ELSE IF sols = <<>>
       THEN /\ missed' = {u \in missed : u.site # s}
            /\ exempt' = exempt \cup {s}
            /\ UNCHANGED cases
       ELSE /\ cases' = cases \o Gather(InOrder(PathNo), LAMBDA p : AtHalves(s, p, Produced(p, s, sols)))
            /\ missed' = {u \in missed : u.site # s}
                         \cup {[site |-> s, path |-> p, why |-> "noproducer"] : p \in none}
            /\ UNCHANGED exempt

CloseSite ==
    /\ phase = "half" /\ n \in DOMAIN HalfWork /\ HalfWork[n].path = 0
    /\ LET s == HalfWork[n].site
           whys == {u.why : u \in {m \in missed : m.site = s}}
       IN IF CasesOf("half", s) # <<>> THEN UNCHANGED <<cases, missed, exempt>>
          ELSE IF whys \cap {"exact", "nosolution"} = {} THEN FallBack(s)
          ELSE /\ exempt' = IF whys = {"exact"} THEN exempt \cup {s} ELSE exempt
               /\ UNCHANGED <<cases, missed>>
    /\ n' = n + 1
    /\ UNCHANGED <<module, phase, tried, rounds, witness, results>>

StartHalves == Enter("branch", "half", Len(BranchWork))

-----------------------------------------------------------------------------
(***************************************************************************)
(* Running the cases and the witnesses, and the report                     *)
(***************************************************************************)
Runs ==
    cases \o Gather(InOrder(DOMAIN witness), LAMBDA p :
               [i \in DOMAIN witness[p] |->
                   [kind |-> "witness", site |-> 0, offset |-> 0, path |-> p, x |-> witness[p][i]]])

StartRuns == Enter("half", "run", Len(HalfWork))

RunNext ==
    /\ phase = "run" /\ n \in DOMAIN Runs
    /\ \E r \in {"PASS", "FAIL", "ERROR"} :
          /\ r # "PASS" => Cardinality({i \in DOMAIN results : results[i] # "PASS"}) < Trouble
          /\ results' = Append(results, r)
    /\ n' = n + 1
    /\ UNCHANGED <<module, phase, tried, rounds, witness, cases, missed, exempt>>

Report == Enter("run", "done", Len(Runs))

Status(kind, s) ==
    LET mine == {i \in DOMAIN cases : cases[i].kind = kind /\ cases[i].site = s}
    IN IF kind = "half" /\ s \in exempt THEN "NOT-APPLICABLE"
       ELSE IF mine = {} THEN "UNREALIZED"
       ELSE IF \E i \in mine : results[i] # "PASS" THEN "DIVERGENT" ELSE "VERIFIED"

\* MUTANT of Covered: a case counts for the path it was made for.
CoveredAsMade(p) ==
    IF Infeasible(p) THEN "infeasible"
    ELSE IF Paths[p].opaque # {} THEN "unknown"
    ELSE IF \E i \in DOMAIN Runs : Runs[i].path = p THEN "covered" ELSE "uncovered"

Covered(p) ==
    IF Infeasible(p) THEN "infeasible"
    ELSE IF Paths[p].opaque # {} THEN "unknown"
    ELSE IF \E i \in DOMAIN Runs :
              /\ results[i] = "PASS"
              /\ IF Runs[i].kind = "witness" THEN Runs[i].path = p
                                             ELSE AllHold(Paths[p].cons, Runs[i].x)
         THEN "covered" ELSE "uncovered"

Verdict == IF \A i \in DOMAIN results : results[i] = "PASS" THEN "PASS" ELSE "FAIL"

-----------------------------------------------------------------------------
Init ==
    /\ module \in Modules
    /\ phase = "witness" /\ n = 1
    /\ tried = <<module.base, Zeros>> /\ rounds = 0
    /\ witness = <<>> /\ cases = <<>> /\ missed = {} /\ exempt = {} /\ results = <<>>

Next ==
    \/ SkipWitness \/ FindWitness \/ RepairCandidate \/ GiveUp \/ StartBranches
    \/ RealizeBranch \/ StartHalves
    \/ RealizeHalf \/ CloseSite \/ StartRuns
    \/ RunNext \/ Report

Spec == Init /\ [][Next]_vars

-----------------------------------------------------------------------------
(***************************************************************************)
(* Properties                                                              *)
(***************************************************************************)
Sites == {con.site : con \in UNION {{Paths[p].cons[i] : i \in DOMAIN Paths[p].cons} : p \in PathNo}}
         \cup RoundSites
IsCase(c) ==
    /\ c.kind \in {"branch", "half"} /\ c.site \in Sites /\ c.offset \in {-1, 0, 1}
    /\ c.path \in PathNo /\ IsAssignment(c.x)

TypeOK ==
    /\ module \in Modules
    /\ phase \in {"witness", "branch", "half", "run", "done"}
    /\ n \in 1..(Max({Len(Paths), Len(BranchWork), Len(HalfWork), Len(Runs)}) + 1)
    /\ rounds \in 0..MaxRepairs
    /\ \A i \in DOMAIN tried : IsAssignment(tried[i])
    /\ DOMAIN witness \subseteq PathNo
    /\ \A p \in DOMAIN witness : Len(witness[p]) <= 1 /\ \A i \in DOMAIN witness[p] : IsAssignment(witness[p][i])
    /\ \A i \in DOMAIN cases : IsCase(cases[i])
    /\ missed \subseteq [site : Sites, path : PathNo,
                         why : {"exact", "nosolution", "constant", "drift", "opaque", "noproducer"}]
    /\ exempt \subseteq RoundSites
    /\ \A i \in DOMAIN results : i \in DOMAIN Runs /\ results[i] \in {"PASS", "FAIL", "ERROR"}

\* What a computation is worth before it is rounded.
Made(c, p, x) ==
    LET i == Paths[p].makes[1]  j == Paths[p].makes[2]
    IN ((x[i] * Grid[i] * x[j] * Grid[j]) \div (Unit * c.grid)) * c.grid
ExpressionAt(c, p, x) ==
    FoldLeft(LAMBDA v, f : v * (IF f.source THEN Made(c, p, x) ELSE Value(f.form, x)), 1, c.factors)
IsHalf(c, p, x) == (2 * ExpressionAt(c, p, x)) % (2 * c.m) = c.m

OnPath(p, x) == AllHold(Paths[p].cons, x)

(***************************************************************************)
(* A case is what its note says: its inputs take the path it names, and    *)
(* there the decision value is one step below zero, zero or one step above *)
(* (the nearest a staircase comes), or the expression lies exactly half    *)
(* way between two values of its target.  The cases are inputs; whether    *)
(* they hit anything is up to six searches, each with its own scaling.     *)
(***************************************************************************)
HitsBranch(c) ==
    LET f == FormAt(c.path, c.site)
        v == Value(f, c.x)
    IN /\ OnPath(c.path, c.x)
       /\ SignOf(v) = c.offset
       /\ f.rounds = <<>> => Magnitude(v) \in {0, Ulp(f)}

HitsHalf(c) ==
    /\ Paths[c.path].opaque = {} => OnPath(c.path, c.x)
    /\ IsHalf(ComputeAt(c.path, c.site), c.path, c.x)

CasesHitTheirBoundary ==
    \A i \in DOMAIN cases : IF cases[i].kind = "branch" THEN HitsBranch(cases[i]) ELSE HitsHalf(cases[i])

\* The searches are over; what they claim is compared with all inputs.
Searched == phase = "run" /\ n = 1
PathInputs(p) == {x \in Assignments : OnPath(p, x)}

(***************************************************************************)
(* A search loses an input only to a bound it states.  The lower bound of  *)
(* a path never passes over an input of the path ("an approximate bound    *)
(* only affects where the search starts"); on a line, an input of a        *)
(* staircase's wanted sign is nearer to the crossing than the case taken,  *)
(* or within the window when none was, for no path; and a half left out of *)
(* a path said to have none has MaxSolutions other halves before it.       *)
(***************************************************************************)
BoundLosesNothing ==
    \A p \in Live : \A x \in PathInputs(p), j \in Input : SearchStart(Paths[p].cons, j) <= x[j]

Distance(f, j, x) ==
    LET above == {v \in 0..Top[j] : Value(f, Point(x, j, v)) >= 0}
    IN Magnitude(x[j] - (IF above = {} THEN Top[j] + 1 ELSE Min(above)))
Window(offset) == IF offset = 0 THEN 5 ELSE 9

StaircaseIsTight ==
    \A s \in CondSites, offset \in {-1, 0, 1} :
      \A p \in {q \in Live : s \in SitesOf(Paths[q].cons) /\ IsStaircase(FormAt(q, s))
                              /\ ~IsRounded(FormAt(q, s))} :
        LET f == FormAt(p, s)
            j == CHOOSE i \in Vars(f) : TRUE
            mine == Sifted(CasesOf("branch", s), LAMBDA c : c.offset = offset)
            wanted(base) == {x \in {Point(base, j, v) : v \in 0..Top[j]} :
                               SignOf(Value(f, x)) = offset /\ OnPath(p, x)}
        IN IF mine = <<>>
           THEN \A b \in DOMAIN FixedCandidates(p) :
                  \A x \in wanted(FixedCandidates(p)[b]) : Distance(f, j, x) >= Window(offset)
           ELSE mine[1].path = p =>
                  \A x \in wanted(mine[1].x) : Distance(f, j, x) >= Distance(f, j, mine[1].x)

OnlyTheCapLosesHalves ==
    \A u \in {v \in missed : v.why = "nosolution"} :
      LET c == ComputeAt(u.path, u.site)
          j == CHOOSE i \in Input : i \in Vars(Expression(c))
          halves(x) == {v \in 1..Top[j] : v >= SearchStart(Paths[u.path].cons, j)
                                          /\ IsHalf(c, u.path, Point(x, j, v))}
      IN ~Nonlinear(c) =>
           \A b \in DOMAIN FixedCandidates(u.path) :
             \A v \in halves(FixedCandidates(u.path)[b]) :
               OnPath(u.path, Point(FixedCandidates(u.path)[b], j, v)) =>
                 Cardinality({w \in halves(FixedCandidates(u.path)[b]) : w < v}) >= MaxSolutions

SearchesMissNothing == Searched => BoundLosesNothing /\ StaircaseIsTight /\ OnlyTheCapLosesHalves

(***************************************************************************)
(* What the report claims without running anything.  Nobody takes a path   *)
(* called infeasible ("proved, not guessed"), and no input on any path     *)
(* puts a computation called NOT-APPLICABLE on a half: of a product none   *)
(* that leaves the factors held on that path what they are at its witness, *)
(* all that "exact with the witness-fixed factors" says; of any other      *)
(* computation none at all.                                                *)
(***************************************************************************)
Answered(c, p) ==
    LET held == IF Nonlinear(c) THEN FreeFactor(c.factors, Fixed(p)) ELSE <<>>
    IN {x \in PathInputs(p) : \A i \in DOMAIN held :
          Others(c.factors, held[i], x) = Others(c.factors, held[i], Fixed(p))}

ExemptionsAreProved ==
    Searched =>
      /\ \A p \in PathNo : Infeasible(p) => PathInputs(p) = {}
      /\ \A s \in exempt : \A p \in PathsOf(s) : \A x \in Answered(ComputeAt(p, s), p) :
            ~IsHalf(ComputeAt(p, s), p, x)

\* The report's note on such a computation says more: "the expression is exact
\* at the target scale on every path; no rounding boundary exists".
NoBoundaryExists ==
    Searched =>
      \A s \in exempt : \A p \in PathsOf(s) : \A x \in PathInputs(p) :
          ~IsHalf(ComputeAt(p, s), p, x)

(***************************************************************************)
(* The evidence behind the report's words: a VERIFIED obligation has an    *)
(* input that hits its boundary and passed, and a path counted as covered  *)
(* was taken by an input that passed.  The report names neither.           *)
(***************************************************************************)
Hits(c) == IF c.kind = "branch" THEN HitsBranch(c) ELSE HitsHalf(c)
ReportRestsOnRuns ==
    phase = "done" =>
      /\ \A i \in DOMAIN cases : Status(cases[i].kind, cases[i].site) = "VERIFIED" =>
            \E k \in DOMAIN cases : /\ cases[k].kind = cases[i].kind /\ cases[k].site = cases[i].site
                                    /\ results[k] = "PASS" /\ Hits(cases[k])
      /\ \A p \in PathNo : Covered(p) = "covered" =>
            \E i \in DOMAIN Runs : results[i] = "PASS" /\ OnPath(p, Runs[i].x)
      /\ Verdict = "PASS" => \A i \in DOMAIN cases : Status(cases[i].kind, cases[i].site) # "DIVERGENT"
=============================================================================
