------------------------------- MODULE PropGen -------------------------------
(***************************************************************************)
(* A run of layer A: runPropGen of cli/src/verify/propgen.ts.  All cases   *)
(* are generated (generateCases), each is run on both sides, the first     *)
(* failures are shrunk one after the other, and the report is written.     *)
(*                                                                         *)
(* The random stream is a choice among what it can draw.  A laid-out       *)
(* record is a number of which KeyOf is the RECORD KEY.                    *)
(***************************************************************************)
EXTENDS Shrink, FiniteSets

CONSTANTS
    SmallDraws,   \* 1000: the draws of "small values", 0 .. SmallDraws - 1
    MaxAttempts,  \* 64: draws of one record in search of an unused key
    MaxTargets,   \* MAX_SHRINK_TARGETS
    Keys,         \* how many RECORD KEYs there are
    None

ASSUME Limits ==
    /\ {SmallDraws, MaxTargets} \subseteq Nat
    /\ {MaxAttempts, Keys} \subseteq Nat \ {0}

VARIABLES
    cases,      \* the cases generated so far
    want,       \* how many records the next case is to have, or None
    lines, attempt,   \* its records so far, and draws of the next one
    results,    \* status of the cases run so far
    shrunk,     \* of a case that failed, by its index: what it was shrunk to
    verdict     \* of the report, or None

genVars == <<cases, want, lines, attempt>>
vars == <<shrinkVars, genVars, results, shrunk, verdict>>

\* A value of a field or record: zero, the largest, a small one, or any.  In
\* laid-out records the small one is taken modulo the domain.
Drawn ==
    LET small == IF gen.mode \in {"fields", "records"} THEN 0..(SmallDraws - 1)
                 ELSE {n % (gen.top + 1) : n \in 0..(SmallDraws - 1)}
    IN  {0, gen.top} \cup small \cup 0..gen.top

KeyOf(line) == line % Keys
Seen == {KeyOf(lines[i]) : i \in DOMAIN lines}

Init ==
    /\ gen \in Generators
    /\ NoTarget /\ pc = "generate" /\ failing = {} /\ passing = {}
    /\ cases = <<>> /\ want = None /\ lines = <<>> /\ attempt = 0
    /\ results = <<>> /\ shrunk = <<>> /\ verdict = None

\* The number of records: the minimum, one more, the maximum, or any between.
\* A case of fields has as many as there are fields.
PickCount ==
    /\ pc = "generate" /\ Len(cases) < gen.count /\ want = None
    /\ want' \in gen.min..gen.max
    /\ UNCHANGED <<shrinkVars, cases, lines, attempt, results, shrunk, verdict>>

\* A case without a key, and a case whose last record has been drawn.
Draw ==
    /\ pc = "generate" /\ want # None
    /\ IF gen.mode = "indexed"
       THEN Len(lines) = want /\ cases' = Append(cases, lines)
       ELSE \E case \in [1..want -> Drawn] : cases' = Append(cases, case)
    /\ want' = None /\ lines' = <<>> /\ attempt' = 0
    /\ UNCHANGED <<shrinkVars, results, shrunk, verdict>>

\* MUTANT of DrawRecord: the last attempt is taken whatever its key.
DrawAnyAtLast ==
    /\ want # None /\ gen.mode = "indexed" /\ Len(lines) < want
    /\ \E line \in Drawn :
          IF KeyOf(line) \notin Seen \/ attempt + 1 = MaxAttempts
          THEN lines' = Append(lines, line) /\ attempt' = 0 /\ UNCHANGED pc
          ELSE attempt' = attempt + 1 /\ UNCHANGED <<lines, pc>>
    /\ UNCHANGED <<gen, target, failing, passing, cases, want, results, shrunk, verdict>>

\* A record with a key no other record of the case has; after MaxAttempts
\* draws in vain the whole run is refused.
DrawRecord ==
    /\ want # None /\ gen.mode = "indexed" /\ Len(lines) < want
    /\ pc = "generate"
    /\ \E line \in Drawn :
          IF KeyOf(line) \notin Seen
          THEN lines' = Append(lines, line) /\ attempt' = 0 /\ UNCHANGED pc
          ELSE /\ attempt' = attempt + 1 /\ UNCHANGED lines
               /\ pc' = IF attempt' = MaxAttempts THEN "refused" ELSE pc
    /\ UNCHANGED <<gen, target, failing, passing, cases, want, results, shrunk, verdict>>

\* Each case is run, all of them before the first is shrunk.
RunCase ==
    /\ pc = "generate" /\ Len(cases) = gen.count /\ Len(results) < gen.count
    /\ LET case == cases[Len(results) + 1] IN
       \/ /\ case \notin passing
          /\ failing' = failing \cup {case} /\ UNCHANGED passing
          /\ results' = Append(results, "FAIL")
       \/ /\ case \notin failing
          /\ passing' = passing \cup {case} /\ UNCHANGED failing
          /\ \E status \in {"PASS", "ERROR"} : results' = Append(results, status)
    /\ UNCHANGED <<gen, target, pc, genVars, shrunk, verdict>>

\* MUTANT of Failed: a case that could not be judged is a failure as well.
NotPassed == {i \in DOMAIN results : results[i] # "PASS"}

Failed == {i \in DOMAIN results : results[i] = "FAIL"}

\* The first MaxTargets failures are shrunk, in the order of the cases.
ToShrink == IF Cardinality(DOMAIN shrunk) < MaxTargets THEN Failed \ DOMAIN shrunk ELSE {}

NextTarget ==
    /\ pc = "generate" /\ Len(results) = gen.count
    /\ \E i \in ToShrink : IsFirst(i, ToShrink) /\ BeginShrink(cases[i])
    /\ UNCHANGED <<genVars, results, shrunk, verdict>>

Shrunk ==
    /\ pc = "shrunk"
    /\ \E i \in ToShrink :
          /\ IsFirst(i, ToShrink)
          /\ shrunk' = [t \in DOMAIN shrunk \cup {i} |->
                IF t = i THEN [stdin |-> current, diffs |-> diffs, runs |-> runs]
                ELSE shrunk[t]]
    /\ pc' = "generate"
    /\ UNCHANGED <<gen, target, failing, passing, genVars, results, verdict>>

Passed == {i \in DOMAIN results : results[i] = "PASS"}
Report ==
    /\ pc = "generate" /\ Len(results) = gen.count /\ ToShrink = {}
    /\ verdict' = IF Cardinality(Passed) = Len(results) THEN "PASS" ELSE "FAIL"
    /\ pc' = "reported"
    /\ UNCHANGED <<gen, target, failing, passing, genVars, results, shrunk>>

Shrinking == ShrinkStep /\ UNCHANGED <<genVars, results, shrunk, verdict>>

Next == PickCount \/ Draw \/ DrawRecord \/ RunCase \/ NextTarget \/ Shrinking \/ Shrunk
        \/ Report

\* A synchronous program; each run of a case ends, by its timeout at the
\* latest, and so do the draws.
Spec == Init /\ [][Next]_vars /\ WF_vars(Next)

-----------------------------------------------------------------------------
TypeOK ==
    /\ gen \in Generators
    /\ \A case \in Range(cases) \cup {current, lines} \cup failing \cup passing :
          case \in Seq(Nat) /\ Len(case) <= gen.max
    /\ runs \in 0..MaxRuns /\ changed \in BOOLEAN
    /\ pc \in {"generate", "refused", "round", "drop", "field", "try", "shrunk", "reported"}
    /\ idx \in 0..(gen.max + 1) /\ left \subseteq 1..4
    /\ want \in {None} \cup gen.min..gen.max /\ attempt \in 0..MaxAttempts
    /\ results \in Seq({"PASS", "FAIL", "ERROR"})
    /\ verdict \in {None, "PASS", "FAIL"}

\* Whatever is run, generated or made by the shrinker, is an input the
\* program can be given: as many records as allowed, values of the PICTURE,
\* and no two records of an indexed file with one key (propgen.ts:90-95).
CasesAreFiles ==
    \A case \in failing \cup passing :
        /\ Len(case) \in gen.min..gen.max
        /\ Range(case) \subseteq 0..gen.top
        /\ gen.mode = "indexed" =>
             \A i, j \in DOMAIN case : KeyOf(case[i]) = KeyOf(case[j]) => i = j

\* A case made of another one by leaving records out and putting in smaller
\* values: its records, each with that of the other it was made of.
NoLarger(small, case) ==
    \E of \in [DOMAIN small -> DOMAIN case] :
        /\ \A i, j \in DOMAIN small : i < j => of[i] < of[j]
        /\ \A i \in DOMAIN small : small[i] <= case[of[i]]

\* The report: each of the first failures, as many as are shrunk at most, has
\* its counterexample, which was seen to fail, with those differences, and was
\* made of the case generated by leaving out and making smaller; and PASS means
\* that no case failed and none could not be judged.
ReportIsTrue ==
    verdict # None =>
        /\ \A i \in DOMAIN shrunk :
              /\ shrunk[i].stdin \in failing /\ shrunk[i].diffs = shrunk[i].stdin
              /\ i \in Failed /\ NoLarger(shrunk[i].stdin, cases[i])
        /\ \A i \in Failed \ DOMAIN shrunk :
              /\ Cardinality(DOMAIN shrunk) = MaxTargets
              /\ \A j \in DOMAIN shrunk : j < i
        /\ (verdict = "PASS") <=> (failing = {} /\ "ERROR" \notin Range(results))

\* A run of the layer ends: with a report, or refused.
Ends == <>(pc \in {"reported", "refused"})
=============================================================================
