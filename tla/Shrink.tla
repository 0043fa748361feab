-------------------------------- MODULE Shrink --------------------------------
(***************************************************************************)
(* Layer A's shrinker: the loop of runPropGen (cli/src/verify/propgen.ts)  *)
(* over one case that has failed.                                          *)
(*                                                                         *)
(* A case is a sequence of numbers: the input fields, or the records of a  *)
(* file.  The shrinker drops records, then puts smaller values in, as long *)
(* as the case still fails, with at most MaxRuns runs of it.  Which cases  *)
(* fail is found out by running them: the two sides are deterministic, so  *)
(* a case that was run keeps its answer.                                   *)
(***************************************************************************)
EXTENDS Naturals, Sequences, SequencesExt, Functions

CONSTANTS
    Generators,   \* resolved generators: mode, min, max, top, count, numeric
    MaxRuns       \* MAX_SHRINK_RUNS

\* numericIdx is a part of the fields, and their number does not vary.
ASSUME Resolved ==
    /\ MaxRuns \in Nat
    /\ \A g \in Generators :
          /\ g.mode \in {"fields", "records", "layout", "indexed"}
          /\ {g.min, g.max, g.top, g.count} \subseteq Nat /\ g.min <= g.max
          /\ g.mode = "fields" => g.min = g.max /\ g.numeric \subseteq 1..g.min

VARIABLES
    gen,       \* the generator of this run
    current,   \* the smallest failing case so far, at first the one generated
    diffs,     \* the case whose differences are to be reported
    runs, changed,
    pc, idx,   \* "round", "drop" at idx, "field" at idx, "shrunk", "idle"
    left,      \* simplifications of the field still to be tried
    failing, passing   \* the cases that were run: those with status FAIL, the others

target == <<current, diffs, runs, changed, idx, left>>
shrinkVars == <<gen, target, pc, failing, passing>>

Recorded == gen.mode # "fields"

\* What is tried for a value, most aggressive first; toFixed rounds halves up.
Candidates(value) == <<0, 1, (value + 5) \div 10, (value + 1) \div 2>>

\* The positions of the candidates that count: smaller ones, each once.
Simplify(value) ==
    {k \in DOMAIN Candidates(value) :
        /\ Candidates(value)[k] < value
        /\ \A j \in 1..(k - 1) : Candidates(value)[j] # Candidates(value)[k]}

\* A case with the k-th candidate for its i-th value put in.
Simpler(case, i, k) == [case EXCEPT ![i] = Candidates(case[i])[k]]

IsFirst(k, S) == k \in S /\ \A j \in S : k <= j

\* idxs: the numeric fields, every one-value record, nothing of laid-out records.
Simplifiable(case) ==
    CASE gen.mode = "fields" -> gen.numeric
      [] gen.mode = "records" -> DOMAIN case
      [] OTHER -> {}

NoTarget == /\ current = <<>> /\ diffs = <<>> /\ runs = 0 /\ changed = FALSE
            /\ idx = 0 /\ left = {}

\* The next failure is taken up.
BeginShrink(failure) ==
    /\ current' = failure /\ diffs' = failure
    /\ runs' = 0 /\ changed' = TRUE
    /\ pc' = "round" /\ idx' = 0 /\ left' = {}
    /\ UNCHANGED <<gen, failing, passing>>

\* MUTANT of Round: changed is not reset.
RoundUnreset ==
    /\ pc = "round"
    /\ IF changed /\ runs < MaxRuns
       THEN pc' = IF Recorded THEN "drop" ELSE "field"
       ELSE pc' = "shrunk"
    /\ idx' = 1 /\ left' = {}
    /\ UNCHANGED <<gen, current, diffs, runs, changed, failing, passing>>

\* while (changed && runs < MAX_SHRINK_RUNS)
Round ==
    /\ pc = "round"
    /\ IF changed /\ runs < MaxRuns
       THEN pc' = IF Recorded THEN "drop" ELSE "field"
       ELSE pc' = "shrunk"
    /\ changed' = FALSE /\ idx' = 1 /\ left' = {}
    /\ UNCHANGED <<gen, current, diffs, runs, failing, passing>>

\* failsWith: the trial is run; failing, it is what is shrunk from here on.
Fails(trial) ==
    /\ runs' = runs + 1
    /\ trial \notin passing
    /\ failing' = failing \cup {trial}
    /\ current' = trial /\ diffs' = trial /\ changed' = TRUE
    /\ UNCHANGED passing
Passes(trial) ==
    /\ runs' = runs + 1
    /\ trial \notin failing
    /\ passing' = passing \cup {trial}
    /\ UNCHANGED <<current, diffs, changed, failing>>

\* One record less; a drop that fails starts a new round.
DropRecord ==
    /\ pc = "drop" /\ idx <= Len(current) /\ runs < MaxRuns
    /\ Len(current) - 1 >= gen.min
    /\ LET trial == RemoveAt(current, idx) IN
       \/ Fails(trial) /\ pc' = "round" /\ UNCHANGED idx
       \/ Passes(trial) /\ idx' = idx + 1 /\ UNCHANGED pc
    /\ UNCHANGED <<gen, left>>

DropsOver ==
    /\ pc = "drop"
    /\ idx > Len(current) \/ runs >= MaxRuns \/ Len(current) <= gen.min
    /\ pc' = "field" /\ idx' = 1 /\ left' = {}
    /\ UNCHANGED <<gen, current, diffs, runs, changed, failing, passing>>

\* The candidates of a field are those of the value it has now.
EnterField ==
    /\ pc = "field" /\ idx <= Len(current)
    /\ IF idx \in Simplifiable(current)
       THEN left' = Simplify(current[idx]) /\ pc' = "try" /\ UNCHANGED idx
       ELSE idx' = idx + 1 /\ UNCHANGED <<pc, left>>
    /\ UNCHANGED <<gen, current, diffs, runs, changed, failing, passing>>

\* MUTANT of TryCandidate: the budget is looked at once a round only.
TryUnbounded ==
    /\ pc = "try"
    /\ \E k \in left : IsFirst(k, left) /\ LET trial == Simpler(current, idx, k) IN
       \/ Fails(trial) /\ pc' = "field" /\ idx' = idx + 1 /\ left' = {}
       \/ Passes(trial) /\ left' = left \ {k} /\ UNCHANGED <<pc, idx>>
    /\ UNCHANGED gen

\* MUTANT of TryCandidate: the loop is left at the first candidate that passes.
TryOnce ==
    /\ pc = "try" /\ runs < MaxRuns
    /\ \E k \in left : /\ IsFirst(k, left)
                       /\ Fails(Simpler(current, idx, k)) \/ Passes(Simpler(current, idx, k))
    /\ pc' = "field" /\ idx' = idx + 1 /\ left' = {}
    /\ UNCHANGED gen

\* A candidate that still fails ends the field.
TryCandidate ==
    /\ pc = "try" /\ runs < MaxRuns
    /\ \E k \in left : IsFirst(k, left) /\ LET trial == Simpler(current, idx, k) IN
       \/ Fails(trial) /\ pc' = "field" /\ idx' = idx + 1 /\ left' = {}
       \/ Passes(trial) /\ left' = left \ {k} /\ UNCHANGED <<pc, idx>>
    /\ UNCHANGED gen

FieldOver ==
    /\ pc = "try" /\ (left = {} \/ runs >= MaxRuns)
    /\ pc' = "field" /\ idx' = idx + 1 /\ left' = {}
    /\ UNCHANGED <<gen, current, diffs, runs, changed, failing, passing>>

FieldsOver ==
    /\ pc = "field" /\ idx > Len(current)
    /\ pc' = "round"
    /\ UNCHANGED <<gen, current, diffs, runs, changed, idx, left, failing, passing>>

ShrinkStep == \/ Round \/ DropRecord \/ DropsOver \/ EnterField \/ TryCandidate
              \/ FieldOver \/ FieldsOver

-----------------------------------------------------------------------------
\* What one step of the shrinker could make of a case.
Dropped(c) == IF Recorded /\ Len(c) > gen.min
              THEN {RemoveAt(c, i) : i \in DOMAIN c} ELSE {}
Smaller(c) ==
    UNION {{Simpler(c, i, k) : k \in Simplify(c[i])} : i \in Simplifiable(c)}

\* Unless it ran out of runs, the shrinker stops at a case that none of its
\* own steps makes smaller: each of them was run on it and did not fail.
LocallyMinimal ==
    pc = "shrunk" /\ runs < MaxRuns => Dropped(current) \cup Smaller(current) \subseteq passing
=============================================================================
