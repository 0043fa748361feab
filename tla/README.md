# legacymind in TLA+

legacymind translates COBOL modules to Java with a language model and then
decides, by running and by reasoning about both programs, whether a translation
may be certified. This directory models that decision: how candidates are
searched for and selected, how they are run against the legacy program, how the
supporting layers find their cases, and how the pieces of evidence, all of them
files that other commands may be replacing, become a certificate and a row of
the benchmark. Paths below are relative to the repository; line numbers are
those of the commit the models were written from. `PROJECT.json` maps every
definition to the lines it stands for.

    tlc -config MCMigrate.cfg MCMigrate      model-check a run
    tlapm MigrateProofs.tla                  check the proofs of a module

## 1. The system

| component | code | state it keeps | operations |
|---|---|---|---|
| Replay cache | `cli/src/model/client.ts`, `anthropic.ts`, `scripts/record-response.mjs` | one entry and one request stub per key, on disk | look up, call live, write stub, write entry, record by hand |
| Transpiler | `cli/src/transpile/transpile.ts` | per candidate: source, class, diff report; `selection.json` | variants, emit, compile, verify (B), gate (A), repair rounds, select |
| Layer B, differential execution | `cli/src/verify/diffexec.ts`, `harness/gnucobol/Dockerfile.file` | case results; the shared container and the output file in it | run a side with a timeout, compare, classify, batch verdict |
| Layer A, generated cases | `cli/src/verify/propgen.ts` | the cases and their results, the failing case being shrunk | generate, run, shrink, report |
| Layer C, symbolic execution | `cli/src/verify/symexec.ts` | paths: environment, constraints, input position; then witnesses, cases, exemptions | rewrite GO TO, inline PERFORM, explore, solve, realize cases |
| Layer D, static data flow | `cli/src/verify/staticflow.ts`, `verifier/javaflow/JavaFlow.java` | def-use maps of both sides | extract, resolve, compare |
| Certification | `cli/src/certify.ts`, `main.ts` | `certification.json` | read selection and reports, evidence, verdict, artifact check; audit mode |
| Benchmark runner | `benchmark/run-benchmark.mjs` | all files of a module's output directory, `RESULTS` | clean, parse ... certify, verify, copy, gather a row |
| Signing | `cli/src/sign.ts` | keys, signed certificate | canonicalise, sign, verify |
| Front ends and IR | `cli/src/parse/*`, `parser/proleap/`, `ir-core/`, `ir/` | none (functions of the source text) | parse, lower control flow, lay out data, validate |
| Assess and plan | `cli/src/assess.ts`, `plan.ts` | none | reports over an IR |
| Dashboard | `dashboard/` | none | read-only view, verification of a certificate |

Interaction. There is no server and no message: every command is a process, and
commands meet in a directory. `migrate` (transpiler) calls the replay cache for
each prompt and layer B, and optionally layer A, for each candidate in its own
process. `verify --layer A|C|D` runs later against the class or the source
`migrate` left behind. `certify` reads what all of them wrote, one file after the
other and without a lock. The benchmark calls all of them in turn and goes on
when one fails. Layer B of a module that writes files runs its cases in one
container per image and process, so cases share a file system.

What is hard here:

* **Stale files.** Everything survives the run that made it: a class from before
  a source was replaced, a report from before the class was, a selection from a
  run before the one that broke off.
* **Interleaving.** `certify`, `verify` and `migrate` may overlap; two processes
  may miss the same cache key and both pay for it; entries are written in place.
* **Partial failure.** A candidate that does not parse aborts `migrate` half way;
  a step of the benchmark fails and the next ones run on what is there; one case
  of a batch times out while its program goes on in the container.
* **Boundaries.** No generated case, no cases at all, the unroll bound, the path
  limit, the shrink budget, a store at the capacity of its field; and the search
  for inputs that sit exactly on a rounding half or one step beside a threshold,
  which six solvers do in scaled integers.
* **Termination.** Repair rounds, shrinking, unrolling, a hanging candidate.

What makes each component correct is stated as the properties of section 3; the
places where it could go wrong are the `hazards` of `PROJECT.json`, each with the
properties that would notice.

## 2. Modules

    VerifiedSelection  <-- refined by --  Migrate  <-- EXTENDS --  Pipeline (verify, certify)
    CondSplit   <-- EXTENDS --  CobolRun  <-- EXTENDS --  SymPaths
    ExactForms  <-- EXTENDS --  Solvers   <-- EXTENDS --  Realize
    Lowering    <-- EXTENDS --  ControlFlow
    Shrink      <-- EXTENDS --  PropGen
    ReplayCache    DiffExec    Benchmark    DataFlow          (on their own)
    *Proofs, LeastNat                                         (TLAPS)
    MC*.tla, *.cfg                                            (instances for TLC)

Layer C is three models in the order of the code: ControlFlow rewrites the
program to a tree, SymPaths explores the tree, Realize starts from the paths an
exploration leaves behind. Each takes what the one before it hands over as its
input, so that each is small enough to be explored to the end.

**ReplayCache** — `completeWithCache` and `record-response.mjs`. A process is at
a label (`lookup`, `call`, opened but not yet written, ...); opening and writing
a file are two actions, because `writeFileSync` truncates first and a reader, a
second writer or a kill can come between. A file is `Absent`, `Empty`,
`Garbled` or holds an answer; `Call` may answer anything and `IsCompletion`
is the refusal of truncated and empty answers in `anthropic.ts`. `overlapped`
and `paid` are history.

**Migrate** — `runMigrate`. `java`, `class`, `report`, `selection` are the
directory and outlive runs; `outcomes`, `pending`, `current`, `round`,
`winner` are the memory of one run. The actions are the parts of
`evaluateCandidate` (`Emit`, `Compile`, `Verify`, `LayerAGate`), the loop over
variants (`Evaluate`), the repair loop (`Repair`, `NextRound`, `GiveUp`), `Win`,
and the writing of `selection.json`, which is in place and therefore two actions:
`OpenSelection` leaves the file `Torn`, `WriteSelection` makes it whole. `Abort` is
a kill or an exception at any point, between those two as well; nothing is
cleaned up, as in the code. `Repair` passes over a repair that is missing from the
cache (a stub was written).

**VerifiedSelection** — the promise: a run tries each candidate at most once and
publishes one that passed in that very run, or `None` if none did. What was
published stays until a later run has ended its search, also when that run breaks
off; then it is withdrawn (`Withdraw`) and replaced (`Publish`), and a run that
breaks off between the two leaves nothing published. More the code does not keep:
there is no moment at which the old and the new file both exist. `Migrate` refines
it with `stage <- Stage` (closed, open while a run searches, publishing while it
writes), `tried` the evaluations that are over, `passed` the winners, `published`
what `selection.json` says, nothing when it is `Torn`.

**Pipeline** — `verify --layer l` and `certify` beside `Migrate`, whose
variables and actions it extends. A verification collects the set of texts it
has actually run (each case starts the class anew); `certify` reads selection,
report B, each layer report and the source in actions of their own, in the
order of the code, then writes. `evidence`, `checkTargetsArtifact` (the
substring test on the command line) and the verdict are operators of the same
shape as the functions. `quiet`, `clean` and `run` are history: who was
disturbed by a later run of `migrate`.

**DiffExec** — `runCase`, `runDiffCases`, `runSide` and the wrapper script in the
container (`rm`, program, `cat`). An execution has an inode of the output file:
a program whose docker client was killed goes on (`zombies`) and writes to the
inode it has open or creates the file anew. A candidate is nondeterministic:
any result a run can have. `CaseStatus` is the classification of a case in its
order of tests, `Verdict` that of a batch.

**Benchmark** — one module of `modules.json` through the steps of the runner.
`made[f]` is the run that wrote file `f`; steps pass or fail, `failed` is the
runner's flag, `Kill` may come anywhere, and the next run starts on what is
left after `Clean`.

**CondSplit** — `condAlternatives`: the disjoint alternatives an AND or OR of
comparisons is split into, for one truth. **CobolRun** — what a program does
with an input (external: the repository runs the compiled program in a
container to know). **SymPaths** — `execute`, `executeLoop`, `unrollLoop`,
`loopCondStates`, `store` over the same statement trees. The recursion of the
code is a stack of paths with the statements they have left; a loop under way is
a frame among those statements. A symbolic value is the function it denotes,
from cases to numbers, or `Opaque`; a constraint is the set of cases it holds
for. Each path carries, as history, what the program really does with the
cases that take it (`took`), which is what the properties compare it with.
The run of a program in CobolRun goes statement by statement (`Step`; one that has
statements left after `Fuel` of them counts as endless), and what is nested in a
statement is collected level by level (`Within`, `Depth`), both without recursive
operators so that they can be proved about. `beyond` and `overflown` are history:
the cases a path says it leaves out, and those that have lost digits when a loop
is tested. `Regular` says what layer C takes for granted of a program, at the
statement where it matters: no known field shares storage with one stored to, the
lines are accepted in the order of the text, records are all counted, and a loop
given up on changes nothing known that is not collected.

**Lowering** — what `ProLeapFrontend.java` does to control flow: the body of an
inline PERFORM is hoisted into a paragraph appended after those of the source
(`Lower`), and the GO TO gate decides which programs the layers get to see
(`Admitted`). A program is the sequence of its paragraphs' statement lists, a
paragraph is its position. Statements without control flow are acts, and
conditions are names: whether two sides evaluate one alike is the business of
SymPaths. **ControlFlow** — the rewrites of `symexec.ts` in front of the
explorer: `topLevelChain` (`Chain`), `eliminateExitGotos` (`WithoutExits`),
`inlineStatements` (`Inlined`), `loopBody`. The specification runs the program
as written and the resulting tree side by side, with the same truths for their
conditions. The run of the source is that of GnuCOBOL (external): the end of a
paragraph returns only from the innermost PERFORM, and only if its range ends
there. `Declined` stands for a thrown `SymbolicDeclined`; a behaviour stops when
the explorer would meet it. Sections, READ branches and a mainline before the
first paragraph are not in the statement language.

**Shrink** — the shrinker of `runPropGen`, one action per step of its three
nested loops. Which cases fail is decided when they are run and remembered
(`failing`, `passing`), so TLC tries every predicate without enumerating them. The
candidates for a value are tried by position (`Candidates`, `Simplify`).
**PropGen** — the run around it: `generateCases` draws all cases (`PickCount`,
`Draw`, `DrawRecord` with its attempts at an unused RECORD KEY), `RunCase` runs
all of them, `NextTarget` takes up the first failures one after the other, `Shrunk`
keeps what each came to, by its case, `Report` writes. The random stream is a choice among what it can draw (`Drawn`); a record
laid out by fields is a number of which `KeyOf` is the key. `mode` is the kind of
case: stdin fields, records of one value, laid-out records, indexed records.

**DataFlow** — layer D. `Extract` walks the text as `extractLegacyFlows` does and
collects, per variable and per output key, sources and facets (input positions,
constants, roundings, decimal shifts, capacities, unresolved reasons);
`ResolveFlow` is the memoised depth-first resolution; `CompareKey`, `Status` and
`Verdict` compare. Beside it the program is run, path by path, and every value
carries the facets it really derives from (`prov`): that is what the flows are
held against. The Java's flows are an input: those of the legacy side, or with one
facet or key lost or added (`Variants`).

**ExactForms** — the values of the engine: an affine form over the inputs and
rounded terms, nested; stores, comparison, evaluation. Everything is counted in
one fine unit, so rationals are integers (`Unit` per one, `Grid[i]` per step of
input i). **Solvers** — the searches over them, one operator per function:
`SolveEquality`, `SolveCongruence` (extended Euclid), `SolveThroughRounding`,
`SolveMixedRounding`, `SolveMixedRoundingMultiVar`, `SolveComposedRounding`, the
lower bounds a search starts at, and the repair of a candidate.
**Realize** — `runSymExec` after exploration: infeasible paths, a witness per
path (`FindWitness`, `RepairCandidate`, `GiveUp`), three boundary inputs per
condition (`RealizeBranch`), half-way inputs per rounded computation
(`RealizeHalf`, and `CloseSite` with the producer-inversion fallback), the runs of
all of them with any outcome (`RunNext`), status, coverage and verdict. A case is
compared with what the program computes on its input (`Value`, `Made`).

Operators marked `MUTANT of X` are deliberate bugs, one or two for each checked
property: with `X` replaced by it the property is violated. They are not part
of any specification.

## 3. Runs

TLC checks each of these; all bounds are constants of the `.cfg` or named
operators of the MC module.

| run | asks | result |
|---|---|---|
| `replay_cache` | Is what is replayed a whole answer to that request, whatever overlaps and whoever is killed? Does a poisoned entry, a double payment or a miss without its stub take an overlap or a kill? Does a stored answer stay? | holds |
| `migrate` | With two runs on one directory and a kill anywhere, in the writing of `selection.json` too: is the search given up only when every lineage is exhausted, is only what failed repaired, nearest miss first, is `VerifiedSelection` implemented, its liveness included? | holds |
| `pipeline` | With two runs of `migrate` and two layers interleaved with `certify`: when is a selection, and a certificate, about the source it names? | holds |
| `diffexec` | What are PASS and FAIL of a batch worth when cases share a container and are cut off? | holds |
| `benchmark` | Does a row quote, or a CERTIFIED row or the copy of its certificate rest on, anything older than itself? | holds |
| `sym_paths` | Is every case on a path or disclosed, and is what a path says of a case what the program does? Do these programs meet what layer C takes for granted (`Regular`)? Does exploration end? | holds |
| `control_flow` | Does the tree layer C explores do what the paragraphs, PERFORMs and GO TOs of the source do, and are lines bound to ACCEPTs in the order they are read? | holds |
| `realize` | Does every case hit the boundary its note names? Do the searches leave out only what their bounds say? Is nobody on a path called infeasible, and no half in what is called NOT-APPLICABLE (of a product: with the factors held that were held)? Do VERIFIED and covered rest on runs that passed? | holds |
| `layer_a` | Is every case run an input the program can be given, is the report true of what was run, is a shrunk case a local minimum if the budget allowed, does a run end? | holds |
| `data_flow` | Does the resolution find all that is reachable? Does a key's derivation cover every path of the program? Does PASS mean that the Java has lost nothing? | holds |
| `crash_never_leaks` | `Dockerfile.file:9-12` | violated |
| `realize_square` | `symexec.ts:3169-3173` | violated |

### Bounds

* `replay_cache`: two processes, one key, two answers, two live calls, one kill.
  Keys do not interact (one file each), and every bad outcome known takes two
  processes or one kill. Processes and texts are symmetric.
* `migrate`: two variants, two repair rounds, two selection cases (so that
  "nearest miss" distinguishes), gate on, and two runs, so that a run finds what
  another has selected, whole or torn. `FirstUnrepaired`: the first of them gets no
  repair answered, which still ends it with a variant, with nobody or with a break
  anywhere; the second has all the repairs, also on a directory that is as good as
  new, the first having broken off at once. One source text: several are what
  `pipeline` is for.
* `pipeline`: one variant and one repair of it, two source texts, two runs of
  `migrate`, layers C and D. Layer A has no behaviour of its own here: it tests
  the class like C, and its verdicts are among C's. `OneCertificate` stops after
  the first certificate (a second reads the same files); `FewLayers` combines
  two layers over one finished first run only, and lets one layer span both
  runs. Which evidence counts is decided layer by layer, so a pair of layers
  adds only the filter over both, which the bounded case reaches.
* `diffexec`: two batches of two cases; the second case of each ends before
  OPEN OUTPUT. A leak needs one execution to outlive its case, and a batch to
  outlive that: two of each. Every config `loadConfig` accepts is initial.
* `benchmark`: two runs, two candidates.
* `sym_paths`: twelve programs with each statement kind and the shapes the code
  treats apart: compound conditions under both truths, nested loops, a loop
  bound by input, one that never ends, one with an unknown guard, a count that
  wraps in a loop, reads to and past the end, a byte window. Values 0..3 (`MaxValue`), loops unrolled twice
  (`MaxUnroll`), two record slots, and inputs of up to three records, so that the
  bounds are exceeded; `Fuel` = 40 statements of the real program make a run that
  does not stop earlier "endless", more than any terminating run here takes, and
  `Depth` = 5 levels of nesting, more than any program here has (which
  `ProgramsAssumption` checks). The cases in `overflown` are excused by
  `symexec.ts:996`, which constrains "the path to the wrap-free region" and leaves
  "wrap semantics" to layers A and B, which sample it.
* `control_flow`: five paragraphs, the fourth an EXIT for ranges to end at, the
  fifth the end of the program; the other three are empty or have one or two
  statements out of a list with every kind of statement in each position the
  rewrites treat apart: PERFORM with and without THRU, in a loop, in a branch, of
  a range another range is in; GO TO forward and to an exit, from THEN, ELSE and a
  nested IF. The gate admits about 1,840 of them. `MaxTests` = 3 conditions per
  run are enough for two nested branches inside a loop entered.
* `realize`: some eighty modules over two inputs, X in 0..30 and Y in 0..1.2 by
  tenths, so that every input can be compared with what a search found. Nine
  gates, one or more for each solver, times three computations; chains of gates
  as a loop unrolled leaves them; dead paths of both kinds; and a factor made as
  X * Y. The base case, from which witnesses start, is X = 4 and Y = 0.3; for the
  products it is also Y = 1.0 (the product is exact with Y held there), Y = 0.5, and
  zero for both. `MaxSolutions` = 2 is below what the domain holds, so the cap is met;
  `MaxRepairs` = 8 is the code's minimum; `Trouble` = 1 run that does not pass, at
  any place: with two, statuses of two sites go wrong independently.
* `layer_a`: nine generators of all four modes, up to three records or values of
  0..3; budget of eight runs, smaller than an exhaustive shrink needs, so that it
  runs out in some behaviours; two keys for up to three records and two attempts,
  so that a run is refused in some; two shrink targets for up to three failures; a
  count of 0.
* `data_flow`: 58 programs: two ways to read inputs, nine bodies with each
  statement kind and with flows that go in circles, three ways to print, three
  loops over a file, and one program that prints under no key. `MaxRounds` = 3: a
  circle through three variables has gone round once.

Runs that may legitimately stop (a command ends, a bounded number of runs is
used up) switch the deadlock check off; `replay_cache` and `diffexec` keep it.

### Fairness

* `Migrate`: `WF(Step)`. A run is one process, and each wait in it (docker,
  javac, the model) has a timeout or ends with the child. `Abort` needs none.
* `DiffExec`: `WF(Timeout)` and `WF(Judge)`: the timer of `spawnSync` and the
  harness's own computation. None for the program under test, which may hang.
* `SymPaths`, `PropGen`: `WF(Next)`: a synchronous call runs until it returns;
  that it does return is the property. A run of a case in `PropGen` ends by its
  timeout at the latest (`Finishes` of `DiffExec`).
* `VerifiedSelection`: `WF(End)`, implied by that of `Migrate` through the
  refinement, which `migrate` checks as the property `KeepsPromise`: a run that is not
  aborted ends.

### Findings

Places where the code and what the repository says of it differ, each a run that
TLC shows violated; the details, with the quoted lines, are in `PROJECT.json`.

1. `CrashNeverLeaks`: a program that outlived its timeout writes the output file
   after the next case's `rm`; that case, if it abends before OPEN OUTPUT, prints
   it. Layer B's PASS is still sound for a batch with nothing cut off before it
   (`PassIsEquivalence`).
2. `CasesHitTheirBoundary` with a product that has one input twice: `linearizeProduct`
   holds the other factors at the witness though one of them moves with the free
   input, so the case it makes for a half does not land on it, and the obligation
   is reported VERIFIED. It holds for all products of different inputs.

### Known divergences without a run of their own

Each can be reproduced by changing a line of a `.cfg` (a property added, or another
set of instances):

* `SameArtifact` (Pipeline, as an invariant of `MCPipeline.cfg`): a report about
  `candidate-a-r1`, or about the winner before it was migrated again, counts for
  `candidate-a`, because `checkTargetsArtifact` (`certify.ts:453`) looks for a
  substring of the command line; a miss is a gap, never a verdict. `certify.ts:140`
  says "Every layer report must demonstrably have tested the SAME artifact." What
  does hold is the last conjunct of `CertifiedRestsOnEvidence`.
* `CertifiedByExamination` (Pipeline, likewise): layer A with a count of 0
  (`propgen.ts:387`) and layer C with nothing realized (`symexec.ts:2805`) report
  PASS, and certify takes them as supporting; `certify.ts:51-54` says that a layer
  that examined nothing "can never be what certifies a module".
* `DeadIsDead` (SymPaths, with `Programs <- Overflow`): a store that overflows its field
  makes the capacity bound a contradiction, and the path is reported as proven dead
  though the program takes it (`symexec.ts:2258` against 2242). It is wrong only for
  runs that overflow (`DeadUnlessWrapped`).
* `NothingDropped` without `overflown` (the run `sym_paths`, program `Wrapping`): the exit
  of a loop is pruned when its constraint is constant and false (`symexec.ts:1367`); a
  count that wraps reaches the value all the same, and those cases are on no path and
  not on the truncated one's either, while `symexec.ts:1374` says that "the deeper
  input region is disclosed, never dropped".
* `SearchesMissNothing` (Realize, with `Modules <- Sunk`): for a truncation compared with
  a threshold of at most zero, the lower bound takes the inner value to be at least
  the threshold, though a truncated negative value is 0; X = 19 is on the path and
  the search starts at 20. `symexec.ts:1715` says "the bound never overshoots the
  smallest valid grid point".
* `NoBoundaryExists` (Realize, with `Modules <- Whole`, as an invariant): when a product
  is exact on every path with all factors but one held at the witness
  (`symexec.ts:2690-2700`), its site becomes NOT-APPLICABLE (2712) with the note that
  "the expression is exact at the target scale on every path; no rounding boundary
  exists" (2714), though other values of the held factors have one: X * Y with
  Y = 1.0 at the witnesses, and X = 13, Y = 0.5, which make 6.5. What holds is
  `ExemptionsAreProved`: no half among the inputs that leave the held factors as
  they are, which is all that the reason recorded for the path says, and none at all
  for a computation that is not a product of inputs.
* `DerivationCovered` (DataFlow, with `Programs <- TableProgram`): a table with a VALUE
  whose cells are stored into counts as a constant, because the target is collected
  with its subscript and looked up without (`staticflow.ts:91-107`, `117-122`).
* `CasesAreFiles` (PropGen, with `Generators <- Narrow`): a small draw of `genValue` goes
  up to 999 whatever the PICTURE (`propgen.ts:79`; `genRecordLine` takes it modulo the
  domain, 117); `propgen.ts:4-7` says that a field's "PICTURE clause defines the value
  domain".

* `SelectedCandidatePassed` (Benchmark, with `MCBenchmark.cfg`): the layer configs
  name candidate a, so when b wins, a CERTIFIED row rests on layers that tested a;
  `run-benchmark.mjs:258-260` says every run layer passed on the selected one.
* `CoveredIsTaken` (SymPaths, `Programs <- Count`): the coverage check
  (`symexec.ts:2774`) compares constraints and not the number of records, so a
  case can count for a path it does not take.
* `ValuesAreReal` and `Regular` with `Programs <- TwoLines`: two ACCEPTs into one field are both
  bound to the first line (`symexec.ts:763`, `1143`).
* `ValuesAreReal` and `Regular` with `Programs <- OtherView`: a field set through its other view
  keeps its old symbolic value unless it is in the set computed at
  `symexec.ts:2151`; see `docs/byte-window.md:155`. With `Programs <- LateWindow`:
  `collectWrites` (`symexec.ts:884`) has no case for a byte window, so a truncated
  loop does not forget what one wrote (comment at 876).
* `TreeIsProgram` (ControlFlow) with `Programs <- FallsOff`: `topLevelChain` falls
  from the last paragraph of the source into the hoisted bodies, so a program that
  ends without STOP RUN runs them once more in the tree;
  `ProLeapFrontend.java:1111-1116` says "Nothing falls into them: each is reached
  only by its own PERFORM".
* `RewritesTotal` (ControlFlow, as an invariant) with `Programs <- ExitsTwice`: the
  gate admits an early exit in both branches of an IF, and `eliminateExitGotos`
  declines it; `ProLeapFrontend.java:3251-3254` promises that the rewrites stay
  total.

And read in the code without a model: a path whose halves all lie behind
`maxBoundarySolutions` others, or fail a constraint, is reported as having "no on-grid
solution" (`symexec.ts:2654`), and `OnlyTheCapLosesHalves` says what is true instead; the
stub parser takes a verb it does not know into the condition of the IF before it
(`parser.ts:507`), where `parser.ts:10-12` says "Nothing is ever skipped silently";
ACCEPTs in both branches of one IF get
lines in the order of the text, though a run reads only one of them
(`symexec.ts:2099-2109`); a refused answer is not stored, so "never
hit the network twice" (`client.ts:5-7`) holds for stored answers only; fields of
laid-out records are not shrunk (`propgen.ts:358`, `docs/memory-layout.md:131-132`);
layer B's report is never held to the artifact under certification
(`certify.ts:162-169`), where `docs/audit-mode.md:80` says "Every layer report is still
checked to have tested the same artifact".

## 4. Proofs

TLC's runs are small instances; these hold for all values of the constants that
satisfy the named assumptions. tlapm checks every leaf.

**ReplayCacheProofs** (`TypeCorrect`, `ReplayCorrect`, `StoredAnswerStays`,
`TroubleTakesOverlap`).
`ReplayIsWhole` is about what processes hold; it follows from `StoredIsWhole`
(no run checks it, the proof does), that whatever the entry file holds is a complete answer to its key. Together with
the type invariant it is inductive: a process in the state between opening and
writing an entry holds an answer that passed `IsCompletion`. `TroubleNeedsOverlap`
names what is wrong at the end; `Untroubled` says what is so at every step of a
request nobody has disturbed: an entry is empty only while its one writer is about
to write it, a paid answer is stored or about to be, a stub likewise. The proof
splits a step into that of the one process at work on the key (`Alone`) and that of
a process at work on another (`OtherRequest`). The bounds on calls
and kills are guards only, so the proofs cover any number.

**MigrateProofs** (`TypeCorrect`, `SelectionVerified`, `NoEarlyGivingUp`,
`RepairsNeeded`, `PromiseKept`). `SelectionIsVerified`
speaks of the end of a run. The inductive invariant is

    IInv == TypeOK /\ Bookkeeping /\ FilesAgree /\ SelectionIsVerified

`FilesAgree`: a candidate the code would call a winner has source, class and
passing report of one text, and the candidate being evaluated has as much of
that as its label says. Since `Emit`, `Compile` and `Verify` write into the
directory of one candidate, this survives only because no candidate is evaluated
twice in a run, which is `Bookkeeping` (outcomes have distinct ids, in order of
rounds; what is pending has not been evaluated).

The course of the search is a second invariant on top of it,

    SInv == IInv /\ Failures /\ Covered /\ EndOfSearch /\ Needed

`Covered`: at any time every variant has a candidate of this round, a failure still
to be repaired in it, or a repair that was not answered; at the end of the search
that is `NoEarlyDefeat`. `Needed` says of each outcome, by its place in the sequence,
what it was made of and that nothing nearer was left over when it was begun; it is
stated of outcomes that may still change their result (the one being evaluated), so
it leaves their results out except where they are final.

`PromiseKept` is the safety part of the refinement that `migrate` checks as
`KeepsPromise`: initial states map to initial states of `VerifiedSelection`, and each
step to one of its steps or to a stutter. The steps that matter are `OpenSelection`,
which withdraws, and `WriteSelection`, which publishes: that the winner is among the
passed is `Bookkeeping`, that without one nobody passed is `EndOfSearch`, and that
what is written can be read is `WrittenIsSelection`. Any number of variants,
rounds, cases, earlier runs and aborts; assumptions: `Parameters` (the
counts are naturals, positive where the code needs it, `None` is no text),
`NoneIsNoId` and `NoneIsNoFile` (no file and a torn file are two things, and neither
is a selection).

**PipelineProofs** (`SelectionVerifiedThroughout`, `PipelineTyped`,
`CertificateRestsOnEvidence`). The commands beside migrate leave its variables
alone, so `IInv` holds throughout. On top of it

    EInv == Running /\ Reports /\ Collected /\ Dated /\ CertifiedRestsOnEvidence

A report is `UpToDate` if, should it claim that no run of migrate was in progress
while it was made and none has begun since, it is about the files as they are.
`Reports` says that of every report and every verifier at work, `Collected` of what
certify has read so far, together with what it knows of the winner; the certificate
is written out of that. What makes it inductive is that nothing but `Start` begins to
change the files, and that it counts. Assumption: `LayersKnown`, besides those of
migrate. `pipeline` checks the same with TLC under two runs of migrate.

**DiffExecProofs** (`TypeCorrect`, `PassMeansEquivalence`, `FalseAlarmFree`). Any
number of cases, of batches, of runs that hang and go on writing; any set of cases
that end abnormally. The two properties speak of finished batches, the invariant of
the batch in progress: `Undisputed` (while nothing was cut off, the container has
only the run the harness waits for, the output file is that run's own inode, and
what it says is the program's own), `Judged` (so each PASS of this batch was
deserved, and each that was deserved given), `CutShows` (a cut leaves a case of its
batch without a result, so the batch cannot pass), `Ended` (whatever was cut off, an
exit status is the program's). Assumptions: `Parameters`.

**BenchmarkProofs** (`TypeCorrect`, `RowFresh`). Any number of runs and candidates,
any step failing, a kill anywhere. `Fresh`: past `Clean` no artifact is of an earlier
run; `Unfailed`: as long as no step has failed, each step passed has left its
artifact of this run; `Kept`: the copy is that of the certificate. The row is made
of files, so it is these that have to be carried along. Assumptions: `Parameters`.

**PropGenProofs** (`TypeCorrect`, `CasesAreRealFiles`, `ReportTrue`,
`ShrunkIsMinimal`). Any generators, budgets, limits and sets of failing cases.
One step of the shrinker makes a file of a file (`TrialIsFile`) and one no larger
than the case generated (`TrialNoLarger`: the records kept, in their order, each no
more than the one it was made of; embeddings compose, so no induction over the
steps of a shrink is needed). `Searched` is the loop invariant behind
`LocallyMinimal`: in a round that has changed nothing, everything before the place
reached has been run and has passed, records first, then the candidates of each
field. Assumptions: `Resolved` (a resolved generator: naturals, min at most max,
numeric fields among the fields) and `Limits` (64 attempts and the number of keys
are positive). `CasesAreRealFiles` has a hypothesis, `WideEnough`: small draws fit into
the PICTURE. It is true of three digits and more; the code does not see to it, which
is the divergence named for `Narrow` above.

**SymPathsProofs** (`SplitCovers`, `SplitIsDisjoint`, `TypeCorrect`, `CasesAreKept`,
`ValuesAreCorrect`, `WitnessesAreOnPath`, `InfeasibleIsDead`). First one split, for a
condition of any length: the alternatives for a truth are satisfied exactly by the
inputs that give it that truth, and no input satisfies two. The argument takes the
first atom that decides, a least number; **LeastNat** has the lemma that one exists.

Then the exploration, of any set of programs, of any field size, bounds, number and
length of cases. `TypeCorrect` needs no premise. The four properties of section 3 do:
they are proved of behaviours in which `Regular` holds throughout
(`Spec /\ []Regular => []NothingDropped` and so on), because the code relies on it and
does not check it; programs that break it, and then break the property, are named
under the divergences (`TwoLines`, `OtherView`, `LateWindow`). That it is no empty
premise is what the run checks: `Regular` is an invariant of `sym_paths`, and fails
under a mutant of `collectWrites`. The inductive invariant is

    IInv == TypeInv /\ AllGood /\ NothingDropped

`TypeInv` is the full type of a path, the statements left and the loops in progress
among them, of which `TypeOK` is what a reader needs. `AllGood` says of every path,
finished or not, that it is

* `Sound`: a case that takes it without having lost digits meets its constraints;
* `Real`: what it knows of the fields, and of the count of a loop it is in, is so for
  the cases on it that meet them;
* `Witnessed`: as long as nothing on it was unknown, a case that meets the constraints
  and is long enough does take it;
* `Long`: a case on it has as many records as the path has read.

Each is needed for the next: `ValuesAreReal` is `Real`, but a split keeps `Witnessed` only
because the truth of a known atom is that of the program (`Real`) and the alternatives
cover (`SplitCovers`), and the pruned alternatives cost no case because a path is
`Sound`. `Succeeds` is the shape of every step: a path is replaced by paths that are good
if it was and that have its cases, except those that are disclosed or have wrapped. A
path the unroller gives up on is followed by whole runs of the program; what such a run
leaves alone is a lemma over its statements (any number of them), by the least
statement at which it would fail. Assumptions: `BoundsAssumption` (the bounds are
naturals) and `ProgramsAssumption` (a program is a finite tree of statements over the
fields, of at most `Depth` levels).

Each strengthening was first checked by TLC as an invariant of the component's run.

`TypeOK` of Benchmark and the strengthenings of the other invariants are proved and not
checked on every run. Only model-checked: liveness (`Finishes`, `Ends`, `ExplorationEnds`, the fairness
part of `KeepsPromise`), which is out of the prover's reach; `Regular`, which is about
the programs of a run and is false of some others; and the properties of ControlFlow,
DataFlow and Realize, with Lowering, ExactForms and Solvers below them: what they compute
recurses over paragraphs, flows and nested forms, and what a recursive definition
computes for every input takes an induction over data, which the provers cannot
instantiate.

## 5. Not modelled, and the plan

Left out for good: prompt texts, formatting of reports and certificates, hashes
and signatures (bytes and cryptography; that a hash identifies a source is
assumed by giving certificates the source itself), cost accounting, assess and
plan (reports over an IR), the dashboard (read-only), the JSON schema and its
validator (a function of one document), grammar and PICTURE parsing, the
Dockerfiles other than the wrapper.

Left out of what is modelled:

* Files other than `selection.json` and the cache entries are written in one step:
  the sources, classes and reports of candidates, the layer reports, the certificate.
  They are written in place too, and a kill in the middle leaves one that does not
  parse or compile, which whoever reads it next refuses. What the properties say of
  them they say of runs that have ended, and these have written each file they
  rest on again.
* `DataFlow`: ACCEPT below the top level, group MOVEs, more than one operand after a
  KEY=; a READ adds only the record's name to the targets. Initial values of
  variables that are stored into are facets of no flow, in the code as in the
  property, and conditions are not derivations. Failures of the extractor or of the
  config end the command and are left out, as is the normalisation of numerals.
* `Realize`: coefficients that are not decimal (the code gives such a path up), a
  trailing `/ literal` of a product, alphanumeric inputs, the encoding of records, the
  fallback for a direct input and its refusal for laid-out records. Forms are always
  exact here, so a constraint never answers "margin". Inputs of a form are tried in
  input order. The search for a witness is a heuristic in the code: nothing is claimed
  of a path without one.
* `Shrink`: the candidates for a value are those of a field without decimals;
  with decimals `simplify` (`propgen.ts:266-276`) also tries the value without them,
  and 1 and the fractions in steps of the field's scale.
* `PropGen`: digits and characters of values; that the configured min is at most
  max is assumed (`propgen.ts:156`). A run that broke (ERROR) may end otherwise
  when it is repeated.
* `Pipeline`: audit mode of `certify` (no selection: the Java is supplied, report B named
  on the command line), the toolchain and external-service disclosures.

Planned, in this order; each extends a run that exists where it can:

1. Proofs: what can be said of Realize, DataFlow and ControlFlow without an induction
   over data, once their recursions are recursive functions as those of SymPaths are.
2. Audit mode of `certify` beside the mode modelled.
3. The rest of the lowering in the ProLeap front end and its gates.
