------------------------------- MODULE Migrate -------------------------------
(***************************************************************************)
(* legacymind migrate: runMigrate of cli/src/transpile/transpile.ts.       *)
(*                                                                         *)
(* A run asks the model (through the replay cache) for one translation per *)
(* prompt variant, compiles each, runs it against the legacy program       *)
(* (layer B, and the layer A gate when one is configured), selects the     *)
(* first that passes, and otherwise gives failed candidates back to the    *)
(* model for up to MaxRepairs rounds.  It writes into one output           *)
(* directory, which outlives it: a later run of the same module, for       *)
(* another model or after the source has changed, finds it as it is.       *)
(*                                                                         *)
(* Candidate <<c, r>> is the candidate-<c>-r1-...-r<r> of the code, the    *)
(* outcome of r successive repairs of variant c.                           *)
(***************************************************************************)
EXTENDS Naturals, FiniteSets, Sequences

CONSTANTS
    Variants,    \* how many prompt variants CANDIDATES lists
    Text,        \* Java sources a model may answer with
    None,        \* no file, no completion, no winner
    Torn,        \* a file that is empty or breaks off: nobody can parse it
    Cases,       \* how many selection cases the diff config has
    Gate,        \* whether --prop-config was given
    MaxRepairs,  \* --max-repairs
    MaxRuns      \* bound: runs of migrate on this directory

ASSUME Parameters ==
    /\ Variants \in Nat \ {0} /\ Cases \in Nat \ {0}
    /\ MaxRepairs \in Nat /\ MaxRuns \in Nat
    /\ Gate \in BOOLEAN
    /\ None \notin Text

Id == (1..Variants) \X (0..MaxRepairs)
ASSUME NoneIsNoId == None \notin Id
Selection == [winner : Id \cup {None}, text : Text \cup {None}]
ASSUME NoneIsNoFile == None # Torn /\ {None, Torn} \cap Selection = {}

Round(id) == id[2]
RepairOf(id) == <<id[1], id[2] + 1>>

(***************************************************************************)
(* A CandidateOutcome: passed counts the selection cases that passed, once *)
(* verified; gate is the layer A verdict, once asked for.                  *)
(***************************************************************************)
Outcome == [id : Id, text : Text, compiled : BOOLEAN,
            passed : 0..Cases, gate : {"none", "PASS", "FAIL"}]
Report == [text : Text, verdict : {"PASS", "FAIL"}]

VARIABLES
    java,        \* java[id]: the source in candidate-<id>/
    class,       \* class[id]: the source the class file there was compiled from
    report,      \* report[id]: candidate-<id>.diff-report.json
    selection,   \* selection.json: its winner (text is history: the source that
                 \* won; the file itself names only a path)
    pc,          \* where the run is
    pending,     \* candidates still to evaluate, or to repair, in this round
    answers,     \* the completions of the prompt variants
    current,     \* the candidate under evaluation
    outcomes,    \* outcomes of this run, in order of evaluation
    round,       \* repair round, 0 before the first
    winner,      \* the winner of this run
    runs,        \* history: runs started
    unanswered,  \* history: candidates of this run the model had no answer for
    complete     \* history: the last run started has written its selection

disk == <<java, class, report, selection>>
memory == <<pending, answers, current, outcomes, round, winner>>
vars == <<disk, pc, memory, runs, unanswered, complete>>

Idle == pc = "idle"
Ids == {outcomes[i].id : i \in DOMAIN outcomes}
OutcomeOf(id) == outcomes[CHOOSE i \in DOMAIN outcomes : outcomes[i].id = id]
Position(id) == CHOOSE i \in DOMAIN outcomes : outcomes[i].id = id

TypeOK ==
    /\ java \in [Id -> Text \cup {None}]
    /\ class \in [Id -> Text \cup {None}]
    /\ report \in [Id -> Report \cup {None}]
    /\ selection \in Selection \cup {None, Torn}
    /\ pc \in {"idle", "resolve", "next", "emit", "compile", "verify", "gate",
               "save", "write"}
    /\ pending \subseteq Id
    /\ answers \in [1..Variants -> Text \cup {None}]
    /\ current \in [id : Id, text : Text] \cup {None}
    /\ outcomes \in Seq(Outcome)
    /\ round \in 0..MaxRepairs
    /\ winner \in Id \cup {None}
    /\ runs \in 0..MaxRuns
    /\ unanswered \subseteq Id
    /\ complete \in BOOLEAN

Forget ==
    /\ pending' = {} /\ answers' = [c \in 1..Variants |-> None]
    /\ current' = None /\ outcomes' = <<>> /\ round' = 0 /\ winner' = None

Init ==
    /\ java = [id \in Id |-> None] /\ class = java /\ report = java
    /\ selection = None
    /\ pc = "idle"
    /\ pending = {} /\ answers = [c \in 1..Variants |-> None]
    /\ current = None /\ outcomes = <<>> /\ round = 0 /\ winner = None
    /\ runs = 0 /\ unanswered = {} /\ complete = TRUE

Go(label) == pc' = label

(***************************************************************************)
(* A run begins.                                                           *)
(***************************************************************************)
\* MUTANT of Start: what an earlier run selected is removed.
StartClean ==
    /\ Idle /\ runs < MaxRuns
    /\ runs' = runs + 1
    /\ selection' = None
    /\ unanswered' = {} /\ complete' = FALSE
    /\ Go("resolve")
    /\ UNCHANGED <<java, class, report, memory>>

Start ==
    /\ Idle /\ runs < MaxRuns
    /\ runs' = runs + 1
    /\ unanswered' = {} /\ complete' = FALSE
    /\ Go("resolve")
    /\ UNCHANGED <<disk, memory>>

\* It ends early: an exception nobody catches, an exit with code 2, a kill.
\* Nothing is cleaned up.
Abort ==
    /\ ~Idle
    /\ Go("idle")
    /\ Forget
    /\ UNCHANGED <<disk, runs, unanswered, complete>>

\* completeWithCache for every variant: all of them are asked before the run
\* gives up on the first one missing, and nothing is written until all answer.
Resolve ==
    /\ pc = "resolve"
    /\ answers' \in [1..Variants -> Text]
    /\ pending' = {<<c, 0>> : c \in 1..Variants}
    /\ Go("next")
    /\ UNCHANGED <<disk, current, outcomes, round, winner, runs, unanswered, complete>>

(***************************************************************************)
(* evaluateCandidate                                                       *)
(***************************************************************************)
Begin(id, t) ==
    /\ current' = [id |-> id, text |-> t]
    /\ outcomes' = Append(outcomes, [id |-> id, text |-> t, compiled |-> FALSE,
                                     passed |-> 0, gate |-> "none"])
    /\ Go("emit")

Emit ==
    /\ pc = "emit"
    /\ java' = [java EXCEPT ![current.id] = current.text]
    /\ Go("compile")
    /\ UNCHANGED <<class, report, selection, memory, runs, unanswered, complete>>

\* MUTANT of Compile: a refusal of javac is not heeded.
CompileHeedless ==
    /\ pc = "compile"
    /\ outcomes' = [outcomes EXCEPT ![Len(outcomes)].compiled = TRUE]
    /\ Go("verify")
    /\ class' \in {class, [class EXCEPT ![current.id] = java[current.id]]}
    /\ UNCHANGED <<java, report, selection, pending, answers, current, round,
                   winner, runs, unanswered, complete>>

\* javac: the class of an earlier run stays when the new source is refused.
Compile ==
    /\ pc = "compile"
    /\ \/ /\ class' = [class EXCEPT ![current.id] = java[current.id]]
          /\ outcomes' = [outcomes EXCEPT ![Len(outcomes)].compiled = TRUE]
          /\ Go("verify")
       \/ /\ UNCHANGED <<class, outcomes>>
          /\ Go("next")
    /\ UNCHANGED <<java, report, selection, pending, answers, current, round,
                   winner, runs, unanswered, complete>>

\* runDiffCases on the class, and its report.
Verify ==
    /\ pc = "verify"
    /\ \E n \in 0..Cases :
         LET verdict == IF n = Cases THEN "PASS" ELSE "FAIL" IN
         /\ outcomes' = [outcomes EXCEPT ![Len(outcomes)].passed = n]
         /\ report' = [report EXCEPT ![current.id] =
                         [text |-> class[current.id], verdict |-> verdict]]
         /\ Go(IF Gate /\ verdict = "PASS" THEN "gate" ELSE "next")
    /\ UNCHANGED <<java, class, selection, pending, answers, current, round,
                   winner, runs, unanswered, complete>>

\* The layer A gate, on the same class.
LayerAGate ==
    /\ pc = "gate"
    /\ \E verdict \in {"PASS", "FAIL"} :
         outcomes' = [outcomes EXCEPT ![Len(outcomes)].gate = verdict]
    /\ Go("next")
    /\ UNCHANGED <<disk, pending, answers, current, round, winner, runs,
                   unanswered, complete>>

IsWinner(o) ==
    /\ o.compiled
    /\ o.passed = Cases
    /\ Gate => o.gate = "PASS"

(***************************************************************************)
(* The candidates of a round, the selection, and the rounds                *)
(***************************************************************************)
Winners == {i \in DOMAIN outcomes : IsWinner(outcomes[i])}
\* MUTANT of FailedIn: what does not compile is not worth repairing.
CompiledFailures(r) == {outcomes[i].id : i \in
    {j \in DOMAIN outcomes \ Winners :
        Round(outcomes[j].id) = r /\ outcomes[j].compiled}}

FailedIn(r) == {outcomes[i].id : i \in
                  {j \in DOMAIN outcomes \ Winners : Round(outcomes[j].id) = r}}

\* The prompt variants are evaluated in order, all of them.
Evaluate ==
    /\ pc = "next" /\ round = 0
    /\ \E id \in pending :
         /\ \A other \in pending : id[1] <= other[1]
         /\ Begin(id, answers[id[1]])
         /\ pending' = pending \ {id}
    /\ UNCHANGED <<disk, answers, round, winner, runs, unanswered, complete>>

\* Parents are repaired nearest miss first; the sort is stable.
Before(x, y) ==
    LET a == OutcomeOf(x) b == OutcomeOf(y) IN
    \/ a.compiled /\ ~b.compiled
    \/ a.compiled = b.compiled /\ a.passed > b.passed
    \/ a.compiled = b.compiled /\ a.passed = b.passed /\ Position(x) < Position(y)

\* MUTANT of Repair: the search is not ended by a repair that wins.
RepairOn ==
    /\ pc = "next" /\ round > 0
    /\ \E parent \in pending :
         /\ \A other \in pending \ {parent} : Before(parent, other)
         /\ pending' = pending \ {parent}
         /\ \E t \in Text : Begin(RepairOf(parent), t)
    /\ UNCHANGED <<disk, answers, round, winner, runs, unanswered, complete>>

\* MUTANT of Repair: a missing repair, still missing, is asked for again.
RepairRetried ==
    /\ pc = "next" /\ round > 0 /\ Winners = {}
    /\ \E parent \in pending :
         /\ \A other \in pending \ {parent} : Before(parent, other)
         /\ \/ /\ RepairOf(parent) \notin unanswered
               /\ \E t \in Text : Begin(RepairOf(parent), t)
               /\ pending' = pending \ {parent}
               /\ UNCHANGED unanswered
            \/ /\ unanswered' = unanswered \cup {RepairOf(parent)}
               /\ UNCHANGED <<pc, current, outcomes, pending>>
    /\ UNCHANGED <<disk, answers, round, winner, runs, complete>>

\* The model is asked to repair one failed parent.  A repair that is missing
\* from the cache is passed over.
Repair ==
    /\ pc = "next" /\ round > 0 /\ Winners = {}
    /\ \E parent \in pending :
         /\ \A other \in pending \ {parent} : Before(parent, other)
         /\ pending' = pending \ {parent}
         /\ \/ /\ \E t \in Text : Begin(RepairOf(parent), t)
               /\ UNCHANGED unanswered
            \/ /\ unanswered' = unanswered \cup {RepairOf(parent)}
               /\ UNCHANGED <<pc, current, outcomes>>
    /\ UNCHANGED <<disk, answers, round, winner, runs, complete>>

\* A repair that wins ends the search at once, a variant that wins when all
\* have been evaluated: the first in order is selected.
Win ==
    /\ pc = "next" /\ Winners # {}
    /\ round = 0 => pending = {}
    /\ winner' = outcomes[CHOOSE i \in Winners : \A j \in Winners : i <= j].id
    /\ Go("save")
    /\ UNCHANGED <<disk, pending, answers, current, outcomes, round, runs,
                   unanswered, complete>>

\* MUTANT of NextRound: one round too many.
NextRoundOver ==
    /\ pc = "next" /\ Winners = {} /\ pending = {} /\ round <= MaxRepairs
    /\ round' = round + 1
    /\ pending' = FailedIn(round)
    /\ UNCHANGED <<disk, pc, answers, current, outcomes, winner, runs,
                   unanswered, complete>>

\* Without one, the failures of this round are the parents of the next.
NextRound ==
    /\ pc = "next" /\ Winners = {} /\ pending = {} /\ round < MaxRepairs
    /\ round' = round + 1
    /\ pending' = FailedIn(round)
    /\ UNCHANGED <<disk, pc, answers, current, outcomes, winner, runs,
                   unanswered, complete>>

GiveUp ==
    /\ pc = "next" /\ Winners = {} /\ pending = {} /\ round = MaxRepairs
    /\ Go("save")
    /\ UNCHANGED <<disk, memory, runs, unanswered, complete>>

\* selection.json is written last, in place: opening it empties it.
OpenSelection ==
    /\ pc = "save"
    /\ selection' = Torn
    /\ Go("write")
    /\ UNCHANGED <<java, class, report, memory, runs, unanswered, complete>>

\* It is whole when all of it is written; the run exits with 0 or 1.
WriteSelection ==
    /\ pc = "write"
    /\ selection' = [winner |-> winner,
                     text |-> IF winner = None THEN None
                              ELSE OutcomeOf(winner).text]
    /\ complete' = TRUE
    /\ Go("idle")
    /\ Forget
    /\ UNCHANGED <<java, class, report, runs, unanswered>>

Step == \/ Resolve \/ Evaluate \/ Emit \/ Compile \/ Verify \/ LayerAGate
        \/ Repair \/ Win \/ NextRound \/ GiveUp \/ OpenSelection \/ WriteSelection
Next == Start \/ Step \/ Abort

\* A run that is not killed keeps going: every wait in it has a timeout.
Spec == Init /\ [][Next]_vars /\ WF_vars(Step)

-----------------------------------------------------------------------------
\* When a run has written its selection and none was started since, the file
\* can be read, and what the output directory holds of the winner is one and the
\* same source: the file, the class, and the report, and the report passed.
Chosen == selection \notin {None, Torn}
SelectionIsVerified ==
    /\ complete => selection # Torn
    /\ complete /\ Chosen /\ selection.winner # None =>
        LET w == selection.winner IN
        /\ java[w] = selection.text
        /\ class[w] = selection.text
        /\ report[w] = [text |-> selection.text, verdict |-> "PASS"]

\* "migrate" is never content with less than it could have had: the search
\* ends without a winner only when the lineage of every variant has failed
\* down to the last round or to a repair nobody has answered.
NoEarlyDefeat ==
    pc = "save" /\ winner = None =>
        \A c \in 1..Variants : \E r \in 0..MaxRepairs :
            /\ <<c, r>> \in Ids
            /\ ~IsWinner(OutcomeOf(<<c, r>>))
            /\ r = MaxRepairs \/ <<c, r + 1>> \in unanswered

\* Every repair is of a candidate that had failed, in the round after it; no
\* candidate is evaluated twice, none is repaired once a variant has passed,
\* and parents of one round are taken nearest miss first.
RepairsAreNeeded ==
    \A i \in DOMAIN outcomes :
        LET id == outcomes[i].id IN
        /\ Position(id) = i
        /\ Round(id) > 0 =>
             \E j \in 1..(i - 1) : /\ RepairOf(outcomes[j].id) = id
                                   /\ ~IsWinner(outcomes[j])
        /\ \A j \in 1..(i - 1) :
             LET before == outcomes[j].id IN
             /\ Round(before) <= Round(id)
             /\ Round(id) > 0 => ~IsWinner(outcomes[j])
             /\ Round(id) > 0 /\ Round(before) = Round(id) =>
                  Before(<<before[1], Round(id) - 1>>, <<id[1], Round(id) - 1>>)

-----------------------------------------------------------------------------
(***************************************************************************)
(* The refinement: a candidate counts as tried when its evaluation is over *)
(* and as passed when the code would call it a winner.                     *)
(***************************************************************************)
Evaluating == pc \in {"emit", "compile", "verify", "gate"}
Tried == {outcomes[i].id : i \in
            {j \in DOMAIN outcomes : Evaluating => j < Len(outcomes)}}
Published == IF Chosen THEN {selection.winner} ELSE {}
Stage == IF Idle THEN "closed" ELSE IF pc = "write" THEN "publishing" ELSE "open"

Promise == INSTANCE VerifiedSelection WITH
    stage <- Stage, tried <- Tried,
    passed <- {outcomes[i].id : i \in Winners}, published <- Published

\* migrate implements VerifiedSelection, its fairness included: a run that has
\* begun is ended.
KeepsPromise == Promise!Spec
=============================================================================
