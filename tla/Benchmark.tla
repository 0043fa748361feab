------------------------------ MODULE Benchmark ------------------------------
(***************************************************************************)
(* The benchmark runner, benchmark/run-benchmark.mjs, on one module of     *)
(* modules.json: parse, validate, build the harness image, migrate,        *)
(* layers A, C and D, certify, verify-cert, each a process of its own that *)
(* may fail without stopping the ones after it, and at the end a row made  *)
(* of whatever files are there.                                            *)
(*                                                                         *)
(* The files outlive the run.  Each carries, as history, the number of the *)
(* run that wrote it (0: there is no such file).                           *)
(***************************************************************************)
EXTENDS Naturals

CONSTANTS
    Candidate,  \* the prompt variants of migrate
    Tested,     \* the one which the configs of layers A, C and D name
    None,       \* no winner
    MaxRuns     \* bound: how often the benchmark is run

ASSUME Parameters ==
    /\ Tested \in Candidate /\ None \notin Candidate
    /\ MaxRuns \in Nat

Layer == {"A", "C", "D"}
File == {"ir", "class", "selection", "cert", "copy"} \cup Layer

VARIABLES
    made,     \* made[f]: the run that wrote f; "class" is that of Tested
    winner,   \* what selection.json says
    says,     \* says[l]: the verdict in the report of layer l
    tests,    \* history: tests[l] is the run that made the class it tested
    certified,\* certified[f]: what the certificate f says
    pc,       \* the step to take next
    failed,   \* a step of this run has failed
    run,      \* runs started
    row       \* the row last written

files == <<made, winner, says, tests, certified>>
vars == <<files, pc, failed, run, row>>

Verdict == {"PASS", "FAIL", "NONE"}
Row == [verdict : {"CERTIFIED", "PIPELINE-FAILED"}, run : 1..MaxRuns,
        winner : Candidate \cup {None}, from : [File -> 0..MaxRuns],
        tests : [Layer -> 0..MaxRuns], sound : BOOLEAN]

TypeOK ==
    /\ made \in [File -> 0..MaxRuns]
    /\ winner \in Candidate \cup {None}
    /\ says \in [Layer -> Verdict]
    /\ tests \in [Layer -> 0..MaxRuns]
    /\ certified \in [{"cert", "copy"} -> BOOLEAN]
    /\ pc \in {"idle", "clean", "parse", "validate", "image", "migrate", "A", "C",
               "D", "certify", "verify-cert", "copy", "gather"}
    /\ failed \in BOOLEAN
    /\ run \in 0..MaxRuns
    /\ row \in Row \cup {None}

Init ==
    /\ made = [f \in File |-> 0]
    /\ winner = None
    /\ says = [l \in Layer |-> "NONE"]
    /\ tests = [l \in Layer |-> 0]
    /\ certified = [f \in {"cert", "copy"} |-> FALSE]
    /\ pc = "idle" /\ failed = FALSE /\ run = 0 /\ row = None

There(f) == made[f] # 0
Write(f) == made' = [made EXCEPT ![f] = run]
Pass(label) == pc' = label /\ failed' = failed
Fail(label) == pc' = label /\ failed' = TRUE

Begin ==
    /\ pc = "idle" /\ run < MaxRuns
    /\ run' = run + 1 /\ failed' = FALSE /\ pc' = "clean"
    /\ UNCHANGED <<files, row>>

\* A kill, or an exception in the runner itself.
Kill ==
    /\ pc # "idle" /\ pc' = "idle"
    /\ UNCHANGED <<files, failed, run, row>>

\* MUTANT of Stale: the selection, which lies elsewhere, is forgotten.
StaleReports == Layer \cup {"cert"}

\* What an earlier run left of these is removed before any step.  The IR, the
\* candidates and the copy of the certificate stay.
Stale == Layer \cup {"cert", "selection"}

Clean ==
    /\ pc = "clean"
    /\ made' = [f \in File |-> IF f \in Stale THEN 0 ELSE made[f]]
    /\ Pass("parse")
    /\ UNCHANGED <<winner, says, tests, certified, run, row>>

Parse ==
    /\ pc = "parse"
    /\ \/ Write("ir") /\ Pass("validate")
       \/ made' = made /\ Fail("validate")
    /\ UNCHANGED <<winner, says, tests, certified, run, row>>

\* ir-core and the JSON schema, two steps, neither of which writes anything.
Validate ==
    /\ pc = "validate"
    /\ \/ There("ir") /\ Pass("image")
       \/ Fail("image")
    /\ UNCHANGED <<files, run, row>>

\* docker build; with --skip-images the image of an earlier run is used.
Image ==
    /\ pc = "image"
    /\ Pass("migrate") \/ Fail("migrate")
    /\ UNCHANGED <<files, run, row>>

\* A run of migrate that ends writes selection.json, and succeeds if there is a
\* winner.  The candidate the layers will test is compiled anew or not; when
\* migrate breaks off, that may have happened too.
Migrate ==
    /\ pc = "migrate"
    /\ IF ~There("ir") THEN made' = made /\ winner' = winner /\ Fail("A")
       ELSE \E compiled \in BOOLEAN :
         LET rebuilt == IF compiled THEN [made EXCEPT !["class"] = run] ELSE made IN
         \/ /\ \E w \in Candidate \cup {None} :
                 /\ w = Tested => compiled
                 /\ winner' = w
                 /\ IF w = None THEN Fail("A") ELSE Pass("A")
            /\ made' = [rebuilt EXCEPT !["selection"] = run]
         \/ made' = rebuilt /\ winner' = winner /\ Fail("A")
    /\ UNCHANGED <<says, tests, certified, run, row>>

\* verify --layer l on the class of Tested, whatever run made it.  It succeeds
\* when it passes; NONE is a report of layer C or D that declines the module.
VerifyLayer(l, next) ==
    /\ pc = l
    /\ \/ \E v \in Verdict :
            /\ v = "PASS" => There("class")
            /\ v = "NONE" => l # "A"
            /\ Write(l)
            /\ says' = [says EXCEPT ![l] = v]
            /\ tests' = [tests EXCEPT ![l] = made["class"]]
            /\ IF v = "PASS" THEN Pass(next) ELSE Fail(next)
       \/ UNCHANGED <<made, says, tests>> /\ Fail(next)
    /\ UNCHANGED <<winner, certified, run, row>>

\* certify refuses to go on without a winner or without one of the reports.
Certify ==
    /\ pc = "certify"
    /\ IF There("selection") /\ winner # None /\ \A l \in Layer : There(l)
         THEN LET verdict == /\ \A l \in Layer : says[l] # "FAIL"
                             /\ \E l \in Layer : says[l] = "PASS" IN
              /\ Write("cert")
              /\ certified' = [certified EXCEPT !["cert"] = verdict]
              /\ IF verdict THEN Pass("verify-cert") ELSE Fail("verify-cert")
         ELSE made' = made /\ certified' = certified /\ Fail("verify-cert")
    /\ UNCHANGED <<winner, says, tests, run, row>>

VerifyCert ==
    /\ pc = "verify-cert"
    /\ \/ There("cert") /\ Pass("copy")
       \/ Fail("copy")
    /\ UNCHANGED <<files, run, row>>

\* The certificate is copied whenever there is one, also after a failed step.
Copy ==
    /\ pc = "copy"
    /\ IF There("cert")
         THEN /\ made' = [made EXCEPT !["copy"] = made["cert"]]
              /\ certified' = [certified EXCEPT !["copy"] = certified["cert"]]
         ELSE UNCHANGED <<made, certified>>
    /\ Pass("gather")
    /\ UNCHANGED <<winner, says, tests, run, row>>

\* The verdict of the row is the certificate's if all the artifacts are there,
\* but a failed step outweighs it.  (A certificate that is not CERTIFIED is a
\* failed step of its own.)
Readable == \A f \in Layer \cup {"selection", "cert"} : There(f)
RowVerdict ==
    IF Readable /\ certified["cert"] /\ ~failed THEN "CERTIFIED" ELSE "PIPELINE-FAILED"

Gather ==
    /\ pc = "gather"
    /\ row' = [verdict |-> RowVerdict, run |-> run,
               winner |-> IF Readable THEN winner ELSE None,
               from |-> [f \in File |-> IF Readable THEN made[f] ELSE 0],
               tests |-> tests, sound |-> ~failed]
    /\ Pass("idle")
    /\ UNCHANGED <<files, run>>

Next == \/ Begin \/ Kill
        \/ Clean \/ Parse \/ Validate \/ Image \/ Migrate
        \/ VerifyLayer("A", "C") \/ VerifyLayer("C", "D") \/ VerifyLayer("D", "certify")
        \/ Certify \/ VerifyCert \/ Copy \/ Gather

Spec == Init /\ [][Next]_vars

-----------------------------------------------------------------------------
\* "never as last run's leftover verdict" (run-benchmark.mjs, lines 77-79): no
\* row quotes a report, selection or certificate of an earlier run, however that
\* one ended.  A row that says CERTIFIED was made from an IR, a selection,
\* reports and a certificate of its own run, with no step failed; when the
\* winner is the candidate the layers are set to test, what they tested was
\* compiled in this run too; and the certificate kept for it is its own.
RowIsFresh ==
    row # None =>
        /\ \A f \in Layer \cup {"selection", "cert"} : row.from[f] \in {0, row.run}
        /\ row.verdict = "CERTIFIED" =>
             /\ \A f \in {"ir", "selection", "cert"} \cup Layer : row.from[f] = row.run
             /\ row.sound
             /\ row.winner = Tested => \A l \in Layer : row.tests[l] = row.run
             /\ pc = "idle" /\ row.run = run => made["copy"] = run /\ certified["copy"]

\* RESULTS.md (run-benchmark.mjs, lines 258-260): "CERTIFIED means layer B plus
\* every other run layer (A, C, D) passed on the selected candidate".
SelectedCandidatePassed ==
    row # None /\ row.verdict = "CERTIFIED" => row.winner = Tested
=============================================================================
