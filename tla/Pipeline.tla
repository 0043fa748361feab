------------------------------- MODULE Pipeline -------------------------------
(***************************************************************************)
(* From a migration to its certificate: migrate (module Migrate), the      *)
(* verifier runs of layers A, C and D, and certify (cli/src/certify.ts).   *)
(*                                                                         *)
(* They are separate commands, run by hand or by a script, which share     *)
(* nothing but files: the output directory of migrate, one report file per *)
(* layer, and the certificate.  No file carries the hash of the class that *)
(* was tested, and nothing stops one command from running while another    *)
(* does, or on what an older run left behind.                              *)
(*                                                                         *)
(* A layer config names the candidate directory to test, so a verifier run *)
(* tests whatever candidate the config says, and the class (layer D: the   *)
(* source) that is there at the time.                                      *)
(***************************************************************************)
EXTENDS Migrate

CONSTANT Layer   \* the layers used: a subset of {"A", "C", "D"}
ASSUME LayersKnown == Layer \subseteq {"A", "C", "D"}

(***************************************************************************)
(* A layer report.  id is the candidate the config named; the rest of what *)
(* it says about the artifact is history: the sources of what was actually *)
(* read while it ran, the number of runs of migrate begun by then, whether *)
(* any was in progress meanwhile, and whether anything was examined.       *)
(***************************************************************************)
Verdicts(l) == CASE l = "A" -> {"PASS", "FAIL"}
                 [] l = "C" -> {"PASS", "FAIL", "DECLINED"}
                 [] l = "D" -> {"PASS", "FAIL", "NO-EVIDENCE"}
LayerReport == [verdict : {"PASS", "FAIL", "DECLINED", "NO-EVIDENCE"}, id : Id,
                texts : SUBSET Text, run : 0..MaxRuns, quiet : BOOLEAN,
                examined : BOOLEAN]
Evidence == [status : {"NOT_RUN", "DECLINED", "PASS", "FAIL"},
             report : LayerReport \cup {None}]

VARIABLES
    verifier,     \* verifier[l]: the run of layer l in progress
    layerReport,  \* layerReport[l]: the report file of layer l
    certifier,    \* the run of certify in progress
    certificate   \* certification.json

evidenceVars == <<verifier, layerReport, certifier, certificate>>
allVars == <<vars, evidenceVars>>

Verifying == [id : Id, texts : SUBSET Text, run : 0..MaxRuns, quiet : BOOLEAN]
Certifying == [unread : SUBSET Layer, winner : Id, b : Report \cup {None},
               clean : BOOLEAN, layers : [Layer -> Evidence]]
Certificate == [verdict : {"CERTIFIED", "NOT_CERTIFIED"}, winner : Id,
                target : Text \cup {None}, b : Report, clean : BOOLEAN,
                layers : [Layer -> Evidence], mismatch : BOOLEAN]

PipelineTypeOK ==
    /\ verifier \in [Layer -> Verifying \cup {None}]
    /\ layerReport \in [Layer -> LayerReport \cup {None}]
    /\ certifier \in Certifying \cup {None}
    /\ certificate \in Certificate \cup {None}

PipelineInit ==
    /\ Init
    /\ verifier = [l \in Layer |-> None]
    /\ layerReport = [l \in Layer |-> None]
    /\ certifier = None
    /\ certificate = None

(***************************************************************************)
(* migrate goes on, noticed by nobody (history: the others' quiet and      *)
(* clean flags are lowered when a run begins).                             *)
(***************************************************************************)
MigrateStep ==
    /\ Next
    /\ UNCHANGED <<layerReport, certificate>>
    /\ \/ /\ runs' = runs
          /\ UNCHANGED <<verifier, certifier>>
       \/ /\ runs' # runs
          /\ verifier' = [l \in Layer |->
               IF verifier[l] = None THEN None
               ELSE [verifier[l] EXCEPT !.quiet = FALSE]]
          /\ certifier' = IF certifier = None THEN None
                          ELSE [certifier EXCEPT !.clean = FALSE]

(***************************************************************************)
(* verify --layer l                                                        *)
(***************************************************************************)
\* MUTANT of Artifact: the config template has no room for the repair suffix.
UnrepairedArtifact(l, id) == IF l = "D" THEN java[id] ELSE class[<<id[1], 0>>]

\* Layer D reads the source, the others run the class.
Artifact(l, id) == IF l = "D" THEN java[id] ELSE class[id]

\* One run of a layer at a time (bound).
VerifyBegin(l, id) ==
    /\ verifier[l] = None
    /\ Artifact(l, id) # None
    /\ verifier' = [verifier EXCEPT ![l] =
         [id |-> id, texts |-> {Artifact(l, id)}, run |-> runs,
          quiet |-> Idle /\ complete]]
    /\ UNCHANGED <<vars, layerReport, certifier, certificate>>

\* Every case starts the program again: later ones may find another class.
VerifyCase(l) ==
    /\ l # "D" /\ verifier[l] # None
    /\ verifier' = [verifier EXCEPT ![l].texts =
                      @ \cup {Artifact(l, verifier[l].id)}]
    /\ UNCHANGED <<vars, layerReport, certifier, certificate>>

\* Nothing examined: layer D says so, layer C declines, but layer A run with
\* a count of 0 and layer C with no realized case say PASS.
VerifyEnd(l) ==
    /\ verifier[l] # None
    /\ \E v \in Verdicts(l), examined \in BOOLEAN :
         /\ v \in {"DECLINED", "NO-EVIDENCE"} => ~examined
         /\ v = "FAIL" \/ (v = "PASS" /\ l = "D") => examined
         /\ layerReport' = [layerReport EXCEPT ![l] =
              [verdict |-> v, id |-> verifier[l].id, texts |-> verifier[l].texts,
               run |-> verifier[l].run, quiet |-> verifier[l].quiet,
               examined |-> examined]]
    /\ verifier' = [verifier EXCEPT ![l] = None]
    /\ UNCHANGED <<vars, certifier, certificate>>

\* A run that fails leaves the report of an earlier one where it is.
VerifyFails(l) ==
    /\ verifier[l] # None
    /\ verifier' = [verifier EXCEPT ![l] = None]
    /\ UNCHANGED <<vars, layerReport, certifier, certificate>>

(***************************************************************************)
(* certify --selection                                                     *)
(***************************************************************************)
\* MUTANT of EvidenceOf: the verdict of the report taken over as it is.
EvidenceVerbatim(r) == [status |-> r.verdict, report |-> r]

\* evidence(): an absent or empty report is no evidence, and neither is a
\* declined one.
NotRun == [status |-> "NOT_RUN", report |-> None]
EvidenceOf(r) ==
    [status |-> CASE r.verdict = "NO-EVIDENCE" -> "NOT_RUN"
                  [] r.verdict = "DECLINED" -> "DECLINED"
                  [] r.verdict = "PASS" -> "PASS"
                  [] OTHER -> "FAIL",
     report |-> r]

\* checkTargetsArtifact looks for "candidate-<winner>" in the command line of
\* the report: a repair of the winner has it too.
References(id, w) == id[1] = w[1] /\ id[2] >= w[2]

\* The verdict on the layers: the winner's layer B, and those of A, C and D
\* that supplied evidence, of which there has to be one.
Supplied(layers) == {l \in Layer : layers[l].status \notin {"NOT_RUN", "DECLINED"}}

CertVerdict(b, layers) ==
    IF /\ b.verdict = "PASS"
       /\ Supplied(layers) # {}
       /\ \A l \in Supplied(layers) : layers[l].status = "PASS"
      THEN "CERTIFIED" ELSE "NOT_CERTIFIED"

\* A selection without a winner cannot be certified: certify refuses it, as it
\* refuses one it cannot parse and a layer report that is not there.
ReadSelection ==
    /\ certifier = None
    /\ Chosen /\ selection.winner # None
    /\ \E provided \in SUBSET {l \in Layer : layerReport[l] # None} :
         certifier' = [unread |-> provided, winner |-> selection.winner, b |-> None,
                clean |-> Idle /\ complete, layers |-> [l \in Layer |-> NotRun]]
    /\ UNCHANGED <<vars, verifier, layerReport, certificate>>

ReadReportB ==
    /\ certifier # None /\ certifier.b = None
    /\ certifier' = IF report[certifier.winner] = None THEN None
                    ELSE [certifier EXCEPT !.b = report[certifier.winner]]
    /\ UNCHANGED <<vars, verifier, layerReport, certificate>>

\* Layer A first, then C, then D, those that were given.
ReadLayer(l) ==
    /\ certifier # None /\ certifier.b # None
    /\ l \in certifier.unread
    /\ l = "A" \/ (l = "C" /\ "A" \notin certifier.unread) \/ certifier.unread = {"D"}
    /\ certifier' = [certifier EXCEPT !.unread = @ \ {l},
                                      !.layers[l] = EvidenceOf(layerReport[l])]
    /\ UNCHANGED <<vars, verifier, layerReport, certificate>>

\* The source is hashed, the certificate signed and written.  A layer that
\* does not name the winner is a gap, and gaps do not enter the verdict.
WriteCertificate ==
    /\ certifier # None /\ certifier.b # None /\ certifier.unread = {}
    /\ certificate' =
         [verdict |-> CertVerdict(certifier.b, certifier.layers),
          winner |-> certifier.winner, target |-> java[certifier.winner],
          b |-> certifier.b, clean |-> certifier.clean, layers |-> certifier.layers,
          mismatch |-> \E l \in Layer :
             /\ certifier.layers[l].report # None
             /\ certifier.layers[l].report.verdict # "DECLINED"
             /\ ~References(certifier.layers[l].report.id, certifier.winner)]
    /\ certifier' = None
    /\ UNCHANGED <<vars, verifier, layerReport>>

PipelineNext ==
    \/ MigrateStep
    \/ \E l \in Layer : \/ \E id \in Id : VerifyBegin(l, id)
                        \/ VerifyCase(l)
                        \/ VerifyEnd(l) \/ VerifyFails(l)
                        \/ ReadLayer(l)
    \/ ReadSelection \/ ReadReportB \/ WriteCertificate

PipelineSpec == PipelineInit /\ [][PipelineNext]_allVars

-----------------------------------------------------------------------------
Certified == certificate # None /\ certificate.verdict = "CERTIFIED"

\* What a certificate rests on.  A layer besides B passed, and none failed,
\* refused the module or found nothing to examine by its own account.  When it
\* was made from the selection of a run of migrate that ended, with no run begun
\* since, layer B is about the very source whose hash it carries; and so is a
\* layer that was run on the winner after that run of migrate ended.
CertifiedRestsOnEvidence ==
    Certified =>
        /\ \E l \in Layer : certificate.layers[l].status = "PASS"
        /\ certificate.clean =>
             certificate.b = [text |-> certificate.target, verdict |-> "PASS"]
        /\ \A l \in Layer :
             LET e == certificate.layers[l] IN
             /\ e.status = "PASS" => e.report.verdict = "PASS"
             /\ e.report # None => e.report.verdict # "FAIL"
             /\ /\ certificate.clean
                /\ e.report # None /\ e.report.quiet /\ e.report.run = runs
                /\ e.report.id = certificate.winner
                => e.report.texts = {certificate.target}

\* certify.ts (lines 140-141): "Every layer report must demonstrably have
\* tested the SAME artifact."
SameArtifact ==
    Certified /\ certificate.clean /\ ~certificate.mismatch =>
        \A l \in Layer : certificate.layers[l].status = "PASS" =>
            certificate.layers[l].report.texts = {certificate.target}

\* certify.ts (lines 51-54): "a layer that examined nothing can never be what
\* certifies a module".
CertifiedByExamination ==
    Certified => \E l \in Layer :
        certificate.layers[l].status = "PASS" /\ certificate.layers[l].report.examined
=============================================================================
