---------------------------- MODULE PipelineProofs ----------------------------
(***************************************************************************)
(* What a certificate rests on, for any number of candidates, of runs of   *)
(* migrate and of layers, whichever commands run beside one another and in *)
(* whatever order.                                                         *)
(*                                                                         *)
(* The commands share files that carry no hash, so all there is to go by   *)
(* is what the history variables say: a report is about the files as they  *)
(* are if no run of migrate was in progress while it was made and none has *)
(* begun since (UpToDate), and so is what a certificate under way has read  *)
(* (Collected).  That the files are then one source is the theorem of      *)
(* MigrateProofs on selections, which the other commands do not disturb.   *)
(***************************************************************************)
EXTENDS Pipeline, MigrateProofs

LEMMA MigrateUndisturbed == PipelineSpec => Init /\ [][Next]_vars
<1>1. PipelineInit => Init
  BY DEF PipelineInit
<1>2. [PipelineNext]_allVars => [Next]_vars
  BY DEF PipelineNext, MigrateStep, VerifyBegin, VerifyCase, VerifyEnd, VerifyFails,
     ReadSelection, ReadReportB, ReadLayer, WriteCertificate, allVars
<1> QED
  BY <1>1, <1>2, PTL DEF PipelineSpec

\* A selection remains one verified source beside all the other commands.
THEOREM SelectionVerifiedThroughout == PipelineSpec => []SelectionIsVerified
<1>1. IInv => SelectionIsVerified
  BY DEF IInv
<1> QED
  BY <1>1, MigrateUndisturbed, IInvHolds, PTL

-----------------------------------------------------------------------------
(***************************************************************************)
(* Types                                                                   *)
(***************************************************************************)
\* EvidenceOf, whatever the report is.
LEMMA EvidenceIs ==
    ASSUME NEW r
    PROVE  /\ EvidenceOf(r).report = r
           /\ EvidenceOf(r).status \in {"NOT_RUN", "DECLINED", "PASS", "FAIL"}
           /\ EvidenceOf(r).status = "PASS" <=> r.verdict = "PASS"
           /\ r.verdict = "FAIL" => EvidenceOf(r).status = "FAIL"
<1>1. EvidenceOf(r).status =
        IF r.verdict = "NO-EVIDENCE" THEN "NOT_RUN"
        ELSE IF r.verdict = "DECLINED" THEN "DECLINED"
        ELSE IF r.verdict = "PASS" THEN "PASS" ELSE "FAIL"
  BY DEF EvidenceOf
<1> QED
  BY <1>1 DEF EvidenceOf

LEMMA ArtifactIs ==
    ASSUME TypeOK, NEW l \in Layer, NEW id \in Id
    PROVE  Artifact(l, id) \in Text \cup {None}
BY DEF TypeOK, Artifact

LEMMA VerdictsAre ==
    ASSUME NEW l \in Layer
    PROVE  Verdicts(l) \subseteq {"PASS", "FAIL", "DECLINED", "NO-EVIDENCE"}
BY LayersKnown DEF Verdicts

\* What has once been written is written over, never removed.
LEMMA ArtifactsStay ==
    ASSUME TypeOK, InHand, [Next]_vars, NEW l \in Layer, NEW id \in Id,
           Artifact(l, id) \in Text
    PROVE  Artifact(l, id)' \in Text
<1> USE DEF Artifact, disk, memory
<1>1. CASE Emit
  BY <1>1 DEF Emit, TypeOK, InHand, Evaluating
<1>2. CASE Compile
  <2>1. java[current.id] \in Text
    BY <1>2 DEF Compile, InHand, Evaluating
  <2> QED
    BY <1>2, <2>1 DEF Compile, TypeOK
<1>3. CASE UNCHANGED <<java, class>>
  BY <1>3
<1> QED
  BY <1>1, <1>2, <1>3 DEF Next, Step, vars, Start, Abort, Resolve, Evaluate, Verify,
     LayerAGate, Repair, Win, NextRound, GiveUp, OpenSelection, WriteSelection

\* What a verifier runs is there.
Running == \A l \in Layer : verifier[l] # None => Artifact(l, verifier[l].id) \in Text

LEMMA RunningStep ==
    ASSUME TypeOK, InHand, PipelineTypeOK, Running, [PipelineNext]_allVars
    PROVE  Running'
<1>1. CASE UNCHANGED allVars
  BY <1>1 DEF allVars, evidenceVars, vars, disk, Running, Artifact
<1>2. CASE MigrateStep
  <2>1. ASSUME NEW l \in Layer, verifier'[l] # None
        PROVE  verifier[l] # None /\ verifier[l] \in Verifying /\ verifier'[l].id = verifier[l].id
    BY <1>2, <2>1 DEF MigrateStep, PipelineTypeOK, Verifying
  <2>2. ASSUME NEW l \in Layer, verifier'[l] # None
        PROVE  (Artifact(l, verifier[l].id) \in Text)'
    <3> PICK id \in Id : id = verifier[l].id
      BY <2>1, <2>2 DEF Verifying
    <3>1. Artifact(l, id)' \in Text
      BY <1>2, <2>1, <2>2, ArtifactsStay DEF Running, MigrateStep
    <3> QED
      BY <2>1, <2>2, <3>1 DEF Artifact
  <2> QED
    BY <2>2 DEF Running
<1>3. ASSUME NEW l \in Layer, NEW id \in Id, VerifyBegin(l, id) PROVE Running'
  <2>1. Artifact(l, id) \in Text
    BY <1>3, ArtifactIs DEF VerifyBegin
  <2>2. verifier'[l].id = id /\ \A k \in Layer \ {l} : verifier'[k] = verifier[k]
    BY <1>3 DEF VerifyBegin, PipelineTypeOK
  <2> QED
    BY <1>3, <2>1, <2>2 DEF VerifyBegin, vars, disk, Running, Artifact
<1>4. ASSUME NEW l \in Layer, VerifyCase(l) PROVE Running'
  <2>1. verifier'[l].id = verifier[l].id /\ \A k \in Layer \ {l} : verifier'[k] = verifier[k]
    BY <1>4 DEF VerifyCase, PipelineTypeOK, Verifying
  <2> QED
    BY <1>4, <2>1 DEF VerifyCase, vars, disk, Running, Artifact
<1>5. ASSUME NEW l \in Layer, VerifyEnd(l) \/ VerifyFails(l) PROVE Running'
  <2>1. \A k \in Layer : verifier'[k] = IF k = l THEN None ELSE verifier[k]
    BY <1>5 DEF VerifyEnd, VerifyFails, PipelineTypeOK
  <2> QED
    BY <1>5, <2>1 DEF VerifyEnd, VerifyFails, vars, disk, Running, Artifact
<1>6. ASSUME UNCHANGED <<vars, verifier>> PROVE Running'
  BY <1>6 DEF vars, disk, Running, Artifact
<1> QED
  BY <1>1, <1>2, <1>3, <1>4, <1>5, <1>6
     DEF PipelineNext, ReadSelection, ReadReportB, ReadLayer, WriteCertificate

LEMMA PipelineTypeStep ==
    ASSUME TypeOK, PipelineTypeOK, Running, [PipelineNext]_allVars
    PROVE  PipelineTypeOK'
<1>1. CASE UNCHANGED allVars
  BY <1>1 DEF allVars, evidenceVars, PipelineTypeOK
<1>2. CASE MigrateStep
  <2>1. CASE UNCHANGED <<verifier, certifier>>
    BY <1>2, <2>1 DEF MigrateStep, PipelineTypeOK
  <2>2. CASE /\ verifier' = [l \in Layer |->
                  IF verifier[l] = None THEN None
                  ELSE [verifier[l] EXCEPT !.quiet = FALSE]]
             /\ certifier' = IF certifier = None THEN None
                             ELSE [certifier EXCEPT !.clean = FALSE]
    <3>1. verifier' \in [Layer -> Verifying \cup {None}]
      BY <2>2 DEF PipelineTypeOK, Verifying
    <3>2. certifier' \in Certifying \cup {None}
      BY <2>2 DEF PipelineTypeOK, Certifying
    <3> QED
      BY <1>2, <3>1, <3>2 DEF MigrateStep, PipelineTypeOK
  <2> QED
    BY <1>2, <2>1, <2>2 DEF MigrateStep
<1>3. ASSUME NEW l \in Layer, NEW id \in Id, VerifyBegin(l, id) PROVE PipelineTypeOK'
  <2>1. Artifact(l, id) \in Text /\ runs \in 0..MaxRuns /\ (Idle /\ complete) \in BOOLEAN
    BY <1>3, ArtifactIs DEF VerifyBegin, TypeOK
  <2>2. [id |-> id, texts |-> {Artifact(l, id)}, run |-> runs, quiet |-> Idle /\ complete]
          \in Verifying
    BY <2>1 DEF Verifying
  <2> QED
    BY <1>3, <2>2 DEF VerifyBegin, PipelineTypeOK
<1>4. ASSUME NEW l \in Layer, VerifyCase(l) PROVE PipelineTypeOK'
  <2>1. verifier[l] \in Verifying /\ Artifact(l, verifier[l].id) \in Text
    BY <1>4 DEF VerifyCase, PipelineTypeOK, Running
  <2>2. [verifier[l] EXCEPT !.texts = @ \cup {Artifact(l, verifier[l].id)}] \in Verifying
    BY <2>1 DEF Verifying
  <2> QED
    BY <1>4, <2>2 DEF VerifyCase, PipelineTypeOK
<1>5. ASSUME NEW l \in Layer, VerifyEnd(l) PROVE PipelineTypeOK'
  <2>1. PICK v \in Verdicts(l), examined \in BOOLEAN :
          layerReport' = [layerReport EXCEPT ![l] =
            [verdict |-> v, id |-> verifier[l].id, texts |-> verifier[l].texts,
             run |-> verifier[l].run, quiet |-> verifier[l].quiet, examined |-> examined]]
    BY <1>5 DEF VerifyEnd
  <2>2. verifier[l] \in Verifying
    BY <1>5 DEF VerifyEnd, PipelineTypeOK
  <2>3. [verdict |-> v, id |-> verifier[l].id, texts |-> verifier[l].texts,
         run |-> verifier[l].run, quiet |-> verifier[l].quiet, examined |-> examined]
          \in LayerReport
    BY <2>2, VerdictsAre DEF Verifying, LayerReport
  <2> QED
    BY <1>5, <2>1, <2>3 DEF VerifyEnd, PipelineTypeOK
<1>6. ASSUME NEW l \in Layer, VerifyFails(l) PROVE PipelineTypeOK'
  BY <1>6 DEF VerifyFails, PipelineTypeOK
<1>7. ASSUME NEW l \in Layer, ReadLayer(l) PROVE PipelineTypeOK'
  <2>1. certifier \in Certifying /\ layerReport[l] \in LayerReport \cup {None}
    BY <1>7 DEF ReadLayer, PipelineTypeOK
  <2>2. EvidenceOf(layerReport[l]) \in Evidence
    BY <2>1 DEF EvidenceOf, Evidence
  <2>3. [certifier EXCEPT !.unread = @ \ {l}, !.layers[l] = EvidenceOf(layerReport[l])]
          \in Certifying
    BY <2>1, <2>2 DEF Certifying
  <2> QED
    BY <1>7, <2>3 DEF ReadLayer, PipelineTypeOK
<1>8. CASE ReadSelection
  <2>1. PICK provided \in SUBSET {l \in Layer : layerReport[l] # None} :
         certifier' = [unread |-> provided, winner |-> selection.winner, b |-> None,
                clean |-> Idle /\ complete, layers |-> [l \in Layer |-> NotRun]]
    BY <1>8 DEF ReadSelection
  <2>2. selection.winner \in Id /\ NotRun \in Evidence
    BY <1>8 DEF ReadSelection, Chosen, Selection, TypeOK, NotRun, Evidence
  <2>3. certifier' \in Certifying
    BY <2>1, <2>2 DEF Certifying
  <2> QED
    BY <1>8, <2>3 DEF ReadSelection, PipelineTypeOK
<1>9. CASE ReadReportB
  <2>1. certifier \in Certifying /\ report[certifier.winner] \in Report \cup {None}
    BY <1>9 DEF ReadReportB, PipelineTypeOK, Certifying, TypeOK
  <2>2. [certifier EXCEPT !.b = report[certifier.winner]] \in Certifying
    BY <2>1 DEF Certifying
  <2> QED
    BY <1>9, <2>2 DEF ReadReportB, PipelineTypeOK
<1>10. CASE WriteCertificate
  <2>1. certifier \in Certifying /\ certifier.b \in Report
        /\ java[certifier.winner] \in Text \cup {None}
    BY <1>10 DEF WriteCertificate, PipelineTypeOK, Certifying, TypeOK
  <2>2. CertVerdict(certifier.b, certifier.layers) \in {"CERTIFIED", "NOT_CERTIFIED"}
    BY DEF CertVerdict
  <2>3. certificate' \in Certificate
    BY <1>10, <2>1, <2>2 DEF WriteCertificate, Certificate, Certifying
  <2> QED
    BY <1>10, <2>3 DEF WriteCertificate, PipelineTypeOK
<1> QED
  BY <1>1, <1>2, <1>3, <1>4, <1>5, <1>6, <1>7, <1>8, <1>9, <1>10 DEF PipelineNext
-----------------------------------------------------------------------------
(***************************************************************************)
(* Evidence                                                                *)
(***************************************************************************)
\* A verifier run or report r of layer l: if nothing was in progress meanwhile
\* and nothing begun since, it is about the artifact as it is now.
UpToDate(l, r) ==
    /\ r.run <= runs
    /\ r.quiet /\ r.run = runs => Idle /\ complete /\ r.texts = {Artifact(l, r.id)}

\* What certify has read: of a layer, what evidence() makes of a report; of the
\* files, the winner of a selection that stands and its layer B report.
Collected ==
    certifier # None =>
        /\ \A l \in Layer :
             LET e == certifier.layers[l] IN
             /\ e = NotRun \/ e = EvidenceOf(e.report)
             /\ e.report # None => UpToDate(l, e.report)
        /\ certifier.clean =>
             /\ Idle /\ complete /\ Chosen /\ selection.winner = certifier.winner
             /\ certifier.b # None => certifier.b = report[certifier.winner]

Reports ==
    \A l \in Layer : /\ verifier[l] # None => UpToDate(l, verifier[l])
                     /\ layerReport[l] # None => UpToDate(l, layerReport[l])

\* No certificate rests on a run that has not begun yet.
Dated ==
    certificate # None => \A l \in Layer :
        LET r == certificate.layers[l].report IN r # None => r.run <= runs

EInv == Running /\ Reports /\ Collected /\ Dated /\ CertifiedRestsOnEvidence

\* A step of migrate leaves a report up to date, or not claiming to be.
LEMMA UpToDateStays ==
    ASSUME TypeOK, TypeOK', Next, NEW l \in Layer, NEW r, r.run \in Nat, UpToDate(l, r)
    PROVE  UpToDate(l, r)'
<1>1. runs \in Nat /\ runs' \in Nat
  BY Parameters DEF TypeOK
<1>2. CASE Start
  BY <1>1, <1>2 DEF Start, UpToDate
<1>3. CASE ~Start
  <2>1. ~Idle /\ runs' = runs
    BY <1>3 DEF Next, Step, Idle, Abort, Resolve, Evaluate, Emit, Compile, Verify,
       LayerAGate, Repair, Win, NextRound, GiveUp, OpenSelection, WriteSelection
  <2> QED
    BY <2>1 DEF UpToDate
<1> QED
  BY <1>2, <1>3

LEMMA RunsGrow ==
    ASSUME TypeOK, TypeOK', [Next]_vars
    PROVE  runs' \in Nat /\ runs <= runs' /\ (Idle /\ runs' = runs => UNCHANGED vars)
<1>1. runs \in Nat /\ runs' \in Nat
  BY Parameters DEF TypeOK
<1> QED
  BY <1>1 DEF Next, Step, vars, Idle, Start, Abort, Resolve, Evaluate, Emit, Compile,
     Verify, LayerAGate, Repair, Win, NextRound, GiveUp, OpenSelection, WriteSelection

LEMMA ReportsStep ==
    ASSUME TypeOK, TypeOK', PipelineTypeOK, Reports, [PipelineNext]_allVars
    PROVE  Reports'
<1>1. ASSUME UNCHANGED <<vars, verifier, layerReport>> PROVE Reports'
  BY <1>1 DEF vars, disk, Reports, UpToDate, Idle, Artifact
<1>2. CASE MigrateStep
  <2>1. ASSUME NEW l \in Layer, layerReport'[l] # None
        PROVE  UpToDate(l, layerReport[l])'
    <3> PICK r \in LayerReport : r = layerReport[l]
      BY <1>2, <2>1 DEF MigrateStep, PipelineTypeOK
    <3>1. UpToDate(l, r)'
      BY <1>2, <2>1, UpToDateStays DEF MigrateStep, Reports, LayerReport
    <3> QED
      BY <1>2, <3>1 DEF MigrateStep, UpToDate, Artifact
  <2>2. ASSUME NEW l \in Layer, verifier'[l] # None
        PROVE  UpToDate(l, verifier[l])'
    <3>1. verifier[l] # None
      BY <1>2, <2>2 DEF MigrateStep
    <3> PICK r \in Verifying : r = verifier[l]
      BY <3>1 DEF PipelineTypeOK
    <3>2. UpToDate(l, r)'
      BY <1>2, <3>1, UpToDateStays DEF MigrateStep, Reports, Verifying
    <3>3. CASE verifier' = verifier
      BY <3>2, <3>3 DEF UpToDate, Artifact
    <3>4. CASE verifier'[l] = [r EXCEPT !.quiet = FALSE]
      <4>1. ~verifier'[l].quiet /\ verifier'[l].run = r.run
        BY <3>4 DEF Verifying
      <4> QED
        BY <3>2, <4>1 DEF UpToDate
    <3> QED
      BY <1>2, <3>1, <3>3, <3>4 DEF MigrateStep
  <2> QED
    BY <2>1, <2>2 DEF Reports
<1>3. ASSUME NEW l \in Layer, UNCHANGED vars,
             \A k \in Layer \ {l} : verifier'[k] = verifier[k] /\ layerReport'[k] = layerReport[k],
             verifier'[l] # None => UpToDate(l, verifier'[l]),
             layerReport'[l] # None => UpToDate(l, layerReport'[l])
      PROVE  Reports'
  BY <1>3 DEF vars, disk, Reports, UpToDate, Idle, Artifact
<1>4. ASSUME NEW l \in Layer, NEW id \in Id, VerifyBegin(l, id) PROVE Reports'
  <2>1. /\ verifier'[l] = [id |-> id, texts |-> {Artifact(l, id)}, run |-> runs,
                           quiet |-> Idle /\ complete]
        /\ \A k \in Layer \ {l} : verifier'[k] = verifier[k]
    BY <1>4 DEF VerifyBegin, PipelineTypeOK
  <2>2. UpToDate(l, verifier'[l])
    <3>1. /\ verifier'[l].id = id /\ verifier'[l].texts = {Artifact(l, id)}
          /\ verifier'[l].run = runs /\ verifier'[l].quiet = (Idle /\ complete)
      BY <2>1
    <3>2. runs <= runs
      BY Parameters DEF TypeOK
    <3> QED
      BY <3>1, <3>2 DEF UpToDate
  <2> QED
    BY <1>3, <1>4, <2>1, <2>2 DEF VerifyBegin, Reports
<1>5. ASSUME NEW l \in Layer, VerifyCase(l) PROVE Reports'
  <2>1. /\ verifier'[l].run = verifier[l].run /\ verifier'[l].quiet = verifier[l].quiet
        /\ verifier'[l].id = verifier[l].id
        /\ verifier'[l].texts = verifier[l].texts \cup {Artifact(l, verifier[l].id)}
        /\ \A k \in Layer \ {l} : verifier'[k] = verifier[k]
    BY <1>5 DEF VerifyCase, PipelineTypeOK, Verifying
  <2>2. UpToDate(l, verifier'[l])
    BY <1>5, <2>1 DEF VerifyCase, Reports, UpToDate, Artifact
  <2> QED
    BY <1>3, <1>5, <2>1, <2>2 DEF VerifyCase, Reports
<1>6. ASSUME NEW l \in Layer, VerifyEnd(l) PROVE Reports'
  <2>1. PICK v \in Verdicts(l), examined \in BOOLEAN :
          layerReport' = [layerReport EXCEPT ![l] =
            [verdict |-> v, id |-> verifier[l].id, texts |-> verifier[l].texts,
             run |-> verifier[l].run, quiet |-> verifier[l].quiet, examined |-> examined]]
    BY <1>6 DEF VerifyEnd
  <2>2. /\ verifier'[l] = None
        /\ layerReport'[l].run = verifier[l].run /\ layerReport'[l].quiet = verifier[l].quiet
        /\ layerReport'[l].id = verifier[l].id /\ layerReport'[l].texts = verifier[l].texts
        /\ \A k \in Layer \ {l} : verifier'[k] = verifier[k] /\ layerReport'[k] = layerReport[k]
    BY <1>6, <2>1 DEF VerifyEnd, PipelineTypeOK
  <2>3. UpToDate(l, layerReport'[l])
    BY <1>6, <2>2 DEF VerifyEnd, Reports, UpToDate, Artifact
  <2> QED
    BY <1>3, <1>6, <2>2, <2>3 DEF VerifyEnd
<1>7. ASSUME NEW l \in Layer, VerifyFails(l) PROVE Reports'
  <2>1. verifier'[l] = None /\ \A k \in Layer \ {l} : verifier'[k] = verifier[k]
    BY <1>7 DEF VerifyFails, PipelineTypeOK
  <2> QED
    BY <1>3, <1>7, <2>1 DEF VerifyFails, Reports
<1> QED
  BY <1>1, <1>2, <1>4, <1>5, <1>6, <1>7
     DEF PipelineNext, ReadSelection, ReadReportB, ReadLayer, WriteCertificate, allVars,
         evidenceVars
LEMMA CollectedStep ==
    ASSUME TypeOK, TypeOK', PipelineTypeOK, Reports, Collected, [PipelineNext]_allVars
    PROVE  Collected'
<1>1. ASSUME UNCHANGED <<vars, certifier>> PROVE Collected'
  BY <1>1 DEF vars, disk, Collected, UpToDate, Idle, Artifact, Chosen
<1>2. CASE MigrateStep
  <2>1. CASE certifier' = None
    BY <2>1 DEF Collected
  <2>2. CASE certifier' # None
    <3>1. certifier # None /\ certifier \in Certifying /\ certifier'.layers = certifier.layers
      BY <1>2, <2>2 DEF MigrateStep, PipelineTypeOK, Certifying
    <3>2. ASSUME NEW l \in Layer
          PROVE  /\ certifier'.layers[l] = NotRun
                      \/ certifier'.layers[l] = EvidenceOf(certifier'.layers[l].report)
                 /\ certifier'.layers[l].report # None => UpToDate(l, certifier.layers[l].report)'
      <4>1. certifier.layers[l] \in Evidence
        BY <3>1 DEF Certifying
      <4>2. ASSUME certifier.layers[l].report # None
            PROVE  UpToDate(l, certifier.layers[l].report)'
        <5> PICK r \in LayerReport : r = certifier.layers[l].report
          BY <4>1, <4>2 DEF Evidence
        <5>1. UpToDate(l, r)'
          BY <1>2, <3>1, <4>2, UpToDateStays DEF MigrateStep, Collected, LayerReport
        <5> QED
          BY <3>1, <5>1 DEF UpToDate, Artifact
      <4> QED
        BY <3>1, <4>2 DEF Collected
    <3>3. ~certifier'.clean
      <4>1. CASE runs' = runs
        <5>1. ~Idle /\ certifier' = certifier
          BY <1>2, <4>1, Parameters DEF MigrateStep, Next, Step, Idle, Start, Abort, Resolve,
             Evaluate, Emit, Compile, Verify, LayerAGate, Repair, Win, NextRound, GiveUp,
             OpenSelection, WriteSelection, TypeOK
        <5> QED
          BY <3>1, <5>1 DEF Collected
      <4>2. CASE runs' # runs
        BY <1>2, <3>1, <4>2 DEF MigrateStep, Certifying
      <4> QED
        BY <4>1, <4>2
    <3> QED
      BY <3>2, <3>3 DEF Collected
  <2> QED
    BY <2>1, <2>2
<1>3. CASE ReadSelection
  <2>1. PICK provided : certifier' =
          [unread |-> provided, winner |-> selection.winner, b |-> None,
           clean |-> Idle /\ complete, layers |-> [l \in Layer |-> NotRun]]
    BY <1>3 DEF ReadSelection
  <2>2. /\ certifier'.winner = selection.winner /\ certifier'.b = None
        /\ certifier'.clean = (Idle /\ complete)
        /\ \A l \in Layer : certifier'.layers[l] = NotRun
    BY <2>1
  <2>3. NotRun.report = None
    BY DEF NotRun
  <2>4. /\ Chosen /\ Chosen' /\ selection' = selection /\ complete' = complete
        /\ Idle' = Idle
    BY <1>3 DEF ReadSelection, vars, disk, Idle, Chosen
  <2>5. \A l \in Layer : certifier'.layers[l] = NotRun /\ certifier'.layers[l].report = None
    BY <2>2, <2>3
  <2>6. NotRun' = NotRun
    BY DEF NotRun
  <2> QED
    BY <2>2, <2>4, <2>5, <2>6 DEF Collected
<1>4. CASE ReadReportB
  <2>1. CASE certifier' = None
    BY <2>1 DEF Collected
  <2>2. CASE certifier' = [certifier EXCEPT !.b = report[certifier.winner]]
    <3>1. /\ certifier'.layers = certifier.layers /\ certifier'.clean = certifier.clean
          /\ certifier'.winner = certifier.winner
          /\ certifier'.b = report[certifier.winner]
      BY <1>4, <2>2 DEF ReadReportB, PipelineTypeOK, Certifying
    <3>2. UNCHANGED vars /\ certifier # None
      BY <1>4 DEF ReadReportB
    <3>3. ASSUME NEW l \in Layer
          PROVE  /\ certifier'.layers[l] = NotRun
                      \/ certifier'.layers[l] = EvidenceOf(certifier'.layers[l].report)
                 /\ certifier'.layers[l].report # None => UpToDate(l, certifier.layers[l].report)'
      BY <3>1, <3>2 DEF Collected, vars, disk, Idle, UpToDate, Artifact
    <3>4. certifier'.clean =>
            /\ Idle' /\ complete' /\ Chosen'
            /\ selection'.winner = certifier'.winner /\ certifier'.b = report'[certifier'.winner]
      BY <3>1, <3>2 DEF Collected, vars, disk, Idle, Chosen
    <3> QED
      BY <3>3, <3>4 DEF Collected
  <2> QED
    BY <1>4, <2>1, <2>2 DEF ReadReportB
<1>5. ASSUME NEW l \in Layer, ReadLayer(l) PROVE Collected'
  <2>1. certifier \in Certifying
    BY <1>5 DEF ReadLayer, PipelineTypeOK
  <2>2. /\ certifier'.clean = certifier.clean /\ certifier'.winner = certifier.winner
        /\ certifier'.b = certifier.b /\ certifier'.layers[l] = EvidenceOf(layerReport[l])
        /\ \A k \in Layer \ {l} : certifier'.layers[k] = certifier.layers[k]
    BY <1>5, <2>1 DEF ReadLayer, Certifying
  <2>3. UNCHANGED vars /\ certifier # None
    BY <1>5 DEF ReadLayer
  <2>4. /\ certifier'.layers[l] = EvidenceOf(certifier'.layers[l].report)
        /\ certifier'.layers[l].report # None => UpToDate(l, certifier'.layers[l].report)
    BY <2>2, EvidenceIs DEF Reports
  <2>5. \A k \in Layer :
          /\ certifier'.layers[k] = NotRun
                \/ certifier'.layers[k] = EvidenceOf(certifier'.layers[k].report)
          /\ certifier'.layers[k].report # None => UpToDate(k, certifier'.layers[k].report)
    BY <2>2, <2>3, <2>4 DEF Collected
  <2> QED
    BY <2>2, <2>3, <2>5 DEF Collected, vars, disk, Idle, UpToDate, Artifact, Chosen
<1>6. CASE WriteCertificate
  BY <1>6 DEF WriteCertificate, Collected
<1> QED
  BY <1>1, <1>2, <1>3, <1>4, <1>5, <1>6
     DEF PipelineNext, VerifyBegin, VerifyCase, VerifyEnd, VerifyFails, allVars, evidenceVars

\* What a certificate says, for as long as it is there.
LEMMA CertificateStep ==
    ASSUME SInv, SInv', PipelineTypeOK, Collected, Dated, CertifiedRestsOnEvidence,
           [PipelineNext]_allVars
    PROVE  Dated' /\ CertifiedRestsOnEvidence'
<1>1. TypeOK /\ TypeOK' /\ SelectionIsVerified
  BY DEF SInv, IInv
<1>2. CASE certificate' = certificate
  <2>1. runs \in Nat /\ runs' \in Nat /\ runs <= runs'
    <3>1. [Next]_vars
      BY DEF PipelineNext, MigrateStep, VerifyBegin, VerifyCase, VerifyEnd, VerifyFails,
         ReadSelection, ReadReportB, ReadLayer, WriteCertificate, allVars
    <3> QED
      BY <1>1, <3>1, RunsGrow, Parameters DEF TypeOK
  <2>2. ASSUME NEW l \in Layer, certificate # None, certificate.layers[l].report # None
        PROVE  /\ certificate.layers[l].report.run \in Nat
               /\ certificate.layers[l].report.run <= runs
    BY <2>2 DEF PipelineTypeOK, Certificate, Evidence, LayerReport, Dated
  <2>3. Dated'
    BY <1>2, <2>1, <2>2 DEF Dated
  <2>4. CertifiedRestsOnEvidence'
    BY <1>2, <2>1, <2>2 DEF CertifiedRestsOnEvidence, Certified
  <2> QED
    BY <2>3, <2>4
<1>3. CASE WriteCertificate
  <2> DEFINE w == certifier.winner
  <2>1. /\ certificate'.verdict = CertVerdict(certifier.b, certifier.layers)
        /\ certificate'.winner = w /\ certificate'.target = java[w]
        /\ certificate'.b = certifier.b /\ certificate'.clean = certifier.clean
        /\ certificate'.layers = certifier.layers
        /\ certifier # None /\ certifier.b # None /\ UNCHANGED vars
        /\ w \in Id
    BY <1>3 DEF WriteCertificate, PipelineTypeOK, Certifying
  <2>2. runs' = runs
    BY <2>1 DEF vars
  <2>3. \A l \in Layer :
          LET e == certifier.layers[l] IN
          /\ e = NotRun \/ e = EvidenceOf(e.report)
          /\ e.report # None => UpToDate(l, e.report)
    BY <2>1 DEF Collected
  <2>4. Dated'
    BY <2>1, <2>2, <2>3 DEF Dated, UpToDate
  <2>5. ASSUME NEW l \in Layer
        PROVE  /\ certifier.layers[l].status = "PASS" => certifier.layers[l].report.verdict = "PASS"
               /\ certifier.layers[l].report # None /\ certifier.layers[l].report.verdict = "FAIL"
                    => certifier.layers[l].status = "FAIL"
    <3>1. CASE certifier.layers[l] = NotRun
      BY <3>1 DEF NotRun
    <3>2. CASE certifier.layers[l] = EvidenceOf(certifier.layers[l].report)
      BY <3>2, EvidenceIs
    <3> QED
      BY <2>3, <3>1, <3>2
  <2>6. ASSUME certificate'.verdict = "CERTIFIED"
        PROVE  /\ certifier.b.verdict = "PASS"
               /\ \E l \in Layer : certifier.layers[l].status = "PASS"
               /\ \A l \in Layer : certifier.layers[l].status # "FAIL"
    BY <2>1, <2>6 DEF CertVerdict, Supplied
  <2>7. certifier.clean =>
          /\ Idle /\ complete /\ certifier.b = report[w]
          /\ java[w] = selection.text /\ class[w] = selection.text
          /\ report[w] = [text |-> selection.text, verdict |-> "PASS"]
    BY <1>1, <2>1, NoneIsNoId DEF Collected, SelectionIsVerified
  <2>8. ASSUME NEW l \in Layer, certifier.clean,
               certifier.layers[l].report # None, certifier.layers[l].report.quiet,
               certifier.layers[l].report.run = runs, certifier.layers[l].report.id = w
        PROVE  certifier.layers[l].report.texts = {java[w]}
    BY <2>3, <2>7, <2>8 DEF UpToDate, Artifact
  <2>9. CertifiedRestsOnEvidence'
    BY <2>1, <2>2, <2>5, <2>6, <2>7, <2>8 DEF CertifiedRestsOnEvidence, Certified
  <2> QED
    BY <2>4, <2>9
<1> QED
  BY <1>2, <1>3 DEF PipelineNext, MigrateStep, VerifyBegin, VerifyCase, VerifyEnd,
     VerifyFails, ReadSelection, ReadReportB, ReadLayer, allVars, evidenceVars
-----------------------------------------------------------------------------
LEMMA EInvHolds == PipelineSpec => [](PipelineTypeOK /\ EInv)
<1>1. PipelineInit => PipelineTypeOK /\ EInv
  BY DEF PipelineInit, PipelineTypeOK, EInv, Running, Reports, Collected, Dated,
     CertifiedRestsOnEvidence, Certified
<1>2. SInv /\ SInv' /\ PipelineTypeOK /\ EInv /\ [PipelineNext]_allVars =>
        (PipelineTypeOK /\ EInv)'
  <2> SUFFICES ASSUME SInv, SInv', PipelineTypeOK, EInv, [PipelineNext]_allVars
               PROVE  (PipelineTypeOK /\ EInv)'
    OBVIOUS
  <2>1. TypeOK /\ TypeOK' /\ InHand
    BY DEF SInv, IInv, FilesAgree
  <2>2. PipelineTypeOK' /\ Running'
    BY <2>1, PipelineTypeStep, RunningStep DEF EInv
  <2>3. Reports' /\ Collected'
    BY <2>1, ReportsStep, CollectedStep DEF EInv
  <2> QED
    BY <2>2, <2>3, CertificateStep DEF EInv
<1> QED
  BY <1>1, <1>2, MigrateUndisturbed, SInvHolds, PTL DEF PipelineSpec

\* The files the commands share have at all times the contents they are read
\* for: no verifier runs a class that is not there, none reports on nothing.
THEOREM PipelineTyped == PipelineSpec => []PipelineTypeOK
BY EInvHolds, PTL

\* A certificate rests on a layer that passed and on none that failed; made
\* from a selection that stands, it carries the hash of the very source that
\* layer B, and every layer run on the winner since, is about.
THEOREM CertificateRestsOnEvidence == PipelineSpec => []CertifiedRestsOnEvidence
<1>1. EInv => CertifiedRestsOnEvidence
  BY DEF EInv
<1> QED
  BY <1>1, EInvHolds, PTL
=============================================================================
