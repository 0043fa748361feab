--------------------------- MODULE BenchmarkProofs ---------------------------
(***************************************************************************)
(* The row of a benchmark run is made of that run's own artifacts, for any *)
(* number of candidates and runs, whichever steps fail and wherever a run  *)
(* is killed.                                                              *)
(*                                                                         *)
(* RowIsFresh is about the row, which is made at the end of a run out of   *)
(* files that any earlier run may have left.  What every step keeps is     *)
(* what is known of those files while a run is on its way: Fresh of what   *)
(* Clean has removed, Unfailed of what the steps that have not failed must *)
(* have written, and Kept of the certificate's copy.                       *)
(***************************************************************************)
EXTENDS Benchmark, TLAPS

\* The steps from one on, in their order.
FromCertify == {"certify", "verify-cert", "copy", "gather"}
FromLayers == {"A", "C", "D"} \cup FromCertify
FromValidate == {"validate", "image", "migrate"} \cup FromLayers
FromParse == {"parse"} \cup FromValidate

Fresh ==
    /\ pc # "idle" => run \in 1..MaxRuns
    /\ pc \in FromParse => \A f \in Stale : made[f] \in {0, run}
    /\ row # None => row.run <= run /\ (pc # "idle" => row.run < run)

\* As long as no step has failed.  What layer l tested is known behind l.
Behind(l) == FromLayers \ CASE l = "A" -> {"A"}
                            [] l = "C" -> {"A", "C"}
                            [] l = "D" -> {"A", "C", "D"}
Unfailed ==
    ~failed =>
        /\ pc \in FromValidate => made["ir"] = run
        /\ pc \in FromLayers /\ winner = Tested => made["class"] = run
        /\ \A l \in Layer : pc \in Behind(l) /\ winner = Tested => tests[l] = run

\* The copy of the certificate, once it is made.
Kept == pc = "gather" /\ There("cert") =>
            made["copy"] = made["cert"] /\ certified["copy"] = certified["cert"]

Inv == TypeOK /\ Fresh /\ Unfailed /\ Kept /\ RowIsFresh

-----------------------------------------------------------------------------
LEMMA RowType ==
    ASSUME TypeOK, Fresh, pc = "gather"
    PROVE  [verdict |-> RowVerdict, run |-> run,
            winner |-> IF Readable THEN winner ELSE None,
            from |-> [f \in File |-> IF Readable THEN made[f] ELSE 0],
            tests |-> tests, sound |-> ~failed] \in Row
<1>1. RowVerdict \in {"CERTIFIED", "PIPELINE-FAILED"}
  BY DEF RowVerdict
<1>2. [f \in File |-> IF Readable THEN made[f] ELSE 0] \in [File -> 0..MaxRuns]
  BY Parameters DEF TypeOK
<1>3. run \in 1..MaxRuns /\ tests \in [Layer -> 0..MaxRuns]
  BY DEF TypeOK, Fresh
<1>4. (IF Readable THEN winner ELSE None) \in Candidate \cup {None}
  BY DEF TypeOK
<1> QED
  BY <1>1, <1>2, <1>3, <1>4 DEF Row

LEMMA TypeStep ==
    ASSUME TypeOK, Fresh, [Next]_vars
    PROVE  TypeOK'
<1> USE DEF files, Write, Pass, Fail
<1>1. CASE UNCHANGED vars
  BY <1>1 DEF vars, TypeOK
<1>2. CASE Begin
  <2>1. run' \in 0..MaxRuns
    BY <1>2, Parameters DEF Begin, TypeOK
  <2> QED
    BY <1>2, <2>1 DEF Begin, TypeOK
<1>3. CASE Kill
  BY <1>3 DEF Kill, TypeOK
<1>4. CASE Clean
  <2>1. made' \in [File -> 0..MaxRuns]
    BY <1>4, Parameters DEF Clean, TypeOK
  <2> QED
    BY <1>4, <2>1 DEF Clean, TypeOK
<1>5. CASE Parse \/ Validate \/ Image
  BY <1>5 DEF Parse, Validate, Image, TypeOK
<1>6. CASE Migrate
  <2>1. made' \in [File -> 0..MaxRuns]
    BY <1>6 DEF Migrate, TypeOK
  <2> QED
    BY <1>6, <2>1 DEF Migrate, TypeOK
<1>7. ASSUME NEW l \in Layer, NEW next \in {"C", "D", "certify"}, VerifyLayer(l, next)
      PROVE  TypeOK'
  <2>1. made["class"] \in 0..MaxRuns
    BY DEF TypeOK, File
  <2>2. says' \in [Layer -> Verdict] /\ tests' \in [Layer -> 0..MaxRuns]
    BY <1>7, <2>1 DEF VerifyLayer, TypeOK
  <2>3. made' \in [File -> 0..MaxRuns]
    BY <1>7 DEF VerifyLayer, TypeOK
  <2> QED
    BY <1>7, <2>2, <2>3 DEF VerifyLayer, TypeOK
<1>8. CASE Certify
  <2>1. certified' \in [{"cert", "copy"} -> BOOLEAN]
    BY <1>8 DEF Certify, TypeOK
  <2>2. made' \in [File -> 0..MaxRuns]
    BY <1>8 DEF Certify, TypeOK
  <2> QED
    BY <1>8, <2>1, <2>2 DEF Certify, TypeOK
<1>9. CASE VerifyCert
  BY <1>9 DEF VerifyCert, TypeOK
<1>10. CASE Copy
  <2>1. made["cert"] \in 0..MaxRuns
    BY DEF TypeOK, File
  <2>2. made' \in [File -> 0..MaxRuns] /\ certified' \in [{"cert", "copy"} -> BOOLEAN]
    BY <1>10, <2>1 DEF Copy, TypeOK
  <2> QED
    BY <1>10, <2>2 DEF Copy, TypeOK
<1>11. CASE Gather
  BY <1>11, RowType DEF Gather, TypeOK
<1> QED
  BY <1>1, <1>2, <1>3, <1>4, <1>5, <1>6, <1>7, <1>8, <1>9, <1>10, <1>11 DEF Next, Layer

LEMMA FreshStep ==
    ASSUME TypeOK, Fresh, [Next]_vars
    PROVE  Fresh'
<1> USE DEF files, Write, Pass, Fail, FromParse, FromValidate, FromLayers, FromCertify
<1>1. CASE UNCHANGED vars
  BY <1>1 DEF vars, Fresh
<1>2. CASE Begin
  BY <1>2, Parameters DEF Begin, Fresh, TypeOK, Row
<1>3. CASE Kill
  BY <1>3 DEF Kill, Fresh
<1>4. CASE Clean
  <2>1. Stale \subseteq File
    BY DEF Stale, File
  <2> QED
    BY <1>4, <2>1 DEF Clean, Fresh
<1>5. CASE Parse \/ Validate \/ Image
  <2>1. \A f \in Stale : made'[f] = made[f]
    BY <1>5 DEF Parse, Validate, Image, TypeOK, Stale, File, Layer
  <2> QED
    BY <1>5, <2>1 DEF Parse, Validate, Image, Fresh
<1>6. CASE Migrate
  <2>1. \A f \in Stale : made'[f] \in {made[f], run}
    BY <1>6 DEF Migrate, TypeOK, Stale, File
  <2> QED
    BY <1>6, <2>1 DEF Migrate, Fresh
<1>7. ASSUME NEW l \in Layer, NEW next \in {"C", "D", "certify"}, VerifyLayer(l, next)
      PROVE  Fresh'
  <2>1. \A f \in Stale : made'[f] \in {made[f], run}
    BY <1>7 DEF VerifyLayer, TypeOK, Stale, File
  <2> QED
    BY <1>7, <2>1 DEF VerifyLayer, Fresh, Layer
<1>8. CASE Certify
  <2>1. \A f \in Stale : made'[f] \in {made[f], run}
    BY <1>8 DEF Certify, TypeOK, Stale, File
  <2> QED
    BY <1>8, <2>1 DEF Certify, Fresh
<1>9. CASE VerifyCert
  BY <1>9 DEF VerifyCert, Fresh
<1>10. CASE Copy
  <2>1. \A f \in Stale : made'[f] = made[f]
    BY <1>10 DEF Copy, TypeOK, Stale, File, Layer
  <2> QED
    BY <1>10, <2>1 DEF Copy, Fresh
<1>11. CASE Gather
  BY <1>11 DEF Gather, Fresh, TypeOK
<1> QED
  BY <1>1, <1>2, <1>3, <1>4, <1>5, <1>6, <1>7, <1>8, <1>9, <1>10, <1>11 DEF Next, Layer

LEMMA UnfailedStep ==
    ASSUME TypeOK, Fresh, Unfailed, [Next]_vars
    PROVE  Unfailed'
<1> USE DEF files, Write, Pass, Fail, Behind, FromValidate, FromLayers, FromCertify
<1>1. CASE UNCHANGED vars
  BY <1>1 DEF vars, Unfailed
<1>2. CASE Begin \/ Kill \/ Clean
  BY <1>2 DEF Begin, Kill, Clean, Unfailed, Layer
<1>3. CASE Parse \/ Validate \/ Image
  BY <1>3 DEF Parse, Validate, Image, Unfailed, TypeOK, File, Layer
<1>4. CASE Migrate
  BY <1>4, Parameters DEF Migrate, Unfailed, TypeOK, File, Layer
<1>5. ASSUME NEW l \in Layer, VerifyLayer(l, CASE l = "A" -> "C" [] l = "C" -> "D"
                                               [] l = "D" -> "certify")
      PROVE  Unfailed'
  <2>1. CASE failed'
    BY <2>1 DEF Unfailed
  <2>2. CASE ~failed'
    <3>1. /\ made' = [made EXCEPT ![l] = run] /\ ~failed /\ pc = l
          /\ tests' = [tests EXCEPT ![l] = made["class"]] /\ winner' = winner
          /\ run' = run
      BY <1>5, <2>2 DEF VerifyLayer
    <3>2. made'["ir"] = made["ir"] /\ made'["class"] = made["class"]
      BY <3>1 DEF TypeOK, File, Layer
    <3>3. tests'[l] = made["class"] /\ \A k \in Layer \ {l} : tests'[k] = tests[k]
      BY <3>1 DEF TypeOK
    <3> QED
      BY <1>5, <3>1, <3>2, <3>3 DEF VerifyLayer, Unfailed, Layer
  <2> QED
    BY <2>1, <2>2
<1>6. CASE Certify
  BY <1>6 DEF Certify, Unfailed, TypeOK, File, Layer
<1>7. CASE VerifyCert
  BY <1>7 DEF VerifyCert, Unfailed, Layer
<1>8. CASE Copy
  BY <1>8 DEF Copy, Unfailed, TypeOK, File, Layer
<1>9. CASE Gather
  BY <1>9 DEF Gather, Unfailed, Layer
<1>10. VerifyLayer("A", "C") \/ VerifyLayer("C", "D") \/ VerifyLayer("D", "certify") =>
         Unfailed'
  BY <1>5 DEF Layer
<1> QED
  BY <1>1, <1>2, <1>3, <1>4, <1>6, <1>7, <1>8, <1>9, <1>10 DEF Next

LEMMA KeptStep ==
    ASSUME TypeOK, Kept, [Next]_vars
    PROVE  Kept'
<1>1. CASE Copy
  BY <1>1 DEF Copy, Kept, There, TypeOK, File
<1>2. CASE UNCHANGED vars
  BY <1>2 DEF vars, files, Kept, There
<1> QED
  BY <1>1, <1>2 DEF Next, Begin, Kill, Clean, Parse, Validate, Image, Migrate,
     VerifyLayer, Certify, VerifyCert, Gather, Kept, Pass, Fail

-----------------------------------------------------------------------------
\* The row that is made is fresh, and it stays so until the next one is made;
\* the copy of a certificate is replaced in a later run only.
LEMMA RowStep ==
    ASSUME TypeOK, Fresh, Unfailed, Kept, RowIsFresh, [Next]_vars
    PROVE  RowIsFresh'
<1>1. CASE Gather
  <2>1. /\ row'.run = run /\ row'.tests = tests /\ row'.sound = ~failed
        /\ row'.verdict = RowVerdict /\ UNCHANGED <<made, certified, run>>
        /\ row'.winner = IF Readable THEN winner ELSE None
        /\ \A f \in File : row'.from[f] = IF Readable THEN made[f] ELSE 0
    BY <1>1 DEF Gather, files
  <2>2. \A f \in Layer \cup {"selection", "cert"} : f \in File /\ made[f] \in {0, run}
    BY <1>1 DEF Gather, Fresh, File, Stale, FromParse, FromValidate, FromLayers, FromCertify
  <2>3. \A f \in Layer \cup {"selection", "cert"} : row'.from[f] \in {0, run}
    BY <2>1, <2>2
  <2>4. ASSUME RowVerdict = "CERTIFIED"
        PROVE  /\ \A f \in {"ir", "selection", "cert"} \cup Layer : row'.from[f] = run
               /\ row'.sound
               /\ row'.winner = Tested => \A l \in Layer : tests[l] = run
               /\ made["copy"] = run /\ certified["copy"]
    <3>1. Readable /\ certified["cert"] /\ ~failed
      BY <2>4 DEF RowVerdict
    <3>2. made["ir"] = run /\ "ir" \in File
      BY <1>1, <3>1 DEF Gather, Unfailed, FromValidate, FromLayers, FromCertify, File
    <3>3. \A f \in Layer \cup {"selection", "cert"} : made[f] = run
      BY <2>2, <3>1 DEF Readable, There
    <3>4. winner = Tested => \A l \in Layer : tests[l] = run
      BY <1>1, <3>1 DEF Gather, Unfailed, Behind, FromLayers, FromCertify, Layer
    <3>5. made["copy"] = run /\ certified["copy"]
      BY <1>1, <3>1, <3>3 DEF Gather, Kept, Readable
    <3> QED
      BY <2>1, <2>2, <3>1, <3>2, <3>3, <3>4, <3>5
  <2> QED
    BY <2>1, <2>3, <2>4 DEF RowIsFresh
<1>2. CASE Begin
  <2>1. row # None => row.run # run'
    BY <1>2, Parameters DEF Begin, Fresh, TypeOK, Row
  <2> QED
    BY <1>2, <2>1 DEF Begin, RowIsFresh
<1>3. CASE Kill
  BY <1>3 DEF Kill, files, RowIsFresh, Fresh
<1>4. CASE UNCHANGED vars
  BY <1>4 DEF vars, files, RowIsFresh
<1>5. ASSUME row' = row, pc' # "idle" PROVE RowIsFresh'
  BY <1>5 DEF RowIsFresh
<1> QED
  BY <1>1, <1>2, <1>3, <1>4, <1>5 DEF Next, Clean, Parse, Validate, Image, Migrate,
     VerifyLayer, Certify, VerifyCert, Copy, Pass, Fail

LEMMA InvHolds == Spec => []Inv
<1>1. Init => Inv
  <2> SUFFICES ASSUME Init PROVE Inv
    OBVIOUS
  <2>1. TypeOK
    <3>1. 0 \in 0..MaxRuns
      BY Parameters
    <3>2. /\ made \in [File -> 0..MaxRuns] /\ tests \in [Layer -> 0..MaxRuns]
          /\ says \in [Layer -> Verdict] /\ certified \in [{"cert", "copy"} -> BOOLEAN]
      BY <3>1 DEF Init, Verdict
    <3> QED
      BY <3>1, <3>2 DEF Init, TypeOK
  <2>2. Fresh /\ Unfailed /\ Kept /\ RowIsFresh
    BY DEF Init, Fresh, Unfailed, Kept, RowIsFresh, Behind, FromParse, FromValidate,
       FromLayers, FromCertify
  <2> QED
    BY <2>1, <2>2 DEF Inv
<1>2. Inv /\ [Next]_vars => Inv'
  BY TypeStep, FreshStep, UnfailedStep, KeptStep, RowStep DEF Inv
<1> QED
  BY <1>1, <1>2, PTL DEF Spec

\* The runner's state is well typed: in particular no row is made before a run
\* has begun.
THEOREM TypeCorrect == Spec => []TypeOK
BY InvHolds, PTL DEF Inv

\* No row quotes an earlier run's report, selection or certificate, and one
\* that says CERTIFIED rests on what its own run has made, however many runs
\* there were before, and however they ended.
THEOREM RowFresh == Spec => []RowIsFresh
BY InvHolds, PTL DEF Inv
=============================================================================
