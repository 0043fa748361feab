---------------------------- MODULE DiffExecProofs ----------------------------
(***************************************************************************)
(* What a verdict of layer B is worth, for any number of cases, of batches *)
(* and of hanging runs, and any set of cases that end abnormally.          *)
(*                                                                         *)
(* The two properties speak of finished batches.  What every step keeps is *)
(* about the batch in progress: as long as nothing was cut off, nobody but *)
(* the run the harness waits for is in the container (Undisputed), so that *)
(* the legacy side of each judgment is the program's own (Judged); and a   *)
(* cut shows up in the results of its batch (CutShows).                    *)
(***************************************************************************)
EXTENDS DiffExec, SequenceTheorems, TLAPS

\* The run the harness waits for is that of the current case.
Bookkeeping ==
    /\ live.batch = batch /\ live.case = Current
    /\ live.step = "open" => live.case \notin Abends
    /\ batch > Batches => live.step = "start"
    /\ cut \subseteq 1..batch
    /\ \A t \in faithful : t[1] < batch \/ (t[1] = batch /\ t[2] \in DOMAIN results)

\* What the program does in a container of its own.
OwnRun(c) == [error |-> FALSE, exit |-> ExitOf(c), fields |-> Own(c), rest |-> {}]

Undisputed ==
    cut = {} =>
        /\ zombies = {}
        /\ live.step = "clean" => file = NoFile
        /\ live.step = "open" => file.ino = live.ino /\ file.recs = {}
        /\ live.step = "closed" => file.recs = Own(live.case)
        /\ live.step = "done" => legacy = OwnRun(live.case)

\* Whatever was cut off, the exit status is the program's or there is none.
Ended ==
    ~Running(live) => \/ legacy = NoRun
                      \/ legacy \in RunResult /\ ~legacy.error /\ legacy.exit = ExitOf(live.case)

CutShows ==
    batch \in cut => \/ \E i \in DOMAIN results : results[i] # "PASS"
                     \/ ~Running(live) /\ legacy = NoRun

Declared == config.abnormal \/ Abends = {}
Judged ==
    \A i \in DOMAIN results :
        /\ results[i] = "PASS" => (i \in Abends => config.abnormal)
        /\ cut = {} /\ results[i] = "PASS" => <<batch, i>> \in faithful
        /\ cut = {} /\ Declared /\ <<batch, i>> \in faithful => results[i] = "PASS"

Inv == /\ TypeOK /\ Bookkeeping /\ Undisputed /\ Ended /\ CutShows /\ Judged
       /\ PassIsEquivalence /\ NoFalseAlarm

-----------------------------------------------------------------------------
(***************************************************************************)
(* The classification: held against the program's own run, a modern run    *)
(* passes when it does as the program, and only then, except that nothing  *)
(* passes on a case that ends abnormally when that is not declared.        *)
(***************************************************************************)
LEMMA StatusIs ==
    ASSUME NEW c, NEW l, NEW m
    PROVE  /\ CaseStatus(c, l, m) \in Status
           /\ CaseStatus(c, l, m) = "PASS" <=>
                /\ ~HarnessBroke(l, m)
                /\ c.abnormal /\ BothExited(l, m) => l.exit = m.exit
                /\ (c.abnormal /\ BothExited(l, m)) \/ (l.exit = 0 /\ m.exit = 0)
                /\ Agree(c, l, m)
<1>1. CaseStatus(c, l, m) =
        IF HarnessBroke(l, m) THEN "ERROR"
        ELSE IF c.abnormal /\ BothExited(l, m) /\ l.exit # m.exit THEN "FAIL"
        ELSE IF ~(c.abnormal /\ BothExited(l, m)) /\ (l.exit # 0 \/ m.exit # 0) THEN "ERROR"
        ELSE IF Agree(c, l, m) THEN "PASS" ELSE "FAIL"
  BY DEF CaseStatus
<1> QED
  BY <1>1 DEF Status

LEMMA StatusOfOwnRun ==
    ASSUME config \in Config, NEW k \in Case, NEW m \in RunResult
    PROVE  /\ CaseStatus(config, OwnRun(k), m) = "PASS" => DoesAsLegacy(m, k)
           /\ DoesAsLegacy(m, k) /\ (config.abnormal \/ k \notin Abends) =>
                CaseStatus(config, OwnRun(k), m) = "PASS"
<1> DEFINE l == OwnRun(k)
<1>1. ~l.error /\ l.exit = ExitOf(k) /\ l.fields = Own(k) /\ l.rest = {}
  BY DEF OwnRun
<1>2. m.exit \in {0, 1, Killed} /\ config \in Config
  BY DEF RunResult
<1> HIDE DEF l
<1>3. Agree(config, l, m) <=>
        m.fields = Own(k) /\ (config.raw \/ Own(k) = {} => m.rest = {})
  BY <1>1 DEF Agree, RawEqual
<1>4. ~HarnessBroke(l, m) <=> ~m.error
  BY <1>1 DEF HarnessBroke
<1>5. BothExited(l, m) <=> m.exit # Killed
  BY <1>1, Parameters DEF ExitOf, BothExited
<1>6. ExitOf(k) = 0 <=> k \notin Abends
  BY DEF ExitOf
<1>7. ExitOf(k) # Killed
  BY Parameters DEF ExitOf
<1> QED
  BY <1>1, <1>3, <1>4, <1>5, <1>6, <1>7, StatusIs, Parameters DEF DoesAsLegacy, l

\* No case passes without a legacy run, or undeclared with a status of its own.
LEMMA StatusOfOther ==
    ASSUME config \in Config, NEW m \in RunResult
    PROVE  /\ CaseStatus(config, NoRun, m) # "PASS"
           /\ \A l : CaseStatus(config, l, NoRun) # "PASS"
           /\ \A l : ~config.abnormal /\ l.exit # 0 => CaseStatus(config, l, m) # "PASS"
BY StatusIs DEF HarnessBroke, NoRun
-----------------------------------------------------------------------------
(***************************************************************************)
(* Types                                                                   *)
(***************************************************************************)
LEMMA AfterType ==
    ASSUME TypeOK, NEW e \in Exec, e.step \in {"start", "clean", "open"}
    PROVE  /\ After(e).exec \in Exec /\ After(e).exec.step \in {"clean", "open", "closed"}
           /\ After(e).exec.batch = e.batch /\ After(e).exec.case = e.case
           /\ After(e).exec.step = "open" => e.case \notin Abends
           /\ After(e).file \in [ino : Nat, recs : SUBSET Case]
           /\ After(e).inodes \in Nat
<1>1. file \in [ino : Nat, recs : SUBSET Case] /\ inodes \in Nat
  BY DEF TypeOK
<1>2. CASE e.step = "start"
  BY <1>1, <1>2 DEF After, Removed, Exec, NoFile
<1>3. CASE e.step = "clean"
  <2>1. CASE e.case \in Abends
    BY <1>1, <1>3, <2>1 DEF After, Opened, Exec
  <2>2. CASE e.case \notin Abends
    <3> DEFINE i == IF file = NoFile THEN inodes + 1 ELSE file.ino
    <3>1. i \in Nat
      BY <1>1
    <3>2. After(e) = [exec |-> [e EXCEPT !.step = "open", !.ino = i],
                      file |-> [ino |-> i, recs |-> {}],
                      inodes |-> IF file = NoFile THEN i ELSE inodes]
      BY <1>3, <2>2 DEF After, Opened
    <3> HIDE DEF i
    <3> DEFINE n == [e EXCEPT !.step = "open", !.ino = i]
    <3>3. n \in Exec /\ n.step = "open" /\ n.batch = e.batch /\ n.case = e.case
      BY <3>1 DEF Exec
    <3>4. /\ After(e).exec = n /\ After(e).file = [ino |-> i, recs |-> {}]
          /\ After(e).inodes \in Nat
      BY <1>1, <3>1, <3>2
    <3> QED
      BY <2>2, <3>1, <3>3, <3>4
  <2> QED
    BY <2>1, <2>2
<1>4. CASE e.step = "open"
  BY <1>1, <1>4 DEF After, Wrote, Exec
<1> QED
  BY <1>2, <1>3, <1>4

LEMMA RunsAre ==
    /\ NoRun \in RunResult
    /\ \A c \in Case : Own(c) \in SUBSET Case /\ ExitOf(c) \in {0, 1}
    /\ TypeOK => \A e \in Exec : Cat(e) \in RunResult
<1>1. \A c \in Case : Own(c) \in SUBSET Case /\ ExitOf(c) \in {0, 1}
  BY DEF Own, ExitOf
<1>2. TypeOK => \A e \in Exec : Cat(e) \in RunResult
  BY <1>1 DEF TypeOK, Cat, RunResult, Exec
<1> QED
  BY <1>1, <1>2 DEF NoRun, RunResult

\* A judgment appends a status: to the results of the batch, which go on, or
\* end in a verdict.
LEMMA Judgment ==
    ASSUME TypeOK, NEW s \in Status
    PROVE  LET rs == Append(results, s) IN
           /\ rs \in Seq(Status) /\ Len(rs) = Current /\ Current \in Case
           /\ DOMAIN rs = 1..Current /\ DOMAIN results = 1..(Current - 1)
           /\ rs[Current] = s /\ \A i \in DOMAIN results : rs[i] = results[i]
<1>1. results \in Seq(Status) /\ Len(results) \in Nat /\ Len(results) < N /\ N \in Nat
  BY LenProperties, Parameters DEF TypeOK
<1>2. Append(results, s) \in Seq(Status) /\ Len(Append(results, s)) = Len(results) + 1
      /\ Append(results, s)[Len(results) + 1] = s
      /\ \A i \in 1..Len(results) : Append(results, s)[i] = results[i]
  BY <1>1, AppendProperties
<1> QED
  BY <1>1, <1>2, LenProperties DEF Current, Case

LEMMA VerdictAppended ==
    ASSUME TypeOK, batch <= Batches, NEW v \in {"PASS", "FAIL"},
           verdicts' = Append(verdicts, v), batch' = batch + 1
    PROVE  /\ verdicts' \in [1..(batch' - 1) -> {"PASS", "FAIL"}]
           /\ verdicts'[batch] = v /\ \A b \in 1..(batch - 1) : verdicts'[b] = verdicts[b]
<1>1. batch \in Nat /\ batch >= 1 /\ batch - 1 \in Nat
  BY Parameters DEF TypeOK
<1>2. verdicts \in Seq({"PASS", "FAIL"}) /\ Len(verdicts) = batch - 1
  <2>1. verdicts \in [1..(batch - 1) -> {"PASS", "FAIL"}]
    BY DEF TypeOK
  <2> QED
    BY <1>1, <2>1, SeqDef, LenProperties
<1>3. verdicts' \in Seq({"PASS", "FAIL"}) /\ Len(verdicts') = batch
      /\ verdicts'[batch] = v /\ \A b \in 1..(batch - 1) : verdicts'[b] = verdicts[b]
  BY <1>1, <1>2, AppendProperties
<1>4. batch' - 1 = batch
  BY <1>1
<1> QED
  BY <1>3, <1>4, LenProperties

LEMMA TypeStep ==
    ASSUME TypeOK, Bookkeeping, [Next]_vars
    PROVE  TypeOK'
<1> USE DEF container, reports
<1>1. CASE UNCHANGED vars
  BY <1>1 DEF vars, TypeOK
<1>2. CASE LiveStep
  <2>1. live \in Exec /\ live.step \in {"start", "clean", "open"}
    BY <1>2 DEF LiveStep, Waiting, Running, TypeOK, Exec
  <2> QED
    BY <1>2, <2>1, AfterType DEF LiveStep, TypeOK
<1>3. CASE LiveEnds
  BY <1>3, RunsAre DEF LiveEnds, TypeOK, Exec
<1>4. CASE Timeout
  <2>1. cut' \subseteq 1..Batches
    BY <1>4, Parameters DEF Timeout, Waiting, TypeOK
  <2>2. zombies' \in SUBSET {e \in Exec : Running(e)}
    BY <1>4 DEF Timeout, Waiting, TypeOK
  <2> QED
    BY <1>4, <2>1, <2>2, RunsAre DEF Timeout, TypeOK, Exec
<1>5. CASE ZombieStep
  <2>1. PICK e \in zombies :
         \/ /\ e.step # "closed"
            /\ zombies' = (zombies \ {e}) \cup {After(e).exec}
            /\ file' = After(e).file
            /\ inodes' = After(e).inodes
         \/ /\ e.step = "closed"
            /\ zombies' = zombies \ {e}
            /\ UNCHANGED <<file, inodes>>
    BY <1>5 DEF ZombieStep
  <2>2. CASE e.step # "closed"
    <3>1. e \in Exec /\ e.step \in {"start", "clean", "open"}
      BY <2>2 DEF TypeOK, Running, Exec
    <3>2. zombies' \in SUBSET {x \in Exec : Running(x)}
      BY <2>1, <2>2, <3>1, AfterType DEF TypeOK, Running
    <3> QED
      BY <1>5, <2>1, <2>2, <3>1, <3>2, AfterType DEF ZombieStep, TypeOK
  <2>3. CASE e.step = "closed"
    BY <1>5, <2>1, <2>3 DEF ZombieStep, TypeOK
  <2> QED
    BY <2>2, <2>3
<1>6. CASE Judge
  <2>1. PICK m \in ModernRuns :
         LET rs == Append(results, CaseStatus(config, legacy, m)) IN
         /\ cut' = IF m.error THEN cut \cup {batch} ELSE cut
         /\ faithful' = IF DoesAsLegacy(m, Current)
                          THEN faithful \cup {<<batch, Current>>} ELSE faithful
         /\ \/ /\ Len(rs) < N
               /\ results' = rs
               /\ live' = Fresh(batch, Len(rs) + 1)
               /\ UNCHANGED <<verdicts, batch>>
            \/ /\ Len(rs) = N
               /\ results' = <<>>
               /\ verdicts' = Append(verdicts, Verdict(rs))
               /\ batch' = batch + 1
               /\ live' = Fresh(batch + 1, 1)
    BY <1>6 DEF Judge
  <2>2. batch \in 1..Batches /\ Batches \in Nat /\ N \in Nat \ {0}
    BY <1>6, Parameters DEF Judge, TypeOK
  <2>3. cut' \subseteq 1..Batches
    BY <2>1, <2>2 DEF TypeOK
  <2> DEFINE s == CaseStatus(config, legacy, m)
             rs == Append(results, s)
  <2>4. /\ rs \in Seq(Status) /\ Len(rs) = Current /\ Current \in Case
    BY Judgment, StatusIs
  <2>5. faithful' \subseteq (1..Batches) \X Case
    BY <2>1, <2>2, <2>4 DEF TypeOK
  <2>6. legacy' \in RunResult /\ UNCHANGED <<config, container>>
    BY <1>6, RunsAre DEF Judge
  <2>7. CASE Len(rs) < N /\ results' = rs /\ live' = Fresh(batch, Len(rs) + 1)
             /\ UNCHANGED <<verdicts, batch>>
    <3>1. Len(rs) + 1 \in Case
      BY <2>2, <2>4, <2>7 DEF Case
    <3>2. live' \in Exec
      BY <2>2, <2>7, <3>1 DEF Fresh, Exec
    <3> QED
      BY <2>3, <2>4, <2>5, <2>6, <2>7, <3>2 DEF TypeOK
  <2>8. CASE results' = <<>> /\ verdicts' = Append(verdicts, Verdict(rs))
             /\ batch' = batch + 1 /\ live' = Fresh(batch + 1, 1)
    <3>1. Verdict(rs) \in {"PASS", "FAIL"}
      BY DEF Verdict
    <3>2. verdicts' \in [1..(batch' - 1) -> {"PASS", "FAIL"}]
      BY <2>2, <2>8, <3>1, VerdictAppended
    <3>3. live' \in Exec /\ batch' \in 1..(Batches + 1)
      BY <2>2, <2>8 DEF Fresh, Exec, Case
    <3>4. results' \in Seq(Status) /\ Len(results') < N
      BY <2>2, <2>8, EmptySeq
    <3> QED
      BY <2>3, <2>5, <2>6, <3>2, <3>3, <3>4 DEF TypeOK
  <2> QED
    BY <2>1, <2>7, <2>8
<1>7. CASE Exit
  BY <1>7 DEF Exit, TypeOK, NoFile
<1> QED
  BY <1>1, <1>2, <1>3, <1>4, <1>5, <1>6, <1>7 DEF Next
-----------------------------------------------------------------------------
(***************************************************************************)
(* The batch in progress                                                   *)
(***************************************************************************)
\* What a judgment does, once: the status s of the case is appended.
Judges(m, s) ==
    /\ m \in RunResult /\ s = CaseStatus(config, legacy, m) /\ s \in Status
    /\ batch \in 1..Batches /\ ~Running(live)
    /\ m.error => m = NoRun
    /\ cut' = IF m.error THEN cut \cup {batch} ELSE cut
    /\ faithful' = IF DoesAsLegacy(m, Current)
                     THEN faithful \cup {<<batch, Current>>} ELSE faithful
    /\ legacy' = NoRun /\ UNCHANGED <<config, container>>

GoesOn(rs) ==
    /\ results' = rs /\ live' = Fresh(batch, Len(rs) + 1) /\ UNCHANGED <<verdicts, batch>>

IsOver(rs) ==
    /\ Len(rs) = N /\ results' = <<>> /\ verdicts' = Append(verdicts, Verdict(rs))
    /\ batch' = batch + 1 /\ live' = Fresh(batch + 1, 1)

LEMMA JudgeIs ==
    ASSUME TypeOK, Judge
    PROVE  \E m, s : /\ Judges(m, s)
                     /\ GoesOn(Append(results, s)) \/ IsOver(Append(results, s))
<1>1. PICK m \in ModernRuns :
         LET rs == Append(results, CaseStatus(config, legacy, m)) IN
         /\ cut' = IF m.error THEN cut \cup {batch} ELSE cut
         /\ faithful' = IF DoesAsLegacy(m, Current)
                          THEN faithful \cup {<<batch, Current>>} ELSE faithful
         /\ \/ /\ Len(rs) < N
               /\ results' = rs
               /\ live' = Fresh(batch, Len(rs) + 1)
               /\ UNCHANGED <<verdicts, batch>>
            \/ /\ Len(rs) = N
               /\ results' = <<>>
               /\ verdicts' = Append(verdicts, Verdict(rs))
               /\ batch' = batch + 1
               /\ live' = Fresh(batch + 1, 1)
  BY DEF Judge
<1> DEFINE s == CaseStatus(config, legacy, m)
<1>2. s \in Status
  BY StatusIs
<1>3. batch \in 1..Batches
  BY Parameters DEF Judge, TypeOK
<1>4. Judges(m, s)
  BY <1>1, <1>2, <1>3 DEF Judge, Judges, ModernRuns
<1>5. GoesOn(Append(results, s)) \/ IsOver(Append(results, s))
  BY <1>1 DEF GoesOn, IsOver
<1> QED
  BY <1>4, <1>5

LEMMA BookStep ==
    ASSUME TypeOK, Bookkeeping, [Next]_vars
    PROVE  Bookkeeping'
<1> USE DEF container, reports
<1>1. CASE UNCHANGED vars
  BY <1>1 DEF vars, Bookkeeping, Current
<1>2. CASE LiveStep
  <2>1. live \in Exec /\ live.step \in {"start", "clean", "open"}
    BY <1>2 DEF LiveStep, Waiting, Running, TypeOK, Exec
  <2> QED
    BY <1>2, <2>1, AfterType, Parameters DEF LiveStep, Waiting, Bookkeeping, Current, TypeOK
<1>3. CASE LiveEnds
  BY <1>3, Parameters DEF LiveEnds, Waiting, Bookkeeping, Current, TypeOK, Exec
<1>4. CASE Timeout
  <2>1. cut' \subseteq 1..batch
    BY <1>4 DEF Timeout, Bookkeeping, TypeOK
  <2> QED
    BY <1>4, <2>1, Parameters DEF Timeout, Waiting, Bookkeeping, Current, TypeOK, Exec
<1>5. CASE ZombieStep \/ Exit
  BY <1>5 DEF ZombieStep, Exit, Bookkeeping, Current
<1>6. CASE Judge
  <2>1. PICK m, s : Judges(m, s) /\ (GoesOn(Append(results, s)) \/ IsOver(Append(results, s)))
    BY <1>6, JudgeIs
  <2> DEFINE rs == Append(results, s)
  <2>2. /\ rs \in Seq(Status) /\ Len(rs) = Current /\ DOMAIN rs = 1..Current
        /\ Current \in Nat \ {0} /\ DOMAIN results = 1..(Current - 1)
    BY <2>1, Judgment DEF Judges, Case
  <2>3. \A t \in faithful' : t[1] < batch \/ (t[1] = batch /\ t[2] \in DOMAIN rs)
    BY <2>1, <2>2 DEF Judges, Bookkeeping
  <2>4. cut' \subseteq 1..batch /\ batch \in Nat \ {0}
    BY <2>1 DEF Judges, Bookkeeping
  <2>5. CASE GoesOn(rs)
    BY <2>2, <2>3, <2>4, <2>5 DEF GoesOn, Fresh, Bookkeeping, Current
  <2>6. CASE IsOver(rs)
    <3>1. Len(results') = 0 /\ batch' = batch + 1 /\ live' = Fresh(batch + 1, 1)
      BY <2>6 DEF IsOver
    <3>2. \A t \in faithful' : t[1] \in Nat
      BY TypeStep DEF TypeOK
    <3>3. \A t \in faithful' : t[1] < batch'
      BY <2>3, <2>4, <3>1, <3>2
    <3> QED
      BY <2>4, <3>1, <3>3 DEF Fresh, Bookkeeping, Current
  <2> QED
    BY <2>1, <2>5, <2>6
<1> QED
  BY <1>1, <1>2, <1>3, <1>4, <1>5, <1>6 DEF Next

\* Nothing was cut off before, and now neither: the container was and is the
\* live run's.
LEMMA UndisputedStep ==
    ASSUME TypeOK, Bookkeeping, Undisputed, [Next]_vars
    PROVE  Undisputed'
<1> SUFFICES ASSUME cut' = {}
             PROVE  /\ zombies' = {}
                    /\ live'.step = "clean" => file' = NoFile
                    /\ live'.step = "open" => file'.ino = live'.ino /\ file'.recs = {}
                    /\ live'.step = "closed" => file'.recs = Own(live'.case)
                    /\ live'.step = "done" => legacy' = OwnRun(live'.case)
  BY DEF Undisputed, Own, OwnRun, ExitOf
<1> USE DEF container, reports
<1>1. CASE UNCHANGED vars
  BY <1>1 DEF vars, Undisputed
<1>2. CASE LiveStep
  <2>1. /\ cut = {} /\ zombies' = {} /\ live \in Exec
        /\ live' = After(live).exec /\ file' = After(live).file
    BY <1>2 DEF LiveStep, Undisputed, TypeOK
  <2>2. CASE live.step = "start"
    BY <2>1, <2>2 DEF After, Removed, Exec
  <2>3. CASE live.step = "clean" /\ live.case \in Abends
    BY <2>1, <2>3 DEF After, Opened, Exec, Undisputed, Own, NoFile
  <2>4. CASE live.step = "clean" /\ live.case \notin Abends
    <3> DEFINE i == IF file = NoFile THEN inodes + 1 ELSE file.ino
    <3>1. live' = [live EXCEPT !.step = "open", !.ino = i] /\ file' = [ino |-> i, recs |-> {}]
      BY <2>1, <2>4 DEF After, Opened
    <3> HIDE DEF i
    <3>2. live'.step = "open" /\ live'.ino = i
      BY <2>1, <3>1 DEF Exec
    <3> QED
      BY <2>1, <3>1, <3>2
  <2>5. CASE live.step = "open"
    <3>1. file.ino = live.ino /\ file.recs = {} /\ live.case \notin Abends
      BY <2>1, <2>5 DEF Undisputed, Bookkeeping
    <3>2. live' = [live EXCEPT !.step = "closed"]
          /\ file' = [file EXCEPT !.recs = {live.case}]
      BY <2>1, <2>5, <3>1 DEF After, Wrote
    <3>3. live'.step = "closed" /\ live'.case = live.case /\ file'.recs = {live.case}
      BY <2>1, <3>2 DEF Exec, TypeOK
    <3> QED
      BY <2>1, <3>1, <3>3 DEF Own
  <2> QED
    BY <1>2, <2>1, <2>2, <2>3, <2>4, <2>5 DEF LiveStep, Waiting, Running, Exec
<1>3. CASE LiveEnds
  <2>1. /\ cut = {} /\ zombies' = {} /\ file.recs = Own(live.case)
        /\ legacy' = OwnRun(live.case)
    BY <1>3 DEF LiveEnds, Undisputed, Cat, OwnRun
  <2>2. live'.step = "done" /\ live'.case = live.case
    BY <1>3 DEF LiveEnds, TypeOK, Exec
  <2> QED
    BY <2>1, <2>2
<1>4. CASE Timeout
  BY <1>4 DEF Timeout
<1>5. CASE ZombieStep
  BY <1>5 DEF ZombieStep, Undisputed
<1>6. CASE Judge
  <2>1. PICK m, s : Judges(m, s) /\ (GoesOn(Append(results, s)) \/ IsOver(Append(results, s)))
    BY <1>6, JudgeIs
  <2>2. cut = {} /\ zombies' = zombies /\ live'.step = "start"
    BY <2>1 DEF Judges, GoesOn, IsOver, Fresh
  <2> QED
    BY <2>2 DEF Undisputed
<1>7. CASE Exit
  BY <1>7 DEF Exit, Undisputed, Bookkeeping
<1> QED
  BY <1>1, <1>2, <1>3, <1>4, <1>5, <1>6, <1>7 DEF Next
\* A run that is over was printed by the program itself, or cut off.
LEMMA EndedStep ==
    ASSUME TypeOK, Ended, [Next]_vars
    PROVE  Ended'
<1> USE DEF container, reports
<1>1. CASE UNCHANGED vars \/ ZombieStep \/ Exit
  BY <1>1 DEF vars, ZombieStep, Exit, Ended, Running, ExitOf
<1>2. CASE LiveStep
  <2>1. live \in Exec /\ live.step \in {"start", "clean", "open"}
    BY <1>2 DEF LiveStep, Waiting, Running, TypeOK, Exec
  <2>2. live'.step # "done"
    BY <1>2, <2>1, AfterType DEF LiveStep
  <2> QED
    BY <2>2 DEF Ended, Running
<1>3. CASE LiveEnds
  <2>1. live \in Exec /\ live'.case = live.case
    BY <1>3 DEF LiveEnds, TypeOK, Exec
  <2>2. legacy' \in RunResult /\ ~legacy'.error /\ legacy'.exit = ExitOf(live.case)
    BY <1>3, <2>1, RunsAre DEF LiveEnds, Cat
  <2> QED
    BY <2>1, <2>2 DEF Ended, ExitOf
<1>4. CASE Timeout
  BY <1>4 DEF Timeout, Ended
<1>5. CASE Judge
  BY <1>5, JudgeIs DEF Judges, GoesOn, IsOver, Fresh, Ended, Running
<1> QED
  BY <1>1, <1>2, <1>3, <1>4, <1>5 DEF Next

\* What was cut off is on record: in the results of its batch, or in the run
\* about to be judged, which cannot pass.
LEMMA CutShowsAfter ==
    ASSUME TypeOK, CutShows, NEW m, NEW s, Judges(m, s)
    PROVE  LET rs == Append(results, s) IN
           batch \in cut' => \E i \in DOMAIN rs : rs[i] # "PASS"
<1> DEFINE rs == Append(results, s)
<1>1. /\ DOMAIN rs = 1..Current /\ DOMAIN results = 1..(Current - 1) /\ Current \in Nat \ {0}
      /\ rs[Current] = s /\ \A i \in DOMAIN results : rs[i] = results[i]
  BY Judgment DEF Judges, Case
<1> HIDE DEF rs
<1>2. CASE \E i \in DOMAIN results : results[i] # "PASS"
  BY <1>1, <1>2 DEF rs
<1>3. CASE m.error \/ legacy = NoRun
  <2>1. s # "PASS"
    BY <1>3, StatusOfOther DEF Judges, TypeOK, LoadConfig
  <2> QED
    BY <1>1, <2>1 DEF rs
<1> QED
  BY <1>2, <1>3 DEF CutShows, Judges

LEMMA CutShowsStep ==
    ASSUME TypeOK, Bookkeeping, CutShows, [Next]_vars
    PROVE  CutShows'
<1> USE DEF container, reports
<1>1. CASE UNCHANGED vars \/ ZombieStep \/ Exit
  BY <1>1 DEF vars, ZombieStep, Exit, CutShows, Running
<1>2. CASE LiveStep \/ LiveEnds
  BY <1>2 DEF LiveStep, LiveEnds, Waiting, Running, CutShows
<1>3. CASE Timeout
  <2>1. live'.step = "done" /\ legacy' = NoRun
    BY <1>3 DEF Timeout, TypeOK, Exec
  <2> QED
    BY <2>1 DEF CutShows, Running
<1>4. CASE Judge
  <2>1. PICK m, s : Judges(m, s) /\ (GoesOn(Append(results, s)) \/ IsOver(Append(results, s)))
    BY <1>4, JudgeIs
  <2>2. CASE GoesOn(Append(results, s))
    BY <2>1, <2>2, CutShowsAfter DEF GoesOn, CutShows
  <2>3. CASE IsOver(Append(results, s))
    BY <2>1, <2>3 DEF IsOver, Judges, Bookkeeping, TypeOK, CutShows
  <2> QED
    BY <2>1, <2>2, <2>3
<1> QED
  BY <1>1, <1>2, <1>3, <1>4 DEF Next

\* What a judgment leaves to be said of all the results so far, the new one
\* included, whether or not it is the last of its batch.
LEMMA JudgedAfter ==
    ASSUME TypeOK, Bookkeeping, Undisputed, Ended, Judged, NEW m, NEW s, Judges(m, s)
    PROVE  LET rs == Append(results, s) IN
           \A i \in DOMAIN rs :
             /\ rs[i] = "PASS" => (i \in Abends => config.abnormal)
             /\ cut' = {} /\ rs[i] = "PASS" => <<batch, i>> \in faithful'
             /\ cut' = {} /\ Declared /\ <<batch, i>> \in faithful' => rs[i] = "PASS"
<1> DEFINE rs == Append(results, s)
<1>1. /\ DOMAIN rs = 1..Current /\ DOMAIN results = 1..(Current - 1) /\ Current \in Case
      /\ rs[Current] = s /\ \A i \in DOMAIN results : rs[i] = results[i]
  BY Judgment DEF Judges
<1>2. cut' = {} => cut = {}
  BY DEF Judges
<1>3. /\ faithful \subseteq faithful' /\ faithful' \subseteq faithful \cup {<<batch, Current>>}
      /\ <<batch, Current>> \in faithful' <=> DoesAsLegacy(m, Current)
  <2>1. \A t \in faithful : t # <<batch, Current>>
    BY <1>1, Parameters DEF Bookkeeping, TypeOK, Judges, Case
  <2> QED
    BY <2>1 DEF Judges
<1>4. ~Running(live) /\ live.case = Current /\ config \in Config /\ m \in RunResult
      /\ s = CaseStatus(config, legacy, m)
  BY DEF Judges, Bookkeeping, TypeOK, LoadConfig
<1> HIDE DEF rs
<1>5. ASSUME NEW i \in DOMAIN results
      PROVE  /\ rs[i] = "PASS" => (i \in Abends => config.abnormal)
             /\ cut' = {} /\ rs[i] = "PASS" => <<batch, i>> \in faithful'
             /\ cut' = {} /\ Declared /\ <<batch, i>> \in faithful' => rs[i] = "PASS"
  <2>1. i # Current /\ rs[i] = results[i]
    BY <1>1 DEF Case
  <2>2. <<batch, i>> \in faithful' <=> <<batch, i>> \in faithful
    BY <1>3, <2>1
  <2> QED
    BY <1>2, <2>1, <2>2 DEF Judged
<1>6. s = "PASS" => (Current \in Abends => config.abnormal)
  <2>1. Current \in Abends => legacy.exit # 0
    BY <1>4, Parameters DEF Ended, NoRun, ExitOf
  <2> QED
    BY <1>4, <2>1, StatusOfOther
<1>7. ASSUME cut' = {}
      PROVE  /\ s = "PASS" => <<batch, Current>> \in faithful'
             /\ Declared /\ <<batch, Current>> \in faithful' => s = "PASS"
  <2>1. legacy = OwnRun(Current)
    BY <1>2, <1>4, <1>7 DEF Undisputed, Running
  <2>2. Declared => config.abnormal \/ Current \notin Abends
    BY DEF Declared
  <2> QED
    BY <1>1, <1>3, <1>4, <2>1, <2>2, StatusOfOwnRun
<1>8. \A i \in DOMAIN rs : i \in DOMAIN results \/ i = Current
  BY <1>1 DEF Case
<1> QED
  BY <1>1, <1>5, <1>6, <1>7, <1>8 DEF rs

LEMMA JudgedStep ==
    ASSUME TypeOK, Bookkeeping, Undisputed, Ended, Judged, [Next]_vars
    PROVE  Judged'
<1> USE DEF container, reports
<1>1. CASE UNCHANGED vars \/ LiveStep \/ LiveEnds \/ ZombieStep \/ Exit
  BY <1>1 DEF vars, LiveStep, LiveEnds, ZombieStep, Exit, Judged, Declared
<1>2. CASE Timeout
  BY <1>2 DEF Timeout, Judged
<1>3. CASE Judge
  <2>1. PICK m, s : Judges(m, s) /\ (GoesOn(Append(results, s)) \/ IsOver(Append(results, s)))
    BY <1>3, JudgeIs
  <2>2. config' = config
    BY <2>1 DEF Judges
  <2>3. CASE GoesOn(Append(results, s))
    BY <2>1, <2>2, <2>3, JudgedAfter DEF GoesOn, Judged, Declared
  <2>4. CASE IsOver(Append(results, s))
    BY <2>4 DEF IsOver, Judged
  <2> QED
    BY <2>1, <2>3, <2>4
<1> QED
  BY <1>1, <1>2, <1>3 DEF Next-----------------------------------------------------------------------------
(***************************************************************************)
(* The verdicts                                                            *)
(***************************************************************************)
\* Verdicts stand, and what the history variables say of their batches too.
LEMMA VerdictsStand ==
    ASSUME TypeOK, Bookkeeping, [Next]_vars
    PROVE  /\ config' = config /\ cut \subseteq cut' /\ faithful \subseteq faithful'
           /\ DOMAIN verdicts = 1..(batch - 1)
           /\ \A b \in DOMAIN verdicts :
                /\ verdicts'[b] = verdicts[b]
                /\ \A c \in Case : <<b, c>> \in faithful' => <<b, c>> \in faithful
<1> USE DEF container, reports
<1>1. DOMAIN verdicts = 1..(batch - 1)
  BY DEF TypeOK
<1>2. CASE ~Judge
  BY <1>1, <1>2 DEF vars, Next, LiveStep, LiveEnds, Timeout, ZombieStep, Exit
<1>3. CASE Judge
  <2>1. PICK m, s : Judges(m, s) /\ (GoesOn(Append(results, s)) \/ IsOver(Append(results, s)))
    BY <1>3, JudgeIs
  <2>2. \A b \in DOMAIN verdicts : \A c : <<b, c>> \in faithful' => <<b, c>> \in faithful
    BY <1>1, <2>1, Parameters DEF Judges, TypeOK
  <2>3. \A b \in DOMAIN verdicts : verdicts'[b] = verdicts[b]
    <3>1. CASE GoesOn(Append(results, s))
      BY <3>1 DEF GoesOn
    <3>2. CASE IsOver(Append(results, s))
      <4>1. Verdict(Append(results, s)) \in {"PASS", "FAIL"}
        BY DEF Verdict
      <4> QED
        BY <1>1, <2>1, <3>2, <4>1, VerdictAppended, Parameters DEF IsOver, Judges
    <3> QED
      BY <2>1, <3>1, <3>2
  <2> QED
    BY <1>1, <2>1, <2>2, <2>3 DEF Judges
<1> QED
  BY <1>2, <1>3

\* A new verdict only comes with the last judgment of the current batch.
LEMMA NewVerdict ==
    ASSUME TypeOK, [Next]_vars, NEW b \in DOMAIN verdicts', b \notin DOMAIN verdicts
    PROVE  /\ b = batch
           /\ \E m, s : /\ Judges(m, s) /\ IsOver(Append(results, s))
                        /\ DOMAIN Append(results, s) = Case
                        /\ verdicts'[b] = Verdict(Append(results, s))
<1> USE DEF container, reports
<1>1. Judge
  BY DEF vars, Next, LiveStep, LiveEnds, Timeout, ZombieStep, Exit
<1>2. PICK m, s : Judges(m, s) /\ (GoesOn(Append(results, s)) \/ IsOver(Append(results, s)))
  BY <1>1, JudgeIs
<1>3. IsOver(Append(results, s))
  BY <1>2 DEF GoesOn
<1>4. Verdict(Append(results, s)) \in {"PASS", "FAIL"}
  BY DEF Verdict
<1>5. batch \in Nat /\ batch <= Batches /\ batch' = batch + 1
  BY <1>2, <1>3, Parameters DEF IsOver, Judges
<1>6. DOMAIN verdicts = 1..(batch - 1) /\ DOMAIN verdicts' = 1..(batch' - 1)
      /\ verdicts'[batch] = Verdict(Append(results, s))
  BY <1>3, <1>4, <1>5, VerdictAppended DEF IsOver, TypeOK
<1>7. DOMAIN Append(results, s) = Case
  BY <1>2, <1>3, Judgment DEF IsOver, Judges, Case
<1> QED
  BY <1>2, <1>3, <1>5, <1>6, <1>7

LEMMA PassStep ==
    ASSUME Inv, [Next]_vars
    PROVE  PassIsEquivalence'
<1> SUFFICES ASSUME NEW b \in DOMAIN verdicts', verdicts'[b] = "PASS"
             PROVE  /\ Abends # {} => config'.abnormal
                    /\ (\A t \in cut' : t >= b) => \A c \in Case : <<b, c>> \in faithful'
  BY DEF PassIsEquivalence, Undisturbed
<1> USE DEF Inv
<1>1. CASE b \in DOMAIN verdicts
  BY <1>1, VerdictsStand DEF PassIsEquivalence, Undisturbed
<1>2. CASE b \notin DOMAIN verdicts
  <2>1. PICK m, s : /\ b = batch /\ Judges(m, s)
                    /\ DOMAIN Append(results, s) = Case
                    /\ verdicts'[b] = Verdict(Append(results, s))
    BY <1>2, NewVerdict
  <2> DEFINE rs == Append(results, s)
  <2>2. \A i \in Case : rs[i] = "PASS"
    BY <2>1 DEF Verdict
  <2>3. /\ \A i \in Case : i \in Abends => config.abnormal
        /\ cut' = {} => \A i \in Case : <<batch, i>> \in faithful'
    BY <2>1, <2>2, JudgedAfter
  <2>4. batch \notin cut'
    BY <2>1, <2>2, CutShowsAfter
  <2>5. (\A t \in cut' : t >= batch) => cut' = {}
    BY <2>1, <2>4 DEF Judges, Bookkeeping
  <2> QED
    BY <2>1, <2>3, <2>5, Parameters, VerdictsStand DEF Case
<1> QED
  BY <1>1, <1>2

LEMMA AlarmStep ==
    ASSUME Inv, [Next]_vars
    PROVE  NoFalseAlarm'
<1> SUFFICES ASSUME NEW b \in DOMAIN verdicts', \A t \in cut' : t >= b + 1,
                    (config.abnormal \/ Abends = {})',
                    \A c \in Case : <<b, c>> \in faithful'
             PROVE  verdicts'[b] = "PASS"
  BY DEF NoFalseAlarm, Undisturbed
<1> USE DEF Inv
<1>1. CASE b \in DOMAIN verdicts
  BY <1>1, VerdictsStand DEF NoFalseAlarm, Undisturbed
<1>2. CASE b \notin DOMAIN verdicts
  <2>1. PICK m, s : /\ b = batch /\ Judges(m, s)
                    /\ DOMAIN Append(results, s) = Case
                    /\ verdicts'[b] = Verdict(Append(results, s))
    BY <1>2, NewVerdict
  <2>2. cut' = {}
    BY <2>1 DEF Judges, Bookkeeping
  <2>3. Declared
    BY VerdictsStand DEF Declared
  <2>4. \A i \in Case : Append(results, s)[i] = "PASS"
    BY <2>1, <2>2, <2>3, JudgedAfter
  <2> QED
    BY <2>1, <2>4 DEF Verdict
<1> QED
  BY <1>1, <1>2
-----------------------------------------------------------------------------
LEMMA InitInv == Init => Inv
<1> SUFFICES ASSUME Init
             PROVE  Inv
  OBVIOUS
<1>1. 1 \in Case /\ 1 \in 1..(Batches + 1) /\ Batches \in Nat /\ N \in Nat \ {0}
  BY Parameters DEF Case
<1>2. results = <<>> /\ verdicts = <<>> /\ Len(results) = 0 /\ Current = 1
      /\ DOMAIN results = {} /\ DOMAIN verdicts = {}
  BY DEF Init, Current
<1>3. live \in Exec /\ live.batch = 1 /\ live.case = 1 /\ live.step = "start"
  BY <1>1 DEF Init, Fresh, Exec
<1>4. TypeOK
  <2>1. results \in Seq(Status) /\ Len(results) < N
    BY <1>1, <1>2, EmptySeq
  <2>2. verdicts \in [1..(batch - 1) -> {"PASS", "FAIL"}]
    BY <1>2 DEF Init
  <2> QED
    BY <1>1, <1>3, <2>1, <2>2, RunsAre DEF Init, TypeOK, NoFile
<1>5. Bookkeeping
  BY <1>1, <1>2, <1>3 DEF Init, Bookkeeping
<1>6. Undisputed /\ Ended /\ CutShows /\ Judged
  BY <1>2, <1>3 DEF Init, Undisputed, Ended, Running, CutShows, Judged
<1>7. PassIsEquivalence /\ NoFalseAlarm
  BY <1>2 DEF PassIsEquivalence, NoFalseAlarm
<1> QED
  BY <1>4, <1>5, <1>6, <1>7 DEF Inv

LEMMA InvHolds == Spec => []Inv
<1>1. Inv /\ [Next]_vars => Inv'
  <2> SUFFICES ASSUME Inv, [Next]_vars
               PROVE  Inv'
    OBVIOUS
  <2>1. TypeOK' /\ Bookkeeping'
    BY TypeStep, BookStep DEF Inv
  <2>2. Undisputed' /\ Ended'
    BY UndisputedStep, EndedStep DEF Inv
  <2>3. CutShows' /\ Judged'
    BY CutShowsStep, JudgedStep DEF Inv
  <2> QED
    BY <2>1, <2>2, <2>3, PassStep, AlarmStep DEF Inv
<1> QED
  BY InitInv, <1>1, PTL DEF Spec

\* Every state has the shape the code gives it: the case in hand is one of the
\* batch, and there is one verdict per finished batch.
THEOREM TypeCorrect == Spec => []TypeOK
<1>1. Inv => TypeOK
  BY DEF Inv
<1> QED
  BY <1>1, InvHolds, PTL

\* A verdict of PASS (runDiffCases, on which migrate selects) means that the
\* candidate did on every case as the legacy program does undisturbed, unless a
\* run of an EARLIER batch was cut off: a cut in this one cannot go unnoticed.
THEOREM PassMeansEquivalence == Spec => []PassIsEquivalence
<1>1. Inv => PassIsEquivalence
  BY DEF Inv
<1> QED
  BY <1>1, InvHolds, PTL

\* And a candidate that does as the legacy program on every case passes, unless
\* a run was cut off or the module ends abnormally without declaring it.
THEOREM FalseAlarmFree == Spec => []NoFalseAlarm
<1>1. Inv => NoFalseAlarm
  BY DEF Inv
<1> QED
  BY <1>1, InvHolds, PTL
=============================================================================
