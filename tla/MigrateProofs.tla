---------------------------- MODULE MigrateProofs ----------------------------
(***************************************************************************)
(* Migrate is well typed, what a finished run leaves of its winner is one  *)
(* source, the search for it misses nobody and wastes nothing, and all of  *)
(* it keeps the promise of VerifiedSelection: for any number of variants,  *)
(* rounds, cases and runs, with or without the gate, and wherever runs     *)
(* break off.                                                              *)
(*                                                                         *)
(* SelectionIsVerified speaks of the end of a run.  What every step keeps  *)
(* is FilesAgree: a candidate the code would call a winner has source,     *)
(* class and report of one text, and the candidate under evaluation has as *)
(* much of that as its label says.  Emission and compilation write into    *)
(* one directory only, so that takes Bookkeeping: no candidate is ever     *)
(* evaluated twice in a run.  The order of the search rests on Covered and *)
(* Needed, further down, and the refinement on all of them.                *)
(***************************************************************************)
EXTENDS Migrate, SequenceTheorems, LeastNat, TLAPS

Agreed(id, t) ==
    java[id] = t /\ class[id] = t /\ report[id] = [text |-> t, verdict |-> "PASS"]

\* Each candidate is evaluated once, in the order of the rounds.
Ordered ==
    /\ \A i, j \in DOMAIN outcomes : outcomes[i].id = outcomes[j].id => i = j
    /\ \A i \in DOMAIN outcomes : Round(outcomes[i].id) <= round
    /\ \A id \in pending :
         IF round = 0 THEN Round(id) = 0 /\ id \notin Ids
                      ELSE Round(id) = round - 1 /\ RepairOf(id) \notin Ids

Bookkeeping ==
    /\ Ordered
    /\ pc \in {"idle", "resolve"} => outcomes = <<>> /\ pending = {} /\ round = 0
    /\ pc \notin {"save", "write"} => winner = None
    /\ pc \in {"save", "write"} /\ winner # None =>
         \E i \in Winners : outcomes[i].id = winner
    /\ pc # "idle" => ~complete
    /\ pc \notin {"idle", "resolve"} => answers \in [1..Variants -> Text]

\* The candidate under evaluation, at each label.
Last == outcomes[Len(outcomes)]
InHand ==
    Evaluating =>
        /\ outcomes # <<>> /\ current \in [id : Id, text : Text]
        /\ Last.id = current.id /\ Last.text = current.text /\ Last.gate = "none"
        /\ pc \in {"emit", "compile"} => ~Last.compiled
        /\ pc # "gate" => Last.passed = 0
        /\ pc # "emit" => java[current.id] = current.text
        /\ pc \in {"verify", "gate"} => class[current.id] = current.text
        /\ pc = "gate" => Gate /\ report[current.id] =
                                    [text |-> current.text, verdict |-> "PASS"]

FilesAgree ==
    /\ InHand
    /\ \A i \in Winners : Agreed(outcomes[i].id, outcomes[i].text)

IInv == TypeOK /\ Bookkeeping /\ FilesAgree /\ SelectionIsVerified

-----------------------------------------------------------------------------
(***************************************************************************)
(* The sequence of outcomes: it grows at its end, and its last is replaced *)
(***************************************************************************)
LEMMA BeginType ==
    ASSUME TypeOK, NEW id \in Id, NEW t \in Text, Begin(id, t)
    PROVE  /\ outcomes' \in Seq(Outcome)
           /\ DOMAIN outcomes' = 1..Len(outcomes')
           /\ Len(outcomes') = Len(outcomes) + 1
           /\ \A i \in DOMAIN outcomes : i \in DOMAIN outcomes' /\ outcomes'[i] = outcomes[i]
           /\ outcomes'[Len(outcomes')] =
                [id |-> id, text |-> t, compiled |-> FALSE, passed |-> 0, gate |-> "none"]
           /\ current' = [id |-> id, text |-> t] /\ pc' = "emit"
<1> DEFINE o == [id |-> id, text |-> t, compiled |-> FALSE, passed |-> 0, gate |-> "none"]
<1>1. o \in Outcome
  BY Parameters DEF Outcome
<1>2. outcomes \in Seq(Outcome) /\ outcomes' = Append(outcomes, o)
  BY DEF TypeOK, Begin
<1> HIDE DEF o
<1>3. /\ outcomes' \in Seq(Outcome) /\ Len(outcomes') = Len(outcomes) + 1
      /\ \A i \in 1..Len(outcomes) : outcomes'[i] = outcomes[i]
      /\ outcomes'[Len(outcomes) + 1] = o
  BY <1>1, <1>2, AppendProperties
<1> QED
  BY <1>2, <1>3, LenProperties DEF o, Begin, Go

LEMMA LastType ==
    ASSUME TypeOK, outcomes # <<>>, NEW o \in Outcome,
           outcomes' = [outcomes EXCEPT ![Len(outcomes)] = o]
    PROVE  /\ outcomes' \in Seq(Outcome)
           /\ DOMAIN outcomes' = DOMAIN outcomes /\ Len(outcomes') = Len(outcomes)
           /\ DOMAIN outcomes = 1..Len(outcomes) /\ Len(outcomes) \in DOMAIN outcomes
           /\ \A i \in DOMAIN outcomes :
                outcomes'[i] = IF i = Len(outcomes) THEN o ELSE outcomes[i]
<1>1. outcomes \in Seq(Outcome) /\ Len(outcomes) \in 1..Len(outcomes)
  BY EmptySeq, LenProperties DEF TypeOK
<1> QED
  BY <1>1, ExceptSeq, LenProperties

LEMMA LastIsOutcome ==
    ASSUME TypeOK, outcomes # <<>>
    PROVE  Last \in Outcome
BY EmptySeq, ElementOfSeq, LenProperties DEF TypeOK, Last

LEMMA OutcomesAre ==
    ASSUME TypeOK
    PROVE  /\ DOMAIN outcomes = 1..Len(outcomes) /\ Len(outcomes) \in Nat
           /\ \A i \in DOMAIN outcomes : outcomes[i] \in Outcome
BY ElementOfSeq, LenProperties DEF TypeOK

\* The outcome of a candidate is the one that carries its name.
LEMMA OutcomeOfIs ==
    ASSUME Bookkeeping, NEW i \in DOMAIN outcomes
    PROVE  OutcomeOf(outcomes[i].id) = outcomes[i]
BY DEF Bookkeeping, Ordered, OutcomeOf

\* There is a first winner.
LEMMA FirstWinner ==
    ASSUME TypeOK, Winners # {}
    PROVE  (CHOOSE i \in Winners : \A j \in Winners : i <= j) \in Winners
<1>1. Winners \subseteq Nat
  BY OutcomesAre DEF Winners
<1>2. \E i \in Winners : \A j \in Winners : i <= j
  BY <1>1, Least
<1> QED
  BY <1>2

-----------------------------------------------------------------------------
(***************************************************************************)
(* Types                                                                   *)
(***************************************************************************)
LEMMA RepairOfIsInjective ==
    ASSUME NEW x \in Id, NEW y \in Id, RepairOf(x) = RepairOf(y)
    PROVE  x = y
<1>1. x[1] = y[1] /\ x[2] + 1 = y[2] + 1
  BY DEF RepairOf
<1>2. x[2] \in Int /\ y[2] \in Int /\ x = <<x[1], x[2]>> /\ y = <<y[1], y[2]>>
  BY Parameters DEF Id
<1> QED
  BY <1>1, <1>2

LEMMA RepairIsId ==
    ASSUME TypeOK, Bookkeeping, round > 0, NEW parent \in pending
    PROVE  /\ parent \in Id /\ RepairOf(parent) \in Id
           /\ Round(RepairOf(parent)) = round
           /\ RepairOf(parent) \notin Ids
BY Parameters DEF TypeOK, Bookkeeping, Ordered, Id, Round, RepairOf

\* What is written is a selection: it can be read.
LEMMA WrittenIsSelection ==
    ASSUME TypeOK, Bookkeeping, WriteSelection
    PROVE  /\ selection' \in Selection /\ selection'.winner = winner
           /\ selection' \notin {None, Torn}
<1>1. winner # None => OutcomeOf(winner).text \in Text
  BY OutcomeOfIs, OutcomesAre DEF WriteSelection, Bookkeeping, Winners, Outcome
<1>2. selection' \in Selection /\ selection'.winner = winner
  BY <1>1 DEF WriteSelection, TypeOK, Selection
<1> QED
  BY <1>2, NoneIsNoFile

LEMMA TypeInit == Init => TypeOK
BY Parameters, EmptySeq DEF Init, TypeOK, Id

LEMMA TypeStep ==
    ASSUME TypeOK, Bookkeeping, InHand, [Next]_vars
    PROVE  TypeOK'
<1> USE DEF disk, memory, Go, Forget
<1>1. CASE UNCHANGED vars
  BY <1>1 DEF vars, TypeOK
<1>2. CASE Start
  <2>1. runs' \in 0..MaxRuns
    BY <1>2, Parameters DEF Start, TypeOK
  <2> QED
    BY <1>2, <2>1 DEF Start, TypeOK
<1>3. CASE Abort
  <2>1. round' \in 0..MaxRepairs /\ outcomes' \in Seq(Outcome)
    BY <1>3, EmptySeq, Parameters DEF Abort
  <2> QED
    BY <1>3, <2>1 DEF Abort, TypeOK
<1>4. CASE Resolve
  <2>1. pending' \subseteq Id
    BY <1>4, Parameters DEF Resolve, Id
  <2> QED
    BY <1>4, <2>1 DEF Resolve, TypeOK
<1>5. CASE Evaluate
  <2>1. PICK id \in pending : Begin(id, answers[id[1]]) /\ pending' = pending \ {id}
    BY <1>5 DEF Evaluate
  <2>2. id \in Id /\ answers[id[1]] \in Text
    BY <1>5, <2>1 DEF TypeOK, Bookkeeping, Evaluate, Id
  <2>3. outcomes' \in Seq(Outcome) /\ pc' = "emit"
        /\ current' = [id |-> id, text |-> answers[id[1]]]
    BY <2>1, <2>2, BeginType
  <2> QED
    BY <1>5, <2>1, <2>2, <2>3 DEF Evaluate, TypeOK
<1>6. CASE Emit
  <2>1. current.id \in Id /\ current.text \in Text
    BY <1>6 DEF Emit, TypeOK, InHand, Evaluating
  <2> QED
    BY <1>6, <2>1 DEF Emit, TypeOK
<1>7. CASE Compile
  <2>1. outcomes # <<>> /\ current.id \in Id
    BY <1>7 DEF Compile, TypeOK, InHand, Evaluating
  <2>2. class' \in [Id -> Text \cup {None}] /\ pc' \in {"verify", "next"}
    BY <1>7, <2>1 DEF Compile, TypeOK
  <2>3. outcomes' \in Seq(Outcome)
    <3>1. CASE outcomes' = [outcomes EXCEPT ![Len(outcomes)] = [Last EXCEPT !.compiled = TRUE]]
      <4>1. [Last EXCEPT !.compiled = TRUE] \in Outcome
        BY <2>1, LastIsOutcome DEF Outcome
      <4> QED
        BY <2>1, <3>1, <4>1, LastType
    <3>2. CASE outcomes' = outcomes
      BY <3>2 DEF TypeOK
    <3> QED
      BY <1>7, <3>1, <3>2 DEF Compile, Last
  <2> QED
    BY <1>7, <2>2, <2>3 DEF Compile, TypeOK
<1>8. CASE Verify
  <2>1. PICK n \in 0..Cases, verdict \in {"PASS", "FAIL"} :
          /\ outcomes' = [outcomes EXCEPT ![Len(outcomes)] = [Last EXCEPT !.passed = n]]
          /\ report' = [report EXCEPT ![current.id] =
                          [text |-> class[current.id], verdict |-> verdict]]
          /\ pc' \in {"gate", "next"}
    BY <1>8 DEF Verify, Last
  <2>2. outcomes # <<>> /\ current.id \in Id /\ class[current.id] \in Text
    BY <1>8 DEF Verify, TypeOK, InHand, Evaluating
  <2>3. [Last EXCEPT !.passed = n] \in Outcome
    BY <2>2, LastIsOutcome DEF Outcome
  <2>4. outcomes' \in Seq(Outcome)
    BY <2>1, <2>2, <2>3, LastType
  <2> QED
    BY <1>8, <2>1, <2>2, <2>4 DEF Verify, TypeOK, Report
<1>9. CASE LayerAGate
  <2>1. PICK verdict \in {"PASS", "FAIL"} :
          outcomes' = [outcomes EXCEPT ![Len(outcomes)] = [Last EXCEPT !.gate = verdict]]
    BY <1>9 DEF LayerAGate, Last
  <2>2. outcomes # <<>>
    BY <1>9 DEF LayerAGate, InHand, Evaluating
  <2>3. [Last EXCEPT !.gate = verdict] \in Outcome
    BY <2>2, LastIsOutcome DEF Outcome
  <2>4. outcomes' \in Seq(Outcome)
    BY <2>1, <2>2, <2>3, LastType
  <2> QED
    BY <1>9, <2>4 DEF LayerAGate, TypeOK
<1>10. CASE Repair
  <2>1. PICK parent \in pending :
          /\ pending' = pending \ {parent}
          /\ \/ /\ \E t \in Text : Begin(RepairOf(parent), t)
                /\ UNCHANGED unanswered
             \/ /\ unanswered' = unanswered \cup {RepairOf(parent)}
                /\ UNCHANGED <<pc, current, outcomes>>
    BY <1>10 DEF Repair
  <2>2. RepairOf(parent) \in Id
    BY <1>10, <2>1, RepairIsId DEF Repair
  <2>3. ASSUME NEW t \in Text, Begin(RepairOf(parent), t), UNCHANGED unanswered
        PROVE  TypeOK'
    <3>1. outcomes' \in Seq(Outcome) /\ pc' = "emit"
          /\ current' = [id |-> RepairOf(parent), text |-> t]
      BY <2>2, <2>3, BeginType
    <3> QED
      BY <1>10, <2>1, <2>2, <2>3, <3>1 DEF Repair, TypeOK
  <2>4. CASE /\ unanswered' = unanswered \cup {RepairOf(parent)}
             /\ UNCHANGED <<pc, current, outcomes>>
    BY <1>10, <2>1, <2>2, <2>4 DEF Repair, TypeOK
  <2> QED
    BY <2>1, <2>3, <2>4
<1>11. CASE Win
  <2>1. PICK i \in Winners : winner' = outcomes[i].id
    BY <1>11, FirstWinner DEF Win
  <2>2. winner' \in Id
    BY <2>1, OutcomesAre DEF Winners, Outcome
  <2> QED
    BY <1>11, <2>2 DEF Win, TypeOK
<1>12. CASE NextRound
  <2>1. round' \in 0..MaxRepairs
    BY <1>12, Parameters DEF NextRound, TypeOK
  <2>2. pending' \subseteq Id
    BY <1>12, OutcomesAre DEF NextRound, FailedIn, Outcome
  <2> QED
    BY <1>12, <2>1, <2>2 DEF NextRound, TypeOK
<1>13. CASE GiveUp
  BY <1>13 DEF GiveUp, TypeOK
<1>14. CASE OpenSelection
  BY <1>14 DEF OpenSelection, TypeOK
<1>15. CASE WriteSelection
  <2>1. selection' \in Selection
    BY <1>15, WrittenIsSelection
  <2>2. round' \in 0..MaxRepairs /\ outcomes' \in Seq(Outcome)
    BY <1>15, EmptySeq, Parameters DEF WriteSelection
  <2> QED
    BY <1>15, <2>1, <2>2 DEF WriteSelection, TypeOK
<1> QED
  BY <1>1, <1>2, <1>3, <1>4, <1>5, <1>6, <1>7, <1>8, <1>9, <1>10, <1>11, <1>12,
     <1>13, <1>14, <1>15 DEF Next, Step

-----------------------------------------------------------------------------
(***************************************************************************)
(* Bookkeeping                                                             *)
(***************************************************************************)
\* An outcome may be replaced by another of the same candidate.
LEMMA OrderedKept ==
    ASSUME Ordered, DOMAIN outcomes' = DOMAIN outcomes,
           \A i \in DOMAIN outcomes : outcomes'[i].id = outcomes[i].id,
           UNCHANGED <<pending, round>>
    PROVE  Ordered'
<1>1. Ids' = Ids
  BY DEF Ids
<1> QED
  BY <1>1 DEF Ordered

\* A candidate that is new may be begun.
LEMMA OrderedGrows ==
    ASSUME TypeOK, Ordered, NEW id \in Id, NEW t \in Text, Begin(id, t),
           id \notin Ids, Round(id) <= round, round' = round, pending' \subseteq pending,
           \A other \in pending' : IF round = 0 THEN other # id ELSE RepairOf(other) # id
    PROVE  Ordered'
<1>1. /\ DOMAIN outcomes' = 1..(Len(outcomes) + 1) /\ DOMAIN outcomes = 1..Len(outcomes)
      /\ Len(outcomes) \in Nat
      /\ \A i \in DOMAIN outcomes : outcomes'[i] = outcomes[i]
      /\ outcomes'[Len(outcomes) + 1].id = id
  <2>1. DOMAIN outcomes = 1..Len(outcomes) /\ Len(outcomes) \in Nat
    BY OutcomesAre
  <2>2. /\ DOMAIN outcomes' = 1..Len(outcomes') /\ Len(outcomes') = Len(outcomes) + 1
        /\ \A i \in DOMAIN outcomes : outcomes'[i] = outcomes[i]
        /\ outcomes'[Len(outcomes')] =
             [id |-> id, text |-> t, compiled |-> FALSE, passed |-> 0, gate |-> "none"]
    BY BeginType, Zenon
  <2> QED
    BY <2>1, <2>2
<1>2. \A i \in DOMAIN outcomes' : i \in DOMAIN outcomes \/ i = Len(outcomes) + 1
  BY <1>1
<1>3. \A i \in DOMAIN outcomes : outcomes[i].id # id
  BY DEF Ids
<1>4. Ids' = Ids \cup {id}
  BY <1>1, <1>2 DEF Ids
<1>5. \A i, j \in DOMAIN outcomes' : outcomes'[i].id = outcomes'[j].id => i = j
  BY <1>1, <1>2, <1>3 DEF Ordered
<1>6. \A i \in DOMAIN outcomes' : Round(outcomes'[i].id) <= round'
  BY <1>1, <1>2 DEF Ordered
<1> QED
  BY <1>4, <1>5, <1>6 DEF Ordered

LEMMA BookStep ==
    ASSUME TypeOK, Bookkeeping, InHand, [Next]_vars
    PROVE  Bookkeeping'
<1> USE DEF disk, memory, Go
<1>1. CASE UNCHANGED vars
  BY <1>1, OrderedKept DEF vars, Bookkeeping, Winners
<1>2. CASE Start
  BY <1>2, OrderedKept DEF Start, Idle, Bookkeeping
<1>3. ASSUME Forget, pc' = "idle" PROVE Bookkeeping'
  BY <1>3 DEF Forget, Bookkeeping, Ordered
<1>4. CASE Resolve
  <2>1. outcomes = <<>> /\ outcomes' = <<>> /\ round' = 0 /\ Ids' = {}
    BY <1>4 DEF Resolve, Bookkeeping, Ids
  <2>2. Ordered'
    BY <1>4, <2>1 DEF Resolve, Ordered, Round
  <2> QED
    BY <1>4, <2>2 DEF Resolve, Bookkeeping
<1>5. CASE Evaluate
  <2>1. PICK id \in pending : Begin(id, answers[id[1]]) /\ pending' = pending \ {id}
    BY <1>5 DEF Evaluate
  <2>2. id \in Id /\ answers[id[1]] \in Text /\ Round(id) = 0 /\ id \notin Ids
    BY <1>5, <2>1 DEF TypeOK, Bookkeeping, Ordered, Evaluate, Id
  <2>3. Ordered'
    BY <1>5, <2>1, <2>2, OrderedGrows DEF Evaluate, Bookkeeping
  <2> QED
    BY <1>5, <2>1, <2>3 DEF Evaluate, Begin, Bookkeeping
<1>6. CASE Emit
  BY <1>6, OrderedKept DEF Emit, Bookkeeping
<1>7. CASE Compile
  <2>1. CASE outcomes' = [outcomes EXCEPT ![Len(outcomes)] = [Last EXCEPT !.compiled = TRUE]]
    <3>1. outcomes # <<>> /\ Last \in Outcome
      BY <1>7, LastIsOutcome DEF Compile, InHand, Evaluating
    <3>2. [Last EXCEPT !.compiled = TRUE] \in Outcome
          /\ [Last EXCEPT !.compiled = TRUE].id = Last.id
      BY <3>1 DEF Outcome
    <3>3. Ordered'
      BY <1>7, <2>1, <3>1, <3>2, LastType, OrderedKept DEF Compile, Bookkeeping, Last
    <3> QED
      BY <1>7, <3>3 DEF Compile, Bookkeeping
  <2>2. CASE UNCHANGED outcomes
    BY <1>7, <2>2, OrderedKept DEF Compile, Bookkeeping
  <2> QED
    BY <1>7, <2>1, <2>2 DEF Compile, Last
<1>8. CASE Verify
  <2>1. PICK n \in 0..Cases :
          outcomes' = [outcomes EXCEPT ![Len(outcomes)] = [Last EXCEPT !.passed = n]]
    BY <1>8 DEF Verify, Last
  <2>2. outcomes # <<>> /\ Last \in Outcome
    BY <1>8, LastIsOutcome DEF Verify, InHand, Evaluating
  <2>3. [Last EXCEPT !.passed = n] \in Outcome /\ [Last EXCEPT !.passed = n].id = Last.id
    BY <2>2 DEF Outcome
  <2>4. Ordered'
    BY <1>8, <2>1, <2>2, <2>3, LastType, OrderedKept DEF Verify, Bookkeeping, Last
  <2>5. pc' \in {"gate", "next"}
    BY <1>8 DEF Verify
  <2> QED
    BY <1>8, <2>4, <2>5 DEF Verify, Bookkeeping
<1>9. CASE LayerAGate
  <2>1. PICK verdict \in {"PASS", "FAIL"} :
          outcomes' = [outcomes EXCEPT ![Len(outcomes)] = [Last EXCEPT !.gate = verdict]]
    BY <1>9 DEF LayerAGate, Last
  <2>2. outcomes # <<>> /\ Last \in Outcome
    BY <1>9, LastIsOutcome DEF LayerAGate, InHand, Evaluating
  <2>3. [Last EXCEPT !.gate = verdict] \in Outcome
        /\ [Last EXCEPT !.gate = verdict].id = Last.id
    BY <2>2 DEF Outcome
  <2>4. Ordered'
    BY <1>9, <2>1, <2>2, <2>3, LastType, OrderedKept DEF LayerAGate, Bookkeeping, Last
  <2> QED
    BY <1>9, <2>4 DEF LayerAGate, Bookkeeping
<1>10. CASE Repair
  <2>1. PICK parent \in pending :
          /\ pending' = pending \ {parent}
          /\ \/ /\ \E t \in Text : Begin(RepairOf(parent), t)
                /\ UNCHANGED unanswered
             \/ /\ unanswered' = unanswered \cup {RepairOf(parent)}
                /\ UNCHANGED <<pc, current, outcomes>>
    BY <1>10 DEF Repair
  <2>2. /\ RepairOf(parent) \in Id /\ RepairOf(parent) \notin Ids
        /\ Round(RepairOf(parent)) <= round
    BY <1>10, <2>1, RepairIsId DEF Repair, TypeOK
  <2>3. \A other \in pending' : RepairOf(other) # RepairOf(parent)
    BY <2>1, RepairOfIsInjective DEF TypeOK
  <2>4. ASSUME NEW t \in Text, Begin(RepairOf(parent), t) PROVE Bookkeeping'
    <3>1. Ordered'
      BY <1>10, <2>1, <2>2, <2>3, <2>4, OrderedGrows DEF Repair, Bookkeeping
    <3> QED
      BY <1>10, <2>4, <3>1 DEF Repair, Begin, Bookkeeping
  <2>5. CASE UNCHANGED <<pc, current, outcomes>>
    <3>1. Ids' = Ids
      BY <2>5 DEF Ids
    <3>2. Ordered'
      BY <1>10, <2>1, <2>5, <3>1 DEF Repair, Bookkeeping, Ordered
    <3> QED
      BY <1>10, <2>5, <3>2 DEF Repair, Bookkeeping
  <2> QED
    BY <2>1, <2>4, <2>5
<1>11. CASE Win
  <2>1. PICK i \in Winners : winner' = outcomes[i].id
    BY <1>11, FirstWinner DEF Win
  <2>2. Winners' = Winners
    BY <1>11 DEF Win, Winners
  <2> QED
    BY <1>11, <2>1, <2>2, OrderedKept DEF Win, Bookkeeping
<1>12. CASE NextRound
  <2>1. Ids' = Ids /\ round' = round + 1 /\ pending' = FailedIn(round)
        /\ outcomes' = outcomes /\ round \in Nat
    BY <1>12, Parameters DEF NextRound, Ids, TypeOK
  <2>2. \A id \in Ids : id \in Id /\ Round(id) \in Nat /\ Round(id) <= round
    BY OutcomesAre DEF Ids, Bookkeeping, Ordered, Outcome, Round, Id
  <2>3. \A id \in pending' : id \in Ids /\ Round(id) = round
    BY <2>1 DEF FailedIn, Ids
  <2>4. \A id \in pending' : RepairOf(id) \notin Ids
    BY <2>2, <2>3, <2>1 DEF RepairOf, Round
  <2>5. \A i \in DOMAIN outcomes' : Round(outcomes'[i].id) <= round'
    BY <2>1, <2>2 DEF Ids
  <2>6. Ordered'
    BY <2>1, <2>3, <2>4, <2>5 DEF Bookkeeping, Ordered
  <2> QED
    BY <1>12, <2>6 DEF NextRound, Bookkeeping
<1>13. CASE GiveUp
  BY <1>13, OrderedKept DEF GiveUp, Bookkeeping
<1>14. CASE OpenSelection
  <2>1. Winners' = Winners
    BY <1>14 DEF OpenSelection, Winners
  <2> QED
    BY <1>14, <2>1, OrderedKept DEF OpenSelection, Bookkeeping
<1> QED
  BY <1>1, <1>2, <1>3, <1>4, <1>5, <1>6, <1>7, <1>8, <1>9, <1>10, <1>11, <1>12,
     <1>13, <1>14 DEF Next, Step, Abort, WriteSelection

-----------------------------------------------------------------------------
(***************************************************************************)
(* Files                                                                   *)
(***************************************************************************)
AgreedNext(id, t) ==
    java'[id] = t /\ class'[id] = t /\ report'[id] = [text |-> t, verdict |-> "PASS"]

\* A step that writes into the directory of the candidate under evaluation
\* leaves those of the others alone.
LEMMA OthersAgree ==
    ASSUME TypeOK, Bookkeeping, FilesAgree, Evaluating,
           \A id \in Id \ {current.id} :
               java'[id] = java[id] /\ class'[id] = class[id] /\ report'[id] = report[id],
           NEW i \in Winners, i # Len(outcomes)
    PROVE  AgreedNext(outcomes[i].id, outcomes[i].text)
<1>1. outcomes # <<>> /\ Last.id = current.id
  BY DEF FilesAgree, InHand
<1>2. i \in DOMAIN outcomes /\ outcomes[i].id \in Id
  BY OutcomesAre DEF Winners, Outcome
<1>3. Len(outcomes) \in DOMAIN outcomes
  BY <1>1, OutcomesAre, EmptySeq DEF TypeOK
<1>4. outcomes[i].id # current.id
  BY <1>1, <1>2, <1>3 DEF Bookkeeping, Ordered, Last
<1>5. Agreed(outcomes[i].id, outcomes[i].text)
  BY DEF FilesAgree
<1> QED
  BY <1>2, <1>4, <1>5 DEF Agreed, AgreedNext

\* So it is enough to look at the candidate whose outcome is replaced.
LEMMA LastReplaced ==
    ASSUME TypeOK, Bookkeeping, FilesAgree, Evaluating,
           \A id \in Id \ {current.id} :
               java'[id] = java[id] /\ class'[id] = class[id] /\ report'[id] = report[id],
           NEW o \in Outcome, outcomes' = [outcomes EXCEPT ![Len(outcomes)] = o],
           IsWinner(o) => AgreedNext(o.id, o.text)
    PROVE  (\A i \in Winners : Agreed(outcomes[i].id, outcomes[i].text))'
<1>1. outcomes # <<>>
  BY DEF FilesAgree, InHand
<1>2. SUFFICES ASSUME NEW i \in DOMAIN outcomes', IsWinner(outcomes'[i])
               PROVE  AgreedNext(outcomes'[i].id, outcomes'[i].text)
  BY DEF Winners, IsWinner, Agreed, AgreedNext
<1>3. i \in DOMAIN outcomes
      /\ outcomes'[i] = IF i = Len(outcomes) THEN o ELSE outcomes[i]
  BY <1>1, LastType
<1>4. CASE i = Len(outcomes)
  BY <1>2, <1>3, <1>4
<1>5. CASE i # Len(outcomes)
  <2>1. i \in Winners
    BY <1>2, <1>3, <1>5 DEF Winners
  <2> QED
    BY <1>3, <1>5, <2>1, OthersAgree
<1> QED
  BY <1>4, <1>5

\* A candidate that has just been begun is no winner.
LEMMA BegunAgrees ==
    ASSUME TypeOK, FilesAgree, NEW id \in Id, NEW t \in Text, Begin(id, t), UNCHANGED disk
    PROVE  FilesAgree'
<1>1. /\ DOMAIN outcomes' = 1..Len(outcomes') /\ Len(outcomes') = Len(outcomes) + 1
      /\ \A i \in DOMAIN outcomes : outcomes'[i] = outcomes[i]
      /\ outcomes'[Len(outcomes')] =
           [id |-> id, text |-> t, compiled |-> FALSE, passed |-> 0, gate |-> "none"]
      /\ current' = [id |-> id, text |-> t] /\ pc' = "emit"
  BY BeginType, Zenon
<1>2. DOMAIN outcomes = 1..Len(outcomes) /\ Len(outcomes) \in Nat
  BY OutcomesAre
<1>3. ~IsWinner(outcomes'[Len(outcomes')])
  BY <1>1 DEF IsWinner
<1>4. \A i \in Winners' : i \in Winners /\ outcomes'[i] = outcomes[i]
  BY <1>1, <1>2, <1>3 DEF Winners
<1>5. (\A i \in Winners : Agreed(outcomes[i].id, outcomes[i].text))'
  BY <1>4 DEF FilesAgree, Agreed, disk
<1>6. outcomes' # <<>>
  BY <1>1, <1>2, EmptySeq
<1>7. current' \in [id : Id, text : Text]
  BY <1>1
<1> QED
  BY <1>1, <1>5, <1>6, <1>7 DEF FilesAgree, InHand, Last, Evaluating

LEMMA FilesStep ==
    ASSUME TypeOK, Bookkeeping, FilesAgree, [Next]_vars
    PROVE  FilesAgree'
<1> USE DEF disk, memory, Go
<1>1. ASSUME UNCHANGED <<disk, outcomes, current, pc>> PROVE FilesAgree'
  BY <1>1 DEF FilesAgree, InHand, Evaluating, Last, Winners, Agreed
<1>2. ASSUME UNCHANGED <<disk, outcomes>>, ~Evaluating' PROVE FilesAgree'
  BY <1>2 DEF FilesAgree, InHand, Winners, Agreed
<1>3. ASSUME Forget, pc' = "idle" PROVE FilesAgree'
  BY <1>3 DEF Forget, FilesAgree, InHand, Evaluating, Winners
<1>4. CASE UNCHANGED vars
  BY <1>1, <1>4 DEF vars
<1>5. CASE Start
  BY <1>2, <1>5 DEF Start, Evaluating
<1>6. CASE Resolve
  BY <1>2, <1>6 DEF Resolve, Evaluating
<1>7. CASE Win
  BY <1>2, <1>7 DEF Win, Evaluating
<1>8. CASE NextRound
  BY <1>1, <1>8 DEF NextRound
<1>9. CASE GiveUp
  BY <1>2, <1>9 DEF GiveUp, Evaluating
<1>10. CASE Evaluate
  <2>1. PICK id \in pending : Begin(id, answers[id[1]])
    BY <1>10 DEF Evaluate
  <2>2. id \in Id /\ answers[id[1]] \in Text
    BY <1>10, <2>1 DEF TypeOK, Bookkeeping, Evaluate, Id
  <2> QED
    BY <1>10, <2>1, <2>2, BegunAgrees DEF Evaluate
<1>11. CASE Repair
  <2>1. PICK parent \in pending :
          \/ \E t \in Text : Begin(RepairOf(parent), t)
          \/ UNCHANGED <<pc, current, outcomes>>
    BY <1>11 DEF Repair
  <2>2. RepairOf(parent) \in Id
    BY <1>11, <2>1, RepairIsId DEF Repair
  <2> QED
    BY <1>1, <1>11, <2>1, <2>2, BegunAgrees DEF Repair
<1>12. CASE Emit
  <2>1. Evaluating /\ ~Last.compiled /\ current.id \in Id /\ outcomes # <<>>
    BY <1>12 DEF Emit, Evaluating, FilesAgree, InHand
  <2>2. \A id \in Id \ {current.id} :
          java'[id] = java[id] /\ class'[id] = class[id] /\ report'[id] = report[id]
    BY <1>12, <2>1 DEF Emit, TypeOK
  <2>3. \A i \in Winners : i # Len(outcomes)
    BY <2>1 DEF Winners, IsWinner, Last
  <2>4. \A i \in Winners : AgreedNext(outcomes[i].id, outcomes[i].text)
    BY <2>1, <2>2, <2>3, OthersAgree
  <2>5. java'[current.id] = current.text
    BY <1>12, <2>1 DEF Emit, TypeOK
  <2> QED
    BY <1>12, <2>1, <2>4, <2>5
       DEF Emit, FilesAgree, InHand, Evaluating, Last, Winners, Agreed, AgreedNext
<1>13. CASE Compile
  <2>1. /\ Evaluating /\ current.id \in Id /\ outcomes # <<>> /\ Last \in Outcome
        /\ Last.id = current.id /\ Last.text = current.text /\ Last.gate = "none"
        /\ Last.passed = 0 /\ java[current.id] = current.text
    BY <1>13, LastIsOutcome DEF Compile, Evaluating, FilesAgree, InHand
  <2>2. CASE UNCHANGED <<class, outcomes>> /\ pc' = "next"
    BY <1>2, <1>13, <2>2 DEF Compile, Evaluating
  <2>3. CASE /\ class' = [class EXCEPT ![current.id] = java[current.id]]
             /\ outcomes' = [outcomes EXCEPT ![Len(outcomes)] = [Last EXCEPT !.compiled = TRUE]]
             /\ pc' = "verify"
    <3> DEFINE o == [Last EXCEPT !.compiled = TRUE]
    <3>1. /\ o \in Outcome /\ o.id = current.id /\ o.text = current.text
          /\ o.gate = "none" /\ o.passed = 0
      BY <2>1 DEF Outcome
    <3>2. outcomes' = [outcomes EXCEPT ![Len(outcomes)] = o]
      BY <2>3
    <3> HIDE DEF o
    <3>3. ~IsWinner(o)
      BY <3>1, Parameters DEF IsWinner
    <3>4. /\ class'[current.id] = current.text
          /\ \A id \in Id \ {current.id} :
               java'[id] = java[id] /\ class'[id] = class[id] /\ report'[id] = report[id]
      BY <1>13, <2>1, <2>3 DEF Compile, TypeOK
    <3>5. (\A i \in Winners : Agreed(outcomes[i].id, outcomes[i].text))'
      BY <2>1, <3>1, <3>2, <3>3, <3>4, LastReplaced
    <3>6. outcomes' # <<>> /\ Last' = o
      BY <2>1, <3>1, <3>2, LastType, EmptySeq DEF Last
    <3> QED
      BY <1>13, <2>1, <2>3, <3>1, <3>4, <3>5, <3>6
         DEF Compile, FilesAgree, InHand, Evaluating
  <2> QED
    BY <1>13, <2>2, <2>3 DEF Compile, Last, Go
<1>14. CASE Verify
  <2>1. /\ Evaluating /\ current.id \in Id /\ outcomes # <<>> /\ Last \in Outcome
        /\ Last.id = current.id /\ Last.text = current.text /\ Last.gate = "none"
        /\ java[current.id] = current.text /\ class[current.id] = current.text
    BY <1>14, LastIsOutcome DEF Verify, Evaluating, FilesAgree, InHand
  <2>2. PICK n \in 0..Cases, verdict \in {"PASS", "FAIL"} :
          /\ verdict = "PASS" <=> n = Cases
          /\ outcomes' = [outcomes EXCEPT ![Len(outcomes)] = [Last EXCEPT !.passed = n]]
          /\ report' = [report EXCEPT ![current.id] =
                          [text |-> class[current.id], verdict |-> verdict]]
          /\ pc' = IF Gate /\ verdict = "PASS" THEN "gate" ELSE "next"
    BY <1>14 DEF Verify, Last
  <2> DEFINE o == [Last EXCEPT !.passed = n]
  <2>3. /\ o \in Outcome /\ o.id = current.id /\ o.text = current.text
        /\ o.gate = "none" /\ o.passed = n
    BY <2>1 DEF Outcome
  <2>4. outcomes' = [outcomes EXCEPT ![Len(outcomes)] = o]
    BY <2>2
  <2> HIDE DEF o
  <2>5. /\ java'[current.id] = current.text /\ class'[current.id] = current.text
        /\ report'[current.id] = [text |-> current.text, verdict |-> verdict]
        /\ \A id \in Id \ {current.id} :
             java'[id] = java[id] /\ class'[id] = class[id] /\ report'[id] = report[id]
    BY <1>14, <2>1, <2>2 DEF Verify, TypeOK
  <2>6. IsWinner(o) => AgreedNext(o.id, o.text)
    BY <2>2, <2>3, <2>5 DEF IsWinner, AgreedNext
  <2>7. (\A i \in Winners : Agreed(outcomes[i].id, outcomes[i].text))'
    BY <2>1, <2>3, <2>4, <2>5, <2>6, LastReplaced
  <2>8. outcomes' # <<>> /\ Last' = o
    BY <2>1, <2>3, <2>4, LastType, EmptySeq DEF Last
  <2>9. current' \in [id : Id, text : Text] /\ current' = current
    BY <1>14 DEF Verify, FilesAgree, InHand, Evaluating
  <2>10. InHand'
    BY <2>2, <2>3, <2>5, <2>8, <2>9 DEF InHand, Evaluating
  <2> QED
    BY <2>7, <2>10 DEF FilesAgree
<1>15. CASE LayerAGate
  <2>1. /\ Evaluating /\ outcomes # <<>> /\ Last \in Outcome
        /\ Last.id = current.id /\ Last.text = current.text
        /\ Agreed(current.id, current.text)
    BY <1>15, LastIsOutcome DEF LayerAGate, Evaluating, FilesAgree, InHand, Agreed
  <2>2. PICK verdict \in {"PASS", "FAIL"} :
          outcomes' = [outcomes EXCEPT ![Len(outcomes)] = [Last EXCEPT !.gate = verdict]]
    BY <1>15 DEF LayerAGate, Last
  <2> DEFINE o == [Last EXCEPT !.gate = verdict]
  <2>3. o \in Outcome /\ o.id = current.id /\ o.text = current.text
    BY <2>1 DEF Outcome
  <2>4. outcomes' = [outcomes EXCEPT ![Len(outcomes)] = o]
    BY <2>2
  <2> HIDE DEF o
  <2>5. AgreedNext(o.id, o.text)
    BY <1>15, <2>1, <2>3 DEF LayerAGate, Agreed, AgreedNext
  <2>6. \A id \in Id \ {current.id} :
          java'[id] = java[id] /\ class'[id] = class[id] /\ report'[id] = report[id]
    BY <1>15 DEF LayerAGate
  <2>7. (\A i \in Winners : Agreed(outcomes[i].id, outcomes[i].text))'
    BY <2>1, <2>3, <2>4, <2>5, <2>6, LastReplaced
  <2> QED
    BY <1>15, <2>7 DEF LayerAGate, FilesAgree, InHand, Evaluating
<1>16. CASE OpenSelection
  BY <1>16 DEF OpenSelection, FilesAgree, InHand, Evaluating, Winners, Agreed
<1> QED
  BY <1>3, <1>4, <1>5, <1>6, <1>7, <1>8, <1>9, <1>10, <1>11, <1>12, <1>13, <1>14,
     <1>15, <1>16 DEF Next, Step, Abort, WriteSelection

-----------------------------------------------------------------------------
(***************************************************************************)
(* The selection                                                           *)
(***************************************************************************)
LEMMA SelectionStep ==
    ASSUME TypeOK, Bookkeeping, FilesAgree, SelectionIsVerified, [Next]_vars
    PROVE  SelectionIsVerified'
<1>1. CASE WriteSelection
  <2>0. selection' # Torn
    BY <1>1, WrittenIsSelection
  <2>1. SUFFICES ASSUME winner # None
                 PROVE  Agreed(winner, OutcomeOf(winner).text)
    BY <1>1, <2>0 DEF WriteSelection, SelectionIsVerified, Agreed
  <2>2. PICK i \in Winners : outcomes[i].id = winner
    BY <1>1, <2>1 DEF WriteSelection, Bookkeeping
  <2>3. OutcomeOf(winner) = outcomes[i]
    BY <2>2, OutcomeOfIs DEF Winners
  <2> QED
    BY <2>2, <2>3 DEF FilesAgree
<1>2. CASE UNCHANGED <<disk, complete>>
  BY <1>2 DEF disk, SelectionIsVerified, Chosen
<1>3. CASE ~complete'
  BY <1>3 DEF SelectionIsVerified
<1> QED
  BY <1>1, <1>2, <1>3 DEF Next, Step, vars, Start, Abort, Resolve, Evaluate, Emit,
     Compile, Verify, LayerAGate, Repair, Win, NextRound, GiveUp, OpenSelection,
     Bookkeeping, Idle

LEMMA IInvInit == Init => IInv
<1> SUFFICES ASSUME Init PROVE IInv
  OBVIOUS
<1>1. outcomes = <<>> /\ pending = {} /\ round = 0 /\ pc = "idle"
  BY DEF Init
<1>2. Ordered
  BY <1>1 DEF Ordered
<1>3. Bookkeeping
  BY <1>1, <1>2 DEF Init, Bookkeeping
<1>4. FilesAgree
  BY <1>1 DEF FilesAgree, InHand, Evaluating, Winners
<1>5. SelectionIsVerified
  BY NoneIsNoFile DEF Init, SelectionIsVerified, Chosen
<1> QED
  BY <1>3, <1>4, <1>5, TypeInit DEF IInv

LEMMA IInvHolds == Init /\ [][Next]_vars => []IInv
<1>1. IInv /\ [Next]_vars => IInv'
  BY TypeStep, BookStep, FilesStep, SelectionStep DEF IInv, FilesAgree
<1> QED
  BY <1>1, IInvInit, PTL

\* The state of migrate is well typed: in particular no repair goes beyond
\* MaxRepairs, and no run starts a candidate without an answer.
THEOREM TypeCorrect == Spec => []TypeOK
<1>1. IInv => TypeOK
  BY DEF IInv
<1> QED
  BY <1>1, IInvHolds, PTL DEF Spec

\* Once a run has written selection.json and until the next begins, source,
\* class and passing report of the winner are one and the same source,
\* whatever earlier runs have left in the directory.
THEOREM SelectionVerified == Spec => []SelectionIsVerified
<1>1. IInv => SelectionIsVerified
  BY DEF IInv
<1> QED
  BY <1>1, IInvHolds, PTL DEF Spec
-----------------------------------------------------------------------------
(***************************************************************************)
(* The search: nobody is forgotten.  Whatever variant one asks for, its    *)
(* latest candidate waits its turn, or has had it in this round, or the    *)
(* model has no answer for the one after it.                               *)
(***************************************************************************)
Covered ==
    pc \notin {"idle", "resolve"} => \A c \in 1..Variants :
        \/ <<c, round>> \in Ids
        \/ <<c, IF round = 0 THEN 0 ELSE round - 1>> \in pending
        \/ \E r \in 0..(round - 1) : <<c, r>> \in Ids /\ <<c, r + 1>> \in unanswered

\* Only a failure is ever given back for repair.
Failures == round > 0 => pending \subseteq Ids

EndOfSearch ==
    pc \in {"save", "write"} /\ winner = None => Winners = {} /\ pending = {} /\ round = MaxRepairs

\* Outcomes that are added or replaced leave the candidates evaluated so far.
LEMMA IdsKept ==
    ASSUME DOMAIN outcomes \subseteq DOMAIN outcomes',
           \A i \in DOMAIN outcomes : outcomes'[i].id = outcomes[i].id
    PROVE  Ids \subseteq Ids'
BY DEF Ids

\* What an evaluation or a repair begins is from then on among them.
LEMMA BegunIsTried ==
    ASSUME TypeOK, NEW id \in Id, NEW t \in Text, Begin(id, t)
    PROVE  Ids' = Ids \cup {id}
<1>1. /\ DOMAIN outcomes' = 1..(Len(outcomes) + 1) /\ DOMAIN outcomes = 1..Len(outcomes)
      /\ Len(outcomes) \in Nat /\ \A i \in DOMAIN outcomes : outcomes'[i] = outcomes[i]
      /\ outcomes'[Len(outcomes) + 1].id = id
  <2>1. DOMAIN outcomes = 1..Len(outcomes) /\ Len(outcomes) \in Nat
    BY OutcomesAre
  <2>2. /\ DOMAIN outcomes' = 1..Len(outcomes') /\ Len(outcomes') = Len(outcomes) + 1
        /\ \A i \in DOMAIN outcomes : outcomes'[i] = outcomes[i]
        /\ outcomes'[Len(outcomes')] =
             [id |-> id, text |-> t, compiled |-> FALSE, passed |-> 0, gate |-> "none"]
    BY BeginType, Zenon
  <2> QED
    BY <2>1, <2>2
<1>2. \A i \in DOMAIN outcomes' : i \in DOMAIN outcomes \/ i = Len(outcomes) + 1
  BY <1>1
<1> QED
  BY <1>1, <1>2 DEF Ids

\* The steps of evaluateCandidate replace the last outcome by one of the same
\* candidate, or none.
LEMMA Evaluated ==
    ASSUME TypeOK, InHand, Compile \/ Verify \/ LayerAGate
    PROVE  /\ DOMAIN outcomes' = DOMAIN outcomes /\ outcomes # <<>>
           /\ Len(outcomes') = Len(outcomes) /\ Len(outcomes) \in DOMAIN outcomes
           /\ \A i \in DOMAIN outcomes :
                /\ outcomes'[i].id = outcomes[i].id
                /\ i # Len(outcomes) => outcomes'[i] = outcomes[i]
<1> USE DEF Go
<1>1. outcomes # <<>> /\ Last \in Outcome
  BY LastIsOutcome DEF Compile, Verify, LayerAGate, InHand, Evaluating
<1>2. CASE UNCHANGED outcomes
  BY <1>1, <1>2, OutcomesAre, EmptySeq DEF TypeOK
<1>3. CASE \E o \in Outcome : o.id = Last.id /\ outcomes' = [outcomes EXCEPT ![Len(outcomes)] = o]
  BY <1>1, <1>3, LastType DEF Last
<1>4. CASE outcomes' = [outcomes EXCEPT ![Len(outcomes)] = [Last EXCEPT !.compiled = TRUE]]
  <2>1. [Last EXCEPT !.compiled = TRUE] \in Outcome
        /\ [Last EXCEPT !.compiled = TRUE].id = Last.id
    BY <1>1 DEF Outcome
  <2> QED
    BY <1>3, <1>4, <2>1
<1>5. ASSUME NEW n \in 0..Cases,
             outcomes' = [outcomes EXCEPT ![Len(outcomes)] = [Last EXCEPT !.passed = n]]
      PROVE  \E o \in Outcome : o.id = Last.id /\ outcomes' = [outcomes EXCEPT ![Len(outcomes)] = o]
  <2>1. [Last EXCEPT !.passed = n] \in Outcome /\ [Last EXCEPT !.passed = n].id = Last.id
    BY <1>1 DEF Outcome
  <2> QED
    BY <1>5, <2>1
<1>6. ASSUME NEW v \in {"PASS", "FAIL"},
             outcomes' = [outcomes EXCEPT ![Len(outcomes)] = [Last EXCEPT !.gate = v]]
      PROVE  \E o \in Outcome : o.id = Last.id /\ outcomes' = [outcomes EXCEPT ![Len(outcomes)] = o]
  <2>1. [Last EXCEPT !.gate = v] \in Outcome /\ [Last EXCEPT !.gate = v].id = Last.id
    BY <1>1 DEF Outcome
  <2> QED
    BY <1>6, <2>1
<1> QED
  BY <1>2, <1>3, <1>4, <1>5, <1>6 DEF Compile, Verify, LayerAGate, Last

LEMMA CoveredStep ==
    ASSUME TypeOK, Bookkeeping, InHand, Failures, Covered, [Next]_vars
    PROVE  Covered' /\ Failures'
<1> USE DEF disk, memory, Go
<1>1. CASE Abort \/ WriteSelection
  BY <1>1 DEF Abort, WriteSelection, Forget, Covered, Failures
<1>2. CASE Start
  BY <1>2 DEF Start, Covered, Failures, Ids
<1>3. CASE UNCHANGED vars \/ Emit \/ Win \/ GiveUp \/ OpenSelection
  BY <1>3 DEF vars, Emit, Win, GiveUp, OpenSelection, Covered, Failures, Ids
<1>4. CASE Resolve
  <2>1. \A c \in 1..Variants : <<c, 0>> \in pending'
    BY <1>4 DEF Resolve
  <2> QED
    BY <1>4, <2>1 DEF Resolve, Bookkeeping, Covered, Failures
<1>5. CASE Compile \/ Verify \/ LayerAGate
  <2>1. Ids' = Ids
    BY <1>5, Evaluated DEF Ids
  <2> QED
    BY <1>5, <2>1 DEF Compile, Verify, LayerAGate, Covered, Failures
<1>6. CASE Evaluate
  <2>1. PICK id \in pending : Begin(id, answers[id[1]]) /\ pending' = pending \ {id}
    BY <1>6 DEF Evaluate
  <2>2. id \in Id /\ answers[id[1]] \in Text
    BY <1>6, <2>1 DEF TypeOK, Bookkeeping, Evaluate, Id
  <2>3. Ids' = Ids \cup {id}
    BY <2>1, <2>2, BegunIsTried
  <2>4. round = 0 /\ round' = 0 /\ pc = "next" /\ unanswered' = unanswered
    BY <1>6 DEF Evaluate
  <2> QED
    BY <2>1, <2>3, <2>4 DEF Covered, Failures
<1>7. CASE Repair
  <2>1. PICK parent \in pending :
          /\ pending' = pending \ {parent}
          /\ \/ /\ \E t \in Text : Begin(RepairOf(parent), t)
                /\ UNCHANGED unanswered
             \/ /\ unanswered' = unanswered \cup {RepairOf(parent)}
                /\ UNCHANGED <<pc, current, outcomes>>
    BY <1>7 DEF Repair
  <2>2. /\ round \in Nat \ {0} /\ round' = round /\ pc = "next"
        /\ parent \in Ids /\ Round(parent) = round - 1 /\ RepairOf(parent) \in Id
    BY <1>7, <2>1, RepairIsId, Parameters DEF Repair, TypeOK, Failures, Bookkeeping, Ordered
  <2>3. parent = <<parent[1], round - 1>> /\ RepairOf(parent) = <<parent[1], round>>
    BY <2>1, <2>2, Parameters DEF TypeOK, Id, Round, RepairOf
  <2>4. CASE \E t \in Text : Begin(RepairOf(parent), t) /\ UNCHANGED unanswered
    <3>1. Ids' = Ids \cup {RepairOf(parent)}
      BY <2>2, <2>4, BegunIsTried
    <3>2. ASSUME NEW c \in 1..Variants, <<c, round - 1>> \in pending
          PROVE  <<c, round>> \in Ids' \/ <<c, round - 1>> \in pending'
      BY <2>1, <2>3, <3>1, <3>2
    <3> QED
      BY <2>1, <2>2, <2>4, <3>1, <3>2 DEF Covered, Failures
  <2>5. CASE unanswered' = unanswered \cup {RepairOf(parent)} /\ UNCHANGED outcomes
    <3>1. Ids' = Ids
      BY <2>5 DEF Ids
    <3>2. ASSUME NEW c \in 1..Variants, <<c, round - 1>> \in pending
          PROVE  \/ <<c, round - 1>> \in pending'
                 \/ <<c, round - 1>> \in Ids /\ <<c, round - 1 + 1>> \in unanswered'
      BY <2>1, <2>2, <2>3, <2>5, <3>2
    <3>3. round - 1 \in 0..(round - 1)
      BY <2>2
    <3> QED
      BY <2>1, <2>2, <2>5, <3>1, <3>2, <3>3 DEF Covered, Failures
  <2> QED
    BY <2>1, <2>4, <2>5
<1>8. CASE NextRound
  <2>1. /\ round \in Nat /\ round' = round + 1 /\ pending = {} /\ Winners = {}
        /\ pending' = FailedIn(round) /\ outcomes' = outcomes /\ unanswered' = unanswered
        /\ pc = "next"
    BY <1>8, Parameters DEF NextRound, TypeOK
  <2>2. Ids' = Ids
    BY <2>1 DEF Ids
  <2>3. FailedIn(round) = {id \in Ids : Round(id) = round}
    BY <2>1 DEF FailedIn, Ids
  <2>4. \A c \in 1..Variants : <<c, round>> \in Ids => <<c, round' - 1>> \in pending'
    BY <2>1, <2>3 DEF Round
  <2>5. round' # 0 /\ 0..(round - 1) \subseteq 0..(round' - 1)
    BY <2>1
  <2> QED
    BY <2>1, <2>2, <2>3, <2>4, <2>5 DEF Covered, Failures
<1> QED
  BY <1>1, <1>2, <1>3, <1>4, <1>5, <1>6, <1>7, <1>8 DEF Next, Step

\* The search ends with a winner, or with nothing left to try.
LEMMA EndStep ==
    ASSUME TypeOK, Bookkeeping, EndOfSearch, [Next]_vars
    PROVE  EndOfSearch'
<1> USE DEF memory, Go
<1>1. CASE UNCHANGED vars
  BY <1>1 DEF vars, EndOfSearch, Winners
<1>2. CASE Win
  <2>1. PICK i \in Winners : winner' = outcomes[i].id
    BY <1>2, FirstWinner DEF Win
  <2>2. outcomes[i].id \in Id
    BY <2>1, OutcomesAre DEF Winners, Outcome
  <2> QED
    BY <2>1, <2>2, NoneIsNoId DEF EndOfSearch
<1>3. CASE GiveUp
  BY <1>3 DEF GiveUp, EndOfSearch, Winners
<1>4. CASE OpenSelection
  BY <1>4 DEF OpenSelection, EndOfSearch, Winners
<1>5. CASE UNCHANGED vars \/ Start \/ Abort \/ (Step /\ ~Win /\ ~GiveUp /\ ~OpenSelection)
  BY <1>1, <1>5 DEF Start, Abort, Step, Resolve, Evaluate, Emit, Compile, Verify,
     LayerAGate, Repair, NextRound, WriteSelection, Begin, EndOfSearch
<1> QED
  BY <1>2, <1>3, <1>4, <1>5 DEF Next
-----------------------------------------------------------------------------
(***************************************************************************)
(* The order of the search                                                 *)
(***************************************************************************)
Parent(id) == <<id[1], Round(id) - 1>>

\* Before, of two outcomes and their positions.
Nearer(o, i, p, j) ==
    \/ o.compiled /\ ~p.compiled
    \/ o.compiled = p.compiled /\ o.passed > p.passed
    \/ o.compiled = p.compiled /\ o.passed = p.passed /\ i < j

\* How the i-th outcome came to be: no earlier round is taken up again; a
\* repair is of an earlier candidate, none of the earlier ones had won, those
\* of its round were of nearer misses, and those still to come are not.
NeededAt(i) ==
    LET id == outcomes[i].id IN
    /\ \A j \in 1..(i - 1) : Round(outcomes[j].id) <= Round(id)
    /\ Round(id) > 0 =>
         /\ \E j \in 1..(i - 1) : outcomes[j].id = Parent(id)
         /\ \A j \in 1..(i - 1) : ~IsWinner(outcomes[j])
         /\ \A j, a, b \in 1..(i - 1) :
              /\ Round(outcomes[j].id) = Round(id)
              /\ outcomes[a].id = Parent(outcomes[j].id) /\ outcomes[b].id = Parent(id)
              => Nearer(outcomes[a], a, outcomes[b], b)
         /\ \A a, b \in 1..(i - 1) :
              /\ Round(id) = round
              /\ outcomes[a].id = Parent(id) /\ outcomes[b].id \in pending
              => Nearer(outcomes[a], a, outcomes[b], b)

Needed == \A i \in DOMAIN outcomes : NeededAt(i)

LEMMA BeforeIs ==
    ASSUME Ordered, NEW i \in DOMAIN outcomes, NEW j \in DOMAIN outcomes
    PROVE  /\ Position(outcomes[i].id) = i
           /\ Before(outcomes[i].id, outcomes[j].id) <=> Nearer(outcomes[i], i, outcomes[j], j)
<1>1. OutcomeOf(outcomes[i].id) = outcomes[i] /\ Position(outcomes[i].id) = i
      /\ OutcomeOf(outcomes[j].id) = outcomes[j] /\ Position(outcomes[j].id) = j
  BY DEF Ordered, OutcomeOf, Position
<1> QED
  BY <1>1 DEF Before, Nearer

\* Nothing of that is about the outcome's own result, so it stands while the
\* outcomes before it and the round do.
LEMMA NeededStands ==
    ASSUME Needed, NEW i \in DOMAIN outcomes, outcomes'[i].id = outcomes[i].id,
           \A j \in 1..(i - 1) : outcomes'[j] = outcomes[j],
           round' = round, pending' \subseteq pending
    PROVE  NeededAt(i)'
<1>1. NeededAt(i)
  BY DEF Needed
<1> QED
  BY <1>1 DEF NeededAt, IsWinner

\* The outcome that is begun.
LEMMA Begun ==
    ASSUME TypeOK, NEW id \in Id, NEW t \in Text, Begin(id, t), NEW k, k = Len(outcomes) + 1
    PROVE  /\ k \in Nat /\ 1..(k - 1) = DOMAIN outcomes
           /\ DOMAIN outcomes' = DOMAIN outcomes \cup {k}
           /\ outcomes'[k].id = id /\ \A i \in DOMAIN outcomes : outcomes'[i] = outcomes[i]
<1>1. DOMAIN outcomes = 1..Len(outcomes) /\ Len(outcomes) \in Nat
  BY OutcomesAre
<1>2. /\ DOMAIN outcomes' = 1..Len(outcomes') /\ Len(outcomes') = Len(outcomes) + 1
      /\ \A i \in DOMAIN outcomes : outcomes'[i] = outcomes[i]
      /\ outcomes'[Len(outcomes')] =
           [id |-> id, text |-> t, compiled |-> FALSE, passed |-> 0, gate |-> "none"]
  BY BeginType, Zenon
<1>3. outcomes'[k].id = id
  BY <1>2
<1> QED
  BY <1>1, <1>2, <1>3

\* A variant is begun in the round before the repairs.
LEMMA NeededVariant ==
    ASSUME TypeOK, Bookkeeping, NEW id \in Id, NEW t \in Text, Begin(id, t),
           Round(id) = 0, round = 0, NEW k, k = Len(outcomes) + 1
    PROVE  NeededAt(k)'
<1>1. /\ 1..(k - 1) = DOMAIN outcomes /\ outcomes'[k].id = id
      /\ \A i \in DOMAIN outcomes : outcomes'[i] = outcomes[i]
  BY Begun
<1>2. \A i \in DOMAIN outcomes : Round(outcomes[i].id) <= 0
  BY DEF Bookkeeping, Ordered
<1> QED
  BY <1>1, <1>2 DEF NeededAt

\* A repair is begun when nothing has won, of the nearest miss in waiting.
LEMMA NeededRepair ==
    ASSUME TypeOK, Bookkeeping, Failures, Needed, round > 0, round' = round, Winners = {},
           NEW parent \in pending, pending' = pending \ {parent},
           \A other \in pending' : Before(parent, other),
           NEW t \in Text, Begin(RepairOf(parent), t), NEW k, k = Len(outcomes) + 1
    PROVE  NeededAt(k)'
<1> DEFINE id == RepairOf(parent)
<1>1. parent \in Id /\ id \in Id /\ Round(id) = round /\ round \in Nat /\ id \notin Ids
  BY RepairIsId, Parameters DEF TypeOK
<1>2. /\ k \in Nat /\ 1..(k - 1) = DOMAIN outcomes
      /\ outcomes'[k].id = id /\ \A i \in DOMAIN outcomes : outcomes'[i] = outcomes[i]
  BY <1>1, Begun
<1>3. parent = Parent(id)
  BY <1>1, Parameters DEF RepairOf, Parent, Round, Id
<1> HIDE DEF id
<1>4. PICK p \in DOMAIN outcomes : outcomes[p].id = parent
  BY DEF Failures, Ids
<1>5. \A j \in DOMAIN outcomes : Round(outcomes[j].id) <= Round(id) /\ ~IsWinner(outcomes[j])
  BY <1>1 DEF Bookkeeping, Ordered, Winners
<1>6. ASSUME NEW a \in DOMAIN outcomes, NEW b \in DOMAIN outcomes,
             outcomes[a].id = parent, outcomes[b].id \in pending'
      PROVE  Nearer(outcomes[a], a, outcomes[b], b)
  BY <1>6, BeforeIs DEF Bookkeeping
<1>7. ASSUME NEW j \in DOMAIN outcomes, NEW a \in DOMAIN outcomes, NEW b \in DOMAIN outcomes,
             Round(outcomes[j].id) = round,
             outcomes[a].id = Parent(outcomes[j].id), outcomes[b].id = parent
      PROVE  Nearer(outcomes[a], a, outcomes[b], b)
  <2>1. NeededAt(j) /\ Round(outcomes[j].id) > 0
    BY <1>7 DEF Needed
  <2>2. a \in 1..(j - 1)
    <3>1. PICK q \in 1..(j - 1) : outcomes[q].id = Parent(outcomes[j].id)
      BY <2>1 DEF NeededAt
    <3>2. q \in DOMAIN outcomes
      BY <1>2, <3>1
    <3> QED
      BY <1>7, <3>1, <3>2 DEF Bookkeeping, Ordered
  <2>3. b \in 1..(j - 1)
    <3>1. Round(parent) = round - 1
      BY DEF Bookkeeping, Ordered
    <3>2. b < j
      <4>1. CASE j < b
        <5>1. NeededAt(b) /\ j \in 1..(b - 1)
          BY <1>2, <4>1 DEF Needed
        <5>2. Round(outcomes[j].id) <= Round(parent)
          BY <1>7, <5>1 DEF NeededAt
        <5> QED
          BY <1>1, <1>7, <3>1, <5>2
      <4>2. j # b
        BY <1>1, <1>7, <3>1
      <4> QED
        BY <1>2, <4>1, <4>2
    <3> QED
      BY <1>2, <3>2
  <2> QED
    BY <1>7, <2>1, <2>2, <2>3 DEF NeededAt
<1>8. /\ \A j \in 1..(k - 1) : Round(outcomes'[j].id) <= Round(outcomes'[k].id)
      /\ \E j \in 1..(k - 1) : outcomes'[j].id = Parent(outcomes'[k].id)
      /\ \A j \in 1..(k - 1) : ~IsWinner(outcomes'[j])
  BY <1>2, <1>3, <1>4, <1>5
<1>9. \A j, a, b \in 1..(k - 1) :
        /\ Round(outcomes'[j].id) = Round(outcomes'[k].id)
        /\ outcomes'[a].id = Parent(outcomes'[j].id) /\ outcomes'[b].id = Parent(outcomes'[k].id)
        => Nearer(outcomes'[a], a, outcomes'[b], b)
  BY <1>1, <1>2, <1>3, <1>7
<1>10. \A a, b \in 1..(k - 1) :
         /\ outcomes'[a].id = Parent(outcomes'[k].id) /\ outcomes'[b].id \in pending'
         => Nearer(outcomes'[a], a, outcomes'[b], b)
  BY <1>2, <1>3, <1>6
<1> QED
  BY <1>8, <1>9, <1>10 DEF NeededAt, IsWinner
LEMMA NeededStep ==
    ASSUME TypeOK, Bookkeeping, InHand, Failures, Needed, [Next]_vars
    PROVE  Needed'
<1> USE DEF disk, memory, Go
<1>1. CASE Abort \/ WriteSelection
  BY <1>1 DEF Abort, WriteSelection, Forget, Needed
<1>2. CASE UNCHANGED vars \/ Start \/ Emit \/ Win \/ GiveUp \/ OpenSelection
  <2>1. UNCHANGED <<outcomes, round, pending>>
    BY <1>2 DEF vars, Start, Emit, Win, GiveUp, OpenSelection
  <2> QED
    BY <2>1, NeededStands DEF Needed
<1>3. CASE Resolve
  BY <1>3 DEF Resolve, Bookkeeping, Needed
<1>4. CASE Compile \/ Verify \/ LayerAGate
  <2>1. UNCHANGED <<round, pending>>
    BY <1>4 DEF Compile, Verify, LayerAGate
  <2>2. /\ DOMAIN outcomes = 1..Len(outcomes) /\ Len(outcomes) \in Nat
        /\ DOMAIN outcomes' = DOMAIN outcomes
        /\ \A i \in DOMAIN outcomes :
             /\ outcomes'[i].id = outcomes[i].id
             /\ i # Len(outcomes) => outcomes'[i] = outcomes[i]
    BY <1>4, Evaluated, OutcomesAre
  <2>3. \A i \in DOMAIN outcomes : \A j \in 1..(i - 1) : outcomes'[j] = outcomes[j]
    BY <2>2
  <2> QED
    BY <2>1, <2>2, <2>3, NeededStands DEF Needed
<1>5. CASE Evaluate
  <2>1. PICK id \in pending : Begin(id, answers[id[1]]) /\ pending' = pending \ {id}
    BY <1>5 DEF Evaluate
  <2>2. id \in Id /\ answers[id[1]] \in Text /\ Round(id) = 0 /\ round = 0 /\ round' = round
    BY <1>5, <2>1 DEF TypeOK, Bookkeeping, Ordered, Evaluate, Id
  <2> PICK k \in Nat : k = Len(outcomes) + 1
    BY OutcomesAre
  <2>3. NeededAt(k)'
    BY <2>1, <2>2, NeededVariant
  <2>4. /\ DOMAIN outcomes' = DOMAIN outcomes \cup {k}
        /\ \A i \in DOMAIN outcomes : outcomes'[i] = outcomes[i]
        /\ DOMAIN outcomes = 1..Len(outcomes) /\ Len(outcomes) \in Nat
    BY <2>1, <2>2, Begun, OutcomesAre
  <2>5. \A i \in DOMAIN outcomes : NeededAt(i)'
    BY <2>1, <2>2, <2>4, NeededStands
  <2> QED
    BY <2>3, <2>4, <2>5 DEF Needed
<1>6. CASE Repair
  <2>1. PICK parent \in pending :
          /\ \A other \in pending \ {parent} : Before(parent, other)
          /\ pending' = pending \ {parent}
          /\ \/ \E t \in Text : Begin(RepairOf(parent), t)
             \/ UNCHANGED outcomes
    BY <1>6 DEF Repair
  <2>2. RepairOf(parent) \in Id /\ round > 0 /\ round' = round /\ Winners = {}
    BY <1>6, <2>1, RepairIsId DEF Repair
  <2>3. CASE UNCHANGED outcomes
    BY <2>1, <2>2, <2>3, NeededStands DEF Needed
  <2>4. ASSUME NEW t \in Text, Begin(RepairOf(parent), t) PROVE Needed'
    <3> PICK k \in Nat : k = Len(outcomes) + 1
      BY OutcomesAre
    <3>1. NeededAt(k)'
      BY <2>1, <2>2, <2>4, NeededRepair
    <3>2. /\ DOMAIN outcomes' = DOMAIN outcomes \cup {k}
          /\ \A i \in DOMAIN outcomes : outcomes'[i] = outcomes[i]
          /\ DOMAIN outcomes = 1..Len(outcomes) /\ Len(outcomes) \in Nat
      BY <2>2, <2>4, Begun, OutcomesAre
    <3>3. \A i \in DOMAIN outcomes : NeededAt(i)'
      BY <2>1, <2>2, <3>2, NeededStands
    <3> QED
      BY <3>1, <3>2, <3>3 DEF Needed
  <2> QED
    BY <2>1, <2>3, <2>4
<1>7. CASE NextRound
  <2>1. round' = round + 1 /\ outcomes' = outcomes
    BY <1>7 DEF NextRound
  <2>2. \A i \in DOMAIN outcomes : Round(outcomes[i].id) # round'
    <3>1. round \in Nat
      BY Parameters DEF TypeOK
    <3>2. \A i \in DOMAIN outcomes : Round(outcomes[i].id) <= round
      BY DEF Bookkeeping, Ordered
    <3>3. \A i \in DOMAIN outcomes : Round(outcomes[i].id) \in Nat
      BY OutcomesAre, Parameters DEF Outcome, Id, Round
    <3> QED
      BY <2>1, <3>1, <3>2, <3>3
  <2> QED
    BY <2>1, <2>2 DEF Needed, NeededAt, IsWinner
<1> QED
  BY <1>1, <1>2, <1>3, <1>4, <1>5, <1>6, <1>7 DEF Next, Step

SInv == IInv /\ Failures /\ Covered /\ EndOfSearch /\ Needed

LEMMA SInvHolds == Init /\ [][Next]_vars => []SInv
<1>1. Init => Failures /\ Covered /\ EndOfSearch /\ Needed
  BY DEF Init, Failures, Covered, EndOfSearch, Needed
<1>2. IInv /\ IInv' /\ Failures /\ Covered /\ EndOfSearch /\ Needed /\ [Next]_vars =>
        (Failures /\ Covered /\ EndOfSearch /\ Needed)'
  BY CoveredStep, EndStep, NeededStep DEF IInv, FilesAgree
<1> QED
  BY <1>1, <1>2, IInvHolds, PTL DEF SInv

\* "migrate" gives up only when the lineage of every variant has failed, down
\* to the last round or to a repair that nobody has answered.
THEOREM NoEarlyGivingUp == Spec => []NoEarlyDefeat
<1>1. SInv => NoEarlyDefeat
  <2> SUFFICES ASSUME SInv, pc = "save", winner = None, NEW c \in 1..Variants
               PROVE  \E r \in 0..MaxRepairs :
                        /\ <<c, r>> \in Ids
                        /\ ~IsWinner(OutcomeOf(<<c, r>>))
                        /\ r = MaxRepairs \/ <<c, r + 1>> \in unanswered
    BY DEF NoEarlyDefeat
  <2>1. Winners = {} /\ pending = {} /\ round = MaxRepairs /\ MaxRepairs \in Nat
    BY Parameters DEF SInv, EndOfSearch
  <2>2. \A id \in Ids : ~IsWinner(OutcomeOf(id))
    BY <2>1, OutcomeOfIs DEF SInv, IInv, Ids, Winners
  <2>3. PICK r \in 0..MaxRepairs :
          <<c, r>> \in Ids /\ (r = MaxRepairs \/ <<c, r + 1>> \in unanswered)
    BY <2>1, SMTT(60) DEF SInv, Covered
  <2> QED
    BY <2>2, <2>3
<1> QED
  BY <1>1, SInvHolds, PTL DEF Spec

\* Every repair is of an earlier failure, begun when nothing had won; no
\* candidate is evaluated twice, and parents are taken nearest miss first.
THEOREM RepairsNeeded == Spec => []RepairsAreNeeded
<1>1. SInv => RepairsAreNeeded
  <2> SUFFICES ASSUME SInv, NEW i \in DOMAIN outcomes
               PROVE  LET id == outcomes[i].id IN
                      /\ Position(id) = i
                      /\ Round(id) > 0 =>
                           \E j \in 1..(i - 1) : /\ RepairOf(outcomes[j].id) = id
                                                 /\ ~IsWinner(outcomes[j])
                      /\ \A j \in 1..(i - 1) :
                           LET before == outcomes[j].id IN
                           /\ Round(before) <= Round(id)
                           /\ Round(id) > 0 => ~IsWinner(outcomes[j])
                           /\ Round(id) > 0 /\ Round(before) = Round(id) =>
                                Before(<<before[1], Round(id) - 1>>, <<id[1], Round(id) - 1>>)
    BY DEF RepairsAreNeeded
  <2> DEFINE id == outcomes[i].id
  <2>1. /\ TypeOK /\ Bookkeeping /\ Ordered /\ NeededAt(i) /\ id \in Id
        /\ 1..(i - 1) \subseteq DOMAIN outcomes /\ Position(id) = i
    BY OutcomesAre, BeforeIs DEF SInv, IInv, Bookkeeping, Needed, Outcome
  <2>2. Round(id) > 0 => \E j \in 1..(i - 1) : RepairOf(outcomes[j].id) = id /\ ~IsWinner(outcomes[j])
    <3> SUFFICES ASSUME Round(id) > 0
                 PROVE  \E j \in 1..(i - 1) : RepairOf(outcomes[j].id) = id /\ ~IsWinner(outcomes[j])
      OBVIOUS
    <3>1. PICK j \in 1..(i - 1) : outcomes[j].id = Parent(id) /\ ~IsWinner(outcomes[j])
      BY <2>1 DEF NeededAt
    <3>2. RepairOf(Parent(id)) = id
      BY <2>1, Parameters DEF RepairOf, Parent, Round, Id
    <3> QED
      BY <3>1, <3>2
  <2>3. ASSUME NEW j \in 1..(i - 1), Round(id) > 0, Round(outcomes[j].id) = Round(id)
        PROVE  Before(Parent(outcomes[j].id), Parent(id))
    <3>1. NeededAt(j) /\ j \in DOMAIN outcomes
      BY <2>1 DEF SInv, Needed
    <3>2. PICK a \in 1..(j - 1) : outcomes[a].id = Parent(outcomes[j].id)
      BY <2>3, <3>1 DEF NeededAt
    <3>3. PICK b \in 1..(i - 1) : outcomes[b].id = Parent(id)
      BY <2>1, <2>3 DEF NeededAt
    <3>4. a \in 1..(i - 1)
      BY <2>1, <2>3, <3>2, OutcomesAre
    <3>5. Nearer(outcomes[a], a, outcomes[b], b)
      BY <2>1, <2>3, <3>2, <3>3, <3>4 DEF NeededAt
    <3> QED
      BY <2>1, <3>2, <3>3, <3>4, <3>5, BeforeIs
  <2> QED
    BY <2>1, <2>2, <2>3 DEF NeededAt, Parent
<1> QED
  BY <1>1, SInvHolds, PTL DEF Spec
-----------------------------------------------------------------------------
(***************************************************************************)
(* The refinement, step by step                                            *)
(***************************************************************************)
Passed == {outcomes[i].id : i \in Winners}

LEMMA InHandHasNotWon ==
    ASSUME InHand, Evaluating
    PROVE  ~IsWinner(Last)
BY Parameters DEF InHand, Evaluating, IsWinner

\* An evaluation that is over adds its candidate to those tried, and to those
\* passed when its outcome is a winner's; until then it adds to neither.
LEMMA Settled ==
    ASSUME TypeOK, Bookkeeping, InHand, InHand', Compile \/ Verify \/ LayerAGate
    PROVE  /\ Last.id \in Id /\ Last.id \notin Tried
           /\ Evaluating' => Tried' = Tried /\ Passed' = Passed
           /\ ~Evaluating' => /\ Tried' = Tried \cup {Last.id}
                              /\ Passed' \in {Passed, Passed \cup {Last.id}}
<1> DEFINE n == Len(outcomes)
           Others == {outcomes[i].id : i \in {j \in DOMAIN outcomes : j < n}}
<1>1. Evaluating
  BY DEF Compile, Verify, LayerAGate, Evaluating
<1>2. /\ DOMAIN outcomes' = DOMAIN outcomes /\ Len(outcomes') = n /\ n \in DOMAIN outcomes
      /\ DOMAIN outcomes = 1..n /\ n \in Nat
      /\ \A i \in DOMAIN outcomes :
           /\ outcomes'[i].id = outcomes[i].id
           /\ i # n => outcomes'[i] = outcomes[i]
  BY Evaluated, OutcomesAre
<1>3. Last = outcomes[n] /\ Last' = outcomes'[n] /\ Last.id \in Id
  BY <1>2, OutcomesAre DEF Last, Outcome
<1> HIDE DEF n
<1>4. Tried = Others /\ Last.id \notin Others
  BY <1>1, <1>2, <1>3 DEF Tried, n, Bookkeeping, Ordered
<1>5. Evaluating' => Tried' = Others
  BY <1>2 DEF Tried
<1>6. ~Evaluating' => Tried' = Others \cup {Last.id}
  <2>1. \A i \in DOMAIN outcomes : i < n \/ i = n
    BY <1>2
  <2>2. ~Evaluating' => Tried' = {outcomes'[i].id : i \in DOMAIN outcomes'}
    BY DEF Tried
  <2>3. {outcomes'[i].id : i \in DOMAIN outcomes'} = Others \cup {Last.id}
    BY <1>2, <1>3, <2>1
  <2> QED
    BY <2>2, <2>3
<1>7. n \notin Winners
  BY <1>1, <1>3, InHandHasNotWon DEF Winners
<1>8. Winners' \ {n} = Winners
  BY <1>2, <1>7 DEF Winners, IsWinner
<1>9. IsWinner(outcomes'[n]) => Passed' = Passed \cup {Last.id}
  <2>1. IsWinner(outcomes'[n]) => Winners' = Winners \cup {n}
    BY <1>2, <1>8 DEF Winners, IsWinner
  <2>2. \A i \in Winners : outcomes'[i].id = outcomes[i].id
    BY <1>2 DEF Winners
  <2>3. outcomes'[n].id = Last.id
    BY <1>2, <1>3
  <2> QED
    BY <2>1, <2>2, <2>3 DEF Passed
<1>10. ~IsWinner(outcomes'[n]) => Passed' = Passed
  <2>1. ~IsWinner(outcomes'[n]) => Winners' = Winners
    BY <1>2, <1>8 DEF Winners, IsWinner
  <2>2. \A i \in Winners : outcomes'[i].id = outcomes[i].id
    BY <1>2 DEF Winners
  <2> QED
    BY <2>1, <2>2 DEF Passed
<1>11. Evaluating' => ~IsWinner(outcomes'[n])
  BY <1>3, Parameters DEF InHand, Evaluating, IsWinner
<1> QED
  BY <1>3, <1>4, <1>5, <1>6, <1>9, <1>10, <1>11

\* What is begun has not been tried yet.
LEMMA BegunIsOpen ==
    ASSUME TypeOK, ~Evaluating, NEW id \in Id, NEW t \in Text, Begin(id, t)
    PROVE  Tried' = Tried /\ Passed' = Passed
<1>1. /\ DOMAIN outcomes' = 1..Len(outcomes') /\ Len(outcomes') = Len(outcomes) + 1
      /\ \A i \in DOMAIN outcomes : outcomes'[i] = outcomes[i]
      /\ outcomes'[Len(outcomes')] =
           [id |-> id, text |-> t, compiled |-> FALSE, passed |-> 0, gate |-> "none"]
      /\ pc' = "emit"
  BY BeginType, Zenon
<1>2. DOMAIN outcomes = 1..Len(outcomes) /\ Len(outcomes) \in Nat
  BY OutcomesAre
<1>3. ~IsWinner(outcomes'[Len(outcomes')])
  BY <1>1 DEF IsWinner
<1>4. Winners' = Winners
  <2>1. \A i \in DOMAIN outcomes' : i \in DOMAIN outcomes \/ i = Len(outcomes')
    BY <1>1, <1>2
  <2>2. DOMAIN outcomes \subseteq DOMAIN outcomes'
    BY <1>1, <1>2
  <2> QED
    BY <1>1, <1>3, <2>1, <2>2 DEF Winners, IsWinner
<1>5. Passed' = Passed
  BY <1>1, <1>4 DEF Passed, Winners
<1>6. {j \in DOMAIN outcomes' : j < Len(outcomes')} = DOMAIN outcomes
  BY <1>1, <1>2
<1>7. Tried' = Tried
  BY <1>1, <1>6 DEF Tried, Evaluating
<1> QED
  BY <1>5, <1>7
\* Every step of migrate is one of its promise, or none of its business.
LEMMA PromiseStep ==
    ASSUME SInv, SInv', [Next]_vars
    PROVE  Promise!Next \/ UNCHANGED Promise!vars
<1> USE DEF disk, memory, Go
<1>0. /\ TypeOK /\ Bookkeeping /\ InHand /\ InHand' /\ Published = Published
  BY DEF SInv, IInv, FilesAgree
<1>1. ASSUME Stage' = Stage, Tried' = Tried, Passed' = Passed, Published' = Published
      PROVE  UNCHANGED Promise!vars
  BY <1>1 DEF Promise!vars, Passed
<1>2. ASSUME outcomes' = outcomes, Evaluating' = Evaluating PROVE Tried' = Tried /\ Passed' = Passed
  BY <1>2 DEF Tried, Passed, Winners
<1>3. selection' = selection => Published' = Published
  BY DEF Published, Chosen
<1>4. CASE UNCHANGED vars
  BY <1>1, <1>2, <1>3, <1>4 DEF vars, Stage, Idle, Evaluating
<1>5. CASE Resolve \/ Emit \/ Win \/ NextRound \/ GiveUp
  <2>1. outcomes' = outcomes /\ Evaluating' = Evaluating /\ Stage' = Stage /\ selection' = selection
    BY <1>5 DEF Resolve, Emit, Win, NextRound, GiveUp, Evaluating, Stage, Idle
  <2> QED
    BY <1>1, <1>2, <1>3, <2>1
<1>6. CASE Start
  <2>1. Tried' = Tried /\ Passed' = Passed /\ Published' = Published
    BY <1>2, <1>3, <1>6 DEF Start, Idle, Evaluating
  <2>2. Stage = "closed" /\ Stage' = "open"
    BY <1>6 DEF Start, Idle, Stage
  <2>3. Promise!Start
    BY <2>1, <2>2 DEF Promise!Start, Passed
  <2> QED
    BY <2>3 DEF Promise!Next
<1>7. ASSUME Forget, pc' = "idle" PROVE Promise!Close
  BY <1>7 DEF Forget, Promise!Close, Stage, Idle, Tried, Winners
<1>8. CASE Abort
  <2>1. Stage # "closed"
    BY <1>0, <1>8 DEF Abort, Idle, Stage
  <2>2. Promise!Abort
    BY <1>3, <1>7, <1>8, <2>1 DEF Abort, Promise!Abort
  <2> QED
    BY <2>2 DEF Promise!Next
<1>9. CASE WriteSelection
  <2>1. winner \in Id \cup {None} /\ Published' = {winner}
    BY <1>0, <1>9, WrittenIsSelection DEF Published, Chosen, TypeOK
  <2>2. IF Passed = {} THEN winner = None ELSE winner \in Passed
    <3>1. winner = None => Passed = {}
      BY <1>9 DEF WriteSelection, SInv, EndOfSearch, Passed
    <3>2. winner # None => winner \in Passed
      BY <1>0, <1>9 DEF WriteSelection, Bookkeeping, Passed
    <3> QED
      BY <3>1, <3>2
  <2>3. Stage = "publishing"
    BY <1>9 DEF WriteSelection, Stage, Idle
  <2>4. Promise!Publish(winner)
    BY <1>7, <1>9, <2>1, <2>2, <2>3 DEF WriteSelection, Promise!Publish, Passed
  <2> QED
    BY <2>1, <2>4 DEF Promise!Next
<1>10. CASE Compile \/ Verify \/ LayerAGate
  <2>1. /\ Last.id \in Id /\ Last.id \notin Tried
        /\ Evaluating' => Tried' = Tried /\ Passed' = Passed
        /\ ~Evaluating' => /\ Tried' = Tried \cup {Last.id}
                           /\ Passed' \in {Passed, Passed \cup {Last.id}}
    BY <1>0, <1>10, Settled
  <2>2. Stage = "open" /\ Stage' = "open" /\ Published' = Published
    BY <1>3, <1>10 DEF Compile, Verify, LayerAGate, Stage, Idle
  <2>3. CASE Evaluating'
    BY <1>1, <2>1, <2>2, <2>3
  <2>4. CASE ~Evaluating'
    <3> PICK id \in Id : id = Last.id
      BY <2>1
    <3>1. Promise!Try(id)
      BY <2>1, <2>2, <2>4 DEF Promise!Try, Passed
    <3> QED
      BY <3>1 DEF Promise!Next
  <2> QED
    BY <2>3, <2>4
<1>11. CASE Evaluate
  <2>1. PICK id \in pending : Begin(id, answers[id[1]])
    BY <1>11 DEF Evaluate
  <2>2. id \in Id /\ answers[id[1]] \in Text
    BY <1>0, <1>11, <2>1 DEF TypeOK, Bookkeeping, Evaluate, Id
  <2>3. Tried' = Tried /\ Passed' = Passed
    BY <1>0, <1>11, <2>1, <2>2, BegunIsOpen DEF Evaluate, Evaluating
  <2> QED
    BY <1>1, <1>3, <1>11, <2>1, <2>3 DEF Evaluate, Begin, Stage, Idle
<1>12. CASE Repair
  <2>1. PICK parent \in pending :
          \/ \E t \in Text : Begin(RepairOf(parent), t)
          \/ UNCHANGED <<pc, current, outcomes>>
    BY <1>12 DEF Repair
  <2>2. RepairOf(parent) \in Id
    BY <1>0, <1>12, <2>1, RepairIsId DEF Repair
  <2>3. Tried' = Tried /\ Passed' = Passed
    BY <1>0, <1>2, <1>12, <2>1, <2>2, BegunIsOpen DEF Repair, Evaluating
  <2> QED
    BY <1>1, <1>3, <1>12, <2>1, <2>3 DEF Repair, Begin, Stage, Idle
<1>13. CASE OpenSelection
  <2>1. Tried' = Tried /\ Passed' = Passed
    BY <1>2, <1>13 DEF OpenSelection, Evaluating
  <2>2. Stage = "open" /\ Stage' = "publishing" /\ Published' = {}
    BY <1>13 DEF OpenSelection, Stage, Idle, Published, Chosen
  <2>3. Promise!Withdraw
    BY <2>1, <2>2 DEF Promise!Withdraw, Passed
  <2> QED
    BY <2>3 DEF Promise!Next
<1> QED
  BY <1>4, <1>5, <1>6, <1>8, <1>9, <1>10, <1>11, <1>12, <1>13 DEF Next, Step

\* migrate implements VerifiedSelection, as far as safety goes: it publishes
\* only candidates that passed in the same run, no winner only when none did,
\* and tries no candidate twice; what an earlier run has published stays until
\* the search of this one is over, and a kill while selection.json is being
\* written leaves a file that names nobody.
THEOREM PromiseKept == Spec => Promise!Init /\ [][Promise!Next]_(Promise!vars)
<1>1. Init => Promise!Init
  BY DEF Init, Promise!Init, Stage, Idle, Tried, Winners, Published, Chosen
<1>2. SInv /\ SInv' /\ [Next]_vars => [Promise!Next]_(Promise!vars)
  BY PromiseStep
<1> QED
  BY <1>1, <1>2, SInvHolds, PTL DEF Spec
=============================================================================
