---------------------------- MODULE PropGenProofs ----------------------------
(***************************************************************************)
(* What a run of layer A shows, for any generators and any of its limits.  *)
(*                                                                         *)
(* The shrinker is a search over what one step can make of a case (Dropped *)
(* and Smaller of Shrink).  Whatever that is, it is a file again, no larger *)
(* than what it was made of; and as long as a round has changed nothing,    *)
(* everything before the place it has come to was run and passed           *)
(* (Searched), which at the end of the round is all there is.               *)
(***************************************************************************)
EXTENDS PropGen, SequenceTheorems, FiniteSetTheorems, TLAPS

\* A draw of small values fits into the PICTURE: true of three digits and more.
WideEnough ==
    \A g \in Generators : g.mode \in {"fields", "records"} => SmallDraws <= g.top + 1

Sized(case) == case \in Seq(Nat) /\ Len(case) \in gen.min..gen.max
Distinct(case) ==
    gen.mode = "indexed" =>
        \A i, j \in DOMAIN case : KeyOf(case[i]) = KeyOf(case[j]) => i = j
InRange(case) == Range(case) \subseteq 0..gen.top

-----------------------------------------------------------------------------
(***************************************************************************)
(* The steps of the shrinker                                               *)
(***************************************************************************)
LEMMA RemoveIs ==
    ASSUME NEW S, NEW s \in Seq(S), NEW d \in 1..Len(s)
    PROVE  /\ RemoveAt(s, d) \in Seq(S)
           /\ Len(RemoveAt(s, d)) = Len(s) - 1
           /\ \A j \in 1..(Len(s) - 1) : /\ j < d => RemoveAt(s, d)[j] = s[j]
                                         /\ j >= d => RemoveAt(s, d)[j] = s[j + 1]
<1> DEFINE before == SubSeq(s, 1, d - 1)
           after == SubSeq(s, d + 1, Len(s))
<1>1. /\ before \in Seq(S) /\ Len(before) = d - 1
      /\ \A j \in 1..(d - 1) : before[j] = s[j]
  BY SubSeqProperties
<1>2. /\ after \in Seq(S) /\ Len(after) = Len(s) - d
      /\ \A j \in 1..(Len(s) - d) : after[j] = s[d + j]
  BY SubSeqProperties
<1>3. RemoveAt(s, d) = before \o after
  BY DEF RemoveAt
<1> HIDE DEF before, after
<1>4. /\ before \o after \in Seq(S) /\ Len(before \o after) = Len(s) - 1
      /\ \A j \in 1..(Len(s) - 1) :
            (before \o after)[j] = IF j <= d - 1 THEN before[j] ELSE after[j - (d - 1)]
  BY <1>1, <1>2, ConcatProperties
<1>5. ASSUME NEW j \in 1..(Len(s) - 1)
      PROVE  /\ j < d => (before \o after)[j] = s[j]
             /\ j >= d => (before \o after)[j] = s[j + 1]
  <2>1. CASE j < d
    BY <1>1, <1>4, <2>1
  <2>2. CASE j >= d
    <3> DEFINE m == j - (d - 1)
    <3>1. m \in 1..(Len(s) - d) /\ d + m = j + 1
      BY <2>2
    <3>2. (before \o after)[j] = after[m]
      <4>1. ~(j <= d - 1)
        BY <2>2
      <4> QED
        BY <1>4, <4>1
    <3> HIDE DEF m
    <3>3. after[m] = s[d + m]
      BY <1>2, <3>1
    <3> QED
      BY <2>2, <3>1, <3>2, <3>3
  <2> QED
    BY <2>1, <2>2
<1> QED
  BY <1>3, <1>4, <1>5

LEMMA CandidatesAre ==
    ASSUME NEW v \in Nat
    PROVE  /\ DOMAIN Candidates(v) = 1..4
           /\ \A k \in 1..4 : Candidates(v)[k] \in Nat
           /\ Simplify(v) \subseteq 1..4
           /\ \A k \in Simplify(v) : Candidates(v)[k] \in Nat /\ Candidates(v)[k] < v
<1>1. (v + 5) \div 10 \in Nat /\ (v + 1) \div 2 \in Nat
  OBVIOUS
<1>2. DOMAIN Candidates(v) = 1..4 /\ \A k \in 1..4 : Candidates(v)[k] \in Nat
  BY <1>1 DEF Candidates
<1> QED
  BY <1>2 DEF Simplify

LEMMA SimplerIs ==
    ASSUME NEW c \in Seq(Nat), NEW i \in 1..Len(c), NEW k \in Simplify(c[i])
    PROVE  /\ Simpler(c, i, k) \in Seq(Nat) /\ Len(Simpler(c, i, k)) = Len(c)
           /\ \A j \in 1..Len(c) :
                 /\ j # i => Simpler(c, i, k)[j] = c[j]
                 /\ j = i => Simpler(c, i, k)[j] < c[j]
<1> DEFINE v == Candidates(c[i])[k]
<1>1. c[i] \in Nat
  OBVIOUS
<1>2. v \in Nat /\ v < c[i]
  BY <1>1, CandidatesAre
<1>3. Simpler(c, i, k) = [c EXCEPT ![i] = v]
  BY DEF Simpler
<1> HIDE DEF v
<1> QED
  BY <1>2, <1>3, ExceptSeq

LEMMA SimplifiableIs ==
    ASSUME gen \in Generators, NEW c, Sized(c)
    PROVE  Simplifiable(c) \subseteq 1..Len(c) /\ (gen.mode = "indexed" => Simplifiable(c) = {})
<1>1. CASE gen.mode = "fields"
  <2>1. Simplifiable(c) = gen.numeric
    BY <1>1 DEF Simplifiable
  <2> QED
    BY <1>1, <2>1, Resolved DEF Sized
<1>2. CASE gen.mode = "records"
  BY <1>2 DEF Simplifiable, Sized
<1>3. CASE gen.mode \notin {"fields", "records"}
  BY <1>3 DEF Simplifiable
<1> QED
  BY <1>1, <1>2, <1>3

\* With a record left out: the others, in their order.
LEMMA DroppedIs ==
    ASSUME gen \in Generators, NEW c, Sized(c), NEW t \in Dropped(c)
    PROVE  /\ Recorded /\ Sized(t) /\ DOMAIN t = 1..Len(t)
           /\ \E at \in [DOMAIN t -> DOMAIN c] :
                /\ \A i, j \in DOMAIN t : i < j => at[i] < at[j]
                /\ \A i \in DOMAIN t : t[i] = c[at[i]]
<1>1. DOMAIN c = 1..Len(c) /\ c \in Seq(Nat) /\ Len(c) \in gen.min..gen.max
  BY DEF Sized
<1>2. Recorded /\ Len(c) > gen.min /\ gen.min \in Nat /\ gen.max \in Nat
  BY Resolved DEF Dropped
<1>3. PICK d \in 1..Len(c) : t = RemoveAt(c, d)
  BY <1>1 DEF Dropped
<1>4. /\ t \in Seq(Nat) /\ Len(t) = Len(c) - 1
      /\ \A j \in 1..Len(t) : (j < d => t[j] = c[j]) /\ (j >= d => t[j] = c[j + 1])
  BY <1>1, <1>3, RemoveIs
<1>5. DOMAIN t = 1..Len(t)
  BY <1>4
<1>6. Sized(t)
  BY <1>1, <1>2, <1>4 DEF Sized
<1> DEFINE next(j) == IF j < d THEN j ELSE j + 1
           at == [j \in DOMAIN t |-> next(j)]
<1>7. ASSUME NEW j \in DOMAIN t PROVE next(j) \in DOMAIN c /\ t[j] = c[next(j)]
  <2>1. j \in 1..Len(t) /\ Len(t) = Len(c) - 1
    BY <1>4, <1>5
  <2>2. (j < d => next(j) = j) /\ (j >= d => next(j) = j + 1)
    BY <2>1
  <2> HIDE DEF next
  <2>3. next(j) \in 1..Len(c)
    BY <1>1, <2>1, <2>2
  <2>4. (j < d => t[j] = c[j]) /\ (j >= d => t[j] = c[j + 1])
    BY <1>4, <2>1
  <2>5. j < d \/ j >= d
    BY <2>1
  <2>6. t[j] = c[next(j)]
    BY <2>2, <2>4, <2>5
  <2> QED
    BY <1>1, <2>3, <2>6
<1>8. \A i, j \in DOMAIN t : i < j => next(i) < next(j)
  BY <1>5
<1> HIDE DEF next
<1>9. at \in [DOMAIN t -> DOMAIN c] /\ \A j \in DOMAIN t : at[j] = next(j)
  BY <1>7
<1> HIDE DEF at
<1> QED
  BY <1>2, <1>5, <1>6, <1>7, <1>8, <1>9

\* With a smaller value put in: the others are as they were.
LEMMA SmallerIs ==
    ASSUME gen \in Generators, NEW c, Sized(c), NEW t \in Smaller(c)
    PROVE  /\ gen.mode # "indexed" /\ Sized(t) /\ DOMAIN t = DOMAIN c
           /\ \A j \in DOMAIN t : t[j] \in Nat /\ c[j] \in Nat /\ t[j] <= c[j]
<1>1. DOMAIN c = 1..Len(c) /\ c \in Seq(Nat)
  BY DEF Sized
<1>2. PICK i \in Simplifiable(c) : \E k \in Simplify(c[i]) : t = Simpler(c, i, k)
  BY DEF Smaller
<1>3. i \in 1..Len(c) /\ gen.mode # "indexed"
  BY <1>2, SimplifiableIs
<1>4. /\ t \in Seq(Nat) /\ Len(t) = Len(c)
      /\ \A j \in 1..Len(c) : (j # i => t[j] = c[j]) /\ (j = i => t[j] < c[j])
  BY <1>1, <1>2, <1>3, SimplerIs
<1>5. DOMAIN t = DOMAIN c /\ Sized(t)
  BY <1>1, <1>4 DEF Sized
<1>6. ASSUME NEW j \in DOMAIN t PROVE t[j] \in Nat /\ c[j] \in Nat /\ t[j] <= c[j]
  <2>1. t[j] \in Nat /\ c[j] \in Nat /\ j \in 1..Len(c)
    BY <1>1, <1>4, <1>5
  <2> QED
    BY <1>4, <2>1
<1> QED
  BY <1>3, <1>5, <1>6

\* What one step makes of a case is a file if the case is one.
LEMMA TrialIsFile ==
    ASSUME gen \in Generators, NEW c, Sized(c), NEW t \in Dropped(c) \cup Smaller(c)
    PROVE  /\ Sized(t)
           /\ Distinct(c) => Distinct(t)
           /\ InRange(c) => InRange(t)
<1>1. CASE t \in Dropped(c)
  <2>1. PICK at \in [DOMAIN t -> DOMAIN c] :
          /\ \A i, j \in DOMAIN t : i < j => at[i] < at[j]
          /\ \A i \in DOMAIN t : t[i] = c[at[i]]
    BY <1>1, DroppedIs
  <2>2. Sized(t) /\ DOMAIN t = 1..Len(t) /\ Len(t) \in Nat /\ DOMAIN c \subseteq Nat
    BY <1>1, DroppedIs DEF Sized
  <2>3. InRange(c) => InRange(t)
    BY <2>1 DEF InRange, Range
  <2>4. ASSUME NEW i \in DOMAIN t, NEW j \in DOMAIN t, at[i] = at[j] PROVE i = j
    <3>1. i \in Nat /\ j \in Nat /\ at[i] \in Nat /\ at[j] \in Nat
      BY <2>1, <2>2
    <3>2. ~(i < j) /\ ~(j < i)
      BY <2>1, <2>4, <3>1
    <3> QED
      BY <3>1, <3>2
  <2>5. Distinct(c) => Distinct(t)
    BY <2>1, <2>4 DEF Distinct
  <2> QED
    BY <2>2, <2>3, <2>5
<1>2. CASE t \in Smaller(c)
  <2>1. /\ gen.mode # "indexed" /\ Sized(t) /\ DOMAIN t = DOMAIN c
        /\ \A j \in DOMAIN t : t[j] \in Nat /\ c[j] \in Nat /\ t[j] <= c[j]
    BY <1>2, SmallerIs
  <2>2. ASSUME InRange(c), NEW j \in DOMAIN t PROVE t[j] \in 0..gen.top
    <3>1. c[j] \in 0..gen.top /\ gen.top \in Nat
      BY <2>1, <2>2, Resolved DEF InRange, Range
    <3> QED
      BY <2>1, <3>1
  <2>3. InRange(c) => InRange(t)
    BY <2>2 DEF InRange, Range
  <2> QED
    BY <2>1, <2>3 DEF Distinct
<1> QED
  BY <1>1, <1>2

\* And it is no larger than whatever the case was no larger than.
LEMMA TrialNoLarger ==
    ASSUME gen \in Generators, NEW c, Sized(c), NEW t \in Dropped(c) \cup Smaller(c),
           NEW big \in Seq(Nat), NoLarger(c, big)
    PROVE  NoLarger(t, big)
<1>1. PICK of \in [DOMAIN c -> DOMAIN big] :
        /\ \A i, j \in DOMAIN c : i < j => of[i] < of[j]
        /\ \A i \in DOMAIN c : c[i] <= big[of[i]]
  BY DEF NoLarger
<1>2. CASE t \in Dropped(c)
  <2>1. PICK at \in [DOMAIN t -> DOMAIN c] :
          /\ \A i, j \in DOMAIN t : i < j => at[i] < at[j]
          /\ \A i \in DOMAIN t : t[i] = c[at[i]]
    BY <1>2, DroppedIs
  <2> DEFINE from == [j \in DOMAIN t |-> of[at[j]]]
  <2>2. from \in [DOMAIN t -> DOMAIN big] /\ \A i \in DOMAIN t : from[i] = of[at[i]]
    BY <1>1, <2>1
  <2> HIDE DEF from
  <2>3. \A i, j \in DOMAIN t : i < j => from[i] < from[j]
    BY <1>1, <2>1, <2>2
  <2>4. \A i \in DOMAIN t : t[i] <= big[from[i]]
    BY <1>1, <2>1, <2>2
  <2> QED
    BY <2>2, <2>3, <2>4 DEF NoLarger
<1>3. CASE t \in Smaller(c)
  <2>1. /\ DOMAIN t = DOMAIN c
        /\ \A j \in DOMAIN t : t[j] \in Nat /\ c[j] \in Nat /\ t[j] <= c[j]
    BY <1>3, SmallerIs
  <2>2. ASSUME NEW j \in DOMAIN t PROVE t[j] <= big[of[j]]
    <3>1. big[of[j]] \in Nat /\ c[j] <= big[of[j]]
      BY <1>1, <2>1
    <3> QED
      BY <2>1, <3>1
  <2> QED
    BY <1>1, <2>1, <2>2 DEF NoLarger
<1> QED
  BY <1>2, <1>3

LEMMA NoLargerThanItself ==
    ASSUME NEW c \in Seq(Nat)
    PROVE  NoLarger(c, c)
<1> DEFINE of == [i \in DOMAIN c |-> i]
<1>1. /\ of \in [DOMAIN c -> DOMAIN c]
      /\ \A i, j \in DOMAIN c : i < j => of[i] < of[j]
      /\ \A i \in DOMAIN c : c[i] <= c[of[i]]
  OBVIOUS
<1> HIDE DEF of
<1> QED
  BY <1>1 DEF NoLarger
-----------------------------------------------------------------------------
(***************************************************************************)
(* The inductive invariant                                                 *)
(***************************************************************************)
Busy == pc \in {"round", "drop", "field", "try", "shrunk"}

\* Where the loops are, generating and shrinking.
Places ==
    /\ Len(cases) <= gen.count /\ Len(results) <= Len(cases)
    /\ want = None => lines = <<>>
    /\ want # None => /\ pc \in {"generate", "refused"}
                      /\ Len(lines) <= want /\ Len(cases) < gen.count
    /\ pc # "refused" => attempt < MaxAttempts
    /\ Busy \/ DOMAIN shrunk # {} => Len(results) = gen.count
    /\ verdict # None => pc = "reported"
    /\ Busy => ToShrink # {} /\ current \in failing /\ diffs = current
    /\ pc = "drop" => Recorded /\ ~changed
    /\ pc \in {"drop", "field"} => idx \in 1..(Len(current) + 1)
    /\ pc = "try" => idx \in Simplifiable(current) /\ left \subseteq Simplify(current[idx])

\* All cases there are, and what there is of the next one.
Files ==
    /\ cases \in Seq(Seq(Nat)) /\ lines \in Seq(Nat)
    /\ \A case \in Range(cases) \cup failing \cup passing : Sized(case) /\ Distinct(case)
    /\ Distinct(lines)

\* A case is known to fail exactly when its result says so.
Judged ==
    /\ failing \cap passing = {}
    /\ \A i \in DOMAIN results :
          IF results[i] = "FAIL" THEN cases[i] \in failing ELSE cases[i] \in passing
    /\ failing # {} => Failed # {}

\* The failures shrunk so far are the first ones, the next is on its way.
Shrinks ==
    /\ IsFiniteSet(DOMAIN shrunk) /\ Cardinality(DOMAIN shrunk) <= MaxTargets
    /\ DOMAIN shrunk \subseteq Failed
    /\ \A i \in Failed \ DOMAIN shrunk, j \in DOMAIN shrunk : j < i
    /\ \A i \in DOMAIN shrunk :
          /\ shrunk[i].stdin \in failing /\ shrunk[i].diffs = shrunk[i].stdin
          /\ NoLarger(shrunk[i].stdin, cases[i])
    /\ Busy => \A i : IsFirst(i, ToShrink) => NoLarger(current, cases[i])

\* A round that has changed nothing: what was run of it, and passed.
Searched ==
    ~changed /\ runs < MaxRuns =>
        /\ pc = "drop" /\ Len(current) > gen.min =>
             \A i \in 1..(idx - 1) : RemoveAt(current, i) \in passing
        /\ pc \in {"field", "try", "round"} => Dropped(current) \subseteq passing
        /\ pc \in {"field", "try"} =>
             \A i \in Simplifiable(current) : i < idx =>
                 \A k \in Simplify(current[i]) : Simpler(current, i, k) \in passing
        /\ pc = "try" =>
             \A k \in Simplify(current[idx]) \ left : Simpler(current, idx, k) \in passing
        /\ pc = "round" => Smaller(current) \subseteq passing

Inv == /\ TypeOK /\ Places /\ Files /\ Judged /\ Shrinks /\ Searched
       /\ LocallyMinimal /\ ReportIsTrue

LEMMA GeneratorIs ==
    ASSUME TypeOK
    PROVE  /\ gen \in Generators /\ gen.min \in Nat /\ gen.max \in Nat /\ gen.top \in Nat
           /\ gen.count \in Nat /\ gen.min <= gen.max /\ MaxRuns \in Nat
BY Resolved DEF TypeOK

LEMMA CurrentIs ==
    ASSUME Files, Places, Busy
    PROVE  Sized(current) /\ Distinct(current)
BY DEF Files, Places

LEMMA CasesAre ==
    ASSUME Files, NEW i \in DOMAIN cases
    PROVE  Sized(cases[i]) /\ Distinct(cases[i])
BY DEF Files, Range

LEMMA LengthIs ==
    ASSUME TypeOK, NEW c, Sized(c)
    PROVE  Len(c) \in Nat /\ DOMAIN c = 1..Len(c) /\ Len(c) <= gen.max /\ c \in Seq(Nat)
BY GeneratorIs DEF Sized

\* A step of the shrinker runs something made of the current case, or nothing.
Probe(t) == runs < MaxRuns /\ (Fails(t) \/ Passes(t))
Quiet == UNCHANGED <<current, diffs, runs, failing, passing>>

LEMMA StepIs ==
    ASSUME TypeOK, Places, Files, ShrinkStep
    PROVE  /\ Busy /\ Busy' /\ gen' = gen
           /\ Quiet \/ \E t \in Dropped(current) \cup Smaller(current) : Probe(t)
<1>1. CASE DropRecord
  <2>1. Sized(current) /\ Recorded /\ idx \in 1..Len(current) /\ Len(current) > gen.min
    <3>1. Sized(current) /\ Recorded /\ idx \in 1..(Len(current) + 1)
      BY <1>1, CurrentIs DEF DropRecord, Busy, Places
    <3>2. Len(current) \in Nat /\ gen.min \in Nat
      BY <3>1, LengthIs, GeneratorIs
    <3> QED
      BY <1>1, <3>1, <3>2 DEF DropRecord
  <2>2. RemoveAt(current, idx) \in Dropped(current)
    BY <2>1, LengthIs DEF Dropped
  <2>3. Probe(RemoveAt(current, idx)) /\ Busy /\ Busy'
    BY <1>1 DEF DropRecord, Probe, Busy
  <2> QED
    BY <1>1, <2>2, <2>3 DEF DropRecord
<1>2. CASE TryCandidate
  <2>1. PICK k \in left : Fails(Simpler(current, idx, k)) \/ Passes(Simpler(current, idx, k))
    BY <1>2 DEF TryCandidate
  <2>2. idx \in Simplifiable(current) /\ k \in Simplify(current[idx])
    BY <1>2 DEF TryCandidate, Places
  <2>3. Simpler(current, idx, k) \in Smaller(current)
    BY <2>2 DEF Smaller
  <2>4. Probe(Simpler(current, idx, k)) /\ Busy /\ Busy'
    BY <1>2, <2>1 DEF TryCandidate, Probe, Busy
  <2> QED
    BY <1>2, <2>3, <2>4 DEF TryCandidate
<1>3. CASE Round
  BY <1>3 DEF Round, Busy, Quiet
<1>4. CASE DropsOver \/ EnterField \/ FieldOver \/ FieldsOver
  BY <1>4 DEF DropsOver, EnterField, FieldOver, FieldsOver, Busy, Quiet
<1> QED
  BY <1>1, <1>2, <1>3, <1>4 DEF ShrinkStep

-----------------------------------------------------------------------------
(***************************************************************************)
(* Cases are files                                                         *)
(***************************************************************************)
LEMMA DrawnIs ==
    ASSUME gen \in Generators
    PROVE  Drawn \subseteq Nat
<1>1. ASSUME NEW n \in 0..(SmallDraws - 1) PROVE n \in Nat /\ n % (gen.top + 1) \in Nat
  BY Limits, Resolved
<1>2. {n % (gen.top + 1) : n \in 0..(SmallDraws - 1)} \subseteq Nat
  BY <1>1
<1>3. 0..(SmallDraws - 1) \subseteq Nat /\ 0..gen.top \subseteq Nat /\ gen.top \in Nat
  BY <1>1, Resolved
<1> QED
  BY <1>2, <1>3 DEF Drawn

\* A record appended to those drawn has a key of its own.
LEMMA AppendedIs ==
    ASSUME gen \in Generators, lines \in Seq(Nat), Distinct(lines), NEW line \in Nat,
           KeyOf(line) \notin Seen
    PROVE  /\ Append(lines, line) \in Seq(Nat)
           /\ gen.mode = "indexed" =>
                \A i, j \in DOMAIN Append(lines, line) :
                    KeyOf(Append(lines, line)[i]) = KeyOf(Append(lines, line)[j]) => i = j
<1> DEFINE new == Append(lines, line)
<1>1. /\ new \in Seq(Nat) /\ DOMAIN new = 1..(Len(lines) + 1) /\ Len(lines) \in Nat
      /\ \A i \in 1..Len(lines) : new[i] = lines[i]
      /\ new[Len(lines) + 1] = line
  OBVIOUS
<1>2. \A i \in 1..Len(lines) : KeyOf(new[i]) \in Seen
  BY <1>1 DEF Seen
<1> HIDE DEF new
<1>3. ASSUME gen.mode = "indexed", NEW i \in DOMAIN new, NEW j \in DOMAIN new,
             KeyOf(new[i]) = KeyOf(new[j])
      PROVE  i = j
  <2>1. i \in 1..Len(lines) \/ i = Len(lines) + 1
    BY <1>1
  <2>2. j \in 1..Len(lines) \/ j = Len(lines) + 1
    BY <1>1
  <2>3. CASE i \in 1..Len(lines) /\ j \in 1..Len(lines)
    <3>1. DOMAIN lines = 1..Len(lines)
      OBVIOUS
    <3> QED
      BY <1>1, <1>3, <2>3, <3>1 DEF Distinct
  <2>4. CASE ~(i \in 1..Len(lines) /\ j \in 1..Len(lines))
    BY <1>1, <1>2, <1>3, <2>1, <2>2, <2>4
  <2> QED
    BY <2>3, <2>4
<1> QED
  BY <1>1, <1>3 DEF new

LEMMA RangeOfAppend ==
    ASSUME NEW S, NEW s \in Seq(S), NEW c
    PROVE  Range(Append(s, c)) = Range(s) \cup {c}
<1>1. /\ DOMAIN Append(s, c) = 1..(Len(s) + 1) /\ DOMAIN s = 1..Len(s) /\ Len(s) \in Nat
      /\ \A i \in 1..Len(s) : Append(s, c)[i] = s[i]
      /\ Append(s, c)[Len(s) + 1] = c
  OBVIOUS
<1>2. 1..(Len(s) + 1) = 1..Len(s) \cup {Len(s) + 1}
  BY <1>1
<1> QED
  BY <1>1, <1>2 DEF Range

\* Another case, generated.
LEMMA CaseAdded ==
    ASSUME Files, NEW c, Sized(c), Distinct(c),
           gen' = gen, cases' = Append(cases, c), lines' = <<>>, UNCHANGED <<failing, passing>>
    PROVE  Files'
<1>1. c \in Seq(Nat)
  BY DEF Sized
<1>2. cases' \in Seq(Seq(Nat)) /\ Range(cases') = Range(cases) \cup {c}
  BY <1>1, RangeOfAppend DEF Files
<1>3. \A case : Sized(case)' <=> Sized(case)
  BY DEF Sized
<1>4. \A case : Sized(case) => (Distinct(case)' <=> Distinct(case))
  BY DEF Distinct, KeyOf
<1>5. lines' \in Seq(Nat) /\ Distinct(lines)'
  BY DEF Distinct
<1> QED
  BY <1>2, <1>3, <1>4, <1>5 DEF Files

\* Nothing new, but what was run of it.
LEMMA CasesRun ==
    ASSUME Files, gen' = gen, UNCHANGED <<cases, lines>>,
           \A case \in (failing \cup passing)' \ (failing \cup passing) :
                Sized(case) /\ Distinct(case)
    PROVE  Files'
<1>1. \A case : Sized(case)' <=> Sized(case)
  BY DEF Sized
<1>2. \A case : Sized(case) => (Distinct(case)' <=> Distinct(case))
  BY DEF Distinct, KeyOf
<1>3. Distinct(lines)'
  BY DEF Files, Distinct, KeyOf
<1> QED
  BY <1>1, <1>2, <1>3 DEF Files

LEMMA FilesStep ==
    ASSUME TypeOK, Places, Files, [Next]_vars
    PROVE  Files'
<1> USE DEF genVars, shrinkVars, target
<1>1. CASE Draw
  <2>1. want \in gen.min..gen.max /\ want \in Nat
    BY <1>1, GeneratorIs DEF Draw, TypeOK
  <2>2. CASE gen.mode = "indexed"
    <3>1. Sized(lines) /\ Distinct(lines)
      BY <1>1, <2>1, <2>2 DEF Draw, Sized, Files
    <3> QED
      BY <1>1, <2>2, <3>1, CaseAdded DEF Draw
  <2>3. CASE gen.mode # "indexed"
    <3>1. PICK case \in [1..want -> Drawn] : cases' = Append(cases, case)
      BY <1>1, <2>3 DEF Draw
    <3>2. case \in [1..want -> Nat]
      BY <3>1, DrawnIs, GeneratorIs
    <3>3. Sized(case) /\ Distinct(case)
      BY <2>1, <2>3, <3>2 DEF Sized, Distinct
    <3> QED
      BY <1>1, <3>1, <3>3, CaseAdded DEF Draw
  <2> QED
    BY <2>2, <2>3
<1>2. CASE DrawRecord
  <2>1. PICK line \in Drawn :
          IF KeyOf(line) \notin Seen THEN lines' = Append(lines, line) ELSE lines' = lines
    BY <1>2 DEF DrawRecord
  <2>2. gen' = gen /\ UNCHANGED <<cases, failing, passing>>
    BY <1>2 DEF DrawRecord
  <2>3. lines' \in Seq(Nat) /\ Distinct(lines)'
    <3>1. CASE KeyOf(line) \notin Seen
      <4>1. line \in Nat
        BY DrawnIs, GeneratorIs
      <4>2. lines' = Append(lines, line)
        BY <2>1, <3>1
      <4> QED
        BY <2>2, <3>1, <4>1, <4>2, AppendedIs, GeneratorIs DEF Files, Distinct, KeyOf
    <3>2. CASE KeyOf(line) \in Seen
      BY <2>1, <2>2, <3>2 DEF Files, Distinct, KeyOf
    <3> QED
      BY <3>1, <3>2
  <2>4. \A case : Sized(case)' <=> Sized(case)
    BY <2>2 DEF Sized
  <2>5. \A case : Sized(case) => (Distinct(case)' <=> Distinct(case))
    BY <2>2 DEF Distinct, KeyOf
  <2> QED
    BY <2>2, <2>3, <2>4, <2>5 DEF Files
<1>3. CASE RunCase
  <2>1. Len(results) + 1 \in DOMAIN cases
    BY <1>3 DEF RunCase, Files, TypeOK, Places
  <2>2. Sized(cases[Len(results) + 1]) /\ Distinct(cases[Len(results) + 1])
    BY <2>1, CasesAre
  <2>3. (failing \cup passing)' = failing \cup passing \cup {cases[Len(results) + 1]}
    BY <1>3 DEF RunCase
  <2> QED
    BY <1>3, <2>2, <2>3, CasesRun DEF RunCase
<1>4. CASE Shrinking
  <2>1. Quiet \/ \E t \in Dropped(current) \cup Smaller(current) : Probe(t)
    BY <1>4, StepIs DEF Shrinking
  <2>2. gen' = gen /\ UNCHANGED <<cases, lines>> /\ Busy
    BY <1>4, StepIs DEF Shrinking
  <2>3. CASE Quiet
    BY <2>2, <2>3, CasesRun DEF Quiet
  <2>4. ASSUME NEW t \in Dropped(current) \cup Smaller(current), Probe(t)
        PROVE  Files'
    <3>1. Sized(t) /\ Distinct(t)
      BY <2>2, CurrentIs, TrialIsFile, GeneratorIs
    <3>2. (failing \cup passing)' = failing \cup passing \cup {t}
      BY <2>4 DEF Probe, Fails, Passes
    <3> QED
      BY <2>2, <3>1, <3>2, CasesRun
  <2> QED
    BY <2>1, <2>3, <2>4
<1>5. CASE UNCHANGED <<gen, cases, lines, failing, passing>>
  BY <1>5, CasesRun
<1> QED
  BY <1>1, <1>2, <1>3, <1>4, <1>5
     DEF Next, vars, PickCount, NextTarget, BeginShrink, Shrunk, Report

-----------------------------------------------------------------------------
(***************************************************************************)
(* The loops                                                               *)
(***************************************************************************)
LEMMA SameTargets ==
    ASSUME UNCHANGED <<results, shrunk>>
    PROVE  ToShrink' = ToShrink /\ Failed' = Failed
BY DEF ToShrink, Failed

LEMMA SameFields ==
    ASSUME UNCHANGED <<gen, current>>
    PROVE  /\ Simplifiable(current)' = Simplifiable(current)
           /\ Dropped(current)' = Dropped(current) /\ Smaller(current)' = Smaller(current)
BY DEF Simplifiable, Dropped, Smaller, Recorded

LEMMA TargetIs ==
    ASSUME Places, Judged, NEW i \in ToShrink
    PROVE  i \in Failed /\ i \notin DOMAIN shrunk /\ cases[i] \in failing
BY DEF Judged, ToShrink, Failed

\* What changes in the loops of the shrinker alone.
LEMMA PlacesOfShrinking ==
    ASSUME TypeOK, Places, Files, Shrinking
    PROVE  Places'
<1> USE DEF genVars
<1>1. /\ UNCHANGED <<gen, cases, want, lines, attempt, results, shrunk, verdict>>
      /\ Busy /\ Busy'
  BY StepIs DEF Shrinking
<1>2. ToShrink' = ToShrink
  BY <1>1, SameTargets
<1>3. current' \in failing' /\ diffs' = current'
  <2>1. CASE Quiet
    BY <1>1, <2>1 DEF Quiet, Places
  <2>2. CASE \E t : Probe(t)
    BY <1>1, <2>2 DEF Probe, Fails, Passes, Places
  <2> QED
    BY <2>1, <2>2, StepIs DEF Shrinking
<1>4. /\ Sized(current) /\ Len(current) \in Nat /\ DOMAIN current = 1..Len(current)
      /\ Simplifiable(current) \subseteq 1..Len(current)
  BY <1>1, CurrentIs, LengthIs, SimplifiableIs, GeneratorIs
<1> DEFINE Loops == /\ pc' = "drop" => Recorded' /\ ~changed'
                    /\ pc' \in {"drop", "field"} => idx' \in 1..(Len(current') + 1)
                    /\ pc' = "try" => /\ idx' \in Simplifiable(current)'
                                      /\ left' \subseteq Simplify(current'[idx'])
<1>5. ASSUME Round PROVE Loops
  BY <1>1, <1>4, <1>5 DEF Round, Recorded
<1>6. ASSUME DropRecord PROVE Loops
  BY <1>1, <1>4, <1>6 DEF DropRecord, Fails, Passes, Places, Recorded
<1>7. ASSUME DropsOver PROVE Loops
  BY <1>1, <1>4, <1>7 DEF DropsOver
<1>8. ASSUME EnterField PROVE Loops
  BY <1>1, <1>4, <1>8, SameFields DEF EnterField, Places
<1>9. ASSUME TryCandidate PROVE Loops
  <2>1. PICK k \in left :
          LET t == Simpler(current, idx, k) IN
          \/ Fails(t) /\ pc' = "field" /\ idx' = idx + 1 /\ left' = {}
          \/ Passes(t) /\ left' = left \ {k} /\ UNCHANGED <<pc, idx>>
    BY <1>9 DEF TryCandidate
  <2>2. idx \in Simplifiable(current) /\ idx \in 1..Len(current)
        /\ left \subseteq Simplify(current[idx]) /\ pc = "try"
    BY <1>4, <1>9 DEF TryCandidate, Places
  <2>3. ASSUME Fails(Simpler(current, idx, k)), pc' = "field", idx' = idx + 1 PROVE Loops
    <3>1. Len(current') = Len(current)
      BY <1>4, <2>2, <2>3, SimplerIs DEF Fails, Sized
    <3> QED
      BY <1>4, <2>2, <2>3, <3>1
  <2>4. ASSUME Passes(Simpler(current, idx, k)), left' = left \ {k}, UNCHANGED <<pc, idx>>
        PROVE  Loops
    BY <1>1, <2>2, <2>4, SameFields DEF Passes
  <2> QED
    BY <2>1, <2>3, <2>4
<1>10. ASSUME FieldOver PROVE Loops
  BY <1>1, <1>4, <1>10 DEF FieldOver, Places
<1>11. ASSUME FieldsOver PROVE Loops
  BY <1>1, <1>4, <1>11 DEF FieldsOver
<1>12. Loops
  BY <1>5, <1>6, <1>7, <1>8, <1>9, <1>10, <1>11 DEF Shrinking, ShrinkStep
<1> HIDE DEF Loops
<1>14. Busy' => pc' # "generate" /\ pc' # "refused" /\ pc' # "reported"
  BY DEF Busy
<1>15. pc # "generate" /\ pc # "refused" /\ pc # "reported"
  BY <1>1 DEF Busy
<1> QED
  BY <1>1, <1>2, <1>3, <1>12, <1>14, <1>15 DEF Places, Loops

LEMMA PlacesStep ==
    ASSUME TypeOK, Places, Files, Judged, [Next]_vars
    PROVE  Places'
<1> USE DEF genVars, shrinkVars, target
<1>1. /\ Len(cases) \in Nat /\ Len(results) \in Nat /\ Len(lines) \in Nat
      /\ cases \in Seq(Seq(Nat)) /\ lines \in Seq(Nat)
      /\ results \in Seq({"PASS", "FAIL", "ERROR"})
  BY DEF Files, TypeOK
<1>2. pc = "generate" => ~Busy
  BY DEF Busy
<1>3. CASE PickCount
  <2>1. Len(lines) <= want'
    BY <1>3, GeneratorIs DEF PickCount, Places
  <2> QED
    BY <1>2, <1>3, <2>1, SameTargets DEF PickCount, Places, Busy
<1>4. CASE Draw
  <2>1. PICK c : cases' = Append(cases, c)
    BY <1>4 DEF Draw
  <2>2. Len(cases') = Len(cases) + 1 /\ gen.count \in Nat
    BY <1>1, <2>1, GeneratorIs
  <2> QED
    BY <1>1, <1>2, <1>4, <2>2, SameTargets, Limits DEF Draw, Places, Busy
<1>5. CASE DrawRecord
  <2>1. Len(lines') <= want /\ (pc' # "refused" => attempt' < MaxAttempts)
    <3>1. want \in Nat /\ attempt \in Nat
      BY <1>5, GeneratorIs, Limits DEF DrawRecord, TypeOK
    <3>2. PICK line :
            IF KeyOf(line) \notin Seen
            THEN lines' = Append(lines, line) /\ attempt' = 0 /\ UNCHANGED pc
            ELSE /\ attempt' = attempt + 1 /\ UNCHANGED lines
                 /\ pc' = IF attempt' = MaxAttempts THEN "refused" ELSE pc
      BY <1>5 DEF DrawRecord
    <3>3. Len(Append(lines, line)) = Len(lines) + 1
      BY <1>1
    <3> QED
      BY <1>1, <1>5, <3>1, <3>2, <3>3, Limits DEF DrawRecord, Places
  <2>2. pc' \in {"generate", "refused"}
    BY <1>5 DEF DrawRecord
  <2> QED
    BY <1>2, <1>5, <2>1, <2>2, SameTargets DEF DrawRecord, Places, Busy
<1>6. CASE RunCase
  <2>1. PICK s : results' = Append(results, s)
    BY <1>6 DEF RunCase
  <2>2. Len(results') = Len(results) + 1 /\ gen.count \in Nat
    BY <1>1, <2>1, GeneratorIs
  <2>3. DOMAIN shrunk = {}
    <3>1. pc = "generate" /\ Len(results) # gen.count
      BY <1>1, <1>6, GeneratorIs DEF RunCase
    <3> QED
      BY <3>1 DEF Places
  <2> QED
    BY <1>1, <1>2, <1>6, <2>2, <2>3 DEF RunCase, Places, Busy
<1>7. CASE NextTarget
  <2>1. PICK i \in ToShrink : BeginShrink(cases[i])
    BY <1>7 DEF NextTarget
  <2>2. cases[i] \in failing
    BY <2>1, TargetIs
  <2>3. UNCHANGED <<gen, cases, want, lines, attempt, results, shrunk, verdict>>
        /\ pc' = "round" /\ Len(results) = gen.count /\ want = None
    BY <1>1, <1>7, <2>1, GeneratorIs DEF NextTarget, BeginShrink, Places
  <2>4. ToShrink' # {} /\ current' \in failing' /\ diffs' = current'
    BY <2>1, <2>2, <2>3, SameTargets DEF BeginShrink
  <2>5. pc = "generate" /\ verdict = None
    BY <1>7 DEF NextTarget, Places
  <2> QED
    BY <2>3, <2>4, <2>5 DEF Places
<1>8. CASE Shrunk
  <2>1. Busy /\ pc' = "generate" /\ ~Busy'
    BY <1>8 DEF Shrunk, Busy
  <2> QED
    BY <1>8, <2>1 DEF Shrunk, Places
<1>9. CASE Report
  <2>1. want = None
    BY <1>1, <1>9, GeneratorIs DEF Report, Places
  <2> QED
    BY <1>2, <1>9, <2>1, SameTargets DEF Report, Places, Busy
<1>10. CASE Shrinking
  BY <1>10, PlacesOfShrinking
<1>11. CASE UNCHANGED vars
  BY <1>11, SameTargets, SameFields DEF vars, Places, Busy, Recorded
<1> QED
  BY <1>3, <1>4, <1>5, <1>6, <1>7, <1>8, <1>9, <1>10, <1>11 DEF Next

LEMMA TypeStep ==
    ASSUME TypeOK, Places, Files, Places', Files', [Next]_vars
    PROVE  TypeOK'
<1> USE DEF genVars, shrinkVars, target
<1>1. gen' = gen /\ gen' \in Generators
  BY StepIs DEF Next, vars, PickCount, Draw, DrawRecord, RunCase, NextTarget, BeginShrink,
     Shrunk, Report, Shrinking, TypeOK
<1>2. \A case \in Range(cases') \cup failing' \cup passing' :
         case \in Seq(Nat) /\ Len(case) <= gen.max
  BY <1>1, GeneratorIs DEF Files, Sized
<1>3. current' \in Seq(Nat) /\ Len(current') <= gen.max
  <2>1. CASE current' \in failing'
    BY <1>2, <2>1
  <2>2. CASE current' = current
    BY <2>2 DEF TypeOK
  <2>3. CASE Busy'
    BY <2>1, <2>3 DEF Places
  <2>4. CASE ~Busy'
    BY <2>2, <2>4, StepIs DEF Next, vars, PickCount, Draw, DrawRecord, RunCase, NextTarget,
       BeginShrink, Shrunk, Report, Shrinking, Busy
  <2> QED
    BY <2>3, <2>4
<1>4. want' \in {None} \cup gen.min..gen.max
  BY <1>1 DEF Next, vars, PickCount, Draw, DrawRecord, RunCase, NextTarget, Shrunk, Report,
     Shrinking, TypeOK
<1>5. lines' \in Seq(Nat) /\ Len(lines') <= gen.max
  <2>1. lines' \in Seq(Nat) /\ Len(lines') \in Nat
    BY DEF Files
  <2>2. CASE want' = None
    BY <2>1, <2>2, GeneratorIs DEF Places
  <2>3. CASE want' # None
    BY <1>4, <2>1, <2>3, GeneratorIs DEF Places
  <2> QED
    BY <2>1, <2>2, <2>3
<1>6. runs' \in 0..MaxRuns /\ changed' \in BOOLEAN
  <2>1. CASE Shrinking
    <3>1. runs' \in 0..MaxRuns
      <4>1. CASE Quiet
        BY <4>1 DEF Quiet, TypeOK
      <4>2. CASE \E t : Probe(t)
        BY <4>2, GeneratorIs DEF Probe, Fails, Passes, TypeOK
      <4> QED
        BY <2>1, <4>1, <4>2, StepIs DEF Shrinking
    <3>2. changed' \in BOOLEAN
      BY <2>1 DEF Shrinking, ShrinkStep, Round, DropRecord, DropsOver, EnterField,
         TryCandidate, FieldOver, FieldsOver, Fails, Passes, TypeOK
    <3> QED
      BY <3>1, <3>2
  <2>2. CASE NextTarget
    BY <2>2, GeneratorIs DEF NextTarget, BeginShrink
  <2>3. CASE UNCHANGED <<runs, changed>>
    BY <2>3 DEF TypeOK
  <2> QED
    BY <2>1, <2>2, <2>3 DEF Next, vars, PickCount, Draw, DrawRecord, RunCase, Shrunk, Report
<1>7. pc' \in {"generate", "refused", "round", "drop", "field", "try", "shrunk", "reported"}
  BY DEF Next, vars, PickCount, Draw, DrawRecord, RunCase, NextTarget, BeginShrink, Shrunk,
     Report, Shrinking, ShrinkStep, Round, DropRecord, DropsOver, EnterField, TryCandidate,
     FieldOver, FieldsOver, TypeOK
<1>8. idx' \in 0..(gen.max + 1) /\ left' \subseteq 1..4
  <2>1. CASE Shrinking
    <3>1. Sized(current) /\ Len(current) <= gen.max /\ Len(current) \in Nat /\ Busy
      BY <2>1, StepIs, CurrentIs, LengthIs DEF Shrinking
    <3>2. Simplifiable(current) \subseteq 1..Len(current)
      BY <3>1, SimplifiableIs, GeneratorIs
    <3>3. idx' \in 0..(gen.max + 1)
      <4>1. CASE pc \in {"drop", "field"}
        <5>1. idx \in Nat /\ gen.max \in Nat /\ idx <= gen.max + 1
          BY <2>1, <4>1, GeneratorIs DEF TypeOK, Places
        <5>2. \/ idx' \in {1, idx}
              \/ idx' = idx + 1 /\ idx <= Len(current)
          BY <2>1, <3>2, <4>1 DEF Shrinking, ShrinkStep, Round, DropRecord,
             DropsOver, EnterField, TryCandidate, FieldOver, FieldsOver
        <5> QED
          BY <3>1, <5>1, <5>2
      <4>2. CASE pc = "try"
        <5>1. idx \in 1..Len(current)
          BY <3>2, <4>2 DEF Places
        <5>2. idx' = idx \/ idx' = idx + 1
          BY <2>1, <4>2 DEF Shrinking, ShrinkStep, Round, DropRecord,
             DropsOver, EnterField, TryCandidate, FieldOver, FieldsOver
        <5> QED
          BY <3>1, <5>1, <5>2, GeneratorIs
      <4>3. CASE pc \in {"round", "shrunk"}
        BY <2>1, <4>3, GeneratorIs DEF Shrinking, ShrinkStep, Round, DropRecord,
           DropsOver, EnterField, TryCandidate, FieldOver, FieldsOver
      <4> QED
        BY <3>1, <4>1, <4>2, <4>3 DEF Busy
    <3>4. left' \subseteq 1..4
      <4>1. CASE EnterField
        <5>1. CASE idx \in Simplifiable(current)
          <6>1. current[idx] \in Nat
            BY <3>1, <3>2, <5>1 DEF Sized
          <6> QED
            BY <4>1, <5>1, <6>1, CandidatesAre DEF EnterField
        <5>2. CASE idx \notin Simplifiable(current)
          BY <4>1, <5>2 DEF EnterField, TypeOK
        <5> QED
          BY <5>1, <5>2
      <4>2. CASE ~EnterField
        BY <2>1, <4>2 DEF Shrinking, ShrinkStep, Round, DropRecord, DropsOver,
           TryCandidate, FieldOver, FieldsOver, TypeOK
      <4> QED
        BY <4>1, <4>2
    <3> QED
      BY <3>3, <3>4
  <2>2. CASE NextTarget
    BY <2>2, GeneratorIs DEF NextTarget, BeginShrink
  <2>3. CASE UNCHANGED <<idx, left>>
    BY <2>3 DEF TypeOK
  <2> QED
    BY <2>1, <2>2, <2>3 DEF Next, vars, PickCount, Draw, DrawRecord, RunCase, Shrunk, Report
<1>9. attempt' \in 0..MaxAttempts
  <2>1. CASE DrawRecord
    <3>1. attempt < MaxAttempts /\ attempt \in Nat
      BY <2>1, Limits DEF DrawRecord, Places, TypeOK
    <3>2. attempt' = 0 \/ attempt' = attempt + 1
      BY <2>1 DEF DrawRecord
    <3> QED
      BY <3>1, <3>2, Limits
  <2>2. CASE ~DrawRecord
    BY <2>2, Limits DEF Next, vars, PickCount, Draw, RunCase, NextTarget, Shrunk, Report,
       Shrinking, TypeOK
  <2> QED
    BY <2>1, <2>2
<1>10. results' \in Seq({"PASS", "FAIL", "ERROR"})
  <2>1. CASE RunCase
    <3>1. PICK s \in {"PASS", "FAIL", "ERROR"} : results' = Append(results, s)
      BY <2>1 DEF RunCase
    <3> QED
      BY <3>1 DEF TypeOK
  <2>2. CASE ~RunCase
    BY <2>2 DEF Next, vars, PickCount, Draw, DrawRecord, NextTarget, Shrunk, Report,
       Shrinking, TypeOK
  <2> QED
    BY <2>1, <2>2
<1>11. verdict' \in {None, "PASS", "FAIL"}
  BY DEF Next, vars, PickCount, Draw, DrawRecord, RunCase, NextTarget, Shrunk, Report,
     Shrinking, TypeOK
<1> QED
  BY <1>1, <1>2, <1>3, <1>4, <1>5, <1>6, <1>7, <1>8, <1>9, <1>10, <1>11 DEF TypeOK

-----------------------------------------------------------------------------
(***************************************************************************)
(* What was run                                                            *)
(***************************************************************************)
LEMMA JudgedStep ==
    ASSUME TypeOK, Places, Files, Judged, [Next]_vars
    PROVE  Judged'
<1> USE DEF genVars, shrinkVars, target
<1>1. /\ Len(cases) \in Nat /\ DOMAIN cases = 1..Len(cases)
      /\ Len(results) \in Nat /\ DOMAIN results = 1..Len(results)
      /\ results \in Seq({"PASS", "FAIL", "ERROR"}) /\ Len(results) <= Len(cases)
  BY DEF TypeOK, Files, Places
<1>2. CASE Draw
  <2>1. PICK c : cases' = Append(cases, c)
    BY <1>2 DEF Draw
  <2>2. \A i \in DOMAIN results : cases'[i] = cases[i]
    BY <1>1, <2>1 DEF Files
  <2> QED
    BY <1>2, <2>2 DEF Draw, Judged, Failed
<1>3. CASE RunCase
  <2> DEFINE n == Len(results) + 1
             case == cases[n]
  <2>1. PICK s \in {"PASS", "FAIL", "ERROR"} :
          /\ results' = Append(results, s)
          /\ s = "FAIL" => /\ case \notin passing /\ passing' = passing
                           /\ failing' = failing \cup {case}
          /\ s # "FAIL" => /\ case \notin failing /\ failing' = failing
                           /\ passing' = passing \cup {case}
    BY <1>3 DEF RunCase
  <2>2. /\ DOMAIN results' = DOMAIN results \cup {n} /\ n \notin DOMAIN results
        /\ results'[n] = s /\ \A i \in DOMAIN results : results'[i] = results[i]
    BY <1>1, <2>1
  <2>3. cases' = cases
    BY <1>3 DEF RunCase
  <2>4. failing' # {} => Failed' # {}
    <3>1. CASE s = "FAIL"
      BY <2>2, <3>1 DEF Failed
    <3>2. CASE s # "FAIL" /\ failing # {}
      BY <2>2, <3>2 DEF Failed, Judged
    <3> QED
      BY <2>1, <3>1, <3>2
  <2> HIDE DEF n
  <2>5. (failing \cap passing)' = {}
    BY <2>1 DEF Judged
  <2>6. ASSUME NEW i \in DOMAIN results'
        PROVE  IF results'[i] = "FAIL" THEN cases[i] \in failing' ELSE cases[i] \in passing'
    <3>1. CASE i = n
      BY <2>1, <2>2, <3>1
    <3>2. CASE i \in DOMAIN results
      BY <2>1, <2>2, <3>2 DEF Judged
    <3> QED
      BY <2>2, <3>1, <3>2
  <2> QED
    BY <2>3, <2>4, <2>5, <2>6 DEF Judged
<1>4. CASE Shrinking
  <2>1. UNCHANGED <<cases, results>> /\ Busy
    BY <1>4, StepIs DEF Shrinking
  <2>2. Failed' = Failed /\ Failed # {}
    BY <2>1 DEF Failed, Places, ToShrink
  <2>3. CASE Quiet
    BY <2>1, <2>2, <2>3 DEF Quiet, Judged
  <2>4. CASE \E t : Probe(t)
    BY <2>1, <2>2, <2>4 DEF Probe, Fails, Passes, Judged
  <2> QED
    BY <1>4, <2>3, <2>4, StepIs DEF Shrinking
<1>5. CASE UNCHANGED <<cases, results, failing, passing>>
  BY <1>5 DEF Judged, Failed
<1> QED
  BY <1>2, <1>3, <1>4, <1>5
     DEF Next, vars, PickCount, DrawRecord, NextTarget, BeginShrink, Shrunk, Report

-----------------------------------------------------------------------------
(***************************************************************************)
(* The failures shrunk                                                     *)
(***************************************************************************)
LEMMA FirstIsOne ==
    ASSUME TypeOK, NEW i, NEW j, IsFirst(i, ToShrink), IsFirst(j, ToShrink)
    PROVE  i = j
<1>1. ToShrink \subseteq Nat
  BY DEF ToShrink, Failed, TypeOK
<1> QED
  BY <1>1 DEF IsFirst

LEMMA ShrinksStep ==
    ASSUME TypeOK, Places, Files, Judged, Shrinks, [Next]_vars
    PROVE  Shrinks'
<1> USE DEF genVars, shrinkVars, target
<1>1. /\ Len(cases) \in Nat /\ DOMAIN cases = 1..Len(cases)
      /\ Len(results) \in Nat /\ DOMAIN results = 1..Len(results)
      /\ Len(results) <= Len(cases) /\ Len(cases) <= gen.count /\ gen.count \in Nat
  BY GeneratorIs DEF TypeOK, Files, Places
<1>2. CASE Draw \/ RunCase
  <2>1. DOMAIN shrunk = {} /\ ~Busy'
    <3>1. pc = "generate" /\ pc' = pc
      BY <1>2 DEF Draw, RunCase
    <3>2. Len(results) # gen.count
      BY <1>1, <1>2 DEF Draw, RunCase, Places
    <3> QED
      BY <3>1, <3>2 DEF Places, Busy
  <2>2. shrunk' = shrunk
    BY <1>2 DEF Draw, RunCase
  <2> QED
    BY <2>1, <2>2 DEF Shrinks
<1>3. CASE NextTarget
  <2>1. PICK i \in ToShrink : IsFirst(i, ToShrink) /\ BeginShrink(cases[i])
    BY <1>3 DEF NextTarget
  <2>2. UNCHANGED <<cases, results, shrunk, failing>> /\ current' = cases[i]
    BY <1>3, <2>1 DEF NextTarget, BeginShrink
  <2>3. i \in DOMAIN cases
    BY <1>1 DEF ToShrink, Failed
  <2>4. NoLarger(cases[i], cases[i])
    BY <2>3, CasesAre, LengthIs, NoLargerThanItself
  <2>5. \A j : IsFirst(j, ToShrink) => NoLarger(current', cases[j])
    BY <2>1, <2>2, <2>4, FirstIsOne
  <2> QED
    BY <2>2, <2>5, SameTargets DEF Shrinks
<1>4. CASE Shrinking
  <2>1. UNCHANGED <<gen, cases, results, shrunk>> /\ Busy
    BY <1>4, StepIs DEF Shrinking
  <2>2. ToShrink' = ToShrink /\ Failed' = Failed
    BY <2>1, SameTargets
  <2>3. CASE Quiet
    BY <2>1, <2>2, <2>3 DEF Quiet, Shrinks
  <2>4. ASSUME NEW t \in Dropped(current) \cup Smaller(current), Probe(t)
        PROVE  Shrinks'
    <3>1. failing \subseteq failing' /\ (current' = current \/ current' = t)
      BY <2>4 DEF Probe, Fails, Passes
    <3>2. ASSUME NEW j, IsFirst(j, ToShrink) PROVE NoLarger(current', cases[j])
      <4>1. NoLarger(current, cases[j])
        BY <2>1, <3>2 DEF Shrinks
      <4>2. cases[j] \in Seq(Nat)
        BY <1>1, <3>2, CasesAre, LengthIs DEF IsFirst, ToShrink, Failed
      <4>3. NoLarger(t, cases[j])
        BY <2>1, <4>1, <4>2, CurrentIs, GeneratorIs, TrialNoLarger
      <4> QED
        BY <3>1, <4>1, <4>3
    <3> QED
      BY <2>1, <2>2, <3>1, <3>2 DEF Shrinks
  <2> QED
    BY <1>4, <2>3, <2>4, StepIs DEF Shrinking
<1>5. CASE Shrunk
  <2>1. PICK i \in ToShrink :
          /\ IsFirst(i, ToShrink)
          /\ shrunk' = [t \in DOMAIN shrunk \cup {i} |->
                IF t = i THEN [stdin |-> current, diffs |-> diffs, runs |-> runs]
                ELSE shrunk[t]]
    BY <1>5 DEF Shrunk
  <2>2. /\ DOMAIN shrunk' = DOMAIN shrunk \cup {i}
        /\ shrunk'[i].stdin = current /\ shrunk'[i].diffs = diffs
        /\ \A t \in DOMAIN shrunk : t # i => shrunk'[t] = shrunk[t]
    BY <2>1
  <2>3. UNCHANGED <<cases, results, failing>> /\ Busy /\ ~Busy' /\ Failed' = Failed
    BY <1>5 DEF Shrunk, Busy, Failed
  <2>4. /\ ToShrink = Failed \ DOMAIN shrunk /\ i \in Failed /\ i \notin DOMAIN shrunk
        /\ Cardinality(DOMAIN shrunk) < MaxTargets
    BY <2>1 DEF ToShrink
  <2>5. IsFiniteSet(DOMAIN shrunk') /\ Cardinality(DOMAIN shrunk') <= MaxTargets
    <3> DEFINE D == DOMAIN shrunk
    <3>1. IsFiniteSet(D)
      BY DEF Shrinks
    <3> HIDE DEF D
    <3>2. Cardinality(D) \in Nat
      BY <3>1, FS_CardinalityType
    <3>3. /\ IsFiniteSet(D \cup {i})
          /\ Cardinality(D \cup {i}) = IF i \in D THEN Cardinality(D) ELSE Cardinality(D) + 1
      BY <3>1, FS_AddElement
    <3>4. MaxTargets \in Nat
      BY Limits
    <3>5. i \notin D /\ Cardinality(D) < MaxTargets /\ DOMAIN shrunk' = D \cup {i}
      BY <2>2, <2>4 DEF D
    <3> QED
      BY <3>2, <3>3, <3>4, <3>5
  <2>6. ASSUME NEW a \in Failed \ (DOMAIN shrunk \cup {i}), NEW b \in DOMAIN shrunk \cup {i}
        PROVE  b < a
    <3>1. a \in Nat /\ i \in Nat
      BY <1>1, <2>4 DEF Failed
    <3>2. CASE b = i
      BY <2>1, <2>4, <2>6, <3>1, <3>2 DEF IsFirst
    <3>3. CASE b \in DOMAIN shrunk
      BY <2>6, <3>3 DEF Shrinks
    <3> QED
      BY <3>2, <3>3
  <2>7. ASSUME NEW t \in DOMAIN shrunk \cup {i}
        PROVE  /\ shrunk'[t].stdin \in failing /\ shrunk'[t].diffs = shrunk'[t].stdin
               /\ NoLarger(shrunk'[t].stdin, cases[t])
    <3>1. CASE t = i
      BY <2>1, <2>2, <2>3, <3>1 DEF Places, Shrinks
    <3>2. CASE t # i
      BY <2>2, <3>2 DEF Shrinks
    <3> QED
      BY <3>1, <3>2
  <2>8. DOMAIN shrunk' \subseteq Failed
    BY <2>2, <2>4 DEF Shrinks
  <2> QED
    BY <2>2, <2>3, <2>5, <2>6, <2>7, <2>8 DEF Shrinks
<1>6. CASE Report
  BY <1>6, SameTargets DEF Report, Shrinks, Busy
<1>7. CASE UNCHANGED <<cases, results, shrunk, failing, current>> /\ ~Busy' 
  BY <1>7, SameTargets DEF Shrinks
<1>8. CASE UNCHANGED vars
  BY <1>8, SameTargets DEF vars, Shrinks, Busy
<1>9. CASE PickCount \/ DrawRecord
  <2>1. pc' \in {"generate", "refused"}
    BY <1>9 DEF PickCount, DrawRecord
  <2> QED
    BY <1>7, <1>9, <2>1 DEF PickCount, DrawRecord, Busy
<1> QED
  BY <1>2, <1>3, <1>4, <1>5, <1>6, <1>8, <1>9 DEF Next

-----------------------------------------------------------------------------
(***************************************************************************)
(* The search                                                              *)
(***************************************************************************)
LEMMA SearchedStep ==
    ASSUME TypeOK, Places, Files, Searched, LocallyMinimal, [Next]_vars
    PROVE  Searched' /\ LocallyMinimal'
<1> USE DEF genVars, shrinkVars, target
<1>1. CASE ~Busy'
  BY <1>1 DEF Searched, LocallyMinimal, Busy
<1>2. CASE UNCHANGED vars
  BY <1>2, SameFields DEF vars, Searched, LocallyMinimal
<1>3. CASE NextTarget
  BY <1>3 DEF NextTarget, BeginShrink, Searched, LocallyMinimal
<1>4. CASE Shrinking
  <2>1. /\ Busy /\ gen' = gen /\ Sized(current)
        /\ Len(current) \in Nat /\ DOMAIN current = 1..Len(current)
        /\ Simplifiable(current) \subseteq 1..Len(current) /\ gen.min \in Nat
    BY <1>4, StepIs, CurrentIs, LengthIs, SimplifiableIs, GeneratorIs DEF Shrinking
  <2>2. CASE Round
    <3>1. CASE changed /\ runs < MaxRuns
      <4>1. ~Recorded => Dropped(current) = {}
        BY DEF Dropped
      <4>2. \A i \in Simplifiable(current) : ~(i < 1)
        BY <2>1
      <4>3. Recorded' = Recorded /\ Simplifiable(current)' = Simplifiable(current)
            /\ Dropped(current)' = Dropped(current)
        BY <2>1, <2>2, SameFields DEF Round, Recorded
      <4> QED
        BY <2>2, <3>1, <4>1, <4>2, <4>3 DEF Round, Searched, LocallyMinimal
    <3>2. CASE ~(changed /\ runs < MaxRuns)
      BY <2>1, <2>2, <3>2, SameFields DEF Round, Searched, LocallyMinimal
    <3> QED
      BY <3>1, <3>2
  <2>3. CASE DropRecord
    <3>1. CASE Fails(RemoveAt(current, idx)) /\ pc' = "round"
      BY <3>1 DEF Fails, Searched, LocallyMinimal
    <3>2. CASE Passes(RemoveAt(current, idx)) /\ idx' = idx + 1 /\ UNCHANGED pc
      <4>1. /\ pc = "drop" /\ ~changed /\ runs < MaxRuns /\ idx \in Nat
            /\ UNCHANGED <<gen, current, changed>>
        BY <2>1, <2>3, <3>2 DEF DropRecord, Passes, Places
      <4>2. ASSUME Len(current) > gen.min, NEW i \in 1..idx
            PROVE  RemoveAt(current, i) \in passing'
        BY <3>2, <4>1, <4>2 DEF Passes, Searched
      <4> QED
        BY <3>2, <4>1, <4>2 DEF Searched, LocallyMinimal
    <3> QED
      BY <2>3, <3>1, <3>2 DEF DropRecord
  <2>4. CASE DropsOver
    <3>1. /\ pc = "drop" /\ pc' = "field" /\ idx' = 1 /\ ~changed /\ idx \in Nat
          /\ UNCHANGED <<gen, current, changed, runs, passing>>
          /\ idx > Len(current) \/ runs >= MaxRuns \/ Len(current) <= gen.min
      BY <2>1, <2>4 DEF DropsOver, Places
    <3>2. ASSUME runs < MaxRuns PROVE Dropped(current) \subseteq passing
      <4>1. CASE Len(current) <= gen.min
        BY <2>1, <4>1 DEF Dropped
      <4>2. CASE Len(current) > gen.min
        <5>1. DOMAIN current \subseteq 1..(idx - 1)
          <6>1. idx > Len(current)
            BY <2>1, <3>1, <3>2, <4>2, GeneratorIs DEF TypeOK
          <6>2. DOMAIN current = 1..Len(current) /\ Len(current) \in Nat
            BY <2>1
          <6> QED
            BY <3>1, <6>1, <6>2
        <5>2. \A i \in 1..(idx - 1) : RemoveAt(current, i) \in passing
          BY <3>1, <3>2, <4>2 DEF Searched
        <5> QED
          BY <5>1, <5>2 DEF Dropped
      <4> QED
        BY <2>1, <4>1, <4>2
    <3>3. \A i \in Simplifiable(current) : ~(i < 1)
      BY <2>1
    <3> QED
      BY <3>1, <3>2, <3>3, SameFields DEF Searched, LocallyMinimal
  <2>5. CASE EnterField
    <3>1. /\ pc = "field" /\ UNCHANGED <<gen, current, changed, runs, passing>>
          /\ idx \in Nat
      BY <2>1, <2>5 DEF EnterField, Places
    <3>2. CASE idx \in Simplifiable(current)
      <4>1. left' = Simplify(current[idx]) /\ pc' = "try" /\ idx' = idx
        BY <2>5, <3>2 DEF EnterField
      <4>2. \A k : k \notin Simplify(current[idx]) \ left'
        BY <4>1
      <4>3. ASSUME ~changed, runs < MaxRuns
            PROVE  /\ Dropped(current) \subseteq passing
                   /\ \A i \in Simplifiable(current) : i < idx =>
                        \A j \in Simplify(current[i]) : Simpler(current, i, j) \in passing
        BY <3>1, <4>3 DEF Searched
      <4> QED
        BY <3>1, <4>1, <4>2, <4>3, SameFields DEF Searched, LocallyMinimal
    <3>3. CASE idx \notin Simplifiable(current)
      <4>1. \A i \in Simplifiable(current) : i < idx + 1 => i < idx
        BY <2>1, <3>1, <3>3
      <4> QED
        BY <2>5, <3>1, <3>3, <4>1, SameFields DEF EnterField, Searched, LocallyMinimal
    <3> QED
      BY <3>2, <3>3
  <2>6. CASE TryCandidate
    <3>1. PICK k \in left :
            \/ Fails(Simpler(current, idx, k)) /\ pc' = "field"
            \/ Passes(Simpler(current, idx, k)) /\ left' = left \ {k} /\ UNCHANGED <<pc, idx>>
      BY <2>6 DEF TryCandidate
    <3>2. CASE Fails(Simpler(current, idx, k)) /\ pc' = "field"
      BY <3>2 DEF Fails, Searched, LocallyMinimal
    <3>3. CASE Passes(Simpler(current, idx, k)) /\ left' = left \ {k} /\ UNCHANGED <<pc, idx>>
      <4>1. /\ pc = "try" /\ runs < MaxRuns /\ UNCHANGED <<gen, current, changed, pc, idx>>
            /\ passing' = passing \cup {Simpler(current, idx, k)}
        BY <2>1, <2>6, <3>3 DEF TryCandidate, Passes
      <4>2. ASSUME ~changed
            PROVE  /\ Dropped(current) \subseteq passing'
                   /\ \A i \in Simplifiable(current) : i < idx =>
                        \A j \in Simplify(current[i]) : Simpler(current, i, j) \in passing'
                   /\ \A j \in Simplify(current[idx]) \ left' :
                        Simpler(current, idx, j) \in passing'
        BY <3>3, <4>1, <4>2 DEF Searched
      <4> QED
        BY <4>1, <4>2, SameFields DEF Searched, LocallyMinimal
    <3> QED
      BY <3>1, <3>2, <3>3
  <2>7. CASE FieldOver
    <3>1. /\ pc = "try" /\ pc' = "field" /\ idx' = idx + 1 /\ idx \in 1..Len(current)
          /\ left = {} \/ runs >= MaxRuns
          /\ UNCHANGED <<gen, current, changed, runs, passing>>
      BY <2>1, <2>7 DEF FieldOver, Places
    <3>2. ASSUME ~changed, runs < MaxRuns
          PROVE  /\ Dropped(current) \subseteq passing
                 /\ \A i \in Simplifiable(current) : i < idx + 1 =>
                      \A j \in Simplify(current[i]) : Simpler(current, i, j) \in passing
      <4>1. left = {}
        BY <3>1, <3>2, GeneratorIs DEF TypeOK
      <4>2. \A i \in Simplifiable(current) : i < idx + 1 => i < idx \/ i = idx
        BY <2>1, <3>1
      <4> QED
        BY <3>1, <3>2, <4>1, <4>2 DEF Searched
    <3> QED
      BY <3>1, <3>2, SameFields DEF Searched, LocallyMinimal
  <2>8. CASE FieldsOver
    <3>1. /\ pc = "field" /\ pc' = "round" /\ idx > Len(current) /\ idx \in Nat
          /\ UNCHANGED <<gen, current, changed, runs, passing>>
      BY <2>1, <2>8 DEF FieldsOver, Places
    <3>2. ASSUME ~changed, runs < MaxRuns
          PROVE  Dropped(current) \subseteq passing /\ Smaller(current) \subseteq passing
      <4>1. \A i \in Simplifiable(current) : i < idx
        BY <2>1, <3>1
      <4> QED
        BY <3>1, <3>2, <4>1 DEF Searched, Smaller
    <3> QED
      BY <3>1, <3>2, SameFields DEF Searched, LocallyMinimal
  <2> QED
    BY <1>4, <2>2, <2>3, <2>4, <2>5, <2>6, <2>7, <2>8 DEF Shrinking, ShrinkStep
<1>5. CASE PickCount \/ Draw \/ DrawRecord \/ RunCase \/ Shrunk \/ Report
  <2>1. pc' \in {"generate", "refused", "reported"}
    BY <1>5 DEF PickCount, Draw, DrawRecord, RunCase, Shrunk, Report
  <2> QED
    BY <1>1, <2>1 DEF Busy
<1> QED
  BY <1>2, <1>3, <1>4, <1>5 DEF Next

-----------------------------------------------------------------------------
(***************************************************************************)
(* The report                                                              *)
(***************************************************************************)
LEMMA ReportStep ==
    ASSUME TypeOK, Places, Files, Judged, Shrinks, ReportIsTrue, [Next]_vars
    PROVE  ReportIsTrue'
<1> USE DEF genVars, shrinkVars, target
<1>1. CASE Report
  <2> DEFINE all == DOMAIN results
  <2>1. /\ UNCHANGED <<cases, results, shrunk, failing>> /\ Len(results) = gen.count
        /\ ToShrink = {}
        /\ verdict' = IF Cardinality(Passed) = Len(results) THEN "PASS" ELSE "FAIL"
    BY <1>1 DEF Report
  <2>2. Failed' = Failed
    BY <2>1 DEF Failed
  <2>3. ASSUME NEW i \in Failed \ DOMAIN shrunk
        PROVE  /\ Cardinality(DOMAIN shrunk) = MaxTargets
               /\ \A j \in DOMAIN shrunk : j < i
    <3>1. ~(Cardinality(DOMAIN shrunk) < MaxTargets)
      BY <2>1, <2>3 DEF ToShrink
    <3>2. Cardinality(DOMAIN shrunk) \in Nat /\ Cardinality(DOMAIN shrunk) <= MaxTargets
      BY FS_CardinalityType DEF Shrinks
    <3> QED
      BY <3>1, <3>2, Limits DEF Shrinks
  <2>4. /\ results \in Seq({"PASS", "FAIL", "ERROR"})
        /\ all = 1..Len(results) /\ Len(results) \in Nat
    BY DEF TypeOK
  <2>5. Cardinality(Passed) = Len(results) <=> Passed = all
    <3>1. IsFiniteSet(all) /\ Cardinality(all) = Len(results)
      BY <2>4, FS_Interval
    <3>2. Passed \in SUBSET all
      BY DEF Passed
    <3> HIDE DEF all
    <3> QED
      BY <3>1, <3>2, FS_Subset
  <2>6. Passed = all <=> failing = {} /\ "ERROR" \notin Range(results)
    <3>1. Passed = all <=> \A i \in all : results[i] = "PASS"
      BY DEF Passed
    <3>2. failing = {} <=> \A i \in all : results[i] # "FAIL"
      BY DEF Judged, Failed
    <3>3. "ERROR" \notin Range(results) <=> \A i \in all : results[i] # "ERROR"
      BY DEF Range
    <3>4. \A i \in all : results[i] \in {"PASS", "FAIL", "ERROR"}
      BY <2>4
    <3> QED
      BY <3>1, <3>2, <3>3, <3>4
  <2>7. (verdict' = "PASS") <=> (failing' = {} /\ "ERROR" \notin Range(results'))
    BY <2>1, <2>5, <2>6
  <2>8. ASSUME NEW i \in DOMAIN shrunk
        PROVE  /\ shrunk[i].stdin \in failing /\ shrunk[i].diffs = shrunk[i].stdin
               /\ i \in Failed /\ NoLarger(shrunk[i].stdin, cases[i])
    BY DEF Shrinks
  <2> QED
    BY <2>1, <2>2, <2>3, <2>7, <2>8 DEF ReportIsTrue
<1>2. CASE UNCHANGED vars
  BY <1>2 DEF vars, ReportIsTrue, Failed
<1>3. CASE ~Report /\ Next
  <2>1. verdict' = verdict /\ pc # "reported"
    BY <1>3, StepIs DEF Next, PickCount, Draw, DrawRecord, RunCase, NextTarget, Shrunk,
       Shrinking, Busy
  <2> QED
    BY <2>1 DEF Places, ReportIsTrue
<1> QED
  BY <1>1, <1>2, <1>3

-----------------------------------------------------------------------------
(***************************************************************************)
(* The theorems                                                            *)
(***************************************************************************)
LEMMA InvInit == Init => Inv
<1> SUFFICES ASSUME Init PROVE Inv
  OBVIOUS
<1>1. /\ gen \in Generators /\ pc = "generate" /\ want = None /\ verdict = None
      /\ cases = <<>> /\ lines = <<>> /\ results = <<>> /\ current = <<>> /\ left = {}
      /\ shrunk = <<>> /\ failing = {} /\ passing = {}
      /\ idx = 0 /\ runs = 0 /\ changed = FALSE /\ attempt = 0
  BY DEF Init, NoTarget
<1>2. /\ gen.min \in Nat /\ gen.max \in Nat /\ gen.count \in Nat /\ MaxRuns \in Nat
      /\ MaxAttempts \in Nat \ {0} /\ MaxTargets \in Nat
  BY <1>1, Resolved, Limits
<1>3. Range(cases) = {} /\ DOMAIN shrunk = {} /\ DOMAIN results = {}
  BY <1>1 DEF Range
<1>4. ~Busy
  BY <1>1 DEF Busy
<1>5. TypeOK
  <2>1. <<>> \in Seq(Nat) /\ Len(<<>>) <= gen.max /\ Len(<<>>) = 0
    BY <1>2
  <2>2. results \in Seq({"PASS", "FAIL", "ERROR"}) /\ idx \in 0..(gen.max + 1)
        /\ runs \in 0..MaxRuns /\ attempt \in 0..MaxAttempts
    BY <1>1, <1>2
  <2>3. \A case \in Range(cases) \cup {current, lines} \cup failing \cup passing : case = <<>>
    BY <1>1, <1>3
  <2> QED
    BY <1>1, <2>1, <2>2, <2>3 DEF TypeOK
<1>6. Places
  BY <1>1, <1>2, <1>3, <1>4 DEF Places
<1>7. Files
  BY <1>1, <1>3 DEF Files, Distinct
<1>8. Judged
  BY <1>1, <1>3 DEF Judged
<1>9. Shrinks
  BY <1>2, <1>3, <1>4, FS_EmptySet DEF Shrinks
<1>10. Searched /\ LocallyMinimal /\ ReportIsTrue
  BY <1>1 DEF Searched, LocallyMinimal, ReportIsTrue
<1> QED
  BY <1>5, <1>6, <1>7, <1>8, <1>9, <1>10 DEF Inv

LEMMA InvHolds == Spec => []Inv
<1>1. Inv /\ [Next]_vars => Inv'
  BY TypeStep, PlacesStep, FilesStep, JudgedStep, ShrinksStep, SearchedStep, ReportStep
     DEF Inv
<1> QED
  BY <1>1, InvInit, PTL DEF Spec

\* Types: no shrink takes more than MaxRuns runs, no case is larger than configured.
THEOREM TypeCorrect == Spec => []TypeOK
BY InvHolds, PTL DEF Inv

\* A shrink that did not run out of runs ends at a case none of whose one-step
\* simplifications fails: every one of them was run.
THEOREM ShrunkIsMinimal == Spec => []LocallyMinimal
BY InvHolds, PTL DEF Inv

\* The report: the first failures have their counterexamples, which were seen to
\* fail and were made of the cases generated; PASS means every case passed.
THEOREM ReportTrue == Spec => []ReportIsTrue
BY InvHolds, PTL DEF Inv

\* Values: those drawn are of the PICTURE, and a smaller one is as well.
Ranged == \A case \in Range(cases) \cup {lines} \cup failing \cup passing : InRange(case)

LEMMA RangedStep ==
    ASSUME WideEnough, TypeOK, Places, Files, Ranged, [Next]_vars
    PROVE  Ranged'
<1> USE DEF genVars, shrinkVars, target
<1>1. ASSUME NEW n \in Drawn PROVE n \in 0..gen.top
  <2>1. gen \in Generators /\ gen.top \in Nat /\ SmallDraws \in Nat
    BY GeneratorIs, Limits
  <2>2. CASE gen.mode \in {"fields", "records"}
    <3>1. n \in {0, gen.top} \cup 0..(SmallDraws - 1) \cup 0..gen.top
      BY <2>2 DEF Drawn
    <3>2. SmallDraws <= gen.top + 1
      BY <2>1, <2>2 DEF WideEnough
    <3> QED
      BY <2>1, <3>1, <3>2
  <2>3. CASE gen.mode \notin {"fields", "records"}
    <3>1. n \in {0, gen.top} \cup {m % (gen.top + 1) : m \in 0..(SmallDraws - 1)} \cup 0..gen.top
      BY <2>3 DEF Drawn
    <3>2. \A m \in 0..(SmallDraws - 1) : m % (gen.top + 1) \in 0..gen.top
      BY <2>1
    <3> QED
      BY <2>1, <3>1, <3>2
  <2> QED
    BY <2>2, <2>3
<1>2. gen' = gen
  BY StepIs DEF Next, vars, PickCount, Draw, DrawRecord, RunCase, NextTarget, BeginShrink,
     Shrunk, Report, Shrinking
<1>3. \A case : InRange(case)' <=> InRange(case)
  BY <1>2 DEF InRange
<1>4. InRange(<<>>)
  BY DEF InRange, Range
<1>5. CASE Draw
  <2>1. PICK c : cases' = Append(cases, c) /\ (c = lines \/ c \in [1..want -> Drawn])
    BY <1>5 DEF Draw
  <2>2. InRange(c)
    <3>1. CASE c = lines
      BY <3>1 DEF Ranged
    <3>2. CASE c \in [1..want -> Drawn]
      BY <1>1, <3>2 DEF InRange, Range
    <3> QED
      BY <2>1, <3>1, <3>2
  <2>3. Range(cases') = Range(cases) \cup {c}
    BY <2>1, RangeOfAppend DEF Files
  <2> QED
    BY <1>3, <1>4, <1>5, <2>2, <2>3 DEF Draw, Ranged
<1>6. CASE DrawRecord
  <2>1. PICK line \in Drawn : lines' = Append(lines, line) \/ lines' = lines
    BY <1>6 DEF DrawRecord
  <2>2. Range(Append(lines, line)) = Range(lines) \cup {line}
    BY RangeOfAppend DEF Files
  <2>3. InRange(lines')
    <3>1. InRange(lines) /\ line \in 0..gen.top
      BY <1>1 DEF Ranged
    <3>2. CASE lines' = lines
      BY <3>1, <3>2
    <3>3. CASE lines' = Append(lines, line)
      <4>1. Range(lines') = Range(lines) \cup {line}
        BY <2>2, <3>3
      <4> QED
        BY <3>1, <4>1 DEF InRange
    <3> QED
      BY <2>1, <3>2, <3>3
  <2> QED
    BY <1>3, <1>6, <2>3 DEF DrawRecord, Ranged
<1>7. CASE RunCase
  <2>1. Len(results) + 1 \in DOMAIN cases
    BY <1>7 DEF RunCase, Files, TypeOK, Places
  <2>2. InRange(cases[Len(results) + 1])
    BY <2>1 DEF Ranged, Range
  <2> QED
    BY <1>3, <1>7, <2>2 DEF RunCase, Ranged
<1>8. CASE Shrinking
  <2>1. UNCHANGED <<cases, lines>> /\ Busy
    BY <1>8, StepIs DEF Shrinking
  <2>2. CASE Quiet
    BY <1>3, <2>1, <2>2 DEF Quiet, Ranged
  <2>3. ASSUME NEW t \in Dropped(current) \cup Smaller(current), Probe(t)
        PROVE  Ranged'
    <3>1. InRange(current)
      BY <2>1 DEF Places, Ranged
    <3>2. InRange(t)
      BY <2>1, <3>1, CurrentIs, TrialIsFile, GeneratorIs
    <3> QED
      BY <1>3, <2>1, <2>3, <3>2 DEF Probe, Fails, Passes, Ranged
  <2> QED
    BY <1>8, <2>2, <2>3, StepIs DEF Shrinking
<1>9. CASE UNCHANGED <<cases, lines, failing, passing>>
  BY <1>3, <1>9 DEF Ranged
<1> QED
  BY <1>5, <1>6, <1>7, <1>8, <1>9
     DEF Next, vars, PickCount, NextTarget, BeginShrink, Shrunk, Report

\* Every case run is a file the program can be given, if small draws fit into
\* the PICTURE; that genValue does not see to it is a known divergence.
THEOREM CasesAreRealFiles == WideEnough => (Spec => []CasesAreFiles)
<1> SUFFICES ASSUME WideEnough PROVE Spec => []CasesAreFiles
  OBVIOUS
<1>1. Init => Ranged
  BY DEF Init, Ranged, InRange, Range
<1>2. Inv /\ Inv' /\ Ranged /\ [Next]_vars => Ranged'
  BY RangedStep DEF Inv
<1>3. Inv /\ Ranged => CasesAreFiles
  BY DEF Inv, Files, Ranged, CasesAreFiles, Sized, Distinct, InRange
<1> QED
  BY <1>1, <1>2, <1>3, InvHolds, PTL DEF Spec
=============================================================================
