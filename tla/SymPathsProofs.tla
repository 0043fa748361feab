---------------------------- MODULE SymPathsProofs ----------------------------
(***************************************************************************)
(* That layer C enumerates the paths of a program and says the truth about *)
(* them, for every program, every field size and every bound.              *)
(*                                                                         *)
(* First one split: the alternatives of a condition of any number of atoms *)
(* cover the inputs that make it true (or false), each of them once.       *)
(*                                                                         *)
(* Then the exploration.  What has to be kept is a property of each path   *)
(* (Good): the cases that take it and have lost no digits meet its         *)
(* constraints (Sound); what it says of the fields, and of the count of a  *)
(* loop it is in, is so for the cases that meet them (Real); a case that   *)
(* meets them and is long enough does take the path, when nothing was      *)
(* unknown (Witnessed); and a case has the records the path has read       *)
(* (Long).  A step replaces one path by its successors, which are good if  *)
(* it was and have its cases, except those that are disclosed (Succeeds).  *)
(*                                                                         *)
(* Good paths are kept while the program is Regular, which is what the     *)
(* code takes for granted; TypeOK needs no such hypothesis.                *)
(***************************************************************************)
EXTENDS SymPaths, LeastNat, SequenceTheorems, FiniteSetTheorems, TLAPS

-----------------------------------------------------------------------------
(***************************************************************************)
(* A condition splits a path into alternatives                             *)
(***************************************************************************)
Valuation(parsed) == [1..parsed.n -> BOOLEAN]

\* The truth with which an atom decides the whole chain.
Decides(parsed) == parsed.kind = "or"

\* A condition that forks is met when some atom decides it, one that does not when none does.
LEMMA ForkedMeansDecided ==
    ASSUME NEW parsed \in Parsed, NEW taken \in BOOLEAN, NEW v \in Valuation(parsed)
    PROVE  /\ Forks(parsed, taken) =>
                (Holds(parsed, v) = taken
                   <=> \E i \in 1..parsed.n : v[i] = Decides(parsed))
           /\ ~Forks(parsed, taken) =>
                (Holds(parsed, v) = taken
                   <=> \A i \in 1..parsed.n : v[i] # Decides(parsed))
<1> parsed.kind \in {"and", "or"}
  BY DEF Parsed, Kind
<1>1. CASE parsed.kind = "or"
  BY <1>1 DEF Forks, Holds, Decides, Valuation
<1>2. CASE parsed.kind = "and"
  BY <1>2 DEF Forks, Holds, Decides, Valuation
<1> QED
  BY <1>1, <1>2

\* Satisfying an alternative, atom by atom.
LEMMA SatisfiesUndecided ==
    ASSUME NEW parsed \in Parsed, NEW v \in Valuation(parsed)
    PROVE  Satisfies(v, Undecided(parsed))
             <=> \A i \in 1..parsed.n : v[i] # Decides(parsed)
<1> parsed.kind \in {"and", "or"}
  BY DEF Parsed, Kind
<1> QED
  BY DEF Satisfies, Undecided, Decides, Valuation

\* Satisfying the alternative that atom k decides.
LEMMA SatisfiesDecidedBy ==
    ASSUME NEW parsed \in Parsed, NEW v \in Valuation(parsed), NEW k \in 1..parsed.n
    PROVE  Satisfies(v, DecidedBy(parsed, k))
             <=> /\ v[k] = Decides(parsed)
                 /\ \A i \in 1..(k - 1) : v[i] # Decides(parsed)
<1> parsed.kind \in {"and", "or"} /\ parsed.n \in Nat
  BY DEF Parsed, Kind
<1>1. \A i \in 1..k : v[i] \in BOOLEAN
  BY DEF Valuation
<1>2. DOMAIN DecidedBy(parsed, k) = 1..k
  BY DEF DecidedBy
<1>3. \A i \in 1..k : DecidedBy(parsed, k)[i] =
         IF i < k THEN parsed.kind = "and" ELSE parsed.kind = "or"
  BY DEF DecidedBy
<1> QED
  BY <1>1, <1>2, <1>3 DEF Satisfies, Decides

\* Every input for which the condition has the asserted truth is on a path,
\* and no other input is: no input is lost by the split, none is misplaced.
THEOREM SplitCovers ==
    \A parsed \in Parsed, taken \in BOOLEAN : \A v \in Valuation(parsed) :
        Holds(parsed, v) = taken
          <=> \E alt \in Alternatives(parsed, taken) : Satisfies(v, alt)
<1> SUFFICES ASSUME NEW parsed \in Parsed, NEW taken \in BOOLEAN,
                    NEW v \in Valuation(parsed)
             PROVE  Holds(parsed, v) = taken
                      <=> \E alt \in Alternatives(parsed, taken) : Satisfies(v, alt)
  OBVIOUS
<1> DEFINE Deciding == {i \in 1..parsed.n : v[i] = Decides(parsed)}
<1>1. CASE ~Forks(parsed, taken)
  BY <1>1, ForkedMeansDecided, SatisfiesUndecided DEF Alternatives
<1>2. CASE Forks(parsed, taken)
  <2>1. Holds(parsed, v) = taken <=> Deciding # {}
    BY <1>2, ForkedMeansDecided
  <2>2. Deciding # {} => \E k \in 1..parsed.n : Satisfies(v, DecidedBy(parsed, k))
    <3> SUFFICES ASSUME Deciding # {}
                 PROVE  \E k \in 1..parsed.n : Satisfies(v, DecidedBy(parsed, k))
      OBVIOUS
    <3>1. Deciding \subseteq Nat
      OBVIOUS
    <3>2. PICK k \in Deciding : \A i \in Deciding : k <= i
      BY <3>1, Least
    <3>3. \A i \in 1..(k - 1) : i \in 1..parsed.n /\ i \notin Deciding
      BY <3>1, <3>2 DEF Parsed
    <3>4. Satisfies(v, DecidedBy(parsed, k))
      BY <3>2, <3>3, SatisfiesDecidedBy
    <3> QED
      BY <3>2, <3>4
  <2>3. (\E k \in 1..parsed.n : Satisfies(v, DecidedBy(parsed, k))) => Deciding # {}
    BY SatisfiesDecidedBy
  <2>4. (\E alt \in Alternatives(parsed, taken) : Satisfies(v, alt))
          <=> \E k \in 1..parsed.n : Satisfies(v, DecidedBy(parsed, k))
    BY <1>2 DEF Alternatives
  <2> QED
    BY <2>1, <2>2, <2>3, <2>4
<1> QED
  BY <1>1, <1>2

\* No input is on two of the paths: a case generated for one of them cannot
\* exercise another.
THEOREM SplitIsDisjoint ==
    \A parsed \in Parsed, taken \in BOOLEAN : \A v \in Valuation(parsed) :
        \A a, b \in Alternatives(parsed, taken) :
            Satisfies(v, a) /\ Satisfies(v, b) => a = b
<1> SUFFICES ASSUME NEW parsed \in Parsed, NEW taken \in BOOLEAN,
                    NEW v \in Valuation(parsed),
                    NEW a \in Alternatives(parsed, taken),
                    NEW b \in Alternatives(parsed, taken),
                    Satisfies(v, a), Satisfies(v, b)
             PROVE  a = b
  OBVIOUS
<1>1. CASE ~Forks(parsed, taken)
  BY <1>1 DEF Alternatives
<1>2. CASE Forks(parsed, taken)
  <2>1. PICK j \in 1..parsed.n : a = DecidedBy(parsed, j)
    BY <1>2 DEF Alternatives
  <2>2. PICK k \in 1..parsed.n : b = DecidedBy(parsed, k)
    BY <1>2 DEF Alternatives
  <2>3. ~(j < k) /\ ~(k < j)
    BY <2>1, <2>2, SatisfiesDecidedBy DEF Parsed
  <2>4. j = k
    BY <2>3 DEF Parsed
  <2> QED
    BY <2>1, <2>2, <2>4
<1> QED
  BY <1>1, <1>2

-----------------------------------------------------------------------------
(***************************************************************************)
(* What a statement of the program does                                    *)
(***************************************************************************)
\* What a statement consists of.
LEMMA StatementIs ==
    ASSUME NEW L, NEW s \in Statements(L)
    PROVE  /\ s.kind \in Stores \cup Loops \cup {"stop-run", "if"}
           /\ s.kind \in Stores => s.to \in Var
           /\ s.kind \in {"move", "move-window"} => s.from \in Expressions
           /\ s.kind = "if" =>
                s.cond \in Conditions /\ s.then \in Seq(L) /\ s.else \in Seq(L)
           /\ s.kind = "read" => s.notAtEnd \in Seq(L) /\ s.atEnd \in Seq(L)
           /\ s.kind \in Loops => s.body \in Seq(L)
           /\ s.kind = "perform-until" => s.cond \in Conditions
           /\ s.kind = "perform-times" => s.times \in Expressions
  BY DEF Statements, Stores, Loops

\* Values are natural numbers.
LEMMA ValueIs ==
    ASSUME NEW store \in [Var -> Input], NEW e \in Expressions, MaxValue \in Nat
    PROVE  Value(store, e) \in Nat
  BY DEF Value, Expressions, Input

\* A store of x to v: a run state again, in which v is x or digits are lost,
\* and only fields that share storage with v are disturbed.
LEMMA PutIs ==
    ASSUME NEW st \in RunStates, NEW v \in Var, NEW x \in Nat, MaxValue \in Nat
    PROVE  /\ Put(st, v, x) \in RunStates
           /\ Put(st, v, x).reads = st.reads
           /\ Put(st, v, x).ended = st.ended
           /\ st.wrapped => Put(st, v, x).wrapped
           /\ x \in Input => Put(st, v, x).store[v] = x
           /\ x \notin Input => Put(st, v, x).wrapped
           /\ \A w \in Var : w \notin {v} \cup Shared(v) =>
                Put(st, v, x).store[w] = st.store[w]
<1>1. x % (MaxValue + 1) \in Input
  BY DEF Input
<1>2. x \in Input => x % (MaxValue + 1) = x
  BY DEF Input
<1> QED
  BY <1>1, <1>2 DEF Put, RunStates

\* What a run does between two of its states, as far as its fields outside V go:
\* they keep their values, and digits once lost stay lost.
Follows(b, a, V) ==
    /\ b \in RunStates /\ b.reads >= a.reads
    /\ a.wrapped => b.wrapped
    /\ \A w \in Var \ V : b.store[w] = a.store[w]

\* A line taken by ACCEPT or READ: only v and its views change, and while there is a line
\* v is that line and no digits are lost.
LEMMA TakeIs ==
    ASSUME NEW case \in Seq(Input), NEW st \in RunStates, NEW v \in Var, MaxValue \in Nat
    PROVE  /\ Follows(Take(case, st, v), st, {v} \cup Shared(v))
           /\ st.reads < Len(case) =>
                /\ Take(case, st, v).reads = st.reads + 1
                /\ Take(case, st, v).store[v] = case[st.reads + 1]
                /\ Take(case, st, v).wrapped = st.wrapped
<1>1. CASE st.reads < Len(case)
  <2> DEFINE mid == [st EXCEPT !.reads = @ + 1]
  <2>1. /\ mid \in RunStates /\ mid.reads = st.reads + 1 /\ mid.store = st.store
        /\ mid.wrapped = st.wrapped
    BY DEF RunStates
  <2>2. case[st.reads + 1] \in Input /\ case[st.reads + 1] \in Nat
    BY <1>1 DEF RunStates, Input
  <2>3. Take(case, st, v) = Put(mid, v, case[st.reads + 1])
    BY <1>1 DEF Take
  <2> HIDE DEF mid
  <2>4. Put(mid, v, case[st.reads + 1]).wrapped = mid.wrapped
    BY <2>1, <2>2 DEF Put, RunStates
  <2> QED
    BY <2>1, <2>2, <2>3, <2>4, PutIs DEF Follows, RunStates
<1>2. CASE ~(st.reads < Len(case))
  BY <1>2 DEF Follows, Take, RunStates
<1> QED
  BY <1>1, <1>2

\* A statement that does not split changes what it stores to, and the views of that.
LEMMA AdvanceIs ==
    ASSUME NEW case \in Seq(Input), NEW st \in RunStates, MaxValue \in Nat,
           NEW L, NEW s \in Statements(L),
           s.kind \in {"move", "move-window", "accept", "stop-run"}
    PROVE  Follows(Advance(case, st, s), st, Changed({s}))
<1>1. CASE s.kind \in {"move", "move-window"}
  <2>1. s.to \in Var /\ s.from \in Expressions /\ s.kind \in Stores
    BY <1>1, StatementIs DEF Stores
  <2>2. Value(st.store, s.from) \in Nat
    BY <2>1, ValueIs DEF RunStates
  <2>3. Advance(case, st, s) = Put(st, s.to, Value(st.store, s.from))
    BY <1>1 DEF Advance
  <2> QED
    BY <2>1, <2>2, <2>3, PutIs DEF Follows, Changed, RunStates
<1>2. CASE s.kind = "accept"
  <2>1. s.to \in Var /\ s.kind \in Stores
    BY <1>2, StatementIs DEF Stores
  <2>2. Advance(case, st, s) = Take(case, st, s.to)
    BY <1>2 DEF Advance
  <2> QED
    BY <2>1, <2>2, TakeIs DEF Follows, Changed
<1>3. CASE s.kind = "stop-run"
  <2> DEFINE b == [st EXCEPT !.ended = TRUE]
  <2>1. Advance(case, st, s) = b
    BY <1>3 DEF Advance
  <2>2. b \in RunStates /\ b.store = st.store /\ b.wrapped = st.wrapped /\ b.reads = st.reads
    BY DEF RunStates
  <2> HIDE DEF b
  <2> QED
    BY <2>1, <2>2 DEF Follows, RunStates
<1> QED
  BY <1>1, <1>2, <1>3

-----------------------------------------------------------------------------
(***************************************************************************)
(* A run, statement by statement                                           *)
(***************************************************************************)
\* L is closed: it has the statements within its members, and the rounds left
\* of each PERFORM TIMES.
Closed(L) ==
    /\ L \subseteq Statements(L)
    /\ \A s \in L : s.kind = "perform-times" =>
          \A k \in Nat : Times(Lit(k), s.body) \in L

Configurations(L) == [st : RunStates, rest : Seq(L)]

\* What changes nothing outside V changes nothing outside a larger set.
LEMMA FollowsMore ==
    ASSUME NEW V, NEW W, V \subseteq W, NEW a, NEW b, Follows(b, a, V)
    PROVE  Follows(b, a, W)
  BY DEF Follows

\* Two parts of a run, one after the other.
LEMMA FollowsTrans ==
    ASSUME NEW V, NEW a \in RunStates, NEW b, NEW c, Follows(b, a, V), Follows(c, b, V)
    PROVE  Follows(c, a, V)
  BY DEF Follows, RunStates

\* One statement of a run changes what the statements of the program can change.
LEMMA StepIs ==
    ASSUME NEW case \in Seq(Input), NEW L, Closed(L), NEW r \in Configurations(L),
           MaxValue \in Nat
    PROVE  /\ Step(case, r) \in Configurations(L)
           /\ Follows(Step(case, r).st, r.st, Changed(L))
<1> USE DEF Configurations
<1>0. Follows(r.st, r.st, Changed(L))
  BY DEF Follows, RunStates
<1>1. CASE r.st.ended \/ r.rest = <<>>
  BY <1>0, <1>1 DEF Step
<1>2. CASE ~(r.st.ended \/ r.rest = <<>>)
  <2> DEFINE s == Head(r.rest)
             Continue(st, stmts) == [st |-> st, rest |-> stmts \o Tail(r.rest)]
  <2>1. s \in L /\ s \in Statements(L)
    BY <1>2 DEF Closed
  <2>2. \A st \in RunStates, stmts \in Seq(L) : Continue(st, stmts) \in Configurations(L)
    BY <1>2
  <2>3. Changed({s}) \subseteq Changed(L)
    BY <2>1 DEF Changed
  <2>4. /\ s.kind = "if" => Step(case, r) =
              Continue(r.st, IF True(s.cond, r.st.store) THEN s.then ELSE s.else)
        /\ s.kind = "read" => Step(case, r) =
              IF r.st.reads < Len(case)
              THEN Continue(Take(case, r.st, s.to), s.notAtEnd) ELSE Continue(r.st, s.atEnd)
        /\ s.kind = "perform-until" => Step(case, r) =
              Continue(r.st, IF True(s.cond, r.st.store) THEN <<>> ELSE Append(s.body, s))
        /\ s.kind = "perform-times" => Step(case, r) =
              Continue(r.st, IF Value(r.st.store, s.times) = 0 THEN <<>> ELSE
                Append(s.body, Times(Lit(Value(r.st.store, s.times) - 1), s.body)))
        /\ s.kind \in {"move", "move-window", "accept", "stop-run"} =>
              Step(case, r) = Continue(Advance(case, r.st, s), <<>>)
    BY <1>2 DEF Step
  <2> HIDE DEF s, Continue
  <2>5. \A st, stmts : Continue(st, stmts).st = st
    BY DEF Continue
  <2>6. CASE s.kind = "if"
    <3>1. \E stmts \in Seq(L) : Step(case, r) = Continue(r.st, stmts)
      BY <2>1, <2>4, <2>6, StatementIs
    <3> QED
      BY <3>1, <2>2, <2>5, <1>0
  <2>7. CASE s.kind = "read"
    <3>1. Follows(Take(case, r.st, s.to), r.st, {s.to} \cup Shared(s.to))
      BY <2>1, <2>7, StatementIs, TakeIs DEF Stores
    <3>2. {s.to} \cup Shared(s.to) \subseteq Changed(L)
      BY <2>1, <2>7 DEF Changed, Stores
    <3>3. Follows(Take(case, r.st, s.to), r.st, Changed(L))
      BY <3>1, <3>2, FollowsMore
    <3>4. \E st \in RunStates, stmts \in Seq(L) :
             Step(case, r) = Continue(st, stmts) /\ Follows(st, r.st, Changed(L))
      <4>1. s.notAtEnd \in Seq(L) /\ s.atEnd \in Seq(L)
        BY <2>1, <2>7, StatementIs
      <4>2. Take(case, r.st, s.to) \in RunStates
        BY <3>1 DEF Follows
      <4> QED
        BY <4>1, <4>2, <3>3, <2>4, <2>7, <1>0
    <3> QED
      BY <3>4, <2>2, <2>5
  <2>8. CASE s.kind = "perform-until"
    <3>1. <<>> \in Seq(L) /\ Append(s.body, s) \in Seq(L)
      BY <2>1, <2>8, StatementIs DEF Loops
    <3>2. Step(case, r) = Continue(r.st,
             IF True(s.cond, r.st.store) THEN <<>> ELSE Append(s.body, s))
      BY <2>4, <2>8
    <3>3. \E stmts \in Seq(L) : Step(case, r) = Continue(r.st, stmts)
      BY <3>1, <3>2, Zenon
    <3> QED
      BY <3>3, <2>2, <2>5, <1>0
  <2>9. CASE s.kind = "perform-times"
    <3> DEFINE n == Value(r.st.store, s.times)
    <3>1. n \in Nat
      BY <2>1, <2>9, StatementIs, ValueIs DEF RunStates
    <3>2. n # 0 => Times(Lit(n - 1), s.body) \in L
      BY <3>1, <2>1, <2>9 DEF Closed
    <3>3. s.body \in Seq(L)
      BY <2>1, <2>9, StatementIs DEF Loops
    <3>4. Step(case, r) = Continue(r.st, IF n = 0 THEN <<>> ELSE
                            Append(s.body, Times(Lit(n - 1), s.body)))
      BY <2>4, <2>9
    <3> HIDE DEF n
    <3>5. (IF n = 0 THEN <<>> ELSE Append(s.body, Times(Lit(n - 1), s.body))) \in Seq(L)
      BY <3>2, <3>3
    <3>6. \E stmts \in Seq(L) : Step(case, r) = Continue(r.st, stmts)
      BY <3>4, <3>5, Zenon
    <3> QED
      BY <3>6, <2>2, <2>5, <1>0
  <2>10. CASE s.kind \in {"move", "move-window", "accept", "stop-run"}
    <3>1. Follows(Advance(case, r.st, s), r.st, Changed({s}))
      BY <2>1, <2>10, AdvanceIs
    <3>2. Follows(Advance(case, r.st, s), r.st, Changed(L))
      BY <3>1, <2>3 DEF Follows
    <3>3. Advance(case, r.st, s) \in RunStates /\ <<>> \in Seq(L)
      BY <3>2 DEF Follows
    <3>4. Step(case, r) = Continue(Advance(case, r.st, s), <<>>)
      BY <2>4, <2>10
    <3> QED
      BY <3>2, <3>3, <3>4, <2>2, <2>5
  <2> QED
    BY <2>1, <2>6, <2>7, <2>8, <2>9, <2>10, StatementIs DEF Stores, Loops
<1> QED
  BY <1>1, <1>2

\* The first n + 1 sets of configurations a run goes through.
Start(st, stmts) == {[st |-> st, rest |-> stmts]}
After(case, S) == {Step(case, r) : r \in S}
IsTrace(f, n, case, st, stmts) ==
    f = [i \in 0..n |-> IF i = 0 THEN Start(st, stmts) ELSE After(case, f[i - 1])]

\* The trace of a run exists for every number of statements: there is no least number
\* for which it does not.
LEMMA TraceExists ==
    ASSUME NEW case, NEW st, NEW stmts
    PROVE  \A n \in Nat : \E f : IsTrace(f, n, case, st, stmts)
<1> DEFINE Bad == {n \in Nat : ~ \E f : IsTrace(f, n, case, st, stmts)}
<1> SUFFICES ASSUME Bad # {} PROVE FALSE
  OBVIOUS
<1>1. PICK n \in Bad : \A k \in Bad : n <= k
  BY Least
<1>2. CASE n = 0
  <2> DEFINE f == [i \in 0..0 |-> Start(st, stmts)]
  <2>1. f = [i \in 0..0 |-> IF i = 0 THEN Start(st, stmts) ELSE After(case, f[i - 1])]
    OBVIOUS
  <2> QED
    BY <1>1, <1>2, <2>1 DEF IsTrace
<1>3. CASE n # 0
  <2>1. n \in Nat /\ n - 1 \in Nat /\ n - 1 \notin Bad
    BY <1>1, <1>3
  <2>2. PICK g : IsTrace(g, n - 1, case, st, stmts)
    BY <2>1
  <2>3. \A i \in 0..(n - 1) :
           g[i] = IF i = 0 THEN Start(st, stmts) ELSE After(case, g[i - 1])
    <3> DEFINE G == [i \in 0..(n - 1) |->
                       IF i = 0 THEN Start(st, stmts) ELSE After(case, g[i - 1])]
    <3>1. g = G
      BY <2>2 DEF IsTrace
    <3>2. \A i \in 0..(n - 1) :
             G[i] = IF i = 0 THEN Start(st, stmts) ELSE After(case, g[i - 1])
      OBVIOUS
    <3> HIDE DEF G
    <3> QED
      BY <3>1, <3>2
  <2> DEFINE f == [i \in 0..n |-> IF i = n THEN After(case, g[n - 1]) ELSE g[i]]
  <2>4. \A i \in 0..n : f[i] = IF i = n THEN After(case, g[n - 1]) ELSE g[i]
    OBVIOUS
  <2>5. DOMAIN f = 0..n /\ f = [i \in 0..n |-> f[i]]
    OBVIOUS
  <2> HIDE DEF f
  <2>6. \A i \in 0..n : f[i] = IF i = 0 THEN Start(st, stmts) ELSE After(case, f[i - 1])
    <3> SUFFICES ASSUME NEW i \in 0..n
                 PROVE  f[i] = IF i = 0 THEN Start(st, stmts) ELSE After(case, f[i - 1])
      OBVIOUS
    <3>1. CASE i = n
      <4>1. f[i] = After(case, g[n - 1])
        BY <2>4, <3>1
      <4>2. f[i - 1] = g[n - 1] /\ i # 0
        BY <2>1, <2>4, <3>1, <1>3
      <4> QED
        BY <4>1, <4>2
    <3>2. CASE i # n
      <4>1. i \in 0..(n - 1) /\ f[i] = g[i]
        BY <2>1, <2>4, <3>2
      <4>2. i # 0 => f[i - 1] = g[i - 1]
        BY <2>1, <2>4, <4>1
      <4> QED
        BY <4>1, <4>2, <2>3
    <3> QED
      BY <3>1, <3>2
  <2>7. f = [i \in 0..n |-> IF i = 0 THEN Start(st, stmts) ELSE After(case, f[i - 1])]
    BY <2>5, <2>6
  <2> QED
    BY <1>1, <2>7 DEF IsTrace
<1> QED
  BY <1>2, <1>3

\* All of a trace changes what the statements of the program can change.
LEMMA TraceIs ==
    ASSUME NEW case \in Seq(Input), NEW L, Closed(L), NEW st \in RunStates,
           NEW stmts \in Seq(L), MaxValue \in Nat, NEW n \in Nat,
           NEW f, IsTrace(f, n, case, st, stmts)
    PROVE  /\ f[n] # {}
           /\ \A r \in f[n] : r \in Configurations(L) /\ Follows(r.st, st, Changed(L))
<1> DEFINE Kept(S) == /\ S # {}
                      /\ \A r \in S : r \in Configurations(L) /\ Follows(r.st, st, Changed(L))
           Bad == {i \in 0..n : ~Kept(f[i])}
<1>1. Kept(Start(st, stmts))
  BY DEF Start, Configurations, Follows, RunStates
<1>2. ASSUME NEW S, Kept(S) PROVE Kept(After(case, S))
  <2>1. After(case, S) # {}
    BY <1>2 DEF After
  <2>2. ASSUME NEW r \in S
        PROVE  /\ Step(case, r) \in Configurations(L)
               /\ Follows(Step(case, r).st, st, Changed(L))
    <3>1. r \in Configurations(L) /\ Follows(r.st, st, Changed(L))
      BY <1>2
    <3>2. Step(case, r) \in Configurations(L) /\ Follows(Step(case, r).st, r.st, Changed(L))
      BY <3>1, StepIs
    <3> QED
      BY <3>1, <3>2, FollowsTrans
  <2> QED
    BY <2>1, <2>2 DEF After
<1> HIDE DEF Kept
<1>3. \A i \in 0..n : f[i] = IF i = 0 THEN Start(st, stmts) ELSE After(case, f[i - 1])
  <2> DEFINE F == [i \in 0..n |-> IF i = 0 THEN Start(st, stmts) ELSE After(case, f[i - 1])]
  <2>1. f = F
    BY DEF IsTrace
  <2>2. \A i \in 0..n : F[i] = IF i = 0 THEN Start(st, stmts) ELSE After(case, f[i - 1])
    OBVIOUS
  <2> HIDE DEF F
  <2> QED
    BY <2>1, <2>2
<1>4. Bad = {}
  <2> SUFFICES ASSUME Bad # {} PROVE FALSE
    OBVIOUS
  <2>0. Bad \subseteq Nat
    OBVIOUS
  <2>1. PICK i \in Bad : \A k \in Bad : i <= k
    BY <2>0, Least
  <2>2. CASE i = 0
    BY <2>1, <2>2, <1>1, <1>3
  <2>3. CASE i # 0
    <3>1. i - 1 \in 0..n /\ i - 1 \notin Bad
      BY <2>1, <2>3
    <3>2. Kept(f[i - 1])
      BY <3>1
    <3>3. Kept(f[i])
      BY <3>2, <2>3, <1>2, <1>3
    <3> QED
      BY <3>3
  <2> QED
    BY <2>2, <2>3
<1>5. Kept(f[n])
  BY <1>4
<1> QED
  BY <1>5 DEF Kept

\* A run loses nothing but the fields its statements can change.
LEMMA RunIs ==
    ASSUME NEW case \in Seq(Input), NEW L, Closed(L), NEW st \in RunStates,
           NEW stmts \in Seq(L), MaxValue \in Nat, Fuel \in Nat
    PROVE  Follows(Run(case, st, stmts), st, Changed(L))
<1> DEFINE f == CHOOSE f : IsTrace(f, Fuel, case, st, stmts)
           Final(r) == [r.st EXCEPT !.ended = @ \/ r.rest # <<>>]
<1>1. IsTrace(f, Fuel, case, st, stmts)
  BY TraceExists
<1>2. Run(case, st, stmts) = CHOOSE last \in {Final(r) : r \in f[Fuel]} : TRUE
  BY DEF Run, IsTrace, Start, After
<1> HIDE DEF f
<1>3. /\ f[Fuel] # {}
      /\ \A r \in f[Fuel] : r \in Configurations(L) /\ Follows(r.st, st, Changed(L))
  BY <1>1, TraceIs
<1>4. ASSUME NEW r \in f[Fuel] PROVE Follows(Final(r), st, Changed(L))
  <2>1. r.st \in RunStates /\ Follows(r.st, st, Changed(L))
    BY <1>3 DEF Configurations
  <2>2. /\ Final(r) \in RunStates /\ Final(r).store = r.st.store
        /\ Final(r).wrapped = r.st.wrapped /\ Final(r).reads = r.st.reads
    BY <2>1 DEF RunStates
  <2> HIDE DEF Final
  <2> QED
    BY <2>1, <2>2 DEF Follows
<1>5. {Final(r) : r \in f[Fuel]} # {}
  BY <1>3
<1>6. Run(case, st, stmts) \in {Final(r) : r \in f[Fuel]}
  BY <1>2, <1>5
<1> QED
  BY <1>4, <1>6

-----------------------------------------------------------------------------
(***************************************************************************)
(* The elements of a finite set in some order                              *)
(***************************************************************************)
\* SetToSeq lists a finite set, nothing more and nothing less.
LEMMA SetToSeqIs ==
    ASSUME NEW S, IsFiniteSet(S)
    PROVE  SetToSeq(S) \in Seq(S) /\ ToSet(SetToSeq(S)) = S
<1> DEFINE n == Cardinality(S)
           f == SetToSeq(S)
<1>1. n \in Nat /\ ExistsBijection(1..n, S)
  BY FS_CardinalityType
<1>2. \E g \in [1..n -> S] : IsInjective(g)
  BY <1>1 DEF ExistsBijection, Bijection, Injection, IsInjective
<1>3. f \in [1..n -> S] /\ IsInjective(f)
  BY <1>2 DEF SetToSeq
<1> HIDE DEF f
<1>4. f \in Injection(1..n, S)
  BY <1>3 DEF Injection, IsInjective
<1>5. IsFiniteSet(1..n) /\ Cardinality(1..n) = n
  BY <1>1, FS_Interval
<1>6. f \in Surjection(1..n, S)
  BY <1>4, <1>5, FS_Injection
<1>7. f \in Seq(S)
  BY <1>1, <1>3
<1>8. ToSet(f) = S
  BY <1>3, <1>6 DEF ToSet, Surjection
<1> QED
  BY <1>7, <1>8 DEF f

\* The image of a finite set under a function is finite.
LEMMA ImageIsFinite ==
    ASSUME NEW S, IsFiniteSet(S), NEW f, DOMAIN f = S
    PROVE  IsFiniteSet({f[x] : x \in S})
<1> DEFINE T == {f[x] : x \in S}
           g == [x \in S |-> f[x]]
<1>1. g \in Surjection(S, T)
  BY DEF Surjection
<1> QED
  BY <1>1, FS_Surjection

-----------------------------------------------------------------------------
(***************************************************************************)
(* What a path is                                                          *)
(***************************************************************************)
Code == Within(program.stmts)
Values == [Cases -> Int] \cup {Opaque}
Constraints == [holds : SUBSET Cases, constant : BOOLEAN]
Frames == [kind : {"unroll"}, loop : {s \in Code : s.kind \in Loops}, depth : Nat,
           times : Values, count : UNION {[S -> Nat] : S \in SUBSET Cases}]

\* What the program does with some of the cases.
Tooks == UNION {[S -> RunStates] : S \in SUBSET Cases}

PathStates ==
    [env : [Var -> Values], cons : SUBSET Constraints, unknown : BOOLEAN,
     reads : 0..MaxRecords, eof : BOOLEAN, ended : BOOLEAN,
     rest : Seq(Code \cup Frames), took : Tooks]

\* A loop being unrolled knows the count of every case in it, and is not
\* deeper than any.
Fits(f, D) ==
    f.kind = "unroll" =>
        /\ D \subseteq DOMAIN f.count
        /\ f.loop.kind = "perform-times" => \A c \in D : f.depth <= f.count[c]

TypedPaths == {p \in PathStates : \A f \in ToSet(p.rest) : Fits(f, DOMAIN p.took)}

TypeInv ==
    /\ program \in Programs /\ declined \in BOOLEAN
    /\ beyond \subseteq Cases /\ overflown \subseteq Cases
    /\ pending \in Seq(TypedPaths) /\ done \in Seq(TypedPaths)
    /\ Len(done) <= IF declined THEN MaxPaths + 1 ELSE MaxPaths

\* The program explored.
LEMMA ProgramIs ==
    ASSUME program \in Programs
    PROVE  /\ program.init \in [Var -> Input \cup {Opaque}] /\ program.lengths \subseteq Nat
           /\ program.stmts \in Seq(Code) /\ Code \subseteq Statements(Code)
           /\ \A s \in Code : s.kind \in Loops =>
                s \in Within(<<s>>) /\ Within(<<s>>) \subseteq Statements(Within(<<s>>))
           /\ {MaxValue, Fuel, MaxUnroll, MaxPaths, MaxRecords, Depth} \subseteq Nat
  BY ProgramsAssumption, BoundsAssumption DEF Code

\* A case is a sequence of lines.
LEMMA CaseIs ==
    ASSUME program \in Programs, NEW c \in Cases
    PROVE  c \in Seq(Input) /\ Len(c) \in program.lengths /\ DOMAIN c = 1..Len(c)
<1>1. PICK n \in program.lengths : c \in [1..n -> Input]
  BY DEF Cases
<1>2. n \in Nat
  BY ProgramIs
<1> QED
  BY <1>1, <1>2

\* The statement a path is at.
LEMMA RestIs ==
    ASSUME program \in Programs, NEW p \in TypedPaths, p.rest # <<>>
    PROVE  /\ Head(p.rest) \in Code \cup Frames
           /\ Head(p.rest).kind # "unroll" => Head(p.rest) \in Statements(Code)
           /\ Head(p.rest).kind = "unroll" => Head(p.rest) \in Frames
           /\ Tail(p.rest) \in Seq(Code \cup Frames)
           /\ ToSet(Tail(p.rest)) \subseteq ToSet(p.rest) /\ Head(p.rest) \in ToSet(p.rest)
<1>1. p.rest \in Seq(Code \cup Frames)
  BY DEF TypedPaths, PathStates
<1>2. /\ Head(p.rest) \in Code \cup Frames /\ Tail(p.rest) \in Seq(Code \cup Frames)
      /\ Head(p.rest) = p.rest[1] /\ 1 \in DOMAIN p.rest
      /\ \A i \in DOMAIN Tail(p.rest) : i + 1 \in DOMAIN p.rest /\ Tail(p.rest)[i] = p.rest[i + 1]
  BY <1>1
<1>3. \A s \in Code : s \in Statements(Code) /\ s.kind # "unroll"
  BY ProgramIs, StatementIs DEF Stores, Loops
<1>4. \A f \in Frames : f.kind = "unroll"
  BY DEF Frames
<1> QED
  BY <1>2, <1>3, <1>4 DEF ToSet

\* A sequence of one element.
LEMMA SingleIs ==
    ASSUME NEW S, NEW x \in S
    PROVE  <<x>> \in Seq(S) /\ ToSet(<<x>>) = {x}
  BY DEF ToSet

\* The elements of two sequences put together.
LEMMA ConcatToSet ==
    ASSUME NEW S, NEW a \in Seq(S), NEW b \in Seq(S)
    PROVE  ToSet(a \o b) = ToSet(a) \cup ToSet(b)
<1>1. /\ Len(a) \in Nat /\ Len(b) \in Nat /\ Len(a \o b) = Len(a) + Len(b)
      /\ DOMAIN a = 1..Len(a) /\ DOMAIN b = 1..Len(b) /\ DOMAIN (a \o b) = 1..(Len(a) + Len(b))
      /\ \A i \in 1..Len(a) : (a \o b)[i] = a[i]
      /\ \A i \in 1..(Len(a) + Len(b)) : i > Len(a) => (a \o b)[i] = b[i - Len(a)]
  BY ConcatProperties
<1>2. \A i \in 1..Len(b) : i + Len(a) \in 1..(Len(a) + Len(b)) /\ (a \o b)[i + Len(a)] = b[i]
  BY <1>1
<1>3. \A x \in ToSet(a \o b) : x \in ToSet(a) \cup ToSet(b)
  <2> SUFFICES ASSUME NEW i \in 1..(Len(a) + Len(b))
               PROVE  (a \o b)[i] \in ToSet(a) \cup ToSet(b)
    BY <1>1 DEF ToSet
  <2>1. CASE i <= Len(a)
    BY <1>1, <2>1 DEF ToSet
  <2>2. CASE i > Len(a)
    <3>1. i - Len(a) \in 1..Len(b)
      BY <1>1, <2>2
    <3> QED
      BY <1>1, <2>2, <3>1 DEF ToSet
  <2> QED
    BY <2>1, <2>2, <1>1
<1>4. ToSet(a) \subseteq ToSet(a \o b)
  BY <1>1 DEF ToSet
<1>5. ToSet(b) \subseteq ToSet(a \o b)
  <2> SUFFICES ASSUME NEW i \in 1..Len(b) PROVE b[i] \in ToSet(a \o b)
    BY <1>1 DEF ToSet
  <2> QED
    BY <1>1, <1>2 DEF ToSet
<1> QED
  BY <1>3, <1>4, <1>5

\* Statements put in the place of the one a path is at.
LEMMA GoesIs ==
    ASSUME program \in Programs, NEW p \in TypedPaths, p.rest # <<>>,
           NEW stmts \in Seq(Code \cup Frames),
           \A f \in ToSet(stmts) : Fits(f, DOMAIN p.took)
    PROVE  /\ Goes(p, stmts) \in TypedPaths
           /\ Goes(p, stmts) = [p EXCEPT !.rest = stmts \o Tail(p.rest)]
           /\ ToSet(Goes(p, stmts).rest) \subseteq ToSet(stmts) \cup ToSet(p.rest)
<1> DEFINE q == [p EXCEPT !.rest = stmts \o Tail(p.rest)]
<1>1. Goes(p, stmts) = q
  BY DEF Goes
<1>2. Tail(p.rest) \in Seq(Code \cup Frames) /\ ToSet(Tail(p.rest)) \subseteq ToSet(p.rest)
  BY RestIs
<1>3. p \in PathStates /\ \A f \in ToSet(p.rest) : Fits(f, DOMAIN p.took)
  BY DEF TypedPaths
<1>4. stmts \o Tail(p.rest) \in Seq(Code \cup Frames)
  BY <1>2
<1>5. q \in PathStates /\ q.took = p.took /\ q.rest = stmts \o Tail(p.rest)
  BY <1>3, <1>4 DEF PathStates
<1> HIDE DEF q
<1>6. ToSet(stmts \o Tail(p.rest)) = ToSet(stmts) \cup ToSet(Tail(p.rest))
  <2> DEFINE L == Code \cup Frames
             left == Tail(p.rest)
  <2>1. stmts \in Seq(L) /\ left \in Seq(L)
    BY <1>2
  <2> HIDE DEF L, left
  <2>2. ToSet(stmts \o left) = ToSet(stmts) \cup ToSet(left)
    BY <2>1, ConcatToSet
  <2> QED
    BY <2>2 DEF left
<1>7. ToSet(q.rest) \subseteq ToSet(stmts) \cup ToSet(p.rest)
  BY <1>2, <1>5, <1>6
<1> QED
  BY <1>1, <1>3, <1>5, <1>7 DEF TypedPaths, q

-----------------------------------------------------------------------------
(***************************************************************************)
(* Values and constraints                                                  *)
(***************************************************************************)
\* What env says of case c is what it has in store.
Agrees(env, store, c) == \A v \in Var : env[v] # Opaque => env[v][c] = store[v]

\* The symbolic value of an expression is its value, for a case the environment is right about.
LEMMA SymIs ==
    ASSUME NEW env \in [Var -> Values], NEW e \in Expressions
    PROVE  /\ Sym(env, e) \in Values
           /\ \A c \in Cases, store \in [Var -> Input] :
                Agrees(env, store, c) /\ Sym(env, e) # Opaque
                    => Sym(env, e)[c] = Value(store, e)
<1> /\ e.plus \in Nat /\ e.var \in Var \cup {None}
  BY DEF Expressions
<1>1. CASE e.var = None
  BY <1>1 DEF Sym, Values, Value
<1>2. CASE e.var # None
  <2>1. e.var \in Var /\ env[e.var] \in Values
    BY <1>2
  <2>2. Sym(env, e) = IF env[e.var] = Opaque THEN Opaque
                      ELSE [c \in Cases |-> env[e.var][c] + e.plus]
    BY <1>2 DEF Sym
  <2>3. env[e.var] # Opaque => env[e.var] \in [Cases -> Int]
    BY <2>1 DEF Values
  <2>4. \A c \in Cases, store \in [Var -> Input] :
           Agrees(env, store, c) /\ Sym(env, e) # Opaque
             => Sym(env, e)[c] = e.plus + store[e.var]
    <3> SUFFICES ASSUME NEW c \in Cases, NEW store \in [Var -> Input],
                        Agrees(env, store, c), Sym(env, e) # Opaque
                 PROVE  Sym(env, e)[c] = e.plus + store[e.var]
      OBVIOUS
    <3>1. Sym(env, e)[c] = env[e.var][c] + e.plus
      BY <2>2
    <3>2. env[e.var][c] = store[e.var]
      BY <2>1, <2>2 DEF Agrees
    <3>3. env[e.var][c] \in Int
      BY <2>2, <2>3
    <3> QED
      BY <3>1, <3>2, <3>3
  <2> QED
    BY <2>2, <2>3, <2>4, <1>2 DEF Values, Value
<1> QED
  BY <1>1, <1>2

\* The constraint an atom becomes holds for the cases the comparison has that truth for.
LEMMA AssertedIs ==
    ASSUME NEW x \in [Cases -> Int], NEW y \in [Cases -> Int], NEW op, NEW truth \in BOOLEAN
    PROVE  /\ Asserted(x, op, y, truth) \in Constraints
           /\ \A c \in Cases : x[c] \in Nat /\ y[c] \in Nat =>
                (c \in Asserted(x, op, y, truth).holds <=> Compares(x[c], op, y[c]) = truth)
  BY DEF Asserted, Constraints

\* A condition.
LEMMA AtomsIs ==
    ASSUME NEW cond \in Conditions
    PROVE  /\ DOMAIN cond.atoms = 1..Len(cond.atoms)
           /\ Shape(cond) \in Parsed /\ Shape(cond).n = Len(cond.atoms)
           /\ \A i \in DOMAIN cond.atoms :
                cond.atoms[i].left \in Expressions /\ cond.atoms[i].right \in Expressions
<1> DEFINE A == [left : Expressions, op : {"=", "<"}, right : Expressions]
<1>1. cond.kind \in Kind /\ cond.atoms \in Seq(A) /\ cond.atoms # <<>>
  BY DEF Conditions
<1>2. Len(cond.atoms) \in Nat \ {0} /\ DOMAIN cond.atoms = 1..Len(cond.atoms)
  BY <1>1, EmptySeq, LenProperties
<1>3. \A i \in DOMAIN cond.atoms : cond.atoms[i] \in A
  BY <1>1, <1>2, ElementOfSeq
<1>4. Shape(cond) \in Parsed /\ Shape(cond).n = Len(cond.atoms)
  BY <1>1, <1>2 DEF Shape, Parsed
<1> QED
  BY <1>2, <1>3, <1>4

\* An atom is true or false.
LEMMA TruthsIs ==
    ASSUME NEW cond \in Conditions, NEW store \in [Var -> Input], MaxValue \in Nat
    PROVE  Truths(cond, store) \in Valuation(Shape(cond))
<1>1. \A x, y, op : Compares(x, op, y) \in BOOLEAN
  BY DEF Compares
<1>2. Truths(cond, store) \in [DOMAIN cond.atoms -> BOOLEAN]
  BY <1>1, AtomsIs, ValueIs DEF Truths
<1> QED
  BY <1>2, AtomsIs DEF Valuation

\* An atom with the truth it is asserted with: the cases it is true for.
LEMMA AtomIs ==
    ASSUME NEW env \in [Var -> Values], NEW cond \in Conditions, NEW i \in Known(env, cond),
           NEW truth \in BOOLEAN, MaxValue \in Nat
    PROVE  /\ AssertedAtom(env, cond.atoms[i], truth) \in Constraints
           /\ \A c \in Cases, store \in [Var -> Input] : Agrees(env, store, c) =>
                (c \in AssertedAtom(env, cond.atoms[i], truth).holds
                   <=> Truths(cond, store)[i] = truth)
<1> DEFINE a == cond.atoms[i]
           x == Sym(env, a.left)
           y == Sym(env, a.right)
<1>1. i \in DOMAIN cond.atoms /\ x # Opaque /\ y # Opaque
  BY DEF Known
<1>2. a.left \in Expressions /\ a.right \in Expressions
  BY <1>1, AtomsIs
<1>3. x \in [Cases -> Int] /\ y \in [Cases -> Int]
  BY <1>1, <1>2, SymIs DEF Values
<1>4. \A c \in Cases, store \in [Var -> Input] : Agrees(env, store, c) =>
         /\ x[c] = Value(store, a.left) /\ y[c] = Value(store, a.right)
         /\ Value(store, a.left) \in Nat /\ Value(store, a.right) \in Nat
  BY <1>1, <1>2, SymIs, ValueIs
<1>5. \A store : Truths(cond, store)[i] =
                   Compares(Value(store, a.left), a.op, Value(store, a.right))
  BY <1>1 DEF Truths
<1>6. AssertedAtom(env, a, truth) = Asserted(x, a.op, y, truth)
  BY DEF AssertedAtom
<1> HIDE DEF a, x, y
<1> QED
  BY <1>3, <1>4, <1>5, <1>6, AssertedIs DEF a

-----------------------------------------------------------------------------
(***************************************************************************)
(* One path splits                                                         *)
(***************************************************************************)
\* What p says of a case that takes it is what the program does with it.
Counted(f, c) ==
    f.kind = "unroll" /\ f.loop.kind = "perform-times" /\ f.times # Opaque
        => f.times[c] = f.count[c]
Knows(p, c) ==
    /\ Agrees(p.env, p.took[c].store, c)
    /\ \A f \in ToSet(p.rest) : Counted(f, c)

\* The fields of a path.
LEMMA PathIs ==
    ASSUME NEW p \in TypedPaths
    PROVE  /\ p \in PathStates /\ p.env \in [Var -> Values] /\ p.cons \subseteq Constraints
           /\ p.unknown \in BOOLEAN /\ p.reads \in 0..MaxRecords /\ p.eof \in BOOLEAN
           /\ p.ended \in BOOLEAN /\ p.rest \in Seq(Code \cup Frames)
           /\ DOMAIN p.took \subseteq Cases /\ p.took \in [DOMAIN p.took -> RunStates]
           /\ \A c \in DOMAIN p.took : p.took[c] \in RunStates /\ p.took[c].store \in [Var -> Input]
           /\ \A f \in ToSet(p.rest) : Fits(f, DOMAIN p.took)
<1>1. p \in PathStates /\ \A f \in ToSet(p.rest) : Fits(f, DOMAIN p.took)
  BY DEF TypedPaths
<1>2. \E S \in SUBSET Cases : p.took \in [S -> RunStates]
  BY <1>1 DEF PathStates, Tooks
<1>3. \A st \in RunStates : st.store \in [Var -> Input]
  BY DEF RunStates
<1> QED
  BY <1>1, <1>2, <1>3 DEF PathStates

\* The other way round: a record with such fields is a typed path.
LEMMA IsPath ==
    ASSUME NEW q \in PathStates, \A f \in ToSet(q.rest) : Fits(f, DOMAIN q.took)
    PROVE  q \in TypedPaths
  BY DEF TypedPaths

\* A loop that fits the cases of a path fits fewer of them.
LEMMA FitsLess ==
    ASSUME NEW f, NEW D, NEW E, E \subseteq D, Fits(f, D)
    PROVE  Fits(f, E)
  BY DEF Fits

\* A function from cases to states of their runs is such a map.
LEMMA TooksHas ==
    ASSUME NEW D \in SUBSET Cases, NEW f \in [D -> RunStates]
    PROVE  f \in Tooks
  BY DEF Tooks

\* A path for some of its cases: what the program does with them is the same.
LEMMA OnlyTook ==
    ASSUME NEW p \in TypedPaths, NEW S
    PROVE  /\ DOMAIN Only(p, S).took = DOMAIN p.took \cap S
           /\ \A c \in DOMAIN Only(p, S).took : Only(p, S).took[c] = p.took[c]
           /\ Only(p, S).took \in Tooks
<1> DEFINE took == [c \in DOMAIN p.took \cap S |-> p.took[c]]
<1>1. /\ DOMAIN p.took \cap S \in SUBSET Cases
      /\ took \in [DOMAIN p.took \cap S -> RunStates]
  BY PathIs
<1>2. /\ DOMAIN took = DOMAIN p.took \cap S /\ \A c \in DOMAIN took : took[c] = p.took[c]
      /\ took \in Tooks
  BY <1>1, TooksHas
<1> HIDE DEF took
<1>3. Only(p, S).took = took
  <2>1. Only(p, S) = [p EXCEPT !.took = took]
    BY DEF Only, took
  <2> QED
    BY <2>1, PathIs DEF PathStates
<1> QED
  BY <1>2, <1>3

\* A path for some of its cases is a path, and the same otherwise.
LEMMA OnlyIs ==
    ASSUME NEW p \in TypedPaths, NEW S
    PROVE  /\ Only(p, S) \in TypedPaths
           /\ Only(p, S).env = p.env /\ Only(p, S).cons = p.cons
           /\ Only(p, S).unknown = p.unknown /\ Only(p, S).reads = p.reads
           /\ Only(p, S).eof = p.eof /\ Only(p, S).ended = p.ended /\ Only(p, S).rest = p.rest
<1> DEFINE q == Only(p, S)
           took == q.took
<1>1. took \in Tooks /\ DOMAIN took \subseteq DOMAIN p.took
  BY OnlyTook
<1>2. \E t : q = [p EXCEPT !.took = t]
  BY DEF Only
<1>3. q = [p EXCEPT !.took = took]
  BY <1>2, PathIs DEF PathStates
<1> HIDE DEF q, took
<1>4. /\ q \in PathStates /\ q.took = took /\ q.env = p.env /\ q.cons = p.cons
      /\ q.unknown = p.unknown /\ q.reads = p.reads /\ q.eof = p.eof /\ q.ended = p.ended
      /\ q.rest = p.rest
  BY <1>1, <1>3, PathIs DEF PathStates
<1>5. \A f \in ToSet(q.rest) : Fits(f, DOMAIN q.took)
  BY <1>1, <1>4, FitsLess, PathIs
<1>6. q \in TypedPaths
  BY <1>4, <1>5, IsPath
<1> QED
  BY <1>4, <1>6 DEF q

\* A path narrowed by constraints is a path, with these constraints.
LEMMA NarrowIs ==
    ASSUME NEW p \in TypedPaths, NEW S, NEW C \in SUBSET Constraints, NEW u \in BOOLEAN
    PROVE  /\ Narrow(p, S, C, u) \in TypedPaths
           /\ Narrow(p, S, C, u).env = p.env /\ Narrow(p, S, C, u).reads = p.reads
           /\ Narrow(p, S, C, u).eof = p.eof /\ Narrow(p, S, C, u).ended = p.ended
           /\ Narrow(p, S, C, u).rest = p.rest /\ Narrow(p, S, C, u).cons = p.cons \cup C
           /\ Narrow(p, S, C, u).took = Only(p, S).took
<1> DEFINE o == Only(p, S)
           q == [o EXCEPT !.cons = @ \cup C, !.unknown = @ \/ u]
<1>1. Narrow(p, S, C, u) = q
  BY DEF Narrow
<1>2. o \in TypedPaths /\ o.env = p.env /\ o.reads = p.reads /\ o.eof = p.eof
      /\ o.ended = p.ended /\ o.rest = p.rest /\ o.cons = p.cons /\ o.unknown = p.unknown
  BY OnlyIs
<1> HIDE DEF o
<1>3. /\ q \in PathStates /\ q.took = o.took /\ q.env = o.env /\ q.cons = o.cons \cup C
      /\ q.reads = o.reads /\ q.eof = o.eof /\ q.ended = o.ended /\ q.rest = o.rest
  BY <1>2, PathIs DEF PathStates
<1> HIDE DEF q
<1>4. q \in TypedPaths
  BY <1>2, <1>3, IsPath, PathIs
<1> QED
  BY <1>1, <1>2, <1>3, <1>4 DEF o

\* A path narrowed to S has the cases of S.
LEMMA NarrowTook ==
    ASSUME NEW p \in TypedPaths, NEW S \in SUBSET DOMAIN p.took,
           NEW C \in SUBSET Constraints, NEW u \in BOOLEAN
    PROVE  /\ DOMAIN Narrow(p, S, C, u).took = S
           /\ \A c \in S : Narrow(p, S, C, u).took[c] = p.took[c]
<1>1. Narrow(p, S, C, u).took = Only(p, S).took
  BY NarrowIs
<1> DEFINE D == DOMAIN Only(p, S).took
<1>2. D = DOMAIN p.took \cap S /\ \A c \in D : Only(p, S).took[c] = p.took[c]
  BY OnlyTook
<1>3. D = S
  BY <1>2
<1> QED
  BY <1>1, <1>2, <1>3

\* s is p narrowed to S by constraints that the cases of S meet and, when all
\* of the test is known, that no other case of p does.
Narrowing(p, s) ==
    \E S \in SUBSET DOMAIN p.took, u \in BOOLEAN :
        /\ s.pushed \subseteq Constraints
        /\ s.path = Narrow(p, S, s.pushed, u)
        /\ \A c \in S : Knows(p, c) => \A con \in s.pushed : c \in con.holds
        /\ ~u => \A c \in DOMAIN p.took :
                   Knows(p, c) /\ (\A con \in s.pushed : c \in con.holds) => c \in S

\* The splits narrow p and, together, have the cases of D.
SplitsInto(p, splits, D) ==
    /\ IsFiniteSet(splits)
    /\ \A s \in splits : Narrowing(p, s) /\ DOMAIN s.path.took \subseteq D
    /\ \A c \in D : \E s \in splits : c \in DOMAIN s.path.took

\* Finitely many alternatives, each a truth for some of the atoms.
LEMMA AlternativesIs ==
    ASSUME NEW parsed \in Parsed, NEW truth \in BOOLEAN
    PROVE  /\ IsFiniteSet(Alternatives(parsed, truth))
           /\ \A alt \in Alternatives(parsed, truth) :
                DOMAIN alt \subseteq 1..parsed.n /\ \A i \in DOMAIN alt : alt[i] \in BOOLEAN
<1> parsed.n \in Nat /\ parsed.kind \in Kind
  BY DEF Parsed
<1>1. IsFiniteSet(1..parsed.n)
  BY FS_Interval
<1>2. IsFiniteSet({DecidedBy(parsed, k) : k \in 1..parsed.n})
  <2> DEFINE f == [k \in 1..parsed.n |-> DecidedBy(parsed, k)]
  <2>1. IsFiniteSet({f[k] : k \in 1..parsed.n})
    BY <1>1, ImageIsFinite
  <2>2. {f[k] : k \in 1..parsed.n} = {DecidedBy(parsed, k) : k \in 1..parsed.n}
    OBVIOUS
  <2> QED
    BY <2>1, <2>2
<1>3. IsFiniteSet({Undecided(parsed)})
  BY FS_Singleton
<1>4. \A k \in 1..parsed.n : /\ DOMAIN DecidedBy(parsed, k) = 1..k
                             /\ \A i \in 1..k : DecidedBy(parsed, k)[i] \in BOOLEAN
  <2> SUFFICES ASSUME NEW k \in 1..parsed.n
               PROVE  /\ DOMAIN DecidedBy(parsed, k) = 1..k
                      /\ \A i \in 1..k : DecidedBy(parsed, k)[i] \in BOOLEAN
    OBVIOUS
  <2> QED
    BY DEF DecidedBy
<1>5. /\ DOMAIN Undecided(parsed) = 1..parsed.n
      /\ \A i \in 1..parsed.n : Undecided(parsed)[i] \in BOOLEAN
  BY DEF Undecided
<1> QED
  BY <1>2, <1>3, <1>4, <1>5 DEF Alternatives

\* The paths a condition splits p into are p narrowed to the cases for which the
\* condition has the truth, none of them left out.
LEMMA SplitIs ==
    ASSUME NEW p \in TypedPaths, NEW cond \in Conditions, NEW truth \in BOOLEAN,
           MaxValue \in Nat
    PROVE  SplitsInto(p, Split(p, cond, truth),
                      {c \in DOMAIN p.took : True(cond, p.took[c].store) = truth})
<1> DEFINE known == Known(p.env, cond)
           parsed == Shape(cond)
           Tells(c) == Truths(cond, p.took[c].store)
           D == {c \in DOMAIN p.took : Holds(parsed, Tells(c)) = truth}
           Pushed(alt) == {AssertedAtom(p.env, cond.atoms[i], alt[i]) : i \in known \cap DOMAIN alt}
           Met(alt) == {c \in DOMAIN p.took : Satisfies(Tells(c), alt)}
           Part(alt) == [path |-> Narrow(p, Met(alt), Pushed(alt), ~(DOMAIN alt \subseteq known)),
                         pushed |-> Pushed(alt)]
           alts == Alternatives(parsed, truth)
<1>1. parsed \in Parsed /\ \A c \in DOMAIN p.took : Tells(c) \in Valuation(parsed)
  BY AtomsIs, TruthsIs, PathIs
<1>2. {c \in DOMAIN p.took : True(cond, p.took[c].store) = truth} = D
  BY DEF True
<1>3. Split(p, cond, truth) =
        IF known = {} THEN {[path |-> Narrow(p, D, {}, TRUE), pushed |-> {}]}
                      ELSE {Part(alt) : alt \in alts}
  BY DEF Split
<1> HIDE DEF known, parsed, Tells, alts
<1>4. CASE known = {}
  <2> DEFINE s == [path |-> Narrow(p, D, {}, TRUE), pushed |-> {}]
  <2>1. Split(p, cond, truth) = {s} /\ IsFiniteSet({s})
    BY <1>3, <1>4, FS_Singleton
  <2>2. s.path = Narrow(p, D, s.pushed, TRUE) /\ s.pushed = {} /\ D \in SUBSET DOMAIN p.took
    OBVIOUS
  <2> HIDE DEF s, D
  <2>3. Narrowing(p, s)
    BY <2>2 DEF Narrowing
  <2>4. DOMAIN s.path.took = D
    <3>1. DOMAIN Narrow(p, D, s.pushed, TRUE).took = D
      BY <2>2, NarrowTook
    <3> QED
      BY <2>2, <3>1
  <2> QED
    BY <1>2, <2>1, <2>3, <2>4 DEF SplitsInto
<1>5. CASE known # {}
  <2>1. IsFiniteSet(alts) /\ \A alt \in alts : \A i \in DOMAIN alt : alt[i] \in BOOLEAN
    BY <1>1, AlternativesIs DEF alts
  <2>2. Split(p, cond, truth) = {Part(alt) : alt \in alts}
    BY <1>3, <1>5
  <2>3. IsFiniteSet(Split(p, cond, truth))
    <3> DEFINE f == [alt \in alts |-> Part(alt)]
    <3>1. DOMAIN f = alts /\ {f[alt] : alt \in alts} = {Part(alt) : alt \in alts}
      OBVIOUS
    <3> HIDE DEF f, Part
    <3>2. IsFiniteSet({f[alt] : alt \in alts})
      BY <2>1, <3>1, ImageIsFinite
    <3> QED
      BY <2>2, <3>1, <3>2
  <2>4. ASSUME NEW alt \in alts
        PROVE  Narrowing(p, Part(alt)) /\ DOMAIN Part(alt).path.took = Met(alt)
    <3>1. ASSUME NEW i \in known \cap DOMAIN alt
          PROVE  /\ AssertedAtom(p.env, cond.atoms[i], alt[i]) \in Constraints
                 /\ \A c \in DOMAIN p.took : Knows(p, c) =>
                      (c \in AssertedAtom(p.env, cond.atoms[i], alt[i]).holds
                         <=> Tells(c)[i] = alt[i])
      BY <2>1, AtomIs, PathIs DEF Knows, known, Tells
    <3>2. Pushed(alt) \in SUBSET Constraints
      BY <3>1
    <3>3. Met(alt) \in SUBSET DOMAIN p.took
      OBVIOUS
    <3>4. \A c \in Met(alt) : Knows(p, c) => \A con \in Pushed(alt) : c \in con.holds
      BY <3>1 DEF Satisfies
    <3>5. DOMAIN alt \subseteq known =>
            \A c \in DOMAIN p.took :
              Knows(p, c) /\ (\A con \in Pushed(alt) : c \in con.holds) => c \in Met(alt)
      BY <3>1 DEF Satisfies
    <3> DEFINE u == ~(DOMAIN alt \subseteq known)
    <3>7. Part(alt).path = Narrow(p, Met(alt), Part(alt).pushed, u)
          /\ Part(alt).pushed = Pushed(alt)
      OBVIOUS
    <3>8. u \in BOOLEAN /\ (~u => DOMAIN alt \subseteq known)
      OBVIOUS
    <3> HIDE DEF Part, Pushed, Met, u
    <3>9. Narrowing(p, Part(alt))
      BY <3>2, <3>3, <3>4, <3>5, <3>7, <3>8 DEF Narrowing
    <3>10. DOMAIN Narrow(p, Met(alt), Pushed(alt), u).took = Met(alt)
      BY <3>2, <3>3, <3>8, NarrowTook
    <3> QED
      BY <3>7, <3>9, <3>10
  <2>5. ASSUME NEW c \in D
        PROVE  \E s \in Split(p, cond, truth) : c \in DOMAIN s.path.took
    <3>1. PICK alt \in alts : Satisfies(Tells(c), alt)
      BY <1>1, SplitCovers DEF alts
    <3>2. c \in Met(alt)
      BY <3>1
    <3>3. Part(alt) \in Split(p, cond, truth)
      BY <2>2
    <3>4. DOMAIN Part(alt).path.took = Met(alt)
      BY <2>4
    <3> HIDE DEF Part, Met
    <3> QED
      BY <3>2, <3>3, <3>4
  <2>6. ASSUME NEW alt \in alts PROVE Met(alt) \subseteq D
    <3>1. \A c \in DOMAIN p.took : Satisfies(Tells(c), alt) => Holds(parsed, Tells(c)) = truth
      BY <1>1, SplitCovers DEF alts
    <3> QED
      BY <3>1
  <2> HIDE DEF Part, Met, D
  <2>7. \A s \in Split(p, cond, truth) : Narrowing(p, s) /\ DOMAIN s.path.took \subseteq D
    BY <2>2, <2>4, <2>6
  <2> QED
    BY <1>2, <2>3, <2>5, <2>7 DEF SplitsInto
<1> QED
  BY <1>4, <1>5

\* The exit test of a loop: the cases that leave it, or go on.
LEMMA LoopSplitIs ==
    ASSUME program \in Programs, NEW p \in TypedPaths, NEW frame \in Frames,
           frame \in ToSet(p.rest), NEW exit \in BOOLEAN
    PROVE  SplitsInto(p, LoopSplit(p, frame, exit),
                      {c \in DOMAIN p.took : GoesOn(p, frame, c) = ~exit})
<1>1. /\ frame.loop \in Statements(Code) /\ frame.loop.kind \in Loops /\ frame.kind = "unroll"
      /\ frame.depth \in Nat /\ frame.times \in Values /\ MaxValue \in Nat
  BY ProgramIs DEF Frames
<1>2. CASE frame.loop.kind = "perform-until"
  <2>1. LoopSplit(p, frame, exit) = Split(p, frame.loop.cond, exit)
    BY <1>2 DEF LoopSplit
  <2>2. \A c : GoesOn(p, frame, c) = ~True(frame.loop.cond, p.took[c].store)
    BY <1>2 DEF GoesOn
  <2>3. {c \in DOMAIN p.took : GoesOn(p, frame, c) = ~exit} =
          {c \in DOMAIN p.took : True(frame.loop.cond, p.took[c].store) = exit}
    BY <2>2 DEF True, Holds
  <2>4. frame.loop.cond \in Conditions
    BY <1>1, <1>2, StatementIs
  <2> QED
    BY <1>1, <2>1, <2>3, <2>4, SplitIs
<1>3. CASE frame.loop.kind = "perform-times"
  <2> DEFINE depth == Sym(p.env, Lit(frame.depth))
             S == {c \in DOMAIN p.took : (frame.count[c] = frame.depth) = exit}
             con == IF exit THEN Asserted(frame.times, "=", depth, TRUE)
                            ELSE Asserted(depth, "<", frame.times, TRUE)
             pushed == IF frame.times = Opaque THEN {} ELSE {con}
             u == frame.times = Opaque
             s == [path |-> Narrow(p, S, pushed, u), pushed |-> pushed]
  <2>1. LoopSplit(p, frame, exit) = {s}
    BY <1>3 DEF LoopSplit, Loops
  <2>2. depth \in [Cases -> Int] /\ \A c \in Cases : depth[c] = frame.depth
    BY <1>1 DEF Sym, Lit
  <2> HIDE DEF depth
  <2>3. /\ \A c \in DOMAIN p.took : frame.count[c] \in Nat /\ frame.depth <= frame.count[c]
        /\ \A c \in DOMAIN p.took : GoesOn(p, frame, c) = (frame.count[c] > frame.depth)
    <3>1. /\ DOMAIN p.took \subseteq DOMAIN frame.count
          /\ \A c \in DOMAIN p.took : frame.depth <= frame.count[c]
      BY <1>1, <1>3, PathIs DEF Fits
    <3>2. \A c \in DOMAIN frame.count : frame.count[c] \in Nat
      BY DEF Frames
    <3> QED
      BY <1>3, <3>1, <3>2 DEF GoesOn, Loops
  <2>4. S = {c \in DOMAIN p.took : GoesOn(p, frame, c) = ~exit}
    BY <1>1, <2>3
  <2>5. frame.times # Opaque =>
          /\ con \in Constraints
          /\ \A c \in DOMAIN p.took : Knows(p, c) => (c \in con.holds <=> c \in S)
    <3> SUFFICES ASSUME frame.times # Opaque
                 PROVE  /\ con \in Constraints
                        /\ \A c \in DOMAIN p.took : Knows(p, c) => (c \in con.holds <=> c \in S)
      OBVIOUS
    <3>1. frame.times \in [Cases -> Int]
      BY <1>1 DEF Values
    <3>2. \A c \in DOMAIN p.took : Knows(p, c) => frame.times[c] = frame.count[c]
      BY <1>1, <1>3 DEF Knows, Counted
    <3>3. \A c \in DOMAIN p.took : c \in Cases
      BY PathIs
    <3>4. CASE exit
      <4>1. con = Asserted(frame.times, "=", depth, TRUE)
        BY <3>4
      <4>2. con \in Constraints
        BY <2>2, <3>1, <4>1, AssertedIs
      <4>3. \A c \in Cases : frame.times[c] \in Nat /\ depth[c] \in Nat =>
               (c \in Asserted(frame.times, "=", depth, TRUE).holds
                  <=> Compares(frame.times[c], "=", depth[c]) = TRUE)
        BY <2>2, <3>1, AssertedIs
      <4> HIDE DEF con
      <4> QED
        BY <1>1, <2>2, <2>3, <3>2, <3>3, <3>4, <4>1, <4>2, <4>3 DEF Compares
    <3>5. CASE ~exit
      <4>1. con = Asserted(depth, "<", frame.times, TRUE)
        BY <3>5
      <4>2. con \in Constraints
        BY <2>2, <3>1, <4>1, AssertedIs
      <4>3. \A c \in Cases : frame.times[c] \in Nat /\ depth[c] \in Nat =>
               (c \in Asserted(depth, "<", frame.times, TRUE).holds
                  <=> Compares(depth[c], "<", frame.times[c]) = TRUE)
        BY <2>2, <3>1, AssertedIs
      <4> HIDE DEF con
      <4>4. ASSUME NEW c \in DOMAIN p.took, Knows(p, c)
            PROVE  c \in con.holds <=> c \in S
        <5>1. /\ frame.times[c] = frame.count[c] /\ depth[c] = frame.depth
              /\ frame.count[c] \in Nat /\ frame.depth \in Nat /\ frame.depth <= frame.count[c]
          BY <1>1, <2>2, <2>3, <3>2, <3>3, <4>4
        <5>2. c \in con.holds <=> frame.depth < frame.count[c]
          BY <3>3, <4>1, <4>3, <5>1 DEF Compares
        <5>3. c \in S <=> ~(frame.count[c] = frame.depth)
          BY <3>5
        <5> QED
          BY <5>1, <5>2, <5>3
      <4> QED
        BY <4>2, <4>4
    <3> QED
      BY <3>4, <3>5
  <2>6. S \in SUBSET DOMAIN p.took /\ pushed \in SUBSET Constraints /\ u \in BOOLEAN
    BY <2>5
  <2>7. s.path = Narrow(p, S, s.pushed, u) /\ s.pushed = pushed
    OBVIOUS
  <2>8. /\ \A c \in S : Knows(p, c) => \A k \in pushed : c \in k.holds
        /\ ~u => \A c \in DOMAIN p.took :
                   Knows(p, c) /\ (\A k \in pushed : c \in k.holds) => c \in S
    BY <2>5, <2>6
  <2>9. DOMAIN s.path.took = S
    <3> HIDE DEF s, S, pushed, u
    <3>1. DOMAIN Narrow(p, S, pushed, u).took = S
      BY <2>6, NarrowTook
    <3> QED
      BY <2>7, <3>1
  <2> HIDE DEF s, S, pushed, u
  <2>10. Narrowing(p, s)
    BY <2>6, <2>7, <2>8 DEF Narrowing
  <2> QED
    BY <2>1, <2>4, <2>9, <2>10, FS_Singleton DEF SplitsInto
<1> QED
  BY <1>1, <1>2, <1>3 DEF Loops

-----------------------------------------------------------------------------
(***************************************************************************)
(* The path being executed and its statement                               *)
(***************************************************************************)
\* The program never changes, nor does what a path is.
LEMMA SameProgram ==
    ASSUME program' = program
    PROVE  Cases' = Cases /\ TypedPaths' = TypedPaths
  BY DEF Cases, TypedPaths, PathStates, Tooks, Values, Constraints, Frames, Code

\* The path being executed is a path, and so are those that wait.
LEMMA NowIs ==
    ASSUME TypeInv, pending # <<>>
    PROVE  /\ Now \in TypedPaths /\ Tail(pending) \in Seq(TypedPaths)
           /\ ToSet(pending) = {Now} \cup ToSet(Tail(pending))
<1>1. pending \in Seq(TypedPaths)
  BY DEF TypeInv
<1>2. /\ Head(pending) \in TypedPaths /\ Tail(pending) \in Seq(TypedPaths)
      /\ Len(pending) \in Nat \ {0} /\ DOMAIN pending = 1..Len(pending)
      /\ Head(pending) = pending[1] /\ Len(Tail(pending)) = Len(pending) - 1
      /\ DOMAIN Tail(pending) = 1..(Len(pending) - 1)
      /\ \A i \in 1..(Len(pending) - 1) : Tail(pending)[i] = pending[i + 1]
  BY <1>1
<1>3. ToSet(pending) \subseteq {Now} \cup ToSet(Tail(pending))
  <2> SUFFICES ASSUME NEW i \in DOMAIN pending, i # 1
               PROVE  pending[i] \in ToSet(Tail(pending))
    BY <1>2 DEF ToSet, Now
  <2>1. i - 1 \in 1..(Len(pending) - 1) /\ pending[i] = Tail(pending)[i - 1]
    BY <1>2
  <2> QED
    BY <2>1, <1>2 DEF ToSet
<1>4. Now \in ToSet(pending)
  BY <1>2 DEF ToSet, Now
<1>5. ToSet(Tail(pending)) \subseteq ToSet(pending)
  BY <1>2 DEF ToSet
<1> QED
  BY <1>2, <1>3, <1>4, <1>5 DEF Now

\* What is known where a statement is about to be executed.
LEMMA AtIs ==
    ASSUME TypeInv, NEW kinds, At(kinds)
    PROVE  /\ program \in Programs /\ MaxValue \in Nat /\ Fuel \in Nat /\ MaxRecords \in Nat
           /\ pending # <<>> /\ Now.rest # <<>> /\ Now \in TypedPaths
           /\ Statement.kind \in kinds /\ Statement \in ToSet(Now.rest)
           /\ Statement.kind # "unroll" => Statement \in Statements(Code)
           /\ Statement.kind = "unroll" => Statement \in Frames
           /\ Tail(Now.rest) \in Seq(Code \cup Frames)
           /\ ToSet(Tail(Now.rest)) \subseteq ToSet(Now.rest)
<1>1. /\ program \in Programs /\ pending # <<>> /\ Now.rest # <<>>
      /\ Statement.kind \in kinds
  BY DEF TypeInv, At
<1>2. Now \in TypedPaths
  BY <1>1, NowIs
<1>3. MaxValue \in Nat /\ Fuel \in Nat /\ MaxRecords \in Nat
  BY BoundsAssumption
<1> QED
  BY <1>1, <1>2, <1>3, RestIs DEF Statement

\* The successors of the path being executed take its place.
LEMMA BecomeIs ==
    ASSUME TypeInv, pending # <<>>, NEW S, Tail(pending) \in Seq(S), NEW paths \in Seq(S),
           Become(paths)
    PROVE  /\ pending' \in Seq(S) /\ ToSet(pending') = ToSet(paths) \cup ToSet(Tail(pending))
<1> DEFINE others == Tail(pending)
<1>1. pending' = paths \o others /\ others \in Seq(S)
  BY DEF Become
<1> HIDE DEF others
<1>2. ToSet(paths \o others) = ToSet(paths) \cup ToSet(others)
  BY <1>1, ConcatToSet
<1>3. paths \o others \in Seq(S)
  BY <1>1
<1> QED
  BY <1>1, <1>2, <1>3 DEF others

-----------------------------------------------------------------------------
(***************************************************************************)
(* The successors of a statement that does not split                       *)
(***************************************************************************)
\* The statements with one successor whose fields or end they change.
Simple == {"move", "move-window", "accept", "stop-run"}

\* What the program does with the cases, one simple statement later.
LEMMA AdvancedTook ==
    ASSUME TypeInv, At(Simple)
    PROVE  /\ DOMAIN Advanced(Now).took = DOMAIN Now.took
           /\ Advanced(Now).took \in Tooks
           /\ \A c \in DOMAIN Now.took :
                /\ Advanced(Now).took[c] = Advance(c, Now.took[c], Statement)
                /\ Follows(Advance(c, Now.took[c], Statement), Now.took[c], Changed({Statement}))
<1> DEFINE took == [c \in DOMAIN Now.took |-> Advance(c, Now.took[c], Statement)]
<1>1. Statement \in Statements(Code) /\ Statement.kind \in Simple /\ Now \in TypedPaths
      /\ program \in Programs /\ MaxValue \in Nat
  BY AtIs DEF Simple
<1>2. ASSUME NEW c \in DOMAIN Now.took
      PROVE  Follows(Advance(c, Now.took[c], Statement), Now.took[c], Changed({Statement}))
  <2>1. c \in Seq(Input) /\ Now.took[c] \in RunStates
    BY <1>1, CaseIs, PathIs
  <2> QED
    BY <1>1, <2>1, AdvanceIs DEF Simple
<1>3. took \in [DOMAIN Now.took -> RunStates] /\ DOMAIN Now.took \in SUBSET Cases
  BY <1>1, <1>2, PathIs DEF Follows
<1>4. took \in Tooks
  BY <1>3, TooksHas
<1>5. Advanced(Now).took = took
  BY <1>1, PathIs DEF Advanced, PathStates
<1>6. DOMAIN took = DOMAIN Now.took
      /\ \A c \in DOMAIN Now.took : took[c] = Advance(c, Now.took[c], Statement)
  OBVIOUS
<1> HIDE DEF took
<1> QED
  BY <1>2, <1>4, <1>5, <1>6

\* A path one simple statement later is a path, its environment not yet changed.
LEMMA AdvancedIs ==
    ASSUME TypeInv, At(Simple)
    PROVE  /\ Advanced(Now) \in TypedPaths /\ Advanced(Now).env = Now.env
           /\ Advanced(Now).cons = Now.cons /\ Advanced(Now).unknown = Now.unknown
           /\ Advanced(Now).reads = Now.reads /\ Advanced(Now).eof = Now.eof
           /\ ToSet(Advanced(Now).rest) \subseteq ToSet(Now.rest)
<1> DEFINE q == Advanced(Now)
           p == Now
           took == q.took
           rest == Tail(p.rest)
<1>1. /\ p \in TypedPaths /\ rest \in Seq(Code \cup Frames)
      /\ ToSet(rest) \subseteq ToSet(p.rest)
  BY AtIs
<1>2. took \in Tooks /\ DOMAIN took = DOMAIN p.took
  BY AdvancedTook
<1>3. \E t : q = [p EXCEPT !.took = t, !.rest = rest]
  BY DEF Advanced
<1>4. q = [p EXCEPT !.took = took, !.rest = rest]
  BY <1>1, <1>3, PathIs DEF PathStates
<1> HIDE DEF q, took, p, rest
<1>5. /\ q \in PathStates /\ q.took = took /\ q.rest = rest /\ q.env = p.env /\ q.cons = p.cons
      /\ q.unknown = p.unknown /\ q.reads = p.reads /\ q.eof = p.eof
  BY <1>1, <1>2, <1>4, PathIs DEF PathStates
<1>6. q \in TypedPaths
  BY <1>1, <1>2, <1>5, PathIs, IsPath
<1> QED
  BY <1>1, <1>5, <1>6 DEF p, q

\* A value put into the environment, and constraints pushed.
Stored(p, v, x, C) == [p EXCEPT !.env[v] = x, !.cons = @ \cup C]

\* A path with a value stored is a path.
LEMMA StoredIs ==
    ASSUME NEW p \in TypedPaths, NEW v \in Var, NEW x \in Values, NEW C \in SUBSET Constraints,
           NEW q, q = Stored(p, v, x, C)
    PROVE  /\ q \in TypedPaths /\ q.cons = p.cons \cup C
           /\ q.unknown = p.unknown /\ q.reads = p.reads /\ q.eof = p.eof
           /\ q.rest = p.rest /\ q.took = p.took /\ q.env[v] = x
           /\ \A w \in Var \ {v} : q.env[w] = p.env[w]
<1>1. /\ q \in PathStates /\ q.cons = p.cons \cup C
      /\ q.unknown = p.unknown /\ q.reads = p.reads /\ q.eof = p.eof
      /\ q.rest = p.rest /\ q.took = p.took /\ q.env = [p.env EXCEPT ![v] = x]
  BY PathIs DEF PathStates, Stored
<1>2. q.env[v] = x /\ \A w \in Var \ {v} : q.env[w] = p.env[w]
  BY <1>1, PathIs
<1>3. q \in TypedPaths
  BY <1>1, PathIs, IsPath
<1> QED
  BY <1>1, <1>2, <1>3

-----------------------------------------------------------------------------
(***************************************************************************)
(* What is true of a path                                                  *)
(***************************************************************************)
\* A case that has lost no digits meets the constraints of its path.
Sound(p) == \A c \in DOMAIN p.took : ~p.took[c].wrapped => Accepts(p, c)

\* What the path says of a case that meets its constraints is so.
Real(p) == \A c \in DOMAIN p.took : Accepts(p, c) => Knows(p, c)

\* A case of the right length that meets all constraints takes the path.
Reaches(p, c) == Records => IF p.eof THEN Len(c) = p.reads ELSE Len(c) >= p.reads
Witnessed(p) ==
    ~p.unknown => \A c \in Cases : Accepts(p, c) /\ Reaches(p, c) => c \in DOMAIN p.took

\* A case has the records read on its path.
Long(p) == \A c \in DOMAIN p.took : Len(c) >= p.reads

Good(p) == Sound(p) /\ Real(p) /\ Witnessed(p) /\ Long(p)

\* A path and its only successor.
Onward(p, q) ==
    /\ DOMAIN q.took = DOMAIN p.took /\ p.cons \subseteq q.cons
    /\ q.unknown = p.unknown /\ q.reads = p.reads /\ q.eof = p.eof

\* The successor of a good path is good if no constraint was pushed that a case fails
\* without losing digits, and it knows of each case what the path knew.
LEMMA OnwardGood ==
    ASSUME NEW p, NEW q, Good(p), Onward(p, q),
           \A c \in DOMAIN p.took : ~q.took[c].wrapped =>
               ~p.took[c].wrapped /\ (Accepts(p, c) => Accepts(q, c)),
           \A c \in DOMAIN p.took : Accepts(q, c) /\ Knows(p, c) => Knows(q, c)
    PROVE  Good(q)
<1>1. \A c : Accepts(q, c) => Accepts(p, c)
  BY DEF Onward, Accepts
<1>2. \A c : Reaches(q, c) <=> Reaches(p, c)
  BY DEF Onward, Reaches
<1>3. Sound(q)
  BY DEF Good, Sound, Onward
<1>4. Real(q)
  BY <1>1 DEF Good, Real, Onward
<1>5. Witnessed(q)
  BY <1>1, <1>2 DEF Good, Witnessed, Onward
<1>6. Long(q)
  BY DEF Good, Long, Onward
<1> QED
  BY <1>3, <1>4, <1>5, <1>6 DEF Good

\* v, and nothing else that p knows of c, has been stored to; q has its value.
StoredTo(p, q, c, v) ==
    /\ ToSet(q.rest) \subseteq ToSet(p.rest)
    /\ Follows(q.took[c], p.took[c], {v} \cup Shared(v))
    /\ \A w \in Var \ {v} : q.env[w] = p.env[w]
    /\ \A w \in Shared(v) : p.env[w] = Opaque
    /\ q.env[v] # Opaque => q.env[v][c] = q.took[c].store[v]

\* After a store the path still knows what the program has, shared storage aside.
LEMMA KnowsAfterStore ==
    ASSUME NEW p, NEW q, NEW c, NEW v \in Var, Knows(p, c), StoredTo(p, q, c, v)
    PROVE  Knows(q, c)
<1> USE DEF StoredTo
<1>1. ASSUME NEW w \in Var, q.env[w] # Opaque PROVE q.env[w][c] = q.took[c].store[w]
  <2>1. CASE w = v
    BY <1>1, <2>1
  <2>2. CASE w # v
    <3>1. q.env[w] = p.env[w] /\ p.env[w] # Opaque /\ w \notin Shared(v)
      BY <1>1, <2>2
    <3>2. p.env[w][c] = p.took[c].store[w]
      BY <3>1 DEF Knows, Agrees
    <3>3. q.took[c].store[w] = p.took[c].store[w]
      BY <2>2, <3>1 DEF Follows
    <3> QED
      BY <3>1, <3>2, <3>3
  <2> QED
    BY <2>1, <2>2
<1>2. Agrees(q.env, q.took[c].store, c)
  BY <1>1 DEF Agrees
<1> QED
  BY <1>2 DEF Knows

-----------------------------------------------------------------------------
(***************************************************************************)
(* Statements that do not split                                            *)
(***************************************************************************)
\* The constraints C say that x is known and fits the field.
Capacity(x, C) ==
    /\ x = Opaque => C = {}
    /\ x # Opaque => \A c \in Cases : x[c] \in Nat =>
                       ((\A con \in C : c \in con.holds) <=> x[c] \in Input)

\* store puts in the value, and the capacity of the field as a constraint.
LEMMA StoreInIs ==
    ASSUME NEW p \in TypedPaths, NEW v \in Var, NEW x \in Values, MaxValue \in Nat
    PROVE  \E C \in SUBSET Constraints : StoreIn(p, v, x) = Stored(p, v, x, C) /\ Capacity(x, C)
<1> DEFINE lim == Sym(p.env, Lit(MaxValue + 1))
           con == Asserted(x, "<", lim, TRUE)
           C == IF x = Opaque THEN {} ELSE {con}
<1>1. StoreIn(p, v, x) = Stored(p, v, x, C)
  BY DEF StoreIn, Stored
<1>2. lim \in [Cases -> Int] /\ \A c \in Cases : lim[c] = MaxValue + 1
  BY DEF Sym, Lit
<1>3. x # Opaque => x \in [Cases -> Int]
  BY DEF Values
<1> HIDE DEF lim
<1>4. x # Opaque =>
        /\ con \in Constraints
        /\ \A c \in Cases : x[c] \in Nat => (c \in con.holds <=> x[c] \in Input)
  <2> SUFFICES ASSUME x # Opaque
               PROVE  /\ con \in Constraints
                      /\ \A c \in Cases : x[c] \in Nat => (c \in con.holds <=> x[c] \in Input)
    OBVIOUS
  <2>1. con \in Constraints
    BY <1>2, <1>3, AssertedIs
  <2>2. \A c \in Cases : x[c] \in Nat /\ lim[c] \in Nat =>
           (c \in con.holds <=> Compares(x[c], "<", lim[c]) = TRUE)
    BY <1>2, <1>3, AssertedIs
  <2> HIDE DEF con
  <2> QED
    BY <1>2, <2>1, <2>2 DEF Compares, Input
<1>5. C \in SUBSET Constraints
  BY <1>4
<1>6. Capacity(x, C)
  BY <1>4 DEF Capacity
<1> HIDE DEF con, C
<1> QED
  BY <1>1, <1>5, <1>6

\* MOVE and the arithmetic statements keep a path good.
LEMMA Moved ==
    ASSUME TypeInv, At({"move"}),
           NEW q, q = StoreIn(Advanced(Now), Statement.to, Sym(Now.env, Statement.from))
    PROVE  /\ q \in TypedPaths /\ Onward(Now, q)
           /\ Regular /\ Good(Now) => Good(q)
<1> DEFINE p == Now
           v == Statement.to
           x == Sym(p.env, Statement.from)
           a == Advanced(p)
<1>1. /\ p \in TypedPaths /\ Statement \in Statements(Code) /\ Statement.kind = "move"
      /\ MaxValue \in Nat /\ At(Simple) /\ At(Stores)
  BY AtIs DEF At, Simple, Stores
<1>2. v \in Var /\ Statement.from \in Expressions
  BY <1>1, StatementIs DEF Stores
<1>3. x \in Values
  BY <1>1, <1>2, SymIs, PathIs
<1>4. /\ a \in TypedPaths /\ a.env = p.env /\ a.cons = p.cons /\ a.unknown = p.unknown
      /\ a.reads = p.reads /\ a.eof = p.eof /\ ToSet(a.rest) \subseteq ToSet(p.rest)
  BY <1>1, AdvancedIs
<1>5. /\ DOMAIN a.took = DOMAIN p.took
      /\ \A c \in DOMAIN p.took : a.took[c] = Put(p.took[c], v, Value(p.took[c].store, Statement.from))
  BY <1>1, AdvancedTook DEF Advance
<1>6. q = StoreIn(a, v, x)
  OBVIOUS
<1> HIDE DEF p, v, x, a
<1>7. PICK C \in SUBSET Constraints : q = Stored(a, v, x, C) /\ Capacity(x, C)
  BY <1>6, <1>1, <1>2, <1>3, <1>4, StoreInIs
<1>8. /\ q \in TypedPaths /\ q.cons = a.cons \cup C
      /\ q.unknown = a.unknown /\ q.reads = a.reads /\ q.eof = a.eof
      /\ q.rest = a.rest /\ q.took = a.took /\ q.env[v] = x
      /\ \A w \in Var \ {v} : q.env[w] = a.env[w]
  BY <1>2, <1>3, <1>4, <1>7, StoredIs
<1>9. Onward(p, q)
  BY <1>4, <1>5, <1>8 DEF Onward
<1>10. ASSUME Regular, Good(p) PROVE Good(q)
  <2>1. \A w \in Shared(v) : p.env[w] = Opaque
    BY <1>1, <1>10 DEF Regular, p, v
  <2>2. ASSUME NEW c \in DOMAIN p.took
        PROVE  /\ Value(p.took[c].store, Statement.from) \in Nat
               /\ Follows(q.took[c], p.took[c], {v} \cup Shared(v))
               /\ Value(p.took[c].store, Statement.from) \in Input =>
                     q.took[c].store[v] = Value(p.took[c].store, Statement.from)
               /\ ~q.took[c].wrapped => Value(p.took[c].store, Statement.from) \in Input
    <3>1. p.took[c] \in RunStates /\ p.took[c].store \in [Var -> Input]
      BY <1>1, PathIs DEF p
    <3>2. Value(p.took[c].store, Statement.from) \in Nat
      BY <1>1, <1>2, <3>1, ValueIs
    <3>3. q.took[c] = Put(p.took[c], v, Value(p.took[c].store, Statement.from))
      BY <1>5, <1>8
    <3> QED
      BY <1>1, <1>2, <3>1, <3>2, <3>3, PutIs DEF Follows, RunStates
  <2>3. \A c \in DOMAIN p.took : c \in Cases /\ p.took[c].store \in [Var -> Input]
    BY <1>1, PathIs DEF p
  <2>4. ASSUME NEW c \in DOMAIN p.took, Knows(p, c), x # Opaque
        PROVE  x[c] = Value(p.took[c].store, Statement.from)
    <3>1. Agrees(p.env, p.took[c].store, c)
      BY <2>4 DEF Knows
    <3> QED
      BY <1>1, <1>2, <2>3, <2>4, <3>1, SymIs, PathIs DEF p, x
  <2>5. ASSUME NEW c \in DOMAIN p.took, ~q.took[c].wrapped
        PROVE  ~p.took[c].wrapped /\ (Accepts(p, c) => Accepts(q, c))
    <3>1. ~p.took[c].wrapped
      BY <2>2, <2>5 DEF Follows
    <3>2. ASSUME Accepts(p, c) PROVE Accepts(q, c)
      <4>1. Knows(p, c)
        BY <1>10, <3>2 DEF Good, Real
      <4>2. \A con \in C : c \in con.holds
        BY <1>7, <2>2, <2>3, <2>4, <2>5, <4>1 DEF Capacity
      <4> QED
        BY <1>4, <1>8, <3>2, <4>2 DEF Accepts
    <3> QED
      BY <3>1, <3>2
  <2>6. ASSUME NEW c \in DOMAIN p.took, Accepts(q, c), Knows(p, c) PROVE Knows(q, c)
    <3>1. x # Opaque => x[c] \in Input
      <4>1. \A con \in C : c \in con.holds
        BY <1>8, <2>6 DEF Accepts
      <4> QED
        BY <1>7, <2>2, <2>3, <2>4, <2>6, <4>1 DEF Capacity
    <3>2. q.env[v] # Opaque => q.env[v][c] = q.took[c].store[v]
      BY <1>8, <2>2, <2>4, <2>6, <3>1
    <3>3. /\ ToSet(q.rest) \subseteq ToSet(p.rest)
          /\ \A w \in Var \ {v} : q.env[w] = p.env[w]
      BY <1>4, <1>8
    <3>4. StoredTo(p, q, c, v)
      BY <2>1, <2>2, <3>2, <3>3 DEF StoredTo
    <3> QED
      BY <1>2, <2>6, <3>4, KnowsAfterStore
  <2> QED
    BY <1>9, <1>10, <2>5, <2>6, OnwardGood
<1> QED
  BY <1>8, <1>9, <1>10 DEF p

\* A field set to x, without a constraint, where the program stores to it.
LEMMA StoredAfterAdvance ==
    ASSUME TypeInv, At({"move-window", "accept"}), NEW x \in Values,
           NEW q, q = Stored(Advanced(Now), Statement.to, x, {}),
           Regular => \A c \in DOMAIN Now.took : x # Opaque =>
               x[c] = Advanced(Now).took[c].store[Statement.to]
    PROVE  /\ q \in TypedPaths /\ Onward(Now, q)
           /\ Regular /\ Good(Now) => Good(q)
<1> DEFINE p == Now
           v == Statement.to
           a == Advanced(p)
<1>1. /\ p \in TypedPaths /\ Statement \in Statements(Code) /\ Statement.kind \in Stores
      /\ At(Simple) /\ At(Stores)
  BY AtIs DEF At, Simple, Stores
<1>2. v \in Var /\ Changed({Statement}) = {v} \cup Shared(v)
  BY <1>1, StatementIs DEF Changed
<1>3. /\ a \in TypedPaths /\ a.env = p.env /\ a.cons = p.cons /\ a.unknown = p.unknown
      /\ a.reads = p.reads /\ a.eof = p.eof /\ ToSet(a.rest) \subseteq ToSet(p.rest)
  BY <1>1, AdvancedIs
<1>4. /\ DOMAIN a.took = DOMAIN p.took
      /\ \A c \in DOMAIN p.took : Follows(a.took[c], p.took[c], {v} \cup Shared(v))
  BY <1>1, <1>2, AdvancedTook
<1> DEFINE none == {}
<1>5. q = Stored(a, v, x, none)
  OBVIOUS
<1>6. none \in SUBSET Constraints
  OBVIOUS
<1> HIDE DEF p, v, a, none
<1>7. /\ q \in TypedPaths /\ q.cons = a.cons \cup none
      /\ q.unknown = a.unknown /\ q.reads = a.reads /\ q.eof = a.eof
      /\ q.rest = a.rest /\ q.took = a.took /\ q.env[v] = x
      /\ \A w \in Var \ {v} : q.env[w] = a.env[w]
  BY <1>2, <1>3, <1>5, <1>6, StoredIs
<1>8. q.cons = a.cons
  BY <1>7 DEF none
<1>9. Onward(p, q)
  BY <1>3, <1>4, <1>7, <1>8 DEF Onward
<1>10. ASSUME Regular, Good(p) PROVE Good(q)
  <2>1. \A w \in Shared(v) : p.env[w] = Opaque
    BY <1>1, <1>10 DEF Regular, p, v
  <2>2. ASSUME NEW c \in DOMAIN p.took, ~q.took[c].wrapped
        PROVE  ~p.took[c].wrapped /\ (Accepts(p, c) => Accepts(q, c))
    <3>1. ~p.took[c].wrapped
      BY <1>4, <1>7, <2>2 DEF Follows
    <3> QED
      BY <3>1, <1>3, <1>8 DEF Accepts
  <2>3. ASSUME NEW c \in DOMAIN p.took, Accepts(q, c), Knows(p, c) PROVE Knows(q, c)
    <3>1. x # Opaque => x[c] = q.took[c].store[v]
      BY <1>7, <1>10 DEF p, v, a
    <3>2. StoredTo(p, q, c, v)
      BY <1>3, <1>4, <1>7, <2>1, <3>1 DEF StoredTo
    <3> QED
      BY <1>2, <2>3, <3>2, KnowsAfterStore
  <2> QED
    BY <1>9, <1>10, <2>2, <2>3, OnwardGood
<1> QED
  BY <1>7, <1>9, <1>10 DEF p

\* Setting a field is storing without a constraint.
LEMMA SetIsStored ==
    ASSUME NEW p \in TypedPaths, NEW v, NEW x
    PROVE  [p EXCEPT !.env[v] = x] = Stored(p, v, x, {})
<1>1. p.cons \cup {} = p.cons
  OBVIOUS
<1> QED
  BY <1>1, PathIs DEF Stored, PathStates

\* An input variable is what the case has at that place.
LEMMA SlotIs ==
    ASSUME program \in Programs, NEW i
    PROVE  /\ Slot(i) \in Values
           /\ \A c \in Cases : i \in DOMAIN c => Slot(i)[c] = c[i]
<1>1. \A c \in Cases : i \in DOMAIN c => c[i] \in Int
  BY CaseIs, BoundsAssumption DEF Input
<1>2. Slot(i) \in [Cases -> Int]
  BY <1>1 DEF Slot, Missing
<1> QED
  BY <1>2 DEF Slot, Values

\* A store the engine does not follow keeps a path good: it forgets the field.
LEMMA Windowed ==
    ASSUME TypeInv, At({"move-window"}),
           NEW q, q = [Advanced(Now) EXCEPT !.env[Statement.to] = Opaque]
    PROVE  /\ q \in TypedPaths /\ Onward(Now, q)
           /\ Regular /\ Good(Now) => Good(q)
<1>1. Advanced(Now) \in TypedPaths
  <2>1. At(Simple)
    BY DEF At, Simple
  <2> QED
    BY <2>1, AdvancedIs
<1>2. q = Stored(Advanced(Now), Statement.to, Opaque, {})
  BY <1>1, SetIsStored
<1>3. At({"move-window", "accept"}) /\ Opaque \in Values
  BY DEF At, Values
<1> QED
  BY <1>2, <1>3, StoredAfterAdvance

\* ACCEPT keeps a path good: the line it takes is the one of its place in the text.
LEMMA Accepted ==
    ASSUME TypeInv, At({"accept"}),
           NEW q, q = [Advanced(Now) EXCEPT !.env[Statement.to] = Slot(Position(Statement.to))]
    PROVE  /\ q \in TypedPaths /\ Onward(Now, q)
           /\ Regular /\ Good(Now) => Good(q)
<1> DEFINE x == Slot(Position(Statement.to))
<1>1. /\ At(Simple) /\ At({"move-window", "accept"}) /\ Statement.kind = "accept"
      /\ Statement \in Statements(Code) /\ program \in Programs /\ Now \in TypedPaths
      /\ MaxValue \in Nat
  BY AtIs DEF At, Simple
<1>2. Advanced(Now) \in TypedPaths
  BY <1>1, AdvancedIs
<1>3. q = Stored(Advanced(Now), Statement.to, x, {})
  BY <1>2, SetIsStored
<1>4. x \in Values
  BY <1>1, SlotIs
<1>5. ASSUME Regular, NEW c \in DOMAIN Now.took
      PROVE  x[c] = Advanced(Now).took[c].store[Statement.to]
  <2>1. Now.took[c].reads + 1 = Position(Statement.to) /\ Position(Statement.to) <= Len(c)
    BY <1>5 DEF Regular
  <2>2. c \in Cases /\ c \in Seq(Input) /\ Now.took[c] \in RunStates
    BY <1>1, PathIs, CaseIs
  <2>3. Now.took[c].reads \in Nat
    BY <2>2 DEF RunStates
  <2>4. Now.took[c].reads < Len(c) /\ Position(Statement.to) \in DOMAIN c
    BY <2>1, <2>2, <2>3
  <2>5. Take(c, Now.took[c], Statement.to).store[Statement.to] = c[Now.took[c].reads + 1]
    <3>1. Statement.to \in Var
      BY <1>1, StatementIs DEF Stores
    <3> QED
      BY <1>1, <2>2, <2>4, <3>1, TakeIs
  <2>6. Advanced(Now).took[c] = Take(c, Now.took[c], Statement.to)
    BY <1>1, AdvancedTook DEF Advance
  <2>7. x[c] = c[Position(Statement.to)]
    BY <1>1, <2>2, <2>4, SlotIs
  <2> QED
    BY <2>1, <2>5, <2>6, <2>7
<1> HIDE DEF x
<1> QED
  BY <1>1, <1>3, <1>4, <1>5, StoredAfterAdvance

\* STOP RUN keeps a path good.
LEMMA Stopped ==
    ASSUME TypeInv, At({"stop-run"}), NEW q, q = [Advanced(Now) EXCEPT !.ended = TRUE]
    PROVE  /\ q \in TypedPaths /\ Onward(Now, q)
           /\ Regular /\ Good(Now) => Good(q)
<1> DEFINE p == Now
           a == Advanced(p)
<1>1. p \in TypedPaths /\ Statement.kind = "stop-run" /\ At(Simple)
  BY AtIs DEF At, Simple
<1>2. /\ a \in TypedPaths /\ a.env = p.env /\ a.cons = p.cons /\ a.unknown = p.unknown
      /\ a.reads = p.reads /\ a.eof = p.eof /\ ToSet(a.rest) \subseteq ToSet(p.rest)
  BY <1>1, AdvancedIs
<1>3. /\ DOMAIN a.took = DOMAIN p.took
      /\ \A c \in DOMAIN p.took : Follows(a.took[c], p.took[c], {})
  <2>1. Changed({Statement}) = {}
    BY <1>1 DEF Changed, Stores
  <2> QED
    BY <1>1, <2>1, AdvancedTook
<1>4. q = [a EXCEPT !.ended = TRUE]
  OBVIOUS
<1> HIDE DEF p, a
<1>5. /\ q \in PathStates /\ q.cons = a.cons /\ q.env = a.env
      /\ q.unknown = a.unknown /\ q.reads = a.reads /\ q.eof = a.eof
      /\ q.rest = a.rest /\ q.took = a.took
  <2>1. a \in PathStates
    BY <1>2, PathIs
  <2> QED
    BY <1>4, <2>1 DEF PathStates
<1>6. q \in TypedPaths
  BY <1>2, <1>5, PathIs, IsPath
<1>7. Onward(p, q)
  BY <1>2, <1>3, <1>5 DEF Onward
<1>8. ASSUME Good(p) PROVE Good(q)
  <2>1. ASSUME NEW c \in DOMAIN p.took, ~q.took[c].wrapped
        PROVE  ~p.took[c].wrapped /\ (Accepts(p, c) => Accepts(q, c))
    BY <1>2, <1>3, <1>5, <2>1 DEF Follows, Accepts
  <2>2. ASSUME NEW c \in DOMAIN p.took, Knows(p, c) PROVE Knows(q, c)
    BY <1>2, <1>3, <1>5, <2>2 DEF Follows, Knows, Agrees
  <2> QED
    BY <1>7, <1>8, <2>1, <2>2, OnwardGood
<1> QED
  BY <1>6, <1>7, <1>8 DEF p

-----------------------------------------------------------------------------
(***************************************************************************)
(* Statements put before those a path has left                             *)
(***************************************************************************)
\* Statements put before those left change nothing else of a path.
LEMMA GoesFields ==
    ASSUME program \in Programs, NEW p \in TypedPaths, p.rest # <<>>,
           NEW stmts \in Seq(Code \cup Frames)
    PROVE  /\ Goes(p, stmts).env = p.env /\ Goes(p, stmts).cons = p.cons
           /\ Goes(p, stmts).unknown = p.unknown /\ Goes(p, stmts).reads = p.reads
           /\ Goes(p, stmts).eof = p.eof /\ Goes(p, stmts).took = p.took
           /\ ToSet(Goes(p, stmts).rest) \subseteq ToSet(stmts) \cup ToSet(p.rest)
<1> DEFINE rest == stmts \o Tail(p.rest)
           q == [p EXCEPT !.rest = rest]
<1>1. Goes(p, stmts) = q
  BY DEF Goes
<1>2. Tail(p.rest) \in Seq(Code \cup Frames) /\ ToSet(Tail(p.rest)) \subseteq ToSet(p.rest)
  BY RestIs
<1> HIDE DEF rest, q
<1>3. ToSet(stmts \o Tail(p.rest)) = ToSet(stmts) \cup ToSet(Tail(p.rest))
  <2> DEFINE S == Code \cup Frames
             left == Tail(p.rest)
  <2>1. stmts \in Seq(S) /\ left \in Seq(S)
    BY <1>2
  <2> HIDE DEF S, left
  <2>2. ToSet(stmts \o left) = ToSet(stmts) \cup ToSet(left)
    BY <2>1, ConcatToSet
  <2> QED
    BY <2>2 DEF left
<1>4. /\ q.env = p.env /\ q.cons = p.cons /\ q.unknown = p.unknown /\ q.reads = p.reads
      /\ q.eof = p.eof /\ q.took = p.took /\ q.rest = rest
  <2>1. p \in PathStates
    BY PathIs
  <2> QED
    BY <2>1 DEF PathStates, q
<1> QED
  BY <1>1, <1>2, <1>3, <1>4 DEF rest

\* A good path with statements put before those it has left is good.
LEMMA GoesOnward ==
    ASSUME program \in Programs, NEW p \in TypedPaths, p.rest # <<>>,
           NEW stmts \in Seq(Code \cup Frames)
    PROVE  /\ Onward(p, Goes(p, stmts))
           /\ (\A f \in ToSet(stmts) : \A c \in DOMAIN p.took : Knows(p, c) => Counted(f, c))
                /\ Good(p) => Good(Goes(p, stmts))
<1> DEFINE q == Goes(p, stmts)
<1>1. /\ q.env = p.env /\ q.cons = p.cons /\ q.unknown = p.unknown /\ q.reads = p.reads
      /\ q.eof = p.eof /\ q.took = p.took /\ ToSet(q.rest) \subseteq ToSet(stmts) \cup ToSet(p.rest)
  BY GoesFields
<1> HIDE DEF q
<1>2. Onward(p, q)
  BY <1>1 DEF Onward
<1>3. ASSUME \A f \in ToSet(stmts) : \A c \in DOMAIN p.took : Knows(p, c) => Counted(f, c),
             Good(p)
      PROVE  Good(q)
  <2>1. \A c \in DOMAIN p.took : Knows(p, c) => Knows(q, c)
    BY <1>1, <1>3 DEF Knows
  <2>2. \A c : Accepts(p, c) => Accepts(q, c)
    BY <1>1 DEF Accepts
  <2> QED
    BY <1>1, <1>2, <1>3, <2>1, <2>2, OnwardGood
<1> QED
  BY <1>2, <1>3 DEF q

\* Statements of the program are not loops being unrolled.
LEMMA CodeIs ==
    ASSUME program \in Programs, NEW stmts \in Seq(Code)
    PROVE  /\ stmts \in Seq(Code \cup Frames)
           /\ \A f \in ToSet(stmts) : f.kind # "unroll"
           /\ \A f \in ToSet(stmts) : \A c : Counted(f, c)
           /\ \A f \in ToSet(stmts) : \A D : Fits(f, D)
<1>1. \A f \in ToSet(stmts) : f \in Code
  BY DEF ToSet
<1>2. \A f \in Code : f.kind # "unroll"
  BY ProgramIs, StatementIs DEF Stores, Loops
<1>3. stmts \in Seq(Code \cup Frames)
  OBVIOUS
<1> QED
  BY <1>1, <1>2, <1>3 DEF Counted, Fits

\* All of a finite set of paths with the same statements put before.
LEMMA GoesAll ==
    ASSUME program \in Programs, NEW Q, IsFiniteSet(Q), Q \subseteq TypedPaths,
           NEW stmts \in Seq(Code \cup Frames),
           \A p \in Q : p.rest # <<>> /\ \A f \in ToSet(stmts) : Fits(f, DOMAIN p.took)
    PROVE  /\ SetToSeq({Goes(p, stmts) : p \in Q}) \in Seq(TypedPaths)
           /\ ToSet(SetToSeq({Goes(p, stmts) : p \in Q})) = {Goes(p, stmts) : p \in Q}
<1> DEFINE f == [p \in Q |-> Goes(p, stmts)]
           G == {Goes(p, stmts) : p \in Q}
<1>1. DOMAIN f = Q /\ G = {f[p] : p \in Q}
  OBVIOUS
<1>2. G \subseteq TypedPaths
  BY GoesIs
<1> HIDE DEF f, G
<1>3. IsFiniteSet(G)
  BY <1>1, ImageIsFinite
<1>4. SetToSeq(G) \in Seq(G) /\ ToSet(SetToSeq(G)) = G
  BY <1>3, SetToSeqIs
<1>5. SetToSeq(G) \in Seq(TypedPaths)
  BY <1>2, <1>4
<1> QED
  BY <1>4, <1>5 DEF G

-----------------------------------------------------------------------------
(***************************************************************************)
(* One step of a path                                                      *)
(***************************************************************************)
\* The paths that take the place of the one being executed: if that is good
\* they are good, and have its cases unless those are disclosed.
Succeeds(paths) ==
    Regular /\ Good(Now) =>
        /\ \A q \in ToSet(paths) : Good(q)
        /\ \A c \in DOMAIN Now.took :
             c \in beyond' \cup overflown' \/ \E q \in ToSet(paths) : c \in DOMAIN q.took

\* One good successor with all the cases of its path.
LEMMA One ==
    ASSUME NEW q \in TypedPaths, Onward(Now, q), Regular /\ Good(Now) => Good(q)
    PROVE  <<q>> \in Seq(TypedPaths) /\ Succeeds(<<q>>)
<1>1. ToSet(<<q>>) = {q}
  BY DEF ToSet
<1> QED
  BY <1>1 DEF Succeeds, Onward

\* MOVE.
LEMMA StepMove ==
    ASSUME TypeInv, DoMove
    PROVE  \E paths \in Seq(TypedPaths) : Become(paths) /\ Succeeds(paths)
<1> DEFINE q == StoreIn(Advanced(Now), Statement.to, Sym(Now.env, Statement.from))
<1>1. At({"move"}) /\ Become(<<q>>)
  BY DEF DoMove
<1> HIDE DEF q
<1>2. q \in TypedPaths /\ Onward(Now, q) /\ (Regular /\ Good(Now) => Good(q))
  BY <1>1, Moved DEF q
<1> QED
  BY <1>1, <1>2, One

\* A store the engine does not follow.
LEMMA StepWindow ==
    ASSUME TypeInv, DoWindow
    PROVE  \E paths \in Seq(TypedPaths) : Become(paths) /\ Succeeds(paths)
<1> DEFINE q == [Advanced(Now) EXCEPT !.env[Statement.to] = Opaque]
<1>1. At({"move-window"}) /\ Become(<<q>>)
  BY DEF DoWindow
<1> HIDE DEF q
<1>2. q \in TypedPaths /\ Onward(Now, q) /\ (Regular /\ Good(Now) => Good(q))
  BY <1>1, Windowed DEF q
<1> QED
  BY <1>1, <1>2, One

\* ACCEPT.
LEMMA StepAccept ==
    ASSUME TypeInv, DoAccept
    PROVE  \E paths \in Seq(TypedPaths) : Become(paths) /\ Succeeds(paths)
<1> DEFINE q == [Advanced(Now) EXCEPT !.env[Statement.to] = Slot(Position(Statement.to))]
<1>1. At({"accept"}) /\ Become(<<q>>)
  BY DEF DoAccept
<1> HIDE DEF q
<1>2. q \in TypedPaths /\ Onward(Now, q) /\ (Regular /\ Good(Now) => Good(q))
  BY <1>1, Accepted DEF q
<1> QED
  BY <1>1, <1>2, One

\* STOP RUN.
LEMMA StepStop ==
    ASSUME TypeInv, DoStop
    PROVE  \E paths \in Seq(TypedPaths) : Become(paths) /\ Succeeds(paths)
<1> DEFINE q == [Advanced(Now) EXCEPT !.ended = TRUE]
<1>1. At({"stop-run"}) /\ Become(<<q>>)
  BY DEF DoStop
<1> HIDE DEF q
<1>2. q \in TypedPaths /\ Onward(Now, q) /\ (Regular /\ Good(Now) => Good(q))
  BY <1>1, Stopped DEF q
<1> QED
  BY <1>1, <1>2, One

\* The loop starts with what the program has for its count.
LEMMA StepLoop ==
    ASSUME TypeInv, DoLoop
    PROVE  \E paths \in Seq(TypedPaths) : Become(paths) /\ Succeeds(paths)
<1> DEFINE p == Now
           s == Statement
           times == s.kind = "perform-times"
           sym == IF times THEN Sym(p.env, s.times) ELSE Opaque
           count == [c \in DOMAIN p.took |->
                       IF times THEN Value(p.took[c].store, s.times) ELSE 0]
           f == [kind |-> "unroll", loop |-> s, depth |-> 0, times |-> sym, count |-> count]
           q == Goes(p, <<f>>)
<1>1. At({"perform-until", "perform-times"}) /\ Become(<<q>>)
  BY DEF DoLoop
<1>2. /\ p \in TypedPaths /\ p.rest # <<>> /\ s \in Statements(Code) /\ program \in Programs
      /\ s.kind \in Loops /\ MaxValue \in Nat /\ s \in ToSet(p.rest) /\ s.kind # "unroll"
  BY <1>1, AtIs DEF Loops
<1>3. s \in Code
  <2>1. p.rest \in Seq(Code \cup Frames)
    BY <1>2, PathIs
  <2>2. s \in Code \cup Frames
    BY <1>2, <2>1 DEF ToSet
  <2> QED
    BY <1>2, <2>2 DEF Frames
<1>4. times => s.times \in Expressions
  BY <1>2, StatementIs
<1>5. sym \in Values
  BY <1>2, <1>4, SymIs, PathIs DEF Values
<1>6. /\ DOMAIN count = DOMAIN p.took
      /\ \A c \in DOMAIN p.took : count[c] \in Nat
      /\ \A c \in DOMAIN p.took : times => count[c] = Value(p.took[c].store, s.times)
  BY <1>2, <1>4, ValueIs, PathIs
<1>7. count \in UNION {[S -> Nat] : S \in SUBSET Cases}
  <2>1. DOMAIN p.took \in SUBSET Cases /\ count \in [DOMAIN p.took -> Nat]
    BY <1>2, <1>6, PathIs
  <2> QED
    BY <2>1
<1> HIDE DEF sym, count
<1>8. f \in Frames
  BY <1>2, <1>3, <1>5, <1>7 DEF Frames
<1>9. Fits(f, DOMAIN p.took)
  BY <1>6 DEF Fits
<1>10. \A c \in DOMAIN p.took : Knows(p, c) => Counted(f, c)
  <2> SUFFICES ASSUME NEW c \in DOMAIN p.took, Knows(p, c), times, sym # Opaque
               PROVE  sym[c] = count[c]
    BY DEF Counted
  <2>1. Agrees(p.env, p.took[c].store, c) /\ c \in Cases /\ p.took[c].store \in [Var -> Input]
    BY <1>2, PathIs DEF Knows
  <2>2. sym = Sym(p.env, s.times)
    BY DEF sym
  <2>3. sym[c] = Value(p.took[c].store, s.times)
    BY <1>2, <1>4, <2>1, <2>2, SymIs, PathIs
  <2> QED
    BY <1>6, <2>3
<1> HIDE DEF f, p
<1>11. <<f>> \in Seq(Code \cup Frames) /\ ToSet(<<f>>) = {f}
  BY <1>8 DEF ToSet
<1>12. q \in TypedPaths
  BY <1>2, <1>9, <1>11, GoesIs
<1>13. Onward(p, q) /\ (Good(p) => Good(q))
  BY <1>2, <1>10, <1>11, GoesOnward
<1> HIDE DEF q
<1> QED
  BY <1>1, <1>12, <1>13, One DEF p

-----------------------------------------------------------------------------
(***************************************************************************)
(* Statements that split                                                   *)
(***************************************************************************)
\* A good path narrowed is good, and a case it knows meets the constraints pushed.
LEMMA NarrowingIs ==
    ASSUME NEW p \in TypedPaths, NEW s, Narrowing(p, s)
    PROVE  /\ s.path \in TypedPaths /\ s.path.rest = p.rest /\ s.path.env = p.env
           /\ DOMAIN s.path.took \subseteq DOMAIN p.took
           /\ \A c \in DOMAIN s.path.took : s.path.took[c] = p.took[c]
           /\ \A c \in DOMAIN s.path.took : Knows(s.path, c) <=> Knows(p, c)
           /\ \A c \in DOMAIN s.path.took : Knows(p, c) => \A con \in s.pushed : c \in con.holds
           /\ Good(p) => Good(s.path)
<1>1. PICK S \in SUBSET DOMAIN p.took, u \in BOOLEAN :
        /\ s.pushed \subseteq Constraints
        /\ s.path = Narrow(p, S, s.pushed, u)
        /\ \A c \in S : Knows(p, c) => \A con \in s.pushed : c \in con.holds
        /\ ~u => \A c \in DOMAIN p.took :
                   Knows(p, c) /\ (\A con \in s.pushed : c \in con.holds) => c \in S
  BY DEF Narrowing
<1> DEFINE q == s.path
           C == s.pushed
<1>2. C \in SUBSET Constraints /\ q = Narrow(p, S, C, u)
  BY <1>1
<1> HIDE DEF q, C
<1>3. /\ q \in TypedPaths /\ q.env = p.env /\ q.reads = p.reads /\ q.eof = p.eof
      /\ q.rest = p.rest /\ q.cons = p.cons \cup C
  <2> DEFINE n == Narrow(p, S, C, u)
  <2>1. n \in TypedPaths /\ n.env = p.env /\ n.reads = p.reads
    BY <1>2, NarrowIs
  <2>3. n.eof = p.eof /\ n.rest = p.rest /\ n.cons = p.cons \cup C
    BY <1>2, NarrowIs
  <2>2. q = n
    BY <1>2
  <2> HIDE DEF n
  <2> QED
    BY <2>1, <2>2, <2>3
<1>4. DOMAIN q.took = S /\ \A c \in S : q.took[c] = p.took[c]
  BY <1>2, NarrowTook
<1>5. q.unknown <=> (p.unknown \/ u)
  <2> DEFINE o == Only(p, S)
  <2>1. o \in TypedPaths /\ o.unknown = p.unknown
    BY OnlyIs
  <2>2. q = [o EXCEPT !.cons = @ \cup C, !.unknown = @ \/ u]
    BY <1>2 DEF Narrow
  <2> HIDE DEF o
  <2>3. o \in PathStates
    BY <2>1, PathIs
  <2>4. q.unknown <=> (o.unknown \/ u)
    BY <2>2, <2>3 DEF PathStates
  <2> QED
    BY <2>1, <2>4
<1>6. \A c \in S : Knows(q, c) <=> Knows(p, c)
  BY <1>3, <1>4 DEF Knows
<1>7. \A c : Accepts(q, c) <=> Accepts(p, c) /\ \A con \in C : c \in con.holds
  BY <1>3 DEF Accepts
<1>8. ASSUME Good(p) PROVE Good(q)
  <2>1. \A c \in S : Accepts(p, c) => Knows(p, c)
    BY <1>8 DEF Good, Real
  <2>2. Sound(q)
    BY <1>1, <1>4, <1>7, <1>8, <2>1 DEF Good, Sound, C
  <2>3. Real(q)
    BY <1>4, <1>6, <1>7, <2>1 DEF Real
  <2>4. Witnessed(q)
    <3> SUFFICES ASSUME ~q.unknown, NEW c \in Cases, Accepts(q, c), Reaches(q, c)
                 PROVE  c \in DOMAIN q.took
      BY DEF Witnessed
    <3>1. Reaches(p, c)
      BY <1>3 DEF Reaches
    <3>2. c \in DOMAIN p.took /\ Accepts(p, c)
      BY <1>5, <1>7, <1>8, <3>1 DEF Good, Witnessed
    <3>3. Knows(p, c)
      BY <1>8, <3>2 DEF Good, Real
    <3> QED
      BY <1>1, <1>4, <1>5, <1>7, <3>2, <3>3 DEF C
  <2>5. Long(q)
    BY <1>3, <1>4, <1>8 DEF Good, Long
  <2> QED
    BY <2>2, <2>3, <2>4, <2>5 DEF Good
<1> QED
  BY <1>1, <1>3, <1>4, <1>6, <1>8 DEF q

\* The paths alone, without the constraints pushed.
PathsOf(splits) == {s.path : s \in splits}

\* Paths that p was split into go on with stmts: what has to be true of stmts, and
\* what is true of the paths.
Onto(p, Q, stmts) ==
    /\ stmts \in Seq(Code \cup Frames)
    /\ \A q \in Q : \A f \in ToSet(stmts) : Fits(f, DOMAIN q.took)
    /\ \A f \in ToSet(stmts) : \A c \in DOMAIN p.took : Knows(p, c) => Counted(f, c)
Gone(p, Q, stmts) ==
    /\ SetToSeq({Goes(q, stmts) : q \in Q}) \in Seq(TypedPaths)
    /\ ToSet(SetToSeq({Goes(q, stmts) : q \in Q})) = {Goes(q, stmts) : q \in Q}
    /\ \A q \in Q : DOMAIN Goes(q, stmts).took = DOMAIN q.took
    /\ Good(p) => \A q \in Q : Good(Goes(q, stmts))

\* The paths that p was split into are good when they go on with such statements.
LEMMA SplitsGo ==
    ASSUME program \in Programs, NEW p \in TypedPaths, p.rest # <<>>,
           NEW splits, NEW D, SplitsInto(p, splits, D), NEW Q, Q \subseteq PathsOf(splits),
           NEW stmts, Onto(p, Q, stmts)
    PROVE  Gone(p, Q, stmts)
<1> USE DEF Onto
<1>1. \A q \in Q : \E s \in splits : q = s.path /\ Narrowing(p, s)
  BY DEF PathsOf, SplitsInto
<1>2. IsFiniteSet(Q)
  <2> DEFINE f == [s \in splits |-> s.path]
  <2>1. DOMAIN f = splits /\ PathsOf(splits) = {f[s] : s \in splits}
    BY DEF PathsOf
  <2> HIDE DEF f
  <2>2. IsFiniteSet(PathsOf(splits))
    BY <2>1, ImageIsFinite DEF SplitsInto
  <2> QED
    BY <2>2, FS_Subset
<1>3. ASSUME NEW q \in Q
      PROVE  /\ q \in TypedPaths /\ q.rest # <<>> /\ Onward(q, Goes(q, stmts))
             /\ Good(p) => Good(Goes(q, stmts))
  <2>1. PICK s \in splits : q = s.path /\ Narrowing(p, s)
    BY <1>1
  <2>2. /\ q \in TypedPaths /\ q.rest = p.rest /\ DOMAIN q.took \subseteq DOMAIN p.took
        /\ \A c \in DOMAIN q.took : Knows(q, c) <=> Knows(p, c)
        /\ Good(p) => Good(q)
    BY <2>1, NarrowingIs
  <2>3. \A f \in ToSet(stmts) : \A c \in DOMAIN q.took : Knows(q, c) => Counted(f, c)
    BY <2>2
  <2>4. q.rest # <<>>
    BY <2>2
  <2> QED
    BY <2>2, <2>3, <2>4, GoesOnward
<1>4. \A q \in Q : q.rest # <<>> /\ \A f \in ToSet(stmts) : Fits(f, DOMAIN q.took)
  BY <1>3
<1>5. Q \subseteq TypedPaths
  BY <1>3
<1>6. /\ SetToSeq({Goes(q, stmts) : q \in Q}) \in Seq(TypedPaths)
      /\ ToSet(SetToSeq({Goes(q, stmts) : q \in Q})) = {Goes(q, stmts) : q \in Q}
  BY <1>2, <1>4, <1>5, GoesAll
<1> QED
  BY <1>3, <1>6 DEF Onward, Gone

\* Both branches of an IF.
LEMMA StepIf ==
    ASSUME TypeInv, DoIf
    PROVE  \E paths \in Seq(TypedPaths) : Become(paths) /\ Succeeds(paths)
<1> DEFINE p == Now
           s == Statement
           yes == Split(p, s.cond, TRUE)
           no == Split(p, s.cond, FALSE)
           D(truth) == {c \in DOMAIN p.took : True(s.cond, p.took[c].store) = truth}
           Y == {Goes(q, s.then) : q \in PathsOf(yes)}
           N == {Goes(q, s.else) : q \in PathsOf(no)}
           paths == SetToSeq(Y) \o SetToSeq(N)
<1>1. /\ p \in TypedPaths /\ p.rest # <<>> /\ s \in Statements(Code) /\ program \in Programs
      /\ s.kind = "if" /\ MaxValue \in Nat
  <2>1. At({"if"})
    BY DEF DoIf
  <2> QED
    BY <2>1, AtIs
<1>2. s.cond \in Conditions /\ s.then \in Seq(Code) /\ s.else \in Seq(Code)
  BY <1>1, StatementIs
<1>3. Become(paths)
  <2>1. /\ {Goes(a.path, s.then) : a \in yes} = Y
        /\ {Goes(a.path, s.else) : a \in no} = N
    BY DEF PathsOf
  <2>2. Become(SetToSeq({Goes(a.path, s.then) : a \in yes})
               \o SetToSeq({Goes(a.path, s.else) : a \in no}))
    BY DEF DoIf
  <2> QED
    BY <2>1, <2>2
<1>4. SplitsInto(p, yes, D(TRUE)) /\ SplitsInto(p, no, D(FALSE))
  BY <1>1, <1>2, SplitIs
<1>5. \A c \in DOMAIN p.took : c \in D(TRUE) \/ c \in D(FALSE)
  BY DEF True, Holds
<1> HIDE DEF p, s, yes, no, D
<1>6. /\ SetToSeq(Y) \in Seq(TypedPaths) /\ ToSet(SetToSeq(Y)) = Y
      /\ \A q \in PathsOf(yes) : DOMAIN Goes(q, s.then).took = DOMAIN q.took
      /\ Good(p) => \A q \in PathsOf(yes) : Good(Goes(q, s.then))
  <2>1. Onto(p, PathsOf(yes), s.then)
    BY <1>1, <1>2, CodeIs DEF Onto
  <2>2. Gone(p, PathsOf(yes), s.then)
    BY <1>1, <1>4, <2>1, SplitsGo
  <2> QED
    BY <2>2 DEF Gone
<1>7. /\ SetToSeq(N) \in Seq(TypedPaths) /\ ToSet(SetToSeq(N)) = N
      /\ \A q \in PathsOf(no) : DOMAIN Goes(q, s.else).took = DOMAIN q.took
      /\ Good(p) => \A q \in PathsOf(no) : Good(Goes(q, s.else))
  <2>1. Onto(p, PathsOf(no), s.else)
    BY <1>1, <1>2, CodeIs DEF Onto
  <2>2. Gone(p, PathsOf(no), s.else)
    BY <1>1, <1>4, <2>1, SplitsGo
  <2> QED
    BY <2>2 DEF Gone
<1>8. paths \in Seq(TypedPaths) /\ ToSet(paths) = Y \cup N
  <2> HIDE DEF Y, N
  <2> QED
    BY <1>6, <1>7, ConcatToSet
<1>9. ASSUME NEW c \in DOMAIN p.took PROVE \E q \in Y \cup N : c \in DOMAIN q.took
  <2>1. CASE c \in D(TRUE)
    <3>1. PICK a \in yes : c \in DOMAIN a.path.took
      BY <1>4, <2>1 DEF SplitsInto
    <3>2. a.path \in PathsOf(yes)
      BY DEF PathsOf
    <3> QED
      BY <1>6, <3>1, <3>2
  <2>2. CASE c \in D(FALSE)
    <3>1. PICK a \in no : c \in DOMAIN a.path.took
      BY <1>4, <2>2 DEF SplitsInto
    <3>2. a.path \in PathsOf(no)
      BY DEF PathsOf
    <3> QED
      BY <1>7, <3>1, <3>2
  <2> QED
    BY <1>5, <2>1, <2>2
<1>10. Succeeds(paths)
  <2> HIDE DEF paths
  <2>1. Good(p) => \A q \in Y \cup N : Good(q)
    BY <1>6, <1>7
  <2> HIDE DEF Y, N
  <2> QED
    BY <1>8, <1>9, <2>1 DEF Succeeds, p
<1> QED
  BY <1>3, <1>8, <1>10

-----------------------------------------------------------------------------
(***************************************************************************)
(* The test of a loop                                                      *)
(***************************************************************************)
\* A case that has lost no digits is not on a path that is pruned.
LEMMA LiveHas ==
    ASSUME NEW p \in TypedPaths, NEW splits, NEW D, SplitsInto(p, splits, D), Good(p),
           NEW c \in D, D \subseteq DOMAIN p.took, ~p.took[c].wrapped
    PROVE  \E q \in Live(splits) : c \in DOMAIN q.took
<1>1. PICK s \in splits : c \in DOMAIN s.path.took /\ Narrowing(p, s)
  BY DEF SplitsInto
<1>2. Knows(p, c)
  BY DEF Good, Sound, Real
<1>3. \A con \in s.pushed : c \in con.holds
  BY <1>1, <1>2, NarrowingIs
<1>4. \A con \in s.pushed : ~Contradiction(con)
  BY <1>3 DEF Contradiction
<1>5. s.path \in Live(splits)
  BY <1>4 DEF Live
<1> QED
  BY <1>1, <1>5

\* Pruning adds no path.
LEMMA LiveIs ==
    ASSUME NEW splits
    PROVE  Live(splits) \subseteq PathsOf(splits)
  BY DEF Live, PathsOf

\* The paths that leave the loop.
LEMMA ExitsAre ==
    ASSUME TypeInv, At({"unroll"})
    PROVE  /\ SetToSeq(Exits) \in Seq(TypedPaths) /\ ToSet(SetToSeq(Exits)) = Exits
           /\ Good(Now) => \A q \in Exits : Good(q)
           /\ Good(Now) => \A c \in DOMAIN Now.took :
                ~Now.took[c].wrapped /\ ~GoesOn(Now, Statement, c)
                  => \E q \in Exits : c \in DOMAIN q.took
<1> DEFINE p == Now
           f == Statement
           splits == LoopSplit(p, f, TRUE)
           D == {c \in DOMAIN p.took : GoesOn(p, f, c) = ~TRUE}
           Q == Live(splits)
           stmts == <<>>
<1>1. /\ p \in TypedPaths /\ p.rest # <<>> /\ program \in Programs /\ f \in Frames
      /\ f \in ToSet(p.rest)
  BY AtIs
<1>2. SplitsInto(p, splits, D)
  BY <1>1, LoopSplitIs
<1>3. Exits = {Goes(q, stmts) : q \in Q}
  BY DEF Exits
<1>4. \A c \in DOMAIN p.took : ~GoesOn(p, f, c) => c \in D
  BY DEF GoesOn
<1>5. D \subseteq DOMAIN p.took /\ Q \subseteq PathsOf(splits)
  BY LiveIs
<1>6. Onto(p, Q, stmts)
  BY <1>1 DEF Onto, ToSet
<1> HIDE DEF p, f, splits, D, stmts
<1>7. Good(p) => \A c \in D : ~p.took[c].wrapped => \E q \in Q : c \in DOMAIN q.took
  BY <1>1, <1>2, <1>5, LiveHas
<1> HIDE DEF Q
<1>8. Gone(p, Q, stmts)
  BY <1>1, <1>2, <1>5, <1>6, SplitsGo
<1>9. SetToSeq(Exits) \in Seq(TypedPaths) /\ ToSet(SetToSeq(Exits)) = Exits
  BY <1>3, <1>8 DEF Gone
<1>10. ASSUME Good(p) PROVE \A q \in Exits : Good(q)
  BY <1>3, <1>8, <1>10 DEF Gone
<1>11. ASSUME Good(p), NEW c \in DOMAIN p.took, ~p.took[c].wrapped, ~GoesOn(p, f, c)
       PROVE  \E q \in Exits : c \in DOMAIN q.took
  <2>1. PICK q \in Q : c \in DOMAIN q.took
    BY <1>4, <1>7, <1>11
  <2>2. DOMAIN Goes(q, stmts).took = DOMAIN q.took /\ Goes(q, stmts) \in Exits
    BY <1>3, <1>8 DEF Gone
  <2> QED
    BY <2>1, <2>2
<1> QED
  BY <1>9, <1>10, <1>11 DEF p, f

\* Another round.
LEMMA RoundsAre ==
    ASSUME TypeInv, At({"unroll"}),
           NEW R, R = {Round(q) : q \in Live(LoopSplit(Now, Statement, FALSE))}
    PROVE  /\ SetToSeq(R) \in Seq(TypedPaths) /\ ToSet(SetToSeq(R)) = R
           /\ Good(Now) => \A q \in R : Good(q)
           /\ Good(Now) => \A c \in DOMAIN Now.took :
                ~Now.took[c].wrapped /\ GoesOn(Now, Statement, c)
                  => \E q \in R : c \in DOMAIN q.took
<1> DEFINE p == Now
           f == Statement
           splits == LoopSplit(p, f, FALSE)
           D == {c \in DOMAIN p.took : GoesOn(p, f, c) = ~FALSE}
           Q == Live(splits)
           g == [f EXCEPT !.depth = @ + 1]
           stmts == Append(f.loop.body, g)
<1>1. /\ p \in TypedPaths /\ p.rest # <<>> /\ program \in Programs /\ f \in Frames
      /\ f \in ToSet(p.rest)
  BY AtIs
<1>2. SplitsInto(p, splits, D)
  BY <1>1, LoopSplitIs
<1>3. R = {Goes(q, stmts) : q \in Q}
  BY DEF Round
<1>4. \A c \in DOMAIN p.took : GoesOn(p, f, c) <=> c \in D
  BY DEF GoesOn
<1>5. D \subseteq DOMAIN p.took /\ Q \subseteq PathsOf(splits)
  BY LiveIs
<1>6. f.loop \in Code /\ f.loop.kind \in Loops /\ f.depth \in Nat /\ f.kind = "unroll"
  BY <1>1 DEF Frames
<1>7. f.loop.body \in Seq(Code)
  BY <1>1, <1>6, ProgramIs, StatementIs
<1>8. /\ g \in Frames /\ g.kind = "unroll" /\ g.loop = f.loop /\ g.depth = f.depth + 1
      /\ g.times = f.times /\ g.count = f.count
  BY <1>1 DEF Frames
<1>9. stmts \in Seq(Code \cup Frames) /\ \A x \in ToSet(stmts) : x \in ToSet(f.loop.body) \/ x = g
  <2> HIDE DEF g
  <2> QED
    BY <1>7, <1>8 DEF ToSet
<1>10. ASSUME NEW q \in Q PROVE Fits(g, DOMAIN q.took)
  <2>1. DOMAIN q.took \subseteq D
    BY <1>2, <1>5 DEF SplitsInto, PathsOf
  <2>2. Fits(f, DOMAIN p.took)
    BY <1>1, PathIs
  <2>3. /\ DOMAIN p.took \subseteq DOMAIN f.count
        /\ f.loop.kind = "perform-times" => \A c \in DOMAIN p.took : f.depth <= f.count[c]
    BY <1>6, <2>2 DEF Fits
  <2>4. \A c \in DOMAIN f.count : f.count[c] \in Nat
    BY <1>1 DEF Frames
  <2>5. f.loop.kind = "perform-times" => \A c \in D : f.count[c] > f.depth
    BY <1>4 DEF GoesOn
  <2>6. f.loop.kind = "perform-times" => \A c \in D : f.depth + 1 <= f.count[c]
    BY <1>5, <1>6, <2>3, <2>4, <2>5
  <2> HIDE DEF g, D
  <2> QED
    BY <1>5, <1>8, <2>1, <2>3, <2>6 DEF Fits
<1>11. \A c \in DOMAIN p.took : Knows(p, c) => Counted(g, c)
  <2>1. \A c \in DOMAIN p.took : Knows(p, c) => Counted(f, c)
    BY <1>1 DEF Knows
  <2> HIDE DEF g
  <2> QED
    BY <1>6, <1>8, <2>1 DEF Counted
<1> HIDE DEF p, f, splits, D, stmts, g
<1>12. Onto(p, Q, stmts)
  <2>1. \A x \in ToSet(f.loop.body) : (\A S : Fits(x, S)) /\ (\A c : Counted(x, c))
    BY <1>1, <1>7, CodeIs
  <2> QED
    BY <1>9, <1>10, <1>11, <2>1 DEF Onto
<1>13. Good(p) => \A c \in D : ~p.took[c].wrapped => \E q \in Q : c \in DOMAIN q.took
  BY <1>1, <1>2, <1>5, LiveHas
<1> HIDE DEF Q
<1>14. Gone(p, Q, stmts)
  BY <1>1, <1>2, <1>5, <1>12, SplitsGo
<1>15. SetToSeq(R) \in Seq(TypedPaths) /\ ToSet(SetToSeq(R)) = R
  BY <1>3, <1>14 DEF Gone
<1>16. ASSUME Good(p) PROVE \A q \in R : Good(q)
  BY <1>3, <1>14, <1>16 DEF Gone
<1>17. ASSUME Good(p), NEW c \in DOMAIN p.took, ~p.took[c].wrapped, GoesOn(p, f, c)
       PROVE  \E q \in R : c \in DOMAIN q.took
  <2>1. PICK q \in Q : c \in DOMAIN q.took
    BY <1>4, <1>13, <1>17
  <2>2. DOMAIN Goes(q, stmts).took = DOMAIN q.took /\ Goes(q, stmts) \in R
    BY <1>3, <1>14 DEF Gone
  <2> QED
    BY <2>1, <2>2
<1> QED
  BY <1>15, <1>16, <1>17 DEF p, f

\* A round of a loop: the cases leave it or go on, and no path with a case that has lost
\* no digits is pruned.
LEMMA StepUnroll ==
    ASSUME TypeInv, DoUnroll
    PROVE  \E paths \in Seq(TypedPaths) : Become(paths) /\ Succeeds(paths)
<1> DEFINE R == {Round(q) : q \in Live(LoopSplit(Now, Statement, FALSE))}
           paths == SetToSeq(Exits) \o SetToSeq(R)
<1>1. At({"unroll"}) /\ Become(paths) /\ Overflowing
  BY DEF DoUnroll
<1> HIDE DEF R
<1>2. /\ SetToSeq(Exits) \in Seq(TypedPaths) /\ ToSet(SetToSeq(Exits)) = Exits
      /\ SetToSeq(R) \in Seq(TypedPaths) /\ ToSet(SetToSeq(R)) = R
  BY <1>1, ExitsAre, RoundsAre DEF R
<1>3. paths \in Seq(TypedPaths) /\ ToSet(paths) = Exits \cup R
  BY <1>2, ConcatToSet
<1> HIDE DEF paths
<1>4. ASSUME Good(Now) PROVE \A q \in ToSet(paths) : Good(q)
  BY <1>1, <1>3, <1>4, ExitsAre, RoundsAre DEF R
<1>5. ASSUME Good(Now), NEW c \in DOMAIN Now.took
      PROVE  c \in overflown' \/ \E q \in ToSet(paths) : c \in DOMAIN q.took
  <2>1. Now.took[c].wrapped => c \in overflown'
    BY <1>1 DEF Overflowing
  <2>2. ~Now.took[c].wrapped /\ ~GoesOn(Now, Statement, c) => \E q \in Exits : c \in DOMAIN q.took
    BY <1>1, <1>5, ExitsAre
  <2>3. ~Now.took[c].wrapped /\ GoesOn(Now, Statement, c) => \E q \in R : c \in DOMAIN q.took
    BY <1>1, <1>5, RoundsAre DEF R
  <2> QED
    BY <1>3, <2>1, <2>2, <2>3
<1>6. Succeeds(paths)
  BY <1>4, <1>5 DEF Succeeds
<1> QED
  BY <1>1, <1>3, <1>6

-----------------------------------------------------------------------------
(***************************************************************************)
(* A loop given up on                                                      *)
(***************************************************************************)
\* L with the rounds left of each of its PERFORM TIMES.
Unrolled(L) == L \cup {Times(Lit(k), s.body) : k \in Nat, s \in {u \in L : u.kind = "perform-times"}}

\* More statements, more statements made of them.
LEMMA StatementsGrow ==
    ASSUME NEW L, NEW M, L \subseteq M
    PROVE  Statements(L) \subseteq Statements(M)
<1>1. Seq(L) \subseteq Seq(M)
  OBVIOUS
<1> QED
  BY <1>1 DEF Statements

\* The rounds left of the loops add nothing to what the statements can change.
LEMMA UnrolledIs ==
    ASSUME NEW L, L \subseteq Statements(L)
    PROVE  /\ Closed(Unrolled(L)) /\ L \subseteq Unrolled(L)
           /\ Changed(Unrolled(L)) = Changed(L)
           /\ \A s \in L : s.kind = "perform-times" =>
                \A k \in Nat : Times(Lit(k), s.body) \in Unrolled(L)
<1> DEFINE M == Unrolled(L)
           Left == {Times(Lit(k), s.body) : k \in Nat, s \in {u \in L : u.kind = "perform-times"}}
<1>1. M = L \cup Left
  BY DEF Unrolled
<1>2. \A s \in L : s.kind = "perform-times" => \A k \in Nat : Times(Lit(k), s.body) \in Left
  OBVIOUS
<1>3. ASSUME NEW t \in Left
      PROVE  /\ t.kind = "perform-times" /\ t \in Statements(L)
             /\ \A k \in Nat : Times(Lit(k), t.body) \in Left
  <2>1. PICK k \in Nat, s \in L : s.kind = "perform-times" /\ t = Times(Lit(k), s.body)
    OBVIOUS
  <2>2. s.body \in Seq(L) /\ Lit(k) \in Expressions
    <3>1. s \in Statements(L)
      OBVIOUS
    <3>2. s.body \in Seq(L)
      BY <2>1, <3>1, StatementIs DEF Loops
    <3> QED
      BY <3>2 DEF Lit, Expressions
  <2>3. t.kind = "perform-times" /\ t.body = s.body
    BY <2>1 DEF Times
  <2>4. t \in Statements(L)
    BY <2>1, <2>2 DEF Times, Statements
  <2> QED
    BY <1>2, <2>1, <2>3, <2>4
<1> HIDE DEF M, Left
<1>4. Statements(L) \subseteq Statements(M)
  BY <1>1, StatementsGrow
<1>5. M \subseteq Statements(M)
  BY <1>1, <1>3, <1>4
<1>6. \A s \in M : s.kind = "perform-times" => \A k \in Nat : Times(Lit(k), s.body) \in M
  BY <1>1, <1>2, <1>3
<1>7. Closed(M)
  BY <1>5, <1>6 DEF Closed
<1>8. {s \in M : s.kind \in Stores} = {s \in L : s.kind \in Stores}
  BY <1>1, <1>3 DEF Stores
<1>9. Changed(M) = Changed(L)
  BY <1>8 DEF Changed
<1> QED
  BY <1>1, <1>2, <1>7, <1>9 DEF M

\* The rounds the unroller does not follow change what the loop can change.
LEMMA LastRoundsAre ==
    ASSUME program \in Programs, NEW p \in TypedPaths, NEW f \in Frames, f \in ToSet(p.rest)
    PROVE  /\ DOMAIN LastRounds(p, f) = {c \in DOMAIN p.took : GoesOn(p, f, c)}
           /\ \A c \in DOMAIN LastRounds(p, f) :
                Follows(LastRounds(p, f)[c], p.took[c], Changed(Within(<<f.loop>>)))
<1> DEFINE L == Within(<<f.loop>>)
           M == Unrolled(L)
           left(c) == IF f.loop.kind = "perform-until" THEN <<f.loop>>
                      ELSE <<Times(Lit(f.count[c] - f.depth), f.loop.body)>>
           D == {c \in DOMAIN p.took : GoesOn(p, f, c)}
<1>1. /\ LastRounds(p, f) = [c \in D |-> Run(c, p.took[c], left(c))]
  BY DEF LastRounds
<1>2. /\ f.loop \in Code /\ f.loop.kind \in Loops /\ f.depth \in Nat /\ f.kind = "unroll"
      /\ MaxValue \in Nat /\ Fuel \in Nat
  BY ProgramIs DEF Frames
<1>3. f.loop \in L /\ L \subseteq Statements(L)
  BY <1>2, ProgramIs
<1>4. /\ Closed(M) /\ L \subseteq M /\ Changed(M) = Changed(L)
      /\ f.loop.kind = "perform-times" =>
           \A k \in Nat : Times(Lit(k), f.loop.body) \in M
  <2> HIDE DEF L
  <2> QED
    BY <1>3, UnrolledIs
<1>5. ASSUME NEW c \in D PROVE left(c) \in Seq(M)
  <2>1. CASE f.loop.kind = "perform-until"
    BY <1>3, <1>4, <2>1
  <2>2. CASE f.loop.kind = "perform-times"
    <3>1. f.count[c] \in Nat /\ f.count[c] > f.depth
      <4>1. Fits(f, DOMAIN p.took)
        BY PathIs
      <4> QED
        BY <1>2, <2>2, <4>1 DEF Fits, GoesOn, Frames
    <3>2. f.count[c] - f.depth \in Nat
      BY <1>2, <3>1
    <3>3. Times(Lit(f.count[c] - f.depth), f.loop.body) \in M
      BY <1>4, <2>2, <3>2
    <3> HIDE DEF M
    <3> QED
      BY <2>2, <3>3
  <2> QED
    BY <1>2, <2>1, <2>2 DEF Loops
<1>6. ASSUME NEW c \in D PROVE Follows(Run(c, p.took[c], left(c)), p.took[c], Changed(L))
  <2>1. c \in Seq(Input) /\ p.took[c] \in RunStates
    BY CaseIs, PathIs
  <2> HIDE DEF M, L, left
  <2> QED
    BY <1>2, <1>4, <1>5, <2>1, RunIs
<1> HIDE DEF L, M, left
<1>7. /\ DOMAIN LastRounds(p, f) = D
      /\ \A c \in D : LastRounds(p, f)[c] = Run(c, p.took[c], left(c))
  BY <1>1
<1> QED
  BY <1>6, <1>7 DEF L

\* The path that stands for the rest of the cases.
LEMMA TruncIs ==
    ASSUME TypeInv, At({"unroll"}), Statement.depth >= MaxUnroll,
           NEW last, last = LastRounds(Now, Statement),
           NEW S, S \subseteq DOMAIN last,
           NEW q, q = Goes(Only([Poisoned(Now, Statement) EXCEPT !.took = last], S), <<>>)
    PROVE  /\ q \in TypedPaths /\ DOMAIN q.took = S
           /\ Regular /\ Good(Now) => Good(q)
<1> DEFINE p == Now
           f == Statement
           W == Writes(<<f.loop>>)
           C == Changed(Within(<<f.loop>>))
           env == [v \in Var |-> IF v \in W THEN Opaque ELSE p.env[v]]
           took == [c \in S |-> last[c]]
           rest == <<>> \o Tail(p.rest)
           t == [p EXCEPT !.env = env, !.unknown = TRUE, !.took = took, !.rest = rest]
<1>1. /\ p \in TypedPaths /\ program \in Programs /\ f \in Frames /\ f \in ToSet(p.rest)
      /\ Tail(p.rest) \in Seq(Code \cup Frames) /\ ToSet(Tail(p.rest)) \subseteq ToSet(p.rest)
  BY AtIs
<1>2. /\ DOMAIN last \subseteq DOMAIN p.took
      /\ \A c \in S : Follows(last[c], p.took[c], C)
  BY <1>1, LastRoundsAre
<1>3. took \in Tooks /\ DOMAIN took = S /\ \A c \in S : took[c] = last[c]
  <2>1. S \in SUBSET Cases
    BY <1>1, <1>2, PathIs
  <2>2. took \in [S -> RunStates]
    BY <1>2 DEF Follows
  <2> QED
    BY <2>1, <2>2, TooksHas
<1>4. env \in [Var -> Values] /\ \A v \in Var : env[v] # Opaque => v \notin W /\ env[v] = p.env[v]
  BY <1>1, PathIs DEF Values
<1>5. rest \in Seq(Code \cup Frames) /\ rest = Tail(p.rest)
  BY <1>1
<1>6. q = t
  <2>1. p \in PathStates
    BY <1>1, PathIs
  <2>2. Poisoned(p, f) = [p EXCEPT !.env = env, !.unknown = TRUE]
    BY <2>1 DEF Poisoned, PathStates
  <2> DEFINE m == [p EXCEPT !.env = env, !.unknown = TRUE, !.took = last]
  <2>3. [Poisoned(p, f) EXCEPT !.took = last] = m
    BY <2>1, <2>2 DEF PathStates
  <2>4. Only(m, S) = [p EXCEPT !.env = env, !.unknown = TRUE, !.took = took]
    <3>1. DOMAIN last \cap S = S
      OBVIOUS
    <3>2. m.took = last
      BY <2>1 DEF PathStates
    <3>3. Only(m, S) = [m EXCEPT !.took = [c \in DOMAIN last \cap S |-> last[c]]]
      BY <3>2 DEF Only
    <3> HIDE DEF env
    <3> QED
      BY <2>1, <3>1, <3>3 DEF PathStates
  <2> HIDE DEF env, took, m
  <2>5. Goes(Only(m, S), <<>>) = t
    BY <2>1, <2>4 DEF Goes, PathStates
  <2> QED
    BY <2>3, <2>5
<1> HIDE DEF p, f, W, C, env, took, rest
<1>7. /\ t \in PathStates /\ t.env = env /\ t.cons = p.cons /\ t.reads = p.reads
      /\ t.rest = rest /\ t.took = took /\ t.unknown
  <2>1. p \in PathStates
    BY <1>1, PathIs
  <2> QED
    BY <1>3, <1>4, <1>5, <2>1 DEF PathStates
<1> HIDE DEF t
<1>8. t \in TypedPaths
  <2>1. \A g \in ToSet(t.rest) : Fits(g, DOMAIN p.took)
    BY <1>1, <1>5, <1>7, PathIs
  <2>2. DOMAIN t.took \subseteq DOMAIN p.took
    BY <1>2, <1>3, <1>7
  <2> QED
    BY <1>7, <2>1, <2>2, FitsLess, IsPath
<1>9. ASSUME Regular, Good(p) PROVE Good(t)
  <2>1. \A w \in C \ W : p.env[w] = Opaque
    <3>1. At({"unroll"}) /\ Statement.depth >= MaxUnroll =>
            \A w \in Changed(Within(<<Statement.loop>>)) \ Writes(<<Statement.loop>>) :
               Now.env[w] = Opaque
      BY <1>9 DEF Regular
    <3> QED
      BY <3>1 DEF C, W, p, f
  <2>2. Sound(t)
    BY <1>2, <1>3, <1>7, <1>9 DEF Good, Sound, Accepts, Follows
  <2>3. Real(t)
    <3> SUFFICES ASSUME NEW c \in S, Accepts(t, c) PROVE Knows(t, c)
      BY <1>3, <1>7 DEF Real
    <3>1. Accepts(p, c) /\ c \in DOMAIN p.took
      BY <1>2, <1>7 DEF Accepts
    <3>2. Knows(p, c)
      BY <1>9, <3>1 DEF Good, Real
    <3>3. \A v \in Var : env[v] # Opaque => env[v][c] = took[c].store[v]
      <4> SUFFICES ASSUME NEW v \in Var, env[v] # Opaque PROVE env[v][c] = took[c].store[v]
        OBVIOUS
      <4>1. v \notin W /\ env[v] = p.env[v] /\ p.env[v] # Opaque
        BY <1>4
      <4>2. v \notin C
        BY <2>1, <4>1
      <4>3. took[c].store[v] = p.took[c].store[v]
        BY <1>2, <1>3, <4>2 DEF Follows
      <4> QED
        BY <3>2, <4>1, <4>3 DEF Knows, Agrees
    <3> QED
      BY <1>1, <1>5, <1>7, <3>2, <3>3 DEF Knows, Agrees
  <2>4. Witnessed(t)
    BY <1>7 DEF Witnessed
  <2>5. Long(t)
    BY <1>2, <1>3, <1>7, <1>9 DEF Good, Long
  <2> QED
    BY <2>2, <2>3, <2>4, <2>5 DEF Good
<1> QED
  BY <1>3, <1>6, <1>7, <1>8, <1>9 DEF p

\* A loop given up on: its cases have left it, or are on the path that stands for the
\* rest, or ended the program in there and are disclosed.
LEMMA StepGiveUp ==
    ASSUME TypeInv, DoGiveUp
    PROVE  \E paths \in Seq(TypedPaths) : Become(paths) /\ Succeeds(paths)
<1> DEFINE last == LastRounds(Now, Statement)
           gone == {c \in DOMAIN last : last[c].ended}
           S == DOMAIN last \ gone
           q == Goes(Only([Poisoned(Now, Statement) EXCEPT !.took = last], S), <<>>)
           paths == Append(SetToSeq(Exits), q)
<1>1. /\ At({"unroll"}) /\ Statement.depth >= MaxUnroll /\ Become(paths) /\ Overflowing
      /\ beyond' = beyond \cup gone
  BY DEF DoGiveUp
<1>2. q \in TypedPaths /\ DOMAIN q.took = S /\ (Regular /\ Good(Now) => Good(q))
  BY <1>1, TruncIs
<1>3. DOMAIN last = {c \in DOMAIN Now.took : GoesOn(Now, Statement, c)}
  <2>1. /\ program \in Programs /\ Now \in TypedPaths /\ Statement \in Frames
        /\ Statement \in ToSet(Now.rest)
    BY <1>1, AtIs
  <2> QED
    BY <2>1, LastRoundsAre
<1>4. SetToSeq(Exits) \in Seq(TypedPaths) /\ ToSet(SetToSeq(Exits)) = Exits
  BY <1>1, ExitsAre
<1> HIDE DEF q
<1>5. paths \in Seq(TypedPaths) /\ ToSet(paths) = Exits \cup {q}
  <2> DEFINE first == SetToSeq(Exits)
             second == <<q>>
  <2>1. /\ first \in Seq(TypedPaths) /\ ToSet(first) = Exits /\ paths = first \o second
        /\ second \in Seq(TypedPaths) /\ ToSet(second) = {q}
    BY <1>2, <1>4 DEF ToSet
  <2> HIDE DEF first, second
  <2> QED
    BY <2>1, ConcatToSet
<1> HIDE DEF paths, S, last
<1>6. ASSUME Regular, Good(Now) PROVE \A r \in ToSet(paths) : Good(r)
  BY <1>1, <1>2, <1>5, <1>6, ExitsAre
<1>7. ASSUME Good(Now), NEW c \in DOMAIN Now.took
      PROVE  c \in beyond' \cup overflown' \/ \E r \in ToSet(paths) : c \in DOMAIN r.took
  <2>1. Now.took[c].wrapped => c \in overflown'
    BY <1>1 DEF Overflowing
  <2>2. ~Now.took[c].wrapped /\ ~GoesOn(Now, Statement, c) => \E r \in Exits : c \in DOMAIN r.took
    BY <1>1, <1>7, ExitsAre
  <2>3. GoesOn(Now, Statement, c) => c \in gone \/ c \in DOMAIN q.took
    BY <1>2, <1>3 DEF S
  <2> QED
    BY <1>1, <1>5, <2>1, <2>2, <2>3
<1>8. Succeeds(paths)
  BY <1>6, <1>7 DEF Succeeds
<1> QED
  BY <1>1, <1>5, <1>8

-----------------------------------------------------------------------------
(***************************************************************************)
(* READ                                                                    *)
(***************************************************************************)
\* The path with another record is good: it has the cases that are long enough.
LEMMA HasRecordIs ==
    ASSUME TypeInv, At({"read"}), Now.reads < MaxRecords, ~Now.eof,
           NEW q, q = HasRecord(Now)
    PROVE  /\ q \in TypedPaths
           /\ DOMAIN q.took = {c \in DOMAIN Now.took : Len(c) > Now.reads}
           /\ Regular /\ Good(Now) => Good(q)
<1> DEFINE p == Now
           s == Statement
           v == s.to
           S == {c \in Cases : Len(c) > p.reads}
           o == Only(p, S)
           g == Goes(o, s.notAtEnd)
           x == Slot(p.reads + 1)
           env == [g.env EXCEPT ![v] = x]
           took == [c \in DOMAIN g.took |-> Take(c, g.took[c], v)]
           reads == p.reads + 1
<1>1. /\ p \in TypedPaths /\ p.rest # <<>> /\ s \in Statements(Code) /\ program \in Programs
      /\ s.kind = "read" /\ MaxValue \in Nat /\ MaxRecords \in Nat /\ At(Stores)
  BY AtIs DEF At, Stores
<1>2. v \in Var /\ s.notAtEnd \in Seq(Code)
  BY <1>1, StatementIs DEF Stores
<1>3. /\ o \in TypedPaths /\ o.env = p.env /\ o.cons = p.cons
      /\ o.unknown = p.unknown /\ o.reads = p.reads /\ o.eof = p.eof /\ o.rest = p.rest
  <2>1. o \in TypedPaths /\ o.env = p.env /\ o.cons = p.cons /\ o.unknown = p.unknown
    BY <1>1, OnlyIs
  <2>2. o.reads = p.reads /\ o.eof = p.eof /\ o.rest = p.rest
    BY <1>1, OnlyIs
  <2> QED
    BY <2>1, <2>2
<1>4. /\ DOMAIN o.took = {c \in DOMAIN p.took : Len(c) > p.reads}
      /\ \A c \in DOMAIN o.took : o.took[c] = p.took[c]
  <2>1. DOMAIN o.took = DOMAIN p.took \cap S /\ \A c \in DOMAIN o.took : o.took[c] = p.took[c]
    BY <1>1, OnlyTook
  <2>2. DOMAIN p.took \subseteq Cases
    BY <1>1, PathIs
  <2> QED
    BY <2>1, <2>2
<1>5. q = [g EXCEPT !.env[v] = x, !.reads = @ + 1,
                    !.took = [c \in DOMAIN @ |-> Take(c, @[c], v)]]
  BY DEF HasRecord
<1> HIDE DEF p, s, v, S, o, x
<1>6. /\ g.env = o.env /\ g.cons = o.cons /\ g.unknown = o.unknown /\ g.reads = o.reads
      /\ g.eof = o.eof /\ g.took = o.took
      /\ ToSet(g.rest) \subseteq ToSet(s.notAtEnd) \cup ToSet(o.rest)
  <2>1. s.notAtEnd \in Seq(Code \cup Frames) /\ o.rest # <<>>
    BY <1>1, <1>2, <1>3
  <2>2. g.env = o.env /\ g.cons = o.cons /\ g.unknown = o.unknown /\ g.reads = o.reads
    BY <1>1, <1>3, <2>1, GoesFields
  <2>3. /\ g.eof = o.eof /\ g.took = o.took
        /\ ToSet(g.rest) \subseteq ToSet(s.notAtEnd) \cup ToSet(o.rest)
    BY <1>1, <1>3, <2>1, GoesFields
  <2> QED
    BY <2>2, <2>3
<1>7. g \in TypedPaths
  <2>1. s.notAtEnd \in Seq(Code \cup Frames) /\ o.rest # <<>>
        /\ \A f \in ToSet(s.notAtEnd) : Fits(f, DOMAIN o.took)
    BY <1>1, <1>2, <1>3, CodeIs
  <2> QED
    BY <1>1, <1>3, <2>1, GoesIs
<1>8. x \in Values /\ \A c \in Cases : reads \in DOMAIN c => x[c] = c[reads]
  BY <1>1, SlotIs DEF x
<1>9. p.reads \in Nat /\ reads \in 0..MaxRecords
  <2>1. p.reads \in 0..MaxRecords /\ p.reads < MaxRecords
    BY <1>1, PathIs DEF p
  <2> QED
    BY <1>1, <2>1
<1> HIDE DEF g
<1>10. ASSUME NEW c \in DOMAIN g.took
       PROVE  /\ Follows(took[c], p.took[c], {v} \cup Shared(v))
              /\ p.took[c].reads < Len(c) =>
                   /\ took[c].store[v] = c[p.took[c].reads + 1]
                   /\ took[c].wrapped = p.took[c].wrapped
  <2>1. took[c] = Take(c, p.took[c], v) /\ c \in DOMAIN p.took
    BY <1>4, <1>6
  <2>2. c \in Seq(Input) /\ p.took[c] \in RunStates
    BY <1>1, <2>1, PathIs, CaseIs
  <2> DEFINE st == p.took[c]
             taken == Take(c, st, v)
  <2>3. Follows(taken, st, {v} \cup Shared(v))
    BY <1>1, <1>2, <2>2, TakeIs
  <2>4. st.reads < Len(c) => taken.store[v] = c[st.reads + 1] /\ taken.wrapped = st.wrapped
    BY <1>1, <1>2, <2>2, TakeIs
  <2>5. took[c] = taken
    BY <2>1
  <2> HIDE DEF took, taken, st
  <2> QED
    BY <2>3, <2>4, <2>5 DEF st
<1>11. took \in Tooks /\ DOMAIN took = DOMAIN g.took
  <2>1. DOMAIN g.took \in SUBSET Cases /\ took \in [DOMAIN g.took -> RunStates]
    BY <1>7, <1>10, PathIs DEF Follows
  <2> QED
    BY <2>1, TooksHas
<1>12. env \in [Var -> Values] /\ env[v] = x /\ \A w \in Var \ {v} : env[w] = p.env[w]
  <2>1. g.env \in [Var -> Values] /\ g.env = p.env
    BY <1>3, <1>6, <1>7, PathIs
  <2> QED
    BY <1>2, <1>8, <2>1
<1>13. q = [g EXCEPT !.env = env, !.reads = reads, !.took = took]
  <2>1. g \in PathStates
    BY <1>7, PathIs
  <2>2. g.reads + 1 = reads
    BY <1>3, <1>6
  <2> QED
    BY <1>5, <2>1, <2>2 DEF PathStates
<1> HIDE DEF env, took, reads
<1>14. /\ q \in PathStates /\ q.env = env /\ q.took = took /\ q.reads = reads
       /\ q.cons = p.cons /\ q.unknown = p.unknown /\ q.eof = p.eof /\ q.rest = g.rest
  <2>1. g \in PathStates
    BY <1>7, PathIs
  <2>2. /\ q \in PathStates /\ q.env = env /\ q.took = took /\ q.reads = reads
        /\ q.cons = g.cons /\ q.unknown = g.unknown /\ q.eof = g.eof /\ q.rest = g.rest
    BY <1>9, <1>11, <1>12, <1>13, <2>1 DEF PathStates
  <2> QED
    BY <1>3, <1>6, <2>2
<1>15. q \in TypedPaths
  <2>1. \A f \in ToSet(q.rest) : Fits(f, DOMAIN q.took)
    BY <1>7, <1>11, <1>14, PathIs
  <2> QED
    BY <1>14, <2>1, IsPath
<1>16. DOMAIN q.took = {c \in DOMAIN p.took : Len(c) > p.reads}
  BY <1>4, <1>6, <1>11, <1>14
<1>17. ASSUME Regular, Good(p) PROVE Good(q)
  <2>1. /\ \A w \in Shared(v) : p.env[w] = Opaque
        /\ Records /\ \A c \in DOMAIN p.took : p.took[c].reads = p.reads
    BY <1>1, <1>17 DEF Regular, p, s, v
  <2>2. ASSUME NEW c \in DOMAIN q.took
        PROVE  /\ Follows(q.took[c], p.took[c], {v} \cup Shared(v))
               /\ q.took[c].store[v] = x[c] /\ q.took[c].wrapped = p.took[c].wrapped
               /\ c \in DOMAIN p.took /\ Len(c) >= reads
    <3>1. c \in DOMAIN p.took /\ Len(c) > p.reads /\ c \in DOMAIN g.took
      BY <1>11, <1>14, <1>16
    <3>2. c \in Cases /\ c \in Seq(Input)
      BY <1>1, <3>1, PathIs, CaseIs
    <3>3. reads \in DOMAIN c /\ Len(c) >= reads
      BY <1>9, <3>1, <3>2 DEF reads
    <3>4. p.took[c].reads < Len(c) /\ c[p.took[c].reads + 1] = x[c]
      BY <1>8, <2>1, <3>1, <3>2, <3>3 DEF reads
    <3> QED
      BY <1>10, <1>14, <3>1, <3>3, <3>4
  <2>3. \A c : Accepts(q, c) <=> Accepts(p, c)
    BY <1>14 DEF Accepts
  <2>4. Sound(q)
    BY <1>17, <2>2, <2>3 DEF Good, Sound
  <2>5. Real(q)
    <3> SUFFICES ASSUME NEW c \in DOMAIN q.took, Accepts(q, c) PROVE Knows(q, c)
      BY DEF Real
    <3>1. Knows(p, c)
      BY <1>17, <2>2, <2>3 DEF Good, Real
    <3>2. \A f \in ToSet(q.rest) : Counted(f, c)
      <4>1. \A f \in ToSet(s.notAtEnd) : Counted(f, c)
        BY <1>1, <1>2, CodeIs
      <4>2. \A f \in ToSet(p.rest) : Counted(f, c)
        BY <3>1 DEF Knows
      <4> QED
        BY <1>3, <1>6, <1>14, <4>1, <4>2
    <3>3. Agrees(q.env, q.took[c].store, c)
      <4> SUFFICES ASSUME NEW w \in Var, q.env[w] # Opaque
                   PROVE  q.env[w][c] = q.took[c].store[w]
        BY DEF Agrees
      <4>1. CASE w = v
        BY <1>12, <1>14, <2>2, <4>1
      <4>2. CASE w # v
        <5>1. q.env[w] = p.env[w] /\ w \notin Shared(v)
          BY <1>12, <1>14, <2>1, <4>2
        <5>2. p.env[w][c] = p.took[c].store[w]
          BY <3>1, <5>1 DEF Knows, Agrees
        <5>3. q.took[c].store[w] = p.took[c].store[w]
          BY <2>2, <4>2, <5>1 DEF Follows
        <5> QED
          BY <5>1, <5>2, <5>3
      <4> QED
        BY <4>1, <4>2
    <3> QED
      BY <3>2, <3>3 DEF Knows
  <2>6. Witnessed(q)
    <3> SUFFICES ASSUME ~q.unknown, NEW c \in Cases, Accepts(q, c), Reaches(q, c)
                 PROVE  c \in DOMAIN q.took
      BY DEF Witnessed
    <3>1. Len(c) >= reads
      BY <1>14, <2>1 DEF Reaches, p
    <3>2. Len(c) \in Nat
      BY <1>1, CaseIs
    <3>3. Len(c) > p.reads
      BY <1>9, <3>1, <3>2 DEF reads
    <3>4. Reaches(p, c)
      BY <1>9, <3>2, <3>3 DEF Reaches, p
    <3>5. c \in DOMAIN p.took
      BY <1>14, <1>17, <2>3, <3>4 DEF Good, Witnessed
    <3> QED
      BY <1>16, <3>3, <3>5
  <2>7. Long(q)
    BY <1>14, <2>2 DEF Long
  <2> QED
    BY <2>4, <2>5, <2>6, <2>7 DEF Good
<1> QED
  BY <1>15, <1>16, <1>17 DEF p

\* The path at end is good: it has the cases of exactly this length.
LEMMA AtEndIs ==
    ASSUME TypeInv, At({"read"}), ~Now.eof, NEW q, q = AtEnd(Now)
    PROVE  /\ q \in TypedPaths
           /\ DOMAIN q.took = {c \in DOMAIN Now.took : Len(c) = Now.reads}
           /\ Regular /\ Good(Now) => Good(q)
<1> DEFINE p == Now
           s == Statement
           S == {c \in Cases : Len(c) = p.reads}
           o == Only(p, S)
           g == Goes(o, s.atEnd)
<1>1. /\ p \in TypedPaths /\ p.rest # <<>> /\ s \in Statements(Code) /\ program \in Programs
      /\ s.kind = "read"
  BY AtIs
<1>2. s.atEnd \in Seq(Code)
  BY <1>1, StatementIs DEF Stores
<1>3. /\ o \in TypedPaths /\ o.env = p.env /\ o.cons = p.cons
      /\ o.unknown = p.unknown /\ o.reads = p.reads /\ o.rest = p.rest
  <2>1. o \in TypedPaths /\ o.env = p.env /\ o.cons = p.cons /\ o.unknown = p.unknown
    BY <1>1, OnlyIs
  <2>2. o.reads = p.reads /\ o.rest = p.rest
    BY <1>1, OnlyIs
  <2> QED
    BY <2>1, <2>2
<1>4. /\ DOMAIN o.took = {c \in DOMAIN p.took : Len(c) = p.reads}
      /\ \A c \in DOMAIN o.took : o.took[c] = p.took[c]
  <2>1. DOMAIN o.took = DOMAIN p.took \cap S /\ \A c \in DOMAIN o.took : o.took[c] = p.took[c]
    BY <1>1, OnlyTook
  <2>2. DOMAIN p.took \subseteq Cases
    BY <1>1, PathIs
  <2> QED
    BY <2>1, <2>2
<1>5. q = [g EXCEPT !.eof = TRUE]
  BY DEF AtEnd
<1> HIDE DEF p, s, S, o
<1>6. /\ g.env = o.env /\ g.cons = o.cons /\ g.unknown = o.unknown /\ g.reads = o.reads
      /\ g.took = o.took /\ ToSet(g.rest) \subseteq ToSet(s.atEnd) \cup ToSet(o.rest)
  <2>1. s.atEnd \in Seq(Code \cup Frames) /\ o.rest # <<>>
    BY <1>1, <1>2, <1>3
  <2>2. g.env = o.env /\ g.cons = o.cons /\ g.unknown = o.unknown /\ g.reads = o.reads
    BY <1>1, <1>3, <2>1, GoesFields
  <2>3. g.took = o.took /\ ToSet(g.rest) \subseteq ToSet(s.atEnd) \cup ToSet(o.rest)
    BY <1>1, <1>3, <2>1, GoesFields
  <2> QED
    BY <2>2, <2>3
<1>7. g \in TypedPaths
  <2>1. s.atEnd \in Seq(Code \cup Frames) /\ o.rest # <<>>
        /\ \A f \in ToSet(s.atEnd) : Fits(f, DOMAIN o.took)
    BY <1>1, <1>2, <1>3, CodeIs
  <2> QED
    BY <1>1, <1>3, <2>1, GoesIs
<1> HIDE DEF g
<1>8. /\ q \in PathStates /\ q.env = p.env /\ q.took = o.took /\ q.reads = p.reads
      /\ q.cons = p.cons /\ q.unknown = p.unknown /\ q.eof /\ q.rest = g.rest
  <2>1. g \in PathStates
    BY <1>7, PathIs
  <2>2. /\ q \in PathStates /\ q.env = g.env /\ q.took = g.took /\ q.reads = g.reads
        /\ q.cons = g.cons /\ q.unknown = g.unknown /\ q.eof /\ q.rest = g.rest
    BY <1>5, <2>1 DEF PathStates
  <2> QED
    BY <1>3, <1>6, <2>2
<1>9. q \in TypedPaths
  <2>1. \A f \in ToSet(q.rest) : Fits(f, DOMAIN q.took)
    BY <1>6, <1>7, <1>8, PathIs
  <2> QED
    BY <1>8, <2>1, IsPath
<1>10. ASSUME Regular, Good(p) PROVE Good(q)
  <2>1. Records
    <3>1. At({"read"}) => Records
      BY <1>10 DEF Regular
    <3> QED
      BY <3>1
  <2>2. \A c \in DOMAIN q.took : c \in DOMAIN p.took /\ q.took[c] = p.took[c] /\ Len(c) = p.reads
    BY <1>4, <1>8
  <2>3. \A c : Accepts(q, c) <=> Accepts(p, c)
    BY <1>8 DEF Accepts
  <2>4. Sound(q)
    BY <1>10, <2>2, <2>3 DEF Good, Sound
  <2>5. Real(q)
    <3> SUFFICES ASSUME NEW c \in DOMAIN q.took, Accepts(q, c) PROVE Knows(q, c)
      BY DEF Real
    <3>1. Knows(p, c)
      BY <1>10, <2>2, <2>3 DEF Good, Real
    <3>2. \A f \in ToSet(q.rest) : Counted(f, c)
      <4>1. \A f \in ToSet(s.atEnd) : Counted(f, c)
        BY <1>1, <1>2, CodeIs
      <4>2. \A f \in ToSet(p.rest) : Counted(f, c)
        BY <3>1 DEF Knows
      <4> QED
        BY <1>3, <1>6, <1>8, <4>1, <4>2
    <3> QED
      BY <1>8, <2>2, <3>1, <3>2 DEF Knows
  <2>6. Witnessed(q)
    <3> SUFFICES ASSUME ~q.unknown, NEW c \in Cases, Accepts(q, c), Reaches(q, c)
                 PROVE  c \in DOMAIN q.took
      BY DEF Witnessed
    <3>1. Len(c) = p.reads
      BY <1>8, <2>1 DEF Reaches
    <3>2. Len(c) \in Nat
      BY <1>1, CaseIs
    <3>3. Reaches(p, c)
      BY <3>1, <3>2 DEF Reaches
    <3>4. c \in DOMAIN p.took
      BY <1>8, <1>10, <2>3, <3>3 DEF Good, Witnessed
    <3> QED
      BY <1>4, <1>8, <3>1, <3>4
  <2>7. Long(q)
    <3>1. \A c \in DOMAIN q.took : Len(c) \in Nat
      BY <1>1, <1>9, PathIs, CaseIs
    <3> QED
      BY <1>8, <2>2, <3>1 DEF Long
  <2> QED
    BY <2>4, <2>5, <2>6, <2>7 DEF Good
<1> QED
  BY <1>4, <1>8, <1>9, <1>10 DEF p

\* READ: a case is on either path, or disclosed when no more record is read.
LEMMA StepRead ==
    ASSUME TypeInv, DoRead
    PROVE  \E paths \in Seq(TypedPaths) : Become(paths) /\ Succeeds(paths)
<1> DEFINE p == Now
           h == HasRecord(p)
           e == AtEnd(p)
<1>1. At({"read"}) /\ ~p.eof
  BY DEF DoRead
<1>2. /\ e \in TypedPaths /\ DOMAIN e.took = {c \in DOMAIN p.took : Len(c) = p.reads}
      /\ Regular /\ Good(p) => Good(e)
  BY <1>1, AtEndIs
<1>3. Good(p) => \A c \in DOMAIN p.took : Len(c) = p.reads \/ Len(c) > p.reads
  <2>1. p \in TypedPaths /\ program \in Programs /\ MaxRecords \in Nat
    BY <1>1, AtIs
  <2>2. p.reads \in Nat /\ \A c \in DOMAIN p.took : Len(c) \in Nat
    BY <2>1, PathIs, CaseIs
  <2> QED
    BY <2>2 DEF Good, Long
<1>4. CASE p.reads < MaxRecords
  <2> DEFINE first == <<h>>
             second == <<e>>
             paths == first \o second
  <2>1. Become(paths)
    BY <1>4 DEF DoRead
  <2>2. /\ h \in TypedPaths /\ DOMAIN h.took = {c \in DOMAIN p.took : Len(c) > p.reads}
        /\ Regular /\ Good(p) => Good(h)
    BY <1>1, <1>4, HasRecordIs
  <2> HIDE DEF h, e, p
  <2>3. /\ first \in Seq(TypedPaths) /\ ToSet(first) = {h}
        /\ second \in Seq(TypedPaths) /\ ToSet(second) = {e}
    BY <1>2, <2>2, SingleIs
  <2> HIDE DEF first, second
  <2>5. paths \in Seq(TypedPaths) /\ ToSet(paths) = {h, e}
    BY <2>3, ConcatToSet
  <2> HIDE DEF paths
  <2>4. Succeeds(paths)
    BY <1>2, <1>3, <2>2, <2>5 DEF Succeeds, p
  <2> QED
    BY <2>1, <2>4, <2>5
<1>5. CASE ~(p.reads < MaxRecords)
  <2> DEFINE paths == <<e>>
  <2>1. Become(paths) /\ beyond' = beyond \cup {c \in DOMAIN p.took : Len(c) > p.reads}
    <3>1. <<>> \o <<e>> = paths
      OBVIOUS
    <3> QED
      BY <1>5, <3>1 DEF DoRead
  <2> HIDE DEF e, p
  <2>2. paths \in Seq(TypedPaths) /\ ToSet(paths) = {e}
    BY <1>2 DEF ToSet
  <2> HIDE DEF paths
  <2>3. Succeeds(paths)
    BY <1>2, <1>3, <2>1, <2>2 DEF Succeeds, p
  <2> QED
    BY <2>1, <2>2, <2>3
<1> QED
  BY <1>4, <1>5

-----------------------------------------------------------------------------
(***************************************************************************)
(* The invariants                                                          *)
(***************************************************************************)
\* NothingDropped is inductive together with the goodness of the paths: a case is
\* dropped only where a path is pruned, and what prunes a path is its constraints.
GoodPaths == {p \in TypedPaths : Good(p)}
AllGood == Paths \subseteq GoodPaths
IInv == TypeInv /\ AllGood /\ NothingDropped

\* Which paths are good depends on the program only.
LEMMA SameGood ==
    ASSUME program' = program
    PROVE  GoodPaths' = GoodPaths
<1>1. TypedPaths' = TypedPaths /\ Cases' = Cases
  BY SameProgram
<1>2. Records' = Records
  BY DEF Records
<1> QED
  BY <1>1, <1>2 DEF GoodPaths, Good, Sound, Real, Witnessed, Long, Reaches, Accepts, Knows,
                    Agrees, Counted

\* The first path is good and has all cases.
LEMMA FirstPathIs ==
    ASSUME Init
    PROVE  FirstPath(program) \in GoodPaths /\ DOMAIN FirstPath(program).took = Cases
<1> DEFINE p == FirstPath(program)
           start == [v \in Var |-> IF program.init[v] = Opaque THEN 0 ELSE program.init[v]]
           env == [v \in Var |-> IF v \in program.bytes \/ program.init[v] = Opaque
                                 THEN Opaque ELSE [c \in Cases |-> program.init[v]]]
           took == [c \in Cases |-> Begin(start)]
<1>1. /\ program \in Programs /\ program.init \in [Var -> Input \cup {Opaque}]
      /\ program.stmts \in Seq(Code) /\ MaxValue \in Nat /\ MaxRecords \in Nat
  <2>1. program \in Programs
    BY DEF Init
  <2> QED
    BY <2>1, ProgramIs
<1>2. p = [env |-> env, cons |-> {}, unknown |-> FALSE, reads |-> 0, eof |-> FALSE,
           ended |-> FALSE, rest |-> program.stmts, took |-> took]
  BY DEF FirstPath, Cases
<1>3. start \in [Var -> Input]
  BY <1>1 DEF Input
<1>4. env \in [Var -> Values]
  <2>1. \A v \in Var : program.init[v] # Opaque => program.init[v] \in Int
    BY <1>1 DEF Input
  <2> QED
    BY <2>1 DEF Values
<1>5. took \in Tooks /\ DOMAIN took = Cases
      /\ \A c \in Cases : took[c].store = start /\ ~took[c].wrapped
  <2>1. /\ Begin(start) \in RunStates /\ Begin(start).store = start
        /\ ~Begin(start).wrapped
    BY <1>3 DEF Begin, RunStates
  <2> HIDE DEF start
  <2>2. took \in [Cases -> RunStates] /\ DOMAIN took = Cases
        /\ \A c \in Cases : took[c] = Begin(start)
    BY <2>1
  <2>3. took \in Tooks
    BY <2>2, TooksHas
  <2> QED
    BY <2>1, <2>2, <2>3
<1>6. \A v \in Var, c \in Cases : env[v] # Opaque => env[v][c] = start[v]
  BY <1>1
<1> HIDE DEF p, start, env, took
<1>7. p.rest \in Seq(Code \cup Frames) /\ \A f \in ToSet(p.rest) :
        (\A D : Fits(f, D)) /\ (\A c : Counted(f, c))
  BY <1>1, <1>2, CodeIs
<1>8. p \in PathStates
  BY <1>1, <1>2, <1>4, <1>5, <1>7 DEF PathStates
<1>9. p \in TypedPaths
  BY <1>7, <1>8, IsPath
<1>10. /\ p.env = env /\ p.took = took /\ p.cons = {} /\ p.reads = 0
  BY <1>2
<1>11. Sound(p)
  BY <1>10 DEF Sound, Accepts
<1>12. Real(p)
  BY <1>5, <1>6, <1>7, <1>10 DEF Real, Knows, Agrees
<1>13. Witnessed(p)
  BY <1>5, <1>10 DEF Witnessed
<1>14. Long(p)
  <2>1. \A c \in Cases : Len(c) \in Nat
    BY <1>1, CaseIs
  <2> QED
    BY <1>5, <1>10, <2>1 DEF Long
<1> QED
  BY <1>5, <1>9, <1>10, <1>11, <1>12, <1>13, <1>14 DEF GoodPaths, Good, p

\* TypeInv holds at the start.
LEMMA TypeInit ==
    ASSUME Init
    PROVE  TypeInv
<1>1. FirstPath(program) \in TypedPaths
  BY FirstPathIs DEF GoodPaths
<1>2. /\ pending = <<FirstPath(program)>> /\ done = <<>> /\ declined = FALSE
      /\ beyond = {} /\ overflown = {} /\ program \in Programs
  BY DEF Init
<1>3. pending \in Seq(TypedPaths)
  BY <1>1, <1>2, SingleIs
<1>4. done \in Seq(TypedPaths) /\ Len(done) = 0 /\ MaxPaths \in Nat
  BY <1>2, BoundsAssumption
<1>5. ~declined /\ declined \in BOOLEAN
  BY <1>2
<1>6. Len(done) <= IF declined THEN MaxPaths + 1 ELSE MaxPaths
  BY <1>4, <1>5
<1> QED
  BY <1>2, <1>3, <1>4, <1>5, <1>6 DEF TypeInv

\* A step of the path being executed.
Executes == \/ DoMove \/ DoWindow \/ DoAccept \/ DoStop \/ DoIf \/ DoLoop
            \/ DoUnroll \/ DoGiveUp \/ DoRead

\* Whatever statement the path is at, it has successors.
LEMMA StepPath ==
    ASSUME TypeInv, Executes
    PROVE  \E paths \in Seq(TypedPaths) : Become(paths) /\ Succeeds(paths)
  BY StepMove, StepWindow, StepAccept, StepStop, StepIf, StepLoop, StepUnroll, StepGiveUp,
     StepRead DEF Executes

\* What else a statement changes: what is disclosed, and that only grows.
LEMMA StepRest ==
    ASSUME TypeInv, Executes
    PROVE  /\ pending # <<>> /\ ~declined
           /\ program' = program /\ done' = done /\ declined' = declined
           /\ beyond \subseteq beyond' /\ beyond' \subseteq Cases
           /\ overflown \subseteq overflown' /\ overflown' \subseteq Cases
<1>1. \E kinds : At(kinds)
  BY DEF Executes, DoMove, DoWindow, DoAccept, DoStop, DoIf, DoLoop, DoUnroll, DoGiveUp, DoRead
<1>2. /\ pending # <<>> /\ ~declined /\ Now \in TypedPaths /\ program \in Programs
  BY <1>1, AtIs DEF At
<1>3. DOMAIN Now.took \subseteq Cases /\ beyond \subseteq Cases /\ overflown \subseteq Cases
  BY <1>2, PathIs DEF TypeInv
<1>4. CASE DoMove \/ DoWindow \/ DoAccept \/ DoStop \/ DoIf \/ DoLoop
  BY <1>2, <1>3, <1>4 DEF DoMove, DoWindow, DoAccept, DoStop, DoIf, DoLoop
<1>5. CASE DoUnroll
  BY <1>2, <1>3, <1>5 DEF DoUnroll, Overflowing
<1>6. CASE DoGiveUp
  <2>1. Statement \in Frames /\ Statement \in ToSet(Now.rest)
    <3>1. At({"unroll"})
      BY <1>6 DEF DoGiveUp
    <3> QED
      BY <3>1, AtIs
  <2>2. DOMAIN LastRounds(Now, Statement) \subseteq DOMAIN Now.took
    BY <1>2, <2>1, LastRoundsAre
  <2>3. /\ program' = program /\ done' = done /\ declined' = declined
        /\ overflown' = overflown \cup {c \in DOMAIN Now.took : Now.took[c].wrapped}
        /\ beyond' = beyond \cup {c \in DOMAIN LastRounds(Now, Statement) :
                                     LastRounds(Now, Statement)[c].ended}
    BY <1>6 DEF DoGiveUp, Overflowing
  <2> QED
    BY <1>2, <1>3, <2>2, <2>3
<1>7. CASE DoRead
  BY <1>2, <1>3, <1>7 DEF DoRead
<1> QED
  BY <1>4, <1>5, <1>6, <1>7 DEF Executes

\* The path that is finished.
LEMMA FinishIs ==
    ASSUME TypeInv, Finish, NEW q, q = [Now EXCEPT !.rest = <<>>]
    PROVE  /\ q \in TypedPaths /\ q.took = Now.took /\ (Good(Now) => Good(q))
           /\ done' = Append(done, q) /\ ToSet(done') = ToSet(done) \cup {q}
           /\ done' \in Seq(TypedPaths) /\ Len(done') = Len(done) + 1
<1> DEFINE p == Now
<1>1. p \in TypedPaths
  BY NowIs DEF Finish
<1>2. done' = Append(done, q)
  BY DEF Finish
<1> HIDE DEF p
<1>3. /\ q \in PathStates /\ q.env = p.env /\ q.took = p.took /\ q.reads = p.reads
      /\ q.cons = p.cons /\ q.unknown = p.unknown /\ q.eof = p.eof /\ q.rest = <<>>
  <2>1. p \in PathStates
    BY <1>1, PathIs
  <2> DEFINE nil == <<>>
  <2>2. q = [p EXCEPT !.rest = nil]
    BY DEF p
  <2>3. nil \in Seq(Code \cup Frames)
    OBVIOUS
  <2> HIDE DEF nil
  <2>4. /\ q \in PathStates /\ q.env = p.env /\ q.took = p.took /\ q.reads = p.reads
        /\ q.cons = p.cons /\ q.unknown = p.unknown /\ q.eof = p.eof /\ q.rest = nil
    BY <2>1, <2>2, <2>3 DEF PathStates
  <2> QED
    BY <2>4 DEF nil
<1>4. ToSet(q.rest) = {}
  BY <1>3 DEF ToSet
<1>5. q \in TypedPaths
  BY <1>3, <1>4, IsPath
<1>6. ASSUME Good(p) PROVE Good(q)
  <2>1. Onward(p, q)
    BY <1>3 DEF Onward
  <2>2. \A c \in DOMAIN p.took : Knows(p, c) => Knows(q, c)
    BY <1>3, <1>4 DEF Knows
  <2>3. \A c : Accepts(p, c) => Accepts(q, c)
    BY <1>3 DEF Accepts
  <2> QED
    BY <1>3, <1>6, <2>1, <2>2, <2>3, OnwardGood
<1>7. done \in Seq(TypedPaths)
  BY DEF TypeInv
<1>8. done' \in Seq(TypedPaths) /\ Len(done') = Len(done) + 1
  BY <1>2, <1>5, <1>7
<1>9. ToSet(done') = ToSet(done) \cup {q}
  <2> DEFINE one == <<q>>
  <2>1. one \in Seq(TypedPaths) /\ ToSet(one) = {q}
    BY <1>5, SingleIs
  <2>2. done' = done \o one
    <3>1. Append(done, q) = done \o one
      BY <1>5, <1>7
    <3> QED
      BY <1>2, <3>1
  <2> HIDE DEF one
  <2>3. ToSet(done \o one) = ToSet(done) \cup ToSet(one)
    BY <1>7, <2>1, ConcatToSet
  <2> QED
    BY <2>1, <2>2, <2>3
<1> QED
  BY <1>2, <1>3, <1>5, <1>6, <1>8, <1>9 DEF p

\* A step keeps TypeInv, whether the program is regular or not.
LEMMA TypeNext ==
    ASSUME TypeInv, [Next]_vars
    PROVE  TypeInv'
<1>1. program' = program => TypedPaths' = TypedPaths /\ Cases' = Cases
  BY SameProgram
<1>2. MaxPaths \in Nat
  BY BoundsAssumption
<1>3. CASE Executes
  <2>1. PICK paths \in Seq(TypedPaths) : Become(paths)
    BY <1>3, StepPath
  <2>2. /\ pending # <<>> /\ ~declined /\ program' = program /\ done' = done
        /\ declined' = declined /\ beyond' \subseteq Cases /\ overflown' \subseteq Cases
    BY <1>3, StepRest
  <2>3. pending' \in Seq(TypedPaths)
    <3>1. Tail(pending) \in Seq(TypedPaths)
      BY <2>2, NowIs
    <3> QED
      BY <2>1, <2>2, <3>1, BecomeIs
  <2> QED
    BY <1>1, <2>2, <2>3 DEF TypeInv
<1>4. CASE ReadAfterEnd
  BY <1>1, <1>2, <1>4 DEF TypeInv, ReadAfterEnd
<1>5. CASE Finish
  <2>1. /\ program' = program /\ pending' = Tail(pending) /\ pending # <<>> /\ ~declined
        /\ beyond' = beyond /\ overflown' = overflown
    BY <1>5 DEF Finish
  <2>6. declined' \in BOOLEAN /\ (declined' <=> Len(done) + 1 > MaxPaths)
    <3> DEFINE over == Len(done) + 1 > MaxPaths
    <3>1. declined' = over
      BY <1>5 DEF Finish
    <3>2. over \in BOOLEAN
      OBVIOUS
    <3>3. declined' <=> over
      <4> HIDE DEF over
      <4> QED
        BY <3>1, <3>2
    <3> QED
      BY <3>1, <3>2, <3>3
  <2>2. done' \in Seq(TypedPaths) /\ Len(done') = Len(done) + 1
    BY <1>5, FinishIs
  <2>3. pending' \in Seq(TypedPaths)
    BY <2>1, NowIs
  <2>4. Len(done) \in Nat /\ Len(done) <= MaxPaths
    BY <2>1 DEF TypeInv
  <2>5. Len(done') <= IF declined' THEN MaxPaths + 1 ELSE MaxPaths
    BY <1>2, <2>2, <2>4, <2>6
  <2> QED
    BY <1>1, <2>1, <2>2, <2>3, <2>5, <2>6 DEF TypeInv
<1>6. CASE UNCHANGED vars
  BY <1>1, <1>6 DEF TypeInv, vars
<1> QED
  BY <1>3, <1>4, <1>5, <1>6 DEF Next, Executes

\* TypeInv is stronger than TypeOK.
LEMMA TypeInvImpliesTypeOK ==
    ASSUME TypeInv
    PROVE  TypeOK
<1>1. \A p \in Paths : p \in TypedPaths
  BY DEF TypeInv, Paths, ToSet
<1>2. ASSUME NEW p \in Paths
      PROVE  /\ DOMAIN p.took \subseteq Cases /\ DOMAIN p.env = Var
             /\ \A con \in p.cons : con.holds \subseteq Cases
             /\ p.reads \in 0..MaxRecords
  <2>1. p \in TypedPaths
    BY <1>1
  <2>2. /\ DOMAIN p.took \subseteq Cases /\ p.env \in [Var -> Values]
        /\ p.cons \subseteq Constraints /\ p.reads \in 0..MaxRecords
    BY <2>1, PathIs
  <2>3. \A con \in Constraints : con.holds \subseteq Cases
    BY DEF Constraints
  <2> QED
    BY <2>2, <2>3
<1>3. Len(done) <= MaxPaths + 1
  BY BoundsAssumption DEF TypeInv
<1> QED
  BY <1>2, <1>3 DEF TypeOK, TypeInv

\* Layer C reads no more record slots than it declares, enumerates at most one
\* path more than maxPaths, and its constraints and paths are about the cases of
\* the program explored; for every program, regular or not.
THEOREM TypeCorrect == Spec => []TypeOK
<1>1. Init => TypeInv
  BY TypeInit
<1>2. TypeInv /\ [Next]_vars => TypeInv'
  BY TypeNext
<1>3. TypeInv => TypeOK
  BY TypeInvImpliesTypeOK
<1> QED
  BY <1>1, <1>2, <1>3, PTL DEF Spec

\* The inductive invariant holds at the start.
LEMMA GoodInit ==
    ASSUME Init
    PROVE  IInv
<1>1. TypeInv
  BY TypeInit
<1>2. FirstPath(program) \in GoodPaths /\ DOMAIN FirstPath(program).took = Cases
  BY FirstPathIs
<1>3. pending = <<FirstPath(program)>> /\ done = <<>>
  BY DEF Init
<1>4. ToSet(pending) = {FirstPath(program)} /\ ToSet(done) = {}
  <2>1. ToSet(pending) = {FirstPath(program)}
    BY <1>2, <1>3, SingleIs
  <2>2. ToSet(done) = {}
    BY <1>3 DEF ToSet
  <2> QED
    BY <2>1, <2>2
<1>5. AllGood
  BY <1>2, <1>4 DEF AllGood, Paths
<1>6. NothingDropped
  BY <1>2, <1>4 DEF NothingDropped, Paths
<1> QED
  BY <1>1, <1>5, <1>6 DEF IInv

\* A step of a regular program keeps the inductive invariant.
LEMMA GoodNext ==
    ASSUME IInv, Regular, [Next]_vars
    PROVE  IInv'
<1>1. TypeInv /\ TypeInv'
  BY TypeNext DEF IInv
<1>2. program' = program => GoodPaths' = GoodPaths /\ Cases' = Cases
  BY SameGood, SameProgram
<1>3. \A q \in TypedPaths : q \in GoodPaths <=> Good(q)
  BY DEF GoodPaths
<1>4. AllGood /\ NothingDropped /\ Paths = ToSet(pending) \cup ToSet(done)
  BY DEF IInv, Paths
<1>5. Paths' = ToSet(pending') \cup ToSet(done')
  BY DEF Paths, ToSet
<1>6. CASE Executes
  <2>1. PICK paths \in Seq(TypedPaths) : Become(paths) /\ Succeeds(paths)
    BY <1>1, <1>6, StepPath
  <2>2. /\ pending # <<>> /\ ~declined /\ program' = program /\ done' = done
        /\ declined' = declined /\ beyond \subseteq beyond' /\ overflown \subseteq overflown'
    BY <1>1, <1>6, StepRest
  <2>3. /\ ToSet(pending) = {Now} \cup ToSet(Tail(pending)) /\ Now \in TypedPaths
        /\ Tail(pending) \in Seq(TypedPaths)
    BY <1>1, <2>2, NowIs
  <2>4. ToSet(pending') = ToSet(paths) \cup ToSet(Tail(pending))
    BY <1>1, <2>1, <2>2, <2>3, BecomeIs
  <2>5. Good(Now)
    BY <1>3, <1>4, <2>3 DEF AllGood
  <2>6. /\ \A q \in ToSet(paths) : Good(q)
        /\ \A c \in DOMAIN Now.took :
             c \in beyond' \cup overflown' \/ \E q \in ToSet(paths) : c \in DOMAIN q.took
    BY <2>1, <2>5 DEF Succeeds
  <2>7. ToSet(paths) \subseteq TypedPaths
    BY <2>1 DEF ToSet
  <2>8. AllGood'
    <3>1. Paths' \subseteq GoodPaths
      BY <1>3, <1>4, <1>5, <2>2, <2>3, <2>4, <2>6, <2>7 DEF AllGood
    <3> QED
      BY <1>2, <2>2, <3>1 DEF AllGood
  <2>9. ASSUME NEW c \in Cases
        PROVE  c \in beyond' \cup overflown' \/ \E q \in Paths' : c \in DOMAIN q.took
    <3>1. c \in beyond \cup overflown \/ \E p \in Paths : c \in DOMAIN p.took
      BY <1>4, <2>2 DEF NothingDropped
    <3>2. CASE c \in beyond \cup overflown
      BY <2>2, <3>2
    <3>3. CASE \E p \in Paths : c \in DOMAIN p.took
      <4>1. PICK p \in Paths : c \in DOMAIN p.took
        BY <3>3
      <4>2. CASE p = Now
        BY <1>5, <2>4, <2>6, <4>1, <4>2
      <4>3. CASE p # Now
        BY <1>4, <1>5, <2>2, <2>3, <2>4, <4>1, <4>3
      <4> QED
        BY <4>2, <4>3
    <3> QED
      BY <3>1, <3>2, <3>3
  <2>10. NothingDropped'
    BY <1>2, <2>2, <2>9 DEF NothingDropped
  <2> QED
    BY <1>1, <2>8, <2>10 DEF IInv
<1>7. CASE ReadAfterEnd
  <2>1. program' = program /\ pending' = pending /\ done' = done /\ declined'
    BY <1>7 DEF ReadAfterEnd
  <2>2. AllGood' /\ NothingDropped'
    BY <1>2, <1>4, <1>5, <2>1 DEF AllGood, NothingDropped
  <2> QED
    BY <1>1, <2>2 DEF IInv
<1>8. CASE Finish
  <2> DEFINE q == [Now EXCEPT !.rest = <<>>]
  <2>1. /\ program' = program /\ pending' = Tail(pending) /\ pending # <<>> /\ ~declined
        /\ beyond' = beyond /\ overflown' = overflown
    BY <1>8 DEF Finish
  <2>2. /\ q \in TypedPaths /\ q.took = Now.took /\ (Good(Now) => Good(q))
        /\ ToSet(done') = ToSet(done) \cup {q}
    BY <1>1, <1>8, FinishIs
  <2> HIDE DEF q
  <2>3. /\ ToSet(pending) = {Now} \cup ToSet(Tail(pending)) /\ Now \in TypedPaths
    BY <1>1, <2>1, NowIs
  <2>4. Good(Now)
    BY <1>3, <1>4, <2>3 DEF AllGood
  <2>5. Paths' = ToSet(Tail(pending)) \cup ToSet(done) \cup {q}
    BY <1>5, <2>1, <2>2
  <2>6. AllGood'
    <3>1. Paths' \subseteq GoodPaths
      BY <1>3, <1>4, <2>2, <2>3, <2>4, <2>5 DEF AllGood
    <3> QED
      BY <1>2, <2>1, <3>1 DEF AllGood
  <2>7. ASSUME NEW c \in Cases
        PROVE  c \in beyond' \cup overflown' \/ \E r \in Paths' : c \in DOMAIN r.took
    <3>1. c \in beyond \cup overflown \/ \E p \in Paths : c \in DOMAIN p.took
      BY <1>4, <2>1 DEF NothingDropped
    <3>2. \A p \in Paths : p = Now \/ p \in Paths'
      BY <1>4, <2>3, <2>5
    <3>3. q \in Paths' /\ q.took = Now.took
      BY <2>2, <2>5
    <3> QED
      BY <2>1, <3>1, <3>2, <3>3
  <2>8. NothingDropped'
    BY <1>2, <2>1, <2>7 DEF NothingDropped
  <2> QED
    BY <1>1, <2>6, <2>8 DEF IInv
<1>9. CASE UNCHANGED vars
  <2>1. /\ program' = program /\ pending' = pending /\ done' = done /\ declined' = declined
        /\ beyond' = beyond /\ overflown' = overflown
    BY <1>9 DEF vars
  <2>2. AllGood' /\ NothingDropped'
    BY <1>2, <1>4, <1>5, <2>1 DEF AllGood, NothingDropped
  <2> QED
    BY <1>1, <2>2 DEF IInv
<1> QED
  BY <1>6, <1>7, <1>8, <1>9 DEF Next, Executes

\* What the inductive invariant says of one path.
LEMMA PathsAreGood ==
    ASSUME IInv, NEW p \in Paths
    PROVE  p \in TypedPaths /\ Sound(p) /\ Real(p) /\ Witnessed(p)
  BY DEF IInv, AllGood, GoodPaths, Good

\* The inductive invariant holds as long as the program is regular.
LEMMA InvariantHolds == Spec /\ []Regular => []IInv
<1>1. Init => IInv
  BY GoodInit
<1>2. IInv /\ Regular /\ [Next]_vars => IInv'
  BY GoodNext
<1> QED
  BY <1>1, <1>2, PTL DEF Spec

\* execute, executeLoop and unrollLoop lose no behaviour of a regular program
\* silently: every input is on a path, or disclosed as left out, or one with which
\* a loop was tested after a store had lost digits.
THEOREM CasesAreKept == Spec /\ []Regular => []NothingDropped
<1>1. IInv => NothingDropped
  BY DEF IInv
<1> QED
  BY <1>1, InvariantHolds, PTL

\* What the environment of a path says of a field is what the program has in it,
\* for every input on the path that meets the constraints, also after a loop the
\* unroller gave up on.
THEOREM ValuesAreCorrect == Spec /\ []Regular => []ValuesAreReal
<1>1. ASSUME IInv PROVE ValuesAreReal
  <2>1. \A p \in Paths : Real(p)
    BY <1>1, PathsAreGood
  <2> QED
    BY <2>1 DEF ValuesAreReal, Real, Knows, Agrees
<1> QED
  BY <1>1, InvariantHolds, PTL

\* An input layer C solves for from the constraints of a path takes that path, when
\* the program is run with it.
THEOREM WitnessesAreOnPath == Spec /\ []Regular => []WitnessTakesPath
<1>1. ASSUME IInv PROVE WitnessTakesPath
  <2> SUFFICES ASSUME NEW p \in ToSet(done), NEW c \in Witnesses(p) PROVE c \in DOMAIN p.took
    BY DEF WitnessTakesPath
  <2>1. p \in TypedPaths /\ Witnessed(p)
    BY <1>1, PathsAreGood DEF Paths
  <2>2. ~p.unknown /\ c \in Cases /\ Accepts(p, c) /\ (Records => Len(c) = p.reads)
    BY DEF Witnesses
  <2>3. p.reads \in 0..MaxRecords /\ MaxRecords \in Nat
    BY <2>1, PathIs, BoundsAssumption
  <2>4. Reaches(p, c)
    BY <2>2, <2>3 DEF Reaches
  <2> QED
    BY <2>1, <2>2, <2>4 DEF Witnessed
<1> QED
  BY <1>1, InvariantHolds, PTL

\* A path called infeasible is dead: no input takes it, save one with which a store
\* of the program has lost digits.
THEOREM InfeasibleIsDead == Spec /\ []Regular => []DeadUnlessWrapped
<1>1. ASSUME IInv PROVE DeadUnlessWrapped
  <2> SUFFICES ASSUME NEW p \in Paths, Infeasible(p), NEW c \in DOMAIN p.took,
                      ~p.took[c].wrapped
               PROVE  FALSE
    BY DEF DeadUnlessWrapped
  <2>1. Accepts(p, c)
    BY <1>1, PathsAreGood DEF Sound
  <2> QED
    BY <2>1 DEF Infeasible, Accepts
<1> QED
  BY <1>1, InvariantHolds, PTL
=============================================================================
