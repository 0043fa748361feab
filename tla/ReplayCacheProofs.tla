-------------------------- MODULE ReplayCacheProofs --------------------------
(***************************************************************************)
(* What ReplayCache guarantees for every number of processes, requests and *)
(* texts: its types, that a replay is always one whole answer, and that a  *)
(* stored answer only changes by an operator's hand or by an overlap.      *)
(***************************************************************************)
EXTENDS ReplayCache, TLAPS

\* The state in which a process p is about to end with kind and text t.
LEMMA FinishType ==
    ASSUME TypeOK, NEW p \in Proc, pc[p] # "idle",
           NEW kind \in Kinds, NEW t \in Text \cup {None}, Finish(p, kind, t)
    PROVE  /\ pc' \in [Proc -> Labels]
           /\ outcome' \in [Proc -> Outcomes]
           /\ \A q \in Proc : outcome'[q].kind # "none" => outcome'[q].key \in Key
           /\ \A q \in Proc : pc'[q] # "idle" => pc'[q] = pc[q] /\ q # p
<1>1. [kind |-> kind, key |-> key[p], text |-> t] \in Outcomes
  BY DEF TypeOK, Outcomes
<1>2. key[p] \in Key
  BY DEF TypeOK
<1> QED
  BY <1>1, <1>2 DEF TypeOK, Finish, Labels

\* TypeOK holds initially, and every step keeps it where the texts that are
\* about to be stored are complete answers.
LEMMA TypeInit == Init => TypeOK
BY DEF Init, TypeOK, Labels, Outcomes, Kinds

LEMMA TypeStep == TypeOK /\ StoredIsWhole /\ [Next]_vars => TypeOK'
<1> SUFFICES ASSUME TypeOK, StoredIsWhole, [Next]_vars PROVE TypeOK'
  OBVIOUS
<1> USE DEF files, history
<1>1. CASE UNCHANGED vars
  BY <1>1 DEF vars, TypeOK
<1>2. ASSUME NEW p \in Proc, NEW k \in Key, NEW off \in BOOLEAN,
             NEW label \in {"lookup", "readstub"}, Start(p, k, label, off)
      PROVE  TypeOK'
  BY <1>2 DEF Start, Go, TypeOK, Labels
<1>3. ASSUME NEW p \in Proc, Lookup(p) PROVE TypeOK'
  <2>1. CASE pc'[p] = "idle"
    BY <1>3, <2>1, FinishType DEF Lookup, TypeOK, Kinds, Go
  <2>2. CASE pc'[p] # "idle"
    BY <1>3, <2>2 DEF Lookup, TypeOK, Labels, Go, Finish
  <2> QED
    BY <2>1, <2>2
<1>4. ASSUME NEW p \in Proc, Call(p) PROVE TypeOK'
  BY <1>4 DEF Call, TypeOK, Labels, Go, IsCompletion
<1>5. ASSUME NEW p \in Proc, CallFails(p) PROVE TypeOK'
  BY <1>5 DEF CallFails, TypeOK, Labels, Go
<1>6. ASSUME NEW p \in Proc, OpenStub(p) PROVE TypeOK'
  BY <1>6 DEF OpenStub, TypeOK, Labels, Go
<1>7. ASSUME NEW p \in Proc, FlushStub(p) PROVE TypeOK'
  BY <1>7, FinishType DEF FlushStub, TypeOK, Kinds
<1>8. ASSUME NEW p \in Proc, NEW from \in Labels, from # "idle",
             NEW to \in {"flush", "recflush"}, OpenEntry(p, from, to)
      PROVE  TypeOK'
  BY <1>8 DEF OpenEntry, TypeOK, Labels, Go
<1>9. ASSUME NEW p \in Proc, NEW from \in Labels, from # "idle",
             NEW kind \in {"live", "recorded"}, FlushEntry(p, from, kind),
             text[p] \in Text
      PROVE  TypeOK'
  BY <1>9, FinishType DEF FlushEntry, AfterFlush, TypeOK, Kinds
<1>10. ASSUME NEW p \in Proc, ReadStub(p) PROVE TypeOK'
  <2>1. CASE pc'[p] = "idle"
    <3>1. pc[p] = "readstub" /\ Finish(p, "refused", None)
          /\ UNCHANGED <<files, key, text, offline, history>>
      <4>1. CASE stub[key[p]] # Present
        BY <1>10, <4>1 DEF ReadStub, files, history
      <4>2. CASE stub[key[p]] = Present
        <5>1. pc[p] = "readstub" /\ pc' = [pc EXCEPT ![p] = "recopen"]
          BY <1>10, <4>2 DEF ReadStub, Go
        <5> QED
          BY <2>1, <5>1 DEF TypeOK
      <4> QED
        BY <4>1, <4>2
    <3> QED
      BY <3>1, FinishType DEF TypeOK, Kinds, files, history
  <2>2. CASE pc'[p] # "idle"
    <3>1. PICK t \in Text :
            /\ text' = [text EXCEPT ![p] = t]
            /\ whole' = [whole EXCEPT ![key[p]] = @ \cup {t}]
            /\ pc' = [pc EXCEPT ![p] = "recopen"]
            /\ UNCHANGED <<files, key, offline, outcome, calls, paid, overlapped, crashes>>
      BY <1>10, <2>2 DEF ReadStub, TypeOK, Go, Finish, files
    <3>2. pc' \in [Proc -> Labels] /\ \A q \in Proc : pc'[q] # "idle" => key[q] \in Key
      BY <1>10, <3>1 DEF ReadStub, TypeOK, Labels
    <3> QED
      BY <3>1, <3>2 DEF TypeOK, files
  <2> QED
    BY <2>1, <2>2
<1>11. ASSUME NEW p \in Proc, Crash(p) PROVE TypeOK'
  BY <1>11, FinishType DEF Crash, TypeOK, Kinds
<1>12. \A p \in Proc : pc[p] \in {"flush", "recflush"} => text[p] \in Text
  BY DEF StoredIsWhole, TypeOK
<1>13. ASSUME NEW p \in Proc, Store(p) PROVE TypeOK'
  <2>1. CASE OpenEntry(p, "open", "flush")
    BY <2>1, <1>8 DEF Labels
  <2>2. CASE FlushEntry(p, "flush", "live")
    BY <2>2, <1>9, <1>12 DEF Labels, FlushEntry
  <2> QED
    BY <1>13, <2>1, <2>2 DEF Store
<1>14. ASSUME NEW p \in Proc, StoreRecorded(p) PROVE TypeOK'
  <2>1. CASE OpenEntry(p, "recopen", "recflush")
    BY <2>1, <1>8 DEF Labels
  <2>2. CASE FlushEntry(p, "recflush", "recorded")
    BY <2>2, <1>9, <1>12 DEF Labels, FlushEntry
  <2> QED
    BY <1>14, <2>1, <2>2 DEF StoreRecorded
<1> QED
  BY <1>1, <1>2, <1>3, <1>4, <1>5, <1>6, <1>7, <1>10, <1>11, <1>13, <1>14
  DEF Next, Request, Record

\* A text that comes to be held, stored or handed over is an answer some call
\* or some operator gave for that very request.
LEMMA WholeStep ==
    TypeOK /\ StoredIsWhole /\ [Next]_vars => StoredIsWhole'
<1> SUFFICES ASSUME TypeOK, StoredIsWhole, [Next]_vars PROVE StoredIsWhole'
  OBVIOUS
<1> USE DEF files, history
<1>1. CASE UNCHANGED vars
  BY <1>1 DEF vars, StoredIsWhole
<1>2. ASSUME NEW p \in Proc,
             \/ \E k \in Key, off \in BOOLEAN : Request(p, k, off)
             \/ \E k \in Key : Record(p, k)
      PROVE  StoredIsWhole'
  BY <1>2 DEF Request, Record, Start, Go, StoredIsWhole, TypeOK
<1>3. ASSUME NEW p \in Proc, Lookup(p) PROVE StoredIsWhole'
  BY <1>3 DEF Lookup, Go, Finish, StoredIsWhole, TypeOK
<1>4. ASSUME NEW p \in Proc, Call(p) PROVE StoredIsWhole'
  BY <1>4 DEF Call, Go, IsCompletion, StoredIsWhole, TypeOK
<1>5. ASSUME NEW p \in Proc, CallFails(p) \/ OpenStub(p) \/ FlushStub(p) \/ Crash(p)
      PROVE  StoredIsWhole'
  BY <1>5 DEF CallFails, OpenStub, FlushStub, Crash, Go, Finish, StoredIsWhole, TypeOK
<1>6. ASSUME NEW p \in Proc, Store(p) \/ StoreRecorded(p) PROVE StoredIsWhole'
  <2>1. ASSUME NEW from \in {"open", "recopen"}, NEW to \in {"flush", "recflush"},
               OpenEntry(p, from, to)
        PROVE  StoredIsWhole'
    BY <2>1, Sentinels DEF OpenEntry, Go, StoredIsWhole, TypeOK
  <2>2. ASSUME NEW from \in {"flush", "recflush"}, NEW kind \in Kinds,
               FlushEntry(p, from, kind)
        PROVE  StoredIsWhole'
    BY <2>2, Sentinels DEF FlushEntry, AfterFlush, Finish, StoredIsWhole, TypeOK
  <2> QED
    BY <1>6, <2>1, <2>2 DEF Store, StoreRecorded, Kinds
<1>7. ASSUME NEW p \in Proc, ReadStub(p) PROVE StoredIsWhole'
  BY <1>7 DEF ReadStub, Go, Finish, StoredIsWhole, TypeOK
<1> QED
  BY <1>1, <1>2, <1>3, <1>4, <1>5, <1>6, <1>7 DEF Next

\* The inductive invariant: types, and only complete answers in the directory
\* and in the hands of a writer.
Inv == TypeOK /\ StoredIsWhole

LEMMA InvHolds == Spec => []Inv
<1>1. Init => Inv
  BY TypeInit, Sentinels DEF Init, Inv, StoredIsWhole
<1>2. Inv /\ [Next]_vars => Inv'
  BY TypeStep, WholeStep DEF Inv
<1> QED
  BY <1>1, <1>2, PTL DEF Spec

\* Every variable of the cache keeps its type.
THEOREM TypeCorrect == Spec => []TypeOK
BY InvHolds, PTL DEF Inv

\* completeWithCache and the recording script hand over whole answers to the
\* request they were asked about, and nothing else, whatever is killed and
\* however many processes share the directory.
THEOREM ReplayCorrect == Spec => []ReplayIsWhole
<1>1. Init => ReplayIsWhole
  BY DEF Init, ReplayIsWhole, Whole
<1>2. Inv /\ ReplayIsWhole /\ [Next]_vars => ReplayIsWhole'
  <2> SUFFICES ASSUME TypeOK, StoredIsWhole, ReplayIsWhole, [Next]_vars
               PROVE  ReplayIsWhole'
    BY DEF Inv
  <2> USE DEF files, history
  <2>1. CASE UNCHANGED vars
    BY <2>1 DEF vars, ReplayIsWhole, Whole
  <2>2. ASSUME NEW p \in Proc,
               UNCHANGED <<outcome, whole>>
        PROVE  ReplayIsWhole'
    BY <2>2 DEF ReplayIsWhole, Whole
  <2>3. ASSUME NEW p \in Proc, Lookup(p) PROVE ReplayIsWhole'
    <3>1. /\ whole' = whole /\ pc[p] = "lookup" /\ key[p] \in Key
          /\ \A q \in Proc \ {p} : outcome'[q] = outcome[q]
      BY <2>3 DEF Lookup, Finish, TypeOK
    <3>2. CASE entry[key[p]] \in Text
      BY <2>3, <3>1, <3>2
         DEF Lookup, Finish, ReplayIsWhole, StoredIsWhole, Whole, TypeOK
    <3>3. CASE entry[key[p]] \notin Text
      <4>1. outcome'[p] = outcome[p] \/ outcome'[p].kind = "corrupt"
        BY <2>3, <3>3 DEF Lookup, Finish, TypeOK
      <4> QED
        BY <3>1, <4>1 DEF ReplayIsWhole, Whole
    <3> QED
      BY <3>2, <3>3
  <2>4. ASSUME NEW p \in Proc, Call(p) \/ ReadStub(p) PROVE ReplayIsWhole'
    BY <2>4 DEF Call, ReadStub, Finish, ReplayIsWhole, Whole, TypeOK
  <2>5. ASSUME NEW p \in Proc, NEW from \in {"flush", "recflush"},
               NEW kind \in Kinds, FlushEntry(p, from, kind)
        PROVE  ReplayIsWhole'
    BY <2>5 DEF FlushEntry, Finish, ReplayIsWhole, StoredIsWhole, Whole, TypeOK
  <2>6. ASSUME NEW p \in Proc, FlushStub(p) \/ Crash(p) PROVE ReplayIsWhole'
    BY <2>6 DEF FlushStub, Crash, Finish, ReplayIsWhole, Whole, TypeOK
  <2> QED
    BY <2>1, <2>2, <2>3, <2>4, <2>5, <2>6 DEF Next, Request, Record, Start,
       CallFails, OpenStub, Store, StoreRecorded, OpenEntry, Kinds
<1> QED
  BY <1>1, <1>2, InvHolds, PTL DEF Spec

\* Two processes on one request are an overlap; and who still has an answer to
\* store although one was stored since it looked, has overlapped its writer.
Overlaps ==
    /\ \A p, q \in Proc :
         p # q /\ pc[p] # "idle" /\ pc[q] # "idle" /\ key[p] = key[q] =>
           overlapped[key[p]]
    /\ \A p \in Proc :
         pc[p] \in {"call", "open", "flush", "recflush"} /\ entry[key[p]] \in Text =>
           overlapped[key[p]]

LEMMA OverlapsStep == TypeOK /\ Overlaps /\ [Next]_vars => Overlaps'
<1> SUFFICES ASSUME TypeOK, Overlaps, [Next]_vars PROVE Overlaps'
  OBVIOUS
<1> USE DEF files, history
<1>1. CASE UNCHANGED vars
  BY <1>1 DEF vars, Overlaps
<1>2. ASSUME NEW p \in Proc, NEW k \in Key, NEW off \in BOOLEAN,
             NEW label \in {"lookup", "readstub"}, Start(p, k, label, off)
      PROVE  Overlaps'
  <2>1. /\ entry' = entry /\ pc'[p] = label /\ key'[p] = k
        /\ \A q \in Proc \ {p} : pc'[q] = pc[q] /\ key'[q] = key[q]
    BY <1>2 DEF Start, Go, TypeOK
  <2>2. /\ \A j \in Key : overlapped[j] => overlapped'[j]
        /\ \A q \in Proc \ {p} : pc[q] # "idle" /\ key[q] = k => overlapped'[k]
    BY <1>2 DEF Start, TypeOK
  <2>3. \A q \in Proc : pc[q] # "idle" => key[q] \in Key
    BY DEF TypeOK
  <2>4. ASSUME NEW q \in Proc, NEW r \in Proc, q # r,
               pc'[q] # "idle", pc'[r] # "idle", key'[q] = key'[r]
        PROVE  overlapped'[key'[q]]
    <3>1. CASE q # p /\ r # p
      BY <2>1, <2>2, <2>3, <2>4, <3>1 DEF Overlaps
    <3>2. CASE q = p \/ r = p
      BY <2>1, <2>2, <2>4, <3>2
    <3> QED
      BY <3>1, <3>2
  <2>5. ASSUME NEW q \in Proc, pc'[q] \in {"call", "open", "flush", "recflush"},
               entry'[key'[q]] \in Text
        PROVE  overlapped'[key'[q]]
    <3>1. q # p
      BY <2>1, <2>5
    <3> QED
      BY <2>1, <2>2, <2>3, <2>5, <3>1 DEF Overlaps
  <2> QED
    BY <2>4, <2>5 DEF Overlaps
<1>3. ASSUME NEW p \in Proc, Lookup(p) PROVE Overlaps'
  BY <1>3, Sentinels DEF Lookup, Go, Finish, Overlaps, TypeOK
<1>4. ASSUME NEW p \in Proc,
             Call(p) \/ CallFails(p) \/ OpenStub(p) \/ FlushStub(p) \/ Crash(p)
      PROVE  Overlaps'
  BY <1>4 DEF Call, CallFails, OpenStub, FlushStub, Crash, Go, Finish,
     IsCompletion, Overlaps, TypeOK
<1>5. ASSUME NEW p \in Proc, ReadStub(p) PROVE Overlaps'
  BY <1>5 DEF ReadStub, Go, Finish, Overlaps, TypeOK
<1>6. ASSUME NEW p \in Proc, NEW from \in {"open", "recopen"},
             NEW to \in {"flush", "recflush"}, OpenEntry(p, from, to)
      PROVE  Overlaps'
  BY <1>6, Sentinels DEF OpenEntry, Go, Overlaps, TypeOK
<1>7. ASSUME NEW p \in Proc, NEW from \in {"flush", "recflush"},
             NEW kind \in Kinds, FlushEntry(p, from, kind)
      PROVE  Overlaps'
  BY <1>7 DEF FlushEntry, Finish, Overlaps, TypeOK
<1> QED
  BY <1>1, <1>2, <1>3, <1>4, <1>5, <1>6, <1>7
  DEF Next, Request, Record, Store, StoreRecorded, Kinds

\* A stored answer stays what it is until an operator records another one or
\* a process that overlapped its writer stores its own.
THEOREM StoredAnswerStays == Spec => StoredStays
<1>1. Init => Overlaps
  BY Sentinels DEF Init, Overlaps
<1>2. TypeOK /\ Overlaps /\ [Next]_vars =>
        [\A k \in Key :
          entry[k] \in Text /\ entry'[k] # entry[k] =>
              \/ overlapped[k]
              \/ \E p \in Proc : pc[p] = "recopen" /\ key[p] = k]_vars
  <2> SUFFICES ASSUME TypeOK, Overlaps, Next,
                      NEW k \in Key, entry[k] \in Text, entry'[k] # entry[k]
               PROVE  \/ overlapped[k]
                      \/ \E p \in Proc : pc[p] = "recopen" /\ key[p] = k
    BY DEF vars
  <2>1. PICK p \in Proc : \/ OpenEntry(p, "open", "flush")
                          \/ OpenEntry(p, "recopen", "recflush")
                          \/ \E from \in {"flush", "recflush"}, kind \in Kinds :
                               FlushEntry(p, from, kind)
    BY DEF Next, Request, Record, Start, Lookup, Call, CallFails, OpenStub, FlushStub,
       Store, ReadStub, StoreRecorded, Crash, files, Kinds
  <2>2. key[p] = k /\ pc[p] \in {"open", "recopen", "flush", "recflush"}
    BY <2>1 DEF OpenEntry, FlushEntry, TypeOK
  <2> QED
    BY <2>2 DEF Overlaps
<1> QED
  BY <1>1, <1>2, TypeCorrect, OverlapsStep, PTL DEF Spec, StoredStays
-----------------------------------------------------------------------------
(***************************************************************************)
(* Trouble.  What is known of a request as long as nothing was killed and  *)
(* no two processes were at work on it: its entry is torn only in the      *)
(* hands of its one writer, an answer that was paid for is on its way into *)
(* the entry or there, and a request reported missing has left a stub.     *)
(***************************************************************************)
Quiet(k) == crashes = 0 /\ ~overlapped[k]
At(k, labels) == \E p \in Proc : pc[p] \in labels /\ key[p] = k
EntryQuiet(k) ==
    /\ entry[k] # Garbled
    /\ entry[k] = Empty <=> At(k, {"flush", "recflush"})
PaidQuiet(k) ==
    /\ paid[k] <= 1
    /\ paid[k] = 1 /\ entry[k] = Absent => At(k, {"open"})
    /\ At(k, {"call"}) => paid[k] = 0
StubQuiet(k) ==
    /\ stub[k] = Empty => At(k, {"stubflush"})
    /\ \A p \in Proc : outcome[p].kind = "missing" /\ outcome[p].key = k => stub[k] # Absent
Untroubled == \A k \in Key : Quiet(k) => EntryQuiet(k) /\ PaidQuiet(k) /\ StubQuiet(k)

\* A request is quiet because it always was; one process at most works on it.
LEMMA QuietBefore ==
    ASSUME TypeOK, [Next]_vars, NEW k \in Key, Quiet(k)'
    PROVE  Quiet(k)
<1> USE DEF files, history
<1>1. CASE UNCHANGED vars
  BY <1>1 DEF vars, Quiet
<1>2. ASSUME NEW p \in Proc, NEW l \in Key, NEW off \in BOOLEAN, NEW label \in Labels,
             Start(p, l, label, off)
      PROVE  Quiet(k)
  BY <1>2 DEF Start, Quiet, TypeOK
<1>3. ASSUME NEW p \in Proc, Crash(p) PROVE Quiet(k)
  BY <1>3 DEF Crash, Quiet, TypeOK
<1>4. CASE UNCHANGED <<crashes, overlapped>>
  BY <1>4 DEF Quiet
<1> QED
  BY <1>1, <1>2, <1>3, <1>4 DEF Next, Request, Record, Lookup, Call, CallFails, OpenStub,
     FlushStub, Store, ReadStub, StoreRecorded, OpenEntry, FlushEntry, Labels

LEMMA Alone ==
    ASSUME TypeOK, Overlaps, NEW k \in Key, Quiet(k), NEW p \in Proc, NEW q \in Proc,
           pc[p] # "idle", pc[q] # "idle", key[p] = k, key[q] = k
    PROVE  p = q
BY DEF Overlaps, Quiet

\* A step of a process at work on another request is nothing to this one.
LEMMA OtherRequest ==
    ASSUME TypeOK, NEW k \in Key, EntryQuiet(k), PaidQuiet(k), StubQuiet(k),
           NEW p \in Proc, key'[p] # k,
           key[p] = k => pc[p] = "idle",
           entry'[k] = entry[k], stub'[k] = stub[k], paid'[k] = paid[k],
           \A q \in Proc \ {p} : pc'[q] = pc[q] /\ key'[q] = key[q] /\ outcome'[q] = outcome[q],
           outcome'[p] = outcome[p] \/ outcome'[p].key # k
    PROVE  EntryQuiet(k)' /\ PaidQuiet(k)' /\ StubQuiet(k)'
<1>1. \A labels : "idle" \notin labels => (At(k, labels)' <=> At(k, labels))
  BY DEF At
<1>2. /\ At(k, {"flush", "recflush"})' <=> At(k, {"flush", "recflush"})
      /\ At(k, {"open"})' <=> At(k, {"open"})
      /\ At(k, {"call"})' <=> At(k, {"call"})
      /\ At(k, {"stubflush"})' <=> At(k, {"stubflush"})
  BY <1>1
<1>3. EntryQuiet(k)' /\ PaidQuiet(k)'
  BY <1>2 DEF EntryQuiet, PaidQuiet
<1> QED
  BY <1>2, <1>3 DEF StubQuiet

LEMMA UntroubledStep ==
    ASSUME TypeOK, StoredIsWhole, Overlaps, Untroubled, [Next]_vars
    PROVE  Untroubled'
<1> SUFFICES ASSUME NEW k \in Key, Quiet(k)'
             PROVE  EntryQuiet(k)' /\ PaidQuiet(k)' /\ StubQuiet(k)'
  BY DEF Untroubled
<1> USE DEF files, history
<1>1. Quiet(k) /\ EntryQuiet(k) /\ PaidQuiet(k) /\ StubQuiet(k)
  BY QuietBefore DEF Untroubled
<1>2. CASE UNCHANGED vars
  BY <1>1, <1>2 DEF vars, EntryQuiet, PaidQuiet, StubQuiet, At
<1>3. ASSUME NEW p \in Proc,
             \/ \E l \in Key, off \in BOOLEAN : Request(p, l, off)
             \/ \E l \in Key : Record(p, l)
      PROVE  EntryQuiet(k)' /\ PaidQuiet(k)' /\ StubQuiet(k)'
  <2>1. \A labels : labels \subseteq Labels \ {"idle", "lookup", "readstub"} =>
                      (At(k, labels)' <=> At(k, labels))
    BY <1>3 DEF Request, Record, Start, Go, At, TypeOK
  <2>2. /\ At(k, {"flush", "recflush"})' <=> At(k, {"flush", "recflush"})
        /\ At(k, {"open"})' <=> At(k, {"open"})
        /\ At(k, {"call"})' <=> At(k, {"call"})
        /\ At(k, {"stubflush"})' <=> At(k, {"stubflush"})
    BY <2>1 DEF Labels
  <2> QED
    BY <1>1, <1>3, <2>2 DEF Request, Record, Start, EntryQuiet, PaidQuiet, StubQuiet
<1>4. ASSUME NEW p \in Proc, pc[p] # "idle", key' = key, key[p] # k,
             Lookup(p) \/ Call(p) \/ CallFails(p) \/ OpenStub(p) \/ FlushStub(p)
               \/ Store(p) \/ ReadStub(p) \/ StoreRecorded(p)
      PROVE  EntryQuiet(k)' /\ PaidQuiet(k)' /\ StubQuiet(k)'
  <2>1. /\ entry'[k] = entry[k] /\ stub'[k] = stub[k] /\ paid'[k] = paid[k]
        /\ \A q \in Proc \ {p} : /\ pc'[q] = pc[q] /\ key'[q] = key[q]
                                 /\ outcome'[q] = outcome[q]
        /\ outcome'[p] = outcome[p] \/ outcome'[p].key # k
    BY <1>4 DEF Lookup, Call, CallFails, OpenStub, FlushStub, Store, ReadStub,
       StoreRecorded, OpenEntry, FlushEntry, Go, Finish, TypeOK
  <2> QED
    BY <1>1, <1>4, <2>1, OtherRequest
\* From here on, p is the one process at work on k.
<1>5. ASSUME NEW p \in Proc, pc[p] # "idle", key[p] = k, key' = key,
             Lookup(p) \/ Call(p) \/ CallFails(p) \/ OpenStub(p) \/ FlushStub(p)
               \/ Store(p) \/ ReadStub(p) \/ StoreRecorded(p)
      PROVE  EntryQuiet(k)' /\ PaidQuiet(k)' /\ StubQuiet(k)'
  <2>1. \A q \in Proc : q # p /\ key[q] = k => pc[q] = "idle"
    BY <1>1, <1>5, Alone
  <2>2. \A q \in Proc \ {p} : pc'[q] = pc[q] /\ outcome'[q] = outcome[q]
    BY <1>5 DEF Lookup, Call, CallFails, OpenStub, FlushStub, Store, ReadStub,
       StoreRecorded, OpenEntry, FlushEntry, Go, Finish, TypeOK
  <2>3. \A labels : "idle" \notin labels => /\ At(k, labels) <=> pc[p] \in labels
                                            /\ At(k, labels)' <=> pc'[p] \in labels
    BY <1>5, <2>1, <2>2 DEF At
  <2>4. /\ At(k, {"flush", "recflush"}) <=> pc[p] \in {"flush", "recflush"}
        /\ At(k, {"open"}) <=> pc[p] \in {"open"}
        /\ At(k, {"call"}) <=> pc[p] \in {"call"}
        /\ At(k, {"stubflush"}) <=> pc[p] \in {"stubflush"}
        /\ At(k, {"flush", "recflush"})' <=> pc'[p] \in {"flush", "recflush"}
        /\ At(k, {"open"})' <=> pc'[p] \in {"open"}
        /\ At(k, {"call"})' <=> pc'[p] \in {"call"}
        /\ At(k, {"stubflush"})' <=> pc'[p] \in {"stubflush"}
    BY <2>3
  <2>5. CASE Lookup(p)
    <3>1. /\ UNCHANGED <<entry, stub, paid>> /\ pc[p] = "lookup"
          /\ pc'[p] \in {"idle", "stub", "call"}
          /\ pc'[p] = "call" => entry[k] = Absent
          /\ outcome'[p] = outcome[p] \/ outcome'[p].kind \in {"replayed", "corrupt"}
      BY <1>5, <2>5 DEF Lookup, Go, Finish, TypeOK
    <3>2. entry[k] = Absent => paid[k] = 0
      <4>1. paid[k] \in Nat
        BY DEF TypeOK
      <4>2. ~At(k, {"open"})
        BY <2>4, <3>1
      <4> QED
        BY <1>1, <4>1, <4>2 DEF PaidQuiet
    <3>3. EntryQuiet(k)' /\ PaidQuiet(k)'
      BY <1>1, <2>4, <3>1, <3>2 DEF EntryQuiet, PaidQuiet
    <3>4. stub'[k] = stub[k] /\ stub[k] # Empty
      BY <1>1, <2>4, <3>1 DEF StubQuiet
    <3>5. \A q \in Proc : outcome'[q].kind = "missing" => outcome'[q] = outcome[q]
      BY <2>2, <3>1
    <3> QED
      BY <1>1, <3>3, <3>4, <3>5 DEF StubQuiet
  <2>6. CASE Call(p) \/ CallFails(p)
    BY <1>1, <1>5, <2>2, <2>4, <2>6
       DEF Call, CallFails, Go, EntryQuiet, PaidQuiet, StubQuiet, TypeOK
  <2>7. CASE OpenStub(p) \/ FlushStub(p)
    BY <1>1, <1>5, <2>2, <2>4, <2>7, Sentinels
       DEF OpenStub, FlushStub, Go, Finish, EntryQuiet, PaidQuiet, StubQuiet, TypeOK
  <2>8. CASE ReadStub(p)
    BY <1>1, <1>5, <2>2, <2>4, <2>8
       DEF ReadStub, Go, Finish, EntryQuiet, PaidQuiet, StubQuiet, TypeOK
  <2>9. ASSUME NEW from \in {"open", "recopen"}, NEW to \in {"flush", "recflush"},
               OpenEntry(p, from, to)
        PROVE  EntryQuiet(k)' /\ PaidQuiet(k)' /\ StubQuiet(k)'
    BY <1>1, <1>5, <2>2, <2>4, <2>9, Sentinels
       DEF OpenEntry, Go, EntryQuiet, PaidQuiet, StubQuiet, TypeOK
  <2>10. ASSUME NEW from \in {"flush", "recflush"}, NEW kind \in {"live", "recorded"},
                FlushEntry(p, from, kind), text[p] \in Text
         PROVE  EntryQuiet(k)' /\ PaidQuiet(k)' /\ StubQuiet(k)'
    BY <1>1, <1>5, <2>2, <2>4, <2>10, Sentinels
       DEF FlushEntry, AfterFlush, Finish, EntryQuiet, PaidQuiet, StubQuiet, TypeOK
  <2>11. pc[p] \in {"flush", "recflush"} => text[p] \in Text
    BY DEF StoredIsWhole, TypeOK
  <2>12. CASE Store(p) \/ StoreRecorded(p)
    BY <2>9, <2>10, <2>11, <2>12 DEF Store, StoreRecorded, FlushEntry
  <2> QED
    BY <1>5, <2>5, <2>6, <2>7, <2>8, <2>12
<1>6. ASSUME NEW p \in Proc, Crash(p) PROVE FALSE
  BY <1>1, <1>6 DEF Crash, Quiet, TypeOK
<1> QED
  <2>1. ASSUME NEW p \in Proc, Lookup(p) \/ Call(p) \/ CallFails(p) \/ OpenStub(p)
                                 \/ FlushStub(p) \/ Store(p) \/ ReadStub(p)
                                 \/ StoreRecorded(p)
        PROVE  pc[p] # "idle" /\ key' = key
    BY <2>1 DEF Lookup, Call, CallFails, OpenStub, FlushStub, Store, ReadStub,
       StoreRecorded, OpenEntry, FlushEntry
  <2>2. CASE Next
    <3>1. PICK p \in Proc :
            \/ \E l \in Key, off \in BOOLEAN : Request(p, l, off)
            \/ \E l \in Key : Record(p, l)
            \/ Lookup(p) \/ Call(p) \/ CallFails(p) \/ OpenStub(p) \/ FlushStub(p)
            \/ Store(p) \/ ReadStub(p) \/ StoreRecorded(p)
            \/ Crash(p)
      BY <2>2 DEF Next
    <3>2. CASE \/ \E l \in Key, off \in BOOLEAN : Request(p, l, off)
              \/ \E l \in Key : Record(p, l)
      BY <1>3, <3>2
    <3>3. CASE Lookup(p) \/ Call(p) \/ CallFails(p) \/ OpenStub(p) \/ FlushStub(p)
                \/ Store(p) \/ ReadStub(p) \/ StoreRecorded(p)
      <4>1. pc[p] # "idle" /\ key' = key
        BY <2>1, <3>3
      <4> QED
        BY <1>4, <1>5, <3>3, <4>1
    <3>4. CASE Crash(p)
      BY <1>6, <3>4
    <3> QED
      BY <3>1, <3>2, <3>3, <3>4
  <2> QED
    BY <1>2, <2>2

\* Without a kill, and unless two processes were at work on one request, no
\* entry is left torn, no request is paid for twice, and a request that was
\* reported missing has a stub the recording script can read.
THEOREM TroubleTakesOverlap == Spec => []TroubleNeedsOverlap
<1>1. Init => Overlaps /\ Untroubled
  BY Sentinels DEF Init, Overlaps, Untroubled, EntryQuiet, PaidQuiet, StubQuiet, At
<1>2. Inv /\ Overlaps /\ Untroubled /\ [Next]_vars => Overlaps' /\ Untroubled'
  BY OverlapsStep, UntroubledStep DEF Inv
<1>3. Inv /\ Untroubled => TroubleNeedsOverlap
  <2> SUFFICES ASSUME Inv, Untroubled, NEW k \in Key, crashes = 0, ~overlapped[k]
               PROVE  /\ ~(entry[k] \in {Empty, Garbled} /\ ~WritingEntry(k))
                      /\ ~(paid[k] > 1)
                      /\ ~(/\ \E p \in Proc : outcome[p].kind = "missing" /\ outcome[p].key = k
                           /\ stub[k] # Present
                           /\ ~\E p \in Proc : pc[p] = "stubflush" /\ key[p] = k)
    BY DEF TroubleNeedsOverlap, Inv, TypeOK
  <2>1. EntryQuiet(k) /\ PaidQuiet(k) /\ StubQuiet(k)
    BY DEF Untroubled, Quiet
  <2> QED
    BY <2>1 DEF EntryQuiet, PaidQuiet, StubQuiet, At, WritingEntry, Inv, TypeOK
<1> QED
  BY <1>1, <1>2, <1>3, InvHolds, PTL DEF Spec
=============================================================================
