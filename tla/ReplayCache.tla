----------------------------- MODULE ReplayCache -----------------------------
(***************************************************************************)
(* The model replay cache: completeWithCache of cli/src/model/client.ts,   *)
(* the Anthropic client behind it, and cli/scripts/record-response.mjs.    *)
(*                                                                         *)
(* Every process is one run of the CLI (or of the recording script)        *)
(* working on one request at a time; several may share the cache           *)
(* directory.  The directory is the only shared state: for each request    *)
(* key a completion entry (<key>.json) and a request stub                  *)
(* (<key>.request.json).  writeFileSync is an open that truncates followed *)
(* by a write, so a reader, a second writer or a crash can fall between    *)
(* the two.                                                                *)
(***************************************************************************)
EXTENDS Naturals, FiniteSets

CONSTANTS
    Proc,        \* processes: CLI runs and recording scripts
    Key,         \* request keys (the hash of model, maxTokens, system, prompt)
    Text,        \* completion texts
    Absent,      \* the file does not exist
    Empty,       \* the file was truncated by an open and not written yet
    Garbled,     \* two overlapping writes left bytes of both
    Present,     \* a complete request stub (every writer writes the same one)
    None,        \* no key, no text
    MaxCalls,    \* bound: live calls per key
    MaxCrashes   \* bound: processes killed

ASSUME Sentinels ==
    /\ Absent \notin {Empty, Garbled, Present}
    /\ Empty \notin {Garbled, Present}
    /\ {Absent, Empty, Garbled, None} \cap Text = {}
    /\ None \notin Key
ASSUME Bounds == MaxCalls \in Nat /\ MaxCrashes \in Nat

VARIABLES
    entry,       \* entry[k]: content of <key>.json
    stub,        \* stub[k]: content of <key>.request.json
    pc,          \* pc[p]: where process p is
    key,         \* key[p]: the request p works on
    text,        \* text[p]: the completion p holds and has not stored yet
    offline,     \* offline[p]: p was started with --offline
    outcome,     \* outcome[p]: how p's last request ended
    whole,       \* history: the complete texts ever obtained for a key
    calls,       \* history: live calls placed per key
    paid,        \* history: live calls per key that returned a completion
    overlapped,  \* history: two processes worked on the key at once
    crashes      \* history: processes killed so far

files == <<entry, stub>>
history == <<whole, calls, paid, overlapped, crashes>>
vars == <<files, pc, key, text, offline, outcome, history>>

Labels == {"idle", "lookup", "stub", "stubflush", "call", "open", "flush",
           "readstub", "recopen", "recflush"}
Kinds == {"none", "replayed", "live", "missing", "corrupt", "recorded",
          "refused"}
Outcomes == [kind : Kinds, key : Key \cup {None}, text : Text \cup {None}]
StopReasons == {"end_turn", "max_tokens"}

TypeOK ==
    /\ entry \in [Key -> Text \cup {Absent, Empty, Garbled}]
    /\ stub \in [Key -> {Absent, Empty, Present}]
    /\ pc \in [Proc -> Labels]
    /\ key \in [Proc -> Key \cup {None}]
    /\ \A p \in Proc : pc[p] # "idle" => key[p] \in Key
    /\ text \in [Proc -> Text \cup {None}]
    /\ offline \in [Proc -> BOOLEAN]
    /\ outcome \in [Proc -> Outcomes]
    /\ \A p \in Proc : outcome[p].kind # "none" => outcome[p].key \in Key
    /\ whole \in [Key -> SUBSET Text]
    /\ calls \in [Key -> Nat]
    /\ paid \in [Key -> Nat]
    /\ overlapped \in [Key -> BOOLEAN]
    /\ crashes \in Nat

Init ==
    /\ entry = [k \in Key |-> Absent]
    /\ stub = [k \in Key |-> Absent]
    /\ pc = [p \in Proc |-> "idle"]
    /\ key = [p \in Proc |-> None]
    /\ text = [p \in Proc |-> None]
    /\ offline = [p \in Proc |-> FALSE]
    /\ outcome = [p \in Proc |-> [kind |-> "none", key |-> None, text |-> None]]
    /\ whole = [k \in Key |-> {}]
    /\ calls = [k \in Key |-> 0]
    /\ paid = [k \in Key |-> 0]
    /\ overlapped = [k \in Key |-> FALSE]
    /\ crashes = 0

(***************************************************************************)
(* Helpers                                                                 *)
(***************************************************************************)
Go(p, label) == pc' = [pc EXCEPT ![p] = label]

\* p's request ends: it returns, throws or exits, and p is free again.
Finish(p, kind, t) ==
    /\ pc' = [pc EXCEPT ![p] = "idle"]
    /\ outcome' = [outcome EXCEPT
                     ![p] = [kind |-> kind, key |-> key[p], text |-> t]]

\* Mutants of IsCompletion: no check for text, no check for the stop reason.
TakesSilence(stop, t) == stop = "end_turn"
TakesTruncation(stop, t) == t # None

\* A response is a completion only if the model ended its turn with text
\* (anthropic.ts); anything else throws.
IsCompletion(stop, t) == stop = "end_turn" /\ t # None

\* The entry file after p's bytes are written at offset 0: p's entry alone
\* when the file is still as p's open left it, otherwise the longer of two
\* entries may show its tail.
AfterFlush(p) ==
    IF entry[key[p]] = Empty THEN {text[p]} ELSE {text[p], Garbled}

(***************************************************************************)
(* completeWithCache                                                       *)
(***************************************************************************)
\* A run of the CLI reaches a request; its mode was fixed at start.
Start(p, k, label, off) ==
    /\ pc[p] = "idle"
    /\ Go(p, label)
    /\ key' = [key EXCEPT ![p] = k]
    /\ text' = [text EXCEPT ![p] = None]
    /\ offline' = [offline EXCEPT ![p] = off]
    /\ overlapped' = [overlapped EXCEPT
          ![k] = @ \/ \E q \in Proc \ {p} : pc[q] # "idle" /\ key[q] = k]
    /\ UNCHANGED <<files, outcome, whole, calls, paid, crashes>>

Request(p, k, off) == Start(p, k, "lookup", off)

\* Mutant of Lookup: an online run asks the model without looking first.
LookupOfflineOnly(p) ==
    /\ pc[p] = "lookup"
    /\ ~offline[p]
    /\ Go(p, "call")
    /\ UNCHANGED <<files, key, text, offline, outcome, history>>

\* existsSync, then readFileSync and JSON.parse: the parse of a torn file
\* throws past every handler of migrate.
Lookup(p) ==
    /\ pc[p] = "lookup"
    /\ LET e == entry[key[p]] IN
       \/ /\ e \in Text
          /\ Finish(p, "replayed", e)
       \/ /\ e \in {Empty, Garbled}
          /\ Finish(p, "corrupt", None)
       \/ /\ e = Absent
          /\ Go(p, IF offline[p] THEN "stub" ELSE "call")
          /\ UNCHANGED outcome
    /\ UNCHANGED <<files, key, text, offline, history>>

\* The live call answers: either a completion, held until it is stored, or
\* something the client refuses, which falls back to the stub.
Call(p) ==
    /\ pc[p] = "call"
    /\ calls[key[p]] < MaxCalls
    /\ calls' = [calls EXCEPT ![key[p]] = @ + 1]
    /\ \E stop \in StopReasons, t \in Text \cup {None} :
         /\ whole' = IF stop = "end_turn" /\ t \in Text
                       THEN [whole EXCEPT ![key[p]] = @ \cup {t}]
                       ELSE whole
         /\ \/ /\ IsCompletion(stop, t)
               /\ text' = [text EXCEPT ![p] = t]
               /\ paid' = [paid EXCEPT ![key[p]] = @ + 1]
               /\ Go(p, "open")
            \/ /\ ~IsCompletion(stop, t)
               /\ Go(p, "stub")
               /\ UNCHANGED <<text, paid>>
    /\ UNCHANGED <<files, key, offline, outcome, overlapped, crashes>>

\* The SDK does not load, there are no credentials, or the network fails.
CallFails(p) ==
    /\ pc[p] = "call"
    /\ Go(p, "stub")
    /\ UNCHANGED <<files, key, text, offline, outcome, history>>

\* writeStub: open, then write, then throw MissingCacheEntryError.
OpenStub(p) ==
    /\ pc[p] = "stub"
    /\ stub' = [stub EXCEPT ![key[p]] = Empty]
    /\ Go(p, "stubflush")
    /\ UNCHANGED <<entry, key, text, offline, outcome, history>>

FlushStub(p) ==
    /\ pc[p] = "stubflush"
    /\ stub' = [stub EXCEPT ![key[p]] = Present]
    /\ Finish(p, "missing", None)
    /\ UNCHANGED <<entry, key, text, offline, history>>

\* Mutant of OpenEntry: the file is opened without being truncated.
OpenEntryInPlace(p, from, to) ==
    /\ pc[p] = from
    /\ Go(p, to)
    /\ UNCHANGED <<files, key, text, offline, outcome, history>>

\* The completion is stored, then returned.
OpenEntry(p, from, to) ==
    /\ pc[p] = from
    /\ entry' = [entry EXCEPT ![key[p]] = Empty]
    /\ Go(p, to)
    /\ UNCHANGED <<stub, key, text, offline, outcome, history>>

FlushEntry(p, from, kind) ==
    /\ pc[p] = from
    /\ \E e \in AfterFlush(p) : entry' = [entry EXCEPT ![key[p]] = e]
    /\ Finish(p, kind, text[p])
    /\ UNCHANGED <<stub, key, text, offline, history>>

Store(p) == OpenEntry(p, "open", "flush") \/ FlushEntry(p, "flush", "live")

(***************************************************************************)
(* record-response.mjs: an operator pairs a stub with a response file.     *)
(***************************************************************************)
Record(p, k) == Start(p, k, "readstub", TRUE)

\* No stub, or one that does not parse, ends the script without a write.
ReadStub(p) ==
    /\ pc[p] = "readstub"
    /\ \/ /\ stub[key[p]] # Present
          /\ Finish(p, "refused", None)
          /\ UNCHANGED <<text, whole>>
       \/ /\ stub[key[p]] = Present
          /\ \E t \in Text :
               /\ text' = [text EXCEPT ![p] = t]
               /\ whole' = [whole EXCEPT ![key[p]] = @ \cup {t}]
          /\ Go(p, "recopen")
          /\ UNCHANGED outcome
    /\ UNCHANGED <<files, key, offline, calls, paid, overlapped, crashes>>

StoreRecorded(p) ==
    OpenEntry(p, "recopen", "recflush") \/ FlushEntry(p, "recflush", "recorded")

(***************************************************************************)
(* The environment kills a process between two of its steps.               *)
(***************************************************************************)
Crash(p) ==
    /\ pc[p] # "idle"
    /\ crashes < MaxCrashes
    /\ crashes' = crashes + 1
    /\ Finish(p, "none", None)
    /\ UNCHANGED <<files, key, text, offline, whole, calls, paid, overlapped>>

Next ==
    \E p \in Proc :
        \/ \E k \in Key, off \in BOOLEAN : Request(p, k, off)
        \/ \E k \in Key : Record(p, k)
        \/ Lookup(p) \/ Call(p) \/ CallFails(p)
        \/ OpenStub(p) \/ FlushStub(p)
        \/ Store(p) \/ ReadStub(p) \/ StoreRecorded(p)
        \/ Crash(p)

Spec == Init /\ [][Next]_vars

-----------------------------------------------------------------------------
WritingEntry(k) == \E p \in Proc : pc[p] \in {"flush", "recflush"} /\ key[p] = k
Whole(p) == outcome[p].kind \in {"replayed", "live", "recorded"}

\* What migrate is handed for a request, whether replayed, live or recorded,
\* is a text some complete answer to that same request consisted of: never a
\* truncated answer, a torn file or the bytes of two entries (client.ts
\* replays whatever parses, so everything depends on what is stored).
ReplayIsWhole ==
    \A p \in Proc : Whole(p) => outcome[p].text \in whole[outcome[p].key]

\* The strengthening of ReplayIsWhole that every step preserves: what is in
\* the directory, and what a writer holds, is a complete answer already.
StoredIsWhole ==
    /\ \A k \in Key : entry[k] \in Text => entry[k] \in whole[k]
    /\ \A p \in Proc :
         pc[p] \in {"open", "flush", "recopen", "recflush"} =>
           text[p] \in whole[key[p]]

\* It takes a kill, or two processes at work on one request, to leave behind
\* an entry that no reader can parse and nobody is about to complete (its key
\* is unusable for good), to pay the model twice for one request, and to report
\* a request missing without a stub the recording script can read.
TroubleNeedsOverlap ==
    \A k \in Key :
        \/ entry[k] \in {Empty, Garbled} /\ ~WritingEntry(k)
        \/ paid[k] > 1
        \/ /\ \E p \in Proc : outcome[p].kind = "missing" /\ outcome[p].key = k
           /\ stub[k] # Present
           /\ ~\E p \in Proc : pc[p] = "stubflush" /\ key[p] = k
        => crashes > 0 \/ overlapped[k]

\* A stored completion is what every later run replays: it changes only when
\* an operator records another, or when a process that had looked before it
\* was stored finishes its own live call after it.
StoredStays ==
    [][\A k \in Key :
          entry[k] \in Text /\ entry'[k] # entry[k] =>
              \/ overlapped[k]
              \/ \E p \in Proc : pc[p] = "recopen" /\ key[p] = k]_vars
=============================================================================
