------------------------------- MODULE DiffExec -------------------------------
(***************************************************************************)
(* Layer B of the verifier, cli/src/verify/diffexec.ts: every case of a    *)
(* batch (one candidate) is run through the legacy and the modern program, *)
(* one after the other, and the two runs are compared.                     *)
(*                                                                         *)
(* One CLI process verifies Batches candidates in turn.  The legacy        *)
(* program of a file-writing module runs in a container which all the      *)
(* cases of all the batches share (one per image), through the run.sh of   *)
(* harness/gnucobol/Dockerfile.file: remove the output file, run the       *)
(* program, print the file.  A case that takes too long is cut off by      *)
(* killing the docker client; the program inside the container is not      *)
(* told, and may go on beside the cases that follow.                       *)
(*                                                                         *)
(* A legacy program either writes one record per run, or ends abnormally   *)
(* before it opens its file (the cases of Abends).  A record is named by   *)
(* the case that wrote it, so that whose output was read can be told.      *)
(***************************************************************************)
EXTENDS Naturals, FiniteSets, Sequences

CONSTANTS
    N,           \* the cases of a batch are 1 .. N
    Abends,      \* the cases on which the program terminates abnormally
    Batches,     \* how many candidates one process verifies
    Noise,       \* something printed that is not a KEY=VALUE line
    Killed       \* the exit status of a run that did not exit (null)

ASSUME Parameters ==
    /\ N \in Nat \ {0} /\ Batches \in Nat \ {0}
    /\ Abends \subseteq 1..N
    /\ Killed \notin {0, 1}

Case == 1..N

(***************************************************************************)
(* runSide's result: a spawn error or timeout, the exit status, and what   *)
(* was printed: the KEY=VALUE lines, one per record, and other lines.      *)
(***************************************************************************)
RunResult == [error : BOOLEAN, exit : {0, 1, Killed},
              fields : SUBSET Case, rest : SUBSET {Noise}]
Config == [abnormal : BOOLEAN, raw : BOOLEAN]
Status == {"PASS", "FAIL", "ERROR"}

\* loadConfig takes abnormalTermination only from a module whose IR really
\* contains a statement that terminates abnormally.
LoadConfig == {c \in Config : c.abnormal => Abends # {}}

\* compareRaw and compareStdout: byte for byte under the raw contract, field
\* by field otherwise, and byte for byte again when there are no fields.
RawEqual(l, m) == l.fields = m.fields /\ l.rest = m.rest
Agree(c, l, m) ==
    IF c.raw \/ l.fields \cup m.fields = {}
      THEN RawEqual(l, m)
      ELSE l.fields = m.fields

\* The classification at the heart of runCase.
HarnessBroke(l, m) == l.error \/ m.error
BothExited(l, m) == l.exit # Killed /\ m.exit # Killed

CaseStatus(c, l, m) ==
    CASE HarnessBroke(l, m) -> "ERROR"
      [] ~HarnessBroke(l, m) /\ c.abnormal /\ BothExited(l, m) /\ l.exit # m.exit
           -> "FAIL"
      [] ~HarnessBroke(l, m) /\ ~(c.abnormal /\ BothExited(l, m)) /\
         (l.exit # 0 \/ m.exit # 0) -> "ERROR"
      [] OTHER -> IF Agree(c, l, m) THEN "PASS" ELSE "FAIL"

\* Mutants of Verdict: only failures are counted, not errors; the last case
\* decides.
NoFailures(rs) == IF \A i \in DOMAIN rs : rs[i] # "FAIL" THEN "PASS" ELSE "FAIL"
LastCase(rs) == rs[Len(rs)]

\* runDiffCases: a batch passes when every one of its cases does.
Verdict(rs) == IF \A i \in DOMAIN rs : rs[i] = "PASS" THEN "PASS" ELSE "FAIL"

-----------------------------------------------------------------------------
(***************************************************************************)
(* The container: run.sh executions and the output file they share.        *)
(*                                                                         *)
(* An execution is at "start" (about to rm), "clean" (file removed, the    *)
(* program starts), "open" (the file is open, nothing written), "closed"   *)
(* (the record is written) or "done".  It writes into the inode it opened: *)
(* a file removed under it is written to no avail.                         *)
(***************************************************************************)
NoFile == [ino |-> 0, recs |-> {}]
Exec == [batch : 1..(Batches + 1), case : Case, ino : Nat,
         step : {"start", "clean", "open", "closed", "done"}]

VARIABLES
    config,      \* the loaded config
    batch,       \* the batch being verified; beyond Batches: the process ends
    live,        \* the execution the harness waits for; step "done": none
    legacy,      \* the legacy run of this case, once there is one
    zombies,     \* executions the harness has given up on
    file,        \* the output file: its inode and its records
    inodes,      \* inodes handed out so far
    results,     \* statuses of this batch's cases, in order
    verdicts,    \* verdicts of the batches verified
    faithful,    \* history: <<batch, case>> where the candidate did as legacy
    cut          \* history: batches in which a run was cut off or not spawned

container == <<zombies, file, inodes>>
reports == <<results, verdicts, faithful>>
vars == <<config, batch, live, legacy, container, reports, cut>>

NoRun == [error |-> TRUE, exit |-> Killed, fields |-> {}, rest |-> {}]
Current == Len(results) + 1
Fresh(b, c) == [batch |-> b, case |-> c, ino |-> 0, step |-> "start"]

\* What the program prints, and how it ends, when nothing disturbs it.
Own(c) == IF c \in Abends THEN {} ELSE {c}
ExitOf(c) == IF c \in Abends THEN 1 ELSE 0

\* A modern run m that does on case c what the legacy program does.
DoesAsLegacy(m, c) ==
    /\ ~m.error
    /\ m.exit = ExitOf(c)
    /\ m.fields = Own(c)
    /\ config.raw \/ Own(c) = {} => m.rest = {}

Running(e) == e.step # "done"

TypeOK ==
    /\ config \in LoadConfig
    /\ batch \in 1..(Batches + 1)
    /\ live \in Exec
    /\ legacy \in RunResult
    /\ zombies \in SUBSET {e \in Exec : Running(e)}
    /\ file \in [ino : Nat, recs : SUBSET Case]
    /\ inodes \in Nat
    /\ results \in Seq(Status) /\ Len(results) < N
    /\ verdicts \in [1..(batch - 1) -> {"PASS", "FAIL"}]
    /\ faithful \subseteq (1..Batches) \X Case
    /\ cut \subseteq 1..Batches

Init ==
    /\ config \in LoadConfig
    /\ batch = 1
    /\ live = Fresh(1, 1)
    /\ legacy = NoRun
    /\ zombies = {}
    /\ file = NoFile
    /\ inodes = 0
    /\ results = <<>>
    /\ verdicts = <<>>
    /\ faithful = {}
    /\ cut = {}

(***************************************************************************)
(* The steps of an execution e, live or not, up to its record: what e, the *)
(* file and the inode count become.                                        *)
(***************************************************************************)
\* Mutant of Removed: the file of the run before is left in place.
Kept(e) == [exec |-> [e EXCEPT !.step = "clean"], file |-> file, inodes |-> inodes]

Removed(e) ==
    [exec |-> [e EXCEPT !.step = "clean"], file |-> NoFile, inodes |-> inodes]

\* OPEN OUTPUT truncates the file that is there or makes a new one; on the
\* cases of Abends the program ends before.
Opened(e) ==
    LET i == IF file = NoFile THEN inodes + 1 ELSE file.ino IN
    IF e.case \in Abends
      THEN [exec |-> [e EXCEPT !.step = "closed"], file |-> file, inodes |-> inodes]
      ELSE [exec |-> [e EXCEPT !.step = "open", !.ino = i],
            file |-> [ino |-> i, recs |-> {}],
            inodes |-> IF file = NoFile THEN i ELSE inodes]

Wrote(e) ==
    [exec |-> [e EXCEPT !.step = "closed"],
     file |-> IF file.ino = e.ino THEN [file EXCEPT !.recs = @ \cup {e.case}]
                                  ELSE file,
     inodes |-> inodes]

After(e) == CASE e.step = "start" -> Removed(e)
              [] e.step = "clean" -> Opened(e)
              [] e.step = "open" -> Wrote(e)

\* run.sh prints the file and passes the exit status on.
Cat(e) == [error |-> FALSE, exit |-> ExitOf(e.case), fields |-> file.recs,
           rest |-> {}]

(***************************************************************************)
(* The process                                                             *)
(***************************************************************************)
Waiting == batch <= Batches /\ Running(live)

\* The program this case waits for takes a step of its own.
LiveStep ==
    /\ Waiting /\ live.step # "closed"
    /\ live' = After(live).exec
    /\ file' = After(live).file
    /\ inodes' = After(live).inodes
    /\ UNCHANGED <<config, batch, legacy, zombies, reports, cut>>

\* It prints and ends before the timeout.
LiveEnds ==
    /\ Waiting /\ live.step = "closed"
    /\ live' = [live EXCEPT !.step = "done"]
    /\ legacy' = Cat(live)
    /\ UNCHANGED <<config, batch, container, reports, cut>>

\* Mutant of Timeout: the cut is noted and the run awaited all the same.
TimeoutUnheeded ==
    /\ Waiting
    /\ cut' = cut \cup {batch}
    /\ UNCHANGED <<config, batch, live, legacy, container, reports>>

\* spawnSync's timeout: the docker client is killed.  The execution may die
\* with it, or run on inside the container.
Timeout ==
    /\ Waiting
    /\ live' = [live EXCEPT !.step = "done"]
    /\ legacy' = NoRun
    /\ zombies' \in {zombies, zombies \cup {live}}
    /\ cut' = cut \cup {batch}
    /\ UNCHANGED <<config, batch, file, inodes, reports>>

\* An execution nobody waits for goes on; what it prints is lost.
ZombieStep ==
    /\ batch <= Batches
    /\ \E e \in zombies :
         \/ /\ e.step # "closed"
            /\ zombies' = (zombies \ {e}) \cup {After(e).exec}
            /\ file' = After(e).file
            /\ inodes' = After(e).inodes
         \/ /\ e.step = "closed"
            /\ zombies' = zombies \ {e}
            /\ UNCHANGED <<file, inodes>>
    /\ UNCHANGED <<config, batch, live, legacy, reports, cut>>

\* The modern program is run in turn, with whatever result, and runCase
\* classifies the pair.  After the last case the batch gets its verdict.
ModernRuns == {m \in RunResult : m.error => m = NoRun}

Judge ==
    /\ batch <= Batches /\ ~Running(live)
    /\ \E m \in ModernRuns :
         LET rs == Append(results, CaseStatus(config, legacy, m)) IN
         /\ cut' = IF m.error THEN cut \cup {batch} ELSE cut
         /\ faithful' = IF DoesAsLegacy(m, Current)
                          THEN faithful \cup {<<batch, Current>>} ELSE faithful
         /\ \/ /\ Len(rs) < N
               /\ results' = rs
               /\ live' = Fresh(batch, Len(rs) + 1)
               /\ UNCHANGED <<verdicts, batch>>
            \/ /\ Len(rs) = N
               /\ results' = <<>>
               /\ verdicts' = Append(verdicts, Verdict(rs))
               /\ batch' = batch + 1
               /\ live' = Fresh(batch + 1, 1)
    /\ legacy' = NoRun
    /\ UNCHANGED <<config, container>>

\* stopPersistentContainers when the process exits.
Exit ==
    /\ batch > Batches
    /\ zombies' = {}
    /\ file' = NoFile
    /\ UNCHANGED <<config, batch, live, legacy, inodes, reports, cut>>

Next == LiveStep \/ LiveEnds \/ Timeout \/ ZombieStep \/ Judge \/ Exit

\* The program under test may hang; the harness's timer and its own work do
\* not.
Spec == Init /\ [][Next]_vars /\ WF_vars(Timeout) /\ WF_vars(Judge)

-----------------------------------------------------------------------------
\* Nothing was cut off in the batches before b.
Undisturbed(b) == \A t \in cut : t >= b

\* What a verdict of PASS is worth to migrate, which selects by it: on every
\* case the candidate did as the legacy program does undisturbed, if nothing
\* was cut off in an EARLIER batch (a cut in this one cannot go with a PASS).
\* And no module that abends undeclared passes, whatever was cut off.
PassIsEquivalence ==
    \A b \in DOMAIN verdicts : verdicts[b] = "PASS" =>
        /\ Abends # {} => config.abnormal
        /\ Undisturbed(b) => \A c \in Case : <<b, c>> \in faithful

\* And the other way: no candidate that does as the legacy program is turned
\* down, unless a run was cut off or the module abends without declaring it.
NoFalseAlarm ==
    \A b \in DOMAIN verdicts :
        /\ Undisturbed(b + 1)
        /\ config.abnormal \/ Abends = {}
        /\ \A c \in Case : <<b, c>> \in faithful
        => verdicts[b] = "PASS"

\* Whatever hangs, the process gets through all its batches.
Finishes == <>(batch > Batches)

\* Dockerfile.file (lines 9-12): the file is removed before each run, so that
\* a crash before OPEN OUTPUT "can never leak a previous case's records into
\* the stream".
CrashNeverLeaks == Current \in Abends => legacy.fields = {}
=============================================================================
