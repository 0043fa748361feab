-------------------------- MODULE VerifiedSelection --------------------------
(***************************************************************************)
(* What legacymind migrate promises of its selection, whatever order it    *)
(* tries candidates in: each is tried at most once in a run, the one that  *)
(* is published is one that passed when it was tried in that very run, and *)
(* "no winner" is published only when none did.  What a run publishes      *)
(* stays until a later one has ended its search, also when that one is cut *)
(* short; the later one takes it away and puts its own in its place, and   *)
(* cut short between the two it leaves nothing, never something else.      *)
(***************************************************************************)
CONSTANTS
    Id,      \* candidates
    None     \* no winner

VARIABLES
    stage,      \* "closed", "open" (a run searches) or "publishing"
    tried,      \* the candidates it has tried
    passed,     \* those of them that passed
    published   \* the set of what is published: empty, then one winner or None

vars == <<stage, tried, passed, published>>

Init == stage = "closed" /\ tried = {} /\ passed = {} /\ published = {}

Start ==
    /\ stage = "closed" /\ stage' = "open"
    /\ UNCHANGED <<tried, passed, published>>

Try(id) ==
    /\ stage = "open" /\ id \notin tried
    /\ tried' = tried \cup {id}
    /\ passed' \in {passed, passed \cup {id}}
    /\ UNCHANGED <<stage, published>>

\* Nothing more is tried, and what was published makes room.
Withdraw ==
    /\ stage = "open" /\ stage' = "publishing"
    /\ published' = {}
    /\ UNCHANGED <<tried, passed>>

Close == stage' = "closed" /\ tried' = {} /\ passed' = {}

Publish(w) ==
    /\ stage = "publishing"
    /\ IF passed = {} THEN w = None ELSE w \in passed
    /\ published' = {w}
    /\ Close

Abort == stage # "closed" /\ Close /\ UNCHANGED published

Next ==
    \/ Start \/ Withdraw \/ Abort
    \/ \E id \in Id : Try(id)
    \/ \E w \in Id \cup {None} : Publish(w)

\* A run that has begun is ended, one way or the other.
End == Abort \/ \E w \in Id \cup {None} : Publish(w)

Spec == Init /\ [][Next]_vars /\ WF_vars(End)
=============================================================================
