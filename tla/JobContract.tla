---------------------------- MODULE JobContract -----------------------------
(***************************************************************************)
(* What the table of jobs promises to everyone who reads it: a job goes    *)
(* once from QUEUED to RUNNING and once to a terminal status that stands;  *)
(* it is computed by at most one worker, at most once, and only from the   *)
(* QUEUED -> RUNNING transition; a result comes only from whoever computes *)
(* it.  (docs/architecture.md, rules 5 and 6; ADR 0006, rule 6.)           *)
(***************************************************************************)
CONSTANTS Jobs

VARIABLES
    status,     \* what GET /v1/jobs/:id answers
    computing   \* the jobs some worker is computing

vars == <<status, computing>>

Pending == {"QUEUED", "RUNNING"}
Terminal == {"COMPLETED", "FAILED", "CANCELLED"}

Init ==
    /\ status = [j \in Jobs |-> "none"]
    /\ computing = {}

Submit(j) ==
    /\ status[j] = "none"
    /\ status' = [status EXCEPT ![j] = "QUEUED"]
    /\ UNCHANGED computing

(* The worker that wins the transition may still not get to know it. *)
Begin(j) ==
    /\ status[j] = "QUEUED"
    /\ status' = [status EXCEPT ![j] = "RUNNING"]
    /\ computing' \in {computing, computing \cup {j}}

Finish(j) ==
    /\ status[j] = "RUNNING"
    /\ j \in computing
    /\ status' = [status EXCEPT ![j] = "COMPLETED"]
    /\ computing' = computing \ {j}

(* Jobs closed without a result; whoever computes one may not notice yet. *)
Close(S, s) ==
    /\ \A j \in S : status[j] \in Pending
    /\ status' = [j \in Jobs |-> IF j \in S THEN s ELSE status[j]]
    /\ UNCHANGED computing

(* Computations end without a word: a failure, a crash. *)
Abandon(S) ==
    /\ computing' = computing \ S
    /\ UNCHANGED status

Next ==
    \/ \E j \in Jobs : Submit(j) \/ Begin(j) \/ Finish(j)
    \/ \E S \in SUBSET Jobs, s \in {"FAILED", "CANCELLED"} : Close(S, s)
    \/ \E S \in SUBSET Jobs : Abandon(S)

Spec == Init /\ [][Next]_vars
=============================================================================
