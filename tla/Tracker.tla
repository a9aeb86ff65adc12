------------------------------- MODULE Tracker ------------------------------
(***************************************************************************)
(* A page that follows one job: the tracker (ui/tracker.js), the state it  *)
(* shows (domain/job-state.js) and the client of the stream (api/sse.js),  *)
(* composed with the gateway's EventStream.  Following another job, or     *)
(* none, aborts what the page was doing; what the server has on its way    *)
(* for an aborted task may still reach the page.                           *)
(***************************************************************************)
EXTENDS EventStream

CONSTANTS
    MaxGestures,    \* bound on the jobs the person opens, follows or leaves
    MaxFailures     \* maxFailures (8 in the code)

ASSUME TrackerBoundsAssumption == MaxGestures \in Nat /\ MaxFailures \in Nat \ {0}
ASSUME AnswersAssumption == None \notin {"asked", "failed"}

VARIABLES
    tr,         \* the tracking state: job, what was last seen of it, whether it was lost
    gestures,   \* the controllers created so far: each is known by its number
    controller, \* the one in charge, 0 when none
    fetch,      \* the GET of each opening
    fol         \* followJob: its step, connection, failures in a row, progressed

pageVars == <<tr, gestures, controller, fetch, fol>>
vars == <<serverVars, pageVars>>

Turns == 1..MaxGestures
Idle == [step |-> "idle", conn |-> None, failures |-> 0, progressed |-> FALSE]
FolSteps == {"idle", "dial", "stream", "waiting"}
NoFetch == [of |-> None, answer |-> None]

TypeOK ==
    /\ StreamTypeOK
    /\ tr \in [jobId: Jobs \cup {None}, seen: Status \cup {None}, lost: BOOLEAN]
    /\ gestures \in 0..MaxGestures
    /\ controller \in 0..gestures
    /\ fetch \in [Turns -> [of: Jobs \cup {None},
                            answer: {"asked", "failed", None} \cup Status]]
    /\ fol \in [step: FolSteps, conn: Conns \cup {None}, failures: 0..MaxFailures,
                progressed: BOOLEAN]

NoTracking == [jobId |-> None, seen |-> None, lost |-> FALSE]

Init ==
    /\ StreamInit
    /\ tr = NoTracking
    /\ gestures = 0 /\ controller = 0
    /\ fetch = [t \in Turns |-> NoFetch]
    /\ fol = Idle

-----------------------------------------------------------------------------
(* trackingReduce.                                                         *)
IsFinal(s) == s.seen \in Terminal
Track(j) == [NoTracking EXCEPT !.jobId = j]
Resume(j) == IF tr.jobId = j THEN [tr EXCEPT !.lost = FALSE] ELSE Track(j)
JobSeen(j, s) ==
    IF tr.jobId /= j \/ IsFinal(tr) THEN tr ELSE [tr EXCEPT !.seen = s, !.lost = FALSE]
Lost == IF tr.jobId = None \/ IsFinal(tr) THEN tr ELSE [tr EXCEPT !.lost = TRUE]

(***************************************************************************)
(* Aborting hangs up: at most one chunk of the answer has been read and    *)
(* not handled yet.                                                        *)
(***************************************************************************)
Hang(x) == IF x.wire = <<>> THEN HungUp(x) ELSE [x EXCEPT !.hung = TRUE, !.wire = <<Head(@)>>]
AbortStreamMutant == conn' = conn

AbortStream ==
    conn' = [c \in Conns |-> IF c = fol.conn THEN Hang(conn[c]) ELSE conn[c]]

Gesture ==
    /\ gestures < MaxGestures
    /\ gestures' = gestures + 1
    /\ AbortStream
    /\ UNCHANGED <<job, inUse, perKey>>

(* follow: an upload was accepted, or the person reconnects a lost job.    *)
Follow(j) ==
    /\ Gesture
    /\ controller' = gestures'
    /\ tr' = Resume(j)
    /\ fol' = [Idle EXCEPT !.step = "dial"]
    /\ UNCHANGED fetch

(* open: a job of the history; its row is read first.                      *)
Open(j) ==
    /\ Gesture
    /\ controller' = gestures'
    /\ tr' = Track(j)
    /\ fol' = Idle
    /\ fetch' = [fetch EXCEPT ![gestures'] = [of |-> j, answer |-> "asked"]]

Stop ==
    /\ tr /= NoTracking
    /\ Gesture
    /\ controller' = 0
    /\ tr' = NoTracking
    /\ fol' = Idle
    /\ UNCHANGED fetch

(* GET /v1/jobs/:id: the row as it is when the server reads it, or no answer. *)
Answer(t) ==
    /\ fetch[t].answer = "asked"
    /\ fetch' = [fetch EXCEPT ![t].answer =
                   IF job[fetch[t].of] = "GONE" THEN "failed" ELSE job[fetch[t].of]]
    /\ UNCHANGED <<serverVars, tr, gestures, controller, fol>>

NoAnswer(t) ==
    /\ fetch[t].answer = "asked"
    /\ fetch' = [fetch EXCEPT ![t].answer = "failed"]
    /\ UNCHANGED <<serverVars, tr, gestures, controller, fol>>

AbortedMutant(t) == FALSE

(* mine.signal.aborted: another gesture has taken the page.                *)
Aborted(t) == t /= controller

(***************************************************************************)
(* The answer reaches open.  A job that goes on is followed under a        *)
(* controller of its own: it has the number of the opening's, of which     *)
(* nothing else is left.                                                   *)
(***************************************************************************)
Opened(t) ==
    LET answer == fetch[t].answer
        goesOn == ~Aborted(t) /\ answer \in Pending
    IN
    /\ answer \in Status \cup {"failed"}
    /\ fetch' = [fetch EXCEPT ![t] = NoFetch]
    /\ tr' = IF Aborted(t) THEN tr
             ELSE IF answer = "failed" THEN Lost ELSE JobSeen(fetch[t].of, answer)
    /\ fol' = IF goesOn THEN [Idle EXCEPT !.step = "dial"] ELSE fol
    /\ controller' = IF t = controller /\ ~goesOn THEN 0 ELSE controller
    /\ UNCHANGED <<serverVars, gestures>>

-----------------------------------------------------------------------------
(* followJob.                                                              *)
Dial(c) ==
    /\ fol.step = "dial"
    /\ \E d \in Conns : conn[d].step = "unused"
    /\ c = CHOOSE d \in Conns : conn[d].step = "unused"
    /\ conn' = [conn EXCEPT ![c] = Asked(tr.jobId, controller)]
    /\ fol' = [fol EXCEPT !.step = "stream", !.conn = c, !.progressed = FALSE]
    /\ UNCHANGED <<job, inUse, perKey, tr, gestures, controller, fetch>>

(* The follow ends: it returns the final job, or rejects.                  *)
Return(state) ==
    /\ tr' = state
    /\ fol' = Idle
    /\ controller' = 0

FailuresMutant(healthy) == 1

(***************************************************************************)
(* A connection that ended without the final status: a healthy one (it     *)
(* gave data and lasted HEALTHY_STREAM_MS) forgives the failures before it *)
(* and, if it did not fail itself, is replaced at once.                    *)
(***************************************************************************)
Failures(healthy) == (IF healthy THEN 0 ELSE fol.failures) + 1

Retry(failed) ==
    \E healthy \in IF fol.progressed THEN BOOLEAN ELSE {FALSE} :
        IF healthy /\ ~failed
        THEN /\ fol' = [Idle EXCEPT !.step = "dial"]
             /\ UNCHANGED <<tr, controller>>
        ELSE IF Failures(healthy) >= MaxFailures
        THEN Return(Lost)
        ELSE /\ fol' = [Idle EXCEPT !.step = "waiting", !.failures = Failures(healthy)]
             /\ UNCHANGED <<tr, controller>>

Wake ==
    /\ fol.step = "waiting"
    /\ fol' = [fol EXCEPT !.step = "dial"]
    /\ UNCHANGED <<serverVars, tr, gestures, controller, fetch>>

(* streamJobEvents hands over the next event of the connection in use.     *)
Receive(c) ==
    LET m == Head(conn[c].wire) IN
    /\ conn[c].wire /= <<>> /\ ~Aborted(conn[c].by)
    /\ \/ /\ m \in Pending
          /\ conn' = [conn EXCEPT ![c].wire = Tail(@)]
          /\ tr' = JobSeen(conn[c].of, m)
          /\ fol' = [fol EXCEPT !.progressed = TRUE]
          /\ UNCHANGED controller
       \/ /\ m \in Terminal
          /\ conn' = [conn EXCEPT ![c] = HungUp(@)]
          /\ Return(JobSeen(conn[c].of, m))
       \/ /\ m \in {"end", "busy", "server"}
          /\ conn' = [conn EXCEPT ![c] = HungUp(@)]
          /\ Retry(m /= "end")
       \/ /\ m = "not_found"
          /\ conn' = [conn EXCEPT ![c] = HungUp(@)]
          /\ Return(Lost)
    /\ UNCHANGED <<job, inUse, perKey, gestures, fetch>>

(* What reaches an aborted task is ignored.                                *)
Ignore(c) ==
    /\ conn[c].wire /= <<>> /\ Aborted(conn[c].by)
    /\ conn' = [conn EXCEPT ![c] = HungUp(@)]
    /\ UNCHANGED <<job, inUse, perKey, pageVars>>

(* The network fails, or nothing came for staleMs (not a failure).         *)
Break(c) ==
    /\ c = fol.conn
    /\ conn' = [conn EXCEPT ![c] = HungUp(@)]
    /\ \E failed \in BOOLEAN : Retry(failed)
    /\ UNCHANGED <<job, inUse, perKey, gestures, fetch>>

-----------------------------------------------------------------------------
PageStep(c) == Dial(c) \/ Receive(c) \/ Ignore(c)
PageFetch(t) == Answer(t) \/ Opened(t)

Next ==
    \/ \E j \in Jobs : Follow(j) \/ Open(j)
    \/ Stop
    \/ Wake
    \/ \E t \in Turns : PageFetch(t) \/ NoAnswer(t)
    \/ \E c \in Conns : PageStep(c) \/ Break(c)
    \/ \E c \in Conns : ServerStep(c) /\ UNCHANGED pageVars
    \/ \E j \in Jobs : JobMoves(j) /\ UNCHANGED pageVars

Spec == Init /\ [][Next]_vars

(* Timers fire, answers come, jobs end (JobLifecycle) and nobody keeps a   *)
(* stream of an ended job open.                                            *)
Fairness ==
    /\ WF_vars(Wake \/ \E t \in Turns : PageFetch(t))
    /\ \A c \in Conns : WF_vars(PageStep(c))
    /\ \A c \in Conns : WF_vars(ServerRuns(c) /\ UNCHANGED pageVars)
    /\ WF_vars(\E j \in Jobs : JobMoves(j) /\ UNCHANGED pageVars)

FairSpec == Spec /\ Fairness

-----------------------------------------------------------------------------
(* trackingReduce and current(): while the page shows one job, what it     *)
(* shows never goes back, whatever reconnects, is aborted or arrives late. *)
Order == [QUEUED |-> 1, RUNNING |-> 2, COMPLETED |-> 3, FAILED |-> 3, CANCELLED |-> 3]
PanelNeverGoesBack ==
    [][tr'.jobId = tr.jobId /\ tr.seen /= None /\ tr'.seen /= None /\ tr'.seen /= tr.seen
          => Order[tr'.seen] > Order[tr.seen]]_vars

(* abort(): a stream the page no longer follows is hung up, so that it does *)
(* not keep a slot of the gateway: one stream at most per page.             *)
NoStreamForgotten ==
    \A c \in Conns : conn[c].step \notin {"unused", "ended"} /\ ~conn[c].hung => c = fol.conn

(* The limiter counts what is open, within its limits, and nothing is left open behind the page. *)
SlotsAreKept == TypeOK /\ SlotsAreCounted /\ StreamsWithinLimits /\ NoStreamForgotten

(* followJob: the page ends up showing how its job ended, or says that it  *)
(* lost it, unless the person moves on; it never hangs in "reconnecting".  *)
FollowEnds ==
    \A j \in Jobs : tr.jobId = j ~> tr.jobId /= j \/ IsFinal(tr) \/ tr.lost

(* Following a job comes to an end on both sides: in the page, and in the  *)
(* slots of the gateway.                                                   *)
FollowingEnds == SlotsComeBack /\ FollowEnds
=============================================================================
