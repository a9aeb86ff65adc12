----------------------------- MODULE EventStream ----------------------------
(***************************************************************************)
(* GET /v1/jobs/:id/events in the gateway (jobs.controller.ts): a long     *)
(* operation that takes a slot of the limiter of event streams             *)
(* (security/), looks the job up, and then reads its row every second and  *)
(* sends what changed until it ends.                                       *)
(*                                                                         *)
(* A connection is a request and its answer: what the client hangs up,     *)
(* what the server has sent and the client has not read yet.  The row is   *)
(* the job's status; stage, percent and message change the same signature. *)
(***************************************************************************)
EXTENDS Integers, Sequences, FiniteSets

CONSTANTS
    Jobs,
    Conns,          \* connections at a time: one that is over may be opened again
    Key,            \* the client key of each connection (clientKey of its address)
    MaxTotal,       \* MAX_EVENT_STREAMS; 0 is no limit
    MaxPerKey,      \* MAX_EVENT_STREAMS_PER_CLIENT; 0 is no limit
    HasTtl,         \* whether EVENT_STREAM_MAX_MS > 0
    Starts,         \* bound on the statuses that the jobs start with
    Outcomes,       \* bound on the terminal statuses that they reach
    None

Pending == {"QUEUED", "RUNNING"}
Terminal == {"COMPLETED", "FAILED", "CANCELLED"}
Status == {"GONE"} \cup Pending \cup Terminal

ASSUME LimitAssumption == MaxTotal \in Nat /\ MaxPerKey \in Nat /\ HasTtl \in BOOLEAN
ASSUME StartsAssumption == Starts \subseteq [Jobs -> Status] /\ Outcomes \subseteq Terminal
ASSUME ConnsAssumption == IsFiniteSet(Conns)
ASSUME NoneAssumption == None \notin Jobs \cup Conns \cup Status

VARIABLES
    job,        \* the status of each job's row; GONE: the tenant has no such job
    conn,       \* the connections
    inUse,      \* ConcurrencyLimiter.inUse
    perKey      \* ConcurrencyLimiter.perKeyInUse; a missing key is 0

streamVars == <<conn, inUse, perKey>>
serverVars == <<job, streamVars>>

Keys == {Key[c] : c \in Conns}
ConnSteps == {"unused", "asked", "reading", "open", "ended"}
Refusals == {"busy", "not_found", "server"}
Marks == {"end"} \cup Refusals
Connection == [of: Jobs \cup {None}, by: Nat, step: ConnSteps, hooked: BOOLEAN, hung: BOOLEAN,
               slot: {"none", "held", "released"}, last: Status \cup {None},
               wire: Seq(Status \cup Marks)]

Unused == [of |-> None, by |-> 0, step |-> "unused", hooked |-> FALSE, hung |-> FALSE,
           slot |-> "none", last |-> None, wire |-> <<>>]

StreamTypeOK ==
    /\ job \in [Jobs -> Status]
    /\ conn \in [Conns -> Connection]
    /\ inUse \in Nat
    /\ perKey \in [Keys -> Nat]

StreamInit ==
    /\ job \in Starts
    /\ conn = [c \in Conns |-> Unused]
    /\ inUse = 0
    /\ perKey = [k \in Keys |-> 0]

(***************************************************************************)
(* The workers' and the gateway's writes of the row, as JobContract        *)
(* promises them.                                                          *)
(***************************************************************************)
JobMoves(j) ==
    /\ \/ job[j] = "QUEUED" /\ job' = [job EXCEPT ![j] = "RUNNING"]
       \/ job[j] \in Pending /\ \E s \in Outcomes : job' = [job EXCEPT ![j] = s]
    /\ UNCHANGED streamVars

FullMutant(c) ==
    \/ MaxTotal > 0 /\ inUse >= MaxTotal
    \/ MaxPerKey > 0 /\ perKey[Key[c]] > MaxPerKey

(***************************************************************************)
(* The limiter.  release does something only once.                         *)
(***************************************************************************)
Full(c) ==
    \/ MaxTotal > 0 /\ inUse >= MaxTotal
    \/ MaxPerKey > 0 /\ perKey[Key[c]] >= MaxPerKey

Take(c) ==
    /\ inUse' = inUse + 1
    /\ perKey' = [perKey EXCEPT ![Key[c]] = @ + 1]

CountedMutant(c) == conn[c].slot /= "none"

Counted(c) == conn[c].slot = "held"

Release(c) ==
    IF Counted(c)
    THEN /\ inUse' = inUse - 1
         /\ perKey' = [perKey EXCEPT ![Key[c]] = @ - 1]
    ELSE UNCHANGED <<inUse, perKey>>

(***************************************************************************)
(* The client's side: a connection asked for by its task t, and hung up,   *)
(* which the server sees when it gets to it.  A connection that is over    *)
(* for both is forgotten.                                                  *)
(***************************************************************************)
Tidy(x) ==
    IF x.step = "ended" /\ x.hung /\ x.slot /= "held" /\ x.wire = <<>> THEN Unused ELSE x

Asked(j, t) == [Unused EXCEPT !.of = j, !.by = t, !.step = "asked"]
HungUp(x) == Tidy([x EXCEPT !.hung = TRUE, !.wire = <<>>])

Send(x, m) == IF x.hung THEN x ELSE [x EXCEPT !.wire = Append(@, m)]
Freed(x) == Tidy([x EXCEPT !.slot = IF @ = "held" THEN "released" ELSE @])
Ended(x) == Freed([x EXCEPT !.step = "ended"])

(***************************************************************************)
(* events: the slot is taken before the row is read.  The listener of      *)
(* "close" is of no use to a connection that is closed already.            *)
(***************************************************************************)
Deny(c) ==
    /\ conn[c].step = "asked" /\ Full(c)
    /\ conn' = [conn EXCEPT ![c] = Ended(Send(@, "busy"))]
    /\ UNCHANGED <<job, inUse, perKey>>

Admit(c) ==
    /\ conn[c].step = "asked" /\ ~Full(c)
    /\ Take(c)
    /\ conn' = [conn EXCEPT ![c].step = "reading", ![c].slot = "held",
                            ![c].hooked = ~conn[c].hung]
    /\ UNCHANGED job

(* jobs.get rejects: there is no such job, or the database does not answer. *)
LookupFails(c) ==
    /\ conn[c].step = "reading"
    /\ \E r \in {"server"} \cup (IF job[conn[c].of] = "GONE" THEN {"not_found"} ELSE {}) :
          conn' = [conn EXCEPT ![c] = Ended(Send(@, r))]
    /\ Release(c)
    /\ UNCHANGED job

(* Nest does not subscribe to the stream of a connection that has gone. *)
Subscribe(c) ==
    /\ conn[c].step = "reading" /\ job[conn[c].of] /= "GONE"
    /\ conn' = [conn EXCEPT ![c] =
                  IF @.hung THEN Tidy([@ EXCEPT !.step = "ended"]) ELSE [@ EXCEPT !.step = "open"]]
    /\ UNCHANGED <<job, inUse, perKey>>

Signature(x, s) == IF s /= x.last THEN Send([x EXCEPT !.last = s], s) ELSE x

(* tick: send the row if it changed, and complete when it is final.  A ping *)
(* every HEARTBEAT_MS only keeps the connection from looking stale.         *)
Tick(c) ==
    /\ conn[c].step = "open"
    /\ LET s == job[conn[c].of]
           x == Signature(conn[c], s)
       IN IF s \in Terminal
          THEN conn' = [conn EXCEPT ![c] = Ended(Send(x, "end"))] /\ Release(c)
          ELSE /\ x /= conn[c]
               /\ conn' = [conn EXCEPT ![c] = x]
               /\ UNCHANGED <<inUse, perKey>>
    /\ UNCHANGED job

(* The stream reaches EVENT_STREAM_MAX_MS, or its read of the row fails. *)
StreamEnds(c) ==
    /\ conn[c].step = "open"
    /\ conn' = [conn EXCEPT ![c] = Ended(Send(@, "end"))]
    /\ Release(c)
    /\ UNCHANGED job

(* "close" of the connection: its listener and the teardown of the stream. *)
CloseSeen(c) ==
    /\ conn[c].hung /\ conn[c].slot = "held"
    /\ conn[c].hooked \/ conn[c].step = "open"
    /\ conn' = [conn EXCEPT ![c] = IF @.step = "open" THEN Ended(@) ELSE Freed(@)]
    /\ Release(c)
    /\ UNCHANGED job

(* The timer of tryAcquire, a minute after the longest stream has ended. *)
SlotExpires(c) ==
    /\ HasTtl /\ conn[c].step = "ended" /\ conn[c].slot = "held"
    /\ conn' = [conn EXCEPT ![c] = Freed(@)]
    /\ Release(c)
    /\ UNCHANGED job

ServerStep(c) ==
    \/ Deny(c) \/ Admit(c) \/ LookupFails(c) \/ Subscribe(c)
    \/ Tick(c) \/ StreamEnds(c) \/ CloseSeen(c) \/ SlotExpires(c)

(* What the event loop gets to in the end; failures and time limits may not come. *)
ServerRuns(c) ==
    Deny(c) \/ Admit(c) \/ Subscribe(c)
        \/ (conn[c].step = "reading" /\ job[conn[c].of] = "GONE" /\ LookupFails(c))
        \/ Tick(c) \/ CloseSeen(c) \/ SlotExpires(c)

-----------------------------------------------------------------------------
Held == {c \in Conns : conn[c].slot = "held"}

(* ConcurrencyLimiter: its counters are the slots somebody holds, however   *)
(* many times a slot is released: by the end of the stream, by the close    *)
(* of its connection, by a failed lookup and by its timer.                  *)
SlotsAreCounted ==
    /\ inUse = Cardinality(Held)
    /\ \A k \in Keys : perKey[k] = Cardinality({c \in Held : Key[c] = k})

(* The streams that poll the database never exceed the limits.             *)
StreamsWithinLimits ==
    LET open == {c \in Conns : conn[c].step = "open"} IN
    /\ MaxTotal > 0 => Cardinality(open) <= MaxTotal
    /\ MaxPerKey > 0 =>
          \A k \in Keys : Cardinality({c \in open : Key[c] = k}) <= MaxPerKey

(* A slot comes back, whatever happens to its connection.                  *)
SlotsComeBack ==
    \A c \in Conns, j \in Jobs :
        c \in Held /\ conn[c].of = j /\ job[j] \in Terminal ~> c \notin Held
=============================================================================
