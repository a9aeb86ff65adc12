----------------------------- MODULE KeyedMutex -----------------------------
(***************************************************************************)
(* jobs/keyed-mutex.ts for one key: the chain of promises that makes the   *)
(* tasks of a job run one at a time and in the order they arrived.  A task *)
(* waits for the promise it found in the map (`previous'), leaves its own  *)
(* there (`tail') and, once it has settled, forgets the key if nobody came *)
(* after it.  A promise is named by the task it belongs to.                *)
(*                                                                         *)
(* `ticket' and `arrivals' number the tasks as they arrive.  The code has  *)
(* no such numbers: no guard reads them, the properties do.                *)
(***************************************************************************)
EXTENDS Naturals

CONSTANTS
    Tasks,          \* every call of run(key, task), each made once
    Nobody          \* Promise.resolve(): nothing to wait for, or no entry in the map

ASSUME NobodyAssumption == Nobody \notin Tasks

VARIABLES
    tail,           \* the entry of the key in the map
    previous,       \* the promise a task waits for
    phase,          \* where a task is in run()
    ticket, arrivals

mutexVars == <<tail, previous, phase, ticket, arrivals>>

Phases == {"new", "waiting", "running", "settled", "over"}

MutexTypeOK ==
    /\ tail \in Tasks \cup {Nobody}
    /\ previous \in [Tasks -> Tasks \cup {Nobody}]
    /\ phase \in [Tasks -> Phases]
    /\ ticket \in [Tasks -> Nat]
    /\ arrivals \in Nat

MutexInit ==
    /\ tail = Nobody
    /\ previous = [t \in Tasks |-> Nobody]
    /\ phase = [t \in Tasks |-> "new"]
    /\ ticket = [t \in Tasks |-> 0]
    /\ arrivals = 0

(* The promise of an active task has not settled yet. *)
Active(t) == phase[t] \in {"waiting", "running"}

(* Mutant: a task registers before it looks for the one before it. *)
ArriveMutant(t) ==
    /\ phase[t] = "new"
    /\ phase' = [phase EXCEPT ![t] = "waiting"]
    /\ tail' = t
    /\ previous' = [previous EXCEPT ![t] = tail']
    /\ arrivals' = arrivals + 1
    /\ ticket' = [ticket EXCEPT ![t] = arrivals']

(* Up to the first await of run(): nothing comes in between. *)
Arrive(t) ==
    /\ phase[t] = "new"
    /\ phase' = [phase EXCEPT ![t] = "waiting"]
    /\ previous' = [previous EXCEPT ![t] = tail]
    /\ tail' = t
    /\ arrivals' = arrivals + 1
    /\ ticket' = [ticket EXCEPT ![t] = arrivals']

(* previous.catch(...).then(task): the task starts, however the previous one ended. *)
Begin(t) ==
    /\ phase[t] = "waiting"
    /\ previous[t] # Nobody => ~Active(previous[t])
    /\ phase' = [phase EXCEPT ![t] = "running"]
    /\ UNCHANGED <<tail, previous, ticket, arrivals>>

(* The task returned or threw: its promise settles... *)
Settle(t) ==
    /\ phase[t] = "running"
    /\ phase' = [phase EXCEPT ![t] = "settled"]
    /\ UNCHANGED <<tail, previous, ticket, arrivals>>

(* Mutants: the key is forgotten although another task came after; it never is. *)
ForgetTooSoon(t) ==
    /\ phase[t] = "settled"
    /\ phase' = [phase EXCEPT ![t] = "over"]
    /\ tail' = Nobody
    /\ UNCHANGED <<previous, ticket, arrivals>>

ForgetNever(t) ==
    /\ phase[t] = "settled"
    /\ phase' = [phase EXCEPT ![t] = "over"]
    /\ UNCHANGED <<tail, previous, ticket, arrivals>>

(* ...and `finally' runs afterwards, maybe after another task came. *)
Forget(t) ==
    /\ phase[t] = "settled"
    /\ phase' = [phase EXCEPT ![t] = "over"]
    /\ tail' = IF tail = t THEN Nobody ELSE tail
    /\ UNCHANGED <<previous, ticket, arrivals>>

(* The map lives in the memory of the process. *)
ProcessDies ==
    /\ tail' = Nobody
    /\ phase' = [t \in Tasks |-> IF phase[t] = "new" THEN "new" ELSE "over"]
    /\ UNCHANGED <<previous, ticket, arrivals>>

MutexNext ==
    \/ \E t \in Tasks : Arrive(t) \/ Begin(t) \/ Settle(t) \/ Forget(t)
    \/ ProcessDies

MutexSpec == MutexInit /\ [][MutexNext]_mutexVars
-----------------------------------------------------------------------------
(* While a task runs, every other task that has not settled arrived later: *)
(* one at a time and in order of arrival (keyed-mutex.ts:2-4).             *)
InOrderOfArrival ==
    \A t, u \in Tasks : phase[t] = "running" /\ Active(u) /\ u # t => ticket[t] < ticket[u]

(* Without a task under way the key is forgotten: the map does not grow    *)
(* with every job that was edited (keyed-mutex.ts:21).                     *)
IdleKeyIsForgotten ==
    (\A t \in Tasks : phase[t] \in {"new", "over"}) => tail = Nobody

(* Both: the chain of promises is that of the tasks under way.             *)
MutexIsKept == InOrderOfArrival /\ IdleKeyIsForgotten
=============================================================================
