-------------------------- MODULE DerivedJobsProofs --------------------------
(***************************************************************************)
(* The subtitles of a job and what is derived from them, for any number of *)
(* requests of any kinds, any subtitles, edits, caps and faults.           *)
(*                                                                         *)
(* The first part is the mutex of one key alone: its tasks run one at a    *)
(* time and in order, for any number of them.  The order is not kept       *)
(* anywhere in the code: it is implied by the chain of promises.  The      *)
(* invariant says so: the promise that an active task waits for is of the  *)
(* last active task before it (ChainIsComplete), and the entry of the map  *)
(* is the last of all (TailIsLast).                                        *)
(*                                                                         *)
(* The edits rest on it: what a request read is still what is stored when  *)
(* it writes (InsideNothingMoves), so they implement SubtitleStore, lose   *)
(* nothing and keep the files together.                                    *)
(*                                                                         *)
(* The derived jobs come last.  The subtitles may change at every step:    *)
(* nothing is assumed of them, so the proofs say that the pinned ETag and  *)
(* the unique index are enough.                                            *)
(***************************************************************************)
EXTENDS DerivedJobs, TLAPS

TicketsAreUnique ==
    /\ \A t \in Tasks : ticket[t] <= arrivals
    /\ \A t, u \in Tasks : Active(t) /\ Active(u) /\ t # u => ticket[t] # ticket[u]

ChainIsComplete ==
    \A t, u \in Tasks :
        Active(t) /\ Active(u) /\ ticket[u] < ticket[t] =>
            /\ previous[t] \in Tasks /\ Active(previous[t])
            /\ ticket[u] <= ticket[previous[t]] /\ ticket[previous[t]] < ticket[t]

TailIsLast ==
    \A t \in Tasks : Active(t) => tail \in Tasks /\ Active(tail) /\ ticket[t] <= ticket[tail]

TailIsPending == tail # Nobody => phase[tail] \in {"waiting", "running", "settled"}

MutexInv ==
    /\ MutexTypeOK
    /\ TicketsAreUnique
    /\ ChainIsComplete
    /\ TailIsLast
    /\ TailIsPending
    /\ InOrderOfArrival

LEMMA MutexTypeStep ==
    ASSUME MutexTypeOK, MutexNext PROVE MutexTypeOK'
<1> USE DEF MutexTypeOK, Phases
<1>1. ASSUME NEW t \in Tasks, Arrive(t) PROVE MutexTypeOK'
  BY <1>1 DEF Arrive
<1>2. ASSUME NEW t \in Tasks, Begin(t) PROVE MutexTypeOK'
  BY <1>2 DEF Begin
<1>3. ASSUME NEW t \in Tasks, Settle(t) PROVE MutexTypeOK'
  BY <1>3 DEF Settle
<1>4. ASSUME NEW t \in Tasks, Forget(t) PROVE MutexTypeOK'
  BY <1>4 DEF Forget
<1>5. ASSUME ProcessDies PROVE MutexTypeOK'
  BY <1>5 DEF ProcessDies
<1> QED BY <1>1, <1>2, <1>3, <1>4, <1>5 DEF MutexNext

(* A task that comes gets a number above all others and waits for the last. *)
LEMMA ArriveKeepsOrder ==
    ASSUME MutexInv, NEW t \in Tasks, Arrive(t) PROVE MutexInv'
<1> USE DEF MutexInv
<1>1. MutexTypeOK'
  BY MutexTypeStep DEF MutexNext
<1>2. /\ ~Active(t) /\ tail' = t /\ previous'[t] = tail
      /\ ticket'[t] = arrivals + 1 /\ arrivals' = arrivals + 1
      /\ \A u \in Tasks \ {t} : ticket'[u] = ticket[u] /\ previous'[u] = previous[u] /\ phase'[u] = phase[u]
      /\ phase'[t] = "waiting"
      /\ arrivals \in Nat /\ \A u \in Tasks : ticket[u] \in Nat
  BY DEF Arrive, Active, MutexTypeOK
<1>3. Active(t)' /\ \A u \in Tasks \ {t} : Active(u)' <=> Active(u)
  BY <1>2 DEF Active
<1>4. TicketsAreUnique'
  BY <1>2, <1>3 DEF TicketsAreUnique
<1>5. ChainIsComplete'
  <2> SUFFICES ASSUME NEW a \in Tasks, NEW u \in Tasks,
                      Active(a)', Active(u)', ticket'[u] < ticket'[a]
               PROVE  /\ previous'[a] \in Tasks /\ Active(previous[a])'
                      /\ ticket'[u] <= ticket'[previous'[a]] /\ ticket'[previous'[a]] < ticket'[a]
    BY DEF ChainIsComplete
  <2>1. u # t
    BY <1>2 DEF TicketsAreUnique
  <2>2. CASE a = t
    BY <2>1, <2>2, <1>2, <1>3 DEF TailIsLast, TicketsAreUnique, Active
  <2>3. CASE a # t
    BY <2>1, <2>3, <1>2, <1>3 DEF ChainIsComplete, Active
  <2> QED BY <2>2, <2>3
<1>6. TailIsLast'
  BY <1>2, <1>3 DEF TailIsLast, TicketsAreUnique
<1>7. TailIsPending'
  BY <1>2 DEF TailIsPending
<1>8. InOrderOfArrival'
  BY <1>2, <1>3 DEF InOrderOfArrival, TicketsAreUnique
<1> QED BY <1>1, <1>4, <1>5, <1>6, <1>7, <1>8

(* Only the first of the active tasks can start: nobody before it is left. *)
LEMMA BeginKeepsOrder ==
    ASSUME MutexInv, NEW t \in Tasks, Begin(t) PROVE MutexInv'
<1> USE DEF MutexInv
<1>1. MutexTypeOK'
  BY MutexTypeStep DEF MutexNext
<1>2. /\ Active(t) /\ phase[t] = "waiting" /\ phase'[t] = "running"
      /\ previous[t] # Nobody => ~Active(previous[t])
      /\ UNCHANGED <<tail, previous, ticket, arrivals>>
      /\ \A u \in Tasks \ {t} : phase'[u] = phase[u]
      /\ \A u \in Tasks : ticket[u] \in Nat
  BY DEF Begin, Active, MutexTypeOK
<1>3. \A u \in Tasks : Active(u)' <=> Active(u)
  BY <1>2 DEF Active
<1>4. TicketsAreUnique'
  BY <1>2, <1>3 DEF TicketsAreUnique
<1>5. ChainIsComplete'
  BY <1>2, <1>3 DEF ChainIsComplete
<1>6. TailIsLast'
  BY <1>2, <1>3 DEF TailIsLast
<1>7. TailIsPending'
  BY <1>2 DEF TailIsPending, MutexTypeOK
<1>8. \A u \in Tasks : Active(u) /\ u # t => ticket[t] < ticket[u]
  BY <1>2, NobodyAssumption DEF ChainIsComplete, TicketsAreUnique
<1>9. InOrderOfArrival'
  BY <1>2, <1>3, <1>8 DEF InOrderOfArrival, Active
<1> QED BY <1>1, <1>4, <1>5, <1>6, <1>7, <1>9

(* The task that ends was the first: the chain of the others does not need it. *)
LEMMA SettleKeepsOrder ==
    ASSUME MutexInv, NEW t \in Tasks, Settle(t) PROVE MutexInv'
<1> USE DEF MutexInv
<1>1. MutexTypeOK'
  BY MutexTypeStep DEF MutexNext
<1>2. /\ Active(t) /\ phase[t] = "running" /\ phase'[t] = "settled"
      /\ UNCHANGED <<tail, previous, ticket, arrivals>>
      /\ \A u \in Tasks \ {t} : phase'[u] = phase[u]
      /\ \A u \in Tasks : ticket[u] \in Nat
  BY DEF Settle, Active, MutexTypeOK
<1>3. ~Active(t)' /\ \A u \in Tasks \ {t} : Active(u)' <=> Active(u)
  BY <1>2 DEF Active
<1>4. TicketsAreUnique'
  BY <1>2, <1>3 DEF TicketsAreUnique
<1>5. ChainIsComplete'
  <2> SUFFICES ASSUME NEW a \in Tasks, NEW u \in Tasks,
                      Active(a)', Active(u)', ticket[u] < ticket[a]
               PROVE  /\ previous[a] \in Tasks /\ Active(previous[a])'
                      /\ ticket[u] <= ticket[previous[a]] /\ ticket[previous[a]] < ticket[a]
    BY <1>2 DEF ChainIsComplete, Active
  <2>1. a # t /\ u # t /\ Active(a) /\ Active(u) /\ ticket[t] < ticket[u]
    BY <1>2, <1>3 DEF InOrderOfArrival
  <2>2. /\ previous[a] \in Tasks /\ Active(previous[a])
        /\ ticket[u] <= ticket[previous[a]] /\ ticket[previous[a]] < ticket[a]
    BY <2>1 DEF ChainIsComplete
  <2>3. previous[a] # t
    BY <2>1, <2>2, <1>2
  <2> QED BY <2>2, <2>3, <1>2 DEF Active
<1>6. TailIsLast'
  <2> SUFFICES ASSUME NEW a \in Tasks, Active(a)'
               PROVE  tail \in Tasks /\ Active(tail)' /\ ticket[a] <= ticket[tail]
    BY <1>2 DEF TailIsLast, Active
  <2>1. a # t /\ Active(a) /\ ticket[t] < ticket[a]
    BY <1>2, <1>3 DEF InOrderOfArrival
  <2>2. tail \in Tasks /\ Active(tail) /\ ticket[a] <= ticket[tail] /\ tail # t
    BY <2>1, <1>2 DEF TailIsLast
  <2> QED BY <2>2, <1>2 DEF Active
<1>7. TailIsPending'
  BY <1>2 DEF TailIsPending, MutexTypeOK
<1>8. InOrderOfArrival'
  BY <1>2, <1>3 DEF InOrderOfArrival
<1> QED BY <1>1, <1>4, <1>5, <1>6, <1>7, <1>8

(* Forgetting the key of the last task is safe: nobody is active then. *)
LEMMA ForgetKeepsOrder ==
    ASSUME MutexInv, NEW t \in Tasks, Forget(t) PROVE MutexInv'
<1> USE DEF MutexInv
<1>1. MutexTypeOK'
  BY MutexTypeStep DEF MutexNext
<1>2. /\ ~Active(t) /\ phase'[t] = "over"
      /\ UNCHANGED <<previous, ticket, arrivals>>
      /\ tail' = IF tail = t THEN Nobody ELSE tail
      /\ \A u \in Tasks \ {t} : phase'[u] = phase[u]
  BY DEF Forget, Active, MutexTypeOK
<1>3. \A u \in Tasks : Active(u)' <=> Active(u)
  BY <1>2 DEF Active
<1>4. TicketsAreUnique'
  BY <1>2, <1>3 DEF TicketsAreUnique
<1>5. ChainIsComplete'
  BY <1>2, <1>3 DEF ChainIsComplete
<1>6. TailIsLast'
  BY <1>2, <1>3 DEF TailIsLast, Active
<1>7. TailIsPending'
  BY <1>2 DEF TailIsPending, MutexTypeOK
<1>8. InOrderOfArrival'
  BY <1>2, <1>3 DEF InOrderOfArrival, Active
<1> QED BY <1>1, <1>4, <1>5, <1>6, <1>7, <1>8

LEMMA DeathKeepsOrder ==
    ASSUME MutexInv, ProcessDies PROVE MutexInv'
<1>1. MutexTypeOK'
  BY MutexTypeStep DEF MutexNext, MutexInv
<1>2. \A u \in Tasks : ~Active(u)'
  BY DEF ProcessDies, Active
<1>3. tail' = Nobody /\ UNCHANGED <<ticket, arrivals>>
  BY DEF ProcessDies
<1> QED BY <1>1, <1>2, <1>3 DEF MutexInv, TicketsAreUnique, ChainIsComplete, TailIsLast, TailIsPending,
                                InOrderOfArrival, Active

LEMMA MutexInitially == ASSUME MutexInit PROVE MutexInv
BY DEF MutexInit, MutexInv, MutexTypeOK, Phases, TicketsAreUnique, ChainIsComplete, TailIsLast, TailIsPending,
       InOrderOfArrival, Active

LEMMA MutexStep == ASSUME MutexInv, MutexNext PROVE MutexInv'
BY ArriveKeepsOrder, BeginKeepsOrder, SettleKeepsOrder, ForgetKeepsOrder, DeathKeepsOrder DEF MutexNext

LEMMA MutexStutter == ASSUME MutexInv, UNCHANGED mutexVars PROVE MutexInv'
BY DEF mutexVars, MutexInv, MutexTypeOK, TicketsAreUnique, ChainIsComplete, TailIsLast, TailIsPending,
       InOrderOfArrival, Active

(* A task runs only while no other one runs and none that arrived before   *)
(* it is left (keyed-mutex.ts:14-18).                                      *)
THEOREM OneAtATimeInOrder == MutexSpec => []InOrderOfArrival
<1>1. MutexInv /\ [MutexNext]_mutexVars => MutexInv'
  BY MutexStep, MutexStutter
<1>2. MutexInv => InOrderOfArrival
  BY DEF MutexInv
<1> QED BY MutexInitially, <1>1, <1>2, PTL DEF MutexSpec

(* The map does not keep the key of a job that nobody is editing           *)
(* (keyed-mutex.ts:21-22).                                                 *)
THEOREM KeyIsForgotten == MutexSpec => []IdleKeyIsForgotten
<1>1. MutexInv /\ [MutexNext]_mutexVars => MutexInv'
  BY MutexStep, MutexStutter
<1>2. MutexInv => IdleKeyIsForgotten
  BY DEF MutexInv, MutexTypeOK, TailIsPending, IdleKeyIsForgotten
<1> QED BY MutexInitially, <1>1, <1>2, PTL DEF MutexSpec

(* Order and forgetting together.                                          *)
THEOREM ChainIsKept == MutexSpec => []MutexIsKept
BY OneAtATimeInOrder, KeyIsForgotten, PTL DEF MutexIsKept

-----------------------------------------------------------------------------
(* The edits. *)

(* The awaits of the critical section are those of the task that runs. *)
InsideRuns == \A t \in Tasks : step[t] # "outside" <=> phase[t] = "running"

InsideNothingMoves ==
    \A t \in Tasks :
        /\ step[t] = "segments" => base[t] = segments /\ expected[t] \in {NoEtag, segments}
        /\ step[t] \in {"srt", "row"} => base[t] \in Content /\ segments = Edited(t, base[t])
        /\ step[t] = "row" => srt = segments
        /\ step[t] \in {"segments", "srt", "row"} => Applicable(t)

(* What a request was told and whether its edit landed. *)
AnswersAreTrue ==
    \A t \in Tasks :
        /\ phase[t] = "new" \/ Active(t) => answer[t] = "none"
        /\ phase[t] \in {"new", "waiting"} \/ step[t] \in {"read", "segments"} => t \notin landed
        /\ step[t] \in {"srt", "row"} => t \in landed

(* An edit that was saved came before every request that is still under way. *)
SavedCameFirst ==
    \A t, u \in Tasks : answer[u] = "saved" /\ Active(t) => ticket[u] < ticket[t]

EditsInv ==
    /\ EditsTypeOK
    /\ MutexInv
    /\ InsideRuns
    /\ InsideNothingMoves
    /\ AnswersAreTrue
    /\ SavedCameFirst
    /\ FilesAgree

-----------------------------------------------------------------------------
LEMMA EditedIsContent ==
    ASSUME NEW t \in Tasks, NEW version \in Content PROVE Edited(t, version) \in Content
BY PatchAssumption DEF Edited, Content

(* Each action of an edit is an action of the mutex or leaves the mutex alone. *)
LEMMA MutexUnderEdits ==
    ASSUME EditsNext PROVE MutexNext \/ UNCHANGED mutexVars
<1>1. ASSUME NEW t \in Tasks, AskEdit(t) PROVE MutexNext
  BY <1>1 DEF AskEdit, MutexNext
<1>2. ASSUME NEW t \in Tasks, EditStep(t) PROVE MutexNext \/ UNCHANGED mutexVars
  <2>1. CASE StartEdit(t)
    BY <2>1 DEF StartEdit, MutexNext
  <2>2. CASE ReadSegments(t)
    BY <2>2 DEF ReadSegments, EndsWith, MutexNext
  <2>3. CASE PutSegments(t)
    BY <2>3 DEF PutSegments
  <2>4. CASE PutSrt(t)
    BY <2>4 DEF PutSrt
  <2>5. CASE UpdateRow(t)
    BY <2>5 DEF UpdateRow, EndsWith, MutexNext
  <2>6. CASE ForgetKey(t)
    BY <2>6 DEF ForgetKey, MutexNext
  <2> QED BY <1>2, <2>1, <2>2, <2>3, <2>4, <2>5, <2>6 DEF EditStep
<1>3. ASSUME NEW t \in Tasks, CallFails(t) PROVE MutexNext
  BY <1>3 DEF CallFails, EndsWith, MutexNext
<1>4. ASSUME GatewayCrash PROVE MutexNext
  BY <1>4 DEF GatewayCrash, MutexNext
<1> QED BY <1>1, <1>2, <1>3, <1>4 DEF EditsNext

LEMMA MutexHolds == ASSUME EditsInv, EditsNext PROVE MutexInv'
BY MutexUnderEdits, MutexStep, MutexStutter DEF EditsInv

(* One request at a time is inside. *)
LEMMA AloneInside ==
    ASSUME EditsInv, NEW t \in Tasks, NEW u \in Tasks, step[t] # "outside", u # t
    PROVE  step[u] = "outside" /\ phase[u] # "running"
BY DEF EditsInv, InsideRuns, MutexInv, InOrderOfArrival, Active, MutexTypeOK

(* A request that comes is behind all the others. *)
LEMMA AskKeeps == ASSUME EditsInv, NEW t \in Tasks, AskEdit(t) PROVE EditsInv'
<1>1. MutexInv'
  BY MutexHolds DEF EditsNext
<1>2. EditsTypeOK'
  BY <1>1, EtagsAssumption DEF MutexInv, EditsInv, EditsTypeOK, AskEdit, filesVars
<1>3. /\ phase[t] = "new" /\ step[t] = "outside" /\ phase'[t] = "waiting"
      /\ \A u \in Tasks \ {t} : phase'[u] = phase[u] /\ ticket'[u] = ticket[u] /\ expected'[u] = expected[u]
      /\ \A u \in Tasks : ticket[u] <= arrivals /\ ticket[u] \in Nat
      /\ ticket'[t] = arrivals + 1 /\ arrivals \in Nat
      /\ UNCHANGED <<segments, srt, rowEtag, base, step, answer, landed>>
  BY DEF AskEdit, Arrive, EditsInv, InsideRuns, MutexInv, MutexTypeOK, EditsTypeOK, TicketsAreUnique, filesVars
<1>4. InsideRuns'
  BY <1>3 DEF EditsInv, InsideRuns
<1>5. InsideNothingMoves'
  BY <1>3 DEF EditsInv, InsideNothingMoves, Edited, Applicable
<1>6. AnswersAreTrue'
  BY <1>3 DEF EditsInv, AnswersAreTrue, Active
<1>7. SavedCameFirst'
  BY <1>3 DEF EditsInv, SavedCameFirst, Active, AnswersAreTrue
<1>8. FilesAgree'
  BY <1>3 DEF EditsInv, FilesAgree, Halfway, AnswersAreTrue
<1> QED BY <1>1, <1>2, <1>4, <1>5, <1>6, <1>7, <1>8 DEF EditsInv

LEMMA StartKeeps == ASSUME EditsInv, NEW t \in Tasks, StartEdit(t) PROVE EditsInv'
<1>1. MutexInv'
  BY MutexHolds DEF EditsNext, EditStep
<1>2. EditsTypeOK'
  BY <1>1 DEF MutexInv, EditsInv, EditsTypeOK, StartEdit, GoesTo, Steps, filesVars
<1>3. /\ phase[t] = "waiting" /\ phase'[t] = "running" /\ step'[t] = "read"
      /\ \A u \in Tasks \ {t} : phase'[u] = phase[u] /\ step'[u] = step[u]
      /\ UNCHANGED <<segments, srt, rowEtag, expected, base, answer, landed, ticket>>
  BY DEF StartEdit, GoesTo, Begin, EditsInv, MutexInv, MutexTypeOK, EditsTypeOK, filesVars
<1>4. InsideRuns'
  BY <1>3 DEF EditsInv, InsideRuns
<1>5. InsideNothingMoves'
  BY <1>3 DEF EditsInv, InsideNothingMoves, Edited, Applicable
<1>6. AnswersAreTrue'
  BY <1>3 DEF EditsInv, AnswersAreTrue, Active
<1>7. SavedCameFirst'
  BY <1>3 DEF EditsInv, SavedCameFirst, Active
<1>8. FilesAgree'
  BY <1>3 DEF EditsInv, FilesAgree, Halfway, InsideRuns
<1> QED BY <1>1, <1>2, <1>4, <1>5, <1>6, <1>7, <1>8 DEF EditsInv

LEMMA ForgetKeeps == ASSUME EditsInv, NEW t \in Tasks, ForgetKey(t) PROVE EditsInv'
<1>1. MutexInv'
  BY MutexHolds DEF EditsNext, EditStep
<1>2. EditsTypeOK'
  BY <1>1 DEF MutexInv, EditsInv, EditsTypeOK, ForgetKey, filesVars, requestVars
<1>3. /\ phase[t] = "settled" /\ phase'[t] = "over"
      /\ \A u \in Tasks \ {t} : phase'[u] = phase[u]
      /\ UNCHANGED <<segments, srt, rowEtag, expected, base, step, answer, landed, ticket>>
  BY DEF ForgetKey, Forget, EditsInv, MutexInv, MutexTypeOK, filesVars, requestVars
<1>4. InsideRuns'
  BY <1>3 DEF EditsInv, InsideRuns
<1>5. InsideNothingMoves'
  BY <1>3 DEF EditsInv, InsideNothingMoves, Edited, Applicable
<1>6. AnswersAreTrue'
  BY <1>3 DEF EditsInv, AnswersAreTrue, Active
<1>7. SavedCameFirst'
  BY <1>3 DEF EditsInv, SavedCameFirst, Active
<1>8. FilesAgree'
  BY <1>3 DEF EditsInv, FilesAgree, Halfway
<1> QED BY <1>1, <1>2, <1>4, <1>5, <1>6, <1>7, <1>8 DEF EditsInv

(* A request that goes on to write, with what it read still there. *)
LEMMA ReadGoesOnKeeps ==
    ASSUME EditsInv, NEW t \in Tasks, step[t] = "read", SameVersion(t), Applicable(t),
           base' = [base EXCEPT ![t] = segments], GoesTo(t, "segments"),
           UNCHANGED <<mutexVars, filesVars, expected, answer, landed>>
    PROVE  EditsInv'
<1>1. MutexInv'
  BY MutexStutter DEF EditsInv
<1>2. EditsTypeOK'
  BY <1>1 DEF MutexInv, EditsInv, EditsTypeOK, GoesTo, Steps, filesVars
<1>3. /\ base'[t] = segments /\ step'[t] = "segments"
      /\ \A u \in Tasks \ {t} : base'[u] = base[u] /\ step'[u] = step[u]
      /\ UNCHANGED <<segments, srt, rowEtag, expected, answer, landed, ticket, phase>>
  BY DEF GoesTo, EditsInv, EditsTypeOK, mutexVars, filesVars
<1>4. InsideRuns'
  BY <1>3 DEF EditsInv, InsideRuns
<1>5. InsideNothingMoves'
  BY <1>3 DEF EditsInv, InsideNothingMoves, Edited, Applicable, SameVersion
<1>6. AnswersAreTrue'
  BY <1>3 DEF EditsInv, AnswersAreTrue, Active
<1>7. SavedCameFirst'
  BY <1>3 DEF EditsInv, SavedCameFirst, Active
<1>8. FilesAgree'
  BY <1>3 DEF EditsInv, FilesAgree, Halfway
<1> QED BY <1>1, <1>2, <1>4, <1>5, <1>6, <1>7, <1>8 DEF EditsInv

(* A request that ends without having been saved.  Either it leaves the    *)
(* files alone or, told nothing, it is itself the excuse of FilesAgree.    *)
LEMMA EndsUnsavedKeeps ==
    ASSUME EditsInv, NEW t \in Tasks, NEW a \in Answers \ {"none", "saved"}, step[t] # "outside", EndsWith(t, a),
           segments' \in Content, srt' \in Content, rowEtag' \in Content, landed' \in SUBSET Tasks,
           landed' \ {t} = landed \ {t},
           a = "lost" \/ (~Halfway(t) /\ UNCHANGED <<segments, srt, rowEtag>>)
    PROVE  EditsInv'
<1>1. MutexInv'
  BY MutexStep DEF EditsInv, EndsWith, MutexNext
<1>2. EditsTypeOK'
  BY <1>1 DEF MutexInv, EditsInv, EditsTypeOK, EndsWith, GoesTo, Steps, Answers
<1>3. /\ phase[t] = "running" /\ phase'[t] = "settled" /\ step'[t] = "outside" /\ answer'[t] = a
      /\ \A u \in Tasks \ {t} : /\ phase'[u] = phase[u] /\ step'[u] = step[u] /\ answer'[u] = answer[u]
                                /\ u \in landed' <=> u \in landed
      /\ UNCHANGED <<expected, base, ticket>>
  BY DEF EndsWith, GoesTo, Settle, EditsInv, MutexInv, MutexTypeOK, EditsTypeOK
<1>4. \A u \in Tasks \ {t} : step[u] = "outside" /\ phase[u] # "running"
  BY AloneInside
<1>5. InsideRuns'
  BY <1>3 DEF EditsInv, InsideRuns
<1>6. InsideNothingMoves'
  BY <1>3, <1>4 DEF InsideNothingMoves
<1>7. AnswersAreTrue'
  BY <1>3, <1>4 DEF EditsInv, AnswersAreTrue, Active
<1>8. SavedCameFirst'
  BY <1>3 DEF EditsInv, SavedCameFirst, Active
<1>9. FilesAgree'
  <2>1. CASE a = "lost"
    <3>1. answer'[t] = "lost" /\ \A u \in Tasks : answer'[u] = "saved" => ticket'[u] < ticket'[t]
      BY <1>3, <2>1 DEF EditsInv, SavedCameFirst, Active
    <3> QED BY <3>1 DEF FilesAgree
  <2>2. CASE a # "lost"
    <3>1. ~\E u \in Tasks : Halfway(u)
      BY <2>2, <1>4 DEF Halfway
    <3>2. CASE srt = segments /\ rowEtag = segments
      BY <3>2, <2>2 DEF FilesAgree
    <3>3. CASE \E u \in Tasks : /\ answer[u] = "lost"
                                /\ \A v \in Tasks : answer[v] = "saved" => ticket[v] < ticket[u]
      <4>1. PICK u \in Tasks : /\ answer[u] = "lost"
                               /\ \A v \in Tasks : answer[v] = "saved" => ticket[v] < ticket[u]
        BY <3>3
      <4>2. u # t
        BY <4>1, <1>3 DEF EditsInv, AnswersAreTrue, Active
      <4>3. answer'[u] = "lost" /\ \A v \in Tasks : answer'[v] = "saved" => ticket'[v] < ticket'[u]
        BY <4>1, <4>2, <1>3
      <4> QED BY <4>3 DEF FilesAgree
    <3> QED BY <3>1, <3>2, <3>3 DEF EditsInv, FilesAgree
  <2> QED BY <2>1, <2>2
<1> QED BY <1>1, <1>2, <1>5, <1>6, <1>7, <1>8, <1>9 DEF EditsInv

LEMMA ReadKeeps == ASSUME EditsInv, NEW t \in Tasks, ReadSegments(t) PROVE EditsInv'
<1> USE DEF ReadSegments
<1>1. CASE ~SameVersion(t) /\ EndsWith(t, "changed")
  BY <1>1, EndsUnsavedKeeps DEF EditsInv, EditsTypeOK, Answers, Halfway, filesVars
<1>2. CASE SameVersion(t) /\ ~Applicable(t) /\ EndsWith(t, "rejected")
  BY <1>2, EndsUnsavedKeeps DEF EditsInv, EditsTypeOK, Answers, Halfway, filesVars
<1>3. CASE /\ SameVersion(t) /\ Applicable(t)
           /\ base' = [base EXCEPT ![t] = segments]
           /\ GoesTo(t, "segments")
           /\ UNCHANGED <<mutexVars, expected, answer>>
  BY <1>3, ReadGoesOnKeeps
<1> QED BY <1>1, <1>2, <1>3

LEMMA PutSegmentsKeeps == ASSUME EditsInv, NEW t \in Tasks, PutSegments(t) PROVE EditsInv'
<1>1. MutexInv'
  BY MutexHolds DEF EditsNext, EditStep
<1>2. base[t] = segments /\ base[t] \in Content /\ Edited(t, base[t]) \in Content
  BY EditedIsContent DEF PutSegments, EditsInv, InsideNothingMoves, EditsTypeOK
<1>3. EditsTypeOK'
  BY <1>1, <1>2 DEF MutexInv, EditsInv, EditsTypeOK, PutSegments, GoesTo, Steps
<1>4. /\ step[t] = "segments" /\ step'[t] = "srt" /\ segments' = Edited(t, base[t]) /\ t \in landed'
      /\ \A u \in Tasks \ {t} : step'[u] = step[u] /\ (u \in landed' <=> u \in landed)
      /\ UNCHANGED <<srt, rowEtag, expected, base, answer, ticket, phase>>
  BY DEF PutSegments, GoesTo, EditsInv, EditsTypeOK, mutexVars
<1>5. \A u \in Tasks \ {t} : step[u] = "outside"
  BY <1>4, AloneInside
<1>6. InsideRuns'
  BY <1>4 DEF EditsInv, InsideRuns
<1>7. InsideNothingMoves'
  BY <1>2, <1>4, <1>5 DEF EditsInv, InsideNothingMoves, Edited, Applicable
<1>8. AnswersAreTrue'
  BY <1>4, <1>5 DEF EditsInv, AnswersAreTrue, Active, InsideRuns
<1>9. SavedCameFirst'
  BY <1>4 DEF EditsInv, SavedCameFirst, Active
<1>10. FilesAgree'
  BY <1>4 DEF FilesAgree, Halfway
<1> QED BY <1>1, <1>3, <1>6, <1>7, <1>8, <1>9, <1>10 DEF EditsInv

LEMMA PutSrtKeeps == ASSUME EditsInv, NEW t \in Tasks, PutSrt(t) PROVE EditsInv'
<1>1. MutexInv'
  BY MutexHolds DEF EditsNext, EditStep
<1>2. base[t] \in Content /\ segments = Edited(t, base[t]) /\ Edited(t, base[t]) \in Content
  BY EditedIsContent DEF PutSrt, EditsInv, InsideNothingMoves
<1>3. EditsTypeOK'
  BY <1>1, <1>2 DEF MutexInv, EditsInv, EditsTypeOK, PutSrt, GoesTo, Steps
<1>4. /\ step[t] = "srt" /\ step'[t] = "row" /\ srt' = Edited(t, base[t])
      /\ \A u \in Tasks \ {t} : step'[u] = step[u]
      /\ UNCHANGED <<segments, rowEtag, expected, base, answer, landed, ticket, phase>>
  BY DEF PutSrt, GoesTo, EditsInv, EditsTypeOK, mutexVars
<1>5. \A u \in Tasks \ {t} : step[u] = "outside"
  BY <1>4, AloneInside
<1>6. InsideRuns'
  BY <1>4 DEF EditsInv, InsideRuns
<1>7. InsideNothingMoves'
  BY <1>2, <1>4, <1>5 DEF EditsInv, InsideNothingMoves, Edited, Applicable
<1>8. AnswersAreTrue'
  BY <1>4 DEF EditsInv, AnswersAreTrue, Active
<1>9. SavedCameFirst'
  BY <1>4 DEF EditsInv, SavedCameFirst, Active
<1>10. FilesAgree'
  BY <1>4 DEF FilesAgree, Halfway
<1> QED BY <1>1, <1>3, <1>6, <1>7, <1>8, <1>9, <1>10 DEF EditsInv

(* A saved edit leaves the three of them at the version it wrote. *)
LEMMA UpdateRowKeeps == ASSUME EditsInv, NEW t \in Tasks, UpdateRow(t) PROVE EditsInv'
<1>1. MutexInv'
  BY MutexHolds DEF EditsNext, EditStep
<1>2. /\ base[t] \in Content /\ segments = Edited(t, base[t]) /\ srt = segments
      /\ Edited(t, base[t]) \in Content
  BY EditedIsContent DEF UpdateRow, EditsInv, InsideNothingMoves
<1>3. EditsTypeOK'
  BY <1>1, <1>2 DEF MutexInv, EditsInv, EditsTypeOK, UpdateRow, EndsWith, GoesTo, Steps, Answers
<1>4. /\ phase[t] = "running" /\ phase'[t] = "settled" /\ step'[t] = "outside" /\ answer'[t] = "saved"
      /\ rowEtag' = Edited(t, base[t])
      /\ \A u \in Tasks \ {t} : phase'[u] = phase[u] /\ step'[u] = step[u] /\ answer'[u] = answer[u]
      /\ UNCHANGED <<segments, srt, expected, base, landed, ticket>>
      /\ step[t] = "row"
  BY DEF UpdateRow, EndsWith, GoesTo, Settle, EditsInv, MutexInv, MutexTypeOK, EditsTypeOK
<1>5. \A u \in Tasks \ {t} : step[u] = "outside" /\ phase[u] # "running"
  BY <1>4, AloneInside
<1>6. InsideRuns'
  BY <1>4 DEF EditsInv, InsideRuns
<1>7. InsideNothingMoves'
  BY <1>4, <1>5 DEF InsideNothingMoves
<1>8. AnswersAreTrue'
  BY <1>4, <1>5 DEF EditsInv, AnswersAreTrue, Active
<1>9. SavedCameFirst'
  BY <1>4 DEF EditsInv, SavedCameFirst, Active, MutexInv, InOrderOfArrival
<1>10. FilesAgree'
  BY <1>2, <1>4 DEF FilesAgree
<1> QED BY <1>1, <1>3, <1>6, <1>7, <1>8, <1>9, <1>10 DEF EditsInv

LEMMA CallFailsKeeps == ASSUME EditsInv, NEW t \in Tasks, CallFails(t) PROVE EditsInv'
<1>1. EndsWith(t, "lost") /\ "lost" \in Answers \ {"none", "saved"} /\ step[t] # "outside"
  BY DEF CallFails, Answers
<1>2. segments \in Content /\ srt \in Content /\ rowEtag \in Content /\ landed \in SUBSET Tasks
  BY DEF EditsInv, EditsTypeOK
<1>3. step[t] \in {"segments", "srt", "row"} => Edited(t, base[t]) \in Content
  BY <1>2, EditedIsContent DEF EditsInv, InsideNothingMoves
<1>4. /\ segments' \in Content /\ srt' \in Content /\ rowEtag' \in Content
      /\ landed' \in SUBSET Tasks /\ landed' \ {t} = landed \ {t}
  <2>1. CASE step[t] = "read" /\ UNCHANGED <<filesVars, landed>>
    BY <2>1, <1>2 DEF filesVars
  <2>2. CASE /\ step[t] = "segments" /\ UNCHANGED <<srt, rowEtag>>
             /\ \/ segments' = Edited(t, base[t]) /\ landed' = landed \cup {t}
                \/ UNCHANGED <<segments, landed>>
    BY <2>2, <1>2, <1>3
  <2>3. CASE step[t] = "srt" /\ srt' \in {srt, Edited(t, base[t])} /\ UNCHANGED <<segments, rowEtag, landed>>
    BY <2>3, <1>2, <1>3
  <2>4. CASE step[t] = "row" /\ rowEtag' \in {rowEtag, Edited(t, base[t])} /\ UNCHANGED <<segments, srt, landed>>
    BY <2>4, <1>2, <1>3
  <2> QED BY <2>1, <2>2, <2>3, <2>4 DEF CallFails
<1> QED BY <1>1, <1>4, EndsUnsavedKeeps

LEMMA CrashKeeps == ASSUME EditsInv, GatewayCrash PROVE EditsInv'
<1>1. MutexInv'
  BY MutexHolds DEF EditsNext
<1>2. EditsTypeOK'
  BY <1>1 DEF MutexInv, EditsInv, EditsTypeOK, GatewayCrash, Steps, Answers, filesVars
<1>3. \A u \in Tasks : /\ step'[u] = "outside" /\ phase'[u] = (IF phase[u] = "new" THEN "new" ELSE "over")
                       /\ answer'[u] = (IF Active(u) THEN "lost" ELSE answer[u])
  BY DEF GatewayCrash, ProcessDies
<1>4. UNCHANGED <<segments, srt, rowEtag, base, expected, landed, ticket>>
  BY DEF GatewayCrash, ProcessDies, filesVars
<1>5. InsideRuns'
  BY <1>3 DEF InsideRuns
<1>6. InsideNothingMoves'
  BY <1>3 DEF InsideNothingMoves
<1>7. AnswersAreTrue'
  BY <1>3, <1>4 DEF EditsInv, AnswersAreTrue, Active
<1>8. SavedCameFirst'
  BY <1>3 DEF SavedCameFirst, Active
<1>9. FilesAgree'
  <2>1. CASE srt = segments /\ rowEtag = segments
    BY <2>1, <1>4 DEF FilesAgree
  <2>2. CASE \E t \in Tasks : Halfway(t)
    <3>1. PICK t \in Tasks : Halfway(t)
      BY <2>2
    <3>2. Active(t) /\ answer'[t] = "lost"
      BY <3>1, <1>3 DEF EditsInv, InsideRuns, Halfway, Active
    <3>3. \A u \in Tasks : answer'[u] = "saved" => ticket'[u] < ticket'[t]
      BY <3>2, <1>3, <1>4 DEF EditsInv, SavedCameFirst
    <3> QED BY <3>2, <3>3 DEF FilesAgree
  <2>3. CASE \E t \in Tasks : answer[t] = "lost" /\ \A u \in Tasks : answer[u] = "saved" => ticket[u] < ticket[t]
    BY <2>3, <1>3, <1>4 DEF FilesAgree
  <2> QED BY <2>1, <2>2, <2>3 DEF EditsInv, FilesAgree
<1> QED BY <1>1, <1>2, <1>5, <1>6, <1>7, <1>8, <1>9 DEF EditsInv

LEMMA EditsInitially == ASSUME EditsInit PROVE EditsInv
<1>1. MutexInv
  BY MutexInitially DEF EditsInit
<1> QED BY <1>1 DEF EditsInit, MutexInit, EditsInv, EditsTypeOK, Steps, Answers, MutexInv, InsideRuns, InsideNothingMoves,
                    AnswersAreTrue, SavedCameFirst, FilesAgree, Active

LEMMA EditsStep == ASSUME EditsInv, EditsNext PROVE EditsInv'
BY AskKeeps, StartKeeps, ReadKeeps, PutSegmentsKeeps, PutSrtKeeps, UpdateRowKeeps, ForgetKeeps, CallFailsKeeps, CrashKeeps
   DEF EditsNext, EditStep

LEMMA EditsStutter == ASSUME EditsInv, UNCHANGED editVars PROVE EditsInv'
<1>1. MutexInv'
  BY MutexStutter DEF EditsInv, editVars
<1>2. UNCHANGED <<segments, srt, rowEtag, expected, base, step, answer, landed, ticket, phase>>
  BY DEF editVars, mutexVars, filesVars, requestVars
<1>3. EditsTypeOK'
  BY <1>1, <1>2 DEF EditsInv, EditsTypeOK, MutexInv
<1>4. InsideRuns' /\ InsideNothingMoves'
  BY <1>2 DEF EditsInv, InsideRuns, InsideNothingMoves, Edited, Applicable
<1>5. AnswersAreTrue' /\ SavedCameFirst'
  BY <1>2 DEF EditsInv, AnswersAreTrue, SavedCameFirst, Active
<1>6. FilesAgree'
  BY <1>2 DEF EditsInv, FilesAgree, Halfway
<1> QED BY <1>1, <1>3, <1>4, <1>5, <1>6 DEF EditsInv

LEMMA EditsInvariant == EditsSpec => []EditsInv
<1>1. EditsInv /\ [EditsNext]_editVars => EditsInv'
  BY EditsStep, EditsStutter
<1> QED BY EditsInitially, <1>1, PTL DEF EditsSpec
-----------------------------------------------------------------------------
(* The type invariant, for any number of requests and any faults.          *)
THEOREM EditsTypeCorrect == EditsSpec => []EditsTypeOK
<1>1. EditsInv => EditsTypeOK
  BY DEF EditsInv
<1> QED BY EditsInvariant, <1>1, PTL

(* segments.json, output.srt and the row are of one version unless an edit *)
(* is being written or failed since the last one that was saved            *)
(* (jobs.service.ts:352-360).                                              *)
THEOREM FilesStayTogether == EditsSpec => []FilesAgree
<1>1. EditsInv => FilesAgree
  BY DEF EditsInv
<1> QED BY EditsInvariant, <1>1, PTL

(* Only the task inside writes segments.json, and what it writes is its    *)
(* edit of the version stored at that moment.                              *)
LEMMA WritesItsEdit ==
    ASSUME EditsInv, EditsNext, segments' # segments
    PROVE  \E t \in Tasks : segments' = Edited(t, segments)
<1>1. PICK t \in Tasks : PutSegments(t) \/ (CallFails(t) /\ step[t] = "segments" /\ segments' = Edited(t, base[t]))
  BY DEF EditsNext, EditStep, AskEdit, StartEdit, ReadSegments, PutSrt, UpdateRow, ForgetKey, CallFails, GatewayCrash, filesVars
<1>2. step[t] = "segments" /\ segments' = Edited(t, base[t])
  BY <1>1 DEF PutSegments
<1>3. base[t] = segments
  BY <1>2 DEF EditsInv, InsideNothingMoves
<1> QED BY <1>2, <1>3

(* No edit is overwritten by another one that did not read it, however     *)
(* many requests there are and whatever fails (jobs.service.ts:328).       *)
THEOREM EditsAreNotLost == EditsSpec => NoLostEdit
<1>1. EditsInv /\ [EditsNext]_editVars =>
          [segments' # segments => \E t \in Tasks : segments' = Edited(t, segments)]_editVars
  <2> SUFFICES ASSUME EditsInv, EditsNext, segments' # segments
               PROVE  \E t \in Tasks : segments' = Edited(t, segments)
    BY DEF editVars, filesVars
  <2> QED BY WritesItsEdit
<1> QED BY EditsInvariant, <1>1, PTL DEF EditsSpec, NoLostEdit
-----------------------------------------------------------------------------
(* What the store sees of each action. *)
LEMMA AskIsAsked == ASSUME EditsInv, NEW t \in Tasks, AskEdit(t) PROVE Store!Next
<1>1. PICK etag \in Etags : expected' = [expected EXCEPT ![t] = etag]
  BY DEF AskEdit
<1>2. etag \in Content \cup {NoEtag}
  BY EtagsAssumption
<1>3. answer[t] = "none" /\ t \notin landed
  BY DEF AskEdit, Arrive, EditsInv, AnswersAreTrue
<1>4. Store!Ask(t, etag)
  BY <1>1, <1>3 DEF Store!Ask, AskEdit, filesVars
<1> QED BY <1>2, <1>4 DEF Store!Next

LEMMA PutIsLanding == ASSUME EditsInv, NEW t \in Tasks, PutSegments(t) PROVE Store!Next
<1>1. /\ step[t] = "segments" /\ segments' = Edited(t, segments) /\ landed' = landed \cup {t}
      /\ expected[t] \in {NoEtag, segments} /\ UNCHANGED <<expected, answer>>
  BY DEF PutSegments, EditsInv, InsideNothingMoves
<1>2. answer[t] = "none" /\ t \notin landed
  BY <1>1 DEF EditsInv, AnswersAreTrue, InsideRuns, Active
<1>3. Store!Land(t)
  BY <1>1, <1>2 DEF Store!Land
<1> QED BY <1>3 DEF Store!Next

LEMMA UpdateIsSaving == ASSUME EditsInv, NEW t \in Tasks, UpdateRow(t) PROVE Store!Next
<1>1. answer[t] = "none" /\ t \in landed
  BY DEF UpdateRow, EditsInv, AnswersAreTrue, InsideRuns, Active
<1>2. Store!Save(t)
  BY <1>1 DEF Store!Save, UpdateRow, EndsWith
<1> QED BY <1>2 DEF Store!Next

LEMMA ReadIsRefusing ==
    ASSUME EditsInv, NEW t \in Tasks, ReadSegments(t)
    PROVE  Store!Next \/ UNCHANGED <<segments, expected, landed, answer>>
<1>1. answer[t] = "none" /\ t \notin landed /\ UNCHANGED <<segments, landed, expected>>
  BY DEF ReadSegments, EndsWith, filesVars, EditsInv, AnswersAreTrue, InsideRuns, Active
<1>2. CASE ~SameVersion(t) /\ EndsWith(t, "changed")
  <2>1. Store!Refuse(t)
    BY <1>1, <1>2 DEF Store!Refuse, EndsWith, SameVersion
  <2> QED BY <2>1 DEF Store!Next
<1>3. CASE EndsWith(t, "rejected")
  <2>1. Store!Refuse(t)
    BY <1>1, <1>3 DEF Store!Refuse, EndsWith
  <2> QED BY <2>1 DEF Store!Next
<1>4. CASE UNCHANGED answer
  BY <1>1, <1>4
<1> QED BY <1>2, <1>3, <1>4 DEF ReadSegments

LEMMA FailingIsLosing == ASSUME EditsInv, NEW t \in Tasks, CallFails(t) PROVE Store!Next
<1>1. /\ answer[t] = "none" /\ answer' = [answer EXCEPT ![t] = "lost"] /\ UNCHANGED expected
      /\ answer \in [Tasks -> Answers] /\ step[t] # "outside"
  BY DEF CallFails, EndsWith, Settle, EditsInv, AnswersAreTrue, Active, EditsTypeOK, InsideRuns
<1>2. \/ UNCHANGED <<segments, landed>>
      \/ /\ t \notin landed /\ expected[t] \in {NoEtag, segments}
         /\ segments' = Edited(t, segments) /\ landed' = landed \cup {t}
  BY DEF CallFails, filesVars, EditsInv, InsideNothingMoves, AnswersAreTrue
<1>3. answer' = [u \in Tasks |-> IF u \in {t} THEN "lost" ELSE answer[u]]
  BY <1>1
<1>4. Store!LoseAnswers({t})
  BY <1>1, <1>2, <1>3 DEF Store!LoseAnswers
<1> QED BY <1>4 DEF Store!Next

LEMMA CrashIsLosing == ASSUME EditsInv, GatewayCrash PROVE Store!Next
<1> DEFINE S == {t \in Tasks : Active(t)}
<1>1. answer' = [t \in Tasks |-> IF t \in S THEN "lost" ELSE answer[t]]
  BY DEF GatewayCrash
<1>2. \A t \in S : answer[t] = "none"
  BY DEF EditsInv, AnswersAreTrue
<1>3. Store!LoseAnswers(S)
  BY <1>1, <1>2 DEF Store!LoseAnswers, GatewayCrash, filesVars
<1> QED BY <1>3 DEF Store!Next

LEMMA StoreStep ==
    ASSUME EditsInv, [EditsNext]_editVars
    PROVE  [Store!Next]_(Store!storeVars)
<1> USE DEF Store!storeVars
<1>1. CASE UNCHANGED editVars
  BY <1>1 DEF editVars, filesVars, requestVars
<1>2. ASSUME NEW t \in Tasks, AskEdit(t) PROVE Store!Next
  BY <1>2, AskIsAsked
<1>3. ASSUME NEW t \in Tasks, EditStep(t) PROVE Store!Next \/ UNCHANGED <<segments, expected, landed, answer>>
  <2>1. CASE StartEdit(t) \/ PutSrt(t) \/ ForgetKey(t)
    BY <2>1 DEF StartEdit, PutSrt, ForgetKey, filesVars, requestVars
  <2>2. CASE ReadSegments(t)
    BY <2>2, ReadIsRefusing
  <2>3. CASE PutSegments(t)
    BY <2>3, PutIsLanding
  <2>4. CASE UpdateRow(t)
    BY <2>4, UpdateIsSaving
  <2> QED BY <1>3, <2>1, <2>2, <2>3, <2>4 DEF EditStep
<1>4. ASSUME NEW t \in Tasks, CallFails(t) PROVE Store!Next
  BY <1>4, FailingIsLosing
<1>5. ASSUME GatewayCrash PROVE Store!Next
  BY <1>5, CrashIsLosing
<1> QED BY <1>1, <1>2, <1>3, <1>4, <1>5 DEF EditsNext

(* For its clients the subtitles of a job are one register that each edit  *)
(* changes at most once, in one step and on the version its ETag names;    *)
(* what they are told is what happened (jobs.service.ts:325-361).          *)
THEOREM EditsImplementStore == EditsSpec => ImplementsStore
<1>1. EditsInit => Store!Init
  BY DEF EditsInit, Store!Init
<1>2. EditsInv /\ [EditsNext]_editVars => [Store!Next]_(Store!storeVars)
  BY StoreStep
<1> QED BY EditsInvariant, <1>1, <1>2, PTL DEF EditsSpec, ImplementsStore, Store!Spec
-----------------------------------------------------------------------------
(* Derived jobs *)

DerivedTypeOK ==
    /\ request \in [Requests -> RequestSteps]
    /\ row \in [Requests -> RowStatus]
    /\ run \in [Requests -> RunSteps]
    /\ pinned \in [Requests -> Content \cup {NoEtag}]
    /\ source \in [Requests -> Content \cup {NoEtag}]

(* A row comes from a request that was accepted, a run from a row. *)
RowsAreAsked ==
    \A r \in Requests : /\ row[r] # "absent" => request[r] = "created"
                        /\ row[r] \in {"absent", "QUEUED"} => run[r] = "idle"
                        /\ row[r] = "COMPLETED" => run[r] = "finished"

HasRead(r) == run[r] \in {"read", "spending", "finished"}

(* What a run has read is what its request pinned and, if it costs money, within the caps. *)
ReadIsPinned ==
    \A r \in Requests : HasRead(r) => source[r] = pinned[r] /\ (Spends(r) => WithinCaps(source[r]))

DerivedInv ==
    /\ DerivedTypeOK
    /\ RowsAreAsked
    /\ ReadIsPinned
    /\ OneActivePerKind

(* The actions that only move a request towards its row. *)
LEMMA RequestsKeep ==
    ASSUME DerivedInv, NEW r \in Requests, NEW next \in RequestSteps \ {"new"},
           row[r] = "absent", RequestGoes(r, next),
           pinned' \in [Requests -> Content \cup {NoEtag}],
           \A q \in Requests \ {r} : pinned'[q] = pinned[q],
           UNCHANGED <<row, run, source>>
    PROVE  DerivedInv'
<1>1. \A q \in Requests \ {r} : request'[q] = request[q]
  BY DEF RequestGoes, DerivedInv, DerivedTypeOK
<1>2. run[r] = "idle"
  BY DEF DerivedInv, RowsAreAsked
<1>3. DerivedTypeOK'
  BY DEF DerivedInv, DerivedTypeOK, RequestGoes
<1>4. RowsAreAsked'
  BY <1>1 DEF DerivedInv, RowsAreAsked
<1>5. ReadIsPinned'
  BY <1>2 DEF DerivedInv, ReadIsPinned, HasRead
<1>6. OneActivePerKind'
  BY DEF DerivedInv, OneActivePerKind
<1> QED BY <1>3, <1>4, <1>5, <1>6 DEF DerivedInv

LEMMA RequestStepKeeps ==
    ASSUME DerivedInv, segments \in Content, NEW r \in Requests, RequestStep(r) PROVE DerivedInv'
<1>1. request[r] # "created" => row[r] = "absent"
  BY DEF DerivedInv, RowsAreAsked
<1>2. pinned \in [Requests -> Content \cup {NoEtag}]
  BY DEF DerivedInv, DerivedTypeOK
<1>3. CASE Head(r)
  <2>1. PICK next \in {"count", "caps"} : RequestGoes(r, next)
    BY <1>3 DEF Head
  <2> QED BY <2>1, <1>1, <1>2, <1>3, RequestsKeep DEF Head, Pin, RequestSteps
<1>4. CASE CheckCaps(r)
  <2>1. PICK next \in {"count", "refused"} : RequestGoes(r, next)
    BY <1>4 DEF CheckCaps
  <2>2. /\ pinned' \in [Requests -> Content \cup {NoEtag}]
        /\ \A q \in Requests \ {r} : pinned'[q] = pinned[q]
        /\ row[r] = "absent" /\ UNCHANGED <<row, run, source>>
    BY <1>1, <1>2, <1>4 DEF CheckCaps, Pin
  <2> QED BY <2>1, <2>2, RequestsKeep DEF RequestSteps
<1>5. CASE CountActive(r)
  <2>1. PICK next \in {"insert", "refused"} : RequestGoes(r, next)
    BY <1>5 DEF CountActive
  <2> QED BY <2>1, <1>1, <1>2, <1>5, RequestsKeep DEF CountActive, RequestSteps
<1>6. CASE InsertRow(r) /\ OneIsActive(r)
  BY <1>1, <1>2, <1>6, RequestsKeep DEF InsertRow, RequestSteps
<1>7. CASE InsertRow(r) /\ ~OneIsActive(r)
  <2>1. /\ row[r] = "absent" /\ row'[r] = "QUEUED" /\ request'[r] = "created"
        /\ \A q \in Requests \ {r} : row'[q] = row[q] /\ request'[q] = request[q]
        /\ UNCHANGED <<pinned, run, source>>
    BY <1>1, <1>7 DEF InsertRow, RowBecomes, RequestGoes, DerivedInv, DerivedTypeOK
  <2>2. DerivedTypeOK'
    BY <1>7 DEF DerivedInv, DerivedTypeOK, InsertRow, RowBecomes, RequestGoes, RequestSteps, RowStatus
  <2>3. RowsAreAsked'
    BY <2>1 DEF DerivedInv, RowsAreAsked
  <2>4. ReadIsPinned'
    BY <2>1 DEF DerivedInv, ReadIsPinned, HasRead
  <2>5. OneActivePerKind'
    BY <2>1, <1>7 DEF DerivedInv, OneActivePerKind, OneIsActive
  <2> QED BY <2>2, <2>3, <2>4, <2>5 DEF DerivedInv
<1> QED BY <1>3, <1>4, <1>5, <1>6, <1>7 DEF RequestStep, InsertRow

(* The actions of a worker on a run of its own. *)
LEMMA RunsKeep ==
    ASSUME DerivedInv, NEW r \in Requests, NEW next \in RunSteps, RunGoes(r, next), next # "idle",
           run[r] \notin {"idle", "finished"}, UNCHANGED <<request, pinned>>,
           source' \in [Requests -> Content \cup {NoEtag}],
           \A q \in Requests \ {r} : source'[q] = source[q],
           HasRead(r)' => source'[r] = pinned[r] /\ (Spends(r) => WithinCaps(source'[r])),
           \/ UNCHANGED row
           \/ next = "finished" /\ row' = [row EXCEPT ![r] = IF @ = "RUNNING" THEN "COMPLETED" ELSE @]
    PROVE  DerivedInv'
<1>1. run'[r] = next /\ \A q \in Requests \ {r} : run'[q] = run[q]
  BY DEF RunGoes, DerivedInv, DerivedTypeOK
<1>2. /\ row[r] \in {"RUNNING", "CLOSED"} /\ row'[r] \in {"RUNNING", "CLOSED", "COMPLETED"}
      /\ row'[r] = "COMPLETED" => next = "finished"
      /\ row'[r] \in {"QUEUED", "RUNNING"} => row[r] \in {"QUEUED", "RUNNING"}
      /\ \A q \in Requests \ {r} : row'[q] = row[q]
      /\ row' \in [Requests -> RowStatus]
  BY DEF DerivedInv, RowsAreAsked, DerivedTypeOK, RowStatus
<1>3. DerivedTypeOK'
  BY <1>2 DEF DerivedInv, DerivedTypeOK, RunGoes
<1>4. RowsAreAsked'
  BY <1>1, <1>2 DEF DerivedInv, RowsAreAsked
<1>5. ReadIsPinned'
  BY <1>1 DEF DerivedInv, ReadIsPinned, HasRead
<1>6. OneActivePerKind'
  BY <1>2 DEF DerivedInv, OneActivePerKind
<1> QED BY <1>3, <1>4, <1>5, <1>6 DEF DerivedInv

LEMMA WorkerStepKeeps ==
    ASSUME DerivedInv, segments \in Content, NEW r \in Requests, WorkerStep(r) PROVE DerivedInv'
<1>1. source \in [Requests -> Content \cup {NoEtag}]
  BY DEF DerivedInv, DerivedTypeOK
<1>2. CASE Claim(r)
  <2>1. /\ row[r] = "QUEUED" /\ row'[r] = "RUNNING" /\ run'[r] = "claimed" /\ run[r] = "idle"
        /\ \A q \in Requests \ {r} : row'[q] = row[q] /\ run'[q] = run[q]
        /\ UNCHANGED <<request, pinned, source>>
    BY <1>2 DEF Claim, RowBecomes, RunGoes, DerivedInv, DerivedTypeOK, RowsAreAsked
  <2>2. DerivedTypeOK'
    BY <1>2 DEF Claim, RowBecomes, RunGoes, DerivedInv, DerivedTypeOK, RowStatus, RunSteps
  <2>3. RowsAreAsked'
    BY <2>1 DEF DerivedInv, RowsAreAsked
  <2>4. ReadIsPinned'
    BY <2>1 DEF DerivedInv, ReadIsPinned, HasRead
  <2>5. OneActivePerKind'
    BY <2>1 DEF DerivedInv, OneActivePerKind
  <2> QED BY <2>2, <2>3, <2>4, <2>5 DEF DerivedInv
<1>3. CASE ReadPinned(r) /\ segments # pinned[r]
  <2>1. RunGoes(r, "failed") /\ run[r] = "claimed" /\ UNCHANGED <<request, pinned, row, source>> /\ ~HasRead(r)'
    BY <1>3 DEF ReadPinned, RunGoes, HasRead, DerivedInv, DerivedTypeOK
  <2> QED BY <1>1, <2>1, RunsKeep DEF RunSteps
<1>4. CASE ReadPinned(r) /\ segments = pinned[r]
  <2>1. /\ run[r] = "claimed" /\ UNCHANGED <<request, pinned, row>>
        /\ source' \in [Requests -> Content \cup {NoEtag}]
        /\ source'[r] = pinned[r] /\ \A q \in Requests \ {r} : source'[q] = source[q]
    BY <1>1, <1>4 DEF ReadPinned
  <2>2. CASE Spends(r) /\ ~WithinCaps(segments)
    <3>1. RunGoes(r, "failed") /\ ~HasRead(r)'
      BY <1>4, <2>2 DEF ReadPinned, RunGoes, HasRead, DerivedInv, DerivedTypeOK
    <3> QED BY <2>1, <3>1, RunsKeep DEF RunSteps
  <2>3. CASE ~(Spends(r) /\ ~WithinCaps(segments))
    <3>1. RunGoes(r, "read") /\ (Spends(r) => WithinCaps(source'[r]))
      BY <1>4, <2>1, <2>3 DEF ReadPinned
    <3> QED BY <2>1, <3>1, RunsKeep DEF RunSteps
  <2> QED BY <2>2, <2>3
<1>5. CASE CallProvider(r)
  <2>1. /\ RunGoes(r, "spending") /\ run[r] = "read" /\ UNCHANGED <<request, pinned, row, source>>
        /\ source[r] = pinned[r] /\ (Spends(r) => WithinCaps(source[r]))
    BY <1>5 DEF CallProvider, DerivedInv, ReadIsPinned, HasRead
  <2> QED BY <1>1, <2>1, RunsKeep DEF RunSteps
<1>6. CASE Complete(r)
  <2>1. /\ RunGoes(r, "finished") /\ run[r] \in {"read", "spending"} /\ UNCHANGED <<request, pinned, source>>
        /\ row' = [row EXCEPT ![r] = IF @ = "RUNNING" THEN "COMPLETED" ELSE @]
    BY <1>6 DEF Complete
  <2>2. source[r] = pinned[r] /\ (Spends(r) => WithinCaps(source[r]))
    BY <2>1 DEF DerivedInv, ReadIsPinned, HasRead
  <2> QED BY <1>1, <2>1, <2>2, RunsKeep DEF RunSteps
<1>7. CASE Close(r)
  <2>1. /\ row[r] \in {"QUEUED", "RUNNING"} /\ row'[r] = "CLOSED" /\ UNCHANGED <<request, pinned, run, source>>
        /\ \A q \in Requests \ {r} : row'[q] = row[q]
        /\ row' \in [Requests -> RowStatus]
    BY <1>7 DEF Close, RowBecomes, DerivedInv, DerivedTypeOK, RowStatus
  <2>2. DerivedTypeOK' /\ RowsAreAsked' /\ OneActivePerKind'
    BY <2>1 DEF DerivedInv, DerivedTypeOK, RowsAreAsked, OneActivePerKind
  <2>3. ReadIsPinned'
    BY <2>1 DEF DerivedInv, ReadIsPinned, HasRead
  <2> QED BY <2>2, <2>3 DEF DerivedInv
<1> QED BY <1>2, <1>3, <1>4, <1>5, <1>6, <1>7 DEF WorkerStep

LEMMA DerivedStutter ==
    ASSUME DerivedInv, UNCHANGED <<pinned, row, run, source>>,
           request' \in [Requests -> RequestSteps],
           \A r \in Requests : request[r] = "created" => request'[r] = "created"
    PROVE  DerivedInv'
BY DEF DerivedInv, DerivedTypeOK, RowsAreAsked, ReadIsPinned, HasRead, OneActivePerKind

LEMMA DerivedStep ==
    ASSUME DerivedInv, segments \in Content, [Next]_vars PROVE DerivedInv'
<1>1. CASE Editing \/ UNCHANGED vars
  BY <1>1, DerivedStutter DEF Editing, vars, derivedVars, DerivedInv, DerivedTypeOK
<1>2. CASE ApiCrash
  <2>1. request' \in [Requests -> RequestSteps]
    BY <1>2 DEF ApiCrash, DerivedInv, DerivedTypeOK, RequestSteps
  <2>2. \A r \in Requests : request[r] = "created" => request'[r] = "created"
    BY <1>2 DEF ApiCrash
  <2> QED BY <1>2, <2>1, <2>2, DerivedStutter DEF ApiCrash
<1> QED BY <1>1, <1>2, RequestStepKeeps, WorkerStepKeeps DEF Next

(* For the subtitles a step of a derived job is no step at all. *)
LEMMA EditsUnderDerived == ASSUME [Next]_vars PROVE [EditsNext]_editVars
<1>1. CASE Editing
  BY <1>1 DEF Editing, EditsNext
<1>2. CASE ApiCrash
  BY <1>2 DEF ApiCrash, EditsNext
<1>3. ASSUME NEW r \in Requests, RequestStep(r) PROVE UNCHANGED editVars
  BY <1>3 DEF RequestStep, Head, CheckCaps, CountActive, InsertRow
<1>4. ASSUME NEW r \in Requests, WorkerStep(r) PROVE UNCHANGED editVars
  BY <1>4 DEF WorkerStep, Claim, ReadPinned, CallProvider, Complete, Close
<1>5. CASE UNCHANGED vars
  BY <1>5 DEF vars
<1> QED BY <1>1, <1>2, <1>3, <1>4, <1>5 DEF Next

(* What is proved of the edits holds with derived jobs around: asking for  *)
(* them and computing them does not touch the subtitles.                   *)
THEOREM EditsUndisturbed == Spec => EditsSpec
<1>1. Init => EditsInit
  BY DEF Init
<1> QED BY <1>1, EditsUnderDerived, PTL DEF Spec, EditsSpec

LEMMA DerivedInvariant == Spec => []DerivedInv
<1>1. Init => DerivedInv
  BY DEF Init, DerivedInv, DerivedTypeOK, RowsAreAsked, ReadIsPinned, HasRead, OneActivePerKind,
         RequestSteps, RowStatus, RunSteps
<1>2. EditsInv => segments \in Content
  BY DEF EditsInv, EditsTypeOK
<1>3. DerivedInv /\ segments \in Content /\ [Next]_vars => DerivedInv'
  BY DerivedStep
<1> QED BY <1>1, <1>2, <1>3, EditsUndisturbed, EditsInvariant, PTL DEF Spec

(* The type invariant, for any number of edits and of requests.            *)
THEOREM DerivedTypeCorrect == Spec => []TypeOK
<1>1. EditsInv /\ DerivedInv => TypeOK
  BY DEF EditsInv, DerivedInv, DerivedTypeOK, TypeOK
<1> QED BY <1>1, EditsUndisturbed, EditsInvariant, DerivedInvariant, PTL

(* However many requests count no active job, one gets its row             *)
(* (jobs.service.ts:247-260).                                              *)
THEOREM OneActiveDerivedJob == Spec => []OneActivePerKind
<1>1. DerivedInv => OneActivePerKind
  BY DEF DerivedInv
<1> QED BY <1>1, DerivedInvariant, PTL

(* A derived job that completes was made from the version pinned when it   *)
(* was requested, whatever edits came since (burn.py:61-70).               *)
THEOREM CompletedFromPinned == Spec => []MadeFromApproved
<1>1. DerivedInv => MadeFromApproved
  BY DEF DerivedInv, RowsAreAsked, ReadIsPinned, HasRead, MadeFromApproved
<1> QED BY <1>1, DerivedInvariant, PTL

(* The second look of the worker keeps every text over the caps away from  *)
(* the providers, also where the first one, in createDub, was of another   *)
(* version (translate.py:43-50, dub.py:126).                               *)
THEOREM NothingOverTheCapsIsSent == Spec => []SpendsWithinCaps
<1>1. DerivedInv => SpendsWithinCaps
  BY DEF DerivedInv, ReadIsPinned, HasRead, SpendsWithinCaps
<1> QED BY <1>1, DerivedInvariant, PTL
=============================================================================
