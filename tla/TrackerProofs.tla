---------------------------- MODULE TrackerProofs ---------------------------
(***************************************************************************)
(* The page that follows a job and the streams it opens, for any jobs,     *)
(* connections, addresses and limits.  What is sent on a connection is in  *)
(* the order of the job's statuses and after what the page has seen of it; *)
(* a connection the page does not follow is hung up; a slot is counted     *)
(* exactly while somebody holds it.                                        *)
(***************************************************************************)
EXTENDS Tracker, FiniteSetTheorems, SequenceTheorems, TLAPS

Real == Pending \cup Terminal
NotAfter(a, b) == a \in Real /\ b \in Real /\ (a = b \/ Order[a] < Order[b])

(* What a connection has to agree with. *)
Now == [job |-> job, tr |-> tr, gestures |-> gestures, controller |-> controller, mine |-> fol.conn]

(* The statuses on the wire are in order, and none is after the last one sent. *)
InOrder(x) ==
    \A i \in 1..Len(x.wire) : x.wire[i] \in Status =>
      /\ NotAfter(x.wire[i], x.last)
      /\ \A k \in i..Len(x.wire) : x.wire[k] \in Status => NotAfter(x.wire[i], x.wire[k])

(* None of them is before what the page shows. *)
IsNews(x, s) ==
    x.by = s.controller /\ x.of = s.tr.jobId /\ s.tr.seen # None =>
      \A i \in 1..Len(x.wire) : x.wire[i] \in Status => NotAfter(s.tr.seen, x.wire[i])

Fine(c, x, s) ==
    /\ x \in Connection
    /\ x.step = "unused" => x.slot = "none" /\ x.wire = <<>> /\ x.last = None /\ x.by = 0
    /\ x.step # "unused" => x.of \in Jobs /\ x.by \in 1..s.gestures
    /\ x.step # "unused" /\ ~x.hung => c = s.mine
    /\ x.step = "asked" => x.slot = "none"
    /\ x.step = "open" => x.slot = "held" /\ s.job[x.of] \in Real
    /\ x.step = "reading" => x.slot = "held" \/ x.hung
    /\ x.hung /\ x.wire # <<>> => x.by # s.controller
    /\ x.last # None => NotAfter(x.last, s.job[x.of])
    /\ InOrder(x) /\ IsNews(x, s)

ConnsInv == conn \in [Conns -> Connection] /\ \A c \in Conns : Fine(c, conn[c], Now)

HeldBy(k) == {c \in Held : Key[c] = k}

CountInv ==
    /\ perKey \in [Keys -> Nat]
    /\ inUse = Cardinality(Held) /\ \A k \in Keys : perKey[k] = Cardinality(HeldBy(k))
    /\ MaxTotal > 0 => inUse <= MaxTotal
    /\ MaxPerKey > 0 => \A k \in Keys : perKey[k] <= MaxPerKey

PageTypeOK ==
    /\ job \in [Jobs -> Status]
    /\ tr \in [jobId: Jobs \cup {None}, seen: Status \cup {None}, lost: BOOLEAN]
    /\ gestures \in 0..MaxGestures
    /\ controller \in 0..gestures
    /\ fetch \in [Turns -> [of: Jobs \cup {None}, answer: {"asked", "failed", None} \cup Status]]
    /\ fol \in [step: FolSteps, conn: Conns \cup {None}, failures: 0..MaxFailures, progressed: BOOLEAN]

(* The GET of an opening: it has not been followed by anything yet if it is in charge. *)
FetchInv(t) ==
    /\ fetch[t].of = None => fetch[t].answer = None
    /\ fetch[t].of # None =>
         /\ t <= gestures
         /\ fetch[t].answer \in {"asked", "failed"} \/ NotAfter(fetch[t].answer, job[fetch[t].of])
         /\ t = controller => fol = Idle /\ tr = Track(fetch[t].of) /\ \A c \in Conns : conn[c].by # t

PageInv ==
    /\ fol.step # "idle" => controller # 0 /\ tr.jobId \in Jobs
    /\ fol.conn # None => fol.step = "stream"
    /\ tr.seen # None => tr.jobId \in Jobs /\ NotAfter(tr.seen, job[tr.jobId])
    /\ \A t \in Turns : FetchInv(t)

TrackerInv == PageTypeOK /\ CountInv /\ ConnsInv /\ PageInv
-----------------------------------------------------------------------------
LEMMA NotAfterIsTransitive ==
    ASSUME NEW a, NEW b, NEW d, NotAfter(a, b), NotAfter(b, d) PROVE NotAfter(a, d)
<1>1. \A e \in Real : Order[e] \in Nat
  BY DEF Order, Real, Pending, Terminal
<1> QED BY <1>1 DEF NotAfter

LEMMA TerminalIsLast ==
    ASSUME NEW a \in Terminal, NEW b, NotAfter(a, b) PROVE b = a
BY DEF NotAfter, Order, Real, Pending, Terminal

(* The wire, seen as a sequence. *)
LEMMA WireIsSeq ==
    ASSUME NEW x \in Connection
    PROVE  /\ x.wire \in Seq(Status \cup Marks) /\ Len(x.wire) \in Nat /\ (x.wire = <<>> <=> Len(x.wire) = 0)
           /\ \A i \in 1..Len(x.wire) : x.wire[i] \in Status \cup Marks
<1>1. x.wire \in Seq(Status \cup Marks)
  BY DEF Connection
<1>2. x.wire = <<>> <=> Len(x.wire) = 0
  BY <1>1, EmptySeq
<1> QED BY <1>1, <1>2, LenProperties, ElementOfSeq

LEMMA LastOrBefore == ASSUME NEW n \in Nat, NEW a \in Nat, NEW i \in a..(n + 1) PROVE i = n + 1 \/ i \in a..n
OBVIOUS

LEMMA UnusedIsFine == ASSUME NEW c, NEW s PROVE Fine(c, Unused, s)
<1>1. Unused \in Connection /\ Unused.wire = <<>> /\ Unused.step = "unused" /\ Unused.last = None /\ Unused.by = 0 /\ Unused.slot = "none" /\ ~Unused.hung
  BY DEF Unused, Connection, ConnSteps
<1>2. Len(Unused.wire) = 0
  BY <1>1
<1> QED BY <1>1, <1>2 DEF Fine, InOrder, IsNews

LEMMA TidyIsFine == ASSUME NEW c, NEW x, NEW s, Fine(c, x, s) PROVE Fine(c, Tidy(x), s)
BY UnusedIsFine DEF Tidy

(* The same connection, but for its steps and for the slot. *)
LEMMA StepIsFine ==
    ASSUME NEW c, NEW x, NEW y, NEW s, Fine(c, x, s), x.step # "unused", y.step \in ConnSteps \ {"unused"},
           y = [x EXCEPT !.step = y.step, !.slot = y.slot, !.hooked = y.hooked],
           y.slot \in {"none", "held", "released"}, y.hooked \in BOOLEAN,
           y.step # "asked", y.step = "open" => y.slot = "held" /\ s.job[x.of] \in Real,
           y.step = "reading" => y.slot = "held" \/ x.hung
    PROVE  Fine(c, y, s)
<1>1. x \in Connection
  BY DEF Fine
<1>2. /\ y.of = x.of /\ y.by = x.by /\ y.hung = x.hung /\ y.last = x.last /\ y.wire = x.wire
      /\ y \in Connection
  BY <1>1 DEF Connection
<1> QED BY <1>1, <1>2 DEF Fine, InOrder, IsNews

LEMMA HungUpIsFine == ASSUME NEW c, NEW x, NEW s, Fine(c, x, s) PROVE Fine(c, HungUp(x), s)
<1> DEFINE y == [x EXCEPT !.hung = TRUE, !.wire = <<>>]
<1>1. /\ y \in Connection /\ y.of = x.of /\ y.by = x.by /\ y.step = x.step /\ y.slot = x.slot /\ y.last = x.last
      /\ y.hung /\ y.wire = <<>>
  <2>1. <<>> \in Seq(Status \cup Marks)
    BY EmptySeq
  <2> QED BY <2>1 DEF Fine, Connection
<1>2. Len(y.wire) = 0
  BY <1>1
<1> HIDE DEF y
<1>3. Fine(c, y, s)
  BY <1>1, <1>2 DEF Fine, InOrder, IsNews
<1> QED BY <1>3, TidyIsFine DEF HungUp, y

(* One more message at the end of the wire. *)
LEMMA SentIsFine ==
    ASSUME NEW c, NEW x, NEW s, NEW m \in Status \cup Marks, NEW y, Fine(c, x, s), x.step # "unused", ~x.hung,
           y = [x EXCEPT !.wire = Append(x.wire, m), !.last = IF m \in Status THEN m ELSE x.last],
           m \in Status =>
             /\ m = s.job[x.of] /\ m \in Real
             /\ x.by = s.controller /\ x.of = s.tr.jobId /\ s.tr.seen # None => NotAfter(s.tr.seen, m)
    PROVE  Fine(c, y, s)
<1> DEFINE n == Len(x.wire)
<1>1. x \in Connection /\ x.wire \in Seq(Status \cup Marks) /\ n \in Nat
  BY WireIsSeq DEF Fine
<1>2. /\ y.wire \in Seq(Status \cup Marks) /\ Len(y.wire) = n + 1
      /\ y.wire[n + 1] = m /\ \A i \in 1..n : y.wire[i] = x.wire[i]
  <2>1. y.wire = Append(x.wire, m)
    BY <1>1 DEF Connection
  <2> QED BY <1>1, <2>1, AppendProperties
<1>3. /\ y.of = x.of /\ y.by = x.by /\ y.step = x.step /\ y.slot = x.slot /\ y.hung = x.hung
      /\ y.last = (IF m \in Status THEN m ELSE x.last) /\ y \in Connection
  BY <1>1, <1>2 DEF Connection
<1> HIDE DEF n
<1>4. m \in Status => NotAfter(m, m) /\ (x.last # None => NotAfter(x.last, m))
  BY DEF Fine, NotAfter
<1>5. \A i \in 1..n : x.wire[i] \in Status => NotAfter(x.wire[i], x.last) /\ (m \in Status => NotAfter(x.wire[i], m))
  <2> SUFFICES ASSUME NEW i \in 1..n, x.wire[i] \in Status
               PROVE  NotAfter(x.wire[i], x.last) /\ (m \in Status => NotAfter(x.wire[i], m))
    OBVIOUS
  <2>1. NotAfter(x.wire[i], x.last)
    BY DEF Fine, InOrder, n
  <2>2. x.last # None
    BY <2>1, NoneAssumption DEF NotAfter, Real, Status
  <2> QED BY <1>4, <2>1, <2>2, NotAfterIsTransitive
<1>6. InOrder(y)
  <2> SUFFICES ASSUME NEW i \in 1..(n + 1), y.wire[i] \in Status
               PROVE  /\ NotAfter(y.wire[i], y.last)
                      /\ \A k \in i..(n + 1) : y.wire[k] \in Status => NotAfter(y.wire[i], y.wire[k])
    BY <1>2 DEF InOrder
  <2>1. CASE i = n + 1
    BY <1>1, <1>2, <1>3, <1>4, <2>1
  <2>2. CASE i \in 1..n
    <3>1. x.wire[i] \in Status /\ NotAfter(y.wire[i], y.last)
      BY <1>2, <1>3, <1>5, <2>2
    <3>2. ASSUME NEW k \in i..(n + 1), y.wire[k] \in Status PROVE NotAfter(y.wire[i], y.wire[k])
      <4>1. CASE k = n + 1
        BY <1>2, <1>5, <2>2, <3>1, <3>2, <4>1
      <4>2. CASE k \in i..n
        <5>1. k \in 1..n /\ y.wire[k] = x.wire[k]
          BY <1>1, <1>2, <2>2, <4>2
        <5> QED BY <1>2, <2>2, <3>1, <3>2, <4>2, <5>1 DEF Fine, InOrder, n
      <4>3. i \in Nat
        BY <1>1, <2>2
      <4>4. k = n + 1 \/ k \in i..n
        BY <1>1, <4>3, LastOrBefore
      <4> QED BY <4>1, <4>2, <4>4
    <3> QED BY <3>1, <3>2
  <2> QED BY <1>1, <2>1, <2>2, LastOrBefore
<1>7. IsNews(y, s)
  <2> SUFFICES ASSUME y.by = s.controller, y.of = s.tr.jobId, s.tr.seen # None, NEW i \in 1..(n + 1), y.wire[i] \in Status
               PROVE  NotAfter(s.tr.seen, y.wire[i])
    BY <1>2 DEF IsNews
  <2>1. CASE i = n + 1
    BY <1>2, <1>3, <2>1
  <2>2. CASE i \in 1..n
    BY <1>2, <1>3, <2>2 DEF Fine, IsNews, n
  <2> QED BY <1>1, <2>1, <2>2, LastOrBefore
<1>8. y.last # None => NotAfter(y.last, s.job[y.of])
  BY <1>3, <1>4 DEF Fine
<1> QED BY <1>3, <1>6, <1>7, <1>8 DEF Fine
-----------------------------------------------------------------------------
(* A slot is taken, given back, or neither. *)
LEMMA CountKeeps ==
    ASSUME CountInv, NEW c \in Conns, \A d \in Conns \ {c} : conn'[d].slot = conn[d].slot,
           \/ (conn'[c].slot = "held" <=> conn[c].slot = "held") /\ UNCHANGED <<inUse, perKey>>
           \/ conn[c].slot # "held" /\ conn'[c].slot = "held" /\ ~Full(c) /\ Take(c)
           \/ conn'[c].slot # "held" /\ Release(c)
    PROVE  CountInv'
<1>1. IsFiniteSet(Held) /\ (\A k \in Keys : IsFiniteSet(HeldBy(k))) /\ Key[c] \in Keys
  BY ConnsAssumption, FS_Subset DEF Held, HeldBy, Keys
<1>2. Cardinality(Held) \in Nat /\ \A k \in Keys : Cardinality(HeldBy(k)) \in Nat
  BY <1>1, FS_CardinalityType
<1>3. MaxTotal \in Nat /\ MaxPerKey \in Nat
  BY LimitAssumption
<1>4. CASE (conn'[c].slot = "held" <=> conn[c].slot = "held") /\ UNCHANGED <<inUse, perKey>>
  <2>1. Held' = Held
    BY <1>4 DEF Held
  <2>2. \A k \in Keys : HeldBy(k)' = HeldBy(k)
    BY <2>1 DEF HeldBy
  <2> QED BY <1>4, <2>1, <2>2 DEF CountInv
<1>5. CASE conn[c].slot # "held" /\ conn'[c].slot = "held" /\ ~Full(c) /\ Take(c)
  <2>1. Held' = Held \cup {c} /\ c \notin Held
    BY <1>5 DEF Held
  <2>2. inUse' = Cardinality(Held')
    BY <1>1, <1>5, <2>1, FS_AddElement DEF Take, CountInv
  <2>3. ASSUME NEW k \in Keys PROVE perKey'[k] = Cardinality(HeldBy(k)') /\ (MaxPerKey > 0 => perKey'[k] <= MaxPerKey)
    <3>1. CASE k = Key[c]
      <4>1. HeldBy(k)' = HeldBy(k) \cup {c} /\ c \notin HeldBy(k)
        BY <2>1, <3>1 DEF HeldBy
      <4>2. perKey'[k] = perKey[k] + 1
        BY <1>1, <1>5, <3>1 DEF Take, CountInv
      <4>3. Cardinality(HeldBy(k)') = Cardinality(HeldBy(k)) + 1
        BY <1>1, <4>1, FS_AddElement
      <4>4. MaxPerKey > 0 => perKey[k] < MaxPerKey
        BY <1>2, <1>3, <1>5, <3>1 DEF Full, CountInv
      <4> QED BY <1>2, <1>3, <4>2, <4>3, <4>4 DEF CountInv
    <3>2. CASE k # Key[c]
      <4>1. HeldBy(k)' = HeldBy(k)
        BY <2>1, <3>2 DEF HeldBy
      <4>2. perKey'[k] = perKey[k]
        BY <1>5, <3>2 DEF Take, CountInv
      <4> QED BY <4>1, <4>2 DEF CountInv
    <3> QED BY <3>1, <3>2
  <2>4. perKey' \in [Keys -> Nat]
    BY <1>1, <1>5 DEF Take, CountInv
  <2>5. MaxTotal > 0 => inUse' <= MaxTotal
    BY <1>2, <1>3, <1>5 DEF Full, Take, CountInv
  <2> QED BY <2>2, <2>3, <2>4, <2>5 DEF CountInv
<1>6. CASE conn'[c].slot # "held" /\ Release(c)
  <2>1. CASE conn[c].slot # "held"
    BY <1>4, <1>6, <2>1 DEF Release, Counted
  <2>2. CASE conn[c].slot = "held"
    <3>1. Held' = Held \ {c} /\ c \in Held
      BY <1>6, <2>2 DEF Held
    <3>2. inUse' = inUse - 1 /\ perKey' = [perKey EXCEPT ![Key[c]] = @ - 1]
      BY <1>6, <2>2 DEF Release, Counted
    <3>3. inUse' = Cardinality(Held')
      BY <1>1, <3>1, <3>2, FS_RemoveElement DEF CountInv
    <3>4. ASSUME NEW k \in Keys
          PROVE  perKey'[k] = Cardinality(HeldBy(k)') /\ perKey'[k] \in Nat /\ (MaxPerKey > 0 => perKey'[k] <= MaxPerKey)
      <4>1. IsFiniteSet(HeldBy(k)')
        BY <1>1, <3>1, FS_Subset DEF HeldBy
      <4>2. Cardinality(HeldBy(k)') \in Nat
        BY <4>1, FS_CardinalityType
      <4>3. CASE k = Key[c]
        <5>1. HeldBy(k)' = HeldBy(k) \ {c} /\ c \in HeldBy(k)
          BY <3>1, <4>3 DEF HeldBy
        <5>2. Cardinality(HeldBy(k)') = Cardinality(HeldBy(k)) - 1
          BY <1>1, <5>1, FS_RemoveElement
        <5>3. perKey'[k] = perKey[k] - 1
          BY <1>1, <3>2, <4>3 DEF CountInv
        <5> QED BY <1>2, <1>3, <4>2, <5>2, <5>3 DEF CountInv
      <4>4. CASE k # Key[c]
        <5>1. HeldBy(k)' = HeldBy(k)
          BY <3>1, <4>4 DEF HeldBy
        <5>2. perKey'[k] = perKey[k]
          BY <3>2, <4>4 DEF CountInv
        <5> QED BY <5>1, <5>2 DEF CountInv
      <4> QED BY <4>3, <4>4
    <3>5. perKey' \in [Keys -> Nat]
      BY <3>2, <3>4 DEF CountInv
    <3>6. MaxTotal > 0 => inUse' <= MaxTotal
      BY <1>2, <1>3, <3>2 DEF CountInv
    <3> QED BY <3>3, <3>4, <3>5, <3>6 DEF CountInv
  <2> QED BY <2>1, <2>2
<1> QED BY <1>4, <1>5, <1>6

(* What the server does to one connection. *)
LEMMA ServerKeeps ==
    ASSUME TrackerInv, NEW c \in Conns, NEW y, conn' = [conn EXCEPT ![c] = y], UNCHANGED <<job, pageVars>>,
           Fine(c, y, Now), conn[c].step # "unused", y.by \in {conn[c].by, 0},
           \/ (y.slot = "held" <=> conn[c].slot = "held") /\ UNCHANGED <<inUse, perKey>>
           \/ conn[c].slot # "held" /\ y.slot = "held" /\ ~Full(c) /\ Take(c)
           \/ y.slot # "held" /\ Release(c)
    PROVE  TrackerInv'
<1>1. UNCHANGED <<job, tr, gestures, controller, fetch, fol>>
  BY DEF pageVars
<1>2. conn'[c] = y /\ \A d \in Conns \ {c} : conn'[d] = conn[d]
  BY DEF TrackerInv, ConnsInv
<1>3. CountInv'
  <2>1. \A d \in Conns \ {c} : conn'[d].slot = conn[d].slot
    BY <1>2
  <2> QED BY <1>2, <2>1, CountKeeps DEF TrackerInv
<1>4. Now' = Now
  BY <1>1 DEF Now
<1>5. ConnsInv'
  <2>1. y \in Connection
    BY DEF Fine
  <2> QED BY <1>2, <1>4, <2>1 DEF TrackerInv, ConnsInv
<1>6. PageInv'
  <2>1. ASSUME NEW t \in Turns PROVE FetchInv(t)'
    <3>1. FetchInv(t) /\ t \in Nat \ {0}
      BY DEF TrackerInv, PageInv, Turns
    <3>2. (\A d \in Conns : conn[d].by # t) => \A d \in Conns : conn'[d].by # t
      BY <1>2, <3>1
    <3> QED BY <1>1, <3>1, <3>2 DEF FetchInv
  <2> QED BY <1>1, <2>1 DEF TrackerInv, PageInv
<1> QED BY <1>1, <1>3, <1>5, <1>6 DEF TrackerInv, PageTypeOK
-----------------------------------------------------------------------------
LEMMA TidyKeepsSlot ==
    ASSUME NEW x PROVE (Tidy(x).slot = "held" <=> x.slot = "held") /\ Tidy(x).by \in {x.by, 0}
BY DEF Tidy, Unused

LEMMA FreedIsFine ==
    ASSUME NEW c, NEW x, NEW s, Fine(c, x, s), x.step \in {"reading", "ended"}, x.step = "reading" => x.hung
    PROVE  Fine(c, Freed(x), s) /\ Freed(x).slot # "held" /\ Freed(x).by \in {x.by, 0}
<1> DEFINE y == [x EXCEPT !.slot = IF @ = "held" THEN "released" ELSE @]
<1>1. x \in Connection
  BY DEF Fine
<1>2. /\ y.step = x.step /\ y.hooked = x.hooked /\ y.by = x.by /\ y.slot \in {"none", "released"}
      /\ y = [x EXCEPT !.step = y.step, !.slot = y.slot, !.hooked = y.hooked]
      /\ y.step \in ConnSteps /\ y.hooked \in BOOLEAN
  BY <1>1 DEF Connection
<1> HIDE DEF y
<1>3. Fine(c, y, s)
  BY <1>1, <1>2, StepIsFine
<1> QED BY <1>2, <1>3, TidyIsFine, TidyKeepsSlot DEF Freed, y

LEMMA EndedIsFine ==
    ASSUME NEW c, NEW x, NEW s, Fine(c, x, s), x.step # "unused"
    PROVE  Fine(c, Ended(x), s) /\ Ended(x).slot # "held" /\ Ended(x).by \in {x.by, 0}
<1> DEFINE y == [x EXCEPT !.step = "ended"]
<1>1. x \in Connection
  BY DEF Fine
<1>2. /\ y.step = "ended" /\ y.hooked = x.hooked /\ y.slot = x.slot /\ y.by = x.by
      /\ y = [x EXCEPT !.step = y.step, !.slot = y.slot, !.hooked = y.hooked]
      /\ y.slot \in {"none", "held", "released"} /\ y.hooked \in BOOLEAN /\ "ended" \in ConnSteps
  BY <1>1 DEF Connection, ConnSteps
<1> HIDE DEF y
<1>3. Fine(c, y, s)
  BY <1>1, <1>2, StepIsFine
<1>4. Fine(c, Freed(y), s) /\ Freed(y).slot # "held" /\ Freed(y).by \in {x.by, 0}
  BY <1>2, <1>3, FreedIsFine
<1> QED BY <1>4 DEF Ended, y

(* "end" or a refusal, unless nobody listens. *)
LEMMA MarkIsFine ==
    ASSUME NEW c, NEW x, NEW s, NEW m \in Marks, Fine(c, x, s), x.step # "unused"
    PROVE  Fine(c, Send(x, m), s) /\ Send(x, m).step = x.step /\ Send(x, m).slot = x.slot /\ Send(x, m).by = x.by
<1>1. CASE x.hung
  BY <1>1 DEF Send
<1>2. CASE ~x.hung
  <2> DEFINE y == Send(x, m)
  <2>1. m \notin Status
    BY DEF Marks, Refusals, Status, Pending, Terminal
  <2>2. x \in Connection
    BY DEF Fine
  <2>3. y = [x EXCEPT !.wire = Append(x.wire, m), !.last = IF m \in Status THEN m ELSE x.last]
    BY <1>2, <2>1, <2>2 DEF Send, Connection
  <2>4. y.step = x.step /\ y.slot = x.slot /\ y.by = x.by
    BY <2>2, <2>3 DEF Connection
  <2> HIDE DEF y
  <2>5. Fine(c, y, s)
    BY <1>2, <2>1, <2>3, SentIsFine
  <2> QED BY <2>4, <2>5 DEF y
<1> QED BY <1>1, <1>2

(* The row, if it has changed. *)
LEMMA SignatureIsFine ==
    ASSUME NEW c, NEW x, NEW s, NEW st, Fine(c, x, s), x.step = "open", st = s.job[x.of],
           x.of = s.tr.jobId /\ s.tr.seen # None => NotAfter(s.tr.seen, st)
    PROVE  /\ Fine(c, Signature(x, st), s)
           /\ Signature(x, st).step = x.step /\ Signature(x, st).slot = x.slot /\ Signature(x, st).by = x.by
<1>1. x \in Connection /\ st \in Real /\ Real \subseteq Status
  BY DEF Fine, Real, Status
<1>2. CASE st = x.last
  BY <1>2 DEF Signature
<1>3. CASE st # x.last /\ x.hung
  <2> DEFINE y == [x EXCEPT !.last = st]
  <2>1. /\ y \in Connection /\ y.of = x.of /\ y.by = x.by /\ y.hung = x.hung /\ y.last = st /\ y.wire = x.wire
        /\ y.step = x.step /\ y.slot = x.slot /\ y.hooked = x.hooked
    BY <1>1 DEF Connection
  <2>2. Signature(x, st) = y
    BY <1>3, <2>1 DEF Signature, Send
  <2> HIDE DEF y
  <2>3. NotAfter(st, st) /\ (x.last # None => NotAfter(x.last, st))
    BY <1>1 DEF Fine, NotAfter
  <2>4. InOrder(y)
    <3> SUFFICES ASSUME NEW i \in 1..Len(x.wire), x.wire[i] \in Status PROVE NotAfter(x.wire[i], st)
      BY <2>1 DEF InOrder, Fine
    <3>1. NotAfter(x.wire[i], x.last) /\ x.last # None
      BY NoneAssumption DEF Fine, InOrder, NotAfter, Real, Status
    <3> QED BY <2>3, <3>1, NotAfterIsTransitive
  <2>5. IsNews(y, s)
    BY <2>1 DEF Fine, IsNews
  <2>6. Fine(c, y, s)
    BY <2>1, <2>3, <2>4, <2>5 DEF Fine
  <2> QED BY <2>1, <2>2, <2>6
<1>4. CASE st # x.last /\ ~x.hung
  <2> DEFINE y == [x EXCEPT !.wire = Append(x.wire, st), !.last = st]
  <2>1. Signature(x, st) = y
    BY <1>1, <1>4 DEF Signature, Send, Connection
  <2>2. y.step = x.step /\ y.slot = x.slot /\ y.by = x.by /\ y = [x EXCEPT !.wire = Append(x.wire, st), !.last = IF st \in Status THEN st ELSE x.last]
    BY <1>1 DEF Connection
  <2> HIDE DEF y
  <2>3. Fine(c, y, s)
    BY <1>1, <1>4, <2>2, SentIsFine
  <2> QED BY <2>1, <2>2, <2>3
<1> QED BY <1>2, <1>3, <1>4

LEMMA ServerStepKeeps ==
    ASSUME TrackerInv, NEW c \in Conns, ServerStep(c), UNCHANGED pageVars
    PROVE  TrackerInv'
<1> DEFINE x == conn[c]
<1>1. Fine(c, x, Now) /\ x \in Connection /\ conn \in [Conns -> Connection]
  BY DEF TrackerInv, ConnsInv
<1> USE DEF Marks, Refusals
<1>2. CASE Deny(c)
  <2>1. x.step = "asked" /\ UNCHANGED <<job, inUse, perKey>> /\ conn' = [conn EXCEPT ![c] = Ended(Send(x, "busy"))]
    BY <1>2 DEF Deny
  <2>2. Fine(c, Ended(Send(x, "busy")), Now) /\ Ended(Send(x, "busy")).slot # "held" /\ Ended(Send(x, "busy")).by \in {x.by, 0}
    BY <1>1, <2>1, MarkIsFine, EndedIsFine
  <2>3. x.slot # "held"
    BY <1>1, <2>1 DEF Fine
  <2> QED BY <2>1, <2>2, <2>3, ServerKeeps
<1>3. CASE Admit(c)
  <2> DEFINE y == [x EXCEPT !.step = "reading", !.slot = "held", !.hooked = ~x.hung]
  <2>1. x.step = "asked" /\ ~Full(c) /\ Take(c) /\ UNCHANGED job /\ conn' = [conn EXCEPT ![c] = y]
    BY <1>1, <1>3 DEF Admit
  <2>2. y.step = "reading" /\ y.slot = "held" /\ y.hooked \in BOOLEAN /\ y.by = x.by
        /\ y = [x EXCEPT !.step = y.step, !.slot = y.slot, !.hooked = y.hooked]
    BY <1>1 DEF Connection
  <2>3. x.slot # "held" /\ "reading" \in ConnSteps
    BY <1>1, <2>1 DEF Fine, ConnSteps
  <2> HIDE DEF y
  <2>4. Fine(c, y, Now)
    BY <1>1, <2>1, <2>2, <2>3, StepIsFine
  <2> QED BY <2>1, <2>2, <2>3, <2>4, ServerKeeps
<1>4. CASE LookupFails(c)
  <2>1. PICK m \in Marks : conn' = [conn EXCEPT ![c] = Ended(Send(x, m))]
    BY <1>4 DEF LookupFails
  <2>2. x.step = "reading" /\ Release(c) /\ UNCHANGED job
    BY <1>4 DEF LookupFails
  <2>3. Fine(c, Ended(Send(x, m)), Now) /\ Ended(Send(x, m)).slot # "held" /\ Ended(Send(x, m)).by \in {x.by, 0}
    BY <1>1, <2>2, MarkIsFine, EndedIsFine
  <2> QED BY <2>1, <2>2, <2>3, ServerKeeps
<1>5. CASE Subscribe(c)
  <2>1. x.step = "reading" /\ job[x.of] # "GONE" /\ UNCHANGED <<job, inUse, perKey>>
    BY <1>5 DEF Subscribe
  <2>2. CASE x.hung
    <3> DEFINE y == [x EXCEPT !.step = "ended"]
    <3>1. y.step = "ended" /\ y.slot = x.slot /\ y.hooked = x.hooked /\ y.by = x.by
          /\ y = [x EXCEPT !.step = y.step, !.slot = y.slot, !.hooked = y.hooked]
          /\ y.slot \in {"none", "held", "released"} /\ y.hooked \in BOOLEAN /\ "ended" \in ConnSteps
      BY <1>1 DEF Connection, ConnSteps
    <3>2. conn' = [conn EXCEPT ![c] = Tidy(y)]
      BY <1>1, <1>5, <2>2 DEF Subscribe
    <3> HIDE DEF y
    <3>3. Fine(c, y, Now)
      BY <1>1, <2>1, <3>1, StepIsFine
    <3>4. Fine(c, Tidy(y), Now) /\ (Tidy(y).slot = "held" <=> x.slot = "held") /\ Tidy(y).by \in {x.by, 0}
      BY <3>1, <3>3, TidyIsFine, TidyKeepsSlot
    <3> QED BY <2>1, <3>2, <3>4, ServerKeeps
  <2>3. CASE ~x.hung
    <3> DEFINE y == [x EXCEPT !.step = "open"]
    <3>1. y.step = "open" /\ y.slot = x.slot /\ y.hooked = x.hooked /\ y.by = x.by
          /\ y = [x EXCEPT !.step = y.step, !.slot = y.slot, !.hooked = y.hooked]
          /\ y.slot \in {"none", "held", "released"} /\ y.hooked \in BOOLEAN /\ "open" \in ConnSteps
      BY <1>1 DEF Connection, ConnSteps
    <3>2. conn' = [conn EXCEPT ![c] = y]
      BY <1>1, <1>5, <2>3 DEF Subscribe
    <3>3. x.slot = "held" /\ x.of \in Jobs
      BY <1>1, <2>1, <2>3 DEF Fine
    <3>4. Now.job[x.of] \in Real
      BY <2>1, <3>3 DEF Now, TrackerInv, PageTypeOK, Status, Real
    <3> HIDE DEF y
    <3>5. Fine(c, y, Now)
      BY <1>1, <2>1, <3>1, <3>3, <3>4, StepIsFine
    <3> QED BY <2>1, <3>1, <3>2, <3>5, ServerKeeps
  <2> QED BY <2>2, <2>3
<1>6. CASE Tick(c)
  <2> DEFINE st == job[x.of]
             y == Signature(x, st)
  <2>1. x.step = "open" /\ UNCHANGED job
    BY <1>6 DEF Tick
  <2>2. x.of = tr.jobId /\ tr.seen # None => NotAfter(tr.seen, st)
    BY DEF TrackerInv, PageInv
  <2>3. Fine(c, y, Now) /\ y.step = x.step /\ y.slot = x.slot /\ y.by = x.by
    BY <1>1, <2>1, <2>2, SignatureIsFine DEF Now
  <2>4. CASE st \in Terminal
    <3>1. conn' = [conn EXCEPT ![c] = Ended(Send(y, "end"))] /\ Release(c)
      BY <1>6, <2>4 DEF Tick
    <3> HIDE DEF y
    <3>2. Fine(c, Ended(Send(y, "end")), Now) /\ Ended(Send(y, "end")).slot # "held" /\ Ended(Send(y, "end")).by \in {x.by, 0}
      BY <2>1, <2>3, MarkIsFine, EndedIsFine
    <3> QED BY <2>1, <3>1, <3>2, ServerKeeps
  <2>5. CASE st \notin Terminal
    <3>1. conn' = [conn EXCEPT ![c] = y] /\ UNCHANGED <<inUse, perKey>>
      BY <1>6, <2>5 DEF Tick
    <3> HIDE DEF y
    <3> QED BY <2>1, <2>3, <3>1, ServerKeeps
  <2> QED BY <2>4, <2>5
<1>7. CASE StreamEnds(c)
  <2>1. x.step = "open" /\ UNCHANGED job /\ Release(c) /\ conn' = [conn EXCEPT ![c] = Ended(Send(x, "end"))]
    BY <1>7 DEF StreamEnds
  <2>2. Fine(c, Ended(Send(x, "end")), Now) /\ Ended(Send(x, "end")).slot # "held" /\ Ended(Send(x, "end")).by \in {x.by, 0}
    BY <1>1, <2>1, MarkIsFine, EndedIsFine
  <2> QED BY <2>1, <2>2, ServerKeeps
<1>8. CASE CloseSeen(c)
  <2>1. x.hung /\ x.slot = "held" /\ Release(c) /\ UNCHANGED job
    BY <1>8 DEF CloseSeen
  <2>2. x.step \in {"reading", "open", "ended"}
    BY <1>1, <2>1 DEF Fine, Connection, ConnSteps
  <2>3. CASE x.step = "open"
    <3>1. conn' = [conn EXCEPT ![c] = Ended(x)]
      BY <1>1, <1>8, <2>3 DEF CloseSeen
    <3> QED BY <1>1, <2>1, <2>3, <3>1, EndedIsFine, ServerKeeps
  <2>4. CASE x.step # "open"
    <3>1. conn' = [conn EXCEPT ![c] = Freed(x)]
      BY <1>1, <1>8, <2>4 DEF CloseSeen
    <3>3. Fine(c, Freed(x), Now) /\ Freed(x).slot # "held" /\ Freed(x).by \in {x.by, 0}
      BY <1>1, <2>1, <2>2, <2>4, FreedIsFine
    <3> QED BY <2>1, <2>2, <3>1, <3>3, ServerKeeps
  <2> QED BY <2>3, <2>4
<1>9. CASE SlotExpires(c)
  <2>1. x.step = "ended" /\ Release(c) /\ UNCHANGED job /\ conn' = [conn EXCEPT ![c] = Freed(x)]
    BY <1>9 DEF SlotExpires
  <2>2. Fine(c, Freed(x), Now) /\ Freed(x).slot # "held" /\ Freed(x).by \in {x.by, 0} /\ x.step # "unused"
    BY <1>1, <2>1, FreedIsFine
  <2> QED BY <2>1, <2>2, ServerKeeps
<1> QED BY <1>2, <1>3, <1>4, <1>5, <1>6, <1>7, <1>8, <1>9 DEF ServerStep
-----------------------------------------------------------------------------
(* A connection that nothing is done to, while the page or the job goes on. *)
LEMMA ContextIsFine ==
    ASSUME NEW c, NEW x, NEW s, NEW t, Fine(c, x, s), s.gestures \in Nat, t.gestures \in Nat, s.gestures <= t.gestures,
           x.step # "unused" /\ ~x.hung => c = t.mine,
           x.step # "unused" /\ x.hung /\ x.wire # <<>> => x.by # t.controller,
           \A j \in Jobs : \A a \in Real : NotAfter(a, s.job[j]) => NotAfter(a, t.job[j]),
           IsNews(x, t)
    PROVE  Fine(c, x, t)
<1>1. x.step # "unused" => x.of \in Jobs /\ x.by \in 1..t.gestures
  BY DEF Fine
<1>2. x.last # None => NotAfter(x.last, t.job[x.of])
  <2> SUFFICES ASSUME x.last # None PROVE NotAfter(x.last, t.job[x.of])
    OBVIOUS
  <2>1. NotAfter(x.last, s.job[x.of]) /\ x.step # "unused"
    BY DEF Fine
  <2> QED BY <1>1, <2>1 DEF NotAfter
<1>3. x.step = "open" => t.job[x.of] \in Real
  <2> SUFFICES ASSUME x.step = "open" PROVE t.job[x.of] \in Real
    OBVIOUS
  <2>1. NotAfter(s.job[x.of], s.job[x.of]) /\ s.job[x.of] \in Real
    BY DEF Fine, NotAfter
  <2> QED BY <1>1, <2>1 DEF NotAfter
<1> QED BY <1>1, <1>2, <1>3 DEF Fine

LEMMA CountSame ==
    ASSUME CountInv, \A d \in Conns : conn'[d].slot = "held" <=> conn[d].slot = "held", UNCHANGED <<inUse, perKey>>
    PROVE  CountInv'
<1>1. Held' = Held
  BY DEF Held
<1>2. \A k \in Keys : HeldBy(k)' = HeldBy(k)
  BY <1>1 DEF HeldBy
<1> QED BY <1>1, <1>2 DEF CountInv

(* No message, no news. *)
LEMMA EmptyIsNews == ASSUME NEW x, NEW s, x.wire = <<>> PROVE IsNews(x, s)
<1>1. Len(x.wire) = 0
  OBVIOUS
<1> QED BY <1>1 DEF IsNews

LEMMA FetchKeeps ==
    ASSUME TrackerInv, NEW t \in Turns, job' = job, gestures <= gestures', gestures' \in Nat, fetch'[t] = fetch[t],
           t = controller' /\ fetch[t].of # None =>
             t = controller /\ fol' = fol /\ tr' = tr /\ \A d \in Conns : conn'[d].by \in {conn[d].by, 0}
    PROVE  FetchInv(t)'
<1>1. FetchInv(t) /\ t \in Nat \ {0} /\ gestures \in Nat
  BY DEF TrackerInv, PageInv, Turns, PageTypeOK
<1>2. fetch[t].of # None => t <= gestures'
  BY <1>1 DEF FetchInv
<1>3. t = controller' /\ fetch[t].of # None => fol' = Idle /\ tr' = Track(fetch[t].of) /\ \A d \in Conns : conn'[d].by # t
  BY <1>1 DEF FetchInv
<1> QED BY <1>1, <1>2, <1>3 DEF FetchInv

LEMMA JobMovesKeeps ==
    ASSUME TrackerInv, NEW j \in Jobs, JobMoves(j), UNCHANGED pageVars PROVE TrackerInv'
<1>1. UNCHANGED <<conn, inUse, perKey, tr, gestures, controller, fetch, fol>>
  BY DEF JobMoves, streamVars, pageVars
<1>2. /\ job \in [Jobs -> Status] /\ job' \in [Jobs -> Status]
      /\ \A k \in Jobs : NotAfter(job[k], job'[k]) \/ job'[k] = job[k]
  BY StartsAssumption DEF JobMoves, TrackerInv, PageTypeOK, Status, Pending, Terminal, NotAfter, Real, Order
<1>3. \A k \in Jobs : \A a \in Real : NotAfter(a, job[k]) => NotAfter(a, job'[k])
  BY <1>2, NotAfterIsTransitive
<1>4. CountInv'
  BY <1>1, CountSame DEF TrackerInv
<1>5. ConnsInv'
  <2> SUFFICES ASSUME NEW c \in Conns PROVE Fine(c, conn[c], Now')
    BY <1>1 DEF TrackerInv, ConnsInv
  <2>1. Fine(c, conn[c], Now)
    BY DEF TrackerInv, ConnsInv
  <2>2. /\ Now.gestures = Now'.gestures /\ Now.gestures \in Nat /\ Now.mine = Now'.mine /\ Now.controller = Now'.controller
        /\ Now.tr = Now'.tr /\ Now.job = job /\ Now'.job = job'
    BY <1>1 DEF Now, TrackerInv, PageTypeOK
  <2>3. IsNews(conn[c], Now')
    BY <2>1, <2>2 DEF Fine, IsNews
  <2>4. /\ conn[c].step # "unused" /\ ~conn[c].hung => c = Now'.mine
        /\ conn[c].step # "unused" /\ conn[c].hung /\ conn[c].wire # <<>> => conn[c].by # Now'.controller
    BY <2>1, <2>2 DEF Fine
  <2> QED BY <1>3, <2>1, <2>2, <2>3, <2>4, ContextIsFine
<1>6. PageInv'
  <2>1. ASSUME NEW t \in Turns PROVE FetchInv(t)'
    <3>1. FetchInv(t)
      BY DEF TrackerInv, PageInv
    <3>2. fetch[t].of # None => fetch[t].of \in Jobs
      BY DEF TrackerInv, PageTypeOK
    <3>3. fetch[t].of # None /\ NotAfter(fetch[t].answer, job[fetch[t].of]) => NotAfter(fetch[t].answer, job'[fetch[t].of])
      BY <1>3, <3>2 DEF NotAfter
    <3> QED BY <1>1, <3>1, <3>3 DEF FetchInv
  <2>2. tr.seen # None => NotAfter(tr.seen, job'[tr.jobId])
    BY <1>3 DEF TrackerInv, PageInv, NotAfter
  <2> QED BY <1>1, <2>1, <2>2 DEF TrackerInv, PageInv
<1> QED BY <1>1, <1>2, <1>4, <1>5, <1>6 DEF TrackerInv, PageTypeOK
-----------------------------------------------------------------------------
(* What is hung up keeps one message at most, of a task that is over. *)
LEMMA HangIsFine ==
    ASSUME NEW c, NEW x, NEW s, NEW t, Fine(c, x, s), t.job = s.job, s.gestures \in Nat, t.gestures = s.gestures + 1,
           t.controller \notin 1..s.gestures
    PROVE  /\ Fine(c, Hang(x), t) /\ (Hang(x).slot = "held" <=> x.slot = "held") /\ Hang(x).by \in {x.by, 0}
<1>1. x \in Connection
  BY DEF Fine
<1>2. CASE x.wire = <<>>
  <2> DEFINE y == [x EXCEPT !.hung = TRUE, !.wire = <<>>]
  <2>1. /\ y \in Connection /\ y.of = x.of /\ y.by = x.by /\ y.step = x.step /\ y.slot = x.slot /\ y.last = x.last
        /\ y.hung /\ y.wire = <<>>
    <3>1. <<>> \in Seq(Status \cup Marks)
      BY EmptySeq
    <3> QED BY <1>1, <3>1 DEF Connection
  <2>2. Hang(x) = Tidy(y)
    BY <1>2 DEF Hang, HungUp
  <2> HIDE DEF y
  <2>3. Len(y.wire) = 0 /\ IsNews(y, t)
    BY <2>1, EmptyIsNews
  <2>4. y.step # "unused" => y.of \in Jobs /\ y.by \in 1..t.gestures
    BY <2>1 DEF Fine
  <2>5. Fine(c, y, t)
    BY <2>1, <2>3, <2>4 DEF Fine, InOrder
  <2> QED BY <2>1, <2>2, <2>5, TidyIsFine, TidyKeepsSlot
<1>3. CASE x.wire # <<>>
  <2> DEFINE y == [x EXCEPT !.hung = TRUE, !.wire = <<Head(x.wire)>>]
  <2>1. /\ x.wire \in Seq(Status \cup Marks) /\ Head(x.wire) \in Status \cup Marks /\ Head(x.wire) = x.wire[1]
        /\ Len(x.wire) \in Nat \ {0}
    BY <1>1, <1>3, WireIsSeq, HeadTailProperties
  <2>2. <<Head(x.wire)>> \in Seq(Status \cup Marks) /\ Len(<<Head(x.wire)>>) = 1 /\ <<Head(x.wire)>>[1] = x.wire[1]
    BY <2>1
  <2>3. /\ y \in Connection /\ y.of = x.of /\ y.by = x.by /\ y.step = x.step /\ y.slot = x.slot /\ y.last = x.last
        /\ y.hung /\ y.wire = <<Head(x.wire)>>
    BY <1>1, <2>2 DEF Connection
  <2>4. Hang(x) = y
    BY <1>1, <1>3 DEF Hang, Connection
  <2> HIDE DEF y
  <2>5. Len(y.wire) = 1 /\ y.wire[1] = x.wire[1]
    BY <2>2, <2>3
  <2>6. x.step # "unused" /\ y.of \in Jobs /\ y.by \in 1..s.gestures
    BY <1>3, <2>3 DEF Fine
  <2>7. InOrder(y)
    <3>1. 1 \in 1..Len(x.wire)
      BY <2>1
    <3>2. x.wire[1] \in Status => NotAfter(x.wire[1], x.last)
      BY <3>1 DEF Fine, InOrder
    <3>3. x.wire[1] \in Status => NotAfter(x.wire[1], x.wire[1])
      BY <3>2 DEF NotAfter
    <3> QED BY <2>3, <2>5, <3>2, <3>3 DEF InOrder
  <2>8. y.by # t.controller /\ y.by \in 1..t.gestures
    BY <2>6
  <2>9. Fine(c, y, t)
    BY <2>3, <2>6, <2>7, <2>8 DEF Fine, IsNews
  <2> QED BY <2>3, <2>4, <2>9
<1> QED BY <1>2, <1>3

LEMMA GestureKeeps ==
    ASSUME TrackerInv, Gesture, controller' \in {0, gestures'}, fol'.conn = None
    PROVE  /\ ConnsInv' /\ CountInv' /\ gestures' = gestures + 1 /\ gestures' \in 0..MaxGestures /\ job' = job
           /\ \A d \in Conns : conn'[d].by \in 0..gestures
<1>1. /\ gestures < MaxGestures /\ gestures' = gestures + 1 /\ UNCHANGED <<job, inUse, perKey>>
      /\ conn' = [c \in Conns |-> IF c = fol.conn THEN Hang(conn[c]) ELSE conn[c]]
  BY DEF Gesture, AbortStream
<1>2. gestures \in Nat /\ gestures \in 0..MaxGestures /\ MaxGestures \in Nat
  BY TrackerBoundsAssumption DEF TrackerInv, PageTypeOK
<1>3. /\ Now.job = job /\ Now'.job = job /\ Now.gestures = gestures /\ Now'.gestures = gestures + 1
      /\ Now'.controller \notin 1..gestures /\ Now.mine = fol.conn
  BY <1>1, <1>2 DEF Now
<1>4. ASSUME NEW c \in Conns
      PROVE  /\ Fine(c, conn'[c], Now') /\ (conn'[c].slot = "held" <=> conn[c].slot = "held")
             /\ conn'[c].by \in {conn[c].by, 0}
  <2>1. Fine(c, conn[c], Now)
    BY DEF TrackerInv, ConnsInv
  <2>2. CASE c = fol.conn
    <3>1. conn'[c] = Hang(conn[c])
      BY <1>1, <2>2
    <3>2. /\ Now'.job = Now.job /\ Now.gestures \in Nat /\ Now'.gestures = Now.gestures + 1
          /\ Now'.controller \notin 1..Now.gestures
      BY <1>2, <1>3
    <3>3. /\ Fine(c, Hang(conn[c]), Now') /\ (Hang(conn[c]).slot = "held" <=> conn[c].slot = "held")
          /\ Hang(conn[c]).by \in {conn[c].by, 0}
      BY <2>1, <3>2, HangIsFine
    <3> QED BY <3>1, <3>3
  <2>3. CASE c # fol.conn
    <3>1. conn'[c] = conn[c]
      BY <1>1, <2>3
    <3>2. conn[c].step # "unused" => conn[c].hung /\ conn[c].by \in 1..gestures
      BY <1>3, <2>1, <2>3 DEF Fine
    <3>3. conn[c].step # "unused" => conn[c].by # Now'.controller
      BY <1>2, <1>3, <2>1 DEF Fine
    <3>4. IsNews(conn[c], Now')
      <4>1. CASE conn[c].step = "unused"
        BY <2>1, <4>1, EmptyIsNews DEF Fine
      <4>2. CASE conn[c].step # "unused"
        BY <3>3, <4>2 DEF IsNews
      <4> QED BY <4>1, <4>2
    <3>5. Now.gestures \in Nat /\ Now'.gestures \in Nat /\ Now.gestures <= Now'.gestures /\ Now'.job = Now.job
      BY <1>2, <1>3
    <3>6. /\ conn[c].step # "unused" /\ ~conn[c].hung => c = Now'.mine
          /\ conn[c].step # "unused" /\ conn[c].hung /\ conn[c].wire # <<>> => conn[c].by # Now'.controller
      BY <3>2, <3>3
    <3>7. Fine(c, conn[c], Now')
      BY <2>1, <3>4, <3>5, <3>6, ContextIsFine
    <3> QED BY <3>1, <3>7
  <2> QED BY <2>2, <2>3
<1>5. CountInv'
  BY <1>1, <1>4, CountSame DEF TrackerInv
<1>6. ConnsInv'
  <2>1. \A c \in Conns : conn'[c] \in Connection
    BY <1>4 DEF Fine
  <2> QED BY <1>1, <1>4, <2>1 DEF ConnsInv
<1>7. \A d \in Conns : conn'[d].by \in 0..gestures
  <2> SUFFICES ASSUME NEW d \in Conns PROVE conn'[d].by \in 0..gestures
    OBVIOUS
  <2>1. Fine(d, conn[d], Now)
    BY DEF TrackerInv, ConnsInv
  <2>2. conn[d].by \in 0..gestures
    BY <1>2, <1>3, <2>1 DEF Fine
  <2> QED BY <1>2, <1>4, <2>2
<1> QED BY <1>1, <1>2, <1>5, <1>6, <1>7
-----------------------------------------------------------------------------
(* What a step does to what the page has seen. *)
SeenGoesOn == tr'.jobId = tr.jobId /\ tr.seen # None /\ tr'.seen # None => NotAfter(tr.seen, tr'.seen)

LEMMA SameIsNotAfter == ASSUME TrackerInv, tr'.seen = tr.seen PROVE SeenGoesOn
BY DEF TrackerInv, PageInv, NotAfter, SeenGoesOn

LEMMA GesturesKeep ==
    ASSUME TrackerInv, (\E j \in Jobs : Follow(j) \/ Open(j)) \/ Stop PROVE TrackerInv' /\ SeenGoesOn
<1>1. gestures \in Nat /\ tr \in [jobId: Jobs \cup {None}, seen: Status \cup {None}, lost: BOOLEAN]
  BY DEF TrackerInv, PageTypeOK
<1>2. Gesture /\ controller' \in {0, gestures'} /\ fol'.conn = None
  BY DEF Follow, Open, Stop, Idle
<1>3. /\ ConnsInv' /\ CountInv' /\ gestures' = gestures + 1 /\ gestures' \in 0..MaxGestures /\ job' = job
      /\ \A d \in Conns : conn'[d].by \in 0..gestures
  BY <1>2, GestureKeeps
<1>4. ASSUME NEW t \in Turns, fetch'[t] = fetch[t] PROVE FetchInv(t)'
  <2>1. fetch[t].of # None => t <= gestures
    BY DEF TrackerInv, PageInv, FetchInv
  <2>2. t = controller' => fetch[t].of = None
    BY <1>1, <1>2, <1>3, <2>1 DEF Turns
  <2> QED BY <1>1, <1>3, <1>4, <2>2, FetchKeeps
<1>5. (NotAfter(tr.seen, job[tr.jobId]) /\ tr.jobId \in Jobs) \/ tr.seen = None
  BY DEF TrackerInv, PageInv
<1>6. ASSUME NEW j \in Jobs, Follow(j) PROVE TrackerInv' /\ SeenGoesOn
  <2>1. controller' = gestures' /\ tr' = Resume(j) /\ fol' = [Idle EXCEPT !.step = "dial"] /\ fetch' = fetch
    BY <1>6 DEF Follow
  <2>2. /\ tr' \in [jobId: Jobs \cup {None}, seen: Status \cup {None}, lost: BOOLEAN] /\ tr'.jobId = j
        /\ tr'.seen # None => tr'.seen = tr.seen /\ tr.jobId = j
    BY <1>1, <2>1 DEF Resume, Track, NoTracking
  <2>3. PageTypeOK'
    <3>1. fol' = [step |-> "dial", conn |-> None, failures |-> 0, progressed |-> FALSE]
      BY <2>1 DEF Idle
    <3>2. fol' \in [step: FolSteps, conn: Conns \cup {None}, failures: 0..MaxFailures, progressed: BOOLEAN]
      BY <3>1, TrackerBoundsAssumption DEF FolSteps
    <3> QED BY <1>1, <1>3, <2>1, <2>2, <3>2 DEF TrackerInv, PageTypeOK
  <2>4. PageInv'
    <3>1. \A t \in Turns : FetchInv(t)'
      BY <1>4, <2>1
    <3>2. fol'.step = "dial" /\ fol'.conn = None
      BY <2>1 DEF Idle
    <3>3. controller' # 0
      BY <1>1, <1>3, <2>1
    <3> QED BY <1>3, <1>5, <2>2, <3>1, <3>2, <3>3 DEF PageInv
  <2>5. SeenGoesOn
    BY <1>5, <2>2 DEF SeenGoesOn, NotAfter
  <2> QED BY <1>3, <2>3, <2>4, <2>5 DEF TrackerInv
<1>7. ASSUME NEW j \in Jobs, Open(j) PROVE TrackerInv' /\ SeenGoesOn
  <2> DEFINE new == gestures'
  <2>1. controller' = new /\ tr' = Track(j) /\ fol' = Idle /\ fetch' = [fetch EXCEPT ![new] = [of |-> j, answer |-> "asked"]]
    BY <1>7 DEF Open
  <2>2. new \in Turns
    BY <1>1, <1>3, TrackerBoundsAssumption DEF Turns
  <2>3. fetch \in [Turns -> [of: Jobs \cup {None}, answer: {"asked", "failed", None} \cup Status]]
    BY DEF TrackerInv, PageTypeOK
  <2>4. fetch'[new] = [of |-> j, answer |-> "asked"] /\ \A t \in Turns \ {new} : fetch'[t] = fetch[t]
    BY <2>1, <2>2, <2>3
  <2>5. tr' \in [jobId: Jobs \cup {None}, seen: Status \cup {None}, lost: BOOLEAN] /\ tr'.seen = None
    BY <2>1 DEF Track, NoTracking
  <2>6. PageTypeOK'
    <3>1. fetch' \in [Turns -> [of: Jobs \cup {None}, answer: {"asked", "failed", None} \cup Status]]
      BY <2>1, <2>3
    <3>2. fol' \in [step: FolSteps, conn: Conns \cup {None}, failures: 0..MaxFailures, progressed: BOOLEAN]
      BY <2>1, TrackerBoundsAssumption DEF Idle, FolSteps
    <3> QED BY <1>3, <2>1, <2>5, <3>1, <3>2 DEF TrackerInv, PageTypeOK
  <2>7. PageInv'
    <3>1. ASSUME NEW t \in Turns, t = new PROVE FetchInv(t)'
      <4>1. \A d \in Conns : conn'[d].by # t
        BY <1>1, <1>3, <3>1
      <4>2. fetch'[t].of = j /\ fetch'[t].answer = "asked" /\ j # None
        BY <2>4, <3>1, NoneAssumption
      <4> QED BY <1>1, <1>3, <2>1, <3>1, <4>1, <4>2 DEF FetchInv
    <3>2. ASSUME NEW t \in Turns PROVE FetchInv(t)'
      BY <1>4, <2>4, <3>1
    <3>3. fol'.step = "idle" /\ fol'.conn = None
      BY <2>1 DEF Idle
    <3> QED BY <2>5, <3>2, <3>3 DEF PageInv
  <2> QED BY <1>3, <2>5, <2>6, <2>7 DEF TrackerInv, SeenGoesOn
<1>8. CASE Stop
  <2>1. controller' = 0 /\ tr' = NoTracking /\ fol' = Idle /\ fetch' = fetch
    BY <1>8 DEF Stop
  <2>2. tr' \in [jobId: Jobs \cup {None}, seen: Status \cup {None}, lost: BOOLEAN] /\ tr'.seen = None
    BY <2>1 DEF NoTracking
  <2>3. PageTypeOK'
    <3>1. fol' \in [step: FolSteps, conn: Conns \cup {None}, failures: 0..MaxFailures, progressed: BOOLEAN]
      BY <2>1, TrackerBoundsAssumption DEF Idle, FolSteps
    <3> QED BY <1>1, <1>3, <2>1, <2>2, <3>1 DEF TrackerInv, PageTypeOK
  <2>4. PageInv'
    <3>1. fol'.step = "idle" /\ fol'.conn = None
      BY <2>1 DEF Idle
    <3> QED BY <1>4, <2>1, <2>2, <3>1 DEF PageInv
  <2> QED BY <1>3, <2>2, <2>3, <2>4 DEF TrackerInv, SeenGoesOn
<1> QED BY <1>6, <1>7, <1>8

(* The page alone: a wait that is over, the GET of an opening. *)
LEMMA PageAloneKeeps ==
    ASSUME TrackerInv, NEW t \in Turns, UNCHANGED <<serverVars, tr, gestures, controller>>,
           \/ Wake
           \/ fol' = fol /\ \E a \in {"failed"} \cup Real : fetch' = [fetch EXCEPT ![t].answer = a] /\ fetch[t].of # None
                                        /\ (a \in Real => a = job[fetch[t].of])
    PROVE  TrackerInv'
<1>1. UNCHANGED <<job, conn, inUse, perKey, tr, gestures, controller>>
  BY DEF serverVars, streamVars
<1>2. fol'.conn = fol.conn /\ CountInv'
  BY <1>1, CountSame DEF Wake, TrackerInv, PageTypeOK
<1>3. Now' = Now
  BY <1>1, <1>2 DEF Now
<1>4. ConnsInv'
  BY <1>1, <1>3 DEF TrackerInv, ConnsInv
<1>5. CASE Wake
  <2>1. fol.step = "waiting" /\ fol' = [fol EXCEPT !.step = "dial"] /\ fetch' = fetch
    BY <1>5 DEF Wake
  <2>2. /\ fol'.step = "dial" /\ fol'.conn = fol.conn /\ controller # 0 /\ tr.jobId \in Jobs /\ fol.conn = None
        /\ fol # Idle
    BY <2>1 DEF TrackerInv, PageTypeOK, PageInv, Idle
  <2>3. PageTypeOK'
    BY <1>1, <2>1 DEF TrackerInv, PageTypeOK, FolSteps
  <2>4. ASSUME NEW u \in Turns PROVE FetchInv(u)'
    BY <1>1, <2>1, <2>2 DEF TrackerInv, PageInv, FetchInv
  <2> QED BY <1>1, <1>2, <1>4, <2>2, <2>3, <2>4 DEF TrackerInv, PageInv
<1>6. ASSUME fol' = fol, NEW a \in {"failed"} \cup Real, fetch' = [fetch EXCEPT ![t].answer = a], fetch[t].of # None,
             a \in Real => a = job[fetch[t].of]
      PROVE  TrackerInv'
  <2>1. fetch'[t] = [fetch[t] EXCEPT !.answer = a] /\ \A u \in Turns \ {t} : fetch'[u] = fetch[u]
    BY <1>6 DEF TrackerInv, PageTypeOK
  <2>2. fetch'[t].of = fetch[t].of /\ fetch'[t].answer = a
    BY <2>1 DEF TrackerInv, PageTypeOK
  <2>3. PageTypeOK'
    BY <1>1, <1>6 DEF TrackerInv, PageTypeOK, Real, Status
  <2>4. a \in {"failed"} \/ NotAfter(a, job[fetch[t].of])
    BY <1>6 DEF NotAfter
  <2>5. ASSUME NEW u \in Turns PROVE FetchInv(u)'
    BY <1>1, <1>6, <2>1, <2>2, <2>4 DEF TrackerInv, PageInv, FetchInv
  <2> QED BY <1>1, <1>2, <1>4, <1>6, <2>3, <2>5 DEF TrackerInv, PageInv
<1> QED BY <1>5, <1>6

(* The answer of the GET of an opening. *)
LEMMA OpenedKeeps ==
    ASSUME TrackerInv, NEW t \in Turns, Opened(t) PROVE TrackerInv' /\ SeenGoesOn
<1> DEFINE answer == fetch[t].answer
           j == fetch[t].of
           shown == IF answer = "failed" THEN Lost ELSE JobSeen(j, answer)
<1>1. /\ UNCHANGED <<job, conn, inUse, perKey, gestures>> /\ fetch' = [fetch EXCEPT ![t] = NoFetch]
      /\ answer \in Status \cup {"failed"} /\ CountInv'
  BY CountSame DEF Opened, serverVars, streamVars, TrackerInv
<1>2. /\ answer # None /\ answer # "asked" /\ j \in Jobs /\ FetchInv(t) /\ t \in Nat \ {0}
      /\ answer = "failed" \/ NotAfter(answer, job[j])
  <2>1. FetchInv(t) /\ fetch[t] \in [of: Jobs \cup {None}, answer: {"asked", "failed", None} \cup Status] /\ t \in Nat \ {0}
    BY DEF TrackerInv, PageInv, PageTypeOK, Turns
  <2>2. answer # None /\ answer # "asked"
    BY <1>1, AnswersAssumption, NoneAssumption DEF Status, Pending, Terminal
  <2> QED BY <2>1, <2>2 DEF FetchInv
<1>3. /\ fetch'[t] = NoFetch /\ \A u \in Turns \ {t} : fetch'[u] = fetch[u]
      /\ fetch' \in [Turns -> [of: Jobs \cup {None}, answer: {"asked", "failed", None} \cup Status]]
  BY <1>1 DEF TrackerInv, PageTypeOK, NoFetch
<1>4. FetchInv(t)'
  BY <1>3 DEF FetchInv, NoFetch
<1>5. CASE t # controller
  <2>1. UNCHANGED <<tr, fol, controller>>
    BY <1>5 DEF Opened, Aborted
  <2>2. Now' = Now
    BY <1>1, <2>1 DEF Now
  <2>3. ConnsInv'
    BY <1>1, <2>2 DEF TrackerInv, ConnsInv
  <2>4. ASSUME NEW u \in Turns PROVE FetchInv(u)'
    <3>1. FetchInv(u)
      BY DEF TrackerInv, PageInv
    <3> QED BY <1>1, <1>3, <1>4, <2>1, <3>1 DEF FetchInv
  <2>5. PageInv' /\ PageTypeOK'
    BY <1>1, <1>3, <2>1, <2>4 DEF TrackerInv, PageInv, PageTypeOK
  <2> QED BY <1>1, <2>1, <2>3, <2>5, SameIsNotAfter DEF TrackerInv
<1>6. CASE t = controller
  <2>1. fol = Idle /\ tr = Track(j) /\ \A c \in Conns : conn[c].by # t
    BY <1>2, <1>6, NoneAssumption DEF FetchInv
  <2>2. /\ tr' = shown
        /\ \/ controller' = 0 /\ fol' = Idle
           \/ controller' = t /\ fol' = [step |-> "dial", conn |-> None, failures |-> 0, progressed |-> FALSE]
    BY <1>6, <2>1 DEF Opened, Aborted, Idle
  <2>3. /\ tr' \in [jobId: Jobs \cup {None}, seen: Status \cup {None}, lost: BOOLEAN] /\ tr'.jobId = j
        /\ tr'.seen # None => NotAfter(tr'.seen, job[j])
    <3>1. tr = [jobId |-> j, seen |-> None, lost |-> FALSE]
      BY <2>1 DEF Track, NoTracking
    <3>2. answer = "failed" => tr' = [jobId |-> j, seen |-> None, lost |-> TRUE] \/ tr' = tr
      BY <2>2, <3>1 DEF Lost
    <3>3. answer # "failed" => tr' = [jobId |-> j, seen |-> answer, lost |-> FALSE] \/ tr' = tr
      BY <2>2, <3>1 DEF JobSeen
    <3>4. CASE answer = "failed" \/ tr' = tr
      <4>1. PICK l \in BOOLEAN : tr' = [jobId |-> j, seen |-> None, lost |-> l]
        BY <3>1, <3>2, <3>4
      <4> QED BY <1>2, <4>1
    <3>5. CASE answer # "failed" /\ tr' # tr
      <4>1. tr' = [jobId |-> j, seen |-> answer, lost |-> FALSE] /\ answer \in Status /\ NotAfter(answer, job[j])
        BY <1>1, <1>2, <3>3, <3>5
      <4> QED BY <1>2, <4>1
    <3> QED BY <3>4, <3>5
  <2>4. PageTypeOK'
    <3>1. fol' \in [step: FolSteps, conn: Conns \cup {None}, failures: 0..MaxFailures, progressed: BOOLEAN]
      <4>1. PICK st \in FolSteps : fol' = [step |-> st, conn |-> None, failures |-> 0, progressed |-> FALSE]
        BY <2>2 DEF Idle, FolSteps
      <4> QED BY <4>1, TrackerBoundsAssumption DEF FolSteps
    <3>2. controller' \in 0..gestures'
      BY <1>1, <1>6, <2>2 DEF TrackerInv, PageTypeOK
    <3> QED BY <1>1, <1>3, <2>3, <3>1, <3>2 DEF TrackerInv, PageTypeOK
  <2>5. ASSUME NEW c \in Conns PROVE Fine(c, conn[c], Now')
    <3>1. Fine(c, conn[c], Now) /\ gestures \in Nat
      BY DEF TrackerInv, ConnsInv, PageTypeOK
    <3>2. /\ Now.gestures \in Nat /\ Now'.gestures \in Nat /\ Now.gestures <= Now'.gestures
          /\ Now'.job = Now.job /\ Now'.mine = Now.mine /\ Now'.controller = controller' /\ Now.gestures = gestures
      BY <1>1, <2>1, <2>2, <3>1 DEF Now, Idle
    <3>3. conn[c].step # "unused" => conn[c].by # Now'.controller
      BY <2>1, <2>2, <3>1, <3>2 DEF Fine
    <3>4. IsNews(conn[c], Now')
      <4>1. CASE conn[c].step = "unused"
        BY <3>1, <4>1, EmptyIsNews DEF Fine
      <4>2. CASE conn[c].step # "unused"
        BY <3>3, <4>2 DEF IsNews
      <4> QED BY <4>1, <4>2
    <3>5. /\ conn[c].step # "unused" /\ ~conn[c].hung => c = Now'.mine
          /\ conn[c].step # "unused" /\ conn[c].hung /\ conn[c].wire # <<>> => conn[c].by # Now'.controller
      BY <3>1, <3>2, <3>3 DEF Fine
    <3> QED BY <3>1, <3>2, <3>4, <3>5, ContextIsFine
  <2>6. ConnsInv'
    BY <1>1, <2>5 DEF TrackerInv, ConnsInv
  <2>7. ASSUME NEW u \in Turns, u # t PROVE FetchInv(u)'
    <3>1. u # controller'
      BY <1>2, <2>2, <2>7 DEF Turns
    <3>2. FetchInv(u)
      BY DEF TrackerInv, PageInv
    <3> QED BY <1>1, <1>3, <2>7, <3>1, <3>2 DEF FetchInv
  <2>8. PageInv'
    <3>1. \A u \in Turns : FetchInv(u)'
      BY <1>4, <2>7
    <3>2. fol'.conn = None /\ (fol'.step # "idle" => controller' # 0)
      BY <1>2, <2>2 DEF Idle
    <3> QED BY <1>1, <1>2, <2>3, <3>1, <3>2 DEF PageInv
  <2>9. SeenGoesOn
    BY <2>1 DEF SeenGoesOn, Track, NoTracking
  <2> QED BY <1>1, <2>4, <2>6, <2>8, <2>9 DEF TrackerInv
<1> QED BY <1>5, <1>6

LEMMA AnswersKeep ==
    ASSUME TrackerInv, NEW t \in Turns, Answer(t) \/ NoAnswer(t) PROVE TrackerInv' /\ SeenGoesOn
<1>1. UNCHANGED <<serverVars, tr, gestures, controller, fol>> /\ fetch[t].answer = "asked"
  BY DEF Answer, NoAnswer
<1>2. fetch[t].of \in Jobs /\ fetch[t].of # None
  <2>1. FetchInv(t) /\ fetch[t].of \in Jobs \cup {None}
    BY DEF TrackerInv, PageInv, PageTypeOK
  <2> QED BY <1>1, <2>1, AnswersAssumption, NoneAssumption DEF FetchInv
<1>3. \E a \in {"failed"} \cup Real : fetch' = [fetch EXCEPT ![t].answer = a] /\ (a \in Real => a = job[fetch[t].of])
  <2>1. job[fetch[t].of] \in {"GONE"} \cup Real
    BY <1>2 DEF TrackerInv, PageTypeOK, Status, Real
  <2>2. "failed" \notin Real
    BY DEF Real, Pending, Terminal
  <2>3. CASE Answer(t) /\ job[fetch[t].of] # "GONE"
    BY <2>1, <2>3 DEF Answer
  <2>4. CASE NoAnswer(t) \/ job[fetch[t].of] = "GONE"
    BY <2>2, <2>4 DEF Answer, NoAnswer
  <2> QED BY <2>3, <2>4
<1>4. TrackerInv'
  BY <1>1, <1>2, <1>3, PageAloneKeeps
<1> QED BY <1>1, <1>4, SameIsNotAfter
-----------------------------------------------------------------------------
TrackingType == [jobId: Jobs \cup {None}, seen: Status \cup {None}, lost: BOOLEAN]
FollowType == [step: FolSteps, conn: Conns \cup {None}, failures: 0..MaxFailures, progressed: BOOLEAN]

(* What another connection than the page's has to do with the page: nothing. *)
LEMMA OthersAreFine ==
    ASSUME NEW c, NEW x, NEW s, NEW t, Fine(c, x, s), s.gestures \in Nat, t.gestures = s.gestures, t.job = s.job,
           t.controller \in {0, s.controller}, x.step # "unused" => x.hung
    PROVE  Fine(c, x, t)
<1>1. x.step = "unused" => x.wire = <<>>
  BY DEF Fine
<1>2. x.step # "unused" /\ x.wire # <<>> => x.by # t.controller
  BY DEF Fine
<1>3. IsNews(x, t)
  <2>1. CASE x.wire = <<>>
    BY <2>1, EmptyIsNews
  <2>2. CASE x.wire # <<>>
    BY <1>1, <1>2, <2>2 DEF IsNews
  <2> QED BY <2>1, <2>2
<1> QED BY <1>2, <1>3, ContextIsFine

LEMMA HungUpIsOver ==
    ASSUME NEW x \in Connection
    PROVE  /\ HungUp(x).step # "unused" => HungUp(x).hung
           /\ HungUp(x).slot = "held" <=> x.slot = "held"
           /\ HungUp(x).by \in {x.by, 0}
<1> DEFINE y == [x EXCEPT !.hung = TRUE, !.wire = <<>>]
<1>1. y.hung /\ y.slot = x.slot /\ y.by = x.by
  BY DEF Connection
<1>2. HungUp(x) = Tidy(y)
  BY DEF HungUp
<1> HIDE DEF y
<1>3. Tidy(y).step # "unused" => Tidy(y).hung
  BY <1>1 DEF Tidy, Unused
<1> QED BY <1>1, <1>2, <1>3, TidyKeepsSlot

LEMMA DialKeeps ==
    ASSUME TrackerInv, NEW c \in Conns, Dial(c) PROVE TrackerInv' /\ SeenGoesOn
<1> DEFINE y == Asked(tr.jobId, controller)
<1>1. /\ fol.step = "dial" /\ conn[c].step = "unused" /\ conn' = [conn EXCEPT ![c] = y]
      /\ UNCHANGED <<job, inUse, perKey, tr, gestures, controller, fetch>>
      /\ fol' = [fol EXCEPT !.step = "stream", !.conn = c, !.progressed = FALSE]
  BY DEF Dial
<1>2. /\ controller \in 1..gestures /\ gestures \in Nat /\ tr.jobId \in Jobs /\ fol.conn = None /\ fol # Idle
      /\ fol'.step = "stream" /\ fol'.conn = c
  BY <1>1 DEF TrackerInv, PageTypeOK, PageInv, Idle
<1>3. /\ y.of = tr.jobId /\ y.by = controller /\ y.step = "asked" /\ y.slot = "none" /\ ~y.hung /\ y.last = None
      /\ y.wire = <<>>
  BY DEF Asked, Unused
<1>4. y \in Connection
  <2>1. <<>> \in Seq(Status \cup Marks) /\ controller \in Nat
    BY <1>2, EmptySeq
  <2> QED BY <1>2, <2>1 DEF Asked, Unused, Connection, ConnSteps
<1> HIDE DEF y
<1>5. /\ Now'.mine = c /\ Now.mine = None /\ Now'.gestures = gestures /\ Now.gestures = gestures /\ Now'.job = Now.job
      /\ Now'.controller = Now.controller
  BY <1>1, <1>2 DEF Now
<1>6. Fine(c, y, Now')
  <2>1. Len(y.wire) = 0
    BY <1>3
  <2> QED BY <1>2, <1>3, <1>4, <1>5, <2>1 DEF Fine, InOrder, IsNews
<1>7. ASSUME NEW d \in Conns, d # c PROVE Fine(d, conn[d], Now')
  <2>1. Fine(d, conn[d], Now)
    BY DEF TrackerInv, ConnsInv
  <2>2. conn[d].step # "unused" => conn[d].hung
    BY <1>5, <2>1, NoneAssumption DEF Fine
  <2> QED BY <1>2, <1>5, <2>1, <2>2, OthersAreFine
<1>8. ConnsInv' /\ CountInv'
  <2>1. conn'[c] = y /\ (\A d \in Conns \ {c} : conn'[d] = conn[d]) /\ conn' \in [Conns -> Connection]
    BY <1>1, <1>4 DEF TrackerInv, ConnsInv
  <2>2. Fine(c, conn[c], Now)
    BY DEF TrackerInv, ConnsInv
  <2>3. conn[c].slot = "none"
    BY <1>1, <2>2 DEF Fine
  <2>4. \A d \in Conns : conn'[d].slot = "held" <=> conn[d].slot = "held"
    BY <1>3, <2>1, <2>3
  <2>5. CountInv'
    BY <1>1, <2>4, CountSame DEF TrackerInv
  <2> QED BY <1>6, <1>7, <2>1, <2>5 DEF ConnsInv
<1>9. PageInv'
  <2>1. ASSUME NEW u \in Turns PROVE FetchInv(u)'
    <3>1. FetchInv(u)
      BY DEF TrackerInv, PageInv
    <3> QED BY <1>1, <1>2, <3>1 DEF FetchInv
  <2> QED BY <1>1, <1>2, <2>1 DEF TrackerInv, PageInv
<1>10. PageTypeOK'
  BY <1>1 DEF TrackerInv, PageTypeOK, FolSteps
<1> QED BY <1>1, <1>8, <1>9, <1>10, SameIsNotAfter DEF TrackerInv

(* The page hangs up the connection it follows. *)
LEMMA LeaveKeeps ==
    ASSUME TrackerInv, NEW c \in Conns, c = fol.conn, conn' = [conn EXCEPT ![c] = HungUp(conn[c])],
           UNCHANGED <<job, inUse, perKey, gestures, fetch>>, fol' \in FollowType, fol'.conn = None,
           \/ controller' = controller /\ fol'.step \in {"dial", "waiting"}
           \/ controller' = 0 /\ fol'.step = "idle",
           tr' \in TrackingType, tr'.jobId = tr.jobId, tr'.seen # None => NotAfter(tr'.seen, job[tr.jobId])
    PROVE  TrackerInv'
<1>1. fol.conn # None /\ fol # Idle /\ controller \in 1..gestures /\ gestures \in Nat /\ tr.jobId \in Jobs
  BY NoneAssumption DEF TrackerInv, PageTypeOK, PageInv, Idle
<1>2. /\ Now'.job = Now.job /\ Now'.gestures = Now.gestures /\ Now.gestures \in Nat /\ Now.mine = c
      /\ Now'.controller \in {0, Now.controller}
  BY <1>1 DEF Now
<1>3. ASSUME NEW d \in Conns
      PROVE  Fine(d, conn'[d], Now') /\ (conn'[d].slot = "held" <=> conn[d].slot = "held")
  <2>1. Fine(d, conn[d], Now) /\ conn[d] \in Connection
    BY DEF TrackerInv, ConnsInv
  <2>2. CASE d = c
    <3>1. conn'[d] = HungUp(conn[d])
      BY <2>2 DEF TrackerInv, ConnsInv
    <3>2. Fine(d, HungUp(conn[d]), Now) /\ (HungUp(conn[d]).step # "unused" => HungUp(conn[d]).hung)
      BY <2>1, HungUpIsFine, HungUpIsOver
    <3>3. Fine(d, HungUp(conn[d]), Now')
      BY <1>2, <3>2, OthersAreFine
    <3> QED BY <2>1, <3>1, <3>3, HungUpIsOver
  <2>3. CASE d # c
    <3>1. conn'[d] = conn[d]
      BY <2>3 DEF TrackerInv, ConnsInv
    <3>2. conn[d].step # "unused" => conn[d].hung
      BY <1>2, <2>1, <2>3 DEF Fine
    <3>3. Fine(d, conn[d], Now')
      BY <1>2, <2>1, <3>2, OthersAreFine
    <3> QED BY <3>1, <3>3
  <2> QED BY <2>2, <2>3
<1>4. ConnsInv' /\ CountInv'
  <2>1. \A d \in Conns : conn'[d] \in Connection
    BY <1>3 DEF Fine
  <2>2. conn' \in [Conns -> Connection]
    BY <2>1 DEF TrackerInv, ConnsInv
  <2>3. CountInv'
    BY <1>3, CountSame DEF TrackerInv
  <2> QED BY <1>3, <2>2, <2>3 DEF ConnsInv
<1>5. PageInv'
  <2>1. ASSUME NEW u \in Turns PROVE FetchInv(u)'
    <3>1. FetchInv(u) /\ u # 0
      BY DEF TrackerInv, PageInv, Turns
    <3> QED BY <1>1, <3>1 DEF FetchInv
  <2> QED BY <1>1, <2>1 DEF PageInv
<1>6. PageTypeOK'
  BY <1>1 DEF TrackerInv, PageTypeOK, TrackingType, FollowType
<1> QED BY <1>4, <1>5, <1>6 DEF TrackerInv

(* The reducer. *)
LEMMA JobSeenShows ==
    ASSUME tr \in TrackingType, NEW j, NEW m \in Status
    PROVE  /\ JobSeen(j, m) \in TrackingType /\ JobSeen(j, m).jobId = tr.jobId
           /\ JobSeen(j, m).seen = tr.seen \/ (j = tr.jobId /\ JobSeen(j, m).seen = m)
           /\ j = tr.jobId /\ JobSeen(j, m).seen # m => tr.seen \in Terminal /\ JobSeen(j, m).seen = tr.seen
BY DEF JobSeen, IsFinal, TrackingType

LEMMA LostShows ==
    ASSUME tr \in TrackingType PROVE Lost \in TrackingType /\ Lost.jobId = tr.jobId /\ Lost.seen = tr.seen
BY DEF Lost, TrackingType

LEMMA RetryIsLeaving ==
    ASSUME TrackerInv, NEW failed \in BOOLEAN, Retry(failed)
    PROVE  /\ fol' \in FollowType /\ fol'.conn = None
           /\ \/ controller' = controller /\ fol'.step \in {"dial", "waiting"} /\ tr' = tr
              \/ controller' = 0 /\ fol'.step = "idle" /\ tr' = Lost
<1>1. PICK healthy \in IF fol.progressed THEN BOOLEAN ELSE {FALSE} :
        IF healthy /\ ~failed
        THEN /\ fol' = [Idle EXCEPT !.step = "dial"]
             /\ UNCHANGED <<tr, controller>>
        ELSE IF Failures(healthy) >= MaxFailures
        THEN Return(Lost)
        ELSE /\ fol' = [Idle EXCEPT !.step = "waiting", !.failures = Failures(healthy)]
             /\ UNCHANGED <<tr, controller>>
  BY Zenon DEF Retry
<1>2. MaxFailures \in Nat \ {0} /\ fol.failures \in 0..MaxFailures
  BY TrackerBoundsAssumption DEF TrackerInv, PageTypeOK
<1>3. CASE healthy /\ ~failed
  <2>1. fol' = [step |-> "dial", conn |-> None, failures |-> 0, progressed |-> FALSE] /\ UNCHANGED <<tr, controller>>
    BY <1>1, <1>3 DEF Idle
  <2> QED BY <1>2, <2>1 DEF FollowType, FolSteps
<1>4. CASE ~(healthy /\ ~failed) /\ Failures(healthy) >= MaxFailures
  <2>1. fol' = [step |-> "idle", conn |-> None, failures |-> 0, progressed |-> FALSE] /\ tr' = Lost /\ controller' = 0
    BY <1>1, <1>4 DEF Idle, Return
  <2> QED BY <1>2, <2>1 DEF FollowType, FolSteps
<1>5. CASE ~(healthy /\ ~failed) /\ ~(Failures(healthy) >= MaxFailures)
  <2>1. /\ fol' = [step |-> "waiting", conn |-> None, failures |-> Failures(healthy), progressed |-> FALSE]
        /\ UNCHANGED <<tr, controller>>
    BY <1>1, <1>5 DEF Idle
  <2>2. Failures(healthy) \in 0..MaxFailures
    BY <1>2, <1>5 DEF Failures
  <2> QED BY <2>1, <2>2 DEF FollowType, FolSteps
<1> QED BY <1>3, <1>4, <1>5

LEMMA IgnoreKeeps ==
    ASSUME TrackerInv, NEW c \in Conns, Ignore(c) PROVE TrackerInv' /\ SeenGoesOn
<1>1. /\ conn[c].wire # <<>> /\ conn' = [conn EXCEPT ![c] = HungUp(conn[c])]
      /\ UNCHANGED <<job, inUse, perKey, pageVars>>
  BY DEF Ignore
<1>2. Fine(c, conn[c], Now) /\ conn[c] \in Connection
  BY DEF TrackerInv, ConnsInv
<1>3. Fine(c, HungUp(conn[c]), Now)
  BY <1>2, HungUpIsFine
<1>4. TrackerInv'
  <2>1. conn[c].step # "unused"
    BY <1>1, <1>2 DEF Fine
  <2>2. UNCHANGED <<job, pageVars>> /\ UNCHANGED <<inUse, perKey>>
    BY <1>1
  <2>3. (HungUp(conn[c]).slot = "held" <=> conn[c].slot = "held") /\ HungUp(conn[c]).by \in {conn[c].by, 0}
    BY <1>2, HungUpIsOver
  <2> QED BY <1>1, <1>3, <2>1, <2>2, <2>3, ServerKeeps
<1>5. tr' = tr
  BY <1>1 DEF pageVars
<1> QED BY <1>4, <1>5, SameIsNotAfter

LEMMA BreakKeeps ==
    ASSUME TrackerInv, NEW c \in Conns, Break(c) PROVE TrackerInv' /\ SeenGoesOn
<1>1. /\ c = fol.conn /\ conn' = [conn EXCEPT ![c] = HungUp(conn[c])]
      /\ UNCHANGED <<job, inUse, perKey, gestures, fetch>>
  BY DEF Break
<1>2. PICK failed \in BOOLEAN : Retry(failed)
  BY DEF Break
<1>3. tr \in TrackingType /\ (tr.seen # None => NotAfter(tr.seen, job[tr.jobId]))
  BY DEF TrackerInv, PageTypeOK, PageInv, TrackingType
<1>4. /\ fol' \in FollowType /\ fol'.conn = None
      /\ \/ controller' = controller /\ fol'.step \in {"dial", "waiting"}
         \/ controller' = 0 /\ fol'.step = "idle"
      /\ tr' = tr \/ tr' = Lost
  BY <1>2, RetryIsLeaving
<1>5. tr' \in TrackingType /\ tr'.jobId = tr.jobId /\ tr'.seen = tr.seen
  BY <1>3, <1>4, LostShows
<1>6. TrackerInv'
  BY <1>1, <1>3, <1>4, <1>5, LeaveKeeps
<1> QED BY <1>5, <1>6, SameIsNotAfter

(* The first message of the connection in use: of the job as it is, and after what is shown. *)
LEMMA FirstIsNews ==
    ASSUME TrackerInv, NEW c \in Conns, conn[c].wire # <<>>, conn[c].by = controller
    PROVE  /\ conn[c] \in Connection /\ Fine(c, conn[c], Now)
           /\ c = fol.conn /\ fol.step = "stream" /\ tr.jobId \in Jobs /\ conn[c].step # "unused" /\ ~conn[c].hung
           /\ conn[c].wire \in Seq(Status \cup Marks) /\ Len(conn[c].wire) \in Nat \ {0}
           /\ Head(conn[c].wire) \in Status \cup Marks /\ Head(conn[c].wire) = conn[c].wire[1]
           /\ Head(conn[c].wire) \in Status =>
                /\ NotAfter(Head(conn[c].wire), job[conn[c].of])
                /\ conn[c].of = tr.jobId /\ tr.seen # None => NotAfter(tr.seen, Head(conn[c].wire))
<1> DEFINE x == conn[c]
<1>1. x \in Connection /\ Fine(c, x, Now)
  BY DEF TrackerInv, ConnsInv
<1>2. x.step # "unused" /\ ~x.hung /\ c = fol.conn
  BY <1>1 DEF Fine, Now
<1>3. fol.step = "stream" /\ tr.jobId \in Jobs
  BY <1>2, NoneAssumption DEF TrackerInv, PageInv
<1>4. /\ x.wire \in Seq(Status \cup Marks) /\ Len(x.wire) \in Nat \ {0} /\ 1 \in 1..Len(x.wire)
      /\ Head(x.wire) \in Status \cup Marks /\ Head(x.wire) = x.wire[1]
  BY <1>1, WireIsSeq, HeadTailProperties
<1>5. x.wire[1] \in Status => NotAfter(x.wire[1], job[x.of])
  <2> SUFFICES ASSUME x.wire[1] \in Status PROVE NotAfter(x.wire[1], job[x.of])
    OBVIOUS
  <2>1. NotAfter(x.wire[1], x.last)
    BY <1>1, <1>4 DEF Fine, InOrder
  <2>2. x.last # None => NotAfter(x.last, job[x.of])
    BY <1>1 DEF Fine, Now
  <2>3. x.last # None
    BY <2>1, NoneAssumption DEF NotAfter, Real, Status
  <2> QED BY <2>1, <2>2, <2>3, NotAfterIsTransitive
<1>6. x.wire[1] \in Status /\ x.of = tr.jobId /\ tr.seen # None => NotAfter(tr.seen, x.wire[1])
  BY <1>1, <1>4 DEF Fine, IsNews, Now
<1> QED BY <1>1, <1>2, <1>3, <1>4, <1>5, <1>6

(* An event of a job that goes on: the page shows it and reads on. *)
LEMMA EventKeeps ==
    ASSUME TrackerInv, NEW c \in Conns, conn[c].wire # <<>>, conn[c].by = controller, Head(conn[c].wire) \in Pending,
           conn' = [conn EXCEPT ![c].wire = Tail(@)], tr' = JobSeen(conn[c].of, Head(conn[c].wire)),
           fol' = [fol EXCEPT !.progressed = TRUE], UNCHANGED <<controller, job, inUse, perKey, gestures, fetch>>
    PROVE  TrackerInv' /\ SeenGoesOn
<1> DEFINE x == conn[c]
           m == Head(x.wire)
           n == Len(x.wire)
           y == [x EXCEPT !.wire = Tail(x.wire)]
<1>1. /\ x \in Connection /\ Fine(c, x, Now)
      /\ c = fol.conn /\ fol.step = "stream" /\ tr.jobId \in Jobs /\ x.step # "unused" /\ ~x.hung
      /\ x.wire \in Seq(Status \cup Marks) /\ n \in Nat \ {0}
      /\ m = x.wire[1]
      /\ m \in Status =>
           /\ NotAfter(m, job[x.of])
           /\ x.of = tr.jobId /\ tr.seen # None => NotAfter(tr.seen, m)
  BY FirstIsNews
<1>2. m \in Status /\ fol # Idle /\ tr \in TrackingType /\ gestures \in Nat
  BY <1>1 DEF Status, Idle, TrackerInv, PageTypeOK, TrackingType
<1>3. /\ tr' \in TrackingType /\ tr'.jobId = tr.jobId
      /\ tr'.seen = tr.seen \/ (x.of = tr.jobId /\ tr'.seen = m)
  BY <1>2, JobSeenShows
<1>4. SeenGoesOn /\ (tr'.seen # None => NotAfter(tr'.seen, job[tr.jobId]))
  <2>1. tr.seen # None => NotAfter(tr.seen, job[tr.jobId])
    BY DEF TrackerInv, PageInv
  <2>2. CASE tr'.seen = tr.seen
    BY <2>1, <2>2, SameIsNotAfter
  <2>3. CASE x.of = tr.jobId /\ tr'.seen = m
    BY <1>1, <1>2, <2>3 DEF SeenGoesOn
  <2> QED BY <1>3, <2>2, <2>3
<1>5. /\ Tail(x.wire) \in Seq(Status \cup Marks) /\ Len(Tail(x.wire)) = n - 1
      /\ \A i \in 1..(n - 1) : Tail(x.wire)[i] = x.wire[i + 1]
  BY <1>1, HeadTailProperties
<1>6. /\ y \in Connection /\ y.of = x.of /\ y.by = x.by /\ y.step = x.step /\ y.slot = x.slot /\ y.last = x.last
      /\ y.hung = x.hung /\ y.wire = Tail(x.wire)
  BY <1>1, <1>5 DEF Connection
<1>7. conn'[c] = y /\ \A d \in Conns \ {c} : conn'[d] = conn[d]
  BY DEF TrackerInv, ConnsInv
<1>8. fol'.step = "stream" /\ fol'.conn = c /\ fol' # Idle
  BY <1>1 DEF TrackerInv, PageTypeOK, Idle
<1>9. /\ Now'.job = Now.job /\ Now'.gestures = Now.gestures /\ Now.gestures \in Nat /\ Now.mine = c /\ Now'.mine = c
      /\ Now'.controller = controller /\ Now.controller = controller /\ Now'.tr = tr' /\ Now.tr = tr
  BY <1>1, <1>2, <1>8 DEF Now
<1> HIDE DEF y, n
<1>10. Len(y.wire) = n - 1 /\ \A i \in 1..(n - 1) : i \in 1..n /\ i + 1 \in 1..n /\ y.wire[i] = x.wire[i + 1]
  BY <1>1, <1>5, <1>6
<1>11. InOrder(y)
  <2> SUFFICES ASSUME NEW i \in 1..(n - 1), y.wire[i] \in Status
               PROVE  /\ NotAfter(y.wire[i], y.last)
                      /\ \A k \in i..(n - 1) : y.wire[k] \in Status => NotAfter(y.wire[i], y.wire[k])
    BY <1>10 DEF InOrder
  <2>1. i + 1 \in 1..n /\ y.wire[i] = x.wire[i + 1]
    BY <1>10
  <2>2. NotAfter(x.wire[i + 1], x.last)
    BY <1>1, <2>1 DEF Fine, InOrder, n
  <2>3. ASSUME NEW k \in i..(n - 1), y.wire[k] \in Status PROVE NotAfter(y.wire[i], y.wire[k])
    <3>1. k \in 1..(n - 1) /\ k + 1 \in (i + 1)..n
      BY <1>1
    <3>2. y.wire[k] = x.wire[k + 1]
      BY <1>10, <3>1
    <3> QED BY <1>1, <2>1, <2>3, <3>1, <3>2 DEF Fine, InOrder, n
  <2> QED BY <1>6, <2>1, <2>2, <2>3
<1>12. IsNews(y, Now')
  <2> SUFFICES ASSUME x.by = controller, x.of = tr.jobId, tr'.seen # None, NEW i \in 1..(n - 1), y.wire[i] \in Status
               PROVE  NotAfter(tr'.seen, y.wire[i])
    <3>1. y.by = x.by /\ y.of = x.of /\ Now'.controller = controller /\ Now'.tr = tr' /\ tr'.jobId = tr.jobId /\ Len(y.wire) = n - 1
      BY <1>3, <1>6, <1>9, <1>10
    <3> QED BY <3>1 DEF IsNews
  <2>1. i + 1 \in 1..n /\ y.wire[i] = x.wire[i + 1]
    BY <1>10
  <2>2. CASE tr'.seen = tr.seen
    BY <1>1, <1>9, <2>1, <2>2 DEF Fine, IsNews, Now, n
  <2>3. CASE tr'.seen = m
    <3>1. 1 \in 1..n /\ i + 1 \in 1..n
      BY <1>1, <2>1
    <3> QED BY <1>1, <1>2, <2>1, <2>3, <3>1 DEF Fine, InOrder, n
  <2> QED BY <1>3, <2>2, <2>3
<1>13. Fine(c, y, Now')
  BY <1>1, <1>6, <1>9, <1>11, <1>12 DEF Fine
<1>14. ASSUME NEW d \in Conns, d # c PROVE Fine(d, conn[d], Now')
  <2>1. Fine(d, conn[d], Now)
    BY DEF TrackerInv, ConnsInv
  <2>2. conn[d].step # "unused" => conn[d].hung
    BY <1>9, <1>14, <2>1 DEF Fine
  <2> QED BY <1>9, <1>14, <2>1, <2>2, OthersAreFine
<1>15. ConnsInv' /\ CountInv'
  <2>1. conn' \in [Conns -> Connection]
    BY <1>6, <1>7 DEF TrackerInv, ConnsInv
  <2>2. \A d \in Conns : conn'[d].slot = "held" <=> conn[d].slot = "held"
    BY <1>6, <1>7
  <2>3. CountInv'
    BY <2>2, CountSame DEF TrackerInv
  <2> QED BY <1>7, <1>13, <1>14, <2>1, <2>3 DEF ConnsInv
<1>16. PageInv'
  <2>1. ASSUME NEW u \in Turns PROVE FetchInv(u)'
    <3>1. FetchInv(u)
      BY DEF TrackerInv, PageInv
    <3>2. ~(u = controller /\ fetch[u].of # None)
      BY <1>2, <3>1 DEF FetchInv
    <3> QED BY <3>1, <3>2 DEF FetchInv
  <2> QED BY <1>1, <1>3, <1>4, <1>8, <2>1 DEF TrackerInv, PageInv
<1>17. PageTypeOK'
  BY <1>3 DEF TrackerInv, PageTypeOK, TrackingType
<1> QED BY <1>4, <1>15, <1>16, <1>17 DEF TrackerInv

LEMMA ReceiveKeeps ==
    ASSUME TrackerInv, NEW c \in Conns, Receive(c) PROVE TrackerInv' /\ SeenGoesOn
<1> DEFINE x == conn[c]
           m == Head(x.wire)
<1>1. x.wire # <<>> /\ x.by = controller /\ UNCHANGED <<job, inUse, perKey, gestures, fetch>>
  BY DEF Receive, Aborted
<1>2. /\ c = fol.conn
      /\ m \in Status =>
           /\ NotAfter(m, job[x.of])
           /\ x.of = tr.jobId /\ tr.seen # None => NotAfter(tr.seen, m)
  BY <1>1, FirstIsNews
<1>3. tr \in TrackingType /\ (tr.seen # None => NotAfter(tr.seen, job[tr.jobId]))
  BY DEF TrackerInv, PageTypeOK, PageInv, TrackingType
<1>4. CASE m \in Pending
  <2>1. m \notin Terminal /\ m \notin {"end", "busy", "server"} /\ m # "not_found"
    BY <1>4 DEF Pending, Terminal
  <2>2. /\ conn' = [conn EXCEPT ![c].wire = Tail(@)] /\ tr' = JobSeen(x.of, m)
        /\ fol' = [fol EXCEPT !.progressed = TRUE] /\ UNCHANGED controller
    BY <1>4, <2>1 DEF Receive
  <2> QED BY <1>1, <1>4, <2>2, EventKeeps
<1>5. CASE m \in Terminal
  <2>1. m \notin Pending /\ m \notin {"end", "busy", "server"} /\ m # "not_found" /\ m \in Status
    BY <1>5 DEF Pending, Terminal, Status
  <2>2. conn' = [conn EXCEPT ![c] = HungUp(conn[c])] /\ Return(JobSeen(x.of, m))
    BY <1>5, <2>1 DEF Receive
  <2>3. /\ tr' \in TrackingType /\ tr'.jobId = tr.jobId
        /\ tr'.seen = tr.seen \/ (x.of = tr.jobId /\ tr'.seen = m)
    BY <1>3, <2>1, <2>2, JobSeenShows DEF Return
  <2>4. SeenGoesOn /\ (tr'.seen # None => NotAfter(tr'.seen, job[tr.jobId]))
    <3>1. CASE tr'.seen = tr.seen
      BY <1>3, <3>1, SameIsNotAfter
    <3>2. CASE x.of = tr.jobId /\ tr'.seen = m
      BY <1>2, <2>1, <3>2 DEF SeenGoesOn
    <3> QED BY <2>3, <3>1, <3>2
  <2>5. fol' \in FollowType /\ fol'.conn = None /\ fol'.step = "idle" /\ controller' = 0
    <3>1. fol' = [step |-> "idle", conn |-> None, failures |-> 0, progressed |-> FALSE] /\ controller' = 0
      BY <2>2 DEF Return, Idle
    <3> QED BY <3>1, TrackerBoundsAssumption DEF FollowType, FolSteps
  <2>6. TrackerInv'
    BY <1>1, <1>2, <2>2, <2>3, <2>4, <2>5, LeaveKeeps
  <2> QED BY <2>4, <2>6
<1>6. CASE m \notin Status
  <2>1. m \notin Pending /\ m \notin Terminal
    BY <1>6 DEF Status
  <2>2. /\ conn' = [conn EXCEPT ![c] = HungUp(conn[c])]
        /\ Retry(m # "end") \/ Return(Lost)
    BY <2>1 DEF Receive
  <2>3. /\ fol' \in FollowType /\ fol'.conn = None
        /\ \/ controller' = controller /\ fol'.step \in {"dial", "waiting"}
           \/ controller' = 0 /\ fol'.step = "idle"
        /\ tr' = tr \/ tr' = Lost
    <3>1. CASE Retry(m # "end")
      <4>1. (m # "end") \in BOOLEAN
        OBVIOUS
      <4> QED BY <3>1, <4>1, RetryIsLeaving
    <3>2. CASE Return(Lost)
      <4>1. /\ fol' = [step |-> "idle", conn |-> None, failures |-> 0, progressed |-> FALSE]
            /\ controller' = 0 /\ tr' = Lost
        BY <3>2 DEF Return, Idle
      <4> QED BY <4>1, TrackerBoundsAssumption DEF FollowType, FolSteps
    <3> QED BY <2>2, <3>1, <3>2
  <2>4. tr' \in TrackingType /\ tr'.jobId = tr.jobId /\ tr'.seen = tr.seen
    BY <1>3, <2>3, LostShows
  <2>5. TrackerInv'
    BY <1>1, <1>2, <1>3, <2>2, <2>3, <2>4, LeaveKeeps
  <2> QED BY <2>4, <2>5, SameIsNotAfter
<1>7. m \in Pending \/ m \in Terminal \/ m \notin Status
  <2>1. CASE m = "GONE"
    <3>1. m \in Status /\ m \notin Real
      BY <2>1 DEF Status, Real, Pending, Terminal
    <3> QED BY <1>2, <3>1 DEF NotAfter
  <2> QED BY <2>1 DEF Status
<1> QED BY <1>4, <1>5, <1>6, <1>7
-----------------------------------------------------------------------------
LEMMA InitIsInv == Init => TrackerInv
<1> SUFFICES ASSUME Init PROVE TrackerInv
  OBVIOUS
<1>1. /\ job \in [Jobs -> Status] /\ conn = [c \in Conns |-> Unused] /\ inUse = 0 /\ perKey = [k \in Keys |-> 0]
      /\ tr = NoTracking /\ gestures = 0 /\ controller = 0 /\ fetch = [t \in Turns |-> NoFetch] /\ fol = Idle
  BY StartsAssumption DEF Init, StreamInit
<1>2. PageTypeOK
  BY <1>1, TrackerBoundsAssumption DEF PageTypeOK, NoTracking, NoFetch, Idle, FolSteps
<1>3. Held = {} /\ \A k \in Keys : HeldBy(k) = {}
  BY <1>1 DEF Held, HeldBy, Unused
<1>4. CountInv
  BY <1>1, <1>3, FS_EmptySet, LimitAssumption DEF CountInv
<1>5. ConnsInv
  <2>1. \A c \in Conns : Fine(c, conn[c], Now)
    BY <1>1, UnusedIsFine
  <2>2. \A c \in Conns : conn[c] \in Connection
    BY <2>1 DEF Fine
  <2> QED BY <1>1, <2>1, <2>2 DEF ConnsInv
<1>6. PageInv
  BY <1>1 DEF PageInv, FetchInv, NoFetch, NoTracking, Idle
<1> QED BY <1>2, <1>4, <1>5, <1>6 DEF TrackerInv

LEMMA StepKeeps == TrackerInv /\ [Next]_vars => TrackerInv' /\ (SeenGoesOn \/ UNCHANGED vars)
<1> SUFFICES ASSUME TrackerInv, [Next]_vars PROVE TrackerInv' /\ (SeenGoesOn \/ UNCHANGED vars)
  OBVIOUS
<1>1. ASSUME UNCHANGED pageVars, TrackerInv' PROVE TrackerInv' /\ SeenGoesOn
  BY <1>1, SameIsNotAfter DEF pageVars
<1>2. CASE (\E j \in Jobs : Follow(j) \/ Open(j)) \/ Stop
  BY <1>2, GesturesKeep
<1>3. CASE Wake
  <2>1. UNCHANGED <<serverVars, tr, gestures, controller>>
    BY <1>3 DEF Wake
  <2>2. controller \in Turns
    <3>1. fol.step # "idle"
      BY <1>3 DEF Wake
    <3>2. controller \in 0..gestures /\ gestures \in 0..MaxGestures /\ controller # 0 /\ MaxGestures \in Nat
      BY <3>1, TrackerBoundsAssumption DEF TrackerInv, PageTypeOK, PageInv
    <3> QED BY <3>2 DEF Turns
  <2> QED BY <1>3, <2>1, <2>2, PageAloneKeeps, SameIsNotAfter
<1>4. ASSUME NEW t \in Turns, PageFetch(t) \/ NoAnswer(t) PROVE TrackerInv' /\ SeenGoesOn
  BY <1>4, AnswersKeep, OpenedKeeps DEF PageFetch
<1>5. ASSUME NEW c \in Conns, PageStep(c) \/ Break(c) PROVE TrackerInv' /\ SeenGoesOn
  BY <1>5, DialKeeps, ReceiveKeeps, IgnoreKeeps, BreakKeeps DEF PageStep
<1>6. ASSUME NEW c \in Conns, ServerStep(c), UNCHANGED pageVars PROVE TrackerInv' /\ SeenGoesOn
  BY <1>1, <1>6, ServerStepKeeps
<1>7. ASSUME NEW j \in Jobs, JobMoves(j), UNCHANGED pageVars PROVE TrackerInv' /\ SeenGoesOn
  BY <1>1, <1>7, JobMovesKeeps
<1>8. CASE UNCHANGED vars
  <2>1. UNCHANGED <<job, conn, inUse, perKey, tr, gestures, controller, fetch, fol>>
    BY <1>8 DEF vars, serverVars, streamVars, pageVars
  <2> QED BY <1>8, <2>1 DEF TrackerInv, PageTypeOK, CountInv, ConnsInv, PageInv, FetchInv, Held, HeldBy, Now
<1> QED BY <1>2, <1>3, <1>4, <1>5, <1>6, <1>7, <1>8 DEF Next
-----------------------------------------------------------------------------
(* Streams, limiter and page agree in every state: events are in order and *)
(* news to who reads them, and what the page has left is hung up.          *)
THEOREM TrackerIsSound == Spec => []TrackerInv
<1>1. TrackerInv /\ [Next]_vars => TrackerInv'
  BY StepKeeps
<1> QED BY <1>1, InitIsInv, PTL DEF Spec

LEMMA InvKeepsSlots == TrackerInv => SlotsAreKept
<1> SUFFICES ASSUME TrackerInv PROVE SlotsAreKept
  OBVIOUS
<1> DEFINE open == {c \in Conns : conn[c].step = "open"}
<1>1. IsFiniteSet(Held) /\ (\A k \in Keys : IsFiniteSet(HeldBy(k)))
  BY ConnsAssumption, FS_Subset DEF Held, HeldBy
<1>2. \A c \in Conns : Fine(c, conn[c], Now)
  BY DEF TrackerInv, ConnsInv
<1>3. Cardinality(Held) \in Nat /\ MaxTotal \in Nat /\ MaxPerKey \in Nat
  BY <1>1, FS_CardinalityType, LimitAssumption
<1>4. TypeOK
  BY <1>3 DEF TypeOK, StreamTypeOK, TrackerInv, PageTypeOK, CountInv, ConnsInv
<1>5. SlotsAreCounted
  BY DEF SlotsAreCounted, TrackerInv, CountInv, HeldBy
<1>6. open \subseteq Held
  BY <1>2 DEF Fine, Held
<1>7. MaxTotal > 0 => Cardinality(open) <= MaxTotal
  <2>1. Cardinality(open) <= Cardinality(Held) /\ Cardinality(open) \in Nat
    BY <1>1, <1>6, FS_Subset, FS_CardinalityType
  <2> QED BY <1>3, <2>1 DEF TrackerInv, CountInv
<1>8. ASSUME NEW k \in Keys, MaxPerKey > 0 PROVE Cardinality({c \in open : Key[c] = k}) <= MaxPerKey
  <2>1. {c \in open : Key[c] = k} \subseteq HeldBy(k)
    BY <1>6 DEF HeldBy
  <2> DEFINE here == {c \in open : Key[c] = k}
  <2>2. here \subseteq HeldBy(k) /\ IsFiniteSet(HeldBy(k))
    BY <1>1, <2>1
  <2> HIDE DEF here
  <2>3. Cardinality(here) <= Cardinality(HeldBy(k)) /\ Cardinality(here) \in Nat /\ Cardinality(HeldBy(k)) \in Nat
    BY <2>2, FS_Subset, FS_CardinalityType
  <2>4. Cardinality(HeldBy(k)) <= MaxPerKey
    BY <1>8 DEF TrackerInv, CountInv
  <2>5. Cardinality(here) <= MaxPerKey
    BY <1>3, <2>3, <2>4
  <2> QED BY <2>5 DEF here
<1>9. StreamsWithinLimits
  BY <1>7, <1>8 DEF StreamsWithinLimits
<1>10. NoStreamForgotten
  BY <1>2 DEF NoStreamForgotten, Fine, Now
<1> QED BY <1>4, <1>5, <1>9, <1>10 DEF SlotsAreKept

(* The limiter of event streams counts exactly the slots somebody holds,   *)
(* however often one is released, no more streams poll the database than   *)
(* its limits allow, and an aborted page leaves none open behind it.       *)
THEOREM TrackerKeepsSlots == Spec => []SlotsAreKept
BY TrackerIsSound, InvKeepsSlots, PTL

LEMMA NeverBack ==
    TrackerInv /\ [Next]_vars =>
      [tr'.jobId = tr.jobId /\ tr.seen # None /\ tr'.seen # None /\ tr'.seen # tr.seen
         => Order[tr'.seen] > Order[tr.seen]]_vars
<1> SUFFICES ASSUME SeenGoesOn, tr'.jobId = tr.jobId, tr.seen # None, tr'.seen # None, tr'.seen # tr.seen
             PROVE  Order[tr'.seen] > Order[tr.seen]
  BY StepKeeps
<1>1. tr.seen \in Real /\ tr'.seen \in Real /\ Order[tr.seen] < Order[tr'.seen]
  BY DEF SeenGoesOn, NotAfter
<1>2. \A a \in Real : Order[a] \in Nat
  BY DEF Order, Real, Pending, Terminal
<1> QED BY <1>1, <1>2

(* trackingReduce and current(): what the page shows of one job never goes *)
(* back, whatever is reconnected, aborted or late.                         *)
THEOREM TrackerNeverGoesBack == Spec => PanelNeverGoesBack
BY TrackerIsSound, NeverBack, PTL DEF Spec, PanelNeverGoesBack
=============================================================================
