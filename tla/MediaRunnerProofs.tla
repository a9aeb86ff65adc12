-------------------------- MODULE MediaRunnerProofs --------------------------
(***************************************************************************)
(* A worker with any number of jobs, of any options and with any number of *)
(* texts to send; any keys, retries and resolutions of names.              *)
(*                                                                         *)
(* What follows what in a plan (PlanIsSound) is what carries the proofs:   *)
(* the key is held exactly in the calls and what is done between them      *)
(* (KeyIsHeldInCalls), and a step after which nobody looks at the cancel   *)
(* event begins right after one that was looked at (CostIsBounded).        *)
(***************************************************************************)
EXTENDS MediaRunner, SequenceTheorems, TLAPS

Steps == Plainly \cup Children \cup {"load", "whisper", "lease", "call"}
InBlock == {"call", "fit"}

Follows(s, t) ==
    /\ t = "load" => s = "model"
    /\ t = "fit" => s = "call"
    /\ t = "call" => s \in {"lease"} \cup InBlock

(* A plan that goes on after "lease" and after every call, and ends with an upload. *)
PlanIsSound(p) ==
    /\ p \in Seq(Steps) /\ Len(p) > 0 /\ p[Len(p)] = "upload"
    /\ \A i \in 1..(Len(p) - 1) : Follows(p[i], p[i + 1])

RunnerTypeOK ==
    /\ TypeOK
    /\ phase # "idle" => n \in Job /\ work \in Works
    /\ phase # "running" => ~doing
    /\ phase = "running" => PlanIsSound(plan)
    /\ phase = "running" /\ ~doing => Head(plan) \notin AtOnce
    /\ cleaner \in [step: {"off", "listed", "asked"}, listed: SUBSET Job, alive: SUBSET Job, starts: Nat]

(* A key is held for the calls, and for what is done between two of them. *)
KeyIsHeldInCalls ==
    /\ lease # NoCred <=> phase = "running" /\ Head(plan) \in InBlock
    /\ fetch.step # "none" => Doing("lease")
    /\ fetch.answer = "key" => fetch.cred \in Credentials

(* A call has a key, and a connection that is open goes to where the guard let it go. *)
CallIsGuarded ==
    /\ call.step # "none" => Doing("call")
    /\ call.step = "connect" /\ Target(work.kind) # NoUrl => Allowed(Target(work.kind), {call.address})
    /\ call.step = "connect" => call.address \in Classes \cup {"fixed"}
    /\ sent # NoRequest => phase = "running"

(* Nothing that costs has begun since the event was set, but for the step under way. *)
CostIsBounded ==
    /\ late <= 1
    /\ ~cancel \/ phase = "claimed" => late = 0
    /\ phase = "running" /\ (~doing \/ Head(plan) \in Unchecked) => late = 0

(* What a worker that starts has listed may not be the directory of a job that is still to run. *)
DirIsSafe ==
    /\ dirs \cup cleaner.listed \subseteq 1..n
    /\ phase = "claimed" => n \notin dirs \cup cleaner.listed
    /\ phase \in {"claimed", "running"} /\ row[n] = "RUNNING" => n \in beating
    /\ phase = "running" /\ row[n] = "RUNNING" =>
           n \in dirs /\ (cleaner.step = "asked" /\ n \in cleaner.listed => n \in cleaner.alive)

RunnerInv ==
    /\ RunnerTypeOK
    /\ KeyIsHeldInCalls /\ SecretsAreCensored
    /\ CallIsGuarded /\ KeyGoesWhereItMay(work.kind)
    /\ CostIsBounded
    /\ DirIsSafe
    /\ WhisperIsReleasedFirst
-----------------------------------------------------------------------------
(* Plans. *)

LEMMA StepNames ==
    Steps = {"segments", "video", "extract", "model", "text", "fit", "track", "mix", "burn", "upload",
             "clean", "diarize", "load", "whisper", "lease", "call"}
BY DEF Steps, Plainly, Children

(* What is left of a plan is a plan. *)
LEMMA TailIsSound ==
    ASSUME NEW p, PlanIsSound(p)
    PROVE  /\ Head(p) = p[1] /\ p[1] \in Steps
           /\ Len(p) = 1 => p[1] = "upload"
           /\ Len(p) # 1 => /\ PlanIsSound(Tail(p)) /\ Head(Tail(p)) = p[2]
                            /\ p[2] \in Steps /\ Follows(p[1], p[2])
           /\ p[1] \in {"lease"} \cup InBlock => Len(p) # 1
<1> DEFINE k == Len(p)
<1>1. p \in Seq(Steps) /\ k \in Nat /\ k > 0 /\ p[k] = "upload"
  BY DEF PlanIsSound
<1>2. Head(p) = p[1] /\ p[1] \in Steps
  BY <1>1
<1>3. ASSUME k # 1
      PROVE  /\ PlanIsSound(Tail(p)) /\ Head(Tail(p)) = p[2]
             /\ p[2] \in Steps /\ Follows(p[1], p[2])
  <2>1. /\ Tail(p) \in Seq(Steps) /\ Len(Tail(p)) = k - 1
        /\ \A i \in 1..(k - 1) : Tail(p)[i] = p[i + 1]
    BY <1>1, <1>3
  <2>2. \A i \in 1..(k - 1) : Follows(p[i], p[i + 1])
    BY DEF PlanIsSound
  <2>3. \A i \in 1..(k - 2) : Follows(Tail(p)[i], Tail(p)[i + 1])
    BY <2>1, <2>2, <1>1
  <2>4. Tail(p)[k - 1] = "upload" /\ Head(Tail(p)) = p[2] /\ p[2] \in Steps
    BY <2>1, <1>1, <1>3
  <2>5. Follows(p[1], p[2])
    <3>1. k \in Nat /\ k > 0 /\ k # 1
      BY <1>1, <1>3
    <3> HIDE DEF k
    <3>2. 1 \in 1..(k - 1)
      BY <3>1
    <3>3. Follows(p[1], p[1 + 1])
      BY <2>2, <3>2
    <3> QED BY <3>3
  <2> QED BY <2>1, <2>3, <2>4, <2>5, <1>1, <1>3 DEF PlanIsSound
<1> QED BY <1>1, <1>2, <1>3 DEF InBlock

Linked(p) == p \in Seq(Steps) /\ \A i \in 1..(Len(p) - 1) : Follows(p[i], p[i + 1])

LEMMA JoinIsLinked ==
    ASSUME NEW p, NEW q, Linked(p), Linked(q), Len(p) > 0, Len(q) > 0 => Follows(p[Len(p)], q[1])
    PROVE  /\ Linked(p \o q) /\ Len(p \o q) > 0 /\ (p \o q)[1] = p[1]
           /\ Len(q) = 0 => (p \o q)[Len(p \o q)] = p[Len(p)]
           /\ Len(q) > 0 => (p \o q)[Len(p \o q)] = q[Len(q)]
<1> DEFINE a == Len(p)  b == Len(q)  r == p \o q
<1>1. a \in Nat /\ b \in Nat /\ p \in Seq(Steps) /\ q \in Seq(Steps)
  BY DEF Linked
<1>2. r \in Seq(Steps) /\ Len(r) = a + b
  BY <1>1
<1>3. \A i \in 1..(a + b) : r[i] = IF i <= a THEN p[i] ELSE q[i - a]
  BY <1>1
<1> HIDE DEF r
<1>4. ASSUME NEW i \in 1..(a + b - 1) PROVE Follows(r[i], r[i + 1])
  <2>1. CASE i < a
    <3>1. /\ i \in 1..(a + b) /\ i + 1 \in 1..(a + b)
          /\ i <= a /\ i + 1 <= a /\ i \in 1..(a - 1)
      BY <2>1, <1>1
    <3>2. r[i] = p[i] /\ r[i + 1] = p[i + 1]
      BY <3>1, <1>3
    <3>3. Follows(p[i], p[i + 1])
      BY <3>1 DEF Linked
    <3> QED BY <3>2, <3>3
  <2>2. CASE i = a
    <3>1. b > 0 /\ a \in 1..(a + b) /\ a + 1 \in 1..(a + b)
      BY <2>2, <1>1
    <3>2. r[a] = p[a] /\ r[a + 1] = q[(a + 1) - a]
      BY <3>1, <1>1, <1>3
    <3>3. (a + 1) - a = 1
      BY <1>1
    <3> QED BY <2>2, <3>1, <3>2, <3>3
  <2>3. CASE i > a
    <3>1. r[i] = q[i - a] /\ r[i + 1] = q[(i - a) + 1] /\ (i - a) \in 1..(b - 1)
      BY <2>3, <1>1, <1>3
    <3> QED BY <3>1 DEF Linked
  <2> QED BY <2>1, <2>2, <2>3, <1>1
<1>5. r[1] = p[1] /\ (b = 0 => r[a + b] = p[a]) /\ (b > 0 => r[a + b] = q[b])
  BY <1>1, <1>3
<1> QED BY <1>1, <1>2, <1>4, <1>5 DEF Linked, r

LEMMA PieceIsLinked ==
    ASSUME NEW s \in Steps
    PROVE  /\ Linked(<<s>>)
           /\ \A c \in BOOLEAN : /\ Linked(When(c, <<s>>))
                                 /\ IF c THEN Len(When(c, <<s>>)) = 1 /\ When(c, <<s>>)[1] = s
                                    ELSE Len(When(c, <<s>>)) = 0
BY DEF Linked, When

LEMMA SameTimes ==
    ASSUME NEW k \in Nat, NEW s \in {"call", "text"}
    PROVE  /\ Linked(Times(k, <<s>>)) /\ Len(Times(k, <<s>>)) = k
           /\ \A i \in 1..k : Times(k, <<s>>)[i] = s
<1>1. Times(k, <<s>>) = [i \in 1..k |-> s]
  BY DEF Times
<1>2. Len([i \in 1..k |-> s]) = k /\ [i \in 1..k |-> s] \in Seq(Steps)
  BY StepNames
<1> QED BY <1>1, <1>2 DEF Linked, Follows, InBlock

LEMMA SpokenTimes ==
    ASSUME NEW k \in Nat
    PROVE  /\ Linked(Times(k, <<"call", "fit">>))
           /\ Len(Times(k, <<"call", "fit">>)) = 2 * k
           /\ k > 0 => Times(k, <<"call", "fit">>)[1] = "call" /\ Times(k, <<"call", "fit">>)[2 * k] = "fit"
<1> DEFINE t == Times(k, <<"call", "fit">>)
<1>1. t = [i \in 1..(2 * k) |-> <<"call", "fit">>[((i - 1) % 2) + 1]]
  BY DEF Times
<1>2. ASSUME NEW i \in 1..(2 * k) PROVE t[i] = IF i % 2 = 1 THEN "call" ELSE "fit"
  BY <1>1, <1>2
<1>3. t \in Seq(Steps) /\ Len(t) = 2 * k
  BY <1>1, <1>2, StepNames
<1> HIDE DEF t
<1>4. \A i \in 1..(2 * k - 1) : Follows(t[i], t[i + 1])
  BY <1>2 DEF Follows, InBlock
<1> QED BY <1>2, <1>3, <1>4 DEF Linked, t

(* The plans of the four runners: the first step is neither a call nor begun at once. *)
LEMMA PlanOfIsSound ==
    ASSUME NEW w \in Works
    PROVE  PlanIsSound(PlanOf(w)) /\ Head(PlanOf(w)) \notin AtOnce \cup InBlock
<1> USE StepNames, PieceIsLinked DEF Follows, InBlock
<1> DEFINE Good(p) == Linked(p) /\ Len(p) > 0 /\ p[1] \in {"video", "segments"}
<1>0. /\ w.kind \in {"transcribe", "burn", "translate", "dub"}
      /\ {w.external, w.clean, w.diarize, w.mix, w.into} \subseteq BOOLEAN /\ w.pieces \in Nat
  BY WorksAssumption
<1>1. ASSUME NEW p, Good(p), p[Len(p)] = "upload"
      PROVE  PlanIsSound(p) /\ Head(p) \notin AtOnce \cup InBlock
  BY <1>1 DEF PlanIsSound, Linked, AtOnce
<1>2. Good(TranscribePlan(w)) /\ TranscribePlan(w)[Len(TranscribePlan(w))] = "upload"
  <2> DEFINE p1 == <<"video", "extract">>
             p2 == p1 \o When(w.clean, <<"clean">>)
             q3 == <<"model", "load", "whisper">>
             p3 == p2 \o q3
             p4 == p3 \o When(w.diarize, <<"diarize">>)
             p5 == p4 \o When(w.into, <<"text">>)
             p6 == p5 \o <<"upload">>
  <2>1. Good(p1) /\ p1[Len(p1)] = "extract"
    BY DEF Linked
  <2>2. Linked(q3) /\ Len(q3) > 0 /\ q3[1] = "model" /\ q3[Len(q3)] = "whisper"
    BY DEF Linked
  <2>3. Good(p2) /\ p2[Len(p2)] \in {"extract", "clean"}
    <3> HIDE DEF p1
    <3> QED BY <1>0, <2>1, JoinIsLinked
  <2>4. Good(p3) /\ p3[Len(p3)] = "whisper"
    <3> HIDE DEF p2, q3
    <3> QED BY <2>2, <2>3, JoinIsLinked
  <2>5. Good(p4) /\ p4[Len(p4)] \in {"whisper", "diarize"}
    <3> HIDE DEF p3
    <3> QED BY <1>0, <2>4, JoinIsLinked
  <2>6. Good(p5) /\ p5[Len(p5)] \in {"whisper", "diarize", "text"}
    <3> HIDE DEF p4
    <3> QED BY <1>0, <2>5, JoinIsLinked
  <2>7. Good(p6) /\ p6[Len(p6)] = "upload"
    <3> HIDE DEF p5
    <3> QED BY <2>6, JoinIsLinked
  <2> QED BY <2>7 DEF TranscribePlan
<1>3. Good(BurnPlan) /\ BurnPlan[Len(BurnPlan)] = "upload"
  BY DEF BurnPlan, Linked
<1>4. Good(TranslatePlan(w)) /\ TranslatePlan(w)[Len(TranslatePlan(w))] = "upload"
  <2> DEFINE s == IF w.external THEN "call" ELSE "text"
             p1 == <<"segments">>
             p2 == p1 \o When(w.external, <<"lease">>)
             q3 == Times(w.pieces, <<s>>)
             p3 == p2 \o q3
             p4 == p3 \o <<"upload">>
  <2>1. Good(p1) /\ p1[Len(p1)] = "segments"
    BY DEF Linked
  <2>2. Good(p2) /\ p2[Len(p2)] = IF w.external THEN "lease" ELSE "segments"
    <3> HIDE DEF p1
    <3> QED BY <1>0, <2>1, JoinIsLinked
  <2>3. /\ Linked(q3) /\ Len(q3) \in Nat
        /\ Len(q3) > 0 => q3[1] = s /\ q3[Len(q3)] = s
    BY <1>0, SameTimes
  <2>4. Good(p3) /\ p3[Len(p3)] \in {"lease", "segments", s}
    <3> HIDE DEF p2, q3
    <3>1. Len(q3) > 0 => Follows(p2[Len(p2)], q3[1])
      BY <2>2, <2>3
    <3> QED BY <3>1, <2>2, <2>3, JoinIsLinked
  <2>5. Good(p4) /\ p4[Len(p4)] = "upload"
    <3> HIDE DEF p3
    <3> QED BY <2>4, JoinIsLinked
  <2> QED BY <2>5 DEF TranslatePlan
<1>5. Good(DubPlan(w)) /\ DubPlan(w)[Len(DubPlan(w))] = "upload"
  <2> DEFINE p1 == <<"segments">>
             p2 == p1 \o When(w.mix, <<"video">>)
             p3 == p2 \o <<"lease">>
             q4 == Times(w.pieces, <<"call", "fit">>)
             p4 == p3 \o q4
             p5 == p4 \o <<"track">>
             p6 == p5 \o When(w.mix, <<"mix">>)
             p7 == p6 \o <<"upload">>
  <2>1. Good(p1) /\ p1[Len(p1)] = "segments"
    BY DEF Linked
  <2>2. Good(p2) /\ p2[Len(p2)] \in {"segments", "video"}
    <3> HIDE DEF p1
    <3> QED BY <1>0, <2>1, JoinIsLinked
  <2>3. Good(p3) /\ p3[Len(p3)] = "lease"
    <3> HIDE DEF p2
    <3> QED BY <2>2, JoinIsLinked
  <2>4. Good(p4) /\ p4[Len(p4)] \in {"lease", "fit"}
    <3>1. /\ Linked(q4) /\ Len(q4) \in Nat
          /\ Len(q4) > 0 => q4[1] = "call" /\ q4[Len(q4)] = "fit"
      <4>1. w.pieces \in Nat
        BY <1>0
      <4> DEFINE k == w.pieces
      <4> HIDE DEF k
      <4>2. /\ Linked(Times(k, <<"call", "fit">>)) /\ Len(Times(k, <<"call", "fit">>)) = 2 * k
            /\ k > 0 => /\ Times(k, <<"call", "fit">>)[1] = "call"
                        /\ Times(k, <<"call", "fit">>)[2 * k] = "fit"
        BY <4>1, SpokenTimes DEF k
      <4> QED BY <4>1, <4>2 DEF k
    <3> HIDE DEF p3, q4
    <3>2. Len(q4) > 0 => Follows(p3[Len(p3)], q4[1])
      BY <2>3, <3>1
    <3> QED BY <3>1, <3>2, <2>3, JoinIsLinked
  <2>5. Good(p5) /\ p5[Len(p5)] = "track"
    <3> HIDE DEF p4
    <3> QED BY <2>4, JoinIsLinked
  <2>6. Good(p6) /\ p6[Len(p6)] \in {"track", "mix"}
    <3> HIDE DEF p5
    <3> QED BY <1>0, <2>5, JoinIsLinked
  <2>7. Good(p7) /\ p7[Len(p7)] = "upload"
    <3> HIDE DEF p6
    <3> QED BY <2>6, JoinIsLinked
  <2> QED BY <2>7 DEF DubPlan
<1> HIDE DEF Good
<1> QED BY <1>0, <1>1, <1>2, <1>3, <1>4, <1>5 DEF PlanOf
-----------------------------------------------------------------------------
(* What is left of a key. *)

LEMMA ValuesAreSecrets ==
    ASSUME NEW c \in Credentials
    PROVE  /\ c = [key |-> c.key, url |-> c.url] /\ c # NoCred
           /\ Values(c) \subseteq Secrets /\ c.key \in Secrets /\ c.url \in Secrets \cup {NoUrl}
<1>1. c = [key |-> c.key, url |-> c.url] /\ c # NoCred /\ c.key # NoUrl
  BY KeyLoanAssumption
<1>2. Values(c) \subseteq Secrets
  BY DEF Secrets
<1> QED BY <1>1, <1>2 DEF Values

LEMMA RetiredIsTyped ==
    ASSUME NEW q \in Seq(Secrets), Len(q) <= RetiredKeep, NEW v \in Secrets
    PROVE  Retired(q, v) \in Seq(Secrets) /\ Len(Retired(q, v)) <= RetiredKeep
<1>1. RetiredKeep \in Nat \ {0}
  BY KeyLoanAssumption
<1>2. CASE Len(q) < RetiredKeep
  BY <1>1, <1>2 DEF Retired
<1>3. CASE Len(q) = RetiredKeep
  <2>1. Tail(q) \in Seq(Secrets) /\ Len(Tail(q)) = RetiredKeep - 1
    BY <1>1, <1>3
  <2> DEFINE t == Tail(q)
  <2>2. Append(t, v) \in Seq(Secrets) /\ Len(Append(t, v)) = RetiredKeep
    <3> HIDE DEF t
    <3> QED BY <2>1, <1>1 DEF t
  <2> QED BY <2>2, <1>1, <1>3 DEF Retired
<1> QED BY <1>1, <1>2, <1>3

LEMMA RetiredAllIsTyped ==
    ASSUME NEW q \in Seq(Secrets), Len(q) <= RetiredKeep, NEW c \in Credentials
    PROVE  RetiredAll(q, c) \in Seq(Secrets) /\ Len(RetiredAll(q, c)) <= RetiredKeep
<1>1. c.key \in Secrets /\ c.url \in Secrets \cup {NoUrl}
  BY ValuesAreSecrets
<1>2. Retired(q, c.key) \in Seq(Secrets) /\ Len(Retired(q, c.key)) <= RetiredKeep
  BY <1>1, RetiredIsTyped
<1>3. c.url # NoUrl => /\ Retired(Retired(q, c.key), c.url) \in Seq(Secrets)
                       /\ Len(Retired(Retired(q, c.key), c.url)) <= RetiredKeep
  BY <1>1, <1>2, RetiredIsTyped
<1> QED BY <1>2, <1>3 DEF RetiredAll

LEMMA NoFetchIsTyped ==
    NoFetch \in [step: {"none", "sent", "found", "answered"}, attempt: 0..MaxAttempts,
                 answer: Answers, cred: Credentials \cup {NoCred}]
BY KeyLoanAssumption DEF NoFetch, Answers

(* After the block nothing is held, and everything is still typed. *)
LEMMA LeaseIsLeft ==
    ASSUME KeyTypeOK, SecretsAreCensored, LeaveLease, UNCHANGED <<row, channelVars>>
    PROVE  KeyTypeOK' /\ SecretsAreCensored' /\ lease' = NoCred /\ fetch' = NoFetch
<1>1. lease' = NoCred /\ fetch' = NoFetch
  BY DEF LeaveLease
<1>2. live' = {}
  BY DEF LeaveLease, SecretsAreCensored
<1>3. retired' \in Seq(Secrets) /\ Len(retired') <= RetiredKeep
  BY RetiredAllIsTyped DEF LeaveLease, KeyTypeOK
<1>4. KeyTypeOK'
  BY <1>1, <1>2, <1>3, NoFetchIsTyped DEF KeyTypeOK, channelVars
<1> QED BY <1>1, <1>2, <1>4 DEF SecretsAreCensored

(* An abandoned request is typed too. *)
LEMMA NoCallIsTyped ==
    /\ NoCall \in [step: CallSteps, attempt: 0..MaxRetries, format: BOOLEAN, address: Classes \cup {"none", "fixed"}]
    /\ NoCall.step = "none"
BY ProviderAssumption DEF NoCall, CallSteps
-----------------------------------------------------------------------------
(* The end of a step. *)

LEMMA LeaveKeeps ==
    ASSUME RunnerInv, phase \in {"claimed", "running"}, Leave,
           UNCHANGED <<row, channelVars, dns, n, work, late, beating, cleaner>>,
           cancel' \in BOOLEAN, cancel => cancel', whisper' \in {whisper, "loaded"},
           stray' \subseteq {"load", "whisper"}
    PROVE  RunnerInv'
<1> USE DEF RunnerInv, RunnerTypeOK
<1>1. phase' = "over" /\ doing' = FALSE /\ dirs' = dirs \ {n} /\ call' = NoCall /\ sent' = NoRequest
  BY DEF Leave
<1>2. KeyTypeOK' /\ SecretsAreCensored' /\ lease' = NoCred /\ fetch' = NoFetch
  BY LeaseIsLeft DEF Leave, TypeOK
<1>3. RunnerTypeOK'
  BY <1>1, <1>2, NoCallIsTyped DEF TypeOK, CallTypeOK
<1>4. KeyIsHeldInCalls'
  BY <1>1, <1>2 DEF KeyIsHeldInCalls, NoFetch
<1>5. CallIsGuarded'
  BY <1>1, NoCallIsTyped DEF CallIsGuarded
<1>6. KeyGoesWhereItMay(work.kind)'
  BY <1>1 DEF KeyGoesWhereItMay
<1>7. CostIsBounded'
  BY <1>1 DEF CostIsBounded, TypeOK
<1>8. DirIsSafe'
  BY <1>1 DEF DirIsSafe
<1>9. WhisperIsReleasedFirst'
  BY <1>1 DEF WhisperIsReleasedFirst
<1> QED BY <1>2, <1>3, <1>4, <1>5, <1>6, <1>7, <1>8, <1>9

LEMMA GoesOnKeeps ==
    ASSUME RunnerInv, phase = "running", Head(plan) # "lease", GoesOn,
           UNCHANGED <<row, channelVars, dns, n, work, cancel, late, stray, beating, cleaner>>,
           whisper' \in {whisper, "loaded"}
    PROVE  RunnerInv'
<1> USE DEF RunnerInv, RunnerTypeOK
<1>1. CASE Len(plan) = 1 \/ (cancel /\ Head(plan) \notin Unchecked)
  BY <1>1, LeaveKeeps DEF GoesOn, TypeOK
<1>2. CASE ~(Len(plan) = 1 \/ (cancel /\ Head(plan) \notin Unchecked))
  <2>1. /\ plan' = Tail(plan) /\ doing' = (plan[2] \in AtOnce) /\ call' = NoCall
        /\ UNCHANGED <<phase, dirs>>
        /\ IF LastInBlock THEN LeaveLease /\ sent' = NoRequest ELSE UNCHANGED <<loanVars, sent>>
    BY <1>2 DEF GoesOn
  <2>2. /\ PlanIsSound(Tail(plan)) /\ Head(Tail(plan)) = plan[2] /\ Head(plan) = plan[1]
        /\ Follows(plan[1], plan[2])
    BY <1>2, TailIsSound
  <2>3. KeyTypeOK' /\ SecretsAreCensored'
    <3>1. CASE LastInBlock
      BY <2>1, <3>1, LeaseIsLeft DEF TypeOK
    <3>2. CASE ~LastInBlock
      BY <2>1, <3>2 DEF TypeOK, KeyTypeOK, SecretsAreCensored, Censored, loanVars, channelVars
    <3> QED BY <3>1, <3>2
  <2>4. sent' \in {sent, NoRequest}
    BY <2>1
  <2>5. RunnerTypeOK'
    <3>1. doing' \in BOOLEAN /\ (~doing' => plan[2] \notin AtOnce)
      <4>1. doing' = (plan[2] \in AtOnce)
        BY <2>1
      <4>2. (plan[2] \in AtOnce) \in BOOLEAN
        OBVIOUS
      <4>3. doing' \in BOOLEAN
        BY <4>1, <4>2, Zenon
      <4>4. ~doing' => plan[2] \notin AtOnce
        BY <4>1, Zenon
      <4> QED BY <4>3, <4>4
    <3>2. CallTypeOK'
      BY <2>1, <2>4, NoCallIsTyped DEF TypeOK, CallTypeOK
    <3>3. phase' = "running" /\ dirs' = dirs /\ plan' = Tail(plan)
      BY <2>1
    <3>4. TypeOK'
      BY <2>3, <3>1, <3>2, <3>3 DEF TypeOK
    <3> QED BY <2>2, <3>1, <3>3, <3>4
  <2>6. KeyIsHeldInCalls'
    <3>1. CASE LastInBlock
      <4>1. plan[2] \notin InBlock /\ Head(plan') = plan[2]
        BY <2>1, <2>2, <3>1 DEF LastInBlock, InBlock
      <4>2. lease' = NoCred /\ fetch' = NoFetch
        BY <2>1, <3>1 DEF LeaveLease
      <4> QED BY <4>1, <4>2 DEF KeyIsHeldInCalls, NoFetch
    <3>2. CASE ~LastInBlock
      BY <2>1, <2>2, <3>2 DEF KeyIsHeldInCalls, LastInBlock, InBlock, Follows, Doing, At, loanVars
    <3> QED BY <3>1, <3>2
  <2>7. CallIsGuarded'
    BY <2>1, <2>4, NoCallIsTyped DEF CallIsGuarded
  <2>8. KeyGoesWhereItMay(work.kind)'
    BY <2>4 DEF KeyGoesWhereItMay, Allowed
  <2>9. late = 0
    BY <1>2 DEF CostIsBounded
  <2>10. CostIsBounded'
    BY <2>9 DEF CostIsBounded
  <2>11. DirIsSafe'
    BY <2>1 DEF DirIsSafe
  <2>12. WhisperIsReleasedFirst'
    BY <2>1, <2>2 DEF WhisperIsReleasedFirst, AtOnce, Children
  <2> QED BY <2>3, <2>5, <2>6, <2>7, <2>8, <2>10, <2>11, <2>12
<1> QED BY <1>1, <1>2
-----------------------------------------------------------------------------
(* The actions, one after the other. *)

LEMMA TakeKeeps ==
    ASSUME RunnerInv, Take PROVE RunnerInv'
<1> USE DEF RunnerInv, RunnerTypeOK
<1>1. /\ phase = "idle" /\ n' = n + 1 /\ n + 1 \in Job /\ cancel' = FALSE /\ late' = 0 /\ phase' \in {"idle", "claimed"}
      /\ UNCHANGED <<saved, changes, fetch, lease, live, retired, dns, call, sent, plan, doing, whisper, stray, dirs, cleaner>>
  BY KeyLoanAssumption DEF Take, TypeOK, Job, channelVars, loanVars, callVars
<1>2. \/ UNCHANGED <<row, beating, work, phase>>
      \/ /\ row' = [row EXCEPT ![n + 1] = "RUNNING"] /\ beating' = beating \cup {n + 1}
         /\ work' \in Works /\ phase' = "claimed"
  BY DEF Take
<1>3. KeyTypeOK' /\ SecretsAreCensored'
  BY <1>1, <1>2 DEF TypeOK, KeyTypeOK, SecretsAreCensored, Censored
<1>4. RunnerTypeOK'
  <2>1. CallTypeOK'
    BY <1>1 DEF TypeOK, CallTypeOK
  <2>2. n' \in 0..MaxJobs /\ work' \in Works \cup {Idle} /\ (phase' # "idle" => work' \in Works)
    BY <1>1, <1>2 DEF TypeOK, Job
  <2>3. dirs' \subseteq Job /\ beating' \subseteq Job
    BY <1>1, <1>2 DEF TypeOK
  <2>4. TypeOK'
    BY <1>1, <1>3, <2>1, <2>2, <2>3 DEF TypeOK
  <2> QED BY <1>1, <2>2, <2>4
<1>5. KeyIsHeldInCalls'
  BY <1>1 DEF KeyIsHeldInCalls, Doing, At
<1>6. CallIsGuarded' /\ sent' = NoRequest
  BY <1>1 DEF CallIsGuarded, Doing, At
<1>7. KeyGoesWhereItMay(work.kind)'
  BY <1>6 DEF KeyGoesWhereItMay
<1>8. CostIsBounded'
  BY <1>1 DEF CostIsBounded
<1>9. dirs' \cup cleaner'.listed \subseteq 1..n'
  BY <1>1 DEF DirIsSafe, TypeOK
<1>10. n + 1 \notin dirs \cup cleaner.listed
  BY DEF DirIsSafe, TypeOK
<1>11. DirIsSafe'
  BY <1>1, <1>2, <1>9, <1>10 DEF DirIsSafe
<1>12. WhisperIsReleasedFirst'
  BY <1>1 DEF WhisperIsReleasedFirst
<1> QED BY <1>3, <1>4, <1>5, <1>6, <1>7, <1>8, <1>11, <1>12

LEMMA RunKeeps ==
    ASSUME RunnerInv, Run PROVE RunnerInv'
<1> USE DEF RunnerInv, RunnerTypeOK
<1>1. /\ phase = "claimed" /\ phase' = "running" /\ plan' = PlanOf(work) /\ dirs' = dirs \cup {n}
      /\ UNCHANGED <<row, saved, changes, fetch, lease, live, retired, dns, call, sent, n, work, doing, cancel,
                     late, whisper, stray, beating, cleaner>>
  BY DEF Run, channelVars, loanVars, callVars
<1>2. PlanIsSound(plan') /\ Head(plan') \notin AtOnce \cup InBlock
  BY <1>1, PlanOfIsSound
<1>3. KeyTypeOK' /\ SecretsAreCensored'
  BY <1>1 DEF TypeOK, KeyTypeOK, SecretsAreCensored, Censored
<1>4. RunnerTypeOK'
  BY <1>1, <1>2, <1>3 DEF TypeOK, CallTypeOK, Job
<1>5. KeyIsHeldInCalls'
  BY <1>1, <1>2 DEF KeyIsHeldInCalls, Doing, At
<1>6. CallIsGuarded' /\ sent' = NoRequest
  BY <1>1 DEF CallIsGuarded, Doing, At
<1>7. KeyGoesWhereItMay(work.kind)'
  BY <1>6 DEF KeyGoesWhereItMay
<1>8. CostIsBounded'
  BY <1>1 DEF CostIsBounded
<1>9. DirIsSafe'
  BY <1>1 DEF DirIsSafe, TypeOK, Job
<1>10. WhisperIsReleasedFirst'
  BY <1>1 DEF WhisperIsReleasedFirst
<1> QED BY <1>3, <1>4, <1>5, <1>6, <1>7, <1>8, <1>9, <1>10

(* A step that begins has been looked at: nothing that costs has begun since the event was set. *)
LEMMA BeginKeeps ==
    ASSUME RunnerInv, phase = "running", ~doing, doing' = TRUE, Head(plan) # "load",
           Costs \/ (UNCHANGED late /\ Head(plan) = "lease"),
           Head(plan) = "lease" => UNCHANGED late,
           UNCHANGED <<row, saved, changes, lease, live, retired, dns, sent, n, work, phase, plan, cancel, stray,
                       dirs, beating, cleaner>>,
           KeyTypeOK', fetch' = fetch \/ (Head(plan) = "lease" /\ fetch'.answer = "none"),
           call' = call \/ (Head(plan) = "call" /\ call' = [NoCall EXCEPT !.step = "resolve"]),
           whisper' \in {whisper, "none"}, Head(plan) \in Children => whisper' = "none"
    PROVE  RunnerInv'
<1> USE DEF RunnerInv, RunnerTypeOK
<1>1. late = 0
  BY DEF CostIsBounded
<1>2. late' \in 0..1 /\ (~cancel => late' = 0) /\ (Head(plan) = "lease" => late' = 0)
  BY <1>1 DEF Costs
<1>3. fetch.step = "none" /\ call.step = "none"
  BY DEF KeyIsHeldInCalls, CallIsGuarded, Doing
<1>4. call' \in [step: CallSteps, attempt: 0..MaxRetries, format: BOOLEAN, address: Classes \cup {"none", "fixed"}]
  <2>1. "resolve" \in CallSteps
    BY DEF CallSteps
  <2>2. [NoCall EXCEPT !.step = "resolve"] \in
            [step: CallSteps, attempt: 0..MaxRetries, format: BOOLEAN, address: Classes \cup {"none", "fixed"}]
    BY <2>1, NoCallIsTyped
  <2> QED BY <2>2 DEF TypeOK, CallTypeOK
<1>5. call'.step # "none" => Head(plan) = "call" /\ call'.step = "resolve"
  BY <1>3 DEF NoCall
<1>6. SecretsAreCensored'
  BY DEF SecretsAreCensored, Censored
<1>7. RunnerTypeOK'
  BY <1>2, <1>4 DEF TypeOK, CallTypeOK
<1>8. plan # <<>>
  BY DEF PlanIsSound
<1>9. KeyIsHeldInCalls'
  <2>1. fetch'.step # "none" => Head(plan) = "lease"
    BY <1>3
  <2>2. fetch'.answer = "key" => fetch'.cred \in Credentials
    BY DEF KeyIsHeldInCalls
  <2> QED BY <1>8, <2>1, <2>2 DEF KeyIsHeldInCalls, Doing, At
<1>10. CallIsGuarded'
  BY <1>5, <1>8 DEF CallIsGuarded, Doing, At
<1>11. KeyGoesWhereItMay(work.kind)'
  BY DEF KeyGoesWhereItMay, Allowed
<1>12. CostIsBounded'
  BY <1>2 DEF CostIsBounded, Unchecked
<1>13. DirIsSafe'
  BY DEF DirIsSafe
<1>14. WhisperIsReleasedFirst'
  BY DEF WhisperIsReleasedFirst
<1> QED BY <1>6, <1>7, <1>9, <1>10, <1>11, <1>12, <1>13, <1>14

LEMMA BeginningsKeep ==
    ASSUME RunnerInv, BeginPlain \/ BeginChild \/ BeginCall \/ EnterLease PROVE RunnerInv'
<1> USE DEF channelVars, loanVars, callVars, dirVars
<1>1. phase = "running" /\ ~doing => Head(plan) # "load"
  BY DEF RunnerInv, RunnerTypeOK, AtOnce
<1>2. KeyTypeOK
  BY DEF RunnerInv, RunnerTypeOK, TypeOK
<1>3. UNCHANGED <<row, saved, changes, fetch, lease, live, retired>> => KeyTypeOK'
  BY <1>2 DEF KeyTypeOK
<1>4. CASE BeginPlain
  BY <1>1, <1>3, <1>4, BeginKeeps DEF BeginPlain, Plainly, Children
<1>5. CASE BeginChild
  BY <1>1, <1>3, <1>5, BeginKeeps DEF BeginChild, Children
<1>6. CASE BeginCall
  BY <1>1, <1>3, <1>6, BeginKeeps DEF BeginCall, At, Children
<1>7. CASE EnterLease
  <2>1. KeyTypeOK' /\ fetch'.answer = "none" /\ UNCHANGED <<row, saved, changes, lease, live, retired>>
    <3>1. fetch' = [step |-> "sent", attempt |-> 1, answer |-> "none", cred |-> NoCred]
      BY <1>7 DEF EnterLease, AskKey, NoFetch
    <3>2. 1 \in 0..MaxAttempts
      BY KeyLoanAssumption
    <3>3. fetch' \in [step: {"none", "sent", "found", "answered"}, attempt: 0..MaxAttempts,
                      answer: Answers, cred: Credentials \cup {NoCred}]
      BY <3>1, <3>2 DEF Answers
    <3>4. UNCHANGED <<row, saved, changes, lease, live, retired>>
      BY <1>7 DEF EnterLease, AskKey
    <3>5. fetch'.answer = "none"
      BY <3>1
    <3> QED BY <1>2, <3>3, <3>4, <3>5 DEF KeyTypeOK
  <2> QED BY <1>1, <1>7, <2>1, BeginKeeps DEF EnterLease, At, Children
<1> QED BY <1>4, <1>5, <1>6, <1>7

LEMMA EndingsKeep ==
    ASSUME RunnerInv, StepEnds \/ ModelIsCached \/ ModelLoaded \/ StepFails \/ LeaseRefused \/ CallEnds \/ Abort
    PROVE  RunnerInv'
<1>1. cancel \in BOOLEAN /\ stray \subseteq {"load", "whisper"}
  BY DEF RunnerInv, RunnerTypeOK, TypeOK
<1>2. CASE StepEnds
  BY <1>2, GoesOnKeeps DEF StepEnds, Plainly, Children
<1>3. CASE ModelIsCached
  BY <1>3, GoesOnKeeps DEF ModelIsCached, At
<1>4. CASE ModelLoaded
  BY <1>4, GoesOnKeeps DEF ModelLoaded, Doing, At
<1>5. CASE StepFails
  BY <1>1, <1>5, LeaveKeeps DEF StepFails
<1>6. CASE LeaseRefused
  BY <1>1, <1>6, LeaveKeeps DEF LeaseRefused, Doing, At
<1>7. CASE CallEnds
  <2>1. phase = "running" /\ Head(plan) = "call"
    BY <1>7 DEF CallEnds, RunnerInv, CallIsGuarded, Doing, At
  <2>2. CASE GoesOn
    BY <1>7, <2>1, <2>2, GoesOnKeeps DEF CallEnds
  <2>3. CASE Leave
    BY <1>1, <1>7, <2>1, <2>3, LeaveKeeps DEF CallEnds
  <2> QED BY <1>7, <2>2, <2>3 DEF CallEnds
<1>8. CASE Abort
  BY <1>1, <1>8, LeaveKeeps DEF Abort
<1> QED BY <1>2, <1>3, <1>4, <1>5, <1>6, <1>7, <1>8

(* The key comes: it is held if there is something to send, and retired at once if not. *)
LEMMA LeaseGivenKeeps ==
    ASSUME RunnerInv, LeaseGiven PROVE RunnerInv'
<1> USE DEF RunnerInv, RunnerTypeOK
<1>1. /\ phase = "running" /\ Head(plan) = "lease" /\ plan' = Tail(plan) /\ doing' = FALSE /\ fetch' = NoFetch
      /\ fetch.answer = "key"
      /\ UNCHANGED <<row, saved, changes, dns, call, sent, n, work, phase, cancel, late, whisper, stray, dirs, beating, cleaner>>
  BY DEF LeaseGiven, Doing, At, ReadKey, ReadUnusedKey, channelVars, callVars, dirVars
<1>2. /\ PlanIsSound(Tail(plan)) /\ Head(Tail(plan)) = plan[2] /\ plan[2] \notin {"fit", "load"}
  BY <1>1, TailIsSound DEF Follows
<1>3. lease = NoCred /\ live = {} /\ fetch.cred \in Credentials
  BY <1>1 DEF KeyIsHeldInCalls, InBlock, SecretsAreCensored
<1>4. Values(fetch.cred) \subseteq Secrets /\ fetch.cred # NoCred
  BY <1>3, ValuesAreSecrets
<1>7. KeyTypeOK' /\ SecretsAreCensored' /\ KeyIsHeldInCalls'
  <2>5. CASE plan[2] = "call"
    <3>1. lease' = fetch.cred /\ live' = Values(fetch.cred) /\ retired' = retired
      BY <1>3, <2>5 DEF LeaseGiven, ReadKey
    <3>2. KeyTypeOK'
      BY <1>1, <1>3, <1>4, <3>1, NoFetchIsTyped DEF TypeOK, KeyTypeOK
    <3>3. SecretsAreCensored'
      BY <1>4, <3>1 DEF SecretsAreCensored, Censored
    <3>4. KeyIsHeldInCalls'
      BY <1>1, <1>2, <1>4, <2>5, <3>1 DEF KeyIsHeldInCalls, InBlock, NoFetch
    <3> QED BY <3>2, <3>3, <3>4
  <2>6. CASE plan[2] # "call"
    <3>1. lease' = NoCred /\ live' = {} /\ retired' = RetiredAll(retired, fetch.cred)
      BY <1>3, <2>6 DEF LeaseGiven, ReadUnusedKey
    <3>2. retired' \in Seq(Secrets) /\ Len(retired') <= RetiredKeep
      BY <1>3, <3>1, RetiredAllIsTyped DEF TypeOK, KeyTypeOK
    <3>3. KeyTypeOK'
      BY <1>1, <3>1, <3>2, NoFetchIsTyped DEF TypeOK, KeyTypeOK
    <3>4. SecretsAreCensored'
      BY <3>1 DEF SecretsAreCensored
    <3>5. KeyIsHeldInCalls'
      BY <1>1, <1>2, <2>6, <3>1 DEF KeyIsHeldInCalls, InBlock, NoFetch
    <3> QED BY <3>3, <3>4, <3>5
  <2> QED BY <2>5, <2>6
<1>8. call.step = "none"
  BY <1>1 DEF CallIsGuarded, Doing, At
<1>9. RunnerTypeOK'
  BY <1>1, <1>2, <1>7, ZenonT(30) DEF TypeOK, CallTypeOK, AtOnce
<1>10. CallIsGuarded'
  BY <1>1, <1>8 DEF CallIsGuarded
<1>11. KeyGoesWhereItMay(work.kind)'
  BY <1>1 DEF KeyGoesWhereItMay, Allowed
<1>12. late = 0
  BY <1>1 DEF CostIsBounded, Unchecked
<1>13. CostIsBounded'
  BY <1>1, <1>12 DEF CostIsBounded
<1>14. DirIsSafe'
  BY <1>1 DEF DirIsSafe
<1>15. WhisperIsReleasedFirst'
  BY <1>1 DEF WhisperIsReleasedFirst
<1> QED BY <1>7, <1>9, <1>10, <1>11, <1>13, <1>14, <1>15

(* What happens around the runner: it goes on with what it was doing. *)
LEMMA AroundKeeps ==
    ASSUME RunnerInv, KeyTypeOK', SecretsAreCensored', dns' \in Resolutions,
           UNCHANGED <<lease, call, sent, n, work, phase, plan, doing, late>>, stray' \subseteq {"load", "whisper"},
           fetch'.step # "none" => fetch.step # "none", fetch'.answer = "key" => fetch'.cred \in Credentials,
           cancel' \in BOOLEAN, cancel => cancel', whisper' \in {whisper, "stray"},
           DirIsSafe', dirs' \subseteq Job, beating' \subseteq Job,
           cleaner' \in [step: {"off", "listed", "asked"}, listed: SUBSET Job, alive: SUBSET Job, starts: Nat]
    PROVE  RunnerInv'
<1> USE DEF RunnerInv, RunnerTypeOK
<1>1. CallTypeOK'
  BY DEF TypeOK, CallTypeOK
<1>2. cleaner'.step \in {"off", "listed", "asked"} /\ cleaner'.listed \cup cleaner'.alive \subseteq Job
  OBVIOUS
<1>3. TypeOK'
  BY <1>1, <1>2 DEF TypeOK
<1>4. RunnerTypeOK'
  BY <1>3
<1>5. KeyIsHeldInCalls'
  BY DEF KeyIsHeldInCalls, Doing, At
<1>6. CallIsGuarded'
  BY DEF CallIsGuarded, Doing, At, Target, Allowed
<1>7. KeyGoesWhereItMay(work.kind)'
  BY DEF KeyGoesWhereItMay, Allowed
<1>8. CostIsBounded'
  BY DEF CostIsBounded, TypeOK
<1>9. WhisperIsReleasedFirst'
  BY DEF WhisperIsReleasedFirst
<1> QED BY <1>4, <1>5, <1>6, <1>7, <1>8, <1>9

LEMMA FetchingKeeps ==
    ASSUME RunnerInv, Fetching PROVE RunnerInv'
<1> USE DEF channelVars, loanVars, callVars, jobVars, dirVars
<1>1. /\ UNCHANGED <<row, saved, changes, lease, live, retired, dns, call, sent, n, work, phase, plan, doing, cancel,
                     late, whisper, stray, dirs, beating, cleaner>>
      /\ fetch.step # "none"
  BY DEF Fetching, Doing, Handle, Reveal, ChannelFails, AskAgain, Answered
<1>2. KeyTypeOK /\ SecretsAreCensored
  BY DEF RunnerInv, RunnerTypeOK, TypeOK
<1> DEFINE Typed(f) == /\ f \in [step: {"none", "sent", "found", "answered"}, attempt: 0..MaxAttempts,
                                    answer: Answers, cred: Credentials \cup {NoCred}]
                       /\ f.answer = "key" => f.cred \in Credentials
<1>3. ASSUME NEW f, f = fetch' PROVE Typed(f)
  <2> USE DEF Answers
  <2>1. /\ fetch \in [step: {"none", "sent", "found", "answered"}, attempt: 0..MaxAttempts,
                      answer: Answers, cred: Credentials \cup {NoCred}]
        /\ saved \in Credentials \cup {NoCred}
        /\ fetch.answer = "key" => fetch.cred \in Credentials
    BY <1>2 DEF KeyTypeOK, RunnerInv, KeyIsHeldInCalls
  <2>2. ASSUME NEW a \in Answers \ {"key"}, Answered(a, NoCred) PROVE Typed(f)
    BY <1>3, <2>1, <2>2 DEF Answered
  <2>3. CASE Handle(n)
    <3>1. CASE fetch' = [fetch EXCEPT !.step = "found"]
      BY <1>3, <2>1, <3>1
    <3> QED BY <2>2, <2>3, <3>1 DEF Handle
  <2>4. CASE Reveal
    <3>1. CASE saved # NoCred /\ Answered("key", saved)
      BY <1>3, <2>1, <3>1 DEF Answered
    <3> QED BY <2>2, <2>4, <3>1 DEF Reveal
  <2>5. CASE ChannelFails
    BY <2>2, <2>5 DEF ChannelFails
  <2>6. CASE AskAgain
    <3>1. fetch.attempt + 1 \in 0..MaxAttempts
      BY <2>1, <2>6, KeyLoanAssumption DEF AskAgain
    <3>2. fetch' = [step |-> "sent", attempt |-> fetch.attempt + 1, answer |-> "none", cred |-> NoCred]
      BY <2>6 DEF AskAgain, NoFetch
    <3> QED BY <1>3, <3>1, <3>2
  <2> QED BY <2>3, <2>4, <2>5, <2>6 DEF Fetching
<1>4. KeyTypeOK' /\ SecretsAreCensored' /\ (fetch'.answer = "key" => fetch'.cred \in Credentials)
  <2>1. Typed(fetch')
    BY <1>3
  <2> QED BY <1>1, <1>2, <2>1 DEF KeyTypeOK, SecretsAreCensored, Censored
<1>5. dns \in Resolutions /\ cancel \in BOOLEAN /\ stray \subseteq {"load", "whisper"} /\ dirs \subseteq Job /\ beating \subseteq Job
      /\ cleaner \in [step: {"off", "listed", "asked"}, listed: SUBSET Job, alive: SUBSET Job, starts: Nat]
  BY DEF RunnerInv, RunnerTypeOK, TypeOK, CallTypeOK
<1>6. DirIsSafe'
  BY <1>1 DEF RunnerInv, DirIsSafe
<1> QED BY <1>1, <1>4, <1>5, <1>6, AroundKeeps

(* A request goes out only over the connection that the guard let open. *)
LEMMA CallingKeeps ==
    ASSUME RunnerInv, Calling PROVE RunnerInv'
<1> USE DEF RunnerInv, RunnerTypeOK, loanVars, channelVars, jobVars, dirVars
<1> DEFINE CallType == [step: CallSteps, attempt: 0..MaxRetries, format: BOOLEAN, address: Classes \cup {"none", "fixed"}]
           T == Target(work.kind)
           Guarded(c) == /\ c \in CallType
                         /\ c.step = "connect" => /\ c.address \in Classes \cup {"fixed"}
                                                  /\ T # NoUrl => Allowed(T, {c.address})
<1>1. /\ UNCHANGED <<row, saved, changes, fetch, lease, live, retired, dns, n, work, phase, plan, doing, cancel,
                     late, whisper, stray, dirs, beating, cleaner>>
      /\ call.step # "none"
  BY DEF Calling, CallStep, Resolve, Connect, ProviderFails, ProviderRefuses, ProviderAnswers
<1>2. Doing("call") /\ phase = "running" /\ Head(plan) = "call"
  BY <1>1 DEF CallIsGuarded, Doing, At
<1>3. lease \in Credentials
  BY <1>2 DEF KeyIsHeldInCalls, InBlock, TypeOK, KeyTypeOK
<1>4. /\ lease = [key |-> lease.key, url |-> lease.url] /\ lease.key \in Secrets
      /\ T \in Secrets \cup {NoUrl} /\ (work.kind = "translate" => T = lease.url)
  BY <1>3, ValuesAreSecrets DEF Target
<1>5. dns \subseteq Classes /\ call \in CallType
  BY ProviderAssumption DEF TypeOK, CallTypeOK
<1>6. Guarded(call')
  <2>1. ASSUME NEW a \in Classes \cup {"fixed"}, T # NoUrl => Allowed(T, {a}), call.step = "resolve",
               call' = [call EXCEPT !.step = "connect", !.address = a]
        PROVE  Guarded(call')
    BY <1>5, <2>1 DEF CallSteps
  <2>2. ASSUME NEW s \in {"wait", "ok", "failed"}, call' = [call EXCEPT !.step = s] PROVE Guarded(call')
    BY <1>5, <2>2 DEF CallSteps
  <2>3. CASE Resolve(work.kind)
    <3>1. CASE T = NoUrl
      BY <2>1, <2>2, <2>3, <3>1 DEF Resolve
    <3>2. CASE T # NoUrl /\ Allowed(T, dns)
      <4>1. PICK a \in dns : call' = [call EXCEPT !.step = "connect", !.address = a]
        BY <2>3, <3>2 DEF Resolve
      <4>2. Allowed(T, {a})
        BY <3>2, <4>1 DEF Allowed
      <4> QED BY <1>5, <2>1, <2>3, <4>1, <4>2 DEF Resolve
    <3>3. CASE T # NoUrl /\ ~Allowed(T, dns)
      BY <2>2, <2>3, <3>3 DEF Resolve
    <3> QED BY <3>1, <3>2, <3>3
  <2>4. CASE Connect(work.kind)
    BY <2>2, <2>4 DEF Connect
  <2>5. CASE ProviderFails
    <3>1. CASE call.attempt < MaxRetries /\ call' = [call EXCEPT !.step = "resolve", !.attempt = @ + 1]
      <4>1. call.attempt + 1 \in 0..MaxRetries /\ "resolve" \in CallSteps
        BY <1>5, <3>1, ProviderAssumption DEF CallSteps
      <4>2. call' = [call EXCEPT !.step = "resolve", !.attempt = call.attempt + 1]
        BY <3>1
      <4> QED BY <1>5, <4>1, <4>2
    <3> QED BY <2>2, <2>5, <3>1 DEF ProviderFails
  <2>6. CASE ProviderRefuses(work.kind)
    <3>1. CASE call' = [NoCall EXCEPT !.step = "resolve", !.format = FALSE]
      <4>1. "resolve" \in CallSteps /\ NoCall \in CallType
        BY NoCallIsTyped DEF CallSteps
      <4> QED BY <3>1, <4>1
    <3> QED BY <2>2, <2>6, <3>1 DEF ProviderRefuses
  <2>7. CASE ProviderAnswers
    BY <2>2, <2>7 DEF ProviderAnswers
  <2> QED BY <2>3, <2>4, <2>5, <2>6, <2>7 DEF Calling, CallStep
<1>7. \/ sent' = sent
      \/ /\ call.step = "connect"
         /\ sent' = [key |-> lease.key, url |-> T, address |-> call.address]
  BY DEF Calling, CallStep, Resolve, Connect, ProviderFails, ProviderRefuses, ProviderAnswers
<1>8. CallTypeOK' /\ KeyGoesWhereItMay(work.kind)'
  <2>1. CASE sent' = sent
    BY <1>1, <1>6, <2>1 DEF TypeOK, CallTypeOK, KeyGoesWhereItMay, Allowed
  <2>2. CASE call.step = "connect" /\ sent' = [key |-> lease.key, url |-> T, address |-> call.address]
    <3>1. call.address \in Classes \cup {"fixed"} /\ (T # NoUrl => Allowed(T, {call.address}))
      BY <2>2 DEF CallIsGuarded
    <3>2. sent' \in [key: Secrets, url: Secrets \cup {NoUrl}, address: Classes \cup {"fixed"}]
      BY <1>4, <2>2, <3>1
    <3>3. CallTypeOK'
      BY <1>1, <1>6, <3>2 DEF TypeOK, CallTypeOK
    <3>4. sent'.url = T /\ sent'.address = call.address /\ sent'.key = lease.key
      BY <2>2
    <3>5. work.kind = "translate" => [key |-> sent'.key, url |-> sent'.url] \in Credentials
      BY <1>3, <1>4, <3>4
    <3> HIDE DEF T
    <3>6. KeyGoesWhereItMay(work.kind)'
      BY <1>1, <3>1, <3>4, <3>5 DEF KeyGoesWhereItMay, Allowed
    <3> QED BY <3>3, <3>6
  <2> QED BY <1>7, <2>1, <2>2
<1>9. KeyTypeOK' /\ SecretsAreCensored'
  BY <1>1 DEF TypeOK, KeyTypeOK, SecretsAreCensored, Censored
<1>10. RunnerTypeOK'
  BY <1>1, <1>8, <1>9 DEF TypeOK
<1>11. KeyIsHeldInCalls'
  BY <1>1 DEF KeyIsHeldInCalls, Doing, At
<1>12. CallIsGuarded'
  BY <1>1, <1>2, <1>6 DEF CallIsGuarded, Doing, At, Target, Allowed
<1>13. CostIsBounded' /\ DirIsSafe' /\ WhisperIsReleasedFirst'
  BY <1>1 DEF CostIsBounded, DirIsSafe, WhisperIsReleasedFirst
<1> QED BY <1>8, <1>9, <1>10, <1>11, <1>12, <1>13

(* Whoever closes a row, saves a key, moves a name or cleans the volume. *)
LEMMA OthersKeep ==
    ASSUME RunnerInv,
           \/ SeesClosed \/ (\E s \in stray : StrayEnds(s)) \/ (\E j \in Job : RowCloses(j) \/ BeatGetsOld(j))
           \/ Clean \/ (OwnerChangesKey /\ UNCHANGED <<dns, callVars, jobVars, dirVars>>)
           \/ (NameMoves /\ UNCHANGED <<jobVars, dirVars>>)
    PROVE  RunnerInv'
<1> USE DEF channelVars, loanVars, callVars, jobVars, dirVars
<1>1. /\ KeyTypeOK /\ SecretsAreCensored /\ TypeOK /\ DirIsSafe
      /\ fetch.answer = "key" => fetch.cred \in Credentials
      /\ dns \in Resolutions /\ cancel \in BOOLEAN /\ stray \subseteq {"load", "whisper"}
      /\ dirs \subseteq Job /\ beating \subseteq Job
      /\ cleaner \in [step: {"off", "listed", "asked"}, listed: SUBSET Job, alive: SUBSET Job, starts: Nat]
      /\ phase # "idle" => n \in Job
      /\ phase = "running" /\ row[n] = "RUNNING" => n \in dirs
  BY DEF RunnerInv, RunnerTypeOK, TypeOK, CallTypeOK, KeyIsHeldInCalls, DirIsSafe
<1>2. UNCHANGED <<row, saved, changes, fetch, lease, live, retired>> => KeyTypeOK' /\ SecretsAreCensored'
  BY <1>1 DEF KeyTypeOK, SecretsAreCensored, Censored
<1>3. UNCHANGED <<row, n, phase, dirs, beating, cleaner>> => DirIsSafe'
  BY <1>1 DEF DirIsSafe
<1>4. CASE SeesClosed
  BY <1>1, <1>2, <1>3, <1>4, AroundKeeps DEF SeesClosed
<1>5. ASSUME NEW s \in stray, StrayEnds(s) PROVE RunnerInv'
  <2>1. stray' \subseteq {"load", "whisper"} /\ whisper' \in {whisper, "stray"}
    BY <1>1, <1>5 DEF StrayEnds, TypeOK
  <2> QED BY <1>1, <1>2, <1>3, <1>5, <2>1, AroundKeeps DEF StrayEnds
<1>6. ASSUME NEW j \in Job, RowCloses(j) PROVE RunnerInv'
  <2>1. row' = [row EXCEPT ![j] = "closed"] /\ KeyTypeOK' /\ SecretsAreCensored'
    BY <1>1, <1>6 DEF RowCloses, KeyTypeOK, SecretsAreCensored, Censored
  <2>2. DirIsSafe'
    BY <1>1, <1>6, <2>1 DEF RowCloses, DirIsSafe, KeyTypeOK
  <2> QED BY <1>1, <1>6, <2>1, <2>2, AroundKeeps DEF RowCloses
<1>7. ASSUME NEW j \in Job, BeatGetsOld(j) PROVE RunnerInv'
  <2>1. DirIsSafe'
    BY <1>1, <1>7 DEF BeatGetsOld, DirIsSafe
  <2> QED BY <1>1, <1>2, <1>7, <2>1, AroundKeeps DEF BeatGetsOld
<1>8. CASE Clean
  <2>1. UNCHANGED <<row, saved, changes, fetch, lease, live, retired, dns, call, sent, n, work, phase, plan, doing,
                    cancel, late, whisper, stray, beating>>
    BY <1>8 DEF Clean, ListWork, AskAlive, RemoveStale
  <2>2. CASE ListWork
    <3>1. cleaner' = [cleaner EXCEPT !.step = "listed", !.listed = dirs, !.starts = cleaner.starts + 1] /\ dirs' = dirs
      BY <2>2 DEF ListWork
    <3>2. /\ cleaner' \in [step: {"off", "listed", "asked"}, listed: SUBSET Job, alive: SUBSET Job, starts: Nat]
          /\ cleaner'.listed = dirs /\ cleaner'.step = "listed"
      <4>1. cleaner.starts + 1 \in Nat /\ dirs \in SUBSET Job
        BY <1>1
      <4> QED BY <1>1, <3>1, <4>1
    <3>3. DirIsSafe'
      BY <1>1, <2>1, <3>1, <3>2 DEF DirIsSafe
    <3> QED BY <1>1, <1>2, <2>1, <3>1, <3>2, <3>3, AroundKeeps
  <2>3. CASE AskAlive
    <3>1. /\ cleaner' = [cleaner EXCEPT !.step = "asked",
                             !.alive = {j \in cleaner.listed : row[j] = "RUNNING" /\ j \in beating}]
          /\ dirs' = dirs
      BY <2>3 DEF AskAlive
    <3>2. /\ cleaner' \in [step: {"off", "listed", "asked"}, listed: SUBSET Job, alive: SUBSET Job, starts: Nat]
          /\ cleaner'.listed = cleaner.listed
          /\ cleaner'.alive = {j \in cleaner.listed : row[j] = "RUNNING" /\ j \in beating}
      <4>1. {j \in cleaner.listed : row[j] = "RUNNING" /\ j \in beating} \subseteq Job
        BY <1>1
      <4> DEFINE A == {j \in cleaner.listed : row[j] = "RUNNING" /\ j \in beating}
      <4>2. cleaner' = [cleaner EXCEPT !.step = "asked", !.alive = A]
        BY <3>1
      <4>3. A \in SUBSET Job
        BY <4>1
      <4> HIDE DEF A
      <4>4. cleaner' \in [step: {"off", "listed", "asked"}, listed: SUBSET Job, alive: SUBSET Job, starts: Nat]
        BY <1>1, <4>2, <4>3
      <4>5. cleaner'.listed = cleaner.listed /\ cleaner'.alive = A
        BY <1>1, <4>2
      <4> QED BY <4>4, <4>5 DEF A
    <3>3. DirIsSafe'
      BY <1>1, <2>1, <3>1, <3>2 DEF DirIsSafe
    <3> QED BY <1>1, <1>2, <2>1, <3>1, <3>2, <3>3, AroundKeeps
  <2>4. CASE RemoveStale
    <3>1. /\ cleaner.step = "asked" /\ dirs' = dirs \ (cleaner.listed \ cleaner.alive)
          /\ cleaner' = [step |-> "off", listed |-> {}, alive |-> {}, starts |-> cleaner.starts]
      BY <2>4 DEF RemoveStale, CleanerOff
    <3>2. cleaner' \in [step: {"off", "listed", "asked"}, listed: SUBSET Job, alive: SUBSET Job, starts: Nat]
      BY <1>1, <3>1
    <3>3. DirIsSafe'
      BY <1>1, <2>1, <3>1 DEF DirIsSafe
    <3> QED BY <1>1, <1>2, <2>1, <3>1, <3>2, <3>3, AroundKeeps
  <2> QED BY <1>8, <2>2, <2>3, <2>4 DEF Clean
<1>9. CASE OwnerChangesKey /\ UNCHANGED <<dns, callVars, jobVars, dirVars>>
  <2>1. saved' \in Credentials \cup {NoCred} /\ changes' \in 0..MaxChanges /\ UNCHANGED <<row, fetch, lease, live, retired>>
    BY <1>1, <1>9, KeyLoanAssumption DEF OwnerChangesKey, Delete, Put, KeyTypeOK
  <2>2. KeyTypeOK' /\ SecretsAreCensored'
    BY <1>1, <2>1 DEF KeyTypeOK, SecretsAreCensored, Censored
  <2> QED BY <1>1, <1>3, <1>9, <2>1, <2>2, AroundKeeps
<1>10. CASE NameMoves /\ UNCHANGED <<jobVars, dirVars>>
  BY <1>1, <1>2, <1>3, <1>10, AroundKeeps DEF NameMoves
<1> QED BY <1>4, <1>5, <1>6, <1>7, <1>8, <1>9, <1>10

LEMMA FinishKeeps ==
    ASSUME RunnerInv, Finish PROVE RunnerInv'
<1> USE DEF RunnerInv, RunnerTypeOK
<1>1. /\ phase = "over" /\ phase' = "idle" /\ work' = Idle /\ cancel' = FALSE /\ late' = 0
      /\ row' = [row EXCEPT ![n] = "closed"]
      /\ UNCHANGED <<saved, changes, fetch, lease, live, retired, dns, call, sent, n, plan, doing, whisper, stray,
                     dirs, beating, cleaner>>
  BY DEF Finish, channelVars, loanVars, callVars, dirVars
<1>2. KeyTypeOK' /\ SecretsAreCensored'
  BY <1>1 DEF TypeOK, KeyTypeOK, SecretsAreCensored, Censored
<1>3. CallTypeOK'
  BY <1>1 DEF TypeOK, CallTypeOK
<1>4. RunnerTypeOK'
  BY <1>1, <1>2, <1>3 DEF TypeOK
<1>5. KeyIsHeldInCalls'
  BY <1>1 DEF KeyIsHeldInCalls, Doing, At
<1>6. CallIsGuarded' /\ sent' = NoRequest
  BY <1>1 DEF CallIsGuarded, Doing, At
<1>7. KeyGoesWhereItMay(work.kind)'
  BY <1>6 DEF KeyGoesWhereItMay
<1>8. CostIsBounded' /\ DirIsSafe' /\ WhisperIsReleasedFirst'
  BY <1>1 DEF CostIsBounded, DirIsSafe, WhisperIsReleasedFirst
<1> QED BY <1>2, <1>4, <1>5, <1>6, <1>7, <1>8

LEMMA CrashKeeps ==
    ASSUME RunnerInv, Crash PROVE RunnerInv'
<1> USE DEF RunnerInv, RunnerTypeOK
<1>1. /\ phase' = "idle" /\ work' = Idle /\ plan' = <<>> /\ doing' = FALSE /\ cancel' = FALSE /\ late' = 0
      /\ fetch' = NoFetch /\ lease' = NoCred /\ live' = {} /\ retired' = <<>>
      /\ call' = NoCall /\ sent' = NoRequest /\ whisper' = "none" /\ stray' = {}
      /\ UNCHANGED <<row, saved, changes, dns, n, dirs, beating, cleaner>>
  BY DEF Crash, channelVars, dirVars
<1>2. KeyTypeOK' /\ SecretsAreCensored'
  <2>1. retired' \in Seq(Secrets) /\ Len(retired') <= RetiredKeep
    BY <1>1, KeyLoanAssumption
  <2> QED BY <1>1, <2>1, NoFetchIsTyped DEF TypeOK, KeyTypeOK, SecretsAreCensored
<1>3. CallTypeOK'
  BY <1>1, NoCallIsTyped DEF TypeOK, CallTypeOK
<1>4. RunnerTypeOK'
  BY <1>1, <1>2, <1>3 DEF TypeOK
<1>5. KeyIsHeldInCalls'
  BY <1>1 DEF KeyIsHeldInCalls, NoFetch
<1>6. CallIsGuarded'
  BY <1>1, NoCallIsTyped DEF CallIsGuarded
<1>7. KeyGoesWhereItMay(work.kind)'
  BY <1>1 DEF KeyGoesWhereItMay
<1>8. CostIsBounded' /\ DirIsSafe' /\ WhisperIsReleasedFirst'
  BY <1>1 DEF CostIsBounded, DirIsSafe, WhisperIsReleasedFirst
<1> QED BY <1>2, <1>4, <1>5, <1>6, <1>7, <1>8

LEMMA StutterKeeps ==
    ASSUME RunnerInv, UNCHANGED vars PROVE RunnerInv'
<1> USE DEF RunnerInv, RunnerTypeOK, vars, channelVars, loanVars, callVars, jobVars, dirVars
<1>1. KeyTypeOK' /\ CallTypeOK' /\ SecretsAreCensored'
  BY DEF TypeOK, KeyTypeOK, CallTypeOK, SecretsAreCensored, Censored
<1>2. RunnerTypeOK'
  BY <1>1 DEF TypeOK
<1>3. KeyIsHeldInCalls' /\ CallIsGuarded' /\ KeyGoesWhereItMay(work.kind)'
  BY DEF KeyIsHeldInCalls, CallIsGuarded, KeyGoesWhereItMay, Allowed, Target, Doing, At
<1>4. CostIsBounded' /\ DirIsSafe' /\ WhisperIsReleasedFirst'
  BY DEF CostIsBounded, DirIsSafe, WhisperIsReleasedFirst
<1> QED BY <1>1, <1>2, <1>3, <1>4

LEMMA InitIsSafe == Init => RunnerInv
<1> SUFFICES ASSUME Init PROVE RunnerInv
  OBVIOUS
<1>1. KeyTypeOK /\ SecretsAreCensored
  <2>1. <<>> \in Seq(Secrets) /\ Len(<<>>) <= RetiredKeep /\ 0 \in 0..MaxChanges
    BY KeyLoanAssumption
  <2> QED BY <2>1, NoFetchIsTyped DEF Init, KeyInit, KeyTypeOK, SecretsAreCensored
<1>2. CallTypeOK
  BY NoCallIsTyped DEF Init, CallInit, CallTypeOK
<1>3. TypeOK /\ RunnerTypeOK
  <2>1. 0 \in 0..MaxJobs
    BY KeyLoanAssumption
  <2>2. cleaner \in [step: {"off", "listed", "asked"}, listed: SUBSET Job, alive: SUBSET Job, starts: Nat]
    BY DEF Init, CleanerOff
  <2> QED BY <1>1, <1>2, <2>1, <2>2 DEF Init, TypeOK, RunnerTypeOK
<1>4. KeyIsHeldInCalls /\ CallIsGuarded /\ KeyGoesWhereItMay(work.kind)
  BY NoCallIsTyped DEF Init, KeyInit, CallInit, KeyIsHeldInCalls, CallIsGuarded, KeyGoesWhereItMay, NoFetch
<1>5. CostIsBounded /\ DirIsSafe /\ WhisperIsReleasedFirst
  BY DEF Init, CostIsBounded, DirIsSafe, WhisperIsReleasedFirst, CleanerOff
<1> QED BY <1>1, <1>3, <1>4, <1>5 DEF RunnerInv

-----------------------------------------------------------------------------
(* Every step of the worker, its owner and the volume keeps what the       *)
(* invariant says of plans, keys, calls, costs and directories.            *)
THEOREM RunnerIsSafe == Spec => []RunnerInv
<1>1. RunnerInv /\ [Next]_vars => RunnerInv'
  <2> SUFFICES ASSUME RunnerInv, [Next]_vars PROVE RunnerInv'
    OBVIOUS
  <2>1. CASE RunnerStep
    BY <2>1, TakeKeeps, RunKeeps, FinishKeeps, BeginningsKeep, EndingsKeep, LeaseGivenKeeps, FetchingKeeps,
       CallingKeeps DEF RunnerStep
  <2>2. CASE SeesClosed \/ Abort \/ Crash
    BY <2>2, OthersKeep, EndingsKeep, CrashKeeps
  <2>3. CASE UNCHANGED vars
    BY <2>3, StutterKeeps
  <2> QED BY <2>1, <2>2, <2>3, OthersKeep DEF Next
<1> QED BY <1>1, InitIsSafe, PTL DEF Spec

(* What a worker knows of a key is censored from the moment it has come,   *)
(* and a translation sends it only to the base URL it was saved with, at   *)
(* an address the guard allows, however the key and the name change        *)
(* meanwhile (external_key.py, redaction.py, provider_http.py,             *)
(* pinned_transport.py).                                                   *)
THEOREM KeysStayGuarded == Spec => []KeysAreGuarded
<1>1. RunnerInv => KeysAreGuarded
  BY DEF RunnerInv, RunnerTypeOK, KeysAreGuarded
<1> QED BY <1>1, RunnerIsSafe, PTL

(* A key is in the memory of a worker exactly while the calls of a job are *)
(* made, with what is done between two of them: it does not outlive them,  *)
(* however the job ends (external_key.py:186-210, adapters.py:234-260).    *)
THEOREM KeysAreHeldForCalls == Spec => []KeyIsHeldInCalls
<1>1. RunnerInv => KeyIsHeldInCalls
  BY DEF RunnerInv
<1> QED BY <1>1, RunnerIsSafe, PTL

(* With the event set, at most one more costly step begins, whatever the   *)
(* kind of the job and the number of its texts (translate.py:90-101,       *)
(* dub.py:148-160, transcribe.py:123-184).                                 *)
THEOREM OneStepAfterCancel == Spec => []StopsAfterOneStep
<1>1. RunnerInv => StopsAfterOneStep
  BY DEF RunnerInv, CostIsBounded, StopsAfterOneStep
<1> QED BY <1>1, RunnerIsSafe, PTL

(* However often workers start on the same volume, the directory of a job  *)
(* that is running stays (workdir.py:19-39).                               *)
THEOREM LiveWorkStays == Spec => []LiveWorkIsKept
<1>1. RunnerInv => LiveWorkIsKept
  BY DEF RunnerInv, DirIsSafe, LiveWorkIsKept
<1> QED BY <1>1, RunnerIsSafe, PTL

(* No child that needs the GPU begins beside the Whisper that the runner   *)
(* itself holds; of a thread left behind by an aborted job it says nothing *)
(* (transcribe.py:123-126, 149-154).                                       *)
THEOREM WhisperGoesFirst == Spec => []WhisperIsReleasedFirst
<1>1. RunnerInv => WhisperIsReleasedFirst
  BY DEF RunnerInv
<1> QED BY <1>1, RunnerIsSafe, PTL

(* The files of a running job stay, and its children begin without the     *)
(* Whisper of their runner (workdir.py:19-39, transcribe.py:149-154).      *)
THEOREM JobsStayApart == Spec => []JobsDoNotCollide
<1>1. LiveWorkIsKept /\ WhisperIsReleasedFirst => JobsDoNotCollide
  BY DEF JobsDoNotCollide
<1> QED BY <1>1, LiveWorkStays, WhisperGoesFirst, PTL
=============================================================================
