------------------------------- MODULE Quality -------------------------------
(***************************************************************************)
(* The quality of subtitles: what does not comply with a profile           *)
(* (quality/verifier.ts) and the repair that is proposed for it            *)
(* (quality/fixer.ts).  Both are pure.  A subtitle has a text, a start     *)
(* and an end, as in SegmentEdits; a profile is a record of its limits.    *)
(***************************************************************************)
EXTENDS SegmentEdits

(* quality/profiles.ts, with durations and gaps in milliseconds, rounded   *)
(* up as an integral duration is compared with them.                       *)
Netflix == [maxChars |-> 42, maxCps |-> 20, margin |-> 3, minDuration |-> 834, maxDuration |-> 7000, minGap |-> 83]
NetflixEs == [Netflix EXCEPT !.maxCps = 17]
Bbc == [maxChars |-> 37, maxCps |-> 18, margin |-> 3, minDuration |-> 1000, maxDuration |-> 7000, minGap |-> 80]
Accessible == [maxChars |-> 32, maxCps |-> 14, margin |-> 3, minDuration |-> 1334, maxDuration |-> 6000, minGap |-> 100]
Shorts == [maxChars |-> 32, maxCps |-> 17, margin |-> 4, minDuration |-> 1000, maxDuration |-> 6000, minGap |-> 67]
Profiles == {Netflix, NetflixEs, Bbc, Accessible, Shorts}

(* The same in every profile. *)
MaxLines == 2
-----------------------------------------------------------------------------
(* The total of some counts: one <<n, k>> for each k of 1 .. counts[n]. *)
Sum(counts) == Cardinality(UNION {{n} \X (1 .. counts[n]) : n \in DOMAIN counts})

(* visibleLength: its words and the blanks between the first and the last. *)
Visible(line) ==
    LET said == {w \in DOMAIN line : line[w] > 0}
    IN IF said = {} THEN 0 ELSE Sum(line) + Most(said) - Least(said)

Characters(text) == Sum([n \in DOMAIN text |-> Visible(text[n])])

(* An issue, if there is one. *)
One(condition) == IF condition THEN 1 ELSE 0

Timed(s) == s.start < s.end
FasterThan(s, cps) == 1000 * Characters(s.text) > cps * (s.end - s.start)
LongLines(s, p) == {n \in DOMAIN s.text : Visible(s.text[n]) > p.maxChars}
Gap(segments, i) == segments[i].start - segments[i - 1].end

(* The issues of one subtitle: invalid_timing, cps, lines, cpl and overlap. *)
ErrorsOf(segments, i, p) ==
    LET s == segments[i]
    IN Cardinality(LongLines(s, p))
        + One(~Timed(s))
        + One(Timed(s) /\ FasterThan(s, p.maxCps + p.margin))
        + One(Len(s.text) > MaxLines)
        + One(i > 1 /\ Gap(segments, i) < 0)

(* cps, duration_min, duration_max and gap_min.  "balance" is only an information. *)
WarningsOf(segments, i, p) ==
    LET s == segments[i]
    IN One(Timed(s) /\ FasterThan(s, p.maxCps) /\ ~FasterThan(s, p.maxCps + p.margin))
        + One(Timed(s) /\ s.end - s.start < p.minDuration)
        + One(s.end - s.start > p.maxDuration)
        + One(i > 1 /\ Gap(segments, i) \in 0 .. p.minGap - 1)

(* checkQuality: the counts of its summary. *)
CheckQuality(segments, p) ==
    [errors |-> Sum([i \in DOMAIN segments |-> ErrorsOf(segments, i, p)]),
     warnings |-> Sum([i \in DOMAIN segments |-> WarningsOf(segments, i, p)])]
-----------------------------------------------------------------------------
(* A subtitle and its neighbours: the rules look no further. *)
WindowCost(segments, i, p) ==
    CheckQuality(SubSeq(segments, Most({1, i - 1}), Least({Len(segments), i + 1})), p)

(* Mutant: only the weight counts, so an error may buy warnings off. *)
ImprovesMutant(before, after) == after.errors + after.warnings <= before.errors + before.warnings

Improves(before, after) ==
    /\ after.errors <= before.errors
    /\ after.errors + after.warnings <= before.errors + before.warnings
    /\ 3 * after.errors + after.warnings < 3 * before.errors + before.warnings

(* tryReplace *)
Try(work, i, candidate, p) ==
    LET changed == [work EXCEPT ![i] = candidate]
    IN IF Improves(WindowCost(work, i, p), WindowCost(changed, i, p)) THEN changed ELSE work

(* layoutLines: one line if it fits; else the two that fit with the least  *)
(* sum of squares, the first of those cuts; else none.                     *)
Layouts(words, p) ==
    LET two(c) == <<SubSeq(words, 1, c), SubSeq(words, c + 1, Len(words))>>
        fits == {c \in 1 .. Len(words) - 1 : \A n \in 1 .. 2 : Visible(two(c)[n]) <= p.maxChars}
        squares(c) == Visible(two(c)[1]) * Visible(two(c)[1]) + Visible(two(c)[2]) * Visible(two(c)[2])
        best == {c \in fits : \A d \in fits : squares(c) <= squares(d)}
    IN IF Visible(words) <= p.maxChars THEN {<<words>>}
       ELSE IF fits = {} THEN {} ELSE {two(Least(best))}

(* lineBreakCandidate and step a. *)
BreakLines(work, i, p) ==
    LET s == work[i]
        laidOut == Layouts(FlattenSeq(s.text), p)
    IN IF (Len(s.text) > MaxLines \/ LongLines(s, p) # {}) /\ laidOut \notin {{}, {s.text}}
       THEN Try(work, i, [s EXCEPT !.text = CHOOSE text \in laidOut : TRUE], p)
       ELSE work

(* Step b: the end of the previous one gives way. *)
TrimPrevious(work, i, p) ==
    LET newEnd == work[i].start - p.minGap
    IN IF i > 1 /\ Timed(work[i - 1]) /\ Gap(work, i) < p.minGap /\ newEnd > work[i - 1].start + 1
       THEN Try(work, i - 1, [work[i - 1] EXCEPT !.end = newEnd], p)
       ELSE work

(* Step c: the end is stretched into the room there is. *)
Stretch(work, i, p) ==
    LET s == work[i]
        needed == Most({(1000 * Characters(s.text) + p.maxCps - 1) \div p.maxCps + 1, p.minDuration})
        room == IF i < Len(work) THEN {work[i + 1].start - p.minGap} ELSE {}
        target == Least({s.start + needed, s.start + p.maxDuration} \cup room)
    IN IF target > s.end THEN Try(work, i, [s EXCEPT !.end = target], p) ELSE work

FixOne(work, i, p) ==
    IF Timed(work[i]) THEN Stretch(TrimPrevious(BreakLines(work, i, p), i, p), i, p) ELSE work

(* One after the other: what the first n have become. *)
ProposeFix(segments, p) ==
    LET work[n \in 0 .. Len(segments)] == IF n = 0 THEN segments ELSE FixOne(work[n - 1], n, p)
    IN work[Len(segments)]

(* quality.service.ts: the edits that make the repair, as PUT /segments takes them. *)
Differences(segments, fixed) ==
    LET differs(i) == {f \in {"text", "end"} : fixed[i][f] # segments[i][f]}
    IN [i \in {j \in DOMAIN segments : differs(j) # {}} |-> [f \in differs(i) |-> fixed[i][f]]]

FixEdits(segments, p) == Differences(segments, ProposeFix(segments, p))
=============================================================================
