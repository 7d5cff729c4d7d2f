---------------------------- MODULE Percentiles ----------------------------
(***************************************************************************)
(* The percentiles of the durations in the analytics summary: nearest rank   *)
(* over the sorted durations.                                                *)
(*                                                                           *)
(* Source: render_storage/summary.rs.                                        *)
(***************************************************************************)
EXTENDS Inquiry

CONSTANT MaxLatencies \* bound: latencies of one percentile

ASSUME MaxLatenciesAssumption == MaxLatencies \in Nat

Below(ms, v) == {i \in DOMAIN ms : ms[i] < v}
NotAbove(ms, v) == {i \in DOMAIN ms : ms[i] <= v}

\* sort_unstable: in the n-th place is the value that has fewer than n values below
\* it, and n at least that are not above it.
Sorted(ms) ==
    [n \in 1..Len(ms) |->
        CHOOSE v \in {ms[i] : i \in DOMAIN ms} :
            Cardinality(Below(ms, v)) < n /\ n <= Cardinality(NotAbove(ms, v))]

PercentileTruncated(sorted, p) == \* mutant
    IF sorted = <<>> THEN 0 ELSE sorted[1 + ((Len(sorted) - 1) * p) \div 100]
\* percentile, with p in percent: the index is rounded half up.
Percentile(sorted, p) ==
    IF sorted = <<>> THEN 0 ELSE sorted[1 + ((Len(sorted) - 1) * p * 2 + 100) \div 200]

LatencyQuestions == [kind : {"latencies"}, ms : UpTo(1..3, MaxLatencies)]

AnswerLatencies ==
    /\ question.kind = "latencies"
    /\ Answer("latencies", [p \in {90, 95, 99} |-> Percentile(Sorted(question.ms), p)])

-----------------------------------------------------------------------------
\* A percentile is one of the latencies it is taken from, a higher percentile is
\* never lower (the bands of the latency chart cannot have a negative height), and
\* at most (100 - p) percent of the latencies, rounded, lie above the p-th.
PercentilesAreRanks ==
    Replied("latencies") /\ question.ms # <<>> =>
        /\ \A p \in {90, 95, 99} :
            /\ \E i \in DOMAIN question.ms : question.ms[i] = answer[p]
            /\ 200 * Cardinality({i \in DOMAIN question.ms : question.ms[i] > answer[p]})
                 <= 2 * (100 - p) * Len(question.ms) + 100
        /\ answer[90] <= answer[95] /\ answer[95] <= answer[99]
=============================================================================
