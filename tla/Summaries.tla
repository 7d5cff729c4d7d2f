----------------------------- MODULE Summaries -----------------------------
(***************************************************************************)
(* The read model of the analytics: the worker folds the raw records into a *)
(* summary, the servers answer queries from it, and the dashboard draws it.  *)
(*                                                                           *)
(* Times are naturals, DayLength to a day, and Now the time of aggregation.  *)
(* Templates and tags are naturals, for their alphabetical order. The mean   *)
(* duration of a day and the colours and labels of the charts are left out.  *)
(*                                                                           *)
(* Sources: render_storage/summary.rs, render_storage/s3_buffered.rs,        *)
(* render_storage/types.rs, routes/ui/charts.rs.                             *)
(***************************************************************************)
EXTENDS Percentiles

CONSTANT RecentN  \* length of the lists of recent renders

ASSUME RecentNAssumption == RecentN \in Nat

DayLength == 2
Now == 3
Day(time) == time \div DayLength

Outcomes == {[success |-> FALSE, ms |-> 0], [success |-> TRUE, ms |-> 99], [success |-> TRUE, ms |-> 100]}
Records == [id : {"r", "s"}, at : 0..Now, outcome : Outcomes, template : 1..2, tag : 1..2]

-----------------------------------------------------------------------------
(* Aggregation                                                               *)

EveryRecord(log) == \* mutant
    {log[i] : i \in DOMAIN log}
\* compute_summary: one record per render id, the first of the newest.
LatestRecords(log) ==
    {log[i] : i \in {i \in DOMAIN log :
        \A j \in DOMAIN log :
            log[j].id = log[i].id => \/ log[j].at < log[i].at
                                     \/ log[j].at = log[i].at /\ j >= i}}

Succeeded(S) == {r \in S : r.outcome.success}
Failed(S) == S \ Succeeded(S)
OfDay(S, day) == {r \in S : Day(r.at) = day}
OfTemplate(S, template) == {r \in S : r.template = template}

\* The records newest first; renders of the same time in any order.
NewestFirst(S) ==
    {order \in [1..Cardinality(S) -> S] :
        /\ \A r \in S : \E i \in DOMAIN order : order[i] = r /\ \A j \in DOMAIN order : order[j] = r => j = i
        /\ \A i, j \in DOMAIN order : i < j => order[i].at >= order[j].at}

\* Those of S, in the order of all.
Chosen(order, S) ==
    LET places == Ascending({i \in DOMAIN order : order[i] \in S})
    IN [n \in DOMAIN places |-> order[places[n]]]

FirstOf(sequence, n) == SubSeq(sequence, 1, AtMost(n, Len(sequence)))

\* The durations of the successful renders of S, sorted.
Latencies(order, S) ==
    LET good == Chosen(order, Succeeded(S))
    IN Sorted([i \in DOMAIN good |-> good[i].outcome.ms])

Volume(S) ==
    [day \in {Day(r.at) : r \in S} |->
        [renders  |-> Cardinality(OfDay(S, day)), failures |-> Cardinality(Failed(OfDay(S, day)))]]

Duration(order, S) ==
    [day \in {Day(r.at) : r \in Succeeded(S)} |->
        LET ms == Latencies(order, OfDay(S, day))
        IN [p90 |-> Percentile(ms, 90), p95 |-> Percentile(ms, 95), p99 |-> Percentile(ms, 99)]]

Edges == <<100, 250, 500, 1000, 2000>>
\* The bucket of a duration is the first whose edge is above it.
Bucket(ms) == Cardinality({i \in DOMAIN Edges : ms >= Edges[i]}) + 1
Histogram(S) ==
    [b \in 1..Len(Edges) + 1 |-> Cardinality({r \in Succeeded(S) : Bucket(r.outcome.ms) = b})]

\* Rows ordered by count, highest first, and by name: in the n-th place is the row
\* that n rows do not come after.
ComesBefore(a, b) == a.renders > b.renders \/ (a.renders = b.renders /\ a.name < b.name)
Ranked(rows) ==
    [n \in 1..Cardinality(rows) |->
        CHOOSE row \in rows : Cardinality({other \in rows : ~ComesBefore(row, other)}) = n]

Tags(S) ==
    Ranked({[name |-> tag, renders |-> Cardinality({r \in S : r.tag = tag})] : tag \in {r.tag : r \in S}})

TemplateTable(order, S) ==
    Ranked({[name |-> t, renders |-> Cardinality(OfTemplate(S, t)), tags |-> Tags(OfTemplate(S, t)),
             recent |-> FirstOf(Chosen(order, OfTemplate(S, t)), RecentN)] : t \in {r.template : r \in S}})

\* The last 24 hours.
Totals(order, S) ==
    LET window == {r \in S : r.at >= Now - DayLength}
    IN [renders |-> Cardinality(window), successes |-> Cardinality(Succeeded(window)),
        p90 |-> Percentile(Latencies(order, window), 90)]

Summary(log, order) ==
    LET S == LatestRecords(log)
    IN [volume |-> Volume(S), duration |-> Duration(order, S), histogram |-> Histogram(S),
        templates |-> TemplateTable(order, S), recent |-> FirstOf(order, RecentN),
        totals |-> Totals(order, S)]

-----------------------------------------------------------------------------
(* Queries                                                                   *)

RecentRenders(summary, limit) == FirstOf(summary.recent, limit)

TemplateRenders(summary, template, limit) ==
    LET rows == Ascending({i \in DOMAIN summary.templates : summary.templates[i].name = template})
    IN IF rows = <<>> THEN <<>> ELSE FirstOf(summary.templates[rows[1]].recent, limit)

TotalPerTemplate(summary) ==
    [i \in DOMAIN summary.templates |->
        [name |-> summary.templates[i].name, renders |-> summary.templates[i].renders]]

\* render_volume_over_time, and average_duration_over_time on the other table.
Since(table, days) == [day \in {d \in DOMAIN table : d >= Day(Now) - days} |-> table[day]]

-----------------------------------------------------------------------------
(* Charts                                                                    *)

\* max().unwrap_or(0)
Highest(values) == CHOOSE v \in values \cup {0} : \A w \in values : w <= v

\* volume_bars and outcome_bars: a bar per day, in percent of the highest; nothing
\* is drawn without a render.
OutcomeBars(volume) ==
    LET max == Highest({volume[day].renders : day \in DOMAIN volume})
    IN IF max = 0 THEN <<>>
       ELSE [day \in DOMAIN volume |->
               [ok |-> volume[day].renders - volume[day].failures, failed |-> volume[day].failures,
                height |-> (100 * volume[day].renders) \div max]]

\* latency_trend: the bands of a day's bar, clamped.
LatencyBands(duration) ==
    [day \in DOMAIN duration |->
        LET p90 == duration[day].p90
            p95 == AtLeast(duration[day].p95, p90)
            p99 == AtLeast(duration[day].p99, p95)
        IN <<p90, p95 - p90, p99 - p95>>]

\* latency_histogram: the buckets that are drawn, with their counts.
HistogramBar(histogram) == [b \in {b \in DOMAIN histogram : histogram[b] > 0} |-> histogram[b]]

\* donut: the templates below 5 percent are one slice, named 0.
Donut(rows) ==
    LET total == Total([i \in DOMAIN rows |-> rows[i].renders])
        kept == {i \in DOMAIN rows : 20 * rows[i].renders >= total}
        other == total - Total([i \in kept |-> rows[i].renders])
        slices == {[name |-> rows[i].name, renders |-> rows[i].renders] : i \in kept}
    IN IF total = 0 THEN {}
       ELSE slices \cup (IF other > 0 THEN {[name |-> 0, renders |-> other]} ELSE {})

Dashboard(summary) ==
    [outcomes |-> OutcomeBars(summary.volume), bands |-> LatencyBands(summary.duration),
     histogram |-> HistogramBar(summary.histogram), donut |-> Donut(summary.templates),
     recent |-> summary.recent]

-----------------------------------------------------------------------------
(* The questions: logs of two records, and of three of one template; the      *)
(* renders of up to three templates; and those of Percentiles.                *)

OneTemplate == {r \in Records : r.template = 1 /\ r.tag = 1}
Logs == UpTo(Records, 2) \cup [1..3 -> OneTemplate]
Shares == [1..3 -> {1, 19, 20}]

SummaryQuestions ==
    [kind : {"log"}, log : Logs] \cup [kind : {"shares"}, shares : Shares] \cup LatencyQuestions

AnswerLog ==
    /\ question.kind = "log"
    /\ \E order \in NewestFirst(LatestRecords(question.log)) :
        LET summary == Summary(question.log, order)
        IN Answer("log", [summary |-> summary, dashboard |-> Dashboard(summary)])

AnswerShares ==
    /\ question.kind = "shares"
    /\ Answer("shares", Donut([i \in 1..3 |-> [name |-> i, renders |-> question.shares[i]]]))

SummaryNext == AnswerLog \/ AnswerShares \/ AnswerLatencies

-----------------------------------------------------------------------------
Ids(log) == {log[i].id : i \in DOMAIN log}
\* No render is listed twice, or before one of S that is newer.
KeepsNewest(list, S) ==
    \A i \in DOMAIN list :
        /\ \A r \in S : r.at > list[i].at => \E j \in 1..i : list[j].id = r.id
        /\ \A j \in DOMAIN list : list[i].id = list[j].id => i = j
Renders(table) == Total([x \in DOMAIN table |-> table[x].renders])
Slices(donut) == Total([slice \in donut |-> slice.renders])

\* What a summary of the log and its charts promise.
CountsOnce(log, summary, charts) ==
    LET renders == Cardinality(Ids(log))
        bars == charts.outcomes
    IN /\ Renders(summary.volume) = renders
       /\ Renders(TotalPerTemplate(summary)) = renders
       /\ \A i \in DOMAIN summary.templates :
            LET row == summary.templates[i]
            IN /\ Renders(row.tags) = row.renders
               /\ KeepsNewest(TemplateRenders(summary, row.name, RecentN),
                              OfTemplate(LatestRecords(log), row.name))
       /\ Slices(charts.donut) = renders
       /\ Total(charts.histogram) = Total([d \in DOMAIN bars |-> bars[d].ok])
       /\ \A d \in DOMAIN bars : bars[d].ok >= 0 /\ bars[d].height \in 0..100
       /\ summary.totals.renders <= Renders(Since(summary.volume, 1))
       /\ KeepsNewest(RecentRenders(summary, RecentN), {log[k] : k \in DOMAIN log})

\* However often a render is recorded (a repeated request, a resumed batch, a
\* flush written twice), every table of the summary and every chart drawn from it
\* counts it once, and the lists keep the newest.
EachRenderCountsOnce ==
    /\ Replied("log") => CountsOnce(question.log, answer.summary, answer.dashboard)
    /\ Replied("shares") => Slices(answer) = Total(question.shares)
=============================================================================
