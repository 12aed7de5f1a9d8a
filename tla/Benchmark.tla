------------------------------ MODULE Benchmark ------------------------------
(***************************************************************************)
(* maintenance/benchmark.py: the weighted 95th percentile of scan latency  *)
(* over the canonical query suite.  The same number labels the training    *)
(* data and is what the regression guard compares.                         *)
(***************************************************************************)
EXTENDS TableStats

Query(selectivity, is_time_range, weight) ==
    [selectivity |-> selectivity, is_time_range |-> is_time_range,
     weight |-> weight]

\* Selectivities in percent.
DEFAULT_SUITE == <<Query(2, TRUE, 5), Query(5, TRUE, 3), Query(30, TRUE, 2),
                   Query(90, FALSE, 1)>>

Repeats == 20

\* What the suite measures: the latency of each query, with its weight.
Timing(table, q) ==
    [latency |-> Scan(table, q.selectivity, q.is_time_range), weight |-> q.weight]

Timings(table) ==
    <<Timing(table, DEFAULT_SUITE[1]), Timing(table, DEFAULT_SUITE[2]),
      Timing(table, DEFAULT_SUITE[3]), Timing(table, DEFAULT_SUITE[4])>>

\* How many of the samples do not exceed bound: a query of weight w is run
\* w * Repeats times.
SamplesUpTo(timings, bound) ==
    Repeats * SumOf([i \in DOMAIN timings |->
                      IF timings[i].latency <= bound THEN timings[i].weight ELSE 0])

SampleCount(timings) ==
    Repeats * SumOf([i \in DOMAIN timings |-> timings[i].weight])

\* The k-th smallest sample, k counted from 0: the least latency that more
\* than k of the samples do not exceed.
Sample(timings, k) ==
    Min({t.latency : t \in {u \in ToSet(timings) : SamplesUpTo(timings, u.latency) > k}})

\* Mutant of Percentile95: the 90th percentile.
Percentile90(timings) == 20 * Sample(timings, (18 * (SampleCount(timings) - 1)) \div 20)

\* numpy's percentile(samples, 95): linear interpolation at rank 0.95 (n - 1),
\* scaled by 20 so that it stays an integer.  The unit is 0.000025 ms.
Percentile95(timings) ==
    LET n    == SampleCount(timings)
        rank == (19 * (n - 1)) \div 20
        frac == (19 * (n - 1)) % 20
        low  == Sample(timings, rank)
        high == Sample(timings, rank + 1)
    IN  (20 - frac) * low + frac * high

\* The set of one value makes TLC measure the timings once.
MeasureP95Latency(table) ==
    CHOOSE p95 \in {Percentile95(timings) : timings \in {Timings(table)}} : TRUE
=============================================================================
