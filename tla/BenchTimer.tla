----------------------------- MODULE BenchTimer -----------------------------
(***************************************************************************)
(* time_batches and summarize: a function is called in batches, a clock of *)
(* limited resolution is read before and after each, and the time per call *)
(* of the batches is summed up in a mean, a maximum and percentiles.       *)
(*                                                                         *)
(* Times are whole numbers: the time of a batch stands for that time       *)
(* divided by iterations_per_batch, a percentile for 100 times its value,  *)
(* a mean for its value times the number of batches.  The rounding of      *)
(* doubles is left out.                                                    *)
(***************************************************************************)
EXTENDS Integers, Sequences, FiniteSets, SequencesExt, Ordering

CONSTANTS
  Batches, Iterations, Warmups,  \* the sizes a benchmark asks for
  CallTimes,                     \* how long a call, or what lies between two, takes
  Resolution                     \* of the clock

ASSUME SizeAssumption ==
  /\ Batches \subseteq Nat /\ Iterations \subseteq Nat /\ Warmups \subseteq Nat
  /\ CallTimes \subseteq Nat /\ Resolution \in Nat \ {0}

VARIABLES
  size,     \* batches, iterations_per_batch and warmup_iterations
  pc,       \* what time_batches is about to do
  i,        \* calls made in this batch, or to warm up
  now,      \* the time
  t0,       \* the clock at the start of the batch
  local,    \* accepting calls of the batch
  sink,     \* verification_sink
  series,   \* the times of the batches, per_op_ns
  history   \* when the batch started and how long the earlier ones really took; of the
            \* calls: how many, the accepting ones, and the longest one in a batch

vars == <<size, pc, i, now, t0, local, sink, series, history>>

-----------------------------------------------------------------------------
(* stats.cpp *)

rank(n, p) == p * (n - 1)

\* Mutant: the values are taken as they were measured.
percentile_unsorted(s, p) ==
  LET lo == rank(Len(s), p) \div 100
      frac == rank(Len(s), p) % 100
      hi == IF frac = 0 THEN lo ELSE lo + 1
  IN  IF Len(s) = 1 THEN 100 * s[1] ELSE s[lo + 1] * (100 - frac) + s[hi + 1] * frac

\* Between the two neighbours of the rank, in proportion; 100 times the value.
percentile(values, p) ==
  LET order == ascending(values)
      s    == [j \in DOMAIN values |-> values[order[j]]]
      lo   == rank(Len(values), p) \div 100
      frac == rank(Len(values), p) % 100
      hi   == IF frac = 0 THEN lo ELSE lo + 1
  IN  IF Len(values) = 1 THEN 100 * s[1] ELSE s[lo + 1] * (100 - frac) + s[hi + 1] * frac

Sum(values) == FoldLeft(+, 0, values)
max_ns(values) == CHOOSE v \in Range(values) : \A w \in Range(values) : w <= v

\* Nothing is available of an empty series; nothing is divided by a mean of 0.
summarize(values) ==
  IF values = <<>> THEN [available |-> FALSE]
  ELSE [available |-> TRUE, samples |-> Len(values), mean |-> Sum(values),
        median |-> percentile(values, 50), p95 |-> percentile(values, 95),
        p99 |-> percentile(values, 99), max |-> max_ns(values),
        ops_per_sec |-> IF Sum(values) > 0 THEN <<Len(values), Sum(values)>> ELSE <<0, 1>>]

-----------------------------------------------------------------------------
(* bench_timer.cpp *)

Init ==
  /\ size \in [batches : Batches, iterations : Iterations, warmup : Warmups]
  /\ pc = "check"
  /\ i = 0 /\ now = 0 /\ t0 = 0
  /\ local = 0 /\ sink = 0
  /\ series = <<>>
  /\ history = [start |-> 0, took |-> <<>>, calls |-> 0, accepted |-> 0, longest |-> 0]

clock == (now \div Resolution) * Resolution

\* No iterations: std::invalid_argument.
CheckIterations ==
  /\ pc = "check"
  /\ pc' = IF size.iterations = 0 THEN "thrown" ELSE "warmup"
  /\ UNCHANGED <<size, i, now, t0, local, sink, series, history>>

Called(accepts, time, timed) ==
  /\ i' = i + 1
  /\ now' = now + time
  /\ history' = [history EXCEPT !.calls = @ + 1, !.accepted = @ + accepts,
                   !.longest = IF timed /\ time > @ THEN time ELSE @]

WarmUp ==
  /\ pc = "warmup" /\ i < size.warmup
  /\ \E accepts \in {0, 1}, time \in CallTimes :
       Called(accepts, time, FALSE) /\ sink' = sink + accepts
  /\ UNCHANGED <<size, pc, t0, local, series>>

BetweenBatches == (pc = "warmup" /\ i = size.warmup) \/ pc = "stored"

\* Before the clock is read some time goes by.
StartBatch ==
  /\ BetweenBatches
  /\ Len(series) < size.batches
  /\ now' \in {now + time : time \in CallTimes}
  /\ t0' = (now' \div Resolution) * Resolution
  /\ history' = [history EXCEPT !.start = now']
  /\ pc' = "batch" /\ i' = 0 /\ local' = 0
  /\ UNCHANGED <<size, sink, series>>

Call ==
  /\ pc = "batch" /\ i < size.iterations
  /\ \E accepts \in {0, 1}, time \in CallTimes :
       Called(accepts, time, TRUE) /\ local' = local + accepts
  /\ UNCHANGED <<size, pc, t0, sink, series>>

\* Mutant: the clock is read before the first batch only.
StopBatchTotal ==
  /\ pc = "batch" /\ i = size.iterations
  /\ sink' = sink + local
  /\ series' = Append(series, IF series = <<>> THEN clock - t0 ELSE clock)
  /\ history' = [history EXCEPT !.took = Append(@, now - history.start)]
  /\ pc' = "stored"
  /\ UNCHANGED <<size, i, now, t0, local>>

StopBatch ==
  /\ pc = "batch" /\ i = size.iterations
  /\ sink' = sink + local
  /\ series' = Append(series, clock - t0)
  /\ history' = [history EXCEPT !.took = Append(@, now - history.start)]
  /\ pc' = "stored"
  /\ UNCHANGED <<size, i, now, t0, local>>

Return ==
  /\ BetweenBatches
  /\ Len(series) = size.batches
  /\ pc' = "returned"
  /\ UNCHANGED <<size, i, now, t0, local, sink, series, history>>

Next == CheckIterations \/ WarmUp \/ StartBatch \/ Call \/ StopBatch \/ Return

Spec == Init /\ [][Next]_vars

-----------------------------------------------------------------------------
Stats == summarize(series)

(* The clock does not go back, and no batch is timed without a call.       *)
TypeOK ==
  /\ pc \in {"check", "thrown", "warmup", "batch", "stored", "returned"}
  /\ size \in [batches : Nat, iterations : Nat, warmup : Nat]
  /\ i \in Nat /\ now \in Nat /\ t0 \in 0..now
  /\ local \in Nat /\ sink \in Nat
  /\ series \in Seq(Nat) /\ Len(series) \in 0..size.batches
  /\ history \in [start : Nat, took : Seq(Nat), calls : Nat, accepted : Nat, longest : Nat]
  /\ series # <<>> => size.iterations > 0

(* The statistics a report is read by are in order, whatever the batches:  *)
(* the percentiles rise up to the maximum, no more than half of the        *)
(* batches lie on either side of the median and one in a hundred, rounded  *)
(* up, beyond p99, and the mean is within the extremes.                    *)
StatsInOrder ==
  pc = "returned" /\ Stats.available =>
    LET n == Len(series)
        Slower(v) == {b \in 1..n : 100 * series[b] > v}
        Faster(v) == {b \in 1..n : 100 * series[b] < v}
    IN  /\ Stats.median <= Stats.p95 /\ Stats.p95 <= Stats.p99
        /\ Stats.p99 <= 100 * Stats.max /\ Stats.mean <= n * Stats.max
        /\ \E b \in 1..n : 100 * series[b] <= Stats.median /\ n * series[b] <= Stats.mean
        /\ 2 * Cardinality(Slower(Stats.median)) <= n
        /\ 2 * Cardinality(Faster(Stats.median)) <= n
        /\ 100 * Cardinality(Slower(Stats.p99)) <= n + 98

(* The only trace of a call that changed its verdict is the sink: it has   *)
(* counted every accepting call, of the warm-up too, when the series is    *)
(* returned.                                                               *)
SinkCounts ==
  pc = "returned" =>
    /\ history.calls = size.warmup + size.batches * size.iterations
    /\ sink = history.accepted

(* What is reported as time per call is time spent in calls: each batch is *)
(* right to the resolution of the clock, which the whole batch shares, and *)
(* no statistic exceeds the slowest call by more than that.                *)
TimedIsSpent ==
  /\ \A b \in DOMAIN series :
       /\ series[b] - history.took[b] < Resolution
       /\ history.took[b] - series[b] < Resolution
  /\ pc = "returned" /\ Stats.available =>
       /\ Stats.samples = size.batches
       /\ Stats.max < size.iterations * history.longest + Resolution

(* Every call is accounted for, by its time and by its verdict.            *)
CallsAccountedFor == SinkCounts /\ TimedIsSpent

=============================================================================
