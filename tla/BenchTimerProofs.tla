-------------------------- MODULE BenchTimerProofs ---------------------------
(***************************************************************************)
(* Theorems of BenchTimer for every number of batches and calls, all times *)
(* and every resolution of the clock: every call is accounted for by its   *)
(* verdict and, up to the resolution, by its time, and the statistics of   *)
(* any series are in order.                                                *)
(***************************************************************************)
EXTENDS BenchTimer, FiniteSetTheorems, WellFoundedInduction, TLAPS

(* The calls and accepting calls at each program point, and that there are *)
(* calls to be timed.                                                      *)
Counted ==
  LET c == history.calls  a == history.accepted  n == Len(series)
  IN  /\ pc = "check"    => i = 0 /\ c = 0 /\ a = sink /\ n = 0
      /\ pc = "warmup"   => i <= size.warmup /\ c = i /\ a = sink /\ n = 0
      /\ pc = "batch"    => /\ i <= size.iterations /\ n < size.batches
                            /\ c = size.warmup + n * size.iterations + i /\ a = sink + local
      /\ pc = "stored"   => c = size.warmup + n * size.iterations /\ a = sink
      /\ pc = "returned" => /\ n = size.batches /\ a = sink
                            /\ c = size.warmup + n * size.iterations
      /\ pc \notin {"check", "thrown"} => size.iterations > 0

(* A batch under way takes no longer than its calls, each at most the      *)
(* longest, and so do the batches behind it.                               *)
Timed ==
  /\ Len(history.took) = Len(series)
  /\ \A b \in 1..Len(series) :
       /\ series[b] - history.took[b] < Resolution
       /\ history.took[b] - series[b] < Resolution
       /\ history.took[b] <= size.iterations * history.longest
  /\ pc = "batch" =>
       /\ t0 = (history.start \div Resolution) * Resolution
       /\ history.start <= now /\ now - history.start <= i * history.longest

(* A series with a batch has a slowest one.                                *)
HasSlowest ==
  series # <<>> => \E b \in 1..Len(series) : \A c \in 1..Len(series) : series[c] <= series[b]

IInv == TypeOK /\ Counted /\ Timed /\ HasSlowest

-----------------------------------------------------------------------------
(* The clock lags behind the time by less than its resolution.             *)
LEMMA Lag ==
  ASSUME NEW t \in Nat
  PROVE  LET c == (t \div Resolution) * Resolution
         IN  c \in Nat /\ c <= t /\ t - c < Resolution
<1>1. Resolution \in Nat /\ Resolution > 0
  BY SizeAssumption
<1>. QED
  BY <1>1

(* What n + 1 calls may take when n may take n times the longest.          *)
LEMMA Products ==
  ASSUME NEW n \in Nat, NEW b \in Nat, NEW c \in Nat, b <= c
  PROVE  /\ n * b \in Nat /\ n * c \in Nat /\ n * b <= n * c
         /\ (n + 1) * c = n * c + c
OBVIOUS

(* A sequence with one more element at its end.                            *)
LEMMA Appended ==
  ASSUME NEW s \in Seq(Nat), NEW x \in Nat
  PROVE  /\ Append(s, x) \in Seq(Nat) /\ Len(Append(s, x)) = Len(s) + 1
         /\ Append(s, x)[Len(s) + 1] = x
         /\ \A b \in 1..Len(s) : Append(s, x)[b] = s[b]
OBVIOUS

(* Of a longer sequence the slowest is the one before, or the new one.     *)
LEMMA SlowestAppended ==
  ASSUME NEW s \in Seq(Nat), NEW x \in Nat,
         s # <<>> => \E b \in 1..Len(s) : \A c \in 1..Len(s) : s[c] <= s[b]
  PROVE  \E b \in 1..(Len(s) + 1) : \A c \in 1..(Len(s) + 1) : Append(s, x)[c] <= Append(s, x)[b]
<1>. DEFINE n == Len(s)  t == Append(s, x)
<1>1. /\ n \in Nat /\ t[n + 1] = x /\ \A b \in 1..n : t[b] = s[b] /\ s[b] \in Nat
      /\ s = <<>> <=> n = 0
  BY Appended
<1>2. \A c \in 1..(n + 1) : c \in 1..n \/ c = n + 1
  BY <1>1
<1>3. n + 1 \in 1..(n + 1) /\ 1..n \subseteq 1..(n + 1)
  BY <1>1
<1>. SUFFICES \E b \in 1..(n + 1) : \A c \in 1..(n + 1) : t[c] <= t[b]
  OBVIOUS
<1>. HIDE DEF t, n
<1>4. CASE \A c \in 1..n : t[c] <= x
  <2>1. \A c \in 1..(n + 1) : t[c] <= t[n + 1]
    BY <1>1, <1>2, <1>4
  <2>. QED
    BY <1>3, <2>1
<1>5. CASE \E a \in 1..n : ~(t[a] <= x)
  <2>1. PICK a \in 1..n : ~(t[a] <= x)
    BY <1>5
  <2>2. n # 0
    BY <1>1, <2>1
  <2>3. PICK b \in 1..n : \A c \in 1..n : s[c] <= s[b]
    BY <1>1, <2>2 DEF n
  <2>4. \A c \in 1..n : t[c] <= t[b]
    BY <1>1, <2>3
  <2>5. x <= t[b]
    <3>1. t[a] <= t[b] /\ t[a] \in Nat /\ t[b] \in Nat
      BY <1>1, <2>4
    <3>. QED
      BY <2>1, <3>1
  <2>6. \A c \in 1..(n + 1) : t[c] <= t[b]
    BY <1>1, <1>2, <2>4, <2>5
  <2>. QED
    BY <1>3, <2>6
<1>. QED
  BY <1>4, <1>5

(* A call adds itself to the history.                                      *)
LEMMA Call1 ==
  ASSUME TypeOK, NEW accepts \in {0, 1}, NEW time \in Nat, NEW timed \in BOOLEAN,
         Called(accepts, time, timed)
  PROVE  /\ i' = i + 1 /\ now' = now + time
         /\ history' \in [start : Nat, took : Seq(Nat), calls : Nat, accepted : Nat, longest : Nat]
         /\ history'.calls = history.calls + 1 /\ history'.accepted = history.accepted + accepts
         /\ history'.took = history.took /\ history'.start = history.start
         /\ history'.longest >= history.longest
         /\ timed => history'.longest >= time
<1>. DEFINE l == IF timed /\ time > history.longest THEN time ELSE history.longest
<1>1. history \in [start : Nat, took : Seq(Nat), calls : Nat, accepted : Nat, longest : Nat]
  BY DEF TypeOK
<1>2. l \in Nat /\ l >= history.longest /\ (timed => l >= time)
  BY <1>1
<1>3. history.calls + 1 \in Nat /\ history.accepted + accepts \in Nat
  BY <1>1
<1>4. history' = [history EXCEPT !.calls = @ + 1, !.accepted = @ + accepts, !.longest = l]
  BY DEF Called
<1>. HIDE DEF l
<1>. QED
  BY <1>1, <1>2, <1>3, <1>4 DEF Called

(* Nothing is called or timed yet.                                         *)
LEMMA Initially == Init => IInv
<1>. SUFFICES ASSUME Init PROVE IInv
  OBVIOUS
<1>1. size \in [batches : Nat, iterations : Nat, warmup : Nat]
  BY SizeAssumption DEF Init
<1>2. TypeOK
  BY <1>1 DEF Init, TypeOK
<1>. QED
  BY <1>2 DEF Init, IInv, Counted, Timed, HasSlowest

(* The check of the iterations counts no call.                             *)
LEMMA CheckStep == ASSUME IInv, CheckIterations PROVE IInv'
BY DEF IInv, TypeOK, Counted, Timed, HasSlowest, CheckIterations

(* A call to warm up is counted, and not timed.                            *)
LEMMA WarmUpStep == ASSUME IInv, WarmUp PROVE IInv'
<1>1. PICK accepts \in {0, 1}, time \in CallTimes :
        Called(accepts, time, FALSE) /\ sink' = sink + accepts
  BY DEF WarmUp
<1>2. time \in Nat /\ pc = "warmup" /\ i < size.warmup /\ UNCHANGED <<size, pc, t0, local, series>>
  BY <1>1, SizeAssumption DEF WarmUp
<1>3. /\ i' = i + 1 /\ now' = now + time
      /\ history' \in [start : Nat, took : Seq(Nat), calls : Nat, accepted : Nat, longest : Nat]
      /\ history'.calls = history.calls + 1 /\ history'.accepted = history.accepted + accepts
      /\ history'.took = history.took /\ history'.longest >= history.longest
  BY <1>1, <1>2, Call1 DEF IInv
<1>4. TypeOK'
  BY <1>1, <1>2, <1>3 DEF IInv, TypeOK
<1>5. Counted'
  BY <1>1, <1>2, <1>3 DEF IInv, TypeOK, Counted
<1>6. Timed' /\ HasSlowest'
  <2>1. Len(series) = 0 /\ series' = series /\ pc' = "warmup"
    BY <1>2 DEF IInv, Counted
  <2>. QED
    BY <1>3, <2>1 DEF IInv, Timed, HasSlowest
<1>. QED
  BY <1>4, <1>5, <1>6 DEF IInv

(* A batch starts with no call and no time spent.                          *)
LEMMA StartStep == ASSUME IInv, StartBatch PROVE IInv'
<1>1. PICK time \in CallTimes : now' = now + time
  BY DEF StartBatch
<1>2. /\ time \in Nat /\ pc \in {"warmup", "stored"} /\ pc' = "batch" /\ i' = 0 /\ local' = 0
      /\ pc = "warmup" => i = size.warmup
      /\ t0' = (now' \div Resolution) * Resolution
      /\ Len(series) < size.batches /\ UNCHANGED <<size, sink, series>>
  BY <1>1, SizeAssumption DEF StartBatch, BetweenBatches
<1>3. now' \in Nat
  BY <1>1, <1>2 DEF IInv, TypeOK
<1>4. /\ history' \in [start : Nat, took : Seq(Nat), calls : Nat, accepted : Nat, longest : Nat]
      /\ history'.calls = history.calls /\ history'.accepted = history.accepted
      /\ history'.took = history.took /\ history'.longest = history.longest
      /\ history'.start = now'
  BY <1>3 DEF StartBatch, IInv, TypeOK
<1>5. t0' \in 0..now'
  BY <1>2, <1>3, Lag
<1>6. TypeOK'
  BY <1>2, <1>3, <1>4, <1>5 DEF IInv, TypeOK
<1>7. Counted'
  <2>1. 0 * size.iterations = 0
    BY DEF IInv, TypeOK
  <2>. QED
    BY <1>2, <1>4, <2>1 DEF IInv, TypeOK, Counted
<1>8. Timed'
  <2>1. 0 * history'.longest = 0
    BY <1>4
  <2>. QED
    BY <1>2, <1>3, <1>4, <2>1 DEF IInv, Timed
<1>9. HasSlowest'
  BY <1>2 DEF IInv, HasSlowest
<1>. QED
  BY <1>6, <1>7, <1>8, <1>9 DEF IInv

(* A call adds at most the longest time to its batch.                      *)
LEMMA CallStep == ASSUME IInv, Call PROVE IInv'
<1>1. PICK accepts \in {0, 1}, time \in CallTimes :
        Called(accepts, time, TRUE) /\ local' = local + accepts
  BY DEF Call
<1>2. /\ time \in Nat /\ pc = "batch" /\ i < size.iterations
      /\ UNCHANGED <<size, pc, t0, sink, series>>
  BY <1>1, SizeAssumption DEF Call
<1>3. /\ i' = i + 1 /\ now' = now + time
      /\ history' \in [start : Nat, took : Seq(Nat), calls : Nat, accepted : Nat, longest : Nat]
      /\ history'.calls = history.calls + 1 /\ history'.accepted = history.accepted + accepts
      /\ history'.took = history.took /\ history'.start = history.start
      /\ history'.longest >= history.longest /\ history'.longest >= time
  BY <1>1, <1>2, Call1 DEF IInv
<1>4. TypeOK'
  BY <1>1, <1>2, <1>3 DEF IInv, TypeOK
<1>5. Counted'
  <2>. DEFINE done == Len(series) * size.iterations
  <2>1. /\ done \in Nat /\ local \in Nat /\ sink \in Nat /\ i \in Nat /\ size.warmup \in Nat
        /\ size.iterations \in Nat /\ accepts \in Nat
    BY DEF IInv, TypeOK
  <2>2. /\ history.calls = size.warmup + done + i /\ history.accepted = sink + local
        /\ Len(series) < size.batches /\ size.iterations > 0
    BY <1>2 DEF IInv, Counted
  <2>3. local' = local + accepts
    BY <1>1
  <2>. HIDE DEF done
  <2>4. /\ history'.calls = size.warmup + done + i'
        /\ history'.accepted = sink + local' /\ i' <= size.iterations
    <3>1. /\ history'.calls = history.calls + 1 /\ history'.accepted = history.accepted + accepts
          /\ i' = i + 1 /\ i < size.iterations
      BY <1>2, <1>3
    <3>. QED
      BY <2>1, <2>2, <2>3, <3>1
  <2>. QED
    BY <1>2, <2>2, <2>4 DEF Counted, done
<1>6. Timed'
  <2>. DEFINE l == history.longest  m == history'.longest
  <2>1. l \in Nat /\ m \in Nat /\ i \in Nat /\ size.iterations \in Nat
    BY <1>3 DEF IInv, TypeOK
  <2>2. size.iterations * l <= size.iterations * m
    BY <1>3, <2>1, Products
  <2>3. i * l <= i * m /\ (i + 1) * m = i * m + m
    BY <1>3, <2>1, Products
  <2>. DEFINE il == i * l  im == i * m  nl == size.iterations * l  nm == size.iterations * m
  <2>4. il \in Nat /\ im \in Nat /\ nl \in Nat /\ nm \in Nat
    BY <2>1
  <2>5. /\ history.start <= now /\ now - history.start <= il
        /\ \A b \in 1..Len(series) : history.took[b] <= nl
        /\ il <= im /\ nl <= nm /\ i' * m = im + m
        /\ t0 = (history.start \div Resolution) * Resolution
        /\ Len(history.took) = Len(series)
        /\ \A b \in 1..Len(series) :
             /\ series[b] - history.took[b] < Resolution
             /\ history.took[b] - series[b] < Resolution
    BY <1>2, <1>3, <2>2, <2>3 DEF IInv, Timed
  <2>6. now \in Nat /\ history.start \in Nat /\ history.took \in Seq(Nat)
    BY DEF IInv, TypeOK
  <2>. HIDE DEF l, il, im, nl, nm
  <2>7. history.start <= now' /\ now' - history.start <= im + m
    BY <1>2, <1>3, <2>1, <2>4, <2>5, <2>6 DEF m
  <2>8. \A b \in 1..Len(series) : history.took[b] <= nm
    BY <2>4, <2>5, <2>6
  <2>. QED
    BY <1>2, <1>3, <2>5, <2>7, <2>8 DEF Timed, m, nm
<1>7. HasSlowest'
  BY <1>2 DEF IInv, HasSlowest
<1>. QED
  BY <1>4, <1>5, <1>6, <1>7 DEF IInv

(* The time of a batch is what it took, to the resolution of the clock.    *)
LEMMA StopStep == ASSUME IInv, StopBatch PROVE IInv'
<1>. DEFINE n == Len(series)  spent == clock - t0  really == now - history.start
<1>1. /\ pc = "batch" /\ i = size.iterations /\ pc' = "stored" /\ sink' = sink + local
      /\ series' = Append(series, spent) /\ UNCHANGED <<size, i, now, t0, local>>
      /\ history' = [history EXCEPT !.took = Append(@, really)]
  BY DEF StopBatch
<1>2. /\ now \in Nat /\ history.start \in Nat /\ history.start <= now /\ n \in Nat
      /\ Resolution \in Nat
  BY <1>1, SizeAssumption DEF IInv, TypeOK, Timed
<1>3. /\ clock \in Nat /\ clock <= now /\ now - clock < Resolution
      /\ t0 \in Nat /\ t0 <= history.start /\ history.start - t0 < Resolution
  BY <1>1, <1>2, Lag DEF IInv, Timed, clock
<1>4. t0 <= clock
  <2>. DEFINE a == history.start \div Resolution  b == now \div Resolution
  <2>1. a \in Nat /\ b \in Nat /\ a <= b
    BY <1>2, SizeAssumption
  <2>2. Resolution * a <= Resolution * b /\ Resolution * a = a * Resolution
        /\ Resolution * b = b * Resolution
    BY <1>2, <2>1, Products
  <2>. QED
    BY <1>1, <2>2 DEF IInv, Timed, clock
<1>. HIDE DEF spent, really
<1>5. /\ spent \in Nat /\ really \in Nat
      /\ spent - really < Resolution /\ really - spent < Resolution
  BY <1>2, <1>3, <1>4 DEF spent, really
<1>6. /\ history' \in [start : Nat, took : Seq(Nat), calls : Nat, accepted : Nat, longest : Nat]
      /\ history'.calls = history.calls /\ history'.accepted = history.accepted
      /\ history'.longest = history.longest /\ history'.took = Append(history.took, really)
  <2>. DEFINE took == Append(history.took, really)
  <2>1. history \in [start : Nat, took : Seq(Nat), calls : Nat, accepted : Nat, longest : Nat]
    BY DEF IInv, TypeOK
  <2>2. took \in Seq(Nat)
    BY <1>5, <2>1, Appended
  <2>3. history' = [history EXCEPT !.took = took]
    BY <1>1
  <2>. HIDE DEF took
  <2>4. /\ history' \in [start : Nat, took : Seq(Nat), calls : Nat, accepted : Nat, longest : Nat]
        /\ history'.calls = history.calls /\ history'.accepted = history.accepted
        /\ history'.longest = history.longest /\ history'.took = took
    BY <2>1, <2>2, <2>3
  <2>. QED
    BY <2>4 DEF took
<1>7. /\ series' \in Seq(Nat) /\ Len(series') = n + 1
      /\ n + 1 <= size.batches /\ size.batches \in Nat
      /\ \A b \in 1..n : series'[b] = series[b]
      /\ series'[n + 1] = spent
  <2>1. series \in Seq(Nat) /\ size.batches \in Nat
    BY DEF IInv, TypeOK
  <2>2. n < size.batches
    BY <1>1 DEF IInv, Counted
  <2>3. n + 1 <= size.batches
    BY <1>2, <2>1, <2>2
  <2>. QED
    BY <1>1, <1>5, <2>1, <2>3, Appended
<1>8. /\ Len(history'.took) = n + 1 /\ history'.took[n + 1] = really
      /\ \A b \in 1..n : history'.took[b] = history.took[b]
  <2>1. history.took \in Seq(Nat) /\ Len(history.took) = n
    BY DEF IInv, TypeOK, Timed
  <2>2. /\ Len(Append(history.took, really)) = n + 1
        /\ Append(history.took, really)[n + 1] = really
        /\ \A b \in 1..n : Append(history.took, really)[b] = history.took[b]
    BY <1>5, <2>1, Appended
  <2>. QED
    BY <1>6, <2>2, Zenon
<1>9. TypeOK'
  <2>1. size.iterations > 0 /\ sink + local \in Nat
    BY <1>1 DEF IInv, TypeOK, Counted
  <2>2. Len(series') \in 0..size.batches
    BY <1>2, <1>7
  <2>. QED
    BY <1>1, <1>6, <1>7, <2>1, <2>2 DEF IInv, TypeOK
<1>10. Counted'
  <2>1. (n + 1) * size.iterations = n * size.iterations + size.iterations
    BY DEF IInv, TypeOK
  <2>2. /\ n * size.iterations \in Nat /\ size.iterations \in Nat /\ size.warmup \in Nat
    BY DEF IInv, TypeOK
  <2>3. history.calls = size.warmup + n * size.iterations + size.iterations
        /\ history.accepted = sink + local /\ size.iterations > 0
    BY <1>1 DEF IInv, Counted
  <2>4. history.calls = size.warmup + (n + 1) * size.iterations
    BY <2>1, <2>2, <2>3
  <2>. QED
    BY <1>1, <1>6, <1>7, <2>3, <2>4 DEF Counted
<1>11. Timed'
  <2>1. really <= size.iterations * history.longest
    BY <1>1 DEF IInv, Timed, really
  <2>2. \A b \in 1..(n + 1) : b \in 1..n \/ b = n + 1
    BY <1>2
  <2>3. \A b \in 1..n :
          /\ series[b] - history.took[b] < Resolution
          /\ history.took[b] - series[b] < Resolution
          /\ history.took[b] <= size.iterations * history.longest
    BY DEF IInv, Timed
  <2>4. \A b \in 1..(n + 1) :
          /\ series'[b] - history'.took[b] < Resolution
          /\ history'.took[b] - series'[b] < Resolution
          /\ history'.took[b] <= size.iterations * history.longest
    BY <1>5, <1>7, <1>8, <2>1, <2>2, <2>3
  <2>. QED
    BY <1>1, <1>6, <1>7, <1>8, <2>4 DEF Timed
<1>12. HasSlowest'
  <2>1. series \in Seq(Nat) /\ (series # <<>> =>
          \E b \in 1..n : \A c \in 1..n : series[c] <= series[b])
    BY DEF IInv, TypeOK, HasSlowest
  <2>2. \E b \in 1..(n + 1) : \A c \in 1..(n + 1) : series'[c] <= series'[b]
    BY <1>1, <1>5, <2>1, SlowestAppended
  <2>. QED
    BY <1>7, <2>2 DEF HasSlowest
<1>. QED
  BY <1>9, <1>10, <1>11, <1>12 DEF IInv

(* All batches are there when the series is returned.                      *)
LEMMA ReturnStep == ASSUME IInv, Return PROVE IInv'
<1>1. /\ pc \in {"warmup", "stored"} /\ Len(series) = size.batches /\ pc' = "returned"
      /\ pc = "warmup" => i = size.warmup
      /\ UNCHANGED <<size, i, now, t0, local, sink, series, history>>
  BY DEF Return, BetweenBatches
<1>2. TypeOK' /\ Timed' /\ HasSlowest'
  BY <1>1 DEF IInv, TypeOK, Timed, HasSlowest
<1>3. 0 * size.iterations = 0 /\ size.warmup \in Nat
  BY DEF IInv, TypeOK
<1>4. Counted'
  BY <1>1, <1>3 DEF IInv, Counted
<1>. QED
  BY <1>2, <1>4 DEF IInv

(* The calls and the times are accounted for at every program point.       *)
THEOREM Inductive == Spec => []IInv
<1>1. ASSUME IInv, [Next]_vars PROVE IInv'
  <2>1. CASE UNCHANGED vars
    BY <1>1, <2>1 DEF IInv, TypeOK, Counted, Timed, HasSlowest, vars
  <2>. QED
    BY <1>1, <2>1, CheckStep, WarmUpStep, StartStep, CallStep, StopStep, ReturnStep DEF Next
<1>. QED
  BY <1>1, Initially, PTL DEF Spec

(* The clock does not go back, and no batch is timed without a call.       *)
THEOREM TypeCorrect == Spec => []TypeOK
<1>1. IInv => TypeOK
  BY DEF IInv
<1>. QED
  BY <1>1, Inductive, PTL

(* Every call is accounted for, by its time and by its verdict.            *)
THEOREM AccountedFor == Spec => []CallsAccountedFor
<1>1. IInv => SinkCounts
  BY DEF IInv, TypeOK, Counted, SinkCounts
<1>2. IInv => TimedIsSpent
  <2>. SUFFICES ASSUME IInv PROVE TimedIsSpent
    OBVIOUS
  <2>1. DOMAIN series = 1..Len(series) /\ series \in Seq(Nat)
    BY DEF IInv, TypeOK
  <2>2. ASSUME pc = "returned", Stats.available
        PROVE  /\ Stats.samples = size.batches
               /\ Stats.max < size.iterations * history.longest + Resolution
    <3>1. series # <<>>
      BY <2>2 DEF Stats, summarize
    <3>2. Stats.samples = Len(series) /\ Stats.max = max_ns(series)
      BY <3>1 DEF Stats, summarize
    <3>3. PICK b \in 1..Len(series) : \A c \in 1..Len(series) : series[c] <= series[b]
      BY <3>1 DEF IInv, HasSlowest
    <3>4. \E v \in Range(series) : \A w \in Range(series) : w <= v
      BY <2>1, <3>3 DEF Range
    <3>5. max_ns(series) \in Range(series)
      BY <3>4 DEF max_ns
    <3>6. PICK d \in 1..Len(series) : max_ns(series) = series[d]
      BY <2>1, <3>5 DEF Range
    <3>. DEFINE bound == size.iterations * history.longest
    <3>7. /\ series[d] - history.took[d] < Resolution /\ history.took[d] <= bound
          /\ Len(history.took) = Len(series)
      BY <3>6 DEF IInv, Timed
    <3>8. series[d] \in Nat /\ history.took[d] \in Nat /\ bound \in Nat /\ Resolution \in Nat
      <4>1. history.took \in Seq(Nat) /\ history.longest \in Nat /\ size.iterations \in Nat
        BY DEF IInv, TypeOK
      <4>2. bound \in Nat
        BY <4>1
      <4>3. history.took[d] \in Nat
        BY <3>7, <4>1
      <4>. QED
        BY <2>1, <4>2, <4>3, SizeAssumption
    <3>. HIDE DEF bound
    <3>9. series[d] < bound + Resolution
      BY <3>7, <3>8
    <3>. QED
      BY <2>2, <3>2, <3>6, <3>9 DEF IInv, Counted, bound
  <2>. QED
    BY <2>1, <2>2 DEF IInv, Timed, TimedIsSpent
<1>. QED
  BY <1>1, <1>2, Inductive, PTL DEF CallsAccountedFor

-----------------------------------------------------------------------------
(* Any nonempty collection of finite sets of numbers has a smallest one.   *)
LEMMA MinimalSet ==
  ASSUME NEW C \in SUBSET FiniteSubsetsOf(Nat), C # {}
  PROVE  \E T \in C : \A U \in C : U \subseteq T => U = T
<1>. DEFINE R == StrictSubsetOrdering(Nat)
<1>1. IsWellFoundedOn(R, FiniteSubsetsOf(Nat))
  BY FS_StrictSubsetOrderingWellFounded
<1>. HIDE DEF R
<1>2. PICK T \in C : \A U \in C : <<U, T>> \notin R
  BY <1>1, WFMin
<1>3. ASSUME NEW U \in C, U \subseteq T, U # T PROVE FALSE
  <2>1. <<U, T>> \in R
    BY <1>3 DEF R, StrictSubsetOrdering, FiniteSubsetsOf
  <2>. QED
    BY <1>2, <2>1
<1>. QED
  BY <1>3

(* A finite set of numbers has a greatest one.                             *)
LEMMA Greatest ==
  ASSUME NEW S \in FiniteSubsetsOf(Nat), S # {}
  PROVE  Max(S) \in S /\ \A k \in S : k <= Max(S)
<1>. DEFINE HasMax(T) == \E m \in T : \A k \in T : m >= k
            C == {T \in FiniteSubsetsOf(Nat) : T # {} /\ ~HasMax(T)}
<1>1. C = {}
  <2>. SUFFICES ASSUME C # {} PROVE FALSE
    OBVIOUS
  <2>1. PICK T \in C : \A V \in C : V \subseteq T => V = T
    <3>1. C \in SUBSET FiniteSubsetsOf(Nat)
      OBVIOUS
    <3>. HIDE DEF C
    <3>. QED
      BY <3>1, MinimalSet
  <2>2. PICK x \in T : TRUE
    OBVIOUS
  <2>3. T \in SUBSET Nat /\ T \ {x} \in FiniteSubsetsOf(Nat)
    BY FS_RemoveElement DEF FiniteSubsetsOf
  <2>4. CASE T \ {x} = {}
    BY <2>2, <2>3, <2>4
  <2>5. CASE T \ {x} # {}
    <3>1. PICK m \in T \ {x} : \A k \in T \ {x} : m >= k
      <4>. DEFINE U == T \ {x}
      <4>1. U \in FiniteSubsetsOf(Nat) /\ U \subseteq T /\ U # T /\ U # {}
        BY <2>2, <2>3, <2>5
      <4>. HIDE DEF U, HasMax
      <4>2. HasMax(U)
        BY <2>1, <4>1
      <4>. QED
        BY <4>2 DEF U, HasMax
    <3>2. \A k \in T : IF x >= m THEN x >= k ELSE m >= k
      BY <2>3, <3>1
    <3>. QED
      BY <2>2, <3>1, <3>2
  <2>. QED
    BY <2>4, <2>5
<1>2. \E m \in S : \A k \in S : m >= k
  BY <1>1
<1>3. S \in SUBSET Nat
  BY DEF FiniteSubsetsOf
<1>. QED
  BY <1>2, <1>3 DEF Max

(* The sum that FoldLeft computes takes the last value off, and so on.     *)
IsSum(f, v, S) ==
  f = [T \in SUBSET S |-> IF T = {} THEN 0 ELSE f[T \ {Max(T)}] + v[Max(T)]]

SumOver(v, S) == (CHOOSE f : IsSum(f, v, S))[S]

(* The sum of a series is the sum of the values at all its places.         *)
LEMMA SumIsSumOver == ASSUME NEW v \in Seq(Nat) PROVE Sum(v) = SumOver(v, DOMAIN v)
BY DEF Sum, FoldLeft, MapThenFoldSet, SumOver, IsSum

(* What is left of a set without its last place.                           *)
LEMMA WithoutLast ==
  ASSUME NEW S \in FiniteSubsetsOf(Nat), S # {}
  PROVE  /\ Max(S) \in S /\ S \ {Max(S)} \in FiniteSubsetsOf(Nat) /\ S \ {Max(S)} # S
         /\ Cardinality(S) \in Nat /\ Cardinality(S) >= 1
         /\ Cardinality(S \ {Max(S)}) = Cardinality(S) - 1
<1>1. IsFiniteSet(S) /\ S \in SUBSET Nat
  BY DEF FiniteSubsetsOf
<1>2. Max(S) \in S
  BY Greatest
<1>3. Cardinality(S) \in Nat /\ Cardinality(S) # 0
  BY <1>1, FS_CardinalityType, FS_EmptySet
<1>. DEFINE m == Max(S)
<1>. HIDE DEF m
<1>4. IsFiniteSet(S \ {m}) /\ Cardinality(S \ {m}) = Cardinality(S) - 1
  BY <1>1, <1>2, FS_RemoveElement DEF m
<1>5. S \ {m} \in FiniteSubsetsOf(Nat) /\ S \ {m} # S
  BY <1>1, <1>2, <1>4 DEF FiniteSubsetsOf, m
<1>. QED
  BY <1>2, <1>3, <1>4, <1>5 DEF m

(* Two tables of sums agree where both are defined.                        *)
LEMMA SumAgrees ==
  ASSUME NEW v, NEW A, NEW B, NEW f, NEW g, IsSum(f, v, A), IsSum(g, v, B),
         NEW T \in FiniteSubsetsOf(Nat), T \subseteq A, T \subseteq B
  PROVE  f[T] = g[T]
<1>. DEFINE C == {U \in FiniteSubsetsOf(Nat) : U \subseteq T /\ f[U] # g[U]}
<1>. SUFFICES ASSUME C # {} PROVE FALSE
  OBVIOUS
<1>1. PICK U \in C : \A V \in C : V \subseteq U => V = U
  <2>1. C \in SUBSET FiniteSubsetsOf(Nat)
    OBVIOUS
  <2>. HIDE DEF C
  <2>. QED
    BY <2>1, MinimalSet
<1>2. U \in SUBSET A /\ U \in SUBSET B /\ U \subseteq T
  OBVIOUS
<1>3. /\ f[U] = IF U = {} THEN 0 ELSE f[U \ {Max(U)}] + v[Max(U)]
      /\ g[U] = IF U = {} THEN 0 ELSE g[U \ {Max(U)}] + v[Max(U)]
  BY <1>2 DEF IsSum
<1>4. U # {}
  BY <1>3
<1>5. U \ {Max(U)} \in FiniteSubsetsOf(Nat) /\ U \ {Max(U)} # U
  BY <1>4, WithoutLast
<1>6. f[U \ {Max(U)}] = g[U \ {Max(U)}]
  BY <1>1, <1>2, <1>5
<1>. QED
  BY <1>3, <1>6

(* There is a table of the sums over a finite set and its subsets.         *)
LEMMA SumExists ==
  ASSUME NEW v, NEW S \in FiniteSubsetsOf(Nat)
  PROVE  \E f : IsSum(f, v, S)
<1>. DEFINE C == {U \in FiniteSubsetsOf(Nat) : ~(\E f : IsSum(f, v, U))}
<1>. SUFFICES ASSUME C # {} PROVE FALSE
  OBVIOUS
<1>1. PICK T \in C : \A V \in C : V \subseteq T => V = T
  <2>1. C \in SUBSET FiniteSubsetsOf(Nat)
    OBVIOUS
  <2>. HIDE DEF C
  <2>. QED
    BY <2>1, MinimalSet
<1>2. \A V \in FiniteSubsetsOf(Nat) : V \subseteq T /\ V # T => \E f : IsSum(f, v, V)
  BY <1>1
<1>3. \A V \in SUBSET T : V \in FiniteSubsetsOf(Nat)
  BY FS_Subset DEF FiniteSubsetsOf
<1>. DEFINE F(V) == CHOOSE f : IsSum(f, v, V)
            h == [V \in SUBSET T |->
                    IF V = {} THEN 0 ELSE SumOver(v, V \ {Max(V)}) + v[Max(V)]]
<1>4. ASSUME NEW V \in SUBSET T, V # T PROVE h[V] = SumOver(v, V)
  <2>1. IsSum(F(V), v, V)
    BY <1>2, <1>3, <1>4
  <2>2. SumOver(v, V) = F(V)[V]
    BY DEF SumOver
  <2>. HIDE DEF F
  <2>3. F(V)[V] = IF V = {} THEN 0 ELSE F(V)[V \ {Max(V)}] + v[Max(V)]
    BY <2>1 DEF IsSum
  <2>4. CASE V = {}
    BY <2>2, <2>3, <2>4
  <2>5. CASE V # {}
    <3>. DEFINE W == V \ {Max(V)}
    <3>1. W \in SUBSET T /\ W # T
      BY <1>4
    <3>2. IsSum(F(W), v, W)
      BY <1>2, <1>3, <3>1 DEF F
    <3>3. F(V)[W] = F(W)[W]
      <4>1. W \in FiniteSubsetsOf(Nat) /\ W \subseteq V
        BY <1>3, <3>1
      <4>. HIDE DEF W
      <4>. QED
        BY <2>1, <3>2, <4>1, SumAgrees
    <3>4. SumOver(v, W) = F(W)[W]
      BY DEF SumOver, F
    <3>. QED
      BY <2>2, <2>3, <2>5, <3>3, <3>4
  <2>. QED
    BY <2>4, <2>5
<1>5. \A V \in SUBSET T : V # {} => h[V \ {Max(V)}] = SumOver(v, V \ {Max(V)})
  <2>. SUFFICES ASSUME NEW V \in SUBSET T, V # {}
                PROVE  V \ {Max(V)} \in SUBSET T /\ V \ {Max(V)} # T
    BY <1>4
  <2>. QED
    BY <1>3, Greatest
<1>6. IsSum(h, v, T)
  BY <1>5 DEF IsSum
<1>. QED
  BY <1>1, <1>6

(* The sum over a set is the last value and the sum over the others.       *)
LEMMA SumUnfolds ==
  ASSUME NEW v, NEW S \in FiniteSubsetsOf(Nat), S # {}
  PROVE  SumOver(v, S) = SumOver(v, S \ {Max(S)}) + v[Max(S)]
<1>. DEFINE F(V) == CHOOSE f : IsSum(f, v, V)  W == S \ {Max(S)}
<1>1. \A V \in FiniteSubsetsOf(Nat) : IsSum(F(V), v, V)
  BY SumExists
<1>2. \A V : SumOver(v, V) = F(V)[V]
  BY DEF SumOver
<1>. HIDE DEF F
<1>3. F(S)[S] = F(S)[S \ {Max(S)}] + v[Max(S)]
  BY <1>1 DEF IsSum
<1>4. W \in FiniteSubsetsOf(Nat) /\ W \subseteq S
  BY FS_Subset DEF FiniteSubsetsOf
<1>. HIDE DEF W
<1>5. F(S)[W] = F(W)[W]
  BY <1>1, <1>4, SumAgrees
<1>. QED
  BY <1>2, <1>3, <1>5 DEF W

(* Nothing is summed over no places.                                       *)
LEMMA SumOfNone == ASSUME NEW v PROVE SumOver(v, {}) = 0
<1>. DEFINE F == CHOOSE f : IsSum(f, v, {})
<1>1. {} \in FiniteSubsetsOf(Nat)
  BY FS_EmptySet DEF FiniteSubsetsOf
<1>2. IsSum(F, v, {})
  BY <1>1, SumExists
<1>3. SumOver(v, {}) = F[{}]
  BY DEF SumOver
<1>. HIDE DEF F
<1>. QED
  BY <1>2, <1>3 DEF IsSum

(* A sum lies between the multiples of the extremes.                       *)
LEMMA SumBounds ==
  ASSUME NEW v, NEW S \in FiniteSubsetsOf(Nat), NEW lo \in Nat, NEW hi \in Nat,
         \A k \in S : v[k] \in Nat /\ lo <= v[k] /\ v[k] <= hi
  PROVE  LET m == Cardinality(S)
         IN  m * lo <= SumOver(v, S) /\ SumOver(v, S) <= m * hi
<1>. DEFINE Fine(T) == LET m == Cardinality(T)
                       IN  /\ SumOver(v, T) \in Int
                           /\ m * lo <= SumOver(v, T) /\ SumOver(v, T) <= m * hi
            C == {T \in FiniteSubsetsOf(Nat) : T \subseteq S /\ ~Fine(T)}
<1>1. C = {}
  <2>. SUFFICES ASSUME C # {} PROVE FALSE
    OBVIOUS
  <2>1. PICK T \in C : \A V \in C : V \subseteq T => V = T
    <3>1. C \in SUBSET FiniteSubsetsOf(Nat)
      OBVIOUS
    <3>. HIDE DEF C
    <3>. QED
      BY <3>1, MinimalSet
  <2>2. T # {}
    <3>1. Cardinality({}) = 0 /\ 0 * lo = 0 /\ 0 * hi = 0
      BY FS_EmptySet
    <3>2. Fine({})
      BY <3>1, SumOfNone
    <3>. QED
      BY <2>1, <3>2
  <2>. DEFINE t == Max(T)  U == T \ {t}  m == Cardinality(U)
  <2>3. /\ t \in T /\ U \in FiniteSubsetsOf(Nat) /\ U # T
        /\ Cardinality(T) \in Nat /\ Cardinality(T) >= 1 /\ m = Cardinality(T) - 1
    BY <2>2, WithoutLast
  <2>4. Fine(U)
    BY <2>1, <2>3
  <2>5. SumOver(v, T) = SumOver(v, U) + v[t]
    BY <2>2, SumUnfolds
  <2>. HIDE DEF U, t, m
  <2>6. m \in Nat /\ Cardinality(T) = m + 1 /\ v[t] \in Nat /\ lo <= v[t] /\ v[t] <= hi
    BY <2>1, <2>3
  <2>7. /\ (m + 1) * lo = m * lo + lo /\ (m + 1) * hi = m * hi + hi
        /\ m * lo \in Nat /\ m * hi \in Nat
    BY <2>6
  <2>8. SumOver(v, U) \in Int /\ m * lo <= SumOver(v, U) /\ SumOver(v, U) <= m * hi
    BY <2>4 DEF m
  <2>9. /\ SumOver(v, T) \in Int
        /\ m * lo + lo <= SumOver(v, T) /\ SumOver(v, T) <= m * hi + hi
    BY <2>5, <2>6, <2>7, <2>8
  <2>10. Fine(T)
    BY <2>6, <2>7, <2>9
  <2>. QED
    BY <2>1, <2>10
<1>. QED
  BY <1>1

-----------------------------------------------------------------------------
(* Any numbers that are indexed by numbers can be sorted: the place of an  *)
(* index is the number of those that are not after it.                     *)
LEMMA Sorting ==
  ASSUME NEW S \in SUBSET Nat, IsFiniteSet(S), NEW key \in [S -> Nat]
  PROVE  LET n == Cardinality(S)  order == ascending(key)
         IN  /\ n \in Nat /\ order \in [1..n -> S]
             /\ \A k \in S : \E j \in 1..n : order[j] = k
             /\ \A j, l \in 1..n : j < l => key[order[j]] <= key[order[l]]
<1>. DEFINE n == Cardinality(S)
            UpTo(k) == {l \in S : key[l] < key[k] \/ (key[l] = key[k] /\ l <= k)}
            place == [k \in S |-> Cardinality(UpTo(k))]
            order == [j \in 1..n |-> CHOOSE k \in S : place[k] = j]
<1>1. n \in Nat /\ \A k \in S : key[k] \in Nat /\ k \in Nat
  BY FS_CardinalityType
<1>2. \A k \in S : IsFiniteSet(UpTo(k)) /\ place[k] \in 1..n
  <2>. SUFFICES ASSUME NEW k \in S PROVE IsFiniteSet(UpTo(k)) /\ place[k] \in 1..n
    OBVIOUS
  <2>1. UpTo(k) \in SUBSET S /\ k \in UpTo(k)
    OBVIOUS
  <2>. HIDE DEF UpTo
  <2>2. IsFiniteSet(UpTo(k)) /\ Cardinality(UpTo(k)) <= n
    BY <2>1, FS_Subset
  <2>3. Cardinality(UpTo(k)) \in Nat /\ Cardinality(UpTo(k)) # 0
    BY <2>1, <2>2, FS_CardinalityType, FS_EmptySet
  <2>. QED
    BY <1>1, <2>2, <2>3
<1>3. ASSUME NEW k \in S, NEW l \in S, key[k] < key[l] \/ (key[k] = key[l] /\ k < l)
      PROVE  place[k] < place[l]
  <2>1. UpTo(k) \subseteq UpTo(l) /\ l \in UpTo(l) /\ l \notin UpTo(k)
    <3>1. l \in UpTo(l) /\ l \notin UpTo(k)
      BY <1>1, <1>3
    <3>2. ASSUME NEW m \in UpTo(k) PROVE m \in UpTo(l)
      BY <1>1, <1>3
    <3>. QED
      BY <3>1, <3>2
  <2>2. place[k] = Cardinality(UpTo(k)) /\ place[l] = Cardinality(UpTo(l))
    OBVIOUS
  <2>. HIDE DEF UpTo, place
  <2>3. /\ Cardinality(UpTo(k)) <= Cardinality(UpTo(l))
        /\ Cardinality(UpTo(k)) # Cardinality(UpTo(l))
    BY <1>2, <2>1, FS_Subset
  <2>. QED
    BY <1>1, <1>2, <2>2, <2>3
<1>4. place \in Injection(S, 1..n)
  <2>1. place \in [S -> 1..n]
    BY <1>2
  <2>2. ASSUME NEW k \in S, NEW l \in S, place[k] = place[l] PROVE k = l
    <3>1. /\ ~(key[k] < key[l]) /\ ~(key[l] < key[k])
          /\ ~(key[k] = key[l] /\ k < l) /\ ~(key[k] = key[l] /\ l < k)
      <4>. place[k] \in Nat
        BY <1>1, <1>2
      <4>. HIDE DEF place, UpTo
      <4>. QED
        BY <1>3, <2>2
    <3>. QED
      BY <1>1, <3>1
  <2>. HIDE DEF place
  <2>. QED
    BY <2>1, <2>2 DEF Injection, IsInjective
<1>5. \A j \in 1..n : \E k \in S : place[k] = j
  <2>1. IsFiniteSet(1..n) /\ Cardinality(1..n) = n
    BY <1>1, FS_Interval
  <2>2. place \in Surjection(S, 1..n)
    BY <1>4, <2>1, FS_Injection
  <2>. HIDE DEF place
  <2>. QED
    BY <2>2 DEF Surjection
<1>. HIDE DEF place
<1>6. \A j \in 1..n : order[j] \in S /\ place[order[j]] = j
  BY <1>5
<1>7. order \in [1..n -> S]
  BY <1>6
<1>8. \A k \in S : \E j \in 1..n : order[j] = k
  <2>. SUFFICES ASSUME NEW k \in S PROVE order[place[k]] = k
    BY <1>2
  <2>1. /\ place[k] \in 1..n /\ order[place[k]] \in S
        /\ place[order[place[k]]] = place[k]
    BY <1>2, <1>6
  <2>. QED
    BY <1>4, <2>1 DEF Injection, IsInjective
<1>9. ASSUME NEW j \in 1..n, NEW l \in 1..n, j < l PROVE key[order[j]] <= key[order[l]]
  <2>1. order[j] \in S /\ order[l] \in S /\ ~(place[order[l]] < place[order[j]])
    BY <1>6, <1>9
  <2>. HIDE DEF order
  <2>2. ~(key[order[l]] < key[order[j]])
    BY <1>3, <2>1
  <2>3. key[order[j]] \in Nat /\ key[order[l]] \in Nat
    BY <1>1, <2>1
  <2>. QED
    BY <2>2, <2>3
<1>. HIDE DEF order
<1>10. DOMAIN key = S
  OBVIOUS
<1>. QED
  BY <1>1, <1>7, <1>8, <1>9, <1>10 DEF ascending

(* Fewer numbers than its place lie below a number, and so for above.      *)
LEMMA Ranks ==
  ASSUME NEW S \in SUBSET Nat, IsFiniteSet(S), NEW key \in [S -> Nat],
         NEW j \in 1..Cardinality(S), NEW T \in SUBSET S
  PROVE  LET at == key[ascending(key)[j]]
         IN  /\ (\A k \in T : key[k] < at) => Cardinality(T) <= j - 1
             /\ (\A k \in T : key[k] > at) => Cardinality(T) <= Cardinality(S) - j
<1>. DEFINE n == Cardinality(S)  order == ascending(key)
<1>1. /\ n \in Nat /\ order \in [1..n -> S]
      /\ \A k \in S : \E l \in 1..n : order[l] = k
      /\ \A l, m \in 1..n : l < m => key[order[l]] <= key[order[m]]
  BY Sorting
<1>. HIDE DEF n, order
<1>2. j \in Nat /\ j >= 1 /\ j <= n
  BY <1>1 DEF n
<1>3. ASSUME NEW a \in Nat, NEW m \in Nat, a + m <= n,
             \A k \in T : \E l \in (a + 1)..(a + m) : order[l] = k
      PROVE  Cardinality(T) <= m
  <2>. DEFINE f == [l \in 1..m |-> order[a + l]]  U == {f[l] : l \in 1..m}
  <2>1. f \in Surjection(1..m, U)
    BY DEF Surjection
  <2>2. IsFiniteSet(1..m) /\ Cardinality(1..m) = m
    BY FS_Interval
  <2>3. T \subseteq U
    <3>. SUFFICES ASSUME NEW k \in T PROVE k \in U
      OBVIOUS
    <3>1. PICK l \in (a + 1)..(a + m) : order[l] = k
      BY <1>3
    <3>2. l - a \in 1..m /\ a + (l - a) = l
      OBVIOUS
    <3>3. f[l - a] = k
      BY <3>1, <3>2
    <3>. QED
      BY <3>2, <3>3
  <2>. HIDE DEF f, U
  <2>4. IsFiniteSet(U) /\ Cardinality(U) <= m
    BY <2>1, <2>2, FS_Surjection
  <2>5. IsFiniteSet(T) /\ Cardinality(T) <= Cardinality(U)
    BY <2>3, <2>4, FS_Subset
  <2>6. Cardinality(T) \in Nat /\ Cardinality(U) \in Nat
    BY <2>4, <2>5, FS_CardinalityType
  <2>. QED
    BY <2>4, <2>5, <2>6
<1>4. \A l \in 1..n : order[l] \in S /\ key[order[l]] \in Nat
  BY <1>1
<1>5. ASSUME \A k \in T : key[k] < key[order[j]]
      PROVE  Cardinality(T) <= j - 1
  <2>0. j - 1 \in Nat /\ 0 \in Nat /\ 0 + (j - 1) <= n
    BY <1>1, <1>2
  <2>. SUFFICES ASSUME NEW k \in T PROVE \E l \in (0 + 1)..(0 + (j - 1)) : order[l] = k
    BY <1>3, <2>0
  <2>1. PICK l \in 1..n : order[l] = k
    BY <1>1
  <2>2. key[order[l]] < key[order[j]]
    BY <1>5, <2>1
  <2>3. ~(j < l) /\ j # l
    <3>1. key[order[l]] \in Nat /\ key[order[j]] \in Nat
      BY <1>2, <1>4
    <3>. QED
      BY <1>1, <1>2, <2>2, <3>1
  <2>. QED
    BY <1>1, <1>2, <2>1, <2>3
<1>6. ASSUME \A k \in T : key[k] > key[order[j]]
      PROVE  Cardinality(T) <= n - j
  <2>1. n - j \in Nat /\ j + (n - j) = n
    BY <1>1, <1>2
  <2>. SUFFICES ASSUME NEW k \in T PROVE \E l \in (j + 1)..(j + (n - j)) : order[l] = k
    BY <1>1, <1>2, <1>3, <2>1
  <2>2. PICK l \in 1..n : order[l] = k
    BY <1>1
  <2>3. key[order[l]] > key[order[j]]
    BY <1>6, <2>2
  <2>4. ~(l < j) /\ j # l
    <3>1. key[order[l]] \in Nat /\ key[order[j]] \in Nat
      BY <1>2, <1>4
    <3>. QED
      BY <1>1, <1>2, <2>3, <3>1
  <2>. QED
    BY <1>1, <1>2, <2>1, <2>2, <2>4
<1>. QED
  BY <1>5, <1>6 DEF n, order

(* The places, from 0, that a percentile of n values lies between, and how *)
(* many hundredths of the way it is.                                       *)
Below(n, p) == rank(n, p) \div 100
Part(n, p)  == rank(n, p) % 100
Above(n, p) == IF Part(n, p) = 0 THEN Below(n, p) ELSE Below(n, p) + 1

(* A quotient and its remainder.                                           *)
LEMMA Division ==
  ASSUME NEW r \in Nat
  PROVE  r \div 100 \in Nat /\ r % 100 \in 0..99 /\ 100 * (r \div 100) + (r % 100) = r
<1>1. r \div 100 \in Int /\ r \div 100 >= 0
  OBVIOUS
<1>2. r % 100 \in Int /\ 0 <= r % 100 /\ r % 100 <= 99
  OBVIOUS
<1>3. r = 100 * (r \div 100) + (r % 100)
  OBVIOUS
<1>. QED
  BY <1>1, <1>2, <1>3

(* The rank of a percentile falls between two places, or on one.           *)
LEMMA Places ==
  ASSUME NEW n \in Nat \ {0}, NEW p \in 0..100
  PROVE  /\ Below(n, p) \in Nat /\ Above(n, p) \in Nat /\ Part(n, p) \in 0..99
         /\ rank(n, p) \in Nat /\ 100 * Below(n, p) + Part(n, p) = rank(n, p)
         /\ Below(n, p) + 1 \in 1..n /\ Above(n, p) + 1 \in 1..n
         /\ Below(n, p) <= Above(n, p)
<1>. DEFINE m == n - 1  r == rank(n, p)
<1>1. m \in Nat /\ n = m + 1 /\ p \in Nat /\ p <= 100
  OBVIOUS
<1>. HIDE DEF m
<1>2. m * p <= m * 100 /\ m * p = p * m /\ m * 100 = 100 * m /\ m * p \in Nat
  BY <1>1, Products
<1>3. r = p * m
  BY DEF rank, m
<1>4. r \in Nat /\ r <= 100 * m
  BY <1>2, <1>3
<1>. HIDE DEF r
<1>5. r \div 100 \in Nat /\ r % 100 \in 0..99 /\ 100 * (r \div 100) + (r % 100) = r
  BY <1>4, Division
<1>6. Below(n, p) = r \div 100 /\ Part(n, p) = r % 100
  BY DEF Below, Part, r
<1>7. /\ Below(n, p) \in Nat /\ Part(n, p) \in 0..99
      /\ 100 * Below(n, p) + Part(n, p) = r
  BY <1>5, <1>6, Zenon
<1>8. Above(n, p) = IF Part(n, p) = 0 THEN Below(n, p) ELSE Below(n, p) + 1
  BY DEF Above
<1>9. /\ Above(n, p) \in Nat /\ Below(n, p) <= Above(n, p)
      /\ Below(n, p) <= m /\ Above(n, p) <= m
  BY <1>1, <1>4, <1>7, <1>8
<1>10. Below(n, p) + 1 \in 1..n /\ Above(n, p) + 1 \in 1..n
  BY <1>1, <1>7, <1>9
<1>. QED
  BY <1>4, <1>7, <1>9, <1>10 DEF r

(* In proportion is between the two.                                       *)
LEMMA Proportion ==
  ASSUME NEW a \in Nat, NEW b \in Nat, a <= b, NEW f \in 0..99
  PROVE  LET v == a * (100 - f) + b * f
         IN  /\ v \in Nat /\ 100 * a <= v /\ v <= 100 * b
             /\ f = 0 => v = 100 * a
             /\ \A g \in f..99 : v <= a * (100 - g) + b * g
<1>. DEFINE d == b - a
<1>1. d \in Nat /\ b = a + d
  OBVIOUS
<1>. HIDE DEF d
<1>2. \A g \in 0..99 : a * (100 - g) + b * g = 100 * a + d * g /\ d * g \in Nat
  BY <1>1
<1>3. d * f <= d * 100
  BY <1>1, Products
<1>4. \A g \in f..99 : d * f <= d * g
  BY <1>1, Products
<1>5. f = 0 => d * f = 0
  BY <1>1
<1>6. d * 100 = 100 * d /\ 100 * b = 100 * a + 100 * d
  BY <1>1
<1>. DEFINE df == d * f
<1>7. df \in Nat /\ df <= 100 * d /\ (f = 0 => df = 0) /\ a * (100 - f) + b * f = 100 * a + df
  BY <1>2, <1>3, <1>5, <1>6
<1>. HIDE DEF df
<1>8. ASSUME NEW g \in f..99 PROVE 100 * a + df <= a * (100 - g) + b * g
  <2>. DEFINE dg == d * g
  <2>1. df <= dg
    BY <1>4 DEF df
  <2>2. g \in 0..99
    OBVIOUS
  <2>3. dg \in Nat /\ a * (100 - g) + b * g = 100 * a + dg
    BY <1>2, <2>2
  <2>. HIDE DEF dg
  <2>. QED
    BY <1>7, <2>1, <2>3
<1>. QED
  BY <1>1, <1>6, <1>7, <1>8

(* The value at a place of the order.                                      *)
at(v, j) == v[ascending(v)[j]]

(* The values of a series in ascending order.                              *)
LEMMA InOrder ==
  ASSUME NEW v \in Seq(Nat)
  PROVE  LET n == Len(v)
         IN  /\ ascending(v) \in [1..n -> 1..n]
             /\ \A j \in 1..n : at(v, j) \in Nat
             /\ \A j, l \in 1..n : j <= l => at(v, j) <= at(v, l)
             /\ \A b \in 1..n : \E j \in 1..n : v[b] = at(v, j)
             /\ \A T \in SUBSET (1..n), j \in 1..n :
                  /\ (\A b \in T : v[b] < at(v, j)) => Cardinality(T) <= j - 1
                  /\ (\A b \in T : v[b] > at(v, j)) => Cardinality(T) <= n - j
<1>. DEFINE n == Len(v)
<1>1. n \in Nat /\ 1..n \in SUBSET Nat /\ v \in [1..n -> Nat] /\ DOMAIN v = 1..n
  OBVIOUS
<1>. HIDE DEF n
<1>0. IsFiniteSet(1..n) /\ Cardinality(1..n) = n
  BY <1>1, FS_Interval
<1>2. /\ ascending(v) \in [1..n -> 1..n]
      /\ \A b \in 1..n : \E j \in 1..n : ascending(v)[j] = b
      /\ \A j, l \in 1..n : j < l => v[ascending(v)[j]] <= v[ascending(v)[l]]
  <2>. DEFINE S == 1..n  m == Cardinality(S)
  <2>1. S \in SUBSET Nat /\ IsFiniteSet(S) /\ v \in [S -> Nat]
    BY <1>0, <1>1
  <2>. HIDE DEF S
  <2>2. /\ ascending(v) \in [1..m -> S]
        /\ \A b \in S : \E j \in 1..m : ascending(v)[j] = b
        /\ \A j, l \in 1..m : j < l => v[ascending(v)[j]] <= v[ascending(v)[l]]
    BY <2>1, Sorting
  <2>3. m = n
    BY <1>0 DEF S
  <2>. QED
    BY <2>2, <2>3 DEF S
<1>3. \A j \in 1..n : at(v, j) \in Nat
  BY <1>1, <1>2 DEF at
<1>4. \A j, l \in 1..n : j <= l => at(v, j) <= at(v, l)
  <2>. SUFFICES ASSUME NEW j \in 1..n, NEW l \in 1..n, j <= l PROVE at(v, j) <= at(v, l)
    OBVIOUS
  <2>1. CASE j = l
    BY <1>3, <2>1
  <2>2. CASE j < l
    BY <1>2, <2>2 DEF at
  <2>. QED
    BY <1>1, <2>1, <2>2
<1>5. \A b \in 1..n : \E j \in 1..n : v[b] = at(v, j)
  BY <1>2 DEF at
<1>6. ASSUME NEW T \in SUBSET (1..n), NEW j \in 1..n
      PROVE  /\ (\A b \in T : v[b] < at(v, j)) => Cardinality(T) <= j - 1
             /\ (\A b \in T : v[b] > at(v, j)) => Cardinality(T) <= n - j
  <2>1. j \in 1..Cardinality(1..n)
    BY <1>0
  <2>2. /\ (\A b \in T : v[b] < v[ascending(v)[j]]) => Cardinality(T) <= j - 1
        /\ (\A b \in T : v[b] > v[ascending(v)[j]])
             => Cardinality(T) <= Cardinality(1..n) - j
    BY <1>0, <1>1, <2>1, Ranks
  <2>. QED
    BY <1>0, <2>2 DEF at
<1>. QED
  BY <1>2, <1>3, <1>4, <1>5, <1>6 DEF n

(* A percentile lies between the values at the two places.                 *)
LEMMA PercentileBetween ==
  ASSUME NEW v \in Seq(Nat), v # <<>>, NEW p \in 0..100
  PROVE  LET n == Len(v)
             a == at(v, Below(n, p) + 1)  b == at(v, Above(n, p) + 1)
         IN  /\ percentile(v, p) = a * (100 - Part(n, p)) + b * Part(n, p)
             /\ a \in Nat /\ b \in Nat /\ a <= b
             /\ percentile(v, p) \in Nat
             /\ 100 * a <= percentile(v, p) /\ percentile(v, p) <= 100 * b
<1>. DEFINE n  == Len(v)
            lo == Below(n, p)  hi == Above(n, p)  f == Part(n, p)
            a  == at(v, lo + 1)  b == at(v, hi + 1)
            s  == [j \in DOMAIN v |-> v[ascending(v)[j]]]
<1>1. n \in Nat \ {0} /\ DOMAIN v = 1..n
  OBVIOUS
<1>2. /\ lo \in Nat /\ hi \in Nat /\ f \in 0..99 /\ lo <= hi
      /\ lo + 1 \in 1..n /\ hi + 1 \in 1..n
      /\ hi = IF f = 0 THEN lo ELSE lo + 1
  BY <1>1, Places DEF Above
<1>3. n = 1 => f = 0
  <2>1. rank(1, p) = 0
    BY DEF rank
  <2>2. 100 * lo + f = rank(n, p)
    BY <1>1, Places
  <2>. QED
    BY <1>2, <2>1, <2>2
<1>4. percentile(v, p) = IF n = 1 THEN 100 * s[1] ELSE s[lo + 1] * (100 - f) + s[hi + 1] * f
  BY DEF percentile, Below, Above, Part
<1>5. \A j \in 1..n : s[j] = at(v, j)
  BY <1>1 DEF at
<1>. HIDE DEF n, lo, hi, f, s
<1>6. a \in Nat /\ b \in Nat /\ a <= b
  <2>1. lo + 1 <= hi + 1
    BY <1>2
  <2>. QED
    BY <1>2, <2>1, InOrder DEF n
<1>7. s[lo + 1] = a /\ s[hi + 1] = b
  BY <1>2, <1>5
<1>8. percentile(v, p) = a * (100 - f) + b * f
  <2>1. CASE n = 1
    <3>1. lo + 1 = 1 /\ f = 0
      BY <1>2, <1>3, <2>1
    <3>2. percentile(v, p) = 100 * a
      BY <1>4, <1>7, <2>1, <3>1
    <3>. HIDE DEF a, b
    <3>. QED
      BY <1>6, <3>1, <3>2
  <2>2. CASE n # 1
    BY <1>4, <1>7, <2>2
  <2>. QED
    BY <2>1, <2>2
<1>. HIDE DEF a, b
<1>9. LET w == a * (100 - f) + b * f
      IN  w \in Nat /\ 100 * a <= w /\ w <= 100 * b
  BY <1>2, <1>6, Proportion
<1>. QED
  BY <1>6, <1>8, <1>9 DEF n, lo, hi, f, a, b

(* A higher percentile is no smaller.                                      *)
LEMMA PercentilesRise ==
  ASSUME NEW v \in Seq(Nat), v # <<>>, NEW p \in 0..100, NEW q \in 0..100, p <= q
  PROVE  percentile(v, p) <= percentile(v, q)
<1>. DEFINE n == Len(v)
            lo == Below(n, p)  hi == Above(n, p)  f == Part(n, p)
            lq == Below(n, q)  hq == Above(n, q)  g == Part(n, q)
            P  == percentile(v, p)  Q == percentile(v, q)
<1>1. n \in Nat \ {0}
  OBVIOUS
<1>2. /\ lo \in Nat /\ hi \in Nat /\ f \in 0..99 /\ lo <= hi
      /\ lo + 1 \in 1..n /\ hi + 1 \in 1..n
      /\ hi = IF f = 0 THEN lo ELSE lo + 1
  BY <1>1, Places DEF Above
<1>3. /\ lq \in Nat /\ hq \in Nat /\ g \in 0..99 /\ lq <= hq
      /\ lq + 1 \in 1..n /\ hq + 1 \in 1..n
      /\ hq = IF g = 0 THEN lq ELSE lq + 1
  BY <1>1, Places DEF Above
<1>4. 100 * lo + f <= 100 * lq + g
  <2>1. 100 * lo + f = rank(n, p) /\ 100 * lq + g = rank(n, q)
    BY <1>1, Places
  <2>. DEFINE m == n - 1
  <2>2. m \in Nat
    BY <1>1
  <2>. HIDE DEF m
  <2>3. m * p <= m * q /\ m * p = p * m /\ m * q = q * m
    BY <2>2, Products
  <2>4. rank(n, p) = p * m /\ rank(n, q) = q * m
    BY DEF rank, m
  <2>. QED
    BY <2>1, <2>3, <2>4
<1>. DEFINE a == at(v, lo + 1)  b == at(v, hi + 1)  c == at(v, lq + 1)  d == at(v, hq + 1)
<1>5. /\ P = a * (100 - f) + b * f /\ a \in Nat /\ b \in Nat /\ a <= b
      /\ P \in Nat /\ 100 * a <= P /\ P <= 100 * b
  BY PercentileBetween
<1>6. /\ Q = c * (100 - g) + d * g /\ c \in Nat /\ d \in Nat /\ c <= d
      /\ Q \in Nat /\ 100 * c <= Q /\ Q <= 100 * d
  BY PercentileBetween
<1>. HIDE DEF n, lo, hi, f, lq, hq, g, P, Q
<1>7. CASE lo < lq
  <2>1. hi + 1 <= lq + 1
    BY <1>2, <1>3, <1>7
  <2>2. b <= c
    BY <1>2, <1>3, <2>1, InOrder DEF n
  <2>. HIDE DEF a, b, c, d
  <2>3. P <= Q
    BY <1>5, <1>6, <2>2
  <2>. QED
    BY <2>3 DEF P, Q
<1>8. CASE lo = lq
  <2>1. f <= g /\ g \in f..99
    BY <1>2, <1>3, <1>4, <1>8
  <2>2. a = c
    BY <1>8
  <2>3. CASE f = 0
    <3>1. a = b
      BY <1>2, <2>3
    <3>. HIDE DEF a, b, c, d
    <3>2. P <= Q
      BY <1>5, <1>6, <2>2, <3>1
    <3>. QED
      BY <3>2 DEF P, Q
  <2>4. CASE f # 0
    <3>1. hi = hq
      BY <1>2, <1>3, <1>8, <2>1, <2>4
    <3>2. b = d
      BY <3>1
    <3>. HIDE DEF a, b, c, d
    <3>3. \A x \in f..99 : a * (100 - f) + b * f <= a * (100 - x) + b * x
      BY <1>2, <1>5, Proportion
    <3>4. a * (100 - f) + b * f <= a * (100 - g) + b * g
      BY <2>1, <3>3
    <3>5. P <= Q
      BY <1>5, <1>6, <2>2, <3>2, <3>4
    <3>. QED
      BY <3>5 DEF P, Q
  <2>. QED
    BY <2>3, <2>4
<1>9. ~(lq < lo)
  BY <1>2, <1>3, <1>4
<1>. QED
  BY <1>2, <1>3, <1>7, <1>8, <1>9

(* As many values as its rank lies below a percentile, and so for above.   *)
LEMMA BesidePercentile ==
  ASSUME NEW v \in Seq(Nat), v # <<>>, NEW p \in 0..100
  PROVE  LET n == Len(v)
             S == {b \in 1..n : 100 * v[b] > percentile(v, p)}
             F == {b \in 1..n : 100 * v[b] < percentile(v, p)}
         IN  /\ Cardinality(S) \in Nat /\ Cardinality(S) <= n - (Below(n, p) + 1)
             /\ Cardinality(F) \in Nat /\ Cardinality(F) <= Above(n, p)
<1>. DEFINE n == Len(v)
            S == {b \in 1..n : 100 * v[b] > percentile(v, p)}
            F == {b \in 1..n : 100 * v[b] < percentile(v, p)}
            lo == Below(n, p)
            hi == Above(n, p)
<1>1. n \in Nat \ {0}
  OBVIOUS
<1>2. lo \in Nat /\ hi \in Nat /\ lo + 1 \in 1..n /\ hi + 1 \in 1..n
  BY <1>1, Places
<1>3. /\ at(v, lo + 1) \in Nat /\ at(v, hi + 1) \in Nat /\ percentile(v, p) \in Nat
      /\ 100 * at(v, lo + 1) <= percentile(v, p) /\ percentile(v, p) <= 100 * at(v, hi + 1)
  BY PercentileBetween
<1>. HIDE DEF lo, hi
<1>4. \A b \in 1..n : v[b] \in Nat
  OBVIOUS
<1>. HIDE DEF n
<1>5. S \in SUBSET (1..n) /\ F \in SUBSET (1..n)
  OBVIOUS
<1>6. IsFiniteSet(S) /\ IsFiniteSet(F)
  <2>1. IsFiniteSet(1..n)
    BY <1>1, FS_Interval
  <2>. HIDE DEF S, F
  <2>. QED
    BY <1>5, <2>1, FS_Subset
<1>7. \A b \in S : v[b] > at(v, lo + 1)
  BY <1>3, <1>4
<1>8. \A b \in F : v[b] < at(v, hi + 1)
  BY <1>3, <1>4
<1>. HIDE DEF S, F
<1>9. Cardinality(S) <= n - (lo + 1)
  BY <1>2, <1>5, <1>7, InOrder DEF n
<1>10. Cardinality(F) <= (hi + 1) - 1
  BY <1>2, <1>5, <1>8, InOrder DEF n
<1>11. Cardinality(S) \in Nat /\ Cardinality(F) \in Nat
  BY <1>6, FS_CardinalityType
<1>12. (hi + 1) - 1 = hi
  BY <1>2
<1>. QED
  BY <1>9, <1>10, <1>11, <1>12 DEF S, F, n, lo, hi

(* The slowest and the fastest of a series, and their multiples.           *)
LEMMA Extremes ==
  ASSUME NEW v \in Seq(Nat), v # <<>>
  PROVE  LET n == Len(v)  b == ascending(v)[1]
         IN  /\ b \in 1..n /\ v[b] = at(v, 1) /\ at(v, 1) \in Nat
             /\ max_ns(v) \in Nat /\ \A j \in 1..n : at(v, j) <= max_ns(v)
             /\ n * v[b] <= Sum(v) /\ Sum(v) <= n * max_ns(v)
<1>. DEFINE n == Len(v)  b == ascending(v)[1]
<1>1. n \in Nat \ {0} /\ DOMAIN v = 1..n /\ 1 \in 1..n /\ n \in 1..n
  OBVIOUS
<1>. HIDE DEF n
<1>2. b \in 1..n /\ v[b] = at(v, 1) /\ at(v, 1) \in Nat
  BY <1>1, InOrder DEF n, at
<1>3. \A c \in 1..n : v[c] \in Nat /\ at(v, 1) <= v[c] /\ v[c] <= at(v, n)
  <2>. SUFFICES ASSUME NEW c \in 1..n
                PROVE  v[c] \in Nat /\ at(v, 1) <= v[c] /\ v[c] <= at(v, n)
    OBVIOUS
  <2>1. PICK j \in 1..n : v[c] = at(v, j)
    BY InOrder DEF n
  <2>2. 1 <= j /\ j <= n
    BY <1>1
  <2>. QED
    BY <1>1, <2>1, <2>2, InOrder DEF n
<1>4. Range(v) = {v[c] : c \in 1..n}
  BY <1>1 DEF Range
<1>5. at(v, n) \in Range(v)
  <2>1. ascending(v)[n] \in 1..n
    BY <1>1, InOrder DEF n
  <2>. QED
    BY <1>4, <2>1 DEF at
<1>6. \E w \in Range(v) : \A x \in Range(v) : x <= w
  BY <1>3, <1>4, <1>5
<1>7. max_ns(v) \in Range(v) /\ \A x \in Range(v) : x <= max_ns(v)
  BY <1>6 DEF max_ns
<1>8. max_ns(v) \in Nat /\ \A c \in 1..n : v[c] <= max_ns(v)
  BY <1>3, <1>4, <1>7
<1>9. \A j \in 1..n : at(v, j) <= max_ns(v)
  <2>1. \A j \in 1..n : ascending(v)[j] \in 1..n
    BY InOrder DEF n
  <2>. QED
    BY <1>8, <2>1 DEF at
<1>10. n * v[b] <= Sum(v) /\ Sum(v) <= n * max_ns(v)
  <2>1. 1..n \in FiniteSubsetsOf(Nat) /\ Cardinality(1..n) = n
    BY <1>1, FS_Interval DEF FiniteSubsetsOf
  <2>2. Sum(v) = SumOver(v, 1..n)
    BY <1>1, SumIsSumOver
  <2>3. LET m == Cardinality(1..n)
        IN  m * v[b] <= SumOver(v, 1..n) /\ SumOver(v, 1..n) <= m * max_ns(v)
    <3>. DEFINE lo == v[b]  hi == max_ns(v)  S == 1..n
    <3>1. /\ lo \in Nat /\ hi \in Nat /\ S \in FiniteSubsetsOf(Nat)
          /\ \A k \in S : v[k] \in Nat /\ lo <= v[k] /\ v[k] <= hi
      BY <1>2, <1>3, <1>8, <2>1
    <3>. HIDE DEF lo, hi, S
    <3>2. LET m == Cardinality(S)
          IN  m * lo <= SumOver(v, S) /\ SumOver(v, S) <= m * hi
      BY <3>1, SumBounds
    <3>. QED
      BY <3>2 DEF lo, hi, S
  <2>. QED
    BY <2>1, <2>2, <2>3
<1>. QED
  BY <1>2, <1>8, <1>9, <1>10 DEF n, b

(* What is said of the statistics of a series holds of every series.       *)
LEMMA SeriesInOrder ==
  ASSUME NEW v \in Seq(Nat), v # <<>>
  PROVE  LET n == Len(v)
             Slower(x) == {b \in 1..n : 100 * v[b] > x}
             Faster(x) == {b \in 1..n : 100 * v[b] < x}
         IN  /\ percentile(v, 50) <= percentile(v, 95) /\ percentile(v, 95) <= percentile(v, 99)
             /\ percentile(v, 99) <= 100 * max_ns(v) /\ Sum(v) <= n * max_ns(v)
             /\ \E b \in 1..n : 100 * v[b] <= percentile(v, 50) /\ n * v[b] <= Sum(v)
             /\ 2 * Cardinality(Slower(percentile(v, 50))) <= n
             /\ 2 * Cardinality(Faster(percentile(v, 50))) <= n
             /\ 100 * Cardinality(Slower(percentile(v, 99))) <= n + 98
<1>. DEFINE n == Len(v)  first == ascending(v)[1]
            l50 == Below(n, 50)  h50 == Above(n, 50)  f50 == Part(n, 50)
            l99 == Below(n, 99)  h99 == Above(n, 99)  f99 == Part(n, 99)
            P50 == percentile(v, 50)  P99 == percentile(v, 99)
            S50 == Cardinality({b \in 1..n : 100 * v[b] > P50})
            F50 == Cardinality({b \in 1..n : 100 * v[b] < P50})
            S99 == Cardinality({b \in 1..n : 100 * v[b] > P99})
<1>1. n \in Nat \ {0}
  OBVIOUS
<1>2. percentile(v, 50) <= percentile(v, 95) /\ percentile(v, 95) <= percentile(v, 99)
  BY PercentilesRise
<1>3. /\ l50 \in Nat /\ h50 \in Nat /\ f50 \in 0..99 /\ 100 * l50 + f50 = 50 * (n - 1)
      /\ l50 + 1 \in 1..n /\ h50 = IF f50 = 0 THEN l50 ELSE l50 + 1
  BY <1>1, Places DEF rank, Above
<1>4. /\ l99 \in Nat /\ h99 \in Nat /\ f99 \in 0..99 /\ 100 * l99 + f99 = 99 * (n - 1)
      /\ h99 + 1 \in 1..n
  BY <1>1, Places DEF rank
<1>5. /\ at(v, l50 + 1) \in Nat /\ P50 \in Nat /\ 100 * at(v, l50 + 1) <= P50
      /\ at(v, h99 + 1) \in Nat /\ P99 \in Nat /\ P99 <= 100 * at(v, h99 + 1)
  BY PercentileBetween
<1>6. /\ S50 \in Nat /\ S50 <= n - (l50 + 1) /\ F50 \in Nat /\ F50 <= h50
      /\ S99 \in Nat /\ S99 <= n - (l99 + 1)
  <2>1. 50 \in 0..100 /\ 99 \in 0..100
    OBVIOUS
  <2>2. S50 \in Nat /\ S50 <= n - (l50 + 1) /\ F50 \in Nat /\ F50 <= h50
    BY <2>1, BesidePercentile
  <2>3. S99 \in Nat /\ S99 <= n - (l99 + 1)
    BY <2>1, BesidePercentile
  <2>. QED
    BY <2>2, <2>3
<1>7. /\ first \in 1..n /\ v[first] = at(v, 1) /\ at(v, 1) \in Nat
      /\ max_ns(v) \in Nat /\ \A j \in 1..n : at(v, j) <= max_ns(v)
      /\ n * v[first] <= Sum(v) /\ Sum(v) <= n * max_ns(v)
  BY Extremes
<1>8. \A j \in 1..n : at(v, 1) <= at(v, j)
  <2>1. \A j \in 1..n : 1 \in 1..n /\ 1 <= j
    BY <1>1
  <2>. QED
    BY <2>1, InOrder
<1>. HIDE DEF n, first, l50, h50, f50, l99, h99, f99, P50, P99, S50, F50, S99
<1>9. P99 <= 100 * max_ns(v)
  BY <1>4, <1>5, <1>7
<1>10. 100 * v[first] <= P50
  BY <1>3, <1>5, <1>7, <1>8
<1>11. 2 * S50 <= n
  BY <1>1, <1>3, <1>6
<1>12. 2 * F50 <= n
  <2>1. CASE f50 = 0
    <3>1. 2 * l50 = n - 1 /\ h50 = l50
      BY <1>1, <1>3, <2>1
    <3>. QED
      BY <1>1, <1>3, <1>6, <3>1
  <2>2. CASE f50 # 0
    <3>1. 2 * l50 + 1 = n - 1 /\ h50 = l50 + 1
      BY <1>1, <1>3, <2>2
    <3>. QED
      BY <1>1, <1>3, <1>6, <3>1
  <2>. QED
    BY <2>1, <2>2
<1>13. 100 * S99 <= n + 98
  BY <1>1, <1>4, <1>6
<1>. QED
  BY <1>2, <1>7, <1>9, <1>10, <1>11, <1>12, <1>13 DEF n, P50, P99, S50, F50, S99

(* The statistics a report is read by are in order, whatever the batches.  *)
THEOREM StatisticsInOrder == Spec => []StatsInOrder
<1>1. IInv => StatsInOrder
  <2>. SUFFICES ASSUME IInv, pc = "returned", Stats.available PROVE StatsInOrder
    BY DEF StatsInOrder
  <2>1. series \in Seq(Nat) /\ series # <<>>
    BY DEF IInv, TypeOK, Stats, summarize
  <2>2. /\ Stats.median = percentile(series, 50) /\ Stats.p95 = percentile(series, 95)
        /\ Stats.p99 = percentile(series, 99)
        /\ Stats.mean = Sum(series) /\ Stats.max = max_ns(series)
    BY <2>1 DEF Stats, summarize
  <2>. QED
    <3>. DEFINE n == Len(series)  P(p) == percentile(series, p)
                Slower(x) == {b \in 1..n : 100 * series[b] > x}
                Faster(x) == {b \in 1..n : 100 * series[b] < x}
    <3>1. /\ P(50) <= P(95) /\ P(95) <= P(99)
          /\ P(99) <= 100 * max_ns(series) /\ Sum(series) <= n * max_ns(series)
          /\ \E b \in 1..n : 100 * series[b] <= P(50) /\ n * series[b] <= Sum(series)
          /\ 2 * Cardinality(Slower(P(50))) <= n
          /\ 2 * Cardinality(Faster(P(50))) <= n
          /\ 100 * Cardinality(Slower(P(99))) <= n + 98
      BY <2>1, SeriesInOrder
    <3>2. /\ Stats.median <= Stats.p95 /\ Stats.p95 <= Stats.p99
          /\ Stats.p99 <= 100 * Stats.max /\ Stats.mean <= n * Stats.max
          /\ \E b \in 1..n : 100 * series[b] <= Stats.median /\ n * series[b] <= Stats.mean
          /\ 2 * Cardinality(Slower(Stats.median)) <= n
          /\ 2 * Cardinality(Faster(Stats.median)) <= n
          /\ 100 * Cardinality(Slower(Stats.p99)) <= n + 98
      BY <2>2, <3>1
    <3>. QED
      BY <3>2 DEF StatsInOrder
<1>. QED
  BY <1>1, Inductive, PTL

=============================================================================
