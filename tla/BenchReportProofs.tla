-------------------------- MODULE BenchReportProofs --------------------------
(***************************************************************************)
(* Theorems of BenchReport for every number of invalid cases and all       *)
(* timings: the validation-path benchmark publishes all of its buckets or  *)
(* none, whichever call throws; no run leaves a new Markdown report beside *)
(* an old JSON one; a status is earned, the summary of the invalid cases   *)
(* encloses them, the conclusion that compares the timings of three kinds  *)
(* is drawn only when all of these are complete, and a report the gate     *)
(* accepts without the exemption is of one mind and complete.              *)
(***************************************************************************)
EXTENDS BenchReport, FiniteSetTheorems, TLAPS

AllSteps ==
  SlhSteps \cup SetupSteps \cup BatchSteps \cup PathSteps \cup MainSteps
    \cup ReportSteps \cup {"exited"}

BeforePath == SlhSteps \cup SetupSteps \cup BatchSteps \cup MainSteps \cup {"path_preflight"}

AfterPath == ReportSteps \cup {"exited"}

(* Buckets are timed in this order.                                        *)
Rank ==
  [structural_checks |-> 1, qrs_msg_construction |-> 2, verifier_valid |-> 3,
   total_valid |-> 4, invalid_structural |-> 5, invalid_fixed_length |-> 6]

PathResults ==
  [status : {"available", "unavailable"}, reason : Reasons \cup {"none"},
   stats : [Buckets -> [available : BOOLEAN, status : {"available", "unavailable"}, p99 : Nat]]]

(* What the program point knows of the validation-path result: nothing     *)
(* before the benchmark, the buckets before the current one within it,     *)
(* all or none of them after it.                                           *)
PathProgress ==
  /\ pc \in AllSteps
  /\ path \in PathResults
  /\ pc \in BeforePath => path = QrsValidationPathResult
  /\ pc \in Buckets =>
       /\ path.status = "unavailable"
       /\ \A b \in Buckets : path.stats[b].available <=> Rank[b] < Rank[pc]
  /\ pc \in AfterPath =>
       \/ path.status = "available"   /\ \A b \in Buckets : path.stats[b].available
       \/ path.status = "unavailable" /\ \A b \in Buckets : ~path.stats[b].available

(* Statistics, unavailable or summarized, have their shape.                *)
LEMMA DefaultPath ==
  /\ QrsValidationPathResult \in PathResults
  /\ QrsValidationPathResult.status = "unavailable"
  /\ \A b \in Buckets : ~QrsValidationPathResult.stats[b].available
BY DEF QrsValidationPathResult, PathResults, NoBuckets, Unavailable, Reasons

(* Steps that leave the validation path alone and stay on one side of it.  *)
LEMMA PathUntouched ==
  ASSUME PathProgress, path' = path, pc' \in AllSteps,
         \/ pc \in BeforePath /\ pc' \in BeforePath
         \/ pc \in AfterPath /\ pc' \in AfterPath
         \/ pc = "path" /\ pc' = "model"
         \/ pc = "path_preflight" /\ pc' = "structural_checks"
  PROVE  PathProgress'
<1>. USE DEF PathProgress, AllSteps, BeforePath, AfterPath, SlhSteps, ProbeSteps, SetupSteps,
           BatchSteps, PathSteps, Buckets, MainSteps, ReportSteps
<1>1. CASE pc \in BeforePath /\ pc' \in BeforePath
  BY <1>1
<1>2. CASE pc \in AfterPath /\ pc' \in AfterPath
  BY <1>2
<1>3. CASE pc = "path" /\ pc' = "model"
  BY <1>3, DefaultPath
<1>4. CASE pc = "path_preflight" /\ pc' = "structural_checks"
  BY <1>4, DefaultPath DEF Rank
<1>. QED
  BY <1>1, <1>2, <1>3, <1>4

(* A timing adds its bucket to those before it; the last one publishes.    *)
LEMMA TimingProgress ==
  ASSUME PathProgress, PathTiming
  PROVE  PathProgress'
<1>1. PICK p99 \in OtherP99 :
        path' = [path EXCEPT !.stats[pc] = summarize(p99),
                             !.status = IF pc = "invalid_fixed_length"
                                          THEN "available" ELSE @]
  BY DEF PathTiming
<1>2. pc \in Buckets /\ pc' = NextStep[pc] /\ path \in PathResults
  BY DEF PathTiming, PathProgress
<1>3. p99 \in Nat
  BY P99Assumption
<1>4. path' \in PathResults
  BY <1>1, <1>2, <1>3 DEF PathResults, summarize
<1>5. /\ path'.stats[pc].available
      /\ \A b \in Buckets : b # pc => path'.stats[b] = path.stats[b]
      /\ path'.status = IF pc = "invalid_fixed_length" THEN "available" ELSE path.status
  BY <1>1, <1>2 DEF PathResults, summarize
<1>6. CASE pc = "invalid_fixed_length"
  <2>1. pc' = "model"
    BY <1>2, <1>6 DEF NextStep
  <2>2. \A b \in Buckets : b # pc => path.stats[b].available
    BY <1>6 DEF PathProgress, Buckets, Rank
  <2>3. path'.status = "available" /\ \A b \in Buckets : path'.stats[b].available
    BY <1>5, <1>6, <2>2
  <2>. QED
    BY <1>4, <2>1, <2>3
    DEF PathProgress, AllSteps, BeforePath, AfterPath, SlhSteps, ProbeSteps, SetupSteps,
        BatchSteps, MainSteps, ReportSteps, Buckets
<1>7. CASE pc # "invalid_fixed_length"
  <2>1. pc' \in Buckets /\ Rank[pc'] = Rank[pc] + 1
    BY <1>2, <1>7 DEF NextStep, Buckets, Rank
  <2>2. \A b \in Buckets : path'.stats[b].available <=> Rank[b] < Rank[pc']
    <3>. SUFFICES ASSUME NEW b \in Buckets
                  PROVE  path'.stats[b].available <=> Rank[b] < Rank[pc']
      OBVIOUS
    <3>1. CASE b = pc
      BY <1>5, <2>1, <3>1, <1>2 DEF Rank, Buckets
    <3>2. CASE b # pc
      <4>1. path'.stats[b].available <=> Rank[b] < Rank[pc]
        BY <1>2, <1>5, <3>2 DEF PathProgress
      <4>2. Rank[b] < Rank[pc] <=> Rank[b] < Rank[pc']
        BY <1>2, <2>1, <3>2 DEF Rank, Buckets
      <4>. QED
        BY <4>1, <4>2
    <3>. QED
      BY <3>1, <3>2
  <2>3. path'.status = "unavailable"
    BY <1>2, <1>5, <1>7 DEF PathProgress
  <2>. QED
    BY <1>4, <2>1, <2>2, <2>3
    DEF PathProgress, AllSteps, BeforePath, AfterPath, SlhSteps, ProbeSteps, SetupSteps,
        BatchSteps, PathSteps, MainSteps, ReportSteps, Buckets
<1>. QED
  BY <1>6, <1>7

(* A throw resets every bucket.                                            *)
LEMMA ThrowProgress ==
  ASSUME PathProgress, PathThrows
  PROVE  PathProgress'
<1>1. /\ path' \in PathResults
      /\ path'.status = "unavailable"
      /\ \A b \in Buckets : ~path'.stats[b].available
      /\ pc' = "model"
  BY DEF PathThrows, PathResults, NoBuckets, Unavailable, Reasons
<1>. QED
  BY <1>1 DEF PathProgress, AllSteps, BeforePath, AfterPath, SlhSteps, ProbeSteps, SetupSteps,
        BatchSteps, MainSteps, ReportSteps, Buckets

(* Every other step is a step before the benchmark, into it or after it.   *)
LEMMA OtherSteps ==
  ASSUME PathProgress, [Next]_vars, ~PathTiming, ~PathThrows
  PROVE  PathProgress'
<1>. USE DEF AllSteps, BeforePath, AfterPath, SlhSteps, ProbeSteps, SetupSteps,
           BatchSteps, PathSteps, Buckets, MainSteps, ReportSteps
<1>1. CASE Dispatch
  BY <1>1, PathUntouched DEF Dispatch
<1>2. CASE SlhProbe \/ SlhTimeValid \/ SlhTimeCase \/ SlhSelect \/ SlhFinish \/ SlhThrows
  <2>1. path' = path /\ pc \in SlhSteps /\ pc' \in SlhSteps \cup {"schnorr"}
    <3>1. CASE SlhProbe
      BY <3>1 DEF SlhProbe, NextStep
    <3>2. CASE SlhTimeValid
      BY <3>2 DEF SlhTimeValid
    <3>3. CASE SlhTimeCase
      BY <3>3 DEF SlhTimeCase
    <3>4. CASE SlhSelect
      <4>. HIDE DEF select_invalid_summary_stats
      <4>. QED
        BY <3>4 DEF SlhSelect
    <3>5. CASE SlhFinish
      BY <3>5 DEF SlhFinish
    <3>6. CASE SlhThrows
      BY <3>6 DEF SlhThrows
    <3>. QED
      BY <1>2, <3>1, <3>2, <3>3, <3>4, <3>5, <3>6
  <2>. QED
    BY <2>1, PathUntouched
<1>3. CASE SchnorrSetup \/ SchnorrIndividual \/ SchnorrSetupThrows \/ SchnorrSelfTest
  BY <1>3, PathUntouched
  DEF SchnorrSetup, SchnorrIndividual, SchnorrSetupThrows, SchnorrSelfTest
<1>4. CASE BatchSize \/ BatchLoopDone \/ BatchThrows
  BY <1>4, PathUntouched DEF BatchSize, BatchLoopDone, BatchThrows
<1>5. CASE PathPreflight
  BY <1>5, PathUntouched DEF PathPreflight
<1>6. CASE BuildModel \/ WriteJson \/ WriteMarkdown \/ MainThrows \/ Gate
  BY <1>6, PathUntouched DEF BuildModel, WriteJson, WriteMarkdown, MainThrows, Gate
<1>7. CASE UNCHANGED vars
  BY <1>7 DEF vars, PathProgress
<1>. QED
  BY <1>1, <1>2, <1>3, <1>4, <1>5, <1>6, <1>7 DEF Next

(* The invariant that carries the refinement.                              *)
THEOREM PathInvariant == Spec => []PathProgress
<1>1. Init => PathProgress
  BY DefaultPath DEF Init, PathProgress, AllSteps, BeforePath, AfterPath, SlhSteps, ProbeSteps,
     SetupSteps, BatchSteps, PathSteps, Buckets, MainSteps, ReportSteps
<1>2. PathProgress /\ [Next]_vars => PathProgress'
  BY TimingProgress, ThrowProgress, OtherSteps
<1>. QED
  BY <1>1, <1>2, PTL DEF Spec

(* The validation-path benchmark implements the atomic publication: its    *)
(* catch block leaves no bucket behind, whichever library call throws.     *)
THEOREM PathRefinement == Spec => PathPublishesAtomically
<1>. USE DEF AllSteps, BeforePath, AfterPath, PathPending, SlhSteps, ProbeSteps, SetupSteps,
           BatchSteps, PathSteps, Buckets, MainSteps, ReportSteps
<1>1. Init => Path!Init
  BY DEF Init, Path!Init
<1>2. ASSUME PathProgress, PathProgress', [Next]_vars
      PROVE  [Path!Publish]_(Path!outcomeVars)
  <2>1. CASE PathPending /\ PathPending'
    BY <2>1 DEF Path!outcomeVars
  <2>2. CASE PathPending /\ ~PathPending'
    <3>1. pc' \in AfterPath
      BY <1>2, <2>2 DEF PathProgress
    <3>2. \/ path'.status = "available"   /\ \A b \in Buckets : path'.stats[b].available
          \/ path'.status = "unavailable" /\ \A b \in Buckets : ~path'.stats[b].available
      BY <1>2, <3>1 DEF PathProgress
    <3>. QED
      BY <2>2, <3>2 DEF Path!Publish
  <2>3. CASE ~PathPending
    <3>1. pc \in AfterPath
      BY <1>2, <2>3 DEF PathProgress
    <3>2. pc' \in AfterPath /\ path' = path
      BY <1>2, <3>1 DEF Next, vars, Dispatch, SlhProbe, SlhTimeValid, SlhTimeCase, SlhSelect,
         SlhFinish, SlhThrows, SchnorrSetup, SchnorrIndividual, SchnorrSetupThrows, SchnorrSelfTest,
         BatchSize, BatchLoopDone, BatchThrows, PathPreflight, PathTiming, PathThrows,
         BuildModel, WriteJson, WriteMarkdown, MainThrows, Gate
    <3>. QED
      BY <2>3, <3>2 DEF Path!outcomeVars
  <2>. QED
    BY <2>1, <2>2, <2>3
<1>3. Spec => []PathProgress
  BY PathInvariant
<1>. QED
  BY <1>1, <1>2, <1>3, PTL DEF Spec, Path!Spec, PathPublishesAtomically

(* What the program point knows of the two files and the exit code.        *)
FilesProgress ==
  /\ pc \in AllSteps
  /\ pc = "write_markdown" => json \in {"cut", "whole"}
  /\ markdown \in {"cut", "whole"} => pc = "exited" /\ json \in {"cut", "whole"}
  /\ exit = 0 => pc = "exited" /\ {json, markdown} \subseteq {"cut", "whole"}

(* No exit with 0 leaves an earlier run's file, and the Markdown report is *)
(* only ever written after the JSON one of the same run.                   *)
THEOREM ReportsFresh == Spec => []FreshReports
<1>. USE DEF AllSteps, SlhSteps, ProbeSteps, SetupSteps, BatchSteps, PathSteps, Buckets,
           MainSteps, ReportSteps
<1>1. Init => FilesProgress
  BY DEF Init, FilesProgress
<1>2. ASSUME FilesProgress, PathProgress', [Next]_vars
      PROVE  FilesProgress'
  <2>0. pc' \in AllSteps
    BY <1>2 DEF PathProgress
  <2>1. CASE WriteJson
    BY <1>2, <2>1 DEF WriteJson, FilesProgress
  <2>2. CASE WriteMarkdown
    BY <1>2, <2>2 DEF WriteMarkdown, FilesProgress
  <2>3. CASE MainThrows
    BY <1>2, <2>3 DEF MainThrows, FilesProgress
  <2>4. CASE Gate \/ UNCHANGED vars
    BY <1>2, <2>4 DEF Gate, vars, FilesProgress
  <2>5. CASE ~(WriteJson \/ WriteMarkdown \/ MainThrows \/ Gate) /\ Next
    <3>1. UNCHANGED <<json, markdown, exit>> /\ pc \notin {"write_markdown", "exited"}
      BY <2>5 DEF Next, Dispatch, SlhProbe, SlhTimeValid, SlhTimeCase, SlhSelect, SlhFinish,
         SlhThrows, SchnorrSetup, SchnorrIndividual, SchnorrSetupThrows, SchnorrSelfTest, BatchSize,
         BatchLoopDone, BatchThrows, PathPreflight, PathTiming, PathThrows, BuildModel
    <3>2. pc' # "write_markdown"
      <4>1. CASE SlhProbe
        BY <4>1 DEF SlhProbe, NextStep
      <4>2. CASE PathTiming
        BY <4>2 DEF PathTiming, NextStep
      <4>3. CASE SlhTimeCase
        BY <4>3 DEF SlhTimeCase
      <4>4. CASE BatchSize
        BY <4>4 DEF BatchSize
      <4>5. CASE ~(SlhProbe \/ PathTiming \/ SlhTimeCase \/ BatchSize)
        BY <2>5, <4>5 DEF Next, Dispatch, SlhTimeValid, SlhSelect, SlhFinish, SlhThrows,
           SchnorrSetup, SchnorrIndividual, SchnorrSetupThrows, SchnorrSelfTest, BatchLoopDone,
           BatchThrows, PathPreflight, PathThrows, BuildModel
      <4>. QED
        BY <4>1, <4>2, <4>3, <4>4, <4>5
    <3>. QED
      BY <1>2, <2>0, <3>1, <3>2 DEF FilesProgress
  <2>. QED
    BY <1>2, <2>1, <2>2, <2>3, <2>4, <2>5
<1>3. FilesProgress => FreshReports
  BY DEF FilesProgress, FreshReports
<1>. QED
  BY <1>1, <1>2, <1>3, PathInvariant, PTL DEF Spec

-----------------------------------------------------------------------------
(* Any numbers that are indexed by numbers can be sorted: the place of an  *)
(* index is the number of those that are not after it.                     *)
LEMMA Sorting ==
  ASSUME NEW S \in SUBSET Nat, IsFiniteSet(S), NEW key \in [S -> Nat]
  PROVE  LET n == Cardinality(S)  order == ascending(key)
         IN  /\ n \in Nat /\ order \in [1..n -> S]
             /\ \A k \in S : \E j \in 1..n : order[j] = k
             /\ \A j, l \in 1..n : j < l => key[order[j]] <= key[order[l]]
<1>. DEFINE n == Cardinality(S)
            UpTo(k) == {l \in S : key[l] < key[k] \/ (key[l] = key[k] /\ l <= k)}
            place == [k \in S |-> Cardinality(UpTo(k))]
            order == [j \in 1..n |-> CHOOSE k \in S : place[k] = j]
<1>1. n \in Nat /\ \A k \in S : key[k] \in Nat /\ k \in Nat
  BY FS_CardinalityType
<1>2. \A k \in S : IsFiniteSet(UpTo(k)) /\ place[k] \in 1..n
  <2>. SUFFICES ASSUME NEW k \in S PROVE IsFiniteSet(UpTo(k)) /\ place[k] \in 1..n
    OBVIOUS
  <2>1. UpTo(k) \in SUBSET S /\ k \in UpTo(k)
    OBVIOUS
  <2>. HIDE DEF UpTo
  <2>2. IsFiniteSet(UpTo(k)) /\ Cardinality(UpTo(k)) <= n
    BY <2>1, FS_Subset
  <2>3. Cardinality(UpTo(k)) \in Nat /\ Cardinality(UpTo(k)) # 0
    BY <2>1, <2>2, FS_CardinalityType, FS_EmptySet
  <2>. QED
    BY <1>1, <2>2, <2>3
<1>3. ASSUME NEW k \in S, NEW l \in S, key[k] < key[l] \/ (key[k] = key[l] /\ k < l)
      PROVE  place[k] < place[l]
  <2>1. UpTo(k) \subseteq UpTo(l) /\ l \in UpTo(l) /\ l \notin UpTo(k)
    <3>1. l \in UpTo(l) /\ l \notin UpTo(k)
      BY <1>1, <1>3
    <3>2. ASSUME NEW m \in UpTo(k) PROVE m \in UpTo(l)
      BY <1>1, <1>3
    <3>. QED
      BY <3>1, <3>2
  <2>2. place[k] = Cardinality(UpTo(k)) /\ place[l] = Cardinality(UpTo(l))
    OBVIOUS
  <2>. HIDE DEF UpTo, place
  <2>3. /\ Cardinality(UpTo(k)) <= Cardinality(UpTo(l))
        /\ Cardinality(UpTo(k)) # Cardinality(UpTo(l))
    BY <1>2, <2>1, FS_Subset
  <2>. QED
    BY <1>1, <1>2, <2>2, <2>3
<1>4. place \in Injection(S, 1..n)
  <2>1. place \in [S -> 1..n]
    BY <1>2
  <2>2. ASSUME NEW k \in S, NEW l \in S, place[k] = place[l] PROVE k = l
    <3>1. /\ ~(key[k] < key[l]) /\ ~(key[l] < key[k])
          /\ ~(key[k] = key[l] /\ k < l) /\ ~(key[k] = key[l] /\ l < k)
      <4>. place[k] \in Nat
        BY <1>1, <1>2
      <4>. HIDE DEF place, UpTo
      <4>. QED
        BY <1>3, <2>2
    <3>. QED
      BY <1>1, <3>1
  <2>. HIDE DEF place
  <2>. QED
    BY <2>1, <2>2 DEF Injection, IsInjective
<1>5. \A j \in 1..n : \E k \in S : place[k] = j
  <2>1. IsFiniteSet(1..n) /\ Cardinality(1..n) = n
    BY <1>1, FS_Interval
  <2>2. place \in Surjection(S, 1..n)
    BY <1>4, <2>1, FS_Injection
  <2>. HIDE DEF place
  <2>. QED
    BY <2>2 DEF Surjection
<1>. HIDE DEF place
<1>6. \A j \in 1..n : order[j] \in S /\ place[order[j]] = j
  BY <1>5
<1>7. order \in [1..n -> S]
  BY <1>6
<1>8. \A k \in S : \E j \in 1..n : order[j] = k
  <2>. SUFFICES ASSUME NEW k \in S PROVE order[place[k]] = k
    BY <1>2
  <2>1. /\ place[k] \in 1..n /\ order[place[k]] \in S
        /\ place[order[place[k]]] = place[k]
    BY <1>2, <1>6
  <2>. QED
    BY <1>4, <2>1 DEF Injection, IsInjective
<1>9. ASSUME NEW j \in 1..n, NEW l \in 1..n, j < l PROVE key[order[j]] <= key[order[l]]
  <2>1. order[j] \in S /\ order[l] \in S /\ ~(place[order[l]] < place[order[j]])
    BY <1>6, <1>9
  <2>. HIDE DEF order
  <2>2. ~(key[order[l]] < key[order[j]])
    BY <1>3, <2>1
  <2>3. key[order[j]] \in Nat /\ key[order[l]] \in Nat
    BY <1>1, <2>1
  <2>. QED
    BY <2>2, <2>3
<1>. HIDE DEF order
<1>10. DOMAIN key = S
  OBVIOUS
<1>. QED
  BY <1>1, <1>7, <1>8, <1>9, <1>10 DEF ascending

(* Fewer numbers than its place lie below a number, and so for above.      *)
LEMMA Ranks ==
  ASSUME NEW S \in SUBSET Nat, IsFiniteSet(S), NEW key \in [S -> Nat],
         NEW j \in 1..Cardinality(S), NEW T \in SUBSET S
  PROVE  LET at == key[ascending(key)[j]]
         IN  /\ (\A k \in T : key[k] < at) => Cardinality(T) <= j - 1
             /\ (\A k \in T : key[k] > at) => Cardinality(T) <= Cardinality(S) - j
<1>. DEFINE n == Cardinality(S)  order == ascending(key)
<1>1. /\ n \in Nat /\ order \in [1..n -> S]
      /\ \A k \in S : \E l \in 1..n : order[l] = k
      /\ \A l, m \in 1..n : l < m => key[order[l]] <= key[order[m]]
  BY Sorting
<1>. HIDE DEF n, order
<1>2. j \in Nat /\ j >= 1 /\ j <= n
  BY <1>1 DEF n
<1>3. ASSUME NEW a \in Nat, NEW m \in Nat, a + m <= n,
             \A k \in T : \E l \in (a + 1)..(a + m) : order[l] = k
      PROVE  Cardinality(T) <= m
  <2>. DEFINE f == [l \in 1..m |-> order[a + l]]  U == {f[l] : l \in 1..m}
  <2>1. f \in Surjection(1..m, U)
    BY DEF Surjection
  <2>2. IsFiniteSet(1..m) /\ Cardinality(1..m) = m
    BY FS_Interval
  <2>3. T \subseteq U
    <3>. SUFFICES ASSUME NEW k \in T PROVE k \in U
      OBVIOUS
    <3>1. PICK l \in (a + 1)..(a + m) : order[l] = k
      BY <1>3
    <3>2. l - a \in 1..m /\ a + (l - a) = l
      OBVIOUS
    <3>3. f[l - a] = k
      BY <3>1, <3>2
    <3>. QED
      BY <3>2, <3>3
  <2>. HIDE DEF f, U
  <2>4. IsFiniteSet(U) /\ Cardinality(U) <= m
    BY <2>1, <2>2, FS_Surjection
  <2>5. IsFiniteSet(T) /\ Cardinality(T) <= Cardinality(U)
    BY <2>3, <2>4, FS_Subset
  <2>6. Cardinality(T) \in Nat /\ Cardinality(U) \in Nat
    BY <2>4, <2>5, FS_CardinalityType
  <2>. QED
    BY <2>4, <2>5, <2>6
<1>4. \A l \in 1..n : order[l] \in S /\ key[order[l]] \in Nat
  BY <1>1
<1>5. ASSUME \A k \in T : key[k] < key[order[j]]
      PROVE  Cardinality(T) <= j - 1
  <2>0. j - 1 \in Nat /\ 0 \in Nat /\ 0 + (j - 1) <= n
    BY <1>1, <1>2
  <2>. SUFFICES ASSUME NEW k \in T PROVE \E l \in (0 + 1)..(0 + (j - 1)) : order[l] = k
    BY <1>3, <2>0
  <2>1. PICK l \in 1..n : order[l] = k
    BY <1>1
  <2>2. key[order[l]] < key[order[j]]
    BY <1>5, <2>1
  <2>3. ~(j < l) /\ j # l
    <3>1. key[order[l]] \in Nat /\ key[order[j]] \in Nat
      BY <1>2, <1>4
    <3>. QED
      BY <1>1, <1>2, <2>2, <3>1
  <2>. QED
    BY <1>1, <1>2, <2>1, <2>3
<1>6. ASSUME \A k \in T : key[k] > key[order[j]]
      PROVE  Cardinality(T) <= n - j
  <2>1. n - j \in Nat /\ j + (n - j) = n
    BY <1>1, <1>2
  <2>. SUFFICES ASSUME NEW k \in T PROVE \E l \in (j + 1)..(j + (n - j)) : order[l] = k
    BY <1>1, <1>2, <1>3, <2>1
  <2>2. PICK l \in 1..n : order[l] = k
    BY <1>1
  <2>3. key[order[l]] > key[order[j]]
    BY <1>6, <2>2
  <2>4. ~(l < j) /\ j # l
    <3>1. key[order[l]] \in Nat /\ key[order[j]] \in Nat
      BY <1>2, <1>4
    <3>. QED
      BY <1>1, <1>2, <2>3, <3>1
  <2>. QED
    BY <1>1, <1>2, <2>1, <2>2, <2>4
<1>. QED
  BY <1>5, <1>6 DEF n, order

-----------------------------------------------------------------------------
(* What summarize returns of some timing.                                  *)
Summaries == {summarize(p99) : p99 \in CaseP99 \cup OtherP99}

(* A summary is always available, and withdrawing keeps a Stats a Stats.   *)
LEMMA SummaryTypes ==
  /\ Unavailable \in Stats /\ ~Unavailable.available
  /\ \A s \in Summaries : /\ s \in Stats /\ s.available /\ s.status = "available"
                          /\ s.p99 \in Nat
  /\ \A s \in Stats : Withdrawn(s) \in Stats
  /\ \A p99 \in CaseP99 \cup OtherP99 : summarize(p99) \in Summaries
<1>1. CaseP99 \cup OtherP99 \subseteq Nat
  BY P99Assumption
<1>2. Unavailable \in Stats /\ ~Unavailable.available
  BY DEF Unavailable, Stats
<1>3. \A p99 \in CaseP99 \cup OtherP99 :
        /\ summarize(p99) \in Stats /\ summarize(p99).available
        /\ summarize(p99).status = "available" /\ summarize(p99).p99 \in Nat
  BY <1>1 DEF Stats, summarize
<1>4. \A s \in Stats : Withdrawn(s) \in Stats
  BY DEF Stats, Withdrawn
<1>. HIDE DEF summarize
<1>. QED
  BY <1>2, <1>3, <1>4 DEF Summaries

(* What is reported of the cases encloses them.                            *)
Encloses(cases, s) ==
  LET Below(p99) == {k \in DOMAIN cases : cases[k].p99 < p99}
      Above(p99) == {k \in DOMAIN cases : cases[k].p99 > p99}
  IN  /\ Below(s.min.p99) = {} /\ Above(s.worst.p99) = {}
      /\ {s.min, s.median, s.worst} \subseteq Elements(cases)
      /\ 2 * Cardinality(Below(s.median.p99)) <= Len(cases)
      /\ 2 * Cardinality(Above(s.median.p99)) <= Len(cases)

(* ... as select_invalid_summary_stats does of whatever was timed.         *)
LEMMA Selected ==
  ASSUME NEW cases \in Seq(Summaries), cases # <<>>
  PROVE  Encloses(cases, select_invalid_summary_stats(cases))
<1>. DEFINE n == Len(cases)  S == 1..n  key == [k \in S |-> cases[k].p99]
            order == ascending(key)  m == n \div 2 + 1
            Below(p99) == {k \in DOMAIN cases : cases[k].p99 < p99}
            Above(p99) == {k \in DOMAIN cases : cases[k].p99 > p99}
<1>1. /\ n \in Nat /\ n >= 1 /\ DOMAIN cases = S
      /\ \A k \in S : cases[k] \in Summaries
  OBVIOUS
<1>2. \A k \in S : cases[k].available /\ cases[k].p99 \in Nat
  BY <1>1, SummaryTypes
<1>3. /\ S \in SUBSET Nat /\ IsFiniteSet(S) /\ Cardinality(S) = n
      /\ key \in [S -> Nat] /\ \A k \in S : key[k] = cases[k].p99
  <2>1. IsFiniteSet(1..n) /\ Cardinality(1..n) = n
    BY <1>1, FS_Interval
  <2>2. key \in [S -> Nat] /\ \A k \in S : key[k] = cases[k].p99
    BY <1>2
  <2>. HIDE DEF key
  <2>. QED
    BY <2>1, <2>2
<1>4. select_invalid_summary_stats(cases)
        = [min |-> cases[order[1]], median |-> cases[order[m]], worst |-> cases[order[n]]]
  <2>1. {k \in DOMAIN cases : cases[k].available} = S
    BY <1>1, <1>2
  <2>. HIDE DEF S
  <2>. QED
    BY <1>3, <2>1 DEF select_invalid_summary_stats
<1>. HIDE DEF order, S, key
<1>5. /\ order \in [1..n -> S]
      /\ \A k \in S : \E j \in 1..n : order[j] = k
      /\ \A j, l \in 1..n : j < l => key[order[j]] <= key[order[l]]
  BY <1>3, Sorting DEF order
<1>6. 1 \in 1..n /\ m \in 1..n /\ n \in 1..n
  BY <1>1
<1>7. \A j \in 1..n : order[j] \in S /\ cases[order[j]].p99 = key[order[j]]
  BY <1>3, <1>5
<1>8. ASSUME NEW j \in 1..n
      PROVE  /\ IsFiniteSet(Below(cases[order[j]].p99)) /\ IsFiniteSet(Above(cases[order[j]].p99))
             /\ Cardinality(Below(cases[order[j]].p99)) <= j - 1
             /\ Cardinality(Above(cases[order[j]].p99)) <= n - j
  <2>. DEFINE at == cases[order[j]].p99
  <2>1. at = key[ascending(key)[j]] /\ j \in 1..Cardinality(S)
    BY <1>3, <1>7 DEF order
  <2>2. Below(at) \in SUBSET S /\ \A k \in Below(at) : key[k] < at
    BY <1>1, <1>3
  <2>3. Above(at) \in SUBSET S /\ \A k \in Above(at) : key[k] > at
    BY <1>1, <1>3
  <2>. HIDE DEF at, Below, Above
  <2>4. Cardinality(Below(at)) <= j - 1
    BY <1>3, <2>1, <2>2, Ranks
  <2>5. Cardinality(Above(at)) <= n - j
    BY <1>3, <2>1, <2>3, Ranks
  <2>6. IsFiniteSet(Below(at)) /\ IsFiniteSet(Above(at))
    BY <1>3, <2>2, <2>3, FS_Subset
  <2>. QED
    BY <2>4, <2>5, <2>6 DEF at
<1>9. Below(cases[order[1]].p99) = {} /\ Above(cases[order[n]].p99) = {}
  <2>. HIDE DEF Below, Above
  <2>1. /\ IsFiniteSet(Below(cases[order[1]].p99)) /\ IsFiniteSet(Above(cases[order[n]].p99))
        /\ Cardinality(Below(cases[order[1]].p99)) <= 0
        /\ Cardinality(Above(cases[order[n]].p99)) <= 0
    BY <1>1, <1>6, <1>8
  <2>. QED
    BY <2>1, FS_CardinalityType, FS_EmptySet
<1>10. /\ 2 * Cardinality(Below(cases[order[m]].p99)) <= n
       /\ 2 * Cardinality(Above(cases[order[m]].p99)) <= n
  <2>. HIDE DEF Below, Above
  <2>1. Cardinality(Below(cases[order[m]].p99)) <= m - 1
        /\ Cardinality(Above(cases[order[m]].p99)) <= n - m
        /\ Cardinality(Below(cases[order[m]].p99)) \in Nat
        /\ Cardinality(Above(cases[order[m]].p99)) \in Nat
    BY <1>6, <1>8, FS_CardinalityType
  <2>. QED
    BY <1>1, <2>1
<1>11. {cases[order[1]], cases[order[m]], cases[order[n]]} \subseteq Elements(cases)
  BY <1>1, <1>6, <1>7 DEF Elements
<1>. QED
  BY <1>4, <1>9, <1>10, <1>11 DEF Encloses

-----------------------------------------------------------------------------
(* A throw withdraws a status and leaves the flag as it is.                *)
LEMMA WithdrawnUnavailable == Withdrawn(Unavailable) = Unavailable
BY DEF Withdrawn, Unavailable

LEMMA WithdrawnKeeps ==
  ASSUME NEW s \in Stats
  PROVE  Withdrawn(s).available = s.available /\ Withdrawn(s).p99 = s.p99
BY DEF Withdrawn, Stats

(* From the validation path on, both results stay as they are.             *)
LEMMA LastSteps ==
  ASSUME PathPreflight \/ PathTiming \/ PathThrows \/ BuildModel \/ WriteJson
           \/ WriteMarkdown \/ MainThrows \/ Gate
  PROVE  /\ slh' = slh /\ schnorr' = schnorr /\ results' = results
         /\ pc' \in Buckets \cup ReportSteps \cup {"exited"}
<1>1. CASE PathTiming
  <2>1. /\ slh' = slh /\ schnorr' = schnorr /\ results' = results
        /\ pc \in Buckets /\ pc' = NextStep[pc]
    BY <1>1 DEF PathTiming
  <2>. QED
    BY <2>1 DEF NextStep, Buckets, ReportSteps
<1>2. CASE PathPreflight \/ PathThrows \/ BuildModel \/ WriteJson \/ WriteMarkdown
             \/ MainThrows \/ Gate
  BY <1>2 DEF PathPreflight, PathThrows, BuildModel, WriteJson, WriteMarkdown, MainThrows,
              Gate, Buckets, ReportSteps
<1>. QED
  BY <1>1, <1>2

SlhResults ==
  [status : {"available", "unavailable"}, reason : Reasons \cup {"none"},
   probe : SUBSET ProbeSteps, backend : {"unlisted", "available", "unavailable"},
   valid : Stats, cases : Seq(Summaries), min : Stats, median : Stats, worst : Stats,
   verify : Stats]

Probed ==
  [keygen |-> {}, sign |-> {"keygen"}, verify_valid |-> {"keygen", "sign"},
   verify_mutated |-> {"keygen", "sign", "verify_valid"}]

SlhSummary == [min |-> slh.min, median |-> slh.median, worst |-> slh.verify]

(* What the SLH-DSA benchmark has measured at each of its steps, and that  *)
(* it is "available" only with everything.  The last statistic it fills in *)
(* has numbers only when all are there, a later failure notwithstanding.   *)
SlhProgress ==
  /\ slh \in SlhResults /\ Len(slh.cases) <= NumCases
  /\ pc \in SlhSteps \cup {"slh"} => slh.status = "unavailable"
  /\ pc \in (SlhSteps \ {"finish"}) \cup {"slh"} => slh.verify = Unavailable
  /\ pc \in ProbeSteps => Probed[pc] \subseteq slh.probe
  /\ pc \in {"time_valid", "time_case", "select"} => slh.probe = ProbeSteps
  /\ pc \in ProbeSteps \cup {"slh", "time_valid"} => slh.cases = <<>>
  /\ pc = "time_case" => Len(slh.cases) < NumCases
  /\ pc = "select" => Len(slh.cases) = NumCases
  /\ pc \in {"time_case", "select"} => slh.valid \in Summaries
  /\ slh.verify.available =>
       /\ slh.probe = ProbeSteps /\ slh.valid.available /\ Len(slh.cases) = NumCases
       /\ \A k \in DOMAIN slh.cases : slh.cases[k].p99 <= slh.verify.p99
  /\ pc = "finish" \/ slh.status = "available" =>
       /\ slh.probe = ProbeSteps /\ Len(slh.cases) = NumCases
       /\ {slh.valid, slh.min, slh.median, slh.worst, slh.verify} \subseteq Summaries
       /\ Encloses(slh.cases, SlhSummary)

(* Each SLH-DSA step measures one thing more, or withdraws the status.     *)
LEMMA SlhStep == ASSUME SlhProgress, [Next]_vars PROVE SlhProgress'
<1>. USE DEF SlhSteps, ProbeSteps
<1>1. CASE SlhProbe
  <2>1. /\ pc \in ProbeSteps /\ pc' = NextStep[pc] /\ slh \in SlhResults
        /\ slh' = [slh EXCEPT !.probe = @ \cup {pc}]
    BY <1>1 DEF SlhProbe, SlhProgress
  <2>2. slh' \in SlhResults
    BY <2>1 DEF SlhResults
  <2>3. /\ slh'.status = slh.status /\ slh'.verify = slh.verify /\ slh'.cases = slh.cases
        /\ slh'.probe = slh.probe \cup {pc}
    BY <2>1 DEF SlhResults
  <2>4. /\ pc' \in ProbeSteps => Probed[pc'] \subseteq slh'.probe
        /\ pc' \in {"time_valid", "time_case", "select"} => slh'.probe = ProbeSteps
        /\ pc' \in ProbeSteps \cup {"time_valid"}
    BY <2>1, <2>2, <2>3 DEF SlhProgress, NextStep, Probed, SlhResults
  <2>. QED
    BY <2>1, <2>2, <2>3, <2>4, SummaryTypes DEF SlhProgress
<1>2. CASE SlhTimeValid
  <2>1. /\ pc = "time_valid" /\ pc' = "time_case" /\ slh \in SlhResults /\ slh.cases = <<>>
        /\ \E p99 \in OtherP99 : slh' = [slh EXCEPT !.valid = summarize(p99)]
    BY <1>2 DEF SlhTimeValid, SlhProgress
  <2>2. PICK s \in Summaries : s \in Stats /\ slh' = [slh EXCEPT !.valid = s]
    BY <2>1, SummaryTypes
  <2>3. slh' \in SlhResults
    BY <2>1, <2>2 DEF SlhResults
  <2>4. /\ slh'.status = slh.status /\ slh'.verify = slh.verify /\ slh'.cases = slh.cases
        /\ slh'.probe = slh.probe /\ slh'.valid = s
    BY <2>1, <2>2 DEF SlhResults
  <2>5. Len(slh'.cases) < NumCases
    BY <2>1, <2>4, CasesAssumption
  <2>. QED
    BY <2>1, <2>2, <2>3, <2>4, <2>5, SummaryTypes, CasesAssumption DEF SlhProgress
<1>3. CASE SlhTimeCase
  <2>1. /\ pc = "time_case" /\ slh \in SlhResults /\ Len(slh.cases) < NumCases
        /\ \E p99 \in CaseP99 : slh' = [slh EXCEPT !.cases = Append(@, summarize(p99))]
        /\ pc' = IF Len(slh'.cases) = NumCases THEN "select" ELSE "time_case"
    BY <1>3 DEF SlhTimeCase, SlhProgress
  <2>2. PICK s \in Summaries : slh' = [slh EXCEPT !.cases = Append(@, s)]
    BY <2>1, SummaryTypes
  <2>3. slh.cases \in Seq(Summaries)
    BY <2>1 DEF SlhResults
  <2>4. Append(slh.cases, s) \in Seq(Summaries) /\ Len(Append(slh.cases, s)) = Len(slh.cases) + 1
        /\ Len(slh.cases) \in Nat
    BY <2>3
  <2>5. slh' \in SlhResults
    BY <2>1, <2>2, <2>4 DEF SlhResults
  <2>6. /\ slh'.status = slh.status /\ slh'.verify = slh.verify /\ slh'.probe = slh.probe
        /\ slh'.valid = slh.valid /\ slh'.cases = Append(slh.cases, s)
    BY <2>1, <2>2 DEF SlhResults
  <2>7. /\ Len(slh'.cases) <= NumCases
        /\ Len(slh'.cases) # NumCases => Len(slh'.cases) < NumCases
    BY <2>1, <2>4, <2>6, CasesAssumption
  <2>. QED
    BY <2>1, <2>5, <2>6, <2>7, SummaryTypes DEF SlhProgress
<1>4. CASE SlhSelect
  <2>. DEFINE s == select_invalid_summary_stats(slh.cases)
  <2>1. /\ pc = "select" /\ pc' = "finish" /\ slh \in SlhResults
        /\ slh' = [slh EXCEPT !.min = s.min, !.median = s.median, !.worst = s.worst,
                              !.verify = s.worst]
    BY <1>4 DEF SlhSelect, SlhProgress
  <2>2. /\ slh.probe = ProbeSteps /\ Len(slh.cases) = NumCases /\ slh.valid \in Summaries
        /\ slh.status = "unavailable"
    BY <2>1 DEF SlhProgress
  <2>3. slh.cases \in Seq(Summaries) /\ slh.cases # <<>>
    BY <2>1, <2>2, CasesAssumption DEF SlhResults
  <2>4. Encloses(slh.cases, s)
    BY <2>3, Selected
  <2>. HIDE DEF s
  <2>5. {s.min, s.median, s.worst} \subseteq Summaries
    <3>1. Elements(slh.cases) \subseteq Summaries
      BY <2>3 DEF Elements
    <3>. QED
      BY <2>4, <3>1 DEF Encloses
  <2>6. s.min \in Stats /\ s.median \in Stats /\ s.worst \in Stats
    BY <2>5, SummaryTypes
  <2>7. slh' \in SlhResults
    BY <2>1, <2>6 DEF SlhResults
  <2>8. /\ slh'.status = slh.status /\ slh'.cases = slh.cases /\ slh'.probe = slh.probe
        /\ slh'.valid = slh.valid /\ slh'.min = s.min /\ slh'.median = s.median
        /\ slh'.worst = s.worst /\ slh'.verify = s.worst
    BY <2>1 DEF SlhResults
  <2>9. Encloses(slh.cases, [min |-> s.min, median |-> s.median, worst |-> s.worst])
    BY <2>4 DEF Encloses
  <2>10. Encloses(slh.cases, SlhSummary)'
    BY <2>8, <2>9 DEF Encloses, SlhSummary, Elements
  <2>11. Len(slh'.cases) <= NumCases
    BY <2>2, <2>8, CasesAssumption
  <2>12. \A k \in DOMAIN slh.cases : slh.cases[k].p99 <= s.worst.p99
    <3>. SUFFICES ASSUME NEW k \in DOMAIN slh.cases PROVE slh.cases[k].p99 <= s.worst.p99
      OBVIOUS
    <3>1. slh.cases[k] \in Summaries
      BY <2>3
    <3>2. slh.cases[k].p99 \in Nat /\ s.worst.p99 \in Nat
      BY <2>5, <3>1, SummaryTypes
    <3>3. ~(slh.cases[k].p99 > s.worst.p99)
      BY <2>4 DEF Encloses
    <3>. QED
      BY <3>2, <3>3
  <2>13. slh.valid.available
    BY <2>2, SummaryTypes
  <2>. QED
    BY <2>1, <2>2, <2>5, <2>7, <2>8, <2>10, <2>11, <2>12, <2>13 DEF SlhProgress
<1>5. CASE SlhFinish
  <2>1. /\ pc = "finish" /\ pc' = "schnorr" /\ slh \in SlhResults
        /\ slh' = [slh EXCEPT !.status = "available", !.backend = "available"]
    BY <1>5 DEF SlhFinish, SlhProgress
  <2>2. slh' \in SlhResults
    BY <2>1 DEF SlhResults
  <2>3. /\ slh'.cases = slh.cases /\ slh'.probe = slh.probe /\ slh'.valid = slh.valid
        /\ slh'.min = slh.min /\ slh'.median = slh.median /\ slh'.worst = slh.worst
        /\ slh'.verify = slh.verify
    BY <2>1 DEF SlhResults
  <2>4. Encloses(slh.cases, SlhSummary)' <=> Encloses(slh.cases, SlhSummary)
    BY <2>3 DEF Encloses, SlhSummary, Elements
  <2>. QED
    BY <2>1, <2>2, <2>3, <2>4 DEF SlhProgress
<1>6. CASE SlhThrows
  <2>1. PICK reason \in Reasons :
          slh' = [slh EXCEPT !.status = "unavailable", !.reason = reason,
                             !.backend = "unavailable", !.valid = Withdrawn(@),
                             !.min = Withdrawn(@), !.median = Withdrawn(@),
                             !.worst = Withdrawn(@), !.verify = Withdrawn(@)]
    BY <1>6 DEF SlhThrows
  <2>2. /\ slh \in SlhResults /\ pc' = "schnorr" /\ Len(slh.cases) <= NumCases
    BY <1>6 DEF SlhThrows, SlhProgress
  <2>3. /\ Withdrawn(slh.valid) \in Stats /\ Withdrawn(slh.min) \in Stats
        /\ Withdrawn(slh.median) \in Stats /\ Withdrawn(slh.worst) \in Stats
        /\ Withdrawn(slh.verify) \in Stats
    BY <2>2, SummaryTypes DEF SlhResults
  <2>4. slh' \in SlhResults
    BY <2>1, <2>2, <2>3 DEF SlhResults
  <2>5. /\ slh'.status = "unavailable" /\ slh'.cases = slh.cases /\ slh'.probe = slh.probe
        /\ slh'.valid = Withdrawn(slh.valid) /\ slh'.verify = Withdrawn(slh.verify)
    BY <2>1, <2>2 DEF SlhResults
  <2>6. /\ slh'.valid.available = slh.valid.available
        /\ slh'.verify.available = slh.verify.available /\ slh'.verify.p99 = slh.verify.p99
    BY <2>2, <2>5, WithdrawnKeeps DEF SlhResults
  <2>. QED
    BY <2>2, <2>4, <2>5, <2>6 DEF SlhProgress
<1>7. CASE Dispatch
  <2>1. /\ slh' = slh /\ pc \in {"slh", "schnorr", "path"}
        /\ \/ pc = "slh" /\ pc' \in {"keygen", "schnorr"}
           \/ pc' \in {"schnorr_setup", "path", "path_preflight", "model"}
    BY <1>7 DEF Dispatch
  <2>2. Encloses(slh.cases, SlhSummary)' <=> Encloses(slh.cases, SlhSummary)
    BY <2>1 DEF Encloses, SlhSummary, Elements
  <2>. QED
    BY <2>1, <2>2 DEF SlhProgress, Probed
<1>8. CASE SchnorrSetup \/ SchnorrIndividual \/ SchnorrSetupThrows \/ SchnorrSelfTest
             \/ BatchSize \/ BatchLoopDone \/ BatchThrows
  <2>1. slh' = slh /\ pc' \in SetupSteps \cup BatchSteps \cup {"path"}
    BY <1>8 DEF SchnorrSetup, SchnorrIndividual, SchnorrSetupThrows, SchnorrSelfTest,
       BatchSize, BatchLoopDone, BatchThrows, SetupSteps, BatchSteps
  <2>2. Encloses(slh.cases, SlhSummary)' <=> Encloses(slh.cases, SlhSummary)
    BY <2>1 DEF Encloses, SlhSummary, Elements
  <2>. QED
    BY <2>1, <2>2 DEF SlhProgress, SetupSteps, BatchSteps
<1>9. CASE PathPreflight \/ PathTiming \/ PathThrows \/ BuildModel \/ WriteJson
             \/ WriteMarkdown \/ MainThrows \/ Gate
  <2>1. slh' = slh /\ pc' \in Buckets \cup ReportSteps \cup {"exited"}
    BY <1>9, LastSteps
  <2>2. Encloses(slh.cases, SlhSummary)' <=> Encloses(slh.cases, SlhSummary)
    BY <2>1 DEF Encloses, SlhSummary, Elements
  <2>. QED
    BY <2>1, <2>2 DEF SlhProgress, Buckets, ReportSteps
<1>10. CASE UNCHANGED vars
  <2>1. slh' = slh /\ pc' = pc
    BY <1>10 DEF vars
  <2>2. Encloses(slh.cases, SlhSummary)' <=> Encloses(slh.cases, SlhSummary)
    BY <2>1 DEF Encloses, SlhSummary, Elements
  <2>. QED
    BY <2>1, <2>2 DEF SlhProgress
<1>. QED
  BY <1>1, <1>2, <1>3, <1>4, <1>5, <1>6, <1>7, <1>8, <1>9, <1>10 DEF Next

-----------------------------------------------------------------------------
BeforeSchnorr == SlhSteps \cup {"slh", "schnorr"}
InSchnorr     == SetupSteps \cup BatchSteps

SchnorrResults ==
  [status : {"available", "unavailable"}, valid : Stats, invalid : Stats,
   self_test : {"available", "unavailable"}, batch : {"available", "unavailable"},
   batch_valid : Seq(Summaries), batch_invalid : Seq(Summaries),
   primary : Summaries \cup {Unavailable}, reviewed : {Unavailable}]

(* What the Schnorr benchmark has measured at each of its steps; the batch *)
(* is "available" only on top of the individual baseline, after the        *)
(* self-test and with five sizes in both directions.                       *)
SchnorrProgress ==
  /\ schnorr \in SchnorrResults /\ results \in Seq(Summaries)
  /\ pc \in BeforeSchnorr \cup InSchnorr =>
       schnorr.primary = Unavailable /\ schnorr.batch = "unavailable"
  /\ pc = "individual_invalid" => schnorr.valid \in Summaries
  /\ pc \in BeforeSchnorr \cup SetupSteps => schnorr.status = "unavailable"
  /\ pc \in BatchSteps => schnorr.status = "available"
  /\ pc \in {"batch_valid", "batch_invalid"} => schnorr.self_test = "available"
  /\ pc = "batch_invalid" => Len(schnorr.batch_valid) = 5
  /\ schnorr.status = "available" => {schnorr.valid, schnorr.invalid} \subseteq Summaries
  /\ schnorr.primary.available => schnorr.batch = "available"
  /\ schnorr.batch = "available" =>
       /\ schnorr.status = "available" /\ schnorr.self_test = "available"
       /\ Len(schnorr.batch_valid) = 5 /\ Len(schnorr.batch_invalid) = 5

(* So for the Schnorr benchmark and its batch.                             *)
LEMMA SchnorrStep == ASSUME SchnorrProgress, [Next]_vars PROVE SchnorrProgress'
<1>. USE DEF BeforeSchnorr, InSchnorr, SlhSteps, ProbeSteps, SetupSteps, BatchSteps
<1>0. schnorr \in SchnorrResults /\ results \in Seq(Summaries)
  BY DEF SchnorrProgress
<1>1. CASE SlhProbe \/ SlhTimeValid \/ SlhTimeCase \/ SlhSelect \/ SlhFinish \/ SlhThrows
  <2>1. /\ schnorr' = schnorr /\ results' = results
        /\ pc \in SlhSteps /\ pc' \in SlhSteps \cup {"schnorr"}
    <3>. HIDE DEF select_invalid_summary_stats
    <3>1. CASE SlhProbe
      BY <3>1 DEF SlhProbe, NextStep
    <3>2. CASE SlhTimeValid \/ SlhSelect \/ SlhFinish \/ SlhThrows
      BY <3>2 DEF SlhTimeValid, SlhSelect, SlhFinish, SlhThrows
    <3>3. CASE SlhTimeCase
      BY <3>3 DEF SlhTimeCase
    <3>. QED
      BY <1>1, <3>1, <3>2, <3>3
  <2>. QED
    BY <2>1 DEF SchnorrProgress
<1>2. CASE Dispatch
  BY <1>2 DEF Dispatch, SchnorrProgress
<1>3. CASE SchnorrSetup
  BY <1>3 DEF SchnorrSetup, SchnorrProgress
<1>4. CASE SchnorrIndividual
  <2>1. CASE pc = "individual_valid"
    <3>1. PICK s \in Summaries : s \in Stats /\ schnorr' = [schnorr EXCEPT !.valid = s]
      BY <1>4, <2>1, SummaryTypes DEF SchnorrIndividual
    <3>2. schnorr' \in SchnorrResults
      BY <1>0, <3>1 DEF SchnorrResults
    <3>3. /\ schnorr'.valid = s /\ schnorr'.status = schnorr.status
          /\ schnorr'.primary = schnorr.primary /\ schnorr'.batch = schnorr.batch
      BY <1>0, <3>1 DEF SchnorrResults
    <3>4. pc' = "individual_invalid" /\ results' = results
      BY <1>4, <2>1 DEF SchnorrIndividual
    <3>. QED
      BY <2>1, <3>2, <3>3, <3>4, SummaryTypes DEF SchnorrProgress
  <2>2. CASE pc = "individual_invalid"
    <3>1. PICK s \in Summaries :
            s \in Stats /\ schnorr' = [schnorr EXCEPT !.invalid = s, !.status = "available"]
      BY <1>4, <2>2, SummaryTypes DEF SchnorrIndividual
    <3>2. schnorr' \in SchnorrResults
      BY <1>0, <3>1 DEF SchnorrResults
    <3>3. /\ schnorr'.valid = schnorr.valid /\ schnorr'.invalid = s
          /\ schnorr'.status = "available"
          /\ schnorr'.primary = schnorr.primary /\ schnorr'.batch = schnorr.batch
      BY <1>0, <3>1 DEF SchnorrResults
    <3>4. pc' = "self_test" /\ results' = results
      BY <1>4, <2>2 DEF SchnorrIndividual
    <3>. QED
      BY <2>2, <3>2, <3>3, <3>4, SummaryTypes DEF SchnorrProgress
  <2>. QED
    BY <1>4, <2>1, <2>2 DEF SchnorrIndividual
<1>5. CASE SchnorrSetupThrows
  <2>1. /\ schnorr' = [schnorr EXCEPT !.status = "unavailable", !.valid = Withdrawn(@),
                                      !.invalid = Withdrawn(@), !.batch = "unavailable",
                                      !.primary = Withdrawn(@)]
        /\ pc' = "path" /\ results' = results /\ schnorr.primary = Unavailable
    BY <1>5 DEF SchnorrSetupThrows, SchnorrProgress
  <2>2. /\ Withdrawn(schnorr.valid) \in Stats /\ Withdrawn(schnorr.invalid) \in Stats
        /\ Withdrawn(schnorr.primary) = Unavailable
    BY <1>0, <2>1, SummaryTypes, WithdrawnUnavailable DEF SchnorrResults
  <2>3. schnorr' \in SchnorrResults
    BY <1>0, <2>1, <2>2 DEF SchnorrResults
  <2>4. schnorr'.status = "unavailable" /\ schnorr'.batch = "unavailable"
        /\ schnorr'.primary = Unavailable
    BY <1>0, <2>1, <2>2 DEF SchnorrResults
  <2>. QED
    BY <1>0, <2>1, <2>3, <2>4, SummaryTypes DEF SchnorrProgress
<1>6. CASE SchnorrSelfTest
  <2>1. /\ schnorr' = [schnorr EXCEPT !.self_test = "available"]
        /\ pc = "self_test" /\ pc' = "batch_valid" /\ results' = results
    BY <1>6 DEF SchnorrSelfTest
  <2>2. schnorr' \in SchnorrResults
    BY <1>0, <2>1 DEF SchnorrResults
  <2>3. /\ schnorr'.self_test = "available" /\ schnorr'.status = schnorr.status
        /\ schnorr'.valid = schnorr.valid /\ schnorr'.invalid = schnorr.invalid
        /\ schnorr'.primary = schnorr.primary /\ schnorr'.batch = schnorr.batch
    BY <1>0, <2>1 DEF SchnorrResults
  <2>. QED
    BY <2>1, <2>2, <2>3 DEF SchnorrProgress
<1>7. CASE BatchSize
  <2>1. /\ schnorr' = schnorr /\ pc' = pc
        /\ \E p99 \in OtherP99 : results' = Append(results, summarize(p99))
    BY <1>7 DEF BatchSize
  <2>2. PICK s \in Summaries : results' = Append(results, s)
    BY <2>1, SummaryTypes
  <2>3. results' \in Seq(Summaries)
    BY <1>0, <2>2
  <2>. QED
    BY <2>1, <2>3 DEF SchnorrProgress
<1>8. CASE BatchLoopDone
  <2>1. Len(results) = 5 /\ results' = <<>> /\ results' \in Seq(Summaries)
    BY <1>8 DEF BatchLoopDone, experimental_batch_sizes
  <2>2. CASE pc = "batch_valid"
    <3>1. schnorr' = [schnorr EXCEPT !.batch_valid = results] /\ pc' = "batch_invalid"
      BY <1>8, <2>2 DEF BatchLoopDone
    <3>2. schnorr' \in SchnorrResults
      BY <1>0, <3>1 DEF SchnorrResults
    <3>3. /\ schnorr'.self_test = schnorr.self_test /\ schnorr'.status = schnorr.status
          /\ schnorr'.valid = schnorr.valid /\ schnorr'.invalid = schnorr.invalid
          /\ schnorr'.primary = schnorr.primary /\ schnorr'.batch = schnorr.batch
          /\ schnorr'.batch_valid = results
      BY <1>0, <3>1 DEF SchnorrResults
    <3>. QED
      BY <2>1, <2>2, <3>1, <3>2, <3>3 DEF SchnorrProgress
  <2>3. CASE pc = "batch_invalid"
    <3>1. /\ schnorr' = [schnorr EXCEPT !.batch_invalid = results, !.batch = "available",
                           !.primary = schnorr.batch_valid[Len(schnorr.batch_valid)]]
          /\ pc' = "path"
      BY <1>8, <2>3 DEF BatchLoopDone
    <3>2. schnorr.batch_valid \in Seq(Summaries) /\ Len(schnorr.batch_valid) = 5
      BY <1>0, <2>3 DEF SchnorrProgress, SchnorrResults
    <3>3. schnorr.batch_valid[Len(schnorr.batch_valid)] \in Summaries
      BY <3>2
    <3>4. schnorr' \in SchnorrResults
      BY <1>0, <3>1, <3>3 DEF SchnorrResults
    <3>5. /\ schnorr'.self_test = schnorr.self_test /\ schnorr'.status = schnorr.status
          /\ schnorr'.valid = schnorr.valid /\ schnorr'.invalid = schnorr.invalid
          /\ schnorr'.batch = "available" /\ schnorr'.batch_valid = schnorr.batch_valid
          /\ schnorr'.batch_invalid = results
      BY <1>0, <3>1 DEF SchnorrResults
    <3>. QED
      BY <2>1, <2>3, <3>1, <3>2, <3>4, <3>5 DEF SchnorrProgress
  <2>. QED
    BY <1>8, <2>2, <2>3 DEF BatchLoopDone
<1>9. CASE BatchThrows
  <2>1. /\ schnorr' = [schnorr EXCEPT !.batch = "unavailable", !.primary = Withdrawn(@)]
        /\ pc \in BatchSteps /\ pc' = "path" /\ results' = <<>>
        /\ schnorr.primary = Unavailable
    BY <1>9 DEF BatchThrows, SchnorrProgress
  <2>2. Withdrawn(schnorr.primary) = Unavailable
    BY <2>1, WithdrawnUnavailable
  <2>3. results' \in Seq(Summaries)
    BY <2>1
  <2>4. schnorr' \in SchnorrResults
    BY <1>0, <2>1, <2>2 DEF SchnorrResults
  <2>5. /\ schnorr'.status = schnorr.status
        /\ schnorr'.valid = schnorr.valid /\ schnorr'.invalid = schnorr.invalid
        /\ schnorr'.batch = "unavailable" /\ schnorr'.primary = Unavailable
    BY <1>0, <2>1, <2>2 DEF SchnorrResults
  <2>. QED
    BY <2>1, <2>3, <2>4, <2>5, SummaryTypes DEF SchnorrProgress
<1>10. CASE PathPreflight \/ PathTiming \/ PathThrows \/ BuildModel \/ WriteJson
             \/ WriteMarkdown \/ MainThrows \/ Gate
  <2>1. /\ schnorr' = schnorr /\ results' = results
        /\ pc' \in Buckets \cup ReportSteps \cup {"exited"}
    BY <1>10, LastSteps
  <2>. QED
    BY <2>1 DEF SchnorrProgress, Buckets, ReportSteps
<1>11. CASE UNCHANGED vars
  BY <1>11 DEF vars, SchnorrProgress
<1>. QED
  BY <1>1, <1>2, <1>3, <1>4, <1>5, <1>6, <1>7, <1>8, <1>9, <1>10, <1>11 DEF Next

(* A bucket holds a timing of its own or nothing.                          *)
PathValues == \A b \in Buckets : path.stats[b] \in Summaries \cup {Unavailable}

(* A timing fills a bucket and a throw empties all of them.                *)
LEMMA PathValuesStep == ASSUME PathProgress, PathValues, [Next]_vars PROVE PathValues'
<1>1. CASE PathTiming
  <2>1. /\ pc \in Buckets /\ path \in PathResults
        /\ \E p99 \in OtherP99 :
             path' = [path EXCEPT !.stats[pc] = summarize(p99),
                                  !.status = IF pc = "invalid_fixed_length"
                                               THEN "available" ELSE @]
    BY <1>1 DEF PathTiming, PathProgress
  <2>2. PICK s \in Summaries :
          path' = [path EXCEPT !.stats[pc] = s,
                               !.status = IF pc = "invalid_fixed_length" THEN "available" ELSE @]
    BY <2>1, SummaryTypes
  <2>3. \A b \in Buckets : path'.stats[b] = IF b = pc THEN s ELSE path.stats[b]
    BY <2>1, <2>2 DEF PathResults
  <2>. QED
    BY <2>3 DEF PathValues
<1>2. CASE PathThrows
  <2>1. path'.stats = NoBuckets
    BY <1>2 DEF PathThrows
  <2>. QED
    BY <2>1 DEF PathValues, NoBuckets
<1>3. CASE UNCHANGED path
  BY <1>3 DEF PathValues
<1>4. CASE ~PathTiming /\ ~PathThrows
  <2>1. UNCHANGED path
    BY <1>4 DEF Next, vars, Dispatch, SlhProbe, SlhTimeValid, SlhTimeCase, SlhSelect,
       SlhFinish, SlhThrows, SchnorrSetup, SchnorrIndividual, SchnorrSetupThrows,
       SchnorrSelfTest, BatchSize, BatchLoopDone, BatchThrows, PathPreflight, BuildModel,
       WriteJson, WriteMarkdown,
       MainThrows, Gate
  <2>. QED
    BY <1>3, <2>1
<1>. QED
  BY <1>1, <1>2, <1>4

(* The reports show the results as they are, and what the gate accepted    *)
(* is still there to be accepted.                                          *)
ReportsProgress ==
  /\ only \in {"all", "slh-dsa", "schnorr", "schnorr-batch", "qrs-path", "mistyped"}
  /\ {json, markdown} \subseteq {"absent", "earlier", "cut", "whole"}
  /\ exit \in {-1, 0, 1}
  /\ gate \in [answer : {"none", "pass", "fail"}, allow : BOOLEAN]
  /\ pc \in {"write_json", "write_markdown"} \/ exit = 0 => block = build_block_model
  /\ exit = 0 \/ gate.answer # "none" => pc = "exited"
  /\ gate.answer = "pass" => exit = 0 /\ assert_quick_report(gate.allow)

(* Once the block model is built no result changes any more.               *)
LEMMA ReportsStep == ASSUME ReportsProgress, [Next]_vars PROVE ReportsProgress'
<1>1. CASE BuildModel
  <2>1. /\ pc = "model" /\ pc' = "write_json" /\ block' = build_block_model
        /\ UNCHANGED <<only, slh, schnorr, results, path, json, markdown, exit, gate>>
    BY <1>1 DEF BuildModel
  <2>2. block' = build_block_model'
    BY <2>1 DEF build_block_model
  <2>. QED
    BY <2>1, <2>2 DEF ReportsProgress
<1>2. CASE WriteJson \/ WriteMarkdown \/ MainThrows
  <2>1. /\ pc \in ReportSteps /\ pc' \in {"write_markdown", "exited"}
        /\ UNCHANGED <<only, slh, schnorr, results, path, block, gate>>
        /\ \/ pc = "write_json" /\ exit' = exit
           \/ pc = "write_markdown" /\ exit' = 0 /\ pc' = "exited"
           \/ exit' = 1 /\ pc' = "exited"
        /\ json' \in {json, "cut", "whole"} /\ markdown' \in {markdown, "cut", "whole"}
    BY <1>2 DEF WriteJson, WriteMarkdown, MainThrows, ReportSteps
  <2>2. build_block_model' = build_block_model
    BY <2>1 DEF build_block_model
  <2>. QED
    BY <2>1, <2>2 DEF ReportsProgress, ReportSteps
<1>3. CASE Gate
  <2>1. PICK allow \in BOOLEAN, answer \in {"pass", "fail"} :
          /\ answer = "pass" => assert_quick_report(allow)
          /\ gate' = [answer |-> answer, allow |-> allow]
    BY <1>3 DEF Gate
  <2>2. /\ pc = "exited" /\ exit = 0
        /\ UNCHANGED <<pc, only, slh, schnorr, results, path, block, json, markdown, exit>>
    BY <1>3 DEF Gate
  <2>3. /\ gate' \in [answer : {"none", "pass", "fail"}, allow : BOOLEAN]
        /\ gate'.answer = answer /\ gate'.allow = allow
    BY <2>1
  <2>4. build_block_model' = build_block_model
        /\ (assert_quick_report(gate.allow)' <=> assert_quick_report(allow))
    BY <2>2, <2>3 DEF build_block_model, assert_quick_report, SchnorrAsserted, BlockAsserted,
                      SlhAsserted, PathAsserted
  <2>. QED
    BY <2>1, <2>2, <2>3, <2>4 DEF ReportsProgress
<1>4. CASE UNCHANGED vars
  <2>1. build_block_model' = build_block_model
        /\ (assert_quick_report(gate.allow)' <=> assert_quick_report(gate.allow))
    BY <1>4 DEF vars, build_block_model, assert_quick_report, SchnorrAsserted, BlockAsserted,
                SlhAsserted, PathAsserted
  <2>. QED
    BY <1>4, <2>1 DEF vars, ReportsProgress
<1>5. CASE ~(BuildModel \/ WriteJson \/ WriteMarkdown \/ MainThrows \/ Gate) /\ Next
  <2>1. /\ UNCHANGED <<only, json, markdown, exit, gate>>
        /\ pc \notin {"write_json", "write_markdown", "exited"}
    BY <1>5 DEF Next, Dispatch, SlhProbe, SlhTimeValid, SlhTimeCase, SlhSelect, SlhFinish,
       SlhThrows, SchnorrSetup, SchnorrIndividual, SchnorrSetupThrows, SchnorrSelfTest, BatchSize,
       BatchLoopDone, BatchThrows, PathPreflight, PathTiming, PathThrows,
       SlhSteps, ProbeSteps, SetupSteps, BatchSteps, PathSteps, Buckets
  <2>2. pc' \notin {"write_json", "write_markdown"}
    <3>1. CASE SlhProbe
      BY <3>1 DEF SlhProbe, NextStep, ProbeSteps
    <3>2. CASE PathTiming
      BY <3>2 DEF PathTiming, NextStep, Buckets
    <3>3. CASE SlhTimeCase
      BY <3>3 DEF SlhTimeCase
    <3>4. CASE BatchSize
      BY <3>4 DEF BatchSize
    <3>5. CASE ~(SlhProbe \/ PathTiming \/ SlhTimeCase \/ BatchSize)
      BY <1>5, <3>5 DEF Next, Dispatch, SlhTimeValid, SlhSelect, SlhFinish, SlhThrows,
         SchnorrSetup, SchnorrIndividual, SchnorrSetupThrows, SchnorrSelfTest, BatchLoopDone,
         BatchThrows, PathPreflight, PathThrows
    <3>. QED
      BY <3>1, <3>2, <3>3, <3>4, <3>5
  <2>3. exit' # 0 /\ gate'.answer = "none"
    BY <2>1 DEF ReportsProgress
  <2>. QED
    BY <2>1, <2>2, <2>3 DEF ReportsProgress
<1>. QED
  BY <1>1, <1>2, <1>3, <1>4, <1>5

-----------------------------------------------------------------------------
(* The inductive invariant: what each benchmark and the reports have done. *)
IInv == PathProgress /\ SlhProgress /\ SchnorrProgress /\ PathValues /\ ReportsProgress

(* It holds before the first step ...                                      *)
LEMMA Initially == Init => IInv
<1>. SUFFICES ASSUME Init PROVE IInv
  OBVIOUS
<1>1. PathProgress
  BY DefaultPath DEF Init, PathProgress, AllSteps, BeforePath, AfterPath, SlhSteps, ProbeSteps,
     SetupSteps, BatchSteps, PathSteps, Buckets, MainSteps, ReportSteps
<1>2. SlhProgress
  <2>1. /\ slh = SlhDsaResult /\ pc = "slh" /\ Unavailable \in Stats /\ <<>> \in Seq(Summaries)
        /\ Len(<<>>) = 0 /\ ~Unavailable.available
    BY SummaryTypes DEF Init
  <2>2. slh \in SlhResults /\ slh.status = "unavailable" /\ slh.verify = Unavailable
        /\ slh.cases = <<>>
    BY <2>1 DEF SlhDsaResult, SlhResults
  <2>. QED
    BY <2>1, <2>2, CasesAssumption DEF SlhProgress, SlhSteps, ProbeSteps
<1>3. SchnorrProgress
  <2>1. /\ schnorr = SchnorrResult /\ pc = "slh" /\ Unavailable \in Stats
        /\ <<>> \in Seq(Summaries) /\ ~Unavailable.available /\ results = <<>>
    BY SummaryTypes DEF Init
  <2>2. /\ schnorr \in SchnorrResults /\ schnorr.status = "unavailable"
        /\ schnorr.primary = Unavailable /\ schnorr.batch = "unavailable"
    BY <2>1 DEF SchnorrResult, SchnorrResults
  <2>. QED
    BY <2>1, <2>2 DEF SchnorrProgress, BatchSteps
<1>4. PathValues
  BY DEF Init, PathValues, QrsValidationPathResult, NoBuckets
<1>5. ReportsProgress
  BY DEF Init, ReportsProgress
<1>. QED
  BY <1>1, <1>2, <1>3, <1>4, <1>5 DEF IInv

(* ... and every step keeps it.                                            *)
THEOREM RunInvariant == Spec => []IInv
<1>1. IInv /\ [Next]_vars => IInv'
  BY TimingProgress, ThrowProgress, OtherSteps, SlhStep, SchnorrStep, PathValuesStep, ReportsStep
  DEF IInv
<1>. QED
  BY <1>1, Initially, PTL DEF Spec

(* Every statistic that any report prints.                                 *)
LEMMA Published ==
  ASSUME IInv, NEW s \in PublishedStats
  PROVE  s \in Stats /\ (s \in {slh.valid, slh.verify, slh.min, slh.median, slh.worst,
                                schnorr.valid, schnorr.invalid}
                         \/ s \in Summaries \cup {Unavailable})
<1>1. /\ slh \in SlhResults /\ schnorr \in SchnorrResults
      /\ \A b \in Buckets : path.stats[b] \in Summaries \cup {Unavailable}
      /\ \A t \in Summaries \cup {Unavailable} : t \in Stats
  BY SummaryTypes DEF IInv, SlhProgress, SchnorrProgress, PathValues
<1>2. CASE s \in {slh.valid, slh.verify, slh.min, slh.median, slh.worst}
  BY <1>1, <1>2 DEF SlhResults
<1>3. CASE s \in {schnorr.valid, schnorr.invalid}
  BY <1>1, <1>3 DEF SchnorrResults
<1>4. CASE s \in {schnorr.primary, schnorr.reviewed}
  BY <1>1, <1>4 DEF SchnorrResults
<1>5. CASE s \in Elements(slh.cases) \cup Elements(schnorr.batch_valid)
                   \cup Elements(schnorr.batch_invalid)
  <2>1. /\ slh.cases \in Seq(Summaries) /\ schnorr.batch_valid \in Seq(Summaries)
        /\ schnorr.batch_invalid \in Seq(Summaries)
    BY <1>1 DEF SlhResults, SchnorrResults
  <2>2. \A seq \in Seq(Summaries) : Elements(seq) \subseteq Summaries
    BY DEF Elements
  <2>. QED
    BY <1>1, <1>5, <2>1, <2>2
<1>6. CASE s \in {path.stats[b] : b \in Buckets}
  BY <1>1, <1>6
<1>. QED
  BY <1>2, <1>3, <1>4, <1>5, <1>6 DEF PublishedStats

(* Every result of every run holds well-formed statistics.                 *)
THEOREM TypeCorrect == Spec => []TypeOK
<1>1. ASSUME IInv PROVE TypeOK
  <2>1. PublishedStats \cup Elements(results) \subseteq Stats
    <3>1. PublishedStats \subseteq Stats
      BY <1>1, Published
    <3>2. Elements(results) \subseteq Summaries
      BY <1>1 DEF IInv, SchnorrProgress, Elements
    <3>. QED
      BY <3>1, <3>2, SummaryTypes
  <2>2. /\ slh.probe \subseteq ProbeSteps /\ Len(slh.cases) <= NumCases
        /\ slh.reason \in Reasons \cup {"none"} /\ slh.status \in {"available", "unavailable"}
    BY <1>1 DEF IInv, SlhProgress, SlhResults
  <2>3. {schnorr.status, schnorr.batch, schnorr.self_test} \subseteq {"available", "unavailable"}
    BY <1>1 DEF IInv, SchnorrProgress, SchnorrResults
  <2>4. /\ path.status \in {"available", "unavailable"} /\ path.reason \in Reasons \cup {"none"}
        /\ pc \in AllSteps
    BY <1>1 DEF IInv, PathProgress, PathResults
  <2>. QED
    BY <1>1, <2>1, <2>2, <2>3, <2>4 DEF IInv, ReportsProgress, TypeOK, AllSteps
<1>. QED
  BY <1>1, RunInvariant, PTL

(* A benchmark reports "available" only with everything it was to measure. *)
THEOREM StatusEarned == Spec => []StatusIsEarned
<1>1. ASSUME IInv PROVE StatusIsEarned
  <2>1. ASSUME slh.status = "available"
        PROVE  /\ slh.probe = ProbeSteps /\ Len(slh.cases) = NumCases
               /\ \A s \in {slh.valid, slh.verify} \cup Elements(slh.cases) : s.available
    <3>1. /\ slh.probe = ProbeSteps /\ Len(slh.cases) = NumCases
          /\ {slh.valid, slh.verify} \subseteq Summaries
      BY <1>1, <2>1 DEF IInv, SlhProgress
    <3>2. Elements(slh.cases) \subseteq Summaries
      BY <1>1 DEF IInv, SlhProgress, SlhResults, Elements
    <3>. QED
      BY <3>1, <3>2, SummaryTypes
  <2>2. path.status = "available" => \A b \in Buckets : path.stats[b].available
    <3>1. CASE pc \in BeforePath
      BY <1>1, <3>1, DefaultPath DEF IInv, PathProgress
    <3>2. CASE pc \notin BeforePath
      BY <1>1, <3>2 DEF IInv, PathProgress, AllSteps, BeforePath, AfterPath, PathSteps
    <3>. QED
      BY <3>1, <3>2
  <2>. QED
    BY <1>1, <2>1, <2>2 DEF IInv, SchnorrProgress, StatusIsEarned
<1>. QED
  BY <1>1, RunInvariant, PTL

(* The summary that the reports print of the invalid cases encloses all of *)
(* them, and its median has at most half of them on either side.           *)
THEOREM SummaryEncloses == Spec => []InvalidSummaryEncloses
<1>1. IInv => InvalidSummaryEncloses
  BY DEF IInv, SlhProgress, SlhSummary, Encloses, InvalidSummaryEncloses
<1>. QED
  BY <1>1, RunInvariant, PTL

(* A report accepted without the exemption is of one mind and complete.    *)
THEOREM AcceptedAgrees == Spec => []AcceptedReportAgrees
<1>1. ASSUME IInv, gate.answer = "pass", ~gate.allow
      PROVE  /\ \A s \in PublishedStats : stats_row(s) = s.status
             /\ \A rows \in {block.valid_by_depth, block.invalid_by_depth} :
                  \A d \in Depths : rows[d].available
             /\ \A b \in Buckets : path.stats[b].available
             /\ Len(slh.cases) = NumCases
             /\ conclusion \in {"sensitivity analysis with experimental batch",
                                "reviewed batch baseline unavailable"}
  <2>1. exit = 0 /\ pc = "exited" /\ block = build_block_model /\ assert_quick_report(FALSE)
    BY <1>1 DEF IInv, ReportsProgress
  <2>2. /\ slh.status = "available" /\ schnorr.status = "available"
        /\ path.status = "available"
    BY <2>1 DEF assert_quick_report, SchnorrAsserted, SlhAsserted, PathAsserted
  <2>3. /\ {slh.valid, slh.min, slh.median, slh.worst, slh.verify} \subseteq Summaries
        /\ Len(slh.cases) = NumCases
    BY <1>1, <2>2 DEF IInv, SlhProgress
  <2>4. {schnorr.valid, schnorr.invalid} \subseteq Summaries
    BY <1>1, <2>2 DEF IInv, SchnorrProgress
  <2>5. \A s \in PublishedStats : stats_row(s) = s.status
    <3>. SUFFICES ASSUME NEW s \in PublishedStats PROVE stats_row(s) = s.status
      OBVIOUS
    <3>1. s \in Summaries \cup {Unavailable}
      BY <1>1, <2>3, <2>4, Published
    <3>. QED
      BY <3>1, SummaryTypes DEF stats_row
  <2>6. /\ slh.valid.available /\ slh.verify.available /\ schnorr.valid.available
    BY <2>3, <2>4, SummaryTypes
  <2>7. \A rows \in {block.valid_by_depth, block.invalid_by_depth} :
          \A d \in Depths : rows[d].available
    BY <2>1, <2>6 DEF build_block_model, estimate
  <2>8. \A b \in Buckets : path.stats[b].available
    BY <1>1, <2>1, <2>2 DEF IInv, PathProgress, AfterPath
  <2>. QED
    BY <2>3, <2>5, <2>6, <2>7, <2>8 DEF conclusion
<1>. QED
  BY <1>1, RunInvariant, PTL DEF AcceptedReportAgrees

(* The conclusion that compares QRS, individual and batch timings is only  *)
(* drawn when all of these are complete, although a throw leaves numbers   *)
(* and flags behind.                                                       *)
THEOREM ConclusionsBacked == Spec => []ConclusionBacked
<1>1. ASSUME IInv, conclusion = "sensitivity analysis with experimental batch"
      PROVE  /\ slh.probe = ProbeSteps /\ slh.valid.available /\ Len(slh.cases) = NumCases
             /\ \A k \in DOMAIN slh.cases : slh.cases[k].p99 <= slh.verify.p99
             /\ schnorr.status = "available" /\ schnorr.batch = "available"
             /\ Len(schnorr.batch_valid) = 5 /\ Len(schnorr.batch_invalid) = 5
  <2>1. slh.verify.available /\ schnorr.primary.available
    BY <1>1 DEF conclusion
  <2>. QED
    BY <1>1, <2>1 DEF IInv, SlhProgress, SchnorrProgress
<1>. QED
  BY <1>1, RunInvariant, PTL DEF ConclusionBacked

=============================================================================
