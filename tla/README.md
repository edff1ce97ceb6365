# A verification project for p2mr-qrs

`qrs_native_bench` measures what it costs to validate SLH-DSA ("QRS") spends of
P2MR outputs next to BIP-340 Schnorr spends; scripts around it stage test
vectors, check the reports and turn them into a decision on whether the draft
may go on without an explicit validation budget. Nothing here is networked or
multi-threaded. What is hard is different: exceptions between two
measurements, values kept in a reused context or flag, two implementations of
one rule, files of different runs side by side, and chains of programs whose
exit codes are the only witness of what happened.

Paths below are relative to the root of the repository.

## 1. Inventory

| Component | Code | State | Operations | Correct when |
| --- | --- | --- | --- | --- |
| Modeled QRS validation path | `src/core_validation_model.cpp` | the caller's `verifier_called` flag | `structural_checks`, `construct_qrs_msg`, `modeled_validation_path` | the verifier sees exactly the spends the witness rules admit, no byte is read out of bounds, a signature authorizes one spend |
| Fixture classification | `scripts/verify_qrs_fixtures.py` | the fixture files | `classify`, `verify_one`, `--update` | a stage names what the native code, too, rejects |
| Benchmark run and reports | `src/main.cpp`, `src/slh_dsa_openssl.cpp`, `src/schnorr_secp256k1.cpp`, `src/core_validation_model.cpp`, `src/block_model.cpp`, `src/report_json.cpp`, `src/report_markdown.cpp` | three result structures, block model, two files, exit code | the benchmarks with their catch blocks, model, reports | status, flags, numbers and files agree wherever something fails |
| Quick-report gate | `scripts/assert_quick_report.py`, `scripts/validate_quick_report.sh` | none | read both reports, answer | an accepted report is complete and consistent |
| Resource-accounting decision | `scripts/evaluate_resource_accounting.py` | two decision files, exit code | `evaluate`, `build_fallback_triggers`, `main` | it decides by the criteria, worse evidence never helps, missing evidence is decided, the exit code tells the decision |
| Experimental batch verifier | `src/experimental_batch_schnorr.c` | a context: capacity, buffers, generator scalar, scratch space | create, verify, destroy | valid batches pass, a bad signature fails, nothing leaks or wraps around |
| Timing statistics | `src/stats.cpp`, `src/bench_timer.cpp` | time series, sink of the verdicts | `time_batches`, `percentile`, `summarize` | every call is accounted for, percentiles are ordered and enclosed by the samples |
| Transaction digest model | `src/qrs_digest_model.cpp`, `scripts/compute_qrs_digest_model.py`, `scripts/check_qrs_digest_agreement.py` | the vectors loaded, exit code | parse, digest, compare | both implementations accept the same vectors and commit to every field |
| Cryptographic test vectors | `scripts/verify_qrs_vectors.py`, the update modes of `scripts/verify_qrs_fixtures.py` and `scripts/compute_qrs_digest_model.py`, `scripts/run_qrs_negative_tests.py` | the vector files, a fresh key | update, verify, self-tests | a vector shows what its labels say and is never spoiled, one key signs all, exit code 0 vouches for the directory |
| SLH-DSA command line | `src/slh_dsa_cli.cpp`, argument handling of `src/main.cpp` | arguments, key, signature, exit code | generate, sign, verify, probe; mode and report paths | an answer is about what was named, an error is no verdict, a report goes where its mode says |
| Environment | `src/environment.cpp` | none | `collect_environment` | commit and cleanness are those the numbers were made with |
| Batch evidence | `scripts/check_batch_schnorr_baseline.py` | two files | local and upstream search with a timeout | a timeout is not evidence of absence |
| Release gates | `scripts/release_check.sh`, `scripts/full_release_check.sh`, `scripts/ci_structural_check.sh` | files below `build/`, the samples in `out/`, git | all of the above in order, refresh of the samples | a release has passed on reports of its own run, commit and tree |
| Leaf components | `src/slh_dsa_backend_*.cpp`, document validators | none | one pass over static input | see section 8 |

They interact by calls within the program (benchmarks, block model, reports)
and by files and exit codes between program and scripts: the benchmark writes
`out/*.json` and `out/*.md`, the gate and the decision read them, a shell
script stops at the first non-zero exit code.

Hard behaviours, each listed at its line under `hazards` in `PROJECT.json`:
a throw after some of several measurements; a flag beside a status text; one
verification after another on the same context; an early return in mid-loop;
failing allocations; sizes near the maximum; a rule tested in two orders;
bytes concatenated without a separator; missing evidence; files left from an
earlier run; a directory rewritten file by file by a script that may die; a
file read twice with an edit in between; a clock that does not move; a verifier
that answers wrongly or not at all; a working tree that is edited and committed
while a release script runs in it.

## 2. Modules

| Module | What it is |
| --- | --- |
| `QrsSpend` | the data of a spend, the message, and the structural checks one by one |
| `QrsRule` | abstract: validation as one decision by the witness rules of `docs/spec/bip-p2mr-slh-dsa-leaf-v0.9.0.mediawiki` |
| `QrsValidation` | `modeled_validation_path` statement by statement, call after call |
| `QrsClassify` | `classify` of the fixture script, on the same spends |
| `QrsValidationProofs` | theorems of `QrsValidation`, `QrsClassify` and `DigestModel` |
| `AtomicOutcome` | abstract: a benchmark publishes everything or nothing, once |
| `BenchReport` | a whole run of the program and the gate after it |
| `BenchReportProofs` | its theorems |
| `ResourceDecision` | `evaluate_resource_accounting.py` |
| `ResourceDecisionProofs` | its theorems |
| `BatchSchnorr` | the experimental batch verifier over a small prime group |
| `BatchSchnorrProofs` | its theorems |
| `VectorPipeline` | the vector directory under the three scripts that rewrite and check it, and under edits |
| `VectorPipelineProofs` | its theorems |
| `DigestModel` | the two readers of a vector file, and the script that compares their digests |
| `CommandLine` | one call of the program up to the first benchmark, and its SLH-DSA commands |
| `CommandLineProofs` | its theorems |
| `BenchTimer` | `time_batches` on a coarse clock, and the statistics of its series |
| `BenchTimerProofs` | its theorems |
| `Ordering` | what `std::sort` returns, for `BenchReport` and `BenchTimer` |
| `ReleaseGate` | the two release scripts in a working tree that changes under them |
| `ReleaseGateProofs` | its theorems |
| `MC...` | instances for TLC |

Definitions whose comment begins with "Mutant:" belong to no specification.
Each is a plausible mistake in the definition that follows it and is used to
see that a property notices it (section 7).

### Validation path

`pc` is the statement `structural_checks` or `modeled_validation_path` is at;
`CheckPasses` and `CheckFails` are the early returns, `ConstructMessage` builds
the message and sets the caller's flag, `VerifierAnswers` and `VerifierThrows`
are the two ways out of `verify_message`. `Enter` begins another call, with or
without the pointer to the flag, whose value survives from call to call.
A hash is the preimage it commits to, so that two hashes agree exactly when
the program's would (barring collisions). Siblings and annex are sequences of
32-byte chunks: `construct_qrs_msg` concatenates them, so a sibling moved into
the annex gives the same message in the model as it does in the code, and only
the root check can tell. The script hashes sorted pairs, written as a set
(`roots` has the root after each sibling), while the native hash tells left from
right. They agree as long as no sibling is the hash of another leaf or branch
that is opened (`SiblingAssumption`, which holds of the fixtures; section 4).

### Benchmark run

One action per library phase that can throw separately; between the selection
of the summary and the assignment of the status lie only allocations, which may
fail, too (`SlhSelect`, `SlhFinish`, `SlhThrows`). `slh`, `schnorr` and
`path` are the result structures, `results` the local vector of the batch
loop, `json` and `markdown` what is in the files (nothing, an earlier run's, a
file cut short by a failed write, all of this run). `Withdrawn` is what two of
the catch blocks do to a `Stats`: they change its status and leave its flag
and numbers. The third benchmark replaces the `Stats`. `Gate` answers as
`assert_quick_report.py` does with or without `--allow-unavailable-qrs`; for a
Markdown file cut short it may find its phrases or not, so that no property
keeps such a file out. `ConclusionBacked` speaks of what was measured, not of
the status: a failure after the last measurement withdraws the status of the
QRS timings and leaves their numbers, and the conclusion, as they are.

### Resource decision

A report is its statuses, whether its metadata is complete, which of the five
saturated-block estimates have a p99 and what it is, and whether the rows of
depth 0 and 128 are there. A status promises no number and a number no status:
`p99_ms` and `depth_row` refuse what is missing. `Evaluates` says whether
`evaluate` returns. It raises without an individual baseline, on a missing number,
and on any incomplete evidence other than SLH-DSA or the validation path
unavailable under `--allow-unavailable-qrs`: the branch for that assigns
`explicit_required`, which is read after both branches, and the other one does
not (finding 3). The actions are the script: evaluate (`Evaluate`) or end with 1
and no file written (`EvaluateRaises`), two writes that may fail, exit. The
script is run with both output files, as the release scripts run it.

### Batch verifier

The group is Z_q with generator 1, a point is its discrete logarithm. Order 5
is enough for distinct nonces, keys, challenges and coefficients including
zero, and for scalars that overflow. The hashes of the coefficients may come
to any scalars: the seed covers all inputs, so they are chosen when the
verification starts. `AddInput` is one round of the loop, `ParseFails` its
early return, which leaves the buffers as they are. Buffer indices are those
of the C code. Of its own three allocations the verifier checks the result;
the scratch space comes from libsecp256k1, whose default error callback aborts
the process when it cannot be had (`ScratchAborts`), so the check of that
result never fails. The multiscalar multiplication may fail for want of scratch
space, and the batch is then refused (`SumFails`): `AllValidAccepted` is about
verifications in which it does not.

### Test vectors

`files` is the directory, the only thing that outlives a run; `pc`, `key`, `i`
and `crypto` are the locals of the script that runs. One action per file:
`SignVector` is a round of `update_real_signatures` with its write,
`VerifyVector` and `VerifyFails` a round of the check, `VerifyFixture` one call
of `verify_one` (which writes before it checks), `ComputeDigest` a round of the
third script. `verify_qrs_vectors.py` and `compute_qrs_digest_model.py` read
all files before they begin, `verify_qrs_fixtures.py` reads each when it comes
to it. `NativeFails` is a non-zero exit of the native program, `Killed` the end
of the script at any point, also in `write_text` after the file was emptied
(`Cut`). `EditVector` is a maintainer between runs: a new draft, other labels,
another transaction or output.

A script beside the transaction is always the provisional OP_1 PUSH32 form, and
so is the output of a spend in `QrsClassify`: a file with another one is refused
by the script before it names a stage.

A vector has the script beside the transaction and the script of the first
output separately, and explicit spent outputs or none: the message commits to
the output and to what was spent, and the explicit list takes precedence, as in
`spent_outputs`. A hash is what it commits to; a signature is its key, its
message and whether the byte in its middle is flipped. A structural defect
(lengths, version bits, witness stack) is a label that no script changes.
`Shows` says what a vector is for: its stage is the one it names and, if it
reaches the verifier, its signature is its own key's over its own message
exactly if it is to be valid.

### Digest model

A document is the sequence of its members in the order of the text, since one
reader has nothing else: `qrs_digest_model.cpp` takes the first place where a
key occurs, a number from the first place where the key has one, and inputs,
outputs and spent outputs as pairs of neighbouring places. The Python model
reads the same document as objects and lists. A search is a set of places,
and the n-th find is the place in it with n - 1 others before it. `IsDocument`
is what holds of any file the Python model can load: no object has a key twice
and the elements of a list are numbered in the order of the text. `NativeReads`
and `PythonReads` are the checks of each, `compute_from_json` and
`compute_vector_digest` what each then commits to. The actions are those of the
agreement script, which loads all vectors first and runs the native program on
the files afterwards; `EditVector` comes between. A prevout the native pattern
takes and the Python reader does not (`11:1f`, read by its decimal prefix) is a
kind of its own, "loose"; so is a witness stack that is no array of labels, which
stops the native reader when there is an annex. `LaidOut` says what the layout
of the vectors is and excludes both; outside of it the readers differ
(section 4). `Carries` says when a message is the whole transaction of a document:
each member that is there at its place in the message, and nothing beside them.

### Command line

`i` is the argument `parse_args` looks at, or the step an SLH-DSA command is
at. An argument is a word, a path or a kind of hex. `provider` is how OpenSSL
behaves: soundly, accepting or rejecting everything, or making keys or
signatures of another length; besides, any of its calls may fail (`SlhThrows`,
and an answer below 0 of `EVP_DigestVerify`). `Benchmark` and `DigestVector`
stand for what `BenchReport` and `DigestModel` say.

### Timing

One action per call of the timed function, which takes some time and accepts or
not. The clock shows the time in whole steps of its resolution. `history`
is what no variable of the code remembers: how long the batches really took,
how many calls there were and how many of them accepted. Times per call are
compared before the division by the batch size, percentiles as their hundredfold
and means as sums, so that all arithmetic is exact.

### Release gate

`commits` and `tree` are git: a commit has a version of the source and the four
samples of `out/`. The developer edits, commits and discards at any time, also
under a running script (`touched`). One action per step of a script that reads
or writes what is modelled; the steps that only check documents may fail at
any point, as every other step may, by `Fails`, which leaves everything
written so far. A report has its run, the commit and cleanness it names, and
the version its binary was really built from; the commit is read in one
step and the cleanness in another, as in `environment.cpp`, and both may be
unavailable. The program asks the git of its current directory; the commit of
another repository is no better than none, and that repository's cleanness says
nothing of the tree (`git_dirty_state`). Files git does not track count for
neither: `tree` is what is tracked. `CollectEvidence` is `check_batch_schnorr_baseline.py` with a
search upstream that is skipped, answers, fails or times out. `FullTiming` is
the manual measurement between two releases, which leaves the old decision beside
the new report when the decision script ends with an error. `Coherent` compares a
decision with the report it was made from where the script compares their four
p99 values; the documented commands write no decision without values. The gate of `BenchReport` and the
decision of `ResourceDecision` are one step here, that passes or fails.

## 3. Runs

| Run | Shows | Bounds |
| --- | --- | --- |
| `qrs_validation` | the early returns implement `QrsRule` (`RuleSpec`), the flag is exact (`VerifierReachedIffStructural`), no read is out of bounds (`ControlReadsInBounds`), an accepted signature fits no other spend of the output (`OutputBinding`), the script's stages agree and name a check that is broken (`StagesAgree`), every call returns (`Returns`) | two keys, two chunks; honestly signed spends of depth 0, 1, 2, 128 and 129, with and without annex, every single-field change of them (lengths off by one, all bits of the version byte that matter, an empty block, trailing bytes) and signatures moved between paths and annexes |
| `bench_report` | `StatusIsEarned`, `InvalidSummaryEncloses`, `AcceptedReportAgrees`, `ConclusionBacked`, `FreshReports`; the validation path implements `AtomicOutcome` (`PathPublishesAtomically`) | three invalid cases instead of nine, three p99 values: all orders and ties; a throw at every step; all values of `--only` and a mistyped one |
| `bench_report_timings` | finding 1 | as above |
| `resource_decision` | `ExitTellsDecision`, `WorseNeverFavoured` (of reports that get a decision), `SupportMeansCriteria` (the criteria as the code has them), `TriggersNest` | five p99 values with ratios on both sides of 2.5 and 3 and equal ones, all orders of the estimates, every combination of missing statuses, numbers and depth rows |
| `resource_trigger` | finding 2 | as above |
| `resource_missing` | finding 3 | as above |
| `batch_schnorr` | `AllValidAccepted`, `OneBadRejected`, `NothingLeftOver`, `NothingLeaks`, `CallsReturn` (or the library aborts the process) | order 5, batches of none, one or two inputs (valid, each field corrupted, not parsing, two bad), every coefficient, capacities 0, 1, 2 and 4 where 4 wraps the scratch size (`SizeMax` 31) |
| `vector_pipeline` | `SignedVectorsShow`, `ExitZeroHolds`, `OneKey`, `NeverSpoils`, `RunsEnd` | two files, three keys, two edits; one file a valid vector, the other valid, invalid by signature, by structure, by root, wrongly labelled, with explicit spent outputs or without any output; every sequence of runs of the three scripts, killed anywhere |
| `digest_model` | files in the layout of the vectors are read alike (`LaidOutAgree`), and what the script passes carries the whole transaction of the document it loaded, nothing left out, swapped, changed or added (`PassedIsComplete`) | two files, one of three vectors (one input; two inputs and explicit spent outputs; repeated bytes) after up to two changes by dropping, swapping or replacing a member; 2^32-1 and 2^64-1 stand at 3 and 5; one edit under the script |
| `command_line` | `ReportsOfItsMode`, `AnswerHolds` | benchmark calls of up to four arguments of nine; every SLH-DSA command with up to three named values, right, wrong, repeated or swapped, one argument missing; five behaviours of the provider, a failure at every step |
| `bench_timer` | `StatsInOrder`, `CallsAccountedFor` | up to three batches of up to two calls, up to one call to warm up, calls of 0, 1 or 3 on a clock of resolution 2 |
| `release_gate` | `PassedIsFresh`, `PassedSamplesCoherent`, `AbsenceIsEvidence` | two runs in any order with any options, two versions of the source, three commits, a batch API from version 2 on |

The bounds are small because nothing the properties tell apart needs more:
validation compares and never counts beyond the depth, which is taken at its
real boundary of 128 and 129; the summary needs three ordered values; a
second batch of two is enough to meet what the first one left behind; two files
are enough for one before and one behind the point where a script dies, and
three keys for two updates that die and one that does not. A key may serve
again once nothing in the directory mentions it. Two changes to a vector are
what it takes to hide one mistake behind another; the limits 3 and 5 leave room
for numbers that fit, that overflow 32 bits only, and that overflow 64. A call
of 1 on a clock of resolution 2 is seen as 0 or 2, three batches have a
percentile between two of them and one beyond. The second release run meets
everything the first can leave, with a refresh, a commit and an edit between.

## 4. Findings

1. `run_slh_dsa_benchmarks`: when an invalid case throws after the valid
   timing, the catch block withdraws the status text but not the flag. The block
   model and the Markdown rows then publish the valid timings of a backend
   listed as unavailable. The strict gate rejects such a report
   (`AcceptedReportAgrees` holds).
2. `evaluate`: `fallback_budget_status` does not depend on the 2.5x, 3.0x and
   reviewed triggers, while `docs/evidence/explicit-qrs-budget-fallback.md`
   wants the fallback treated as required when any trigger is hit.
3. `evaluate` on missing data: `docs/evidence/resource-accounting-decision.md`
   promises the status `explicit_budget_required_before_activation`. Without
   `--allow-unavailable-qrs` (and with it, when only invalid timings or metadata
   are missing) the branch for it does not assign `explicit_required`, which line
   418 reads: the script ends with a traceback, exit code 1 and no decision. With
   the option and SLH-DSA or the validation path unavailable the status is
   `not_evaluable_on_this_platform`, which that decision language does not have.
   The run finds the first; the assumption `AllowedIsNotBudgeted` of
   `MCResourceDecision`, which TLC evaluates before each run, the second.

Seen while modelling, without a run of its own:

- `evaluate` compares with `<=`: QRS estimates equal to the experimental
  baseline support the rule (assumption `EqualSupports` of `MCResourceDecision`),
  where the same document has "below". `SupportMeansCriteria` says what the code
  demands; with "<" for "<=" TLC refutes it.
- The native reader passes over a pair of members in another order or with
  a member between them, and takes a number from the first place where its key
  has one. It then prints the digest of a smaller transaction; the Python
  model either refuses the file or differs, so the agreement script notices.
- The native reader takes prevouts such as `11:1f` and reads the index by its
  prefix; the Python model refuses them.
- Neither report is looked at after it was written. A Markdown report cut short
  passes the gate when the phrases it looks for are there.
- The batch verifier checks the scratch space it asks the library for, but the
  library's default error callback aborts when there is none.
- The fixture script sorts a pair before it hashes it, as final rules will, the
  native model does not. A tree in which two leaves under one branch are both
  spent has one root for the script and two for the native model.
- `--only` takes words that name no benchmark, and the program ends with 0.
- A refresh renews one sample. After a commit the samples name two
  commits and `release_check.sh` refuses them until the others are renewed.
- A commit made between build and report gives a report that names a commit
  its binary was not built from, and passes every check of the scripts.
  `PassedIsFresh` is therefore stated for runs under which the tree was left
  alone.
- When no experimental batch was measured, the text of the conclusion still
  compares QRS with one.
- With doubles an interpolated percentile may exceed the maximum by the last
  digit; `StatsInOrder` is about exact arithmetic.

## 5. Fairness

Weak fairness is assumed only of steps inside a call that has been entered:
the check, the message and the verifier in `QrsValidation`, the creation and
the loop in `BatchSchnorr`. The calls run on one thread and wait for nothing,
so they do not stop half way, unless the library aborts the process, after which
nothing happens. No caller is obliged to call again.
`VectorPipeline` assumes it of the steps of a running script, which waits only
for the native program; that ends, since it makes one OpenSSL call. No edit, no
start and no kill is assumed to happen.
The other modules state no liveness and assume none; they end, or stop at their
bounds, so deadlock is not checked there, nor in `BatchSchnorr`, where an aborted
process is the end.

## 6. Proofs

All are checked by TLAPS for every value of the constants, under the named
assumptions of the modules: spends are well-formed and no sibling is the hash of
another opened leaf or branch, p99 values are positive naturals, reports are
well-formed, structural defects are not the stages of the verifier, what is
written by hand carries no signature, the order of the group is a prime, the
files of a directory hold JSON documents.

Sums, recursive tables and sorting are proved about, too, without induction
theorems that take an operator: a counterexample to a claim about all finite sets
or numbers would have a least one (`MinimalSet`, `Least`, from the well-founded
order on them), which a step from the next smaller one rules out.

- `QrsValidationProofs`. The properties are not inductive: that the verifier
  sees only sound spends depends on every check before it. `IInv` adds to the
  types what each program point has behind it (`PassedSoFar`) and what message,
  flag and verdict then are (`CallOutcome`). `Inductive` proves it; the type
  invariant, `VerifierReachedIffStructural` and `ControlReadsInBounds` follow.
  `BindsWithinOutput` adds the argument on sequences: equal roots give equal
  paths, and then equal concatenations give equal annexes. `Refinement` maps
  each call to one `Decide` of `QrsRule`; it needs that the bit tests admit
  exactly the byte 0xc3 and that the length tests admit exactly 1 + 32m.
  `StagesAlwaysAgree` compares the two programs check by check. For the roots it
  descends from equal unordered pairs, level by level: the siblings are equal and
  the roots below, since neither root is a sibling (`OneLevel`); a shorter path
  would make a leaf equal to a pair (`RootsDiffer`).
  The theorems of `DigestModel` stand beside these because they are of the same
  kind: a program and a script answer on the same vectors (its constants,
  variables and specification have names of their own for that).
  `ReadersAgree`: on a document in the layout of the vectors the search for pairs
  finds the elements of the list, each once and in order. The finds before a
  place are counted by a bijection with the elements before it (`Table`, `Ranked`,
  `Listed`). With that both readers have the same inputs, outputs and
  spent outputs (`InputsFound`, `OutputsFound`, `SpentFound`), refuse alike
  (`ReadAlike`) and hash the same fields (`DigestAlike`). `PassedWhole` needs no
  layout: the Python model puts every member of the document at its place in the
  message (`PythonCarries`), `ReadersInv` says what the script holds at each
  vector, and where two messages are equal the native one has the same at each
  place (`SameIsComplete`). Both are for documents of any length, and for
  files that are edited between the two readings.
- `ResourceDecisionProofs`. An invariant on the order of the writes gives
  `ExitCode`, in which no file is written before there is a decision;
  `SupportCriteria`, `Nesting` and `Monotone` are arithmetic on the operators,
  the last one by cases on how evidence gets worse, for reports of which both get
  a decision. That incomplete evidence without the option never does is
  finding 3.
- `BenchReportProofs`. `IInv` says of each benchmark what a program point has
  behind it. `PathProgress`: within the validation-path benchmark exactly the
  buckets before the current one hold numbers, after it all or none; with it
  `PathRefinement` shows atomic publication. `SlhProgress` and
  `SchnorrProgress`: an available status has every self-test and every series
  behind it, and the statistic selected last has numbers only when all the others
  have, also after a throw that withdraws the status. `ReportsProgress`: once the block model is built no result
  changes. `StatusEarned`, `AcceptedAgrees`, `ConclusionsBacked` and the type
  invariant follow; `ReportsFresh` needs only files, program point and exit code.
  `SummaryEncloses` rests on what sorting returns for any number of invalid cases:
  that an order exists (`Sorting`) and that the chosen ranks then enclose all
  cases (`Ranks`, `Selected`).
- `VectorPipelineProofs`. First, lemmas on one vector: what each rewriting
  keeps and establishes (`SignedShows`, `FixtureKeeps`). `IInv` adds to the
  types where a run is and which locals are live there (`Underway`), what the
  files behind the current one have been found to be (`Checked`), and that no
  signature was ever made over an output with a foreign root (`SignedRooted`).
  The last is what makes the fixture update harmless: it moves the root to where
  a valid vector has it already. `SigningShows`, `ExitZeroVouches` and
  `RunsNeverSpoil` follow; `SignedByOneKey` needs in addition that the locals
  hold the one key until the run ends (`Uniform`).
- `ReleaseGateProofs`. A script that is past a step knows what the step checked
  or wrote, as long as nobody touched the tree: `Behind` says it for each step
  by its place in the script, and the bounds on runs, versions and commits play
  no part. `PassesFresh`, `PassesCoherent` and `PassesOnEvidence` read off the
  invariant at the last step.
- `BenchTimerProofs`. `Counted` has the calls made and accepted at each program
  point, `Timed` that a batch under way takes no longer than its calls and that
  each finished one is right to the resolution, which rests on a lemma on
  rounding down (`Lag`). `HasSlowest` is what makes the maximum exist.
  `StatisticsInOrder` holds for every number of batches: a percentile lies
  between the two samples of its rank (`PercentileBetween`), so at most the
  samples behind its rank are above it (`BesidePercentile`), a higher percentile
  lies no lower (`PercentilesRise`), and a sum lies between its number of terms
  times the least and the greatest (`SumBounds`).
- `CommandLineProofs`. `Commanded` says what key, signature and answer are after
  each step of an SLH-DSA command, and what the probe has ruled out of the
  provider; `Parsed` ties the report paths to the mode. `ReportPaths` and
  `AnswersHold` follow, for every list of arguments in which a command is a word.
- `BatchSchnorrProofs`. `Owned` has the allocated blocks at each program point;
  that the scratch size does not wrap is arithmetic on the two bounds of the
  capacity (`ScratchFits`). That the two entries of an input stay in the
  proportion of its equation is modular arithmetic on the negatives
  (`Proportion`). Neither needs the order of the group to be prime.
  `AcceptsAllValid` and `RejectsOneBad` hold for batches of any length, with
  `Tallied` as invariant: the sum over the entries filled so far is zero while
  every input verifies, and stays different from zero behind the only one that
  does not. The entries of one input are split off the sum (`DotSplits`,
  `AddSum`); that its coefficient cannot make a false equation true is
  cancellation modulo a prime (`Cancels`).

Only model-checked: liveness (`Returns`, `CallsReturn`, `RunsEnd`), which needs
fairness and is out of the prover's reach.

## 7. Mutants

For each property of a passing run `PROJECT.json` names a definition and a
mutated form of it, among them a flag that is not reset, a forgotten depth
bound, a root compared only by its leaf, unsorted cases, a catch block that
keeps numbers, a zero coefficient used as it is, overlapping buffer entries,
a context that starts dirty, a message signed before the root is in place, a
root written into vectors that are to fail by it, an annex taken without its
label, a mode that leaves the report paths alone, unsorted percentiles and a
search that counts as answered when it failed. TLC finds the property violated with each.

## 8. Not modelled

- Backend names and the document validators: single passes without state.
  `ci_structural_check.sh` is one of them: it looks at neither commit nor `out/`.
- Text, layout and wording of reports, check and blocker lists.
- libsecp256k1 and OpenSSL: external. A verifier is ideal (accepts exactly the
  key's own signature over the message) or throws; lifting, negation and the
  multiscalar sum are external definitions of `BatchSchnorr`.
- The standard deviation, the rounding of doubles, the description of host and
  compiler, hex and JSON encodings.
- `run_qrs_negative_tests.py`, one pass over copies of the vectors; the byte
  encodings of descriptors. A premise of `NeverSpoils` keeps out vectors whose
  signature is invalid only for being stale: the code accepts them as invalid
  (`verify_qrs_vectors.py:170`), and an update that puts root and message back
  may make them valid.

## 9. Plan

Done, in this order: validation path and its rule; benchmark run; resource
decision; batch verifier; test vectors; digest model; command line; timing;
release gate; proofs of every safety property of a passing run, the digest model
last. For that one the finds of a search became sets of places, because theorems
about `SelectSeq` take an operator as a parameter.

Left for TLC are the three liveness properties. A part that is only `partly`
modelled or not at all is in section 8 with its reason.
