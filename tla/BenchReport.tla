----------------------------- MODULE BenchReport -----------------------------
(***************************************************************************)
(* One run of qrs_native_bench: the SLH-DSA, Schnorr and validation-path   *)
(* benchmarks, each of which may throw at any library call it makes, then  *)
(* the block model, the JSON and the Markdown report, and last the gate    *)
(* scripts/assert_quick_report.py that reads both.                         *)
(*                                                                         *)
(* A Stats carries its own `available` flag beside the `status` text.  The *)
(* JSON prints the text and, by the flag, the numbers; the block model and *)
(* the Markdown rows go by the flag alone.  Of the numbers only p99 is     *)
(* kept, the one the harness sorts by.  An error text is "algorithm" when  *)
(* it names EVP_PKEY_CTX_new_from_name or says unsupported, else "other".  *)
(***************************************************************************)
EXTENDS Integers, Sequences, FiniteSets, Ordering

CONSTANTS
  NumCases,     \* invalid signature cases (make_invalid_fixed_length_cases: 9)
  CaseP99,      \* the p99 values an invalid case may be timed at
  OtherP99      \* and those of the other measurements

ASSUME CasesAssumption == NumCases \in Nat \ {0}
ASSUME P99Assumption   == CaseP99 \subseteq Nat /\ OtherP99 \subseteq Nat

VARIABLES
  pc,       \* the next step of the program, "exited" at the end
  only,     \* the --only argument
  slh,      \* SlhDsaResult
  schnorr,  \* SchnorrResult
  results,  \* local result vector of run_experimental_batch_benchmarks
  path,     \* QrsValidationPathResult
  block,    \* BlockModel
  json,     \* the JSON file: "absent", "earlier" run's, "cut" short or "whole"
  markdown, \* the Markdown file, likewise
  exit,     \* exit code, -1 while running
  gate      \* what assert_quick_report.py answered, and its option

vars == <<pc, only, slh, schnorr, results, path, block, json, markdown, exit, gate>>

-----------------------------------------------------------------------------
Unavailable    == [available |-> FALSE, status |-> "unavailable", p99 |-> 0]
summarize(p99) == [available |-> TRUE, status |-> "available", p99 |-> p99]

\* What the catch blocks of two of the three benchmarks do to a Stats.
Withdrawn(stats) == [stats EXCEPT !.status = "unavailable"]

SlhDsaResult ==
  [status |-> "unavailable", reason |-> "none", probe |-> {}, backend |-> "unlisted",
   valid |-> Unavailable, cases |-> <<>>, min |-> Unavailable, median |-> Unavailable,
   worst |-> Unavailable, verify |-> Unavailable]

SchnorrResult ==
  [status |-> "unavailable", valid |-> Unavailable, invalid |-> Unavailable,
   self_test |-> "unavailable", batch |-> "unavailable", batch_valid |-> <<>>,
   batch_invalid |-> <<>>, primary |-> Unavailable, reviewed |-> Unavailable]

Buckets == {"structural_checks", "qrs_msg_construction", "verifier_valid",
            "total_valid", "invalid_structural", "invalid_fixed_length"}

NoBuckets == [b \in Buckets |-> Unavailable]

QrsValidationPathResult ==
  [status |-> "unavailable", reason |-> "none", stats |-> NoBuckets]

NextStep ==
  [keygen |-> "sign", sign |-> "verify_valid", verify_valid |-> "verify_mutated",
   verify_mutated |-> "time_valid",
   structural_checks |-> "qrs_msg_construction", qrs_msg_construction |-> "verifier_valid",
   verifier_valid |-> "total_valid", total_valid |-> "invalid_structural",
   invalid_structural |-> "invalid_fixed_length", invalid_fixed_length |-> "model"]

ProbeSteps   == {"keygen", "sign", "verify_valid", "verify_mutated"}
SlhSteps     == ProbeSteps \cup {"time_valid", "time_case", "select", "finish"}
SetupSteps   == {"schnorr_setup", "individual_valid", "individual_invalid"}
BatchSteps   == {"self_test", "batch_valid", "batch_invalid"}
PathSteps    == {"path_preflight"} \cup Buckets
MainSteps    == {"slh", "schnorr", "path"}
ReportSteps  == {"model", "write_json", "write_markdown"}
Reasons      == {"algorithm", "other"}

\* Mutant: the batch of a whole block is left out.
batch_sizes_without_block == <<64, 128, 512, 2048>>

\* {64, 128, 512, 2048, block_weight_wu / p2tr_keypath_input_wu}
experimental_batch_sizes == <<64, 128, 512, 2048, 4000000 \div 230>>

-----------------------------------------------------------------------------
Depths == {0, 1, 3, 128}

estimate(input_weight, stats, depth) ==
  LET max_inputs == 4000000 \div input_weight
  IN  [available |-> stats.available, depth |-> depth, weight |-> input_weight,
       max_inputs |-> max_inputs, hashes |-> depth * max_inputs]

qrs_input_weight_at_depth(depth) == 8059 + depth * 32

build_block_model ==
  [valid            |-> estimate(8059, slh.valid, 0),
   invalid          |-> estimate(8059, slh.verify, 0),
   valid_by_depth   |-> [d \in Depths |->
                           estimate(qrs_input_weight_at_depth(d), slh.valid, d)],
   invalid_by_depth |-> [d \in Depths |->
                           estimate(qrs_input_weight_at_depth(d), slh.verify, d)],
   individual       |-> estimate(230, schnorr.valid, 0),
   experimental     |-> estimate(230, schnorr.primary, 0),
   reviewed         |-> estimate(230, schnorr.reviewed, 0)]

NoModel == "not built"
-----------------------------------------------------------------------------
Init ==
  /\ pc = "slh"
  /\ only \in {"all", "slh-dsa", "schnorr", "schnorr-batch", "qrs-path", "mistyped"}
  /\ slh = SlhDsaResult
  /\ schnorr = SchnorrResult
  /\ results = <<>>
  /\ path = QrsValidationPathResult
  /\ block = NoModel
  /\ json \in {"absent", "earlier"}
  /\ markdown \in {"absent", "earlier"}
  /\ exit = -1
  /\ gate = [answer |-> "none", allow |-> FALSE]

(* main enters a benchmark when --only selects it; any other word selects  *)
(* none.                                                                   *)
Dispatch ==
  /\ \/ /\ pc = "slh"
        /\ pc' = IF only \in {"all", "slh-dsa"} THEN "keygen" ELSE "schnorr"
     \/ /\ pc = "schnorr"
        /\ pc' = IF only \in {"all", "schnorr", "schnorr-batch"}
                   THEN "schnorr_setup" ELSE "path"
     \/ /\ pc = "path"
        /\ pc' = IF only \in {"all", "qrs-path"} THEN "path_preflight" ELSE "model"
  /\ UNCHANGED <<only, slh, schnorr, results, path, block, json, markdown, exit, gate>>

(* SLH-DSA: key generation, signature, and the verifications before timing *)
SlhProbe ==
  /\ pc \in ProbeSteps
  /\ slh' = [slh EXCEPT !.probe = @ \cup {pc}]
  /\ pc' = NextStep[pc]
  /\ UNCHANGED <<only, schnorr, results, path, block, json, markdown, exit, gate>>

SlhTimeValid ==
  /\ pc = "time_valid"
  /\ \E p99 \in OtherP99 : slh' = [slh EXCEPT !.valid = summarize(p99)]
  /\ pc' = "time_case"
  /\ UNCHANGED <<only, schnorr, results, path, block, json, markdown, exit, gate>>

\* Mutant: one case too many.
SlhTimeCaseTooMany ==
  /\ pc = "time_case"
  /\ \E p99 \in CaseP99 : slh' = [slh EXCEPT !.cases = Append(@, summarize(p99))]
  /\ pc' = IF Len(slh'.cases) > NumCases THEN "select" ELSE "time_case"
  /\ UNCHANGED <<only, schnorr, results, path, block, json, markdown, exit, gate>>

SlhTimeCase ==
  /\ pc = "time_case"
  /\ Len(slh.cases) < NumCases
  /\ \E p99 \in CaseP99 : slh' = [slh EXCEPT !.cases = Append(@, summarize(p99))]
  /\ pc' = IF Len(slh'.cases) = NumCases THEN "select" ELSE "time_case"
  /\ UNCHANGED <<only, schnorr, results, path, block, json, markdown, exit, gate>>

\* Mutant: cases in the order of their timing.
select_unsorted(cases) ==
  LET n == Len(cases)
  IN  [min |-> cases[1], median |-> cases[n \div 2 + 1], worst |-> cases[n]]

select_invalid_summary_stats(cases) ==
  LET available == {k \in DOMAIN cases : cases[k].available}
      order     == ascending([k \in available |-> cases[k].p99])
      n         == Cardinality(available)
  IN  [min    |-> cases[order[1]],
       median |-> cases[order[n \div 2 + 1]],
       worst  |-> cases[order[n]]]

SlhSelect ==
  /\ pc = "select"
  /\ LET s == select_invalid_summary_stats(slh.cases)
     IN  slh' = [slh EXCEPT !.min = s.min, !.median = s.median, !.worst = s.worst,
                            !.verify = s.worst]
  /\ pc' = "finish"
  /\ UNCHANGED <<only, schnorr, results, path, block, json, markdown, exit, gate>>

SlhFinish ==
  /\ pc = "finish"
  /\ slh' = [slh EXCEPT !.status = "available", !.backend = "available"]
  /\ pc' = "schnorr"
  /\ UNCHANGED <<only, schnorr, results, path, block, json, markdown, exit, gate>>

(* Any OpenSSL call of the benchmark may fail; so may an allocation, even  *)
(* the one for the list of backends, when everything has been measured.    *)
SlhThrows ==
  /\ pc \in SlhSteps
  /\ \E reason \in Reasons :
       slh' = [slh EXCEPT !.status = "unavailable", !.reason = reason,
                          !.backend = "unavailable", !.valid = Withdrawn(@),
                          !.min = Withdrawn(@), !.median = Withdrawn(@),
                          !.worst = Withdrawn(@), !.verify = Withdrawn(@)]
  /\ pc' = "schnorr"
  /\ UNCHANGED <<only, schnorr, results, path, block, json, markdown, exit, gate>>

(* Schnorr: the individual baseline, then the experimental batch.          *)
SchnorrSetup ==
  /\ pc = "schnorr_setup"
  /\ pc' = "individual_valid"
  /\ UNCHANGED <<only, slh, schnorr, results, path, block, json, markdown, exit, gate>>

SchnorrIndividual ==
  /\ \/ /\ pc = "individual_valid"
        /\ \E p99 \in OtherP99 : schnorr' = [schnorr EXCEPT !.valid = summarize(p99)]
        /\ pc' = "individual_invalid"
     \/ /\ pc = "individual_invalid"
        /\ \E p99 \in OtherP99 :
             schnorr' = [schnorr EXCEPT !.invalid = summarize(p99), !.status = "available"]
        /\ pc' = "self_test"
  /\ UNCHANGED <<only, slh, results, path, block, json, markdown, exit, gate>>

SchnorrSetupThrows ==
  /\ pc \in SetupSteps
  /\ schnorr' = [schnorr EXCEPT !.status = "unavailable", !.valid = Withdrawn(@),
                                !.invalid = Withdrawn(@), !.batch = "unavailable",
                                !.primary = Withdrawn(@)]
  /\ pc' = "path"
  /\ UNCHANGED <<only, slh, results, path, block, json, markdown, exit, gate>>

SchnorrSelfTest ==
  /\ pc = "self_test"
  /\ schnorr' = [schnorr EXCEPT !.self_test = "available"]
  /\ pc' = "batch_valid"
  /\ UNCHANGED <<only, slh, results, path, block, json, markdown, exit, gate>>

(* One size of the batch loop; the vector is assigned when all are done.   *)
BatchSize ==
  /\ pc \in {"batch_valid", "batch_invalid"}
  /\ Len(results) < Len(experimental_batch_sizes)
  /\ \E p99 \in OtherP99 : results' = Append(results, summarize(p99))
  /\ UNCHANGED <<pc, only, slh, schnorr, path, block, json, markdown, exit, gate>>

BatchLoopDone ==
  /\ Len(results) = Len(experimental_batch_sizes)
  /\ \/ /\ pc = "batch_valid"
        /\ schnorr' = [schnorr EXCEPT !.batch_valid = results]
        /\ pc' = "batch_invalid"
     \/ /\ pc = "batch_invalid"
        /\ schnorr' = [schnorr EXCEPT !.batch_invalid = results, !.batch = "available",
                                      !.primary = schnorr.batch_valid[Len(schnorr.batch_valid)]]
        /\ pc' = "path"
  /\ results' = <<>>
  /\ UNCHANGED <<only, slh, path, block, json, markdown, exit, gate>>

(* Disabled by the environment, a failed self-test, a refused context, an  *)
(* unexpected verdict or a library failure.                                *)
BatchThrows ==
  /\ pc \in BatchSteps
  /\ schnorr' = [schnorr EXCEPT !.batch = "unavailable", !.primary = Withdrawn(@)]
  /\ results' = <<>>
  /\ pc' = "path"
  /\ UNCHANGED <<only, slh, path, block, json, markdown, exit, gate>>

(* The modeled validation path: preflight assertions, then six timings.    *)
PathPreflight ==
  /\ pc = "path_preflight"
  /\ pc' = "structural_checks"
  /\ UNCHANGED <<only, slh, schnorr, results, path, block, json, markdown, exit, gate>>

PathTiming ==
  /\ pc \in Buckets
  /\ \E p99 \in OtherP99 :
       path' = [path EXCEPT !.stats[pc] = summarize(p99),
                            !.status = IF pc = "invalid_fixed_length"
                                         THEN "available" ELSE @]
  /\ pc' = NextStep[pc]
  /\ UNCHANGED <<only, slh, schnorr, results, block, json, markdown, exit, gate>>

\* Mutant: the statistics are withdrawn as those of SLH-DSA are.
PathThrowsKeepingNumbers ==
  /\ pc \in PathSteps
  /\ \E reason \in Reasons :
       path' = [status |-> "unavailable", reason |-> reason,
                stats |-> [b \in Buckets |-> Withdrawn(path.stats[b])]]
  /\ pc' = "model"
  /\ UNCHANGED <<only, slh, schnorr, results, block, json, markdown, exit, gate>>

PathThrows ==
  /\ pc \in PathSteps
  /\ \E reason \in Reasons :
       path' = [status |-> "unavailable", reason |-> reason, stats |-> NoBuckets]
  /\ pc' = "model"
  /\ UNCHANGED <<only, slh, schnorr, results, block, json, markdown, exit, gate>>

(* The reports.                                                            *)
BuildModel ==
  /\ pc = "model"
  /\ block' = build_block_model
  /\ pc' = "write_json"
  /\ UNCHANGED <<only, slh, schnorr, results, path, json, markdown, exit, gate>>

\* A write that fails after the file was opened goes unnoticed: "cut".
WriteJson ==
  /\ pc = "write_json"
  /\ json' \in {"cut", "whole"}
  /\ pc' = "write_markdown"
  /\ UNCHANGED <<only, slh, schnorr, results, path, block, markdown, exit, gate>>

WriteMarkdown ==
  /\ pc = "write_markdown"
  /\ markdown' \in {"cut", "whole"}
  /\ exit' = 0
  /\ pc' = "exited"
  /\ UNCHANGED <<only, slh, schnorr, results, path, block, json, gate>>

\* Mutant: main's catch block logs and returns 0.
MainThrowsUnnoticed ==
  /\ pc \in ReportSteps
  /\ exit' = 0
  /\ pc' = "exited"
  /\ UNCHANGED <<only, slh, schnorr, results, path, block, json, markdown, gate>>

\* The environment cannot be collected or a file cannot be opened.
MainThrows ==
  /\ pc \in ReportSteps
  /\ exit' = 1
  /\ pc' = "exited"
  /\ UNCHANGED <<only, slh, schnorr, results, path, block, json, markdown, gate>>

-----------------------------------------------------------------------------
(* assert_quick_report.py on the JSON of this run, part by part.           *)
SchnorrAsserted ==
  /\ schnorr.status = "available"
  /\ schnorr.valid.status = "available" /\ schnorr.invalid.status = "available"
  /\ schnorr.reviewed.status = "unavailable"
  /\ schnorr.batch = "available" =>
       /\ schnorr.self_test = "available"
       /\ Len(schnorr.batch_valid) >= 5

BlockAsserted ==
  /\ block.individual.available
  /\ ~block.reviewed.available
  /\ block.experimental.available <=> schnorr.batch = "available"
  /\ \A rows \in {block.valid_by_depth, block.invalid_by_depth} :
       \A d \in {0, 1, 3, 128} : rows[d].hashes = rows[d].depth * rows[d].max_inputs

SlhAsserted(allow) ==
  /\ slh.backend # "unlisted"
  /\ IF slh.status = "available"
       THEN /\ slh.probe = ProbeSteps
            /\ slh.backend = "available"
            /\ slh.valid.status = "available" /\ slh.verify.status = "available"
            /\ Len(slh.cases) >= NumCases
            /\ \A s \in {slh.min, slh.median, slh.worst} : s.status = "available"
            /\ slh.verify.p99 = slh.worst.p99
       ELSE allow /\ slh.reason = "algorithm"

\* Mutant: an unavailable validation path is always excused.
PathAssertedLeniently(allow) ==
  path.status = "available" =>
    \A b \in {"total_valid", "invalid_structural", "invalid_fixed_length"} :
      path.stats[b].status = "available"

PathAsserted(allow) ==
  IF path.status = "available"
    THEN \A b \in {"total_valid", "invalid_structural", "invalid_fixed_length"} :
           path.stats[b].status = "available"
    ELSE allow /\ path.reason = "algorithm"

assert_quick_report(allow) ==
  json = "whole" /\ SchnorrAsserted /\ BlockAsserted /\ SlhAsserted(allow) /\ PathAsserted(allow)

(* The scripts run the gate when the program exited with 0.  A Markdown    *)
(* report cut short may still hold every phrase the gate looks for.        *)
Gate ==
  /\ pc = "exited" /\ exit = 0 /\ gate.answer = "none"
  /\ \E allow \in BOOLEAN, answer \in {"pass", "fail"} :
       /\ answer = "pass" => assert_quick_report(allow)
       /\ answer = "fail" => ~assert_quick_report(allow) \/ markdown = "cut"
       /\ gate' = [answer |-> answer, allow |-> allow]
  /\ UNCHANGED <<pc, only, slh, schnorr, results, path, block, json, markdown, exit>>

Next ==
  \/ Dispatch
  \/ SlhProbe \/ SlhTimeValid \/ SlhTimeCase \/ SlhSelect \/ SlhFinish \/ SlhThrows
  \/ SchnorrSetup \/ SchnorrIndividual \/ SchnorrSetupThrows
  \/ SchnorrSelfTest \/ BatchSize \/ BatchLoopDone \/ BatchThrows
  \/ PathPreflight \/ PathTiming \/ PathThrows
  \/ BuildModel \/ WriteJson \/ WriteMarkdown \/ MainThrows
  \/ Gate

Spec == Init /\ [][Next]_vars

-----------------------------------------------------------------------------
(* What the Markdown report says.                                          *)
stats_row(stats) == IF stats.available THEN "available" ELSE stats.status

\* Mutant: only the valid QRS timing is looked at.
conclusion_from_valid ==
  IF ~slh.valid.available THEN "no usable QRS timings"
  ELSE IF ~schnorr.valid.available  THEN "no individual baseline"
  ELSE IF schnorr.primary.available THEN "sensitivity analysis with experimental batch"
  ELSE "reviewed batch baseline unavailable"

conclusion ==
  IF ~slh.valid.available \/ ~slh.verify.available THEN "no usable QRS timings"
  ELSE IF ~schnorr.valid.available  THEN "no individual baseline"
  ELSE IF schnorr.primary.available THEN "sensitivity analysis with experimental batch"
  ELSE "reviewed batch baseline unavailable"

Elements(seq) == {seq[k] : k \in DOMAIN seq}

PublishedStats ==
  {slh.valid, slh.verify, slh.min, slh.median, slh.worst, schnorr.valid,
   schnorr.invalid, schnorr.primary, schnorr.reviewed}
    \cup Elements(slh.cases) \cup Elements(schnorr.batch_valid)
    \cup Elements(schnorr.batch_invalid) \cup {path.stats[b] : b \in Buckets}

-----------------------------------------------------------------------------
Stats == [available : BOOLEAN, status : {"available", "unavailable"},
          p99 : CaseP99 \cup OtherP99 \cup {0}]

(* Every result holds well-formed statistics and every file a known state. *)
TypeOK ==
  /\ pc \in SlhSteps \cup SetupSteps \cup BatchSteps \cup PathSteps \cup MainSteps
              \cup ReportSteps \cup {"exited"}
  /\ only \in {"all", "slh-dsa", "schnorr", "schnorr-batch", "qrs-path", "mistyped"}
  /\ PublishedStats \cup Elements(results) \subseteq Stats
  /\ slh.probe \subseteq ProbeSteps /\ Len(slh.cases) <= NumCases
  /\ \A s \in {slh.status, schnorr.status, schnorr.batch, schnorr.self_test, path.status} :
       s \in {"available", "unavailable"}
  /\ {slh.reason, path.reason} \subseteq Reasons \cup {"none"}
  /\ {json, markdown} \subseteq {"absent", "earlier", "cut", "whole"}
  /\ exit \in {-1, 0, 1}
  /\ gate \in [answer : {"none", "pass", "fail"}, allow : BOOLEAN]

(* A benchmark reports "available" only with everything it was to measure: *)
(* all probes and all invalid cases, the self-test and all batch sizes in  *)
(* both directions on top of the individual baseline, all six buckets.     *)
StatusIsEarned ==
  /\ slh.status = "available" =>
       /\ slh.probe = ProbeSteps /\ Len(slh.cases) = NumCases
       /\ \A s \in {slh.valid, slh.verify} \cup Elements(slh.cases) : s.available
  /\ schnorr.batch = "available" =>
       /\ schnorr.status = "available" /\ schnorr.self_test = "available"
       /\ Len(schnorr.batch_valid) = 5 /\ Len(schnorr.batch_invalid) = 5
  /\ path.status = "available" => \A b \in Buckets : path.stats[b].available

(* The summary of the invalid cases encloses them, and no more than half   *)
(* of them lie strictly on either side of what is reported as median.      *)
InvalidSummaryEncloses ==
  slh.status = "available" =>
    LET Below(p99) == {k \in DOMAIN slh.cases : slh.cases[k].p99 < p99}
        Above(p99) == {k \in DOMAIN slh.cases : slh.cases[k].p99 > p99}
    IN  /\ Below(slh.min.p99) = {} /\ Above(slh.verify.p99) = {}
        /\ {slh.min, slh.median, slh.verify} \subseteq Elements(slh.cases)
        /\ 2 * Cardinality(Below(slh.median.p99)) <= NumCases
        /\ 2 * Cardinality(Above(slh.median.p99)) <= NumCases

(* A report the gate accepts without --allow-unavailable-qrs is of one     *)
(* mind: each Markdown row says what the JSON status says, the QRS rows of *)
(* the block model hold estimates at every depth, and all was measured.    *)
AcceptedReportAgrees ==
  gate.answer = "pass" /\ ~gate.allow =>
    /\ \A s \in PublishedStats : stats_row(s) = s.status
    /\ \A rows \in {block.valid_by_depth, block.invalid_by_depth} :
         \A d \in Depths : rows[d].available
    /\ \A b \in Buckets : path.stats[b].available
    /\ Len(slh.cases) = NumCases
    /\ conclusion \in {"sensitivity analysis with experimental batch",
                       "reviewed batch baseline unavailable"}

(* The conclusion that speaks of QRS, individual and experimental batch    *)
(* timings is drawn only when each of them is complete: every invalid case *)
(* was timed, the worst of them is the one the conclusion goes by, and the *)
(* batches were timed in both directions.  A late failure may nevertheless *)
(* have withdrawn the status of the QRS timings.                           *)
ConclusionBacked ==
  conclusion = "sensitivity analysis with experimental batch" =>
    /\ slh.probe = ProbeSteps /\ slh.valid.available /\ Len(slh.cases) = NumCases
    /\ \A k \in DOMAIN slh.cases : slh.cases[k].p99 <= slh.verify.p99
    /\ schnorr.status = "available" /\ schnorr.batch = "available"
    /\ Len(schnorr.batch_valid) = 5 /\ Len(schnorr.batch_invalid) = 5

(* Exit code 0 leaves no file of an earlier run, and a new Markdown report *)
(* never stands beside an older JSON one.                                  *)
FreshReports ==
  /\ exit = 0 => {json, markdown} \subseteq {"cut", "whole"}
  /\ markdown \in {"cut", "whole"} => json \in {"cut", "whole"}

(* assert_quick_report.py: "OpenSSL SLH-DSA backend inventory must match   *)
(* available SLH timings".  The catch block of run_slh_dsa_benchmarks      *)
(* leaves valid_verify.available set when a later timing throws.           *)
BackendMatchesTimings ==
  pc \in ReportSteps \cup {"exited"} /\ slh.backend # "unlisted" =>
    (slh.backend = "available" <=> slh.valid.available)

(* The validation-path benchmark publishes all or nothing, whichever call  *)
(* throws: its catch block resets the statistics, not just their status.   *)
PathPending == pc \in PathSteps \cup SlhSteps \cup SetupSteps \cup BatchSteps \cup MainSteps

Path == INSTANCE AtomicOutcome WITH
  Measurements <- Buckets,
  outcome      <- IF PathPending THEN "pending" ELSE path.status,
  numbers      <- IF PathPending THEN {} ELSE {b \in Buckets : path.stats[b].available}

PathPublishesAtomically == Path!Spec

=============================================================================
