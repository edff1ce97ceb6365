-------------------------- MODULE ResourceDecision --------------------------
(***************************************************************************)
(* scripts/evaluate_resource_accounting.py: from a benchmark report to the *)
(* decision whether the draft may go on without an explicit QRS validation *)
(* budget, to the two decision files and to the exit code of the gate.     *)
(* A report is its statuses (TRUE: "available"), the completeness of its   *)
(* metadata, the saturated-block estimates it has a p99 of, those p99 in   *)
(* ms, and whether it has the rows of depth 0 and 128.  A number that is   *)
(* there is no promise of the status beside it, nor the other way round.   *)
(***************************************************************************)
EXTENDS Integers

CONSTANTS
  P99,         \* the p99 values of estimates, in ms
  Reports,     \* the reports the script is run on
  NoDecision   \* nothing evaluated yet

Estimates == {"qrs_valid", "qrs_invalid", "individual", "experimental", "reviewed"}

Report ==
  [slh : BOOLEAN, invalid : BOOLEAN, path : BOOLEAN, individual : BOOLEAN,
   experimental : BOOLEAN, reviewed : BOOLEAN, metadata : BOOLEAN, depths : BOOLEAN,
   has : SUBSET Estimates, p99 : [Estimates -> P99]]

Severity ==
  [supports_no_additional_budget_for_draft_review |-> 1,
   unresolved_requires_reviewer_decision          |-> 2,
   explicit_budget_required_before_activation     |-> 3]

Triggers == {"individual", "batch_2_5x", "batch_3x", "reviewed"}

Decision ==
  [draft_rule_status : DOMAIN Severity \cup {"not_evaluable_on_this_platform"},
   explicit_required : BOOLEAN,
   fallback_budget_status :
     {"not_evaluable_on_this_platform", "required_before_activation",
      "reviewer_decision_required", "not_required_by_current_draft_evidence"},
   triggers : SUBSET Triggers]

ASSUME P99Assumption     == P99 \subseteq Nat \ {0}
ASSUME ReportsAssumption == Reports \subseteq Report
ASSUME NoDecisionAssumption == NoDecision \notin Decision

VARIABLES
  pc,        \* "evaluate", "write_json", "write_markdown" or "exited"
  report,    \* the report JSON
  options,   \* --allow-unavailable-qrs and --advisory
  decision,  \* what evaluate returned
  files,     \* the decision files: an "earlier" run's, "cut" short, or "new"
  exit       \* exit code, -1 while running

vars == <<pc, report, options, decision, files, exit>>

-----------------------------------------------------------------------------
Larger(a, b) == IF a > b THEN a ELSE b

\* Mutant: invalid signatures are forgotten.
QrsValidOnly(r) == r.p99["qrs_valid"]

QrsWorst(r) == Larger(r.p99["qrs_valid"], r.p99["qrs_invalid"])

\* Mutant: the factor of 2.5 on the wrong side.
triggers_swapped(r) ==
  {t \in Triggers :
     \/ t = "individual" /\ QrsWorst(r) > r.p99["individual"]
     \/ t = "batch_2_5x" /\ 2 * QrsWorst(r) > 5 * r.p99["individual"]
     \/ t = "batch_3x"   /\ 3 * QrsWorst(r) > r.p99["individual"]
     \/ t = "reviewed"   /\ r.reviewed /\ QrsWorst(r) > r.p99["reviewed"]}

(* Triggers compare QRS with individual Schnorr, with that divided by 2.5  *)
(* and by 3, and with the reviewed baseline; those of no data stay silent. *)
build_fallback_triggers(r) ==
  LET worst      == QrsWorst(r)
      individual == r.p99["individual"]
  IN  {t \in Triggers :
         \/ t = "individual" /\ worst > individual
         \/ t = "batch_2_5x" /\ 5 * worst > 2 * individual
         \/ t = "batch_3x"   /\ 3 * worst > individual
         \/ t = "reviewed"   /\ r.reviewed /\ worst > r.p99["reviewed"]}

Incomplete(r) == ~r.slh \/ ~r.invalid \/ ~r.path \/ ~r.metadata

(* What a complete report is asked for: p99_ms and depth_row refuse what   *)
(* is missing, the batch estimates if their status is "available".         *)
Needed(r) ==
  {q \in Estimates : /\ q = "experimental" => r.experimental
                     /\ q = "reviewed" => r.reviewed}

(* Whether evaluate returns.  Without an individual baseline it raises     *)
(* DecisionError.  On incomplete evidence it returns only with             *)
(* --allow-unavailable-qrs and SLH-DSA or the validation path unavailable: *)
(* no other branch assigns explicit_required, which is then unbound where  *)
(* the result is put together.                                             *)
Evaluates(r, allow) ==
  /\ r.individual
  /\ IF Incomplete(r)
       THEN allow /\ (~r.slh \/ ~r.path)
       ELSE Needed(r) \subseteq r.has /\ r.depths

\* Mutant: the report's own word is passed on as the status.
incomplete_unavailable ==
  [draft_rule_status |-> "unavailable", explicit_required |-> FALSE,
   fallback_budget_status |-> "not_evaluable_on_this_platform", triggers |-> {}]

incomplete_decision ==
  [draft_rule_status      |-> "not_evaluable_on_this_platform",
   explicit_required      |-> FALSE,
   fallback_budget_status |-> "not_evaluable_on_this_platform",
   triggers               |-> {}]

\* Mutant: experimental_pass keeps its initial TRUE when nothing was measured.
BatchSupportsUnmeasured(r) ==
  r.experimental =>
    /\ QrsWorst(r) <= r.p99["experimental"]
    /\ r.p99["experimental"] < r.p99["individual"]

\* experimental_pass and experimental_tightens_individual.
BatchSupports(r) ==
  /\ r.experimental
  /\ QrsWorst(r) <= r.p99["experimental"]
  /\ r.p99["experimental"] < r.p99["individual"]

complete_decision(r) ==
  LET individual_pass == QrsWorst(r) <= r.p99["individual"]
      outcome ==
        IF ~individual_pass
          THEN <<"explicit_budget_required_before_activation", "required_before_activation">>
        ELSE IF ~BatchSupports(r)
          THEN <<"unresolved_requires_reviewer_decision", "reviewer_decision_required">>
        ELSE <<"supports_no_additional_budget_for_draft_review",
               "not_required_by_current_draft_evidence">>
  IN  [draft_rule_status      |-> outcome[1],
       explicit_required      |-> ~individual_pass,
       fallback_budget_status |-> outcome[2],
       triggers               |-> build_fallback_triggers(r)]

evaluate(r) == IF Incomplete(r) THEN incomplete_decision ELSE complete_decision(r)

-----------------------------------------------------------------------------
Init ==
  /\ pc = "evaluate"
  /\ report \in Reports
  /\ options \in [allow : BOOLEAN, advisory : BOOLEAN]
  /\ decision = NoDecision
  /\ files = [json |-> "earlier", markdown |-> "earlier"]
  /\ exit = -1

Evaluate ==
  /\ pc = "evaluate"
  /\ Evaluates(report, options.allow)
  /\ decision' = evaluate(report)
  /\ pc' = "write_json"
  /\ UNCHANGED <<report, options, files, exit>>

(* Anything raised in evaluate ends the script with 1, a DecisionError or  *)
(* KeyError with its message, all others with a traceback.                 *)
EvaluateRaises ==
  /\ pc = "evaluate"
  /\ ~Evaluates(report, options.allow)
  /\ exit' = 1
  /\ pc' = "exited"
  /\ UNCHANGED <<report, options, decision, files>>

WriteJson ==
  /\ pc = "write_json"
  /\ files' = [files EXCEPT !.json = "new"]
  /\ pc' = "write_markdown"
  /\ UNCHANGED <<report, options, decision, exit>>

\* Mutant: the sense of --advisory is inverted.
WriteMarkdownInverted ==
  /\ pc = "write_markdown"
  /\ files' = [files EXCEPT !.markdown = "new"]
  /\ exit' = IF decision.explicit_required /\ options.advisory THEN 2 ELSE 0
  /\ pc' = "exited"
  /\ UNCHANGED <<report, options, decision>>

WriteMarkdown ==
  /\ pc = "write_markdown"
  /\ files' = [files EXCEPT !.markdown = "new"]
  /\ exit' = IF decision.explicit_required /\ ~options.advisory THEN 2 ELSE 0
  /\ pc' = "exited"
  /\ UNCHANGED <<report, options, decision>>

(* A decision file that cannot be written, or not to its end, ends the     *)
(* script with the exception.                                              *)
WriteFails ==
  /\ \E content \in {"earlier", "cut"} :
       \/ pc = "write_json"     /\ files' = [files EXCEPT !.json = content]
       \/ pc = "write_markdown" /\ files' = [files EXCEPT !.markdown = content]
  /\ exit' = 1
  /\ pc' = "exited"
  /\ UNCHANGED <<report, options, decision>>

Next == Evaluate \/ EvaluateRaises \/ WriteJson \/ WriteMarkdown \/ WriteFails

Spec == Init /\ [][Next]_vars

-----------------------------------------------------------------------------
(* The decision has its three fields from the script's vocabulary.         *)
TypeOK ==
  /\ pc \in {"evaluate", "write_json", "write_markdown", "exited"}
  /\ report \in Report
  /\ options \in [allow : BOOLEAN, advisory : BOOLEAN]
  /\ decision \in Decision \cup {NoDecision}
  /\ files \in [{"json", "markdown"} -> {"earlier", "cut", "new"}]
  /\ exit \in {-1, 0, 1, 2}

(* The gate: exit code 0 is never that of a decision for an explicit       *)
(* budget unless advisory, nor of incomplete evidence unless allowed; 2 is *)
(* only that of a decision for an explicit budget; and whoever sees 0 or 2 *)
(* finds both files written by this run.                                   *)
ExitTellsDecision ==
  pc = "exited" =>
    /\ exit = 0 => /\ decision # NoDecision
                   /\ decision.explicit_required => options.advisory
                   /\ Incomplete(report) => options.allow
    /\ exit = 2 => decision # NoDecision /\ decision.explicit_required /\ ~options.advisory
    /\ exit \in {0, 2} => files.json = "new" /\ files.markdown = "new"

(* Slower QRS verification, or the loss of a part: of a status, of         *)
(* metadata, of an estimate or of the depth rows.                          *)
WorseEvidence(r) ==
  {w \in {[r EXCEPT !.p99[q] = v] : q \in {"qrs_valid", "qrs_invalid"}, v \in P99} :
     /\ w.p99["qrs_valid"] >= r.p99["qrs_valid"]
     /\ w.p99["qrs_invalid"] >= r.p99["qrs_invalid"]}
    \cup {[r EXCEPT !.has = @ \ {q}] : q \in Estimates}
    \cup {[r EXCEPT !.slh = FALSE], [r EXCEPT !.invalid = FALSE], [r EXCEPT !.path = FALSE],
          [r EXCEPT !.metadata = FALSE], [r EXCEPT !.depths = FALSE],
          [r EXCEPT !.experimental = FALSE], [r EXCEPT !.reviewed = FALSE]}

NotEvaluable(d) == d.draft_rule_status = "not_evaluable_on_this_platform"

(* Of two reports that both get a decision, the one with the worse         *)
(* evidence never gets a more favourable status: if it is evaluable at     *)
(* all, so was the better one, and its status is at least as severe.       *)
WorseNeverFavoured ==
  pc = "evaluate" =>
    \A w \in WorseEvidence(report) :
      Evaluates(report, options.allow) /\ Evaluates(w, options.allow) =>
        \/ NotEvaluable(evaluate(w))
        \/ /\ ~NotEvaluable(evaluate(report))
           /\ Severity[evaluate(w).draft_rule_status]
                >= Severity[evaluate(report).draft_rule_status]

Supports(d) == d.draft_rule_status = "supports_no_additional_budget_for_draft_review"

(* What the script demands for "supports": complete evidence, all four     *)
(* estimates measured, neither QRS estimate above either baseline, and an  *)
(* experimental batch that tightens the individual one.  The criteria of   *)
(* docs/evidence/resource-accounting-decision.md say "below": equality,    *)
(* which the script accepts, is not excluded here.                         *)
SupportMeansCriteria ==
  decision # NoDecision /\ Supports(decision) =>
    /\ report.slh /\ report.invalid /\ report.path /\ report.metadata
    /\ report.experimental
    /\ {"qrs_valid", "qrs_invalid", "individual", "experimental"} \subseteq report.has
    /\ \A q \in {"qrs_valid", "qrs_invalid"} :
         /\ report.p99[q] <= report.p99["individual"]
         /\ report.p99[q] <= report.p99["experimental"]
    /\ report.p99["experimental"] < report.p99["individual"]

(* The triggers nest: each fires whenever a laxer baseline's does, and the *)
(* one on individual Schnorr fires with an explicit budget on full data.   *)
TriggersNest ==
  decision # NoDecision /\ ~Incomplete(report) =>
    /\ "individual" \in decision.triggers <=> decision.explicit_required
    /\ "individual" \in decision.triggers => "batch_2_5x" \in decision.triggers
    /\ "batch_2_5x" \in decision.triggers => "batch_3x" \in decision.triggers

(* docs/evidence/explicit-qrs-budget-fallback.md: "should be treated as    *)
(* required before activation if any fallback trigger is hit".             *)
TriggerRequiresBudget ==
  decision # NoDecision =>
    (decision.triggers # {} => decision.fallback_budget_status = "required_before_activation")

(* docs/evidence/resource-accounting-decision.md: with native data missing *)
(* "the generated status is `explicit_budget_required_before_activation`". *)
(* A run that has its individual baseline ends with that status; neither   *)
(* with another nor with none.                                             *)
MissingDataRequiresBudget ==
  pc = "exited" /\ Incomplete(report) /\ report.individual =>
    /\ decision # NoDecision
    /\ decision.draft_rule_status = "explicit_budget_required_before_activation"

=============================================================================
