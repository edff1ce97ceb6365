----------------------- MODULE ResourceDecisionProofs -----------------------
(***************************************************************************)
(* Theorems of ResourceDecision for every set of reports and every set of  *)
(* p99 values: what a favourable status rests on, that worse evidence is   *)
(* never favoured, and what the exit code of the gate tells.               *)
(***************************************************************************)
EXTENDS ResourceDecision, TLAPS

(* The p99 of an estimate is a positive integer, so is the worst of two.   *)
LEMMA P99Positive ==
  ASSUME NEW r \in Report
  PROVE  /\ \A q \in Estimates : r.p99[q] \in Nat \ {0}
         /\ QrsWorst(r) \in Nat \ {0}
         /\ QrsWorst(r) >= r.p99["qrs_valid"]
         /\ QrsWorst(r) >= r.p99["qrs_invalid"]
         /\ QrsWorst(r) \in {r.p99["qrs_valid"], r.p99["qrs_invalid"]}
<1>1. r.p99 \in [Estimates -> P99]
  BY DEF Report
<1>2. \A q \in Estimates : r.p99[q] \in Nat \ {0}
  BY <1>1, P99Assumption
<1>. QED
  BY <1>2 DEF QrsWorst, Larger, Estimates

(* The favourable status of a report, in terms of its estimates.           *)
LEMMA SupportedReport ==
  ASSUME NEW r \in Report, Supports(evaluate(r))
  PROVE  ~Incomplete(r) /\ QrsWorst(r) <= r.p99["individual"] /\ BatchSupports(r)
BY DEF Supports, evaluate, incomplete_decision, complete_decision

(* Every report yields a decision of the three fields' vocabulary.         *)
LEMMA DecisionType ==
  ASSUME NEW r \in Report
  PROVE  evaluate(r) \in Decision /\ evaluate(r) # NoDecision
<1>1. incomplete_decision \in Decision
  BY DEF incomplete_decision, Decision, Severity
<1>2. complete_decision(r) \in Decision
  <2>1. build_fallback_triggers(r) \in SUBSET Triggers
    BY DEF build_fallback_triggers
  <2>. QED
    BY <2>1, P99Positive DEF complete_decision, Decision, Severity
<1>. QED
  BY <1>1, <1>2, NoDecisionAssumption DEF evaluate

\* A report that evaluate returned on, and what it returned.
Evaluated == Evaluates(report, options.allow) /\ decision = evaluate(report)

(* Where the run is and what it has decided: the decision once taken is    *)
(* that of the report, and the files are written before the exit code.     *)
DecisionTaken ==
  /\ pc \in {"write_json", "write_markdown"} => Evaluated
  /\ decision # NoDecision => Evaluated
  /\ pc \in {"evaluate", "write_json", "write_markdown"} => exit = -1
  /\ pc = "write_markdown" => files.json = "new"
  /\ exit \in {0, 2} => Evaluated /\ files.json = "new" /\ files.markdown = "new"
  /\ exit = 0 => (decision.explicit_required => options.advisory)
  /\ exit = 2 => decision.explicit_required /\ ~options.advisory

IInv == TypeOK /\ report \in Reports /\ DecisionTaken

(* The invariant that carries the others is inductive.                     *)
THEOREM Inductive == Spec => []IInv
<1>1. Init => IInv
  <2>. SUFFICES ASSUME Init PROVE IInv
    OBVIOUS
  <2>1. files \in [{"json", "markdown"} -> {"earlier", "new"}]
    BY DEF Init
  <2>. QED
    BY <2>1, ReportsAssumption DEF Init, IInv, TypeOK, DecisionTaken
<1>2. IInv /\ [Next]_vars => IInv'
  <2>. SUFFICES ASSUME IInv, [Next]_vars PROVE IInv'
    OBVIOUS
  <2>. USE DEF IInv, TypeOK, DecisionTaken, Evaluated
  <2>1. evaluate(report) \in Decision
    BY DecisionType
  <2>2. decision # NoDecision => decision \in Decision
    OBVIOUS
  <2>3. CASE Evaluate
    BY <2>1, <2>3 DEF Evaluate
  <2>4. CASE EvaluateRaises
    BY <2>4 DEF EvaluateRaises
  <2>5. CASE WriteJson
    BY <2>5 DEF WriteJson
  <2>6. CASE WriteMarkdown
    BY <2>6 DEF WriteMarkdown
  <2>7. CASE WriteFails
    BY <2>7 DEF WriteFails
  <2>8. CASE UNCHANGED vars
    BY <2>8 DEF vars
  <2>. QED
    BY <2>3, <2>4, <2>5, <2>6, <2>7, <2>8 DEF Next
<1>. QED
  BY <1>1, <1>2, PTL DEF Spec

(* The type invariant.                                                     *)
THEOREM TypeCorrect == Spec => []TypeOK
BY Inductive, PTL DEF IInv

-----------------------------------------------------------------------------
(* "supports" is decided only on complete evidence with all four estimates *)
(* measured, neither QRS estimate above either baseline, and a batch that  *)
(* tightens the individual one.                                            *)
THEOREM SupportCriteria == Spec => []SupportMeansCriteria
<1>1. IInv => SupportMeansCriteria
  <2>. SUFFICES ASSUME IInv, decision # NoDecision, Supports(decision)
                PROVE  /\ report.slh /\ report.invalid /\ report.path /\ report.metadata
                       /\ report.experimental
                       /\ {"qrs_valid", "qrs_invalid", "individual", "experimental"}
                            \subseteq report.has
                       /\ \A q \in {"qrs_valid", "qrs_invalid"} :
                            /\ report.p99[q] <= report.p99["individual"]
                            /\ report.p99[q] <= report.p99["experimental"]
                       /\ report.p99["experimental"] < report.p99["individual"]
    BY DEF SupportMeansCriteria
  <2>1. report \in Report
    BY DEF IInv, TypeOK
  <2>2. Evaluates(report, options.allow) /\ Supports(evaluate(report))
    BY DEF IInv, DecisionTaken, Evaluated
  <2>3. /\ ~Incomplete(report) /\ report.experimental
        /\ QrsWorst(report) <= report.p99["individual"]
        /\ QrsWorst(report) <= report.p99["experimental"]
        /\ report.p99["experimental"] < report.p99["individual"]
    BY <2>1, <2>2, SupportedReport DEF BatchSupports
  <2>4. {"qrs_valid", "qrs_invalid", "individual", "experimental"} \subseteq report.has
    BY <2>2, <2>3 DEF Evaluates, Needed, Estimates
  <2>. QED
    BY <2>1, <2>3, <2>4, P99Positive DEF Incomplete, Estimates
<1>. QED
  BY <1>1, Inductive, PTL

(* The exit code tells the decision and that both files are this run's.    *)
THEOREM ExitCode == Spec => []ExitTellsDecision
<1>1. IInv => ExitTellsDecision
  <2>. SUFFICES ASSUME IInv PROVE ExitTellsDecision
    OBVIOUS
  <2>1. evaluate(report) # NoDecision
    BY DecisionType DEF IInv, TypeOK
  <2>2. Evaluated /\ Incomplete(report) => options.allow
    BY DEF Evaluated, Evaluates
  <2>. QED
    BY <2>1, <2>2 DEF IInv, DecisionTaken, Evaluated, ExitTellsDecision
<1>. QED
  BY <1>1, Inductive, PTL

(* The triggers nest, and the one on individual Schnorr is the explicit    *)
(* budget.                                                                 *)
THEOREM Nesting == Spec => []TriggersNest
<1>1. IInv => TriggersNest
  <2>. SUFFICES ASSUME IInv, decision # NoDecision, ~Incomplete(report)
                PROVE  /\ "individual" \in decision.triggers <=> decision.explicit_required
                       /\ "individual" \in decision.triggers
                            => "batch_2_5x" \in decision.triggers
                       /\ "batch_2_5x" \in decision.triggers
                            => "batch_3x" \in decision.triggers
    BY DEF TriggersNest
  <2>1. report \in Report
    BY DEF IInv, TypeOK
  <2>2. decision = complete_decision(report)
    BY DEF IInv, DecisionTaken, Evaluated, evaluate
  <2>3. /\ decision.triggers = build_fallback_triggers(report)
        /\ decision.explicit_required <=> ~(QrsWorst(report) <= report.p99["individual"])
    BY <2>2 DEF complete_decision
  <2>4. QrsWorst(report) \in Nat /\ report.p99["individual"] \in Nat
    BY <2>1, P99Positive DEF Estimates
  <2>5. /\ "individual" \in decision.triggers <=> QrsWorst(report) > report.p99["individual"]
        /\ "batch_2_5x" \in decision.triggers
             <=> 5 * QrsWorst(report) > 2 * report.p99["individual"]
        /\ "batch_3x" \in decision.triggers
             <=> 3 * QrsWorst(report) > report.p99["individual"]
    BY <2>3 DEF build_fallback_triggers, Triggers
  <2>. QED
    BY <2>3, <2>4, <2>5
<1>. QED
  BY <1>1, Inductive, PTL

-----------------------------------------------------------------------------
(* The decision on a report is that it is not evaluable exactly when its   *)
(* evidence is incomplete; if it is not, this is how severe the status is. *)
LEMMA SeverityOf ==
  ASSUME NEW r \in Report
  PROVE  /\ NotEvaluable(evaluate(r)) <=> Incomplete(r)
         /\ ~Incomplete(r) =>
              Severity[evaluate(r).draft_rule_status] =
                IF ~(QrsWorst(r) <= r.p99["individual"]) THEN 3
                ELSE IF BatchSupports(r) THEN 1 ELSE 2
BY DEF NotEvaluable, evaluate, incomplete_decision, complete_decision, Severity

(* The larger of two numbers does not fall when neither of them does.      *)
LEMMA LargerMonotone ==
  ASSUME NEW a \in Nat, NEW b \in Nat, NEW c \in Nat, NEW d \in Nat, c >= a, d >= b
  PROVE  Larger(c, d) >= Larger(a, b)
BY DEF Larger

(* What worse evidence leaves as it was, and what it can only make worse.  *)
LEMMA Worse ==
  ASSUME NEW r \in Report, NEW w \in WorseEvidence(r)
  PROVE  /\ w \in Report
         /\ Incomplete(r) => Incomplete(w)
         /\ w.experimental => r.experimental
         /\ QrsWorst(w) >= QrsWorst(r)
         /\ w.p99["individual"] = r.p99["individual"]
         /\ w.p99["experimental"] = r.p99["experimental"]
<1>1. CASE \E q \in {"qrs_valid", "qrs_invalid"}, v \in P99 :
             /\ w = [r EXCEPT !.p99[q] = v]
             /\ w.p99["qrs_valid"] >= r.p99["qrs_valid"]
             /\ w.p99["qrs_invalid"] >= r.p99["qrs_invalid"]
  <2>1. PICK q \in {"qrs_valid", "qrs_invalid"}, v \in P99 : w = [r EXCEPT !.p99[q] = v]
    BY <1>1
  <2>2. w \in Report
    BY <2>1 DEF Report, Estimates
  <2>3. /\ w.p99["individual"] = r.p99["individual"]
        /\ w.p99["experimental"] = r.p99["experimental"]
    BY <2>1 DEF Report, Estimates
  <2>4. QrsWorst(w) >= QrsWorst(r)
    <3>1. /\ r.p99["qrs_valid"] \in Nat /\ r.p99["qrs_invalid"] \in Nat
          /\ w.p99["qrs_valid"] \in Nat /\ w.p99["qrs_invalid"] \in Nat
      BY <2>2, P99Positive DEF Estimates
    <3>. QED
      BY <1>1, <3>1, LargerMonotone DEF QrsWorst
  <2>5. (Incomplete(r) => Incomplete(w)) /\ (w.experimental => r.experimental)
    BY <2>1 DEF Report, Incomplete
  <2>. QED
    BY <2>2, <2>3, <2>4, <2>5
<1>2. CASE w \in {[r EXCEPT !.has = @ \ {q}] : q \in Estimates}
            \cup {[r EXCEPT !.slh = FALSE], [r EXCEPT !.invalid = FALSE],
                  [r EXCEPT !.path = FALSE], [r EXCEPT !.metadata = FALSE],
                  [r EXCEPT !.depths = FALSE], [r EXCEPT !.experimental = FALSE],
                  [r EXCEPT !.reviewed = FALSE]}
  <2>1. w \in Report /\ w.p99 = r.p99
    BY <1>2 DEF Report
  <2>2. (Incomplete(r) => Incomplete(w)) /\ (w.experimental => r.experimental)
    BY <1>2 DEF Report, Incomplete
  <2>3. QrsWorst(w) = QrsWorst(r) /\ QrsWorst(r) \in Nat
    BY <2>1, P99Positive DEF QrsWorst
  <2>. QED
    BY <2>1, <2>2, <2>3
<1>. QED
  BY <1>1, <1>2 DEF WorseEvidence

(* Of two reports that both get a decision the worse one, slower or with a *)
(* part missing, never gets the more favourable status.                    *)
THEOREM Monotone == Spec => []WorseNeverFavoured
<1>1. ASSUME NEW r \in Report, NEW w \in WorseEvidence(r), ~NotEvaluable(evaluate(w))
      PROVE  /\ ~NotEvaluable(evaluate(r))
             /\ Severity[evaluate(w).draft_rule_status]
                  >= Severity[evaluate(r).draft_rule_status]
  <2>1. /\ QrsWorst(w) \in Nat /\ QrsWorst(r) \in Nat
        /\ r.p99["individual"] \in Nat /\ r.p99["experimental"] \in Nat
    BY Worse, P99Positive DEF Estimates
  <2>2. ~Incomplete(w) /\ ~Incomplete(r) /\ ~NotEvaluable(evaluate(r))
    BY <1>1, Worse, SeverityOf
  <2>3. QrsWorst(w) <= w.p99["individual"] => QrsWorst(r) <= r.p99["individual"]
    BY <2>1, Worse
  <2>4. BatchSupports(w) => BatchSupports(r)
    BY <2>1, Worse DEF BatchSupports
  <2>5. /\ Severity[evaluate(w).draft_rule_status] =
             IF ~(QrsWorst(w) <= w.p99["individual"]) THEN 3
             ELSE IF BatchSupports(w) THEN 1 ELSE 2
        /\ Severity[evaluate(r).draft_rule_status] =
             IF ~(QrsWorst(r) <= r.p99["individual"]) THEN 3
             ELSE IF BatchSupports(r) THEN 1 ELSE 2
    BY <2>2, Worse, SeverityOf
  <2>. QED
    BY <2>2, <2>3, <2>4, <2>5
<1>2. IInv => WorseNeverFavoured
  BY <1>1 DEF IInv, TypeOK, WorseNeverFavoured
<1>. QED
  BY <1>2, Inductive, PTL

=============================================================================
