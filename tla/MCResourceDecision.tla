------------------------- MODULE MCResourceDecision -------------------------
(***************************************************************************)
(* Complete reports over all orders of five estimates, with ratios on both *)
(* sides of 2.5 and 3, and reports that lack statuses, metadata, numbers   *)
(* or depth rows, in all combinations.                                     *)
(***************************************************************************)
EXTENDS ResourceDecision

MCP99 == {1, 2, 3, 5, 6}

LOCAL P99s == [Estimates -> MCP99]

LOCAL Draft(p99) ==
  [slh |-> TRUE, invalid |-> TRUE, path |-> TRUE, individual |-> TRUE,
   experimental |-> TRUE, reviewed |-> FALSE, metadata |-> TRUE, depths |-> TRUE,
   has |-> Estimates \ {"reviewed"}, p99 |-> p99]

LOCAL Fixed(v, i, e) ==
  [qrs_valid |-> v, qrs_invalid |-> v, individual |-> i, experimental |-> e, reviewed |-> 1]

MCReports ==
       {Draft(p) : p \in {q \in P99s : q["reviewed"] = 1}}
  \cup {[Draft(p) EXCEPT !.experimental = FALSE] :
          p \in {q \in P99s : q["reviewed"] = 1 /\ q["experimental"] = 1}}
  \cup {[Draft(p) EXCEPT !.reviewed = TRUE, !.has = Estimates] :
          p \in {q \in P99s : q["qrs_valid"] = 2 /\ q["qrs_invalid"] = 3}}
  \cup {[Draft(Fixed(1, 3, 2)) EXCEPT
            !.experimental = e, !.reviewed = v, !.has = h, !.depths = d] :
          e, v, d \in BOOLEAN, h \in SUBSET Estimates}
  \cup {[slh |-> s, invalid |-> i, path |-> v, individual |-> b, experimental |-> e,
         reviewed |-> FALSE, metadata |-> m, depths |-> s, has |-> h, p99 |-> Fixed(1, 3, 2)] :
          s, i, v, b, e, m \in BOOLEAN, h \in {Estimates, {"individual"}}}

(* Two of the reports, evaluated before each run: estimates equal to the   *)
(* experimental one support the rule, and missing data asks for no budget  *)
(* where --allow-unavailable-qrs is given.                                 *)
ASSUME EqualSupports ==
  \E r \in MCReports :
    Evaluates(r, FALSE) /\ Supports(evaluate(r)) /\ QrsWorst(r) = r.p99["experimental"]

ASSUME AllowedIsNotBudgeted ==
  \E r \in MCReports :
    /\ Incomplete(r) /\ Evaluates(r, TRUE)
    /\ evaluate(r).draft_rule_status # "explicit_budget_required_before_activation"

=============================================================================
