-------------------------- MODULE MCVectorPipeline --------------------------
(***************************************************************************)
(* Two files.  The first is a valid vector with its spent script beside    *)
(* it; the second begins as a payment with explicit spent outputs, as one  *)
(* without outputs, with a structural defect, or with a foreign root.      *)
(***************************************************************************)
EXTENDS VectorPipeline

CONSTANTS k1, k2, k3

MCControl == [v \in Paths |-> v]

LOCAL Stale ==
  [tx |-> "a", output |-> Payment, spent |-> Absent, leaf |-> modeled_leaf_hash(Placeholder)]

LOCAL Draft(output, explicit, defect, stage) ==
  [tx |-> "a", output |-> output, spent_outputs |-> explicit, spent_script |-> Payment,
   defect |-> defect, qrs_public_key |-> Placeholder,
   qrs_signature |-> [key |-> Placeholder, msg |-> Stale, flipped |-> FALSE],
   expected_leaf_hash |-> modeled_leaf_hash(k3), expected_qrs_msg |-> Stale,
   failure_stage |-> stage, expected_result |-> stage = "none",
   reaches |-> stage \in CRYPTO_STAGES]

MCDrafts ==
  [v \in Paths |->
     IF v = 1 THEN {Draft(Payment, Absent, "none", "none")}
     ELSE {Draft(Payment, Payment, "none", "slh_dsa_verify"),
           Draft(Absent, Absent, "none", "none"),
           Draft(Payment, Absent, "leaf_version", "leaf_version"),
           [Draft(Payment, Absent, "none", "merkle_root_mismatch") EXCEPT
              !.spent_script = merkle_root(modeled_leaf_hash(k3), 1)],
           [Draft(Payment, Absent, "leaf_version", "leaf_version") EXCEPT
              !.expected_result = TRUE]}]

=============================================================================
