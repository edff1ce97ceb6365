------------------------------- MODULE QrsRule -------------------------------
(***************************************************************************)
(* What validation of a P2MR SLH-DSA leaf spend promises, in one step: the *)
(* witness rules of the BIP, then one call of the SLH-DSA verifier.  The   *)
(* rules are stated as the BIP states them (exact lengths, version byte    *)
(* 0xc3, committed root); QrsValidation derives the same decision with the *)
(* early returns and bit tests of the native code and is shown to          *)
(* implement this module.                                                  *)
(***************************************************************************)
EXTENDS QrsSpend

CONSTANT VerifyKey   \* the key the verifier is called with

VARIABLES
  submitted,  \* the spend under validation
  decision,   \* "pending", or what validation returned last
  reached     \* did the last validation reach the SLH-DSA verifier?

ruleVars == <<submitted, decision, reached>>

ControlBlockForm(c) ==
  \E m \in 0..128 : control_size(c) = 1 + 32 * m

WitnessRules(s) ==
  /\ s.signature.len = 7856
  /\ s.public_key.len = 32
  /\ ControlBlockForm(s.control_block)
  /\ s.control_block.first = 195
  /\ s.expected_root =
       modeled_root(modeled_leaf_hash(s.public_key), s.control_block)

Authorized(s) == verify_message(VerifyKey, construct_qrs_msg(s), s.signature)

(* Callers submit what they like: the rule leaves the spend open.          *)
Init ==
  /\ decision = "pending"
  /\ reached = FALSE

Submit ==
  /\ decision # "pending"
  /\ decision' = "pending"
  /\ reached' = FALSE

Decide ==
  /\ decision = "pending"
  /\ reached' <=> WitnessRules(submitted)
  /\ \/ decision' = IF WitnessRules(submitted) /\ Authorized(submitted)
                      THEN "accept" ELSE "reject"
     \/ WitnessRules(submitted) /\ decision' = "error"  \* the verifier threw
  /\ UNCHANGED submitted

Next == Submit \/ Decide

Spec == Init /\ [][Next]_ruleVars

=============================================================================
