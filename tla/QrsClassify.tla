----------------------------- MODULE QrsClassify -----------------------------
(***************************************************************************)
(* The second implementation of the witness rules: classify of             *)
(* scripts/verify_qrs_fixtures.py, which names the stage at which a test   *)
(* vector fails.  It tests in another order than the native code, bounds   *)
(* the control block by its length in bytes, and reconstructs the root     *)
(* with sorted branches.                                                   *)
(***************************************************************************)
EXTENDS QrsValidation, SequencesExt

CONSTANT Stacks   \* the witness_stack label lists of the test vectors

\* TapBranch hashes the sorted pair: the order of the two does not matter.
tap_branch(root, sibling) == {root, sibling}

\* Mutant: the loop stops one sibling early.
merkle_root_short(leaf_hash, path) ==
  LET root[k \in 0..Len(path)] ==
        IF k < 2 THEN {leaf_hash} ELSE tap_branch(root[k - 1], path[k - 1])
  IN  root[Len(path)]

\* The root after each sibling of the path.
roots(leaf_hash, path) ==
  LET root[k \in 0..Len(path)] ==
        IF k = 0 THEN {leaf_hash} ELSE tap_branch(root[k - 1], path[k])
  IN  root

merkle_root(leaf_hash, path) == roots(leaf_hash, path)[Len(path)]

(* The leaves and paths that are hashed: those the spends open and those   *)
(* their outputs commit to.  A sibling is the hash of something else than  *)
(* the leaf or a branch on one of these paths: of two leaves under one     *)
(* branch, one is spent.                                                   *)
Committed ==
  UNION {{modeled_root(modeled_leaf_hash(s.public_key), s.control_block), s.expected_root} :
           s \in Spends}

ASSUME SiblingAssumption ==
  \A c \in Committed : \A k \in 0..(Len(c.path) - 1) : roots(c.leaf, c.path)[k] \notin Chunks

(* The 32-byte program behind the provisional OP_1 PUSH32 of the output;   *)
(* every spend has an output of that form.  A vector file with a script of *)
(* another form or length is refused by then, and given no stage.          *)
script_root(s) == merkle_root(s.expected_root.leaf, s.expected_root.path)

witness_stack_after_annex_removal(stack) ==
  IF stack # <<>> /\ Last(stack) = "annex" THEN Front(stack) ELSE stack

FirstFailure(s) ==
  LET c   == s.control_block
      len == control_size(c)
  IN  IF      s.signature.len # 7856  THEN "signature_length"
      ELSE IF s.public_key.len # 32   THEN "public_key_length"
      ELSE IF len < 1 \/ (len - 1) % 32 # 0 \/ len > 4097
                                      THEN "control_block_length"
      ELSE IF c.first % 2 = 0         THEN "control_low_bit"
      ELSE IF c.first - (c.first % 2) # 194
                                      THEN "leaf_version"
      ELSE IF merkle_root(s.public_key, c.path) # script_root(s)
                                      THEN "merkle_root_mismatch"
      ELSE "no_failure"

classify(stack, s, expected_result) ==
  IF witness_stack_after_annex_removal(stack)
       # <<"qrs_signature", "qrs_public_key", "control_block">>
    THEN "malformed_witness"
  ELSE IF FirstFailure(s) # "no_failure" THEN FirstFailure(s)
  ELSE IF expected_result THEN "none" ELSE "slh_dsa_verify"

CryptoStages == {"none", "slh_dsa_verify"}

-----------------------------------------------------------------------------
(* The stage a vector is given names a check that the native code, too,    *)
(* finds broken.                                                           *)
NativeCheckOf ==
  [signature_length |-> {"signature_length"}, public_key_length |-> {"public_key_length"},
   control_block_length |-> {"control_empty", "control_length"},
   control_low_bit |-> {"low_bit"}, leaf_version |-> {"leaf_version"},
   merkle_root_mismatch |-> {"root"}]

StageNamesABrokenCheck ==
  LET stage == FirstFailure(spend)
  IN  stage # "no_failure" =>
        \E check \in NativeCheckOf[stage] : ~Passes(check, spend)

(* A vector whose expected_result is what the native path returned is      *)
(* staged as the native path treats it: it is verifier-reaching exactly    *)
(* when the witness has its three elements and the native checks let the   *)
(* spend through, it is "none" exactly when that spend is accepted, and    *)
(* any other stage names a check that fails there, too.                    *)
StagesAgree ==
  /\ StageNamesABrokenCheck
  /\ pc = "done" /\ verdict # "error" =>
       \A stack \in Stacks :
         LET stage  == classify(stack, spend, verdict = "accept")
             shaped == classify(stack, spend, TRUE) # "malformed_witness"
         IN  /\ stage \in CryptoStages <=> shaped /\ msg # NoMessage
             /\ stage = "none" <=> shaped /\ verdict = "accept"

=============================================================================
