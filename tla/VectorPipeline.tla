--------------------------- MODULE VectorPipeline ---------------------------
(***************************************************************************)
(* The directory of test vectors and the three scripts that rewrite and    *)
(* check it file by file: verify_qrs_vectors.py, verify_qrs_fixtures.py    *)
(* and compute_qrs_digest_model.py.  Between runs a maintainer edits a     *)
(* file; a run may die at any point, also in the middle of a write.        *)
(*                                                                         *)
(* A hash is what it commits to.  A signature is its key, its message and  *)
(* whether its middle byte is flipped.                                     *)
(***************************************************************************)
EXTENDS Integers

CONSTANTS
  NumVectors,   \* how many files there are, in the order of their names
  Keys,         \* the keys key generation can return
  Placeholder,  \* a key or signature given by a descriptor, not as hex
  Txs,          \* the transactions without their first output's script, with annex
  Payment,      \* a script that carries no root
  Absent,       \* no such output, no explicit spent outputs
  Control,      \* the control block of each file
  Defects,      \* the structural failures that are found before the root is compared
  Drafts,       \* what a maintainer writes by hand into each file
  Cut,          \* a file whose write was cut short
  MaxEdits      \* bound on the number of edits

Paths == 1..NumVectors

CRYPTO_STAGES == {"none", "slh_dsa_verify"}
Stages == CRYPTO_STAGES \cup {"merkle_root_mismatch"} \cup Defects

Pubkeys == Keys \cup {Placeholder}

modeled_leaf_hash(pubkey) == <<"TapLeaf", pubkey>>
merkle_root(leaf, control) == <<leaf, control>>

Leaves  == {modeled_leaf_hash(k) : k \in Pubkeys}
Scripts == {merkle_root(l, Control[v]) : l \in Leaves, v \in Paths} \cup {Payment, Absent}

Messages   == [tx : Txs, output : Scripts, spent : Scripts, leaf : Leaves]
Signatures == [key : Pubkeys, msg : Messages, flipped : BOOLEAN]

Vector ==
  [tx : Txs, output : Scripts, spent_outputs : Scripts, spent_script : Scripts,
   defect : Defects \cup {"none"},
   qrs_public_key : Pubkeys, qrs_signature : Signatures,
   expected_leaf_hash : Leaves, expected_qrs_msg : Messages,
   failure_stage : Stages, expected_result : BOOLEAN, reaches : BOOLEAN]

ASSUME SizeAssumption == NumVectors \in Nat /\ MaxEdits \in Nat
ASSUME StageAssumption == (CRYPTO_STAGES \cup {"merkle_root_mismatch"}) \cap Defects = {}
ASSUME NameAssumption ==
  /\ Placeholder \notin Keys
  /\ Payment # Absent
  /\ \A l \in Leaves, v \in Paths : merkle_root(l, Control[v]) \notin {Payment, Absent}
ASSUME CutAssumption == Cut \notin Vector
(* Only the scripts sign: what is written by hand carries no signature.    *)
ASSUME DraftAssumption ==
  /\ Drafts \in [Paths -> SUBSET Vector]
  /\ \A v \in Paths : \A f \in Drafts[v] : f.qrs_signature.key = Placeholder

VARIABLES
  files,   \* the directory
  pc,      \* what the running script is about to do, "idle" between runs
  tool,    \* the script that runs or ran last
  update,  \* it was told to rewrite the files
  key,     \* the key it generated
  crypto,  \* it found the native backend
  i,       \* the file it is at
  exit,    \* its exit code, -1 before it ends and once a file is edited
  edits    \* how often a file was edited, up to MaxEdits

vars == <<files, pc, tool, update, key, crypto, i, exit, edits>>

-----------------------------------------------------------------------------
\* Explicit spent outputs take precedence over the script beside them.
spent_outputs(f) == IF f.spent_outputs = Absent THEN f.spent_script ELSE f.spent_outputs

qrs_msg(f) ==
  [tx |-> f.tx, output |-> f.output, spent |-> spent_outputs(f),
   leaf |-> modeled_leaf_hash(f.qrs_public_key)]

root_of(v, f) == merkle_root(modeled_leaf_hash(f.qrs_public_key), Control[v])

\* A script that carries no root raises, which fails like a wrong stage does.
classify(v, f) ==
  IF f.defect # "none" THEN f.defect
  ELSE IF f.spent_script \in {Payment, Absent} THEN "raises"
  ELSE IF root_of(v, f) # f.spent_script THEN "merkle_root_mismatch"
  ELSE IF f.expected_result THEN "none" ELSE "slh_dsa_verify"

digest_matches(f) ==
  /\ f.expected_leaf_hash = modeled_leaf_hash(f.qrs_public_key)
  /\ f.expected_qrs_msg = qrs_msg(f)

verify_model(v, f) ==
  /\ digest_matches(f)
  /\ classify(v, f) = f.failure_stage
  /\ f.reaches <=> f.failure_stage \in CRYPTO_STAGES

verify_one(v, f) ==
  verify_model(v, f) /\ (f.expected_result <=> f.failure_stage = "none")

native_verify(pubkey, msg, sig) == sig.key = pubkey /\ sig.msg = msg /\ ~sig.flipped

\* Mutant: only the valid vectors are checked.
verify_valid_only(f) ==
  /\ Placeholder \notin {f.qrs_public_key, f.qrs_signature.key}
  /\ f.failure_stage = "none" =>
       native_verify(f.qrs_public_key, f.expected_qrs_msg, f.qrs_signature)

verify_crypto_vector(f) ==
  /\ Placeholder \notin {f.qrs_public_key, f.qrs_signature.key}
  /\ native_verify(f.qrs_public_key, f.expected_qrs_msg, f.qrs_signature)
       <=> f.failure_stage = "none"

-----------------------------------------------------------------------------
update_spend_root(f, root) ==
  [f EXCEPT !.spent_script = root, !.output = IF @ = Absent THEN @ ELSE root]

with_digest(f) ==
  [f EXCEPT !.expected_leaf_hash = modeled_leaf_hash(f.qrs_public_key),
            !.expected_qrs_msg = qrs_msg(f)]

mutate_signature(sig) == [sig EXCEPT !.flipped = ~@]

native_sign(k, msg) == [key |-> k, msg |-> msg, flipped |-> FALSE]

\* Mutant: the message is computed before the root is put in place.
signed_early(v, f, k) ==
  LET keyed  == [f EXCEPT !.qrs_public_key = k]
      sig    == native_sign(k, qrs_msg(keyed))
      rooted == update_spend_root(keyed, root_of(v, keyed))
  IN  with_digest([rooted EXCEPT
        !.qrs_signature = IF f.failure_stage = "none" THEN sig ELSE mutate_signature(sig)])

\* What update_real_signatures makes of a vector that reaches the verifier.
signed(v, f, k) ==
  LET keyed  == [f EXCEPT !.qrs_public_key = k]
      rooted == update_spend_root(keyed, root_of(v, keyed))
      sig    == native_sign(k, qrs_msg(rooted))
  IN  with_digest([rooted EXCEPT
        !.qrs_signature = IF f.failure_stage = "none" THEN sig ELSE mutate_signature(sig)])

update_real_signature(v, f, k) ==
  IF f.failure_stage \in CRYPTO_STAGES THEN signed(v, f, k) ELSE with_digest(f)

\* Mutant: the root is recomputed for every vector.
fixture_update_all(v, f) == with_digest(update_spend_root(f, root_of(v, f)))

fixture_update(v, f) ==
  IF f.failure_stage \in CRYPTO_STAGES
    THEN with_digest(update_spend_root(f, root_of(v, f)))
    ELSE with_digest(f)

-----------------------------------------------------------------------------
Init ==
  /\ files \in [Paths -> UNION {Drafts[v] : v \in Paths}]
  /\ \A v \in Paths : files[v] \in Drafts[v]
  /\ pc = "idle"
  /\ tool = "vectors"
  /\ update = FALSE
  /\ key = Placeholder
  /\ crypto = FALSE
  /\ i = 1
  /\ exit = -1
  /\ edits = 0

Starts(to)  == pc' = to /\ exit' = -1 /\ UNCHANGED <<i, key>>
Goes(to, n) == pc' = to /\ i' = n /\ UNCHANGED <<exit, key>>
\* The locals of the script end with it.
Exits(code) == pc' = "idle" /\ exit' = code /\ i' = 1 /\ key' = Placeholder

Readable == \A v \in Paths : files[v] # Cut

\* A draft, or a change to a readable file: its labels, its transaction, its output.
Edits(v) ==
  Drafts[v] \cup
    (IF files[v] = Cut THEN {}
     ELSE {[files[v] EXCEPT !.tx = t] : t \in Txs} \cup
          {[files[v] EXCEPT !.output = o] : o \in {Payment, Absent}} \cup
          {[files[v] EXCEPT !.failure_stage = s, !.expected_result = (s = "none"),
                            !.reaches = (s \in CRYPTO_STAGES)] : s \in Stages})

EditVector ==
  /\ pc = "idle"
  /\ edits < MaxEdits
  /\ \E v \in Paths : \E f \in Edits(v) : files' = [files EXCEPT ![v] = f]
  /\ exit' = -1
  /\ edits' = edits + 1
  /\ UNCHANGED <<pc, tool, update, key, crypto, i>>

-----------------------------------------------------------------------------
(* verify_qrs_vectors.py: all files are read first; without the native     *)
(* backend nothing can be signed.                                          *)
StartVectors ==
  /\ pc = "idle"
  /\ tool' = "vectors"
  /\ \E rewrite, available \in BOOLEAN :
       /\ update' = rewrite
       /\ IF ~Readable \/ (rewrite /\ ~available) THEN Exits(1)
          ELSE Starts(IF rewrite THEN "keygen" ELSE "probe")
  /\ UNCHANGED <<files, crypto, edits>>

\* Keys that occur in the directory; a generated key is a new one.
Used ==
  UNION {{files[v].qrs_public_key, files[v].qrs_signature.key} :
           v \in {w \in Paths : files[w] # Cut}}

Keygen ==
  /\ pc = "keygen" /\ pc' = "sign"
  /\ key' \in Keys \ Used
  /\ UNCHANGED <<files, tool, update, crypto, i, exit, edits>>

\* Mutant: a key is generated for each vector.
SignVectorFreshly ==
  /\ pc = "sign" /\ i <= NumVectors
  /\ \E k \in Keys \ Used : files' = [files EXCEPT ![i] = update_real_signature(i, @, k)]
  /\ Goes("sign", i + 1)
  /\ UNCHANGED <<tool, update, crypto, edits>>

SignVector ==
  /\ pc = "sign" /\ i <= NumVectors
  /\ files' = [files EXCEPT ![i] = update_real_signature(i, @, key)]
  /\ Goes("sign", i + 1)
  /\ UNCHANGED <<tool, update, crypto, edits>>

\* Key generation, signing or a verification fails in the native program.
NativeFails ==
  /\ \/ pc = "keygen"
     \/ pc = "sign" /\ i <= NumVectors /\ files[i].failure_stage \in CRYPTO_STAGES
     \/ pc = "verify" /\ crypto /\ i <= NumVectors
          /\ verify_model(i, files[i]) /\ files[i].failure_stage \in CRYPTO_STAGES
     \/ pc = "verify" /\ crypto /\ i > NumVectors
          /\ \E v \in Paths : files[v].failure_stage = "none"
  /\ Exits(1)
  /\ UNCHANGED <<files, tool, update, crypto, edits>>

SignReturns ==
  /\ pc = "sign" /\ i > NumVectors
  /\ Goes("probe", 1)
  /\ UNCHANGED <<files, tool, update, crypto, edits>>

\* The backend is probed (again); --require-crypto refuses its absence.
Probe ==
  /\ pc = "probe"
  /\ \E available, require \in BOOLEAN :
       /\ crypto' = available
       /\ IF require /\ ~available THEN Exits(1) ELSE Goes("verify", 1)
  /\ UNCHANGED <<files, tool, update, edits>>

verify_vector(v, f) ==
  /\ verify_model(v, f)
  /\ crypto /\ f.failure_stage \in CRYPTO_STAGES => verify_crypto_vector(f)

VerifyVector ==
  /\ pc = "verify" /\ i <= NumVectors
  /\ verify_vector(i, files[i])
  /\ Goes("verify", i + 1)
  /\ UNCHANGED <<files, tool, update, crypto, edits>>

\* Mutant: when a vector fails, all are checked again.
VerifyRetries ==
  /\ pc = "verify" /\ i <= NumVectors
  /\ ~verify_vector(i, files[i])
  /\ Goes("probe", 1)
  /\ UNCHANGED <<files, tool, update, crypto, edits>>

VerifyFails ==
  /\ pc = "verify" /\ i <= NumVectors
  /\ ~verify_vector(i, files[i])
  /\ Exits(1)
  /\ UNCHANGED <<files, tool, update, crypto, edits>>

(* The self-test needs a valid vector; what it corrupts are copies, and    *)
(* neither a wrong message nor a flipped signature is ever accepted.       *)
SelfTest ==
  /\ pc = "verify" /\ i > NumVectors
  /\ Exits(IF \E v \in Paths : files[v].failure_stage = "none" THEN 0 ELSE 1)
  /\ UNCHANGED <<files, tool, update, crypto, edits>>

-----------------------------------------------------------------------------
(* verify_qrs_fixtures.py reads, rewrites and checks one file after the    *)
(* other.                                                                  *)
StartFixtures ==
  /\ pc = "idle"
  /\ tool' = "fixtures"
  /\ update' \in BOOLEAN
  /\ Starts("fixtures")
  /\ UNCHANGED <<files, crypto, edits>>

VerifyFixture ==
  /\ pc = "fixtures" /\ i <= NumVectors
  /\ LET f == IF update /\ files[i] # Cut THEN fixture_update(i, files[i]) ELSE files[i]
     IN  /\ files' = [files EXCEPT ![i] = f]
         /\ IF f # Cut /\ verify_one(i, f) THEN Goes("fixtures", i + 1) ELSE Exits(1)
  /\ UNCHANGED <<tool, update, crypto, edits>>

\* The leaf hash of a verifier-reaching vector is looked at once more.
TapLeafSelfTest ==
  /\ pc = "fixtures" /\ i > NumVectors
  /\ Exits(IF \E v \in Paths : files[v].failure_stage \in CRYPTO_STAGES THEN 0 ELSE 1)
  /\ UNCHANGED <<files, tool, update, crypto, edits>>

(* compute_qrs_digest_model.py reads all files first; its mutation tests   *)
(* work on copies of three files chosen by name, and fail if one is not    *)
(* there or has explicit spent outputs where it should not.                *)
StartDigest ==
  /\ pc = "idle"
  /\ tool' = "digest"
  /\ update' \in BOOLEAN
  /\ IF Readable THEN Starts("digest") ELSE Exits(1)
  /\ UNCHANGED <<files, crypto, edits>>

\* Mutant: the computed message is written in place of the vector.
ComputeDigestBare ==
  /\ pc = "digest" /\ i <= NumVectors
  /\ files' = IF update THEN [files EXCEPT ![i] = qrs_msg(@)] ELSE files
  /\ IF update \/ digest_matches(files[i]) THEN Goes("digest", i + 1) ELSE Exits(1)
  /\ UNCHANGED <<tool, update, crypto, edits>>

ComputeDigest ==
  /\ pc = "digest" /\ i <= NumVectors
  /\ files' = IF update THEN [files EXCEPT ![i] = with_digest(@)] ELSE files
  /\ IF update \/ digest_matches(files[i]) THEN Goes("digest", i + 1) ELSE Exits(1)
  /\ UNCHANGED <<tool, update, crypto, edits>>

DigestReturns ==
  /\ pc = "digest" /\ i > NumVectors
  /\ \E code \in {0, 1} : Exits(code)
  /\ UNCHANGED <<files, tool, update, crypto, edits>>

-----------------------------------------------------------------------------
Writing == update /\ pc \in {"sign", "fixtures", "digest"} /\ i <= NumVectors

(* The script is killed, perhaps after write_text has emptied the file and *)
(* before it has written it.                                               *)
Killed ==
  /\ pc # "idle"
  /\ files' \in {files} \cup (IF Writing THEN {[files EXCEPT ![i] = Cut]} ELSE {})
  /\ Exits(1)
  /\ UNCHANGED <<tool, update, crypto, edits>>

Next ==
  \/ EditVector
  \/ StartVectors \/ Keygen \/ SignVector \/ NativeFails \/ SignReturns
  \/ Probe \/ VerifyVector \/ VerifyFails \/ SelfTest
  \/ StartFixtures \/ VerifyFixture \/ TapLeafSelfTest
  \/ StartDigest \/ ComputeDigest \/ DigestReturns
  \/ Killed

(* A script that runs goes on: it waits for nothing but the native program,*)
(* which ends.                                                             *)
Fairness ==
  WF_vars(\/ Keygen \/ SignVector \/ SignReturns \/ Probe \/ VerifyVector \/ VerifyFails
          \/ SelfTest \/ VerifyFixture \/ TapLeafSelfTest \/ ComputeDigest \/ DigestReturns)

Spec == Init /\ [][Next]_vars /\ Fairness

-----------------------------------------------------------------------------
(* Every file holds a vector or was cut short.                             *)
TypeOK ==
  /\ files \in [Paths -> Vector \cup {Cut}]
  /\ pc \in {"idle", "keygen", "sign", "probe", "verify", "fixtures", "digest"}
  /\ tool \in {"vectors", "fixtures", "digest"}
  /\ update \in BOOLEAN /\ crypto \in BOOLEAN
  /\ key \in Pubkeys
  /\ i \in 1..(NumVectors + 1)
  /\ exit \in {-1, 0, 1}
  /\ edits \in 0..MaxEdits

\* The signature of the vector's own key over the vector's own message.
Authorized(f) ==
  f.qrs_signature = [key |-> f.qrs_public_key, msg |-> qrs_msg(f), flipped |-> FALSE]

\* What a vector is supposed to show, it shows.
Shows(v, f) ==
  /\ verify_model(v, f)
  /\ f.failure_stage \in CRYPTO_STAGES =>
       /\ Placeholder \notin {f.qrs_public_key, f.qrs_signature.key}
       /\ Authorized(f) <=> f.failure_stage = "none"

\* The labels are those of a vector with this structure.
Labelled(v, f) ==
  /\ f.reaches <=> f.failure_stage \in CRYPTO_STAGES
  /\ f.expected_result <=> f.failure_stage = "none"
  /\ IF f.failure_stage \in CRYPTO_STAGES THEN f.defect = "none"
     ELSE classify(v, f) = f.failure_stage

(* What --update-real-signatures has rewritten shows what its labels say,  *)
(* whatever was in the file, while the run is still under way and when it  *)
(* then checks its own work: the root is put in place before the message   *)
(* is hashed, and the message before it is signed.                         *)
SignedVectorsShow ==
  (tool = "vectors" /\ update /\ pc \in {"sign", "probe", "verify"}) =>
    \A v \in Paths :
      (pc = "sign" => v < i) /\ Labelled(v, files[v]) => Shows(v, files[v])

(* A run, even one that dies or fails, never spoils a vector: it shows     *)
(* what it showed before or is visibly cut short.  That takes a signature  *)
(* that is invalid for its flipped byte; one that is merely stale may      *)
(* become valid again as a script puts its message back.                   *)
NeverSpoils ==
  [][pc # "idle" =>
       \A v \in Paths :
         /\ files[v] # Cut /\ Shows(v, files[v])
         /\ files[v].failure_stage = "slh_dsa_verify" => files[v].qrs_signature.flipped
         => files'[v] = Cut \/ Shows(v, files'[v])]_vars

(* A script that has exited with 0 has checked what now lies in the        *)
(* directory, no file of which is cut short: the digests, the stages, and  *)
(* with the native backend the signatures.                                 *)
ExitZeroHolds ==
  exit = 0 =>
    \A v \in Paths :
      /\ files[v] # Cut
      /\ digest_matches(files[v])
      /\ tool # "digest" => verify_model(v, files[v])
      /\ tool = "vectors" /\ crypto => Shows(v, files[v])

(* After a completed update one key signs everything that reaches the      *)
(* verifier, even if an earlier update died half way with another key.     *)
OneKey ==
  tool = "vectors" /\ update /\ exit = 0 =>
    \A v, w \in Paths :
      {files[v].failure_stage, files[w].failure_stage} \subseteq CRYPTO_STAGES =>
        files[v].qrs_public_key = files[w].qrs_public_key

(* Every run ends.                                                         *)
RunsEnd == pc # "idle" ~> pc = "idle"

=============================================================================
