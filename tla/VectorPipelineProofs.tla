------------------------ MODULE VectorPipelineProofs ------------------------
(***************************************************************************)
(* Theorems of VectorPipeline for any number of files, keys, transactions, *)
(* structural defects and edits.                                           *)
(***************************************************************************)
EXTENDS VectorPipeline, TLAPS

-----------------------------------------------------------------------------
(* What the rewriting of one vector does.                                  *)

(* What a vector commits to is a message and a leaf.                       *)
LEMMA MessageTypes ==
  ASSUME NEW f \in Vector
  PROVE  qrs_msg(f) \in Messages /\ modeled_leaf_hash(f.qrs_public_key) \in Leaves
<1>1. spent_outputs(f) \in Scripts
  BY DEF spent_outputs, Vector
<1> QED
  BY <1>1 DEF qrs_msg, Messages, Vector, Leaves

(* What the digest update changes, and what it leaves alone.               *)
LEMMA DigestFields ==
  ASSUME NEW f \in Vector
  PROVE  LET g == with_digest(f)
         IN  /\ g \in Vector
             /\ digest_matches(g)
             /\ qrs_msg(g) = qrs_msg(f)
             /\ g.qrs_public_key = f.qrs_public_key
             /\ g.qrs_signature = f.qrs_signature
             /\ g.spent_script = f.spent_script /\ g.defect = f.defect
             /\ g.failure_stage = f.failure_stage
             /\ g.expected_result = f.expected_result /\ g.reaches = f.reaches
BY MessageTypes DEF with_digest, digest_matches, qrs_msg, spent_outputs, Vector

(* A vector whose digests match is not changed.                            *)
LEMMA DigestIdempotent ==
  ASSUME NEW f \in Vector, digest_matches(f)
  PROVE  with_digest(f) = f
BY DEF with_digest, digest_matches, Vector

(* What the fixture update changes, and what it leaves alone.              *)
LEMMA RootedFields ==
  ASSUME NEW v \in Paths, NEW f \in Vector
  PROVE  LET g == update_spend_root(f, root_of(v, f))
         IN  /\ g \in Vector
             /\ root_of(v, g) = root_of(v, f)
             /\ g.spent_script = root_of(v, f)
             /\ g.output \in {Absent, root_of(v, f)}
             /\ g.qrs_public_key = f.qrs_public_key
             /\ g.qrs_signature = f.qrs_signature
             /\ g.defect = f.defect /\ g.failure_stage = f.failure_stage
             /\ g.expected_result = f.expected_result /\ g.reaches = f.reaches
<1>1. root_of(v, f) \in Scripts
  BY DEF root_of, Scripts, Leaves, Vector
<1> QED
  BY <1>1 DEF update_spend_root, root_of, Vector

(* A root that is already in place, in the output too, is not changed.     *)
LEMMA RootIdempotent ==
  ASSUME NEW v \in Paths, NEW f \in Vector,
         f.spent_script = root_of(v, f), f.output \in {Absent, root_of(v, f)}
  PROVE  update_spend_root(f, root_of(v, f)) = f
BY DEF update_spend_root, Vector

\* Whether signing leaves the signature flipped.
Flip(f) == IF f.failure_stage = "none" THEN FALSE ELSE TRUE

(* The signature of a signed vector is made for the message it then has.   *)
LEMMA SignedFields ==
  ASSUME NEW v \in Paths, NEW f \in Vector, NEW k \in Pubkeys
  PROVE  LET g == signed(v, f, k)
         IN  /\ g \in Vector
             /\ digest_matches(g)
             /\ g.qrs_public_key = k
             /\ g.qrs_signature =
                  [key |-> k, msg |-> qrs_msg(g), flipped |-> Flip(f)]
             /\ g.spent_script = root_of(v, g)
             /\ g.output \in {Absent, root_of(v, g)}
             /\ g.defect = f.defect /\ g.failure_stage = f.failure_stage
             /\ g.expected_result = f.expected_result /\ g.reaches = f.reaches
<1> DEFINE keyed  == [f EXCEPT !.qrs_public_key = k]
           rooted == update_spend_root(keyed, root_of(v, keyed))
           sig    == native_sign(k, qrs_msg(rooted))
           made   == IF f.failure_stage = "none" THEN sig ELSE mutate_signature(sig)
           h      == [rooted EXCEPT !.qrs_signature = made]
<1>1. /\ keyed \in Vector
      /\ keyed.qrs_public_key = k
      /\ keyed.defect = f.defect /\ keyed.failure_stage = f.failure_stage
      /\ keyed.expected_result = f.expected_result /\ keyed.reaches = f.reaches
  BY DEF Vector
<1> HIDE DEF keyed
<1>2. /\ rooted \in Vector
      /\ rooted.qrs_public_key = k
      /\ root_of(v, rooted) = root_of(v, keyed)
      /\ rooted.spent_script = root_of(v, rooted)
      /\ rooted.output \in {Absent, root_of(v, rooted)}
      /\ rooted.defect = f.defect /\ rooted.failure_stage = f.failure_stage
      /\ rooted.expected_result = f.expected_result /\ rooted.reaches = f.reaches
  BY <1>1, RootedFields
<1> HIDE DEF rooted
<1>3. /\ made \in Signatures
      /\ made = [key |-> k, msg |-> qrs_msg(rooted), flipped |-> Flip(f)]
  <2>1. qrs_msg(rooted) \in Messages
    BY <1>2, MessageTypes
  <2>2. CASE f.failure_stage = "none"
    BY <2>1, <2>2 DEF native_sign, Signatures, Flip
  <2>3. CASE f.failure_stage # "none"
    BY <2>1, <2>3 DEF native_sign, mutate_signature, Signatures, Flip
  <2> QED
    BY <2>2, <2>3
<1> HIDE DEF made
<1>4. /\ h \in Vector
      /\ qrs_msg(h) = qrs_msg(rooted)
      /\ h.qrs_signature = made
      /\ h.qrs_public_key = k
      /\ h.spent_script = rooted.spent_script /\ h.output = rooted.output
      /\ h.defect = f.defect /\ h.failure_stage = f.failure_stage
      /\ h.expected_result = f.expected_result /\ h.reaches = f.reaches
  BY <1>2, <1>3 DEF Vector, qrs_msg, spent_outputs
<1>5. signed(v, f, k) = with_digest(h)
  BY DEF signed, keyed, rooted, made
<1> HIDE DEF h
<1>6. with_digest(h).output = h.output
  BY <1>4 DEF with_digest, Vector
<1> QED
  BY <1>2, <1>3, <1>4, <1>5, <1>6, DigestFields DEF root_of

(* A signed vector shows what its labels say, if these fit.                *)
LEMMA SignedShows ==
  ASSUME NEW v \in Paths, NEW f \in Vector, NEW k \in Keys,
         f.failure_stage \in CRYPTO_STAGES, Labelled(v, f)
  PROVE  Shows(v, signed(v, f, k))
<1> DEFINE g == signed(v, f, k)
<1>1. k \in Pubkeys /\ k # Placeholder
  BY NameAssumption DEF Pubkeys
<1>2. /\ g \in Vector
      /\ digest_matches(g)
      /\ g.qrs_public_key = k
      /\ g.qrs_signature =
           [key |-> k, msg |-> qrs_msg(g), flipped |-> Flip(f)]
      /\ g.spent_script = root_of(v, g)
      /\ g.defect = f.defect /\ g.failure_stage = f.failure_stage
      /\ g.expected_result = f.expected_result /\ g.reaches = f.reaches
  BY <1>1, SignedFields
<1> HIDE DEF g
<1>3. root_of(v, g) \notin {Payment, Absent}
  BY <1>2, NameAssumption DEF root_of, Leaves, Vector
<1>4. classify(v, g) = g.failure_stage
  BY <1>2, <1>3 DEF classify, Labelled, CRYPTO_STAGES, Vector
<1>5. verify_model(v, g)
  BY <1>2, <1>4 DEF verify_model, Labelled
<1>6. Placeholder \notin {g.qrs_public_key, g.qrs_signature.key}
  BY <1>1, <1>2
<1>7. Authorized(g) <=> g.failure_stage = "none"
  <2>1. CASE f.failure_stage = "none"
    BY <1>2, <2>1 DEF Authorized, Flip
  <2>2. CASE f.failure_stage # "none"
    <3>1. g.qrs_signature.flipped = TRUE
      BY <1>2, <2>2 DEF Flip
    <3>2. Authorized(g) => g.qrs_signature.flipped = FALSE
      BY DEF Authorized
    <3> QED
      BY <1>2, <2>2, <3>1, <3>2
  <2> QED
    BY <2>1, <2>2
<1> QED
  BY <1>5, <1>6, <1>7 DEF Shows, g

(* So does a structural vector whose digests are recomputed.               *)
LEMMA DigestShows ==
  ASSUME NEW v \in Paths, NEW f \in Vector,
         f.failure_stage \notin CRYPTO_STAGES, Labelled(v, f)
  PROVE  Shows(v, with_digest(f))
<1>1. classify(v, with_digest(f)) = classify(v, f)
  BY DigestFields DEF classify, root_of
<1> QED
  BY <1>1, DigestFields DEF Shows, verify_model, Labelled

(* Rewriting never changes the labels, and never makes them fit.           *)
LEMMA RewrittenLabels ==
  ASSUME NEW v \in Paths, NEW f \in Vector, NEW k \in Keys,
         Labelled(v, update_real_signature(v, f, k))
  PROVE  Shows(v, update_real_signature(v, f, k))
<1> k \in Pubkeys
  BY DEF Pubkeys
<1>1. CASE f.failure_stage \in CRYPTO_STAGES
  <2> DEFINE g == signed(v, f, k)
  <2>1. /\ g.defect = f.defect /\ g.failure_stage = f.failure_stage
        /\ g.expected_result = f.expected_result /\ g.reaches = f.reaches
    BY SignedFields
  <2>2. update_real_signature(v, f, k) = g
    BY <1>1 DEF update_real_signature
  <2> HIDE DEF g
  <2>3. Labelled(v, f)
    BY <1>1, <2>1, <2>2 DEF Labelled
  <2> QED
    BY <1>1, <2>3, SignedShows DEF update_real_signature
<1>2. CASE f.failure_stage \notin CRYPTO_STAGES
  <2>1. classify(v, with_digest(f)) = classify(v, f)
    BY DigestFields DEF classify, root_of
  <2>2. Labelled(v, f)
    BY <1>2, <2>1, DigestFields DEF update_real_signature, Labelled
  <2> QED
    BY <1>2, <2>2, DigestShows DEF update_real_signature
<1> QED
  BY <1>1, <1>2

(* The labels of a vector that shows what it should fit.                   *)
LEMMA ShowsLabelled ==
  ASSUME NEW v \in Paths, NEW f \in Vector, Shows(v, f),
         f.failure_stage \in CRYPTO_STAGES
  PROVE  /\ Labelled(v, f)
         /\ f.spent_script = root_of(v, f)
<1>1. f.failure_stage \notin Defects \cup {"merkle_root_mismatch", "raises"}
  BY StageAssumption DEF CRYPTO_STAGES
<1>2. f.defect \in Defects \cup {"none"}
  BY DEF Vector
<1>3. classify(v, f) = f.failure_stage
  BY DEF Shows, verify_model
<1>4. f.defect = "none"
  BY <1>1, <1>2, <1>3 DEF classify
<1>5. f.spent_script = root_of(v, f)
  BY <1>1, <1>3, <1>4 DEF classify
<1>6. f.expected_result <=> f.failure_stage = "none"
  BY <1>1, <1>3, <1>4, <1>5 DEF classify, Vector
<1> QED
  BY <1>4, <1>5, <1>6 DEF Labelled, Shows, verify_model

(* Each of the three rewritings keeps what a vector shows; the fixture     *)
(* update needs that the signed output carries the root, or is absent.     *)
Rooted(v, f) ==
  f.qrs_signature.key # Placeholder =>
    f.qrs_signature.msg.output \in {Absent, merkle_root(f.qrs_signature.msg.leaf, Control[v])}

Firm(f) == f.failure_stage = "slh_dsa_verify" => f.qrs_signature.flipped

(* Signing spoils no vector.                                               *)
LEMMA SigningKeeps ==
  ASSUME NEW v \in Paths, NEW f \in Vector, NEW k \in Keys, Shows(v, f)
  PROVE  Shows(v, update_real_signature(v, f, k))
<1>1. CASE f.failure_stage \in CRYPTO_STAGES
  BY <1>1, ShowsLabelled, SignedShows DEF update_real_signature
<1>2. CASE f.failure_stage \notin CRYPTO_STAGES
  BY <1>2, DigestIdempotent DEF update_real_signature, Shows, verify_model
<1> QED
  BY <1>1, <1>2

(* Nor does the fixture update, where every root is in its place.          *)
LEMMA FixtureKeeps ==
  ASSUME NEW v \in Paths, NEW f \in Vector, Shows(v, f), Firm(f), Rooted(v, f)
  PROVE  Shows(v, fixture_update(v, f))
<1>0. digest_matches(f) /\ with_digest(f) = f
  BY DigestIdempotent DEF Shows, verify_model
<1>1. CASE f.failure_stage \notin CRYPTO_STAGES
  BY <1>0, <1>1 DEF fixture_update
<1>2. CASE f.failure_stage = "none"
  <2>1. /\ f.spent_script = root_of(v, f)
        /\ f.qrs_signature = [key |-> f.qrs_public_key, msg |-> qrs_msg(f), flipped |-> FALSE]
        /\ f.qrs_signature.key # Placeholder
    BY <1>2, ShowsLabelled DEF Shows, Authorized, CRYPTO_STAGES
  <2>2. f.output \in {Absent, root_of(v, f)}
    BY <2>1 DEF Rooted, qrs_msg, root_of
  <2> QED
    BY <1>0, <1>2, <2>1, <2>2, RootIdempotent DEF fixture_update, CRYPTO_STAGES
<1>3. CASE f.failure_stage = "slh_dsa_verify"
  <2> DEFINE h == update_spend_root(f, root_of(v, f))
             g == with_digest(h)
  <2>1. /\ h \in Vector
        /\ root_of(v, h) = root_of(v, f) /\ h.spent_script = root_of(v, f)
        /\ h.qrs_public_key = f.qrs_public_key /\ h.qrs_signature = f.qrs_signature
        /\ h.defect = f.defect /\ h.failure_stage = f.failure_stage
        /\ h.expected_result = f.expected_result /\ h.reaches = f.reaches
    BY RootedFields
  <2> HIDE DEF h
  <2>2. /\ digest_matches(g)
        /\ root_of(v, g) = root_of(v, f) /\ g.spent_script = root_of(v, f)
        /\ g.qrs_public_key = f.qrs_public_key /\ g.qrs_signature = f.qrs_signature
        /\ g.defect = f.defect /\ g.failure_stage = f.failure_stage
        /\ g.expected_result = f.expected_result /\ g.reaches = f.reaches
    BY <2>1, DigestFields DEF root_of
  <2> HIDE DEF g
  <2>3. f.spent_script = root_of(v, f)
    BY <1>3, ShowsLabelled DEF CRYPTO_STAGES
  <2>4. classify(v, g) = classify(v, f)
    BY <2>2, <2>3 DEF classify
  <2>5. verify_model(v, g)
    BY <2>2, <2>4 DEF verify_model, Shows
  <2>6. ~Authorized(g)
    BY <1>3, <2>2 DEF Authorized, Firm
  <2>7. Placeholder \notin {g.qrs_public_key, g.qrs_signature.key}
    BY <1>3, <2>2 DEF Shows, CRYPTO_STAGES
  <2>8. fixture_update(v, f) = g
    BY <1>3 DEF fixture_update, CRYPTO_STAGES, g, h
  <2> QED
    BY <1>3, <2>2, <2>5, <2>6, <2>7, <2>8 DEF Shows
<1> QED
  BY <1>1, <1>2, <1>3 DEF CRYPTO_STAGES

(* The native check decides what the vector shows.                         *)
LEMMA VerifyShows ==
  ASSUME NEW v \in Paths, NEW f \in Vector, verify_model(v, f),
         f.failure_stage \in CRYPTO_STAGES => verify_crypto_vector(f)
  PROVE  Shows(v, f)
<1>1. native_verify(f.qrs_public_key, f.expected_qrs_msg, f.qrs_signature) <=> Authorized(f)
  BY DEF native_verify, Authorized, verify_model, digest_matches, Vector, Signatures
<1> QED
  BY <1>1 DEF Shows, verify_crypto_vector

-----------------------------------------------------------------------------
(* The inductive invariant.                                                *)

(* Where a run is and what it holds there.                                 *)
Underway ==
  /\ pc # "idle" => exit = -1
  /\ pc \in {"idle", "keygen", "probe"} => i = 1
  /\ pc \in {"keygen", "sign", "probe", "verify"} => tool = "vectors"
  /\ pc \in {"keygen", "sign"} => update
  /\ pc = "sign" => key \in Keys
  /\ pc = "fixtures" => tool = "fixtures"
  /\ pc = "digest" => tool = "digest"
  /\ pc \in {"keygen", "sign", "probe", "verify", "digest"} => Readable

(* No signature was ever made over an output with a foreign root.          *)
SignedRooted == \A v \in Paths : files[v] # Cut => Rooted(v, files[v])

(* What the files behind the current one have been found to be.            *)
Checked ==
  \A v \in Paths : v < i =>
    /\ pc = "verify" =>
         /\ verify_model(v, files[v])
         /\ crypto => Shows(v, files[v])
    /\ pc = "fixtures" => files[v] # Cut /\ verify_model(v, files[v])
    /\ pc = "digest" => digest_matches(files[v])

IInv ==
  TypeOK /\ Underway /\ SignedRooted /\ Checked /\ ExitZeroHolds /\ SignedVectorsShow

(* The directory as it is found.                                           *)
LEMMA InitInv == Init => IInv
<1> SUFFICES ASSUME Init PROVE IInv
  OBVIOUS
<1>1. \A v \in Paths : files[v] \in Vector /\ files[v].qrs_signature.key = Placeholder
  BY DraftAssumption DEF Init
<1>2. TypeOK
  <2>1. files \in [Paths -> Vector \cup {Cut}]
    BY <1>1 DEF Init
  <2>2. i \in 1..(NumVectors + 1) /\ edits \in 0..MaxEdits /\ exit \in {-1, 0, 1}
    BY SizeAssumption DEF Init
  <2>3. update \in BOOLEAN /\ crypto \in BOOLEAN /\ key \in Pubkeys
    BY DEF Init, Pubkeys
  <2> QED
    BY <2>1, <2>2, <2>3 DEF Init, TypeOK
<1>3. SignedRooted
  BY <1>1 DEF SignedRooted, Rooted
<1> QED
  BY <1>2, <1>3 DEF IInv, Init, Underway, Checked, ExitZeroHolds, SignedVectorsShow

(* An edited file is a vector; its signature is none or the earlier one.   *)
LEMMA EditedVector ==
  ASSUME TypeOK, SignedRooted, NEW v \in Paths, NEW f \in Edits(v)
  PROVE  f \in Vector /\ Rooted(v, f)
<1>1. CASE f \in Drafts[v]
  BY <1>1, DraftAssumption DEF Rooted
<1>2. CASE f \notin Drafts[v]
  <2>1. files[v] # Cut
    BY <1>2 DEF Edits
  <2>2. files[v] \in Vector /\ Rooted(v, files[v])
    BY <2>1 DEF TypeOK, SignedRooted
  <2>3. f \in Vector /\ f.qrs_signature = files[v].qrs_signature
    <3>1. CASE \E t \in Txs : f = [files[v] EXCEPT !.tx = t]
      BY <2>2, <3>1 DEF Vector
    <3>2. CASE \E o \in {Payment, Absent} : f = [files[v] EXCEPT !.output = o]
      BY <2>2, <3>2 DEF Vector, Scripts
    <3>3. CASE \E s \in Stages :
                 f = [files[v] EXCEPT !.failure_stage = s, !.expected_result = (s = "none"),
                                      !.reaches = (s \in CRYPTO_STAGES)]
      <4>1. PICK s \in Stages :
              f = [files[v] EXCEPT !.failure_stage = s, !.expected_result = (s = "none"),
                                   !.reaches = (s \in CRYPTO_STAGES)]
        BY <3>3
      <4> DEFINE valid  == s = "none"
                 crypt  == s \in CRYPTO_STAGES
      <4>2. valid \in BOOLEAN /\ crypt \in BOOLEAN
        OBVIOUS
      <4>3. f = [files[v] EXCEPT !.failure_stage = s, !.expected_result = valid,
                                 !.reaches = crypt]
        BY <4>1
      <4> HIDE DEF valid, crypt
      <4> QED
        BY <2>2, <4>2, <4>3 DEF Vector
    <3> QED
      BY <1>2, <2>1, <3>1, <3>2, <3>3 DEF Edits
  <2> QED
    BY <2>2, <2>3 DEF Rooted
<1> QED
  BY <1>1, <1>2

(* Rewriting a vector without signing it leaves its signature alone.       *)
LEMMA RefreshedVector ==
  ASSUME NEW v \in Paths, NEW f \in Vector, Rooted(v, f)
  PROVE  /\ with_digest(f) \in Vector /\ Rooted(v, with_digest(f))
         /\ fixture_update(v, f) \in Vector /\ Rooted(v, fixture_update(v, f))
<1>1. with_digest(f) \in Vector /\ Rooted(v, with_digest(f))
  BY DigestFields DEF Rooted
<1> DEFINE h == update_spend_root(f, root_of(v, f))
<1>2. h \in Vector /\ h.qrs_signature = f.qrs_signature
  BY RootedFields
<1> HIDE DEF h
<1>3. with_digest(h) \in Vector /\ with_digest(h).qrs_signature = f.qrs_signature
  BY <1>2, DigestFields
<1>4. fixture_update(v, f) \in {with_digest(h), with_digest(f)}
  BY DEF fixture_update, h
<1> QED
  BY <1>1, <1>3, <1>4 DEF Rooted

(* Signing replaces it by one over an output that carries the root.        *)
LEMMA SignedVector ==
  ASSUME NEW v \in Paths, NEW f \in Vector, Rooted(v, f), NEW k \in Keys
  PROVE  /\ update_real_signature(v, f, k) \in Vector
         /\ Rooted(v, update_real_signature(v, f, k))
<1> DEFINE g == signed(v, f, k)
<1>0. k \in Pubkeys
  BY DEF Pubkeys
<1>1. /\ g \in Vector
      /\ g.qrs_signature = [key |-> k, msg |-> qrs_msg(g), flipped |-> Flip(f)]
      /\ g.qrs_public_key = k
      /\ g.output \in {Absent, root_of(v, g)}
  BY <1>0, SignedFields
<1>2. update_real_signature(v, f, k) \in {g, with_digest(f)}
  BY DEF update_real_signature
<1> HIDE DEF g
<1>3. Rooted(v, g)
  BY <1>1 DEF Rooted, qrs_msg, root_of
<1> QED
  BY <1>1, <1>2, <1>3, RefreshedVector

-----------------------------------------------------------------------------
(* Replacing one file keeps the directory well-formed and rooted.          *)
LEMMA OneFile ==
  ASSUME TypeOK, SignedRooted, NEW v \in Paths, NEW f \in Vector \cup {Cut},
         f # Cut => Rooted(v, f),
         files' = [files EXCEPT ![v] = f]
  PROVE  /\ files' \in [Paths -> Vector \cup {Cut}]
         /\ SignedRooted'
         /\ files'[v] = f
         /\ \A w \in Paths : w # v => files'[w] = files[w]
BY DEF TypeOK, SignedRooted

(* A run that ends with an error is back at the idle program point, and    *)
(* nothing is claimed of its files.                                        *)
LEMMA ErrorExit ==
  ASSUME IInv, Exits(1), edits' = edits, crypto' \in BOOLEAN,
         tool' \in {"vectors", "fixtures", "digest"}, update' \in BOOLEAN,
         files' \in [Paths -> Vector \cup {Cut}], SignedRooted'
  PROVE  IInv'
<1>1. TypeOK'
  BY SizeAssumption DEF IInv, TypeOK, Exits, Pubkeys
<1>2. Underway'
  BY DEF Exits, Underway
<1> QED
  BY <1>1, <1>2 DEF IInv, Exits, Checked, ExitZeroHolds, SignedVectorsShow

(* A run that ends well has found all files as ExitZeroHolds says.         *)
LEMMA GoodExit ==
  ASSUME IInv, Exits(0), UNCHANGED <<files, tool, update, crypto, edits>>,
         pc \in {"verify", "fixtures", "digest"}, i > NumVectors
  PROVE  IInv'
<1>1. TypeOK'
  BY SizeAssumption DEF IInv, TypeOK, Exits, Pubkeys
<1>2. Underway'
  BY DEF Exits, Underway
<1>3. \A v \in Paths : v < i
  BY SizeAssumption DEF Paths, IInv, TypeOK
<1>4. ExitZeroHolds'
  BY <1>3 DEF IInv, Underway, Readable, Checked, verify_model, ExitZeroHolds
<1>5. SignedRooted'
  BY DEF IInv, SignedRooted
<1> QED
  BY <1>1, <1>2, <1>4, <1>5 DEF IInv, Exits, Checked, SignedVectorsShow

(* What is edited by hand carries no signature.                            *)
LEMMA EditInv == IInv /\ EditVector => IInv'
<1> SUFFICES ASSUME IInv, EditVector PROVE IInv'
  OBVIOUS
<1>0. PICK v \in Paths : \E f \in Edits(v) : files' = [files EXCEPT ![v] = f]
  BY DEF EditVector
<1>1. PICK f \in Edits(v) : files' = [files EXCEPT ![v] = f]
  BY <1>0
<1>2. f \in Vector /\ Rooted(v, f)
  BY EditedVector DEF IInv
<1>3. files' \in [Paths -> Vector \cup {Cut}] /\ SignedRooted'
  BY <1>1, <1>2, OneFile DEF IInv
<1>4. TypeOK'
  BY <1>3, SizeAssumption DEF IInv, TypeOK, EditVector
<1>5. Underway'
  BY DEF IInv, Underway, EditVector
<1> QED
  BY <1>3, <1>4, <1>5 DEF IInv, EditVector, Checked, ExitZeroHolds, SignedVectorsShow

(* A run begins with nothing checked.                                      *)
LEMMA StartInv ==
  ASSUME IInv, pc = "idle",
         NEW to \in {"keygen", "probe", "fixtures", "digest"}, Starts(to),
         UNCHANGED <<files, crypto, edits>>, update' \in BOOLEAN,
         tool' = IF to \in {"fixtures", "digest"} THEN to ELSE "vectors",
         to = "keygen" => update', to = "probe" => ~update',
         to = "fixtures" \/ Readable
  PROVE  IInv'
<1>1. TypeOK'
  BY DEF IInv, TypeOK, Starts
<1>2. Underway'
  BY DEF IInv, Underway, Starts, Readable
<1>3. SignedRooted'
  BY DEF IInv, SignedRooted
<1>4. Checked'
  <2>1. i' = 1
    BY DEF IInv, Underway, Starts
  <2> QED
    BY <2>1, SizeAssumption DEF Checked, Paths
<1>5. ExitZeroHolds' /\ SignedVectorsShow'
  BY DEF Starts, ExitZeroHolds, SignedVectorsShow
<1> QED
  BY <1>1, <1>2, <1>3, <1>4, <1>5 DEF IInv

(* At its start a script has checked nothing.                              *)
LEMMA StartsInv == IInv /\ (StartVectors \/ StartFixtures \/ StartDigest) => IInv'
<1> SUFFICES ASSUME IInv, StartVectors \/ StartFixtures \/ StartDigest PROVE IInv'
  OBVIOUS
<1>1. files' = files /\ crypto' = crypto /\ edits' = edits /\ update' \in BOOLEAN
        /\ tool' \in {"vectors", "fixtures", "digest"} /\ pc = "idle"
  BY DEF StartVectors, StartFixtures, StartDigest
<1>2. files' \in [Paths -> Vector \cup {Cut}] /\ SignedRooted' /\ crypto' \in BOOLEAN
  BY <1>1 DEF IInv, TypeOK, SignedRooted
<1>3. CASE Exits(1)
  BY <1>1, <1>2, <1>3, ErrorExit
<1>4. CASE StartVectors /\ ~Exits(1)
  <2>1. Readable /\ Starts(IF update' THEN "keygen" ELSE "probe") /\ tool' = "vectors"
    BY <1>4 DEF StartVectors
  <2> QED
    BY <1>1, <2>1, StartInv
<1>5. CASE StartFixtures
  BY <1>1, <1>5, StartInv DEF StartFixtures
<1>6. CASE StartDigest /\ ~Exits(1)
  BY <1>1, <1>6, StartInv DEF StartDigest
<1> QED
  BY <1>3, <1>4, <1>5, <1>6

(* The run reaches the files one after the other.                          *)
LEMMA AtFile ==
  ASSUME TypeOK, i <= NumVectors
  PROVE  /\ i \in Paths /\ i + 1 \in 1..(NumVectors + 1)
         /\ \A v \in Paths : v < i + 1 <=> v < i \/ v = i
BY SizeAssumption DEF TypeOK, Paths

(* The signing run.                                                        *)
LEMMA SignInv == IInv /\ (Keygen \/ SignVector \/ SignReturns) => IInv'
<1> SUFFICES ASSUME IInv, Keygen \/ SignVector \/ SignReturns PROVE IInv'
  OBVIOUS
<1>1. CASE Keygen
  <2>1. TypeOK'
    BY <1>1 DEF IInv, TypeOK, Keygen, Pubkeys
  <2>2. Underway' /\ SignedRooted'
    BY <1>1 DEF IInv, Underway, SignedRooted, Keygen, Readable
  <2>3. SignedVectorsShow'
    <3>1. i' = 1
      BY <1>1 DEF IInv, Underway, Keygen
    <3> QED
      BY <1>1, <3>1, SizeAssumption DEF SignedVectorsShow, Keygen, Paths
  <2>4. Checked' /\ ExitZeroHolds'
    BY <1>1 DEF IInv, Underway, Checked, ExitZeroHolds, Keygen
  <2> QED
    BY <2>1, <2>2, <2>3, <2>4 DEF IInv
<1>2. CASE SignVector
  <2> DEFINE f == files[i]
             g == update_real_signature(i, f, key)
  <2>1. /\ i \in Paths /\ i + 1 \in 1..(NumVectors + 1)
        /\ \A v \in Paths : v < i + 1 <=> v < i \/ v = i
    BY <1>2, AtFile DEF IInv, SignVector
  <2>2. key \in Keys /\ f # Cut /\ f \in Vector /\ Rooted(i, f)
    BY <1>2, <2>1 DEF IInv, Underway, SignVector, Readable, TypeOK, SignedRooted
  <2>3. files' = [files EXCEPT ![i] = g]
    BY <1>2 DEF SignVector
  <2>4. g \in Vector /\ Rooted(i, g) /\ (Labelled(i, g) => Shows(i, g))
    BY <2>1, <2>2, SignedVector, RewrittenLabels
  <2> HIDE DEF f, g
  <2>5. /\ files' \in [Paths -> Vector \cup {Cut}] /\ SignedRooted'
        /\ files'[i] = g /\ \A v \in Paths : v # i => files'[v] = files[v]
    BY <2>1, <2>3, <2>4, OneFile DEF IInv
  <2>6. TypeOK'
    BY <1>2, <2>1, <2>5 DEF IInv, TypeOK, SignVector, Goes
  <2>7. Underway'
    BY <1>2, <2>4, <2>5, CutAssumption DEF IInv, Underway, SignVector, Goes, Readable
  <2>8. SignedVectorsShow'
    <3> SUFFICES ASSUME NEW v \in Paths, v < i + 1, Labelled(v, files'[v])
                 PROVE  Shows(v, files'[v])
      BY <1>2 DEF SignedVectorsShow, SignVector, Goes
    <3>1. CASE v = i
      BY <3>1, <2>4, <2>5
    <3>2. CASE v # i
      BY <1>2, <3>2, <2>1, <2>5 DEF IInv, SignedVectorsShow, SignVector, Underway
    <3> QED
      BY <3>1, <3>2
  <2>9. Checked' /\ ExitZeroHolds'
    BY <1>2 DEF IInv, Underway, Checked, ExitZeroHolds, SignVector, Goes
  <2> QED
    BY <2>5, <2>6, <2>7, <2>8, <2>9 DEF IInv
<1>3. CASE SignReturns
  <2>1. TypeOK'
    BY <1>3, SizeAssumption DEF IInv, TypeOK, SignReturns, Goes
  <2>2. Underway' /\ SignedRooted'
    BY <1>3 DEF IInv, Underway, SignedRooted, SignReturns, Goes, Readable
  <2>3. SignedVectorsShow'
    <3>1. \A v \in Paths : v < i
      BY <1>3, SizeAssumption DEF Paths, IInv, TypeOK, SignReturns
    <3> QED
      BY <1>3, <3>1 DEF IInv, Underway, SignedVectorsShow, SignReturns, Goes
  <2>4. Checked' /\ ExitZeroHolds'
    BY <1>3 DEF IInv, Underway, Checked, ExitZeroHolds, SignReturns, Goes
  <2> QED
    BY <2>1, <2>2, <2>3, <2>4 DEF IInv
<1> QED
  BY <1>1, <1>2, <1>3

(* Steps that end a run with an error, killed in mid-write or not.         *)
LEMMA FailInv == IInv /\ (NativeFails \/ VerifyFails \/ Killed) => IInv'
<1> SUFFICES ASSUME IInv, NativeFails \/ VerifyFails \/ Killed PROVE IInv'
  OBVIOUS
<1>1. /\ Exits(1) /\ edits' = edits /\ crypto' \in BOOLEAN /\ update' \in BOOLEAN
      /\ tool' \in {"vectors", "fixtures", "digest"}
  BY DEF NativeFails, VerifyFails, Killed, IInv, TypeOK
<1>2. files' \in [Paths -> Vector \cup {Cut}] /\ SignedRooted'
  <2>1. CASE files' = files
    BY <2>1 DEF IInv, TypeOK, SignedRooted
  <2>2. CASE files' # files
    <3>1. Writing /\ files' = [files EXCEPT ![i] = Cut]
      BY <2>2 DEF NativeFails, VerifyFails, Killed
    <3>2. i \in Paths
      BY <3>1, AtFile DEF IInv, Writing
    <3> QED
      BY <3>1, <3>2, OneFile DEF IInv
  <2> QED
    BY <2>1, <2>2
<1> QED
  BY <1>1, <1>2, ErrorExit

(* The checking run of the vectors.                                        *)
LEMMA VerifyInv == IInv /\ (Probe \/ VerifyVector \/ SelfTest) => IInv'
<1> SUFFICES ASSUME IInv, Probe \/ VerifyVector \/ SelfTest PROVE IInv'
  OBVIOUS
<1>0. /\ files' = files /\ tool' = tool /\ update' = update /\ edits' = edits
      /\ files' \in [Paths -> Vector \cup {Cut}] /\ SignedRooted' /\ crypto' \in BOOLEAN
      /\ update' \in BOOLEAN /\ tool' \in {"vectors", "fixtures", "digest"}
  BY DEF Probe, VerifyVector, SelfTest, IInv, TypeOK, SignedRooted
<1>1. CASE Exits(1)
  BY <1>0, <1>1, ErrorExit
<1>2. CASE Probe /\ ~Exits(1)
  <2>1. TypeOK'
    BY <1>0, <1>2, SizeAssumption DEF IInv, TypeOK, Probe, Goes
  <2>2. Underway'
    BY <1>0, <1>2 DEF IInv, Underway, Probe, Goes, Readable
  <2>3. Checked'
    BY <1>2, SizeAssumption DEF Checked, Paths, Probe, Goes
  <2>4. ExitZeroHolds' /\ SignedVectorsShow'
    BY <1>0, <1>2 DEF IInv, Underway, ExitZeroHolds, SignedVectorsShow, Probe, Goes
  <2> QED
    BY <1>0, <2>1, <2>2, <2>3, <2>4 DEF IInv
<1>3. CASE VerifyVector
  <2>1. /\ i \in Paths /\ i + 1 \in 1..(NumVectors + 1)
        /\ \A v \in Paths : v < i + 1 <=> v < i \/ v = i
    BY <1>3, AtFile DEF IInv, VerifyVector
  <2>2. TypeOK'
    BY <1>0, <1>3, <2>1 DEF IInv, TypeOK, VerifyVector, Goes
  <2>3. Underway'
    BY <1>0, <1>3 DEF IInv, Underway, VerifyVector, Goes, Readable
  <2>4. verify_model(i, files[i]) /\ (crypto => Shows(i, files[i]))
    <3>1. files[i] \in Vector
      BY <1>3, <2>1 DEF IInv, TypeOK, Underway, Readable, VerifyVector
    <3> QED
      BY <1>3, <2>1, <3>1, VerifyShows DEF VerifyVector, verify_vector
  <2>5. Checked'
    BY <1>0, <1>3, <2>1, <2>4 DEF IInv, Checked, VerifyVector, Goes
  <2>6. ExitZeroHolds' /\ SignedVectorsShow'
    BY <1>0, <1>3 DEF IInv, Underway, ExitZeroHolds, SignedVectorsShow, VerifyVector, Goes
  <2> QED
    BY <1>0, <2>2, <2>3, <2>5, <2>6 DEF IInv
<1>4. CASE SelfTest /\ ~Exits(1)
  BY <1>4, GoodExit DEF SelfTest
<1> QED
  BY <1>1, <1>2, <1>3, <1>4

(* The fixture script writes each file before it checks it.                *)
LEMMA FixtureInv == IInv /\ (VerifyFixture \/ TapLeafSelfTest) => IInv'
<1> SUFFICES ASSUME IInv, VerifyFixture \/ TapLeafSelfTest PROVE IInv'
  OBVIOUS
<1>1. CASE VerifyFixture
  <2> DEFINE f == IF update /\ files[i] # Cut THEN fixture_update(i, files[i]) ELSE files[i]
  <2>1. /\ i \in Paths /\ i + 1 \in 1..(NumVectors + 1)
        /\ \A v \in Paths : v < i + 1 <=> v < i \/ v = i
    BY <1>1, AtFile DEF IInv, VerifyFixture
  <2>2. /\ files' = [files EXCEPT ![i] = f]
        /\ IF f # Cut /\ verify_one(i, f) THEN Goes("fixtures", i + 1) ELSE Exits(1)
    BY <1>1 DEF VerifyFixture
  <2>3. f \in Vector \cup {Cut} /\ (f # Cut => Rooted(i, f))
    <3>1. CASE files[i] = Cut
      BY <3>1
    <3>2. CASE files[i] # Cut
      <4>1. files[i] \in Vector /\ Rooted(i, files[i])
        BY <3>2, <2>1 DEF IInv, TypeOK, SignedRooted
      <4>2. fixture_update(i, files[i]) \in Vector
              /\ Rooted(i, fixture_update(i, files[i]))
        BY <2>1, <4>1, RefreshedVector
      <4> QED
        BY <4>1, <4>2
    <3> QED
      BY <3>1, <3>2
  <2> HIDE DEF f
  <2>4. /\ files' \in [Paths -> Vector \cup {Cut}] /\ SignedRooted'
        /\ files'[i] = f /\ \A v \in Paths : v # i => files'[v] = files[v]
    BY <2>1, <2>2, <2>3, OneFile DEF IInv
  <2>5. /\ edits' = edits /\ crypto' = crypto /\ tool' = tool /\ update' = update
        /\ crypto' \in BOOLEAN /\ update' \in BOOLEAN
        /\ tool' \in {"vectors", "fixtures", "digest"}
    BY <1>1 DEF VerifyFixture, IInv, TypeOK
  <2>6. CASE Exits(1)
    BY <2>4, <2>5, <2>6, ErrorExit
  <2>7. CASE ~Exits(1)
    <3>1. f # Cut /\ verify_model(i, f) /\ Goes("fixtures", i + 1)
      BY <2>2, <2>7 DEF verify_one
    <3>2. TypeOK'
      BY <2>1, <2>4, <2>5, <3>1 DEF IInv, TypeOK, Goes
    <3>3. Underway'
      BY <1>1, <2>5, <3>1 DEF IInv, Underway, VerifyFixture, Goes
    <3>4. Checked'
      BY <1>1, <2>1, <2>4, <3>1 DEF IInv, Checked, VerifyFixture, Goes
    <3>5. ExitZeroHolds' /\ SignedVectorsShow'
      BY <1>1, <3>1 DEF IInv, Underway, ExitZeroHolds, SignedVectorsShow, VerifyFixture, Goes
    <3> QED
      BY <2>4, <3>2, <3>3, <3>4, <3>5 DEF IInv
  <2> QED
    BY <2>6, <2>7
<1>2. CASE TapLeafSelfTest
  <2>1. CASE Exits(0)
    BY <1>2, <2>1, GoodExit DEF TapLeafSelfTest
  <2>2. CASE Exits(1)
    <3>1. /\ files' \in [Paths -> Vector \cup {Cut}] /\ SignedRooted' /\ edits' = edits
          /\ crypto' \in BOOLEAN /\ update' \in BOOLEAN
          /\ tool' \in {"vectors", "fixtures", "digest"}
      BY <1>2 DEF TapLeafSelfTest, IInv, TypeOK, SignedRooted
    <3> QED
      BY <2>2, <3>1, ErrorExit
  <2> QED
    BY <1>2, <2>1, <2>2 DEF TapLeafSelfTest
<1> QED
  BY <1>1, <1>2

(* The digest script.                                                      *)
LEMMA DigestInv == IInv /\ (ComputeDigest \/ DigestReturns) => IInv'
<1> SUFFICES ASSUME IInv, ComputeDigest \/ DigestReturns PROVE IInv'
  OBVIOUS
<1>1. CASE ComputeDigest
  <2> DEFINE f == files[i]
             g == IF update THEN with_digest(f) ELSE f
  <2>1. /\ i \in Paths /\ i + 1 \in 1..(NumVectors + 1)
        /\ \A v \in Paths : v < i + 1 <=> v < i \/ v = i
    BY <1>1, AtFile DEF IInv, ComputeDigest
  <2>2. f # Cut /\ f \in Vector /\ Rooted(i, f)
    BY <1>1, <2>1 DEF IInv, Underway, ComputeDigest, Readable, TypeOK, SignedRooted
  <2>3. files' = [files EXCEPT ![i] = g]
    BY <1>1 DEF ComputeDigest, IInv, TypeOK
  <2>4. /\ g \in Vector /\ Rooted(i, g)
        /\ IF digest_matches(g) THEN Goes("digest", i + 1) ELSE Exits(1)
    BY <1>1, <2>1, <2>2, DigestFields, RefreshedVector DEF ComputeDigest
  <2> HIDE DEF f, g
  <2>5. /\ files' \in [Paths -> Vector \cup {Cut}] /\ SignedRooted'
        /\ files'[i] = g /\ \A v \in Paths : v # i => files'[v] = files[v]
    BY <2>1, <2>3, <2>4, OneFile DEF IInv
  <2>6. /\ edits' = edits /\ crypto' = crypto /\ tool' = tool /\ update' = update
        /\ crypto' \in BOOLEAN /\ update' \in BOOLEAN
        /\ tool' \in {"vectors", "fixtures", "digest"}
    BY <1>1 DEF ComputeDigest, IInv, TypeOK
  <2>7. CASE Exits(1)
    BY <2>5, <2>6, <2>7, ErrorExit
  <2>8. CASE ~Exits(1)
    <3>1. digest_matches(g) /\ Goes("digest", i + 1)
      BY <2>4, <2>8
    <3>2. TypeOK'
      BY <2>1, <2>5, <2>6, <3>1 DEF IInv, TypeOK, Goes
    <3>3. Underway'
      BY <1>1, <2>4, <2>5, <2>6, <3>1, CutAssumption
         DEF IInv, Underway, ComputeDigest, Goes, Readable
    <3>4. Checked'
      BY <1>1, <2>1, <2>5, <3>1 DEF IInv, Checked, ComputeDigest, Goes
    <3>5. ExitZeroHolds' /\ SignedVectorsShow'
      BY <1>1, <3>1 DEF IInv, Underway, ExitZeroHolds, SignedVectorsShow, ComputeDigest, Goes
    <3> QED
      BY <2>5, <3>2, <3>3, <3>4, <3>5 DEF IInv
  <2> QED
    BY <2>7, <2>8
<1>2. CASE DigestReturns
  <2>1. CASE Exits(0)
    BY <1>2, <2>1, GoodExit DEF DigestReturns
  <2>2. CASE Exits(1)
    <3>1. /\ files' \in [Paths -> Vector \cup {Cut}] /\ SignedRooted' /\ edits' = edits
          /\ crypto' \in BOOLEAN /\ update' \in BOOLEAN
          /\ tool' \in {"vectors", "fixtures", "digest"}
      BY <1>2 DEF DigestReturns, IInv, TypeOK, SignedRooted
    <3> QED
      BY <2>2, <3>1, ErrorExit
  <2> QED
    BY <1>2, <2>1, <2>2 DEF DigestReturns
<1> QED
  BY <1>1, <1>2

(* Every step keeps the invariant.                                         *)
LEMMA Inductive == IInv /\ [Next]_vars => IInv'
<1> SUFFICES ASSUME IInv, [Next]_vars PROVE IInv'
  OBVIOUS
<1>1. CASE EditVector
  BY <1>1, EditInv
<1>2. CASE StartVectors \/ StartFixtures \/ StartDigest
  BY <1>2, StartsInv
<1>3. CASE Keygen \/ SignVector \/ SignReturns
  BY <1>3, SignInv
<1>4. CASE NativeFails \/ VerifyFails \/ Killed
  BY <1>4, FailInv
<1>5. CASE Probe \/ VerifyVector \/ SelfTest
  BY <1>5, VerifyInv
<1>6. CASE VerifyFixture \/ TapLeafSelfTest
  BY <1>6, FixtureInv
<1>7. CASE ComputeDigest \/ DigestReturns
  BY <1>7, DigestInv
<1>8. CASE UNCHANGED vars
  <2> USE <1>8 DEF IInv, vars
  <2>1. TypeOK' /\ Underway' /\ SignedRooted'
    BY DEF TypeOK, Underway, SignedRooted, Readable
  <2>2. Checked'
    BY DEF Checked
  <2>3. ExitZeroHolds' /\ SignedVectorsShow'
    BY DEF ExitZeroHolds, SignedVectorsShow
  <2> QED
    BY <2>1, <2>2, <2>3
<1> QED
  BY <1>1, <1>2, <1>3, <1>4, <1>5, <1>6, <1>7, <1>8 DEF Next

(* The whole of it holds throughout, over edits, runs and kills.           *)
LEMMA Invariance == Spec => []IInv
<1> QED
  BY InitInv, Inductive, PTL DEF Spec

-----------------------------------------------------------------------------
(* Every file of the directory is a vector or visibly cut short, and a run *)
(* is at one of its program points with a file that exists.                *)
THEOREM Typed == Spec => []TypeOK
<1>1. IInv => TypeOK
  BY DEF IInv
<1> QED
  BY Invariance, <1>1, PTL

(* A script that exits with 0 vouches for the directory as it then is:     *)
(* nothing it checked first was changed by what it did afterwards.         *)
THEOREM ExitZeroVouches == Spec => []ExitZeroHolds
<1>1. IInv => ExitZeroHolds
  BY DEF IInv
<1> QED
  BY Invariance, <1>1, PTL

(* What --update-real-signatures has rewritten shows what its labels say,  *)
(* whatever lay in the directory before.                                   *)
THEOREM SigningShows == Spec => []SignedVectorsShow
<1>1. IInv => SignedVectorsShow
  BY DEF IInv
<1> QED
  BY Invariance, <1>1, PTL

(* No step of a run spoils a vector that showed what it should and whose   *)
(* invalidity, if it is to be invalid, lies in a flipped signature.        *)
THEOREM RunsNeverSpoil == Spec => NeverSpoils
<1> DEFINE NoSpoil ==
      pc # "idle" =>
        \A v \in Paths :
          /\ files[v] # Cut /\ Shows(v, files[v])
          /\ files[v].failure_stage = "slh_dsa_verify" => files[v].qrs_signature.flipped
          => files'[v] = Cut \/ Shows(v, files'[v])
<1>1. IInv /\ [Next]_vars => [NoSpoil]_vars
  <2> SUFFICES ASSUME IInv, [Next]_vars, pc # "idle", NEW v \in Paths,
                      files[v] # Cut, Shows(v, files[v]), Firm(files[v])
               PROVE  files'[v] = Cut \/ Shows(v, files'[v])
    BY DEF Firm
  <2>1. files[v] \in Vector /\ Rooted(v, files[v])
    BY DEF IInv, TypeOK, SignedRooted
  <2>2. CASE SignVector
    <3>1. files'[v] = IF v = i THEN update_real_signature(i, files[i], key) ELSE files[v]
      BY <2>2 DEF SignVector, IInv, TypeOK
    <3>2. key \in Keys
      BY <2>2 DEF SignVector, IInv, Underway
    <3> QED
      BY <2>1, <3>1, <3>2, SigningKeeps
  <2>3. CASE VerifyFixture
    <3>1. files'[v] \in {fixture_update(v, files[v]), files[v]}
      BY <2>3 DEF VerifyFixture, IInv, TypeOK
    <3> QED
      BY <2>1, <3>1, FixtureKeeps
  <2>4. CASE ComputeDigest
    <3>1. with_digest(files[v]) = files[v]
      BY <2>1, DigestIdempotent DEF Shows, verify_model
    <3>2. files'[v] \in {with_digest(files[v]), files[v]}
      BY <2>4 DEF ComputeDigest, IInv, TypeOK
    <3> QED
      BY <3>1, <3>2
  <2>5. CASE Killed
    <3>1. files'[v] \in {files[v], Cut}
      BY <2>5 DEF Killed, IInv, TypeOK
    <3> QED
      BY <3>1
  <2>6. CASE files' = files
    BY <2>6
  <2>7. ~EditVector
    BY DEF EditVector
  <2> QED
    BY <2>2, <2>3, <2>4, <2>5, <2>6, <2>7
       DEF Next, vars, StartVectors, Keygen, NativeFails, SignReturns, Probe, VerifyVector,
           VerifyFails, SelfTest, StartFixtures, TapLeafSelfTest, StartDigest, DigestReturns
<1>2. [][NoSpoil]_vars <=> NeverSpoils
  BY DEF NeverSpoils
<1> QED
  BY Invariance, <1>1, <1>2, PTL DEF Spec

-----------------------------------------------------------------------------
\* While vectors are signed, and checked after it, the locals hold one key.
Uniform ==
  tool = "vectors" /\ update /\ pc \in {"sign", "probe", "verify"} =>
    \A v \in Paths :
      (pc = "sign" => v < i) /\ files[v].failure_stage \in CRYPTO_STAGES =>
        files[v].qrs_public_key = key

(* The key of a signing run stays in its locals, and nothing else is signed with. *)
LEMMA UniformStep ==
  IInv /\ Uniform /\ OneKey /\ [Next]_vars => Uniform' /\ OneKey'
<1> SUFFICES ASSUME IInv, Uniform, OneKey, [Next]_vars PROVE Uniform' /\ OneKey'
  OBVIOUS
<1>1. CASE Keygen
  <2>1. i' = 1
    BY <1>1 DEF Keygen, IInv, Underway
  <2> QED
    BY <1>1, <2>1, SizeAssumption DEF Keygen, IInv, Underway, Uniform, OneKey, Paths
<1>2. CASE SignVector
  <2> DEFINE g == update_real_signature(i, files[i], key)
  <2>1. /\ i \in Paths /\ \A v \in Paths : v < i + 1 <=> v < i \/ v = i
        /\ key \in Pubkeys /\ files[i] \in Vector
    BY <1>2, AtFile DEF SignVector, IInv, TypeOK, Underway, Readable
  <2>2. g.failure_stage \in CRYPTO_STAGES => g.qrs_public_key = key
    <3>1. CASE files[i].failure_stage \in CRYPTO_STAGES
      BY <3>1, <2>1, SignedFields DEF update_real_signature
    <3>2. CASE files[i].failure_stage \notin CRYPTO_STAGES
      BY <3>2, <2>1, DigestFields DEF update_real_signature
    <3> QED
      BY <3>1, <3>2
  <2>3. /\ files'[i] = g /\ \A v \in Paths : v # i => files'[v] = files[v]
    BY <1>2, <2>1 DEF SignVector, IInv, TypeOK
  <2> HIDE DEF g
  <2>4. Uniform'
    BY <1>2, <2>1, <2>2, <2>3 DEF SignVector, Goes, Uniform, IInv, Underway
  <2>5. OneKey'
    BY <1>2 DEF SignVector, Goes, IInv, Underway, OneKey
  <2> QED
    BY <2>4, <2>5
<1>3. CASE SignReturns
  <2>1. \A v \in Paths : v < i
    BY <1>3, SizeAssumption DEF SignReturns, Paths, IInv, TypeOK
  <2> QED
    BY <1>3, <2>1 DEF SignReturns, Goes, IInv, Underway, Uniform, OneKey
<1>4. CASE Probe \/ VerifyVector
  BY <1>4 DEF Probe, VerifyVector, Goes, Exits, IInv, Underway, Uniform, OneKey
<1>5. CASE SelfTest
  BY <1>5 DEF SelfTest, Exits, IInv, Underway, Uniform, OneKey
<1>6. CASE VerifyFixture \/ TapLeafSelfTest
  BY <1>6 DEF VerifyFixture, TapLeafSelfTest, Goes, Exits, IInv, Underway, Uniform, OneKey
<1>7. CASE ComputeDigest \/ DigestReturns
  BY <1>7 DEF ComputeDigest, DigestReturns, Goes, Exits, IInv, Underway, Uniform, OneKey
<1>8. CASE EditVector
  BY <1>8 DEF EditVector, Uniform, OneKey
<1>9. CASE StartVectors \/ StartFixtures \/ StartDigest
  BY <1>9 DEF StartVectors, StartFixtures, StartDigest, Starts, Exits, Uniform, OneKey
<1>10. CASE NativeFails \/ VerifyFails \/ Killed
  BY <1>10 DEF NativeFails, VerifyFails, Killed, Exits, Uniform, OneKey
<1>11. CASE UNCHANGED vars
  BY <1>11 DEF vars, Uniform, OneKey
<1> QED
  BY <1>1, <1>2, <1>3, <1>4, <1>5, <1>6, <1>7, <1>8, <1>9, <1>10, <1>11 DEF Next

(* An update that exits with 0 has left a directory signed with one key,   *)
(* however many earlier updates died in it.                                *)
THEOREM SignedByOneKey == Spec => []OneKey
<1>1. Init => Uniform /\ OneKey
  BY DEF Init, Uniform, OneKey
<1> QED
  BY Invariance, <1>1, UniformStep, PTL DEF Spec

=============================================================================
