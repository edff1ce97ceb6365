------------------------- MODULE QrsValidationProofs -------------------------
(***************************************************************************)
(* Theorems of QrsValidation for every set of spends and every key: type   *)
(* correctness, the invariant that ties each program point to the checks   *)
(* behind it, what follows from it, that each step of the early-return     *)
(* path is a step of QrsRule or a stuttering one, and that QrsClassify     *)
(* names a stage the native path agrees with.                              *)
(* And theorems of DigestModel for all directories of documents, the other *)
(* place where a program and a script answer on the same vectors: their    *)
(* readers agree, and what the script passes has been read whole.          *)
(***************************************************************************)
EXTENDS QrsClassify, DigestModel, SequenceTheorems, FiniteSetTheorems, WellFoundedInduction, TLAPS

(* A message built from a spend of the right shape is a message.           *)
LEMMA MessageType ==
  ASSUME NEW s \in ModeledSpend
  PROVE  construct_qrs_msg(s) \in Message
<1>1. /\ s.public_key \in PublicKey
      /\ s.control_block.first \in 0..255
      /\ s.control_block.path \in Seq(Chunks)
      /\ s.annex \in Seq(Chunks)
  BY DEF ModeledSpend, ControlBlock
<1>2. s.control_block.path \o s.annex \in Seq(Chunks)
  BY <1>1, ConcatProperties
<1>. QED
  BY <1>1, <1>2 DEF construct_qrs_msg, Message, modeled_leaf_hash

(* The type invariant of the validation path.                              *)
THEOREM TypeCorrect == Spec => []TypeOK
<1>1. Init => TypeOK
  BY DEF Init, TypeOK, Checks
<1>2. TypeOK /\ [Next]_vars => TypeOK'
  <2>. SUFFICES ASSUME TypeOK, [Next]_vars PROVE TypeOK'
    OBVIOUS
  <2>. USE DEF TypeOK, Checks
  <2>1. ASSUME NEW s \in Spends, NEW flag \in BOOLEAN, Enter(s, flag)
        PROVE  TypeOK'
    BY <2>1 DEF Enter
  <2>2. CASE CheckPasses
    BY <2>2 DEF CheckPasses, NextStage
  <2>3. CASE CheckFails
    BY <2>3 DEF CheckFails
  <2>4. CASE ConstructMessage
    BY <2>4, MessageType, SpendsAssumption DEF ConstructMessage
  <2>5. CASE VerifierAnswers
    BY <2>5 DEF VerifierAnswers
  <2>6. CASE VerifierThrows
    BY <2>6 DEF VerifierThrows
  <2>7. CASE UNCHANGED vars
    BY <2>7 DEF vars
  <2>. QED
    BY <2>1, <2>2, <2>3, <2>4, <2>5, <2>6, <2>7 DEF Next
<1>. QED
  BY <1>1, <1>2, PTL DEF Spec

-----------------------------------------------------------------------------
(* A check that fails is one of the conjuncts of structural_checks.        *)
LEMMA FailedCheckIsStructural ==
  ASSUME NEW s, NEW c \in Checks, ~Passes(c, s)
  PROVE  ~structural_checks(s)
BY DEF Checks, Passes, structural_checks

(* The invariant that carries the others: it is inductive, what the        *)
(* program points know is not lost by any step.                            *)
THEOREM Inductive == Spec => []IInv
<1>1. Init => IInv
  BY DEF Init, IInv, TypeOK, PassedSoFar, CallOutcome, Checks
<1>2. IInv /\ TypeOK' /\ [Next]_vars => IInv'
  <2>. SUFFICES ASSUME IInv, TypeOK', [Next]_vars PROVE PassedSoFar' /\ CallOutcome'
    BY DEF IInv
  <2>. USE DEF IInv, TypeOK
  <2>1. ASSUME NEW s \in Spends, NEW flag \in BOOLEAN, Enter(s, flag)
        PROVE  PassedSoFar' /\ CallOutcome'
    BY <2>1 DEF Enter, PassedSoFar, CallOutcome, Checks
  <2>2. CASE CheckPasses
    <3>1. PassedSoFar'
      BY <2>2 DEF CheckPasses, PassedSoFar, NextStage, Passes, Checks
    <3>2. CallOutcome'
      BY <2>2 DEF CheckPasses, CallOutcome, NextStage, Checks
    <3>. QED  BY <3>1, <3>2
  <2>3. CASE CheckFails
    <3>1. ~structural_checks(spend)
      BY <2>3, FailedCheckIsStructural DEF CheckFails
    <3>2. PassedSoFar'
      BY <2>3 DEF CheckFails, PassedSoFar
    <3>3. CallOutcome'
      BY <2>3, <3>1 DEF CheckFails, CallOutcome, Checks
    <3>. QED  BY <3>2, <3>3
  <2>4. CASE ConstructMessage
    BY <2>4 DEF ConstructMessage, PassedSoFar, CallOutcome, Checks
  <2>5. CASE pc = "verify" /\ (VerifierAnswers \/ VerifierThrows)
    <3>1. structural_checks(spend)
      BY <2>5 DEF PassedSoFar, structural_checks
    <3>2. PassedSoFar'
      BY <2>5 DEF VerifierAnswers, VerifierThrows, PassedSoFar
    <3>3. CallOutcome'
      <4>1. /\ pc' = "done" /\ spend' = spend /\ msg' = msg
            /\ tracked' = tracked /\ verifier_called' = verifier_called
            /\ verdict' \in {"error", IF verify_message(VerifyKey, msg, spend.signature)
                                      THEN "accept" ELSE "reject"}
        BY <2>5 DEF VerifierAnswers, VerifierThrows
      <4>2. msg = construct_qrs_msg(spend) /\ (tracked => verifier_called)
        BY <2>5 DEF CallOutcome
      <4>. QED
        BY <3>1, <4>1, <4>2 DEF CallOutcome, Checks
    <3>. QED  BY <3>2, <3>3
  <2>6. CASE UNCHANGED vars
    BY <2>6 DEF vars, PassedSoFar, CallOutcome
  <2>. QED
    BY <2>1, <2>2, <2>3, <2>4, <2>5, <2>6 DEF Next, VerifierAnswers, VerifierThrows
<1>. QED
  BY <1>1, <1>2, TypeCorrect, PTL DEF Spec

(* A length of n siblings, one byte and e bytes more, divided by 32.       *)
LEMMA SizeOfSiblings ==
  \A n \in Nat, e \in 0..31 :
     \A size : size = 1 + 32 * n + e =>
        /\ size # 0
        /\ (size - 1) % 32 = e
        /\ (size - 1) \div 32 = n
        /\ (\E m \in 0..128 : size = 1 + 32 * m) <=> e = 0 /\ n <= 128
<1>. SUFFICES ASSUME NEW n \in Nat, NEW e \in 0..31, NEW size, size = 1 + 32 * n + e
              PROVE  /\ size # 0
                     /\ (size - 1) % 32 = e
                     /\ (size - 1) \div 32 = n
                     /\ (\E m \in 0..128 : size = 1 + 32 * m) <=> e = 0 /\ n <= 128
  OBVIOUS
<1>1. size - 1 = 32 * n + e
  OBVIOUS
<1>2. (32 * n + e) % 32 = e /\ (32 * n + e) \div 32 = n
  OBVIOUS
<1>3. ASSUME e = 0, n <= 128
      PROVE  \E m \in 0..128 : size = 1 + 32 * m
  <2>1. n \in 0..128 /\ size = 1 + 32 * n
    BY <1>3
  <2>. QED  BY <2>1
<1>4. ASSUME NEW m \in 0..128, size = 1 + 32 * m
      PROVE  e = 0 /\ n <= 128
  BY <1>4
<1>. QED
  BY <1>1, <1>2, <1>3, <1>4

(* The length test of the code: a whole number of siblings, at most 128.   *)
LEMMA ControlLengthForm ==
  ASSUME NEW s, s.control_block \in ControlBlock
  PROVE  (ControlNotEmpty(s) /\ ControlLengthOK(s)) <=>
           /\ ~s.control_block.empty
           /\ s.control_block.extra = 0
           /\ Len(s.control_block.path) <= kQrsMaxDepth
<1>1. /\ Len(s.control_block.path) \in Nat
      /\ s.control_block.extra \in 0..31
  BY DEF ControlBlock
<1>0. SUFFICES ASSUME NEW n \in Nat, n = Len(s.control_block.path),
                     NEW e \in 0..31, e = s.control_block.extra
              PROVE  (ControlNotEmpty(s) /\ ControlLengthOK(s)) <=>
                        ~s.control_block.empty /\ e = 0 /\ n <= kQrsMaxDepth
  BY <1>1
<1>2. CASE s.control_block.empty
  BY <1>2 DEF ControlNotEmpty, control_size
<1>3. CASE ~s.control_block.empty
  <2>1. control_size(s.control_block) = 1 + 32 * n + e
    BY <1>0, <1>3 DEF control_size
  <2>2. /\ control_size(s.control_block) # 0
        /\ (control_size(s.control_block) - 1) % 32 = e
        /\ (control_size(s.control_block) - 1) \div 32 = n
    BY <2>1, SizeOfSiblings, Zenon
  <2>. QED
    BY <1>0, <1>3, <2>2 DEF ControlNotEmpty, ControlLengthOK
<1>. QED
  BY <1>2, <1>3

(* The form the rule asks of a control block, in the same terms.           *)
LEMMA ControlFormIsRule ==
  ASSUME NEW c \in ControlBlock
  PROVE  Rule!ControlBlockForm(c) <=>
           ~c.empty /\ c.extra = 0 /\ Len(c.path) <= kQrsMaxDepth
<1>1. Len(c.path) \in Nat /\ c.extra \in 0..31
  BY DEF ControlBlock
<1>0. SUFFICES ASSUME NEW n \in Nat, n = Len(c.path),
                     NEW e \in 0..31, e = c.extra
              PROVE  Rule!ControlBlockForm(c) <=> ~c.empty /\ e = 0 /\ n <= 128
  BY <1>1 DEF kQrsMaxDepth
<1>2. CASE c.empty
  <2>1. Rule!control_size(c) = 0
    BY <1>2 DEF Rule!control_size
  <2>. QED
    BY <1>2, <2>1 DEF Rule!ControlBlockForm
<1>3. CASE ~c.empty
  <2>1. Rule!control_size(c) = 1 + 32 * n + e
    BY <1>0, <1>3 DEF Rule!control_size
  <2>2. (\E m \in 0..128 : Rule!control_size(c) = 1 + 32 * m) <=> e = 0 /\ n <= 128
    BY <2>1, SizeOfSiblings, Zenon
  <2>. QED
    BY <1>3, <2>2 DEF Rule!ControlBlockForm
<1>. QED
  BY <1>2, <1>3

(* No spend that fails a structural check reaches the verifier, and the    *)
(* verifier_called flag of the caller says exactly which spends did.       *)
THEOREM ReachedIffStructural == Spec => []VerifierReachedIffStructural
<1>1. IInv => VerifierReachedIffStructural
  BY DEF IInv, PassedSoFar, CallOutcome, VerifierReachedIffStructural, structural_checks
<1>. QED
  BY <1>1, Inductive, PTL

(* The bytes of a control block are read only where they exist.            *)
THEOREM ReadsInBounds == Spec => []ControlReadsInBounds
<1>1. IInv => ControlReadsInBounds
  <2>. SUFFICES ASSUME IInv PROVE ControlReadsInBounds
    OBVIOUS
  <2>. DEFINE c == spend.control_block
  <2>1. c \in ControlBlock
    BY SpendsAssumption DEF IInv, TypeOK, ModeledSpend
  <2>2. ControlNotEmpty(spend) => ~c.empty
    BY DEF ControlNotEmpty, control_size
  <2>3. ControlNotEmpty(spend) /\ ControlLengthOK(spend) =>
          c.extra = 0 /\ Len(c.path) <= kQrsMaxDepth
    BY <2>1, <2>2, ControlLengthForm
  <2>. QED
    BY <2>2, <2>3 DEF IInv, TypeOK, Checks, PassedSoFar, ControlReadsInBounds
<1>. QED
  BY <1>1, Inductive, PTL

(* Within one output, an accepted spend is, in every field the validation  *)
(* path reads, the spend its signature was made for.                       *)
THEOREM BindsWithinOutput == Spec => []OutputBinding
<1>1. IInv => OutputBinding
  <2>. SUFFICES ASSUME IInv, pc = "done", verdict = "accept",
                       NEW h \in Spends,
                       structural_checks(h),
                       verify_message(VerifyKey, construct_qrs_msg(h), h.signature),
                       h.signature = spend.signature,
                       h.expected_root = spend.expected_root
                PROVE  /\ h.public_key = spend.public_key
                       /\ h.annex = spend.annex
                       /\ h.control_block.path = spend.control_block.path
                       /\ h.control_block.first = spend.control_block.first
    BY DEF OutputBinding
  <2>1. /\ structural_checks(spend)
        /\ verify_message(VerifyKey, construct_qrs_msg(spend), spend.signature)
    BY DEF IInv, CallOutcome
  <2>2. construct_qrs_msg(h) = construct_qrs_msg(spend)
    BY <2>1 DEF verify_message
  <2>3. modeled_root(h.public_key, h.control_block)
          = modeled_root(spend.public_key, spend.control_block)
    BY <2>1 DEF structural_checks, RootOK, modeled_leaf_hash
  <2>4. /\ h.public_key = spend.public_key
        /\ h.control_block.path = spend.control_block.path
    BY <2>3 DEF modeled_root
  <2>5. /\ h.control_block.first = spend.control_block.first
        /\ h.control_block.path \o h.annex = spend.control_block.path \o spend.annex
    BY <2>2 DEF construct_qrs_msg
  <2>6. /\ h.control_block.path \in Seq(Chunks)
        /\ h.annex \in Seq(Chunks)
        /\ spend.annex \in Seq(Chunks)
    BY SpendsAssumption DEF IInv, TypeOK, ModeledSpend, ControlBlock
  <2>7. h.annex = spend.annex
    BY <2>4, <2>5, <2>6, ConcatSimplifications
  <2>. QED
    BY <2>4, <2>5, <2>7
<1>. QED
  BY <1>1, Inductive, PTL

-----------------------------------------------------------------------------
(* The bit tests and length arithmetic of the code say what the rule says. *)
LEMMA StructuralIsRule ==
  ASSUME NEW s \in ModeledSpend
  PROVE  structural_checks(s) <=> Rule!WitnessRules(s)
<1>. DEFINE c == s.control_block
<1>1. c \in ControlBlock
  BY DEF ModeledSpend
<1>2. (LeafVersionOK(s) /\ LowBitOK(s)) <=> c.first = 195
  <2>1. c.first \in 0..255
    BY <1>1 DEF ControlBlock
  <2>. QED
    BY <2>1 DEF LeafVersionOK, LowBitOK, kQrsLeafVersion
<1>3. (ControlNotEmpty(s) /\ ControlLengthOK(s)) <=> Rule!ControlBlockForm(c)
  BY <1>1, ControlLengthForm, ControlFormIsRule
<1>. QED
  BY <1>2, <1>3 DEF structural_checks, SignatureLengthOK, PublicKeyLengthOK,
     RootOK, kQrsSignatureBytes, kQrsPublicKeyBytes, modeled_root, modeled_leaf_hash,
     Rule!WitnessRules, Rule!modeled_root, Rule!modeled_leaf_hash

(* The early-return path implements the one-step rule.                     *)
THEOREM Refinement == Spec => RuleSpec
<1>1. Init => Rule!Init
  BY DEF Init, Rule!Init
<1>2. IInv /\ IInv' /\ [Next]_vars => [Rule!Next]_(Rule!ruleVars)
  <2>. SUFFICES ASSUME IInv, IInv', [Next]_vars PROVE [Rule!Next]_(Rule!ruleVars)
    OBVIOUS
  <2>. USE DEF Rule!ruleVars, Rule!Next
  <2>1. ASSUME NEW s \in Spends, NEW flag \in BOOLEAN, Enter(s, flag)
        PROVE  Rule!Submit
    BY <2>1 DEF Enter, Rule!Submit, IInv, CallOutcome
  <2>2. CASE CheckPasses \/ ConstructMessage
    <3>1. pc # "done" /\ pc' # "done" /\ spend' = spend
      <4>1. CASE CheckPasses
        BY <4>1 DEF CheckPasses, NextStage, Checks
      <4>2. CASE ConstructMessage
        BY <4>2 DEF ConstructMessage
      <4>. QED
        BY <2>2, <4>1, <4>2
    <3>2. ~(pc = "done" /\ msg # NoMessage) /\ ~(pc' = "done" /\ msg' # NoMessage)
      BY <3>1
    <3>3. (pc = "done" /\ msg # NoMessage)' = (pc = "done" /\ msg # NoMessage)
      BY <3>2
    <3>. QED
      BY <3>1, <3>3
  <2>3. CASE CheckFails \/ VerifierAnswers \/ VerifierThrows
    <3>1. pc # "done" /\ pc' = "done" /\ spend' = spend
      BY <2>3 DEF CheckFails, VerifierAnswers, VerifierThrows, Checks
    <3>2. structural_checks(spend) <=> Rule!WitnessRules(spend)
      BY StructuralIsRule, SpendsAssumption DEF IInv, TypeOK
    <3>3. (pc = "done" /\ msg # NoMessage)' <=> Rule!WitnessRules(spend)
      <4>1. construct_qrs_msg(spend) # NoMessage
        BY MessageType, MessageAssumption, SpendsAssumption DEF IInv, TypeOK
      <4>. QED
        BY <3>1, <3>2, <4>1 DEF IInv, CallOutcome
    <3>4. Rule!Authorized(spend) <=>
            verify_message(VerifyKey, construct_qrs_msg(spend), spend.signature)
      BY DEF Rule!Authorized, Rule!verify_message, verify_message,
             Rule!construct_qrs_msg, construct_qrs_msg,
             Rule!modeled_leaf_hash, modeled_leaf_hash, Rule!kQrsSignatureBytes,
             kQrsSignatureBytes
    <3>5. \/ verdict' = IF Rule!WitnessRules(spend) /\ Rule!Authorized(spend)
                          THEN "accept" ELSE "reject"
          \/ Rule!WitnessRules(spend) /\ verdict' = "error"
      BY <3>1, <3>2, <3>4 DEF IInv, CallOutcome
    <3>. QED
      BY <3>1, <3>3, <3>5 DEF Rule!Decide
  <2>4. CASE UNCHANGED vars
    BY <2>4 DEF vars
  <2>. QED
    BY <2>1, <2>2, <2>3, <2>4 DEF Next
<1>. QED
  BY <1>1, <1>2, Inductive, PTL DEF Spec, RuleSpec, Rule!Spec

-----------------------------------------------------------------------------
(* Any nonempty collection of finite sets of numbers has a smallest one.   *)
LEMMA MinimalSet ==
  ASSUME NEW C \in SUBSET FiniteSubsetsOf(Nat), C # {}
  PROVE  \E T \in C : \A U \in C : U \subseteq T => U = T
<1>. DEFINE R == StrictSubsetOrdering(Nat)
<1>1. IsWellFoundedOn(R, FiniteSubsetsOf(Nat))
  BY FS_StrictSubsetOrderingWellFounded
<1>. HIDE DEF R
<1>2. PICK T \in C : \A U \in C : <<U, T>> \notin R
  BY <1>1, WFMin
<1>3. ASSUME NEW U \in C, U \subseteq T, U # T PROVE FALSE
  <2>1. <<U, T>> \in R
    BY <1>3 DEF R, StrictSubsetOrdering, FiniteSubsetsOf
  <2>. QED
    BY <1>2, <2>1
<1>. QED
  BY <1>3

(* The least number of a nonempty set.                                     *)
LEMMA Least ==
  ASSUME NEW S \in SUBSET Nat, S # {}
  PROVE  \E x \in S : \A y \in S : x <= y
<1>. DEFINE C == {1..x : x \in S}
<1>1. \A x \in S : 1..x \in FiniteSubsetsOf(Nat)
  BY FS_Interval DEF FiniteSubsetsOf
<1>2. C \in SUBSET FiniteSubsetsOf(Nat) /\ C # {}
  BY <1>1
<1>3. PICK T \in C : \A U \in C : U \subseteq T => U = T
  <2>. HIDE DEF C
  <2>. QED
    BY <1>2, MinimalSet
<1>4. PICK x \in S : T = 1..x
  OBVIOUS
<1>5. ASSUME NEW y \in S, ~(x <= y) PROVE FALSE
  <2>1. 1..y \in C /\ 1..y \subseteq T /\ x \in T /\ x \notin 1..y
    BY <1>4, <1>5
  <2>. QED
    BY <1>3, <2>1
<1>. QED
  BY <1>5

\* A table of the root after each of the first n siblings.
IsRoots(f, leaf, path, n) ==
  f = [k \in 0..n |-> IF k = 0 THEN {leaf} ELSE tap_branch(f[k - 1], path[k])]

(* There is such a table, whatever the path.                               *)
LEMMA RootsExist ==
  ASSUME NEW leaf, NEW path, NEW n \in Nat
  PROVE  \E f : IsRoots(f, leaf, path, n)
<1>. DEFINE Missing == {m \in Nat : ~(\E f : IsRoots(f, leaf, path, m))}
<1>. SUFFICES ASSUME Missing # {} PROVE FALSE
  OBVIOUS
<1>1. PICK m \in Missing : \A l \in Missing : m <= l
  <2>1. Missing \in SUBSET Nat
    OBVIOUS
  <2>. HIDE DEF Missing
  <2>. QED
    BY <2>1, Least
<1>2. CASE m = 0
  <2>. DEFINE f == [k \in 0..0 |-> {leaf}]
  <2>1. \A k \in 0..0 : k = 0
    OBVIOUS
  <2>2. IsRoots(f, leaf, path, 0)
    BY <2>1 DEF IsRoots
  <2>. QED
    BY <1>1, <1>2, <2>2
<1>3. CASE m # 0
  <2>1. m - 1 \in Nat /\ ~(m <= m - 1)
    BY <1>3
  <2>2. \E f : IsRoots(f, leaf, path, m - 1)
    BY <1>1, <2>1
  <2>3. PICK f : IsRoots(f, leaf, path, m - 1)
    BY <2>2
  <2>. DEFINE g == [k \in 0..m |-> IF k = m THEN tap_branch(f[m - 1], path[m]) ELSE f[k]]
  <2>4. \A k \in 0..(m - 1) :
          f[k] = IF k = 0 THEN {leaf} ELSE tap_branch(f[k - 1], path[k])
    BY <2>3 DEF IsRoots
  <2>5. \A k \in 0..m : g[k] = IF k = 0 THEN {leaf} ELSE tap_branch(g[k - 1], path[k])
    <3>. SUFFICES ASSUME NEW k \in 0..m
                  PROVE  g[k] = IF k = 0 THEN {leaf} ELSE tap_branch(g[k - 1], path[k])
      OBVIOUS
    <3>1. CASE k = m
      <4>1. m - 1 \in 0..m /\ m - 1 # m /\ m \in 0..m
        BY <2>1
      <4>2. g[m - 1] = f[m - 1] /\ g[m] = tap_branch(f[m - 1], path[m])
        BY <4>1
      <4>. QED
        BY <1>3, <3>1, <4>2
    <3>2. CASE k # m
      <4>1. k \in 0..(m - 1) /\ (k # 0 => k - 1 \in 0..m /\ k - 1 # m)
        BY <3>2
      <4>2. g[k] = f[k] /\ (k # 0 => g[k - 1] = f[k - 1])
        BY <3>2, <4>1
      <4>. QED
        BY <2>4, <4>1, <4>2
    <3>. QED
      BY <3>1, <3>2
  <2>6. IsRoots(g, leaf, path, m)
    BY <2>5 DEF IsRoots
  <2>. QED
    BY <1>1, <2>6
<1>. QED
  BY <1>2, <1>3

(* Each root is the branch over the one before and the next sibling.       *)
LEMMA RootsAre ==
  ASSUME NEW leaf, NEW path \in Seq(Chunks)
  PROVE  LET r == roots(leaf, path)
         IN  /\ r[0] = {leaf}
             /\ \A k \in 1..Len(path) : r[k] = {r[k - 1], path[k]}
<1>. DEFINE r == roots(leaf, path)
<1>1. r = CHOOSE f : IsRoots(f, leaf, path, Len(path))
  BY DEF roots, IsRoots
<1>2. Len(path) \in Nat
  OBVIOUS
<1>. HIDE DEF r
<1>3. IsRoots(r, leaf, path, Len(path))
  BY <1>1, <1>2, RootsExist
<1>4. \A k \in 0..Len(path) :
        r[k] = IF k = 0 THEN {leaf} ELSE tap_branch(r[k - 1], path[k])
  BY <1>3 DEF IsRoots
<1>5. 0 \in 0..Len(path) /\ \A k \in 1..Len(path) : k \in 0..Len(path) /\ k # 0
  BY <1>2
<1>6. r[0] = {leaf}
  BY <1>4, <1>5
<1>7. \A k \in 1..Len(path) : r[k] = {r[k - 1], path[k]}
  BY <1>4, <1>5 DEF tap_branch
<1>. QED
  BY <1>6, <1>7 DEF r

(* A sibling and a root do not change places.                              *)
LEMMA OneLevel ==
  ASSUME NEW r, NEW q, NEW x \in Chunks, NEW y \in Chunks, r \notin Chunks, q \notin Chunks,
         {r, x} = {q, y}
  PROVE  r = q /\ x = y
<1>1. r \in {q, y} /\ x \in {q, y}
  OBVIOUS
<1>. QED
  BY <1>1

(* Two committed leaves and paths with the same root are the same.         *)
LEMMA RootsDiffer ==
  ASSUME NEW c \in Committed, NEW d \in Committed,
         c.path \in Seq(Chunks), d.path \in Seq(Chunks),
         merkle_root(c.leaf, c.path) = merkle_root(d.leaf, d.path)
  PROVE  c.leaf = d.leaf /\ c.path = d.path
<1>. DEFINE r == roots(c.leaf, c.path)  m == Len(c.path)
            q == roots(d.leaf, d.path)  n == Len(d.path)
<1>1. /\ m \in Nat /\ n \in Nat
      /\ \A k \in 1..m : c.path[k] \in Chunks
      /\ \A k \in 1..n : d.path[k] \in Chunks
  OBVIOUS
<1>2. r[0] = {c.leaf} /\ \A k \in 1..m : r[k] = {r[k - 1], c.path[k]}
  BY RootsAre
<1>3. q[0] = {d.leaf} /\ \A k \in 1..n : q[k] = {q[k - 1], d.path[k]}
  BY RootsAre
<1>4. /\ \A k \in 0..(m - 1) : r[k] \notin Chunks
      /\ \A k \in 0..(n - 1) : q[k] \notin Chunks
  BY SiblingAssumption
<1>5. r[m] = q[n]
  BY DEF merkle_root
<1>. HIDE DEF r, m, q, n
<1>6. ASSUME NEW i \in Nat, i < m, i < n, r[m - i] = q[n - i]
      PROVE  /\ r[m - (i + 1)] = q[n - (i + 1)]
             /\ c.path[m - i] = d.path[n - i]
  <2>. DEFINE a == m - i  b == n - i
  <2>1. /\ a \in 1..m /\ a - 1 \in 0..(m - 1) /\ a - 1 = m - (i + 1)
        /\ b \in 1..n /\ b - 1 \in 0..(n - 1) /\ b - 1 = n - (i + 1)
    BY <1>1, <1>6
  <2>2. r[a] = q[b]
    BY <1>6
  <2>. HIDE DEF a, b
  <2>3. r[a] = {r[a - 1], c.path[a]} /\ q[b] = {q[b - 1], d.path[b]}
    BY <1>2, <1>3, <2>1
  <2>4. r[a - 1] \notin Chunks /\ q[b - 1] \notin Chunks
    BY <1>4, <2>1
  <2>5. c.path[a] \in Chunks /\ d.path[b] \in Chunks
    BY <1>1, <2>1
  <2>6. r[a - 1] = q[b - 1] /\ c.path[a] = d.path[b]
    <3>1. {r[a - 1], c.path[a]} = {q[b - 1], d.path[b]}
      BY <2>2, <2>3, Zenon
    <3>. QED
      BY <2>4, <2>5, <3>1, OneLevel, Zenon
  <2>. QED
    BY <2>1, <2>6 DEF a, b
<1>7. \A i \in Nat : i <= m /\ i <= n => r[m - i] = q[n - i]
  <2>. DEFINE D == {i \in Nat : i <= m /\ i <= n /\ r[m - i] # q[n - i]}
  <2>. SUFFICES ASSUME D # {} PROVE FALSE
    OBVIOUS
  <2>1. PICK i \in D : \A j \in D : i <= j
    <3>1. D \in SUBSET Nat
      OBVIOUS
    <3>. HIDE DEF D
    <3>. QED
      BY <3>1, Least
  <2>2. i # 0
    BY <1>1, <1>5, <2>1
  <2>. DEFINE j == i - 1
  <2>3. j \in Nat /\ j < m /\ j < n /\ j <= m /\ j <= n /\ ~(i <= j) /\ j + 1 = i
    BY <1>1, <2>1, <2>2
  <2>. HIDE DEF j
  <2>4. r[m - j] = q[n - j]
    BY <2>1, <2>3
  <2>5. r[m - (j + 1)] = q[n - (j + 1)]
    BY <1>6, <2>3, <2>4
  <2>. QED
    BY <2>1, <2>3, <2>5
<1>8. ~(m < n)
  <2>. SUFFICES ASSUME m < n PROVE FALSE
    OBVIOUS
  <2>. DEFINE b == n - m
  <2>1. b \in 1..n /\ b - 1 \in 0..(n - 1) /\ m - m = 0 /\ m <= n
    BY <1>1
  <2>2. r[0] = q[b]
    BY <1>1, <1>7, <2>1
  <2>. HIDE DEF b
  <2>3. {c.leaf} = {q[b - 1], d.path[b]}
    BY <1>2, <1>3, <2>1, <2>2
  <2>4. q[b - 1] = d.path[b]
    BY <2>3
  <2>. QED
    BY <1>1, <1>4, <2>1, <2>4
<1>9. ~(n < m)
  <2>. SUFFICES ASSUME n < m PROVE FALSE
    OBVIOUS
  <2>. DEFINE a == m - n
  <2>1. a \in 1..m /\ a - 1 \in 0..(m - 1) /\ n - n = 0 /\ n <= m
    BY <1>1
  <2>2. q[0] = r[a]
    BY <1>1, <1>7, <2>1
  <2>. HIDE DEF a
  <2>3. {d.leaf} = {r[a - 1], c.path[a]}
    BY <1>2, <1>3, <2>1, <2>2
  <2>4. r[a - 1] = c.path[a]
    BY <2>3
  <2>. QED
    BY <1>1, <1>4, <2>1, <2>4
<1>10. m = n
  BY <1>1, <1>8, <1>9
<1>11. c.leaf = d.leaf
  <2>1. r[m - m] = q[m - m] /\ m - m = 0
    <3>1. m \in Nat /\ m <= m /\ m <= n /\ m - m = 0
      BY <1>1, <1>10
    <3>2. r[m - m] = q[n - m]
      BY <1>7, <3>1
    <3>. QED
      BY <1>10, <3>1, <3>2
  <2>2. {c.leaf} = {d.leaf}
    BY <1>2, <1>3, <2>1
  <2>. QED
    BY <2>2
<1>12. \A k \in 1..m : c.path[k] = d.path[k]
  <2>. SUFFICES ASSUME NEW k \in 1..m PROVE c.path[k] = d.path[k]
    OBVIOUS
  <2>1. m - k \in Nat /\ m - k < m /\ m - (m - k) = k /\ m - k <= m
    BY <1>1
  <2>2. r[m - (m - k)] = q[n - (m - k)]
    BY <1>7, <1>10, <2>1
  <2>3. c.path[m - (m - k)] = d.path[n - (m - k)]
    BY <1>6, <1>10, <2>1, <2>2
  <2>. QED
    BY <1>10, <2>1, <2>3
<1>. QED
  BY <1>10, <1>11, <1>12 DEF m, n

(* Sorted branches or not, the two sides compare the same roots.           *)
LEMMA RootsAgree ==
  ASSUME NEW s \in Spends
  PROVE  RootOK(s) <=> merkle_root(s.public_key, s.control_block.path) = script_root(s)
<1>. DEFINE c == modeled_root(modeled_leaf_hash(s.public_key), s.control_block)
            d == s.expected_root
<1>1. s \in ModeledSpend
  BY SpendsAssumption
<1>2. /\ c.leaf = s.public_key /\ c.path = s.control_block.path
      /\ c.path \in Seq(Chunks) /\ d.path \in Seq(Chunks) /\ d \in Root
      /\ c = [leaf |-> s.public_key, path |-> s.control_block.path]
  BY <1>1 DEF modeled_root, modeled_leaf_hash, ModeledSpend, ControlBlock, Root
<1>3. c \in Committed /\ d \in Committed
  BY DEF Committed
<1>4. RootOK(s) <=> c = d
  BY DEF RootOK
<1>5. script_root(s) = merkle_root(d.leaf, d.path)
  BY DEF script_root
<1>6. d = [leaf |-> d.leaf, path |-> d.path]
  BY <1>2 DEF Root
<1>. HIDE DEF c, d
<1>7. merkle_root(c.leaf, c.path) = merkle_root(d.leaf, d.path)
        => c.leaf = d.leaf /\ c.path = d.path
  BY <1>2, <1>3, RootsDiffer
<1>8. c.leaf = d.leaf /\ c.path = d.path => c = d
  BY <1>2, <1>6
<1>. QED
  BY <1>2, <1>4, <1>5, <1>7, <1>8

(* The length in bytes and the low bit are judged as the native code does. *)
LEMMA LengthAgrees ==
  ASSUME NEW s \in Spends
  PROVE  LET len == control_size(s.control_block)
         IN  /\ len \in Nat /\ s.control_block.first \in 0..255
             /\ len < 1 \/ (len - 1) % 32 # 0 \/ len > 4097
                  <=> ~ControlNotEmpty(s) \/ ~ControlLengthOK(s)
             /\ s.control_block.first % 2 = 0 <=> ~LowBitOK(s)
<1>. DEFINE len == control_size(s.control_block)  b == s.control_block.first
<1>1. s.control_block \in ControlBlock
  BY SpendsAssumption DEF ModeledSpend
<1>2. len \in Nat /\ b \in 0..255
  <2>. DEFINE c == s.control_block
  <2>0. c \in [empty : BOOLEAN, first : 0..255, path : Seq(Chunks), extra : 0..31]
    BY <1>1 DEF ControlBlock
  <2>1. b \in 0..255 /\ c.extra \in 0..31 /\ c.path \in Seq(Chunks)
    <3>. HIDE DEF c, b
    <3>1. c.first \in 0..255 /\ c.extra \in 0..31 /\ c.path \in Seq(Chunks)
      BY <2>0
    <3>. QED
      BY <3>1 DEF b, c
  <2>2. Len(c.path) \in Nat
    BY <2>1
  <2>3. \A l \in Nat, e \in 0..31 : 1 + 32 * l + e \in Nat
    OBVIOUS
  <2>4. control_size(c) = IF c.empty THEN 0 ELSE 1 + 32 * Len(c.path) + c.extra
    BY DEF control_size
  <2>. HIDE DEF c
  <2>5. 1 + 32 * Len(c.path) + c.extra \in Nat
    BY <2>1, <2>2, <2>3
  <2>6. control_size(c) \in Nat
    <3>. 0 \in Nat
      OBVIOUS
    <3>. QED
      BY <2>4, <2>5, Zenon
  <2>. QED
    BY <2>1, <2>6 DEF c
<1>3. /\ ControlNotEmpty(s) <=> len # 0
      /\ ControlLengthOK(s) <=> (len - 1) % 32 = 0 /\ (len - 1) \div 32 <= 128
  BY DEF ControlNotEmpty, ControlLengthOK, kQrsMaxDepth
<1>. HIDE DEF len
<1>4. len # 0 => ((len - 1) \div 32 <= 128 /\ (len - 1) % 32 = 0
                    <=> len <= 4097 /\ (len - 1) % 32 = 0)
  <2>. SUFFICES ASSUME len # 0, (len - 1) % 32 = 0
                PROVE  (len - 1) \div 32 <= 128 <=> len <= 4097
    OBVIOUS
  <2>. DEFINE x == len - 1
  <2>1. x \in Nat /\ len = x + 1
    BY <1>2
  <2>. HIDE DEF x
  <2>2. x = 32 * (x \div 32) + (x % 32) /\ x \div 32 \in Int
    BY <2>1
  <2>3. x % 32 = 0
    BY DEF x
  <2>4. x \div 32 <= 128 <=> len <= 4097
    BY <2>1, <2>2, <2>3
  <2>. QED
    BY <2>4 DEF x
<1>5. b % 2 = 0 <=> ~LowBitOK(s)
  <2>1. b % 2 \in {0, 1}
    BY <1>2
  <2>. QED
    BY <2>1 DEF LowBitOK
<1>. QED
  BY <1>2, <1>3, <1>4, <1>5 DEF len

(* A failure the classifier names is one of the native checks that fail.   *)
LEMMA FailuresAgree ==
  ASSUME NEW s \in Spends
  PROVE  /\ FirstFailure(s) = "no_failure" <=> structural_checks(s)
         /\ FirstFailure(s) # "no_failure" =>
              \E check \in NativeCheckOf[FirstFailure(s)] : ~Passes(check, s)
<1>1. /\ RootOK(s) <=> merkle_root(s.public_key, s.control_block.path) = script_root(s)
      /\ s.control_block.first % 2 = 0 <=> ~LowBitOK(s)
  BY RootsAgree, LengthAgrees
<1>2. LET len == control_size(s.control_block)
      IN  len < 1 \/ (len - 1) % 32 # 0 \/ len > 4097
            <=> ~ControlNotEmpty(s) \/ ~ControlLengthOK(s)
  BY LengthAgrees
<1>3. /\ SignatureLengthOK(s) <=> s.signature.len = 7856
      /\ PublicKeyLengthOK(s) <=> s.public_key.len = 32
      /\ LeafVersionOK(s) <=> s.control_block.first - (s.control_block.first % 2) = 194
  BY DEF SignatureLengthOK, PublicKeyLengthOK, LeafVersionOK, kQrsSignatureBytes,
         kQrsPublicKeyBytes, kQrsLeafVersion
<1>4. FirstFailure(s) =
        IF ~SignatureLengthOK(s) THEN "signature_length"
        ELSE IF ~PublicKeyLengthOK(s) THEN "public_key_length"
        ELSE IF ~ControlNotEmpty(s) \/ ~ControlLengthOK(s) THEN "control_block_length"
        ELSE IF ~LowBitOK(s) THEN "control_low_bit"
        ELSE IF ~LeafVersionOK(s) THEN "leaf_version"
        ELSE IF ~RootOK(s) THEN "merkle_root_mismatch"
        ELSE "no_failure"
  BY <1>1, <1>2, <1>3 DEF FirstFailure
<1>5. FirstFailure(s) = "no_failure" <=> structural_checks(s)
  BY <1>4 DEF structural_checks
<1>6. ASSUME FirstFailure(s) # "no_failure"
      PROVE  \E check \in NativeCheckOf[FirstFailure(s)] : ~Passes(check, s)
  BY <1>4, <1>6 DEF NativeCheckOf, Passes
<1>. QED
  BY <1>5, <1>6

(* A vector whose expected_result is the native verdict is staged as the   *)
(* native path treats it.                                                  *)
THEOREM StagesAlwaysAgree == Spec => []StagesAgree
<1>1. IInv => StagesAgree
  <2>. SUFFICES ASSUME IInv PROVE StagesAgree
    OBVIOUS
  <2>1. spend \in Spends
    BY DEF IInv, TypeOK
  <2>2. /\ FirstFailure(spend) = "no_failure" <=> structural_checks(spend)
        /\ FirstFailure(spend) # "no_failure" =>
             \E check \in NativeCheckOf[FirstFailure(spend)] : ~Passes(check, spend)
    BY <2>1, FailuresAgree
  <2>3. StageNamesABrokenCheck
    BY <2>2 DEF StageNamesABrokenCheck
  <2>4. ASSUME pc = "done", verdict # "error", NEW stack \in Stacks
        PROVE  LET stage  == classify(stack, spend, verdict = "accept")
                   shaped == classify(stack, spend, TRUE) # "malformed_witness"
               IN  /\ stage \in CryptoStages <=> shaped /\ msg # NoMessage
                   /\ stage = "none" <=> shaped /\ verdict = "accept"
    <3>. DEFINE wellformed == witness_stack_after_annex_removal(stack)
                                = <<"qrs_signature", "qrs_public_key", "control_block">>
    <3>1. construct_qrs_msg(spend) # NoMessage
      BY <2>1, MessageType, SpendsAssumption, MessageAssumption
    <3>2. /\ structural_checks(spend) <=> msg # NoMessage
          /\ verdict \in {"accept", "reject"}
          /\ verdict = "accept" => structural_checks(spend)
      BY <2>4, <3>1 DEF IInv, CallOutcome
    <3>3. FirstFailure(spend) \in {"signature_length", "public_key_length",
            "control_block_length", "control_low_bit", "leaf_version",
            "merkle_root_mismatch", "no_failure"}
      BY DEF FirstFailure
    <3>4. \A e \in BOOLEAN : classify(stack, spend, e) =
            IF ~wellformed THEN "malformed_witness"
            ELSE IF FirstFailure(spend) # "no_failure" THEN FirstFailure(spend)
            ELSE IF e THEN "none" ELSE "slh_dsa_verify"
      BY DEF classify
    <3>. DEFINE stage == classify(stack, spend, verdict = "accept")
                full  == classify(stack, spend, TRUE)
    <3>5. /\ stage = IF ~wellformed THEN "malformed_witness"
                     ELSE IF FirstFailure(spend) # "no_failure" THEN FirstFailure(spend)
                     ELSE IF verdict = "accept" THEN "none" ELSE "slh_dsa_verify"
          /\ full # "malformed_witness" <=> wellformed
      BY <3>3, <3>4
    <3>. HIDE DEF stage, full, wellformed
    <3>6. /\ stage \in CryptoStages <=> wellformed /\ msg # NoMessage
          /\ stage = "none" <=> wellformed /\ verdict = "accept"
      BY <2>2, <3>2, <3>3, <3>5 DEF CryptoStages
    <3>. QED
      BY <3>5, <3>6 DEF stage, full
  <2>. QED
    BY <2>3, <2>4 DEF StagesAgree
<1>. QED
  BY <1>1, Inductive, PTL

-----------------------------------------------------------------------------
(* Of a single place, the member there counts.                             *)
LEMMA Single ==
  ASSUME NEW d, NEW j \in Int
  PROVE  /\ kind(d, {j}) = d[j].is
         /\ \A default : value(d, {j}, default) = d[j].val
<1>1. Min({j}) = j
  BY DEF Min
<1> QED
  BY <1>1 DEF kind, value

(* The nth of the places of an increasing table is its nth entry.          *)
LEMMA Ranked ==
  ASSUME NEW n \in Nat, NEW p \in [1..n -> Int],
         \A k, l \in 1..n : k < l => p[k] < p[l]
  PROVE  LET S == {p[k] : k \in 1..n}
         IN  Cardinality(S) = n /\ \A k \in 1..n : nth(S, k) = p[k]
<1> DEFINE S == {p[k] : k \in 1..n}
           upto(m) == {x \in S : x <= p[m]}
<1>1. \A k, l \in 1..n : p[k] <= p[l] <=> k <= l
  <2> SUFFICES ASSUME NEW k \in 1..n, NEW l \in 1..n
               PROVE  p[k] <= p[l] <=> k <= l
    OBVIOUS
  <2>1. p[k] \in Int /\ p[l] \in Int /\ k \in Int /\ l \in Int
    OBVIOUS
  <2>2. CASE k < l
    BY <2>1, <2>2
  <2>3. CASE k = l
    BY <2>1, <2>3
  <2>4. CASE l < k
    <3>1. p[l] < p[k]
      BY <2>4
    <3> QED
      BY <2>1, <2>4, <3>1
  <2> QED
    BY <2>1, <2>2, <2>3, <2>4
<1>2. \A m \in 0..n : Cardinality({p[k] : k \in 1..m}) = m
  <2> SUFFICES ASSUME NEW m \in 0..n
               PROVE  Cardinality({p[k] : k \in 1..m}) = m
    OBVIOUS
  <2> DEFINE T == {p[k] : k \in 1..m}  q == [k \in 1..m |-> p[k]]
  <2>1. \A k \in 1..m : k \in 1..n
    OBVIOUS
  <2>2. \A k, l \in 1..m : q[k] = q[l] => k = l
    <3> SUFFICES ASSUME NEW k \in 1..m, NEW l \in 1..m, q[k] = q[l]
                 PROVE  k = l
      OBVIOUS
    <3>1. p[k] = p[l] /\ p[k] \in Int /\ k \in Int /\ l \in Int
      BY <2>1
    <3>2. p[k] <= p[l] /\ p[l] <= p[k]
      BY <3>1
    <3> QED
      BY <1>1, <2>1, <3>1, <3>2
  <2>3. q \in Bijection(1..m, T)
    BY <2>2 DEF Bijection, Injection, IsInjective, Surjection
  <2>4. IsFiniteSet(1..m) /\ Cardinality(1..m) = m
    BY FS_Interval 
  <2> HIDE DEF q, T
  <2>5. Cardinality(T) = Cardinality(1..m)
    BY <2>3, <2>4, FS_Bijection DEF ExistsBijection
  <2> QED
    BY <2>4, <2>5 DEF T
<1>3. Cardinality(S) = n
  BY <1>2
<1>4. \A m \in 1..n : upto(m) = {p[k] : k \in 1..m}
  BY <1>1
<1>5. \A m \in 1..n : Cardinality(upto(m)) = m
  BY <1>2, <1>4
<1>6. ASSUME NEW k \in 1..n PROVE nth(S, k) = p[k]
  <2>1. p[k] \in S /\ Cardinality({x \in S : x <= p[k]}) = k
    BY <1>5
  <2>2. ASSUME NEW j \in S, Cardinality({x \in S : x <= j}) = k PROVE j = p[k]
    <3>1. PICK l \in 1..n : j = p[l]
      OBVIOUS
    <3>2. Cardinality({x \in S : x <= p[l]}) = l
      BY <1>5
    <3> QED
      BY <2>2, <3>1, <3>2
  <2> HIDE DEF S
  <2> QED
    BY <2>1, <2>2 DEF nth
<1> QED
  BY <1>3, <1>6

(* Where the searches for pairs look.                                      *)
Text(d, list) ==
  IF list = "spent_outputs" THEN {j \in DOMAIN d : d[j].of[1] = "spent_outputs"} ELSE DOMAIN d

Matched(d, list) == pairs(d, Text(d, list), Pair[list][1], Pair[list][2])

(* What is known of a member, and which lists there are.                   *)
LEMMA MemberFacts ==
  ASSUME NEW d, IsDocument(d)
  PROVE  /\ Len(d) \in Nat /\ DOMAIN d = 1..Len(d)
         /\ \A j \in DOMAIN d : d[j] \in Member /\ d[j].of = <<d[j].of[1], d[j].of[2]>>
                                /\ j \in Int
<1>1. d \in Seq(Member)
  BY DEF IsDocument
<1>2. Len(d) \in Nat /\ DOMAIN d = 1..Len(d)
  BY <1>1, LenProperties
<1>3. \A j \in DOMAIN d : d[j] \in Member
  BY <1>1, <1>2, ElementOfSeq
<1>4. \A o \in Objects : o = <<o[1], o[2]>>
  BY DEF Objects
<1> QED
  BY <1>2, <1>3, <1>4 DEF Member

(* A list of a document has finitely many elements, numbered from 1.       *)
LEMMA ElementsFinite ==
  ASSUME NEW d, IsDocument(d), NEW list \in DOMAIN Pair
  PROVE  /\ Cardinality(elements(d, list)) \in Nat
         /\ elements(d, list) = 1..Cardinality(elements(d, list))
<1> DEFINE S == {k \in DOMAIN d : d[k].of[1] = list}
           f == [j \in S |-> d[j].of[2]]
<1>1. f \in Surjection(S, elements(d, list))
  BY DEF Surjection, elements
<1>2. IsFiniteSet(DOMAIN d)
  BY MemberFacts, FS_Interval
<1>3. IsFiniteSet(S)
  <2> HIDE DEF f
  <2>1. S \in SUBSET (DOMAIN d)
    OBVIOUS
  <2> HIDE DEF S
  <2> QED
    BY <1>2, <2>1, FS_Subset
<1>4. Cardinality(elements(d, list)) \in Nat
  <2> HIDE DEF f, S
  <2> QED
    BY <1>1, <1>3, FS_Surjection, FS_CardinalityType 
<1>5. list \in {"inputs", "outputs", "spent_outputs"}
  BY DEF Pair
<1> QED
  BY <1>4, <1>5 DEF IsDocument

(* The place of the pair of an element.                                    *)
Place(d, list, k) ==
  CHOOSE j \in DOMAIN d : /\ {n \in DOMAIN d : d[n].of = <<list, k>>} = {j, j + 1}
                          /\ pair_at(d, j, Pair[list][1], Pair[list][2])

(* An element of a laid-out document is a pair of neighbours in the text   *)
(* that is searched, and the readers find its members there.               *)
LEMMA Placed ==
  ASSUME NEW d, IsDocument(d), LaidOut(d), NEW list \in DOMAIN Pair,
         NEW k \in elements(d, list)
  PROVE  LET j == Place(d, list, k)
         IN  /\ j \in DOMAIN d /\ j \in Int
             /\ {n \in DOMAIN d : d[n].of = <<list, k>>} = {j, j + 1}
             /\ pair_at(d, j, Pair[list][1], Pair[list][2])
             /\ get(d, <<list, k>>, Pair[list][1]) = {j}
             /\ get(d, <<list, k>>, Pair[list][2]) = {j + 1}
             /\ j \in Text(d, list) /\ j + 1 \in Text(d, list)
             /\ d[j].of = <<list, k>>
<1> DEFINE j == Place(d, list, k)
<1>1. /\ j \in DOMAIN d
      /\ {n \in DOMAIN d : d[n].of = <<list, k>>} = {j, j + 1}
      /\ pair_at(d, j, Pair[list][1], Pair[list][2])
  BY DEF LaidOut, Place
<1>2. j \in Int
  BY <1>1, MemberFacts
<1> HIDE DEF j
<1>3. Pair[list][1] # Pair[list][2]
  BY DEF Pair
<1>4. /\ j \in DOMAIN d /\ j + 1 \in DOMAIN d
      /\ d[j].of = <<list, k>> /\ d[j + 1].of = <<list, k>>
  BY <1>1
<1>5. get(d, <<list, k>>, Pair[list][1]) = {j}
  BY <1>1, <1>3, <1>4 DEF get, named, pair_at
<1>6. get(d, <<list, k>>, Pair[list][2]) = {j + 1}
  BY <1>1, <1>3, <1>4 DEF get, named, pair_at
<1>7. j \in Text(d, list) /\ j + 1 \in Text(d, list)
  BY <1>4 DEF Text
<1> QED
  BY <1>1, <1>2, <1>4, <1>5, <1>6, <1>7 DEF j

(* A pair that is found in the text of a list belongs to an element of it. *)
LEMMA OnlyPlaces ==
  ASSUME NEW d, IsDocument(d), LaidOut(d), NEW list \in DOMAIN Pair,
         NEW j \in Text(d, list), pair_at(d, j, Pair[list][1], Pair[list][2])
  PROVE  \E k \in elements(d, list) : j = Place(d, list, k)
<1>1. j \in DOMAIN d
  BY DEF Text
<1>2. d[j].of[1] = list
  <2>1. CASE list = "spent_outputs"
    BY <2>1 DEF Text
  <2>2. CASE list # "spent_outputs"
    <3>1. list \in {"inputs", "outputs"}
      BY <2>2 DEF Pair
    <3>2. j \in named(d, Pair[list][1])
      BY <1>1 DEF named, pair_at
    <3> QED
      BY <3>1, <3>2 DEF LaidOut
  <2> QED
    BY <2>1, <2>2
<1> DEFINE k == d[j].of[2]
<1>3. k \in elements(d, list) /\ d[j].of = <<list, k>>
  BY <1>1, <1>2, MemberFacts DEF elements
<1>4. j \in get(d, <<list, k>>, Pair[list][1])
  BY <1>1, <1>3 DEF get, named, pair_at
<1> HIDE DEF k
<1>5. get(d, <<list, k>>, Pair[list][1]) = {Place(d, list, k)}
  BY <1>3, Placed
<1> QED
  BY <1>3, <1>4, <1>5

(* On a laid-out document a search for pairs finds the elements of its     *)
(* list, and nothing else, in their order.                                 *)
LEMMA Listed ==
  ASSUME NEW d, IsDocument(d), LaidOut(d), NEW list \in DOMAIN Pair
  PROVE  Matched(d, list) = [k \in elements(d, list) |->
                               <<d[Place(d, list, k)], d[Place(d, list, k) + 1]>>]
<1> DEFINE n == Cardinality(elements(d, list))
           p == [k \in 1..n |-> Place(d, list, k)]
           found == {j \in Text(d, list) :
                       /\ j + 1 \in Text(d, list)
                       /\ pair_at(d, j, Pair[list][1], Pair[list][2])}
<1>1. n \in Nat /\ elements(d, list) = 1..n
  BY ElementsFinite
<1> HIDE DEF n
<1>2. p \in [1..n -> Int]
  BY <1>1, Placed
<1>3. ASSUME NEW k \in 1..n, NEW l \in 1..n, k < l PROVE p[k] < p[l]
  <2>1. p[k] \in DOMAIN d /\ p[l] \in DOMAIN d /\ p[k] \in Int /\ p[l] \in Int
    BY <1>1, Placed
  <2>2. d[p[k]].of = <<list, k>> /\ d[p[l]].of = <<list, l>>
    BY <1>1, Placed
  <2> HIDE DEF p
  <2>3. d[p[k]].of[1] = d[p[l]].of[1] /\ d[p[k]].of[2] = k /\ d[p[l]].of[2] = l
    BY <2>2
  <2>4. ~(l <= k) /\ k # l
    BY <1>3
  <2>5. ~(p[l] < p[k])
    BY <2>1, <2>3, <2>4 DEF IsDocument
  <2>6. p[k] # p[l]
    BY <2>3, <2>4
  <2> QED
    BY <2>1, <2>5, <2>6
<1>4. found = {p[k] : k \in 1..n}
  <2>1. ASSUME NEW j \in found PROVE \E k \in 1..n : j = p[k]
    BY <1>1, OnlyPlaces
  <2>2. ASSUME NEW k \in 1..n PROVE p[k] \in found
    BY <1>1, Placed
  <2> HIDE DEF p, found
  <2> QED
    BY <2>1, <2>2
<1> HIDE DEF p
<1>5. Cardinality(found) = n /\ \A k \in 1..n : nth(found, k) = p[k]
  BY <1>1, <1>2, <1>3, <1>4, Ranked
<1>6. Matched(d, list) = [k \in 1..Cardinality(found) |->
                             <<d[nth(found, k)], d[nth(found, k) + 1]>>]
  BY DEF Matched, pairs
<1> HIDE DEF found
<1>7. Matched(d, list) = [k \in 1..n |-> <<d[p[k]], d[p[k] + 1]>>]
  BY <1>5, <1>6
<1> QED
  BY <1>1, <1>7 DEF p

(* A table over the elements of a list is a sequence.                      *)
LEMMA Table ==
  ASSUME NEW n \in Nat, NEW m, m = [k \in 1..n |-> m[k]]
  PROVE  Len(m) = n /\ (m = <<>> <=> n = 0)
<1> DEFINE S == {m[k] : k \in 1..n}
<1>1. m \in [1..n -> S]
  OBVIOUS
<1> HIDE DEF S
<1>2. m \in Seq(S)
  BY <1>1, SeqDef
<1>3. Len(m) \in Nat /\ DOMAIN m = 1..Len(m) /\ DOMAIN m = 1..n
  BY <1>1, <1>2, LenProperties
<1>4. Len(m) = n
  BY <1>3
<1>5. m = <<>> <=> Len(m) = 0
  BY <1>2, EmptySeq
<1> QED
  BY <1>4, <1>5

(* What a search finds is what the elements hold.                          *)
LEMMA Found ==
  ASSUME NEW d, IsDocument(d), LaidOut(d), NEW list \in DOMAIN Pair
  PROVE  LET m == Matched(d, list)
         IN  /\ m = [k \in elements(d, list) |-> m[k]]
             /\ Len(m) = Cardinality(elements(d, list))
             /\ m = <<>> <=> elements(d, list) = {}
             /\ \A k \in elements(d, list), c \in {1, 2} :
                  LET places == get(d, <<list, k>>, Pair[list][c])
                  IN  /\ places # {}
                      /\ kind(d, places) = m[k][c].is
                      /\ \A default : value(d, places, default) = m[k][c].val
                      /\ m[k][c].key = Pair[list][c]
                      /\ Matches(m[k][c])
<1> DEFINE m == Matched(d, list)
           n == Cardinality(elements(d, list))
<1>1. m = [k \in elements(d, list) |-> <<d[Place(d, list, k)], d[Place(d, list, k) + 1]>>]
  BY Listed
<1>2. n \in Nat /\ elements(d, list) = 1..n
  BY ElementsFinite
<1> HIDE DEF m, n
<1>3. m = [k \in elements(d, list) |-> m[k]]
  BY <1>1
<1>4. Len(m) = n /\ (m = <<>> <=> n = 0)
  BY <1>2, <1>3, Table
<1>5. n = 0 <=> elements(d, list) = {}
  BY <1>2
<1>6. ASSUME NEW k \in elements(d, list)
      PROVE  LET j == Place(d, list, k)
             IN  /\ j \in Int /\ j + 1 \in Int
                 /\ get(d, <<list, k>>, Pair[list][1]) = {j}
                 /\ get(d, <<list, k>>, Pair[list][2]) = {j + 1}
                 /\ m[k][1] = d[j] /\ m[k][2] = d[j + 1]
                 /\ pair_at(d, j, Pair[list][1], Pair[list][2])
  <2> DEFINE j == Place(d, list, k)
  <2>1. m[k] = <<d[j], d[j + 1]>>
    BY <1>1
  <2>2. /\ j \in Int
        /\ get(d, <<list, k>>, Pair[list][1]) = {j}
        /\ get(d, <<list, k>>, Pair[list][2]) = {j + 1}
        /\ pair_at(d, j, Pair[list][1], Pair[list][2])
    BY Placed
  <2> HIDE DEF j
  <2>3. j + 1 \in Int /\ m[k][1] = d[j] /\ m[k][2] = d[j + 1]
    BY <2>1, <2>2
  <2> QED
    BY <2>2, <2>3 DEF j
<1>7. ASSUME NEW k \in elements(d, list), NEW c \in {1, 2}
      PROVE  LET places == get(d, <<list, k>>, Pair[list][c])
             IN  /\ places # {}
                 /\ kind(d, places) = m[k][c].is
                 /\ \A default : value(d, places, default) = m[k][c].val
                 /\ m[k][c].key = Pair[list][c]
                 /\ Matches(m[k][c])
  <2> DEFINE j == Place(d, list, k)  places == get(d, <<list, k>>, Pair[list][c])
  <2>1. /\ j \in Int /\ j + 1 \in Int
        /\ get(d, <<list, k>>, Pair[list][1]) = {j}
        /\ get(d, <<list, k>>, Pair[list][2]) = {j + 1}
        /\ m[k][1] = d[j] /\ m[k][2] = d[j + 1]
        /\ d[j].key = Pair[list][1] /\ d[j + 1].key = Pair[list][2]
        /\ Matches(d[j]) /\ Matches(d[j + 1])
    BY <1>6 DEF pair_at
  <2> HIDE DEF j
  <2>2. \E l \in Int : /\ places = {l} /\ m[k][c] = d[l]
                       /\ d[l].key = Pair[list][c] /\ Matches(d[l])
    <3>1. CASE c = 1
      BY <2>1, <3>1
    <3>2. CASE c = 2
      BY <2>1, <3>2
    <3> QED
      BY <3>1, <3>2
  <2>3. PICK l \in Int : /\ places = {l} /\ m[k][c] = d[l]
                         /\ d[l].key = Pair[list][c] /\ Matches(d[l])
    BY <2>2
  <2> HIDE DEF places
  <2>4. /\ kind(d, places) = d[l].is
        /\ \A default : value(d, places, default) = d[l].val
    BY <2>3, Single
  <2>5. /\ places # {}
        /\ kind(d, places) = m[k][c].is
        /\ \A default : value(d, places, default) = m[k][c].val
        /\ m[k][c].key = Pair[list][c]
        /\ Matches(m[k][c])
    BY <2>3, <2>4
  <2> QED
    BY <2>5 DEF places
<1> QED
  BY <1>3, <1>4, <1>5, <1>7 DEF m, n

(* The native reader finds the inputs Python reads, and the same numbers   *)
(* are too large for both; so for outputs and for spent outputs.           *)
LEMMA InputsFound ==
  ASSUME NEW d, IsDocument(d), LaidOut(d)
  PROVE  LET m == parse_inputs(d)  E == elements(d, "inputs")
         IN  /\ m = [k \in E |-> m[k]]
             /\ Len(m) = Cardinality(E)
             /\ m = <<>> <=> E = {}
             /\ \A k \in E :
                  LET prevout == get(d, <<"inputs", k>>, "prevout")
                      sequence == get(d, <<"inputs", k>>, "sequence")
                  IN  /\ kind(d, prevout) = "prevout"
                      /\ value(d, prevout, <<>>) = m[k][1].val
                      /\ value(d, sequence, <<0>>) = m[k][2].val
                      /\ Fits(m[k][1])
                      /\ Fits(m[k][2]) <=> Num(d, sequence, {"missing", "num"}, MaxU32)
<1> DEFINE m == parse_inputs(d)  E == elements(d, "inputs")
<1>0. "inputs" \in DOMAIN Pair
  BY DEF Pair
<1>1. Pair["inputs"][1] = "prevout" /\ Pair["inputs"][2] = "sequence"
  BY DEF Pair
<1>2. m = Matched(d, "inputs")
  BY <1>1 DEF parse_inputs, Matched, Text
<1>3. /\ m = [k \in E |-> m[k]]
      /\ Len(m) = Cardinality(E)
      /\ m = <<>> <=> E = {}
  BY <1>0, <1>2, Found
<1>4. ASSUME NEW k \in E
      PROVE  /\ kind(d, get(d, <<"inputs", k>>, "prevout")) = m[k][1].is
             /\ \A default :
                  value(d, get(d, <<"inputs", k>>, "prevout"), default) = m[k][1].val
             /\ m[k][1].key = "prevout" /\ Matches(m[k][1])
             /\ kind(d, get(d, <<"inputs", k>>, "sequence")) = m[k][2].is
             /\ \A default :
                  value(d, get(d, <<"inputs", k>>, "sequence"), default) = m[k][2].val
             /\ m[k][2].key = "sequence" /\ Matches(m[k][2])
  <2>1. \A c \in {1, 2} :
          LET places == get(d, <<"inputs", k>>, Pair["inputs"][c])
          IN  /\ places # {}
              /\ kind(d, places) = m[k][c].is
              /\ \A default : value(d, places, default) = m[k][c].val
              /\ m[k][c].key = Pair["inputs"][c]
              /\ Matches(m[k][c])
    <3> HIDE DEF m
    <3> QED
      BY <1>0, <1>2, Found
  <2> HIDE DEF m
  <2> QED
    BY <1>1, <2>1
<1> HIDE DEF m
<1>5. ASSUME NEW k \in E
      PROVE  LET prevout == get(d, <<"inputs", k>>, "prevout")
                 sequence == get(d, <<"inputs", k>>, "sequence")
             IN  /\ kind(d, prevout) = "prevout"
                 /\ value(d, prevout, <<>>) = m[k][1].val
                 /\ value(d, sequence, <<0>>) = m[k][2].val
                 /\ Fits(m[k][1])
                 /\ Fits(m[k][2]) <=> Num(d, sequence, {"missing", "num"}, MaxU32)
  <2>1. m[k][1].is = "prevout" /\ m[k][2].is = "num"
    <3> DEFINE j == Place(d, "inputs", k)
    <3>1. j \in DOMAIN d /\ j \in Int /\ get(d, <<"inputs", k>>, "prevout") = {j}
      BY <1>0, <1>1, Placed
    <3> HIDE DEF j
    <3>2. d[j].is # "loose"
      BY <3>1 DEF LaidOut
    <3>3. m[k][1].is = d[j].is
      BY <1>4, <3>1, Single
    <3> QED
      BY <1>4, <3>2, <3>3 DEF Matches
  <2>2. Fits(m[k][1]) /\ (Fits(m[k][2]) <=> m[k][2].val[1] <= MaxU32)
    BY <1>4, <2>1 DEF Fits
  <2> QED
    BY <1>4, <2>1, <2>2 DEF Num
<1> QED
  BY <1>3, <1>5 DEF m

(* The outputs.                                                            *)
LEMMA OutputsFound ==
  ASSUME NEW d, IsDocument(d), LaidOut(d)
  PROVE  LET m == parse_outputs(d)  E == elements(d, "outputs")
         IN  /\ m = [k \in E |-> m[k]]
             /\ Len(m) = Cardinality(E)
             /\ m = <<>> <=> E = {}
             /\ \A k \in E :
                  LET sats == get(d, <<"outputs", k>>, "value_sat")
                      script == get(d, <<"outputs", k>>, "script_pubkey")
                  IN  /\ value(d, sats, <<0>>) = m[k][1].val
                      /\ value(d, script, <<>>) = m[k][2].val
                      /\ Fits(m[k][1]) <=> Num(d, sats, {"num"}, MaxU64)
                      /\ Fits(m[k][2]) <=> kind(d, script) = "hex"
<1> DEFINE m == parse_outputs(d)  E == elements(d, "outputs")
<1>0. "outputs" \in DOMAIN Pair
  BY DEF Pair
<1>1. Pair["outputs"][1] = "value_sat" /\ Pair["outputs"][2] = "script_pubkey"
  BY DEF Pair
<1>2. m = Matched(d, "outputs")
  BY <1>1 DEF parse_outputs, Matched, Text
<1>3. /\ m = [k \in E |-> m[k]]
      /\ Len(m) = Cardinality(E)
      /\ m = <<>> <=> E = {}
  BY <1>0, <1>2, Found
<1>4. ASSUME NEW k \in E
      PROVE  /\ kind(d, get(d, <<"outputs", k>>, "value_sat")) = m[k][1].is
             /\ \A default :
                  value(d, get(d, <<"outputs", k>>, "value_sat"), default) = m[k][1].val
             /\ m[k][1].key = "value_sat" /\ Matches(m[k][1])
             /\ kind(d, get(d, <<"outputs", k>>, "script_pubkey")) = m[k][2].is
             /\ \A default :
                  value(d, get(d, <<"outputs", k>>, "script_pubkey"), default) = m[k][2].val
             /\ m[k][2].key = "script_pubkey" /\ Matches(m[k][2])
  <2>1. \A c \in {1, 2} :
          LET places == get(d, <<"outputs", k>>, Pair["outputs"][c])
          IN  /\ places # {}
              /\ kind(d, places) = m[k][c].is
              /\ \A default : value(d, places, default) = m[k][c].val
              /\ m[k][c].key = Pair["outputs"][c]
              /\ Matches(m[k][c])
    <3> HIDE DEF m
    <3> QED
      BY <1>0, <1>2, Found
  <2> HIDE DEF m
  <2> QED
    BY <1>1, <2>1
<1> HIDE DEF m
<1>5. ASSUME NEW k \in E
      PROVE  LET sats == get(d, <<"outputs", k>>, "value_sat")
                 script == get(d, <<"outputs", k>>, "script_pubkey")
             IN  /\ value(d, sats, <<0>>) = m[k][1].val
                 /\ value(d, script, <<>>) = m[k][2].val
                 /\ Fits(m[k][1]) <=> Num(d, sats, {"num"}, MaxU64)
                 /\ Fits(m[k][2]) <=> kind(d, script) = "hex"
  <2>1. m[k][1].is = "num" /\ m[k][2].is \in {"hex", "odd"}
    BY <1>4 DEF Matches
  <2>2. /\ Fits(m[k][1]) <=> m[k][1].val[1] <= MaxU64
        /\ Fits(m[k][2]) <=> m[k][2].is = "hex"
    BY <1>4, <2>1 DEF Fits
  <2> QED
    BY <1>4, <2>1, <2>2 DEF Num
<1> QED
  BY <1>3, <1>5 DEF m

(* The explicit spent outputs.                                             *)
LEMMA SpentFound ==
  ASSUME NEW d, IsDocument(d), LaidOut(d)
  PROVE  LET m == explicit_spent(d)  E == elements(d, "spent_outputs")
         IN  /\ m = [k \in E |-> m[k]]
             /\ Len(m) = Cardinality(E)
             /\ m = <<>> <=> E = {}
             /\ \A k \in E :
                  LET sats == amount_sats(d, k)
                      script == get(d, <<"spent_outputs", k>>, "script_pubkey")
                  IN  /\ value(d, sats, <<0>>) = m[k][1].val
                      /\ value(d, script, <<>>) = m[k][2].val
                      /\ Fits(m[k][1]) <=> Num(d, sats, {"missing", "num"}, MaxU64)
                      /\ Fits(m[k][2]) <=> kind(d, script) = "hex"
<1> DEFINE m == explicit_spent(d)  E == elements(d, "spent_outputs")
<1>0. "spent_outputs" \in DOMAIN Pair
  BY DEF Pair
<1>1. Pair["spent_outputs"][1] = "amount_sats" /\ Pair["spent_outputs"][2] = "script_pubkey"
  BY DEF Pair
<1>2. m = Matched(d, "spent_outputs")
  BY <1>1 DEF explicit_spent, Matched, Text
<1>3. /\ m = [k \in E |-> m[k]]
      /\ Len(m) = Cardinality(E)
      /\ m = <<>> <=> E = {}
  BY <1>0, <1>2, Found
<1>4. ASSUME NEW k \in E
      PROVE  /\ get(d, <<"spent_outputs", k>>, "amount_sats") # {}
             /\ kind(d, get(d, <<"spent_outputs", k>>, "amount_sats")) = m[k][1].is
             /\ \A default :
                  value(d, get(d, <<"spent_outputs", k>>, "amount_sats"), default) = m[k][1].val
             /\ m[k][1].key = "amount_sats" /\ Matches(m[k][1])
             /\ kind(d, get(d, <<"spent_outputs", k>>, "script_pubkey")) = m[k][2].is
             /\ \A default :
                  value(d, get(d, <<"spent_outputs", k>>, "script_pubkey"), default)
                    = m[k][2].val
             /\ m[k][2].key = "script_pubkey" /\ Matches(m[k][2])
  <2>1. \A c \in {1, 2} :
          LET places == get(d, <<"spent_outputs", k>>, Pair["spent_outputs"][c])
          IN  /\ places # {}
              /\ kind(d, places) = m[k][c].is
              /\ \A default : value(d, places, default) = m[k][c].val
              /\ m[k][c].key = Pair["spent_outputs"][c]
              /\ Matches(m[k][c])
    <3> HIDE DEF m
    <3> QED
      BY <1>0, <1>2, Found
  <2> HIDE DEF m
  <2> QED
    BY <1>1, <2>1
<1> HIDE DEF m
<1>5. ASSUME NEW k \in E
      PROVE  LET sats == amount_sats(d, k)
                 script == get(d, <<"spent_outputs", k>>, "script_pubkey")
             IN  /\ value(d, sats, <<0>>) = m[k][1].val
                 /\ value(d, script, <<>>) = m[k][2].val
                 /\ Fits(m[k][1]) <=> Num(d, sats, {"missing", "num"}, MaxU64)
                 /\ Fits(m[k][2]) <=> kind(d, script) = "hex"
  <2>1. m[k][1].is = "num" /\ m[k][2].is \in {"hex", "odd"}
    BY <1>4 DEF Matches
  <2>2. /\ Fits(m[k][1]) <=> m[k][1].val[1] <= MaxU64
        /\ Fits(m[k][2]) <=> m[k][2].is = "hex"
    BY <1>4, <2>1 DEF Fits
  <2>3. amount_sats(d, k) = get(d, <<"spent_outputs", k>>, "amount_sats")
    BY <1>4 DEF amount_sats
  <2> QED
    BY <1>4, <2>1, <2>2, <2>3 DEF Num
<1> QED
  BY <1>3, <1>5 DEF m

(* A key of one object is at one place at most.                            *)
LEMMA Unique ==
  ASSUME NEW d, IsDocument(d), NEW of, NEW name
  PROVE  get(d, of, name) = {} \/ \E j \in DOMAIN d : get(d, of, name) = {j} /\ j \in Int
<1> SUFFICES ASSUME NEW j \in get(d, of, name)
             PROVE  get(d, of, name) = {j} /\ j \in DOMAIN d /\ j \in Int
  OBVIOUS
<1>1. j \in DOMAIN d /\ d[j].of = of /\ d[j].key = name
  BY DEF get, named
<1>2. ASSUME NEW k \in get(d, of, name) PROVE k = j
  BY <1>1, <1>2 DEF IsDocument, get, named
<1>3. j \in Int
  BY <1>1, MemberFacts
<1> QED
  BY <1>1, <1>2, <1>3

(* Where the two readers look for a number they find the same one.         *)
LEMMA Numbers ==
  ASSUME NEW d, IsDocument(d), LaidOut(d)
  PROVE  /\ \A name \in {"version", "lock_time"} :
              /\ number_value(d, name) # {}
              /\ number_value(d, name) = get(d, <<"transaction", 0>>, name)
              /\ kind(d, get(d, <<"transaction", 0>>, name)) = "num"
         /\ number_value(d, "input_index") = get(d, <<"top", 0>>, "input_index")
<1>1. ASSUME NEW name \in {"version", "lock_time"}
      PROVE  /\ number_value(d, name) # {}
             /\ number_value(d, name) = get(d, <<"transaction", 0>>, name)
             /\ kind(d, get(d, <<"transaction", 0>>, name)) = "num"
  <2>1. /\ number_value(d, name) # {}
        /\ number_value(d, name) = get(d, <<"transaction", 0>>, name)
    BY DEF LaidOut
  <2>2. PICK j \in Int : get(d, <<"transaction", 0>>, name) = {j}
    BY <2>1, Unique
  <2>3. d[j].is = "num"
    BY <2>1, <2>2 DEF number_value, numbers
  <2>4. kind(d, {j}) = d[j].is
    BY Single
  <2> QED
    BY <2>1, <2>2, <2>3, <2>4
<1>2. number_value(d, "input_index") = get(d, <<"top", 0>>, "input_index")
  <2>1. /\ named(d, "input_index") = get(d, <<"top", 0>>, "input_index")
        /\ kind(d, named(d, "input_index")) \in {"missing", "num"}
    BY DEF LaidOut
  <2>2. CASE named(d, "input_index") = {}
    BY <2>1, <2>2 DEF number_value, numbers
  <2>3. CASE named(d, "input_index") # {}
    <3>1. PICK j \in Int : named(d, "input_index") = {j}
      BY <2>1, <2>3, Unique
    <3>2. kind(d, {j}) = d[j].is
      BY Single
    <3>3. j \in DOMAIN d
      BY <3>1 DEF named
    <3>4. j \in Int /\ d[j].is = "num"
      <4>1. CASE d[j].is = "num"
        BY <4>1
      <4>2. CASE d[j].is = "missing"
        <5>1. d[j] \in Member
          BY <3>3, MemberFacts
        <5> QED
          BY <4>2, <5>1 DEF Member, Kinds
      <4> QED
        BY <2>1, <3>1, <3>2, <4>1, <4>2
    <3>5. number_value(d, "input_index") = {j}
      BY <3>1, <3>4 DEF number_value, numbers
    <3> QED
      BY <2>1, <3>1, <3>5
  <2> QED
    BY <2>2, <2>3
<1> QED
  BY <1>1, <1>2

(* Keys that are read by their name alone.                                 *)
LEMMA AtTop ==
  ASSUME NEW d, LaidOut(d)
  PROVE  /\ named(d, "annex") = get(d, <<"top", 0>>, "annex")
         /\ named(d, "witness_stack") = get(d, <<"top", 0>>, "witness_stack")
         /\ named(d, "spent_output_scriptPubKey")
              = get(d, <<"top", 0>>, "spent_output_scriptPubKey")
         /\ kind(d, named(d, "spent_output_scriptPubKey")) = "hex"
         /\ kind(d, named(d, "witness_stack")) \in {"missing", "labels"}
         /\ elements(d, "spent_outputs") =
              IF named(d, "spent_outputs") = {} THEN {} ELSE elements(d, "inputs")
BY DEF LaidOut

(* The stand-in has the amount of the first output, if there is one.       *)
LEMMA Fallback ==
  ASSUME NEW d, IsDocument(d), LaidOut(d)
  PROVE  fallback_amount(d) = value(d, get(d, <<"outputs", 1>>, "value_sat"), <<0>>)
<1> DEFINE O == elements(d, "outputs")  m == parse_outputs(d)
<1>1. Cardinality(O) \in Nat /\ O = 1..Cardinality(O)
  BY ElementsFinite DEF Pair
<1>2. /\ m = [k \in O |-> m[k]]
      /\ \A k \in O : value(d, get(d, <<"outputs", k>>, "value_sat"), <<0>>) = m[k][1].val
  BY OutputsFound
<1>3. values(m) = [k \in O |-> <<m[k][1].val, m[k][2].val>>]
  BY <1>2 DEF values
<1>4. values(m) = <<>> <=> O = {}
  <2>1. values(m) = [k \in O |-> values(m)[k]]
    BY <1>3
  <2>2. Cardinality(O) = 0 <=> O = {}
    BY <1>1
  <2> HIDE DEF O, m
  <2> QED
    BY <1>1, <2>1, <2>2, Table
<1>5. CASE O = {}
  <2>1. get(d, <<"outputs", 1>>, "value_sat") = {}
    <3> SUFFICES ASSUME NEW j \in get(d, <<"outputs", 1>>, "value_sat") PROVE FALSE
      OBVIOUS
    <3>1. j \in DOMAIN d /\ d[j].of = <<"outputs", 1>>
      BY DEF get, named
    <3>2. d[j].of[1] = "outputs"
      BY <3>1
    <3> QED
      BY <1>5, <3>1, <3>2 DEF elements
  <2> QED
    BY <1>4, <1>5, <2>1 DEF fallback_amount, value
<1>6. CASE O # {}
  <2>1. 1 \in O
    BY <1>1, <1>6
  <2>2. values(m)[1][1] = m[1][1].val
    BY <1>3, <2>1
  <2> QED
    BY <1>2, <1>4, <1>6, <2>1, <2>2 DEF fallback_amount
<1> QED
  BY <1>5, <1>6

(* A spent output is the one of its input, or the stand-in for all.        *)
LEMMA SpentAlike ==
  ASSUME NEW d, IsDocument(d), LaidOut(d), elements(d, "inputs") # {}
  PROVE  /\ parse_spent_outputs(d) = spent_outputs(d)
         /\ Len(parse_spent_outputs(d)) = Len(parse_inputs(d))
<1> DEFINE I == elements(d, "inputs")
           script == value(d, get(d, <<"top", 0>>, "spent_output_scriptPubKey"), <<>>)
<1>1. Cardinality(I) \in Nat /\ I = 1..Cardinality(I)
  BY ElementsFinite DEF Pair
<1>2. Len(parse_inputs(d)) = Cardinality(I) /\ DOMAIN parse_inputs(d) = I
  BY InputsFound
<1>3. parse_spent_outputs(d) = spent_outputs(d)
  <2>1. CASE named(d, "spent_outputs") # {}
    <3>1. elements(d, "spent_outputs") = I
      BY <2>1, AtTop
    <3>2. /\ DOMAIN explicit_spent(d) = I
          /\ \A k \in I : /\ explicit_spent(d)[k][1].val = value(d, amount_sats(d, k), <<0>>)
                          /\ explicit_spent(d)[k][2].val =
                               value(d, get(d, <<"spent_outputs", k>>, "script_pubkey"), <<>>)
      BY <3>1, SpentFound
    <3>3. parse_spent_outputs(d) = values(explicit_spent(d))
      BY <2>1 DEF parse_spent_outputs
    <3>4. values(explicit_spent(d)) =
            [k \in I |-> <<value(d, amount_sats(d, k), <<0>>),
                           value(d, get(d, <<"spent_outputs", k>>, "script_pubkey"), <<>>)>>]
      BY <3>2 DEF values
    <3> QED
      BY <3>1, <3>3, <3>4 DEF spent_outputs
  <2>2. CASE named(d, "spent_outputs") = {}
    <3>1. elements(d, "spent_outputs") = {}
      BY <2>2, AtTop
    <3>2. value(d, named(d, "spent_output_scriptPubKey"), <<>>) = script
      BY AtTop
    <3>3. fallback_amount(d) = value(d, get(d, <<"outputs", 1>>, "value_sat"), <<0>>)
      BY Fallback
    <3>4. parse_spent_outputs(d) = [k \in I |-> <<fallback_amount(d), script>>]
      BY <1>2, <2>2, <3>2 DEF parse_spent_outputs
    <3> QED
      BY <3>1, <3>3, <3>4 DEF spent_outputs
  <2> QED
    BY <2>1, <2>2
<1>4. spent_outputs(d) = [k \in I |-> spent_outputs(d)[k]]
  <2>1. CASE elements(d, "spent_outputs") # {}
    <3>1. elements(d, "spent_outputs") = I
      BY <2>1, AtTop
    <3> QED
      BY <2>1, <3>1 DEF spent_outputs
  <2>2. CASE elements(d, "spent_outputs") = {}
    BY <2>2 DEF spent_outputs
  <2> QED
    BY <2>1, <2>2
<1>5. Len(spent_outputs(d)) = Cardinality(I)
  <2> HIDE DEF I
  <2> QED
    BY <1>1, <1>4, Table
<1> QED
  BY <1>2, <1>3, <1>5

(* The two readers refuse the same documents.                              *)
LEMMA ReadAlike ==
  ASSUME NEW d, IsDocument(d), LaidOut(d)
  PROVE  NativeReads(d) <=> PythonReads(d)
<1> DEFINE I == elements(d, "inputs")  O == elements(d, "outputs")
           S == elements(d, "spent_outputs")
           tx == <<"transaction", 0>>  top == <<"top", 0>>
<1>1. \A name \in {"qrs_public_key", "control_block"} :
        IsDescriptor(d, name) <=> expand_descriptor(d, name)
  BY DEF LaidOut, expand_descriptor
<1>2. named(d, "annex") = {} => 1 \notin Range(value(d, named(d, "witness_stack"), <<>>))
  BY DEF LaidOut
<1>3. kind(d, named(d, "annex")) = kind(d, get(d, top, "annex"))
  BY AtTop
<1>4. parse_inputs(d) # <<>> <=> I # {}
  BY InputsFound
<1>5. /\ DOMAIN parse_inputs(d) = I /\ DOMAIN parse_outputs(d) = O
      /\ DOMAIN explicit_spent(d) = S
  BY InputsFound, OutputsFound, SpentFound
<1>6. \A k \in I : /\ kind(d, get(d, <<"inputs", k>>, "prevout")) = "prevout"
                   /\ value(d, get(d, <<"inputs", k>>, "prevout"), <<>>)
                        = parse_inputs(d)[k][1].val
                   /\ Fits(parse_inputs(d)[k][1])
                   /\ Fits(parse_inputs(d)[k][2]) <=>
                        Num(d, get(d, <<"inputs", k>>, "sequence"), {"missing", "num"}, MaxU32)
  BY InputsFound
<1>7. \A k \in O : /\ Fits(parse_outputs(d)[k][1]) <=>
                        Num(d, get(d, <<"outputs", k>>, "value_sat"), {"num"}, MaxU64)
                   /\ Fits(parse_outputs(d)[k][2]) <=>
                        kind(d, get(d, <<"outputs", k>>, "script_pubkey")) = "hex"
  BY OutputsFound
<1>8. \A k \in S : /\ Fits(explicit_spent(d)[k][1]) <=>
                        Num(d, amount_sats(d, k), {"missing", "num"}, MaxU64)
                   /\ Fits(explicit_spent(d)[k][2]) <=>
                        kind(d, get(d, <<"spent_outputs", k>>, "script_pubkey")) = "hex"
  BY SpentFound
<1>9. \A name \in {"version", "lock_time"} :
        /\ number_value(d, name) # {}
        /\ value(d, number_value(d, name), <<0>>)[1] <= MaxU32 <=>
             Num(d, get(d, tx, name), {"missing", "num"}, MaxU32)
  BY Numbers DEF Num
<1>10. /\ value(d, number_value(d, "input_index"), <<0>>)[1] <= MaxU32
       /\ kind(d, get(d, top, "input_index")) \in {"missing", "num"}
       /\ value(d, get(d, top, "input_index"), <<0>>)[1] < Cardinality(I)
  <2>1. /\ kind(d, named(d, "input_index")) \in {"missing", "num"}
        /\ value(d, named(d, "input_index"), <<0>>)[1] <= MaxU32
        /\ value(d, named(d, "input_index"), <<0>>)[1] < Cardinality(I)
        /\ named(d, "input_index") = get(d, top, "input_index")
    BY DEF LaidOut
  <2>2. number_value(d, "input_index") = get(d, top, "input_index")
    BY Numbers
  <2> QED
    BY <2>1, <2>2
<1>11. /\ kind(d, named(d, "spent_output_scriptPubKey")) = "hex"
       /\ kind(d, get(d, top, "spent_output_scriptPubKey")) = "hex"
  BY AtTop
<1>12. I # {} => Len(parse_spent_outputs(d)) = Len(parse_inputs(d))
  BY SpentAlike
<1>13. (\A k \in DOMAIN parse_inputs(d) : IsPrevout(parse_inputs(d)[k][1].val)) <=>
       \A k \in I : /\ kind(d, get(d, <<"inputs", k>>, "prevout")) = "prevout"
                    /\ IsPrevout(value(d, get(d, <<"inputs", k>>, "prevout"), <<>>))
  BY <1>5, <1>6
<1>14. (\A matched \in {parse_inputs(d), parse_outputs(d), explicit_spent(d)} :
          \A k \in DOMAIN matched : Fits(matched[k][1]) /\ Fits(matched[k][2])) <=>
       /\ \A k \in I :
            Num(d, get(d, <<"inputs", k>>, "sequence"), {"missing", "num"}, MaxU32)
       /\ \A k \in O :
            /\ Num(d, get(d, <<"outputs", k>>, "value_sat"), {"num"}, MaxU64)
            /\ kind(d, get(d, <<"outputs", k>>, "script_pubkey")) = "hex"
       /\ \A k \in S :
            /\ Num(d, amount_sats(d, k), {"missing", "num"}, MaxU64)
            /\ kind(d, get(d, <<"spent_outputs", k>>, "script_pubkey")) = "hex"
  <2>1. (\A k \in DOMAIN parse_inputs(d) :
           Fits(parse_inputs(d)[k][1]) /\ Fits(parse_inputs(d)[k][2])) <=>
        \A k \in I : Num(d, get(d, <<"inputs", k>>, "sequence"), {"missing", "num"}, MaxU32)
    BY <1>5, <1>6
  <2>2. (\A k \in DOMAIN parse_outputs(d) :
           Fits(parse_outputs(d)[k][1]) /\ Fits(parse_outputs(d)[k][2])) <=>
        \A k \in O :
            /\ Num(d, get(d, <<"outputs", k>>, "value_sat"), {"num"}, MaxU64)
            /\ kind(d, get(d, <<"outputs", k>>, "script_pubkey")) = "hex"
    BY <1>5, <1>7
  <2>3. (\A k \in DOMAIN explicit_spent(d) :
           Fits(explicit_spent(d)[k][1]) /\ Fits(explicit_spent(d)[k][2])) <=>
        \A k \in S :
            /\ Num(d, amount_sats(d, k), {"missing", "num"}, MaxU64)
            /\ kind(d, get(d, <<"spent_outputs", k>>, "script_pubkey")) = "hex"
    BY <1>5, <1>8
  <2> HIDE DEF I, O, S
  <2> QED
    BY <2>1, <2>2, <2>3
<1> HIDE DEF O, tx, top
<1>15. NativeReads(d) <=>
         /\ expand_descriptor(d, "qrs_public_key") /\ expand_descriptor(d, "control_block")
         /\ kind(d, get(d, top, "annex")) \in {"missing", "hex"}
         /\ I # {}
         /\ \A k \in I : /\ kind(d, get(d, <<"inputs", k>>, "prevout")) = "prevout"
                         /\ IsPrevout(value(d, get(d, <<"inputs", k>>, "prevout"), <<>>))
         /\ \A k \in I :
              Num(d, get(d, <<"inputs", k>>, "sequence"), {"missing", "num"}, MaxU32)
         /\ \A k \in O :
              /\ Num(d, get(d, <<"outputs", k>>, "value_sat"), {"num"}, MaxU64)
              /\ kind(d, get(d, <<"outputs", k>>, "script_pubkey")) = "hex"
         /\ \A k \in S :
              /\ Num(d, amount_sats(d, k), {"missing", "num"}, MaxU64)
              /\ kind(d, get(d, <<"spent_outputs", k>>, "script_pubkey")) = "hex"
         /\ \A name \in {"version", "lock_time"} :
              Num(d, get(d, tx, name), {"missing", "num"}, MaxU32)
  <2>1. \A name \in {"version", "lock_time"} : number_value(d, name) # {}
    BY <1>9
  <2>2. (\A name \in {"version", "lock_time", "input_index"} :
           value(d, number_value(d, name), <<0>>)[1] <= MaxU32) <=>
        \A name \in {"version", "lock_time"} :
          Num(d, get(d, tx, name), {"missing", "num"}, MaxU32)
    BY <1>9, <1>10
  <2>3. kind(d, named(d, "spent_output_scriptPubKey")) \in
          {"missing", "hex"} \cup (IF named(d, "spent_outputs") = {} THEN {} ELSE {"odd", "text"})
    BY <1>11
  <2>4. kind(d, named(d, "witness_stack")) \in {"missing", "labels"}
    BY AtTop
  <2> HIDE DEF I, S
  <2> QED
    BY <1>1, <1>2, <1>3, <1>4, <1>12, <1>13, <1>14, <2>1, <2>2, <2>3, <2>4 DEF NativeReads
<1>16. (IF S # {}
          THEN \A k \in S :
                 /\ Num(d, amount_sats(d, k), {"missing", "num"}, MaxU64)
                 /\ kind(d, get(d, <<"spent_outputs", k>>, "script_pubkey")) = "hex"
          ELSE kind(d, get(d, top, "spent_output_scriptPubKey")) \in {"missing", "hex"}) <=>
       \A k \in S :
         /\ Num(d, amount_sats(d, k), {"missing", "num"}, MaxU64)
         /\ kind(d, get(d, <<"spent_outputs", k>>, "script_pubkey")) = "hex"
  BY <1>11
<1>17. PythonReads(d) <=>
         /\ expand_descriptor(d, "qrs_public_key") /\ expand_descriptor(d, "control_block")
         /\ kind(d, get(d, top, "annex")) \in {"missing", "hex"}
         /\ I # {}
         /\ \A k \in I : /\ kind(d, get(d, <<"inputs", k>>, "prevout")) = "prevout"
                         /\ IsPrevout(value(d, get(d, <<"inputs", k>>, "prevout"), <<>>))
         /\ \A k \in I :
              Num(d, get(d, <<"inputs", k>>, "sequence"), {"missing", "num"}, MaxU32)
         /\ \A k \in O :
              /\ Num(d, get(d, <<"outputs", k>>, "value_sat"), {"num"}, MaxU64)
              /\ kind(d, get(d, <<"outputs", k>>, "script_pubkey")) = "hex"
         /\ \A k \in S :
              /\ Num(d, amount_sats(d, k), {"missing", "num"}, MaxU64)
              /\ kind(d, get(d, <<"spent_outputs", k>>, "script_pubkey")) = "hex"
         /\ \A name \in {"version", "lock_time"} :
              Num(d, get(d, tx, name), {"missing", "num"}, MaxU32)
  BY <1>10, <1>16 DEF PythonReads, O, tx, top
<1> HIDE DEF I, S
<1> QED
  BY <1>15, <1>17

(* Of a document both read, the two readers compute the same digest.       *)
LEMMA DigestAlike ==
  ASSUME NEW d, IsDocument(d), LaidOut(d), elements(d, "inputs") # {}
  PROVE  compute_from_json(d) = compute_vector_digest(d)
<1> DEFINE I == elements(d, "inputs")  O == elements(d, "outputs")
           tx == <<"transaction", 0>>  top == <<"top", 0>>
           ins == values(parse_inputs(d))
           places == get(d, top, "witness_stack")
           stack == IF kind(d, places) = "labels" THEN value(d, places, <<>>) ELSE <<>>
<1>1. /\ value(d, number_value(d, "version"), <<0>>)
           = value(d, get(d, tx, "version"), <<0>>)
      /\ value(d, number_value(d, "lock_time"), <<0>>)
           = value(d, get(d, tx, "lock_time"), <<0>>)
      /\ value(d, number_value(d, "input_index"), <<0>>)
           = value(d, get(d, top, "input_index"), <<0>>)
  BY Numbers
<1>2. [k \in DOMAIN ins |-> <<parse_prevout(ins[k][1]), ins[k][2]>>] =
        [k \in I |-> <<parse_prevout(value(d, get(d, <<"inputs", k>>, "prevout"), <<>>)),
                       value(d, get(d, <<"inputs", k>>, "sequence"), <<0>>)>>]
  <2>1. /\ DOMAIN parse_inputs(d) = I
        /\ \A k \in I :
             /\ value(d, get(d, <<"inputs", k>>, "prevout"), <<>>)
                  = parse_inputs(d)[k][1].val
             /\ value(d, get(d, <<"inputs", k>>, "sequence"), <<0>>)
                  = parse_inputs(d)[k][2].val
    BY InputsFound
  <2>2. ins = [k \in I |-> <<parse_inputs(d)[k][1].val, parse_inputs(d)[k][2].val>>]
    BY <2>1 DEF values
  <2> HIDE DEF I, ins
  <2>3. DOMAIN ins = I
    BY <2>2
  <2>4. \A k \in I :
          /\ ins[k][1] = value(d, get(d, <<"inputs", k>>, "prevout"), <<>>)
          /\ ins[k][2] = value(d, get(d, <<"inputs", k>>, "sequence"), <<0>>)
    BY <2>1, <2>2
  <2> QED
    BY <2>3, <2>4
<1>3. values(parse_outputs(d)) =
        [k \in O |-> <<value(d, get(d, <<"outputs", k>>, "value_sat"), <<0>>),
                       value(d, get(d, <<"outputs", k>>, "script_pubkey"), <<>>)>>]
  <2>1. /\ DOMAIN parse_outputs(d) = O
        /\ \A k \in O :
             /\ value(d, get(d, <<"outputs", k>>, "value_sat"), <<0>>)
                  = parse_outputs(d)[k][1].val
             /\ value(d, get(d, <<"outputs", k>>, "script_pubkey"), <<>>)
                  = parse_outputs(d)[k][2].val
    BY OutputsFound
  <2> HIDE DEF O
  <2> QED
    BY <2>1 DEF values
<1>4. parse_spent_outputs(d) = spent_outputs(d)
  BY SpentAlike
<1>5. effective_annex(d) = IF stack # <<>> /\ stack[Len(stack)] = 1
                             THEN value(d, get(d, top, "annex"), <<>>) ELSE <<>>
  <2>1. /\ named(d, "witness_stack") = places
        /\ named(d, "annex") = get(d, top, "annex")
        /\ kind(d, places) \in {"missing", "labels"}
    BY AtTop
  <2>2. value(d, places, <<>>) = stack
    <3>1. CASE places = {}
      BY <3>1 DEF value, kind
    <3>2. CASE places # {}
      <4>1. PICK j \in DOMAIN d : places = {j} /\ j \in Int
        BY <3>2, Unique
      <4>2. kind(d, places) = d[j].is /\ d[j] \in Member
        BY <4>1, Single, MemberFacts
      <4>3. kind(d, places) # "missing"
        BY <4>2 DEF Member, Kinds
      <4> QED
        BY <2>1, <4>3
    <3> QED
      BY <3>1, <3>2
  <2> HIDE DEF places, stack
  <2> QED
    BY <2>1, <2>2 DEF effective_annex, terminal_witness_label_is_annex
<1> QED
  BY <1>1, <1>2, <1>3, <1>4, <1>5 DEF compute_from_json, compute_vector_digest

(* On a laid-out document the two readers are one model.                   *)
LEMMA Agree ==
  ASSUME NEW d, IsDocument(d), LaidOut(d)
  PROVE  /\ NativeReads(d) <=> PythonReads(d)
         /\ NativeReads(d) => compute_from_json(d) = compute_vector_digest(d)
<1>1. NativeReads(d) => elements(d, "inputs") # {}
  BY ReadAlike DEF PythonReads
<1> QED
  BY <1>1, ReadAlike, DigestAlike

(* What the script holds while it is at a vector: the document it loaded   *)
(* is one that Python reads, and what was printed is the digest of some    *)
(* document that the native program reads, edited since or not.            *)
ReadersInv ==
  /\ AreDocuments(files) /\ AreDocuments(loaded)
  /\ at \in Nat \ {0}
  /\ doing \in {"native", "compare"} =>
       at \in Paths /\ PythonReads(loaded[at]) /\ python = compute_vector_digest(loaded[at])
  /\ doing = "compare" => \E d : NativeReads(d) /\ native = compute_from_json(d)

(* No step of the script, and no edit, breaks it.                          *)
LEMMA DigestInductive ==
  ReadersInv /\ [AgreementNext]_agreementVars => ReadersInv'
<1> SUFFICES ASSUME ReadersInv, [AgreementNext]_agreementVars PROVE ReadersInv'
  OBVIOUS
<1>1. CASE EditVector
  <2>1. AreDocuments(files')
    BY <1>1, DocumentAssumption DEF ReadersInv, AreDocuments, EditVector
  <2> QED
    BY <1>1, <2>1 DEF ReadersInv, EditVector, AreDocuments
<1>2. CASE LoadVectors
  BY <1>2 DEF ReadersInv, LoadVectors, AreDocuments
<1>3. CASE ComputePython
  <2>1. at \in Paths
    BY <1>3 DEF ReadersInv, ComputePython, Paths
  <2> QED
    BY <1>3, <2>1 DEF ReadersInv, ComputePython, Exits, AreDocuments
<1>4. CASE RunNative
  BY <1>4 DEF ReadersInv, RunNative, Exits, AreDocuments
<1>5. CASE Compare
  BY <1>5 DEF ReadersInv, Compare, Exits, AreDocuments
<1>6. CASE AllPassed
  BY <1>6 DEF ReadersInv, AllPassed, Exits, AreDocuments
<1>7. CASE UNCHANGED agreementVars
  BY <1>7 DEF ReadersInv, agreementVars, AreDocuments
<1> QED
  BY <1>1, <1>2, <1>3, <1>4, <1>5, <1>6, <1>7 DEF AgreementNext

(* A member of a document is the one its key leads to in its object.       *)
LEMMA Leads ==
  ASSUME NEW d, IsDocument(d), NEW j \in DOMAIN d
  PROVE  LET places == get(d, <<d[j].of[1], d[j].of[2]>>, d[j].key)
         IN  /\ places = {j} /\ places # {}
             /\ \A default : value(d, places, default) = d[j].val
             /\ d[j].of[1] \in {"top", "transaction"} => d[j].of[2] = 0
             /\ d[j].of[2] \in elements(d, d[j].of[1])
<1> DEFINE places == get(d, <<d[j].of[1], d[j].of[2]>>, d[j].key)
<1>1. d[j] \in Member /\ d[j].of = <<d[j].of[1], d[j].of[2]>> /\ j \in Int
  BY MemberFacts
<1>2. places = get(d, d[j].of, d[j].key)
  BY <1>1
<1> HIDE DEF places
<1>3. j \in places
  BY <1>2 DEF get, named
<1>4. places = {j}
  BY <1>2, <1>3, Unique
<1>5. \A default : value(d, places, default) = d[j].val
  BY <1>1, <1>4, Single
<1>6. d[j].of[1] \in {"top", "transaction"} => d[j].of[2] = 0
  BY <1>1 DEF Member, Objects
<1>7. d[j].of[2] \in elements(d, d[j].of[1])
  BY DEF elements
<1> QED
  BY <1>4, <1>5, <1>6, <1>7 DEF places

(* The message Python computes carries every member of the document.       *)
LEMMA PythonCarries ==
  ASSUME NEW d, IsDocument(d), NEW j \in DOMAIN d
  PROVE  MemberCarried(d[j], compute_vector_digest(d).qrs_msg)
<1> DEFINE read == compute_vector_digest(d).qrs_msg
           list == d[j].of[1]  k == d[j].of[2]
           places == get(d, <<list, k>>, d[j].key)
<1>1. /\ places # {}
      /\ \A default : value(d, places, default) = d[j].val
      /\ list \in {"top", "transaction"} => k = 0
      /\ k \in elements(d, list)
  BY Leads
<1>2. /\ read.version = value(d, get(d, <<"transaction", 0>>, "version"), <<0>>)
      /\ read.lock_time = value(d, get(d, <<"transaction", 0>>, "lock_time"), <<0>>)
      /\ read.input_index = value(d, get(d, <<"top", 0>>, "input_index"), <<0>>)
      /\ read.spent = spent_outputs(d)
      /\ \A l \in elements(d, "inputs") :
           /\ read.inputs[l][1]
                = parse_prevout(value(d, get(d, <<"inputs", l>>, "prevout"), <<>>))
           /\ read.inputs[l][2] = value(d, get(d, <<"inputs", l>>, "sequence"), <<0>>)
      /\ \A l \in elements(d, "outputs") :
           /\ read.outputs[l][1] = value(d, get(d, <<"outputs", l>>, "value_sat"), <<0>>)
           /\ read.outputs[l][2] = value(d, get(d, <<"outputs", l>>, "script_pubkey"), <<>>)
  BY DEF compute_vector_digest
<1> HIDE DEF read
<1>3. list = "spent_outputs" /\ d[j].key = "amount_sats" => read.spent[k][1] = d[j].val
  <2> SUFFICES ASSUME list = "spent_outputs", d[j].key = "amount_sats"
               PROVE  read.spent[k][1] = d[j].val
    OBVIOUS
  <2>1. amount_sats(d, k) = places
    BY <1>1 DEF amount_sats
  <2> HIDE DEF places
  <2>2. spent_outputs(d)[k][1] = value(d, amount_sats(d, k), <<0>>)
    BY <1>1 DEF spent_outputs
  <2> QED
    BY <1>1, <1>2, <2>1, <2>2
<1>4. list = "spent_outputs" /\ d[j].key = "script_pubkey" => read.spent[k][2] = d[j].val
  <2> SUFFICES ASSUME list = "spent_outputs", d[j].key = "script_pubkey"
               PROVE  read.spent[k][2] = d[j].val
    OBVIOUS
  <2>1. spent_outputs(d)[k][2] = value(d, places, <<>>)
    BY <1>1 DEF spent_outputs
  <2> HIDE DEF places
  <2> QED
    BY <1>1, <1>2, <2>1
<1>5. list = "inputs" /\ d[j].key = "prevout" => read.inputs[k][1] = parse_prevout(d[j].val)
  BY <1>1, <1>2
<1>6. list = "inputs" /\ d[j].key = "sequence" => read.inputs[k][2] = d[j].val
  BY <1>1, <1>2
<1>7. /\ list = "outputs" /\ d[j].key = "value_sat" => read.outputs[k][1] = d[j].val
      /\ list = "outputs" /\ d[j].key = "script_pubkey" => read.outputs[k][2] = d[j].val
  BY <1>1, <1>2
<1>8. /\ list = "transaction" /\ d[j].key = "version" => read.version = d[j].val
      /\ list = "transaction" /\ d[j].key = "lock_time" => read.lock_time = d[j].val
      /\ list = "top" /\ d[j].key = "input_index" => read.input_index = d[j].val
  BY <1>1, <1>2
<1> HIDE DEF list, k, places
<1> QED
  BY <1>3, <1>4, <1>5, <1>6, <1>7, <1>8 DEF MemberCarried, read, list, k

(* If the digests agree, what the native program printed is the whole of   *)
(* what was loaded.                                                        *)
LEMMA SameIsComplete ==
  ASSUME NEW d, IsDocument(d), PythonReads(d),
         NEW e, NativeReads(e),
         compute_vector_digest(d).qrs_msg = compute_from_json(e).qrs_msg
  PROVE  Carries(d, compute_from_json(e).qrs_msg)
<1> DEFINE read == compute_from_json(e).qrs_msg
           I == elements(d, "inputs")  O == elements(d, "outputs")
           S == elements(d, "spent_outputs")  m == parse_inputs(e)
           index == value(d, get(d, <<"top", 0>>, "input_index"), <<0>>)
           standIn == <<value(d, get(d, <<"outputs", 1>>, "value_sat"), <<0>>),
                        value(d, get(d, <<"top", 0>>, "spent_output_scriptPubKey"), <<>>)>>
<1>1. /\ read.inputs = [k \in I |-> read.inputs[k]]
      /\ read.outputs = [k \in O |-> read.outputs[k]]
      /\ read.spent = spent_outputs(d)
      /\ read.input_index = index
      /\ \A j \in DOMAIN d : MemberCarried(d[j], read)
  <2>1. read = compute_vector_digest(d).qrs_msg
    OBVIOUS
  <2> HIDE DEF read
  <2>2. \A j \in DOMAIN d : MemberCarried(d[j], read)
    BY <2>1, PythonCarries
  <2> QED
    BY <2>1, <2>2 DEF compute_vector_digest
<1>2. /\ Len(read.spent) = Len(m)
      /\ DOMAIN read.inputs = DOMAIN m
  BY DEF NativeReads, compute_from_json, values
<1>3. m = [k \in DOMAIN m |-> m[k]]
  BY DEF parse_inputs, pairs
<1>4. /\ Cardinality(I) \in Nat /\ I = 1..Cardinality(I)
      /\ Cardinality(S) \in Nat /\ S = 1..Cardinality(S)
  BY ElementsFinite DEF Pair
<1>5. index[1] < Cardinality(I)
  BY DEF PythonReads
<1>6. /\ spent_outputs(d) = [k \in IF S # {} THEN S ELSE I |-> spent_outputs(d)[k]]
      /\ S = {} => \A k \in I : spent_outputs(d)[k] = standIn
  BY DEF spent_outputs
<1> HIDE DEF read, m, I, O, S, index, standIn
<1>7. DOMAIN m = I
  BY <1>1, <1>2
<1>8. Len(m) = Cardinality(I)
  BY <1>3, <1>4, <1>7, Table
<1>9. S \in {{}, I} /\ DOMAIN read.spent = I
  <2>1. CASE S = {}
    BY <1>1, <1>6, <2>1
  <2>2. CASE S # {}
    <3>1. spent_outputs(d) = [k \in S |-> spent_outputs(d)[k]]
      BY <1>6, <2>2
    <3>2. Len(spent_outputs(d)) = Cardinality(S)
      BY <1>4, <3>1, Table
    <3>3. S = I
      BY <1>1, <1>2, <1>4, <1>8, <3>2
    <3> QED
      BY <1>1, <3>1, <3>3
  <2> QED
    BY <2>1, <2>2
<1>10. DOMAIN read.inputs = I /\ DOMAIN read.outputs = O
  BY <1>1
<1>11. /\ read.input_index[1] < Cardinality(I)
       /\ S = {} => \A k \in I : read.spent[k] = standIn
  BY <1>1, <1>5, <1>6
<1> QED
  BY <1>1, <1>9, <1>10, <1>11 DEF Carries, read, I, O, S, standIn

(* On every file in the layout of the vectors, the ones an edit makes      *)
(* included, the two readers refuse alike and compute the same digest:     *)
(* parse_inputs, parse_outputs and parse_spent_outputs, which search the   *)
(* text, read what compute_qrs_digest_model.py reads from the document.    *)
THEOREM ReadersAgree == AgreementSpec => []LaidOutAgree
<1>1. AgreementInit => ReadersInv
  BY SizeAssumption, DocumentAssumption DEF AgreementInit, ReadersInv
<1>2. ReadersInv /\ [AgreementNext]_agreementVars => ReadersInv'
  BY DigestInductive
<1>3. ReadersInv => LaidOutAgree
  BY Agree DEF ReadersInv, AreDocuments, LaidOutAgree
<1> QED
  BY <1>1, <1>2, <1>3, PTL DEF AgreementSpec

(* When check_qrs_digest_agreement.py passes a vector, what the native     *)
(* program committed to carries the document the script loaded, every      *)
(* member at its place, whatever the layout of the file and even if it was *)
(* edited in between.                                                      *)
THEOREM PassedWhole == AgreementSpec => PassedIsComplete
<1>1. AgreementInit => ReadersInv
  BY SizeAssumption, DocumentAssumption DEF AgreementInit, ReadersInv
<1>2. ReadersInv /\ [AgreementNext]_agreementVars => ReadersInv'
  BY DigestInductive
<1>3. ReadersInv /\ [AgreementNext]_agreementVars =>
        [at' > at => Carries(loaded[at], native.qrs_msg)]_agreementVars
  <2> SUFFICES ASSUME ReadersInv, AgreementNext, at' > at
               PROVE  Carries(loaded[at], native.qrs_msg)
    OBVIOUS
  <2>1. doing = "compare" /\ same_fields(python, native)
    BY DEF ReadersInv, AgreementNext, EditVector, LoadVectors, ComputePython, RunNative,
           Compare, AllPassed
  <2>2. PICK e : NativeReads(e) /\ native = compute_from_json(e)
    BY <2>1 DEF ReadersInv
  <2>3. IsDocument(loaded[at]) /\ PythonReads(loaded[at])
    BY <2>1 DEF ReadersInv, AreDocuments
  <2>4. compute_vector_digest(loaded[at]).qrs_msg = compute_from_json(e).qrs_msg
    BY <2>1, <2>2 DEF ReadersInv, same_fields
  <2>5. Carries(loaded[at], compute_from_json(e).qrs_msg)
    BY <2>2, <2>3, <2>4, SameIsComplete
  <2> QED
    BY <2>2, <2>5
<1> QED
  BY <1>1, <1>2, <1>3, PTL DEF AgreementSpec, PassedIsComplete

=============================================================================
