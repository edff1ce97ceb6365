---------------------------- MODULE QrsValidation ----------------------------
(***************************************************************************)
(* modeled_validation_path of core_validation_model.cpp: the early returns *)
(* of structural_checks one by one, then the message, then the SLH-DSA     *)
(* verifier.  One validation follows another; the caller may pass a flag   *)
(* that tells whether the verifier was reached, and the flag object keeps  *)
(* its value from one call to the next.                                    *)
(***************************************************************************)
EXTENDS QrsSpend

CONSTANTS
  Spends,     \* the spends the callers submit
  VerifyKey,  \* the EVP_PKEY argument of modeled_validation_path
  NoMessage   \* no message has been constructed in this call

ASSUME SpendsAssumption == Spends \subseteq ModeledSpend
ASSUME KeyAssumption    == VerifyKey \in Keys
ASSUME MessageAssumption == NoMessage \notin Message

VARIABLES
  pc,               \* the check about to run, "message", "verify" or "done"
  spend,            \* the spend under validation
  tracked,          \* was a verifier_called pointer passed?
  verifier_called,  \* the caller's flag
  msg,              \* the message construct_qrs_msg returned
  verdict           \* "none" while running, else what the call returned

vars == <<pc, spend, tracked, verifier_called, msg, verdict>>

Checks == {"signature_length", "public_key_length", "control_empty",
           "control_length", "leaf_version", "low_bit", "root"}

NextStage ==
  [signature_length |-> "public_key_length", public_key_length |-> "control_empty",
   control_empty |-> "control_length", control_length |-> "leaf_version",
   leaf_version |-> "low_bit", low_bit |-> "root", root |-> "message"]

Passes(stage, s) ==
  \/ stage = "signature_length"  /\ SignatureLengthOK(s)
  \/ stage = "public_key_length" /\ PublicKeyLengthOK(s)
  \/ stage = "control_empty"     /\ ControlNotEmpty(s)
  \/ stage = "control_length"    /\ ControlLengthOK(s)
  \/ stage = "leaf_version"      /\ LeafVersionOK(s)
  \/ stage = "low_bit"           /\ LowBitOK(s)
  \/ stage = "root"              /\ RootOK(s)

Init ==
  /\ pc = "signature_length"
  /\ spend \in Spends
  /\ tracked \in BOOLEAN
  /\ verifier_called = FALSE
  /\ msg = NoMessage
  /\ verdict = "none"

-----------------------------------------------------------------------------
\* Mutant: the flag keeps what the previous call left in it.
EnterKeepingFlag(s, flag) ==
  /\ pc = "done"
  /\ pc' = "signature_length"
  /\ spend' = s
  /\ tracked' = flag
  /\ msg' = NoMessage
  /\ verdict' = "none"
  /\ UNCHANGED verifier_called

(* A caller enters modeled_validation_path with another spend, with or     *)
(* without a pointer to its flag.                                          *)
Enter(s, flag) ==
  /\ pc = "done"
  /\ pc' = "signature_length"
  /\ spend' = s
  /\ tracked' = flag
  /\ verifier_called' = IF flag THEN FALSE ELSE verifier_called
  /\ msg' = NoMessage
  /\ verdict' = "none"

\* Mutant: the version byte is masked in place, not in a copy.
CheckPassesMasking ==
  /\ pc \in Checks /\ Passes(pc, spend)
  /\ pc' = NextStage[pc]
  /\ spend' = IF pc = "leaf_version" THEN [spend EXCEPT !.control_block.first = @ - (@ % 2)]
                                     ELSE spend
  /\ UNCHANGED <<tracked, verifier_called, msg, verdict>>

(* A structural check that holds falls through to the next statement.      *)
CheckPasses ==
  /\ pc \in Checks
  /\ Passes(pc, spend)
  /\ pc' = NextStage[pc]
  /\ UNCHANGED <<spend, tracked, verifier_called, msg, verdict>>

(* A structural check that fails returns false from both functions.        *)
CheckFails ==
  /\ pc \in Checks
  /\ ~Passes(pc, spend)
  /\ pc' = "done"
  /\ verdict' = "reject"
  /\ UNCHANGED <<spend, tracked, verifier_called, msg>>

ConstructMessage ==
  /\ pc = "message"
  /\ msg' = construct_qrs_msg(spend)
  /\ verifier_called' = IF tracked THEN TRUE ELSE verifier_called
  /\ pc' = "verify"
  /\ UNCHANGED <<spend, tracked, verdict>>

(* EVP_DigestVerify answers: the verdict is rc == 1.                       *)
VerifierAnswers ==
  /\ pc = "verify"
  /\ verdict' = IF verify_message(VerifyKey, msg, spend.signature)
                  THEN "accept" ELSE "reject"
  /\ pc' = "done"
  /\ UNCHANGED <<spend, tracked, verifier_called, msg>>

\* Mutant: a verifier that throws is called again, without a bound.
VerifierRetried ==
  /\ pc = "verify"
  /\ pc' = "message"
  /\ UNCHANGED <<spend, tracked, verifier_called, msg, verdict>>

(* Context creation, initialisation or the call itself fails (rc < 0): the *)
(* exception leaves modeled_validation_path.                               *)
VerifierThrows ==
  /\ pc = "verify"
  /\ verdict' = "error"
  /\ pc' = "done"
  /\ UNCHANGED <<spend, tracked, verifier_called, msg>>

Next ==
  \/ \E s \in Spends, flag \in BOOLEAN : Enter(s, flag)
  \/ CheckPasses
  \/ CheckFails
  \/ ConstructMessage
  \/ VerifierAnswers
  \/ VerifierThrows

(* The call runs on one thread without blocking, so it returns; nothing    *)
(* obliges a caller to submit another spend.                               *)
Fairness ==
  WF_vars(CheckPasses \/ CheckFails \/ ConstructMessage
            \/ VerifierAnswers \/ VerifierThrows)

Spec == Init /\ [][Next]_vars /\ Fairness

-----------------------------------------------------------------------------
TypeOK ==
  /\ pc \in Checks \cup {"message", "verify", "done"}
  /\ spend \in Spends
  /\ tracked \in BOOLEAN
  /\ verifier_called \in BOOLEAN
  /\ msg \in Message \cup {NoMessage}
  /\ verdict \in {"none", "accept", "reject", "error"}

(* The verifier sees only spends that passed every structural check, and   *)
(* the flag a caller passes tells exactly that: after a tracked call it is *)
(* set iff the checks passed, whatever an earlier call left in it.         *)
VerifierReachedIffStructural ==
  /\ pc = "verify" => structural_checks(spend)
  /\ (pc = "done" /\ tracked) => (verifier_called <=> structural_checks(spend))

(* The first byte of the control block is read, and its length taken minus *)
(* one, only when it has a byte; siblings are read only when they are      *)
(* whole and at most kQrsMaxDepth.                                         *)
ControlReadsInBounds ==
  /\ pc \in {"control_length", "leaf_version", "low_bit"} =>
       ~spend.control_block.empty
  /\ pc \in {"root", "message", "verify"} =>
       /\ spend.control_block.extra = 0
       /\ Len(spend.control_block.path) <= kQrsMaxDepth

(* What each program point knows: the checks already behind it hold, and   *)
(* the message, the flag and the verdict are those the path so far gives.  *)
PassedSoFar ==
  /\ pc \notin {"signature_length", "done"} => SignatureLengthOK(spend)
  /\ pc \notin {"signature_length", "public_key_length", "done"} =>
       PublicKeyLengthOK(spend)
  /\ pc \in {"control_length", "leaf_version", "low_bit", "root", "message", "verify"} =>
       ControlNotEmpty(spend)
  /\ pc \in {"leaf_version", "low_bit", "root", "message", "verify"} =>
       ControlLengthOK(spend)
  /\ pc \in {"low_bit", "root", "message", "verify"} => LeafVersionOK(spend)
  /\ pc \in {"root", "message", "verify"} => LowBitOK(spend)
  /\ pc \in {"message", "verify"} => RootOK(spend)

CallOutcome ==
  /\ pc # "done" => verdict = "none"
  /\ pc \in Checks \cup {"message"} =>
       msg = NoMessage /\ (tracked => ~verifier_called)
  /\ pc = "verify" => msg = construct_qrs_msg(spend) /\ (tracked => verifier_called)
  /\ pc = "done" =>
       \/ /\ ~structural_checks(spend)
          /\ verdict = "reject"
          /\ msg = NoMessage
          /\ tracked => ~verifier_called
       \/ /\ structural_checks(spend)
          /\ msg = construct_qrs_msg(spend)
          /\ tracked => verifier_called
          /\ verdict \in {"error", IF verify_message(VerifyKey, msg, spend.signature)
                                     THEN "accept" ELSE "reject"}

IInv == TypeOK /\ PassedSoFar /\ CallOutcome

(* A signature taken from one spend of an output is accepted on no other   *)
(* spend of that output: key, path, version byte and annex are all bound,  *)
(* although the message only concatenates control block and annex.  What   *)
(* tells siblings from annex bytes is the root.                            *)
OutputBinding ==
  (pc = "done" /\ verdict = "accept") =>
     \A h \in Spends :
        (/\ structural_checks(h)
         /\ verify_message(VerifyKey, construct_qrs_msg(h), h.signature)
         /\ h.signature = spend.signature
         /\ h.expected_root = spend.expected_root) =>
           /\ h.public_key = spend.public_key
           /\ h.annex = spend.annex
           /\ h.control_block.path = spend.control_block.path
           /\ h.control_block.first = spend.control_block.first

(* Every validation returns, with a verdict or an exception.               *)
Returns == pc # "done" ~> pc = "done"

(* A validation is one Decide step of the rule, at the moment it returns;  *)
(* the rule's reached is that the call constructed its message.            *)
Rule == INSTANCE QrsRule WITH
  submitted <- spend,
  decision  <- IF pc = "done" THEN verdict ELSE "pending",
  reached   <- pc = "done" /\ msg # NoMessage

(* The early returns decide exactly as the rule does, for every spend, and *)
(* an exception comes only from a spend that reached the verifier.         *)
RuleSpec == Rule!Spec

=============================================================================
