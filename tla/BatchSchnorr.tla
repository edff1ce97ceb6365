---------------------------- MODULE BatchSchnorr ----------------------------
(***************************************************************************)
(* The experimental batch verifier of BIP-340 signatures, one context of   *)
(* it: creation with allocations that may fail, any number of              *)
(* verifications that reuse the context's buffers, destruction.            *)
(*                                                                         *)
(* The group is the integers modulo the prime Order with generator 1, so a *)
(* point is its discrete logarithm.  A point and its negative share their  *)
(* x coordinate; the coordinate is written as the one of them, in          *)
(* 1..Order \div 2, that lifting returns, and 0 stands for a coordinate    *)
(* that is out of range or on no point.  A scalar Order is one that        *)
(* overflows.                                                              *)
(***************************************************************************)
EXTENDS Integers, Sequences, FiniteSets, FiniteSetsExt

CONSTANTS
  Order,            \* the prime group order
  Messages,         \* signed messages
  Challenge,        \* the BIP0340/challenge hash: [XCoords \X Messages \X XCoords -> Scalars]
  Batches,          \* the batches verification is called with
  Capacities,       \* the capacities contexts are created with
  SizeMax,          \* (size_t)-1
  ScratchBase,      \* 1024 * 1024
  ScratchPerInput   \* 768

XCoords == 0..(Order \div 2)
Scalars == 0..(Order - 1)
Input   == [r : XCoords, s : 0..Order, msg : Messages, pk : XCoords]

ASSUME OrderAssumption ==
  /\ Order \in Nat /\ Order > 2
  /\ \A d \in 2..(Order - 1) : Order % d # 0
ASSUME ChallengeAssumption == Challenge \in [XCoords \X Messages \X XCoords -> Scalars]
ASSUME BatchAssumption ==
  \A batch \in Batches : batch \in Seq(Input)
ASSUME SizeAssumption ==
  /\ {SizeMax, ScratchBase, ScratchPerInput} \subseteq Nat \ {0}
  /\ ScratchBase < SizeMax
  /\ Capacities \subseteq 0..SizeMax

VARIABLES
  pc,            \* "idle", "create", "create_check", "loop" or "aborted"
  heap,          \* the blocks that are allocated
  ctx,           \* the context the caller holds: its capacity, 0 for NULL
  scratch_size,  \* bytes asked for the scratch space
  g_scalar,      \* ctx->g_scalar
  scalars,       \* ctx->scalars
  points,        \* ctx->points
  batch,         \* the inputs of the running or last verification
  coefficients,  \* what the coefficient hashes of this batch come to
  i,             \* loop counter, 0 outside the loop
  verdict        \* what the last verification returned, -1 before

vars == <<pc, heap, ctx, scratch_size, g_scalar, scalars, points, batch, coefficients,
          i, verdict>>

Blocks == {"ctx", "scalars", "points", "scratch"}

-----------------------------------------------------------------------------
Init ==
  /\ pc = "idle"
  /\ heap = {}
  /\ ctx = 0
  /\ scratch_size = 0
  /\ g_scalar = 0
  /\ scalars = <<>>
  /\ points = <<>>
  /\ batch = <<>>
  /\ coefficients = <<>>
  /\ i = 0
  /\ verdict = -1

\* Mutant: the scratch size is not looked at.
CapacityDoubles(capacity) == capacity # 0 /\ capacity <= SizeMax \div 2

CapacityAccepted(capacity) ==
  /\ capacity # 0
  /\ capacity <= SizeMax \div 2
  /\ capacity <= (SizeMax - ScratchBase) \div ScratchPerInput

ScratchSize(capacity) == (ScratchBase + capacity * ScratchPerInput) % (SizeMax + 1)

(* qrs_exp_bip340_batch_context_create: a refused capacity returns NULL,   *)
(* as does a failing calloc of the context itself.                         *)
CreateRefused ==
  /\ pc = "idle" /\ ctx = 0
  /\ \E capacity \in Capacities, allocated \in BOOLEAN :
       ~CapacityAccepted(capacity) \/ ~allocated
  /\ UNCHANGED vars

CreateContext ==
  /\ pc = "idle" /\ ctx = 0
  /\ \E capacity \in Capacities :
       /\ CapacityAccepted(capacity)
       /\ ctx' = capacity
       /\ scalars' = [k \in 0..(2 * capacity - 1) |-> 0]
       /\ points' = [k \in 0..(2 * capacity - 1) |-> 0]
  /\ heap' = {"ctx"}
  /\ g_scalar' = 0
  /\ pc' = "create"
  /\ UNCHANGED <<scratch_size, batch, coefficients, i, verdict>>

(* The three buffers are asked for whether or not an earlier one failed.   *)
(* The library never returns NULL for the scratch space ...                *)
CreateBuffers ==
  /\ pc = "create"
  /\ \E got \in SUBSET {"scalars", "points"} : heap' = heap \cup got \cup {"scratch"}
  /\ scratch_size' = ScratchSize(ctx)
  /\ pc' = "create_check"
  /\ UNCHANGED <<ctx, g_scalar, scalars, points, batch, coefficients, i, verdict>>

(* ... its default error callback aborts the process.                      *)
ScratchAborts ==
  /\ pc = "create"
  /\ pc' = "aborted"
  /\ UNCHANGED <<heap, ctx, scratch_size, g_scalar, scalars, points, batch, coefficients, i,
                 verdict>>

\* What qrs_exp_bip340_batch_context_destroy gives back.
Destroyed(blocks) ==
  blocks \ ((IF "scratch" \in blocks THEN {"scratch"} ELSE {})
              \cup {"points", "scalars", "ctx"})

CreateReturns ==
  /\ pc = "create_check"
  /\ IF {"scalars", "points", "scratch"} \subseteq heap
       THEN UNCHANGED <<heap, ctx>>
       ELSE heap' = Destroyed(heap) /\ ctx' = 0
  /\ pc' = "idle"
  /\ UNCHANGED <<scratch_size, g_scalar, scalars, points, batch, coefficients, i, verdict>>

Destroy ==
  /\ pc = "idle" /\ ctx # 0
  /\ heap' = Destroyed(heap)
  /\ ctx' = 0
  /\ UNCHANGED <<pc, scratch_size, g_scalar, scalars, points, batch, coefficients, i, verdict>>

-----------------------------------------------------------------------------
n == Len(batch)

lifts(x)  == x # 0
Parses(x) == lifts(x.r) /\ x.s < Order /\ lifts(x.pk)

negate(x) == (Order - x) % Order

\* Mutant: a zero coefficient is used as it is.
coefficient_zero(k) == IF k = 0 THEN 1 ELSE coefficients[k]

\* a_0 is one; a coefficient hash that comes to zero is replaced by one.
coefficient(k) ==
  IF k = 0 \/ coefficients[k] = 0 THEN 1 ELSE coefficients[k]

(* A NULL context, an empty batch or one beyond the capacity is refused.   *)
VerifyRefused(b) ==
  /\ pc = "idle"
  /\ ctx = 0 \/ Len(b) = 0 \/ Len(b) > ctx
  /\ batch' = b
  /\ coefficients' = <<>>
  /\ verdict' = 0
  /\ UNCHANGED <<pc, heap, ctx, scratch_size, g_scalar, scalars, points, i>>

\* Mutant: the context's generator scalar is not reset.
VerifyStartsDirty(b) ==
  /\ pc = "idle"
  /\ ctx # 0 /\ Len(b) \in 1..ctx
  /\ batch' = b
  /\ coefficients' \in [1..(Len(b) - 1) -> Scalars]
  /\ i' = 0
  /\ pc' = "loop"
  /\ UNCHANGED <<heap, ctx, scratch_size, g_scalar, scalars, points, verdict>>

(* The seed is hashed over all inputs before the loop, so every            *)
(* coefficient is settled here; a hash may be any scalar.                  *)
VerifyStarts(b) ==
  /\ pc = "idle"
  /\ ctx # 0 /\ Len(b) \in 1..ctx
  /\ batch' = b
  /\ coefficients' \in [1..(Len(b) - 1) -> Scalars]
  /\ g_scalar' = 0
  /\ i' = 0
  /\ pc' = "loop"
  /\ UNCHANGED <<heap, ctx, scratch_size, scalars, points, verdict>>

\* Mutant: an input that does not parse starts the loop over.
ParseRestarts ==
  /\ pc = "loop" /\ i < n
  /\ ~Parses(batch[i + 1])
  /\ i' = 0
  /\ UNCHANGED <<pc, heap, ctx, scratch_size, g_scalar, scalars, points, batch, coefficients,
                 verdict>>

(* An input that does not parse ends the verification in mid-loop, the     *)
(* buffers as they are.                                                    *)
ParseFails ==
  /\ pc = "loop" /\ i < n
  /\ ~Parses(batch[i + 1])
  /\ verdict' = 0
  /\ pc' = "idle"
  /\ i' = 0
  /\ UNCHANGED <<heap, ctx, scratch_size, g_scalar, scalars, points, batch, coefficients>>

\* Mutant: the entries of neighbours overlap.
AddInputOverlapping ==
  /\ pc = "loop" /\ i < n
  /\ Parses(batch[i + 1])
  /\ LET x == batch[i + 1]
         a == coefficient(i)
         e == Challenge[<<x.r, x.msg, x.pk>>]
     IN  /\ g_scalar' = (g_scalar + a * x.s) % Order
         /\ points'  = [points EXCEPT ![i] = x.r, ![i + 1] = x.pk]
         /\ scalars' = [scalars EXCEPT ![i] = negate(a), ![i + 1] = negate((a * e) % Order)]
  /\ i' = i + 1
  /\ UNCHANGED <<pc, heap, ctx, scratch_size, batch, coefficients, verdict>>

\* Mutant: the generator's scalar is accumulated as an integer.
AddInputUnreduced ==
  /\ pc = "loop" /\ i < n
  /\ Parses(batch[i + 1])
  /\ LET x == batch[i + 1]
         a == coefficient(i)
         e == Challenge[<<x.r, x.msg, x.pk>>]
     IN  /\ g_scalar' = g_scalar + a * x.s
         /\ points'  = [points EXCEPT ![2 * i] = x.r, ![2 * i + 1] = x.pk]
         /\ scalars' = [scalars EXCEPT ![2 * i] = negate(a),
                                       ![2 * i + 1] = negate((a * e) % Order)]
  /\ i' = i + 1
  /\ UNCHANGED <<pc, heap, ctx, scratch_size, batch, coefficients, verdict>>

AddInput ==
  /\ pc = "loop" /\ i < n
  /\ Parses(batch[i + 1])
  /\ LET x == batch[i + 1]
         a == coefficient(i)
         e == Challenge[<<x.r, x.msg, x.pk>>]
     IN  /\ g_scalar' = (g_scalar + a * x.s) % Order
         /\ points'  = [points EXCEPT ![2 * i] = x.r, ![2 * i + 1] = x.pk]
         /\ scalars' = [scalars EXCEPT ![2 * i] = negate(a),
                                       ![2 * i + 1] = negate((a * e) % Order)]
  /\ i' = i + 1
  /\ UNCHANGED <<pc, heap, ctx, scratch_size, batch, coefficients, verdict>>

ecmult_multi_var(g, count) ==
  (g + MapThenSumSet(LAMBDA k : scalars[k] * points[k], 0..(count - 1))) % Order

VerifyReturns ==
  /\ pc = "loop" /\ i = n
  /\ verdict' = IF ecmult_multi_var(g_scalar, 2 * n) = 0 THEN 1 ELSE 0
  /\ pc' = "idle"
  /\ i' = 0
  /\ UNCHANGED <<heap, ctx, scratch_size, g_scalar, scalars, points, batch, coefficients>>

(* The multiplication itself may fail, whatever the sum would have been.   *)
SumFails ==
  /\ pc = "loop" /\ i = n
  /\ verdict' = 0
  /\ pc' = "idle"
  /\ i' = 0
  /\ UNCHANGED <<heap, ctx, scratch_size, g_scalar, scalars, points, batch, coefficients>>

Next ==
  \/ CreateRefused \/ CreateContext \/ CreateBuffers \/ ScratchAborts \/ CreateReturns
  \/ Destroy
  \/ \E b \in Batches : VerifyRefused(b) \/ VerifyStarts(b)
  \/ ParseFails \/ AddInput \/ VerifyReturns \/ SumFails

(* A call, once entered, runs to its end.                                  *)
Fairness ==
  WF_vars(CreateBuffers \/ ScratchAborts \/ CreateReturns
            \/ ParseFails \/ AddInput \/ VerifyReturns \/ SumFails)

Spec == Init /\ [][Next]_vars /\ Fairness

-----------------------------------------------------------------------------
(* The context's buffers always have two entries of the group per input.   *)
TypeOK ==
  /\ pc \in {"idle", "create", "create_check", "loop", "aborted"}
  /\ heap \subseteq Blocks
  /\ ctx \in Capacities \cup {0}
  /\ g_scalar \in Scalars
  /\ ctx # 0 => /\ scalars \in [0..(2 * ctx - 1) -> Scalars]
                /\ points \in [0..(2 * ctx - 1) -> XCoords]
  /\ batch \in Batches \cup {<<>>}
  /\ i \in 0..n
  /\ verdict \in {-1, 0, 1}

(* BIP-340 verification of one input, by itself.                           *)
Verifies(x) ==
  Parses(x) /\ (x.s - Challenge[<<x.r, x.msg, x.pk>>] * x.pk) % Order = x.r

Bad == {k \in 1..n : ~Verifies(batch[k])}

Answered == pc = "idle" /\ verdict # -1

(* A batch of valid signatures that fits the context is accepted whatever  *)
(* the coefficients and whatever an earlier batch, perhaps one abandoned   *)
(* in mid-loop, left in the context, unless the multiplication fails.      *)
AllValidAccepted ==
  [][VerifyReturns /\ Bad = {} => verdict' = 1]_vars

(* A batch with exactly one bad signature is rejected for every            *)
(* coefficient: none of them can be zero.                                  *)
OneBadRejected ==
  Answered /\ Cardinality(Bad) = 1 => verdict = 0

(* The multiscalar sum reads, of each input, what this very call stored:   *)
(* no entry is left over from an earlier batch.                            *)
NothingLeftOver ==
  pc = "loop" =>
    \A k \in 1..i :
      /\ points[2 * k - 2] = batch[k].r /\ points[2 * k - 1] = batch[k].pk
      /\ scalars[2 * k - 2] # 0
      /\ (scalars[2 * k - 1] - scalars[2 * k - 2]
            * Challenge[<<batch[k].r, batch[k].msg, batch[k].pk>>]) % Order = 0

(* A creation that failed, or a destruction, leaves nothing allocated, and *)
(* a context that is handed out has all of its blocks, with a scratch size *)
(* that did not wrap around.                                               *)
NothingLeaks ==
  pc = "idle" =>
    /\ ctx = 0 => heap = {}
    /\ ctx # 0 => heap = Blocks /\ scratch_size = ScratchBase + ctx * ScratchPerInput

(* Every creation and every verification returns, unless the process dies. *)
CallsReturn == pc # "idle" ~> pc \in {"idle", "aborted"}

=============================================================================
