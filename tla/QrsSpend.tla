------------------------------ MODULE QrsSpend ------------------------------
(***************************************************************************)
(* The data of a P2MR spend that uses the SLH-DSA (QRS) leaf, and the      *)
(* functions of it that native and Python code share.  Used by every       *)
(* module that validates a spend.                                          *)
(*                                                                         *)
(* Hashes are modelled by what they are used for, a commitment: the hash   *)
(* of a preimage is the preimage itself.  Bytes are grouped in 32-byte     *)
(* chunks, the unit of a Merkle sibling; the annex is a sequence of whole  *)
(* chunks, so that control block and annex bytes, which the message        *)
(* preimage only concatenates, can be confused with one another exactly    *)
(* as the bytes of the program can.                                        *)
(***************************************************************************)
EXTENDS Integers, Sequences

CONSTANTS
  Keys,    \* SLH-DSA key pairs
  Chunks   \* 32-byte strings: Merkle siblings and annex contents

kQrsLeafVersion    == 194   \* 0xc2
kQrsSignatureBytes == 7856
kQrsPublicKeyBytes == 32
kQrsMaxDepth       == 128

(***************************************************************************)
(* A control block is the version/parity byte, whole 32-byte siblings and  *)
(* extra < 32 trailing bytes; an empty control block has no bytes at all.  *)
(* A message is the leaf hash (32 bytes), the version byte and then the    *)
(* siblings and the annex in one run of bytes.  A signature is the key and *)
(* the message it was made with; it is intact while no bit was flipped.    *)
(***************************************************************************)
ControlBlock == [empty : BOOLEAN, first : 0..255, path : Seq(Chunks), extra : 0..31]
PublicKey    == [id : Keys, len : Nat]
Message      == [leaf : PublicKey, first : 0..255, rest : Seq(Chunks)]
Signature    == [len : Nat, by : Keys, on : Message, intact : BOOLEAN]
Root         == [leaf : PublicKey, path : Seq(Chunks)]

ModeledSpend ==
  [signature : Signature, public_key : PublicKey, control_block : ControlBlock,
   annex : Seq(Chunks), expected_root : Root]

control_size(c) == IF c.empty THEN 0 ELSE 1 + 32 * Len(c.path) + c.extra

modeled_leaf_hash(public_key) == public_key

modeled_root(leaf, control_block) == [leaf |-> leaf, path |-> control_block.path]

\* Leaf, control block and annex are appended with nothing between them.
construct_qrs_msg(spend) ==
  [leaf  |-> modeled_leaf_hash(spend.public_key),
   first |-> spend.control_block.first,
   rest  |-> spend.control_block.path \o spend.annex]

\* EVP_DigestVerify: the signature is the key's own, over this very message.
verify_message(key, msg, sig) ==
  /\ sig.len = kQrsSignatureBytes
  /\ sig.intact
  /\ sig.by = key
  /\ sig.on = msg

\* structural_checks, check by check in the order of its early returns.
SignatureLengthOK(s) == s.signature.len = kQrsSignatureBytes
PublicKeyLengthOK(s) == s.public_key.len = kQrsPublicKeyBytes
ControlNotEmpty(s)   == control_size(s.control_block) # 0
\* Mutant: the depth bound is forgotten.
ControlLengthUnbounded(s) == (control_size(s.control_block) - 1) % 32 = 0

ControlLengthOK(s)   ==
  LET path_bytes == control_size(s.control_block) - 1
  IN  path_bytes % 32 = 0 /\ path_bytes \div 32 <= kQrsMaxDepth
LeafVersionOK(s)     ==
  s.control_block.first - (s.control_block.first % 2) = kQrsLeafVersion
\* Mutant: the reserved bit is ignored.
LowBitIgnored(s) == TRUE

LowBitOK(s)          == s.control_block.first % 2 = 1
\* Mutant: only the leaf of the committed root is compared.
RootLeafOnly(s) == modeled_leaf_hash(s.public_key) = s.expected_root.leaf

RootOK(s)            ==
  modeled_root(modeled_leaf_hash(s.public_key), s.control_block) = s.expected_root

structural_checks(s) ==
  /\ SignatureLengthOK(s)
  /\ PublicKeyLengthOK(s)
  /\ ControlNotEmpty(s)
  /\ ControlLengthOK(s)
  /\ LeafVersionOK(s)
  /\ LowBitOK(s)
  /\ RootOK(s)

=============================================================================
