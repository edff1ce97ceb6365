----------------------------- MODULE DigestModel -----------------------------
(***************************************************************************)
(* The two readers of a test vector and the script that compares them.     *)
(* The native program (qrs_digest_model.cpp) takes the file as text: it    *)
(* looks for the first place where a key occurs, and for inputs, outputs   *)
(* and spent outputs as pairs of neighbouring members.  The Python model   *)
(* (compute_qrs_digest_model.py) takes the same file as a JSON document.   *)
(* check_qrs_digest_agreement.py loads every vector, then runs the native  *)
(* program on each file; a file may be edited in between.                  *)
(*                                                                         *)
(* A document is the sequence of its members in the order of the text.  A  *)
(* hash is what it commits to; a length-prefixed string is the string.     *)
(***************************************************************************)
EXTENDS Integers, Sequences, FiniteSetsExt, Functions

CONSTANTS
  NumVectors,      \* how many files there are
  MaxU32, MaxU64,  \* stand for 2^32-1 and 2^64-1
  Directories,     \* what the files may hold at first
  Rewrites,        \* what an edit makes of a file
  MaxEdits         \* bound on the number of edits

Paths == 1..NumVectors

ASSUME SizeAssumption ==
  /\ NumVectors \in Nat /\ MaxEdits \in Nat
  /\ MaxU32 \in Nat /\ MaxU64 \in Nat /\ MaxU32 <= MaxU64

(* A member belongs to an object or list element and has a key and a value *)
(* of a kind: a number; hex, hex of odd length, a string that is neither   *)
(* of them nor a number; a prevout; a loose one, of the characters of a    *)
(* prevout alone, with what stoull makes of it ("11:1f" as "11:1"; <<>> if *)
(* nothing); the witness labels (1 is "annex"); an encoding; an object or  *)
(* a list.                                                                 *)
Objects ==
  ({"top", "transaction", "qrs_public_key", "control_block"} \X {0}) \cup
  ({"inputs", "outputs", "spent_outputs"} \X (Nat \ {0}))
Kinds ==
  {"num", "hex", "odd", "text", "prevout", "loose", "labels", "repeat_byte",
   "repeat_sibling_path", "obj", "list"}
Member == [of : Objects, key : STRING, is : Kinds, val : Seq(Nat)]

VARIABLES
  files,   \* the directory
  loaded,  \* what the script has read of it
  doing,   \* what the script is about to do
  at,      \* the vector it is at
  python,  \* the digest it has computed itself
  native,  \* the digest the native program has printed
  exit,    \* its exit code, -1 before it ends
  edits    \* how often a file was edited, up to MaxEdits

agreementVars == <<files, loaded, doing, at, python, native, exit, edits>>

-----------------------------------------------------------------------------
\* The places of a key, of a key of one object, and of the numbers among them.
named(d, key)      == {j \in DOMAIN d : d[j].key = key}
get(d, of, key)    == {j \in named(d, key) : d[j].of = of}
numbers(d, places) == {j \in places : d[j].is = "num"}

\* The first of them counts.
kind(d, places)           == IF places = {} THEN "missing" ELSE d[Min(places)].is
value(d, places, default) == IF places = {} THEN default ELSE d[Min(places)].val

\* The members of a name that are numbers, wherever they are.
number_value(d, key) == numbers(d, named(d, key))

repeat(bytes, n) == [j \in 1..n |-> bytes[1]]

\* Both readers expand a descriptor alike: hex, or one byte repeated.
IsByte(d, places) == kind(d, places) = "hex" /\ Len(value(d, places, <<>>)) = 1

Expands(d, of) ==
  \/ kind(d, get(d, of, "hex")) = "hex"
  \/ /\ get(d, of, "hex") = {}
     /\ \/ /\ kind(d, get(d, of, "encoding")) = "repeat_byte"
           /\ IsByte(d, get(d, of, "byte")) /\ numbers(d, get(d, of, "bytes")) # {}
        \/ /\ kind(d, get(d, of, "encoding")) = "repeat_sibling_path"
           /\ IsByte(d, get(d, of, "control_byte")) /\ IsByte(d, get(d, of, "sibling_hash_byte"))
           /\ numbers(d, get(d, of, "depth")) # {}

expand(d, of) ==
  LET bytes(key)  == value(d, get(d, of, key), <<>>)
      number(key) == value(d, numbers(d, get(d, of, key)), <<0>>)[1]
  IN  IF kind(d, get(d, of, "hex")) = "hex" THEN bytes("hex")
      ELSE IF kind(d, get(d, of, "encoding")) = "repeat_byte"
        THEN repeat(bytes("byte"), number("bytes"))
        ELSE bytes("control_byte") \o repeat(bytes("sibling_hash_byte"), 32 * number("depth"))

IsDescriptor(d, key) ==
  \/ kind(d, named(d, key)) = "hex"
  \/ kind(d, named(d, key)) = "obj" /\ Expands(d, <<key, 0>>)

descriptor_value(d, key) ==
  IF kind(d, named(d, key)) = "hex" THEN value(d, named(d, key), <<>>) ELSE expand(d, <<key, 0>>)

\* The Merkle root is folded over all but the first byte.
merkle_root_from_control(leaf, control) == <<leaf, IF control = <<>> THEN <<>> ELSE Tail(control)>>

\* A transaction identifier of one byte is short for 32 such bytes.
IsPrevout(p)     == Len(p) - 1 \in {1, 32} /\ p[Len(p)] <= MaxU32
parse_prevout(p) == IF Len(p) = 2 THEN Append(repeat(p, 32), p[2]) ELSE p

-----------------------------------------------------------------------------
(* The native reader.                                                      *)

\* What the regular expressions for pairs take as the value of a key.
Matches(e) ==
  \/ e.key \in {"sequence", "value_sat", "amount_sats"} /\ e.is = "num"
  \/ e.key = "prevout" /\ e.is \in {"prevout", "loose"}
  \/ e.key = "script_pubkey" /\ e.is \in {"hex", "odd"} /\ e.val # <<>>

\* Two members of one object that follow each other; others are not seen.
pair_at(d, j, first, second) ==
  /\ d[j].of = d[j + 1].of /\ d[j].key = first /\ d[j + 1].key = second
  /\ Matches(d[j]) /\ Matches(d[j + 1])

\* The place with n - 1 of the places before it.
nth(places, n) == CHOOSE j \in places : Cardinality({k \in places : k <= j}) = n

pairs(d, text, first, second) ==
  LET found == {j \in text : j + 1 \in text /\ pair_at(d, j, first, second)}
  IN  [n \in 1..Cardinality(found) |-> <<d[nth(found, n)], d[nth(found, n) + 1]>>]

values(matched) == [n \in DOMAIN matched |-> <<matched[n][1].val, matched[n][2].val>>]

parse_inputs(d)  == pairs(d, DOMAIN d, "prevout", "sequence")
parse_outputs(d) == pairs(d, DOMAIN d, "value_sat", "script_pubkey")

\* Only the array is searched for explicit spent outputs.
explicit_spent(d) ==
  LET array == {j \in DOMAIN d : d[j].of[1] = "spent_outputs"}
  IN  pairs(d, array, "amount_sats", "script_pubkey")

fallback_amount(d) ==
  LET outputs == values(parse_outputs(d)) IN IF outputs = <<>> THEN <<0>> ELSE outputs[1][1]

\* With the key, what its array holds; without, one stand-in for every input.
parse_spent_outputs(d) ==
  IF named(d, "spent_outputs") # {} THEN values(explicit_spent(d))
  ELSE [k \in DOMAIN parse_inputs(d) |->
          <<fallback_amount(d), value(d, named(d, "spent_output_scriptPubKey"), <<>>)>>]

terminal_witness_label_is_annex(labels) == labels # <<>> /\ labels[Len(labels)] = 1

\* Mutant: an annex counts whatever the witness ends with.
annex_always(d) == value(d, named(d, "annex"), <<>>)

effective_annex(d) ==
  IF terminal_witness_label_is_annex(value(d, named(d, "witness_stack"), <<>>))
    THEN value(d, named(d, "annex"), <<>>) ELSE <<>>

\* A number that was matched fits its width, a script that was matched is hex.
Fits(e) ==
  IF e.is = "num" THEN e.val[1] <= (IF e.key = "sequence" THEN MaxU32 ELSE MaxU64)
  ELSE e.is # "odd"

(* Every check that makes compute_from_json throw.  A label "annex" alone  *)
(* makes it look for the key; an annex, for an array of labels.            *)
NativeReads(d) ==
  /\ IsDescriptor(d, "qrs_public_key") /\ IsDescriptor(d, "control_block")
  /\ named(d, "annex") = {} => 1 \notin Range(value(d, named(d, "witness_stack"), <<>>))
  /\ kind(d, named(d, "annex")) \in {"missing", "hex"}
  /\ value(d, named(d, "annex"), <<>>) # <<>> =>
       kind(d, named(d, "witness_stack")) \in {"missing", "labels"}
  /\ parse_inputs(d) # <<>>
  /\ \A k \in DOMAIN parse_inputs(d) : IsPrevout(parse_inputs(d)[k][1].val)
  /\ \A matched \in {parse_inputs(d), parse_outputs(d), explicit_spent(d)} :
       \A k \in DOMAIN matched : Fits(matched[k][1]) /\ Fits(matched[k][2])
  /\ \A key \in {"version", "lock_time"} : number_value(d, key) # {}
  /\ \A key \in {"version", "lock_time", "input_index"} :
       value(d, number_value(d, key), <<0>>)[1] <= MaxU32
  /\ kind(d, named(d, "spent_output_scriptPubKey")) \in
       {"missing", "hex"} \cup (IF named(d, "spent_outputs") = {} THEN {} ELSE {"odd", "text"})
  /\ Len(parse_spent_outputs(d)) = Len(parse_inputs(d))

\* What the three printed hashes commit to.
compute_from_json(d) ==
  LET leaf == descriptor_value(d, "qrs_public_key")
      ins  == values(parse_inputs(d))
  IN  [leaf_hash   |-> leaf,
       merkle_root |-> merkle_root_from_control(leaf, descriptor_value(d, "control_block")),
       qrs_msg     |->
         [version     |-> value(d, number_value(d, "version"), <<0>>),
          lock_time   |-> value(d, number_value(d, "lock_time"), <<0>>),
          inputs      |-> [k \in DOMAIN ins |-> <<parse_prevout(ins[k][1]), ins[k][2]>>],
          spent       |-> parse_spent_outputs(d),
          outputs     |-> values(parse_outputs(d)),
          input_index |-> value(d, number_value(d, "input_index"), <<0>>),
          annex       |-> effective_annex(d),
          leaf        |-> leaf]]

-----------------------------------------------------------------------------
(* The Python reader.                                                      *)

\* The elements of a list are numbered from 1.
elements(d, list) == {d[j].of[2] : j \in {k \in DOMAIN d : d[k].of[1] = list}}

Num(d, places, kinds, max) == kind(d, places) \in kinds /\ value(d, places, <<0>>)[1] <= max

\* A length that is given is the length of what is described.
expand_descriptor(d, key) ==
  /\ IsDescriptor(d, key)
  /\ value(d, get(d, <<key, 0>>, "bytes"), <<Len(descriptor_value(d, key))>>)
       = <<Len(descriptor_value(d, key))>>

amount_sats(d, k) ==
  LET sats == get(d, <<"spent_outputs", k>>, "amount_sats")
  IN  IF sats # {} THEN sats ELSE get(d, <<"spent_outputs", k>>, "amount_sat")

spent_outputs(d) ==
  IF elements(d, "spent_outputs") # {}
    THEN [k \in elements(d, "spent_outputs") |->
            <<value(d, amount_sats(d, k), <<0>>),
              value(d, get(d, <<"spent_outputs", k>>, "script_pubkey"), <<>>)>>]
    ELSE [k \in elements(d, "inputs") |->
            <<value(d, get(d, <<"outputs", 1>>, "value_sat"), <<0>>),
              value(d, get(d, <<"top", 0>>, "spent_output_scriptPubKey"), <<>>)>>]

(* Every check that makes compute_vector_digest raise.                     *)
PythonReads(d) ==
  LET tx == <<"transaction", 0>>  top == <<"top", 0>>
  IN
  /\ expand_descriptor(d, "qrs_public_key") /\ expand_descriptor(d, "control_block")
  /\ kind(d, get(d, top, "annex")) \in {"missing", "hex"}
  /\ elements(d, "inputs") # {}
  /\ \A k \in elements(d, "inputs") :
       /\ kind(d, get(d, <<"inputs", k>>, "prevout")) = "prevout"
       /\ IsPrevout(value(d, get(d, <<"inputs", k>>, "prevout"), <<>>))
       /\ Num(d, get(d, <<"inputs", k>>, "sequence"), {"missing", "num"}, MaxU32)
  /\ \A k \in elements(d, "outputs") :
       /\ Num(d, get(d, <<"outputs", k>>, "value_sat"), {"num"}, MaxU64)
       /\ kind(d, get(d, <<"outputs", k>>, "script_pubkey")) = "hex"
  /\ IF elements(d, "spent_outputs") # {}
       THEN \A k \in elements(d, "spent_outputs") :
              /\ Num(d, amount_sats(d, k), {"missing", "num"}, MaxU64)
              /\ kind(d, get(d, <<"spent_outputs", k>>, "script_pubkey")) = "hex"
       ELSE kind(d, get(d, top, "spent_output_scriptPubKey")) \in {"missing", "hex"}
  /\ \A key \in {"version", "lock_time"} : Num(d, get(d, tx, key), {"missing", "num"}, MaxU32)
  /\ kind(d, get(d, top, "input_index")) \in {"missing", "num"}
  /\ value(d, get(d, top, "input_index"), <<0>>)[1] < Cardinality(elements(d, "inputs"))

compute_vector_digest(d) ==
  LET tx == <<"transaction", 0>>  top == <<"top", 0>>
      leaf == descriptor_value(d, "qrs_public_key")
      stack == IF kind(d, get(d, top, "witness_stack")) = "labels"
                 THEN value(d, get(d, top, "witness_stack"), <<>>) ELSE <<>>
  IN  [leaf_hash   |-> leaf,
       merkle_root |-> merkle_root_from_control(leaf, descriptor_value(d, "control_block")),
       qrs_msg     |->
         [version     |-> value(d, get(d, tx, "version"), <<0>>),
          lock_time   |-> value(d, get(d, tx, "lock_time"), <<0>>),
          inputs      |-> [k \in elements(d, "inputs") |->
                             <<parse_prevout(value(d, get(d, <<"inputs", k>>, "prevout"), <<>>)),
                               value(d, get(d, <<"inputs", k>>, "sequence"), <<0>>)>>],
          spent       |-> spent_outputs(d),
          outputs     |-> [k \in elements(d, "outputs") |->
                             <<value(d, get(d, <<"outputs", k>>, "value_sat"), <<0>>),
                               value(d, get(d, <<"outputs", k>>, "script_pubkey"), <<>>)>>],
          input_index |-> value(d, get(d, top, "input_index"), <<0>>),
          annex       |-> IF stack # <<>> /\ stack[Len(stack)] = 1
                            THEN value(d, get(d, top, "annex"), <<>>) ELSE <<>>,
          leaf        |-> leaf]]

(* What JSON makes of any file: no object has a key twice, the elements of *)
(* a list are numbered in the order of the text.                           *)
IsDocument(d) ==
  /\ d \in Seq(Member)
  /\ \A j, k \in DOMAIN d : d[j].of = d[k].of /\ d[j].key = d[k].key => j = k
  /\ \A list \in {"inputs", "outputs", "spent_outputs"} :
       elements(d, list) = 1..Cardinality(elements(d, list))
  /\ \A j, k \in DOMAIN d : j < k /\ d[j].of[1] = d[k].of[1] => d[j].of[2] <= d[k].of[2]

AreDocuments(directory) == DOMAIN directory = Paths /\ \A v \in Paths : IsDocument(directory[v])

ASSUME DocumentAssumption ==
  /\ \A directory \in Directories : AreDocuments(directory)
  /\ \A d \in Rewrites : IsDocument(d)

-----------------------------------------------------------------------------
(* check_qrs_digest_agreement.py                                           *)

NoDigest == [leaf_hash |-> <<>>, merkle_root |-> <<>>, qrs_msg |-> <<>>]

AgreementInit ==
  /\ files \in Directories
  /\ loaded = files
  /\ doing = "idle"
  /\ at = 1
  /\ python = NoDigest /\ native = NoDigest
  /\ exit = -1
  /\ edits = 0

Exits(code) == doing' = "idle" /\ exit' = code

EditVector ==
  /\ doing # "idle"
  /\ edits < MaxEdits
  /\ \E v \in Paths, d \in Rewrites : files' = [files EXCEPT ![v] = d]
  /\ edits' = edits + 1
  /\ UNCHANGED <<loaded, doing, at, python, native, exit>>

\* All vectors are read before the first one is compared.
LoadVectors ==
  /\ doing = "idle" /\ exit = -1
  /\ loaded' = files
  /\ doing' = "python"
  /\ UNCHANGED <<files, at, python, native, exit, edits>>

ComputePython ==
  /\ doing = "python" /\ at <= NumVectors
  /\ IF PythonReads(loaded[at])
       THEN /\ python' = compute_vector_digest(loaded[at])
            /\ doing' = "native" /\ UNCHANGED exit
       ELSE Exits(1) /\ UNCHANGED python
  /\ UNCHANGED <<files, loaded, at, native, edits>>

\* The native program reads the file as it is now; it exits with 0 or 2.
RunNative ==
  /\ doing = "native"
  /\ IF NativeReads(files[at])
       THEN /\ native' = compute_from_json(files[at])
            /\ doing' = "compare" /\ UNCHANGED exit
       ELSE Exits(1) /\ UNCHANGED native
  /\ UNCHANGED <<files, loaded, at, python, edits>>

\* Mutant: the message is left out of the comparison.
same_but_message(p, n) == p.leaf_hash = n.leaf_hash /\ p.merkle_root = n.merkle_root

same_fields(p, n) ==
  p.leaf_hash = n.leaf_hash /\ p.merkle_root = n.merkle_root /\ p.qrs_msg = n.qrs_msg

Compare ==
  /\ doing = "compare"
  /\ IF same_fields(python, native)
       THEN doing' = "python" /\ at' = at + 1 /\ UNCHANGED exit
       ELSE Exits(1) /\ UNCHANGED at
  /\ UNCHANGED <<files, loaded, python, native, edits>>

AllPassed ==
  /\ doing = "python" /\ at > NumVectors
  /\ Exits(0)
  /\ UNCHANGED <<files, loaded, at, python, native, edits>>

AgreementNext ==
  EditVector \/ LoadVectors \/ ComputePython \/ RunNative \/ Compare \/ AllPassed

AgreementSpec == AgreementInit /\ [][AgreementNext]_agreementVars

-----------------------------------------------------------------------------
Pair == [inputs        |-> <<"prevout", "sequence">>,
         outputs       |-> <<"value_sat", "script_pubkey">>,
         spent_outputs |-> <<"amount_sats", "script_pubkey">>]

(* The layout of the vectors in test_vectors/: an element of a list is its *)
(* pair; a key that is read by its name alone occurs in one object only; a *)
(* number fits, a prevout has a decimal index, the witness is an array and *)
(* its label "annex" has a key, a length is the true one.                  *)
LaidOut(d) ==
  /\ \A list \in DOMAIN Pair : \A k \in elements(d, list) : \E j \in DOMAIN d :
       /\ {n \in DOMAIN d : d[n].of = <<list, k>>} = {j, j + 1}
       /\ pair_at(d, j, Pair[list][1], Pair[list][2])
  /\ \A list \in {"inputs", "outputs"} :
       \A j \in named(d, Pair[list][1]) : d[j].of[1] = list
  /\ \A key \in {"annex", "witness_stack", "spent_output_scriptPubKey", "spent_outputs",
                 "input_index", "qrs_public_key", "control_block"} :
       named(d, key) = get(d, <<"top", 0>>, key)
  /\ \A key \in {"version", "lock_time"} :
       number_value(d, key) # {} /\ number_value(d, key) = get(d, <<"transaction", 0>>, key)
  /\ elements(d, "spent_outputs") =
       IF named(d, "spent_outputs") = {} THEN {} ELSE elements(d, "inputs")
  /\ kind(d, named(d, "spent_output_scriptPubKey")) = "hex"
  /\ kind(d, named(d, "input_index")) \in {"missing", "num"}
  /\ value(d, named(d, "input_index"), <<0>>)[1] <= MaxU32
  /\ value(d, named(d, "input_index"), <<0>>)[1] < Cardinality(elements(d, "inputs"))
  /\ \A j \in DOMAIN d : d[j].is # "loose"
  /\ kind(d, named(d, "witness_stack")) \in {"missing", "labels"}
  /\ 1 \in Range(value(d, named(d, "witness_stack"), <<>>)) => named(d, "annex") # {}
  /\ \A key \in {"qrs_public_key", "control_block"} :
       IsDescriptor(d, key) => expand_descriptor(d, key)

(* On a file in the layout of the vectors the two readers are one model,   *)
(* although one of them does not parse it: they refuse the same files and  *)
(* commit to the same transaction, annex, leaf and path.                   *)
LaidOutAgree ==
  \A v \in Paths : LaidOut(files[v]) =>
    /\ NativeReads(files[v]) <=> PythonReads(files[v])
    /\ NativeReads(files[v]) => compute_from_json(files[v]) = compute_vector_digest(files[v])

\* A member of the transaction is in the message, at its place.
MemberCarried(e, msg) ==
  LET list == e.of[1]  k == e.of[2]
  IN  /\ list = "inputs" /\ e.key = "prevout"  => msg.inputs[k][1] = parse_prevout(e.val)
      /\ list = "inputs" /\ e.key = "sequence" => msg.inputs[k][2] = e.val
      /\ list = "outputs" /\ e.key = "value_sat"     => msg.outputs[k][1] = e.val
      /\ list = "outputs" /\ e.key = "script_pubkey" => msg.outputs[k][2] = e.val
      /\ list = "spent_outputs" /\ e.key = "amount_sats"   => msg.spent[k][1] = e.val
      /\ list = "spent_outputs" /\ e.key = "script_pubkey" => msg.spent[k][2] = e.val
      /\ list = "transaction" /\ e.key = "version"   => msg.version = e.val
      /\ list = "transaction" /\ e.key = "lock_time" => msg.lock_time = e.val
      /\ list = "top" /\ e.key = "input_index" => msg.input_index = e.val

\* Every member is, and nothing else: no further input, output or spent output.
Carries(d, msg) ==
  /\ \A j \in DOMAIN d : MemberCarried(d[j], msg)
  /\ DOMAIN msg.inputs = elements(d, "inputs")
  /\ DOMAIN msg.outputs = elements(d, "outputs")
  /\ DOMAIN msg.spent = elements(d, "inputs")
  /\ msg.input_index[1] < Cardinality(elements(d, "inputs"))
  /\ elements(d, "spent_outputs") \in {{}, elements(d, "inputs")}
  /\ elements(d, "spent_outputs") = {} =>
       \A k \in elements(d, "inputs") :
         msg.spent[k] = <<value(d, get(d, <<"outputs", 1>>, "value_sat"), <<0>>),
                          value(d, get(d, <<"top", 0>>, "spent_output_scriptPubKey"), <<>>)>>

(* The native reader skips what it does not recognise and reads its file   *)
(* later than the script does.  Yet no vector is passed unless what the    *)
(* native program committed to is the transaction of the document that was *)
(* loaded: every version, lock time, index, input, output and spent output *)
(* at its place, none beside them, one spent output for each input.        *)
PassedIsComplete == [][at' > at => Carries(loaded[at], native.qrs_msg)]_agreementVars

=============================================================================
