---------------------------- MODULE MCDigestModel ----------------------------
(***************************************************************************)
(* Two files.  The second is a plain vector with the annex; the first is   *)
(* any of three vectors (one input; two inputs with explicit spent         *)
(* outputs; repeated bytes) after up to two changes: a member dropped, two *)
(* neighbours swapped, or a value replaced.                                *)
(***************************************************************************)
EXTENDS DigestModel, SequencesExt

LOCAL M(of, key, is, val) == [of |-> of, key |-> key, is |-> is, val |-> val]

LOCAL Top == <<"top", 0>>
LOCAL Tx  == <<"transaction", 0>>

LOCAL In(k, seq)    == <<M(<<"inputs", k>>, "prevout", "prevout", <<4, k>>),
                         M(<<"inputs", k>>, "sequence", "num", <<seq>>)>>
LOCAL Out(k, sat)   == <<M(<<"outputs", k>>, "value_sat", "num", <<sat>>),
                         M(<<"outputs", k>>, "script_pubkey", "hex", <<k>>)>>
LOCAL Spent(k, sat) == <<M(<<"spent_outputs", k>>, "amount_sats", "num", <<sat>>),
                         M(<<"spent_outputs", k>>, "script_pubkey", "hex", <<7, k>>)>>

LOCAL Control(depth) ==
  <<M(Top, "control_block", "obj", <<>>),
    M(<<"control_block", 0>>, "encoding", "repeat_sibling_path", <<>>),
    M(<<"control_block", 0>>, "control_byte", "hex", <<9>>),
    M(<<"control_block", 0>>, "sibling_hash_byte", "hex", <<3>>),
    M(<<"control_block", 0>>, "depth", "num", <<depth>>),
    M(<<"control_block", 0>>, "bytes", "num", <<1 + 32 * depth>>)>>

LOCAL Key ==
  <<M(Top, "qrs_public_key", "obj", <<>>),
    M(<<"qrs_public_key", 0>>, "encoding", "repeat_byte", <<>>),
    M(<<"qrs_public_key", 0>>, "byte", "hex", <<5>>),
    M(<<"qrs_public_key", 0>>, "bytes", "num", <<2>>)>>

LOCAL Document(ins, outs, index, spent, stack, annex, key, control) ==
  <<M(Top, "version", "text", <<>>), M(Top, "transaction", "obj", <<>>),
    M(Tx, "version", "num", <<2>>), M(Tx, "lock_time", "num", <<1>>)>>
  \o ins \o outs \o index \o spent
  \o <<M(Top, "spent_output_scriptPubKey", "hex", <<8>>),
       M(Top, "witness_stack", "labels", stack)>>
  \o annex \o key \o control

LOCAL Annex    == <<M(Top, "annex", "hex", <<6>>)>>
LOCAL HexKey   == <<M(Top, "qrs_public_key", "hex", <<5, 5>>)>>
LOCAL HexBlock == <<M(Top, "control_block", "obj", <<>>),
                    M(<<"control_block", 0>>, "hex", "hex", <<9>>)>>

LOCAL Plain ==
  Document(In(1, 0), Out(1, 2) \o Out(2, 1), <<>>, <<>>, <<0, 1>>, Annex, HexKey, HexBlock)
LOCAL Explicit ==
  Document(In(1, 0) \o In(2, 3), Out(1, 2), <<M(Top, "input_index", "num", <<1>>)>>,
           <<M(Top, "spent_outputs", "list", <<>>)>> \o Spent(1, 4) \o Spent(2, 1),
           <<0, 0>>, <<>>, HexKey, HexBlock)
LOCAL Repeated ==
  Document(In(1, 0), <<>>, <<>>, <<>>, <<1, 0>>, Annex, Key, Control(1))

\* Another value for a member: out of range, empty, of odd length, of another kind.
LOCAL Others(e) ==
  CASE e.is = "num"     -> {[e EXCEPT !.val = <<n>>] : n \in {2, MaxU32 + 1, MaxU64 + 1}}
                             \cup {[e EXCEPT !.is = "text", !.val = <<>>]}
    [] e.is = "hex"     -> {[e EXCEPT !.val = <<>>], [e EXCEPT !.is = "odd"],
                            [e EXCEPT !.is = "text", !.val = <<>>]}
    [] e.is = "prevout" -> {[e EXCEPT !.val = [j \in 1..33 |-> 4]], [e EXCEPT !.val = <<1, 2, 3>>],
                            [e EXCEPT !.is = "loose"], [e EXCEPT !.is = "loose", !.val = <<>>]}
    [] e.is = "labels"  -> {[e EXCEPT !.val = <<0, 1>>], [e EXCEPT !.val = <<>>],
                            [e EXCEPT !.is = "text", !.val = <<>>]}
    [] e.key = "version" -> {[e EXCEPT !.is = "num", !.val = <<3>>]}
    [] OTHER -> {}

LOCAL Swappable(d, j) ==
  d[j].of = d[j + 1].of /\ d[j].of[1] \in {"inputs", "outputs", "spent_outputs", "transaction"}

\* An object keeps a member; what is in an object goes with it.
LOCAL Droppable(d, j) ==
  \/ d[j].of # Top /\ (\E k \in DOMAIN d : k # j /\ d[k].of = d[j].of)
  \/ d[j].of = Top /\ d[j].is \in {"num", "hex", "labels"}

LOCAL Change(d) ==
  {RemoveAt(d, j) : j \in {k \in DOMAIN d : Droppable(d, k)}} \cup
  {ReplaceAt(ReplaceAt(d, j, d[j + 1]), j + 1, d[j]) :
     j \in {k \in 1..(Len(d) - 1) : Swappable(d, k)}} \cup
  UNION {{ReplaceAt(d, j, e) : e \in Others(d[j])} : j \in DOMAIN d}

LOCAL Changed(S) == S \cup UNION {Change(d) : d \in S}

MCDirectories == {<<d, Plain>> : d \in Changed(Changed({Plain, Explicit, Repeated}))}
MCRewrites == {ReplaceAt(Plain, 3, M(Tx, "version", "num", <<3>>))}

=============================================================================
