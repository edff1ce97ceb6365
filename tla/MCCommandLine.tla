---------------------------- MODULE MCCommandLine ----------------------------
(***************************************************************************)
(* Benchmark calls of up to four arguments; SLH-DSA commands with up to    *)
(* three named values, right, wrong, repeated or swapped, and with one     *)
(* argument missing; and the digest command with and without its file.     *)
(***************************************************************************)
EXTENDS CommandLine

LOCAL Words ==
  {<<"--quick">>, <<"--full">>, <<"--json">>, <<"--markdown">>, <<"--only">>,
   <<"--help">>, <<"path", 1>>, <<"schnorr">>, <<"typo">>}

LOCAL Benchmarks == UNION {[1..n -> Words] : n \in 0..4}

LOCAL Names  == {<<"--private-key-hex">>, <<"--public-key-hex">>, <<"--message-hex">>,
                 <<"--signature-hex">>}
LOCAL Given ==
  {<<"priv", "k">>, <<"pub", "k">>, <<"pub", "l">>, <<"msg", "m">>, <<"text">>,
   <<"sig", "k", <<"msg", "m">>>>}

LOCAL Pairs == {<<n, v>> : n \in Names, v \in Given}

LOCAL Named ==
  {<<>>} \cup {p \o q : p \in Pairs, q \in Pairs} \cup
  {p \o q \o r : p \in {x \in Pairs : x[1] # <<"--private-key-hex">>},
                 q \in {x \in Pairs : x[1] = <<"--message-hex">>},
                 r \in {x \in Pairs : x[1] \in {<<"--signature-hex">>, <<"--public-key-hex">>}}}

LOCAL Short(S) ==
  S \cup {Tail(s) : s \in S \ {<<>>}} \cup {SubSeq(s, 1, Len(s) - 1) : s \in S \ {<<>>}}

LOCAL Commands == {<<<<c>>>> : c \in SlhCommands}

MCCalls ==
  Benchmarks \cup {c \o s : c \in Commands, s \in Short(Named)} \cup
  {<<<<"--qrs-digest-vector">>>>, <<<<"--qrs-digest-vector">>, <<"path", 1>>>>}

=============================================================================
