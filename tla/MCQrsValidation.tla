--------------------------- MODULE MCQrsValidation ---------------------------
(***************************************************************************)
(* Spends for TLC: spends honestly signed by key k1 (paths of depth 0, 1,  *)
(* 2, 128 and 129, annexes that look like siblings) and what one changed   *)
(* field, or a signature moved to another path and annex, makes of them.   *)
(***************************************************************************)
EXTENDS QrsClassify

CONSTANTS k1, k2, n1, n2

MCKeys   == {k1, k2}
MCChunks == {n1, n2}

LOCAL Deep(d) == [i \in 1..d |-> n1]

LOCAL Paths == {<<>>, <<n1>>, <<n1, n2>>, Deep(128), Deep(129)}

LOCAL Control(path) ==
  [empty |-> FALSE, first |-> 195, path |-> path, extra |-> 0]

LOCAL Draft(k, path, annex) ==
  [signature     |-> "unsigned",
   public_key    |-> [id |-> k, len |-> 32],
   control_block |-> Control(path),
   annex         |-> annex,
   expected_root |-> [leaf |-> [id |-> k, len |-> 32], path |-> path]]

LOCAL Sign(s) ==
  [s EXCEPT !.signature = [len |-> 7856, by |-> s.public_key.id, intact |-> TRUE,
                           on  |-> construct_qrs_msg(s)]]

Honest ==
  {Sign(Draft(k1, path, <<>>)) : path \in Paths}
    \cup {Sign(Draft(k1, <<>>, <<n1>>)), Sign(Draft(k1, <<n1>>, <<n2>>)),
          Sign(Draft(k2, <<n1>>, <<>>))}

OneField(s) ==
       {[s EXCEPT !.signature = sig] :
          sig \in {[s.signature EXCEPT !.len = 7855], [s.signature EXCEPT !.len = 7857],
                   [s.signature EXCEPT !.intact = FALSE]} \cup {h.signature : h \in Honest}}
  \cup {[s EXCEPT !.public_key = p] :
          p \in {[id |-> k2, len |-> 32], [id |-> k1, len |-> 31], [id |-> k1, len |-> 33]}}
  \cup {[s EXCEPT !.control_block.first = b] : b \in {0, 192, 193, 194, 196, 255}}
  \cup {[s EXCEPT !.control_block.extra = e] : e \in {1, 31}}
  \cup {[s EXCEPT !.control_block = [empty |-> TRUE, first |-> 0, path |-> <<>>, extra |-> 0]]}
  \cup {[s EXCEPT !.control_block.path = p] : p \in Paths}
  \cup {[s EXCEPT !.annex = a] : a \in {<<>>, <<n1>>, <<n2>>}}
  \cup {[s EXCEPT !.expected_root = h.expected_root] : h \in Honest}

\* A signature, a path and an annex of three different honest spends.
Moved ==
  {[Draft(k1, path, annex) EXCEPT !.signature = h.signature] :
     path \in {<<>>, <<n1>>}, annex \in {<<>>, <<n1>>, <<n2>>}, h \in Honest}

MCStacks ==
  LET three == <<"qrs_signature", "qrs_public_key", "control_block">>
  IN  {three, three \o <<"annex">>, three \o <<"extra">>, three \o <<"annex", "annex">>,
       <<"qrs_signature", "control_block">>, <<>>}

MCSpends == UNION {OneField(h) : h \in Honest} \cup Moved

=============================================================================
