--------------------------- MODULE MCBatchSchnorr ---------------------------
(***************************************************************************)
(* The group of order 5, one message and a challenge that differs from one *)
(* input to the next; batches of one and two signatures, valid, corrupted  *)
(* in s, r or the key, not parsing, and too long for a small context.      *)
(***************************************************************************)
EXTENDS BatchSchnorr

CONSTANT m1

MCMessages  == {m1}
MCChallenge == [t \in XCoords \X Messages \X XCoords |-> (2 * t[1] + t[3] + 1) % Order]

LOCAL Signed(r, pk) ==
  [r |-> r, s |-> (r + Challenge[<<r, m1, pk>>] * pk) % Order, msg |-> m1, pk |-> pk]

LOCAL Valid == {Signed(1, 2), Signed(2, 1)}

LOCAL Broken ==
  {[Signed(1, 2) EXCEPT !.s = (@ + 1) % Order], [Signed(2, 1) EXCEPT !.s = (@ + 3) % Order],
   [Signed(2, 1) EXCEPT !.pk = 2], [Signed(1, 2) EXCEPT !.r = 0],
   [Signed(2, 1) EXCEPT !.s = Order], [Signed(2, 1) EXCEPT !.pk = 0]}

MCBatches ==
  {<<>>} \cup {<<x>> : x \in Valid \cup Broken}
         \cup {<<x, y>> : x \in Valid, y \in Valid \cup Broken}
         \cup {<<x, y>> : x \in Broken, y \in {Signed(1, 2)}}
         \cup {<<[Signed(1, 2) EXCEPT !.s = (@ + 1) % Order],
                 [Signed(2, 1) EXCEPT !.s = (@ + 3) % Order]>>}

=============================================================================
