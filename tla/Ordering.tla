------------------------------ MODULE Ordering ------------------------------
(***************************************************************************)
(* What std::sort and its relatives do with the values of a container: the *)
(* places of the values, put in an order in which the values ascend.  Of   *)
(* equal values either may come first.                                     *)
(***************************************************************************)
EXTENDS Integers, FiniteSets

\* The places in DOMAIN key, in ascending order of their keys.
ascending(key) ==
  LET n == Cardinality(DOMAIN key)
  IN  CHOOSE order \in [1..n -> DOMAIN key] :
        /\ \A k \in DOMAIN key : \E j \in 1..n : order[j] = k
        /\ \A j, l \in 1..n : j < l => key[order[j]] <= key[order[l]]

=============================================================================
