---------------------------- MODULE MCBenchReport ----------------------------
(***************************************************************************)
(* Three invalid cases (nine in the program), each with one of three p99   *)
(* values: enough for ties, for a minimum, a median and a maximum that all *)
(* differ, and for an exception before, between and after the cases.       *)
(***************************************************************************)
EXTENDS BenchReport

MCCaseP99  == {1, 2, 3}
MCOtherP99 == {1}

=============================================================================
