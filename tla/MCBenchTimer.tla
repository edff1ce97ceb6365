---------------------------- MODULE MCBenchTimer ----------------------------
(***************************************************************************)
(* Up to three batches of up to two calls, no iterations among them, and a *)
(* clock that misses calls shorter than two units.                         *)
(***************************************************************************)
EXTENDS BenchTimer

=============================================================================
