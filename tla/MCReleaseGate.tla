---------------------------- MODULE MCReleaseGate ----------------------------
(***************************************************************************)
(* Two runs, so that one finds what another one left behind; two versions  *)
(* of the source, the second with a batch API in its header; one commit    *)
(* more than there is at first.                                            *)
(***************************************************************************)
EXTENDS ReleaseGate

=============================================================================
