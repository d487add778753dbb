--------------------------- MODULE MCUpstreamPool ---------------------------
(***************************************************************************)
(* Instances of UpstreamPool for TLC.  Calls are interchangeable where no  *)
(* liveness is checked.                                                    *)
(***************************************************************************)
EXTENDS UpstreamPool, TLC

CallSymmetry == Permutations(Calls)
=============================================================================
