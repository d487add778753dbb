---------------------------- MODULE MCTokenEngine ----------------------------
(***************************************************************************)
(* Instances of TokenEngine for TLC: a caller whose requests all need one  *)
(* credential, and one whose requests may need either.                     *)
(***************************************************************************)
EXTENDS TokenEngine

CONSTANTS n1, n2, narrow, wide

EitherOrFirst == [c \in Callers |-> IF c = wide THEN {n1, n2} ELSE {n1}]
=============================================================================
