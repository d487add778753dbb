--------------------------- MODULE MCApprovalGate ---------------------------
(***************************************************************************)
(* Instances of ApprovalGate for TLC.  The sheets an operator switches     *)
(* between rule a call in outright, behind an approval and out, under one  *)
(* daily cap; the warning of the first is at one call.                     *)
(***************************************************************************)
EXTENDS ApprovalGate, TLC

CONSTANT k1

SheetOf(f, w) == [rule |-> f, cap |-> TopCap, warnAt |-> w]

\* k1 is behind an approval or allowed outright; the others are never held.
Rule(forK1, forOthers) == [k \in Calls |-> IF k = k1 THEN forK1 ELSE forOthers]

EditedSheets ==
  {SheetOf(Rule("hold", "allow"), 1), SheetOf(Rule("allow", "refuse"), 0)}

HoldingSheets == {SheetOf(Rule("hold", "allow"), 1)}

SlotSymmetry == Permutations(Slots)
=============================================================================
