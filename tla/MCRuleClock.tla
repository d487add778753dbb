----------------------------- MODULE MCRuleClock -----------------------------
(***************************************************************************)
(* Days of four hours in weeks of two; every zone within two hours of UTC  *)
(* that goes forward or back by up to a day, and those that stay.          *)
(***************************************************************************)
EXTENDS RuleClock

HourZones ==
  [before : -2..2, after : -2..2, at : 8..11]

HourRules ==
  [at : {{0}, {1}, {3}, {0, 1}, {1, 2}}, days : {{0}, {1}, {0, 1}}]
=============================================================================
