------------------------- MODULE MCTeamSheetStore -------------------------
(***************************************************************************)
(* Two callers, two reads (one running, one queued), three versions.        *)
(***************************************************************************)
EXTENDS TeamSheetStore, TLC

CONSTANTS c1, c2, w1, w2
=============================================================================
