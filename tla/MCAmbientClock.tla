--------------------------- MODULE MCAmbientClock ----------------------------
(***************************************************************************)
(* Two channels and one worker.  The first has two tickets and a rule,     *)
(* which may be dated anew in place, the second the heartbeat and a merge  *)
(* proposal.                                                               *)
(***************************************************************************)
EXTENDS AmbientClock

CONSTANTS eng, ops, t1, t2

Homes   == [t \in Tickets |-> eng]
Times   == [t \in Tickets |-> 2]
Talk    == [c \in Channels |-> IF c = eng THEN 0 ELSE 1]
Written == [c \in Channels |-> {"enabled", IF c = eng THEN "rule" ELSE "heartbeat"}]
Dates   == [c \in Channels |-> IF c = eng THEN {2, 4} ELSE {}]
Redated == [c \in Channels |-> IF c = eng THEN {3} ELSE {}]
=============================================================================
