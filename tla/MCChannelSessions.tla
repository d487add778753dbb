------------------------- MODULE MCChannelSessions --------------------------
(***************************************************************************)
(* A mention and a reply in its thread, each with its `message' event.     *)
(* The mention's comes twice; in MCAnsweredOnce.cfg the reply's does.      *)
(***************************************************************************)
EXTENDS ChannelSessions

CONSTANTS mention, reply

ThisMessages == {mention, reply}

Delivered == [e \in Events |-> IF e \in {"m1", "m2"} THEN mention ELSE reply]
=============================================================================
