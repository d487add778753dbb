---------------------------- MODULE BoundedQueue ----------------------------
(***************************************************************************)
(* What semaphores with a bounded wait promise their callers: at most      *)
(* Limit are inside a gate, nobody waits at it while there is room, a      *)
(* place that comes free goes to the one who has waited longest and to     *)
(* nobody who gave up, and once a gate is thrown open nobody waits again.  *)
(* One gate at a time moves.                                               *)
(*                                                                         *)
(* UpstreamPool implements this specification (its property GateIsFair).   *)
(***************************************************************************)
EXTENDS Naturals, Sequences, FiniteSets, SequencesExt

CONSTANTS Gates, Calls, Limit

VARIABLES
  inside,  \* [Gates -> the callers that hold a permit]
  line,    \* [Gates -> the callers that wait, the eldest first]
  thrown   \* [Gates -> whether it is open to everybody]

vars == <<inside, line, thrown>>

Waiting(g) == {line[g][n] : n \in 1..Len(line[g])}

Init ==
  /\ inside = [g \in Gates |-> {}]
  /\ line = [g \in Gates |-> <<>>]
  /\ thrown = [g \in Gates |-> FALSE]

Enter(g, c) ==
  /\ ~thrown[g]
  /\ c \notin inside[g] /\ c \notin Waiting(g)
  /\ line[g] = <<>> /\ Cardinality(inside[g]) < Limit
  /\ inside' = [inside EXCEPT ![g] = @ \cup {c}]
  /\ UNCHANGED <<line, thrown>>

Queue(g, c) ==
  /\ ~thrown[g]
  /\ c \notin inside[g] /\ c \notin Waiting(g)
  /\ Cardinality(inside[g]) = Limit
  /\ line' = [line EXCEPT ![g] = Append(@, c)]
  /\ UNCHANGED <<inside, thrown>>

GiveUp(g, n) ==
  /\ line' = [line EXCEPT ![g] = RemoveAt(@, n)]
  /\ UNCHANGED <<inside, thrown>>

Leave(g, c) ==
  /\ c \in inside[g]
  /\ IF line[g] = <<>>
     THEN inside' = [inside EXCEPT ![g] = @ \ {c}] /\ UNCHANGED line
     ELSE /\ inside' = [inside EXCEPT ![g] = (@ \ {c}) \cup {Head(line[g])}]
          /\ line' = [line EXCEPT ![g] = Tail(@)]
  /\ UNCHANGED thrown

ThrowOpen(g) ==
  /\ thrown' = [thrown EXCEPT ![g] = TRUE]
  /\ line' = [line EXCEPT ![g] = <<>>]
  /\ UNCHANGED inside

Next == \E g \in Gates :
  \/ \E c \in Calls : Enter(g, c) \/ Queue(g, c) \/ Leave(g, c)
  \/ \E n \in 1..Len(line[g]) : GiveUp(g, n)
  \/ ThrowOpen(g)

Spec == Init /\ [][Next]_vars
=============================================================================
