-------------------------- MODULE OneShotApproval ---------------------------
(***************************************************************************)
(* What the approval broker promises about one ticket, whatever the store, *)
(* the clock, the retries and the restarts do in between: a ticket is      *)
(* issued once, a human settles it at most once, an approval is spent at   *)
(* most once and lets at most one call reach an upstream, and a ticket     *)
(* that is denied or has lapsed never does.                                *)
(*                                                                         *)
(* ApprovalGate implements this specification (its property OneShot).      *)
(***************************************************************************)
EXTENDS Naturals

CONSTANT Tickets

VARIABLES
  status,  \* [Tickets -> Status]: where each ticket stands
  runs     \* [Tickets -> Nat]: calls that reached an upstream on the ticket

vars == <<status, runs>>

Status == {"unissued", "open", "approved", "denied", "spent", "lapsed"}

Init ==
  /\ status = [t \in Tickets |-> "unissued"]
  /\ runs = [t \in Tickets |-> 0]

\* Tickets that time, eviction or a restart may take away.
Live == {t \in Tickets : status[t] \in {"open", "approved", "denied"}}

Lapsed(S) == [t \in Tickets |-> IF t \in S THEN "lapsed" ELSE status[t]]

Lapse(S) ==
  /\ status' = Lapsed(S)
  /\ UNCHANGED runs

\* Issuing a ticket may push older ones out.
Issue(t, S) ==
  /\ status[t] = "unissued"
  /\ status' = [Lapsed(S) EXCEPT ![t] = "open"]
  /\ UNCHANGED runs

Settle(t, verdict) ==
  /\ status[t] = "open"
  /\ status' = [status EXCEPT ![t] = verdict]
  /\ UNCHANGED runs

Spend(t) ==
  /\ status[t] = "approved"
  /\ status' = [status EXCEPT ![t] = "spent"]
  /\ UNCHANGED runs

Run(t) ==
  /\ status[t] = "spent"
  /\ runs[t] = 0
  /\ runs' = [runs EXCEPT ![t] = 1]
  /\ UNCHANGED status

Next ==
  \/ \E S \in SUBSET Live : Lapse(S)
  \/ \E t \in Tickets, S \in SUBSET Live : Issue(t, S)
  \/ \E t \in Tickets, v \in {"approved", "denied"} : Settle(t, v)
  \/ \E t \in Tickets : Spend(t) \/ Run(t)

Spec == Init /\ [][Next]_vars
=============================================================================
