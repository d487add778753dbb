---------------------------- MODULE HeldCallCard ----------------------------
(***************************************************************************)
(* One held tool call on the agent's side: the prompter that posts the     *)
(* approval card and waits (prompter.ts, registry.ts), the clicks on it    *)
(* (decisions.ts), and the tool client that re-submits the call when the   *)
(* wait is over, whatever its end (tools.ts).  The proxy is what           *)
(* OneShotApproval promises of the call's ticket; ApprovalGate implements  *)
(* that promise.                                                           *)
(*                                                                         *)
(* Time is left out: the deadline is on the agent's clock and the ticket's *)
(* expiry on the proxy's, and either may come first.                       *)
(***************************************************************************)
EXTENDS Naturals, FiniteSets

CONSTANTS
  Clicks,  \* clicks on the card, by anybody
  Ticket   \* the ticket of the hold

VARIABLES
  status,  \* the proxy's ticket: see OneShotApproval
  runs,    \* calls that reached the upstream on it
  wait,    \* the prompter's state for this hold
  shown,   \* the face the channel sees, or "nothing"
  updates, \* updateCard requests under way, each the face it paints
  issued,  \* every face updateCard was ever called with
  click,   \* [Clicks -> where a click stands]
  task,    \* where the tool client stands in `execute'
  call,    \* the re-submission, at the proxy
  aborted  \* the task's signal: its wall clock, or shutdown

proxyVars == <<status, runs>>
vars == <<status, runs, wait, shown, updates, issued, click, task, call, aborted>>

Proxy == INSTANCE OneShotApproval WITH Tickets <- {Ticket}

-----------------------------------------------------------------------------
Verdicts == {"approved", "denied"}
Ends     == Verdicts \cup {"expired"}

\* Faces that are the last word on a hold, and all that updateCard may paint.
Final == {"approved", "refused", "unanswered", "denied", "expired"}
Faces == Final \cup {"running"}

\* post: the postCard request; settled: the wait's end; finished: its end is
\* acted on; completed: the second phase is over.
Wait == [post : {"none", "sent", "posted", "failed"}, settled : Ends \cup {"none"},
         finished : BOOLEAN, completed : BOOLEAN]

\* relayed: the registry had the entry, and the proxy is being asked; failed:
\* the agent has given up on the proxy's answer, which may still be coming.
Click == [at : {"none", "clicked", "relayed", "failed", "over"},
          verdict : Verdicts, answer : Ends \cup {"none"}]

Unclicked == [at |-> "none", verdict |-> "denied", answer |-> "none"]

Init ==
  /\ status = [t \in {Ticket} |-> "open"]
  /\ runs = [t \in {Ticket} |-> 0]
  /\ wait = [post |-> "none", settled |-> "none", finished |-> FALSE, completed |-> FALSE]
  /\ shown = "nothing"
  /\ updates = {}
  /\ issued = {}
  /\ click = [c \in Clicks |-> Unclicked]
  /\ task = "held"
  /\ call = "none"
  /\ aborted = FALSE

-----------------------------------------------------------------------------
(***************************************************************************)
(* The prompter                                                            *)
(***************************************************************************)
\* The entry is in the registry, and the deadline and onAbort are armed.
Waiting == wait.post # "none" /\ wait.settled = "none"

FaultyArmed == wait.finished /\ wait.settled = "approved" /\ wait.post = "posted"  \* fault: nothing disarms it

\* There is a completion, and onAbandoned is listening: neither has painted yet.
Armed == wait.finished /\ wait.settled = "approved" /\ wait.post = "posted" /\ ~wait.completed

Paint(face) ==
  /\ updates' = updates \cup {face}
  /\ issued' = issued \cup {face}

FaultyFaceOf(end) == end  \* fault: green when the human approves

\* An approve is half the story.
FaceOf(end) == IF end = "approved" THEN "running" ELSE end

\* finish, of a wait whose state is now w: the end is acted on once it is known
\* and the post is answered.  With no card the task goes on at once; with one,
\* when the repaint is answered.
Finish(w) ==
  IF w.finished \/ w.settled = "none" \/ w.post \notin {"posted", "failed"}
  THEN wait' = w /\ UNCHANGED <<updates, issued, task>>
  ELSE /\ wait' = [w EXCEPT !.finished = TRUE]
       /\ IF w.post = "posted"
          THEN Paint(FaceOf(w.settled)) /\ UNCHANGED task
          ELSE task' = "resolved" /\ UNCHANGED <<updates, issued>>

\* settle: the first end wins; a later one changes nothing, and does not finish.
Settle(w, end) ==
  IF w.settled # "none"
  THEN wait' = w /\ UNCHANGED <<updates, issued, task>>
  ELSE Finish([w EXCEPT !.settled = end])

\* A task already ending gets no card.
Hold ==
  /\ task = "held" /\ wait.post = "none"
  /\ IF aborted
     THEN task' = "resolved" /\ UNCHANGED wait
     ELSE wait' = [wait EXCEPT !.post = "sent"] /\ UNCHANGED task
  /\ UNCHANGED <<status, runs, shown, updates, issued, click, call, aborted>>

\* The card may be in the channel before postCard answers, and when it fails.
CardAppears ==
  /\ wait.post = "sent" /\ shown = "nothing"
  /\ shown' = "awaiting"
  /\ UNCHANGED <<status, runs, wait, updates, issued, click, task, call, aborted>>

Posted ==
  /\ wait.post = "sent" /\ shown = "awaiting"
  /\ Finish([wait EXCEPT !.post = "posted"])
  /\ UNCHANGED <<status, runs, shown, click, call, aborted>>

PostFails ==
  /\ wait.post = "sent"
  /\ Settle([wait EXCEPT !.post = "failed"], "expired")
  /\ UNCHANGED <<status, runs, shown, click, call, aborted>>

Deadline ==
  /\ Waiting
  /\ Settle(wait, "expired")
  /\ UNCHANGED <<status, runs, shown, click, call, aborted>>

\* The first repaint's answer, good or bad, ends the tool client's wait.
Resolved(face) == IF face \in {"running", "denied", "expired"} THEN "resolved" ELSE task

UpdateLands(face) ==
  /\ face \in updates
  /\ shown' = face
  /\ updates' = updates \ {face}
  /\ task' = Resolved(face)
  /\ UNCHANGED <<status, runs, wait, issued, click, call, aborted>>

UpdateFails(face) ==
  /\ face \in updates
  /\ updates' = updates \ {face}
  /\ task' = Resolved(face)
  /\ UNCHANGED <<status, runs, wait, shown, issued, click, call, aborted>>

-----------------------------------------------------------------------------
(***************************************************************************)
(* A click, from Slack to the proxy and back                               *)
(***************************************************************************)
Press(c, v) ==
  /\ click[c].at = "none" /\ shown = "awaiting"
  /\ click' = [click EXCEPT ![c] = [at |-> "clicked", verdict |-> v, answer |-> "none"]]
  /\ UNCHANGED <<status, runs, wait, shown, updates, issued, task, call, aborted>>

\* registry.get; a click on a wait that is over is dropped.
Relay(c) ==
  /\ click[c].at = "clicked"
  /\ click' = [click EXCEPT ![c].at = IF Waiting THEN "relayed" ELSE "over"]
  /\ UNCHANGED <<status, runs, wait, shown, updates, issued, task, call, aborted>>

\* What the proxy answers on a ticket it does not settle now.  A ticket spent
\* may have died since.
Standing ==
  CASE status[Ticket] = "denied"   -> {"denied"}
    [] status[Ticket] = "approved" -> {"approved"}
    [] status[Ticket] = "spent"    -> {"approved", "expired"}
    [] OTHER                       -> {"expired"}

\* The broker decides, also for a relay the agent has given up on.
ProxyDecides(c) ==
  /\ click[c].at \in {"relayed", "failed"} /\ click[c].answer = "none"
  /\ \/ /\ Proxy!Settle(Ticket, click[c].verdict)
        /\ click' = [click EXCEPT ![c].answer = click[c].verdict]
     \/ /\ status[Ticket] # "open"
        /\ \E a \in Standing : click' = [click EXCEPT ![c].answer = a]
        /\ UNCHANGED proxyVars
  /\ UNCHANGED <<wait, shown, updates, issued, task, call, aborted>>

FaultyEndOf(c) ==  \* fault: settles with the click, not with the answer
  IF click[c].answer = "expired" THEN "expired" ELSE click[c].verdict

\* The first verdict is what the wait settles with, whoever clicked.
EndOf(c) == click[c].answer

Deliver(c) ==
  /\ click[c].at = "relayed" /\ click[c].answer # "none"
  /\ click' = [click EXCEPT ![c].at = "over"]
  /\ Settle(wait, EndOf(c))
  /\ UNCHANGED <<status, runs, shown, call, aborted>>

\* The answer is lost or late: the entry stays registered, the card amber.
RelayFails(c) ==
  /\ click[c].at = "relayed"
  /\ click' = [click EXCEPT ![c].at = "failed"]
  /\ UNCHANGED <<status, runs, wait, shown, updates, issued, task, call, aborted>>

-----------------------------------------------------------------------------
(***************************************************************************)
(* The re-submission                                                       *)
(***************************************************************************)
\* On an aborted signal the transport rejects before it sends.
Resubmit ==
  /\ task = "resolved"
  /\ IF aborted
     THEN task' = "over" /\ UNCHANGED call
     ELSE task' = "waiting" /\ call' = "sent"
  /\ UNCHANGED <<status, runs, wait, shown, updates, issued, click, aborted>>

Unmoved == UNCHANGED <<wait, shown, updates, issued, click, task, aborted>>

\* The ticket is not redeemed, or the sheet or the budget refuses it anyway.
ProxyRefuses ==
  /\ call = "sent" /\ call' = "refused"
  /\ UNCHANGED proxyVars /\ Unmoved

ProxyRedeems ==
  /\ call = "sent" /\ call' = "spent"
  /\ Proxy!Spend(Ticket) /\ Unmoved

\* Refused, or not served, while serving: the ticket is gone, nothing ran.
ProxyStops ==
  /\ call = "spent" /\ call' \in {"refused", "failed"}
  /\ UNCHANGED proxyVars /\ Unmoved

ProxyRuns ==
  /\ call = "spent" /\ call' \in {"ran", "failed"}
  /\ Proxy!Run(Ticket) /\ Unmoved

Outcome == IF call = "ran" THEN "approved" ELSE "refused"

\* The answer arrives; the completion is told, if the card is still open.
CallAnswers ==
  /\ task = "waiting" /\ call \in {"ran", "refused"}
  /\ task' = "over"
  /\ IF Armed
     THEN wait' = [wait EXCEPT !.completed = TRUE] /\ Paint(Outcome)
     ELSE UNCHANGED <<wait, updates, issued>>
  /\ UNCHANGED <<status, runs, shown, click, call, aborted>>

\* A 500 or 501, a broken connection, the transport's own deadline: execute
\* throws, and nobody tells the completion.
CallThrows ==
  /\ task = "waiting"
  /\ task' = "over"
  /\ UNCHANGED <<status, runs, wait, shown, updates, issued, click, call, aborted>>

FaultyAbandoned == FALSE  \* fault: no listener outlives the wait

Abandoned == Armed

\* The wall clock, or shutdown; it comes to every task, also after its end.
\* The listeners: onAbort or onAbandoned, and the transport's.
Abort ==
  /\ ~aborted
  /\ aborted' = TRUE
  /\ IF Waiting
     THEN Settle(wait, "expired")
     ELSE /\ IF Abandoned
             THEN wait' = [wait EXCEPT !.completed = TRUE] /\ Paint("unanswered")
             ELSE UNCHANGED <<wait, updates, issued>>
          /\ task' = IF task = "waiting" THEN "over" ELSE task
  /\ UNCHANGED <<status, runs, shown, click, call>>

\* The ticket expires or is evicted, or the proxy restarts.
TicketLapses ==
  /\ status[Ticket] \in {"open", "approved", "denied"}
  /\ Proxy!Lapse({Ticket})
  /\ UNCHANGED <<wait, shown, updates, issued, click, task, call, aborted>>

-----------------------------------------------------------------------------
Next ==
  \/ Hold \/ CardAppears \/ Posted \/ PostFails \/ Deadline
  \/ \E f \in Faces : UpdateLands(f) \/ UpdateFails(f)
  \/ \E c \in Clicks, v \in Verdicts : Press(c, v)
  \/ \E c \in Clicks : Relay(c) \/ ProxyDecides(c) \/ Deliver(c) \/ RelayFails(c)
  \/ Resubmit \/ ProxyRefuses \/ ProxyRedeems \/ ProxyStops \/ ProxyRuns
  \/ CallAnswers \/ CallThrows \/ Abort \/ TicketLapses

\* The client's own steps happen, Slack's requests end one way or the other,
\* the timers fire.  Neither a human nor the proxy is relied on.
Fairness ==
  /\ WF_vars(Hold) /\ WF_vars(Resubmit) /\ WF_vars(Deadline) /\ WF_vars(Abort)
  /\ WF_vars(Posted \/ PostFails)
  /\ \A f \in Faces : WF_vars(UpdateLands(f) \/ UpdateFails(f))
  /\ WF_vars(CallAnswers \/ CallThrows)

Spec == Init /\ [][Next]_vars /\ Fairness

-----------------------------------------------------------------------------
(***************************************************************************)
(* Properties                                                              *)
(***************************************************************************)
TypeOK ==
  /\ status \in [{Ticket} -> Proxy!Status]
  /\ runs \in [{Ticket} -> {0, 1}]
  /\ wait \in Wait
  /\ shown \in Faces \cup {"nothing", "awaiting"}
  /\ updates \subseteq Faces
  /\ issued \subseteq Faces
  /\ click \in [Clicks -> Click]
  /\ task \in {"held", "resolved", "waiting", "over"}
  /\ call \in {"none", "sent", "refused", "spent", "ran", "failed"}
  /\ aborted \in BOOLEAN

\* The card never says of the call what is not so: green is a call that ran,
\* and one denied, or refused after the approval, never runs.  (#143)
ColoursAreTrue ==
  /\ "approved" \in issued => runs[Ticket] = 1
  /\ issued \cap {"denied", "refused"} # {} => runs[Ticket] = 0

\* The wait's end is the proxy's first verdict, also when the click that made
\* it was never answered and another person's click brought the news.
VerdictIsTheProxys ==
  /\ wait.settled = "approved" => status[Ticket] \in {"approved", "spent", "lapsed"}
  /\ wait.settled = "denied"   => status[Ticket] \in {"denied", "lapsed"}

\* Of the re-submission's answer and the task's end, one paints the card.
OneLastWord == Cardinality(issued \cap Final) <= 1

\* A held task is held by something still to come, the post's answer, the
\* deadline or that of the first repaint, except by a wait that ended before
\* its post failed (WaitStillEnds).
HeldTasksGoOn == task = "held" =>
  \/ wait.post \in {"none", "sent"} \/ Waiting
  \/ updates \cap {"running", "denied", "expired"} # {}
  \/ wait.post = "failed" /\ ~wait.finished

\* A repaint to `running' made while the task lives is followed by the card's
\* last word, though the re-submission's answer may never come.
RunningIsFollowed ==
  (wait.finished /\ wait.post = "posted" /\ ~aborted) ~> (issued \cap Final # {})

\* No card is left reading "the call is running" forever (prompter.ts:24-31).
CardIsClosed == (wait.post = "posted") ~> (issued \cap Final # {})

\* "The wait still ends" where there is no card (prompter.ts:199-201).
WaitStillEnds == wait.settled # "none" /\ wait.post = "failed" => wait.finished

\* "Expired: nobody decided before the deadline. The call did not run."
ExpiredDidNotRun == shown = "expired" => runs[Ticket] = 0
=============================================================================
