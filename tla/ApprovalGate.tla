---------------------------- MODULE ApprovalGate ----------------------------
(***************************************************************************)
(* The call-time gate of the tool proxy: POST /v1/tools/call (callTool in  *)
(* packages/proxy/src/server.ts), POST /v1/approvals (approvals-route.ts)  *)
(* and the ticket store between them (approvals.ts).                       *)
(*                                                                         *)
(* A slot is one connection being served; a slot is used again once it has *)
(* answered.  The handler is cut into steps at its awaits: what the code   *)
(* does between two awaits is one action, and any other request, click,    *)
(* edit of the sheet, tick of the clock or restart may come between two    *)
(* actions of one request.                                                 *)
(*                                                                         *)
(* Call arguments are a member of Calls: a server, a tool and the hash of  *)
(* the arguments, which is all redeem compares.  A sheet is the ruling it  *)
(* gives each call, its daily_tool_calls and the count its warn_at stands  *)
(* for; an absent or unreadable sheet is one that refuses every call.      *)
(***************************************************************************)
EXTENDS Integers, FiniteSets

CONSTANTS
  Channels,   \* channels, each a certificate's CN
  Slots,      \* connections the proxy serves at once
  Calls,      \* (server, tool, argument hash) triples
  Sheets,     \* team sheets an operator may put in place
  TopCap,     \* the largest daily_tool_calls among them
  TTL,        \* APPROVAL_TTL_MS in ticks
  Retention,  \* TICKET_RETENTION_MS in ticks
  TicketCap,  \* MAX_TICKETS_PER_CHANNEL
  MaxMints,   \* bound: tickets minted in a behaviour
  MaxTime     \* bound: ticks of the clock

Rulings == {"refuse", "hold", "allow"}

ASSUME GateAssumption ==
  /\ Channels # {} /\ Calls # {} /\ Sheets # {}
  /\ IsFiniteSet(Slots) /\ Slots # {}
  /\ TTL \in Nat \ {0} /\ Retention \in Nat /\ TicketCap \in Nat \ {0}
  /\ MaxMints \in Nat /\ MaxTime \in Nat
  /\ TopCap \in Nat /\ \A s \in Sheets : s.cap <= TopCap
  /\ \A s \in Sheets : s \in [rule : [Calls -> Rulings], cap : Nat, warnAt : Nat]

TicketIds == 1..MaxMints
NoTicket  == 0

\* AuditOutcome of packages/schema/src/audit.ts.
Outcomes == {"ran", "held", "refused", "unavailable", "unanswered",
             "approved", "denied", "expired"}

VARIABLES
  now,       \* the process's clock
  sheet,     \* [Channels -> Sheets]: what the operator has in place
  known,     \* tickets in the store's maps (byChannel)
  minted,    \* tickets minted so far; ids are never used twice
  ticket,    \* [TicketIds -> ApprovalTicketRecord], kept after deletion
  req,       \* [Slots -> the request being served]
  calls,     \* [Channels -> Nat]: channel_spend.tool_calls of today
  warned,    \* channels whose warning of today is claimed (budget_warning)
  captured,  \* calls in the attempts file
  rows,      \* [TicketIds -> SUBSET Outcomes]: outcomes of audit rows of a ticket
  expiries,  \* [TicketIds -> Nat]: `expired' rows of a ticket
  runs       \* [TicketIds -> Nat]: dispatches made on a redeemed ticket

vars == <<now, sheet, known, minted, ticket, req, calls, warned, captured,
          rows, expiries, runs>>
store   == <<known, minted, ticket>>
meter   == <<calls, warned>>
record  == <<captured, rows, expiries>>

-----------------------------------------------------------------------------
(***************************************************************************)
(* Types and initial state                                                 *)
(***************************************************************************)
Verdicts == {"null", "approve", "deny"}

TicketRecord ==
  [chan : Channels, call : Calls, expiresAt : Nat, verdict : Verdicts,
   spent : BOOLEAN, seen : BOOLEAN, offered : BOOLEAN]

\* spend, sheet: what the request read; appended: audit rows it wrote;
\* audited: the audit closure was entered; metered: its call was counted.
Request ==
  [pc : {"idle", "reading", "resolved", "metered", "dispatched", "recorded", "answered"},
   chan : Channels, call : Calls, with : {NoTicket} \cup TicketIds,
   spend : Nat, sheet : Sheets, decided : BOOLEAN, audited : BOOLEAN,
   appended : Nat, lost : BOOLEAN, metered : BOOLEAN]

Idle ==
  [pc |-> "idle", chan |-> CHOOSE c \in Channels : TRUE, call |-> CHOOSE k \in Calls : TRUE,
   with |-> NoTicket, spend |-> 0, sheet |-> CHOOSE s \in Sheets : TRUE, decided |-> FALSE,
   audited |-> FALSE, appended |-> 0, lost |-> FALSE, metered |-> FALSE]

BlankTicket ==
  [chan |-> CHOOSE c \in Channels : TRUE, call |-> CHOOSE k \in Calls : TRUE, expiresAt |-> 0,
   verdict |-> "null", spent |-> FALSE, seen |-> FALSE, offered |-> FALSE]

Held(c) == {t \in known : ticket[t].chan = c}

Types ==
  /\ now \in 0..MaxTime
  /\ sheet \in [Channels -> Sheets]
  /\ minted \in 0..MaxMints
  /\ known \subseteq 1..minted
  /\ ticket \in [TicketIds -> TicketRecord]
  /\ req \in [Slots -> Request]
  /\ calls \in [Channels -> Nat]
  /\ warned \subseteq Channels
  /\ captured \subseteq Calls
  /\ rows \in [TicketIds -> SUBSET Outcomes]
  /\ expiries \in [TicketIds -> Nat]
  /\ runs \in [TicketIds -> Nat]

\* State types, and the bound approvals.ts puts on the one map a refused
\* call can grow: a channel holds at most MAX_TICKETS_PER_CHANNEL tickets.
TypeOK == Types /\ \A c \in Channels : Cardinality(Held(c)) <= TicketCap

Init ==
  /\ now = 0
  /\ sheet \in [Channels -> Sheets]
  /\ known = {} /\ minted = 0
  /\ ticket = [t \in TicketIds |-> BlankTicket]
  /\ req = [r \in Slots |-> Idle]
  /\ calls = [c \in Channels |-> 0]
  /\ warned = {} /\ captured = {}
  /\ rows = [t \in TicketIds |-> {}]
  /\ expiries = [t \in TicketIds |-> 0]
  /\ runs = [t \in TicketIds |-> 0]

-----------------------------------------------------------------------------
(***************************************************************************)
(* Enforcement: what decideFromState says of a call.  The sheet's ruling,  *)
(* with an exhausted budget refusing what the sheet would serve or hold.   *)
(***************************************************************************)
FaultyRuling(q) ==  \* fault: a cap reached is not a cap exhausted
  IF q.spend > q.sheet.cap THEN "refuse" ELSE q.sheet.rule[q.call]

Ruling(q) ==
  IF q.spend >= q.sheet.cap THEN "refuse" ELSE q.sheet.rule[q.call]

\* crossedThreshold, from the spend the decision read; 0 switches it off.
Warns(q) == q.sheet.warnAt # 0 /\ q.spend >= q.sheet.warnAt

(***************************************************************************)
(* The ticket store                                                        *)
(***************************************************************************)
FaultyIsDead(t) == now > ticket[t].expiresAt  \* fault: the window is closed

\* Dead at expiresAt, not after it.
IsDead(t) == now >= ticket[t].expiresAt

FaultyFind(c, t) == t \in known  \* fault: one flat map for all channels

Find(c, t) == t \in Held(c)

FaultyUnseen(t) == TRUE  \* fault: every observer of an expiry is the first

\* observeExpiry's answer, before it marks the ticket.
Unseen(t) == ~ticket[t].seen

FaultyUndecided(t) == TRUE  \* fault: a later verdict overwrites

Undecided(t) == ticket[t].verdict = "null"

FaultyRedeemOutcome(q) ==  \* fault: the presented call is not compared
  LET t == q.with IN
  IF ~Find(q.chan, t) THEN "unknown" ELSE IF IsDead(t) THEN "expired"
  ELSE IF ticket[t].spent THEN "spent" ELSE IF Undecided(t) THEN "pending"
  ELSE IF ticket[t].verdict = "deny" THEN "denied" ELSE "redeemed"

\* What redeem answers for a call presented with a ticket.
RedeemOutcome(q) ==
  LET t == q.with IN
  IF ~Find(q.chan, t) THEN "unknown"
  ELSE IF IsDead(t) THEN "expired"
  ELSE IF ticket[t].spent THEN "spent"
  ELSE IF Undecided(t) THEN "pending"
  ELSE IF ticket[t].verdict = "deny" THEN "denied"
  ELSE IF ticket[t].call # q.call THEN "mismatch"
  ELSE "redeemed"

\* mint prunes what has been dead for the retention window, then evicts the
\* oldest until there is room.  Ids grow, so the newest are the largest.
Remembered(c) == {t \in Held(c) : now < ticket[t].expiresAt + Retention}

Kept(c) ==
  {t \in Remembered(c) : Cardinality({u \in Remembered(c) : u > t}) < TicketCap - 1}

Mint(c, k, offered) ==
  /\ minted' = minted + 1
  /\ known' = (known \ Held(c)) \cup Kept(c) \cup {minted + 1}
  /\ ticket' = [ticket EXCEPT ![minted + 1] =
       [chan |-> c, call |-> k, expiresAt |-> now + TTL, verdict |-> "null",
        spent |-> FALSE, seen |-> FALSE, offered |-> offered]]

(***************************************************************************)
(* The audit closure.  `how' is what its writes do: the row lands; it      *)
(* lands and the log line then throws; the append throws; or the capture   *)
(* of a blocked call's arguments throws before the append.  A throw makes  *)
(* the answer a 500 and is never followed by a second row, because the     *)
(* closure was entered.                                                    *)
(***************************************************************************)
Blocked == {"refused", "held", "expired"}

Writes(o) == {"row", "rowThenThrow", "noRow"} \cup (IF o \in Blocked THEN {"noCapture"} ELSE {})

Lands(how) == how \in {"row", "rowThenThrow"}

Capture(k, o, how) ==
  captured' = IF o \in Blocked /\ how # "noCapture" THEN captured \cup {k} ELSE captured

Append(t, o, how) ==
  /\ rows' = IF t # NoTicket /\ Lands(how) THEN [rows EXCEPT ![t] = @ \cup {o}] ELSE rows
  /\ expiries' = IF t # NoTicket /\ Lands(how) /\ o = "expired"
                 THEN [expiries EXCEPT ![t] = @ + 1] ELSE expiries

\* All that is left of a request once it is answered.
Answered(q) ==
  [Idle EXCEPT !.pc = "answered", !.decided = q.decided, !.audited = q.audited,
               !.appended = q.appended, !.lost = q.lost]

\* One entry to the closure, for request q and ticket t.
Audit(r, q, t, o, how, next) ==
  LET entered == [q EXCEPT !.pc = next, !.audited = TRUE, !.lost = ~Lands(how),
                           !.appended = IF Lands(how) THEN @ + 1 ELSE @] IN
  /\ req' = [req EXCEPT ![r] =
       IF next = "answered" \/ how # "row" THEN Answered(entered) ELSE entered]
  /\ Capture(q.call, o, how)
  /\ Append(t, o, how)

FaultyCaught(r, q) ==  \* fault: an accident after the decision leaves no row
  req' = [req EXCEPT ![r] = Answered(q)] /\ UNCHANGED record

\* The catch around everything after the decision: it writes a row only if
\* the closure was never entered.
Caught(r, q) ==
  IF q.audited
  THEN req' = [req EXCEPT ![r] = Answered(q)] /\ UNCHANGED record
  ELSE \E how \in Writes("unanswered") : Audit(r, q, q.with, "unanswered", how, "answered")

-----------------------------------------------------------------------------
(***************************************************************************)
(* POST /v1/tools/call                                                     *)
(***************************************************************************)
\* Requests that may yet mint a ticket, and whether another one may come: with
\* this bound on arrivals no request is left without a ticket to mint.
Holdable(k) == \E s \in Sheets : s.rule[k] = "hold"

Minters ==
  {r \in Slots : /\ req[r].pc \in {"reading", "resolved"}
                 /\ req[r].with = NoTicket /\ Holdable(req[r].call)}

MintsLeft == minted + Cardinality(Minters) < MaxMints

\* The handler's first synchronous stretch: the sheet is asked for, and the
\* meter is read at once.  A client can only name a ticket it was handed.
Arrive(r, c, k, t) ==
  /\ req[r].pc = "idle"
  /\ t = NoTicket /\ Holdable(k) => MintsLeft
  /\ t # NoTicket => t <= minted /\ ticket[t].offered
  /\ req' = [req EXCEPT ![r] = [Idle EXCEPT !.pc = "reading", !.chan = c, !.call = k,
                                            !.with = t, !.spend = calls[c]]]
  /\ UNCHANGED <<now, sheet, store, meter, record, runs>>

\* sheets.resolve answers; the sheet may change again before the decision.
Resolve(r) ==
  /\ req[r].pc = "reading"
  /\ req' = [req EXCEPT ![r].pc = "resolved", ![r].sheet = sheet[req[r].chan]]
  /\ UNCHANGED <<now, sheet, store, meter, record, runs>>

\* A throw above the decision: a 500, and no row.
ResolveThrows(r) ==
  /\ req[r].pc = "reading"
  /\ req' = [req EXCEPT ![r] = Answered(req[r])]
  /\ UNCHANGED <<now, sheet, store, meter, record, runs>>

Decided(r) == [req[r] EXCEPT !.decided = TRUE]

\* A refusal is answered before the ticket is looked at.
Refuse(r) ==
  /\ req[r].pc = "resolved"
  /\ Ruling(req[r]) = "refuse"
  /\ \E how \in Writes("refused") :
       Audit(r, Decided(r), req[r].with, "refused", how, "answered")
  /\ UNCHANGED <<now, sheet, store, meter, runs>>

\* A first submission the sheet holds: mint, then the row that names it.
Hold(r) ==
  /\ req[r].pc = "resolved"
  /\ req[r].with = NoTicket
  /\ Ruling(req[r]) = "hold"
  /\ minted < MaxMints
  /\ \E how \in Writes("held") :
       /\ Mint(req[r].chan, req[r].call, how = "row")
       /\ Audit(r, Decided(r), minted + 1, "held", how, "answered")
  /\ UNCHANGED <<now, sheet, meter, runs>>

FaultyDeclined(q) == RedeemOutcome(q) \notin {"redeemed", "pending"}  \* fault: who asks too early is kept waiting

Declined(q) == RedeemOutcome(q) # "redeemed"

\* A re-submission the store does not redeem.  Only an expiry nobody has seen
\* yet is an `expired' row, and looking is what marks it seen.
TurnAway(r) ==
  LET t == req[r].with
      fresh == RedeemOutcome(req[r]) = "expired" /\ Unseen(t)
      o == IF fresh THEN "expired" ELSE "refused"
  IN
  /\ req[r].pc = "resolved"
  /\ t # NoTicket
  /\ Ruling(req[r]) # "refuse"
  /\ Declined(req[r])
  /\ ticket' = IF fresh THEN [ticket EXCEPT ![t].seen = TRUE] ELSE ticket
  /\ \E how \in Writes(o) : Audit(r, Decided(r), t, o, how, "answered")
  /\ UNCHANGED <<now, sheet, known, minted, meter, runs>>

Serves(q) ==
  \/ q.with = NoTicket /\ Ruling(q) = "allow"
  \/ q.with # NoTicket /\ Ruling(q) # "refuse" /\ RedeemOutcome(q) = "redeemed"

FaultyRedeemed(t) == ticket  \* fault: redeeming does not spend

Redeemed(t) == IF t = NoTicket THEN ticket ELSE [ticket EXCEPT ![t].spent = TRUE]

\* The proxy commits to serving: the ticket is spent and the call counted.
Commit(r) ==
  LET c == req[r].chan IN
  /\ req[r].pc = "resolved"
  /\ Serves(req[r])
  /\ ticket' = Redeemed(req[r].with)
  /\ calls' = [calls EXCEPT ![c] = @ + 1]
  /\ req' = [req EXCEPT ![r] = [Decided(r) EXCEPT !.pc = "metered", !.metered = TRUE]]
  /\ UNCHANGED <<now, sheet, known, minted, warned, record, runs>>

\* A meter that cannot write does not serve; the ticket is spent all the same.
CommitThrows(r) ==
  /\ req[r].pc = "resolved"
  /\ Serves(req[r])
  /\ ticket' = Redeemed(req[r].with)
  /\ Caught(r, Decided(r))
  /\ UNCHANGED <<now, sheet, known, minted, meter, runs>>

Dispatch(r) ==
  LET t == req[r].with IN
  /\ req[r].pc = "metered"
  /\ req' = [req EXCEPT ![r].pc = "dispatched"]
  /\ runs' = IF t = NoTicket THEN runs ELSE [runs EXCEPT ![t] = @ + 1]
  /\ UNCHANGED <<now, sheet, store, meter, record>>

\* The dispatcher's answer.  Only a `ran' has anything left to do.
Served(r, o) ==
  /\ req[r].pc = "dispatched"
  /\ \E how \in Writes(o) :
       Audit(r, req[r], req[r].with, o, how, IF o = "ran" THEN "recorded" ELSE "answered")
  /\ UNCHANGED <<now, sheet, store, meter, runs>>

DispatchThrows(r) ==
  /\ req[r].pc = "dispatched"
  /\ Caught(r, req[r])
  /\ UNCHANGED <<now, sheet, store, meter, runs>>

\* The soft limit: claimed only by an answer that can carry it.
Notice(r) ==
  /\ req[r].pc = "recorded"
  /\ warned' = IF Warns(req[r]) THEN warned \cup {req[r].chan} ELSE warned
  /\ req' = [req EXCEPT ![r] = Answered(req[r])]
  /\ UNCHANGED <<now, sheet, store, calls, record, runs>>

NoticeThrows(r) ==
  /\ req[r].pc = "recorded"
  /\ Warns(req[r])
  /\ Caught(r, req[r])
  /\ UNCHANGED <<now, sheet, store, meter, runs>>

\* The connection is free for another request.
Reply(r) ==
  /\ req[r].pc = "answered"
  /\ req' = [req EXCEPT ![r] = Idle]
  /\ UNCHANGED <<now, sheet, store, meter, record, runs>>

Step(r) ==
  \/ Resolve(r) \/ ResolveThrows(r)
  \/ Refuse(r) \/ Hold(r) \/ TurnAway(r) \/ Commit(r) \/ CommitThrows(r)
  \/ Dispatch(r) \/ DispatchThrows(r)
  \/ \E o \in {"ran", "refused", "unavailable"} : Served(r, o)
  \/ Notice(r) \/ NoticeThrows(r) \/ Reply(r)

-----------------------------------------------------------------------------
(***************************************************************************)
(* POST /v1/approvals: a human's click on a ticket of the certificate's    *)
(* channel.  The store changes first and the row follows, so a failed      *)
(* append leaves the store changed.  An unknown ticket, an expiry somebody *)
(* has seen and a second verdict change nothing.                           *)
(***************************************************************************)
RouteWrites == {"row", "rowThenThrow", "noRow"}

Expire(c, t) ==
  /\ Find(c, t) /\ ticket[t].offered
  /\ IsDead(t) /\ Unseen(t)
  /\ ticket' = [ticket EXCEPT ![t].seen = TRUE]
  /\ \E how \in RouteWrites : Append(t, "expired", how)
  /\ UNCHANGED <<now, sheet, known, minted, req, meter, captured, runs>>

Decide(c, t, v) ==
  /\ Find(c, t) /\ ticket[t].offered
  /\ ~IsDead(t)
  /\ Undecided(t)
  /\ ticket' = [ticket EXCEPT ![t].verdict = v]
  /\ \E how \in RouteWrites :
       Append(t, IF v = "approve" THEN "approved" ELSE "denied", how)
  /\ UNCHANGED <<now, sheet, known, minted, req, meter, captured, runs>>

-----------------------------------------------------------------------------
(***************************************************************************)
(* The world around the proxy                                              *)
(***************************************************************************)
Tick ==
  /\ now < MaxTime
  /\ now' = now + 1
  /\ UNCHANGED <<sheet, store, req, meter, record, runs>>

EditSheet(c, s) ==
  /\ s # sheet[c]
  /\ sheet' = [sheet EXCEPT ![c] = s]
  /\ UNCHANGED <<now, store, req, meter, record, runs>>

\* Midnight makes every channel's key a new one; `budget reset' deletes one
\* channel's rows of the day, from another process.
ClearDay(C) ==
  /\ calls' = [c \in Channels |-> IF c \in C THEN 0 ELSE calls[c]]
  /\ warned' = warned \ C
  /\ UNCHANGED <<now, sheet, store, req, record, runs>>

\* The tickets and the requests are in memory; the meter and the records are
\* files.  Ids are random, so none is minted twice across a restart.
Restart ==
  /\ known' = {}
  /\ req' = [r \in Slots |-> Idle]
  /\ UNCHANGED <<now, sheet, minted, ticket, meter, record, runs>>

Environment ==
  \/ Tick \/ Restart
  \/ \E c \in Channels, s \in Sheets : EditSheet(c, s)
  \/ \E C \in {{c} : c \in Channels} \cup {Channels} : ClearDay(C)

Next ==
  \/ \E r \in Slots : Step(r)
  \/ \E r \in Slots, c \in Channels, k \in Calls, t \in {NoTicket} \cup TicketIds :
       Arrive(r, c, k, t)
  \/ \E c \in Channels, t \in TicketIds : Expire(c, t)
  \/ \E c \in Channels, t \in TicketIds, v \in {"approve", "deny"} : Decide(c, t, v)
  \/ Environment

\* Node runs a ready continuation, and the dispatcher answers within its
\* deadline; no client need ever come, nor a human click.
Fairness == \A r \in Slots : WF_vars(Step(r))

Spec == Init /\ [][Next]_vars /\ Fairness

-----------------------------------------------------------------------------
(***************************************************************************)
(* Properties                                                              *)
(***************************************************************************)
\* A call is committed to only if the sheet its request read rules it in, its
\* budget was not used up at that read, it was counted, and, where it came
\* with a ticket, a human approved that very call in that channel: callTool
\* enforces before it redeems and redeems before it meters.
DispatchIsAuthorized ==
  \A r \in Slots : req[r].pc \in {"metered", "dispatched", "recorded"} =>
    LET q == req[r]
        k == ticket[q.with] IN
    /\ q.metered /\ q.spend < q.sheet.cap
    /\ IF q.with = NoTicket THEN q.sheet.rule[q.call] = "allow"
       ELSE /\ q.sheet.rule[q.call] # "refuse"
            /\ k.spent /\ k.verdict = "approve" /\ k.call = q.call /\ k.chan = q.chan

\* One approval is in the hands of one request at a time and reaches an
\* upstream once, however many requests present the ticket together: redeem
\* spends it in the stretch that looks at it.
ApprovalServesOnce ==
  /\ \A t \in TicketIds : runs[t] <= 1
  /\ \A r, p \in Slots :
       /\ r # p /\ req[r].with = req[p].with /\ req[r].with # NoTicket
       /\ req[r].pc \in {"metered", "dispatched"}
       => req[p].pc \notin {"metered", "dispatched"}

\* Every decided call leaves one audit row and no call two, whichever of the
\* meter, the dispatcher, the warning or the log line throws; the one way to
\* leave none is that the append itself failed.
OneRowPerDecidedCall ==
  \A r \in Slots : req[r].pc = "answered" =>
    IF req[r].decided
    THEN req[r].appended + (IF req[r].lost THEN 1 ELSE 0) = 1
    ELSE req[r].appended = 0

\* The rows of one ticket tell one story: it was held first and its arguments
\* were captured then, a human said one thing, a denied call never ran, and
\* its expiry was recorded by the first request to see it and no other.
TicketRowsAgree ==
  \A t \in TicketIds :
    /\ rows[t] # {} => "held" \in rows[t] /\ ticket[t].call \in captured
    /\ "denied" \in rows[t] => rows[t] \cap {"approved", "ran"} = {}
    /\ expiries[t] <= 1

\* The overshoot dispatch.ts allows: read, decide and record are not one
\* step, so a channel may pass its cap by the calls in flight, and no further.
OvershootBounded ==
  \A c \in Channels : calls[c] <= TopCap + Cardinality(Slots) - 1

\* Where the broker's promise lies in the store: a spent ticket stays spent,
\* and a ticket that is dead, evicted or dropped by a restart has lapsed.
TicketStatus ==
  [t \in TicketIds |->
     IF t > minted THEN "unissued"
     ELSE IF ticket[t].spent THEN "spent"
     ELSE IF t \notin known \/ now >= ticket[t].expiresAt THEN "lapsed"
     ELSE IF ticket[t].verdict = "null" THEN "open"
     ELSE IF ticket[t].verdict = "deny" THEN "denied" ELSE "approved"]

OneShot == INSTANCE OneShotApproval WITH Tickets <- TicketIds, status <- TicketStatus

\* The gate implements the one-shot approval: no second verdict, no redeeming
\* of a denied, dead, evicted or forgotten ticket, no second run.
OneShotSpec == OneShot!Spec

\* Every request is answered, or dies with the process: no branch of the
\* handler leaves a connection waiting.
RequestsAreAnswered ==
  \A r \in Slots : req[r].pc # "idle" ~> req[r].pc = "idle"

\* What architecture.md and audit.ts say of an `expired' row: it is about a
\* ticket that died undecided.
ExpiredMeansUndecided ==
  \A t \in TicketIds : expiries[t] > 0 => ticket[t].verdict = "null"

\* What budget-meter.ts says of a claim: the day the warning belongs to is the
\* day the spend belongs to.  A channel warned today has then spent today.
WarningIsOfItsDay == \A c \in warned : calls[c] > 0
=============================================================================
