------------------------- MODULE ApprovalGateProofs -------------------------
(***************************************************************************)
(* What TLAPS proves of ApprovalGate for every number of channels, slots,  *)
(* calls and tickets, every set of sheets and every length of the windows: *)
(* the types, one row per decided call, that a dispatched call is          *)
(* authorised and an approval good for one run, the two caps, that the     *)
(* rows of a ticket agree, and that the gate implements OneShotApproval.   *)
(*                                                                         *)
(* The argument has two halves.  A ticket only ever moves one way          *)
(* (TicketsStand), so what a request saw when it committed is still true   *)
(* when it dispatches.  And a request changes in few ways (StepMoves), so  *)
(* each invariant is checked against those and not against every action.   *)
(***************************************************************************)
EXTENDS ApprovalGate, FiniteSetTheorems, TLAPS

-----------------------------------------------------------------------------
(***************************************************************************)
(* The records the actions build have their types.                         *)
(***************************************************************************)
LEMMA IdleType == Idle \in Request
BY GateAssumption, SMT DEF Idle, Request, NoTicket, TicketIds

\* A ticket id that was never minted reads as a record.
LEMMA BlankType == BlankTicket \in TicketRecord
BY GateAssumption DEF BlankTicket, TicketRecord, Verdicts

\* A request that was answered is a well-formed slot.
LEMMA AnsweredType ==
  ASSUME NEW q \in Request
  PROVE  Answered(q) \in Request
BY IdleType DEF Answered, Idle, Request

\* A request whose row was attempted is a well-formed slot.
LEMMA EnteredType ==
  ASSUME NEW q \in Request, NEW how, NEW next \in {"answered", "recorded"}
  PROVE  [q EXCEPT !.pc = next, !.audited = TRUE, !.lost = ~Lands(how),
                   !.appended = IF Lands(how) THEN @ + 1 ELSE @] \in Request
<1>1. PICK n \in Nat : n = IF Lands(how) THEN q.appended + 1 ELSE q.appended
  BY DEF Request
<1>2. PICK b \in BOOLEAN : b = ~Lands(how)
  BY DEF Lands
<1>3. [q EXCEPT !.pc = next, !.audited = TRUE, !.lost = b, !.appended = n] \in Request
  BY DEF Request
<1> QED
  BY <1>1, <1>2, <1>3

\* One entry to the audit closure keeps the request and the rows typed.
LEMMA AuditType ==
  ASSUME Types, NEW r \in Slots, NEW q \in Request, NEW t \in {NoTicket} \cup TicketIds,
         NEW o \in Outcomes, NEW how,
         NEW next \in {"answered", "recorded"}, Audit(r, q, t, o, how, next)
  PROVE  /\ req' \in [Slots -> Request]
         /\ captured' \subseteq Calls
         /\ rows' \in [TicketIds -> SUBSET Outcomes]
         /\ expiries' \in [TicketIds -> Nat]
<1> DEFINE entered == [q EXCEPT !.pc = next, !.audited = TRUE, !.lost = ~Lands(how),
                           !.appended = IF Lands(how) THEN @ + 1 ELSE @]
<1>1. entered \in Request
  BY EnteredType
<1>2. Answered(entered) \in Request
  BY <1>1, AnsweredType
<1>3. req' = [req EXCEPT ![r] =
                IF next = "answered" \/ how # "row" THEN Answered(entered) ELSE entered]
  BY DEF Audit
<1>4. req' \in [Slots -> Request]
  BY <1>1, <1>2, <1>3 DEF Types
<1>5. q.call \in Calls
  BY DEF Request
<1>6. captured' \subseteq Calls
  BY <1>5 DEF Audit, Capture, Types
<1>7. rows' \in [TicketIds -> SUBSET Outcomes] /\ expiries' \in [TicketIds -> Nat]
  BY DEF Audit, Append, Types, NoTicket
<1> QED
  BY <1>4, <1>6, <1>7

\* A request that ends in callTool's catch leaves a well-formed slot.
LEMMA CaughtType ==
  ASSUME Types, NEW r \in Slots, NEW q \in Request, Caught(r, q)
  PROVE  /\ req' \in [Slots -> Request]
         /\ captured' \subseteq Calls
         /\ rows' \in [TicketIds -> SUBSET Outcomes]
         /\ expiries' \in [TicketIds -> Nat]
<1>1. CASE q.audited
  BY <1>1, AnsweredType DEF Caught, Types, record
<1>2. CASE ~q.audited
  <2>1. q.with \in {NoTicket} \cup TicketIds /\ "unanswered" \in Outcomes
    BY DEF Request, Outcomes
  <2>2. PICK how \in Writes("unanswered") : Audit(r, q, q.with, "unanswered", how, "answered")
    BY <1>2 DEF Caught
  <2> QED
    BY <2>1, <2>2, AuditType
<1> QED
  BY <1>1, <1>2

\* The mark of a decision keeps the slot well formed.
LEMMA DecidedType ==
  ASSUME Types, NEW r \in Slots
  PROVE  Decided(r) \in Request
<1>1. req[r] \in Request
  BY DEF Types
<1> QED
  BY <1>1 DEF Decided, Request

-----------------------------------------------------------------------------
(***************************************************************************)
(* Types is an invariant: one step per action.                             *)
(***************************************************************************)
LEMMA KeptKnown ==
  ASSUME NEW c \in Channels
  PROVE  Kept(c) \subseteq Held(c) /\ Held(c) \subseteq known
BY DEF Kept, Remembered, Held

\* mint and its eviction keep the store well formed.
LEMMA MintType ==
  ASSUME Types, NEW c \in Channels, NEW k \in Calls, NEW offered \in BOOLEAN,
         minted < MaxMints, Mint(c, k, offered)
  PROVE  /\ minted' \in 0..MaxMints
         /\ known' \subseteq 1..minted'
         /\ ticket' \in [TicketIds -> TicketRecord]
<1>1. minted \in Nat /\ MaxMints \in Nat /\ minted + 1 \in 1..MaxMints
  BY GateAssumption DEF Types
<1>2. minted' \in 0..MaxMints /\ known' \subseteq 1..minted'
  <2>1. known' \subseteq known \cup {minted + 1} /\ minted' = minted + 1
    BY KeptKnown DEF Mint
  <2>2. known \subseteq 1..minted
    BY DEF Types
  <2>3. 1..minted \subseteq 1..(minted + 1) /\ minted + 1 \in 1..(minted + 1)
    BY <1>1
  <2>4. minted + 1 \in 0..MaxMints
    BY <1>1
  <2> QED
    BY <2>1, <2>2, <2>3, <2>4
<1>3. [chan |-> c, call |-> k, expiresAt |-> now + TTL, verdict |-> "null",
        spent |-> FALSE, seen |-> FALSE, offered |-> offered] \in TicketRecord
  BY GateAssumption DEF Types, TicketRecord, Verdicts
<1> QED
  BY <1>1, <1>2, <1>3 DEF Types, Mint, TicketIds

\* Setting one field of one ticket keeps the store typed.
LEMMA TicketType ==
  ASSUME Types, NEW t \in TicketIds
  PROVE  /\ [ticket EXCEPT ![t].spent = TRUE] \in [TicketIds -> TicketRecord]
         /\ [ticket EXCEPT ![t].seen = TRUE] \in [TicketIds -> TicketRecord]
         /\ \A v \in Verdicts :
              [ticket EXCEPT ![t].verdict = v] \in [TicketIds -> TicketRecord]
<1>1. ticket[t] \in TicketRecord
  BY DEF Types
<1>2. /\ [ticket[t] EXCEPT !.spent = TRUE] \in TicketRecord
      /\ [ticket[t] EXCEPT !.seen = TRUE] \in TicketRecord
      /\ \A v \in Verdicts : [ticket[t] EXCEPT !.verdict = v] \in TicketRecord
  BY <1>1 DEF TicketRecord
<1> QED
  BY <1>2 DEF Types

\* The store and the slots are well formed at the start.
LEMMA TypesInit == Init => Types
BY GateAssumption, IdleType, BlankType DEF Init, Types, TicketIds

\* Every step of a request keeps the types.
LEMMA StepTypes ==
  ASSUME Types, NEW r \in Slots, Step(r)
  PROVE  Types'
<1> USE DEF store, meter, record
<1>q. req[r] \in Request /\ Decided(r) \in Request
  BY DecidedType DEF Types
<1>w. req[r].with \in {NoTicket} \cup TicketIds /\ req[r].chan \in Channels
      /\ req[r].call \in Calls
  BY <1>q DEF Request
<1>d. /\ Decided(r).with = req[r].with /\ Decided(r).call = req[r].call
      /\ Decided(r).chan = req[r].chan
  BY <1>q DEF Decided, Request
<1>s. sheet[req[r].chan] \in Sheets
  BY <1>w DEF Types
<1>1. CASE Resolve(r)
  <2>1. [req[r] EXCEPT !.pc = "resolved", !.sheet = sheet[req[r].chan]] \in Request
    BY <1>q, <1>s DEF Request
  <2>2. req' = [req EXCEPT ![r] = [req[r] EXCEPT !.pc = "resolved",
                                                 !.sheet = sheet[req[r].chan]]]
    BY <1>1 DEF Resolve, Types
  <2> QED
    BY <1>1, <2>1, <2>2 DEF Resolve, Types
<1>2. CASE ResolveThrows(r)
  BY <1>2, <1>q, AnsweredType DEF ResolveThrows, Types
<1>3. CASE Refuse(r)
  <2>1. PICK how : Audit(r, Decided(r), req[r].with, "refused", how, "answered")
    BY <1>3 DEF Refuse
  <2> QED
    BY <1>3, <1>q, <1>w, <2>1, AuditType DEF Refuse, Types, Outcomes
<1>4. CASE Hold(r)
  <2>1. PICK how : /\ Mint(req[r].chan, req[r].call, how = "row")
                   /\ Audit(r, Decided(r), minted + 1, "held", how, "answered")
    BY <1>4 DEF Hold
  <2>2. minted < MaxMints /\ minted + 1 \in TicketIds
    BY <1>4, GateAssumption DEF Hold, Types, TicketIds
  <2>3. (how = "row") \in BOOLEAN
    OBVIOUS
  <2>4. /\ minted' \in 0..MaxMints /\ known' \subseteq 1..minted'
        /\ ticket' \in [TicketIds -> TicketRecord]
    BY <1>w, <2>1, <2>2, <2>3, MintType
  <2>5. /\ req' \in [Slots -> Request] /\ captured' \subseteq Calls
        /\ rows' \in [TicketIds -> SUBSET Outcomes] /\ expiries' \in [TicketIds -> Nat]
    BY <1>q, <2>1, <2>2, AuditType DEF Outcomes
  <2> QED
    BY <1>4, <2>4, <2>5 DEF Hold, Types
<1>5. CASE TurnAway(r)
  <2>1. PICK o \in {"expired", "refused"}, how \in Writes("expired") :
          Audit(r, Decided(r), req[r].with, o, how, "answered")
    BY <1>5 DEF TurnAway, Writes, Blocked
  <2>2. ticket' \in [TicketIds -> TicketRecord]
    BY <1>5, <1>w, TicketType DEF TurnAway, Types
  <2> QED
    BY <1>5, <1>q, <1>w, <2>1, <2>2, AuditType DEF TurnAway, Types, Outcomes
<1>t. Redeemed(req[r].with) \in [TicketIds -> TicketRecord]
  BY <1>w, TicketType DEF Redeemed, Types
<1>6. CASE Commit(r)
  <2>1. [Decided(r) EXCEPT !.pc = "metered", !.metered = TRUE] \in Request
    BY <1>q DEF Request
  <2>2. calls' \in [Channels -> Nat]
    BY <1>6, <1>w DEF Commit, Types
  <2> QED
    BY <1>6, <1>t, <2>1, <2>2 DEF Commit, Types
<1>7. CASE CommitThrows(r)
  BY <1>7, <1>q, <1>t, CaughtType DEF CommitThrows, Types
<1>8. CASE Dispatch(r)
  <2>1. req' \in [Slots -> Request]
    <3>1. [req[r] EXCEPT !.pc = "dispatched"] \in Request
      BY <1>q DEF Request
    <3> QED
      BY <1>8, <3>1 DEF Dispatch, Types
  <2>2. runs' \in [TicketIds -> Nat]
    BY <1>8, <1>w DEF Dispatch, Types
  <2> QED
    BY <1>8, <2>1, <2>2 DEF Dispatch, Types
<1>9. CASE DispatchThrows(r)
  BY <1>9, <1>q, CaughtType DEF DispatchThrows, Types
<1>10. CASE \E o \in {"ran", "refused", "unavailable"} : Served(r, o)
  <2>1. PICK o \in {"ran", "refused", "unavailable"} : Served(r, o)
    BY <1>10
  <2> DEFINE next == IF o = "ran" THEN "recorded" ELSE "answered"
  <2>2. PICK how \in Writes(o) : Audit(r, req[r], req[r].with, o, how, next)
    BY <2>1 DEF Served
  <2>3. next \in {"answered", "recorded"} /\ o \in Outcomes
    BY DEF Outcomes
  <2>4. /\ req' \in [Slots -> Request] /\ captured' \subseteq Calls
        /\ rows' \in [TicketIds -> SUBSET Outcomes] /\ expiries' \in [TicketIds -> Nat]
    <3> HIDE DEF next
    <3> QED
      BY <1>q, <1>w, <2>2, <2>3, AuditType
  <2> QED
    BY <2>1, <2>4 DEF Served, Types
<1>11. CASE Notice(r)
  <2>1. req' = [req EXCEPT ![r] = Answered(req[r])]
    BY <1>11 DEF Notice
  <2> QED
    BY <1>11, <1>q, <1>w, <2>1, AnsweredType DEF Notice, Types
<1>12. CASE NoticeThrows(r)
  BY <1>12, <1>q, CaughtType DEF NoticeThrows, Types
<1>13. CASE Reply(r)
  BY <1>13, IdleType DEF Reply, Types
<1> QED
  BY <1>1, <1>2, <1>3, <1>4, <1>5, <1>6, <1>7, <1>8, <1>9, <1>10, <1>11, <1>12, <1>13
  DEF Step

\* So does every step of the system: humans, clock, editor and restart included.
LEMMA NextTypes == Types /\ [Next]_vars => Types'
<1> SUFFICES ASSUME Types, [Next]_vars PROVE Types'
  OBVIOUS
<1> USE DEF store, meter, record
<1>1. ASSUME NEW r \in Slots, Step(r) PROVE Types'
  BY <1>1, StepTypes
<1>2. ASSUME NEW r \in Slots, NEW c \in Channels, NEW k \in Calls,
             NEW t \in {NoTicket} \cup TicketIds, Arrive(r, c, k, t)
      PROVE  Types'
  <2>1. calls[c] \in Nat
    BY DEF Types
  <2>2. [Idle EXCEPT !.pc = "reading", !.chan = c, !.call = k, !.with = t,
                     !.spend = calls[c]] \in Request
    BY <2>1, IdleType DEF Request
  <2> QED
    BY <1>2, <2>2 DEF Arrive, Types
<1>3. ASSUME NEW c \in Channels, NEW t \in TicketIds, Expire(c, t) PROVE Types'
  <2>1. ticket' \in [TicketIds -> TicketRecord]
    BY <1>3, TicketType DEF Expire
  <2>2. /\ rows' \in [TicketIds -> SUBSET Outcomes]
        /\ expiries' \in [TicketIds -> Nat]
    BY <1>3 DEF Expire, Append, Types, Outcomes
  <2> QED
    BY <1>3, <2>1, <2>2 DEF Expire, Types
<1>4. ASSUME NEW c \in Channels, NEW t \in TicketIds, NEW v \in {"approve", "deny"},
             Decide(c, t, v)
      PROVE  Types'
  <2>1. ticket' \in [TicketIds -> TicketRecord]
    BY <1>4, TicketType DEF Decide, Verdicts
  <2>2. PICK how : Append(t, IF v = "approve" THEN "approved" ELSE "denied", how)
    BY <1>4 DEF Decide
  <2>3. /\ rows' \in [TicketIds -> SUBSET Outcomes]
        /\ expiries' \in [TicketIds -> Nat]
    BY <2>2 DEF Append, Types, Outcomes
  <2> QED
    BY <1>4, <2>1, <2>3 DEF Decide, Types
<1>5. CASE Environment
  <2>1. CASE Tick
    BY <2>1, GateAssumption DEF Tick, Types
  <2>2. CASE Restart
    BY <2>2, IdleType DEF Restart, Types
  <2>3. ASSUME NEW c \in Channels, NEW s \in Sheets, EditSheet(c, s) PROVE Types'
    BY <2>3 DEF EditSheet, Types
  <2>4. ASSUME NEW C \in {{c} : c \in Channels} \cup {Channels}, ClearDay(C) PROVE Types'
    BY <2>4 DEF ClearDay, Types
  <2> QED
    BY <1>5, <2>1, <2>2, <2>3, <2>4 DEF Environment
<1>6. CASE UNCHANGED vars
  BY <1>6 DEF vars, Types
<1> QED
  BY <1>1, <1>2, <1>3, <1>4, <1>5, <1>6 DEF Next

\* Every reachable state of the gate and the store is well formed.
THEOREM GateTypes == Spec => []Types
<1>1. Init => Types
  BY TypesInit
<1>2. Types /\ [Next]_vars => Types'
  BY NextTypes
<1> QED
  BY <1>1, <1>2, PTL DEF Spec
-----------------------------------------------------------------------------
(***************************************************************************)
(* What an entry to the audit closure leaves of the request.               *)
(***************************************************************************)
SameCall(x, q) ==
  /\ x.chan = q.chan /\ x.call = q.call /\ x.with = q.with /\ x.spend = q.spend
  /\ x.sheet = q.sheet /\ x.metered = q.metered

AfterAudit(x, q, how, next) ==
  /\ x.pc \in {"answered", "recorded"}
  /\ x.decided = q.decided /\ x.audited
  /\ x.appended = IF Lands(how) THEN q.appended + 1 ELSE q.appended
  /\ x.lost = ~Lands(how)
  /\ x.pc = "recorded" => next = "recorded" /\ Lands(how) /\ SameCall(x, q)
  /\ x.pc = "answered" => x.with = NoTicket

AfterCatch(x, q) ==
  /\ x.pc = "answered" /\ x.with = NoTicket
  /\ x.decided = q.decided
  /\ q.audited => x.appended = q.appended /\ x.lost = q.lost
  /\ ~q.audited => \/ x.appended = q.appended + 1 /\ ~x.lost
                   \/ x.appended = q.appended /\ x.lost

\* What an attempt to append a row leaves of the slot.
LEMMA AuditShape ==
  ASSUME Types, NEW r \in Slots, NEW q \in Request, NEW t, NEW o, NEW how,
         NEW next \in {"answered", "recorded"}, Audit(r, q, t, o, how, next)
  PROVE  \E x \in Request : req' = [req EXCEPT ![r] = x] /\ AfterAudit(x, q, how, next)
<1> DEFINE e == [q EXCEPT !.pc = next, !.audited = TRUE, !.lost = ~Lands(how),
                          !.appended = IF Lands(how) THEN @ + 1 ELSE @]
           x == IF next = "answered" \/ how # "row" THEN Answered(e) ELSE e
<1>1. e \in Request
  BY EnteredType
<1>2. /\ e.pc = next /\ e.audited /\ e.lost = ~Lands(how) /\ e.decided = q.decided
      /\ e.appended = IF Lands(how) THEN q.appended + 1 ELSE q.appended
      /\ SameCall(e, q)
  BY DEF Request, SameCall
<1> HIDE DEF e
<1>3. /\ Answered(e) \in Request /\ Answered(e).pc = "answered"
      /\ Answered(e).decided = e.decided /\ Answered(e).audited = e.audited
      /\ Answered(e).appended = e.appended /\ Answered(e).lost = e.lost
      /\ Answered(e).with = NoTicket
  BY <1>1, AnsweredType DEF Answered, Idle
<1>4. req' = [req EXCEPT ![r] = x]
  BY DEF Audit, e
<1>5. CASE next = "answered" \/ how # "row"
  <2>1. x \in Request /\ AfterAudit(x, q, how, next)
    BY <1>1, <1>2, <1>3, <1>5 DEF AfterAudit
  <2> QED
    BY <1>4, <2>1
<1>6. CASE ~(next = "answered" \/ how # "row")
  <2>1. x \in Request /\ AfterAudit(x, q, how, next)
    BY <1>1, <1>2, <1>6 DEF AfterAudit, Lands
  <2> QED
    BY <1>4, <2>1
<1> QED
  BY <1>5, <1>6

\* The catch writes a row exactly when none was attempted.
LEMMA CaughtShape ==
  ASSUME Types, NEW r \in Slots, NEW q \in Request, Caught(r, q)
  PROVE  \E x \in Request : req' = [req EXCEPT ![r] = x] /\ AfterCatch(x, q)
<1>1. CASE q.audited
  <2>1. /\ Answered(q) \in Request /\ Answered(q).pc = "answered"
        /\ Answered(q).decided = q.decided /\ Answered(q).with = NoTicket
        /\ Answered(q).appended = q.appended /\ Answered(q).lost = q.lost
    BY AnsweredType DEF Answered, Idle
  <2> QED
    BY <1>1, <2>1 DEF Caught, AfterCatch
<1>2. CASE ~q.audited
  <2>1. PICK how : Audit(r, q, q.with, "unanswered", how, "answered")
    BY <1>2 DEF Caught
  <2>2. PICK x \in Request :
          req' = [req EXCEPT ![r] = x] /\ AfterAudit(x, q, how, "answered")
    BY <2>1, AuditShape
  <2>3. AfterCatch(x, q)
    BY <1>2, <2>2 DEF AfterAudit, AfterCatch, Lands
  <2> QED
    BY <2>2, <2>3
<1> QED
  BY <1>1, <1>2

-----------------------------------------------------------------------------
(***************************************************************************)
(* One audit row per decided call.                                         *)
(***************************************************************************)
RowOK(q) ==
  /\ q.pc \in {"idle", "reading", "resolved"} =>
       ~q.decided /\ ~q.audited /\ ~q.lost /\ q.appended = 0
  /\ q.pc \in {"metered", "dispatched"} =>
       q.decided /\ ~q.audited /\ ~q.lost /\ q.appended = 0
  /\ q.pc = "recorded" => q.decided /\ q.audited /\ ~q.lost /\ q.appended = 1
  /\ q.pc = "answered" =>
       IF q.decided THEN q.appended + (IF q.lost THEN 1 ELSE 0) = 1 ELSE q.appended = 0

RowsInv == \A r \in Slots : RowOK(req[r])

\* A decided call that had no row keeps the count of rows right as it appends one.
LEMMA AuditRow ==
  ASSUME Types, RowsInv, NEW r \in Slots, NEW q \in Request, NEW t, NEW o, NEW how,
         NEW next \in {"answered", "recorded"}, Audit(r, q, t, o, how, next),
         q.decided, q.appended = 0
  PROVE  RowsInv'
<1>1. PICK x \in Request : req' = [req EXCEPT ![r] = x] /\ AfterAudit(x, q, how, next)
  BY AuditShape
<1>2. RowOK(x)
  BY <1>1 DEF RowOK, Request, AfterAudit, Lands
<1> QED
  BY <1>1, <1>2 DEF RowsInv, Types

\* The catch leaves a decided call with one row, or with none and the loss marked.
LEMMA CaughtRow ==
  ASSUME Types, RowsInv, NEW r \in Slots, NEW q \in Request, Caught(r, q), q.decided,
         \/ ~q.audited /\ q.appended = 0
         \/ q.audited /\ q.appended = 1 /\ ~q.lost
  PROVE  RowsInv'
<1>1. PICK x \in Request : req' = [req EXCEPT ![r] = x] /\ AfterCatch(x, q)
  BY CaughtShape
<1>2. RowOK(x)
  BY <1>1 DEF RowOK, Request, AfterCatch
<1> QED
  BY <1>1, <1>2 DEF RowsInv, Types

\* Every step of a request keeps RowsInv.
LEMMA StepRows ==
  ASSUME Types, RowsInv, NEW r \in Slots, Step(r)
  PROVE  RowsInv'
<1>q. /\ req[r] \in Request /\ Decided(r) \in Request
      /\ Decided(r) = [req[r] EXCEPT !.decided = TRUE]
  BY DecidedType DEF Types, Decided
<1>r. RowOK(req[r])
  BY DEF RowsInv
<1>d. /\ Decided(r).pc = req[r].pc /\ Decided(r).decided
      /\ Decided(r).audited = req[r].audited /\ Decided(r).lost = req[r].lost
      /\ Decided(r).appended = req[r].appended
  BY <1>q DEF Request
<1>f. ASSUME NEW x, req' = [req EXCEPT ![r] = x], RowOK(x) PROVE RowsInv'
  BY <1>f DEF RowsInv, Types
<1>1. CASE Resolve(r)
  <2> DEFINE x == [req[r] EXCEPT !.pc = "resolved", !.sheet = sheet[req[r].chan]]
  <2>1. req' = [req EXCEPT ![r] = x]
    BY <1>1 DEF Resolve, Types
  <2>2. RowOK(x)
    BY <1>1, <1>q, <1>r DEF Resolve, RowOK, Request
  <2> QED
    BY <1>f, <2>1, <2>2
<1>2. CASE ResolveThrows(r)
  <2>1. RowOK(Answered(req[r]))
    BY <1>2, <1>r, IdleType DEF ResolveThrows, RowOK, Answered, Idle
  <2> QED
    BY <1>2, <1>f, <2>1 DEF ResolveThrows
<1>3. CASE Refuse(r)
  BY <1>3, <1>q, <1>r, <1>d, AuditRow DEF Refuse, RowOK
<1>4. CASE Hold(r)
  BY <1>4, <1>q, <1>r, <1>d, AuditRow DEF Hold, RowOK
<1>5. CASE TurnAway(r)
  BY <1>5, <1>q, <1>r, <1>d, AuditRow DEF TurnAway, RowOK
<1>6. CASE Commit(r)
  <2> DEFINE x == [Decided(r) EXCEPT !.pc = "metered", !.metered = TRUE]
  <2>1. RowOK(x)
    BY <1>6, <1>q, <1>r, <1>d DEF Commit, RowOK, Request
  <2> QED
    BY <1>6, <1>f, <2>1 DEF Commit
<1>7. CASE CommitThrows(r)
  BY <1>7, <1>q, <1>r, <1>d, CaughtRow DEF CommitThrows, RowOK
<1>8. CASE Dispatch(r)
  <2> DEFINE x == [req[r] EXCEPT !.pc = "dispatched"]
  <2>1. req' = [req EXCEPT ![r] = x]
    BY <1>8 DEF Dispatch, Types
  <2>2. RowOK(x)
    BY <1>8, <1>q, <1>r DEF Dispatch, RowOK, Request
  <2> QED
    BY <1>f, <2>1, <2>2
<1>9. CASE DispatchThrows(r)
  BY <1>9, <1>q, <1>r, CaughtRow DEF DispatchThrows, RowOK
<1>10. CASE \E o \in {"ran", "refused", "unavailable"} : Served(r, o)
  <2>1. PICK o \in {"ran", "refused", "unavailable"} : Served(r, o)
    BY <1>10
  <2> DEFINE next == IF o = "ran" THEN "recorded" ELSE "answered"
  <2>2. PICK how : Audit(r, req[r], req[r].with, o, how, next)
    BY <2>1 DEF Served
  <2>3. next \in {"answered", "recorded"}
    OBVIOUS
  <2> HIDE DEF next
  <2> QED
    BY <1>q, <1>r, <2>1, <2>2, <2>3, AuditRow DEF Served, RowOK
<1>11. CASE Notice(r)
  <2>1. RowOK(Answered(req[r]))
    BY <1>11, <1>r, <1>q, IdleType DEF Notice, RowOK, Answered, Idle, Request
  <2> QED
    BY <1>11, <1>f, <2>1 DEF Notice
<1>12. CASE NoticeThrows(r)
  BY <1>12, <1>q, <1>r, CaughtRow DEF NoticeThrows, RowOK
<1>13. CASE Reply(r)
  <2>1. RowOK(Idle)
    BY DEF RowOK, Idle
  <2> QED
    BY <1>13, <1>f, <2>1 DEF Reply
<1> QED
  BY <1>1, <1>2, <1>3, <1>4, <1>5, <1>6, <1>7, <1>8, <1>9, <1>10, <1>11, <1>12, <1>13
  DEF Step

\* So does every step of the system.
LEMMA NextRows == Types /\ RowsInv /\ [Next]_vars => RowsInv'
<1> SUFFICES ASSUME Types, RowsInv, [Next]_vars PROVE RowsInv'
  OBVIOUS
<1>0. RowOK(Idle)
  BY DEF RowOK, Idle
<1>1. ASSUME NEW r \in Slots, Step(r) PROVE RowsInv'
  BY <1>1, StepRows
<1>2. ASSUME NEW r \in Slots, NEW c \in Channels, NEW k \in Calls,
             NEW t \in {NoTicket} \cup TicketIds, Arrive(r, c, k, t)
      PROVE  RowsInv'
  <2> DEFINE x == [Idle EXCEPT !.pc = "reading", !.chan = c, !.call = k, !.with = t,
                               !.spend = calls[c]]
  <2>1. RowOK(x)
    BY DEF RowOK, Idle
  <2>2. req' = [req EXCEPT ![r] = x]
    BY <1>2 DEF Arrive
  <2> HIDE DEF x
  <2> QED
    BY <2>1, <2>2 DEF RowsInv, Types
<1>3. ASSUME UNCHANGED req PROVE RowsInv'
  BY <1>3 DEF RowsInv
<1>4. CASE Restart
  BY <1>0, <1>4 DEF Restart, RowsInv
<1>5. CASE Environment /\ ~Restart
  BY <1>3, <1>5 DEF Environment, Tick, EditSheet, ClearDay
<1>6. ASSUME NEW c \in Channels, NEW t \in TicketIds,
             Expire(c, t) \/ \E v \in {"approve", "deny"} : Decide(c, t, v)
      PROVE  RowsInv'
  BY <1>3, <1>6 DEF Expire, Decide
<1>7. CASE UNCHANGED vars
  BY <1>3, <1>7 DEF vars
<1> QED
  BY <1>1, <1>2, <1>4, <1>5, <1>6, <1>7 DEF Next

\* Every decided call leaves one audit row, or none because the append
\* itself failed, and an undecided one leaves none: callTool's catch, its
\* `audited' flag and the closure between them.
THEOREM OneRow == Spec => []OneRowPerDecidedCall
<1>1. Init => RowsInv
  <2>1. RowOK(Idle)
    BY DEF RowOK, Idle
  <2> QED
    BY <2>1 DEF Init, RowsInv
<1>2. RowsInv => OneRowPerDecidedCall
  BY DEF RowsInv, RowOK, OneRowPerDecidedCall
<1> QED
  BY <1>1, <1>2, GateTypes, NextRows, PTL DEF Spec

-----------------------------------------------------------------------------
(***************************************************************************)
(* Tickets                                                                 *)
(***************************************************************************)
Stands(t) ==
  /\ ticket'[t].chan = ticket[t].chan
  /\ ticket'[t].call = ticket[t].call
  /\ ticket'[t].offered = ticket[t].offered
  /\ ticket[t].seen => ticket'[t].seen
  /\ ticket[t].spent => ticket'[t].spent
  /\ ticket[t].verdict # "null" => ticket'[t].verdict = ticket[t].verdict

\* No step rewrites a ticket that exists: see Stands.
LEMMA TicketStep ==
  ASSUME Types, [Next]_vars
  PROVE  minted' \in Nat /\ minted <= minted' /\ \A t \in 1..minted : Stands(t)
<1>0. /\ minted \in Nat /\ minted <= MaxMints /\ MaxMints \in Nat
      /\ ticket \in [TicketIds -> TicketRecord]
      /\ 1..minted \subseteq TicketIds
  BY GateAssumption DEF Types, TicketIds
<1>s. ASSUME UNCHANGED <<minted, ticket>>
      PROVE  minted' \in Nat /\ minted <= minted' /\ \A t \in 1..minted : Stands(t)
  BY <1>0, <1>s DEF Stands
<1>1. ASSUME NEW r \in Slots, Hold(r)
      PROVE  minted' \in Nat /\ minted <= minted' /\ \A t \in 1..minted : Stands(t)
  <2>1. PICK off : Mint(req[r].chan, req[r].call, off)
    BY <1>1 DEF Hold
  <2>2. minted' = minted + 1 /\ \A t \in 1..minted : ticket'[t] = ticket[t]
    BY <1>0, <2>1 DEF Mint
  <2> QED
    BY <1>0, <2>2 DEF Stands
<1>2. ASSUME NEW r \in Slots, TurnAway(r)
      PROVE  minted' \in Nat /\ minted <= minted' /\ \A t \in 1..minted : Stands(t)
  <2>1. /\ minted' = minted
        /\ \/ ticket' = ticket
           \/ ticket' = [ticket EXCEPT ![req[r].with].seen = TRUE]
    BY <1>2 DEF TurnAway
  <2> QED
    BY <1>0, <2>1 DEF Stands, TicketRecord
<1>3. ASSUME NEW r \in Slots, Commit(r) \/ CommitThrows(r)
      PROVE  minted' \in Nat /\ minted <= minted' /\ \A t \in 1..minted : Stands(t)
  <2>1. /\ minted' = minted
        /\ \/ ticket' = ticket
           \/ ticket' = [ticket EXCEPT ![req[r].with].spent = TRUE]
    BY <1>3 DEF Commit, CommitThrows, Redeemed
  <2> QED
    BY <1>0, <2>1 DEF Stands, TicketRecord
<1>4. ASSUME NEW r \in Slots, Step(r)
      PROVE  minted' \in Nat /\ minted <= minted' /\ \A t \in 1..minted : Stands(t)
  <2>1. \/ Hold(r) \/ TurnAway(r) \/ Commit(r) \/ CommitThrows(r)
        \/ UNCHANGED <<minted, ticket>>
    BY <1>4 DEF Step, Resolve, ResolveThrows, Refuse, Dispatch, Served, DispatchThrows,
                Notice, NoticeThrows, Reply, store
  <2> QED
    BY <1>1, <1>2, <1>3, <1>s, <2>1
<1>5. ASSUME NEW c \in Channels, NEW t \in TicketIds, Expire(c, t)
      PROVE  minted' \in Nat /\ minted <= minted' /\ \A u \in 1..minted : Stands(u)
  <2>1. minted' = minted /\ ticket' = [ticket EXCEPT ![t].seen = TRUE]
    BY <1>5 DEF Expire
  <2> QED
    BY <1>0, <2>1 DEF Stands, TicketRecord
<1>6. ASSUME NEW c \in Channels, NEW t \in TicketIds, NEW v, Decide(c, t, v)
      PROVE  minted' \in Nat /\ minted <= minted' /\ \A u \in 1..minted : Stands(u)
  <2>1. /\ minted' = minted /\ ticket' = [ticket EXCEPT ![t].verdict = v]
        /\ ticket[t].verdict = "null"
    BY <1>6 DEF Decide, Undecided
  <2> QED
    BY <1>0, <2>1 DEF Stands, TicketRecord
<1>7. ASSUME \/ \E r \in Slots, c \in Channels, k \in Calls, t \in {NoTicket} \cup TicketIds :
                  Arrive(r, c, k, t)
             \/ Environment
             \/ UNCHANGED vars
      PROVE  UNCHANGED <<minted, ticket>>
  BY <1>7 DEF Arrive, Environment, Tick, Restart, EditSheet, ClearDay, vars, store
<1> QED
  BY <1>4, <1>5, <1>6, <1>7, <1>s DEF Next

\* A ticket keeps its channel and its call, a verdict is never overwritten and
\* a redemption never undone: what callTool read of a ticket before an await
\* still holds after it.
THEOREM TicketsStand == Spec => [][\A t \in 1..minted : Stands(t)]_vars
<1>1. Types /\ [Next]_vars => [\A t \in 1..minted : Stands(t)]_vars
  BY TicketStep
<1> QED
  BY <1>1, GateTypes, PTL DEF Spec

-----------------------------------------------------------------------------
(***************************************************************************)
(* Requests                                                                *)
(***************************************************************************)
Waiting(q)   == q.pc \in {"reading", "resolved"}
Committed(q) == q.pc \in {"metered", "dispatched", "recorded"}

\* A step after which request q, now x, is committed to nothing.
Quiet(q, x) ==
  /\ ~Committed(x) /\ x.with \in {NoTicket, q.with}
  /\ Waiting(x) => Waiting(q) /\ x.chan = q.chan /\ x.spend = q.spend
  /\ UNCHANGED <<calls, runs>>

\* The dispatcher's answer to a committed request was recorded.
Recorded(q, x) ==
  /\ q.pc = "dispatched" /\ x.pc = "recorded" /\ SameCall(x, q)
  /\ UNCHANGED <<calls, runs>>

Moves(r, x) ==
  \/ Quiet(req[r], x)
  \/ Commit(r) /\ x = [Decided(r) EXCEPT !.pc = "metered", !.metered = TRUE]
  \/ Dispatch(r) /\ x = [req[r] EXCEPT !.pc = "dispatched"]
  \/ Recorded(req[r], x)

\* A row that ends a request dispatches nothing and counts nothing.
LEMMA AuditQuiet ==
  ASSUME Types, NEW r \in Slots, NEW q \in Request, NEW t, NEW o, NEW how,
         Audit(r, q, t, o, how, "answered"), UNCHANGED <<calls, runs>>
  PROVE  \E x \in Request : req' = [req EXCEPT ![r] = x] /\ Quiet(req[r], x)
<1>1. PICK x \in Request : req' = [req EXCEPT ![r] = x] /\ AfterAudit(x, q, how, "answered")
  BY AuditShape
<1>2. Quiet(req[r], x)
  BY <1>1 DEF AfterAudit, Quiet, Committed, Waiting
<1> QED
  BY <1>1, <1>2

\* Nor does the catch.
LEMMA CaughtQuiet ==
  ASSUME Types, NEW r \in Slots, NEW q \in Request, Caught(r, q), UNCHANGED <<calls, runs>>
  PROVE  \E x \in Request : req' = [req EXCEPT ![r] = x] /\ Quiet(req[r], x)
<1>1. PICK x \in Request : req' = [req EXCEPT ![r] = x] /\ AfterCatch(x, q)
  BY CaughtShape
<1>2. Quiet(req[r], x)
  BY <1>1 DEF AfterCatch, Quiet, Committed, Waiting
<1> QED
  BY <1>1, <1>2

\* The ways a request moves on, as authorization, runs and counts see them.
LEMMA StepMoves ==
  ASSUME Types, NEW r \in Slots, Step(r)
  PROVE  \E x \in Request : req' = [req EXCEPT ![r] = x] /\ Moves(r, x)
<1>q. req[r] \in Request /\ Decided(r) \in Request /\ sheet[req[r].chan] \in Sheets
  BY DecidedType DEF Types, Decided, Request
<1>a. /\ Answered(req[r]) \in Request /\ Answered(req[r]).pc = "answered"
      /\ Answered(req[r]).with = NoTicket
  BY <1>q, AnsweredType DEF Answered, Idle
<1>z. ASSUME \E x \in Request : req' = [req EXCEPT ![r] = x] /\ Quiet(req[r], x)
      PROVE  \E x \in Request : req' = [req EXCEPT ![r] = x] /\ Moves(r, x)
  BY <1>z DEF Moves
<1>1. CASE Resolve(r)
  <2> DEFINE x == [req[r] EXCEPT !.pc = "resolved", !.sheet = sheet[req[r].chan]]
  <2>1. x \in Request
    BY <1>q DEF Request
  <2>2. req' = [req EXCEPT ![r] = x]
    BY <1>1 DEF Resolve, Types
  <2>3. Quiet(req[r], x)
    BY <1>1, <1>q DEF Resolve, Quiet, Committed, Waiting, Request, meter
  <2> QED
    BY <1>z, <2>1, <2>2, <2>3
<1>2. CASE ResolveThrows(r)
  <2>1. Quiet(req[r], Answered(req[r]))
    BY <1>2, <1>a DEF ResolveThrows, Quiet, Committed, Waiting, meter
  <2> QED
    BY <1>2, <1>a, <1>z, <2>1 DEF ResolveThrows
<1>3. CASE Refuse(r)
  BY <1>3, <1>q, <1>z, AuditQuiet DEF Refuse, meter
<1>4. CASE Hold(r)
  BY <1>4, <1>q, <1>z, AuditQuiet DEF Hold, meter
<1>5. CASE TurnAway(r)
  BY <1>5, <1>q, <1>z, AuditQuiet DEF TurnAway, meter
<1>6. CASE Commit(r)
  <2> DEFINE x == [Decided(r) EXCEPT !.pc = "metered", !.metered = TRUE]
  <2>1. x \in Request
    BY <1>q DEF Request
  <2> QED
    BY <1>6, <2>1 DEF Commit, Moves
<1>7. CASE CommitThrows(r)
  BY <1>7, <1>q, <1>z, CaughtQuiet DEF CommitThrows, meter
<1>8. CASE Dispatch(r)
  <2> DEFINE x == [req[r] EXCEPT !.pc = "dispatched"]
  <2>1. x \in Request
    BY <1>q DEF Request
  <2>2. req' = [req EXCEPT ![r] = x]
    BY <1>8 DEF Dispatch, Types
  <2> QED
    BY <1>8, <2>1, <2>2 DEF Moves
<1>9. CASE DispatchThrows(r)
  BY <1>9, <1>q, <1>z, CaughtQuiet DEF DispatchThrows, meter
<1>10. CASE \E o \in {"ran", "refused", "unavailable"} : Served(r, o)
  <2>1. PICK o \in {"ran", "refused", "unavailable"} : Served(r, o)
    BY <1>10
  <2>2. req[r].pc = "dispatched" /\ UNCHANGED <<calls, runs>>
    BY <2>1 DEF Served, meter
  <2>3. CASE o # "ran"
    BY <1>q, <1>z, <2>1, <2>2, <2>3, AuditQuiet DEF Served
  <2>4. CASE o = "ran"
    <3>1. PICK how : Audit(r, req[r], req[r].with, o, how, "recorded")
      BY <2>1, <2>4 DEF Served
    <3>2. PICK x \in Request :
            req' = [req EXCEPT ![r] = x] /\ AfterAudit(x, req[r], how, "recorded")
      BY <1>q, <3>1, AuditShape
    <3>3. Moves(r, x)
      BY <2>2, <3>2 DEF AfterAudit, Moves, Quiet, Recorded, Committed, Waiting
    <3> QED
      BY <3>2, <3>3
  <2> QED
    BY <2>3, <2>4
<1>11. CASE Notice(r)
  <2>1. Quiet(req[r], Answered(req[r]))
    BY <1>11, <1>a DEF Notice, Quiet, Committed, Waiting
  <2> QED
    BY <1>11, <1>a, <1>z, <2>1 DEF Notice
<1>12. CASE NoticeThrows(r)
  BY <1>12, <1>q, <1>z, CaughtQuiet DEF NoticeThrows, meter
<1>13. CASE Reply(r)
  <2>1. Quiet(req[r], Idle)
    BY <1>13 DEF Reply, Quiet, Committed, Waiting, Idle, meter
  <2> QED
    BY <1>13, <1>z, <2>1, IdleType DEF Reply
<1> QED
  BY <1>1, <1>2, <1>3, <1>4, <1>5, <1>6, <1>7, <1>8, <1>9, <1>10, <1>11, <1>12, <1>13
  DEF Step

\* The steps of the system, as they look to the requests.
LEMMA NextMoves ==
  ASSUME Types, [Next]_vars
  PROVE  \/ \E r \in Slots, x \in Request : req' = [req EXCEPT ![r] = x] /\ Moves(r, x)
         \/ \E r \in Slots, c \in Channels, k \in Calls, t \in {NoTicket} \cup TicketIds :
               Arrive(r, c, k, t)
         \/ req' = [r \in Slots |-> Idle] /\ UNCHANGED <<calls, runs>>
         \/ UNCHANGED <<req, calls, runs>>
         \/ UNCHANGED <<req, runs>> /\ \E C \in SUBSET Channels : ClearDay(C)
<1>1. ASSUME NEW r \in Slots, Step(r)
      PROVE  \E x \in Request : req' = [req EXCEPT ![r] = x] /\ Moves(r, x)
  BY <1>1, StepMoves
<1>2. ASSUME NEW c \in Channels, NEW t \in TicketIds,
             Expire(c, t) \/ \E v \in {"approve", "deny"} : Decide(c, t, v)
      PROVE  UNCHANGED <<req, calls, runs>>
  BY <1>2 DEF Expire, Decide, meter
<1>3. CASE Environment
  BY <1>3 DEF Environment, Tick, Restart, EditSheet, ClearDay, meter
<1>4. CASE UNCHANGED vars
  BY <1>4 DEF vars
<1> QED
  BY <1>1, <1>2, <1>3, <1>4 DEF Next

-----------------------------------------------------------------------------
(***************************************************************************)
(* A committed request is authorised.                                      *)
(***************************************************************************)
Ruled(q) ==
  /\ q.metered /\ q.spend < q.sheet.cap
  /\ IF q.with = NoTicket THEN q.sheet.rule[q.call] = "allow"
     ELSE q.sheet.rule[q.call] # "refuse"

Vouches(k, q) ==
  k.spent /\ k.verdict = "approve" /\ k.call = q.call /\ k.chan = q.chan

Authorized(q) ==
  /\ q.with \in 0..minted
  /\ Committed(q) => Ruled(q) /\ (q.with # NoTicket => Vouches(ticket[q.with], q))

AuthInv == \A r \in Slots : Authorized(req[r])

\* A request that was authorized stays so: what it rests on stands.
LEMMA AuthorizedStays ==
  ASSUME Types, [Next]_vars, NEW q, Authorized(q)
  PROVE  Authorized(q)'
<1>1. minted' \in Nat /\ minted <= minted' /\ \A t \in 1..minted : Stands(t)
  BY TicketStep
<1>2. minted \in Nat
  BY GateAssumption DEF Types
<1> QED
  BY <1>1, <1>2 DEF Authorized, Vouches, Stands, NoTicket, Committed, Ruled

\* A sheet's cap is a number, at most the largest.
LEMMA SheetCap ==
  ASSUME NEW s \in Sheets
  PROVE  s.cap \in Nat /\ s.cap <= TopCap
<1>1. s \in [rule : [Calls -> Rulings], cap : Nat, warnAt : Nat] /\ s.cap <= TopCap
  BY GateAssumption
<1> QED
  BY <1>1

\* What commit lets through is authorized as it is committed.
LEMMA CommitAuthorized ==
  ASSUME Types, NEW r \in Slots, Commit(r), Authorized(req[r]),
         NEW x, x = [Decided(r) EXCEPT !.pc = "metered", !.metered = TRUE]
  PROVE  Authorized(x)'
<1> DEFINE q == req[r]
<1>0. /\ req \in [Slots -> Request] /\ ticket \in [TicketIds -> TicketRecord]
      /\ minted \in Nat /\ minted <= MaxMints /\ MaxMints \in Nat
  BY GateAssumption DEF Types
<1>1. /\ q \in Request /\ q.sheet \in Sheets /\ q.call \in Calls /\ q.with \in 0..minted
      /\ ticket \in [TicketIds -> TicketRecord] /\ 1..minted \subseteq TicketIds
      /\ minted \in Nat
  <2>1. q \in Request /\ q.with \in 0..minted
    BY <1>0 DEF Authorized
  <2>2. q.sheet \in Sheets /\ q.call \in Calls
    BY <2>1 DEF Request
  <2> QED
    BY <1>0, <2>1, <2>2 DEF TicketIds
<1>2. q.spend \in Nat /\ q.sheet.cap \in Nat
  BY <1>1, SheetCap DEF Request
<1>3. Serves(q) /\ ticket' = Redeemed(q.with) /\ minted' = minted
  BY DEF Commit
<1>4. Ruling(q) # "refuse" /\ (q.with = NoTicket => Ruling(q) = "allow")
      /\ (q.with # NoTicket => RedeemOutcome(q) = "redeemed")
  BY <1>3 DEF Serves
<1>5. /\ q.spend < q.sheet.cap /\ q.sheet.rule[q.call] # "refuse"
      /\ q.with = NoTicket => q.sheet.rule[q.call] = "allow"
  BY <1>2, <1>4 DEF Ruling
<1>6. ASSUME q.with # NoTicket
      PROVE  Vouches(ticket'[q.with], q)
  <2>1. /\ Find(q.chan, q.with) /\ ~Undecided(q.with) /\ ticket[q.with].verdict # "deny"
        /\ ticket[q.with].call = q.call
    BY <1>4, <1>6 DEF RedeemOutcome
  <2>2. q.with \in TicketIds
    BY <1>1, <1>6 DEF NoTicket, TicketIds
  <2>3. ticket[q.with] \in TicketRecord /\ ticket[q.with].verdict = "approve"
        /\ ticket[q.with].chan = q.chan
    BY <1>1, <2>1, <2>2 DEF Find, Held, Undecided, TicketRecord, Verdicts
  <2>4. ticket' = [ticket EXCEPT ![q.with].spent = TRUE]
    BY <1>3, <1>6 DEF Redeemed
  <2> QED
    BY <1>1, <2>1, <2>2, <2>3, <2>4 DEF Vouches, TicketRecord
<1>7. /\ x.chan = q.chan /\ x.call = q.call /\ x.with = q.with /\ x.spend = q.spend
      /\ x.sheet = q.sheet /\ x.metered
  BY <1>1 DEF Decided, Request
<1> HIDE DEF q
<1> QED
  BY <1>1, <1>3, <1>5, <1>6, <1>7 DEF Authorized, Ruled, Vouches

\* Every step keeps every committed request authorized.
LEMMA NextAuthorized == Types /\ AuthInv /\ [Next]_vars => AuthInv'
<1> SUFFICES ASSUME Types, AuthInv, [Next]_vars PROVE AuthInv'
  OBVIOUS
<1>0. minted \in Nat /\ minted' \in Nat
  BY GateAssumption, TicketStep DEF Types
<1>1. \A p \in Slots : Authorized(req[p])
  BY DEF AuthInv
<1>2. \A q : Authorized(q) => Authorized(q)'
  BY AuthorizedStays
<1>3. ASSUME NEW r \in Slots, NEW x, req' = [req EXCEPT ![r] = x], Authorized(x)'
      PROVE  AuthInv'
  <2>1. ASSUME NEW p \in Slots PROVE Authorized(req[p])'
    <3>1. req'[p] = x \/ req'[p] = req[p]
      BY <1>3 DEF Types
    <3> QED
      BY <1>1, <1>2, <1>3, <3>1 DEF Authorized
  <2> QED
    BY <2>1 DEF AuthInv
<1>4. ASSUME NEW r \in Slots, NEW x \in Request, req' = [req EXCEPT ![r] = x], Moves(r, x)
      PROVE  AuthInv'
  <2>q. req[r] \in Request /\ Authorized(req[r])
    BY <1>1 DEF Types
  <2>p. PICK q : q = req[r]
    OBVIOUS
  <2>a. Authorized(q) /\ Authorized(q)' /\ q \in Request
    BY <1>2, <2>p, <2>q
  <2>1. CASE Quiet(req[r], x)
    <3>1. ~Committed(x) /\ x.with \in {NoTicket, q.with}
      BY <2>1, <2>p DEF Quiet
    <3>2. Authorized(x)'
      BY <1>0, <2>a, <3>1 DEF Authorized, NoTicket, Committed
    <3> QED
      BY <1>3, <1>4, <3>2
  <2>2. CASE Commit(r) /\ x = [Decided(r) EXCEPT !.pc = "metered", !.metered = TRUE]
    BY <1>3, <1>4, <2>q, <2>2, CommitAuthorized
  <2>3. CASE Dispatch(r) /\ x = [req[r] EXCEPT !.pc = "dispatched"]
    <3>1. Committed(q) /\ SameCall(x, q)
      BY <2>3, <2>a, <2>p DEF Dispatch, Committed, SameCall, Request
    <3>2. Authorized(x)'
      BY <2>a, <3>1 DEF Authorized, SameCall, Ruled, Vouches
    <3> QED
      BY <1>3, <1>4, <3>2
  <2>4. CASE Recorded(req[r], x)
    <3>1. Committed(q) /\ SameCall(x, q)
      BY <2>4, <2>p DEF Recorded, Committed
    <3>2. Authorized(x)'
      BY <2>a, <3>1 DEF Authorized, SameCall, Ruled, Vouches
    <3> QED
      BY <1>3, <1>4, <3>2
  <2> QED
    BY <1>4, <2>1, <2>2, <2>3, <2>4 DEF Moves
<1>5. ASSUME NEW r \in Slots, NEW c \in Channels, NEW k \in Calls,
             NEW t \in {NoTicket} \cup TicketIds, Arrive(r, c, k, t)
      PROVE  AuthInv'
  <2> DEFINE x == [Idle EXCEPT !.pc = "reading", !.chan = c, !.call = k, !.with = t,
                               !.spend = calls[c]]
  <2>1. x.with = t /\ x.pc = "reading"
    BY DEF Idle
  <2>2. req' = [req EXCEPT ![r] = x] /\ minted' = minted /\ t \in 0..minted
    BY <1>0, <1>5, GateAssumption DEF Arrive, store, NoTicket, TicketIds
  <2> HIDE DEF x
  <2>3. PICK y : y = x
    OBVIOUS
  <2>4. Authorized(y)'
    BY <2>1, <2>2, <2>3 DEF Authorized, Committed
  <2> QED
    BY <1>3, <2>2, <2>3, <2>4
<1>6. CASE req' = [r \in Slots |-> Idle]
  BY <1>0, <1>6 DEF AuthInv, Authorized, Committed, Idle, NoTicket
<1>7. CASE UNCHANGED req
  BY <1>1, <1>2, <1>7 DEF AuthInv, Authorized
<1> QED
  BY <1>4, <1>5, <1>6, <1>7, NextMoves

\* What is dispatched was ruled in by the sheet and the budget its request
\* read, was counted and, where it came with a ticket, was approved for that
\* call in that channel: the order of callTool.
THEOREM Authorization == Spec => []DispatchIsAuthorized
<1>1. Init => AuthInv
  BY GateAssumption DEF Init, AuthInv, Authorized, Committed, Idle, NoTicket
<1>2. AuthInv => DispatchIsAuthorized
  BY DEF AuthInv, Authorized, Committed, Ruled, Vouches, DispatchIsAuthorized
<1> QED
  BY <1>1, <1>2, GateTypes, NextAuthorized, PTL DEF Spec

-----------------------------------------------------------------------------
(***************************************************************************)
(* One approval, one run.                                                  *)
(***************************************************************************)
Holding(q) == q.with # NoTicket /\ q.pc \in {"metered", "dispatched"}

OnceInv ==
  /\ \A t \in TicketIds :
       runs[t] \in {0, 1} /\ (runs[t] = 1 => t <= minted /\ ticket[t].spent)
  /\ \A r \in Slots : Holding(req[r]) /\ req[r].pc = "metered" => runs[req[r].with] = 0
  /\ \A r, p \in Slots :
       r # p /\ Holding(req[r]) /\ Holding(req[p]) => req[r].with # req[p].with

\* A run stays accounted for by a spent ticket.
LEMMA RunsStay ==
  ASSUME Types, OnceInv, [Next]_vars, runs' = runs
  PROVE  \A t \in TicketIds :
           runs'[t] \in {0, 1} /\ (runs'[t] = 1 => t <= minted' /\ ticket'[t].spent)
<1>1. minted' \in Nat /\ minted <= minted' /\ \A t \in 1..minted : Stands(t)
  BY TicketStep
<1>2. minted \in Nat /\ \A t \in TicketIds : t \in Nat \ {0}
  BY GateAssumption DEF Types, TicketIds
<1> QED
  BY <1>1, <1>2 DEF OnceInv, Stands

\* A request that lets go of its ticket leaves the others as they were.
LEMMA LetGo ==
  ASSUME Types, OnceInv, [Next]_vars, runs' = runs,
         NEW r \in Slots, NEW x, req' = [req EXCEPT ![r] = x], ~Holding(x)
  PROVE  OnceInv'
<1>1. \A p \in Slots : (p = r /\ ~Holding(req'[p])) \/ req'[p] = req[p]
  BY DEF Types
<1>2. \A p \in Slots : Holding(req'[p]) => p # r /\ req'[p] = req[p]
  BY <1>1 DEF Types
<1> QED
  BY <1>2, RunsStay DEF OnceInv, Holding

\* A ticket that is redeemed was in no other request's hands.
LEMMA CommitOnce ==
  ASSUME Types, AuthInv, OnceInv, [Next]_vars, NEW r \in Slots, Commit(r),
         NEW x, x = [Decided(r) EXCEPT !.pc = "metered", !.metered = TRUE],
         req' = [req EXCEPT ![r] = x]
  PROVE  OnceInv'
<1>1. x.with = req[r].with /\ req[r] \in Request /\ runs' = runs
  BY DEF Commit, Decided, Types, Request
<1>2. CASE req[r].with = NoTicket
  BY <1>1, <1>2, LetGo DEF Holding
<1>3. CASE req[r].with # NoTicket
  <2> DEFINE t == req[r].with
  <2>1. t \in TicketIds /\ ~ticket[t].spent
    BY <1>1, <1>3 DEF Commit, Serves, RedeemOutcome, Request
  <2>2. runs[t] = 0
    BY <2>1 DEF OnceInv
  <2>3. \A p \in Slots : Holding(req[p]) => req[p].with # t
    BY <1>3, <2>1 DEF AuthInv, Authorized, Holding, Committed, Vouches
  <2>4. \A p \in Slots : req'[p] = IF p = r THEN x ELSE req[p]
    BY DEF Types
  <2> QED
    BY <1>1, <2>2, <2>3, <2>4, RunsStay DEF OnceInv
<1> QED
  BY <1>2, <1>3

\* A dispatch uses up what its request held of the ticket.
LEMMA DispatchOnce ==
  ASSUME Types, AuthInv, OnceInv, [Next]_vars, NEW r \in Slots, Dispatch(r),
         NEW x, x = [req[r] EXCEPT !.pc = "dispatched"], req' = [req EXCEPT ![r] = x]
  PROVE  OnceInv'
<1>1. x.with = req[r].with /\ x.pc = "dispatched" /\ req[r] \in Request
      /\ req[r].pc = "metered"
  BY DEF Dispatch, Types, Request
<1>2. CASE req[r].with = NoTicket
  BY <1>1, <1>2, LetGo DEF Holding, Dispatch
<1>3. CASE req[r].with # NoTicket
  <2> DEFINE t == req[r].with
  <2>1. /\ t \in TicketIds /\ Holding(req[r]) /\ runs[t] = 0
    BY <1>1, <1>3 DEF Request, Holding, OnceInv
  <2>2. t <= minted /\ ticket[t].spent
    BY <1>1, <1>3, GateAssumption
    DEF AuthInv, Authorized, Committed, Vouches, Types
  <2>3. runs' = [runs EXCEPT ![t] = 1] /\ minted' = minted /\ ticket' = ticket
    BY <1>3, <2>1 DEF Dispatch, store
  <2>4. \A p \in Slots : req'[p] = IF p = r THEN x ELSE req[p]
    BY DEF Types
  <2>5. \A p \in Slots : p # r /\ Holding(req[p]) => req[p].with # t
    BY <2>1 DEF OnceInv
  <2>6. \A u \in TicketIds : runs'[u] = IF u = t THEN 1 ELSE runs[u]
    BY <2>1, <2>3 DEF Types
  <2>7. \A u \in TicketIds :
          runs'[u] \in {0, 1} /\ (runs'[u] = 1 => u <= minted' /\ ticket'[u].spent)
    BY <2>2, <2>3, <2>6 DEF OnceInv
  <2>8. \A p \in Slots :
          Holding(req'[p]) /\ req'[p].pc = "metered" => runs'[req'[p].with] = 0
    <3>1. SUFFICES ASSUME NEW p \in Slots, Holding(req'[p]), req'[p].pc = "metered"
                   PROVE  runs'[req'[p].with] = 0
      OBVIOUS
    <3>2. p # r /\ req'[p] = req[p]
      BY <1>1, <2>4, <3>1
    <3>3. req[p].with \in TicketIds
      BY <3>1, <3>2 DEF Types, Request, Holding
    <3> QED
      BY <2>5, <2>6, <3>1, <3>2, <3>3 DEF OnceInv
  <2>9. Holding(x)
    BY <1>1, <1>3 DEF Holding
  <2> QED
    BY <1>1, <2>1, <2>4, <2>7, <2>8, <2>9 DEF OnceInv
<1> QED
  BY <1>2, <1>3

\* No step gives a ticket a second run.
LEMMA NextOnce == Types /\ AuthInv /\ OnceInv /\ [Next]_vars => OnceInv'
<1> SUFFICES ASSUME Types, AuthInv, OnceInv, [Next]_vars PROVE OnceInv'
  OBVIOUS
<1>1. ASSUME NEW r \in Slots, NEW x \in Request, req' = [req EXCEPT ![r] = x], Moves(r, x)
      PROVE  OnceInv'
  <2>1. CASE Quiet(req[r], x)
    <3>1. ~Holding(x) /\ runs' = runs
      BY <2>1 DEF Quiet, Holding, Committed
    <3> QED
      BY <1>1, <3>1, LetGo
  <2>2. CASE Commit(r) /\ x = [Decided(r) EXCEPT !.pc = "metered", !.metered = TRUE]
    BY <1>1, <2>2, CommitOnce
  <2>3. CASE Dispatch(r) /\ x = [req[r] EXCEPT !.pc = "dispatched"]
    BY <1>1, <2>3, DispatchOnce
  <2>4. CASE Recorded(req[r], x)
    <3>1. ~Holding(x) /\ runs' = runs
      BY <2>4 DEF Recorded, Holding
    <3> QED
      BY <1>1, <3>1, LetGo
  <2> QED
    BY <1>1, <2>1, <2>2, <2>3, <2>4 DEF Moves
<1>2. ASSUME NEW r \in Slots, NEW c \in Channels, NEW k \in Calls,
             NEW t \in {NoTicket} \cup TicketIds, Arrive(r, c, k, t)
      PROVE  OnceInv'
  <2> DEFINE x == [Idle EXCEPT !.pc = "reading", !.chan = c, !.call = k, !.with = t,
                               !.spend = calls[c]]
  <2>1. ~Holding(x)
    BY DEF Idle, Holding
  <2>2. req' = [req EXCEPT ![r] = x] /\ runs' = runs
    BY <1>2 DEF Arrive
  <2> HIDE DEF x
  <2> QED
    BY <2>1, <2>2, LetGo
<1>3. CASE req' = [r \in Slots |-> Idle] /\ UNCHANGED <<calls, runs>>
  <2>1. \A p \in Slots : ~Holding(req'[p])
    BY <1>3 DEF Holding, Idle
  <2> QED
    BY <1>3, <2>1, RunsStay DEF OnceInv
<1>4. CASE UNCHANGED <<req, runs>>
  BY <1>4, RunsStay DEF OnceInv
<1> QED
  BY <1>1, <1>2, <1>3, <1>4, NextMoves

\* However many requests present one approved ticket, and whatever else comes
\* between their steps, one of them reaches an upstream with it: redeem spends
\* the ticket in the stretch that looks at it.
THEOREM ServedOnce == Spec => []ApprovalServesOnce
<1>1. Init => AuthInv /\ OnceInv
  BY GateAssumption
  DEF Init, AuthInv, Authorized, Committed, OnceInv, Holding, Idle, NoTicket
<1>2. Types /\ OnceInv => ApprovalServesOnce
  BY DEF OnceInv, Holding, ApprovalServesOnce, Types
<1> QED
  BY <1>1, <1>2, GateTypes, NextAuthorized, NextOnce, PTL DEF Spec

-----------------------------------------------------------------------------
(***************************************************************************)
(* The overshoot of a daily cap.  The requests that may still be counted   *)
(* against a channel are those that read the meter below the largest cap   *)
(* and have not been decided; once the count has reached that cap no       *)
(* request joins them.                                                     *)
(***************************************************************************)
Pending(c) == {r \in Slots : req[r].chan = c /\ Waiting(req[r]) /\ req[r].spend < TopCap}

Within(n, S) == n < TopCap \/ n + Cardinality(S) <= TopCap + Cardinality(Slots) - 1

SpendInv == \A c \in Channels : Within(calls[c], Pending(c))

\* A set of slots can be counted, up to all of them.
LEMMA SlotSets ==
  ASSUME NEW S \in SUBSET Slots
  PROVE  /\ IsFiniteSet(S) /\ Cardinality(S) \in Nat
         /\ Cardinality(S) <= Cardinality(Slots)
         /\ Cardinality(Slots) \in Nat \ {0}
<1>1. IsFiniteSet(Slots) /\ Slots # {}
  BY GateAssumption
<1>2. Cardinality(Slots) \in Nat /\ Cardinality(Slots) # 0
  BY <1>1, FS_CardinalityType, FS_EmptySet
<1>3. IsFiniteSet(S) /\ Cardinality(S) <= Cardinality(Slots)
  BY <1>1, FS_Subset
<1> QED
  BY <1>2, <1>3, FS_CardinalityType

\* Fewer pending requests keep a channel within its bound.
LEMMA FewerPending ==
  ASSUME NEW n \in Nat, NEW S \in SUBSET Slots, NEW T \in SUBSET S, Within(n, S)
  PROVE  Within(n, T)
<1>1. Cardinality(T) <= Cardinality(S)
  BY SlotSets, FS_Subset
<1> QED
  BY <1>1, SlotSets, GateAssumption DEF Within

\* So does counting one of them.
LEMMA OneCounted ==
  ASSUME NEW n \in Nat, NEW S \in SUBSET Slots, NEW r \in S, Within(n, S)
  PROVE  Within(n + 1, S \ {r})
<1>1. Cardinality(S \ {r}) = Cardinality(S) - 1
  BY SlotSets, FS_RemoveElement
<1> QED
  BY <1>1, SlotSets, GateAssumption DEF Within

\* And a count below the largest cap needs no bound on the requests.
LEMMA NothingPending ==
  ASSUME NEW S \in SUBSET Slots, TopCap > 0 \/ S = {}
  PROVE  Within(0, S)
BY SlotSets, GateAssumption, FS_EmptySet DEF Within

\* The call that is counted leaves the requests that are not.
LEMMA CommitSpend ==
  ASSUME Types, AuthInv, SpendInv, NEW r \in Slots, Commit(r),
         NEW x, x = [Decided(r) EXCEPT !.pc = "metered", !.metered = TRUE],
         req' = [req EXCEPT ![r] = x]
  PROVE  SpendInv'
<1> DEFINE c == req[r].chan
<1>1. /\ req[r] \in Request /\ c \in Channels /\ req[r].sheet \in Sheets
      /\ req[r].spend \in Nat /\ x.pc = "metered"
  BY DEF Types, Request, Decided
<1>2. /\ calls' = [calls EXCEPT ![c] = @ + 1] /\ Serves(req[r])
      /\ req[r].pc = "resolved"
  BY DEF Commit
<1>3. req[r].spend < TopCap
  <2>1. Ruling(req[r]) # "refuse"
    BY <1>2 DEF Serves
  <2>2. req[r].spend < req[r].sheet.cap
    BY <1>1, <2>1, SheetCap DEF Ruling
  <2> QED
    BY <1>1, <2>2, SheetCap, GateAssumption
<1>4. r \in Pending(c)
  BY <1>2, <1>3 DEF Pending, Waiting
<1>5. \A d \in Channels : Pending(d)' = Pending(d) \ {r}
  BY <1>1 DEF Pending, Waiting, Types
<1>6. \A d \in Channels : calls[d] \in Nat /\ calls'[d] = IF d = c THEN calls[d] + 1 ELSE calls[d]
  BY <1>1, <1>2 DEF Types
<1>7. \A d \in Channels : Pending(d) \in SUBSET Slots
  BY DEF Pending
<1>8. \A d \in Channels : Within(calls'[d], Pending(d) \ {r})
  <2>1. SUFFICES ASSUME NEW d \in Channels PROVE Within(calls'[d], Pending(d) \ {r})
    OBVIOUS
  <2>2. CASE d = c
    BY <1>4, <1>6, <1>7, <2>2, OneCounted DEF SpendInv
  <2>3. CASE d # c
    BY <1>6, <1>7, <2>3, FewerPending DEF SpendInv
  <2> QED
    BY <2>2, <2>3
<1> QED
  BY <1>5, <1>8 DEF SpendInv, Within

\* No step takes today's calls past the cap and the requests in between.
LEMMA NextSpend == Types /\ AuthInv /\ SpendInv /\ [Next]_vars => SpendInv'
<1> SUFFICES ASSUME Types, AuthInv, SpendInv, [Next]_vars PROVE SpendInv'
  OBVIOUS
<1>0. /\ \A c \in Channels : calls[c] \in Nat /\ Pending(c) \in SUBSET Slots
      /\ \A c \in Channels : Within(calls[c], Pending(c))
  BY DEF Types, Pending, SpendInv
<1>1. ASSUME calls' = calls, \A c \in Channels : Pending(c)' \in SUBSET Pending(c)
      PROVE  SpendInv'
  <2>1. \A c \in Channels : Within(calls[c], Pending(c)')
    BY <1>0, <1>1, FewerPending
  <2> QED
    BY <1>1, <2>1 DEF SpendInv, Within
<1>2. ASSUME NEW r \in Slots, NEW x \in Request, req' = [req EXCEPT ![r] = x], Moves(r, x)
      PROVE  SpendInv'
  <2>1. CASE Quiet(req[r], x)
    <3>1. /\ calls' = calls
          /\ Waiting(x) => Waiting(req[r]) /\ x.chan = req[r].chan /\ x.spend = req[r].spend
      BY <2>1 DEF Quiet
    <3>2. \A c \in Channels : Pending(c)' \in SUBSET Pending(c)
      BY <1>2, <3>1 DEF Pending, Types, Waiting
    <3> QED
      BY <1>1, <3>1, <3>2
  <2>2. CASE Commit(r) /\ x = [Decided(r) EXCEPT !.pc = "metered", !.metered = TRUE]
    BY <1>2, <2>2, CommitSpend
  <2>3. CASE \/ Dispatch(r) /\ x = [req[r] EXCEPT !.pc = "dispatched"]
             \/ Recorded(req[r], x)
    <3>1. calls' = calls /\ ~Waiting(x)
      BY <2>3 DEF Dispatch, Recorded, Waiting, meter, Types, Request
    <3>2. \A c \in Channels : Pending(c)' \in SUBSET Pending(c)
      BY <1>2, <3>1 DEF Pending, Types, Waiting
    <3> QED
      BY <1>1, <3>1, <3>2
  <2> QED
    BY <1>2, <2>1, <2>2, <2>3 DEF Moves
<1>3. ASSUME NEW r \in Slots, NEW c \in Channels, NEW k \in Calls,
             NEW t \in {NoTicket} \cup TicketIds, Arrive(r, c, k, t)
      PROVE  SpendInv'
  <2> DEFINE x == [Idle EXCEPT !.pc = "reading", !.chan = c, !.call = k, !.with = t,
                               !.spend = calls[c]]
  <2>1. x.chan = c /\ x.spend = calls[c]
    BY DEF Idle
  <2>2. req' = [req EXCEPT ![r] = x] /\ calls' = calls
    BY <1>3 DEF Arrive, meter
  <2> HIDE DEF x
  <2>3. \A p \in Slots : req'[p] = IF p = r THEN x ELSE req[p]
    BY <2>2 DEF Types
  <2>4. ASSUME NEW d \in Channels PROVE Within(calls[d], Pending(d)')
    <3>1. CASE calls[d] < TopCap
      BY <3>1 DEF Within
    <3>2. CASE ~(calls[d] < TopCap)
      <4>1. Pending(d)' \in SUBSET Pending(d)
        BY <2>1, <2>3, <3>2 DEF Pending, Waiting
      <4> QED
        BY <1>0, <4>1, FewerPending
    <3> QED
      BY <3>1, <3>2
  <2> QED
    BY <2>2, <2>4 DEF SpendInv, Within
<1>4. CASE req' = [r \in Slots |-> Idle] /\ UNCHANGED <<calls, runs>>
  <2>1. \A c \in Channels : Pending(c)' = {}
    BY <1>4 DEF Pending, Waiting, Idle
  <2> QED
    BY <1>1, <1>4, <2>1
<1>5. CASE UNCHANGED <<req, calls, runs>>
  BY <1>1, <1>5 DEF Pending, Waiting
<1>6. ASSUME UNCHANGED req, NEW C \in SUBSET Channels, ClearDay(C)
      PROVE  SpendInv'
  <2>1. \A c \in Channels : Pending(c)' = Pending(c)
    BY <1>6 DEF Pending, Waiting
  <2>2. \A c \in Channels : calls'[c] = IF c \in C THEN 0 ELSE calls[c]
    BY <1>6 DEF ClearDay
  <2>3. ASSUME NEW c \in Channels PROVE Within(0, Pending(c))
    <3>1. CASE TopCap > 0
      BY <1>0, <3>1, NothingPending
    <3>2. CASE ~(TopCap > 0)
      <4>1. Pending(c) = {}
        BY <3>2, GateAssumption DEF Pending, Types, Request
      <4> QED
        BY <4>1, NothingPending
    <3> QED
      BY <3>1, <3>2
  <2> QED
    BY <1>0, <2>1, <2>2, <2>3 DEF SpendInv, Within
<1> QED
  BY <1>2, <1>3, <1>4, <1>5, <1>6, NextMoves

\* The overshoot dispatch.ts accepts is bounded by the channel's concurrency:
\* with n connections served at once, no channel is counted more than n - 1
\* calls past the largest cap its sheets set.
THEOREM Overshoot == Spec => []OvershootBounded
<1>1. Init => AuthInv /\ SpendInv
  <2>1. Init => AuthInv
    BY GateAssumption DEF Init, AuthInv, Authorized, Committed, Idle, NoTicket
  <2>2. Init => \A c \in Channels : calls[c] = 0 /\ Pending(c) = {}
    BY DEF Init, Pending, Waiting, Idle
  <2> QED
    BY <2>1, <2>2, NothingPending DEF SpendInv
<1>2. Types /\ SpendInv => OvershootBounded
  <2> SUFFICES ASSUME Types, SpendInv, NEW c \in Channels
               PROVE  calls[c] <= TopCap + Cardinality(Slots) - 1
    BY DEF OvershootBounded
  <2>1. Within(calls[c], Pending(c)) /\ Pending(c) \in SUBSET Slots /\ calls[c] \in Nat
    BY DEF SpendInv, Pending, Types
  <2> QED
    BY <2>1, SlotSets, GateAssumption DEF Within
<1> QED
  BY <1>1, <1>2, GateTypes, NextAuthorized, NextSpend, PTL DEF Spec

-----------------------------------------------------------------------------
(***************************************************************************)
(* The rows of a ticket agree.  A row is written of a ticket its request   *)
(* presents, and what the row says is in the ticket by then: the verdict   *)
(* for a row of the verdict or of the run, the mark of the observer for an *)
(* `expired' row.  TicketsStand keeps it there.                            *)
(***************************************************************************)
Story(t) ==
  /\ t > minted => rows[t] = {} /\ expiries[t] = 0
  /\ rows[t] # {} \/ (t <= minted /\ ticket[t].offered) =>
       "held" \in rows[t] /\ ticket[t].call \in captured
  /\ "denied" \in rows[t] => ticket[t].verdict = "deny"
  /\ rows[t] \cap {"approved", "ran"} # {} => ticket[t].verdict = "approve"
  /\ expiries[t] <= IF ticket[t].seen THEN 1 ELSE 0

Presents(q) == q.with # NoTicket => q.with \in 1..minted /\ ticket[q.with].offered

StoryInv == (\A t \in TicketIds : Story(t)) /\ \A r \in Slots : Presents(req[r])

\* The ticket bears out a row of outcome o.
BornOut(t, o) ==
  /\ t \in 1..minted /\ ticket[t].offered
  /\ o = "denied" => ticket'[t].verdict = "deny"
  /\ o \in {"approved", "ran"} => ticket'[t].verdict = "approve"
  /\ o = "expired" => ~ticket[t].seen /\ ticket'[t].seen

\* A step that mints nothing and adds at most one row, borne out.
TellsOf(t, o, how) ==
  /\ UNCHANGED minted /\ captured \subseteq captured'
  /\ Append(t, o, how)
  /\ t # NoTicket => BornOut(t, o)

\* A row that its ticket bears out keeps the ticket's story straight, and
\* every other ticket's.
LEMMA TellsStory ==
  ASSUME Types, Types', [Next]_vars, \A u \in TicketIds : Story(u),
         NEW t, NEW o, NEW how, TellsOf(t, o, how)
  PROVE  \A u \in TicketIds : Story(u)'
<1>1. SUFFICES ASSUME NEW u \in TicketIds PROVE Story(u)'
  OBVIOUS
<1>2. /\ minted \in Nat /\ minted' = minted /\ u \in Nat
      /\ ticket[u] \in TicketRecord /\ ticket'[u] \in TicketRecord
      /\ rows \in [TicketIds -> SUBSET Outcomes] /\ expiries \in [TicketIds -> Nat]
  <2>1. minted \in Nat /\ minted' = minted /\ u \in Nat
    BY GateAssumption DEF Types, TicketIds, TellsOf
  <2> QED
    BY <2>1 DEF Types
<1>3. u <= minted => Stands(u)
  BY <1>2, TicketStep DEF TicketIds
<1>4. u > minted => t # u
  BY <1>2 DEF TellsOf, BornOut, NoTicket, TicketIds
<1>5. /\ rows'[u] = IF t = u /\ Lands(how) THEN rows[u] \cup {o} ELSE rows[u]
      /\ expiries'[u] = IF t = u /\ Lands(how) /\ o = "expired" THEN expiries[u] + 1
                        ELSE expiries[u]
  <2>1. u # NoTicket
    BY DEF NoTicket, TicketIds
  <2>2. Append(t, o, how)
    BY DEF TellsOf
  <2>3. rows'[u] = IF t = u /\ Lands(how) THEN rows[u] \cup {o} ELSE rows[u]
    BY <1>2, <2>1, <2>2 DEF Append
  <2>4. expiries'[u] = IF t = u /\ Lands(how) /\ o = "expired" THEN expiries[u] + 1
                       ELSE expiries[u]
    BY <1>2, <2>1, <2>2 DEF Append
  <2> QED
    BY <2>3, <2>4
<1>6. Story(u) /\ captured \subseteq captured'
  BY DEF TellsOf
<1>7. CASE u > minted
  BY <1>2, <1>4, <1>5, <1>6, <1>7 DEF Story
<1>8. CASE u <= minted /\ (t # u \/ ~Lands(how))
  BY <1>2, <1>3, <1>5, <1>6, <1>8 DEF Story, Stands, TicketRecord, Verdicts
<1>9. CASE u <= minted /\ t = u /\ Lands(how)
  <2>1. BornOut(u, o) /\ Stands(u) /\ u \in 1..minted
    BY <1>2, <1>3, <1>9 DEF TellsOf, NoTicket, TicketIds
  <2>2. /\ "held" \in rows[u] /\ ticket[u].call \in captured
        /\ rows'[u] = rows[u] \cup {o}
    BY <1>2, <1>5, <1>6, <1>9, <2>1 DEF Story, BornOut
  <2>3. "denied" \in rows'[u] => ticket'[u].verdict = "deny"
    BY <1>6, <2>1, <2>2 DEF Story, BornOut, Stands
  <2>4. rows'[u] \cap {"approved", "ran"} # {} => ticket'[u].verdict = "approve"
    BY <1>6, <2>1, <2>2 DEF Story, BornOut, Stands
  <2>5. expiries'[u] <= IF ticket'[u].seen THEN 1 ELSE 0
    BY <1>2, <1>5, <1>6, <1>9, <2>1 DEF Story, BornOut, Stands
  <2>6. "held" \in rows'[u] /\ ticket'[u].call \in captured'
    BY <1>6, <2>1, <2>2 DEF Stands
  <2> QED
    BY <1>2, <2>1, <2>3, <2>4, <2>5, <2>6 DEF Story
<1> QED
  BY <1>2, <1>7, <1>8, <1>9

\* A step that writes no row and mints nothing tells nothing.
LEMMA SilentStory ==
  ASSUME Types, Types', [Next]_vars, \A u \in TicketIds : Story(u),
         UNCHANGED <<minted, captured, rows, expiries>>
  PROVE  \A u \in TicketIds : Story(u)'
<1>1. TellsOf(NoTicket, "refused", "row")
  BY DEF TellsOf, Append
<1> QED
  BY <1>1, TellsStory

\* The closure's row is borne out if its ticket bears it out.
LEMMA AuditTells ==
  ASSUME NEW r, NEW q, NEW t, NEW o, NEW how, NEW next, Audit(r, q, t, o, how, next),
         UNCHANGED minted, t # NoTicket => BornOut(t, o)
  PROVE  TellsOf(t, o, how)
BY DEF Audit, Capture, TellsOf

\* The catch writes an `unanswered' row or none.
LEMMA CaughtTells ==
  ASSUME Types, Types', [Next]_vars, \A u \in TicketIds : Story(u),
         NEW r, NEW q, Presents(q), Caught(r, q), UNCHANGED minted
  PROVE  \A u \in TicketIds : Story(u)'
<1>1. CASE q.audited
  BY <1>1, SilentStory DEF Caught, record
<1>2. CASE ~q.audited
  <2>1. PICK how : Audit(r, q, q.with, "unanswered", how, "answered")
    BY <1>2 DEF Caught
  <2>2. q.with # NoTicket => BornOut(q.with, "unanswered")
    BY DEF Presents, BornOut
  <2> QED
    BY <2>1, <2>2, AuditTells, TellsStory
<1> QED
  BY <1>1, <1>2

\* A mint and its row: the ticket is new, no row spoke of it, and it is
\* offered only if the row that holds it was written.
LEMMA HoldStory ==
  ASSUME Types, Types', [Next]_vars, \A u \in TicketIds : Story(u), NEW r \in Slots, Hold(r)
  PROVE  \A u \in TicketIds : Story(u)'
<1> DEFINE m == minted + 1
<1>1. PICK how \in Writes("held") :
        /\ Mint(req[r].chan, req[r].call, how = "row")
        /\ Audit(r, Decided(r), m, "held", how, "answered")
  BY DEF Hold
<1>2. /\ minted \in Nat /\ m \in TicketIds /\ m # NoTicket /\ minted' = m
      /\ ticket \in [TicketIds -> TicketRecord] /\ rows \in [TicketIds -> SUBSET Outcomes]
      /\ expiries \in [TicketIds -> Nat] /\ req[r] \in Request
  <2>1. minted \in Nat /\ MaxMints \in Nat /\ minted < MaxMints
    BY GateAssumption DEF Types, Hold
  <2>2. m \in TicketIds /\ m # NoTicket
    BY <2>1 DEF TicketIds, NoTicket
  <2>3. minted' = m
    BY <1>1 DEF Mint
  <2> QED
    BY <2>1, <2>2, <2>3 DEF Types
<1>3. /\ rows[m] = {} /\ expiries[m] = 0
  BY <1>2 DEF Story
<1>4. /\ rows' = IF Lands(how) THEN [rows EXCEPT ![m] = @ \cup {"held"}] ELSE rows
      /\ expiries' = expiries /\ captured \subseteq captured'
      /\ how # "noCapture" => req[r].call \in captured'
  BY <1>1, <1>2 DEF Audit, Append, Capture, Blocked, Decided, Request
<1>5. /\ ticket'[m].call = req[r].call /\ ticket'[m].verdict = "null" /\ ~ticket'[m].seen
      /\ ticket'[m].offered <=> how = "row"
      /\ \A u \in TicketIds \ {m} : ticket'[u] = ticket[u]
  BY <1>1, <1>2 DEF Mint
<1>6. SUFFICES ASSUME NEW u \in TicketIds PROVE Story(u)'
  OBVIOUS
<1>7. CASE u = m
  <2>1. rows'[m] = IF Lands(how) THEN {"held"} ELSE {}
    BY <1>2, <1>3, <1>4
  <2>2. Lands(how) => how # "noCapture"
    BY DEF Lands
  <2>3. how = "row" => Lands(how)
    BY DEF Lands
  <2> QED
    BY <1>2, <1>3, <1>4, <1>5, <1>7, <2>1, <2>2, <2>3 DEF Story
<1>8. CASE u # m
  <2>1. /\ u > m => u > minted
        /\ u <= m => u <= minted
        /\ rows'[u] = rows[u] /\ expiries'[u] = expiries[u] /\ ticket'[u] = ticket[u]
    BY <1>2, <1>4, <1>5, <1>8 DEF TicketIds
  <2> HIDE DEF m
  <2> QED
    BY <1>2, <1>4, <2>1 DEF Story
<1> QED
  BY <1>7, <1>8

\* Every step of a request tells the truth of its ticket.
LEMMA StepStory ==
  ASSUME Types, Types', [Next]_vars, AuthInv, StoryInv, NEW r \in Slots, Step(r)
  PROVE  \A u \in TicketIds : Story(u)'
<1> USE DEF store, meter, record
<1>s. \A u \in TicketIds : Story(u)
  BY DEF StoryInv
<1>q. req[r] \in Request /\ Presents(req[r])
  BY DEF Types, StoryInv
<1>d. /\ Decided(r) \in Request /\ Decided(r).with = req[r].with
      /\ Decided(r).audited = req[r].audited /\ Presents(Decided(r))
  BY <1>q, DecidedType DEF Decided, Request, Presents
<1>b. ASSUME NEW o \in {"refused", "unavailable"}, req[r].with # NoTicket
      PROVE  BornOut(req[r].with, o)
  BY <1>b, <1>q DEF BornOut, Presents
<1>1. CASE Refuse(r)
  <2>1. PICK how : Audit(r, Decided(r), req[r].with, "refused", how, "answered")
    BY <1>1 DEF Refuse
  <2>2. TellsOf(req[r].with, "refused", how)
    BY <1>1, <1>b, <2>1, AuditTells DEF Refuse
  <2> QED
    BY <1>s, <2>2, TellsStory
<1>2. CASE Hold(r)
  BY <1>2, <1>s, HoldStory
<1>3. CASE TurnAway(r)
  <2> DEFINE t == req[r].with
             fresh == RedeemOutcome(req[r]) = "expired" /\ Unseen(t)
             o == IF fresh THEN "expired" ELSE "refused"
  <2>1. PICK how : Audit(r, Decided(r), t, o, how, "answered")
    BY <1>3 DEF TurnAway
  <2>2. t # NoTicket /\ minted' = minted
        /\ ticket' = IF fresh THEN [ticket EXCEPT ![t].seen = TRUE] ELSE ticket
    BY <1>3 DEF TurnAway
  <2>3. t \in 1..minted /\ ticket[t].offered /\ t \in TicketIds
    <3>1. t \in 1..minted /\ ticket[t].offered
      BY <1>q, <2>2 DEF Presents
    <3>2. minted \in 0..MaxMints
      BY DEF Types
    <3> HIDE DEF t
    <3> QED
      BY <3>1, <3>2, GateAssumption DEF TicketIds
  <2>4. BornOut(t, o)
    <3>1. CASE fresh
      BY <2>2, <2>3, <3>1 DEF BornOut, Unseen, Types, TicketRecord
    <3>2. CASE ~fresh
      BY <2>3, <3>2 DEF BornOut
    <3> QED
      BY <3>1, <3>2
  <2> HIDE DEF t, o
  <2>5. TellsOf(t, o, how)
    BY <2>1, <2>2, <2>4, AuditTells
  <2> QED
    BY <1>s, <2>5, TellsStory
<1>4. CASE Served(r, "ran")
  <2>1. PICK how : Audit(r, req[r], req[r].with, "ran", how, "recorded")
    BY <1>4 DEF Served
  <2>2. minted' = minted /\ ticket' = ticket /\ Committed(req[r])
    BY <1>4 DEF Served, Committed
  <2>3. req[r].with # NoTicket => ticket[req[r].with].verdict = "approve"
    BY <2>2 DEF AuthInv, Authorized, Vouches
  <2>4. req[r].with # NoTicket => BornOut(req[r].with, "ran")
    BY <1>q, <2>2, <2>3 DEF BornOut, Presents
  <2>5. TellsOf(req[r].with, "ran", how)
    BY <2>1, <2>2, <2>4, AuditTells
  <2> QED
    BY <1>s, <2>5, TellsStory
<1>5. ASSUME NEW o \in {"refused", "unavailable"}, Served(r, o)
      PROVE  \A u \in TicketIds : Story(u)'
  <2>1. PICK how : Audit(r, req[r], req[r].with, o, how, "answered")
    BY <1>5 DEF Served
  <2>2. minted' = minted
    BY <1>5 DEF Served
  <2>3. TellsOf(req[r].with, o, how)
    BY <1>b, <2>1, <2>2, AuditTells
  <2> QED
    BY <1>s, <2>3, TellsStory
<1>6. CASE CommitThrows(r)
  BY <1>6, <1>s, <1>d, CaughtTells DEF CommitThrows
<1>7. CASE DispatchThrows(r) \/ NoticeThrows(r)
  BY <1>7, <1>s, <1>q, CaughtTells DEF DispatchThrows, NoticeThrows
<1>8. CASE \/ Resolve(r) \/ ResolveThrows(r) \/ Commit(r) \/ Dispatch(r) \/ Notice(r)
           \/ Reply(r)
  <2>1. UNCHANGED <<minted, captured, rows, expiries>>
    BY <1>8 DEF Resolve, ResolveThrows, Commit, Dispatch, Notice, Reply
  <2> QED
    BY <1>s, <2>1, SilentStory
<1> QED
  BY <1>1, <1>2, <1>3, <1>4, <1>5, <1>6, <1>7, <1>8 DEF Step

\* So do a click, and every other step of the system.
LEMMA NextStory == Types /\ Types' /\ AuthInv /\ StoryInv /\ [Next]_vars => StoryInv'
<1> SUFFICES ASSUME Types, Types', AuthInv, StoryInv, [Next]_vars PROVE StoryInv'
  OBVIOUS
<1>s. /\ \A u \in TicketIds : Story(u)
      /\ \A r \in Slots : Presents(req[r])
  BY DEF StoryInv
<1>0. /\ minted \in Nat /\ minted' \in Nat /\ minted <= minted'
      /\ \A t \in 1..minted : Stands(t)
      /\ req \in [Slots -> Request] /\ ticket \in [TicketIds -> TicketRecord]
      /\ 1..minted \subseteq TicketIds
  <2>1. minted \in Nat /\ minted <= MaxMints /\ MaxMints \in Nat
    BY GateAssumption DEF Types
  <2>2. 1..minted \subseteq TicketIds
    BY <2>1 DEF TicketIds
  <2>3. minted' \in Nat /\ minted <= minted' /\ \A t \in 1..minted : Stands(t)
    BY TicketStep
  <2> QED
    BY <2>1, <2>2, <2>3 DEF Types
<1>1. \A u \in TicketIds : Story(u)'
  <2>1. ASSUME NEW r \in Slots, Step(r) PROVE \A u \in TicketIds : Story(u)'
    BY <2>1, StepStory
  <2>2. ASSUME NEW c \in Channels, NEW t \in TicketIds, Expire(c, t)
        PROVE  \A u \in TicketIds : Story(u)'
    <3>1. PICK how : Append(t, "expired", how)
      BY <2>2 DEF Expire
    <3>2. /\ UNCHANGED <<minted, captured>> /\ ticket[t].offered /\ ~ticket[t].seen
          /\ t \in known /\ ticket' = [ticket EXCEPT ![t].seen = TRUE]
      BY <2>2 DEF Expire, Find, Held, Unseen
    <3>3. BornOut(t, "expired")
      BY <1>0, <3>2 DEF BornOut, Types, TicketRecord
    <3>4. TellsOf(t, "expired", how)
      BY <3>1, <3>2, <3>3 DEF TellsOf
    <3> QED
      BY <1>s, <3>4, TellsStory
  <2>3. ASSUME NEW c \in Channels, NEW t \in TicketIds, NEW v \in {"approve", "deny"},
               Decide(c, t, v)
        PROVE  \A u \in TicketIds : Story(u)'
    <3> DEFINE o == IF v = "approve" THEN "approved" ELSE "denied"
    <3>1. PICK how : Append(t, o, how)
      BY <2>3 DEF Decide
    <3>2. /\ UNCHANGED <<minted, captured>> /\ ticket[t].offered
          /\ t \in known /\ ticket' = [ticket EXCEPT ![t].verdict = v]
      BY <2>3 DEF Decide, Find, Held
    <3>3. BornOut(t, o)
      BY <1>0, <3>2 DEF BornOut, Types, TicketRecord
    <3> HIDE DEF o
    <3>4. TellsOf(t, o, how)
      BY <3>1, <3>2, <3>3 DEF TellsOf
    <3> QED
      BY <1>s, <3>4, TellsStory
  <2>4. ASSUME \/ \E r \in Slots, c \in Channels, k \in Calls, t \in {NoTicket} \cup TicketIds :
                    Arrive(r, c, k, t)
               \/ Environment
               \/ UNCHANGED vars
        PROVE  \A u \in TicketIds : Story(u)'
    <3>1. UNCHANGED <<minted, captured, rows, expiries>>
      BY <2>4 DEF Arrive, Environment, Tick, Restart, EditSheet, ClearDay, vars, store, record
    <3> QED
      BY <1>s, <3>1, SilentStory
  <2> QED
    BY <2>1, <2>2, <2>3, <2>4 DEF Next
<1>2. ASSUME NEW q, Presents(q) PROVE Presents(q)'
  BY <1>0, <1>2 DEF Presents, Stands
<1>3. ASSUME NEW r \in Slots, NEW x, req' = [req EXCEPT ![r] = x], Presents(x)'
      PROVE  \A p \in Slots : Presents(req[p])'
  <2>1. SUFFICES ASSUME NEW p \in Slots PROVE Presents(req[p])'
    OBVIOUS
  <2>2. req'[p] = x \/ req'[p] = req[p]
    BY <1>0, <1>3
  <2>3. Presents(req[p])
    BY <1>s
  <2>4. PICK q : q = req[p]
    OBVIOUS
  <2>5. Presents(q)'
    BY <1>2, <2>3, <2>4
  <2> QED
    BY <1>3, <2>2, <2>4, <2>5 DEF Presents
<1>4. ASSUME NEW r \in Slots, NEW x \in Request, req' = [req EXCEPT ![r] = x], Moves(r, x)
      PROVE  \A p \in Slots : Presents(req[p])'
  <2>1. x.with \in {NoTicket, req[r].with}
    <3>1. req[r] \in Request
      BY <1>0
    <3> QED
      BY <1>4, <3>1 DEF Moves, Quiet, Recorded, SameCall, Decided, Request
  <2>2. PICK w : w = req[r].with
    OBVIOUS
  <2>3. w # NoTicket => w \in 1..minted' /\ ticket'[w].offered
    BY <1>0, <1>s, <2>2 DEF Presents, Stands
  <2>4. Presents(x)'
    BY <2>1, <2>2, <2>3 DEF Presents
  <2> QED
    BY <1>3, <1>4, <2>4
<1>5. ASSUME NEW r \in Slots, NEW c \in Channels, NEW k \in Calls,
             NEW t \in {NoTicket} \cup TicketIds, Arrive(r, c, k, t)
      PROVE  \A p \in Slots : Presents(req[p])'
  <2> DEFINE y == [Idle EXCEPT !.pc = "reading", !.chan = c, !.call = k, !.with = t,
                               !.spend = calls[c]]
  <2>1. PICK x : x = y
    OBVIOUS
  <2>2. x.with = t /\ req' = [req EXCEPT ![r] = x] /\ UNCHANGED <<minted, ticket>>
    BY <1>5, <2>1 DEF Arrive, store, Idle
  <2>3. t # NoTicket => t \in 1..minted /\ ticket[t].offered
    BY <1>0, <1>5 DEF Arrive, NoTicket, TicketIds
  <2>4. Presents(x)'
    BY <2>2, <2>3 DEF Presents
  <2> QED
    BY <1>3, <2>2, <2>4
<1>6. CASE req' = [r \in Slots |-> Idle]
  BY <1>1, <1>6 DEF StoryInv, Presents, Idle
<1>7. CASE UNCHANGED req
  <2>1. SUFFICES ASSUME NEW p \in Slots PROVE Presents(req[p])'
    BY <1>1 DEF StoryInv
  <2>2. PICK q : q = req[p]
    OBVIOUS
  <2>3. Presents(q)'
    BY <1>2, <1>s, <2>2
  <2> QED
    BY <1>7, <2>2, <2>3 DEF Presents
<1> QED
  BY <1>1, <1>4, <1>5, <1>6, <1>7, NextMoves DEF StoryInv

\* The audit rows of one ticket tell one story over requests that race, clicks,
\* throws and restarts: audit.ts writes them from several handlers, and each
\* time the ticket of approvals.ts says so already.
THEOREM RowsAgree == Spec => []TicketRowsAgree
<1>1. Init => AuthInv
  BY GateAssumption DEF Init, AuthInv, Authorized, Committed, Idle, NoTicket
<1>2. Init => StoryInv
  BY GateAssumption DEF Init, StoryInv, Story, Presents, Idle, TicketIds, BlankTicket, NoTicket
<1>3. Types /\ StoryInv => TicketRowsAgree
  <2>1. SUFFICES ASSUME Types, NEW t \in TicketIds, Story(t)
                 PROVE  /\ rows[t] # {} => "held" \in rows[t] /\ ticket[t].call \in captured
                        /\ "denied" \in rows[t] => rows[t] \cap {"approved", "ran"} = {}
                        /\ expiries[t] <= 1
    BY DEF StoryInv, TicketRowsAgree
  <2>2. expiries[t] \in Nat
    BY <2>1 DEF Types
  <2> QED
    BY <2>1, <2>2 DEF Story
<1> QED
  BY <1>1, <1>2, <1>3, GateTypes, NextTypes, NextAuthorized, NextStory, PTL DEF Spec

-----------------------------------------------------------------------------
(***************************************************************************)
(* The cap of the store.                                                   *)
(***************************************************************************)
\* Of a finite set of numbers, those with fewer than n above them are n.
LEMMA NewestFew ==
  ASSUME NEW S, S \subseteq Nat, IsFiniteSet(S), NEW n \in Nat,
         NEW K \in SUBSET S, \A t \in K : Cardinality({u \in S : u > t}) < n
  PROVE  IsFiniteSet(K) /\ Cardinality(K) <= n
<1>0. K \subseteq Nat
  OBVIOUS
<1>1. IsFiniteSet(K) /\ Cardinality(K) \in Nat
  BY FS_Subset, FS_CardinalityType
<1>2. CASE K = {}
  BY <1>1, <1>2, FS_EmptySet
<1>3. CASE K # {}
  <2>1. PICK m \in K : \A k \in K : ~(<<k, m>> \in OpToRel(<, Nat))
    BY <1>3, NatLessThanWellFounded, WFMin
  <2>2. \A k \in K : k \in Nat /\ m \in Nat /\ ~(k < m)
    <3>1. SUFFICES ASSUME NEW k \in K PROVE k \in Nat /\ m \in Nat /\ ~(k < m)
      OBVIOUS
    <3>2. k \in Nat /\ m \in Nat /\ <<k, m>> \in Nat \X Nat
      BY <1>0
    <3> QED
      BY <2>1, <3>2 DEF OpToRel
  <2> DEFINE Above == {u \in S : u > m}
  <2>a. Above \in SUBSET S
    OBVIOUS
  <2>3. K \ {m} \in SUBSET Above /\ IsFiniteSet(Above)
    BY <1>0, <2>2, <2>a, FS_Subset
  <2>4. Cardinality(K \ {m}) = Cardinality(K) - 1
    BY <1>1, FS_RemoveElement
  <2>5. Cardinality(K \ {m}) <= Cardinality(Above) /\ Cardinality(Above) \in Nat
    BY <2>3, FS_Subset, FS_CardinalityType
  <2>6. Cardinality(Above) < n
    BY <2>1
  <2> QED
    BY <1>1, <2>4, <2>5, <2>6
<1> QED
  BY <1>2, <1>3

CapInv == \A c \in Channels : Cardinality(Held(c)) <= TicketCap

\* What a store holds is a finite set of numbers, so that it can be counted.
LEMMA HeldFinite ==
  ASSUME Types, NEW S \in SUBSET known
  PROVE  S \subseteq Nat /\ IsFiniteSet(S) /\ Cardinality(S) \in Nat
<1>1. minted \in Nat /\ known \subseteq 1..minted
  BY GateAssumption DEF Types
<1>a. S \in SUBSET (1..minted) /\ S \subseteq Nat
  BY <1>1
<1>2. IsFiniteSet(1..minted)
  BY <1>1, FS_Interval
<1> QED
  BY <1>a, <1>2, FS_Subset, FS_CardinalityType

\* Making room before a mint leaves room for it.
LEMMA KeptFew ==
  ASSUME Types, NEW c \in Channels
  PROVE  /\ IsFiniteSet(Kept(c)) /\ Kept(c) \subseteq Held(c)
         /\ Cardinality(Kept(c)) <= TicketCap - 1
<1>1. Remembered(c) \in SUBSET known
  BY DEF Remembered, Held
<1>2. TicketCap - 1 \in Nat
  BY GateAssumption
<1>3. IsFiniteSet(Kept(c)) /\ Cardinality(Kept(c)) <= TicketCap - 1
  BY <1>1, <1>2, HeldFinite, NewestFew DEF Kept
<1> QED
  BY <1>3 DEF Kept, Remembered

\* mint leaves a channel at its cap or below, whatever eviction removed.
LEMMA MintCap ==
  ASSUME Types, CapInv, NEW c \in Channels, NEW k \in Calls, NEW off \in BOOLEAN,
         minted < MaxMints, Mint(c, k, off)
  PROVE  CapInv'
<1>1. /\ minted \in Nat /\ known \subseteq 1..minted /\ minted + 1 \in TicketIds
      /\ ticket \in [TicketIds -> TicketRecord] /\ 1..minted \subseteq TicketIds
  BY GateAssumption DEF Types, TicketIds
<1>2. /\ known' = (known \ Held(c)) \cup Kept(c) \cup {minted + 1}
      /\ ticket'[minted + 1].chan = c
      /\ \A t \in known : ticket'[t] = ticket[t]
  BY <1>1 DEF Mint
<1>3. Kept(c) \subseteq Held(c) /\ IsFiniteSet(Kept(c))
  BY KeptFew
<1>4. Held(c)' = Kept(c) \cup {minted + 1}
  BY <1>2, <1>3 DEF Held
<1>5. Cardinality(Held(c)') <= TicketCap
  <2>1. IsFiniteSet(Kept(c) \cup {minted + 1}) /\ Cardinality(Kept(c)) \in Nat
    BY <1>3, FS_AddElement, FS_CardinalityType
  <2>2. Cardinality(Kept(c) \cup {minted + 1}) \in {Cardinality(Kept(c)), Cardinality(Kept(c)) + 1}
    BY <1>3, FS_AddElement
  <2>3. Cardinality(Kept(c)) <= TicketCap - 1 /\ TicketCap \in Nat
    BY KeptFew, GateAssumption
  <2> QED
    BY <1>4, <2>1, <2>2, <2>3
<1>6. \A d \in Channels \ {c} : Held(d)' = Held(d)
  BY <1>2, <1>3 DEF Held
<1> QED
  BY <1>5, <1>6 DEF CapInv

\* No step takes a channel past its cap.
LEMMA NextCap == Types /\ CapInv /\ [Next]_vars => CapInv'
<1> SUFFICES ASSUME Types, CapInv, [Next]_vars PROVE CapInv'
  OBVIOUS
<1>1. ASSUME NEW r \in Slots, Hold(r) PROVE CapInv'
  <2>1. PICK how \in Writes("held") : Mint(req[r].chan, req[r].call, how = "row")
    BY <1>1 DEF Hold
  <2>2. req[r].chan \in Channels /\ req[r].call \in Calls /\ minted < MaxMints
    BY <1>1 DEF Hold, Types, Request
  <2> QED
    BY <2>1, <2>2, MintCap
<1>2. ASSUME known' \subseteq known,
             \A t \in known : ticket'[t].chan = ticket[t].chan
      PROVE  CapInv'
  <2>1. \A c \in Channels : Held(c)' \subseteq Held(c) /\ Held(c) \in SUBSET known
    BY <1>2 DEF Held
  <2>2. \A c \in Channels : Cardinality(Held(c)') <= Cardinality(Held(c))
                            /\ Cardinality(Held(c)') \in Nat /\ Cardinality(Held(c)) \in Nat
    BY <2>1, HeldFinite, FS_Subset, FS_CardinalityType
  <2> QED
    BY <2>2, GateAssumption DEF CapInv
<1>3. \A t \in known : ticket'[t].chan = ticket[t].chan
  BY TicketStep DEF Stands, Types
<1>4. (\E r \in Slots : Hold(r)) \/ known' \subseteq known
  BY DEF Next, Step, Resolve, ResolveThrows, Refuse, TurnAway, Commit, CommitThrows,
         Dispatch, Served, DispatchThrows, Notice, NoticeThrows, Reply, Arrive, Expire,
         Decide, Environment, Tick, Restart, EditSheet, ClearDay, store, vars
<1> QED
  BY <1>1, <1>2, <1>3, <1>4

\* The one map a call that is refused can grow is bounded: a channel never
\* holds more than MAX_TICKETS_PER_CHANNEL tickets, however many calls it
\* has held.
THEOREM StoreBounded == Spec => []TypeOK
<1>1. Init => CapInv
  BY FS_EmptySet, GateAssumption DEF Init, CapInv, Held
<1>2. Types /\ CapInv => TypeOK
  BY DEF CapInv, TypeOK
<1> QED
  BY <1>1, <1>2, GateTypes, NextCap, PTL DEF Spec

-----------------------------------------------------------------------------
(***************************************************************************)
(* The gate implements the one-shot approval.                              *)
(***************************************************************************)
StatusOf(t) ==
  IF t > minted THEN "unissued"
  ELSE IF ticket[t].spent THEN "spent"
  ELSE IF t \notin known \/ now >= ticket[t].expiresAt THEN "lapsed"
  ELSE IF ticket[t].verdict = "null" THEN "open"
  ELSE IF ticket[t].verdict = "deny" THEN "denied" ELSE "approved"

\* The refinement mapping, ticket by ticket, now and after a step.
LEMMA StatusAt ==
  /\ TicketStatus = [t \in TicketIds |-> StatusOf(t)]
  /\ TicketStatus' = [t \in TicketIds |-> StatusOf(t)']
BY DEF TicketStatus, StatusOf

\* Time passing and tickets dropped from the store are tickets that lapse.
LEMMA LapseStep ==
  ASSUME Types, UNCHANGED <<minted, ticket, runs>>, known' \subseteq known,
         now' \in Nat, now <= now'
  PROVE  OneShot!Next
<1> DEFINE S == {t \in OneShot!Live : StatusOf(t)' = "lapsed"}
<1>1. now \in Nat /\ ticket \in [TicketIds -> TicketRecord]
  BY GateAssumption DEF Types
<1>2. ASSUME NEW t \in TicketIds
      PROVE  StatusOf(t)' = IF t \in S THEN "lapsed" ELSE StatusOf(t)
  <2>1. ticket[t].expiresAt \in Nat
    BY <1>1 DEF TicketRecord
  <2>2. t \in OneShot!Live <=> StatusOf(t) \in {"open", "approved", "denied"}
    BY StatusAt DEF OneShot!Live
  <2>3. StatusOf(t)' = "lapsed" \/ StatusOf(t)' = StatusOf(t)
    BY <1>1, <2>1 DEF StatusOf
  <2>4. StatusOf(t) = "lapsed" => StatusOf(t)' = "lapsed"
    BY <1>1, <2>1 DEF StatusOf
  <2>5. StatusOf(t) \in {"unissued", "spent"} => StatusOf(t)' = StatusOf(t)
    BY DEF StatusOf
  <2>6. StatusOf(t) \in {"unissued", "spent", "lapsed", "open", "approved", "denied"}
    BY DEF StatusOf
  <2> QED
    BY <2>2, <2>3, <2>4, <2>5, <2>6
<1>3. TicketStatus' = OneShot!Lapsed(S)
  BY <1>2, StatusAt DEF OneShot!Lapsed
<1>4. S \in SUBSET OneShot!Live
  OBVIOUS
<1> QED
  BY <1>3, <1>4 DEF OneShot!Next, OneShot!Lapse

\* A step that changes nothing a status rests on.
LEMMA SameStatus ==
  ASSUME UNCHANGED <<now, known, minted, runs>>,
         \A t \in TicketIds : /\ ticket'[t].spent = ticket[t].spent
                              /\ ticket'[t].verdict = ticket[t].verdict
                              /\ ticket'[t].expiresAt = ticket[t].expiresAt
  PROVE  UNCHANGED OneShot!vars
<1>1. \A t \in TicketIds : StatusOf(t)' = StatusOf(t)
  BY DEF StatusOf
<1>2. TicketStatus' = TicketStatus
  BY <1>1, StatusAt
<1> QED
  BY <1>2 DEF OneShot!vars

\* A mint, with the tickets it evicts, is an issue of the broker's promise.
LEMMA HoldIssues ==
  ASSUME Types, NEW c \in Channels, NEW k \in Calls, NEW off \in BOOLEAN,
         minted < MaxMints, Mint(c, k, off), UNCHANGED <<now, runs>>
  PROVE  OneShot!Next
<1>n. PICK n \in TicketIds : n = minted + 1
  BY GateAssumption DEF Types, TicketIds
<1>s. PICK S \in SUBSET OneShot!Live : S = {t \in OneShot!Live : t \notin known'}
  OBVIOUS
<1>1. /\ minted \in Nat /\ known \subseteq 1..minted /\ n \in TicketIds
      /\ ticket \in [TicketIds -> TicketRecord] /\ now \in Nat /\ TTL \in Nat \ {0}
  BY <1>n, GateAssumption DEF Types, TicketIds
<1>2. /\ minted' = n
      /\ n \in known'
      /\ known' \ {n} \subseteq known
      /\ \A t \in TicketIds \ {n} : ticket'[t] = ticket[t]
      /\ ticket'[n].verdict = "null" /\ ~ticket'[n].spent /\ ticket'[n].expiresAt = now + TTL
  BY <1>1, <1>n, KeptFew DEF Mint, Held
<1>3. StatusOf(n) = "unissued" /\ StatusOf(n)' = "open"
  BY <1>1, <1>2, <1>n DEF StatusOf
<1>4. ASSUME NEW t \in TicketIds \ {n}
      PROVE  StatusOf(t)' = IF t \in S THEN "lapsed" ELSE StatusOf(t)
  <2>1. t \in Nat /\ (t > minted' <=> t > minted)
    BY <1>1, <1>2, <1>n DEF TicketIds
  <2>2. t \in OneShot!Live <=> StatusOf(t) \in {"open", "approved", "denied"}
    BY StatusAt DEF OneShot!Live
  <2>3. t \in known' => t \in known
    BY <1>2
  <2>4. ticket'[t] = ticket[t]
    BY <1>2
  <2>5. CASE t \in known'
    <3>1. StatusOf(t)' = StatusOf(t)
      BY <2>1, <2>3, <2>4, <2>5 DEF StatusOf
    <3> QED
      BY <1>s, <2>5, <3>1
  <2>6. CASE t \notin known'
    <3>1. StatusOf(t)' = IF t > minted THEN "unissued"
                         ELSE IF ticket[t].spent THEN "spent" ELSE "lapsed"
      BY <2>1, <2>4, <2>6 DEF StatusOf
    <3>2. StatusOf(t) = "unissued" <=> t > minted
      BY DEF StatusOf
    <3>3. ~(t > minted) => (StatusOf(t) = "spent" <=> ticket[t].spent)
      BY DEF StatusOf
    <3>4. StatusOf(t) \in {"unissued", "spent", "lapsed", "open", "approved", "denied"}
      BY DEF StatusOf
    <3> QED
      BY <1>s, <2>2, <2>6, <3>1, <3>2, <3>3, <3>4
  <2> QED
    BY <2>5, <2>6
<1>5. TicketStatus' = [OneShot!Lapsed(S) EXCEPT ![n] = "open"]
  <2>1. \A t \in TicketIds :
          TicketStatus'[t] = IF t = n THEN "open" ELSE OneShot!Lapsed(S)[t]
    BY <1>3, <1>4, StatusAt DEF OneShot!Lapsed
  <2> QED
    BY <2>1, StatusAt DEF OneShot!Lapsed
<1>6. TicketStatus[n] = "unissued"
  BY <1>3, StatusAt
<1> QED
  BY <1>1, <1>5, <1>6 DEF OneShot!Next, OneShot!Issue

\* Redeeming spends an approved ticket.
LEMMA SpendStep ==
  ASSUME Types, UNCHANGED <<now, known, minted, runs>>, NEW t \in TicketIds,
         StatusOf(t) = "approved", ticket' = [ticket EXCEPT ![t].spent = TRUE]
  PROVE  OneShot!Next
<1>1. \A u \in TicketIds \ {t} : ticket'[u] = ticket[u]
  BY DEF Types
<1>2. ticket'[t].spent
  BY DEF Types, TicketRecord
<1>3. StatusOf(t)' = "spent" /\ \A u \in TicketIds \ {t} : StatusOf(u)' = StatusOf(u)
  BY <1>1, <1>2 DEF StatusOf
<1>4. \A u \in TicketIds : TicketStatus'[u] = IF u = t THEN "spent" ELSE TicketStatus[u]
  BY <1>3, StatusAt
<1>5. TicketStatus[t] = "approved" /\ TicketStatus' = [TicketStatus EXCEPT ![t] = "spent"]
  BY <1>4, StatusAt
<1> QED
  BY <1>5 DEF OneShot!Next, OneShot!Spend

\* A verdict is a decision of the promise, or changes nothing there.
LEMMA DecideSettles ==
  ASSUME Types, NEW c \in Channels, NEW t \in TicketIds, NEW v \in {"approve", "deny"},
         Decide(c, t, v)
  PROVE  OneShot!Next \/ UNCHANGED OneShot!vars
<1> DEFINE s == IF v = "approve" THEN "approved" ELSE "denied"
<1>1. /\ UNCHANGED <<now, known, minted, runs>>
      /\ ticket' = [ticket EXCEPT ![t].verdict = v]
      /\ t \in known /\ ~(now >= ticket[t].expiresAt) /\ ticket[t].verdict = "null"
  BY DEF Decide, Find, Held, IsDead, Undecided
<1>2. \A u \in TicketIds \ {t} : ticket'[u] = ticket[u]
  BY <1>1 DEF Types
<1>3. /\ ticket'[t].verdict = v /\ ticket'[t].spent = ticket[t].spent
      /\ ticket'[t].expiresAt = ticket[t].expiresAt
  BY <1>1 DEF Types, TicketRecord
<1>4. ~(t > minted)
  BY <1>1, GateAssumption DEF Types
<1>5. \A u \in TicketIds \ {t} : StatusOf(u)' = StatusOf(u)
  BY <1>1, <1>2 DEF StatusOf
<1>6. CASE ticket[t].spent
  <2>1. StatusOf(t)' = StatusOf(t)
    BY <1>1, <1>3, <1>4, <1>6 DEF StatusOf
  <2> QED
    BY <1>1, <1>5, <2>1, StatusAt DEF OneShot!vars
<1>7. CASE ~ticket[t].spent
  <2>1. StatusOf(t) = "open" /\ StatusOf(t)' = s
    BY <1>1, <1>3, <1>4, <1>7 DEF StatusOf
  <2>2. \A u \in TicketIds : TicketStatus'[u] = IF u = t THEN s ELSE TicketStatus[u]
    BY <1>5, <2>1, StatusAt
  <2>3. TicketStatus[t] = "open" /\ TicketStatus' = [TicketStatus EXCEPT ![t] = s]
    BY <2>1, <2>2, StatusAt
  <2>4. s \in {"approved", "denied"}
    OBVIOUS
  <2> HIDE DEF s
  <2> QED
    BY <1>1, <2>3, <2>4 DEF OneShot!Next, OneShot!Settle
<1> QED
  BY <1>6, <1>7

\* The call that a redeemed ticket let through is the one run of its ticket.
LEMMA DispatchRuns ==
  ASSUME Types, AuthInv, OnceInv, NEW r \in Slots, Dispatch(r)
  PROVE  OneShot!Next \/ UNCHANGED OneShot!vars
<1>1. UNCHANGED <<now, known, minted, ticket>> /\ req[r].pc = "metered"
  BY DEF Dispatch, store
<1>2. TicketStatus' = TicketStatus
  BY <1>1, StatusAt DEF StatusOf
<1>3. CASE req[r].with = NoTicket
  BY <1>2, <1>3 DEF Dispatch, OneShot!vars
<1>4. CASE req[r].with # NoTicket
  <2>1. PICK t \in TicketIds : t = req[r].with
    BY <1>4 DEF Types, Request
  <2>2. Holding(req[r]) /\ Committed(req[r])
    BY <1>1, <1>4 DEF Holding, Committed
  <2>3. runs[t] = 0 /\ t <= minted /\ ticket[t].spent
    BY <1>1, <1>4, <2>1, <2>2, GateAssumption
    DEF OnceInv, AuthInv, Authorized, Vouches, Types
  <2>4. runs' = [runs EXCEPT ![t] = 1]
    BY <1>4, <2>1, <2>3 DEF Dispatch
  <2>5. TicketStatus[t] = "spent"
    <3>1. ~(t > minted)
      BY <2>3, GateAssumption DEF Types, TicketIds
    <3> QED
      BY <2>3, <3>1, StatusAt DEF StatusOf
  <2> QED
    BY <1>2, <2>3, <2>4, <2>5 DEF OneShot!Next, OneShot!Run
<1> QED
  BY <1>3, <1>4

\* A ticket redeem answers `redeemed' for stands approved.
LEMMA RedeemedApproved ==
  ASSUME Types, NEW q \in Request, q.with # NoTicket, RedeemOutcome(q) = "redeemed"
  PROVE  q.with \in TicketIds /\ StatusOf(q.with) = "approved"
<1>1. q.with \in TicketIds
  BY DEF Request
<1>2. /\ q.with \in known /\ ~(now >= ticket[q.with].expiresAt)
      /\ ~ticket[q.with].spent /\ ticket[q.with].verdict # "null"
      /\ ticket[q.with].verdict # "deny"
  BY DEF RedeemOutcome, Find, Held, IsDead, Undecided
<1>3. ~(q.with > minted)
  <2>1. minted \in Nat /\ known \subseteq 1..minted
    BY GateAssumption DEF Types
  <2>2. PICK t \in 1..minted : t = q.with
    BY <1>2, <2>1
  <2> QED
    BY <2>1, <2>2
<1> QED
  BY <1>1, <1>2, <1>3 DEF StatusOf

\* Redeeming is a spend of an approved ticket.
LEMMA CommitSpends ==
  ASSUME Types, NEW r \in Slots, Commit(r) \/ CommitThrows(r)
  PROVE  OneShot!Next \/ UNCHANGED OneShot!vars
<1>1. /\ UNCHANGED <<now, known, minted, runs>> /\ req[r] \in Request
      /\ Serves(req[r]) /\ ticket' = Redeemed(req[r].with)
  BY DEF Commit, CommitThrows, Types
<1>2. CASE req[r].with = NoTicket
  BY <1>1, <1>2, SameStatus DEF Redeemed
<1>3. CASE req[r].with # NoTicket
  <2>1. PICK t : t = req[r].with
    OBVIOUS
  <2>2. t \in TicketIds /\ StatusOf(t) = "approved"
    BY <1>1, <1>3, <2>1, RedeemedApproved DEF Serves
  <2>3. ticket' = [ticket EXCEPT ![t].spent = TRUE]
    BY <1>1, <1>3, <2>1 DEF Redeemed
  <2> QED
    BY <1>1, <2>2, <2>3, SpendStep
<1> QED
  BY <1>2, <1>3

\* Whether an agent saw a ticket's state is nothing to the promise.
LEMMA SeenStutters ==
  ASSUME Types, UNCHANGED <<now, known, minted, runs>>, NEW t,
         ticket' \in {ticket, [ticket EXCEPT ![t].seen = TRUE]}
  PROVE  UNCHANGED OneShot!vars
<1>1. \A u \in TicketIds : /\ ticket'[u].spent = ticket[u].spent
                           /\ ticket'[u].verdict = ticket[u].verdict
                           /\ ticket'[u].expiresAt = ticket[u].expiresAt
  BY DEF Types, TicketRecord
<1> QED
  BY <1>1, SameStatus

\* Every step of a request is a step of the promise or a stutter.
LEMMA StepRefines ==
  ASSUME Types, AuthInv, OnceInv, NEW r \in Slots, Step(r)
  PROVE  OneShot!Next \/ UNCHANGED OneShot!vars
<1>1. CASE Hold(r)
  <2>1. PICK how \in Writes("held") : Mint(req[r].chan, req[r].call, how = "row")
    BY <1>1 DEF Hold
  <2>2. req[r].chan \in Channels /\ req[r].call \in Calls /\ minted < MaxMints
        /\ UNCHANGED <<now, runs>>
    BY <1>1 DEF Hold, Types, Request
  <2> QED
    BY <2>1, <2>2, HoldIssues
<1>2. CASE TurnAway(r)
  <2>1. /\ UNCHANGED <<now, known, minted, runs>>
        /\ ticket' \in {ticket, [ticket EXCEPT ![req[r].with].seen = TRUE]}
    BY <1>2 DEF TurnAway
  <2> QED
    BY <2>1, SeenStutters
<1>3. CASE Commit(r) \/ CommitThrows(r)
  BY <1>3, CommitSpends
<1>4. CASE Dispatch(r)
  BY <1>4, DispatchRuns
<1>5. CASE UNCHANGED <<now, known, minted, ticket, runs>>
  BY <1>5, SameStatus
<1>6. \/ Hold(r) \/ TurnAway(r) \/ Commit(r) \/ CommitThrows(r) \/ Dispatch(r)
      \/ UNCHANGED <<now, known, minted, ticket, runs>>
  BY DEF Step, Resolve, ResolveThrows, Refuse, Served, DispatchThrows, Notice,
         NoticeThrows, Reply, store
<1> QED
  BY <1>1, <1>2, <1>3, <1>4, <1>5, <1>6

\* So is every step of the system.
LEMMA NextRefines ==
  Types /\ AuthInv /\ OnceInv /\ [Next]_vars => [OneShot!Next]_(OneShot!vars)
<1> SUFFICES ASSUME Types, AuthInv, OnceInv, [Next]_vars
             PROVE  OneShot!Next \/ UNCHANGED OneShot!vars
  OBVIOUS
<1>0. now \in Nat /\ now + 1 \in Nat /\ now <= now + 1 /\ now <= now
  BY GateAssumption DEF Types
<1>1. ASSUME NEW r \in Slots, Step(r) PROVE OneShot!Next \/ UNCHANGED OneShot!vars
  BY <1>1, StepRefines
<1>2. ASSUME NEW c \in Channels, NEW t \in TicketIds, Expire(c, t)
      PROVE  UNCHANGED OneShot!vars
  <2>1. /\ UNCHANGED <<now, known, minted, runs>>
        /\ ticket' \in {ticket, [ticket EXCEPT ![t].seen = TRUE]}
    BY <1>2 DEF Expire
  <2> QED
    BY <2>1, SeenStutters
<1>3. ASSUME NEW c \in Channels, NEW t \in TicketIds, NEW v \in {"approve", "deny"},
             Decide(c, t, v)
      PROVE  OneShot!Next \/ UNCHANGED OneShot!vars
  BY <1>3, DecideSettles
<1>4. CASE Tick \/ Restart
  <2>1. /\ UNCHANGED <<minted, ticket, runs>> /\ known' \subseteq known
        /\ now' \in {now, now + 1}
    BY <1>4 DEF Tick, Restart, store
  <2> QED
    BY <1>0, <2>1, LapseStep
<1>5. ASSUME \/ \E c \in Channels, s \in Sheets : EditSheet(c, s)
             \/ \E C \in SUBSET Channels : ClearDay(C)
             \/ \E r \in Slots, c \in Channels, k \in Calls, t \in {NoTicket} \cup TicketIds :
                  Arrive(r, c, k, t)
             \/ UNCHANGED vars
      PROVE  UNCHANGED OneShot!vars
  <2>1. UNCHANGED <<now, known, minted, ticket, runs>>
    BY <1>5 DEF EditSheet, ClearDay, Arrive, vars, store
  <2> QED
    BY <2>1, SameStatus
<1> QED
  BY <1>1, <1>2, <1>3, <1>4, <1>5 DEF Next, Environment

\* The gate and its store implement the one-shot approval: a verdict is given
\* once, only an approved ticket that has neither died nor been evicted is
\* spent, and a spent one lets one call run.
THEOREM Implements == Spec => OneShotSpec
<1>1. Init => OneShot!Init
  <2>1. SUFFICES ASSUME Init PROVE OneShot!Init
    OBVIOUS
  <2>2. \A t \in TicketIds : StatusOf(t) = "unissued"
    BY <2>1, GateAssumption DEF Init, StatusOf, TicketIds
  <2> QED
    BY <2>1, <2>2, StatusAt DEF Init, OneShot!Init
<1>2. Init => AuthInv /\ OnceInv
  BY GateAssumption
  DEF Init, AuthInv, Authorized, Committed, OnceInv, Holding, Idle, NoTicket
<1> QED
  BY <1>1, <1>2, GateTypes, NextAuthorized, NextOnce, NextRefines, PTL
  DEF Spec, OneShotSpec, OneShot!Spec
=============================================================================
