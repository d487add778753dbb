---------------------------- MODULE SpendReports ----------------------------
(***************************************************************************)
(* One channel's spend in the proxy's budget file: spend-route.ts,         *)
(* budget-meter.ts, budget-db.ts and the drift record of drift-db.ts, with *)
(* the operator's command (budget-admin.ts) as a second process on the     *)
(* file.                                                                   *)
(*                                                                         *)
(* A turn is reported under its id, as often as the agent cares to; a      *)
(* report costs one token.  A step is one commit or one read of a file;    *)
(* the proxy has one report in hand at a time, since its handler awaits    *)
(* nothing that takes time.                                                *)
(***************************************************************************)
EXTENDS Integers, FiniteSets

CONSTANTS
  Turns,      \* turn ids
  Models,     \* bucket names, LEGACY_MODEL and UNREPORTED_MODEL among them
  Legacy,     \* LEGACY_MODEL
  ModelOf,    \* [Turns -> Models]: the bucket a turn's report names
  Priced,     \* turns whose report names a model and carries a cost
  DayTicks,   \* ticks of the clock in a UTC day
  Retention,  \* TURN_RETENTION_MS, in ticks
  Starts,     \* budget files the proxy may find
  MaxTime,    \* bound: the clock
  MaxSpend,   \* bound: tokens in a bucket
  MaxCalls,   \* bound: tool calls of a day
  MaxResets   \* bound: resets

ASSUME SpendAssumption ==
  /\ Legacy \in Models /\ ModelOf \in [Turns -> Models] /\ Priced \subseteq Turns
  /\ Turns # {} /\ IsFiniteSet(Turns)
  /\ DayTicks \in Nat \ {0} /\ Retention \in Nat
  /\ MaxTime \in Nat /\ MaxSpend \in Nat /\ MaxCalls \in Nat /\ MaxResets \in Nat

VARIABLES
  now,   \* the clock
  file,  \* the budget file
  proc,  \* [Procs -> the proxy, and the operator's command]
  hand,  \* the report the proxy has in hand
  drift, \* the drift file: [Days -> [Models -> turns]]
  past   \* what was counted: times and last per turn, turns cleared since
         \* they were, and a count per day and bucket

vars == <<now, file, proc, hand, drift, past>>

-----------------------------------------------------------------------------
Days  == 0..(MaxTime \div DayTicks)
Today == now \div DayTicks
Never == -1
Procs == {"proxy", "operator"}
Zero  == [d \in Days |-> [m \in Models |-> 0]]

\* old: channel_spend still has the token columns of version 1, and what they
\* hold; turns: turn_report, the time and the day of each id in it.
File == [stamp : 0..2, old : BOOLEAN, columns : [Days -> 0..MaxSpend],
         bucket : [Days -> [Models -> 0..(2 * MaxSpend)]], calls : [Days -> 0..MaxCalls],
         turns : [Turns -> [at : Never..MaxTime, day : Days]]]

Forgotten == [at |-> Never, day |-> 0]

\* Old columns that are gone hold nothing, and no claim is without its tokens.
ASSUME StartsAssumption ==
  \A f \in Starts :
    /\ f \in File
    /\ ~f.old => \A d \in Days : f.columns[d] = 0
    /\ \A d \in Days, m \in Models :
         Cardinality({t \in Turns : f.turns[t].at # Never /\ f.turns[t].day = d /\ ModelOf[t] = m})
           <= f.bucket[d][m]

Proc == [pc : {"down", "versioned", "columned", "up"}, carries : BOOLEAN, pruned : Days \cup {Never}]

Down == [pc |-> "down", carries |-> FALSE, pruned |-> Never]

\* The report in hand: its commit made, then the prune; fresh is the outcome
\* "recorded", as opposed to "duplicate".
Hand == [step : {"none", "recorded", "pruned"}, turn : Turns, day : Days, fresh : BOOLEAN]

Nothing == [step |-> "none", turn |-> CHOOSE t \in Turns : TRUE, day |-> 0, fresh |-> FALSE]

Init ==
  /\ now = 0
  /\ file \in Starts
  /\ proc = [p \in Procs |-> Down]
  /\ hand = Nothing
  /\ drift = Zero
  /\ past = [times |-> [t \in Turns |-> 0], last |-> [t \in Turns |-> Never],
             cleared |-> {}, counted |-> Zero, resets |-> 0]

-----------------------------------------------------------------------------
(***************************************************************************)
(* openBudgetDb, in either process                                         *)
(***************************************************************************)
Is(p, pc) == proc[p].pc = pc
To(p, pc) == [proc EXCEPT ![p].pc = pc]

\* The schema's IF NOT EXISTS, then the version.
Open(p) ==
  /\ Is(p, "down")
  /\ proc' = To(p, IF file.stamp = 2 THEN "up" ELSE "versioned")
  /\ UNCHANGED <<now, file, hand, drift, past>>

\* hasColumn, before the transaction.
ReadColumns(p) ==
  /\ Is(p, "versioned")
  /\ proc' = [proc EXCEPT ![p].pc = "columned", ![p].carries = file.old]
  /\ UNCHANGED <<now, file, hand, drift, past>>

FaultyMoved(carries) == [d \in Days |-> file.bucket[d]]  \* fault: the old columns are dropped unread

\* The old columns' tokens go to the legacy bucket of their day.
Moved(carries) ==
  [d \in Days |-> [file.bucket[d] EXCEPT ![Legacy] = @ + IF carries THEN file.columns[d] ELSE 0]]

Rebuilt(carries) ==
  [file EXCEPT !.stamp = 2, !.old = FALSE, !.bucket = Moved(carries), !.columns = [d \in Days |-> 0]]

\* rebuildBudgetTables.  Columns another process has meanwhile moved are an
\* SQL error: the transaction is rolled back and the process ends.
Rebuild(p) ==
  /\ Is(p, "columned")
  /\ IF proc[p].carries /\ ~file.old
     THEN proc' = [proc EXCEPT ![p] = Down] /\ UNCHANGED file
     ELSE proc' = To(p, "up") /\ file' = Rebuilt(proc[p].carries)
  /\ UNCHANGED <<now, hand, drift, past>>

-----------------------------------------------------------------------------
(***************************************************************************)
(* The proxy: a tool call, a report                                        *)
(***************************************************************************)
Serving == Is("proxy", "up") /\ hand.step = "none"

AddToolCall ==
  /\ Serving /\ file.calls[Today] < MaxCalls
  /\ file' = [file EXCEPT !.calls[Today] = @ + 1]
  /\ UNCHANGED <<now, proc, hand, drift, past>>

FaultyClaimed(t) == file.turns[t].at # Never /\ file.turns[t].day = Today  \* fault: the key holds the day

\* ON CONFLICT (channel, turn) DO NOTHING
Claimed(t) == file.turns[t].at # Never

FaultyCounted(t) == [file EXCEPT !.turns[t] = [at |-> now, day |-> Today]]  \* fault: a commit between the two writes

\* The claim and the tokens, one transaction.
Counted(t) ==
  [file EXCEPT !.turns[t] = [at |-> now, day |-> Today], !.bucket[Today][ModelOf[t]] = @ + 1]

\* recordTokens up to its commit.
Record(t) ==
  /\ Serving
  /\ Claimed(t) \/ file.bucket[Today][ModelOf[t]] < MaxSpend
  /\ IF Claimed(t)
     THEN UNCHANGED <<file, past>>
     ELSE /\ file' = Counted(t)
          /\ past' = [past EXCEPT !.times[t] = @ + 1, !.last[t] = now, !.cleared = @ \ {t},
                                  !.counted[Today][ModelOf[t]] = @ + 1]
  /\ hand' = [step |-> "recorded", turn |-> t, day |-> Today, fresh |-> ~Claimed(t)]
  /\ UNCHANGED <<now, proc, drift>>

Without(S) == [file EXCEPT !.turns = [t \in Turns |-> IF t \in S THEN Forgotten ELSE file.turns[t]]]

FaultyExpired == {t \in Turns : file.turns[t].day < Today}  \* fault: ids are forgotten by the day

\* DELETE FROM turn_report WHERE at < now - TURN_RETENTION_MS
Expired == {t \in Turns : file.turns[t].at < now - Retention}

\* At the first report of a process's day.
Prune ==
  /\ hand.step = "recorded"
  /\ hand' = [hand EXCEPT !.step = "pruned"]
  /\ IF proc["proxy"].pruned = hand.day
     THEN UNCHANGED <<file, proc>>
     ELSE /\ proc' = [proc EXCEPT !["proxy"].pruned = hand.day]
          /\ file' = Without(Expired)
  /\ UNCHANGED <<now, drift, past>>

FaultyObserved == hand.turn \in Priced  \* fault: a duplicate is compared too

\* Only a report that moved the meter, and only one that has a price to compare.
Observed == hand.fresh /\ hand.turn \in Priced

\* recordReported, which swallows its own failure; then the answer.
Observe ==
  /\ hand.step = "pruned"
  /\ hand' = Nothing
  /\ \/ Observed /\ drift' = [drift EXCEPT ![hand.day][ModelOf[hand.turn]] = @ + 1]
     \/ UNCHANGED drift
  /\ UNCHANGED <<now, file, proc, past>>

-----------------------------------------------------------------------------
(***************************************************************************)
(* The operator's command and the world                                    *)
(***************************************************************************)
Dated(d) == {t \in Turns : file.turns[t].at # Never /\ file.turns[t].day = d}

FaultyCleared(d) ==  \* fault: the turn ids are left behind
  [file EXCEPT !.bucket[d] = [m \in Models |-> 0], !.calls[d] = 0]

\* clearDay: every table, one transaction.
Cleared(d) == [Without(Dated(d)) EXCEPT !.bucket[d] = [m \in Models |-> 0], !.calls[d] = 0]

Reset ==
  /\ Is("operator", "up") /\ past.resets < MaxResets
  /\ file' = Cleared(Today)
  /\ past' = [past EXCEPT !.cleared = @ \cup Dated(Today), !.resets = @ + 1]
  /\ UNCHANGED <<now, proc, hand, drift>>

\* pruneTurnReports
PruneCommand ==
  /\ Is("operator", "up")
  /\ file' = Without(Expired)
  /\ UNCHANGED <<now, proc, hand, drift, past>>

\* A process ends: closed, killed or refused.
Stop(p) ==
  /\ ~Is(p, "down")
  /\ proc' = [proc EXCEPT ![p] = Down]
  /\ hand' = IF p = "proxy" THEN Nothing ELSE hand
  /\ UNCHANGED <<now, file, drift, past>>

Tick ==
  /\ now < MaxTime
  /\ now' = now + 1
  /\ UNCHANGED <<file, proc, hand, drift, past>>

Next ==
  \/ \E p \in Procs : Open(p) \/ ReadColumns(p) \/ Rebuild(p) \/ Stop(p)
  \/ AddToolCall \/ Prune \/ Observe
  \/ \E t \in Turns : Record(t)
  \/ Reset \/ PruneCommand \/ Tick

Spec == Init /\ [][Next]_vars

-----------------------------------------------------------------------------
(***************************************************************************)
(* Properties                                                              *)
(***************************************************************************)
TypeOK ==
  /\ now \in 0..MaxTime
  /\ file \in File
  /\ proc \in [Procs -> Proc]
  /\ hand \in Hand
  /\ drift \in [Days -> [Models -> Nat]]
  /\ past \in [times : [Turns -> Nat], last : [Turns -> Never..MaxTime], cleared : SUBSET Turns,
                counted : [Days -> [Models -> Nat]], resets : 0..MaxResets]

\* A turn is counted a second time only by a report that comes after the
\* operator cleared its day, or more than TURN_RETENTION_MS after the first:
\* through retries, midnight, prunes, restarts and both processes' migrations.
CountedOnce ==
  [][\A t \in Turns : past'.times[t] # past.times[t] =>
       \/ past.times[t] = 0
       \/ t \in past.cleared
       \/ now - past.last[t] > Retention]_vars

\* A turn whose id is remembered has its tokens in its day's bucket: the claim
\* and the tokens land together, and a reset takes both.
ClaimsAreCounted ==
  \A d \in Days, m \in Models :
    Cardinality({t \in Dated(d) : ModelOf[t] = m}) <= file.bucket[d][m]

\* The drift record never has a turn that the meter did not count on that day
\* and under that model, so a difference in price is a difference in price.
DriftWithinMeter ==
  \A d \in Days, m \in Models : drift[d][m] <= past.counted[d][m]

\* What a day shows: its calls, and its tokens by model, those of the old
\* columns under the legacy model.
Figures == [d \in Days |->
  <<file.calls[d], [file.bucket[d] EXCEPT ![Legacy] = @ + file.columns[d]]>>]

\* Opening, migrating (twice at once, too), dying and pruning change no figure.
FiguresStand == [][proc' # proc => Figures' = Figures]_vars

\* A turn counted before a reset is not counted after it, as resetChannel's
\* comment and its test's title have it.
ResetIsNotRespent ==
  [][\A t \in Turns : past'.times[t] # past.times[t] => t \notin past.cleared]_vars
=============================================================================
