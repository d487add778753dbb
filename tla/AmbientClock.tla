---------------------------- MODULE AmbientClock -----------------------------
(***************************************************************************)
(* The ambient clock of the agent's server (ambient.ts): the loop that     *)
(* sleeps until something is due, the scan that finds it, and what a due   *)
(* ticket (check.ts), standing rule (rule.ts) and heartbeat (heartbeat.ts) *)
(* do on their channel's mutex, up to the post (proactive.ts).  Tickets    *)
(* and notices are in the channel's store and outlive the process; the     *)
(* schedules, the watermarks and the posting windows do not.               *)
(*                                                                         *)
(* A channel has one rule.  Its occurrences are given: RuleClock has the   *)
(* arithmetic.  The enumeration of a scan is one step, because each        *)
(* channel's part of it reads that channel's sheet and store only.         *)
(***************************************************************************)
EXTENDS Integers, FiniteSets, FiniteSetsExt

CONSTANTS
  Channels,    \* channels under AGENT_CHANNELS_ROOT
  Tickets,     \* scheduled checks
  InChannel,   \* [Tickets -> Channels]
  DueAt,       \* [Tickets -> instants]
  Blocks,      \* [Channels -> the parts of its [ambient] block that are on at first]
  Occurrences, \* [Channels -> sets of instants], of the channel's rule
  Moved,       \* [Channels -> its instants once the rule was edited in place]
  Proposed,    \* channels with a merge proposal waiting
  Cadence,     \* heartbeat_every_minutes, in ticks
  Window,      \* HEARTBEAT_POST_WINDOW_MS, in ticks
  Rescan,      \* AMBIENT_RESCAN_MS, in ticks
  Workers,     \* MAX_CONCURRENT_HEARTBEATS
  MaxTime,     \* bound: the clock
  MaxSaid,     \* bound: [Channels -> times it has something new to weigh]
  MaxMishaps   \* bound: cancels, edits, shutdowns, crashes, marks that throw, tasks that hang

ASSUME AmbientAssumption ==
  /\ InChannel \in [Tickets -> Channels] /\ Proposed \subseteq Channels
  /\ DueAt \in [Tickets -> Nat \ {0}]
  /\ Blocks \in [Channels -> SUBSET {"enabled", "heartbeat", "rule"}]
  /\ {Occurrences, Moved} \subseteq [Channels -> SUBSET (Nat \ {0})]
  /\ {Cadence, Window, Rescan, Workers} \subseteq Nat \ {0}
  /\ MaxSaid \in [Channels -> Nat] /\ {MaxTime, MaxMishaps} \subseteq Nat

VARIABLES
  now,     \* the clock
  process, \* "up", "stopping" (tasks.abort, ambient.stop) or "down"
  sheet,   \* [Channels -> the parts of its [ambient] block that are on, and "moved"]
  ticket,  \* [Tickets -> its row: waiting, called off, or what its one firing did]
  noticed, \* channels told of their proposal
  said,    \* [Channels -> how often it said something worth weighing]
  tasks,   \* [Channels -> the mention's task that holds the mutex]
  memory,  \* what the process alone remembers
  scan,    \* the scan under way, or the sleep after it
  job,     \* [Channels -> the work of the scan in that channel]
  past,    \* history: what the channels saw, and what cut a firing short
  left     \* mishaps the bound leaves

clockVars == <<now, process, sheet, ticket, noticed, said, tasks, memory, scan, job, past, left>>

-----------------------------------------------------------------------------
None     == 0
Parts    == {"enabled", "heartbeat", "rule", "moved"}
Outcomes == {"posted", "silent", "over_budget", "failed"}

\* schedule, ruleSchedule, lastHeartbeatPost and watermark.
Memory == [beat : [Channels -> Nat], rule : [Channels -> Nat],
           post : [Channels -> Nat], weighed : [Channels -> Nat]]

Blank == [beat |-> [c \in Channels |-> None], rule |-> [c \in Channels |-> None],
          post |-> [c \in Channels |-> None], weighed |-> [c \in Channels |-> 0]]

\* at, wake: when it began and when the loop wakes next; the rest is due and
\* not taken by a worker, a rule with the occurrence it is due for.
Scan == [at : Nat, wake : Nat, checks : SUBSET Channels, rules : [Channels -> Nat],
         beats : SUBSET Channels]

Unscanned == [at |-> None, wake |-> now, checks |-> {},
              rules |-> [c \in Channels |-> None], beats |-> {}]

\* of: the ticket, the occurrence, or the messages read; say: the ticket's
\* outcome, or what the heartbeat's post carries.
Job == [kind : {"none", "check", "rule", "beat"},
        stage : {"none", "queued", "turn", "posting", "posted", "unposted"},
        of : Tickets \cup Nat, say : Outcomes \cup {"none", "finding", "notice"}]

NoJob == [kind |-> "none", stage |-> "none", of |-> None, say |-> "none"]

ClockInit ==
  /\ now = 1
  /\ process = "up"
  /\ sheet = Blocks
  /\ ticket = [t \in Tickets |-> "none"]
  /\ noticed = {}
  /\ said = [c \in Channels |-> 0]
  /\ tasks = [c \in Channels |-> "none"]
  /\ memory = Blank
  /\ scan = Unscanned
  /\ job = [c \in Channels |-> NoJob]
  /\ past = [posts |-> [t \in Tickets |-> 0], cut |-> [t \in Tickets |-> 0],
             fired |-> [c \in Channels |-> {}], beat |-> [c \in Channels |-> None],
             started |-> now]
  /\ left = MaxMishaps

-----------------------------------------------------------------------------
(***************************************************************************)
(* The scan                                                                *)
(***************************************************************************)
On(c)     == "enabled" \in sheet[c]
RuleOn(c) == {"enabled", "rule"} \subseteq sheet[c]
BeatOn(c) == {"enabled", "heartbeat"} \subseteq sheet[c]

PendingIn(c) == {t \in Tickets : InChannel[t] = c /\ ticket[t] = "waiting"}

FaultyDueBy(c, at) == {t \in PendingIn(c) : DueAt[t] = at}  \* fault: a check missed while down stays missed

DueBy(c, at) == {t \in PendingIn(c) : DueAt[t] <= at}

Earliest(S) == {t \in S : \A u \in S : DueAt[t] <= DueAt[u]}

\* The instants the rule names as its sheet reads now.
InstantsOf(c) == IF "moved" \in sheet[c] THEN Moved[c] ELSE Occurrences[c]

FaultyAfter(c, at) == {i \in InstantsOf(c) : i >= at}  \* fault: the occurrence fired for is ahead still

After(c, at) == {i \in InstantsOf(c) : i > at}

occurrenceAfter(c, at) == IF After(c, at) = {} THEN None ELSE Min(After(c, at))

RuleDue(c) == RuleOn(c) /\ memory.rule[c] \in 1..now
BeatDue(c) == BeatOn(c) /\ memory.beat[c] \in 1..now

FaultyFirstBeat == now  \* fault: a channel first seen is due at once

\* First sight never fires.
FirstBeat == now + Cadence

\* A missed deadline fires once; a channel that is off loses its entry.
BeatAfter(c) ==
  CASE ~BeatOn(c)             -> None
    [] memory.beat[c] = None  -> FirstBeat
    [] BeatDue(c)             -> now + Cadence
    [] OTHER                  -> memory.beat[c]

RuleAfter(c) ==
  CASE ~RuleOn(c)                           -> None
    [] memory.rule[c] = None \/ RuleDue(c)  -> occurrenceAfter(c, now)
    [] OTHER                                -> memory.rule[c]

\* A channel asks for its earliest ticket, and one that was due already waits
\* for the ordinary rescan.
TicketEntries ==
  {IF DueAt[t] <= now THEN now + Rescan ELSE DueAt[t] :
     t \in UNION {Earliest(PendingIn(c)) : c \in {d \in Channels : On(d)}}}

RulesLeft == {c \in Channels : scan.rules[c] # None}
Working(kinds) == \E c \in Channels : job[c].kind \in kinds

Idle == scan.checks \cup RulesLeft \cup scan.beats = {} /\ \A c \in Channels : job[c] = NoJob

\* earliestDue over the plan, and the horizon.
WakeAt(beat, rule) ==
  Min({now + Rescan} \cup TicketEntries
        \cup (({beat[c] : c \in Channels} \cup {rule[c] : c \in Channels}) \ {None}))

\* The timer, and the enumeration.  The clock stops at its bound; the timer
\* does not.
Wake ==
  LET beat == [c \in Channels |-> BeatAfter(c)]
      rule == [c \in Channels |-> RuleAfter(c)]
  IN
  /\ process = "up" /\ Idle
  /\ now >= Min({scan.wake, MaxTime})
  /\ memory' = [memory EXCEPT !.beat = beat, !.rule = rule]
  /\ scan' = [at |-> now, wake |-> WakeAt(beat, rule),
              checks |-> {c \in Channels : On(c) /\ DueBy(c, now) # {}},
              rules |-> [c \in Channels |-> IF RuleDue(c) THEN memory.rule[c] ELSE None],
              beats |-> {c \in Channels : BeatDue(c)}]
  /\ UNCHANGED <<now, process, sheet, ticket, noticed, said, tasks, job, past, left>>

-----------------------------------------------------------------------------
(***************************************************************************)
(* The work: checks, then rules, then heartbeats, a few channels at a time *)
(***************************************************************************)
Free == Cardinality({c \in Channels : job[c].kind # "none"}) < Workers

\* The earliest due ticket is read here, before the mutex is held; a channel
\* whose tickets were called off meanwhile has nothing to run.
TakeCheck(c) ==
  /\ process = "up" /\ Free /\ c \in scan.checks
  /\ scan' = [scan EXCEPT !.checks = @ \ {c}]
  /\ IF DueBy(c, scan.at) = {}
     THEN UNCHANGED job
     ELSE \E t \in Earliest(DueBy(c, scan.at)) :
            job' = [job EXCEPT ![c] = [NoJob EXCEPT !.kind = "check", !.stage = "queued", !.of = t]]
  /\ UNCHANGED <<now, process, sheet, ticket, noticed, said, tasks, memory, past, left>>

TakeRule(c) ==
  /\ process = "up" /\ Free /\ scan.rules[c] # None
  /\ scan.checks = {} /\ ~Working({"check"})
  /\ scan' = [scan EXCEPT !.rules[c] = None]
  /\ job' = [job EXCEPT ![c] = [NoJob EXCEPT !.kind = "rule", !.stage = "queued", !.of = scan.rules[c]]]
  /\ UNCHANGED <<now, process, sheet, ticket, noticed, said, tasks, memory, past, left>>

TakeBeat(c) ==
  /\ process = "up" /\ Free /\ c \in scan.beats
  /\ scan.checks \cup RulesLeft = {} /\ ~Working({"check", "rule"})
  /\ scan' = [scan EXCEPT !.beats = @ \ {c}]
  /\ job' = [job EXCEPT ![c] = [NoJob EXCEPT !.kind = "beat", !.stage = "queued"]]
  /\ UNCHANGED <<now, process, sheet, ticket, noticed, said, tasks, memory, past, left>>

\* mayPost, and windowOpen.
MayPost(c) == memory.post[c] = None \/ now - memory.post[c] >= Window

Weighable(c) == said[c] > memory.weighed[c]
Noticing(c)  == c \in Proposed \ noticed

Held(c) == tasks[c] # "none"

\* What the job enters on the mutex.  A firing in a channel that was switched
\* off ends, and so does a heartbeat with nothing to say or nowhere to say it.
Start(c) ==
  /\ job[c].stage = "queued" /\ ~Held(c)
  /\ job' = [job EXCEPT ![c] =
       IF ~On(c) \/ (@.kind = "beat" /\ ~(MayPost(c) /\ (Weighable(c) \/ Noticing(c)))) THEN NoJob
       ELSE IF @.kind = "beat" THEN [@ EXCEPT !.stage = "turn", !.of = said[c]]
       ELSE [@ EXCEPT !.stage = "turn"]]
  /\ past' = IF job'[c].stage = "turn" /\ job[c].kind = "rule"
             THEN [past EXCEPT !.fired[c] = @ \cup {job[c].of}] ELSE past
  /\ UNCHANGED <<now, process, sheet, ticket, noticed, said, tasks, memory, scan, left>>

\* A turn that was cut short by the abort leaves the row as it was.
AbortTurn(c) ==
  /\ process = "stopping" /\ job[c].stage = "turn"
  /\ job' = [job EXCEPT ![c] = NoJob]
  /\ \/ UNCHANGED memory
     \/ job[c].kind = "beat" /\ memory' = [memory EXCEPT !.weighed[c] = job[c].of]
  /\ UNCHANGED <<now, process, sheet, ticket, noticed, said, tasks, scan, past, left>>

\* A check's or a rule's turn: silence needs no post, and every other end is
\* the firing's one post.
FiredTurnEnds(c, end) ==
  /\ job[c].stage = "turn" /\ job[c].kind \in {"check", "rule"}
  /\ process = "up" \/ end \in {"over_budget", "failed"}
  /\ job' = [job EXCEPT ![c].say = end,
                        ![c].stage = IF end = "silent" THEN "unposted" ELSE "posting"]
  /\ past' = IF end # "silent" /\ job[c].kind = "check"
             THEN [past EXCEPT !.posts[job[c].of] = @ + 1] ELSE past
  /\ UNCHANGED <<now, process, sheet, ticket, noticed, said, tasks, memory, scan, left>>

\* A heartbeat's turn.  What was weighed is not weighed again, whatever the
\* answer; a turn that failed, or that the budget did not allow, weighed
\* nothing.  The finding and the notice share one post, and the window is
\* claimed by the attempt.
BeatTurnEnds(c, weighed, finding) ==
  LET seen == [memory EXCEPT !.weighed[c] = IF weighed THEN job[c].of ELSE @] IN
  /\ job[c].stage = "turn" /\ job[c].kind = "beat" /\ process = "up"
  /\ finding => weighed
  /\ weighed => Weighable(c)
  /\ IF (finding \/ Noticing(c)) /\ MayPost(c)
     THEN /\ job' = [job EXCEPT ![c].stage = "posting",
                                ![c].say = IF Noticing(c) THEN "notice" ELSE "finding"]
          /\ memory' = [seen EXCEPT !.post[c] = now]
          /\ past' = [past EXCEPT !.beat[c] = now]
     ELSE job' = [job EXCEPT ![c] = NoJob] /\ memory' = seen /\ UNCHANGED past
  /\ UNCHANGED <<now, process, sheet, ticket, noticed, said, tasks, scan, left>>

\* Slack has the message, or never will.
Lands(c, stage) ==
  /\ job[c].stage = "posting"
  /\ job' = [job EXCEPT ![c].stage = stage]
  /\ UNCHANGED <<now, process, sheet, ticket, noticed, said, tasks, memory, scan, past, left>>

FaultyMarked(t, outcome) == IF outcome = "failed" THEN ticket ELSE [ticket EXCEPT ![t] = outcome]  \* fault: a failed check is retried

\* UPDATE ... WHERE fired_at IS NULL: the row may be gone.
Marked(t, outcome) == [ticket EXCEPT ![t] = IF @ = "waiting" THEN outcome ELSE @]

Recorded(c) ==
  /\ ticket' = IF job[c].kind = "check" THEN Marked(job[c].of, job[c].say) ELSE ticket
  /\ noticed' = IF job[c].say = "notice" /\ job[c].stage = "posted" THEN noticed \cup {c} ELSE noticed

\* The store throws: the check, or the notice, will come again.
Unrecorded(c) ==
  /\ job[c].kind = "check" \/ (job[c].say = "notice" /\ job[c].stage = "posted")
  /\ left > 0
  /\ left' = left - 1
  /\ past' = IF job[c].kind = "check" THEN [past EXCEPT !.cut[job[c].of] = @ + 1] ELSE past
  /\ UNCHANGED <<ticket, noticed>>

FinishJob(c) ==
  /\ job[c].stage \in {"posted", "unposted"}
  /\ job' = [job EXCEPT ![c] = NoJob]
  /\ \/ Recorded(c) /\ UNCHANGED <<past, left>>
     \/ Unrecorded(c)
  /\ UNCHANGED <<now, process, sheet, said, tasks, memory, scan>>

-----------------------------------------------------------------------------
(***************************************************************************)
(* What goes on around the clock                                           *)
(***************************************************************************)
\* The mutex is first come, first served: a mention that comes while the
\* scan's work waits or runs is behind it.
TaskBegins(c) ==
  /\ process = "up" /\ ~Held(c) /\ job[c] = NoJob
  /\ tasks' = [tasks EXCEPT ![c] = "running"]
  /\ UNCHANGED <<now, process, sheet, ticket, noticed, said, memory, scan, job, past, left>>

\* A call held for it waits for ever (HeldCallCard), and nothing races that
\* wait with the abort.  What the clock fires has no prompter and holds no call.
TaskHangs(c) ==
  /\ tasks[c] = "running" /\ left > 0
  /\ tasks' = [tasks EXCEPT ![c] = "hung"]
  /\ left' = left - 1
  /\ UNCHANGED <<now, process, sheet, ticket, noticed, said, memory, scan, job, past>>

TaskEnds(c) ==
  /\ tasks[c] = "running"
  /\ tasks' = [tasks EXCEPT ![c] = "none"]
  /\ UNCHANGED <<now, process, sheet, ticket, noticed, said, memory, scan, job, past, left>>

\* A served schedule_task; the proxy takes no instant that has passed.
Schedule(t) ==
  /\ tasks[InChannel[t]] = "running" /\ ticket[t] = "none" /\ now < DueAt[t]
  /\ ticket' = [ticket EXCEPT ![t] = "waiting"]
  /\ UNCHANGED <<now, process, sheet, noticed, said, tasks, memory, scan, job, past, left>>

\* The operator's `tasks cancel', a process of its own.
Cancel(t) ==
  /\ ticket[t] = "waiting" /\ left > 0
  /\ ticket' = [ticket EXCEPT ![t] = "cancelled"]
  /\ left' = left - 1
  /\ UNCHANGED <<now, process, sheet, noticed, said, tasks, memory, scan, job, past>>

Says(c) ==
  /\ process = "up" /\ said[c] < MaxSaid[c]
  /\ said' = [said EXCEPT ![c] = @ + 1]
  /\ UNCHANGED <<now, process, sheet, ticket, noticed, tasks, memory, scan, job, past, left>>

\* A part of the block goes or comes, or its rule names other instants: what
\* the schedule holds for it is not computed anew.
Edit(c, part) ==
  /\ left > 0 /\ (part = "moved" => "rule" \in sheet[c])
  /\ sheet' = [sheet EXCEPT ![c] = IF part \in @ THEN @ \ {part} ELSE @ \cup {part}]
  /\ left' = left - 1
  /\ UNCHANGED <<now, process, ticket, noticed, said, tasks, memory, scan, job, past>>

Stop ==
  /\ process = "up" /\ left > 0
  /\ process' = "stopping"
  /\ left' = left - 1
  /\ UNCHANGED <<now, sheet, ticket, noticed, said, tasks, memory, scan, job, past>>

\* A firing that may have spoken and did not record it.
Cut(t) == \E c \in Channels :
  /\ job[c].kind = "check" /\ job[c].of = t /\ job[c].say # "silent"
  /\ job[c].stage \in {"posting", "posted", "unposted"}

Down ==
  /\ process' = "down"
  /\ tasks' = [c \in Channels |-> "none"] /\ memory' = Blank /\ scan' = Unscanned
  /\ job' = [c \in Channels |-> NoJob]
  /\ past' = [past EXCEPT !.cut = [t \in Tickets |-> past.cut[t] + IF Cut(t) THEN 1 ELSE 0]]
  /\ UNCHANGED <<now, sheet, ticket, noticed, said>>

Crash == process = "up" /\ left > 0 /\ Down /\ left' = left - 1
Exit  == process = "stopping" /\ Down /\ UNCHANGED left

Restart ==
  /\ process = "down"
  /\ process' = "up"
  /\ past' = [past EXCEPT !.started = now]
  /\ UNCHANGED <<now, sheet, ticket, noticed, said, tasks, memory, scan, job, left>>

\* A worker that is free takes what is due, and what heads a mutex starts.
CanTake ==
  /\ Free
  /\ \/ scan.checks # {}
     \/ RulesLeft # {} /\ ~Working({"check"})
     \/ scan.beats # {} /\ ~Working({"check", "rule"})

CanStart == \E c \in Channels : job[c].stage = "queued" /\ ~Held(c)

\* Timers are prompt, and no time passes between steps of the loop that await
\* nothing.
Tick ==
  /\ now < MaxTime
  /\ process = "up" => /\ ~CanTake /\ ~CanStart
                       /\ Idle => now < scan.wake
  /\ now' = now + 1
  /\ UNCHANGED <<process, sheet, ticket, noticed, said, tasks, memory, scan, job, past, left>>

TurnEnds(c) ==
  \/ \E end \in Outcomes : FiredTurnEnds(c, end)
  \/ \E weighed, finding \in BOOLEAN : BeatTurnEnds(c, weighed, finding)

PostEnds(c) == \E stage \in {"posted", "unposted"} : Lands(c, stage)

ClockNext ==
  \/ Wake \/ Tick \/ Stop \/ Crash \/ Exit \/ Restart
  \/ \E c \in Channels :
       \/ TakeCheck(c) \/ TakeRule(c) \/ TakeBeat(c)
       \/ Start(c) \/ AbortTurn(c) \/ TurnEnds(c) \/ PostEnds(c) \/ FinishJob(c)
       \/ TaskBegins(c) \/ TaskHangs(c) \/ TaskEnds(c) \/ Says(c)
       \/ \E part \in Parts : Edit(c, part)
  \/ \E t \in Tickets : Schedule(t) \/ Cancel(t)

\* Timers and workers go on, calls end by their own deadlines, tasks that do not
\* hang by their caps; a process that stops exits and is started again.
ClockFairness ==
  /\ WF_clockVars(Wake) /\ WF_clockVars(Tick) /\ WF_clockVars(Exit) /\ WF_clockVars(Restart)
  /\ \A c \in Channels :
       /\ WF_clockVars(TakeCheck(c)) /\ WF_clockVars(TakeRule(c)) /\ WF_clockVars(TakeBeat(c))
       /\ WF_clockVars(Start(c)) /\ WF_clockVars(TurnEnds(c)) /\ WF_clockVars(PostEnds(c))
       /\ WF_clockVars(FinishJob(c)) /\ WF_clockVars(TaskEnds(c))

ClockSpec == ClockInit /\ [][ClockNext]_clockVars /\ ClockFairness

-----------------------------------------------------------------------------
(***************************************************************************)
(* Properties                                                              *)
(***************************************************************************)
ClockTypeOK ==
  /\ now \in Nat
  /\ process \in {"up", "stopping", "down"}
  /\ sheet \in [Channels -> SUBSET Parts]
  /\ ticket \in [Tickets -> {"none", "waiting", "cancelled"} \cup Outcomes]
  /\ noticed \subseteq Proposed
  /\ said \in [Channels -> Nat]
  /\ tasks \in [Channels -> {"none", "running", "hung"}]
  /\ memory \in Memory
  /\ scan \in Scan
  /\ job \in [Channels -> Job]
  /\ past \in [posts : [Tickets -> Nat], cut : [Tickets -> Nat],
               fired : [Channels -> SUBSET Nat], beat : [Channels -> Nat], started : Nat]
  /\ left \in 0..MaxMishaps

\* A check that is done with has spoken, unless it ran and had nothing to say;
\* and it speaks again only if its last firing was cut off before the mark.  To
\* speak is to ask Slack for its one post, which Slack may refuse: the row is
\* marked all the same.
CheckIsToldOnce ==
  \A t \in Tickets :
    /\ ticket[t] \in {"posted", "over_budget", "failed"} => past.posts[t] > 0
    /\ past.posts[t] <= past.cut[t] + IF ticket[t] = "silent" THEN 0 ELSE 1

\* A firing is queued behind a task that hangs: the scan, which waits for all
\* its work, is the process's last.
Stuck == \E c \in Channels : tasks[c] = "hung" /\ job[c].stage = "queued"

\* A ticket that waits in a channel that stays ambient is fired or called off,
\* through crashes, marks that throw and tasks that hold the channel, unless a
\* task that hangs has stopped the clock.
DueChecksEnd ==
  \A t \in Tickets :
    (ticket[t] = "waiting") ~> (ticket[t] # "waiting" \/ ~On(InChannel[t]) \/ Stuck)

Enters(c, kind, stage) == job[c].stage # stage /\ job'[c].stage = stage /\ job'[c].kind = kind

\* Heartbeats of a channel speak a window apart, and those of two processes a
\* cadence apart, since first sight never fires.
HeartbeatsAreSpaced ==
  [][\A c \in Channels : Enters(c, "beat", "posting") /\ past.beat[c] # None
       => now - past.beat[c] >= IF memory.post[c] = None THEN Cadence ELSE Window]_clockVars

\* An occurrence of a rule is fired once, also over restarts, and never one
\* that was due before the process was there.
RuleFiresOnce ==
  [][\A c \in Channels : Enters(c, "rule", "turn")
       => job[c].of \notin past.fired[c] /\ job[c].of > past.started]_clockVars

\* AMBIENT_RESCAN_MS promises it as the slowest this process notices anything
\* (ambient.ts:867-868).
NoticedInTime == process = "up" /\ scan.at # None => now - scan.at <= Rescan

\* The row a check runs from is re-read on the mutex (ambient.ts:561-563), so
\* that a check called off meanwhile does not run.
CalledOffDoesNotRun ==
  [][\A c \in Channels : Enters(c, "check", "turn") => ticket[job[c].of] = "waiting"]_clockVars
=============================================================================
