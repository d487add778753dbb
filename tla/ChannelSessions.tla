-------------------------- MODULE ChannelSessions ---------------------------
(***************************************************************************)
(* One channel in the agent's server: the session registry and its mutex   *)
(* (registry.ts, mutex.ts), the two doors into a session, a mention        *)
(* (handler.ts, gateway.ts) and a message (ingest.ts), the router that     *)
(* queues a task for either (router.ts), the threads it answers in         *)
(* (threads.ts) and the revisions that follow a message (ingest.ts).       *)
(*                                                                         *)
(* The channel has one thread and its team sheet.  A session that was      *)
(* evicted is kept, closed, so that work that still refers to it shows.    *)
(* A step is what runs between two awaits.                                 *)
(***************************************************************************)
EXTENDS Integers, Sequences

CONSTANTS
  Messages,  \* messages of the channel's thread
  Mentions,  \* those that address the app
  Events,    \* deliveries of `message' events, redeliveries among them
  Of,        \* [Events -> Messages]
  Idle,      \* SESSION_IDLE_MS, in ticks
  Window,    \* follow_up_window_seconds, in ticks
  MaxTime,   \* bound: the clock
  MaxMade    \* bound: sessions of the channel, one after another

ASSUME SessionsAssumption ==
  /\ Mentions \subseteq Messages /\ Of \in [Events -> Messages]
  /\ Idle \in Nat /\ MaxTime \in Nat /\ MaxMade \in Nat
  /\ Window \in 1..Idle  \* the schema's bound on the window

VARIABLES
  now,     \* the clock
  reg,     \* the registry: the channel's session, how many there were, each of them
  row,     \* [Messages -> what the channel's store holds of it]
  event,   \* [Events -> where its handler stands, and in which session]
  seen,    \* mentions handled
  revised, \* [Messages -> the last revision handled]
  tasks    \* [Messages -> tasks it was given]

vars == <<now, reg, row, event, seen, revised, tasks>>

-----------------------------------------------------------------------------
None == 0
Ids  == 1..MaxMade
Untold == -1

\* after: the turn queued behind a reply; pass: the sweeps a message triggers.
Job == [kind : {"task", "after", "pass"}, msg : Messages]

\* queue: the mutex's chain, the running job its head; hung: that task awaits
\* what never settles; until: the thread's deadline; window: what the running
\* task's sheet said.
Session == [open : BOOLEAN, used : 0..MaxTime, until : 0..(MaxTime + Window),
            queue : Seq(Job), running : BOOLEAN, hung : BOOLEAN, window : {Untold, 0, Window}]

Fresh == [open |-> TRUE, used |-> now, until |-> 0, queue |-> <<>>,
          running |-> FALSE, hung |-> FALSE, window |-> Untold]

Init ==
  /\ now = 0
  /\ reg = [cur |-> None, made |-> 0, session |-> [g \in Ids |-> [Fresh EXCEPT !.open = FALSE]]]
  /\ row = [m \in Messages |-> "absent"]
  /\ event = [e \in Events |-> [at |-> "none", in |-> None]]
  /\ seen = {}
  /\ revised = [m \in Messages |-> "none"]
  /\ tasks = [m \in Messages |-> 0]

-----------------------------------------------------------------------------
(***************************************************************************)
(* SessionRegistry.open, and the mutex                                     *)
(***************************************************************************)
FaultyStale(s) == now - s.used >= Idle  \* fault: busy sessions are evicted too

\* A busy session is never evicted, however old.
Stale(s) == s.queue = <<>> /\ now - s.used >= Idle

\* The sweep that every open begins with, of any channel's session.
Swept(r) ==
  IF r.cur # None /\ Stale(r.session[r.cur])
  THEN [r EXCEPT !.cur = None, !.session[r.cur].open = FALSE]
  ELSE r

Opened(r) ==
  IF Swept(r).cur # None
  THEN [r EXCEPT !.session[r.cur].used = now]
  ELSE [cur |-> r.made + 1, made |-> r.made + 1,
        session |-> [Swept(r).session EXCEPT ![r.made + 1] = Fresh]]

\* A bound: the channel may yet need another session.
Room(r) == Swept(r).cur # None \/ r.made < MaxMade

Enqueued(r, g, kind, m) ==
  [r EXCEPT !.session[g].queue = Append(@, [kind |-> kind, msg |-> m])]

\* The router: nothing awaits between the open and the mutex.
Routed(r, m) ==
  /\ reg' = Enqueued(r, r.cur, "task", m)
  /\ tasks' = [tasks EXCEPT ![m] = @ + 1]

OtherChannelOpens ==
  /\ Swept(reg) # reg /\ reg' = Swept(reg)
  /\ UNCHANGED <<now, row, event, seen, revised, tasks>>

FaultyCanStart(g) == Len(reg.session[g].queue) = 1 /\ ~reg.session[g].running  \* fault: nobody wakes the next

\* The next job starts once every earlier one has settled.
CanStart(g) == reg.session[g].queue # <<>> /\ ~reg.session[g].running

\* activate: a window of 0 deactivates; a sheet that was not read says nothing.
Until(s, w) ==
  CASE w = Untold -> s.until
    [] w = 0      -> 0
    [] OTHER      -> now + w

Started(s, w) == [s EXCEPT !.running = TRUE, !.window = w, !.until = Until(s, w)]

Start(g) ==
  /\ CanStart(g)
  /\ \E w \in IF Head(reg.session[g].queue).kind = "task" THEN {Untold, 0, Window} ELSE {Untold} :
       reg' = [reg EXCEPT !.session[g] = Started(@, w)]
  /\ UNCHANGED <<now, row, event, seen, revised, tasks>>

FaultyDone(s) == [s EXCEPT !.running = FALSE, !.queue = Tail(@), !.window = Untold]  \* fault: no finally

\* The job settles either way; a task's `finally' touches session and thread.
Done(s) ==
  [s EXCEPT !.running = FALSE, !.queue = Tail(@), !.window = Untold,
            !.used = IF Head(s.queue).kind = "task" THEN now ELSE @,
            !.until = Until(s, s.window)]

\* A task that awaits what never settles.  The loop races no tool call with the
\* task's abort: a held call whose wait nobody ends (HeldCallCard) holds the
\* task, and the task the mutex, for good.  No other job has a call held for it.
Hang(g) ==
  /\ reg.session[g].running /\ ~reg.session[g].hung
  /\ Head(reg.session[g].queue).kind = "task"
  /\ reg' = [reg EXCEPT !.session[g].hung = TRUE]
  /\ UNCHANGED <<now, row, event, seen, revised, tasks>>

\* A task that answered may leave a turn for after the reply, queued behind
\* whatever joined the queue while it ran.
End(g) ==
  LET ended == [reg EXCEPT !.session[g] = Done(@)] IN
  /\ reg.session[g].running /\ ~reg.session[g].hung
  /\ \/ reg' = ended
     \/ Head(reg.session[g].queue).kind = "task" /\ reg' = Enqueued(ended, g, "after", Head(reg.session[g].queue).msg)
  /\ UNCHANGED <<now, row, event, seen, revised, tasks>>

-----------------------------------------------------------------------------
(***************************************************************************)
(* The two doors                                                           *)
(***************************************************************************)
\* An app_mention; the gateway remembers the ids it has handled.  It forgets the
\* oldest beyond SEEN_EVENT_LIMIT, and all of them on a restart: there are
\* fewer messages here, and no restart.
Mention(m) ==
  /\ m \in Mentions \ seen /\ Room(reg)
  /\ seen' = seen \cup {m}
  /\ Routed(Opened(reg), m)
  /\ UNCHANGED <<now, row, event, revised>>

\* The handler of a `message' event, up to the author's name.
Receive(e) ==
  /\ event[e].at = "none" /\ Room(reg)
  /\ reg' = Opened(reg)
  /\ event' = [event EXCEPT ![e] = [at |-> "naming", in |-> Opened(reg).cur]]
  /\ UNCHANGED <<now, row, seen, revised, tasks>>

\* isActive, of the session the handler opened.
Active(g) == reg.session[g].until > now

FaultyFollowsUp(e) == Active(event[e].in)  \* fault: a mention is answered here too

\* A message of an active thread that does not come again as a mention.  Every
\* message here is a person's, in the thread, and the server has a route.
FollowsUp(e) == Of[e] \notin Mentions /\ Active(event[e].in)

\* ON CONFLICT DO NOTHING; a store that was closed meanwhile throws, and the
\* message is lost.
Appended(e) ==
  IF reg.session[event[e].in].open /\ row[Of[e]] = "absent"
  THEN [row EXCEPT ![Of[e]] = "sent"]
  ELSE row

\* The name is there, or the lookup failed: file, queue the sweeps, and answer
\* a follow-up.  The router opens the channel's session anew.
File(e) ==
  LET passed == Enqueued(reg, event[e].in, "pass", Of[e]) IN
  /\ event[e].at = "naming"
  /\ row' = Appended(e)
  /\ event' = [event EXCEPT ![e].at = "over"]
  /\ IF FollowsUp(e)
     THEN Room(passed) /\ Routed(Opened(passed), Of[e])
     ELSE reg' = passed /\ UNCHANGED tasks
  /\ UNCHANGED <<now, seen, revised>>

\* A deletion or an edit of a message Slack has already delivered; no lookup,
\* no mutex.  Neither is a way into the store.
Revise(m, how) ==
  /\ \E e \in Events : Of[e] = m /\ event[e].at # "none"
  /\ revised[m] # "deleted" /\ revised[m] # how /\ Room(reg)
  /\ reg' = Opened(reg)
  /\ revised' = [revised EXCEPT ![m] = how]
  /\ row' = IF row[m] = "absent" THEN row
            ELSE [row EXCEPT ![m] = IF how = "deleted" THEN "absent" ELSE "edited"]
  /\ UNCHANGED <<now, event, seen, tasks>>

Tick ==
  /\ now < MaxTime
  /\ now' = now + 1
  /\ UNCHANGED <<reg, row, event, seen, revised, tasks>>

Next ==
  \/ \E m \in Messages : Mention(m) \/ Revise(m, "edited") \/ Revise(m, "deleted")
  \/ \E e \in Events : Receive(e) \/ File(e)
  \/ \E g \in Ids : Start(g) \/ Hang(g) \/ End(g)
  \/ OtherChannelOpens \/ Tick

\* A job that can start does, and one that does not hang ends: a task by its
\* caps, a pass by the deadlines of its calls.
Fairness == \A g \in Ids : WF_vars(Start(g)) /\ WF_vars(End(g))

Spec == Init /\ [][Next]_vars /\ Fairness

-----------------------------------------------------------------------------
(***************************************************************************)
(* Properties                                                              *)
(***************************************************************************)
TypeOK ==
  /\ now \in 0..MaxTime
  /\ reg \in [cur : Ids \cup {None}, made : 0..MaxMade, session : [Ids -> Session]]
  /\ row \in [Messages -> {"absent", "sent", "edited"}]
  /\ event \in [Events -> [at : {"none", "naming", "over"}, in : Ids \cup {None}]]
  /\ seen \subseteq Mentions
  /\ revised \in [Messages -> {"none", "edited", "deleted"}]
  /\ tasks \in [Messages -> Nat]

Queued(g, kinds) == \E i \in 1..Len(reg.session[g].queue) : reg.session[g].queue[i].kind \in kinds

\* A channel's turns take turns, through every eviction: tasks and the turns
\* behind replies wait in one session's queue, and its store is open for them.
TurnsAreSerial ==
  \A g \in Ids : Queued(g, {"task", "after"}) => reg.cur = g /\ reg.session[g].open

\* Eviction takes no thread away that is still to be answered in: the reason
\* for the schema's bound on the window.
WindowIsKept ==
  [][reg'.cur # reg.cur /\ reg.cur # None => ~Active(reg.cur)]_vars

\* A mention is answered once, though it comes in by both doors.
MentionsAnsweredOnce == \A m \in Mentions : tasks[m] <= 1

\* Every task that was queued is run, unless a task before it hangs, or it does:
\* no job that ends or throws holds the mutex.
TasksRun == \A g \in Ids : Queued(g, {"task"}) ~> ~Queued(g, {"task"}) \/ reg.session[g].hung

\* A redelivery is already a no-op (gateway.ts:183-189).
AnsweredOnce == \A m \in Messages : tasks[m] <= 1

\* A message deleted in Slack is deleted here (ingest.ts:390-393).
DeletedStaysDeleted == \A m \in Messages : revised[m] = "deleted" => row[m] = "absent"
=============================================================================
