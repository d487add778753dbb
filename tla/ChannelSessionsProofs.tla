------------------------ MODULE ChannelSessionsProofs ------------------------
(***************************************************************************)
(* Proofs of the safety properties of ChannelSessions for any messages,    *)
(* deliveries, idle time and window.                                       *)
(*                                                                         *)
(* The invariant is about the registry.  A turn waits only in the queue of *)
(* the channel's session, whose store is open; and a thread's deadline is  *)
(* within a window of the last use of its session, except while a task     *)
(* that may move it runs, when the session cannot be evicted.              *)
(*                                                                         *)
(* What the code does not promise, TLC refutes; the last theorems say what *)
(* it takes for it to hold.                                                *)
(***************************************************************************)
EXTENDS ChannelSessions, SequenceTheorems, TLAPS

-----------------------------------------------------------------------------
(***************************************************************************)
(* The inductive invariant                                                 *)
(***************************************************************************)
Registry == [cur : Ids \cup {None}, made : 0..MaxMade, session : [Ids -> Session]]

Turn == {"task", "after"}

HoldsTurn(s) == \E i \in 1..Len(s.queue) : s.queue[i].kind \in Turn

RunsTask(s) == s.running /\ Head(s.queue).kind = "task"

\* A session at time t.
SessionOK(s, t) ==
  /\ s \in Session
  /\ s.running => s.queue # <<>>
  /\ s.running /\ ~RunsTask(s) => s.window = Untold
  /\ s.used <= t /\ s.until <= t + Window
  /\ s.until <= s.used + Window \/ RunsTask(s)

RegOK(r, t) ==
  /\ r \in Registry
  /\ r.cur # None => r.session[r.cur].open
  /\ \A g \in Ids : SessionOK(r.session[g], t)
  /\ \A g \in Ids : HoldsTurn(r.session[g]) => r.cur = g

\* A mention is given a task when it is handled, and at no other time.
TasksOK == \A m \in Mentions : tasks[m] = IF m \in seen THEN 1 ELSE 0

IInv ==
  /\ TypeOK /\ RegOK(reg, now) /\ TasksOK
  /\ \A e \in Events : event[e].at = "naming" => event[e].in \in Ids

-----------------------------------------------------------------------------
(***************************************************************************)
(* One session                                                             *)
(***************************************************************************)
\* The fields of a session and their numbers.
LEMMA Fields ==
  ASSUME NEW s \in Session
  PROVE  /\ s.open \in BOOLEAN /\ s.running \in BOOLEAN /\ s.hung \in BOOLEAN
         /\ s.used \in Nat /\ s.used <= MaxTime /\ s.until \in Nat /\ s.until <= MaxTime + Window
         /\ s.queue \in Seq(Job) /\ Len(s.queue) \in Nat
         /\ \A i \in 1..Len(s.queue) : s.queue[i] \in Job
         /\ s.window \in {Untold, 0, Window} /\ Window \in Nat /\ Window >= 1 /\ MaxTime \in Nat
         /\ Untold = -1 /\ Idle \in Nat /\ Window <= Idle
<1>1. s.used \in 0..MaxTime /\ s.until \in 0..(MaxTime + Window)
  BY DEF Session
<1>2. Window \in Nat /\ Window >= 1 /\ MaxTime \in Nat /\ Idle \in Nat /\ Window <= Idle
  BY SessionsAssumption
<1>3. s.queue \in Seq(Job)
  BY DEF Session
<1>4. Len(s.queue) \in Nat /\ \A i \in 1..Len(s.queue) : s.queue[i] \in Job
  BY <1>3, LenProperties, ElementOfSeq
<1> QED
  BY <1>1, <1>2, <1>3, <1>4 DEF Session, Untold

\* A job that joins the queue is the last, and does not become the head of a
\* queue that has one.
LEMMA Joins ==
  ASSUME NEW t, NEW s, SessionOK(s, t), NEW j \in Job
  PROVE  LET s2 == [s EXCEPT !.queue = Append(@, j)]
         IN  /\ SessionOK(s2, t) /\ s2.open = s.open /\ s2.used = s.used /\ s2.until = s.until
             /\ s2.queue # <<>> /\ s2.running = s.running
             /\ HoldsTurn(s2) => HoldsTurn(s) \/ j.kind \in Turn
<1> DEFINE q == Append(s.queue, j)
           s2 == [s EXCEPT !.queue = Append(@, j)]
<1>1. s \in Session /\ s.queue \in Seq(Job) /\ Len(s.queue) \in Nat
  BY Fields DEF SessionOK
<1>2. /\ q \in Seq(Job) /\ Len(q) = Len(s.queue) + 1 /\ q # <<>>
      /\ \A i \in 1..Len(s.queue) : q[i] = s.queue[i]
      /\ q[Len(s.queue) + 1] = j
  BY <1>1, AppendProperties
<1>3. /\ s2.queue = q /\ s2.open = s.open /\ s2.used = s.used /\ s2.until = s.until
      /\ s2.running = s.running /\ s2.window = s.window /\ s2 \in Session
  BY <1>1, <1>2 DEF Session
<1>4. s.running => Head(q) = Head(s.queue)
  <2>1. ASSUME s.queue # <<>> PROVE Head(q) = Head(s.queue)
    <3>1. Len(s.queue) # 0
      BY <1>1, <2>1, EmptySeq
    <3>2. 1 \in 1..Len(s.queue)
      BY <1>1, <3>1
    <3> QED
      BY <1>2, <3>2
  <2> QED
    BY <2>1 DEF SessionOK
<1> HIDE DEF q, s2
<1>5. SessionOK(s2, t)
  BY <1>2, <1>3, <1>4 DEF SessionOK, RunsTask
<1>6. HoldsTurn(s2) => HoldsTurn(s) \/ j.kind \in Turn
  BY <1>1, <1>2, <1>3 DEF HoldsTurn
<1> QED
  BY <1>2, <1>3, <1>5, <1>6 DEF s2

\* The deadline a sheet gives is within a window of now.
LEMMA Deadline ==
  ASSUME now \in 0..MaxTime, NEW s \in Session, NEW w \in {Untold, 0, Window}
  PROVE  /\ Until(s, w) \in 0..(MaxTime + Window)
         /\ Until(s, w) <= now + Window \/ Until(s, w) = s.until
         /\ w = Untold => Until(s, w) = s.until
<1>1. s.until \in 0..(MaxTime + Window) /\ Window \in Nat /\ Window >= 1 /\ Untold = -1 /\ MaxTime \in Nat
  BY Fields DEF Session
<1>2. CASE w = Untold
  BY <1>1, <1>2 DEF Until
<1>3. CASE w = 0
  BY <1>1, <1>3 DEF Until
<1>4. CASE w = Window
  BY <1>1, <1>4 DEF Until
<1> QED
  BY <1>2, <1>3, <1>4

\* A task that starts may move its thread's deadline; nothing else does.
LEMMA Starts ==
  ASSUME now \in 0..MaxTime, NEW s, SessionOK(s, now), s.queue # <<>>, ~s.running,
         NEW w \in {Untold, 0, Window}, Head(s.queue).kind # "task" => w = Untold
  PROVE  /\ SessionOK(Started(s, w), now) /\ Started(s, w).open = s.open
         /\ HoldsTurn(Started(s, w)) => HoldsTurn(s)
<1> DEFINE s2 == Started(s, w)
<1>1. s \in Session
  BY DEF SessionOK
<1>2. /\ s2.running = TRUE /\ s2.window = w /\ s2.until = Until(s, w)
      /\ s2.used = s.used /\ s2.queue = s.queue /\ s2.open = s.open
  BY <1>1 DEF Started, Session
<1>3. s2 \in Session
  BY <1>1, Deadline DEF Started, Session
<1> HIDE DEF s2
<1>4. s2.until <= now + Window
  BY <1>1, <1>2, Deadline DEF SessionOK
<1>5. RunsTask(s2) \/ s2.until = s.until
  BY <1>1, <1>2, Deadline DEF RunsTask
<1>6. s.until <= s.used + Window
  BY DEF SessionOK, RunsTask
<1>7. SessionOK(s2, now)
  <2>1. s2.running /\ ~RunsTask(s2) => s2.window = Untold
    BY <1>2 DEF RunsTask
  <2>2. s2.used <= now
    BY <1>2 DEF SessionOK
  <2> QED
    BY <1>2, <1>3, <1>4, <1>5, <1>6, <2>1, <2>2 DEF SessionOK
<1> QED
  BY <1>2, <1>7 DEF s2, HoldsTurn

\* A task that ends has used its session at the moment it sets the deadline.
LEMMA Ended ==
  ASSUME now \in 0..MaxTime, NEW s, SessionOK(s, now), s.running
  PROVE  /\ SessionOK(Done(s), now) /\ Done(s).open = s.open
         /\ HoldsTurn(Done(s)) => HoldsTurn(s)
         /\ Head(s.queue) \in Job
         /\ RunsTask(s) => HoldsTurn(s)
<1> DEFINE s2 == Done(s)
<1>1. s \in Session /\ s.queue \in Seq(Job) /\ s.queue # <<>> /\ Len(s.queue) \in Nat
  BY Fields DEF SessionOK
<1>2. /\ Tail(s.queue) \in Seq(Job) /\ Len(Tail(s.queue)) = Len(s.queue) - 1
      /\ \A i \in 1..Len(Tail(s.queue)) : Tail(s.queue)[i] = s.queue[i + 1]
      /\ Head(s.queue) = s.queue[1] /\ Head(s.queue) \in Job /\ Len(s.queue) # 0
  BY <1>1, HeadTailProperties, EmptySeq
<1>3. /\ s2.running = FALSE /\ s2.window = Untold /\ s2.queue = Tail(s.queue) /\ s2.open = s.open
      /\ s2.used = IF Head(s.queue).kind = "task" THEN now ELSE s.used
      /\ s2.until = Until(s, s.window)
  BY <1>1 DEF Done, Session
<1>4. s2 \in Session
  <2>1. (IF Head(s.queue).kind = "task" THEN now ELSE s.used) \in 0..MaxTime
    BY <1>1 DEF Session
  <2>2. Until(s, s.window) \in 0..(MaxTime + Window)
    BY <1>1, Deadline DEF Session
  <2> QED
    BY <1>1, <1>2, <2>1, <2>2 DEF Done, Session
<1> HIDE DEF s2
<1>5. s2.until <= now + Window
  BY <1>1, <1>3, Fields, Deadline DEF SessionOK
<1>6. s2.used <= now
  BY <1>3, SessionsAssumption DEF SessionOK
<1>7. s2.until <= s2.used + Window
  <2>1. CASE Head(s.queue).kind = "task"
    BY <1>3, <1>5, <2>1
  <2>2. CASE Head(s.queue).kind # "task"
    <3>1. ~RunsTask(s)
      BY <2>2 DEF RunsTask
    <3>2. s.window = Untold /\ s.until <= s.used + Window
      BY <3>1 DEF SessionOK
    <3>3. s2.until = s.until /\ s2.used = s.used
      BY <1>1, <1>3, <2>2, <3>2, Fields, Deadline
    <3> QED
      BY <3>2, <3>3
  <2> QED
    BY <2>1, <2>2
<1>8. SessionOK(s2, now)
  BY <1>3, <1>4, <1>5, <1>6, <1>7 DEF SessionOK
<1>9. HoldsTurn(s2) => HoldsTurn(s)
  <2>1. ASSUME NEW i \in 1..Len(s2.queue) PROVE i + 1 \in 1..Len(s.queue) /\ s2.queue[i] = s.queue[i + 1]
    BY <1>1, <1>2, <1>3
  <2> QED
    BY <2>1 DEF HoldsTurn
<1>10. RunsTask(s) => HoldsTurn(s)
  <2>1. 1 \in 1..Len(s.queue)
    BY <1>1, <1>2
  <2> QED
    BY <1>2, <2>1 DEF RunsTask, HoldsTurn, Turn
<1> QED
  BY <1>2, <1>3, <1>8, <1>9, <1>10 DEF s2

-----------------------------------------------------------------------------
(***************************************************************************)
(* The registry                                                            *)
(***************************************************************************)
\* A registry with one of its sessions changed.
LEMMA OneChanged ==
  ASSUME NEW t, NEW r, RegOK(r, t), NEW g \in Ids, NEW s,
         SessionOK(s, t), s.open = r.session[g].open, HoldsTurn(s) => r.cur = g
  PROVE  LET r2 == [r EXCEPT !.session[g] = s]
         IN  /\ RegOK(r2, t) /\ r2.cur = r.cur /\ r2.made = r.made
             /\ r2.session[g] = s /\ \A h \in Ids \ {g} : r2.session[h] = r.session[h]
<1> DEFINE r2 == [r EXCEPT !.session[g] = s]
<1>1. r \in Registry /\ r.session \in [Ids -> Session] /\ s \in Session
  BY DEF RegOK, SessionOK, Registry
<1>2. r2.cur = r.cur /\ r2.made = r.made /\ r2.session = [r.session EXCEPT ![g] = s] /\ r2 \in Registry
  BY <1>1 DEF Registry
<1> HIDE DEF r2
<1>3. r2.session[g] = s /\ \A h \in Ids \ {g} : r2.session[h] = r.session[h]
  BY <1>1, <1>2
<1>4. r2.cur # None => r2.session[r2.cur].open
  BY <1>1, <1>2, <1>3 DEF RegOK, Registry
<1>5. \A h \in Ids : SessionOK(r2.session[h], t) /\ (HoldsTurn(r2.session[h]) => r2.cur = h)
  BY <1>2, <1>3 DEF RegOK
<1>6. RegOK(r2, t)
  BY <1>2, <1>4, <1>5 DEF RegOK
<1> QED
  BY <1>2, <1>3, <1>6 DEF r2

\* The same with the update written on the session.
LEMMA Nested ==
  ASSUME NEW r \in Registry, NEW g \in Ids
  PROVE  /\ \A kind, m : Enqueued(r, g, kind, m) =
              [r EXCEPT !.session[g] = [r.session[g] EXCEPT !.queue = Append(@, [kind |-> kind, msg |-> m])]]
         /\ [r EXCEPT !.session[g].used = now] =
              [r EXCEPT !.session[g] = [r.session[g] EXCEPT !.used = now]]
BY DEF Enqueued, Registry

\* A job joins a session's queue; a turn joins that of the channel's session.
LEMMA Enqueues ==
  ASSUME NEW t, NEW r, RegOK(r, t), NEW g \in Ids, NEW kind \in {"task", "after", "pass"},
         NEW m \in Messages, kind # "pass" => r.cur = g
  PROVE  LET r2 == Enqueued(r, g, kind, m)
         IN  /\ RegOK(r2, t) /\ r2.cur = r.cur /\ r2.made = r.made
             /\ r2.session[g].queue # <<>>
             /\ \A h \in Ids : r2.session[h].until = r.session[h].until
<1> DEFINE j == [kind |-> kind, msg |-> m]
           s == [r.session[g] EXCEPT !.queue = Append(@, j)]
           r2 == Enqueued(r, g, kind, m)
<1>1. j \in Job /\ j.kind = kind
  BY DEF Job
<1> HIDE DEF j
<1>2. r \in Registry /\ SessionOK(r.session[g], t) /\ (HoldsTurn(r.session[g]) => r.cur = g)
  BY DEF RegOK
<1>3. /\ SessionOK(s, t) /\ s.open = r.session[g].open /\ s.until = r.session[g].until /\ s.queue # <<>>
      /\ HoldsTurn(s) => HoldsTurn(r.session[g]) \/ j.kind \in Turn
  BY <1>1, <1>2, Joins
<1>4. r2 = [r EXCEPT !.session[g] = s]
  BY <1>2, Nested DEF j
<1> HIDE DEF s, r2
<1>5. HoldsTurn(s) => r.cur = g
  BY <1>1, <1>2, <1>3 DEF Turn
<1>6. /\ RegOK(r2, t) /\ r2.cur = r.cur /\ r2.made = r.made
      /\ r2.session[g] = s /\ \A h \in Ids \ {g} : r2.session[h] = r.session[h]
  <2>1. SessionOK(s, t) /\ s.open = r.session[g].open
    BY <1>3
  <2> QED
    BY <2>1, <1>4, <1>5, OneChanged
<1> QED
  BY <1>3, <1>6 DEF r2

\* A session that may be evicted holds no turn, and its thread is over.
LEMMA StaleIsOver ==
  ASSUME now \in 0..MaxTime, NEW s, SessionOK(s, now), Stale(s)
  PROVE  ~HoldsTurn(s) /\ s.until <= now
<1>1. s.queue = <<>> /\ now - s.used >= Idle /\ s \in Session
  BY DEF Stale, SessionOK
<1>2. ~HoldsTurn(s)
  BY <1>1 DEF HoldsTurn
<1>3. s.until <= s.used + Window
  BY <1>1 DEF SessionOK, RunsTask
<1> QED
  BY <1>1, <1>2, <1>3, Fields, SessionsAssumption

\* A sweep closes a session of which nothing is left to do.
LEMMA Sweeps ==
  ASSUME now \in 0..MaxTime, NEW r, RegOK(r, now)
  PROVE  /\ RegOK(Swept(r), now)
         /\ \/ Swept(r) = r
            \/ r.cur # None /\ Swept(r).cur = None /\ Stale(r.session[r.cur])
<1>1. r \in Registry /\ \A g \in Ids : SessionOK(r.session[g], now)
  BY DEF RegOK
<1>2. CASE r.cur # None /\ Stale(r.session[r.cur])
  <2> DEFINE g == r.cur
             s == [r.session[g] EXCEPT !.open = FALSE]
             r2 == Swept(r)
  <2>1. g \in Ids /\ SessionOK(r.session[g], now) /\ r.session[g] \in Session /\ r.session \in [Ids -> Session]
    BY <1>1, <1>2 DEF Registry, SessionOK
  <2>2. r2 = [r EXCEPT !.cur = None, !.session[r.cur].open = FALSE]
    BY <1>2 DEF Swept
  <2>3. r2.cur = None /\ r2.made = r.made /\ r2.session = [r.session EXCEPT ![g] = s]
    BY <1>1, <2>1, <2>2 DEF Registry
  <2>4. /\ s \in Session /\ s.queue = r.session[g].queue /\ s.running = r.session[g].running
        /\ s.window = r.session[g].window /\ s.used = r.session[g].used /\ s.until = r.session[g].until
    BY <2>1 DEF Session
  <2>5. r2 \in Registry
    <3>1. r2 = [cur |-> None, made |-> r.made, session |-> [r.session EXCEPT ![g] = s]]
      BY <1>1, <2>1, <2>2 DEF Registry
    <3>2. [r.session EXCEPT ![g] = s] \in [Ids -> Session]
      BY <2>1, <2>4
    <3> QED
      BY <1>1, <3>1, <3>2 DEF Registry
  <2> HIDE DEF s, r2
  <2>6. SessionOK(s, now)
    BY <2>1, <2>4 DEF SessionOK, RunsTask
  <2>7. ~HoldsTurn(s)
    BY <1>2, <2>1, <2>4, StaleIsOver DEF HoldsTurn
  <2>8. r2.session[g] = s /\ \A h \in Ids \ {g} : r2.session[h] = r.session[h]
    BY <2>1, <2>3
  <2>9. \A h \in Ids : SessionOK(r2.session[h], now) /\ ~HoldsTurn(r2.session[h])
    BY <1>1, <2>6, <2>7, <2>8 DEF RegOK
  <2>10. RegOK(r2, now)
    BY <2>3, <2>5, <2>9 DEF RegOK
  <2> QED
    BY <1>2, <2>3, <2>10 DEF r2
<1>3. CASE ~(r.cur # None /\ Stale(r.session[r.cur]))
  BY <1>3 DEF Swept
<1> QED
  BY <1>2, <1>3

\* What open gives is the channel's session, in which everything is left as it
\* was unless the session it replaces had nothing left to do.
LEMMA Opens ==
  ASSUME now \in 0..MaxTime, NEW r, RegOK(r, now), Room(r)
  PROVE  /\ RegOK(Opened(r), now) /\ Opened(r).cur \in Ids
         /\ \/ Opened(r).cur = r.cur
            \/ r.cur = None
            \/ r.session[r.cur].until <= now
<1>1. r \in Registry /\ r.session \in [Ids -> Session] /\ \A g \in Ids : SessionOK(r.session[g], now)
  BY DEF RegOK, Registry
<1>n. None \notin Ids /\ None = 0
  BY DEF None, Ids
<1>2. CASE Swept(r).cur # None
  <2> DEFINE g == r.cur
             s == [r.session[g] EXCEPT !.used = now]
             r2 == Opened(r)
  <2>1. g # None /\ g \in Ids /\ SessionOK(r.session[g], now) /\ r.session[g] \in Session
    BY <1>1, <1>2, Sweeps DEF Registry, SessionOK
  <2>2. r2 = [r EXCEPT !.session[g] = s]
    BY <1>1, <1>2, <2>1, Nested DEF Opened
  <2>3. /\ s \in Session /\ s.queue = r.session[g].queue /\ s.running = r.session[g].running
        /\ s.window = r.session[g].window /\ s.used = now /\ s.until = r.session[g].until
        /\ s.open = r.session[g].open
    BY <2>1 DEF Session
  <2> HIDE DEF s, r2
  <2>4. s.used <= now /\ s.until <= now + Window
    BY <2>1, <2>3, SessionsAssumption DEF SessionOK
  <2>5. SessionOK(s, now)
    BY <2>1, <2>3, <2>4 DEF SessionOK, RunsTask
  <2>6. HoldsTurn(s) => r.cur = g
    OBVIOUS
  <2>7. RegOK(r2, now) /\ r2.cur = r.cur
    BY <2>1, <2>2, <2>3, <2>5, OneChanged
  <2> QED
    BY <2>1, <2>7 DEF r2
<1>3. CASE Swept(r).cur = None
  <2> DEFINE n == r.made + 1
             b == Swept(r)
             r2 == Opened(r)
  <2>1. n \in Ids /\ n \in 0..MaxMade
    BY <1>1, <1>3, SessionsAssumption DEF Room, Ids, Registry
  <2>2. RegOK(b, now) /\ b.session \in [Ids -> Session] /\ b.cur = None
    BY <1>3, Sweeps DEF RegOK, Registry
  <2>3. r2 = [cur |-> n, made |-> n, session |-> [b.session EXCEPT ![n] = Fresh]]
    BY <1>3 DEF Opened
  <2>4. Fresh \in Session /\ SessionOK(Fresh, now) /\ ~HoldsTurn(Fresh) /\ Fresh.open
    <3>1. /\ now \in 0..MaxTime /\ 0 \in 0..(MaxTime + Window) /\ <<>> \in Seq(Job)
          /\ now \in Nat /\ Window \in Nat
      BY SessionsAssumption
    <3>2. Fresh \in Session
      BY <3>1 DEF Fresh, Session
    <3>3. /\ Fresh.running = FALSE /\ Fresh.used = now /\ Fresh.until = 0 /\ Fresh.queue = <<>> /\ Fresh.open
      BY DEF Fresh
    <3>4. SessionOK(Fresh, now)
      BY <3>1, <3>2, <3>3 DEF SessionOK
    <3> QED
      BY <3>2, <3>3, <3>4 DEF HoldsTurn
  <2> HIDE DEF n, b, r2
  <2>5. /\ r2.cur = n /\ r2.made = n /\ r2.session[n] = Fresh
        /\ \A h \in Ids \ {n} : r2.session[h] = b.session[h]
        /\ r2.session \in [Ids -> Session]
    BY <2>1, <2>2, <2>3, <2>4
  <2>6. r2 \in Registry
    BY <2>1, <2>2, <2>3, <2>4 DEF Registry
  <2>7. \A h \in Ids : SessionOK(r2.session[h], now) /\ (HoldsTurn(r2.session[h]) => r2.cur = h)
    BY <2>2, <2>4, <2>5, <1>n DEF RegOK
  <2>8. RegOK(r2, now)
    BY <2>4, <2>5, <2>6, <2>7 DEF RegOK
  <2>9. r.cur = None \/ r.session[r.cur].until <= now
    <3>1. r.cur # None => r.cur \in Ids /\ Stale(r.session[r.cur])
      BY <1>1, <1>3, Sweeps DEF Registry
    <3> QED
      BY <1>1, <3>1, StaleIsOver
  <2> QED
    BY <2>1, <2>5, <2>8, <2>9 DEF r2
<1> QED
  BY <1>2, <1>3

-----------------------------------------------------------------------------
(***************************************************************************)
(* The steps                                                               *)
(***************************************************************************)
\* From registry r to r2 nothing is evicted that is still to be answered in.
Kept(r, r2) ==
  /\ RegOK(r2, now)
  /\ r2.cur = r.cur \/ r.cur = None \/ r.session[r.cur].until <= now

\* A step that leaves the clock, and keeps the registry and the tasks, keeps
\* the invariant.
LEMMA Keeps ==
  ASSUME IInv, now' = now, Kept(reg, reg'), TasksOK',
         row' \in [Messages -> {"absent", "sent", "edited"}],
         event' \in [Events -> [at : {"none", "naming", "over"}, in : Ids \cup {None}]],
         seen' \subseteq Mentions,
         revised' \in [Messages -> {"none", "edited", "deleted"}],
         tasks' \in [Messages -> Nat],
         \A e \in Events : event'[e].at = "naming" => event'[e].in \in Ids
  PROVE  IInv'
<1>1. reg' \in Registry /\ RegOK(reg', now')
  BY DEF Kept, RegOK
<1>2. TypeOK'
  BY <1>1 DEF IInv, TypeOK, Registry
<1> QED
  BY <1>1, <1>2 DEF IInv

\* A task that is routed counts one for its message.
LEMMA Counts ==
  ASSUME IInv, NEW m \in Messages, tasks' = [tasks EXCEPT ![m] = @ + 1]
  PROVE  /\ tasks' \in [Messages -> Nat] /\ tasks'[m] = tasks[m] + 1
         /\ \A x \in Messages \ {m} : tasks'[x] = tasks[x]
<1>1. tasks \in [Messages -> Nat]
  BY DEF IInv, TypeOK
<1> QED
  BY <1>1

\* A mention is counted when it is seen.
LEMMA MentionStep ==
  ASSUME IInv, NEW m \in Messages, Mention(m)
  PROVE  IInv' /\ Kept(reg, reg')
<1>1. /\ m \in Mentions \ seen /\ Room(reg) /\ seen' = seen \cup {m}
      /\ reg' = Enqueued(Opened(reg), Opened(reg).cur, "task", m)
      /\ tasks' = [tasks EXCEPT ![m] = @ + 1]
      /\ UNCHANGED <<now, row, event, revised>>
  BY DEF Mention, Routed
<1>2. now \in 0..MaxTime /\ RegOK(reg, now)
  BY DEF IInv, TypeOK
<1>3. /\ RegOK(Opened(reg), now) /\ Opened(reg).cur \in Ids
      /\ Opened(reg).cur = reg.cur \/ reg.cur = None \/ reg.session[reg.cur].until <= now
  BY <1>1, <1>2, Opens
<1>4. RegOK(reg', now) /\ reg'.cur = Opened(reg).cur
  BY <1>1, <1>3, Enqueues
<1>5. Kept(reg, reg')
  BY <1>3, <1>4 DEF Kept
<1>6. TasksOK'
  <2>1. ASSUME NEW x \in Mentions PROVE tasks'[x] = IF x \in seen' THEN 1 ELSE 0
    <3>1. x \in Messages /\ tasks[x] = IF x \in seen THEN 1 ELSE 0
      BY SessionsAssumption DEF IInv, TasksOK
    <3>2. CASE x = m
      <4>1. tasks[x] = 0 /\ x \in seen'
        BY <1>1, <3>1, <3>2
      <4>2. tasks'[x] = tasks[x] + 1
        BY <1>1, <3>2, Counts
      <4> QED
        BY <4>1, <4>2
    <3>3. CASE x # m
      BY <1>1, <3>1, <3>3, Counts
    <3> QED
      BY <3>2, <3>3
  <2> QED
    BY <2>1 DEF TasksOK
<1>7. tasks' \in [Messages -> Nat]
  BY <1>1, Counts
<1> QED
  BY <1>1, <1>5, <1>6, <1>7, Keeps DEF IInv, TypeOK

\* A message opens the channel's session, and its handler holds that one.
LEMMA ReceiveStep ==
  ASSUME IInv, NEW e \in Events, Receive(e)
  PROVE  IInv' /\ Kept(reg, reg')
<1>1. /\ Room(reg) /\ reg' = Opened(reg) /\ UNCHANGED <<now, row, seen, revised, tasks>>
      /\ event' = [event EXCEPT ![e] = [at |-> "naming", in |-> Opened(reg).cur]]
  BY DEF Receive
<1>2. now \in 0..MaxTime /\ RegOK(reg, now)
  BY DEF IInv, TypeOK
<1>3. Kept(reg, reg') /\ Opened(reg).cur \in Ids
  BY <1>1, <1>2, Opens DEF Kept
<1>4. /\ event' \in [Events -> [at : {"none", "naming", "over"}, in : Ids \cup {None}]]
      /\ \A d \in Events : event'[d].at = "naming" => event'[d].in \in Ids
  BY <1>1, <1>3 DEF IInv, TypeOK
<1>5. TasksOK'
  BY <1>1 DEF IInv, TasksOK
<1> QED
  BY <1>1, <1>3, <1>4, <1>5, Keeps DEF IInv, TypeOK

\* A message is filed in the session its handler holds; a follow-up, which is
\* no mention, is answered in the channel's.
LEMMA FileStep ==
  ASSUME IInv, NEW e \in Events, File(e)
  PROVE  IInv' /\ Kept(reg, reg')
<1> DEFINE passed == Enqueued(reg, event[e].in, "pass", Of[e])
<1>1. /\ event[e].at = "naming" /\ row' = Appended(e)
      /\ event' = [event EXCEPT ![e].at = "over"]
      /\ UNCHANGED <<now, seen, revised>>
      /\ \/ /\ FollowsUp(e) /\ Room(passed)
            /\ reg' = Enqueued(Opened(passed), Opened(passed).cur, "task", Of[e])
            /\ tasks' = [tasks EXCEPT ![Of[e]] = @ + 1]
         \/ reg' = passed /\ tasks' = tasks
  BY DEF File, Routed
<1>2. now \in 0..MaxTime /\ RegOK(reg, now) /\ event[e].in \in Ids /\ Of[e] \in Messages
  BY <1>1, SessionsAssumption DEF IInv, TypeOK
<1>3. /\ RegOK(passed, now) /\ passed.cur = reg.cur
      /\ \A h \in Ids : passed.session[h].until = reg.session[h].until
  BY <1>2, Enqueues
<1>4. row' \in [Messages -> {"absent", "sent", "edited"}]
  BY <1>1, <1>2 DEF Appended, IInv, TypeOK
<1>5. /\ event' \in [Events -> [at : {"none", "naming", "over"}, in : Ids \cup {None}]]
      /\ \A d \in Events : event'[d].at = "naming" => event'[d].in \in Ids
  <2>1. event \in [Events -> [at : {"none", "naming", "over"}, in : Ids \cup {None}]]
    BY DEF IInv, TypeOK
  <2>2. event'[e].at = "over" /\ event'[e] \in [at : {"none", "naming", "over"}, in : Ids \cup {None}]
    BY <1>1, <2>1
  <2>3. \A d \in Events \ {e} : event'[d] = event[d]
    BY <1>1, <2>1
  <2>4. DOMAIN event' = Events /\ event' = [d \in Events |-> event'[d]]
    BY <1>1, <2>1
  <2> QED
    BY <2>1, <2>2, <2>3, <2>4 DEF IInv
<1> HIDE DEF passed
<1>6. CASE reg' = passed /\ tasks' = tasks
  <2>1. Kept(reg, reg')
    BY <1>3, <1>6 DEF Kept
  <2>2. TasksOK'
    BY <1>1, <1>6 DEF IInv, TasksOK
  <2> QED
    BY <1>1, <1>4, <1>5, <1>6, <2>1, <2>2, Keeps DEF IInv, TypeOK
<1>7. CASE /\ FollowsUp(e) /\ Room(passed)
           /\ reg' = Enqueued(Opened(passed), Opened(passed).cur, "task", Of[e])
           /\ tasks' = [tasks EXCEPT ![Of[e]] = @ + 1]
  <2>1. /\ RegOK(Opened(passed), now) /\ Opened(passed).cur \in Ids
        /\ Opened(passed).cur = passed.cur \/ passed.cur = None \/ passed.session[passed.cur].until <= now
    BY <1>2, <1>3, <1>7, Opens
  <2>2. RegOK(reg', now) /\ reg'.cur = Opened(passed).cur
    BY <1>2, <1>7, <2>1, Enqueues
  <2>3. Kept(reg, reg')
    <3>1. reg.cur = None \/ reg.cur \in Ids
      BY <1>2 DEF RegOK, Registry
    <3> QED
      BY <1>3, <2>1, <2>2, <3>1 DEF Kept
  <2>4. TasksOK'
    <3>1. Of[e] \notin Mentions
      BY <1>7 DEF FollowsUp
    <3>2. \A x \in Mentions : x \in Messages \ {Of[e]} /\ tasks'[x] = tasks[x]
      BY <1>2, <1>7, <3>1, Counts, SessionsAssumption
    <3> QED
      BY <1>1, <3>2 DEF IInv, TasksOK
  <2>5. tasks' \in [Messages -> Nat]
    BY <1>2, <1>7, Counts
  <2> QED
    BY <1>1, <1>4, <1>5, <2>3, <2>4, <2>5, Keeps DEF IInv, TypeOK
<1> QED
  BY <1>1, <1>6, <1>7

\* A revision opens the channel's session, and queues nothing.
LEMMA ReviseStep ==
  ASSUME IInv, NEW m \in Messages, NEW how \in {"edited", "deleted"}, Revise(m, how)
  PROVE  IInv' /\ Kept(reg, reg')
<1>1. /\ Room(reg) /\ reg' = Opened(reg) /\ UNCHANGED <<now, event, seen, tasks>>
      /\ revised' = [revised EXCEPT ![m] = how]
      /\ row' = IF row[m] = "absent" THEN row
                ELSE [row EXCEPT ![m] = IF how = "deleted" THEN "absent" ELSE "edited"]
  BY DEF Revise
<1>2. now \in 0..MaxTime /\ RegOK(reg, now)
  BY DEF IInv, TypeOK
<1>3. Kept(reg, reg')
  BY <1>1, <1>2, Opens DEF Kept
<1>4. /\ row' \in [Messages -> {"absent", "sent", "edited"}]
      /\ revised' \in [Messages -> {"none", "edited", "deleted"}]
  BY <1>1 DEF IInv, TypeOK
<1>5. TasksOK'
  BY <1>1 DEF IInv, TasksOK
<1> QED
  BY <1>1, <1>3, <1>4, <1>5, Keeps DEF IInv, TypeOK

\* A sweep evicts a session that is over.
LEMMA SweepStep ==
  ASSUME IInv, OtherChannelOpens
  PROVE  IInv' /\ Kept(reg, reg')
<1>1. reg' = Swept(reg) /\ UNCHANGED <<now, row, event, seen, revised, tasks>>
  BY DEF OtherChannelOpens
<1>2. now \in 0..MaxTime /\ RegOK(reg, now) /\ (reg.cur # None => SessionOK(reg.session[reg.cur], now))
  BY DEF IInv, TypeOK, RegOK, Registry
<1>3. Kept(reg, reg')
  BY <1>1, <1>2, Sweeps, StaleIsOver DEF Kept
<1>4. TasksOK'
  BY <1>1 DEF IInv, TasksOK
<1> QED
  BY <1>1, <1>3, <1>4, Keeps DEF IInv, TypeOK

\* A job starts in its session, wherever that stands.
LEMMA StartStep ==
  ASSUME IInv, NEW g \in Ids, Start(g)
  PROVE  IInv' /\ Kept(reg, reg')
<1>1. /\ reg.session[g].queue # <<>> /\ ~reg.session[g].running
      /\ UNCHANGED <<now, row, event, seen, revised, tasks>>
  BY DEF Start, CanStart
<1>2. PICK w \in {Untold, 0, Window} :
        /\ Head(reg.session[g].queue).kind # "task" => w = Untold
        /\ reg' = [reg EXCEPT !.session[g] = Started(@, w)]
  BY DEF Start
<1>3. /\ now \in 0..MaxTime /\ RegOK(reg, now) /\ SessionOK(reg.session[g], now)
      /\ HoldsTurn(reg.session[g]) => reg.cur = g
  BY DEF IInv, TypeOK, RegOK
<1>4. reg' = [reg EXCEPT !.session[g] = Started(reg.session[g], w)]
  BY <1>2, <1>3 DEF RegOK, Registry
<1>5. /\ SessionOK(Started(reg.session[g], w), now) /\ Started(reg.session[g], w).open = reg.session[g].open
      /\ HoldsTurn(Started(reg.session[g], w)) => reg.cur = g
  BY <1>1, <1>2, <1>3, Starts
<1>6. Kept(reg, reg')
  BY <1>3, <1>4, <1>5, OneChanged DEF Kept
<1>7. TasksOK'
  BY <1>1 DEF IInv, TasksOK
<1> QED
  BY <1>1, <1>6, <1>7, Keeps DEF IInv, TypeOK

\* A job that hangs leaves its session as it was.
LEMMA HangStep ==
  ASSUME IInv, NEW g \in Ids, Hang(g)
  PROVE  IInv' /\ Kept(reg, reg')
<1> DEFINE s == [reg.session[g] EXCEPT !.hung = TRUE]
<1>1. UNCHANGED <<now, row, event, seen, revised, tasks>>
  BY DEF Hang
<1>2. /\ RegOK(reg, now) /\ SessionOK(reg.session[g], now) /\ reg.session[g] \in Session
      /\ HoldsTurn(reg.session[g]) => reg.cur = g
  BY DEF IInv, RegOK, SessionOK
<1>3. reg' = [reg EXCEPT !.session[g] = s]
  BY <1>2 DEF Hang, RegOK, Registry
<1>4. /\ s \in Session /\ s.queue = reg.session[g].queue /\ s.running = reg.session[g].running
      /\ s.window = reg.session[g].window /\ s.used = reg.session[g].used
      /\ s.until = reg.session[g].until /\ s.open = reg.session[g].open
  BY <1>2 DEF Session
<1> HIDE DEF s
<1>5. SessionOK(s, now) /\ (HoldsTurn(s) => reg.cur = g)
  BY <1>2, <1>4 DEF SessionOK, RunsTask, HoldsTurn
<1>6. Kept(reg, reg')
  BY <1>2, <1>3, <1>4, <1>5, OneChanged DEF Kept
<1>7. TasksOK'
  BY <1>1 DEF IInv, TasksOK
<1> QED
  BY <1>1, <1>6, <1>7, Keeps DEF IInv, TypeOK

\* A task that ends may leave a turn in its own session, which is the channel's.
LEMMA EndStep ==
  ASSUME IInv, NEW g \in Ids, End(g)
  PROVE  IInv' /\ Kept(reg, reg')
<1> DEFINE s == reg.session[g]
           ended == [reg EXCEPT !.session[g] = Done(s)]
<1>1. s.running /\ UNCHANGED <<now, row, event, seen, revised, tasks>>
  BY DEF End
<1>2. /\ now \in 0..MaxTime /\ RegOK(reg, now) /\ SessionOK(s, now)
      /\ HoldsTurn(s) => reg.cur = g
  BY DEF IInv, TypeOK, RegOK
<1>3. ended = [reg EXCEPT !.session[g] = Done(@)]
  BY <1>2 DEF RegOK, Registry
<1>4. /\ SessionOK(Done(s), now) /\ Done(s).open = s.open /\ Head(s.queue) \in Job
      /\ HoldsTurn(Done(s)) => reg.cur = g
      /\ RunsTask(s) => reg.cur = g
  BY <1>1, <1>2, Ended
<1>5. RegOK(ended, now) /\ ended.cur = reg.cur
  BY <1>2, <1>4, OneChanged
<1>6. \/ reg' = ended
      \/ Head(s.queue).kind = "task" /\ reg' = Enqueued(ended, g, "after", Head(s.queue).msg)
  BY <1>3 DEF End
<1> HIDE DEF ended
<1>7. Kept(reg, reg')
  <2>1. CASE reg' = ended
    BY <1>5, <2>1 DEF Kept
  <2>2. CASE Head(s.queue).kind = "task" /\ reg' = Enqueued(ended, g, "after", Head(s.queue).msg)
    <3>1. ended.cur = g /\ Head(s.queue).msg \in Messages
      BY <1>1, <1>4, <1>5, <2>2 DEF RunsTask, Job
    <3>2. RegOK(reg', now) /\ reg'.cur = ended.cur
      BY <1>5, <2>2, <3>1, Enqueues
    <3> QED
      BY <1>5, <3>2 DEF Kept
  <2> QED
    BY <1>6, <2>1, <2>2
<1>8. TasksOK'
  BY <1>1 DEF IInv, TasksOK
<1> QED
  BY <1>1, <1>7, <1>8, Keeps DEF IInv, TypeOK

\* Time takes nothing from what holds of a session.
LEMMA TickStep ==
  ASSUME IInv, Tick
  PROVE  IInv' /\ reg' = reg
<1>1. now < MaxTime /\ now' = now + 1 /\ UNCHANGED <<reg, row, event, seen, revised, tasks>>
  BY DEF Tick
<1>2. now \in 0..MaxTime /\ now \in Nat /\ MaxTime \in Nat /\ Window \in Nat
  BY SessionsAssumption DEF IInv, TypeOK
<1>3. now' \in 0..MaxTime
  BY <1>1, <1>2
<1>4. ASSUME NEW g \in Ids PROVE SessionOK(reg.session[g], now + 1)
  <2>1. SessionOK(reg.session[g], now)
    BY DEF IInv, RegOK
  <2>2. reg.session[g].used \in Nat /\ reg.session[g].until \in Nat
    BY <2>1, Fields DEF SessionOK
  <2>3. reg.session[g].used <= now + 1 /\ reg.session[g].until <= (now + 1) + Window
    BY <1>2, <2>1, <2>2 DEF SessionOK
  <2> QED
    BY <2>1, <2>3 DEF SessionOK
<1>5. RegOK(reg', now')
  BY <1>1, <1>4 DEF IInv, RegOK
<1>6. TypeOK'
  BY <1>1, <1>3 DEF IInv, TypeOK, Session
<1>7. TasksOK'
  BY <1>1 DEF IInv, TasksOK
<1> QED
  BY <1>1, <1>5, <1>6, <1>7 DEF IInv

\* No session is open when the server starts.
LEMMA Begins == Init => IInv
<1> SUFFICES ASSUME Init PROVE IInv
  OBVIOUS
<1> DEFINE shut == [Fresh EXCEPT !.open = FALSE]
<1>1. /\ now = 0 /\ reg = [cur |-> None, made |-> 0, session |-> [g \in Ids |-> shut]]
      /\ row = [m \in Messages |-> "absent"]
      /\ event = [e \in Events |-> [at |-> "none", in |-> None]]
      /\ seen = {} /\ revised = [m \in Messages |-> "none"] /\ tasks = [m \in Messages |-> 0]
  BY DEF Init
<1>2. /\ 0 \in 0..MaxTime /\ 0 \in 0..MaxMade /\ 0 \in 0..(MaxTime + Window) /\ <<>> \in Seq(Job)
      /\ Window \in Nat /\ None \notin Ids
  BY SessionsAssumption DEF None, Ids
<1>3. /\ Fresh \in Session /\ Fresh.running = FALSE /\ Fresh.used = 0 /\ Fresh.until = 0
      /\ Fresh.queue = <<>>
  <2>1. now = 0
    BY DEF Init
  <2> QED
    BY <1>2, <2>1 DEF Fresh, Session
<1>4. /\ shut \in Session /\ shut.running = FALSE /\ shut.used = 0 /\ shut.until = 0
      /\ shut.queue = <<>>
  BY <1>3 DEF Session
<1> HIDE DEF shut
<1>5. SessionOK(shut, 0) /\ ~HoldsTurn(shut)
  BY <1>2, <1>4 DEF SessionOK, HoldsTurn
<1>6. /\ reg \in Registry /\ reg.cur = None /\ \A g \in Ids : reg.session[g] = shut
  BY <1>1, <1>2, <1>4 DEF Registry
<1>7. RegOK(reg, now)
  BY <1>1, <1>5, <1>6 DEF RegOK
<1>8. TypeOK
  <2>1. \A e \in Events : event[e] = [at |-> "none", in |-> None]
    BY <1>1
  <2>2. event \in [Events -> [at : {"none", "naming", "over"}, in : Ids \cup {None}]]
    BY <1>1
  <2> QED
    BY <1>1, <1>2, <1>6, <2>2 DEF TypeOK, Registry
<1>9. TasksOK /\ \A e \in Events : event[e].at # "naming"
  BY <1>1, SessionsAssumption DEF TasksOK
<1> QED
  BY <1>7, <1>8, <1>9 DEF IInv

\* Every step keeps the invariant, and evicts no session that is still to be
\* answered in.
LEMMA Step ==
  ASSUME IInv, [Next]_vars
  PROVE  IInv' /\ (reg'.cur = reg.cur \/ reg.cur = None \/ reg.session[reg.cur].until <= now)
<1>1. ASSUME NEW m \in Messages, Mention(m) \/ Revise(m, "edited") \/ Revise(m, "deleted")
      PROVE  IInv' /\ Kept(reg, reg')
  BY <1>1, MentionStep, ReviseStep
<1>2. ASSUME NEW e \in Events, Receive(e) \/ File(e) PROVE IInv' /\ Kept(reg, reg')
  BY <1>2, ReceiveStep, FileStep
<1>3. ASSUME NEW g \in Ids, Start(g) \/ Hang(g) \/ End(g) PROVE IInv' /\ Kept(reg, reg')
  BY <1>3, StartStep, HangStep, EndStep
<1>4. CASE OtherChannelOpens
  BY <1>4, SweepStep DEF Kept
<1>5. CASE Tick
  BY <1>5, TickStep
<1>6. CASE UNCHANGED vars
  BY <1>6 DEF vars, IInv, TypeOK, TasksOK
<1> QED
  BY <1>1, <1>2, <1>3, <1>4, <1>5, <1>6 DEF Next, Kept

\* The invariant holds of every behaviour.
LEMMA Invariant == Spec => []IInv
<1>1. IInv /\ [Next]_vars => IInv'
  BY Step
<1> QED
  BY <1>1, Begins, PTL DEF Spec

-----------------------------------------------------------------------------
(***************************************************************************)
(* The theorems                                                            *)
(***************************************************************************)
\* The registry, the mutex, the handlers and the router keep every value in
\* its type; no deadline is further than a window from the clock's end.
THEOREM SessionsAreTyped == Spec => []TypeOK
<1>1. IInv => TypeOK
  BY DEF IInv
<1> QED
  BY <1>1, Invariant, PTL

\* Router and session registry: a task, and a turn left for after a reply, wait
\* in no queue but that of the channel's one session, and its store is open.
THEOREM Serial == Spec => []TurnsAreSerial
<1>1. ASSUME IInv, NEW g \in Ids, Queued(g, {"task", "after"})
      PROVE  reg.cur = g /\ reg.session[g].open
  <2>1. HoldsTurn(reg.session[g])
    BY <1>1 DEF Queued, HoldsTurn, Turn
  <2>2. g # None
    BY DEF Ids, None
  <2> QED
    BY <1>1, <2>1, <2>2 DEF IInv, RegOK
<1>2. IInv => TurnsAreSerial
  BY <1>1 DEF TurnsAreSerial
<1> QED
  BY <1>2, Invariant, PTL

\* A mention comes in by the gateway's mention handler and by ingest, and is
\* routed by one of them only.
THEOREM Answered == Spec => []MentionsAnsweredOnce
<1>1. IInv => MentionsAnsweredOnce
  BY DEF IInv, TasksOK, MentionsAnsweredOnce
<1> QED
  BY <1>1, Invariant, PTL

\* SessionRegistry's eviction takes no active thread away, whatever the order of
\* sweeps, tasks and deadlines.
THEOREM WindowKept == Spec => WindowIsKept
<1>1. ASSUME IInv, [Next]_vars
      PROVE  [reg'.cur # reg.cur /\ reg.cur # None => ~Active(reg.cur)]_vars
  <2>1. SUFFICES ASSUME reg'.cur # reg.cur, reg.cur # None PROVE ~(reg.session[reg.cur].until > now)
    BY DEF Active
  <2>2. reg.session[reg.cur].until <= now
    BY <1>1, <2>1, Step
  <2>3. reg.session[reg.cur].until \in Nat /\ now \in Nat
    <3>1. reg.cur \in Ids /\ now \in 0..MaxTime
      BY <1>1, <2>1 DEF IInv, RegOK, Registry, TypeOK
    <3>2. reg.session[reg.cur] \in Session
      BY <1>1, <3>1 DEF IInv, RegOK, SessionOK
    <3> QED
      BY <3>1, <3>2, Fields
  <2> QED
    BY <2>2, <2>3
<1>2. Spec => [][Next]_vars
  BY PTL DEF Spec
<1> QED
  BY <1>1, <1>2, Invariant, PTL DEF WindowIsKept

-----------------------------------------------------------------------------
(***************************************************************************)
(* What holds when Slack delivers each message once, and in its order      *)
(***************************************************************************)
OneDelivery == \A e, f \in Events : Of[e] = Of[f] => e = f

\* A reply is answered by the one handler that is through with it.
AnsweredByItsHandler == \A m \in Messages \ Mentions : tasks[m] # 0 =>
  /\ tasks[m] = 1
  /\ \E e \in Events : Of[e] = m /\ event[e].at = "over"

LEMMA HandlerStep ==
  ASSUME OneDelivery, IInv, AnsweredByItsHandler, [Next]_vars
  PROVE  AnsweredByItsHandler'
<1>t. /\ tasks \in [Messages -> Nat] /\ Of \in [Events -> Messages]
      /\ event \in [Events -> [at : {"none", "naming", "over"}, in : Ids \cup {None}]]
  BY SessionsAssumption DEF IInv, TypeOK
<1>1. ASSUME NEW e \in Events, Receive(e) PROVE AnsweredByItsHandler'
  <2>1. /\ event[e].at = "none" /\ UNCHANGED tasks
        /\ \A f \in Events \ {e} : event'[f] = event[f]
    BY <1>1, <1>t DEF Receive
  <2> QED
    BY <2>1 DEF AnsweredByItsHandler
<1>2. ASSUME NEW e \in Events, File(e) PROVE AnsweredByItsHandler'
  <2>1. /\ event[e].at = "naming" /\ event'[e].at = "over"
        /\ \A f \in Events \ {e} : event'[f] = event[f]
    BY <1>2, <1>t DEF File
  <2>2. \/ UNCHANGED tasks
        \/ Of[e] \notin Mentions /\ tasks' = [tasks EXCEPT ![Of[e]] = @ + 1]
    BY <1>2 DEF File, Routed, FollowsUp
  <2>3. Of[e] \notin Mentions => tasks[Of[e]] = 0
    BY <1>t, <2>1 DEF OneDelivery, AnsweredByItsHandler
  <2>4. ASSUME NEW m \in Messages \ Mentions, tasks'[m] # 0
        PROVE  tasks'[m] = 1 /\ \E f \in Events : Of[f] = m /\ event'[f].at = "over"
    <3>1. CASE m = Of[e]
      BY <1>t, <2>1, <2>2, <2>3, <2>4, <3>1
    <3>2. CASE m # Of[e]
      <4>1. tasks'[m] = tasks[m]
        BY <1>t, <2>2, <3>2
      <4>2. PICK f \in Events : Of[f] = m /\ event[f].at = "over"
        BY <2>4, <4>1 DEF AnsweredByItsHandler
      <4> QED
        BY <2>1, <2>4, <4>1, <4>2, <3>2 DEF AnsweredByItsHandler
    <3> QED
      BY <3>1, <3>2
  <2> QED
    BY <2>4 DEF AnsweredByItsHandler
<1>3. ASSUME NEW m \in Messages, Mention(m) PROVE AnsweredByItsHandler'
  <2>1. m \in Mentions /\ UNCHANGED event /\ \A n \in Messages \ {m} : tasks'[n] = tasks[n]
    BY <1>3, <1>t DEF Mention, Routed
  <2> QED
    BY <2>1 DEF AnsweredByItsHandler
<1>4. ASSUME UNCHANGED <<event, tasks>> PROVE AnsweredByItsHandler'
  BY <1>4 DEF AnsweredByItsHandler
<1> QED
  BY <1>1, <1>2, <1>3, <1>4 DEF Next, Revise, Start, Hang, End, OtherChannelOpens, Tick, vars

\* A message is answered once if its event comes once, whatever the order of
\* mentions, replies, evictions and name lookups: the redelivery that the
\* gateway's comment calls a no-op is all that breaks it (MCAnsweredOnce.cfg).
THEOREM OnceIfDeliveredOnce ==
  ASSUME OneDelivery
  PROVE  Spec => []AnsweredOnce
<1>1. Init => AnsweredByItsHandler
  BY DEF Init, AnsweredByItsHandler
<1>2. IInv /\ AnsweredByItsHandler /\ [Next]_vars => AnsweredByItsHandler'
  BY HandlerStep
<1>3. IInv /\ AnsweredByItsHandler => AnsweredOnce
  <2>1. ASSUME IInv, AnsweredByItsHandler, NEW m \in Messages PROVE tasks[m] <= 1
    <3>1. CASE m \in Mentions
      BY <2>1, <3>1 DEF IInv, TasksOK
    <3>2. CASE m \notin Mentions
      BY <2>1, <3>2 DEF AnsweredByItsHandler
    <3> QED
      BY <3>1, <3>2
  <2> QED
    BY <2>1 DEF AnsweredOnce
<1> QED
  BY <1>1, <1>2, <1>3, Invariant, PTL DEF Spec

\* Nobody deletes a message whose author is being looked up.
DeletedAfterFiling == \A m \in Messages :
  Revise(m, "deleted") => \A e \in Events : Of[e] = m => event[e].at # "naming"

\* A deleted message is gone, and no handler has it in hand.
Gone == \A m \in Messages : revised[m] = "deleted" =>
  /\ row[m] = "absent"
  /\ \A e \in Events : Of[e] = m => event[e].at = "over"

LEMMA GoneStep ==
  ASSUME OneDelivery, IInv, Gone, Next, DeletedAfterFiling
  PROVE  Gone'
<1>t. /\ row \in [Messages -> {"absent", "sent", "edited"}] /\ Of \in [Events -> Messages]
      /\ revised \in [Messages -> {"none", "edited", "deleted"}]
      /\ event \in [Events -> [at : {"none", "naming", "over"}, in : Ids \cup {None}]]
  BY SessionsAssumption DEF IInv, TypeOK
<1>1. ASSUME NEW e \in Events, Receive(e) PROVE Gone'
  <2>1. /\ event[e].at = "none" /\ UNCHANGED <<row, revised>>
        /\ \A f \in Events \ {e} : event'[f] = event[f]
    BY <1>1, <1>t DEF Receive
  <2> QED
    BY <2>1 DEF Gone
<1>2. ASSUME NEW e \in Events, File(e) PROVE Gone'
  <2>1. /\ event[e].at = "naming" /\ UNCHANGED revised
        /\ \A f \in Events \ {e} : event'[f] = event[f]
        /\ \A m \in Messages \ {Of[e]} : row'[m] = row[m]
    BY <1>2, <1>t DEF File, Appended
  <2>2. revised[Of[e]] # "deleted"
    BY <1>t, <2>1 DEF Gone
  <2> QED
    BY <2>1, <2>2 DEF Gone
<1>3. ASSUME NEW m \in Messages, Revise(m, "edited") PROVE Gone'
  <2>1. /\ revised[m] # "deleted" /\ UNCHANGED event /\ revised'[m] = "edited"
        /\ \A n \in Messages \ {m} : row'[n] = row[n] /\ revised'[n] = revised[n]
    BY <1>3, <1>t DEF Revise
  <2> QED
    BY <2>1 DEF Gone
<1>4. ASSUME NEW m \in Messages, Revise(m, "deleted") PROVE Gone'
  <2>1. /\ UNCHANGED event /\ row'[m] = "absent"
        /\ \A n \in Messages \ {m} : row'[n] = row[n] /\ revised'[n] = revised[n]
    BY <1>4, <1>t DEF Revise
  <2>2. PICK e \in Events : Of[e] = m /\ event[e].at # "none"
    BY <1>4 DEF Revise
  <2>3. event[e].at = "over"
    <3>1. event[e].at # "naming"
      BY <1>4, <2>2 DEF DeletedAfterFiling
    <3> QED
      BY <1>t, <2>2, <3>1
  <2>4. \A f \in Events : Of[f] = m => event[f].at = "over"
    BY <2>2, <2>3 DEF OneDelivery
  <2> QED
    BY <2>1, <2>4 DEF Gone
<1>5. ASSUME UNCHANGED <<row, event, revised>> PROVE Gone'
  BY <1>5 DEF Gone
<1> QED
  BY <1>1, <1>2, <1>3, <1>4, <1>5 DEF Next, Mention, Start, Hang, End, OtherChannelOpens, Tick

\* What is deleted in Slack is deleted here, if each message comes once and no
\* deletion overtakes the name lookup of the message it deletes: that lookup,
\* and a redelivery, are all that break it (MCDeletedStaysDeleted.cfg).
THEOREM DeletedIfInOrder ==
  ASSUME OneDelivery
  PROVE  Spec /\ [][DeletedAfterFiling]_vars => []DeletedStaysDeleted
<1>1. Init => Gone
  BY DEF Init, Gone
<1>2. IInv /\ Gone /\ [Next]_vars /\ [DeletedAfterFiling]_vars => Gone'
  <2>1. ASSUME Gone, UNCHANGED vars PROVE Gone'
    BY <2>1 DEF Gone, vars
  <2> QED
    BY <2>1, GoneStep
<1>3. Gone => DeletedStaysDeleted
  BY DEF Gone, DeletedStaysDeleted
<1> QED
  BY <1>1, <1>2, <1>3, Invariant, PTL DEF Spec
=============================================================================
