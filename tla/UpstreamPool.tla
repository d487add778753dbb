---------------------------- MODULE UpstreamPool ----------------------------
(***************************************************************************)
(* One upstream MCP server behind the proxy's pool: mcp-pool.ts,           *)
(* semaphore.ts and the session handling of mcp-client.ts, composed.       *)
(*                                                                         *)
(* The pool's keys share nothing but the sweep, so one key is modelled and *)
(* an acquire of another key is the action Sweep.  A client is what one    *)
(* key's entry is made of: the MCP client, its semaphore and its usage;    *)
(* a swept entry is replaced by a new client, and a caller may still hold  *)
(* the old one.  The upstream speaks the legacy era, the only one with a   *)
(* session to lose; a stateless upstream is the case in which Forget never *)
(* happens.  callTool and listTools differ in their waits and in what they *)
(* return, which are abstracted; the deadline is a choice at each attempt. *)
(***************************************************************************)
EXTENDS Naturals, Sequences, FiniteSets, SequencesExt

CONSTANTS
  Calls,       \* tool calls and catalogue walks
  Limit,       \* maxUpstreamConcurrency
  MaxClients,  \* bound: clients the pool creates for the upstream
  MaxGens      \* bound: sessions the upstream mints for a client (MayMint)

ASSUME PoolAssumption ==
  Limit \in Nat \ {0} /\ MaxClients \in Nat \ {0} /\ MaxGens \in Nat \ {0}

VARIABLES
  pool,    \* [closed, entry, created]
  client,  \* [Clients -> client, semaphore and usage]
  call,    \* [Calls -> where the call is]
  alive,   \* [Clients -> sessions the upstream still knows]
  ran,     \* [Calls -> times the upstream ran the tool for the call]
  doubled  \* clients that reopened while a first handshake was in flight

vars == <<pool, client, call, alive, ran, doubled>>

-----------------------------------------------------------------------------
Clients == 1..MaxClients
Gens    == 1..MaxGens
None    == 0  \* no entry, no client, no session

Pool == [closed : BOOLEAN, entry : Clients \cup {None}, created : 0..MaxClients]

\* session: the session in use; gens: how many the upstream minted; left: those
\* nobody can end any more; opening, reopening: a handshake in flight; thrown:
\* the semaphore is open; aged: unused for IDLE_TTL_MS.
Client == [session : Gens \cup {None}, gens : 0..MaxGens, left : SUBSET Gens,
           opening : BOOLEAN, reopening : BOOLEAN, closed : BOOLEAN,
           held : 0..Limit, line : Seq(Calls), thrown : BOOLEAN, aged : BOOLEAN]

\* idle, leased (holds a client, calls nothing), queued, admitted (has a
\* permit), opening and reopening (awaits that handshake), sent, done (its
\* outcome is known, its permit not yet released).
Call == [pc : {"idle", "leased", "queued", "admitted", "opening", "reopening", "sent", "done"},
         on : Clients \cup {None}, permit : {"none", "real", "inert"},
         gen : Gens \cup {None}, tries : 0..2]

Free == [pc |-> "idle", on |-> None, permit |-> "none", gen |-> None, tries |-> 0]

Fresh == [session |-> None, gens |-> 0, left |-> {}, opening |-> FALSE, reopening |-> FALSE,
          closed |-> FALSE, held |-> 0, line |-> <<>>, thrown |-> FALSE, aged |-> FALSE]

Init ==
  /\ pool = [closed |-> FALSE, entry |-> None, created |-> 0]
  /\ client = [i \in Clients |-> Fresh]
  /\ call = [c \in Calls |-> Free]
  /\ alive = [i \in Clients |-> {}]
  /\ ran = [c \in Calls |-> 0]
  /\ doubled = {}

world == <<alive, ran, doubled>>

-----------------------------------------------------------------------------
(***************************************************************************)
(* The pool                                                                *)
(***************************************************************************)
\* usage.inFlight: up before the permit is asked for, down when it is back.
InFlight(i) == {c \in Calls : call[c].on = i /\ call[c].pc \notin {"idle", "leased"}}

\* McpClient.close sends a DELETE for the session and waits for it no longer
\* than a timeout: the session stays if the DELETE does not arrive or is
\* refused, which nobody is told.  A handshake in flight is not ended.
MayStay(i) == {client[i].session} \cap alive[i]

Closed(i, stays) ==
  [client[i] EXCEPT !.closed = TRUE, !.session = None, !.left = client[i].left \cup stays]

Ended(i, stays) == [alive EXCEPT ![i] = (@ \ {client[i].session}) \cup stays]

\* acquire, by a call that then makes its request, or makes it later.
Lease(c) ==
  /\ ~pool.closed /\ call[c].pc = "idle"
  /\ \E i \in Clients :
       /\ \/ i = pool.entry /\ UNCHANGED pool
          \/ /\ pool.entry = None /\ i = pool.created + 1
             /\ pool' = [pool EXCEPT !.entry = i, !.created = i]
       /\ client' = [client EXCEPT ![i].aged = FALSE]
       /\ call' = [call EXCEPT ![c].pc = "leased", ![c].on = i]
  /\ UNCHANGED world

Drop(c) ==
  /\ call[c].pc = "leased"
  /\ call' = [call EXCEPT ![c] = Free]
  /\ ran' = [ran EXCEPT ![c] = 0]
  /\ UNCHANGED <<pool, client, alive, doubled>>

\* IDLE_TTL_MS goes by.
Age(i) ==
  /\ i = pool.entry
  /\ client' = [client EXCEPT ![i].aged = TRUE]
  /\ UNCHANGED <<pool, call, world>>

FaultyIdle(i) == client[i].aged /\ client[i].line = <<>>  \* fault: callers inside do not count

Idle(i) == client[i].aged /\ InFlight(i) = {}

Sweep ==
  /\ pool.entry # None /\ Idle(pool.entry)
  /\ pool' = [pool EXCEPT !.entry = None]
  /\ \E stays \in SUBSET MayStay(pool.entry) :
       /\ client' = [client EXCEPT ![pool.entry] = Closed(pool.entry, stays)]
       /\ alive' = Ended(pool.entry, stays)
  /\ UNCHANGED <<call, ran, doubled>>

\* limiter.open, after the client's close has begun.
Opened(i, stays) == [Closed(i, stays) EXCEPT !.thrown = TRUE, !.line = <<>>]

\* close, at shutdown: the waiters are woken with inert permits.
Close ==
  /\ ~pool.closed
  /\ pool' = [pool EXCEPT !.closed = TRUE, !.entry = None]
  /\ IF pool.entry = None
     THEN UNCHANGED <<client, call, alive>>
     ELSE /\ \E stays \in SUBSET MayStay(pool.entry) :
               /\ client' = [client EXCEPT ![pool.entry] = Opened(pool.entry, stays)]
               /\ alive' = Ended(pool.entry, stays)
          /\ call' = [c \in Calls |->
               IF call[c].on = pool.entry /\ call[c].pc = "queued"
               THEN [call[c] EXCEPT !.pc = "admitted", !.permit = "inert"]
               ELSE call[c]]
  /\ UNCHANGED <<ran, doubled>>

-----------------------------------------------------------------------------
(***************************************************************************)
(* The semaphore                                                           *)
(***************************************************************************)
\* A gated callTool or listTools, up to its permit.
Ask(c) ==
  /\ call[c].pc = "leased"
  /\ LET i == call[c].on
         to(pc, p) == [call EXCEPT ![c].pc = pc, ![c].permit = p]
     IN \/ /\ client[i].thrown
           /\ call' = to("admitted", "inert")
           /\ UNCHANGED client
        \/ /\ ~client[i].thrown /\ client[i].held < Limit
           /\ call' = to("admitted", "real")
           /\ client' = [client EXCEPT ![i].held = @ + 1]
        \/ /\ ~client[i].thrown /\ client[i].held >= Limit
           /\ call' = to("queued", "none")
           /\ client' = [client EXCEPT ![i].line = Append(@, c)]
  /\ ran' = [ran EXCEPT ![c] = 0]
  /\ UNCHANGED <<pool, alive, doubled>>

FaultyWithout(line, c) == line  \* fault: who gave up stays in the queue

\* queue.indexOf
IndexOf(line, c) == CHOOSE n \in 1..Len(line) : line[n] = c

\* queue.splice(at, 1)
Without(line, c) == RemoveAt(line, IndexOf(line, c))

\* The waiter's timer: it leaves the queue and is told `busy'.
TimerFires(c) ==
  /\ call[c].pc = "queued"
  /\ client' = [client EXCEPT ![call[c].on].line = Without(@, c)]
  /\ call' = [call EXCEPT ![c].pc = "done"]
  /\ UNCHANGED <<pool, world>>

GivenBack(p) == p = "real"

\* The call ends: its permit goes to the eldest waiter or back to the count,
\* and its use is stamped.  Releasing an inert permit does nothing.
Finish(c) ==
  /\ call[c].pc = "done"
  /\ LET i    == call[c].on
         real == GivenBack(call[c].permit)
         next == client[i].line
         over == [call EXCEPT ![c] = [Free EXCEPT !.pc = "leased", !.on = i]]
     IN IF real /\ next # <<>>
        THEN /\ client' = [client EXCEPT ![i].line = Tail(@), ![i].aged = FALSE]
             /\ call' = [over EXCEPT ![Head(next)].pc = "admitted", ![Head(next)].permit = "real"]
        ELSE /\ client' = [client EXCEPT ![i].aged = FALSE,
                                         ![i].held = IF real THEN @ - 1 ELSE @]
             /\ call' = over
  /\ UNCHANGED <<pool, world>>

-----------------------------------------------------------------------------
(***************************************************************************)
(* The client's connection                                                 *)
(***************************************************************************)
\* One attempt on session g; it is not sent once the call's budget is spent.
Attempt(k, g, spent) ==
  IF spent THEN [k EXCEPT !.pc = "done"] ELSE [k EXCEPT !.pc = "sent", !.gen = g, !.tries = @ + 1]

Awaiting(i, flight) == {c \in Calls : call[c].on = i /\ call[c].pc = flight}

\* ensureOpen
Enter(c) ==
  /\ call[c].pc = "admitted"
  /\ LET i == call[c].on
         k == client[i]
         to(pc) == [call EXCEPT ![c].pc = pc]
     IN \/ /\ k.session # None
           /\ \E spent \in BOOLEAN : call' = [call EXCEPT ![c] = Attempt(@, k.session, spent)]
           /\ UNCHANGED <<client, doubled>>
        \/ /\ k.session = None /\ k.closed
           /\ call' = to("done")
           /\ UNCHANGED <<client, doubled>>
        \/ /\ k.session = None /\ ~k.closed /\ k.reopening
           /\ call' = to("reopening")
           /\ UNCHANGED <<client, doubled>>
        \/ /\ k.session = None /\ ~k.closed /\ ~k.reopening
           /\ call' = to("opening")
           /\ client' = [client EXCEPT ![i].opening = TRUE]
           /\ UNCHANGED doubled
  /\ UNCHANGED <<pool, alive, ran>>

FaultyReplaced(k, g) == FALSE  \* fault: a straggler does not look for a newer session

\* A session other than the one this call lost is in use.
Replaced(k, g) == k.session \notin {None, g}

\* The upstream answers 404 to a request that carried a session it has
\* forgotten; reopenSession, once per call.
Lost(c) ==
  /\ call[c].pc = "sent" /\ call[c].gen \notin alive[call[c].on]
  /\ LET i == call[c].on
         k == client[i]
         to(pc) == [call EXCEPT ![c].pc = pc]
     IN \/ /\ call[c].tries = 2 \/ k.closed
           /\ call' = to("done")
           /\ UNCHANGED <<client, doubled>>
        \/ /\ call[c].tries = 1 /\ ~k.closed /\ Replaced(k, call[c].gen)
           /\ \E spent \in BOOLEAN : call' = [call EXCEPT ![c] = Attempt(@, k.session, spent)]
           /\ UNCHANGED <<client, doubled>>
        \/ /\ call[c].tries = 1 /\ ~k.closed /\ ~Replaced(k, call[c].gen)
           /\ call' = to("reopening")
           /\ IF k.reopening
              THEN UNCHANGED <<client, doubled>>
              ELSE /\ client' = [client EXCEPT ![i].session = None, ![i].reopening = TRUE]
                   /\ doubled' = IF k.opening THEN doubled \cup {i} ELSE doubled
  /\ UNCHANGED <<pool, alive, ran>>

\* The bound on a client's sessions: one fewer for each client before it.
MayMint(i) == client[i].gens + i <= MaxGens

\* A handshake (flight is "opening" or "reopening") succeeds: its session is
\* adopted by everyone who awaited it, whatever happened meanwhile.
Connect(i, flight) ==
  /\ client[i][flight] /\ MayMint(i)
  /\ LET g == client[i].gens + 1
     IN /\ client' = [client EXCEPT ![i] = [@ EXCEPT ![flight] = FALSE, !.session = g, !.gens = g]]
        /\ alive' = [alive EXCEPT ![i] = @ \cup {g}]
        /\ \E spent \in SUBSET Awaiting(i, flight) :
             call' = [c \in Calls |-> IF c \in Awaiting(i, flight)
                                     THEN Attempt(call[c], g, c \in spent) ELSE call[c]]
  /\ UNCHANGED <<pool, ran, doubled>>

\* It fails: everyone who awaited it is told so, and the next caller may try.
\* The upstream may have minted a session by then, whose id the transport
\* drops: its answer was lost, or what followed in the handshake failed.
ConnectFails(i, flight) ==
  /\ client[i][flight]
  /\ \/ /\ client' = [client EXCEPT ![i] = [@ EXCEPT ![flight] = FALSE]]
        /\ UNCHANGED alive
     \/ /\ MayMint(i)
        /\ LET g == client[i].gens + 1
           IN /\ client' = [client EXCEPT ![i] =
                   [@ EXCEPT ![flight] = FALSE, !.gens = g, !.left = client[i].left \cup {g}]]
              /\ alive' = [alive EXCEPT ![i] = @ \cup {g}]
  /\ call' = [c \in Calls |-> IF c \in Awaiting(i, flight)
                              THEN [call[c] EXCEPT !.pc = "done"] ELSE call[c]]
  /\ UNCHANGED <<pool, ran, doubled>>

-----------------------------------------------------------------------------
(***************************************************************************)
(* The upstream and the wire                                               *)
(***************************************************************************)
FaultyGivesUp(c) == [call[c] EXCEPT !.pc = IF @ = "sent" /\ call[c].tries = 1 THEN "admitted" ELSE "done"]  \* fault: a lost answer is asked for again

\* No answer, or one that is no session loss, is not tried again.
GivesUp(c) == [call[c] EXCEPT !.pc = "done"]

\* The upstream runs the tool, and its answer arrives or does not.
Run(c) ==
  /\ call[c].pc = "sent" /\ call[c].gen \in alive[call[c].on]
  /\ ran' = [ran EXCEPT ![c] = @ + 1]
  /\ call' = [call EXCEPT ![c] = GivesUp(c)]
  /\ UNCHANGED <<pool, client, alive, doubled>>

\* A timeout, an abort or a transport failure before the upstream ran it.
Fail(c) ==
  /\ call[c].pc = "sent"
  /\ call' = [call EXCEPT ![c] = GivesUp(c)]
  /\ UNCHANGED <<pool, client, world>>

\* The upstream restarts, expires sessions or gets a late DELETE.
Forget(i) ==
  /\ \E kept \in SUBSET alive[i] :
       /\ kept # alive[i]
       /\ alive' = [alive EXCEPT ![i] = kept]
  /\ UNCHANGED <<pool, client, call, ran, doubled>>

Flights == {"opening", "reopening"}

Handshake(i, flight) == Connect(i, flight) \/ ConnectFails(i, flight)

\* What becomes of a call once it is made.
Progress(c) == TimerFires(c) \/ Finish(c) \/ Enter(c) \/ Lost(c) \/ Run(c) \/ Fail(c)

Next ==
  \/ \E c \in Calls : Lease(c) \/ Drop(c) \/ Ask(c) \/ Progress(c)
  \/ \E i \in Clients : Age(i) \/ Forget(i) \/ \E flight \in Flights : Handshake(i, flight)
  \/ Sweep \/ Close

Spec == Init /\ [][Next]_vars

-----------------------------------------------------------------------------
(***************************************************************************)
(* Properties                                                              *)
(***************************************************************************)
\* No count of permits leaves 0..Limit, an inert release included.
TypeOK ==
  /\ pool \in Pool
  /\ client \in [Clients -> Client]
  /\ call \in [Calls -> Call]
  /\ alive \in [Clients -> SUBSET Gens]
  /\ ran \in [Calls -> 0..2]
  /\ doubled \subseteq Clients

\* Whoever is inside a client's semaphore, and whoever waits for it.
Inside(i) == {c \in Calls : call[c].on = i /\ call[c].permit = "real"}

Gate == INSTANCE BoundedQueue WITH
  Gates  <- Clients,
  inside <- [i \in Clients |-> Inside(i)],
  line   <- [i \in Clients |-> client[i].line],
  thrown <- [i \in Clients |-> client[i].thrown]

\* Every client's semaphore is a bounded FIFO queue, through timers, transfers,
\* shutdown and clients swept and replaced.
GateIsFair == Gate!Spec

\* At most Limit requests are at the upstream at once, counted over the
\* clients of before and after a sweep, until shutdown opens the semaphores.
UpstreamBounded ==
  ~pool.closed => Cardinality({c \in Calls : call[c].pc = "sent"}) <= Limit

\* A tool runs at most once for a call: only a request the upstream refused
\* unseen is repeated.
RunsOnce == \A c \in Calls : ran[c] <= 1

\* A client loses sight of no session it was given: what the upstream keeps is
\* the session in use, or one whose handshake or DELETE failed.  So calls that
\* lose a session together reopen one; except where a reopen began beside a
\* first handshake, which needs a failed handshake before (SessionsAreKept).
NoneStranded ==
  \A i \in Clients \ doubled : alive[i] \subseteq {client[i].session} \cup client[i].left

\* Nobody waits in vain: who is in line waits while every permit of that
\* semaphore is in use by a call that was made, and who awaits a handshake
\* awaits one that is in flight, which nobody but those awaits.
NoneWaitsInVain ==
  /\ \A c \in Calls : call[c].pc = "queued" =>
       LET i == call[c].on IN
       /\ ~client[i].thrown /\ Cardinality(Inside(i)) = Limit
       /\ \A d \in Inside(i) : call[d].pc \notin {"idle", "leased", "queued"}
  /\ \A i \in Clients, flight \in Flights : client[i][flight] <=> Awaiting(i, flight) # {}

\* The same without the exception, as the comment in ensureOpen has it
\* ("racing the reopen's handshake, with the loser's session dropped
\* unterminated at the upstream").
SessionsAreKept ==
  \A i \in Clients : alive[i] \subseteq {client[i].session} \cup client[i].left
=============================================================================
