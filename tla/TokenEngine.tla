----------------------------- MODULE TokenEngine -----------------------------
(***************************************************************************)
(* Live access tokens for the OAuth upstreams of the tool proxy: the token *)
(* engine (packages/proxy/src/token-engine.ts), the grant records it reads *)
(* and rotates (token-store.ts), the refresh exchange (outbound.ts), the   *)
(* grant command that writes the same file from another process, and the   *)
(* authorization server, which retires a refresh token when it rotates it. *)
(*                                                                         *)
(* The proxy is one event loop: an action is what it does between two      *)
(* awaits.  A refresh token is a lineage, the grant it descends from, and  *)
(* its place in it.  An access token is the number of its exchange.  The   *)
(* store's own failures (unreadable, tampered, too large) are one failure, *)
(* as are those of an exchange that is not `invalid_grant'.                *)
(***************************************************************************)
EXTENDS Integers, FiniteSets

CONSTANTS
  Names,         \* credential names, each with one binding in the sheets
  Callers,       \* requests in the dispatcher at once
  Uses,          \* [Callers -> the credentials its requests may need]
  MaxGrants,     \* bound: grants made in a behaviour
  MaxExchanges   \* bound: exchanges the issuer answers with a token

ASSUME EngineAssumption ==
  /\ IsFiniteSet(Names) /\ Names # {} /\ IsFiniteSet(Callers)
  /\ Uses \in [Callers -> SUBSET Names]
  /\ MaxGrants \in Nat /\ MaxExchanges \in Nat

Lines == 1..MaxGrants
None  == 0

VARIABLES
  file,      \* [Names -> the record in the store's file]
  grantor,   \* the grant command: the record it is to write and what it read
  grants,    \* grants made so far
  issuer,    \* [Lines -> the place the issuer honours; 0 when revoked]
  exchanges, \* exchanges answered with a token
  tokens,    \* [Names -> the engine's cached entry]
  flight,    \* [Names -> the exchange in flight (minting)]
  caller,    \* [Callers -> the request]
  broken,    \* lineages that were revoked, or whose last token was lost on its way
  undone     \* lineages whose rotation a grant of another name wrote over

vars == <<file, grantor, grants, issuer, exchanges, tokens, flight, caller, broken, undone>>
world == <<grantor, grants>>

-----------------------------------------------------------------------------
(***************************************************************************)
(* Types and initial state                                                 *)
(***************************************************************************)
\* binds: issuer and scopes are what the sheet declares (grantBindingHolds).
Record == [line : {None} \cup Lines, seq : 0..MaxExchanges + 1, binds : BOOLEAN]
Absent == [line |-> None, seq |-> 0, binds |-> FALSE]

\* id: the exchange that minted it, None when nothing is cached; line and seq:
\* the refresh token the issuer left in force by that exchange.
Entry == [id : 0..MaxExchanges, gen : 0..MaxExchanges, live : BOOLEAN,
          line : {None} \cup Lines, seq : 0..MaxExchanges + 1]
Empty == [id |-> None, gen |-> 0, live |-> FALSE, line |-> None, seq |-> 0]

\* spent: the refresh token presented; next: the one in force after it.
Flight == [pc : {"none", "asking", "answered", "refused", "writing"},
           line : {None} \cup Lines, spent : 0..MaxExchanges + 1,
           next : 0..MaxExchanges + 1, id : 0..MaxExchanges,
           read : [Names -> Record]]
NoRead == [n \in Names |-> Absent]
NoFlight == [pc |-> "none", line |-> None, spent |-> 0, next |-> 0, id |-> None, read |-> NoRead]

Waiting == {"leasing", "acquiring", "refreshing"}

\* id, gen: the token in hand; old: the one the upstream rejected.
Request == [pc : Waiting \cup {"idle", "leased", "calling", "retrying"},
            name : Names, id : 0..MaxExchanges, gen : 0..MaxExchanges, old : 0..MaxExchanges]
Idle == [pc |-> "idle", name |-> CHOOSE n \in Names : TRUE, id |-> None, gen |-> 0, old |-> None]

Grantor == [name : Names, binds : BOOLEAN, read : [Names -> Record]]
NoGrantor == [name |-> CHOOSE n \in Names : TRUE, binds |-> FALSE, read |-> NoRead]

TypeOK ==
  /\ file \in [Names -> Record]
  /\ grantor \in [running : BOOLEAN, job : Grantor]
  /\ grants \in 0..MaxGrants
  /\ issuer \in [Lines -> 0..MaxExchanges + 1]
  /\ exchanges \in 0..MaxExchanges
  /\ tokens \in [Names -> Entry]
  /\ flight \in [Names -> Flight]
  /\ caller \in [Callers -> Request]
  /\ broken \subseteq Lines /\ undone \subseteq Lines

Init ==
  /\ file = NoRead
  /\ grantor = [running |-> FALSE, job |-> NoGrantor]
  /\ grants = 0
  /\ issuer = [l \in Lines |-> 0]
  /\ exchanges = 0
  /\ tokens = [n \in Names |-> Empty]
  /\ flight = [n \in Names |-> NoFlight]
  /\ caller = [c \in Callers |-> Idle]
  /\ broken = {} /\ undone = {}

-----------------------------------------------------------------------------
(***************************************************************************)
(* The single flight                                                       *)
(***************************************************************************)
\* The store's write reads the file and replaces it in one synchronous
\* stretch: the proxy does nothing else meanwhile, other processes may.
Blocked == \E n \in Names : flight[n].pc = "writing"

FaultyInFlight(n) == FALSE  \* fault: every caller that needs a mint starts one

InFlight(n) == flight[n].pc # "none"

\* mint: join the exchange in flight, or read the grant and start one; q is the
\* request as it waits.  A grant that is absent, bound to something else or
\* unreadable fails the flight before anybody else can join it.
MintFor(c, q) ==
  LET n == q.name
      start == [NoFlight EXCEPT !.pc = "asking", !.line = file[n].line,
                                !.spent = file[n].seq, !.next = file[n].seq]
  IN
  \/ /\ InFlight(n)
     /\ caller' = [caller EXCEPT ![c] = q]
     /\ UNCHANGED flight
  \/ /\ ~InFlight(n)
     /\ file[n].binds
     /\ flight' = [flight EXCEPT ![n] = start]
     /\ caller' = [caller EXCEPT ![c] = q]
  \/ /\ ~InFlight(n)
     /\ caller' = [caller EXCEPT ![c] = Idle]
     /\ UNCHANGED flight

Holding(q, e) == [q EXCEPT !.id = e.id, !.gen = e.gen]

\* What a settled flight does to those who awaited it: a lease goes on to the
\* pool, an acquire to the upstream, a refresh to its retry; a failure ends
\* each of them.
WithToken(q, e) ==
  CASE q.pc = "leasing"    -> [q EXCEPT !.pc = "leased"]
    [] q.pc = "acquiring"  -> [Holding(q, e) EXCEPT !.pc = "calling"]
    [] q.pc = "refreshing" -> [Holding(q, e) EXCEPT !.pc = "retrying"]

Awaits(c, n) == caller[c].pc \in Waiting /\ caller[c].name = n

Deliver(n, e) ==
  caller' = [c \in Callers |-> IF Awaits(c, n) THEN WithToken(caller[c], e) ELSE caller[c]]

FaultyFailFlight(n) ==  \* fault: the failed flight stays in the map
  UNCHANGED <<flight, caller>>

FailFlight(n) ==
  /\ flight' = [flight EXCEPT ![n] = NoFlight]
  /\ caller' = [c \in Callers |-> IF Awaits(c, n) THEN Idle ELSE caller[c]]

\* The successful end of a flight: cache the token under the next generation.
Minted(n) ==
  LET f == flight[n]
      e == [id |-> f.id, gen |-> tokens[n].gen + 1, live |-> TRUE,
            line |-> f.line, seq |-> f.next]
  IN
  /\ tokens' = [tokens EXCEPT ![n] = e]
  /\ flight' = [flight EXCEPT ![n] = NoFlight]
  /\ Deliver(n, e)

-----------------------------------------------------------------------------
(***************************************************************************)
(* A dispatch: the pre-flight lease, then the guarded fetch, which takes a *)
(* token, and on a 401 asks for a newer one and retries once.              *)
(***************************************************************************)
Untouched == UNCHANGED <<file, world, issuer, exchanges, tokens, broken, undone>>

Lease(c, n) ==
  LET q == [Idle EXCEPT !.name = n] IN
  /\ ~Blocked
  /\ caller[c].pc = "idle" /\ n \in Uses[c]
  /\ IF tokens[n].live
     THEN caller' = [caller EXCEPT ![c] = [q EXCEPT !.pc = "leased"]] /\ UNCHANGED flight
     ELSE MintFor(c, [q EXCEPT !.pc = "leasing"])
  /\ Untouched

\* The catalog's source is built without a lease, and mints at its first fetch.
List(c, n) ==
  /\ ~Blocked
  /\ caller[c].pc = "idle" /\ n \in Uses[c]
  /\ caller' = [caller EXCEPT ![c] = [Idle EXCEPT !.pc = "leased", !.name = n]]
  /\ UNCHANGED flight
  /\ Untouched

\* The cached token may have gone stale, or been dropped, since the lease.
Acquire(c) ==
  LET q == caller[c] IN
  /\ ~Blocked
  /\ q.pc = "leased"
  /\ IF tokens[q.name].live
     THEN /\ caller' = [caller EXCEPT ![c] = [Holding(q, tokens[q.name]) EXCEPT !.pc = "calling"]]
          /\ UNCHANGED flight
     ELSE MintFor(c, [q EXCEPT !.pc = "acquiring"])
  /\ Untouched

\* The upstream's answer, or no answer in time.
Served(c) ==
  /\ ~Blocked
  /\ caller[c].pc \in {"calling", "retrying"}
  /\ caller' = [caller EXCEPT ![c] = Idle]
  /\ UNCHANGED flight
  /\ Untouched

FaultySuperseded(q) ==  \* fault: the rejected generation counts as newer
  tokens[q.name].id # None /\ tokens[q.name].gen >= q.gen

\* refresh's generation check; the cached entry need not be live.
Superseded(q) == tokens[q.name].id # None /\ tokens[q.name].gen > q.gen

\* A 401: the generation check, then the newer token or a mint.
Rejected(c) ==
  LET r == [caller[c] EXCEPT !.old = caller[c].id, !.pc = "refreshing"] IN
  /\ ~Blocked
  /\ caller[c].pc = "calling"
  /\ IF Superseded(r)
     THEN caller' = [caller EXCEPT ![c] = [Holding(r, tokens[r.name]) EXCEPT !.pc = "retrying"]]
          /\ UNCHANGED flight
     ELSE MintFor(c, r)
  /\ Untouched

\* The clock reaches the margin before the token's expiry.
GoStale(n) ==
  /\ ~Blocked
  /\ tokens[n].live
  /\ tokens' = [tokens EXCEPT ![n].live = FALSE]
  /\ UNCHANGED <<file, world, issuer, exchanges, flight, caller, broken, undone>>

-----------------------------------------------------------------------------
(***************************************************************************)
(* The exchange: the issuer's answer, the rotation persisted, the token.   *)
(***************************************************************************)
At(n, pc) == flight[n].pc = pc /\ ~Blocked

Rotated(f) == f.next # f.spent

\* Discovery and the POST are one way to ask.  The authorization server honours
\* the one token of the lineage in force, and may rotate it.
IssuerGrants(n, rotates) ==
  LET f == flight[n]
      next == IF rotates THEN f.spent + 1 ELSE f.spent IN
  /\ f.pc = "asking"
  /\ exchanges < MaxExchanges
  /\ issuer[f.line] = f.spent
  /\ exchanges' = exchanges + 1
  /\ issuer' = [issuer EXCEPT ![f.line] = next]
  /\ flight' = [flight EXCEPT ![n].pc = "answered", ![n].next = next, ![n].id = exchanges + 1]
  /\ UNCHANGED <<file, world, tokens, caller, broken, undone>>

\* It refuses any other; reuse detection may revoke the lineage with it.
IssuerRefuses(n, revokes) ==
  LET f == flight[n] IN
  /\ f.pc = "asking"
  /\ issuer[f.line] # f.spent
  /\ issuer' = IF revokes THEN [issuer EXCEPT ![f.line] = 0] ELSE issuer
  /\ flight' = [flight EXCEPT ![n].pc = "refused"]
  /\ UNCHANGED <<file, world, exchanges, tokens, caller, broken, undone>>

\* No token out of the exchange: timed out, unreachable, another error, or a
\* malformed answer, before the issuer looked or after it rotated.
ExchangeFails(n) ==
  /\ flight[n].pc \in {"asking", "answered", "refused"} /\ ~Blocked
  /\ broken' = IF Rotated(flight[n]) THEN broken \cup {flight[n].line} ELSE broken
  /\ FailFlight(n)
  /\ UNCHANGED <<file, world, issuer, exchanges, tokens, undone>>

\* invalid_grant: the cached token is dropped, and its generation with it.
InvalidGrant(n) ==
  /\ At(n, "refused")
  /\ tokens' = [tokens EXCEPT ![n] = Empty]
  /\ FailFlight(n)
  /\ UNCHANGED <<file, world, issuer, exchanges, broken, undone>>

\* An answer that did not rotate is a token at once.
Receive(n) ==
  /\ At(n, "answered")
  /\ ~Rotated(flight[n])
  /\ Minted(n)
  /\ UNCHANGED <<file, world, issuer, exchanges, broken, undone>>

\* One that did goes to the store first: rotate reads the file afresh.
ReadForRotation(n) ==
  /\ At(n, "answered")
  /\ Rotated(flight[n])
  /\ flight' = [flight EXCEPT ![n].pc = "writing", ![n].read = file]
  /\ UNCHANGED <<file, world, issuer, exchanges, tokens, caller, broken, undone>>

\* The record keeps its other fields; only the refresh token is new.
Merged(read, n, f) == [read EXCEPT ![n].line = f.line, ![n].seq = f.next]

\* The file is replaced whole, unless the record read no longer binds: the
\* rotation is then dropped.  Either way the exchange has its token.
WriteRotation(n) ==
  LET f == flight[n] IN
  /\ f.pc = "writing"
  /\ IF f.read[n].binds
     THEN file' = Merged(f.read, n, f) /\ UNCHANGED broken
     ELSE broken' = broken \cup {f.line} /\ UNCHANGED file
  /\ Minted(n)
  /\ UNCHANGED <<world, issuer, exchanges, undone>>

FaultyUnpersisted(n) == Minted(n)  \* fault: the failed write is swallowed

\* rotation_unpersisted: no token out of this exchange, the cached one stays.
Unpersisted(n) == FailFlight(n) /\ UNCHANGED tokens

\* The write throws; the file is as it was.
RotationFails(n) ==
  /\ flight[n].pc = "writing"
  /\ broken' = broken \cup {flight[n].line}
  /\ Unpersisted(n)
  /\ UNCHANGED <<file, world, issuer, exchanges, undone>>

-----------------------------------------------------------------------------
(***************************************************************************)
(* The grant command, in a process of its own, and what may befall         *)
(***************************************************************************)
\* A person completes a grant: the issuer opens a lineage, and putGrant reads
\* the file.  It is for the issuer and scopes of the sheet, or for others.
GrantReads(n, binds) ==
  /\ ~grantor.running
  /\ grants < MaxGrants
  /\ grants' = grants + 1
  /\ issuer' = [issuer EXCEPT ![grants + 1] = 1]
  /\ grantor' = [running |-> TRUE, job |-> [name |-> n, binds |-> binds, read |-> file]]
  /\ UNCHANGED <<file, exchanges, tokens, flight, caller, broken, undone>>

\* putGrant replaces the file by what it read with its one entry in it.  A
\* rotation of another name written since is gone from the file.
GrantWrites ==
  LET job == grantor.job
      over == {m \in Names \ {job.name} : file[m] # job.read[m]} IN
  /\ grantor.running
  /\ file' = [job.read EXCEPT ![job.name] = [line |-> grants, seq |-> 1, binds |-> job.binds]]
  /\ undone' = undone \cup {job.read[m].line : m \in over}
  /\ grantor' = [running |-> FALSE, job |-> NoGrantor]
  /\ UNCHANGED <<grants, issuer, exchanges, tokens, flight, caller, broken>>

\* Someone revokes a grant at the issuer.
Revoke(l) ==
  /\ issuer[l] # 0
  /\ issuer' = [issuer EXCEPT ![l] = 0]
  /\ broken' = broken \cup {l}
  /\ UNCHANGED <<file, world, exchanges, tokens, flight, caller, undone>>

\* Tokens live in memory only.  A rotation on its way to the file dies too.
Restart ==
  /\ tokens' = [n \in Names |-> Empty]
  /\ flight' = [n \in Names |-> NoFlight]
  /\ caller' = [c \in Callers |-> Idle]
  /\ broken' = broken \cup {flight[n].line : n \in {m \in Names : Rotated(flight[m])}}
  /\ UNCHANGED <<file, world, issuer, exchanges, undone>>

Exchange(n) ==
  \/ ExchangeFails(n) \/ InvalidGrant(n)
  \/ \E b \in BOOLEAN : IssuerGrants(n, b) \/ IssuerRefuses(n, b)
  \/ Receive(n) \/ ReadForRotation(n) \/ WriteRotation(n) \/ RotationFails(n)

Serve(c) == Acquire(c) \/ Served(c) \/ Rejected(c)

Next ==
  \/ \E c \in Callers, n \in Names : Lease(c, n) \/ List(c, n)
  \/ \E c \in Callers : Serve(c)
  \/ \E n \in Names : Exchange(n) \/ GoStale(n)
  \/ \E n \in Names, b \in BOOLEAN : GrantReads(n, b)
  \/ GrantWrites
  \/ \E l \in Lines : Revoke(l)
  \/ Restart

\* The exchange and the call have deadlines, and Node runs what is ready.
Fairness ==
  /\ \A n \in Names : WF_vars(Exchange(n))
  /\ \A c \in Callers : WF_vars(Serve(c))

Spec == Init /\ [][Next]_vars /\ Fairness

-----------------------------------------------------------------------------
(***************************************************************************)
(* Properties                                                              *)
(***************************************************************************)
\* The issuer refuses a refresh token only where the grant was revoked, the
\* last token of it was lost before the file had it, or the grant command
\* wrote over it: two exchanges never spend one token, and what the engine
\* presents is what the last rotation left (the single flight of
\* token-engine.ts, the fresh read of token-store.ts's write).
RefusedForCause ==
  \A n \in Names : flight[n].pc = "refused" => flight[n].line \in broken \cup undone

\* Rotation is persisted before the successor is used: the file holds the
\* refresh token that goes with the access token in hand, or a later one of
\* its grant, or another grant, whatever write, answer or process fails; only
\* the grant command's own write of another name can take it away again.
PersistedBeforeUse ==
  \A n \in Names :
    tokens[n].id # None /\ file[n].line = tokens[n].line /\ tokens[n].line \notin undone
    => file[n].seq >= tokens[n].seq

\* The retry of a 401 carries a token minted after the one refused, whether it
\* was handed over, minted, or came out of a flight another request started.
RetryIsNewer == \A c \in Callers : caller[c].pc = "retrying" => caller[c].id > caller[c].old

\* Nobody waits on an exchange that is not there, so every request is answered
\* or dies with the process: a failed flight is not memoized.
RequestsAreAnswered == \A c \in Callers : caller[c].pc # "idle" ~> caller[c].pc = "idle"

\* A request waits exactly while an exchange of its name is in flight: nobody
\* waits on a flight that is gone (the `finally' that clears the map clears it
\* for all who joined), and no flight outlives those who asked for it.
FlightsAreAwaited == \A n \in Names : InFlight(n) <=> \E c \in Callers : Awaits(c, n)

\* What token-store.ts says of a rotation whose record was replaced mid-flight:
\* it is dropped.  Where the write's fresh read saw a later grant than the one
\* the exchange spent, and nothing came between that read and the replace, the
\* later grant is then in the file after it.
RegrantStands ==
  [][\A n \in Names :
       flight[n].pc = "writing" /\ flight[n].read = file /\ flight'[n].pc = "none"
       => file'[n].line >= file[n].line]_vars
=============================================================================
