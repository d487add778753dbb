-------------------------- MODULE TokenEngineProofs --------------------------
(***************************************************************************)
(* Proofs of the safety properties of TokenEngine for any names, callers   *)
(* and bounds: the types, RetryIsNewer, PersistedBeforeUse and             *)
(* RefusedForCause; that requests wait exactly for what is in flight; and  *)
(* when RegrantStands, which TLC refutes, holds.                           *)
(*                                                                         *)
(* A lineage lives in four kinds of places: the file, the flight of its    *)
(* name, what a rotation read and what the grant command read.  The        *)
(* invariant says that a lineage belongs to one name wherever it is        *)
(* (Lineages), that a copy of the file holds no more than the file did     *)
(* (Copies), how exchanges number the tokens (Numbers), that whatever      *)
(* could be written back is as new as the token that goes with it          *)
(* (Persisted), and that it is what the issuer honours (Honoured), each    *)
(* up to the lineages that were broken or undone.                          *)
(***************************************************************************)
EXTENDS TokenEngine, TLAPS

-----------------------------------------------------------------------------
(***************************************************************************)
(* The inductive invariant                                                 *)
(***************************************************************************)
Read == grantor.job.read

Writing(n) == flight[n].pc = "writing"

\* The issuer has answered with a token that is not the engine's yet.
Due(n) == flight[n].pc \in {"answered", "writing"}

Sound(X) == \A n \in Names : X[n].line = None => X[n] = Absent

\* A name holds a lineage in one of the four places.
Has(n, l) ==
  /\ l # None
  /\ \/ file[n].line = l
     \/ flight[n].line = l
     \/ Read[n].line = l
     \/ \E k \in Names : flight[k].read[n].line = l

\* Lineages that are in use: the one a grant is about to write is not.
Used == IF grantor.running THEN grants - 1 ELSE grants

Flights ==
  /\ \A n \in Names :
       /\ flight[n].pc = "none" => flight[n] = NoFlight
       /\ flight[n].pc # "none" => flight[n].line \in Lines
       /\ ~Due(n) => flight[n].next = flight[n].spent
       /\ Due(n) => flight[n].id # None
  /\ \A n, m \in Names : Writing(n) /\ Writing(m) => n = m

Lineages ==
  /\ grantor.running => grants > 0
  /\ \A n, m \in Names, l \in Lines : Has(n, l) /\ Has(m, l) => n = m
  /\ \A n \in Names, l \in Lines : Has(n, l) => l <= Used
  /\ \A n \in Names : tokens[n].line <= Used

Copies ==
  /\ Sound(file) /\ Sound(Read) /\ \A k \in Names : Sound(flight[k].read)
  /\ grantor.running =>
       \A n \in Names : Read[n].line = None => file[n].line = None
  /\ \A k, n \in Names :
       Writing(k) => (file[n].line = None => flight[k].read[n].line = None)

Numbers ==
  /\ \A l \in Lines : issuer[l] <= exchanges + 1
  /\ \A n \in Names : tokens[n].gen <= tokens[n].id /\ tokens[n].id <= exchanges
  /\ \A n \in Names : flight[n].id <= exchanges
  /\ \A n \in Names : Due(n) => tokens[n].id < flight[n].id
  /\ \A c \in Callers : caller[c].id <= exchanges

Requests ==
  \A c \in Callers :
    LET q == caller[c] IN
    /\ Due(q.name) => q.id < flight[q.name].id
    /\ q.pc = "refreshing" => q.old = q.id
    /\ q.pc = "calling" /\ Superseded(q) => q.id < tokens[q.name].id
    /\ q.pc = "retrying" => q.old < q.id

\* Name n's record in X, where it is of this lineage, is as new as seq.
AsNew(X, n, line, seq) ==
  X[n].line = line /\ line \notin undone => X[n].seq >= seq /\ X[n].binds

KeepsUp(X, n) ==
  /\ tokens[n].id # None => AsNew(X, n, tokens[n].line, tokens[n].seq)
  /\ flight[n].pc # "none" => AsNew(X, n, flight[n].line, flight[n].spent)

Persisted ==
  /\ \A n \in Names : KeepsUp(file, n)
  /\ \A k, n \in Names : Writing(k) => KeepsUp(flight[k].read, n)
  /\ \A n \in Names :
       Writing(n) /\ file[n].line = flight[n].line /\ flight[n].line \notin undone
       => flight[n].read[n] = file[n]

Lost == broken \cup undone

\* Name n's record in X is the one the issuer honours, or the one whose
\* successor is on its way.
Current(X, n) ==
  \/ X[n].line \in {None} \cup Lost
  \/ issuer[X[n].line] = X[n].seq
  \/ Due(n) /\ flight[n].line = X[n].line /\ flight[n].spent = X[n].seq

Honoured ==
  /\ \A n \in Names :
       /\ Current(file, n)
       /\ flight[n].pc = "asking" /\ flight[n].line \notin Lost
          => issuer[flight[n].line] = flight[n].spent
       /\ Due(n) /\ flight[n].line \notin Lost => issuer[flight[n].line] = flight[n].next
       /\ flight[n].pc = "refused" => flight[n].line \in Lost
  /\ \A k, n \in Names : Writing(k) => Current(flight[k].read, n)
  /\ grantor.running /\ grants \notin broken => issuer[grants] = 1

IInv ==
  TypeOK /\ Flights /\ Lineages /\ Copies /\ Numbers /\ Requests /\ Persisted /\ Honoured

-----------------------------------------------------------------------------
(***************************************************************************)
(* Types                                                                   *)
(***************************************************************************)
LEMMA ConstantTypes ==
  /\ Absent \in Record /\ NoRead \in [Names -> Record] /\ Empty \in Entry
  /\ NoFlight \in Flight /\ Idle \in Request /\ NoGrantor \in Grantor
<1>1. Absent \in Record /\ Empty \in Entry
  BY EngineAssumption DEF Absent, Record, Empty, Entry, None, Lines
<1>2. NoRead \in [Names -> Record]
  BY <1>1 DEF NoRead
<1>3. NoFlight \in Flight
  BY <1>2, EngineAssumption DEF NoFlight, Flight, None, Lines
<1>4. (CHOOSE n \in Names : TRUE) \in Names
  BY EngineAssumption
<1>5. Idle \in Request
  BY <1>4, EngineAssumption DEF Idle, Request, None
<1>6. NoGrantor \in Grantor
  BY <1>2, <1>4 DEF NoGrantor, Grantor
<1> QED BY <1>1, <1>2, <1>3, <1>5, <1>6

\* The flight of a name that has asked the issuer for a token.
Started(n) ==
  [NoFlight EXCEPT !.pc = "asking", !.line = file[n].line,
                   !.spent = file[n].seq, !.next = file[n].seq]

\* What a step of a request does to the flights: join one, or start one.
Asks(n) ==
  \/ flight' = flight
  \/ /\ flight[n].pc = "none" /\ file[n].binds
     /\ flight' = [flight EXCEPT ![n] = Started(n)]

\* A request's step: it moves on to q, with what a flight it started.
Moves(c, q) ==
  /\ ~Blocked /\ Untouched /\ Asks(q.name)
  /\ caller' = [caller EXCEPT ![c] = q]

\* What q may be: a request without a token, with the token it had, or with
\* the one that is cached.
Moved(c, q) ==
  /\ q \in Request
  /\ \/ q.id = None
     \/ q.id = caller[c].id /\ q.name = caller[c].name
     \/ q.id = tokens[q.name].id
  /\ q.pc = "calling" => q.id = tokens[q.name].id /\ q.gen = tokens[q.name].gen
  /\ q.pc = "refreshing" => q.old = q.id
  /\ q.pc = "retrying" =>
       /\ caller[c].pc = "calling" /\ Superseded(caller[c])
       /\ q.name = caller[c].name /\ q.old = caller[c].id /\ q.id = tokens[q.name].id

\* A request that comes to mint moves on: joined, started or failed.
LEMMA MintMoves ==
  ASSUME TypeOK, NEW c \in Callers, NEW q \in Request, Moved(c, q),
         ~Blocked, Untouched, MintFor(c, q)
  PROVE  \E r : Moved(c, r) /\ Moves(c, r)
<1>1. \/ Asks(q.name) /\ caller' = [caller EXCEPT ![c] = q]
      \/ flight' = flight /\ caller' = [caller EXCEPT ![c] = Idle]
  BY DEF MintFor, Asks, InFlight, Started
<1>2. CASE Asks(q.name) /\ caller' = [caller EXCEPT ![c] = q]
  BY <1>2 DEF Moves
<1>3. CASE flight' = flight /\ caller' = [caller EXCEPT ![c] = Idle]
  <2>1. Moved(c, Idle)
    BY ConstantTypes DEF Moved, Idle
  <2> QED BY <1>3, <2>1 DEF Moves, Asks
<1> QED BY <1>1, <1>2, <1>3

\* Every step of a request is such a move.
LEMMA RequestMoves ==
  ASSUME TypeOK, NEW c \in Callers,
         Serve(c) \/ \E n \in Names : Lease(c, n) \/ List(c, n)
  PROVE  \E q : Moved(c, q) /\ Moves(c, q)
<1> USE DEF Moved, Moves, Asks
<1>0. caller[c] \in Request /\ \A n \in Names : tokens[n] \in Entry
  BY DEF TypeOK
<1>a. Idle \in Request
  BY ConstantTypes
<1>1. ASSUME NEW n \in Names, Lease(c, n) PROVE \E q : Moved(c, q) /\ Moves(c, q)
  <2> DEFINE q == [Idle EXCEPT !.name = n]
             lq == [q EXCEPT !.pc = "leased"]
             mq == [q EXCEPT !.pc = "leasing"]
  <2>1. Moved(c, lq) /\ Moved(c, mq)
    BY <1>a DEF Request, Idle, Waiting
  <2>2. CASE tokens[n].live
    BY <1>1, <2>1, <2>2 DEF Lease
  <2>3. CASE ~tokens[n].live
    BY <1>1, <2>1, <2>3, MintMoves DEF Lease, Request
  <2> QED BY <2>2, <2>3
<1>2. ASSUME NEW n \in Names, List(c, n) PROVE \E q : Moved(c, q) /\ Moves(c, q)
  <2> DEFINE lq == [Idle EXCEPT !.pc = "leased", !.name = n]
  <2>1. Moved(c, lq)
    BY <1>a DEF Request, Idle, Waiting
  <2> QED BY <1>2, <2>1 DEF List
<1>3. ASSUME Acquire(c) PROVE \E q : Moved(c, q) /\ Moves(c, q)
  <2> DEFINE q == caller[c]
             lq == [Holding(q, tokens[q.name]) EXCEPT !.pc = "calling"]
             mq == [q EXCEPT !.pc = "acquiring"]
  <2>1. Moved(c, lq) /\ Moved(c, mq)
    BY <1>0 DEF Request, Waiting, Holding, Entry
  <2>2. CASE tokens[q.name].live
    BY <1>3, <2>1, <2>2 DEF Acquire
  <2>3. CASE ~tokens[q.name].live
    BY <1>3, <2>1, <2>3, MintMoves DEF Acquire, Request
  <2> QED BY <2>2, <2>3
<1>4. ASSUME Served(c) PROVE \E q : Moved(c, q) /\ Moves(c, q)
  <2>1. Moved(c, Idle)
    BY <1>a DEF Idle
  <2> QED BY <1>4, <2>1 DEF Served
<1>5. ASSUME Rejected(c) PROVE \E q : Moved(c, q) /\ Moves(c, q)
  <2> DEFINE r == [caller[c] EXCEPT !.old = caller[c].id, !.pc = "refreshing"]
             lq == [Holding(r, tokens[r.name]) EXCEPT !.pc = "retrying"]
  <2>1. r \in Request /\ lq \in Request /\ r.name = caller[c].name /\ r.gen = caller[c].gen
    BY <1>0 DEF Request, Waiting, Holding, Entry
  <2>2. Superseded(r) = Superseded(caller[c])
    BY <2>1 DEF Superseded
  <2>3. CASE Superseded(r)
    <3>1. Moved(c, lq)
      BY <1>0, <1>5, <2>1, <2>2, <2>3 DEF Request, Holding, Rejected
    <3> QED BY <1>5, <2>3, <3>1 DEF Rejected
  <2>4. CASE ~Superseded(r)
    <3>1. Moved(c, r)
      BY <1>0, <2>1 DEF Request
    <3> QED BY <1>5, <2>1, <2>4, <3>1, MintMoves DEF Rejected
  <2> QED BY <2>3, <2>4
<1> QED BY <1>1, <1>2, <1>3, <1>4, <1>5 DEF Serve

\* A flight that starts is a flight.
LEMMA StartedType == ASSUME TypeOK, NEW n \in Names PROVE Started(n) \in Flight
BY ConstantTypes DEF TypeOK, Started, NoFlight, Flight, Record

\* The token that goes with a settled flight, and those who get it.
Token(n) ==
  [id |-> flight[n].id, gen |-> tokens[n].gen + 1, live |-> TRUE,
   line |-> flight[n].line, seq |-> flight[n].next]

\* The token of a settled flight is an entry, its generation within the bound.
LEMMA TokenType ==
  ASSUME TypeOK, Flights, Numbers, NEW n \in Names, Due(n)
  PROVE  Token(n) \in Entry
<1>1. flight[n] \in Flight /\ tokens[n] \in Entry /\ exchanges \in 0..MaxExchanges
  BY DEF TypeOK
<1>2. tokens[n].gen <= tokens[n].id /\ tokens[n].id < flight[n].id
  BY DEF Numbers
<1> QED BY <1>1, <1>2, EngineAssumption DEF Token, Entry, Flight

\* Those who get the token are requests still.
LEMMA DeliverType ==
  ASSUME TypeOK, NEW n \in Names, NEW e \in Entry, Deliver(n, e)
  PROVE  caller' \in [Callers -> Request]
<1> SUFFICES ASSUME NEW c \in Callers, Awaits(c, n)
             PROVE  WithToken(caller[c], e) \in Request
  BY DEF Deliver, TypeOK
<1>1. caller[c] \in Request /\ caller[c].pc \in Waiting
  BY DEF TypeOK, Awaits
<1> QED BY <1>1 DEF WithToken, Waiting, Holding, Request, Entry

\* So are those whose flight failed.
LEMMA FailType ==
  ASSUME TypeOK, NEW n \in Names, FailFlight(n)
  PROVE  flight' \in [Names -> Flight] /\ caller' \in [Callers -> Request]
BY ConstantTypes DEF TypeOK, FailFlight

\* A flight that rotated has a lineage.
LEMMA LineOfFlight ==
  ASSUME Flights, NEW n \in Names, Rotated(flight[n])
  PROVE  flight[n].line \in Lines
<1>1. flight[n].pc # "none"
  BY DEF Flights, NoFlight, Rotated
<1> QED BY <1>1 DEF Flights

\* Every step keeps the types.
LEMMA TypeStep == TypeOK /\ Flights /\ Lineages /\ Copies /\ Numbers /\ [Next]_vars => TypeOK'
<1> SUFFICES ASSUME TypeOK, Flights, Lineages, Copies, Numbers, [Next]_vars PROVE TypeOK'
  OBVIOUS
<1> USE EngineAssumption
<1>1. ASSUME NEW c \in Callers, Serve(c) \/ \E n \in Names : Lease(c, n) \/ List(c, n)
      PROVE  TypeOK'
  <2>1. PICK q : Moved(c, q) /\ Moves(c, q)
    BY <1>1, RequestMoves
  <2>2. q.name \in Names
    BY <2>1 DEF Moved, Request
  <2>3. flight' \in [Names -> Flight]
    BY <2>1, <2>2, StartedType DEF Moves, Asks, TypeOK
  <2> QED BY <2>1, <2>3 DEF Moved, Moves, Untouched, TypeOK, world
<1>2. ASSUME NEW n \in Names, ExchangeFails(n) \/ InvalidGrant(n) \/ RotationFails(n)
      PROVE  TypeOK'
  <2>1. FailFlight(n)
    BY <1>2 DEF ExchangeFails, InvalidGrant, RotationFails, Unpersisted
  <2>2. flight' \in [Names -> Flight] /\ caller' \in [Callers -> Request]
    BY <2>1, FailType
  <2>3. CASE InvalidGrant(n)
    BY <2>2, <2>3, ConstantTypes DEF InvalidGrant, TypeOK, world
  <2>4. CASE ExchangeFails(n)
    BY <2>2, <2>4, LineOfFlight DEF ExchangeFails, TypeOK, world
  <2>5. CASE RotationFails(n)
    BY <2>2, <2>5 DEF RotationFails, Unpersisted, TypeOK, Flights, world
  <2> QED BY <1>2, <2>3, <2>4, <2>5
<1>3. ASSUME NEW n \in Names, NEW b \in BOOLEAN, IssuerGrants(n, b) PROVE TypeOK'
  <2>1. flight[n] \in Flight /\ flight[n].line \in Lines /\ exchanges \in Nat
    BY <1>3 DEF TypeOK, Flights, IssuerGrants
  <2>2. flight[n].spent <= exchanges + 1 /\ exchanges < MaxExchanges
    BY <1>3, <2>1 DEF Numbers, IssuerGrants
  <2>3. flight[n].spent + 1 \in 0..MaxExchanges + 1 /\ exchanges + 1 \in 0..MaxExchanges
    BY <2>1, <2>2 DEF Flight
  <2> QED BY <1>3, <2>1, <2>3 DEF IssuerGrants, TypeOK, Flight, world
<1>4. ASSUME NEW n \in Names, NEW b \in BOOLEAN, IssuerRefuses(n, b) PROVE TypeOK'
  <2>1. flight[n] \in Flight /\ [flight[n] EXCEPT !.pc = "refused"] \in Flight
    BY DEF TypeOK, Flight
  <2>2. flight' = [flight EXCEPT ![n] = [flight[n] EXCEPT !.pc = "refused"]]
    BY <1>4 DEF IssuerRefuses
  <2>3. issuer' = issuer \/ issuer' = [issuer EXCEPT ![flight[n].line] = 0]
    BY <1>4 DEF IssuerRefuses
  <2>4. issuer' \in [Lines -> 0..MaxExchanges + 1] /\ flight' \in [Names -> Flight]
    BY <2>1, <2>2, <2>3 DEF TypeOK
  <2> QED BY <1>4, <2>4 DEF IssuerRefuses, TypeOK, world
<1>5. ASSUME NEW n \in Names, Receive(n) \/ WriteRotation(n) PROVE TypeOK'
  <2>1. Due(n) /\ Minted(n)
    BY <1>5 DEF Receive, WriteRotation, Due, At
  <2>2. Token(n) \in Entry /\ tokens' = [tokens EXCEPT ![n] = Token(n)]
    BY <2>1, TokenType DEF Minted, Token
  <2>3. caller' \in [Callers -> Request]
    BY <2>1, <2>2, DeliverType DEF Minted, Token
  <2>4. flight' \in [Names -> Flight] /\ tokens' \in [Names -> Entry]
    BY <2>1, <2>2, ConstantTypes DEF Minted, TypeOK
  <2>5. CASE Receive(n)
    BY <2>3, <2>4, <2>5 DEF Receive, TypeOK, world
  <2>6. CASE WriteRotation(n)
    <3>1. flight[n] \in Flight /\ flight[n].line \in Lines
      BY <2>6 DEF WriteRotation, TypeOK, Flights
    <3>2. Merged(flight[n].read, n, flight[n]) \in [Names -> Record]
      BY <3>1 DEF Merged, Flight, Record
    <3> QED BY <2>3, <2>4, <2>6, <3>1, <3>2 DEF WriteRotation, TypeOK, world
  <2> QED BY <1>5, <2>5, <2>6
<1>6. ASSUME NEW n \in Names, ReadForRotation(n) PROVE TypeOK'
  <2>1. /\ flight[n] \in Flight /\ file \in [Names -> Record]
        /\ flight' = [flight EXCEPT ![n] = [flight[n] EXCEPT !.pc = "writing", !.read = file]]
    BY <1>6 DEF ReadForRotation, TypeOK
  <2>2. [flight[n] EXCEPT !.pc = "writing", !.read = file] \in Flight
    BY <2>1 DEF Flight
  <2>3. flight' \in [Names -> Flight]
    BY <2>1, <2>2 DEF TypeOK
  <2> QED
    BY <1>6, <2>3 DEF ReadForRotation, TypeOK, world
<1>7. ASSUME NEW n \in Names, GoStale(n) PROVE TypeOK'
  BY <1>7 DEF GoStale, TypeOK, Entry, world
<1>8. ASSUME NEW n \in Names, NEW b \in BOOLEAN, GrantReads(n, b) PROVE TypeOK'
  <2>1. [name |-> n, binds |-> b, read |-> file] \in Grantor
    BY DEF Grantor, TypeOK
  <2>2. grants' = grants + 1 /\ grants \in 0..MaxGrants /\ grants < MaxGrants
    BY <1>8 DEF GrantReads, TypeOK
  <2>3. grants' \in 0..MaxGrants /\ 1 \in 0..MaxExchanges + 1
    BY <2>2
  <2>4. issuer' \in [Lines -> 0..MaxExchanges + 1]
    BY <1>8, <2>3 DEF GrantReads, TypeOK
  <2> QED BY <1>8, <2>1, <2>3, <2>4 DEF GrantReads, TypeOK
<1>9. ASSUME GrantWrites PROVE TypeOK'
  <2> DEFINE job == grantor.job
             over == {m \in Names \ {job.name} : file[m] # job.read[m]}
  <2>1. job \in Grantor /\ grants \in Lines
    BY <1>9 DEF GrantWrites, TypeOK, Lineages, Lines
  <2>2. [line |-> grants, seq |-> 1, binds |-> job.binds] \in Record
    BY <2>1 DEF Grantor, Record
  <2>3. file' \in [Names -> Record]
    BY <1>9, <2>1, <2>2 DEF GrantWrites, Grantor
  <2>4. ASSUME NEW m \in over PROVE job.read[m].line \in Lines
    <3>1. job.read[m] \in Record
      BY <2>1 DEF Grantor
    <3>2. job.read[m].line # None
      BY <1>9 DEF Copies, Sound, Read, GrantWrites
    <3> QED BY <3>1, <3>2 DEF Record
  <2>5. undone' \subseteq Lines
    BY <1>9, <2>4 DEF GrantWrites, TypeOK
  <2> QED BY <1>9, <2>3, <2>5, ConstantTypes DEF GrantWrites, TypeOK
<1>10. ASSUME NEW l \in Lines, Revoke(l) PROVE TypeOK'
  BY <1>10 DEF Revoke, TypeOK, world
<1>11. ASSUME Restart PROVE TypeOK'
  BY <1>11, ConstantTypes, LineOfFlight DEF Restart, TypeOK, world
<1>12. ASSUME UNCHANGED vars PROVE TypeOK'
  BY <1>12 DEF vars, TypeOK
<1> QED BY <1>1, <1>2, <1>3, <1>4, <1>5, <1>6, <1>7, <1>8, <1>9, <1>10, <1>11, <1>12
        DEF Next, Exchange

-----------------------------------------------------------------------------
(***************************************************************************)
(* The flights, and the lineages the names hold                            *)
(***************************************************************************)
\* A name whose record binds holds a lineage.
LEMMA BoundLine ==
  ASSUME TypeOK, NEW X \in [Names -> Record], Sound(X), NEW n \in Names, X[n].binds
  PROVE  X[n].line \in Lines
BY DEF Sound, Absent, Record

\* Every step keeps the flights in shape, and one write at a time.
LEMMA FlightsStep == TypeOK /\ Flights /\ Copies /\ [Next]_vars => Flights'
<1> SUFFICES ASSUME TypeOK, Flights, Copies, [Next]_vars PROVE Flights'
  OBVIOUS
<1> USE DEF Due, Writing
<1>0. \A n \in Names : flight[n] \in Flight /\ exchanges \in Nat
  BY DEF TypeOK
<1>1. ASSUME NEW c \in Callers, Serve(c) \/ \E n \in Names : Lease(c, n) \/ List(c, n)
      PROVE  Flights'
  <2>1. PICK q : Moved(c, q) /\ Moves(c, q)
    BY <1>1, RequestMoves
  <2>2. q.name \in Names
    BY <2>1 DEF Moved, Request
  <2>3. CASE flight' = flight
    BY <2>3 DEF Flights
  <2>4. CASE /\ flight[q.name].pc = "none" /\ file[q.name].binds
             /\ flight' = [flight EXCEPT ![q.name] = Started(q.name)]
    <3>1. file[q.name].line \in Lines
      BY <2>2, <2>4, BoundLine DEF TypeOK, Copies
    <3> QED BY <1>0, <2>2, <2>4, <3>1 DEF Flights, Started, NoFlight, TypeOK
  <2> QED BY <2>1, <2>3, <2>4 DEF Moves, Asks
<1>2. ASSUME NEW n \in Names,
             \/ ExchangeFails(n) \/ InvalidGrant(n) \/ RotationFails(n)
             \/ Receive(n) \/ WriteRotation(n)
      PROVE  Flights'
  <2>1. flight' = [flight EXCEPT ![n] = NoFlight]
    BY <1>2 DEF ExchangeFails, InvalidGrant, RotationFails, Unpersisted, FailFlight,
                Receive, WriteRotation, Minted
  <2> QED BY <1>0, <2>1 DEF Flights, NoFlight, TypeOK
<1>3. ASSUME NEW n \in Names, NEW b \in BOOLEAN, IssuerGrants(n, b) PROVE Flights'
  BY <1>0, <1>3 DEF IssuerGrants, Flights, TypeOK, None
<1>4. ASSUME NEW n \in Names, NEW b \in BOOLEAN, IssuerRefuses(n, b) PROVE Flights'
  BY <1>0, <1>4 DEF IssuerRefuses, Flights, TypeOK
<1>5. ASSUME NEW n \in Names, ReadForRotation(n) PROVE Flights'
  BY <1>0, <1>5 DEF ReadForRotation, At, Blocked, Flights, TypeOK
<1>6. ASSUME flight' = flight PROVE Flights'
  BY <1>6 DEF Flights
<1>7. ASSUME Restart PROVE Flights'
  BY <1>7 DEF Restart, Flights, NoFlight
<1> QED BY <1>1, <1>2, <1>3, <1>4, <1>5, <1>6, <1>7
        DEF Next, Exchange, GoStale, GrantReads, GrantWrites, Revoke, vars

\* Only the grant command brings a lineage to a name.
LEMMA HasStep ==
  ASSUME TypeOK, Flights, [Next]_vars, NEW n \in Names, NEW l \in Lines, Has(n, l)'
  PROVE  Has(n, l) \/ (GrantWrites /\ n = grantor.job.name /\ l = grants)
<1> USE DEF Has, Read, None
<1>0. \A k \in Names : flight[k] \in Flight
  BY DEF TypeOK
<1>a. \A m \in Names : NoRead[m].line = None /\ NoGrantor.read[m].line = None
  BY DEF NoRead, Absent, NoGrantor
<1>1. ASSUME NEW c \in Callers, Serve(c) \/ \E m \in Names : Lease(c, m) \/ List(c, m)
      PROVE  Has(n, l)
  <2>1. PICK q : Moved(c, q) /\ Moves(c, q)
    BY <1>1, RequestMoves
  <2>2. q.name \in Names
    BY <2>1 DEF Moved, Request
  <2>3. UNCHANGED <<file, grantor>>
    BY <2>1 DEF Moves, Untouched, world
  <2>4. CASE flight' = flight
    BY <2>3, <2>4
  <2>5. CASE flight' = [flight EXCEPT ![q.name] = Started(q.name)]
    BY <1>0, <1>a, <2>2, <2>3, <2>5 DEF Started, NoFlight, TypeOK
  <2> QED BY <2>1, <2>4, <2>5 DEF Moves, Asks
<1>2. ASSUME NEW m \in Names,
             ExchangeFails(m) \/ InvalidGrant(m) \/ RotationFails(m) \/ Receive(m)
      PROVE  Has(n, l)
  <2>1. flight' = [flight EXCEPT ![m] = NoFlight] /\ UNCHANGED <<file, grantor>>
    BY <1>2 DEF ExchangeFails, InvalidGrant, RotationFails, Unpersisted, FailFlight,
                Receive, Minted, world
  <2> QED BY <1>0, <1>a, <2>1 DEF NoFlight, TypeOK
<1>3. ASSUME NEW m \in Names, WriteRotation(m) PROVE Has(n, l)
  <2>1. flight' = [flight EXCEPT ![m] = NoFlight] /\ UNCHANGED grantor
    BY <1>3 DEF WriteRotation, Minted, world
  <2>2. \/ file' = file
        \/ file'[n].line = flight[m].read[n].line
        \/ n = m /\ file'[n].line = flight[m].line
    BY <1>0, <1>3 DEF WriteRotation, Merged, Flight, Record
  <2> QED BY <1>0, <1>a, <2>1, <2>2 DEF NoFlight, TypeOK
<1>4. ASSUME NEW m \in Names,
             \E b \in BOOLEAN : IssuerGrants(m, b) \/ IssuerRefuses(m, b)
      PROVE  Has(n, l)
  <2>1. /\ UNCHANGED <<file, grantor>>
        /\ \A k \in Names : /\ flight'[k].line = flight[k].line
                            /\ flight'[k].read = flight[k].read
    <3>1. ASSUME NEW b \in BOOLEAN, IssuerGrants(m, b) PROVE <2>1!:
      BY <1>0, <3>1 DEF IssuerGrants, Flight, TypeOK, world
    <3>2. ASSUME NEW b \in BOOLEAN, IssuerRefuses(m, b) PROVE <2>1!:
      BY <1>0, <3>2 DEF IssuerRefuses, Flight, TypeOK, world
    <3> QED BY <1>4, <3>1, <3>2
  <2> QED BY <2>1
<1>5. ASSUME NEW m \in Names, ReadForRotation(m) PROVE Has(n, l)
  BY <1>0, <1>5 DEF ReadForRotation, TypeOK, world
<1>6. ASSUME UNCHANGED <<file, grantor, flight>> PROVE Has(n, l)
  BY <1>6
<1>7. ASSUME NEW m \in Names, NEW b \in BOOLEAN, GrantReads(m, b) PROVE Has(n, l)
  BY <1>7 DEF GrantReads
<1>8. ASSUME GrantWrites PROVE Has(n, l) \/ (n = grantor.job.name /\ l = grants)
  <2>1. grantor.job \in Grantor
    BY DEF TypeOK
  <2> QED BY <1>8, <1>a, <2>1 DEF GrantWrites, Grantor
<1>9. ASSUME Restart PROVE Has(n, l)
  BY <1>9, <1>a DEF Restart, NoFlight, world
<1> QED BY <1>1, <1>2, <1>3, <1>4, <1>5, <1>6, <1>7, <1>8, <1>9
        DEF Next, Exchange, GoStale, Revoke, vars, world

\* Every step keeps a lineage with its one name.
LEMMA LineagesStep ==
  TypeOK /\ Flights /\ Lineages /\ Copies /\ [Next]_vars => Lineages'
<1> SUFFICES ASSUME TypeOK, Flights, Lineages, Copies, [Next]_vars PROVE Lineages'
  OBVIOUS
<1>0. grants \in Nat /\ grantor.running \in BOOLEAN /\ \A n \in Names : tokens[n] \in Entry
  BY EngineAssumption DEF TypeOK
<1>1. /\ grantor'.running => grants' > 0
      /\ Used' \in Nat /\ Used \in Nat /\ Used' >= Used
      /\ GrantWrites => grants = Used + 1 /\ grants = Used'
  <2>1. UNCHANGED world \/ GrantWrites \/ \E n \in Names, b \in BOOLEAN : GrantReads(n, b)
    <3>1. ASSUME NEW c \in Callers, Serve(c) \/ \E n \in Names : Lease(c, n) \/ List(c, n)
          PROVE  UNCHANGED world
      BY <3>1, RequestMoves DEF Moves, Untouched
    <3> QED BY <3>1 DEF Next, Exchange, ExchangeFails, InvalidGrant, IssuerGrants, IssuerRefuses,
                 Receive, ReadForRotation, WriteRotation, RotationFails, GoStale, Revoke,
                 Restart, vars, world
  <2>2. CASE UNCHANGED world
    BY <1>0, <2>2 DEF world, Used, Lineages, GrantWrites
  <2>3. CASE GrantWrites
    BY <1>0, <2>3 DEF GrantWrites, Used, Lineages
  <2>4. ASSUME NEW n \in Names, NEW b \in BOOLEAN, GrantReads(n, b)
        PROVE  <1>1!:
    BY <1>0, <2>4 DEF GrantReads, Used, Lineages, GrantWrites
  <2> QED BY <2>1, <2>2, <2>3, <2>4
<1>2. ASSUME NEW n \in Names, NEW m \in Names, NEW l \in Lines, Has(n, l)', Has(m, l)'
      PROVE  n = m
  <2>1. /\ Has(n, l) \/ (GrantWrites /\ n = grantor.job.name /\ l = grants)
        /\ Has(m, l) \/ (GrantWrites /\ m = grantor.job.name /\ l = grants)
    BY <1>2, HasStep
  <2>2. ~(Has(n, l) /\ Has(m, l)) \/ n = m
    BY DEF Lineages
  <2>3. (Has(n, l) \/ Has(m, l)) => l <= Used
    BY DEF Lineages
  <2> QED BY <1>1, <2>1, <2>2, <2>3
<1>3. ASSUME NEW n \in Names, NEW l \in Lines, Has(n, l)' PROVE l <= Used'
  <2>1. Has(n, l) \/ (GrantWrites /\ l = grants)
    BY <1>3, HasStep
  <2>2. Has(n, l) => l <= Used
    BY DEF Lineages
  <2> QED BY <1>1, <2>1, <2>2 DEF Lines
<1>4. ASSUME NEW n \in Names PROVE tokens'[n].line <= Used'
  <2>1. \/ tokens'[n].line = tokens[n].line
        \/ tokens'[n].line = None
        \/ tokens'[n].line = flight[n].line /\ flight[n].pc # "none"
    <3>1. ASSUME NEW c \in Callers, Serve(c) \/ \E m \in Names : Lease(c, m) \/ List(c, m)
          PROVE  tokens' = tokens
      BY <3>1, RequestMoves DEF Moves, Untouched
    <3>2. ASSUME NEW m \in Names, Receive(m) \/ WriteRotation(m)
          PROVE  /\ flight[m].pc # "none"
                 /\ tokens' = [tokens EXCEPT ![m] = Token(m)]
      BY <3>2 DEF Receive, WriteRotation, At, Minted, Token
    <3>3. ASSUME NEW m \in Names, InvalidGrant(m) PROVE tokens' = [tokens EXCEPT ![m] = Empty]
      BY <3>3 DEF InvalidGrant
    <3>4. CASE Restart
      BY <3>4 DEF Restart, Empty
    <3>5. ASSUME NEW m \in Names, GoStale(m) PROVE tokens'[n].line = tokens[n].line
      BY <1>0, <3>5 DEF GoStale, Entry, TypeOK
    <3>6. ASSUME NEW m \in Names, tokens' = [tokens EXCEPT ![m] = Token(m)], flight[m].pc # "none"
          PROVE  <2>1!:
      BY <3>6 DEF Token, TypeOK
    <3>7. ASSUME NEW m \in Names, tokens' = [tokens EXCEPT ![m] = Empty] PROVE <2>1!:
      BY <3>7 DEF Empty, TypeOK
    <3>8. CASE UNCHANGED tokens
      BY <3>8
    <3> QED BY <3>1, <3>2, <3>3, <3>4, <3>5, <3>6, <3>7, <3>8
            DEF Next, Exchange, ExchangeFails, IssuerGrants, IssuerRefuses,
                ReadForRotation, RotationFails, Unpersisted, Revoke, GrantReads, GrantWrites, vars
  <2>2. tokens[n].line <= Used /\ tokens[n].line \in Nat
    BY <1>0 DEF Lineages, Entry, Lines, None
  <2>3. flight[n].pc # "none" => flight[n].line \in Lines /\ flight[n].line <= Used
    BY DEF Flights, Lineages, Has, Lines, None
  <2> QED BY <1>1, <2>1, <2>2, <2>3 DEF None, Lines
<1> QED BY <1>1, <1>2, <1>3, <1>4 DEF Lineages

\* Every step keeps the copies of the file within what it held.
LEMMA CopiesStep ==
  TypeOK /\ Flights /\ Lineages /\ Copies /\ [Next]_vars => Copies'
<1> SUFFICES ASSUME TypeOK, Flights, Lineages, Copies, [Next]_vars PROVE Copies'
  OBVIOUS
<1> USE DEF Copies, Sound, Read, Writing
<1>0. /\ \A k \in Names : flight[k] \in Flight
      /\ \A m \in Names : NoRead[m] = Absent
      /\ NoGrantor.read = NoRead /\ NoFlight.read = NoRead /\ NoFlight.pc = "none"
  BY DEF TypeOK, NoRead, NoGrantor, NoFlight
<1>1. ASSUME NEW c \in Callers, Serve(c) \/ \E m \in Names : Lease(c, m) \/ List(c, m)
      PROVE  Copies'
  <2>1. PICK q : Moved(c, q) /\ Moves(c, q)
    BY <1>1, RequestMoves
  <2>2. q.name \in Names /\ UNCHANGED <<file, grantor>>
    BY <2>1 DEF Moved, Request, Moves, Untouched, world
  <2>3. CASE flight' = flight
    BY <2>2, <2>3
  <2>4. CASE flight' = [flight EXCEPT ![q.name] = Started(q.name)]
    BY <1>0, <2>2, <2>4 DEF Started, NoFlight, TypeOK
  <2> QED BY <2>1, <2>3, <2>4 DEF Moves, Asks
<1>2. ASSUME NEW m \in Names,
             ExchangeFails(m) \/ InvalidGrant(m) \/ RotationFails(m) \/ Receive(m)
      PROVE  Copies'
  <2>1. flight' = [flight EXCEPT ![m] = NoFlight] /\ UNCHANGED <<file, grantor>>
    BY <1>2 DEF ExchangeFails, InvalidGrant, RotationFails, Unpersisted, FailFlight,
                Receive, Minted, world
  <2> QED BY <1>0, <2>1 DEF TypeOK
<1>3. ASSUME NEW m \in Names, WriteRotation(m) PROVE Copies'
  <2>1. /\ flight' = [flight EXCEPT ![m] = NoFlight] /\ UNCHANGED grantor
        /\ \A k \in Names : ~Writing(k)'
    BY <1>0, <1>3 DEF WriteRotation, Minted, Flights, TypeOK, world
  <2>2. CASE file' = file
    BY <1>0, <2>1, <2>2 DEF TypeOK
  <2>3. CASE flight[m].read[m].binds /\ file' = Merged(flight[m].read, m, flight[m])
    <3>1. flight[m].read \in [Names -> Record] /\ flight[m].line \in Lines
      BY <1>0, <1>3 DEF WriteRotation, Flights, Flight
    <3>2. file'[m].line \in Lines /\ \A n \in Names \ {m} : file'[n] = flight[m].read[n]
      BY <2>3, <3>1 DEF Merged, Record
    <3>3. Sound(file')
      BY <3>2 DEF Lines, None
    <3>4. ASSUME grantor.running, NEW n \in Names, Read[n].line = None
          PROVE  file'[n].line = None
      <4>1. flight[m].read[n].line = None
        BY <1>3, <3>4 DEF WriteRotation
      <4>2. n # m
        BY <2>3, <4>1 DEF Absent
      <4> QED BY <3>2, <4>1, <4>2
    <3> QED BY <1>0, <2>1, <3>3, <3>4 DEF TypeOK
  <2> QED BY <1>3, <2>2, <2>3 DEF WriteRotation
<1>4. ASSUME NEW m \in Names, NEW b \in BOOLEAN, IssuerGrants(m, b) PROVE Copies'
  <2>1. /\ UNCHANGED <<file, grantor>>
        /\ \A k \in Names : flight'[k].read = flight[k].read /\ (Writing(k)' => Writing(k))
    BY <1>0, <1>4 DEF IssuerGrants, Flight, TypeOK, world
  <2> QED BY <2>1
<1>5. ASSUME NEW m \in Names, NEW b \in BOOLEAN, IssuerRefuses(m, b) PROVE Copies'
  <2>1. /\ UNCHANGED <<file, grantor>>
        /\ \A k \in Names : flight'[k].read = flight[k].read /\ (Writing(k)' => Writing(k))
    BY <1>0, <1>5 DEF IssuerRefuses, Flight, TypeOK, world
  <2> QED BY <2>1
<1>6. ASSUME NEW m \in Names, ReadForRotation(m) PROVE Copies'
  <2>1. /\ UNCHANGED <<file, grantor>> /\ flight'[m].read = file
        /\ \A k \in Names \ {m} : flight'[k] = flight[k]
    BY <1>0, <1>6 DEF ReadForRotation, TypeOK, world
  <2> QED BY <2>1
<1>7. ASSUME UNCHANGED <<file, grantor, flight>> PROVE Copies'
  BY <1>7
<1>8. ASSUME NEW m \in Names, NEW b \in BOOLEAN, GrantReads(m, b) PROVE Copies'
  BY <1>8 DEF GrantReads
<1>9. ASSUME GrantWrites PROVE Copies'
  <2> DEFINE n0 == grantor.job.name
  <2>1. grantor.job \in Grantor /\ n0 \in Names
    BY DEF TypeOK, Grantor
  <2>2. /\ grantor.running /\ grants # None /\ UNCHANGED flight
        /\ file'[n0].line = grants
        /\ \A n \in Names \ {n0} : file'[n] = Read[n]
        /\ grantor'.running = FALSE /\ Read' = NoRead
    BY <1>0, <1>9, <2>1 DEF GrantWrites, Grantor, Lineages, None
  <2>3. Sound(file')
    BY <2>2
  <2>4. ASSUME NEW n \in Names, file'[n].line = None PROVE file[n].line = None
    BY <2>2, <2>4
  <2> QED BY <1>0, <2>2, <2>3, <2>4
<1>10. ASSUME Restart PROVE Copies'
  BY <1>0, <1>10 DEF Restart, world
<1> QED BY <1>1, <1>2, <1>3, <1>4, <1>5, <1>6, <1>7, <1>8, <1>9, <1>10
        DEF Next, Exchange, GoStale, Revoke, vars, world

-----------------------------------------------------------------------------
(***************************************************************************)
(* The numbers of the tokens, and the requests that carry them             *)
(***************************************************************************)
LEMMA Delivered ==
  ASSUME TypeOK, NEW n \in Names, NEW e \in Entry, Deliver(n, e), NEW c \in Callers
  PROVE  \/ caller'[c] = caller[c] /\ ~Awaits(c, n)
         \/ /\ caller[c].name = n /\ caller'[c].name = n
            /\ caller'[c].pc = "leased" /\ caller'[c].id = caller[c].id
         \/ /\ caller[c].name = n /\ caller'[c].name = n
            /\ caller'[c].pc = "calling" /\ caller'[c].id = e.id /\ caller'[c].gen = e.gen
         \/ /\ caller[c].name = n /\ caller'[c].name = n /\ caller[c].pc = "refreshing"
            /\ caller'[c].pc = "retrying" /\ caller'[c].id = e.id
            /\ caller'[c].old = caller[c].old
<1>1. CASE ~Awaits(c, n)
  BY <1>1 DEF Deliver
<1>2. CASE Awaits(c, n)
  <2>1. caller[c] \in Request /\ caller'[c] = WithToken(caller[c], e) /\ caller[c].name = n
    BY <1>2 DEF TypeOK, Deliver, Awaits
  <2>2. CASE caller[c].pc = "leasing"
    BY <2>1, <2>2 DEF WithToken, Request
  <2>3. CASE caller[c].pc = "acquiring"
    BY <2>1, <2>3 DEF WithToken, Holding, Request
  <2>4. CASE caller[c].pc = "refreshing"
    BY <2>1, <2>4 DEF WithToken, Holding, Request
  <2> QED BY <1>2, <2>2, <2>3, <2>4 DEF Awaits, Waiting
<1> QED BY <1>1, <1>2

\* The end of a flight that has its token.
LEMMA Mints ==
  ASSUME TypeOK, Flights, Numbers, NEW n \in Names, Receive(n) \/ WriteRotation(n)
  PROVE  /\ Due(n) /\ Token(n) \in Entry
         /\ tokens' = [tokens EXCEPT ![n] = Token(n)]
         /\ flight' = [flight EXCEPT ![n] = NoFlight]
         /\ Deliver(n, Token(n))
         /\ UNCHANGED <<issuer, exchanges>>
         /\ tokens'[n].line = flight[n].line /\ tokens'[n].seq = flight[n].next
         /\ \A m \in Names \ {n} : tokens'[m] = tokens[m] /\ flight'[m] = flight[m]
<1>1. Due(n) /\ Minted(n)
  BY DEF Receive, WriteRotation, Due, At
<1>2. /\ tokens' = [tokens EXCEPT ![n] = Token(n)]
      /\ flight' = [flight EXCEPT ![n] = NoFlight]
  BY <1>1 DEF Minted, Token
<1>3. /\ tokens'[n] = Token(n)
      /\ \A m \in Names \ {n} : tokens'[m] = tokens[m] /\ flight'[m] = flight[m]
  BY <1>2 DEF TypeOK
<1> QED BY <1>1, <1>2, <1>3, TokenType DEF Minted, Token, Receive, WriteRotation

\* A flight that fails leaves the others, and those who await them.
LEMMA Fails ==
  ASSUME TypeOK, NEW n \in Names, ExchangeFails(n) \/ InvalidGrant(n) \/ RotationFails(n)
  PROVE  /\ flight' = [flight EXCEPT ![n] = NoFlight]
         /\ \A c \in Callers : caller'[c] \in {Idle, caller[c]}
         /\ tokens' = tokens \/ (tokens' = [tokens EXCEPT ![n] = Empty] /\ InvalidGrant(n))
         /\ UNCHANGED <<file, issuer, exchanges, undone, grantor, grants>>
BY DEF ExchangeFails, InvalidGrant, RotationFails, Unpersisted, FailFlight, world

\* Every step keeps the exchanges in order.
LEMMA NumbersStep ==
  TypeOK /\ Flights /\ Lineages /\ Copies /\ Numbers /\ [Next]_vars => Numbers'
<1> SUFFICES ASSUME TypeOK, Flights, Lineages, Copies, Numbers, [Next]_vars PROVE Numbers'
  OBVIOUS
<1> USE DEF Numbers, Due
<1>0. /\ exchanges \in Nat /\ issuer \in [Lines -> Nat]
      /\ \A n \in Names : flight[n] \in Flight /\ tokens[n] \in Entry
      /\ \A n \in Names : flight[n].id \in Nat /\ tokens[n].id \in Nat /\ tokens[n].gen \in Nat
      /\ \A c \in Callers : caller[c] \in Request /\ caller[c].id \in Nat
  BY EngineAssumption DEF TypeOK, Flight, Entry, Request
<1>a. /\ Empty.id = 0 /\ Empty.gen = 0 /\ Idle.id = 0 /\ NoFlight.id = 0 /\ NoFlight.pc = "none"
  BY DEF Empty, Idle, NoFlight, None
<1>1. ASSUME NEW c \in Callers, Serve(c) \/ \E n \in Names : Lease(c, n) \/ List(c, n)
      PROVE  Numbers'
  <2>1. PICK q : Moved(c, q) /\ Moves(c, q)
    BY <1>1, RequestMoves
  <2>2. q.name \in Names /\ UNCHANGED <<issuer, exchanges, tokens>>
    BY <2>1 DEF Moved, Request, Moves, Untouched
  <2>3. q.id <= exchanges
    BY <1>0, <2>1, <2>2 DEF Moved, None
  <2>4. \A d \in Callers : caller'[d].id <= exchanges
    BY <2>1, <2>3 DEF Moves, TypeOK
  <2>5. CASE flight' = flight
    BY <2>2, <2>4, <2>5
  <2>6. CASE flight' = [flight EXCEPT ![q.name] = Started(q.name)]
    BY <1>0, <2>2, <2>4, <2>6 DEF Started, NoFlight, None, TypeOK
  <2> QED BY <2>1, <2>5, <2>6 DEF Moves, Asks
<1>2. ASSUME NEW n \in Names, ExchangeFails(n) \/ InvalidGrant(n) \/ RotationFails(n)
      PROVE  Numbers'
  <2>1. /\ UNCHANGED <<issuer, exchanges>>
        /\ \A m \in Names : flight'[m] \in {NoFlight, flight[m]}
        /\ \A m \in Names : tokens'[m] \in {Empty, tokens[m]}
        /\ \A c \in Callers : caller'[c] \in {Idle, caller[c]}
    BY <1>2, Fails DEF TypeOK
  <2>2. \A m \in Names : /\ flight'[m].id <= exchanges
                         /\ Due(m)' => flight'[m] = flight[m]
                         /\ tokens'[m].gen <= tokens'[m].id /\ tokens'[m].id <= exchanges
                         /\ tokens'[m].id <= tokens[m].id
    BY <1>0, <1>a, <2>1
  <2>3. \A c \in Callers : caller'[c].id <= exchanges
    BY <1>0, <1>a, <2>1
  <2>4. \A m \in Names : Due(m)' => tokens'[m].id < flight'[m].id
    <3> SUFFICES ASSUME NEW m \in Names, Due(m)' PROVE tokens'[m].id < flight'[m].id
      OBVIOUS
    <3>1. flight'[m] = flight[m] /\ Due(m) /\ tokens'[m].id \in Nat
      BY <1>0, <1>a, <2>1, <2>2
    <3> QED BY <1>0, <2>2, <3>1
  <2> QED BY <2>1, <2>2, <2>3, <2>4
<1>3. ASSUME NEW n \in Names, NEW b \in BOOLEAN, IssuerGrants(n, b) PROVE Numbers'
  <2>1. /\ exchanges' = exchanges + 1 /\ UNCHANGED <<tokens, caller>>
        /\ flight'[n].id = exchanges + 1
        /\ \A m \in Names \ {n} : flight'[m] = flight[m]
    BY <1>0, <1>3 DEF IssuerGrants, Flight, TypeOK
  <2>2. \A l \in Lines : issuer'[l] <= issuer[l] + 1
    BY <1>0, <1>3 DEF IssuerGrants, Flights
  <2>3. \A l \in Lines : issuer'[l] <= exchanges' + 1
    <3> SUFFICES ASSUME NEW l \in Lines PROVE issuer'[l] <= exchanges' + 1
      OBVIOUS
    <3>1. issuer'[l] \in Nat /\ issuer[l] \in Nat
      BY <1>0, <1>3 DEF IssuerGrants
    <3> QED BY <1>0, <2>1, <2>2, <3>1
  <2>4. \A m \in Names : /\ tokens'[m].gen <= tokens'[m].id /\ tokens'[m].id <= exchanges'
                         /\ flight'[m].id <= exchanges'
                         /\ Due(m)' => tokens'[m].id < flight'[m].id
    BY <1>0, <2>1
  <2> QED BY <1>0, <2>1, <2>3, <2>4
<1>4. ASSUME NEW n \in Names, NEW b \in BOOLEAN, IssuerRefuses(n, b) PROVE Numbers'
  <2>1. /\ UNCHANGED <<exchanges, tokens, caller>>
        /\ \A m \in Names : flight'[m].id = flight[m].id /\ (Due(m)' => Due(m))
    BY <1>0, <1>4 DEF IssuerRefuses, Flight, TypeOK
  <2>2. \A l \in Lines : issuer'[l] <= issuer[l]
    BY <1>0, <1>4 DEF IssuerRefuses
  <2>3. \A l \in Lines : issuer'[l] <= exchanges + 1
    <3> SUFFICES ASSUME NEW l \in Lines PROVE issuer'[l] <= exchanges + 1
      OBVIOUS
    <3>1. issuer'[l] \in Nat /\ issuer[l] \in Nat
      BY <1>0, <1>4 DEF IssuerRefuses
    <3> QED BY <1>0, <2>2, <3>1
  <2> QED BY <1>0, <2>1, <2>3
<1>5. ASSUME NEW n \in Names, Receive(n) \/ WriteRotation(n) PROVE Numbers'
  <2>1. Token(n).id = flight[n].id /\ Token(n).gen = tokens[n].gen + 1 /\ Due(n)
    BY <1>5, Mints DEF Token
  <2>2. \A m \in Names : tokens'[m].gen <= tokens'[m].id /\ tokens'[m].id <= exchanges
    BY <1>0, <1>5, <2>1, Mints DEF TypeOK
  <2>3. \A m \in Names : flight'[m].id <= exchanges /\ (Due(m)' => tokens'[m].id < flight'[m].id)
    BY <1>0, <1>a, <1>5, Mints DEF TypeOK
  <2>4. \A c \in Callers : caller'[c].id <= exchanges
    BY <1>0, <1>5, <2>1, Mints, Delivered
  <2> QED BY <1>5, <2>2, <2>3, <2>4, Mints
<1>6. ASSUME NEW n \in Names, ReadForRotation(n) PROVE Numbers'
  <2>1. /\ UNCHANGED <<issuer, exchanges, tokens, caller>>
        /\ \A m \in Names : flight'[m].id = flight[m].id /\ (Due(m)' => Due(m))
    BY <1>0, <1>6 DEF ReadForRotation, At, Flight, TypeOK
  <2> QED BY <2>1
<1>7. ASSUME NEW n \in Names, GoStale(n) PROVE Numbers'
  <2>1. /\ UNCHANGED <<issuer, exchanges, flight, caller>>
        /\ \A m \in Names : tokens'[m].id = tokens[m].id /\ tokens'[m].gen = tokens[m].gen
    BY <1>0, <1>7 DEF GoStale, Entry, TypeOK
  <2> QED BY <2>1
<1>8. ASSUME NEW n \in Names, NEW b \in BOOLEAN, GrantReads(n, b) PROVE Numbers'
  <2>1. \A l \in Lines : issuer'[l] <= exchanges + 1
    BY <1>0, <1>8 DEF GrantReads
  <2> QED BY <1>8, <2>1 DEF GrantReads
<1>9. ASSUME GrantWrites PROVE Numbers'
  BY <1>9 DEF GrantWrites
<1>10. ASSUME NEW l \in Lines, Revoke(l) PROVE Numbers'
  BY <1>0, <1>10 DEF Revoke
<1>11. ASSUME Restart PROVE Numbers'
  BY <1>0, <1>a, <1>11 DEF Restart
<1>12. ASSUME UNCHANGED vars PROVE Numbers'
  BY <1>12 DEF vars
<1> QED BY <1>1, <1>2, <1>3, <1>4, <1>5, <1>6, <1>7, <1>8, <1>9, <1>10, <1>11, <1>12
        DEF Next, Exchange

\* Every step keeps the requests' tokens in that order.
LEMMA RequestsStep ==
  TypeOK /\ Flights /\ Lineages /\ Copies /\ Numbers /\ Requests /\ [Next]_vars => Requests'
<1> SUFFICES ASSUME TypeOK, Flights, Lineages, Copies, Numbers, Requests, [Next]_vars,
                    NEW c \in Callers
             PROVE  /\ Due(caller[c].name)' => caller'[c].id < flight'[caller'[c].name].id
                    /\ caller'[c].pc = "refreshing" => caller'[c].old = caller'[c].id
                    /\ caller'[c].pc = "calling" /\ Superseded(caller[c])'
                       => caller'[c].id < tokens'[caller'[c].name].id
                    /\ caller'[c].pc = "retrying" => caller'[c].old < caller'[c].id
  BY DEF Requests
<1> DEFINE Goal == /\ Due(caller[c].name)' => caller'[c].id < flight'[caller'[c].name].id
                   /\ caller'[c].pc = "refreshing" => caller'[c].old = caller'[c].id
                   /\ caller'[c].pc = "calling" /\ Superseded(caller[c])'
                      => caller'[c].id < tokens'[caller'[c].name].id
                   /\ caller'[c].pc = "retrying" => caller'[c].old < caller'[c].id
<1> USE DEF Due, Superseded, None
<1>0. /\ exchanges \in Nat
      /\ \A n \in Names : flight[n] \in Flight /\ tokens[n] \in Entry
      /\ \A n \in Names : flight[n].id \in Nat /\ tokens[n].id \in Nat /\ tokens[n].gen \in Nat
      /\ \A d \in Callers : /\ caller[d] \in Request /\ caller[d].id \in Nat
                            /\ caller[d].gen \in Nat /\ caller[d].name \in Names
  BY EngineAssumption DEF TypeOK, Flight, Entry, Request
<1>a. /\ Empty.id = 0 /\ Idle.id = 0 /\ Idle.pc = "idle" /\ NoFlight.pc = "none"
      /\ Idle.name \in Names
  BY ConstantTypes DEF Empty, Idle, NoFlight, Request
<1>b. /\ Due(caller[c].name) => caller[c].id < flight[caller[c].name].id
      /\ caller[c].pc = "refreshing" => caller[c].old = caller[c].id
      /\ caller[c].pc = "calling" /\ Superseded(caller[c])
         => caller[c].id < tokens[caller[c].name].id
      /\ caller[c].pc = "retrying" => caller[c].old < caller[c].id
      /\ \A n \in Names : Due(n) => flight[n].id # 0 /\ tokens[n].id < flight[n].id
  BY DEF Requests, Numbers, Flights
<1>1. ASSUME NEW d \in Callers, Serve(d) \/ \E n \in Names : Lease(d, n) \/ List(d, n)
      PROVE  Goal
  <2>1. PICK q : Moved(d, q) /\ Moves(d, q)
    BY <1>1, RequestMoves
  <2>2. q \in Request /\ q.name \in Names /\ q.id \in Nat /\ UNCHANGED <<tokens>>
    BY <2>1, EngineAssumption DEF Moved, Request, Moves, Untouched
  <2>3. \A n \in Names : Due(n)' => Due(n) /\ flight'[n] = flight[n]
    <3>1. CASE flight' = flight
      BY <3>1
    <3>2. CASE flight' = [flight EXCEPT ![q.name] = Started(q.name)]
      BY <1>0, <2>2, <3>2 DEF Started, NoFlight, TypeOK
    <3> QED BY <2>1, <3>1, <3>2 DEF Moves, Asks
  <2>4. CASE c # d
    <3>1. caller'[c] = caller[c]
      BY <2>1, <2>4 DEF Moves, TypeOK
    <3> QED BY <1>0, <1>b, <2>2, <2>3, <3>1
  <2>5. CASE c = d
    <3>1. caller'[c] = q
      BY <2>1, <2>5 DEF Moves, TypeOK
    <3>2. Due(q.name) => q.id < flight[q.name].id
      BY <1>0, <1>b, <2>1, <2>2, <2>5 DEF Moved
    <3>3. q.pc = "refreshing" => q.old = q.id
      BY <2>1 DEF Moved
    <3>4. q.pc = "calling" => q.gen = tokens[q.name].gen
      BY <2>1 DEF Moved
    <3>5. q.pc = "retrying" => q.old < q.id
      BY <1>b, <2>1, <2>5 DEF Moved
    <3> QED BY <1>0, <2>2, <2>3, <3>1, <3>2, <3>3, <3>4, <3>5
  <2> QED BY <2>4, <2>5
<1>2. ASSUME NEW n \in Names, ExchangeFails(n) \/ InvalidGrant(n) \/ RotationFails(n)
      PROVE  Goal
  <2>1. caller'[c] \in {Idle, caller[c]}
    BY <1>2, Fails
  <2>2. \A m \in Names : Due(m)' => Due(m) /\ flight'[m] = flight[m]
    BY <1>a, <1>2, Fails DEF TypeOK
  <2>3. \A m \in Names : tokens'[m] \in {Empty, tokens[m]}
    BY <1>2, Fails DEF TypeOK
  <2> QED BY <1>0, <1>a, <1>b, <2>1, <2>2, <2>3
<1>3. ASSUME NEW n \in Names, NEW b \in BOOLEAN, IssuerGrants(n, b) PROVE Goal
  <2>1. /\ UNCHANGED <<tokens, caller>>
        /\ flight'[n].id = exchanges + 1
        /\ \A m \in Names \ {n} : flight'[m] = flight[m]
    BY <1>0, <1>3 DEF IssuerGrants, Flight, TypeOK
  <2>2. caller[c].id <= exchanges
    BY DEF Numbers
  <2> QED BY <1>0, <1>b, <2>1, <2>2
<1>4. ASSUME NEW n \in Names, \/ \E b \in BOOLEAN : IssuerRefuses(n, b)
                              \/ ReadForRotation(n)
      PROVE  Goal
  <2>1. /\ UNCHANGED <<tokens, caller>>
        /\ \A m \in Names : flight'[m].id = flight[m].id /\ (Due(m)' => Due(m))
    <3>1. ASSUME NEW b \in BOOLEAN, IssuerRefuses(n, b) PROVE <2>1!:
      BY <1>0, <3>1 DEF IssuerRefuses, Flight, TypeOK
    <3>2. ASSUME ReadForRotation(n) PROVE <2>1!:
      BY <1>0, <3>2 DEF ReadForRotation, At, Flight, TypeOK
    <3> QED BY <1>4, <3>1, <3>2
  <2> QED BY <1>0, <1>b, <2>1
<1>5. ASSUME NEW n \in Names, Receive(n) \/ WriteRotation(n) PROVE Goal
  <2>1. Token(n).id = flight[n].id /\ Due(n) /\ Token(n) \in Entry
    BY <1>5, Mints DEF Token
  <2>2. \A m \in Names : Due(m)' => m # n /\ Due(m) /\ flight'[m] = flight[m]
    BY <1>a, <1>5, Mints DEF TypeOK
  <2>3. tokens'[n] = Token(n) /\ \A m \in Names \ {n} : tokens'[m] = tokens[m]
    BY <1>5, Mints DEF TypeOK
  <2>4. CASE caller'[c] = caller[c] /\ ~Awaits(c, n)
    <3>1. caller[c].name = n => caller[c].id < Token(n).id
      BY <1>b, <2>1
    <3> QED BY <1>0, <1>b, <2>2, <2>3, <2>4, <3>1
  <2>5. CASE /\ caller[c].name = n /\ caller'[c].name = n
             /\ caller'[c].pc = "leased" /\ caller'[c].id = caller[c].id
    BY <2>2, <2>5
  <2>6. CASE /\ caller'[c].name = n /\ caller'[c].pc = "calling"
             /\ caller'[c].id = Token(n).id /\ caller'[c].gen = Token(n).gen
    BY <2>1, <2>2, <2>3, <2>6 DEF Entry
  <2>7. CASE /\ caller[c].name = n /\ caller'[c].name = n /\ caller[c].pc = "refreshing"
             /\ caller'[c].pc = "retrying" /\ caller'[c].id = Token(n).id
             /\ caller'[c].old = caller[c].old
    BY <1>b, <2>1, <2>2, <2>7
  <2> QED BY <1>5, <2>1, <2>4, <2>5, <2>6, <2>7, Mints, Delivered
<1>6. ASSUME NEW n \in Names, GoStale(n) PROVE Goal
  <2>1. /\ UNCHANGED <<flight, caller>>
        /\ \A m \in Names : tokens'[m].id = tokens[m].id /\ tokens'[m].gen = tokens[m].gen
    BY <1>0, <1>6 DEF GoStale, Entry, TypeOK
  <2> QED BY <1>0, <1>b, <2>1
<1>7. ASSUME UNCHANGED <<tokens, flight, caller>> PROVE Goal
  BY <1>b, <1>7
<1>8. ASSUME Restart PROVE Goal
  BY <1>a, <1>8 DEF Restart
<1> QED BY <1>1, <1>2, <1>3, <1>4, <1>5, <1>6, <1>7, <1>8
        DEF Next, Exchange, GrantReads, GrantWrites, Revoke, vars

-----------------------------------------------------------------------------
(***************************************************************************)
(* What the steps do, as the last two parts of the invariant need it       *)
(***************************************************************************)
\* A request's step starts no flight while a rotation is being written.
LEMMA RequestFrame ==
  ASSUME TypeOK, Copies, NEW c \in Callers,
         Serve(c) \/ \E n \in Names : Lease(c, n) \/ List(c, n)
  PROVE  /\ UNCHANGED <<file, issuer, grantor, grants, tokens, broken, undone>>
         /\ \A n \in Names : ~Writing(n) /\ ~Writing(n)'
         /\ \A n \in Names :
              \/ flight'[n] = flight[n]
              \/ /\ flight[n].pc = "none" /\ flight'[n].pc = "asking"
                 /\ file[n].binds /\ file[n].line \in Lines
                 /\ flight'[n].line = file[n].line /\ flight'[n].spent = file[n].seq
                 /\ flight'[n].next = file[n].seq
<1>1. PICK q : Moved(c, q) /\ Moves(c, q)
  BY RequestMoves
<1>2. q.name \in Names /\ ~Blocked
  BY <1>1 DEF Moved, Request, Moves
<1>3. UNCHANGED <<file, issuer, grantor, grants, tokens, broken, undone>>
  BY <1>1 DEF Moves, Untouched, world
<1>4. CASE flight' = flight
  BY <1>2, <1>3, <1>4 DEF Writing, Blocked
<1>5. CASE /\ flight[q.name].pc = "none" /\ file[q.name].binds
           /\ flight' = [flight EXCEPT ![q.name] = Started(q.name)]
  <2>1. file[q.name].line \in Lines
    BY <1>2, <1>5, BoundLine DEF TypeOK, Copies
  <2> QED BY <1>2, <1>3, <1>5, <2>1 DEF Writing, Blocked, Started, NoFlight, TypeOK
<1> QED BY <1>1, <1>4, <1>5 DEF Moves, Asks

\* The lineage in flight, and that of a record, is one of the name's.
LEMMA HeldLines ==
  ASSUME TypeOK, Flights, Lineages, Copies
  PROVE  /\ \A n \in Names : flight[n].pc # "none" =>
              Has(n, flight[n].line) /\ flight[n].line \in Lines /\ flight[n].line <= Used
         /\ \A n \in Names : file[n].line # None =>
              Has(n, file[n].line) /\ file[n].line \in Lines /\ file[n].line <= Used
         /\ \A k, n \in Names : flight[k].read[n].line # None =>
              /\ Has(n, flight[k].read[n].line) /\ flight[k].read[n].line \in Lines
              /\ flight[k].read[n].line <= Used
<1>1. /\ \A n \in Names : file[n].line \in {None} \cup Lines
      /\ \A k, n \in Names : flight[k].read[n].line \in {None} \cup Lines
  <2>1. \A n \in Names : file[n] \in Record
    BY DEF TypeOK
  <2>2. \A k \in Names : flight[k] \in Flight
    BY DEF TypeOK
  <2>3. \A k, n \in Names : flight[k].read[n] \in Record
    BY <2>2 DEF Flight
  <2> QED BY <2>1, <2>3 DEF Record
<1>2. \A n \in Names : flight[n].pc # "none" => flight[n].line \in Lines
  BY DEF Flights
<1>3. \A n \in Names, l \in Lines : Has(n, l) => l <= Used
  BY DEF Lineages
<1>4. \A l \in Lines : l # None
  BY DEF Lines, None
<1>5. \A n \in Names : flight[n].pc # "none" => Has(n, flight[n].line)
  BY <1>2, <1>4 DEF Has
<1>6. \A n \in Names : file[n].line # None => Has(n, file[n].line)
  BY DEF Has
<1>7. \A k, n \in Names : flight[k].read[n].line # None => Has(n, flight[k].read[n].line)
  BY DEF Has
<1> QED BY <1>1, <1>2, <1>3, <1>5, <1>6, <1>7

\* Two names never have one lineage in flight and in a record.
LEMMA OneOwner ==
  ASSUME TypeOK, Flights, Lineages, Copies, NEW n \in Names, flight[n].pc # "none"
  PROVE  \A m \in Names \ {n} :
           /\ file[m].line # flight[n].line
           /\ flight[m].pc # "none" => flight[m].line # flight[n].line
           /\ \A k \in Names : flight[k].read[m].line # flight[n].line
<1>1. Has(n, flight[n].line) /\ flight[n].line \in Lines /\ flight[n].line # None
  BY HeldLines DEF Lines, None
<1>2. \A m \in Names \ {n} : ~Has(m, flight[n].line)
  BY <1>1 DEF Lineages
<1> QED BY <1>1, <1>2 DEF Has

\* What the grant command leaves of another name is what was in the file, or a
\* lineage that it undoes.
LEMMA GrantLeaves ==
  ASSUME TypeOK, Lineages, GrantWrites
  PROVE  /\ grantor.running /\ grants = Used + 1 /\ undone \subseteq undone'
         /\ UNCHANGED <<issuer, tokens, flight, broken, grants>> /\ grantor'.running = FALSE
         /\ \A n \in Names :
              \/ file'[n] = file[n]
              \/ file'[n].line \in undone'
              \/ file'[n].line = grants /\ file'[n].seq = 1
<1> DEFINE job == grantor.job
           over == {m \in Names \ {job.name} : file[m] # job.read[m]}
<1>1. grantor.running /\ job \in Grantor /\ grants \in Nat
  BY EngineAssumption DEF GrantWrites, TypeOK
<1>2. /\ file' = [job.read EXCEPT ![job.name] = [line |-> grants, seq |-> 1, binds |-> job.binds]]
      /\ undone' = undone \cup {job.read[m].line : m \in over}
  BY DEF GrantWrites
<1>3. ASSUME NEW n \in Names
      PROVE  \/ file'[n] = file[n]
             \/ file'[n].line \in undone'
             \/ file'[n].line = grants /\ file'[n].seq = 1
  <2>1. CASE n = job.name
    BY <1>1, <1>2, <2>1 DEF Grantor
  <2>2. CASE n # job.name /\ file[n] = job.read[n]
    BY <1>1, <1>2, <2>2 DEF Grantor
  <2>3. CASE n # job.name /\ file[n] # job.read[n]
    <3>1. n \in over /\ file'[n] = job.read[n]
      BY <1>1, <1>2, <2>3 DEF Grantor
    <3> QED BY <1>2, <3>1
  <2> QED BY <2>1, <2>2, <2>3
<1> QED BY <1>1, <1>2, <1>3 DEF GrantWrites, Used, Lineages, vars

-----------------------------------------------------------------------------
(***************************************************************************)
(* Persisted before it is used                                             *)
(***************************************************************************)
LEMMA PersistedStep ==
  TypeOK /\ Flights /\ Lineages /\ Copies /\ Numbers /\ Persisted /\ [Next]_vars => Persisted'
<1> SUFFICES ASSUME TypeOK, Flights, Lineages, Copies, Numbers, Persisted, [Next]_vars
             PROVE  Persisted'
  OBVIOUS
<1> USE DEF Persisted, KeepsUp, AsNew, Writing
<1>0. /\ \A n \in Names : flight[n] \in Flight /\ tokens[n] \in Entry /\ file[n] \in Record
      /\ \A n \in Names : /\ file[n].seq \in Nat /\ flight[n].spent \in Nat
                          /\ flight[n].next \in Nat
      /\ \A k \in Names : flight[k].read \in [Names -> Record]
  BY EngineAssumption DEF TypeOK, Flight, Entry, Record
<1>a. Empty.id = None /\ NoFlight.pc = "none"
  BY DEF Empty, NoFlight
<1>1. ASSUME NEW c \in Callers, Serve(c) \/ \E n \in Names : Lease(c, n) \/ List(c, n)
      PROVE  Persisted'
  BY <1>0, <1>1, RequestFrame
<1>2. ASSUME NEW m \in Names, ExchangeFails(m) \/ InvalidGrant(m) \/ RotationFails(m)
      PROVE  Persisted'
  <2>1. /\ UNCHANGED <<file, undone>>
        /\ \A n \in Names : flight'[n] = flight[n] \/ flight'[n].pc = "none"
        /\ \A n \in Names : tokens'[n] = tokens[n] \/ tokens'[n].id = None
    BY <1>a, <1>2, Fails DEF TypeOK
  <2> QED BY <2>1
<1>3. ASSUME NEW m \in Names,
             \/ \E b \in BOOLEAN : IssuerGrants(m, b) \/ IssuerRefuses(m, b)
      PROVE  Persisted'
  <2>1. /\ UNCHANGED <<file, undone, tokens>>
        /\ \A n \in Names : /\ flight'[n].line = flight[n].line
                            /\ flight'[n].spent = flight[n].spent
                            /\ flight'[n].read = flight[n].read
                            /\ flight'[n].pc # "none" => flight[n].pc # "none"
                            /\ Writing(n)' => Writing(n)
    <3>1. ASSUME NEW b \in BOOLEAN, IssuerGrants(m, b) PROVE <2>1!:
      BY <1>0, <3>1 DEF IssuerGrants, Flight, TypeOK
    <3>2. ASSUME NEW b \in BOOLEAN, IssuerRefuses(m, b) PROVE <2>1!:
      BY <1>0, <3>2 DEF IssuerRefuses, Flight, TypeOK
    <3> QED BY <1>3, <3>1, <3>2
  <2> QED BY <2>1
<1>4. ASSUME NEW m \in Names, Receive(m) PROVE Persisted'
  <2>1. /\ UNCHANGED <<file, undone>> /\ flight[m].next = flight[m].spent
        /\ flight[m].pc # "none" /\ \A n \in Names : ~Writing(n)
    BY <1>4 DEF Receive, At, Rotated, Blocked
  <2>2. /\ tokens'[m].line = flight[m].line /\ tokens'[m].seq = flight[m].next
        /\ flight'[m].pc = "none"
        /\ \A n \in Names \ {m} : tokens'[n] = tokens[n] /\ flight'[n] = flight[n]
    BY <1>a, <1>4, Mints DEF TypeOK
  <2> QED BY <2>1, <2>2
<1>5. ASSUME NEW m \in Names, ReadForRotation(m) PROVE Persisted'
  <2>1. /\ UNCHANGED <<file, undone, tokens>> /\ flight'[m].read = file
        /\ flight'[m].line = flight[m].line /\ flight'[m].spent = flight[m].spent
        /\ flight[m].pc # "none" /\ \A n \in Names : ~Writing(n)
        /\ \A n \in Names \ {m} : flight'[n] = flight[n]
    BY <1>0, <1>5 DEF ReadForRotation, At, Blocked, TypeOK, Flight
  <2> QED BY <2>1
<1>6. ASSUME NEW m \in Names, WriteRotation(m) PROVE Persisted'
  <2>1. /\ undone' = undone /\ Writing(m) /\ flight[m].pc # "none"
        /\ \A n \in Names : ~Writing(n)'
        /\ tokens'[m].line = flight[m].line /\ tokens'[m].seq = flight[m].next
        /\ flight'[m].pc = "none"
        /\ \A n \in Names \ {m} : tokens'[n] = tokens[n] /\ flight'[n] = flight[n]
    <3>1. /\ tokens'[m].line = flight[m].line /\ tokens'[m].seq = flight[m].next
          /\ flight'[m].pc = "none"
          /\ \A n \in Names \ {m} : tokens'[n] = tokens[n] /\ flight'[n] = flight[n]
      BY <1>a, <1>6, Mints DEF TypeOK
    <3>2. undone' = undone /\ Writing(m) /\ flight[m].pc # "none"
      BY <1>6 DEF WriteRotation
    <3>3. \A n \in Names \ {m} : ~Writing(n)
      BY <3>2 DEF Flights
    <3> QED BY <3>1, <3>2, <3>3
  <2>2. CASE flight[m].read[m].binds /\ file' = Merged(flight[m].read, m, flight[m])
    <3>1. /\ file'[m].line = flight[m].line /\ file'[m].seq = flight[m].next
          /\ file'[m].binds
          /\ \A n \in Names \ {m} : file'[n] = flight[m].read[n]
      BY <1>0, <2>2 DEF Merged, Record
    <3> QED BY <1>0, <2>1, <3>1
  <2>3. CASE ~flight[m].read[m].binds /\ file' = file
    BY <1>0, <2>1, <2>3
  <2> QED BY <1>6, <2>2, <2>3 DEF WriteRotation
<1>7. ASSUME NEW m \in Names, GoStale(m) PROVE Persisted'
  <2>1. /\ UNCHANGED <<file, undone, flight>>
        /\ \A n \in Names : /\ tokens'[n].id = tokens[n].id /\ tokens'[n].line = tokens[n].line
                            /\ tokens'[n].seq = tokens[n].seq
    BY <1>0, <1>7 DEF GoStale, Entry, TypeOK
  <2> QED BY <2>1
<1>8. ASSUME UNCHANGED <<file, undone, flight, tokens>> PROVE Persisted'
  BY <1>8
<1>9. ASSUME GrantWrites PROVE Persisted'
  <2>1. \A n \in Names : /\ tokens[n].line # grants
                         /\ flight[n].pc # "none" => flight[n].line # grants
    <3>1. \A n \in Names : tokens[n].line <= Used /\ tokens[n].line \in Nat
      BY <1>0 DEF Lineages, Entry, Lines, None
    <3>2. Used \in Nat /\ grants = Used + 1
      <4>0. grants \in Nat
        BY EngineAssumption DEF TypeOK
      <4>1. grantor.running /\ grants = Used + 1 /\ grants \in Nat
        BY <1>9, <4>0, GrantLeaves
      <4>2. grants > 0 /\ Used = grants - 1
        BY <4>1 DEF Used, Lineages
      <4> QED BY <4>1, <4>2
    <3>3. \A n \in Names : flight[n].pc # "none" => flight[n].line \in Nat /\ flight[n].line <= Used
      BY HeldLines DEF Lines
    <3> QED BY <3>1, <3>2, <3>3
  <2>2. \A n \in Names : file'[n].line \notin undone' /\ file'[n].line # grants
                         => file'[n] = file[n]
    BY <1>9, GrantLeaves
  <2>3. undone \subseteq undone' /\ UNCHANGED <<tokens, flight>>
    BY <1>9, GrantLeaves
  <2> QED BY <2>1, <2>2, <2>3
<1>10. ASSUME Restart PROVE Persisted'
  BY <1>a, <1>10 DEF Restart
<1> QED BY <1>1, <1>2, <1>3, <1>4, <1>5, <1>6, <1>7, <1>8, <1>9, <1>10
        DEF Next, Exchange, GrantReads, Revoke, vars

-----------------------------------------------------------------------------
(***************************************************************************)
(* What the issuer honours                                                 *)
(***************************************************************************)
\* The end of a flight leaves the issuer's token of its lineage in the record,
\* unless it rotated: then the lineage must be broken by that step.
LEMMA Settled ==
  ASSUME TypeOK, Flights, Honoured, NEW n \in Names, Current(file, n)
  PROVE  \/ file[n].line \in {None} \cup Lost
         \/ issuer[file[n].line] = file[n].seq
         \/ Due(n) /\ Rotated(flight[n]) /\ flight[n].line = file[n].line
<1>1. CASE Due(n) /\ ~Rotated(flight[n]) /\ flight[n].line = file[n].line
           /\ flight[n].spent = file[n].seq
  BY <1>1 DEF Honoured, Rotated
<1> QED BY <1>1 DEF Current

\* Every step keeps the issuer and what is presented to it in agreement.
LEMMA HonouredStep ==
  TypeOK /\ Flights /\ Lineages /\ Copies /\ Numbers /\ Honoured /\ [Next]_vars => Honoured'
<1> SUFFICES ASSUME TypeOK, Flights, Lineages, Copies, Numbers, Honoured, [Next]_vars
             PROVE  Honoured'
  OBVIOUS
<1> USE DEF Current, Writing, Due, Lost
<1>0. /\ \A n \in Names : flight[n] \in Flight /\ file[n] \in Record
      /\ \A k \in Names : flight[k].read \in [Names -> Record]
      /\ grants \in Nat
  BY EngineAssumption DEF TypeOK, Flight
<1>a. NoFlight.pc = "none"
  BY DEF NoFlight
<1>b. grantor.running => grants = Used + 1 /\ Used \in Nat
  BY <1>0 DEF Used, Lineages
<1>1. ASSUME NEW c \in Callers, Serve(c) \/ \E n \in Names : Lease(c, n) \/ List(c, n)
      PROVE  Honoured'
  <2>1. UNCHANGED <<file, issuer, grantor, grants, broken, undone>>
    BY <1>1, RequestFrame
  <2>2. \A n \in Names : ~Writing(n)'
    BY <1>1, RequestFrame
  <2>3. ASSUME NEW n \in Names, flight'[n] = flight[n]
        PROVE  /\ Current(file, n)'
               /\ flight'[n].pc = "asking" /\ flight'[n].line \notin Lost
                  => issuer[flight'[n].line] = flight'[n].spent
               /\ Due(n)' /\ flight'[n].line \notin Lost
                  => issuer[flight'[n].line] = flight'[n].next
               /\ flight'[n].pc = "refused" => flight'[n].line \in Lost
    BY <2>1, <2>3 DEF Honoured
  <2>4. ASSUME NEW n \in Names, flight[n].pc = "none", flight'[n].pc = "asking",
               file[n].line \in Lines, flight'[n].line = file[n].line,
               flight'[n].spent = file[n].seq
        PROVE  /\ Current(file, n)'
               /\ flight'[n].line \notin Lost => issuer[flight'[n].line] = flight'[n].spent
    <3>1. Current(file, n) /\ file[n].line # None
      BY <2>4 DEF Honoured, Lines, None
    <3> QED BY <2>1, <2>4, <3>1
  <2>5. \A n \in Names :
          \/ flight'[n] = flight[n]
          \/ /\ flight[n].pc = "none" /\ flight'[n].pc = "asking"
             /\ file[n].line \in Lines /\ flight'[n].line = file[n].line
             /\ flight'[n].spent = file[n].seq
    BY <1>1, RequestFrame
  <2>6. grantor'.running /\ grants' \notin broken' => issuer'[grants'] = 1
    BY <2>1 DEF Honoured
  <2> QED BY <2>1, <2>2, <2>3, <2>4, <2>5, <2>6 DEF Honoured
<1>2. ASSUME NEW m \in Names, ExchangeFails(m) \/ InvalidGrant(m) \/ RotationFails(m)
      PROVE  Honoured'
  <2>1. /\ UNCHANGED <<file, issuer, undone, grantor, grants>> /\ broken \subseteq broken'
        /\ flight'[m].pc = "none"
        /\ \A n \in Names \ {m} : flight'[n] = flight[n]
    <3>1. broken \subseteq broken'
      BY <1>2 DEF ExchangeFails, InvalidGrant, RotationFails
    <3> QED BY <1>a, <1>2, <3>1, Fails DEF TypeOK
  <2>2. Due(m) /\ Rotated(flight[m]) => flight[m].line \in broken'
    BY <1>2 DEF ExchangeFails, InvalidGrant, RotationFails, At
  <2>3. Current(file, m)'
    <3>1. Current(file, m)
      BY DEF Honoured
    <3> QED BY <2>1, <2>2, <3>1, Settled
  <2>4. \A k \in Names : Writing(k)' /\ k # m => ~Writing(m)
    BY <2>1 DEF Flights
  <2>5. ASSUME NEW k \in Names, Writing(k)' PROVE Current(flight[k].read, m)'
    <3>1. k # m /\ Writing(k) /\ ~Writing(m) /\ flight'[k] = flight[k]
      BY <2>1, <2>4, <2>5
    <3>2. Current(flight[k].read, m)
      BY <3>1 DEF Honoured
    <3>3. CASE Due(m) /\ ~Rotated(flight[m]) /\ flight[m].line = flight[k].read[m].line
               /\ flight[m].spent = flight[k].read[m].seq
      BY <2>1, <3>1, <3>3 DEF Honoured, Rotated
    <3> QED BY <2>1, <2>2, <3>1, <3>2, <3>3
  <2> QED BY <2>1, <2>3, <2>5 DEF Honoured
<1>3. ASSUME NEW m \in Names, NEW b \in BOOLEAN, IssuerGrants(m, b) PROVE Honoured'
  <2>1. /\ UNCHANGED <<file, broken, undone, grantor, grants>>
        /\ flight[m].pc = "asking" /\ issuer[flight[m].line] = flight[m].spent
        /\ flight'[m].pc = "answered" /\ flight'[m].line = flight[m].line
        /\ flight'[m].spent = flight[m].spent
        /\ \A n \in Names \ {m} : flight'[n] = flight[n]
    BY <1>0, <1>3 DEF IssuerGrants, Flight, TypeOK, world
  <2>2. /\ issuer'[flight[m].line] = flight'[m].next
        /\ \A l \in Lines : l # flight[m].line => issuer'[l] = issuer[l]
    BY <1>0, <1>3, <2>1 DEF IssuerGrants, Flight, Flights, TypeOK
  <2>3. /\ \A n \in Names \ {m} :
             /\ file[n].line # flight[m].line
             /\ flight[n].pc # "none" => flight[n].line # flight[m].line
             /\ \A k \in Names : flight[k].read[n].line # flight[m].line
        /\ grantor.running => grants # flight[m].line /\ grants \in Lines
    <3>1. grantor.running => grants # flight[m].line
      BY <1>b, <2>1, HeldLines DEF Lines
    <3>2. grantor.running => grants \in Lines
      BY <1>0 DEF Lineages, Lines, TypeOK
    <3> QED BY <2>1, <3>1, <3>2, OneOwner
  <2>4. ASSUME NEW n \in Names PROVE Current(file, n)'
    <3>1. Current(file, n) /\ file[n].line \in {None} \cup Lines
      BY <1>0 DEF Honoured, Record
    <3> QED BY <2>1, <2>2, <2>3, <3>1
  <2>5. ASSUME NEW n \in Names, NEW k \in Names, Writing(k)' PROVE Current(flight[k].read, n)'
    <3>1. k # m /\ Writing(k) /\ flight'[k] = flight[k]
      BY <2>1, <2>5
    <3>2. Current(flight[k].read, n) /\ flight[k].read[n].line \in {None} \cup Lines
      BY <1>0, <3>1 DEF Honoured, Record
    <3> QED BY <2>1, <2>2, <2>3, <3>1, <3>2
  <2>6. ASSUME NEW n \in Names \ {m}
        PROVE  /\ flight'[n].pc = "asking" /\ flight'[n].line \notin Lost
                  => issuer'[flight'[n].line] = flight'[n].spent
               /\ Due(n)' /\ flight'[n].line \notin Lost
                  => issuer'[flight'[n].line] = flight'[n].next
               /\ flight'[n].pc = "refused" => flight'[n].line \in Lost
    <3>1. flight[n].pc # "none" => flight[n].line \in Lines
      BY DEF Flights
    <3> QED BY <2>1, <2>2, <2>3, <3>1 DEF Honoured
  <2> QED BY <2>1, <2>2, <2>3, <2>4, <2>5, <2>6 DEF Honoured
<1>4. ASSUME NEW m \in Names, NEW b \in BOOLEAN, IssuerRefuses(m, b) PROVE Honoured'
  <2>1. /\ UNCHANGED <<file, broken, undone, grantor, grants>>
        /\ flight[m].pc = "asking" /\ issuer[flight[m].line] # flight[m].spent
        /\ flight'[m].pc = "refused" /\ flight'[m].line = flight[m].line
        /\ \A n \in Names \ {m} : flight'[n] = flight[n]
    BY <1>0, <1>4 DEF IssuerRefuses, Flight, TypeOK, world
  <2>2. flight[m].line \in Lost
    BY <2>1 DEF Honoured
  <2>3. \A l \in Lines : l # flight[m].line => issuer'[l] = issuer[l]
    BY <1>0, <1>4 DEF IssuerRefuses, TypeOK
  <2>4. grantor.running => grants # flight[m].line /\ grants \in Lines
    <3>1. grantor.running => grants # flight[m].line
      BY <1>b, <2>1, HeldLines DEF Lines
    <3> QED BY <1>0, <3>1 DEF Lineages, Lines, TypeOK
  <2>5. ASSUME NEW n \in Names PROVE Current(file, n)'
    <3>1. Current(file, n) /\ file[n].line \in {None} \cup Lines
      BY <1>0 DEF Honoured, Record
    <3> QED BY <2>1, <2>2, <2>3, <3>1
  <2>6. ASSUME NEW n \in Names, NEW k \in Names, Writing(k)' PROVE Current(flight[k].read, n)'
    <3>1. k # m /\ Writing(k) /\ flight'[k] = flight[k]
      BY <2>1, <2>6
    <3>2. Current(flight[k].read, n) /\ flight[k].read[n].line \in {None} \cup Lines
      BY <1>0, <3>1 DEF Honoured, Record
    <3> QED BY <2>1, <2>2, <2>3, <3>1, <3>2
  <2>7. ASSUME NEW n \in Names \ {m}
        PROVE  /\ flight'[n].pc = "asking" /\ flight'[n].line \notin Lost
                  => issuer'[flight'[n].line] = flight'[n].spent
               /\ Due(n)' /\ flight'[n].line \notin Lost
                  => issuer'[flight'[n].line] = flight'[n].next
               /\ flight'[n].pc = "refused" => flight'[n].line \in Lost
    <3>1. flight[n].pc # "none" => flight[n].line \in Lines
      BY DEF Flights
    <3> QED BY <2>1, <2>2, <2>3, <3>1 DEF Honoured
  <2> QED BY <2>1, <2>2, <2>3, <2>4, <2>5, <2>6, <2>7 DEF Honoured
<1>5. ASSUME NEW m \in Names, Receive(m) PROVE Honoured'
  <2>1. /\ UNCHANGED <<file, issuer, broken, undone, grantor, grants>>
        /\ ~Rotated(flight[m]) /\ \A n \in Names : ~Writing(n)
        /\ flight'[m].pc = "none"
        /\ \A n \in Names \ {m} : flight'[n] = flight[n]
    <3>1. flight'[m].pc = "none" /\ \A n \in Names \ {m} : flight'[n] = flight[n]
      BY <1>a, <1>5, Mints DEF TypeOK
    <3> QED BY <1>5, <3>1 DEF Receive, At, Blocked, world
  <2>2. Current(file, m)'
    <3>1. Current(file, m)
      BY DEF Honoured
    <3> QED BY <2>1, <3>1, Settled
  <2> QED BY <2>1, <2>2 DEF Honoured
<1>6. ASSUME NEW m \in Names, ReadForRotation(m) PROVE Honoured'
  <2>1. /\ UNCHANGED <<file, issuer, broken, undone, grantor, grants>>
        /\ flight[m].pc = "answered" /\ flight'[m].pc = "writing" /\ flight'[m].read = file
        /\ flight'[m].line = flight[m].line /\ flight'[m].spent = flight[m].spent
        /\ flight'[m].next = flight[m].next
        /\ \A n \in Names : ~Writing(n)
        /\ \A n \in Names \ {m} : flight'[n] = flight[n]
    BY <1>0, <1>6 DEF ReadForRotation, At, Blocked, Flight, TypeOK, world
  <2>2. \A n \in Names : Current(file, n)'
    BY <2>1 DEF Honoured
  <2> QED BY <2>1, <2>2 DEF Honoured
<1>7. ASSUME NEW m \in Names, WriteRotation(m) PROVE Honoured'
  <2>1. /\ UNCHANGED <<issuer, undone, grantor, grants>> /\ broken \subseteq broken'
        /\ Writing(m) /\ flight'[m].pc = "none"
        /\ \A n \in Names \ {m} : flight'[n] = flight[n] /\ ~Writing(n)
    <3>1. flight'[m].pc = "none" /\ \A n \in Names \ {m} : flight'[n] = flight[n]
      BY <1>a, <1>7, Mints DEF TypeOK
    <3> QED BY <1>7, <3>1 DEF WriteRotation, Flights, world
  <2>2. CASE file' = Merged(flight[m].read, m, flight[m]) /\ broken' = broken
    <3>1. /\ file'[m].line = flight[m].line /\ file'[m].seq = flight[m].next
          /\ \A n \in Names \ {m} : file'[n] = flight[m].read[n]
      BY <1>0, <2>2 DEF Merged, Record
    <3>2. flight[m].line \in Lost \/ issuer[flight[m].line] = flight[m].next
      BY <2>1 DEF Honoured
    <3>3. \A n \in Names \ {m} : Current(flight[m].read, n)
      BY <2>1 DEF Honoured
    <3>4. \A n \in Names : Current(file, n)'
      BY <2>1, <2>2, <3>1, <3>2, <3>3
    <3> QED BY <2>1, <2>2, <3>4 DEF Honoured
  <2>3. CASE file' = file /\ broken' = broken \cup {flight[m].line}
    <3>1. \A n \in Names : Current(file, n)
      BY DEF Honoured
    <3>2. \A n \in Names : Current(file, n)'
      BY <2>1, <2>3, <3>1
    <3> QED BY <2>1, <2>3, <3>2 DEF Honoured
  <2> QED BY <1>7, <2>2, <2>3 DEF WriteRotation
<1>8. ASSUME NEW m \in Names, GoStale(m) PROVE Honoured'
  BY <1>8 DEF GoStale, world, Honoured
<1>9. ASSUME NEW m \in Names, NEW b \in BOOLEAN, GrantReads(m, b) PROVE Honoured'
  <2>1. /\ UNCHANGED <<file, flight, broken, undone>> /\ ~grantor.running
        /\ grants' = grants + 1 /\ grants + 1 \in Lines
        /\ issuer' = [issuer EXCEPT ![grants + 1] = 1]
    BY <1>0, <1>9, EngineAssumption DEF GrantReads, Lines
  <2>2. \A l \in Lines : l <= Used => issuer'[l] = issuer[l]
    BY <1>0, <2>1 DEF Used, TypeOK, Lines
  <2>3. issuer'[grants'] = 1
    BY <2>1 DEF TypeOK
  <2>4. ASSUME NEW n \in Names PROVE Current(file, n)'
    BY <2>1, <2>2, HeldLines DEF Honoured
  <2>5. ASSUME NEW n \in Names, NEW k \in Names, Writing(k)' PROVE Current(flight[k].read, n)'
    BY <2>1, <2>2, <2>5, HeldLines DEF Honoured
  <2>6. \A n \in Names : flight[n].pc # "none" => issuer'[flight[n].line] = issuer[flight[n].line]
    BY <2>2, HeldLines
  <2> QED BY <2>1, <2>3, <2>4, <2>5, <2>6 DEF Honoured
<1>10. ASSUME GrantWrites PROVE Honoured'
  <2>1. \A n \in Names : \/ file'[n] = file[n]
                         \/ file'[n].line \in undone'
                         \/ file'[n].line = grants /\ file'[n].seq = 1
    BY <1>10, GrantLeaves
  <2>2. /\ UNCHANGED <<issuer, flight, broken>> /\ undone \subseteq undone'
        /\ grantor.running /\ grantor'.running = FALSE
    BY <1>10, GrantLeaves
  <2>3. \A n \in Names : Current(file, n)'
    BY <2>1, <2>2 DEF Honoured
  <2> QED BY <2>2, <2>3 DEF Honoured
<1>11. ASSUME NEW l \in Lines, Revoke(l) PROVE Honoured'
  <2>1. /\ UNCHANGED <<file, flight, undone, grantor, grants>>
        /\ broken' = broken \cup {l}
        /\ \A h \in Lines : h # l => issuer'[h] = issuer[h]
    BY <1>11 DEF Revoke, TypeOK, world
  <2>2. grantor.running => grants \in Lines
    BY <1>0 DEF Lineages, Lines, TypeOK
  <2>3. ASSUME NEW n \in Names PROVE Current(file, n)'
    BY <2>1, HeldLines DEF Honoured
  <2>4. ASSUME NEW n \in Names, NEW k \in Names, Writing(k)' PROVE Current(flight[k].read, n)'
    BY <2>1, <2>4, HeldLines DEF Honoured
  <2>5. \A n \in Names : flight[n].pc # "none" => flight[n].line \in Lines
    BY DEF Flights
  <2> QED BY <2>1, <2>2, <2>3, <2>4, <2>5 DEF Honoured
<1>12. ASSUME Restart PROVE Honoured'
  <2>1. /\ UNCHANGED <<file, issuer, undone, grantor, grants>>
        /\ \A n \in Names : flight'[n].pc = "none"
        /\ broken \subseteq broken'
        /\ \A n \in Names : Rotated(flight[n]) => flight[n].line \in broken'
    BY <1>a, <1>12 DEF Restart, world
  <2>2. ASSUME NEW n \in Names PROVE Current(file, n)'
    <3>1. Current(file, n)
      BY DEF Honoured
    <3> QED BY <2>1, <3>1, Settled
  <2> QED BY <2>1, <2>2 DEF Honoured
<1>13. ASSUME UNCHANGED vars PROVE Honoured'
  BY <1>13 DEF vars, Honoured
<1> QED BY <1>1, <1>2, <1>3, <1>4, <1>5, <1>6, <1>7, <1>8, <1>9, <1>10, <1>11, <1>12, <1>13
        DEF Next, Exchange

-----------------------------------------------------------------------------
(***************************************************************************)
(* The theorems                                                            *)
(***************************************************************************)
LEMMA InvInit == Init => IInv
<1> SUFFICES ASSUME Init PROVE IInv
  OBVIOUS
<1> USE EngineAssumption DEF Init
<1>0. /\ \A n \in Names : NoRead[n] = Absent
      /\ Absent.line = None /\ Absent.binds = FALSE /\ NoFlight.pc = "none"
      /\ NoFlight.line = None /\ NoFlight.id = None /\ NoFlight.read = NoRead
      /\ NoFlight.next = NoFlight.spent /\ NoGrantor.read = NoRead
      /\ Empty.id = None /\ Empty.gen = 0 /\ Empty.line = None
      /\ Idle.pc = "idle" /\ Idle.id = None /\ Idle.name \in Names
  BY ConstantTypes DEF NoRead, Absent, NoFlight, NoGrantor, Empty, Idle, None, Request
<1>1. TypeOK
  <2>1. 0 \in 0..MaxExchanges + 1
    OBVIOUS
  <2> QED BY <2>1, ConstantTypes DEF TypeOK
<1>2. Flights
  BY <1>0 DEF Flights, Due, Writing
<1>3. \A n \in Names, l \in Lines : ~Has(n, l)
  BY <1>0 DEF Has, Read
<1>4. Lineages
  BY <1>0, <1>3 DEF Lineages, Used, None
<1>5. Copies
  BY <1>0 DEF Copies, Sound, Read, Writing
<1>6. Numbers
  BY <1>0 DEF Numbers, Due, None
<1>7. Requests
  BY <1>0 DEF Requests, Due
<1>8. Persisted
  BY <1>0 DEF Persisted, KeepsUp, Writing
<1>9. Honoured
  BY <1>0 DEF Honoured, Current, Due, Writing
<1> QED BY <1>1, <1>2, <1>4, <1>5, <1>6, <1>7, <1>8, <1>9 DEF IInv

\* The invariant holds of every behaviour: whatever the interleaving of the
\* requests, the exchanges, the grant command and the restarts.
THEOREM InvHolds == Spec => []IInv
<1>1. IInv /\ [Next]_vars => IInv'
  BY TypeStep, FlightsStep, LineagesStep, CopiesStep, NumbersStep, RequestsStep,
     PersistedStep, HonouredStep DEF IInv
<1> QED BY InvInit, <1>1, PTL DEF Spec

\* Every value stays in its type: in particular the generation and the places in
\* a lineage never pass the number of exchanges.
THEOREM Typed == Spec => []TypeOK
<1>1. IInv => TypeOK
  BY DEF IInv
<1> QED BY <1>1, InvHolds, PTL

\* The retry of a 401 carries a token minted after the refused one
\* (token-engine.ts's generation check and its single flight).
THEOREM RetriesAreNewer == Spec => []RetryIsNewer
<1>1. IInv => RetryIsNewer
  <2> SUFFICES ASSUME IInv, NEW c \in Callers, caller[c].pc = "retrying"
               PROVE  caller[c].id > caller[c].old
    BY DEF RetryIsNewer
  <2>1. caller[c] \in Request /\ caller[c].old < caller[c].id
    BY DEF IInv, TypeOK, Requests
  <2> QED BY <2>1, EngineAssumption DEF Request
<1> QED BY <1>1, InvHolds, PTL

\* The file holds the refresh token that goes with the token in hand, or one that
\* is newer, unless the grant command of another name took it away.
THEOREM RotationIsPersisted == Spec => []PersistedBeforeUse
<1>1. IInv => PersistedBeforeUse
  BY DEF IInv, Persisted, KeepsUp, AsNew, PersistedBeforeUse
<1> QED BY <1>1, InvHolds, PTL

\* The issuer refuses a refresh token only of a lineage that was revoked, whose
\* last token was lost on its way, or that the grant command wrote over.
THEOREM RefusalsHaveCause == Spec => []RefusedForCause
<1>1. IInv => RefusedForCause
  BY DEF IInv, Honoured, Lost, RefusedForCause
<1> QED BY <1>1, InvHolds, PTL

-----------------------------------------------------------------------------
(***************************************************************************)
(* Nobody waits on nothing                                                 *)
(***************************************************************************)
\* Where no flight begins or ends, and nobody begins or ceases to wait.
LEMMA SameAwaits ==
  ASSUME FlightsAreAwaited, caller' = caller,
         \A n \in Names : flight'[n].pc = "none" <=> flight[n].pc = "none"
  PROVE  FlightsAreAwaited'
BY DEF FlightsAreAwaited, Awaits, InFlight

\* One request moves: it joins or starts the flight it then waits for.
LEMMA AwaitsMint ==
  ASSUME TypeOK, FlightsAreAwaited, NEW c \in Callers, NEW q \in Request,
         caller[c].pc \notin Waiting,
         \/ q.pc \in Waiting /\ MintFor(c, q)
         \/ /\ q.pc \notin Waiting /\ UNCHANGED flight
            /\ caller' = [caller EXCEPT ![c] = q]
  PROVE  FlightsAreAwaited'
<1> DEFINE n == q.name
<1>1. n \in Names /\ caller \in [Callers -> Request] /\ flight \in [Names -> Flight]
  BY DEF Request, TypeOK
<1>2. \A d \in Callers \ {c} : caller'[d] = caller[d]
  BY <1>1 DEF MintFor
<1>3. Idle.pc \notin Waiting
  BY DEF Idle, Waiting
<1>4. CASE caller'[c].pc \notin Waiting /\ UNCHANGED flight
  BY <1>2, <1>4 DEF FlightsAreAwaited, Awaits, InFlight
<1>5. CASE caller'[c] = q /\ q.pc \in Waiting
  <2>1. /\ flight'[n].pc # "none"
        /\ \A m \in Names \ {n} : flight'[m] = flight[m]
    <3>1. \/ InFlight(n) /\ UNCHANGED flight
          \/ flight' = [flight EXCEPT ![n] = Started(n)]
      BY <1>1, <1>3, <1>5 DEF MintFor, Started
    <3>2. Started(n).pc = "asking"
      BY DEF Started, NoFlight
    <3> QED
      BY <1>1, <3>1, <3>2 DEF InFlight
  <2>2. Awaits(c, n)'
    BY <1>5 DEF Awaits
  <2>3. \A m \in Names \ {n} : (\E d \in Callers : Awaits(d, m))' <=> \E d \in Callers : Awaits(d, m)
    BY <1>2, <1>5 DEF Awaits
  <2> QED
    BY <2>1, <2>2, <2>3 DEF FlightsAreAwaited, InFlight
<1> QED
  BY <1>1, <1>3, <1>4, <1>5 DEF MintFor

\* A request's step.
LEMMA AwaitsServe ==
  ASSUME TypeOK, FlightsAreAwaited, NEW c \in Callers,
         Serve(c) \/ \E n \in Names : Lease(c, n) \/ List(c, n)
  PROVE  FlightsAreAwaited'
<1>0. caller[c] \in Request /\ Idle \in Request /\ \A n \in Names : tokens[n] \in Entry
  BY ConstantTypes DEF TypeOK
<1>1. ASSUME NEW n \in Names, Lease(c, n) PROVE FlightsAreAwaited'
  <2> DEFINE q == [Idle EXCEPT !.name = n]
  <2>1. /\ [q EXCEPT !.pc = "leased"] \in Request /\ [q EXCEPT !.pc = "leasing"] \in Request
        /\ caller[c].pc \notin Waiting
    BY <1>0, <1>1 DEF Request, Idle, Waiting, Lease
  <2> QED
    BY <1>1, <2>1, AwaitsMint DEF Lease, Idle, Waiting
<1>2. ASSUME NEW n \in Names, List(c, n) PROVE FlightsAreAwaited'
  <2>1. /\ [Idle EXCEPT !.pc = "leased", !.name = n] \in Request
        /\ caller[c].pc \notin Waiting
    BY <1>0, <1>2 DEF Request, Idle, Waiting, List
  <2> QED
    BY <1>2, <2>1, AwaitsMint DEF List, Idle, Waiting
<1>3. ASSUME Acquire(c) PROVE FlightsAreAwaited'
  <2> DEFINE q == caller[c]
  <2>1. /\ [Holding(q, tokens[q.name]) EXCEPT !.pc = "calling"] \in Request
        /\ [q EXCEPT !.pc = "acquiring"] \in Request
        /\ q.pc \notin Waiting
    BY <1>0, <1>3 DEF Request, Waiting, Acquire, Holding, Entry
  <2> QED
    BY <1>0, <1>3, <2>1, AwaitsMint DEF Acquire, Request, Waiting, Holding
<1>4. ASSUME Served(c) PROVE FlightsAreAwaited'
  <2>1. caller[c].pc \notin Waiting
    BY <1>4 DEF Served, Waiting
  <2> QED
    BY <1>0, <1>4, <2>1, AwaitsMint DEF Served, Idle, Waiting
<1>5. ASSUME Rejected(c) PROVE FlightsAreAwaited'
  <2> DEFINE r == [caller[c] EXCEPT !.old = caller[c].id, !.pc = "refreshing"]
  <2>1. /\ r \in Request /\ [Holding(r, tokens[r.name]) EXCEPT !.pc = "retrying"] \in Request
        /\ caller[c].pc \notin Waiting
    BY <1>0, <1>5 DEF Request, Waiting, Rejected, Holding, Entry
  <2> QED
    BY <1>0, <1>5, <2>1, AwaitsMint DEF Rejected, Request, Waiting, Holding
<1> QED
  BY <1>1, <1>2, <1>3, <1>4, <1>5 DEF Serve

\* A flight that ends takes everybody who awaits it along.
LEMMA AwaitsSettle ==
  ASSUME TypeOK, FlightsAreAwaited, NEW n \in Names, flight' = [flight EXCEPT ![n] = NoFlight],
         \A c \in Callers : IF Awaits(c, n) THEN caller'[c].pc \notin Waiting
                                            ELSE caller'[c] = caller[c]
  PROVE  FlightsAreAwaited'
<1>1. flight'[n].pc = "none" /\ \A m \in Names \ {n} : flight'[m] = flight[m]
  BY DEF TypeOK, NoFlight
<1>2. \A c \in Callers : ~Awaits(c, n)'
  BY DEF Awaits
<1>3. \A m \in Names \ {n}, c \in Callers : Awaits(c, m)' <=> Awaits(c, m)
  BY DEF Awaits
<1> QED
  BY <1>1, <1>2, <1>3 DEF FlightsAreAwaited, InFlight

\* A request waits exactly while an exchange of its name is in flight
\* (token-engine.ts's map of flights, and the `finally' that clears it).
THEOREM NobodyWaitsOnNothing == Spec => []FlightsAreAwaited
<1>0. NoFlight.pc = "none" /\ Idle.pc = "idle" /\ "idle" \notin Waiting
  BY DEF NoFlight, Idle, Waiting
<1>1. Init => FlightsAreAwaited
  BY <1>0 DEF Init, FlightsAreAwaited, InFlight, Awaits
<1>2. IInv /\ FlightsAreAwaited /\ [Next]_vars => FlightsAreAwaited'
  <2> SUFFICES ASSUME IInv, FlightsAreAwaited, [Next]_vars PROVE FlightsAreAwaited'
    OBVIOUS
  <2>0. TypeOK /\ flight \in [Names -> Flight] /\ caller \in [Callers -> Request]
    BY DEF IInv, TypeOK
  <2>1. ASSUME NEW c \in Callers, Serve(c) \/ \E n \in Names : Lease(c, n) \/ List(c, n)
        PROVE  FlightsAreAwaited'
    BY <2>0, <2>1, AwaitsServe
  <2>2. ASSUME NEW n \in Names, ExchangeFails(n) \/ InvalidGrant(n) \/ RotationFails(n)
        PROVE  FlightsAreAwaited'
    <3>1. FailFlight(n)
      BY <2>2 DEF ExchangeFails, InvalidGrant, RotationFails, Unpersisted
    <3> QED
      BY <2>0, <3>1, AwaitsSettle DEF FailFlight, Idle, Waiting
  <2>3. ASSUME NEW n \in Names, Receive(n) \/ WriteRotation(n) PROVE FlightsAreAwaited'
    <3>1. Minted(n)
      BY <2>3 DEF Receive, WriteRotation
    <3>2. \A c \in Callers : \A e : Awaits(c, n) => WithToken(caller[c], e).pc \notin Waiting
      BY <2>0 DEF Awaits, WithToken, Waiting, Holding, Request
    <3> QED
      BY <2>0, <3>1, <3>2, AwaitsSettle DEF Minted, Deliver
  <2>4. ASSUME NEW n \in Names,
               ReadForRotation(n) \/ \E b \in BOOLEAN : IssuerGrants(n, b) \/ IssuerRefuses(n, b)
        PROVE  FlightsAreAwaited'
    <3>1. /\ caller' = caller /\ flight[n].pc # "none" /\ flight'[n].pc # "none"
          /\ \A m \in Names \ {n} : flight'[m] = flight[m]
      <4>1. CASE ReadForRotation(n)
        BY <2>0, <4>1 DEF ReadForRotation, At, Flight
      <4>2. ASSUME NEW b \in BOOLEAN, IssuerGrants(n, b) PROVE <3>1!:
        BY <2>0, <4>2 DEF IssuerGrants, Flight
      <4>3. ASSUME NEW b \in BOOLEAN, IssuerRefuses(n, b) PROVE <3>1!:
        BY <2>0, <4>3 DEF IssuerRefuses, Flight
      <4> QED
        BY <2>4, <4>1, <4>2, <4>3
    <3> QED
      BY <3>1, SameAwaits
  <2>5. ASSUME UNCHANGED <<caller, flight>> PROVE FlightsAreAwaited'
    BY <2>5, SameAwaits
  <2>6. CASE Restart
    BY <1>0, <2>6 DEF Restart, FlightsAreAwaited, InFlight, Awaits
  <2> QED
    BY <2>1, <2>2, <2>3, <2>4, <2>5, <2>6
    DEF Next, Exchange, GoStale, GrantReads, GrantWrites, Revoke, vars
<1> QED
  BY <1>1, <1>2, InvHolds, PTL DEF Spec


-----------------------------------------------------------------------------
(***************************************************************************)
(* A grant made again while no exchange is under way                       *)
(***************************************************************************)
\* The grant command replaces the file while no exchange is in flight, whether
\* of its name or of another.
GrantsBetweenFlights == GrantWrites => \A n \in Names : ~InFlight(n)

\* An exchange spends the grant that is in the file, and so does what a
\* rotation is about to write back of any name.
Matches ==
  \A n \in Names :
    /\ InFlight(n) => flight[n].line = file[n].line
    /\ Writing(n) => \A m \in Names : flight[n].read[m].line = file[m].line

\* Flights that start or go on as they were, over a file that stays.
LEMMA MatchesKept ==
  ASSUME TypeOK, Matches, UNCHANGED file,
         \A n \in Names :
           \/ flight'[n] = flight[n]
           \/ flight'[n] = NoFlight
           \/ flight'[n] = Started(n)
           \/ /\ InFlight(n) /\ flight'[n].line = flight[n].line
              /\ flight'[n].pc = "writing" => flight'[n].read = file
  PROVE  Matches'
<1> SUFFICES ASSUME NEW n \in Names
             PROVE  /\ InFlight(n)' => flight'[n].line = file'[n].line
                    /\ Writing(n)' => \A m \in Names : flight'[n].read[m].line = file'[m].line
  BY DEF Matches
<1>1. CASE flight'[n] = flight[n]
  BY <1>1 DEF Matches, InFlight, Writing
<1>2. CASE flight'[n] = NoFlight
  BY <1>2 DEF NoFlight, InFlight, Writing
<1>3. CASE flight'[n] = Started(n)
  BY <1>3 DEF Started, NoFlight, InFlight, Writing
<1>4. CASE /\ InFlight(n) /\ flight'[n].line = flight[n].line
           /\ flight'[n].pc = "writing" => flight'[n].read = file
  BY <1>4 DEF Matches, InFlight, Writing
<1> QED
  BY <1>1, <1>2, <1>3, <1>4

\* The write of a rotation changes no line of the file.
LEMMA RotationKeepsLines ==
  ASSUME TypeOK, Matches, NEW n \in Names, WriteRotation(n)
  PROVE  \A m \in Names : file'[m].line = file[m].line
<1>1. Writing(n) /\ InFlight(n) /\ flight[n] \in Flight
  BY DEF WriteRotation, Writing, InFlight, TypeOK
<1>2. CASE flight[n].read[n].binds
  <2>1. file' = [flight[n].read EXCEPT ![n] =
                   [flight[n].read[n] EXCEPT !.line = flight[n].line, !.seq = flight[n].next]]
    BY <1>2 DEF WriteRotation, Merged
  <2>2. flight[n].read \in [Names -> Record] /\ flight[n].read[n] \in Record
    BY <1>1 DEF Flight
  <2>3. file'[n].line = flight[n].line
    BY <2>1, <2>2 DEF Record
  <2>4. \A m \in Names \ {n} : file'[m] = flight[n].read[m]
    BY <2>1, <2>2
  <2> QED
    BY <1>1, <2>3, <2>4 DEF Matches
<1>3. CASE ~flight[n].read[n].binds
  BY <1>3 DEF WriteRotation
<1> QED
  BY <1>2, <1>3

LEMMA MatchesStep ==
  ASSUME IInv, Matches, [Next]_vars, [GrantsBetweenFlights]_vars
  PROVE  Matches'
<1>0. TypeOK /\ flight \in [Names -> Flight] /\ \A n, k \in Names : Writing(n) /\ Writing(k) => n = k
  BY DEF IInv, TypeOK, Flights
<1>1. ASSUME NEW c \in Callers, Serve(c) \/ \E n \in Names : Lease(c, n) \/ List(c, n)
      PROVE  Matches'
  <2>1. PICK q : Moved(c, q) /\ Moves(c, q)
    BY <1>0, <1>1, RequestMoves
  <2> QED
    BY <1>0, <2>1, MatchesKept DEF Moves, Asks, Untouched
<1>2. ASSUME NEW n \in Names, ExchangeFails(n) \/ InvalidGrant(n) \/ RotationFails(n)
      PROVE  Matches'
  BY <1>0, <1>2, MatchesKept DEF ExchangeFails, InvalidGrant, RotationFails, Unpersisted, FailFlight
<1>3. ASSUME NEW n \in Names, Receive(n) PROVE Matches'
  BY <1>0, <1>3, MatchesKept DEF Receive, Minted
<1>4. ASSUME NEW n \in Names, WriteRotation(n) PROVE Matches'
  <2>1. \A m \in Names : file'[m].line = file[m].line
    BY <1>0, <1>4, RotationKeepsLines
  <2>2. flight' = [flight EXCEPT ![n] = NoFlight] /\ NoFlight.pc = "none"
    BY <1>4 DEF WriteRotation, Minted, NoFlight
  <2>3. \A m \in Names : flight'[m] = flight[m] \/ flight'[m].pc = "none"
    BY <1>0, <2>2
  <2> QED
    BY <2>1, <2>3 DEF Matches, InFlight, Writing
<1>5. ASSUME NEW n \in Names,
             ReadForRotation(n) \/ \E b \in BOOLEAN : IssuerGrants(n, b) \/ IssuerRefuses(n, b)
      PROVE  Matches'
  <2>1. /\ UNCHANGED file /\ InFlight(n) /\ flight'[n].line = flight[n].line
        /\ flight'[n].pc = "writing" => flight'[n].read = file
        /\ \A m \in Names \ {n} : flight'[m] = flight[m]
    <3>1. CASE ReadForRotation(n)
      BY <1>0, <3>1 DEF ReadForRotation, At, InFlight, Flight
    <3>2. ASSUME NEW b \in BOOLEAN, IssuerGrants(n, b) PROVE <2>1!:
      BY <1>0, <3>2 DEF IssuerGrants, InFlight, Flight
    <3>3. ASSUME NEW b \in BOOLEAN, IssuerRefuses(n, b) PROVE <2>1!:
      BY <1>0, <3>3 DEF IssuerRefuses, InFlight, Flight
    <3> QED
      BY <1>5, <3>1, <3>2, <3>3
  <2> QED
    BY <1>0, <2>1, MatchesKept
<1>6. ASSUME UNCHANGED <<file, flight>> PROVE Matches'
  BY <1>0, <1>6, MatchesKept
<1>7. CASE GrantWrites
  <2>1. CASE GrantsBetweenFlights
    BY <1>7, <2>1 DEF GrantWrites, GrantsBetweenFlights, Matches, InFlight, Writing
  <2>2. CASE UNCHANGED vars
    BY <1>6, <2>2 DEF vars
  <2> QED
    BY <2>1, <2>2
<1>8. CASE Restart
  BY <1>0, <1>8, MatchesKept DEF Restart
<1> QED
  BY <1>1, <1>2, <1>3, <1>4, <1>5, <1>6, <1>7, <1>8
  DEF Next, Exchange, GoStale, GrantReads, Revoke, vars

\* What token-store.ts says of a rotation whose record was replaced mid-flight
\* is so of every grant made while no exchange is under way: it is not written
\* over, by its own rotation or by that of another name, which writes back
\* what it read.  TLC has the later grant that is lost to an exchange of an
\* earlier one (MCRegrantStands.cfg).
THEOREM RegrantsStandIfBetween == Spec /\ [][GrantsBetweenFlights]_vars => RegrantStands
<1>1. Init => Matches
  BY DEF Init, Matches, InFlight, Writing, NoFlight
<1>2. IInv /\ Matches /\ [Next]_vars /\ [GrantsBetweenFlights]_vars => Matches'
  BY MatchesStep
<1>3. ASSUME IInv, Matches, [Next]_vars
      PROVE  [\A n \in Names :
                flight[n].pc = "writing" /\ flight[n].read = file /\ flight'[n].pc = "none"
                => file'[n].line >= file[n].line]_vars
  <2> SUFFICES ASSUME Next, NEW n \in Names, Writing(n), flight'[n].pc = "none"
               PROVE  file'[n].line >= file[n].line
    BY <1>3 DEF Writing
  <2>0. TypeOK /\ Matches /\ file[n].line \in Int
    BY <1>3, EngineAssumption DEF IInv, TypeOK, Record, None, Lines
  <2>1. file' = file \/ (\E m \in Names : WriteRotation(m)) \/ GrantWrites
    <3>1. ASSUME NEW c \in Callers, Serve(c) \/ \E m \in Names : Lease(c, m) \/ List(c, m)
          PROVE  file' = file
      BY <2>0, <3>1, RequestMoves DEF Moves, Untouched
    <3> QED
      BY <3>1 DEF Next, Exchange, GoStale, GrantReads, Revoke, Restart, Receive, ReadForRotation,
        ExchangeFails, InvalidGrant, RotationFails, IssuerGrants, IssuerRefuses
  <2>2. CASE file' = file
    BY <2>0, <2>2
  <2>3. ASSUME NEW m \in Names, WriteRotation(m) PROVE file'[n].line >= file[n].line
    BY <2>0, <2>3, RotationKeepsLines
  <2>4. ~GrantWrites
    BY DEF GrantWrites, Writing
  <2> QED
    BY <2>1, <2>2, <2>3, <2>4
<1> QED
  BY <1>1, <1>2, <1>3, InvHolds, PTL DEF Spec, RegrantStands
=============================================================================
