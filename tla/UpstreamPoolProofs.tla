------------------------- MODULE UpstreamPoolProofs --------------------------
(***************************************************************************)
(* Proofs of the safety properties of UpstreamPool for any calls, limit    *)
(* and number of clients and sessions.                                     *)
(*                                                                         *)
(* The invariant says where a call can be and what it holds there          *)
(* (CallsOK), that a client which is not the pool's entry is quiet for     *)
(* good (ClientsOK), that a handshake in flight has somebody who awaits    *)
(* it, which is what lets the sweep look at the calls only (Awaited), that *)
(* the upstream knows no session but the client's own and those it left    *)
(* there (Kept), and that the count of permits is the number of calls that *)
(* hold one and the line is those who wait (LineOK).  UpstreamBounded then *)
(* is the count of the one client that is not quiet.                       *)
(*                                                                         *)
(* Two invariants more go with it: that whoever awaits a handshake awaits  *)
(* one in flight (HandshakesRun), and, as long as none fails, that a       *)
(* client reopens only what it once had (FirstTry).                        *)
(***************************************************************************)
EXTENDS UpstreamPool, FiniteSetTheorems, SequenceTheorems, TLAPS

-----------------------------------------------------------------------------
(***************************************************************************)
(* The inductive invariant                                                 *)
(***************************************************************************)
Entered == {"admitted", "opening", "reopening", "sent"}

CallOK(c) ==
  LET k == call[c] IN
  /\ k.pc = "idle" <=> k.on = None
  /\ k.on <= pool.created
  /\ k.pc \in {"idle", "leased", "queued"} => k.permit = "none"
  /\ k.pc \in Entered => k.permit # "none"
  /\ k.permit = "inert" => client[k.on].thrown
  /\ k.pc \in {"idle", "leased", "queued", "admitted", "opening"} => k.tries = 0
  /\ k.pc = "reopening" => k.tries <= 1
  /\ k.pc = "sent" => k.tries # 0 /\ k.gen # None
  /\ k.pc \in Entered \cup {"queued"} => ran[c] = 0
  /\ ran[c] <= 1

CallsOK == \A c \in Calls : CallOK(c)

\* Nothing of the client goes to the upstream, nor will.
Quiet(i) ==
  /\ client[i].session = None /\ ~client[i].opening /\ ~client[i].reopening
  /\ \A c \in Calls : call[c].on = i => call[c].pc \notin {"opening", "reopening", "sent"}

ClientOK(i) ==
  /\ client[i].thrown => pool.closed
  /\ client[i].closed => i # pool.entry /\ i <= pool.created
  /\ i # pool.entry /\ i <= pool.created /\ ~pool.closed => client[i].closed
  /\ i # pool.entry /\ ~pool.closed => Quiet(i)

ClientsOK == pool.entry <= pool.created /\ \A i \in Clients : ClientOK(i)

Awaited(i) ==
  /\ client[i].opening => Awaiting(i, "opening") # {}
  /\ client[i].reopening => Awaiting(i, "reopening") # {}

Kept(i) == i \notin doubled =>
  /\ alive[i] \subseteq {client[i].session} \cup client[i].left
  /\ client[i].opening \/ client[i].reopening => client[i].session = None
  /\ ~(client[i].opening /\ client[i].reopening)

\* What is in a sequence, and that nothing is in it twice.
Elems(s) == {s[n] : n \in 1..Len(s)}

Distinct(s) == \A m, n \in 1..Len(s) : s[m] = s[n] => m = n

InLine(i) == Elems(client[i].line)

LineOK(i) ==
  /\ IsFiniteSet(Inside(i)) /\ Cardinality(Inside(i)) = client[i].held
  /\ client[i].line # <<>> => client[i].held = Limit
  /\ client[i].thrown => client[i].line = <<>>
  /\ Distinct(client[i].line)
  /\ \A c \in Calls : (call[c].on = i /\ call[c].pc = "queued") <=> c \in InLine(i)

IInv ==
  /\ TypeOK /\ CallsOK /\ ClientsOK
  /\ \A i \in Clients : Awaited(i) /\ Kept(i) /\ LineOK(i)

-----------------------------------------------------------------------------
(***************************************************************************)
(* Sequences without one of their elements.                                *)
(***************************************************************************)
\* splice(n, 1) closes the gap and keeps the order.
LEMMA Spliced ==
  ASSUME NEW S, NEW s \in Seq(S), NEW n \in 1..Len(s)
  PROVE  /\ RemoveAt(s, n) \in Seq(S) /\ Len(RemoveAt(s, n)) = Len(s) - 1
         /\ \A k \in 1..(Len(s) - 1) : RemoveAt(s, n)[k] = IF k < n THEN s[k] ELSE s[k + 1]
<1> DEFINE a == SubSeq(s, 1, n - 1)
           b == SubSeq(s, n + 1, Len(s))
<1>0. Len(s) \in Nat /\ n \in Nat /\ n >= 1 /\ n <= Len(s) /\ s \in [1..Len(s) -> S]
  BY LenProperties
<1>1. /\ a \in Seq(S) /\ Len(a) = n - 1 /\ \A k \in 1..(n - 1) : a[k] = s[k]
  <2>1. \A k \in 1..(n - 1) : s[k] \in S
    BY <1>0
  <2>2. /\ SubSeq(s, 1, n - 1) \in Seq(S)
        /\ Len(SubSeq(s, 1, n - 1)) = IF 1 <= n - 1 THEN (n - 1) - 1 + 1 ELSE 0
        /\ \A k \in 1..((n - 1) - 1 + 1) : SubSeq(s, 1, n - 1)[k] = s[1 + k - 1]
    BY <1>0, SubSeqProperties
  <2> QED
    BY <1>0, <2>2
<1>2. /\ b \in Seq(S) /\ Len(b) = Len(s) - n /\ \A k \in 1..(Len(s) - n) : b[k] = s[n + k]
  <2>2. /\ SubSeq(s, n + 1, Len(s)) \in Seq(S)
        /\ Len(SubSeq(s, n + 1, Len(s))) = IF n + 1 <= Len(s) THEN Len(s) - (n + 1) + 1 ELSE 0
        /\ \A k \in 1..(Len(s) - (n + 1) + 1) : SubSeq(s, n + 1, Len(s))[k] = s[(n + 1) + k - 1]
    BY <1>0, SubSeqProperties
  <2> QED
    BY <1>0, <2>2
<1> HIDE DEF a, b
<1>3. /\ a \o b \in Seq(S) /\ Len(a \o b) = Len(a) + Len(b)
      /\ \A k \in 1..(Len(a) + Len(b)) : (a \o b)[k] = IF k <= Len(a) THEN a[k] ELSE b[k - Len(a)]
  BY <1>1, <1>2, ConcatProperties
<1>4. RemoveAt(s, n) = a \o b
  BY DEF RemoveAt, a, b
<1>5. Len(a) + Len(b) = Len(s) - 1
  BY <1>0, <1>1, <1>2
<1>6. ASSUME NEW k \in 1..(Len(s) - 1)
      PROVE  (a \o b)[k] = IF k < n THEN s[k] ELSE s[k + 1]
  <2>1. (a \o b)[k] = IF k <= Len(a) THEN a[k] ELSE b[k - Len(a)]
    BY <1>3, <1>5, <1>6
  <2>2. k <= Len(a) => k < n /\ a[k] = s[k]
    BY <1>0, <1>1
  <2>3. k > Len(a) => ~(k < n) /\ b[k - Len(a)] = s[k + 1]
    BY <1>0, <1>1, <1>2
  <2>4. k \in Nat /\ Len(a) \in Nat
    BY <1>0, <1>1
  <2> QED
    BY <2>1, <2>2, <2>3, <2>4
<1> QED
  BY <1>3, <1>4, <1>5, <1>6

\* Who joins the line is in it once.
LEMMA Joined ==
  ASSUME NEW S, NEW s \in Seq(S), NEW e \in S, Distinct(s), e \notin Elems(s)
  PROVE  Elems(Append(s, e)) = Elems(s) \cup {e} /\ Distinct(Append(s, e)) /\ Append(s, e) # <<>>
<1> DEFINE t == Append(s, e)
<1>1. /\ Len(s) \in Nat /\ t \in Seq(S) /\ Len(t) = Len(s) + 1
      /\ \A n \in 1..Len(s) : t[n] = s[n]
      /\ t[Len(s) + 1] = e
  BY LenProperties, AppendProperties
<1> HIDE DEF t
<1>2. \A n \in 1..Len(t) : n \in 1..Len(s) \/ n = Len(s) + 1
  BY <1>1
<1>3. \A n \in 1..Len(s) : s[n] # e
  BY DEF Elems
<1>4. Elems(t) \subseteq Elems(s) \cup {e}
  BY <1>1, <1>2 DEF Elems
<1>5. Elems(s) \cup {e} \subseteq Elems(t)
  <2>1. 1..Len(s) \subseteq 1..Len(t) /\ Len(s) + 1 \in 1..Len(t)
    BY <1>1
  <2> QED
    BY <1>1, <2>1 DEF Elems
<1>6. Distinct(t)
  BY <1>1, <1>2, <1>3 DEF Distinct
<1>7. t # <<>>
  BY <1>1, EmptySeq
<1> QED
  BY <1>4, <1>5, <1>6, <1>7 DEF t

\* The line without its eldest.
LEMMA Served ==
  ASSUME NEW S, NEW s \in Seq(S), s # <<>>, Distinct(s)
  PROVE  /\ Elems(Tail(s)) = Elems(s) \ {Head(s)} /\ Distinct(Tail(s)) /\ Head(s) \in Elems(s)
         /\ Tail(s) \in Seq(S) /\ Head(s) \in S
<1> DEFINE t == Tail(s)
<1>1. /\ Len(s) \in Nat /\ Len(s) >= 1 /\ t \in Seq(S) /\ Len(t) = Len(s) - 1
      /\ Head(s) = s[1] /\ \A n \in 1..Len(t) : t[n] = s[n + 1]
  <2>1. Len(s) \in Nat /\ Len(s) # 0
    BY LenProperties, EmptySeq
  <2> QED
    BY <2>1, HeadTailProperties
<1> HIDE DEF t
<1>2. \A n \in 1..Len(t) : n + 1 \in 1..Len(s) /\ n + 1 # 1
  BY <1>1
<1>3. 1 \in 1..Len(s)
  BY <1>1
<1>4. Elems(t) \subseteq Elems(s) \ {s[1]}
  BY <1>1, <1>2, <1>3 DEF Elems, Distinct
<1>5. Elems(s) \ {s[1]} \subseteq Elems(t)
  <2>1. ASSUME NEW n \in 1..Len(s), n # 1 PROVE s[n] \in Elems(t)
    <3>1. n - 1 \in 1..Len(t) /\ (n - 1) + 1 = n
      BY <1>1, <2>1
    <3> QED
      BY <1>1, <3>1 DEF Elems
  <2> QED
    BY <2>1 DEF Elems
<1>6. Distinct(t)
  <2>1. ASSUME NEW a \in 1..Len(t), NEW b \in 1..Len(t), t[a] = t[b] PROVE a = b
    <3>1. s[a + 1] = s[b + 1] /\ a + 1 \in 1..Len(s) /\ b + 1 \in 1..Len(s)
      BY <1>1, <1>2, <2>1
    <3>2. a + 1 = b + 1
      BY <3>1 DEF Distinct
    <3> QED
      BY <3>2
  <2> QED
    BY <2>1 DEF Distinct
<1>7. Head(s) \in S /\ Head(s) \in Elems(s)
  BY <1>1, <1>3 DEF Elems
<1> QED
  BY <1>1, <1>4, <1>5, <1>6, <1>7 DEF t

\* The line without somebody in it.
LEMMA Quitted ==
  ASSUME NEW S, NEW s \in Seq(S), NEW n \in 1..Len(s), Distinct(s)
  PROVE  Elems(RemoveAt(s, n)) = Elems(s) \ {s[n]} /\ Distinct(RemoveAt(s, n))
<1> DEFINE t == RemoveAt(s, n)
           at(k) == IF k < n THEN k ELSE k + 1
<1>1. Len(s) \in Nat /\ n \in Nat /\ n >= 1 /\ n <= Len(s)
  BY LenProperties
<1>2. t \in Seq(S) /\ Len(t) = Len(s) - 1 /\ \A k \in 1..Len(t) : t[k] = s[at(k)]
  <2>1. \A k \in 1..(Len(s) - 1) : t[k] = IF k < n THEN s[k] ELSE s[k + 1]
    BY Spliced
  <2>2. t \in Seq(S) /\ Len(t) = Len(s) - 1
    BY Spliced
  <2> QED
    BY <2>1, <2>2
<1> HIDE DEF t
<1>3. \A k \in 1..Len(t) : at(k) \in 1..Len(s) /\ at(k) # n
  BY <1>1, <1>2
<1>4. \A a, b \in 1..Len(t) : at(a) = at(b) => a = b
  BY <1>1, <1>2
<1>5. \A m \in 1..Len(s) : m # n => \E k \in 1..Len(t) : at(k) = m
  <2>1. ASSUME NEW m \in 1..Len(s), m # n PROVE \E k \in 1..Len(t) : at(k) = m
    <3>1. CASE m < n
      <4>1. m \in 1..Len(t) /\ at(m) = m
        BY <1>1, <1>2, <3>1
      <4> QED
        BY <4>1
    <3>2. CASE m > n
      <4>1. m - 1 \in 1..Len(t) /\ at(m - 1) = m
        BY <1>1, <1>2, <3>2
      <4> QED
        BY <4>1
    <3> QED
      BY <1>1, <2>1, <3>1, <3>2
  <2> QED
    BY <2>1
<1> HIDE DEF at
<1>6. Elems(t) \subseteq Elems(s) \ {s[n]}
  BY <1>2, <1>3 DEF Elems, Distinct
<1>7. Elems(s) \ {s[n]} \subseteq Elems(t)
  <2>1. ASSUME NEW m \in 1..Len(s), s[m] # s[n] PROVE s[m] \in Elems(t)
    <3>1. PICK k \in 1..Len(t) : at(k) = m
      BY <1>5, <2>1
    <3> QED
      BY <1>2, <3>1 DEF Elems
  <2> QED
    BY <2>1 DEF Elems
<1>8. Distinct(t)
  BY <1>2, <1>3, <1>4 DEF Distinct
<1> QED
  BY <1>6, <1>7, <1>8 DEF t

-----------------------------------------------------------------------------
(***************************************************************************)
(* The types                                                               *)
(***************************************************************************)
\* The records the actions write.
LEMMA ClientTypes ==
  ASSUME NEW k \in Client
  PROVE  /\ \A b \in BOOLEAN : [k EXCEPT !.aged = b] \in Client
         /\ \A l \in SUBSET Gens :
              /\ [k EXCEPT !.closed = TRUE, !.session = None, !.left = l] \in Client
              /\ [k EXCEPT !.closed = TRUE, !.session = None, !.left = l,
                            !.thrown = TRUE, !.line = <<>>] \in Client
         /\ \A h \in 0..Limit : [k EXCEPT !.held = h] \in Client
         /\ \A h \in 0..Limit : [k EXCEPT !.aged = FALSE, !.held = h] \in Client
         /\ \A l \in Seq(Calls) : [k EXCEPT !.line = l] \in Client
         /\ \A l \in Seq(Calls) : [k EXCEPT !.line = l, !.aged = FALSE] \in Client
         /\ [k EXCEPT !.opening = TRUE] \in Client
         /\ [k EXCEPT !.opening = FALSE] \in Client
         /\ [k EXCEPT !.reopening = FALSE] \in Client
         /\ [k EXCEPT !.session = None, !.reopening = TRUE] \in Client
         /\ \A g \in Gens : [k EXCEPT !.opening = FALSE, !.session = g, !.gens = g] \in Client
         /\ \A g \in Gens : [k EXCEPT !.reopening = FALSE, !.session = g, !.gens = g] \in Client
         /\ \A g \in Gens, l \in SUBSET Gens :
              /\ [k EXCEPT !.opening = FALSE, !.gens = g, !.left = l] \in Client
              /\ [k EXCEPT !.reopening = FALSE, !.gens = g, !.left = l] \in Client
<1>1. <<>> \in Seq(Calls)
  BY EmptySeq
<1>2. Gens \subseteq 0..MaxGens
  BY PoolAssumption DEF Gens
<1> QED
  BY <1>1, <1>2 DEF Client

\* A call that is one attempt further is a call.
LEMMA AttemptType ==
  ASSUME NEW k \in Call, k.tries \in 0..1, NEW g \in Gens, NEW spent
  PROVE  /\ Attempt(k, g, spent) \in Call
         /\ Attempt(k, g, spent).on = k.on /\ Attempt(k, g, spent).permit = k.permit
         /\ \/ Attempt(k, g, spent).pc = "done"
            \/ /\ Attempt(k, g, spent).pc = "sent" /\ Attempt(k, g, spent).gen = g
               /\ Attempt(k, g, spent).tries = k.tries + 1
<1>1. CASE spent
  BY <1>1 DEF Attempt, Call
<1>2. CASE ~spent
  <2>1. k.tries + 1 \in 0..2
    OBVIOUS
  <2> QED
    BY <1>2, <2>1 DEF Attempt, Call
<1> QED
  BY <1>1, <1>2

\* A call that moves is a call.
LEMMA CallTypes ==
  ASSUME NEW k \in Call
  PROVE  /\ \A p \in {"idle", "leased", "queued", "admitted", "opening", "reopening", "sent", "done"} :
              [k EXCEPT !.pc = p] \in Call
         /\ \A i \in Clients : [k EXCEPT !.pc = "leased", !.on = i] \in Call
         /\ \A p \in {"queued", "admitted"}, q \in {"none", "real", "inert"} :
              [k EXCEPT !.pc = p, !.permit = q] \in Call
BY DEF Call

\* The blank values are of their types.
LEMMA BlankTypes == Free \in Call /\ Fresh \in Client /\ None \notin Gens /\ None \notin Clients
<1>1. <<>> \in Seq(Calls) /\ 0 \in 0..Limit /\ 0 \in 0..MaxGens /\ 0 \in 0..2
  BY EmptySeq, PoolAssumption
<1> QED
  BY <1>1 DEF Free, Fresh, Call, Client, None, Gens, Clients

\* A session that may be minted is within its bound.
LEMMA MintedIsGen ==
  ASSUME NEW i \in Clients, client[i] \in Client, MayMint(i)
  PROVE  client[i].gens + 1 \in Gens
<1>1. client[i].gens \in 0..MaxGens
  BY DEF Client
<1>2. i \in Nat /\ i >= 1
  BY PoolAssumption DEF Clients
<1>3. client[i].gens + i <= MaxGens
  BY DEF MayMint
<1> QED
  BY <1>1, <1>2, <1>3, PoolAssumption DEF Gens

\* A call that has a client, and the client.
LEMMA OnClient ==
  ASSUME IInv, NEW c \in Calls, call[c].pc # "idle"
  PROVE  call[c].on \in Clients /\ call[c] \in Call /\ client[call[c].on] \in Client
BY DEF IInv, CallsOK, CallOK, TypeOK, Call

\* Whether its DELETE came through or not, a client that is closed is one.
LEMMA EndedType ==
  ASSUME TypeOK, NEW i \in Clients, NEW stays \in SUBSET MayStay(i)
  PROVE  /\ Ended(i, stays) \in [Clients -> SUBSET Gens]
         /\ Closed(i, stays) \in Client /\ Opened(i, stays) \in Client
<1>1. client[i] \in Client /\ alive \in [Clients -> SUBSET Gens]
  BY DEF TypeOK
<1>0. stays \subseteq Gens
  BY <1>1 DEF MayStay
<1>2. Closed(i, stays) \in Client
  <2>1. PICK l \in SUBSET Gens : l = client[i].left \cup stays
    BY <1>1, <1>0 DEF Client
  <2>2. Closed(i, stays) = [client[i] EXCEPT !.closed = TRUE, !.session = None, !.left = l]
    BY <1>1, <2>1 DEF Closed
  <2>3. \A k \in Client : [k EXCEPT !.closed = TRUE, !.session = None, !.left = l] \in Client
    BY ClientTypes
  <2> QED
    BY <1>1, <2>2, <2>3
<1>3. Opened(i, stays) \in Client
  <2>1. PICK l \in SUBSET Gens : l = client[i].left \cup stays
    BY <1>1, <1>0 DEF Client
  <2>2. Opened(i, stays) = [client[i] EXCEPT !.closed = TRUE, !.session = None,
                                             !.left = l, !.thrown = TRUE, !.line = <<>>]
    BY <1>1, <2>1 DEF Opened, Closed, Client
  <2>3. \A k \in Client : [k EXCEPT !.closed = TRUE, !.session = None,
                                     !.left = l, !.thrown = TRUE, !.line = <<>>] \in Client
    BY ClientTypes
  <2> QED
    BY <1>1, <2>2, <2>3
<1> QED
  BY <1>1, <1>0, <1>2, <1>3 DEF Ended

\* The steps of the pool keep the types.
LEMMA PoolTypes ==
  ASSUME IInv, \/ \E c \in Calls : Lease(c) \/ Drop(c)
               \/ \E i \in Clients : Age(i) \/ Forget(i)
               \/ Sweep \/ Close
  PROVE  TypeOK'
<1>t. /\ TypeOK /\ client \in [Clients -> Client] /\ call \in [Calls -> Call]
      /\ pool \in Pool /\ ran \in [Calls -> 0..2] /\ alive \in [Clients -> SUBSET Gens]
      /\ doubled \subseteq Clients
  BY DEF IInv, TypeOK
<1>1. ASSUME NEW c \in Calls, Lease(c) PROVE TypeOK'
  <2>1. PICK i \in Clients :
          /\ \/ i = pool.entry /\ UNCHANGED pool
             \/ /\ pool.entry = None /\ i = pool.created + 1
                /\ pool' = [pool EXCEPT !.entry = i, !.created = i]
          /\ client' = [client EXCEPT ![i].aged = FALSE]
          /\ call' = [call EXCEPT ![c].pc = "leased", ![c].on = i]
    BY <1>1 DEF Lease
  <2>2. pool' \in Pool
    <3>1. i \in Clients /\ i \in 0..MaxClients
      BY PoolAssumption DEF Clients
    <3>2. [pool EXCEPT !.entry = i, !.created = i] \in Pool
      BY <1>t, <3>1 DEF Pool
    <3> QED
      BY <1>t, <2>1, <3>2
  <2>3. client' \in [Clients -> Client]
    <3>1. [client[i] EXCEPT !.aged = FALSE] \in Client
      BY <1>t, ClientTypes
    <3> QED
      BY <1>t, <2>1, <3>1
  <2>4. call' \in [Calls -> Call]
    <3>1. [call[c] EXCEPT !.pc = "leased", !.on = i] \in Call
      BY <1>t, CallTypes
    <3> QED
      BY <1>t, <2>1, <3>1
  <2> QED
    BY <1>1, <1>t, <2>2, <2>3, <2>4 DEF Lease, TypeOK, world
<1>2. ASSUME NEW c \in Calls, Drop(c) PROVE TypeOK'
  BY <1>2, <1>t, BlankTypes DEF Drop, TypeOK
<1>3. ASSUME NEW i \in Clients, Age(i) PROVE TypeOK'
  <2>1. [client[i] EXCEPT !.aged = TRUE] \in Client
    BY <1>t, ClientTypes
  <2> QED
    BY <1>3, <1>t, <2>1 DEF Age, TypeOK, world
<1>4. ASSUME NEW i \in Clients, Forget(i) PROVE TypeOK'
  BY <1>4, <1>t DEF Forget, TypeOK
<1>5. CASE Sweep
  <2>1. pool.entry \in Clients
    BY <1>5, <1>t DEF Sweep, Pool
  <2>4. PICK stays \in SUBSET MayStay(pool.entry) :
          /\ client' = [client EXCEPT ![pool.entry] = Closed(pool.entry, stays)]
          /\ alive' = Ended(pool.entry, stays)
    BY <1>5 DEF Sweep
  <2>2. Ended(pool.entry, stays) \in [Clients -> SUBSET Gens] /\ Closed(pool.entry, stays) \in Client
    BY <1>t, <2>1, EndedType
  <2>3. [pool EXCEPT !.entry = None] \in Pool
    BY <1>t DEF Pool
  <2>5. client' \in [Clients -> Client]
    BY <1>t, <2>1, <2>2, <2>4
  <2> QED
    BY <1>5, <1>t, <2>2, <2>3, <2>4, <2>5 DEF Sweep, TypeOK
<1>6. CASE Close
  <2>1. [pool EXCEPT !.closed = TRUE, !.entry = None] \in Pool
    BY <1>t DEF Pool
  <2>2. CASE pool.entry = None
    BY <1>6, <1>t, <2>1, <2>2 DEF Close, TypeOK
  <2>3. CASE pool.entry # None
    <3>1. pool.entry \in Clients
      BY <1>t, <2>3 DEF Pool
    <3>5. PICK stays \in SUBSET MayStay(pool.entry) :
            /\ client' = [client EXCEPT ![pool.entry] = Opened(pool.entry, stays)]
            /\ alive' = Ended(pool.entry, stays)
      BY <1>6, <2>3 DEF Close
    <3>2. Ended(pool.entry, stays) \in [Clients -> SUBSET Gens] /\ Opened(pool.entry, stays) \in Client
      BY <1>t, <3>1, EndedType
    <3>6. client' \in [Clients -> Client]
      BY <1>t, <3>1, <3>2, <3>5
    <3>3. \A c \in Calls : [call[c] EXCEPT !.pc = "admitted", !.permit = "inert"] \in Call
      BY <1>t, CallTypes
    <3>4. call' \in [Calls -> Call]
      <4>1. call' = [c \in Calls |->
                       IF call[c].on = pool.entry /\ call[c].pc = "queued"
                       THEN [call[c] EXCEPT !.pc = "admitted", !.permit = "inert"]
                       ELSE call[c]]
        BY <1>6, <2>3 DEF Close
      <4> QED
        BY <1>t, <3>3, <4>1
    <3> QED
      BY <1>6, <1>t, <2>1, <2>3, <3>2, <3>4, <3>5, <3>6 DEF Close, TypeOK
  <2> QED
    BY <2>2, <2>3
<1> QED
  BY <1>1, <1>2, <1>3, <1>4, <1>5, <1>6

\* So do those of the semaphore.
LEMMA SemaphoreTypes ==
  ASSUME IInv, NEW c \in Calls, Ask(c) \/ TimerFires(c) \/ Finish(c)
  PROVE  TypeOK'
<1> DEFINE i == call[c].on
<1>t. /\ TypeOK /\ client \in [Clients -> Client] /\ call \in [Calls -> Call]
      /\ pool \in Pool /\ ran \in [Calls -> 0..2] /\ alive \in [Clients -> SUBSET Gens]
      /\ doubled \subseteq Clients
  BY DEF IInv, TypeOK
<1>i. i \in Clients /\ call[c] \in Call /\ client[i] \in Client
  BY OnClient DEF Ask, TimerFires, Finish
<1>l. client[i].line \in Seq(Calls) /\ client[i].held \in 0..Limit /\ Limit \in Nat
  BY <1>i, PoolAssumption DEF Client
<1> HIDE DEF i
<1>1. CASE Ask(c)
  <2>1. ran' \in [Calls -> 0..2]
    BY <1>1, <1>t DEF Ask
  <2>2. call' \in [Calls -> Call]
    <3>1. PICK p \in {"queued", "admitted"}, q \in {"none", "real", "inert"} :
            call' = [call EXCEPT ![c].pc = p, ![c].permit = q]
      BY <1>1 DEF Ask
    <3>2. [call[c] EXCEPT !.pc = p, !.permit = q] \in Call
      BY <1>i, CallTypes
    <3> QED
      BY <1>t, <3>1, <3>2
  <2>3. \/ client' = client
        \/ client[i].held < Limit /\ client' = [client EXCEPT ![i].held = @ + 1]
        \/ client' = [client EXCEPT ![i].line = Append(@, c)]
    BY <1>1 DEF Ask, i
  <2>4. Append(client[i].line, c) \in Seq(Calls)
    BY <1>l, AppendProperties
  <2>5. client[i].held < Limit => client[i].held + 1 \in 0..Limit
    BY <1>l
  <2>6. client' \in [Clients -> Client]
    <3>1. CASE client' = client
      BY <1>t, <3>1
    <3>2. CASE client[i].held < Limit /\ client' = [client EXCEPT ![i].held = @ + 1]
      <4>1. [client[i] EXCEPT !.held = client[i].held + 1] \in Client
        BY <1>i, <2>5, <3>2, ClientTypes
      <4> QED
        BY <1>t, <3>2, <4>1
    <3>3. CASE client' = [client EXCEPT ![i].line = Append(@, c)]
      <4>1. [client[i] EXCEPT !.line = Append(client[i].line, c)] \in Client
        BY <1>i, <2>4, ClientTypes
      <4> QED
        BY <1>t, <3>3, <4>1
    <3> QED
      BY <2>3, <3>1, <3>2, <3>3
  <2> QED
    BY <1>1, <1>t, <2>1, <2>2, <2>6 DEF Ask, TypeOK
<1>2. CASE TimerFires(c)
  <2>1. c \in InLine(i)
    BY <1>2, <1>i DEF TimerFires, IInv, LineOK, i
  <2>2. IndexOf(client[i].line, c) \in 1..Len(client[i].line)
    BY <2>1 DEF InLine, Elems, IndexOf
  <2>3. Without(client[i].line, c) \in Seq(Calls)
    BY <1>l, <2>2, Spliced DEF Without
  <2>4. [client[i] EXCEPT !.line = Without(client[i].line, c)] \in Client
    BY <1>i, <2>3, ClientTypes
  <2>5. [call[c] EXCEPT !.pc = "done"] \in Call
    BY <1>i, CallTypes
  <2> QED
    BY <1>2, <1>t, <2>4, <2>5 DEF TimerFires, TypeOK, world, i
<1>3. CASE Finish(c)
  <2> DEFINE real == GivenBack(call[c].permit)
             next == client[i].line
             over == [call EXCEPT ![c] = [Free EXCEPT !.pc = "leased", !.on = i]]
  <2>1. over \in [Calls -> Call]
    <3>1. [Free EXCEPT !.pc = "leased", !.on = i] \in Call
      BY <1>i, BlankTypes, CallTypes
    <3> QED
      BY <1>t, <3>1
  <2>2. CASE real /\ next # <<>>
    <3>1. Tail(next) \in Seq(Calls) /\ Head(next) \in Calls
      BY <1>l, <2>2, HeadTailProperties
    <3>2. [client[i] EXCEPT !.line = Tail(next), !.aged = FALSE] \in Client
      BY <1>i, <3>1, ClientTypes
    <3>3. [over[Head(next)] EXCEPT !.pc = "admitted", !.permit = "real"] \in Call
      BY <2>1, <3>1, CallTypes
    <3>4. /\ client' = [client EXCEPT ![i].line = Tail(@), ![i].aged = FALSE]
          /\ call' = [over EXCEPT ![Head(next)].pc = "admitted", ![Head(next)].permit = "real"]
      BY <1>3, <2>2 DEF Finish, i
    <3> HIDE DEF over
    <3>5. call' \in [Calls -> Call]
      BY <2>1, <3>1, <3>3, <3>4
    <3>6. client' \in [Clients -> Client]
      BY <1>t, <3>2, <3>4
    <3> QED
      BY <1>3, <1>t, <3>5, <3>6 DEF Finish, TypeOK, world
  <2>3. CASE ~(real /\ next # <<>>)
    <3>1. /\ client' = [client EXCEPT ![i].aged = FALSE,
                                      ![i].held = IF real THEN @ - 1 ELSE @]
          /\ call' = over
      BY <1>3, <2>3 DEF Finish, i
    <3>2. real => client[i].held # 0
      <4>1. SUFFICES ASSUME real PROVE client[i].held # 0
        OBVIOUS
      <4>2. c \in Inside(i) /\ IsFiniteSet(Inside(i)) /\ Cardinality(Inside(i)) = client[i].held
        BY <1>i, <4>1 DEF IInv, LineOK, Inside, GivenBack, i
      <4> QED
        BY <4>2, FS_EmptySet
    <3>3. (IF real THEN client[i].held - 1 ELSE client[i].held) \in 0..Limit
      BY <1>l, <3>2
    <3>4. [client[i] EXCEPT !.aged = FALSE,
             !.held = IF real THEN client[i].held - 1 ELSE client[i].held] \in Client
      BY <1>i, <3>3, ClientTypes
    <3>5. client' \in [Clients -> Client]
      BY <1>t, <3>1, <3>4
    <3> QED
      BY <1>3, <1>t, <2>1, <3>1, <3>5 DEF Finish, TypeOK, world
  <2> QED
    BY <2>2, <2>3
<1> QED
  BY <1>1, <1>2, <1>3

\* So do those of the connection and of the wire.
LEMMA ConnectionTypes ==
  ASSUME IInv, \/ \E c \in Calls : Enter(c) \/ Lost(c) \/ Run(c) \/ Fail(c)
               \/ \E i \in Clients, flight \in Flights : Handshake(i, flight)
  PROVE  TypeOK'
<1>t. /\ TypeOK /\ client \in [Clients -> Client] /\ call \in [Calls -> Call]
      /\ pool \in Pool /\ ran \in [Calls -> 0..2] /\ alive \in [Clients -> SUBSET Gens]
      /\ doubled \subseteq Clients
  BY DEF IInv, TypeOK
<1>c. \A d \in Calls : CallOK(d)
  BY DEF IInv, CallsOK
<1>a. ASSUME NEW k \in Call, k.tries \in 0..1, NEW g \in Gens, NEW spent
      PROVE  Attempt(k, g, spent) \in Call
  BY <1>a, AttemptType
<1>1. ASSUME NEW c \in Calls, Enter(c) PROVE TypeOK'
  <2> DEFINE i == call[c].on
  <2>i. i \in Clients /\ call[c] \in Call /\ client[i] \in Client
    BY <1>1, OnClient DEF Enter
  <2>r. call[c].tries = 0
    BY <1>1, <1>c DEF Enter, CallOK
  <2> HIDE DEF i
  <2>1. /\ client' = client \/ client' = [client EXCEPT ![i].opening = TRUE]
        /\ UNCHANGED <<pool, alive, ran, doubled>>
    BY <1>1 DEF Enter, i
  <2>2. \/ /\ client[i].session # None
           /\ \E spent \in BOOLEAN : call' = [call EXCEPT ![c] = Attempt(@, client[i].session, spent)]
        \/ \E p \in {"done", "reopening", "opening"} : call' = [call EXCEPT ![c].pc = p]
    BY <1>1 DEF Enter, i
  <2>3. client[i].session # None => client[i].session \in Gens
    BY <2>i DEF Client
  <2>4. ASSUME NEW spent \in BOOLEAN, client[i].session # None
        PROVE  Attempt(call[c], client[i].session, spent) \in Call
    BY <1>a, <2>i, <2>r, <2>3, <2>4
  <2>5. \A p \in {"done", "reopening", "opening"} : [call[c] EXCEPT !.pc = p] \in Call
    BY <2>i, CallTypes
  <2>6. call' \in [Calls -> Call]
    BY <1>t, <2>2, <2>4, <2>5
  <2>7. client' \in [Clients -> Client]
    <3>1. [client[i] EXCEPT !.opening = TRUE] \in Client
      BY <2>i, ClientTypes
    <3> QED
      BY <1>t, <2>1, <3>1
  <2> QED
    BY <1>t, <2>1, <2>6, <2>7 DEF TypeOK
<1>2. ASSUME NEW c \in Calls, Lost(c) PROVE TypeOK'
  <2> DEFINE i == call[c].on
  <2>i. i \in Clients /\ call[c] \in Call /\ client[i] \in Client
    BY <1>2, OnClient DEF Lost
  <2> HIDE DEF i
  <2>1. /\ client' = client \/ client' = [client EXCEPT ![i].session = None, ![i].reopening = TRUE]
        /\ doubled' \subseteq doubled \cup {i}
        /\ UNCHANGED <<pool, alive, ran>>
    BY <1>2 DEF Lost, i
  <2>2. \/ /\ client[i].session \in Gens /\ call[c].tries = 1
           /\ \E spent \in BOOLEAN : call' = [call EXCEPT ![c] = Attempt(@, client[i].session, spent)]
        \/ \E p \in {"done", "reopening"} : call' = [call EXCEPT ![c].pc = p]
    BY <1>2, <2>i DEF Lost, Replaced, Client, i
  <2>4. ASSUME NEW spent \in BOOLEAN, client[i].session \in Gens, call[c].tries = 1
        PROVE  Attempt(call[c], client[i].session, spent) \in Call
    BY <1>a, <2>i, <2>4
  <2>5. \A p \in {"done", "reopening"} : [call[c] EXCEPT !.pc = p] \in Call
    BY <2>i, CallTypes
  <2>6. call' \in [Calls -> Call]
    BY <1>t, <2>2, <2>4, <2>5
  <2>7. client' \in [Clients -> Client]
    <3>1. [client[i] EXCEPT !.session = None, !.reopening = TRUE] \in Client
      BY <2>i, ClientTypes
    <3> QED
      BY <1>t, <2>1, <3>1
  <2> QED
    BY <1>t, <2>i, <2>1, <2>6, <2>7 DEF TypeOK
<1>3. ASSUME NEW c \in Calls, Run(c) \/ Fail(c) PROVE TypeOK'
  <2>1. [call[c] EXCEPT !.pc = "done"] \in Call
    BY <1>t, CallTypes
  <2>2. call' \in [Calls -> Call]
    BY <1>3, <1>t, <2>1 DEF Run, Fail, GivesUp
  <2>3. call[c].pc = "sent" => ran[c] = 0
    BY <1>c DEF CallOK, Entered
  <2>4. ran' \in [Calls -> 0..2]
    BY <1>3, <1>t, <2>3 DEF Run, Fail, world
  <2> QED
    BY <1>3, <1>t, <2>2, <2>4 DEF Run, Fail, TypeOK, world
<1>4. ASSUME NEW i \in Clients, NEW flight \in Flights, Connect(i, flight) PROVE TypeOK'
  <2> DEFINE g == client[i].gens + 1
  <2>1. g \in Gens
    <3>1. client[i] \in Client /\ MayMint(i)
      BY <1>4, <1>t DEF Connect
    <3> QED
      BY <3>1, MintedIsGen
  <2> HIDE DEF g
  <2>2. PICK spent \in SUBSET Awaiting(i, flight) :
          call' = [c \in Calls |-> IF c \in Awaiting(i, flight)
                                   THEN Attempt(call[c], g, c \in spent) ELSE call[c]]
    BY <1>4 DEF Connect, g
  <2>3. ASSUME NEW c \in Awaiting(i, flight) PROVE Attempt(call[c], g, c \in spent) \in Call
    <3>1. c \in Calls /\ call[c] \in Call /\ CallOK(c) /\ call[c].pc \in {"opening", "reopening"}
      BY <1>c, <1>t DEF Awaiting, Flights
    <3>2. call[c].tries \in 0..1
      BY <3>1 DEF CallOK, Call
    <3> QED
      BY <1>a, <2>1, <3>1, <3>2
  <2>4. call' \in [Calls -> Call]
    BY <1>t, <2>2, <2>3
  <2>5. client' \in [Clients -> Client]
    <3>1. /\ [client[i] EXCEPT !.opening = FALSE, !.session = g, !.gens = g] \in Client
          /\ [client[i] EXCEPT !.reopening = FALSE, !.session = g, !.gens = g] \in Client
      BY <1>t, <2>1, ClientTypes
    <3>2. client' = [client EXCEPT ![i] = [@ EXCEPT ![flight] = FALSE, !.session = g, !.gens = g]]
      BY <1>4 DEF Connect, g
    <3>3. CASE flight = "opening"
      BY <1>t, <3>1, <3>2, <3>3
    <3>4. CASE flight = "reopening"
      BY <1>t, <3>1, <3>2, <3>4
    <3> QED
      BY <3>3, <3>4 DEF Flights
  <2>6. alive' \in [Clients -> SUBSET Gens]
    BY <1>4, <1>t, <2>1 DEF Connect, g
  <2> QED
    BY <1>4, <1>t, <2>4, <2>5, <2>6 DEF Connect, TypeOK
<1>5. ASSUME NEW i \in Clients, NEW flight \in Flights, ConnectFails(i, flight) PROVE TypeOK'
  <2>1. \A c \in Calls : [call[c] EXCEPT !.pc = "done"] \in Call
    BY <1>t, CallTypes
  <2>2. call' \in [Calls -> Call]
    BY <1>5, <1>t, <2>1 DEF ConnectFails
  <2>3. CASE client' = [client EXCEPT ![i] = [@ EXCEPT ![flight] = FALSE]] /\ alive' = alive
    <3>1. /\ [client[i] EXCEPT !.opening = FALSE] \in Client
          /\ [client[i] EXCEPT !.reopening = FALSE] \in Client
      BY <1>t, ClientTypes
    <3>2. client' \in [Clients -> Client]
      <4>1. CASE flight = "opening"
        BY <1>t, <2>3, <3>1, <4>1
      <4>2. CASE flight = "reopening"
        BY <1>t, <2>3, <3>1, <4>2
      <4> QED
        BY <4>1, <4>2 DEF Flights
    <3> QED
      BY <1>5, <1>t, <2>2, <2>3, <3>2 DEF ConnectFails, TypeOK
  <2>4. ASSUME NEW g, g = client[i].gens + 1, MayMint(i),
               NEW l, l = client[i].left \cup {g},
               client' = [client EXCEPT ![i] = [@ EXCEPT ![flight] = FALSE, !.gens = g, !.left = l]],
               alive' = [alive EXCEPT ![i] = @ \cup {g}]
        PROVE  TypeOK'
    <3>1. g \in Gens
      <4>1. client[i] \in Client
        BY <1>t
      <4> QED
        BY <2>4, <4>1, MintedIsGen
    <3>2. l \in SUBSET Gens
      BY <1>t, <2>4, <3>1 DEF Client
    <3>3. /\ [client[i] EXCEPT !.opening = FALSE, !.gens = g, !.left = l] \in Client
          /\ [client[i] EXCEPT !.reopening = FALSE, !.gens = g, !.left = l] \in Client
      BY <1>t, <3>1, <3>2, ClientTypes
    <3>4. client' \in [Clients -> Client]
      <4>1. CASE flight = "opening"
        BY <1>t, <2>4, <3>3, <4>1
      <4>2. CASE flight = "reopening"
        BY <1>t, <2>4, <3>3, <4>2
      <4> QED
        BY <4>1, <4>2 DEF Flights
    <3>5. alive' \in [Clients -> SUBSET Gens]
      BY <1>t, <2>4, <3>1
    <3> QED
      BY <1>5, <1>t, <2>2, <3>4, <3>5 DEF ConnectFails, TypeOK
  <2> QED
    BY <1>5, <2>3, <2>4 DEF ConnectFails
<1> QED
  BY <1>1, <1>2, <1>3, <1>4, <1>5 DEF Handshake

\* Every step keeps the types.
LEMMA TypeStep ==
  ASSUME IInv, [Next]_vars
  PROVE  TypeOK'
<1>1. CASE UNCHANGED vars
  BY <1>1 DEF vars, IInv, TypeOK
<1> QED
  BY <1>1, PoolTypes, SemaphoreTypes, ConnectionTypes DEF Next, Progress

-----------------------------------------------------------------------------
(***************************************************************************)
(* What a step leaves alone                                                *)
(***************************************************************************)
\* The step does nothing to client i that concerns its connection.
Still(i) ==
  /\ client'[i].session = client[i].session /\ client'[i].left = client[i].left
  /\ client'[i].opening = client[i].opening /\ client'[i].reopening = client[i].reopening
  /\ client'[i].closed = client[i].closed /\ client'[i].thrown = client[i].thrown
  /\ alive'[i] \subseteq alive[i]
  /\ i \in doubled => i \in doubled'
  /\ \A c \in Calls :
       /\ call'[c].on = i /\ call'[c].pc \in Flights \cup {"sent"}
            => call[c].on = i /\ call[c].pc \in Flights \cup {"sent"}
       /\ call[c].on = i /\ call[c].pc \in Flights
            => call'[c].on = i /\ call'[c].pc = call[c].pc

\* The step does nothing to its semaphore.
SameGate(i) ==
  /\ client'[i].line = client[i].line /\ client'[i].held = client[i].held
  /\ client'[i].thrown = client[i].thrown
  /\ \A c \in Calls :
       /\ (call'[c].on = i /\ call'[c].permit = "real")
            <=> (call[c].on = i /\ call[c].permit = "real")
       /\ (call'[c].on = i /\ call'[c].pc = "queued")
            <=> (call[c].on = i /\ call[c].pc = "queued")

\* A call that does not move stays in order.
LEMMA CallStays ==
  ASSUME IInv, TypeOK', NEW d \in Calls, call'[d] = call[d], ran'[d] = ran[d],
         pool'.created >= pool.created,
         \A i \in Clients : client[i].thrown => client'[i].thrown
  PROVE  CallOK(d)'
<1>1. /\ CallOK(d) /\ call[d].on \in Clients \cup {None}
      /\ pool.created \in Nat /\ pool'.created \in Nat /\ call[d].on \in Nat
  <2>1. Clients \subseteq Nat /\ None \in Nat /\ 0..MaxClients \subseteq Nat
    BY PoolAssumption DEF Clients, None
  <2> QED
    BY <2>1 DEF IInv, TypeOK, CallsOK, Call, Pool
<1>2. call[d].permit = "inert" => call[d].on \in Clients
  BY <1>1 DEF CallOK
<1> QED
  BY <1>1, <1>2 DEF CallOK

\* Nor does a client that is left alone fall out of order.
LEMMA StillOK ==
  ASSUME IInv, NEW i \in Clients, Still(i), pool' = pool
  PROVE  ClientOK(i)' /\ Awaited(i)' /\ Kept(i)'
<1>1. ClientOK(i) /\ Awaited(i) /\ Kept(i)
  BY DEF IInv, ClientsOK
<1>2. ClientOK(i)'
  BY <1>1 DEF ClientOK, Quiet, Still, Flights
<1>3. Awaited(i)'
  BY <1>1 DEF Awaited, Awaiting, Still, Flights
<1>4. Kept(i)'
  BY <1>1 DEF Kept, Still
<1> QED
  BY <1>2, <1>3, <1>4

\* What a step leaves of a gate stays right.
LEMMA SameGateOK ==
  ASSUME IInv, NEW i \in Clients, SameGate(i)
  PROVE  LineOK(i)' /\ Inside(i)' = Inside(i)
<1>1. LineOK(i)
  BY DEF IInv
<1>2. Inside(i)' = Inside(i)
  BY DEF Inside, SameGate
<1>3. InLine(i)' = InLine(i)
  BY DEF InLine, SameGate
<1> QED
  BY <1>1, <1>2, <1>3 DEF LineOK, SameGate

-----------------------------------------------------------------------------
(***************************************************************************)
(* The steps, and the order they keep                                      *)
(***************************************************************************)
\* All of the order but the semaphores'.
Order == CallsOK /\ ClientsOK /\ \A i \in Clients : Awaited(i) /\ Kept(i)

\* A step that leaves the pool and every connection alone, and the calls but c.
LEMMA OneCall ==
  ASSUME IInv, TypeOK', NEW c \in Calls, pool' = pool,
         \A i \in Clients : Still(i),
         \A d \in Calls \ {c} : call'[d] = call[d] /\ ran'[d] = ran[d],
         CallOK(c)'
  PROVE  Order'
<1>1. \A d \in Calls : CallOK(d)'
  <2>1. ASSUME NEW d \in Calls, d # c PROVE CallOK(d)'
    <3>1. \A i \in Clients : client[i].thrown => client'[i].thrown
      BY DEF Still
    <3>2. pool'.created >= pool.created
      <4>1. pool.created \in 0..MaxClients
        BY DEF IInv, TypeOK, Pool
      <4> QED
        BY <4>1, PoolAssumption
    <3> QED
      BY <2>1, <3>1, <3>2, CallStays
  <2> QED
    BY <2>1
<1>2. pool'.entry <= pool'.created
  BY DEF IInv, ClientsOK
<1> QED
  BY <1>1, <1>2, StillOK DEF Order, CallsOK, ClientsOK

\* A call that leaves before it asked was in no gate.
LEMMA DropStep ==
  ASSUME IInv, TypeOK', NEW c \in Calls, Drop(c)
  PROVE  Order' /\ \A i \in Clients : SameGate(i)
<1>t. call \in [Calls -> Call] /\ ran \in [Calls -> 0..2] /\ CallOK(c)
  BY DEF IInv, TypeOK, CallsOK
<1>1. /\ call[c].pc = "leased" /\ call[c].permit = "none"
      /\ \A d \in Calls \ {c} : call'[d] = call[d] /\ ran'[d] = ran[d]
      /\ call'[c] = Free /\ ran'[c] = 0
      /\ UNCHANGED <<pool, client, alive, doubled>>
  BY <1>t DEF Drop, CallOK
<1>2. \A i \in Clients : Still(i) /\ SameGate(i)
  BY <1>1 DEF Still, SameGate, Free, Flights
<1>3. CallOK(c)'
  <2>1. None <= pool.created
    BY PoolAssumption DEF IInv, TypeOK, Pool, None
  <2> QED
    BY <1>1, <2>1 DEF CallOK, Free, Entered
<1> QED
  BY <1>1, <1>2, <1>3, OneCall

\* A request that is answered or fails leaves the gates alone.
LEMMA WireStep ==
  ASSUME IInv, TypeOK', NEW c \in Calls, Run(c) \/ Fail(c)
  PROVE  Order' /\ \A i \in Clients : SameGate(i)
<1>t. call \in [Calls -> Call] /\ ran \in [Calls -> 0..2] /\ CallOK(c)
  BY DEF IInv, TypeOK, CallsOK
<1>1. /\ call[c].pc = "sent" /\ ran[c] = 0
      /\ \A d \in Calls \ {c} : call'[d] = call[d] /\ ran'[d] = ran[d]
      /\ call'[c] = [call[c] EXCEPT !.pc = "done"] /\ ran'[c] \in {0, 1}
      /\ UNCHANGED <<pool, client, alive, doubled>>
  <2>1. call[c].pc = "sent" /\ ran[c] = 0
    BY <1>t DEF Run, Fail, CallOK, Entered
  <2> QED
    BY <1>t, <2>1 DEF Run, Fail, GivesUp, world
<1>2. /\ call'[c].pc = "done" /\ call'[c].on = call[c].on /\ call'[c].permit = call[c].permit
      /\ call'[c].tries = call[c].tries
  BY <1>t, <1>1 DEF Call
<1>3. \A i \in Clients : Still(i) /\ SameGate(i)
  <2>1. \A i \in Clients : Still(i)
    BY <1>1, <1>2 DEF Still, Flights
  <2>2. ASSUME NEW i \in Clients PROVE SameGate(i)
    <3>1. \A d \in Calls : call'[d] = call[d] \/ d = c
      BY <1>1
    <3>2. /\ client'[i] = client[i] /\ call[c].pc # "queued" /\ call'[c].pc # "queued"
          /\ call'[c].on = call[c].on /\ call'[c].permit = call[c].permit
      BY <1>1, <1>2
    <3> QED
      BY <3>1, <3>2 DEF SameGate
  <2> QED
    BY <2>1, <2>2
<1>4. CallOK(c)'
  BY <1>t, <1>1, <1>2 DEF CallOK, Entered
<1> QED
  BY <1>1, <1>3, <1>4, OneCall

\* Idleness and the upstream's restart leave the gates alone.
LEMMA ForgetStep ==
  ASSUME IInv, TypeOK', NEW i \in Clients, Age(i) \/ Forget(i)
  PROVE  Order' /\ \A j \in Clients : SameGate(j)
<1>t. call \in [Calls -> Call] /\ client \in [Clients -> Client] /\ alive \in [Clients -> SUBSET Gens]
  BY DEF IInv, TypeOK
<1>1. /\ UNCHANGED <<pool, call, ran, doubled>>
      /\ client' = client \/ client' = [client EXCEPT ![i].aged = TRUE]
      /\ \A j \in Clients : alive'[j] \subseteq alive[j]
  BY <1>t DEF Age, Forget, world
<1>2. \A j \in Clients : Still(j) /\ SameGate(j)
  <2>1. \A j \in Clients : client'[j] = client[j] \/ client'[j] = [client[j] EXCEPT !.aged = TRUE]
    BY <1>1, <1>t
  <2>2. ASSUME NEW j \in Clients
        PROVE  /\ client'[j].session = client[j].session /\ client'[j].left = client[j].left
               /\ client'[j].opening = client[j].opening /\ client'[j].reopening = client[j].reopening
               /\ client'[j].closed = client[j].closed /\ client'[j].thrown = client[j].thrown
               /\ client'[j].line = client[j].line /\ client'[j].held = client[j].held
    <3>1. client[j] \in Client
      BY <1>t
    <3> QED
      BY <2>1, <3>1 DEF Client
  <2> QED
    BY <1>1, <2>2 DEF Still, SameGate
<1>3. \A d \in Calls : CallOK(d)'
  <2>1. \A j \in Clients : client[j].thrown => client'[j].thrown
    BY <1>2 DEF Still
  <2>2. pool'.created >= pool.created
    BY <1>1, PoolAssumption DEF IInv, TypeOK, Pool
  <2> QED
    BY <1>1, <2>1, <2>2, CallStays
<1> QED
  BY <1>1, <1>2, <1>3, StillOK DEF Order, CallsOK, ClientsOK, IInv

\* A lease makes or marks a client, and touches no gate.
LEMMA LeaseStep ==
  ASSUME IInv, TypeOK', NEW c \in Calls, Lease(c)
  PROVE  Order' /\ \A j \in Clients : SameGate(j)
<1>t. /\ call \in [Calls -> Call] /\ client \in [Clients -> Client] /\ CallOK(c)
      /\ pool \in Pool /\ pool.entry <= pool.created /\ \A j \in Clients : ClientOK(j)
      /\ \A j \in Clients : Awaited(j) /\ Kept(j)
  BY DEF IInv, TypeOK, CallsOK, ClientsOK
<1>1. PICK i \in Clients :
        /\ \/ i = pool.entry /\ UNCHANGED pool
           \/ /\ pool.entry = None /\ i = pool.created + 1
              /\ pool' = [pool EXCEPT !.entry = i, !.created = i]
        /\ client' = [client EXCEPT ![i].aged = FALSE]
        /\ call' = [call EXCEPT ![c].pc = "leased", ![c].on = i]
  BY DEF Lease
<1>2. /\ ~pool.closed /\ call[c].pc = "idle" /\ call[c].on = None /\ call[c].permit = "none"
      /\ UNCHANGED <<alive, ran, doubled>>
  BY <1>t DEF Lease, CallOK, world
<1>3. \A d \in Calls \ {c} : call'[d] = call[d]
  BY <1>t, <1>1
<1>4. /\ call'[c].pc = "leased" /\ call'[c].on = i /\ call'[c].permit = "none"
      /\ call'[c].tries = call[c].tries
  <2>1. call'[c] = [call[c] EXCEPT !.pc = "leased", !.on = i] /\ call[c] \in Call
    BY <1>t, <1>1
  <2> QED
    BY <2>1, <1>2 DEF Call
<1>5. \A j \in Clients : Still(j) /\ SameGate(j)
  <2>1. ASSUME NEW j \in Clients
        PROVE  /\ client'[j].session = client[j].session /\ client'[j].left = client[j].left
               /\ client'[j].opening = client[j].opening /\ client'[j].reopening = client[j].reopening
               /\ client'[j].closed = client[j].closed /\ client'[j].thrown = client[j].thrown
               /\ client'[j].line = client[j].line /\ client'[j].held = client[j].held
    <3>1. client'[j] = client[j] \/ client'[j] = [client[j] EXCEPT !.aged = FALSE]
      BY <1>t, <1>1
    <3>2. client[j] \in Client
      BY <1>t
    <3> QED
      BY <3>1, <3>2 DEF Client
  <2>2. None \notin Clients
    BY BlankTypes
  <2> QED
    BY <1>2, <1>3, <1>4, <2>1, <2>2 DEF Still, SameGate, Flights
<1>6. /\ pool'.created \in Nat /\ pool.created \in Nat /\ pool.entry \in Nat /\ Clients \subseteq Nat
      /\ pool'.created >= pool.created
      /\ pool'.entry = i /\ ~pool'.closed /\ i <= pool'.created /\ i # None
      /\ pool' = pool \/ (pool'.created = i /\ i = pool.created + 1 /\ pool.entry = None)
  <2>1. i \in Nat /\ i # None /\ Clients \subseteq Nat /\ pool.created \in Nat /\ pool.entry \in Nat
    BY <1>t, PoolAssumption DEF Pool, Clients, None
  <2>2. CASE i = pool.entry /\ pool' = pool
    BY <1>t, <1>2, <2>1, <2>2
  <2>3. CASE pool.entry = None /\ i = pool.created + 1 /\ pool' = [pool EXCEPT !.entry = i, !.created = i]
    <3>1. pool'.entry = i /\ pool'.created = i /\ pool'.closed = pool.closed
      BY <1>t, <2>3 DEF Pool
    <3> QED
      BY <1>2, <2>1, <2>3, <3>1
  <2> QED
    BY <1>1, <2>2, <2>3
<1>7. \A d \in Calls : CallOK(d)'
  <2>1. \A j \in Clients : client[j].thrown => client'[j].thrown
    BY <1>5 DEF Still
  <2>2. ASSUME NEW d \in Calls, d # c PROVE CallOK(d)'
    BY <1>2, <1>3, <1>6, <2>1, <2>2, CallStays
  <2>3. CallOK(c)'
    BY <1>t, <1>2, <1>4, <1>6 DEF CallOK, Entered
  <2> QED
    BY <2>2, <2>3
<1>8. ASSUME NEW j \in Clients PROVE ClientOK(j)' /\ Awaited(j)' /\ Kept(j)'
  <2>1. CASE pool' = pool
    BY <1>5, <2>1, StillOK
  <2>2. CASE pool'.created = i /\ i = pool.created + 1 /\ pool.entry = None
    <3>1. Still(j) /\ ClientOK(j) /\ Awaited(j) /\ Kept(j)
      BY <1>t, <1>5
    <3>2. Awaited(j)' /\ Kept(j)'
      BY <3>1 DEF Awaited, Kept, Awaiting, Still, Flights
    <3>3. j \in Nat /\ j # None
      BY <1>6, BlankTypes
    <3>4. Quiet(j)'
      BY <1>2, <2>2, <3>1, <3>3 DEF ClientOK, Quiet, Still, Flights
    <3>5. ClientOK(j)'
      <4>1. client'[j].thrown = client[j].thrown /\ client'[j].closed = client[j].closed
        BY <3>1 DEF Still
      <4>2. client'[j].closed => j <= pool.created
        BY <3>1, <4>1 DEF ClientOK
      <4>3. j # i /\ j <= i /\ ~pool.closed => client[j].closed
        BY <1>6, <2>2, <3>1, <3>3 DEF ClientOK
      <4>4. ~client'[j].thrown
        BY <1>2, <3>1, <4>1 DEF ClientOK
      <4> QED
        BY <1>2, <1>6, <2>2, <3>3, <3>4, <4>1, <4>2, <4>3, <4>4 DEF ClientOK
    <3> QED
      BY <3>2, <3>5
  <2> QED
    BY <1>6, <2>1, <2>2
<1> QED
  BY <1>5, <1>6, <1>7, <1>8 DEF Order, CallsOK, ClientsOK

\* The sweep closes a client nobody uses, and so nobody opens.
LEMMA SweepStep ==
  ASSUME IInv, TypeOK', Sweep
  PROVE  Order' /\ \A j \in Clients : SameGate(j)
<1>t. /\ call \in [Calls -> Call] /\ client \in [Clients -> Client] /\ alive \in [Clients -> SUBSET Gens]
      /\ pool \in Pool /\ pool.entry <= pool.created /\ \A j \in Clients : ClientOK(j)
      /\ \A j \in Clients : Awaited(j) /\ Kept(j)
  BY DEF IInv, TypeOK, CallsOK, ClientsOK
<1>0. PICK i \in Clients : i = pool.entry
  BY <1>t DEF Sweep, Pool
<1>s. PICK stays \in SUBSET MayStay(i) :
        /\ client' = [client EXCEPT ![i] = Closed(i, stays)]
        /\ alive' = Ended(i, stays)
  BY <1>0 DEF Sweep
<1>1. /\ i # None /\ InFlight(i) = {}
      /\ pool'.entry = None /\ pool'.created = pool.created /\ pool'.closed = pool.closed
      /\ UNCHANGED <<call, ran, doubled>>
  BY <1>0, <1>t DEF Sweep, Idle, Pool
<1>2. /\ \A j \in Clients \ {i} : client'[j] = client[j] /\ alive'[j] = alive[j]
      /\ alive'[i] = (alive[i] \ {client[i].session}) \cup stays
  BY <1>t, <1>s DEF Ended
<1>3. /\ client'[i].session = None /\ client'[i].closed /\ client'[i].left = client[i].left \cup stays
      /\ client'[i].opening = client[i].opening /\ client'[i].reopening = client[i].reopening
      /\ client'[i].thrown = client[i].thrown
      /\ client'[i].line = client[i].line /\ client'[i].held = client[i].held
  <2>1. client'[i] = Closed(i, stays) /\ client[i] \in Client
    BY <1>t, <1>s
  <2> QED
    BY <2>1 DEF Closed, Client
<1>4. /\ \A c \in Calls : call[c].on = i => call[c].pc \in {"idle", "leased"}
      /\ ~client[i].opening /\ ~client[i].reopening
  <2>1. \A c \in Calls : call[c].on = i => call[c].pc \in {"idle", "leased"}
    BY <1>1 DEF InFlight
  <2>2. Awaiting(i, "opening") = {} /\ Awaiting(i, "reopening") = {}
    BY <2>1 DEF Awaiting
  <2> QED
    BY <1>t, <1>1, <2>1, <2>2 DEF Awaited
<1>5. \A j \in Clients : SameGate(j)
  BY <1>1, <1>2, <1>3 DEF SameGate
<1>6. \A d \in Calls : CallOK(d)'
  <2>1. \A j \in Clients : client[j].thrown => client'[j].thrown
    BY <1>5 DEF SameGate
  <2>2. pool'.created >= pool.created
    BY <1>t, <1>1, PoolAssumption DEF Pool
  <2> QED
    BY <1>1, <2>1, <2>2, CallStays
<1>7. ASSUME NEW j \in Clients, j # i PROVE ClientOK(j)' /\ Awaited(j)' /\ Kept(j)'
  <2>1. ClientOK(j) /\ Awaited(j) /\ Kept(j) /\ client'[j] = client[j] /\ alive'[j] = alive[j] /\ j # None
    BY <1>t, <1>2, <1>7, BlankTypes
  <2>2. Awaited(j)' /\ Kept(j)'
    BY <1>1, <2>1 DEF Awaited, Kept, Awaiting
  <2>3. Quiet(j)' <=> Quiet(j)
    BY <1>1, <2>1 DEF Quiet
  <2> QED
    BY <1>0, <1>1, <1>7, <2>1, <2>2, <2>3 DEF ClientOK
<1>8. ClientOK(i)' /\ Awaited(i)' /\ Kept(i)'
  <2>1. ClientOK(i) /\ Kept(i) /\ i <= pool.created /\ pool.entry = i
    BY <1>0, <1>t, <1>1
  <2>2. Quiet(i)'
    BY <1>1, <1>3, <1>4 DEF Quiet
  <2>3. Awaited(i)'
    BY <1>3, <1>4 DEF Awaited
  <2>4. Kept(i)'
    BY <1>1, <1>2, <1>3, <1>4, <2>1 DEF Kept
  <2> QED
    BY <1>1, <1>3, <2>1, <2>2, <2>3, <2>4 DEF ClientOK
<1>9. pool'.entry <= pool'.created
  BY <1>t, <1>1, PoolAssumption DEF Pool, None
<1> QED
  BY <1>5, <1>6, <1>7, <1>8, <1>9 DEF Order, CallsOK, ClientsOK

\* A handshake that is awaited may begin; a request only goes where a session is.
LEMMA EnterStep ==
  ASSUME IInv, TypeOK', NEW c \in Calls, Enter(c)
  PROVE  Order' /\ \A j \in Clients : SameGate(j)
<1>t. /\ call \in [Calls -> Call] /\ client \in [Clients -> Client]
      /\ pool \in Pool /\ \A j \in Clients : ClientOK(j)
      /\ \A j \in Clients : Awaited(j) /\ Kept(j)
  BY DEF IInv, TypeOK, CallsOK, ClientsOK
<1>k. /\ call[c].pc = "admitted" /\ call[c].tries = 0 /\ call[c].permit # "none" /\ CallOK(c)
      /\ UNCHANGED <<pool, alive, ran>>
  BY DEF IInv, CallsOK, Enter, CallOK, Entered
<1>0. PICK i \in Clients : i = call[c].on
  BY <1>k, OnClient
<1>1. doubled' = doubled /\ \A d \in Calls \ {c} : call'[d] = call[d]
  BY <1>t, <1>k DEF Enter
<1>2. /\ call'[c].on = i /\ call'[c].permit = call[c].permit /\ call'[c].pc # "queued"
      /\ \/ /\ client[i].session # None /\ client' = client
            /\ call'[c].pc = "done" \/ (call'[c].pc = "sent" /\ call'[c].tries = 1 /\ call'[c].gen # None)
         \/ client' = client /\ call'[c].pc = "done"
         \/ /\ client[i].session = None /\ ~client[i].closed /\ client[i].reopening
            /\ client' = client /\ call'[c].pc = "reopening" /\ call'[c].tries = 0
         \/ /\ client[i].session = None /\ ~client[i].closed /\ ~client[i].reopening
            /\ client' = [client EXCEPT ![i].opening = TRUE] /\ client'[i].opening
            /\ call'[c].pc = "opening" /\ call'[c].tries = 0
  <2>t. call[c] \in Call /\ client[i] \in Client
    BY <1>t
  <2>1. CASE client[i].session # None
    <3>1. PICK spent \in BOOLEAN : call' = [call EXCEPT ![c] = Attempt(@, client[i].session, spent)]
      BY <1>0, <2>1 DEF Enter
    <3>2. call'[c] = Attempt(call[c], client[i].session, spent)
      BY <1>t, <3>1
    <3>3. client[i].session \in Gens
      BY <2>t, <2>1 DEF Client
    <3>4. client' = client
      BY <1>0, <2>1 DEF Enter
    <3>5. /\ call'[c].on = call[c].on /\ call'[c].permit = call[c].permit
          /\ call'[c].pc = "done" \/ (call'[c].pc = "sent" /\ call'[c].tries = 1 /\ call'[c].gen # None)
      <4>1. call[c].tries \in 0..1 /\ call[c].tries + 1 = 1 /\ client[i].session # None
        BY <1>k, <2>1
      <4> QED
        BY <2>t, <3>2, <3>3, <4>1, AttemptType
    <3> QED
      BY <1>0, <2>1, <3>4, <3>5
  <2>2. CASE client[i].session = None
    <3>1. \/ client' = client /\ call' = [call EXCEPT ![c].pc = "done"]
          \/ /\ ~client[i].closed /\ client[i].reopening
             /\ client' = client /\ call' = [call EXCEPT ![c].pc = "reopening"]
          \/ /\ ~client[i].closed /\ ~client[i].reopening
             /\ client' = [client EXCEPT ![i].opening = TRUE] /\ call' = [call EXCEPT ![c].pc = "opening"]
      BY <1>0, <2>2 DEF Enter
    <3>2. \A p \in {"done", "reopening", "opening"} : call' = [call EXCEPT ![c].pc = p] =>
            /\ call'[c].pc = p /\ call'[c].on = i /\ call'[c].permit = call[c].permit
            /\ call'[c].tries = 0
      BY <1>0, <1>k, <1>t, <2>t DEF Call
    <3>3. client' = [client EXCEPT ![i].opening = TRUE] => client'[i].opening
      BY <1>t, <2>t DEF Client
    <3> QED
      BY <2>2, <3>1, <3>2, <3>3
  <2> QED
    BY <2>1, <2>2
<1>3. /\ \A j \in Clients \ {i} : client'[j] = client[j]
      /\ client'[i].left = client[i].left
      /\ client'[i].session = client[i].session /\ client'[i].reopening = client[i].reopening
      /\ client'[i].closed = client[i].closed /\ client'[i].thrown = client[i].thrown
      /\ client'[i].line = client[i].line /\ client'[i].held = client[i].held
  <2>1. client[i] \in Client /\ (client' = client \/ client' = [client EXCEPT ![i].opening = TRUE])
    BY <1>t, <1>2
  <2> QED
    BY <1>t, <2>1 DEF Client
<1>4. client'[i].opening <=> client[i].opening \/ call'[c].pc = "opening"
  BY <1>2
<1>5. \A j \in Clients : SameGate(j)
  <2>1. /\ call'[c].on = call[c].on /\ call'[c].permit = call[c].permit
        /\ call[c].pc # "queued" /\ call'[c].pc # "queued"
    BY <1>0, <1>k, <1>2
  <2>2. /\ \A j \in Clients \ {i} : client'[j] = client[j]
        /\ client'[i].thrown = client[i].thrown
        /\ client'[i].line = client[i].line /\ client'[i].held = client[i].held
    BY <1>3
  <2> QED
    BY <1>1, <2>1, <2>2 DEF SameGate
<1>6. \A d \in Calls : CallOK(d)'
  <2>1. \A j \in Clients : client[j].thrown => client'[j].thrown
    BY <1>5 DEF SameGate
  <2>2. pool'.created >= pool.created
    BY <1>t, <1>k, PoolAssumption DEF Pool
  <2>3. ASSUME NEW d \in Calls, d # c PROVE CallOK(d)'
    BY <1>k, <1>1, <2>1, <2>2, <2>3, CallStays
  <2>4. CallOK(c)'
    BY <1>0, <1>k, <1>2, <1>3 DEF CallOK, Entered
  <2> QED
    BY <2>3, <2>4
<1>7. ASSUME NEW j \in Clients, j # i PROVE ClientOK(j)' /\ Awaited(j)' /\ Kept(j)'
  <2>1. Still(j)
    BY <1>0, <1>k, <1>1, <1>2, <1>3, <1>7 DEF Still
  <2> QED
    BY <1>k, <2>1, StillOK
<1>8. ClientOK(i)' /\ Awaited(i)' /\ Kept(i)'
  <2>0. ClientOK(i) /\ Awaited(i) /\ Kept(i)
    BY <1>t
  <2>1. Kept(i)'
    BY <1>k, <1>1, <1>2, <1>3, <1>4, <2>0 DEF Kept
  <2>2. Awaited(i)'
    <3>1. client[i].opening => client'[i].opening /\ Awaiting(i, "opening") # {}
      BY <1>4, <2>0 DEF Awaited
    <3>2. Awaiting(i, "opening") \subseteq Awaiting(i, "opening")'
      BY <1>0, <1>k, <1>1 DEF Awaiting
    <3>3. Awaiting(i, "reopening") \subseteq Awaiting(i, "reopening")'
      BY <1>0, <1>k, <1>1 DEF Awaiting
    <3>4. call'[c].pc = "opening" => Awaiting(i, "opening")' # {}
      BY <1>2 DEF Awaiting
    <3> QED
      BY <1>3, <1>4, <2>0, <3>2, <3>3, <3>4 DEF Awaited
  <2>3. ClientOK(i)'
    <3>1. ASSUME i # pool.entry, ~pool.closed PROVE Quiet(i)'
      <4>1. Quiet(i) /\ client[i].closed
        <5>1. i <= pool.created
          BY <1>0, <1>k DEF CallOK
        <5> QED
          BY <2>0, <3>1, <5>1 DEF ClientOK
      <4>2. client' = client /\ call'[c].pc = "done"
        BY <1>2, <4>1 DEF Quiet
      <4> QED
        BY <1>0, <1>1, <1>2, <4>1, <4>2 DEF Quiet
    <3> QED
      BY <1>k, <1>3, <2>0, <3>1 DEF ClientOK
  <2> QED
    BY <2>1, <2>2, <2>3
<1> QED
  BY <1>5, <1>6, <1>7, <1>8, <1>k DEF Order, CallsOK, ClientsOK, IInv

\* A session is given up only when the upstream has forgotten it.
LEMMA LostStep ==
  ASSUME IInv, TypeOK', NEW c \in Calls, Lost(c)
  PROVE  Order' /\ \A j \in Clients : SameGate(j)
<1>t. /\ call \in [Calls -> Call] /\ client \in [Clients -> Client] /\ alive \in [Clients -> SUBSET Gens]
      /\ pool \in Pool /\ \A j \in Clients : ClientOK(j)
      /\ \A j \in Clients : Awaited(j) /\ Kept(j)
  BY DEF IInv, TypeOK, CallsOK, ClientsOK
<1>k. /\ call[c].pc = "sent" /\ call[c].tries # 0 /\ call[c].gen # None /\ call[c].permit # "none"
      /\ CallOK(c) /\ UNCHANGED <<pool, alive, ran>>
  BY DEF IInv, CallsOK, Lost, CallOK, Entered
<1>0. PICK i \in Clients : i = call[c].on
  BY <1>k, OnClient
<1>g. call[c].gen \notin alive[i]
  BY <1>0 DEF Lost
<1>1. \A d \in Calls \ {c} : call'[d] = call[d]
  BY <1>t, <1>k DEF Lost
<1>2. /\ call'[c].on = i /\ call'[c].permit = call[c].permit
      /\ \/ /\ client' = client /\ doubled' = doubled
            /\ \/ call'[c].pc = "done"
               \/ call'[c].pc = "sent" /\ call'[c].tries = 2 /\ call'[c].gen # None
               \/ client[i].reopening /\ call'[c].pc = "reopening" /\ call'[c].tries = 1
         \/ /\ client[i].session \in {None, call[c].gen} /\ ~client[i].reopening
            /\ client' = [client EXCEPT ![i].session = None, ![i].reopening = TRUE]
            /\ doubled' = IF client[i].opening THEN doubled \cup {i} ELSE doubled
            /\ call'[c].pc = "reopening" /\ call'[c].tries = 1
  <2>t. call[c] \in Call /\ client[i] \in Client
    BY <1>t
  <2>p. \A p \in {"done", "reopening"} : call' = [call EXCEPT ![c].pc = p] =>
          /\ call'[c].pc = p /\ call'[c].on = i /\ call'[c].permit = call[c].permit
          /\ call'[c].tries = call[c].tries
    BY <1>0, <1>t, <2>t DEF Call
  <2>1. CASE call[c].tries = 2 \/ client[i].closed
    <3>1. call' = [call EXCEPT ![c].pc = "done"] /\ client' = client /\ doubled' = doubled
      BY <1>0, <2>1 DEF Lost
    <3> QED
      BY <2>p, <3>1
  <2>2. CASE call[c].tries = 1 /\ ~client[i].closed /\ Replaced(client[i], call[c].gen)
    <3>1. PICK spent \in BOOLEAN : call' = [call EXCEPT ![c] = Attempt(@, client[i].session, spent)]
      BY <1>0, <2>2 DEF Lost
    <3>2. call'[c] = Attempt(call[c], client[i].session, spent)
      BY <1>t, <3>1
    <3>3. client[i].session \in Gens
      BY <2>t, <2>2 DEF Client, Replaced
    <3>4. client' = client /\ doubled' = doubled
      BY <1>0, <2>2 DEF Lost
    <3>5. /\ call'[c].on = call[c].on /\ call'[c].permit = call[c].permit
          /\ \/ call'[c].pc = "done"
             \/ call'[c].pc = "sent" /\ call'[c].gen = client[i].session /\ call'[c].tries = 1 + 1
      <4>1. call[c].tries \in 0..1
        BY <2>2
      <4> QED
        BY <2>t, <2>2, <3>2, <3>3, <4>1, AttemptType
    <3>6. client[i].session # None
      BY <3>3, BlankTypes
    <3> QED
      BY <1>0, <3>4, <3>5, <3>6
  <2>3. CASE call[c].tries = 1 /\ ~client[i].closed /\ ~Replaced(client[i], call[c].gen)
    <3>1. /\ call' = [call EXCEPT ![c].pc = "reopening"]
          /\ IF client[i].reopening
             THEN client' = client /\ doubled' = doubled
             ELSE /\ client' = [client EXCEPT ![i].session = None, ![i].reopening = TRUE]
                  /\ doubled' = IF client[i].opening THEN doubled \cup {i} ELSE doubled
      BY <1>0, <2>3 DEF Lost
    <3>2. client[i].session \in {None, call[c].gen}
      BY <2>3 DEF Replaced
    <3>3. call'[c].pc = "reopening" /\ call'[c].on = i /\ call'[c].permit = call[c].permit /\ call'[c].tries = 1
      BY <2>p, <2>3, <3>1
    <3> QED
      BY <3>1, <3>2, <3>3
  <2>4. call[c].tries \in {1, 2}
    BY <1>k, <2>t DEF Call
  <2> QED
    BY <2>1, <2>2, <2>3, <2>4
<1>3. /\ \A j \in Clients \ {i} : client'[j] = client[j] /\ (j \in doubled' <=> j \in doubled)
      /\ client'[i].opening = client[i].opening /\ client'[i].left = client[i].left
      /\ client'[i].closed = client[i].closed /\ client'[i].thrown = client[i].thrown
      /\ client'[i].line = client[i].line /\ client'[i].held = client[i].held
  <2>1. /\ client[i] \in Client
        /\ client' = client \/ client' = [client EXCEPT ![i].session = None, ![i].reopening = TRUE]
    BY <1>t, <1>2
  <2>2. \A j \in Clients \ {i} : j \in doubled' <=> j \in doubled
    BY <1>2
  <2> QED
    BY <1>t, <2>1, <2>2 DEF Client
<1>5. \A j \in Clients : SameGate(j)
  <2>1. /\ call'[c].on = call[c].on /\ call'[c].permit = call[c].permit
        /\ call[c].pc # "queued" /\ call'[c].pc # "queued"
    BY <1>0, <1>k, <1>2
  <2>2. /\ \A j \in Clients \ {i} : client'[j] = client[j]
        /\ client'[i].thrown = client[i].thrown
        /\ client'[i].line = client[i].line /\ client'[i].held = client[i].held
    BY <1>3
  <2> QED
    BY <1>1, <2>1, <2>2 DEF SameGate
<1>6. \A d \in Calls : CallOK(d)'
  <2>1. \A j \in Clients : client[j].thrown => client'[j].thrown
    BY <1>5 DEF SameGate
  <2>2. pool'.created >= pool.created
    BY <1>t, <1>k, PoolAssumption DEF Pool
  <2>3. ASSUME NEW d \in Calls, d # c PROVE CallOK(d)'
    BY <1>k, <1>1, <2>1, <2>2, <2>3, CallStays
  <2>4. CallOK(c)'
    <3>1. i # None /\ i <= pool'.created /\ ran'[c] = 0
      BY <1>0, <1>k DEF CallOK, Entered
    <3>2. /\ call'[c].on = i /\ call'[c].pc \in {"done", "sent", "reopening"} /\ call'[c].permit # "none"
          /\ call'[c].pc = "sent" => call'[c].tries = 2 /\ call'[c].gen # None
          /\ call'[c].pc = "reopening" => call'[c].tries = 1
      BY <1>k, <1>2
    <3>3. call'[c].permit = "inert" => client'[i].thrown
      BY <1>0, <1>k, <1>2, <1>3 DEF CallOK
    <3> QED
      BY <3>1, <3>2, <3>3 DEF CallOK, Entered
  <2> QED
    BY <2>3, <2>4
<1>7. ASSUME NEW j \in Clients, j # i PROVE ClientOK(j)' /\ Awaited(j)' /\ Kept(j)'
  <2>0. client'[j] = client[j] /\ alive'[j] = alive[j] /\ (j \in doubled => j \in doubled')
    BY <1>k, <1>3, <1>7
  <2>c. call[c].on # j /\ call'[c].on # j
    BY <1>0, <1>2, <1>7
  <2>1. Still(j)
    BY <1>1, <2>0, <2>c DEF Still
  <2> QED
    BY <1>k, <2>1, StillOK
<1>8. ClientOK(i)' /\ Awaited(i)' /\ Kept(i)'
  <2>0. ClientOK(i) /\ Awaited(i) /\ Kept(i)
    BY <1>t
  <2>1. Kept(i)'
    <3>1. CASE client' = client /\ doubled' = doubled
      BY <1>k, <2>0, <3>1 DEF Kept
    <3>2. CASE /\ client[i].session \in {None, call[c].gen}
               /\ client' = [client EXCEPT ![i].session = None, ![i].reopening = TRUE]
               /\ doubled' = IF client[i].opening THEN doubled \cup {i} ELSE doubled
      <4>1. client'[i].session = None
        <5>1. client[i] \in Client
          BY <1>t
        <5> QED
          BY <1>t, <3>2, <5>1 DEF Client
      <4>2. i \notin doubled' => i \notin doubled /\ ~client[i].opening
        BY <3>2
      <4>3. i \notin doubled => alive[i] \subseteq client[i].left
        BY <1>g, <1>t, <2>0, <3>2, BlankTypes DEF Kept
      <4> QED
        BY <1>k, <1>3, <4>1, <4>2, <4>3 DEF Kept
    <3> QED
      BY <1>2, <3>1, <3>2
  <2>2. Awaited(i)'
    <3>1. /\ client'[i].opening = client[i].opening
          /\ client'[i].reopening => client[i].reopening \/ call'[c].pc = "reopening"
      BY <1>2, <1>3
    <3>2. Awaiting(i, "opening") \subseteq Awaiting(i, "opening")'
      BY <1>0, <1>k, <1>1 DEF Awaiting
    <3>3. Awaiting(i, "reopening") \subseteq Awaiting(i, "reopening")'
      BY <1>0, <1>k, <1>1 DEF Awaiting
    <3>4. call'[c].pc = "reopening" => Awaiting(i, "reopening")' # {}
      BY <1>2 DEF Awaiting
    <3> QED
      BY <2>0, <3>1, <3>2, <3>3, <3>4 DEF Awaited
  <2>3. ClientOK(i)'
    <3>1. i = pool.entry \/ pool.closed
      <4>1. i <= pool.created /\ ~Quiet(i)
        BY <1>0, <1>k DEF CallOK, Quiet
      <4> QED
        BY <2>0, <4>1 DEF ClientOK
    <3> QED
      BY <1>k, <1>3, <2>0, <3>1 DEF ClientOK
  <2> QED
    BY <2>1, <2>2, <2>3
<1> QED
  BY <1>5, <1>6, <1>7, <1>8, <1>k DEF Order, CallsOK, ClientsOK, IInv

\* The other handshake a client can make.
Other(flight) == IF flight = "opening" THEN "reopening" ELSE "opening"

\* A handshake ends for everybody who awaited it, and for nobody else; a new
\* session comes where there was none.
LEMMA HandshakeStep ==
  ASSUME IInv, TypeOK', NEW i \in Clients, NEW flight \in Flights, Handshake(i, flight)
  PROVE  Order' /\ \A j \in Clients : SameGate(j)
<1>t. /\ call \in [Calls -> Call] /\ client \in [Clients -> Client] /\ alive \in [Clients -> SUBSET Gens]
      /\ pool \in Pool /\ \A j \in Clients : ClientOK(j)
      /\ \A j \in Clients : Awaited(j) /\ Kept(j)
      /\ \A d \in Calls : CallOK(d)
  BY DEF IInv, TypeOK, CallsOK, ClientsOK
<1>k. /\ client[i] \in Client /\ client[i][flight] /\ UNCHANGED <<pool, ran, doubled>>
      /\ flight = "opening" \/ flight = "reopening"
  BY <1>t DEF Handshake, Connect, ConnectFails, Flights
<1>e. /\ \A d \in Awaiting(i, flight) : call[d].on = i /\ call[d].pc = flight
      /\ \A d \in Calls \ Awaiting(i, flight) : ~(call[d].on = i /\ call[d].pc = flight)
  BY DEF Awaiting
<1>1. /\ \A d \in Calls \ Awaiting(i, flight) : call'[d] = call[d]
      /\ \A d \in Awaiting(i, flight) :
           /\ call'[d].on = i /\ call'[d].permit = call[d].permit
           /\ \/ call'[d].pc = "done"
              \/ call'[d].pc = "sent" /\ call'[d].gen # None /\ call'[d].tries # 0
  <2>1. ASSUME Connect(i, flight)
        PROVE  /\ \A d \in Calls \ Awaiting(i, flight) : call'[d] = call[d]
               /\ \A d \in Awaiting(i, flight) :
                    /\ call'[d].on = i /\ call'[d].permit = call[d].permit
                    /\ \/ call'[d].pc = "done"
                       \/ call'[d].pc = "sent" /\ call'[d].gen # None /\ call'[d].tries # 0
    <3>1. PICK g \in Gens, spent \in SUBSET Awaiting(i, flight) :
            call' = [d \in Calls |-> IF d \in Awaiting(i, flight)
                                     THEN Attempt(call[d], g, d \in spent) ELSE call[d]]
      <4>1. client[i].gens + 1 \in Gens
        <5>1. client[i] \in Client /\ MayMint(i)
          BY <1>k, <2>1 DEF Connect
        <5> QED
          BY <5>1, MintedIsGen
      <4> QED
        BY <2>1, <4>1 DEF Connect
    <3>2. ASSUME NEW d \in Awaiting(i, flight)
          PROVE  /\ call'[d] = Attempt(call[d], g, d \in spent) /\ d \in Calls
                 /\ call[d] \in Call /\ call[d].tries \in 0..1
      <4>1. d \in Calls /\ call[d] \in Call /\ CallOK(d) /\ call[d].pc \in {"opening", "reopening"}
        BY <1>t, <1>k DEF Awaiting
      <4> QED
        BY <3>1, <4>1 DEF CallOK, Call
    <3>3. ASSUME NEW d \in Awaiting(i, flight)
          PROVE  /\ call'[d].on = i /\ call'[d].permit = call[d].permit
                 /\ \/ call'[d].pc = "done"
                    \/ call'[d].pc = "sent" /\ call'[d].gen # None /\ call'[d].tries # 0
      <4> DEFINE k == call[d]
      <4>1. k \in Call /\ k.tries \in 0..1 /\ call'[d] = Attempt(k, g, d \in spent) /\ k.on = i
        BY <1>e, <3>2
      <4>2. /\ Attempt(k, g, d \in spent).on = k.on
            /\ Attempt(k, g, d \in spent).permit = k.permit
            /\ \/ Attempt(k, g, d \in spent).pc = "done"
               \/ /\ Attempt(k, g, d \in spent).pc = "sent"
                  /\ Attempt(k, g, d \in spent).gen = g
                  /\ Attempt(k, g, d \in spent).tries = k.tries + 1
        BY <4>1, AttemptType
      <4>3. k.tries + 1 # 0 /\ g # None
        BY <4>1, BlankTypes
      <4> QED
        BY <4>1, <4>2, <4>3
    <3> QED
      BY <3>1, <3>3
  <2>2. ASSUME ConnectFails(i, flight)
        PROVE  /\ \A d \in Calls \ Awaiting(i, flight) : call'[d] = call[d]
               /\ \A d \in Awaiting(i, flight) :
                    /\ call'[d].on = i /\ call'[d].permit = call[d].permit
                    /\ call'[d].pc = "done"
    <3>1. ASSUME NEW d \in Awaiting(i, flight)
          PROVE  call'[d] = [call[d] EXCEPT !.pc = "done"] /\ call[d] \in Call /\ call[d].on = i
      BY <1>t, <1>e, <2>2 DEF ConnectFails, Awaiting
    <3>2. \A d \in Calls \ Awaiting(i, flight) : call'[d] = call[d]
      BY <2>2 DEF ConnectFails
    <3> QED
      BY <3>1, <3>2 DEF Call
  <2> QED
    BY <2>1, <2>2 DEF Handshake
<1>2. /\ \A j \in Clients \ {i} : client'[j] = client[j] /\ alive'[j] = alive[j]
      /\ \/ /\ Connect(i, flight)
            /\ client'[i] = [[client[i] EXCEPT ![flight] = FALSE] EXCEPT
                               !.session = client[i].gens + 1, !.gens = client[i].gens + 1]
            /\ alive'[i] = alive[i] \cup {client[i].gens + 1}
         \/ /\ ConnectFails(i, flight)
            /\ client'[i] = [client[i] EXCEPT ![flight] = FALSE]
            /\ alive' = alive
         \/ /\ ConnectFails(i, flight)
            /\ client'[i] = [[client[i] EXCEPT ![flight] = FALSE] EXCEPT
                 !.gens = client[i].gens + 1, !.left = client[i].left \cup {client[i].gens + 1}]
            /\ alive'[i] = alive[i] \cup {client[i].gens + 1}
  <2>1. ASSUME Connect(i, flight)
        PROVE  /\ \A j \in Clients \ {i} : client'[j] = client[j] /\ alive'[j] = alive[j]
               /\ client'[i] = [[client[i] EXCEPT ![flight] = FALSE] EXCEPT
                                  !.session = client[i].gens + 1, !.gens = client[i].gens + 1]
               /\ alive'[i] = alive[i] \cup {client[i].gens + 1}
    BY <1>t, <1>k, <2>1 DEF Connect
  <2>2. ASSUME ConnectFails(i, flight)
        PROVE  /\ \A j \in Clients \ {i} : client'[j] = client[j] /\ alive'[j] = alive[j]
               /\ \/ /\ client'[i] = [client[i] EXCEPT ![flight] = FALSE]
                     /\ alive' = alive
                  \/ /\ client'[i] = [[client[i] EXCEPT ![flight] = FALSE] EXCEPT
                          !.gens = client[i].gens + 1, !.left = client[i].left \cup {client[i].gens + 1}]
                     /\ alive'[i] = alive[i] \cup {client[i].gens + 1}
    BY <1>t, <1>k, <2>2 DEF ConnectFails
  <2> QED
    BY <2>1, <2>2 DEF Handshake
<1>3. /\ client'[i].closed = client[i].closed /\ client'[i].thrown = client[i].thrown
      /\ client'[i].line = client[i].line /\ client'[i].held = client[i].held
      /\ ~client'[i][flight] /\ client'[i][Other(flight)] = client[i][Other(flight)]
      /\ \/ /\ alive'[i] = alive[i] \cup {client'[i].session}
            /\ client'[i].left = client[i].left
         \/ /\ alive'[i] = alive[i] /\ client'[i].session = client[i].session
            /\ client'[i].left = client[i].left
         \/ /\ alive'[i] = alive[i] \cup {client[i].gens + 1}
            /\ client'[i].session = client[i].session
            /\ client'[i].left = client[i].left \cup {client[i].gens + 1}
  <2> DEFINE k == client[i]
             n == client'[i]
             a == [[k EXCEPT ![flight] = FALSE] EXCEPT !.session = k.gens + 1, !.gens = k.gens + 1]
             b == [k EXCEPT ![flight] = FALSE]
             e == [[k EXCEPT ![flight] = FALSE] EXCEPT !.gens = k.gens + 1, !.left = k.left \cup {k.gens + 1}]
  <2>1. /\ a.closed = k.closed /\ a.thrown = k.thrown /\ a.line = k.line /\ a.held = k.held
        /\ ~a[flight] /\ a[Other(flight)] = k[Other(flight)] /\ a.session = k.gens + 1
        /\ a.left = k.left
    <3>1. CASE flight = "opening"
      BY <1>k, <3>1 DEF Client, Other
    <3>2. CASE flight = "reopening"
      BY <1>k, <3>2 DEF Client, Other
    <3> QED
      BY <1>k, <3>1, <3>2
  <2>2. /\ b.closed = k.closed /\ b.thrown = k.thrown /\ b.line = k.line /\ b.held = k.held
        /\ ~b[flight] /\ b[Other(flight)] = k[Other(flight)] /\ b.session = k.session
        /\ b.left = k.left
    <3>1. CASE flight = "opening"
      BY <1>k, <3>1 DEF Client, Other
    <3>2. CASE flight = "reopening"
      BY <1>k, <3>2 DEF Client, Other
    <3> QED
      BY <1>k, <3>1, <3>2
  <2>4. /\ e.closed = k.closed /\ e.thrown = k.thrown /\ e.line = k.line /\ e.held = k.held
        /\ ~e[flight] /\ e[Other(flight)] = k[Other(flight)] /\ e.session = k.session
        /\ e.left = k.left \cup {k.gens + 1}
    <3>1. CASE flight = "opening"
      BY <1>k, <3>1 DEF Client, Other
    <3>2. CASE flight = "reopening"
      BY <1>k, <3>2 DEF Client, Other
    <3> QED
      BY <1>k, <3>1, <3>2
  <2>3. \/ n = a /\ alive'[i] = alive[i] \cup {k.gens + 1}
        \/ n = b /\ alive'[i] = alive[i]
        \/ n = e /\ alive'[i] = alive[i] \cup {k.gens + 1}
    BY <1>2
  <2> HIDE DEF a, b, e
  <2> QED
    BY <2>1, <2>2, <2>3, <2>4
<1>5. \A j \in Clients : SameGate(j)
  <2>1. \A d \in Awaiting(i, flight) :
          /\ call'[d].on = call[d].on /\ call'[d].permit = call[d].permit
          /\ call[d].pc # "queued" /\ call'[d].pc # "queued"
    BY <1>e, <1>k, <1>1
  <2>2. \A d \in Calls \ Awaiting(i, flight) : call'[d] = call[d]
    BY <1>1
  <2>3. /\ \A j \in Clients \ {i} : client'[j] = client[j]
        /\ client'[i].thrown = client[i].thrown
        /\ client'[i].line = client[i].line /\ client'[i].held = client[i].held
    BY <1>2, <1>3
  <2> QED
    BY <2>1, <2>2, <2>3 DEF SameGate
<1>6. \A d \in Calls : CallOK(d)'
  <2>1. \A j \in Clients : client[j].thrown => client'[j].thrown
    BY <1>5 DEF SameGate
  <2>2. pool'.created >= pool.created
    BY <1>t, <1>k, PoolAssumption DEF Pool
  <2>3. ASSUME NEW d \in Calls \ Awaiting(i, flight) PROVE CallOK(d)'
    BY <1>k, <1>1, <2>1, <2>2, <2>3, CallStays
  <2>4. ASSUME NEW d \in Awaiting(i, flight) PROVE CallOK(d)'
    <3>1. d \in Calls /\ CallOK(d) /\ call[d].pc \in {"opening", "reopening"} /\ call[d].on = i
      BY <1>e, <1>k, <1>t DEF Awaiting
    <3>2. /\ call[d].permit # "none" /\ ran[d] = 0 /\ i # None /\ i <= pool.created
          /\ call[d].permit = "inert" => client[i].thrown
      BY <3>1, BlankTypes DEF CallOK, Entered
    <3> QED
      BY <1>k, <1>1, <1>3, <3>1, <3>2 DEF CallOK, Entered
  <2> QED
    BY <2>3, <2>4
<1>7. ASSUME NEW j \in Clients, j # i PROVE ClientOK(j)' /\ Awaited(j)' /\ Kept(j)'
  <2>1. Still(j)
    <3>1. \A d \in Awaiting(i, flight) : call[d].on # j /\ call'[d].on # j
      BY <1>e, <1>1, <1>7
    <3> QED
      BY <1>k, <1>1, <1>2, <1>7, <3>1 DEF Still
  <2> QED
    BY <1>k, <2>1, StillOK
<1>8. ClientOK(i)' /\ Awaited(i)' /\ Kept(i)'
  <2>0. ClientOK(i) /\ Awaited(i) /\ Kept(i)
    BY <1>t
  <2>1. Kept(i)'
    <3>1. ASSUME i \notin doubled
          PROVE  /\ alive[i] \subseteq client[i].left /\ client[i].session = None
                 /\ ~client[i][Other(flight)]
      <4>1. /\ client[i].session = None /\ alive[i] \subseteq {None} \cup client[i].left
            /\ ~client[i][Other(flight)]
        BY <1>k, <2>0, <3>1 DEF Kept, Other
      <4> QED
        BY <1>t, <4>1, BlankTypes
    <3>2. i \notin doubled => ~client'[i].opening /\ ~client'[i].reopening
      BY <1>k, <1>3, <3>1 DEF Other
    <3> QED
      BY <1>k, <1>3, <3>1, <3>2 DEF Kept
  <2>2. Awaited(i)'
    <3>1. Awaiting(i, Other(flight)) \subseteq Awaiting(i, Other(flight))'
      <4>1. ASSUME NEW d \in Awaiting(i, Other(flight)) PROVE call'[d] = call[d] /\ d \in Calls
        BY <1>e, <1>k, <1>1 DEF Awaiting, Other
      <4> QED
        BY <4>1 DEF Awaiting
    <3>2. CASE flight = "opening"
      BY <1>3, <2>0, <3>1, <3>2 DEF Awaited, Other
    <3>3. CASE flight = "reopening"
      BY <1>3, <2>0, <3>1, <3>3 DEF Awaited, Other
    <3> QED
      BY <1>k, <3>2, <3>3
  <2>3. ClientOK(i)'
    <3>1. i # pool.entry => pool.closed
      BY <1>k, <2>0 DEF ClientOK, Quiet
    <3> QED
      BY <1>k, <1>3, <2>0, <3>1 DEF ClientOK
  <2> QED
    BY <2>1, <2>2, <2>3
<1> QED
  BY <1>5, <1>6, <1>7, <1>8, <1>k DEF Order, CallsOK, ClientsOK, IInv

-----------------------------------------------------------------------------
(***************************************************************************)
(* The steps that move a semaphore                                         *)
(***************************************************************************)
\* The bounded queue counts as the pool does.
LEMMA SameCount == \A S : Gate!Cardinality(S) = Cardinality(S)
BY DEF Gate!Cardinality, Cardinality, Gate!IsFiniteSet, IsFiniteSet

\* And it takes out of the line as the pool does.
LEMMA SameCut == \A s, n : Gate!RemoveAt(s, n) = RemoveAt(s, n)
BY DEF Gate!RemoveAt, RemoveAt

\* A semaphore nobody touches stutters.
LEMMA Stutters ==
  ASSUME IInv, \A j \in Clients : SameGate(j)
  PROVE  (\A j \in Clients : LineOK(j)') /\ UNCHANGED Gate!vars
<1>1. \A j \in Clients : LineOK(j)' /\ Inside(j)' = Inside(j)
  BY SameGateOK
<1>2. \A j \in Clients : client'[j].line = client[j].line /\ client'[j].thrown = client[j].thrown
  BY DEF SameGate
<1> QED
  BY <1>1, <1>2 DEF Gate!vars

\* What the bounded queue says of the semaphore that moves, and of the others.
LEMMA GateMoves ==
  ASSUME IInv, NEW i \in Clients, \A j \in Clients \ {i} : SameGate(j)
  PROVE  /\ \A j \in Clients \ {i} : LineOK(j)'
         /\ [j \in Clients |-> Inside(j)]' = [[j \in Clients |-> Inside(j)] EXCEPT ![i] = Inside(i)']
         /\ [j \in Clients |-> client[j].line]'
              = [[j \in Clients |-> client[j].line] EXCEPT ![i] = client'[i].line]
         /\ [j \in Clients |-> client[j].thrown]'
              = [[j \in Clients |-> client[j].thrown] EXCEPT ![i] = client'[i].thrown]
<1>1. \A j \in Clients \ {i} : LineOK(j)' /\ Inside(j)' = Inside(j)
  BY SameGateOK
<1>2. \A j \in Clients \ {i} : client'[j].line = client[j].line /\ client'[j].thrown = client[j].thrown
  BY DEF SameGate
<1> QED
  BY <1>1, <1>2

\* Who asks enters if there is room, and queues if there is none.
LEMMA AskStep ==
  ASSUME IInv, TypeOK', NEW c \in Calls, Ask(c)
  PROVE  Order' /\ (\A j \in Clients : LineOK(j)') /\ (Gate!Next \/ UNCHANGED Gate!vars)
<1>t. /\ call \in [Calls -> Call] /\ client \in [Clients -> Client] /\ ran \in [Calls -> 0..2]
      /\ \A j \in Clients : LineOK(j)
  BY DEF IInv, TypeOK
<1>k. /\ call[c].pc = "leased" /\ call[c].tries = 0 /\ call[c].permit = "none"
      /\ CallOK(c) /\ UNCHANGED <<pool, alive, doubled>>
      /\ ran' = [ran EXCEPT ![c] = 0]
  BY DEF IInv, CallsOK, Ask, CallOK
<1>0. PICK i \in Clients : i = call[c].on
  BY <1>k, OnClient
<1>1. /\ \A d \in Calls \ {c} : call'[d] = call[d] /\ ran'[d] = ran[d]
      /\ ran'[c] = 0
  BY <1>t, <1>k DEF Ask
<1>2. /\ call'[c].on = i /\ call'[c].tries = 0
      /\ \/ /\ client[i].thrown /\ client' = client
            /\ call'[c].pc = "admitted" /\ call'[c].permit = "inert"
         \/ /\ ~client[i].thrown /\ client[i].held < Limit
            /\ client' = [client EXCEPT ![i].held = @ + 1]
            /\ call'[c].pc = "admitted" /\ call'[c].permit = "real"
         \/ /\ ~client[i].thrown /\ client[i].held >= Limit
            /\ client' = [client EXCEPT ![i].line = Append(@, c)]
            /\ call'[c].pc = "queued" /\ call'[c].permit = "none"
  <2>1. call[c] \in Call
    BY <1>t
  <2>2. \A p \in {"admitted", "queued"}, q \in {"none", "real", "inert"} :
          call' = [call EXCEPT ![c].pc = p, ![c].permit = q] =>
            call'[c].pc = p /\ call'[c].permit = q /\ call'[c].on = i /\ call'[c].tries = 0
    BY <1>0, <1>k, <1>t, <2>1 DEF Call
  <2>3. \/ /\ client[i].thrown /\ client' = client
           /\ call' = [call EXCEPT ![c].pc = "admitted", ![c].permit = "inert"]
        \/ /\ ~client[i].thrown /\ client[i].held < Limit
           /\ client' = [client EXCEPT ![i].held = @ + 1]
           /\ call' = [call EXCEPT ![c].pc = "admitted", ![c].permit = "real"]
        \/ /\ ~client[i].thrown /\ client[i].held >= Limit
           /\ client' = [client EXCEPT ![i].line = Append(@, c)]
           /\ call' = [call EXCEPT ![c].pc = "queued", ![c].permit = "none"]
    BY <1>0 DEF Ask
  <2> QED
    BY <2>2, <2>3
<1>3. /\ \A j \in Clients \ {i} : client'[j] = client[j]
      /\ client'[i].session = client[i].session /\ client'[i].left = client[i].left
      /\ client'[i].opening = client[i].opening /\ client'[i].reopening = client[i].reopening
      /\ client'[i].closed = client[i].closed /\ client'[i].thrown = client[i].thrown
  <2>1. client[i] \in Client
    BY <1>t
  <2>2. \/ client' = client \/ client' = [client EXCEPT ![i].held = @ + 1]
        \/ client' = [client EXCEPT ![i].line = Append(@, c)]
    BY <1>2
  <2> QED
    BY <1>t, <2>1, <2>2 DEF Client
<1>4. Order'
  <2>1. \A j \in Clients : Still(j)
    BY <1>0, <1>k, <1>1, <1>2, <1>3 DEF Still, Flights
  <2>2. CallOK(c)'
    <3>1. i # None /\ i <= pool'.created
      BY <1>0, <1>k DEF CallOK
    <3>2. /\ call'[c].pc \in {"admitted", "queued"}
          /\ call'[c].pc = "queued" <=> call'[c].permit = "none"
          /\ call'[c].permit = "inert" => client'[i].thrown
      BY <1>2, <1>3
    <3> QED
      BY <1>1, <1>2, <3>1, <3>2 DEF CallOK, Entered
  <2> QED
    BY <1>k, <1>1, <2>1, <2>2, OneCall
<1>5. \A j \in Clients \ {i} : SameGate(j)
  BY <1>0, <1>1, <1>2, <1>3 DEF SameGate
<1>6. /\ client[i].held \in 0..Limit /\ client[i].line \in Seq(Calls) /\ Limit \in Nat
      /\ LineOK(i) /\ c \notin Inside(i) /\ c \notin InLine(i)
  <2>1. client[i] \in Client
    BY <1>t
  <2>2. LineOK(i)
    BY <1>t
  <2> QED
    BY <1>0, <1>k, <2>1, <2>2, PoolAssumption DEF Client, LineOK, Inside
<1>7. CASE client[i].thrown /\ client' = client
  <2>1. call'[c].pc = "admitted" /\ call'[c].permit = "inert"
    <3>1. client'[i].held = client[i].held /\ client'[i].line = client[i].line
      BY <1>7
    <3> QED
      BY <1>2, <1>7
  <2>2. \A j \in Clients : SameGate(j)
    BY <1>0, <1>k, <1>1, <1>2, <1>7, <2>1 DEF SameGate
  <2> QED
    BY <1>4, <2>2, Stutters
<1>8. CASE /\ ~client[i].thrown /\ client[i].held < Limit
           /\ client' = [client EXCEPT ![i].held = @ + 1]
           /\ call'[c].pc = "admitted" /\ call'[c].permit = "real"
  <2>1. client'[i].held = client[i].held + 1 /\ client'[i].line = client[i].line /\ client[i].line = <<>>
    <3>1. client[i] \in Client
      BY <1>t
    <3>2. client[i].line = <<>>
      BY <1>6, <1>8 DEF LineOK
    <3> QED
      BY <1>t, <1>8, <3>1, <3>2 DEF Client
  <2>2. Inside(i)' = Inside(i) \cup {c}
    BY <1>0, <1>1, <1>2, <1>8 DEF Inside
  <2>3. IsFiniteSet(Inside(i)') /\ Cardinality(Inside(i)') = client'[i].held
    BY <1>6, <2>1, <2>2, FS_AddElement DEF LineOK
  <2>4. LineOK(i)'
    <3>1. InLine(i)' = InLine(i)
      BY <2>1 DEF InLine
    <3>2. \A d \in Calls : (call'[d].on = i /\ call'[d].pc = "queued") <=> (call[d].on = i /\ call[d].pc = "queued")
      BY <1>k, <1>1, <1>8
    <3> QED
      BY <1>3, <1>6, <1>8, <2>1, <2>3, <3>1, <3>2 DEF LineOK
  <2>5. Gate!Enter(i, c)
    <3>1. Gate!Waiting(i) = InLine(i)
      BY DEF Gate!Waiting, InLine, Elems
    <3>2. Cardinality(Inside(i)) < Limit
      BY <1>6, <1>8 DEF LineOK
    <3>3. [j \in Clients |-> client[j].line]' = [j \in Clients |-> client[j].line]
      BY <1>3, <2>1
    <3>4. [j \in Clients |-> client[j].thrown]' = [j \in Clients |-> client[j].thrown]
      BY <1>3
    <3>5. [j \in Clients |-> Inside(j)]'
            = [[j \in Clients |-> Inside(j)] EXCEPT ![i] = Inside(i) \cup {c}]
      BY <1>5, <2>2, GateMoves
    <3>6. /\ [j \in Clients |-> Inside(j)][i] = Inside(i)
          /\ [j \in Clients |-> client[j].line][i] = client[i].line
          /\ [j \in Clients |-> client[j].thrown][i] = client[i].thrown
      OBVIOUS
    <3>7. c \notin Inside(i) /\ c \notin InLine(i) /\ ~client[i].thrown /\ client[i].line = <<>>
      BY <1>6, <1>8, <2>1
    <3> QED
      BY <3>1, <3>2, <3>3, <3>4, <3>5, <3>6, <3>7, SameCount DEF Gate!Enter
  <2>6. Gate!Next
    BY <2>5 DEF Gate!Next
  <2> QED
    BY <1>4, <1>5, <2>4, <2>6, GateMoves
<1>9. CASE /\ ~client[i].thrown /\ client[i].held >= Limit
           /\ client' = [client EXCEPT ![i].line = Append(@, c)]
           /\ call'[c].pc = "queued" /\ call'[c].permit = "none"
  <2>1. client'[i].held = client[i].held /\ client'[i].line = Append(client[i].line, c) /\ client[i].held = Limit
    <3>1. client[i] \in Client
      BY <1>t
    <3>2. client[i].held = Limit
      BY <1>6, <1>9
    <3> QED
      BY <1>t, <1>9, <3>1, <3>2 DEF Client
  <2>2. Inside(i)' = Inside(i)
    BY <1>0, <1>k, <1>1, <1>9 DEF Inside
  <2>3. InLine(i)' = InLine(i) \cup {c} /\ Distinct(client'[i].line) /\ client'[i].line # <<>>
    BY <1>6, <2>1, Joined DEF InLine, LineOK
  <2>4. LineOK(i)'
    <3>1. \A d \in Calls : (call'[d].on = i /\ call'[d].pc = "queued")
                             <=> (call[d].on = i /\ call[d].pc = "queued") \/ d = c
      BY <1>k, <1>1, <1>2, <1>9
    <3> QED
      BY <1>3, <1>6, <1>9, <2>1, <2>2, <2>3, <3>1 DEF LineOK
  <2>5. Gate!Queue(i, c)
    <3>1. Gate!Waiting(i) = InLine(i)
      BY DEF Gate!Waiting, InLine, Elems
    <3>2. Cardinality(Inside(i)) = Limit
      BY <1>6, <2>1 DEF LineOK
    <3>3. [j \in Clients |-> Inside(j)]' = [j \in Clients |-> Inside(j)]
      BY <1>5, <2>2, SameGateOK
    <3>4. [j \in Clients |-> client[j].thrown]' = [j \in Clients |-> client[j].thrown]
      BY <1>3
    <3>5. [j \in Clients |-> client[j].line]'
            = [[j \in Clients |-> client[j].line] EXCEPT ![i] = Append(client[i].line, c)]
      BY <1>5, <2>1, GateMoves
    <3>6. /\ [j \in Clients |-> Inside(j)][i] = Inside(i)
          /\ [j \in Clients |-> client[j].line][i] = client[i].line
          /\ [j \in Clients |-> client[j].thrown][i] = client[i].thrown
      OBVIOUS
    <3>7. c \notin Inside(i) /\ c \notin InLine(i) /\ ~client[i].thrown
      BY <1>6, <1>9
    <3> QED
      BY <3>1, <3>2, <3>3, <3>4, <3>5, <3>6, <3>7, SameCount DEF Gate!Queue
  <2>6. Gate!Next
    BY <2>5 DEF Gate!Next
  <2> QED
    BY <1>4, <1>5, <2>4, <2>6, GateMoves
<1> QED
  BY <1>2, <1>7, <1>8, <1>9

\* Who gives up leaves the line, wherever it stands.
LEMMA TimerStep ==
  ASSUME IInv, TypeOK', NEW c \in Calls, TimerFires(c)
  PROVE  Order' /\ (\A j \in Clients : LineOK(j)') /\ (Gate!Next \/ UNCHANGED Gate!vars)
<1>t. /\ call \in [Calls -> Call] /\ client \in [Clients -> Client]
      /\ \A j \in Clients : LineOK(j)
  BY DEF IInv, TypeOK
<1>k. /\ call[c].pc = "queued" /\ call[c].tries = 0 /\ call[c].permit = "none" /\ ran[c] = 0
      /\ CallOK(c) /\ UNCHANGED <<pool, alive, ran, doubled>>
  BY DEF IInv, CallsOK, TimerFires, CallOK, world
<1>0. PICK i \in Clients : i = call[c].on
  BY <1>k, OnClient
<1>1. /\ \A d \in Calls \ {c} : call'[d] = call[d]
      /\ call'[c].pc = "done" /\ call'[c].on = i /\ call'[c].permit = "none" /\ call'[c].tries = 0
  <2>1. call[c] \in Call /\ call'[c] = [call[c] EXCEPT !.pc = "done"]
    BY <1>t DEF TimerFires
  <2>2. \A d \in Calls \ {c} : call'[d] = call[d]
    BY <1>t DEF TimerFires
  <2> QED
    BY <1>0, <1>k, <2>1, <2>2 DEF Call
<1>2. PICK n \in 1..Len(client[i].line) :
        client[i].line[n] = c /\ Without(client[i].line, c) = RemoveAt(client[i].line, n)
  <2>1. c \in InLine(i)
    BY <1>0, <1>k, <1>t DEF LineOK
  <2>2. IndexOf(client[i].line, c) \in 1..Len(client[i].line)
        /\ client[i].line[IndexOf(client[i].line, c)] = c
    BY <2>1 DEF InLine, Elems, IndexOf
  <2> QED
    BY <2>2 DEF Without
<1>3. /\ \A j \in Clients \ {i} : client'[j] = client[j]
      /\ client'[i].line = RemoveAt(client[i].line, n) /\ client'[i].held = client[i].held
      /\ client'[i].session = client[i].session /\ client'[i].left = client[i].left
      /\ client'[i].opening = client[i].opening /\ client'[i].reopening = client[i].reopening
      /\ client'[i].closed = client[i].closed /\ client'[i].thrown = client[i].thrown
  <2>1. client[i] \in Client /\ client' = [client EXCEPT ![i].line = RemoveAt(client[i].line, n)]
    BY <1>0, <1>t, <1>2 DEF TimerFires
  <2> QED
    BY <1>t, <2>1 DEF Client
<1>4. Order'
  <2>1. \A j \in Clients : Still(j)
    BY <1>0, <1>k, <1>1, <1>3 DEF Still, Flights
  <2>2. CallOK(c)'
    BY <1>0, <1>k, <1>1, <1>3 DEF CallOK, Entered
  <2> QED
    BY <1>k, <1>1, <2>1, <2>2, OneCall
<1>5. \A j \in Clients \ {i} : SameGate(j)
  BY <1>0, <1>1, <1>3 DEF SameGate
<1>6. client[i].line \in Seq(Calls) /\ LineOK(i) /\ client[i].line # <<>>
  <2>1. client[i] \in Client /\ LineOK(i)
    BY <1>t
  <2>2. client[i].line \in Seq(Calls)
    BY <2>1 DEF Client
  <2>3. Len(client[i].line) # 0
    BY <1>2, <2>2, LenProperties
  <2> QED
    BY <2>1, <2>2, <2>3, EmptySeq
<1>7. Inside(i)' = Inside(i)
  BY <1>0, <1>k, <1>1 DEF Inside
<1>8. LineOK(i)'
  <2>1. InLine(i)' = InLine(i) \ {c} /\ Distinct(client'[i].line)
    BY <1>2, <1>3, <1>6, Quitted DEF InLine, LineOK
  <2>2. \A d \in Calls : (call'[d].on = i /\ call'[d].pc = "queued")
                           <=> (call[d].on = i /\ call[d].pc = "queued") /\ d # c
    BY <1>1
  <2>3. ~client[i].thrown /\ client[i].held = Limit
    BY <1>6 DEF LineOK
  <2> QED
    BY <1>3, <1>6, <1>7, <2>1, <2>2, <2>3 DEF LineOK
<1>9. Gate!GiveUp(i, n)
  <2>1. [j \in Clients |-> client[j].line]'
          = [[j \in Clients |-> client[j].line] EXCEPT ![i] = RemoveAt(client[i].line, n)]
    BY <1>3, <1>5, GateMoves
  <2>2. [j \in Clients |-> Inside(j)]' = [j \in Clients |-> Inside(j)]
    BY <1>5, <1>7, SameGateOK
  <2>3. [j \in Clients |-> client[j].thrown]' = [j \in Clients |-> client[j].thrown]
    BY <1>3
  <2>4. [j \in Clients |-> client[j].line][i] = client[i].line
    OBVIOUS
  <2> QED
    BY <2>1, <2>2, <2>3, <2>4, SameCut DEF Gate!GiveUp
<1>10. Gate!Next
  <2>1. n \in 1..Len([j \in Clients |-> client[j].line][i])
    OBVIOUS
  <2> QED
    BY <1>9, <2>1 DEF Gate!Next
<1> QED
  BY <1>4, <1>5, <1>8, <1>10, GateMoves

\* Shutdown opens the entry's semaphore to everybody, and nobody waits at it.
LEMMA CloseStep ==
  ASSUME IInv, TypeOK', Close
  PROVE  Order' /\ (\A j \in Clients : LineOK(j)') /\ (Gate!Next \/ UNCHANGED Gate!vars)
<1>t. /\ call \in [Calls -> Call] /\ client \in [Clients -> Client] /\ alive \in [Clients -> SUBSET Gens]
      /\ pool \in Pool /\ pool.entry <= pool.created /\ \A j \in Clients : ClientOK(j)
      /\ \A j \in Clients : Awaited(j) /\ Kept(j) /\ LineOK(j)
  BY DEF IInv, TypeOK, CallsOK, ClientsOK
<1>1. /\ pool'.closed /\ pool'.entry = None /\ pool'.created = pool.created
      /\ UNCHANGED <<ran, doubled>>
  BY <1>t DEF Close, Pool
<1>2. pool'.created >= pool.created /\ pool'.entry <= pool'.created
  BY <1>t, <1>1, PoolAssumption DEF Pool, None
<1>3. CASE pool.entry = None
  <2>1. UNCHANGED <<client, call, alive>>
    BY <1>3 DEF Close
  <2>2. \A d \in Calls : CallOK(d)'
    BY <1>1, <1>2, <2>1, CallStays
  <2>3. ASSUME NEW j \in Clients PROVE ClientOK(j)' /\ Awaited(j)' /\ Kept(j)' /\ SameGate(j)
    <3>1. ClientOK(j) /\ Awaited(j) /\ Kept(j) /\ j # None
      BY <1>t, BlankTypes
    <3>2. Awaited(j)' /\ Kept(j)' /\ SameGate(j)
      BY <1>1, <2>1, <3>1 DEF Awaited, Awaiting, Kept, SameGate
    <3>3. ClientOK(j)'
      BY <1>1, <2>1, <3>1 DEF ClientOK
    <3> QED
      BY <3>2, <3>3
  <2>4. Order'
    BY <1>2, <2>2, <2>3 DEF Order, CallsOK, ClientsOK
  <2> QED
    BY <2>3, <2>4, Stutters
<1>4. ASSUME NEW i \in Clients, i = pool.entry
      PROVE  Order' /\ (\A j \in Clients : LineOK(j)') /\ Gate!Next
  <2>0. pool.entry # None
    BY <1>4, BlankTypes
  <2>s. PICK stays \in SUBSET MayStay(i) :
          /\ client' = [client EXCEPT ![i] = Opened(i, stays)]
          /\ alive' = Ended(i, stays)
    BY <1>4, <2>0 DEF Close
  <2>1. \A d \in Calls : call'[d] = IF call[d].on = i /\ call[d].pc = "queued"
                                    THEN [call[d] EXCEPT !.pc = "admitted", !.permit = "inert"]
                                    ELSE call[d]
    BY <1>4, <2>0 DEF Close
  <2>2. /\ \A j \in Clients \ {i} : client'[j] = client[j] /\ alive'[j] = alive[j]
        /\ alive'[i] = (alive[i] \ {client[i].session}) \cup stays
    BY <1>t, <2>s DEF Ended
  <2>3. /\ client'[i].session = None /\ client'[i].closed /\ client'[i].thrown
        /\ client'[i].left = client[i].left \cup stays
        /\ client'[i].opening = client[i].opening /\ client'[i].reopening = client[i].reopening
        /\ client'[i].line = <<>> /\ client'[i].held = client[i].held
    <3>1. client[i] \in Client /\ client'[i] = Opened(i, stays)
      BY <1>t, <2>s
    <3>2. Opened(i, stays) = [client[i] EXCEPT !.closed = TRUE, !.session = None,
                                !.left = client[i].left \cup stays, !.thrown = TRUE, !.line = <<>>]
      BY <3>1 DEF Opened, Closed, Client
    <3> QED
      BY <3>1, <3>2 DEF Client
  <2>4. /\ \A d \in Calls : call'[d] = call[d]
             \/ /\ call[d].on = i /\ call[d].pc = "queued"
                /\ call'[d].on = i /\ call'[d].pc = "admitted" /\ call'[d].permit = "inert"
                /\ call'[d].tries = call[d].tries
        /\ \A d \in Calls : call'[d].on = i => call'[d].pc # "queued"
    <3>1. ASSUME NEW d \in Calls, call[d].on = i, call[d].pc = "queued"
          PROVE  /\ call'[d].on = i /\ call'[d].pc = "admitted" /\ call'[d].permit = "inert"
                 /\ call'[d].tries = call[d].tries
      <4>1. call[d] \in Call /\ call'[d] = [call[d] EXCEPT !.pc = "admitted", !.permit = "inert"]
        BY <1>t, <2>1, <3>1
      <4> QED
        BY <3>1, <4>1 DEF Call
    <3>2. ASSUME NEW d \in Calls, ~(call[d].on = i /\ call[d].pc = "queued")
          PROVE  call'[d] = call[d]
      BY <2>1, <3>2
    <3> QED
      BY <3>1, <3>2
  <2>5. \A d \in Calls : CallOK(d) /\ CallOK(d)'
    <3>0. \A d \in Calls : CallOK(d)
      BY DEF IInv, CallsOK
    <3>1. \A j \in Clients : client[j].thrown => client'[j].thrown
      BY <2>2, <2>3
    <3>2. ASSUME NEW d \in Calls, call'[d] = call[d] PROVE CallOK(d)'
      BY <1>1, <1>2, <3>1, <3>2, CallStays
    <3>3. ASSUME NEW d \in Calls, call[d].on = i, call[d].pc = "queued",
                 call'[d].on = i, call'[d].pc = "admitted", call'[d].permit = "inert",
                 call'[d].tries = call[d].tries
          PROVE  CallOK(d)'
      BY <1>1, <2>3, <3>0, <3>3, BlankTypes DEF CallOK, Entered
    <3> QED
      BY <2>4, <3>0, <3>2, <3>3
  <2>6. ASSUME NEW j \in Clients PROVE ClientOK(j)' /\ Awaited(j)' /\ Kept(j)'
    <3>1. ClientOK(j) /\ Awaited(j) /\ Kept(j) /\ j # None
      BY <1>t, BlankTypes
    <3>2. Awaited(j)'
      <4>1. \A p \in {"opening", "reopening"} : Awaiting(j, p) \subseteq Awaiting(j, p)'
        BY <2>4 DEF Awaiting
      <4> QED
        BY <2>2, <2>3, <3>1, <4>1 DEF Awaited
    <3>3. Kept(j)'
      BY <1>1, <2>2, <2>3, <3>1 DEF Kept
    <3>4. ClientOK(j)'
      BY <1>1, <1>4, <1>t, <2>2, <2>3, <3>1 DEF ClientOK
    <3> QED
      BY <3>2, <3>3, <3>4
  <2>7. Order'
    BY <1>2, <2>5, <2>6 DEF Order, CallsOK, ClientsOK
  <2>p. \A d \in Calls : call[d].pc = "queued" => call[d].permit = "none"
    BY <2>5 DEF CallOK
  <2>8. \A j \in Clients \ {i} : SameGate(j)
    BY <2>2, <2>4 DEF SameGate
  <2>9. Inside(i)' = Inside(i)
    BY <2>4, <2>p DEF Inside
  <2>10. LineOK(i)'
    <3>1. InLine(i)' = {} /\ Distinct(<<>>)
      BY <2>3 DEF InLine, Elems, Distinct
    <3> QED
      BY <1>t, <2>3, <2>4, <2>9, <3>1 DEF LineOK
  <2>11. Gate!ThrowOpen(i)
    <3>1. /\ [j \in Clients |-> client[j].line]'
               = [[j \in Clients |-> client[j].line] EXCEPT ![i] = <<>>]
          /\ [j \in Clients |-> client[j].thrown]'
               = [[j \in Clients |-> client[j].thrown] EXCEPT ![i] = client'[i].thrown]
      BY <2>3, <2>8, GateMoves
    <3>2. [j \in Clients |-> Inside(j)]' = [j \in Clients |-> Inside(j)]
      BY <2>8, <2>9, SameGateOK
    <3>3. client'[i].thrown = TRUE
      <4>1. client'[i] \in Client
        BY DEF TypeOK
      <4> QED
        BY <2>3, <4>1 DEF Client
    <3> QED
      BY <3>1, <3>2, <3>3 DEF Gate!ThrowOpen
  <2>12. Gate!Next
    BY <2>11 DEF Gate!Next
  <2> QED
    BY <2>7, <2>8, <2>10, <2>12, GateMoves
<1> QED
  BY <1>3, <1>4, <1>t DEF Pool

\* A permit that comes free goes to the eldest in the line, if there is one.
LEMMA FinishStep ==
  ASSUME IInv, TypeOK', NEW c \in Calls, Finish(c)
  PROVE  Order' /\ (\A j \in Clients : LineOK(j)') /\ (Gate!Next \/ UNCHANGED Gate!vars)
<1>t. /\ call \in [Calls -> Call] /\ client \in [Clients -> Client]
      /\ \A j \in Clients : LineOK(j)
      /\ \A d \in Calls : CallOK(d)
  BY DEF IInv, TypeOK, CallsOK
<1>k. call[c].pc = "done" /\ CallOK(c) /\ UNCHANGED <<pool, alive, ran, doubled>>
  <2>1. call[c].pc = "done" /\ UNCHANGED <<pool, world>>
    BY DEF Finish
  <2> QED
    BY <1>t, <2>1 DEF world
<1>0. PICK i \in Clients : i = call[c].on
  BY <1>k, OnClient
<1>6. /\ client[i] \in Client /\ client[i].line \in Seq(Calls) /\ client[i].held \in 0..Limit
      /\ LineOK(i) /\ Limit \in Nat /\ i # None
  <2>1. client[i] \in Client /\ LineOK(i)
    BY <1>t
  <2> QED
    BY <2>1, PoolAssumption, BlankTypes DEF Client
<1> DEFINE next == client[i].line
           idle == [Free EXCEPT !.pc = "leased", !.on = i]
           over == [call EXCEPT ![c] = idle]
<1>i. idle.pc = "leased" /\ idle.on = i /\ idle.permit = "none" /\ idle.tries = 0 /\ idle \in Call
  BY BlankTypes DEF Free, Call
<1>o. over[c] = idle /\ over \in [Calls -> Call] /\ \A d \in Calls \ {c} : over[d] = call[d]
  BY <1>t, <1>i
<1>c. ASSUME call'[c] = idle PROVE CallOK(c)'
  BY <1>0, <1>k, <1>6, <1>i, <1>c DEF CallOK, Entered
<1> HIDE DEF idle, over
<1>f. \/ /\ call[c].permit = "real" /\ next # <<>>
         /\ client' = [client EXCEPT ![i].line = Tail(@), ![i].aged = FALSE]
         /\ call' = [over EXCEPT ![Head(next)].pc = "admitted", ![Head(next)].permit = "real"]
      \/ /\ call[c].permit = "real" /\ next = <<>>
         /\ client' = [client EXCEPT ![i].aged = FALSE, ![i].held = @ - 1]
         /\ call' = over
      \/ /\ call[c].permit # "real"
         /\ client' = [client EXCEPT ![i].aged = FALSE, ![i].held = @]
         /\ call' = over
  BY <1>0 DEF Finish, GivenBack, over, idle
<1>p. call[c].permit = "real" => c \in Inside(i)
  BY <1>0 DEF Inside
<1>1. CASE /\ call[c].permit = "real" /\ next # <<>>
           /\ client' = [client EXCEPT ![i].line = Tail(@), ![i].aged = FALSE]
           /\ call' = [over EXCEPT ![Head(next)].pc = "admitted", ![Head(next)].permit = "real"]
  <2>1. PICK h \in Calls : h = Head(next) /\ h \in InLine(i) /\ Tail(next) \in Seq(Calls)
                           /\ Elems(Tail(next)) = InLine(i) \ {h} /\ Distinct(Tail(next))
    BY <1>1, <1>6, Served DEF InLine, LineOK
  <2>2. /\ call[h].on = i /\ call[h].pc = "queued" /\ h # c /\ call[h].permit = "none"
        /\ h \notin Inside(i) /\ call[h].tries = 0 /\ ran[h] = 0 /\ call[h] \in Call
        /\ i <= pool.created
    <3>1. call[h].on = i /\ call[h].pc = "queued" /\ CallOK(h) /\ call[h] \in Call
      BY <1>t, <1>6, <2>1 DEF LineOK
    <3>2. /\ call[h].permit = "none" /\ call[h].tries = 0 /\ ran[h] = 0 /\ i <= pool.created
      BY <3>1 DEF CallOK
    <3> QED
      BY <1>k, <3>1, <3>2 DEF Inside
  <2>3. /\ \A d \in Calls \ {c, h} : call'[d] = call[d]
        /\ call'[c] = idle
        /\ call'[h].pc = "admitted" /\ call'[h].permit = "real" /\ call'[h].on = i /\ call'[h].tries = 0
    <3>1. /\ \A d \in Calls \ {h} : call'[d] = over[d]
          /\ call'[h] = [over[h] EXCEPT !.pc = "admitted", !.permit = "real"]
      BY <1>1, <1>o, <2>1
    <3>2. call'[h] = [call[h] EXCEPT !.pc = "admitted", !.permit = "real"]
      BY <1>o, <2>2, <3>1
    <3>3. /\ call'[h].pc = "admitted" /\ call'[h].permit = "real" /\ call'[h].on = i /\ call'[h].tries = 0
      BY <2>2, <3>2 DEF Call
    <3> QED
      BY <1>o, <2>2, <3>1, <3>3
  <2>4. /\ \A j \in Clients \ {i} : client'[j] = client[j]
        /\ client'[i].line = Tail(next) /\ client'[i].held = client[i].held
        /\ client'[i].session = client[i].session /\ client'[i].left = client[i].left
        /\ client'[i].opening = client[i].opening /\ client'[i].reopening = client[i].reopening
        /\ client'[i].closed = client[i].closed /\ client'[i].thrown = client[i].thrown
    BY <1>t, <1>6, <1>1 DEF Client
  <2>5. \A j \in Clients : Still(j)
    BY <1>0, <1>i, <1>k, <2>2, <2>3, <2>4 DEF Still, Flights
  <2>6. Order'
    <3>1. \A j \in Clients : client[j].thrown => client'[j].thrown
      BY <2>5 DEF Still
    <3>2. pool'.created >= pool.created
      BY <1>k, PoolAssumption DEF IInv, TypeOK, Pool
    <3>3. ASSUME NEW d \in Calls \ {c, h} PROVE CallOK(d)'
      BY <1>k, <2>3, <3>1, <3>2, <3>3, CallStays
    <3>4. CallOK(h)'
      BY <1>k, <1>6, <2>2, <2>3 DEF CallOK, Entered
    <3>5. \A d \in Calls : CallOK(d)'
      BY <1>c, <2>3, <3>3, <3>4
    <3>6. \A j \in Clients : ClientOK(j)' /\ Awaited(j)' /\ Kept(j)'
      BY <1>k, <2>5, StillOK
    <3>7. (pool.entry <= pool.created)'
      BY <1>k DEF IInv, ClientsOK
    <3> QED
      BY <3>5, <3>6, <3>7 DEF Order, CallsOK, ClientsOK
  <2>7. \A j \in Clients \ {i} : SameGate(j)
    BY <1>0, <1>i, <2>2, <2>3, <2>4 DEF SameGate
  <2>8. Inside(i)' = (Inside(i) \ {c}) \cup {h}
    BY <1>0, <1>i, <2>2, <2>3 DEF Inside
  <2>9. IsFiniteSet(Inside(i)') /\ Cardinality(Inside(i)') = client'[i].held
    <3>1. /\ IsFiniteSet(Inside(i) \ {c}) /\ Cardinality(Inside(i) \ {c}) = client[i].held - 1
          /\ h \notin Inside(i) \ {c}
      BY <1>1, <1>6, <1>p, <2>2, FS_RemoveElement DEF LineOK
    <3>2. /\ IsFiniteSet((Inside(i) \ {c}) \cup {h})
          /\ Cardinality((Inside(i) \ {c}) \cup {h}) = client[i].held - 1 + 1
      BY <3>1, FS_AddElement
    <3> QED
      BY <1>6, <2>4, <2>8, <3>2
  <2>10. LineOK(i)'
    <3>1. InLine(i)' = InLine(i) \ {h} /\ Distinct(client'[i].line)
      BY <2>1, <2>4 DEF InLine
    <3>2. \A d \in Calls : (call'[d].on = i /\ call'[d].pc = "queued")
                             <=> (call[d].on = i /\ call[d].pc = "queued") /\ d # h
      BY <1>i, <1>k, <2>2, <2>3
    <3>3. ~client[i].thrown /\ client[i].held = Limit
      BY <1>1, <1>6 DEF LineOK
    <3> QED
      BY <1>6, <2>4, <2>9, <3>1, <3>2, <3>3 DEF LineOK
  <2>11. Gate!Leave(i, c)
    <3>1. [j \in Clients |-> Inside(j)]'
            = [[j \in Clients |-> Inside(j)] EXCEPT ![i] = (Inside(i) \ {c}) \cup {Head(next)}]
      BY <2>1, <2>7, <2>8, GateMoves
    <3>2. [j \in Clients |-> client[j].line]'
            = [[j \in Clients |-> client[j].line] EXCEPT ![i] = Tail(next)]
      BY <2>4, <2>7, GateMoves
    <3>3. [j \in Clients |-> client[j].thrown]' = [j \in Clients |-> client[j].thrown]
      BY <2>4
    <3>4. /\ [j \in Clients |-> Inside(j)][i] = Inside(i)
          /\ [j \in Clients |-> client[j].line][i] = next
      OBVIOUS
    <3> HIDE DEF next
    <3> QED
      BY <1>1, <1>p, <3>1, <3>2, <3>3, <3>4 DEF Gate!Leave
  <2>12. Gate!Next
    BY <2>11 DEF Gate!Next
  <2> QED
    BY <2>6, <2>7, <2>10, <2>12, GateMoves
<1>2. CASE call' = over /\ \/ /\ call[c].permit = "real" /\ next = <<>>
                              /\ client' = [client EXCEPT ![i].aged = FALSE, ![i].held = @ - 1]
                           \/ /\ call[c].permit # "real"
                              /\ client' = [client EXCEPT ![i].aged = FALSE, ![i].held = @]
  <2>1. call'[c] = idle /\ \A d \in Calls \ {c} : call'[d] = call[d]
    BY <1>2, <1>o
  <2>2. /\ \A j \in Clients \ {i} : client'[j] = client[j]
        /\ client'[i].line = next
        /\ client'[i].held = IF call[c].permit = "real" THEN client[i].held - 1 ELSE client[i].held
        /\ client'[i].session = client[i].session /\ client'[i].left = client[i].left
        /\ client'[i].opening = client[i].opening /\ client'[i].reopening = client[i].reopening
        /\ client'[i].closed = client[i].closed /\ client'[i].thrown = client[i].thrown
    <3>1. PICK h : /\ client' = [client EXCEPT ![i].aged = FALSE, ![i].held = h]
                   /\ h = IF call[c].permit = "real" THEN client[i].held - 1 ELSE client[i].held
      BY <1>2
    <3> QED
      BY <1>t, <1>6, <3>1 DEF Client
  <2>3. \A j \in Clients : Still(j)
    BY <1>0, <1>i, <1>k, <2>1, <2>2 DEF Still, Flights
  <2>4. Order'
    BY <1>c, <1>k, <2>1, <2>3, OneCall
  <2>5. \A j \in Clients \ {i} : SameGate(j)
    BY <1>0, <1>i, <2>1, <2>2 DEF SameGate
  <2>6. CASE call[c].permit # "real"
    <3>1. SameGate(i)
      BY <1>0, <1>i, <1>k, <2>1, <2>2, <2>6 DEF SameGate
    <3> QED
      BY <2>4, <2>5, <3>1, Stutters
  <2>7. CASE call[c].permit = "real" /\ next = <<>>
    <3>1. Inside(i)' = Inside(i) \ {c}
      BY <1>0, <1>i, <2>1 DEF Inside
    <3>2. IsFiniteSet(Inside(i)') /\ Cardinality(Inside(i)') = client'[i].held
      BY <1>6, <1>p, <2>2, <2>7, <3>1, FS_RemoveElement DEF LineOK
    <3>3. LineOK(i)'
      <4>1. InLine(i)' = InLine(i)
        BY <2>2 DEF InLine
      <4>2. \A d \in Calls : (call'[d].on = i /\ call'[d].pc = "queued")
                               <=> (call[d].on = i /\ call[d].pc = "queued")
        BY <1>i, <1>k, <2>1
      <4> QED
        BY <1>6, <2>2, <2>7, <3>2, <4>1, <4>2 DEF LineOK
    <3>4. Gate!Leave(i, c)
      <4>1. [j \in Clients |-> Inside(j)]'
              = [[j \in Clients |-> Inside(j)] EXCEPT ![i] = Inside(i) \ {c}]
        BY <2>5, <3>1, GateMoves
      <4>2. [j \in Clients |-> client[j].line]' = [j \in Clients |-> client[j].line]
        BY <2>2
      <4>3. [j \in Clients |-> client[j].thrown]' = [j \in Clients |-> client[j].thrown]
        BY <2>2
      <4>4. /\ [j \in Clients |-> Inside(j)][i] = Inside(i)
            /\ [j \in Clients |-> client[j].line][i] = next
        OBVIOUS
      <4> HIDE DEF next
      <4> QED
        BY <1>p, <2>7, <4>1, <4>2, <4>3, <4>4 DEF Gate!Leave
    <3>5. Gate!Next
      BY <3>4 DEF Gate!Next
    <3> QED
      BY <2>4, <2>5, <3>3, <3>5, GateMoves
  <2> QED
    BY <1>2, <2>6, <2>7
<1> QED
  BY <1>f, <1>1, <1>2

-----------------------------------------------------------------------------
(***************************************************************************)
(* The theorems                                                            *)
(***************************************************************************)
\* The invariant holds of a proxy that has just started.
LEMMA Starts == Init => IInv
<1> SUFFICES ASSUME Init PROVE IInv
  OBVIOUS
<1>1. TypeOK
  <2>1. 0 \in 0..MaxClients /\ 0 \in 0..2
    BY PoolAssumption
  <2> QED
    BY <2>1, BlankTypes DEF Init, TypeOK, Pool
<1>2. CallsOK
  BY BlankTypes DEF Init, CallsOK, CallOK, Free, Entered, None
<1>3. \A i \in Clients : i # None /\ i \in Nat
  BY BlankTypes DEF Clients
<1>4. ClientsOK
  BY <1>3 DEF Init, ClientsOK, ClientOK, Quiet, Fresh, Free, None
<1>5. ASSUME NEW i \in Clients PROVE Awaited(i) /\ Kept(i) /\ LineOK(i)
  <2>1. Awaited(i) /\ Kept(i)
    BY DEF Init, Awaited, Kept, Fresh
  <2>2. /\ client[i].line = <<>> /\ client[i].held = 0 /\ ~client[i].thrown
        /\ Inside(i) = {} /\ Len(<<>>) = 0
    BY DEF Init, Fresh, Free, Inside
  <2>3. InLine(i) = {} /\ Distinct(client[i].line)
    BY <2>2 DEF InLine, Elems, Distinct
  <2>4. \A c \in Calls : call[c].pc # "queued"
    BY DEF Init, Free
  <2> QED
    BY <2>1, <2>2, <2>3, <2>4, FS_EmptySet DEF LineOK
<1> QED
  BY <1>1, <1>2, <1>4, <1>5 DEF IInv

\* A step of the pool is a step of the bounded queue, or none.
LEMMA Step ==
  ASSUME IInv, [Next]_vars
  PROVE  IInv' /\ (Gate!Next \/ UNCHANGED Gate!vars)
<1>t. TypeOK'
  BY TypeStep
<1>2. ASSUME Order', \A j \in Clients : SameGate(j)
      PROVE  IInv' /\ (Gate!Next \/ UNCHANGED Gate!vars)
  BY <1>2, <1>t, Stutters DEF IInv, Order
<1>3. ASSUME Order', \A j \in Clients : LineOK(j)', Gate!Next \/ UNCHANGED Gate!vars
      PROVE  IInv' /\ (Gate!Next \/ UNCHANGED Gate!vars)
  BY <1>3, <1>t DEF IInv, Order
<1>1. CASE UNCHANGED vars
  <2>1. \A j \in Clients : SameGate(j)
    BY <1>1 DEF vars, SameGate
  <2>2. Order'
    BY <1>1 DEF vars, IInv, Order, CallsOK, CallOK, ClientsOK, ClientOK, Quiet, Awaited, Awaiting, Kept
  <2> QED
    BY <1>2, <2>1, <2>2
<1>4. ASSUME NEW c \in Calls, Lease(c) \/ Drop(c) \/ Enter(c) \/ Lost(c) \/ Run(c) \/ Fail(c)
      PROVE  IInv' /\ (Gate!Next \/ UNCHANGED Gate!vars)
  BY <1>2, <1>4, <1>t, LeaseStep, DropStep, EnterStep, LostStep, WireStep
<1>5. ASSUME NEW c \in Calls, Ask(c) \/ TimerFires(c) \/ Finish(c)
      PROVE  IInv' /\ (Gate!Next \/ UNCHANGED Gate!vars)
  BY <1>3, <1>5, <1>t, AskStep, TimerStep, FinishStep
<1>6. ASSUME NEW i \in Clients, Age(i) \/ Forget(i) \/ \E flight \in Flights : Handshake(i, flight)
      PROVE  IInv' /\ (Gate!Next \/ UNCHANGED Gate!vars)
  BY <1>2, <1>6, <1>t, ForgetStep, HandshakeStep
<1>7. CASE Sweep
  BY <1>2, <1>7, <1>t, SweepStep
<1>8. CASE Close
  BY <1>3, <1>8, <1>t, CloseStep
<1> QED
  BY <1>1, <1>4, <1>5, <1>6, <1>7, <1>8 DEF Next, Progress

\* The invariant holds of every behaviour.
LEMMA Invariant == Spec => []IInv
<1>1. IInv /\ [Next]_vars => IInv'
  BY Step
<1> QED
  BY <1>1, Starts, PTL DEF Spec

\* The pool, its clients and their semaphores are always of their types: no
\* release, inert or real, takes the count of permits out of 0..Limit
\* (semaphore.ts issue and acquire).
THEOREM PoolIsTyped == Spec => []TypeOK
<1>1. IInv => TypeOK
  BY DEF IInv
<1> QED
  BY <1>1, Invariant, PTL

\* At most Limit requests are at the upstream at once, whatever was swept and
\* replaced meanwhile, until shutdown opens the semaphores (McpClientPool and
\* Semaphore together).
THEOREM Bounded == Spec => []UpstreamBounded
<1>1. ASSUME IInv PROVE UpstreamBounded
  <2> DEFINE e == pool.entry
             Sent == {c \in Calls : call[c].pc = "sent"}
  <2>0. SUFFICES ASSUME ~pool.closed PROVE Cardinality(Sent) <= Limit
    BY DEF UpstreamBounded
  <2>1. /\ \A c \in Calls : CallOK(c) /\ call[c] \in Call
        /\ \A i \in Clients : ClientOK(i) /\ LineOK(i) /\ client[i] \in Client
    BY <1>1 DEF IInv, CallsOK, ClientsOK, TypeOK
  <2>2. ASSUME NEW c \in Sent PROVE e \in Clients /\ c \in Inside(e)
    <3>1. c \in Calls /\ call[c].pc = "sent" /\ call[c].on \in Clients
      BY <1>1, <2>2, OnClient
    <3>2. call[c].on = e
      BY <2>0, <2>1, <3>1 DEF ClientOK, Quiet
    <3>3. call[c].permit = "real"
      <4>1. call[c].permit # "none" /\ (call[c].permit = "inert" => client[call[c].on].thrown)
        BY <2>1, <3>1 DEF CallOK, Entered
      <4>2. ~client[call[c].on].thrown
        BY <2>0, <2>1, <3>1 DEF ClientOK
      <4>3. call[c].permit \in {"none", "real", "inert"}
        BY <2>1, <3>1 DEF Call
      <4> QED
        BY <4>1, <4>2, <4>3
    <3> QED
      BY <3>1, <3>2, <3>3 DEF Inside
  <2>3. CASE Sent = {}
    BY <2>3, FS_EmptySet, PoolAssumption
  <2>4. CASE Sent # {}
    <3>1. e \in Clients /\ Sent \subseteq Inside(e)
      BY <2>2, <2>4
    <3>2. /\ IsFiniteSet(Inside(e)) /\ Cardinality(Inside(e)) = client[e].held
          /\ client[e].held \in 0..Limit
      BY <2>1, <3>1 DEF LineOK, Client
    <3>3. Cardinality(Sent) <= Cardinality(Inside(e)) /\ Cardinality(Sent) \in Nat
      <4>1. IsFiniteSet(Sent)
        BY <3>1, <3>2, FS_Subset
      <4> HIDE DEF Sent
      <4>2. Cardinality(Sent) <= Cardinality(Inside(e))
        BY <3>1, <3>2, FS_Subset
      <4> QED
        BY <4>1, <4>2, FS_CardinalityType
    <3> QED
      BY <3>2, <3>3, PoolAssumption
  <2> QED
    BY <2>3, <2>4
<1> QED
  BY <1>1, Invariant, PTL

\* A tool runs at most once for a call: a request is repeated only after the
\* upstream refused it unseen (reopenSession's 404 rule).
THEOREM Once == Spec => []RunsOnce
<1>1. IInv => RunsOnce
  BY DEF IInv, CallsOK, CallOK, RunsOnce
<1> QED
  BY <1>1, Invariant, PTL

\* What the upstream keeps of a client is the session in use, or one whose
\* handshake or DELETE failed, except where a reopen began beside a first
\* handshake (ensureOpen, reopenSession and close).
THEOREM OneSession == Spec => []NoneStranded
<1>1. IInv => NoneStranded
  BY DEF IInv, Kept, NoneStranded
<1> QED
  BY <1>1, Invariant, PTL

\* Every client's semaphore implements the bounded FIFO queue, under every
\* interleaving of asks, timers, transfers, sweeps and shutdown.
THEOREM Fair == Spec => GateIsFair
<1>1. Init => Gate!Init
  <2>1. ASSUME Init, NEW i \in Clients
        PROVE  Inside(i) = {} /\ client[i].line = <<>> /\ client[i].thrown = FALSE
    BY <2>1 DEF Init, Inside, Free, Fresh
  <2> QED
    BY <2>1 DEF Gate!Init
<1>2. IInv /\ [Next]_vars => [Gate!Next]_(Gate!vars)
  BY Step
<1> QED
  BY <1>1, <1>2, Invariant, PTL DEF Spec, GateIsFair, Gate!Spec

-----------------------------------------------------------------------------
(***************************************************************************)
(* Nobody waits in vain                                                    *)
(***************************************************************************)
\* Who awaits a handshake, awaits one that is in flight.
HandshakesRun == \A c \in Calls :
  /\ call[c].pc = "opening" => client[call[c].on].opening
  /\ call[c].pc = "reopening" => client[call[c].on].reopening

\* The client is what it was but for its semaphore and its age, or is closed.
SameFlight(n, k) ==
  /\ n.opening = k.opening /\ n.reopening = k.reopening /\ n.gens = k.gens
  /\ \/ n.session = k.session /\ n.closed = k.closed /\ n.left = k.left
     \/ n.session = None /\ n.closed

\* The step neither begins nor ends a handshake, and nobody joins one or sends.
Calm ==
  /\ \A i \in Clients : SameFlight(client'[i], client[i])
  /\ \A c \in Calls : call'[c].pc \in Flights \cup {"sent"} =>
                        call'[c].pc = call[c].pc /\ call'[c].on = call[c].on
  /\ doubled' = doubled

LEMMA CalmOK ==
  ASSUME IInv, HandshakesRun, Calm
  PROVE  HandshakesRun'
<1>1. ASSUME NEW c \in Calls, call'[c].pc \in Flights
      PROVE  /\ call'[c].pc = call[c].pc /\ call'[c].on = call[c].on /\ call[c].on \in Clients
  <2>1. call'[c].pc = call[c].pc /\ call'[c].on = call[c].on /\ call[c].pc # "idle"
    BY <1>1 DEF Calm, Flights
  <2> QED
    BY <2>1, OnClient
<1> QED
  BY <1>1 DEF HandshakesRun, Calm, SameFlight, Flights

\* The clients the pool's steps and the semaphore's write.
LEMMA SameFlights ==
  ASSUME NEW k \in Client
  PROVE  /\ SameFlight(k, k)
         /\ \A b : SameFlight([k EXCEPT !.aged = b], k)
         /\ \A h : SameFlight([k EXCEPT !.held = h], k)
         /\ \A l : SameFlight([k EXCEPT !.line = l], k)
         /\ \A l : SameFlight([k EXCEPT !.line = l, !.aged = FALSE], k)
         /\ \A h : SameFlight([k EXCEPT !.aged = FALSE, !.held = h], k)
         /\ \A l : SameFlight([k EXCEPT !.closed = TRUE, !.session = None, !.left = l], k)
         /\ \A l : SameFlight([k EXCEPT !.closed = TRUE, !.session = None, !.left = l,
                                         !.thrown = TRUE, !.line = <<>>], k)
BY DEF SameFlight, Client

\* The pool's steps, the semaphore's and the wire's are calm.
LEMMA CalmSteps ==
  ASSUME IInv, \/ \E c \in Calls : Lease(c) \/ Drop(c) \/ Ask(c) \/ TimerFires(c)
                                   \/ Finish(c) \/ Run(c) \/ Fail(c)
               \/ \E i \in Clients : Age(i) \/ Forget(i)
               \/ Sweep \/ Close \/ UNCHANGED vars
  PROVE  Calm
<1>t. call \in [Calls -> Call] /\ client \in [Clients -> Client] /\ pool \in Pool
  BY DEF IInv, TypeOK
<1> DEFINE Same == \A i \in Clients : SameFlight(client'[i], client[i])
<1>s. client' = client => Same
  BY <1>t, SameFlights
<1>w. ASSUME NEW i \in Clients, NEW n, client' = [client EXCEPT ![i] = n], SameFlight(n, client[i])
      PROVE  Same
  BY <1>t, <1>w, SameFlights
<1>p. ASSUME NEW out, out \cap (Flights \cup {"sent"}) = {}, Same, doubled' = doubled,
             \A c \in Calls : call'[c] = call[c] \/ call'[c].pc \in out
      PROVE  Calm
  BY <1>p DEF Calm
<1>q. ASSUME call' = call, Same, doubled' = doubled PROVE Calm
  BY <1>q DEF Calm
<1> HIDE DEF Same
<1>1. ASSUME NEW c \in Calls, Lease(c) PROVE Calm
  <2>1. PICK i \in Clients :
          /\ client' = [client EXCEPT ![i] = [client[i] EXCEPT !.aged = FALSE]]
          /\ call' = [call EXCEPT ![c].pc = "leased", ![c].on = i]
    BY <1>1 DEF Lease
  <2>2. Same
    BY <1>t, <1>w, <2>1, SameFlights
  <2>3. \A d \in Calls : call'[d] = call[d] \/ call'[d].pc \in {"leased"}
    BY <1>t, <2>1 DEF Call
  <2> QED
    BY <1>1, <1>p, <2>2, <2>3 DEF Lease, world, Flights
<1>2. ASSUME NEW c \in Calls, Drop(c) \/ Run(c) \/ Fail(c) PROVE Calm
  <2>1. \A d \in Calls : call'[d] = call[d] \/ call'[d].pc \in {"idle", "done"}
    BY <1>2, <1>t DEF Drop, Run, Fail, GivesUp, Free, Call
  <2>2. Same /\ doubled' = doubled
    BY <1>2, <1>s DEF Drop, Run, Fail, world
  <2> QED
    BY <1>p, <2>1, <2>2 DEF Flights
<1>3. ASSUME NEW c \in Calls, Ask(c) PROVE Calm
  <2> DEFINE i == call[c].on
  <2>i. i \in Clients /\ client[i] \in Client
    BY <1>3, OnClient DEF Ask
  <2>1. \A d \in Calls : call'[d] = call[d] \/ call'[d].pc \in {"admitted", "queued"}
    <3> DEFINE Goes(pc, p) == call' = [call EXCEPT ![c].pc = pc, ![c].permit = p]
    <3>1. Goes("admitted", "inert") \/ Goes("admitted", "real") \/ Goes("queued", "none")
      BY <1>3 DEF Ask
    <3>2. ASSUME NEW pc, NEW p, Goes(pc, p)
          PROVE  \A d \in Calls : call'[d] = call[d] \/ call'[d].pc = pc
      BY <1>t, <3>2 DEF Call
    <3> HIDE DEF Goes
    <3> QED
      BY <3>1, <3>2
  <2>2. \/ client' = client
        \/ client' = [client EXCEPT ![i] = [client[i] EXCEPT !.held = @ + 1]]
        \/ client' = [client EXCEPT ![i] = [client[i] EXCEPT !.line = Append(@, c)]]
    BY <1>3 DEF Ask
  <2> HIDE DEF i
  <2>3. Same
    BY <1>s, <1>w, <2>i, <2>2, SameFlights
  <2> QED
    BY <1>3, <1>p, <2>1, <2>3 DEF Ask, Flights
<1>4. ASSUME NEW c \in Calls, TimerFires(c) PROVE Calm
  <2> DEFINE i == call[c].on
  <2>i. i \in Clients /\ client[i] \in Client
    BY <1>4, OnClient DEF TimerFires
  <2>1. \A d \in Calls : call'[d] = call[d] \/ call'[d].pc \in {"done"}
    BY <1>4, <1>t DEF TimerFires, Call
  <2>2. client' = [client EXCEPT ![i] = [client[i] EXCEPT !.line = Without(@, c)]]
    BY <1>4 DEF TimerFires
  <2> HIDE DEF i
  <2>3. Same
    BY <1>w, <2>i, <2>2, SameFlights
  <2> QED
    BY <1>4, <1>p, <2>1, <2>3 DEF TimerFires, world, Flights
<1>5. ASSUME NEW c \in Calls, Finish(c) PROVE Calm
  <2> DEFINE i    == call[c].on
             back == [Free EXCEPT !.pc = "leased", !.on = i]
             over == [call EXCEPT ![c] = back]
  <2>i. i \in Clients /\ client[i] \in Client
    BY <1>5, OnClient DEF Finish
  <2>1. \/ /\ client' = [client EXCEPT ![i] = [client[i] EXCEPT !.line = Tail(@), !.aged = FALSE]]
           /\ \E h : call' = [over EXCEPT ![h].pc = "admitted", ![h].permit = "real"]
        \/ /\ \E h : client' = [client EXCEPT ![i] = [client[i] EXCEPT !.aged = FALSE, !.held = h]]
           /\ call' = over
    <3>1. CASE GivenBack(call[c].permit) /\ client[i].line # <<>>
      BY <1>5, <3>1 DEF Finish
    <3>2. CASE ~(GivenBack(call[c].permit) /\ client[i].line # <<>>)
      <4> DEFINE h == IF GivenBack(call[c].permit) THEN client[i].held - 1 ELSE client[i].held
      <4>1. call' = over /\ client' = [client EXCEPT ![i] = [client[i] EXCEPT !.aged = FALSE, !.held = h]]
        BY <1>5, <3>2 DEF Finish
      <4> HIDE DEF h, over, i
      <4> QED
        BY <4>1
    <3> QED
      BY <3>1, <3>2
  <2>2. back \in Call /\ back.pc = "leased"
    BY <2>i, BlankTypes, CallTypes DEF Free
  <2> HIDE DEF i, back
  <2>3. over \in [Calls -> Call] /\ \A d \in Calls : over[d] = call[d] \/ over[d].pc = "leased"
    BY <1>t, <2>2
  <2> HIDE DEF over
  <2>4. ASSUME NEW h
        PROVE  \A d \in Calls : LET n == [over EXCEPT ![h].pc = "admitted", ![h].permit = "real"]
                                IN  n[d] = over[d] \/ n[d].pc = "admitted"
    <3>1. CASE h \in Calls
      BY <2>3, <3>1 DEF Call
    <3>2. CASE h \notin Calls
      BY <2>3, <3>2
    <3> QED
      BY <3>1, <3>2
  <2>5. \A d \in Calls : call'[d] = call[d] \/ call'[d].pc \in {"leased", "admitted"}
    <3>1. CASE call' = over
      BY <2>3, <3>1
    <3>2. ASSUME NEW h, call' = [over EXCEPT ![h].pc = "admitted", ![h].permit = "real"]
          PROVE  \A d \in Calls : call'[d] = over[d] \/ call'[d].pc = "admitted"
      BY <2>4, <3>2
    <3> QED
      BY <2>1, <2>3, <3>1, <3>2
  <2>6. Same
    BY <1>w, <2>i, <2>1, SameFlights
  <2> QED
    BY <1>5, <1>p, <2>5, <2>6 DEF Finish, world, Flights
<1>6. ASSUME NEW i \in Clients, Age(i) \/ Forget(i) PROVE Calm
  <2>1. client' = client \/ client' = [client EXCEPT ![i] = [client[i] EXCEPT !.aged = TRUE]]
    BY <1>6 DEF Age, Forget
  <2>2. Same
    BY <1>t, <1>s, <1>w, <2>1, SameFlights
  <2> QED
    BY <1>6, <1>q, <2>2 DEF Age, Forget, world
<1>7. CASE Sweep
  <2>1. pool.entry \in Clients /\ call' = call /\ doubled' = doubled
    BY <1>7, <1>t DEF Sweep, Pool
  <2>s. PICK stays \in SUBSET MayStay(pool.entry) :
          client' = [client EXCEPT ![pool.entry] = Closed(pool.entry, stays)]
    BY <1>7 DEF Sweep
  <2>c. Closed(pool.entry, stays) = [client[pool.entry] EXCEPT !.closed = TRUE, !.session = None,
                                       !.left = client[pool.entry].left \cup stays]
    BY <1>t, <2>1 DEF Closed
  <2>2. Same
    BY <1>t, <1>w, <2>1, <2>s, <2>c, SameFlights
  <2> QED
    BY <1>q, <2>1, <2>2
<1>8. CASE Close
  <2>1. CASE pool.entry = None
    BY <1>8, <1>s, <1>q, <2>1 DEF Close
  <2>2. CASE pool.entry # None
    <3> DEFINE e == pool.entry
    <3>0. e \in Clients
      BY <1>8, <1>t, <2>2 DEF Close, Pool
    <3>1. PICK stays \in SUBSET MayStay(e) : client' = [client EXCEPT ![e] = Opened(e, stays)]
      BY <1>8, <2>2 DEF Close
    <3>2. \A d \in Calls : call'[d] = call[d] \/ call'[d].pc \in {"admitted"}
      <4>1. call' = [c \in Calls |-> IF call[c].on = e /\ call[c].pc = "queued"
                                    THEN [call[c] EXCEPT !.pc = "admitted", !.permit = "inert"]
                                    ELSE call[c]]
        BY <1>8, <2>2 DEF Close
      <4>2. \A k \in Call : [k EXCEPT !.pc = "admitted", !.permit = "inert"].pc = "admitted"
        BY DEF Call
      <4> HIDE DEF e
      <4> QED
        BY <1>t, <4>1, <4>2
    <3>3. Opened(e, stays) = [client[e] EXCEPT !.closed = TRUE, !.session = None,
                                !.left = client[e].left \cup stays, !.thrown = TRUE, !.line = <<>>]
      BY <1>t, <3>0 DEF Opened, Closed, Client
    <3>4. Same
      BY <1>t, <1>w, <3>0, <3>1, <3>3, SameFlights
    <3> QED
      BY <1>8, <1>p, <3>2, <3>4 DEF Close, Flights
  <2> QED
    BY <2>1, <2>2
<1>9. CASE UNCHANGED vars
  BY <1>9, <1>s, <1>q DEF vars
<1> QED
  BY <1>1, <1>2, <1>3, <1>4, <1>5, <1>6, <1>7, <1>8, <1>9

\* A call that comes to await a handshake finds it in flight or begins it.
LEMMA JoinStep ==
  ASSUME IInv, HandshakesRun, NEW c \in Calls, Enter(c) \/ Lost(c)
  PROVE  HandshakesRun'
<1> DEFINE i == call[c].on
<1>t. call \in [Calls -> Call] /\ client \in [Clients -> Client]
  BY DEF IInv, TypeOK
<1>i. i \in Clients /\ call[c] \in Call /\ client[i] \in Client
  BY OnClient DEF Enter, Lost
<1>c. \/ client' = client
      \/ client' = [client EXCEPT ![i].opening = TRUE]
      \/ client' = [client EXCEPT ![i].session = None, ![i].reopening = TRUE]
  <2>1. CASE Enter(c)
    BY <2>1 DEF Enter
  <2>2. CASE Lost(c)
    BY <2>2 DEF Lost
  <2> QED
    BY <2>1, <2>2
<1> HIDE DEF i
<1>1. /\ \A j \in Clients : client[j].opening => client'[j].opening
      /\ \A j \in Clients : client[j].reopening => client'[j].reopening
  <2>1. CASE client' = client
    BY <2>1
  <2>2. CASE client' = [client EXCEPT ![i].opening = TRUE]
    BY <1>t, <2>2 DEF Client
  <2>3. CASE client' = [client EXCEPT ![i].session = None, ![i].reopening = TRUE]
    BY <1>t, <2>3 DEF Client
  <2> QED
    BY <1>c, <2>1, <2>2, <2>3
<1>2. \A d \in Calls \ {c} : call'[d] = call[d]
  BY <1>t DEF Enter, Lost
<1>3. /\ call'[c].on = i
      /\ call'[c].pc = "opening" => client'[i].opening
      /\ call'[c].pc = "reopening" => client'[i].reopening
  <2> DEFINE Comes == \/ \E spent \in BOOLEAN : call'[c] = Attempt(call[c], client[i].session, spent)
                      \/ call'[c] = [call[c] EXCEPT !.pc = "done"]
                      \/ call'[c] = [call[c] EXCEPT !.pc = "opening"] /\ client'[i].opening
                      \/ call'[c] = [call[c] EXCEPT !.pc = "reopening"] /\ client'[i].reopening
  <2>1. Comes
    <3>1. CASE Enter(c)
      <4>1. \/ \E spent \in BOOLEAN :
                 call' = [call EXCEPT ![c] = Attempt(call[c], client[i].session, spent)]
            \/ call' = [call EXCEPT ![c].pc = "done"]
            \/ call' = [call EXCEPT ![c].pc = "reopening"] /\ client' = client /\ client[i].reopening
            \/ call' = [call EXCEPT ![c].pc = "opening"] /\ client' = [client EXCEPT ![i].opening = TRUE]
        BY <3>1 DEF Enter, i
      <4>2. client' = [client EXCEPT ![i].opening = TRUE] => client'[i].opening
        BY <1>t, <1>i DEF Client
      <4> QED
        BY <1>t, <4>1, <4>2
    <3>2. CASE Lost(c)
      <4>1. client' = [client EXCEPT ![i].session = None, ![i].reopening = TRUE] => client'[i].reopening
        BY <1>t, <1>i DEF Client
      <4> QED
        BY <1>t, <1>i, <3>2, <4>1 DEF Lost, i
    <3> QED
      BY <3>1, <3>2
  <2>2. \A g, spent : /\ Attempt(call[c], g, spent).on = call[c].on
                      /\ Attempt(call[c], g, spent).pc \in {"done", "sent"}
    BY <1>i DEF Attempt, Call
  <2> QED
    BY <1>i, <2>1, <2>2 DEF Call, i
<1>4. \A d \in Calls : call[d].pc \in Flights => call[d].on \in Clients
  BY OnClient DEF Flights
<1> QED
  BY <1>1, <1>2, <1>3, <1>4 DEF HandshakesRun, Flights

\* A handshake that ends leaves nobody who awaits it.
LEMMA EndStep ==
  ASSUME IInv, HandshakesRun, NEW i \in Clients, NEW flight \in Flights, Handshake(i, flight)
  PROVE  HandshakesRun'
<1>t. call \in [Calls -> Call] /\ client \in [Clients -> Client]
  BY DEF IInv, TypeOK
<1>f. flight = "opening" \/ flight = "reopening"
  BY DEF Flights
<1>1. /\ \A j \in Clients : client[j].opening /\ ~(j = i /\ flight = "opening") => client'[j].opening
      /\ \A j \in Clients : client[j].reopening /\ ~(j = i /\ flight = "reopening") => client'[j].reopening
  <2>1. PICK k : client' = [client EXCEPT ![i] = k]
                 /\ \A f \in Flights \ {flight} : k[f] = client[i][f]
    <3>t. client[i] \in Client
      BY <1>t
    <3>1. CASE Connect(i, flight)
      <4> DEFINE g == client[i].gens + 1
                 n == [client[i] EXCEPT ![flight] = FALSE, !.session = g, !.gens = g]
      <4>1. client' = [client EXCEPT ![i] = n]
        BY <3>1 DEF Connect
      <4> HIDE DEF g
      <4>2. \A f \in Flights \ {flight} : n[f] = client[i][f]
        BY <3>t, <1>f DEF Client, Flights
      <4> HIDE DEF n
      <4> QED
        BY <4>1, <4>2
    <3>2. CASE ConnectFails(i, flight)
      <4> DEFINE n == [client[i] EXCEPT ![flight] = FALSE]
                 g == client[i].gens + 1
                 l == client[i].left \cup {g}
                 o == [client[i] EXCEPT ![flight] = FALSE, !.gens = g, !.left = l]
      <4>1. client' = [client EXCEPT ![i] = n] \/ client' = [client EXCEPT ![i] = o]
        BY <3>2 DEF ConnectFails
      <4> HIDE DEF g, l
      <4>2. \A f \in Flights \ {flight} : n[f] = client[i][f] /\ o[f] = client[i][f]
        BY <3>t, <1>f DEF Client, Flights
      <4> HIDE DEF n, o
      <4> QED
        BY <4>1, <4>2
    <3> QED
      BY <3>1, <3>2 DEF Handshake
  <2>2. \A j \in Clients : client'[j] = IF j = i THEN k ELSE client[j]
    BY <1>t, <2>1
  <2>3. flight # "opening" => k.opening = client[i].opening
    BY <2>1 DEF Flights
  <2>4. flight # "reopening" => k.reopening = client[i].reopening
    BY <2>1 DEF Flights
  <2> QED
    BY <2>2, <2>3, <2>4
<1>2. \A d \in Calls \ Awaiting(i, flight) : call'[d] = call[d]
  BY DEF Handshake, Connect, ConnectFails
<1>3. \A d \in Awaiting(i, flight) : call'[d].pc \in {"sent", "done"}
  <2>1. CASE Connect(i, flight)
    <3> DEFINE g == client[i].gens + 1
    <3>1. PICK spent \in SUBSET Awaiting(i, flight) :
            call' = [c \in Calls |-> IF c \in Awaiting(i, flight)
                                     THEN Attempt(call[c], g, c \in spent) ELSE call[c]]
      BY <2>1 DEF Connect
    <3> HIDE DEF g
    <3>2. \A k \in Call : \A s : Attempt(k, g, s).pc \in {"done", "sent"}
      <4>1. ASSUME NEW k \in Call PROVE [k EXCEPT !.pc = "done"].pc = "done"
        BY DEF Call
      <4>2. ASSUME NEW k \in Call
            PROVE  [k EXCEPT !.pc = "sent", !.gen = g, !.tries = k.tries + 1].pc = "sent"
        BY DEF Call
      <4> QED
        BY <4>1, <4>2 DEF Attempt
    <3>3. Awaiting(i, flight) \subseteq Calls
      BY DEF Awaiting
    <3>4. \A d \in Awaiting(i, flight) : call'[d] = Attempt(call[d], g, d \in spent)
      BY <3>1, <3>3
    <3> QED
      BY <1>t, <3>2, <3>3, <3>4
  <2>2. CASE ConnectFails(i, flight)
    BY <1>t, <2>2 DEF ConnectFails, Awaiting, Call
  <2> QED
    BY <2>1, <2>2 DEF Handshake
<1>4. \A d \in Calls : call[d].pc \in Flights => call[d].on \in Clients
  BY OnClient DEF Flights
<1> QED
  BY <1>f, <1>1, <1>2, <1>3, <1>4 DEF HandshakesRun, Awaiting, Flights

\* The invariant that goes with IInv.
LEMMA HandshakesInvariant == Spec => []HandshakesRun
<1>1. Init => HandshakesRun
  BY DEF Init, HandshakesRun, Free
<1>2. IInv /\ HandshakesRun /\ [Next]_vars => HandshakesRun'
  BY CalmOK, CalmSteps, JoinStep, EndStep DEF Next, Progress
<1> QED
  BY <1>1, <1>2, Invariant, PTL DEF Spec

\* Nobody waits in vain: every permit of a semaphore with a queue is held by a
\* call that was made and is not itself in the queue, shutdown leaves no queue,
\* and a handshake is in flight exactly while some call awaits it (Semaphore,
\* ensureOpen and reopenSession): the safety half of what becomes of a call.
THEOREM NobodyWaitsInVain == Spec => []NoneWaitsInVain
<1>1. ASSUME IInv, HandshakesRun PROVE NoneWaitsInVain
  <2>1. ASSUME NEW c \in Calls, call[c].pc = "queued"
        PROVE  LET i == call[c].on IN
               /\ ~client[i].thrown /\ Cardinality(Inside(i)) = Limit
               /\ \A d \in Inside(i) : call[d].pc \notin {"idle", "leased", "queued"}
    <3>1. PICK i \in Clients : i = call[c].on
      BY <1>1, <2>1, OnClient
    <3>2. LineOK(i) /\ c \in InLine(i)
      BY <1>1, <2>1, <3>1 DEF IInv, LineOK
    <3>3. client[i].line # <<>>
      BY <3>2 DEF InLine, Elems
    <3>4. ~client[i].thrown /\ Cardinality(Inside(i)) = Limit
      BY <3>2, <3>3 DEF LineOK
    <3>5. \A d \in Inside(i) : call[d].pc \notin {"idle", "leased", "queued"}
      BY <1>1 DEF IInv, CallsOK, CallOK, Inside
    <3> QED
      BY <3>1, <3>4, <3>5
  <2>2. ASSUME NEW i \in Clients, NEW flight \in Flights
        PROVE  client[i][flight] <=> Awaiting(i, flight) # {}
    BY <1>1 DEF IInv, Awaited, HandshakesRun, Awaiting, Flights
  <2> QED
    BY <2>1, <2>2 DEF NoneWaitsInVain
<1> QED
  BY <1>1, Invariant, HandshakesInvariant, PTL

-----------------------------------------------------------------------------
(***************************************************************************)
(* What is left at the upstream if no handshake fails                      *)
(***************************************************************************)
NoneFails == \A i \in Clients, flight \in Flights : ~ConnectFails(i, flight)

\* Of a client that is not closed, the upstream keeps the session in use only.
OpenKeepsOne == \A i \in Clients : ~client[i].closed => alive[i] \subseteq {client[i].session}

\* A client with no session that is not closed and not reopening never had one,
\* and whoever sends does so on a session: so no reopen meets a first handshake.
FirstTry ==
  /\ doubled = {}
  /\ \A i \in Clients :
       /\ client[i].left # {} => client[i].closed
       /\ client[i].opening => client[i].gens = 0
       /\ client[i].reopening \/ client[i].session # None => client[i].gens # 0
       /\ client[i].session = None /\ ~client[i].closed /\ ~client[i].reopening => client[i].gens = 0
  /\ \A c \in Calls : call[c].pc = "sent" => client[call[c].on].gens # 0

LEMMA FirstTryCalm ==
  ASSUME IInv, FirstTry, Calm
  PROVE  FirstTry'
<1>1. ASSUME NEW c \in Calls, call'[c].pc = "sent"
      PROVE  /\ call[c].pc = "sent" /\ call'[c].on = call[c].on /\ call[c].on \in Clients
  <2>1. call[c].pc = "sent" /\ call'[c].on = call[c].on
    BY <1>1 DEF Calm
  <2> QED
    BY <2>1, OnClient
<1> QED
  BY <1>1 DEF FirstTry, Calm, SameFlight

\* A reopen begins on a client that had a session, so beside no first handshake.
LEMMA FirstTryJoin ==
  ASSUME IInv, FirstTry, NEW c \in Calls, Enter(c) \/ Lost(c)
  PROVE  FirstTry'
<1> DEFINE i == call[c].on
<1>t. call \in [Calls -> Call] /\ client \in [Clients -> Client]
  BY DEF IInv, TypeOK
<1>i. i \in Clients /\ call[c] \in Call /\ client[i] \in Client
  BY OnClient DEF Enter, Lost
<1>o. \A d \in Calls : call[d].pc = "sent" => call[d].on \in Clients
  BY OnClient
<1> HIDE DEF i
<1>1. \/ client' = client
      \/ /\ client' = [client EXCEPT ![i] = [client[i] EXCEPT !.opening = TRUE]]
         /\ client[i].session = None /\ ~client[i].closed /\ ~client[i].reopening
      \/ /\ client' = [client EXCEPT ![i] = [client[i] EXCEPT !.session = None, !.reopening = TRUE]]
         /\ call[c].pc = "sent"
  BY DEF Enter, Lost, i
<1>2. doubled' = doubled
  BY <1>i DEF FirstTry, Enter, Lost, i
<1>3. \A d \in Calls \ {c} : call'[d] = call[d]
  BY <1>t DEF Enter, Lost
<1>4. call'[c].pc = "sent" => call'[c].on = i /\ client[i].gens # 0
  <2>1. \/ /\ client[i].session # None
           /\ \E spent \in BOOLEAN : call'[c] = Attempt(call[c], client[i].session, spent)
        \/ \E p \in {"done", "opening", "reopening"} : call'[c] = [call[c] EXCEPT !.pc = p]
    BY <1>t, <1>i DEF Enter, Lost, Replaced, i
  <2>2. \A g, spent : Attempt(call[c], g, spent).on = call[c].on
    BY <1>i DEF Attempt, Call
  <2>3. client[i].session # None => client[i].gens # 0
    BY <1>i DEF FirstTry
  <2> QED
    BY <1>i, <2>1, <2>2, <2>3 DEF Call, i
<1>5. call[c].pc = "sent" => client[i].gens # 0
  BY DEF FirstTry, i
<1>k. /\ \A j \in Clients \ {i} : client'[j] = client[j]
      /\ \/ client'[i] = client[i]
         \/ /\ client'[i] = [client[i] EXCEPT !.opening = TRUE]
            /\ client[i].session = None /\ ~client[i].closed /\ ~client[i].reopening
         \/ /\ client'[i] = [client[i] EXCEPT !.session = None, !.reopening = TRUE]
            /\ client[i].gens # 0
  BY <1>t, <1>i, <1>1, <1>5
<1>m. /\ client'[i].gens = client[i].gens /\ client'[i].closed = client[i].closed
      /\ client'[i].left = client[i].left
      /\ \/ /\ client'[i].opening = client[i].opening /\ client'[i].reopening = client[i].reopening
            /\ client'[i].session = client[i].session
         \/ /\ client'[i].opening /\ client'[i].reopening = client[i].reopening
            /\ client'[i].session = client[i].session
            /\ client[i].session = None /\ ~client[i].closed /\ ~client[i].reopening
         \/ /\ client'[i].opening = client[i].opening /\ client'[i].reopening
            /\ client'[i].session = None /\ client[i].gens # 0
  BY <1>i, <1>k DEF Client
<1>6. \A j \in Clients : client'[j].gens = client[j].gens
  BY <1>k, <1>m
<1>7. ASSUME NEW j \in Clients
      PROVE  /\ client'[j].left # {} => client'[j].closed
             /\ client'[j].opening => client'[j].gens = 0
             /\ client'[j].reopening \/ client'[j].session # None => client'[j].gens # 0
             /\ client'[j].session = None /\ ~client'[j].closed /\ ~client'[j].reopening
                  => client'[j].gens = 0
  <2>1. CASE j = i
    BY <1>i, <1>m, <2>1 DEF FirstTry
  <2>2. CASE j # i
    BY <1>k, <2>2 DEF FirstTry
  <2> QED
    BY <2>1, <2>2
<1> QED
  BY <1>i, <1>o, <1>2, <1>3, <1>4, <1>6, <1>7 DEF FirstTry

\* A session that is opened is a session that was had.
LEMMA FirstTryConnect ==
  ASSUME IInv, FirstTry, NEW i \in Clients, NEW flight \in Flights, Connect(i, flight)
  PROVE  FirstTry'
<1> DEFINE g == client[i].gens + 1
<1>t. call \in [Calls -> Call] /\ client \in [Clients -> Client]
  BY DEF IInv, TypeOK
<1>o. \A d \in Calls : call[d].pc = "sent" => call[d].on \in Clients
  BY OnClient
<1>g. client[i].gens \in Nat /\ g # 0 /\ g # None
  BY <1>t, PoolAssumption DEF Client, None
<1>f. flight = "opening" \/ flight = "reopening"
  BY DEF Flights
<1>1. /\ client[i][flight]
      /\ client' = [client EXCEPT ![i] = [@ EXCEPT ![flight] = FALSE, !.session = g, !.gens = g]]
      /\ doubled' = doubled
  BY DEF Connect
<1>2. ~(client[i].opening /\ client[i].reopening)
  BY DEF FirstTry
<1> HIDE DEF g
<1>3. /\ ~client'[i].opening /\ ~client'[i].reopening /\ client'[i].session = g /\ client'[i].gens = g
      /\ client'[i].left = client[i].left /\ client'[i].closed = client[i].closed
      /\ \A j \in Clients \ {i} : client'[j] = client[j]
  BY <1>t, <1>f, <1>1, <1>2 DEF Client
<1>4. \A d \in Calls : call'[d] = call[d] \/ call'[d].on = i
  <2>1. \A d \in Calls \ Awaiting(i, flight) : call'[d] = call[d]
    BY DEF Connect
  <2>2. ASSUME NEW d \in Awaiting(i, flight) PROVE call'[d].on = i
    <3>1. d \in Calls /\ call[d] \in Call /\ call[d].on = i
      BY <1>t DEF Awaiting
    <3>2. \E h, spent : call'[d] = Attempt(call[d], h, spent)
      BY <2>2, <3>1 DEF Connect
    <3> QED
      BY <3>1, <3>2 DEF Attempt, Call
  <2> QED
    BY <2>1, <2>2
<1>5. ASSUME NEW j \in Clients
      PROVE  /\ client'[j].left # {} => client'[j].closed
             /\ client'[j].opening => client'[j].gens = 0
             /\ client'[j].reopening \/ client'[j].session # None => client'[j].gens # 0
             /\ client'[j].session = None /\ ~client'[j].closed /\ ~client'[j].reopening
                  => client'[j].gens = 0
             /\ client[j].gens # 0 => client'[j].gens # 0
  <2>1. CASE j = i
    BY <1>g, <1>3, <2>1 DEF FirstTry
  <2>2. CASE j # i
    BY <1>3, <2>2 DEF FirstTry
  <2> QED
    BY <2>1, <2>2
<1>6. ASSUME NEW d \in Calls, call'[d].pc = "sent" PROVE client'[call'[d].on].gens # 0
  <2>1. CASE call'[d].on = i
    BY <1>g, <1>3, <2>1
  <2>2. CASE call'[d] = call[d]
    BY <1>o, <1>5, <1>6, <2>2 DEF FirstTry
  <2> QED
    BY <1>4, <2>1, <2>2
<1> QED
  BY <1>1, <1>5, <1>6 DEF FirstTry

\* As long as no handshake fails, no session is lost from sight, without the
\* exception of NoneStranded, and of a client that is not closed the upstream
\* keeps the one in use; of a closed one it may keep what the DELETE did not
\* reach.  So the race that belies the comment in ensureOpen
\* (MCSessionsAreKept.cfg) takes a failed handshake.
THEOREM KeptIfNoneFails == Spec /\ [][NoneFails]_vars => [](SessionsAreKept /\ OpenKeepsOne)
<1>1. Init => FirstTry
  BY DEF Init, FirstTry, Free, Fresh
<1>2. IInv /\ FirstTry /\ [Next]_vars /\ [NoneFails]_vars => FirstTry'
  <2>1. ASSUME IInv, FirstTry, Next, NoneFails PROVE FirstTry'
    BY <2>1, FirstTryCalm, CalmSteps, FirstTryJoin, FirstTryConnect DEF Next, Progress, Handshake, NoneFails
  <2>2. ASSUME IInv, FirstTry, UNCHANGED vars PROVE FirstTry'
    BY <2>2, FirstTryCalm, CalmSteps
  <2> QED
    BY <2>1, <2>2
<1>3. IInv /\ FirstTry => SessionsAreKept /\ OpenKeepsOne
  BY DEF IInv, FirstTry, Kept, SessionsAreKept, OpenKeepsOne
<1> QED
  BY <1>1, <1>2, <1>3, Invariant, PTL DEF Spec

=============================================================================
