------------------------ MODULE TeamSheetStoreProofs -------------------------
(***************************************************************************)
(* Proofs of the safety properties of TeamSheetStore for any callers,      *)
(* reads and number of edits.                                              *)
(*                                                                         *)
(* The invariant gives every refresh its turn (InTurn): one runs, each of  *)
(* the others waits for the one before it, and entry.inFlight is the last. *)
(* So no refresh writes the entry behind another's back, which is what     *)
(* dates the entry (EntryFits), the look and the text of the running read  *)
(* (ReadOK) and the answers (CallerOK) against the versions of the file.   *)
(* Whoever waits is then behind a refresh that is at the file.             *)
(***************************************************************************)
EXTENDS TeamSheetStore, SequenceTheorems, WellFoundedInduction, TLAPS

-----------------------------------------------------------------------------
(***************************************************************************)
(* The inductive invariant                                                 *)
(***************************************************************************)
Running(v) == reads[v].phase \in {"statting", "looked", "reading", "read"}

Live(v) == reads[v].phase # "over"

\* r is how many refreshes are before each.
InTurn(r) ==
  /\ \A v \in Reads : Running(v) => r[v] = 0
  /\ \A v \in Reads : reads[v].phase = "queued" =>
       reads[v].behind \in Reads /\ Live(reads[v].behind) /\ r[v] = r[reads[v].behind] + 1
  /\ \A u, v \in Reads : Live(u) /\ Live(v) /\ r[u] = r[v] => u = v
  /\ \A v \in Reads : Live(v) => r[v] <= r[inFlight]

Turns == \E r \in [Reads -> Nat] : InTurn(r)

FileOK == \A v \in 1..Now :
  /\ file[v].kind = "none" <=> file[v].print = Gone
  /\ ~SameTick /\ file[v].kind # "none" => file[v].print = v

\* Tells, of a file f.
Says(f, s, v) ==
  CASE f[v].kind = "none" -> s = Absent
    [] f[v].kind = "good" -> s.status = "active" /\ s.sheet = v /\ ~s.stale
    [] f[v].kind = "bad"  ->
         \/ s.status = "active" /\ s.stale /\ s.sheet \in 1..(v - 1) /\ f[s.sheet].kind = "good"
         \/ s.status = "unusable"

\* What the cache may hold of a file f.
EntryFits(f, e) ==
  /\ e.of <= Len(f)
  /\ e.of # 0 => Says(f, e.state, e.of)
  /\ e.state.status = "active" => e.state.sheet \in 1..e.of /\ f[e.state.sheet].kind = "good"
  /\ e.state.status # "absent" => e.print # Gone /\ \E a \in 1..e.of : e.print = f[a].print

ReadOK(w) ==
  /\ reads[w].phase \in {"looked", "reading", "read"} =>
       reads[w].at \in 1..Now /\ reads[w].print = file[reads[w].at].print
  /\ reads[w].phase \in {"reading", "read"} => reads[w].print # Gone
  /\ reads[w].phase = "read" =>
       reads[w].text \in reads[w].at..Now /\ entry.of <= reads[w].text

CallerOK(c) ==
  /\ caller[c].pc = "waiting" =>
       /\ caller[c].on \in Reads /\ Live(caller[c].on) /\ caller[c].asked \in 1..Now
       /\ ~caller[c].late /\ reads[caller[c].on].phase \in {"looked", "reading", "read"}
            => caller[c].asked <= reads[caller[c].on].at
  /\ caller[c].pc = "answered" /\ ~caller[c].late =>
       /\ caller[c].of \in 1..Now /\ Says(file, caller[c].got, caller[c].of)
       /\ ~SameTick => caller[c].of >= caller[c].asked

\* The flag says that the newest refresh has looked and gone on.
StatedOK == inFlight # NoRead =>
  /\ Live(inFlight)
  /\ ~stated => reads[inFlight].phase \in {"queued", "statting", "looked"}

IInv ==
  /\ TypeOK /\ FileOK /\ EntryFits(file, entry) /\ Turns /\ StatedOK
  /\ \A w \in Reads : ReadOK(w)
  /\ \A c \in Callers : CallerOK(c)

-----------------------------------------------------------------------------
(***************************************************************************)
(* The file only grows.                                                    *)
(***************************************************************************)
\* Tells is Says of the file.
LEMMA TellsIsSays == \A s, v : Tells(s, v) <=> Says(file, s, v)
BY DEF Tells, Says

\* g has what f had, and maybe more.
Extends(g, f) ==
  /\ Len(f) \in Nat /\ Len(g) \in Nat /\ Len(f) <= Len(g)
  /\ \A u \in 1..Len(f) : g[u] = f[u]

\* What is true of a version stays true of it.
LEMMA SaysStays ==
  ASSUME NEW f, NEW g, Extends(g, f), NEW s, NEW v \in 1..Len(f), Says(f, s, v)
  PROVE  Says(g, s, v)
<1>1. \A u \in 1..(v - 1) : u \in 1..Len(f) /\ g[u] = f[u]
  BY DEF Extends
<1>2. g[v] = f[v]
  BY DEF Extends
<1> QED
  BY <1>1, <1>2 DEF Says

\* What the cache may hold of a file, it may hold of a longer one.
LEMMA EntryStays ==
  ASSUME NEW f, NEW g, Extends(g, f), NEW e \in Entry, EntryFits(f, e)
  PROVE  EntryFits(g, e)
<1>1. e.of \in Nat /\ e.state \in States
  BY StoreAssumption DEF Entry, Prints
<1>2. 1..e.of \subseteq 1..Len(f) /\ (e.of # 0 => e.of \in 1..Len(f))
  BY <1>1 DEF EntryFits, Extends
<1>3. e.of # 0 => Says(g, e.state, e.of)
  BY <1>2, SaysStays DEF EntryFits
<1> QED
  BY <1>1, <1>2, <1>3 DEF EntryFits, Extends

\* The types of what a step writes.
LEMMA Basics ==
  ASSUME TypeOK
  PROVE  /\ Now \in Nat /\ Now >= 1 /\ Now \in Prints /\ Prints \subseteq Nat /\ 0 \in Prints
         /\ 1..Now \subseteq Prints
         /\ file \in [1..Now -> [kind : Kinds, print : Prints]]
         /\ Over \in Read /\ Absent \in States /\ Free \in Caller
<1>1. Now \in Nat /\ Now >= 1 /\ Now <= MaxEdits
  BY StoreAssumption DEF TypeOK, Now
<1>2. Prints \subseteq Nat /\ 0 \in Prints /\ Now \in Prints /\ 1..Now \subseteq Prints
  BY <1>1, StoreAssumption DEF Prints
<1>3. file \in [1..Now -> [kind : Kinds, print : Prints]]
  BY LenProperties DEF TypeOK, Now
<1>4. Absent \in States
  BY <1>2 DEF Absent, States
<1> QED
  BY <1>1, <1>2, <1>3, <1>4 DEF Over, Read, Free, Caller, Gone

-----------------------------------------------------------------------------
(***************************************************************************)
(* The turns of the refreshes                                              *)
(***************************************************************************)
\* One refresh runs at a time; if it is the newest, there is no other.
LEMMA OneRuns ==
  ASSUME IInv, NEW w \in Reads, Running(w)
  PROVE  /\ inFlight \in Reads /\ Live(inFlight)
         /\ \A v \in Reads : Running(v) => v = w
         /\ inFlight = w => \A v \in Reads : Live(v) => v = w
<1>1. PICK r \in [Reads -> Nat] : InTurn(r)
  BY DEF IInv, Turns
<1>2. Live(w) /\ \A v \in Reads : Running(v) => Live(v)
  BY DEF Running, Live
<1>3. inFlight \in Reads
  BY <1>2 DEF IInv, TypeOK, Live
<1>4. ASSUME inFlight = w, NEW v \in Reads, Live(v) PROVE v = w
  <2>1. r[v] <= r[w] /\ r[w] = 0 /\ r[v] \in Nat
    BY <1>1, <1>4 DEF InTurn
  <2> QED
    BY <1>1, <1>2, <1>4, <2>1 DEF InTurn
<1>5. Live(inFlight)
  BY <1>3, StoreAssumption DEF IInv, StatedOK
<1> QED
  BY <1>1, <1>2, <1>3, <1>4, <1>5 DEF InTurn

\* A resolve joins the newest refresh or makes one behind it.
LEMMA ResolveStep ==
  ASSUME IInv, NEW w \in Reads, Resolve(w, reads'), file' = file, entry' = entry
  PROVE  /\ Turns' /\ StatedOK' /\ \A v \in Reads : ReadOK(v)'
         /\ reads' \in [Reads -> Read] /\ inFlight' \in Reads /\ stated' \in BOOLEAN
         /\ \A v \in Reads : Live(v) => reads'[v] = reads[v]
         /\ reads'[w].phase \in {"queued", "statting", "looked"}
         /\ reads'[w].phase = "looked" => reads[w].phase = "looked"
<1>t. /\ reads \in [Reads -> Read] /\ inFlight \in Reads \cup {NoRead} /\ stated \in BOOLEAN
      /\ inFlight = NoRead <=> \A v \in Reads : ~Live(v)
      /\ NoRead \notin Reads
  BY StoreAssumption DEF IInv, TypeOK, Live
<1>1. CASE Shares
  <2>1. w = inFlight /\ reads' = reads /\ inFlight' = inFlight /\ stated' = stated
    BY <1>1 DEF Resolve
  <2>2. Turns' /\ StatedOK'
    BY <2>1 DEF IInv, Turns, InTurn, StatedOK, Live, Running
  <2>3. \A v \in Reads : ReadOK(v)'
    BY <2>1 DEF IInv, ReadOK, Now
  <2>4. reads[w].phase \in {"queued", "statting", "looked"}
    BY <1>1, <2>1 DEF IInv, StatedOK, Shares
  <2> QED
    BY <1>t, <2>1, <2>2, <2>3, <2>4
<1>2. CASE ~Shares
  <2> DEFINE new == [Over EXCEPT !.phase = Phase(inFlight), !.behind = inFlight]
  <2>1. /\ reads[w].phase = "over" /\ reads' = [reads EXCEPT ![w] = new]
        /\ inFlight' = w /\ stated' = FALSE
    BY <1>2 DEF Resolve
  <2>2. new \in Read /\ new.behind = inFlight /\ new.phase = Phase(inFlight)
    BY <1>t, Basics DEF IInv, Over, Read, Phase
  <2>3. /\ reads'[w].phase = Phase(inFlight) /\ reads'[w].behind = inFlight
        /\ \A v \in Reads \ {w} : reads'[v] = reads[v]
        /\ reads' \in [Reads -> Read]
    BY <1>t, <2>1, <2>2
  <2>4. /\ inFlight = NoRead => reads'[w].phase = "statting"
        /\ inFlight # NoRead => reads'[w].phase = "queued" /\ inFlight \in Reads /\ Live(inFlight) /\ inFlight # w
    BY <1>t, <2>1, <2>3 DEF Phase, IInv, StatedOK, Live
  <2>5. Turns'
    <3>1. PICK r \in [Reads -> Nat] : InTurn(r)
      BY DEF IInv, Turns
    <3> DEFINE last == IF inFlight = NoRead THEN 0 ELSE r[inFlight] + 1
               q == [r EXCEPT ![w] = last]
    <3>2. last \in Nat /\ (inFlight # NoRead => r[inFlight] \in Nat /\ last = r[inFlight] + 1)
      BY <2>4
    <3>3. q \in [Reads -> Nat] /\ q[w] = last /\ \A v \in Reads \ {w} : q[v] = r[v]
      BY <3>2
    <3>4. \A v \in Reads \ {w} : (Live(v)' <=> Live(v)) /\ (Running(v)' <=> Running(v))
      BY <2>3 DEF Live, Running
    <3>5. Live(w)' /\ ~Live(w) /\ ~Running(w)
      BY <2>1, <2>4 DEF Live, Running
    <3>6. \A v \in Reads \ {w} : Live(v) => r[v] < last /\ inFlight # NoRead
      <4>1. ASSUME NEW v \in Reads \ {w}, Live(v) PROVE r[v] < last /\ inFlight # NoRead
        <5>1. inFlight # NoRead /\ r[v] <= r[inFlight] /\ r[v] \in Nat
          BY <1>t, <3>1, <4>1 DEF InTurn
        <5> QED
          BY <3>2, <5>1
      <4> QED
        BY <4>1
    <3> HIDE DEF last, q
    <3>7. ASSUME NEW v \in Reads, Running(v)' PROVE q[v] = 0
      <4>1. CASE v = w
        <5>1. inFlight = NoRead
          BY <2>4, <3>7, <4>1 DEF Running
        <5> QED
          BY <3>3, <4>1, <5>1 DEF last
      <4>2. CASE v # w
        BY <3>1, <3>3, <3>4, <3>7, <4>2 DEF InTurn
      <4> QED
        BY <4>1, <4>2
    <3>8. ASSUME NEW v \in Reads, reads'[v].phase = "queued"
          PROVE  /\ reads'[v].behind \in Reads /\ reads'[reads'[v].behind].phase # "over"
                 /\ q[v] = q[reads'[v].behind] + 1
      <4>1. CASE v = w
        <5>1. inFlight \in Reads /\ inFlight # w /\ Live(inFlight) /\ inFlight # NoRead
          BY <2>4, <3>8, <4>1
        <5> QED
          BY <2>3, <3>2, <3>3, <4>1, <5>1 DEF Live
      <4>2. CASE v # w
        <5>1. /\ reads[v].behind \in Reads /\ Live(reads[v].behind)
              /\ r[v] = r[reads[v].behind] + 1
          BY <2>3, <3>1, <3>8, <4>2 DEF InTurn
        <5>2. reads[v].behind # w
          BY <3>5, <5>1
        <5> QED
          BY <2>3, <3>3, <4>2, <5>1, <5>2 DEF Live
      <4> QED
        BY <4>1, <4>2
    <3>9. ASSUME NEW u \in Reads, NEW v \in Reads, Live(u)', Live(v)', q[u] = q[v] PROVE u = v
      <4>1. q[w] = last /\ last \in Nat /\ r \in [Reads -> Nat]
        BY <3>1, <3>2, <3>3
      <4>2. \A x \in Reads \ {w} : Live(x)' => q[x] < last /\ q[x] \in Nat
        BY <3>1, <3>3, <3>4, <3>6
      <4>3. u # w /\ v # w => u = v
        BY <3>1, <3>3, <3>4, <3>9 DEF InTurn
      <4> QED
        BY <3>9, <4>1, <4>2, <4>3
    <3>10. ASSUME NEW v \in Reads, Live(v)' PROVE q[v] <= q[w]
      <4>1. CASE v = w
        BY <3>2, <3>3, <4>1
      <4>2. CASE v # w
        BY <3>1, <3>2, <3>3, <3>4, <3>6, <3>10, <4>2
      <4> QED
        BY <4>1, <4>2
    <3> QED
      BY <2>1, <3>3, <3>7, <3>8, <3>9, <3>10 DEF Turns, InTurn, Live, Running
  <2>6. StatedOK'
    BY <2>1, <2>4 DEF StatedOK, Live
  <2>7. ASSUME NEW v \in Reads PROVE ReadOK(v)'
    <3>1. CASE v = w
      BY <2>4, <3>1 DEF ReadOK
    <3>2. CASE v # w
      BY <2>3, <3>2 DEF IInv, ReadOK, Now
    <3> QED
      BY <3>1, <3>2
  <2>8. \A v \in Reads : Live(v) => reads'[v] = reads[v]
    BY <2>1, <2>3 DEF Live
  <2> QED
    BY <2>1, <2>3, <2>4, <2>5, <2>6, <2>7, <2>8
<1> QED
  BY <1>1, <1>2

\* What a call finds: it asked no later than the look that answers it.
LEMMA AskStep ==
  ASSUME IInv, NEW c \in Callers, Ask(c)
  PROVE  IInv'
<1>t. /\ TypeOK /\ FileOK /\ EntryFits(file, entry) /\ \A d \in Callers : CallerOK(d)
      /\ caller \in [Callers -> Caller] /\ reads \in [Reads -> Read]
  BY DEF IInv, TypeOK
<1>1. PICK w \in Reads :
        /\ Resolve(w, reads')
        /\ caller' = [caller EXCEPT ![c] = [Free EXCEPT !.pc = "waiting", !.on = w, !.asked = Now,
                                                        !.late = HasLooked(w)]]
  BY DEF Ask
<1>2. UNCHANGED <<file, entry, watching, event, noticed, missed>> /\ Now' = Now
  BY DEF Ask, watch, Now
<1>3. /\ Turns' /\ StatedOK' /\ \A v \in Reads : ReadOK(v)'
      /\ reads' \in [Reads -> Read] /\ inFlight' \in Reads /\ stated' \in BOOLEAN
      /\ \A v \in Reads : Live(v) => reads'[v] = reads[v]
      /\ reads'[w].phase \in {"queued", "statting", "looked"}
      /\ reads'[w].phase = "looked" => reads[w].phase = "looked"
  BY <1>1, <1>2, ResolveStep
<1> DEFINE new == [Free EXCEPT !.pc = "waiting", !.on = w, !.asked = Now, !.late = HasLooked(w)]
<1>4. /\ new \in Caller /\ new.pc = "waiting" /\ new.on = w /\ new.asked = Now
      /\ new.late = HasLooked(w)
  <2>1. Now \in Prints /\ Free \in Caller /\ HasLooked(w) \in BOOLEAN
    BY <1>t, Basics DEF HasLooked
  <2> QED
    BY <2>1 DEF Caller, Free
<1>5. caller' \in [Callers -> Caller] /\ caller'[c] = new /\ \A d \in Callers \ {c} : caller'[d] = caller[d]
  BY <1>t, <1>1, <1>4
<1> HIDE DEF new
<1>6. TypeOK'
  <2>1. NoRead \notin Reads
    BY StoreAssumption
  <2>2. ~ \A v \in Reads : reads'[v].phase = "over"
    BY <1>3
  <2> QED
    BY <1>t, <1>2, <1>3, <1>5, <2>1, <2>2 DEF TypeOK
<1>7. \A d \in Callers : CallerOK(d)'
  <2>1. ASSUME NEW d \in Callers, d # c PROVE CallerOK(d)'
    <3>1. CallerOK(d) /\ caller'[d] = caller[d]
      BY <1>t, <1>5, <2>1
    <3> QED
      BY <1>2, <1>3, <3>1 DEF CallerOK, Live
  <2>2. CallerOK(c)'
    <3>1. Now \in 1..Now
      BY <1>t, Basics
    <3>2. reads'[w].phase = "looked" => caller'[c].late
      BY <1>3, <1>4, <1>5 DEF HasLooked
    <3> QED
      BY <1>2, <1>3, <1>4, <1>5, <3>1, <3>2 DEF CallerOK, Live
  <2> QED
    BY <2>1, <2>2
<1>8. FileOK' /\ EntryFits(file, entry)'
  BY <1>t, <1>2 DEF FileOK, EntryFits, Says
<1> QED
  BY <1>3, <1>6, <1>7, <1>8 DEF IInv

\* A change event makes a refresh look after it, and touches nothing else.
LEMMA HandleStep ==
  ASSUME IInv, HandleEvent
  PROVE  IInv'
<1>t. /\ TypeOK /\ FileOK /\ EntryFits(file, entry) /\ \A d \in Callers : CallerOK(d)
      /\ caller \in [Callers -> Caller] /\ reads \in [Reads -> Read]
  BY DEF IInv, TypeOK
<1>1. PICK w \in Reads : Resolve(w, reads') /\ missed' = (missed \/ HasLooked(w))
  BY DEF HandleEvent
<1>2. UNCHANGED <<file, entry, caller, watching, noticed>> /\ event' = FALSE /\ Now' = Now
  BY DEF HandleEvent, Now
<1>3. /\ Turns' /\ StatedOK' /\ \A v \in Reads : ReadOK(v)'
      /\ reads' \in [Reads -> Read] /\ inFlight' \in Reads /\ stated' \in BOOLEAN
      /\ \A v \in Reads : Live(v) => reads'[v] = reads[v]
      /\ reads'[w].phase \in {"queued", "statting", "looked"}
  BY <1>1, <1>2, ResolveStep
<1>4. TypeOK'
  <2>1. NoRead \notin Reads
    BY StoreAssumption
  <2>2. ~ \A v \in Reads : reads'[v].phase = "over"
    BY <1>3
  <2>3. missed' \in BOOLEAN
    BY <1>t, <1>1 DEF TypeOK, HasLooked
  <2> QED
    BY <1>t, <1>2, <1>3, <2>1, <2>2, <2>3 DEF TypeOK
<1>5. ASSUME NEW d \in Callers PROVE CallerOK(d)'
  <2>1. CallerOK(d) /\ caller'[d] = caller[d]
    BY <1>t, <1>2
  <2> QED
    BY <1>2, <1>3, <2>1 DEF CallerOK, Live
<1>6. FileOK' /\ EntryFits(file, entry)'
  BY <1>t, <1>2 DEF FileOK, EntryFits, Says
<1> QED
  BY <1>3, <1>4, <1>5, <1>6 DEF IInv

\* A refresh that goes on keeps its turn.
LEMMA Onward ==
  ASSUME IInv, NEW w \in Reads, Running(w), NEW new \in Read,
         new.phase \in {"looked", "reading", "read"},
         reads' = [reads EXCEPT ![w] = new], inFlight' = inFlight
  PROVE  /\ Turns' /\ reads' \in [Reads -> Read] /\ reads'[w] = new
         /\ \A v \in Reads \ {w} : reads'[v] = reads[v]
         /\ \A v \in Reads : Live(v)' <=> Live(v)
<1>1. reads \in [Reads -> Read]
  BY DEF IInv, TypeOK
<1>2. /\ reads' \in [Reads -> Read] /\ reads'[w] = new
      /\ \A v \in Reads \ {w} : reads'[v] = reads[v]
  BY <1>1
<1>3. \A v \in Reads : (Live(v)' <=> Live(v)) /\ (Running(v)' <=> Running(v))
  BY <1>2 DEF Live, Running
<1>4. \A v \in Reads : reads'[v].phase = "queued" => reads[v].phase = "queued" /\ reads'[v] = reads[v]
  BY <1>2
<1>5. Turns'
  <2>1. PICK r \in [Reads -> Nat] : InTurn(r)
    BY DEF IInv, Turns
  <2>2. InTurn(r)'
    BY <1>2, <1>3, <1>4, <2>1 DEF InTurn, Live
  <2> QED
    BY <2>2 DEF Turns
<1> QED
  BY <1>2, <1>3, <1>5

\* The steps of the running refresh before its last.
LEMMA ReadStep ==
  ASSUME IInv, NEW w \in Reads, Look(w) \/ FindChanged(w) \/ ReadText(w)
  PROVE  IInv'
<1>t. /\ TypeOK /\ FileOK /\ EntryFits(file, entry) /\ \A d \in Callers : CallerOK(d)
      /\ caller \in [Callers -> Caller] /\ reads \in [Reads -> Read] /\ reads[w] \in Read
      /\ StatedOK /\ \A v \in Reads : ReadOK(v)
  BY DEF IInv, TypeOK
<1>n. /\ Now \in Nat /\ Now >= 1 /\ Now \in Prints /\ Now \in 1..Now
      /\ file[Now].print \in Prints
  BY <1>t, Basics
<1>1. UNCHANGED <<file, entry, inFlight, caller, watching, event, noticed, missed>> /\ Now' = Now
  BY DEF Look, FindChanged, ReadText, watch, Now
<1>r. Running(w)
  BY DEF Look, FindChanged, ReadText, Running
<1>2. PICK new \in Read :
        /\ reads' = [reads EXCEPT ![w] = new]
        /\ \/ /\ reads[w].phase = "statting" /\ new.phase = "looked"
              /\ new.at = Now /\ new.print = file[Now].print /\ stated' = stated
           \/ /\ reads[w].phase = "looked" /\ new.phase = "reading"
              /\ new.at = reads[w].at /\ new.print = reads[w].print /\ new.print # Gone
              /\ stated' = (stated \/ inFlight = w)
           \/ /\ reads[w].phase = "reading" /\ new.phase = "read"
              /\ new.at = reads[w].at /\ new.print = reads[w].print /\ new.text = Now
              /\ stated' = stated
  <2>1. CASE Look(w)
    <3> DEFINE new == [reads[w] EXCEPT !.phase = "looked", !.print = file[Now].print, !.at = Now]
    <3>1. new \in Read /\ new.phase = "looked" /\ new.at = Now /\ new.print = file[Now].print
      BY <1>t, <1>n DEF Read
    <3>2. reads' = [reads EXCEPT ![w] = new] /\ reads[w].phase = "statting" /\ stated' = stated
      BY <2>1, <1>t DEF Look
    <3> HIDE DEF new
    <3> QED
      BY <3>1, <3>2
  <2>2. CASE FindChanged(w)
    <3> DEFINE new == [reads[w] EXCEPT !.phase = "reading"]
    <3>1. new \in Read /\ new.phase = "reading" /\ new.at = reads[w].at /\ new.print = reads[w].print
      BY <1>t DEF Read
    <3>2. /\ reads' = [reads EXCEPT ![w] = new] /\ reads[w].phase = "looked"
          /\ stated' = (stated \/ inFlight = w) /\ reads[w].print # Gone
      BY <2>2, <1>t DEF FindChanged
    <3> HIDE DEF new
    <3> QED
      BY <3>1, <3>2
  <2>3. CASE ReadText(w)
    <3> DEFINE new == [reads[w] EXCEPT !.phase = "read", !.text = Now]
    <3>1. new \in Read /\ new.phase = "read" /\ new.at = reads[w].at /\ new.print = reads[w].print /\ new.text = Now
      BY <1>t, <1>n DEF Read
    <3>2. reads' = [reads EXCEPT ![w] = new] /\ reads[w].phase = "reading" /\ stated' = stated
      BY <2>3, <1>t DEF ReadText
    <3> HIDE DEF new
    <3> QED
      BY <3>1, <3>2
  <2> QED
    BY <2>1, <2>2, <2>3
<1>3. /\ Turns' /\ reads' \in [Reads -> Read] /\ reads'[w] = new
      /\ \A v \in Reads \ {w} : reads'[v] = reads[v]
      /\ \A v \in Reads : Live(v)' <=> Live(v)
  BY <1>1, <1>2, <1>r, Onward
<1>4. TypeOK'
  <2>1. stated' \in BOOLEAN
    BY <1>t, <1>2 DEF TypeOK
  <2>2. (inFlight' = NoRead) <=> \A v \in Reads : reads'[v].phase = "over"
    BY <1>t, <1>1, <1>3 DEF TypeOK, Live
  <2> QED
    BY <1>t, <1>1, <1>3, <2>1, <2>2 DEF TypeOK
<1>5. StatedOK'
  <2>1. inFlight' # NoRead => inFlight \in Reads /\ Live(inFlight) /\ Live(inFlight)'
    BY <1>t, <1>1, <1>3 DEF StatedOK, TypeOK
  <2>2. ASSUME inFlight # NoRead, ~stated' PROVE reads'[inFlight].phase \in {"queued", "statting", "looked"}
    <3>1. ~stated
      BY <1>2, <2>2
    <3>2. CASE inFlight = w
      BY <1>t, <1>2, <1>3, <2>2, <3>1, <3>2 DEF StatedOK
    <3>3. CASE inFlight # w
      BY <1>t, <1>1, <1>3, <2>1, <2>2, <3>1, <3>3 DEF StatedOK
    <3> QED
      BY <3>2, <3>3
  <2> QED
    BY <1>1, <2>1, <2>2 DEF StatedOK
<1>6. ASSUME NEW v \in Reads PROVE ReadOK(v)'
  <2>1. CASE v # w
    BY <1>t, <1>1, <1>3, <2>1 DEF ReadOK
  <2>2. CASE v = w
    <3>1. entry.of <= Now
      BY <1>t DEF EntryFits, Now
    <3>2. ReadOK(w)
      BY <1>t
    <3>3. reads[w].phase = "reading" => reads[w].at \in 1..Now /\ reads[w].at <= Now
      BY <1>n, <3>2 DEF ReadOK
    <3> QED
      BY <1>1, <1>2, <1>3, <1>n, <2>2, <3>1, <3>2, <3>3 DEF ReadOK
  <2> QED
    BY <2>1, <2>2
<1>7. ASSUME NEW d \in Callers PROVE CallerOK(d)'
  <2>1. CallerOK(d) /\ caller'[d] = caller[d]
    BY <1>t, <1>1
  <2>2. ASSUME caller[d].pc = "waiting", caller[d].on = w, ~caller[d].late
        PROVE  caller[d].asked <= new.at
    <3>1. caller[d].asked \in 1..Now
      BY <2>1, <2>2 DEF CallerOK
    <3>2. reads[w].phase \in {"looked", "reading"} => caller[d].asked <= reads[w].at
      BY <2>1, <2>2 DEF CallerOK
    <3> QED
      BY <1>2, <1>n, <3>1, <3>2
  <2> QED
    BY <1>1, <1>3, <2>1, <2>2 DEF CallerOK
<1>8. FileOK' /\ EntryFits(file, entry)'
  BY <1>t, <1>1 DEF FileOK, EntryFits, Says
<1> QED
  BY <1>3, <1>4, <1>5, <1>6, <1>7, <1>8 DEF IInv

-----------------------------------------------------------------------------
(***************************************************************************)
(* The last step of a refresh                                              *)
(***************************************************************************)
\* When a refresh ends, the one behind it runs and the others move up.
LEMMA TurnsPass ==
  ASSUME IInv, NEW w \in Reads, Running(w), NEW new, Finish(w, new)
  PROVE  /\ Turns' /\ reads' \in [Reads -> Read] /\ reads'[w] = Over
         /\ \A v \in Reads \ {w} : Live(v)' <=> Live(v)
         /\ \A v \in Reads : reads'[v].phase \in {"over", "queued", "statting"}
         /\ inFlight = w => inFlight' = NoRead /\ stated' = FALSE /\ \A v \in Reads : ~Live(v)'
         /\ inFlight # w => inFlight' = inFlight /\ stated' = stated /\ inFlight \in Reads /\ Live(inFlight)'
<1>t. reads \in [Reads -> Read] /\ \A v \in Reads : reads[v] \in Read
  BY DEF IInv, TypeOK
<1>1. /\ inFlight \in Reads /\ Live(inFlight)
      /\ \A v \in Reads : Running(v) => v = w
      /\ inFlight = w => \A v \in Reads : Live(v) => v = w
  BY OneRuns
<1>2. \A v \in Reads : reads'[v] =
        IF v = w THEN Over
        ELSE IF reads[v].phase = "queued" /\ reads[v].behind = w
             THEN [reads[v] EXCEPT !.phase = "statting", !.behind = NoRead]
        ELSE reads[v]
  BY DEF Finish
<1>3. reads'[w] = Over /\ reads'[w].phase = "over"
  <2>1. reads'[w] = Over
    BY <1>2
  <2>2. Over.phase = "over"
    BY DEF Over
  <2> QED
    BY <2>1, <2>2
<1>4. ASSUME NEW v \in Reads, v # w
      PROVE  /\ reads'[v] \in Read
             /\ \/ reads[v].phase = "queued" /\ reads[v].behind = w /\ reads'[v].phase = "statting"
                \/ reads[v].phase = "queued" /\ reads[v].behind # w /\ reads'[v] = reads[v]
                \/ reads[v].phase = "over" /\ reads'[v] = reads[v]
  <2>1. reads[v].phase \in {"over", "queued"}
    BY <1>t, <1>1, <1>4 DEF Running, Read
  <2>2. [reads[v] EXCEPT !.phase = "statting", !.behind = NoRead] \in Read
    BY <1>t DEF Read
  <2>3. [reads[v] EXCEPT !.phase = "statting", !.behind = NoRead].phase = "statting"
    BY <1>t DEF Read
  <2> QED
    BY <1>t, <1>2, <1>4, <2>1, <2>2, <2>3
<1>5. reads' \in [Reads -> Read]
  <2>1. Over \in Read
    BY Basics DEF IInv
  <2>2. \A v \in Reads : reads'[v] \in Read
    BY <1>3, <1>4, <2>1
  <2>3. DOMAIN reads' = Reads /\ reads' = [v \in Reads |-> reads'[v]]
    BY DEF Finish
  <2> QED
    BY <2>2, <2>3
<1>6. \A v \in Reads \ {w} : Live(v)' <=> Live(v)
  BY <1>4 DEF Live
<1>7. /\ inFlight = w => inFlight' = NoRead /\ stated' = FALSE /\ \A v \in Reads : ~Live(v)'
      /\ inFlight # w => inFlight' = inFlight /\ stated' = stated /\ Live(inFlight)'
  BY <1>1, <1>3, <1>6 DEF Finish, Ends, Live
<1>8. Turns'
  <2>1. PICK r \in [Reads -> Nat] : InTurn(r)
    BY DEF IInv, Turns
  <2> DEFINE q == [v \in Reads |-> IF r[v] = 0 THEN 0 ELSE r[v] - 1]
  <2>2. q \in [Reads -> Nat]
    BY <2>1
  <2>3. ASSUME NEW v \in Reads, Live(v), v # w PROVE r[v] \in Nat /\ r[v] > 0 /\ q[v] = r[v] - 1
    <3>1. r[w] = 0 /\ Live(w)
      BY <2>1 DEF InTurn, Running, Live
    <3>2. r[v] # 0
      BY <2>1, <2>3, <3>1 DEF InTurn
    <3> QED
      BY <2>1, <3>2
  <2> HIDE DEF q
  <2>4. ASSUME NEW v \in Reads, Running(v)' PROVE q[v] = 0
    <3>1. v # w /\ reads[v].phase = "queued" /\ reads[v].behind = w
      BY <1>3, <1>4, <2>4 DEF Running
    <3>2. r[v] = r[w] + 1 /\ r[w] = 0
      BY <2>1, <3>1 DEF InTurn
    <3>3. Live(v)
      BY <3>1 DEF Live
    <3> QED
      BY <2>3, <3>1, <3>2, <3>3
  <2>5. ASSUME NEW v \in Reads, reads'[v].phase = "queued"
        PROVE  /\ reads'[v].behind \in Reads /\ Live(reads[v].behind)' /\ reads'[v].behind = reads[v].behind
               /\ q[v] = q[reads[v].behind] + 1
    <3>1. v # w /\ reads[v].phase = "queued" /\ reads[v].behind # w /\ reads'[v] = reads[v]
      BY <1>3, <1>4, <2>5
    <3>2. /\ reads[v].behind \in Reads /\ Live(reads[v].behind)
          /\ r[v] = r[reads[v].behind] + 1 /\ Live(v)
      BY <2>1, <3>1 DEF InTurn, Live
    <3>3. Live(reads[v].behind)'
      BY <1>4, <3>1, <3>2 DEF Live
    <3> QED
      BY <2>3, <3>1, <3>2, <3>3
  <2>6. \A u, v \in Reads : Live(u)' /\ Live(v)' /\ q[u] = q[v] => u = v
    <3> SUFFICES ASSUME NEW u \in Reads, NEW v \in Reads, Live(u)', Live(v)', q[u] = q[v] PROVE u = v
      OBVIOUS
    <3>1. u # w /\ v # w /\ Live(u) /\ Live(v)
      BY <1>3, <1>6 DEF Live
    <3>2. r[u] = r[v]
      BY <2>3, <3>1
    <3> QED
      BY <2>1, <3>1, <3>2 DEF InTurn
  <2>7. ASSUME NEW v \in Reads, Live(v)' PROVE q[v] <= q[inFlight']
    <3>1. v # w /\ Live(v) /\ inFlight # w /\ inFlight' = inFlight
      BY <1>1, <1>3, <1>6, <1>7, <2>7 DEF Live
    <3>2. r[v] <= r[inFlight]
      BY <2>1, <3>1 DEF InTurn
    <3> QED
      BY <1>1, <2>3, <3>1, <3>2
  <2>8. InTurn(q)'
    BY <2>4, <2>5, <2>6, <2>7 DEF InTurn, Live, Running
  <2> QED
    BY <2>2, <2>8 DEF Turns
<1> QED
  BY <1>1, <1>3, <1>4, <1>5, <1>6, <1>7, <1>8

\* A refresh may end with an entry that fits the file and answers its callers.
LEMMA FinishStep ==
  ASSUME IInv, NEW w \in Reads, Running(w), NEW new \in Entry, Finish(w, new),
         EntryFits(file, new),
         \A c \in Callers : caller[c].pc = "waiting" /\ caller[c].on = w /\ ~caller[c].late =>
           /\ new.of \in 1..Now /\ Says(file, new.state, new.of)
           /\ ~SameTick => new.of >= caller[c].asked
  PROVE  IInv'
<1>t. /\ TypeOK /\ FileOK /\ StatedOK /\ NoRead \notin Reads
      /\ \A d \in Callers : CallerOK(d) /\ caller[d] \in Caller
  BY StoreAssumption DEF IInv, TypeOK
<1>1. /\ UNCHANGED <<file, event, noticed, missed>> /\ Now' = Now
      /\ entry' = new /\ watching' \in BOOLEAN
  BY DEF Finish, Now, IInv, TypeOK
<1>2. /\ Turns' /\ reads' \in [Reads -> Read] /\ reads'[w].phase = "over"
      /\ \A v \in Reads \ {w} : Live(v)' <=> Live(v)
      /\ \A v \in Reads : reads'[v].phase \in {"over", "queued", "statting"}
      /\ inFlight = w => inFlight' = NoRead /\ stated' = FALSE /\ \A v \in Reads : ~Live(v)'
      /\ inFlight # w => inFlight' = inFlight /\ stated' = stated /\ inFlight \in Reads /\ Live(inFlight)'
  <2>1. Over.phase = "over"
    BY DEF Over
  <2> QED
    BY TurnsPass, <2>1
<1>3. ASSUME NEW d \in Callers
      PROVE  \/ /\ caller[d].pc = "waiting" /\ caller[d].on = w
                /\ caller'[d] = [caller[d] EXCEPT !.pc = "answered", !.on = NoRead, !.got = new.state, !.of = new.of]
             \/ ~(caller[d].pc = "waiting" /\ caller[d].on = w) /\ caller'[d] = caller[d]
  BY DEF Finish
<1>4. ASSUME NEW d \in Callers
      PROVE  [caller[d] EXCEPT !.pc = "answered", !.on = NoRead, !.got = new.state, !.of = new.of] \in Caller
  BY <1>t DEF Caller, Entry
<1>5. caller' \in [Callers -> Caller]
  <2>1. \A d \in Callers : caller'[d] \in Caller
    BY <1>t, <1>3, <1>4
  <2>2. caller' = [c \in Callers |-> caller'[c]]
    BY DEF Finish
  <2> QED
    BY <2>1, <2>2
<1>6. TypeOK'
  <2>1. inFlight' \in Reads \cup {NoRead} /\ stated' \in BOOLEAN
    BY <1>t, <1>2 DEF TypeOK
  <2>2. inFlight' = NoRead <=> \A v \in Reads : reads'[v].phase = "over"
    BY <1>t, <1>2 DEF Live
  <2> QED
    BY <1>t, <1>1, <1>2, <1>5, <2>1, <2>2 DEF TypeOK
<1>7. StatedOK'
  <2>1. CASE inFlight = w
    BY <1>2, <2>1 DEF StatedOK
  <2>2. CASE inFlight # w
    BY <1>2, <2>2 DEF StatedOK, Live
  <2> QED
    BY <2>1, <2>2
<1>8. ASSUME NEW v \in Reads PROVE ReadOK(v)'
  BY <1>2 DEF ReadOK
<1>9. ASSUME NEW d \in Callers PROVE CallerOK(d)'
  <2>1. CASE caller[d].pc = "waiting" /\ caller[d].on = w
    <3>1. /\ caller'[d].pc = "answered" /\ caller'[d].late = caller[d].late
          /\ caller'[d].got = new.state /\ caller'[d].of = new.of /\ caller'[d].asked = caller[d].asked
      BY <1>t, <1>3, <2>1 DEF Caller
    <3> QED
      BY <1>1, <2>1, <3>1 DEF CallerOK
  <2>2. CASE ~(caller[d].pc = "waiting" /\ caller[d].on = w)
    <3>1. caller'[d] = caller[d] /\ CallerOK(d)
      BY <1>t, <1>3, <2>2
    <3>2. caller[d].pc = "waiting" =>
            /\ caller[d].on \in Reads \ {w} /\ Live(caller[d].on)'
            /\ reads'[caller[d].on].phase \in {"over", "queued", "statting"}
      BY <1>2, <2>2, <3>1 DEF CallerOK
    <3> QED
      BY <1>1, <3>1, <3>2 DEF CallerOK
  <2> QED
    BY <2>1, <2>2
<1>10. FileOK' /\ EntryFits(file, entry)'
  BY <1>t, <1>1 DEF FileOK, EntryFits, Says
<1> QED
  BY <1>2, <1>6, <1>7, <1>8, <1>9, <1>10 DEF IInv

\* A callers' read has looked at the file no earlier than any of them asked.
LEMMA GoneStep ==
  ASSUME IInv, NEW w \in Reads, FindGone(w)
  PROVE  IInv'
<1> DEFINE new == [state |-> Absent, print |-> Gone, of |-> reads[w].at]
<1>1. reads[w].phase = "looked" /\ reads[w].print = Gone /\ Finish(w, new) /\ Running(w)
  BY DEF FindGone, Running
<1>2. reads[w].at \in 1..Now /\ file[reads[w].at].print = Gone
  BY <1>1 DEF IInv, ReadOK
<1>3. file[reads[w].at].kind = "none"
  BY <1>2 DEF IInv, FileOK
<1>4. new \in Entry /\ new.of = reads[w].at /\ new.state = Absent
  BY <1>2, Basics DEF IInv, Entry, Gone
<1>5. Says(file, new.state, new.of)
  BY <1>3, <1>4 DEF Says
<1>6. EntryFits(file, new)
  <2>1. new.state.status = "absent"
    BY <1>4 DEF Absent
  <2> QED
    BY <1>2, <1>4, <1>5, <2>1 DEF EntryFits, Now
<1>7. ASSUME NEW c \in Callers, caller[c].pc = "waiting", caller[c].on = w, ~caller[c].late
      PROVE  caller[c].asked <= new.of
  BY <1>1, <1>4, <1>7 DEF IInv, CallerOK
<1>8. \A c \in Callers : caller[c].pc = "waiting" /\ caller[c].on = w /\ ~caller[c].late =>
        /\ new.of \in 1..Now /\ Says(file, new.state, new.of)
        /\ ~SameTick => new.of >= caller[c].asked
  <2>1. new.of \in Nat /\ \A c \in Callers : caller[c].asked \in Nat
    BY <1>2, <1>4, Basics DEF IInv, TypeOK, Caller
  <2> QED
    BY <1>2, <1>4, <1>5, <1>7, <2>1
<1> HIDE DEF new
<1> QED
  BY <1>1, <1>4, <1>6, <1>8, FinishStep

\* The entry's fingerprint is of a version it is no older than.
LEMMA UnchangedStep ==
  ASSUME IInv, NEW w \in Reads, FindUnchanged(w)
  PROVE  IInv'
<1>1. /\ reads[w].phase = "looked" /\ reads[w].print # Gone /\ reads[w].print = entry.print
      /\ entry.state.status # "absent" /\ Finish(w, entry) /\ Running(w)
  BY DEF FindUnchanged, Unchanged, Running
<1>2. reads[w].at \in 1..Now /\ reads[w].print = file[reads[w].at].print
  BY <1>1 DEF IInv, ReadOK
<1>3. entry \in Entry /\ entry.of \in Nat /\ EntryFits(file, entry)
  BY Basics DEF IInv, TypeOK, Entry
<1>4. PICK a \in 1..entry.of : entry.print = file[a].print
  BY <1>1, <1>3 DEF EntryFits
<1>5. entry.of \in 1..Now /\ a \in 1..Now /\ a <= entry.of /\ Says(file, entry.state, entry.of)
  BY <1>3, <1>4 DEF EntryFits, Now
<1>6. ASSUME ~SameTick PROVE reads[w].at <= entry.of
  <2>1. file[a].kind # "none" /\ file[reads[w].at].kind # "none"
    BY <1>1, <1>2, <1>4, <1>5 DEF IInv, FileOK
  <2>2. file[a].print = a /\ file[reads[w].at].print = reads[w].at
    BY <1>2, <1>5, <1>6, <2>1 DEF IInv, FileOK
  <2> QED
    BY <1>1, <1>2, <1>4, <1>5, <2>2
<1>7. ASSUME NEW c \in Callers, caller[c].pc = "waiting", caller[c].on = w, ~caller[c].late
      PROVE  ~SameTick => entry.of >= caller[c].asked
  <2>1. caller[c].asked <= reads[w].at /\ caller[c].asked \in 1..Now
    BY <1>1, <1>7 DEF IInv, CallerOK
  <2> QED
    BY <1>2, <1>3, <1>6, <2>1
<1> QED
  BY <1>1, <1>3, <1>5, <1>7, FinishStep

\* What a read makes of the text it read.
LEMMA Parsed ==
  ASSUME IInv, NEW w \in Reads, Parse(w)
  PROVE  \E new \in Entry :
           /\ Finish(w, new) /\ new.of = reads[w].text
           /\ Says(file, new.state, new.of) /\ EntryFits(file, new)
           /\ entry.state.status = "active" =>
                \/ new.state.status = "absent"
                \/ new.state.status = "active" /\ new.state.sheet >= entry.state.sheet
<1> DEFINE v == reads[w].text
           at == reads[w].at
<1>1. reads[w].phase = "read" /\ ReadOK(w)
  BY DEF Parse, IInv
<1>2. /\ at \in 1..Now /\ v \in at..Now /\ v \in 1..Now /\ entry.of <= v /\ v \in Prints /\ v <= Len(file)
      /\ reads[w].print = file[at].print /\ reads[w].print # Gone /\ reads[w].print \in Prints
      /\ at \in 1..v
  <2>1. at \in 1..Now /\ v \in at..Now /\ entry.of <= v
    BY <1>1 DEF ReadOK
  <2>2. v \in 1..Now /\ at \in 1..v
    BY <2>1
  <2>3. reads[w].print \in Prints
    BY DEF IInv, TypeOK, Read
  <2> QED
    BY <1>1, <2>1, <2>2, <2>3, Basics DEF ReadOK, IInv, Now
<1>3. /\ entry \in Entry /\ entry.of \in Nat /\ entry.state \in States /\ entry.state.sheet \in Nat
      /\ EntryFits(file, entry)
  BY Basics DEF IInv, TypeOK, Entry, States
<1>4. CASE file[v].kind = "none"
  <2> DEFINE new == [state |-> Absent, print |-> Gone, of |-> v]
  <2>1. new \in Entry /\ new.of = v /\ new.state = Absent /\ Absent.status = "absent"
    BY <1>2, Basics DEF IInv, Entry, Gone, Absent
  <2>2. Finish(w, new)
    BY <1>4 DEF Parse
  <2> HIDE DEF new
  <2>3. Says(file, new.state, v)
    BY <1>4, <2>1 DEF Says
  <2>4. EntryFits(file, new)
    BY <1>2, <2>1, <2>3 DEF EntryFits
  <2> QED
    BY <2>1, <2>2, <2>3, <2>4
<1>5. CASE file[v].kind = "good"
  <2> DEFINE new == [state |-> [status |-> "active", sheet |-> v, stale |-> FALSE],
                     print |-> Key(w), of |-> v]
  <2>1. /\ new \in Entry /\ new.of = v /\ new.print = reads[w].print
        /\ new.state.status = "active" /\ new.state.sheet = v /\ new.state.stale = FALSE
    BY <1>2 DEF Entry, States, Key
  <2>2. Finish(w, new)
    BY <1>5 DEF Parse
  <2> HIDE DEF new
  <2>3. Says(file, new.state, v)
    BY <1>5, <2>1 DEF Says
  <2>4. EntryFits(file, new)
    <3>1. v \in 1..v /\ \E a \in 1..v : new.print = file[a].print
      BY <1>2, <2>1
    <3> QED
      BY <1>2, <1>5, <2>1, <2>3, <3>1 DEF EntryFits
  <2>5. entry.state.status = "active" => v >= entry.state.sheet
    BY <1>2, <1>3 DEF EntryFits
  <2> QED
    BY <2>1, <2>2, <2>3, <2>4, <2>5
<1>6. CASE file[v].kind = "bad"
  <2> DEFINE new == [Retained(v) EXCEPT !.print = Key(w)]
             dark == [status |-> "unusable", sheet |-> 0, stale |-> FALSE]
  <2>1. Finish(w, new)
    BY <1>6 DEF Parse
  <2>2. new = [state |-> Retained(v).state, print |-> reads[w].print, of |-> v]
    <3>1. Retained(v) = [state |-> Retained(v).state, print |-> Gone, of |-> v]
      BY DEF Retained
    <3> QED
      BY <3>1 DEF Key
  <2>3. new.of = v /\ new.print = reads[w].print /\ new.state = Retained(v).state
    BY <2>2
  <2>4. CASE entry.state.status = "active"
    <3>1. new.state = [entry.state EXCEPT !.stale = TRUE]
      BY <2>3, <2>4 DEF Retained
    <3>2. /\ new.state \in States /\ new.state.status = "active" /\ new.state.stale = TRUE
          /\ new.state.sheet = entry.state.sheet
      BY <1>3, <2>4, <3>1 DEF States
    <3>3. new \in Entry
      BY <1>2, <2>2, <2>3, <3>2 DEF Entry
    <3>4. /\ entry.state.sheet \in 1..(v - 1) /\ entry.state.sheet \in 1..v
          /\ file[entry.state.sheet].kind = "good"
      <4>1. entry.state.sheet \in 1..entry.of /\ file[entry.state.sheet].kind = "good"
        BY <1>3, <2>4 DEF EntryFits
      <4>2. entry.state.sheet # v
        BY <1>6, <4>1
      <4> QED
        BY <1>2, <1>3, <4>1, <4>2
    <3> HIDE DEF new
    <3>5. Says(file, new.state, v)
      BY <1>6, <3>2, <3>4 DEF Says
    <3>6. EntryFits(file, new)
      BY <1>2, <2>3, <3>2, <3>4, <3>5 DEF EntryFits
    <3> QED
      BY <1>3, <2>1, <2>3, <3>2, <3>3, <3>5, <3>6
  <2>5. CASE entry.state.status # "active"
    <3>1. new.state = dark /\ dark.status = "unusable"
      BY <2>3, <2>5 DEF Retained
    <3>2. dark \in States
      BY Basics DEF IInv, States
    <3>3. new \in Entry
      BY <1>2, <2>2, <2>3, <3>1, <3>2 DEF Entry
    <3> HIDE DEF new, dark
    <3>4. Says(file, new.state, v)
      BY <1>6, <3>1 DEF Says
    <3>5. EntryFits(file, new)
      BY <1>2, <2>3, <3>1, <3>4 DEF EntryFits
    <3> QED
      BY <2>1, <2>3, <2>5, <3>3, <3>4, <3>5
  <2> QED
    BY <2>4, <2>5
<1>7. file[v].kind \in Kinds
  BY <1>2, Basics DEF IInv
<1> QED
  BY <1>4, <1>5, <1>6, <1>7 DEF Kinds

\* A read's text is no older than its look.
LEMMA ParseStep ==
  ASSUME IInv, NEW w \in Reads, Parse(w)
  PROVE  IInv'
<1>1. PICK new \in Entry :
        /\ Finish(w, new) /\ new.of = reads[w].text
        /\ Says(file, new.state, new.of) /\ EntryFits(file, new)
  BY Parsed
<1>2. reads[w].phase = "read" /\ Running(w)
  BY DEF Parse, Running
<1>3. reads[w].at \in 1..Now /\ reads[w].text \in reads[w].at..Now
  BY <1>2 DEF IInv, ReadOK
<1>4. ASSUME NEW c \in Callers, caller[c].pc = "waiting", caller[c].on = w, ~caller[c].late
      PROVE  new.of >= caller[c].asked
  <2>1. caller[c].asked <= reads[w].at /\ caller[c].asked \in 1..Now
    BY <1>2, <1>4 DEF IInv, CallerOK
  <2> QED
    BY <1>1, <1>3, <2>1
<1>5. new.of \in 1..Now
  BY <1>1, <1>3
<1> QED
  BY <1>1, <1>2, <1>4, <1>5, FinishStep

-----------------------------------------------------------------------------
(***************************************************************************)
(* The callers and the file                                                *)
(***************************************************************************)
\* What is not touched stays so.
LEMMA SameReads ==
  ASSUME IInv, UNCHANGED <<file, entry, reads, inFlight, stated>>
  PROVE  FileOK' /\ EntryFits(file, entry)' /\ Turns' /\ StatedOK' /\ \A w \in Reads : ReadOK(w)'
<1>1. FileOK' /\ EntryFits(file, entry)'
  BY DEF IInv, FileOK, EntryFits, Says, Now
<1>2. Turns' /\ StatedOK'
  BY DEF IInv, Turns, InTurn, StatedOK, Live, Running
<1>3. \A w \in Reads : ReadOK(w)'
  BY DEF IInv, ReadOK, Now
<1> QED
  BY <1>1, <1>2, <1>3

\* A caller that leaves takes its answer with it.
LEMMA LeaveStep ==
  ASSUME IInv, NEW c \in Callers, Leave(c)
  PROVE  IInv'
<1>1. /\ UNCHANGED <<file, entry, reads, inFlight, stated, watching, event, noticed, missed>> /\ Now' = Now
      /\ caller' = [caller EXCEPT ![c] = Free]
  BY DEF Leave, watch, Now
<1>2. /\ caller' \in [Callers -> Caller] /\ caller'[c] = Free
      /\ \A d \in Callers \ {c} : caller'[d] = caller[d]
  BY <1>1, Basics DEF IInv, TypeOK
<1>3. TypeOK'
  BY <1>1, <1>2 DEF IInv, TypeOK
<1>4. ASSUME NEW d \in Callers PROVE CallerOK(d)'
  <2>1. CASE d = c
    <3>1. Free.pc = "idle"
      BY DEF Free
    <3> QED
      BY <1>2, <2>1, <3>1 DEF CallerOK
  <2>2. CASE d # c
    <3>1. caller'[d] = caller[d] /\ CallerOK(d)
      BY <1>2, <2>2 DEF IInv
    <3> QED
      BY <1>1, <3>1 DEF CallerOK, Live, Says
  <2> QED
    BY <2>1, <2>2
<1> QED
  BY <1>1, <1>3, <1>4, SameReads DEF IInv

\* A new version takes nothing from what was said of the older ones.
LEMMA EditStep ==
  ASSUME IInv, NEW kind \in Kinds, Edit(kind)
  PROVE  IInv'
<1>t. /\ TypeOK /\ FileOK /\ EntryFits(file, entry) /\ entry \in Entry
      /\ caller \in [Callers -> Caller] /\ reads \in [Reads -> Read]
      /\ \A w \in Reads : ReadOK(w)
      /\ \A c \in Callers : CallerOK(c)
  BY DEF IInv, TypeOK
<1>n. /\ Now \in Nat /\ Now >= 1 /\ Now = Len(file) /\ Now \in 1..Now
      /\ file \in Seq([kind : Kinds, print : Prints])
      /\ file[Now] \in [kind : Kinds, print : Prints]
  BY <1>t, Basics DEF TypeOK, Now
<1>1. /\ Now < MaxEdits /\ UNCHANGED <<entry, reads, inFlight, stated, caller, watching, missed>>
      /\ event' = (event \/ watching)
      /\ noticed' = IF watching THEN Now + 1 ELSE noticed
  BY DEF Edit
<1>2. PICK print \in {Now + 1} \cup
             (IF SameTick /\ file[Now].kind # "none" THEN {file[Now].print} ELSE {}) :
        file' = Append(file, [kind |-> kind, print |-> IF kind = "none" THEN Gone ELSE print])
  BY DEF Edit
<1> DEFINE new == [kind |-> kind, print |-> IF kind = "none" THEN Gone ELSE print]
<1>3. Now + 1 \in Prints /\ print \in Prints
  <2>1. Now + 1 \in Prints
    BY <1>1, <1>n, StoreAssumption DEF Prints
  <2>2. file[Now].print \in Prints
    BY <1>n
  <2> QED
    BY <2>1, <2>2
<1>4. /\ new \in [kind : Kinds, print : Prints] /\ new.kind = kind
      /\ kind = "none" => new.print = Gone
      /\ kind # "none" => new.print = print
  BY <1>3, Basics, <1>t DEF Gone
<1>5. file' = Append(file, new)
  BY <1>2
<1> HIDE DEF new
<1>6. /\ file' \in Seq([kind : Kinds, print : Prints]) /\ Now' = Now + 1 /\ Len(file') = Now + 1
      /\ file'[Now + 1] = new /\ \A v \in 1..Now : file'[v] = file[v]
  <2>1. /\ file' \in Seq([kind : Kinds, print : Prints]) /\ Len(file') = Len(file) + 1
        /\ \A v \in 1..Len(file) : Append(file, new)[v] = file[v]
        /\ Append(file, new)[Len(file) + 1] = new
    BY <1>4, <1>5, <1>n, AppendProperties
  <2> QED
    BY <1>5, <1>n, <2>1 DEF Now
<1>7. Extends(file', file)
  BY <1>6, <1>n DEF Extends
<1>8. TypeOK'
  <2>1. Now' \in 1..MaxEdits
    BY <1>1, <1>6, <1>n, StoreAssumption
  <2>2. event' \in BOOLEAN /\ noticed' \in Prints
    BY <1>1, <1>3, <1>t DEF TypeOK
  <2> QED
    BY <1>t, <1>1, <1>6, <2>1, <2>2 DEF TypeOK, Kinds, Prints, Entry, Read, Caller, States
<1>9. FileOK'
  <2>1. ASSUME NEW v \in 1..(Now + 1)
        PROVE  /\ file'[v].kind = "none" <=> file'[v].print = Gone
               /\ ~SameTick /\ file'[v].kind # "none" => file'[v].print = v
    <3>1. CASE v \in 1..Now
      BY <1>t, <1>6, <3>1 DEF FileOK
    <3>2. CASE v = Now + 1
      <4>1. print # Gone
        <5>1. file[Now].kind # "none" => file[Now].print # Gone
          BY <1>t, <1>n DEF FileOK
        <5> QED
          BY <1>n, <5>1 DEF Gone
      <4>2. ~SameTick => print = Now + 1
        OBVIOUS
      <4> QED
        BY <1>4, <1>6, <3>2, <4>1, <4>2
    <3> QED
      BY <1>n, <3>1, <3>2
  <2> QED
    BY <1>6, <2>1 DEF FileOK
<1>10. EntryFits(file, entry)'
  BY <1>t, <1>1, <1>7, EntryStays
<1>11. Turns' /\ StatedOK'
  BY <1>1 DEF IInv, Turns, InTurn, StatedOK, Live, Running
<1>12. ASSUME NEW w \in Reads PROVE ReadOK(w)'
  <2>1. 1..Now \subseteq 1..(Now + 1) /\ \A a \in 1..Now : a..Now \subseteq a..(Now + 1)
    BY <1>n
  <2>2. reads'[w] = reads[w] /\ entry' = entry /\ ReadOK(w)
    BY <1>t, <1>1
  <2> QED
    BY <1>6, <2>1, <2>2 DEF ReadOK
<1>13. ASSUME NEW c \in Callers PROVE CallerOK(c)'
  <2>1. 1..Now \subseteq 1..(Now + 1) /\ caller' = caller /\ reads' = reads /\ CallerOK(c)
    BY <1>t, <1>1, <1>n
  <2>2. ASSUME NEW v \in 1..Now, NEW s, Says(file, s, v) PROVE Says(file', s, v)
    BY <1>7, <1>n, <2>2, SaysStays
  <2> QED
    BY <1>6, <2>1, <2>2 DEF CallerOK, Live
<1> QED
  BY <1>8, <1>9, <1>10, <1>11, <1>12, <1>13 DEF IInv

-----------------------------------------------------------------------------
(***************************************************************************)
(* The invariant                                                           *)
(***************************************************************************)
\* Nothing has been read when the store starts.
LEMMA Begins == Init => IInv
<1> SUFFICES ASSUME Init PROVE IInv
  OBVIOUS
<1>1. /\ entry = [state |-> Absent, print |-> Gone, of |-> 0] /\ reads = [w \in Reads |-> Over]
      /\ inFlight = NoRead /\ stated = FALSE /\ caller = [c \in Callers |-> Free]
      /\ watching = FALSE /\ event = FALSE /\ noticed = 0 /\ missed = FALSE
  BY DEF Init
<1>2. PICK v \in [kind : Kinds, print : Prints] :
        /\ file = <<v>> /\ (v.kind = "none" <=> v.print = Gone)
        /\ v.kind # "none" => v.print = 1
  <2> DEFINE none == [kind |-> "none", print |-> Gone]
             good == [kind |-> "good", print |-> 1]
  <2>1. none \in [kind : Kinds, print : Prints] /\ good \in [kind : Kinds, print : Prints]
    BY StoreAssumption DEF Kinds, Prints, Gone
  <2>2. file = <<none>> \/ file = <<good>>
    BY DEF Init
  <2> QED
    BY <2>1, <2>2 DEF Gone
<1>3. /\ Now = 1 /\ Len(file) = 1 /\ file[1] = v /\ file \in Seq([kind : Kinds, print : Prints])
      /\ Prints \subseteq Nat /\ 0 \in Prints /\ Gone = 0
  BY <1>2, StoreAssumption DEF Now, Prints, Gone
<1>4. Absent \in States /\ Absent.status = "absent"
  BY <1>3 DEF Absent, States
<1>5. Over \in Read /\ Over.phase = "over"
  BY <1>3 DEF Over, Read
<1>6. Free \in Caller /\ Free.pc = "idle"
  BY <1>3, <1>4 DEF Free, Caller
<1>7. entry \in Entry /\ entry.of = 0 /\ entry.state = Absent
  BY <1>1, <1>3, <1>4 DEF Entry
<1>8. /\ reads \in [Reads -> Read] /\ \A w \in Reads : reads[w].phase = "over"
  BY <1>1, <1>5
<1>9. caller \in [Callers -> Caller] /\ \A c \in Callers : caller[c].pc = "idle"
  BY <1>1, <1>6
<1>10. TypeOK
  <2>1. Now \in 1..MaxEdits
    BY <1>3, StoreAssumption
  <2>2. inFlight = NoRead <=> \A w \in Reads : reads[w].phase = "over"
    BY <1>1, <1>8
  <2>3. watching \in BOOLEAN /\ event \in BOOLEAN /\ noticed \in Prints /\ missed \in BOOLEAN
    BY <1>1, <1>3
  <2> QED
    BY <1>1, <1>3, <1>7, <1>8, <1>9, <2>1, <2>2, <2>3 DEF TypeOK
<1>11. FileOK
  BY <1>2, <1>3 DEF FileOK
<1>12. EntryFits(file, entry)
  BY <1>3, <1>4, <1>7 DEF EntryFits
<1>13. Turns
  <2>1. InTurn([w \in Reads |-> 0])
    BY <1>8 DEF InTurn, Running, Live
  <2> QED
    BY <2>1 DEF Turns
<1>14. StatedOK /\ (\A w \in Reads : ReadOK(w)) /\ \A c \in Callers : CallerOK(c)
  BY <1>1, <1>8, <1>9 DEF StatedOK, ReadOK, CallerOK
<1> QED
  BY <1>10, <1>11, <1>12, <1>13, <1>14 DEF IInv

\* Every step keeps the invariant.
LEMMA StoreStep == IInv /\ [Next]_vars => IInv'
<1> SUFFICES ASSUME IInv, [Next]_vars PROVE IInv'
  OBVIOUS
<1>1. ASSUME NEW c \in Callers, Ask(c) PROVE IInv'
  BY <1>1, AskStep
<1>2. ASSUME NEW c \in Callers, Leave(c) PROVE IInv'
  BY <1>2, LeaveStep
<1>3. CASE HandleEvent
  BY <1>3, HandleStep
<1>4. ASSUME NEW w \in Reads, Reading(w) PROVE IInv'
  <2>1. CASE Look(w) \/ FindChanged(w) \/ ReadText(w)
    BY <2>1, ReadStep
  <2>2. CASE FindGone(w)
    BY <2>2, GoneStep
  <2>3. CASE FindUnchanged(w)
    BY <2>3, UnchangedStep
  <2>4. CASE Parse(w)
    BY <2>4, ParseStep
  <2> QED
    BY <1>4, <2>1, <2>2, <2>3, <2>4 DEF Reading
<1>5. ASSUME NEW kind \in Kinds, Edit(kind) PROVE IInv'
  BY <1>5, EditStep
<1>6. CASE WatcherFails \/ UNCHANGED vars
  <2>1. UNCHANGED <<file, entry, reads, inFlight, stated>> /\ caller' = caller /\ TypeOK' /\ Now' = Now
    BY <1>6 DEF WatcherFails, vars, IInv, TypeOK, Now
  <2>2. ASSUME NEW c \in Callers PROVE CallerOK(c)'
    BY <2>1 DEF IInv, CallerOK, Live, Says
  <2> QED
    BY <2>1, <2>2, SameReads DEF IInv
<1> QED
  BY <1>1, <1>2, <1>3, <1>4, <1>5, <1>6 DEF Next

\* The invariant holds of every behaviour.
LEMMA Invariant == Spec => []IInv
<1> QED
  BY Begins, StoreStep, PTL DEF Spec

-----------------------------------------------------------------------------
(***************************************************************************)
(* The theorems                                                            *)
(***************************************************************************)
\* resolve, #refresh and the watcher keep every value in its type; inFlight is
\* null exactly when no refresh is under way.
THEOREM StoreIsTyped == Spec => []TypeOK
<1>1. IInv => TypeOK
  BY DEF IInv
<1> QED
  BY <1>1, Invariant, PTL

\* Where every rewrite changes the file's fingerprint, what resolve answers is
\* of the file as it was at some moment since the call, unless the call joined
\* a read in the instant between its stat and the continuation.
THEOREM Fresh == ~SameTick => (Spec => []AnswersAreOfNow)
<1> SUFFICES ASSUME ~SameTick PROVE Spec => []AnswersAreOfNow
  OBVIOUS
<1>1. IInv => AnswersAreOfNow
  BY TellsIsSays DEF IInv, CallerOK, AnswersAreOfNow
<1> QED
  BY <1>1, Invariant, PTL

\* What an answer says of the version it is of is so, also where a rewrite may
\* keep the fingerprint.
AnswersSpeakTrue ==
  \A c \in Callers : caller[c].pc = "answered" /\ ~caller[c].late =>
    caller[c].of \in 1..Now /\ Tells(caller[c].got, caller[c].of)

\* An answer of resolve is of one version of channel.toml, and right about it.
THEOREM SpeakTrue == Spec => []AnswersSpeakTrue
<1>1. IInv => AnswersSpeakTrue
  BY TellsIsSays DEF IInv, CallerOK, AnswersSpeakTrue
<1> QED
  BY <1>1, Invariant, PTL

\* The fingerprint #refresh caches is the one stat'ed before the read, so while
\* the file has it the cached state is of the file.
THEOREM Keyed == ~SameTick => (Spec => []CacheIsKeyed)
<1> SUFFICES ASSUME ~SameTick PROVE Spec => []CacheIsKeyed
  OBVIOUS
<1>1. ASSUME IInv PROVE CacheIsKeyed
  <2> SUFFICES ASSUME entry.state.status # "absent", entry.print = file[Now].print
               PROVE  Tells(entry.state, Now)
    BY DEF CacheIsKeyed
  <2>1. /\ FileOK /\ EntryFits(file, entry) /\ entry.of \in Nat /\ entry.of <= Now
        /\ Now \in Nat /\ Now \in 1..Now /\ entry.print # Gone
    BY <1>1, Basics DEF IInv, TypeOK, Entry, EntryFits, Now
  <2>2. PICK a \in 1..entry.of : entry.print = file[a].print
    BY <2>1 DEF EntryFits
  <2>3. a \in 1..Now
    BY <2>1, <2>2
  <2>4. file[a].print = a /\ file[Now].print = Now
    BY <2>1, <2>2, <2>3 DEF FileOK
  <2>5. entry.of = Now /\ entry.of # 0
    <3>1. a = Now /\ a \in 1..entry.of
      BY <2>2, <2>4
    <3> QED
      BY <2>1, <3>1
  <2> QED
    BY <2>1, <2>5, TellsIsSays DEF EntryFits
<1> QED
  BY <1>1, Invariant, PTL

\* No refresh disables a sheet in force because it stopped parsing, or brings
\* an older one back.
THEOREM Forward == Spec => SheetsGoForward
<1>1. ASSUME IInv, Next, entry.state.status = "active"
      PROVE  \/ entry'.state.status = "absent"
             \/ entry'.state.status = "active" /\ entry'.state.sheet >= entry.state.sheet
  <2>n. entry.state.sheet \in Nat
    BY <1>1, Basics DEF IInv, TypeOK, Entry, States
  <2>1. CASE entry' = entry
    BY <1>1, <2>n, <2>1
  <2>2. ASSUME NEW w \in Reads, FindGone(w) PROVE entry'.state.status = "absent"
    <3>1. entry' = [state |-> Absent, print |-> Gone, of |-> reads[w].at]
      BY <2>2 DEF FindGone, Finish
    <3> QED
      BY <3>1 DEF Absent
  <2>3. ASSUME NEW w \in Reads, FindUnchanged(w) PROVE entry' = entry
    BY <2>3 DEF FindUnchanged, Finish
  <2>4. ASSUME NEW w \in Reads, Parse(w)
        PROVE  \/ entry'.state.status = "absent"
               \/ entry'.state.status = "active" /\ entry'.state.sheet >= entry.state.sheet
    <3>1. PICK new \in Entry :
            /\ Finish(w, new)
            /\ \/ new.state.status = "absent"
               \/ new.state.status = "active" /\ new.state.sheet >= entry.state.sheet
      BY <1>1, <2>4, Parsed
    <3>2. entry' = new
      BY <3>1 DEF Finish
    <3> QED
      BY <3>1, <3>2
  <2>5. ASSUME NEW w \in Reads, Look(w) \/ FindChanged(w) \/ ReadText(w) PROVE entry' = entry
    BY <2>5 DEF Look, FindChanged, ReadText
  <2>6. ASSUME \/ \E c \in Callers : Ask(c) \/ Leave(c)
               \/ HandleEvent \/ WatcherFails
               \/ \E kind \in Kinds : Edit(kind)
        PROVE  entry' = entry
    BY <2>6 DEF Ask, Leave, HandleEvent, WatcherFails, Edit
  <2> QED
    BY <1>1, <2>1, <2>2, <2>3, <2>4, <2>5, <2>6 DEF Next, Reading
<1>2. ASSUME IInv, [Next]_vars
      PROVE  [entry.state.status = "active" =>
                \/ entry'.state.status = "absent"
                \/ entry'.state.status = "active" /\ entry'.state.sheet >= entry.state.sheet]_vars
  BY <1>1, <1>2
<1>3. Spec => [][Next]_vars
  BY PTL DEF Spec
<1> QED
  BY <1>2, <1>3, Invariant, PTL DEF SheetsGoForward

\* Where a refresh is under way, one is at the file: of those that are not over
\* the first in turn waits for none.
LEMMA OneIsAtTheFile ==
  ASSUME IInv, NEW u \in Reads, Live(u)
  PROVE  \E w \in Reads : Running(w)
<1>1. PICK r \in [Reads -> Nat] : InTurn(r)
  BY DEF IInv, Turns
<1> DEFINE S == {r[v] : v \in {x \in Reads : Live(x)}}
<1>2. S \in SUBSET Nat /\ S # {}
  BY <1>1
<1>3. PICK least \in S : \A y \in S : ~(<<y, least>> \in OpToRel(<, Nat))
  BY <1>2, NatLessThanWellFounded, WFMin
<1>4. PICK w \in Reads : Live(w) /\ r[w] = least
  BY <1>3
<1>5. reads[w].phase # "queued"
  <2> SUFFICES ASSUME reads[w].phase = "queued" PROVE FALSE
    OBVIOUS
  <2>1. reads[w].behind \in Reads /\ Live(reads[w].behind) /\ r[w] = r[reads[w].behind] + 1
    BY <1>1, <1>4 DEF InTurn
  <2>2. r[reads[w].behind] \in S /\ r[reads[w].behind] \in Nat /\ r[reads[w].behind] < least
    BY <1>1, <1>4, <2>1
  <2> QED
    BY <1>2, <1>3, <2>2 DEF OpToRel
<1>6. reads[w] \in Read
  BY DEF IInv, TypeOK
<1> QED
  BY <1>4, <1>5, <1>6 DEF Live, Running, Read

\* Whoever waits for an answer waits for a refresh that is under way, and one
\* is then at the file (the chain of refreshes behind inFlight).
THEOREM WaitersWaitForSomething == Spec => []WaitersAreServed
<1>1. ASSUME IInv PROVE WaitersAreServed
  <2> SUFFICES ASSUME NEW c \in Callers, caller[c].pc = "waiting"
               PROVE  /\ reads[caller[c].on].phase # "over"
                      /\ \E w \in Reads : reads[w].phase \notin {"over", "queued"}
    BY DEF WaitersAreServed
  <2>1. caller[c].on \in Reads /\ Live(caller[c].on)
    BY <1>1 DEF IInv, CallerOK
  <2>2. PICK w \in Reads : Running(w)
    BY <1>1, <2>1, OneIsAtTheFile
  <2> QED
    BY <2>1, <2>2 DEF Live, Running
<1> QED
  BY <1>1, Invariant, PTL
=============================================================================
