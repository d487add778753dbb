----------------------------- MODULE AgentProofs -----------------------------
(***************************************************************************)
(* Proofs of the safety properties of the agent's server: of AmbientClock  *)
(* for any channels, tickets, rules and periods, of RuleClock for any rule *)
(* in any zone, and of HeldCallCard for any clicks and any ticket.         *)
(*                                                                         *)
(* The clock's invariant counts the posts of a ticket against the firings  *)
(* that were cut off (Told), keeps the scan's order, in which no channel's *)
(* work is overwritten (InOrder), dates a heartbeat's due time and its     *)
(* last post against the start of the process (BeatOK), and says that what *)
(* a rule is due for next lies ahead of all it was fired for (RuleOK).     *)
(* A check that waits for the mutex is still wanted (StillWanted) as long  *)
(* as none is called off once its row was read.                            *)
(*                                                                         *)
(* The rule clock's says that what is due is the earliest firing owed, and *)
(* that nothing is due only while none is within the days last searched    *)
(* (DueOK); it rests on the arithmetic of days (Calendar) and on the order *)
(* of readings being that of the instants they resolve to (KeepsOrder).    *)
(*                                                                         *)
(* The card's follows a verdict from the proxy to the card: an answer on   *)
(* its way back is what the ticket was settled with (Answered), so is the  *)
(* wait's end (Settled), the re-submission says what became of the ticket  *)
(* (Served), the card was painted only with what the wait's end allows     *)
(* and, after the first repaint, once (Written), and the faces that speak  *)
(* of the call were painted by its answer (Painted).  The first repaint is *)
(* answered before the re-submission begins (Turns).  With it go what a    *)
(* held task waits for (Goes) and, as long as no wait expires under a      *)
(* click, that an expired one leaves nothing in hand (Undecided).          *)
(***************************************************************************)
EXTENDS AmbientClock, RuleClock, HeldCallCard, FiniteSetTheorems, WellFoundedInduction, TLAPS

-----------------------------------------------------------------------------
(***************************************************************************)
(* The clock's inductive invariant                                         *)
(***************************************************************************)
Asked  == {"posting", "posted", "unposted"}
Spoken == {"posted", "over_budget", "failed"}

\* Of a ticket t with this row, k being the work of its channel: beyond the
\* firings cut off, one that speaks now or has, and no other.
ToldBy(t, row, k, posts, cut) ==
  LET held  == k.kind = "check" /\ k.of = t
      spoke == held /\ k.say # "silent" /\ k.stage \in Asked
  IN  /\ row \in Spoken \/ spoke => posts > 0
      /\ posts <= cut + IF spoke \/ (~held /\ row \in Spoken \cup {"cancelled"}) THEN 1 ELSE 0
      /\ held => row \in {"waiting", "cancelled"}

Told(t) == ToldBy(t, ticket[t], job[InChannel[t]], past.posts[t], past.cut[t])

\* A channel c may have k for its work.
Fits(c, k) ==
  /\ k.kind = "none" <=> k.stage = "none"
  /\ k.kind = "none" => k = NoJob
  /\ k.kind = "check" => k.of \in Tickets /\ InChannel[k.of] = c
  /\ k.kind = "check" /\ k.say = "silent" => k.stage = "unposted"
  /\ k.kind = "check" /\ k.stage \in Asked => k.say \in Outcomes
  /\ k.kind \in {"rule", "beat"} => k.of \in Nat
  /\ k.say = "notice" => c \in Proposed

\* Checks, then rules, then heartbeats: what is taken finds no work there.
InOrder ==
  \A c \in Channels :
    /\ scan.checks # {} => job[c].kind \in {"none", "check"}
    /\ c \in scan.checks => job[c].kind = "none"
    /\ scan.rules[c] # None => job[c].kind \in {"none", "check"}
    /\ c \in scan.beats => job[c].kind # "beat"

Downed == process = "down" =>
  /\ memory = Blank /\ scan.checks = {} /\ scan.beats = {}
  /\ \A c \in Channels : scan.rules[c] = None /\ job[c] = NoJob

BeatOK(c) ==
  /\ past.beat[c] <= now
  /\ memory.post[c] # None => past.beat[c] = memory.post[c]
  /\ process # "down" /\ memory.post[c] = None => past.beat[c] <= past.started
  /\ memory.beat[c] # None => memory.beat[c] >= past.started + Cadence
  /\ c \in scan.beats \/ job[c].kind = "beat" => now >= past.started + Cadence

\* Occurrence i of c's rule is after the start, and after all it was fired for.
LiesAhead(c, i) == i > past.started /\ \A f \in past.fired[c] : i > f

RuleOK(c) ==
  /\ \A f \in past.fired[c] : f <= now
  /\ scan.rules[c] # None => scan.rules[c] <= now /\ LiesAhead(c, scan.rules[c])
  /\ job[c].kind = "rule" => job[c].of <= now
  /\ job[c].kind = "rule" /\ job[c].stage = "queued" => LiesAhead(c, job[c].of)
  /\ memory.rule[c] # None => LiesAhead(c, memory.rule[c]) /\ memory.rule[c] > scan.rules[c]
  /\ memory.rule[c] # None /\ job[c].kind = "rule" => memory.rule[c] > job[c].of

ClockInv ==
  /\ ClockTypeOK /\ now > 0 /\ past.started <= now
  /\ \A t \in Tickets : Told(t)
  /\ \A c \in Channels : Fits(c, job[c]) /\ BeatOK(c) /\ RuleOK(c)
  /\ InOrder /\ Downed

-----------------------------------------------------------------------------
(***************************************************************************)
(* The types                                                               *)
(***************************************************************************)
Past == [posts : [Tickets -> Nat], cut : [Tickets -> Nat],
         fired : [Channels -> SUBSET Nat], beat : [Channels -> Nat], started : Nat]

\* What the constants are.
LEMMA Constants ==
  /\ Cadence \in Nat /\ Cadence > 0 /\ Window \in Nat /\ Window > 0 /\ Rescan \in Nat
  /\ \A t \in Tickets : InChannel[t] \in Channels /\ DueAt[t] \in Nat
  /\ \A c \in Channels : InstantsOf(c) \subseteq Nat
  /\ MaxMishaps \in Nat /\ None = 0
BY AmbientAssumption DEF None, InstantsOf

\* The history has a field for each thing that is written to it.
LEMMA PastMoves ==
  ASSUME NEW p \in Past
  PROVE  /\ \A t \in Tickets :
              LET q == [p EXCEPT !.posts[t] = @ + 1]
              IN  /\ q \in Past /\ q.posts = [p.posts EXCEPT ![t] = @ + 1]
                  /\ q.cut = p.cut /\ q.fired = p.fired /\ q.beat = p.beat /\ q.started = p.started
         /\ \A t \in Tickets :
              LET q == [p EXCEPT !.cut[t] = @ + 1]
              IN  /\ q \in Past /\ q.cut = [p.cut EXCEPT ![t] = @ + 1]
                  /\ q.posts = p.posts /\ q.fired = p.fired /\ q.beat = p.beat /\ q.started = p.started
         /\ \A c \in Channels, n \in Nat :
              LET q == [p EXCEPT !.fired[c] = @ \cup {n}]
              IN  /\ q \in Past /\ q.fired = [p.fired EXCEPT ![c] = @ \cup {n}]
                  /\ q.posts = p.posts /\ q.cut = p.cut /\ q.beat = p.beat /\ q.started = p.started
         /\ \A c \in Channels, n \in Nat :
              LET q == [p EXCEPT !.beat[c] = n]
              IN  /\ q \in Past /\ q.beat = [p.beat EXCEPT ![c] = n]
                  /\ q.posts = p.posts /\ q.cut = p.cut /\ q.fired = p.fired /\ q.started = p.started
<1>1. /\ p.posts \in [Tickets -> Nat] /\ p.cut \in [Tickets -> Nat]
      /\ p.fired \in [Channels -> SUBSET Nat] /\ p.beat \in [Channels -> Nat]
  BY DEF Past
<1>2. ASSUME NEW t \in Tickets
      PROVE  LET q == [p EXCEPT !.posts[t] = @ + 1]
             IN  /\ q \in Past /\ q.posts = [p.posts EXCEPT ![t] = @ + 1]
                 /\ q.cut = p.cut /\ q.fired = p.fired /\ q.beat = p.beat /\ q.started = p.started
  <2>1. [p.posts EXCEPT ![t] = @ + 1] \in [Tickets -> Nat]
    BY <1>1
  <2> QED
    BY <2>1 DEF Past
<1>3. ASSUME NEW t \in Tickets
      PROVE  LET q == [p EXCEPT !.cut[t] = @ + 1]
             IN  /\ q \in Past /\ q.cut = [p.cut EXCEPT ![t] = @ + 1]
                 /\ q.posts = p.posts /\ q.fired = p.fired /\ q.beat = p.beat /\ q.started = p.started
  <2>1. [p.cut EXCEPT ![t] = @ + 1] \in [Tickets -> Nat]
    BY <1>1
  <2> QED
    BY <2>1 DEF Past
<1>4. ASSUME NEW c \in Channels, NEW n \in Nat
      PROVE  LET q == [p EXCEPT !.fired[c] = @ \cup {n}]
             IN  /\ q \in Past /\ q.fired = [p.fired EXCEPT ![c] = @ \cup {n}]
                 /\ q.posts = p.posts /\ q.cut = p.cut /\ q.beat = p.beat /\ q.started = p.started
  <2>1. [p.fired EXCEPT ![c] = @ \cup {n}] \in [Channels -> SUBSET Nat]
    BY <1>1
  <2> QED
    BY <2>1 DEF Past
<1>5. ASSUME NEW c \in Channels, NEW n \in Nat
      PROVE  LET q == [p EXCEPT !.beat[c] = n]
             IN  /\ q \in Past /\ q.beat = [p.beat EXCEPT ![c] = n]
                 /\ q.posts = p.posts /\ q.cut = p.cut /\ q.fired = p.fired /\ q.started = p.started
  <2>1. [p.beat EXCEPT ![c] = n] \in [Channels -> Nat]
    BY <1>1
  <2> QED
    BY <2>1 DEF Past
<1> QED
  BY <1>2, <1>3, <1>4, <1>5

\* A set of instants that is not empty has an earliest.
LEMMA EarliestIs ==
  ASSUME NEW S \in SUBSET Nat, S # {}
  PROVE  Min(S) \in S /\ \A y \in S : Min(S) <= y
<1>1. PICK x \in S : \A y \in S : ~(<<y, x>> \in OpToRel(<, Nat))
  BY NatLessThanWellFounded, WFMin
<1>2. ASSUME NEW y \in S PROVE x <= y
  <2>1. x \in Nat /\ y \in Nat /\ ~(<<y, x>> \in OpToRel(<, Nat))
    BY <1>1
  <2>2. ~(y < x)
    BY <2>1 DEF OpToRel
  <2>3. x \in Nat /\ y \in Nat
    OBVIOUS
  <2> QED
    BY <2>2, <2>3
<1> QED
  BY <1>2 DEF Min

\* The next occurrence of a rule is one that is ahead.
LEMMA NextIsAhead ==
  ASSUME NEW c \in Channels, NEW at \in Nat
  PROVE  /\ occurrenceAfter(c, at) \in Nat
         /\ occurrenceAfter(c, at) # None => occurrenceAfter(c, at) > at
<1>1. After(c, at) \in SUBSET Nat /\ \A i \in After(c, at) : i > at
  BY Constants DEF After
<1>2. CASE After(c, at) = {}
  BY <1>2 DEF occurrenceAfter, None
<1>3. CASE After(c, at) # {}
  <2>1. Min(After(c, at)) \in After(c, at)
    BY <1>1, <1>3, EarliestIs
  <2> QED
    BY <1>1, <1>3, <2>1 DEF occurrenceAfter
<1> QED
  BY <1>2, <1>3

\* What is in a piece of work, in what the process remembers and in a scan.
LEMMA Fields ==
  ASSUME ClockTypeOK
  PROVE  /\ \A c \in Channels : job[c] \in Job /\ said[c] \in Nat
         /\ /\ memory.beat \in [Channels -> Nat] /\ memory.rule \in [Channels -> Nat]
            /\ memory.post \in [Channels -> Nat] /\ memory.weighed \in [Channels -> Nat]
         /\ scan.at \in Nat /\ scan.checks \subseteq Channels /\ scan.beats \subseteq Channels
         /\ scan.rules \in [Channels -> Nat]
         /\ past \in Past
         /\ /\ past.posts \in [Tickets -> Nat] /\ past.cut \in [Tickets -> Nat]
            /\ past.fired \in [Channels -> SUBSET Nat] /\ past.beat \in [Channels -> Nat]
            /\ past.started \in Nat
<1>1. past \in Past
  BY DEF ClockTypeOK, Past
<1> QED
  BY <1>1 DEF ClockTypeOK, Memory, Scan, Past

\* No work is work.
LEMMA NoWork ==
  /\ NoJob \in Job /\ NoJob.kind = "none" /\ NoJob.stage = "none" /\ NoJob.of = 0
  /\ NoJob.say = "none" /\ \A c \in Channels : Fits(c, NoJob)
BY DEF NoJob, Job, None, Fits, Asked

\* The work of one channel changes.
LEMMA OneJob ==
  ASSUME ClockTypeOK, NEW c \in Channels, NEW k \in Job, job' = [job EXCEPT ![c] = k]
  PROVE  /\ job' \in [Channels -> Job] /\ job'[c] = k
         /\ \A d \in Channels : d # c => job'[d] = job[d]
BY DEF ClockTypeOK

-----------------------------------------------------------------------------
(***************************************************************************)
(* A step of the work in one channel                                       *)
(***************************************************************************)
\* What a ticket was told of does not change with the work of other tickets.
LEMMA ToldElsewhere ==
  ASSUME NEW t, NEW row, NEW k, NEW k2, NEW posts, NEW cut, ToldBy(t, row, k, posts, cut),
         ~(k.kind = "check" /\ k.of = t), ~(k2.kind = "check" /\ k2.of = t)
  PROVE  ToldBy(t, row, k2, posts, cut)
BY DEF ToldBy

\* Work that has not spoken may end or go on with the row as it was.
LEMMA ToldUnsaid ==
  ASSUME NEW t, NEW row, NEW k, NEW k2, NEW posts \in Nat, NEW cut \in Nat,
         ToldBy(t, row, k, posts, cut), row \in {"waiting", "cancelled"},
         k.kind = "check" /\ k.of = t /\ k.say # "silent" => k.stage \notin Asked,
         k2.kind = "check" /\ k2.of = t /\ k2.say # "silent" => k2.stage \notin Asked,
         row = "cancelled" => (k.kind = "check" /\ k.of = t)
  PROVE  ToldBy(t, row, k2, posts, cut)
BY DEF ToldBy, Spoken

\* The tickets of other channels are told of what they were.
LEMMA OthersTold ==
  ASSUME ClockInv, NEW c \in Channels, NEW k \in Job, job' = [job EXCEPT ![c] = k],
         NEW t \in Tickets, InChannel[t] # c \/ ~((job[c].kind = "check" /\ job[c].of = t) \/ (k.kind = "check" /\ k.of = t)),
         ticket'[t] = ticket[t], past'.posts[t] = past.posts[t], past'.cut[t] = past.cut[t]
  PROVE  Told(t)'
<1>1. InChannel[t] \in Channels /\ Told(t)
  BY Constants DEF ClockInv
<1>2. job'[c] = k /\ \A d \in Channels : d # c => job'[d] = job[d]
  BY OneJob DEF ClockInv
<1>3. CASE InChannel[t] # c
  BY <1>1, <1>2, <1>3 DEF Told
<1>4. CASE InChannel[t] = c
  <2>1. ~(job[c].kind = "check" /\ job[c].of = t) /\ ~(k.kind = "check" /\ k.of = t)
    BY <1>4
  <2>2. ToldBy(t, ticket[t], job[c], past.posts[t], past.cut[t])
    BY <1>1, <1>4 DEF Told
  <2>3. ToldBy(t, ticket[t], k, past.posts[t], past.cut[t])
    BY <2>1, <2>2, ToldElsewhere
  <2> QED
    BY <1>2, <1>4, <2>3 DEF Told
<1> QED
  BY <1>3, <1>4

\* Work that was begun in c goes on to k, or ends.
GoesOn(c, k) ==
  /\ job' = [job EXCEPT ![c] = k]
  /\ job[c].stage # "none" /\ k.stage # "queued"
  /\ Fits(c, k) /\ k.kind \in {"none", job[c].kind} /\ (k.kind = "rule" => k.of = job[c].of)
  /\ now' = now /\ process' = process /\ scan' = scan /\ past'.started = past.started
  /\ memory'.beat = memory.beat /\ memory'.rule = memory.rule
  /\ \A d \in Channels :
       \/ past'.beat[d] = past.beat[d] /\ memory'.post[d] = memory.post[d]
       \/ past'.beat[d] = now /\ memory'.post[d] = now
  /\ \A d \in Channels :
       \/ past'.fired[d] = past.fired[d]
       \/ /\ d = c /\ job[c].kind = "rule"
          /\ past'.fired[d] = past.fired[d] \cup {job[c].of}

\* It leaves the order and the dates as they should be.
LEMMA Onward ==
  ASSUME ClockInv, NEW c \in Channels, NEW k \in Job, GoesOn(c, k)
  PROVE  /\ \A d \in Channels : (Fits(d, job[d]) /\ BeatOK(d) /\ RuleOK(d))'
         /\ InOrder' /\ Downed' /\ (now > 0 /\ past.started <= now)'
<1>1. ClockTypeOK /\ now \in Nat /\ now > 0 /\ past.started <= now /\ InOrder /\ Downed
  BY DEF ClockInv, ClockTypeOK
<1>2. job'[c] = k /\ \A d \in Channels : d # c => job'[d] = job[d]
  BY <1>1, OneJob DEF GoesOn
<1>g. /\ job[c].stage # "none" /\ k.stage # "queued"
      /\ Fits(c, k) /\ k.kind \in {"none", job[c].kind} /\ (k.kind = "rule" => k.of = job[c].of)
      /\ now' = now /\ process' = process /\ scan' = scan /\ past'.started = past.started
      /\ memory'.beat = memory.beat /\ memory'.rule = memory.rule
  BY DEF GoesOn
<1>3. job[c].kind # "none" /\ job[c] # NoJob
  BY <1>g, NoWork DEF ClockInv, Fits
<1>4. process # "down"
  BY <1>1, <1>3 DEF Downed
<1>5. \A d \in Channels : k.kind \in {"none", job[c].kind} /\ job'[d].kind \in {"none", job[d].kind}
  BY <1>2, <1>g
<1>6. InOrder'
  BY <1>1, <1>5, <1>g DEF InOrder
<1>7. Downed'
  BY <1>4, <1>g DEF Downed
<1>8. ASSUME NEW d \in Channels PROVE Fits(d, job[d])'
  <2>1. Fits(d, job'[d])
    BY <1>2, <1>g DEF ClockInv
  <2> QED
    BY <2>1 DEF Fits, NoJob, Asked, Outcomes, None
<1>9. ASSUME NEW d \in Channels PROVE BeatOK(d)'
  <2>1. BeatOK(d)
    BY DEF ClockInv
  <2>2. /\ past.beat[d] \in Nat /\ memory.post[d] \in Nat /\ memory.beat[d] \in Nat
        /\ past.started \in Nat /\ Cadence \in Nat /\ None = 0
    BY <1>1, Fields, Constants
  <2>3. c \in scan.beats \/ job[c].kind = "beat" => now >= past.started + Cadence
    BY DEF ClockInv, BeatOK
  <2>4. job'[d].kind = "beat" => job[d].kind = "beat"
    BY <1>5
  <2>5. CASE past'.beat[d] = past.beat[d] /\ memory'.post[d] = memory.post[d]
    BY <1>g, <2>1, <2>2, <2>4, <2>5 DEF BeatOK
  <2>6. CASE past'.beat[d] = now /\ memory'.post[d] = now
    BY <1>1, <1>g, <2>1, <2>2, <2>4, <2>6 DEF BeatOK
  <2> QED
    BY <2>5, <2>6 DEF GoesOn
<1>10. ASSUME NEW d \in Channels PROVE RuleOK(d)'
  <2>1. RuleOK(d)
    BY DEF ClockInv
  <2>2. /\ past.fired[d] \subseteq Nat /\ memory.rule[d] \in Nat /\ scan.rules[d] \in Nat
        /\ past.started \in Nat
    BY <1>1, Fields
  <2>3. job'[d].kind = "rule" => job[d].kind = "rule" /\ job'[d].of = job[d].of
    BY <1>2, <1>5, <1>g
  <2>4. job'[d].kind = "rule" /\ job'[d].stage = "queued" => job[d].stage = "queued" /\ d # c
    BY <1>2, <1>g
  <2>5. CASE past'.fired[d] = past.fired[d]
    BY <1>g, <2>1, <2>2, <2>3, <2>4, <2>5 DEF RuleOK, LiesAhead
  <2>6. CASE d = c /\ job[c].kind = "rule" /\ past'.fired[d] = past.fired[d] \cup {job[c].of}
    <3>1. job[c].of \in Nat /\ job[c].of <= now
      BY <2>1, <2>6 DEF ClockInv, Fits, RuleOK
    <3>2. scan.rules[c] = None
      BY <1>1, <2>6 DEF InOrder
    <3>3. memory.rule[c] # None =>
            memory.rule[c] > job[c].of /\ memory.rule[c] > scan.rules[c] /\ LiesAhead(c, memory.rule[c])
      BY <2>1, <2>6 DEF RuleOK
    <3> QED
      BY <1>g, <2>1, <2>2, <2>3, <2>4, <2>6, <3>1, <3>2, <3>3 DEF RuleOK, LiesAhead
  <2> QED
    BY <2>5, <2>6 DEF GoesOn
<1> QED
  BY <1>1, <1>6, <1>7, <1>8, <1>9, <1>10, <1>g

\* A job that reaches the head of the mutex runs its turn, or has nothing to do.
LEMMA StartStep ==
  ASSUME ClockInv, NEW c \in Channels, Start(c)
  PROVE  ClockInv'
<1> DEFINE k == IF ~On(c) \/ (job[c].kind = "beat" /\ ~(MayPost(c) /\ (Weighable(c) \/ Noticing(c)))) THEN NoJob
                ELSE IF job[c].kind = "beat" THEN [job[c] EXCEPT !.stage = "turn", !.of = said[c]]
                ELSE [job[c] EXCEPT !.stage = "turn"]
<1>1. ClockTypeOK /\ job[c] \in Job /\ said[c] \in Nat /\ past \in Past /\ Fits(c, job[c])
  BY Fields DEF ClockInv
<1>2. job' = [job EXCEPT ![c] = k] /\ job[c].stage = "queued"
  BY DEF Start
<1>3. /\ k \in Job /\ k.kind \in {"none", job[c].kind} /\ k.stage \in {"none", "turn"}
      /\ k.kind = "rule" => k.of = job[c].of
      /\ k.kind = "check" => k.of = job[c].of /\ k.say = job[c].say
      /\ k.stage = "turn" => k.kind = job[c].kind /\ k.say = job[c].say
      /\ k.stage = "none" => k = NoJob
      /\ k.kind = "beat" => k.of \in Nat
  <2>1. [job[c] EXCEPT !.stage = "turn", !.of = said[c]] \in Job /\ [job[c] EXCEPT !.stage = "turn"] \in Job
    BY <1>1 DEF Job
  <2> QED
    BY <1>1, <2>1, NoWork DEF Job
<1> HIDE DEF k
<1>4. job[c].kind # "none" /\ job'[c] = k
  BY <1>1, <1>2, <1>3, OneJob DEF Fits
<1>5. Fits(c, k)
  BY <1>1, <1>2, <1>3, <1>4, NoWork DEF Fits, Asked
<1>6. /\ past' \in Past /\ past'.posts = past.posts /\ past'.cut = past.cut
      /\ past'.beat = past.beat /\ past'.started = past.started
      /\ \A d \in Channels : \/ past'.fired[d] = past.fired[d]
                             \/ /\ d = c /\ job[c].kind = "rule"
                                /\ past'.fired[d] = past.fired[d] \cup {job[c].of}
  <2>1. CASE k.stage = "turn" /\ job[c].kind = "rule"
    <3>1. past' = [past EXCEPT !.fired[c] = @ \cup {job[c].of}]
      BY <1>4, <2>1 DEF Start
    <3>2. job[c].of \in Nat /\ past.fired \in [Channels -> SUBSET Nat]
      BY <1>1, <2>1 DEF Fits, Past
    <3>3. /\ past' \in Past /\ past'.fired = [past.fired EXCEPT ![c] = @ \cup {job[c].of}]
          /\ past'.posts = past.posts /\ past'.cut = past.cut
          /\ past'.beat = past.beat /\ past'.started = past.started
      BY <1>1, <3>1, <3>2, PastMoves
    <3> QED
      BY <2>1, <3>2, <3>3
  <2>2. CASE ~(k.stage = "turn" /\ job[c].kind = "rule")
    BY <1>1, <1>4, <2>2 DEF Start
  <2> QED
    BY <2>1, <2>2
<1>7. ASSUME NEW t \in Tickets PROVE Told(t)'
  <2>1. ticket'[t] = ticket[t] /\ past'.posts[t] = past.posts[t] /\ past'.cut[t] = past.cut[t]
    BY <1>6 DEF Start
  <2>2. CASE InChannel[t] # c \/ ~(job[c].kind = "check" /\ job[c].of = t)
    <3>1. InChannel[t] # c \/ ~((job[c].kind = "check" /\ job[c].of = t) \/ (k.kind = "check" /\ k.of = t))
      BY <1>3, <2>2
    <3> QED
      BY <1>2, <1>3, <2>1, <3>1, OthersTold
  <2>3. CASE InChannel[t] = c /\ job[c].kind = "check" /\ job[c].of = t
    <3>1. ToldBy(t, ticket[t], job[c], past.posts[t], past.cut[t])
      BY <2>3 DEF ClockInv, Told
    <3>2. past.posts[t] \in Nat /\ past.cut[t] \in Nat
      BY <1>1, Fields
    <3>3. ticket[t] \in {"waiting", "cancelled"}
      BY <2>3, <3>1 DEF ToldBy
    <3>4. ToldBy(t, ticket[t], k, past.posts[t], past.cut[t])
      BY <1>2, <1>3, <2>3, <3>1, <3>2, <3>3, ToldUnsaid DEF Asked
    <3> QED
      BY <1>4, <2>1, <2>3, <3>4 DEF Told
  <2> QED
    BY <2>2, <2>3
<1>8. ClockTypeOK'
  <2>1. job' \in [Channels -> Job]
    BY <1>1, <1>2, <1>3, OneJob
  <2> QED
    BY <1>1, <1>6, <2>1 DEF ClockTypeOK, Past, Start
<1>9. /\ now' = now /\ process' = process /\ scan' = scan /\ memory' = memory
      /\ job[c].stage # "none" /\ k.stage # "queued"
  BY <1>2, <1>3 DEF Start
<1>g. GoesOn(c, k)
  BY <1>2, <1>3, <1>5, <1>6, <1>9 DEF GoesOn
<1>10. /\ \A d \in Channels : (Fits(d, job[d]) /\ BeatOK(d) /\ RuleOK(d))'
       /\ InOrder' /\ Downed' /\ (now > 0 /\ past.started <= now)'
  BY <1>3, <1>g, Onward
<1> QED
  BY <1>7, <1>8, <1>10 DEF ClockInv

\* A turn that was cut short leaves the row and the history as they were.
LEMMA AbortStep ==
  ASSUME ClockInv, NEW c \in Channels, AbortTurn(c)
  PROVE  ClockInv'
<1>1. ClockTypeOK /\ job[c] \in Job /\ Fits(c, job[c])
  BY Fields DEF ClockInv
<1>2. job' = [job EXCEPT ![c] = NoJob] /\ job[c].stage = "turn" /\ job'[c] = NoJob
  BY <1>1, NoWork, OneJob DEF AbortTurn
<1>3. /\ memory' \in Memory /\ memory'.beat = memory.beat /\ memory'.rule = memory.rule
      /\ memory'.post = memory.post
  <2>1. CASE UNCHANGED memory
    BY <1>1, <2>1 DEF ClockTypeOK
  <2>2. CASE job[c].kind = "beat" /\ memory' = [memory EXCEPT !.weighed[c] = job[c].of]
    <3>1. job[c].of \in Nat /\ memory \in Memory
      BY <1>1, <2>2 DEF Fits, ClockTypeOK
    <3>2. [memory.weighed EXCEPT ![c] = job[c].of] \in [Channels -> Nat]
      BY <3>1 DEF Memory
    <3> QED
      BY <2>2, <3>1, <3>2 DEF Memory
  <2> QED
    BY <2>1, <2>2 DEF AbortTurn
<1>4. ASSUME NEW t \in Tickets PROVE Told(t)'
  <2>1. ticket'[t] = ticket[t] /\ past'.posts[t] = past.posts[t] /\ past'.cut[t] = past.cut[t]
    BY DEF AbortTurn
  <2>2. CASE InChannel[t] # c \/ ~(job[c].kind = "check" /\ job[c].of = t)
    BY <1>2, <2>1, <2>2, NoWork, OthersTold
  <2>3. CASE InChannel[t] = c /\ job[c].kind = "check" /\ job[c].of = t
    <3>1. ToldBy(t, ticket[t], job[c], past.posts[t], past.cut[t])
      BY <2>3 DEF ClockInv, Told
    <3>2. past.posts[t] \in Nat /\ past.cut[t] \in Nat
      BY <1>1, Fields
    <3>3. ticket[t] \in {"waiting", "cancelled"}
      BY <2>3, <3>1 DEF ToldBy
    <3>4. ToldBy(t, ticket[t], NoJob, past.posts[t], past.cut[t])
      BY <1>2, <2>3, <3>1, <3>2, <3>3, NoWork, ToldUnsaid DEF Asked
    <3> QED
      BY <1>2, <2>1, <2>3, <3>4 DEF Told
  <2> QED
    BY <2>2, <2>3
<1>5. ClockTypeOK'
  BY <1>1, <1>2, <1>3, NoWork, OneJob DEF ClockTypeOK, AbortTurn
<1>6. now' = now /\ process' = process /\ scan' = scan /\ past' = past
  BY DEF AbortTurn
<1>g. GoesOn(c, NoJob)
  BY <1>2, <1>3, <1>6, NoWork DEF GoesOn
<1>7. /\ \A d \in Channels : (Fits(d, job[d]) /\ BeatOK(d) /\ RuleOK(d))'
      /\ InOrder' /\ Downed' /\ (now > 0 /\ past.started <= now)'
  BY <1>g, NoWork, Onward
<1> QED
  BY <1>4, <1>5, <1>7 DEF ClockInv

\* A firing's turn ends in silence, or in a post that is counted.
LEMMA FiredTurnStep ==
  ASSUME ClockInv, NEW c \in Channels, NEW end \in Outcomes, FiredTurnEnds(c, end)
  PROVE  ClockInv'
<1> DEFINE k == [job[c] EXCEPT !.say = end, !.stage = IF end = "silent" THEN "unposted" ELSE "posting"]
           counted == end # "silent" /\ job[c].kind = "check"
<1>1. ClockTypeOK /\ job[c] \in Job /\ past \in Past /\ Fits(c, job[c])
  BY Fields DEF ClockInv
<1>2. /\ job' = [job EXCEPT ![c] = k] /\ job[c].stage = "turn" /\ job[c].kind \in {"check", "rule"}
      /\ now' = now /\ process' = process /\ scan' = scan /\ memory' = memory /\ ticket' = ticket
      /\ past' = IF counted THEN [past EXCEPT !.posts[job[c].of] = @ + 1] ELSE past
  BY <1>1 DEF FiredTurnEnds, ClockTypeOK
<1>3. /\ k \in Job /\ k.kind = job[c].kind /\ k.of = job[c].of /\ k.say = end
      /\ k.stage = IF end = "silent" THEN "unposted" ELSE "posting"
  BY <1>1 DEF Job, Outcomes
<1> HIDE DEF k
<1>4. Fits(c, k)
  BY <1>1, <1>2, <1>3 DEF Fits, Asked, Outcomes
<1>5. counted => job[c].of \in Tickets /\ InChannel[job[c].of] = c
  BY <1>1 DEF Fits
<1>6. /\ past' \in Past /\ past'.cut = past.cut /\ past'.fired = past.fired
      /\ past'.beat = past.beat /\ past'.started = past.started
      /\ ~counted => past'.posts = past.posts
      /\ counted => past'.posts = [past.posts EXCEPT ![job[c].of] = @ + 1]
  BY <1>1, <1>2, <1>5, PastMoves
<1>7. ASSUME NEW t \in Tickets PROVE Told(t)'
  <2>1. past.posts \in [Tickets -> Nat] /\ past.cut \in [Tickets -> Nat]
    BY <1>1, Fields
  <2>2. CASE InChannel[t] # c \/ ~(job[c].kind = "check" /\ job[c].of = t)
    <3>1. past'.posts[t] = past.posts[t] /\ past'.cut[t] = past.cut[t] /\ ticket'[t] = ticket[t]
      BY <1>2, <1>5, <1>6, <2>1, <2>2
    <3>2. InChannel[t] # c \/ ~((job[c].kind = "check" /\ job[c].of = t) \/ (k.kind = "check" /\ k.of = t))
      BY <1>3, <2>2
    <3> QED
      BY <1>2, <1>3, <3>1, <3>2, OthersTold
  <2>3. CASE InChannel[t] = c /\ job[c].kind = "check" /\ job[c].of = t
    <3>1. ToldBy(t, ticket[t], job[c], past.posts[t], past.cut[t])
      BY <2>3 DEF ClockInv, Told
    <3>2. past.posts[t] \in Nat /\ past.cut[t] \in Nat
      BY <2>1
    <3>3. past.posts[t] <= past.cut[t] /\ ticket[t] \in {"waiting", "cancelled"}
      BY <1>2, <2>3, <3>1, <3>2 DEF ToldBy, Asked
    <3>4. past'.posts[t] = past.posts[t] + (IF end = "silent" THEN 0 ELSE 1) /\ past'.cut[t] = past.cut[t]
      BY <1>6, <2>1, <2>3
    <3>5. ToldBy(t, ticket[t], k, past'.posts[t], past'.cut[t])
      BY <1>3, <2>3, <3>2, <3>3, <3>4 DEF ToldBy, Asked, Spoken
    <3>6. job'[c] = k
      BY <1>1, <1>2, <1>3, OneJob
    <3> QED
      BY <1>2, <2>3, <3>5, <3>6 DEF Told
  <2> QED
    BY <2>2, <2>3
<1>8. ClockTypeOK'
  <2>1. job' \in [Channels -> Job]
    BY <1>1, <1>2, <1>3, OneJob
  <2> QED
    BY <1>1, <1>6, <2>1 DEF ClockTypeOK, Past, FiredTurnEnds
<1>9. GoesOn(c, k)
  BY <1>2, <1>3, <1>4, <1>6 DEF GoesOn
<1>10. /\ \A d \in Channels : (Fits(d, job[d]) /\ BeatOK(d) /\ RuleOK(d))'
       /\ InOrder' /\ Downed' /\ (now > 0 /\ past.started <= now)'
  BY <1>3, <1>9, Onward
<1> QED
  BY <1>7, <1>8, <1>10 DEF ClockInv

\* A heartbeat's turn ends, with its one post or without; no ticket is told of it.
LEMMA BeatTurnStep ==
  ASSUME ClockInv, NEW c \in Channels, NEW weighed \in BOOLEAN, NEW finding \in BOOLEAN,
         BeatTurnEnds(c, weighed, finding)
  PROVE  ClockInv'
<1> DEFINE posts == (finding \/ Noticing(c)) /\ MayPost(c)
           asks  == [job[c] EXCEPT !.stage = "posting", !.say = IF Noticing(c) THEN "notice" ELSE "finding"]
           k     == IF posts THEN asks ELSE NoJob
           seen  == [memory EXCEPT !.weighed[c] = IF weighed THEN job[c].of ELSE @]
<1>1. ClockTypeOK /\ job[c] \in Job /\ past \in Past /\ memory \in Memory /\ Fits(c, job[c]) /\ now \in Nat
  BY Fields DEF ClockInv, ClockTypeOK
<1>2. /\ job[c].stage = "turn" /\ job[c].kind = "beat"
      /\ now' = now /\ process' = process /\ scan' = scan /\ ticket' = ticket
      /\ job' = [job EXCEPT ![c] = k]
      /\ memory' = IF posts THEN [seen EXCEPT !.post[c] = now] ELSE seen
      /\ past' = IF posts THEN [past EXCEPT !.beat[c] = now] ELSE past
  BY <1>1 DEF BeatTurnEnds, ClockTypeOK
<1>3. k \in Job /\ k.kind \in {"none", "beat"} /\ k.stage \in {"none", "posting"} /\ Fits(c, k)
  <2>1. asks \in Job /\ asks.kind = "beat" /\ asks.of = job[c].of /\ asks.stage = "posting"
    BY <1>1, <1>2 DEF Job
  <2>2. Fits(c, asks)
    <3>1. asks.say = "notice" => c \in Proposed
      BY <1>1 DEF Noticing, Job
    <3> QED
      BY <1>1, <1>2, <2>1, <3>1 DEF Fits
  <2> QED
    BY <2>1, <2>2, NoWork
<1> HIDE DEF k
<1>4. job[c].of \in Nat
  BY <1>1, <1>2 DEF Fits
<1>5. seen \in Memory /\ seen.beat = memory.beat /\ seen.rule = memory.rule /\ seen.post = memory.post
  <2>1. memory.weighed \in [Channels -> Nat]
    BY <1>1 DEF Memory
  <2>2. [memory.weighed EXCEPT ![c] = IF weighed THEN job[c].of ELSE @] \in [Channels -> Nat]
    BY <1>4, <2>1
  <2> QED
    BY <1>1, <2>2 DEF Memory
<1> HIDE DEF seen
<1>6. /\ memory' \in Memory /\ memory'.beat = memory.beat /\ memory'.rule = memory.rule
      /\ posts => memory'.post = [memory.post EXCEPT ![c] = now]
      /\ ~posts => memory'.post = memory.post
  <2>1. memory.post \in [Channels -> Nat]
    BY <1>1 DEF Memory
  <2>2. [seen.post EXCEPT ![c] = now] \in [Channels -> Nat]
    BY <1>1, <1>5, <2>1
  <2>3. LET w == [seen EXCEPT !.post[c] = now]
        IN  w \in Memory /\ w.beat = seen.beat /\ w.rule = seen.rule /\ w.post = [seen.post EXCEPT ![c] = now]
    BY <1>5, <2>2 DEF Memory
  <2> QED
    BY <1>2, <1>5, <2>3
<1>7. /\ past' \in Past /\ past'.posts = past.posts /\ past'.cut = past.cut
      /\ past'.fired = past.fired /\ past'.started = past.started
      /\ posts => past'.beat = [past.beat EXCEPT ![c] = now]
      /\ ~posts => past'.beat = past.beat
  BY <1>1, <1>2, PastMoves
<1> HIDE DEF posts
<1>8. ASSUME NEW t \in Tickets PROVE Told(t)'
  BY <1>2, <1>3, <1>7, OthersTold
<1>9. ClockTypeOK'
  <2>1. job' \in [Channels -> Job]
    BY <1>1, <1>2, <1>3, OneJob
  <2> QED
    BY <1>1, <1>6, <1>7, <2>1 DEF ClockTypeOK, Past, BeatTurnEnds
<1>10. \A d \in Channels : \/ past'.beat[d] = past.beat[d] /\ memory'.post[d] = memory.post[d]
                           \/ past'.beat[d] = now /\ memory'.post[d] = now
  <2>1. past.beat \in [Channels -> Nat] /\ memory.post \in [Channels -> Nat]
    BY <1>1 DEF Past, Memory
  <2> QED
    BY <1>6, <1>7, <2>1
<1>11. GoesOn(c, k)
  BY <1>2, <1>3, <1>6, <1>7, <1>10 DEF GoesOn
<1>12. /\ \A d \in Channels : (Fits(d, job[d]) /\ BeatOK(d) /\ RuleOK(d))'
       /\ InOrder' /\ Downed' /\ (now > 0 /\ past.started <= now)'
  BY <1>3, <1>11, Onward
<1> QED
  BY <1>8, <1>9, <1>12 DEF ClockInv

\* Slack's answer changes nothing of what was asked of it.
LEMMA LandsStep ==
  ASSUME ClockInv, NEW c \in Channels, NEW stage \in {"posted", "unposted"}, Lands(c, stage)
  PROVE  ClockInv'
<1> DEFINE k == [job[c] EXCEPT !.stage = stage]
<1>1. ClockTypeOK /\ job[c] \in Job /\ Fits(c, job[c])
  BY Fields DEF ClockInv
<1>2. /\ job' = [job EXCEPT ![c] = k] /\ job[c].stage = "posting"
      /\ now' = now /\ process' = process /\ scan' = scan /\ memory' = memory /\ ticket' = ticket
      /\ past' = past
  BY <1>1 DEF Lands, ClockTypeOK
<1>3. k \in Job /\ k.kind = job[c].kind /\ k.of = job[c].of /\ k.say = job[c].say /\ k.stage = stage
  BY <1>1 DEF Job
<1> HIDE DEF k
<1>4. Fits(c, k)
  BY <1>1, <1>2, <1>3 DEF Fits, Asked
<1>5. ASSUME NEW t \in Tickets PROVE Told(t)'
  <2>1. CASE InChannel[t] # c \/ ~(job[c].kind = "check" /\ job[c].of = t)
    <3>1. InChannel[t] # c \/ ~((job[c].kind = "check" /\ job[c].of = t) \/ (k.kind = "check" /\ k.of = t))
      BY <1>3, <2>1
    <3> QED
      BY <1>2, <1>3, <3>1, OthersTold
  <2>2. CASE InChannel[t] = c /\ job[c].kind = "check" /\ job[c].of = t
    <3>1. ToldBy(t, ticket[t], job[c], past.posts[t], past.cut[t])
      BY <2>2 DEF ClockInv, Told
    <3>2. ToldBy(t, ticket[t], k, past.posts[t], past.cut[t])
      BY <1>2, <1>3, <2>2, <3>1 DEF ToldBy, Asked
    <3>3. job'[c] = k
      BY <1>1, <1>2, <1>3, OneJob
    <3> QED
      BY <1>2, <2>2, <3>2, <3>3 DEF Told
  <2> QED
    BY <2>1, <2>2
<1>6. ClockTypeOK'
  <2>1. job' \in [Channels -> Job]
    BY <1>1, <1>2, <1>3, OneJob
  <2> QED
    BY <1>1, <2>1 DEF ClockTypeOK, Lands
<1>7. GoesOn(c, k)
  BY <1>2, <1>3, <1>4 DEF GoesOn
<1>8. /\ \A d \in Channels : (Fits(d, job[d]) /\ BeatOK(d) /\ RuleOK(d))'
      /\ InOrder' /\ Downed' /\ (now > 0 /\ past.started <= now)'
  BY <1>3, <1>7, Onward
<1> QED
  BY <1>5, <1>6, <1>8 DEF ClockInv

\* The mark on the row accounts for what was said, or the firing was cut off.
LEMMA FinishStep ==
  ASSUME ClockInv, NEW c \in Channels, FinishJob(c)
  PROVE  ClockInv'
<1> DEFINE check == job[c].kind = "check"
           t0    == job[c].of
           lost  == Unrecorded(c)
<1>1. /\ ClockTypeOK /\ job[c] \in Job /\ past \in Past /\ Fits(c, job[c]) /\ left \in 0..MaxMishaps
      /\ ticket \in [Tickets -> {"none", "waiting", "cancelled"} \cup Outcomes]
  BY Fields DEF ClockInv, ClockTypeOK
<1>2. /\ job' = [job EXCEPT ![c] = NoJob] /\ job'[c] = NoJob
      /\ job[c].stage \in {"posted", "unposted"}
      /\ now' = now /\ process' = process /\ scan' = scan /\ memory' = memory
  BY <1>1, NoWork, OneJob DEF FinishJob
<1>3. check => t0 \in Tickets /\ InChannel[t0] = c /\ job[c].say \in Outcomes
  BY <1>1, <1>2 DEF Fits, Asked
<1>4. /\ past' \in Past /\ past'.posts = past.posts /\ past'.fired = past.fired
      /\ past'.beat = past.beat /\ past'.started = past.started
      /\ ~(check /\ lost) => past'.cut = past.cut
      /\ check /\ lost => past'.cut = [past.cut EXCEPT ![t0] = @ + 1]
      /\ ticket' = IF check /\ ~lost THEN [ticket EXCEPT ![t0] = IF @ = "waiting" THEN job[c].say ELSE @]
                   ELSE ticket
      /\ left' \in 0..MaxMishaps
  <2>1. CASE lost
    <3>1. past' = IF check THEN [past EXCEPT !.cut[t0] = @ + 1] ELSE past
      BY <2>1 DEF Unrecorded
    <3>2. ticket' = ticket /\ left' = left - 1 /\ left > 0
      BY <2>1 DEF Unrecorded
    <3>3. left' \in 0..MaxMishaps
      BY <1>1, <3>2, Constants
    <3>4. check => /\ past' \in Past /\ past'.cut = [past.cut EXCEPT ![t0] = @ + 1]
                   /\ past'.posts = past.posts /\ past'.fired = past.fired
                   /\ past'.beat = past.beat /\ past'.started = past.started
      BY <1>1, <1>3, <3>1, PastMoves
    <3>5. ~check => past' = past
      BY <3>1
    <3> HIDE DEF check, lost, t0
    <3> QED
      BY <1>1, <2>1, <3>2, <3>3, <3>4, <3>5
  <2>2. CASE ~lost
    <3>1. Recorded(c) /\ past' = past /\ left' = left
      BY <2>2 DEF FinishJob
    <3>2. ticket' = IF check THEN [ticket EXCEPT ![t0] = IF @ = "waiting" THEN job[c].say ELSE @] ELSE ticket
      BY <3>1 DEF Recorded, Marked
    <3> HIDE DEF check, lost, t0
    <3> QED
      BY <1>1, <2>2, <3>1, <3>2
  <2> QED
    BY <2>1, <2>2
<1>5. noticed' \subseteq Proposed
  <2>1. Unrecorded(c) => noticed' = noticed
    BY DEF Unrecorded
  <2>2. Recorded(c) => noticed' = noticed \/ (c \in Proposed /\ noticed' = noticed \cup {c})
    BY <1>1 DEF Recorded, Fits
  <2> QED
    BY <1>1, <2>1, <2>2 DEF FinishJob, ClockTypeOK
<1> HIDE DEF check, lost, t0
<1>6. ASSUME NEW t \in Tickets PROVE Told(t)'
  <2>1. past.posts \in [Tickets -> Nat] /\ past.cut \in [Tickets -> Nat]
    BY <1>1, Fields
  <2>2. CASE InChannel[t] # c \/ ~(check /\ t0 = t)
    <3>1. past'.posts[t] = past.posts[t] /\ past'.cut[t] = past.cut[t] /\ ticket'[t] = ticket[t]
      BY <1>1, <1>3, <1>4, <2>1, <2>2
    <3> QED
      BY <1>2, <2>2, <3>1, NoWork, OthersTold DEF check, t0
  <2>3. CASE InChannel[t] = c /\ check /\ t0 = t
    <3>1. ToldBy(t, ticket[t], job[c], past.posts[t], past.cut[t])
      BY <2>3 DEF ClockInv, Told
    <3>2. /\ past.posts[t] \in Nat /\ past.cut[t] \in Nat
          /\ job[c].kind = "check" /\ job[c].of = t /\ job[c].say \in Outcomes
      BY <1>3, <2>1, <2>3 DEF check, t0
    <3>3. /\ ticket[t] \in {"waiting", "cancelled"}
          /\ job[c].say = "silent" => past.posts[t] <= past.cut[t]
          /\ job[c].say # "silent" => past.posts[t] > 0 /\ past.posts[t] <= past.cut[t] + 1
      BY <1>2, <3>1, <3>2 DEF ToldBy, Asked
    <3>4. CASE lost
      <4>1. past'.posts[t] = past.posts[t] /\ past'.cut[t] = past.cut[t] + 1 /\ ticket'[t] = ticket[t]
        BY <1>4, <2>1, <2>3, <3>4
      <4>2. ToldBy(t, ticket'[t], NoJob, past'.posts[t], past'.cut[t])
        BY <3>2, <3>3, <4>1, NoWork DEF ToldBy, Spoken, Outcomes
      <4> QED
        BY <1>2, <2>3, <4>2 DEF Told
    <3>5. CASE ~lost
      <4>1. /\ past'.posts[t] = past.posts[t] /\ past'.cut[t] = past.cut[t]
            /\ ticket'[t] = IF ticket[t] = "waiting" THEN job[c].say ELSE ticket[t]
        BY <1>1, <1>4, <2>3, <3>5
      <4>2. ToldBy(t, ticket'[t], NoJob, past'.posts[t], past'.cut[t])
        BY <3>2, <3>3, <4>1, NoWork DEF ToldBy, Spoken, Outcomes
      <4> QED
        BY <1>2, <2>3, <4>2 DEF Told
    <3> QED
      BY <3>4, <3>5
  <2> QED
    BY <2>2, <2>3
<1>7. ClockTypeOK'
  <2>1. job' \in [Channels -> Job]
    BY <1>1, <1>2, NoWork, OneJob
  <2>2. ticket' \in [Tickets -> {"none", "waiting", "cancelled"} \cup Outcomes]
    BY <1>1, <1>3, <1>4
  <2>3. sheet' = sheet /\ said' = said /\ tasks' = tasks
    BY DEF FinishJob
  <2> QED
    BY <1>1, <1>2, <1>4, <1>5, <2>1, <2>2, <2>3 DEF ClockTypeOK, Past
<1>8. GoesOn(c, NoJob)
  BY <1>2, <1>4, NoWork DEF GoesOn
<1>9. /\ \A d \in Channels : (Fits(d, job[d]) /\ BeatOK(d) /\ RuleOK(d))'
      /\ InOrder' /\ Downed' /\ (now > 0 /\ past.started <= now)'
  BY <1>8, NoWork, Onward
<1> QED
  BY <1>6, <1>7, <1>9 DEF ClockInv

-----------------------------------------------------------------------------
(***************************************************************************)
(* A worker takes what is due                                              *)
(***************************************************************************)
\* What is queued in a channel with no work was told of nothing.
LEMMA ToldQueued ==
  ASSUME ClockInv, NEW c \in Channels, job[c].kind = "none", NEW k \in Job, job' = [job EXCEPT ![c] = k],
         k.kind = "check" => k.stage = "queued" /\ k.of \in Tickets /\ ticket[k.of] = "waiting",
         ticket' = ticket, past' = past, NEW t \in Tickets
  PROVE  Told(t)'
<1>1. ClockTypeOK
  BY DEF ClockInv
<1>2. CASE InChannel[t] # c \/ ~(k.kind = "check" /\ k.of = t)
  BY <1>2, OthersTold
<1>3. CASE InChannel[t] = c /\ k.kind = "check" /\ k.of = t
  <2>1. ToldBy(t, ticket[t], job[c], past.posts[t], past.cut[t])
    BY <1>3 DEF ClockInv, Told
  <2>2. past.posts[t] \in Nat /\ past.cut[t] \in Nat
    BY <1>1, Fields
  <2>3. ToldBy(t, ticket[t], k, past.posts[t], past.cut[t])
    BY <1>3, <2>1, <2>2, ToldUnsaid DEF Asked
  <2>4. job'[c] = k
    BY <1>1, OneJob
  <2> QED
    BY <1>3, <2>3, <2>4 DEF Told
<1> QED
  BY <1>2, <1>3

\* A check is taken before any rule or heartbeat of its channel.
LEMMA TakeCheckStep ==
  ASSUME ClockInv, NEW c \in Channels, TakeCheck(c)
  PROVE  ClockInv'
<1>1. /\ ClockTypeOK /\ InOrder /\ Downed /\ process = "up" /\ now \in Nat
      /\ now > 0 /\ past.started <= now /\ scan \in Scan
  BY DEF ClockInv, ClockTypeOK, TakeCheck
<1>2. /\ c \in scan.checks /\ job[c].kind = "none" /\ job[c] = NoJob
      /\ scan' = [scan EXCEPT !.checks = @ \ {c}]
      /\ now' = now /\ process' = process /\ ticket' = ticket /\ memory' = memory /\ past' = past
  BY <1>1 DEF TakeCheck, InOrder, ClockInv, Fits
<1>3. /\ scan' \in Scan /\ scan'.checks = scan.checks \ {c} /\ scan'.rules = scan.rules
      /\ scan'.beats = scan.beats
  BY <1>1, <1>2 DEF Scan
<1>4. PICK k : /\ k \in Job /\ job' = [job EXCEPT ![c] = k] /\ Fits(c, k)
               /\ k.kind \in {"none", "check"}
               /\ k.kind = "check" => k.stage = "queued" /\ k.of \in Tickets /\ ticket[k.of] = "waiting"
  <2>1. CASE UNCHANGED job
    <3>1. job' = [job EXCEPT ![c] = NoJob]
      BY <1>1, <1>2, <2>1 DEF ClockTypeOK
    <3> QED
      BY <3>1, NoWork
  <2>2. CASE \E t \in Earliest(DueBy(c, scan.at)) :
               job' = [job EXCEPT ![c] = [NoJob EXCEPT !.kind = "check", !.stage = "queued", !.of = t]]
    <3>1. PICK t \in Earliest(DueBy(c, scan.at)) :
               job' = [job EXCEPT ![c] = [NoJob EXCEPT !.kind = "check", !.stage = "queued", !.of = t]]
      BY <2>2
    <3>2. t \in Tickets /\ InChannel[t] = c /\ ticket[t] = "waiting"
      BY DEF Earliest, DueBy, PendingIn
    <3> DEFINE k == [NoJob EXCEPT !.kind = "check", !.stage = "queued", !.of = t]
    <3>3. k \in Job /\ k.kind = "check" /\ k.stage = "queued" /\ k.of = t /\ k.say = "none"
      BY <3>2 DEF NoJob, Job
    <3> HIDE DEF k
    <3>4. Fits(c, k)
      BY <3>2, <3>3 DEF Fits, Asked
    <3> QED
      BY <3>1, <3>2, <3>3, <3>4 DEF k
  <2> QED
    BY <2>1, <2>2 DEF TakeCheck
<1>5. job' \in [Channels -> Job] /\ job'[c] = k /\ \A d \in Channels : d # c => job'[d] = job[d]
  BY <1>1, <1>4, OneJob
<1>6. InOrder'
  BY <1>1, <1>2, <1>3, <1>4, <1>5 DEF InOrder
<1>7. ASSUME NEW d \in Channels PROVE (Fits(d, job[d]) /\ BeatOK(d) /\ RuleOK(d))'
  <2>1. Fits(d, job'[d]) /\ BeatOK(d) /\ RuleOK(d)
    BY <1>4, <1>5 DEF ClockInv
  <2>2. Fits(d, job[d])'
    BY <2>1 DEF Fits, NoJob, Asked, Outcomes, None
  <2>3. job'[d].kind \in {"beat", "rule"} => job'[d] = job[d]
    BY <1>4, <1>5
  <2>4. BeatOK(d)'
    BY <1>2, <1>3, <2>1, <2>3 DEF BeatOK
  <2>5. RuleOK(d)'
    BY <1>2, <1>3, <2>1, <2>3 DEF RuleOK, LiesAhead
  <2> QED
    BY <2>2, <2>4, <2>5
<1>8. ClockTypeOK'
  BY <1>1, <1>3, <1>5 DEF ClockTypeOK, TakeCheck
<1>9. ASSUME NEW t \in Tickets PROVE Told(t)'
  BY <1>2, <1>4, ToldQueued
<1>10. Downed' /\ (now > 0 /\ past.started <= now)'
  BY <1>1, <1>2 DEF Downed
<1> QED
  BY <1>6, <1>7, <1>8, <1>9, <1>10 DEF ClockInv

\* A rule is taken when the checks are done with, for the occurrence the scan saw.
LEMMA TakeRuleStep ==
  ASSUME ClockInv, NEW c \in Channels, TakeRule(c)
  PROVE  ClockInv'
<1> DEFINE k == [NoJob EXCEPT !.kind = "rule", !.stage = "queued", !.of = scan.rules[c]]
<1>1. /\ ClockTypeOK /\ InOrder /\ Downed /\ process = "up" /\ now \in Nat
      /\ now > 0 /\ past.started <= now /\ scan \in Scan
      /\ scan.rules \in [Channels -> Nat] /\ memory.rule \in [Channels -> Nat]
  BY Fields DEF ClockInv, ClockTypeOK, TakeRule
<1>2. /\ scan.rules[c] # None /\ scan.checks = {} /\ job[c].kind = "none"
      /\ scan' = [scan EXCEPT !.rules[c] = None] /\ job' = [job EXCEPT ![c] = k]
      /\ now' = now /\ process' = process /\ ticket' = ticket /\ memory' = memory /\ past' = past
  BY <1>1 DEF TakeRule, InOrder, Working
<1>3. /\ scan' \in Scan /\ scan'.checks = scan.checks /\ scan'.beats = scan.beats
      /\ scan'.rules = [scan.rules EXCEPT ![c] = None]
  <2>1. [scan.rules EXCEPT ![c] = None] \in [Channels -> Nat]
    BY <1>1 DEF None
  <2> QED
    BY <1>1, <1>2, <2>1 DEF Scan
<1>4. k \in Job /\ k.kind = "rule" /\ k.stage = "queued" /\ k.of = scan.rules[c] /\ k.say = "none"
  BY <1>1 DEF NoJob, Job
<1> HIDE DEF k
<1>5. job' \in [Channels -> Job] /\ job'[c] = k /\ \A d \in Channels : d # c => job'[d] = job[d]
  BY <1>1, <1>2, <1>4, OneJob
<1>6. InOrder'
  <2>1. \A d \in Channels : d # c => scan'.rules[d] = scan.rules[d]
    BY <1>1, <1>3
  <2>2. scan'.rules[c] = None
    BY <1>1, <1>3
  <2> QED
    BY <1>1, <1>2, <1>3, <1>4, <1>5, <2>1, <2>2 DEF InOrder
<1>7. ASSUME NEW d \in Channels PROVE (Fits(d, job[d]) /\ BeatOK(d) /\ RuleOK(d))'
  <2>1. Fits(d, job[d]) /\ BeatOK(d) /\ RuleOK(d)
    BY DEF ClockInv
  <2>2. Fits(d, job[d])'
    <3>1. Fits(d, job'[d])
      BY <1>1, <1>4, <1>5, <2>1 DEF Fits, Asked
    <3> QED
      BY <3>1 DEF Fits, NoJob, Asked, Outcomes, None
  <2>3. BeatOK(d)'
    <3>1. job'[d].kind = "beat" => job[d].kind = "beat"
      BY <1>4, <1>5
    <3> QED
      BY <1>2, <1>3, <2>1, <3>1 DEF BeatOK
  <2>4. memory.rule[d] \in Nat /\ scan.rules[d] \in Nat /\ None = 0
    BY <1>1 DEF None
  <2>5. RuleOK(d)'
    <3>1. CASE d = c
      <4>1. scan'.rules[d] = None /\ job'[d].kind = "rule" /\ job'[d].of = scan.rules[d]
        BY <1>1, <1>3, <1>4, <1>5, <3>1
      <4>2. scan.rules[d] # None
        BY <1>2, <3>1
      <4> QED
        BY <1>2, <2>1, <2>4, <4>1, <4>2 DEF RuleOK, LiesAhead
    <3>2. CASE d # c
      <4>1. scan'.rules[d] = scan.rules[d] /\ job'[d] = job[d]
        BY <1>1, <1>3, <1>5, <3>2
      <4> QED
        BY <1>2, <2>1, <4>1 DEF RuleOK, LiesAhead
    <3> QED
      BY <3>1, <3>2
  <2> QED
    BY <2>2, <2>3, <2>5
<1>8. ClockTypeOK'
  BY <1>1, <1>3, <1>5 DEF ClockTypeOK, TakeRule
<1>9. ASSUME NEW t \in Tickets PROVE Told(t)'
  BY <1>2, <1>4, ToldQueued
<1>10. Downed' /\ (now > 0 /\ past.started <= now)'
  BY <1>1, <1>2 DEF Downed
<1> QED
  BY <1>6, <1>7, <1>8, <1>9, <1>10 DEF ClockInv

\* A heartbeat is taken when the checks and the rules are done with.
LEMMA TakeBeatStep ==
  ASSUME ClockInv, NEW c \in Channels, TakeBeat(c)
  PROVE  ClockInv'
<1> DEFINE k == [NoJob EXCEPT !.kind = "beat", !.stage = "queued"]
<1>1. /\ ClockTypeOK /\ InOrder /\ Downed /\ process = "up" /\ now \in Nat
      /\ now > 0 /\ past.started <= now /\ scan \in Scan
  BY DEF ClockInv, ClockTypeOK, TakeBeat
<1>2. /\ c \in scan.beats /\ scan.checks = {} /\ RulesLeft = {} /\ job[c].kind = "none"
      /\ scan' = [scan EXCEPT !.beats = @ \ {c}] /\ job' = [job EXCEPT ![c] = k]
      /\ now' = now /\ process' = process /\ ticket' = ticket /\ memory' = memory /\ past' = past
  <2>1. job[c].kind \in {"none", "check", "rule", "beat"}
    BY <1>1, Fields DEF Job
  <2> QED
    BY <1>1, <2>1 DEF TakeBeat, InOrder, Working
<1>3. /\ scan' \in Scan /\ scan'.checks = scan.checks /\ scan'.rules = scan.rules
      /\ scan'.beats = scan.beats \ {c}
  BY <1>1, <1>2 DEF Scan
<1>4. k \in Job /\ k.kind = "beat" /\ k.stage = "queued" /\ k.of = 0 /\ k.say = "none"
  BY DEF NoJob, Job, None
<1> HIDE DEF k
<1>5. job' \in [Channels -> Job] /\ job'[c] = k /\ \A d \in Channels : d # c => job'[d] = job[d]
  BY <1>1, <1>2, <1>4, OneJob
<1>6. InOrder'
  BY <1>1, <1>2, <1>3, <1>4, <1>5 DEF InOrder, RulesLeft
<1>7. ASSUME NEW d \in Channels PROVE (Fits(d, job[d]) /\ BeatOK(d) /\ RuleOK(d))'
  <2>1. Fits(d, job[d]) /\ BeatOK(d) /\ RuleOK(d)
    BY DEF ClockInv
  <2>2. Fits(d, job[d])'
    <3>1. Fits(d, job'[d])
      BY <1>4, <1>5, <2>1 DEF Fits, Asked
    <3> QED
      BY <3>1 DEF Fits, NoJob, Asked, Outcomes, None
  <2>3. BeatOK(d)'
    <3>1. d \in scan'.beats \/ job'[d].kind = "beat" => d \in scan.beats \/ job[d].kind = "beat"
      BY <1>2, <1>3, <1>4, <1>5
    <3> QED
      BY <1>2, <2>1, <3>1 DEF BeatOK
  <2>4. RuleOK(d)'
    <3>1. job'[d].kind = "rule" => job'[d] = job[d]
      BY <1>4, <1>5
    <3> QED
      BY <1>2, <1>3, <2>1, <3>1 DEF RuleOK, LiesAhead
  <2> QED
    BY <2>2, <2>3, <2>4
<1>8. ClockTypeOK'
  BY <1>1, <1>3, <1>5 DEF ClockTypeOK, TakeBeat
<1>9. ASSUME NEW t \in Tickets PROVE Told(t)'
  BY <1>2, <1>4, ToldQueued
<1>10. Downed' /\ (now > 0 /\ past.started <= now)'
  BY <1>1, <1>2 DEF Downed
<1> QED
  BY <1>6, <1>7, <1>8, <1>9, <1>10 DEF ClockInv

-----------------------------------------------------------------------------
(***************************************************************************)
(* The clock, the process and what goes on around it                       *)
(***************************************************************************)
\* Fits speaks of the work alone.
LEMMA FitsStays == ASSUME NEW c, Fits(c, job'[c]) PROVE Fits(c, job[c])'
BY DEF Fits, NoJob, Asked, Outcomes, None

\* A message, an edit, a task, a shutdown: nothing the invariant speaks of.
LEMMA AsideStep ==
  ASSUME ClockInv, ClockTypeOK', UNCHANGED <<now, ticket, memory, scan, job, past>>,
         process' = process \/ (process = "up" /\ process' = "stopping")
  PROVE  ClockInv'
<1>1. process' = "down" <=> process = "down"
  OBVIOUS
<1>2. Downed' /\ InOrder' /\ (now > 0 /\ past.started <= now)'
  BY <1>1 DEF ClockInv, Downed, InOrder, Blank
<1>3. \A t \in Tickets : Told(t)'
  BY DEF ClockInv, Told
<1>4. \A c \in Channels : (Fits(c, job[c]) /\ BeatOK(c) /\ RuleOK(c))'
  BY <1>1, FitsStays DEF ClockInv, BeatOK, RuleOK, LiesAhead
<1> QED
  BY <1>2, <1>3, <1>4 DEF ClockInv

\* A check is written down, or called off while it waits or runs.
LEMMA RowStep ==
  ASSUME ClockInv, NEW s \in Tickets, Schedule(s) \/ Cancel(s)
  PROVE  ClockInv'
<1>1. ClockTypeOK /\ ticket \in [Tickets -> {"none", "waiting", "cancelled"} \cup Outcomes] /\ left \in 0..MaxMishaps
  BY DEF ClockInv, ClockTypeOK
<1>2. PICK r \in {"waiting", "cancelled"} :
        /\ ticket' = [ticket EXCEPT ![s] = r]
        /\ r = "waiting" => ticket[s] = "none"
        /\ r = "cancelled" => ticket[s] = "waiting"
  BY DEF Schedule, Cancel
<1>3. UNCHANGED <<now, process, sheet, noticed, said, tasks, memory, scan, job, past>>
  BY DEF Schedule, Cancel
<1>4. left' \in 0..MaxMishaps
  BY <1>1, Constants DEF Schedule, Cancel
<1>5. ASSUME NEW t \in Tickets PROVE Told(t)'
  <2>1. ToldBy(t, ticket[t], job[InChannel[t]], past.posts[t], past.cut[t])
    BY DEF ClockInv, Told
  <2>2. past.posts[t] \in Nat /\ past.cut[t] \in Nat
    BY <1>1, Fields
  <2>3. ticket'[t] = IF t = s THEN r ELSE ticket[t]
    BY <1>1, <1>2
  <2>4. ToldBy(t, ticket'[t], job[InChannel[t]], past.posts[t], past.cut[t])
    BY <1>2, <2>1, <2>2, <2>3 DEF ToldBy, Spoken
  <2> QED
    BY <1>3, <2>4 DEF Told
<1>6. ClockTypeOK'
  BY <1>1, <1>2, <1>3, <1>4 DEF ClockTypeOK
<1>7. Downed' /\ InOrder' /\ (now > 0 /\ past.started <= now)'
  BY <1>3 DEF ClockInv, Downed, InOrder, Blank
<1>8. \A c \in Channels : (Fits(c, job[c]) /\ BeatOK(c) /\ RuleOK(c))'
  BY <1>3, FitsStays DEF ClockInv, BeatOK, RuleOK, LiesAhead
<1> QED
  BY <1>5, <1>6, <1>7, <1>8 DEF ClockInv

\* Time passes, and what was due stays due.
LEMMA TickStep ==
  ASSUME ClockInv, Tick
  PROVE  ClockInv'
<1>1. /\ ClockTypeOK /\ now \in Nat /\ now > 0 /\ past.started <= now /\ past.started \in Nat
      /\ now' = now + 1
      /\ UNCHANGED <<process, sheet, ticket, noticed, said, tasks, memory, scan, job, past, left>>
  BY Fields DEF ClockInv, ClockTypeOK, Tick
<1>2. ClockTypeOK'
  BY <1>1 DEF ClockTypeOK
<1>3. \A t \in Tickets : Told(t)'
  BY <1>1 DEF ClockInv, Told
<1>4. Downed' /\ InOrder' /\ (now > 0 /\ past.started <= now)'
  BY <1>1 DEF ClockInv, Downed, InOrder, Blank
<1>5. ASSUME NEW c \in Channels PROVE (Fits(c, job[c]) /\ BeatOK(c) /\ RuleOK(c))'
  <2>1. Fits(c, job[c]) /\ BeatOK(c) /\ RuleOK(c)
    BY DEF ClockInv
  <2>2. /\ past.beat[c] \in Nat /\ past.fired[c] \subseteq Nat /\ scan.rules[c] \in Nat
        /\ Cadence \in Nat
    BY <1>1, Fields, Constants
  <2>3. job[c].kind = "rule" => job[c].of \in Nat
    BY <2>1 DEF Fits
  <2>4. BeatOK(c)'
    BY <1>1, <2>1, <2>2 DEF BeatOK
  <2>5. RuleOK(c)'
    BY <1>1, <2>1, <2>2, <2>3 DEF RuleOK, LiesAhead
  <2> QED
    BY <1>1, <2>1, <2>4, <2>5, FitsStays
<1> QED
  BY <1>2, <1>3, <1>4, <1>5 DEF ClockInv

\* The process goes, by a crash or at the end of its drain.  A firing that may
\* have spoken is cut off.
LEMMA DownStep ==
  ASSUME ClockInv, Down, left' \in 0..MaxMishaps
  PROVE  ClockInv'
<1>1. /\ ClockTypeOK /\ past \in Past /\ now \in Nat /\ now > 0 /\ past.started <= now
      /\ process' = "down" /\ memory' = Blank /\ scan' = Unscanned
      /\ job' = [c \in Channels |-> NoJob]
      /\ UNCHANGED <<now, sheet, ticket, noticed, said>>
      /\ tasks' = [c \in Channels |-> "none"]
  BY Fields DEF ClockInv, ClockTypeOK, Down
<1>2. /\ past' \in Past /\ past'.posts = past.posts /\ past'.fired = past.fired
      /\ past'.beat = past.beat /\ past'.started = past.started
      /\ \A t \in Tickets : past'.cut[t] = past.cut[t] + IF Cut(t) THEN 1 ELSE 0
  <2> DEFINE cut == [t \in Tickets |-> past.cut[t] + IF Cut(t) THEN 1 ELSE 0]
  <2>1. past.cut \in [Tickets -> Nat]
    BY <1>1 DEF Past
  <2>2. cut \in [Tickets -> Nat] /\ \A t \in Tickets : cut[t] = past.cut[t] + IF Cut(t) THEN 1 ELSE 0
    BY <2>1
  <2>3. past' = [past EXCEPT !.cut = cut]
    BY DEF Down
  <2> HIDE DEF cut
  <2>4. past' \in Past /\ past'.cut = cut
    BY <1>1, <2>2, <2>3 DEF Past
  <2> QED
    BY <1>1, <2>2, <2>3, <2>4 DEF Past
<1>3. /\ \A c \in Channels : job'[c] = NoJob
      /\ scan'.checks = {} /\ scan'.beats = {} /\ \A c \in Channels : scan'.rules[c] = None
      /\ \A c \in Channels : memory'.post[c] = None /\ memory'.beat[c] = None /\ memory'.rule[c] = None
  BY <1>1 DEF Unscanned, Blank
<1>4. ASSUME NEW t \in Tickets PROVE Told(t)'
  <2> DEFINE c == InChannel[t]
  <2>1. c \in Channels /\ ToldBy(t, ticket[t], job[c], past.posts[t], past.cut[t])
    BY Constants DEF ClockInv, Told
  <2>2. past.posts[t] \in Nat /\ past.cut[t] \in Nat
    BY <1>1, Fields
  <2>3. Cut(t) <=> /\ job[c].kind = "check" /\ job[c].of = t
                   /\ job[c].say # "silent" /\ job[c].stage \in Asked
    <3>1. \A d \in Channels : job[d].kind = "check" /\ job[d].of = t => d = c
      BY DEF ClockInv, Fits
    <3> QED
      BY <2>1, <3>1 DEF Cut, Asked
  <2>4. /\ job'[c] = NoJob /\ ticket'[t] = ticket[t] /\ past'.posts[t] = past.posts[t]
        /\ past'.cut[t] = past.cut[t] + IF Cut(t) THEN 1 ELSE 0
    BY <1>1, <1>2, <1>3, <2>1
  <2>5. ToldBy(t, ticket'[t], NoJob, past'.posts[t], past'.cut[t])
    <3> HIDE DEF c
    <3> QED
      BY <2>1, <2>2, <2>3, <2>4, NoWork DEF ToldBy, Spoken
  <2> QED
    BY <2>4, <2>5 DEF Told
<1>5. ClockTypeOK'
  <2>1. memory' \in Memory /\ scan' \in Scan
    BY <1>1 DEF Memory, Blank, Scan, Unscanned, None
  <2>2. job' \in [Channels -> Job]
    BY <1>1, NoWork
  <2>3. tasks' \in [Channels -> {"none", "running", "hung"}]
    BY <1>1
  <2> QED
    BY <1>1, <1>2, <2>1, <2>2, <2>3 DEF ClockTypeOK, Past
<1>6. Downed' /\ InOrder' /\ (now > 0 /\ past.started <= now)'
  BY <1>1, <1>2, <1>3, NoWork DEF Downed, InOrder, Blank
<1>7. ASSUME NEW c \in Channels PROVE (Fits(c, job[c]) /\ BeatOK(c) /\ RuleOK(c))'
  <2>1. BeatOK(c) /\ RuleOK(c)
    BY DEF ClockInv
  <2>2. Fits(c, job[c])'
    BY <1>3, NoWork, FitsStays
  <2>3. BeatOK(c)'
    BY <1>1, <1>2, <1>3, <2>1, NoWork DEF BeatOK
  <2>4. RuleOK(c)'
    BY <1>1, <1>2, <1>3, <2>1, NoWork DEF RuleOK
  <2> QED
    BY <2>2, <2>3, <2>4
<1> QED
  BY <1>4, <1>5, <1>6, <1>7 DEF ClockInv

\* A process begins with nothing under way, at a time after all that was posted.
LEMMA RestartStep ==
  ASSUME ClockInv, Restart
  PROVE  ClockInv'
<1>1. /\ ClockTypeOK /\ past \in Past /\ now \in Nat /\ now > 0
      /\ memory = Blank /\ scan.checks = {} /\ scan.beats = {}
      /\ \A c \in Channels : scan.rules[c] = None /\ job[c] = NoJob
      /\ process' = "up" /\ past' = [past EXCEPT !.started = now]
      /\ UNCHANGED <<now, sheet, ticket, noticed, said, tasks, memory, scan, job, left>>
  BY Fields DEF ClockInv, ClockTypeOK, Downed, Restart
<1>2. /\ past' \in Past /\ past'.posts = past.posts /\ past'.cut = past.cut
      /\ past'.fired = past.fired /\ past'.beat = past.beat /\ past'.started = now
  BY <1>1 DEF Past
<1>3. \A c \in Channels : memory.post[c] = None /\ memory.beat[c] = None /\ memory.rule[c] = None
  BY <1>1 DEF Blank
<1>4. \A t \in Tickets : Told(t)'
  BY <1>1, <1>2 DEF ClockInv, Told
<1>5. ClockTypeOK'
  BY <1>1, <1>2 DEF ClockTypeOK, Past
<1>6. Downed' /\ InOrder' /\ (now > 0 /\ past.started <= now)'
  BY <1>1, <1>2 DEF ClockInv, Downed, InOrder
<1>7. ASSUME NEW c \in Channels PROVE (Fits(c, job[c]) /\ BeatOK(c) /\ RuleOK(c))'
  <2>1. Fits(c, job[c]) /\ BeatOK(c) /\ RuleOK(c)
    BY DEF ClockInv
  <2>2. BeatOK(c)'
    BY <1>1, <1>2, <1>3, <2>1, NoWork DEF BeatOK
  <2>3. RuleOK(c)'
    BY <1>1, <1>2, <1>3, <2>1, NoWork DEF RuleOK
  <2> QED
    BY <1>1, <2>1, <2>2, <2>3, FitsStays
<1> QED
  BY <1>4, <1>5, <1>6, <1>7 DEF ClockInv

\* The loop wakes at an instant.
LEMMA WakeIsAnInstant ==
  ASSUME ClockTypeOK, NEW beat \in [Channels -> Nat], NEW rule \in [Channels -> Nat]
  PROVE  WakeAt(beat, rule) \in Nat
<1> DEFINE S == {now + Rescan} \cup TicketEntries
                  \cup (({beat[c] : c \in Channels} \cup {rule[c] : c \in Channels}) \ {None})
<1>1. now \in Nat /\ Rescan \in Nat
  BY Constants DEF ClockTypeOK
<1>2. TicketEntries \subseteq Nat
  <2>1. \A c \in Channels : Earliest(PendingIn(c)) \subseteq Tickets
    BY DEF Earliest, PendingIn
  <2>2. \A t \in Tickets : (IF DueAt[t] <= now THEN now + Rescan ELSE DueAt[t]) \in Nat
    BY <1>1, Constants
  <2> QED
    BY <2>1, <2>2 DEF TicketEntries
<1>3. S \in SUBSET Nat /\ S # {}
  <2>1. now + Rescan \in Nat
    BY <1>1
  <2>2. \A c \in Channels : beat[c] \in Nat /\ rule[c] \in Nat
    OBVIOUS
  <2> QED
    BY <1>2, <2>1, <2>2
<1> HIDE DEF S
<1>4. Min(S) \in Nat
  BY <1>3, EarliestIs
<1> QED
  BY <1>4 DEF WakeAt, S

\* What the scan collects is due, and what it schedules lies ahead.
LEMMA WakeStep ==
  ASSUME ClockInv, Wake
  PROVE  ClockInv'
<1> DEFINE beat == [c \in Channels |-> BeatAfter(c)]
           rule == [c \in Channels |-> RuleAfter(c)]
<1>1. /\ ClockTypeOK /\ now \in Nat /\ now > 0 /\ past.started <= now /\ past.started \in Nat
      /\ memory \in Memory /\ memory.beat \in [Channels -> Nat] /\ memory.rule \in [Channels -> Nat]
      /\ process = "up" /\ Cadence \in Nat /\ None = 0
  BY Fields, Constants DEF ClockInv, ClockTypeOK, Wake
<1>2. \A c \in Channels : job[c] = NoJob /\ job[c].kind = "none" /\ scan.rules[c] = None
  BY NoWork DEF Wake, Idle, RulesLeft
<1>3. UNCHANGED <<now, process, sheet, ticket, noticed, said, tasks, job, past, left>>
  BY DEF Wake
<1>4. /\ memory' = [memory EXCEPT !.beat = beat, !.rule = rule]
      /\ scan' = [at |-> now, wake |-> WakeAt(beat, rule),
                  checks |-> {c \in Channels : On(c) /\ DueBy(c, now) # {}},
                  rules |-> [c \in Channels |-> IF RuleDue(c) THEN memory.rule[c] ELSE None],
                  beats |-> {c \in Channels : BeatDue(c)}]
  BY DEF Wake
<1>5. ASSUME NEW c \in Channels
      PROVE  BeatAfter(c) \in Nat /\ (BeatAfter(c) # None => BeatAfter(c) >= past.started + Cadence)
  <2>1. memory.beat[c] \in Nat /\ (memory.beat[c] # None => memory.beat[c] >= past.started + Cadence)
    BY <1>1 DEF ClockInv, BeatOK
  <2> QED
    BY <1>1, <2>1 DEF BeatAfter, FirstBeat
<1>6. ASSUME NEW c \in Channels
      PROVE  /\ RuleAfter(c) \in Nat
             /\ RuleAfter(c) # None => LiesAhead(c, RuleAfter(c)) /\ (RuleDue(c) => RuleAfter(c) > now)
  <2>1. /\ memory.rule[c] \in Nat /\ past.fired[c] \subseteq Nat
        /\ memory.rule[c] # None => LiesAhead(c, memory.rule[c])
        /\ \A f \in past.fired[c] : f <= now
    BY <1>1, Fields DEF ClockInv, RuleOK
  <2>2. /\ occurrenceAfter(c, now) \in Nat
        /\ occurrenceAfter(c, now) # None => occurrenceAfter(c, now) > now
    BY <1>1, NextIsAhead
  <2>3. occurrenceAfter(c, now) # None => LiesAhead(c, occurrenceAfter(c, now))
    BY <1>1, <2>1, <2>2 DEF LiesAhead
  <2> QED
    BY <1>1, <2>1, <2>2, <2>3 DEF RuleAfter
<1>7. beat \in [Channels -> Nat] /\ rule \in [Channels -> Nat]
  BY <1>5, <1>6
<1>8. /\ memory' \in Memory /\ memory'.beat = beat /\ memory'.rule = rule /\ memory'.post = memory.post
  BY <1>1, <1>4, <1>7 DEF Memory
<1>9. /\ \A c \in Channels : memory'.beat[c] = BeatAfter(c) /\ memory'.rule[c] = RuleAfter(c)
      /\ \A c \in Channels : scan'.rules[c] = IF RuleDue(c) THEN memory.rule[c] ELSE None
      /\ scan'.beats = {c \in Channels : BeatDue(c)}
  BY <1>4, <1>8
<1>10. scan' \in Scan
  <2>1. WakeAt(beat, rule) \in Nat
    BY <1>1, <1>7, WakeIsAnInstant
  <2>2. [c \in Channels |-> IF RuleDue(c) THEN memory.rule[c] ELSE None] \in [Channels -> Nat]
    BY <1>1
  <2> HIDE DEF beat, rule
  <2> QED
    BY <1>1, <1>4, <2>1, <2>2 DEF Scan
<1> HIDE DEF beat, rule
<1>11. ClockTypeOK'
  BY <1>1, <1>3, <1>8, <1>10 DEF ClockTypeOK
<1>12. \A t \in Tickets : Told(t)'
  BY <1>3 DEF ClockInv, Told
<1>13. InOrder' /\ Downed' /\ (now > 0 /\ past.started <= now)'
  BY <1>1, <1>2, <1>3 DEF InOrder, Downed
<1>14. ASSUME NEW c \in Channels PROVE (Fits(c, job[c]) /\ BeatOK(c) /\ RuleOK(c))'
  <2>1. Fits(c, job[c]) /\ BeatOK(c) /\ RuleOK(c)
    BY DEF ClockInv
  <2>2. Fits(c, job[c])'
    BY <1>3, <2>1, FitsStays
  <2>3. BeatOK(c)'
    <3>1. c \in scan'.beats => now >= past.started + Cadence
      <4>1. memory.beat[c] \in Nat /\ (memory.beat[c] # None => memory.beat[c] >= past.started + Cadence)
        BY <1>1, <2>1 DEF BeatOK
      <4> QED
        BY <1>1, <1>9, <4>1 DEF BeatDue
    <3> QED
      BY <1>2, <1>3, <1>5, <1>8, <1>9, <2>1, <3>1 DEF BeatOK
  <2>4. RuleOK(c)'
    <3>1. memory.rule[c] \in Nat /\ RuleAfter(c) \in Nat
      BY <1>1, <1>6
    <3>2. RuleDue(c) => memory.rule[c] # None /\ memory.rule[c] <= now /\ LiesAhead(c, memory.rule[c])
      BY <1>1, <2>1, <3>1 DEF RuleDue, RuleOK
    <3>3. /\ scan'.rules[c] # None => scan'.rules[c] <= now /\ LiesAhead(c, scan'.rules[c])
          /\ memory'.rule[c] # None => LiesAhead(c, memory'.rule[c]) /\ memory'.rule[c] > scan'.rules[c]
      BY <1>1, <1>6, <1>9, <3>1, <3>2
    <3> QED
      BY <1>2, <1>3, <2>1, <3>3 DEF RuleOK, LiesAhead
  <2> QED
    BY <2>2, <2>3, <2>4
<1> QED
  BY <1>11, <1>12, <1>13, <1>14 DEF ClockInv

-----------------------------------------------------------------------------
(***************************************************************************)
(* The theorems                                                            *)
(***************************************************************************)
\* The invariant holds when the server is started for the first time.
LEMMA ClockBegins == ClockInit => ClockInv
<1> SUFFICES ASSUME ClockInit PROVE ClockInv
  OBVIOUS
<1>1. /\ now = 1 /\ process = "up" /\ memory = Blank /\ scan = Unscanned
      /\ job = [c \in Channels |-> NoJob] /\ ticket = [t \in Tickets |-> "none"]
      /\ past = [posts |-> [t \in Tickets |-> 0], cut |-> [t \in Tickets |-> 0],
                 fired |-> [c \in Channels |-> {}], beat |-> [c \in Channels |-> None],
                 started |-> now]
      /\ left = MaxMishaps /\ None = 0 /\ MaxMishaps \in Nat
  BY Constants DEF ClockInit
<1>2. ClockTypeOK
  <2>1. memory \in Memory
    BY <1>1 DEF Memory, Blank, None
  <2>2. scan \in Scan
    BY <1>1 DEF Scan, Unscanned, None
  <2>3. job \in [Channels -> Job]
    BY <1>1, NoWork
  <2>4. past \in Past
    BY <1>1 DEF Past
  <2> QED
    BY <1>1, <2>1, <2>2, <2>3, <2>4, AmbientAssumption DEF ClockTypeOK, Past, ClockInit, Parts
<1>3. /\ \A c \in Channels : job[c] = NoJob /\ scan.rules[c] = None /\ memory.post[c] = None
      /\ \A c \in Channels : memory.beat[c] = None /\ memory.rule[c] = None /\ past.beat[c] = 0
      /\ \A c \in Channels : past.fired[c] = {}
      /\ scan.checks = {} /\ scan.beats = {} /\ past.started = 1
  BY <1>1 DEF Unscanned, Blank
<1>4. ASSUME NEW t \in Tickets PROVE Told(t)
  <2>1. job[InChannel[t]] = NoJob
    BY <1>3, Constants
  <2>2. past.posts[t] = 0 /\ past.cut[t] = 0 /\ ticket[t] = "none"
    BY <1>1
  <2> QED
    BY <2>1, <2>2, NoWork DEF Told, ToldBy, Spoken
<1>5. \A c \in Channels : Fits(c, job[c]) /\ BeatOK(c) /\ RuleOK(c)
  BY <1>1, <1>3, NoWork DEF BeatOK, RuleOK
<1>6. InOrder /\ Downed
  BY <1>1, <1>3, NoWork DEF InOrder, Downed
<1> QED
  BY <1>1, <1>2, <1>3, <1>4, <1>5, <1>6 DEF ClockInv

\* It is kept by every step.
LEMMA ClockStep == ClockInv /\ [ClockNext]_clockVars => ClockInv'
<1> SUFFICES ASSUME ClockInv, [ClockNext]_clockVars PROVE ClockInv'
  OBVIOUS
<1>1. ClockTypeOK /\ left \in 0..MaxMishaps /\ MaxMishaps \in Nat
  BY Constants DEF ClockInv, ClockTypeOK
<1>2. CASE Wake
  BY <1>2, WakeStep
<1>3. CASE Tick
  BY <1>3, TickStep
<1>4. CASE Stop
  <2>1. left' \in 0..MaxMishaps
    BY <1>1, <1>4 DEF Stop
  <2>2. ClockTypeOK'
    BY <1>1, <1>4, <2>1 DEF ClockTypeOK, Stop
  <2> QED
    BY <1>4, <2>2, AsideStep DEF Stop
<1>5. CASE Crash \/ Exit
  <2>1. Down /\ left' \in 0..MaxMishaps
    BY <1>1, <1>5 DEF Crash, Exit
  <2> QED
    BY <2>1, DownStep
<1>6. CASE Restart
  BY <1>6, RestartStep
<1>7. ASSUME NEW c \in Channels, TakeCheck(c) \/ TakeRule(c) \/ TakeBeat(c) PROVE ClockInv'
  BY <1>7, TakeCheckStep, TakeRuleStep, TakeBeatStep
<1>8. ASSUME NEW c \in Channels, Start(c) \/ AbortTurn(c) \/ FinishJob(c) PROVE ClockInv'
  BY <1>8, StartStep, AbortStep, FinishStep
<1>9. ASSUME NEW c \in Channels, TurnEnds(c) \/ PostEnds(c) PROVE ClockInv'
  BY <1>9, FiredTurnStep, BeatTurnStep, LandsStep DEF TurnEnds, PostEnds
<1>10. ASSUME NEW c \in Channels, TaskBegins(c) \/ TaskHangs(c) \/ TaskEnds(c) \/ Says(c)
       PROVE  ClockInv'
  <2>1. left' \in 0..MaxMishaps
    BY <1>1, <1>10 DEF TaskBegins, TaskHangs, TaskEnds, Says
  <2>2. ClockTypeOK'
    BY <1>1, <1>10, <2>1 DEF ClockTypeOK, TaskBegins, TaskHangs, TaskEnds, Says
  <2> QED
    BY <1>10, <2>2, AsideStep DEF TaskBegins, TaskHangs, TaskEnds, Says
<1>11. ASSUME NEW c \in Channels, NEW part \in Parts, Edit(c, part) PROVE ClockInv'
  <2>1. left' \in 0..MaxMishaps
    BY <1>1, <1>11 DEF Edit
  <2>2. sheet' \in [Channels -> SUBSET Parts]
    BY <1>1, <1>11 DEF ClockTypeOK, Edit
  <2>3. ClockTypeOK'
    BY <1>1, <1>11, <2>1, <2>2 DEF ClockTypeOK, Edit
  <2> QED
    BY <1>11, <2>3, AsideStep DEF Edit
<1>12. ASSUME NEW t \in Tickets, Schedule(t) \/ Cancel(t) PROVE ClockInv'
  BY <1>12, RowStep
<1>13. CASE UNCHANGED clockVars
  <2>1. ClockTypeOK'
    BY <1>1, <1>13 DEF ClockTypeOK, clockVars
  <2> QED
    BY <1>13, <2>1, AsideStep DEF clockVars
<1> QED
  BY <1>2, <1>3, <1>4, <1>5, <1>6, <1>7, <1>8, <1>9, <1>10, <1>11, <1>12, <1>13 DEF ClockNext

\* Of every behaviour of the clock.
LEMMA ClockAlways == ClockSpec => []ClockInv
BY ClockBegins, ClockStep, PTL DEF ClockSpec

\* A turn begins in Start alone, and a heartbeat's post in BeatTurnEnds alone.
LEMMA WhoEnters ==
  ASSUME ClockTypeOK, ClockNext, NEW c \in Channels, NEW kind,
         NEW stage \in {"turn", "posting"}, Enters(c, kind, stage)
  PROVE  /\ stage = "turn" => Start(c)
         /\ stage = "posting" /\ kind = "beat" =>
              \E weighed, finding \in BOOLEAN : BeatTurnEnds(c, weighed, finding)
<1>1. job \in [Channels -> Job] /\ job[c] \in Job
  BY DEF ClockTypeOK
<1>2. job[c].stage # stage /\ job'[c].stage = stage /\ job'[c].kind = kind
  BY DEF Enters
<1>3. ~(Crash \/ Exit)
  BY <1>2, NoWork DEF Crash, Exit, Down
<1>4. \E d \in Channels :
        TakeCheck(d) \/ TakeRule(d) \/ TakeBeat(d) \/ Start(d) \/ AbortTurn(d) \/ TurnEnds(d) \/ PostEnds(d) \/ FinishJob(d)
  BY <1>2, <1>3 DEF ClockNext, Wake, Tick, Stop, Restart, TaskBegins, TaskHangs, TaskEnds, Says, Edit, Schedule, Cancel
<1>5. PICK d \in Channels :
        TakeCheck(d) \/ TakeRule(d) \/ TakeBeat(d) \/ Start(d) \/ AbortTurn(d) \/ TurnEnds(d) \/ PostEnds(d) \/ FinishJob(d)
  BY <1>4
<1>6. ASSUME NEW k, job' = [job EXCEPT ![d] = k] PROVE d = c /\ k.stage = stage /\ k.kind = kind
  BY <1>1, <1>2, <1>6
<1>7. ~TakeCheck(d)
  <2> SUFFICES ASSUME TakeCheck(d) PROVE FALSE
    OBVIOUS
  <2>1. PICK t : job' = [job EXCEPT ![d] = [NoJob EXCEPT !.kind = "check", !.stage = "queued", !.of = t]]
    BY <1>2 DEF TakeCheck
  <2>2. [NoJob EXCEPT !.kind = "check", !.stage = "queued", !.of = t].stage = "queued"
    BY DEF NoJob
  <2> QED
    BY <1>6, <2>1, <2>2
<1>8. ~TakeRule(d)
  <2>1. [NoJob EXCEPT !.kind = "rule", !.stage = "queued", !.of = scan.rules[d]].stage = "queued"
    BY DEF NoJob
  <2> QED
    BY <1>6, <2>1 DEF TakeRule
<1>9. ~TakeBeat(d)
  <2>1. [NoJob EXCEPT !.kind = "beat", !.stage = "queued"].stage = "queued"
    BY DEF NoJob
  <2> QED
    BY <1>6, <2>1 DEF TakeBeat
<1>10. ~AbortTurn(d) /\ ~FinishJob(d)
  BY <1>6, NoWork DEF AbortTurn, FinishJob
<1>11. ~PostEnds(d)
  <2> SUFFICES ASSUME NEW s \in {"posted", "unposted"}, Lands(d, s) PROVE FALSE
    BY DEF PostEnds
  <2>1. job' = [job EXCEPT ![d] = [job[d] EXCEPT !.stage = s]] /\ job[d] \in Job
    BY <1>1 DEF Lands
  <2>2. [job[d] EXCEPT !.stage = s].stage = s
    BY <2>1 DEF Job
  <2> QED
    BY <1>6, <2>1, <2>2
<1>12. CASE Start(d)
  <2> DEFINE k == IF ~On(d) \/ (job[d].kind = "beat" /\ ~(MayPost(d) /\ (Weighable(d) \/ Noticing(d)))) THEN NoJob
                  ELSE IF job[d].kind = "beat" THEN [job[d] EXCEPT !.stage = "turn", !.of = said[d]]
                  ELSE [job[d] EXCEPT !.stage = "turn"]
  <2>1. job' = [job EXCEPT ![d] = k]
    BY <1>12 DEF Start
  <2>2. k.stage \in {"none", "turn"}
    BY <1>1, NoWork DEF Job
  <2> HIDE DEF k
  <2>3. d = c /\ k.stage = stage
    BY <1>6, <2>1
  <2> QED
    BY <1>12, <2>2, <2>3
<1>13. ASSUME NEW end \in Outcomes, FiredTurnEnds(d, end) PROVE stage = "posting" /\ kind # "beat"
  <2> DEFINE k == [job[d] EXCEPT !.say = end, !.stage = IF end = "silent" THEN "unposted" ELSE "posting"]
  <2>1. job' = [job EXCEPT ![d] = k] /\ job[d].kind \in {"check", "rule"}
    BY <1>1, <1>13 DEF FiredTurnEnds
  <2>2. k.kind = job[d].kind /\ k.stage \in {"unposted", "posting"}
    BY <1>1 DEF Job
  <2> HIDE DEF k
  <2>3. k.stage = stage /\ k.kind = kind
    BY <1>6, <2>1
  <2> QED
    BY <2>1, <2>2, <2>3
<1>14. ASSUME NEW weighed \in BOOLEAN, NEW finding \in BOOLEAN, BeatTurnEnds(d, weighed, finding)
       PROVE  d = c /\ stage = "posting"
  <2>1. CASE job' = [job EXCEPT ![d] = NoJob]
    BY <1>6, <2>1, NoWork
  <2>2. CASE job' = [job EXCEPT ![d].stage = "posting", ![d].say = IF Noticing(d) THEN "notice" ELSE "finding"]
    <3> DEFINE k == [job[d] EXCEPT !.stage = "posting", !.say = IF Noticing(d) THEN "notice" ELSE "finding"]
    <3>1. job' = [job EXCEPT ![d] = k]
      BY <1>1, <2>2
    <3>2. k.stage = "posting"
      BY <1>1 DEF Job
    <3> HIDE DEF k
    <3>3. d = c /\ k.stage = stage
      BY <1>6, <3>1
    <3> QED
      BY <3>2, <3>3
  <2> QED
    BY <1>14, <2>1, <2>2 DEF BeatTurnEnds
<1> QED
  BY <1>5, <1>7, <1>8, <1>9, <1>10, <1>11, <1>12, <1>13, <1>14 DEF TurnEnds

\* What ambient.ts and the modules it calls keep has the types they declare.
THEOREM ClockTypes == ClockSpec => []ClockTypeOK
<1>1. ClockInv => ClockTypeOK
  BY DEF ClockInv
<1> QED
  BY <1>1, ClockAlways, PTL

\* check.ts posts and then marks the row: a check that is done with has spoken
\* unless it was silent, and it speaks again only for a firing that a crash or
\* a store that threw cut off before the mark.
THEOREM ToldOnce == ClockSpec => []CheckIsToldOnce
<1>1. ASSUME ClockInv PROVE CheckIsToldOnce
  <2> SUFFICES ASSUME NEW t \in Tickets
               PROVE  /\ ticket[t] \in {"posted", "over_budget", "failed"} => past.posts[t] > 0
                      /\ past.posts[t] <= past.cut[t] + IF ticket[t] = "silent" THEN 0 ELSE 1
    BY DEF CheckIsToldOnce
  <2>1. ToldBy(t, ticket[t], job[InChannel[t]], past.posts[t], past.cut[t])
    BY <1>1 DEF ClockInv, Told
  <2>2. past.posts[t] \in Nat /\ past.cut[t] \in Nat
    BY <1>1, Fields DEF ClockInv
  <2> QED
    BY <2>1, <2>2 DEF ToldBy, Spoken
<1> QED
  BY <1>1, ClockAlways, PTL

\* The posting window of heartbeat.ts dies with the process; its first-sight
\* rule, that a channel first seen is due a cadence later, spaces what two
\* processes post.
THEOREM Spaced == ClockSpec => HeartbeatsAreSpaced
<1> DEFINE Apart == \A c \in Channels : Enters(c, "beat", "posting") /\ past.beat[c] # None
                      => now - past.beat[c] >= IF memory.post[c] = None THEN Cadence ELSE Window
<1>1. ClockInv /\ [ClockNext]_clockVars => [Apart]_clockVars
  <2> SUFFICES ASSUME ClockInv, ClockNext, NEW c \in Channels, Enters(c, "beat", "posting"), past.beat[c] # None
               PROVE  now - past.beat[c] >= IF memory.post[c] = None THEN Cadence ELSE Window
    OBVIOUS
  <2>1. /\ ClockTypeOK /\ now \in Nat /\ past.beat[c] \in Nat /\ memory.post[c] \in Nat
        /\ past.started \in Nat /\ Cadence \in Nat /\ Window \in Nat /\ BeatOK(c) /\ job[c] \in Job
    BY Fields, Constants DEF ClockInv, ClockTypeOK
  <2>2. PICK weighed, finding \in BOOLEAN : BeatTurnEnds(c, weighed, finding)
    BY <2>1, WhoEnters
  <2>3. job[c].kind = "beat" /\ process = "up" /\ job[c].stage = "turn"
    BY <2>2 DEF BeatTurnEnds
  <2>4. MayPost(c)
    <3>1. CASE ~MayPost(c)
      <4>1. job' = [job EXCEPT ![c] = NoJob]
        BY <2>2, <3>1 DEF BeatTurnEnds
      <4>2. job'[c].stage = "none"
        BY <2>1, <4>1, NoWork, OneJob
      <4> QED
        BY <4>2 DEF Enters
    <3> QED
      BY <3>1
  <2> QED
    BY <2>1, <2>3, <2>4 DEF BeatOK, MayPost
<1> QED
  BY <1>1, ClockAlways, PTL DEF ClockSpec, HeartbeatsAreSpaced

\* nextRuleOccurrence of rule-clock.ts looks after now, and the schedule kept
\* of it dies with the process: an occurrence is fired once, over restarts too,
\* and not one from before the process was there.
THEOREM FiresOnce == ClockSpec => RuleFiresOnce
<1> DEFINE New == \A c \in Channels : Enters(c, "rule", "turn")
                     => job[c].of \notin past.fired[c] /\ job[c].of > past.started
<1>1. ClockInv /\ [ClockNext]_clockVars => [New]_clockVars
  <2> SUFFICES ASSUME ClockInv, ClockNext, NEW c \in Channels, Enters(c, "rule", "turn")
               PROVE  job[c].of \notin past.fired[c] /\ job[c].of > past.started
    OBVIOUS
  <2>1. ClockTypeOK /\ RuleOK(c) /\ job[c] \in Job /\ past.fired[c] \subseteq Nat
    BY Fields DEF ClockInv
  <2>2. Start(c)
    BY <2>1, WhoEnters
  <2>3. job[c].stage = "queued" /\ job[c].kind = "rule"
    <3> DEFINE k == IF ~On(c) \/ (job[c].kind = "beat" /\ ~(MayPost(c) /\ (Weighable(c) \/ Noticing(c)))) THEN NoJob
                    ELSE IF job[c].kind = "beat" THEN [job[c] EXCEPT !.stage = "turn", !.of = said[c]]
                    ELSE [job[c] EXCEPT !.stage = "turn"]
    <3>1. job' = [job EXCEPT ![c] = k] /\ job[c].stage = "queued" /\ job \in [Channels -> Job]
      BY <2>1, <2>2 DEF Start, ClockTypeOK
    <3>2. k.kind \in {"none", job[c].kind}
      BY <2>1, NoWork DEF Job
    <3> HIDE DEF k
    <3>3. job'[c] = k /\ job'[c].kind = "rule"
      BY <3>1 DEF Enters
    <3> QED
      BY <3>1, <3>2, <3>3
  <2>4. LiesAhead(c, job[c].of)
    BY <2>1, <2>3 DEF RuleOK
  <2>5. job[c].of \in Nat
    BY <2>3 DEF ClockInv, Fits
  <2> QED
    BY <2>1, <2>4, <2>5 DEF LiesAhead
<1> QED
  BY <1>1, ClockAlways, PTL DEF ClockSpec, RuleFiresOnce

-----------------------------------------------------------------------------
(***************************************************************************)
(* Checks that are called off                                              *)
(***************************************************************************)
\* A check that waits for its channel's mutex; its row has been read.
Queues(c) == job[c].kind = "check" /\ job[c].stage = "queued"

\* Nobody calls off a check whose row has been read for it to run.
CancelsUnread == \A t \in Tickets : Cancel(t) => \A c \in Channels : Queues(c) => job[c].of # t

\* What is about to run is still wanted.
StillWanted == \A c \in Channels : Queues(c) => ticket[job[c].of] = "waiting"

\* The work of one channel changes, the rows do not.
LEMMA WantedWork ==
  ASSUME ClockTypeOK, StillWanted, UNCHANGED ticket, NEW c \in Channels, NEW k,
         job' = [job EXCEPT ![c] = k],
         k.kind = "check" /\ k.stage = "queued" => ticket[k.of] = "waiting"
  PROVE  StillWanted'
<1>1. job'[c] = k /\ \A d \in Channels \ {c} : job'[d] = job[d]
  BY DEF ClockTypeOK
<1> QED
  BY <1>1 DEF StillWanted, Queues

\* What was queued starts as it was, or ends.
LEMMA Starts ==
  ASSUME ClockTypeOK, NEW c \in Channels, Start(c)
  PROVE  /\ job[c].stage = "queued" /\ UNCHANGED ticket
         /\ \E k : /\ job' = [job EXCEPT ![c] = k]
                  /\ k.kind \in {"none", job[c].kind} /\ k.stage \in {"none", "turn"}
<1> DEFINE k == IF ~On(c) \/ (job[c].kind = "beat" /\ ~(MayPost(c) /\ (Weighable(c) \/ Noticing(c)))) THEN NoJob
                ELSE IF job[c].kind = "beat" THEN [job[c] EXCEPT !.stage = "turn", !.of = said[c]]
                ELSE [job[c] EXCEPT !.stage = "turn"]
<1>1. job' = [job EXCEPT ![c] = k] /\ job[c].stage = "queued" /\ UNCHANGED ticket
  BY DEF Start
<1>2. k.kind \in {"none", job[c].kind} /\ k.stage \in {"none", "turn"}
  BY Fields, NoWork DEF Job
<1> QED
  BY <1>1, <1>2

\* Work that is taken, or that goes on.
LEMMA WantedJob ==
  ASSUME ClockInv, StillWanted, NEW c \in Channels,
         \/ TakeCheck(c) \/ TakeRule(c) \/ TakeBeat(c)
         \/ Start(c) \/ AbortTurn(c) \/ TurnEnds(c) \/ PostEnds(c)
  PROVE  StillWanted'
<1>0. ClockTypeOK /\ job[c] \in Job /\ NoJob.kind = "none" /\ \A d \in Channels : job[d] \in Job
  BY Fields, NoWork DEF ClockInv
<1>1. CASE TakeCheck(c)
  <2>1. CASE UNCHANGED job
    BY <1>1, <2>1 DEF TakeCheck, StillWanted, Queues
  <2>2. ASSUME NEW t \in Earliest(DueBy(c, scan.at)),
               job' = [job EXCEPT ![c] = [NoJob EXCEPT !.kind = "check", !.stage = "queued", !.of = t]]
        PROVE  StillWanted'
    <3>1. ticket[t] = "waiting"
      BY DEF Earliest, DueBy, PendingIn
    <3>2. [NoJob EXCEPT !.kind = "check", !.stage = "queued", !.of = t].of = t
      BY DEF NoJob
    <3>3. UNCHANGED ticket
      BY <1>1 DEF TakeCheck
    <3> QED
      BY <1>0, <2>2, <3>1, <3>2, <3>3, WantedWork
  <2> QED
    BY <1>1, <2>1, <2>2 DEF TakeCheck
<1>2. CASE TakeRule(c)
  <2>1. [NoJob EXCEPT !.kind = "rule", !.stage = "queued", !.of = scan.rules[c]].kind = "rule"
    BY DEF NoJob
  <2> QED
    BY <1>0, <1>2, <2>1, WantedWork DEF TakeRule
<1>3. CASE TakeBeat(c)
  <2>1. [NoJob EXCEPT !.kind = "beat", !.stage = "queued"].kind = "beat"
    BY DEF NoJob
  <2> QED
    BY <1>0, <1>3, <2>1, WantedWork DEF TakeBeat
<1>4. CASE Start(c)
  BY <1>0, <1>4, Starts, WantedWork
<1>5. CASE AbortTurn(c)
  BY <1>0, <1>5, WantedWork DEF AbortTurn
<1>6. CASE TurnEnds(c) \/ PostEnds(c)
  <2>1. UNCHANGED ticket /\ \E k : job' = [job EXCEPT ![c] = k] /\ k.stage # "queued"
    <3>1. ASSUME NEW end \in Outcomes, FiredTurnEnds(c, end) PROVE <2>1!:
      <4> DEFINE k == [job[c] EXCEPT !.say = end, !.stage = IF end = "silent" THEN "unposted" ELSE "posting"]
      <4>1. job' = [job EXCEPT ![c] = k] /\ UNCHANGED ticket
        BY <1>0, <3>1 DEF FiredTurnEnds, ClockTypeOK
      <4>2. k.stage # "queued"
        BY <1>0 DEF Job
      <4> QED
        BY <4>1, <4>2
    <3>2. ASSUME NEW weighed \in BOOLEAN, NEW finding \in BOOLEAN, BeatTurnEnds(c, weighed, finding)
          PROVE  <2>1!:
      <4> DEFINE asks == [job[c] EXCEPT !.stage = "posting", !.say = IF Noticing(c) THEN "notice" ELSE "finding"]
      <4>1. job' = [job EXCEPT ![c] = asks] \/ job' = [job EXCEPT ![c] = NoJob]
        BY <1>0, <3>2 DEF BeatTurnEnds, ClockTypeOK
      <4>2. asks.stage # "queued" /\ NoJob.stage # "queued"
        BY <1>0, NoWork DEF Job
      <4>3. UNCHANGED ticket
        BY <3>2 DEF BeatTurnEnds
      <4> QED
        BY <4>1, <4>2, <4>3
    <3>3. ASSUME NEW stage \in {"posted", "unposted"}, Lands(c, stage) PROVE <2>1!:
      <4> DEFINE k == [job[c] EXCEPT !.stage = stage]
      <4>1. job' = [job EXCEPT ![c] = k] /\ UNCHANGED ticket
        BY <1>0, <3>3 DEF Lands, ClockTypeOK
      <4>2. k.stage = stage
        BY <1>0 DEF Job
      <4> QED
        BY <4>1, <4>2
    <3> QED
      BY <1>6, <3>1, <3>2, <3>3 DEF TurnEnds, PostEnds
  <2> QED
    BY <1>0, <2>1, WantedWork
<1> QED
  BY <1>1, <1>2, <1>3, <1>4, <1>5, <1>6

\* A firing writes its own row, which is of its own channel.
LEMMA WantedRow ==
  ASSUME ClockInv, StillWanted, NEW c \in Channels, FinishJob(c)
  PROVE  StillWanted'
<1>0. ClockTypeOK /\ ticket \in [Tickets -> {"none", "waiting", "cancelled"} \cup Outcomes]
  BY DEF ClockInv, ClockTypeOK
<1>1. job'[c] = NoJob /\ \A d \in Channels \ {c} : job'[d] = job[d]
  BY <1>0 DEF FinishJob, ClockTypeOK
<1>2. \A t \in Tickets : ticket'[t] = ticket[t] \/ (job[c].kind = "check" /\ t = job[c].of)
  BY <1>0 DEF FinishJob, Recorded, Unrecorded, Marked
<1>3. ASSUME NEW d \in Channels \ {c}, Queues(d) PROVE ticket'[job[d].of] = "waiting"
  <2>1. job[d].of \in Tickets /\ InChannel[job[d].of] = d
    BY <1>3 DEF ClockInv, Fits, Queues
  <2>2. job[c].kind = "check" => InChannel[job[c].of] = c
    BY DEF ClockInv, Fits
  <2> QED
    BY <1>2, <1>3, <2>1, <2>2 DEF StillWanted
<1> QED
  BY <1>1, <1>3, NoWork DEF StillWanted, Queues

\* A check that is called off while it is only due does not run: the row is
\* read again when its worker takes it, and what ambient.ts says of the mutex
\* is wrong only of one called off between that read and the turn
\* (MCCalledOffDoesNotRun.cfg).
THEOREM CalledOffInTime == ClockSpec /\ [][CancelsUnread]_clockVars => CalledOffDoesNotRun
<1>1. ClockInit => StillWanted
  BY NoWork DEF ClockInit, StillWanted, Queues
<1>2. ClockInv /\ StillWanted /\ [ClockNext]_clockVars /\ [CancelsUnread]_clockVars => StillWanted'
  <2> SUFFICES ASSUME ClockInv, StillWanted, [ClockNext]_clockVars, [CancelsUnread]_clockVars
               PROVE  StillWanted'
    OBVIOUS
  <2>0. ticket \in [Tickets -> {"none", "waiting", "cancelled"} \cup Outcomes]
    BY DEF ClockInv, ClockTypeOK
  <2>1. ASSUME NEW c \in Channels,
               \/ TakeCheck(c) \/ TakeRule(c) \/ TakeBeat(c)
               \/ Start(c) \/ AbortTurn(c) \/ TurnEnds(c) \/ PostEnds(c)
        PROVE  StillWanted'
    BY <2>1, WantedJob
  <2>2. ASSUME NEW c \in Channels, FinishJob(c) PROVE StillWanted'
    BY <2>2, WantedRow
  <2>3. ASSUME UNCHANGED <<ticket, job>> PROVE StillWanted'
    BY <2>3 DEF StillWanted, Queues
  <2>4. CASE Crash \/ Exit
    BY <2>4, NoWork DEF Crash, Exit, Down, StillWanted, Queues
  <2>5. ASSUME NEW t \in Tickets, Schedule(t) PROVE StillWanted'
    BY <2>0, <2>5 DEF Schedule, StillWanted, Queues
  <2>6. ASSUME NEW t \in Tickets, Cancel(t) PROVE StillWanted'
    <3>1. CASE CancelsUnread
      <4>1. \A c \in Channels : Queues(c) => job[c].of # t
        BY <2>6, <3>1 DEF CancelsUnread
      <4>2. ticket' = [ticket EXCEPT ![t] = "cancelled"] /\ UNCHANGED job
        BY <2>6 DEF Cancel
      <4> QED
        BY <2>0, <4>1, <4>2 DEF StillWanted, Queues
    <3>2. CASE UNCHANGED clockVars
      BY <2>3, <3>2 DEF clockVars
    <3> QED
      BY <3>1, <3>2
  <2> QED
    BY <2>1, <2>2, <2>3, <2>4, <2>5, <2>6
    DEF ClockNext, Wake, Tick, Stop, Restart, TaskBegins, TaskHangs, TaskEnds, Says, Edit, clockVars
<1>3. ClockInv /\ StillWanted /\ [ClockNext]_clockVars =>
        [\A c \in Channels : Enters(c, "check", "turn") => ticket[job[c].of] = "waiting"]_clockVars
  <2> SUFFICES ASSUME ClockInv, StillWanted, ClockNext, NEW c \in Channels, Enters(c, "check", "turn")
               PROVE  ticket[job[c].of] = "waiting"
    OBVIOUS
  <2>1. ClockTypeOK /\ job[c] \in Job /\ Start(c)
    BY Fields, WhoEnters DEF ClockInv
  <2>2. job[c].stage = "queued" /\ \E k : job' = [job EXCEPT ![c] = k] /\ k.kind \in {"none", job[c].kind}
    BY <2>1, Starts
  <2>3. job[c].kind = "check"
    BY <2>1, <2>2 DEF Enters, ClockTypeOK
  <2> QED
    BY <2>2, <2>3 DEF StillWanted, Queues
<1> QED
  BY <1>1, <1>2, <1>3, ClockAlways, PTL DEF ClockSpec, CalledOffDoesNotRun

-----------------------------------------------------------------------------
(***************************************************************************)
(* The rule clock's inductive invariant                                    *)
(***************************************************************************)
\* The day of a reading, and the times and days a rule names.
DayOf(l) == l \div DayLength
Wanted(l) == l % DayLength \in standing.at /\ DayOf(l) % Week \in standing.days

\* The instant a reading is resolved to, and whether the clock then reads it.
When(l) == Guessed(l, zone)
Read(i) == wallClockAt(i, zone)
ReadsBack(l) == Read(When(l)) = l

Firing(l) == Wanted(l) /\ ReadsBack(l)

\* A firing all of whose readings come after the first scan.
Owed(l) == Firing(l) /\ \A i \in Int : Read(i) = l => FirstScan < i

\* What is due is the earliest firing that is owed; nothing is due when
\* none is owed within the days searched a minute ago.
DueOK ==
  \/ /\ due = {}
     /\ \/ minute = FirstScan
        \/ \A l \in Int : Owed(l) /\ minute <= When(l) => DayOf(Read(minute - 1)) + Week < DayOf(l)
  \/ \E n \in Int : /\ Firing(n) /\ due = {When(n)}
                    /\ minute <= When(n) /\ FirstScan < When(n)
                    /\ \A l \in Int : Owed(l) /\ minute <= When(l) => When(n) <= When(l)

RuleInv ==
  /\ minute \in Int /\ FirstScan <= minute /\ (minute = FirstScan \/ minute <= LastScan)
  /\ zone \in Zones /\ standing \in Rules
  /\ \A i \in fired : \E l \in Int : Firing(l) /\ i = When(l) /\ FirstScan < i /\ i < minute
  /\ \A l \in Int : Owed(l) /\ When(l) < minute => When(l) \in fired
  /\ DueOK

-----------------------------------------------------------------------------
\* A set of instants with a lower bound has an earliest.
LEMMA EarliestFrom ==
  ASSUME NEW S \in SUBSET Int, S # {}, NEW b \in Int, \A x \in S : b <= x
  PROVE  Min(S) \in S /\ \A y \in S : Min(S) <= y
<1> DEFINE T == {x - b : x \in S}
<1>1. T \in SUBSET Nat /\ T # {}
  <2>1. ASSUME NEW x \in S PROVE x - b \in Nat
    <3>1. x \in Int /\ b <= x
      OBVIOUS
    <3> QED
      BY <3>1
  <2> QED
    BY <2>1
<1>2. PICK m \in T : \A y \in T : m <= y
  <2> HIDE DEF T
  <2> QED
    BY <1>1, EarliestIs
<1>3. PICK x \in S : m = x - b
  BY <1>2
<1>4. ASSUME NEW y \in S PROVE x <= y
  <2>1. m <= y - b
    BY <1>2
  <2> QED
    BY <1>3, <2>1
<1> QED
  BY <1>4 DEF Min

\* Whole days of at least a minute are told apart by their lengths.
LEMMA Lengths ==
  ASSUME NEW p \in Int, NEW q \in Int, NEW n \in Int, n > 0
  PROVE  /\ p * n \in Int /\ q * n \in Int
         /\ p < q => (p * n) + n <= q * n
<1>1. ASSUME p < q PROVE (p * n) + n <= q * n
  <2>1. q - p - 1 \in Int /\ q - p - 1 >= 0 /\ q = p + 1 + (q - p - 1)
    BY <1>1
  <2>2. PICK k \in Int : q = p + 1 + k /\ k >= 0
    BY <2>1
  <2>3. q * n = (p * n) + n + (k * n)
    BY <2>2
  <2>4. k * n >= 0
    BY <2>2
  <2> QED
    BY <2>3, <2>4
<1> QED
  BY <1>1

\* A reading is its day and its time.
LEMMA Calendar ==
  ASSUME NEW l \in Int
  PROVE  /\ DayOf(l) \in Int /\ l % DayLength \in 0..(DayLength - 1)
         /\ DayOf(l) * DayLength \in Int
         /\ l = (DayOf(l) * DayLength) + (l % DayLength)
         /\ DayOf(l) * DayLength <= l /\ l < (DayOf(l) * DayLength) + DayLength
BY RuleClockAssumption DEF DayOf

\* A later reading is not of an earlier day.
LEMMA LaterDay ==
  ASSUME NEW l \in Int, NEW k \in Int, DayOf(l) < DayOf(k)
  PROVE  l < k
<1>1. DayLength \in Int /\ DayLength > 0 /\ DayOf(l) \in Int /\ DayOf(k) \in Int
  BY Calendar, RuleClockAssumption
<1>2. (DayOf(l) * DayLength) + DayLength <= DayOf(k) * DayLength
  BY <1>1, Lengths
<1>3. /\ DayOf(l) * DayLength \in Int /\ l < (DayOf(l) * DayLength) + DayLength
      /\ DayOf(k) * DayLength \in Int /\ DayOf(k) * DayLength <= k
  BY Calendar
<1> QED
  BY <1>1, <1>2, <1>3

\* What a day and a time read is of that day and that time.
LEMMA ReadingOf ==
  ASSUME NEW d \in Int, NEW t \in 0..(DayLength - 1)
  PROVE  LET l == (d * DayLength) + t
         IN  l \in Int /\ DayOf(l) = d /\ l % DayLength = t
<1> DEFINE l == (d * DayLength) + t
<1>1. DayLength \in Int /\ DayLength > 0 /\ t \in Int /\ 0 <= t /\ t < DayLength
  BY RuleClockAssumption
<1>2. d * DayLength \in Int /\ l \in Int
  <2>1. d * DayLength \in Int
    BY <1>1, Lengths
  <2> QED
    BY <1>1, <2>1
<1> HIDE DEF l
<1> DEFINE q == DayOf(l)
<1>3. q \in Int /\ q * DayLength \in Int /\ q * DayLength <= l /\ l < (q * DayLength) + DayLength
  BY <1>2, Calendar
<1>4. l = (d * DayLength) + t
  BY DEF l
<1>5. l = (q * DayLength) + (l % DayLength) /\ l % DayLength \in Int
  BY <1>1, <1>2, Calendar
<1> HIDE DEF q
<1>6. ~(q < d)
  <2>1. q < d => (q * DayLength) + DayLength <= d * DayLength
    BY <1>1, <1>3, Lengths
  <2> QED
    BY <2>1, <1>1, <1>2, <1>3, <1>4
<1>7. ~(d < q)
  <2>1. d < q => (d * DayLength) + DayLength <= q * DayLength
    BY <1>1, <1>3, Lengths
  <2> QED
    BY <2>1, <1>1, <1>2, <1>3, <1>4
<1>8. q = d
  BY <1>3, <1>6, <1>7
<1>9. l % DayLength = t
  BY <1>1, <1>2, <1>4, <1>5, <1>8
<1> QED
  BY <1>2, <1>8, <1>9 DEF q, l

\* A minute and a day later it is at most two days later.
LEMMA DayAfterNext ==
  ASSUME NEW l \in Int, NEW k \in Int, k <= l + 1 + DayLength
  PROVE  DayOf(k) <= DayOf(l) + 2
<1> DEFINE p == DayOf(l)
           q == DayOf(k)
<1>1. DayLength \in Int /\ DayLength > 0
  BY RuleClockAssumption
<1>2. /\ p \in Int /\ p * DayLength \in Int /\ l < (p * DayLength) + DayLength
      /\ q \in Int /\ q * DayLength \in Int /\ q * DayLength <= k
  BY Calendar
<1> HIDE DEF p, q
<1>3. ~(p + 2 < q)
  <2> DEFINE u == (p + 2) * DayLength
  <2>1. p + 2 < q => u + DayLength <= q * DayLength
    BY <1>1, <1>2, Lengths
  <2>2. u = (p * DayLength) + DayLength + DayLength
    BY <1>1, <1>2
  <2>3. k < (p * DayLength) + DayLength + DayLength + DayLength
    BY <1>1, <1>2
  <2> HIDE DEF u
  <2> QED
    BY <1>1, <1>2, <2>1, <2>2, <2>3
<1> QED
  BY <1>2, <1>3 DEF p, q

\* What a zone's clock reads is within a day of the instant, and a minute
\* later at most a day and a minute more.
LEMMA Reads ==
  ASSUME zone \in Zones, NEW i \in Int
  PROVE  /\ Read(i) \in Int /\ Read(i) \in (i - DayLength)..(i + DayLength)
         /\ Read(i + 1) <= Read(i) + 1 + DayLength
         /\ \A k \in Int : Read(k) = Read(i) => k \in (i - DayLength)..(i + DayLength)
BY RuleClockAssumption DEF Read, wallClockAt, offsetAt

\* A reading the clock has is resolved to an instant at which it has it.
LEMMA Resolves ==
  ASSUME zone \in Zones, NEW l \in Int
  PROVE  /\ When(l) \in Int
         /\ \A i \in Int : Read(i) = l => ReadsBack(l)
BY RuleClockAssumption DEF When, ReadsBack, Read, Guessed, wallClockAt, offsetAt

\* Of two readings the later is resolved to the later instant.
LEMMA KeepsOrder ==
  ASSUME zone \in Zones, NEW l \in Int, NEW k \in Int, ReadsBack(l), ReadsBack(k)
  PROVE  l < k <=> When(l) < When(k)
<1>1. ASSUME NEW x \in Int, NEW y \in Int, ReadsBack(x), ReadsBack(y), x < y PROVE When(x) < When(y)
  BY <1>1, RuleClockAssumption DEF When, ReadsBack, Read, Guessed, wallClockAt, offsetAt
<1>2. When(l) \in Int /\ When(k) \in Int
  BY Resolves
<1>3. CASE l < k
  BY <1>1, <1>3
<1>4. CASE k < l
  <2>1. When(k) < When(l)
    BY <1>1, <1>4
  <2> QED
    BY <1>2, <1>4, <2>1
<1>5. CASE l = k
  BY <1>2, <1>5
<1> QED
  BY <1>3, <1>4, <1>5

\* A reading already passed that is still to come was read before, and the
\* clock is not put back at this minute.
LEMMA ComesAgain ==
  ASSUME zone \in Zones, NEW n \in Int, NEW l \in Int, ReadsBack(l), n < When(l), l < Read(n)
  PROVE  /\ \E i \in Int : Read(i) = l /\ i < n
         /\ Read(n) = Read(n - 1) + 1
<1>1. /\ zone.before \in Int /\ zone.after \in Int /\ zone.at \in Int
  BY RuleClockAssumption
<1>2. n < zone.at /\ Read(l - zone.before) = l /\ l - zone.before < n
  BY <1>1 DEF When, ReadsBack, Read, Guessed, wallClockAt, offsetAt
<1>3. Read(n) = Read(n - 1) + 1
  BY <1>1, <1>2 DEF Read, wallClockAt, offsetAt
<1> QED
  BY <1>1, <1>2, <1>3

\* The firings ahead on a day are those of the readings of that day.
LEMMA AheadIs ==
  ASSUME zone \in Zones, standing \in Rules, NEW n \in Int, NEW d \in Int, NEW i
  PROVE  i \in Ahead(standing, d, n, zone) <=>
           \E l \in Int : /\ l % DayLength \in standing.at /\ DayOf(l) = d
                         /\ ReadsBack(l) /\ i = When(l) /\ n < i
<1>1. standing.at \subseteq 0..(DayLength - 1)
  BY RuleClockAssumption
<1>2. ASSUME i \in Ahead(standing, d, n, zone)
      PROVE  \E l \in Int : /\ l % DayLength \in standing.at /\ DayOf(l) = d
                            /\ ReadsBack(l) /\ i = When(l) /\ n < i
  <2>1. PICK t \in standing.at : i \in instantOfWallClock(d * DayLength + t, zone)
    BY <1>2 DEF Ahead
  <2> DEFINE l == (d * DayLength) + t
  <2>2. l \in Int /\ DayOf(l) = d /\ l % DayLength = t
    BY <1>1, <2>1, ReadingOf
  <2>3. i = When(l) /\ ReadsBack(l)
    BY <2>1 DEF instantOfWallClock, When, ReadsBack, Read
  <2>4. i \in Int /\ n < i
    <3>1. i > n
      BY <1>2 DEF Ahead
    <3>2. i \in Int
      BY <2>2, <2>3, Resolves
    <3> QED
      BY <3>1, <3>2
  <2> HIDE DEF l
  <2> QED
    BY <2>1, <2>2, <2>3, <2>4
<1>3. ASSUME NEW l \in Int, l % DayLength \in standing.at, DayOf(l) = d, ReadsBack(l), i = When(l), n < i
      PROVE  i \in Ahead(standing, d, n, zone)
  <2>1. l = (d * DayLength) + (l % DayLength) /\ i \in Int
    BY <1>3, Calendar, Resolves
  <2>2. i \in instantOfWallClock(d * DayLength + (l % DayLength), zone)
    BY <1>3, <2>1 DEF instantOfWallClock, When, ReadsBack, Read
  <2>3. i > n
    BY <1>3, <2>1
  <2> QED
    BY <1>3, <2>2, <2>3 DEF Ahead
<1> QED
  BY <1>2, <1>3

\* The next occurrence is the earliest of the firings still to come on the
\* days searched and after, when one of the days searched has any.
LEMMA NextFiring ==
  ASSUME zone \in Zones, standing \in Rules, NEW n \in Int
  PROVE  LET today == DayOf(Read(n))
             N     == nextRuleOccurrence(standing, n, zone)
         IN  \/ /\ N = {}
                /\ \A l \in Int : Firing(l) /\ n < When(l) => DayOf(l) \notin today..(today + Week)
             \/ \E m \in Int : /\ Firing(m) /\ N = {When(m)} /\ n < When(m)
                              /\ \A l \in Int : Firing(l) /\ n < When(l) /\ today <= DayOf(l)
                                                 => When(m) <= When(l)
<1> DEFINE today == DayOf(Read(n))
           A(d) == Ahead(standing, d, n, zone)
           found == {d \in Searched(n, zone) : d % Week \in standing.days /\ A(d) # {}}
           N == nextRuleOccurrence(standing, n, zone)
<1>1. today \in Int /\ Week \in Nat
  BY Reads, Calendar, RuleClockAssumption
<1>2. Searched(n, zone) = today..(today + Week)
  BY DEF Searched, DayOf, Read
<1>3. N = IF found = {} THEN {} ELSE {Min(A(Min(found)))}
  BY DEF nextRuleOccurrence
<1>4. ASSUME NEW l \in Int, Firing(l), n < When(l)
      PROVE  When(l) \in A(DayOf(l)) /\ (DayOf(l) \in today..(today + Week) => DayOf(l) \in found)
  <2>1. When(l) \in A(DayOf(l))
    BY <1>4, Calendar, AheadIs DEF Firing, Wanted
  <2> HIDE DEF A
  <2> QED
    BY <1>2, <1>4, <2>1 DEF Firing, Wanted
<1>5. CASE found = {}
  BY <1>3, <1>4, <1>5
<1>6. CASE found # {}
  <2> DEFINE d == Min(found)
  <2>1. d \in found /\ \A e \in found : d <= e
    <3>1. found \subseteq Int /\ \A e \in found : today <= e
      BY <1>1, <1>2
    <3> HIDE DEF found
    <3> QED
      BY <1>1, <1>6, <3>1, EarliestFrom
  <2>2. d \in Int /\ d % Week \in standing.days /\ A(d) # {} /\ today <= d /\ d <= today + Week
    <3>1. d \in Searched(n, zone) /\ d % Week \in standing.days /\ A(d) # {}
      BY <2>1
    <3> HIDE DEF d, A
    <3> QED
      BY <3>1, <1>1, <1>2
  <2> HIDE DEF found, d
  <2> DEFINE j == Min(A(d))
  <2>3. j \in A(d) /\ \A i \in A(d) : j <= i
    <3>1. ASSUME NEW i \in A(d) PROVE i \in Int /\ n <= i
      <4>1. PICK l \in Int : i = When(l) /\ n < i
        BY <2>2, AheadIs
      <4>2. i \in Int
        BY <4>1, Resolves
      <4> QED
        BY <4>1, <4>2
    <3>2. A(d) \in SUBSET Int /\ \A i \in A(d) : n <= i
      BY <3>1
    <3> HIDE DEF A
    <3> QED
      BY <2>2, <3>2, EarliestFrom
  <2>4. PICK m \in Int : /\ m % DayLength \in standing.at /\ DayOf(m) = d
                         /\ ReadsBack(m) /\ j = When(m) /\ n < j
    BY <2>2, <2>3, AheadIs
  <2>5. N = {j}
    BY <1>3, <1>6 DEF d
  <2>6. Firing(m)
    BY <2>2, <2>4 DEF Firing, Wanted
  <2>7. ASSUME NEW l \in Int, Firing(l), n < When(l), today <= DayOf(l)
        PROVE  When(m) <= When(l)
    <3>1. When(l) \in A(DayOf(l)) /\ (DayOf(l) \in today..(today + Week) => DayOf(l) \in found)
      BY <1>4, <2>7 DEF found
    <3>2. DayOf(l) \in Int /\ When(l) \in Int /\ When(m) \in Int
      BY Calendar, Resolves
    <3>3. CASE DayOf(l) = d
      BY <2>3, <2>4, <3>1, <3>3
    <3>4. CASE d < DayOf(l)
      <4>1. m < l
        BY <2>4, <3>4, LaterDay
      <4>2. When(m) < When(l)
        BY <2>4, <2>7, <4>1, KeepsOrder DEF Firing
      <4> QED
        BY <3>2, <4>2
    <3>5. CASE DayOf(l) < d
      <4>1. DayOf(l) \in today..(today + Week)
        BY <1>1, <2>2, <2>7, <3>2, <3>5
      <4>2. d <= DayOf(l)
        BY <2>1, <3>1, <4>1
      <4> QED
        BY <2>2, <3>2, <3>5, <4>2
    <3> QED
      BY <2>2, <3>2, <3>3, <3>4, <3>5
  <2>8. N = {When(m)} /\ n < When(m)
    BY <2>4, <2>5
  <2> HIDE DEF A
  <2> QED
    BY <2>6, <2>7, <2>8
<1> QED
  BY <1>5, <1>6

\* A firing owed is to come on today or after: one already passed that comes
\* again was read before, so it is not owed, or it was in what was searched.
LEMMA OwedIsAhead ==
  ASSUME RuleInv, due = {}, NEW l \in Int, Owed(l), minute < When(l)
  PROVE  DayOf(Read(minute)) <= DayOf(l)
<1>1. minute \in Int /\ zone \in Zones /\ ReadsBack(l) /\ Read(minute) \in Int /\ When(l) \in Int
  BY Reads, Resolves DEF RuleInv, Owed, Firing
<1>2. DayOf(l) \in Int /\ DayOf(Read(minute)) \in Int /\ Week \in Nat
  BY <1>1, Calendar, RuleClockAssumption
<1>3. SUFFICES ASSUME DayOf(l) < DayOf(Read(minute)) PROVE FALSE
  BY <1>2
<1>4. l < Read(minute)
  BY <1>1, <1>3, LaterDay
<1>5. (\E i \in Int : Read(i) = l /\ i < minute) /\ Read(minute) = Read(minute - 1) + 1
  BY <1>1, <1>4, ComesAgain
<1>6. CASE minute = FirstScan
  BY <1>1, <1>5, <1>6 DEF Owed
<1>7. CASE minute # FirstScan
  <2>1. DayOf(Read(minute - 1)) + Week < DayOf(l)
    BY <1>1, <1>7 DEF RuleInv, DueOK
  <2>2. Read(minute - 1) \in Int /\ DayOf(Read(minute - 1)) \in Int
    <3>1. Read(minute - 1) \in Int
      BY <1>1, Reads
    <3> QED
      BY <3>1, Calendar
  <2>3. Read(minute - 1) < l
    BY <1>2, <2>1, <2>2, LaterDay
  <2> QED
    BY <1>1, <1>4, <1>5, <2>2, <2>3
<1> QED
  BY <1>6, <1>7

\* What the schedule then holds, when every firing owed after this minute is
\* on today or after.
LEMMA DueNext ==
  ASSUME RuleInv, due' = nextRuleOccurrence(standing, minute, zone),
         minute' = minute + 1, UNCHANGED <<zone, standing>>,
         \A l \in Int : Owed(l) /\ minute < When(l) => DayOf(Read(minute)) <= DayOf(l)
  PROVE  DueOK'
<1> DEFINE today == DayOf(Read(minute))
<1>1. /\ minute \in Int /\ FirstScan \in Int /\ FirstScan <= minute
      /\ zone \in Zones /\ standing \in Rules /\ today \in Int /\ Week \in Nat
  BY Reads, Calendar, RuleClockAssumption DEF RuleInv
<1>2. minute' - 1 = minute /\ \A i \in Int : minute' <= i <=> minute < i
  BY <1>1
<1>3. /\ \A l : Owed(l)' <=> Owed(l)
      /\ \A l : Firing(l)' <=> Firing(l)
      /\ \A l : When(l)' = When(l)
      /\ DayOf(Read(minute - 1))' = today
  BY <1>2 DEF Owed, Firing, Wanted, ReadsBack, When, Read, DayOf
<1>4. \A l \in Int : When(l) \in Int /\ DayOf(l) \in Int /\ (Owed(l) => Firing(l))
  BY <1>1, Resolves, Calendar DEF Owed
<1>5. CASE /\ due' = {}
           /\ \A l \in Int : Firing(l) /\ minute < When(l) => DayOf(l) \notin today..(today + Week)
  <2>1. ASSUME NEW l \in Int, Owed(l), minute < When(l) PROVE today + Week < DayOf(l)
    <3>1. today <= DayOf(l) /\ DayOf(l) \notin today..(today + Week)
      BY <1>4, <1>5, <2>1
    <3> HIDE DEF today
    <3> QED
      BY <3>1, <1>1, <1>4
  <2>2. \A l \in Int : Owed(l)' /\ minute' <= When(l)' => DayOf(Read(minute - 1))' + Week < DayOf(l)
    BY <1>2, <1>3, <1>4, <2>1
  <2> QED
    BY <1>5, <2>2 DEF DueOK
<1>6. CASE \E m \in Int : /\ Firing(m) /\ due' = {When(m)} /\ minute < When(m)
                         /\ \A l \in Int : Firing(l) /\ minute < When(l) /\ today <= DayOf(l)
                                            => When(m) <= When(l)
  <2>1. PICK m \in Int : /\ Firing(m) /\ due' = {When(m)} /\ minute < When(m)
                         /\ \A l \in Int : Firing(l) /\ minute < When(l) /\ today <= DayOf(l)
                                            => When(m) <= When(l)
    BY <1>6
  <2>2. Firing(m)' /\ due' = {When(m)'} /\ minute' <= When(m)' /\ FirstScan < When(m)'
    BY <1>1, <1>2, <1>3, <1>4, <2>1
  <2>3. \A l \in Int : Owed(l)' /\ minute' <= When(l)' => When(m)' <= When(l)'
    BY <1>2, <1>3, <1>4, <2>1
  <2> QED
    BY <2>2, <2>3 DEF DueOK
<1> QED
  BY <1>1, <1>5, <1>6, NextFiring

LEMMA RuleBegins == RuleInit => RuleInv
<1> SUFFICES ASSUME RuleInit PROVE RuleInv
  OBVIOUS
<1>1. minute = FirstScan /\ FirstScan \in Int /\ zone \in Zones /\ standing \in Rules /\ due = {} /\ fired = {}
  BY RuleClockAssumption DEF RuleInit
<1>2. ASSUME NEW l \in Int, Owed(l) PROVE ~(When(l) < minute)
  <2>1. Read(When(l)) = l /\ When(l) \in Int
    BY <1>1, <1>2, Resolves DEF Owed, Firing, ReadsBack
  <2>2. FirstScan < When(l)
    BY <1>2, <2>1 DEF Owed
  <2> QED
    BY <1>1, <2>1, <2>2
<1>3. DueOK
  BY <1>1 DEF DueOK
<1> QED
  BY <1>1, <1>2, <1>3 DEF RuleInv

\* A scan keeps the invariant when it keeps what is due in order, fires what
\* comes in its minute and nothing else.
LEMMA ScanKeeps ==
  ASSUME RuleInv, minute < LastScan, minute' = minute + 1, UNCHANGED <<zone, standing>>,
         fired \subseteq fired', DueOK',
         \A i \in fired' : i \in fired \/ \E l \in Int : Firing(l) /\ i = When(l) /\ FirstScan < i /\ i = minute,
         \A l \in Int : Owed(l) /\ When(l) = minute => When(l) \in fired'
  PROVE  RuleInv'
<1>1. /\ minute \in Int /\ FirstScan \in Int /\ LastScan \in Int /\ FirstScan <= minute
      /\ zone \in Zones /\ standing \in Rules
  BY RuleClockAssumption DEF RuleInv
<1>2. /\ \A l : Owed(l)' <=> Owed(l)
      /\ \A l : Firing(l)' <=> Firing(l)
      /\ \A l : When(l)' = When(l)
  BY DEF Owed, Firing, Wanted, ReadsBack, When, Read
<1>3. minute' \in Int /\ FirstScan <= minute' /\ minute' <= LastScan
  BY <1>1
<1>4. ASSUME NEW i \in fired'
      PROVE  \E l \in Int : Firing(l)' /\ i = When(l)' /\ FirstScan < i /\ i < minute'
  <2>1. PICK l \in Int : Firing(l) /\ i = When(l) /\ FirstScan < i /\ (i < minute \/ i = minute)
    BY DEF RuleInv
  <2>2. i \in Int
    BY <1>1, <2>1, Resolves
  <2>3. i < minute'
    BY <1>1, <2>1, <2>2
  <2> QED
    BY <1>2, <2>1, <2>3
<1>5. ASSUME NEW l \in Int, Owed(l)', When(l)' < minute'
      PROVE  When(l)' \in fired'
  <2>1. Owed(l) /\ When(l) < minute' /\ When(l) \in Int
    BY <1>1, <1>2, <1>5, Resolves
  <2>2. When(l) < minute \/ When(l) = minute
    BY <1>1, <2>1
  <2>3. When(l) < minute => When(l) \in fired
    BY <2>1 DEF RuleInv
  <2> QED
    BY <1>2, <2>1, <2>2, <2>3
<1> QED
  BY <1>1, <1>3, <1>4, <1>5 DEF RuleInv

LEMMA SightStep == ASSUME RuleInv, Sight PROVE RuleInv'
<1>1. /\ minute \in Int /\ zone \in Zones /\ standing \in Rules /\ FirstScan \in Int /\ FirstScan <= minute
      /\ Week \in Nat /\ Week >= 2
  BY RuleClockAssumption DEF RuleInv
<1>2. due = {}
  BY DEF Sight
<1>3. DueOK'
  <2>1. \A l \in Int : Owed(l) /\ minute < When(l) => DayOf(Read(minute)) <= DayOf(l)
    BY <1>2, OwedIsAhead
  <2> QED
    BY <2>1, DueNext DEF Sight
<1>4. ASSUME NEW l \in Int, Owed(l), When(l) = minute PROVE FALSE
  <2>1. Read(minute) = l
    BY <1>4 DEF Owed, Firing, ReadsBack
  <2>2. minute # FirstScan
    BY <1>1, <1>4, <2>1 DEF Owed
  <2>3. DayOf(Read(minute - 1)) + Week < DayOf(l)
    BY <1>1, <1>2, <1>4, <2>2 DEF RuleInv, DueOK
  <2>4. /\ minute - 1 \in Int /\ (minute - 1) + 1 = minute
    BY <1>1
  <2>5. Read(minute - 1) \in Int /\ l <= Read(minute - 1) + 1 + DayLength
    BY <1>1, <2>1, <2>4, Reads
  <2>6. DayOf(l) <= DayOf(Read(minute - 1)) + 2
    BY <2>5, DayAfterNext
  <2>7. DayOf(l) \in Int /\ DayOf(Read(minute - 1)) \in Int
    BY <2>5, Calendar
  <2> QED
    BY <1>1, <2>3, <2>6, <2>7
<1> QED
  BY <1>3, <1>4, ScanKeeps DEF Sight

\* What is due, when something is.
LEMMA DueIs ==
  ASSUME RuleInv, due # {}
  PROVE  \E n \in Int : /\ Firing(n) /\ due = {When(n)} /\ Min(due) = When(n) /\ When(n) \in Int
                       /\ minute <= When(n) /\ FirstScan < When(n)
                       /\ \A l \in Int : Owed(l) /\ minute <= When(l) => When(n) <= When(l)
<1>1. PICK n \in Int : /\ Firing(n) /\ due = {When(n)}
                       /\ minute <= When(n) /\ FirstScan < When(n)
                       /\ \A l \in Int : Owed(l) /\ minute <= When(l) => When(n) <= When(l)
  BY DEF RuleInv, DueOK
<1>2. When(n) \in Int
  BY Resolves DEF RuleInv
<1>3. Min(due) \in due
  BY <1>1, <1>2, EarliestFrom
<1> QED
  BY <1>1, <1>2, <1>3

LEMMA FireStep == ASSUME RuleInv, Fire PROVE RuleInv'
<1>1. minute \in Int /\ zone \in Zones /\ standing \in Rules
  BY DEF RuleInv
<1>2. PICK n \in Int : /\ Firing(n) /\ due = {When(n)} /\ Min(due) = When(n) /\ When(n) \in Int
                       /\ minute <= When(n) /\ FirstScan < When(n)
  BY DueIs DEF Fire
<1>3. When(n) = minute
  BY <1>1, <1>2 DEF Fire
<1>4. Read(minute) = n /\ ReadsBack(n)
  BY <1>2, <1>3 DEF Firing, ReadsBack
<1>5. ASSUME NEW l \in Int, Owed(l), minute < When(l) PROVE DayOf(Read(minute)) <= DayOf(l)
  <2>1. n < l
    BY <1>1, <1>3, <1>4, <1>5, KeepsOrder DEF Owed, Firing
  <2>2. DayOf(l) < DayOf(n) => l < n
    BY LaterDay
  <2>3. DayOf(l) \in Int /\ DayOf(n) \in Int
    BY Calendar
  <2> QED
    BY <1>4, <2>1, <2>2, <2>3
<1>6. DueOK'
  BY <1>5, DueNext DEF Fire
<1>7. ASSUME NEW l \in Int, Owed(l), When(l) = minute PROVE When(l) \in fired'
  BY <1>2, <1>3, <1>7 DEF Fire
<1>8. fired' = fired \cup {minute}
  BY <1>2, <1>3 DEF Fire
<1> QED
  BY <1>2, <1>3, <1>6, <1>7, <1>8, ScanKeeps DEF Fire

LEMMA AwaitDueStep == ASSUME RuleInv, AwaitDue PROVE RuleInv'
<1>1. minute \in Int /\ zone \in Zones
  BY DEF RuleInv
<1>2. PICK n \in Int : /\ Firing(n) /\ due = {When(n)} /\ Min(due) = When(n) /\ When(n) \in Int
                       /\ minute <= When(n) /\ FirstScan < When(n)
                       /\ \A l \in Int : Owed(l) /\ minute <= When(l) => When(n) <= When(l)
  BY DueIs DEF AwaitDue
<1>3. minute < When(n) /\ minute' <= When(n)
  BY <1>1, <1>2 DEF AwaitDue
<1>4. ASSUME NEW l \in Int, Owed(l), When(l) = minute PROVE FALSE
  BY <1>1, <1>2, <1>3, <1>4
<1>5. /\ \A l : Owed(l)' <=> Owed(l)
      /\ \A l : Firing(l)' <=> Firing(l)
      /\ \A l : When(l)' = When(l)
  BY DEF AwaitDue, Owed, Firing, Wanted, ReadsBack, When, Read
<1>6. \A l \in Int : When(l) \in Int /\ (minute' <= When(l) => minute <= When(l))
  <2>1. \A l \in Int : When(l) \in Int
    BY <1>1, Resolves
  <2> QED
    BY <1>1, <2>1 DEF AwaitDue
<1>7. DueOK'
  <2>1. Firing(n)' /\ due' = {When(n)'} /\ minute' <= When(n)' /\ FirstScan < When(n)'
    BY <1>2, <1>3, <1>5 DEF AwaitDue
  <2>2. \A l \in Int : Owed(l)' /\ minute' <= When(l)' => When(n)' <= When(l)'
    BY <1>2, <1>5, <1>6
  <2> QED
    BY <2>1, <2>2 DEF DueOK
<1> QED
  BY <1>4, <1>7, ScanKeeps DEF AwaitDue

LEMMA RuleStep == RuleInv /\ [RuleNext]_ruleVars => RuleInv'
<1> SUFFICES ASSUME RuleInv, [RuleNext]_ruleVars PROVE RuleInv'
  OBVIOUS
<1>1. CASE Sight
  BY <1>1, SightStep
<1>2. CASE Fire
  BY <1>2, FireStep
<1>3. CASE AwaitDue
  BY <1>3, AwaitDueStep
<1>4. CASE UNCHANGED ruleVars
  BY <1>4 DEF ruleVars, RuleInv, DueOK, Owed, Firing, Wanted, ReadsBack, When, Read
<1> QED
  BY <1>1, <1>2, <1>3, <1>4 DEF RuleNext

\* Of a time whose readings have all passed since the first scan, what was
\* fired is the instant it is resolved to.
LEMMA FiredOnce ==
  ASSUME RuleInv, NEW l \in Named, Readings(l) # {},
         \A i \in Readings(l) : FirstScan < i /\ i < minute
  PROVE  fired \cap Readings(l) = {When(l)}
<1>1. /\ minute \in Int /\ zone \in Zones /\ l \in Int /\ When(l) \in Int
      /\ FirstScan \in Int /\ LastScan \in Int /\ DayLength \in Nat
      /\ (minute = FirstScan \/ minute <= LastScan)
  BY Resolves, RuleClockAssumption DEF RuleInv, Named
<1>2. PICK i \in Readings(l) : FirstScan < i /\ i < minute
  OBVIOUS
<1>3. i \in Int /\ Read(i) = l
  BY <1>1 DEF Readings, Read
<1>4. ASSUME NEW k \in Int, Read(k) = l PROVE k \in Readings(l)
  <2>1. k \in (i - DayLength)..(i + DayLength)
    BY <1>1, <1>3, <1>4, Reads
  <2>2. i <= LastScan
    BY <1>1, <1>2, <1>3
  <2>3. k \in (FirstScan - DayLength)..(LastScan + DayLength)
    BY <1>1, <1>2, <1>3, <2>1, <2>2
  <2> QED
    BY <1>4, <2>3 DEF Readings, Read
<1>5. ReadsBack(l)
  BY <1>1, <1>3, Resolves
<1>6. Owed(l)
  BY <1>4, <1>5 DEF Owed, Firing, Wanted, Named, DayOf
<1>7. When(l) \in Readings(l)
  BY <1>1, <1>4, <1>5 DEF ReadsBack
<1>8. When(l) \in fired
  BY <1>1, <1>6, <1>7 DEF RuleInv
<1>9. ASSUME NEW k \in fired, k \in Readings(l) PROVE k = When(l)
  <2>1. PICK m \in Int : Firing(m) /\ k = When(m)
    BY DEF RuleInv
  <2>2. Read(k) = m /\ Read(k) = l
    BY <1>9, <2>1 DEF Firing, ReadsBack, Readings, Read
  <2> QED
    BY <2>1, <2>2
<1> QED
  BY <1>7, <1>8, <1>9

\* rule-clock.ts looks eight days ahead, resolves a time by two offsets and
\* drops what does not read back: over a transition of up to a day either
\* way, no time is fired twice or missed, for any rule in any zone.
THEOREM OnceEach == RuleSpec => []OncePerReading
<1>1. RuleInv => OncePerReading
  <2> SUFFICES ASSUME RuleInv PROVE OncePerReading
    OBVIOUS
  <2>1. ASSUME NEW l \in Named, Readings(l) # {},
               \A i \in Readings(l) : FirstScan < i /\ i < minute
        PROVE  Cardinality(fired \cap Readings(l)) = 1
    BY <2>1, FiredOnce, FS_Singleton
  <2>2. ASSUME NEW i \in fired PROVE \E l \in Named : i \in Readings(l)
    <3>1. PICK l \in Int : Firing(l) /\ i = When(l) /\ FirstScan < i /\ i < minute
      BY DEF RuleInv
    <3>2. /\ zone \in Zones /\ minute \in Int /\ FirstScan \in Int /\ LastScan \in Int
          /\ DayLength \in Nat /\ i \in Int /\ (minute = FirstScan \/ minute <= LastScan)
      BY <3>1, Resolves, RuleClockAssumption DEF RuleInv
    <3>3. Read(i) = l /\ l \in (i - DayLength)..(i + DayLength)
      BY <3>1, <3>2, Reads DEF Firing, ReadsBack
    <3>4. FirstScan <= i /\ i <= LastScan
      BY <3>1, <3>2
    <3>5. /\ l \in (FirstScan - DayLength)..(LastScan + DayLength)
          /\ i \in (FirstScan - DayLength)..(LastScan + DayLength)
      BY <3>2, <3>3, <3>4
    <3> QED
      BY <3>1, <3>3, <3>5 DEF Named, Readings, Read, Firing, Wanted, DayOf
  <2> QED
    BY <2>1, <2>2 DEF OncePerReading
<1> QED
  BY <1>1, RuleBegins, RuleStep, PTL DEF RuleSpec

\* The offset at the reading, taken for an instant, is that of the later of two
\* readings when that offset is not behind UTC.
LEMMA EastOfUTC ==
  ASSUME zone \in Zones, zone.after >= 0, NEW l \in Int, ReadsBack(l), NEW i \in Int, Read(i) = l
  PROVE  i <= When(l)
BY RuleClockAssumption DEF When, ReadsBack, Read, Guessed, wallClockAt, offsetAt

\* West of it, it is that of the earlier.
LEMMA WestOfUTC ==
  ASSUME zone \in Zones, zone.before < 0, NEW l \in Int, ReadsBack(l), NEW i \in Int, Read(i) = l
  PROVE  When(l) <= i
BY RuleClockAssumption DEF When, ReadsBack, Read, Guessed, wallClockAt, offsetAt

\* What is fired of a reading is the instant it is resolved to.
LEMMA FiredReading ==
  ASSUME RuleInv, NEW l \in Named, NEW i \in fired \cap Readings(l)
  PROVE  /\ zone \in Zones /\ l \in Int /\ ReadsBack(l) /\ i = When(l)
         /\ \A k \in Readings(l) : k \in Int /\ Read(k) = l
<1>1. zone \in Zones /\ i \in Int /\ Read(i) = l
  BY RuleClockAssumption DEF RuleInv, Readings, Read
<1>2. PICK n \in Int : Firing(n) /\ i = When(n)
  BY DEF RuleInv
<1>3. n = l /\ ReadsBack(l)
  BY <1>1, <1>2 DEF Firing, ReadsBack
<1>4. \A k \in Readings(l) : k \in Int /\ Read(k) = l
  BY RuleClockAssumption DEF Readings, Read
<1> QED
  BY <1>1, <1>2, <1>3, <1>4

\* What rule-clock.ts says of a time that happens twice, that it fires at the
\* later reading, is so in every zone that comes out of its transition at UTC
\* or east of it, whatever the transition.
THEOREM LaterIfEast ==
  ASSUME \A z \in Zones : z.after >= 0
  PROVE  RuleSpec => []LaterReading
<1>1. ASSUME RuleInv, NEW l \in Named, NEW i \in fired \cap Readings(l)
      PROVE  i = Max(Readings(l))
  <2>1. \A k \in Readings(l) : k \in Int /\ k <= i
    BY <1>1, FiredReading, EastOfUTC
  <2>2. i \in Readings(l) /\ i \in Int
    BY <2>1
  <2>3. \A x \in Readings(l) : (\A k \in Readings(l) : x >= k) => x = i
    BY <2>1, <2>2
  <2> QED
    BY <2>1, <2>2, <2>3 DEF Max
<1>2. RuleInv => LaterReading
  BY <1>1 DEF LaterReading
<1> QED
  BY <1>2, RuleBegins, RuleStep, PTL DEF RuleSpec

\* In every zone that goes into its transition west of UTC it fires at the
\* earlier one instead (MCLaterReading.cfg).
EarlierReading == \A l \in Named : \A i \in fired \cap Readings(l) : i = Min(Readings(l))

THEOREM EarlierIfWest ==
  ASSUME \A z \in Zones : z.before < 0
  PROVE  RuleSpec => []EarlierReading
<1>1. ASSUME RuleInv, NEW l \in Named, NEW i \in fired \cap Readings(l)
      PROVE  i = Min(Readings(l))
  <2>1. \A k \in Readings(l) : k \in Int /\ i <= k
    BY <1>1, FiredReading, WestOfUTC
  <2>2. i \in Readings(l) /\ i \in Int
    BY <2>1
  <2>3. \A x \in Readings(l) : (\A k \in Readings(l) : x <= k) => x = i
    BY <2>1, <2>2
  <2> QED
    BY <2>1, <2>2, <2>3 DEF Min
<1>2. RuleInv => EarlierReading
  BY <1>1 DEF EarlierReading
<1> QED
  BY <1>2, RuleBegins, RuleStep, PTL DEF RuleSpec

-----------------------------------------------------------------------------
(***************************************************************************)
(* The card's inductive invariant                                          *)
(***************************************************************************)
\* The states of a ticket that was approved, or denied, once.
SettledTo(v) == IF v = "approved" THEN {"approved", "spent", "lapsed"} ELSE {"denied", "lapsed"}

Answered ==
  \A c \in Clicks : click[c].answer \in Verdicts => status[Ticket] \in SettledTo(click[c].answer)

Settled == wait.settled \in Verdicts => status[Ticket] \in SettledTo(wait.settled)

Served ==
  /\ runs[Ticket] = 1 => (status[Ticket] = "spent" /\ call \in {"ran", "failed"})
  /\ call = "ran" => runs[Ticket] = 1
  /\ call = "spent" => status[Ticket] = "spent"

Written ==
  /\ ~wait.finished => issued = {}
  /\ wait.settled = "none" => ~wait.finished
  /\ wait.completed => (wait.finished /\ wait.settled = "approved")
  /\ wait.settled = "denied" => issued \subseteq {"denied"}
  /\ wait.settled = "expired" => issued \subseteq {"expired"}
  /\ (wait.settled = "approved" /\ ~wait.completed) => issued \subseteq {"running"}
  /\ (wait.settled = "approved" /\ wait.completed) =>
       \E f \in {"approved", "refused", "unanswered"} : issued \subseteq {"running", f}

Painted ==
  /\ "approved" \in issued => call = "ran"
  /\ "refused" \in issued => call = "refused"

\* The faces of the first repaint.
First == {"running", "denied", "expired"}

Turns ==
  /\ updates \subseteq issued
  /\ task \in {"held", "resolved"} => call = "none"
  /\ wait.post \notin {"posted", "failed"} => ~wait.finished
  /\ (wait.post # "none" /\ ~wait.finished) => task = "held"
  /\ updates \cap First # {} => task = "held"

CardInv == TypeOK /\ Answered /\ Settled /\ Served /\ Written /\ Painted /\ Turns

-----------------------------------------------------------------------------
(***************************************************************************)
(* What a step of the prompter, of the proxy and of the card does.         *)
(***************************************************************************)
\* A wait that has the marks of the present one, and may have a newer end or
\* the post's answer.
Newer(w) ==
  /\ w \in Wait /\ w.finished = wait.finished /\ w.completed = wait.completed
  /\ wait.settled # "none" => w.settled = wait.settled
  /\ w.post # wait.post => (wait.post # "none" /\ w.post # "none")
  /\ w.post = wait.post \/ w.post \in {"posted", "failed"}

LEMMA FinishWrites ==
  ASSUME TypeOK, Written, Turns, NEW w, Newer(w), Finish(w), call' = call
  PROVE  /\ wait' \in Wait /\ updates' \subseteq Faces /\ issued' \subseteq Faces
         /\ task' \in {"held", "resolved", "waiting", "over"}
         /\ wait'.settled = w.settled
         /\ "approved" \in issued' => "approved" \in issued
         /\ "refused" \in issued' => "refused" \in issued
         /\ Written' /\ Turns'
<1>1. /\ w \in Wait /\ w.finished = wait.finished /\ w.completed = wait.completed
      /\ wait.settled # "none" => w.settled = wait.settled
      /\ w.post # wait.post => (wait.post # "none" /\ w.post # "none")
      /\ w.post = wait.post \/ w.post \in {"posted", "failed"}
  BY DEF Newer
<1>2. /\ w.settled \in {"approved", "denied", "expired", "none"} /\ w.finished \in BOOLEAN /\ w.completed \in BOOLEAN
      /\ wait.settled \in {"approved", "denied", "expired", "none"}
  BY <1>1 DEF TypeOK, Wait, Ends, Verdicts
<1>3. issued \subseteq Faces /\ updates \subseteq Faces /\ task \in {"held", "resolved", "waiting", "over"}
  BY DEF TypeOK
<1>4. CASE w.finished \/ w.settled = "none" \/ w.post \notin {"posted", "failed"}
  <2>1. wait' = w /\ updates' = updates /\ issued' = issued /\ task' = task
    BY <1>4 DEF Finish
  <2>2. Written'
    <3>1. CASE wait.settled # "none"
      BY <1>1, <1>2, <2>1, <3>1 DEF Written
    <3>2. CASE wait.settled = "none"
      <4>1. ~wait.finished /\ issued = {} /\ ~wait.completed
        BY <3>2 DEF Written
      <4>2. ~wait'.finished /\ ~wait'.completed /\ issued' = {}
        BY <1>1, <2>1, <4>1
      <4> QED
        BY <4>2 DEF Written
    <3> QED
      BY <3>1, <3>2
  <2>3. Turns'
    BY <1>1, <2>1 DEF Turns
  <2> QED
    BY <1>1, <1>3, <2>1, <2>2, <2>3
<1>5. CASE ~(w.finished \/ w.settled = "none" \/ w.post \notin {"posted", "failed"})
  <2>1. ~wait.finished /\ issued = {} /\ updates = {} /\ ~wait.completed /\ ~w.completed
    BY <1>1, <1>5 DEF Written, Turns
  <2>2. wait' = [w EXCEPT !.finished = TRUE]
    BY <1>5 DEF Finish
  <2>3. /\ wait' \in Wait /\ wait'.settled = w.settled /\ wait'.finished /\ ~wait'.completed
        /\ wait'.post = w.post
    BY <1>1, <2>1, <2>2 DEF Wait
  <2>4. task = "held" /\ call = "none"
    <3>1. wait.post # "none"
      BY <1>1, <1>5
    <3> QED
      BY <2>1, <3>1 DEF Turns
  <2>5. CASE w.post = "posted"
    <3>1. updates' = {FaceOf(w.settled)} /\ issued' = {FaceOf(w.settled)} /\ task' = task
      BY <1>5, <2>1, <2>5 DEF Finish, Paint
    <3>2. FaceOf(w.settled) = IF w.settled = "approved" THEN "running" ELSE w.settled
      BY DEF FaceOf
    <3>3. FaceOf(w.settled) \in Faces /\ FaceOf(w.settled) \notin {"approved", "refused"}
      BY <1>2, <1>5, <3>2 DEF Faces, Final
    <3>4. Written'
      BY <1>2, <1>5, <2>3, <3>1, <3>2 DEF Written
    <3>5. Turns'
      BY <2>3, <2>4, <2>5, <3>1 DEF Turns
    <3> QED
      BY <1>3, <2>3, <3>1, <3>3, <3>4, <3>5
  <2>6. CASE w.post # "posted"
    <3>1. updates' = {} /\ issued' = {} /\ task' = "resolved"
      BY <1>5, <2>1, <2>6 DEF Finish
    <3>2. Written'
      BY <1>5, <2>3, <3>1 DEF Written
    <3>3. Turns'
      BY <1>5, <2>3, <2>4, <3>1 DEF Turns
    <3> QED
      BY <2>3, <3>1, <3>2, <3>3
  <2> QED
    BY <2>5, <2>6
<1> QED
  BY <1>4, <1>5

\* A step that leaves the proxy, the clicks' answers and the call alone, and
\* gives the wait a newer state whose end is one the proxy answered, or none.
LEMMA PrompterKeeps ==
  ASSUME CardInv, NEW w, Newer(w), Finish(w),
         w.settled \in Verdicts => status[Ticket] \in SettledTo(w.settled),
         UNCHANGED <<status, runs, shown, call>>, aborted' \in BOOLEAN,
         click' \in [Clicks -> Click], \A c \in Clicks : click'[c].answer = click[c].answer
  PROVE  CardInv'
<1>1. /\ TypeOK /\ Answered /\ Served /\ Written /\ Painted /\ Turns
      /\ status' = status /\ runs' = runs /\ shown' = shown /\ call' = call
  BY DEF CardInv
<1>2. /\ wait' \in Wait /\ updates' \subseteq Faces /\ issued' \subseteq Faces
      /\ task' \in {"held", "resolved", "waiting", "over"}
      /\ wait'.settled = w.settled
      /\ "approved" \in issued' => "approved" \in issued
      /\ "refused" \in issued' => "refused" \in issued
      /\ Written' /\ Turns'
  BY <1>1, FinishWrites
<1>3. TypeOK'
  BY <1>1, <1>2 DEF TypeOK
<1>4. Answered'
  BY <1>1 DEF Answered
<1>5. Settled'
  BY <1>1, <1>2 DEF Settled
<1>6. Served'
  BY <1>1 DEF Served
<1>7. Painted'
  BY <1>1, <1>2 DEF Painted
<1> QED
  BY <1>2, <1>3, <1>4, <1>5, <1>6, <1>7 DEF CardInv

\* Whatever the proxy does with the ticket, what it was settled with stands.
LEMMA ProxyKeeps ==
  ASSUME TypeOK,
         \/ \E v \in Verdicts : Proxy!Settle(Ticket, v)
         \/ Proxy!Spend(Ticket)
         \/ Proxy!Run(Ticket)
         \/ (status[Ticket] \in {"open", "approved", "denied"} /\ Proxy!Lapse({Ticket}))
         \/ UNCHANGED proxyVars
  PROVE  /\ status' \in [{Ticket} -> Proxy!Status] /\ runs' \in [{Ticket} -> {0, 1}]
         /\ \A v \in Verdicts : status[Ticket] \in SettledTo(v) => status'[Ticket] \in SettledTo(v)
         /\ status[Ticket] = "spent" => status'[Ticket] = "spent"
<1> DEFINE Kept == /\ status' \in [{Ticket} -> Proxy!Status] /\ runs' \in [{Ticket} -> {0, 1}]
                   /\ \A v \in Verdicts : status[Ticket] \in SettledTo(v) => status'[Ticket] \in SettledTo(v)
                   /\ status[Ticket] = "spent" => status'[Ticket] = "spent"
<1>1. status \in [{Ticket} -> Proxy!Status] /\ runs \in [{Ticket} -> {0, 1}]
  BY DEF TypeOK
<1>2. ASSUME NEW v \in Verdicts, Proxy!Settle(Ticket, v) PROVE Kept
  BY <1>1, <1>2 DEF Proxy!Settle, Proxy!Status, SettledTo, Verdicts
<1>3. ASSUME Proxy!Spend(Ticket) PROVE Kept
  BY <1>1, <1>3 DEF Proxy!Spend, Proxy!Status, SettledTo, Verdicts
<1>4. ASSUME Proxy!Run(Ticket) PROVE Kept
  BY <1>1, <1>4 DEF Proxy!Run
<1>5. ASSUME status[Ticket] \in {"open", "approved", "denied"}, Proxy!Lapse({Ticket}) PROVE Kept
  <2>1. status' = [t \in {Ticket} |-> "lapsed"] /\ runs' = runs
    BY <1>5 DEF Proxy!Lapse, Proxy!Lapsed
  <2> QED
    BY <1>1, <1>5, <2>1 DEF Proxy!Status, SettledTo, Verdicts
<1>6. ASSUME UNCHANGED proxyVars PROVE Kept
  BY <1>1, <1>6 DEF proxyVars
<1> QED
  BY <1>2, <1>3, <1>4, <1>5, <1>6

-----------------------------------------------------------------------------
(***************************************************************************)
(* One step per action.                                                    *)
(***************************************************************************)
LEMMA CardBegins == Init => CardInv
<1> SUFFICES ASSUME Init PROVE CardInv
  OBVIOUS
<1>1. TypeOK
  BY DEF Init, TypeOK, Wait, Ends, Verdicts, Click, Unclicked, Proxy!Status, Faces, Final
<1>2. Answered /\ Settled /\ Served
  BY DEF Init, Answered, Settled, Served, Unclicked, Verdicts
<1>3. Written /\ Painted /\ Turns
  BY DEF Init, Written, Painted, Turns
<1> QED
  BY <1>1, <1>2, <1>3 DEF CardInv

\* A wait's end is one the proxy answered, or no verdict at all.
LEMMA SettleKeeps ==
  ASSUME CardInv, NEW w \in Wait, NEW end \in Ends, Settle(w, end),
         w.finished = wait.finished, w.completed = wait.completed,
         w.settled = wait.settled, w.post # wait.post => (wait.post # "none" /\ w.post # "none"),
         w.post = wait.post \/ w.post \in {"posted", "failed"},
         end \in Verdicts => status[Ticket] \in SettledTo(end),
         UNCHANGED <<status, runs, shown, call>>, aborted' \in BOOLEAN,
         click' \in [Clicks -> Click], \A c \in Clicks : click'[c].answer = click[c].answer
  PROVE  CardInv'
<1>1. CASE w.settled = "none"
  <2> DEFINE v == [w EXCEPT !.settled = end]
  <2>1. Finish(v)
    BY <1>1 DEF Settle
  <2>2. v \in Wait /\ v.settled = end /\ v.post = w.post /\ v.finished = w.finished /\ v.completed = w.completed
    BY DEF Wait
  <2>3. Newer(v)
    BY <1>1, <2>2 DEF Newer
  <2> QED
    BY <2>1, <2>2, <2>3, PrompterKeeps
<1>2. CASE w.settled # "none"
  <2>1. wait' = w /\ updates' = updates /\ issued' = issued /\ task' = task
    BY <1>2 DEF Settle
  <2>2. Written'
    <3>1. Written
      BY DEF CardInv
    <3> QED
      BY <1>2, <2>1, <3>1 DEF Written
  <2>3. Turns'
    BY <2>1 DEF CardInv, Turns
  <2>4. TypeOK'
    BY <2>1 DEF CardInv, TypeOK
  <2>5. Answered'
    BY DEF CardInv, Answered
  <2>6. Settled'
    BY <2>1 DEF CardInv, Settled
  <2>7. Served' /\ Painted'
    BY <2>1 DEF CardInv, Served, Painted
  <2> QED
    BY <2>2, <2>3, <2>4, <2>5, <2>6, <2>7 DEF CardInv
<1> QED
  BY <1>1, <1>2

LEMMA HoldKeeps == ASSUME CardInv, Hold PROVE CardInv'
<1>1. /\ wait \in Wait /\ task = "held" /\ wait.post = "none"
      /\ UNCHANGED <<status, runs, shown, updates, issued, click, call, aborted>>
  BY DEF Hold, CardInv, TypeOK
<1>2. ~wait.finished /\ call = "none" /\ updates \cap First = {}
  <2>1. ~wait.finished /\ call = "none"
    BY <1>1 DEF CardInv, Turns
  <2>2. issued = {}
    BY <2>1 DEF CardInv, Written
  <2> QED
    BY <2>1, <2>2 DEF CardInv, Turns
<1>3. /\ wait' \in Wait /\ wait'.settled = wait.settled /\ wait'.finished = wait.finished
      /\ wait'.completed = wait.completed /\ wait'.post \in {"none", "sent"}
      /\ task' \in {"held", "resolved"}
      /\ wait'.post # "none" => task' = "held"
  <2>1. CASE aborted
    BY <1>1, <2>1 DEF Hold
  <2>2. CASE ~aborted
    BY <1>1, <2>2 DEF Hold, Wait
  <2> QED
    BY <2>1, <2>2
<1>4. TypeOK'
  <2>1. TypeOK
    BY DEF CardInv
  <2>2. task' \in {"held", "resolved", "waiting", "over"}
    BY <1>3
  <2> QED
    BY <1>1, <1>3, <2>1, <2>2 DEF TypeOK
<1>5. Answered' /\ Settled' /\ Served' /\ Painted'
  BY <1>1, <1>3 DEF CardInv, Answered, Settled, Served, Painted
<1>6. Written'
  BY <1>1, <1>3 DEF CardInv, Written
<1>7. Turns'
  <2>1. updates' \subseteq issued' /\ call' = "none" /\ ~wait'.finished /\ updates' \cap First = {}
    BY <1>1, <1>2, <1>3 DEF CardInv, Turns
  <2> QED
    BY <1>3, <2>1 DEF Turns
<1> QED
  BY <1>4, <1>5, <1>6, <1>7 DEF CardInv

\* A step of the channel or of a click whose answer is as before.
LEMMA OutsideKeeps ==
  ASSUME CardInv, UNCHANGED <<status, runs, wait, updates, issued, task, call, aborted>>,
         shown' \in Faces \cup {"nothing", "awaiting"},
         click' \in [Clicks -> Click],
         \A c \in Clicks : click'[c].answer \in Verdicts => click'[c].answer = click[c].answer
  PROVE  CardInv'
<1>1. TypeOK'
  BY DEF CardInv, TypeOK
<1>2. Answered'
  BY DEF CardInv, Answered
<1>3. Settled' /\ Served' /\ Painted'
  BY DEF CardInv, Settled, Served, Painted
<1>4. Written' /\ Turns'
  BY DEF CardInv, Written, Turns
<1> QED
  BY <1>1, <1>2, <1>3, <1>4 DEF CardInv

LEMMA CardAppearsKeeps == ASSUME CardInv, CardAppears PROVE CardInv'
<1>1. click \in [Clicks -> Click]
  BY DEF CardInv, TypeOK
<1> QED
  BY <1>1, OutsideKeeps DEF CardAppears

LEMMA PressKeeps == ASSUME CardInv, NEW c \in Clicks, NEW v \in Verdicts, Press(c, v) PROVE CardInv'
<1>1. click \in [Clicks -> Click] /\ shown \in Faces \cup {"nothing", "awaiting"}
  BY DEF CardInv, TypeOK
<1>2. [at |-> "clicked", verdict |-> v, answer |-> "none"] \in Click
  BY DEF Click
<1>3. click' = [click EXCEPT ![c] = [at |-> "clicked", verdict |-> v, answer |-> "none"]]
  BY DEF Press
<1>4. click' \in [Clicks -> Click]
  BY <1>1, <1>2, <1>3
<1>5. \A d \in Clicks : click'[d].answer \in Verdicts => click'[d].answer = click[d].answer
  BY <1>1, <1>3 DEF Verdicts
<1> QED
  BY <1>1, <1>4, <1>5, OutsideKeeps DEF Press

\* A click that moves on, with the answer it has.
LEMMA ClickMoves ==
  ASSUME click \in [Clicks -> Click], NEW c \in Clicks,
         NEW at \in {"none", "clicked", "relayed", "failed", "over"},
         click' = [click EXCEPT ![c].at = at]
  PROVE  click' \in [Clicks -> Click] /\ \A d \in Clicks : click'[d].answer = click[d].answer
<1>1. \A d \in Clicks : click[d] \in Click
  OBVIOUS
<1>2. \A d \in Clicks : click'[d] = IF d = c THEN [click[d] EXCEPT !.at = at] ELSE click[d]
  OBVIOUS
<1>3. [click[c] EXCEPT !.at = at] \in Click /\ [click[c] EXCEPT !.at = at].answer = click[c].answer
  BY <1>1 DEF Click
<1> QED
  BY <1>1, <1>2, <1>3

LEMMA RelayKeeps == ASSUME CardInv, NEW c \in Clicks, Relay(c) \/ RelayFails(c) PROVE CardInv'
<1>1. click \in [Clicks -> Click] /\ shown \in Faces \cup {"nothing", "awaiting"}
  BY DEF CardInv, TypeOK
<1>2. \E at \in {"none", "clicked", "relayed", "failed", "over"} : click' = [click EXCEPT ![c].at = at]
  BY DEF Relay, RelayFails
<1>3. UNCHANGED <<status, runs, wait, shown, updates, issued, task, call, aborted>>
  BY DEF Relay, RelayFails
<1> QED
  BY <1>1, <1>2, <1>3, ClickMoves, OutsideKeeps

-----------------------------------------------------------------------------
\* The ways a wait ends.
LEMMA PostedKeeps == ASSUME CardInv, Posted PROVE CardInv'
<1> DEFINE w == [wait EXCEPT !.post = "posted"]
<1>1. wait \in Wait /\ wait.post = "sent" /\ click \in [Clicks -> Click] /\ aborted \in BOOLEAN
  BY DEF Posted, CardInv, TypeOK
<1>2. /\ w \in Wait /\ w.post = "posted" /\ w.settled = wait.settled /\ w.finished = wait.finished
      /\ w.completed = wait.completed
  BY <1>1 DEF Wait
<1>3. Newer(w)
  BY <1>1, <1>2 DEF Newer
<1>4. Finish(w) /\ UNCHANGED <<status, runs, shown, click, call, aborted>>
  BY DEF Posted
<1>5. w.settled \in Verdicts => status[Ticket] \in SettledTo(w.settled)
  BY <1>2 DEF CardInv, Settled
<1> QED
  BY <1>1, <1>3, <1>4, <1>5, PrompterKeeps

LEMMA PostFailsKeeps == ASSUME CardInv, PostFails PROVE CardInv'
<1> DEFINE w == [wait EXCEPT !.post = "failed"]
<1>1. wait \in Wait /\ wait.post = "sent" /\ click \in [Clicks -> Click] /\ aborted \in BOOLEAN
  BY DEF PostFails, CardInv, TypeOK
<1>2. /\ w \in Wait /\ w.post = "failed" /\ w.settled = wait.settled /\ w.finished = wait.finished
      /\ w.completed = wait.completed
  BY <1>1 DEF Wait
<1>3. Settle(w, "expired") /\ UNCHANGED <<status, runs, shown, click, call, aborted>>
  BY DEF PostFails
<1>4. "expired" \in Ends /\ "expired" \notin Verdicts
  BY DEF Ends, Verdicts
<1> QED
  BY <1>1, <1>2, <1>3, <1>4, SettleKeeps

\* An end of a wait that is in the registry.
LEMMA EndKeeps ==
  ASSUME CardInv, NEW end \in Ends, Settle(wait, end),
         end \in Verdicts => status[Ticket] \in SettledTo(end),
         UNCHANGED <<status, runs, shown, call>>, aborted' \in BOOLEAN,
         click' \in [Clicks -> Click], \A c \in Clicks : click'[c].answer = click[c].answer
  PROVE  CardInv'
<1>1. wait \in Wait
  BY DEF CardInv, TypeOK
<1> QED
  BY <1>1, SettleKeeps

LEMMA DeadlineKeeps == ASSUME CardInv, Deadline PROVE CardInv'
<1>1. wait.post # "none" /\ Settle(wait, "expired")
  BY DEF Deadline, Waiting
<1>2. UNCHANGED <<status, runs, shown, click, call, aborted>>
  BY DEF Deadline
<1>3. click \in [Clicks -> Click] /\ aborted \in BOOLEAN
  BY DEF CardInv, TypeOK
<1>4. "expired" \in Ends /\ "expired" \notin Verdicts
  BY DEF Ends, Verdicts
<1> QED
  BY <1>1, <1>2, <1>3, <1>4, EndKeeps

LEMMA DeliverKeeps == ASSUME CardInv, NEW c \in Clicks, Deliver(c) PROVE CardInv'
<1>1. click \in [Clicks -> Click] /\ aborted \in BOOLEAN
  BY DEF CardInv, TypeOK
<1>2. click[c].answer \in Ends
  <2>1. click[c] \in Click /\ click[c].answer # "none"
    BY <1>1 DEF Deliver
  <2> QED
    BY <2>1 DEF Click
<1>3. click[c].answer \in Verdicts => status[Ticket] \in SettledTo(click[c].answer)
  BY DEF CardInv, Answered
<1>4. Settle(wait, click[c].answer) /\ click' = [click EXCEPT ![c].at = "over"]
  BY DEF Deliver, EndOf
<1>5. click' \in [Clicks -> Click] /\ \A d \in Clicks : click'[d].answer = click[d].answer
  BY <1>1, <1>4, ClickMoves
<1>6. UNCHANGED <<status, runs, shown, call, aborted>>
  BY DEF Deliver
<1> QED
  BY <1>1, <1>2, <1>3, <1>4, <1>5, <1>6, EndKeeps

\* A completion painted once.
LEMMA LastWordKeeps ==
  ASSUME CardInv, Armed, NEW f \in {"approved", "refused", "unanswered"}, Paint(f),
         wait' = [wait EXCEPT !.completed = TRUE],
         task' \in {"held", "resolved", "waiting", "over"},
         task # "waiting" => task' = task, task' # task => task' = "over",
         f = "approved" => call = "ran", f = "refused" => call = "refused",
         UNCHANGED <<status, runs, shown, click, call>>, aborted' \in BOOLEAN
  PROVE  CardInv'
<1>1. /\ wait \in Wait /\ wait.finished /\ ~wait.completed /\ wait.settled = "approved"
      /\ wait.post = "posted"
  BY DEF CardInv, TypeOK, Armed, Wait
<1>2. /\ wait' \in Wait /\ wait'.finished /\ wait'.completed /\ wait'.settled = "approved"
      /\ wait'.post = "posted"
  BY <1>1 DEF Wait
<1>3. issued \subseteq {"running"} /\ updates' = updates \cup {f} /\ issued' = issued \cup {f}
  BY <1>1 DEF CardInv, Written, Paint
<1>4. TypeOK'
  BY <1>2, <1>3 DEF CardInv, TypeOK, Faces, Final
<1>5. Answered' /\ Settled' /\ Served'
  BY <1>1, <1>2 DEF CardInv, Answered, Settled, Served
<1>6. Written'
  <2>1. issued' \subseteq {"running", f}
    BY <1>3
  <2> QED
    BY <1>2, <2>1 DEF Written
<1>7. Painted'
  BY <1>3 DEF Painted
<1>8. Turns'
  <2>1. updates' \cap First = updates \cap First
    BY <1>3 DEF First
  <2>2. updates' \subseteq issued'
    BY <1>3 DEF CardInv, Turns
  <2>3. task' \in {"held", "resolved"} => task' = task
    OBVIOUS
  <2>4. updates \cap First # {} => task = "held"
    BY DEF CardInv, Turns
  <2>5. task' \in {"held", "resolved"} => call' = "none"
    BY <2>3 DEF CardInv, Turns
  <2> QED
    BY <1>2, <2>1, <2>2, <2>4, <2>5 DEF Turns
<1> QED
  BY <1>4, <1>5, <1>6, <1>7, <1>8 DEF CardInv

\* The task alone moves on from its re-submission.
LEMMA TaskEndsKeeps ==
  ASSUME CardInv, task' = "over", task = "waiting" \/ task = "over",
         UNCHANGED <<status, runs, wait, shown, updates, issued, click, call>>,
         aborted' \in BOOLEAN
  PROVE  CardInv'
<1>1. TypeOK'
  BY DEF CardInv, TypeOK
<1>2. Answered' /\ Settled' /\ Served' /\ Painted'
  BY DEF CardInv, Answered, Settled, Served, Painted
<1>3. Written'
  BY DEF CardInv, Written
<1>4. Turns'
  BY DEF CardInv, Turns
<1> QED
  BY <1>1, <1>2, <1>3, <1>4 DEF CardInv

LEMMA CallAnswersKeeps == ASSUME CardInv, CallAnswers PROVE CardInv'
<1>1. /\ task = "waiting" /\ call \in {"ran", "refused"} /\ task' = "over"
      /\ UNCHANGED <<status, runs, shown, click, call, aborted>>
  BY DEF CallAnswers
<1>2. aborted' \in BOOLEAN
  BY <1>1 DEF CardInv, TypeOK
<1>3. CASE Armed
  <2>1. wait' = [wait EXCEPT !.completed = TRUE] /\ Paint(Outcome)
    BY <1>3 DEF CallAnswers
  <2>2. /\ Outcome \in {"approved", "refused", "unanswered"}
        /\ Outcome = "approved" => call = "ran"
        /\ Outcome = "refused" => call = "refused"
    BY <1>1 DEF Outcome
  <2> QED
    BY <1>1, <1>2, <1>3, <2>1, <2>2, LastWordKeeps
<1>4. CASE ~Armed
  BY <1>1, <1>2, <1>4, TaskEndsKeeps DEF CallAnswers
<1> QED
  BY <1>3, <1>4

LEMMA AbortKeeps == ASSUME CardInv, Abort PROVE CardInv'
<1>1. aborted' = TRUE /\ UNCHANGED <<status, runs, shown, click, call>>
  BY DEF Abort
<1>2. click \in [Clicks -> Click] /\ "expired" \in Ends /\ "expired" \notin Verdicts
  BY DEF CardInv, TypeOK, Ends, Verdicts
<1>3. CASE Waiting
  BY <1>1, <1>2, <1>3, EndKeeps DEF Abort
<1>4. CASE ~Waiting /\ Armed
  <2>1. /\ wait' = [wait EXCEPT !.completed = TRUE] /\ Paint("unanswered")
        /\ task' = IF task = "waiting" THEN "over" ELSE task
    BY <1>4 DEF Abort, Abandoned
  <2>2. task \in {"held", "resolved", "waiting", "over"}
    BY DEF CardInv, TypeOK
  <2> QED
    BY <1>1, <1>4, <2>1, <2>2, LastWordKeeps
<1>5. CASE ~Waiting /\ ~Armed
  <2>1. /\ UNCHANGED <<wait, updates, issued>>
        /\ task' = IF task = "waiting" THEN "over" ELSE task
    BY <1>5 DEF Abort, Abandoned
  <2>2. CASE task = "waiting"
    BY <1>1, <2>1, <2>2, TaskEndsKeeps
  <2>3. CASE task # "waiting"
    <3>1. UNCHANGED <<status, runs, wait, shown, updates, issued, click, task, call>>
      BY <1>1, <2>1, <2>3
    <3>2. TypeOK'
      BY <1>1, <3>1 DEF CardInv, TypeOK
    <3>3. Answered' /\ Settled' /\ Served' /\ Painted'
      BY <3>1 DEF CardInv, Answered, Settled, Served, Painted
    <3>4. Written' /\ Turns'
      BY <3>1 DEF CardInv, Written, Turns
    <3> QED
      BY <3>2, <3>3, <3>4 DEF CardInv
  <2> QED
    BY <2>2, <2>3
<1> QED
  BY <1>3, <1>4, <1>5

LEMMA CallThrowsKeeps == ASSUME CardInv, CallThrows PROVE CardInv'
<1>1. aborted \in BOOLEAN
  BY DEF CardInv, TypeOK
<1> QED
  BY <1>1, TaskEndsKeeps DEF CallThrows

-----------------------------------------------------------------------------
\* One of the faces of the first repaint at most was ever painted.
LEMMA OneFirst ==
  ASSUME CardInv, NEW f \in updates \cap First
  PROVE  /\ f \in Faces /\ f \in issued /\ wait.finished
         /\ (updates \ {f}) \cap First = {} /\ task = "held" /\ call = "none"
<1>1. f \in issued /\ f \in First /\ updates \subseteq issued /\ task = "held" /\ call = "none"
  BY DEF CardInv, Turns
<1>2. wait.finished /\ wait.settled \in {"approved", "denied", "expired"}
  <2>1. wait.settled \in {"approved", "denied", "expired", "none"}
    BY DEF CardInv, TypeOK, Wait, Ends, Verdicts
  <2> QED
    BY <1>1, <2>1 DEF CardInv, Written
<1>3. issued \cap First \subseteq {f}
  <2>1. CASE wait.settled = "denied"
    BY <1>1, <2>1 DEF CardInv, Written
  <2>2. CASE wait.settled = "expired"
    BY <1>1, <2>2 DEF CardInv, Written
  <2>3. CASE wait.settled = "approved" /\ ~wait.completed
    BY <1>1, <2>3 DEF CardInv, Written
  <2>4. CASE wait.settled = "approved" /\ wait.completed
    <3>1. PICK g \in {"approved", "refused", "unanswered"} : issued \subseteq {"running", g}
      BY <2>4 DEF CardInv, Written
    <3> QED
      BY <1>1, <3>1 DEF First
  <2> QED
    BY <1>2, <2>1, <2>2, <2>3, <2>4
<1> QED
  BY <1>1, <1>2, <1>3 DEF CardInv, TypeOK

LEMMA UpdateKeeps == ASSUME CardInv, NEW f \in Faces, UpdateLands(f) \/ UpdateFails(f) PROVE CardInv'
<1>1. /\ f \in updates /\ updates' = updates \ {f} /\ task' = Resolved(f)
      /\ UNCHANGED <<status, runs, wait, issued, click, call, aborted>>
      /\ shown' \in {shown, f}
  BY DEF UpdateLands, UpdateFails
<1>2. task' = IF f \in First THEN "resolved" ELSE task
  BY <1>1 DEF Resolved, First
<1>3. wait.finished
  BY <1>1 DEF CardInv, Written, Turns
<1>4. TypeOK'
  BY <1>1, <1>2 DEF CardInv, TypeOK
<1>5. Answered' /\ Settled' /\ Served' /\ Painted'
  BY <1>1 DEF CardInv, Answered, Settled, Served, Painted
<1>6. Written'
  BY <1>1 DEF CardInv, Written
<1>7. Turns'
  <2>1. CASE f \in First
    <3>1. updates' \cap First = {} /\ call = "none"
      BY <1>1, <2>1, OneFirst
    <3>2. updates' \subseteq issued'
      BY <1>1 DEF CardInv, Turns
    <3>3. wait'.finished /\ (wait'.post \notin {"posted", "failed"} => ~wait'.finished)
      BY <1>1, <1>3 DEF CardInv, Turns
    <3> QED
      BY <1>1, <3>1, <3>2, <3>3 DEF Turns
  <2>2. CASE f \notin First
    <3>1. task' = task
      BY <1>2, <2>2
    <3> QED
      BY <1>1, <3>1 DEF CardInv, Turns
  <2> QED
    BY <2>1, <2>2
<1> QED
  BY <1>4, <1>5, <1>6, <1>7 DEF CardInv

LEMMA ResubmitKeeps == ASSUME CardInv, Resubmit PROVE CardInv'
<1>1. /\ task = "resolved" /\ task' \in {"over", "waiting"} /\ call' \in {call, "sent"}
      /\ UNCHANGED <<status, runs, wait, shown, updates, issued, click, aborted>>
  BY DEF Resubmit
<1>2. call = "none"
  BY <1>1 DEF CardInv, Turns
<1>3. TypeOK'
  BY <1>1, <1>2 DEF CardInv, TypeOK
<1>4. Answered' /\ Settled'
  BY <1>1 DEF CardInv, Answered, Settled
<1>5. Served' /\ Painted'
  BY <1>1, <1>2 DEF CardInv, Served, Painted
<1>6. Written'
  BY <1>1 DEF CardInv, Written
<1>7. Turns'
  BY <1>1 DEF CardInv, Turns
<1> QED
  BY <1>3, <1>4, <1>5, <1>6, <1>7 DEF CardInv

-----------------------------------------------------------------------------
\* A step of the proxy, which the card and the task do not see.
LEMMA UnseenKeeps ==
  ASSUME CardInv, UNCHANGED <<wait, shown, updates, issued, task, aborted>>,
         click' \in [Clicks -> Click], Answered',
         \/ \E v \in Verdicts : Proxy!Settle(Ticket, v)
         \/ Proxy!Spend(Ticket)
         \/ Proxy!Run(Ticket)
         \/ (status[Ticket] \in {"open", "approved", "denied"} /\ Proxy!Lapse({Ticket}))
         \/ UNCHANGED proxyVars,
         Served', call' \in {"none", "sent", "refused", "spent", "ran", "failed"},
         call' # call => call \in {"sent", "spent"}
  PROVE  CardInv'
<1>1. /\ status' \in [{Ticket} -> Proxy!Status] /\ runs' \in [{Ticket} -> {0, 1}]
      /\ \A v \in Verdicts : status[Ticket] \in SettledTo(v) => status'[Ticket] \in SettledTo(v)
  <2>1. TypeOK
    BY DEF CardInv
  <2> QED
    BY <2>1, ProxyKeeps
<1>2. TypeOK'
  BY <1>1 DEF CardInv, TypeOK
<1>3. Settled'
  BY <1>1 DEF CardInv, Settled
<1>4. Written'
  BY DEF CardInv, Written
<1>5. Painted'
  BY DEF CardInv, Painted
<1>6. Turns'
  BY DEF CardInv, Turns
<1> QED
  BY <1>2, <1>3, <1>4, <1>5, <1>6 DEF CardInv

\* The answers on their way stay true.
LEMMA AnsweredKeeps ==
  ASSUME CardInv, click' = click,
         \A v \in Verdicts : status[Ticket] \in SettledTo(v) => status'[Ticket] \in SettledTo(v)
  PROVE  click' \in [Clicks -> Click] /\ Answered'
BY DEF CardInv, TypeOK, Answered

LEMMA ProxyCallKeeps ==
  ASSUME CardInv, ProxyRefuses \/ ProxyRedeems \/ ProxyStops \/ ProxyRuns PROVE CardInv'
<1>1. /\ status \in [{Ticket} -> Proxy!Status] /\ runs \in [{Ticket} -> {0, 1}]
      /\ TypeOK /\ Served
  BY DEF CardInv, TypeOK
<1>2. UNCHANGED <<wait, shown, updates, issued, click, task, aborted>>
  BY DEF ProxyRefuses, ProxyRedeems, ProxyStops, ProxyRuns, Unmoved
<1>3. Proxy!Spend(Ticket) \/ Proxy!Run(Ticket) \/ UNCHANGED proxyVars
  BY DEF ProxyRefuses, ProxyRedeems, ProxyStops, ProxyRuns
<1>4. \A v \in Verdicts : status[Ticket] \in SettledTo(v) => status'[Ticket] \in SettledTo(v)
  BY <1>1, <1>3, ProxyKeeps
<1>5. call \in {"sent", "spent"} /\ call' \in {"refused", "spent", "ran", "failed"}
  BY DEF ProxyRefuses, ProxyRedeems, ProxyStops, ProxyRuns
<1>6. runs[Ticket] # 1
  BY <1>1, <1>5 DEF Served
<1>7. Served'
  <2>1. CASE ProxyRefuses \/ ProxyStops
    <3>1. runs' = runs /\ call' \in {"refused", "failed"}
      BY <2>1 DEF ProxyRefuses, ProxyStops, proxyVars
    <3> QED
      BY <1>6, <3>1 DEF Served
  <2>2. CASE ProxyRedeems
    <3>1. runs' = runs /\ call' = "spent" /\ status'[Ticket] = "spent"
      BY <1>1, <2>2 DEF ProxyRedeems, Proxy!Spend
    <3> QED
      BY <1>6, <3>1 DEF Served
  <2>3. CASE ProxyRuns
    <3>1. call' \in {"ran", "failed"} /\ status'[Ticket] = "spent" /\ runs'[Ticket] = 1
      BY <1>1, <2>3 DEF ProxyRuns, Proxy!Run
    <3> QED
      BY <3>1 DEF Served
  <2> QED
    BY <2>1, <2>2, <2>3 DEF ProxyRefuses, ProxyRedeems, ProxyStops, ProxyRuns
<1> QED
  BY <1>2, <1>3, <1>4, <1>5, <1>7, AnsweredKeeps, UnseenKeeps

LEMMA TicketLapsesKeeps == ASSUME CardInv, TicketLapses PROVE CardInv'
<1>1. /\ status[Ticket] \in {"open", "approved", "denied"} /\ Proxy!Lapse({Ticket})
      /\ UNCHANGED <<wait, shown, updates, issued, click, task, call, aborted>>
  BY DEF TicketLapses
<1>2. TypeOK /\ Served
  BY DEF CardInv
<1>3. \A v \in Verdicts : status[Ticket] \in SettledTo(v) => status'[Ticket] \in SettledTo(v)
  BY <1>1, <1>2, ProxyKeeps
<1>4. Served'
  <2>1. runs' = runs /\ runs[Ticket] # 1 /\ call # "spent"
    BY <1>1, <1>2 DEF Served, Proxy!Lapse
  <2> QED
    BY <1>1, <1>2, <2>1 DEF Served
<1>5. call' \in {"none", "sent", "refused", "spent", "ran", "failed"}
  BY <1>1, <1>2 DEF TypeOK
<1> QED
  BY <1>1, <1>3, <1>4, <1>5, AnsweredKeeps, UnseenKeeps

\* The proxy settles an open ticket with the click, or answers with what the
\* ticket was settled with before.
LEMMA ProxyDecidesKeeps == ASSUME CardInv, NEW c \in Clicks, ProxyDecides(c) PROVE CardInv'
<1>1. /\ TypeOK /\ Served /\ Answered
      /\ click \in [Clicks -> Click] /\ status \in [{Ticket} -> Proxy!Status]
      /\ UNCHANGED <<wait, shown, updates, issued, task, call, aborted>>
  BY DEF CardInv, TypeOK, ProxyDecides
<1>2. click[c] \in Click /\ click[c].verdict \in Verdicts
  <2>1. click[c] \in Click
    BY <1>1
  <2> QED
    BY <2>1 DEF Click
<1>3. (\E v \in Verdicts : Proxy!Settle(Ticket, v)) \/ UNCHANGED proxyVars
  BY <1>2 DEF ProxyDecides
<1>4. \A v \in Verdicts : status[Ticket] \in SettledTo(v) => status'[Ticket] \in SettledTo(v)
  BY <1>1, <1>3, ProxyKeeps
<1>5. \E a \in Ends : /\ click' = [click EXCEPT ![c].answer = a]
                      /\ a \in Verdicts => status'[Ticket] \in SettledTo(a)
  <2>1. CASE /\ Proxy!Settle(Ticket, click[c].verdict)
             /\ click' = [click EXCEPT ![c].answer = click[c].verdict]
    <3>1. status'[Ticket] = click[c].verdict
      BY <1>1, <2>1 DEF Proxy!Settle
    <3>2. status'[Ticket] \in SettledTo(click[c].verdict) /\ click[c].verdict \in Ends
      BY <1>2, <3>1 DEF SettledTo, Verdicts, Ends
    <3> QED
      BY <2>1, <3>2
  <2>2. CASE /\ \E a \in Standing : click' = [click EXCEPT ![c].answer = a]
             /\ UNCHANGED proxyVars
    <3>1. PICK a \in Standing : click' = [click EXCEPT ![c].answer = a]
      BY <2>2
    <3>2. a \in Ends /\ (a \in Verdicts => status[Ticket] \in SettledTo(a))
      BY <3>1 DEF Standing, Ends, Verdicts, SettledTo
    <3>3. status' = status
      BY <2>2 DEF proxyVars
    <3> QED
      BY <3>1, <3>2, <3>3
  <2> QED
    BY <2>1, <2>2 DEF ProxyDecides
<1>6. PICK a \in Ends : /\ click' = [click EXCEPT ![c].answer = a]
                        /\ a \in Verdicts => status'[Ticket] \in SettledTo(a)
  BY <1>5
<1>7. \A d \in Clicks : click'[d] = IF d = c THEN [click[d] EXCEPT !.answer = a] ELSE click[d]
  BY <1>1, <1>6
<1>8. [click[c] EXCEPT !.answer = a] \in Click /\ [click[c] EXCEPT !.answer = a].answer = a
  BY <1>2 DEF Click
<1>9. click' \in [Clicks -> Click]
  BY <1>1, <1>6, <1>8
<1>10. Answered'
  <2> SUFFICES ASSUME NEW d \in Clicks, click'[d].answer \in Verdicts
               PROVE  status'[Ticket] \in SettledTo(click'[d].answer)
    BY DEF Answered
  <2>1. CASE d = c
    BY <1>6, <1>7, <1>8, <2>1
  <2>2. CASE d # c
    BY <1>1, <1>4, <1>7, <2>2 DEF Answered
  <2> QED
    BY <2>1, <2>2
<1>11. Served'
  <2>1. runs' = runs
    BY <1>3 DEF Proxy!Settle, proxyVars
  <2>2. status[Ticket] = "spent" => status'[Ticket] = "spent"
    BY <1>1, <1>3, ProxyKeeps
  <2> QED
    BY <1>1, <2>1, <2>2 DEF Served
<1>12. call' \in {"none", "sent", "refused", "spent", "ran", "failed"}
  BY <1>1 DEF TypeOK
<1> QED
  BY <1>1, <1>3, <1>9, <1>10, <1>11, <1>12, UnseenKeeps

-----------------------------------------------------------------------------
(***************************************************************************)
(* The theorems                                                            *)
(***************************************************************************)
LEMMA CardStep == CardInv /\ [Next]_vars => CardInv'
<1> SUFFICES ASSUME CardInv, [Next]_vars PROVE CardInv'
  OBVIOUS
<1>1. CASE Hold \/ CardAppears \/ Posted \/ PostFails \/ Deadline
  BY <1>1, HoldKeeps, CardAppearsKeeps, PostedKeeps, PostFailsKeeps, DeadlineKeeps
<1>2. CASE \E f \in Faces : UpdateLands(f) \/ UpdateFails(f)
  BY <1>2, UpdateKeeps
<1>3. CASE \E c \in Clicks, v \in Verdicts : Press(c, v)
  BY <1>3, PressKeeps
<1>4. CASE \E c \in Clicks : Relay(c) \/ ProxyDecides(c) \/ Deliver(c) \/ RelayFails(c)
  BY <1>4, RelayKeeps, ProxyDecidesKeeps, DeliverKeeps
<1>5. CASE Resubmit \/ ProxyRefuses \/ ProxyRedeems \/ ProxyStops \/ ProxyRuns
  BY <1>5, ResubmitKeeps, ProxyCallKeeps
<1>6. CASE CallAnswers \/ CallThrows \/ Abort \/ TicketLapses
  BY <1>6, CallAnswersKeeps, CallThrowsKeeps, AbortKeeps, TicketLapsesKeeps
<1>7. CASE UNCHANGED vars
  <2>1. UNCHANGED <<status, runs, wait, shown, updates, issued, click, task, call, aborted>>
    BY <1>7 DEF vars
  <2>2. TypeOK'
    BY <2>1 DEF CardInv, TypeOK
  <2>3. Answered' /\ Settled' /\ Served' /\ Painted'
    BY <2>1 DEF CardInv, Answered, Settled, Served, Painted
  <2>4. Written' /\ Turns'
    BY <2>1 DEF CardInv, Written, Turns
  <2> QED
    BY <2>2, <2>3, <2>4 DEF CardInv
<1> QED
  BY <1>1, <1>2, <1>3, <1>4, <1>5, <1>6, <1>7 DEF Next

\* Every behaviour of a held call keeps the invariant.
THEOREM CardInvariant == Spec => []CardInv
BY CardBegins, CardStep, PTL DEF Spec

\* The states are of their types, whatever the clicks.
THEOREM CardTypes == Spec => []TypeOK
<1>1. CardInv => TypeOK
  BY DEF CardInv
<1> QED
  BY <1>1, CardInvariant, PTL

\* A card that says "approved" is of a call that ran, and one that says
\* "denied" or "refused" of a call that never did (approval-card.ts, #143).
THEOREM Colours == Spec => []ColoursAreTrue
<1>1. CardInv => ColoursAreTrue
  <2> SUFFICES ASSUME CardInv PROVE ColoursAreTrue
    OBVIOUS
  <2>1. runs[Ticket] \in {0, 1} /\ wait.settled \in {"approved", "denied", "expired", "none"}
    BY DEF CardInv, TypeOK, Wait, Ends, Verdicts
  <2>2. "approved" \in issued => runs[Ticket] = 1
    BY DEF CardInv, Painted, Served
  <2>3. "refused" \in issued => runs[Ticket] = 0
    BY <2>1 DEF CardInv, Painted, Served
  <2>4. ASSUME "denied" \in issued PROVE runs[Ticket] = 0
    <3>1. wait.settled = "denied"
      <4>1. wait.settled # "none" /\ wait.settled # "expired"
        BY <2>4 DEF CardInv, Written
      <4>2. CASE wait.settled = "approved" /\ ~wait.completed
        BY <2>4, <4>2 DEF CardInv, Written
      <4>3. CASE wait.settled = "approved" /\ wait.completed
        BY <2>4, <4>3 DEF CardInv, Written
      <4> QED
        BY <2>1, <4>1, <4>2, <4>3
    <3>2. status[Ticket] \in {"denied", "lapsed"}
      BY <3>1 DEF CardInv, Settled, Verdicts, SettledTo
    <3> QED
      BY <2>1, <3>2 DEF CardInv, Served
  <2> QED
    BY <2>2, <2>3, <2>4 DEF ColoursAreTrue
<1> QED
  BY <1>1, CardInvariant, PTL

\* The wait of a hold ends with the verdict the proxy has on the ticket, also
\* when the click that made it went unanswered (prompter.ts, registry.ts).
THEOREM VerdictStands == Spec => []VerdictIsTheProxys
<1>1. CardInv => VerdictIsTheProxys
  BY DEF CardInv, Settled, Verdicts, SettledTo, VerdictIsTheProxys
<1> QED
  BY <1>1, CardInvariant, PTL

\* The end of the task and the answer of the re-submission never both paint
\* the card (the completion's guard in prompter.ts).
THEOREM LastWord == Spec => []OneLastWord
<1>1. CardInv => OneLastWord
  <2> SUFFICES ASSUME CardInv PROVE OneLastWord
    OBVIOUS
  <2>1. wait.settled \in {"approved", "denied", "expired", "none"}
    BY DEF CardInv, TypeOK, Wait, Ends, Verdicts
  <2>2. \E f \in Faces : issued \cap Final \subseteq {f}
    <3>1. CASE wait.settled = "none"
      BY <3>1 DEF CardInv, Written, Faces
    <3>2. CASE wait.settled = "denied"
      BY <3>2 DEF CardInv, Written, Faces, Final
    <3>3. CASE wait.settled = "expired"
      BY <3>3 DEF CardInv, Written, Faces, Final
    <3>4. CASE wait.settled = "approved" /\ ~wait.completed
      BY <3>4 DEF CardInv, Written, Faces, Final
    <3>5. CASE wait.settled = "approved" /\ wait.completed
      <4>1. PICK f \in {"approved", "refused", "unanswered"} : issued \subseteq {"running", f}
        BY <3>5 DEF CardInv, Written
      <4> QED
        BY <4>1 DEF Faces, Final
    <3> QED
      BY <2>1, <3>1, <3>2, <3>3, <3>4, <3>5
  <2>3. PICK f : issued \cap Final \subseteq {f}
    BY <2>2
  <2>4. issued \cap Final = {} \/ issued \cap Final = {f}
    BY <2>3
  <2>5. Cardinality({}) = 0 /\ Cardinality({f}) = 1
    BY FS_EmptySet, FS_Singleton
  <2> QED
    BY <2>4, <2>5 DEF OneLastWord
<1> QED
  BY <1>1, CardInvariant, PTL

-----------------------------------------------------------------------------
(***************************************************************************)
(* What a held task waits for                                              *)
(***************************************************************************)
\* The wait's end is acted on once the post is answered, and the task then
\* waits for the first repaint.
Goes ==
  /\ task = "held" /\ wait.finished => updates \cap First # {}
  /\ wait.post = "posted" /\ wait.settled # "none" => wait.finished

\* finish leaves no end that is not acted on, whatever the post came to.
LEMMA FinishGoes ==
  ASSUME CardInv, Goes, NEW w \in Wait, w.finished = wait.finished, Finish(w)
  PROVE  /\ Goes' /\ WaitStillEnds' /\ wait'.settled = w.settled /\ wait'.post = w.post
         /\ issued \subseteq issued' /\ (w.post \in {"none", "sent"} => task' = task)
<1>1. CASE w.finished \/ w.settled = "none" \/ w.post \notin {"posted", "failed"}
  <2>1. wait' = w /\ updates' = updates /\ task' = task /\ issued' = issued
    BY <1>1 DEF Finish
  <2> QED
    BY <1>1, <2>1 DEF Goes, WaitStillEnds
<1>2. CASE ~(w.finished \/ w.settled = "none" \/ w.post \notin {"posted", "failed"})
  <2>1. wait'.finished /\ wait'.settled = w.settled /\ wait'.post = w.post
    BY <1>2 DEF Finish, Wait
  <2>2. CASE w.post = "posted"
    <3>1. FaceOf(w.settled) \in First
      BY <1>2 DEF Wait, Ends, Verdicts, FaceOf, First
    <3>2. FaceOf(w.settled) \in updates' /\ issued \subseteq issued'
      BY <1>2, <2>2 DEF Finish, Paint
    <3> QED
      BY <2>1, <2>2, <3>1, <3>2 DEF Goes, WaitStillEnds
  <2>3. CASE w.post # "posted"
    <3>1. task' = "resolved" /\ issued' = issued /\ w.post = "failed"
      BY <1>2, <2>3 DEF Finish
    <3> QED
      BY <2>1, <2>3, <3>1 DEF Goes, WaitStillEnds
  <2> QED
    BY <2>2, <2>3
<1> QED
  BY <1>1, <1>2

\* An end that comes while the hold waits is acted on; a later one is not.
LEMMA SettleGoes ==
  ASSUME CardInv, Goes, NEW w \in Wait, w.finished = wait.finished, w.settled = wait.settled,
         NEW end \in Ends, Settle(w, end),
         w.post = wait.post \/ w.post = "failed"
  PROVE  /\ Goes'
         /\ w.settled = "none" \/ (w.post = wait.post /\ WaitStillEnds) => WaitStillEnds'
         /\ wait'.settled = (IF wait.settled = "none" THEN end ELSE wait.settled)
         /\ wait'.post = w.post /\ issued \subseteq issued'
         /\ w.post \in {"none", "sent"} => task' = task
<1>1. CASE w.settled = "none"
  <2> DEFINE v == [w EXCEPT !.settled = end]
  <2>1. /\ v \in Wait /\ v.finished = wait.finished /\ v.settled = end /\ v.post = w.post
        /\ Finish(v)
    BY <1>1 DEF Settle, Wait
  <2> HIDE DEF v
  <2> QED
    BY <1>1, <2>1, FinishGoes
<1>2. CASE w.settled # "none"
  <2>1. wait' = w /\ updates' = updates /\ task' = task /\ issued' = issued
    BY <1>2 DEF Settle
  <2> QED
    BY <1>2, <2>1 DEF Goes, WaitStillEnds
<1> QED
  BY <1>1, <1>2

\* The steps that leave a held task and its wait alone, but for the completion.
Aside ==
  /\ wait' = wait \/ wait' = [wait EXCEPT !.completed = TRUE]
  /\ task' = "held" => task = "held" /\ updates \subseteq updates'

LEMMA AsideGoes ==
  ASSUME CardInv, Goes, Aside
  PROVE  Goes' /\ (WaitStillEnds => WaitStillEnds')
<1>1. wait \in Wait
  BY DEF CardInv, TypeOK
<1>2. wait'.finished = wait.finished /\ wait'.post = wait.post /\ wait'.settled = wait.settled
  BY <1>1 DEF Aside, Wait
<1> QED
  BY <1>2 DEF Goes, WaitStillEnds, Aside

\* One step, of whatever kind.
LEMMA GoesStep ==
  ASSUME CardInv, Goes, [Next]_vars
  PROVE  Goes' /\ (WaitStillEnds /\ (PostFails => wait.settled = "none") => WaitStillEnds')
<1> DEFINE Goal == Goes' /\ (WaitStillEnds /\ (PostFails => wait.settled = "none") => WaitStillEnds')
<1>t. wait \in Wait /\ "expired" \in Ends /\ task \in {"held", "resolved", "waiting", "over"}
  BY DEF CardInv, TypeOK, Ends
<1>a. ASSUME Aside PROVE Goal
  BY <1>a, AsideGoes
<1>1. CASE Hold
  <2>1. wait.post = "none" /\ task = "held" /\ UNCHANGED updates
    BY <1>1 DEF Hold
  <2>2. wait' = wait \/ wait' = [wait EXCEPT !.post = "sent"]
    <3>1. CASE aborted
      BY <1>1, <3>1 DEF Hold
    <3>2. CASE ~aborted
      BY <1>1, <3>2 DEF Hold
    <3> QED
      BY <3>1, <3>2
  <2>3. ~wait.finished
    BY <2>1 DEF CardInv, Turns
  <2>4. wait'.finished = wait.finished /\ wait'.post \in {"none", "sent"}
    BY <1>t, <2>1, <2>2 DEF Wait
  <2> QED
    BY <2>3, <2>4 DEF Goes, WaitStillEnds
<1>2. CASE Posted
  <2> DEFINE w == [wait EXCEPT !.post = "posted"]
  <2>1. w \in Wait /\ w.finished = wait.finished /\ Finish(w)
    BY <1>t, <1>2 DEF Posted, Wait
  <2> HIDE DEF w
  <2> QED
    BY <2>1, FinishGoes
<1>3. CASE PostFails
  <2> DEFINE w == [wait EXCEPT !.post = "failed"]
  <2>1. /\ w \in Wait /\ w.finished = wait.finished /\ w.settled = wait.settled
        /\ w.post = "failed" /\ Settle(w, "expired")
    BY <1>t, <1>3 DEF PostFails, Wait
  <2> HIDE DEF w
  <2> QED
    BY <1>t, <1>3, <2>1, SettleGoes
<1>4. ASSUME NEW end \in Ends, Settle(wait, end) PROVE Goal
  BY <1>t, <1>4, SettleGoes
<1>5. CASE Deadline
  BY <1>t, <1>4, <1>5 DEF Deadline
<1>6. ASSUME NEW c \in Clicks, Deliver(c) PROVE Goal
  <2>1. click[c].answer \in Ends
    <3>1. click[c] \in Click /\ click[c].answer # "none"
      BY <1>6 DEF Deliver, CardInv, TypeOK
    <3> QED
      BY <3>1 DEF Click
  <2>2. Settle(wait, click[c].answer)
    BY <1>6 DEF Deliver, EndOf
  <2> QED
    BY <1>4, <2>1, <2>2
<1>7. CASE Abort
  <2>1. CASE Waiting
    BY <1>t, <1>4, <1>7, <2>1 DEF Abort
  <2>2. CASE ~Waiting
    BY <1>a, <1>7, <2>2 DEF Abort, Abandoned, Paint, Aside
  <2> QED
    BY <2>1, <2>2
<1>8. ASSUME NEW f \in Faces, UpdateLands(f) \/ UpdateFails(f) PROVE Goal
  <2>1. UNCHANGED wait /\ updates' = updates \ {f} /\ task' = Resolved(f)
    BY <1>8 DEF UpdateLands, UpdateFails
  <2>2. CASE f \in First
    BY <2>1, <2>2 DEF Resolved, First, Goes, WaitStillEnds
  <2>3. CASE f \notin First
    BY <2>1, <2>3 DEF Resolved, First, Goes, WaitStillEnds
  <2> QED
    BY <2>2, <2>3
<1>9. CASE CallAnswers
  BY <1>a, <1>9 DEF CallAnswers, Aside
<1>10. CASE CardAppears \/ Resubmit \/ CallThrows \/ TicketLapses \/ UNCHANGED vars
  BY <1>a, <1>10 DEF CardAppears, Resubmit, CallThrows, TicketLapses, vars, Aside
<1>11. CASE ProxyRefuses \/ ProxyRedeems \/ ProxyStops \/ ProxyRuns
  BY <1>a, <1>11 DEF ProxyRefuses, ProxyRedeems, ProxyStops, ProxyRuns, Unmoved, Aside
<1>12. ASSUME NEW c \in Clicks, Relay(c) \/ ProxyDecides(c) \/ RelayFails(c) \/ \E v \in Verdicts : Press(c, v)
       PROVE  Goal
  BY <1>a, <1>12 DEF Relay, ProxyDecides, RelayFails, Press, Aside
<1> QED
  BY <1>1, <1>2, <1>3, <1>5, <1>6, <1>7, <1>8, <1>9, <1>10, <1>11, <1>12 DEF Next

LEMMA GoesAlways == Spec => []Goes
<1>1. Init => Goes
  BY DEF Init, Goes
<1>2. CardInv /\ Goes /\ [Next]_vars => Goes'
  BY GoesStep
<1> QED
  BY <1>1, <1>2, CardInvariant, PTL DEF Spec

\* A task is never held by nothing: the post's answer, the deadline or that of
\* the first repaint is still to come, except where a wait that had its end
\* lost its post (finish and settle in prompter.ts; HeldCallCard's tool client).
THEOREM HeldBySomething == Spec => []HeldTasksGoOn
<1>1. CardInv /\ Goes => HeldTasksGoOn
  <2> SUFFICES ASSUME CardInv, Goes, task = "held", wait.post \notin {"none", "sent"}, ~Waiting,
                      ~(wait.post = "failed" /\ ~wait.finished)
               PROVE  updates \cap {"running", "denied", "expired"} # {}
    BY DEF HeldTasksGoOn
  <2>1. wait.post \in {"posted", "failed"} /\ wait.settled # "none"
    BY DEF CardInv, TypeOK, Wait, Waiting
  <2>2. wait.finished
    BY <2>1 DEF Goes, CardInv, TypeOK, Wait
  <2> QED
    BY <2>2 DEF Goes, First
<1> QED
  BY <1>1, CardInvariant, GoesAlways, PTL

\* What the prompter says of a post that fails, that the wait still ends, is so
\* when no end came before that failure; TLC has the end that did
\* (WaitStillEnds.cfg).
FailsFirst == PostFails => wait.settled = "none"

THEOREM EndsIfPostFailsFirst == Spec /\ [][FailsFirst]_vars => []WaitStillEnds
<1>1. Init => WaitStillEnds
  BY DEF Init, WaitStillEnds
<1>2. CardInv /\ Goes /\ WaitStillEnds /\ [Next]_vars /\ [FailsFirst]_vars => WaitStillEnds'
  <2>1. ASSUME WaitStillEnds, UNCHANGED vars PROVE WaitStillEnds'
    BY <2>1 DEF WaitStillEnds, vars
  <2> QED
    BY <2>1, GoesStep DEF FailsFirst
<1> QED
  BY <1>1, <1>2, CardInvariant, GoesAlways, PTL DEF Spec

-----------------------------------------------------------------------------
(***************************************************************************)
(* A card that reads "expired"                                             *)
(***************************************************************************)
\* A click the proxy is being asked about, or may yet be.
InHand(c) == click[c].at \in {"relayed", "failed"}

\* A wait expires by itself only while nobody's click is with the proxy.
ExpiresUnclicked == wait.settled = "none" /\ wait'.settled = "expired" =>
  (\A c \in Clicks : ~InHand(c)) \/ \E c \in Clicks : Deliver(c)

\* An approval the wait does not know of is in hand, the proxy says `expired'
\* of a ticket that is gone, and a wait that expired left nothing in hand.
Undecided ==
  /\ wait.settled = "none" =>
       /\ call = "none" /\ status[Ticket] # "spent"
       /\ status[Ticket] = "approved" => \E c \in Clicks : InHand(c) /\ click[c].answer = "approved"
       /\ \A c \in Clicks : click[c].answer = "expired" => status[Ticket] = "lapsed"
  /\ wait.settled = "expired" =>
       \/ status[Ticket] = "lapsed"
       \/ status[Ticket] \notin {"approved", "spent"} /\ \A c \in Clicks : ~InHand(c)
  /\ wait.post = "none" /\ task # "held" => aborted
  /\ shown \in issued \cup {"nothing", "awaiting"}
  /\ status[Ticket] # "unissued"

\* What the prompter's steps do to the wait.
LEMMA WaitMoves ==
  ASSUME CardInv, Goes,
         Hold \/ Posted \/ PostFails \/ Deadline \/ Abort \/ \E c \in Clicks : Deliver(c)
  PROVE  /\ UNCHANGED <<status, call, shown>> /\ issued \subseteq issued'
         /\ wait.settled # "none" => wait'.settled = wait.settled
         /\ \A c \in Clicks : Deliver(c) =>
              /\ wait'.settled # "none"
              /\ wait.settled = "none" => wait'.settled = click[c].answer
         /\ wait'.post = "none" => wait.post = "none" /\ (task' = task \/ aborted')
         /\ aborted => aborted'
<1> DEFINE Goal ==
      /\ UNCHANGED <<status, call, shown>> /\ issued \subseteq issued'
      /\ wait.settled # "none" => wait'.settled = wait.settled
      /\ \A c \in Clicks : Deliver(c) =>
           /\ wait'.settled # "none"
           /\ wait.settled = "none" => wait'.settled = click[c].answer
      /\ wait'.post = "none" => wait.post = "none" /\ (task' = task \/ aborted')
      /\ aborted => aborted'
<1>t. wait \in Wait /\ "expired" \in Ends /\ "none" \notin Ends
  BY DEF CardInv, TypeOK, Ends, Verdicts
<1>s. ASSUME NEW end \in Ends, Settle(wait, end)
      PROVE  /\ wait'.settled = (IF wait.settled = "none" THEN end ELSE wait.settled)
             /\ wait'.post = wait.post /\ issued \subseteq issued'
             /\ wait.post = "none" => task' = task
  BY <1>s, <1>t, SettleGoes
<1>1. CASE Hold
  <2>1. wait' = wait \/ wait' = [wait EXCEPT !.post = "sent"]
    <3>1. CASE aborted
      BY <1>1, <3>1 DEF Hold
    <3>2. CASE ~aborted
      BY <1>1, <3>2 DEF Hold
    <3> QED
      BY <3>1, <3>2
  <2>2. wait'.settled = wait.settled
    BY <1>t, <2>1 DEF Wait
  <2>3. /\ UNCHANGED <<status, call, shown, issued, aborted, click>> /\ wait.post = "none"
        /\ task' = task \/ aborted
    BY <1>1 DEF Hold
  <2>4. ~\E c \in Clicks : Deliver(c)
    <3>1. ASSUME NEW c \in Clicks, Deliver(c) PROVE FALSE
      <4>1. click[c].at = "relayed" /\ click' = [click EXCEPT ![c].at = "over"]
        BY <3>1 DEF Deliver
      <4>2. click'[c].at = "over"
        BY <4>1 DEF CardInv, TypeOK, Click
      <4> QED
        BY <2>3, <4>1, <4>2
    <3> QED
      BY <3>1
  <2> QED
    BY <2>2, <2>3, <2>4
<1>2. CASE Posted \/ PostFails
  <2>1. /\ UNCHANGED <<status, call, shown, aborted, click>>
        /\ wait.post = "sent"
    BY <1>2 DEF Posted, PostFails
  <2>2. ~\E c \in Clicks : Deliver(c)
    <3>1. ASSUME NEW c \in Clicks, Deliver(c) PROVE FALSE
      <4>1. click[c].at = "relayed" /\ click' = [click EXCEPT ![c].at = "over"]
        BY <3>1 DEF Deliver
      <4>2. click'[c].at = "over"
        BY <4>1 DEF CardInv, TypeOK, Click
      <4> QED
        BY <2>1, <4>1, <4>2
    <3> QED
      BY <3>1
  <2>3. CASE Posted
    <3> DEFINE w == [wait EXCEPT !.post = "posted"]
    <3>1. /\ w \in Wait /\ w.finished = wait.finished /\ w.settled = wait.settled
          /\ w.post = "posted" /\ Finish(w)
      BY <1>t, <2>3 DEF Posted, Wait
    <3> HIDE DEF w
    <3> QED
      BY <2>1, <2>2, <3>1, FinishGoes
  <2>4. CASE PostFails
    <3> DEFINE w == [wait EXCEPT !.post = "failed"]
    <3>1. /\ w \in Wait /\ w.finished = wait.finished /\ w.settled = wait.settled
          /\ w.post = "failed" /\ Settle(w, "expired")
      BY <1>t, <2>4 DEF PostFails, Wait
    <3> HIDE DEF w
    <3> QED
      BY <1>t, <2>1, <2>2, <3>1, SettleGoes
  <2> QED
    BY <1>2, <2>3, <2>4
<1>3. ASSUME NEW c \in Clicks, Deliver(c)
      PROVE  click[c].answer \in Ends /\ Settle(wait, click[c].answer)
  <2>1. click[c] \in Click /\ click[c].answer # "none"
    BY <1>3 DEF Deliver, CardInv, TypeOK
  <2> QED
    BY <1>3, <2>1 DEF Deliver, EndOf, Click
<1>4. CASE \E c \in Clicks : Deliver(c)
  <2>1. PICK c \in Clicks : Deliver(c)
    BY <1>4
  <2>2. UNCHANGED <<status, call, shown, aborted>>
    BY <2>1 DEF Deliver
  <2>3. ASSUME NEW d \in Clicks, Deliver(d)
        PROVE  /\ wait'.settled # "none"
               /\ wait.settled = "none" => wait'.settled = click[d].answer
    BY <1>t, <1>s, <1>3, <2>3
  <2>4. /\ issued \subseteq issued' /\ (wait.settled # "none" => wait'.settled = wait.settled)
        /\ wait'.post = wait.post /\ (wait.post = "none" => task' = task)
    BY <1>s, <1>3, <2>1
  <2> QED
    BY <2>2, <2>3, <2>4
<1>5. ASSUME ~\E c \in Clicks : Deliver(c), Settle(wait, "expired"),
             UNCHANGED <<status, call, shown>>, aborted => aborted'
      PROVE  Goal
  BY <1>t, <1>s, <1>5
<1>6. CASE Deadline /\ ~\E c \in Clicks : Deliver(c)
  BY <1>5, <1>6 DEF Deadline
<1>7. CASE Abort /\ ~\E c \in Clicks : Deliver(c)
  <2>1. CASE Waiting
    BY <1>5, <1>7, <2>1 DEF Abort
  <2>2. CASE ~Waiting
    <3>1. UNCHANGED <<status, call, shown>> /\ aborted' /\ issued \subseteq issued'
      BY <1>7, <2>2 DEF Abort, Paint
    <3>2. wait' = wait \/ wait' = [wait EXCEPT !.completed = TRUE]
      BY <1>7, <2>2 DEF Abort
    <3>3. wait'.settled = wait.settled /\ wait'.post = wait.post
      BY <1>t, <3>2 DEF Wait
    <3> QED
      BY <1>7, <3>1, <3>3
  <2> QED
    BY <2>1, <2>2
<1> HIDE DEF Goal
<1>8. CASE \E c \in Clicks : Deliver(c)
  BY <1>4, <1>8
<1>9. CASE ~\E c \in Clicks : Deliver(c)
  BY <1>1, <1>2, <1>6, <1>7, <1>9
<1> QED
  BY <1>8, <1>9 DEF Goal

LEMMA WaitUndecided ==
  ASSUME CardInv, Goes, Undecided, ExpiresUnclicked,
         Hold \/ Posted \/ PostFails \/ Deadline \/ Abort \/ \E c \in Clicks : Deliver(c)
  PROVE  Undecided'
<1>t. wait.settled \in {"approved", "denied", "expired", "none"} /\ click \in [Clicks -> Click]
  BY DEF CardInv, TypeOK, Wait, Ends, Verdicts
<1>1. /\ UNCHANGED <<status, call, shown>> /\ issued \subseteq issued'
      /\ wait.settled # "none" => wait'.settled = wait.settled
      /\ \A c \in Clicks : Deliver(c) =>
           /\ wait'.settled # "none"
           /\ wait.settled = "none" => wait'.settled = click[c].answer
      /\ wait'.post = "none" => wait.post = "none" /\ (task' = task \/ aborted')
      /\ aborted => aborted'
  BY WaitMoves
<1>2. click' = click \/ \E c \in Clicks : Deliver(c)
  BY DEF Hold, Posted, PostFails, Deadline, Abort
<1>3. \A c \in Clicks : InHand(c)' => InHand(c)
  <2>1. ASSUME NEW d \in Clicks, Deliver(d) PROVE \A c \in Clicks : InHand(c)' => InHand(c)
    <3>1. click' = [click EXCEPT ![d].at = "over"]
      BY <2>1 DEF Deliver
    <3> QED
      BY <1>t, <3>1 DEF InHand, Click
  <2> QED
    BY <1>2, <2>1 DEF InHand
<1>4. \A c \in Clicks : Deliver(c) => InHand(c)
  BY DEF Deliver, InHand
<1>5. ASSUME wait'.settled = "none"
      PROVE  /\ call' = "none" /\ status'[Ticket] # "spent"
             /\ status'[Ticket] = "approved" =>
                  \E c \in Clicks : InHand(c)' /\ click'[c].answer = "approved"
             /\ \A c \in Clicks : click'[c].answer = "expired" => status'[Ticket] = "lapsed"
  <2>1. wait.settled = "none" /\ click' = click
    BY <1>1, <1>2, <1>5
  <2> QED
    BY <1>1, <2>1 DEF Undecided, InHand
<1>6. ASSUME wait'.settled = "expired"
      PROVE  \/ status'[Ticket] = "lapsed"
             \/ status'[Ticket] \notin {"approved", "spent"} /\ \A c \in Clicks : ~InHand(c)'
  <2>1. CASE wait.settled = "none"
    <3>1. CASE \A c \in Clicks : ~InHand(c)
      BY <1>1, <1>3, <2>1, <3>1 DEF Undecided
    <3>2. ASSUME NEW c \in Clicks, Deliver(c) PROVE status'[Ticket] = "lapsed"
      BY <1>1, <1>6, <2>1, <3>2 DEF Undecided
    <3> QED
      BY <1>6, <2>1, <3>1, <3>2 DEF ExpiresUnclicked
  <2>2. CASE wait.settled # "none"
    BY <1>1, <1>3, <1>6, <2>2 DEF Undecided
  <2> QED
    BY <2>1, <2>2
<1>7. /\ wait'.post = "none" /\ task' # "held" => aborted'
      /\ shown' \in issued' \cup {"nothing", "awaiting"}
      /\ status'[Ticket] # "unissued"
  BY <1>1 DEF Undecided
<1> QED
  BY <1>5, <1>6, <1>7 DEF Undecided

\* What happens to a click before its answer is delivered.
LEMMA ClickUndecided ==
  ASSUME CardInv, Undecided, NEW c \in Clicks,
         Relay(c) \/ RelayFails(c) \/ (\E v \in Verdicts : Press(c, v)) \/ ProxyDecides(c)
  PROVE  Undecided'
<1>t. /\ click \in [Clicks -> Click] /\ status \in [{Ticket} -> Proxy!Status]
      /\ UNCHANGED <<wait, shown, issued, task, call, aborted>>
  BY DEF CardInv, TypeOK, Relay, RelayFails, Press, ProxyDecides
<1>r. /\ wait'.post = "none" /\ task' # "held" => aborted'
      /\ shown' \in issued' \cup {"nothing", "awaiting"}
  BY <1>t DEF Undecided
<1>1. CASE Relay(c) \/ RelayFails(c) \/ \E v \in Verdicts : Press(c, v)
  <2>1. /\ UNCHANGED status /\ \A d \in Clicks \ {c} : click'[d] = click[d]
        /\ click'[c].answer \in {click[c].answer, "none"}
    BY <1>1, <1>t DEF Relay, RelayFails, Press, Click
  <2>2. InHand(c) => InHand(c)' /\ click'[c].answer = click[c].answer
    BY <1>1, <1>t DEF Relay, RelayFails, Press, InHand, Click
  <2>3. wait.settled = "expired" /\ InHand(c)' => InHand(c)
    BY <1>1, <1>t DEF Relay, RelayFails, Press, InHand, Waiting, Click
  <2>4. \A d \in Clicks \ {c} : InHand(d)' <=> InHand(d)
    BY <2>1 DEF InHand
  <2> QED
    BY <1>t, <1>r, <2>1, <2>2, <2>3, <2>4 DEF Undecided
<1>2. CASE ProxyDecides(c)
  <2>1. InHand(c) /\ click[c].answer = "none"
    BY <1>2 DEF ProxyDecides, InHand
  <2>2. /\ \A d \in Clicks : InHand(d)' <=> InHand(d)
        /\ \A d \in Clicks \ {c} : click'[d] = click[d]
    <3>1. PICK a : click' = [click EXCEPT ![c].answer = a]
      BY <1>2 DEF ProxyDecides
    <3> QED
      BY <1>t, <3>1 DEF InHand, Click
  <2>3. \/ /\ status[Ticket] = "open" /\ status'[Ticket] = click[c].verdict
           /\ click'[c].answer = click[c].verdict /\ click[c].verdict \in Verdicts
        \/ /\ status' = status /\ click'[c].answer \in Standing /\ status[Ticket] # "open"
    <3>1. CASE Proxy!Settle(Ticket, click[c].verdict) /\ click' = [click EXCEPT ![c].answer = click[c].verdict]
      BY <1>t, <3>1 DEF Proxy!Settle, Click
    <3>2. CASE /\ status[Ticket] # "open" /\ UNCHANGED proxyVars
               /\ \E a \in Standing : click' = [click EXCEPT ![c].answer = a]
      BY <1>t, <3>2 DEF proxyVars, Click
    <3> QED
      BY <1>2, <3>1, <3>2 DEF ProxyDecides
  <2>4. CASE wait.settled = "none"
    <3>1. CASE status[Ticket] = "open"
      <4>1. /\ status'[Ticket] = click[c].verdict /\ click'[c].answer = click[c].verdict
            /\ click[c].verdict \in {"approved", "denied"}
        BY <2>3, <3>1 DEF Verdicts
      <4>2. \A d \in Clicks \ {c} : click'[d].answer # "expired"
        BY <2>2, <2>4, <3>1 DEF Undecided
      <4> QED
        BY <1>t, <1>r, <2>1, <2>2, <2>4, <4>1, <4>2 DEF Undecided
    <3>2. CASE status[Ticket] # "open"
      <4>1. status' = status /\ click'[c].answer \in Standing
        BY <2>3, <3>2
      <4>2. click'[c].answer = "expired" => status[Ticket] = "lapsed"
        <5>1. status[Ticket] \in {"unissued", "approved", "denied", "lapsed"}
          BY <1>t, <2>4, <3>2 DEF Undecided, Proxy!Status
        <5>2. status[Ticket] # "unissued"
          BY DEF Undecided
        <5> QED
          BY <4>1, <5>1, <5>2 DEF Standing
      <4> QED
        BY <1>t, <1>r, <2>1, <2>2, <2>4, <4>1, <4>2 DEF Undecided
    <3> QED
      BY <3>1, <3>2
  <2>5. CASE wait.settled = "expired"
    <3>1. status[Ticket] = "lapsed"
      BY <2>1, <2>5 DEF Undecided
    <3>2. status' = status
      BY <2>3, <3>1
    <3> QED
      BY <1>t, <1>r, <2>5, <3>1, <3>2 DEF Undecided
  <2>6. CASE wait.settled \notin {"none", "expired"}
    <3>1. status'[Ticket] # "unissued"
      BY <2>3 DEF Undecided, Verdicts
    <3> QED
      BY <1>t, <1>r, <2>6, <3>1 DEF Undecided
  <2> QED
    BY <2>4, <2>5, <2>6
<1> QED
  BY <1>1, <1>2

\* A ticket that goes is gone; one is spent only by the re-submission, after
\* the wait, and only if it was approved.
LEMMA TicketUndecided ==
  ASSUME CardInv, Undecided,
         TicketLapses \/ ProxyRefuses \/ ProxyRedeems \/ ProxyStops \/ ProxyRuns
  PROVE  Undecided'
<1>t. /\ status \in [{Ticket} -> Proxy!Status]
      /\ UNCHANGED <<wait, shown, issued, task, click, aborted>>
  BY DEF CardInv, TypeOK, TicketLapses, ProxyRefuses, ProxyRedeems, ProxyStops, ProxyRuns, Unmoved
<1>h. \A c \in Clicks : InHand(c)' <=> InHand(c)
  BY <1>t DEF InHand
<1>1. CASE TicketLapses
  <2>1. status'[Ticket] = "lapsed" /\ call' = call
    BY <1>1 DEF TicketLapses, Proxy!Lapse, Proxy!Lapsed
  <2> QED
    BY <1>t, <1>h, <2>1 DEF Undecided
<1>2. CASE ProxyRefuses \/ ProxyRedeems \/ ProxyStops \/ ProxyRuns
  <2>1. call # "none"
    BY <1>2 DEF ProxyRefuses, ProxyRedeems, ProxyStops, ProxyRuns
  <2>2. wait.settled # "none"
    BY <2>1 DEF Undecided
  <2>3. status' = status \/ (status[Ticket] = "approved" /\ status'[Ticket] = "spent")
    BY <1>2, <1>t DEF ProxyRefuses, ProxyRedeems, ProxyStops, ProxyRuns, proxyVars, Proxy!Spend, Proxy!Run
  <2> QED
    BY <1>t, <1>h, <2>2, <2>3 DEF Undecided
<1> QED
  BY <1>1, <1>2

\* The card's requests and the tool client's steps.
LEMMA CardUndecided ==
  ASSUME CardInv, Undecided,
         \/ CardAppears \/ Resubmit \/ CallAnswers \/ CallThrows \/ UNCHANGED vars
         \/ \E f \in Faces : UpdateLands(f) \/ UpdateFails(f)
  PROVE  Undecided'
<1>t. wait \in Wait /\ UNCHANGED <<status, click, aborted>>
  BY DEF CardInv, TypeOK, CardAppears, Resubmit, CallAnswers, CallThrows, UpdateLands, UpdateFails, vars
<1>h. \A c \in Clicks : InHand(c)' <=> InHand(c)
  BY <1>t DEF InHand
<1>n. wait.post = "none" => updates = {}
  BY DEF CardInv, Turns, Written
<1>1. wait'.settled = wait.settled /\ wait'.post = wait.post
  <2>1. wait' = wait \/ wait' = [wait EXCEPT !.completed = TRUE]
    BY DEF CardAppears, Resubmit, CallAnswers, CallThrows, UpdateLands, UpdateFails, vars
  <2> QED
    BY <1>t, <2>1 DEF Wait
<1>2. wait.settled = "none" => call' = call
  <2>1. CASE Resubmit
    <3>1. task = "resolved" /\ (call' = call \/ ~aborted)
      BY <2>1 DEF Resubmit
    <3>2. wait.settled = "none" /\ wait.post # "none" => task = "held"
      BY DEF CardInv, Written, Turns
    <3> QED
      BY <3>1, <3>2 DEF Undecided
  <2>2. CASE ~Resubmit
    BY <2>2 DEF CardAppears, CallAnswers, CallThrows, UpdateLands, UpdateFails, vars
  <2> QED
    BY <2>1, <2>2
<1>3. wait.post = "none" /\ task' # "held" => task # "held"
  <2>1. ASSUME NEW f \in Faces, UpdateLands(f) \/ UpdateFails(f) PROVE wait.post # "none"
    BY <1>n, <2>1 DEF UpdateLands, UpdateFails
  <2> QED
    BY <2>1 DEF CardAppears, Resubmit, CallAnswers, CallThrows, vars
<1>4. shown' \in issued' \cup {"nothing", "awaiting"}
  <2>1. issued \subseteq issued'
    BY DEF CardAppears, Resubmit, CallAnswers, CallThrows, UpdateLands, UpdateFails, vars, Paint
  <2>2. shown' = shown \/ shown' = "awaiting" \/ shown' \in updates
    BY DEF CardAppears, Resubmit, CallAnswers, CallThrows, UpdateLands, UpdateFails, vars
  <2>3. updates \subseteq issued
    BY DEF CardInv, Turns
  <2> QED
    BY <2>1, <2>2, <2>3 DEF Undecided
<1> QED
  BY <1>t, <1>h, <1>1, <1>2, <1>3, <1>4 DEF Undecided

\* A card that reads "the call did not run" is right of every wait that did not
\* expire under a click the proxy was still being asked about; TLC has the call
\* that runs where one did (ExpiredDidNotRun.cfg).
THEOREM ExpiredIfUnclicked == Spec /\ [][ExpiresUnclicked]_vars => []ExpiredDidNotRun
<1>1. Init => Undecided
  BY DEF Init, Undecided, Unclicked
<1>2. CardInv /\ Goes /\ Undecided /\ [Next]_vars /\ [ExpiresUnclicked]_vars => Undecided'
  <2>1. ASSUME CardInv, Goes, Undecided, Next, ExpiresUnclicked PROVE Undecided'
    BY <2>1, WaitUndecided, ClickUndecided, TicketUndecided, CardUndecided DEF Next
  <2>2. ASSUME CardInv, Undecided, UNCHANGED vars PROVE Undecided'
    BY <2>2, CardUndecided
  <2> QED
    BY <2>1, <2>2
<1>3. CardInv /\ Undecided => ExpiredDidNotRun
  <2> SUFFICES ASSUME CardInv, Undecided, shown = "expired" PROVE runs[Ticket] = 0
    BY DEF ExpiredDidNotRun
  <2>1. "expired" \in issued
    BY DEF Undecided
  <2>2. wait.settled = "expired"
    <3>1. wait.settled \in {"approved", "denied", "expired", "none"}
      BY DEF CardInv, TypeOK, Wait, Ends, Verdicts
    <3>2. wait.settled # "none" /\ wait.settled # "denied"
      BY <2>1 DEF CardInv, Written
    <3>3. wait.settled # "approved"
      BY <2>1 DEF CardInv, Written
    <3> QED
      BY <3>1, <3>2, <3>3
  <2>3. status[Ticket] # "spent"
    BY <2>2 DEF Undecided
  <2>4. runs[Ticket] \in {0, 1}
    BY DEF CardInv, TypeOK
  <2> QED
    BY <2>3, <2>4 DEF CardInv, Served
<1> QED
  BY <1>1, <1>2, <1>3, CardInvariant, GoesAlways, PTL DEF Spec
=============================================================================
