------------------------- MODULE SpendReportsProofs --------------------------
(***************************************************************************)
(* Proofs of the properties of SpendReports, for any turns, models, day,   *)
(* retention and bounds, and any budget file a proxy may find.             *)
(*                                                                         *)
(* The invariant keeps what each property needs of the past: a turn that   *)
(* was counted is still claimed, unless it was cleared or is older than    *)
(* the retention (Remembered); the report in hand was counted before it is *)
(* compared (Behind); old columns that are gone are empty, also for a      *)
(* process that looked for them before another moved them (Moving).        *)
(***************************************************************************)
EXTENDS SpendReports, FiniteSetTheorems, TLAPS

-----------------------------------------------------------------------------
(***************************************************************************)
(* The inductive invariant                                                 *)
(***************************************************************************)
\* A budget file, without the bounds of the model.
Books == [stamp : 0..2, old : BOOLEAN, columns : [Days -> Nat],
          bucket : [Days -> [Models -> Nat]], calls : [Days -> Nat],
          turns : [Turns -> [at : Int, day : Days]]]

Past == [times : [Turns -> Nat], last : [Turns -> Int], cleared : SUBSET Turns,
         counted : [Days -> [Models -> Nat]], resets : Nat]

Types ==
  /\ now \in 0..MaxTime
  /\ file \in Books
  /\ proc \in [Procs -> Proc]
  /\ hand \in Hand
  /\ drift \in [Days -> [Models -> Nat]]
  /\ past \in Past

Remembered ==
  \A t \in Turns : past.times[t] # 0 =>
    /\ past.last[t] \in Nat
    /\ \/ t \in past.cleared
       \/ file.turns[t].at = past.last[t]
       \/ now - past.last[t] > Retention

\* The report in hand, if the meter counted it and nothing was compared yet.
InHand(d, m) == hand.step # "none" /\ hand.fresh /\ hand.day = d /\ ModelOf[hand.turn] = m

Behind ==
  \A d \in Days, m \in Models :
    /\ drift[d][m] <= past.counted[d][m]
    /\ InHand(d, m) => drift[d][m] < past.counted[d][m]

Moving ==
  /\ ~file.old => \A d \in Days : file.columns[d] = 0
  /\ \A p \in Procs : (proc[p].pc = "columned" /\ ~proc[p].carries) => ~file.old

Inv == Types /\ Remembered /\ Behind /\ Moving /\ ClaimsAreCounted

-----------------------------------------------------------------------------
(***************************************************************************)
(* The day, and the files a step may write                                 *)
(***************************************************************************)
LEMMA TodayIsADay == ASSUME now \in 0..MaxTime PROVE Today \in Days /\ 0 \in Days
<1> USE SpendAssumption
<1> DEFINE q == now \div DayTicks
           r == MaxTime \div DayTicks
<1>1. now \in Nat /\ MaxTime \in Nat /\ now <= MaxTime /\ DayTicks \in Nat /\ DayTicks > 0
  OBVIOUS
<1>2. q \in Nat /\ DayTicks * q <= now
  BY <1>1
<1>3. r \in Nat /\ MaxTime < DayTicks * (r + 1)
  BY <1>1
<1>4. q <= r
  <2> HIDE DEF q, r
  <2> SUFFICES ASSUME r < q PROVE FALSE
    BY <1>2, <1>3
  <2>1. DayTicks * (r + 1) <= DayTicks * q
    BY <1>1, <1>2, <1>3
  <2>2. DayTicks * (r + 1) \in Nat /\ DayTicks * q \in Nat
    BY <1>1, <1>2, <1>3
  <2> QED
    BY <1>1, <1>2, <1>3, <2>1, <2>2
<1> QED
  BY <1>2, <1>3, <1>4 DEF Today, Days

\* A report's commit writes the claim and the tokens, and nothing else.
LEMMA CountedWrites ==
  ASSUME file \in Books, now \in Nat, Today \in Days, NEW t \in Turns
  PROVE  /\ Counted(t) \in Books
         /\ Counted(t).stamp = file.stamp /\ Counted(t).old = file.old
         /\ Counted(t).columns = file.columns /\ Counted(t).calls = file.calls
         /\ Counted(t).turns = [file.turns EXCEPT ![t] = [at |-> now, day |-> Today]]
         /\ \A d \in Days, m \in Models :
              Counted(t).bucket[d][m] =
                IF d = Today /\ m = ModelOf[t] THEN file.bucket[d][m] + 1 ELSE file.bucket[d][m]
<1> USE SpendAssumption
<1>1. /\ file.bucket \in [Days -> [Models -> Nat]] /\ file.turns \in [Turns -> [at : Int, day : Days]]
      /\ file.stamp \in 0..2 /\ file.old \in BOOLEAN
      /\ file.columns \in [Days -> Nat] /\ file.calls \in [Days -> Nat]
  BY DEF Books
<1>2. ModelOf[t] \in Models
  OBVIOUS
<1> DEFINE b == [file.bucket EXCEPT ![Today][ModelOf[t]] = @ + 1]
           u == [file.turns EXCEPT ![t] = [at |-> now, day |-> Today]]
<1>3. b \in [Days -> [Models -> Nat]]
  BY <1>1, <1>2
<1>4. u \in [Turns -> [at : Int, day : Days]]
  BY <1>1
<1>5. \A d \in Days, m \in Models :
        b[d][m] = IF d = Today /\ m = ModelOf[t] THEN file.bucket[d][m] + 1 ELSE file.bucket[d][m]
  BY <1>1, <1>2
<1>6. Counted(t) = [file EXCEPT !.turns = u, !.bucket = b]
  BY DEF Counted, Books
<1> HIDE DEF b, u
<1>7. /\ Counted(t).turns = u /\ Counted(t).bucket = b
      /\ Counted(t).stamp = file.stamp /\ Counted(t).old = file.old
      /\ Counted(t).columns = file.columns /\ Counted(t).calls = file.calls
  BY <1>6 DEF Books
<1>8. Counted(t) \in Books
  BY <1>1, <1>3, <1>4, <1>6 DEF Books
<1> QED
  BY <1>5, <1>7, <1>8 DEF u

LEMMA WithoutWrites ==
  ASSUME file \in Books, 0 \in Days, NEW S
  PROVE  /\ Without(S) \in Books
         /\ Without(S).stamp = file.stamp /\ Without(S).old = file.old
         /\ Without(S).columns = file.columns /\ Without(S).calls = file.calls
         /\ Without(S).bucket = file.bucket
         /\ Without(S).turns = [t \in Turns |-> IF t \in S THEN Forgotten ELSE file.turns[t]]
<1>1. file.turns \in [Turns -> [at : Int, day : Days]]
  BY DEF Books
<1> DEFINE u == [t \in Turns |-> IF t \in S THEN Forgotten ELSE file.turns[t]]
<1>2. u \in [Turns -> [at : Int, day : Days]]
  BY <1>1 DEF Forgotten, Never
<1>3. Without(S) = [file EXCEPT !.turns = u]
  BY DEF Without
<1> HIDE DEF u
<1>4. /\ Without(S) \in Books /\ Without(S).turns = u
      /\ Without(S).stamp = file.stamp /\ Without(S).old = file.old
      /\ Without(S).columns = file.columns /\ Without(S).calls = file.calls
      /\ Without(S).bucket = file.bucket
  BY <1>2, <1>3 DEF Books
<1> QED
  BY <1>4 DEF u

LEMMA ClearedWrites ==
  ASSUME file \in Books, 0 \in Days, NEW e \in Days
  PROVE  /\ Cleared(e) \in Books
         /\ Cleared(e).stamp = file.stamp /\ Cleared(e).old = file.old
         /\ Cleared(e).columns = file.columns
         /\ Cleared(e).turns = [t \in Turns |-> IF t \in Dated(e) THEN Forgotten ELSE file.turns[t]]
         /\ \A d \in Days : d # e => Cleared(e).bucket[d] = file.bucket[d]
         /\ \A m \in Models : Cleared(e).bucket[e][m] = 0
<1> DEFINE w == Without(Dated(e))
<1>1. /\ w \in Books /\ w.stamp = file.stamp /\ w.old = file.old
      /\ w.columns = file.columns /\ w.calls = file.calls /\ w.bucket = file.bucket
      /\ w.turns = [t \in Turns |-> IF t \in Dated(e) THEN Forgotten ELSE file.turns[t]]
  BY WithoutWrites
<1> HIDE DEF w
<1> DEFINE b == [w.bucket EXCEPT ![e] = [m \in Models |-> 0]]
           k == [w.calls EXCEPT ![e] = 0]
<1>2. w.bucket \in [Days -> [Models -> Nat]] /\ w.calls \in [Days -> Nat]
  BY <1>1 DEF Books
<1>3. b \in [Days -> [Models -> Nat]] /\ k \in [Days -> Nat]
  BY <1>2
<1>4. (\A d \in Days : d # e => b[d] = file.bucket[d]) /\ \A m \in Models : b[e][m] = 0
  BY <1>1, <1>2
<1>5. Cleared(e) = [w EXCEPT !.bucket = b, !.calls = k]
  BY <1>1 DEF Cleared, Books, w
<1> HIDE DEF b, k
<1>6. /\ Cleared(e) \in Books /\ Cleared(e).bucket = b
      /\ Cleared(e).stamp = w.stamp /\ Cleared(e).old = w.old
      /\ Cleared(e).columns = w.columns /\ Cleared(e).turns = w.turns
  BY <1>1, <1>3, <1>5 DEF Books
<1> QED
  BY <1>1, <1>4, <1>6

LEMMA RebuiltWrites ==
  ASSUME file \in Books, NEW carries \in BOOLEAN
  PROVE  /\ Rebuilt(carries) \in Books
         /\ ~Rebuilt(carries).old /\ Rebuilt(carries).columns = [d \in Days |-> 0]
         /\ Rebuilt(carries).turns = file.turns /\ Rebuilt(carries).calls = file.calls
         /\ \A d \in Days : Rebuilt(carries).bucket[d] =
              [file.bucket[d] EXCEPT ![Legacy] = @ + IF carries THEN file.columns[d] ELSE 0]
<1> USE SpendAssumption
<1>1. file.bucket \in [Days -> [Models -> Nat]] /\ file.columns \in [Days -> Nat]
  BY DEF Books
<1>2. \A d \in Days :
        [file.bucket[d] EXCEPT ![Legacy] = @ + IF carries THEN file.columns[d] ELSE 0] \in [Models -> Nat]
  <2> SUFFICES ASSUME NEW d \in Days
               PROVE  [file.bucket[d] EXCEPT ![Legacy] = @ + IF carries THEN file.columns[d] ELSE 0] \in [Models -> Nat]
    OBVIOUS
  <2>1. file.bucket[d] \in [Models -> Nat] /\ file.columns[d] \in Nat
    BY <1>1
  <2>2. file.bucket[d][Legacy] + (IF carries THEN file.columns[d] ELSE 0) \in Nat
    BY <2>1
  <2> QED
    BY <2>1, <2>2
<1> DEFINE b == Moved(carries)
           z == [d \in Days |-> 0]
<1>3. b \in [Days -> [Models -> Nat]] /\ z \in [Days -> Nat]
  BY <1>2 DEF Moved
<1>4. \A d \in Days :
        b[d] = [file.bucket[d] EXCEPT ![Legacy] = @ + IF carries THEN file.columns[d] ELSE 0]
  BY DEF Moved
<1>5. Rebuilt(carries) = [file EXCEPT !.stamp = 2, !.old = FALSE, !.bucket = b, !.columns = z]
  BY DEF Rebuilt
<1> HIDE DEF b, z
<1> DEFINE r == Rebuilt(carries)
<1>a. /\ r.stamp = 2 /\ r.old = FALSE /\ r.columns = z /\ r.bucket = b
      /\ r.turns = file.turns /\ r.calls = file.calls
  BY <1>5 DEF Books
<1>b. r = [stamp |-> 2, old |-> FALSE, columns |-> z, bucket |-> b, calls |-> file.calls, turns |-> file.turns]
  BY <1>5 DEF Books
<1>c. file.calls \in [Days -> Nat] /\ file.turns \in [Turns -> [at : Int, day : Days]]
  BY DEF Books
<1>d. r \in Books
  BY <1>3, <1>b, <1>c DEF Books
<1>6. /\ Rebuilt(carries) \in Books /\ ~Rebuilt(carries).old
      /\ Rebuilt(carries).columns = z /\ Rebuilt(carries).bucket = b
      /\ Rebuilt(carries).turns = file.turns /\ Rebuilt(carries).calls = file.calls
  BY <1>a, <1>d
<1> QED
  BY <1>4, <1>6 DEF z

-----------------------------------------------------------------------------
(***************************************************************************)
(* ClaimsAreCounted, by what a step writes to the file                     *)
(***************************************************************************)
ClaimsOf(d, m) == {t \in Dated(d) : ModelOf[t] = m}

LEMMA ClaimsFinite ==
  \A d, m : IsFiniteSet(ClaimsOf(d, m)) /\ Cardinality(ClaimsOf(d, m)) \in Nat
<1> TAKE d, m
<1>1. ClaimsOf(d, m) \subseteq Turns /\ IsFiniteSet(Turns)
  BY SpendAssumption DEF ClaimsOf, Dated
<1> QED
  BY <1>1, FS_Subset, FS_CardinalityType

\* A step that forgets claims, or none, and takes no tokens away.
LEMMA ClaimsDwindle ==
  ASSUME file \in Books, file' \in Books, ClaimsAreCounted,
         \A t \in Turns : file'.turns[t] = file.turns[t] \/ file'.turns[t] = Forgotten,
         \A d \in Days, m \in Models : file.bucket[d][m] <= file'.bucket[d][m]
  PROVE  ClaimsAreCounted'
<1> SUFFICES ASSUME NEW d \in Days, NEW m \in Models
             PROVE  Cardinality(ClaimsOf(d, m)') <= file'.bucket[d][m]
  BY DEF ClaimsAreCounted, ClaimsOf
<1>1. ClaimsOf(d, m)' \subseteq ClaimsOf(d, m)
  BY DEF ClaimsOf, Dated, Forgotten
<1>2. IsFiniteSet(ClaimsOf(d, m)) /\ Cardinality(ClaimsOf(d, m)) \in Nat
  BY ClaimsFinite
<1>3. /\ Cardinality(ClaimsOf(d, m)') <= Cardinality(ClaimsOf(d, m))
      /\ Cardinality(ClaimsOf(d, m)') \in Nat
  BY <1>1, <1>2, FS_Subset, FS_CardinalityType
<1>4. Cardinality(ClaimsOf(d, m)) <= file.bucket[d][m]
  BY DEF ClaimsAreCounted, ClaimsOf
<1>5. file.bucket[d][m] \in Nat /\ file'.bucket[d][m] \in Nat /\ file.bucket[d][m] <= file'.bucket[d][m]
  BY DEF Books
<1> QED
  BY <1>2, <1>3, <1>4, <1>5

LEMMA ClaimsCount ==
  ASSUME file \in Books, now \in Nat, Today \in Days, ClaimsAreCounted,
         NEW t \in Turns, ~Claimed(t), file' = Counted(t)
  PROVE  ClaimsAreCounted'
<1> SUFFICES ASSUME NEW d \in Days, NEW m \in Models
             PROVE  Cardinality(ClaimsOf(d, m)') <= file'.bucket[d][m]
  BY DEF ClaimsAreCounted, ClaimsOf
<1> DEFINE c == Counted(t)
<1>a. /\ c.turns = [file.turns EXCEPT ![t] = [at |-> now, day |-> Today]]
      /\ \A e \in Days, n \in Models :
           c.bucket[e][n] = IF e = Today /\ n = ModelOf[t] THEN file.bucket[e][n] + 1 ELSE file.bucket[e][n]
  BY CountedWrites
<1>b. file' = c
  OBVIOUS
<1> HIDE DEF c
<1>1. file'.turns = [file.turns EXCEPT ![t] = [at |-> now, day |-> Today]]
  BY <1>a, <1>b
<1>2. file'.bucket[d][m] =
        IF d = Today /\ m = ModelOf[t] THEN file.bucket[d][m] + 1 ELSE file.bucket[d][m]
  BY <1>a, <1>b
<1>3. file.turns \in [Turns -> [at : Int, day : Days]] /\ file.bucket[d][m] \in Nat
  BY DEF Books
<1>4. /\ Cardinality(ClaimsOf(d, m)) <= file.bucket[d][m]
      /\ IsFiniteSet(ClaimsOf(d, m)) /\ Cardinality(ClaimsOf(d, m)) \in Nat
  BY ClaimsFinite DEF ClaimsAreCounted, ClaimsOf
<1>5. \A u \in Turns : u # t => file'.turns[u] = file.turns[u]
  BY <1>1, <1>3
<1>6. file'.turns[t].at # Never /\ file'.turns[t].day = Today /\ file.turns[t].at = Never
  BY <1>1, <1>3 DEF Claimed, Never
<1>7. CASE d = Today /\ m = ModelOf[t]
  <2>1. ClaimsOf(d, m)' = ClaimsOf(d, m) \cup {t} /\ t \notin ClaimsOf(d, m)
    BY <1>5, <1>6, <1>7 DEF ClaimsOf, Dated
  <2>2. Cardinality(ClaimsOf(d, m)') = Cardinality(ClaimsOf(d, m)) + 1
    BY <1>4, <2>1, FS_AddElement
  <2> QED
    BY <1>2, <1>3, <1>4, <1>7, <2>2
<1>8. CASE ~(d = Today /\ m = ModelOf[t])
  <2>1. ClaimsOf(d, m)' = ClaimsOf(d, m)
    BY <1>5, <1>6, <1>8 DEF ClaimsOf, Dated
  <2> QED
    BY <1>2, <1>4, <1>8, <2>1
<1> QED
  BY <1>7, <1>8

LEMMA ClaimsClear ==
  ASSUME file \in Books, 0 \in Days, NEW e \in Days, ClaimsAreCounted, file' = Cleared(e)
  PROVE  ClaimsAreCounted'
<1> SUFFICES ASSUME NEW d \in Days, NEW m \in Models
             PROVE  Cardinality(ClaimsOf(d, m)') <= file'.bucket[d][m]
  BY DEF ClaimsAreCounted, ClaimsOf
<1>1. /\ file'.turns = [t \in Turns |-> IF t \in Dated(e) THEN Forgotten ELSE file.turns[t]]
      /\ d # e => file'.bucket[d] = file.bucket[d]
      /\ d = e => file'.bucket[d][m] = 0
  BY ClearedWrites
<1>2. CASE d = e
  <2>1. ClaimsOf(d, m)' = {}
    BY <1>1, <1>2 DEF ClaimsOf, Dated, Forgotten
  <2> QED
    BY <1>1, <1>2, <2>1, FS_EmptySet
<1>3. CASE d # e
  <2>1. ClaimsOf(d, m)' \subseteq ClaimsOf(d, m)
    BY <1>1 DEF ClaimsOf, Dated, Forgotten
  <2>a. Cardinality(ClaimsOf(d, m)) <= file.bucket[d][m]
    BY DEF ClaimsAreCounted, ClaimsOf
  <2>b. file.bucket[d][m] \in Nat
    BY DEF Books
  <2>2. /\ Cardinality(ClaimsOf(d, m)) <= file.bucket[d][m] /\ file.bucket[d][m] \in Nat
        /\ IsFiniteSet(ClaimsOf(d, m)) /\ Cardinality(ClaimsOf(d, m)) \in Nat
    BY <2>a, <2>b, ClaimsFinite
  <2>3. /\ Cardinality(ClaimsOf(d, m)') <= Cardinality(ClaimsOf(d, m))
        /\ Cardinality(ClaimsOf(d, m)') \in Nat
    BY <2>1, <2>2, FS_Subset, FS_CardinalityType
  <2> QED
    BY <1>1, <1>3, <2>2, <2>3
<1> QED
  BY <1>2, <1>3

-----------------------------------------------------------------------------
(***************************************************************************)
(* One step per action                                                     *)
(***************************************************************************)
LEMMA Facts ==
  ASSUME Inv
  PROVE  /\ now \in 0..MaxTime /\ now \in Nat /\ Today \in Days /\ 0 \in Days
         /\ file \in Books /\ proc \in [Procs -> Proc] /\ hand \in Hand
         /\ drift \in [Days -> [Models -> Nat]] /\ past \in Past
         /\ Remembered /\ Behind /\ Moving /\ ClaimsAreCounted
<1>1. now \in 0..MaxTime /\ MaxTime \in Nat
  BY SpendAssumption DEF Inv, Types
<1>2. Today \in Days /\ 0 \in Days
  BY <1>1, TodayIsADay
<1> QED
  BY <1>1, <1>2 DEF Inv, Types

\* A step of the processes and the hand that leaves the rest alone.
LEMMA ProcsKeep ==
  ASSUME Inv, UNCHANGED <<now, file, drift, past>>, proc' \in [Procs -> Proc],
         \A p \in Procs : \/ proc'[p] = proc[p]
                          \/ proc'[p].pc # "columned"
                          \/ proc'[p].carries = file.old,
         hand' = hand \/ hand' = Nothing
  PROVE  Inv'
<1> USE Facts
<1>1. hand' \in Hand
  <2>1. (CHOOSE t \in Turns : TRUE) \in Turns
    BY SpendAssumption
  <2>2. Nothing \in Hand
    BY <2>1 DEF Nothing, Hand
  <2> QED
    BY <2>2
<1>2. Types'
  BY <1>1 DEF Types
<1>3. Remembered'
  BY DEF Remembered
<1>4. Behind'
  BY DEF Behind, InHand, Nothing
<1>5. Moving'
  BY DEF Moving
<1>6. ClaimsAreCounted'
  BY DEF ClaimsAreCounted, Dated
<1> QED
  BY <1>2, <1>3, <1>4, <1>5, <1>6 DEF Inv

\* A process's next state, for each way it moves.
LEMMA ProcTo ==
  ASSUME Inv, NEW p \in Procs, NEW pc \in {"down", "versioned", "columned", "up"}
  PROVE  /\ To(p, pc) \in [Procs -> Proc] /\ To(p, pc)[p].pc = pc
         /\ \A q \in Procs : q # p => To(p, pc)[q] = proc[q]
<1>1. proc \in [Procs -> Proc] /\ proc[p] \in Proc
  BY Facts
<1>2. [proc[p] EXCEPT !.pc = pc] \in Proc /\ [proc[p] EXCEPT !.pc = pc].pc = pc
  BY <1>1 DEF Proc
<1> QED
  BY <1>1, <1>2 DEF To

LEMMA ProcDown ==
  ASSUME Inv, NEW p \in Procs
  PROVE  [proc EXCEPT ![p] = Down] \in [Procs -> Proc] /\ Down.pc = "down"
<1>1. Down \in Proc /\ Down.pc = "down"
  BY DEF Down, Proc
<1> QED
  BY <1>1, Facts

LEMMA ProcColumned ==
  ASSUME Inv, NEW p \in Procs, proc' = [proc EXCEPT ![p].pc = "columned", ![p].carries = file.old]
  PROVE  /\ proc' \in [Procs -> Proc] /\ proc'[p].carries = file.old
         /\ \A q \in Procs : q # p => proc'[q] = proc[q]
<1>1. proc \in [Procs -> Proc] /\ proc[p] \in Proc /\ file.old \in BOOLEAN
  BY Facts DEF Books
<1> DEFINE r == [proc[p] EXCEPT !.pc = "columned", !.carries = file.old]
<1>2. r \in Proc /\ r.carries = file.old
  BY <1>1 DEF Proc
<1>3. proc' = [proc EXCEPT ![p] = r]
  BY <1>1
<1> HIDE DEF r
<1> QED
  BY <1>1, <1>2, <1>3

LEMMA ProcPruned ==
  ASSUME Inv, NEW p \in Procs, NEW d \in Days, proc' = [proc EXCEPT ![p].pruned = d]
  PROVE  /\ proc' \in [Procs -> Proc]
         /\ \A q \in Procs : proc'[q].pc = proc[q].pc /\ proc'[q].carries = proc[q].carries
<1>1. proc \in [Procs -> Proc] /\ proc[p] \in Proc
  BY Facts
<1> DEFINE r == [proc[p] EXCEPT !.pruned = d]
<1>2. r \in Proc /\ r.pc = proc[p].pc /\ r.carries = proc[p].carries
  BY <1>1 DEF Proc
<1>3. proc' = [proc EXCEPT ![p] = r]
  BY <1>1
<1> HIDE DEF r
<1> QED
  BY <1>1, <1>2, <1>3

LEMMA OpenKeeps == ASSUME Inv, NEW p \in Procs, Open(p) PROVE Inv'
<1>1. \E pc \in {"up", "versioned"} : proc' = To(p, pc)
  BY Zenon DEF Open
<1>2. proc' \in [Procs -> Proc] /\ proc'[p].pc # "columned" /\ \A q \in Procs : q # p => proc'[q] = proc[q]
  BY <1>1, ProcTo
<1>3. UNCHANGED <<now, file, hand, drift, past>>
  BY DEF Open
<1>4. \A q \in Procs : proc'[q] = proc[q] \/ proc'[q].pc # "columned"
  BY <1>2
<1> QED
  BY <1>2, <1>3, <1>4, ProcsKeep

LEMMA ReadColumnsKeeps == ASSUME Inv, NEW p \in Procs, ReadColumns(p) PROVE Inv'
<1>1. proc' = [proc EXCEPT ![p].pc = "columned", ![p].carries = file.old]
  BY DEF ReadColumns
<1>2. /\ proc' \in [Procs -> Proc] /\ proc'[p].carries = file.old
      /\ \A q \in Procs : q # p => proc'[q] = proc[q]
  BY <1>1, ProcColumned
<1> QED
  BY <1>2, ProcsKeep DEF ReadColumns

LEMMA StopKeeps == ASSUME Inv, NEW p \in Procs, Stop(p) PROVE Inv'
<1>1. proc' = [proc EXCEPT ![p] = Down] /\ (hand' = hand \/ hand' = Nothing)
  BY DEF Stop
<1>2. proc' \in [Procs -> Proc] /\ Down.pc = "down"
  BY <1>1, ProcDown
<1>3. \A q \in Procs : proc'[q] = proc[q] \/ proc'[q].pc # "columned"
  BY <1>1, <1>2, Facts
<1>4. UNCHANGED <<now, file, drift, past>>
  BY DEF Stop
<1> QED
  BY <1>1, <1>2, <1>3, <1>4, ProcsKeep

\* The migration: its columns moved, or the process ended by another's.
LEMMA RebuildKeeps == ASSUME Inv, NEW p \in Procs, Rebuild(p) PROVE Inv'
<1> USE Facts
<1>1. UNCHANGED <<now, hand, drift, past>>
  BY DEF Rebuild
<1>2. CASE proc[p].carries /\ ~file.old
  <2>1. proc' = [proc EXCEPT ![p] = Down] /\ file' = file
    BY <1>2 DEF Rebuild
  <2>2. proc' \in [Procs -> Proc] /\ Down.pc = "down"
    BY <2>1, ProcDown
  <2>3. \A q \in Procs : proc'[q] = proc[q] \/ proc'[q].pc # "columned"
    BY <2>1, <2>2
  <2> QED
    BY <1>1, <2>1, <2>2, <2>3, ProcsKeep
<1>3. CASE ~(proc[p].carries /\ ~file.old)
  <2>1. proc' = To(p, "up") /\ file' = Rebuilt(proc[p].carries) /\ proc[p].carries \in BOOLEAN
    BY <1>3 DEF Rebuild, Proc
  <2>2. /\ file' \in Books /\ ~file'.old /\ file'.columns = [d \in Days |-> 0]
        /\ file'.turns = file.turns
        /\ \A d \in Days : file'.bucket[d] =
             [file.bucket[d] EXCEPT ![Legacy] = @ + IF proc[p].carries THEN file.columns[d] ELSE 0]
    BY <2>1, RebuiltWrites
  <2>3. /\ proc' \in [Procs -> Proc] /\ proc'[p].pc = "up"
        /\ \A q \in Procs : q # p => proc'[q] = proc[q]
    BY <2>1, ProcTo
  <2>4. Types'
    BY <1>1, <2>2, <2>3 DEF Types
  <2>5. Remembered'
    BY <1>1, <2>2 DEF Remembered
  <2>6. Behind'
    BY <1>1 DEF Behind, InHand
  <2>7. Moving'
    BY <2>2 DEF Moving
  <2>8. \A d \in Days, m \in Models : file.bucket[d][m] <= file'.bucket[d][m]
    <3> TAKE d \in Days, m \in Models
    <3>1. file.bucket[d] \in [Models -> Nat] /\ file.columns[d] \in Nat /\ file.bucket[d][m] \in Nat
      BY DEF Books
    <3>2. file'.bucket[d] =
            [file.bucket[d] EXCEPT ![Legacy] = @ + IF proc[p].carries THEN file.columns[d] ELSE 0]
      BY <2>2
    <3> QED
      BY <3>1, <3>2
  <2>9. ClaimsAreCounted'
    BY <2>2, <2>8, ClaimsDwindle
  <2> QED
    BY <2>4, <2>5, <2>6, <2>7, <2>9 DEF Inv
<1> QED
  BY <1>2, <1>3

-----------------------------------------------------------------------------
\* A tool call moves its own counter.
LEMMA AddToolCallKeeps == ASSUME Inv, AddToolCall PROVE Inv'
<1> USE Facts
<1>1. UNCHANGED <<now, proc, hand, drift, past>>
  BY DEF AddToolCall
<1>2. /\ file' \in Books /\ file'.turns = file.turns /\ file'.old = file.old
      /\ file'.columns = file.columns /\ file'.bucket = file.bucket
  <2>1. file.calls \in [Days -> Nat]
    BY DEF Books
  <2> DEFINE k == [file.calls EXCEPT ![Today] = @ + 1]
  <2>2. k \in [Days -> Nat]
    BY <2>1
  <2>3. file' = [file EXCEPT !.calls = k]
    BY DEF AddToolCall, Books
  <2> HIDE DEF k
  <2> QED
    BY <2>2, <2>3 DEF Books
<1>3. Types'
  BY <1>1, <1>2 DEF Types
<1>4. Remembered'
  BY <1>1, <1>2 DEF Remembered
<1>5. Behind'
  BY <1>1 DEF Behind, InHand
<1>6. Moving'
  BY <1>1, <1>2 DEF Moving
<1>7. ClaimsAreCounted'
  BY <1>2 DEF ClaimsAreCounted, Dated
<1> QED
  BY <1>3, <1>4, <1>5, <1>6, <1>7 DEF Inv

\* A duplicate leaves the file alone; the hand holds it.
LEMMA DuplicateKeeps == ASSUME Inv, NEW t \in Turns, Record(t), Claimed(t) PROVE Inv'
<1> USE Facts
<1>1. /\ UNCHANGED <<now, file, proc, drift, past>>
      /\ hand' = [step |-> "recorded", turn |-> t, day |-> Today, fresh |-> FALSE]
  BY DEF Record
<1>2. Types'
  BY <1>1 DEF Types, Hand
<1>3. Remembered'
  BY <1>1 DEF Remembered
<1>4. Behind'
  BY <1>1 DEF Behind, InHand
<1>5. Moving'
  BY <1>1 DEF Moving
<1>6. ClaimsAreCounted'
  BY <1>1 DEF ClaimsAreCounted, Dated
<1> QED
  BY <1>2, <1>3, <1>4, <1>5, <1>6 DEF Inv

\* What a fresh report adds to the past.
LEMMA PastMoves ==
  ASSUME Inv, NEW t \in Turns,
         past' = [past EXCEPT !.times[t] = @ + 1, !.last[t] = now, !.cleared = @ \ {t},
                              !.counted[Today][ModelOf[t]] = @ + 1]
  PROVE  /\ past' \in Past /\ past'.last[t] = now
         /\ past'.cleared = past.cleared \ {t}
         /\ \A u \in Turns : u # t => (past'.times[u] = past.times[u] /\ past'.last[u] = past.last[u])
         /\ \A d \in Days, m \in Models :
              past'.counted[d][m] = IF d = Today /\ m = ModelOf[t] THEN past.counted[d][m] + 1
                                                                   ELSE past.counted[d][m]
<1> USE Facts, SpendAssumption
<1>1. /\ past.times \in [Turns -> Nat] /\ past.last \in [Turns -> Int] /\ past.cleared \in SUBSET Turns
      /\ past.counted \in [Days -> [Models -> Nat]] /\ past.resets \in Nat /\ ModelOf[t] \in Models
  BY DEF Past
<1> DEFINE n == [past.times EXCEPT ![t] = @ + 1]
           l == [past.last EXCEPT ![t] = now]
           k == [past.counted EXCEPT ![Today][ModelOf[t]] = @ + 1]
           e == past.cleared \ {t}
<1>2. n \in [Turns -> Nat] /\ l \in [Turns -> Int] /\ k \in [Days -> [Models -> Nat]] /\ e \in SUBSET Turns
  BY <1>1
<1>3. past' = [past EXCEPT !.times = n, !.last = l, !.cleared = e, !.counted = k]
  BY DEF Past
<1>4. \A u \in Turns : u # t => (n[u] = past.times[u] /\ l[u] = past.last[u])
  BY <1>1
<1>5. l[t] = now
  BY <1>1
<1>6. \A d \in Days, m \in Models :
        k[d][m] = IF d = Today /\ m = ModelOf[t] THEN past.counted[d][m] + 1 ELSE past.counted[d][m]
  BY <1>1
<1> HIDE DEF n, l, k, e
<1>7. /\ past'.times = n /\ past'.last = l /\ past'.cleared = e /\ past'.counted = k
      /\ past' \in Past
  BY <1>1, <1>2, <1>3 DEF Past
<1> QED
  BY <1>4, <1>5, <1>6, <1>7 DEF e

LEMMA FreshKeeps == ASSUME Inv, NEW t \in Turns, Record(t), ~Claimed(t) PROVE Inv'
<1> USE Facts
<1>1. /\ UNCHANGED <<now, proc, drift>> /\ file' = Counted(t) /\ hand.step = "none"
      /\ hand' = [step |-> "recorded", turn |-> t, day |-> Today, fresh |-> TRUE]
      /\ past' = [past EXCEPT !.times[t] = @ + 1, !.last[t] = now, !.cleared = @ \ {t},
                              !.counted[Today][ModelOf[t]] = @ + 1]
  BY DEF Record, Serving
<1>2. /\ past' \in Past /\ past'.last[t] = now /\ past'.cleared = past.cleared \ {t}
      /\ \A u \in Turns : u # t => (past'.times[u] = past.times[u] /\ past'.last[u] = past.last[u])
      /\ \A d \in Days, m \in Models :
           past'.counted[d][m] = IF d = Today /\ m = ModelOf[t] THEN past.counted[d][m] + 1
                                                                ELSE past.counted[d][m]
  BY <1>1, PastMoves
<1>3. /\ file' \in Books /\ file'.old = file.old /\ file'.columns = file.columns
      /\ file'.turns = [file.turns EXCEPT ![t] = [at |-> now, day |-> Today]]
  BY <1>1, CountedWrites
<1>4. Types'
  BY <1>1, <1>2, <1>3 DEF Types, Hand
<1>5. Remembered'
  <2> SUFFICES ASSUME NEW u \in Turns, past'.times[u] # 0
               PROVE  /\ past'.last[u] \in Nat
                      /\ \/ u \in past'.cleared
                         \/ file'.turns[u].at = past'.last[u]
                         \/ now' - past'.last[u] > Retention
    BY DEF Remembered
  <2>1. file.turns \in [Turns -> [at : Int, day : Days]]
    BY DEF Books
  <2>2. CASE u = t
    BY <1>2, <1>3, <2>1, <2>2
  <2>3. CASE u # t
    BY <1>1, <1>2, <1>3, <2>1, <2>3 DEF Remembered
  <2> QED
    BY <2>2, <2>3
<1>6. Behind'
  <2> SUFFICES ASSUME NEW d \in Days, NEW m \in Models
               PROVE  /\ drift'[d][m] <= past'.counted[d][m]
                      /\ InHand(d, m)' => drift'[d][m] < past'.counted[d][m]
    BY DEF Behind
  <2>1. drift[d][m] \in Nat /\ past.counted[d][m] \in Nat /\ drift[d][m] <= past.counted[d][m]
    BY DEF Behind, Past
  <2>2. InHand(d, m)' => (d = Today /\ m = ModelOf[t])
    BY <1>1 DEF InHand
  <2> QED
    BY <1>1, <1>2, <2>1, <2>2
<1>7. Moving'
  BY <1>1, <1>3 DEF Moving
<1>8. ClaimsAreCounted'
  BY <1>1, ClaimsCount
<1> QED
  BY <1>4, <1>5, <1>6, <1>7, <1>8 DEF Inv

\* Ids older than the retention are forgotten, in either process.
LEMMA ForgetKeeps ==
  ASSUME Inv, file' = Without(Expired), UNCHANGED <<now, past>>
  PROVE  /\ file' \in Books /\ file'.old = file.old /\ file'.columns = file.columns
         /\ Remembered' /\ ClaimsAreCounted'
<1> USE Facts
<1>1. /\ file' \in Books /\ file'.old = file.old /\ file'.columns = file.columns
      /\ file'.bucket = file.bucket
      /\ file'.turns = [t \in Turns |-> IF t \in Expired THEN Forgotten ELSE file.turns[t]]
  BY WithoutWrites
<1>2. Remembered'
  <2> SUFFICES ASSUME NEW u \in Turns, past.times[u] # 0
               PROVE  /\ past.last[u] \in Nat
                      /\ \/ u \in past.cleared
                         \/ file'.turns[u].at = past.last[u]
                         \/ now - past.last[u] > Retention
    BY DEF Remembered
  <2>1. /\ past.last[u] \in Nat
        /\ \/ u \in past.cleared
           \/ file.turns[u].at = past.last[u]
           \/ now - past.last[u] > Retention
    BY DEF Remembered
  <2>2. CASE u \notin Expired
    BY <1>1, <2>1, <2>2
  <2>3. CASE u \in Expired /\ file.turns[u].at = past.last[u]
    <3>1. past.last[u] < now - Retention
      BY <2>3 DEF Expired
    <3> QED
      BY <2>1, <3>1, SpendAssumption
  <2> QED
    BY <2>1, <2>2, <2>3
<1>3. \A d \in Days, m \in Models : file.bucket[d][m] <= file'.bucket[d][m]
  BY <1>1 DEF Books
<1>4. ClaimsAreCounted'
  BY <1>1, <1>3, ClaimsDwindle
<1> QED
  BY <1>1, <1>2, <1>4

LEMMA PruneKeeps == ASSUME Inv, Prune PROVE Inv'
<1> USE Facts
<1>1. /\ UNCHANGED <<now, drift, past>> /\ hand.step = "recorded"
      /\ hand' = [hand EXCEPT !.step = "pruned"]
  BY DEF Prune
<1>2. hand' \in Hand /\ hand'.fresh = hand.fresh /\ hand'.day = hand.day /\ hand'.turn = hand.turn
  BY <1>1 DEF Hand
<1>3. Behind'
  <2>1. \A d, m : InHand(d, m)' => InHand(d, m)
    BY <1>1, <1>2 DEF InHand
  <2> QED
    BY <1>1, <2>1 DEF Behind
<1>4. CASE proc["proxy"].pruned = hand.day
  <2>1. file' = file /\ proc' = proc
    BY <1>4 DEF Prune
  <2>2. Types' /\ Remembered' /\ Moving'
    BY <1>1, <1>2, <2>1 DEF Types, Remembered, Moving
  <2>3. ClaimsAreCounted'
    BY <2>1 DEF ClaimsAreCounted, Dated
  <2> QED
    BY <1>3, <2>2, <2>3 DEF Inv
<1>5. CASE proc["proxy"].pruned # hand.day
  <2>1. proc' = [proc EXCEPT !["proxy"].pruned = hand.day] /\ file' = Without(Expired)
    BY <1>5 DEF Prune
  <2>2. hand.day \in Days /\ "proxy" \in Procs
    BY DEF Hand, Procs
  <2>3. /\ proc' \in [Procs -> Proc]
        /\ \A q \in Procs : proc'[q].pc = proc[q].pc /\ proc'[q].carries = proc[q].carries
    BY <2>1, <2>2, ProcPruned
  <2>4. /\ file' \in Books /\ file'.old = file.old /\ file'.columns = file.columns
        /\ Remembered' /\ ClaimsAreCounted'
    BY <1>1, <2>1, ForgetKeeps
  <2>5. Types'
    BY <1>1, <1>2, <2>3, <2>4 DEF Types
  <2>6. Moving'
    BY <2>3, <2>4 DEF Moving
  <2> QED
    BY <1>3, <2>4, <2>5, <2>6 DEF Inv
<1> QED
  BY <1>4, <1>5

LEMMA PruneCommandKeeps == ASSUME Inv, PruneCommand PROVE Inv'
<1> USE Facts
<1>1. file' = Without(Expired) /\ UNCHANGED <<now, proc, hand, drift, past>>
  BY DEF PruneCommand
<1>2. /\ file' \in Books /\ file'.old = file.old /\ file'.columns = file.columns
      /\ Remembered' /\ ClaimsAreCounted'
  BY <1>1, ForgetKeeps
<1>3. Types'
  BY <1>1, <1>2 DEF Types
<1>4. Behind' /\ Moving'
  BY <1>1, <1>2 DEF Behind, InHand, Moving
<1> QED
  BY <1>2, <1>3, <1>4 DEF Inv

\* What is compared was counted, and is out of the hand.
LEMMA ObserveKeeps == ASSUME Inv, Observe PROVE Inv'
<1> USE Facts
<1>1. UNCHANGED <<now, file, proc, past>> /\ hand.step = "pruned" /\ hand' = Nothing
  BY DEF Observe
<1>2. hand' \in Hand /\ hand'.step = "none"
  <2>1. (CHOOSE t \in Turns : TRUE) \in Turns
    BY SpendAssumption
  <2> QED
    BY <1>1, <2>1 DEF Nothing, Hand
<1>3. CASE drift' = drift
  <2>1. Types' /\ Remembered' /\ Moving'
    BY <1>1, <1>2, <1>3 DEF Types, Remembered, Moving
  <2>2. Behind'
    BY <1>1, <1>2, <1>3 DEF Behind, InHand
  <2>3. ClaimsAreCounted'
    BY <1>1 DEF ClaimsAreCounted, Dated
  <2> QED
    BY <2>1, <2>2, <2>3 DEF Inv
<1>4. CASE Observed /\ drift' = [drift EXCEPT ![hand.day][ModelOf[hand.turn]] = @ + 1]
  <2>1. hand.day \in Days /\ ModelOf[hand.turn] \in Models /\ hand.fresh
    BY <1>4, SpendAssumption DEF Hand, Observed
  <2>2. drift' \in [Days -> [Models -> Nat]]
    BY <1>4, <2>1
  <2>3. Types' /\ Remembered' /\ Moving'
    BY <1>1, <1>2, <2>2 DEF Types, Remembered, Moving
  <2>4. Behind'
    <3> SUFFICES ASSUME NEW d \in Days, NEW m \in Models
                 PROVE  drift'[d][m] <= past.counted[d][m]
      BY <1>1, <1>2 DEF Behind, InHand
    <3>1. drift[d][m] \in Nat /\ past.counted[d][m] \in Nat /\ drift[d][m] <= past.counted[d][m]
      BY DEF Behind, Past
    <3>2. CASE d = hand.day /\ m = ModelOf[hand.turn]
      <4>1. drift[d][m] < past.counted[d][m]
        BY <1>1, <2>1, <3>2 DEF Behind, InHand
      <4>2. drift'[d][m] = drift[d][m] + 1
        BY <1>4, <3>2
      <4> QED
        BY <3>1, <4>1, <4>2
    <3>3. CASE ~(d = hand.day /\ m = ModelOf[hand.turn])
      <4>1. drift'[d][m] = drift[d][m]
        BY <1>4, <2>1, <3>3
      <4> QED
        BY <3>1, <4>1
    <3> QED
      BY <3>2, <3>3
  <2>5. ClaimsAreCounted'
    BY <1>1 DEF ClaimsAreCounted, Dated
  <2> QED
    BY <2>3, <2>4, <2>5 DEF Inv
<1> QED
  BY <1>3, <1>4 DEF Observe

\* A reset clears the day's claims with its tokens.
LEMMA ResetKeeps == ASSUME Inv, Reset PROVE Inv'
<1> USE Facts
<1>1. /\ UNCHANGED <<now, proc, hand, drift>> /\ file' = Cleared(Today)
      /\ past' = [past EXCEPT !.cleared = @ \cup Dated(Today), !.resets = @ + 1]
  BY DEF Reset
<1>2. /\ file' \in Books /\ file'.old = file.old /\ file'.columns = file.columns
      /\ file'.turns = [t \in Turns |-> IF t \in Dated(Today) THEN Forgotten ELSE file.turns[t]]
  BY <1>1, ClearedWrites
<1>3. /\ past' \in Past /\ past'.cleared = past.cleared \cup Dated(Today)
      /\ past'.times = past.times /\ past'.last = past.last /\ past'.counted = past.counted
  <2>1. Dated(Today) \subseteq Turns /\ past.cleared \in SUBSET Turns /\ past.resets + 1 \in Nat
    BY DEF Dated, Past
  <2>2. past.cleared \cup Dated(Today) \in SUBSET Turns
    BY <2>1
  <2> QED
    BY <1>1, <2>1, <2>2 DEF Past
<1>4. Types'
  BY <1>1, <1>2, <1>3 DEF Types
<1>5. Remembered'
  BY <1>1, <1>2, <1>3 DEF Remembered
<1>6. Behind' /\ Moving'
  BY <1>1, <1>2, <1>3 DEF Behind, InHand, Moving
<1>7. ClaimsAreCounted'
  BY <1>1, ClaimsClear
<1> QED
  BY <1>4, <1>5, <1>6, <1>7 DEF Inv

LEMMA TickKeeps == ASSUME Inv, Tick PROVE Inv'
<1> USE Facts
<1>1. now < MaxTime /\ now' = now + 1 /\ UNCHANGED <<file, proc, hand, drift, past>>
  BY DEF Tick
<1>2. Types'
  BY <1>1, SpendAssumption DEF Types
<1>3. Remembered'
  <2> SUFFICES ASSUME NEW u \in Turns, past.times[u] # 0
               PROVE  /\ past.last[u] \in Nat
                      /\ \/ u \in past.cleared
                         \/ file.turns[u].at = past.last[u]
                         \/ now' - past.last[u] > Retention
    BY <1>1 DEF Remembered
  <2>1. /\ past.last[u] \in Nat
        /\ \/ u \in past.cleared
           \/ file.turns[u].at = past.last[u]
           \/ now - past.last[u] > Retention
    BY DEF Remembered
  <2> QED
    BY <1>1, <2>1, SpendAssumption
<1>4. Behind' /\ Moving'
  BY <1>1 DEF Behind, InHand, Moving
<1>5. ClaimsAreCounted'
  BY <1>1 DEF ClaimsAreCounted, Dated
<1> QED
  BY <1>2, <1>3, <1>4, <1>5 DEF Inv

LEMMA StutterKeeps == ASSUME Inv, UNCHANGED vars PROVE Inv'
<1> USE Facts
<1>1. UNCHANGED <<now, file, proc, hand, drift, past>>
  BY DEF vars
<1>2. Types' /\ Remembered'
  BY <1>1 DEF Types, Remembered
<1>3. Behind' /\ Moving'
  BY <1>1 DEF Behind, InHand, Moving
<1>4. ClaimsAreCounted'
  BY <1>1 DEF ClaimsAreCounted, Dated
<1> QED
  BY <1>2, <1>3, <1>4 DEF Inv

LEMMA InitInv == Init => Inv
<1> SUFFICES ASSUME Init PROVE Inv
  OBVIOUS
<1> USE SpendAssumption
<1>1. /\ now = 0 /\ file \in Starts /\ proc = [p \in Procs |-> Down] /\ hand = Nothing /\ drift = Zero
      /\ past = [times |-> [t \in Turns |-> 0], last |-> [t \in Turns |-> Never],
                 cleared |-> {}, counted |-> Zero, resets |-> 0]
  BY DEF Init
<1>2. now \in 0..MaxTime
  BY <1>1
<1>3. 0 \in Days
  BY <1>2, TodayIsADay
<1>4. /\ file \in File
      /\ ~file.old => \A d \in Days : file.columns[d] = 0
  BY <1>1, StartsAssumption
<1>5. \A d \in Days, m \in Models :
        Cardinality({t \in Turns : file.turns[t].at # Never /\ file.turns[t].day = d /\ ModelOf[t] = m})
          <= file.bucket[d][m]
  BY <1>1, StartsAssumption
<1>6. file \in Books
  <2>1. /\ file.stamp \in 0..2 /\ file.old \in BOOLEAN /\ file.columns \in [Days -> 0..MaxSpend]
        /\ file.bucket \in [Days -> [Models -> 0..(2 * MaxSpend)]] /\ file.calls \in [Days -> 0..MaxCalls]
        /\ file.turns \in [Turns -> [at : Never..MaxTime, day : Days]]
    BY <1>4 DEF File
  <2>2. file.columns \in [Days -> Nat] /\ file.calls \in [Days -> Nat]
    BY <2>1
  <2>3. file.bucket \in [Days -> [Models -> Nat]]
    BY <2>1
  <2>4. file.turns \in [Turns -> [at : Int, day : Days]]
    BY <2>1 DEF Never
  <2>5. file = [stamp |-> file.stamp, old |-> file.old, columns |-> file.columns,
                bucket |-> file.bucket, calls |-> file.calls, turns |-> file.turns]
    BY <1>4 DEF File
  <2> QED
    BY <2>1, <2>2, <2>3, <2>4, <2>5 DEF Books
<1>7. hand \in Hand /\ hand.step = "none"
  <2>1. (CHOOSE t \in Turns : TRUE) \in Turns
    OBVIOUS
  <2> QED
    BY <1>1, <1>3, <2>1 DEF Nothing, Hand
<1>8. proc \in [Procs -> Proc] /\ \A p \in Procs : proc[p].pc = "down"
  BY <1>1 DEF Down, Proc
<1>9. drift \in [Days -> [Models -> Nat]] /\ past \in Past
  BY <1>1 DEF Zero, Past, Never
<1>10. Types
  BY <1>2, <1>6, <1>7, <1>8, <1>9 DEF Types
<1>11. Remembered
  BY <1>1 DEF Remembered
<1>12. Behind
  BY <1>1, <1>7 DEF Behind, InHand, Zero
<1>13. Moving
  BY <1>4, <1>8 DEF Moving
<1>14. ClaimsAreCounted
  <2> SUFFICES ASSUME NEW d \in Days, NEW m \in Models
               PROVE  Cardinality({t \in Dated(d) : ModelOf[t] = m}) <= file.bucket[d][m]
    BY DEF ClaimsAreCounted
  <2>1. {t \in Dated(d) : ModelOf[t] = m} =
          {t \in Turns : file.turns[t].at # Never /\ file.turns[t].day = d /\ ModelOf[t] = m}
    BY DEF Dated
  <2> QED
    BY <1>5, <2>1
<1> QED
  BY <1>10, <1>11, <1>12, <1>13, <1>14 DEF Inv

-----------------------------------------------------------------------------
(***************************************************************************)
(* The theorems                                                            *)
(***************************************************************************)
LEMMA NextInv == Inv /\ [Next]_vars => Inv'
<1> SUFFICES ASSUME Inv, [Next]_vars PROVE Inv'
  OBVIOUS
<1>1. CASE \E p \in Procs : Open(p) \/ ReadColumns(p) \/ Rebuild(p) \/ Stop(p)
  BY <1>1, OpenKeeps, ReadColumnsKeeps, RebuildKeeps, StopKeeps
<1>2. CASE AddToolCall \/ Prune \/ Observe
  BY <1>2, AddToolCallKeeps, PruneKeeps, ObserveKeeps
<1>3. CASE \E t \in Turns : Record(t)
  BY <1>3, DuplicateKeeps, FreshKeeps
<1>4. CASE Reset \/ PruneCommand \/ Tick
  BY <1>4, ResetKeeps, PruneCommandKeeps, TickKeeps
<1> QED
  BY <1>1, <1>2, <1>3, <1>4, StutterKeeps DEF Next

\* Every run of the meter, the route and the operator keeps the invariant.
THEOREM SpendInvariant == Spec => []Inv
BY InitInv, NextInv, PTL DEF Spec

\* A turn whose id is remembered has its tokens in its day's bucket
\* (recordTokens and clearDay, one transaction each).
THEOREM ClaimsCounted == Spec => []ClaimsAreCounted
<1>1. Inv => ClaimsAreCounted
  BY DEF Inv
<1> QED
  BY <1>1, SpendInvariant, PTL

\* The drift record never holds a turn the meter did not count (spend-route.ts:
\* a duplicate is not observed).
THEOREM DriftBounded == Spec => []DriftWithinMeter
<1>1. Inv => DriftWithinMeter
  BY DEF Inv, Behind, DriftWithinMeter
<1> QED
  BY <1>1, SpendInvariant, PTL

\* A turn is counted again only after a reset of its day or past the retention
\* (turn_report's key in budget-db.ts).
THEOREM Once == Spec => CountedOnce
<1> DEFINE Step == \A t \in Turns : past'.times[t] # past.times[t] =>
                     \/ past.times[t] = 0
                     \/ t \in past.cleared
                     \/ now - past.last[t] > Retention
<1>1. Inv /\ [Next]_vars => [Step]_vars
  <2> SUFFICES ASSUME Inv, Next PROVE Step
    OBVIOUS
  <2>1. ASSUME past'.times = past.times PROVE Step
    BY <2>1
  <2>2. ASSUME NEW t \in Turns, Record(t) PROVE Step
    <3>1. CASE Claimed(t)
      BY <2>1, <2>2, <3>1 DEF Record
    <3>2. CASE ~Claimed(t)
      <4>1. past' = [past EXCEPT !.times[t] = @ + 1, !.last[t] = now, !.cleared = @ \ {t},
                                 !.counted[Today][ModelOf[t]] = @ + 1]
        BY <2>2, <3>2 DEF Record
      <4>2. \A u \in Turns : u # t => past'.times[u] = past.times[u]
        BY <4>1, PastMoves
      <4>3. past.times[t] = 0 \/ t \in past.cleared \/ now - past.last[t] > Retention
        BY <3>2, Facts DEF Remembered, Claimed, Never
      <4> QED
        BY <4>2, <4>3
    <3> QED
      BY <3>1, <3>2
  <2>3. ASSUME Reset PROVE past'.times = past.times
    BY <2>3, Facts DEF Reset, Past
  <2>4. CASE \E p \in Procs : Open(p) \/ ReadColumns(p) \/ Rebuild(p) \/ Stop(p)
    BY <2>1, <2>4 DEF Open, ReadColumns, Rebuild, Stop
  <2>5. CASE AddToolCall \/ Prune \/ Observe \/ PruneCommand \/ Tick
    BY <2>1, <2>5 DEF AddToolCall, Prune, Observe, PruneCommand, Tick
  <2> QED
    BY <2>1, <2>2, <2>3, <2>4, <2>5 DEF Next
<1> QED
  BY <1>1, SpendInvariant, PTL DEF Spec, CountedOnce

\* Opening, migrating, dying and pruning change no figure the operator sees
\* (rebuildBudgetTables, pruneTurnReports).
THEOREM Figured == Spec => FiguresStand
<1> DEFINE Step == proc' # proc => Figures' = Figures
<1>1. Inv /\ [Next]_vars => [Step]_vars
  <2> SUFFICES ASSUME Inv, Next PROVE Step
    OBVIOUS
  <2> USE Facts
  <2>1. ASSUME /\ file'.calls = file.calls /\ file'.bucket = file.bucket
               /\ file'.columns = file.columns
        PROVE  Step
    BY <2>1 DEF Figures
  <2>2. ASSUME file' = file PROVE Step
    BY <2>1, <2>2
  <2>3. ASSUME Prune PROVE Step
    <3>1. CASE file' = Without(Expired)
      BY <2>1, <3>1, WithoutWrites
    <3> QED
      BY <2>2, <2>3, <3>1 DEF Prune
  <2>4. ASSUME NEW p \in Procs, Rebuild(p) PROVE Step
    <3>1. CASE proc[p].carries /\ ~file.old
      BY <2>2, <2>4, <3>1 DEF Rebuild
    <3>2. CASE ~(proc[p].carries /\ ~file.old)
      <4>1. /\ file' = Rebuilt(proc[p].carries) /\ proc[p].carries \in BOOLEAN
            /\ proc[p].pc = "columned"
        BY <2>4, <3>2 DEF Rebuild, Is, Proc
      <4>2. /\ file'.columns = [d \in Days |-> 0] /\ file'.calls = file.calls
            /\ \A d \in Days : file'.bucket[d] =
                 [file.bucket[d] EXCEPT ![Legacy] = @ + IF proc[p].carries THEN file.columns[d] ELSE 0]
        BY <4>1, RebuiltWrites
      <4>3. ~proc[p].carries => \A d \in Days : file.columns[d] = 0
        BY <4>1 DEF Moving
      <4>4. \A d \in Days :
              [file'.bucket[d] EXCEPT ![Legacy] = @ + file'.columns[d]] =
              [file.bucket[d] EXCEPT ![Legacy] = @ + file.columns[d]]
        <5> TAKE d \in Days
        <5>1. file.bucket[d] \in [Models -> Nat] /\ file.columns[d] \in Nat /\ file'.columns[d] = 0
          BY <4>2 DEF Books
        <5>2. file'.bucket[d] = [file.bucket[d] EXCEPT ![Legacy] = @ + file.columns[d]]
          <6>1. (IF proc[p].carries THEN file.columns[d] ELSE 0) = file.columns[d]
            BY <4>3
          <6> QED
            BY <4>2, <6>1
        <5> DEFINE b == file'.bucket[d]
        <5>3. b \in [Models -> Nat] /\ b[Legacy] + 0 = b[Legacy]
          <6>1. b \in [Models -> Nat]
            BY <5>1, <5>2, SpendAssumption
          <6> QED
            BY <6>1, SpendAssumption
        <5> HIDE DEF b
        <5>4. [b EXCEPT ![Legacy] = @ + 0] = b
          BY <5>3
        <5> QED
          BY <5>1, <5>2, <5>4
      <4> QED
        BY <4>2, <4>4 DEF Figures
    <3> QED
      BY <3>1, <3>2
  <2>5. CASE \E p \in Procs : Open(p) \/ ReadColumns(p) \/ Stop(p)
    BY <2>2, <2>5 DEF Open, ReadColumns, Stop
  <2>6. CASE AddToolCall \/ Observe \/ Reset \/ PruneCommand \/ Tick \/ \E t \in Turns : Record(t)
    BY <2>6 DEF AddToolCall, Observe, Reset, PruneCommand, Tick, Record
  <2> QED
    BY <2>3, <2>4, <2>5, <2>6 DEF Next
<1> QED
  BY <1>1, SpendInvariant, PTL DEF Spec, FiguresStand
=============================================================================
