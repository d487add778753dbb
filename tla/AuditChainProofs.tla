-------------------------- MODULE AuditChainProofs --------------------------
(***************************************************************************)
(* For any number of proxies, any log and any changes from outside: the    *)
(* types of AuditChain, that an untouched log verifies, that its rows      *)
(* stand, and that no break is ever mended.                                *)
(***************************************************************************)
EXTENDS AuditChain, SequenceTheorems, TLAPS

\* Before the last migration no row has a value of the last columns, and a
\* file that is not there has no rows.
Narrow ==
  /\ shape = "none" => log = <<>>
  /\ shape # "current" => \A i \in DOMAIN log : log[i].columns.extra = Null
  /\ stamp = "current" => shape = "current"

\* How far a proxy has come says what it has seen of the table.
Seen ==
  \A p \in Proxies :
    /\ pc[p] # "closed" => shape # "none"
    /\ pc[p] \in {"migrated", "serving"} => shape = "current"
    /\ pc[p] = "rebuilding" /\ saw[p] = "current" => shape = "current"

\* The tip of a serving proxy is a hash of the log: of its last row, or of
\* one that has a successor by now.
TipOnRecord ==
  \A p \in Proxies : pc[p] = "serving" =>
    tip[p] = Genesis \/ \E i \in DOMAIN log : tip[p] = log[i].hash

Chain == ~touched /\ ~outdated => (HasHashes(shape) => Verifies(log)) /\ TipOnRecord

Inv == TypeOK /\ Narrow /\ Seen /\ Chain

-----------------------------------------------------------------------------
(***************************************************************************)
(* Rows: appending one, and rebuilding them all                            *)
(***************************************************************************)
\* A row chained to a hash of the log that no row is chained to yet is
\* chained to the last one, so the longer log verifies.
LEMMA Extends ==
  ASSUME NEW rows \in Seq(Row), NEW h \in Hashes, NEW c \in Columns, Verifies(rows),
         h = Genesis \/ \E i \in DOMAIN rows : h = rows[i].hash,
         \A i \in DOMAIN rows : rows[i].prev # h
  PROVE  Verifies(Append(rows, [columns |-> c, prev |-> h, hash |-> Hash(h, c)]))
<1> DEFINE r == [columns |-> c, prev |-> h, hash |-> Hash(h, c)]
           new == Append(rows, r)
<1>1. r \in Row
  BY DEF Row, Hashes, Hash
<1>2. /\ Len(new) = Len(rows) + 1 /\ Len(rows) \in Nat
      /\ DOMAIN new = 1..Len(rows) + 1 /\ DOMAIN rows = 1..Len(rows)
      /\ \A i \in DOMAIN rows : new[i] = rows[i]
      /\ new[Len(rows) + 1] = r
  BY <1>1
<1>3. h = Before(rows, Len(rows) + 1)
  <2>1. CASE h = Genesis
    <3>1. 1 \in DOMAIN rows => rows[1].prev = Genesis
      BY DEF Verifies, Before
    <3>2. Len(rows) = 0
      BY <3>1, <2>1, <1>2
    <3> QED BY <3>2, <2>1 DEF Before
  <2>2. CASE \E i \in DOMAIN rows : h = rows[i].hash
    <3>1. PICK i \in DOMAIN rows : h = rows[i].hash
      BY <2>2
    <3>2. i + 1 \in DOMAIN rows => rows[i + 1].prev = rows[i].hash
      BY <1>2 DEF Verifies, Before
    <3>3. i = Len(rows)
      BY <3>1, <3>2, <1>2
    <3> QED BY <3>1, <3>3, <1>2 DEF Before
  <2> QED BY <2>1, <2>2
<1>4. SUFFICES ASSUME NEW i \in DOMAIN new
      PROVE new[i].prev = Before(new, i) /\ new[i].hash = Hash(new[i].prev, new[i].columns)
  BY DEF Verifies
<1>5. Before(new, i) = Before(rows, i)
  BY <1>2, <1>4 DEF Before
<1>6. CASE i \in DOMAIN rows
  BY <1>5, <1>6, <1>2 DEF Verifies
<1>7. CASE i = Len(rows) + 1
  BY <1>3, <1>5, <1>7, <1>2
<1> QED BY <1>6, <1>7, <1>2

\* A longer log does not verify if the shorter did not.
LEMMA BreakInside ==
  ASSUME NEW rows \in Seq(Row), NEW r \in Row, Verifies(Append(rows, r))
  PROVE  Verifies(rows)
<1> DEFINE new == Append(rows, r)
<1>1. /\ DOMAIN new = 1..Len(rows) + 1 /\ DOMAIN rows = 1..Len(rows) /\ Len(rows) \in Nat
      /\ \A i \in DOMAIN rows : new[i] = rows[i]
  OBVIOUS
<1>2. \A i \in DOMAIN rows : Before(new, i) = Before(rows, i)
  BY <1>1 DEF Before
<1> QED BY <1>1, <1>2 DEF Verifies

\* A rebuild that goes by the columns that are there changes no row of a file
\* that has hashes.
LEMMA RebuiltKeeps ==
  ASSUME NEW rows \in Seq(Row), NEW s \in Shapes, HasHashes(s),
         s # "current" => \A i \in DOMAIN rows : rows[i].columns.extra = Null
  PROVE  Rebuilt(rows, s) = rows
<1>0. \A i \in DOMAIN rows : rows[i] \in Row
  OBVIOUS
<1>1. \A i \in DOMAIN rows : rows[i].columns \in Columns /\ rows[i] \in Row
  BY <1>0 DEF Row
<1>2. \A i \in DOMAIN rows : Copied(rows[i].columns, s) = rows[i].columns
  BY <1>1 DEF Copied, Columns
<1>3. \A i \in DOMAIN rows : [rows[i] EXCEPT !.columns = Copied(rows[i].columns, s)] = rows[i]
  BY <1>1, <1>2 DEF Row
<1>4. rows = [i \in DOMAIN rows |-> rows[i]]
  OBVIOUS
<1> QED BY <1>3, <1>4 DEF Rebuilt

\* A rebuild of a file without hashes chains every row it copies.
LEMMA RebuiltVerifies ==
  ASSUME NEW rows \in Seq(Row), NEW s \in Shapes, ~HasHashes(s)
  PROVE  Verifies(Rebuilt(rows, s))
<1> DEFINE columns == [i \in DOMAIN rows |-> Copied(rows[i].columns, s)]
           upTo(n) == [j \in 1..n |-> columns[j]]
           new == Rebuilt(rows, s)
<1>0. /\ DOMAIN rows = 1..Len(rows) /\ Len(rows) \in Nat
      /\ \A i \in DOMAIN rows : rows[i] \in Row
  OBVIOUS
<1>1. /\ DOMAIN rows = 1..Len(rows) /\ Len(rows) \in Nat
      /\ \A i \in DOMAIN rows : rows[i].columns \in Columns
  BY <1>0 DEF Row
<1>2. \A i \in DOMAIN rows : columns[i] \in Columns
  BY <1>1 DEF Copied, Columns
<1>3. /\ DOMAIN new = DOMAIN rows
      /\ \A i \in DOMAIN rows :
           new[i] = [columns |-> columns[i], prev |-> upTo(i - 1), hash |-> upTo(i)]
  BY DEF Rebuilt
<1>4. ASSUME NEW i \in DOMAIN rows PROVE upTo(i) = Append(upTo(i - 1), columns[i])
  <2> HIDE DEF columns
  <2>0. ASSUME NEW n \in Nat, n <= Len(rows)
        PROVE  /\ upTo(n) \in Seq(Columns) /\ Len(upTo(n)) = n
               /\ \A j \in 1..n : upTo(n)[j] = columns[j]
    <3>1. \A j \in 1..n : columns[j] \in Columns
      BY <1>1, <1>2, <2>0
    <3> QED
      BY <2>0, <3>1
  <2>i. i \in Nat /\ i - 1 \in Nat /\ i <= Len(rows) /\ i - 1 <= Len(rows) /\ (i - 1) + 1 = i
    BY <1>1
  <2> HIDE DEF upTo
  <2>1. /\ upTo(i - 1) \in Seq(Columns) /\ Len(upTo(i - 1)) = i - 1
        /\ \A j \in 1..(i - 1) : upTo(i - 1)[j] = columns[j]
    BY <2>0, <2>i
  <2>2. /\ upTo(i) \in Seq(Columns) /\ Len(upTo(i)) = i
        /\ \A j \in 1..i : upTo(i)[j] = columns[j]
    BY <2>0, <2>i
  <2>a. columns[i] \in Columns
    BY <1>2
  <2> DEFINE longer == Append(upTo(i - 1), columns[i])
  <2>b. /\ longer \in Seq(Columns) /\ Len(longer) = (i - 1) + 1
        /\ \A j \in 1..(i - 1) : longer[j] = upTo(i - 1)[j]
        /\ longer[(i - 1) + 1] = columns[i]
    BY <2>1, <2>a, AppendProperties
  <2> HIDE DEF longer
  <2>3. longer \in Seq(Columns) /\ Len(longer) = i
    BY <2>b, <2>i
  <2>4. ASSUME NEW j \in 1..i PROVE longer[j] = upTo(i)[j]
    <3>1. j = i \/ j \in 1..(i - 1)
      BY <2>i
    <3>2. CASE j = i
      BY <3>2, <2>2, <2>b, <2>i
    <3>3. CASE j \in 1..(i - 1)
      BY <3>3, <2>1, <2>2, <2>b
    <3> QED BY <3>1, <3>2, <3>3
  <2> USE DEF longer
  <2> QED BY <2>2, <2>3, <2>4, SeqEqual
<1>5. upTo(0) = Genesis
  BY DEF Genesis
<1>6. ASSUME NEW i \in DOMAIN rows PROVE Before(new, i) = upTo(i - 1)
  <2> HIDE DEF upTo, columns
  <2>1. CASE i = 1
    BY <2>1, <1>5 DEF Before
  <2>2. CASE i # 1
    <3>1. i - 1 \in DOMAIN rows
      BY <1>1, <2>2
    <3> QED BY <3>1, <2>2, <1>3 DEF Before
  <2> QED BY <2>1, <2>2
<1> HIDE DEF upTo, columns, new
<1>7. Verifies(new)
  BY <1>3, <1>4, <1>6 DEF Verifies, Hash
<1> QED BY <1>7 DEF new

\* A rebuilt table is a sequence of rows.
LEMMA RebuiltTyped ==
  ASSUME NEW rows \in Seq(Row), NEW s \in Shapes
  PROVE  Rebuilt(rows, s) \in Seq(Row)
<1> DEFINE columns == [i \in DOMAIN rows |-> Copied(rows[i].columns, s)]
           upTo(n) == [j \in 1..n |-> columns[j]]
<1>1. /\ DOMAIN rows = 1..Len(rows) /\ Len(rows) \in Nat
      /\ \A i \in DOMAIN rows : rows[i] \in Row
  OBVIOUS
<1>2. \A i \in DOMAIN rows : columns[i] \in Columns
  BY <1>1 DEF Copied, Columns, Row
<1>3. ASSUME NEW i \in DOMAIN rows PROVE upTo(i - 1) \in Hashes /\ upTo(i) \in Hashes
  <2> HIDE DEF columns
  <2> QED BY <1>1, <1>2 DEF Hashes
<1>4. ASSUME NEW i \in DOMAIN rows
      PROVE  /\ [columns |-> columns[i], prev |-> upTo(i - 1), hash |-> upTo(i)] \in Row
             /\ [rows[i] EXCEPT !.columns = columns[i]] \in Row
  <2> HIDE DEF upTo, columns
  <2> QED BY <1>1, <1>2, <1>3 DEF Row
<1>5. \A i \in DOMAIN rows : Rebuilt(rows, s)[i] \in Row
  BY <1>4 DEF Rebuilt
<1>6. Rebuilt(rows, s) \in [1..Len(rows) -> Row]
  BY <1>1, <1>5 DEF Rebuilt
<1> QED BY <1>1, <1>6

-----------------------------------------------------------------------------
(***************************************************************************)
(* The invariant                                                           *)
(***************************************************************************)
LEMMA AuditInit == Init => Inv
<1> SUFFICES ASSUME Init PROVE Inv
  OBVIOUS
<1> USE ChainAssumption
<1>1. PICK f \in Starts : shape = f.shape /\ stamp = f.stamp /\ log = f.log
  BY DEF Init
<1>2. /\ shape \in Shapes /\ stamp \in Stamps /\ log \in Seq(Row)
      /\ shape = "none" => log = <<>>
      /\ shape # "current" => \A i \in DOMAIN log : log[i].columns.extra = Null
      /\ HasHashes(shape) => Verifies(log)
      /\ stamp = "current" => shape = "current"
  BY <1>1
<1>3. Genesis \in Hashes
  BY DEF Genesis, Hashes
<1>4. MaxMeddling \in Nat
  OBVIOUS
<1> HIDE ChainAssumption
<1>5. TypeOK
  <2>1. pc \in [Proxies -> {"closed", "opened", "unmigrated", "rebuilding", "migrated", "serving"}]
    BY DEF Init
  <2>2. saw \in [Proxies -> Shapes]
    BY DEF Init, Shapes
  <2>3. tip \in [Proxies -> Hashes]
    BY <1>3 DEF Init
  <2>4. meddled \in 0..MaxMeddling
    BY <1>4 DEF Init
  <2> QED BY <1>2, <2>1, <2>2, <2>3, <2>4 DEF Init, TypeOK
<1>6. Narrow /\ Seen /\ Chain
  BY <1>2 DEF Init, Narrow, Seen, Chain, TipOnRecord
<1> QED BY <1>5, <1>6 DEF Inv

\* What a step on the file does, as a condition on the next state; the other
\* steps leave the file alone.
LEMMA AuditNext == Inv /\ [Next]_vars => Inv'
<1> SUFFICES ASSUME Inv, [Next]_vars PROVE Inv'
  OBVIOUS
<1> USE DEF Inv
<1>1. ASSUME NEW p \in Proxies, OpenFile(p) PROVE Inv'
  BY <1>1 DEF OpenFile, Goes, TypeOK, Narrow, Seen, Chain, TipOnRecord, marks, Shapes,
              HasHashes, Verifies
<1>2. ASSUME NEW p \in Proxies, ReadStamp(p) PROVE Inv'
  BY <1>2 DEF ReadStamp, Goes, TypeOK, Narrow, Seen, Chain, TipOnRecord, marks, file,
              HasHashes, Verifies, Before
<1>3. ASSUME NEW p \in Proxies, ReadColumns(p) PROVE Inv'
  BY <1>3 DEF ReadColumns, Goes, TypeOK, Narrow, Seen, Chain, TipOnRecord, marks, file,
              HasHashes, Verifies, Before
<1>4. ASSUME NEW p \in Proxies, Rebuild(p) PROVE Inv'
  <2>1. log \in Seq(Row) /\ saw[p] \in Shapes /\ Rebuilt(log, saw[p]) \in Seq(Row)
    BY RebuiltTyped DEF TypeOK
  <2>2. TypeOK' /\ Narrow' /\ Seen'
    BY <1>4, <2>1 DEF Rebuild, Goes, TypeOK, Narrow, Seen, Shapes, Stamps
  <2>3. Chain'
    <3>1. SUFFICES ASSUME ~touched', ~outdated' PROVE Verifies(log') /\ TipOnRecord'
      BY DEF Chain
    <3>2. ~touched /\ ~outdated /\ saw[p] = shape /\ log' = Rebuilt(log, saw[p])
      BY <1>4, <3>1 DEF Rebuild
    <3>3. CASE HasHashes(shape)
      <4>1. log' = log
        BY <3>2, <3>3, <2>1, RebuiltKeeps DEF Narrow
      <4>2. TipOnRecord'
        BY <1>4, <3>2, <4>1 DEF Rebuild, Goes, Chain, TipOnRecord, TypeOK
      <4> QED BY <4>1, <4>2, <3>2, <3>3 DEF Chain
    <3>4. CASE ~HasHashes(shape)
      <4>1. Verifies(log')
        BY <3>2, <3>4, <2>1, RebuiltVerifies
      <4>2. TipOnRecord'
        BY <1>4, <3>4 DEF Rebuild, Goes, Seen, TipOnRecord, TypeOK, HasHashes
      <4> QED BY <4>1, <4>2
    <3> QED BY <3>3, <3>4
  <2> QED BY <2>2, <2>3
<1>5. ASSUME NEW p \in Proxies, ReadTip(p) PROVE Inv'
  <2>1. log # <<>> => Len(log) \in DOMAIN log /\ log[Len(log)] \in Row
    BY DEF TypeOK
  <2>2. tip'[p] \in Hashes /\ tip' \in [Proxies -> Hashes]
    BY <1>5, <2>1 DEF ReadTip, TypeOK, Row, Genesis, Hashes
  <2>3. TypeOK' /\ Narrow' /\ Seen'
    BY <1>5, <2>2 DEF ReadTip, Goes, TypeOK, Narrow, Seen, marks, file
  <2>4. ~touched /\ ~outdated /\ TipOnRecord => TipOnRecord'
    BY <1>5, <2>1 DEF ReadTip, Goes, TypeOK, TipOnRecord, marks, file
  <2> QED BY <1>5, <2>3, <2>4 DEF ReadTip, Chain, marks, file, Verifies, Before, HasHashes
<1>6. ASSUME NEW p \in Proxies, Stop(p) PROVE Inv'
  BY <1>6 DEF Stop, TypeOK, Narrow, Seen, Chain, TipOnRecord, marks, file,
              HasHashes, Verifies, Before
<1>7. ASSUME NEW p \in Proxies, NEW c \in Columns, AppendRow(p, c) PROVE Inv'
  <2> DEFINE h == Hash(tip[p], c)
             r == [columns |-> c, prev |-> tip[p], hash |-> h]
  <2>1. h \in Hashes /\ r \in Row /\ log \in Seq(Row) /\ tip[p] \in Hashes
    BY DEF TypeOK, Hash, Hashes, Row
  <2>2. PICK landed \in {Unclaimed(tip[p]), FALSE} :
          /\ log' = IF landed THEN Append(log, r) ELSE log
          /\ tip' = [tip EXCEPT ![p] = TipAfter(p, h, landed)]
    BY <1>7 DEF AppendRow
  <2>3. CASE ~landed
    <3>1. log' = log /\ tip' = tip
      BY <2>2, <2>3 DEF TipAfter, TypeOK
    <3> QED BY <1>7, <3>1 DEF AppendRow, TypeOK, Narrow, Seen, Chain, TipOnRecord, marks,
                              HasHashes, Verifies, Before
  <2>4. CASE landed
    <3>1. log' = Append(log, r) /\ tip' = [tip EXCEPT ![p] = h]
      BY <2>2, <2>4 DEF TipAfter
    <3>2. \A i \in DOMAIN log : log[i].prev # tip[p]
      BY <2>2, <2>4 DEF Unclaimed
    <3>3. /\ Len(log) + 1 \in DOMAIN log' /\ log'[Len(log) + 1] = r
          /\ \A i \in DOMAIN log : i \in DOMAIN log' /\ log'[i] = log[i]
      BY <3>1, <2>1
    <3>4. shape = "current"
      BY <1>7 DEF AppendRow, Seen
    <3>5. TypeOK' /\ Narrow' /\ Seen'
      BY <1>7, <3>1, <3>4, <2>1 DEF AppendRow, TypeOK, Narrow, Seen, marks
    <3>6. ASSUME ~touched, ~outdated PROVE Verifies(log') /\ TipOnRecord'
      <4>1. Verifies(log)
        BY <3>4, <3>6 DEF Chain, HasHashes
      <4>2. tip[p] = Genesis \/ \E i \in DOMAIN log : tip[p] = log[i].hash
        BY <1>7, <3>6 DEF AppendRow, Chain, TipOnRecord
      <4>3. Verifies(log')
        BY <4>1, <4>2, <3>1, <3>2, <2>1, Extends
      <4>4. ASSUME NEW q \in Proxies, pc'[q] = "serving"
            PROVE  tip'[q] = Genesis \/ \E i \in DOMAIN log' : tip'[q] = log'[i].hash
        <5>1. CASE q = p
          BY <5>1, <3>1, <3>3 DEF TypeOK
        <5>2. CASE q # p
          <6>1. tip'[q] = tip[q] /\ pc[q] = "serving"
            BY <5>2, <3>1, <4>4, <1>7 DEF TypeOK, AppendRow
          <6> QED BY <6>1, <3>3, <3>6 DEF Chain, TipOnRecord
        <5> QED BY <5>1, <5>2
      <4> QED BY <4>3, <4>4 DEF TipOnRecord
    <3> QED BY <1>7, <3>5, <3>6 DEF AppendRow, Chain, marks
  <2> QED BY <2>3, <2>4
<1>8. CASE Outside
  <2>1. meddled' \in 0..MaxMeddling /\ touched' \in BOOLEAN
        /\ UNCHANGED <<shape, pc, saw, tip, outdated>>
    <3>1. Meddle(TRUE) \/ Meddle(FALSE)
      BY <1>8 DEF Outside, DropStamp, EditRow, InsertRow, DeleteRow
    <3>2. meddled' \in 0..MaxMeddling
      BY <3>1, ChainAssumption DEF Meddle, TypeOK
    <3>3. touched' \in BOOLEAN
      BY <3>1 DEF Meddle, TypeOK
    <3> QED BY <3>1, <3>2, <3>3 DEF Meddle
  <2>2. CASE DropStamp
    BY <2>1, <2>2 DEF DropStamp, Meddle, TypeOK, Narrow, Seen, Chain, TipOnRecord, Stamps,
                      HasHashes, Verifies, Before
  <2>3. ASSUME NEW c \in Columns, Fits(c), NEW i \in DOMAIN log, EditRow(i, c) PROVE Inv'
    <3>0. log[i] \in Row /\ log \in Seq(Row)
      BY DEF TypeOK
    <3>1. log[i] \in Row /\ log \in Seq(Row) /\ [log[i] EXCEPT !.columns = c] \in Row
      BY <3>0 DEF Row
    <3>2. log' = [log EXCEPT ![i] = [log[i] EXCEPT !.columns = c]] /\ touched' = TRUE
      BY <2>3 DEF EditRow, Meddle
    <3>3. log' \in Seq(Row) /\ DOMAIN log' = DOMAIN log
      BY <3>1, <3>2
    <3>4. \A j \in DOMAIN log : j # i => log'[j] = log[j]
      BY <3>2
    <3>5. log'[i].columns = c
      BY <3>1, <3>2 DEF Row
    <3>6. log = <<>> => log' = <<>>
      BY <3>2
    <3> QED BY <2>1, <2>3, <3>2, <3>3, <3>4, <3>5, <3>6
            DEF EditRow, TypeOK, Narrow, Seen, Chain, Fits
  <2>4. ASSUME NEW c \in Columns, Fits(c), NEW h \in {Genesis} \cup {log[i].hash : i \in DOMAIN log},
               InsertRow(h, c) PROVE Inv'
    <3> DEFINE r == [columns |-> c, prev |-> h, hash |-> Hash(h, c)]
    <3>0. \A i \in DOMAIN log : log[i] \in Row
      BY DEF TypeOK
    <3>a. h \in Hashes
      <4>1. Genesis \in Hashes
        BY DEF Genesis, Hashes
      <4>2. \A i \in DOMAIN log : log[i].hash \in Hashes
        BY <3>0 DEF Row
      <4> QED BY <4>1, <4>2
    <3>1. h \in Hashes /\ r \in Row
      BY <3>a DEF Row, Hash, Hashes
    <3>2. log' = Append(log, r) /\ touched' = TRUE /\ shape # "none"
      BY <2>4 DEF InsertRow, Meddle, HasHashes
    <3>3. /\ log' \in Seq(Row) /\ DOMAIN log' = 1..Len(log) + 1 /\ DOMAIN log = 1..Len(log)
          /\ Len(log) \in Nat
          /\ \A i \in DOMAIN log : log'[i] = log[i]
          /\ log'[Len(log) + 1] = r
      BY <3>1, <3>2 DEF TypeOK
    <3>4. shape # "current" => \A i \in DOMAIN log' : log'[i].columns.extra = Null
      BY <3>3, <2>4 DEF Narrow, Fits
    <3> QED BY <2>1, <2>4, <3>2, <3>3, <3>4 DEF InsertRow, TypeOK, Narrow, Seen, Chain
  <2>5. ASSUME NEW i \in DOMAIN log, DeleteRow(i) PROVE Inv'
    <3>1. log \in Seq(Row) /\ DOMAIN log = 1..Len(log) /\ Len(log) \in Nat
      BY DEF TypeOK
    <3> DEFINE head == SubSeq(log, 1, i - 1)
               tail == SubSeq(log, i + 1, Len(log))
    <3>2. /\ head \in Seq(Row) /\ Len(head) = i - 1
          /\ \A j \in 1..Len(head) : head[j] = log[j]
      BY <3>1
    <3>3. /\ tail \in Seq(Row) /\ Len(tail) = Len(log) - i
          /\ \A j \in 1..Len(tail) : tail[j] = log[i + j]
      BY <3>1
    <3>4. log' = head \o tail /\ touched' = TRUE
      BY <2>5 DEF DeleteRow, Meddle
    <3> HIDE DEF head, tail
    <3>b. /\ log' \in Seq(Row) /\ Len(log') = Len(head) + Len(tail)
          /\ \A j \in 1..Len(head) + Len(tail) :
               log'[j] = IF j <= Len(head) THEN head[j] ELSE tail[j - Len(head)]
      BY <3>2, <3>3, <3>4, ConcatProperties
    <3>c. Len(head) \in Nat /\ Len(tail) \in Nat
      BY <3>1, <3>2, <3>3
    <3>5. /\ log' \in Seq(Row) /\ DOMAIN log' = 1..Len(head) + Len(tail)
          /\ \A j \in 1..Len(head) : log'[j] = head[j]
          /\ \A j \in 1..Len(tail) : log'[Len(head) + j] = tail[j]
      <4>1. DOMAIN log' = 1..Len(head) + Len(tail)
        BY <3>b
      <4>2. ASSUME NEW j \in 1..Len(head) PROVE log'[j] = head[j]
        BY <3>b, <3>c
      <4>3. ASSUME NEW j \in 1..Len(tail) PROVE log'[Len(head) + j] = tail[j]
        <5>1. /\ Len(head) + j \in 1..Len(head) + Len(tail) /\ ~(Len(head) + j <= Len(head))
              /\ (Len(head) + j) - Len(head) = j
          BY <3>c
        <5> QED BY <3>b, <5>1
      <4> QED BY <3>b, <4>1, <4>2, <4>3
    <3>d. /\ Len(log) \in Nat /\ i \in 1..Len(log) /\ DOMAIN log = 1..Len(log)
          /\ Len(head) = i - 1 /\ Len(tail) = Len(log) - i
      BY <3>1, <3>2, <3>3
    <3>e. DOMAIN log' = 1..Len(head) + Len(tail)
      BY <3>5
    <3>6. ASSUME NEW j \in DOMAIN log' PROVE \E k \in DOMAIN log : log'[j] = log[k]
      <4>1. CASE j <= Len(head)
        <5>1. j \in 1..Len(head) /\ j \in DOMAIN log
          BY <4>1, <3>d, <3>e
        <5> QED BY <5>1, <3>2, <3>5
      <4>2. CASE j > Len(head)
        <5>1. j - Len(head) \in 1..Len(tail) /\ i + (j - Len(head)) \in DOMAIN log
          BY <4>2, <3>d, <3>e
        <5>2. log'[Len(head) + (j - Len(head))] = tail[j - Len(head)]
          BY <5>1, <3>5
        <5>3. j = Len(head) + (j - Len(head))
          BY <3>c, <3>e
        <5> QED BY <5>1, <5>2, <5>3, <3>3
      <4> QED BY <4>1, <4>2, <3>c, <3>e
    <3>7. shape # "none"
      BY <3>1 DEF Narrow
    <3>8. UNCHANGED <<shape, stamp, pc, saw, tip, outdated>>
      BY <2>5 DEF DeleteRow, Meddle
    <3>9. TypeOK' /\ Seen' /\ Chain'
      BY <2>1, <3>4, <3>5, <3>8 DEF TypeOK, Seen, Chain
    <3>10. Narrow'
      BY <3>6, <3>7, <3>8 DEF Narrow
    <3> QED BY <3>9, <3>10
  <2> QED BY <1>8, <2>2, <2>3, <2>4, <2>5 DEF Outside
<1>9. CASE UNCHANGED vars
  BY <1>9 DEF vars, TypeOK, Narrow, Seen, Chain, TipOnRecord, HasHashes, Verifies, Before
<1> QED BY <1>1, <1>2, <1>3, <1>4, <1>5, <1>6, <1>7, <1>8, <1>9 DEF Next, Open

\* The invariant holds of every behaviour, outside changes included.
LEMMA AuditInvariant == Spec => []Inv
<1> QED BY AuditInit, AuditNext, PTL DEF Spec

-----------------------------------------------------------------------------
(***************************************************************************)
(* Theorems                                                                *)
(***************************************************************************)
\* openAuditDb and append keep the file well formed, whoever changes it.
THEOREM AuditTypes == Spec => []TypeOK
<1> QED BY AuditInvariant, PTL DEF Inv

\* The unique index on prev_hash is enough: with any number of proxies, an
\* untouched log is one chain.
THEOREM OneChain == Spec => []UntouchedLogVerifies
<1>1. Inv => UntouchedLogVerifies
  BY DEF Inv, Chain, UntouchedLogVerifies
<1> QED BY <1>1, AuditInvariant, PTL

\* What a step that is not from outside, and no rebuild by outdated columns,
\* does to the rows.
LEMMA AuditStep ==
  ASSUME Inv, [Next]_vars, meddled' = meddled, ~outdated'
  PROVE  \/ log' = log
         \/ ~HasHashes(shape) /\ \E s \in Shapes : s = shape /\ log' = Rebuilt(log, s)
         \/ \E p \in Proxies, c \in Columns :
              LET r == [columns |-> c, prev |-> tip[p], hash |-> Hash(tip[p], c)] IN
              /\ pc[p] = "serving" /\ Unclaimed(tip[p]) /\ r \in Row
              /\ log' = Append(log, r)
              /\ tip' = [tip EXCEPT ![p] = Hash(tip[p], c)]
<1>1. ASSUME NEW p \in Proxies, Open(p) \/ Stop(p), ~Rebuild(p) PROVE log' = log
  BY <1>1 DEF Open, OpenFile, ReadStamp, ReadColumns, ReadTip, Stop, file
<1>2. ASSUME NEW p \in Proxies, Rebuild(p)
      PROVE  \/ log' = log
             \/ ~HasHashes(shape) /\ \E s \in Shapes : s = shape /\ log' = Rebuilt(log, s)
  <2>1. saw[p] = shape /\ log' = Rebuilt(log, shape) /\ shape \in Shapes /\ log \in Seq(Row)
    BY <1>2 DEF Rebuild, Inv, TypeOK
  <2>2. CASE HasHashes(shape)
    BY <2>1, <2>2, RebuiltKeeps DEF Inv, Narrow
  <2> QED BY <2>1, <2>2
<1>3. ASSUME NEW p \in Proxies, NEW c \in Columns, AppendRow(p, c)
      PROVE  LET r == [columns |-> c, prev |-> tip[p], hash |-> Hash(tip[p], c)] IN
             \/ log' = log
             \/ /\ pc[p] = "serving" /\ Unclaimed(tip[p]) /\ r \in Row
                /\ log' = Append(log, r)
                /\ tip' = [tip EXCEPT ![p] = Hash(tip[p], c)]
  <2>1. [columns |-> c, prev |-> tip[p], hash |-> Hash(tip[p], c)] \in Row
    BY DEF Inv, TypeOK, Hash, Hashes, Row
  <2>2. PICK landed \in {Unclaimed(tip[p]), FALSE} :
          /\ log' = IF landed THEN Append(log, [columns |-> c, prev |-> tip[p],
                                                hash |-> Hash(tip[p], c)])
                    ELSE log
          /\ tip' = [tip EXCEPT ![p] = TipAfter(p, Hash(tip[p], c), landed)]
    BY <1>3 DEF AppendRow
  <2>3. CASE ~landed
    BY <2>2, <2>3
  <2>4. CASE landed
    BY <1>3, <2>1, <2>2, <2>4 DEF AppendRow, TipAfter
  <2> QED BY <2>3, <2>4
<1>4. CASE Outside
  <2>1. Meddle(TRUE) \/ Meddle(FALSE)
    BY <1>4 DEF Outside, DropStamp, EditRow, InsertRow, DeleteRow
  <2>2. meddled' = meddled + 1 /\ meddled \in Nat
    BY <2>1 DEF Meddle, Inv, TypeOK
  <2> QED BY <2>2
<1>5. CASE UNCHANGED vars
  BY <1>5 DEF vars
<1> QED BY <1>1, <1>2, <1>3, <1>4, <1>5 DEF Next

\* The proxy appends and never rewrites: not in append, and not in a rebuild
\* that goes by the columns the file has.
THEOREM TheRowsStand == Spec => RowsStand
<1> DEFINE Stand ==
      /\ Len(log') \in {Len(log), Len(log) + 1}
      /\ \A i \in DOMAIN log : log'[i].columns = log[i].columns
<1>1. ASSUME Inv, [Next]_vars, meddled' = meddled, ~outdated' PROVE Stand
  <2>1. log \in Seq(Row) /\ DOMAIN log = 1..Len(log) /\ Len(log) \in Nat
    BY <1>1 DEF Inv, TypeOK
  <2>2. CASE log' = log
    BY <2>2
  <2>3. ASSUME NEW s \in Shapes, s = shape, ~HasHashes(shape), log' = Rebuilt(log, s) PROVE Stand
    <3>1. /\ DOMAIN log' = DOMAIN log /\ log' \in Seq(Row)
          /\ \A i \in DOMAIN log : log'[i].columns = Copied(log[i].columns, s)
      BY <2>1, <2>3, RebuiltTyped DEF Rebuilt
    <3>2. \A i \in DOMAIN log : log[i] \in Row
      BY <2>1
    <3>3. \A i \in DOMAIN log : log[i].columns \in Columns /\ log[i].columns.extra = Null
      BY <1>1, <2>3, <3>2 DEF Inv, Narrow, Row, HasHashes
    <3>4. \A i \in DOMAIN log : Copied(log[i].columns, s) = log[i].columns
      BY <3>3 DEF Copied, Columns
    <3>5. Len(log') = Len(log)
      BY <3>1, <2>1
    <3> QED BY <3>1, <3>4, <3>5
  <2>4. ASSUME NEW r \in Row, log' = Append(log, r) PROVE Stand
    BY <2>1, <2>4
  <2> QED BY <1>1, <2>2, <2>3, <2>4, AuditStep
<1>2. Inv /\ [Next]_vars => [meddled' = meddled /\ ~outdated' => Stand]_vars
  BY <1>1
<1> QED BY <1>2, AuditInvariant, PTL DEF Spec, RowsStand

\* No step of the proxy makes a broken log verify: the chain is evidence for
\* as long as the file lasts.
THEOREM TheBreaksStay == Spec => BreaksStay
<1> DEFINE Stay == HasHashes(shape) /\ ~Verifies(log) => ~Verifies(log')
<1>1. ASSUME Inv, [Next]_vars, meddled' = meddled, ~outdated' PROVE Stay
  <2>1. log \in Seq(Row)
    BY <1>1 DEF Inv, TypeOK
  <2>2. CASE log' = log
    BY <2>2 DEF Verifies, Before
  <2>3. ASSUME NEW r \in Row, log' = Append(log, r) PROVE Stay
    BY <2>1, <2>3, BreakInside
  <2> QED BY <1>1, <2>2, <2>3, AuditStep
<1>2. Inv /\ [Next]_vars =>
        [meddled' = meddled /\ ~outdated' /\ HasHashes(shape) /\ ~Verifies(log)
           => ~Verifies(log')]_vars
  BY <1>1
<1> QED BY <1>2, AuditInvariant, PTL DEF Spec, BreaksStay

\* Where the exception is out of reach: a deployment of one proxy.
THEOREM OneProxyIsEnough ==
  ASSUME NEW one, Proxies = {one}
  PROVE  Spec => []ForkRefused
<1> DEFINE Alone ==
      /\ ~outdated
      /\ \A p \in Proxies : pc[p] = "rebuilding" => saw[p] = shape
<1>1. Init => Alone
  BY DEF Init
<1>2. Inv /\ Alone /\ [Next]_vars => Alone'
  <2> SUFFICES ASSUME Inv, Alone, [Next]_vars PROVE Alone'
    OBVIOUS
  <2>0. pc \in [Proxies -> {"closed", "opened", "unmigrated", "rebuilding", "migrated", "serving"}]
        /\ saw \in [Proxies -> Shapes]
    BY DEF Inv, TypeOK
  <2>1. ASSUME NEW p \in Proxies, Open(p) \/ Stop(p) PROVE Alone'
    <3>1. CASE OpenFile(p)
      BY <2>0, <3>1 DEF OpenFile, Goes, marks
    <3>2. CASE ReadStamp(p)
      BY <2>0, <3>2 DEF ReadStamp, Goes, file, marks
    <3>3. CASE ReadColumns(p)
      BY <2>0, <3>3 DEF ReadColumns, Goes, file, marks
    <3>4. CASE Rebuild(p)
      BY <2>0, <3>4 DEF Rebuild, Goes, marks
    <3>5. CASE ReadTip(p)
      BY <2>0, <3>5 DEF ReadTip, Goes, file, marks
    <3>6. CASE Stop(p)
      BY <2>0, <3>6 DEF Stop, file, marks
    <3> QED BY <2>1, <3>1, <3>2, <3>3, <3>4, <3>5, <3>6 DEF Open
  <2>2. ASSUME NEW p \in Proxies, NEW c \in Columns, AppendRow(p, c) PROVE Alone'
    BY <2>2 DEF AppendRow, marks
  <2>3. CASE Outside
    <3>1. Meddle(TRUE) \/ Meddle(FALSE)
      BY <2>3 DEF Outside, DropStamp, EditRow, InsertRow, DeleteRow
    <3> QED BY <3>1 DEF Meddle
  <2>4. CASE UNCHANGED vars
    BY <2>4 DEF vars
  <2> QED BY <2>1, <2>2, <2>3, <2>4 DEF Next
<1>3. Inv /\ Alone => ForkRefused
  BY DEF Inv, Chain, ForkRefused
<1> QED BY <1>1, <1>2, <1>3, AuditInvariant, PTL DEF Spec
=============================================================================
