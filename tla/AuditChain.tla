----------------------------- MODULE AuditChain -----------------------------
(***************************************************************************)
(* The audit file of packages/proxy/src/audit-db.ts: its opening, its      *)
(* migration, the hash chain its rows form, and the walk that verifies it. *)
(*                                                                         *)
(* Any number of proxies may have the file open, and each may die at any   *)
(* point.  A step is one commit or one read of the file; what a proxy      *)
(* carries from one to the next is the shape of the table it saw and the   *)
(* tip of the chain.  Rows may also be changed from outside, by whoever    *)
(* holds the file.                                                         *)
(*                                                                         *)
(* A row's columns are the ones every version had (`call') and the ones a  *)
(* later version added (`extra', which may be Null).  A null column is not *)
(* in the preimage, so a row hashes the same before and after a widening.  *)
(* A hash is the sequence of the columns it commits to, back to the first  *)
(* row: no two differ in what they cover and agree.                        *)
(***************************************************************************)
EXTENDS Naturals, Sequences, FiniteSets

CONSTANTS
  Proxies,     \* processes that may open the file
  Calls,       \* what the columns of every version say of a call
  Extras,      \* values of the columns a later version added
  Null,        \* no value
  Starts,      \* the files a deployment may start from
  MaxRows,     \* bound: rows in the log
  MaxMeddling  \* bound: changes from outside

Columns == [call : Calls, extra : Extras \cup {Null}]
Hashes  == Seq(Columns)
Genesis == <<>>
Hash(prev, c) == Append(prev, c)

\* plain: versions 1 to 4, without hashes; chained: 5 and 6, with hashes and
\* without the last columns; current: 7.
Shapes == {"none", "plain", "chained", "current"}
Stamps == {"none", "older", "current", "other"}
Row == [columns : Columns, prev : Hashes, hash : Hashes]

VARIABLES
  shape,     \* the shape of tool_call_audit
  stamp,     \* the row of schema_version
  log,       \* the rows, in the order of id
  pc,        \* [Proxies -> how far the proxy's open has come]
  saw,       \* [Proxies -> the columns its migration found]
  tip,       \* [Proxies -> the hash it will chain its next row to]
  meddled,   \* changes made from outside
  touched,   \* one of them changed a row
  outdated   \* a rebuild went by columns another rebuild had already replaced

vars == <<shape, stamp, log, pc, saw, tip, meddled, touched, outdated>>
file == <<shape, stamp, log>>
marks == <<meddled, touched, outdated>>

-----------------------------------------------------------------------------
HasHashes(s) == s \in {"chained", "current"}

\* verifyChain, row by row in the order of id: the link, then the content.
Before(rows, i) == IF i = 1 THEN Genesis ELSE rows[i - 1].hash

Verifies(rows) ==
  \A i \in DOMAIN rows :
    /\ rows[i].prev = Before(rows, i)
    /\ rows[i].hash = Hash(rows[i].prev, rows[i].columns)

ASSUME ChainAssumption ==
  /\ Null \notin Extras
  /\ MaxRows \in Nat /\ MaxMeddling \in Nat
  /\ \A f \in Starts :
       /\ f \in [shape : Shapes, stamp : Stamps, log : Seq(Row)]
       /\ f.shape = "none" => f.log = <<>>
       /\ f.shape # "current" => \A i \in DOMAIN f.log : f.log[i].columns.extra = Null
       /\ HasHashes(f.shape) => Verifies(f.log)
       /\ f.stamp = "current" => f.shape = "current"

Init ==
  /\ \E f \in Starts : shape = f.shape /\ stamp = f.stamp /\ log = f.log
  /\ pc = [p \in Proxies |-> "closed"]
  /\ saw = [p \in Proxies |-> "none"]
  /\ tip = [p \in Proxies |-> Genesis]
  /\ meddled = 0 /\ touched = FALSE /\ outdated = FALSE

-----------------------------------------------------------------------------
(***************************************************************************)
(* openAuditDb                                                             *)
(***************************************************************************)
Goes(p, from, to) == pc[p] = from /\ pc' = [pc EXCEPT ![p] = to]

\* SCHEMA: a table that is not there is made in the current shape.  The
\* stamp is another commit.
OpenFile(p) ==
  /\ Goes(p, "closed", "opened")
  /\ shape' = IF shape = "none" THEN "current" ELSE shape
  /\ UNCHANGED <<stamp, log, saw, tip, marks>>

\* migrate, up to the rebuild: a version this build does not know is a throw.
ReadStamp(p) ==
  /\ \/ stamp = "current" /\ Goes(p, "opened", "migrated")
     \/ stamp \in {"none", "older"} /\ Goes(p, "opened", "unmigrated")
     \/ stamp = "other" /\ Goes(p, "opened", "closed")
  /\ UNCHANGED <<file, saw, tip, marks>>

\* PRAGMA table_info, read before the transaction opens.
ReadColumns(p) ==
  /\ Goes(p, "unmigrated", "rebuilding")
  /\ saw' = [saw EXCEPT ![p] = shape]
  /\ UNCHANGED <<file, tip, marks>>

FaultyCopied(c, s) == [c EXCEPT !.extra = Null]  \* fault: the oldest shape is assumed

\* A column the source table was seen to lack is selected as NULL.
Copied(c, s) == IF s = "current" THEN c ELSE [c EXCEPT !.extra = Null]

FaultyRebuilt(rows, s) ==  \* fault: a file with hashes is given new ones
  LET columns == [i \in DOMAIN rows |-> Copied(rows[i].columns, s)]
      upTo(n) == [j \in 1..n |-> columns[j]]
  IN [i \in DOMAIN rows |->
        [columns |-> columns[i], prev |-> upTo(i - 1), hash |-> upTo(i)]]

\* Every row is copied in order.  A file that has hashes keeps them; one that
\* has none is chained as of now.
Rebuilt(rows, s) ==
  LET columns == [i \in DOMAIN rows |-> Copied(rows[i].columns, s)]
      upTo(n) == [j \in 1..n |-> columns[j]]
  IN [i \in DOMAIN rows |->
        IF HasHashes(s) THEN [rows[i] EXCEPT !.columns = columns[i]]
        ELSE [columns |-> columns[i], prev |-> upTo(i - 1), hash |-> upTo(i)]]

\* One transaction, the stamp with it.
Rebuild(p) ==
  /\ Goes(p, "rebuilding", "migrated")
  /\ log' = Rebuilt(log, saw[p])
  /\ shape' = "current" /\ stamp' = "current"
  /\ outdated' = (outdated \/ saw[p] # shape)
  /\ UNCHANGED <<saw, tip, meddled, touched>>

ReadTip(p) ==
  /\ Goes(p, "migrated", "serving")
  /\ tip' = [tip EXCEPT ![p] = IF log = <<>> THEN Genesis ELSE log[Len(log)].hash]
  /\ UNCHANGED <<file, saw, marks>>

\* A throw of any step, a close and a kill leave the file as it was.
Stop(p) ==
  /\ pc[p] # "closed"
  /\ pc' = [pc EXCEPT ![p] = "closed"]
  /\ UNCHANGED <<file, saw, tip, marks>>

-----------------------------------------------------------------------------
(***************************************************************************)
(* append                                                                  *)
(***************************************************************************)
FaultyUnclaimed(h) == TRUE  \* fault: an index that is not unique

\* The unique index on prev_hash: no row has this predecessor yet.
Unclaimed(h) == \A i \in DOMAIN log : log[i].prev # h

TipAfter(p, h, landed) == IF landed THEN h ELSE tip[p]

\* The INSERT lands or throws; the tip moves only if it landed.
AppendRow(p, c) ==
  LET h == Hash(tip[p], c) IN
  /\ pc[p] = "serving"
  /\ Len(log) < MaxRows
  /\ \E landed \in {Unclaimed(tip[p]), FALSE} :
       /\ log' = IF landed THEN Append(log, [columns |-> c, prev |-> tip[p], hash |-> h])
                 ELSE log
       /\ tip' = [tip EXCEPT ![p] = TipAfter(p, h, landed)]
  /\ UNCHANGED <<shape, stamp, pc, saw, marks>>

-----------------------------------------------------------------------------
(***************************************************************************)
(* Changes from outside.  The triggers stop an UPDATE and a DELETE until   *)
(* they are dropped, and an INSERT never; schema_version has none.         *)
(***************************************************************************)
Meddle(rows) ==
  /\ meddled < MaxMeddling
  /\ meddled' = meddled + 1
  /\ touched' = (touched \/ rows)
  /\ UNCHANGED <<shape, pc, saw, tip, outdated>>

EditRow(i, c) ==
  /\ c # log[i].columns
  /\ log' = [log EXCEPT ![i].columns = c]
  /\ Meddle(TRUE) /\ UNCHANGED stamp

DeleteRow(i) ==
  /\ log' = SubSeq(log, 1, i - 1) \o SubSeq(log, i + 1, Len(log))
  /\ Meddle(TRUE) /\ UNCHANGED stamp

\* A well-formed row on the end, chained to any hash that has no successor.
InsertRow(h, c) ==
  /\ HasHashes(shape) /\ Len(log) < MaxRows
  /\ Unclaimed(h)
  /\ log' = Append(log, [columns |-> c, prev |-> h, hash |-> Hash(h, c)])
  /\ Meddle(TRUE) /\ UNCHANGED stamp

DropStamp ==
  /\ stamp # "none"
  /\ stamp' = "none"
  /\ Meddle(FALSE) /\ UNCHANGED log

\* What a table of this shape can hold.
Fits(c) == shape = "current" \/ c.extra = Null

Outside ==
  \/ DropStamp
  \/ \E c \in {d \in Columns : Fits(d)} :
       \/ \E i \in DOMAIN log : EditRow(i, c)
       \/ \E h \in {Genesis} \cup {log[i].hash : i \in DOMAIN log} : InsertRow(h, c)
  \/ \E i \in DOMAIN log : DeleteRow(i)

Open(p) == OpenFile(p) \/ ReadStamp(p) \/ ReadColumns(p) \/ Rebuild(p) \/ ReadTip(p)

Next ==
  \/ \E p \in Proxies : Open(p) \/ Stop(p)
  \/ \E p \in Proxies, c \in Columns : AppendRow(p, c)
  \/ Outside

Spec == Init /\ [][Next]_vars

-----------------------------------------------------------------------------
(***************************************************************************)
(* Properties                                                              *)
(***************************************************************************)
TypeOK ==
  /\ shape \in Shapes /\ stamp \in Stamps
  /\ log \in Seq(Row)
  /\ pc \in [Proxies -> {"closed", "opened", "unmigrated", "rebuilding", "migrated", "serving"}]
  /\ saw \in [Proxies -> Shapes]
  /\ tip \in [Proxies -> Hashes]
  /\ meddled \in 0..MaxMeddling /\ touched \in BOOLEAN /\ outdated \in BOOLEAN

\* A log whose rows nobody changed verifies, however many proxies opened it,
\* died in the middle or held a stale tip: the unique index turns what would
\* be a fork into a refused append.  (A rebuild by outdated columns is the
\* exception; ForkRefused says so.)
UntouchedLogVerifies ==
  ~touched /\ ~outdated /\ HasHashes(shape) => Verifies(log)

\* The proxy itself never rewrites, drops or reorders a row: appends add at
\* the end, and a rebuild carries every column of every row over.
RowsStand ==
  [][meddled' = meddled /\ ~outdated' =>
       /\ Len(log') \in {Len(log), Len(log) + 1}
       /\ \A i \in DOMAIN log : log'[i].columns = log[i].columns]_vars

\* A log that does not verify is never made to verify by the proxy, not even
\* by the rebuild of a file whose version stamp was removed.
BreaksStay ==
  [][meddled' = meddled /\ ~outdated' /\ HasHashes(shape) /\ ~Verifies(log)
       => ~Verifies(log')]_vars

\* What audit-db.ts says of two proxies against one file: the second is
\* refused an append, and an untampered log does not verify as broken.
ForkRefused == ~touched /\ HasHashes(shape) => Verifies(log)
=============================================================================
