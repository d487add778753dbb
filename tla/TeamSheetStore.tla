--------------------------- MODULE TeamSheetStore ---------------------------
(***************************************************************************)
(* packages/proxy/src/team-sheet-store.ts: one channel's team sheet, its   *)
(* cached copy, the reads that keep it current and the watcher.  Channels  *)
(* share nothing in the store.                                             *)
(*                                                                         *)
(* The file is the sequence of what it has held; a version is its index.   *)
(* stat and readFile are each two steps, because the kernel's look and the *)
(* continuation that hears of it are two moments, and a caller, a write or *)
(* a watch event may come between them.  A write that is not atomic is two *)
(* versions, the first of which does not parse.                            *)
(***************************************************************************)
EXTENDS Naturals, Sequences, FiniteSets

CONSTANTS
  Callers,   \* requests that resolve the sheet
  Reads,     \* names for refreshes; a name is used again once its read is over
  MaxEdits,  \* bound: versions of the file
  SameTick   \* a rewrite may keep size, inode and mtime

Kinds  == {"none", "good", "bad"}
NoRead == "no read"
Gone   == 0  \* the null fingerprint

ASSUME StoreAssumption ==
  MaxEdits \in Nat \ {0} /\ SameTick \in BOOLEAN /\ NoRead \notin Reads

VARIABLES
  file,      \* Seq of [kind, print]: every version of channel.toml
  entry,     \* the cached state, its fingerprint, and the version it is of
  reads,     \* [Reads -> refresh in flight]
  inFlight,  \* entry.inFlight: the newest refresh
  stated,    \* entry.inFlightStated
  caller,    \* [Callers -> the resolve it waits for, or its answer]
  watching,  \* a watcher is on the channel's directory
  event,     \* a change event waits to be handled
  noticed,   \* the newest version an event was raised for
  missed     \* an event was handed to a read that had looked, or lost with its watcher

vars == <<file, entry, reads, inFlight, stated, caller, watching, event, noticed, missed>>
watch == <<watching, event, noticed, missed>>

-----------------------------------------------------------------------------
Now == Len(file)
Prints == 0..MaxEdits
States == [status : {"active", "absent", "unusable"}, sheet : Prints, stale : BOOLEAN]

Entry == [state : States, print : Prints, of : Prints]

\* behind: the read it waits for; print, at: what stat found and when; text:
\* the version readFile found.
Read == [phase : {"over", "queued", "statting", "looked", "reading", "read"},
         behind : Reads \cup {NoRead}, print : Prints, at : Prints, text : Prints]

\* asked: the version at the call; late: it joined a read that had looked.
Caller == [pc : {"idle", "waiting", "answered"}, on : Reads \cup {NoRead},
           asked : Prints, late : BOOLEAN, got : States, of : Prints]

Absent == [status |-> "absent", sheet |-> 0, stale |-> FALSE]
Over   == [phase |-> "over", behind |-> NoRead, print |-> Gone, at |-> 0, text |-> 0]
Free   == [pc |-> "idle", on |-> NoRead, asked |-> 0, late |-> FALSE, got |-> Absent, of |-> 0]

Init ==
  /\ file \in {<<[kind |-> "none", print |-> Gone]>>, <<[kind |-> "good", print |-> 1]>>}
  /\ entry = [state |-> Absent, print |-> Gone, of |-> 0]
  /\ reads = [w \in Reads |-> Over]
  /\ inFlight = NoRead /\ stated = FALSE
  /\ caller = [c \in Callers |-> Free]
  /\ watching = FALSE /\ event = FALSE /\ noticed = 0 /\ missed = FALSE

-----------------------------------------------------------------------------
(***************************************************************************)
(* resolve                                                                 *)
(***************************************************************************)
FaultyShares == inFlight # NoRead  \* fault: any read in flight is shared

\* A refresh that has not stat'ed is taken to stat after this call.
Shares == inFlight # NoRead /\ ~stated

FaultyPhase(w) == "statting"  \* fault: a refresh does not wait for the running one

Phase(w) == IF w = NoRead THEN "statting" ELSE "queued"

\* The refresh a call gets: the one in flight, or a new one queued behind it.
Resolve(w, reads2) ==
  IF Shares
  THEN w = inFlight /\ reads2 = reads /\ UNCHANGED <<inFlight, stated>>
  ELSE /\ reads[w].phase = "over"
       /\ reads2 = [reads EXCEPT ![w] = [Over EXCEPT !.phase = Phase(inFlight), !.behind = inFlight]]
       /\ inFlight' = w /\ stated' = FALSE

\* Looked, while the flag still says it has not.
HasLooked(w) == reads[w].phase = "looked"

Ask(c) ==
  /\ caller[c].pc = "idle"
  /\ \E w \in Reads :
       /\ Resolve(w, reads')
       /\ caller' = [caller EXCEPT ![c] =
            [Free EXCEPT !.pc = "waiting", !.on = w, !.asked = Now,
                         !.late = HasLooked(w)]]
  /\ UNCHANGED <<file, entry, watch>>

\* The watcher's handler resolves the channel, and drops the answer.
HandleEvent ==
  /\ event
  /\ event' = FALSE
  /\ \E w \in Reads : Resolve(w, reads') /\ missed' = (missed \/ HasLooked(w))
  /\ UNCHANGED <<file, entry, caller, watching, noticed>>

-----------------------------------------------------------------------------
(***************************************************************************)
(* #refresh                                                                *)
(***************************************************************************)
\* The kernel's half of stat.
Look(w) ==
  /\ reads[w].phase = "statting"
  /\ reads' = [reads EXCEPT ![w].phase = "looked", ![w].print = file[Now].print, ![w].at = Now]
  /\ UNCHANGED <<file, entry, inFlight, stated, caller, watch>>

Unchanged(w) == reads[w].print = entry.print /\ entry.state.status # "absent"

FaultyEnds(w) == FALSE  \* fault: the read in flight is never cleared

\* The finally of resolve: a refresh clears inFlight only if it is the newest.
Ends(w) == inFlight = w

\* A refresh ends with a state: every caller on it is answered, the refresh
\* behind it may start, and the watcher is put back if it is not there, unless
\* the system has none to give or the directory is gone.
Finish(w, new) ==
  /\ entry' = new
  /\ reads' = [v \in Reads |->
       IF v = w THEN Over
       ELSE IF reads[v].phase = "queued" /\ reads[v].behind = w
            THEN [reads[v] EXCEPT !.phase = "statting", !.behind = NoRead]
       ELSE reads[v]]
  /\ caller' = [c \in Callers |->
       IF caller[c].pc = "waiting" /\ caller[c].on = w
       THEN [caller[c] EXCEPT !.pc = "answered", !.on = NoRead, !.got = new.state, !.of = new.of]
       ELSE caller[c]]
  /\ IF Ends(w) THEN inFlight' = NoRead /\ stated' = FALSE
     ELSE UNCHANGED <<inFlight, stated>>
  /\ watching' \in {TRUE, watching}
  /\ UNCHANGED <<file, event, noticed, missed>>

\* Deletion takes effect at once.
FindGone(w) ==
  /\ reads[w].phase = "looked"
  /\ reads[w].print = Gone
  /\ Finish(w, [state |-> Absent, print |-> Gone, of |-> reads[w].at])

FindUnchanged(w) ==
  /\ reads[w].phase = "looked"
  /\ reads[w].print # Gone /\ Unchanged(w)
  /\ Finish(w, entry)

\* The continuation of the stat; from here a newcomer is not answered by it.
FindChanged(w) ==
  /\ reads[w].phase = "looked"
  /\ reads[w].print # Gone /\ ~Unchanged(w)
  /\ stated' = (stated \/ inFlight = w)
  /\ reads' = [reads EXCEPT ![w].phase = "reading"]
  /\ UNCHANGED <<file, entry, inFlight, caller, watch>>

\* The kernel's half of readFile.
ReadText(w) ==
  /\ reads[w].phase = "reading"
  /\ reads' = [reads EXCEPT ![w].phase = "read", ![w].text = Now]
  /\ UNCHANGED <<file, entry, inFlight, stated, caller, watch>>

FaultyRetained(v) ==  \* fault: a sheet that stops parsing goes dark
  [state |-> [status |-> "unusable", sheet |-> 0, stale |-> FALSE], print |-> Gone, of |-> v]

\* A sheet that does not parse leaves the last good one in force, marked.
Retained(v) ==
  [state |-> IF entry.state.status = "active" THEN [entry.state EXCEPT !.stale = TRUE]
             ELSE [status |-> "unusable", sheet |-> 0, stale |-> FALSE],
   print |-> Gone, of |-> v]

FaultyKey(w) == file[Now].print  \* fault: the fingerprint is taken after the read

\* The fingerprint cached is the one that was stat'ed, before the read.
Key(w) == reads[w].print

Parse(w) ==
  LET v == reads[w].text IN
  /\ reads[w].phase = "read"
  /\ \/ file[v].kind = "none" /\ Finish(w, [state |-> Absent, print |-> Gone, of |-> v])
     \/ file[v].kind = "good"
        /\ Finish(w, [state |-> [status |-> "active", sheet |-> v, stale |-> FALSE],
                      print |-> Key(w), of |-> v])
     \/ file[v].kind = "bad" /\ Finish(w, [Retained(v) EXCEPT !.print = Key(w)])

\* The caller does something else, and may ask again.
Leave(c) ==
  /\ caller[c].pc = "answered"
  /\ caller' = [caller EXCEPT ![c] = Free]
  /\ UNCHANGED <<file, entry, reads, inFlight, stated, watch>>

-----------------------------------------------------------------------------
(***************************************************************************)
(* The file, and the watcher                                               *)
(***************************************************************************)
\* A write, a removal or a replacement.  The fingerprint is a new one, unless
\* the rewrite fell in the same tick at the same size.
Edit(kind) ==
  /\ Now < MaxEdits
  /\ kind = "none" => file[Now].kind # "none"
  /\ \E print \in {Now + 1} \cup
          (IF SameTick /\ file[Now].kind # "none" THEN {file[Now].print} ELSE {}) :
       file' = Append(file, [kind |-> kind, print |-> IF kind = "none" THEN Gone ELSE print])
  /\ event' = (event \/ watching)
  /\ noticed' = IF watching THEN Now + 1 ELSE noticed
  /\ UNCHANGED <<entry, reads, inFlight, stated, caller, watching, missed>>

\* The watcher's `error': an event it had raised may go with it.
WatcherFails ==
  /\ watching /\ watching' = FALSE
  /\ event' \in {event, FALSE} /\ missed' = (missed \/ event' # event)
  /\ UNCHANGED <<file, entry, reads, inFlight, stated, caller, noticed>>

Reading(w) == Look(w) \/ FindGone(w) \/ FindUnchanged(w) \/ FindChanged(w) \/ ReadText(w) \/ Parse(w)

Next ==
  \/ \E c \in Callers : Ask(c) \/ Leave(c)
  \/ HandleEvent \/ WatcherFails
  \/ \E w \in Reads : Reading(w)
  \/ \E kind \in Kinds : Edit(kind)

\* The kernel answers, and Node runs what is ready.
Fairness == WF_vars(HandleEvent) /\ \A w \in Reads : WF_vars(Reading(w))

Spec == Init /\ [][Next]_vars /\ Fairness

-----------------------------------------------------------------------------
(***************************************************************************)
(* Properties                                                              *)
(***************************************************************************)
TypeOK ==
  /\ Now \in 1..MaxEdits
  /\ file \in Seq([kind : Kinds, print : Prints])
  /\ entry \in Entry
  /\ reads \in [Reads -> Read]
  /\ inFlight \in Reads \cup {NoRead} /\ stated \in BOOLEAN
  /\ (inFlight = NoRead) <=> \A w \in Reads : reads[w].phase = "over"
  /\ caller \in [Callers -> Caller]
  /\ watching \in BOOLEAN /\ event \in BOOLEAN /\ noticed \in Prints
  /\ missed \in BOOLEAN

\* What the store may answer of version v: the sheet itself, no sheet, or,
\* where v does not parse, an earlier sheet marked stale or none that is
\* usable.
Tells(state, v) ==
  CASE file[v].kind = "none" -> state = Absent
    [] file[v].kind = "good" -> state.status = "active" /\ state.sheet = v /\ ~state.stale
    [] file[v].kind = "bad"  ->
         \/ state.status = "active" /\ state.stale
            /\ state.sheet \in 1..(v - 1) /\ file[state.sheet].kind = "good"
         \/ state.status = "unusable"

\* An answer is of the file as it was at some moment since the question: an
\* edit, a removal or a revocation that was on disk when a request asked is
\* what the request is decided by.  (Not so for one that joins a read in the
\* instant between its look and its continuation; NeverOlder says so.)
AnswersAreOfNow ==
  \A c \in Callers : caller[c].pc = "answered" /\ ~caller[c].late =>
    Tells(caller[c].got, caller[c].of) /\ caller[c].of >= caller[c].asked

\* The cached state and the fingerprint it is keyed to describe one read: a
\* file that still has the cached fingerprint is the file that was read.
CacheIsKeyed ==
  entry.state.status # "absent" /\ entry.print = file[Now].print => Tells(entry.state, Now)

\* A good sheet in force leaves it only for a later good one or for none: a
\* typo never disables a channel, nor brings an older sheet back.
SheetsGoForward ==
  [][entry.state.status = "active" =>
       \/ entry'.state.status = "absent"
       \/ entry'.state.status = "active" /\ entry'.state.sheet >= entry.state.sheet]_vars

\* Every resolve is answered: what is queued behind a read gets its turn.
ResolvesAnswer == \A c \in Callers : caller[c].pc = "waiting" ~> caller[c].pc = "answered"

\* An edit the watcher saw reaches the cache without a request asking (unless
\* its event joined a read that had looked, or went with the watcher).
WatchedEditsLand == \A v \in 1..MaxEdits : noticed = v ~> entry.of >= v \/ missed

\* Whoever waits for an answer waits for a refresh that is under way, and some
\* refresh is then at the file: those that are queued never wait in a ring, or
\* behind one that is over.
WaitersAreServed ==
  \A c \in Callers : caller[c].pc = "waiting" =>
    /\ reads[caller[c].on].phase # "over"
    /\ \E w \in Reads : reads[w].phase \notin {"over", "queued"}

\* What team-sheet-store.ts says of a shared read: an answer is never older
\* than the question.
NeverOlder == \A c \in Callers : caller[c].pc = "answered" => caller[c].of >= caller[c].asked
=============================================================================
