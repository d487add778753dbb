------------------------------ MODULE RuleClock ------------------------------
(***************************************************************************)
(* When a standing rule next fires (rule-clock.ts), and the schedule the   *)
(* ambient clock keeps of it (ambient.ts, the loop over settings.rules).   *)
(*                                                                         *)
(* An instant is a number of minutes, and so is a wall clock's reading:    *)
(* its day is the quotient by DayLength and its time the remainder.  A     *)
(* zone is its distance from UTC before and after one transition, which    *)
(* may skip or repeat a whole day.  Rules are enabled throughout and a     *)
(* scan runs in every minute; AmbientClock has late scans, restarts and    *)
(* edited sheets.                                                          *)
(***************************************************************************)
EXTENDS Integers, FiniteSets, FiniteSetsExt

CONSTANTS
  DayLength, \* minutes in a day
  Week,      \* days in a week
  Zones,     \* zones, as [before, after, at]
  Rules,     \* rules, as [at, days]: times of the day and weekdays
  FirstScan, \* the instant of the first scan
  LastScan   \* bound: the instant of the last

ASSUME RuleClockAssumption ==
  /\ DayLength \in Nat \ {0} /\ Week \in Nat \ {0, 1}
  /\ Zones \subseteq [before : Int, after : Int, at : Int]
  /\ \A z \in Zones : /\ z.before \in -DayLength..DayLength /\ z.after \in -DayLength..DayLength
                     /\ z.after - z.before \in -DayLength..DayLength
  /\ Rules \subseteq [at : SUBSET (0..(DayLength - 1)), days : SUBSET (0..(Week - 1))]
  /\ FirstScan \in Int /\ LastScan \in Int

VARIABLES
  minute,   \* the instant of the scan
  zone,     \* the rule's timezone
  standing, \* the rule, in force throughout
  due,      \* ruleSchedule's entry for it: no instant or one
  fired     \* the occurrences it was fired for

ruleVars == <<minute, zone, standing, due, fired>>

-----------------------------------------------------------------------------
offsetAt(instant, z) == IF instant < z.at THEN z.before ELSE z.after

wallClockAt(instant, z) == instant + offsetAt(instant, z)

\* The offset at the guess, then the offset at the answer.
Guessed(local, z) ==
  LET once == local - offsetAt(local, z)
  IN  local - offsetAt(once, z)

FaultyInstantOfWallClock(local, z) == {Guessed(local, z)}  \* fault: a skipped time is moved

\* No instant when the day did not contain the time, else one.
instantOfWallClock(local, z) ==
  {i \in {Guessed(local, z)} : wallClockAt(i, z) = local}

\* The firings on one day of the zone's calendar that are still ahead.
Ahead(r, day, after, z) ==
  {i \in UNION {instantOfWallClock(day * DayLength + t, z) : t \in r.at} : i > after}

\* The days that may be searched: today to the same weekday of next week.
Searched(after, z) ==
  LET today == wallClockAt(after, z) \div DayLength
  IN  today..(today + Week)

\* The earliest firing strictly after an instant: none or one.
nextRuleOccurrence(r, after, z) ==
  LET days == {d \in Searched(after, z) : d % Week \in r.days /\ Ahead(r, d, after, z) # {}}
  IN  IF days = {} THEN {} ELSE {Min(Ahead(r, Min(days), after, z))}

-----------------------------------------------------------------------------
RuleInit ==
  /\ minute = FirstScan
  /\ zone \in Zones /\ standing \in Rules
  /\ due = {} /\ fired = {}

\* First sight: nothing fires; without an occurrence the next scan looks again.
Sight ==
  /\ due = {} /\ minute < LastScan
  /\ due' = nextRuleOccurrence(standing, minute, zone)
  /\ minute' = minute + 1
  /\ UNCHANGED <<zone, standing, fired>>

\* Advanced before the firing.
Fire ==
  /\ due # {} /\ Min(due) <= minute /\ minute < LastScan
  /\ fired' = fired \cup due
  /\ due' = nextRuleOccurrence(standing, minute, zone)
  /\ minute' = minute + 1
  /\ UNCHANGED <<zone, standing>>

AwaitDue ==
  /\ due # {} /\ Min(due) > minute /\ minute < LastScan
  /\ minute' = minute + 1
  /\ UNCHANGED <<zone, standing, due, fired>>

RuleNext == Sight \/ Fire \/ AwaitDue

RuleSpec == RuleInit /\ [][RuleNext]_ruleVars

-----------------------------------------------------------------------------
(***************************************************************************)
(* Properties                                                              *)
(***************************************************************************)
\* The instants at which the zone's clock reads a time: none in what is
\* skipped, two in what comes twice, which may begin a day before the scans.
Readings(local) ==
  {i \in (FirstScan - DayLength)..(LastScan + DayLength) : wallClockAt(i, zone) = local}

\* The readings the rule names.
Named == {l \in (FirstScan - DayLength)..(LastScan + DayLength) :
            l % DayLength \in standing.at /\ (l \div DayLength) % Week \in standing.days}

\* Every time the rule names is fired once, on each of its days that has the
\* time, and no other instant is: over an hour or a day skipped or repeated,
\* and in a week with a single day in it.  A time read before the first scan,
\* once or twice, is not owed.
OncePerReading ==
  /\ \A l \in Named :
       LET seen == Readings(l)
       IN  seen # {} /\ (\A i \in seen : FirstScan < i /\ i < minute) => Cardinality(fired \cap seen) = 1
  /\ fired \subseteq UNION {Readings(l) : l \in Named}

\* A time that happens twice fires once, at the later reading (rule-clock.ts:55).
LaterReading == \A l \in Named : \A i \in fired \cap Readings(l) : i = Max(Readings(l))
=============================================================================
