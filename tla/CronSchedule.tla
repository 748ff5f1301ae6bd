---------------------------- MODULE CronSchedule ----------------------------
(***************************************************************************)
(* A plugin's task schedule (plugin/task_schedule.go): TaskSchedule.       *)
(* Validate with CronMinInterval and parseCronField, and the runs that the *)
(* host, external, then makes minute by minute.                            *)
(*                                                                         *)
(* An item of a cron field is its kind ("star", "range", "value", or       *)
(* "junk", text that is none of them), its numbers and its step, -1 when   *)
(* there is no step.  The two fields that decide the interval are sets of  *)
(* items; the three day fields are the set of days they select, of a cycle *)
(* of Days days.                                                           *)
(***************************************************************************)
EXTENDS Integers, FiniteSets, FiniteSetsExt

CONSTANTS
  MinuteFields, HourFields, \* the fields a plugin may write, sets of items
  DaySets,                  \* the days its other three fields may select
  MinuteHi, HourHi,         \* the last minute of an hour and hour of a day
  Days,                     \* the days of the cycle that is run
  MinInterval               \* MinTaskScheduleInterval, in minutes

\* strings.Split returns no empty list, and cronNumber no negative number.
Items == [kind : {"star", "range", "value", "junk"}, a : Nat, b : Nat, step : Nat \cup {-1}]

ASSUME ScheduleAssumption ==
  /\ MinuteHi \in Nat /\ HourHi \in Nat /\ Days \in Nat \ {0} /\ MinInterval \in Nat
  /\ \A field \in MinuteFields \cup HourFields : field \subseteq Items /\ field # {}

VARIABLES
  cron,     \* the expression
  state,    \* "new", "invalid", "too_often", "scheduled"
  interval, \* what CronMinInterval returned
  now,      \* the host's clock, in minutes
  last,     \* the minute of the latest run, or -1
  gap       \* the minutes between the latest two runs, or -1

scheduleVars == <<cron, state, interval, now, last, gap>>

DayLength == (HourHi + 1) * (MinuteHi + 1)

ScheduleInit ==
  /\ cron \in [minutes : MinuteFields, hours : HourFields, days : DaySets]
  /\ state = "new" /\ interval = -1
  /\ now = 0 /\ last = -1 /\ gap = -1

-----------------------------------------------------------------------------
(***************************************************************************)
(* parseCronField.                                                         *)
(***************************************************************************)
Start(item, lo) == IF item.kind = "star" THEN lo ELSE item.a
End(item, hi) == IF item.kind = "star" THEN hi ELSE IF item.kind = "range" THEN item.b ELSE item.a
Step(item) == IF item.step = -1 THEN 1 ELSE item.step

ItemOK(item, lo, hi) ==
  /\ item.kind # "junk"
  /\ Step(item) >= 1
  /\ item.kind = "range" => item.a <= item.b
  /\ item.kind = "value" => item.step = -1
  /\ Start(item, lo) >= lo /\ End(item, hi) <= hi

Selected(field, lo, hi) ==
  UNION {{v \in Start(item, lo)..End(item, hi) : (v - Start(item, lo)) % Step(item) = 0} : item \in field}

(***************************************************************************)
(* CronMinInterval.                                                        *)
(***************************************************************************)
Parses ==
  /\ \A item \in cron.minutes : ItemOK(item, 0, MinuteHi)
  /\ \A item \in cron.hours : ItemOK(item, 0, HourHi)

Runs ==
  {hour * (MinuteHi + 1) + minute :
     hour \in Selected(cron.hours, 0, HourHi), minute \in Selected(cron.minutes, 0, MinuteHi)}

\* The gaps between neighbours of the sorted runs of one day.
Gaps == {p[2] - p[1] : p \in {q \in Runs \X Runs : q[1] < q[2] /\ \A r \in Runs : r <= q[1] \/ q[2] <= r}}

\* Mutant of CronMinInterval: the night between two days is not counted.
CronMinIntervalOneDay == Min({DayLength} \cup Gaps)

CronMinInterval == Min({Min(Runs) + DayLength - Max(Runs)} \cup Gaps)

-----------------------------------------------------------------------------
\* TaskSchedule.Validate: a schedule that may run too often is refused.
Validate ==
  /\ state = "new"
  /\ IF Parses
     THEN /\ interval' = CronMinInterval
          /\ state' = IF CronMinInterval < MinInterval THEN "too_often" ELSE "scheduled"
     ELSE state' = "invalid" /\ UNCHANGED interval
  /\ UNCHANGED <<cron, now, last, gap>>

Due(t) ==
  /\ (t \div DayLength) % Days \in cron.days
  /\ (t % DayLength) \div (MinuteHi + 1) \in Selected(cron.hours, 0, HourHi)
  /\ t % (MinuteHi + 1) \in Selected(cron.minutes, 0, MinuteHi)

\* The host's clock moves to the next minute, in which it runs what is due.
Tick ==
  /\ state = "scheduled" /\ now < Days * DayLength + DayLength
  /\ now' = now + 1
  /\ IF Due(now)
     THEN /\ gap' = IF last = -1 THEN -1 ELSE now - last
          /\ last' = now
     ELSE UNCHANGED <<gap, last>>
  /\ UNCHANGED <<cron, state, interval>>

ScheduleNext == Validate \/ Tick

ScheduleSpec == ScheduleInit /\ [][ScheduleNext]_scheduleVars

-----------------------------------------------------------------------------
\* The type invariant: an interval lies within a day, and two runs differ.
ScheduleTypeOK ==
  /\ state \in {"new", "invalid", "too_often", "scheduled"}
  /\ interval \in {-1} \cup 1..DayLength
  /\ now \in Nat /\ last \in {-1} \cup Nat /\ gap \in {-1} \cup (Nat \ {0})

(***************************************************************************)
(* A schedule that was accepted never runs twice within MinInterval, over  *)
(* hours, midnights and skipped days (Validate, MinTaskScheduleInterval).  *)
(***************************************************************************)
RunsApart == gap # -1 => gap >= MinInterval

(***************************************************************************)
(* CronMinInterval is no estimate: when every day is selected, the two     *)
(* runs that are interval minutes apart exist, so that no schedule is      *)
(* refused for a gap it does not have.                                     *)
(***************************************************************************)
RefusedForCause ==
  state \in {"too_often", "scheduled"} /\ cron.days = 0..(Days - 1) =>
    \E t \in 0..(DayLength - 1) :
      /\ Due(t) /\ Due(t + interval)
      /\ \A u \in (t + 1)..(t + interval - 1) : ~Due(u)

\* The interval is the one the runs have, neither more nor less.
IntervalExact == RunsApart /\ RefusedForCause
=============================================================================
