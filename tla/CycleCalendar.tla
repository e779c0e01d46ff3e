--------------------------- MODULE CycleCalendar ---------------------------
(***************************************************************************)
(* The monthly periods of a subscription in calendar dates                 *)
(* (subscriptions/cycle.ts), and what a delayed renewal makes of them:     *)
(* SubscriptionLifecycle counts months, this module shows that it may.     *)
(*                                                                         *)
(* A date is <<year, month, day, time>> in UTC, months from 0 as in        *)
(* JavaScript; the time of day keeps its order and nothing else.           *)
(***************************************************************************)
EXTENDS Integers, FiniteSets

CONSTANTS
  Anchors,   \* the dates a cycle may be anchored at
  Instants,  \* the dates a renewal may come at
  MaxPeriods \* bound on the periods between the two

ASSUME CalendarAssumption ==
  /\ \A d \in Anchors \cup Instants :
       d[1] \in Nat /\ d[2] \in 0 .. 11 /\ d[3] \in 1 .. 31 /\ d[4] \in Nat
  /\ MaxPeriods \in Nat

VARIABLES cycleAnchor, periodNumber, periodEnd  \* cycle_anchor_at, current_period_number and _end

calendarVars == <<cycleAnchor, periodNumber, periodEnd>>

-----------------------------------------------------------------------------

Leap(y) == y % 4 = 0 /\ (y % 100 # 0 \/ y % 400 = 0)

\* Date.UTC(year, month + 1, 0): the last day of the month.
LastDay(y, m) ==
  CASE m = 1 -> IF Leap(y) THEN 29 ELSE 28
    [] m \in {3, 5, 8, 10} -> 30
    [] OTHER -> 31

IsDate(d) == d[3] <= LastDay(d[1], d[2])

Before(d, e) ==
  \E i \in 1 .. 4 : d[i] < e[i] /\ \A j \in 1 .. i - 1 : d[j] = e[j]

\* Boundary n counts from the anchor, not from boundary n - 1.
BoundaryMutant(d, n) ==                                  \* a short month shifts the next
  LET month == d[2] + n
  IN <<d[1] + month \div 12, month % 12,
       IF d[3] > 28 /\ n > 1 THEN 28 ELSE d[3], d[4]>>
Boundary(d, n) ==
  LET month == d[2] + n
      y == d[1] + month \div 12
      m == month % 12
      last == LastDay(y, m)
  IN <<y, m, IF d[3] > last THEN last ELSE d[3], d[4]>>

\* The months between the two dates, corrected downwards and then upwards.
Months(d, at) == (at[1] - d[1]) * 12 + (at[2] - d[2])

PeriodAtMutant(d, at) == Months(d, at)                   \* not corrected
PeriodAt(d, at) ==
  LET down[n \in 0 .. MaxPeriods] ==
        IF n > 0 /\ Before(at, Boundary(d, n)) THEN down[n - 1] ELSE n
      up[n \in 0 .. MaxPeriods] ==
        IF n < MaxPeriods /\ ~Before(at, Boundary(d, n + 1)) THEN up[n + 1] ELSE n
  IN up[down[Months(d, at)]]

CalendarInit ==
  /\ cycleAnchor \in {d \in Anchors : IsDate(d)}
  /\ periodNumber = 0
  /\ periodEnd = Boundary(cycleAnchor, 1)

\* A renewal at a date that is not before the end of the period.
RenewAt(at) ==
  /\ ~Before(at, periodEnd)
  /\ Months(cycleAnchor, at) <= MaxPeriods
  /\ LET containing == PeriodAt(cycleAnchor, at)
     IN /\ periodNumber' = IF containing > periodNumber THEN containing ELSE periodNumber + 1
        /\ periodEnd' = Boundary(cycleAnchor, periodNumber' + 1)
  /\ UNCHANGED cycleAnchor

CalendarNext == \E at \in Instants : IsDate(at) /\ RenewAt(at)

CalendarSpec == CalendarInit /\ [][CalendarNext]_calendarVars

-----------------------------------------------------------------------------
\* The period after a renewal contains the date of it, and its number is that of
\* the boundaries that have passed: periods are skipped, none is counted twice.
RenewalReachesTheInstant ==
  [][calendarVars' # calendarVars => \A at \in Instants :
       IsDate(at) /\ RenewAt(at) =>
         /\ ~Before(at, Boundary(cycleAnchor, periodNumber')) /\ Before(at, periodEnd')
         /\ periodNumber' =
              Cardinality({k \in 1 .. MaxPeriods : ~Before(at, Boundary(cycleAnchor, k))})
      ]_calendarVars

\* Every boundary is in its own month, on the day of the anchor or, in a month
\* too short for it, on the last one: a short month does not shift later ones.
BoundariesKeepTheDay ==
  /\ Months(cycleAnchor, periodEnd) = periodNumber + 1
  /\ periodEnd[4] = cycleAnchor[4]
  /\ \/ periodEnd[3] = cycleAnchor[3]
     \/ periodEnd[3] < cycleAnchor[3] /\ periodEnd[3] = LastDay(periodEnd[1], periodEnd[2])

\* The calendar is exact in leap years and short months, at the end of a month and
\* after any delay, so that months may be counted.
CalendarIsExact == []BoundariesKeepTheDay /\ RenewalReachesTheInstant
=============================================================================
