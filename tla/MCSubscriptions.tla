-------------------------- MODULE MCSubscriptions --------------------------
(* A small instance of SubscriptionLifecycle, or the calendar of its        *)
(* periods, over a leap year and its neighbours, at the days at which       *)
(* months differ: one of the two moves.                                     *)
EXTENDS MCSubscriptionLifecycle, CycleCalendar

VARIABLE part

MCAnchors  == {2023, 2024} \X (0 .. 11) \X {1, 29, 31} \X {1}
MCInstants == (2024 .. 2025) \X (0 .. 11) \X {1, 28, 30, 31} \X {0, 1}

AnAnchor == CHOOSE d \in MCAnchors : d[3] = 1

PartInit ==
  /\ Init
  /\ \/ part = "rows" /\ cycleAnchor = AnAnchor /\ periodNumber = 0
                       /\ periodEnd = Boundary(AnAnchor, 1)
     \/ part = "calendar" /\ CalendarInit

PartNext ==
  /\ \/ part = "rows" /\ SubscriptionNext /\ UNCHANGED calendarVars
     \/ part = "calendar" /\ CalendarNext /\ UNCHANGED subVars
  /\ UNCHANGED part

PartSpec == PartInit /\ [][PartNext]_<<part, subVars, calendarVars>>
=============================================================================
