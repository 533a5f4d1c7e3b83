----------------------------- MODULE MCTimetable ----------------------------
(* Instances of Timetable for TLC. A day has four slots.                   *)
EXTENDS Timetable, TLC

CONSTANTS hall

Window(start, end, zone) ==
    [start |-> start, end |-> end, startZone |-> zone, endZone |-> zone]

\* In UTC: within a day, up to its end, and one that ends before it starts. With
\* an offset: as the first one is written, and one that the client writes on a
\* Monday and that starts on a Sunday for the database.
SomeWindows == {Window(1, 3, 0), Window(2, 4, 0), Window(3, 1, 0), Window(0, 2, 1),
                Window(2, 4, 3)}

\* One that covers the first window, one that overlaps it, one of the next day.
SomePeriods == {[weekday |-> 0, from |-> 1, to |-> 3], [weekday |-> 0, from |-> 0, to |-> 2],
                [weekday |-> 1, from |-> 0, to |-> 4]}

\* A state that a few requests lead to: a confirmed booking with one seat taken.
Confirmed ==
    /\ capacity = [r \in Rooms |-> 2]
    /\ periods = [i \in Periods |-> NULL]
    /\ blackouts = {}
    /\ bookings = [b \in Bookings |->
          IF b = CHOOSE c \in Bookings : TRUE
          THEN [room |-> hall, window |-> Window(1, 3, 0), seats |-> 2,
                attendees |-> 1, party |-> 1, status |-> "confirmed"]
          ELSE NULL]
    /\ reserved = [b \in Bookings |-> {}]
    /\ req = [p \in Requests |-> Idle]
    /\ arrived = 0
    /\ changes = 0

MCSpec == (Init \/ Confirmed) /\ [][Next]_vars

Symmetry == Permutations(Requests) \cup Permutations(Learners)
=============================================================================
