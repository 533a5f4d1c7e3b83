----------------------------- MODULE MCBookings -----------------------------
(* Bookings on small instances: windows, refused windows and symmetries.   *)
EXTENDS BookingsCalendar, TLC

W(s, e) == [start |-> s, end |-> e]

\* Two adjacent windows and one that covers both.
AdjacentWindows == {W(2, 3), W(3, 4), W(2, 4)}
OverlappingWindows == {W(2, 4), W(3, 5)}
OneWindow == {W(2, 4)}
NoneRefused == {}
WideRefused == Rooms \X {W(2, 4)}
\* The audit log is written and never read, and what requests remember for it
\* is read by nothing else: states that differ in these only are one state.
NoAudit ==
    <<clock, bookings, roomLock, rowLock, worker, faults, arrived,
      [p \in Requests |-> [req[p] EXCEPT !.old = "none", !.new = "none"]]>>

Symmetry == Permutations(Requests) \cup Permutations(Bookings)

\* States Spec reaches after two holds of adjacent windows, one of which was
\* rescheduled as often as the limit allows, or not at all: what follows is
\* explored from here without the steps that led to it.
TwoHolds ==
    /\ clock = 0
    /\ \E r \in Rooms, i \in Instructors, n \in {0, RescheduleLimit} :
          LET b == CHOOSE x \in Bookings : TRUE IN
          bookings = [x \in Bookings |->
              [status |-> "held", room |-> r, instr |-> i,
               win |-> IF x = b THEN W(2, 3) ELSE W(3, 4),
               expires |-> HoldTTL, count |-> IF x = b THEN n ELSE 0]]
    /\ audit = {[event |-> "hold", booking |-> x, old |-> "none", new |-> "held"] :
                   x \in Bookings}
          \cup {[event |-> "reschedule", booking |-> x, old |-> "held", new |-> "held"] :
                   x \in {y \in Bookings : bookings[y].count > 0}}
    /\ roomLock = [r \in Rooms |-> NULL]
    /\ rowLock = [b \in Bookings |-> NULL]
    /\ req = [p \in Requests |-> Idle]
    /\ worker = WorkerIdle
    /\ faults = 0
    /\ arrived = 2

LiveSpec == TwoHolds /\ [][Next]_vars /\ Fairness
=============================================================================
