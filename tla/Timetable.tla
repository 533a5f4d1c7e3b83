----------------------------- MODULE Timetable ------------------------------
(***************************************************************************)
(* Rooms, class periods, blackout dates and learners' seats: the handlers  *)
(* of api/handlers/schedule.go, admin.go and learner.go with the           *)
(* statements of schedule_store.go and admin_learner_store.go, and the     *)
(* rules a hold is checked against, in the separate statements of          *)
(* detectBookingConflictsTx (workflow_store.go).                           *)
(*                                                                         *)
(* How holds exclude each other and expire is the subject of Bookings: a   *)
(* hold may here be refused for another booking at any time, and a booking *)
(* may expire at any time. A reschedule runs the checks of a hold; it      *)
(* moves a booking and neither its seats nor its attendees, and is left    *)
(* out, as are the audit row of a reservation and the booking's version,   *)
(* which nothing reads.                                                    *)
(*                                                                         *)
(* Moments are counted in slots from a Sunday midnight in UTC. Clients     *)
(* write a moment with its offset from UTC, and Go keeps the offset: a     *)
(* hold compares the date and the times of day as they were written,       *)
(* PostgreSQL takes the weekday in the zone of its session.                *)
(***************************************************************************)
EXTENDS Integers, FiniteSets

CONSTANTS
    Requests,     \* slots for holds and reservations in flight at the same time
    Rooms,        \* ids of rooms
    Bookings,     \* ids the server draws for bookings
    Learners,
    Periods,      \* ids the server draws for class periods
    SlotsPerDay,  \* slots of a day
    DbZone,       \* offset from UTC of the database's sessions
    Windows,      \* moments [start, end] coordinators ask for, each with its offset
    PeriodRows,   \* [weekday, from, to] triples coordinators enter
    Days,         \* dates coordinators black out
    Capacities,   \* capacities administrators enter for rooms
    Seats,        \* capacities coordinators enter for bookings
    Parties,      \* attendees coordinators enter for bookings
    MaxRequests,  \* bound: holds and reservations that arrive
    MaxChanges,   \* bound: changes to rooms, periods and blackout dates
    NULL

ASSUME TimetableAssumption ==
    /\ IsFiniteSet(Learners)
    /\ SlotsPerDay \in Nat \ {0}
    /\ DbZone \in Int
    /\ Windows \subseteq [start : Int, end : Int, startZone : Int, endZone : Int]
    /\ PeriodRows \subseteq [weekday : 0..6, from : 0..SlotsPerDay, to : 0..SlotsPerDay]
    /\ Days \subseteq Int
    /\ Capacities \subseteq Nat
    /\ Seats \subseteq Nat
    /\ Parties \subseteq Nat
    /\ MaxRequests \in Nat /\ MaxChanges \in Nat
    /\ NULL \notin Rooms \cup Bookings \cup Learners \cup Windows \cup PeriodRows \cup Nat

VARIABLES
    capacity,   \* the rooms table: capacity of each room, NULL if there is none
    periods,    \* the class_periods table
    blackouts,  \* the blackout_dates table
    bookings,   \* the bookings table
    reserved,   \* the learner_reservations table, by booking
    req,        \* what each request in flight is doing
    arrived,    \* requests so far
    changes     \* changes to rooms, periods and blackout dates so far

vars == <<capacity, periods, blackouts, bookings, reserved, req, arrived, changes>>

Statuses == {"held", "confirmed", "cancelled", "expired", "checked_in"}

BookingRow == [room : Rooms, window : Windows, seats : Nat, attendees : Nat,
               party : Nat,        \* attendees it was created with
               status : Statuses]

ASSUME NullAssumption == NULL \notin BookingRow

PC == {"idle", "room", "date", "period", "count", "insert", "booking", "seat"}

Request == [pc      : PC,
            room    : Rooms \cup {NULL},
            window  : Windows \cup {NULL},
            seats   : Nat,
            party   : Nat,
            inside  : BOOLEAN,      \* the window was found within a period
            dateOk  : BOOLEAN,      \* since it arrived, the date was once open,
            timeOk  : BOOLEAN,      \* and the window once within the periods
            booking : Bookings \cup {NULL},
            learner : Learners \cup {NULL}]

Idle == [pc |-> "idle", room |-> NULL, window |-> NULL, seats |-> 0, party |-> 0,
         inside |-> FALSE, dateOk |-> FALSE, timeOk |-> FALSE, booking |-> NULL,
         learner |-> NULL]

Become(p, r) == req' = [req EXCEPT ![p] = r]
Step(p, pc) == Become(p, [req[p] EXCEPT !.pc = pc])
Finish(p) == Become(p, Idle)

-----------------------------------------------------------------------------
(* What the rules mean.                                                    *)

Day(t) == t \div SlotsPerDay
TimeOfDay(t) == t % SlotsPerDay
Weekday(t) == Day(t) % 7

\* Start and end as the client wrote them.
Start(w) == w.start + w.startZone
End(w) == w.end + w.endZone

\* The same moments, written in UTC.
UTC(w) == [w EXCEPT !.startZone = 0, !.endZone = 0]

\* The window ends before the midnight after its start.
OneDay(w) == Day(Start(w)) = Day(End(w))

\* Both ends are written in one zone, in which it is the weekday that it is for
\* the database.
OneWeekday(w) ==
    /\ w.startZone = w.endZone
    /\ Weekday(Start(w)) = Weekday(w.start + DbZone)

\* The date of the window is open.
DateOpen(B, w) == Day(Start(w)) \notin B

Configured(P) == {P[i] : i \in {j \in Periods : P[j] # NULL}}

\* The period, on the day the window starts, covers the window: all in the zone
\* the window is written in.
Covers(row, w) ==
    LET midnight == Day(Start(w)) * SlotsPerDay IN
    /\ row.weekday = Weekday(Start(w))
    /\ midnight + row.from <= Start(w)
    /\ End(w) <= midnight + row.to

TimeOpen(P, w) ==
    Configured(P) # {} => \E row \in Configured(P) : Covers(row, w)

-----------------------------------------------------------------------------
(* Rooms, class periods and blackout dates, one statement each. They wait  *)
(* for no hold, except that a hold locks its room's row.                   *)

\* The slip: the hold does not lock the room.
RoomNotLocked(r) == FALSE

\* A hold has locked the row of its room until it ends.
RoomLocked(r) ==
    \E p \in Requests : req[p].room = r /\ req[p].pc \in {"date", "period", "count", "insert"}

\* Holds in flight see the timetable change to P and B.
Seen(P, B) ==
    req' = [p \in Requests |->
        IF req[p].window = NULL THEN req[p]
        ELSE [req[p] EXCEPT !.dateOk = @ \/ DateOpen(B, req[p].window),
                            !.timeOk = @ \/ TimeOpen(P, req[p].window)]]

Change ==
    /\ changes < MaxChanges
    /\ changes' = changes + 1
    /\ UNCHANGED <<bookings, reserved, arrived>>

\* The slip: a capacity is taken as entered.
AnyCapacity(c) == TRUE

\* AdminHandler.CreateRoom and UpdateRoom refuse a capacity below one.
ValidCapacity(c) == c >= 1

CreateRoom(r, c) ==
    /\ Change
    /\ ValidCapacity(c)
    /\ capacity[r] = NULL
    /\ capacity' = [capacity EXCEPT ![r] = c]
    /\ UNCHANGED <<periods, blackouts, req>>

UpdateRoom(r, c) ==
    /\ Change
    /\ ValidCapacity(c)
    /\ capacity[r] \notin {NULL, c}
    /\ ~RoomLocked(r)
    /\ capacity' = [capacity EXCEPT ![r] = c]
    /\ UNCHANGED <<periods, blackouts, req>>

\* Nothing asks that a period begin before it ends.
SetPeriod(i, row) ==
    /\ Change
    /\ periods' = [periods EXCEPT ![i] = row]
    /\ Seen(periods', blackouts)
    /\ UNCHANGED <<capacity, blackouts>>

CreateClassPeriod(i, row) == periods[i] = NULL /\ SetPeriod(i, row)
UpdateClassPeriod(i, row) == periods[i] \notin {NULL, row} /\ SetPeriod(i, row)
DeleteClassPeriod(i) == periods[i] # NULL /\ SetPeriod(i, NULL)

SetBlackouts(B) ==
    /\ Change
    /\ blackouts' = B
    /\ Seen(periods, B)
    /\ UNCHANGED <<capacity, periods>>

CreateBlackoutDate(d) == d \notin blackouts /\ SetBlackouts(blackouts \cup {d})
DeleteBlackoutDate(d) == d \in blackouts /\ SetBlackouts(blackouts \ {d})

\* The comparison of the precheck: an overlap is enough. In the place of Contains
\* below it is a slip.
Overlaps(row, w) ==
    /\ row.weekday = Weekday(w.start + DbZone)
    /\ row.from < TimeOfDay(End(w))
    /\ row.to > TimeOfDay(Start(w))

\* The slip: start and end are compared the wrong way round.
PrecheckSwapped(w) ==
    LET u == UTC(w) IN
    \/ ~DateOpen(blackouts, u)
    \/ ~ \E row \in Configured(periods) :
            /\ row.weekday = Weekday(u.start + DbZone)
            /\ row.from < TimeOfDay(u.start)
            /\ row.to > TimeOfDay(u.end)

\* CheckConflicts, of a window that ends after it starts: it is converted to
\* UTC and conflicts when no period overlaps it, also when none is configured.
PrecheckConflict(w) ==
    LET u == UTC(w) IN
    \/ ~DateOpen(blackouts, u)
    \/ ~ \E row \in Configured(periods) : Overlaps(row, u)

-----------------------------------------------------------------------------
(* CreateHold, in one transaction at READ COMMITTED. The first conflict    *)
(* refuses it.                                                             *)

Arrive(p) ==
    /\ req[p].pc = "idle"
    /\ arrived < MaxRequests
    /\ arrived' = arrived + 1
    /\ UNCHANGED <<capacity, periods, blackouts, bookings, reserved, changes>>

\* Nothing asks that the window end after it starts, nor in which zone it is
\* written.
BeginHold(p) ==
    /\ Arrive(p)
    /\ \E r \in Rooms, w \in Windows, s \in Seats, n \in Parties :
          Become(p, [Idle EXCEPT !.pc = "room", !.room = r, !.window = w, !.seats = s,
                                 !.party = n, !.dateOk = DateOpen(blackouts, w),
                                 !.timeOk = TimeOpen(periods, w)])

\* SELECT capacity ... FOR UPDATE
LockRoom(p) ==
    LET r == req[p].room IN
    /\ req[p].pc = "room"
    /\ ~RoomLocked(r)
    /\ IF capacity[r] = NULL THEN Finish(p)
       ELSE IF capacity[r] > 0 /\ req[p].party > capacity[r] THEN Finish(p)
       ELSE Step(p, "date")
    /\ UNCHANGED <<capacity, periods, blackouts, bookings, reserved, arrived, changes>>

\* Only the date the window starts on counts, as the client wrote it.
CheckBlackouts(p) ==
    /\ req[p].pc = "date"
    /\ IF DateOpen(blackouts, req[p].window) THEN Step(p, "period") ELSE Finish(p)
    /\ UNCHANGED <<capacity, periods, blackouts, bookings, reserved, arrived, changes>>

\* The comparison of the hold: times of the day only, so that a window that
\* ends at midnight or later ends early in the day; and the weekday of another
\* zone than the times of day.
Contains(row, w) ==
    /\ row.weekday = Weekday(w.start + DbZone)
    /\ row.from <= TimeOfDay(Start(w))
    /\ row.to >= TimeOfDay(End(w))

CheckPeriods(p) ==
    /\ req[p].pc = "period"
    /\ Become(p, [req[p] EXCEPT !.pc = "count",
          !.inside = \E row \in Configured(periods) : Contains(row, req[p].window)])
    /\ UNCHANGED <<capacity, periods, blackouts, bookings, reserved, arrived, changes>>

\* Without any period every time is open.
CountPeriods(p) ==
    /\ req[p].pc = "count"
    /\ IF Configured(periods) # {} /\ ~req[p].inside THEN Finish(p) ELSE Step(p, "insert")
    /\ UNCHANGED <<capacity, periods, blackouts, bookings, reserved, arrived, changes>>

InsertHold(p) ==
    /\ req[p].pc = "insert"
    /\ \E b \in Bookings :
          /\ bookings[b] = NULL
          /\ bookings' = [bookings EXCEPT ![b] =
                [room |-> req[p].room, window |-> req[p].window, seats |-> req[p].seats,
                 attendees |-> req[p].party, party |-> req[p].party, status |-> "held"]]
    /\ Finish(p)
    /\ UNCHANGED <<capacity, periods, blackouts, reserved, arrived, changes>>

\* Another booking is in the way, or a statement fails: the transaction is
\* rolled back.
Refuse(p) ==
    /\ req[p].pc # "idle"
    /\ Finish(p)
    /\ UNCHANGED <<capacity, periods, blackouts, bookings, reserved, arrived, changes>>

-----------------------------------------------------------------------------
(* Seats. A reservation locks the row of its booking, and the statements   *)
(* that change a booking's status wait for it.                             *)

\* The slip: the booking is read without FOR UPDATE.
RowNotLocked(b) == FALSE

\* A reservation has locked the row of the booking.
RowLocked(b) == \E p \in Requests : req[p].pc = "seat" /\ req[p].booking = b

SetStatus(b, from, to) ==
    /\ bookings[b] # NULL
    /\ bookings[b].status \in from
    /\ ~RowLocked(b)
    /\ bookings' = [bookings EXCEPT ![b].status = to]
    /\ UNCHANGED <<capacity, periods, blackouts, reserved, req, arrived, changes>>

Confirm(b) == SetStatus(b, {"held"}, "confirmed")
Expire(b) == SetStatus(b, {"held"}, "expired")
CheckIn(b) == SetStatus(b, {"confirmed"}, "checked_in")
Cancel(b) == SetStatus(b, Statuses \ {"cancelled"}, "cancelled")

\* LearnerHandler.Reserve
BeginReserve(p) ==
    /\ Arrive(p)
    /\ \E b \in Bookings, l \in Learners :
          /\ bookings[b] # NULL
          /\ Become(p, [Idle EXCEPT !.pc = "booking", !.booking = b, !.learner = l])

\* The slip: the booking need not be confirmed.
OpenWithSeats(row) == row.attendees < row.seats

\* ReserveLearnerSeat offers seats of confirmed bookings.
Open(row) == row.status = "confirmed" /\ row.attendees < row.seats

LockBooking(p) ==
    LET b == req[p].booking IN
    /\ req[p].pc = "booking"
    /\ ~RowLocked(b)
    /\ IF Open(bookings[b]) THEN Step(p, "seat") ELSE Finish(p)
    /\ UNCHANGED <<capacity, periods, blackouts, bookings, reserved, arrived, changes>>

\* The reservation is inserted, unless the learner has one, and counted, also
\* if the learner had one.
TakeSeat(p) ==
    LET b == req[p].booking IN
    /\ req[p].pc = "seat"
    /\ reserved' = [reserved EXCEPT ![b] = @ \cup {req[p].learner}]
    /\ bookings' = [bookings EXCEPT ![b].attendees = @ + 1]
    /\ Finish(p)
    /\ UNCHANGED <<capacity, periods, blackouts, arrived, changes>>

-----------------------------------------------------------------------------

Init ==
    /\ capacity = [r \in Rooms |-> NULL]
    /\ periods = [i \in Periods |-> NULL]
    /\ blackouts = {}
    /\ bookings = [b \in Bookings |-> NULL]
    /\ reserved = [b \in Bookings |-> {}]
    /\ req = [p \in Requests |-> Idle]
    /\ arrived = 0
    /\ changes = 0

Administer ==
    \/ \E r \in Rooms, c \in Capacities : CreateRoom(r, c) \/ UpdateRoom(r, c)
    \/ \E i \in Periods, row \in PeriodRows : CreateClassPeriod(i, row) \/ UpdateClassPeriod(i, row)
    \/ \E i \in Periods : DeleteClassPeriod(i)
    \/ \E d \in Days : CreateBlackoutDate(d) \/ DeleteBlackoutDate(d)

Hold(p) ==
    \/ BeginHold(p) \/ LockRoom(p) \/ CheckBlackouts(p) \/ CheckPeriods(p) \/ CountPeriods(p)
    \/ InsertHold(p)

Reserve(p) == BeginReserve(p) \/ LockBooking(p) \/ TakeSeat(p)

Next ==
    \/ Administer
    \/ \E p \in Requests : Hold(p) \/ Reserve(p) \/ Refuse(p)
    \/ \E b \in Bookings : Confirm(b) \/ Expire(b) \/ CheckIn(b) \/ Cancel(b)

Spec == Init /\ [][Next]_vars

-----------------------------------------------------------------------------
(* Properties.                                                             *)

\* Every variable has its type; rooms hold somebody.
TypeOK ==
    /\ capacity \in [Rooms -> (Nat \ {0}) \cup {NULL}]
    /\ periods \in [Periods -> PeriodRows \cup {NULL}]
    /\ blackouts \subseteq Days
    /\ bookings \in [Bookings -> BookingRow \cup {NULL}]
    /\ reserved \in [Bookings -> SUBSET Learners]
    /\ req \in [Requests -> Request]
    /\ arrived \in Nat
    /\ changes \in Nat

\* A hold about to be inserted fits the room as it is now: the capacity was
\* read statements ago, and UpdateRoom may lower it at any time but then.
HoldFitsRoom ==
    \A p \in Requests : req[p].pc = "insert" => req[p].party <= capacity[req[p].room]

\* A hold about to be inserted was, at some moment since it arrived, on an open
\* date and, if its window does not reach midnight and it is the same weekday for
\* the client and the database, at some moment within the class periods, however
\* these change between its statements.
HoldJustified ==
    \A p \in Requests : req[p].pc = "insert" =>
        /\ req[p].dateOk
        /\ OneDay(req[p].window) /\ OneWeekday(req[p].window) => req[p].timeOk

\* Of a window written in UTC (the web client's holds have no offset and are taken
\* as UTC) that a hold finds on an open date within a configured period, the
\* precheck does not warn, whatever was configured and whatever the database's zone.
PrecheckAgrees ==
    \A w \in Windows :
        /\ w = UTC(w) /\ w.start < w.end /\ OneDay(w)
        /\ DateOpen(blackouts, w)
        /\ \E row \in Configured(periods) : Contains(row, w)
        => ~PrecheckConflict(w)

\* No learner without a seat: a booking's attendees are at least those it was
\* created with and its reservations, and beyond those it was created with they
\* stay within its seats, however reservations overlap or are repeated.
SeatsCounted ==
    \A b \in Bookings : bookings[b] # NULL =>
        LET row == bookings[b] IN
        /\ row.party + Cardinality(reserved[b]) <= row.attendees
        /\ row.attendees <= IF row.party > row.seats THEN row.party ELSE row.seats

\* A seat is only ever taken in a booking that is confirmed at that moment,
\* although its status was checked before.
SeatsTakenWhileConfirmed ==
    [][\A b \in Bookings :
          reserved'[b] # reserved[b] => bookings[b] # NULL /\ bookings[b].status = "confirmed"]_vars
=============================================================================
