-------------------------- MODULE TimetableProofs ---------------------------
(***************************************************************************)
(* Safety of Timetable for every timetable, every set of rooms, windows,   *)
(* learners and requests: what a hold has read is still worth something    *)
(* when it is inserted, and seats are counted right.                       *)
(***************************************************************************)
EXTENDS Timetable, FiniteSetTheorems, TLAPS

\* The steps of a hold that has locked its room, and all its steps.
Locked == {"date", "period", "count", "insert"}
Holding == Locked \cup {"room"}

\* The window is compared with the periods as it is meant.
Plain(w) == OneDay(w) /\ OneWeekday(w)

\* What a hold knows between its statements, about the capacities cap, the
\* periods P and the blackout dates B.
HoldKnows(r, cap, P, B) ==
    /\ r.pc \in Holding => r.room \in Rooms /\ r.window \in Windows
    /\ r.window # NULL => /\ DateOpen(B, r.window) => r.dateOk
                          /\ TimeOpen(P, r.window) => r.timeOk
    /\ r.pc \in Locked => cap[r.room] # NULL /\ r.party <= cap[r.room]
    /\ r.pc \in {"period", "count", "insert"} => r.dateOk
    /\ r.pc = "count" /\ r.inside /\ Plain(r.window) => r.timeOk
    /\ r.pc = "insert" /\ Plain(r.window) => r.timeOk

\* What a reservation knows between its statements, about the bookings table.
SeatKnows(r, table) ==
    /\ r.pc \in {"booking", "seat"} => /\ r.booking \in Bookings
                                       /\ r.learner \in Learners
                                       /\ table[r.booking] # NULL
    /\ r.pc = "seat" => Open(table[r.booking])

Knowing ==
    \A p \in Requests :
        HoldKnows(req[p], capacity, periods, blackouts) /\ SeatKnows(req[p], bookings)

\* A booking's row is locked by one reservation at a time.
OneSeat ==
    \A p, q \in Requests :
        req[p].pc = "seat" /\ req[q].pc = "seat" /\ req[p].booking = req[q].booking => p = q

\* Only bookings have reservations.
Unreserved == \A b \in Bookings : bookings[b] = NULL => reserved[b] = {}

Inv == TypeOK /\ Knowing /\ OneSeat /\ Unreserved /\ SeatsCounted

-----------------------------------------------------------------------------
(* Times of the day.                                                       *)

LEMMA Division ==
    ASSUME NEW t \in Int
    PROVE  /\ Day(t) \in Int /\ TimeOfDay(t) \in Nat /\ TimeOfDay(t) < SlotsPerDay
           /\ t = Day(t) * SlotsPerDay + TimeOfDay(t)
BY TimetableAssumption, Z3 DEF Day, TimeOfDay

\* Start and end of a window of one day, as written.
LEMMA Written ==
    ASSUME NEW w \in Windows, OneDay(w)
    PROVE  /\ Start(w) \in Int /\ End(w) \in Int
           /\ Start(w) = Day(Start(w)) * SlotsPerDay + TimeOfDay(Start(w))
           /\ End(w) = Day(Start(w)) * SlotsPerDay + TimeOfDay(End(w))
           /\ TimeOfDay(Start(w)) \in Nat /\ TimeOfDay(End(w)) \in Nat
           /\ Day(Start(w)) * SlotsPerDay \in Int
<1>1. Start(w) \in Int /\ End(w) \in Int
  BY TimetableAssumption DEF Start, End
<1>2. QED
  BY <1>1, Division, TimetableAssumption DEF OneDay

\* Within a day that has one weekday, the comparison of times of the day is right.
LEMMA ContainsCovers ==
    ASSUME NEW row \in PeriodRows, NEW w \in Windows, Plain(w), Contains(row, w)
    PROVE  Covers(row, w)
<1>1. row.from \in Int /\ row.to \in Int
  BY TimetableAssumption
<1>2. OneDay(w) /\ Weekday(Start(w)) = Weekday(w.start + DbZone)
  BY DEF Plain, OneWeekday
<1>3. QED
  BY <1>1, <1>2, Written DEF Contains, Covers

\* In UTC, a period that contains a window of one day overlaps it: the weekday is
\* the database's for both comparisons, and the times of day are the same.
LEMMA ContainsOverlaps ==
    ASSUME NEW row \in PeriodRows, NEW w \in Windows, w = UTC(w), w.start < w.end, OneDay(w),
           Contains(row, w)
    PROVE  Overlaps(row, w)
<1>1. row.from \in Int /\ row.to \in Int /\ w.start \in Int /\ w.end \in Int
  BY TimetableAssumption
<1>2. w.startZone = 0 /\ w.endZone = 0
  BY TimetableAssumption DEF UTC
<1>3. Start(w) < End(w)
  BY <1>1, <1>2 DEF Start, End
<1>4. TimeOfDay(Start(w)) < TimeOfDay(End(w))
  BY <1>3, Written
<1>5. QED
  BY <1>1, <1>4, Written DEF Contains, Overlaps

LEMMA ConfiguredRows ==
    ASSUME TypeOK
    PROVE  Configured(periods) \subseteq PeriodRows
BY DEF TypeOK, Configured

-----------------------------------------------------------------------------
(* Requests.                                                               *)

LEMMA IdleKnows ==
    /\ Idle \in Request
    /\ \A cap, P, B : HoldKnows(Idle, cap, P, B)
    /\ \A table : SeatKnows(Idle, table)
BY TimetableAssumption DEF Idle, Request, PC, HoldKnows, SeatKnows, Holding, Locked

\* A step of one request that is not about to take a seat.
LEMMA BecomeKnowing ==
    ASSUME Inv, NEW p \in Requests, NEW r \in Request, Become(p, r),
           UNCHANGED <<capacity, periods, blackouts, bookings, reserved>>,
           HoldKnows(r, capacity, periods, blackouts), SeatKnows(r, bookings),
           r.pc = "seat" => ~RowLocked(r.booking)
    PROVE  /\ req' \in [Requests -> Request]
           /\ Knowing' /\ OneSeat' /\ Unreserved' /\ SeatsCounted'
<1>1. req' \in [Requests -> Request] /\ req'[p] = r /\ \A q \in Requests \ {p} : req'[q] = req[q]
  BY DEF Become, Inv, TypeOK
<1>2. Knowing'
  <2> SUFFICES ASSUME NEW q \in Requests
               PROVE  /\ HoldKnows(req'[q], capacity, periods, blackouts)
                      /\ SeatKnows(req'[q], bookings)
    BY DEF Knowing
  <2> QED
    BY <1>1 DEF Inv, Knowing
<1>3. OneSeat'
  <2> SUFFICES ASSUME NEW q1 \in Requests, NEW q2 \in Requests, q1 # q2,
                      req'[q1].pc = "seat", req'[q2].pc = "seat",
                      req'[q1].booking = req'[q2].booking
               PROVE  FALSE
    BY DEF OneSeat
  <2>1. CASE q1 = p
    BY <2>1, <1>1 DEF RowLocked
  <2>2. CASE q2 = p
    BY <2>2, <1>1 DEF RowLocked
  <2>3. CASE q1 # p /\ q2 # p
    BY <2>3, <1>1 DEF Inv, OneSeat
  <2>4. QED
    BY <2>1, <2>2, <2>3
<1>4. Unreserved' /\ SeatsCounted'
  BY DEF Inv, Unreserved, SeatsCounted
<1>5. QED
  BY <1>1, <1>2, <1>3, <1>4

\* A request that ends without having written anything.
LEMMA FinishKnowing ==
    ASSUME Inv, NEW p \in Requests, Finish(p),
           UNCHANGED <<capacity, periods, blackouts, bookings, reserved, arrived, changes>>
    PROVE  Inv'
<1>1. Idle.pc # "seat"
  BY DEF Idle
<1>2. /\ req' \in [Requests -> Request]
      /\ Knowing' /\ OneSeat' /\ Unreserved' /\ SeatsCounted'
  BY IdleKnows, BecomeKnowing, <1>1 DEF Finish
<1>3. QED
  BY <1>2 DEF Inv, TypeOK

\* A request that goes on without having written anything.
LEMMA GoesOn ==
    ASSUME Inv, NEW p \in Requests, NEW r \in Request, Become(p, r),
           UNCHANGED <<capacity, periods, blackouts, bookings, reserved, changes>>,
           arrived' \in Nat,
           HoldKnows(r, capacity, periods, blackouts), SeatKnows(r, bookings),
           r.pc = "seat" => ~RowLocked(r.booking)
    PROVE  Inv'
BY BecomeKnowing DEF Inv, TypeOK

\* The timetable changes under the requests.
LEMMA SeenKnowing ==
    ASSUME Inv, Seen(periods', blackouts'), Change, UNCHANGED capacity,
           periods' \in [Periods -> PeriodRows \cup {NULL}], blackouts' \subseteq Days
    PROVE  Inv'
<1>1. ASSUME NEW p \in Requests
      PROVE  /\ req'[p] \in Request
             /\ req'[p].pc = req[p].pc /\ req'[p].booking = req[p].booking
             /\ HoldKnows(req'[p], capacity, periods', blackouts')
             /\ SeatKnows(req'[p], bookings)
  <2>1. req[p] \in Request /\ HoldKnows(req[p], capacity, periods, blackouts)
        /\ SeatKnows(req[p], bookings)
    BY DEF Inv, TypeOK, Knowing
  <2>2. CASE req[p].window = NULL
    <3>1. req'[p] = req[p]
      BY <2>2 DEF Seen
    <3>2. QED
      BY <2>1, <2>2, <3>1 DEF HoldKnows
  <2>3. CASE req[p].window # NULL
    <3> DEFINE d == req[p].dateOk \/ DateOpen(blackouts', req[p].window)
               t == req[p].timeOk \/ TimeOpen(periods', req[p].window)
    <3>1. d \in BOOLEAN /\ t \in BOOLEAN
      BY <2>1 DEF Request
    <3>2. req'[p] = [req[p] EXCEPT !.dateOk = d, !.timeOk = t]
      BY <2>3 DEF Seen
    <3> HIDE DEF d, t
    <3>3. /\ req'[p] \in Request
          /\ req'[p].pc = req[p].pc /\ req'[p].booking = req[p].booking
          /\ req'[p].learner = req[p].learner
          /\ req'[p].room = req[p].room /\ req'[p].window = req[p].window
          /\ req'[p].party = req[p].party /\ req'[p].inside = req[p].inside
          /\ req'[p].dateOk = d /\ req'[p].timeOk = t
      BY <2>1, <3>1, <3>2 DEF Request
    <3>4. SeatKnows(req'[p], bookings)
      BY <2>1, <3>3 DEF SeatKnows
    <3>5. /\ DateOpen(blackouts', req'[p].window) => req'[p].dateOk
          /\ TimeOpen(periods', req'[p].window) => req'[p].timeOk
          /\ req[p].dateOk => req'[p].dateOk
          /\ req[p].timeOk => req'[p].timeOk
      BY <3>3 DEF d, t
    <3>6. HoldKnows(req'[p], capacity, periods', blackouts')
      BY <2>1, <3>3, <3>5 DEF HoldKnows
    <3>7. QED
      BY <3>3, <3>4, <3>6
  <2>4. QED
    BY <2>2, <2>3
<1>2. req' \in [Requests -> Request]
  BY <1>1 DEF Seen
<1>3. bookings' = bookings /\ reserved' = reserved /\ arrived' = arrived /\ changes' \in Nat
  BY DEF Change, Inv, TypeOK
<1>4. TypeOK'
  BY <1>2, <1>3 DEF Inv, TypeOK
<1>5. Knowing' /\ OneSeat'
  BY <1>1, <1>3 DEF Inv, Knowing, OneSeat
<1>6. Unreserved' /\ SeatsCounted'
  BY <1>3 DEF Inv, Unreserved, SeatsCounted
<1>7. QED
  BY <1>4, <1>5, <1>6 DEF Inv

-----------------------------------------------------------------------------
(* Administration.                                                         *)

\* A room whose row no hold has locked gets a capacity.
LEMMA CapacityKnowing ==
    ASSUME Inv, NEW r \in Rooms, NEW c \in Capacities, ValidCapacity(c), ~RoomLocked(r), Change,
           capacity' = [capacity EXCEPT ![r] = c], UNCHANGED <<periods, blackouts, req>>
    PROVE  Inv'
<1>1. c \in Nat \ {0} /\ bookings' = bookings /\ reserved' = reserved /\ arrived' = arrived
      /\ changes' \in Nat
  BY TimetableAssumption DEF ValidCapacity, Change, Inv, TypeOK
<1>2. TypeOK'
  BY <1>1 DEF Inv, TypeOK
<1>3. ASSUME NEW p \in Requests
      PROVE  HoldKnows(req[p], capacity', periods, blackouts)
  <2>1. HoldKnows(req[p], capacity, periods, blackouts)
    BY DEF Inv, Knowing
  <2>2. req[p].pc \in Locked => req[p].room # r
    BY DEF RoomLocked, Locked
  <2>3. req[p].pc \in Locked => capacity'[req[p].room] = capacity[req[p].room]
    BY <2>1, <2>2 DEF HoldKnows, Holding, Inv, TypeOK
  <2>4. QED
    BY <2>1, <2>3 DEF HoldKnows
<1>4. Knowing'
  BY <1>1, <1>3 DEF Inv, Knowing
<1>5. OneSeat' /\ Unreserved' /\ SeatsCounted'
  BY <1>1 DEF Inv, OneSeat, Unreserved, SeatsCounted
<1>6. QED
  BY <1>2, <1>4, <1>5 DEF Inv

\* Nobody has locked a room that does not exist.
LEMMA CreateRoomKnowing ==
    ASSUME Inv, NEW r \in Rooms, capacity[r] = NULL
    PROVE  ~RoomLocked(r)
BY DEF RoomLocked, Inv, Knowing, HoldKnows, Locked

LEMMA AdministerKnowing == Inv /\ Administer => Inv'
<1> SUFFICES ASSUME Inv, Administer PROVE Inv'
  OBVIOUS
<1>1. ASSUME NEW r \in Rooms, NEW c \in Capacities, CreateRoom(r, c) PROVE Inv'
  BY <1>1, CreateRoomKnowing, CapacityKnowing DEF CreateRoom
<1>2. ASSUME NEW r \in Rooms, NEW c \in Capacities, UpdateRoom(r, c) PROVE Inv'
  BY <1>2, CapacityKnowing DEF UpdateRoom
<1>3. ASSUME NEW i \in Periods, NEW row \in PeriodRows \cup {NULL}, SetPeriod(i, row) PROVE Inv'
  <2>1. periods' \in [Periods -> PeriodRows \cup {NULL}] /\ blackouts' \subseteq Days
    BY <1>3 DEF SetPeriod, Inv, TypeOK
  <2>2. Seen(periods', blackouts')
    BY <1>3 DEF SetPeriod
  <2>3. QED
    BY <1>3, <2>1, <2>2, SeenKnowing DEF SetPeriod
<1>4. ASSUME NEW B \in SUBSET Days, SetBlackouts(B) PROVE Inv'
  <2>1. periods' \in [Periods -> PeriodRows \cup {NULL}] /\ blackouts' \subseteq Days
    BY <1>4 DEF SetBlackouts, Inv, TypeOK
  <2>2. Seen(periods', blackouts')
    BY <1>4 DEF SetBlackouts
  <2>3. QED
    BY <1>4, <2>1, <2>2, SeenKnowing DEF SetBlackouts
<1>5. ASSUME NEW d \in Days PROVE blackouts \cup {d} \in SUBSET Days /\ blackouts \ {d} \in SUBSET Days
  BY DEF Inv, TypeOK
<1>6. QED
  BY <1>1, <1>2, <1>3, <1>4, <1>5
     DEF Administer, CreateClassPeriod, UpdateClassPeriod, DeleteClassPeriod,
         CreateBlackoutDate, DeleteBlackoutDate

-----------------------------------------------------------------------------
(* Holds.                                                                  *)

LEMMA BeginHoldKnowing ==
    ASSUME Inv, NEW p \in Requests, BeginHold(p)
    PROVE  Inv'
<1>1. PICK r \in Rooms, w \in Windows, s \in Seats, n \in Parties :
          Become(p, [Idle EXCEPT !.pc = "room", !.room = r, !.window = w, !.seats = s,
                                 !.party = n, !.dateOk = DateOpen(blackouts, w),
                                 !.timeOk = TimeOpen(periods, w)])
  BY DEF BeginHold
<1> DEFINE d == DateOpen(blackouts, w)
           t == TimeOpen(periods, w)
           n0 == [Idle EXCEPT !.pc = "room", !.room = r, !.window = w, !.seats = s,
                              !.party = n, !.dateOk = d, !.timeOk = t]
<1>2. d \in BOOLEAN /\ t \in BOOLEAN
  BY DEF DateOpen, TimeOpen
<1>3. /\ n0 \in Request /\ n0.pc = "room" /\ n0.room = r /\ n0.window = w
      /\ n0.dateOk = d /\ n0.timeOk = t
  <2> HIDE DEF d, t
  <2> QED
    BY <1>2, TimetableAssumption DEF Idle, Request, PC
<1>4. Become(p, n0)
  BY <1>1
<1> HIDE DEF n0
<1>5. HoldKnows(n0, capacity, periods, blackouts) /\ SeatKnows(n0, bookings)
  BY <1>3 DEF HoldKnows, SeatKnows, Locked
<1>6. /\ UNCHANGED <<capacity, periods, blackouts, bookings, reserved, changes>>
      /\ arrived' \in Nat
  BY DEF BeginHold, Arrive, Inv, TypeOK
<1>7. QED
  BY <1>3, <1>4, <1>5, <1>6, GoesOn

\* A hold that goes on to its next statement keeps what it read.
LEMMA StepFields ==
    ASSUME NEW r \in Request, NEW pc \in PC
    PROVE  LET n == [r EXCEPT !.pc = pc] IN
           /\ n \in Request /\ n.pc = pc /\ n.room = r.room /\ n.window = r.window
           /\ n.party = r.party /\ n.inside = r.inside /\ n.dateOk = r.dateOk
           /\ n.timeOk = r.timeOk /\ n.booking = r.booking /\ n.learner = r.learner
BY DEF Request

LEMMA HoldStepKnowing ==
    ASSUME Inv, NEW p \in Requests, NEW pc \in {"date", "period", "insert"}, Step(p, pc),
           UNCHANGED <<capacity, periods, blackouts, bookings, reserved, arrived, changes>>,
           req[p].pc \in Holding,
           capacity[req[p].room] # NULL /\ req[p].party <= capacity[req[p].room],
           pc \in {"period", "insert"} => req[p].dateOk,
           pc = "insert" /\ Plain(req[p].window) => req[p].timeOk
    PROVE  Inv'
<1> DEFINE n == [req[p] EXCEPT !.pc = pc]
<1>1. req[p] \in Request /\ HoldKnows(req[p], capacity, periods, blackouts)
  BY DEF Inv, TypeOK, Knowing
<1>2. /\ n \in Request /\ n.pc = pc /\ n.room = req[p].room /\ n.window = req[p].window
      /\ n.party = req[p].party /\ n.inside = req[p].inside /\ n.dateOk = req[p].dateOk
      /\ n.timeOk = req[p].timeOk
  <2>1. pc \in PC
    BY DEF PC
  <2>2. QED
    BY <1>1, <2>1, StepFields
<1>3. Become(p, n)
  BY DEF Step
<1> HIDE DEF n
<1>4. HoldKnows(n, capacity, periods, blackouts) /\ SeatKnows(n, bookings)
  BY <1>1, <1>2 DEF HoldKnows, SeatKnows, Holding
<1>5. arrived' \in Nat
  BY DEF Inv, TypeOK
<1>6. QED
  BY <1>2, <1>3, <1>4, <1>5, GoesOn

LEMMA LockRoomKnowing ==
    ASSUME Inv, NEW p \in Requests, LockRoom(p)
    PROVE  Inv'
<1>1. CASE Finish(p)
  BY <1>1, FinishKnowing DEF LockRoom
<1>2. CASE ~Finish(p)
  <2>1. req[p] \in Request /\ HoldKnows(req[p], capacity, periods, blackouts)
    BY DEF Inv, TypeOK, Knowing
  <2>2. req[p].room \in Rooms /\ capacity[req[p].room] # NULL /\ Step(p, "date")
        /\ ~(capacity[req[p].room] > 0 /\ req[p].party > capacity[req[p].room])
    BY <1>2, <2>1 DEF LockRoom, HoldKnows, Holding
  <2>3. capacity[req[p].room] \in Nat \ {0} /\ req[p].party \in Nat
    BY <2>1, <2>2 DEF Inv, TypeOK, Request
  <2>4. req[p].party <= capacity[req[p].room]
    BY <2>2, <2>3
  <2>5. QED
    BY <2>2, <2>4, HoldStepKnowing DEF LockRoom, Holding
<1>3. QED
  BY <1>1, <1>2

LEMMA CheckBlackoutsKnowing ==
    ASSUME Inv, NEW p \in Requests, CheckBlackouts(p)
    PROVE  Inv'
<1>1. CASE DateOpen(blackouts, req[p].window)
  <2>1. HoldKnows(req[p], capacity, periods, blackouts) /\ req[p].pc = "date"
    BY DEF Inv, Knowing, CheckBlackouts
  <2>2. req[p].window # NULL
    BY <2>1, TimetableAssumption DEF HoldKnows, Holding, Locked
  <2>3. req[p].dateOk /\ capacity[req[p].room] # NULL /\ req[p].party <= capacity[req[p].room]
    BY <1>1, <2>1, <2>2 DEF HoldKnows, Locked
  <2>4. QED
    BY <1>1, <2>1, <2>3, HoldStepKnowing DEF CheckBlackouts, Holding, Locked
<1>2. CASE ~DateOpen(blackouts, req[p].window)
  BY <1>2, FinishKnowing DEF CheckBlackouts
<1>3. QED
  BY <1>1, <1>2

\* The comparison of times of the day finds a plain window inside a period only
\* if it is, and then the window is open at this moment.
LEMMA CheckPeriodsKnowing ==
    ASSUME Inv, NEW p \in Requests, CheckPeriods(p)
    PROVE  Inv'
<1> DEFINE i == \E row \in Configured(periods) : Contains(row, req[p].window)
           n == [req[p] EXCEPT !.pc = "count", !.inside = i]
<1>1. req[p] \in Request /\ HoldKnows(req[p], capacity, periods, blackouts)
      /\ req[p].pc = "period"
  BY DEF Inv, TypeOK, Knowing, CheckPeriods
<1>2. i \in BOOLEAN /\ Become(p, n)
  BY DEF CheckPeriods
<1>3. /\ n \in Request /\ n.pc = "count" /\ n.room = req[p].room /\ n.window = req[p].window
      /\ n.party = req[p].party /\ n.inside = i /\ n.dateOk = req[p].dateOk
      /\ n.timeOk = req[p].timeOk
  <2> HIDE DEF i
  <2> QED
    BY <1>1, <1>2 DEF Request, PC
<1>4. req[p].window \in Windows /\ req[p].window # NULL
  BY <1>1, TimetableAssumption DEF HoldKnows, Holding, Locked
<1>5. ASSUME i, Plain(req[p].window) PROVE req[p].timeOk
  <2>1. PICK row \in Configured(periods) : Contains(row, req[p].window)
    BY <1>5
  <2>2. Covers(row, req[p].window)
    BY <1>4, <1>5, <2>1, ContainsCovers, ConfiguredRows DEF Inv
  <2>3. TimeOpen(periods, req[p].window)
    BY <2>1, <2>2 DEF TimeOpen
  <2>4. QED
    BY <1>1, <1>4, <2>3 DEF HoldKnows
<1> HIDE DEF i, n
<1>6. HoldKnows(n, capacity, periods, blackouts) /\ SeatKnows(n, bookings)
  BY <1>1, <1>3, <1>5 DEF HoldKnows, SeatKnows, Holding, Locked
<1>7. /\ UNCHANGED <<capacity, periods, blackouts, bookings, reserved, changes>>
      /\ arrived' \in Nat
  BY DEF CheckPeriods, Inv, TypeOK
<1>8. QED
  BY <1>2, <1>3, <1>6, <1>7, GoesOn

\* A hold goes on because it was inside a period, or because there is none now.
LEMMA CountPeriodsKnowing ==
    ASSUME Inv, NEW p \in Requests, CountPeriods(p)
    PROVE  Inv'
<1>1. CASE Configured(periods) # {} /\ ~req[p].inside
  BY <1>1, FinishKnowing DEF CountPeriods
<1>2. CASE ~(Configured(periods) # {} /\ ~req[p].inside)
  <2>1. HoldKnows(req[p], capacity, periods, blackouts) /\ req[p].pc = "count"
    BY DEF Inv, Knowing, CountPeriods
  <2>2. req[p].window # NULL
    BY <2>1, TimetableAssumption DEF HoldKnows, Holding, Locked
  <2>3. Configured(periods) = {} => TimeOpen(periods, req[p].window)
    BY DEF TimeOpen
  <2>4. Plain(req[p].window) => req[p].timeOk
    BY <1>2, <2>1, <2>2, <2>3 DEF HoldKnows
  <2>5. /\ capacity[req[p].room] # NULL /\ req[p].party <= capacity[req[p].room]
        /\ req[p].dateOk
    BY <2>1 DEF HoldKnows, Locked
  <2>6. QED
    BY <1>2, <2>1, <2>4, <2>5, HoldStepKnowing DEF CountPeriods, Holding, Locked
<1>3. QED
  BY <1>1, <1>2

\* A new booking: nobody holds its row, and it has no reservations.
LEMMA InsertHoldKnowing ==
    ASSUME Inv, NEW p \in Requests, InsertHold(p)
    PROVE  Inv'
<1> DEFINE row == [room |-> req[p].room, window |-> req[p].window, seats |-> req[p].seats,
                   attendees |-> req[p].party, party |-> req[p].party, status |-> "held"]
<1>1. PICK b \in Bookings : bookings[b] = NULL /\ bookings' = [bookings EXCEPT ![b] = row]
  BY DEF InsertHold
<1>2. /\ req[p] \in Request /\ HoldKnows(req[p], capacity, periods, blackouts)
      /\ req[p].pc = "insert"
  BY DEF Inv, TypeOK, Knowing, InsertHold
<1>3. row \in BookingRow /\ row.party = row.attendees /\ row.party \in Nat /\ row.seats \in Nat
  BY <1>2 DEF HoldKnows, Holding, Locked, Request, BookingRow, Statuses
<1> HIDE DEF row
<1>4. /\ bookings' \in [Bookings -> BookingRow \cup {NULL}] /\ bookings'[b] = row
      /\ \A c \in Bookings \ {b} : bookings'[c] = bookings[c]
  BY <1>1, <1>3 DEF Inv, TypeOK
<1>5. /\ req' = [req EXCEPT ![p] = Idle]
      /\ UNCHANGED <<capacity, periods, blackouts, reserved, arrived, changes>>
  BY DEF InsertHold, Finish, Become
<1>6. TypeOK'
  BY <1>4, <1>5, IdleKnows DEF Inv, TypeOK
<1>7. ASSUME NEW q \in Requests
      PROVE  /\ HoldKnows(req'[q], capacity, periods, blackouts)
             /\ SeatKnows(req'[q], bookings')
  <2>1. CASE q = p
    BY <2>1, <1>5, IdleKnows DEF Inv, TypeOK
  <2>2. CASE q # p
    <3>1. /\ req'[q] = req[q] /\ HoldKnows(req[q], capacity, periods, blackouts)
          /\ SeatKnows(req[q], bookings)
      BY <2>2, <1>5 DEF Inv, TypeOK, Knowing
    <3>2. SeatKnows(req[q], bookings')
      BY <3>1, <1>1, <1>4 DEF SeatKnows
    <3>3. QED
      BY <3>1, <3>2
  <2>3. QED
    BY <2>1, <2>2
<1>8. Knowing'
  BY <1>5, <1>7 DEF Knowing
<1>9. OneSeat'
  BY <1>5 DEF Inv, TypeOK, OneSeat, Idle
<1>10. Unreserved'
  BY <1>1, <1>4, <1>5 DEF Inv, Unreserved
<1>11. SeatsCounted'
  <2>1. reserved[b] = {}
    BY <1>1 DEF Inv, Unreserved
  <2>2. Cardinality(reserved[b]) = 0
    BY <2>1, FS_EmptySet
  <2>3. QED
    BY <1>3, <1>4, <1>5, <2>2 DEF Inv, SeatsCounted
<1>12. QED
  BY <1>6, <1>8, <1>9, <1>10, <1>11 DEF Inv

-----------------------------------------------------------------------------
(* Seats.                                                                  *)

LEMMA SetStatusKnowing ==
    ASSUME Inv, NEW b \in Bookings, NEW from, NEW to \in Statuses, SetStatus(b, from, to)
    PROVE  Inv'
<1> DEFINE row == [bookings[b] EXCEPT !.status = to]
<1>1. bookings[b] \in BookingRow
  BY DEF SetStatus, Inv, TypeOK
<1>2. /\ row \in BookingRow /\ row.party = bookings[b].party /\ row.seats = bookings[b].seats
      /\ row.attendees = bookings[b].attendees
  BY <1>1 DEF BookingRow
<1>3. /\ bookings' = [bookings EXCEPT ![b] = row] /\ ~RowLocked(b) /\ bookings[b] # NULL
      /\ UNCHANGED <<capacity, periods, blackouts, reserved, req, arrived, changes>>
  BY DEF SetStatus
<1> HIDE DEF row
<1>4. /\ row # NULL /\ bookings'[b] = row
      /\ bookings' \in [Bookings -> BookingRow \cup {NULL}]
      /\ \A c \in Bookings \ {b} : bookings'[c] = bookings[c]
  BY <1>2, <1>3, NullAssumption DEF Inv, TypeOK
<1>5. TypeOK'
  BY <1>3, <1>4 DEF Inv, TypeOK
<1>6. ASSUME NEW q \in Requests PROVE SeatKnows(req[q], bookings')
  <2>1. SeatKnows(req[q], bookings)
    BY DEF Inv, Knowing
  <2>2. req[q].pc = "seat" => req[q].booking # b
    BY <1>3 DEF RowLocked
  <2>3. QED
    BY <2>1, <2>2, <1>4 DEF SeatKnows
<1>7. Knowing'
  BY <1>3, <1>6 DEF Inv, Knowing
<1>8. OneSeat' /\ Unreserved'
  BY <1>3, <1>4 DEF Inv, OneSeat, Unreserved
<1>9. SeatsCounted'
  BY <1>2, <1>3, <1>4 DEF Inv, SeatsCounted
<1>10. QED
  BY <1>5, <1>7, <1>8, <1>9 DEF Inv

LEMMA BeginReserveKnowing ==
    ASSUME Inv, NEW p \in Requests, BeginReserve(p)
    PROVE  Inv'
<1>1. PICK b \in Bookings, l \in Learners :
          /\ bookings[b] # NULL
          /\ Become(p, [Idle EXCEPT !.pc = "booking", !.booking = b, !.learner = l])
  BY DEF BeginReserve
<1> DEFINE n == [Idle EXCEPT !.pc = "booking", !.booking = b, !.learner = l]
<1>2. /\ n \in Request /\ n.pc = "booking" /\ n.booking = b /\ n.learner = l
      /\ n.window = NULL
  BY TimetableAssumption DEF Idle, Request, PC
<1>3. Become(p, n)
  BY <1>1
<1> HIDE DEF n
<1>4. HoldKnows(n, capacity, periods, blackouts) /\ SeatKnows(n, bookings)
  BY <1>1, <1>2 DEF HoldKnows, SeatKnows, Holding, Locked
<1>5. /\ UNCHANGED <<capacity, periods, blackouts, bookings, reserved, changes>>
      /\ arrived' \in Nat
  BY DEF BeginReserve, Arrive, Inv, TypeOK
<1>6. QED
  BY <1>2, <1>3, <1>4, <1>5, GoesOn

LEMMA LockBookingKnowing ==
    ASSUME Inv, NEW p \in Requests, LockBooking(p)
    PROVE  Inv'
<1>1. CASE Open(bookings[req[p].booking])
  <2> DEFINE n == [req[p] EXCEPT !.pc = "seat"]
  <2>1. req[p] \in Request /\ HoldKnows(req[p], capacity, periods, blackouts)
        /\ SeatKnows(req[p], bookings) /\ req[p].pc = "booking"
        /\ ~RowLocked(req[p].booking)
    BY DEF Inv, TypeOK, Knowing, LockBooking
  <2>2. "seat" \in PC
    BY DEF PC
  <2>3. /\ n \in Request /\ n.pc = "seat" /\ n.room = req[p].room /\ n.window = req[p].window
        /\ n.party = req[p].party /\ n.inside = req[p].inside /\ n.dateOk = req[p].dateOk
        /\ n.timeOk = req[p].timeOk /\ n.booking = req[p].booking
        /\ n.learner = req[p].learner
    BY <2>1, <2>2, StepFields
  <2>4. Become(p, n)
    BY <1>1 DEF LockBooking, Step
  <2> HIDE DEF n
  <2>5. HoldKnows(n, capacity, periods, blackouts) /\ SeatKnows(n, bookings)
    BY <1>1, <2>1, <2>3 DEF HoldKnows, SeatKnows, Holding, Locked
  <2>6. /\ UNCHANGED <<capacity, periods, blackouts, bookings, reserved, changes>>
        /\ arrived' \in Nat
    BY DEF LockBooking, Inv, TypeOK
  <2>7. QED
    BY <2>1, <2>3, <2>4, <2>5, <2>6, GoesOn
<1>2. CASE ~Open(bookings[req[p].booking])
  BY <1>2, FinishKnowing DEF LockBooking
<1>3. QED
  BY <1>1, <1>2

\* One more reservation at most, and exactly one more attendee.
LEMMA TakeSeatKnowing ==
    ASSUME Inv, NEW p \in Requests, TakeSeat(p)
    PROVE  Inv'
<1> DEFINE b == req[p].booking
           old == bookings[b]
           row == [old EXCEPT !.attendees = @ + 1]
<1>1. /\ req[p] \in Request /\ SeatKnows(req[p], bookings) /\ req[p].pc = "seat"
  BY DEF Inv, TypeOK, Knowing, TakeSeat
<1>2. b \in Bookings /\ req[p].learner \in Learners /\ old # NULL /\ Open(old)
  BY <1>1 DEF SeatKnows
<1>3. old \in BookingRow
  BY <1>2 DEF Inv, TypeOK
<1>4. /\ bookings' = [bookings EXCEPT ![b] = row]
      /\ reserved' = [reserved EXCEPT ![b] = @ \cup {req[p].learner}]
      /\ req' = [req EXCEPT ![p] = Idle]
      /\ UNCHANGED <<capacity, periods, blackouts, arrived, changes>>
  BY DEF TakeSeat, Finish, Become
<1>5. /\ old.attendees \in Nat /\ old.party \in Nat /\ old.seats \in Nat
      /\ row \in BookingRow /\ row.party = old.party /\ row.seats = old.seats
      /\ row.attendees = old.attendees + 1
  BY <1>3 DEF BookingRow
<1> HIDE DEF row
<1>6. /\ row # NULL /\ bookings'[b] = row
      /\ bookings' \in [Bookings -> BookingRow \cup {NULL}]
      /\ \A c \in Bookings \ {b} : bookings'[c] = bookings[c]
  BY <1>2, <1>4, <1>5, NullAssumption DEF Inv, TypeOK
<1>7. /\ reserved' \in [Bookings -> SUBSET Learners]
      /\ reserved'[b] = reserved[b] \cup {req[p].learner}
      /\ \A c \in Bookings \ {b} : reserved'[c] = reserved[c]
  BY <1>2, <1>4 DEF Inv, TypeOK
<1>8. TypeOK'
  BY <1>4, <1>6, <1>7, IdleKnows DEF Inv, TypeOK
<1>9. ASSUME NEW q \in Requests
      PROVE  /\ HoldKnows(req'[q], capacity, periods, blackouts)
             /\ SeatKnows(req'[q], bookings')
  <2>1. CASE q = p
    BY <2>1, <1>4, IdleKnows DEF Inv, TypeOK
  <2>2. CASE q # p
    <3>1. /\ req'[q] = req[q] /\ HoldKnows(req[q], capacity, periods, blackouts)
          /\ SeatKnows(req[q], bookings)
      BY <2>2, <1>4 DEF Inv, TypeOK, Knowing
    <3>2. req[q].pc = "seat" => req[q].booking # b
      BY <2>2, <1>1 DEF Inv, OneSeat
    <3>3. SeatKnows(req[q], bookings')
      BY <3>1, <3>2, <1>6 DEF SeatKnows
    <3>4. QED
      BY <3>1, <3>3
  <2>3. QED
    BY <2>1, <2>2
<1>10. Knowing'
  BY <1>4, <1>9 DEF Knowing
<1>11. OneSeat'
  BY <1>4 DEF Inv, TypeOK, OneSeat, Idle
<1>12. Unreserved'
  BY <1>6, <1>7 DEF Inv, Unreserved
<1>13. SeatsCounted'
  <2>1. IsFiniteSet(reserved[b])
    BY <1>2, FS_Subset, TimetableAssumption DEF Inv, TypeOK
  <2>2. /\ Cardinality(reserved[b]) \in Nat /\ Cardinality(reserved'[b]) \in Nat
        /\ Cardinality(reserved'[b]) <= Cardinality(reserved[b]) + 1
    <3> DEFINE S == reserved[b]
               T == S \cup {req[p].learner}
    <3>1. IsFiniteSet(T) /\ Cardinality(T) \in {Cardinality(S), Cardinality(S) + 1}
      BY <2>1, FS_AddElement
    <3>2. Cardinality(S) \in Nat
      BY <2>1, FS_CardinalityType
    <3>3. reserved'[b] = T
      BY <1>7
    <3> HIDE DEF S, T
    <3>4. Cardinality(T) \in Nat /\ Cardinality(T) <= Cardinality(S) + 1
      BY <3>1, <3>2
    <3>5. QED
      BY <3>2, <3>3, <3>4 DEF S
  <2>3. /\ old.party + Cardinality(reserved[b]) <= old.attendees
        /\ old.attendees < old.seats
    BY <1>2 DEF Inv, SeatsCounted, Open
  <2>4. /\ row.party + Cardinality(reserved'[b]) <= row.attendees
        /\ row.attendees <= IF row.party > row.seats THEN row.party ELSE row.seats
    BY <1>5, <2>2, <2>3
  <2>5. QED
    BY <1>6, <1>7, <2>4 DEF Inv, SeatsCounted
<1>14. QED
  BY <1>8, <1>10, <1>11, <1>12, <1>13 DEF Inv

-----------------------------------------------------------------------------
(* The theorems.                                                           *)

LEMMA InitKnowing == Init => Inv
<1> SUFFICES ASSUME Init PROVE Inv
  OBVIOUS
<1>1. TypeOK
  BY IdleKnows DEF Init, TypeOK
<1>2. Knowing /\ OneSeat /\ Unreserved /\ SeatsCounted
  BY IdleKnows DEF Init, Knowing, OneSeat, Unreserved, SeatsCounted, Idle
<1>3. QED
  BY <1>1, <1>2 DEF Inv

LEMMA NextKnowing == Inv /\ [Next]_vars => Inv'
<1> SUFFICES ASSUME Inv, [Next]_vars PROVE Inv'
  OBVIOUS
<1>1. CASE Administer
  BY <1>1, AdministerKnowing
<1>2. ASSUME NEW p \in Requests, Hold(p) PROVE Inv'
  BY <1>2, BeginHoldKnowing, LockRoomKnowing, CheckBlackoutsKnowing, CheckPeriodsKnowing,
     CountPeriodsKnowing, InsertHoldKnowing DEF Hold
<1>3. ASSUME NEW p \in Requests, Reserve(p) PROVE Inv'
  BY <1>3, BeginReserveKnowing, LockBookingKnowing, TakeSeatKnowing DEF Reserve
<1>4. ASSUME NEW p \in Requests, Refuse(p) PROVE Inv'
  BY <1>4, FinishKnowing DEF Refuse
<1>5. ASSUME NEW b \in Bookings, Confirm(b) \/ Expire(b) \/ CheckIn(b) \/ Cancel(b) PROVE Inv'
  BY <1>5, SetStatusKnowing DEF Confirm, Expire, CheckIn, Cancel, Statuses
<1>6. CASE UNCHANGED vars
  <2>1. /\ TypeOK' = TypeOK /\ Knowing' = Knowing /\ OneSeat' = OneSeat
        /\ Unreserved' = Unreserved /\ SeatsCounted' = SeatsCounted
    BY <1>6 DEF vars, TypeOK, Knowing, OneSeat, Unreserved, SeatsCounted
  <2>2. QED
    BY <2>1 DEF Inv
<1>7. QED
  BY <1>1, <1>2, <1>3, <1>4, <1>5, <1>6 DEF Next

LEMMA Invariant == Spec => []Inv
BY InitKnowing, NextKnowing, PTL DEF Spec

\* The tables and requests of Timetable keep their types; a room that exists
\* has room for somebody.
THEOREM TypeCorrect == Spec => []TypeOK
<1>1. Inv => TypeOK
  BY DEF Inv
<1>2. QED
  BY <1>1, Invariant, PTL

\* However administrators change rooms while detectBookingConflictsTx runs, the
\* hold it lets through fits its room at the moment of the INSERT.
THEOREM HoldsFit == Spec => []HoldFitsRoom
<1>1. Inv => HoldFitsRoom
  BY DEF Inv, Knowing, HoldKnows, HoldFitsRoom, Locked
<1>2. QED
  BY <1>1, Invariant, PTL

\* However class periods and blackout dates change between the statements of a
\* hold, its date and, if it ends on the day it starts and that day is the same
\* weekday for the client and for the database, its time were allowed at some
\* moment since it arrived: the two statements about periods cannot be played off
\* against each other. For other windows the code promises less.
THEOREM HoldsJustified == Spec => []HoldJustified
<1>1. Inv => HoldJustified
  BY DEF Inv, Knowing, HoldKnows, HoldJustified, Plain
<1>2. QED
  BY <1>1, Invariant, PTL

\* CheckConflicts warns of no window of one day, written in UTC as the web client
\* does, that a hold finds on an open date within a period, whatever is configured
\* and whatever the zone of the database.
THEOREM PrecheckSound == Spec => []PrecheckAgrees
<1>1. Inv => PrecheckAgrees
  <2> SUFFICES ASSUME Inv, NEW w \in Windows, w = UTC(w), w.start < w.end, OneDay(w),
                      DateOpen(blackouts, w),
                      NEW row \in Configured(periods), Contains(row, w)
               PROVE  ~PrecheckConflict(w)
    BY DEF PrecheckAgrees
  <2>1. Overlaps(row, w)
    BY ContainsOverlaps, ConfiguredRows DEF Inv
  <2>2. QED
    BY <2>1 DEF PrecheckConflict
<1>2. QED
  BY <1>1, Invariant, PTL

\* ReserveLearnerSeat never oversells a booking and never drops a learner from
\* the count, however many reservations overlap or are repeated.
THEOREM SeatsRight == Spec => []SeatsCounted
<1>1. Inv => SeatsCounted
  BY DEF Inv
<1>2. QED
  BY <1>1, Invariant, PTL

LEMMA ReservedStep ==
    ASSUME Inv, [Next]_vars, NEW b \in Bookings, reserved'[b] # reserved[b]
    PROVE  bookings[b] # NULL /\ bookings[b].status = "confirmed"
<1>1. \/ UNCHANGED reserved
      \/ \E p \in Requests : TakeSeat(p)
  BY DEF Next, vars, Administer, Hold, Reserve, Refuse, CreateRoom, UpdateRoom,
         CreateClassPeriod, UpdateClassPeriod, DeleteClassPeriod, SetPeriod, SetBlackouts,
         CreateBlackoutDate, DeleteBlackoutDate, Change, BeginHold, LockRoom, CheckBlackouts,
         CheckPeriods, CountPeriods, InsertHold, BeginReserve, LockBooking, Arrive, Confirm,
         Expire, CheckIn, Cancel, SetStatus
<1>2. PICK p \in Requests : TakeSeat(p)
  BY <1>1
<1>3. SeatKnows(req[p], bookings) /\ req[p].pc = "seat"
  BY <1>2 DEF Inv, Knowing, TakeSeat
<1>4. reserved' = [reserved EXCEPT ![req[p].booking] = @ \cup {req[p].learner}]
  BY <1>2 DEF TakeSeat
<1>5. b = req[p].booking
  BY <1>4 DEF Inv, TypeOK
<1>6. QED
  BY <1>3, <1>5 DEF SeatKnows, Open

\* A reservation that found its booking confirmed takes the seat while it still
\* is: cancellation and check-in wait for the row.
THEOREM SeatsConfirmed == Spec => SeatsTakenWhileConfirmed
<1>1. Inv /\ [Next]_vars =>
        [\A b \in Bookings :
            reserved'[b] # reserved[b] => bookings[b] # NULL /\ bookings[b].status = "confirmed"]_vars
  BY ReservedStep
<1>2. QED
  BY <1>1, Invariant, PTL DEF Spec, SeatsTakenWhileConfirmed
=============================================================================
