--------------------------- MODULE CalendarProofs ---------------------------
(***************************************************************************)
(* Bookings implements RoomCalendar, with the lag of a request's           *)
(* time.Now() as the calendar's term of grace; statuses only move forward, *)
(* and the audit log does not contradict the table.                        *)
(***************************************************************************)
EXTENDS RoomProofs, BookingsCalendar

-----------------------------------------------------------------------------
(* The refinement mapping.                                                 *)

LEMMA StateOfIs ==
    /\ \A s \in Live : StateOf(s) = "taken"
    /\ StateOf("none") = "free"
    /\ StateOf("expired") = "lapsed"
    /\ StateOf("cancelled") = "given_up"
    /\ \A s \in Status : StateOf(s) = "taken" => s \in Live
    /\ \A s \in Status : StateOf(s) = "free" => s = "none"
BY DEF StateOf, Live, Status

\* The entry a row maps to.
EntryOf(n) == [state |-> StateOf(n.status), room |-> n.room, win |-> n.win, until |-> n.expires]

LEMMA EntryAt ==
    ASSUME NEW b \in Bookings
    PROVE  /\ entries[b] = EntryOf(bookings[b])
           /\ entries[b].state = StateOf(bookings[b].status)
           /\ entries[b].room = bookings[b].room
           /\ entries[b].win = bookings[b].win
           /\ entries[b].until = bookings[b].expires
BY DEF entries, EntryOf

\* A write of one row is a change of one entry.
LEMMA EntryWritten ==
    ASSUME Typed, NEW b \in Bookings, NEW n, Write(b, n)
    PROVE  entries' = [entries EXCEPT ![b] = EntryOf(n)]
<1>1. bookings \in [Bookings -> Row]
  BY DEF Typed, TypeOK
<1>2. bookings'[b] = n /\ \A c \in Bookings : c # b => bookings'[c] = bookings[c]
  BY <1>1 DEF Write
<1>3. QED
  BY <1>2 DEF entries, EntryOf

\* Steps that leave clock and table alone leave the calendar alone.
LEMMA CalendarStutters ==
    ASSUME clock' = clock, bookings' = bookings
    PROVE  UNCHANGED Calendar!calendar
BY DEF Calendar!calendar, entries

LEMMA InForceOccupies ==
    ASSUME Typed, NEW c \in Bookings, Calendar!InForce(c), ExpiryShape
    PROVE  Occupies(c)
<1>1. bookings[c] \in Row
  BY DEF Typed, TypeOK
<1>2. bookings[c].status \in Live
  BY <1>1, EntryAt, StateOfIs DEF Calendar!InForce, Row
<1>3. CASE bookings[c].status = "held"
  BY <1>3, EntryAt, NullAssumption DEF Calendar!InForce, ExpiryShape, Occupies
<1>4. QED
  BY <1>2, <1>3 DEF Live, Occupies

\* Where a request puts its booking, the calendar is vacant.
LEMMA TakesVacant ==
    ASSUME Typed, ExpiryShape, LagBounded, RoomLocked, ScanComplete,
           NEW q \in Requests, NEW b \in Bookings, Takes(q, b)
    PROVE  Calendar!Vacant(b, bookings'[b].room, bookings'[b].win)
<1> SUFFICES ASSUME NEW c \in Bookings, c # b, Calendar!InForce(c),
                    entries[c].room = bookings'[b].room
             PROVE  ~Calendar!Clash(entries[c].win, bookings'[b].win)
  BY DEF Calendar!Vacant
<1>1. bookings'[c] = bookings[c] /\ clock' = clock
  BY DEF Takes
<1>2. Occupies(c)'
  BY <1>1, InForceOccupies DEF Occupies
<1>3. bookings'[b].room = bookings'[c].room /\ entries[c].win = bookings'[c].win
  BY <1>1, EntryAt
<1>4. ~Overlap(bookings'[c].win, bookings'[b].win)
  BY <1>2, <1>3, TakesFree
<1>5. QED
  BY <1>3, <1>4 DEF Overlap, Calendar!Clash

-----------------------------------------------------------------------------
(* What the worker has collected is still there when its UPDATE commits.   *)

BatchLocked ==
    worker.pc = "lock" =>
        /\ worker.now <= clock
        /\ \A b \in worker.batch : rowLock[b] = Worker /\ Expirable(b, worker.now)

\* These steps end the worker's UPDATE.
LEMMA WorkerLeaves ==
    ASSUME Typed, WorkerCommit \/ WorkerRollback \/ Crash
    PROVE  worker'.pc # "lock"
<1>1. WorkerIdle.pc = "idle"
  BY DEF WorkerIdle
<1>2. [worker EXCEPT !.pc = "audit", !.now = 0].pc = "audit"
  BY DEF Typed, TypeOK, WorkerState
<1>3. QED
  BY <1>1, <1>2 DEF WorkerCommit, WorkerRollback, Crash

\* A hold whose row the worker has locked stays locked and a hold with its
\* deadline: every UPDATE of its status would have to wait.
LEMMA WorkerKeepsRow ==
    ASSUME Typed, [Next]_vars, NEW c \in Bookings,
           rowLock[c] = Worker, bookings[c].status = "held", worker'.pc = "lock"
    PROVE  /\ rowLock'[c] = Worker
           /\ bookings'[c].status = "held"
           /\ bookings'[c].expires = bookings[c].expires
<1> DEFINE Kept == /\ rowLock'[c] = Worker
                   /\ bookings'[c].status = "held"
                   /\ bookings'[c].expires = bookings[c].expires
<1> USE ConstantsAssumption, NullAssumption
<1>t. /\ bookings \in [Bookings -> Row] /\ rowLock \in [Bookings -> Procs \cup {NULL}]
      /\ bookings[c] \in Row
  BY DEF Typed, TypeOK
<1>1. ASSUME NEW q \in Requests PROVE ~Lockable(c, q)
  BY DEF Lockable
<1>2. ASSUME NEW q \in Requests, rowLock' = Unlock(rowLock, q) PROVE rowLock'[c] = Worker
  BY <1>2, <1>t DEF Unlock
<1>3. ASSUME NEW b \in Bookings, NEW n, Write(b, n), b # c PROVE bookings'[c] = bookings[c]
  BY <1>3, <1>t DEF Write
<1>4. ASSUME NEW q \in Requests, CommitHold(q) PROVE Kept
  <2>1. req[q].booking \in Bookings
    BY <1>4, InFlight DEF CommitHold, ScanDone
  <2>2. req[q].booking # c
    BY <1>4 DEF CommitHold
  <2>3. bookings'[c] = bookings[c]
    BY <1>3, <1>4, <2>1, <2>2 DEF CommitHold
  <2>4. QED
    BY <1>2, <1>4, <2>3 DEF CommitHold, Release
<1>5. ASSUME NEW q \in Requests, CommitReschedule(q) PROVE Kept
  <2>1. req[q].booking \in Bookings
    BY <1>5, InFlight DEF CommitReschedule, ScanDone
  <2>2. CASE req[q].booking # c
    <3>1. bookings'[c] = bookings[c]
      BY <1>3, <1>5, <2>1, <2>2 DEF CommitReschedule
    <3>2. QED
      BY <1>2, <1>5, <3>1 DEF CommitReschedule, Release
  <2>3. CASE req[q].booking = c
    <3>1. bookings'[c] = [bookings[c] EXCEPT !.win = req[q].win, !.count = @ + 1]
      BY <1>5, <2>3, <1>t DEF CommitReschedule, Write
    <3>2. bookings'[c].status = bookings[c].status /\ bookings'[c].expires = bookings[c].expires
      BY <3>1, <1>t DEF Row
    <3>3. QED
      BY <1>2, <1>5, <3>2 DEF CommitReschedule, Release
  <2>4. QED
    BY <2>2, <2>3
<1>6. ASSUME NEW q \in Requests, Confirm(q) \/ ConfirmExpire(q) \/ Cancel(q) \/ CheckIn(q)
      PROVE  Kept
  <2>1. req[q].booking \in Bookings
    BY <1>6, InFlight DEF Confirm, ConfirmExpire, Cancel, CheckIn
  <2>2. CASE bookings' = bookings
    BY <1>6, <2>2 DEF Confirm, ConfirmExpire, Cancel, CheckIn
  <2>3. CASE bookings' # bookings
    <3>1. req[q].booking # c
      BY <1>1, <1>6, <2>3 DEF Confirm, ConfirmExpire, Cancel, CheckIn
    <3>2. \E n : Write(req[q].booking, n)
      BY <1>6, <2>3 DEF Confirm, ConfirmExpire, Cancel, CheckIn
    <3>3. bookings'[c] = bookings[c]
      BY <1>3, <2>1, <3>1, <3>2
    <3>4. QED
      BY <1>6, <3>3 DEF Confirm, ConfirmExpire, Cancel, CheckIn
  <2>4. QED
    BY <2>2, <2>3
<1>7. ASSUME NEW q \in Requests, LockRow(q) PROVE Kept
  <2>1. req[q].booking \in Bookings
    BY <1>7, InFlight DEF LockRow
  <2>2. req[q].booking # c
    BY <1>1, <1>7 DEF LockRow
  <2>3. QED
    BY <1>7, <2>1, <2>2, <1>t DEF LockRow
<1>8. ASSUME NEW q \in Requests, LockMatch(q) PROVE Kept
  <2>1. PICK d \in req[q].pending : Lockable(d, q) /\ rowLock' = [rowLock EXCEPT ![d] = q]
    BY <1>8 DEF LockMatch
  <2>2. d # c
    BY <1>1, <2>1
  <2>3. QED
    BY <1>8, <2>1, <2>2, <1>t DEF LockMatch
<1>9. ASSUME NEW q \in Requests, Refuse(q) \/ Rollback(q) PROVE Kept
  BY <1>2, <1>9 DEF Refuse, Rollback, Release
<1>10. CASE WorkerLock
  BY <1>10, <1>t DEF WorkerLock
<1>11. CASE WorkerCommit \/ WorkerRollback \/ Crash
  BY <1>11, WorkerLeaves
<1>12. CASE bookings' = bookings /\ rowLock' = rowLock
  BY <1>12
<1>13. ASSUME NEW q \in Requests, Proceed(q) PROVE Kept
  BY <1>4, <1>5, <1>6, <1>7, <1>8, <1>9, <1>12, <1>13
     DEF Proceed, Call, CheckCancel, CheckReschedule, LockRoom, RecordTransition
<1>14. QED
  BY <1>9, <1>10, <1>11, <1>12, <1>13
     DEF Next, BeginHold, Begin, Abort, DeadlockVictim, WorkerStep, WorkerTick,
         WorkerAudit, WorkerRecord, WorkerFail, WorkerAuditLost, WorkerVictim, Tick, vars

LEMMA WorkerSteps ==
    ASSUME Typed, [Next]_vars, worker'.pc = "lock"
    PROVE  worker' = worker \/ WorkerTick \/ WorkerLock
<1>1. worker \in WorkerState
  BY DEF Typed, TypeOK
<1>2. ~WorkerCommit /\ ~WorkerRollback /\ ~Crash
  BY WorkerLeaves
<1>3. ASSUME NEW b, NEW rows PROVE ~WorkerRecord(b, rows)
  BY <1>1 DEF WorkerRecord, WorkerIdle, WorkerState
<1>4. QED
  BY <1>2, <1>3
     DEF Next, Proceed, BeginHold, Begin, Call, CheckCancel, CheckReschedule, LockRow,
         LockRoom, LockMatch, Refuse, CommitHold, CommitReschedule, Confirm, ConfirmExpire,
         Cancel, CheckIn, RecordTransition, Abort, DeadlockVictim, Rollback, WorkerStep,
         WorkerAudit, WorkerFail, WorkerAuditLost, WorkerVictim, Tick, vars

LEMMA BatchLockedStep ==
    ASSUME Typed, BatchLocked, [Next]_vars
    PROVE  BatchLocked'
<1> SUFFICES ASSUME worker'.pc = "lock"
             PROVE  /\ worker'.now <= clock'
                    /\ \A b \in worker'.batch :
                          rowLock'[b] = Worker /\ Expirable(b, worker.now)'
  BY DEF BatchLocked
<1>1. /\ worker \in WorkerState /\ clock \in Nat /\ clock' \in {clock, clock + 1}
      /\ worker.batch \subseteq Bookings /\ worker.now \in Nat
  BY ClockSteps DEF Tick, Typed, TypeOK, WorkerState
<1>2. ASSUME worker.pc = "lock", worker'.now = worker.now,
             NEW b \in Bookings, rowLock[b] = Worker, Expirable(b, worker.now)
      PROVE  rowLock'[b] = Worker /\ Expirable(b, worker.now)'
  <2>1. /\ rowLock'[b] = Worker /\ bookings'[b].status = "held"
        /\ bookings'[b].expires = bookings[b].expires
    BY <1>2, WorkerKeepsRow DEF Expirable
  <2>2. QED
    BY <1>2, <2>1 DEF Expirable
<1>3. CASE worker' = worker
  BY <1>1, <1>2, <1>3 DEF BatchLocked
<1>4. CASE WorkerTick
  BY <1>1, <1>4 DEF WorkerTick, WorkerIdle
<1>5. CASE WorkerLock
  <2>1. PICK c \in worker.pending :
           /\ rowLock' = [rowLock EXCEPT ![c] = Worker]
           /\ worker' = [worker EXCEPT !.pending = @ \ {c},
                           !.batch = IF Expirable(c, worker.now) THEN @ \cup {c} ELSE @]
    BY <1>5 DEF WorkerLock
  <2>2. c \in Bookings /\ worker'.now = worker.now
        /\ worker'.batch = IF Expirable(c, worker.now) THEN worker.batch \cup {c}
                           ELSE worker.batch
    BY <1>1, <2>1 DEF WorkerState
  <2>3. worker.pc = "lock" /\ bookings' = bookings /\ clock' = clock
    BY <1>5 DEF WorkerLock
  <2>4. rowLock'[c] = Worker
    BY <2>1, <2>2 DEF Typed, TypeOK
  <2>5. ASSUME NEW b \in worker'.batch
        PROVE  rowLock'[b] = Worker /\ Expirable(b, worker.now)'
    <3>1. CASE b \in worker.batch
      BY <1>1, <1>2, <2>2, <2>3, <3>1 DEF BatchLocked
    <3>2. CASE b = c /\ Expirable(c, worker.now)
      BY <2>2, <2>3, <2>4, <3>2 DEF Expirable
    <3>3. QED
      BY <2>2, <2>5, <3>1, <3>2
  <2>6. QED
    BY <2>2, <2>3, <2>5 DEF BatchLocked
<1>6. QED
  BY <1>3, <1>4, <1>5, WorkerSteps

-----------------------------------------------------------------------------
(* Every step is a step of the calendar.                                   *)

\* The commit of CreateHold or Reschedule puts a booking where a request has
\* scanned.
LEMMA CommitTakes ==
    ASSUME Typed, NEW q \in Requests, CommitHold(q) \/ CommitReschedule(q)
    PROVE  req[q].booking \in Bookings /\ Takes(q, req[q].booking)
<1> DEFINE b == req[q].booking
<1>1. b \in Bookings /\ req'[q].pc = "audit" /\ bookings[b] \in Row
  BY InFlight, AtAudit DEF CommitHold, CommitReschedule, ScanDone
<1>2. CASE CommitHold(q)
  <2> DEFINE n == [status |-> "held", room |-> req[q].room, instr |-> req[q].instr,
                   win |-> req[q].win, expires |-> req[q].now + HoldTTL, count |-> 0]
  <2>1. bookings'[b] = n /\ \A d \in Bookings \ {b} : bookings'[d] = bookings[d]
    BY <1>1, <1>2 DEF CommitHold, Write, Typed, TypeOK
  <2>2. QED
    BY <1>1, <1>2, <2>1 DEF CommitHold, Takes
<1>3. CASE CommitReschedule(q)
  <2> DEFINE n == [bookings[b] EXCEPT !.win = req[q].win, !.count = @ + 1]
  <2>1. bookings'[b] = n /\ \A d \in Bookings \ {b} : bookings'[d] = bookings[d]
    BY <1>1, <1>3 DEF CommitReschedule, Write, Typed, TypeOK
  <2>2. /\ bookings'[b].win = req[q].win
        /\ bookings'[b].status = bookings[b].status
        /\ bookings'[b].expires = bookings[b].expires
        /\ bookings'[b].room = bookings[b].room
    BY <1>1, <2>1 DEF Row
  <2>3. QED
    BY <1>1, <1>3, <2>1, <2>2 DEF CommitReschedule, Takes
<1>4. QED
  BY <1>1, <1>2, <1>3

LEMMA HoldMakes ==
    ASSUME IInv, NEW q \in Requests, CommitHold(q)
    PROVE  Calendar!Make(req[q].booking)
<1> DEFINE b == req[q].booking
           r == req[q]
           n == [status |-> "held", room |-> r.room, instr |-> r.instr,
                 win |-> r.win, expires |-> r.now + HoldTTL, count |-> 0]
<1>1. Typed
  BY DEF IInv, Typed
<1>2. b \in Bookings /\ Takes(q, b)
  BY <1>1, CommitTakes
<1>3. r.room \in Rooms /\ r.win \in Windows
  BY <1>1, InFlight DEF CommitHold, ScanDone, Fits
<1>4. r.now + HoldTTL \in 0..(clock + HoldTTL)
  <2>1. r.now \in Nat /\ clock \in Nat /\ HoldTTL \in Nat /\ r.now <= clock
    BY <1>1, ConstantsAssumption
       DEF Typed, TypeOK, Request, IInv, LagBounded, Timed, CommitHold, ScanDone
  <2>2. QED
    BY <2>1
<1>5. entries[b].state = "free"
  BY <1>2, EntryAt, StateOfIs DEF CommitHold
<1>6. /\ entries' = [entries EXCEPT ![b] = [state |-> "taken", room |-> r.room, win |-> r.win,
                                          until |-> r.now + HoldTTL]]
      /\ clock' = clock
  <2>1. Write(b, n) /\ clock' = clock
    BY DEF CommitHold
  <2>2. entries' = [entries EXCEPT ![b] = EntryOf(n)]
    BY <1>1, <1>2, <2>1, EntryWritten
  <2>3. EntryOf(n) = [state |-> "taken", room |-> r.room, win |-> r.win,
                      until |-> r.now + HoldTTL]
    BY StateOfIs DEF EntryOf, Live
  <2>4. QED
    BY <2>1, <2>2, <2>3
<1>7. Calendar!Vacant(b, r.room, r.win)
  <2>1. bookings'[b].room = r.room /\ bookings'[b].win = r.win
    BY <1>2 DEF Takes, CommitHold
  <2>2. QED
    BY <1>1, <1>2, <2>1, TakesVacant DEF IInv
<1>8. QED
  BY <1>3, <1>4, <1>5, <1>6, <1>7 DEF Calendar!Make, Calendar!Set

LEMMA RescheduleMoves ==
    ASSUME IInv, NEW q \in Requests, CommitReschedule(q)
    PROVE  Calendar!Move(req[q].booking)
<1> DEFINE b == req[q].booking
           w == req[q].win
           n == [bookings[b] EXCEPT !.win = w, !.count = @ + 1]
<1>1. Typed
  BY DEF IInv, Typed
<1>2. b \in Bookings /\ Takes(q, b) /\ bookings[b] \in Row
  BY <1>1, CommitTakes DEF Typed, TypeOK
<1>3. w \in Windows /\ bookings[b].status # "none"
  BY <1>1, InFlight DEF CommitReschedule, ScanDone, Fits
<1>4. entries[b].state # "free"
  BY <1>2, <1>3, EntryAt, StateOfIs DEF Row
<1>5. entries' = [entries EXCEPT ![b] = [entries[b] EXCEPT !.win = w]] /\ clock' = clock
  <2>1. Write(b, n) /\ clock' = clock
    BY DEF CommitReschedule
  <2>2. entries' = [entries EXCEPT ![b] = EntryOf(n)]
    BY <1>1, <1>2, <2>1, EntryWritten
  <2>3. /\ n.status = bookings[b].status /\ n.room = bookings[b].room
        /\ n.win = w /\ n.expires = bookings[b].expires
    BY <1>2 DEF Row
  <2>4. EntryOf(n) = [EntryOf(bookings[b]) EXCEPT !.win = w]
    BY <2>3 DEF EntryOf
  <2>5. QED
    BY <1>2, <2>1, <2>2, <2>4, EntryAt
<1>6. Calendar!Vacant(b, entries[b].room, w)
  <2>1. bookings'[b].room = bookings[b].room /\ bookings'[b].win = w
    BY <1>2 DEF Takes, CommitReschedule
  <2>2. QED
    BY <1>1, <1>2, <2>1, EntryAt, TakesVacant DEF IInv
<1>7. QED
  BY <1>3, <1>4, <1>5, <1>6 DEF Calendar!Move, Calendar!Set

\* An UPDATE of the status alone.
LEMMA StatusWritten ==
    ASSUME Typed, NEW b \in Bookings, NEW s \in Status,
           Write(b, [bookings[b] EXCEPT !.status = s])
    PROVE  entries' = [entries EXCEPT ![b] = [entries[b] EXCEPT !.state = StateOf(s)]]
<1> DEFINE n == [bookings[b] EXCEPT !.status = s]
<1>1. entries' = [entries EXCEPT ![b] = EntryOf(n)]
  BY EntryWritten
<1>2. /\ n.status = s /\ n.room = bookings[b].room
      /\ n.win = bookings[b].win /\ n.expires = bookings[b].expires
  BY DEF Typed, TypeOK, Row
<1>3. EntryOf(n) = [EntryOf(bookings[b]) EXCEPT !.state = StateOf(s)]
  BY <1>2 DEF EntryOf
<1>4. QED
  BY <1>1, <1>3, EntryAt

\* A confirmation that takes effect keeps an entry within the term of grace.
LEMMA ConfirmKeeps ==
    ASSUME IInv, NEW q \in Requests, Confirm(q), bookings' # bookings
    PROVE  Calendar!Keep(req[q].booking) /\ req[q].booking \in Bookings
<1> DEFINE b == req[q].booking
           n == [bookings[b] EXCEPT !.status = "confirmed", !.expires = NULL]
<1>1. Typed
  BY DEF IInv, Typed
<1>2. b \in Bookings /\ bookings[b] \in Row /\ req[q].pc = "update"
  BY <1>1, InFlight DEF Confirm
<1>3. Confirmable(b, req[q].now) /\ Write(b, n) /\ clock' = clock
  BY DEF Confirm
<1>4. bookings[b].status = "held" /\ bookings[b].expires \in Nat
  BY <1>2, <1>3 DEF Confirmable, IInv, ExpiryShape
<1>5. clock < bookings[b].expires + MaxLag
  <2>1. bookings[b].expires > req[q].now
    BY <1>3, <1>4, NullAssumption DEF Confirmable
  <2>2. clock - req[q].now <= MaxLag
    BY <1>2 DEF IInv, LagBounded, Timed
  <2>3. req[q].now \in Nat /\ MaxLag \in Nat /\ clock \in Nat
    BY <1>1, ConstantsAssumption DEF Typed, TypeOK, Request
  <2>4. QED
    BY <1>4, <2>1, <2>2, <2>3
<1>6. /\ entries[b].state = "taken" /\ entries[b].until # NULL
      /\ clock < entries[b].until + MaxLag
  BY <1>2, <1>4, <1>5, EntryAt, StateOfIs, NullAssumption DEF Live
<1>7. entries' = [entries EXCEPT ![b] = [entries[b] EXCEPT !.until = NULL]]
  <2>1. entries' = [entries EXCEPT ![b] = EntryOf(n)]
    BY <1>1, <1>2, <1>3, EntryWritten
  <2>2. /\ n.status = "confirmed" /\ n.room = bookings[b].room
        /\ n.win = bookings[b].win /\ n.expires = NULL
    BY <1>2 DEF Row
  <2>3. StateOf(n.status) = StateOf(bookings[b].status)
    BY <1>4, <2>2, StateOfIs DEF Live
  <2>4. EntryOf(n) = [EntryOf(bookings[b]) EXCEPT !.until = NULL]
    BY <2>2, <2>3 DEF EntryOf
  <2>5. QED
    BY <1>2, <2>1, <2>4, EntryAt
<1>8. QED
  BY <1>2, <1>3, <1>6, <1>7 DEF Calendar!Keep, Calendar!Set

LEMMA CancelGivesUp ==
    ASSUME IInv, NEW q \in Requests, Cancel(q)
    PROVE  Calendar!GiveUp(req[q].booking) /\ req[q].booking \in Bookings
<1> DEFINE b == req[q].booking
<1>1. Typed
  BY DEF IInv, Typed
<1>2. b \in Bookings /\ bookings[b] \in Row /\ bookings[b].status # "none"
  BY <1>1, InFlight DEF Cancel, Fits
<1>3. entries[b].state # "free"
  BY <1>2, EntryAt, StateOfIs DEF Row
<1>4. entries' = [entries EXCEPT ![b] = [entries[b] EXCEPT !.state = "given_up"]]
  BY <1>1, <1>2, StatusWritten, StateOfIs DEF Cancel, Status
<1>5. QED
  BY <1>2, <1>3, <1>4 DEF Cancel, Calendar!GiveUp, Calendar!Set

\* Checking in changes nothing in the calendar.
LEMMA CheckInStutters ==
    ASSUME IInv, NEW q \in Requests, CheckIn(q)
    PROVE  entries' = entries /\ clock' = clock
<1> DEFINE b == req[q].booking
<1>1. Typed
  BY DEF IInv, Typed
<1>2. b \in Bookings
  BY <1>1, InFlight DEF CheckIn
<1>3. CASE bookings' = bookings
  BY <1>3 DEF CheckIn, entries
<1>4. CASE bookings' # bookings
  <2>1. bookings[b].status = "confirmed" /\ Write(b, [bookings[b] EXCEPT !.status = "checked_in"])
    BY <1>4 DEF CheckIn
  <2>2. entries' = [entries EXCEPT ![b] = [entries[b] EXCEPT !.state = StateOf("checked_in")]]
    BY <1>1, <1>2, <2>1, StatusWritten DEF Status, Live
  <2>3. StateOf("checked_in") = entries[b].state
    BY <1>2, <2>1, EntryAt, StateOfIs DEF Live
  <2>4. QED
    BY <1>2, <2>2, <2>3 DEF CheckIn, entries
<1>5. QED
  BY <1>3, <1>4

\* The two expiring UPDATEs end holds whose time is over.
LEMMA ConfirmExpireLapses ==
    ASSUME IInv, NEW q \in Requests, ConfirmExpire(q), bookings' # bookings
    PROVE  Calendar!Lapse({req[q].booking}) /\ req[q].booking \in Bookings
<1> DEFINE b == req[q].booking
<1>1. Typed
  BY DEF IInv, Typed
<1>2. b \in Bookings /\ req[q].now <= clock
  BY <1>1, InFlight DEF ConfirmExpire, IInv, LagBounded, Timed
<1>3. /\ Expirable(b, req[q].now) /\ clock' = clock
      /\ Write(b, [bookings[b] EXCEPT !.status = "expired"])
  BY DEF ConfirmExpire
<1>4. entries' = [entries EXCEPT ![b] = [entries[b] EXCEPT !.state = "lapsed"]]
  BY <1>1, <1>2, <1>3, StatusWritten, StateOfIs DEF Status
<1>5. entries[b].state = "taken" /\ entries[b].until # NULL /\ entries[b].until <= clock
  <2>1. bookings[b].status = "held" /\ bookings[b].expires \in Nat
    BY <1>2, <1>3 DEF Expirable, IInv, ExpiryShape
  <2>2. req[q].now \in Nat /\ clock \in Nat
    BY <1>1 DEF Typed, TypeOK, Request
  <2>3. bookings[b].expires <= clock
    BY <1>2, <1>3, <2>1, <2>2 DEF Expirable
  <2>4. QED
    BY <1>2, <2>1, <2>3, EntryAt, StateOfIs, NullAssumption DEF Live
<1>6. entries' = [e \in Bookings |->
          IF e \in {b} THEN [entries[e] EXCEPT !.state = "lapsed"] ELSE entries[e]]
  BY <1>2, <1>4 DEF entries
<1>7. QED
  BY <1>2, <1>3, <1>5, <1>6 DEF Calendar!Lapse

LEMMA WorkerLapses ==
    ASSUME IInv, BatchLocked, WorkerCommit
    PROVE  Calendar!Lapse(worker.batch) /\ worker.batch \in SUBSET Bookings
<1>1. Typed
  BY DEF IInv, Typed
<1>2. worker.batch \subseteq Bookings /\ worker.now \in Nat /\ clock \in Nat
  BY <1>1 DEF Typed, TypeOK, WorkerState
<1>3. ASSUME NEW b \in worker.batch
      PROVE  entries[b].state = "taken" /\ entries[b].until # NULL /\ entries[b].until <= clock
  <2>1. worker.now <= clock /\ Expirable(b, worker.now) /\ b \in Bookings
    BY <1>2 DEF BatchLocked, WorkerCommit
  <2>2. bookings[b].status = "held" /\ bookings[b].expires \in Nat
    BY <2>1 DEF Expirable, IInv, ExpiryShape
  <2>3. bookings[b].expires <= clock
    BY <1>2, <2>1, <2>2 DEF Expirable
  <2>4. QED
    BY <2>1, <2>2, <2>3, EntryAt, StateOfIs, NullAssumption DEF Live
<1>4. entries' = [b \in Bookings |->
          IF b \in worker.batch THEN [entries[b] EXCEPT !.state = "lapsed"] ELSE entries[b]]
  <2>1. ASSUME NEW b \in Bookings
        PROVE  EntryOf(bookings'[b]) = IF b \in worker.batch
                                         THEN [entries[b] EXCEPT !.state = "lapsed"]
                                         ELSE entries[b]
    <3>1. CASE b \in worker.batch
      <4>1. bookings'[b] = [bookings[b] EXCEPT !.status = "expired"] /\ bookings[b] \in Row
        BY <1>1, <3>1 DEF WorkerCommit, Typed, TypeOK
      <4>2. /\ bookings'[b].status = "expired" /\ bookings'[b].room = bookings[b].room
            /\ bookings'[b].win = bookings[b].win /\ bookings'[b].expires = bookings[b].expires
        BY <4>1 DEF Row
      <4>3. EntryOf(bookings'[b]) = [EntryOf(bookings[b]) EXCEPT !.state = "lapsed"]
        BY <4>2, StateOfIs DEF EntryOf
      <4>4. QED
        BY <3>1, <4>3, EntryAt
    <3>2. CASE b \notin worker.batch
      BY <3>2, EntryAt DEF WorkerCommit
    <3>3. QED
      BY <3>1, <3>2
  <2>2. entries' = [b \in Bookings |-> EntryOf(bookings'[b])]
    BY DEF entries, EntryOf
  <2>3. QED
    BY <2>1, <2>2
<1>5. QED
  BY <1>2, <1>3, <1>4 DEF Calendar!Lapse, WorkerCommit

LEMMA CalendarStep ==
    ASSUME IInv, BatchLocked, [Next]_vars
    PROVE  [Calendar!Next]_(Calendar!calendar)
<1> DEFINE Mapped == [Calendar!Next]_(Calendar!calendar)
<1>t. Typed
  BY DEF IInv, Typed
<1>1. ASSUME NEW q \in Requests, CommitHold(q) \/ CommitReschedule(q) PROVE Calendar!Next
  <2>1. req[q].booking \in Bookings
    BY <1>1, <1>t, CommitTakes
  <2>2. QED
    BY <1>1, <2>1, HoldMakes, RescheduleMoves DEF Calendar!Next
<1>2. ASSUME NEW q \in Requests, Cancel(q) PROVE Calendar!Next
  BY <1>2, CancelGivesUp DEF Calendar!Next
<1>3. CASE WorkerCommit
  BY <1>3, WorkerLapses DEF Calendar!Next
<1>4. CASE Tick
  <2>1. entries' = entries /\ clock' = clock + 1
    BY <1>4 DEF Tick, entries
  <2>2. QED
    BY <2>1 DEF Calendar!Next, Calendar!Pass
<1>5. ASSUME clock' = clock, bookings' = bookings PROVE UNCHANGED Calendar!calendar
  BY <1>5, CalendarStutters
<1>6. ASSUME NEW q \in Requests, Confirm(q) PROVE Mapped
  <2>1. CASE bookings' = bookings
    BY <1>5, <1>6, <2>1 DEF Confirm
  <2>2. CASE bookings' # bookings
    BY <1>6, <2>2, ConfirmKeeps DEF Calendar!Next
  <2>3. QED
    BY <2>1, <2>2
<1>7. ASSUME NEW q \in Requests, ConfirmExpire(q) PROVE Mapped
  <2>1. CASE bookings' = bookings
    BY <1>5, <1>7, <2>1 DEF ConfirmExpire
  <2>2. CASE bookings' # bookings
    <3>1. {req[q].booking} \in SUBSET Bookings /\ Calendar!Lapse({req[q].booking})
      BY <1>7, <2>2, ConfirmExpireLapses
    <3>2. QED
      BY <3>1 DEF Calendar!Next
  <2>3. QED
    BY <2>1, <2>2
<1>8. ASSUME NEW q \in Requests, CheckIn(q) PROVE Mapped
  BY <1>8, CheckInStutters DEF Calendar!calendar
<1>9. ASSUME NEW q \in Requests, Proceed(q) PROVE Mapped
  BY <1>1, <1>2, <1>5, <1>6, <1>7, <1>8, <1>9
     DEF Proceed, Call, CheckCancel, CheckReschedule, LockRow, LockRoom, LockMatch,
         Refuse, RecordTransition
<1>10. QED
  BY <1>3, <1>4, <1>5, <1>9
     DEF Next, BeginHold, Begin, Abort, DeadlockVictim, Rollback, WorkerStep, WorkerTick,
         WorkerLock, WorkerAudit, WorkerRecord, WorkerFail, WorkerAuditLost,
         WorkerVictim, WorkerRollback, Crash, vars

-----------------------------------------------------------------------------

\* Every statement of CreateHold, Reschedule, Confirm, Cancel, CheckIn and of
\* the expiry worker, every rollback and every crash is a step of the room
\* calendar or changes nothing in it, however late a handler's time.Now() is
\* used: a lapsed hold can be kept as long after its deadline, and no longer.
THEOREM Refinement == Spec => ImplementsCalendar
<1>1. Init => Calendar!Init
  <2> SUFFICES ASSUME Init PROVE Calendar!Init
    OBVIOUS
  <2>1. clock = 0 /\ \A b \in Bookings : bookings[b].status = "none"
    BY DEF Init, NoRow
  <2>2. QED
    BY <2>1, EntryAt, StateOfIs DEF Calendar!Init
<1>2. Init => BatchLocked
  BY DEF Init, WorkerIdle, BatchLocked
<1>3. IInv /\ BatchLocked /\ [Next]_vars => BatchLocked'
  BY BatchLockedStep DEF IInv, Typed
<1>4. IInv /\ BatchLocked /\ [Next]_vars => [Calendar!Next]_(Calendar!calendar)
  BY CalendarStep
<1>5. Spec => []IInv
  BY Inductive
<1>6. QED
  BY <1>1, <1>2, <1>3, <1>4, <1>5, PTL DEF Spec, ImplementsCalendar, Calendar!Spec

-----------------------------------------------------------------------------
(* The lifecycle of a booking.                                             *)

\* What a step may do to the status of a booking.
StatusStep(b) ==
    /\ bookings'[b].status # bookings[b].status =>
          <<bookings[b].status, bookings'[b].status>> \in StatusMoves
    /\ bookings[b].status = "held" /\ bookings'[b].status = "expired" =>
          bookings[b].expires <= clock

\* The part of the invariant that the statuses depend on.
Timely == Typed /\ ExpiryShape /\ LagBounded /\ BatchLocked

LEMMA TimelyInvariant == Spec => []Timely
<1>1. Init => BatchLocked
  BY DEF Init, WorkerIdle, BatchLocked
<1>2. IInv /\ BatchLocked /\ [Next]_vars => BatchLocked'
  BY BatchLockedStep DEF IInv, Typed
<1>3. IInv /\ BatchLocked => Timely
  BY DEF IInv, Typed, Timely
<1>4. QED
  BY <1>1, <1>2, <1>3, Inductive, PTL DEF Spec

LEMMA StatusSteps ==
    ASSUME Timely, [Next]_vars, NEW b \in Bookings
    PROVE  StatusStep(b)
<1>t. Typed /\ bookings \in [Bookings -> Row] /\ bookings[b] \in Row /\ bookings[b].status \in Status
  BY DEF Timely, Typed, TypeOK, Row
<1>1. ASSUME bookings'[b] = bookings[b] PROVE StatusStep(b)
  BY <1>1 DEF StatusStep
<1>2. ASSUME NEW c \in Bookings, NEW n, Write(c, n), c # b PROVE StatusStep(b)
  BY <1>1, <1>2, <1>t DEF Write
<1>3. ASSUME NEW s, Write(b, [bookings[b] EXCEPT !.status = s]) PROVE bookings'[b].status = s
  BY <1>3, <1>t DEF Write, Row
<1>4. ASSUME Expirable(b, clock), bookings'[b].status = "expired" PROVE StatusStep(b)
  BY <1>4 DEF StatusStep, StatusMoves, Expirable
<1>5. ASSUME NEW q \in Requests, CommitHold(q) \/ CommitReschedule(q) PROVE StatusStep(b)
  <2>1. Takes(q, req[q].booking)
    BY <1>5, <1>t, CommitTakes
  <2>2. CASE b = req[q].booking
    BY <2>1, <2>2 DEF Takes, StatusStep, StatusMoves
  <2>3. QED
    BY <1>1, <2>1, <2>2 DEF Takes
<1>6. ASSUME NEW q \in Requests, Confirm(q) PROVE StatusStep(b)
  <2>1. req[q].booking \in Bookings
    BY <1>6, <1>t, InFlight DEF Confirm
  <2>2. CASE b = req[q].booking /\ bookings' # bookings
    <3>1. bookings[b].status = "held"
      BY <1>6, <2>2 DEF Confirm, Confirmable
    <3>2. bookings'[b] = [bookings[b] EXCEPT !.status = "confirmed", !.expires = NULL]
      BY <1>6, <1>t, <2>2 DEF Confirm, Write
    <3>3. bookings'[b].status = "confirmed"
      BY <1>t, <3>2 DEF Row
    <3>4. QED
      BY <3>1, <3>3 DEF StatusStep, StatusMoves
  <2>3. QED
    BY <1>1, <1>2, <1>6, <2>1, <2>2 DEF Confirm
<1>7. ASSUME NEW q \in Requests, ConfirmExpire(q) PROVE StatusStep(b)
  <2>1. req[q].booking \in Bookings /\ req[q].now <= clock /\ req[q].now \in Nat /\ clock \in Nat
    BY <1>7, <1>t, InFlight DEF ConfirmExpire, Timely, LagBounded, Timed, Typed, TypeOK, Request
  <2>2. CASE b = req[q].booking /\ bookings' # bookings
    <3>1. Expirable(b, req[q].now) /\ Write(b, [bookings[b] EXCEPT !.status = "expired"])
      BY <1>7, <2>2 DEF ConfirmExpire
    <3>2. bookings[b].expires \in Nat
      BY <3>1 DEF Expirable, Timely, ExpiryShape
    <3>3. QED
      BY <1>3, <1>4, <2>1, <3>1, <3>2 DEF Expirable
  <2>3. QED
    BY <1>1, <1>2, <1>7, <2>1, <2>2 DEF ConfirmExpire
<1>8. ASSUME NEW q \in Requests, Cancel(q) PROVE StatusStep(b)
  <2>1. req[q].booking \in Bookings /\ bookings[req[q].booking].status # "none"
    BY <1>8, <1>t, InFlight DEF Cancel, Fits
  <2>2. CASE b = req[q].booking
    <3>1. bookings'[b].status = "cancelled"
      BY <1>3, <1>8, <2>2 DEF Cancel
    <3>2. QED
      BY <1>t, <2>1, <2>2, <3>1 DEF StatusStep, StatusMoves, Status, Live
  <2>3. QED
    BY <1>2, <1>8, <2>1, <2>2 DEF Cancel
<1>9. ASSUME NEW q \in Requests, CheckIn(q) PROVE StatusStep(b)
  <2>1. req[q].booking \in Bookings
    BY <1>9, <1>t, InFlight DEF CheckIn
  <2>2. CASE b = req[q].booking /\ bookings' # bookings
    <3>1. bookings[b].status = "confirmed" /\ bookings'[b].status = "checked_in"
      BY <1>3, <1>9, <2>2 DEF CheckIn
    <3>2. QED
      BY <3>1 DEF StatusStep, StatusMoves
  <2>3. QED
    BY <1>1, <1>2, <1>9, <2>1, <2>2 DEF CheckIn
<1>10. CASE WorkerCommit
  <2>1. CASE b \in worker.batch
    <3>1. Expirable(b, worker.now) /\ worker.now <= clock
      BY <1>10, <2>1 DEF WorkerCommit, Timely, BatchLocked
    <3>2. bookings[b].expires \in Nat /\ worker.now \in Nat /\ clock \in Nat
      BY <1>t, <3>1 DEF Expirable, Timely, ExpiryShape, Typed, TypeOK, WorkerState
    <3>3. bookings'[b] = [bookings[b] EXCEPT !.status = "expired"]
      BY <1>10, <2>1 DEF WorkerCommit
    <3>4. bookings'[b].status = "expired"
      BY <1>t, <3>3 DEF Row
    <3>5. QED
      BY <1>4, <3>1, <3>2, <3>4 DEF Expirable
  <2>2. CASE b \notin worker.batch
    BY <1>1, <1>10, <2>2 DEF WorkerCommit
  <2>3. QED
    BY <2>1, <2>2
<1>11. CASE bookings' = bookings
  BY <1>1, <1>11
<1>12. ASSUME NEW q \in Requests, Proceed(q) PROVE StatusStep(b)
  BY <1>5, <1>6, <1>7, <1>8, <1>9, <1>11, <1>12
     DEF Proceed, Call, CheckCancel, CheckReschedule, LockRow, LockRoom, LockMatch,
         Refuse, RecordTransition
<1>13. QED
  BY <1>10, <1>11, <1>12
     DEF Next, BeginHold, Begin, Abort, DeadlockVictim, Rollback, WorkerStep, WorkerTick,
         WorkerLock, WorkerAudit, WorkerRecord, WorkerFail, WorkerAuditLost,
         WorkerVictim, WorkerRollback, Crash, Tick, vars

\* Whatever requests and the worker do, and however old their reads and their
\* clocks are, no booking comes back from cancelled or expired, and no hold
\* expires before its time.
THEOREM ForwardOnly == Spec => Lifecycle
<1>1. Timely /\ [Next]_vars =>
         [\A b \in Bookings :
             /\ bookings'[b].status # bookings[b].status =>
                   <<bookings[b].status, bookings'[b].status>> \in StatusMoves
             /\ bookings[b].status = "held" /\ bookings'[b].status = "expired" =>
                   bookings[b].expires <= clock
         ]_vars
  BY StatusSteps DEF StatusStep
<1>2. QED
  BY <1>1, TimelyInvariant, PTL DEF Spec, Lifecycle

-----------------------------------------------------------------------------
(* The audit log.                                                          *)

\* What a confirmation read in GetBooking is right as long as its UPDATE can
\* succeed, and has been right once it has.
Confirming(r, table) ==
    r.op = "confirm" =>
        /\ r.pc \in {"call", "update"} /\ table[r.booking].status = "held" => r.old = "held"
        /\ r.pc = "audit" => r.old = "held"

Over(table, b) == table[b].status \in {"expired", "cancelled"}

ReadsRight == \A p \in Requests : Confirming(req[p], bookings)
BatchOver == worker.pc = "audit" => \A b \in worker.batch : Over(bookings, b)

LEMMA StatusKept ==
    ASSUME Timely, [Next]_vars, NEW b \in Bookings
    PROVE  /\ bookings[b].status # "none" /\ bookings'[b].status = "held" =>
                 bookings[b].status = "held"
           /\ Over(bookings, b) => Over(bookings', b)
<1>1. StatusStep(b)
  BY StatusSteps
<1>2. QED
  BY <1>1 DEF StatusStep, StatusMoves, Over

\* The request's record after a step that goes to the audit statement.
LEMMA AuditRecord ==
    ASSUME Typed, NEW p \in Requests, NEW b, NEW s, ToAudit(p, b, s)
    PROVE  req'[p].op = req[p].op /\ req'[p].old = req[p].old /\ req'[p].pc = "audit"
BY DEF ToAudit, Become, Idle, Typed, TypeOK

LEMMA ConfirmingStep ==
    ASSUME Timely, [Next]_vars, NEW p \in Requests, Confirming(req[p], bookings)
    PROVE  Confirming(req'[p], bookings')
<1>t. Typed /\ req \in [Requests -> Request] /\ req[p] \in Request
  BY DEF Timely, Typed, TypeOK
<1>1. ASSUME req'[p] = req[p] PROVE Confirming(req'[p], bookings')
  <2>1. CASE req[p].pc \in {"call", "update"} /\ req[p].op = "confirm"
    <3>1. req[p].booking \in Bookings /\ bookings[req[p].booking].status # "none"
      BY <1>t, <2>1, InFlight DEF Fits
    <3>2. QED
      BY <1>1, <2>1, <3>1, StatusKept DEF Confirming
  <2>2. CASE ~(req[p].pc \in {"call", "update"} /\ req[p].op = "confirm")
    BY <1>1, <2>2 DEF Confirming
  <2>3. QED
    BY <2>1, <2>2
<1>2. ASSUME NEW q \in Requests, NEW r, Become(q, r), q # p
      PROVE  Confirming(req'[p], bookings')
  BY <1>1, <1>2, <1>t DEF Become
<1>3. ASSUME Finish(p) PROVE Confirming(req'[p], bookings')
  BY <1>3, <1>t DEF Finish, Become, Idle, Confirming
<1>4. ASSUME BeginHold(p) \/ Begin(p) PROVE Confirming(req'[p], bookings')
  <2>1. CASE BeginHold(p)
    BY <1>t, <2>1 DEF BeginHold, Become, Idle, Confirming
  <2>2. CASE Begin(p)
    BY <1>t, <2>2 DEF Begin, Become, Idle, Confirming
  <2>3. QED
    BY <1>4, <2>1, <2>2
<1>5. ASSUME Call(p) PROVE Confirming(req'[p], bookings')
  <2>1. /\ req'[p].op = req[p].op /\ req'[p].old = req[p].old
        /\ req'[p].booking = req[p].booking /\ req'[p].pc # "audit"
    BY <1>5, <1>t DEF Call, Become, Request
  <2>2. bookings' = bookings /\ req[p].pc = "call"
    BY <1>5 DEF Call
  <2>3. QED
    BY <2>1, <2>2 DEF Confirming
<1>6. ASSUME req'[p].op # "confirm" PROVE Confirming(req'[p], bookings')
  BY <1>6 DEF Confirming
<1>7. ASSUME CheckCancel(p) \/ CheckReschedule(p) PROVE Confirming(req'[p], bookings')
  <2>1. Finish(p) \/ req'[p].op = req[p].op
    BY <1>7, <1>t DEF CheckCancel, CheckReschedule, Become, Request
  <2>2. req[p].op # "confirm"
    BY <1>7 DEF CheckCancel, CheckReschedule
  <2>3. QED
    BY <1>3, <1>6, <2>1, <2>2
<1>8. ASSUME LockRow(p) \/ LockRoom(p) \/ LockMatch(p) PROVE Confirming(req'[p], bookings')
  <2>1. req'[p].pc \in {"room", "lock"}
    <3>1. CASE LockRow(p)
      BY <1>t, <3>1 DEF LockRow, Become, Request
    <3>2. CASE LockRoom(p)
      BY <1>t, <3>2 DEF LockRoom, Become, Request
    <3>3. CASE LockMatch(p)
      <4> DEFINE t(c) == IF /\ Matches(c, req[p].room, req[p].instr, req[p].win)
                            /\ c \notin Own(p)
                            /\ ~Skipped(c, req[p].now)
                         THEN req[p].clash \cup {c} ELSE req[p].clash
      <4>1. PICK c : Become(p, [req[p] EXCEPT !.pending = @ \ {c}, !.clash = t(c)])
        BY <3>3 DEF LockMatch
      <4> HIDE DEF t
      <4>2. req'[p] = [req[p] EXCEPT !.pending = @ \ {c}, !.clash = t(c)]
        BY <1>t, <4>1 DEF Become
      <4>3. QED
        BY <1>t, <3>3, <4>2 DEF LockMatch, Request
    <3>4. QED
      BY <1>8, <3>1, <3>2, <3>3
  <2>2. QED
    BY <2>1 DEF Confirming
<1>9. ASSUME CommitHold(p) \/ CommitReschedule(p) \/ Cancel(p) \/ CheckIn(p)
      PROVE  Confirming(req'[p], bookings')
  <2>1. req[p].op # "confirm"
    BY <1>9 DEF CommitHold, CommitReschedule, Cancel, CheckIn
  <2>2. Finish(p) \/ req'[p].op = req[p].op
    BY <1>9, <1>t, AuditRecord DEF CommitHold, CommitReschedule, Cancel, CheckIn
  <2>3. QED
    BY <1>3, <1>6, <2>1, <2>2
<1>10. ASSUME Confirm(p) PROVE Confirming(req'[p], bookings')
  <2>1. CASE Confirmable(req[p].booking, req[p].now)
    <3>1. req[p].old = "held"
      BY <1>10, <2>1 DEF Confirm, Confirmable, Confirming
    <3>2. req'[p].old = "held"
      BY <1>10, <1>t, <2>1, <3>1, AuditRecord DEF Confirm
    <3>3. QED
      BY <3>2 DEF Confirming
  <2>2. CASE ~Confirmable(req[p].booking, req[p].now)
    <3>1. req'[p].pc = "expire"
      BY <1>10, <1>t, <2>2 DEF Confirm, Become, Request
    <3>2. QED
      BY <3>1 DEF Confirming
  <2>3. QED
    BY <2>1, <2>2
<1>11. ASSUME Proceed(p) \/ Rollback(p) PROVE Confirming(req'[p], bookings')
  BY <1>3, <1>5, <1>7, <1>8, <1>9, <1>10, <1>11
     DEF Proceed, Refuse, ConfirmExpire, RecordTransition, Rollback
<1>12. ASSUME NEW q \in Requests, q # p, Proceed(q) PROVE Confirming(req'[p], bookings')
  BY <1>2, <1>12
     DEF Proceed, Call, CheckCancel, CheckReschedule, LockRow, LockRoom, LockMatch,
         Refuse, CommitHold, CommitReschedule, Confirm, ConfirmExpire, Cancel,
         CheckIn, RecordTransition, Finish, ToAudit
<1>13. ASSUME NEW q \in Requests, q # p, BeginHold(q) \/ Begin(q) \/ Rollback(q)
       PROVE  Confirming(req'[p], bookings')
  BY <1>2, <1>13 DEF BeginHold, Begin, Rollback, Finish
<1>14. CASE Crash
  BY <1>14 DEF Crash, Idle, Confirming
<1>15. CASE req' = req
  BY <1>1, <1>15
<1>16. QED
  BY <1>4, <1>11, <1>12, <1>13, <1>14, <1>15
     DEF Next, Abort, DeadlockVictim, WorkerStep, WorkerTick, WorkerLock,
         WorkerCommit, WorkerAudit, WorkerRecord, WorkerFail, WorkerAuditLost,
         WorkerVictim, WorkerRollback, Tick, vars

LEMMA BatchOverStep ==
    ASSUME Timely, BatchOver, [Next]_vars
    PROVE  BatchOver'
<1> SUFFICES ASSUME worker'.pc = "audit", NEW b \in worker'.batch PROVE Over(bookings', b)
  BY DEF BatchOver, Over
<1>t. /\ Typed /\ worker \in WorkerState /\ worker.batch \subseteq Bookings
      /\ bookings \in [Bookings -> Row]
  BY DEF Timely, Typed, TypeOK, WorkerState
<1>1. ASSUME worker.pc = "audit", b \in worker.batch PROVE Over(bookings', b)
  BY <1>1, <1>t, StatusKept DEF BatchOver
<1>2. CASE WorkerCommit
  <2>1. b \in worker.batch
    BY <1>2, <1>t DEF WorkerCommit, WorkerIdle, WorkerState
  <2>2. b \in Bookings /\ bookings'[b] = [bookings[b] EXCEPT !.status = "expired"]
    BY <1>2, <1>t, <2>1 DEF WorkerCommit
  <2>3. bookings'[b].status = "expired"
    BY <1>t, <2>2 DEF Row
  <2>4. QED
    BY <2>3 DEF Over
<1>3. ASSUME NEW c, NEW rows, WorkerRecord(c, rows) PROVE Over(bookings', b)
  <2>1. worker.pc = "audit"
    BY <1>3 DEF WorkerRecord
  <2>2. b \in worker.batch
    BY <1>3, <1>t DEF WorkerRecord, WorkerIdle, WorkerState
  <2>3. QED
    BY <1>1, <2>1, <2>2
<1>4. CASE WorkerTick \/ WorkerLock \/ WorkerRollback \/ Crash
  <2>1. worker'.pc # "audit"
    <3>1. CASE WorkerTick
      BY <3>1 DEF WorkerTick, WorkerIdle
    <3>2. CASE WorkerLock
      <4>1. PICK s, t : worker' = [worker EXCEPT !.pending = s, !.batch = t]
        BY <3>2 DEF WorkerLock
      <4>2. QED
        BY <1>t, <3>2, <4>1 DEF WorkerLock, WorkerState
    <3>3. CASE WorkerRollback \/ Crash
      BY <3>3 DEF WorkerRollback, Crash, WorkerIdle
    <3>4. QED
      BY <1>4, <3>1, <3>2, <3>3
  <2>2. QED
    BY <2>1
<1>5. CASE worker' = worker
  BY <1>1, <1>5
<1>6. QED
  BY <1>2, <1>3, <1>4, <1>5
     DEF Next, Proceed, BeginHold, Begin, Call, CheckCancel, CheckReschedule, LockRow,
         LockRoom, LockMatch, Refuse, CommitHold, CommitReschedule, Confirm, ConfirmExpire,
         Cancel, CheckIn, RecordTransition, Abort, DeadlockVictim, Rollback, WorkerStep,
         WorkerAudit, WorkerFail, WorkerAuditLost, WorkerVictim, Tick, vars

LEMMA AuditTruthfulStep ==
    ASSUME Timely, ReadsRight, BatchOver, AuditTruthful, [Next]_vars
    PROVE  AuditTruthful'
<1>t. Typed /\ audit \subseteq AuditRow /\ worker \in WorkerState /\ worker.batch \subseteq Bookings
  BY DEF Timely, Typed, TypeOK, WorkerState
<1>1. ASSUME NEW a \in audit
      PROVE  /\ a.event = "confirm" => a.old = "held"
             /\ a.event = "expire" => Over(bookings', a.booking)
  <2>1. a.booking \in Bookings
    BY <1>t DEF AuditRow
  <2>2. QED
    BY <2>1, StatusKept DEF AuditTruthful, Over
<1>2. ASSUME audit' = audit PROVE AuditTruthful'
  BY <1>1, <1>2 DEF AuditTruthful, Over
<1>3. ASSUME NEW p \in Requests, RecordTransition(p) PROVE AuditTruthful'
  <2> DEFINE a == [event |-> req[p].op, booking |-> req[p].booking,
                   old |-> req[p].old, new |-> req[p].new]
  <2>1. audit' = audit \cup {a} /\ req[p].pc = "audit" /\ req[p] \in Request
    BY <1>3, <1>t DEF RecordTransition, Typed, TypeOK
  <2>2. a.event = req[p].op /\ a.old = req[p].old /\ a.event # "expire"
    BY <2>1 DEF Request, AllOps
  <2> HIDE DEF a
  <2>3. a.event = "confirm" => a.old = "held"
    BY <2>1, <2>2 DEF ReadsRight, Confirming
  <2>4. QED
    BY <1>1, <2>1, <2>2, <2>3 DEF AuditTruthful, Over
<1>4. ASSUME NEW b \in worker.batch,
             WorkerRecord(b, {[event |-> "expire", booking |-> b,
                               old |-> "held", new |-> "expired"]})
      PROVE  AuditTruthful'
  <2> DEFINE a == [event |-> "expire", booking |-> b, old |-> "held", new |-> "expired"]
  <2>1. /\ audit' = audit \cup {a} /\ worker.pc = "audit" /\ bookings' = bookings
        /\ a.event = "expire" /\ a.booking = b
    BY <1>4 DEF WorkerRecord
  <2> HIDE DEF a
  <2>2. Over(bookings', b)
    BY <1>4, <2>1 DEF BatchOver, Over
  <2>3. QED
    BY <1>1, <2>1, <2>2 DEF AuditTruthful, Over
<1>5. ASSUME NEW b, WorkerRecord(b, {}) PROVE AuditTruthful'
  BY <1>2, <1>5 DEF WorkerRecord
<1>6. QED
  BY <1>2, <1>3, <1>4, <1>5
     DEF Next, Proceed, BeginHold, Begin, Call, CheckCancel, CheckReschedule, LockRow,
         LockRoom, LockMatch, Refuse, CommitHold, CommitReschedule, Confirm, ConfirmExpire,
         Cancel, CheckIn, Abort, DeadlockVictim, Rollback, WorkerStep, WorkerTick,
         WorkerLock, WorkerCommit, WorkerAudit, WorkerFail, WorkerAuditLost,
         WorkerVictim, WorkerRollback, Crash, Tick, vars

\* Though the handlers record a status they read before their UPDATE, and the
\* worker records expiries after its own: a booking_confirmed row says "held",
\* and a booking with a booking_expired row is not live.
THEOREM AuditRight == Spec => []AuditTruthful
<1> DEFINE All == ReadsRight /\ BatchOver /\ AuditTruthful
<1>1. Init => All
  BY DEF Init, Idle, WorkerIdle, ReadsRight, Confirming, BatchOver, AuditTruthful
<1>2. Timely /\ All /\ [Next]_vars => All'
  BY ConfirmingStep, BatchOverStep, AuditTruthfulStep DEF ReadsRight
<1>3. QED
  BY <1>1, <1>2, TimelyInvariant, PTL DEF Spec
=============================================================================
