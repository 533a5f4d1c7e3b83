----------------------------- MODULE RoomProofs -----------------------------
(***************************************************************************)
(* Rooms are given away once, for every set of request slots, bookings,    *)
(* rooms, instructors and windows. What the overlap queries rest on is     *)
(* proved however late a request's time.Now() is used; only a confirmation *)
(* that uses one more than a tick old can give a room to two bookings.     *)
(***************************************************************************)
EXTENDS BookingsProofs

-----------------------------------------------------------------------------
(* What one step does to a row of bookings and to a request.               *)

\* The booking is cancelled or expired.
Ends(c) ==
    /\ bookings'[c].room = bookings[c].room
    /\ bookings'[c].instr = bookings[c].instr
    /\ bookings'[c].win = bookings[c].win
    /\ \/ bookings'[c].status = "expired"
       \/ /\ bookings'[c].status = "cancelled"
          /\ \E q \in Requests :
                req[q].pc = "update" /\ req[q].op = "cancel" /\ req[q].booking = c

ChecksIn(c) ==
    /\ bookings[c].status = "confirmed"
    /\ bookings'[c] = [bookings[c] EXCEPT !.status = "checked_in"]

Confirms(q, c) ==
    /\ req[q].pc = "update"
    /\ Confirmable(c, req[q].now)
    /\ Lockable(c, q)
    /\ bookings'[c] = [bookings[c] EXCEPT !.status = "confirmed", !.expires = NULL]

\* Request q puts booking c where its overlap query found no conflict.
Takes(q, c) ==
    /\ ScanDone(q)
    /\ ~Conflicts(q)
    /\ req[q].booking = c
    /\ req'[q].pc = "audit"
    /\ clock' = clock
    /\ \A d \in Bookings : d # c => bookings'[d] = bookings[d]
    /\ bookings'[c].win = req[q].win
    /\ \/ /\ req[q].op = "hold"
          /\ bookings[c].status = "none"
          /\ bookings'[c].status = "held"
          /\ bookings'[c].expires = req[q].now + HoldTTL
          /\ bookings'[c].room = req[q].room
          /\ bookings'[c].instr = req[q].instr
       \/ /\ req[q].op = "reschedule"
          /\ bookings'[c].status = bookings[c].status
          /\ bookings'[c].expires = bookings[c].expires
          /\ bookings'[c].room = bookings[c].room
          /\ bookings'[c].instr = bookings[c].instr

RowStep(c) ==
    \/ bookings'[c] = bookings[c]
    \/ Ends(c)
    \/ ChecksIn(c)
    \/ \E q \in Requests : Confirms(q, c) \/ Takes(q, c)

\* A request that is not idle is about a booking of the table.
LEMMA InFlight ==
    ASSUME Typed, NEW p \in Requests, req[p].pc # "idle"
    PROVE  /\ req[p] \in Request
           /\ Fits(req[p], bookings)
           /\ req[p].booking \in Bookings
           /\ bookings[req[p].booking] \in Row
BY DEF Typed, TypeOK, RequestOK, Fits

\* After ToAudit the request is at its audit statement.
LEMMA AtAudit ==
    ASSUME Typed, NEW p \in Requests, NEW b, NEW s, ToAudit(p, b, s)
    PROVE  req'[p].pc = "audit"
BY DEF ToAudit, Become, Idle, Typed, TypeOK

\* Everything any step can do to a row.
LEMMA RowSteps ==
    ASSUME Typed, [Next]_vars, NEW c \in Bookings
    PROVE  RowStep(c)
<1>1. ASSUME NEW q \in Requests, CommitHold(q) PROVE RowStep(c)
  <2> DEFINE b == req[q].booking
             n == [status |-> "held", room |-> req[q].room, instr |-> req[q].instr,
                   win |-> req[q].win, expires |-> req[q].now + HoldTTL, count |-> 0]
  <2>1. b \in Bookings /\ req'[q].pc = "audit"
    BY <1>1, InFlight, AtAudit DEF CommitHold, ScanDone
  <2>2. bookings'[b] = n /\ \A d \in Bookings \ {b} : bookings'[d] = bookings[d]
    BY <1>1, <2>1 DEF CommitHold, Write, Typed, TypeOK
  <2>3. CASE c = b
    BY <1>1, <2>1, <2>2, <2>3 DEF CommitHold, RowStep, Takes
  <2>4. QED
    BY <2>2, <2>3 DEF RowStep
<1>2. ASSUME NEW q \in Requests, CommitReschedule(q) PROVE RowStep(c)
  <2> DEFINE b == req[q].booking
             n == [bookings[b] EXCEPT !.win = req[q].win, !.count = @ + 1]
  <2>1. b \in Bookings /\ req'[q].pc = "audit" /\ bookings[b] \in Row
    BY <1>2, InFlight, AtAudit DEF CommitReschedule, ScanDone
  <2>2. bookings'[b] = n /\ \A d \in Bookings \ {b} : bookings'[d] = bookings[d]
    BY <1>2, <2>1 DEF CommitReschedule, Write, Typed, TypeOK
  <2>3. /\ bookings'[b].win = req[q].win
        /\ bookings'[b].status = bookings[b].status
        /\ bookings'[b].expires = bookings[b].expires
        /\ bookings'[b].room = bookings[b].room
        /\ bookings'[b].instr = bookings[b].instr
    BY <2>1, <2>2 DEF Row
  <2>4. CASE c = b
    BY <1>2, <2>1, <2>2, <2>3, <2>4 DEF CommitReschedule, RowStep, Takes
  <2>5. QED
    BY <2>2, <2>4 DEF RowStep
<1>3. ASSUME NEW b \in Bookings, NEW s \in {"expired", "cancelled"},
             Write(b, [bookings[b] EXCEPT !.status = s]),
             s = "cancelled" => \E q \in Requests :
                 req[q].pc = "update" /\ req[q].op = "cancel" /\ req[q].booking = b
      PROVE  RowStep(c)
  <2>1. CASE c = b
    <3>1. bookings'[c] = [bookings[c] EXCEPT !.status = s] /\ bookings[c] \in Row
      BY <1>3, <2>1 DEF Write, Typed, TypeOK
    <3>2. /\ bookings'[c].room = bookings[c].room /\ bookings'[c].instr = bookings[c].instr
          /\ bookings'[c].win = bookings[c].win /\ bookings'[c].status = s
      BY <3>1 DEF Row
    <3>3. QED
      BY <1>3, <2>1, <3>2 DEF RowStep, Ends
  <2>2. CASE c # b
    BY <1>3, <2>2 DEF Write, RowStep, Typed, TypeOK
  <2>3. QED
    BY <2>1, <2>2
<1>4. ASSUME NEW q \in Requests, Confirm(q) PROVE RowStep(c)
  <2>1. req[q].booking \in Bookings
    BY <1>4, InFlight DEF Confirm
  <2>2. CASE c = req[q].booking /\ Confirmable(c, req[q].now)
    BY <1>4, <2>1, <2>2 DEF Confirm, Write, RowStep, Confirms, Typed, TypeOK
  <2>3. CASE ~(c = req[q].booking /\ Confirmable(c, req[q].now))
    BY <1>4, <2>1, <2>3 DEF Confirm, Write, RowStep, Typed, TypeOK
  <2>4. QED
    BY <2>2, <2>3
<1>5. ASSUME NEW q \in Requests, CheckIn(q) PROVE RowStep(c)
  <2>1. req[q].booking \in Bookings
    BY <1>5, InFlight DEF CheckIn
  <2>2. CASE c = req[q].booking /\ bookings[c].status = "confirmed"
    BY <1>5, <2>1, <2>2 DEF CheckIn, Write, RowStep, ChecksIn, Typed, TypeOK
  <2>3. CASE ~(c = req[q].booking /\ bookings[c].status = "confirmed")
    BY <1>5, <2>1, <2>3 DEF CheckIn, Write, RowStep, Typed, TypeOK
  <2>4. QED
    BY <2>2, <2>3
<1>6. ASSUME NEW q \in Requests, Cancel(q) \/ ConfirmExpire(q) PROVE RowStep(c)
  <2>1. req[q].booking \in Bookings
    BY <1>6, InFlight DEF Cancel, ConfirmExpire
  <2>2. QED
    BY <1>3, <1>6, <2>1 DEF Cancel, ConfirmExpire, RowStep
<1>7. CASE WorkerCommit
  <2>1. CASE c \in worker.batch
    BY <1>7, <2>1 DEF WorkerCommit, RowStep, Ends, Row, Typed, TypeOK
  <2>2. CASE c \notin worker.batch
    BY <1>7, <2>2 DEF WorkerCommit, RowStep
  <2>3. QED
    BY <2>1, <2>2
<1>8. CASE bookings' = bookings
  BY <1>8 DEF RowStep
<1>9. ASSUME NEW q \in Requests, Proceed(q) PROVE RowStep(c)
  BY <1>1, <1>2, <1>4, <1>5, <1>6, <1>8, <1>9
     DEF Proceed, Call, CheckCancel, CheckReschedule, LockRow, LockRoom,
         LockMatch, Refuse, RecordTransition
<1>10. QED
  BY <1>7, <1>8, <1>9
     DEF Next, BeginHold, Begin, Abort, DeadlockVictim, Rollback, WorkerStep,
         WorkerTick, WorkerLock, WorkerAudit, WorkerRecord, WorkerFail,
         WorkerAuditLost, WorkerVictim, WorkerRollback, Crash, Tick, vars

\* Steps of a request that leave it between capturing now and its last
\* statement, with the clock and the table as they were.
Advances(p) ==
    /\ clock' = clock
    /\ bookings' = bookings
    /\ \/ BeginHold(p) \/ Call(p) \/ CheckCancel(p) \/ CheckReschedule(p)
       \/ LockRow(p) \/ LockRoom(p) \/ LockMatch(p) \/ Confirm(p)

RequestStep(p) ==
    \/ req'[p] = req[p]
    \/ req'[p].pc \notin Timed
    \/ Advances(p)

\* Everything any step can do to a request.
LEMMA RequestSteps ==
    ASSUME Typed, [Next]_vars, NEW p \in Requests
    PROVE  RequestStep(p)
<1>1. ASSUME NEW q \in Requests, NEW r, Become(q, r), q # p PROVE RequestStep(p)
  BY <1>1 DEF Become, RequestStep, Typed, TypeOK
<1>2. ASSUME Finish(p) PROVE RequestStep(p)
  BY <1>2 DEF Finish, Become, Idle, RequestStep, Timed, Typed, TypeOK
<1>3. ASSUME NEW b, NEW s, ToAudit(p, b, s) PROVE RequestStep(p)
  BY <1>3, AtAudit DEF RequestStep, Timed
<1>4. CASE Begin(p)
  BY <1>4 DEF Begin, Become, Idle, RequestStep, Timed, Typed, TypeOK
<1>5. CASE BeginHold(p) \/ Call(p) \/ CheckCancel(p) \/ CheckReschedule(p)
           \/ LockRow(p) \/ LockRoom(p) \/ LockMatch(p)
  BY <1>5 DEF BeginHold, Call, CheckCancel, CheckReschedule, LockRow, LockRoom,
              LockMatch, RequestStep, Advances
<1>6. CASE Confirm(p)
  BY <1>3, <1>6 DEF Confirm, RequestStep, Advances
<1>7. ASSUME Proceed(p) \/ Rollback(p) PROVE RequestStep(p)
  BY <1>2, <1>3, <1>5, <1>6, <1>7
     DEF Proceed, Refuse, CommitHold, CommitReschedule, ConfirmExpire, Cancel,
         CheckIn, RecordTransition, Rollback
<1>8. ASSUME NEW q \in Requests, q # p, Proceed(q) PROVE RequestStep(p)
  BY <1>1, <1>8
     DEF Proceed, Call, CheckCancel, CheckReschedule, LockRow, LockRoom, LockMatch,
         Refuse, CommitHold, CommitReschedule, Confirm, ConfirmExpire, Cancel,
         CheckIn, RecordTransition, Finish, ToAudit
<1>9. ASSUME NEW q \in Requests, q # p, BeginHold(q) \/ Begin(q) \/ Rollback(q)
      PROVE  RequestStep(p)
  BY <1>1, <1>9 DEF BeginHold, Begin, Rollback, Finish
<1>10. CASE Crash
  BY <1>10 DEF Crash, Idle, RequestStep, Timed
<1>11. CASE req' = req
  BY <1>11 DEF RequestStep
<1>12. QED
  BY <1>4, <1>5, <1>7, <1>8, <1>9, <1>10, <1>11
     DEF Next, Abort, DeadlockVictim, WorkerStep, WorkerTick, WorkerLock,
         WorkerCommit, WorkerAudit, WorkerRecord, WorkerFail, WorkerAuditLost,
         WorkerVictim, WorkerRollback, Tick, vars

\* The clock never goes back, and when it moves the guard of Tick held.
LEMMA ClockSteps ==
    ASSUME Typed, [Next]_vars
    PROVE  clock' = clock \/ Tick
BY DEF Next, Proceed, BeginHold, Begin, Call, CheckCancel, CheckReschedule, LockRow,
       LockRoom, LockMatch, Refuse, CommitHold, CommitReschedule, Confirm,
       ConfirmExpire, Cancel, CheckIn, RecordTransition, Abort, DeadlockVictim,
       Rollback, WorkerStep, WorkerTick, WorkerLock, WorkerCommit, WorkerAudit,
       WorkerRecord, WorkerFail, WorkerAuditLost, WorkerVictim, WorkerRollback,
       Crash, vars

\* Locking one row the overlap query selected: the row leaves pending, and it
\* is remembered as a clash unless it is no obstacle.
LEMMA LockMatchKeeps ==
    ASSUME Typed, NEW p \in Requests, LockMatch(p)
    PROVE  /\ req'[p].pc = req[p].pc
           /\ req'[p].now = req[p].now
           /\ req'[p].op = req[p].op
           /\ req'[p].booking = req[p].booking
           /\ req'[p].room = req[p].room
           /\ req'[p].instr = req[p].instr
           /\ req'[p].win = req[p].win
           /\ \E c \in req[p].pending :
                 /\ rowLock'[c] = p
                 /\ req'[p].pending = req[p].pending \ {c}
                 /\ \/ req'[p].clash = req[p].clash \cup {c}
                    \/ /\ req'[p].clash = req[p].clash
                       /\ \/ ~Matches(c, req[p].room, req[p].instr, req[p].win)
                          \/ c \in Own(p)
                          \/ Skipped(c, req[p].now)
<1> DEFINE Hit(c) == /\ Matches(c, req[p].room, req[p].instr, req[p].win)
                     /\ c \notin Own(p)
                     /\ ~Skipped(c, req[p].now)
<1>1. PICK c \in req[p].pending :
         /\ rowLock' = [rowLock EXCEPT ![c] = p]
         /\ Become(p, [req[p] EXCEPT !.pending = @ \ {c},
                                     !.clash = IF Hit(c) THEN @ \cup {c} ELSE @])
  BY DEF LockMatch
<1>2. req[p] \in Request /\ req \in [Requests -> Request]
  BY DEF Typed, TypeOK
<1>l. rowLock'[c] = p
  BY <1>1, <1>2 DEF Typed, TypeOK, Request
<1> HIDE DEF Hit
<1>3. req'[p] = [req[p] EXCEPT !.pending = @ \ {c},
                               !.clash = IF Hit(c) THEN @ \cup {c} ELSE @]
  BY <1>1, <1>2 DEF Become
<1>4. /\ req'[p].pc = req[p].pc
      /\ req'[p].now = req[p].now
      /\ req'[p].op = req[p].op
      /\ req'[p].booking = req[p].booking
      /\ req'[p].room = req[p].room
      /\ req'[p].instr = req[p].instr
      /\ req'[p].win = req[p].win
      /\ req'[p].pending = req[p].pending \ {c}
      /\ req'[p].clash = IF Hit(c) THEN req[p].clash \cup {c} ELSE req[p].clash
  BY <1>2, <1>3 DEF Request
<1>5. QED
  BY <1>4, <1>l DEF Hit

\* A request in flight keeps the now it captured, or captures the clock's.
LEMMA NowKept ==
    ASSUME Typed, NEW p \in Requests, Advances(p), req'[p].pc \in Timed
    PROVE  \/ req'[p].now = clock
           \/ req'[p].now = req[p].now /\ req[p].pc \in Timed
<1>t. req[p] \in Request
  BY DEF Typed, TypeOK
<1>1. CASE BeginHold(p) \/ Call(p)
  <2>1. CASE BeginHold(p)
    BY <2>1 DEF BeginHold, Become, Idle, Typed, TypeOK
  <2>2. CASE Call(p)
    BY <1>t, <2>2 DEF Call, Become, Request, Typed, TypeOK
  <2>3. QED
    BY <1>1, <2>1, <2>2
<1>2. CASE CheckCancel(p) \/ CheckReschedule(p)
  <2>1. ~Finish(p)
    BY DEF Finish, Become, Idle, Timed, Typed, TypeOK
  <2>2. /\ req[p].pc = "check"
        /\ \E s \in {"update", "row"} : Become(p, [req[p] EXCEPT !.pc = s])
    BY <1>2, <2>1 DEF CheckCancel, CheckReschedule
  <2>3. req'[p].now = req[p].now
    BY <1>t, <2>2 DEF Become, Request, Typed, TypeOK
  <2>4. QED
    BY <2>2, <2>3 DEF Timed
<1>3. CASE LockRow(p) \/ LockRoom(p)
  <2>1. CASE LockRow(p)
    BY <1>t, <2>1 DEF LockRow, Become, Request, Timed, Typed, TypeOK
  <2>2. CASE LockRoom(p)
    BY <1>t, <2>2 DEF LockRoom, Become, Request, Timed, Typed, TypeOK
  <2>3. QED
    BY <1>3, <2>1, <2>2
<1>4. CASE LockMatch(p)
  BY <1>t, <1>4, LockMatchKeeps DEF LockMatch, Timed
<1>5. CASE Confirm(p)
  BY <1>t, <1>5, AtAudit DEF Confirm, Become, Request, Timed, Typed, TypeOK
<1>6. QED
  BY <1>1, <1>2, <1>3, <1>4, <1>5 DEF Advances

-----------------------------------------------------------------------------
(* The parts of the inductive invariant, one lemma each.                   *)

\* Only holds carry a time to expire, and all of them do.
LEMMA ExpiryShapeStep ==
    ASSUME Typed, ExpiryShape, [Next]_vars
    PROVE  ExpiryShape'
<1> SUFFICES ASSUME NEW c \in Bookings
             PROVE /\ bookings'[c].status \in {"confirmed", "checked_in"} =>
                         bookings'[c].expires = NULL
                   /\ bookings'[c].status = "held" => bookings'[c].expires \in Nat
  BY DEF ExpiryShape
<1>1. RowStep(c)
  BY RowSteps
<1>2. bookings[c] \in Row
  BY DEF Typed, TypeOK
<1>3. CASE bookings'[c] = bookings[c]
  BY <1>3 DEF ExpiryShape
<1>4. CASE Ends(c)
  BY <1>4 DEF Ends, Live
<1>5. CASE ChecksIn(c)
  BY <1>2, <1>5 DEF ChecksIn, Row, ExpiryShape
<1>6. ASSUME NEW q \in Requests, Confirms(q, c)
      PROVE  bookings'[c].status = "confirmed" /\ bookings'[c].expires = NULL
  BY <1>2, <1>6 DEF Confirms, Row
<1>7. ASSUME NEW q \in Requests, Takes(q, c)
      PROVE  \/ bookings'[c].status = "held" /\ bookings'[c].expires \in Nat
             \/ /\ bookings'[c].status = bookings[c].status
                /\ bookings'[c].expires = bookings[c].expires
  <2>1. req[q].now + HoldTTL \in Nat
    BY ConstantsAssumption DEF Typed, TypeOK, Request
  <2>2. QED
    BY <1>7, <2>1 DEF Takes
<1>8. QED
  BY <1>1, <1>3, <1>4, <1>5, <1>6, <1>7 DEF RowStep, ExpiryShape

\* A request's now is at most MaxLag behind the clock.
LEMMA LagBoundedStep ==
    ASSUME Typed, LagBounded, [Next]_vars
    PROVE  LagBounded'
<1> SUFFICES ASSUME NEW p \in Requests, req'[p].pc \in Timed
             PROVE  req'[p].now <= clock' /\ clock' - req'[p].now <= MaxLag
  BY DEF LagBounded
<1>1. RequestStep(p) /\ (clock' = clock \/ Tick)
  BY RequestSteps, ClockSteps
<1>2. clock \in Nat /\ req[p] \in Request /\ req[p].now \in Nat /\ MaxLag \in Nat
  BY ConstantsAssumption DEF Typed, TypeOK, Request
<1>3. CASE req'[p] = req[p] /\ clock' = clock
  BY <1>3 DEF LagBounded
<1>4. CASE Tick
  BY <1>2, <1>4 DEF Tick, LagBounded
<1>5. CASE Advances(p)
  <2>1. \/ req'[p].now = clock
        \/ req'[p].now = req[p].now /\ req[p].pc \in Timed
    BY <1>5, NowKept
  <2>2. QED
    BY <1>2, <1>5, <2>1 DEF Advances, LagBounded
<1>6. QED
  BY <1>1, <1>3, <1>4, <1>5 DEF RequestStep

\* A room stays locked for the request whose overlap query runs under the lock.
LEMMA RoomLockKept ==
    ASSUME Typed, [Next]_vars, NEW p \in Requests, NEW r \in Rooms,
           roomLock[r] = p, req'[p].pc = "lock"
    PROVE  roomLock'[r] = p
<1> USE NullAssumption
<1>1. ASSUME NEW q \in Requests, LockRoom(q) PROVE roomLock'[r] = p
  BY <1>1 DEF LockRoom, Typed, TypeOK
<1>2. ASSUME NEW q \in Requests, NEW s, s.pc # "lock", Become(q, s),
             roomLock' = Unlock(roomLock, q)
      PROVE  roomLock'[r] = p
  <2>1. q # p
    BY <1>2 DEF Become, Typed, TypeOK
  <2>2. QED
    BY <1>2, <2>1 DEF Unlock, Typed, TypeOK
<1>3. ASSUME NEW q \in Requests, Refuse(q) \/ Rollback(q) PROVE roomLock'[r] = p
  BY <1>2, <1>3 DEF Refuse, Rollback, Release, Finish, Idle
<1>4. ASSUME NEW q \in Requests, CommitHold(q) \/ CommitReschedule(q)
      PROVE  roomLock'[r] = p
  <2>1. q # p
    BY <1>4, AtAudit DEF CommitHold, CommitReschedule
  <2>2. QED
    BY <1>4, <2>1 DEF CommitHold, CommitReschedule, Release, Unlock, Typed, TypeOK
<1>5. CASE Crash
  BY <1>5 DEF Crash, Idle
<1>6. CASE roomLock' = roomLock
  BY <1>6
<1>7. ASSUME NEW q \in Requests, Proceed(q) PROVE roomLock'[r] = p
  BY <1>1, <1>3, <1>4, <1>6, <1>7
     DEF Proceed, Call, CheckCancel, CheckReschedule, LockRow, LockMatch, Confirm,
         ConfirmExpire, Cancel, CheckIn, RecordTransition
<1>8. QED
  BY <1>3, <1>5, <1>6, <1>7
     DEF Next, BeginHold, Begin, Abort, DeadlockVictim, WorkerStep, WorkerTick,
         WorkerLock, WorkerCommit, WorkerAudit, WorkerRecord, WorkerFail,
         WorkerAuditLost, WorkerVictim, WorkerRollback, Tick, vars

\* So does a booking whose row the request has locked.
LEMMA RowLockKept ==
    ASSUME Typed, [Next]_vars, NEW p \in Requests, NEW c \in Bookings,
           rowLock[c] = p, req'[p].pc = "lock"
    PROVE  rowLock'[c] = p
<1> USE ConstantsAssumption, NullAssumption
<1>t. rowLock \in [Bookings -> Procs \cup {NULL}]
  BY DEF Typed, TypeOK
<1>1. ASSUME NEW q \in Requests, NEW d, Lockable(d, q),
             rowLock' = [rowLock EXCEPT ![d] = q]
      PROVE  rowLock'[c] = p
  BY <1>1, <1>t DEF Lockable
<1>2. ASSUME NEW q \in Requests, NEW s, s.pc # "lock", Become(q, s),
             rowLock' = Unlock(rowLock, q)
      PROVE  rowLock'[c] = p
  <2>1. q # p
    BY <1>2 DEF Become, Typed, TypeOK
  <2>2. QED
    BY <1>2, <1>t, <2>1 DEF Unlock
<1>3. ASSUME NEW q \in Requests, Refuse(q) \/ Rollback(q) PROVE rowLock'[c] = p
  BY <1>2, <1>3 DEF Refuse, Rollback, Release, Finish, Idle
<1>4. ASSUME NEW q \in Requests, CommitHold(q) \/ CommitReschedule(q)
      PROVE  rowLock'[c] = p
  <2>1. q # p
    BY <1>4, AtAudit DEF CommitHold, CommitReschedule
  <2>2. QED
    BY <1>4, <1>t, <2>1 DEF CommitHold, CommitReschedule, Release, Unlock
<1>5. ASSUME NEW q \in Requests, LockRow(q) \/ LockMatch(q) PROVE rowLock'[c] = p
  BY <1>1, <1>5 DEF LockRow, LockMatch
<1>6. CASE WorkerLock
  BY <1>6, <1>t DEF WorkerLock, Lockable
<1>7. CASE WorkerCommit \/ WorkerRollback
  BY <1>7, <1>t DEF WorkerCommit, WorkerRollback, Unlock
<1>8. CASE Crash
  BY <1>8 DEF Crash, Idle
<1>9. CASE rowLock' = rowLock
  BY <1>9
<1>10. ASSUME NEW q \in Requests, Proceed(q) PROVE rowLock'[c] = p
  BY <1>3, <1>4, <1>5, <1>9, <1>10
     DEF Proceed, Call, CheckCancel, CheckReschedule, LockRoom, Confirm,
         ConfirmExpire, Cancel, CheckIn, RecordTransition
<1>11. QED
  BY <1>3, <1>6, <1>7, <1>8, <1>9, <1>10
     DEF Next, BeginHold, Begin, Abort, DeadlockVictim, WorkerStep, WorkerTick,
         WorkerAudit, WorkerRecord, WorkerFail, WorkerAuditLost, WorkerVictim,
         Tick, vars

\* The room and the instructor of a booking that exists never change.
LEMMA RoomKept ==
    ASSUME Typed, [Next]_vars, NEW c \in Bookings, bookings[c].status # "none"
    PROVE  bookings'[c].room = bookings[c].room /\ bookings'[c].instr = bookings[c].instr
<1>1. RowStep(c) /\ bookings[c] \in Row
  BY RowSteps DEF Typed, TypeOK
<1>2. CASE bookings'[c] = bookings[c] \/ Ends(c) \/ ChecksIn(c)
  BY <1>1, <1>2 DEF Ends, ChecksIn, Row
<1>3. ASSUME NEW q \in Requests, Confirms(q, c) \/ Takes(q, c)
      PROVE  bookings'[c].room = bookings[c].room /\ bookings'[c].instr = bookings[c].instr
  BY <1>1, <1>3 DEF Confirms, Takes, Row
<1>4. QED
  BY <1>1, <1>2, <1>3 DEF RowStep

\* The overlap query runs under the lock of the room it is about.
LEMMA RoomLockedStep ==
    ASSUME Typed, RoomLocked, [Next]_vars
    PROVE  RoomLocked'
<1> SUFFICES ASSUME NEW p \in Requests
             PROVE  /\ req'[p].pc = "lock" => roomLock'[req'[p].room] = p
                    /\ req'[p].pc \in {"room", "lock"} /\ req'[p].op = "reschedule" =>
                          req'[p].room = bookings'[req'[p].booking].room
  BY DEF RoomLocked
<1>1. RequestStep(p) /\ req[p] \in Request
  BY RequestSteps DEF Typed, TypeOK
<1>2. CASE req'[p] = req[p]
  <2>1. ASSUME req[p].pc \in {"room", "lock"}
        PROVE  /\ req[p].room \in Rooms
               /\ req[p].booking \in Bookings
               /\ req[p].op = "reschedule" =>
                     bookings[req[p].booking].status # "none"
    BY <2>1, InFlight DEF Fits
  <2>2. req[p].pc = "lock" => roomLock'[req[p].room] = p
    BY <1>2, <2>1, RoomLockKept DEF RoomLocked
  <2>3. req[p].pc \in {"room", "lock"} /\ req[p].op = "reschedule" =>
           req[p].room = bookings'[req[p].booking].room
    BY <2>1, RoomKept DEF RoomLocked
  <2>4. QED
    BY <1>2, <2>2, <2>3
<1>3. CASE req'[p].pc \notin Timed
  BY <1>3 DEF Timed
<1>4. CASE Advances(p)
  <2>1. CASE BeginHold(p)
    BY <2>1 DEF BeginHold, Become, Idle, Typed, TypeOK
  <2>2. CASE Call(p)
    BY <1>1, <2>2 DEF Call, Become, Request, Typed, TypeOK
  <2>3. CASE CheckCancel(p)
    <3>1. req'[p].pc \in {"idle", "update"}
      BY <1>1, <2>3 DEF CheckCancel, Finish, Become, Idle, Request, Typed, TypeOK
    <3>2. QED
      BY <3>1
  <2>4. CASE CheckReschedule(p)
    <3>1. req'[p].pc \in {"idle", "row"}
      BY <1>1, <2>4 DEF CheckReschedule, Finish, Become, Idle, Request, Typed, TypeOK
    <3>2. QED
      BY <3>1
  <2>5. CASE LockRow(p)
    BY <1>1, <2>5 DEF LockRow, Become, Request, Typed, TypeOK
  <2>6. CASE LockRoom(p)
    <3>1. req[p].room \in Rooms
      BY <2>6, InFlight DEF LockRoom, Fits
    <3>2. /\ req'[p].room = req[p].room
          /\ req'[p].op = req[p].op
          /\ req'[p].booking = req[p].booking
      BY <1>1, <2>6 DEF LockRoom, Become, Request, Typed, TypeOK
    <3>3. roomLock'[req[p].room] = p
      BY <2>6, <3>1 DEF LockRoom, Typed, TypeOK
    <3>4. QED
      BY <2>6, <3>2, <3>3 DEF LockRoom, RoomLocked
  <2>7. CASE LockMatch(p)
    BY <2>7, LockMatchKeeps DEF LockMatch, RoomLocked
  <2>8. CASE Confirm(p)
    <3>1. req'[p].pc \in {"audit", "expire"}
      BY <1>1, <2>8, AtAudit DEF Confirm, Become, Request, Typed, TypeOK
    <3>2. QED
      BY <3>1
  <2>9. QED
    BY <1>4, <2>1, <2>2, <2>3, <2>4, <2>5, <2>6, <2>7, <2>8 DEF Advances
<1>5. QED
  BY <1>1, <1>2, <1>3, <1>4 DEF RequestStep

\* Where the two checks lead.
LEMMA CheckLeads ==
    ASSUME Typed, NEW p \in Requests
    PROVE  /\ CheckCancel(p) => req'[p].pc \in {"idle", "update"}
           /\ CheckReschedule(p) => req'[p].pc \in {"idle", "row"}
BY DEF CheckCancel, CheckReschedule, Finish, Become, Idle, Request, Typed, TypeOK

\* Only these two steps lead a request to the loop over the matching rows.
LEMMA ToLock ==
    ASSUME Typed, NEW p \in Requests, Advances(p), req'[p].pc = "lock"
    PROVE  LockRoom(p) \/ LockMatch(p)
<1>1. req[p] \in Request /\ req \in [Requests -> Request]
  BY DEF Typed, TypeOK
<1>2. ~BeginHold(p) /\ ~Call(p)
  <2>1. ~BeginHold(p)
    BY <1>1 DEF BeginHold, Become, Idle
  <2>2. ~Call(p)
    BY <1>1 DEF Call, Become, Request
  <2>3. QED
    BY <2>1, <2>2
<1>3. ~CheckCancel(p) /\ ~CheckReschedule(p)
  BY CheckLeads
<1>4. ~LockRow(p)
  <2>1. ASSUME NEW r, NEW i, Become(p, [req[p] EXCEPT !.pc = "room", !.room = r, !.instr = i])
        PROVE  req'[p].pc = "room"
    BY <1>1, <2>1 DEF Become, Request
  <2>2. QED
    BY <2>1 DEF LockRow
<1>5. ~Confirm(p)
  BY <1>1, AtAudit DEF Confirm, Become, Request
<1>6. QED
  BY <1>2, <1>3, <1>4, <1>5 DEF Advances

\* A reschedule gets to the room by locking its booking.
LEMMA ToRoom ==
    ASSUME Typed, NEW p \in Requests, Advances(p), req'[p].pc = "room",
           req'[p].op = "reschedule"
    PROVE  LockRow(p)
<1>1. req[p] \in Request /\ req \in [Requests -> Request]
  BY DEF Typed, TypeOK
<1>2. ~BeginHold(p)
  BY <1>1 DEF BeginHold, Become, Idle
<1>3. ~Call(p)
  BY <1>1 DEF Call, Become, Request
<1>4. ~CheckCancel(p) /\ ~CheckReschedule(p)
  BY <1>1, CheckLeads
<1>5. ~LockRoom(p)
  BY <1>1 DEF LockRoom, Become, Request
<1>6. ~LockMatch(p)
  BY LockMatchKeeps DEF LockMatch
<1>7. ~Confirm(p)
  BY <1>1, AtAudit DEF Confirm, Become, Request
<1>8. QED
  BY <1>2, <1>3, <1>4, <1>5, <1>6, <1>7 DEF Advances

\* A cancellation gets to its UPDATE by the check of the 24 hour rule.
LEMMA ToCancel ==
    ASSUME Typed, NEW p \in Requests, Advances(p), req'[p].pc = "update",
           req'[p].op = "cancel"
    PROVE  CheckCancel(p)
<1>1. req[p] \in Request /\ req \in [Requests -> Request]
  BY DEF Typed, TypeOK
<1>2. ~BeginHold(p)
  BY <1>1 DEF BeginHold, Become, Idle
<1>3. ~Call(p)
  BY <1>1 DEF Call, Become, Request
<1>4. ~CheckReschedule(p)
  BY <1>1, CheckLeads
<1>5. ~LockRow(p)
  <2>1. ASSUME NEW r, NEW i, Become(p, [req[p] EXCEPT !.pc = "room", !.room = r, !.instr = i])
        PROVE  req'[p].pc = "room"
    BY <1>1, <2>1 DEF Become, Request
  <2>2. QED
    BY <2>1 DEF LockRow
<1>6. ~LockRoom(p)
  BY <1>1 DEF LockRoom, Become, Request
<1>7. ~LockMatch(p)
  BY LockMatchKeeps DEF LockMatch
<1>8. ~Confirm(p)
  BY <1>1, AtAudit DEF Confirm, Become, Request
<1>9. QED
  BY <1>2, <1>3, <1>4, <1>5, <1>6, <1>7, <1>8 DEF Advances

\* While a request has the room locked, nothing appears in the room that its
\* overlap query has missed. The one step that could bring an obstacle back to
\* life is a Confirm with a stale now, of a hold the scan skipped as lapsed: it
\* has to wait for the row lock that the scan took first.
LEMMA ScanCompleteStep ==
    ASSUME Typed, ExpiryShape, RoomLocked, ScanComplete, [Next]_vars
    PROVE  ScanComplete'
<1> SUFFICES ASSUME NEW p \in Requests, req'[p].pc = "lock",
                    NEW c \in Bookings,
                    c \notin req'[p].pending, c \notin req'[p].clash, c \notin Own(p)',
                    bookings'[c].status \in Live,
                    bookings'[c].room = req'[p].room,
                    Overlap(bookings'[c].win, req'[p].win)
             PROVE  Skipped(c, req[p].now)' /\ rowLock'[c] = p
  BY DEF ScanComplete
<1>1. RequestStep(p) /\ RowStep(c) /\ bookings[c] \in Row /\ req[p] \in Request
  BY RequestSteps, RowSteps DEF Typed, TypeOK
<1>2. CASE req'[p] = req[p]
  <2>1. /\ req[p].pc = "lock"
        /\ c \notin req[p].pending /\ c \notin req[p].clash /\ c \notin Own(p)
        /\ req[p].room = bookings'[c].room
        /\ Overlap(bookings'[c].win, req[p].win)
    BY <1>2 DEF Own
  <2>2. ASSUME bookings[c].status \in Live, bookings[c].room = bookings'[c].room,
               bookings[c].win = bookings'[c].win
        PROVE  /\ bookings[c].expires # NULL /\ req[p].now > bookings[c].expires
               /\ rowLock[c] = p
    BY <2>1, <2>2 DEF ScanComplete, Skipped
  <2>3. CASE bookings'[c] = bookings[c]
    BY <1>2, <2>2, <2>3, RowLockKept DEF Skipped
  <2>4. ~Ends(c)
    BY DEF Ends, Live
  <2>5. ~ChecksIn(c)
    <3> SUFFICES ASSUME ChecksIn(c) PROVE FALSE
      OBVIOUS
    <3>1. /\ bookings[c].status = "confirmed"
          /\ bookings[c].room = bookings'[c].room
          /\ bookings[c].win = bookings'[c].win
      BY <1>1 DEF ChecksIn, Row
    <3>2. bookings[c].expires = NULL
      BY <3>1 DEF ExpiryShape
    <3>3. QED
      BY <2>2, <3>1, <3>2 DEF Live
  <2>6. ASSUME NEW q \in Requests PROVE ~Confirms(q, c)
    <3> SUFFICES ASSUME Confirms(q, c) PROVE FALSE
      OBVIOUS
    <3>1. /\ bookings[c].status = "held"
          /\ bookings[c].room = bookings'[c].room
          /\ bookings[c].win = bookings'[c].win
      BY <1>1 DEF Confirms, Confirmable, Row
    <3>2. rowLock[c] = p /\ q # p
      BY <2>1, <2>2, <3>1 DEF Live, Confirms
    <3>3. QED
      BY <3>2, NullAssumption DEF Confirms, Lockable
  <2>7. ASSUME NEW q \in Requests PROVE ~Takes(q, c)
    <3> SUFFICES ASSUME Takes(q, c) PROVE FALSE
      OBVIOUS
    <3>1. req[q].room = bookings'[c].room
      BY DEF Takes, ScanDone, RoomLocked
    <3>2. roomLock[req[q].room] = q /\ roomLock[req[p].room] = p
      BY <2>1 DEF Takes, ScanDone, RoomLocked
    <3>3. q # p
      BY DEF Takes
    <3>4. QED
      BY <2>1, <3>1, <3>2, <3>3
  <2>8. QED
    BY <1>1, <2>3, <2>4, <2>5, <2>6, <2>7 DEF RowStep
<1>3. CASE Advances(p)
  <2>1. bookings' = bookings
    BY <1>3 DEF Advances
  <2>2. CASE LockRoom(p)
    <3>1. /\ req'[p].pending = {d \in Bookings :
                 Matches(d, req[p].room, req[p].instr, req[p].win)}
          /\ req'[p].room = req[p].room
          /\ req'[p].win = req[p].win
      BY <1>1, <2>2 DEF LockRoom, Become, Request, Typed, TypeOK
    <3>2. QED
      BY <2>1, <3>1 DEF Matches
  <2>3. CASE LockMatch(p)
    <3>1. PICK d \in req[p].pending :
             /\ rowLock'[d] = p
             /\ req'[p].pending = req[p].pending \ {d}
             /\ \/ req'[p].clash = req[p].clash \cup {d}
                \/ /\ req'[p].clash = req[p].clash
                   /\ \/ ~Matches(d, req[p].room, req[p].instr, req[p].win)
                      \/ d \in Own(p)
                      \/ Skipped(d, req[p].now)
      BY <2>3, LockMatchKeeps
    <3>2. /\ req'[p].now = req[p].now
          /\ req'[p].room = req[p].room
          /\ req'[p].win = req[p].win
          /\ Own(p)' = Own(p)
      BY <2>3, LockMatchKeeps DEF Own
    <3>3. CASE c = d
      <4>1. Matches(c, req[p].room, req[p].instr, req[p].win) /\ c \notin Own(p)
        BY <2>1, <3>2 DEF Matches
      <4>2. Skipped(c, req[p].now)
        BY <3>1, <3>3, <4>1
      <4>3. QED
        BY <2>1, <3>1, <3>2, <3>3, <4>2 DEF Skipped
    <3>4. CASE c # d
      <4>1. c \notin req[p].pending /\ c \notin req[p].clash /\ c \notin Own(p)
        BY <3>1, <3>2, <3>4
      <4>2. Skipped(c, req[p].now) /\ rowLock[c] = p
        BY <2>1, <2>3, <3>2, <4>1 DEF LockMatch, ScanComplete
      <4>3. QED
        BY <2>1, <3>2, <4>2, RowLockKept DEF Skipped
    <3>5. QED
      BY <3>3, <3>4
  <2>4. QED
    BY <1>3, <2>2, <2>3, ToLock
<1>4. QED
  BY <1>1, <1>2, <1>3 DEF RequestStep, Timed

\* A confirmation that comes after the hold's time is over by the clock.
ConfirmsLate(c) ==
    /\ bookings[c].status = "held" /\ clock > bookings[c].expires
    /\ bookings'[c].status = "confirmed"

\* A booking that occupies its room after a step was put there by a request that
\* had scanned the room, or was there before, for the same window, and occupied
\* it already unless it is confirmed late.
LEMMA OccupiesStep ==
    ASSUME Typed, ExpiryShape, [Next]_vars,
           NEW c \in Bookings, Occupies(c)',
           \A q \in Requests : ~Takes(q, c)
    PROVE  /\ Occupies(c) \/ ConfirmsLate(c)
           /\ bookings'[c].room = bookings[c].room
           /\ bookings'[c].win = bookings[c].win
<1>1. RowStep(c) /\ bookings[c] \in Row /\ clock \in Nat /\ clock' \in {clock, clock + 1}
  BY RowSteps, ClockSteps DEF Tick, Typed, TypeOK
<1>2. CASE bookings'[c] = bookings[c]
  <2>1. CASE bookings[c].status = "held"
    <3>1. bookings[c].expires \in Nat /\ clock' <= bookings[c].expires
      BY <1>2, <2>1 DEF ExpiryShape, Occupies
    <3>2. QED
      BY <1>1, <1>2, <2>1, <3>1 DEF Occupies
  <2>2. CASE bookings[c].status # "held"
    BY <1>2, <2>2 DEF Occupies
  <2>3. QED
    BY <2>1, <2>2
<1>3. CASE Ends(c)
  BY <1>3 DEF Ends, Occupies, Live
<1>4. CASE ChecksIn(c)
  BY <1>1, <1>4 DEF ChecksIn, Occupies, Row
<1>5. ASSUME NEW q \in Requests, Confirms(q, c)
      PROVE  /\ Occupies(c) \/ ConfirmsLate(c)
             /\ bookings'[c].room = bookings[c].room
             /\ bookings'[c].win = bookings[c].win
  <2>1. /\ bookings[c].status = "held"
        /\ bookings'[c].status = "confirmed"
        /\ bookings[c].room = bookings'[c].room
        /\ bookings[c].win = bookings'[c].win
    BY <1>1, <1>5 DEF Confirms, Confirmable, Row
  <2>2. bookings[c].expires \in Nat
    BY <2>1 DEF ExpiryShape
  <2>3. clock <= bookings[c].expires \/ clock > bookings[c].expires
    BY <1>1, <2>2
  <2>4. QED
    BY <2>1, <2>3 DEF Occupies, ConfirmsLate
<1>6. QED
  BY <1>1, <1>2, <1>3, <1>4, <1>5 DEF RowStep

\* The now of a late confirmation is at least two ticks old.
LEMMA LateNeedsLag ==
    ASSUME Typed, ExpiryShape, LagBounded, [Next]_vars, NEW c \in Bookings,
           ConfirmsLate(c)
    PROVE  MaxLag > 1
<1>1. bookings[c].expires \in Nat /\ RowStep(c) /\ bookings[c] \in Row
  BY RowSteps DEF ConfirmsLate, ExpiryShape, Typed, TypeOK
<1>2. PICK q \in Requests : Confirms(q, c)
  BY <1>1 DEF ConfirmsLate, RowStep, Ends, ChecksIn, Takes, Live
<1>3. bookings[c].expires > req[q].now
  BY <1>1, <1>2, NullAssumption DEF Confirms, Confirmable
<1>4. clock - req[q].now <= MaxLag
  BY <1>2 DEF LagBounded, Timed, Confirms
<1>5. req[q].now \in Nat /\ MaxLag \in Nat /\ clock \in Nat
  BY ConstantsAssumption DEF Typed, TypeOK, Request
<1>6. QED
  BY <1>1, <1>3, <1>4, <1>5 DEF ConfirmsLate

\* Where a request puts its booking, no other booking is in the way.
LEMMA TakesFree ==
    ASSUME Typed, ExpiryShape, LagBounded, RoomLocked, ScanComplete,
           NEW q \in Requests, NEW b \in Bookings, NEW c \in Bookings, b # c,
           Takes(q, b), Occupies(c)', bookings'[b].room = bookings'[c].room
    PROVE  ~Overlap(bookings'[c].win, bookings'[b].win)
<1> SUFFICES ASSUME Overlap(bookings'[c].win, bookings'[b].win) PROVE FALSE
  OBVIOUS
<1>1. /\ bookings'[c] = bookings[c] /\ clock' = clock
      /\ req[q].pc = "lock" /\ req[q].pending = {} /\ req[q].clash = {}
      /\ bookings'[b].win = req[q].win
  BY DEF Takes, ScanDone, Conflicts
<1>2. c \notin Own(q)
  BY DEF Takes, Own
<1>3. bookings'[b].room = req[q].room
  BY DEF Takes, ScanDone, RoomLocked
<1>4. bookings[c].status \in Live
  BY <1>1 DEF Occupies, Live
<1>5. bookings[c].expires # NULL /\ req[q].now > bookings[c].expires
  BY <1>1, <1>2, <1>3, <1>4 DEF ScanComplete, Skipped
<1>6. bookings[c].status = "held" /\ clock <= bookings[c].expires
  BY <1>1, <1>5 DEF Occupies, ExpiryShape
<1>7. bookings[c].expires \in Nat
  BY <1>6 DEF ExpiryShape
<1>8. req[q].now <= clock /\ req[q].now \in Nat /\ clock \in Nat
  BY <1>1 DEF LagBounded, Timed, Typed, TypeOK, Request
<1>9. QED
  BY <1>5, <1>6, <1>7, <1>8

\* Every window runs between two integers, so overlapping is symmetric.
LEMMA OverlapSymmetric ==
    ASSUME NEW v \in Windows, NEW w \in Windows
    PROVE  Overlap(v, w) <=> Overlap(w, v)
<1>1. v.start \in Int /\ v.end \in Int /\ w.start \in Int /\ w.end \in Int
  BY ConstantsAssumption
<1>2. QED
  BY <1>1 DEF Overlap

\* Unless a hold is confirmed late, rooms stay given away once.
LEMMA RoomExclusiveStep ==
    ASSUME Typed, ExpiryShape, LagBounded, RoomLocked, ScanComplete,
           RoomExclusive, [Next]_vars, \A c \in Bookings : ~ConfirmsLate(c)
    PROVE  RoomExclusive'
<1> SUFFICES ASSUME NEW b \in Bookings, NEW c \in Bookings, b # c,
                    Occupies(b)', Occupies(c)',
                    bookings'[b].room = bookings'[c].room
             PROVE  ~Overlap(bookings'[b].win, bookings'[c].win)
  BY DEF RoomExclusive
<1>1. CASE \E q \in Requests : Takes(q, c)
  BY <1>1, TakesFree
<1>2. CASE \E q \in Requests : Takes(q, b)
  <2>1. ~Overlap(bookings'[c].win, bookings'[b].win)
    BY <1>2, TakesFree
  <2>2. bookings'[b].win \in Windows /\ bookings'[c].win \in Windows
    <3>1. Typed'
      BY NextTyped
    <3>2. bookings'[b].status # "none" /\ bookings'[c].status # "none"
      BY DEF Occupies
    <3>3. QED
      BY <3>1, <3>2 DEF Typed, TypeOK, Complete
  <2>3. QED
    BY <2>1, <2>2, OverlapSymmetric
<1>3. CASE \A q \in Requests : ~Takes(q, b) /\ ~Takes(q, c)
  BY <1>3, OccupiesStep DEF RoomExclusive
<1>4. QED
  BY <1>1, <1>2, <1>3

-----------------------------------------------------------------------------

\* The conjunction IInv is inductive: it holds when the tables are empty and
\* every step of every request, of the worker, of the database and of time
\* preserves it, however late a request's time.Now() is used.
THEOREM Inductive == Spec => []IInv
<1>1. Init => IInv
  <2> SUFFICES ASSUME Init PROVE IInv
    OBVIOUS
  <2>1. Typed
    BY InitTyped
  <2>2. \A p \in Requests : req[p].pc = "idle"
    BY DEF Init, Idle
  <2>3. \A b \in Bookings : bookings[b].status = "none"
    BY DEF Init, NoRow
  <2>4. ExpiryShape
    BY <2>3 DEF ExpiryShape
  <2>5. LagBounded /\ RoomLocked /\ ScanComplete
    BY <2>2 DEF LagBounded, RoomLocked, ScanComplete, Timed
  <2>6. QED
    BY <2>1, <2>4, <2>5 DEF IInv, Typed
<1>2. IInv /\ [Next]_vars => IInv'
  <2> SUFFICES ASSUME IInv, [Next]_vars PROVE IInv'
    OBVIOUS
  <2>1. Typed
    BY DEF IInv, Typed
  <2>2. Typed'
    BY <2>1, NextTyped
  <2>3. ExpiryShape' /\ LagBounded' /\ RoomLocked'
    BY <2>1, ExpiryShapeStep, LagBoundedStep, RoomLockedStep DEF IInv
  <2>4. ScanComplete'
    BY <2>1, ScanCompleteStep DEF IInv
  <2>5. QED
    BY <2>2, <2>3, <2>4 DEF IInv, Typed
<1>3. QED
  BY <1>1, <1>2, PTL DEF Spec

\* No room is ever given to two bookings for overlapping windows, whatever the
\* interleaving of CreateHold, Reschedule, Confirm, Cancel, CheckIn, the expiry
\* worker, rollbacks, deadlock victims and crashes, as long as a handler's
\* time.Now() is at most one tick old when its statements run.
THEOREM RoomExclusion ==
    ASSUME MaxLag <= 1
    PROVE  Spec => []RoomExclusive
<1>1. Init => RoomExclusive
  BY DEF Init, NoRow, RoomExclusive, Occupies
<1>2. IInv /\ RoomExclusive /\ [Next]_vars => RoomExclusive'
  <2> SUFFICES ASSUME IInv, RoomExclusive, [Next]_vars PROVE RoomExclusive'
    OBVIOUS
  <2>1. Typed
    BY DEF IInv, Typed
  <2>2. ASSUME NEW c \in Bookings PROVE ~ConfirmsLate(c)
    BY <2>1, LateNeedsLag, ConstantsAssumption DEF IInv
  <2>3. QED
    BY <2>1, <2>2, RoomExclusiveStep DEF IInv
<1>3. QED
  BY <1>1, <1>2, Inductive, PTL DEF Spec

\* However late times are used: a room is given away twice by no step but the
\* confirmation of a hold that has lapsed by the clock.
THEOREM LateConfirmsOnly == Spec => OnlyLateConfirms
<1>1. IInv /\ [Next]_vars =>
         (RoomExclusive /\ ~RoomExclusive' =>
             \E b \in Bookings :
                 /\ bookings[b].status = "held" /\ clock > bookings[b].expires
                 /\ bookings'[b].status = "confirmed")
  <2> SUFFICES ASSUME IInv, [Next]_vars, RoomExclusive, ~RoomExclusive'
               PROVE  \E b \in Bookings :
                         /\ bookings[b].status = "held" /\ clock > bookings[b].expires
                         /\ bookings'[b].status = "confirmed"
    OBVIOUS
  <2>1. Typed
    BY DEF IInv, Typed
  <2>2. \E b \in Bookings : ConfirmsLate(b)
    BY <2>1, RoomExclusiveStep DEF IInv
  <2>3. QED
    BY <2>2 DEF ConfirmsLate
<1>2. QED
  BY <1>1, Inductive, PTL DEF Spec, OnlyLateConfirms

-----------------------------------------------------------------------------
(* Requests one at a time. The worker, faults and deadlines go on as       *)
(* before, and a request may take as long as it likes.                     *)

OneSlot == \A p, q \in Requests : p = q

\* While the only request reads, rows change by the worker's hand only.
LEMMA SerialScanStep ==
    ASSUME OneSlot, Typed, SerialScan, [Next]_vars
    PROVE  SerialScan'
<1> SUFFICES ASSUME NEW p \in Requests
             PROVE /\ req'[p].pc = "lock" =>
                        \A c \in Bookings \ (req'[p].pending \cup req'[p].clash \cup Own(p)') :
                            Matches(c, req[p].room, req[p].instr, req[p].win)' =>
                                Skipped(c, req[p].now)'
                   /\ req'[p].pc \in {"room", "lock"} /\ req'[p].op = "reschedule" =>
                        req'[p].instr = bookings'[req'[p].booking].instr
  BY DEF SerialScan
<1>1. RequestStep(p) /\ req[p] \in Request
  BY RequestSteps DEF Typed, TypeOK
<1>2. ASSUME req'[p].pc = "lock", NEW c \in Bookings,
             c \notin req'[p].pending, c \notin req'[p].clash, c \notin Own(p)',
             Matches(c, req[p].room, req[p].instr, req[p].win)'
      PROVE  Skipped(c, req[p].now)'
  <2>1. RowStep(c) /\ bookings[c] \in Row
    BY RowSteps DEF Typed, TypeOK
  <2>2. CASE req'[p] = req[p]
    <3>1. req[p].pc = "lock" /\ c \notin req[p].pending \cup req[p].clash \cup Own(p)
      BY <1>2, <2>2 DEF Own
    <3>2. ASSUME bookings[c].status \in Live, bookings[c].room = bookings'[c].room,
                 bookings[c].instr = bookings'[c].instr, bookings[c].win = bookings'[c].win,
                 bookings[c].expires = bookings'[c].expires
          PROVE  Skipped(c, req[p].now)'
      <4>1. Matches(c, req[p].room, req[p].instr, req[p].win)
        BY <1>2, <2>2, <3>2 DEF Matches
      <4>2. Skipped(c, req[p].now)
        BY <3>1, <4>1 DEF SerialScan
      <4>3. QED
        BY <2>2, <3>2, <4>2 DEF Skipped
    <3>3. CASE bookings'[c] = bookings[c]
      BY <1>2, <3>2, <3>3 DEF Matches
    <3>4. ~Ends(c)
      BY <1>2 DEF Ends, Matches, Live
    <3>5. CASE ChecksIn(c)
      BY <2>1, <3>2, <3>5 DEF ChecksIn, Row, Live
    <3>6. ASSUME NEW q \in Requests PROVE ~Confirms(q, c) /\ ~Takes(q, c)
      <4>1. q = p
        BY DEF OneSlot
      <4>2. QED
        BY <1>2, <3>1, <4>1 DEF Confirms, Takes
    <3>7. QED
      BY <2>1, <3>3, <3>4, <3>5, <3>6 DEF RowStep
  <2>3. CASE Advances(p)
    <3>1. bookings' = bookings
      BY <2>3 DEF Advances
    <3>2. CASE LockRoom(p)
      <4>1. /\ req'[p].pending = {d \in Bookings :
                   Matches(d, req[p].room, req[p].instr, req[p].win)}
            /\ req'[p].room = req[p].room
            /\ req'[p].instr = req[p].instr
            /\ req'[p].win = req[p].win
        BY <1>1, <3>2 DEF LockRoom, Become, Request, Typed, TypeOK
      <4>2. QED
        BY <1>2, <3>1, <4>1 DEF Matches
    <3>3. CASE LockMatch(p)
      <4>1. PICK d \in req[p].pending :
               /\ req'[p].pending = req[p].pending \ {d}
               /\ \/ req'[p].clash = req[p].clash \cup {d}
                  \/ /\ req'[p].clash = req[p].clash
                     /\ \/ ~Matches(d, req[p].room, req[p].instr, req[p].win)
                        \/ d \in Own(p)
                        \/ Skipped(d, req[p].now)
        BY <3>3, LockMatchKeeps
      <4>2. /\ req'[p].now = req[p].now
            /\ Own(p)' = Own(p)
            /\ Matches(c, req[p].room, req[p].instr, req[p].win)
        BY <1>2, <3>1, <3>3, LockMatchKeeps DEF Own, Matches
      <4>3. Skipped(c, req[p].now)
        <5>1. CASE c = d
          BY <1>2, <4>1, <4>2, <5>1
        <5>2. CASE c # d
          <6>1. c \notin req[p].pending \cup req[p].clash \cup Own(p)
            BY <1>2, <4>1, <4>2, <5>2
          <6>2. QED
            BY <3>3, <4>2, <6>1 DEF LockMatch, SerialScan
        <5>3. QED
          BY <5>1, <5>2
      <4>4. QED
        BY <3>1, <4>2, <4>3 DEF Skipped
    <3>4. QED
      BY <1>2, <2>3, <3>2, <3>3, ToLock
  <2>4. QED
    BY <1>1, <1>2, <2>2, <2>3 DEF RequestStep, Timed
<1>3. ASSUME req'[p].pc \in {"room", "lock"}, req'[p].op = "reschedule"
      PROVE  req'[p].instr = bookings'[req'[p].booking].instr
  <2>1. CASE req'[p] = req[p]
    <3>1. req[p].booking \in Bookings /\ bookings[req[p].booking].status # "none"
      BY <1>3, <2>1, InFlight DEF Fits
    <3>2. QED
      BY <1>3, <2>1, <3>1, RoomKept DEF SerialScan
  <2>2. CASE Advances(p)
    <3>1. bookings' = bookings
      BY <2>2 DEF Advances
    <3>2. CASE req'[p].pc = "lock"
      <4>1. /\ req[p].pc \in {"room", "lock"}
            /\ req'[p].op = req[p].op
            /\ req'[p].booking = req[p].booking
            /\ req'[p].instr = req[p].instr
        <5>1. CASE LockRoom(p)
          BY <1>1, <5>1 DEF LockRoom, Become, Request, Typed, TypeOK
        <5>2. CASE LockMatch(p)
          BY <5>2, LockMatchKeeps DEF LockMatch
        <5>3. QED
          BY <2>2, <3>2, <5>1, <5>2, ToLock
      <4>2. QED
        BY <1>3, <3>1, <4>1 DEF SerialScan
    <3>3. CASE req'[p].pc = "room"
      <4>1. LockRow(p)
        BY <1>3, <2>2, <3>3, ToRoom
      <4>2. /\ req'[p].instr = bookings[req[p].booking].instr
            /\ req'[p].booking = req[p].booking
        BY <1>1, <4>1 DEF LockRow, Become, Request, Typed, TypeOK
      <4>3. QED
        BY <3>1, <4>2
    <3>4. QED
      BY <1>3, <3>2, <3>3
  <2>3. QED
    BY <1>1, <1>3, <2>1, <2>2 DEF RequestStep, Timed
<1>4. QED
  BY <1>2, <1>3

\* A hold that is over stays over until it is moved or ends.
LEMMA LapsedStays ==
    ASSUME Typed, ExpiryShape, [Next]_vars, NEW b \in Bookings, Lapsed(b),
           bookings'[b].status \in Live, \A q \in Requests : ~Takes(q, b)
    PROVE  Lapsed(b)'
<1>1. /\ RowStep(b) /\ bookings[b] \in Row /\ bookings[b].expires \in Nat
      /\ clock \in Nat /\ clock' \in {clock, clock + 1}
  BY RowSteps, ClockSteps DEF Tick, Typed, TypeOK, Lapsed, ExpiryShape
<1>2. ASSUME NEW q \in Requests PROVE ~Confirms(q, b)
  <2>1. req[q].now \in Nat
    BY DEF Typed, TypeOK, Request
  <2>2. QED
    BY <1>1, <2>1, NullAssumption DEF Confirms, Confirmable, Lapsed, Timed
<1>3. bookings'[b] = bookings[b]
  BY <1>1, <1>2 DEF RowStep, Ends, ChecksIn, Live, Lapsed
<1>4. bookings[b].expires < clock'
  BY <1>1 DEF Lapsed
<1>5. ASSUME NEW p \in Requests, req'[p].pc \in Timed
      PROVE  bookings[b].expires < req'[p].now
  <2>1. RequestStep(p)
    BY RequestSteps
  <2>2. CASE req'[p] = req[p]
    BY <1>5, <2>2 DEF Lapsed
  <2>3. CASE Advances(p)
    BY <1>5, <2>3, NowKept DEF Lapsed
  <2>4. QED
    BY <1>5, <2>1, <2>2, <2>3 DEF RequestStep
<1>6. QED
  BY <1>3, <1>4, <1>5 DEF Lapsed

\* Where the only request puts its booking, whatever else wants the room or the
\* instructor is over.
LEMMA TakesApart ==
    ASSUME OneSlot, Typed, ExpiryShape, LagBounded, RoomLocked, SerialScan,
           NEW q \in Requests, NEW b \in Bookings, NEW c \in Bookings, b # c,
           Takes(q, b),
           Matches(c, bookings[b].room, bookings[b].instr, bookings[b].win)'
    PROVE  Lapsed(c)'
<1>1. /\ bookings'[c] = bookings[c] /\ clock' = clock
      /\ req[q].pc = "lock" /\ req[q].pending = {} /\ req[q].clash = {}
      /\ bookings'[b].win = req[q].win /\ c \notin Own(q)
  BY DEF Takes, ScanDone, Conflicts, Own
<1>2. bookings'[b].room = req[q].room /\ bookings'[b].instr = req[q].instr
  BY DEF Takes, ScanDone, RoomLocked, SerialScan
<1>3. Matches(c, req[q].room, req[q].instr, req[q].win)
  BY <1>1, <1>2 DEF Matches
<1>4. bookings[c].expires # NULL /\ req[q].now > bookings[c].expires
  BY <1>1, <1>3 DEF SerialScan, Skipped
<1>5. bookings[c].status = "held" /\ bookings[c].expires \in Nat
  BY <1>3, <1>4 DEF Matches, Live, ExpiryShape
<1>6. req[q].now <= clock /\ req[q].now \in Nat /\ clock \in Nat
  BY <1>1 DEF LagBounded, Timed, Typed, TypeOK, Request
<1>7. \A p \in Requests : req'[p].pc = "audit"
  BY DEF OneSlot, Takes
<1>8. QED
  BY <1>1, <1>4, <1>5, <1>6, <1>7 DEF Lapsed, Timed

\* A live booking that no request puts anywhere was live and is where it was.
LEMMA StaysPut ==
    ASSUME Typed, [Next]_vars, NEW b \in Bookings, bookings'[b].status \in Live,
           \A q \in Requests : ~Takes(q, b)
    PROVE  /\ bookings[b].status \in Live
           /\ bookings'[b].room = bookings[b].room
           /\ bookings'[b].instr = bookings[b].instr
           /\ bookings'[b].win = bookings[b].win
<1>1. RowStep(b) /\ bookings[b] \in Row
  BY RowSteps DEF Typed, TypeOK
<1>2. ~Ends(b)
  BY DEF Ends, Live
<1>3. CASE ChecksIn(b)
  BY <1>1, <1>3 DEF ChecksIn, Row, Live
<1>4. CASE \E q \in Requests : Confirms(q, b)
  BY <1>1, <1>4 DEF Confirms, Confirmable, Row, Live
<1>5. QED
  BY <1>1, <1>2, <1>3, <1>4 DEF RowStep

LEMMA ApartStep ==
    ASSUME OneSlot, Typed, ExpiryShape, LagBounded, RoomLocked, SerialScan, Apart,
           [Next]_vars
    PROVE  Apart'
<1> SUFFICES ASSUME NEW b \in Bookings, NEW c \in Bookings, b # c,
                    bookings'[b].status \in Live,
                    Matches(c, bookings[b].room, bookings[b].instr, bookings[b].win)'
             PROVE  Lapsed(b)' \/ Lapsed(c)'
  BY DEF Apart
<1>1. CASE \E q \in Requests : Takes(q, b)
  BY <1>1, TakesApart
<1>2. CASE \E q \in Requests : Takes(q, c)
  <2>1. bookings'[b].win \in Windows /\ bookings'[c].win \in Windows
    <3>1. Typed'
      BY NextTyped
    <3>2. bookings'[b].status # "none" /\ bookings'[c].status # "none"
      BY DEF Matches, Live
    <3>3. QED
      BY <3>1, <3>2 DEF Typed, TypeOK, Complete
  <2>2. Matches(b, bookings[c].room, bookings[c].instr, bookings[c].win)'
    BY <2>1, OverlapSymmetric DEF Matches
  <2>3. QED
    BY <1>2, <2>2, TakesApart
<1>3. CASE \A q \in Requests : ~Takes(q, b) /\ ~Takes(q, c)
  <2>1. bookings'[c].status \in Live
    BY DEF Matches
  <2>2. /\ bookings[b].status \in Live
        /\ Matches(c, bookings[b].room, bookings[b].instr, bookings[b].win)
    BY <1>3, <2>1, StaysPut DEF Matches
  <2>3. Lapsed(b) \/ Lapsed(c)
    BY <2>2 DEF Apart
  <2>4. QED
    BY <1>3, <2>1, <2>3, LapsedStays
<1>4. QED
  BY <1>1, <1>2, <1>3

\* Between the check of the 24 hour rule and the UPDATE nobody moves the start.
LEMMA CancelCheckedStep ==
    ASSUME OneSlot, Typed, CancelChecked, [Next]_vars
    PROVE  CancelChecked'
<1> SUFFICES ASSUME NEW p \in Requests, req'[p].pc = "update", req'[p].op = "cancel"
             PROVE  bookings'[req'[p].booking].win.start - req'[p].now >= Cutoff
  BY DEF CancelChecked
<1>1. RequestStep(p) /\ req[p] \in Request
  BY RequestSteps DEF Typed, TypeOK
<1>2. CASE req'[p] = req[p]
  <2> DEFINE b == req[p].booking
  <2>1. b \in Bookings /\ RowStep(b) /\ bookings[b] \in Row
    BY <1>2, InFlight, RowSteps
  <2>2. ASSUME NEW q \in Requests PROVE ~Takes(q, b)
    <3>1. q = p
      BY DEF OneSlot
    <3>2. QED
      BY <3>1 DEF Takes
  <2>3. bookings'[b].win = bookings[b].win
    <3>1. CASE ChecksIn(b)
      BY <2>1, <3>1 DEF ChecksIn, Row
    <3>2. CASE \E q \in Requests : Confirms(q, b)
      BY <2>1, <3>2 DEF Confirms, Row
    <3>3. QED
      BY <2>1, <2>2, <3>1, <3>2 DEF RowStep, Ends
  <2>4. QED
    BY <1>2, <2>3 DEF CancelChecked
<1>3. CASE Advances(p)
  <2>1. CheckCancel(p) /\ bookings' = bookings
    BY <1>3, ToCancel DEF Advances
  <2>2. ~Finish(p)
    BY DEF Finish, Become, Idle, Typed, TypeOK
  <2>3. /\ Become(p, [req[p] EXCEPT !.pc = "update"])
        /\ ~(bookings[req[p].booking].win.start - req[p].now < Cutoff)
    BY <2>1, <2>2 DEF CheckCancel
  <2>4. req'[p].booking = req[p].booking /\ req'[p].now = req[p].now
    BY <1>1, <2>3 DEF Become, Request, Typed, TypeOK
  <2>5. bookings[req[p].booking].win \in Windows
    <3>1. req[p].booking \in Bookings /\ bookings[req[p].booking].status # "none"
      BY <2>1, InFlight DEF CheckCancel, Fits
    <3>2. QED
      BY <3>1 DEF Typed, TypeOK, Complete
  <2>6. bookings[req[p].booking].win.start \in Int /\ req[p].now \in Nat /\ Cutoff \in Nat
    BY <1>1, <2>5, ConstantsAssumption DEF Request
  <2>7. QED
    BY <2>1, <2>3, <2>4, <2>6
<1>4. QED
  BY <1>1, <1>2, <1>3 DEF RequestStep, Timed

\* With one request at a time SerialInv is an invariant, however long requests
\* take and whatever the worker does meanwhile.
THEOREM SerialInvariant ==
    ASSUME OneSlot
    PROVE  Spec => []SerialInv
<1>1. Init => SerialScan /\ Apart /\ CancelChecked
  <2> SUFFICES ASSUME Init PROVE SerialScan /\ Apart /\ CancelChecked
    OBVIOUS
  <2>1. \A p \in Requests : req[p].pc = "idle"
    BY DEF Init, Idle
  <2>2. \A b \in Bookings : bookings[b].status \notin Live
    BY DEF Init, NoRow, Live
  <2>3. QED
    BY <2>1, <2>2 DEF SerialScan, Apart, CancelChecked
<1>2. IInv /\ (SerialScan /\ Apart /\ CancelChecked) /\ [Next]_vars =>
         (SerialScan /\ Apart /\ CancelChecked)'
  BY SerialScanStep, ApartStep, CancelCheckedStep DEF IInv, Typed
<1>3. IInv /\ (SerialScan /\ Apart /\ CancelChecked) => SerialInv
  BY DEF SerialInv
<1>4. QED
  BY <1>1, <1>2, <1>3, Inductive, PTL DEF Spec

\* Where requests do not overlap, no instructor and no room is given to two
\* bookings at once: the overlap query looks at both, and what it skips, or the
\* worker has not expired yet, cannot come back.
THEOREM SerialExclusion ==
    ASSUME OneSlot
    PROVE  Spec => [](InstructorExclusive /\ RoomExclusive)
<1>1. SerialInv => InstructorExclusive /\ RoomExclusive
  <2> SUFFICES ASSUME SerialInv, NEW b \in Bookings, NEW c \in Bookings, b # c,
                      Occupies(b), Occupies(c),
                      Overlap(bookings[b].win, bookings[c].win),
                      \/ bookings[b].room = bookings[c].room
                      \/ bookings[b].instr = bookings[c].instr
               PROVE  FALSE
    BY DEF InstructorExclusive, RoomExclusive
  <2>1. bookings[b].status \in Live /\ bookings[c].status \in Live
    BY DEF Occupies, Live
  <2>2. Matches(b, bookings[c].room, bookings[c].instr, bookings[c].win)
    BY <2>1 DEF Matches
  <2>3. Lapsed(b) \/ Lapsed(c)
    BY <2>1, <2>2 DEF SerialInv, Apart
  <2>4. ASSUME NEW x \in Bookings, Occupies(x) PROVE ~Lapsed(x)
    <3>1. bookings[x].status = "held" => bookings[x].expires \in Nat /\ clock \in Nat
      BY DEF SerialInv, IInv, ExpiryShape, TypeOK
    <3>2. QED
      BY <2>4, <3>1 DEF Occupies, Lapsed
  <2>5. QED
    BY <2>3, <2>4
<1>2. QED
  BY <1>1, SerialInvariant, PTL

\* Where requests do not overlap, a booking is rescheduled at most as often as
\* the limit allows.
THEOREM SerialReschedules ==
    ASSUME OneSlot
    PROVE  Spec => []RescheduleLimited
<1>1. Cardinality(Requests) = 1
  <2>1. PICK p : Requests = {p}
    BY ConstantsAssumption DEF OneSlot
  <2>2. QED
    BY <2>1, FS_Singleton
<1>2. RescheduleLimit - 1 + Cardinality(Requests) = RescheduleLimit
  BY <1>1, ConstantsAssumption
<1>3. RescheduleBound => RescheduleLimited
  BY <1>2 DEF RescheduleBound, RescheduleLimited
<1>4. QED
  BY <1>3, ReschedulesBounded, PTL

\* Where requests do not overlap, the 24 hour rule holds for the start that the
\* cancelled booking really has.
THEOREM SerialCancels ==
    ASSUME OneSlot
    PROVE  Spec => CancelsInTime
<1> DEFINE InTime(b) == \E p \in Requests : /\ req[p].booking = b
                                            /\ bookings[b].win.start - req[p].now >= Cutoff
<1>1. ASSUME SerialInv, [Next]_vars, NEW b \in Bookings,
             bookings[b].status # "cancelled", bookings'[b].status = "cancelled"
      PROVE  InTime(b)
  <2>1. Typed /\ CancelChecked
    BY <1>1 DEF SerialInv, IInv, Typed
  <2>2. RowStep(b) /\ bookings[b] \in Row
    BY <1>1, <2>1, RowSteps DEF Typed, TypeOK
  <2>3. ~ChecksIn(b)
    BY <1>1, <2>2 DEF ChecksIn, Row
  <2>4. ASSUME NEW q \in Requests PROVE ~Confirms(q, b) /\ ~Takes(q, b)
    BY <1>1, <2>2 DEF Confirms, Takes, Row
  <2>5. Ends(b)
    BY <1>1, <2>2, <2>3, <2>4 DEF RowStep
  <2>6. QED
    BY <1>1, <2>1, <2>5 DEF Ends, CancelChecked
<1>2. SerialInv /\ [Next]_vars =>
         \A b \in Bookings :
             bookings[b].status # "cancelled" /\ bookings'[b].status = "cancelled" => InTime(b)
  BY <1>1
<1>3. QED
  BY <1>2, SerialInvariant, PTL DEF Spec, CancelsInTime
=============================================================================
