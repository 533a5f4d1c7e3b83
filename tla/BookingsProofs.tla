--------------------------- MODULE BookingsProofs ---------------------------
(***************************************************************************)
(* Safety of Bookings, for every set of request slots, bookings, rooms,    *)
(* instructors and windows: type correctness first, then the invariant     *)
(* that no room is given away twice.                                       *)
(***************************************************************************)
EXTENDS Bookings, FiniteSetTheorems, TLAPS

\* The variables have their types and requests carry what their next
\* statement needs; neither is inductive without the other.
Typed == TypeOK /\ RequestOK /\ BatchExists

\* Freeing the locks of one process keeps a lock table a lock table.
LEMMA UnlockTyped ==
    ASSUME NEW D, NEW Owners, NEW lock \in [D -> Owners \cup {NULL}], NEW p
    PROVE  Unlock(lock, p) \in [D -> Owners \cup {NULL}]
BY DEF Unlock

LEMMA IdleTyped == Idle \in Request /\ (\A table : Fits(Idle, table))
BY NullAssumption DEF Idle, Request, PC, AllOps, Status, Live, Fits

\* A step of one request keeps the requests well formed, if its new record is
\* and the step takes no row out of the table.
LEMMA BecomeTyped ==
    ASSUME Typed, NEW p \in Requests, NEW r \in Request,
           Become(p, r), Fits(r, bookings'),
           \A b \in Bookings :
               bookings[b].status # "none" => bookings'[b].status # "none"
    PROVE  /\ req' \in [Requests -> Request] /\ RequestOK'
           /\ worker' = worker => BatchExists'
<1>1. req' \in [Requests -> Request]
  BY DEF Become, Typed, TypeOK
<1>2. ASSUME NEW q \in Requests PROVE Fits(req'[q], bookings')
  <2>1. CASE q = p
    BY <2>1 DEF Become, Typed, TypeOK
  <2>2. CASE q # p
    BY <2>2 DEF Become, Typed, TypeOK, RequestOK, Fits
  <2>3. QED
    BY <2>1, <2>2
<1>3. worker' = worker => BatchExists'
  BY DEF Typed, TypeOK, BatchExists, WorkerState
<1>4. QED
  BY <1>1, <1>2, <1>3 DEF RequestOK

\* A statement that writes one well-formed row keeps the table well formed.
LEMMA WriteTyped ==
    ASSUME Typed, NEW b \in Bookings, NEW n \in Row, Write(b, n), Complete(n),
           n.status # "none"
    PROVE  /\ bookings' \in [Bookings -> Row]
           /\ \A c \in Bookings : Complete(bookings'[c])
           /\ \A c \in Bookings :
                 bookings[c].status # "none" => bookings'[c].status # "none"
           /\ bookings'[b] = n
BY DEF Write, Typed, TypeOK

\* The two ways a statement changes a row: a new status, a new window.
LEMMA StatusTyped ==
    ASSUME NEW row \in Row, NEW s \in Status
    PROVE  [row EXCEPT !.status = s] \in Row
BY DEF Row

LEMMA MovedTyped ==
    ASSUME NEW row \in Row, NEW w \in Windows
    PROVE  [row EXCEPT !.win = w, !.count = @ + 1] \in Row
<1>1. row.count + 1 \in Nat
  BY DEF Row
<1>2. QED
  BY <1>1 DEF Row

LEMMA InitTyped == Init => Typed
BY ConstantsAssumption, NullAssumption, IdleTyped
   DEF Init, Typed, TypeOK, RequestOK, BatchExists, Row, NoRow, Complete, Status, Live,
       WorkerState, WorkerIdle, Procs

LEMMA NextTyped == Typed /\ [Next]_vars => Typed'
<1> SUFFICES ASSUME Typed, [Next]_vars PROVE Typed'
  OBVIOUS
<1> USE ConstantsAssumption, NullAssumption
<1>1. ASSUME NEW p \in Requests, BeginHold(p) PROVE Typed'
  <2>1. PICK b \in Bookings, r \in Rooms, i \in Instructors, w \in Windows :
           Become(p, [Idle EXCEPT !.pc = "room", !.booking = b, !.now = clock,
                                  !.room = r, !.instr = i, !.win = w])
    BY <1>1 DEF BeginHold
  <2> DEFINE n == [Idle EXCEPT !.pc = "room", !.booking = b, !.now = clock,
                               !.room = r, !.instr = i, !.win = w]
  <2>2. n \in Request /\ Fits(n, bookings')
    BY DEF Typed, TypeOK, Idle, Request, PC, AllOps, Status, Live, Fits
  <2>3. QED
    BY <1>1, <2>1, <2>2, BecomeTyped DEF BeginHold, Typed, TypeOK
<1>2. ASSUME NEW p \in Requests, Begin(p) PROVE Typed'
  <2>1. PICK o \in Ops \ {"hold"}, b \in Bookings, w \in Windows \cup {NULL} :
           /\ bookings[b].status # "none"
           /\ o = "reschedule" => w \in Windows
           /\ Become(p, [Idle EXCEPT !.pc = "call", !.op = o, !.booking = b,
                                     !.old = bookings[b].status, !.win = w])
    BY <1>2 DEF Begin
  <2> DEFINE n == [Idle EXCEPT !.pc = "call", !.op = o, !.booking = b,
                               !.old = bookings[b].status, !.win = w]
  <2>2. bookings' = bookings /\ bookings[b].status \in Status
    BY <1>2 DEF Begin, Typed, TypeOK, Row
  <2>3. n \in Request /\ Fits(n, bookings')
    BY <2>1, <2>2 DEF Idle, Request, PC, AllOps, Status, Live, Fits
  <2>4. QED
    BY <1>2, <2>1, <2>2, <2>3, BecomeTyped DEF Begin, Typed, TypeOK
<1>3. ASSUME NEW p \in Requests, Call(p) PROVE Typed'
  <2> DEFINE n == [req[p] EXCEPT !.now = clock,
                                 !.pc = IF req[p].op \in {"cancel", "reschedule"}
                                          THEN "check" ELSE "update"]
  <2>1. /\ req[p] \in Request /\ Fits(req[p], bookings) /\ req[p].pc = "call"
        /\ bookings' = bookings /\ clock \in Nat
    BY <1>3 DEF Call, Typed, TypeOK, RequestOK
  <2>2. n \in Request
    BY <2>1 DEF Request, PC
  <2>3. Fits(n, bookings')
    BY <2>1 DEF Request, Fits
  <2>4. QED
    BY <1>3, <2>2, <2>3, BecomeTyped DEF Call, Typed, TypeOK
<1>4. ASSUME NEW p \in Requests, CheckCancel(p) PROVE Typed'
  <2> DEFINE n == [req[p] EXCEPT !.pc = "update"]
  <2>0. /\ req[p] \in Request /\ Fits(req[p], bookings) /\ req[p].pc = "check"
        /\ req[p].op = "cancel" /\ bookings' = bookings
    BY <1>4 DEF CheckCancel, Typed, TypeOK, RequestOK
  <2>1. n \in Request /\ Fits(n, bookings')
    BY <2>0 DEF Request, PC, Fits
  <2>2. Become(p, n) \/ Become(p, Idle)
    BY <1>4 DEF CheckCancel, Finish
  <2>3. QED
    BY <1>4, <2>1, <2>2, IdleTyped, BecomeTyped DEF CheckCancel, Typed, TypeOK
<1>5. ASSUME NEW p \in Requests, CheckReschedule(p) PROVE Typed'
  <2> DEFINE n == [req[p] EXCEPT !.pc = "row"]
  <2>0. /\ req[p] \in Request /\ Fits(req[p], bookings) /\ req[p].pc = "check"
        /\ req[p].op = "reschedule" /\ bookings' = bookings
    BY <1>5 DEF CheckReschedule, Typed, TypeOK, RequestOK
  <2>1. n \in Request /\ Fits(n, bookings')
    BY <2>0 DEF Request, PC, Fits
  <2>2. Become(p, n) \/ Become(p, Idle)
    BY <1>5 DEF CheckReschedule, Finish
  <2>3. QED
    BY <1>5, <2>1, <2>2, IdleTyped, BecomeTyped DEF CheckReschedule, Typed, TypeOK
<1>6. ASSUME NEW p \in Requests, LockRow(p) PROVE Typed'
  <2> DEFINE n == [req[p] EXCEPT !.pc = "room",
                                 !.room = bookings[req[p].booking].room,
                                 !.instr = bookings[req[p].booking].instr]
  <2>1. /\ req[p] \in Request /\ Fits(req[p], bookings) /\ req[p].pc = "row"
        /\ bookings' = bookings
    BY <1>6 DEF LockRow, Typed, TypeOK, RequestOK
  <2>2. /\ bookings[req[p].booking].room \in Rooms
        /\ bookings[req[p].booking].instr \in Instructors
    BY <2>1 DEF Typed, TypeOK, Fits, Complete
  <2>3. n \in Request /\ Fits(n, bookings')
    BY <2>1, <2>2 DEF Request, PC, Fits
  <2>4. rowLock' \in [Bookings -> Procs \cup {NULL}]
    BY <1>6 DEF LockRow, Typed, TypeOK, Procs
  <2>5. QED
    BY <1>6, <2>3, <2>4, BecomeTyped DEF LockRow, Typed, TypeOK
<1>7. ASSUME NEW p \in Requests, LockRoom(p) PROVE Typed'
  <2> DEFINE n == [req[p] EXCEPT !.pc = "lock",
                      !.pending = {c \in Bookings :
                          Matches(c, req[p].room, req[p].instr, req[p].win)}]
  <2>1. /\ req[p] \in Request /\ Fits(req[p], bookings) /\ req[p].pc = "room"
        /\ bookings' = bookings
    BY <1>7 DEF LockRoom, Typed, TypeOK, RequestOK
  <2>2. n \in Request
    BY <2>1 DEF Request, PC
  <2>3. Fits(n, bookings')
    BY <2>1 DEF Request, Fits
  <2>4. roomLock' \in [Rooms -> Requests \cup {NULL}]
    BY <1>7 DEF LockRoom, Typed, TypeOK
  <2>5. QED
    BY <1>7, <2>2, <2>3, <2>4, BecomeTyped DEF LockRoom, Typed, TypeOK
<1>8. ASSUME NEW p \in Requests, LockMatch(p) PROVE Typed'
  <2>1. PICK c \in req[p].pending :
          /\ rowLock' = [rowLock EXCEPT ![c] = p]
          /\ \E k \in SUBSET {c} :
                Become(p, [req[p] EXCEPT !.pending = @ \ {c}, !.clash = @ \cup k])
    <3>1. PICK c \in req[p].pending :
            /\ rowLock' = [rowLock EXCEPT ![c] = p]
            /\ \/ Become(p, [req[p] EXCEPT !.pending = @ \ {c}, !.clash = @ \cup {c}])
               \/ Become(p, [req[p] EXCEPT !.pending = @ \ {c}, !.clash = @])
      BY <1>8 DEF LockMatch
    <3>2. [req[p] EXCEPT !.pending = @ \ {c}, !.clash = @ \cup {}]
            = [req[p] EXCEPT !.pending = @ \ {c}, !.clash = @]
      BY DEF Typed, TypeOK, Request
    <3>3. QED
      BY <3>1, <3>2
  <2>2. PICK k \in SUBSET {c} :
           Become(p, [req[p] EXCEPT !.pending = @ \ {c}, !.clash = @ \cup k])
    BY <2>1
  <2> DEFINE n == [req[p] EXCEPT !.pending = @ \ {c}, !.clash = @ \cup k]
  <2>3. req[p] \in Request /\ Fits(req[p], bookings) /\ bookings' = bookings
    BY <1>8 DEF LockMatch, Typed, TypeOK, RequestOK
  <2>4. c \in Bookings
    BY <2>3 DEF Request
  <2>5. n \in Request /\ Fits(n, bookings')
    BY <2>3, <2>4 DEF Request, Fits
  <2>6. rowLock' \in [Bookings -> Procs \cup {NULL}]
    BY <2>1 DEF Typed, TypeOK, Procs
  <2>7. QED
    BY <1>8, <2>2, <2>5, <2>6, BecomeTyped DEF LockMatch, Typed, TypeOK
<1>9. ASSUME NEW p \in Requests, Refuse(p) PROVE Typed'
  BY <1>9, UnlockTyped, IdleTyped, BecomeTyped DEF Refuse, Release, Finish, Typed, TypeOK
<1>10. ASSUME NEW p \in Requests, CommitHold(p) PROVE Typed'
  <2> DEFINE b == req[p].booking
             n == [status |-> "held", room |-> req[p].room, instr |-> req[p].instr,
                   win |-> req[p].win, expires |-> req[p].now + HoldTTL, count |-> 0]
             r == [Idle EXCEPT !.pc = "audit", !.op = req[p].op, !.booking = b,
                               !.old = req[p].old, !.new = "held"]
  <2>1. /\ req[p] \in Request /\ Fits(req[p], bookings) /\ req[p].pc = "lock"
        /\ Write(b, n) /\ Become(p, r)
    BY <1>10 DEF CommitHold, ScanDone, ToAudit, Typed, TypeOK, RequestOK
  <2>2. b \in Bookings /\ n \in Row /\ Complete(n) /\ n.status # "none"
    BY <2>1 DEF Request, Fits, Row, Complete, Status, Live
  <2>3. /\ bookings' \in [Bookings -> Row]
        /\ \A c \in Bookings : Complete(bookings'[c])
        /\ \A c \in Bookings :
              bookings[c].status # "none" => bookings'[c].status # "none"
        /\ bookings'[b] = n
    BY <2>1, <2>2, WriteTyped
  <2>4. r \in Request
    BY <2>1, <2>2 DEF Request, Idle, PC, Status, Live
  <2>5. Fits(r, bookings')
    BY <2>2, <2>3 DEF Fits, Idle
  <2>6. QED
    BY <1>10, <2>1, <2>3, <2>4, <2>5, BecomeTyped, UnlockTyped
       DEF CommitHold, Release, Typed, TypeOK
<1>11. ASSUME NEW p \in Requests, NEW n, NEW st, Fits(req[p], bookings),
              req[p].pc # "idle", req[p].op # "hold",
              n \in Row, Complete(n), n.status # "none", st \in Status,
              Write(req[p].booking, n), ToAudit(p, req[p].booking, st)
       PROVE  /\ bookings' \in [Bookings -> Row]
              /\ \A c \in Bookings : Complete(bookings'[c])
              /\ req' \in [Requests -> Request]
              /\ RequestOK'
              /\ worker' = worker => BatchExists'
  <2> DEFINE b == req[p].booking
             r == [Idle EXCEPT !.pc = "audit", !.op = req[p].op, !.booking = b,
                               !.old = req[p].old, !.new = st]
  <2>1. b \in Bookings /\ req[p] \in Request /\ Become(p, r)
    BY <1>11 DEF Fits, Typed, TypeOK, ToAudit
  <2>2. /\ bookings' \in [Bookings -> Row]
        /\ \A c \in Bookings : Complete(bookings'[c])
        /\ \A c \in Bookings :
              bookings[c].status # "none" => bookings'[c].status # "none"
        /\ bookings'[b] = n
    BY <1>11, <2>1, WriteTyped
  <2>3. r \in Request
    BY <1>11, <2>1 DEF Request, Idle, PC
  <2>4. Fits(r, bookings')
    BY <1>11, <2>1, <2>2 DEF Fits, Idle
  <2>5. QED
    BY <2>1, <2>2, <2>3, <2>4, BecomeTyped
<1>12. ASSUME NEW p \in Requests, req[p].pc # "idle", req[p].op # "hold"
       PROVE  /\ Fits(req[p], bookings)
              /\ req[p].booking \in Bookings
              /\ bookings[req[p].booking] \in Row
              /\ bookings[req[p].booking].status # "none"
              /\ Complete(bookings[req[p].booking])
  BY <1>12 DEF Typed, TypeOK, RequestOK, Fits
<1>13. ASSUME NEW p \in Requests, CommitReschedule(p) PROVE Typed'
  <2> DEFINE row == bookings[req[p].booking]
             n == [row EXCEPT !.win = req[p].win, !.count = @ + 1]
  <2>1. req[p].pc = "lock" /\ req[p].op = "reschedule" /\ req[p].win \in Windows
    BY <1>13 DEF CommitReschedule, ScanDone, Typed, TypeOK, RequestOK, Fits
  <2>2. /\ Fits(req[p], bookings) /\ row \in Row /\ row.status # "none"
        /\ Complete(row)
    BY <1>12, <2>1
  <2>3. n \in Row /\ row.status \in Status /\ n.status = row.status
    BY <2>1, <2>2, MovedTyped, Zenon DEF Row
  <2>4. Complete(n)
    BY <2>1, <2>2 DEF Row, Complete
  <2>5. Write(req[p].booking, n) /\ ToAudit(p, req[p].booking, row.status)
    BY <1>13 DEF CommitReschedule
  <2> HIDE DEF n, row
  <2>6. /\ bookings' \in [Bookings -> Row]
        /\ \A c \in Bookings : Complete(bookings'[c])
        /\ req' \in [Requests -> Request]
        /\ RequestOK'
        /\ worker' = worker => BatchExists'
    BY <1>11, <2>1, <2>2, <2>3, <2>4, <2>5
  <2>7. QED
    BY <1>13, <2>6, UnlockTyped DEF CommitReschedule, Release, Typed, TypeOK
<1>14. ASSUME NEW p \in Requests, Confirm(p) PROVE Typed'
  <2> DEFINE row == bookings[req[p].booking]
             n == [row EXCEPT !.status = "confirmed", !.expires = NULL]
             e == [req[p] EXCEPT !.pc = "expire"]
  <2>1. req[p].pc = "update" /\ req[p].op # "hold" /\ req[p] \in Request
    BY <1>14 DEF Confirm, Typed, TypeOK
  <2>2. n \in Row /\ Complete(n) /\ n.status # "none" /\ "confirmed" \in Status
    BY <1>12, <2>1 DEF Row, Complete, Status, Live
  <2>3. e \in Request /\ Fits(e, bookings)
    BY <1>12, <2>1 DEF Request, PC, Fits
  <2>4. CASE Confirmable(req[p].booking, req[p].now)
    BY <1>11, <1>12, <1>14, <2>1, <2>2, <2>4 DEF Confirm, Typed, TypeOK
  <2>5. CASE ~Confirmable(req[p].booking, req[p].now)
    BY <1>14, <2>3, <2>5, BecomeTyped DEF Confirm, Typed, TypeOK
  <2>6. QED
    BY <2>4, <2>5
<1>15. ASSUME NEW p \in Requests, ConfirmExpire(p) PROVE Typed'
  <2> DEFINE row == bookings[req[p].booking]
             n == [row EXCEPT !.status = "expired"]
  <2>1. /\ req[p].pc = "expire" /\ req[p].op # "hold"
        /\ bookings' = bookings \/ Write(req[p].booking, n)
        /\ Become(p, Idle)
    BY <1>15 DEF ConfirmExpire, Finish, Typed, TypeOK, RequestOK, Fits
  <2>2. n \in Row /\ Complete(n) /\ n.status # "none"
    BY <1>12, <2>1 DEF Row, Complete, Status, Live
  <2>3. /\ bookings' \in [Bookings -> Row]
        /\ \A c \in Bookings : Complete(bookings'[c])
        /\ \A c \in Bookings :
              bookings[c].status # "none" => bookings'[c].status # "none"
    BY <1>12, <2>1, <2>2, WriteTyped DEF Typed, TypeOK
  <2>4. QED
    BY <1>15, <2>1, <2>3, IdleTyped, BecomeTyped DEF ConfirmExpire, Typed, TypeOK
<1>16. ASSUME NEW p \in Requests, Cancel(p) PROVE Typed'
  <2> DEFINE n == [bookings[req[p].booking] EXCEPT !.status = "cancelled"]
  <2>1. req[p].pc = "update" /\ req[p].op # "hold"
    BY <1>16 DEF Cancel
  <2>2. n \in Row /\ Complete(n) /\ n.status # "none" /\ "cancelled" \in Status
    BY <1>12, <2>1 DEF Row, Complete, Status, Live
  <2>3. QED
    BY <1>11, <1>12, <1>16, <2>1, <2>2 DEF Cancel, Typed, TypeOK
<1>17. ASSUME NEW p \in Requests, CheckIn(p) PROVE Typed'
  <2> DEFINE n == [bookings[req[p].booking] EXCEPT !.status = "checked_in"]
  <2>1. req[p].pc = "update" /\ req[p].op # "hold"
    BY <1>17 DEF CheckIn
  <2>2. n \in Row /\ Complete(n) /\ n.status # "none" /\ "checked_in" \in Status
    BY <1>12, <2>1 DEF Row, Complete, Status, Live
  <2>3. CASE bookings[req[p].booking].status = "confirmed"
    BY <1>11, <1>12, <1>17, <2>1, <2>2, <2>3 DEF CheckIn, Typed, TypeOK
  <2>4. CASE bookings[req[p].booking].status # "confirmed"
    BY <1>17, <2>4, IdleTyped, BecomeTyped DEF CheckIn, Finish, Typed, TypeOK
  <2>5. QED
    BY <2>3, <2>4
<1>18. ASSUME NEW p \in Requests, RecordTransition(p) PROVE Typed'
  <2>1. /\ req[p] \in Request /\ Fits(req[p], bookings) /\ req[p].pc = "audit"
    BY <1>18 DEF RecordTransition, Typed, TypeOK, RequestOK
  <2>2. [event |-> req[p].op, booking |-> req[p].booking,
         old |-> req[p].old, new |-> req[p].new] \in AuditRow
    BY <2>1 DEF AuditRow, Request, Fits
  <2>3. audit' \subseteq AuditRow
    BY <1>18, <2>2 DEF RecordTransition, Typed, TypeOK
  <2>4. QED
    BY <1>18, <2>3, IdleTyped, BecomeTyped DEF RecordTransition, Finish, Typed, TypeOK
<1>19. ASSUME NEW p \in Requests, Rollback(p), faults' \in Nat PROVE Typed'
  BY <1>19, UnlockTyped, IdleTyped, BecomeTyped DEF Rollback, Release, Finish, Typed, TypeOK
<1>20. CASE WorkerTick
  <2>1. worker' \in WorkerState
    BY <1>20 DEF WorkerTick, WorkerIdle, WorkerState, Typed, TypeOK
  <2>2. BatchExists'
    BY <1>20 DEF WorkerTick, WorkerIdle, BatchExists
  <2>3. QED
    BY <1>20, <2>1, <2>2 DEF WorkerTick, Typed, TypeOK, RequestOK
<1>21. CASE WorkerLock
  <2>1. PICK c \in worker.pending :
          /\ rowLock' = [rowLock EXCEPT ![c] = Worker]
          /\ worker' = [worker EXCEPT !.pending = @ \ {c},
                           !.batch = IF Expirable(c, worker.now) THEN @ \cup {c} ELSE @]
    BY <1>21 DEF WorkerLock
  <2>2. c \in Bookings
    BY DEF Typed, TypeOK, WorkerState
  <2>3. worker' \in WorkerState
    BY <2>1, <2>2 DEF WorkerState, Typed, TypeOK
  <2>4. rowLock' \in [Bookings -> Procs \cup {NULL}]
    BY <2>1 DEF Typed, TypeOK, Procs
  <2>5. BatchExists'
    BY <1>21, <2>1 DEF WorkerLock, Typed, TypeOK, WorkerState, BatchExists, Expirable
  <2>6. QED
    BY <1>21, <2>3, <2>4, <2>5 DEF WorkerLock, Typed, TypeOK, RequestOK
<1>22. CASE WorkerCommit
  <2>1. \A b \in Bookings :
           /\ bookings'[b] = IF b \in worker.batch
                               THEN [bookings[b] EXCEPT !.status = "expired"]
                               ELSE bookings[b]
           /\ bookings[b] \in Row /\ Complete(bookings[b])
    BY <1>22 DEF WorkerCommit, Typed, TypeOK
  <2>2. \A b \in Bookings : bookings'[b] \in Row
    <3> SUFFICES ASSUME NEW b \in Bookings PROVE bookings'[b] \in Row
      OBVIOUS
    <3>1. "expired" \in Status
      BY DEF Status
    <3>2. CASE b \in worker.batch
      <4>1. bookings'[b] = [bookings[b] EXCEPT !.status = "expired"]
        BY <2>1, <3>2
      <4>2. bookings[b] \in Row
        BY <2>1
      <4>3. [bookings[b] EXCEPT !.status = "expired"] \in Row
        BY ONLY <3>1, <4>2 DEF Row
      <4>4. QED
        BY <4>1, <4>3
    <3>3. CASE b \notin worker.batch
      BY <2>1, <3>3
    <3>4. QED
      BY <3>2, <3>3
  <2>3. bookings' \in [Bookings -> Row]
    BY <1>22, <2>2 DEF WorkerCommit
  <2>4. \A b \in Bookings : Complete(bookings'[b])
    <3> SUFFICES ASSUME NEW b \in Bookings PROVE Complete(bookings'[b])
      OBVIOUS
    <3>1. CASE b \in worker.batch
      BY <2>1, <3>1 DEF Row, Complete, Typed, BatchExists
    <3>2. CASE b \notin worker.batch
      BY <2>1, <3>2
    <3>3. QED
      BY <3>1, <3>2
  <2>5. worker' \in WorkerState
    BY <1>22 DEF WorkerCommit, WorkerState, WorkerIdle, Typed, TypeOK
  <2>6. rowLock' \in [Bookings -> Procs \cup {NULL}]
    BY <1>22, UnlockTyped DEF WorkerCommit, Typed, TypeOK
  <2>7. RequestOK' /\ BatchExists'
    <3>1. \A b \in Bookings :
             bookings[b].status # "none" => bookings'[b].status # "none"
      BY <2>1 DEF Row
    <3>2. QED
      BY <1>22, <3>1 DEF WorkerCommit, Typed, TypeOK, RequestOK, Fits,
                         BatchExists, WorkerState, WorkerIdle
  <2>8. QED
    BY <1>22, <2>3, <2>4, <2>5, <2>6, <2>7 DEF WorkerCommit, Typed, TypeOK
<1>23. ASSUME NEW b \in worker.batch, NEW rows \in SUBSET AuditRow,
              WorkerRecord(b, rows), faults' \in Nat
       PROVE  Typed'
  <2>1. worker' \in WorkerState
    BY <1>23 DEF WorkerRecord, WorkerState, WorkerIdle, Typed, TypeOK
  <2>2. BatchExists'
    BY <1>23 DEF WorkerRecord, WorkerState, WorkerIdle, Typed, TypeOK, BatchExists
  <2>3. QED
    BY <1>23, <2>1, <2>2 DEF WorkerRecord, Typed, TypeOK, RequestOK
<1>24. CASE WorkerAudit
  <2>1. PICK b \in worker.batch :
           WorkerRecord(b, {[event |-> "expire", booking |-> b,
                             old |-> "held", new |-> "expired"]})
    BY <1>24 DEF WorkerAudit
  <2>2. {[event |-> "expire", booking |-> b,
          old |-> "held", new |-> "expired"]} \in SUBSET AuditRow
    BY DEF Typed, TypeOK, WorkerState, AuditRow, Status, Live
  <2>3. QED
    BY <1>23, <1>24, <2>1, <2>2 DEF WorkerAudit, Typed, TypeOK
<1>25. CASE WorkerAuditLost
  <2>1. PICK b \in worker.batch : WorkerRecord(b, {})
    BY <1>25 DEF WorkerAuditLost
  <2>2. faults' \in Nat
    BY <1>25 DEF WorkerAuditLost, Typed, TypeOK
  <2>3. QED
    BY <1>23, <2>1, <2>2
<1>26. ASSUME WorkerRollback, faults' \in Nat PROVE Typed'
  BY <1>26, UnlockTyped
     DEF WorkerRollback, WorkerState, WorkerIdle, Typed, TypeOK, RequestOK, BatchExists
<1>27. CASE Crash
  BY <1>27, IdleTyped
     DEF Crash, WorkerState, WorkerIdle, Typed, TypeOK, RequestOK, BatchExists
<1>28. CASE Tick
  BY <1>28 DEF Tick, Typed, TypeOK, RequestOK, BatchExists
<1>29. CASE UNCHANGED vars
  BY <1>29 DEF vars, Typed, TypeOK, RequestOK, BatchExists
<1>30. ASSUME NEW p \in Requests, Proceed(p) PROVE Typed'
  BY <1>3, <1>4, <1>5, <1>6, <1>7, <1>8, <1>9, <1>10, <1>13, <1>14, <1>15,
     <1>16, <1>17, <1>18, <1>30 DEF Proceed
<1>31. ASSUME NEW p \in Requests, Abort(p) \/ DeadlockVictim(p) PROVE Typed'
  BY <1>19, <1>31 DEF Abort, DeadlockVictim, Typed, TypeOK
<1>32. CASE WorkerFail \/ WorkerVictim
  BY <1>26, <1>32 DEF WorkerFail, WorkerVictim, Typed, TypeOK
<1>33. QED
  BY <1>1, <1>2, <1>20, <1>21, <1>22, <1>24, <1>25, <1>27, <1>28, <1>29, <1>30,
     <1>31, <1>32 DEF Next, WorkerStep

\* Every reachable state is well typed: no interleaving of requests, worker,
\* failures and crashes puts a malformed row in the bookings table, hands a
\* lock to something that is not a process, or audits a booking that does not
\* exist.
THEOREM TypeCorrect == Spec => []TypeOK
<1>1. Spec => []Typed
  BY InitTyped, NextTyped, PTL DEF Spec
<1>2. Typed => TypeOK
  BY DEF Typed
<1>3. QED
  BY <1>1, <1>2, PTL

-----------------------------------------------------------------------------
(* Locks.                                                                  *)

\* An owner is another process than q, and still owns its locks: what the
\* steps of q leave to prove are the locks q takes.
LEMMA OthersOwn ==
    ASSUME Typed, LocksOwned, NEW q \in Requests, NEW n, Become(q, n), worker' = worker,
           \A r \in Rooms : roomLock'[r] # NULL =>
               \/ roomLock'[r] # q /\ roomLock'[r] = roomLock[r]
               \/ roomLock'[r] = q /\ n.pc = "lock" /\ n.room = r,
           \A b \in Bookings : rowLock'[b] # NULL =>
               \/ rowLock'[b] # q /\ rowLock'[b] = rowLock[b]
               \/ rowLock'[b] = q /\ n.pc \in {"room", "lock"}
    PROVE  LocksOwned'
<1>1. req'[q] = n /\ \A p \in Requests \ {q} : req'[p] = req[p]
  BY DEF Become, Typed, TypeOK
<1>2. /\ roomLock \in [Rooms -> Requests \cup {NULL}]
      /\ rowLock \in [Bookings -> Procs \cup {NULL}] /\ Worker \notin Requests
  BY ConstantsAssumption DEF Typed, TypeOK
<1>3. ASSUME NEW r \in Rooms, roomLock'[r] # NULL
      PROVE  req'[roomLock'[r]].pc = "lock" /\ req'[roomLock'[r]].room = r
  BY <1>1, <1>2, <1>3 DEF LocksOwned
<1>4. ASSUME NEW b \in Bookings, rowLock'[b] # NULL
      PROVE  IF rowLock'[b] = Worker THEN worker'.pc = "lock"
             ELSE req'[rowLock'[b]].pc \in {"room", "lock"}
  <2>1. CASE rowLock'[b] = q
    BY <1>1, <1>2, <1>4, <2>1
  <2>2. CASE rowLock'[b] # q
    <3>1. rowLock'[b] = rowLock[b] /\ rowLock[b] \in Procs \ {q}
      BY <1>2, <1>4, <2>2
    <3>2. QED
      BY <1>1, <1>4, <3>1 DEF LocksOwned, Procs
  <2>3. QED
    BY <2>1, <2>2
<1>5. QED
  BY <1>3, <1>4 DEF LocksOwned

\* A request that is not in a transaction owns no lock.
LEMMA OwnsNone ==
    ASSUME Typed, LocksOwned, NEW q \in Requests, req[q].pc # "lock"
    PROVE  /\ \A r \in Rooms : roomLock[r] # q
           /\ req[q].pc # "room" => \A b \in Bookings : rowLock[b] # q
BY ConstantsAssumption, NullAssumption DEF LocksOwned

LEMMA OutsideOwned ==
    ASSUME Typed, LocksOwned, NEW q \in Requests, NEW n, Become(q, n),
           req[q].pc \notin {"room", "lock"}, UNCHANGED <<roomLock, rowLock, worker>>
    PROVE  LocksOwned'
<1>1. (\A r \in Rooms : roomLock[r] # q) /\ (\A b \in Bookings : rowLock[b] # q)
  BY OwnsNone
<1>2. QED
  BY <1>1, OthersOwn

LEMMA ReleaseOwned ==
    ASSUME Typed, LocksOwned, NEW q \in Requests, NEW n, Become(q, n), Release(q),
           worker' = worker
    PROVE  LocksOwned'
<1>1. /\ \A r \in Rooms : roomLock'[r] # NULL => roomLock'[r] # q /\ roomLock'[r] = roomLock[r]
      /\ \A b \in Bookings : rowLock'[b] # NULL => rowLock'[b] # q /\ rowLock'[b] = rowLock[b]
  BY DEF Release, Unlock, Typed, TypeOK
<1>2. QED
  BY <1>1, OthersOwn

\* Inside a transaction: what the three locking statements take is owned by
\* the request that goes on in the transaction.
LEMMA LockingOwned ==
    ASSUME Typed, LocksOwned, NEW q \in Requests, LockRow(q) \/ LockRoom(q) \/ LockMatch(q)
    PROVE  LocksOwned'
<1>t. /\ req[q] \in Request /\ Fits(req[q], bookings) /\ worker' = worker
      /\ roomLock \in [Rooms -> Requests \cup {NULL}]
      /\ rowLock \in [Bookings -> Procs \cup {NULL}]
  BY DEF Typed, TypeOK, RequestOK, LockRow, LockRoom, LockMatch
<1>1. CASE LockRow(q)
  <2>1. PICK r, i : Become(q, [req[q] EXCEPT !.pc = "room", !.room = r, !.instr = i])
    BY <1>1 DEF LockRow
  <2> DEFINE n == [req[q] EXCEPT !.pc = "room", !.room = r, !.instr = i]
  <2>2. n.pc = "room"
    BY <1>t DEF Request
  <2>3. Become(q, n)
    BY <2>1
  <2> HIDE DEF n
  <2>4. \A x \in Rooms : roomLock'[x] = roomLock[x] /\ roomLock[x] # q
    BY <1>1, OwnsNone DEF LockRow
  <2>5. \A b \in Bookings : rowLock'[b] = rowLock[b] \/ rowLock'[b] = q
    BY <1>1, <1>t DEF LockRow
  <2>6. QED
    BY <1>t, <2>2, <2>3, <2>4, <2>5, OthersOwn
<1>2. CASE LockRoom(q)
  <2> DEFINE s == {c \in Bookings : Matches(c, req[q].room, req[q].instr, req[q].win)}
             n == [req[q] EXCEPT !.pc = "lock", !.pending = s]
  <2>1. Become(q, n)
    BY <1>2 DEF LockRoom
  <2> HIDE DEF s
  <2>2. n.pc = "lock" /\ n.room = req[q].room
    BY <1>t DEF Request
  <2> HIDE DEF n
  <2>3. \A x \in Rooms : /\ roomLock[x] # q
                         /\ roomLock'[x] = roomLock[x] \/ (roomLock'[x] = q /\ x = req[q].room)
    BY <1>2, <1>t, OwnsNone DEF LockRoom
  <2>4. rowLock' = rowLock
    BY <1>2 DEF LockRoom
  <2>5. QED
    BY <1>t, <2>1, <2>2, <2>3, <2>4, OthersOwn
<1>3. CASE LockMatch(q)
  <2> DEFINE t(c) == IF /\ Matches(c, req[q].room, req[q].instr, req[q].win)
                        /\ c \notin Own(q)
                        /\ ~Skipped(c, req[q].now)
                     THEN req[q].clash \cup {c} ELSE req[q].clash
  <2>1. PICK c : /\ rowLock' = [rowLock EXCEPT ![c] = q]
                 /\ Become(q, [req[q] EXCEPT !.pending = @ \ {c}, !.clash = t(c)])
    BY <1>3 DEF LockMatch
  <2> HIDE DEF t
  <2> DEFINE n == [req[q] EXCEPT !.pending = @ \ {c}, !.clash = t(c)]
  <2>2. n.pc = "lock" /\ n.room = req[q].room /\ Become(q, n)
    BY <1>3, <1>t, <2>1 DEF LockMatch, Request
  <2> HIDE DEF n
  <2>3. \A x \in Rooms : roomLock'[x] = roomLock[x] /\ (roomLock[x] = q => req[q].room = x)
    BY <1>3, NullAssumption DEF LockMatch, LocksOwned
  <2>4. \A b \in Bookings : rowLock'[b] = rowLock[b] \/ rowLock'[b] = q
    BY <1>t, <2>1
  <2>5. QED
    BY <1>t, <2>2, <2>3, <2>4, OthersOwn
<1>4. QED
  BY <1>1, <1>2, <1>3

\* Steps of the worker: its locks are those of its open UPDATE.
LEMMA WorkerOwned ==
    ASSUME Typed, LocksOwned, UNCHANGED <<req, roomLock>>,
           \A b \in Bookings : rowLock'[b] \notin {NULL, Worker} => rowLock'[b] = rowLock[b],
           worker'.pc = "lock" \/ \A b \in Bookings : rowLock'[b] # Worker
    PROVE  LocksOwned'
<1>1. ASSUME NEW b \in Bookings, rowLock'[b] # NULL
      PROVE  IF rowLock'[b] = Worker THEN worker'.pc = "lock"
             ELSE req'[rowLock'[b]].pc \in {"room", "lock"}
  BY <1>1 DEF LocksOwned
<1>2. QED
  BY <1>1 DEF LocksOwned

LEMMA LocksOwnedStep ==
    ASSUME Typed, LocksOwned, [Next]_vars
    PROVE  LocksOwned'
<1>t. /\ worker \in WorkerState /\ rowLock \in [Bookings -> Procs \cup {NULL}]
      /\ Worker # NULL
  BY NullAssumption DEF Typed, TypeOK
<1>1. ASSUME NEW p \in Requests, BeginHold(p) \/ Begin(p) PROVE LocksOwned'
  BY <1>1, OutsideOwned DEF BeginHold, Begin
<1>2. ASSUME NEW p \in Requests,
             Call(p) \/ CheckCancel(p) \/ CheckReschedule(p) \/ RecordTransition(p)
      PROVE  LocksOwned'
  BY <1>2, OutsideOwned DEF Call, CheckCancel, CheckReschedule, RecordTransition, Finish
<1>3. ASSUME NEW p \in Requests, Confirm(p) \/ ConfirmExpire(p) \/ Cancel(p) \/ CheckIn(p)
      PROVE  LocksOwned'
  BY <1>3, OutsideOwned DEF Confirm, ConfirmExpire, Cancel, CheckIn, Finish, ToAudit
<1>4. ASSUME NEW p \in Requests,
             Refuse(p) \/ CommitHold(p) \/ CommitReschedule(p) \/ Rollback(p)
      PROVE  LocksOwned'
  BY <1>4, ReleaseOwned DEF Refuse, CommitHold, CommitReschedule, Rollback, Finish, ToAudit
<1>5. ASSUME NEW p \in Requests, Proceed(p) PROVE LocksOwned'
  BY <1>2, <1>3, <1>4, <1>5, LockingOwned DEF Proceed
<1>6. ASSUME worker.pc # "lock" PROVE \A b \in Bookings : rowLock[b] # Worker
  BY <1>6, <1>t DEF LocksOwned
<1>7. CASE WorkerTick
  <2>1. worker'.pc = "lock"
    BY <1>7 DEF WorkerTick, WorkerIdle
  <2>2. QED
    BY <1>7, <2>1, WorkerOwned DEF WorkerTick
<1>8. CASE WorkerLock
  <2> DEFINE t(c) == IF Expirable(c, worker.now) THEN worker.batch \cup {c} ELSE worker.batch
  <2>1. PICK c : /\ rowLock' = [rowLock EXCEPT ![c] = Worker]
                 /\ worker' = [worker EXCEPT !.pending = @ \ {c}, !.batch = t(c)]
    BY <1>8 DEF WorkerLock
  <2> HIDE DEF t
  <2>2. worker'.pc = "lock"
    BY <1>8, <1>t, <2>1 DEF WorkerLock, WorkerState
  <2>3. \A b \in Bookings : rowLock'[b] = rowLock[b] \/ rowLock'[b] = Worker
    BY <1>t, <2>1
  <2>4. QED
    BY <1>8, <2>2, <2>3, WorkerOwned DEF WorkerLock
<1>9. CASE WorkerCommit \/ WorkerRollback
  <2>1. rowLock' = Unlock(rowLock, Worker) /\ UNCHANGED <<req, roomLock>>
    BY <1>9 DEF WorkerCommit, WorkerRollback
  <2>2. /\ \A b \in Bookings : rowLock'[b] # Worker
        /\ \A b \in Bookings : rowLock'[b] \notin {NULL, Worker} => rowLock'[b] = rowLock[b]
    BY <1>t, <2>1 DEF Unlock
  <2>3. QED
    BY <2>1, <2>2, WorkerOwned
<1>10. ASSUME NEW b, NEW rows, WorkerRecord(b, rows) PROVE LocksOwned'
  BY <1>6, <1>10, WorkerOwned DEF WorkerRecord
<1>11. CASE Crash
  BY <1>11 DEF Crash, LocksOwned
<1>12. CASE Tick \/ UNCHANGED vars
  BY <1>12 DEF Tick, vars, LocksOwned
<1>13. QED
  BY <1>1, <1>4, <1>5, <1>7, <1>8, <1>9, <1>10, <1>11, <1>12
     DEF Next, Abort, DeadlockVictim, WorkerStep, WorkerAudit, WorkerFail,
         WorkerAuditLost, WorkerVictim

\* Whatever way a request or the worker's UPDATE ends, by commit, refusal, error,
\* deadlock or crash, it leaves no room and no booking locked.
THEOREM LocksFreed == Spec => []LocksOwned
<1>1. Init => Typed /\ LocksOwned
  BY InitTyped DEF Init, LocksOwned
<1>2. Typed /\ LocksOwned /\ [Next]_vars => (Typed /\ LocksOwned)'
  BY NextTyped, LocksOwnedStep
<1>3. QED
  BY <1>1, <1>2, PTL DEF Spec

\* A process waits for processes that are in a transaction.
LEMMA BlockersOwn ==
    ASSUME Typed, LocksOwned, NEW p \in Procs, NEW x \in Blockers(p), x # NULL
    PROVE  x \in Procs /\ InTransaction(x)
<1> USE ConstantsAssumption, NullAssumption
<1>1. ASSUME NEW c \in Bookings, x = rowLock[c] PROVE x \in Procs /\ InTransaction(x)
  BY <1>1 DEF LocksOwned, InTransaction, Procs, Typed, TypeOK
<1>2. ASSUME NEW r \in Rooms, x = roomLock[r] PROVE x \in Procs /\ InTransaction(x)
  BY <1>2 DEF LocksOwned, InTransaction, Procs, Typed, TypeOK
<1>3. CASE p = Worker
  <2>1. worker.pending \subseteq Bookings
    BY DEF Typed, TypeOK, WorkerState
  <2>2. PICK c \in worker.pending : x = rowLock[c]
    BY <1>3 DEF Blockers
  <2>3. QED
    BY <1>1, <2>1, <2>2
<1>4. CASE p # Worker
  <2>1. p \in Requests /\ req[p] \in Request /\ Fits(req[p], bookings)
    BY <1>4 DEF Procs, Typed, TypeOK, RequestOK
  <2>2. CASE req[p].pc = "row"
    BY <1>1, <1>4, <2>1, <2>2 DEF Blockers, Fits
  <2>3. CASE req[p].pc = "room"
    BY <1>2, <1>4, <2>1, <2>3 DEF Blockers, Fits
  <2>4. CASE req[p].pc = "lock"
    <3>1. req[p].pending \subseteq Bookings
      BY <2>1 DEF Request
    <3>2. PICK c \in req[p].pending : x = rowLock[c]
      BY <1>4, <2>4 DEF Blockers
    <3>3. QED
      BY <1>1, <3>1, <3>2
  <2>5. CASE req[p].pc \notin {"row", "room", "lock"}
    BY <1>4, <2>5 DEF Blockers
  <2>6. QED
    BY <2>2, <2>3, <2>4, <2>5
<1>5. QED
  BY <1>3, <1>4

\* If every transaction waited and none were in a deadlock, the transactions
\* themselves would be a set in which each waits for others of the set.
LEMMA SomeoneGoesOn ==
    ASSUME Typed, LocksOwned, NEW p \in Procs, Waiting(p)
    PROVE  \E q \in Procs : InTransaction(q) /\ (Waiting(q) => Deadlocked(q))
<1> SUFFICES ASSUME \A q \in Procs : InTransaction(q) => Waiting(q) /\ ~Deadlocked(q)
             PROVE  FALSE
  OBVIOUS
<1> DEFINE S == {q \in Procs : InTransaction(q)}
<1>1. ASSUME NEW q \in Procs, Waiting(q) PROVE Blockers(q) # {} /\ Blockers(q) \subseteq S \ {q}
  BY <1>1, BlockersOwn DEF Waiting
<1>2. PICK x \in S : TRUE
  BY <1>1
<1>3. \A q \in S : Blockers(q) # {} /\ Blockers(q) \subseteq S \ {q}
  BY <1>1
<1>4. S \in SUBSET Procs
  OBVIOUS
<1> HIDE DEF S
<1>5. Deadlocked(x)
  BY <1>2, <1>3, <1>4 DEF Deadlocked
<1>6. QED
  BY <1>2, <1>5 DEF S

\* Whatever waits, some transaction can go on or is in a deadlock that the
\* database breaks: no lock is waited for that nobody will release.
THEOREM WaitingEnds == Spec => []WaitsEnd
<1>1. Init => Typed /\ LocksOwned
  BY InitTyped DEF Init, LocksOwned
<1>2. Typed /\ LocksOwned /\ [Next]_vars => (Typed /\ LocksOwned)'
  BY NextTyped, LocksOwnedStep
<1>3. Typed /\ LocksOwned => WaitsEnd
  BY SomeoneGoesOn DEF WaitsEnd
<1>4. QED
  BY <1>1, <1>2, <1>3, PTL DEF Spec

-----------------------------------------------------------------------------
(* Reschedules: those counted in the row and those that passed the check   *)
(* and are not counted yet.                                                *)

Uncounted(R, b) ==
    {p \in Requests : /\ R[p].op = "reschedule" /\ R[p].booking = b
                      /\ R[p].pc \in {"row", "room", "lock"}}

Quota == RescheduleLimit - 1 + Cardinality(Requests)

Counted == \A b \in Bookings : bookings[b].count + Cardinality(Uncounted(req, b)) <= Quota

\* What a step can do to the count of a row and to the requests ahead of it:
\* no more of either; a request passes the check, or the row is new; or one
\* request is counted.
CountStep(b) ==
    \/ bookings'[b].count = bookings[b].count /\ Uncounted(req', b) \subseteq Uncounted(req, b)
    \/ bookings'[b].count <= RescheduleLimit - 1
    \/ /\ bookings'[b].count = bookings[b].count + 1
       /\ \E p \in Uncounted(req, b) : Uncounted(req', b) \subseteq Uncounted(req, b) \ {p}

\* Request p goes on as n, which has not passed the check.
LEMMA NotAhead ==
    ASSUME Typed, NEW p \in Requests, NEW n, Become(p, n), NEW b \in Bookings,
           ~(n.op = "reschedule" /\ n.booking = b /\ n.pc \in {"row", "room", "lock"})
    PROVE  Uncounted(req', b) \subseteq Uncounted(req, b) \ {p}
BY DEF Become, Uncounted, Typed, TypeOK

\* A request in its transaction goes on in it.
LEMMA StaysAhead ==
    ASSUME Typed, NEW p \in Requests, NEW n, Become(p, n), NEW b \in Bookings,
           n.op = req[p].op, n.booking = req[p].booking, req[p].pc \in {"row", "room", "lock"}
    PROVE  Uncounted(req', b) \subseteq Uncounted(req, b)
BY DEF Become, Uncounted, Typed, TypeOK

LEMMA FinishNotAhead ==
    ASSUME Typed, NEW p \in Requests, NEW b \in Bookings,
           Finish(p) \/ \E c, s : ToAudit(p, c, s)
    PROVE  Uncounted(req', b) \subseteq Uncounted(req, b) \ {p}
<1>1. CASE Finish(p)
  BY <1>1, NotAhead DEF Finish, Idle
<1>2. ASSUME NEW c, NEW s, ToAudit(p, c, s)
      PROVE  Uncounted(req', b) \subseteq Uncounted(req, b) \ {p}
  <2> DEFINE n == [Idle EXCEPT !.pc = "audit", !.op = req[p].op, !.booking = c,
                               !.old = req[p].old, !.new = s]
  <2>1. Become(p, n) /\ n.pc = "audit"
    BY <1>2 DEF ToAudit, Idle
  <2> HIDE DEF n
  <2>2. QED
    BY <2>1, NotAhead
<1>3. QED
  BY <1>1, <1>2

\* Writing a status leaves the counts alone.
LEMMA CountKept ==
    ASSUME Typed, NEW c \in Bookings, NEW s, NEW b \in Bookings,
           \/ Write(c, [bookings[c] EXCEPT !.status = s])
           \/ Write(c, [bookings[c] EXCEPT !.status = s, !.expires = NULL])
    PROVE  bookings'[b].count = bookings[b].count
<1>1. bookings \in [Bookings -> Row] /\ bookings[c] \in Row
  BY DEF Typed, TypeOK
<1>2. /\ [bookings[c] EXCEPT !.status = s].count = bookings[c].count
      /\ [bookings[c] EXCEPT !.status = s, !.expires = NULL].count = bookings[c].count
  BY <1>1 DEF Row
<1>3. QED
  BY <1>1, <1>2 DEF Write

LEMMA RequestCounts ==
    ASSUME Typed, NEW p \in Requests, NEW b \in Bookings,
           BeginHold(p) \/ Begin(p) \/ Proceed(p) \/ Rollback(p)
    PROVE  CountStep(b)
<1>t. /\ req[p] \in Request /\ Fits(req[p], bookings) /\ bookings \in [Bookings -> Row]
      /\ req[p].pc # "idle" => req[p].booking \in Bookings
  BY DEF Typed, TypeOK, RequestOK, Fits
<1>i. ASSUME bookings'[b].count = bookings[b].count,
             Finish(p) \/ \E c, s : ToAudit(p, c, s)
      PROVE  CountStep(b)
  BY <1>i, FinishNotAhead DEF CountStep
<1>1. CASE BeginHold(p) \/ Begin(p)
  <2>1. ASSUME NEW n, Become(p, n), n.pc = "call" \/ n.op = "hold", bookings' = bookings
        PROVE  CountStep(b)
    BY <2>1, NotAhead DEF CountStep
  <2>2. CASE BeginHold(p)
    <3>1. PICK c, r, i, w : Become(p, [Idle EXCEPT !.pc = "room", !.booking = c, !.now = clock,
                                                   !.room = r, !.instr = i, !.win = w])
      BY <2>2 DEF BeginHold
    <3> DEFINE n == [Idle EXCEPT !.pc = "room", !.booking = c, !.now = clock,
                                 !.room = r, !.instr = i, !.win = w]
    <3>2. n.op = "hold" /\ Become(p, n) /\ bookings' = bookings
      BY <2>2, <3>1 DEF BeginHold, Idle
    <3> HIDE DEF n
    <3>3. QED
      BY <2>1, <3>2
  <2>3. CASE Begin(p)
    <3>1. PICK o, c, w : Become(p, [Idle EXCEPT !.pc = "call", !.op = o, !.booking = c,
                                                !.old = bookings[c].status, !.win = w])
      BY <2>3 DEF Begin
    <3> DEFINE n == [Idle EXCEPT !.pc = "call", !.op = o, !.booking = c,
                                 !.old = bookings[c].status, !.win = w]
    <3>2. n.pc = "call" /\ Become(p, n) /\ bookings' = bookings
      BY <2>3, <3>1 DEF Begin, Idle
    <3> HIDE DEF n
    <3>3. QED
      BY <2>1, <3>2
  <2>4. QED
    BY <1>1, <2>2, <2>3
<1>2. CASE Call(p)
  <2> DEFINE g == IF req[p].op \in {"cancel", "reschedule"} THEN "check" ELSE "update"
             n == [req[p] EXCEPT !.now = clock, !.pc = g]
  <2>1. g \in {"check", "update"} /\ Become(p, n) /\ bookings' = bookings
    BY <1>2 DEF Call
  <2> HIDE DEF g
  <2>2. n.pc = g
    BY <1>t DEF Request
  <2> HIDE DEF n
  <2>3. QED
    BY <2>1, <2>2, NotAhead DEF CountStep
<1>3. CASE CheckCancel(p)
  <2>1. Finish(p) \/ Become(p, [req[p] EXCEPT !.pc = "update"])
    BY <1>3 DEF CheckCancel
  <2>2. [req[p] EXCEPT !.pc = "update"].pc = "update" /\ bookings' = bookings
    BY <1>3, <1>t DEF CheckCancel, Request
  <2>3. QED
    BY <1>i, <2>1, <2>2, NotAhead DEF CountStep
<1>4. CASE CheckReschedule(p)
  <2> DEFINE n == [req[p] EXCEPT !.pc = "row"]
  <2>1. bookings' = bookings /\ (Finish(p) \/ (Become(p, n) /\ ~LimitReached(req[p].booking)))
    BY <1>4 DEF CheckReschedule
  <2>2. n.booking = req[p].booking /\ req[p].booking \in Bookings
    BY <1>4, <1>t DEF CheckReschedule, Request
  <2> HIDE DEF n
  <2>3. CASE Become(p, n) /\ ~LimitReached(req[p].booking) /\ b = req[p].booking
    <3>1. bookings[b].count \in Nat /\ RescheduleLimit \in Nat
      BY <1>t, ConstantsAssumption DEF Row
    <3>2. QED
      BY <2>1, <2>3, <3>1 DEF LimitReached, CountStep
  <2>4. CASE Become(p, n) /\ b # req[p].booking
    BY <2>1, <2>2, <2>4, NotAhead DEF CountStep
  <2>5. QED
    BY <1>i, <2>1, <2>3, <2>4
<1>5. CASE LockRow(p)
  <2> DEFINE n == [req[p] EXCEPT !.pc = "room", !.room = bookings[req[p].booking].room,
                                 !.instr = bookings[req[p].booking].instr]
  <2>1. n.op = req[p].op /\ n.booking = req[p].booking
    BY <1>t DEF Request
  <2> HIDE DEF n
  <2>2. Become(p, n) /\ bookings' = bookings /\ req[p].pc = "row"
    BY <1>5 DEF LockRow, n
  <2>3. QED
    BY <2>1, <2>2, StaysAhead DEF CountStep
<1>6. CASE LockRoom(p)
  <2> DEFINE s == {c \in Bookings : Matches(c, req[p].room, req[p].instr, req[p].win)}
             n == [req[p] EXCEPT !.pc = "lock", !.pending = s]
  <2>1. Become(p, n) /\ bookings' = bookings /\ req[p].pc = "room"
    BY <1>6 DEF LockRoom
  <2> HIDE DEF s
  <2>2. n.op = req[p].op /\ n.booking = req[p].booking
    BY <1>t DEF Request
  <2> HIDE DEF n
  <2>3. QED
    BY <2>1, <2>2, StaysAhead DEF CountStep
<1>7. CASE LockMatch(p)
  <2> DEFINE t(c) == IF /\ Matches(c, req[p].room, req[p].instr, req[p].win)
                        /\ c \notin Own(p)
                        /\ ~Skipped(c, req[p].now)
                     THEN req[p].clash \cup {c} ELSE req[p].clash
  <2>1. PICK c : Become(p, [req[p] EXCEPT !.pending = @ \ {c}, !.clash = t(c)])
    BY <1>7 DEF LockMatch
  <2> HIDE DEF t
  <2> DEFINE n == [req[p] EXCEPT !.pending = @ \ {c}, !.clash = t(c)]
  <2>2. n.op = req[p].op /\ n.booking = req[p].booking /\ Become(p, n)
    BY <1>t, <2>1 DEF Request
  <2> HIDE DEF n
  <2>3. bookings' = bookings /\ req[p].pc = "lock"
    BY <1>7 DEF LockMatch
  <2>4. QED
    BY <2>2, <2>3, StaysAhead DEF CountStep
<1>8. CASE Refuse(p) \/ RecordTransition(p) \/ Rollback(p)
  BY <1>8, <1>i DEF Refuse, RecordTransition, Rollback
<1>9. CASE CommitHold(p)
  <2>1. /\ req[p].booking \in Bookings /\ RescheduleLimit \in Nat \ {0}
        /\ \E s : ToAudit(p, req[p].booking, s)
    BY <1>9, <1>t, ConstantsAssumption DEF CommitHold, ScanDone
  <2> DEFINE n == [status |-> "held", room |-> req[p].room, instr |-> req[p].instr,
                   win |-> req[p].win, expires |-> req[p].now + HoldTTL, count |-> 0]
  <2>2. bookings' = [bookings EXCEPT ![req[p].booking] = n] /\ n.count = 0
    BY <1>9 DEF CommitHold, Write
  <2> HIDE DEF n
  <2>3. CASE b = req[p].booking
    <3>1. bookings'[b].count = 0
      BY <1>t, <2>1, <2>2, <2>3
    <3>2. QED
      BY <2>1, <3>1 DEF CountStep
  <2>4. CASE b # req[p].booking
    BY <1>i, <1>t, <2>1, <2>2, <2>4
  <2>5. QED
    BY <2>3, <2>4
<1>10. CASE CommitReschedule(p)
  <2> DEFINE c == req[p].booking
             n == [bookings[c] EXCEPT !.win = req[p].win, !.count = @ + 1]
  <2>1. /\ c \in Bookings /\ req[p].op = "reschedule" /\ req[p].pc = "lock"
        /\ \E s : ToAudit(p, c, s)
    BY <1>10, <1>t DEF CommitReschedule, ScanDone
  <2>2. bookings' = [bookings EXCEPT ![c] = n]
    BY <1>10 DEF CommitReschedule, Write
  <2>3. n.count = bookings[c].count + 1
    BY <1>t, <2>1 DEF Row
  <2> HIDE DEF n
  <2>4. CASE b = c
    <3>1. bookings'[b].count = bookings[b].count + 1
      BY <1>t, <2>1, <2>2, <2>3, <2>4
    <3>2. p \in Uncounted(req, b)
      BY <2>1, <2>4 DEF Uncounted
    <3>3. Uncounted(req', b) \subseteq Uncounted(req, b) \ {p}
      BY <2>1, FinishNotAhead
    <3>4. QED
      BY <3>1, <3>2, <3>3 DEF CountStep
  <2>5. CASE b # c
    BY <1>i, <1>t, <2>1, <2>2, <2>5
  <2>6. QED
    BY <2>4, <2>5
<1>11. CASE Confirm(p)
  <2>1. req[p].booking \in Bookings
    BY <1>11, <1>t DEF Confirm
  <2>2. CASE Confirmable(req[p].booking, req[p].now)
    BY <1>11, <1>i, <2>1, <2>2, CountKept DEF Confirm
  <2>3. CASE ~Confirmable(req[p].booking, req[p].now)
    <3>1. Become(p, [req[p] EXCEPT !.pc = "expire"]) /\ bookings' = bookings
      BY <1>11, <2>3 DEF Confirm
    <3>2. [req[p] EXCEPT !.pc = "expire"].pc = "expire"
      BY <1>t DEF Request
    <3>3. QED
      BY <3>1, <3>2, NotAhead DEF CountStep
  <2>4. QED
    BY <2>2, <2>3
<1>12. CASE ConfirmExpire(p) \/ Cancel(p) \/ CheckIn(p)
  <2>1. req[p].booking \in Bookings
    BY <1>12, <1>t DEF ConfirmExpire, Cancel, CheckIn
  <2>2. bookings'[b].count = bookings[b].count
    BY <1>12, <2>1, CountKept DEF ConfirmExpire, Cancel, CheckIn
  <2>3. QED
    BY <1>12, <1>i, <2>2 DEF ConfirmExpire, Cancel, CheckIn
<1>13. QED
  BY <1>1, <1>2, <1>3, <1>4, <1>5, <1>6, <1>7, <1>8, <1>9, <1>10, <1>11, <1>12 DEF Proceed

LEMMA CountSteps ==
    ASSUME Typed, [Next]_vars, NEW b \in Bookings
    PROVE  CountStep(b)
<1>1. CASE WorkerCommit
  <2>1. bookings \in [Bookings -> Row] /\ bookings[b] \in Row /\ req' = req
    BY <1>1 DEF WorkerCommit, Typed, TypeOK
  <2>2. [bookings[b] EXCEPT !.status = "expired"].count = bookings[b].count
    BY <2>1 DEF Row
  <2>3. bookings'[b].count = bookings[b].count
    BY <1>1, <2>2 DEF WorkerCommit
  <2>4. QED
    BY <2>1, <2>3 DEF CountStep
<1>2. CASE Crash
  <2>1. bookings' = bookings /\ Uncounted(req', b) = {}
    BY <1>2 DEF Crash, Uncounted, Idle
  <2>2. QED
    BY <2>1 DEF CountStep
<1>3. CASE UNCHANGED <<bookings, req>>
  BY <1>3 DEF CountStep
<1>4. QED
  BY <1>1, <1>2, <1>3, RequestCounts
     DEF Next, Abort, DeadlockVictim, WorkerStep, WorkerTick, WorkerLock, WorkerAudit,
         WorkerRecord, WorkerFail, WorkerAuditLost, WorkerVictim, WorkerRollback, Tick, vars

LEMMA UncountedFinite ==
    ASSUME NEW R, NEW b
    PROVE  /\ IsFiniteSet(Uncounted(R, b)) /\ Cardinality(Uncounted(R, b)) \in Nat
           /\ Cardinality(Uncounted(R, b)) <= Cardinality(Requests)
           /\ Cardinality(Requests) \in Nat
<1>1. Uncounted(R, b) \subseteq Requests
  BY DEF Uncounted
<1>2. QED
  BY <1>1, ConstantsAssumption, FS_Subset, FS_CardinalityType

LEMMA CountedStep ==
    ASSUME Typed, Counted, [Next]_vars
    PROVE  Counted'
<1> SUFFICES ASSUME NEW b \in Bookings
             PROVE  bookings'[b].count + Cardinality(Uncounted(req', b)) <= Quota
  BY DEF Counted, Quota
<1> DEFINE m == Cardinality(Uncounted(req, b))
           n == Cardinality(Uncounted(req', b))
           N == Cardinality(Requests)
<1>1. m \in Nat /\ n \in Nat /\ N \in Nat /\ n <= N /\ RescheduleLimit \in Nat
  BY UncountedFinite, ConstantsAssumption
<1>2. bookings[b].count \in Nat /\ bookings'[b].count \in Nat
  <2>1. bookings[b] \in Row /\ bookings'[b] \in Row
    BY NextTyped DEF Typed, TypeOK
  <2>2. QED
    BY <2>1 DEF Row
<1>3. bookings[b].count + m <= Quota
  BY DEF Counted
<1>4. Uncounted(req', b) \subseteq Uncounted(req, b) => n <= m
  BY UncountedFinite, FS_Subset
<1>5. ASSUME NEW p \in Uncounted(req, b), Uncounted(req', b) \subseteq Uncounted(req, b) \ {p}
      PROVE  n <= m - 1
  <2> DEFINE S == Uncounted(req, b) \ {p}
  <2>1. IsFiniteSet(S) /\ Cardinality(S) = m - 1
    BY <1>5, UncountedFinite, FS_RemoveElement
  <2> HIDE DEF S
  <2>2. n <= Cardinality(S)
    BY <1>5, <2>1, FS_Subset DEF S
  <2>3. QED
    BY <2>1, <2>2
<1>6. CountStep(b)
  BY CountSteps
<1> HIDE DEF m, n, N
<1>7. CASE bookings'[b].count = bookings[b].count /\ n <= m
  BY <1>1, <1>2, <1>3, <1>7 DEF Quota, N, n
<1>8. CASE bookings'[b].count <= RescheduleLimit - 1
  BY <1>1, <1>2, <1>8 DEF Quota, N, n
<1>9. CASE bookings'[b].count = bookings[b].count + 1 /\ n <= m - 1
  BY <1>1, <1>2, <1>3, <1>9 DEF Quota, N, n
<1>10. QED
  BY <1>4, <1>5, <1>6, <1>7, <1>8, <1>9 DEF CountStep

\* Races between the check of the limit and the UPDATE that counts overrun the
\* limit by at most the number of request slots less one.
THEOREM ReschedulesBounded == Spec => []RescheduleBound
<1>1. Init => Typed /\ Counted
  <2> SUFFICES ASSUME Init PROVE Counted
    BY InitTyped
  <2> SUFFICES ASSUME NEW b \in Bookings
               PROVE  bookings[b].count + Cardinality(Uncounted(req, b)) <= Quota
    BY DEF Counted
  <2>1. bookings[b].count = 0 /\ RescheduleLimit \in Nat \ {0}
    BY ConstantsAssumption DEF Init, NoRow
  <2>2. /\ Cardinality(Uncounted(req, b)) \in Nat /\ Cardinality(Requests) \in Nat
        /\ Cardinality(Uncounted(req, b)) <= Cardinality(Requests)
    BY UncountedFinite
  <2>3. QED
    BY <2>1, <2>2 DEF Quota
<1>2. Typed /\ Counted /\ [Next]_vars => (Typed /\ Counted)'
  BY NextTyped, CountedStep
<1>3. Typed /\ Counted => RescheduleBound
  <2> SUFFICES ASSUME Typed, Counted, NEW b \in Bookings PROVE bookings[b].count <= Quota
    BY DEF RescheduleBound, Quota
  <2>1. bookings[b] \in Row
    BY DEF Typed, TypeOK
  <2>2. bookings[b].count \in Nat /\ Cardinality(Uncounted(req, b)) \in Nat
    BY <2>1, UncountedFinite DEF Row
  <2>3. bookings[b].count + Cardinality(Uncounted(req, b)) <= Quota /\ Quota \in Int
    BY UncountedFinite, ConstantsAssumption DEF Counted, Quota
  <2>4. QED
    BY <2>2, <2>3
<1>4. QED
  BY <1>1, <1>2, <1>3, PTL DEF Spec
=============================================================================
