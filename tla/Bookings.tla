------------------------------ MODULE Bookings ------------------------------
(***************************************************************************)
(* Booking of rooms and instructors: the HTTP handlers                     *)
(* (api/handlers/booking.go), the service rules (service/booking.go), the  *)
(* PostgreSQL transactions (repository/postgres/workflow_store.go) and the *)
(* hold expiry worker (service/hold_expiry_worker.go), at the granularity  *)
(* of one SQL statement per step.                                          *)
(*                                                                         *)
(* PostgreSQL runs these statements in READ COMMITTED: a statement sees    *)
(* the rows committed when it starts, and a statement that locks or        *)
(* updates a row waits for the row's lock and then looks at the row again. *)
(* bookings holds committed rows only; what a transaction has written but  *)
(* not committed is visible to nobody and takes effect in its commit step. *)
(*                                                                         *)
(* Some definitions stand next to a variant that is not part of the model: *)
(* a plausible slip in the same lines of code, which the README names with *)
(* the property that notices it.                                           *)
(***************************************************************************)
EXTENDS Integers, FiniteSets

CONSTANTS
    Requests,      \* slots for HTTP requests in flight at the same time
    Worker,        \* the hold expiry worker, as an owner of row locks
    Bookings,      \* ids the bookings table can hand out
    Rooms,
    Instructors,
    Windows,       \* time windows clients ask for: [start, end]
    Refused,       \* <<room, window>> pairs that room capacity, blackout
                   \* dates or class periods rule out
    Ops,           \* the kinds of request clients send
    HoldTTL,       \* life of a hold, in clock ticks (5 minutes in the code)
    Cutoff,        \* cancellation cutoff, in ticks (24 hours in the code)
    RescheduleLimit, \* reschedules a booking is allowed (2 in the code)
    MaxLag,        \* bound: ticks between a handler's time.Now() and the
                   \* last statement that uses it
    MaxClock,      \* bound: last tick of the clock
    MaxRequests,   \* bound: requests that arrive
    MaxFaults,     \* bound: database errors and server crashes
    NULL           \* SQL NULL, and the owner of a free lock

AllOps == {"hold", "confirm", "cancel", "check_in", "reschedule"}

ASSUME ConstantsAssumption ==
    /\ IsFiniteSet(Requests)
    /\ Requests # {}
    /\ Worker \notin Requests
    /\ Rooms # {}
    /\ Instructors # {}
    /\ Windows # {}
    /\ Windows \subseteq [start : Int, end : Int]
    /\ Refused \subseteq Rooms \X Windows
    /\ Ops \subseteq AllOps
    /\ HoldTTL \in Nat \ {0}
    /\ Cutoff \in Nat
    /\ RescheduleLimit \in Nat \ {0}
    /\ MaxLag \in Nat
    /\ MaxClock \in Nat
    /\ MaxRequests \in Nat
    /\ MaxFaults \in Nat

ASSUME NullAssumption ==
    /\ NULL \notin Requests
    /\ NULL # Worker
    /\ NULL \notin Bookings
    /\ NULL \notin Rooms
    /\ NULL \notin Instructors
    /\ NULL \notin Windows
    /\ NULL \notin Int

VARIABLES
    clock,      \* wall clock
    bookings,   \* the bookings table, by id
    roomLock,   \* owner of the row lock on a row of rooms
    rowLock,    \* owner of the row lock on a row of bookings
    req,        \* what each request in flight is doing
    worker,     \* what the hold expiry worker is doing
    audit,      \* rows of audit_logs about bookings
    faults,     \* errors and crashes so far
    arrived     \* requests so far

vars == <<clock, bookings, roomLock, rowLock, req, worker, audit, faults,
          arrived>>

-----------------------------------------------------------------------------
(* Rows, requests, and what is read from them.                             *)

Procs == Requests \cup {Worker}

\* A status of model/booking.go, or "none" for an id not handed out yet.
Live == {"held", "confirmed", "checked_in"}
Status == Live \cup {"none", "cancelled", "expired"}

Row == [status  : Status,
        room    : Rooms \cup {NULL},
        instr   : Instructors \cup {NULL},
        win     : Windows \cup {NULL},
        expires : Nat \cup {NULL},
        count   : Nat]

NoRow == [status |-> "none", room |-> NULL, instr |-> NULL, win |-> NULL,
          expires |-> NULL, count |-> 0]

\* The statement a request is about to execute.
PC == {"idle", "call", "check", "row", "room", "lock", "update", "expire",
       "audit"}

\* Between capturing now and the last statement that depends on it.
Timed == {"check", "row", "room", "lock", "update", "expire"}

Request == [pc      : PC,
            op      : AllOps,
            booking : Bookings \cup {NULL},
            old     : Status,                  \* resource.Status in the handler
            new     : Status,                  \* status its update has written
            now     : Nat,                     \* time.Now() of the handler
            room    : Rooms \cup {NULL},
            instr   : Instructors \cup {NULL},
            win     : Windows \cup {NULL},     \* window asked for
            pending : SUBSET Bookings,         \* matching rows not locked yet
            clash   : SUBSET Bookings]         \* rows found in conflict

Idle == [pc |-> "idle", op |-> "hold", booking |-> NULL, old |-> "none",
         new |-> "none", now |-> 0, room |-> NULL, instr |-> NULL, win |-> NULL,
         pending |-> {}, clash |-> {}]

WorkerState == [pc      : {"idle", "lock", "audit"},
                now     : Nat,
                pending : SUBSET Bookings,
                batch   : SUBSET Bookings]     \* rows the UPDATE returns

WorkerIdle == [pc |-> "idle", now |-> 0, pending |-> {}, batch |-> {}]

\* An audit_logs row: which operation moved which booking between what states.
AuditRow == [event : AllOps \cup {"expire"}, booking : Bookings,
             old : Status, new : Status]

Overlap(v, w) == v.start < w.end /\ v.end > w.start

\* The WHERE clause of the overlap query.
MatchesHeld(c, room, instr, win) ==
    /\ bookings[c].status = "held"
    /\ Overlap(bookings[c].win, win)
    /\ bookings[c].room = room \/ bookings[c].instr = instr

Matches(c, room, instr, win) ==
    /\ bookings[c].status \in Live
    /\ Overlap(bookings[c].win, win)
    /\ bookings[c].room = room \/ bookings[c].instr = instr

\* A hold the overlap query returns but the Go loop skips.
SkippedEarly(c, now) ==
    /\ bookings[c].expires # NULL
    /\ now >= bookings[c].expires

Skipped(c, now) ==
    /\ bookings[c].expires # NULL
    /\ now > bookings[c].expires

\* The rows the two expiring UPDATEs select.
ExpirableAny(c, now) ==
    /\ bookings[c].expires # NULL
    /\ bookings[c].expires <= now

Expirable(c, now) ==
    /\ bookings[c].status = "held"
    /\ bookings[c].expires # NULL
    /\ bookings[c].expires <= now

\* excludeBookingIDs: a rescheduled booking does not conflict with itself.
Own(p) == IF req[p].op = "reschedule" THEN {req[p].booking} ELSE {}

\* The statement does not have to wait for p to get the row lock.
Lockable(c, p) == rowLock[c] \in {NULL, p}

\* Ending a transaction, by commit or rollback, frees every row it locked.
Unlock(lock, p) == [x \in DOMAIN lock |-> IF lock[x] = p THEN NULL ELSE lock[x]]

\* The deferred tx.Rollback, or tx.Commit before it, of a request.
ReleaseRoomOnly(p) == roomLock' = Unlock(roomLock, p) /\ UNCHANGED rowLock

Release(p) ==
    /\ roomLock' = Unlock(roomLock, p)
    /\ rowLock' = Unlock(rowLock, p)

\* Request p goes on as r; row b of the table becomes n.
Become(p, r) == req' = [req EXCEPT ![p] = r]
Write(b, n) == bookings' = [bookings EXCEPT ![b] = n]

Finish(p) == Become(p, Idle)

\* After a write that took effect the handler records the transition.
ToAuditUnnamed(p, b, new) ==
    Become(p, [Idle EXCEPT !.pc = "audit", !.op = req[p].op, !.old = req[p].old,
                           !.new = new])

ToAudit(p, b, new) ==
    Become(p, [Idle EXCEPT !.pc = "audit", !.op = req[p].op, !.booking = b,
                           !.old = req[p].old, !.new = new])

-----------------------------------------------------------------------------
(* A request arrives.                                                      *)

\* BookingHandler.Hold: now is captured and CreateHold opens a transaction.
\* The id of the row to be inserted is one no other row or request has.
BeginHold(p) ==
    /\ req[p].pc = "idle"
    /\ arrived < MaxRequests
    /\ arrived' = arrived + 1
    /\ "hold" \in Ops
    /\ \E b \in Bookings, r \in Rooms, i \in Instructors, w \in Windows :
          /\ bookings[b].status = "none"
          /\ \A q \in Requests : req[q].booking # b
          /\ Become(p, [Idle EXCEPT !.pc = "room", !.booking = b, !.now = clock,
                                    !.room = r, !.instr = i, !.win = w])
    /\ UNCHANGED <<clock, bookings, roomLock, rowLock, worker, audit, faults>>

\* The other handlers first read the booking (GetBooking): the actor's rights
\* are checked against it and its status is kept for the audit log. Requests
\* that are refused here change nothing and are left out. Only Reschedule
\* validates its window.
Begin(p) ==
    /\ req[p].pc = "idle"
    /\ arrived < MaxRequests
    /\ arrived' = arrived + 1
    /\ \E o \in Ops \ {"hold"}, b \in Bookings :
          /\ bookings[b].status # "none"
          /\ \E w \in IF o = "reschedule"
                        THEN {v \in Windows : v.end > v.start}
                        ELSE {NULL} :
                Become(p, [Idle EXCEPT !.pc = "call", !.op = o, !.booking = b,
                                       !.old = bookings[b].status, !.win = w])
    /\ UNCHANGED <<clock, bookings, roomLock, rowLock, worker, audit, faults>>

\* The service is called with time.Now(). Cancel and Reschedule read the
\* booking again before they write.
Call(p) ==
    /\ req[p].pc = "call"
    /\ Become(p, [req[p] EXCEPT !.now = clock,
                                !.pc = IF req[p].op \in {"cancel", "reschedule"}
                                         THEN "check" ELSE "update"])
    /\ UNCHANGED <<clock, bookings, roomLock, rowLock, worker, audit, faults, arrived>>

\* BookingService.Cancel: the 24 hour rule.
CheckCancel(p) ==
    /\ req[p].pc = "check"
    /\ req[p].op = "cancel"
    /\ IF bookings[req[p].booking].win.start - req[p].now < Cutoff
         THEN Finish(p)
         ELSE Become(p, [req[p] EXCEPT !.pc = "update"])
    /\ UNCHANGED <<clock, bookings, roomLock, rowLock, worker, audit, faults, arrived>>

\* BookingService.Reschedule: the limit on reschedules.
\* (The slip lets one more pass.)
LimitPassed(b) == bookings[b].count > RescheduleLimit
LimitReached(b) == bookings[b].count >= RescheduleLimit

CheckReschedule(p) ==
    /\ req[p].pc = "check"
    /\ req[p].op = "reschedule"
    /\ IF LimitReached(req[p].booking)
         THEN Finish(p)
         ELSE Become(p, [req[p] EXCEPT !.pc = "row"])
    /\ UNCHANGED <<clock, bookings, roomLock, rowLock, worker, audit, faults, arrived>>

-----------------------------------------------------------------------------
(* The transactions of CreateHold and Reschedule.                          *)

\* getBookingTx(forUpdate): Reschedule locks its booking and takes room and
\* instructor from the row.
LockRow(p) ==
    /\ req[p].pc = "row"
    /\ Lockable(req[p].booking, p)
    /\ rowLock' = [rowLock EXCEPT ![req[p].booking] = p]
    /\ Become(p, [req[p] EXCEPT !.pc = "room",
                                !.room = bookings[req[p].booking].room,
                                !.instr = bookings[req[p].booking].instr])
    /\ UNCHANGED <<clock, bookings, roomLock, worker, audit, faults, arrived>>

\* detectBookingConflictsTx locks the room's row, reads the calendar rules,
\* and starts the overlap query: pending are the rows its snapshot selects.
\* The reads in between see nothing that another process writes.
LockRoom(p) ==
    /\ req[p].pc = "room"
    /\ roomLock[req[p].room] = NULL
    /\ roomLock' = [roomLock EXCEPT ![req[p].room] = p]
    /\ Become(p, [req[p] EXCEPT !.pc = "lock",
                                !.pending = {c \in Bookings :
                                    Matches(c, req[p].room, req[p].instr, req[p].win)}])
    /\ UNCHANGED <<clock, bookings, rowLock, worker, audit, faults, arrived>>

\* FOR UPDATE locks the selected rows one at a time and looks at each again;
\* the Go loop skips the booking itself and holds whose time is over.
LockMatch(p) ==
    /\ req[p].pc = "lock"
    /\ \E c \in req[p].pending :
          /\ Lockable(c, p)
          /\ rowLock' = [rowLock EXCEPT ![c] = p]
          /\ Become(p, [req[p] EXCEPT !.pending = @ \ {c},
                !.clash = IF /\ Matches(c, req[p].room, req[p].instr, req[p].win)
                             /\ c \notin Own(p)
                             /\ ~Skipped(c, req[p].now)
                            THEN @ \cup {c} ELSE @])
    /\ UNCHANGED <<clock, bookings, roomLock, worker, audit, faults, arrived>>

ScanDone(p) == req[p].pc = "lock" /\ req[p].pending = {}

Conflicts(p) == req[p].clash # {} \/ <<req[p].room, req[p].win>> \in Refused

\* Conflicts were found: the deferred Rollback ends the transaction. (The
\* booking_hold_failed audit row names no booking and no state.)
Refuse(p) ==
    /\ ScanDone(p)
    /\ Conflicts(p)
    /\ Release(p)
    /\ Finish(p)
    /\ UNCHANGED <<clock, bookings, worker, audit, faults, arrived>>

\* CreateHold inserts the row and commits.
CommitHold(p) ==
    /\ ScanDone(p)
    /\ ~Conflicts(p)
    /\ req[p].op = "hold"
    /\ bookings[req[p].booking].status = "none"
    /\ Write(req[p].booking,
             [status |-> "held", room |-> req[p].room, instr |-> req[p].instr,
              win |-> req[p].win, expires |-> req[p].now + HoldTTL, count |-> 0])
    /\ ToAudit(p, req[p].booking, "held")
    /\ Release(p)
    /\ UNCHANGED <<clock, worker, audit, faults, arrived>>

\* Reschedule moves the row and commits, whatever the row's status and count.
CommitReschedule(p) ==
    /\ ScanDone(p)
    /\ ~Conflicts(p)
    /\ req[p].op = "reschedule"
    /\ Write(req[p].booking, [bookings[req[p].booking] EXCEPT !.win = req[p].win,
                                                            !.count = @ + 1])
    /\ ToAudit(p, req[p].booking, bookings[req[p].booking].status)
    /\ Release(p)
    /\ UNCHANGED <<clock, worker, audit, faults, arrived>>

-----------------------------------------------------------------------------
(* The single-statement updates. An UPDATE whose WHERE clause selects the  *)
(* row waits for the row's lock; one that selects nothing does not wait.   *)

ConfirmableAny(b, now) == bookings[b].expires = NULL \/ bookings[b].expires > now

Confirmable(b, now) ==
    /\ bookings[b].status = "held"
    /\ bookings[b].expires = NULL \/ bookings[b].expires > now

Confirm(p) ==
    /\ req[p].pc = "update"
    /\ req[p].op = "confirm"
    /\ IF Confirmable(req[p].booking, req[p].now)
         THEN /\ Lockable(req[p].booking, p)
              /\ Write(req[p].booking, [bookings[req[p].booking] EXCEPT
                             !.status = "confirmed", !.expires = NULL])
              /\ ToAudit(p, req[p].booking, "confirmed")
         ELSE /\ Become(p, [req[p] EXCEPT !.pc = "expire"])
              /\ UNCHANGED bookings
    /\ UNCHANGED <<clock, roomLock, rowLock, worker, audit, faults, arrived>>

\* Store.Confirm's second UPDATE, when the first changed no row; the handler
\* then answers with an error and audits nothing.
ConfirmExpire(p) ==
    /\ req[p].pc = "expire"
    /\ IF Expirable(req[p].booking, req[p].now)
         THEN /\ Lockable(req[p].booking, p)
              /\ Write(req[p].booking, [bookings[req[p].booking] EXCEPT !.status = "expired"])
         ELSE UNCHANGED bookings
    /\ Finish(p)
    /\ UNCHANGED <<clock, roomLock, rowLock, worker, audit, faults, arrived>>

\* Store.Cancel: the WHERE clause names the row and nothing else.
Cancel(p) ==
    /\ req[p].pc = "update"
    /\ req[p].op = "cancel"
    /\ Lockable(req[p].booking, p)
    /\ Write(req[p].booking, [bookings[req[p].booking] EXCEPT !.status = "cancelled"])
    /\ ToAudit(p, req[p].booking, "cancelled")
    /\ UNCHANGED <<clock, roomLock, rowLock, worker, audit, faults, arrived>>

CheckIn(p) ==
    /\ req[p].pc = "update"
    /\ req[p].op = "check_in"
    /\ IF bookings[req[p].booking].status = "confirmed"
         THEN /\ Lockable(req[p].booking, p)
              /\ Write(req[p].booking, [bookings[req[p].booking] EXCEPT !.status = "checked_in"])
              /\ ToAudit(p, req[p].booking, "checked_in")
         ELSE /\ Finish(p)
              /\ UNCHANGED bookings
    /\ UNCHANGED <<clock, roomLock, rowLock, worker, audit, faults, arrived>>

\* AuditRecorder.RecordTransition at the end of a handler.
RecordTransition(p) ==
    /\ req[p].pc = "audit"
    /\ audit' = audit \cup {[event |-> req[p].op, booking |-> req[p].booking,
                             old |-> req[p].old, new |-> req[p].new]}
    /\ Finish(p)
    /\ UNCHANGED <<clock, bookings, roomLock, rowLock, worker, faults, arrived>>

-----------------------------------------------------------------------------
(* The hold expiry worker: on every tick of its timer one UPDATE ...       *)
(* RETURNING over all bookings, then one audit row per expired booking.    *)

\* runOnce(now) starts the UPDATE at once: pending are the rows it selects.
WorkerTickAtStart ==
    /\ worker.pc = "idle"
    /\ clock = 0
    /\ worker' = [WorkerIdle EXCEPT !.pc = "lock", !.now = clock,
                     !.pending = {c \in Bookings : Expirable(c, clock)}]
    /\ UNCHANGED <<clock, bookings, roomLock, rowLock, req, audit, faults, arrived>>

WorkerTick ==
    /\ worker.pc = "idle"
    /\ worker' = [WorkerIdle EXCEPT !.pc = "lock", !.now = clock,
                     !.pending = {c \in Bookings : Expirable(c, clock)}]
    /\ UNCHANGED <<clock, bookings, roomLock, rowLock, req, audit, faults, arrived>>

WorkerLock ==
    /\ worker.pc = "lock"
    /\ \E c \in worker.pending :
          /\ Lockable(c, Worker)
          /\ rowLock' = [rowLock EXCEPT ![c] = Worker]
          /\ worker' = [worker EXCEPT !.pending = @ \ {c},
                           !.batch = IF Expirable(c, worker.now) THEN @ \cup {c} ELSE @]
    /\ UNCHANGED <<clock, bookings, roomLock, req, audit, faults, arrived>>

WorkerCommit ==
    /\ worker.pc = "lock"
    /\ worker.pending = {}
    /\ bookings' = [b \in Bookings |-> IF b \in worker.batch
                        THEN [bookings[b] EXCEPT !.status = "expired"]
                        ELSE bookings[b]]
    /\ rowLock' = Unlock(rowLock, Worker)
    /\ worker' = IF worker.batch = {} THEN WorkerIdle
                    ELSE [worker EXCEPT !.pc = "audit", !.now = 0]
    /\ UNCHANGED <<clock, roomLock, req, audit, faults, arrived>>

\* RecordTransition for one expired booking; if the store fails the row is
\* missing and the loop goes on.
WorkerRecord(b, rows) ==
    /\ worker.pc = "audit"
    /\ b \in worker.batch
    /\ audit' = audit \cup rows
    /\ worker' = IF worker.batch = {b} THEN WorkerIdle
                    ELSE [worker EXCEPT !.batch = @ \ {b}]
    /\ UNCHANGED <<clock, bookings, roomLock, rowLock, req, arrived>>

WorkerAudit ==
    /\ \E b \in worker.batch :
          WorkerRecord(b, {[event |-> "expire", booking |-> b,
                            old |-> "held", new |-> "expired"]})
    /\ UNCHANGED faults

-----------------------------------------------------------------------------
(* Failures.                                                               *)

\* A statement fails or the client goes away: the deferred Rollback undoes
\* the transaction. At "audit" the row is lost and only a log line is left.
Rollback(p) ==
    /\ req[p].pc # "idle"
    /\ Release(p)
    /\ Finish(p)
    /\ UNCHANGED <<clock, bookings, worker, audit, arrived>>

Abort(p) ==
    /\ faults < MaxFaults
    /\ faults' = faults + 1
    /\ Rollback(p)

\* ExpireHeldBookings returns an error: runOnce gives up until the next tick.
WorkerRollback ==
    /\ worker.pc = "lock"
    /\ rowLock' = Unlock(rowLock, Worker)
    /\ worker' = WorkerIdle
    /\ UNCHANGED <<clock, bookings, roomLock, req, audit, arrived>>

WorkerFail ==
    /\ faults < MaxFaults
    /\ faults' = faults + 1
    /\ WorkerRollback

WorkerAuditLost ==
    /\ faults < MaxFaults
    /\ faults' = faults + 1
    /\ \E b \in worker.batch : WorkerRecord(b, {})

\* The server stops and starts again: the tables survive, everything in
\* memory and every open transaction is gone.
Crash ==
    /\ faults < MaxFaults
    /\ faults' = faults + 1
    /\ roomLock' = [r \in Rooms |-> NULL]
    /\ rowLock' = [b \in Bookings |-> NULL]
    /\ req' = [p \in Requests |-> Idle]
    /\ worker' = WorkerIdle
    /\ UNCHANGED <<clock, bookings, audit, arrived>>

\* The rows and rooms p cannot lock until another process ends.
Blockers(p) ==
    IF p = Worker THEN {rowLock[c] : c \in worker.pending}
    ELSE CASE req[p].pc = "row" -> {rowLock[req[p].booking]}
           [] req[p].pc = "room" -> {roomLock[req[p].room]}
           [] req[p].pc = "lock" -> {rowLock[c] : c \in req[p].pending}
           [] OTHER -> {}

\* p is on a cycle of processes that wait for each other.
Deadlocked(p) ==
    \E S \in SUBSET Procs :
        /\ p \in S
        /\ \A q \in S : Blockers(q) # {} /\ Blockers(q) \subseteq S \ {q}

\* PostgreSQL's deadlock detector rolls back one of them.
DeadlockVictim(p) ==
    /\ Deadlocked(p)
    /\ Rollback(p)
    /\ UNCHANGED faults

WorkerVictim ==
    /\ Deadlocked(Worker)
    /\ WorkerRollback
    /\ UNCHANGED faults

-----------------------------------------------------------------------------
(* Time passes. A request captures now before its statements run; MaxLag   *)
(* bounds how far the clock can run ahead of it.                           *)
Tick ==
    /\ clock < MaxClock
    /\ \A p \in Requests : req[p].pc \in Timed => clock - req[p].now < MaxLag
    /\ clock' = clock + 1
    /\ UNCHANGED <<bookings, roomLock, rowLock, req, worker, audit, faults, arrived>>

Init ==
    /\ clock = 0
    /\ bookings = [b \in Bookings |-> NoRow]
    /\ roomLock = [r \in Rooms |-> NULL]
    /\ rowLock = [b \in Bookings |-> NULL]
    /\ req = [p \in Requests |-> Idle]
    /\ worker = WorkerIdle
    /\ audit = {}
    /\ faults = 0
    /\ arrived = 0

\* Steps that bring a request in flight nearer to its answer.
Proceed(p) ==
    \/ Call(p) \/ CheckCancel(p) \/ CheckReschedule(p)
    \/ LockRow(p) \/ LockRoom(p) \/ LockMatch(p)
    \/ Refuse(p) \/ CommitHold(p) \/ CommitReschedule(p)
    \/ Confirm(p) \/ ConfirmExpire(p) \/ Cancel(p) \/ CheckIn(p)
    \/ RecordTransition(p)

WorkerStep ==
    WorkerTick \/ WorkerLock \/ WorkerCommit \/ WorkerAudit

Next ==
    \/ \E p \in Requests :
          BeginHold(p) \/ Begin(p) \/ Proceed(p) \/ Abort(p) \/ DeadlockVictim(p)
    \/ WorkerStep \/ WorkerFail \/ WorkerAuditLost \/ WorkerVictim
    \/ Crash
    \/ Tick

Spec == Init /\ [][Next]_vars

\* A handler runs to its end once started; a statement waits in the queue of
\* the lock it needs, so it gets a lock that keeps coming free (strong
\* fairness); PostgreSQL breaks deadlocks; the ticker goroutine keeps the
\* worker going. Clients owe nothing.
Fairness ==
    /\ \A p \in Requests : SF_vars(Proceed(p)) /\ WF_vars(DeadlockVictim(p))
    /\ WF_vars(WorkerStep)
    /\ WF_vars(Tick)

FairSpec == Spec /\ Fairness

-----------------------------------------------------------------------------
(* Properties.                                                             *)

\* A row handed out names a room, an instructor and a window.
Complete(n) ==
    n.status # "none" =>
        n.room \in Rooms /\ n.instr \in Instructors /\ n.win \in Windows

\* Every variable has its type, and the rows of the table are complete.
TypeOK ==
    /\ clock \in Nat
    /\ bookings \in [Bookings -> Row]
    /\ \A b \in Bookings : Complete(bookings[b])
    /\ roomLock \in [Rooms -> Requests \cup {NULL}]
    /\ rowLock \in [Bookings -> Procs \cup {NULL}]
    /\ req \in [Requests -> Request]
    /\ worker \in WorkerState
    /\ audit \subseteq AuditRow
    /\ faults \in Nat
    /\ arrived \in Nat

\* A booking takes up its room: it is confirmed, checked in, or a hold whose
\* time is not over.
Occupies(b) ==
    \/ bookings[b].status \in {"confirmed", "checked_in"}
    \/ bookings[b].status = "held" /\ clock <= bookings[b].expires

\* No room is given to two bookings for overlapping windows (the purpose of
\* detectBookingConflictsTx and the room lock), over all interleavings of
\* holds, reschedules, confirmations and the expiry of holds.
RoomExclusive ==
    \A b, c \in Bookings :
        b # c /\ Occupies(b) /\ Occupies(c) /\ bookings[b].room = bookings[c].room
            => ~Overlap(bookings[b].win, bookings[c].win)

\* However late captured times are used, one step only can give a room away
\* twice: Confirm, with a now from before the deadline, of a hold that by the
\* clock has lapsed. No commit of CreateHold or Reschedule does, whatever it
\* skipped and whoever confirms, expires or cancels while it scans.
OnlyLateConfirms ==
    [][RoomExclusive /\ ~RoomExclusive' =>
          \E b \in Bookings :
              /\ bookings[b].status = "held" /\ clock > bookings[b].expires
              /\ bookings'[b].status = "confirmed"]_vars

\* The same for instructors, whose rows design.md says are locked too.
InstructorExclusive ==
    \A b, c \in Bookings :
        b # c /\ Occupies(b) /\ Occupies(c) /\ bookings[b].instr = bookings[c].instr
            => ~Overlap(bookings[b].win, bookings[c].win)

\* A row lock belongs to an open transaction: no path out of CreateHold,
\* Reschedule or the worker's UPDATE leaves a room or a booking locked.
LocksOwned ==
    /\ \A r \in Rooms : roomLock[r] # NULL =>
          req[roomLock[r]].pc = "lock" /\ req[roomLock[r]].room = r
    /\ \A b \in Bookings : rowLock[b] # NULL =>
          IF rowLock[b] = Worker THEN worker.pc = "lock"
          ELSE req[rowLock[b]].pc \in {"room", "lock"}

\* The next statement of p waits for locks, and others hold them.
Waiting(p) == Blockers(p) # {} /\ Blockers(p) \cap {NULL, p} = {}

InTransaction(p) ==
    IF p = Worker THEN worker.pc = "lock" ELSE req[p].pc \in {"room", "lock"}

\* Whenever a transaction waits, one that holds locks can go on, or one is in a
\* deadlock that the database breaks: the lock orders of CreateHold, Reschedule
\* and the worker differ, but no wait is for a lock that nobody will release.
WaitsEnd ==
    \A p \in Procs : Waiting(p) =>
        \E q \in Procs : InTransaction(q) /\ (Waiting(q) => Deadlocked(q))

\* What a step may do to a booking, however stale the reads of its request
\* are: a booking never comes back from cancelled or expired, is checked in
\* only after it was confirmed, a hold expires only once its time is over, and
\* only holds expire. (Cancel has no status guard and may follow anything.)
StatusMoves ==
    {<<"none", "held">>, <<"held", "confirmed">>, <<"held", "expired">>,
     <<"confirmed", "checked_in">>}
        \cup ({"held", "confirmed", "checked_in", "expired"} \X {"cancelled"})

Lifecycle ==
    [][\A b \in Bookings :
          /\ bookings'[b].status # bookings[b].status =>
                <<bookings[b].status, bookings'[b].status>> \in StatusMoves
          /\ bookings[b].status = "held" /\ bookings'[b].status = "expired" =>
                bookings[b].expires <= clock
      ]_vars

\* The limit on reschedules is checked before the transaction that counts
\* them: requests in flight together can each pass the check, but never more
\* than the slots for requests allow.
RescheduleBound ==
    \A b \in Bookings :
        bookings[b].count <= RescheduleLimit - 1 + Cardinality(Requests)

\* service/booking.go: "cancellation cutoff is 24 hours before start", for the
\* start the booking has when it is cancelled and the time Cancel was called with:
\* Cancel checks a start it read before its UPDATE, and Reschedule moves starts.
CancelsInTime ==
    [][\A b \in Bookings :
          bookings[b].status # "cancelled" /\ bookings'[b].status = "cancelled" =>
              \E p \in Requests : /\ req[p].booking = b
                                  /\ bookings[b].win.start - req[p].now >= Cutoff]_vars

\* service/booking.go: "max 2 reschedules reached".
RescheduleLimited ==
    \A b \in Bookings : bookings[b].count <= RescheduleLimit

\* The handlers audit the status they read before the update. For
\* booking_confirmed that stale read is always right: a booking whose
\* confirmation succeeds was a hold ever since it could be read. And an audited
\* expiry is never followed by a status that treats the booking as live.
AuditTruthful ==
    \A a \in audit :
        /\ a.event = "confirm" => a.old = "held"
        /\ a.event = "expire" => bookings[a.booking].status \in {"expired", "cancelled"}

-----------------------------------------------------------------------------
(* The inductive invariant behind the safety properties.                   *)

\* What a request carries fits the statement it is about to execute.
Fits(r, table) ==
    /\ r.pc # "idle" => r.booking \in Bookings
    /\ r.pc \in {"call", "check", "update", "expire"} => r.op # "hold"
    /\ r.pc = "row" => r.op = "reschedule"
    /\ r.pc \in {"room", "lock"} =>
          /\ r.op \in {"hold", "reschedule"}
          /\ r.room \in Rooms
          /\ r.instr \in Instructors
          /\ r.win \in Windows
    /\ r.op = "reschedule" /\ r.pc \in {"call", "check", "row"} => r.win \in Windows
    /\ r.op # "hold" /\ r.pc # "idle" => table[r.booking].status # "none"

RequestOK == \A p \in Requests : Fits(req[p], bookings)

\* The worker expires rows of the table only.
BatchExists == \A b \in worker.batch : bookings[b].status # "none"

\* Only holds carry a time to expire, and all of them do.
ExpiryShape ==
    \A b \in Bookings :
        /\ bookings[b].status \in {"confirmed", "checked_in"} => bookings[b].expires = NULL
        /\ bookings[b].status = "held" => bookings[b].expires \in Nat

\* A request's idea of now is at most MaxLag behind the clock.
LagBounded ==
    \A p \in Requests :
        req[p].pc \in Timed => req[p].now <= clock /\ clock - req[p].now <= MaxLag

\* The overlap query runs under the lock of the room it is about, and a
\* rescheduled booking stays in its room.
RoomLocked ==
    \A p \in Requests :
        /\ req[p].pc = "lock" => roomLock[req[p].room] = p
        /\ req[p].pc \in {"room", "lock"} /\ req[p].op = "reschedule" =>
              req[p].room = bookings[req[p].booking].room

\* What the overlap query has not reported is no obstacle: while the room is
\* locked nothing appears in it that the query has missed, and a hold that was
\* skipped as lapsed stays locked, so that no late confirmation revives it.
ScanComplete ==
    \A p \in Requests : req[p].pc = "lock" =>
        \A c \in Bookings \ (req[p].pending \cup req[p].clash \cup Own(p)) :
            /\ bookings[c].status \in Live
            /\ bookings[c].room = req[p].room
            /\ Overlap(bookings[c].win, req[p].win)
            => Skipped(c, req[p].now) /\ rowLock[c] = p

\* Together these are preserved by every step, however late captured times are
\* used.
IInv ==
    /\ TypeOK
    /\ RequestOK
    /\ BatchExists
    /\ ExpiryShape
    /\ LagBounded
    /\ RoomLocked
    /\ ScanComplete

-----------------------------------------------------------------------------
(* Requests one at a time: what the code loses to overlapping requests.    *)

\* With nobody else to add to the table, the overlap query is complete for the
\* instructor too, whose row nobody locks.
SerialScan ==
    \A p \in Requests :
        /\ req[p].pc = "lock" =>
              \A c \in Bookings \ (req[p].pending \cup req[p].clash \cup Own(p)) :
                  Matches(c, req[p].room, req[p].instr, req[p].win) =>
                      Skipped(c, req[p].now)
        /\ req[p].pc \in {"room", "lock"} /\ req[p].op = "reschedule" =>
              req[p].instr = bookings[req[p].booking].instr

\* A hold that is over for everyone who looks: by the clock, and by the now of
\* the request in flight, which can therefore not confirm it any more.
Lapsed(b) ==
    /\ bookings[b].status = "held" /\ bookings[b].expires < clock
    /\ \A p \in Requests : req[p].pc \in Timed => bookings[b].expires < req[p].now

\* Of two live bookings that want the same room or instructor at once, one is a
\* hold that is over.
Apart ==
    \A b, c \in Bookings :
        b # c /\ bookings[b].status \in Live
              /\ Matches(c, bookings[b].room, bookings[b].instr, bookings[b].win)
            => Lapsed(b) \/ Lapsed(c)

\* A cancellation that passed the 24 hour rule still passes it.
CancelChecked ==
    \A p \in Requests : req[p].pc = "update" /\ req[p].op = "cancel" =>
        bookings[req[p].booking].win.start - req[p].now >= Cutoff

\* Preserved by every step of one request at a time, however long it takes.
SerialInv ==
    /\ IInv
    /\ SerialScan
    /\ Apart
    /\ CancelChecked

-----------------------------------------------------------------------------
(* Liveness, under FairSpec.                                               *)

\* A hold whose time is over does not stay a hold.
LapsedHoldsExpire ==
    \A b \in Bookings :
        (bookings[b].status = "held" /\ bookings[b].expires <= clock)
            ~> bookings[b].status # "held"

\* Every request is answered: no transaction waits for ever for a room or a
\* booking, even when transactions wait for each other.
RequestsAnswered ==
    \A p \in Requests : (req[p].pc # "idle") ~> (req[p].pc = "idle")
=============================================================================
