# TrainingOps: TLA+ models, checks and proofs

TrainingOps schedules training rooms and instructors, manages training content
and tasks, and serves several tenants from one Go server (echo) over one
PostgreSQL database. The server keeps almost nothing in memory: handlers in
`src/repo/backend/internal/api/handlers` call services in `.../service`, which
call stores in `.../repository/postgres`. Concurrency is therefore concurrency of
SQL statements: many request goroutines, one expiry worker, READ COMMITTED
isolation, row locks. The in-memory stores are doubles for unit tests, which run
under one mutex. One test races two statements against PostgreSQL
(`TestCreateHold_ConcurrentRequestsOnlyOneSucceeds` in
`store_integration_test.go`: two equal holds, one of which succeeds); no other test
reaches an interleaving.

Below, `B/` stands for `src/repo/backend/internal/`.

## Inventory

| component | state | operations | hard part | what makes it correct |
|---|---|---|---|---|
| Bookings (`B/api/handlers/booking.go`, `B/service/booking.go`, `B/repository/postgres/workflow_store.go`) | table `bookings`: status, room, instructor, window, hold deadline, reschedule count; row locks on `rooms` and `bookings` | hold, confirm, cancel, check in, reschedule | transactions of several statements, checks outside transactions, captured `now`, lock order | a room or instructor is not taken twice; statuses only move forward; limits hold; requests end |
| Hold expiry worker (`B/service/hold_expiry_worker.go`) | none besides its timer | one UPDATE over all tenants per tick, one audit row per expired hold | races with confirm and reschedule, crash before the audit rows | lapsed holds end, live ones do not |
| Audit log (`B/service/audit.go`, `audit_store.go`) | append-only `audit_logs` | one row per transition, after the fact | old status read before the update; write may fail | no row contradicts the table |
| Learner reservations (`admin_learner_store.go`) | `learner_reservations`, `bookings.attendees` | reserve a seat | repeated request; capacity | seats match reservations, within capacity |
| Schedule rules (`schedule_store.go`) | `class_periods`, `blackout_dates` | create, list, check | rules change under existing bookings; two definitions of a conflict | the check agrees with what a hold would find; rules are compared in one zone |
| Tasks (`B/service/task.go`, `B/api/handlers/task.go`) | `tasks` with version and dependencies | create, update, delete, add dependencies | version and cycle checks before the write | acyclic graph, no lost update |
| Content and uploads (`B/service/content.go`) | content items, upload sessions (whole chunk map in one row), document versions, files | start, append chunk, finalise, merge duplicates | read-modify-write of a session, several steps in finalise | no acknowledged chunk is lost but to an overlapping one, files match what uploads declared |
| Share links (`share_store.go`) | link rows, signed tokens | issue, use | a row and a token with an expiry each; dropped errors | unusable after 72 hours |
| Authentication (`B/service/auth.go`, `B/repository/postgres/store.go`) | users: failed attempts, lock; sessions | register, log in, log out, check session | claims signed again at every request; role updates that overlap | an expired session, and one whose logout succeeded, admits nobody; roles in claims are stale for a bounded time |
| Setup (`B/service/setup.go`) | `tenants` | bootstrap the first tenant | check before create; two creations | it closes once a tenant exists, and leaves an administrator |
| Ingestion (`B/service/ingestion.go`) | hits per tenant in memory, jobs | run a job | caller's clock, one unlocked read | at most five runs a minute |
| Administration | tenants, users, rooms | single updates; a role is deleted and inserted | overlapping role updates; a room's capacity under a hold | one role per user |
| Analytics, dashboards, reports | none | read and format | none | - |
| Web client (`src/repo/frontend`) | React state | hooks over the API | answers out of order | the newest query wins |

The hazards of each, at their lines, are in `PROJECT.json`.

## Modules

| module | what it is |
|---|---|
| `Bookings` | requests on bookings and the expiry worker, statement by statement |
| `RoomCalendar`, `BookingsCalendar` | what bookings promise about rooms, and the mapping that shows `Bookings` keeps it |
| `Timetable` | rooms, class periods, blackout dates, what a hold is checked against, learners' seats |
| `Tasks`, `TaskDAG`, `Digraphs` | task requests; the search for cycles; its vocabulary |
| `Content` | uploads and share links |
| `Accounts` | setup, registration, roles, logins, sessions |
| `MCBookings`, `MCTimetable`, `MCTasks`, `MCContent`, `MCAccounts` | the instances TLC checks |
| `BookingsProofs`, `RoomProofs`, `CalendarProofs`, `TaskProofs`, `TaskDAGProofs`, `TimetableProofs`, `AccountsProofs`, `ContentProofs` | theorems |

`Timetable` and `Bookings` look at the same handlers from two sides. `Bookings`
keeps locks, windows and captured time, and has the rules of the timetable as a
constant; `Timetable` lets the rules change between the statements of a hold, and
lets holds be refused and expire at any time. `Content` and `Accounts` share no
table with the others.

What is left to do is in "Next" at the end.

## Bookings

### State

| variable | code |
|---|---|
| `bookings` | committed rows of table `bookings`; status `"none"` is an id no row has yet |
| `roomLock`, `rowLock` | owner of the row lock on a row of `rooms`, of `bookings` |
| `req[p]` | a request in flight: the statement it is about to execute (`pc`), the status its handler read (`old`), the handler's `time.Now()` (`now`), the window asked for, the rows of the overlap query still to be locked (`pending`) and those found in conflict (`clash`) |
| `worker` | `HoldExpiryWorker.runOnce`: its `now`, rows still to be locked, rows to be expired or audited |
| `audit` | rows of `audit_logs` about bookings, as a set |
| `clock` | the wall clock, in ticks |
| `faults`, `arrived` | counters for the bounds `MaxFaults`, `MaxRequests` |

### Actions

One action is one SQL statement, or the Go code between two statements.

| request | actions |
|---|---|
| hold | `BeginHold`, `LockRoom`, `LockMatch` for each matching row, `CommitHold` or `Refuse`, `RecordTransition` |
| reschedule | `Begin`, `Call`, `CheckReschedule`, `LockRow`, `LockRoom`, `LockMatch`..., `CommitReschedule` or `Refuse`, `RecordTransition` |
| confirm | `Begin`, `Call`, `Confirm`, then `RecordTransition` or `ConfirmExpire` |
| cancel | `Begin`, `Call`, `CheckCancel`, `Cancel`, `RecordTransition` |
| check in | `Begin`, `Call`, `CheckIn`, `RecordTransition` |
| worker | `WorkerTick`, `WorkerLock` for each selected row, `WorkerCommit`, `WorkerAudit` for each expired row |

`Abort`, `WorkerFail`, `WorkerAuditLost` and `Crash` are a failing statement (or
a client that goes away), a failing UPDATE of the worker, a failing audit insert
and a restart of the server. `DeadlockVictim` and `WorkerVictim` are PostgreSQL's
deadlock detector; `Lockable`, `Unlock`, `Blockers`, `Deadlocked` and these two
are the database's behaviour as the code relies on it, not code of the
repository.

PostgreSQL at READ COMMITTED is modelled by what its statements do: `SELECT ...
FOR UPDATE` selects rows by a snapshot taken when it starts (`pending`), waits for
each row's lock and evaluates the WHERE clause again on the row it then finds; an
UPDATE that selects a locked row waits and looks again; rows written by an open
transaction are seen by nobody; locks end with the transaction. Taking the room
lock and starting the overlap query are one action: between them only reads of
`rooms`, `blackout_dates` and `class_periods` happen, and a step of another
process that comes between commutes with the first.

### Abstractions

- Room capacity, blackout dates and class periods are the constant set `Refused`
  of rooms and windows that the checks reject; that they change is the subject of
  `Timetable`.
- Windows are pairs of ticks. A hold may ask for one that ends before it starts,
  as the Hold handler does not compare; Reschedule does.
- Tenants do not share rows that bookings lock, so one tenant is modelled.
- Requests refused by role, ownership or input validation, `SuggestAlternatives`
  and the `booking_hold_failed` audit row (which names no booking and no status)
  change no state the properties read, and are left out.
- `ReleaseExpiredHolds` is called by nothing in the server.

### Properties

- `RoomExclusive`: two bookings that occupy a room (confirmed, checked in, or
  held and not lapsed) do not overlap. True if no captured time is used more than
  one tick late, see "Captured time".
- `OnlyLateConfirms`: however late captured times are used, only one kind of
  step can end exclusion, the confirmation of a hold that by the clock has
  lapsed. No commit of a hold or a reschedule does.
- `WaitsEnd`: whenever a transaction waits for a lock, some transaction that
  holds locks can go on, or is in a deadlock that the database breaks. Safety's
  part of "nobody waits for ever", so that it can be proved.
- `Lifecycle`: what one step may do to a status, and that a hold expires only
  after its time.
- `LocksOwned`: no lock outlives its transaction.
- `RescheduleBound`: races overrun the reschedule limit by at most the number of
  request slots less one.
- `AuditTruthful`: a `booking_confirmed` row always says it was held, though the
  handler read that status before the update; a booking with a `booking_expired`
  row is never live again. Of the old status in the rows of cancellations, check-ins
  and reschedules nothing is said: it can be outdated.
- `LapsedHoldsExpire`, `RequestsAnswered`: liveness.
- `ImplementsCalendar`: every step is one of the room calendar, see below.
- `TypeOK`, and `IInv`, the inductive invariant of the proofs.
- `InstructorExclusive`, `RescheduleLimited`, `CancelsInTime`: what the documentation
  and two error texts say. For `CancelsInTime`, that the 24 hour rule holds for the
  start a booking has when it is cancelled, not only for the one that was read.
  Overlapping requests break all three, each in a run of its own; where requests do
  not overlap they hold, which is proved. `SerialInv` is the inductive invariant of
  these proofs.

### Runs

| run | instance | result |
|---|---|---|
| `bookings` | 2 requests, 2 bookings, 1 room, 1 instructor, 2 overlapping windows; all operations, 3 arrivals, one fault, clock 0..2, `MaxLag` 2 | `TypeOK`, `LocksOwned`, `AuditTruthful`, `IInv`, `WaitsEnd`, `Lifecycle`, `OnlyLateConfirms`, `ImplementsCalendar` hold; 930 thousand states |
| `live` | two existing holds of adjacent windows, one rescheduled up to the limit or not at all; confirm and reschedule, 2 arrivals, `MaxLag` 1 | `RoomExclusive`, `RescheduleBound`, `LapsedHoldsExpire`, `RequestsAnswered` hold; 101 thousand states |
| `instructor` | 2 holds, 2 rooms, 1 instructor | `InstructorExclusive` is violated |
| `reschedule_limit` | 1 booking, limit 2 as in the code | `RescheduleLimited` is violated |
| `cancel_cutoff` | 1 booking, 2 windows, a cancellation and a reschedule in flight | `CancelsInTime` is violated |

`bookings` is the question of two requests that want the same room; two bookings
and two overlapping windows are what a conflict takes, and three arrivals let
both bookings be made and one be confirmed, moved or cancelled while the other is
made. With `HoldTTL` 1 and the clock up to 2, a hold is seen before, at and
after its deadline, and a captured time can be late enough for a late
confirmation: checked in this instance, `RoomExclusive` itself fails, so
`OnlyLateConfirms` is not vacuous. A late confirmation takes a lag of two, and the
behaviours with a smaller lag are among those with a larger one, so the run also
shows `RoomExclusive` for `MaxLag` 1; `live` checks it where two existing
bookings are moved onto each other. In `live` the booking of each request
overlaps the other's target, so `Reschedule` deadlocks with `Reschedule` and with
the worker; it starts in states that two holds lead to (`TwoHolds`), because
the steps before double the state graph and add nothing to wait for. One of the
holds is there with a count of 0 and with a count at the limit: from the first, two
racing reschedules reach the bound, from the second the check alone keeps them below
it. `MaxClock` is `HoldTTL` there, so holds reach their deadline and do not pass it.
Requests and bookings are symmetric in `bookings`; `live` uses no symmetry. The
`VIEW` of `live` leaves out the audit log and what requests remember for it, which
nothing else reads.

`WaitsEnd` holds whatever the order in which locks are taken, since the database
breaks cycles; that requests then come to their end is `RequestsAnswered`.

TLC reports a deadlock as an error in every run: no reachable state is stuck,
the worker's timer always goes on.

### The room calendar

`RoomCalendar` says what a reader of the calendar may rely on, without requests,
locks or a worker. An entry is made, or moved, only where no entry in force is in
the way; it is kept for good only until its time, or a term of grace after it, is
over; it lapses only when its time is over; it can be given up; and what
has lapsed or was given up never comes into force again.
`BookingsCalendar` maps a row to an entry: live statuses are taken, the hold's
deadline is the entry's end and NULL is none, expired is lapsed, cancelled is
given up. A commit, an expiry batch, a confirmation and a cancellation are steps of
the calendar; every other statement, rollback and crash is a stuttering step.
Three behaviours of the code shaped the abstract specification: a confirmation
compares the deadline with a time captured before, so the calendar has to grant a
term of grace, which the mapping sets to `MaxLag`; a reschedule looks
neither at the status nor at the deadline of its own booking, so an entry that
is over can still be moved (it stays over), and the worker ends a set of entries in one step.

### Captured time

Every handler takes `time.Now()` before its statements run. `MaxLag` bounds the
ticks that may pass until the last statement that uses it. With `MaxLag = 1` or 0
`RoomExclusive` holds. With `MaxLag = 2` TLC finds a counterexample: a hold lapses
at tick 1, request A captured tick 0 for its confirmation and is delayed, request
B at tick 2 skips the lapsed hold and takes the room, then A's UPDATE compares
the deadline with tick 0 and confirms. So exclusion rests on a confirmation not
being delayed across the deadline until another request's clock is past it, a
window that the worker narrows and nothing closes. `RoomExclusion` carries the
condition as its assumption `MaxLag <= 1`.

`OnlyLateConfirms` says that this is all there is to it, for every lag. The other
way round, a late confirmation while the other request is still scanning, is
excluded by the row locks: the overlap query locks the rows it skips, too, so
nobody can confirm a skipped hold before the scanning transaction ends. In
`ScanComplete`, a skipped row is therefore a lapsed hold that the scanning request has locked.

### Fairness

Clients owe nothing: no arrival is fair. A request's own steps are strongly fair,
since handlers run to their end and PostgreSQL queues waiters for a lock in
order, so a statement whose lock comes free again and again gets it. The deadlock
detector runs (weak fairness on `DeadlockVictim`), the ticker goroutine
keeps the worker going (weak fairness on `WorkerStep`), and time passes up to
`MaxClock`.

### Slips the properties notice

Next to some definitions stands a variant that the model does not use, a
plausible slip in the same lines; put in place of the definition, it violates
the property named here.

| definition | variant | violated |
|---|---|---|
| `Matches` | `MatchesHeld`: the overlap query looks at holds only | `IInv` |
| `Skipped` | `SkippedEarly`: a hold is skipped at its deadline already | `OnlyLateConfirms`, `RoomExclusive` |
| `ToAudit` | `ToAuditUnnamed`: the audit row does not name the booking | `TypeOK` |
| `Release` | `ReleaseRoomOnly`: booking rows stay locked | `LocksOwned`, `WaitsEnd`, `RequestsAnswered` |
| `LimitReached` | `LimitPassed`: `>` for `>=` | `RescheduleBound` |
| `Confirmable` | `ConfirmableAny`: no status guard | `AuditTruthful`, `ImplementsCalendar` |
| `Expirable` | `ExpirableAny`: no status guard | `Lifecycle` |
| `WorkerTick` | `WorkerTickAtStart`: no loop around `runOnce` | `LapsedHoldsExpire` |

## Tasks

### Modules

`Digraphs` holds the vocabulary: `Deps`, what a task depends on (an id without a
row depends on nothing), and `Acyclic`: no non-empty set of tasks in which every
member depends on a member. For finite graphs that is the absence of a cycle, and
it needs no recursion.

`TaskDAG` is the search in `TaskService.ValidateDAG`, one action per turn of a
loop (`Root`, `Visit`) and per return of `visit` (`Return`). `visited` and `stack`
are the two maps, `calls` is the recursion, `rest` what each active loop has left.
Go visits the keys of a map in an order of its choosing, which the model leaves open.
`hasCycle` in the web client is the same search.

`Tasks` is `TaskHandler` with the statements of the store. No transaction is
opened anywhere, so every statement is an action: `GetTask`, `RecheckVersion` (the
second read in `UpdateTask`), `ListTasks` (the query and `ValidateDAG`),
`UpsertTask`, `DeleteTask`. `ListTasksFails` is the dropped error of `ListTasks`,
after which `ValidateDAG` looks at nothing; `Abort` is any other failing statement
or a restart. The row keeps its version and its dependencies; title, dates and
minutes are written by the same statement and left out.

### Runs

| run | instance | result |
|---|---|---|
| `validate_dag` | every graph of up to 3 tasks over 3 ids | `SearchInv`, `VerdictRight`, `WorkShrinks`, `Terminates` hold; 13 thousand states |
| `tasks` | 1 request at a time, 3 tasks, 6 requests, one fault | `SerialInv`, `VersionsIncrease`, `ValidatedWritesSafe` hold; 163 thousand states |
| `tasks_lost_update` | 2 requests at a time | `VersionsIncrease` is violated |
| `tasks_cycle` | 1 request at a time, create and update | `NoCycles` is violated |

Three tasks are the smallest graph with a shared dependency reached on two ways (visited
but not on the stack) and with cycles of length 1, 2 and 3. Six requests create
three tasks and close a cycle of three. Deadlock is not an error in these runs:
a search that has answered stops, and so do clients.

`tasks` asks what the handlers guarantee when requests do not overlap, because
nothing is left of it when they do. Besides the two violations, two
`AddDependencies` requests that list before either writes close a cycle together,
an update delayed behind two others sets the version back, and an update that
overlaps a deletion brings the task back.

`WorkShrinks` says that every step but the last takes something off what is left
to do, and adds nothing: tasks of the outer loop (`todo`), dependencies not looked at
(`Unread`), ids whose call has not returned (all but `Finished`). So the search is linear
in tasks and dependencies, also where many tasks share one. `Terminates` assumes weak
fairness of the search itself, a loop in one goroutine.

| definition | variant | violated |
|---|---|---|
| `Enter` | `EnterUnmarked`: no marks before the loop | `SearchInv`, `WorkShrinks` |
| `Return` | `ReturnOnStack`: no `delete(stack, id)` | `VerdictRight` |
| `AlreadyVisited` | `AlreadyVisitedKept`: the loop does not get past a visited id | `Terminates` |
| `RecheckVersion` | `RecheckExists`: no comparison | `SerialInv` |
| `NextVersion` | `NextVersionKept`: no `Version++` in `AddDependencies` | `VersionsIncrease` |
| `Candidate` | `CandidateUnchanged`: the list is validated without the change | `ValidatedWritesSafe` |

## Timetable

### State and actions

`capacity`, `periods`, `blackouts`, `bookings` and `reserved` are the tables
`rooms`, `class_periods`, `blackout_dates`, `bookings` and `learner_reservations`;
`req` holds the requests in flight with the values their statements have read. `dateOk`,
`timeOk` and `party` are history: whether the rules allowed the window at some
moment since the request arrived, and how many attendees a booking was created with.

| request | actions |
|---|---|
| administration | `CreateRoom`, `UpdateRoom`, `CreateClassPeriod`, `UpdateClassPeriod`, `DeleteClassPeriod`, `CreateBlackoutDate`, `DeleteBlackoutDate`: one statement each |
| hold | `BeginHold`, `LockRoom`, `CheckBlackouts`, `CheckPeriods`, `CountPeriods`, `InsertHold` or `Refuse` |
| seat | `BeginReserve`, `LockBooking`, `TakeSeat` or `Refuse` |
| status | `Confirm`, `Expire`, `CheckIn`, `Cancel`, which wait for a reservation's row lock |

At READ COMMITTED every SELECT of the hold sees the tables as they are when it
starts, so each is a step. Moments are counted in slots from a Sunday midnight in
UTC, and a window carries the offsets its ends were written with, because the code
reads one window in three ways:

- `parseFlexTime` keeps the offset of an RFC3339 string (and takes a string without
  one, as the web client sends, for UTC); a hold formats its times of day in that
  offset, and its date is the date as written (`Start`, `End`);
- PostgreSQL takes the weekday with `EXTRACT(DOW ...)` in the zone of its session,
  `DbZone` here, an offset that does not change during a run (no daylight saving);
- `CheckConflicts` converts to UTC before it compares (`UTC`).

`Contains` is the comparison of a hold and `Overlaps` that of the precheck;
`PrecheckConflict` is `CheckScheduleConflicts`, the other definition of the same rule,
as an operator. A hold may ask for a window that ends before it starts. What a
period means is `Covers`: weekday, start and end all in the zone the client wrote.

### Properties

- `HoldFitsRoom`: the capacity read statements before the insert is still the
  room's, because the row is locked.
- `HoldJustified`: though date and periods are checked in different snapshots,
  each was satisfied at some moment since the request arrived. `CheckPeriods` and
  `CountPeriods` are the delicate pair: periods may all be deleted or first be
  entered between them. For the time of day two conditions are needed, and without
  either of them TLC finds a hold outside every period. The window ends on the day
  it starts (`OneDay`): 22:00 to 02:00 ends early in the day for `Contains`. And both
  ends are written in one zone, in which it is the weekday that it is for the database
  (`OneWeekday`): 02:00 on Monday at +09:00 is on Sunday in UTC, and is compared with
  Sunday's periods.
- `PrecheckAgrees`: where periods are configured, the precheck warns of no window
  written in UTC that a hold would be allowed. With another offset it does, and TLC
  finds it when the condition is dropped: 10:00 at +09:00 is inside 9 to 12 for a hold
  and 01:00 for the precheck. The converse is false (an overlap satisfies the
  precheck).
- `SeatsCounted`: attendees count every reservation and stay within the seats. It
  is an inequality because a repeated reservation inserts nothing and is still counted;
  that over-count is not excluded.
- `SeatsTakenWhileConfirmed`: a status checked before is still true when the seat is taken.

Run `timetable` (1.6 million states): one room, one booking, two periods, windows
in UTC within a day, up to midnight and reversed, one with an offset and one whose
weekday differs between client and database, periods that cover, overlap and miss
them, two requests at a time, three in all, two changes. It starts from empty
tables and from a confirmed booking with a seat left (`Confirmed`), so that
reservations overlap without the requests that lead there. The last period can
be deleted, and the first entered, between any two statements of a hold.

| definition | variant | violated |
|---|---|---|
| `ValidCapacity` | `AnyCapacity`: zero is a capacity | `TypeOK` |
| `RoomLocked` | `RoomNotLocked`: no `FOR UPDATE` on the room | `HoldFitsRoom` |
| `Contains` | `Overlaps`: an overlap is enough | `HoldJustified` |
| `PrecheckConflict` | `PrecheckSwapped`: start compared with start, end with end | `PrecheckAgrees` |
| `RowLocked` | `RowNotLocked`: no `FOR UPDATE` on the booking | `SeatsCounted` |
| `Open` | `OpenWithSeats`: no status check | `SeatsTakenWhileConfirmed` |

## Content

### State and actions

`owner` is the creator of each content item, `sessions` the upload sessions with
their whole chunk map in one row, `disk` the files by document and name, `links` the
share links by token. `acked`, `asked`, `told` and `served` record which chunks were
acknowledged, which expiries were asked for and saved, of which tokens a client was told,
and what was delivered; no code reads them. `stale` and `mixed` mark a session into which an outdated map
was saved and a file that two requests wrote at once.

| request | actions |
|---|---|
| start an upload | `BeginStart`, `UpsertContentItem`, `InsertSession` |
| chunk | `BeginChunk`, `ReadForChunk`, `SaveChunk` |
| finalize | `BeginFinalize`, `ReadForFinalize`, `CreateFile`, `WriteChunk` for each chunk, `AddDocumentVersion` |
| share | `BeginShare`, `SaveShareLink`, `TellShareLink` |
| download | `BeginDownload`, `CheckShareLink`, `Serve` |

`Abort` and `Crash` are as in `Bookings`; `ShareLinkLost`, `LookupFails` and
`ServeUncounted` are three errors the code drops. A checksum is the byte string it
belongs to, chunks have one size, and files are functions from offsets, so that
writers with a handle each overwrite each other as on disk. `AddDocumentVersion`
always rolls back: the id `dv_...` (`B/service/content.go` line 123) is no uuid.
So no upload session is ever deleted and no version exists. Only documents that an
operator enters in `uploaded_files` (`Filed`) can be downloaded, since no code writes that table.

### Properties

- `AckedChunksKept`: an acknowledged chunk stays, unless a chunk of the same
  upload was in flight with it. The exception is what the code has: two chunks
  sent in parallel each save the map they read, and one is lost. Everything else
  (retries, attempts to finalize, errors, crashes) loses nothing.
- `OnlyOwnersFeed`: holds although ownership is looked up statements earlier and
  anybody may start an upload of any document, because the upsert never changes an owner.
- `FilesMatchUploads`: a file written by one request alone has the number of chunks and the
  checksum that its upload declared.
- `DownloadsInTime`: expiry of the token always counts, expiry of the row whenever a row
  was found. The row commits before the client is answered, and the server may stop in
  between. Links of one document asked for within one second have the same token and
  one row, so the expiry that counts can be that of another client, even of one that
  never got an answer: a client who was told one hour may find the link alive for two.
  What holds is that some client asked for as long. A link whose row was not saved lives
  as long as its token.

Run `content` (1.5 million states): an owner, a stranger, an admin, two documents, two
sessions, two chunks, clock 0..3, three requests of which two overlap, one fault. It starts from
empty tables and from two uploads under way of the same file (`Started`), which
chunks and finalizations then race over. `TimeMatters` keeps the clock still until
there is a link: nothing before that reads it.

| definition | variant | violated |
|---|---|---|
| `Accepted` | `AcceptedUnread`: no check of the file type | `TypeOK` |
| `SaveChunk` | `SaveOnlyNewChunk`: the map is not read first | `AckedChunksKept` |
| `UpsertContentItem` | `UpsertTakingOver`: the owner is updated | `OnlyOwnersFeed` |
| `Whole` | `WholeByCount`: no checksum | `FilesMatchUploads` |
| `SaveShareLink` | `SaveShareLinkForever`: the row gets the token's expiry | `DownloadsInTime` |

## Accounts

### State and actions

`tenants`, `users`, `roles` and `sessions` are the tables; `tokens` are the signed
tokens given out, which is all a client needs to come back. `lost`, `muddled` and
`excused`, and `ended` and `failed` of a session's row (a logout of it was answered, the
UPDATE of one failed) are history for the properties.

| request | actions |
|---|---|
| seed, setup, registration | `BeginSeed`, `BeginSetup` or `BeginRegister`; `CountTenants`, `CreateTenant`, `Lookup`, `InsertUser`, `GrantRole` |
| login | `BeginLogin`, `Authenticate`, `CreateSession` |
| any other | `BeginGuarded`, `AuthGuard`, then `Revoke` (logout), `UpdateUserRole`, `DeleteRoles`, `CommitRole` (role update) or `Handle` |

`CountFails` and `LookupFails` are errors that a registration takes for an answer.
`RevokeFails` is the error of `Revoke` that `Logout` drops: it answers "revoked" and the
session stays (`B/api/handlers/auth.go` line 179).
`DeletedBy` and `Waits` are PostgreSQL's locks on deleted rows of `user_roles`:
the DELETE of a role update sees the rows there are when it starts, waits for a
transaction that has deleted one of them, and does not see what that one inserted.
A login with a wrong password changes nothing: PostgreSQL refuses the counting
UPDATE (`B/repository/postgres/store.go` line 103) and the error is dropped.

### Properties

- `SetupCloses`: a request that arrives when there is a tenant creates none.
- `TenantAdministered`: a new tenant has an administrator when the request that
  created it is over. Excused are a request refused or failing after the tenant
  was created (the code does leave such a tenant), and role changes by an administrator.
- `OneRole`: one role per user, unless two requests wrote the roles of that user at the same
  time, or an error was ignored. Two overlapping role updates do leave two roles.
- `StaleRoleBounded`: a request acts in a role its user has, or lost less than a
  session's life ago.
- `SessionEnds`: though every request is answered with a token for another 24
  hours, nobody acts on a login older than that, nor with a request sent after a logout
  was answered, unless the UPDATE of a logout failed.

Run `accounts` (1.4 million states): two tenants, two emails, two roles, two sessions,
session life 2, clock 0..3, three requests of which two overlap, one fault; from empty tables and
from an administered tenant with a session (`Administered`). `TimeMatters` keeps
the clock still until there is a token.

| definition | variant | violated |
|---|---|---|
| `InsertUser` | `InsertUserAnyway`: goes on without the tenant | `TypeOK` |
| `InsertUser` | `InsertUserOrStop`: stops when another inserted the user | `TenantAdministered` |
| `DeleteRoles` | `DeleteNothing`: the old role stays | `OneRole` |
| `CreateSession` | `CreateSessionNow`: life counts from the insert | `StaleRoleBounded` |
| `IsActive` | `ActiveUnlessRevoked`: no expiry | `SessionEnds` |
| `CountTenants` | `CountNothing`: no look whether setup is done | `SetupCloses` |

In `timetable`, `content`, `accounts` and the task runs deadlock is not checked: clients
may stop. Two role updates of one user can wait for each other's rows;
PostgreSQL then fails one of them, which is `Abort`. Nothing is claimed there about progress.

## What is proved

TLAPS proves every safety property of every passing run, and with one slot for requests
the ones that `instructor`, `reschedule_limit` and `cancel_cutoff` violate, for every choice of
the constants that satisfies the assumptions stated with them:
`ConstantsAssumption`, `TimetableAssumption`, `ContentAssumption`,
`AccountsAssumption`, `TaskConstants` and the `NullAssumption` of
`Bookings`, `Timetable`, `Content` and `Accounts`. They say that request slots, learners and chunk indices are finite sets,
that windows, offsets and periods are made of integers (nothing says that a window ends
after it starts), that lives and limits are not zero, and
that NULL is none of the values. The bounds of the runs (`MaxClock`,
`MaxRequests`, `MaxFaults`, `MaxChanges`) are arbitrary numbers in the proofs.

| module | theorems |
|---|---|
| `BookingsProofs` | `TypeCorrect`, `LocksFreed` (`LocksOwned`), `ReschedulesBounded` (`RescheduleBound`), `WaitingEnds` (`WaitsEnd`) |
| `RoomProofs` | `Inductive` (`IInv`), `LateConfirmsOnly` (`OnlyLateConfirms`); `RoomExclusion` (`RoomExclusive`), if `MaxLag <= 1`; with one slot for requests (`OneSlot`), `SerialInvariant` (`SerialInv`), `SerialExclusion` (`InstructorExclusive`, `RoomExclusive`), `SerialReschedules` (`RescheduleLimited`), `SerialCancels` (`CancelsInTime`) |
| `CalendarProofs` | `Refinement` (`ImplementsCalendar`), `ForwardOnly` (`Lifecycle`), `AuditRight` (`AuditTruthful`) |
| `TaskDAGProofs` | `SearchInvariant` (`SearchInv`), `ValidateDAGRight` (`VerdictRight`), `SearchLinear` (`WorkShrinks`) |
| `TaskProofs` | `SerialInvariant`, `SerialVersions`, `SerialCycles`, with one slot for requests (`OneSlot`) |
| `TimetableProofs` | `TypeCorrect`, `HoldsFit`, `HoldsJustified`, `PrecheckSound`, `SeatsRight`, `SeatsConfirmed` |
| `AccountsProofs` | `TypeCorrect`, `TenantsAdministered`, `RolesSingular`, `RolesFresh`, `SessionsEnd`, `SetupCloseable`; with `OneSlot`, `SerialSetup`, `SerialRoles` |
| `ContentProofs` | `TypeCorrect`, `ChunksKept`, `OwnersFeed`, `FilesRight`, `LinksEnd`; with `OneSlot`, `SerialUploads` |

### Bookings

`TypeOK` alone is not inductive: `LockRow` copies room and instructor from a row,
so it must be known that the row exists. `Typed` adds `RequestOK` (what a request
carries fits its next statement) and `BatchExists` (the worker expires rows of
the table only).

Room exclusion: `RowSteps` lists everything a step can do to a
row (end it, check it in, confirm it, put it where a request has scanned) and
`RequestSteps` everything it can do to a request; the parts of `IInv` follow from
these two rather than from the actions one by one. The heart is `ScanComplete`:
while a request is in its loop over the overlap query, every live booking of its
room that overlaps its window is still to be looked at, found in conflict, the
request's own, or a lapsed hold whose row the request has locked. Nobody can add one,
because adding takes the room lock (`RoomLocked`); nobody can confirm a skipped
one, because that waits for its row lock. When the loop is over without a
conflict, what is left are lapsed holds, which occupy nothing (`TakesFree`). This is free
of the lag, so `IInv` does not contain exclusion itself and is inductive for every
`MaxLag`. `LateConfirmsOnly` looks at what else may change who occupies a room
(`OccupiesStep`): rows that end or are checked in take nothing, time only frees, and a confirmation of a hold
that has not lapsed changes nothing. If `MaxLag <= 1`, a confirmation of a lapsed hold
would need a `now` two ticks old (`LagBounded`, `ExpiryShape`, lemma
`LateNeedsLag`), so exclusion is invariant.

`WaitingEnds`: who holds a lock is in a transaction (`LocksOwned`, lemma `BlockersOwn`). If
everybody in a transaction waited, each would wait for others in a transaction
only, and the set of all of them is what `Deadlocked` asks for.

The theorems with `OneSlot` say what is left when requests do not overlap, with
the worker, faults and crashes still there and for every lag. They show that what the runs
`instructor`, `reschedule_limit` and `cancel_cutoff` find is due to overlapping requests alone.
`SerialScan` is `ScanComplete` for the instructor too, whose row nobody locks: it
needs nobody else to add a booking. `Apart` needs more than exclusion, since a
lapsed hold occupies nothing and could come back: `Lapsed` is a hold that is over
also by the `now` of the request in flight, and stays so (`LapsedStays`), because
every later request reads a later clock.

The refinement uses `IInv` for the commits: what they take is vacant in the
calendar. A confirmation is `Keep`, within the grace of `MaxLag`. The worker's batch needs one fact more, `BatchLocked`: a row
the worker has collected stays a lapsed hold until its UPDATE commits, because
every other UPDATE of that row waits for its lock. Like `ForwardOnly`, the refinement
holds however late captured times are used.

`AuditRight` follows from the lifecycle: no status leads back to
held except from a row that does not exist yet, so if a confirmation succeeds, the
status its handler read was held (`Confirming`); and expired leads to
cancelled only, so what the worker collected for its audit rows stays over (`BatchOver`).

`ReschedulesBounded` counts: a row's count plus the requests that have passed
the check and are not counted yet (`Uncounted`) never exceeds the limit less
one plus the number of slots. A request that passes the check finds a count
below the limit, and there are no more of them than slots; a commit moves one
request from the second summand to the first.

### Tasks

`SearchInv` says that the stack is a chain of dependencies, that a call has dealt
with all dependencies but those its loop still holds and the one being
visited, and that finished ids depend on finished ids only and contain no cycle.
A dependency found on the stack closes the chain from there to the innermost
call; when all roots are done, everything is finished. The set of ids may be infinite.
`SearchLinear` follows from it step by step: entering an id turns its dependencies
from those of an unvisited id into those of a loop, and a call returns with an
empty loop. On a finite graph no behaviour can therefore take steps for ever, which
is the part of `Terminates` that does not need fairness.

`SerialInv` adds what a lone request knows between its
statements: the row still has the version it read, and the graph it is going to
write is the one it validated.

### Timetable, Accounts, Content

The inductive invariants of these three have one shape: types, `Knowing` (what
each request in flight knows about the tables between two of its statements), and
what the tables say about each other. The properties themselves are parts of
it or follow from it in one step.

- Timetable: a hold that has locked its room knows the capacity it read; one
  that found its window inside a period, or no period at all, knows that the rules
  allowed it then, because within a day, and where client and database agree on the
  weekday, the code's comparison is containment (`ContainsCovers`); for windows in UTC,
  containment is overlap (`ContainsOverlaps`); a reservation has its
  booking's row to itself (`OneSeat`) and knows that it is confirmed with a seat left.
- Accounts: a session carries a role that its user has or lost no earlier than the
  login (`SessionsOK`), and a request knows the same of the role it acts in; tokens
  signed again name the same session (`TokensOK`); a session whose logout was answered is
  revoked, or an UPDATE failed. A request that writes roles
  either is alone with its user, and then knows which roles it leaves behind, or its user
  is `muddled`, and stays so.
- Content: a chunk about to be saved carries the map of the table unless
  another save overtook it (`stale`); who writes a file that is not `mixed` is alone with it and has
  written a prefix of its chunks (`WritersAlone`); a row's expiry was asked
  for by somebody (`LinksAsked`), which the same statement records. That a file written to the end has as many chunks as
  were received is a pigeonhole argument: different indices have different
  positions (`Positions`, `WholeFile`).

Where requests do not overlap (`OneSlot`), the exceptions in these properties
are never met: no session becomes `stale` and no file `mixed`, so every acknowledged
chunk is kept and every finished file is the upload's (`SerialUploads`); a count
of tenants that was zero still is when the tenant is created, so there is one
tenant at most (`SerialSetup`); and a user has two roles only after an error
(`SerialRoles`). Errors and crashes between the statements are included.

Only model-checked: the liveness properties `LapsedHoldsExpire`,
`RequestsAnswered` and `Terminates`, which are out of this prover's reach. What
safety can say of the last two, `WaitsEnd` and `WorkShrinks`, is proved.

## What disagrees with the documentation

Shown by runs:

- `docs/design.md` line 6 says holds lock room, instructor and overlapping
  booking rows. No instructor row is ever locked; run `instructor` books one
  instructor in two rooms at once.
- "max 2 reschedules reached" (`B/service/booking.go` line 15): the count is
  checked outside the transaction; run `reschedule_limit` reaches three.
- "cancellation cutoff is 24 hours before start" (`B/service/booking.go` line 16): the
  start is read before the UPDATE; in run `cancel_cutoff` a reschedule moves it closer
  in between.
- "Task updates use optimistic version checks to prevent lost updates."
  (`docs/design.md` line 8): the check and the write are two statements; run
  `tasks_lost_update` loses one.
- "When a user attempts to add a dependency, the backend validates the entire
  dependency graph for cycles." (`questions.md` line 104): updating a task does not;
  run `tasks_cycle` saves a cycle.

Met while modelling, part of the models and without a run of their own:

- "lockout controls" (`docs/architecture.md` line 13): the UPDATE that counts failed
  logins skips a parameter and is refused, and its error is dropped, so no account locks.
- "This endpoint is only available when no tenants exist" (`questions.md` line
  14; `docs/api-spec.md` line 13): two bootstraps that overlap both find none and,
  with different slugs, both create a tenant. `SetupCloses` is what is left;
  without overlap there is one tenant at most (`SerialSetup`).
- A version of a document is never added (see `AddDocumentVersion`).
- The precheck of a schedule accepts a window that overlaps a period, a hold
  wants the window inside one.
- A window over midnight passes the check of periods by its times of the day.
- A window written with an offset is compared by the client's times of day and the
  database's weekday, and may be admitted outside every period; and the precheck, which
  converts to UTC, may warn of a window that a hold is allowed.
- A logout is answered with "revoked" also when the session was not revoked.
- Two links for one document within one second share an expiry, the later one saved.
- A repeated reservation takes a second seat in `attendees`.

## Not modelled

- Ingestion: a limiter in memory that one function reads, and jobs that are
  written once. Its hazards are listed without properties.
- Alternative slots: a read that suggests windows and reserves nothing.
- Analytics, dashboards and reports: they read and format.
- Administration beyond rooms, periods, dates and roles: tenant policies and
  permissions are single updates that nothing else modelled reads.
- Content search, the list of versions and catalog reads change nothing. Merging duplicates,
  tags and `DeleteContentItem` are reached by no route; the one call of
  `rotateSession` is commented out (`B/api/middleware/auth.go` line 46).
- The in-memory stores, which the server does not use; wiring and configuration;
  vendored code under `third_party`.
- The web client, except that its `hasCycle` is the search of `TaskDAG`.

## Next

To prove: an abstract specification of seats that `Timetable` implements. To model: the ingestion limiter and its unlocked read,
alternative slots as a function of the table, and the out-of-order answers of the
web client are the parts with logic of their own that have no module yet.
