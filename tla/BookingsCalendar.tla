-------------------------- MODULE BookingsCalendar --------------------------
(* Bookings as an implementation of RoomCalendar.                          *)
EXTENDS Bookings

\* A live row is an entry that is taken: for its time while it is a hold, for
\* good once it was confirmed.
StateOf(status) ==
    IF status \in Live THEN "taken"
    ELSE IF status = "none" THEN "free"
    ELSE IF status = "expired" THEN "lapsed"
    ELSE "given_up"

entries ==
    [b \in Bookings |-> [state |-> StateOf(bookings[b].status), room |-> bookings[b].room,
                         win |-> bookings[b].win, until |-> bookings[b].expires]]

Calendar ==
    INSTANCE RoomCalendar WITH
        Entries <- Bookings, Term <- HoldTTL, Grace <- MaxLag, Firm <- NULL,
        now <- clock, entry <- entries

\* Every statement of every transaction, the worker's batches, rollbacks and
\* crashes included, is a step of the calendar or changes nothing in it: a
\* hold or a reschedule takes effect only where no booking in force is in the
\* way, and a confirmation only until the lag of the handler's now after the
\* hold's deadline.
ImplementsCalendar == Calendar!Spec
=============================================================================
