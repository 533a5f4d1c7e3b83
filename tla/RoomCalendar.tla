---------------------------- MODULE RoomCalendar ----------------------------
(***************************************************************************)
(* What a booking system promises about rooms, without requests, rows,     *)
(* locks or a worker: a calendar of entries. An entry takes its room for a *)
(* window, for good or until a time, and is only made or moved where no    *)
(* entry in force is in the way. An entry for a time can be kept for good  *)
(* until its time, or a term of grace after it, is over; it lapses only    *)
(* when its time is over, and can be given up; once it has lapsed or was   *)
(* given up it is never in force again. Bookings implements it             *)
(* (BookingsCalendar).                                                     *)
(***************************************************************************)
EXTENDS Integers

CONSTANTS
    Entries,   \* names of entries
    Rooms,
    Windows,   \* [start, end] pairs
    Term,      \* longest time an entry is made for
    Grace,     \* an entry can be kept this long after its time is over
    Firm       \* the end of an entry that is kept

VARIABLES
    now,       \* the time
    entry      \* [state, room, win, until] of each name; its state is "free",
               \* "taken", "lapsed" or "given_up"

calendar == <<now, entry>>

InForce(e) ==
    /\ entry[e].state = "taken"
    /\ entry[e].until = Firm \/ now <= entry[e].until

Clash(v, w) == v.start < w.end /\ v.end > w.start

\* No entry other than e is in the way.
Vacant(e, room, win) ==
    \A f \in Entries \ {e} :
        InForce(f) /\ entry[f].room = room => ~Clash(entry[f].win, win)

Set(e, value) ==
    /\ entry' = [entry EXCEPT ![e] = value]
    /\ UNCHANGED now

Make(e) ==
    /\ entry[e].state = "free"
    /\ \E room \in Rooms, win \in Windows, until \in 0..(now + Term) :
          /\ Set(e, [state |-> "taken", room |-> room, win |-> win, until |-> until])
          /\ Vacant(e, room, win)

\* Also an entry that is over can be moved, to a place that is vacant.
Move(e) ==
    /\ entry[e].state # "free"
    /\ \E win \in Windows :
          /\ Set(e, [entry[e] EXCEPT !.win = win])
          /\ Vacant(e, entry[e].room, win)

Keep(e) ==
    /\ entry[e].state = "taken"
    /\ entry[e].until # Firm /\ now < entry[e].until + Grace
    /\ Set(e, [entry[e] EXCEPT !.until = Firm])

GiveUp(e) ==
    /\ entry[e].state # "free"
    /\ Set(e, [entry[e] EXCEPT !.state = "given_up"])

\* Some entries whose time is over lapse at once.
Lapse(S) ==
    /\ \A e \in S : entry[e].state = "taken" /\ entry[e].until # Firm /\ entry[e].until <= now
    /\ entry' = [e \in Entries |->
          IF e \in S THEN [entry[e] EXCEPT !.state = "lapsed"] ELSE entry[e]]
    /\ UNCHANGED now

Pass ==
    /\ now' = now + 1
    /\ UNCHANGED entry

Init ==
    /\ now = 0
    /\ \A e \in Entries : entry[e].state = "free"

Next ==
    \/ \E e \in Entries : Make(e) \/ Move(e) \/ Keep(e) \/ GiveUp(e)
    \/ \E S \in SUBSET Entries : Lapse(S)
    \/ Pass

Spec == Init /\ [][Next]_calendar
=============================================================================
