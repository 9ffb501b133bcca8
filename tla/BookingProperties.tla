------------------------- MODULE BookingProperties -------------------------
(***************************************************************************)
(* What the booking handlers guarantee however requests interleave and     *)
(* wherever a handler dies, what they guarantee when no two of them hold   *)
(* one booking or choose dates of one listing, and what the source says of *)
(* them that overlapping breaks.                                           *)
(***************************************************************************)
EXTENDS Bookings

LastStatus(history) == history[Len(history)].status

\* The status field and the history written beside it never part, although
\* stale saves overwrite the one and add to the other (changeStatus,
\* resolveDispute, applyVerifiedPayment, createBooking).
StatusIsLastHistory ==
    \A b \in BookingIds : Present(b) =>
        /\ bookings[b].history # <<>>
        /\ bookings[b].history[1].status = "requested"
        /\ LastStatus(bookings[b].history) = bookings[b].status

\* Entry i of booking b was written by someone the machine allows to make
\* that step from the status of the earlier entry j.
JustifiedBy(b, i, j) ==
    LET h == bookings[b].history
    IN  LegalStep([bookings[b] EXCEPT !.status = h[j].status],
                  h[i].status, h[i].by, Admins)

\* Every status a booking ever took was a legal step, by an entitled person,
\* from a status it had earlier; 'paid' always directly from 'approved'.
\* So nothing is handed over unpaid, nor resolved undisputed, even where
\* stale handlers reorder the steps (evaluate, resolveDispute and the guard
\* of applyVerifiedPayment).
HistoryJustified ==
    \A b \in BookingIds : \A i \in DOMAIN bookings[b].history \ {1} :
        \E j \in 1..(i - 1) :
            /\ JustifiedBy(b, i, j)
            /\ bookings[b].history[i].status = "paid" => j = i - 1

\* A stored hash can only ever lag behind by the sealing save of
\* createBooking: it is missing, right, or the hash of the new request.
OnlySealCanLag ==
    \A b \in BookingIds : Present(b) =>
        bookings[b].hash \in
            {NoHash,
             ComputeIntegrityHash(bookings[b]),
             ComputeIntegrityHash([bookings[b] EXCEPT !.status = "requested"])}

\* A notification about a status is only sent for a status the booking really
\* took, to a participant who is not the one who brought it there.
NoticesJustified ==
    \A n \in notices :
        /\ n.to \in {bookings[n.booking].borrower, bookings[n.booking].lender}
        /\ \E i \in DOMAIN bookings[n.booking].history :
              /\ bookings[n.booking].history[i].status = n.status
              /\ bookings[n.booking].history[i].by # n.to

IsPrefixOf(s, t) ==
    /\ Len(s) <= Len(t)
    /\ \A i \in 1..Len(s) : s[i] = t[i]

\* No step, however stale its snapshot, loses an entry of the history: the
\* one trace left of a status that another save overwrote.
HistoryNeverRewritten ==
    [][\A b \in BookingIds :
          IsPrefixOf(bookings[b].history, bookings'[b].history)]_vars

-----------------------------------------------------------------------------
(* When handlers run to their end (Failures = FALSE).                      *)

ToldOf(b, status) == \E n \in notices : n.booking = b /\ n.status = status

\* Every booking gets its integrity hash, and every status a participant ever
\* gave it is told to the other one, also when a concurrent save has already
\* overwritten it (the seal and notifyUser of createBooking, the notifyUser
\* of changeStatus).
EventuallyCaughtUp ==
    \A b \in BookingIds :
        Present(b) ~>
            /\ bookings[b].hash # NoHash
            /\ \A status \in Statuses \ {"paid", "resolved"} :
                  HasBeen(b, status) => ToldOf(b, status)

-----------------------------------------------------------------------------
(* When requests keep to the locks of LockedSpec.                          *)

Life == [b \in BookingIds |-> [status   |-> bookings[b].status,
                               borrower |-> bookings[b].borrower,
                               lender   |-> bookings[b].lender]]

Lifecycle == INSTANCE BookingLifecycle WITH life <- Life

\* The handlers implement the linear state machine of the model's header
\* (models/booking.model.js:1-3) and of bookingStateMachine.js:1-11.
ImplementsLifecycle == Lifecycle!LifeSpec

\* The same, step by step: a stored status only ever changes along a legal
\* transition ("any action ... from the wrong current status ... is rejected",
\* bookingStateMachine.js:2-3).
StatusMovesLegally ==
    [][\A b \in BookingIds :
          Present(b) /\ bookings'[b].status # bookings[b].status =>
             \E user \in Users :
                LegalStep(bookings[b], bookings'[b].status, user, Admins)]_vars

\* No two bookings that block dates overlap on one listing
\* (booking.controller.js:48).
NoDoubleBooking ==
    \A b, c \in BookingIds :
        /\ b # c
        /\ bookings[b].listing = bookings[c].listing
        /\ {bookings[b].status, bookings[c].status} \subseteq BlockingStatuses
        => \/ bookings[b].period.end <= bookings[c].period.start
           \/ bookings[c].period.end <= bookings[b].period.start

\* A mismatching hash means the record was altered outside the application
\* (bookingIntegrity.js:2-4), which no handler does: no tamper alert.
NoFalseTamperAlert == alerts = {}

=============================================================================
