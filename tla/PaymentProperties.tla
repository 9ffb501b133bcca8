------------------------- MODULE PaymentProperties -------------------------
(***************************************************************************)
(* What the payment handlers guarantee when they overlap each other and    *)
(* the booking handlers, what they guarantee one at a time, and what the   *)
(* source says of them that does not hold.                                 *)
(***************************************************************************)
EXTENDS Payments, FiniteSets

\* Khalti took exactly the fee and the deposit of booking b under p.
Settled(p, b) ==
    /\ khalti[p].booking = b
    /\ khalti[p].status \in {"Completed", "Refunded"}
    /\ khalti[p].total = AmountPaisa(b)

\* A booking only becomes 'paid' for a payment of its own that Khalti
\* completed with the exact amount, however many callbacks and initiations
\* run at once on snapshots of any age (rules 1, 2 and 5 of
\* payment.controller.js:3-14).
PaidOnlyIfVerified ==
    \A b \in BookingIds :
        HasBeen(b, "paid") => \E p \in Pidxs : Settled(p, b)

\* A payment step changes a booking in no way the booking module does not
\* allow: approved -> paid, atomically, with its history entry and hash
\* (rule 4).
ImplementsBookings == BookingsSpec

\* The callback redirects to 'success' only after Khalti completed a payment
\* of the booking with the exact amount.
SuccessOnlyIfSettled ==
    \A b \in BookingIds :
        told[b] = "success" => \E p \in Pidxs : Settled(p, b)

-----------------------------------------------------------------------------
(* With one booking handler at a time (Requests a singleton): a stale save *)
(* of 'approved' over 'paid' would let the same booking be paid again, and *)
(* a retry of it start from fields the first attempt left behind.          *)

\* Callbacks and initiations that find the same completed payment apply it
\* once (rule 4; payments.test.js, the callback fired twice).
PaidOnce ==
    \A b \in BookingIds :
        Cardinality({i \in DOMAIN bookings[b].history :
                        bookings[b].history[i].status = "paid"}) <= 1

\* The wrong-amount alert is raised only for a payment of that booking that
\* Khalti completed with another amount than the booking's: pidx and amount
\* are never read from two different attempts.
MismatchJustified ==
    \A b \in mismatches : \E p \in Pidxs :
        /\ khalti[p].booking = b
        /\ khalti[p].status \in {"Completed", "Refunded"}
        /\ khalti[p].total # AmountPaisa(b)

-----------------------------------------------------------------------------
(* With one payment handler at a time (Calls a singleton).                 *)

Payable(p) == khalti[p].handed /\ khalti[p].status \in {"Initiated", "Pending"}

\* A booking has one payment the borrower can still make, at most
\* (payment.controller.js:9-10, 93-95).
OneLivePidx ==
    \A p, q \in Pidxs :
        p # q /\ Payable(p) /\ Payable(q) => khalti[p].booking # khalti[q].booking

\* A completed payment of the right amount is still on its booking, where the
\* callback or the next initiation finds it, wherever an earlier handler died
\* (lines 121-123, 138: clear only what is terminal, persist before handing).
NoPaymentLost ==
    \A p \in Pidxs :
        /\ khalti[p].status = "Completed"
        /\ khalti[p].total = AmountPaisa(khalti[p].booking)
        => pay[khalti[p].booking].pidx = p

-----------------------------------------------------------------------------

\* 'cancelled' never took money (booking.controller.js:140-142).
CancelledNeverTookMoney ==
    \A b \in BookingIds : bookings[b].status = "cancelled" =>
        ~\E p \in Pidxs : khalti[p].booking = b /\ khalti[p].status = "Completed"

=============================================================================
