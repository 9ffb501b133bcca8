---------------------------- MODULE BookingViews ----------------------------
(***************************************************************************)
(* What the read-only endpoints of booking.controller.js and the pages     *)
(* that call them make of the booking documents: the lists, the buttons    *)
(* offered, the dates greyed out, the price quoted and the earnings.       *)
(* Everything here is computed from the state of Bookings.                 *)
(***************************************************************************)
EXTENDS Bookings, FiniteSets

CONSTANT EarningsLimit   \* how many bookings the earnings query reads: 100

ASSUME EarningsLimitAssumption == EarningsLimit \in Nat \ {0}

-----------------------------------------------------------------------------
(* The booking page (pages/BookingDetail.jsx)                              *)

\* Fault: the lender, too, is offered to confirm the return.
ActionsForReturnByAny(status, isLender, isBorrower) ==
    (IF status = "requested" /\ isLender THEN {"approve", "reject"} ELSE {})
    \cup (IF status = "requested" /\ isBorrower THEN {"cancel"} ELSE {})
    \cup (IF status = "approved" THEN {"cancel"} ELSE {})
    \cup (IF status = "paid" /\ isLender THEN {"handover"} ELSE {})
    \cup (IF status = "active" THEN {"return"} ELSE {})
    \cup (IF status = "returned" /\ isLender THEN {"complete", "dispute"} ELSE {})

\* The state-machine buttons, by status and the viewer's role.
ActionsFor(status, isLender, isBorrower) ==
    (IF status = "requested" /\ isLender THEN {"approve", "reject"} ELSE {})
    \cup (IF status = "requested" /\ isBorrower THEN {"cancel"} ELSE {})
    \cup (IF status = "approved" /\ (isLender \/ isBorrower) THEN {"cancel"} ELSE {})
    \cup (IF status = "paid" /\ isLender THEN {"handover"} ELSE {})
    \cup (IF status = "active" /\ isBorrower THEN {"return"} ELSE {})
    \cup (IF status = "returned" /\ isLender THEN {"complete", "dispute"} ELSE {})

\* The whole panel: an administrator who is no party only settles disputes.
\* ("Pay now" sends nothing: it is a link to the page of the module Payments.)
Offered(b, user) ==
    LET doc        == bookings[b]
        isLender   == doc.lender = user
        isBorrower == doc.borrower = user
        isAdmin    == user \in Admins /\ ~isLender /\ ~isBorrower
    IN  IF isAdmin
        THEN IF doc.status = "disputed" THEN {"resolve"} ELSE {}
        ELSE ActionsFor(doc.status, isLender, isBorrower)

\* Fault: only the one who is asked gets to see the request.
OpensForLenderOnly(b, user) ==
    /\ user \in Admins \/ bookings[b].lender = user
    /\ VerifyIntegrity(bookings[b])

\* getBooking answers with the document: no 403, no integrity alert.
Opens(b, user) ==
    /\ IsParticipant(bookings[b], user)
    /\ VerifyIntegrity(bookings[b])

-----------------------------------------------------------------------------
(* Lists: MyBookings, BookingRequests, AdminBookings                       *)

MyBookings(user) == {b \in BookingIds : Present(b) /\ bookings[b].borrower = user}

BookingRequests(user) == {b \in BookingIds : Present(b) /\ bookings[b].lender = user}

\* The requests an inline Approve or Decline is shown for.
Awaiting(user) == {b \in BookingRequests(user) : bookings[b].status = "requested"}

\* The administrators' table, and the rows it can settle.
ListBookings == {b \in BookingIds : Present(b)}

Resolvable == {b \in ListBookings : bookings[b].status = "disputed"}

-----------------------------------------------------------------------------
(* The listing page (pages/ListingDetail.jsx)                              *)

\* Fault: a booking not approved yet is not greyed out.
AvailabilityFirmOnly(l, now) ==
    {bookings[b].period : b \in
        {c \in BookingIds : /\ bookings[c].listing = l
                            /\ bookings[c].status \in {"approved", "paid", "active"}
                            /\ bookings[c].period.end >= now}}

\* getAvailability: the periods taken that have not ended.
Availability(l, now) ==
    {bookings[b].period : b \in
        {c \in BookingIds : /\ bookings[c].listing = l
                            /\ bookings[c].status \in
                                 {"requested", "approved", "paid", "active"}
                            /\ bookings[c].period.end >= now}}

OverlapsBooked(booked, p) ==
    \E q \in booked : p.start < q.end /\ p.end > q.start

\* The button of the request form is enabled for p, on a page opened at now.
Requestable(l, p, now) == ~OverlapsBooked(Availability(l, now), p)

\* The total the page quotes before the request is sent.
Quote(l, p) ==
    LET ceiling == (p.end - p.start + DayTicks - 1) \div DayTicks
        days    == IF ceiling > 0 THEN ceiling ELSE 0
    IN  days * listings[l].feePerDay + listings[l].deposit

\* The total of the order the borrower confirms (pages/PaymentPay.jsx).
TotalDue(doc) == doc.fee + doc.deposit

-----------------------------------------------------------------------------
(* GET /bookings/earnings (pages/Earnings.jsx)                             *)

\* Fault: money of a contested booking is in no total.
EarnedStatusesUncontested ==
    {"paid", "active", "returned", "completed", "resolved"}

EARNED == {"paid", "active", "returned", "disputed", "completed", "resolved"}

Earned(user) ==
    {b \in BookingRequests(user) : bookings[b].status \in EARNED}

\* What .sort({createdAt: -1}).limit(100) may answer: all of them, or the
\* latest; the moment a booking was made is not modelled, so any may be.
Earnings(user) ==
    IF Cardinality(Earned(user)) <= EarningsLimit THEN {Earned(user)}
    ELSE {page \in SUBSET Earned(user) : Cardinality(page) = EarningsLimit}

\* The split of the bookings read into completed and pending.
TotalEarned(page) ==
    {b \in page : bookings[b].status \in {"completed", "resolved"}}

PendingEarnings(page) == page \ TotalEarned(page)

-----------------------------------------------------------------------------
(* What the pages may rely on.                                             *)

\* The actions changeStatus accepts from user now.
Accepted(b, user) ==
    {rule.action : rule \in {t \in TRANSITIONS : Evaluate(t, bookings[b], user)}}

\* resolveDispute, behind requireRole('admin').
Settles(b, user) == user \in Admins /\ bookings[b].status = "disputed"

\* The page repeats the server's table by hand (BookingDetail.jsx:26-36, "the
\* server is the real authority"): on a page that is up to date no status
\* button leads to a refusal, and there is one for every status a party may
\* bring the booking to (a lender's "Reject" stands for the "cancel" the server
\* would take too); "Resolve" is offered to exactly the administrators who are
\* no party, and never leads to a refusal, here or in their table.
PageOffersWhatServerAccepts ==
    \A b \in ListBookings, user \in Users :
        Opens(b, user) =>
            /\ Offered(b, user) \ {"resolve"} \subseteq Accepted(b, user)
            /\ "resolve" \in Offered(b, user) <=>
                  /\ Settles(b, user)
                  /\ user \notin {bookings[b].borrower, bookings[b].lender}
            /\ \A rule \in TRANSITIONS : Evaluate(rule, bookings[b], user) =>
                  \E other \in TRANSITIONS :
                      other.action \in Offered(b, user) /\ other.to = rule.to
            /\ b \in Awaiting(user) => "approve" \in Offered(b, user)
            /\ b \in Resolvable /\ user \in Admins => Settles(b, user)

\* Every link a member is shown opens: the rows of his lists and the link in
\* each notification never lead to 403 or to an integrity refusal.
LinksOpen ==
    \A user \in Users :
        /\ \A b \in MyBookings(user) \cup BookingRequests(user) : Opens(b, user)
        /\ user \in Admins => \A b \in ListBookings : Opens(b, user)
        /\ \A n \in notices : n.to = user => Opens(n.booking, user)

\* The page disables the button for exactly the periods createBooking refuses
\* with 409, for whatever day today is, as long as the period has not begun:
\* getAvailability leaves out bookings that ended, and must leave out no other.
\* The quote beside the button is what a request would be charged.
AvailabilityPredictsClash ==
    \A l \in Listings, p \in Periods :
        /\ \A now \in 0..p.start :
              Requestable(l, p, now) <=>
                  ~Clashes([Absent EXCEPT !.listing = l, !.period = p])
        /\ \A user \in Users :
              LET doc == NewBooking(user, l, p)
              IN  Quote(l, p) = TotalDue(doc)

\* Money a booking took stays in exactly one of its lender's totals, contested
\* or not (the comment of earnings, booking.controller.js:140-143), as long as
\* the query reads all such bookings of the lender; money that never came in is
\* in no total, also where it does not.
EarningsComplete ==
    \A user \in Users : \A page \in Earnings(user) :
        /\ \A b \in TotalEarned(page) \cup PendingEarnings(page) :
              HasBeen(b, "paid") /\ bookings[b].lender = user
        /\ LET paid == {b \in BookingRequests(user) : HasBeen(b, "paid")}
           IN  Cardinality(paid) <= EarningsLimit =>
                  paid \subseteq TotalEarned(page) \cup PendingEarnings(page)

=============================================================================
