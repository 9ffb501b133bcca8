----------------------------- MODULE ViewProofs -----------------------------
(***************************************************************************)
(* What the lists, the buttons, the calendar and the earnings make of the  *)
(* bookings is right, proved for any users, listings, periods and bookings *)
(* while no two handlers hold one booking or the dates of one listing at a *)
(* time, with handlers dying anywhere.                                     *)
(***************************************************************************)
EXTENDS BookingViews, LockedProofs

-----------------------------------------------------------------------------
(* The buttons                                                             *)

\* A booking has two parties.
LEMMA TwoParties ==
    ASSUME BookingsInv, NEW b \in ListBookings
    PROVE  /\ b \in BookingIds /\ Present(b)
           /\ bookings[b].borrower \in Users /\ bookings[b].lender \in Users
           /\ bookings[b].borrower # bookings[b].lender
  BY DEF BookingsInv, DocumentsInv, PapersInv, ListBookings

\* What the page offers a party.
Buttons(doc, user) == ActionsFor(doc.status, doc.lender = user, doc.borrower = user)

\* The table of the page and the table of the server say the same.
LEMMA ActionsForIsTheTable ==
    ASSUME NEW doc, NEW user, doc.borrower # doc.lender
    PROVE  /\ \A action \in Buttons(doc, user) : \E rule \in TRANSITIONS :
                 rule.action = action /\ Evaluate(rule, doc, user)
           /\ \A rule \in TRANSITIONS : Evaluate(rule, doc, user) =>
                 \E other \in TRANSITIONS :
                     other.action \in Buttons(doc, user) /\ other.to = rule.to
<1>1. ASSUME NEW action \in Buttons(doc, user)
      PROVE  \E rule \in TRANSITIONS : rule.action = action /\ Evaluate(rule, doc, user)
  BY <1>1 DEF Buttons, ActionsFor, TRANSITIONS, Evaluate
<1>2. ASSUME NEW rule \in TRANSITIONS, Evaluate(rule, doc, user)
      PROVE  \E other \in TRANSITIONS : other.action \in Buttons(doc, user) /\ other.to = rule.to
  BY <1>2 DEF Buttons, ActionsFor, TRANSITIONS, Evaluate
<1> QED
  BY <1>1, <1>2

\* The argument needs no more than the two parties and the two tables.
LEMMA ButtonsFit == BookingsInv => PageOffersWhatServerAccepts
<1> SUFFICES ASSUME BookingsInv, NEW b \in ListBookings, NEW user \in Users,
                    Opens(b, user)
             PROVE  /\ Offered(b, user) \ {"resolve"} \subseteq Accepted(b, user)
                    /\ "resolve" \in Offered(b, user) <=>
                          /\ Settles(b, user)
                          /\ user \notin {bookings[b].borrower, bookings[b].lender}
                    /\ \A rule \in TRANSITIONS : Evaluate(rule, bookings[b], user) =>
                          \E other \in TRANSITIONS :
                              other.action \in Offered(b, user) /\ other.to = rule.to
                    /\ b \in Awaiting(user) => "approve" \in Offered(b, user)
                    /\ b \in Resolvable /\ user \in Admins => Settles(b, user)
  BY DEF PageOffersWhatServerAccepts
<1> PICK doc : doc = bookings[b]
  OBVIOUS
<1>1. doc.borrower # doc.lender
  BY TwoParties
<1>2. /\ \A action \in Buttons(doc, user) : \E rule \in TRANSITIONS :
            rule.action = action /\ Evaluate(rule, doc, user)
      /\ \A rule \in TRANSITIONS : Evaluate(rule, doc, user) =>
            \E other \in TRANSITIONS : other.action \in Buttons(doc, user) /\ other.to = rule.to
  BY <1>1, ActionsForIsTheTable
<1>3. b \in Resolvable /\ user \in Admins => Settles(b, user)
  BY DEF Resolvable, Settles
<1>4. CASE doc.lender = user \/ doc.borrower = user
  <2>1. Offered(b, user) = Buttons(doc, user)
    BY <1>4 DEF Offered, Buttons
  <2>2. Offered(b, user) \subseteq Accepted(b, user)
    BY <1>2, <2>1 DEF Accepted
  <2>3. b \in Awaiting(user) => "approve" \in Buttons(doc, user)
    BY DEF Awaiting, BookingRequests, Buttons, ActionsFor
  <2>4. "resolve" \notin Buttons(doc, user)
    BY DEF Buttons, ActionsFor
  <2> QED
    BY <1>2, <1>3, <1>4, <2>1, <2>2, <2>3, <2>4
<1>5. CASE doc.lender # user /\ doc.borrower # user
  <2>1. user \in Admins
    BY <1>5 DEF Opens, IsParticipant
  <2>2. Offered(b, user) = IF doc.status = "disputed" THEN {"resolve"} ELSE {}
    BY <1>5, <2>1 DEF Offered
  <2>3. \A rule \in TRANSITIONS : ~Evaluate(rule, doc, user)
    BY <1>5 DEF Evaluate, TRANSITIONS
  <2>4. b \notin Awaiting(user)
    BY <1>5 DEF Awaiting, BookingRequests
  <2> QED
    BY <1>3, <1>5, <2>1, <2>2, <2>3, <2>4 DEF Settles
<1> QED
  BY <1>4, <1>5

\* However requests overlap and payments come in between: on a page that is up
\* to date no status button leads to a refusal, every status a party may bring
\* the booking to has one, and "Resolve" is there for exactly the
\* administrators who are no party (BookingDetail.jsx).
THEOREM ButtonsAreRight == BookingsSpec => []PageOffersWhatServerAccepts
BY ButtonsFit, BookingsAreSafe, PTL

-----------------------------------------------------------------------------
(* Links                                                                   *)

\* A notice went to a party of a stored booking whose hash is right or missing.
LEMMA LinksFit == LockedInv => LinksOpen
<1> SUFFICES ASSUME LockedInv, NEW user \in Users
             PROVE  /\ \A b \in MyBookings(user) \cup BookingRequests(user) : Opens(b, user)
                    /\ user \in Admins => \A b \in ListBookings : Opens(b, user)
                    /\ \A n \in notices : n.to = user => Opens(n.booking, user)
  BY DEF LinksOpen
<1>1. ASSUME NEW b \in ListBookings,
             user \in Admins \cup {bookings[b].borrower, bookings[b].lender}
      PROVE  Opens(b, user)
  BY <1>1 DEF LockedInv, PapersInv, HashesRight, Opens, IsParticipant, ListBookings
<1>2. \A b \in MyBookings(user) \cup BookingRequests(user) : Opens(b, user)
  BY <1>1 DEF MyBookings, BookingRequests, ListBookings
<1>3. user \in Admins => \A b \in ListBookings : Opens(b, user)
  BY <1>1
<1>4. ASSUME NEW n \in notices, n.to = user PROVE Opens(n.booking, user)
  <2>1. n.booking \in ListBookings
        /\ n.to \in {bookings[n.booking].borrower, bookings[n.booking].lender}
    BY DEF LockedInv, BookingsInv, NoticesJustified, TypeOK, Notices, ListBookings,
           DocumentsInv, Present
  <2> QED
    BY <1>1, <1>4, <2>1
<1> QED
  BY <1>2, <1>3, <1>4

\* Lists and notices lead to bookings that open for whoever sees them.
THEOREM LinksLeadSomewhere == BookingsSpec /\ []Locked => []LinksOpen
BY LinksFit, LockedHandlersAreSafe, PTL

-----------------------------------------------------------------------------
(* The calendar and the quote                                              *)

\* A period has at least one started day: the page and createBooking round alike.
LEMMA AtLeastOneDay ==
    ASSUME NEW p \in Periods
    PROVE  /\ (p.end - p.start + DayTicks - 1) \div DayTicks \in Nat
           /\ (p.end - p.start + DayTicks - 1) \div DayTicks >= 1
<1>1. /\ p.start \in Nat /\ p.end \in Nat /\ p.start < p.end
      /\ DayTicks \in Nat /\ DayTicks > 0
  BY PeriodsAssumption
<1> PICK n \in Int : n = p.end - p.start + DayTicks - 1
  BY <1>1
<1>2. n >= DayTicks
  BY <1>1
<1>3. \A a, d \in Int : d > 0 /\ a >= d => a \div d \in Int /\ a \div d >= 1
  OBVIOUS
<1>4. n \div DayTicks \in Int /\ n \div DayTicks >= 1
  BY <1>1, <1>2, <1>3
<1> QED
  BY <1>4

\* Both sides compare with the same stored periods, however they got there.
LEMMA CalendarFits == BookingsInv => AvailabilityPredictsClash
<1> SUFFICES ASSUME BookingsInv, NEW l \in Listings, NEW p \in Periods
             PROVE  /\ \A now \in 0..p.start :
                          Requestable(l, p, now) <=>
                              ~Clashes([Absent EXCEPT !.listing = l, !.period = p])
                    /\ \A user \in Users :
                          LET doc == NewBooking(user, l, p)
                          IN  Quote(l, p) = TotalDue(doc)
  BY DEF AvailabilityPredictsClash
<1>1. /\ p.start \in Nat /\ p.end \in Nat
      /\ \A b \in BookingIds : /\ bookings[b].period.start \in Nat
                              /\ bookings[b].period.end \in Nat
  BY PeriodsAssumption DEF BookingsInv, TypeOK, Documents
<1>2. ASSUME NEW now \in 0..p.start
      PROVE  Requestable(l, p, now) <=>
                 ~Clashes([Absent EXCEPT !.listing = l, !.period = p])
  <2> PICK doc : doc = [Absent EXCEPT !.listing = l, !.period = p]
    OBVIOUS
  <2>1. doc.listing = l /\ doc.period = p
    BY DEF Absent
  <2>2. ASSUME NEW b \in BookingIds,
               bookings[b].period.end > p.start
        PROVE  bookings[b].period.end >= now
    BY <1>1, <2>2
  <2>3. OverlapsBooked(Availability(l, now), p) <=>
           \E b \in BookingIds :
               /\ bookings[b].listing = l
               /\ bookings[b].status \in BlockingStatuses
               /\ bookings[b].period.end >= now
               /\ p.start < bookings[b].period.end
               /\ p.end > bookings[b].period.start
    BY DEF OverlapsBooked, Availability, BlockingStatuses
  <2>4. Clashes(doc) <=>
           \E b \in BookingIds :
               /\ bookings[b].listing = l
               /\ bookings[b].status \in BlockingStatuses
               /\ bookings[b].period.start < p.end
               /\ bookings[b].period.end > p.start
    BY <2>1 DEF Clashes
  <2>5. \A b \in BookingIds :
           /\ p.start < bookings[b].period.end <=> bookings[b].period.end > p.start
           /\ p.end > bookings[b].period.start <=> bookings[b].period.start < p.end
    BY <1>1
  <2> QED
    BY <2>2, <2>3, <2>4, <2>5 DEF Requestable
<1>3. ASSUME NEW user \in Users
      PROVE  Quote(l, p) = TotalDue(NewBooking(user, l, p))
  <2> PICK days \in Nat : days = (p.end - p.start + DayTicks - 1) \div DayTicks
    BY AtLeastOneDay
  <2>1. days >= 1 /\ Days(p) = days
    BY AtLeastOneDay DEF Days
  <2>2. Quote(l, p) = days * listings[l].feePerDay + listings[l].deposit
    BY <2>1 DEF Quote
  <2>3. /\ NewBooking(user, l, p).fee = listings[l].feePerDay * days
        /\ NewBooking(user, l, p).deposit = listings[l].deposit
    BY <2>1 DEF NewBooking, Absent
  <2>4. listings[l].feePerDay \in Nat
    BY DEF BookingsInv, TypeOK, ListingDocuments
  <2>5. days * listings[l].feePerDay = listings[l].feePerDay * days
    BY <2>4
  <2> QED
    BY <2>2, <2>3, <2>5 DEF TotalDue
<1> QED
  BY <1>2, <1>3

\* The page greys out what createBooking would refuse, and quotes what it
\* would charge, however requests overlap.
THEOREM CalendarIsRight == BookingsSpec => []AvailabilityPredictsClash
BY CalendarFits, BookingsAreSafe, PTL

-----------------------------------------------------------------------------
(* Earnings                                                                *)

\* The history and the status agree on whether money came in.
PaidIsKnown ==
    \A b \in BookingIds : HasBeen(b, "paid") <=> bookings[b].status \in EARNED

\* Once money came in, a booking stays in one of the statuses that count.
LEMMA MoneyStays ==
    ASSUME NEW d, NEW to, NEW user, LegalStep(d, to, user, Admins)
    PROVE  to \in EARNED <=> to = "paid" \/ d.status \in EARNED
  BY DEF LegalStep, Evaluate, TRANSITIONS, EARNED

\* What a step does to status and history of a booking.
HistoryStep(b) ==
    \/ /\ bookings'[b].status = bookings[b].status
       /\ bookings'[b].history = bookings[b].history
    \/ /\ bookings'[b].status = "requested"
       /\ \E user : bookings'[b].history = <<[status |-> "requested", by |-> user]>>
    \/ \E to \in Statuses, user \in Users :
          /\ LegalStep(bookings[b], to, user, Admins)
          /\ bookings'[b].status = to
          /\ bookings'[b].history = Append(bookings[b].history, [status |-> to, by |-> user])

LEMMA SteppedHistory ==
    ASSUME CurrentInv, NEW c \in BookingIds, NEW to \in Statuses, NEW user \in Users,
           LegalStep(bookings[c], to, user, Admins), NEW hash,
           bookings' = Stepped(c, to, user, hash), NEW b \in BookingIds
    PROVE  HistoryStep(b)
<1>1. bookings \in [BookingIds -> Documents]
  BY DEF CurrentInv, LockedInv, BookingsInv, TypeOK
<1>2. CASE b = c
  <2>1. /\ bookings'[c].status = to
        /\ bookings'[c].history = Append(bookings[c].history, [status |-> to, by |-> user])
    BY <1>1 DEF Stepped, Documents
  <2> QED
    BY <1>2, <2>1 DEF HistoryStep
<1>3. CASE b # c
  BY <1>1, <1>3 DEF Stepped, HistoryStep
<1> QED
  BY <1>2, <1>3

LEMMA HistoriesStep ==
    ASSUME CurrentInv, LockedNext, NEW b \in BookingIds
    PROVE  HistoryStep(b)
<1>1. bookings \in [BookingIds -> Documents]
  BY DEF CurrentInv, LockedInv, BookingsInv, TypeOK
<1>2. UNCHANGED bookings => HistoryStep(b)
  BY DEF HistoryStep
<1>3. ASSUME NEW r \in Requests, CreateInsert(r) PROVE HistoryStep(b)
  <2>1. /\ req[r].id \in BookingIds /\ req[r].doc.status = "requested"
        /\ req[r].doc.history = <<[status |-> "requested", by |-> req[r].doc.borrower]>>
    BY <1>3 DEF CreateInsert, CurrentInv, LockedInv, BookingsInv, SlotsInv, SlotOK, Creating, CreatingOK
  <2>2. bookings'[b] = IF b = req[r].id THEN req[r].doc ELSE bookings[b]
    BY <1>1, <1>3, <2>1 DEF CreateInsert
  <2> QED
    BY <2>1, <2>2 DEF HistoryStep
<1>4. ASSUME NEW r \in Requests, CreateSeal(r) PROVE HistoryStep(b)
  <2>1. /\ bookings'[b].status = bookings[b].status
        /\ bookings'[b].history = bookings[b].history
    BY <1>1, <1>4 DEF CreateSeal, Documents
  <2> QED
    BY <2>1 DEF HistoryStep
<1>5. ASSUME NEW r \in Requests, ChangeSave(r) \/ ResolveSave(r) PROVE HistoryStep(b)
  <2>1. req[r].at \in {"change.save", "resolve.save"} /\ SaveStatus(r)
    BY <1>5 DEF ChangeSave, ResolveSave
  <2>2. /\ req[r].id \in BookingIds /\ req[r].to \in Statuses /\ req[r].user \in Users
        /\ LegalStep(bookings[req[r].id], req[r].to, req[r].user, Admins)
    <3>1. /\ req[r].id \in BookingIds /\ req[r].to \in Statuses /\ req[r].user \in Users
          /\ LegalStep(req[r].doc, req[r].to, req[r].user, Admins)
          /\ SameParties(req[r].doc, bookings[req[r].id])
      BY <2>1 DEF CurrentInv, LockedInv, BookingsInv, SlotsInv, SlotOK, Stored, StoredOK,
                  SavingOK
    <3>2. bookings[req[r].id].status = req[r].doc.status
      BY <2>1 DEF CurrentInv, UpToDate, Saving
    <3> QED
      BY <3>1, <3>2, LegalStepDepends
  <2>3. bookings' = Stepped(req[r].id, req[r].to, req[r].user,
                            ComputeIntegrityHash([req[r].doc EXCEPT !.status = req[r].to]))
    BY <2>1 DEF SaveStatus, Stepped
  <2> QED
    BY <2>2, <2>3, SteppedHistory
<1>6. ASSUME NEW c \in BookingIds, PaymentVerified(c) PROVE HistoryStep(b)
  <2>1. bookings[c].status = "approved" /\ bookings[c].borrower \in Users
    BY <1>6 DEF PaymentVerified, ApplyVerifiedPayment, CurrentInv, LockedInv, BookingsInv, DocumentsInv,
                Present
  <2>2. LegalStep(bookings[c], "paid", bookings[c].borrower, Admins) /\ "paid" \in Statuses
    BY <2>1 DEF LegalStep, Statuses
  <2>3. bookings' = Stepped(c, "paid", bookings[c].borrower,
                            ComputeIntegrityHash([bookings[c] EXCEPT !.status = "paid"]))
    BY <1>6 DEF PaymentVerified, ApplyVerifiedPayment, Pay, Stepped
  <2> QED
    BY <2>1, <2>2, <2>3, SteppedHistory
<1>7. ASSUME NEW r \in Requests, Receive(r) \/ Fail(r) PROVE UNCHANGED bookings
  BY <1>7 DEF Receive, CreateBooking, ChangeStatus, ResolveDispute, Fail
<1>8. Read => UNCHANGED bookings
  BY DEF Read, GetBooking
<1>9. ASSUME NEW r \in Requests, Continue(r) PROVE HistoryStep(b)
  BY <1>2, <1>3, <1>4, <1>5, <1>9 DEF Continue, CreateClash, CreateNotify, ChangeNotify
<1> QED
  BY <1>2, <1>6, <1>7, <1>8, <1>9 DEF LockedNext, PaymentStep

\* Nothing is paid at the start.
LEMMA PaidStarts == Init => PaidIsKnown
BY DEF Init, PaidIsKnown, HasBeen, Absent, EARNED

\* A step adds to the history what it makes the status.
LEMMA PaidStaysKnown ==
    ASSUME CurrentInv, PaidIsKnown, LockedNext
    PROVE  PaidIsKnown'
<1> SUFFICES ASSUME NEW b \in BookingIds
             PROVE  HasBeen(b, "paid")' <=> bookings'[b].status \in EARNED
  BY DEF PaidIsKnown
<1>1. bookings[b].history \in Seq(HistoryEntries)
  BY DEF CurrentInv, LockedInv, BookingsInv, TypeOK, Documents
<1>2. HasBeen(b, "paid") <=> bookings[b].status \in EARNED
  BY DEF PaidIsKnown
<1>3. CASE /\ bookings'[b].status = bookings[b].status
           /\ bookings'[b].history = bookings[b].history
  BY <1>2, <1>3 DEF HasBeen
<1>4. CASE /\ bookings'[b].status = "requested"
           /\ \E user : bookings'[b].history = <<[status |-> "requested", by |-> user]>>
  <2>1. \A i \in DOMAIN bookings'[b].history : bookings'[b].history[i].status = "requested"
    BY <1>4
  <2> QED
    BY <1>4, <2>1 DEF HasBeen, EARNED
<1>5. ASSUME NEW to \in Statuses, NEW user \in Users,
             LegalStep(bookings[b], to, user, Admins),
             bookings'[b].status = to,
             bookings'[b].history = Append(bookings[b].history, [status |-> to, by |-> user])
      PROVE  HasBeen(b, "paid")' <=> bookings'[b].status \in EARNED
  <2> PICK h, entry : h = bookings[b].history /\ entry = [status |-> to, by |-> user]
    OBVIOUS
  <2>1. entry.status = to /\ entry \in HistoryEntries /\ h \in Seq(HistoryEntries)
    BY <1>1 DEF HistoryEntries
  <2>2. (\E i \in DOMAIN Append(h, entry) : Append(h, entry)[i].status = "paid") <=>
           to = "paid" \/ \E i \in DOMAIN h : h[i].status = "paid"
    <3>1. /\ DOMAIN Append(h, entry) = 1..(Len(h) + 1) /\ DOMAIN h = 1..Len(h)
          /\ \A i \in 1..Len(h) : Append(h, entry)[i] = h[i]
          /\ Append(h, entry)[Len(h) + 1] = entry
          /\ Len(h) \in Nat
      BY <2>1, AppendEntry
    <3> PICK n, longer : n = Len(h) /\ longer = Append(h, entry)
      OBVIOUS
    <3>2. \A i : i \in 1..(n + 1) <=> i = n + 1 \/ i \in 1..n
      BY <3>1
    <3> QED
      BY <2>1, <3>1, <3>2
  <2>3. HasBeen(b, "paid")' <=> to = "paid" \/ HasBeen(b, "paid")
    BY <1>5, <2>2 DEF HasBeen
  <2> QED
    BY <1>2, <1>5, <2>3, MoneyStays
<1> QED
  BY <1>3, <1>4, <1>5, HistoriesStep DEF HistoryStep

\* Totals and history count the same bookings, whichever the query returns.
LEMMA EarningsFit == PaidIsKnown => EarningsComplete
<1> SUFFICES ASSUME PaidIsKnown, NEW user \in Users, NEW page \in Earnings(user)
             PROVE  /\ \A b \in TotalEarned(page) \cup PendingEarnings(page) :
                          HasBeen(b, "paid") /\ bookings[b].lender = user
                    /\ Cardinality({b \in BookingRequests(user) : HasBeen(b, "paid")})
                          <= EarningsLimit =>
                       {b \in BookingRequests(user) : HasBeen(b, "paid")}
                          \subseteq TotalEarned(page) \cup PendingEarnings(page)
  BY DEF EarningsComplete
<1>1. Earned(user) = {c \in BookingRequests(user) : HasBeen(c, "paid")}
  BY DEF PaidIsKnown, Earned, BookingRequests
<1>2. page \subseteq Earned(user)
  BY DEF Earnings
<1>3. TotalEarned(page) \cup PendingEarnings(page) = page
  BY DEF TotalEarned, PendingEarnings
<1>4. \A b \in page : HasBeen(b, "paid") /\ bookings[b].lender = user
  BY <1>1, <1>2 DEF BookingRequests
<1>5. Cardinality(Earned(user)) <= EarningsLimit => page = Earned(user)
  BY DEF Earnings
<1> QED
  BY <1>1, <1>3, <1>4, <1>5

\* No total counts money that never came in, and none that did is missing from
\* one as long as the query reads all of the lender's.
THEOREM EarningsAreComplete == LockedSpec => []EarningsComplete
<1>1. PaidIsKnown /\ UNCHANGED vars => PaidIsKnown'
  BY DEF PaidIsKnown, HasBeen, vars
<1>2. CurrentInv /\ PaidIsKnown /\ [LockedNext]_vars => PaidIsKnown'
  BY <1>1, PaidStaysKnown
<1> QED
  BY <1>2, PaidStarts, EarningsFit, HandlersAreCurrent, PTL DEF LockedSpec

=============================================================================
