------------------------------ MODULE Bookings ------------------------------
(***************************************************************************)
(* The booking documents and the handlers that write them                  *)
(* (controllers/booking.controller.js, resolveDispute of                   *)
(* controllers/admin.controller.js).                                       *)
(*                                                                         *)
(* A handler is a chain of steps, one per await on the database: what it   *)
(* read before an await it keeps in its slot and uses after it, while the  *)
(* handlers of other requests run in between.  A document is written field *)
(* by field (mongoose sends $set and $push of the modified paths only, and *)
(* matches on _id alone), so two saves of one document merge, the later    *)
(* $set of a field winning.                                                *)
(***************************************************************************)
EXTENDS BookingStateMachine, Integers, Sequences

CONSTANTS
    Users, Admins, Listings, BookingIds,
    Periods,           \* the [start, end] pairs clients ask for, in ticks
    DayTicks,          \* ticks in a day: fees are charged per started day
    InitialListings,   \* the catalogues the system may start with
    Requests,          \* slots for handlers in flight at the same time
    Failures,          \* whether a handler may die between two awaits
    None               \* a null reference

ListingStatuses == {"active", "paused", "removed_by_admin"}

\* No document: the _id is not drawn yet, or its listing was deleted.
Gone == {"unused", "deleted"}

ListingDocuments == [owner: Users, status: ListingStatuses \cup Gone,
                     feePerDay: Nat, deposit: Nat]

ASSUME UsersAssumption == Admins \subseteq Users
ASSUME PeriodsAssumption ==
    /\ DayTicks \in Nat \ {0}
    /\ Periods \subseteq [start: Nat, end: Nat]
    /\ \A p \in Periods : p.start < p.end
ASSUME ListingsAssumption ==
    InitialListings \subseteq [Listings -> ListingDocuments]
ASSUME FailuresAssumption == Failures \in BOOLEAN
ASSUME NoneAssumption ==
    None \notin Users /\ None \notin Listings /\ None \notin BookingIds

VARIABLES
    listings,   \* listing documents, which this module only reads
    bookings,   \* booking documents; status "absent" where there is none
    req,        \* the handler in each slot: its next step and what it holds
    notices,    \* in-app notifications created so far
    alerts      \* bookings that raised an integrity_mismatch security alert

vars == <<listings, bookings, req, notices, alerts>>

-----------------------------------------------------------------------------
(* Documents, their integrity hash, and slots                              *)

\* A SHA-256 is modelled by the fields it is computed from; _id and createdAt
\* never change once a document is saved, so they tell no two hashes apart.
ComputeIntegrityHash(booking) ==
    [status |-> booking.status, fee |-> booking.fee, deposit |-> booking.deposit]

NoHash == [status |-> "absent", fee |-> 0, deposit |-> 0]

Hashes == [status: Statuses \cup {"absent"}, fee: Nat, deposit: Nat]

VerifyIntegrity(booking) ==
    booking.hash \in {NoHash, ComputeIntegrityHash(booking)}

Absent == [listing |-> None, borrower |-> None, lender |-> None,
           period |-> [start |-> 0, end |-> 0], fee |-> 0, deposit |-> 0,
           status |-> "absent", history |-> <<>>, hash |-> NoHash]

HistoryEntries == [status: Statuses, by: Users]

Documents ==
    [listing: Listings \cup {None}, borrower: Users \cup {None},
     lender: Users \cup {None}, period: [start: Nat, end: Nat],
     fee: Nat, deposit: Nat, status: Statuses \cup {"absent"},
     history: Seq(HistoryEntries), hash: Hashes]

Points == {"idle", "create.clash", "create.insert", "create.seal",
           "create.notify", "change.save", "change.notify", "resolve.save"}

Slots == [at: Points, user: Users \cup {None}, id: BookingIds \cup {None},
          doc: Documents, to: Statuses \cup {"absent"}]

Idle == [at |-> "idle", user |-> None, id |-> None, doc |-> Absent,
         to |-> "absent"]

Notices == [to: Users, booking: BookingIds, status: Statuses]

TypeOK ==
    /\ listings \in [Listings -> ListingDocuments]
    /\ bookings \in [BookingIds -> Documents]
    /\ req \in [Requests -> Slots]
    /\ notices \subseteq Notices
    /\ alerts \subseteq BookingIds

Present(b) == bookings[b].status # "absent"

Finish(r) == req' = [req EXCEPT ![r] = Idle]

Goto(r, point) == req' = [req EXCEPT ![r].at = point]

Init ==
    /\ listings \in InitialListings
    /\ bookings = [b \in BookingIds |-> Absent]
    /\ req = [r \in Requests |-> Idle]
    /\ notices = {}
    /\ alerts = {}

-----------------------------------------------------------------------------
(* POST /bookings                                                          *)

Days(p) ==
    LET whole == (p.end - p.start + DayTicks - 1) \div DayTicks
    IN  IF whole > 1 THEN whole ELSE 1

\* The document createBooking builds: parties and amounts come from the
\* session and the listing as read, only the dates from the client.
NewBooking(user, l, p) ==
    [Absent EXCEPT
        !.listing  = l,
        !.borrower = user,
        !.lender   = listings[l].owner,
        !.period   = p,
        !.fee      = listings[l].feePerDay * Days(p),
        !.deposit  = listings[l].deposit,
        !.status   = "requested",
        !.history  = <<[status |-> "requested", by |-> user]>>]

\* mongoose draws the _id when the document is constructed, before the insert:
\* no other document has it.
Fresh(b) == ~Present(b) /\ \A r \in Requests : req[r].id # b

\* await Listing.findById; the listing must be active and someone else's.
CreateBooking(r, user, b, l, p) ==
    /\ req[r].at = "idle"
    /\ Fresh(b)
    /\ listings[l].status = "active"
    /\ listings[l].owner # user
    /\ req' = [req EXCEPT ![r] = [at |-> "create.clash", user |-> user, id |-> b,
                                 doc |-> NewBooking(user, l, p), to |-> "absent"]]
    /\ UNCHANGED <<listings, bookings, notices, alerts>>

\* Fault: a booking not approved yet does not block its dates.
ClashesUnlessRequested(doc) ==
    \E b \in BookingIds :
        /\ bookings[b].listing = doc.listing
        /\ bookings[b].status \in BlockingStatuses \ {"requested"}
        /\ bookings[b].period.start < doc.period.end
        /\ bookings[b].period.end > doc.period.start

Clashes(doc) ==
    \E b \in BookingIds :
        /\ bookings[b].listing = doc.listing
        /\ bookings[b].status \in BlockingStatuses
        /\ bookings[b].period.start < doc.period.end
        /\ bookings[b].period.end > doc.period.start

\* await Booking.findOne(clash): 409 when the dates are taken.
CreateClash(r) ==
    /\ req[r].at = "create.clash"
    /\ IF Clashes(req[r].doc) THEN Finish(r) ELSE Goto(r, "create.insert")
    /\ UNCHANGED <<listings, bookings, notices, alerts>>

\* The first save inserts the document, still without a hash.
CreateInsert(r) ==
    /\ req[r].at = "create.insert"
    /\ bookings' = [bookings EXCEPT ![req[r].id] = req[r].doc]
    /\ Goto(r, "create.seal")
    /\ UNCHANGED <<listings, notices, alerts>>

\* The second save sets the hash of the document as this handler built it.
CreateSeal(r) ==
    /\ req[r].at = "create.seal"
    /\ bookings' = [bookings EXCEPT
                      ![req[r].id].hash = ComputeIntegrityHash(req[r].doc)]
    /\ Goto(r, "create.notify")
    /\ UNCHANGED <<listings, notices, alerts>>

\* notifyUser(lender).  A recipient who opted out, and a failed insert that
\* notifyUser swallows, look like a handler that ends here (Fail).
CreateNotify(r) ==
    /\ req[r].at = "create.notify"
    /\ notices' = notices \cup {[to      |-> req[r].doc.lender,
                                 booking |-> req[r].id,
                                 status  |-> "requested"]}
    /\ Finish(r)
    /\ UNCHANGED <<listings, bookings, alerts>>

-----------------------------------------------------------------------------
(* PATCH /bookings/:id/status and POST /admin/disputes/:id/resolve         *)

Hold(r, point, user, b, to) ==
    req' = [req EXCEPT ![r] = [at |-> point, user |-> user, id |-> b,
                               doc |-> bookings[b], to |-> to]]

\* Fault: the role is checked, the current status is not.
ChangeStatusUnchecked(r, user, b) ==
    /\ req[r].at = "idle"
    /\ Present(b)
    /\ \E rule \in TRANSITIONS, from \in Statuses :
          /\ Evaluate(rule, [bookings[b] EXCEPT !.status = from], user)
          /\ Hold(r, "change.save", user, b, rule.to)
    /\ UNCHANGED <<listings, bookings, notices, alerts>>

\* await Booking.findById, then evaluate: 404, 409 and 403 leave no trace.
ChangeStatus(r, user, b) ==
    /\ req[r].at = "idle"
    /\ Present(b)
    /\ \E rule \in TRANSITIONS :
          /\ Evaluate(rule, bookings[b], user)
          /\ Hold(r, "change.save", user, b, rule.to)
    /\ UNCHANGED <<listings, bookings, notices, alerts>>

\* Fault: the hash is computed before the new status is assigned.
SaveStatusStaleHash(r) ==
    LET q == req[r]
    IN  bookings' = [bookings EXCEPT
            ![q.id].status  = q.to,
            ![q.id].history = Append(@, [status |-> q.to, by |-> q.user]),
            ![q.id].hash    = ComputeIntegrityHash(q.doc)]

\* Fault: the whole history array is written back, not pushed to.
SaveStatusWholeArray(r) ==
    LET q == req[r]
    IN  bookings' = [bookings EXCEPT
            ![q.id].status  = q.to,
            ![q.id].history = Append(q.doc.history,
                                     [status |-> q.to, by |-> q.user]),
            ![q.id].hash    = ComputeIntegrityHash([q.doc EXCEPT !.status = q.to])]

\* booking.save() after the status was assigned, the history entry pushed
\* and the hash recomputed on the document as read.
SaveStatus(r) ==
    LET q == req[r]
    IN  bookings' = [bookings EXCEPT
            ![q.id].status  = q.to,
            ![q.id].history = Append(@, [status |-> q.to, by |-> q.user]),
            ![q.id].hash    = ComputeIntegrityHash([q.doc EXCEPT !.status = q.to])]

\* Fault: an approval is saved but nobody is told.
ChangeSaveSilently(r) ==
    /\ req[r].at = "change.save"
    /\ SaveStatus(r)
    /\ IF req[r].to = "approved" THEN Finish(r) ELSE Goto(r, "change.notify")
    /\ UNCHANGED <<listings, notices, alerts>>

ChangeSave(r) ==
    /\ req[r].at = "change.save"
    /\ SaveStatus(r)
    /\ Goto(r, "change.notify")
    /\ UNCHANGED <<listings, notices, alerts>>

\* Fault: the one who acted is told, not the other party.
ActorItself(doc, user) == user

Counterparty(doc, user) ==
    IF doc.borrower = user THEN doc.lender ELSE doc.borrower

ChangeNotify(r) ==
    /\ req[r].at = "change.notify"
    /\ notices' = notices \cup {[to      |-> Counterparty(req[r].doc, req[r].user),
                                 booking |-> req[r].id,
                                 status  |-> req[r].to]}
    /\ Finish(r)
    /\ UNCHANGED <<listings, bookings, alerts>>

\* Fault: the outcome the administrator sent is stored as the status.
ResolveToOutcome(r, user, b) ==
    /\ req[r].at = "idle"
    /\ user \in Admins
    /\ bookings[b].status = "disputed"
    /\ Hold(r, "resolve.save", user, b, "refund_borrower")
    /\ UNCHANGED <<listings, bookings, notices, alerts>>

ResolveDispute(r, user, b) ==
    /\ req[r].at = "idle"
    /\ user \in Admins
    /\ bookings[b].status = "disputed"
    /\ Hold(r, "resolve.save", user, b, "resolved")
    /\ UNCHANGED <<listings, bookings, notices, alerts>>

ResolveSave(r) ==
    /\ req[r].at = "resolve.save"
    /\ SaveStatus(r)
    /\ Finish(r)
    /\ UNCHANGED <<listings, notices, alerts>>

-----------------------------------------------------------------------------
(* GET /bookings/:id: a participant reads; a hash that does not match the  *)
(* document raises an alert.  (A matching read changes nothing.)           *)

IsParticipant(booking, user) ==
    user \in Admins \cup {booking.borrower, booking.lender}

GetBooking(user, b) ==
    /\ Present(b)
    /\ IsParticipant(bookings[b], user)
    /\ ~VerifyIntegrity(bookings[b])
    /\ alerts' = alerts \cup {b}
    /\ UNCHANGED <<listings, bookings, req, notices>>

-----------------------------------------------------------------------------
(* What the payment controller does to a booking: the module Payments says *)
(* when.                                                                   *)

\* Fault: the history entry is left out of the update.
PayUnrecorded(b) ==
    [bookings EXCEPT
        ![b].status = "paid",
        ![b].hash   = ComputeIntegrityHash([bookings[b] EXCEPT !.status = "paid"])]

\* Fault: the hash is left out of the update.
PayUnsealed(b) ==
    [bookings EXCEPT
        ![b].status  = "paid",
        ![b].history = Append(@, [status |-> "paid", by |-> bookings[b].borrower])]

\* The update of applyVerifiedPayment.  Its hash is computed from the fee and
\* deposit of a snapshot, which never differ from the stored ones.
Pay(b) ==
    [bookings EXCEPT
        ![b].status  = "paid",
        ![b].history = Append(@, [status |-> "paid", by |-> bookings[b].borrower]),
        ![b].hash    = ComputeIntegrityHash([bookings[b] EXCEPT !.status = "paid"])]

\* findOneAndUpdate on {_id, status: 'approved'}: guard and update in one.
ApplyVerifiedPayment(b) ==
    /\ bookings[b].status = "approved"
    /\ bookings' = Pay(b)

PaymentVerified(b) ==
    /\ ApplyVerifiedPayment(b)
    /\ UNCHANGED <<listings, req, notices, alerts>>

HasBeen(b, status) ==
    \E i \in DOMAIN bookings[b].history : bookings[b].history[i].status = status

-----------------------------------------------------------------------------

\* An await rejects, or the process dies: the handler ends where it stands.
Fail(r) ==
    /\ Failures
    /\ req[r].at # "idle"
    /\ Finish(r)
    /\ UNCHANGED <<listings, bookings, notices, alerts>>

Receive(r) ==
    \E user \in Users, b \in BookingIds :
        \/ \E l \in Listings, p \in Periods : CreateBooking(r, user, b, l, p)
        \/ ChangeStatus(r, user, b)
        \/ ResolveDispute(r, user, b)

Continue(r) ==
    \/ CreateClash(r) \/ CreateInsert(r) \/ CreateSeal(r) \/ CreateNotify(r)
    \/ ChangeSave(r)  \/ ChangeNotify(r) \/ ResolveSave(r)

Read == \E user \in Users, b \in BookingIds : GetBooking(user, b)

PaymentStep == \E b \in BookingIds : PaymentVerified(b)

BookingsNext ==
    \/ \E r \in Requests : Receive(r) \/ Continue(r) \/ Fail(r)
    \/ Read
    \/ PaymentStep

BookingsSpec == Init /\ [][BookingsNext]_vars

-----------------------------------------------------------------------------
(* Locks.  The code takes none: LockedSpec assumes that the requests happen *)
(* to fall as if a handler held a booking from reading it to saving it, and *)
(* the dates of a listing from reading it to the insert.  Handlers for      *)
(* different bookings and listings overlap freely.                          *)

Saving == {"create.seal", "change.save", "resolve.save"}
Choosing == {"create.clash", "create.insert"}

Locked ==
    \A q, r \in Requests : q # r =>
        /\ {req[q].at, req[r].at} \subseteq Saving => req[q].id # req[r].id
        /\ {req[q].at, req[r].at} \subseteq Choosing =>
              req[q].doc.listing # req[r].doc.listing

Held(b) == \E r \in Requests : req[r].at \in Saving /\ req[r].id = b

LockedNext ==
    \/ \E r \in Requests : Receive(r) /\ Locked'
    \/ \E r \in Requests : Continue(r) \/ Fail(r)
    \/ Read
    \/ \E b \in BookingIds : ~Held(b) /\ PaymentVerified(b)

LockedSpec == Init /\ [][LockedNext]_vars

-----------------------------------------------------------------------------

\* node resumes every handler once its await settles.
Fairness == \A r \in Requests : WF_vars(Continue(r))

FairSpec == BookingsSpec /\ Fairness

=============================================================================
