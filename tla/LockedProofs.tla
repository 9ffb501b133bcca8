---------------------------- MODULE LockedProofs ----------------------------
(***************************************************************************)
(* What the booking handlers guarantee when no two hold one booking or the *)
(* dates of one listing at a time, proved for any users, listings,         *)
(* periods, bookings and number of overlapping handlers, with handlers     *)
(* dying anywhere: dates are not given twice, no record looks tampered     *)
(* with, and, where payments wait too, the handlers implement the          *)
(* lifecycle.                                                              *)
(***************************************************************************)
EXTENDS BookingProofs

-----------------------------------------------------------------------------
(* The inductive invariants                                                *)

\* The dates about to be taken are free.  The status about to be left is still
\* the stored one, unless the booking was paid since it was read.
Timely(r) ==
    /\ req[r].at = "create.insert" => ~Clashes(req[r].doc)
    /\ req[r].at \in Saving =>
          \/ bookings[req[r].id].status = req[r].doc.status
          \/ req[r].doc.status = "approved" /\ bookings[req[r].id].status = "paid"

\* Not even that happened.
UpToDate(r) ==
    req[r].at \in Saving => bookings[req[r].id].status = req[r].doc.status

HashesRight == \A b \in BookingIds : Present(b) => VerifyIntegrity(bookings[b])

\* An id without a document is as it was at the start.
NothingElsewhere == \A b \in BookingIds : ~Present(b) => bookings[b] = Absent

PapersInv ==
    /\ HashesRight
    /\ NothingElsewhere
    /\ NoDoubleBooking
    /\ NoFalseTamperAlert

\* Payments come at any moment.
LockedInv ==
    /\ BookingsInv
    /\ Locked
    /\ \A r \in Requests : Timely(r)
    /\ PapersInv

\* Payments wait too.
CurrentInv ==
    /\ LockedInv
    /\ \A r \in Requests : UpToDate(r)

-----------------------------------------------------------------------------
(* What a step does to the papers                                          *)

\* Dates stay blocked along the machine: a step into a blocking status comes
\* from a blocking status.
LEMMA BlockingContinues ==
    ASSUME NEW d, NEW to \in BlockingStatuses, NEW user,
           LegalStep(d, to, user, Admins)
    PROVE  d.status \in BlockingStatuses
BY DEF LegalStep, Evaluate, TRANSITIONS, BlockingStatuses

\* No booking comes to block dates.
NoNewDates ==
    \A b \in BookingIds :
        /\ bookings'[b].listing = bookings[b].listing
        /\ bookings'[b].period = bookings[b].period
        /\ bookings'[b].status \in BlockingStatuses =>
              bookings[b].status \in BlockingStatuses

\* A step that writes no booking and raises no alert keeps the papers.
LEMMA PapersUntouched ==
    ASSUME PapersInv, UNCHANGED <<bookings, alerts>>
    PROVE  PapersInv' /\ NoNewDates
BY DEF PapersInv, HashesRight, NothingElsewhere, NoDoubleBooking,
       NoFalseTamperAlert, Present, NoNewDates

\* A new status with its hash keeps the papers, if it blocks no dates that
\* were free: changeStatus, resolveDispute and applyVerifiedPayment.
LEMMA StepKeepsPapers ==
    ASSUME BookingsInv, PapersInv, NEW b \in BookingIds, Present(b),
           NEW to \in Statuses, NEW user \in Users, NEW hash,
           to \in BlockingStatuses => bookings[b].status \in BlockingStatuses,
           hash = ComputeIntegrityHash([bookings[b] EXCEPT !.status = to]),
           bookings' = Stepped(b, to, user, hash),
           UNCHANGED alerts
    PROVE  /\ PapersInv' /\ NoNewDates
           /\ bookings'[b].status = to
           /\ SameParties(bookings[b], bookings'[b])
           /\ \A c \in BookingIds \ {b} : bookings'[c] = bookings[c]
<1>1. bookings \in [BookingIds -> Documents] /\ bookings[b] \in Documents
  BY DEF BookingsInv, TypeOK
<1>2. \A c \in BookingIds \ {b} : bookings'[c] = bookings[c]
  BY <1>1 DEF Stepped
<1>3. /\ bookings'[b].status = to
      /\ bookings'[b].hash = hash
      /\ bookings'[b].listing = bookings[b].listing
      /\ bookings'[b].period = bookings[b].period
      /\ SameParties(bookings[b], bookings'[b])
      /\ SameAmounts(bookings[b], bookings'[b])
  BY <1>1 DEF Stepped, Documents, SameParties, SameAmounts
<1>4. to # "absent"
  BY DEF Statuses
<1>5. hash = ComputeIntegrityHash(bookings'[b])
  BY <1>1, <1>3 DEF ComputeIntegrityHash, SameAmounts, Documents
<1>6. HashesRight'
  BY <1>2, <1>3, <1>5 DEF PapersInv, HashesRight, VerifyIntegrity, Present
<1>7. NothingElsewhere'
  BY <1>2, <1>3, <1>4 DEF PapersInv, NothingElsewhere, Present
<1>8. NoNewDates
  BY <1>2, <1>3 DEF NoNewDates
<1>9. NoDoubleBooking'
  BY <1>8 DEF PapersInv, NoDoubleBooking, NoNewDates
<1>10. NoFalseTamperAlert'
  BY DEF PapersInv, NoFalseTamperAlert
<1> QED
  BY <1>2, <1>3, <1>6, <1>7, <1>8, <1>9, <1>10 DEF PapersInv

-----------------------------------------------------------------------------
(* What a step leaves to the other handlers                                *)

\* Dates found free stay free while no booking comes to block any.
LEMMA FreeDatesStay ==
    ASSUME NoNewDates, NEW q \in Requests, req'[q] = req[q],
           ~Clashes(req[q].doc)
    PROVE  ~Clashes(req[q].doc)'
BY DEF NoNewDates, Clashes

\* Nobody but the handler that holds a booking changes its status.
LEMMA OthersTimely ==
    ASSUME LockedInv, NoNewDates, NEW r \in Requests, NEW slot,
           req' = [req EXCEPT ![r] = slot],
           \A c \in BookingIds :
               bookings'[c].status # bookings[c].status =>
                   req[r].at \in Saving /\ req[r].id = c,
           Timely(r)'
    PROVE  \A q \in Requests : Timely(q)'
<1> SUFFICES ASSUME NEW q \in Requests \ {r} PROVE Timely(q)'
  OBVIOUS
<1>1. req'[q] = req[q] /\ Timely(q)
  BY DEF LockedInv, BookingsInv, TypeOK
<1>2. req[q].at = "create.insert" => ~Clashes(req[q].doc)'
  BY <1>1, FreeDatesStay DEF Timely
<1>3. req[q].at \in Saving => bookings'[req[q].id].status = bookings[req[q].id].status
  <2> SUFFICES ASSUME req[q].at \in Saving
               PROVE  bookings'[req[q].id].status = bookings[req[q].id].status
    OBVIOUS
  <2>1. req[q].id \in BookingIds
    BY DEF LockedInv, BookingsInv, SlotsInv, SlotOK, Stored, StoredOK, Saving
  <2>2. ~(req[r].at \in Saving /\ req[r].id = req[q].id)
    BY DEF LockedInv, Locked
  <2> QED
    BY <2>1, <2>2
<1> QED
  BY <1>1, <1>2, <1>3 DEF Timely

\* A handler ends, or goes on without having written.
LEMMA NothingWritten ==
    ASSUME LockedInv, NEW r \in Requests, NEW slot,
           req' = [req EXCEPT ![r] = slot],
           UNCHANGED <<bookings, alerts>>,
           Timely(r)'
    PROVE  PapersInv' /\ \A q \in Requests : Timely(q)'
<1>1. PapersInv' /\ NoNewDates
  BY PapersUntouched DEF LockedInv
<1> QED
  BY <1>1, OthersTimely

\* A handler moves on without changing what it holds.
LEMMA SlotAfterGoto ==
    ASSUME BookingsInv, NEW r \in Requests, NEW point, Goto(r, point)
    PROVE  /\ req' = [req EXCEPT ![r] = [req[r] EXCEPT !.at = point]]
           /\ req'[r].at = point
           /\ req'[r].id = req[r].id
           /\ req'[r].doc = req[r].doc
BY DEF Goto, BookingsInv, TypeOK, Slots

-----------------------------------------------------------------------------
(* Every step keeps the papers and the others in time                      *)

AllTimely == PapersInv' /\ \A q \in Requests : Timely(q)'

LEMMA HandlerEnds ==
    ASSUME LockedInv, NEW r \in Requests, Finish(r),
           UNCHANGED <<bookings, alerts>>
    PROVE  AllTimely
<1>1. req' = [req EXCEPT ![r] = Idle] /\ req'[r] = Idle
  BY DEF Finish, LockedInv, BookingsInv, TypeOK
<1>2. Timely(r)'
  BY <1>1 DEF Timely, Saving, Idle
<1> QED
  BY <1>1, <1>2, NothingWritten DEF AllTimely

\* A request arrives: the status it read is the stored one.
LEMMA ReceiveTimely ==
    ASSUME LockedInv, NEW r \in Requests, Receive(r)
    PROVE  AllTimely /\ UpToDate(r)'
<1>1. UNCHANGED <<bookings, alerts>>
  BY DEF Receive, CreateBooking, ChangeStatus, ResolveDispute
<1>2. PICK user \in Users, b \in BookingIds :
         \/ \E l \in Listings, p \in Periods : CreateBooking(r, user, b, l, p)
         \/ ChangeStatus(r, user, b)
         \/ ResolveDispute(r, user, b)
  BY DEF Receive
<1>3. CASE \E l \in Listings, p \in Periods : CreateBooking(r, user, b, l, p)
  <2>1. PICK l \in Listings, p \in Periods : CreateBooking(r, user, b, l, p)
    BY <1>3
  <2> DEFINE slot == [at |-> "create.clash", user |-> user, id |-> b,
                      doc |-> NewBooking(user, l, p), to |-> "absent"]
  <2>2. req' = [req EXCEPT ![r] = slot] /\ req'[r] = slot
    BY <2>1 DEF CreateBooking, LockedInv, BookingsInv, TypeOK
  <2>3. Timely(r)' /\ UpToDate(r)'
    BY <2>2 DEF Timely, UpToDate, Saving
  <2> QED
    BY <1>1, <2>2, <2>3, NothingWritten DEF AllTimely
<1>4. ASSUME NEW point \in {"change.save", "resolve.save"}, NEW to,
             Hold(r, point, user, b, to)
      PROVE  AllTimely /\ UpToDate(r)'
  <2> DEFINE slot == [at |-> point, user |-> user, id |-> b,
                      doc |-> bookings[b], to |-> to]
  <2>1. req' = [req EXCEPT ![r] = slot] /\ req'[r] = slot
    BY <1>4 DEF Hold, LockedInv, BookingsInv, TypeOK
  <2>2. Timely(r)' /\ UpToDate(r)'
    BY <1>1, <1>4, <2>1 DEF Timely, UpToDate
  <2> QED
    BY <1>1, <2>1, <2>2, NothingWritten DEF AllTimely
<1>5. CASE ChangeStatus(r, user, b)
  BY <1>4, <1>5 DEF ChangeStatus
<1>6. CASE ResolveDispute(r, user, b)
  BY <1>4, <1>6 DEF ResolveDispute
<1> QED
  BY <1>2, <1>3, <1>5, <1>6

\* The clash query: the dates are free, and nobody else is choosing dates of
\* this listing.
LEMMA ClashTimely ==
    ASSUME LockedInv, NEW r \in Requests, CreateClash(r)
    PROVE  AllTimely
<1>1. CASE Clashes(req[r].doc)
  BY <1>1, HandlerEnds DEF CreateClash
<1>2. CASE ~Clashes(req[r].doc)
  <2>1. Goto(r, "create.insert") /\ UNCHANGED <<bookings, alerts>>
    BY <1>2 DEF CreateClash
  <2>2. Timely(r)'
    BY <1>2, <2>1, SlotAfterGoto DEF Timely, Clashes, Saving, LockedInv
  <2> QED
    BY <2>1, <2>2, SlotAfterGoto, NothingWritten DEF LockedInv, AllTimely
<1> QED
  BY <1>1, <1>2

\* The insert gives free dates to one booking only, which has no hash yet.
\* Whoever found dates free meanwhile found them on another listing.
LEMMA InsertTimely ==
    ASSUME LockedInv, NEW r \in Requests, CreateInsert(r)
    PROVE  /\ AllTimely
           /\ bookings[req[r].id] = Absent
           /\ bookings' = [bookings EXCEPT ![req[r].id] = req[r].doc]
           /\ req' = [req EXCEPT ![r] = [req[r] EXCEPT !.at = "create.seal"]]
<1> DEFINE id == req[r].id
           doc == req[r].doc
<1>1. /\ id \in BookingIds /\ ~Present(id)
      /\ \A q \in Requests \ {r} : req[q].id # id
      /\ doc.borrower \in Users /\ doc.lender \in Users
      /\ doc.borrower # doc.lender
      /\ doc.status = "requested"
      /\ doc.hash = NoHash
  BY DEF CreateInsert, LockedInv, BookingsInv, SlotsInv, SlotOK, Creating, CreatingOK
<1>2. ~Clashes(doc)
  BY DEF CreateInsert, LockedInv, Timely
<1>3. doc \in Documents /\ bookings \in [BookingIds -> Documents]
  BY DEF LockedInv, BookingsInv, TypeOK, Slots
<1>4. bookings' = [bookings EXCEPT ![id] = doc]
  BY DEF CreateInsert
<1>5. bookings'[id] = doc /\ \A c \in BookingIds \ {id} : bookings'[c] = bookings[c]
  BY <1>1, <1>3, <1>4
<1>6. Goto(r, "create.seal") /\ req[r].at = "create.insert"
  BY DEF CreateInsert
<1>7. /\ req' = [req EXCEPT ![r] = [req[r] EXCEPT !.at = "create.seal"]]
      /\ req'[r].at = "create.seal" /\ req'[r].id = id /\ req'[r].doc = doc
      /\ \A q \in Requests \ {r} : req'[q] = req[q]
  BY <1>6, SlotAfterGoto DEF LockedInv, BookingsInv, TypeOK
<1>8. \A q \in Requests \ {r} :
         /\ req[q].at \in Saving => req[q].id \in BookingIds \ {id}
         /\ req[q].at = "create.insert" => req[q].doc.listing # doc.listing
  <2>1. \A q \in Requests : req[q].at \in Saving => req[q].id \in BookingIds
    BY DEF LockedInv, BookingsInv, SlotsInv, SlotOK, Stored, StoredOK, Saving
  <2> QED
    BY <1>1, <1>6, <2>1 DEF LockedInv, Locked, Choosing
<1> HIDE DEF id, doc
<1>9. HashesRight'
  BY <1>1, <1>5 DEF LockedInv, PapersInv, HashesRight, VerifyIntegrity, Present
<1>10. NothingElsewhere'
  BY <1>1, <1>5 DEF LockedInv, PapersInv, NothingElsewhere, Present
<1>11. NoDoubleBooking'
  <2>1. ASSUME NEW c \in BookingIds \ {id},
               bookings[c].listing = doc.listing,
               bookings[c].status \in BlockingStatuses
        PROVE  \/ bookings[c].period.end <= doc.period.start
               \/ doc.period.end <= bookings[c].period.start
    <3>1. ~(/\ bookings[c].period.start < doc.period.end
            /\ bookings[c].period.end > doc.period.start)
      BY <1>2, <2>1 DEF Clashes
    <3>2. {doc.period.start, doc.period.end, bookings[c].period.start,
           bookings[c].period.end} \subseteq Nat
      BY <1>3 DEF Documents
    <3> QED
      BY <3>1, <3>2
  <2> SUFFICES ASSUME NEW b \in BookingIds, NEW c \in BookingIds, b # c,
                      bookings'[b].listing = bookings'[c].listing,
                      bookings'[b].status \in BlockingStatuses,
                      bookings'[c].status \in BlockingStatuses
               PROVE  \/ bookings'[b].period.end <= bookings'[c].period.start
                      \/ bookings'[c].period.end <= bookings'[b].period.start
    BY DEF NoDoubleBooking
  <2>2. CASE b = id
    BY <1>5, <2>1, <2>2
  <2>3. CASE c = id
    BY <1>5, <2>1, <2>3
  <2>4. CASE b # id /\ c # id
    BY <1>5, <2>4 DEF LockedInv, PapersInv, NoDoubleBooking
  <2> QED
    BY <2>2, <2>3, <2>4
<1>12. PapersInv'
  BY <1>9, <1>10, <1>11 DEF PapersInv, LockedInv, NoFalseTamperAlert, CreateInsert
<1>13. Timely(r)'
  BY <1>5, <1>7 DEF Timely
<1>14. ASSUME NEW q \in Requests \ {r} PROVE Timely(q)'
  <2>1. Timely(q) /\ req'[q] = req[q]
    BY <1>7 DEF LockedInv
  <2>2. req[q].at = "create.insert" => ~Clashes(req[q].doc)'
    BY <1>5, <1>8, <2>1 DEF Timely, Clashes
  <2>3. req[q].at \in Saving => bookings'[req[q].id] = bookings[req[q].id]
    BY <1>5, <1>8
  <2> QED
    BY <2>1, <2>2, <2>3 DEF Timely
<1>15. bookings[id] = Absent
  BY <1>1 DEF LockedInv, PapersInv, NothingElsewhere
<1> QED
  BY <1>4, <1>7, <1>12, <1>13, <1>14, <1>15 DEF AllTimely, id, doc

\* The seal is the hash of what is stored, for nobody moved the booking on.
LEMMA SealTimely ==
    ASSUME LockedInv, NEW r \in Requests, CreateSeal(r)
    PROVE  /\ AllTimely
           /\ \A c \in BookingIds : /\ bookings'[c].status = bookings[c].status
                                   /\ SameParties(bookings[c], bookings'[c])
<1> DEFINE id == req[r].id
           hash == ComputeIntegrityHash(req[r].doc)
<1>1. /\ id \in BookingIds /\ Present(id)
      /\ SameAmounts(req[r].doc, bookings[id]) /\ req[r].doc.status = "requested"
  BY DEF CreateSeal, LockedInv, BookingsInv, SlotsInv, SlotOK, Stored, StoredOK
<1>2. bookings[id].status = req[r].doc.status
  BY <1>1 DEF CreateSeal, LockedInv, Timely, Saving
<1>3. bookings \in [BookingIds -> Documents] /\ bookings[id] \in Documents
  BY <1>1 DEF LockedInv, BookingsInv, TypeOK
<1>4. /\ bookings'[id] = [bookings[id] EXCEPT !.hash = hash]
      /\ \A c \in BookingIds \ {id} : bookings'[c] = bookings[c]
  BY <1>1, <1>3 DEF CreateSeal
<1>5. /\ bookings'[id].hash = hash
      /\ bookings'[id].status = bookings[id].status
      /\ bookings'[id].listing = bookings[id].listing
      /\ bookings'[id].period = bookings[id].period
      /\ SameParties(bookings[id], bookings'[id])
      /\ SameAmounts(bookings[id], bookings'[id])
  BY <1>3, <1>4 DEF Documents, SameParties, SameAmounts
<1>6. hash = ComputeIntegrityHash(bookings'[id])
  BY <1>1, <1>2, <1>5 DEF ComputeIntegrityHash, SameAmounts
<1>7. /\ req' = [req EXCEPT ![r] = [req[r] EXCEPT !.at = "create.notify"]]
      /\ req'[r].at = "create.notify"
  BY SlotAfterGoto DEF CreateSeal, LockedInv
<1> HIDE DEF id, hash
<1>8. \A c \in BookingIds : /\ bookings'[c].status = bookings[c].status
                            /\ bookings'[c].listing = bookings[c].listing
                            /\ bookings'[c].period = bookings[c].period
                            /\ SameParties(bookings[c], bookings'[c])
  BY <1>4, <1>5 DEF SameParties
<1>9. HashesRight'
  BY <1>1, <1>4, <1>5, <1>6 DEF LockedInv, PapersInv, HashesRight, VerifyIntegrity, Present
<1>10. NothingElsewhere'
  BY <1>1, <1>4, <1>5 DEF LockedInv, PapersInv, NothingElsewhere, Present
<1>11. NoDoubleBooking' /\ NoNewDates
  BY <1>8 DEF LockedInv, PapersInv, NoDoubleBooking, NoNewDates
<1>12. PapersInv'
  BY <1>9, <1>10, <1>11 DEF PapersInv, LockedInv, NoFalseTamperAlert, CreateSeal
<1>13. Timely(r)'
  BY <1>7 DEF Timely, Saving
<1> QED
  BY <1>7, <1>8, <1>11, <1>12, <1>13, OthersTimely DEF AllTimely

\* The save of changeStatus and of resolveDispute, from a status that is still
\* stored or was paid since.
LEMMA SaveTimely ==
    ASSUME LockedInv, NEW r \in Requests,
           req[r].at \in {"change.save", "resolve.save"},
           SaveStatus(r), UNCHANGED alerts,
           NEW slot, req' = [req EXCEPT ![r] = slot], slot.at \notin Saving \cup Choosing
    PROVE  /\ AllTimely
           /\ req[r].id \in BookingIds /\ Present(req[r].id)
           /\ req[r].to \in Statuses /\ req[r].user \in Users
           /\ LegalStep(req[r].doc, req[r].to, req[r].user, Admins)
           /\ bookings' = Stepped(req[r].id, req[r].to, req[r].user,
                 ComputeIntegrityHash([req[r].doc EXCEPT !.status = req[r].to]))
           /\ bookings'[req[r].id].status = req[r].to
           /\ SameParties(req[r].doc, bookings[req[r].id])
           /\ SameParties(bookings[req[r].id], bookings'[req[r].id])
           /\ \A c \in BookingIds \ {req[r].id} : bookings'[c] = bookings[c]
<1> DEFINE id == req[r].id
           hash == ComputeIntegrityHash([req[r].doc EXCEPT !.status = req[r].to])
<1>1. /\ id \in BookingIds /\ Present(id)
      /\ SameParties(req[r].doc, bookings[id]) /\ SameAmounts(req[r].doc, bookings[id])
      /\ req[r].to \in Statuses /\ req[r].user \in Users
      /\ LegalStep(req[r].doc, req[r].to, req[r].user, Admins)
  BY DEF LockedInv, BookingsInv, SlotsInv, SlotOK, Stored, StoredOK, SavingOK
<1>2. req[r].to \in BlockingStatuses => bookings[id].status \in BlockingStatuses
  <2>1. req[r].to \in BlockingStatuses => req[r].doc.status \in BlockingStatuses
    BY <1>1, BlockingContinues
  <2>2. \/ bookings[id].status = req[r].doc.status
        \/ bookings[id].status = "paid"
    BY DEF LockedInv, Timely, Saving
  <2> QED
    BY <2>1, <2>2 DEF BlockingStatuses
<1>3. bookings' = Stepped(id, req[r].to, req[r].user, hash)
  BY DEF SaveStatus, Stepped
<1>4. hash = ComputeIntegrityHash([bookings[id] EXCEPT !.status = req[r].to])
  <2>1. bookings[id] \in Documents /\ req[r].doc \in Documents
    BY <1>1 DEF LockedInv, BookingsInv, TypeOK, Slots
  <2> QED
    BY <1>1, <2>1 DEF ComputeIntegrityHash, SameAmounts, Documents
<1> HIDE DEF id, hash
<1>5. /\ PapersInv' /\ NoNewDates
      /\ bookings'[id].status = req[r].to
      /\ SameParties(bookings[id], bookings'[id])
      /\ \A c \in BookingIds \ {id} : bookings'[c] = bookings[c]
  BY <1>1, <1>2, <1>3, <1>4, StepKeepsPapers DEF LockedInv
<1>6. Timely(r)'
  <2>1. req'[r] = slot
    BY DEF LockedInv, BookingsInv, TypeOK
  <2> QED
    BY <2>1 DEF Timely, Choosing
<1>7. \A q \in Requests : Timely(q)'
  <2>1. \A c \in BookingIds : bookings'[c].status # bookings[c].status => c = id
    BY <1>5
  <2>2. req[r].at \in Saving
    BY DEF Saving
  <2> QED
    BY <1>5, <1>6, <2>1, <2>2, OthersTimely DEF id
<1> QED
  BY <1>1, <1>3, <1>5, <1>7 DEF AllTimely, id, hash

\* A verified payment: a handler that holds the booking read it as approved.
LEMMA PaymentTimely ==
    ASSUME LockedInv, NEW b \in BookingIds, PaymentVerified(b)
    PROVE  /\ AllTimely
           /\ Present(b) /\ bookings[b].borrower \in Users
           /\ LegalStep(bookings[b], "paid", bookings[b].borrower, Admins)
           /\ bookings' = Stepped(b, "paid", bookings[b].borrower,
                 ComputeIntegrityHash([bookings[b] EXCEPT !.status = "paid"]))
           /\ bookings'[b].status = "paid"
           /\ SameParties(bookings[b], bookings'[b])
           /\ \A c \in BookingIds \ {b} : bookings'[c] = bookings[c]
<1>1. bookings[b].status = "approved" /\ Present(b) /\ UNCHANGED <<req, alerts>>
  BY DEF PaymentVerified, ApplyVerifiedPayment, Present
<1> DEFINE user == bookings[b].borrower
           hash == ComputeIntegrityHash([bookings[b] EXCEPT !.status = "paid"])
<1>2. user \in Users /\ "paid" \in Statuses /\ bookings[b].status \in BlockingStatuses
  BY <1>1 DEF LockedInv, BookingsInv, DocumentsInv, Statuses, BlockingStatuses
<1>3. LegalStep(bookings[b], "paid", user, Admins)
  BY <1>1 DEF LegalStep
<1>4. bookings' = Stepped(b, "paid", user, hash)
  BY DEF PaymentVerified, ApplyVerifiedPayment, Pay, Stepped
<1> HIDE DEF user, hash
<1>5. hash = ComputeIntegrityHash([bookings[b] EXCEPT !.status = "paid"])
  BY DEF hash
<1>6. /\ PapersInv' /\ NoNewDates
      /\ bookings'[b].status = "paid"
      /\ SameParties(bookings[b], bookings'[b])
      /\ \A c \in BookingIds \ {b} : bookings'[c] = bookings[c]
  BY <1>1, <1>2, <1>4, <1>5, StepKeepsPapers DEF LockedInv
<1>7. ASSUME NEW q \in Requests PROVE Timely(q)'
  <2>1. Timely(q) /\ req'[q] = req[q]
    BY <1>1 DEF LockedInv
  <2>2. req[q].at = "create.insert" => ~Clashes(req[q].doc)'
    BY <1>6, <2>1, FreeDatesStay DEF Timely
  <2>3. req[q].at \in Saving => req[q].id \in BookingIds
    BY DEF LockedInv, BookingsInv, SlotsInv, SlotOK, Stored, StoredOK, Saving
  <2>4. CASE req[q].id = b
    BY <1>1, <1>6, <2>1, <2>2, <2>4 DEF Timely
  <2>5. CASE req[q].id # b
    BY <1>6, <2>1, <2>2, <2>3, <2>5 DEF Timely
  <2> QED
    BY <2>4, <2>5
<1> QED
  BY <1>1, <1>2, <1>3, <1>4, <1>6, <1>7 DEF AllTimely, user, hash

\* Every await of a handler.
LEMMA ContinueTimely ==
    ASSUME LockedInv, NEW r \in Requests, Continue(r)
    PROVE  AllTimely
<1>1. CASE CreateNotify(r) \/ ChangeNotify(r)
  BY <1>1, HandlerEnds DEF CreateNotify, ChangeNotify
<1>2. CASE ChangeSave(r)
  <2>1. /\ req' = [req EXCEPT ![r] = [req[r] EXCEPT !.at = "change.notify"]]
        /\ [req[r] EXCEPT !.at = "change.notify"].at = "change.notify"
    BY <1>2, SlotAfterGoto DEF ChangeSave, LockedInv, BookingsInv, TypeOK, Slots
  <2> QED
    BY <1>2, <2>1, SaveTimely DEF ChangeSave, Saving, Choosing
<1>3. CASE ResolveSave(r)
  <2>1. req' = [req EXCEPT ![r] = Idle] /\ Idle.at = "idle"
    BY <1>3 DEF ResolveSave, Finish, Idle
  <2> QED
    BY <1>3, <2>1, SaveTimely DEF ResolveSave, Saving, Choosing
<1> QED
  BY <1>1, <1>2, <1>3, ClashTimely, InsertTimely, SealTimely DEF Continue

\* What the handlers rely on, they keep from each other.
LEMMA LockedStep == LockedInv /\ BookingsNext /\ Locked' => LockedInv'
<1> SUFFICES ASSUME LockedInv, BookingsNext, Locked' PROVE AllTimely
  BY NextKeeps DEF LockedInv, AllTimely
<1>1. ~Read
  BY DEF Read, GetBooking, LockedInv, PapersInv, HashesRight
<1>2. ASSUME NEW r \in Requests, Fail(r) PROVE AllTimely
  BY <1>2, HandlerEnds DEF Fail
<1> QED
  BY <1>1, <1>2, ReceiveTimely, ContinueTimely, PaymentTimely DEF BookingsNext, PaymentStep

LEMMA LockedStutter == LockedInv /\ UNCHANGED vars => LockedInv'
<1> SUFFICES ASSUME LockedInv, UNCHANGED vars PROVE LockedInv'
  OBVIOUS
<1>1. PapersInv' /\ BookingsInv'
  BY PapersUntouched, StutterKeeps DEF LockedInv, vars
<1>2. Locked' /\ \A r \in Requests : Timely(r)'
  BY DEF LockedInv, Locked, Timely, Clashes, vars
<1> QED
  BY <1>1, <1>2 DEF LockedInv

LEMMA LockedInit == Init => LockedInv /\ CurrentInv
<1> SUFFICES ASSUME Init PROVE LockedInv /\ CurrentInv
  OBVIOUS
<1>1. \A b \in BookingIds : bookings[b] = Absent /\ ~Present(b)
  BY DEF Init, Present, Absent
<1>2. HashesRight /\ NothingElsewhere
  BY <1>1 DEF HashesRight, NothingElsewhere
<1>3. NoDoubleBooking /\ NoFalseTamperAlert
  BY <1>1 DEF Init, NoDoubleBooking, NoFalseTamperAlert, BlockingStatuses, Absent
<1>4. Locked /\ \A r \in Requests : Timely(r) /\ UpToDate(r)
  BY DEF Init, Locked, Timely, UpToDate, Saving, Choosing, Idle
<1> QED
  BY <1>2, <1>3, <1>4, InitKeeps DEF LockedInv, PapersInv, CurrentInv

\* While no two handlers hold one booking or the dates of one listing, the
\* invariant holds, wherever handlers die and whenever payments come.
THEOREM LockedHandlersAreSafe == BookingsSpec /\ []Locked => []LockedInv
<1>1. LockedInv /\ [BookingsNext]_vars /\ Locked' => LockedInv'
  BY LockedStep, LockedStutter
<1>2. Init => LockedInv
  BY LockedInit
<1> QED
  BY <1>1, <1>2, PTL DEF BookingsSpec

\* The clash query keeps the dates of a listing apart, whatever the periods
\* and however many bookings there are, while handlers for one listing do not
\* overlap from the query to the insert, and those for one booking do not
\* overlap from the read to the save (createBooking, changeStatus,
\* resolveDispute).
THEOREM DatesAreGivenOnce == BookingsSpec /\ []Locked => []NoDoubleBooking
<1>1. LockedInv => NoDoubleBooking
  BY DEF LockedInv, PapersInv
<1> QED
  BY <1>1, LockedHandlersAreSafe, PTL

\* A record no one touched outside the application never looks tampered with
\* under the same locks, also when createBooking dies between its two saves or
\* a payment comes between the two ends of another save.
THEOREM NobodyIsAccused == BookingsSpec /\ []Locked => []NoFalseTamperAlert
<1>1. LockedInv => NoFalseTamperAlert
  BY DEF LockedInv, PapersInv
<1> QED
  BY <1>1, LockedHandlersAreSafe, PTL

-----------------------------------------------------------------------------
(* Payments wait too: what is seen from outside                            *)

\* A stored booking takes a legal step, its parties staying.
Moves(b) ==
    /\ Present(b)
    /\ \E to \in Statuses, user \in Users :
          /\ LegalStep(bookings[b], to, user, Admins)
          /\ bookings'[b].status = to
    /\ SameParties(bookings[b], bookings'[b])

\* A booking is created between two people.
Appears(b) ==
    /\ bookings[b] = Absent
    /\ bookings'[b].status = "requested"
    /\ bookings'[b].borrower \in Users
    /\ bookings'[b].lender \in Users
    /\ bookings'[b].borrower # bookings'[b].lender

\* What a step of the handlers may be, seen from outside.
Outward ==
    \/ Life' = Life
    \/ \E b \in BookingIds :
          /\ Moves(b) \/ Appears(b)
          /\ \A c \in BookingIds \ {b} : bookings'[c] = bookings[c]

\* What the others read stays what is stored.
LEMMA OthersUpToDate ==
    ASSUME CurrentInv, NEW r \in Requests, NEW slot,
           req' = [req EXCEPT ![r] = slot],
           \A c \in BookingIds :
               bookings'[c].status # bookings[c].status =>
                   \A q \in Requests \ {r} : req[q].at \in Saving => req[q].id # c,
           UpToDate(r)'
    PROVE  \A q \in Requests : UpToDate(q)'
<1> SUFFICES ASSUME NEW q \in Requests \ {r} PROVE UpToDate(q)'
  OBVIOUS
<1>1. req'[q] = req[q] /\ UpToDate(q)
  BY DEF CurrentInv, LockedInv, BookingsInv, TypeOK
<1>2. req[q].at \in Saving => req[q].id \in BookingIds
  BY DEF CurrentInv, LockedInv, BookingsInv, SlotsInv, SlotOK, Stored, StoredOK, Saving
<1> QED
  BY <1>1, <1>2 DEF UpToDate

\* A step that moves no booking.
LEMMA NothingMoves ==
    ASSUME CurrentInv, NEW r \in Requests, NEW slot,
           req' = [req EXCEPT ![r] = slot],
           \A c \in BookingIds : /\ bookings'[c].status = bookings[c].status
                                 /\ SameParties(bookings[c], bookings'[c]),
           UpToDate(r)'
    PROVE  Outward /\ \A q \in Requests : UpToDate(q)'
<1>1. Life' = Life
  BY DEF Life, SameParties
<1> QED
  BY <1>1, OthersUpToDate DEF Outward

LEMMA StepEnds ==
    ASSUME CurrentInv, NEW r \in Requests, NEW slot,
           req' = [req EXCEPT ![r] = slot], slot.at \notin Saving,
           UNCHANGED bookings
    PROVE  Outward /\ \A q \in Requests : UpToDate(q)'
<1>1. req'[r] = slot
  BY DEF CurrentInv, LockedInv, BookingsInv, TypeOK
<1>2. UpToDate(r)'
  BY <1>1 DEF UpToDate
<1> QED
  BY <1>2, NothingMoves DEF SameParties

\* The save of changeStatus and of resolveDispute: a step legal from the stored
\* status.
LEMMA SaveMoves ==
    ASSUME CurrentInv, NEW r \in Requests,
           req[r].at \in {"change.save", "resolve.save"},
           SaveStatus(r), UNCHANGED alerts,
           NEW slot, req' = [req EXCEPT ![r] = slot], slot.at \notin Saving \cup Choosing
    PROVE  Outward /\ \A q \in Requests : UpToDate(q)'
<1>1. /\ req[r].id \in BookingIds /\ Present(req[r].id)
      /\ req[r].to \in Statuses /\ req[r].user \in Users
      /\ LegalStep(req[r].doc, req[r].to, req[r].user, Admins)
      /\ bookings'[req[r].id].status = req[r].to
      /\ SameParties(req[r].doc, bookings[req[r].id])
      /\ SameParties(bookings[req[r].id], bookings'[req[r].id])
      /\ \A c \in BookingIds \ {req[r].id} : bookings'[c] = bookings[c]
  BY SaveTimely DEF CurrentInv
<1>2. req[r].at \in Saving /\ bookings[req[r].id].status = req[r].doc.status
  BY DEF CurrentInv, UpToDate, Saving
<1>3. LegalStep(bookings[req[r].id], req[r].to, req[r].user, Admins)
  BY <1>1, <1>2, LegalStepDepends
<1>4. Moves(req[r].id)
  BY <1>1, <1>3 DEF Moves
<1>5. Outward
  BY <1>1, <1>4 DEF Outward
<1>6. UpToDate(r)'
  <2>1. req'[r] = slot
    BY DEF CurrentInv, LockedInv, BookingsInv, TypeOK
  <2> QED
    BY <2>1 DEF UpToDate
<1>7. \A q \in Requests \ {r} : req[q].at \in Saving => req[q].id # req[r].id
  BY <1>2 DEF CurrentInv, LockedInv, Locked
<1>8. \A c \in BookingIds :
         bookings'[c].status # bookings[c].status =>
             \A q \in Requests \ {r} : req[q].at \in Saving => req[q].id # c
  BY <1>1, <1>7
<1> QED
  BY <1>5, <1>6, <1>8, OthersUpToDate

\* The insert: a booking appears that nobody else has heard of.
LEMMA InsertAppears ==
    ASSUME CurrentInv, NEW r \in Requests, CreateInsert(r)
    PROVE  Outward /\ \A q \in Requests : UpToDate(q)'
<1> PICK id, doc : id = req[r].id /\ doc = req[r].doc
  OBVIOUS
<1>1. /\ id \in BookingIds
      /\ \A q \in Requests \ {r} : req[q].id # id
      /\ doc.borrower \in Users /\ doc.lender \in Users
      /\ doc.borrower # doc.lender
      /\ doc.status = "requested"
  BY DEF CreateInsert, CurrentInv, LockedInv, BookingsInv, SlotsInv, SlotOK, Creating, CreatingOK
<1>2. /\ bookings[id] = Absent
      /\ bookings' = [bookings EXCEPT ![id] = doc]
      /\ req' = [req EXCEPT ![r] = [req[r] EXCEPT !.at = "create.seal"]]
  BY InsertTimely DEF CurrentInv
<1>3. bookings'[id] = doc /\ \A c \in BookingIds \ {id} : bookings'[c] = bookings[c]
  BY <1>1, <1>2 DEF CurrentInv, LockedInv, BookingsInv, TypeOK
<1>4. Outward
  BY <1>1, <1>2, <1>3 DEF Outward, Appears
<1>5. UpToDate(r)'
  <2>1. req'[r].id = id /\ req'[r].doc = doc
    BY SlotAfterGoto DEF CreateInsert, CurrentInv, LockedInv
  <2> QED
    BY <1>3, <2>1 DEF UpToDate
<1>6. \A c \in BookingIds :
         bookings'[c].status # bookings[c].status =>
             \A q \in Requests \ {r} : req[q].at \in Saving => req[q].id # c
  BY <1>1, <1>3
<1> QED
  BY <1>2, <1>4, <1>5, <1>6, OthersUpToDate

\* Every await of a handler.
LEMMA ContinueMoves ==
    ASSUME CurrentInv, NEW r \in Requests, Continue(r)
    PROVE  Outward /\ \A q \in Requests : UpToDate(q)'
<1>1. Idle.at \notin Saving \cup Choosing
  BY DEF Idle, Saving, Choosing
<1>2. Finish(r) /\ UNCHANGED bookings => Outward /\ \A q \in Requests : UpToDate(q)'
  BY <1>1, StepEnds DEF Finish
<1>3. ASSUME NEW point, Goto(r, point)
      PROVE  /\ req' = [req EXCEPT ![r] = [req[r] EXCEPT !.at = point]]
             /\ [req[r] EXCEPT !.at = point].at = point
             /\ req'[r].at = point
  BY <1>3, SlotAfterGoto DEF CurrentInv, LockedInv, BookingsInv, TypeOK, Slots
<1>4. CASE CreateNotify(r) \/ ChangeNotify(r)
  BY <1>2, <1>4 DEF CreateNotify, ChangeNotify
<1>5. CASE CreateClash(r)
  <2>1. Goto(r, "create.insert") => Outward /\ \A q \in Requests : UpToDate(q)'
    BY <1>3, <1>5, StepEnds DEF CreateClash, Saving
  <2> QED
    BY <1>2, <1>5, <2>1 DEF CreateClash
<1>6. CASE CreateSeal(r)
  <2>1. \A c \in BookingIds : /\ bookings'[c].status = bookings[c].status
                              /\ SameParties(bookings[c], bookings'[c])
    BY <1>6, SealTimely DEF CurrentInv
  <2>2. Goto(r, "create.notify")
    BY <1>6 DEF CreateSeal
  <2>3. UpToDate(r)'
    BY <1>3, <2>2 DEF UpToDate, Saving
  <2> QED
    BY <1>3, <2>1, <2>2, <2>3, NothingMoves
<1>7. CASE ChangeSave(r)
  BY <1>3, <1>7, SaveMoves DEF ChangeSave, Saving, Choosing
<1>8. CASE ResolveSave(r)
  BY <1>1, <1>8, SaveMoves DEF ResolveSave, Finish
<1> QED
  BY <1>4, <1>5, <1>6, <1>7, <1>8, InsertAppears DEF Continue

\* A payment of a booking nobody holds.
LEMMA PaymentMoves ==
    ASSUME CurrentInv, NEW b \in BookingIds, PaymentVerified(b), ~Held(b)
    PROVE  Outward /\ \A q \in Requests : UpToDate(q)'
<1>1. /\ Present(b) /\ bookings[b].borrower \in Users
      /\ LegalStep(bookings[b], "paid", bookings[b].borrower, Admins)
      /\ bookings'[b].status = "paid"
      /\ SameParties(bookings[b], bookings'[b])
      /\ \A c \in BookingIds \ {b} : bookings'[c] = bookings[c]
  BY PaymentTimely DEF CurrentInv
<1>2. Moves(b)
  BY <1>1 DEF Moves, Statuses
<1>3. \A q \in Requests : req[q].at \in Saving => req[q].id \in BookingIds \ {b}
  BY DEF Held, CurrentInv, LockedInv, BookingsInv, SlotsInv, SlotOK, Stored, StoredOK, Saving
<1>4. \A q \in Requests : UpToDate(q)'
  BY <1>1, <1>3 DEF CurrentInv, UpToDate, PaymentVerified
<1> QED
  BY <1>1, <1>2, <1>4 DEF Outward

-----------------------------------------------------------------------------
(* Locks are taken on arrival only                                         *)

\* A handler that goes on holds nothing another one holds.
LEMMA LocksStay ==
    ASSUME CurrentInv, NEW r \in Requests, NEW slot,
           req' = [req EXCEPT ![r] = slot],
           slot.at \in Choosing =>
               req[r].at \in Choosing /\ slot.doc.listing = req[r].doc.listing,
           slot.at \in Saving =>
               \A q \in Requests \ {r} : req[q].id # slot.id
    PROVE  Locked'
<1>1. /\ req'[r] = slot /\ \A q \in Requests \ {r} : req'[q] = req[q]
      /\ Locked
  BY DEF CurrentInv, LockedInv, BookingsInv, TypeOK
<1> SUFFICES ASSUME NEW p \in Requests, NEW q \in Requests, p # q
             PROVE  /\ {req'[p].at, req'[q].at} \subseteq Saving => req'[p].id # req'[q].id
                    /\ {req'[p].at, req'[q].at} \subseteq Choosing =>
                          req'[p].doc.listing # req'[q].doc.listing
  BY DEF Locked
<1>2. CASE p = r
  BY <1>1, <1>2 DEF Locked
<1>3. CASE q = r
  BY <1>1, <1>3 DEF Locked
<1>4. CASE p # r /\ q # r
  BY <1>1, <1>4 DEF Locked
<1> QED
  BY <1>2, <1>3, <1>4

LEMMA ContinueLocked ==
    ASSUME CurrentInv, NEW r \in Requests, Continue(r) \/ Fail(r)
    PROVE  Locked'
<1>1. Idle.at \notin Saving \cup Choosing
  BY DEF Idle, Saving, Choosing
<1>2. Finish(r) => Locked'
  BY <1>1, LocksStay DEF Finish
<1>3. ASSUME NEW point, Goto(r, point)
      PROVE  \E slot : /\ req' = [req EXCEPT ![r] = slot]
                       /\ slot.at = point
                       /\ slot.id = req[r].id /\ slot.doc = req[r].doc
  <2>1. /\ req' = [req EXCEPT ![r] = [req[r] EXCEPT !.at = point]]
        /\ [req[r] EXCEPT !.at = point].at = point
        /\ [req[r] EXCEPT !.at = point].id = req[r].id
        /\ [req[r] EXCEPT !.at = point].doc = req[r].doc
    BY <1>3 DEF Goto, CurrentInv, LockedInv, BookingsInv, TypeOK, Slots
  <2> QED
    BY <2>1
<1>4. ASSUME NEW point, Goto(r, point),
             point \in Choosing => req[r].at \in Choosing,
             point \in Saving => \A q \in Requests \ {r} : req[q].id # req[r].id
      PROVE  Locked'
  <2>1. PICK slot : /\ req' = [req EXCEPT ![r] = slot]
                    /\ slot.at = point
                    /\ slot.id = req[r].id /\ slot.doc = req[r].doc
    BY <1>3, <1>4
  <2> QED
    BY <1>4, <2>1, LocksStay
<1>5. CASE CreateClash(r)
  BY <1>2, <1>4, <1>5 DEF CreateClash, Saving, Choosing
<1>6. CASE CreateInsert(r)
  <2>1. \A q \in Requests \ {r} : req[q].id # req[r].id
    BY <1>6 DEF CreateInsert, CurrentInv, LockedInv, BookingsInv, SlotsInv, SlotOK, Creating,
                CreatingOK
  <2> QED
    BY <1>4, <1>6, <2>1 DEF CreateInsert, Choosing
<1>7. CASE CreateSeal(r) \/ ChangeSave(r)
  BY <1>4, <1>7 DEF CreateSeal, ChangeSave, Saving, Choosing
<1> QED
  BY <1>2, <1>5, <1>6, <1>7 DEF Continue, Fail, CreateNotify, ChangeNotify, ResolveSave

-----------------------------------------------------------------------------
(* The theorems on LockedSpec                                              *)

LEMMA LockedIsBookings == LockedNext => BookingsNext
BY DEF LockedNext, BookingsNext, PaymentStep

\* Every step keeps the invariant, and is a step of the lifecycle or none, seen
\* from outside.
LEMMA CurrentStep == CurrentInv /\ LockedNext => CurrentInv' /\ Outward
<1> SUFFICES ASSUME CurrentInv, LockedNext PROVE CurrentInv' /\ Outward
  OBVIOUS
<1>1. CASE \E r \in Requests : Receive(r) /\ Locked'
  <2>1. PICK r \in Requests : Receive(r) /\ Locked'
    BY <1>1
  <2>2. UNCHANGED bookings /\ UpToDate(r)'
    BY <2>1, ReceiveTimely DEF Receive, CreateBooking, ChangeStatus, ResolveDispute, CurrentInv
  <2>3. \E slot : req' = [req EXCEPT ![r] = slot]
    BY <2>1 DEF Receive, CreateBooking, ChangeStatus, ResolveDispute, Hold
  <2>4. Outward /\ \A q \in Requests : UpToDate(q)'
    BY <2>2, <2>3, NothingMoves DEF SameParties
  <2> QED
    BY <2>1, <2>4, LockedStep, LockedIsBookings DEF CurrentInv
<1>2. ASSUME NEW r \in Requests, Continue(r) \/ Fail(r) PROVE CurrentInv' /\ Outward
  <2>1. Idle.at \notin Saving
    BY DEF Idle, Saving
  <2>2. Fail(r) => Outward /\ \A q \in Requests : UpToDate(q)'
    BY <2>1, StepEnds DEF Fail, Finish
  <2> QED
    BY <1>2, <2>2, ContinueMoves, ContinueLocked, LockedStep, LockedIsBookings DEF CurrentInv
<1>3. ~Read
  BY DEF Read, GetBooking, CurrentInv, LockedInv, PapersInv, HashesRight
<1>4. ASSUME NEW b \in BookingIds, ~Held(b), PaymentVerified(b) PROVE CurrentInv' /\ Outward
  <2>1. Locked'
    BY <1>4 DEF PaymentVerified, CurrentInv, LockedInv, Locked
  <2> QED
    BY <1>4, <2>1, PaymentMoves, LockedStep, LockedIsBookings DEF CurrentInv
<1> QED
  BY <1>1, <1>2, <1>3, <1>4 DEF LockedNext

LEMMA CurrentStutter == CurrentInv /\ UNCHANGED vars => CurrentInv' /\ Outward
<1> SUFFICES ASSUME CurrentInv, UNCHANGED vars PROVE CurrentInv' /\ Outward
  OBVIOUS
<1>1. LockedInv'
  BY LockedStutter DEF CurrentInv
<1>2. \A r \in Requests : UpToDate(r)'
  BY DEF CurrentInv, UpToDate, vars
<1>3. Outward
  BY DEF Outward, Life, vars
<1> QED
  BY <1>1, <1>2, <1>3 DEF CurrentInv

\* While requests and payments hold each booking and the dates of each listing
\* one at a time, the invariant holds, wherever handlers die.
THEOREM HandlersAreCurrent == LockedSpec => []CurrentInv
<1>1. CurrentInv /\ [LockedNext]_vars => CurrentInv'
  BY CurrentStep, CurrentStutter
<1>2. Init => CurrentInv
  BY LockedInit
<1> QED
  BY <1>1, <1>2, PTL DEF LockedSpec

\* It is enough that an arriving request waits for its locks: no handler that
\* goes on, and no booking that appears, breaks them.
THEOREM LocksAreKept == LockedSpec => BookingsSpec /\ []Locked
<1>1. [LockedNext]_vars => [BookingsNext]_vars
  BY LockedIsBookings
<1>2. CurrentInv => Locked
  BY DEF CurrentInv, LockedInv
<1> QED
  BY <1>1, <1>2, HandlersAreCurrent, PTL DEF LockedSpec, BookingsSpec

\* What a booking was, it follows from what it is.
LEMMA StatusBefore ==
    ASSUME Outward, NEW b \in BookingIds, Present(b)
    PROVE  \/ bookings'[b].status = bookings[b].status
           \/ \E user \in Users : LegalStep(bookings[b], bookings'[b].status, user, Admins)
<1>1. CASE Life' = Life
  <2>1. Life'[b].status = Life[b].status
    BY <1>1
  <2> QED
    BY <2>1 DEF Life
<1>2. CASE \E c \in BookingIds :
              /\ Moves(c) \/ Appears(c)
              /\ \A d \in BookingIds \ {c} : bookings'[d] = bookings[d]
  BY <1>2 DEF Moves, Appears, Present, Absent
<1> QED
  BY <1>1, <1>2 DEF Outward

\* A stored status only changes along a legal transition, made by someone it
\* belongs to (evaluate, resolveDispute, applyVerifiedPayment).
THEOREM StatusesMoveLegally == LockedSpec => StatusMovesLegally
<1> DEFINE A == \A b \in BookingIds :
                   Present(b) /\ bookings'[b].status # bookings[b].status =>
                      \E user \in Users :
                         LegalStep(bookings[b], bookings'[b].status, user, Admins)
<1>1. CurrentInv /\ [LockedNext]_vars => [A]_vars
  BY CurrentStep, StatusBefore
<1>2. StatusMovesLegally <=> [][A]_vars
  BY DEF StatusMovesLegally
<1> HIDE DEF A
<1> QED
  BY <1>1, <1>2, HandlersAreCurrent, PTL DEF LockedSpec

\* No booking is born at the start.
LEMMA LifeStarts == Init => Lifecycle!LifeInit
BY DEF Life, Init, Absent, Lifecycle!Unborn, Lifecycle!LifeInit

\* Seen from outside, a step moves one booking along the machine, or creates one
\* between two people, or nothing.
LEMMA OutwardIsLife == Outward => [Lifecycle!LifeNext]_Life
<1> SUFFICES ASSUME NEW b \in BookingIds, Moves(b) \/ Appears(b),
                    \A c \in BookingIds \ {b} : bookings'[c] = bookings[c]
             PROVE  Lifecycle!LifeNext
  BY DEF Outward
<1>1. \A c \in BookingIds : Life[c] = [status   |-> bookings[c].status,
                                       borrower |-> bookings[c].borrower,
                                       lender   |-> bookings[c].lender]
  BY DEF Life
<1>2. CASE Moves(b)
  <2>1. PICK to \in Statuses, user \in Users :
           /\ LegalStep(bookings[b], to, user, Admins)
           /\ bookings'[b].status = to
    BY <1>2 DEF Moves
  <2>2. SameParties(bookings[b], Life[b]) /\ Life[b].status = bookings[b].status
    BY DEF SameParties, Life
  <2>3. LegalStep(Life[b], to, user, Admins)
    BY <2>1, <2>2, LegalStepDepends
  <2>4. Lifecycle!LegalStep(Life[b], to, user, Admins)
    BY <2>3 DEF LegalStep, Evaluate, TRANSITIONS, Lifecycle!LegalStep,
                Lifecycle!Evaluate, Lifecycle!TRANSITIONS
  <2>5. to \in Lifecycle!Statuses
    BY DEF Statuses, Lifecycle!Statuses
  <2>6. Life' = [Life EXCEPT ![b].status = to]
    BY <1>1, <1>2, <2>1 DEF Life, Moves, SameParties
  <2> QED
    BY <2>4, <2>5, <2>6 DEF Lifecycle!LifeNext, Lifecycle!Advance
<1>3. CASE Appears(b)
  <2>1. Life[b] = Lifecycle!Unborn
    BY <1>3 DEF Life, Appears, Absent, Lifecycle!Unborn
  <2>2. Life' = [Life EXCEPT ![b] = [status   |-> "requested",
                                     borrower |-> bookings'[b].borrower,
                                     lender   |-> bookings'[b].lender]]
    BY <1>3 DEF Life, Appears
  <2> QED
    BY <1>3, <2>1, <2>2 DEF Appears, Lifecycle!LifeNext, Lifecycle!Create
<1> QED
  BY <1>2, <1>3

\* Seen from outside, the handlers create a booking between two people and
\* move it along the machine, one atomic step at a time: the awaits between
\* reading, deciding and saving cannot be seen.
THEOREM HandlersImplementLifecycle == LockedSpec => ImplementsLifecycle
<1>1. CurrentInv /\ [LockedNext]_vars => [Lifecycle!LifeNext]_Life
  BY OutwardIsLife, CurrentStep, CurrentStutter
<1> QED
  BY <1>1, LifeStarts, HandlersAreCurrent, PTL
  DEF LockedSpec, ImplementsLifecycle, Lifecycle!LifeSpec

=============================================================================
