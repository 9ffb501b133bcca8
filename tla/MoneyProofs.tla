----------------------------- MODULE MoneyProofs -----------------------------
(***************************************************************************)
(* What is proved of payments while handlers for one booking do not get    *)
(* into each other's way: while no two changes of one booking's status     *)
(* overlap, it is paid once and no alert is raised for a correct payment;  *)
(* while payment handlers do not overlap on one booking's payment fields   *)
(* either, it has one open payment and no payment is lost.  Handlers for   *)
(* different bookings, and of the two kinds, overlap freely, and any of    *)
(* them may die anywhere.                                                  *)
(***************************************************************************)
EXTENDS PaymentProofs, FiniteSetTheorems

\* From reading a status to saving the next one.
Changing == {"change.save", "resolve.save"}

ChangesApart ==
    \A q, r \in Requests :
        q # r /\ {req[q].at, req[r].at} \subseteq Changing => req[q].id # req[r].id

\* From reading a pidx to the last step that relies on it.
Recording == {"pay.lookup", "cb.lookup", "pay.void", "pay.clear", "cb.clear",
              "pay.mint", "pay.save", "pay.hand"}

PaymentsApart ==
    \A c, d \in Calls :
        c # d /\ {call[c].at, call[d].at} \subseteq Recording => call[c].id # call[d].id

\* One handler of a kind is apart, and so are those that keep to the locks.
LEMMA OneHandlerIsApart ==
    /\ (\A q, r \in Requests : q = r) => ChangesApart
    /\ (\A c, d \in Calls : c = d) => PaymentsApart
    /\ Locked => ChangesApart
BY DEF ChangesApart, PaymentsApart, Locked, Changing, Saving

-----------------------------------------------------------------------------
(* Paid once: the inductive invariant                                      *)

PaidAt(b, i) == i \in DOMAIN bookings[b].history
                /\ bookings[b].history[i].status = "paid"

\* Nothing leads back to where a booking could be paid again.
PaidForGood(b) ==
    /\ HasBeen(b, "paid") => bookings[b].status \notin {"requested", "approved"}
    /\ \A i, j : PaidAt(b, i) /\ PaidAt(b, j) => i = j

\* A handler about to approve has the only hand on its booking: no payment
\* can be applied to it, for it is not approved yet.
ApprovesInTime(r) ==
    req[r].at \in {"change.save", "resolve.save"} /\ req[r].to = "approved" =>
        bookings[req[r].id].status = "requested"

OnceInv ==
    /\ BookingsInv
    /\ \A b \in BookingIds : PaidForGood(b)
    /\ \A r \in Requests : ApprovesInTime(r)

\* No booking was written and no handler has come to a save.
LEMMA OnceUntouched ==
    ASSUME OnceInv, UNCHANGED bookings,
           \A r \in Requests : req'[r] = req[r]
              \/ req'[r].at \notin {"change.save", "resolve.save"}
              \/ req'[r].to # "approved"
              \/ bookings[req'[r].id].status = "requested"
    PROVE  /\ \A b \in BookingIds : PaidForGood(b)'
           /\ \A r \in Requests : ApprovesInTime(r)'
BY DEF OnceInv, PaidForGood, PaidAt, HasBeen, ApprovesInTime

\* A status other than 'paid' is saved: no second payment, and 'approved' only
\* where none was made.
LEMMA OnceStepped ==
    ASSUME OnceInv, NEW b \in BookingIds, Present(b),
           NEW to \in Statuses, NEW user \in Users, NEW hash,
           to # "requested",
           to = "approved" => bookings[b].status = "requested",
           to = "paid" => bookings[b].status = "approved",
           bookings' = Stepped(b, to, user, hash)
    PROVE  \A c \in BookingIds : PaidForGood(c)'
<1> DEFINE h == bookings[b].history
           e == [status |-> to, by |-> user]
<1>1. /\ bookings \in [BookingIds -> Documents] /\ bookings[b] \in Documents
      /\ h \in Seq(HistoryEntries) /\ e \in HistoryEntries
  BY DEF OnceInv, BookingsInv, TypeOK, Documents, HistoryEntries
<1>2. /\ bookings'[b].status = to
      /\ bookings'[b].history = Append(h, e)
      /\ \A c \in BookingIds \ {b} : bookings'[c] = bookings[c]
  BY <1>1 DEF Stepped, Documents
<1>3. /\ DOMAIN Append(h, e) = 1..(Len(h) + 1)
      /\ \A i \in 1..Len(h) : Append(h, e)[i] = h[i]
      /\ Append(h, e)[Len(h) + 1] = e
      /\ Len(h) \in Nat /\ DOMAIN h = 1..Len(h)
  BY <1>1, AppendEntry
<1>4. PaidForGood(b)
  BY DEF OnceInv
<1> HIDE DEF h, e
<1>5. \A i : PaidAt(b, i)' => PaidAt(b, i) \/ (to = "paid" /\ i = Len(h) + 1)
  <2> SUFFICES ASSUME NEW i, PaidAt(b, i)'
               PROVE  PaidAt(b, i) \/ (to = "paid" /\ i = Len(h) + 1)
    OBVIOUS
  <2>1. i \in 1..(Len(h) + 1) /\ Append(h, e)[i].status = "paid"
    BY <1>2, <1>3 DEF PaidAt
  <2>2. CASE i = Len(h) + 1
    BY <2>1, <2>2, <1>3 DEF e
  <2>3. CASE i \in 1..Len(h)
    BY <2>1, <2>3, <1>3 DEF PaidAt, h
  <2> QED
    BY <2>1, <2>2, <2>3, <1>3
<1>6. to \in {"paid", "approved"} => \A i : ~PaidAt(b, i)
  BY <1>4 DEF PaidForGood, PaidAt, HasBeen
<1>7. \A i, j : PaidAt(b, i)' /\ PaidAt(b, j)' => i = j
  BY <1>4, <1>5, <1>6 DEF PaidForGood
<1>8. HasBeen(b, "paid")' => to \notin {"requested", "approved"}
  <2> SUFFICES ASSUME HasBeen(b, "paid")', to = "approved" PROVE FALSE
    OBVIOUS
  <2>1. PICK i : PaidAt(b, i)'
    BY DEF HasBeen, PaidAt
  <2> QED
    BY <2>1, <1>5, <1>6
<1>9. PaidForGood(b)'
  BY <1>2, <1>7, <1>8 DEF PaidForGood
<1>10. \A c \in BookingIds \ {b} : PaidForGood(c)'
  BY <1>2 DEF OnceInv, PaidForGood, PaidAt, HasBeen
<1> QED
  BY <1>9, <1>10

\* A new booking was never paid.
LEMMA OnceInserted ==
    ASSUME OnceInv, NEW r \in Requests, CreateInsert(r)
    PROVE  \A c \in BookingIds : PaidForGood(c)'
<1>1. PICK id \in BookingIds : id = req[r].id
  BY DEF CreateInsert, OnceInv, BookingsInv, SlotsInv, SlotOK, Creating, CreatingOK
<1>2. req[r].doc.history = <<[status |-> "requested", by |-> req[r].doc.borrower]>>
  BY DEF CreateInsert, OnceInv, BookingsInv, SlotsInv, SlotOK, Creating, CreatingOK
<1>3. /\ bookings'[id] = req[r].doc
      /\ \A c \in BookingIds \ {id} : bookings'[c] = bookings[c]
  BY <1>1 DEF CreateInsert, OnceInv, BookingsInv, TypeOK
<1>4. \A i : ~PaidAt(id, i)'
  <2>1. \A i \in DOMAIN req[r].doc.history : req[r].doc.history[i].status = "requested"
    BY <1>2
  <2> QED
    BY <1>3, <2>1 DEF PaidAt
<1>5. PaidForGood(id)'
  BY <1>4 DEF PaidForGood, PaidAt, HasBeen
<1>6. \A c \in BookingIds \ {id} : PaidForGood(c)'
  BY <1>3 DEF OnceInv, PaidForGood, PaidAt, HasBeen
<1> QED
  BY <1>5, <1>6

\* The seal writes neither status nor history.
LEMMA OnceSealed ==
    ASSUME OnceInv, NEW r \in Requests, CreateSeal(r)
    PROVE  \A c \in BookingIds : PaidForGood(c)'
<1>1. \A c \in BookingIds : /\ bookings'[c].status = bookings[c].status
                            /\ bookings'[c].history = bookings[c].history
  BY DEF CreateSeal, OnceInv, BookingsInv, TypeOK, Documents
<1> QED
  BY <1>1 DEF OnceInv, PaidForGood, PaidAt, HasBeen

\* A save of changeStatus or resolveDispute.
LEMMA OnceSaved ==
    ASSUME OnceInv, NEW r \in Requests, SaveStatus(r),
           req[r].at \in {"change.save", "resolve.save"}
    PROVE  \A c \in BookingIds : PaidForGood(c)'
<1> DEFINE hash == ComputeIntegrityHash([req[r].doc EXCEPT !.status = req[r].to])
<1>1. /\ req[r].id \in BookingIds /\ Present(req[r].id)
      /\ req[r].to \in Statuses \ {"paid"} /\ req[r].user \in Users
      /\ LegalStep(req[r].doc, req[r].to, req[r].user, Admins)
  BY DEF OnceInv, BookingsInv, SlotsInv, SlotOK, Stored, StoredOK, SavingOK
<1>2. req[r].to # "requested"
  BY <1>1, RuleTargets DEF LegalStep
<1>3. req[r].to = "approved" => bookings[req[r].id].status = "requested"
  BY DEF OnceInv, ApprovesInTime
<1>4. bookings' = Stepped(req[r].id, req[r].to, req[r].user, hash)
  BY DEF SaveStatus, Stepped
<1> HIDE DEF hash
<1> QED
  BY <1>1, <1>2, <1>3, <1>4, OnceStepped

\* A handler moves to a point which saves nothing, and no other that is about to
\* approve sees a status change.
LEMMA OneMoves ==
    ASSUME OnceInv, NEW r \in Requests,
           \/ Finish(r)
           \/ \E point \in Points \ Changing : Goto(r, point),
           \A q \in Requests \ {r} : req[q].at \in Changing =>
              bookings'[req[q].id].status = bookings[req[q].id].status
    PROVE  \A q \in Requests : ApprovesInTime(q)'
<1>1. req'[r].at \notin Changing /\ \A q \in Requests \ {r} : req'[q] = req[q]
  BY DEF OnceInv, BookingsInv, TypeOK, Finish, Goto, Idle, Slots, Changing
<1> QED
  BY <1>1 DEF OnceInv, ApprovesInTime, Changing

LEMMA OnceContinues ==
    ASSUME OnceInv, ChangesApart, NEW r \in Requests, Continue(r)
    PROVE  /\ \A b \in BookingIds : PaidForGood(b)'
           /\ \A q \in Requests : ApprovesInTime(q)'
<1>1. ASSUME NEW q \in Requests \ {r}, req[q].at \in Changing
      PROVE  bookings'[req[q].id].status = bookings[req[q].id].status
  <2>1. req[q].id \in BookingIds /\ bookings \in [BookingIds -> Documents]
    BY <1>1 DEF OnceInv, BookingsInv, TypeOK, SlotsInv, SlotOK, Stored, StoredOK, Changing
  <2>2. CASE CreateInsert(r)
    <3>1. req[q].id # req[r].id
      BY <2>2 DEF CreateInsert, OnceInv, BookingsInv, SlotsInv, SlotOK, Creating, CreatingOK
    <3> QED
      BY <2>1, <2>2, <3>1 DEF CreateInsert
  <2>3. CASE CreateSeal(r)
    BY <2>1, <2>3 DEF CreateSeal, Documents
  <2>4. CASE ChangeSave(r) \/ ResolveSave(r)
    <3>1. req[q].id # req[r].id /\ SaveStatus(r)
      BY <1>1, <2>4 DEF ChangesApart, ChangeSave, ResolveSave, Changing
    <3> QED
      BY <2>1, <3>1 DEF SaveStatus
  <2>5. CASE CreateClash(r) \/ CreateNotify(r) \/ ChangeNotify(r)
    BY <2>5 DEF CreateClash, CreateNotify, ChangeNotify
  <2> QED
    BY <2>2, <2>3, <2>4, <2>5 DEF Continue
<1>2. \A q \in Requests : ApprovesInTime(q)'
  BY <1>1, OneMoves DEF Continue, CreateClash, CreateInsert, CreateSeal, CreateNotify,
                        ChangeSave, ChangeNotify, ResolveSave, Points, Changing
<1>3. CASE CreateClash(r) \/ CreateNotify(r) \/ ChangeNotify(r)
  BY <1>2, <1>3 DEF CreateClash, CreateNotify, ChangeNotify, OnceInv, PaidForGood,
              PaidAt, HasBeen
<1>4. CASE ChangeSave(r) \/ ResolveSave(r)
  BY <1>2, <1>4, OnceSaved DEF ChangeSave, ResolveSave
<1> QED
  BY <1>2, <1>3, <1>4, OnceInserted, OnceSealed DEF Continue

\* A request to approve finds the booking 'requested'.
LEMMA OnceReceives ==
    ASSUME OnceInv, NEW r \in Requests, Receive(r)
    PROVE  /\ \A b \in BookingIds : PaidForGood(b)'
           /\ \A q \in Requests : ApprovesInTime(q)'
<1>1. PICK user \in Users, b \in BookingIds :
         \/ \E l \in Listings, p \in Periods : CreateBooking(r, user, b, l, p)
         \/ ChangeStatus(r, user, b)
         \/ ResolveDispute(r, user, b)
  BY DEF Receive
<1>2. UNCHANGED bookings
  BY DEF Receive, CreateBooking, ChangeStatus, ResolveDispute
<1>3. CASE \E l \in Listings, p \in Periods : CreateBooking(r, user, b, l, p)
  <2>1. req'[r].at = "create.clash" /\ \A q \in Requests \ {r} : req'[q] = req[q]
    BY <1>3 DEF CreateBooking, OnceInv, BookingsInv, TypeOK
  <2> QED
    BY <1>2, <2>1, OnceUntouched
<1>4. CASE ChangeStatus(r, user, b)
  <2>1. PICK rule \in TRANSITIONS :
           /\ Evaluate(rule, bookings[b], user)
           /\ Hold(r, "change.save", user, b, rule.to)
    BY <1>4 DEF ChangeStatus
  <2>2. /\ req'[r].to = rule.to /\ req'[r].id = b
        /\ \A q \in Requests \ {r} : req'[q] = req[q]
    BY <2>1 DEF Hold, OnceInv, BookingsInv, TypeOK
  <2>3. rule.to = "approved" => bookings[b].status = "requested"
    BY <2>1 DEF Evaluate, TRANSITIONS
  <2> QED
    BY <1>2, <2>2, <2>3, OnceUntouched
<1>5. CASE ResolveDispute(r, user, b)
  <2>1. req'[r].to = "resolved" /\ \A q \in Requests \ {r} : req'[q] = req[q]
    BY <1>5 DEF ResolveDispute, Hold, OnceInv, BookingsInv, TypeOK
  <2> QED
    BY <1>2, <2>1, OnceUntouched
<1> QED
  BY <1>1, <1>3, <1>4, <1>5

\* A verified payment finds the booking 'approved', so never paid before, and
\* no handler is about to approve it.
LEMMA OncePays ==
    ASSUME OnceInv, PaymentStep
    PROVE  /\ \A b \in BookingIds : PaidForGood(b)'
           /\ \A q \in Requests : ApprovesInTime(q)'
<1>1. PICK b \in BookingIds : PaymentVerified(b)
  BY DEF PaymentStep
<1>2. /\ bookings[b].status = "approved" /\ Present(b)
      /\ bookings[b].borrower \in Users /\ "paid" \in Statuses
  BY <1>1 DEF PaymentVerified, ApplyVerifiedPayment, Present, OnceInv,
              BookingsInv, DocumentsInv, Statuses
<1> DEFINE user == bookings[b].borrower
           hash == ComputeIntegrityHash([bookings[b] EXCEPT !.status = "paid"])
<1>3. bookings' = Stepped(b, "paid", user, hash) /\ UNCHANGED req
  BY <1>1 DEF PaymentVerified, ApplyVerifiedPayment, Pay, Stepped
<1> HIDE DEF hash
<1>4. \A c \in BookingIds : PaidForGood(c)'
  BY <1>2, <1>3, OnceStepped
<1>5. \A c \in BookingIds \ {b} : bookings'[c] = bookings[c]
  BY <1>3 DEF Stepped, OnceInv, BookingsInv, TypeOK
<1>6. ASSUME NEW q \in Requests PROVE ApprovesInTime(q)'
  <2> SUFFICES ASSUME req[q].at \in {"change.save", "resolve.save"},
                      req[q].to = "approved"
               PROVE  bookings'[req[q].id].status = "requested"
    BY <1>3 DEF ApprovesInTime
  <2>1. req[q].id \in BookingIds /\ bookings[req[q].id].status = "requested"
    BY DEF OnceInv, ApprovesInTime, BookingsInv, SlotsInv, SlotOK, Stored, StoredOK
  <2> QED
    BY <1>2, <1>5, <2>1
<1> QED
  BY <1>4, <1>6

LEMMA OnceKeeps ==
    ASSUME ChangesApart, OnceInv, [BookingsNext]_vars
    PROVE  OnceInv'
<1>1. BookingsInv'
  BY NextKeeps, StutterKeeps DEF OnceInv
<1>2. ASSUME UNCHANGED <<bookings, req>>
      PROVE  /\ \A b \in BookingIds : PaidForGood(b)'
             /\ \A q \in Requests : ApprovesInTime(q)'
  BY <1>2, OnceUntouched
<1>3. ASSUME NEW r \in Requests, Fail(r)
      PROVE  /\ \A b \in BookingIds : PaidForGood(b)'
             /\ \A q \in Requests : ApprovesInTime(q)'
  <2>1. UNCHANGED bookings /\ Finish(r)
    BY <1>3 DEF Fail
  <2>2. \A b \in BookingIds : PaidForGood(b)'
    BY <2>1 DEF OnceInv, PaidForGood, PaidAt, HasBeen
  <2> QED
    BY <2>1, <2>2, OneMoves
<1>4. Read => UNCHANGED <<bookings, req>>
  BY DEF Read, GetBooking
<1>5. UNCHANGED vars => UNCHANGED <<bookings, req>>
  BY DEF vars
<1> QED
  BY <1>1, <1>2, <1>3, <1>4, <1>5, OnceReceives, OnceContinues, OncePays
  DEF BookingsNext, OnceInv

LEMMA OnceInit == Init => OnceInv
BY InitKeeps DEF Init, OnceInv, PaidForGood, PaidAt, HasBeen, ApprovesInTime,
                 Absent, Idle

\* No stale save takes a booking back from 'paid' to where it could be paid
\* again: the handler that saves an approval read 'requested', and nothing is
\* paid before it is approved (changeStatus, applyVerifiedPayment).
THEOREM BookingsPayOnce == BookingsSpec /\ []ChangesApart => []OnceInv
<1>1. ChangesApart /\ OnceInv /\ [BookingsNext]_vars => OnceInv'
  BY OnceKeeps
<1> QED
  BY <1>1, OnceInit, PTL DEF BookingsSpec

\* A completed payment is applied once, however many callbacks and initiations
\* find it, while no two changes of one booking's status overlap (rule 4 of the
\* payment controller).
THEOREM PaymentsApplyOnce == PaymentsSpec /\ []ChangesApart => []PaidOnce
<1>1. OnceInv => PaidOnce
  <2> SUFFICES ASSUME OnceInv, NEW b \in BookingIds
               PROVE  Cardinality({i \in DOMAIN bookings[b].history :
                                      bookings[b].history[i].status = "paid"}) <= 1
    BY DEF PaidOnce
  <2> DEFINE S == {i \in DOMAIN bookings[b].history :
                      bookings[b].history[i].status = "paid"}
  <2>1. \A i, j \in S : i = j
    BY DEF OnceInv, PaidForGood, PaidAt
  <2>2. CASE S = {}
    <3>1. Cardinality(S) = 0
      BY <2>2, FS_EmptySet
    <3> QED
      BY <3>1
  <2>3. CASE S # {}
    <3>1. PICK i : i \in S
      BY <2>3
    <3>2. S = {i}
      BY <2>1, <3>1
    <3> HIDE DEF S
    <3>3. Cardinality(S) = 1
      BY <3>2, FS_Singleton
    <3> QED
      BY <3>3 DEF S
  <2> QED
    BY <2>2, <2>3
<1>2. BookingsSpec /\ []ChangesApart => []OnceInv
  BY BookingsPayOnce
<1>3. PaymentsSpec => BookingsSpec
  BY PaymentsRefineBookings DEF ImplementsBookings
<1> QED
  BY <1>1, <1>2, <1>3, PTL

-----------------------------------------------------------------------------
(* What a step leaves of Khalti's payments, and of a slot                  *)

\* A payment keeps its booking and, once completed, its total; a refund and
\* an expiry are final; what was handed out stays so.
KhaltiMovesOn ==
    \A p \in Pidxs : khalti[p].status # "unknown" =>
        /\ khalti'[p].status # "unknown"
        /\ khalti'[p].booking = khalti[p].booking
        /\ khalti[p].handed => khalti'[p].handed
        /\ khalti[p].status \in {"Refunded", "Expired"} =>
              khalti'[p].status = khalti[p].status
        /\ khalti[p].status = "Completed" =>
              khalti'[p].status \in {"Completed", "Refunded"}
        /\ khalti[p].status \in {"Completed", "Refunded"} =>
              khalti'[p].total = khalti[p].total

LEMMA KhaltiStays == UNCHANGED khalti => KhaltiMovesOn
BY DEF KhaltiMovesOn

LEMMA KhaltiHands ==
    ASSUME PaymentsInv, NEW p, khalti' = [khalti EXCEPT ![p].handed = TRUE]
    PROVE  /\ KhaltiMovesOn
           /\ \A q \in Pidxs :
                 /\ khalti'[q].status = khalti[q].status
                 /\ khalti'[q].booking = khalti[q].booking
                 /\ khalti'[q].total = khalti[q].total
                 /\ khalti'[q].handed = (khalti[q].handed \/ q = p)
<1>1. khalti \in [Pidxs -> KhaltiPayments]
  BY DEF PaymentsInv, PaymentsTypeOK
<1>2. \A q \in Pidxs :
         /\ khalti'[q].status = khalti[q].status
         /\ khalti'[q].booking = khalti[q].booking
         /\ khalti'[q].total = khalti[q].total
         /\ khalti'[q].handed = (khalti[q].handed \/ q = p)
  BY <1>1 DEF KhaltiPayments
<1> QED
  BY <1>2 DEF KhaltiMovesOn

LEMMA KhaltiMints ==
    ASSUME PaymentsInv, NEW c \in Calls, InitiateMint(c)
    PROVE  \E p \in Pidxs :
              /\ khalti[p].status = "unknown"
              /\ khalti'[p].status = "Initiated"
              /\ khalti'[p].booking = call[c].id
              /\ ~khalti'[p].handed
              /\ \A q \in Pidxs \ {p} : khalti'[q] = khalti[q]
              /\ call'[c].at = "pay.save"
              /\ call'[c].id = call[c].id
              /\ call'[c].pay = call[c].pay
              /\ call'[c].pidx = p
              /\ \A d \in Calls \ {c} : call'[d] = call[d]
BY DEF InitiateMint, PaymentsInv, PaymentsTypeOK, CallSlots

\* The payer pays, or Khalti moves a payment on.
LEMMA KhaltiChanges ==
    ASSUME PaymentsInv, NEW p \in Pidxs, PayerPays(p) \/ KhaltiMoves(p)
    PROVE  /\ \A q \in Pidxs \ {p} : khalti'[q] = khalti[q]
           /\ khalti[p].status \notin {"unknown", "Refunded", "Expired"}
           /\ khalti'[p].status # "unknown"
           /\ khalti'[p].booking = khalti[p].booking
           /\ khalti'[p].handed = khalti[p].handed
           /\ khalti[p].status = "Completed" =>
                 khalti'[p].status = "Refunded" /\ khalti'[p].total = khalti[p].total
           /\ khalti'[p].status \in {"Completed", "Refunded"} =>
                 khalti[p].handed \/ khalti[p].status = "Completed"
<1>1. khalti \in [Pidxs -> KhaltiPayments]
  BY DEF PaymentsInv, PaymentsTypeOK
<1>2. CASE PayerPays(p)
  BY <1>1, <1>2 DEF PayerPays, KhaltiPayments
<1>3. CASE KhaltiMoves(p)
  <2>1. PICK step \in {<<"Initiated", "Pending">>, <<"Initiated", "Expired">>,
                       <<"Pending", "Expired">>, <<"Completed", "Refunded">>} :
           /\ khalti[p].status = step[1]
           /\ khalti' = [khalti EXCEPT ![p].status = step[2]]
    BY <1>3 DEF KhaltiMoves
  <2>2. /\ step[1] \notin {"unknown", "Refunded", "Expired"}
        /\ step[2] # "unknown"
        /\ step[1] = "Completed" => step[2] = "Refunded"
        /\ step[2] \in {"Completed", "Refunded"} => step[1] = "Completed"
    BY <2>1
  <2>3. /\ \A q \in Pidxs \ {p} : khalti'[q] = khalti[q]
        /\ khalti'[p].status = step[2]
        /\ khalti'[p].booking = khalti[p].booking
        /\ khalti'[p].handed = khalti[p].handed
        /\ khalti'[p].total = khalti[p].total
    BY <1>1, <2>1 DEF KhaltiPayments
  <2> QED
    BY <2>1, <2>2, <2>3
<1> QED
  BY <1>2, <1>3

\* A slot that moves to a point keeps what it holds.
LEMMA GotoFields ==
    ASSUME PaymentsInv, NEW c \in Calls, NEW point, GotoCall(c, point)
    PROVE  /\ call'[c].at = point
           /\ call'[c].id = call[c].id
           /\ call'[c].pay = call[c].pay
           /\ call'[c].pidx = call[c].pidx
           /\ \A d \in Calls \ {c} : call'[d] = call[d]
BY DEF GotoCall, PaymentsInv, PaymentsTypeOK, CallSlots

LEMMA AnswerFields ==
    ASSUME PaymentsInv, NEW c \in Calls, NEW result, AnswerWith(c, result)
    PROVE  /\ call'[c].at = "cb.reply"
           /\ call'[c].pay = call[c].pay
           /\ \A d \in Calls \ {c} : call'[d] = call[d]
BY DEF AnswerWith, PaymentsInv, PaymentsTypeOK, CallSlots

LEMMA EndFields ==
    ASSUME PaymentsInv, NEW c \in Calls, EndCall(c)
    PROVE  /\ call'[c] = NoCall
           /\ \A d \in Calls \ {c} : call'[d] = call[d]
BY DEF EndCall, PaymentsInv, PaymentsTypeOK

LEMMA StepMovesOn ==
    ASSUME PaymentsInv, [PaymentsNext]_allVars
    PROVE  Grows /\ KhaltiMovesOn
<1>1. Grows
  <2>1. CASE BookingsNext
    BY <2>1, NextKeeps DEF PaymentsInv
  <2>2. CASE UNCHANGED vars
    BY <2>2, BookingsUntouched DEF PaymentsInv, vars
  <2> QED
    BY <2>1, <2>2, PaymentsStepIsBookings
<1>2. ASSUME NEW c \in Calls, ReceiveCall(c) \/ FailCall(c) PROVE KhaltiMovesOn
  BY <1>2, KhaltiStays DEF ReceiveCall, FailCall, InitiatePayment, PaymentCallback
<1>3. ASSUME NEW c \in Calls, InitiateLookup(c) \/ InitiateHand(c) PROVE KhaltiMovesOn
  BY <1>3, KhaltiStays, KhaltiHands DEF InitiateLookup, InitiateHand
<1>4. ASSUME NEW c \in Calls, InitiateMint(c) PROVE KhaltiMovesOn
  BY <1>4, KhaltiMints DEF KhaltiMovesOn
<1>5. ASSUME NEW c \in Calls,
             \/ InitiateClear(c) \/ InitiateSave(c) \/ CallbackLookup(c)
             \/ CallbackClear(c) \/ CallbackReply(c) \/ Apply(c)
             \/ AlreadyApplied(c) \/ Receipt(c)
      PROVE  KhaltiMovesOn
  BY <1>5, KhaltiStays DEF InitiateClear, InitiateSave, CallbackLookup,
     CallbackClear, CallbackReply, Apply, AlreadyApplied, Receipt
<1>6. ASSUME NEW p \in Pidxs, PayerPays(p) \/ KhaltiMoves(p) PROVE KhaltiMovesOn
  BY <1>6, KhaltiChanges DEF KhaltiMovesOn
<1>7. BookingStep \/ UNCHANGED allVars => KhaltiMovesOn
  BY KhaltiStays DEF BookingStep, payVars, allVars
<1> QED
  BY <1>1, <1>2, <1>3, <1>4, <1>5, <1>6, <1>7 DEF PaymentsNext, ContinueCall

-----------------------------------------------------------------------------
(* Justified alerts: the inductive invariant                               *)

\* Pidx and amount are recorded and cleared together.
Paired(fields) == fields.pidx = None <=> fields.amount = NoAmount

\* So are those a handler read; it mints and records a new payment only where
\* it knows of none, and clears only where it knows of one.
HoldsPair(slot) ==
    slot.at # "idle" =>
        /\ Paired(slot.pay)
        /\ slot.at \in {"pay.mint", "pay.save"} => slot.pay.pidx = None
        /\ slot.at \in {"pay.lookup", "cb.lookup", "pay.void", "pay.clear",
                        "cb.clear"} => slot.pay.pidx # None

\* Khalti completed p for b with another amount.
WrongTotal(p, b) ==
    /\ khalti[p].booking = b
    /\ khalti[p].status \in {"Completed", "Refunded"}
    /\ khalti[p].total # AmountPaisa(b)

PairsInv ==
    /\ PaymentsInv
    /\ OnceInv
    /\ \A b \in BookingIds : Paired(pay[b])
    /\ \A b \in BookingIds : pay[b].verified => HasBeen(b, "paid")
    /\ \A c \in Calls : HoldsPair(call[c])
    /\ MismatchJustified

\* What one payment handler may write, and hold afterwards.
PairsMove(c) ==
    /\ \A b \in BookingIds :
          /\ Paired(pay[b])'
          /\ pay'[b].verified => pay[b].verified \/ HasBeen(b, "paid")'
    /\ HoldsPair(call'[c])
    /\ \A d \in Calls \ {c} : call'[d] = call[d]
    /\ \A b \in mismatches' \ mismatches : \E p \in Pidxs : WrongTotal(p, b)

LEMMA NoCallPair == HoldsPair(NoCall) /\ Paired(NoPayment)
BY DEF HoldsPair, NoCall, Paired, NoPayment

LEMMA AmountIsAmount ==
    ASSUME PaymentsInv, NEW b \in BookingIds
    PROVE  AmountPaisa(b) # NoAmount
<1>1. bookings[b].fee \in Nat /\ bookings[b].deposit \in Nat
  BY DEF PaymentsInv, BookingsInv, TypeOK, Documents
<1> QED
  BY <1>1 DEF AmountPaisa, NoAmount

\* A total that does not match what was read is not the booking's amount.
LEMMA MismatchIsWrong ==
    ASSUME PairsInv, NEW c \in Calls,
           call[c].at \in {"pay.lookup", "cb.lookup"},
           khalti[call[c].pay.pidx].status = "Completed",
           ~AmountMatches(call[c].pay.pidx, call[c].pay)
    PROVE  /\ call[c].pay.pidx \in Pidxs /\ call[c].id \in BookingIds
           /\ WrongTotal(call[c].pay.pidx, call[c].id)
<1>1. Fits(call[c]) /\ HoldsPair(call[c])
  BY DEF PairsInv, PaymentsInv
<1>2. call[c].pay.pidx # None /\ call[c].pay.amount # NoAmount
  BY <1>1 DEF HoldsPair, Paired
<1>3. /\ Minted(call[c].pay.pidx, call[c].id)
      /\ call[c].pay.amount = AmountPaisa(call[c].id)
      /\ call[c].id \in BookingIds
  BY <1>1, <1>2 DEF Fits, FieldsOK
<1> QED
  BY <1>2, <1>3 DEF Minted, AmountMatches, WrongTotal

\* A booking still 'approved' has no verified payment: initiatePayment mints
\* only where it read no pidx.
LEMMA PairsInitiate ==
    ASSUME PairsInv, NEW c \in Calls, NEW b \in BookingIds, InitiatePayment(c, b)
    PROVE  PairsMove(c)
<1>1. pay[b] \in PaymentFields /\ Paired(pay[b])
  BY DEF PairsInv, PaymentsInv, PaymentsTypeOK
<1>2. ~pay[b].verified
  BY DEF PairsInv, OnceInv, PaidForGood, InitiatePayment
<1>3. /\ call'[c].at = IF pay[b].pidx # None THEN "pay.lookup" ELSE "pay.mint"
      /\ call'[c].pay = pay[b]
      /\ \A d \in Calls \ {c} : call'[d] = call[d]
  BY <1>2 DEF InitiatePayment, PairsInv, PaymentsInv, PaymentsTypeOK, NoCall
<1>4. HoldsPair(call'[c])
  BY <1>1, <1>3 DEF HoldsPair
<1> QED
  BY <1>3, <1>4 DEF PairsMove, InitiatePayment, PairsInv, Paired

LEMMA PairsCallback ==
    ASSUME PairsInv, NEW c \in Calls, NEW b \in BookingIds, PaymentCallback(c, b)
    PROVE  PairsMove(c)
<1>1. pay[b] \in PaymentFields /\ Paired(pay[b])
  BY DEF PairsInv, PaymentsInv, PaymentsTypeOK
<1>2. HoldsPair(call'[c]) /\ \A d \in Calls \ {c} : call'[d] = call[d]
  <2>1. CASE pay[b].pidx = None
    BY <2>1 DEF PaymentCallback, PairsInv
  <2>2. CASE pay[b].pidx # None
    <3>1. /\ call'[c].at = "cb.lookup"
          /\ call'[c].pay = pay[b]
          /\ \A d \in Calls \ {c} : call'[d] = call[d]
      BY <2>2 DEF PaymentCallback, PairsInv, PaymentsInv, PaymentsTypeOK, NoCall
    <3> QED
      BY <1>1, <2>2, <3>1 DEF HoldsPair
  <2> QED
    BY <2>1, <2>2
<1> QED
  BY <1>2 DEF PairsMove, PaymentCallback, PairsInv, Paired

\* A handler that writes no payment field moves to a point where it mints or
\* clears only if it was on the way there.
LEMMA PairsGoto ==
    ASSUME PairsInv, NEW c \in Calls, UNCHANGED pay,
           \A b \in mismatches' \ mismatches : \E p \in Pidxs : WrongTotal(p, b),
           \/ EndCall(c)
           \/ \E result \in Results : call[c].at # "idle" /\ AnswerWith(c, result)
           \/ \E point : /\ GotoCall(c, point)
                         /\ call[c].at # "idle"
                         /\ point \in {"pay.mint", "pay.save"} =>
                               call[c].at \in {"pay.mint", "pay.save"}
                         /\ point \in {"pay.lookup", "cb.lookup", "pay.void",
                                       "pay.clear", "cb.clear"} =>
                               call[c].at \in {"pay.lookup", "cb.lookup"}
    PROVE  PairsMove(c)
<1>1. HoldsPair(call[c]) /\ PaymentsInv
  BY DEF PairsInv
<1>2. HoldsPair(call'[c]) /\ \A d \in Calls \ {c} : call'[d] = call[d]
  <2>1. CASE EndCall(c)
    BY <1>1, <2>1, EndFields, NoCallPair
  <2>2. CASE \E result \in Results : call[c].at # "idle" /\ AnswerWith(c, result)
    BY <1>1, <2>2, AnswerFields DEF HoldsPair
  <2>3. ASSUME NEW point, GotoCall(c, point), call[c].at # "idle",
               point \in {"pay.mint", "pay.save"} =>
                  call[c].at \in {"pay.mint", "pay.save"},
               point \in {"pay.lookup", "cb.lookup", "pay.void", "pay.clear",
                          "cb.clear"} =>
                  call[c].at \in {"pay.lookup", "cb.lookup"}
        PROVE  HoldsPair(call'[c]) /\ \A d \in Calls \ {c} : call'[d] = call[d]
    BY <1>1, <2>3, GotoFields DEF HoldsPair
  <2> QED
    BY <2>1, <2>2, <2>3
<1> QED
  BY <1>2 DEF PairsMove, PairsInv, Paired

LEMMA PairsLookup ==
    ASSUME PairsInv, NEW c \in Calls, InitiateLookup(c) \/ CallbackLookup(c)
    PROVE  PairsMove(c)
<1>1. UNCHANGED pay /\ call[c].at \in {"pay.lookup", "cb.lookup"}
  BY DEF InitiateLookup, CallbackLookup
<1>2. \A b \in mismatches' \ mismatches : \E p \in Pidxs : WrongTotal(p, b)
  BY <1>1, MismatchIsWrong DEF InitiateLookup, CallbackLookup
<1>3. \/ EndCall(c)
      \/ \E point \in {"pay.apply", "pay.void", "pay.clear", "cb.clear", "cb.apply"} :
            GotoCall(c, point)
  BY DEF InitiateLookup, CallbackLookup
<1> QED
  BY <1>1, <1>2, <1>3, PairsGoto

\* Both fields are cleared, for both were read.
LEMMA PairsClear ==
    ASSUME PairsInv, NEW c \in Calls, InitiateClear(c) \/ CallbackClear(c)
    PROVE  PairsMove(c)
<1>1. /\ HoldsPair(call[c]) /\ PaymentsInv
      /\ call[c].at \in {"pay.void", "pay.clear", "cb.clear"}
      /\ call[c] \in CallSlots /\ call[c].pay \in PaymentFields
      /\ pay \in [BookingIds -> PaymentFields]
      /\ call \in [Calls -> CallSlots]
  BY DEF InitiateClear, CallbackClear, PairsInv, PaymentsInv, PaymentsTypeOK, CallSlots
<1>2. call[c].pay.pidx # None /\ call[c].pay.amount # NoAmount
  BY <1>1 DEF HoldsPair, Paired
<1>3. \A stored \in PaymentFields :
         /\ Cleared(stored, call[c].pay).pidx = None
         /\ Cleared(stored, call[c].pay).amount = NoAmount
         /\ Cleared(stored, call[c].pay).verified = stored.verified
  BY <1>2 DEF Cleared, PaymentFields
<1>4. PICK b : b = call[c].id
  OBVIOUS
<1>5. pay' = [pay EXCEPT ![b] = Cleared(pay[b], call[c].pay)]
  BY <1>1, <1>4 DEF InitiateClear, CallbackClear
<1>6. \A a \in BookingIds : Paired(pay[a])' /\ (pay'[a].verified => pay[a].verified)
  <2> SUFFICES ASSUME NEW a \in BookingIds
               PROVE  Paired(pay'[a]) /\ (pay'[a].verified => pay[a].verified)
    OBVIOUS
  <2>1. CASE a = b
    BY <1>1, <1>3, <1>5, <2>1 DEF Paired
  <2>2. CASE a # b
    <3>1. pay'[a] = pay[a]
      BY <1>1, <1>5, <2>2
    <3> QED
      BY <3>1 DEF PairsInv
  <2> QED
    BY <2>1, <2>2
<1>7. HoldsPair(call'[c]) /\ \A d \in Calls \ {c} : call'[d] = call[d]
  <2>1. CASE CallbackClear(c)
    BY <1>1, <2>1, AnswerFields DEF CallbackClear, HoldsPair
  <2>2. CASE InitiateClear(c) /\ call[c].at = "pay.void"
    BY <1>1, <2>2, EndFields, NoCallPair DEF InitiateClear
  <2>3. CASE InitiateClear(c) /\ call[c].at # "pay.void"
    <3>1. /\ call'[c].at = "pay.mint"
          /\ call'[c].pay = Cleared(call[c].pay, call[c].pay)
          /\ \A d \in Calls \ {c} : call'[d] = call[d]
      BY <1>1, <2>3 DEF InitiateClear, CallSlots
    <3> QED
      BY <1>1, <1>3, <3>1 DEF HoldsPair, Paired
  <2> QED
    BY <2>1, <2>2, <2>3
<1> QED
  BY <1>6, <1>7 DEF PairsMove, InitiateClear, CallbackClear

\* Both fields are recorded, for neither was read.
LEMMA PairsSave ==
    ASSUME PairsInv, NEW c \in Calls, InitiateSave(c)
    PROVE  PairsMove(c)
<1>1. PICK b : b = call[c].id
  OBVIOUS
<1>2. /\ HoldsPair(call[c]) /\ Fits(call[c]) /\ PaymentsInv
      /\ call[c].at = "pay.save"
      /\ pay \in [BookingIds -> PaymentFields]
  BY DEF InitiateSave, PairsInv, PaymentsInv, PaymentsTypeOK
<1>3. /\ b \in BookingIds /\ call[c].pidx \in Pidxs
      /\ call[c].pay.amount = NoAmount
  BY <1>1, <1>2 DEF HoldsPair, Paired, Fits, Minted
<1>4. AmountPaisa(b) # NoAmount /\ call[c].pidx # None
  BY <1>2, <1>3, AmountIsAmount, PidxsAssumption
<1>5. /\ pay'[b].pidx = call[c].pidx
      /\ pay'[b].amount = AmountPaisa(b)
      /\ pay'[b].verified = pay[b].verified
      /\ \A a \in BookingIds \ {b} : pay'[a] = pay[a]
  BY <1>1, <1>2, <1>3, <1>4 DEF InitiateSave, Recorded, PaymentFields
<1>6. \A a \in BookingIds : Paired(pay'[a]) /\ (pay'[a].verified => pay[a].verified)
  BY <1>4, <1>5 DEF Paired, PairsInv
<1>7. HoldsPair(call'[c]) /\ \A d \in Calls \ {c} : call'[d] = call[d]
  BY <1>2, GotoFields DEF InitiateSave, HoldsPair
<1> QED
  BY <1>6, <1>7 DEF PairsMove, InitiateSave, Paired

\* The guarded update marks the payment verified and the booking paid at once.
LEMMA PairsApply ==
    ASSUME PairsInv, NEW c \in Calls, Apply(c)
    PROVE  PairsMove(c)
<1>1. PICK b : b = call[c].id
  OBVIOUS
<1>2. /\ HoldsPair(call[c]) /\ Fits(call[c]) /\ PaymentsInv
      /\ call[c].at \in {"pay.apply", "cb.apply"}
      /\ pay \in [BookingIds -> PaymentFields]
      /\ b \in BookingIds
  BY <1>1 DEF Apply, PairsInv, PaymentsInv, PaymentsTypeOK, Fits
<1>3. HasBeen(b, "paid")'
  <2> DEFINE h == bookings[b].history
             e == [status |-> "paid", by |-> bookings[b].borrower]
  <2>1. Present(b)
    BY <1>1 DEF Apply, ApplyVerifiedPayment, Present
  <2>2. h \in Seq(HistoryEntries) /\ e \in HistoryEntries
    BY <1>2, <2>1 DEF PaymentsInv, BookingsInv, DocumentsInv, TypeOK, Documents,
                      HistoryEntries, Statuses
  <2>3. bookings'[b].history = Append(h, e)
    BY <1>1, <1>2 DEF Apply, ApplyVerifiedPayment, Pay, PaymentsInv, BookingsInv,
                      TypeOK, Documents
  <2>4. /\ DOMAIN Append(h, e) = 1..(Len(h) + 1)
        /\ Append(h, e)[Len(h) + 1] = e
        /\ Len(h) \in Nat
    BY <2>2, AppendEntry
  <2> HIDE DEF h
  <2>5. Len(h) + 1 \in 1..(Len(h) + 1)
    BY <2>4
  <2> QED
    BY <2>3, <2>4, <2>5 DEF HasBeen
<1>4. /\ pay'[b].pidx = pay[b].pidx
      /\ pay'[b].amount = pay[b].amount
      /\ \A a \in BookingIds \ {b} : pay'[a] = pay[a]
  BY <1>1, <1>2 DEF Apply, PaymentFields
<1>5. \A a \in BookingIds : Paired(pay'[a])
  BY <1>4 DEF Paired, PairsInv
<1>6. HoldsPair(call'[c]) /\ \A d \in Calls \ {c} : call'[d] = call[d]
  <2>1. PICK point \in {"pay.receipt", "cb.receipt"} : GotoCall(c, point)
    BY DEF Apply
  <2> QED
    BY <1>2, <2>1, GotoFields DEF HoldsPair
<1> QED
  BY <1>3, <1>4, <1>5, <1>6 DEF PairsMove, Apply, Paired

LEMMA PairsContinue ==
    ASSUME PairsInv, NEW c \in Calls, ReceiveCall(c) \/ ContinueCall(c) \/ FailCall(c)
    PROVE  PairsMove(c)
<1>1. CASE InitiateMint(c)
  <2>1. /\ call'[c].at = "pay.save" /\ call'[c].pay = call[c].pay
        /\ call[c].at = "pay.mint"
        /\ \A d \in Calls \ {c} : call'[d] = call[d]
    BY <1>1, KhaltiMints DEF PairsInv, InitiateMint
  <2>2. HoldsPair(call'[c])
    BY <2>1 DEF HoldsPair, PairsInv
  <2> QED
    BY <1>1, <2>1, <2>2 DEF PairsMove, InitiateMint, PairsInv, Paired
<1>2. CASE \/ InitiateHand(c) \/ CallbackReply(c) \/ AlreadyApplied(c)
           \/ Receipt(c) \/ FailCall(c)
  <2>1. UNCHANGED <<pay, mismatches>>
    BY <1>2 DEF InitiateHand, CallbackReply, AlreadyApplied, Receipt, FailCall
  <2>2. EndCall(c) \/ \E result \in Results : call[c].at # "idle" /\ AnswerWith(c, result)
    BY <1>2 DEF InitiateHand, CallbackReply, AlreadyApplied, Receipt, FailCall, Results
  <2> QED
    BY <2>1, <2>2, PairsGoto
<1> QED
  BY <1>1, <1>2, PairsInitiate, PairsCallback, PairsLookup, PairsClear, PairsSave,
     PairsApply DEF ReceiveCall, ContinueCall

LEMMA HasBeenKept ==
    ASSUME BookingsInv, BookingsInv', Grows, NEW b \in BookingIds, NEW status,
           HasBeen(b, status)
    PROVE  HasBeen(b, status)'
BY EntryKept DEF HasBeen, BookingsInv, TypeOK

\* A wrong payment stays wrong: its total and the booking's amount are final.
LEMMA WrongKept ==
    ASSUME PaymentsInv, Grows, KhaltiMovesOn, NEW p \in Pidxs, NEW b, WrongTotal(p, b)
    PROVE  WrongTotal(p, b)'
<1>1. b \in BookingIds /\ Present(b)
  BY DEF WrongTotal, PaymentsInv, KhaltiOK
<1>2. AmountPaisa(b)' = AmountPaisa(b)
  BY <1>1, AmountKept
<1>3. /\ khalti'[p].booking = b
      /\ khalti'[p].status \in {"Completed", "Refunded"}
      /\ khalti'[p].total = khalti[p].total
  BY DEF WrongTotal, KhaltiMovesOn
<1> QED
  BY <1>2, <1>3 DEF WrongTotal

LEMMA PairsKeep ==
    ASSUME ChangesApart, PairsInv, [PaymentsNext]_allVars
    PROVE  PairsInv'
<1>1. PaymentsInv'
  BY PaymentsNextKeeps, PaymentsStutterKeeps DEF PairsInv
<1>2. OnceInv'
  BY OnceKeeps, PaymentsStepIsBookings DEF PairsInv
<1>3. Grows /\ KhaltiMovesOn
  BY StepMovesOn DEF PairsInv
<1>4. \A b \in BookingIds : HasBeen(b, "paid") => HasBeen(b, "paid")'
  BY <1>2, <1>3, HasBeenKept DEF PairsInv, OnceInv
<1>5. \A b \in mismatches : \E p \in Pidxs : WrongTotal(p, b)'
  <2> SUFFICES ASSUME NEW b \in mismatches PROVE \E p \in Pidxs : WrongTotal(p, b)'
    OBVIOUS
  <2>1. PICK p \in Pidxs : WrongTotal(p, b)
    BY DEF PairsInv, MismatchJustified, WrongTotal
  <2> QED
    BY <1>3, <2>1, WrongKept DEF PairsInv
<1>6. CASE UNCHANGED <<pay, call, mismatches>>
  <2>1. MismatchJustified'
    BY <1>5, <1>6 DEF MismatchJustified, WrongTotal
  <2> QED
    BY <1>1, <1>2, <1>4, <1>6, <2>1 DEF PairsInv
<1>7. ASSUME NEW c \in Calls, PairsMove(c) PROVE PairsInv'
  <2>1. \A b \in mismatches' \ mismatches : \E p \in Pidxs : WrongTotal(p, b)'
    BY <1>3, <1>7, WrongKept DEF PairsMove, PairsInv
  <2>2. MismatchJustified'
    BY <1>5, <2>1 DEF MismatchJustified, WrongTotal
  <2>3. \A d \in Calls : HoldsPair(call'[d])
    BY <1>7 DEF PairsMove, PairsInv
  <2>4. \A b \in BookingIds : /\ Paired(pay'[b])
                              /\ pay'[b].verified => HasBeen(b, "paid")'
    BY <1>4, <1>7 DEF PairsMove, PairsInv, Paired
  <2> QED
    BY <1>1, <1>2, <2>2, <2>3, <2>4 DEF PairsInv, Paired, HoldsPair
<1>8. ASSUME NEW p \in Pidxs, PayerPays(p) \/ KhaltiMoves(p)
      PROVE  UNCHANGED <<pay, call, mismatches>>
  BY <1>8 DEF PayerPays, KhaltiMoves
<1>9. BookingStep \/ UNCHANGED allVars => UNCHANGED <<pay, call, mismatches>>
  BY DEF BookingStep, payVars, allVars
<1> QED
  BY <1>6, <1>7, <1>8, <1>9, PairsContinue DEF PaymentsNext

LEMMA PairsInit == PaymentsInit => PairsInv
<1> SUFFICES ASSUME PaymentsInit PROVE PairsInv
  OBVIOUS
<1>1. PaymentsInv /\ OnceInv
  BY PaymentsInitKeeps, OnceInit DEF PaymentsInit
<1>2. \A b \in BookingIds : pay[b] = NoPayment
  BY DEF PaymentsInit
<1>3. \A c \in Calls : call[c] = NoCall
  BY DEF PaymentsInit
<1> QED
  BY <1>1, <1>2, <1>3, NoCallPair DEF PaymentsInit, PairsInv, MismatchJustified, NoPayment

\* What a payment handler read as pidx and amount are those of one attempt, and
\* so are those stored: they are recorded together and cleared together
\* (initiatePayment, clearPendingPayment).
THEOREM PairsAreKept == PaymentsSpec /\ []ChangesApart => []PairsInv
<1>1. ChangesApart /\ PairsInv /\ [PaymentsNext]_allVars => PairsInv'
  BY PairsKeep
<1> QED
  BY <1>1, PairsInit, PTL DEF PaymentsSpec

\* The alert for a wrong amount is raised only for a payment of that booking
\* that Khalti completed with another amount: with any number of payment
\* handlers at once, pidx and amount are never read from two attempts, while no
\* two changes of one booking's status overlap.
THEOREM AlertsAreJustified == PaymentsSpec /\ []ChangesApart => []MismatchJustified
<1>1. PairsInv => MismatchJustified
  BY DEF PairsInv
<1> QED
  BY <1>1, PairsAreKept, PTL

-----------------------------------------------------------------------------
(* One open payment, and none lost: the inductive invariant                *)

\* Nothing is owed on p any more: it is over, or was completed with a wrong
\* amount.
Dead(p) ==
    \/ khalti[p].status \in {"Refunded", "Expired"}
    \/ /\ khalti[p].status = "Completed"
       /\ khalti[p].total # AmountPaisa(khalti[p].booking)

\* The booking still names p.
Named(p) == pay[khalti[p].booking].pidx = p

\* While it is the only one for its booking, a handler holds the payment fields as they are stored,
\* clears only a dead payment, and hands out only what is recorded.
HoldsStored(c) ==
    /\ call[c].at \in {"pay.lookup", "cb.lookup", "pay.void", "pay.clear",
                       "cb.clear", "pay.mint", "pay.save"} =>
          pay[call[c].id].pidx = call[c].pay.pidx
    /\ call[c].at \in {"pay.void", "pay.clear", "cb.clear"} =>
          Dead(call[c].pay.pidx)
    /\ call[c].at = "pay.save" => ~khalti[call[c].pidx].handed
    /\ call[c].at = "pay.hand" => pay[call[c].id].pidx = call[c].pidx

\* A payment that can still be made, or was, is named by its booking.
PidxKept(p) ==
    khalti[p].status # "unknown" =>
        /\ Dead(p) \/ Named(p) \/ ~khalti[p].handed
        /\ khalti[p].status \in {"Completed", "Refunded"} => khalti[p].handed

MoneyInv ==
    /\ PairsInv
    /\ \A p \in Pidxs : PidxKept(p)
    /\ \A c \in Calls : HoldsStored(c)

\* The dead do not return.
LEMMA DeadKept ==
    ASSUME PaymentsInv, Grows, KhaltiMovesOn, NEW p \in Pidxs,
           khalti[p].status # "unknown", Dead(p)
    PROVE  Dead(p)'
<1>1. PICK b \in BookingIds : b = khalti[p].booking /\ Present(b)
  BY DEF PaymentsInv, KhaltiOK
<1>2. AmountPaisa(b)' = AmountPaisa(b) /\ khalti'[p].booking = b
  BY <1>1, AmountKept DEF KhaltiMovesOn
<1>3. CASE khalti[p].status \in {"Refunded", "Expired"}
  BY <1>3 DEF Dead, KhaltiMovesOn
<1>4. CASE khalti[p].status = "Completed" /\ khalti[p].total # AmountPaisa(b)
  <2>1. khalti'[p].status \in {"Completed", "Refunded"}
        /\ khalti'[p].total = khalti[p].total
    BY <1>4 DEF KhaltiMovesOn
  <2> QED
    BY <1>2, <1>4, <2>1 DEF Dead
<1> QED
  BY <1>1, <1>3, <1>4 DEF Dead

\* The pidx a handler holds is one of its booking's own.
LEMMA HeldIsMinted ==
    ASSUME MoneyInv, NEW c \in Calls, call[c].at # "idle", call[c].pay.pidx # None
    PROVE  Minted(call[c].pay.pidx, call[c].id)
BY DEF MoneyInv, PairsInv, PaymentsInv, Fits, FieldsOK

\* Nobody wrote payment fields, and nothing was handed out or completed but
\* what its booking names.
LEMMA PidxsStay ==
    ASSUME MoneyInv, Grows, KhaltiMovesOn, UNCHANGED pay,
           \A p \in Pidxs : khalti[p].status # "unknown" =>
              /\ khalti'[p].handed => khalti[p].handed \/ Named(p)
              /\ khalti'[p].status \in {"Completed", "Refunded"} => khalti'[p].handed,
           \A p \in Pidxs : khalti[p].status = "unknown" =>
              \/ khalti'[p].status = "unknown"
              \/ ~khalti'[p].handed /\ khalti'[p].status = "Initiated"
    PROVE  \A p \in Pidxs : PidxKept(p)'
<1> SUFFICES ASSUME NEW p \in Pidxs, khalti'[p].status # "unknown" PROVE PidxKept(p)'
  BY DEF PidxKept
<1>1. CASE khalti[p].status = "unknown"
  BY <1>1 DEF PidxKept
<1>2. CASE khalti[p].status # "unknown"
  <2>1. PidxKept(p)
    BY DEF MoneyInv
  <2>2. Dead(p) => Dead(p)'
    BY <1>2, DeadKept DEF MoneyInv, PairsInv
  <2>3. Named(p) => Named(p)'
    BY <1>2 DEF Named, KhaltiMovesOn
  <2>4. khalti'[p].handed => khalti[p].handed \/ Named(p)
    BY <1>2
  <2> QED
    BY <1>2, <2>1, <2>2, <2>3, <2>4 DEF PidxKept
<1> QED
  BY <1>1, <1>2

\* A step that leaves payment fields and slots alone leaves a handler what it
\* holds.
LEMMA HeldStays ==
    ASSUME MoneyInv, Grows, KhaltiMovesOn, UNCHANGED <<pay, call>>,
           \A p \in Pidxs : khalti'[p].handed => khalti[p].handed,
           NEW c \in Calls
    PROVE  HoldsStored(c)'
<1>1. HoldsStored(c) /\ Fits(call[c]) /\ HoldsPair(call[c])
  BY DEF MoneyInv, PairsInv, PaymentsInv
<1>2. ASSUME call[c].at \in {"pay.void", "pay.clear", "cb.clear"}
      PROVE  Dead(call[c].pay.pidx)'
  <2>1. PICK p \in Pidxs : p = call[c].pay.pidx /\ khalti[p].status # "unknown"
    BY <1>1, <1>2, HeldIsMinted DEF HoldsPair, Minted
  <2>2. Dead(p)'
    BY <1>1, <1>2, <2>1, DeadKept DEF HoldsStored, MoneyInv, PairsInv
  <2> QED
    BY <2>1, <2>2 DEF Dead
<1>3. call[c].at = "pay.save" => ~khalti'[call[c].pidx].handed
  BY <1>1 DEF HoldsStored, Fits, Minted
<1> QED
  BY <1>1, <1>2, <1>3 DEF HoldsStored

-----------------------------------------------------------------------------
(* The steps of the one payment handler                                    *)

MoneyMove(c) == HoldsStored(c)' /\ \A p \in Pidxs : PidxKept(p)'

\* A handler that has only read, or ends.
LEMMA MoneyQuiet ==
    ASSUME MoneyInv, Grows, KhaltiMovesOn, UNCHANGED <<pay, khalti>>,
           NEW c \in Calls,
           \/ EndCall(c)
           \/ \E result : AnswerWith(c, result)
           \/ \E point \in {"pay.apply", "cb.apply", "pay.receipt", "cb.receipt"} :
                 GotoCall(c, point)
    PROVE  MoneyMove(c)
<1>1. \A p \in Pidxs : PidxKept(p)'
  BY PidxsStay DEF MoneyInv, PidxKept
<1>2. call'[c].at \in {"idle", "cb.reply", "pay.apply", "cb.apply", "pay.receipt",
                       "cb.receipt"}
  BY EndFields, AnswerFields, GotoFields DEF MoneyInv, PairsInv, NoCall
<1>3. HoldsStored(c)'
  BY <1>2 DEF HoldsStored
<1> QED
  BY <1>1, <1>3 DEF MoneyMove

LEMMA MoneyReceive ==
    ASSUME MoneyInv, Grows, KhaltiMovesOn, NEW c \in Calls, ReceiveCall(c)
    PROVE  MoneyMove(c)
<1>1. UNCHANGED <<pay, khalti>>
  BY DEF ReceiveCall, InitiatePayment, PaymentCallback
<1>2. \A p \in Pidxs : PidxKept(p)'
  BY <1>1, PidxsStay DEF MoneyInv, PidxKept
<1>3. PICK b \in BookingIds : InitiatePayment(c, b) \/ PaymentCallback(c, b)
  BY DEF ReceiveCall
<1>4. \/ UNCHANGED call /\ call[c].at = "idle"
      \/ /\ call'[c].at \in {"pay.lookup", "pay.mint", "cb.lookup"}
         /\ call'[c].id = b
         /\ call'[c].pay = pay[b]
  <2>1. CASE PaymentCallback(c, b) /\ pay[b].pidx = None
    BY <2>1 DEF PaymentCallback
  <2>2. CASE PaymentCallback(c, b) /\ pay[b].pidx # None
    BY <2>2 DEF PaymentCallback, MoneyInv, PairsInv, PaymentsInv, PaymentsTypeOK, NoCall
  <2>3. CASE InitiatePayment(c, b)
    BY <2>3 DEF InitiatePayment, MoneyInv, PairsInv, PaymentsInv, PaymentsTypeOK, NoCall
  <2> QED
    BY <1>3, <2>1, <2>2, <2>3
<1>5. HoldsStored(c)'
  BY <1>1, <1>4 DEF HoldsStored
<1> QED
  BY <1>2, <1>5 DEF MoneyMove

\* A lookup resumes only the payment the booking names, and goes on to clear it
\* only when it is dead.
LEMMA MoneyLookup ==
    ASSUME MoneyInv, Grows, KhaltiMovesOn, NEW c \in Calls,
           InitiateLookup(c) \/ CallbackLookup(c)
    PROVE  MoneyMove(c)
<1>1. /\ call[c].at \in {"pay.lookup", "cb.lookup"} /\ UNCHANGED <<pay, bookings>>
      /\ HoldsStored(c) /\ HoldsPair(call[c])
      /\ PaymentsInv /\ PairsInv
  BY DEF InitiateLookup, CallbackLookup, MoneyInv, PairsInv, vars
<1>2. PICK p : p = call[c].pay.pidx
  OBVIOUS
<1>3. p \in Pidxs /\ Minted(p, call[c].id) /\ Named(p)
  BY <1>1, <1>2, HeldIsMinted DEF HoldsPair, HoldsStored, Minted, Named
<1>4. CASE UNCHANGED khalti
  <2>1. \/ EndCall(c)
        \/ \E point \in {"pay.apply", "cb.apply"} : GotoCall(c, point)
        \/ /\ \E point \in {"pay.void", "pay.clear", "cb.clear"} : GotoCall(c, point)
           /\ \/ khalti[p].status \in {"Refunded", "Expired"}
              \/ khalti[p].status = "Completed" /\ ~AmountMatches(p, call[c].pay)
    BY <1>2 DEF InitiateLookup, CallbackLookup
  <2>2. CASE EndCall(c) \/ \E point \in {"pay.apply", "cb.apply"} : GotoCall(c, point)
    BY <1>1, <1>4, <2>2, MoneyQuiet
  <2>3. ASSUME NEW point \in {"pay.void", "pay.clear", "cb.clear"}, GotoCall(c, point),
               \/ khalti[p].status \in {"Refunded", "Expired"}
               \/ khalti[p].status = "Completed" /\ ~AmountMatches(p, call[c].pay)
        PROVE  MoneyMove(c)
    <3>1. Dead(p)
      BY <1>1, <1>2, <2>3, MismatchIsWrong DEF Dead, WrongTotal
    <3>2. Dead(p)'
      BY <1>1, <1>3, <3>1, DeadKept DEF Minted
    <3>3. /\ call'[c].at = point
          /\ call'[c].id = call[c].id
          /\ call'[c].pay = call[c].pay
      BY <1>1, <2>3, GotoFields
    <3>4. HoldsStored(c)'
      BY <1>1, <1>2, <3>2, <3>3 DEF HoldsStored, Dead
    <3>5. \A q \in Pidxs : PidxKept(q)'
      BY <1>1, <1>4, PidxsStay DEF MoneyInv, PidxKept
    <3> QED
      BY <3>4, <3>5 DEF MoneyMove
  <2> QED
    BY <2>1, <2>2, <2>3
<1>5. CASE /\ EndCall(c)
           /\ khalti[p].status \in {"Initiated", "Pending"}
           /\ khalti' = [khalti EXCEPT ![p].handed = TRUE]
  <2>1. \A q \in Pidxs :
           /\ khalti'[q].status = khalti[q].status
           /\ khalti'[q].handed = (khalti[q].handed \/ q = p)
    BY <1>1, <1>5, KhaltiHands
  <2>2. \A q \in Pidxs : PidxKept(q)'
    BY <1>1, <1>3, <1>5, <2>1, PidxsStay DEF MoneyInv, PidxKept
  <2>3. call'[c].at = "idle"
    BY <1>1, <1>5, EndFields DEF NoCall
  <2> QED
    BY <2>2, <2>3 DEF MoneyMove, HoldsStored
<1> QED
  BY <1>2, <1>4, <1>5 DEF InitiateLookup, CallbackLookup

\* Clearing takes a dead payment off its booking, and no other.
LEMMA MoneyClear ==
    ASSUME MoneyInv, Grows, KhaltiMovesOn, NEW c \in Calls,
           InitiateClear(c) \/ CallbackClear(c)
    PROVE  MoneyMove(c)
<1>1. /\ HoldsPair(call[c]) /\ HoldsStored(c) /\ Fits(call[c])
      /\ PaymentsInv /\ PairsInv
      /\ call[c].at \in {"pay.void", "pay.clear", "cb.clear"}
      /\ call[c] \in CallSlots /\ call[c].pay \in PaymentFields
      /\ pay \in [BookingIds -> PaymentFields]
      /\ call \in [Calls -> CallSlots]
      /\ UNCHANGED <<khalti, bookings>>
  BY DEF InitiateClear, CallbackClear, MoneyInv, PairsInv, PaymentsInv,
         PaymentsTypeOK, CallSlots, vars
<1>2. PICK b, p : b = call[c].id /\ p = call[c].pay.pidx
  OBVIOUS
<1>3. /\ b \in BookingIds /\ p \in Pidxs /\ Minted(p, b)
      /\ pay[b].pidx = p /\ Dead(p) /\ p # None
  BY <1>1, <1>2, HeldIsMinted DEF HoldsPair, HoldsStored, Fits, Minted
<1>4. pay' = [pay EXCEPT ![b] = Cleared(pay[b], call[c].pay)]
  BY <1>1, <1>2 DEF InitiateClear, CallbackClear
<1>5. pay'[b].pidx = None /\ \A a \in BookingIds \ {b} : pay'[a] = pay[a]
  BY <1>1, <1>3, <1>4 DEF Cleared, PaymentFields
<1>6. ASSUME NEW q \in Pidxs PROVE PidxKept(q)'
  <2>1. PidxKept(q)
    BY DEF MoneyInv
  <2>2. CASE khalti[q].status = "unknown"
    BY <1>1, <2>2 DEF PidxKept
  <2>3. CASE khalti[q].status # "unknown" /\ Dead(q)
    <3>1. Dead(q)'
      BY <1>1, <2>3, DeadKept
    <3> QED
      BY <1>1, <2>1, <3>1 DEF PidxKept
  <2>4. CASE khalti[q].status # "unknown" /\ ~Dead(q) /\ Named(q)
    <3>1. khalti[q].booking \in BookingIds
      BY <1>1, <2>4 DEF PaymentsInv, KhaltiOK
    <3>2. khalti[q].booking # b
      BY <1>3, <2>4 DEF Named
    <3>3. Named(q)'
      BY <1>1, <1>5, <2>4, <3>1, <3>2 DEF Named
    <3> QED
      BY <1>1, <2>1, <3>3 DEF PidxKept
  <2>5. CASE ~khalti[q].handed
    BY <1>1, <2>1, <2>5 DEF PidxKept
  <2> QED
    BY <2>1, <2>2, <2>3, <2>4, <2>5 DEF PidxKept
<1>7. HoldsStored(c)'
  <2>1. CASE CallbackClear(c)
    BY <1>1, <2>1, AnswerFields DEF CallbackClear, HoldsStored
  <2>2. CASE InitiateClear(c) /\ call[c].at = "pay.void"
    BY <1>1, <2>2, EndFields DEF InitiateClear, HoldsStored, NoCall
  <2>3. CASE InitiateClear(c) /\ call[c].at # "pay.void"
    <3>1. /\ call'[c].at = "pay.mint"
          /\ call'[c].id = b
          /\ call'[c].pay = Cleared(call[c].pay, call[c].pay)
      BY <1>1, <1>2, <2>3 DEF InitiateClear, CallSlots
    <3>2. call'[c].pay.pidx = None
      BY <1>1, <3>1 DEF Cleared, PaymentFields
    <3> QED
      BY <1>5, <3>1, <3>2 DEF HoldsStored
  <2> QED
    BY <2>1, <2>2, <2>3
<1> QED
  BY <1>6, <1>7 DEF MoneyMove

\* A new pidx is not handed out before it is recorded.
LEMMA MoneyMint ==
    ASSUME MoneyInv, Grows, KhaltiMovesOn, NEW c \in Calls, InitiateMint(c)
    PROVE  MoneyMove(c)
<1>1. PICK p \in Pidxs :
         /\ khalti[p].status = "unknown"
         /\ khalti'[p].status = "Initiated"
         /\ ~khalti'[p].handed
         /\ \A q \in Pidxs \ {p} : khalti'[q] = khalti[q]
         /\ call'[c].at = "pay.save"
         /\ call'[c].id = call[c].id
         /\ call'[c].pay = call[c].pay
         /\ call'[c].pidx = p
  BY KhaltiMints DEF MoneyInv, PairsInv
<1>2. UNCHANGED pay /\ call[c].at = "pay.mint"
  BY DEF InitiateMint
<1>3. \A q \in Pidxs : PidxKept(q)'
  BY <1>1, <1>2, PidxsStay DEF MoneyInv, PidxKept
<1>4. HoldsStored(c)'
  BY <1>1, <1>2 DEF HoldsStored, MoneyInv
<1> QED
  BY <1>3, <1>4 DEF MoneyMove

\* Recording a new pidx overwrites none.
LEMMA MoneySave ==
    ASSUME MoneyInv, Grows, KhaltiMovesOn, NEW c \in Calls, InitiateSave(c)
    PROVE  MoneyMove(c)
<1>1. /\ HoldsPair(call[c]) /\ HoldsStored(c) /\ Fits(call[c])
      /\ PaymentsInv /\ call[c].at = "pay.save"
      /\ pay \in [BookingIds -> PaymentFields]
      /\ UNCHANGED khalti
  BY DEF InitiateSave, MoneyInv, PairsInv, PaymentsInv, PaymentsTypeOK
<1>2. PICK b, p : b = call[c].id /\ p = call[c].pidx
  OBVIOUS
<1>3. /\ b \in BookingIds /\ p \in Pidxs /\ Minted(p, b)
      /\ pay[b].pidx = None
  BY <1>1, <1>2 DEF HoldsPair, HoldsStored, Fits, Minted
<1>4. pay'[b].pidx = p /\ \A a \in BookingIds \ {b} : pay'[a] = pay[a]
  BY <1>1, <1>2, <1>3 DEF InitiateSave, Recorded, PaymentFields
<1>5. ASSUME NEW q \in Pidxs PROVE PidxKept(q)'
  <2>1. PidxKept(q)
    BY DEF MoneyInv
  <2>2. khalti[q].status # "unknown" /\ Dead(q) => Dead(q)'
    BY <1>1, DeadKept
  <2>3. CASE khalti[q].status # "unknown" /\ Named(q)
    <3>1. khalti[q].booking \in BookingIds \ {b}
      BY <1>1, <1>3, <2>3, PidxsAssumption DEF PaymentsInv, KhaltiOK, Named
    <3>2. Named(q)'
      BY <1>1, <1>4, <2>3, <3>1 DEF Named
    <3> QED
      BY <1>1, <2>1, <3>2 DEF PidxKept
  <2> QED
    BY <1>1, <2>1, <2>2, <2>3 DEF PidxKept
<1>6. /\ call'[c].at = "pay.hand" /\ call'[c].id = b /\ call'[c].pidx = p
  BY <1>1, <1>2, GotoFields DEF InitiateSave
<1>7. HoldsStored(c)'
  BY <1>4, <1>6 DEF HoldsStored
<1> QED
  BY <1>5, <1>7 DEF MoneyMove

\* The URL of the recorded pidx is handed out.
LEMMA MoneyHand ==
    ASSUME MoneyInv, Grows, KhaltiMovesOn, NEW c \in Calls, InitiateHand(c)
    PROVE  MoneyMove(c)
<1>1. /\ HoldsStored(c) /\ Fits(call[c]) /\ PaymentsInv
      /\ call[c].at = "pay.hand" /\ UNCHANGED pay
  BY DEF InitiateHand, MoneyInv, PairsInv, PaymentsInv
<1>2. PICK p : p = call[c].pidx
  OBVIOUS
<1>3. p \in Pidxs /\ Named(p)
  BY <1>1, <1>2 DEF HoldsStored, Fits, Minted, Named
<1>4. \A q \in Pidxs :
         /\ khalti'[q].status = khalti[q].status
         /\ khalti'[q].handed = (khalti[q].handed \/ q = p)
  <2>1. khalti' = [khalti EXCEPT ![p].handed = TRUE]
    BY <1>2 DEF InitiateHand
  <2>2. khalti \in [Pidxs -> KhaltiPayments]
    BY <1>1 DEF PaymentsInv, PaymentsTypeOK
  <2> QED
    BY <2>1, <2>2 DEF KhaltiPayments
<1>5. \A q \in Pidxs : PidxKept(q)'
  BY <1>1, <1>3, <1>4, PidxsStay DEF MoneyInv, PidxKept
<1>6. call'[c].at = "idle"
  BY <1>1, EndFields DEF InitiateHand, NoCall
<1> QED
  BY <1>5, <1>6 DEF MoneyMove, HoldsStored

\* A payment applied stays on its booking.
LEMMA MoneyApply ==
    ASSUME MoneyInv, Grows, KhaltiMovesOn, NEW c \in Calls, Apply(c)
    PROVE  MoneyMove(c)
<1>1. /\ UNCHANGED khalti /\ PaymentsInv
      /\ pay \in [BookingIds -> PaymentFields]
  BY DEF Apply, MoneyInv, PairsInv, PaymentsInv, PaymentsTypeOK
<1>2. \A a \in BookingIds : pay'[a].pidx = pay[a].pidx
  BY <1>1 DEF Apply, PaymentFields
<1>3. ASSUME NEW q \in Pidxs PROVE PidxKept(q)'
  <2>1. PidxKept(q)
    BY DEF MoneyInv
  <2>2. khalti[q].status # "unknown" /\ Dead(q) => Dead(q)'
    BY <1>1, DeadKept
  <2>3. khalti[q].status # "unknown" /\ Named(q) => Named(q)'
    BY <1>1, <1>2 DEF Named, PaymentsInv, KhaltiOK
  <2> QED
    BY <1>1, <2>1, <2>2, <2>3 DEF PidxKept
<1>4. PICK point \in {"pay.receipt", "cb.receipt"} : GotoCall(c, point)
  BY DEF Apply
<1>5. call'[c].at = point
  BY <1>1, <1>4, GotoFields
<1>6. HoldsStored(c)'
  BY <1>5 DEF HoldsStored
<1> QED
  BY <1>3, <1>6 DEF MoneyMove

LEMMA MoneyContinue ==
    ASSUME MoneyInv, Grows, KhaltiMovesOn, NEW c \in Calls,
           ReceiveCall(c) \/ ContinueCall(c) \/ FailCall(c)
    PROVE  MoneyMove(c)
<1>1. CASE CallbackReply(c) \/ AlreadyApplied(c) \/ Receipt(c) \/ FailCall(c)
  BY <1>1, MoneyQuiet DEF CallbackReply, AlreadyApplied, Receipt, FailCall
<1> QED
  BY <1>1, MoneyReceive, MoneyLookup, MoneyClear, MoneyMint, MoneySave, MoneyHand,
     MoneyApply DEF ContinueCall

\* What a payment handler does to payments: those of other bookings it leaves
\* alone, and from a point where it does not rely on the pidx, all of them.
Aside(c) ==
    /\ \A d \in Calls \ {c} : call'[d] = call[d]
    /\ \A b \in BookingIds :
          pay'[b].pidx = pay[b].pidx \/ (call[c].at \in Recording /\ b = call[c].id)
    /\ \A p \in Pidxs : khalti[p].status # "unknown" /\ khalti'[p].handed =>
          khalti[p].handed \/ (call[c].at \in Recording /\ Minted(p, call[c].id))

LEMMA StepsAside ==
    ASSUME MoneyInv, NEW c \in Calls,
           ReceiveCall(c) \/ ContinueCall(c) \/ FailCall(c)
    PROVE  Aside(c)
<1> USE DEF Recording
<1>1. /\ PaymentsInv /\ HoldsPair(call[c]) /\ Fits(call[c])
      /\ pay \in [BookingIds -> PaymentFields] /\ call \in [Calls -> CallSlots]
  BY DEF MoneyInv, PairsInv, PaymentsInv, PaymentsTypeOK
<1>2. CASE ReceiveCall(c)
  BY <1>1, <1>2 DEF ReceiveCall, InitiatePayment, PaymentCallback, Aside
<1>3. CASE CallbackReply(c) \/ AlreadyApplied(c) \/ Receipt(c) \/ FailCall(c)
  BY <1>1, <1>3, EndFields, AnswerFields, GotoFields
  DEF CallbackReply, AlreadyApplied, Receipt, FailCall, Aside
<1>4. CASE InitiateLookup(c) \/ CallbackLookup(c)
  <2>1. /\ call[c].at \in {"pay.lookup", "cb.lookup"} /\ UNCHANGED pay
        /\ \/ UNCHANGED khalti
           \/ khalti' = [khalti EXCEPT ![call[c].pay.pidx].handed = TRUE]
        /\ \/ EndCall(c)
           \/ \E point : GotoCall(c, point)
           \/ \E result : AnswerWith(c, result)
    BY <1>4 DEF InitiateLookup, CallbackLookup
  <2>2. Minted(call[c].pay.pidx, call[c].id)
    BY <2>1, HeldIsMinted DEF MoneyInv, PairsInv, HoldsPair
  <2>3. \A d \in Calls \ {c} : call'[d] = call[d]
    BY <1>1, <2>1, EndFields, GotoFields, AnswerFields
  <2>4. \A p \in Pidxs : khalti'[p].handed => khalti[p].handed \/ p = call[c].pay.pidx
    BY <1>1, <2>1, KhaltiHands
  <2> QED
    BY <2>1, <2>2, <2>3, <2>4 DEF Aside
<1>5. CASE InitiateClear(c) \/ CallbackClear(c)
  <2>1. \A d \in Calls \ {c} : call'[d] = call[d]
    BY <1>1, <1>5, EndFields, AnswerFields DEF InitiateClear, CallbackClear
  <2>2. \A b \in BookingIds \ {call[c].id} : pay'[b] = pay[b]
    BY <1>1, <1>5 DEF InitiateClear, CallbackClear
  <2> QED
    BY <1>5, <2>1, <2>2 DEF InitiateClear, CallbackClear, Aside
<1>6. CASE InitiateMint(c)
  BY <1>1, <1>6, KhaltiMints DEF InitiateMint, Aside
<1>7. CASE InitiateSave(c)
  <2>1. \A b \in BookingIds \ {call[c].id} : pay'[b] = pay[b]
    BY <1>1, <1>7 DEF InitiateSave
  <2> QED
    BY <1>1, <1>7, <2>1, GotoFields DEF InitiateSave, Aside
<1>8. CASE InitiateHand(c)
  <2>1. call[c].at = "pay.hand" /\ Minted(call[c].pidx, call[c].id)
    BY <1>1, <1>8 DEF InitiateHand, Fits
  <2>2. \A p \in Pidxs : khalti'[p].handed => khalti[p].handed \/ p = call[c].pidx
    BY <1>1, <1>8, KhaltiHands DEF InitiateHand
  <2> QED
    BY <1>1, <1>8, <2>1, <2>2, EndFields DEF InitiateHand, Aside
<1>9. CASE Apply(c)
  BY <1>1, <1>9, GotoFields DEF Apply, PaymentFields, Aside
<1> QED
  BY <1>2, <1>3, <1>4, <1>5, <1>6, <1>7, <1>8, <1>9 DEF ContinueCall

\* The other payment handlers keep what they hold.
LEMMA MoneyAside ==
    ASSUME MoneyInv, PaymentsApart, Grows, KhaltiMovesOn, NEW c \in Calls,
           ReceiveCall(c) \/ ContinueCall(c) \/ FailCall(c),
           NEW d \in Calls \ {c}
    PROVE  HoldsStored(d)'
<1>1. Aside(c)
  BY StepsAside
<1>2. /\ call'[d] = call[d]
      /\ HoldsStored(d) /\ Fits(call[d]) /\ HoldsPair(call[d])
  BY <1>1 DEF Aside, MoneyInv, PairsInv, PaymentsInv
<1>3. CASE call[d].at \notin Recording
  BY <1>2, <1>3 DEF HoldsStored, Recording
<1>4. CASE call[d].at \in Recording
  <2>1. /\ call[d].id \in BookingIds /\ call[d].at # "idle"
        /\ call[c].at \in Recording => call[c].id # call[d].id
    BY <1>2, <1>4 DEF PaymentsApart, Fits, Recording
  <2>2. pay'[call[d].id].pidx = pay[call[d].id].pidx
    BY <1>1, <2>1 DEF Aside
  <2>3. ASSUME call[d].at \in {"pay.void", "pay.clear", "cb.clear"}
        PROVE  Dead(call[d].pay.pidx)'
    <3>1. PICK p \in Pidxs : p = call[d].pay.pidx /\ khalti[p].status # "unknown"
      BY <1>2, <2>3, HeldIsMinted DEF HoldsPair, Minted
    <3>2. Dead(p)'
      BY <1>2, <2>3, <3>1, DeadKept DEF HoldsStored, MoneyInv, PairsInv
    <3> QED
      BY <1>2, <3>1, <3>2 DEF Dead
  <2>4. call[d].at = "pay.save" => ~khalti'[call[d].pidx].handed
    BY <1>1, <1>2, <2>1 DEF Aside, HoldsStored, Fits, Minted
  <2> QED
    BY <1>2, <2>2, <2>3, <2>4 DEF HoldsStored
<1> QED
  BY <1>3, <1>4

LEMMA MoneyKeeps ==
    ASSUME ChangesApart, PaymentsApart, MoneyInv, [PaymentsNext]_allVars
    PROVE  MoneyInv'
<1>1. PairsInv'
  BY PairsKeep DEF MoneyInv
<1>2. Grows /\ KhaltiMovesOn
  BY StepMovesOn DEF MoneyInv, PairsInv
<1>3. ASSUME NEW c \in Calls, ReceiveCall(c) \/ ContinueCall(c) \/ FailCall(c)
      PROVE  MoneyInv'
  <2>1. MoneyMove(c)
    BY <1>2, <1>3, MoneyContinue
  <2>2. \A d \in Calls \ {c} : HoldsStored(d)'
    BY <1>2, <1>3, MoneyAside
  <2> QED
    BY <1>1, <2>1, <2>2 DEF MoneyMove, MoneyInv
<1>4. ASSUME UNCHANGED <<pay, call, khalti>> PROVE MoneyInv'
  <2>1. \A p \in Pidxs : PidxKept(p)'
    BY <1>2, <1>4, PidxsStay DEF MoneyInv, PidxKept
  <2>2. \A c \in Calls : HoldsStored(c)'
    BY <1>2, <1>4, HeldStays
  <2> QED
    BY <1>1, <2>1, <2>2 DEF MoneyInv
<1>5. ASSUME NEW p \in Pidxs, PayerPays(p) \/ KhaltiMoves(p) PROVE MoneyInv'
  <2>1. UNCHANGED <<pay, call>>
    BY <1>5 DEF PayerPays, KhaltiMoves
  <2>2. /\ \A q \in Pidxs \ {p} : khalti'[q] = khalti[q]
        /\ khalti[p].status # "unknown"
        /\ khalti'[p].handed = khalti[p].handed
        /\ khalti'[p].status \in {"Completed", "Refunded"} =>
              khalti[p].handed \/ khalti[p].status = "Completed"
    BY <1>5, KhaltiChanges DEF MoneyInv, PairsInv
  <2>3. \A q \in Pidxs : PidxKept(q)'
    BY <1>2, <2>1, <2>2, PidxsStay DEF MoneyInv, PidxKept
  <2>4. \A c \in Calls : HoldsStored(c)'
    BY <1>2, <2>1, <2>2, HeldStays
  <2> QED
    BY <1>1, <2>3, <2>4 DEF MoneyInv
<1>6. BookingStep \/ UNCHANGED allVars => UNCHANGED <<pay, call, khalti>>
  BY DEF BookingStep, payVars, allVars
<1> QED
  BY <1>3, <1>4, <1>5, <1>6 DEF PaymentsNext

LEMMA MoneyInit == PaymentsInit => MoneyInv
<1> SUFFICES ASSUME PaymentsInit PROVE MoneyInv
  OBVIOUS
<1>1. \A p \in Pidxs : PidxKept(p)
  BY DEF PaymentsInit, PidxKept, Unknown
<1>2. \A c \in Calls : HoldsStored(c)
  BY DEF PaymentsInit, HoldsStored, NoCall
<1> QED
  BY <1>1, <1>2, PairsInit DEF MoneyInv

\* Every URL handed out is of a pidx that its booking names or Khalti has closed:
\* pidx and amount are forgotten only once they can no longer be paid
\* (initiatePayment, paymentCallback, clearPendingPayment).
THEOREM MoneyIsKept ==
    PaymentsSpec /\ []ChangesApart /\ []PaymentsApart => []MoneyInv
<1>1. ChangesApart /\ PaymentsApart /\ MoneyInv /\ [PaymentsNext]_allVars => MoneyInv'
  BY MoneyKeeps
<1> QED
  BY <1>1, MoneyInit, PTL DEF PaymentsSpec

\* A completed payment of the right amount is named by its booking, where the
\* callback or the next initiation finds it, wherever a handler died.
THEOREM PaymentsAreFound ==
    PaymentsSpec /\ []ChangesApart /\ []PaymentsApart => []NoPaymentLost
<1>1. MoneyInv => NoPaymentLost
  BY DEF MoneyInv, NoPaymentLost, PidxKept, Dead, Named
<1> QED
  BY <1>1, MoneyIsKept, PTL

\* The borrower never has two payments open for one booking.
THEOREM OnePaymentIsOpen ==
    PaymentsSpec /\ []ChangesApart /\ []PaymentsApart => []OneLivePidx
<1>1. MoneyInv => OneLivePidx
  BY DEF MoneyInv, OneLivePidx, Payable, PidxKept, Dead, Named
<1> QED
  BY <1>1, MoneyIsKept, PTL

=============================================================================
