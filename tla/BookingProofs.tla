---------------------------- MODULE BookingProofs ----------------------------
(***************************************************************************)
(* The invariants of the booking handlers, proved for any users, listings, *)
(* periods, number of bookings and number of overlapping handlers.         *)
(***************************************************************************)
EXTENDS BookingProperties, TLAPS

-----------------------------------------------------------------------------
(* The inductive invariant                                                 *)

SameParties(d, e) == d.borrower = e.borrower /\ d.lender = e.lender

SameAmounts(d, e) == d.fee = e.fee /\ d.deposit = e.deposit

\* A stored booking is between two people, and the borrower requested it.
\* An id without a document has no history.
DocumentsInv ==
    \A b \in BookingIds :
        /\ Present(b) =>
              /\ bookings[b].borrower \in Users
              /\ bookings[b].lender \in Users
              /\ bookings[b].borrower # bookings[b].lender
              /\ bookings[b].history # <<>>
              /\ bookings[b].history[1].status = "requested"
              /\ bookings[b].history[1].by = bookings[b].borrower
              /\ LastStatus(bookings[b].history) = bookings[b].status
        /\ ~Present(b) => bookings[b].history = <<>>

Creating(r) == req[r].at \in {"create.clash", "create.insert"}

Stored(r) ==
    req[r].at \in {"create.seal", "create.notify", "change.save",
                   "change.notify", "resolve.save"}

\* A handler about to insert holds a request nobody else can insert.
CreatingOK(r) ==
    /\ req[r].id \in BookingIds
    /\ ~Present(req[r].id)
    /\ \A q \in Requests \ {r} : req[q].id # req[r].id
    /\ req[r].doc.borrower \in Users
    /\ req[r].doc.lender \in Users
    /\ req[r].doc.borrower # req[r].doc.lender
    /\ req[r].doc.status = "requested"
    /\ req[r].doc.history =
          <<[status |-> "requested", by |-> req[r].doc.borrower]>>
    /\ req[r].doc.hash = NoHash

\* A handler that read a stored booking holds its parties and amounts, and
\* what it read is still in the history.
StoredOK(r) ==
    /\ req[r].id \in BookingIds
    /\ Present(req[r].id)
    /\ SameParties(req[r].doc, bookings[req[r].id])
    /\ SameAmounts(req[r].doc, bookings[req[r].id])

SavingOK(r) ==
    /\ HasBeen(req[r].id, req[r].doc.status)
    /\ req[r].user \in Users
    /\ req[r].to \in Statuses \ {"paid"}
    /\ LegalStep(req[r].doc, req[r].to, req[r].user, Admins)

\* The status about to be notified was reached, by the one who acted.
ReachedBy(b, status, user) ==
    \E i \in DOMAIN bookings[b].history :
        /\ bookings[b].history[i].status = status
        /\ bookings[b].history[i].by = user

SlotOK(r) ==
    /\ Creating(r) => CreatingOK(r)
    /\ Stored(r) => StoredOK(r)
    /\ req[r].at = "create.seal" => req[r].doc.status = "requested"
    /\ req[r].at \in {"change.save", "resolve.save"} => SavingOK(r)
    /\ req[r].at \in {"change.save", "change.notify"} =>
          req[r].user \in {req[r].doc.borrower, req[r].doc.lender}
    /\ req[r].at = "change.notify" =>
          ReachedBy(req[r].id, req[r].to, req[r].user)

SlotsInv == \A r \in Requests : SlotOK(r)

BookingsInv ==
    /\ TypeOK
    /\ DocumentsInv
    /\ SlotsInv
    /\ HistoryJustified
    /\ OnlySealCanLag
    /\ NoticesJustified

-----------------------------------------------------------------------------
(* Facts about the table and about hashes                                  *)

\* No rule of the table leads to 'requested', 'paid' or 'resolved': those are
\* reached by creation, verification and the administrator only.
LEMMA RuleTargets ==
    \A rule \in TRANSITIONS :
        /\ rule.to \in Statuses \ {"requested", "paid", "resolved"}
        /\ rule.from \subseteq Statuses
BY DEF TRANSITIONS, Statuses

\* A finished booking allows no further step, by anyone.
THEOREM TerminalIsFinal ==
    ASSUME NEW booking, booking.status \in TERMINAL,
           NEW to, NEW user, NEW admins
    PROVE  ~LegalStep(booking, to, user, admins)
BY DEF TERMINAL, LegalStep, Evaluate, TRANSITIONS

\* What the machine allows depends on the status and the parties alone.
LEMMA LegalStepDepends ==
    ASSUME NEW d, NEW e, NEW to, NEW user,
           SameParties(d, e), d.status = e.status,
           LegalStep(d, to, user, Admins)
    PROVE  LegalStep(e, to, user, Admins)
BY DEF LegalStep, Evaluate, SameParties

LEMMA HashType ==
    ASSUME NEW d \in Documents
    PROVE  ComputeIntegrityHash(d) \in Hashes
BY DEF ComputeIntegrityHash, Documents, Hashes

LEMMA AbsentType == Absent \in Documents
<1>1. <<>> \in Seq(HistoryEntries)
  OBVIOUS
<1> QED
  BY <1>1 DEF Absent, Documents, NoHash, Hashes

\* Appending to a history keeps its entries and puts the new one last.
LEMMA AppendEntry ==
    ASSUME NEW h \in Seq(HistoryEntries), NEW e \in HistoryEntries
    PROVE  /\ Append(h, e) \in Seq(HistoryEntries)
           /\ DOMAIN Append(h, e) = 1..(Len(h) + 1)
           /\ Len(Append(h, e)) = Len(h) + 1
           /\ \A i \in 1..Len(h) : Append(h, e)[i] = h[i]
           /\ Append(h, e)[Len(h) + 1] = e
           /\ Append(h, e) # <<>>
           /\ IsPrefixOf(h, Append(h, e))
<1>1. Append(h, e) \in Seq(HistoryEntries)
  OBVIOUS
<1>2. Len(h) \in Nat /\ Len(Append(h, e)) = Len(h) + 1
  OBVIOUS
<1>3. DOMAIN Append(h, e) = 1..(Len(h) + 1)
  BY <1>1, <1>2
<1>4. \A i \in 1..Len(h) : Append(h, e)[i] = h[i]
  OBVIOUS
<1>5. Append(h, e)[Len(h) + 1] = e
  OBVIOUS
<1>6. Append(h, e) # <<>>
  BY <1>2
<1>7. IsPrefixOf(h, Append(h, e))
  BY <1>2, <1>4 DEF IsPrefixOf
<1> QED
  BY <1>1, <1>2, <1>3, <1>4, <1>5, <1>6, <1>7

-----------------------------------------------------------------------------
(* One booking takes a step: what changeStatus, resolveDispute and         *)
(* applyVerifiedPayment have in common.                                    *)

\* The booking document with a new status, its history entry and its hash.
Stepped(b, to, user, hash) ==
    [bookings EXCEPT
        ![b].status  = to,
        ![b].history = Append(@, [status |-> to, by |-> user]),
        ![b].hash    = hash]

\* What no step takes away from a stored booking.
Grows ==
    \A c \in BookingIds :
        /\ IsPrefixOf(bookings[c].history, bookings'[c].history)
        /\ Present(c) =>
              /\ bookings'[c].status # "absent"
              /\ SameParties(bookings[c], bookings'[c])
              /\ SameAmounts(bookings[c], bookings'[c])

\* A history extends itself.
LEMMA PrefixReflexive ==
    \A h \in Seq(HistoryEntries) : IsPrefixOf(h, h)
BY DEF IsPrefixOf

\* Such a step, taken by an entitled user from a status the booking has had,
\* keeps every document invariant.
LEMMA StepKeepsDocuments ==
    ASSUME BookingsInv,
           NEW b \in BookingIds, Present(b),
           NEW to \in Statuses, NEW user \in Users, NEW hash \in Hashes,
           hash = ComputeIntegrityHash([bookings[b] EXCEPT !.status = to]),
           NEW from, HasBeen(b, from),
           LegalStep([bookings[b] EXCEPT !.status = from], to, user, Admins),
           to = "paid" => from = bookings[b].status,
           bookings' = Stepped(b, to, user, hash)
    PROVE  /\ bookings' \in [BookingIds -> Documents]
           /\ DocumentsInv'
           /\ HistoryJustified'
           /\ OnlySealCanLag'
           /\ Grows
           /\ ReachedBy(b, to, user)'
           /\ \A c \in BookingIds : Present(c)' => Present(c)
<1> DEFINE e == [status |-> to, by |-> user]
           h == bookings[b].history
<1>1. /\ bookings \in [BookingIds -> Documents]
      /\ bookings[b] \in Documents
      /\ h \in Seq(HistoryEntries)
      /\ e \in HistoryEntries
  BY DEF BookingsInv, TypeOK, Documents, HistoryEntries
<1>2. /\ bookings'[b] = [bookings[b] EXCEPT !.status = to, !.history = Append(h, e),
                                            !.hash = hash]
      /\ \A c \in BookingIds \ {b} : bookings'[c] = bookings[c]
  BY DEF BookingsInv, TypeOK, Stepped
<1>3. /\ bookings'[b].status = to
      /\ bookings'[b].history = Append(h, e)
      /\ bookings'[b].hash = hash
      /\ SameParties(bookings[b], bookings'[b])
      /\ SameAmounts(bookings[b], bookings'[b])
  BY <1>1, <1>2 DEF Documents, SameParties, SameAmounts
<1>4. /\ Append(h, e) \in Seq(HistoryEntries)
      /\ DOMAIN Append(h, e) = 1..(Len(h) + 1)
      /\ Len(Append(h, e)) = Len(h) + 1
      /\ \A i \in 1..Len(h) : Append(h, e)[i] = h[i]
      /\ Append(h, e)[Len(h) + 1] = e
      /\ Append(h, e) # <<>>
      /\ IsPrefixOf(h, Append(h, e))
  BY <1>1, AppendEntry
<1> HIDE DEF e, h
<1>5. to # "absent"
  BY DEF Statuses
<1>6. bookings' \in [BookingIds -> Documents]
  <2>1. bookings'[b] \in Documents
    BY <1>1, <1>2, <1>4 DEF Documents
  <2>2. DOMAIN bookings' = BookingIds /\ bookings' = [c \in BookingIds |-> bookings'[c]]
    BY <1>1 DEF Stepped
  <2> QED
    BY <2>1, <2>2, <1>1, <1>2
<1>7. \A c \in BookingIds : Present(c)' <=> Present(c)
  BY <1>2, <1>3, <1>5 DEF Present
<1>8. Grows
  <2> SUFFICES ASSUME NEW c \in BookingIds
               PROVE  /\ IsPrefixOf(bookings[c].history, bookings'[c].history)
                      /\ Present(c) =>
                            /\ bookings'[c].status # "absent"
                            /\ SameParties(bookings[c], bookings'[c])
                            /\ SameAmounts(bookings[c], bookings'[c])
    BY DEF Grows
  <2>1. CASE c = b
    BY <2>1, <1>3, <1>4, <1>5 DEF h
  <2>2. CASE c # b
    <3>1. bookings'[c] = bookings[c] /\ bookings[c].history \in Seq(HistoryEntries)
      BY <2>2, <1>1, <1>2 DEF Documents
    <3> QED
      BY <3>1, PrefixReflexive DEF Present, SameParties, SameAmounts
  <2> QED
    BY <2>1, <2>2
<1>9. DocumentsInv'
  <2>1. ASSUME NEW c \in BookingIds \ {b}
        PROVE  /\ Present(c)' =>
                    /\ bookings'[c].borrower \in Users
                    /\ bookings'[c].lender \in Users
                    /\ bookings'[c].borrower # bookings'[c].lender
                    /\ bookings'[c].history # <<>>
                    /\ bookings'[c].history[1].status = "requested"
                    /\ bookings'[c].history[1].by = bookings'[c].borrower
                    /\ LastStatus(bookings'[c].history) = bookings'[c].status
               /\ ~Present(c)' => bookings'[c].history = <<>>
    BY <2>1, <1>2, <1>7 DEF BookingsInv, DocumentsInv
  <2>2. h # <<>> /\ Len(h) \in Nat /\ Len(h) >= 1
    BY <1>1 DEF BookingsInv, DocumentsInv, h
  <2>3. /\ bookings'[b].borrower \in Users
        /\ bookings'[b].lender \in Users
        /\ bookings'[b].borrower # bookings'[b].lender
    BY <1>3 DEF BookingsInv, DocumentsInv, SameParties
  <2>4. /\ bookings'[b].history[1].status = "requested"
        /\ bookings'[b].history[1].by = bookings'[b].borrower
    <3>1. Append(h, e)[1] = h[1]
      BY <2>2, <1>4
    <3>2. h[1].status = "requested" /\ h[1].by = bookings[b].borrower
      BY DEF BookingsInv, DocumentsInv, h
    <3> QED
      BY <3>1, <3>2, <1>3 DEF SameParties
  <2>5. LastStatus(bookings'[b].history) = bookings'[b].status
    BY <1>3, <1>4 DEF LastStatus, e
  <2>6. Present(b)' /\ bookings'[b].history # <<>>
    BY <1>3, <1>4, <1>7
  <2> QED
    BY <2>1, <2>3, <2>4, <2>5, <2>6 DEF DocumentsInv
<1>10. HistoryJustified'
  <2> SUFFICES ASSUME NEW c \in BookingIds, NEW i \in DOMAIN bookings'[c].history \ {1}
               PROVE  \E j \in 1..(i - 1) :
                         /\ JustifiedBy(c, i, j)'
                         /\ bookings'[c].history[i].status = "paid" => j = i - 1
    BY DEF HistoryJustified
  <2>1. CASE c # b
    <3>1. bookings'[c] = bookings[c]
      BY <2>1, <1>2
    <3> QED
      BY <3>1 DEF BookingsInv, HistoryJustified, JustifiedBy
  <2>2. CASE c = b /\ i \in 1..Len(h)
    <3>1. i \in DOMAIN h \ {1} /\ Len(h) \in Nat
      BY <2>2, <1>1
    <3>2. PICK j \in 1..(i - 1) : /\ JustifiedBy(b, i, j)
                                  /\ h[i].status = "paid" => j = i - 1
      BY <3>1 DEF BookingsInv, HistoryJustified, h
    <3>3. bookings'[b].history[i] = h[i] /\ bookings'[b].history[j] = h[j]
      <4>1. j \in 1..Len(h)
        BY <2>2, <3>1
      <4> QED
        BY <2>2, <4>1, <1>3, <1>4
    <3> DEFINE d == [bookings[b] EXCEPT !.status = h[j].status]
               d1 == [bookings'[b] EXCEPT !.status = h[j].status]
    <3>4. LegalStep(d, h[i].status, h[i].by, Admins)
      BY <3>2 DEF JustifiedBy, h
    <3>5. SameParties(d, d1) /\ d.status = d1.status
      BY <1>1, <1>2, <1>3, <1>6 DEF SameParties, Documents
    <3> HIDE DEF d, d1
    <3>6. LegalStep(d1, h[i].status, h[i].by, Admins)
      BY <3>4, <3>5, LegalStepDepends
    <3>7. JustifiedBy(b, i, j)'
      BY <3>3, <3>6 DEF JustifiedBy, d1
    <3> QED
      BY <2>2, <3>2, <3>3, <3>7
  <2>3. CASE c = b /\ i = Len(h) + 1
    <3>1. Len(h) \in Nat /\ Len(h) >= 1 /\ DOMAIN h = 1..Len(h)
      BY <1>1 DEF BookingsInv, DocumentsInv, h
    <3>2. PICK j \in DOMAIN h : /\ h[j].status = from
                                /\ to = "paid" => j = Len(h)
      <4>1. CASE to = "paid"
        <5>1. h[Len(h)].status = from
          BY <4>1 DEF BookingsInv, DocumentsInv, LastStatus, h
        <5> QED
          BY <5>1, <3>1
      <4>2. CASE to # "paid"
        BY <4>2 DEF HasBeen, h
      <4> QED
        BY <4>1, <4>2
    <3>3. j \in 1..(i - 1) /\ bookings'[b].history[j] = h[j] /\ bookings'[b].history[i] = e
      BY <2>3, <3>1, <1>3, <1>4
    <3> DEFINE d == [bookings[b] EXCEPT !.status = from]
               d1 == [bookings'[b] EXCEPT !.status = from]
    <3>4. LegalStep(d, e.status, e.by, Admins)
      BY DEF e
    <3>5. SameParties(d, d1) /\ d.status = d1.status
      BY <1>1, <1>2, <1>3, <1>6 DEF SameParties, Documents
    <3> HIDE DEF d, d1
    <3>6. LegalStep(d1, e.status, e.by, Admins)
      BY <3>4, <3>5, LegalStepDepends
    <3>7. JustifiedBy(b, i, j)'
      BY <3>2, <3>3, <3>6 DEF JustifiedBy, d1
    <3>8. bookings'[b].history[i].status = "paid" => j = i - 1
      BY <2>3, <3>1, <3>2, <3>3 DEF e
    <3> QED
      BY <2>3, <3>3, <3>7, <3>8
  <2>4. c = b => i \in 1..Len(h) \/ i = Len(h) + 1
    BY <1>1, <1>3, <1>4
  <2> QED
    BY <2>1, <2>2, <2>3, <2>4
<1>11. OnlySealCanLag'
  <2>1. bookings'[b].hash = ComputeIntegrityHash(bookings'[b])
    BY <1>1, <1>2, <1>3 DEF ComputeIntegrityHash, Documents
  <2> QED
    BY <2>1, <1>2, <1>7 DEF BookingsInv, OnlySealCanLag
<1>12. ReachedBy(b, to, user)'
  <2>1. Len(h) + 1 \in DOMAIN bookings'[b].history
    BY <1>1, <1>3, <1>4
  <2> QED
    BY <2>1, <1>3, <1>4 DEF ReachedBy, e
<1> QED
  BY <1>6, <1>7, <1>8, <1>9, <1>10, <1>11, <1>12

-----------------------------------------------------------------------------
(* What a step leaves alone stays justified                                *)

\* A step that writes no booking keeps what is said of bookings alone.
LEMMA BookingsUntouched ==
    ASSUME BookingsInv, UNCHANGED bookings
    PROVE  /\ bookings' \in [BookingIds -> Documents]
           /\ DocumentsInv'
           /\ HistoryJustified'
           /\ OnlySealCanLag'
           /\ Grows
           /\ \A c \in BookingIds : Present(c)' => Present(c)
<1>1. /\ bookings' \in [BookingIds -> Documents]
      /\ DocumentsInv'
      /\ OnlySealCanLag'
      /\ \A c \in BookingIds : Present(c)' => Present(c)
  BY DEF BookingsInv, TypeOK, DocumentsInv, OnlySealCanLag, Present
<1>2. HistoryJustified'
  BY DEF BookingsInv, HistoryJustified, JustifiedBy
<1>3. Grows
  <2>1. \A c \in BookingIds : bookings[c].history \in Seq(HistoryEntries)
    BY DEF BookingsInv, TypeOK, Documents
  <2> QED
    BY <2>1, PrefixReflexive DEF Grows, Present, SameParties, SameAmounts
<1> QED
  BY <1>1, <1>2, <1>3

\* An entry of a history that grows is still there, at the same place.
LEMMA EntryKept ==
    ASSUME bookings \in [BookingIds -> Documents],
           bookings' \in [BookingIds -> Documents],
           Grows,
           NEW b \in BookingIds, NEW i \in DOMAIN bookings[b].history
    PROVE  /\ i \in DOMAIN bookings'[b].history
           /\ bookings'[b].history[i] = bookings[b].history[i]
<1>1. /\ bookings[b].history \in Seq(HistoryEntries)
      /\ bookings'[b].history \in Seq(HistoryEntries)
  BY DEF Documents
<1>2. IsPrefixOf(bookings[b].history, bookings'[b].history)
  BY DEF Grows
<1> QED
  BY <1>1, <1>2 DEF IsPrefixOf

\* Notices already sent stay justified while histories grow.
LEMMA NoticesKept ==
    ASSUME BookingsInv, Grows, bookings' \in [BookingIds -> Documents],
           NEW n \in notices
    PROVE  /\ n.to \in {bookings'[n.booking].borrower, bookings'[n.booking].lender}
           /\ \E i \in DOMAIN bookings'[n.booking].history :
                 /\ bookings'[n.booking].history[i].status = n.status
                 /\ bookings'[n.booking].history[i].by # n.to
<1> DEFINE b == n.booking
<1>1. b \in BookingIds /\ bookings \in [BookingIds -> Documents]
  BY DEF BookingsInv, TypeOK, Notices
<1>2. PICK i \in DOMAIN bookings[b].history :
         /\ bookings[b].history[i].status = n.status
         /\ bookings[b].history[i].by # n.to
  BY DEF BookingsInv, NoticesJustified
<1>3. bookings[b].history # <<>>
  BY <1>2
<1>4. Present(b)
  BY <1>1, <1>3 DEF BookingsInv, DocumentsInv
<1>5. /\ i \in DOMAIN bookings'[b].history
      /\ bookings'[b].history[i] = bookings[b].history[i]
  BY <1>1, <1>2, EntryKept
<1>6. SameParties(bookings[b], bookings'[b])
  BY <1>1, <1>4 DEF Grows
<1>7. n.to \in {bookings[b].borrower, bookings[b].lender}
  BY DEF BookingsInv, NoticesJustified
<1> QED
  BY <1>2, <1>5, <1>6, <1>7 DEF SameParties

\* A handler that did not move keeps what it may rely on, provided that nobody
\* inserted under, or claimed, the id it is about to insert.
LEMMA SlotKept ==
    ASSUME BookingsInv, Grows, bookings' \in [BookingIds -> Documents],
           NEW q \in Requests, req'[q] = req[q],
           Creating(q) =>
              /\ bookings'[req[q].id].status = "absent"
              /\ \A p \in Requests \ {q} : req'[p].id # req[q].id
    PROVE  SlotOK(q)'
<1> DEFINE b == req[q].id
<1>1. SlotOK(q)
  BY DEF BookingsInv, SlotsInv
<1>2. ASSUME Creating(q) PROVE CreatingOK(q)'
  BY <1>1, <1>2 DEF SlotOK, CreatingOK, Present
<1>3. ASSUME Stored(q)
      PROVE  /\ StoredOK(q)'
             /\ b \in BookingIds
             /\ bookings \in [BookingIds -> Documents]
  BY <1>1, <1>3 DEF SlotOK, StoredOK, Grows, SameParties, SameAmounts, Present,
                    BookingsInv, TypeOK
<1>4. ASSUME req[q].at \in {"change.save", "resolve.save"} PROVE SavingOK(q)'
  <2>1. Stored(q) /\ SavingOK(q)
    BY <1>1, <1>4 DEF SlotOK, Stored
  <2>2. HasBeen(b, req[q].doc.status)'
    BY <1>1, <1>3, <2>1, EntryKept DEF HasBeen, SavingOK
  <2> QED
    BY <1>1, <2>1, <2>2 DEF SavingOK, HasBeen
<1>5. ASSUME req[q].at = "change.notify"
      PROVE  ReachedBy(req[q].id, req[q].to, req[q].user)'
  <2>1. Stored(q) /\ ReachedBy(b, req[q].to, req[q].user)
    BY <1>1, <1>5 DEF SlotOK, Stored
  <2> QED
    BY <1>1, <1>3, <2>1, EntryKept DEF ReachedBy
<1> QED
  BY <1>1, <1>2, <1>3, <1>4, <1>5 DEF SlotOK, Creating, Stored

-----------------------------------------------------------------------------
(* A step of the handler in slot r                                         *)

NoticeOK(n) ==
    /\ n.to \in {bookings[n.booking].borrower, bookings[n.booking].lender}
    /\ \E i \in DOMAIN bookings[n.booking].history :
          /\ bookings[n.booking].history[i].status = n.status
          /\ bookings[n.booking].history[i].by # n.to

DocumentsKept ==
    /\ bookings' \in [BookingIds -> Documents]
    /\ DocumentsInv'
    /\ HistoryJustified'
    /\ OnlySealCanLag'
    /\ Grows

\* A handler moves: what remains to be shown is about itself, its id and the
\* notice it sends.
LEMMA HandlerMoves ==
    ASSUME BookingsInv, DocumentsKept,
           NEW r \in Requests, NEW slot \in Slots,
           req' = [req EXCEPT ![r] = slot],
           UNCHANGED <<listings, alerts>>,
           \A c \in BookingIds : Present(c)' => Present(c) \/ c = req[r].id,
           \A q \in Requests \ {r} : Creating(q) => slot.id # req[q].id,
           SlotOK(r)',
           \A n \in notices' \ notices : n \in Notices /\ NoticeOK(n)'
    PROVE  BookingsInv'
<1>1. req \in [Requests -> Slots] /\ notices \subseteq Notices
  BY DEF BookingsInv, TypeOK
<1>2. req'[r] = slot /\ \A q \in Requests \ {r} : req'[q] = req[q]
  BY <1>1
<1>3. TypeOK'
  BY <1>1 DEF BookingsInv, DocumentsKept, TypeOK
<1>4. SlotsInv'
  <2>1. ASSUME NEW q \in Requests \ {r} PROVE SlotOK(q)'
    <3>1. req'[q] = req[q] /\ req'[r].id = slot.id
      BY <1>2
    <3>2. ASSUME Creating(q)
          PROVE  /\ bookings'[req[q].id].status = "absent"
                 /\ \A p \in Requests \ {q} : req'[p].id # req[q].id
      <4>1. CreatingOK(q)
        BY <3>2 DEF BookingsInv, SlotsInv, SlotOK
      <4>2. req[q].id # req[r].id
        BY <4>1 DEF CreatingOK
      <4> QED
        BY <1>2, <3>1, <3>2, <4>1, <4>2 DEF CreatingOK, Present
    <3> QED
      BY <3>1, <3>2, SlotKept DEF DocumentsKept
  <2> QED
    BY <2>1 DEF SlotsInv
<1>5. NoticesJustified'
  <2>1. \A n \in notices : NoticeOK(n)'
    BY NoticesKept DEF DocumentsKept, NoticeOK
  <2> QED
    BY <2>1 DEF NoticesJustified, NoticeOK
<1> QED
  BY <1>3, <1>4, <1>5 DEF BookingsInv, DocumentsKept

\* The slot of a handler that ended promises nothing.
LEMMA IdleSlot == Idle \in Slots
BY AbsentType DEF Idle, Slots, Points

\* A handler may end at any point: nothing it holds is needed by another.
LEMMA EndStep ==
    ASSUME BookingsInv, NEW r \in Requests, Finish(r),
           UNCHANGED <<listings, bookings, alerts>>,
           \A n \in notices' \ notices : n \in Notices /\ NoticeOK(n)'
    PROVE  BookingsInv' /\ Grows
<1>1. DocumentsKept /\ \A c \in BookingIds : Present(c)' => Present(c)
  BY BookingsUntouched DEF DocumentsKept
<1>2. req' = [req EXCEPT ![r] = Idle] /\ req'[r] = Idle
  BY DEF Finish, BookingsInv, TypeOK
<1>3. SlotOK(r)'
  BY <1>2 DEF SlotOK, Idle, Creating, Stored
<1>4. \A q \in Requests \ {r} : Creating(q) => Idle.id # req[q].id
  BY NoneAssumption DEF Idle, BookingsInv, SlotsInv, SlotOK, CreatingOK
<1> QED
  BY <1>1, <1>2, <1>3, <1>4, IdleSlot, HandlerMoves DEF DocumentsKept

\* createBooking has read the listing and built the document.
LEMMA CreateBookingStep ==
    ASSUME BookingsInv, NEW r \in Requests, NEW user \in Users,
           NEW b \in BookingIds, NEW l \in Listings, NEW p \in Periods,
           CreateBooking(r, user, b, l, p)
    PROVE  BookingsInv' /\ Grows
<1> DEFINE doc == NewBooking(user, l, p)
           slot == [at |-> "create.clash", user |-> user, id |-> b,
                    doc |-> doc, to |-> "absent"]
<1>1. DocumentsKept /\ \A c \in BookingIds : Present(c)' => Present(c)
  BY BookingsUntouched DEF DocumentsKept, CreateBooking
<1>2. doc \in Documents
  <2>1. /\ listings[l].owner \in Users
        /\ listings[l].feePerDay \in Nat
        /\ listings[l].deposit \in Nat
    BY DEF BookingsInv, TypeOK, ListingDocuments
  <2>2. p \in [start: Nat, end: Nat] /\ DayTicks \in Nat \ {0}
    BY PeriodsAssumption
  <2>3. Days(p) \in Nat
    BY <2>2 DEF Days
  <2>4. listings[l].feePerDay * Days(p) \in Nat
    BY <2>1, <2>3
  <2>5. <<[status |-> "requested", by |-> user]>> \in Seq(HistoryEntries)
    BY DEF HistoryEntries, Statuses
  <2> QED
    BY <2>1, <2>2, <2>4, <2>5, AbsentType
    DEF NewBooking, Documents, Statuses
<1>3. slot \in Slots
  BY <1>2 DEF Slots, Points
<1>4. req' = [req EXCEPT ![r] = slot] /\ req'[r] = slot
  BY DEF CreateBooking, BookingsInv, TypeOK
<1>5. /\ ~Present(b)
      /\ \A q \in Requests : req[q].id # b
      /\ \A q \in Requests \ {r} : req'[q].id # b
  BY <1>4 DEF CreateBooking, Fresh, BookingsInv, TypeOK
<1>6. CreatingOK(r)'
  <2>1. /\ doc.borrower \in Users
        /\ doc.lender \in Users
        /\ doc.borrower # doc.lender
        /\ doc.status = "requested"
        /\ doc.history = <<[status |-> "requested", by |-> doc.borrower]>>
        /\ doc.hash = NoHash
    BY DEF CreateBooking, NewBooking, Absent, BookingsInv, TypeOK, ListingDocuments
  <2>2. ~Present(b)'
    BY <1>1, <1>5
  <2> HIDE DEF doc
  <2> QED
    BY <1>4, <1>5, <2>1, <2>2 DEF CreatingOK, Present
<1> HIDE DEF doc
<1>7. SlotOK(r)'
  BY <1>4, <1>6 DEF SlotOK, Creating, Stored
<1> QED
  BY <1>1, <1>3, <1>4, <1>5, <1>7, HandlerMoves DEF DocumentsKept, CreateBooking

\* A handler that goes on holds what it held.
LEMMA GotoSlot ==
    ASSUME BookingsInv, NEW r \in Requests, NEW point \in Points, Goto(r, point)
    PROVE  /\ [req[r] EXCEPT !.at = point] \in Slots
           /\ req' = [req EXCEPT ![r] = [req[r] EXCEPT !.at = point]]
           /\ req'[r].at = point
           /\ req'[r].id = req[r].id
           /\ req'[r].doc = req[r].doc
           /\ req'[r].user = req[r].user
           /\ req'[r].to = req[r].to
BY DEF BookingsInv, TypeOK, Goto, Slots

\* No other handler is creating the booking this one holds.
LEMMA IdsApart ==
    ASSUME BookingsInv, NEW r \in Requests, Creating(r) \/ Stored(r),
           NEW q \in Requests \ {r}, Creating(q)
    PROVE  req[r].id # req[q].id
BY DEF BookingsInv, SlotsInv, SlotOK, CreatingOK, StoredOK

\* createBooking looked for a clash: it ends, or goes on to insert.
LEMMA CreateClashStep ==
    ASSUME BookingsInv, NEW r \in Requests, CreateClash(r)
    PROVE  BookingsInv' /\ Grows
<1>1. CASE Finish(r)
  BY <1>1, EndStep DEF CreateClash
<1>2. CASE Goto(r, "create.insert")
  <2> DEFINE slot == [req[r] EXCEPT !.at = "create.insert"]
  <2>1. DocumentsKept /\ \A c \in BookingIds : Present(c)' => Present(c)
    BY BookingsUntouched DEF DocumentsKept, CreateClash
  <2>2. /\ slot \in Slots
        /\ req' = [req EXCEPT ![r] = slot]
        /\ req'[r].at = "create.insert"
        /\ req'[r].id = req[r].id
        /\ req'[r].doc = req[r].doc
    BY <1>2, GotoSlot DEF Points
  <2>3. Creating(r) /\ CreatingOK(r) /\ req[r].at = "create.clash"
    BY DEF BookingsInv, SlotsInv, SlotOK, CreateClash, Creating
  <2>4. \A q \in Requests \ {r} : req'[q] = req[q]
    BY <2>2 DEF BookingsInv, TypeOK
  <2>5. CreatingOK(r)'
    BY <2>2, <2>3, <2>4 DEF CreatingOK, Present, CreateClash
  <2>6. SlotOK(r)'
    BY <2>2, <2>5 DEF SlotOK, Creating, Stored
  <2>7. slot.id = req[r].id
    BY DEF BookingsInv, TypeOK, Slots
  <2>8. \A q \in Requests \ {r} : Creating(q) => slot.id # req[q].id
    BY <2>3, <2>7, IdsApart
  <2> HIDE DEF slot
  <2> QED
    BY <2>1, <2>2, <2>6, <2>8, HandlerMoves DEF DocumentsKept, CreateClash
<1> QED
  BY <1>1, <1>2 DEF CreateClash

\* createBooking inserts the document under an id nobody else uses.
LEMMA CreateInsertStep ==
    ASSUME BookingsInv, NEW r \in Requests, CreateInsert(r)
    PROVE  BookingsInv' /\ Grows
<1> DEFINE doc == req[r].doc
           slot == [req[r] EXCEPT !.at = "create.seal"]
<1>0. PICK b \in BookingIds : b = req[r].id
  BY DEF BookingsInv, SlotsInv, SlotOK, CreateInsert, Creating, CreatingOK
<1>1. /\ bookings \in [BookingIds -> Documents]
      /\ req \in [Requests -> Slots]
      /\ req[r] \in Slots
      /\ doc \in Documents
  BY DEF BookingsInv, TypeOK, Slots
<1>2. Creating(r) /\ CreatingOK(r)
  BY DEF BookingsInv, SlotsInv, SlotOK, CreateInsert, Creating
<1>3. /\ bookings'[b] = doc
      /\ \A c \in BookingIds \ {b} : bookings'[c] = bookings[c]
      /\ bookings' \in [BookingIds -> Documents]
  BY <1>0, <1>1 DEF CreateInsert
<1>4. Present(b)' /\ \A c \in BookingIds \ {b} : Present(c)' <=> Present(c)
  <2>1. doc.status # "absent"
    BY <1>2 DEF CreatingOK
  <2>2. Present(b)'
    BY <2>1, <1>3 DEF Present
  <2> QED
    BY <2>2, <1>3 DEF Present
<1>5. DocumentsInv'
  <2>1. /\ doc.borrower \in Users
        /\ doc.lender \in Users
        /\ doc.borrower # doc.lender
        /\ doc.history # <<>>
        /\ doc.history[1].status = "requested"
        /\ doc.history[1].by = doc.borrower
        /\ LastStatus(doc.history) = doc.status
    BY <1>2 DEF CreatingOK, LastStatus
  <2>2. ASSUME NEW c \in BookingIds \ {b}
        PROVE  /\ Present(c)' =>
                    /\ bookings'[c].borrower \in Users
                    /\ bookings'[c].lender \in Users
                    /\ bookings'[c].borrower # bookings'[c].lender
                    /\ bookings'[c].history # <<>>
                    /\ bookings'[c].history[1].status = "requested"
                    /\ bookings'[c].history[1].by = bookings'[c].borrower
                    /\ LastStatus(bookings'[c].history) = bookings'[c].status
               /\ ~Present(c)' => bookings'[c].history = <<>>
    BY <2>2, <1>3, <1>4 DEF BookingsInv, DocumentsInv
  <2>3. Present(b)' /\ bookings'[b] = doc
    BY <1>3, <1>4
  <2> HIDE DEF doc
  <2> SUFFICES ASSUME NEW c \in BookingIds
               PROVE  /\ Present(c)' =>
                           /\ bookings'[c].borrower \in Users
                           /\ bookings'[c].lender \in Users
                           /\ bookings'[c].borrower # bookings'[c].lender
                           /\ bookings'[c].history # <<>>
                           /\ bookings'[c].history[1].status = "requested"
                           /\ bookings'[c].history[1].by = bookings'[c].borrower
                           /\ LastStatus(bookings'[c].history) = bookings'[c].status
                      /\ ~Present(c)' => bookings'[c].history = <<>>
    BY DEF DocumentsInv
  <2> QED
    BY <2>1, <2>2, <2>3
<1>6. HistoryJustified'
  <2> SUFFICES ASSUME NEW c \in BookingIds, NEW i \in DOMAIN bookings'[c].history \ {1}
               PROVE  \E j \in 1..(i - 1) :
                         /\ JustifiedBy(c, i, j)'
                         /\ bookings'[c].history[i].status = "paid" => j = i - 1
    BY DEF HistoryJustified
  <2>1. CASE c = b
    <3>1. DOMAIN bookings'[c].history = {1}
      BY <2>1, <1>2, <1>3 DEF CreatingOK
    <3> QED
      BY <3>1
  <2>2. CASE c # b
    <3>1. bookings'[c] = bookings[c]
      BY <2>2, <1>3
    <3> QED
      BY <3>1 DEF BookingsInv, HistoryJustified, JustifiedBy
  <2> QED
    BY <2>1, <2>2
<1>7. OnlySealCanLag'
  BY <1>2, <1>3, <1>4 DEF BookingsInv, OnlySealCanLag, CreatingOK
<1>8. Grows
  <2> SUFFICES ASSUME NEW c \in BookingIds
               PROVE  /\ IsPrefixOf(bookings[c].history, bookings'[c].history)
                      /\ Present(c) =>
                            /\ bookings'[c].status # "absent"
                            /\ SameParties(bookings[c], bookings'[c])
                            /\ SameAmounts(bookings[c], bookings'[c])
    BY DEF Grows
  <2>1. CASE c = b
    <3>1. bookings[c].history = <<>> /\ ~Present(c)
      BY <2>1, <1>0, <1>2 DEF CreatingOK, BookingsInv, DocumentsInv
    <3>2. bookings'[c].history \in Seq(HistoryEntries)
      BY <1>3 DEF Documents
    <3> QED
      BY <3>1, <3>2 DEF IsPrefixOf
  <2>2. CASE c # b
    <3>1. bookings'[c] = bookings[c] /\ bookings[c].history \in Seq(HistoryEntries)
      BY <2>2, <1>1, <1>3 DEF Documents
    <3> QED
      BY <3>1, PrefixReflexive DEF Present, SameParties, SameAmounts
  <2> QED
    BY <2>1, <2>2
<1>9. /\ slot \in Slots
      /\ req' = [req EXCEPT ![r] = slot]
      /\ req'[r].at = "create.seal"
      /\ req'[r].id = b
      /\ req'[r].doc = doc
  BY <1>0, GotoSlot DEF Points, CreateInsert
<1>10. SlotOK(r)'
  <2>1. StoredOK(r)' /\ req'[r].doc.status = "requested"
    BY <1>2, <1>3, <1>4, <1>9
    DEF StoredOK, CreatingOK, SameParties, SameAmounts, Present
  <2> QED
    BY <2>1, <1>9 DEF SlotOK, Creating, Stored
<1>11. \A q \in Requests \ {r} : Creating(q) => slot.id # req[q].id
  <2>1. slot.id = b
    BY <1>0, <1>1 DEF Slots
  <2> QED
    BY <2>1, <1>0, <1>2, IdsApart
<1>12. \A c \in BookingIds : Present(c)' => Present(c) \/ c = b
  BY <1>4
<1>13. DocumentsKept
  BY <1>3, <1>5, <1>6, <1>7, <1>8 DEF DocumentsKept
<1>14. UNCHANGED <<listings, notices, alerts>>
  BY DEF CreateInsert
<1> HIDE DEF slot
<1> QED
  BY <1>0, <1>8, <1>9, <1>10, <1>11, <1>12, <1>13, <1>14, HandlerMoves

\* createBooking seals: only the hash changes, to that of the new request.
LEMMA CreateSealStep ==
    ASSUME BookingsInv, NEW r \in Requests, CreateSeal(r)
    PROVE  BookingsInv' /\ Grows
<1> DEFINE doc == req[r].doc
           hash == ComputeIntegrityHash(doc)
           slot == [req[r] EXCEPT !.at = "create.notify"]
<1>1. PICK b \in BookingIds : b = req[r].id
  BY DEF BookingsInv, SlotsInv, SlotOK, CreateSeal, Stored, StoredOK
<1>2. /\ bookings \in [BookingIds -> Documents]
      /\ bookings[b] \in Documents
      /\ req[r] \in Slots
      /\ doc \in Documents
  BY DEF BookingsInv, TypeOK, Slots
<1>3. Stored(r) /\ StoredOK(r) /\ doc.status = "requested"
  BY DEF BookingsInv, SlotsInv, SlotOK, CreateSeal, Stored
<1>4. /\ bookings'[b] = [bookings[b] EXCEPT !.hash = hash]
      /\ \A c \in BookingIds \ {b} : bookings'[c] = bookings[c]
  BY <1>1, <1>2 DEF CreateSeal
<1>5. bookings' \in [BookingIds -> Documents]
  <2>1. bookings'[b] \in Documents
    BY <1>2, <1>4, HashType DEF Documents
  <2>2. bookings' = [c \in BookingIds |-> bookings'[c]]
    BY <1>2 DEF CreateSeal
  <2> QED
    BY <2>1, <2>2, <1>2, <1>4
<1>6. \A c \in BookingIds :
         /\ bookings'[c].borrower = bookings[c].borrower
         /\ bookings'[c].lender = bookings[c].lender
         /\ bookings'[c].fee = bookings[c].fee
         /\ bookings'[c].deposit = bookings[c].deposit
         /\ bookings'[c].status = bookings[c].status
         /\ bookings'[c].history = bookings[c].history
  <2>1. /\ bookings'[b].borrower = bookings[b].borrower
        /\ bookings'[b].lender = bookings[b].lender
        /\ bookings'[b].fee = bookings[b].fee
        /\ bookings'[b].deposit = bookings[b].deposit
        /\ bookings'[b].status = bookings[b].status
        /\ bookings'[b].history = bookings[b].history
    BY <1>2, <1>4 DEF Documents
  <2> QED
    BY <2>1, <1>4
<1>7. bookings'[b].hash = hash
  BY <1>2, <1>4 DEF Documents
<1>8. \A c \in BookingIds : Present(c)' <=> Present(c)
  BY <1>6 DEF Present
<1>9. DocumentsInv'
  BY <1>6, <1>8 DEF BookingsInv, DocumentsInv
<1>10. HistoryJustified'
  <2> SUFFICES ASSUME NEW c \in BookingIds, NEW i \in DOMAIN bookings'[c].history \ {1}
               PROVE  \E j \in 1..(i - 1) :
                         /\ JustifiedBy(c, i, j)'
                         /\ bookings'[c].history[i].status = "paid" => j = i - 1
    BY DEF HistoryJustified
  <2> DEFINE g == bookings[c].history
  <2>1. bookings'[c].history = g /\ bookings[c] \in Documents /\ bookings'[c] \in Documents
    BY <1>2, <1>5, <1>6
  <2>2. PICK j \in 1..(i - 1) : /\ JustifiedBy(c, i, j)
                                /\ g[i].status = "paid" => j = i - 1
    BY <2>1 DEF BookingsInv, HistoryJustified
  <2> DEFINE d == [bookings[c] EXCEPT !.status = g[j].status]
             d1 == [bookings'[c] EXCEPT !.status = g[j].status]
  <2>3. LegalStep(d, g[i].status, g[i].by, Admins)
    BY <2>2 DEF JustifiedBy
  <2>4. SameParties(d, d1) /\ d.status = d1.status
    BY <2>1, <1>6 DEF SameParties, Documents
  <2> HIDE DEF d, d1
  <2>5. LegalStep(d1, g[i].status, g[i].by, Admins)
    BY <2>3, <2>4, LegalStepDepends
  <2>6. JustifiedBy(c, i, j)'
    BY <2>1, <2>5 DEF JustifiedBy, d1
  <2> QED
    BY <2>1, <2>2, <2>6
<1>11. OnlySealCanLag'
  <2>1. hash = ComputeIntegrityHash([bookings'[b] EXCEPT !.status = "requested"])
    BY <1>1, <1>2, <1>3, <1>5, <1>6
    DEF ComputeIntegrityHash, StoredOK, SameAmounts, Documents
  <2> QED
    BY <2>1, <1>4, <1>7, <1>8 DEF BookingsInv, OnlySealCanLag
<1>12. Grows
  <2>1. \A c \in BookingIds : bookings[c].history \in Seq(HistoryEntries)
    BY <1>2 DEF Documents
  <2> QED
    BY <2>1, <1>6, PrefixReflexive DEF Grows, Present, SameParties, SameAmounts
<1>13. /\ slot \in Slots
       /\ req' = [req EXCEPT ![r] = slot]
       /\ req'[r].at = "create.notify"
       /\ req'[r].id = b
       /\ req'[r].doc = doc
  BY <1>1, GotoSlot DEF Points, CreateSeal
<1>14. SlotOK(r)'
  <2>1. StoredOK(r)'
    BY <1>1, <1>3, <1>6, <1>8, <1>13
    DEF StoredOK, SameParties, SameAmounts, Present
  <2> QED
    BY <2>1, <1>13 DEF SlotOK, Creating, Stored
<1>15. \A q \in Requests \ {r} : Creating(q) => slot.id # req[q].id
  <2>1. slot.id = req[r].id
    BY <1>2 DEF Slots
  <2> QED
    BY <2>1, <1>3, IdsApart
<1> HIDE DEF slot
<1> QED
  BY <1>5, <1>8, <1>9, <1>10, <1>11, <1>12, <1>13, <1>14, <1>15, HandlerMoves
  DEF DocumentsKept, CreateSeal

\* The lender is told of a request the borrower made.
LEMMA CreateNotifyStep ==
    ASSUME BookingsInv, NEW r \in Requests, CreateNotify(r)
    PROVE  BookingsInv' /\ Grows
<1> DEFINE n == [to |-> req[r].doc.lender, booking |-> req[r].id,
                 status |-> "requested"]
<1>1. PICK b \in BookingIds : b = req[r].id
  BY DEF BookingsInv, SlotsInv, SlotOK, CreateNotify, Stored, StoredOK
<1>2. Present(b) /\ req[r].doc.lender = bookings[b].lender
  BY <1>1 DEF BookingsInv, SlotsInv, SlotOK, CreateNotify, Stored, StoredOK,
              SameParties
<1>3. /\ bookings[b].lender \in Users
      /\ bookings[b].lender # bookings[b].borrower
      /\ bookings[b].history # <<>>
      /\ bookings[b].history[1].status = "requested"
      /\ bookings[b].history[1].by = bookings[b].borrower
  BY <1>2 DEF BookingsInv, DocumentsInv
<1>4. 1 \in DOMAIN bookings[b].history
  <2>1. bookings[b].history \in Seq(HistoryEntries)
    BY DEF BookingsInv, TypeOK, Documents
  <2> QED
    BY <2>1, <1>3
<1>5. n \in Notices
  BY <1>1, <1>2, <1>3 DEF Notices, Statuses
<1>6. NoticeOK(n)
  BY <1>1, <1>2, <1>3, <1>4 DEF NoticeOK
<1>7. \A m \in notices' \ notices : m \in Notices /\ NoticeOK(m)'
  BY <1>5, <1>6 DEF NoticeOK, CreateNotify
<1> QED
  BY <1>7, EndStep DEF CreateNotify

\* changeStatus or resolveDispute has read a booking it may move on.
LEMMA HoldStep ==
    ASSUME BookingsInv, NEW r \in Requests, NEW user \in Users,
           NEW b \in BookingIds, Present(b),
           NEW to \in Statuses \ {"paid"},
           LegalStep(bookings[b], to, user, Admins),
           NEW point \in {"change.save", "resolve.save"},
           point = "change.save" =>
              user \in {bookings[b].borrower, bookings[b].lender},
           req[r].at = "idle",
           Hold(r, point, user, b, to),
           UNCHANGED <<listings, bookings, notices, alerts>>
    PROVE  BookingsInv' /\ Grows
<1> DEFINE slot == [at |-> point, user |-> user, id |-> b,
                    doc |-> bookings[b], to |-> to]
<1>1. DocumentsKept /\ \A c \in BookingIds : Present(c)' => Present(c)
  BY BookingsUntouched DEF DocumentsKept
<1>2. slot \in Slots /\ req' = [req EXCEPT ![r] = slot] /\ req'[r] = slot
  BY DEF Hold, Slots, Points, BookingsInv, TypeOK
<1>3. HasBeen(b, bookings[b].status)
  <2>1. /\ bookings[b].history \in Seq(HistoryEntries)
        /\ bookings[b].history # <<>>
        /\ LastStatus(bookings[b].history) = bookings[b].status
    BY DEF BookingsInv, TypeOK, Documents, DocumentsInv
  <2>2. Len(bookings[b].history) \in DOMAIN bookings[b].history
    BY <2>1
  <2> QED
    BY <2>1, <2>2 DEF HasBeen, LastStatus
<1>4. SlotOK(r)'
  <2>1. StoredOK(r)'
    BY <1>2 DEF StoredOK, SameParties, SameAmounts, Present
  <2>2. SavingOK(r)'
    BY <1>2, <1>3 DEF SavingOK, HasBeen
  <2> QED
    BY <1>2, <2>1, <2>2 DEF SlotOK, Creating, Stored
<1>5. \A q \in Requests \ {r} : Creating(q) => slot.id # req[q].id
  BY DEF BookingsInv, SlotsInv, SlotOK, CreatingOK
<1> HIDE DEF slot
<1> QED
  BY <1>1, <1>2, <1>4, <1>5, HandlerMoves DEF DocumentsKept

\* changeStatus evaluated the table on the booking it read.
LEMMA ChangeStatusStep ==
    ASSUME BookingsInv, NEW r \in Requests, NEW user \in Users,
           NEW b \in BookingIds, ChangeStatus(r, user, b)
    PROVE  BookingsInv' /\ Grows
<1>1. PICK rule \in TRANSITIONS :
         /\ Evaluate(rule, bookings[b], user)
         /\ Hold(r, "change.save", user, b, rule.to)
  BY DEF ChangeStatus
<1>2. rule.to \in Statuses \ {"paid"}
  BY RuleTargets
<1>3. LegalStep(bookings[b], rule.to, user, Admins)
  BY <1>1 DEF LegalStep
<1>4. user \in {bookings[b].borrower, bookings[b].lender}
  BY <1>1 DEF Evaluate
<1> QED
  BY <1>1, <1>2, <1>3, <1>4, HoldStep DEF ChangeStatus

\* resolveDispute read a disputed booking.
LEMMA ResolveDisputeStep ==
    ASSUME BookingsInv, NEW r \in Requests, NEW user \in Users,
           NEW b \in BookingIds, ResolveDispute(r, user, b)
    PROVE  BookingsInv' /\ Grows
<1>1. Present(b) /\ LegalStep(bookings[b], "resolved", user, Admins)
  BY DEF ResolveDispute, Present, LegalStep
<1>2. "resolved" \in Statuses \ {"paid"}
  BY DEF Statuses
<1> QED
  BY <1>1, <1>2, HoldStep DEF ResolveDispute

\* A save of a status is a step of the booking from the status the handler
\* read, which the booking has had; its hash is right although it was computed
\* on the document as read.
LEMMA SaveStatusStep ==
    ASSUME BookingsInv, NEW r \in Requests,
           req[r].at \in {"change.save", "resolve.save"},
           NEW b, b = req[r].id,
           NEW to, to = req[r].to,
           NEW user, user = req[r].user,
           SaveStatus(r)
    PROVE  /\ DocumentsKept
           /\ ReachedBy(b, to, user)'
           /\ \A c \in BookingIds : Present(c)' => Present(c)
           /\ b \in BookingIds
           /\ Present(b)'
<1> DEFINE doc == req[r].doc
           hash == ComputeIntegrityHash([doc EXCEPT !.status = to])
           from == doc.status
<1>1. SlotOK(r) /\ StoredOK(r) /\ SavingOK(r)
  BY DEF BookingsInv, SlotsInv, SlotOK, Stored
<1>2. /\ bookings[b] \in Documents
      /\ doc \in Documents
      /\ b \in BookingIds
      /\ Present(b)
      /\ user \in Users
      /\ to \in Statuses \ {"paid"}
  BY <1>1 DEF BookingsInv, TypeOK, Slots, StoredOK, SavingOK
<1>3. hash = ComputeIntegrityHash([bookings[b] EXCEPT !.status = to])
  BY <1>1, <1>2 DEF StoredOK, SameAmounts, ComputeIntegrityHash, Documents
<1>4. hash \in Hashes
  BY <1>2 DEF ComputeIntegrityHash, Hashes, Documents
<1>5. LegalStep([bookings[b] EXCEPT !.status = from], to, user, Admins)
  <2> DEFINE d == [bookings[b] EXCEPT !.status = from]
  <2>1. LegalStep(doc, to, user, Admins)
    BY <1>1 DEF SavingOK
  <2>2. SameParties(doc, d) /\ doc.status = d.status
    BY <1>1, <1>2 DEF StoredOK, SameParties, Documents
  <2> HIDE DEF d
  <2>3. LegalStep(d, to, user, Admins)
    BY <2>1, <2>2, LegalStepDepends
  <2> QED
    BY <2>3 DEF d
<1>6. HasBeen(b, from)
  BY <1>1 DEF SavingOK
<1>7. bookings' = Stepped(b, to, user, hash)
  BY DEF SaveStatus, Stepped
<1> HIDE DEF doc, hash, from
<1>8. /\ bookings' \in [BookingIds -> Documents]
      /\ DocumentsInv'
      /\ HistoryJustified'
      /\ OnlySealCanLag'
      /\ Grows
      /\ ReachedBy(b, to, user)'
      /\ \A c \in BookingIds : Present(c)' => Present(c)
  BY <1>2, <1>3, <1>4, <1>5, <1>6, <1>7, StepKeepsDocuments
<1> QED
  BY <1>2, <1>8 DEF DocumentsKept, Grows, Present

\* changeStatus saves.
LEMMA ChangeSaveStep ==
    ASSUME BookingsInv, NEW r \in Requests, ChangeSave(r)
    PROVE  BookingsInv' /\ Grows
<1> DEFINE slot == [req[r] EXCEPT !.at = "change.notify"]
<1>1. PICK b, to, user : b = req[r].id /\ to = req[r].to /\ user = req[r].user
  OBVIOUS
<1>2. /\ DocumentsKept
      /\ ReachedBy(b, to, user)'
      /\ \A c \in BookingIds : Present(c)' => Present(c)
      /\ b \in BookingIds
      /\ Present(b)'
  BY <1>1, SaveStatusStep DEF ChangeSave
<1>3. /\ Stored(r) /\ StoredOK(r)
      /\ user \in {req[r].doc.borrower, req[r].doc.lender}
  BY <1>1 DEF BookingsInv, SlotsInv, SlotOK, ChangeSave, Stored
<1>4. /\ slot \in Slots
      /\ req' = [req EXCEPT ![r] = slot]
      /\ req'[r].at = "change.notify"
      /\ req'[r].id = b
      /\ req'[r].doc = req[r].doc
      /\ req'[r].user = user
      /\ req'[r].to = to
  BY <1>1, GotoSlot DEF Points, ChangeSave
<1>5. SlotOK(r)'
  <2>1. /\ SameParties(req[r].doc, bookings'[b])
        /\ SameAmounts(req[r].doc, bookings'[b])
    BY <1>1, <1>2, <1>3
    DEF StoredOK, DocumentsKept, Grows, SameParties, SameAmounts
  <2>2. StoredOK(r)'
    BY <1>2, <1>4, <2>1 DEF StoredOK, Present
  <2>3. ReachedBy(req[r].id, req[r].to, req[r].user)'
    BY <1>2, <1>4 DEF ReachedBy
  <2> QED
    BY <1>3, <1>4, <2>2, <2>3 DEF SlotOK, Creating, Stored
<1>6. \A q \in Requests \ {r} : Creating(q) => slot.id # req[q].id
  <2>1. slot.id = req[r].id
    BY DEF BookingsInv, TypeOK, Slots
  <2> QED
    BY <2>1, <1>3, IdsApart
<1> HIDE DEF slot
<1> QED
  BY <1>2, <1>4, <1>5, <1>6, HandlerMoves DEF DocumentsKept, ChangeSave

\* resolveDispute saves and ends.
LEMMA ResolveSaveStep ==
    ASSUME BookingsInv, NEW r \in Requests, ResolveSave(r)
    PROVE  BookingsInv' /\ Grows
<1>1. PICK b, to, user : b = req[r].id /\ to = req[r].to /\ user = req[r].user
  OBVIOUS
<1>2. DocumentsKept /\ \A c \in BookingIds : Present(c)' => Present(c)
  BY <1>1, SaveStatusStep DEF ResolveSave
<1>3. req' = [req EXCEPT ![r] = Idle] /\ req'[r] = Idle
  BY DEF ResolveSave, Finish, BookingsInv, TypeOK
<1>4. SlotOK(r)'
  BY <1>3 DEF SlotOK, Idle, Creating, Stored
<1>5. \A q \in Requests \ {r} : Creating(q) => Idle.id # req[q].id
  BY NoneAssumption DEF Idle, BookingsInv, SlotsInv, SlotOK, CreatingOK
<1> QED
  BY <1>2, <1>3, <1>4, <1>5, IdleSlot, HandlerMoves DEF DocumentsKept, ResolveSave

\* The other party is told of a status the handler saved.
LEMMA ChangeNotifyStep ==
    ASSUME BookingsInv, NEW r \in Requests, ChangeNotify(r)
    PROVE  BookingsInv' /\ Grows
<1> DEFINE other == Counterparty(req[r].doc, req[r].user)
           n == [to |-> other, booking |-> req[r].id, status |-> req[r].to]
<1>1. PICK b \in BookingIds : b = req[r].id
  BY DEF BookingsInv, SlotsInv, SlotOK, ChangeNotify, Stored, StoredOK
<1>2. SlotOK(r) /\ StoredOK(r) /\ ReachedBy(b, req[r].to, req[r].user)
  BY <1>1 DEF BookingsInv, SlotsInv, SlotOK, ChangeNotify, Stored
<1>3. /\ bookings[b].borrower \in Users
      /\ bookings[b].lender \in Users
      /\ bookings[b].borrower # bookings[b].lender
  BY <1>1, <1>2 DEF BookingsInv, DocumentsInv, StoredOK
<1>4. /\ other \in {bookings[b].borrower, bookings[b].lender}
      /\ other # req[r].user
  BY <1>1, <1>2, <1>3
  DEF StoredOK, SameParties, Counterparty, SlotOK, ChangeNotify
<1>5. req[r].to \in Statuses
  <2>1. PICK i \in DOMAIN bookings[b].history : bookings[b].history[i].status = req[r].to
    BY <1>2 DEF ReachedBy
  <2>2. bookings[b].history \in Seq(HistoryEntries)
    BY DEF BookingsInv, TypeOK, Documents
  <2>3. bookings[b].history[i] \in HistoryEntries
    BY <2>1, <2>2
  <2> QED
    BY <2>1, <2>3 DEF HistoryEntries
<1> HIDE DEF other
<1>6. n \in Notices
  BY <1>1, <1>3, <1>4, <1>5 DEF Notices
<1>7. NoticeOK(n)
  BY <1>1, <1>2, <1>4 DEF NoticeOK, ReachedBy
<1>8. \A m \in notices' \ notices : m \in Notices /\ NoticeOK(m)'
  BY <1>6, <1>7 DEF NoticeOK, ChangeNotify, other
<1> QED
  BY <1>8, EndStep DEF ChangeNotify

\* A step of no handler leaves every slot what it may rely on.
LEMMA SlotsKept ==
    ASSUME BookingsInv, Grows, bookings' \in [BookingIds -> Documents],
           UNCHANGED req, \A c \in BookingIds : Present(c)' => Present(c)
    PROVE  SlotsInv'
<1> SUFFICES ASSUME NEW q \in Requests PROVE SlotOK(q)'
  BY DEF SlotsInv
<1>1. ASSUME Creating(q)
      PROVE  /\ bookings'[req[q].id].status = "absent"
             /\ \A p \in Requests \ {q} : req'[p].id # req[q].id
  BY <1>1 DEF BookingsInv, SlotsInv, SlotOK, CreatingOK, Present
<1> QED
  BY <1>1, SlotKept

\* A verified payment moves an approved booking to 'paid' for its borrower.
LEMMA PaymentVerifiedStep ==
    ASSUME BookingsInv, NEW b \in BookingIds, PaymentVerified(b)
    PROVE  BookingsInv' /\ Grows
<1> DEFINE user == bookings[b].borrower
           hash == ComputeIntegrityHash([bookings[b] EXCEPT !.status = "paid"])
<1>1. Present(b) /\ bookings[b].status = "approved"
  BY DEF PaymentVerified, ApplyVerifiedPayment, Present
<1>2. bookings[b] \in Documents /\ user \in Users
  BY <1>1 DEF BookingsInv, TypeOK, DocumentsInv
<1>3. hash \in Hashes
  BY <1>2 DEF ComputeIntegrityHash, Hashes, Documents, Statuses
<1>4. HasBeen(b, "approved")
  <2>1. /\ bookings[b].history \in Seq(HistoryEntries)
        /\ bookings[b].history # <<>>
        /\ LastStatus(bookings[b].history) = "approved"
    BY <1>1 DEF BookingsInv, TypeOK, Documents, DocumentsInv
  <2>2. Len(bookings[b].history) \in DOMAIN bookings[b].history
    BY <2>1
  <2> QED
    BY <2>1, <2>2 DEF HasBeen, LastStatus
<1>5. LegalStep([bookings[b] EXCEPT !.status = "approved"], "paid", user, Admins)
  BY <1>2 DEF LegalStep, Documents
<1>6. bookings' = Stepped(b, "paid", user, hash)
  BY DEF PaymentVerified, ApplyVerifiedPayment, Pay, Stepped
<1>7. "paid" \in Statuses
  BY DEF Statuses
<1> HIDE DEF hash
<1> DEFINE from == "approved"
<1>8. /\ hash = ComputeIntegrityHash([bookings[b] EXCEPT !.status = "paid"])
      /\ from = bookings[b].status
  BY <1>1 DEF hash
<1>9. /\ bookings' \in [BookingIds -> Documents]
      /\ DocumentsInv'
      /\ HistoryJustified'
      /\ OnlySealCanLag'
      /\ Grows
      /\ \A c \in BookingIds : Present(c)' => Present(c)
  BY <1>1, <1>2, <1>3, <1>4, <1>5, <1>6, <1>7, <1>8, StepKeepsDocuments
<1>10. SlotsInv'
  BY <1>9, SlotsKept DEF PaymentVerified
<1>11. NoticesJustified'
  BY <1>9, NoticesKept DEF NoticesJustified, PaymentVerified
<1> QED
  BY <1>9, <1>10, <1>11 DEF BookingsInv, TypeOK, PaymentVerified

\* A mismatching hash was read and reported; nothing else changes.
LEMMA GetBookingStep ==
    ASSUME BookingsInv, NEW user \in Users, NEW b \in BookingIds,
           GetBooking(user, b)
    PROVE  BookingsInv' /\ Grows
<1>1. DocumentsKept /\ \A c \in BookingIds : Present(c)' => Present(c)
  BY BookingsUntouched DEF DocumentsKept, GetBooking
<1>2. SlotsInv'
  BY <1>1, SlotsKept DEF DocumentsKept, GetBooking
<1>3. NoticesJustified'
  BY DEF BookingsInv, NoticesJustified, GetBooking
<1> QED
  BY <1>1, <1>2, <1>3 DEF BookingsInv, DocumentsKept, TypeOK, GetBooking

-----------------------------------------------------------------------------
(* The theorems                                                            *)

\* The empty database satisfies the invariant.
LEMMA InitKeeps == Init => BookingsInv
<1> SUFFICES ASSUME Init PROVE BookingsInv
  OBVIOUS
<1>1. \A b \in BookingIds : bookings[b] = Absent
  BY DEF Init
<1>2. \A b \in BookingIds : ~Present(b) /\ bookings[b].history = <<>>
  BY <1>1 DEF Present, Absent
<1>3. TypeOK
  BY AbsentType, IdleSlot, ListingsAssumption DEF Init, TypeOK
<1>4. DocumentsInv /\ OnlySealCanLag
  BY <1>2 DEF DocumentsInv, OnlySealCanLag
<1>5. HistoryJustified
  BY <1>2 DEF HistoryJustified
<1>6. SlotsInv
  BY DEF Init, SlotsInv, SlotOK, Idle, Creating, Stored
<1>7. NoticesJustified
  BY DEF Init, NoticesJustified
<1> QED
  BY <1>3, <1>4, <1>5, <1>6, <1>7 DEF BookingsInv

\* Every step of the booking handlers keeps the invariant and only adds to
\* the histories.
LEMMA NextKeeps == BookingsInv /\ BookingsNext => BookingsInv' /\ Grows
<1> SUFFICES ASSUME BookingsInv, BookingsNext PROVE BookingsInv' /\ Grows
  OBVIOUS
<1>1. ASSUME NEW r \in Requests, Receive(r) PROVE BookingsInv' /\ Grows
  <2>1. PICK user \in Users, b \in BookingIds :
           \/ \E l \in Listings, p \in Periods : CreateBooking(r, user, b, l, p)
           \/ ChangeStatus(r, user, b)
           \/ ResolveDispute(r, user, b)
    BY <1>1 DEF Receive
  <2> QED
    BY <2>1, CreateBookingStep, ChangeStatusStep, ResolveDisputeStep
<1>2. ASSUME NEW r \in Requests, Continue(r) PROVE BookingsInv' /\ Grows
  BY <1>2, CreateClashStep, CreateInsertStep, CreateSealStep, CreateNotifyStep,
     ChangeSaveStep, ChangeNotifyStep, ResolveSaveStep DEF Continue
<1>3. ASSUME NEW r \in Requests, Fail(r) PROVE BookingsInv' /\ Grows
  BY <1>3, EndStep DEF Fail
<1>4. ASSUME Read PROVE BookingsInv' /\ Grows
  BY <1>4, GetBookingStep DEF Read
<1>5. ASSUME PaymentStep PROVE BookingsInv' /\ Grows
  BY <1>5, PaymentVerifiedStep DEF PaymentStep
<1> QED
  BY <1>1, <1>2, <1>3, <1>4, <1>5 DEF BookingsNext

\* Nor does a step of the environment that leaves the handlers alone.
LEMMA StutterKeeps == BookingsInv /\ UNCHANGED vars => BookingsInv'
<1> SUFFICES ASSUME BookingsInv, UNCHANGED vars PROVE BookingsInv'
  OBVIOUS
<1>1. DocumentsKept /\ \A c \in BookingIds : Present(c)' => Present(c)
  BY BookingsUntouched DEF DocumentsKept, vars
<1>2. SlotsInv'
  BY <1>1, SlotsKept DEF DocumentsKept, vars
<1>3. NoticesJustified'
  BY DEF BookingsInv, NoticesJustified, vars
<1> QED
  BY <1>1, <1>2, <1>3 DEF BookingsInv, DocumentsKept, TypeOK, vars

\* The inductive invariant holds in every behaviour of the booking handlers,
\* however many run at once and wherever one of them dies.
THEOREM BookingsAreSafe == BookingsSpec => []BookingsInv
<1>1. BookingsInv /\ [BookingsNext]_vars => BookingsInv'
  BY NextKeeps, StutterKeeps
<1> QED
  BY <1>1, InitKeeps, PTL DEF BookingsSpec

\* Every document, slot and notice keeps its type: no handler stores a fee that
\* is no natural number, a party that is no user, a status outside the machine.
THEOREM BookingsTyped == BookingsSpec => []TypeOK
<1>1. BookingsInv => TypeOK
  BY DEF BookingsInv
<1> QED
  BY <1>1, BookingsAreSafe, PTL

\* The status field and the history never part (changeStatus, resolveDispute,
\* applyVerifiedPayment, createBooking).
THEOREM StatusFollowsHistory == BookingsSpec => []StatusIsLastHistory
<1>1. BookingsInv => StatusIsLastHistory
  BY DEF BookingsInv, DocumentsInv, StatusIsLastHistory
<1> QED
  BY <1>1, BookingsAreSafe, PTL

\* Every status a booking ever took was a legal step, by an entitled person,
\* from a status it had earlier, and 'paid' directly from 'approved', with any
\* number of stale handlers in flight.
THEOREM HistoriesAreJustified == BookingsSpec => []HistoryJustified
<1>1. BookingsInv => HistoryJustified
  BY DEF BookingsInv
<1> QED
  BY <1>1, BookingsAreSafe, PTL

\* Only the sealing save of createBooking can leave a stored hash behind: the
\* saves of changeStatus and resolveDispute never do, stale as they may be.
THEOREM HashesLagBySealOnly == BookingsSpec => []OnlySealCanLag
<1>1. BookingsInv => OnlySealCanLag
  BY DEF BookingsInv
<1> QED
  BY <1>1, BookingsAreSafe, PTL

\* A notification tells a participant of a status the booking really took and
\* somebody else brought about.
THEOREM NoticesAreJustified == BookingsSpec => []NoticesJustified
<1>1. BookingsInv => NoticesJustified
  BY DEF BookingsInv
<1> QED
  BY <1>1, BookingsAreSafe, PTL

\* No save loses an entry of a history, however stale its snapshot.
THEOREM HistoriesOnlyGrow == BookingsSpec => HistoryNeverRewritten
<1> DEFINE A == \A b \in BookingIds :
                   IsPrefixOf(bookings[b].history, bookings'[b].history)
<1>1. BookingsInv /\ [BookingsNext]_vars => [A]_vars
  BY NextKeeps DEF Grows
<1>2. HistoryNeverRewritten <=> [][A]_vars
  BY DEF HistoryNeverRewritten
<1> HIDE DEF A
<1> QED
  BY <1>1, <1>2, BookingsAreSafe, PTL DEF BookingsSpec

=============================================================================
