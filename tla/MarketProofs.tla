---------------------------- MODULE MarketProofs ----------------------------
(***************************************************************************)
(* What listings, accounts, bookings and reviews promise each other,       *)
(* proved for any users, listings, bookings and slots, and for any initial *)
(* catalogue, however the handlers overlap under the locks of MarketLocked,*)
(* whoever is logged in and wherever a handler dies, as FailJob has it.    *)
(***************************************************************************)
EXTENDS MarketplaceProperties, ViewProofs, SequenceTheorems

-----------------------------------------------------------------------------
(* The inductive invariant                                                 *)

JobSlots == [at: JobPoints, user: Users \cup {None}, listing: Listings \cup {None},
             booking: BookingIds \cup {None},
             to: UserStatuses \cup ListingStatuses \cup {"absent"}]

MarketTyped ==
    /\ listings \in [Listings -> ListingDocuments]
    /\ accounts \in [Users -> UserStatuses]
    /\ sessions \subseteq Users
    /\ hiddenFor \subseteq Listings
    /\ comments \subseteq BookingIds \X Users
    /\ job \in [Jobs -> JobSlots]
    /\ asked \in [Listings -> ListingStatuses]
    /\ overruled \subseteq Listings
    /\ reopened \subseteq Listings

OfListing == {"update.save", "delete.count", "delete.remove"}

\* What a handler was asked for, and what it found that still holds.
JobOK(j) ==
    LET q == job[j]
    IN  /\ q.at \in ChangingAccount => q.user \in Users
        /\ q.at \in OfListing => q.listing \in Listings
        /\ q.at = "update.save" => q.to \in {"absent", "active", "paused"}
        /\ q.at = "suspend.save" => q.to \in {"active", "suspended"}
        /\ q.at = "suspend.restore" => accounts[q.user] = "active"
        /\ q.at = "delete.remove" => \A b \in BookingIds : ~CountsFor(b, q.listing)
        /\ q.at = "deletion.save" => \A b \in BookingIds : ~Binds(b, q.user)
        /\ q.at \in {"review.insert", "comment.push"} =>
              q.user \in Users /\ q.booking \in BookingIds
        /\ q.at = "review.insert" =>
              bookings[q.booking].status = "completed" /\ IsParty(q.booking, q.user)

JobsInv == \A j \in Jobs : JobOK(j)

\* A handler is about to hide the listings of the user.
Hiding(user) == \E j \in Jobs : job[j].at \in ToHide /\ job[j].user = user

OpenInv ==
    \A l \in Listings :
        listings[l].status = "active" /\ Inactive(listings[l].owner) =>
            Hiding(listings[l].owner) \/ l \in reopened

\* What hiding would pause was asked to be active, and what the flag says of a
\* paused listing is what was asked for it.
ListingFits(l) ==
    /\ listings[l].status \in {"unused", "active"} => asked[l] = "active"
    /\ listings[l].status = "paused" => (l \in hiddenFor <=> asked[l] = "active")

ListingsInv == \A l \in Listings \ overruled : ListingFits(l)

\* The listing of a document is among its lender's.
Kept(doc) ==
    /\ doc.listing \in Listings
    /\ listings[doc.listing].status \notin Gone
    /\ listings[doc.listing].owner = doc.lender

DealsInv ==
    /\ \A b \in BookingIds : Live(b) => Kept(bookings[b])
    /\ \A r \in Requests : Creating(r) => Kept(req[r].doc)

ReviewOK(r) ==
    /\ r \in ReviewDocuments
    /\ {r.author, r.target} = {bookings[r.booking].borrower, bookings[r.booking].lender}
    /\ r.author # r.target
    /\ HasBeen(r.booking, "completed")

ReviewsInv ==
    /\ reviews \in Seq(ReviewDocuments)
    /\ \A i \in DOMAIN reviews : ReviewOK(reviews[i])
    /\ \A i, k \in DOMAIN reviews :
          reviews[i].booking = reviews[k].booking /\ reviews[i].author = reviews[k].author
          => i = k

MarketInv ==
    /\ CurrentInv /\ MarketTyped
    /\ MarketLocked /\ JobsInv
    /\ OpenInv /\ ListingsInv /\ DealsInv
    /\ ReviewsInv

-----------------------------------------------------------------------------
(* Frames                                                                  *)

\* The booking handlers do not look at a listing once they have read it.
LEMMA BookingsAside ==
    ASSUME CurrentInv, UNCHANGED orders, listings' \in [Listings -> ListingDocuments]
    PROVE  CurrentInv'
<1>1. bookings' = bookings /\ req' = req /\ notices' = notices /\ alerts' = alerts
  BY DEF orders
<1>2. TypeOK'
  BY <1>1 DEF CurrentInv, LockedInv, BookingsInv, TypeOK
<1>3. DocumentsInv'
  BY <1>1 DEF CurrentInv, LockedInv, BookingsInv, DocumentsInv, Present
<1>4. SlotsInv'
  BY <1>1 DEF CurrentInv, LockedInv, BookingsInv, SlotsInv, SlotOK, Creating, CreatingOK, Stored,
              StoredOK, SavingOK, ReachedBy, HasBeen, Present
<1>5. HistoryJustified' /\ OnlySealCanLag' /\ NoticesJustified'
  BY <1>1 DEF CurrentInv, LockedInv, BookingsInv, HistoryJustified, JustifiedBy, OnlySealCanLag,
              NoticesJustified, Present
<1>6. Locked' /\ \A r \in Requests : Timely(r)' /\ UpToDate(r)'
  BY <1>1 DEF CurrentInv, LockedInv, Locked, Timely, UpToDate, Clashes
<1>7. PapersInv'
  BY <1>1, PapersUntouched DEF CurrentInv, LockedInv
<1> QED
  BY <1>2, <1>3, <1>4, <1>5, <1>6, <1>7 DEF CurrentInv, LockedInv, BookingsInv

LEMMA JobProceeds ==
    ASSUME MarketTyped, NEW j \in Jobs, NEW point \in JobPoints, Proceed(j, point)
    PROVE  /\ job' \in [Jobs -> JobSlots]
           /\ job'[j].at = point /\ job'[j].user = job[j].user
           /\ job'[j].listing = job[j].listing /\ job'[j].to = job[j].to
           /\ \A k \in Jobs \ {j} : job'[k] = job[k]
  BY DEF MarketTyped, Proceed, JobSlots

LEMMA JobDone ==
    ASSUME MarketTyped, NEW j \in Jobs, Done(j)
    PROVE  /\ job' \in [Jobs -> JobSlots]
           /\ job'[j] = IdleJob /\ job'[j].at = "idle"
           /\ \A k \in Jobs \ {j} : job'[k] = job[k]
<1>1. IdleJob \in JobSlots /\ IdleJob.at = "idle"
  BY DEF IdleJob, JobSlots, JobPoints
<1> QED
  BY <1>1 DEF MarketTyped, Done

LEMMA JobStarts ==
    ASSUME MarketTyped, NEW j \in Jobs, NEW point \in JobPoints,
           NEW user \in Users, NEW l \in Listings \cup {None},
           NEW b \in BookingIds \cup {None},
           NEW to \in UserStatuses \cup ListingStatuses \cup {"absent"},
           Start(j, point, user, l, b, to)
    PROVE  /\ job' \in [Jobs -> JobSlots]
           /\ job'[j].at = point /\ job'[j].user = user
           /\ job'[j].listing = l /\ job'[j].booking = b /\ job'[j].to = to
           /\ job[j].at = "idle"
           /\ \A k \in Jobs \ {j} : job'[k] = job[k]
<1> DEFINE slot == [at |-> point, user |-> user, listing |-> l, booking |-> b, to |-> to]
<1>1. /\ slot \in JobSlots
      /\ slot.at = point /\ slot.user = user /\ slot.listing = l
      /\ slot.booking = b /\ slot.to = to
  BY DEF JobSlots
<1>2. job' = [job EXCEPT ![j] = slot] /\ job[j].at = "idle"
  BY DEF Start
<1> HIDE DEF slot
<1> QED
  BY <1>1, <1>2 DEF MarketTyped

-----------------------------------------------------------------------------
(* What a step leaves as it was                                            *)

LEMMA ReviewsKept ==
    ASSUME ReviewsInv, UNCHANGED <<bookings, reviews>>
    PROVE  ReviewsInv'
  BY DEF ReviewsInv, ReviewOK, HasBeen

\* A lock is taken when a handler starts, and held no longer than it runs.
Holds(j) ==
    LET q == job[j]
    IN  /\ q'.at \in ChangingAccount => q.at \in ChangingAccount /\ q'.user = q.user
        /\ q'.at \in {"delete.count", "delete.remove"} =>
              q.at \in {"delete.count", "delete.remove"} /\ q'.listing = q.listing
        /\ q'.at \in {"deletion.count", "deletion.save"} =>
              q.at \in {"deletion.count", "deletion.save"} /\ q'.user = q.user

LEMMA LocksHeld ==
    ASSUME MarketLocked,
           \A j \in Jobs : Holds(j),
           \A r \in Requests : req'[r].at \in Choosing =>
               req[r].at \in Choosing /\ req'[r].doc = req[r].doc
    PROVE  MarketLocked'
<1>1. ASSUME NEW i \in Jobs, NEW j \in Jobs, i # j,
             {job'[i].at, job'[j].at} \subseteq ChangingAccount
      PROVE  job'[i].user # job'[j].user
  <2>1. /\ job[i].at \in ChangingAccount /\ job'[i].user = job[i].user
        /\ job[j].at \in ChangingAccount /\ job'[j].user = job[j].user
    BY <1>1 DEF Holds
  <2> QED
    BY <1>1, <2>1 DEF MarketLocked
<1>2. ASSUME NEW j \in Jobs, NEW r \in Requests, req'[r].at \in Choosing
      PROVE  /\ job'[j].at \in {"delete.count", "delete.remove"} =>
                   req'[r].doc.listing # job'[j].listing
             /\ job'[j].at \in {"deletion.count", "deletion.save"} =>
                   job'[j].user \notin {req'[r].doc.borrower, req'[r].doc.lender}
  <2>1. req[r].at \in Choosing /\ req'[r].doc = req[r].doc
    BY <1>2
  <2> QED
    BY <2>1 DEF Holds, MarketLocked
<1> QED
  BY <1>1, <1>2 DEF MarketLocked

\* A handler that waits keeps what it found, while no booking is written and
\* the account it has to restore the listings of is nobody else's to change.
LEMMA WaitingKept ==
    ASSUME NEW k \in Jobs, JobOK(k), job'[k] = job[k], UNCHANGED bookings,
           job[k].at = "suspend.restore" => accounts'[job[k].user] = accounts[job[k].user]
    PROVE  JobOK(k)'
  BY DEF JobOK, CountsFor, Binds, IsParty

LEMMA DealsStay ==
    ASSUME DealsInv, UNCHANGED <<bookings, req>>,
           \A l \in Listings : listings[l].status \notin Gone =>
               listings'[l].status \notin Gone /\ listings'[l].owner = listings[l].owner
    PROVE  DealsInv'
  BY DEF DealsInv, Kept, Live, Creating

\* A step of one handler that writes no booking and no review.
LEMMA JobSteps ==
    ASSUME MarketInv, NEW j \in Jobs, UNCHANGED <<orders, written>>,
           job' \in [Jobs -> JobSlots], \A k \in Jobs \ {j} : job'[k] = job[k],
           listings' \in [Listings -> ListingDocuments],
           accounts' \in [Users -> UserStatuses], sessions' \subseteq Users,
           hiddenFor' \subseteq Listings, asked' \in [Listings -> ListingStatuses],
           overruled' \subseteq Listings, reopened' \subseteq Listings,
           \A user \in Users : \/ accounts'[user] = accounts[user]
                               \/ user = job[j].user /\ job[j].at \in ChangingAccount,
           Holds(j), JobOK(j)'
    PROVE  CurrentInv' /\ MarketTyped' /\ MarketLocked' /\ JobsInv' /\ ReviewsInv'
<1>1. bookings' = bookings /\ req' = req /\ reviews' = reviews /\ comments' = comments
  BY DEF orders, written
<1>2. CurrentInv'
  BY BookingsAside DEF MarketInv
<1>3. MarketTyped'
  BY <1>1 DEF MarketInv, MarketTyped
<1>4. MarketLocked'
  <2>1. \A k \in Jobs : Holds(k)
    BY DEF Holds
  <2> QED
    BY <1>1, <2>1, LocksHeld DEF MarketInv
<1>5. JobsInv'
  <2>1. ASSUME NEW k \in Jobs \ {j} PROVE JobOK(k)'
    <3>1. JobOK(k)
      BY DEF MarketInv, JobsInv
    <3>2. ASSUME job[k].at = "suspend.restore"
          PROVE  accounts'[job[k].user] = accounts[job[k].user]
      <4>1. job[k].at \in ChangingAccount /\ job[k].user \in Users
        BY <3>1, <3>2 DEF JobOK, ChangingAccount
      <4>2. ~(job[k].user = job[j].user /\ job[j].at \in ChangingAccount)
        BY <4>1 DEF MarketInv, MarketLocked
      <4> QED
        BY <4>1, <4>2
    <3> QED
      BY <1>1, <3>1, <3>2, WaitingKept
  <2> QED
    BY <2>1 DEF JobsInv
<1>6. ReviewsInv'
  BY <1>1, ReviewsKept DEF MarketInv
<1> QED
  BY <1>2, <1>3, <1>4, <1>5, <1>6

\* A step that changes neither a listing nor an account nor a booking, after
\* which whoever had to hide listings still has to.
LEMMA Beside ==
    ASSUME MarketInv, UNCHANGED <<vars, accounts, hiddenFor, history>>,
           sessions' \subseteq Users, comments' \subseteq BookingIds \X Users,
           job' \in [Jobs -> JobSlots],
           \A k \in Jobs : \/ job'[k] = job[k]
                           \/ /\ JobOK(k)'
                              /\ job[k].at \in ToHide =>
                                    job'[k].at \in ToHide /\ job'[k].user = job[k].user,
           MarketLocked', ReviewsInv'
    PROVE  MarketInv'
<1>1. UNCHANGED <<orders, listings, bookings, req, accounts, hiddenFor, asked, overruled,
                  reopened>>
  BY DEF vars, orders, history
<1>2. CurrentInv'
  BY <1>1, BookingsAside DEF MarketInv, MarketTyped
<1>3. MarketTyped'
  BY <1>1 DEF MarketInv, MarketTyped
<1>4. JobsInv'
  <2>1. ASSUME NEW k \in Jobs, job'[k] = job[k] PROVE JobOK(k)'
    BY <1>1, <2>1, WaitingKept DEF MarketInv, JobsInv
  <2> QED
    BY <2>1 DEF JobsInv
<1>5. OpenInv'
  <2>1. \A user : Hiding(user) => Hiding(user)'
    BY DEF Hiding
  <2> QED
    BY <1>1, <2>1 DEF MarketInv, OpenInv, Inactive
<1>6. ListingsInv'
  BY <1>1 DEF MarketInv, ListingsInv, ListingFits
<1>7. DealsInv'
  BY <1>1, DealsStay DEF MarketInv
<1> QED
  BY <1>2, <1>3, <1>4, <1>5, <1>6, <1>7 DEF MarketInv

-----------------------------------------------------------------------------
(* Steps that change no listing and no account                             *)

\* A handler goes on, or ends, without having written anything.
LEMMA JobWaits ==
    ASSUME MarketInv, NEW j \in Jobs, UNCHANGED <<vars, accounts, hiddenFor, written, history>>,
           sessions' \subseteq Users,
           job' \in [Jobs -> JobSlots], \A k \in Jobs \ {j} : job'[k] = job[k],
           Holds(j), JobOK(j)',
           job[j].at \in ToHide => job'[j].at \in ToHide /\ job'[j].user = job[j].user
    PROVE  MarketInv'
<1>1. UNCHANGED <<req, bookings, reviews, comments>>
  BY DEF vars, written
<1>2. MarketLocked'
  <2>1. \A k \in Jobs : Holds(k)
    BY DEF Holds
  <2> QED
    BY <1>1, <2>1, LocksHeld DEF MarketInv
<1>3. ReviewsInv'
  BY <1>1, ReviewsKept DEF MarketInv
<1> QED
  BY <1>1, <1>2, <1>3, Beside DEF MarketInv, MarketTyped

LEMMA DeleteCountKeeps ==
    ASSUME MarketInv, NEW j \in Jobs, DeleteCount(j)
    PROVE  MarketInv'
<1>1. /\ job[j].at = "delete.count" /\ job[j].listing \in Listings
      /\ UNCHANGED <<vars, accounts, sessions, hiddenFor, written, history, bookings>>
      /\ sessions \subseteq Users
  BY DEF DeleteCount, vars, people, MarketInv, JobsInv, JobOK, OfListing, MarketTyped
<1>2. CASE Done(j)
  <2>1. /\ job' \in [Jobs -> JobSlots] /\ job'[j].at = "idle"
        /\ \A k \in Jobs \ {j} : job'[k] = job[k]
    BY <1>2, JobDone DEF MarketInv
  <2>2. Holds(j) /\ JobOK(j)'
    BY <2>1 DEF Holds, JobOK, ChangingAccount, OfListing
  <2> QED
    BY <1>1, <2>1, <2>2, JobWaits DEF ToHide
<1>3. CASE Proceed(j, "delete.remove") /\ \A b \in BookingIds : ~CountsFor(b, job[j].listing)
  <2>1. /\ job' \in [Jobs -> JobSlots] /\ job'[j].at = "delete.remove"
        /\ job'[j].listing = job[j].listing
        /\ \A k \in Jobs \ {j} : job'[k] = job[k]
    BY <1>3, JobProceeds DEF MarketInv, JobPoints
  <2>2. Holds(j) /\ JobOK(j)'
    BY <1>1, <1>3, <2>1 DEF Holds, JobOK, ChangingAccount, OfListing, CountsFor
  <2> QED
    BY <1>1, <2>1, <2>2, JobWaits DEF ToHide
<1> QED
  BY <1>2, <1>3 DEF DeleteCount

LEMMA DeletionCountKeeps ==
    ASSUME MarketInv, NEW j \in Jobs, DeletionCount(j)
    PROVE  MarketInv'
<1>1. /\ job[j].at = "deletion.count" /\ job[j].user \in Users
      /\ UNCHANGED <<vars, accounts, sessions, hiddenFor, written, history, bookings>>
      /\ sessions \subseteq Users
  BY DEF DeletionCount, vars, people, MarketInv, JobsInv, JobOK, ChangingAccount, MarketTyped
<1>2. CASE Done(j)
  <2>1. /\ job' \in [Jobs -> JobSlots] /\ job'[j].at = "idle"
        /\ \A k \in Jobs \ {j} : job'[k] = job[k]
    BY <1>2, JobDone DEF MarketInv
  <2>2. Holds(j) /\ JobOK(j)'
    BY <2>1 DEF Holds, JobOK, ChangingAccount, OfListing
  <2> QED
    BY <1>1, <2>1, <2>2, JobWaits DEF ToHide
<1>3. CASE Proceed(j, "deletion.save") /\ \A b \in BookingIds : ~Binds(b, job[j].user)
  <2>1. /\ job' \in [Jobs -> JobSlots] /\ job'[j].at = "deletion.save"
        /\ job'[j].user = job[j].user
        /\ \A k \in Jobs \ {j} : job'[k] = job[k]
    BY <1>3, JobProceeds DEF MarketInv, JobPoints
  <2>2. Holds(j) /\ JobOK(j)'
    BY <1>1, <1>3, <2>1 DEF Holds, JobOK, ChangingAccount, OfListing, Binds
  <2> QED
    BY <1>1, <2>1, <2>2, JobWaits DEF ToHide
<1> QED
  BY <1>2, <1>3 DEF DeletionCount

LEMMA SessionsDestroyed ==
    ASSUME MarketInv, NEW j \in Jobs, SuspendDestroy(j) \/ DeletionDestroy(j)
    PROVE  MarketInv'
<1>1. /\ UNCHANGED <<vars, accounts, hiddenFor, written, history>>
      /\ sessions' \subseteq Users
  BY DEF SuspendDestroy, DeletionDestroy, MarketInv, MarketTyped
<1>2. CASE SuspendDestroy(j)
  <2>1. /\ job' \in [Jobs -> JobSlots] /\ job'[j].at = "suspend.hide"
        /\ job'[j].user = job[j].user
        /\ \A k \in Jobs \ {j} : job'[k] = job[k]
    BY <1>2, JobProceeds DEF MarketInv, JobPoints, SuspendDestroy
  <2>2. job[j].at = "suspend.destroy" /\ job[j].user \in Users
    BY <1>2 DEF SuspendDestroy, MarketInv, JobsInv, JobOK, ChangingAccount
  <2>3. Holds(j) /\ JobOK(j)'
    BY <2>1, <2>2 DEF Holds, JobOK, ChangingAccount, OfListing
  <2> QED
    BY <1>1, <2>1, <2>3, JobWaits DEF ToHide
<1>3. CASE DeletionDestroy(j)
  <2>1. /\ job' \in [Jobs -> JobSlots] /\ job'[j].at = "idle"
        /\ \A k \in Jobs \ {j} : job'[k] = job[k]
    BY <1>3, JobDone DEF MarketInv, DeletionDestroy
  <2>2. Holds(j) /\ JobOK(j)'
    BY <2>1 DEF Holds, JobOK, ChangingAccount, OfListing
  <2> QED
    BY <1>1, <1>3, <2>1, <2>2, JobWaits DEF ToHide, DeletionDestroy
<1> QED
  BY <1>2, <1>3

LEMMA FailJobKeeps ==
    ASSUME MarketInv, NEW j \in Jobs, FailJob(j)
    PROVE  MarketInv'
<1>1. /\ UNCHANGED <<vars, accounts, sessions, hiddenFor, written, history>>
      /\ job[j].at \notin ToHide /\ Done(j)
  BY DEF FailJob, people
<1>2. /\ job' \in [Jobs -> JobSlots] /\ job'[j].at = "idle"
      /\ \A k \in Jobs \ {j} : job'[k] = job[k]
  BY <1>1, JobDone DEF MarketInv
<1>3. Holds(j) /\ JobOK(j)'
  BY <1>2 DEF Holds, JobOK, ChangingAccount, OfListing
<1> QED
  BY <1>1, <1>2, <1>3, JobWaits DEF MarketInv, MarketTyped

\* A handler starts; that the locks it needs are free is the guard of its step.
LEMMA JobBegins ==
    ASSUME MarketInv, MarketLocked', NEW j \in Jobs,
           UNCHANGED <<vars, people, hiddenFor, written, history>>,
           job[j].at = "idle", job' \in [Jobs -> JobSlots],
           \A k \in Jobs \ {j} : job'[k] = job[k],
           JobOK(j)'
    PROVE  MarketInv'
<1>1. UNCHANGED <<vars, accounts, sessions, hiddenFor, history, bookings, reviews, comments>>
  BY DEF vars, people, written
<1>2. ReviewsInv'
  BY <1>1, ReviewsKept DEF MarketInv
<1> QED
  BY <1>1, <1>2, Beside DEF MarketInv, MarketTyped, ToHide

LEMMA HandlersBegin ==
    ASSUME MarketInv, MarketLocked', NEW j \in Jobs, NEW user \in Users,
           \/ RequestDeletion(j, user)
           \/ \E l \in Listings, shown \in {"active", "paused"} :
                 \/ UpdateListing(j, user, l, ToggleListing(shown))
                 \/ UpdateListing(j, user, l, EditForm)
           \/ \E l \in Listings : DeleteListing(j, user, l)
           \/ \E admin \in Admins, shown \in UserStatuses :
                 SuspendUser(j, admin, user, ToggleUser(shown))
    PROVE  MarketInv'
<1> USE DEF JobPoints, ListingStatuses, UserStatuses
<1>1. MarketTyped
  BY DEF MarketInv
<1>2. CASE RequestDeletion(j, user)
  <2>1. /\ job' \in [Jobs -> JobSlots] /\ job[j].at = "idle"
        /\ job'[j].at = "deletion.count" /\ job'[j].user = user
        /\ \A k \in Jobs \ {j} : job'[k] = job[k]
    BY <1>1, <1>2, JobStarts DEF RequestDeletion
  <2>2. JobOK(j)'
    BY <2>1 DEF JobOK, OfListing
  <2> QED
    BY <1>2, <2>1, <2>2, JobBegins DEF RequestDeletion
<1>3. ASSUME NEW l \in Listings, NEW to \in {"active", "paused", "absent"},
             UpdateListing(j, user, l, to)
      PROVE  MarketInv'
  <2>1. PICK put \in {"active", "paused", "absent"} :
           Start(j, "update.save", user, l, None, put)
    BY <1>3 DEF UpdateListing
  <2>2. /\ job' \in [Jobs -> JobSlots] /\ job[j].at = "idle"
        /\ job'[j].at = "update.save"
        /\ job'[j].listing = l /\ job'[j].to = put
        /\ \A k \in Jobs \ {j} : job'[k] = job[k]
    BY <1>1, <2>1, JobStarts
  <2>3. JobOK(j)'
    BY <2>2 DEF JobOK, ChangingAccount
  <2> QED
    BY <1>3, <2>2, <2>3, JobBegins DEF UpdateListing
<1>4. ASSUME NEW l \in Listings, DeleteListing(j, user, l) PROVE MarketInv'
  <2>1. /\ job' \in [Jobs -> JobSlots] /\ job[j].at = "idle"
        /\ job'[j].at = "delete.count" /\ job'[j].listing = l
        /\ \A k \in Jobs \ {j} : job'[k] = job[k]
    BY <1>1, <1>4, JobStarts DEF DeleteListing
  <2>2. JobOK(j)'
    BY <2>1 DEF JobOK, ChangingAccount
  <2> QED
    BY <1>4, <2>1, <2>2, JobBegins DEF DeleteListing
<1>5. ASSUME NEW admin \in Admins, NEW to \in {"active", "suspended"},
             SuspendUser(j, admin, user, to)
      PROVE  MarketInv'
  <2>1. /\ job' \in [Jobs -> JobSlots] /\ job[j].at = "idle"
        /\ job'[j].at = "suspend.save" /\ job'[j].user = user /\ job'[j].to = to
        /\ \A k \in Jobs \ {j} : job'[k] = job[k]
    <3>1. Start(j, "suspend.save", user, None, None, to)
      BY <1>5 DEF SuspendUser
    <3>2. "suspend.save" \in JobPoints /\ to \in UserStatuses
      BY <1>5
    <3> HIDE DEF JobPoints, ListingStatuses, UserStatuses
    <3> QED
      BY <1>1, <3>1, <3>2, JobStarts
  <2>2. JobOK(j)'
    BY <2>1 DEF JobOK, OfListing
  <2> QED
    BY <1>5, <2>1, <2>2, JobBegins DEF SuspendUser
<1> QED
  BY <1>2, <1>3, <1>4, <1>5 DEF ToggleListing, EditForm, ToggleUser

LEMMA SessionsChange ==
    ASSUME MarketInv, NEW user \in Users, Login(user) \/ Logout(user)
    PROVE  MarketInv'
<1>1. /\ UNCHANGED <<vars, accounts, hiddenFor, history, bookings, req, comments, reviews, job>>
      /\ sessions' \subseteq Users
  BY DEF Login, Logout, vars, written, MarketInv, MarketTyped
<1>2. ReviewsInv'
  BY <1>1, ReviewsKept DEF MarketInv
<1>3. MarketLocked'
  BY <1>1 DEF MarketInv, MarketLocked
<1> QED
  BY <1>1, <1>2, <1>3, Beside DEF MarketInv, MarketTyped

-----------------------------------------------------------------------------
(* Reviews and comments                                                    *)

\* The parties of a booking have accounts.
LEMMA PartiesAreUsers ==
    ASSUME MarketInv, NEW b \in BookingIds, Present(b)
    PROVE  /\ bookings[b].borrower \in Users /\ bookings[b].lender \in Users
           /\ bookings[b].borrower # bookings[b].lender
  BY DEF MarketInv, CurrentInv, LockedInv, BookingsInv, DocumentsInv

LEMMA WritingStarts ==
    ASSUME MarketInv, NEW j \in Jobs, NEW user \in Users, NEW b \in BookingIds,
           CreateReview(j, user, b) \/ AddComment(j, user, b)
    PROVE  MarketInv'
<1>1. UNCHANGED <<vars, people, hiddenFor, written, history, bookings, req>>
  BY DEF CreateReview, AddComment, vars
<1>2. PICK point \in {"review.insert", "comment.push"} :
         /\ Start(j, point, user, None, b, "absent")
         /\ point = "review.insert" => bookings[b].status = "completed" /\ IsParty(b, user)
  BY DEF CreateReview, AddComment
<1>3. /\ job' \in [Jobs -> JobSlots]
      /\ job'[j].at = point /\ job'[j].user = user /\ job'[j].booking = b
      /\ job[j].at = "idle"
      /\ \A k \in Jobs \ {j} : job'[k] = job[k]
  BY <1>2, JobStarts DEF MarketInv, JobPoints
<1>4. JobOK(j)'
  BY <1>1, <1>2, <1>3 DEF JobOK, IsParty, ChangingAccount, OfListing
<1>5. MarketLocked'
  <2>1. \A k \in Jobs : Holds(k)
    BY <1>3 DEF Holds, ChangingAccount
  <2> QED
    BY <1>1, <2>1, LocksHeld DEF MarketInv
<1> QED
  BY <1>1, <1>3, <1>4, <1>5, JobBegins

\* What is left to show of a handler that writes a review or a comment.
LEMMA WriterEnds ==
    ASSUME MarketInv, NEW j \in Jobs, UNCHANGED <<vars, accounts, sessions, hiddenFor, history>>,
           Done(j), job[j].at \notin ToHide,
           comments' \subseteq BookingIds \X Users, ReviewsInv'
    PROVE  MarketInv'
<1>1. /\ job' \in [Jobs -> JobSlots] /\ job'[j].at = "idle"
      /\ \A k \in Jobs \ {j} : job'[k] = job[k]
  BY JobDone DEF MarketInv
<1>2. Holds(j) /\ JobOK(j)'
  BY <1>1 DEF Holds, JobOK, ChangingAccount, OfListing
<1>3. MarketLocked'
  <2>1. \A k \in Jobs : Holds(k)
    BY <1>1, <1>2 DEF Holds
  <2> QED
    BY <2>1, LocksHeld DEF MarketInv, vars
<1> QED
  BY <1>1, <1>2, <1>3, Beside DEF MarketInv, MarketTyped

\* A review is inserted, unless its author wrote one already.
LEMMA ReviewInsertKeeps ==
    ASSUME MarketInv, NEW j \in Jobs, ReviewInsert(j)
    PROVE  MarketInv'
<1> PICK user, b : user = job[j].user /\ b = job[j].booking
  OBVIOUS
<1>1. /\ UNCHANGED <<vars, accounts, sessions, hiddenFor, history, bookings, comments>>
      /\ Done(j)
      /\ job[j].at = "review.insert"
  BY DEF ReviewInsert, vars
<1>4. /\ user \in Users /\ b \in BookingIds
      /\ bookings[b].status = "completed" /\ IsParty(b, user)
  BY <1>1 DEF MarketInv, JobsInv, JobOK
<1>5. ReviewsInv'
  <2>1. CASE Duplicate(user, b)
    <3>1. reviews' = reviews
      BY <2>1 DEF ReviewInsert
    <3> QED
      BY <1>1, <3>1, ReviewsKept DEF MarketInv
  <2>2. CASE ~Duplicate(user, b)
    <3> PICK new : new = Review(user, b)
      OBVIOUS
    <3>1. Present(b)
      BY <1>4 DEF Present
    <3>2. /\ new \in ReviewDocuments /\ new.booking = b /\ new.author = user
          /\ {new.author, new.target} = {bookings[b].borrower, bookings[b].lender}
          /\ new.author # new.target
      BY <1>4, <3>1, PartiesAreUsers DEF Review, ReviewDocuments, IsParty
    <3>3. HasBeen(b, "completed")
      <4>1. /\ bookings[b].history # <<>> /\ bookings[b].history \in Seq(HistoryEntries)
            /\ bookings[b].history[Len(bookings[b].history)].status = "completed"
        BY <1>4, <3>1 DEF MarketInv, CurrentInv, LockedInv, BookingsInv, DocumentsInv, LastStatus,
                          TypeOK, Documents
      <4>2. Len(bookings[b].history) \in DOMAIN bookings[b].history
        BY <4>1
      <4> QED
        BY <4>1, <4>2 DEF HasBeen
    <3>4. reviews' = Append(reviews, new) /\ reviews \in Seq(ReviewDocuments)
      BY <2>2 DEF ReviewInsert, MarketInv, ReviewsInv
    <3> PICK n \in Nat : n = Len(reviews)
      BY <3>4
    <3>5. /\ reviews' \in Seq(ReviewDocuments)
          /\ DOMAIN reviews = 1..n /\ DOMAIN reviews' = 1..(n + 1)
          /\ reviews'[n + 1] = new
          /\ \A i \in 1..n : reviews'[i] = reviews[i]
      BY <3>2, <3>4
    <3>6. \A i \in 1..n : ~(reviews[i].booking = b /\ reviews[i].author = user)
      BY <2>2, <3>5 DEF Duplicate
    <3>7. \A i \in DOMAIN reviews' : i = n + 1 \/ i \in 1..n
      BY <3>5
    <3>8. \A r : ReviewOK(r)' <=> ReviewOK(r)
      BY <1>1 DEF ReviewOK, HasBeen
    <3>9. ReviewOK(new)
      BY <3>2, <3>3 DEF ReviewOK
    <3>10. \A i \in DOMAIN reviews' : ReviewOK(reviews'[i])
      BY <3>5, <3>7, <3>9 DEF MarketInv, ReviewsInv
    <3>11. \A i, k \in DOMAIN reviews' :
              reviews'[i].booking = reviews'[k].booking
              /\ reviews'[i].author = reviews'[k].author => i = k
      BY <3>2, <3>5, <3>6, <3>7 DEF MarketInv, ReviewsInv
    <3>12. \A i \in DOMAIN reviews' : ReviewOK(reviews[i])'
      BY <1>1, <3>10 DEF ReviewOK, HasBeen
    <3> QED
      BY <3>5, <3>11, <3>12 DEF ReviewsInv
  <2> QED
    BY <2>1, <2>2
<1> QED
  BY <1>1, <1>5, WriterEnds DEF MarketInv, MarketTyped, ToHide

LEMMA CommentPushKeeps ==
    ASSUME MarketInv, NEW j \in Jobs, CommentPush(j)
    PROVE  MarketInv'
<1>1. /\ UNCHANGED <<vars, accounts, sessions, hiddenFor, history, bookings, reviews>>
      /\ comments' = comments \cup {<<job[j].booking, job[j].user>>}
      /\ Done(j)
      /\ job[j].at = "comment.push"
  BY DEF CommentPush, vars
<1>2. comments' \subseteq BookingIds \X Users
  BY <1>1 DEF MarketInv, MarketTyped, JobsInv, JobOK
<1>3. ReviewsInv'
  BY <1>1, ReviewsKept DEF MarketInv
<1> QED
  BY <1>1, <1>2, <1>3, WriterEnds DEF ToHide

\* A sequence without one of its entries.
LEMMA WithoutOne ==
    ASSUME NEW S, NEW s \in Seq(S), NEW i \in DOMAIN s
    PROVE  /\ RemoveAt(s, i) \in Seq(S)
           /\ \A k \in DOMAIN RemoveAt(s, i) :
                 /\ k < i => k \in DOMAIN s /\ RemoveAt(s, i)[k] = s[k]
                 /\ ~(k < i) => k + 1 \in DOMAIN s /\ RemoveAt(s, i)[k] = s[k + 1]
           /\ DOMAIN RemoveAt(s, i) \subseteq Nat /\ i \in Nat
<1> DEFINE front == SubSeq(s, 1, i - 1)
           back  == SubSeq(s, i + 1, Len(s))
<1>1. /\ i \in 1..Len(s) /\ Len(s) \in Nat /\ DOMAIN s = 1..Len(s)
      /\ \A k \in 1..Len(s) : s[k] \in S
  OBVIOUS
<1>2. /\ front \in Seq(S) /\ Len(front) = i - 1
      /\ \A k \in 1..(i - 1) : front[k] = s[k]
  BY <1>1
<1>3. /\ back \in Seq(S) /\ Len(back) = Len(s) - i
      /\ \A k \in 1..(Len(s) - i) : back[k] = s[i + k]
  <2>1. \A k \in (i + 1)..Len(s) : s[k] \in S
    BY <1>1
  <2>2. i + 1 \in Int /\ Len(s) \in Int
    BY <1>1
  <2>3. /\ back \in Seq(S)
        /\ Len(back) = IF i + 1 <= Len(s) THEN Len(s) - (i + 1) + 1 ELSE 0
        /\ \A k \in 1..(Len(s) - (i + 1) + 1) : back[k] = s[(i + 1) + k - 1]
    BY <2>1, <2>2, SubSeqProperties
  <2> HIDE DEF back
  <2>4. /\ Len(s) - (i + 1) + 1 = Len(s) - i
        /\ \A k \in Int : (i + 1) + k - 1 = i + k
        /\ (IF i + 1 <= Len(s) THEN Len(s) - (i + 1) + 1 ELSE 0) = Len(s) - i
    BY <1>1
  <2>5. ASSUME NEW k \in 1..(Len(s) - i) PROVE back[k] = s[i + k]
    <3>1. back[k] = s[(i + 1) + k - 1]
      BY <2>3, <2>4
    <3>2. (i + 1) + k - 1 = i + k
      BY <2>4
    <3> QED
      BY <3>1, <3>2
  <2> QED
    BY <2>3, <2>4, <2>5
<1>4. RemoveAt(s, i) = front \o back
  BY DEF RemoveAt
<1> HIDE DEF front, back
<1> PICK n \in Nat : n = Len(s)
  BY <1>1
<1> PICK r : r = front \o back
  OBVIOUS
<1>5. /\ r \in Seq(S) /\ Len(r) = n - 1
      /\ \A k \in 1..(n - 1) : r[k] = IF k <= i - 1 THEN front[k] ELSE back[k - (i - 1)]
  <2>1. i \in Int /\ n \in Int
    BY <1>1
  <2>2. (i - 1) + (n - i) = n - 1
    <3>1. \A x, y \in Int : (x - 1) + (y - x) = y - 1
      OBVIOUS
    <3> QED
      BY <2>1, <3>1
  <2>3. Len(front) = i - 1 /\ Len(back) = n - i
    BY <1>2, <1>3
  <2>4. /\ r \in Seq(S) /\ Len(r) = Len(front) + Len(back)
        /\ \A k \in 1..(Len(front) + Len(back)) :
              r[k] = IF k <= Len(front) THEN front[k] ELSE back[k - Len(front)]
    BY <1>2, <1>3, ConcatProperties
  <2> HIDE DEF front, back
  <2> QED
    BY <2>2, <2>3, <2>4
<1>6. DOMAIN r = 1..(n - 1)
  BY <1>5
<1>7. ASSUME NEW k \in 1..(n - 1), k < i PROVE r[k] = s[k]
  BY <1>1, <1>2, <1>5, <1>7
<1>8. ASSUME NEW k \in 1..(n - 1), ~(k < i) PROVE r[k] = s[k + 1]
  <2>1. k - (i - 1) \in 1..(n - i) /\ i + (k - (i - 1)) = k + 1 /\ ~(k <= i - 1)
    BY <1>1, <1>8
  <2>2. r[k] = back[k - (i - 1)]
    BY <1>5, <2>1
  <2> QED
    BY <1>3, <2>1, <2>2
<1>9. \A k \in 1..(n - 1) : k \in Nat /\ k \in DOMAIN s /\ k + 1 \in DOMAIN s
  BY <1>1
<1>10. i \in Nat
  BY <1>1
<1>11. r = RemoveAt(s, i)
  BY <1>4
<1>12. \A k \in DOMAIN r :
          /\ k \in Nat
          /\ k < i => k \in DOMAIN s /\ r[k] = s[k]
          /\ ~(k < i) => k + 1 \in DOMAIN s /\ r[k] = s[k + 1]
  BY <1>6, <1>7, <1>8, <1>9
<1> QED
  BY <1>5, <1>10, <1>11, <1>12

LEMMA RemoveReviewKeeps ==
    ASSUME MarketInv, NEW user \in Users, NEW i, RemoveReview(user, i)
    PROVE  MarketInv'
<1>1. /\ UNCHANGED <<vars, accounts, sessions, hiddenFor, history, bookings, comments, job>>
      /\ i \in DOMAIN reviews /\ reviews' = RemoveAt(reviews, i)
      /\ reviews \in Seq(ReviewDocuments)
  BY DEF RemoveReview, vars, MarketInv, ReviewsInv
<1>2. /\ reviews' \in Seq(ReviewDocuments)
      /\ \A k \in DOMAIN reviews' :
            /\ k < i => k \in DOMAIN reviews /\ reviews'[k] = reviews[k]
            /\ ~(k < i) => k + 1 \in DOMAIN reviews /\ reviews'[k] = reviews[k + 1]
      /\ DOMAIN reviews' \subseteq Nat /\ i \in Nat
  BY <1>1, WithoutOne
<1>3. \A k \in DOMAIN reviews' : ReviewOK(reviews'[k])
  BY <1>2 DEF MarketInv, ReviewsInv
<1>4. \A k \in DOMAIN reviews' : ReviewOK(reviews[k])'
  BY <1>1, <1>3 DEF ReviewOK, HasBeen
<1>5. \A k, m \in DOMAIN reviews' :
         reviews'[k].booking = reviews'[m].booking
         /\ reviews'[k].author = reviews'[m].author => k = m
  <2>1. SUFFICES ASSUME NEW k \in DOMAIN reviews', NEW m \in DOMAIN reviews',
                        reviews'[k].booking = reviews'[m].booking,
                        reviews'[k].author = reviews'[m].author
                 PROVE  k = m
    OBVIOUS
  <2> DEFINE old(x) == IF x < i THEN x ELSE x + 1
  <2>2. /\ old(k) \in DOMAIN reviews /\ reviews'[k] = reviews[old(k)]
        /\ old(m) \in DOMAIN reviews /\ reviews'[m] = reviews[old(m)]
    BY <1>2
  <2>3. old(k) = old(m)
    <3> HIDE DEF old
    <3> QED
      BY <2>1, <2>2 DEF MarketInv, ReviewsInv
  <2>4. k \in Nat /\ m \in Nat /\ i \in Nat
    BY <1>2
  <2> QED
    BY <2>3, <2>4
<1>6. ReviewsInv'
  BY <1>2, <1>4, <1>5 DEF ReviewsInv
<1>7. MarketLocked'
  BY <1>1 DEF vars, MarketInv, MarketLocked
<1> QED
  BY <1>1, <1>6, <1>7, Beside DEF MarketInv, MarketTyped

-----------------------------------------------------------------------------
(* Steps that write a listing                                              *)

LEMMA HidingKept ==
    ASSUME NEW j \in Jobs, \A k \in Jobs \ {j} : job'[k] = job[k],
           job[j].at \in ToHide => job'[j].at \in ToHide /\ job'[j].user = job[j].user
    PROVE  \A user : Hiding(user) => Hiding(user)'
  BY DEF Hiding

LEMMA UpdateSaveKeeps ==
    ASSUME MarketInv, NEW j \in Jobs, UpdateSave(j)
    PROVE  MarketInv'
<1> PICK l, to : l = job[j].listing /\ to = job[j].to
  OBVIOUS
<1>1. /\ job[j].at = "update.save" /\ l \in Listings /\ to \in {"absent", "active", "paused"}
      /\ UNCHANGED <<orders, accounts, sessions, hiddenFor, written, bookings, req>>
      /\ Done(j)
  BY DEF UpdateSave, MarketInv, JobsInv, JobOK, OfListing, people, orders
<1>2. \/ UNCHANGED <<listings, asked, overruled, reopened>>
      \/ /\ to # "absent" /\ listings[l].status \notin Gone
         /\ listings' = [listings EXCEPT ![l].status = to]
         /\ asked' = [asked EXCEPT ![l] = to]
         /\ overruled' = IF l \in hiddenFor THEN overruled \cup {l} ELSE overruled \ {l}
         /\ reopened' = IF to = "active" /\ Inactive(listings[l].owner)
                        THEN reopened \cup {l} ELSE reopened \ {l}
  BY DEF UpdateSave, history
<1>3. /\ job' \in [Jobs -> JobSlots] /\ job'[j].at = "idle"
      /\ \A k \in Jobs \ {j} : job'[k] = job[k]
  BY <1>1, JobDone DEF MarketInv
<1>4. Holds(j) /\ JobOK(j)'
  BY <1>3 DEF Holds, JobOK, ChangingAccount, OfListing
<1>5. /\ listings' \in [Listings -> ListingDocuments]
      /\ asked' \in [Listings -> ListingStatuses]
      /\ overruled' \subseteq Listings /\ reopened' \subseteq Listings
      /\ \A k \in Listings : listings'[k].owner = listings[k].owner
      /\ \A k \in Listings \ {l} :
            /\ listings'[k] = listings[k] /\ asked'[k] = asked[k]
            /\ k \in overruled' <=> k \in overruled
            /\ k \in reopened' <=> k \in reopened
  <2>1. /\ listings \in [Listings -> ListingDocuments]
        /\ asked \in [Listings -> ListingStatuses]
        /\ overruled \subseteq Listings /\ reopened \subseteq Listings
    BY DEF MarketInv, MarketTyped
  <2>2. CASE UNCHANGED <<listings, asked, overruled, reopened>>
    BY <2>1, <2>2
  <2>3. CASE ~UNCHANGED <<listings, asked, overruled, reopened>>
    <3>1. /\ listings' = [listings EXCEPT ![l].status = to]
          /\ asked' = [asked EXCEPT ![l] = to]
          /\ overruled' \in {overruled \cup {l}, overruled \ {l}}
          /\ reopened' \in {reopened \cup {l}, reopened \ {l}}
          /\ to \in {"active", "paused"}
      BY <1>1, <1>2, <2>3
    <3>2. [listings[l] EXCEPT !.status = to] \in ListingDocuments
      BY <1>1, <2>1, <3>1 DEF ListingDocuments, ListingStatuses
    <3>3. /\ listings' \in [Listings -> ListingDocuments]
          /\ \A k \in Listings \ {l} : listings'[k] = listings[k]
          /\ listings'[l] = [listings[l] EXCEPT !.status = to]
      BY <1>1, <2>1, <3>1, <3>2
    <3>4. \A k \in Listings : listings'[k].owner = listings[k].owner
      <4>1. [listings[l] EXCEPT !.status = to].owner = listings[l].owner
        BY <1>1, <2>1 DEF ListingDocuments
      <4> QED
        BY <3>3, <4>1
    <3>5. /\ asked' \in [Listings -> ListingStatuses]
          /\ \A k \in Listings \ {l} : asked'[k] = asked[k]
      BY <1>1, <2>1, <3>1 DEF ListingStatuses
    <3>6. /\ overruled' \subseteq Listings /\ reopened' \subseteq Listings
          /\ \A k \in Listings \ {l} : /\ k \in overruled' <=> k \in overruled
                                       /\ k \in reopened' <=> k \in reopened
      BY <1>1, <2>1, <3>1
    <3> QED
      BY <3>3, <3>4, <3>5, <3>6
  <2> QED
    BY <2>2, <2>3
<1>6. CurrentInv' /\ MarketTyped' /\ MarketLocked' /\ JobsInv' /\ ReviewsInv'
  BY <1>1, <1>3, <1>4, <1>5, JobSteps DEF MarketInv, MarketTyped
<1>7. OpenInv'
  <2> SUFFICES ASSUME NEW k \in Listings, NEW o, o = listings'[k].owner,
                      listings'[k].status = "active", Inactive(o)'
               PROVE  Hiding(o)' \/ k \in reopened'
    BY DEF OpenInv
  <2>1. \A user : Hiding(user) => Hiding(user)'
    BY <1>1, <1>3, HidingKept DEF ToHide
  <2>2. Inactive(o) /\ o = listings[k].owner
    BY <1>1, <1>5 DEF Inactive
  <2>3. CASE k # l \/ UNCHANGED <<listings, reopened>>
    <3>1. listings[k].status = "active" /\ (k \in reopened' <=> k \in reopened)
      BY <1>5, <2>3
    <3> QED
      BY <2>1, <2>2, <3>1 DEF MarketInv, OpenInv
  <2>4. CASE k = l /\ ~UNCHANGED <<listings, reopened>>
    <3>1. listings'[l].status = to
      BY <1>1, <1>2, <2>4 DEF MarketInv, MarketTyped, ListingDocuments
    <3> QED
      BY <1>2, <2>2, <2>4, <3>1
  <2> QED
    BY <2>3, <2>4
<1>8. ListingsInv'
  <2> SUFFICES ASSUME NEW k \in Listings \ overruled' PROVE ListingFits(k)'
    BY DEF ListingsInv
  <2>1. CASE k # l \/ UNCHANGED <<listings, asked, overruled>>
    <3>1. listings'[k] = listings[k] /\ asked'[k] = asked[k] /\ k \notin overruled
      BY <1>5, <2>1
    <3> QED
      BY <1>1, <3>1 DEF ListingFits, MarketInv, ListingsInv
  <2>2. CASE k = l /\ ~UNCHANGED <<listings, asked, overruled>>
    <3>1. listings'[l].status = to /\ asked'[l] = to /\ l \notin hiddenFor
      BY <1>1, <1>2, <2>2 DEF MarketInv, MarketTyped, ListingDocuments
    <3> QED
      BY <1>1, <2>2, <3>1 DEF ListingFits
  <2> QED
    BY <2>1, <2>2
<1>9. DealsInv'
  <2>1. \A k \in Listings : listings[k].status \notin Gone => listings'[k].status \notin Gone
    BY <1>1, <1>2, <1>5 DEF MarketInv, MarketTyped, ListingDocuments, Gone
  <2> QED
    BY <1>1, <1>5, <2>1, DealsStay DEF MarketInv
<1> QED
  BY <1>6, <1>7, <1>8, <1>9 DEF MarketInv

LEMMA DeleteRemoveKeeps ==
    ASSUME MarketInv, NEW j \in Jobs, DeleteRemove(j)
    PROVE  MarketInv'
<1> PICK l : l = job[j].listing
  OBVIOUS
<1>1. /\ job[j].at = "delete.remove" /\ l \in Listings
      /\ \A b \in BookingIds : ~CountsFor(b, l)
      /\ UNCHANGED <<orders, accounts, sessions, hiddenFor, written, asked, overruled,
                     reopened, bookings, req>>
      /\ listings' = [listings EXCEPT ![l].status = "deleted"]
      /\ Done(j)
  BY DEF DeleteRemove, MarketInv, JobsInv, JobOK, OfListing, people, orders, history
<1>2. /\ job' \in [Jobs -> JobSlots] /\ job'[j].at = "idle"
      /\ \A k \in Jobs \ {j} : job'[k] = job[k]
  BY <1>1, JobDone DEF MarketInv
<1>3. Holds(j) /\ JobOK(j)'
  BY <1>2 DEF Holds, JobOK, ChangingAccount, OfListing
<1>4. /\ listings' \in [Listings -> ListingDocuments]
      /\ listings'[l].status = "deleted"
      /\ \A k \in Listings \ {l} : listings'[k] = listings[k]
  BY <1>1 DEF MarketInv, MarketTyped, ListingDocuments, Gone
<1>5. CurrentInv' /\ MarketTyped' /\ MarketLocked' /\ JobsInv' /\ ReviewsInv'
  BY <1>1, <1>2, <1>3, <1>4, JobSteps DEF MarketInv, MarketTyped
<1>6. OpenInv'
  <2>1. \A user : Hiding(user) => Hiding(user)'
    BY <1>1, <1>2, HidingKept DEF ToHide
  <2> QED
    BY <1>1, <1>4, <2>1 DEF MarketInv, OpenInv, Inactive
<1>7. ListingsInv'
  BY <1>1, <1>4 DEF MarketInv, ListingsInv, ListingFits
<1>8. DealsInv'
  <2>1. \A b \in BookingIds : Live(b) => bookings[b].listing # l
    BY <1>1 DEF Live, CountsFor
  <2>2. \A r \in Requests : Creating(r) => req[r].doc.listing # l
    BY <1>1 DEF MarketInv, MarketLocked, Creating, Choosing
  <2> QED
    BY <1>1, <1>4, <2>1, <2>2 DEF MarketInv, DealsInv, Kept, Live, Creating
<1> QED
  BY <1>5, <1>6, <1>7, <1>8 DEF MarketInv

\* A listing is put up, or an administrator takes one down.
LEMMA CatalogueChanges ==
    ASSUME MarketInv, NEW user \in Users, NEW l \in Listings,
           CreateListing(user, l) \/ RemoveListing(user, l)
    PROVE  MarketInv'
<1>1. /\ UNCHANGED <<orders, accounts, sessions, hiddenFor, asked, overruled, written, job,
                     bookings, req, reviews, comments>>
      /\ reopened \subseteq reopened' /\ reopened' \subseteq Listings
  BY DEF CreateListing, RemoveListing, market, people, history, orders, written,
         MarketInv, MarketTyped
<1>2. /\ listings' \in [Listings -> ListingDocuments]
      /\ \A k \in Listings \ {l} : listings'[k] = listings[k]
      /\ listings'[l].owner = listings[l].owner
  BY DEF CreateListing, RemoveListing, MarketInv, MarketTyped, ListingDocuments,
         ListingStatuses
<1>3. \/ /\ listings[l].status = "unused" /\ listings'[l].status = "active"
         /\ Inactive(listings[l].owner) => l \in reopened'
      \/ listings[l].status \notin Gone /\ listings'[l].status = "removed_by_admin"
  <2>1. CASE CreateListing(user, l)
    BY <2>1 DEF CreateListing, MarketInv, MarketTyped, ListingDocuments
  <2>2. CASE RemoveListing(user, l)
    BY <2>2 DEF RemoveListing, MarketInv, MarketTyped, ListingDocuments
  <2> QED
    BY <2>1, <2>2
<1>4. CurrentInv'
  BY <1>1, <1>2, BookingsAside DEF MarketInv
<1>5. MarketTyped'
  BY <1>1, <1>2 DEF MarketInv, MarketTyped
<1>6. MarketLocked'
  BY <1>1 DEF MarketInv, MarketLocked
<1>7. JobsInv'
  BY <1>1, WaitingKept DEF MarketInv, JobsInv
<1>8. OpenInv'
  <2>1. \A u : (Hiding(u)' <=> Hiding(u)) /\ (Inactive(u)' <=> Inactive(u))
    BY <1>1 DEF Hiding, Inactive
  <2> QED
    BY <1>1, <1>2, <1>3, <2>1 DEF MarketInv, OpenInv
<1>9. ListingsInv'
  BY <1>1, <1>2, <1>3 DEF MarketInv, ListingsInv, ListingFits
<1>10. DealsInv'
  <2>1. "active" \notin Gone /\ "removed_by_admin" \notin Gone
    BY DEF Gone
  <2> QED
    BY <1>1, <1>2, <1>3, <2>1, DealsStay DEF MarketInv
<1>11. ReviewsInv'
  BY <1>1, ReviewsKept DEF MarketInv
<1> QED
  BY <1>4, <1>5, <1>6, <1>7, <1>8, <1>9, <1>10, <1>11 DEF MarketInv

-----------------------------------------------------------------------------
(* Steps that hide or restore the listings of a user                       *)

\* Hiding takes every active listing of the user, and nothing else.
LEMMA HideFits ==
    ASSUME MarketInv, NEW u, HideListingsForInactiveOwner(u),
           UNCHANGED <<accounts, asked, overruled>>,
           NEW j \in Jobs, job[j].user = u, \A k \in Jobs \ {j} : job'[k] = job[k]
    PROVE  /\ listings' \in [Listings -> ListingDocuments]
           /\ hiddenFor' \subseteq Listings /\ reopened' \subseteq Listings
           /\ \A k \in Listings : listings[k].status \notin Gone =>
                 listings'[k].status \notin Gone /\ listings'[k].owner = listings[k].owner
           /\ OpenInv' /\ ListingsInv'
<1> DEFINE hit == {l \in Listings : listings[l].owner = u /\ listings[l].status = "active"}
<1>1. /\ \A k \in hit : /\ listings'[k].status = "paused"
                        /\ listings'[k].owner = listings[k].owner
                        /\ listings'[k] \in ListingDocuments
      /\ \A k \in Listings \ hit : listings'[k] = listings[k]
      /\ hiddenFor' = hiddenFor \cup hit /\ reopened' = reopened \ hit
  BY DEF HideListingsForInactiveOwner, MarketInv, MarketTyped, ListingDocuments, ListingStatuses
<1>2. listings' \in [Listings -> ListingDocuments]
  BY <1>1 DEF HideListingsForInactiveOwner, MarketInv, MarketTyped
<1>3. hiddenFor' \subseteq Listings /\ reopened' \subseteq Listings
  BY <1>1 DEF MarketInv, MarketTyped
<1>4. \A k \in Listings : listings[k].status \notin Gone =>
         listings'[k].status \notin Gone /\ listings'[k].owner = listings[k].owner
  BY <1>1 DEF Gone
<1>5. OpenInv'
  <2> SUFFICES ASSUME NEW k \in Listings, NEW o, o = listings'[k].owner,
                      listings'[k].status = "active", Inactive(o)'
               PROVE  Hiding(o)' \/ k \in reopened'
    BY DEF OpenInv
  <2>1. k \notin hit
    BY <1>1
  <2>2. listings'[k] = listings[k] /\ (k \in reopened' <=> k \in reopened)
    BY <1>1, <2>1
  <2>3. o # u
    BY <2>1, <2>2
  <2>4. Hiding(o) \/ k \in reopened
    BY <2>2 DEF MarketInv, OpenInv, Inactive
  <2>5. Hiding(o) => Hiding(o)'
    BY <2>3 DEF Hiding
  <2> QED
    BY <2>2, <2>4, <2>5
<1>6. ListingsInv'
  BY <1>1 DEF MarketInv, ListingsInv, ListingFits
<1> QED
  BY <1>2, <1>3, <1>4, <1>5, <1>6

LEMMA SuspendHideKeeps ==
    ASSUME MarketInv, NEW j \in Jobs, SuspendHide(j)
    PROVE  MarketInv'
<1> PICK u : u = job[j].user
  OBVIOUS
<1>1. /\ job[j].at = "suspend.hide"
      /\ UNCHANGED <<orders, accounts, sessions, written, asked, overruled, bookings, req>>
      /\ HideListingsForInactiveOwner(u)
      /\ Done(j)
  BY DEF SuspendHide, people, orders
<1>2. /\ job' \in [Jobs -> JobSlots] /\ job'[j].at = "idle"
      /\ \A k \in Jobs \ {j} : job'[k] = job[k]
  BY <1>1, JobDone DEF MarketInv
<1>3. Holds(j) /\ JobOK(j)'
  BY <1>2 DEF Holds, JobOK, ChangingAccount, OfListing
<1>4. /\ listings' \in [Listings -> ListingDocuments]
      /\ hiddenFor' \subseteq Listings /\ reopened' \subseteq Listings
      /\ \A k \in Listings : listings[k].status \notin Gone =>
            listings'[k].status \notin Gone /\ listings'[k].owner = listings[k].owner
      /\ OpenInv' /\ ListingsInv'
  BY <1>1, <1>2, HideFits
<1>5. CurrentInv' /\ MarketTyped' /\ MarketLocked' /\ JobsInv' /\ ReviewsInv'
  BY <1>1, <1>2, <1>3, <1>4, JobSteps DEF MarketInv, MarketTyped
<1>6. DealsInv'
  BY <1>1, <1>4, DealsStay DEF MarketInv
<1> QED
  BY <1>4, <1>5, <1>6 DEF MarketInv

LEMMA DeletionHideKeeps ==
    ASSUME MarketInv, NEW j \in Jobs, DeletionHide(j)
    PROVE  MarketInv'
<1> PICK u : u = job[j].user
  OBVIOUS
<1>1. /\ job[j].at = "deletion.hide" /\ u \in Users
      /\ UNCHANGED <<orders, accounts, sessions, written, asked, overruled, bookings, req>>
      /\ HideListingsForInactiveOwner(u)
      /\ Proceed(j, "deletion.destroy")
  BY DEF DeletionHide, people, orders, MarketInv, JobsInv, JobOK, ChangingAccount
<1>2. /\ job' \in [Jobs -> JobSlots] /\ job'[j].at = "deletion.destroy" /\ job'[j].user = u
      /\ \A k \in Jobs \ {j} : job'[k] = job[k]
  BY <1>1, JobProceeds DEF MarketInv, JobPoints
<1>3. Holds(j) /\ JobOK(j)'
  BY <1>1, <1>2 DEF Holds, JobOK, ChangingAccount, OfListing
<1>4. /\ listings' \in [Listings -> ListingDocuments]
      /\ hiddenFor' \subseteq Listings /\ reopened' \subseteq Listings
      /\ \A k \in Listings : listings[k].status \notin Gone =>
            listings'[k].status \notin Gone /\ listings'[k].owner = listings[k].owner
      /\ OpenInv' /\ ListingsInv'
  BY <1>1, <1>2, HideFits
<1>5. CurrentInv' /\ MarketTyped' /\ MarketLocked' /\ JobsInv' /\ ReviewsInv'
  BY <1>1, <1>2, <1>3, <1>4, JobSteps DEF MarketInv, MarketTyped
<1>6. DealsInv'
  BY <1>1, <1>4, DealsStay DEF MarketInv
<1> QED
  BY <1>4, <1>5, <1>6 DEF MarketInv

LEMMA SuspendRestoreKeeps ==
    ASSUME MarketInv, NEW j \in Jobs, SuspendRestore(j)
    PROVE  MarketInv'
<1> PICK u : u = job[j].user
  OBVIOUS
<1> DEFINE hit == {l \in hiddenFor : listings[l].owner = u /\ listings[l].status = "paused"}
<1>1. /\ job[j].at = "suspend.restore" /\ accounts[u] = "active"
      /\ UNCHANGED <<orders, accounts, sessions, written, asked, overruled, reopened,
                     bookings, req>>
      /\ RestoreListingsForActiveOwner(u)
      /\ Done(j)
  BY DEF SuspendRestore, people, orders, history, MarketInv, JobsInv, JobOK
<1>2. /\ job' \in [Jobs -> JobSlots] /\ job'[j].at = "idle"
      /\ \A k \in Jobs \ {j} : job'[k] = job[k]
  BY <1>1, JobDone DEF MarketInv
<1>3. Holds(j) /\ JobOK(j)'
  BY <1>2 DEF Holds, JobOK, ChangingAccount, OfListing
<1>4. hiddenFor \subseteq Listings
  BY DEF MarketInv, MarketTyped
<1>5. /\ \A k \in hit : /\ listings'[k].status = "active"
                        /\ listings'[k].owner = u
                        /\ listings'[k] \in ListingDocuments
      /\ \A k \in Listings \ hit : listings'[k] = listings[k]
      /\ hiddenFor' = hiddenFor \ hit
  BY <1>1, <1>4 DEF RestoreListingsForActiveOwner, MarketInv, MarketTyped, ListingDocuments,
                    ListingStatuses
<1>6. listings' \in [Listings -> ListingDocuments] /\ hiddenFor' \subseteq Listings
  BY <1>1, <1>4, <1>5 DEF RestoreListingsForActiveOwner, MarketInv, MarketTyped
<1>7. \A k \in Listings : listings[k].status \notin Gone =>
         listings'[k].status \notin Gone /\ listings'[k].owner = listings[k].owner
  BY <1>5 DEF Gone
<1>8. CurrentInv' /\ MarketTyped' /\ MarketLocked' /\ JobsInv' /\ ReviewsInv'
  BY <1>1, <1>2, <1>3, <1>6, JobSteps DEF MarketInv, MarketTyped
<1>9. OpenInv'
  <2> SUFFICES ASSUME NEW k \in Listings, NEW o, o = listings'[k].owner,
                      listings'[k].status = "active", Inactive(o)'
               PROVE  Hiding(o)' \/ k \in reopened'
    BY DEF OpenInv
  <2>1. k \notin hit
    BY <1>1, <1>5 DEF Inactive
  <2>2. \A user : Hiding(user) => Hiding(user)'
    BY <1>1, <1>2, HidingKept DEF ToHide
  <2>3. listings'[k] = listings[k]
    BY <1>5, <2>1
  <2> QED
    BY <1>1, <2>2, <2>3 DEF MarketInv, OpenInv, Inactive
<1>10. ListingsInv'
  BY <1>1, <1>5 DEF MarketInv, ListingsInv, ListingFits
<1>11. DealsInv'
  BY <1>1, <1>7, DealsStay DEF MarketInv
<1> QED
  BY <1>8, <1>9, <1>10, <1>11 DEF MarketInv

-----------------------------------------------------------------------------
(* Steps that change the status of an account                              *)

\* An account that is made inactive is one whose listings are still to hide.
LEMMA AccountSaved ==
    ASSUME MarketInv, NEW j \in Jobs, NEW u \in Users, u = job[j].user,
           NEW to \in UserStatuses, NEW next,
           UNCHANGED <<orders, listings, sessions, hiddenFor, written, history>>,
           accounts' = [accounts EXCEPT ![u] = to],
           job[j].at \in ChangingAccount \ ToHide,
           job' \in [Jobs -> JobSlots], job'[j].at = next, job'[j].user = u,
           \A k \in Jobs \ {j} : job'[k] = job[k],
           to # "active" => next \in ToHide,
           Holds(j), JobOK(j)'
    PROVE  MarketInv'
<1>1. UNCHANGED <<listings, hiddenFor, asked, overruled, reopened, bookings, req>>
  BY DEF orders, history
<1>2. /\ accounts' \in [Users -> UserStatuses] /\ accounts'[u] = to
      /\ \A user \in Users \ {u} : accounts'[user] = accounts[user]
  BY DEF MarketInv, MarketTyped
<1>3. CurrentInv' /\ MarketTyped' /\ MarketLocked' /\ JobsInv' /\ ReviewsInv'
  BY <1>1, <1>2, JobSteps DEF MarketInv, MarketTyped
<1>4. OpenInv'
  <2> SUFFICES ASSUME NEW k \in Listings, NEW o, o = listings[k].owner,
                      listings[k].status = "active", Inactive(o)'
               PROVE  Hiding(o)' \/ k \in reopened
    BY <1>1 DEF OpenInv
  <2>1. o \in Users
    BY DEF MarketInv, MarketTyped, ListingDocuments
  <2>2. CASE o = u
    BY <1>2, <2>2 DEF Hiding, Inactive
  <2>3. CASE o # u
    <3>1. Inactive(o)
      BY <1>2, <2>1, <2>3 DEF Inactive
    <3>2. \A user : Hiding(user) => Hiding(user)'
      BY HidingKept
    <3> QED
      BY <3>1, <3>2 DEF MarketInv, OpenInv
  <2> QED
    BY <2>2, <2>3
<1>5. ListingsInv'
  BY <1>1 DEF MarketInv, ListingsInv, ListingFits
<1>6. DealsInv'
  BY <1>1, DealsStay DEF MarketInv
<1> QED
  BY <1>3, <1>4, <1>5, <1>6 DEF MarketInv

LEMMA SuspendSaveKeeps ==
    ASSUME MarketInv, NEW j \in Jobs, SuspendSave(j)
    PROVE  MarketInv'
<1> PICK u, to : u = job[j].user /\ to = job[j].to
  OBVIOUS
<1> DEFINE next == IF to = "suspended" THEN "suspend.destroy" ELSE "suspend.restore"
<1>1. /\ job[j].at = "suspend.save" /\ u \in Users /\ to \in {"active", "suspended"}
      /\ UNCHANGED <<orders, listings, sessions, hiddenFor, written, history>>
      /\ accounts' = [accounts EXCEPT ![u] = to]
      /\ Proceed(j, next)
  BY DEF SuspendSave, vars, orders, MarketInv, JobsInv, JobOK, ChangingAccount
<1>2. next \in {"suspend.destroy", "suspend.restore"} /\ (to # "active" => next \in ToHide)
  BY <1>1 DEF ToHide
<1>3. /\ job' \in [Jobs -> JobSlots] /\ job'[j].at = next /\ job'[j].user = u
      /\ \A k \in Jobs \ {j} : job'[k] = job[k]
  BY <1>1, <1>2, JobProceeds DEF MarketInv, JobPoints
<1>4. next = "suspend.restore" => accounts'[u] = "active"
  BY <1>1 DEF MarketInv, MarketTyped
<1>5. Holds(j) /\ JobOK(j)'
  <2> HIDE DEF next
  <2>1. Holds(j)
    BY <1>1, <1>2, <1>3 DEF Holds, ChangingAccount
  <2>2. JobOK(j)'
    BY <1>1, <1>2, <1>3, <1>4 DEF JobOK, ChangingAccount, OfListing
  <2> QED
    BY <2>1, <2>2
<1>6. to \in UserStatuses /\ "suspend.save" \in ChangingAccount \ ToHide
  BY <1>1 DEF UserStatuses, ChangingAccount, ToHide
<1> HIDE DEF next
<1> QED
  BY <1>1, <1>2, <1>3, <1>5, <1>6, AccountSaved

LEMMA DeletionSaveKeeps ==
    ASSUME MarketInv, NEW j \in Jobs, DeletionSave(j)
    PROVE  MarketInv'
<1> PICK u : u = job[j].user
  OBVIOUS
<1>1. /\ job[j].at = "deletion.save" /\ u \in Users
      /\ UNCHANGED <<orders, listings, sessions, hiddenFor, written, history>>
      /\ accounts' = [accounts EXCEPT ![u] = "deleted_pending"]
      /\ Proceed(j, "deletion.hide")
  BY DEF DeletionSave, vars, orders, MarketInv, JobsInv, JobOK, ChangingAccount
<1>2. /\ job' \in [Jobs -> JobSlots] /\ job'[j].at = "deletion.hide" /\ job'[j].user = u
      /\ \A k \in Jobs \ {j} : job'[k] = job[k]
  BY <1>1, JobProceeds DEF MarketInv, JobPoints
<1>3. Holds(j) /\ JobOK(j)'
  BY <1>1, <1>2 DEF Holds, JobOK, ChangingAccount, OfListing
<1>4. /\ "deleted_pending" \in UserStatuses
      /\ "deletion.save" \in ChangingAccount \ ToHide /\ "deletion.hide" \in ToHide
  BY DEF UserStatuses, ChangingAccount, ToHide
<1> QED
  BY <1>1, <1>2, <1>3, <1>4, AccountSaved

-----------------------------------------------------------------------------
(* The booking handlers, seen from the market                              *)

Orders == (OrderStep /\ MarketLocked') \/ OrderContinues

\* They are steps under the locks of Bookings.
LEMMA OrdersAlone ==
    ASSUME MarketInv, Orders
    PROVE  LockedNext /\ UNCHANGED <<market, listings>>
<1>1. CASE OrderStep
  <2>1. sessions \subseteq Users
    BY DEF MarketInv, MarketTyped
  <2>2. ASSUME NEW b \in BookingIds, ~Held(b), PaymentVerified(b)
        PROVE  LockedNext /\ UNCHANGED listings
    BY <2>2 DEF LockedNext, PaymentVerified
  <2>3. ASSUME NEW r \in Requests, NEW user \in Users, NEW b \in BookingIds,
               \/ \E l \in Listings, p \in Periods : CreateBooking(r, user, b, l, p)
               \/ ChangeStatus(r, user, b)
               \/ ResolveDispute(r, user, b)
        PROVE  LockedNext /\ UNCHANGED listings
    <3>1. Receive(r)
      BY <2>3 DEF Receive
    <3>2. UNCHANGED listings
      BY <2>3 DEF CreateBooking, ChangeStatus, ResolveDispute
    <3> QED
      BY <1>1, <3>1, <3>2 DEF LockedNext, OrderStep
  <2> QED
    BY <1>1, <2>1, <2>2, <2>3 DEF OrderStep
<1>2. CASE OrderContinues
  <2>1. PICK r \in Requests : Continue(r) \/ Fail(r)
    BY <1>2 DEF OrderContinues
  <2>2. UNCHANGED listings
    BY <2>1 DEF Continue, CreateClash, CreateInsert, CreateSeal, CreateNotify,
                ChangeSave, ChangeNotify, ResolveSave, Fail
  <2> QED
    BY <1>2, <2>1, <2>2 DEF LockedNext, OrderContinues
<1> QED
  BY <1>1, <1>2 DEF Orders

\* A booking keeps its listing, and comes from an insert.
LEMMA ListingStays ==
    ASSUME CurrentInv, LockedNext, NEW b \in BookingIds
    PROVE  \/ /\ bookings'[b].listing = bookings[b].listing
              /\ bookings'[b].status # "absent" => Present(b)
           \/ \E r \in Requests :
                 /\ req[r].at = "create.insert"
                 /\ ~Present(b)
                 /\ bookings'[b] = req[r].doc
<1>1. bookings \in [BookingIds -> Documents] /\ bookings[b] \in Documents
  BY DEF CurrentInv, LockedInv, BookingsInv, TypeOK
<1>2. ASSUME UNCHANGED bookings PROVE bookings'[b].listing = bookings[b].listing
                                      /\ (bookings'[b].status # "absent" => Present(b))
  BY <1>2 DEF Present
<1>3. ASSUME NEW r \in Requests, CreateInsert(r)
      PROVE  \/ bookings'[b] = bookings[b]
             \/ ~Present(b) /\ bookings'[b] = req[r].doc
  <2>1. ~Present(req[r].id)
    BY <1>3 DEF CreateInsert, CurrentInv, LockedInv, BookingsInv, SlotsInv, SlotOK, Creating, CreatingOK
  <2> QED
    BY <1>1, <1>3, <2>1 DEF CreateInsert
<1>4. ASSUME NEW r \in Requests, CreateSeal(r) \/ ChangeSave(r) \/ ResolveSave(r)
      PROVE  /\ bookings'[b].listing = bookings[b].listing
             /\ bookings'[b].status # "absent" => Present(b)
  <2>1. req[r].id \in BookingIds /\ Present(req[r].id)
    BY <1>4 DEF CreateSeal, ChangeSave, ResolveSave, CurrentInv, LockedInv, BookingsInv, SlotsInv,
                SlotOK, Stored, StoredOK
  <2>2. CASE CreateSeal(r)
    BY <1>1, <2>1, <2>2 DEF CreateSeal, Documents, Present
  <2>3. CASE SaveStatus(r)
    <3>1. b # req[r].id => bookings'[b] = bookings[b]
      BY <1>1, <2>3 DEF SaveStatus
    <3>2. bookings'[b].listing = bookings[b].listing
      BY <1>1, <2>3 DEF SaveStatus, Documents
    <3> QED
      BY <2>1, <3>1, <3>2 DEF Present
  <2> QED
    BY <1>4, <2>2, <2>3 DEF ChangeSave, ResolveSave
<1>5. ASSUME NEW c \in BookingIds, PaymentVerified(c)
      PROVE  /\ bookings'[b].listing = bookings[b].listing
             /\ bookings'[b].status # "absent" => Present(b)
  <2>1. bookings'[b].listing = bookings[b].listing
    BY <1>1, <1>5 DEF PaymentVerified, ApplyVerifiedPayment, Pay, Documents
  <2>2. b # c => bookings'[b] = bookings[b]
    BY <1>1, <1>5 DEF PaymentVerified, ApplyVerifiedPayment, Pay
  <2>3. Present(c)
    BY <1>5 DEF PaymentVerified, ApplyVerifiedPayment, Present
  <2> QED
    BY <2>1, <2>2, <2>3 DEF Present
<1>6. ASSUME NEW r \in Requests, Receive(r) \/ Fail(r) PROVE UNCHANGED bookings
  BY <1>6 DEF Receive, CreateBooking, ChangeStatus, ResolveDispute, Fail
<1>7. Read => UNCHANGED bookings
  BY DEF Read, GetBooking
<1>8. ASSUME NEW r \in Requests, Continue(r)
      PROVE  \/ UNCHANGED bookings
             \/ CreateInsert(r)
             \/ CreateSeal(r) \/ ChangeSave(r) \/ ResolveSave(r)
  BY <1>8 DEF Continue, CreateClash, CreateNotify, ChangeNotify
<1>9. ASSUME NEW r \in Requests, CreateInsert(r) PROVE req[r].at = "create.insert"
  BY <1>9 DEF CreateInsert
<1> QED
  BY <1>2, <1>3, <1>4, <1>5, <1>6, <1>7, <1>8, <1>9 DEF LockedNext, PaymentStep, Present

\* A handler between reading and inserting has not changed its mind.
LEMMA StillChoosing ==
    ASSUME MarketInv, OrderContinues, NEW r \in Requests, Creating(r)'
    PROVE  Creating(r) /\ req'[r].doc = req[r].doc
<1> USE DEF Creating
<1>1. req \in [Requests -> Slots]
  BY DEF MarketInv, CurrentInv, LockedInv, BookingsInv, TypeOK
<1>2. PICK q \in Requests : Continue(q) \/ Fail(q)
  BY DEF OrderContinues
<1>3. r # q => req'[r] = req[r]
  BY <1>1, <1>2 DEF Continue, CreateClash, CreateInsert, CreateSeal, CreateNotify,
                    ChangeSave, ChangeNotify, ResolveSave, Fail, Finish, Goto
<1>4. ASSUME r = q PROVE Creating(r) /\ req'[r].doc = req[r].doc
  <2>1. Idle.at = "idle"
    BY DEF Idle
  <2>2. ~Finish(r)
    BY <1>1, <2>1 DEF Finish
  <2>3. \A point : Goto(r, point) => point \in {"create.clash", "create.insert"}
    BY <1>1 DEF Goto, Slots
  <2>4. CreateClash(r) /\ Goto(r, "create.insert")
    BY <1>2, <1>4, <2>2, <2>3 DEF Continue, CreateClash, CreateInsert, CreateSeal,
          CreateNotify, ChangeSave, ChangeNotify, ResolveSave, Fail
  <2> QED
    BY <1>1, <2>4, SlotAfterGoto DEF CreateClash, MarketInv, CurrentInv, LockedInv
<1> QED
  BY <1>3, <1>4

\* What a handler is about to insert is what it read.
LEMMA NewBookingKept ==
    ASSUME MarketInv, Orders, NEW r \in Requests, Creating(r)'
    PROVE  Kept(req'[r].doc)
<1> USE DEF Creating
<1>1. req \in [Requests -> Slots]
  BY DEF MarketInv, CurrentInv, LockedInv, BookingsInv, TypeOK
<1>2. CASE OrderStep
  <2>1. CASE \E b \in BookingIds : PaymentVerified(b)
    BY <2>1 DEF PaymentVerified, MarketInv, DealsInv
  <2>2. ASSUME NEW q \in Requests, NEW user \in sessions, NEW b \in BookingIds,
               NEW l \in Listings, NEW p \in Periods, CreateBooking(q, user, b, l, p)
        PROVE  Kept(req'[r].doc)
    <3> DEFINE doc == NewBooking(user, l, p)
    <3>1. doc.listing = l /\ doc.borrower = user /\ doc.lender = listings[l].owner
      BY DEF NewBooking, Absent
    <3> DEFINE slot == [at |-> "create.clash", user |-> user, id |-> b, doc |-> doc,
                        to |-> "absent"]
    <3>2. req' = [req EXCEPT ![q] = slot] /\ slot.doc = doc
      BY <2>2 DEF CreateBooking
    <3> HIDE DEF slot, doc
    <3>3. CASE r # q
      <4>1. req'[r] = req[r]
        BY <1>1, <3>2, <3>3
      <4> QED
        BY <4>1 DEF MarketInv, DealsInv
    <3>4. CASE r = q
      <4>1. req'[r].doc = doc
        BY <1>1, <3>2, <3>4
      <4>2. listings[l].status = "active"
        BY <2>2 DEF CreateBooking
      <4> QED
        BY <3>1, <4>1, <4>2 DEF Kept, Gone
    <3> QED
      BY <3>3, <3>4
  <2>3. ASSUME NEW q \in Requests, NEW user \in sessions, NEW b \in BookingIds,
               ChangeStatus(q, user, b) \/ ResolveDispute(q, user, b)
        PROVE  Kept(req'[r].doc)
    <3>1. PICK point \in {"change.save", "resolve.save"} :
             \E to : Hold(q, point, user, b, to)
      BY <2>3 DEF ChangeStatus, ResolveDispute
    <3> PICK to : Hold(q, point, user, b, to)
      BY <3>1
    <3> DEFINE slot == [at |-> point, user |-> user, id |-> b, doc |-> bookings[b],
                        to |-> to]
    <3>2. req' = [req EXCEPT ![q] = slot] /\ slot.at = point
      BY DEF Hold
    <3> HIDE DEF slot
    <3>3. r # q
      BY <1>1, <3>2
    <3>4. req'[r] = req[r]
      BY <1>1, <3>2, <3>3
    <3> QED
      BY <3>4 DEF MarketInv, DealsInv
  <2> QED
    BY <1>2, <2>1, <2>2, <2>3 DEF OrderStep
<1>3. CASE OrderContinues
  BY <1>3, StillChoosing DEF MarketInv, DealsInv
<1> QED
  BY <1>2, <1>3 DEF Orders

\* A booking binds two people from its creation on, without a gap.
LEMMA LiveContinues ==
    ASSUME NEW d, NEW to \in LIVE_BOOKING_STATUSES, NEW user,
           LegalStep(d, to, user, Admins)
    PROVE  d.status \in LIVE_BOOKING_STATUSES
  BY DEF LegalStep, Evaluate, TRANSITIONS, LIVE_BOOKING_STATUSES

LEMMA OrdersKeep ==
    ASSUME MarketInv, Orders
    PROVE  MarketInv'
<1>1. LockedNext /\ UNCHANGED <<market, listings>>
  BY OrdersAlone
<1>2. UNCHANGED <<accounts, sessions, hiddenFor, reviews, comments, job, asked, overruled,
                  reopened>>
  BY <1>1 DEF market, people, written, history
<1>3. CurrentInv /\ CurrentInv' /\ Outward
  BY <1>1, CurrentStep DEF MarketInv
<1>4. Grows
  BY <1>1, <1>3, LockedIsBookings, NextKeeps DEF CurrentInv, LockedInv
<1>5. MarketTyped'
  BY <1>1, <1>2 DEF MarketInv, MarketTyped
<1>6. MarketLocked'
  <2>1. CASE OrderContinues
    <3>1. \A j \in Jobs : Holds(j)
      BY <1>2 DEF Holds
    <3>2. ASSUME NEW r \in Requests, req'[r].at \in Choosing
          PROVE  req[r].at \in Choosing /\ req'[r].doc = req[r].doc
      BY <2>1, <3>2, StillChoosing DEF Creating, Choosing
    <3> QED
      BY <3>1, <3>2, LocksHeld DEF MarketInv
  <2> QED
    BY <2>1 DEF Orders
<1>7. ASSUME NEW b \in BookingIds, Present(b), bookings[b].status = "completed"
      PROVE  bookings'[b].status = "completed"
  <2>1. bookings[b].status \in TERMINAL
    BY <1>7 DEF TERMINAL
  <2> QED
    BY <1>3, <1>7, <2>1, StatusBefore, TerminalIsFinal
<1>8. ASSUME NEW b \in BookingIds, Live(b)'
      PROVE  \/ /\ bookings'[b].listing = bookings[b].listing
                /\ SameParties(bookings[b], bookings'[b])
                /\ Live(b)
             \/ \E r \in Requests : Creating(r) /\ bookings'[b] = req[r].doc
  <2>1. bookings'[b].status # "absent" /\ bookings'[b].status \in LIVE_BOOKING_STATUSES
    BY <1>8 DEF Live, LIVE_BOOKING_STATUSES
  <2>2. CASE bookings'[b].listing = bookings[b].listing /\ Present(b)
    <3>1. SameParties(bookings[b], bookings'[b])
      BY <1>4, <2>2 DEF Grows
    <3>2. Live(b)
      BY <1>3, <2>1, <2>2, StatusBefore, LiveContinues DEF Live
    <3> QED
      BY <2>2, <3>1, <3>2
  <2> QED
    BY <1>1, <1>3, <2>1, <2>2, ListingStays DEF Creating
<1>9. JobsInv'
  <2> SUFFICES ASSUME NEW j \in Jobs PROVE JobOK(j)'
    BY DEF JobsInv
  <2>1. JobOK(j) /\ job'[j] = job[j]
    BY <1>2 DEF MarketInv, JobsInv
  <2>2. ASSUME job[j].at = "delete.remove", NEW b \in BookingIds
        PROVE  ~CountsFor(b, job[j].listing)'
    <3>1. SUFFICES ASSUME Live(b)' PROVE bookings'[b].listing # job[j].listing
      BY <2>1 DEF CountsFor, Live
    <3>2. Live(b) => bookings[b].listing # job[j].listing
      BY <2>1, <2>2 DEF JobOK, CountsFor, Live
    <3>3. \A r \in Requests : Creating(r) => req[r].doc.listing # job[j].listing
      BY <2>2 DEF MarketInv, MarketLocked, Creating, Choosing
    <3> QED
      BY <1>8, <3>1, <3>2, <3>3
  <2>3. ASSUME job[j].at = "deletion.save", NEW b \in BookingIds
        PROVE  ~Binds(b, job[j].user)'
    <3>1. SUFFICES ASSUME Live(b)'
                   PROVE  job[j].user \notin {bookings'[b].borrower, bookings'[b].lender}
      BY <2>1 DEF Binds, Live
    <3>2. Live(b) => job[j].user \notin {bookings[b].borrower, bookings[b].lender}
      BY <2>1, <2>3 DEF JobOK, Binds, Live
    <3>3. \A r \in Requests : Creating(r) =>
             job[j].user \notin {req[r].doc.borrower, req[r].doc.lender}
      BY <2>3 DEF MarketInv, MarketLocked, Creating, Choosing
    <3> QED
      BY <1>8, <3>1, <3>2, <3>3 DEF SameParties
  <2>4. ASSUME job[j].at = "review.insert"
        PROVE  bookings'[job[j].booking].status = "completed"
               /\ IsParty(job[j].booking, job[j].user)'
    <3>1. /\ job[j].booking \in BookingIds /\ IsParty(job[j].booking, job[j].user)
          /\ bookings[job[j].booking].status = "completed"
          /\ Present(job[j].booking)
      BY <2>1, <2>4 DEF JobOK, Present
    <3> QED
      BY <1>2, <1>4, <1>7, <3>1 DEF Grows, SameParties, IsParty
  <2> QED
    BY <1>2, <2>1, <2>2, <2>3, <2>4 DEF JobOK
<1>10. OpenInv' /\ ListingsInv'
  BY <1>1, <1>2 DEF MarketInv, OpenInv, ListingsInv, ListingFits, Hiding, Inactive
<1>11. DealsInv'
  <2>1. ASSUME NEW b \in BookingIds, Live(b)' PROVE Kept(bookings'[b])
    BY <1>8, <2>1 DEF MarketInv, DealsInv, Kept, SameParties
  <2>2. ASSUME NEW r \in Requests, Creating(r)' PROVE Kept(req'[r].doc)
    BY <2>2, NewBookingKept
  <2> QED
    BY <1>1, <2>1, <2>2 DEF DealsInv, Kept
<1>12. ReviewsInv'
  <2>1. ASSUME NEW r, ReviewOK(r) PROVE ReviewOK(r)'
    <3>1. r.booking \in BookingIds /\ HasBeen(r.booking, "completed")
      BY <2>1 DEF ReviewOK, ReviewDocuments
    <3>2. Present(r.booking)
      BY <3>1 DEF HasBeen, MarketInv, CurrentInv, LockedInv, BookingsInv, DocumentsInv
    <3>3. SameParties(bookings[r.booking], bookings'[r.booking])
      BY <1>4, <3>1, <3>2 DEF Grows
    <3>4. HasBeen(r.booking, "completed")'
      <4>1. PICK i \in DOMAIN bookings[r.booking].history :
               bookings[r.booking].history[i].status = "completed"
        BY <3>1 DEF HasBeen
      <4>2. /\ i \in DOMAIN bookings'[r.booking].history
            /\ bookings'[r.booking].history[i] = bookings[r.booking].history[i]
        BY <1>3, <1>4, <3>1, EntryKept DEF CurrentInv, LockedInv, BookingsInv, TypeOK
      <4> QED
        BY <4>1, <4>2 DEF HasBeen
    <3> QED
      BY <2>1, <3>3, <3>4 DEF ReviewOK, SameParties
  <2> QED
    BY <1>2, <2>1 DEF MarketInv, ReviewsInv
<1> QED
  BY <1>3, <1>5, <1>6, <1>9, <1>10, <1>11, <1>12 DEF MarketInv

-----------------------------------------------------------------------------
(* The invariant                                                           *)

LEMMA MarketStarts == MarketInit => MarketInv
<1> SUFFICES ASSUME MarketInit PROVE MarketInv
  OBVIOUS
<1>1. Init /\ CurrentInv
  BY LockedInit DEF MarketInit
<1>2. listings \in [Listings -> ListingDocuments]
  BY <1>1, ListingsAssumption DEF Init
<1>3. IdleJob \in JobSlots /\ IdleJob.at = "idle"
  BY DEF IdleJob, JobSlots, JobPoints
<1>4. MarketTyped
  BY <1>2, <1>3 DEF MarketInit, MarketTyped, UserStatuses, ListingStatuses
<1>5. \A j \in Jobs : job[j].at = "idle"
  BY <1>3 DEF MarketInit
<1>6. MarketLocked /\ JobsInv
  BY <1>5 DEF MarketLocked, JobsInv, JobOK, ChangingAccount, OfListing
<1>7. OpenInv
  BY <1>4 DEF MarketInit, MarketTyped, ListingDocuments, OpenInv, Inactive
<1>8. ListingsInv
  BY DEF MarketInit, ListingsInv, ListingFits
<1>9. DealsInv
  BY <1>1 DEF Init, DealsInv, Live, LIVE_BOOKING_STATUSES, Absent, Creating, Idle
<1>10. ReviewsInv
  <2>1. reviews = <<>> /\ DOMAIN reviews = {}
    BY DEF MarketInit
  <2> QED
    BY <2>1 DEF ReviewsInv
<1> QED
  BY <1>1, <1>4, <1>6, <1>7, <1>8, <1>9, <1>10 DEF MarketInv

LEMMA MarketGoes == MarketInv /\ MarketNext => MarketInv'
<1> SUFFICES ASSUME MarketInv, MarketNext PROVE MarketInv'
  OBVIOUS
<1>1. CASE Orders
  BY <1>1, OrdersKeep
<1>2. CASE MarketStep /\ MarketLocked'
  BY <1>2, HandlersBegin, CatalogueChanges DEF MarketStep
<1>3. CASE JobContinues
  BY <1>3, UpdateSaveKeeps, DeleteCountKeeps, DeleteRemoveKeeps, SuspendSaveKeeps,
     SessionsDestroyed, SuspendHideKeeps, SuspendRestoreKeeps, DeletionCountKeeps,
     DeletionSaveKeeps, DeletionHideKeeps, ReviewInsertKeeps, CommentPushKeeps
     DEF JobContinues
<1>4. CASE WriteStep
  BY <1>4, WritingStarts, RemoveReviewKeeps DEF WriteStep
<1>5. CASE SessionStep
  BY <1>5, SessionsChange DEF SessionStep
<1>6. CASE \E j \in Jobs : FailJob(j)
  BY <1>6, FailJobKeeps
<1> QED
  BY <1>1, <1>2, <1>3, <1>4, <1>5, <1>6 DEF MarketNext, Orders

LEMMA MarketStutters == MarketInv /\ UNCHANGED marketVars => MarketInv'
<1> SUFFICES ASSUME MarketInv, UNCHANGED marketVars PROVE MarketInv'
  OBVIOUS
<1>1. UNCHANGED <<vars, accounts, sessions, hiddenFor, comments, reviews, job, history, bookings,
                  req>>
  BY DEF marketVars, market, people, written, vars
<1>2. ReviewsInv'
  BY <1>1, ReviewsKept DEF MarketInv
<1>3. MarketLocked'
  BY <1>1 DEF MarketInv, MarketLocked
<1> QED
  BY <1>1, <1>2, <1>3, Beside DEF MarketInv, MarketTyped

\* The invariant holds whatever order suspensions, deletion requests, edits,
\* removals, logins, reviews and orders come in, and however their steps overlap
\* under the locks.
THEOREM MarketIsSafe == MarketSpec => []MarketInv
  BY MarketStarts, MarketGoes, MarketStutters, PTL DEF MarketSpec

\* Every variable of the marketplace keeps its type.
THEOREM MarketIsTyped == MarketSpec => []MarketTypeOK
<1>1. MarketInv => MarketTypeOK
  BY DEF MarketInv, MarketTyped, MarketTypeOK, ReviewsInv, CurrentInv, LockedInv, BookingsInv, JobSlots
<1> QED
  BY <1>1, MarketIsSafe, PTL

\* The only step that closes a profile is that of a deletion request which found
\* no booking, and of which no booking was made since.
LEMMA ProfileCloses ==
    ASSUME MarketInv, MarketNext, NEW user \in Users,
           ProfileOpens(user), ~ProfileOpens(user)'
    PROVE  \A b \in BookingIds : ~Binds(b, user)
<1>1. PICK j \in Jobs : SuspendSave(j) \/ DeletionSave(j)
  <2>1. MarketStep => UNCHANGED accounts
    BY DEF MarketStep, CreateListing, RemoveListing, RequestDeletion, UpdateListing,
           DeleteListing, SuspendUser, market, people
  <2>2. JobContinues => UNCHANGED accounts \/ \E j \in Jobs : SuspendSave(j) \/ DeletionSave(j)
    BY DEF JobContinues, UpdateSave, DeleteCount, DeleteRemove, SuspendDestroy, SuspendHide,
           SuspendRestore, DeletionCount, DeletionHide, DeletionDestroy, ReviewInsert,
           CommentPush, people
  <2>3. WriteStep \/ SessionStep => UNCHANGED accounts
    BY DEF WriteStep, SessionStep, CreateReview, AddComment, RemoveReview, Login, Logout,
           people
  <2>4. OrderStep \/ OrderContinues \/ (\E j \in Jobs : FailJob(j)) => UNCHANGED accounts
    BY DEF OrderStep, OrderContinues, FailJob, market, people
  <2> QED
    BY <2>1, <2>2, <2>3, <2>4 DEF MarketNext, ProfileOpens
<1>2. JobOK(j) /\ accounts \in [Users -> UserStatuses]
  BY DEF MarketInv, JobsInv, MarketTyped
<1>3. ASSUME SuspendSave(j) PROVE FALSE
  BY <1>2, <1>3 DEF SuspendSave, JobOK, ProfileOpens
<1>4. DeletionSave(j)
  BY <1>1, <1>3
<1>5. job[j].user = user
  BY <1>2, <1>4 DEF DeletionSave, ProfileOpens
<1> QED
  BY <1>2, <1>4, <1>5 DEF DeletionSave, JobOK

\* A booking that binds two people keeps its listing, and its parties keep their
\* profiles, whatever deletions and orders overlap, by the two counts of
\* deleteListing and requestDeletion: for as long as no booking is being made of
\* what has been counted (MarketLocked).
THEOREM NobodyIsStranded == MarketSpec => NoOrphanedBooking
<1> DEFINE A == \A b \in BookingIds :
                   /\ Live(b)' => (bookings[b].listing \in MyListings(bookings[b].lender))'
                   /\ Live(b) /\ Live(b)' =>
                         \A user \in Users :
                            IsParty(b, user) /\ ProfileOpens(user) => ProfileOpens(user)'
<1>1. MarketInv' => \A b \in BookingIds :
         Live(b)' => (bookings[b].listing \in MyListings(bookings[b].lender))'
  BY DEF MarketInv, DealsInv, Kept, MyListings
<1>2. ASSUME MarketInv, [MarketNext]_marketVars, NEW b \in BookingIds, Live(b),
             NEW user \in Users, IsParty(b, user), ProfileOpens(user)
      PROVE  ProfileOpens(user)'
  <2>1. CASE UNCHANGED marketVars
    BY <1>2, <2>1 DEF marketVars, market, people, ProfileOpens
  <2>2. CASE MarketNext
    BY <1>2, <2>2, ProfileCloses DEF Binds, Live, IsParty
  <2> QED
    BY <1>2, <2>1, <2>2
<1>3. MarketInv /\ MarketInv' /\ [MarketNext]_marketVars => [A]_marketVars
  BY <1>1, <1>2
<1>4. NoOrphanedBooking <=> [][A]_marketVars
  BY DEF NoOrphanedBooking
<1> HIDE DEF A
<1> QED
  BY <1>3, <1>4, MarketIsSafe, PTL DEF MarketSpec

\* Browse shows nothing of an inactive account whose handler is done, but for what
\* a request listed or activated again since (suspendUser, requestDeletion,
\* listingVisibility.service.js), for any logins, edits, removals and failures
\* in between; it rests on MarketLocked (one handler changes an account at a time)
\* and on no handler dying before it has hidden the listings.
THEOREM NothingOfTheInactiveIsOpen == MarketSpec => []InactiveLeavesNothingOpen
<1>1. MarketInv => InactiveLeavesNothingOpen
  BY DEF MarketInv, OpenInv, Hiding, InactiveLeavesNothingOpen, Browsed
<1> QED
  BY <1>1, MarketIsSafe, PTL

\* What a reinstatement would un-pause was last asked to be active, and nothing
\* else is paused that was: for every listing whose status nobody set while the
\* flag of the visibility service was on it (an edit leaves the flag).
THEOREM ReinstatementIsExact == MarketSpec => []RestoresExactlyWhatWasHidden
<1>1. MarketInv => RestoresExactlyWhatWasHidden
  BY DEF MarketInv, ListingsInv, ListingFits, RestoresExactlyWhatWasHidden
<1> QED
  BY <1>1, MarketIsSafe, PTL

\* Reviews come from the other party of a completed booking, once each.
THEOREM ReviewsAreSound == MarketSpec => []ReviewsSound
<1>1. MarketInv => ReviewsSound
  <2> SUFFICES ASSUME MarketInv PROVE ReviewsSound
    OBVIOUS
  <2>1. ASSUME NEW user \in Users, NEW i \in Received(user)
        PROVE  /\ {reviews[i].author, user} =
                     {bookings[reviews[i].booking].borrower, bookings[reviews[i].booking].lender}
               /\ reviews[i].author # user
               /\ HasBeen(reviews[i].booking, "completed")
    BY <2>1 DEF Received, MarketInv, ReviewsInv, ReviewOK
  <2>2. ASSUME NEW b \in BookingIds, NEW user \in Users,
               bookings[b].status = "completed", IsParty(b, user),
               ~ReviewFormShown(b, user)
        PROVE  \E i \in OfBooking(b) :
                  {k \in OfBooking(b) : reviews[k].author = user} = {i}
    <3>1. PICK i \in OfBooking(b) : reviews[i].author = user
      BY <2>2 DEF ReviewFormShown
    <3>2. \A k \in OfBooking(b) : reviews[k].author = user => k = i
      BY <3>1 DEF OfBooking, MarketInv, ReviewsInv
    <3> QED
      BY <3>1, <3>2
  <2> QED
    BY <2>1, <2>2 DEF ReviewsSound
<1> QED
  BY <1>1, MarketIsSafe, PTL

\* Bookings are written by their own handlers alone.
LEMMA OnlyOrdersWrite == MarketNext => Orders \/ UNCHANGED bookings
<1>1. MarketStep => UNCHANGED bookings
  BY DEF MarketStep, CreateListing, RemoveListing, RequestDeletion, UpdateListing,
         DeleteListing, SuspendUser, orders, vars
<1>2. JobContinues => UNCHANGED bookings
  BY DEF JobContinues, UpdateSave, DeleteCount, DeleteRemove, SuspendSave,
         SuspendDestroy, SuspendHide, SuspendRestore, DeletionCount, DeletionSave,
         DeletionHide, DeletionDestroy, ReviewInsert, CommentPush, orders, vars
<1>3. WriteStep \/ SessionStep => UNCHANGED bookings
  BY DEF WriteStep, SessionStep, CreateReview, AddComment, RemoveReview, Login, Logout,
         vars
<1>4. (\E j \in Jobs : FailJob(j)) => UNCHANGED bookings
  BY DEF FailJob, vars
<1> QED
  BY <1>1, <1>2, <1>3, <1>4 DEF MarketNext, Orders

-----------------------------------------------------------------------------
(* What bookings keep in the marketplace                                   *)

\* What the booking handlers promise of dates, hashes, histories and notices
\* they also keep while listings and accounts come and go beside them.
THEOREM RecordsSurviveTheMarket ==
    MarketSpec => [](/\ NoDoubleBooking /\ NoFalseTamperAlert
                     /\ StatusIsLastHistory /\ HistoryJustified
                     /\ OnlySealCanLag /\ NoticesJustified)
<1>1. MarketInv => /\ NoDoubleBooking /\ NoFalseTamperAlert
                   /\ StatusIsLastHistory /\ HistoryJustified
                   /\ OnlySealCanLag /\ NoticesJustified
  BY DEF MarketInv, CurrentInv, LockedInv, PapersInv, BookingsInv, DocumentsInv,
         StatusIsLastHistory
<1> QED
  BY <1>1, MarketIsSafe, PTL

\* And no save loses an entry of a history.
THEOREM HistoriesSurviveTheMarket == MarketSpec => HistoryNeverRewritten
<1> DEFINE A == \A b \in BookingIds :
                   IsPrefixOf(bookings[b].history, bookings'[b].history)
<1>1. MarketInv /\ [MarketNext]_marketVars => [A]_vars
  <2>1. MarketInv /\ Orders => A
    BY OrdersAlone, LockedIsBookings, NextKeeps DEF MarketInv, CurrentInv, LockedInv, Grows
  <2>2. MarketInv /\ UNCHANGED bookings => A
    BY PrefixReflexive DEF MarketInv, CurrentInv, LockedInv, BookingsInv, TypeOK, Documents
  <2> QED
    BY <2>1, <2>2, OnlyOrdersWrite DEF marketVars, vars
<1>2. HistoryNeverRewritten <=> [][A]_vars
  BY DEF HistoryNeverRewritten
<1> HIDE DEF A
<1> QED
  BY <1>1, <1>2, MarketIsSafe, PTL DEF MarketSpec

\* So do the pages: what they offer, link, grey out and quote is right while
\* owners pause listings and administrators suspend accounts.
THEOREM PagesSurviveTheMarket ==
    MarketSpec => [](PageOffersWhatServerAccepts /\ LinksOpen /\ AvailabilityPredictsClash)
<1>1. MarketInv => PageOffersWhatServerAccepts /\ LinksOpen /\ AvailabilityPredictsClash
  BY ButtonsFit, LinksFit, CalendarFits DEF MarketInv, CurrentInv, LockedInv
<1> QED
  BY <1>1, MarketIsSafe, PTL

\* A suspended or leaving lender loses no money from his totals.
THEOREM EarningsSurviveTheMarket == MarketSpec => []EarningsComplete
<1>1. MarketInv /\ PaidIsKnown /\ [MarketNext]_marketVars => PaidIsKnown'
  <2>1. UNCHANGED bookings /\ PaidIsKnown => PaidIsKnown'
    BY DEF PaidIsKnown, HasBeen
  <2>2. MarketInv /\ Orders /\ PaidIsKnown => PaidIsKnown'
    BY OrdersAlone, PaidStaysKnown DEF MarketInv
  <2> QED
    BY <2>1, <2>2, OnlyOrdersWrite DEF marketVars, vars
<1>2. MarketInit => PaidIsKnown
  BY PaidStarts DEF MarketInit
<1> QED
  BY <1>1, <1>2, EarningsFit, MarketIsSafe, PTL DEF MarketSpec

\* A step of the marketplace is, for the bookings, a step under the locks or none.
LEMMA MarketOutward ==
    MarketInv /\ [MarketNext]_marketVars => Outward \/ UNCHANGED bookings
<1>1. MarketInv /\ Orders => Outward
  BY OrdersAlone, CurrentStep DEF MarketInv
<1> QED
  BY <1>1, OnlyOrdersWrite DEF marketVars, vars

\* No suspension, deletion or removal moves a booking along an edge its machine
\* does not have: beside everything else, the handlers implement the lifecycle.
THEOREM MarketImplementsLifecycle == MarketSpec => ImplementsLifecycle
<1>1. MarketInv /\ [MarketNext]_marketVars => [Lifecycle!LifeNext]_Life
  <2>1. UNCHANGED bookings => UNCHANGED Life
    BY DEF Life
  <2> QED
    BY <2>1, MarketOutward, OutwardIsLife
<1>2. MarketInit => Lifecycle!LifeInit
  BY LifeStarts DEF MarketInit
<1> QED
  BY <1>1, <1>2, MarketIsSafe, PTL
  DEF MarketSpec, ImplementsLifecycle, Lifecycle!LifeSpec

=============================================================================
