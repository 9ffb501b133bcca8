---------------------------- MODULE Marketplace ----------------------------
(***************************************************************************)
(* Listings, account status, reviews and comments around the bookings:     *)
(* listing.controller.js, review.controller.js, suspendUser, removeListing *)
(* and removeReview of admin.controller.js, requestDeletion of             *)
(* user.controller.js and services/listingVisibility.service.js.           *)
(*                                                                         *)
(* As in Bookings, a handler is one step per await, and handlers overlap,  *)
(* but for the locks of MarketLocked.  sessions says who is logged in; how *)
(* a session comes about is the module Accounts.                           *)
(***************************************************************************)
EXTENDS Bookings, SequencesExt

CONSTANT Jobs   \* slots for the handlers of this module

UserStatuses == {"active", "suspended", "deleted_pending"}

\* A booking that still binds two people: neither its listing nor an account
\* may be walked away from.
LIVE_BOOKING_STATUSES ==
    {"requested", "approved", "paid", "active", "returned", "disputed"}

VARIABLES
    accounts,    \* the status of each user
    sessions,    \* the users with a session that passes requireAuth
    hiddenFor,   \* listings with pausedByOwnerInactive set
    reviews,     \* review documents, in the order of their insertion
    comments,    \* who has commented on which booking
    job,         \* the handler in each slot
    asked,       \* history: the last status asked for a listing by a person
    overruled,   \* history: listings whose status somebody last set while
                 \* pausedByOwnerInactive was set
    reopened     \* history: listings last made active by a request, while the
                 \* account of their owner was not

orders  == <<bookings, req, notices, alerts>>
people  == <<accounts, sessions>>
written == <<reviews, comments>>
history == <<asked, overruled, reopened>>

market == <<people, hiddenFor, written, job, history>>

marketVars == <<vars, market>>

IdleJob == [at |-> "idle", user |-> None, listing |-> None, booking |-> None,
            to |-> "absent"]

JobPoints == {"idle", "update.save", "delete.count", "delete.remove",
              "suspend.save", "suspend.destroy", "suspend.hide",
              "suspend.restore", "deletion.count", "deletion.save",
              "deletion.hide", "deletion.destroy", "review.insert",
              "comment.push"}

ReviewDocuments == [booking: BookingIds, author: Users, target: Users]

MarketTypeOK ==
    /\ TypeOK
    /\ accounts \in [Users -> UserStatuses]
    /\ sessions \subseteq Users
    /\ hiddenFor \subseteq Listings
    /\ reviews \in Seq(ReviewDocuments)
    /\ comments \subseteq BookingIds \X Users
    /\ job \in [Jobs -> [at: JobPoints, user: Users \cup {None},
                         listing: Listings \cup {None},
                         booking: BookingIds \cup {None},
                         to: UserStatuses \cup ListingStatuses \cup {"absent"}]]
    /\ asked \in [Listings -> ListingStatuses]
    /\ overruled \subseteq Listings
    /\ reopened \subseteq Listings

MarketInit ==
    /\ Init
    /\ accounts = [u \in Users |-> "active"]
    /\ sessions = {}
    /\ hiddenFor = {}
    /\ reviews = <<>>
    /\ comments = {}
    /\ job = [j \in Jobs |-> IdleJob]
    /\ asked = [l \in Listings |-> IF listings[l].status = "paused" THEN "paused"
                                   ELSE "active"]
    /\ overruled = {}
    /\ reopened = {}

Start(j, point, user, l, b, to) ==
    /\ job[j].at = "idle"
    /\ job' = [job EXCEPT ![j] = [at |-> point, user |-> user, listing |-> l,
                                  booking |-> b, to |-> to]]

Proceed(j, point) == job' = [job EXCEPT ![j].at = point]

Done(j) == job' = [job EXCEPT ![j] = IdleJob]

\* requireAuth and requireRole('admin').
RequireAdmin(user) == user \in sessions /\ user \in Admins

Inactive(user) == accounts[user] # "active"

IsOwnerOrAdmin(user, l) == user \in Admins \/ user = listings[l].owner

-----------------------------------------------------------------------------
(* Logging in and out, as far as the rest of the market sees it            *)

\* A session may begin whatever the account has become: login checks the status
\* before it parks the second factor or opens the session, verify never does,
\* and a parked login is none of the sessions a suspension destroys.  Every
\* account starts active, so any may have logins parked from before.
Login(user) ==
    /\ user \notin sessions
    /\ sessions' = sessions \cup {user}
    /\ UNCHANGED <<vars, accounts, hiddenFor, written, job, history>>

Logout(user) ==
    /\ user \in sessions
    /\ sessions' = sessions \ {user}
    /\ UNCHANGED <<vars, accounts, hiddenFor, written, job, history>>

-----------------------------------------------------------------------------
(* Listings                                                                *)

\* No two creations draw one _id, so the catalogue may say of every id that is
\* still unused whose listing it will be.
CreateListing(user, l) ==
    /\ user \in sessions
    /\ listings[l].status = "unused"
    /\ listings[l].owner = user
    /\ listings' = [listings EXCEPT ![l].status = "active"]
    /\ reopened' = IF Inactive(user) THEN reopened \cup {l} ELSE reopened
    /\ UNCHANGED <<orders, people, hiddenFor, written, job, asked, overruled>>

\* The status asked for by the button of an own listing, by the status the page
\* shows; a removed listing has no button.
ToggleListing(shown) == IF shown = "active" THEN "paused" ELSE "active"

\* The form for editing sends every field but the status.
EditForm == "absent"

\* PATCH /listings/:id.  Title, price and the like are left out: no other
\* document follows them (a booking keeps its own amounts).
UpdateListing(j, user, l, to) ==
    /\ user \in sessions
    /\ listings[l].status \notin Gone
    /\ IsOwnerOrAdmin(user, l)
    /\ Start(j, "update.save", user, l, None,
             IF to = listings[l].status THEN "absent" ELSE to)
    /\ UNCHANGED <<vars, people, hiddenFor, written, history>>

\* listing.save(): the status given, unless it is the one that was read, over
\* whatever is stored by now; neither the flag of the visibility service nor
\* the account of the owner is looked at.  The save of a deleted document fails.
UpdateSave(j) ==
    LET q == job[j]
        l == q.listing
    IN  /\ q.at = "update.save"
        /\ IF q.to = "absent" \/ listings[l].status \in Gone
           THEN UNCHANGED <<listings, history>>
           ELSE /\ listings' = [listings EXCEPT ![l].status = q.to]
                /\ asked' = [asked EXCEPT ![l] = q.to]
                /\ overruled' = IF l \in hiddenFor THEN overruled \cup {l}
                                ELSE overruled \ {l}
                /\ reopened' = IF q.to = "active" /\ Inactive(listings[l].owner)
                               THEN reopened \cup {l} ELSE reopened \ {l}
        /\ Done(j)
        /\ UNCHANGED <<orders, people, hiddenFor, written>>

DeleteListing(j, user, l) ==
    /\ user \in sessions
    /\ listings[l].status \notin Gone
    /\ IsOwnerOrAdmin(user, l)
    /\ Start(j, "delete.count", user, l, None, "absent")
    /\ UNCHANGED <<vars, people, hiddenFor, written, history>>

\* Fault: only bookings that occupy dates count, as in createBooking.
CountsUntilReturned(b, l) ==
    bookings[b].listing = l /\ bookings[b].status \in BlockingStatuses

CountsFor(b, l) ==
    bookings[b].listing = l /\ bookings[b].status \in LIVE_BOOKING_STATUSES

\* await Booking.countDocuments: 409 when one is live.
DeleteCount(j) ==
    /\ job[j].at = "delete.count"
    /\ IF \E b \in BookingIds : CountsFor(b, job[j].listing)
       THEN Done(j) ELSE Proceed(j, "delete.remove")
    /\ UNCHANGED <<vars, people, hiddenFor, written, history>>

DeleteRemove(j) ==
    /\ job[j].at = "delete.remove"
    /\ listings' = [listings EXCEPT ![job[j].listing].status = "deleted"]
    /\ Done(j)
    /\ UNCHANGED <<orders, people, hiddenFor, written, history>>

\* findByIdAndUpdate: one atomic write.
RemoveListing(user, l) ==
    /\ RequireAdmin(user)
    /\ listings[l].status \notin Gone
    /\ listings' = [listings EXCEPT ![l].status = "removed_by_admin"]
    /\ UNCHANGED <<orders, market>>

-----------------------------------------------------------------------------
(* listingVisibility.service.js: one updateMany each                       *)

\* Fault: a listing that still carries the flag is taken for hidden.
HideUnflagged(owner) ==
    LET hit == {l \in Listings \ hiddenFor : listings[l].owner = owner
                                            /\ listings[l].status = "active"}
    IN  /\ listings' = [l \in Listings |->
                          IF l \in hit THEN [listings[l] EXCEPT !.status = "paused"]
                          ELSE listings[l]]
        /\ hiddenFor' = hiddenFor \cup hit
        /\ reopened' = reopened \ hit

HideListingsForInactiveOwner(owner) ==
    LET hit == {l \in Listings : listings[l].owner = owner
                                 /\ listings[l].status = "active"}
    IN  /\ listings' = [l \in Listings |->
                          IF l \in hit THEN [listings[l] EXCEPT !.status = "paused"]
                          ELSE listings[l]]
        /\ hiddenFor' = hiddenFor \cup hit
        /\ reopened' = reopened \ hit

\* Fault: the flag is left out of the filter.
RestoreAllPaused(owner) ==
    LET hit == {l \in Listings : listings[l].owner = owner
                                 /\ listings[l].status = "paused"}
    IN  /\ listings' = [l \in Listings |->
                          IF l \in hit THEN [listings[l] EXCEPT !.status = "active"]
                          ELSE listings[l]]
        /\ hiddenFor' = hiddenFor \ hit

RestoreListingsForActiveOwner(owner) ==
    LET hit == {l \in hiddenFor : listings[l].owner = owner
                                  /\ listings[l].status = "paused"}
    IN  /\ listings' = [l \in Listings |->
                          IF l \in hit THEN [listings[l] EXCEPT !.status = "active"]
                          ELSE listings[l]]
        /\ hiddenFor' = hiddenFor \ hit

-----------------------------------------------------------------------------
(* Suspension, reinstatement, deletion request                             *)

\* The button in the administrators' table of users, by the status it shows.
ToggleUser(shown) == IF shown = "suspended" THEN "active" ELSE "suspended"

\* PATCH /admin/users/:id/suspend; job.user is the account in question.
SuspendUser(j, admin, user, to) ==
    /\ RequireAdmin(admin)
    /\ Start(j, "suspend.save", user, None, None, to)
    /\ UNCHANGED <<vars, people, hiddenFor, written, history>>

\* (mongoose leaves out a status equal to the one read: the same, as no other
\* handler of the account comes in between.)
SuspendSave(j) ==
    /\ job[j].at = "suspend.save"
    /\ accounts' = [accounts EXCEPT ![job[j].user] = job[j].to]
    /\ Proceed(j, IF job[j].to = "suspended" THEN "suspend.destroy" ELSE "suspend.restore")
    /\ UNCHANGED <<vars, sessions, hiddenFor, written, history>>

SuspendDestroy(j) ==
    /\ job[j].at = "suspend.destroy"
    /\ sessions' = sessions \ {job[j].user}
    /\ Proceed(j, "suspend.hide")
    /\ UNCHANGED <<vars, accounts, hiddenFor, written, history>>

SuspendHide(j) ==
    /\ job[j].at = "suspend.hide"
    /\ HideListingsForInactiveOwner(job[j].user)
    /\ Done(j)
    /\ UNCHANGED <<orders, people, written, asked, overruled>>

SuspendRestore(j) ==
    /\ job[j].at = "suspend.restore"
    /\ RestoreListingsForActiveOwner(job[j].user)
    /\ Done(j)
    /\ UNCHANGED <<orders, people, written, history>>

RequestDeletion(j, user) ==
    /\ user \in sessions
    /\ Start(j, "deletion.count", user, None, None, "absent")
    /\ UNCHANGED <<vars, people, hiddenFor, written, history>>

Binds(b, user) ==
    /\ bookings[b].status \in LIVE_BOOKING_STATUSES
    /\ user \in {bookings[b].borrower, bookings[b].lender}

DeletionCount(j) ==
    /\ job[j].at = "deletion.count"
    /\ IF \E b \in BookingIds : Binds(b, job[j].user)
       THEN Done(j) ELSE Proceed(j, "deletion.save")
    /\ UNCHANGED <<vars, people, hiddenFor, written, history>>

DeletionSave(j) ==
    /\ job[j].at = "deletion.save"
    /\ accounts' = [accounts EXCEPT ![job[j].user] = "deleted_pending"]
    /\ Proceed(j, "deletion.hide")
    /\ UNCHANGED <<vars, sessions, hiddenFor, written, history>>

DeletionHide(j) ==
    /\ job[j].at = "deletion.hide"
    /\ HideListingsForInactiveOwner(job[j].user)
    /\ Proceed(j, "deletion.destroy")
    /\ UNCHANGED <<orders, people, written, asked, overruled>>

DeletionDestroy(j) ==
    /\ job[j].at = "deletion.destroy"
    /\ sessions' = sessions \ {job[j].user}
    /\ Done(j)
    /\ UNCHANGED <<vars, accounts, hiddenFor, written, history>>

-----------------------------------------------------------------------------
(* Reviews and comments                                                    *)

IsParty(b, user) == user \in {bookings[b].borrower, bookings[b].lender}

\* Fault: a booking that was handed back may be reviewed already.
CreateReviewEarly(j, user, b) ==
    /\ user \in sessions
    /\ bookings[b].status \in {"returned", "completed"}
    /\ IsParty(b, user)
    /\ Start(j, "review.insert", user, None, b, "absent")
    /\ UNCHANGED <<vars, people, hiddenFor, written, history>>

CreateReview(j, user, b) ==
    /\ user \in sessions
    /\ bookings[b].status = "completed"
    /\ IsParty(b, user)
    /\ Start(j, "review.insert", user, None, b, "absent")
    /\ UNCHANGED <<vars, people, hiddenFor, written, history>>

\* Fault: the target is left to whoever shows the review.
ReviewWithoutTarget(user, b) ==
    [booking |-> b, author |-> user, target |-> None]

Review(user, b) ==
    [booking |-> b, author |-> user,
     target  |-> IF bookings[b].borrower = user THEN bookings[b].lender
                 ELSE bookings[b].borrower]

\* The unique index on (bookingId, authorId): error 11000, answered 409.
Duplicate(user, b) ==
    \E i \in DOMAIN reviews : reviews[i].booking = b /\ reviews[i].author = user

ReviewInsert(j) ==
    LET q == job[j]
    IN  /\ q.at = "review.insert"
        /\ reviews' = IF Duplicate(q.user, q.booking) THEN reviews
                      ELSE Append(reviews, Review(q.user, q.booking))
        /\ Done(j)
        /\ UNCHANGED <<vars, accounts, sessions, hiddenFor, comments, history>>

RemoveReview(user, i) ==
    /\ RequireAdmin(user)
    /\ i \in DOMAIN reviews
    /\ reviews' = RemoveAt(reviews, i)
    /\ UNCHANGED <<vars, accounts, sessions, hiddenFor, comments, job, history>>

AddComment(j, user, b) ==
    /\ user \in sessions
    /\ Present(b)
    /\ IsParticipant(bookings[b], user)
    /\ Start(j, "comment.push", user, None, b, "absent")
    /\ UNCHANGED <<vars, people, hiddenFor, written, history>>

\* booking.save() sends a $push of the comment and nothing else.
CommentPush(j) ==
    LET q == job[j]
    IN  /\ q.at = "comment.push"
        /\ comments' = comments \cup {<<q.booking, q.user>>}
        /\ Done(j)
        /\ UNCHANGED <<vars, accounts, sessions, hiddenFor, reviews, history>>

-----------------------------------------------------------------------------
(* Locks.  The code takes none: as in LockedSpec, requests are assumed to   *)
(* fall as if a handler that changes an account held it, and one that       *)
(* counts the bookings of a listing or of an account before it deletes it   *)
(* kept new ones from being made meanwhile.                                 *)

ChangingAccount ==
    {"suspend.save", "suspend.destroy", "suspend.hide", "suspend.restore",
     "deletion.count", "deletion.save", "deletion.hide", "deletion.destroy"}

MarketLocked ==
    /\ \A i, j \in Jobs :
          i # j /\ {job[i].at, job[j].at} \subseteq ChangingAccount =>
             job[i].user # job[j].user
    /\ \A j \in Jobs, r \in Requests : req[r].at \in Choosing =>
          /\ job[j].at \in {"delete.count", "delete.remove"} =>
                req[r].doc.listing # job[j].listing
          /\ job[j].at \in {"deletion.count", "deletion.save"} =>
                job[j].user \notin {req[r].doc.borrower, req[r].doc.lender}

-----------------------------------------------------------------------------

\* The handlers of Bookings, under their locks, for users who are logged in;
\* dispute resolution is behind requireRole('admin') as before.
OrderStep ==
    /\ \/ \E r \in Requests, user \in sessions, b \in BookingIds :
             \/ \E l \in Listings, p \in Periods : CreateBooking(r, user, b, l, p)
             \/ ChangeStatus(r, user, b)
             \/ ResolveDispute(r, user, b)
       \/ \E b \in BookingIds : ~Held(b) /\ PaymentVerified(b)
    /\ Locked'
    /\ UNCHANGED market

OrderContinues ==
    /\ \E r \in Requests : Continue(r) \/ Fail(r)
    /\ UNCHANGED market

\* Handlers that change what the others decide on: a listing, an account, a
\* booking.  What a page shows when its button is pressed may be out of date.
MarketStep ==
    \/ \E user \in Users, l \in Listings : CreateListing(user, l) \/ RemoveListing(user, l)
    \/ \E j \in Jobs, user \in Users :
          \/ RequestDeletion(j, user)
          \/ \E l \in Listings, shown \in {"active", "paused"} :
                \/ UpdateListing(j, user, l, ToggleListing(shown))
                \/ UpdateListing(j, user, l, EditForm)
          \/ \E l \in Listings : DeleteListing(j, user, l)
          \/ \E admin \in Admins, shown \in UserStatuses :
                SuspendUser(j, admin, user, ToggleUser(shown))

\* Handlers that only add to a booking.
WriteStep ==
    \/ \E j \in Jobs, user \in Users, b \in BookingIds :
          CreateReview(j, user, b) \/ AddComment(j, user, b)
    \/ \E user \in Users, i \in 1..Len(reviews) : RemoveReview(user, i)

SessionStep == \E user \in Users : Login(user) \/ Logout(user)

JobContinues ==
    \E j \in Jobs :
        \/ UpdateSave(j) \/ DeleteCount(j) \/ DeleteRemove(j)
        \/ SuspendSave(j) \/ SuspendDestroy(j) \/ SuspendHide(j) \/ SuspendRestore(j)
        \/ DeletionCount(j) \/ DeletionSave(j) \/ DeletionHide(j) \/ DeletionDestroy(j)
        \/ ReviewInsert(j) \/ CommentPush(j)

\* The account is inactive and its listings are still to be hidden.
ToHide == {"suspend.destroy", "suspend.hide", "deletion.hide"}

\* A handler ends where it stands, though never between making an account
\* inactive and hiding its listings.
FailJob(j) ==
    /\ Failures
    /\ job[j].at \notin {"idle"} \cup ToHide
    /\ Done(j)
    /\ UNCHANGED <<vars, people, hiddenFor, written, history>>

MarketNext ==
    \/ OrderStep /\ MarketLocked'
    \/ MarketStep /\ MarketLocked'
    \/ OrderContinues
    \/ JobContinues
    \/ WriteStep
    \/ SessionStep
    \/ \E j \in Jobs : FailJob(j)

MarketSpec == MarketInit /\ [][MarketNext]_marketVars

=============================================================================
