----------------------- MODULE MarketplaceProperties -----------------------
(***************************************************************************)
(* What listings, accounts, bookings and reviews promise each other,       *)
(* however the handlers that write them overlap, under the locks of        *)
(* MarketLocked.                                                           *)
(***************************************************************************)
EXTENDS MarketViews

Live(b) == bookings[b].status \in LIVE_BOOKING_STATUSES

\* A booking that binds two people never loses what it is about: its listing is
\* still among its lender's ("deleting would orphan the counterparty's booking",
\* listing.controller.js:128-132), and while it lasts nobody closes the profile
\* of a party ("would strand the counterparty", user.controller.js:132-133).
\* (A login parked before a deletion was requested may begin a booking after it:
\* that borrower's profile is closed from the start.)
NoOrphanedBooking ==
    [][\A b \in BookingIds :
          /\ Live(b)' => (bookings[b].listing \in MyListings(bookings[b].lender))'
          /\ Live(b) /\ Live(b)' =>
                \A user \in Users :
                   IsParty(b, user) /\ ProfileOpens(user) => ProfileOpens(user)'
       ]_marketVars

\* An account that is not active has no listing in Browse, once its listings
\* were hidden ("a suspended lender's items must not stay bookable",
\* admin.controller.js:63-64; user.controller.js:148), whatever suspensions,
\* reinstatements, deletion requests, edits, removals and logins came before.
\* A request that lists or activates one afterwards looks at no account.
InactiveLeavesNothingOpen ==
    \A l \in Browsed : Inactive(listings[l].owner) =>
        \/ \E j \in Jobs : job[j].at \in ToHide /\ job[j].user = listings[l].owner
        \/ l \in reopened

\* A reinstatement restores "exactly what we hid and nothing the owner paused
\* themselves" (listingVisibility.service.js:5-7): a listing it would un-pause
\* was last asked to be active, and one that was asked to be active is paused
\* only while it would be un-paused; wherever the status was not last set while
\* the flag was (an edit sets the one and leaves the other).
RestoresExactlyWhatWasHidden ==
    \A l \in Listings \ overruled :
        listings[l].status = "paused" => (l \in hiddenFor <=> asked[l] = "active")

\* What a profile shows was written by the other party of a booking that had
\* been completed, and a party of a completed booking that is not offered the
\* form has written exactly once: however submissions overlap and moderation
\* removes (createReview, the index of review.model.js, BookingDetail.jsx).
ReviewsSound ==
    /\ \A user \in Users : \A i \in Received(user) :
          LET r == reviews[i]
          IN  /\ {r.author, user} =
                     {bookings[r.booking].borrower, bookings[r.booking].lender}
              /\ r.author # user
              /\ HasBeen(r.booking, "completed")
    /\ \A b \in BookingIds, user \in Users :
          /\ bookings[b].status = "completed"
          /\ IsParty(b, user)
          /\ ~ReviewFormShown(b, user)
          => \E i \in OfBooking(b) :
                {k \in OfBooking(b) : reviews[k].author = user} = {i}

\* "Moderation action: the listing will no longer be visible to anyone"
\* (pages/ListingDetail.jsx:66), and "removed_by_admin is admin-only"
\* (listingValidation.js:17-18): a removed listing stays removed until it is
\* deleted or an administrator changes it.
RemovedStaysRemoved ==
    [][\A l \in Listings :
          listings[l].status = "removed_by_admin" =>
              \/ listings'[l].status \in {"removed_by_admin", "deleted"}
              \/ \E j \in Jobs : job[j].at = "update.save" /\ job[j].user \in Admins
       ]_marketVars

=============================================================================
