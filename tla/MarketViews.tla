---------------------------- MODULE MarketViews ----------------------------
(***************************************************************************)
(* What the public endpoints and the pages that call them make of          *)
(* listings, accounts and reviews: what Browse shows and where its links   *)
(* lead, what a profile lists, who is offered to write a review.           *)
(* Everything here is computed from the state of Marketplace.              *)
(***************************************************************************)
EXTENDS Marketplace

\* listListings, over all pages and with no filter set (a filter only narrows).
Browsed == {l \in Listings : listings[l].status = "active"}

\* getMyListings: in every status.
MyListings(user) ==
    {l \in Listings : listings[l].owner = user /\ listings[l].status \notin Gone}

\* "View lender profile": getPublicProfile.
ProfileOpens(user) == accounts[user] # "deleted_pending"

\* The reviews on a profile, and those on the page of a booking.
Received(user) == {i \in DOMAIN reviews : reviews[i].target = user}

OfBooking(b) == {i \in DOMAIN reviews : reviews[i].booking = b}

\* The form on the page of a booking, for a party that has not written yet.
ReviewFormShown(b, user) ==
    /\ bookings[b].status = "completed"
    /\ IsParty(b, user)
    /\ ~\E i \in OfBooking(b) : reviews[i].author = user

=============================================================================
