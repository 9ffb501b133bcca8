--------------------------- MODULE MC_Marketplace ---------------------------
(* An instance of the marketplace for model checking.                       *)
EXTENDS MarketplaceProperties, TLC

CONSTANTS lena, bob,   \* a lender; a borrower who is also an administrator
          tent

MC_Users == {lena, bob}
MC_Admins == {bob}
MC_Listings == {tent}

\* One period: what periods do to each other is checked in MC_Bookings.
MC_Periods == {[start |-> 0, end |-> 1]}

\* Nothing listed yet; lena may list the tent.
MC_InitialListings ==
    {[l \in MC_Listings |-> [owner |-> lena, status |-> "unused",
                             feePerDay |-> 1, deposit |-> 1]]}

MC_Symmetry == Permutations(Jobs) \cup Permutations(Requests)

\* What the steps still to come and the properties of the run read of a listing,
\* of a booking, of a handler of Bookings and of one of Marketplace: no
\* notification and no comment; of a history variable no more than a property
\* may still read before it is set anew; of a booking's history only whether it
\* was completed; of a handler that only has to notify that it is there.
MC_Listing(l) ==
    <<listings[l].status,
      listings[l].status \notin Gone /\ l \in hiddenFor,
      listings[l].status \in {"active", "paused"} /\ l \in overruled,
      IF listings[l].status \in {"active", "paused"} /\ l \notin overruled
      THEN asked[l] ELSE "any",
      listings[l].status = "active" /\ Inactive(listings[l].owner) /\ l \in reopened>>

MC_Booking(b) ==
    <<bookings[b].status, bookings[b].listing, bookings[b].borrower,
      bookings[b].lender, HasBeen(b, "completed")>>

MC_Request(q) ==
    IF q.at \in {"create.notify", "change.notify"} THEN <<"notify">>
    ELSE IF q.at \in Choosing
    THEN <<q.at, q.id, q.doc.listing, q.doc.borrower, q.doc.lender>>
    ELSE <<q.at, q.id, q.to>>

MC_Job(q) ==
    IF q.at = "comment.push" \/ (q.at = "update.save" /\ q.to = "absent")
    THEN <<"nothing">>
    ELSE IF q.at \in {"update.save", "delete.count", "delete.remove"}
    THEN <<q.at, q.listing, q.to>>
    ELSE <<q.at, q.user, q.booking, q.to>>

MC_View ==
    <<people, reviews, [l \in Listings |-> MC_Listing(l)],
      [b \in BookingIds |-> MC_Booking(b)], [r \in Requests |-> MC_Request(req[r])],
      [j \in Jobs |-> MC_Job(job[j])]>>

=============================================================================
