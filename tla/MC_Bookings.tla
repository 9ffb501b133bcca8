---------------------------- MODULE MC_Bookings ----------------------------
(* Instances of the booking handlers for model checking.                    *)
EXTENDS BookingProperties, BookingViews, TLC

CONSTANTS lena, bob,   \* a lender who is also an administrator, a borrower
          ada,         \* an administrator who may be no party
          tent

MC_Users == {lena, bob}
MC_Admins == {lena}
MC_ThreeUsers == {lena, bob, ada}
MC_OneAdmin == {ada}
MC_Listings == {tent}

\* Half a day per tick: a day, the day and a half after it, and a stretch
\* that overlaps both.
MC_Periods == {[start |-> 0, end |-> 2], [start |-> 2, end |-> 5],
               [start |-> 1, end |-> 4]}
MC_OnePeriod == {[start |-> 0, end |-> 3]}

Catalogue(status) ==
    [l \in MC_Listings |-> [owner |-> lena, status |-> status,
                            feePerDay |-> 2, deposit |-> 3]]

MC_Symmetry == Permutations(BookingIds)

\* Requests that may overlap are interchangeable too.
MC_SlotSymmetry == Permutations(BookingIds) \cup Permutations(Requests)

\* No step reads a notification, and no property of the run that uses this
\* view but LinksOpen, which asks whom it went to and about which booking.
MC_View ==
    <<listings, bookings, req, alerts, {<<n.to, n.booking>> : n \in notices}>>

MC_InitialListings == {Catalogue("active"), Catalogue("paused")}

=============================================================================
