---------------------------- MODULE MC_Payments ----------------------------
(* Instances of the payment handlers for model checking.                    *)
EXTENDS PaymentProperties, TLC

CONSTANTS lena, bob,   \* a lender who is also an administrator, a borrower
          tent

MC_Users == {lena, bob}
MC_Admins == {lena}
MC_Listings == {tent}
MC_Periods == {[start |-> 0, end |-> 3]}

MC_InitialListings ==
    {[l \in MC_Listings |-> [owner |-> lena, status |-> "active",
                             feePerDay |-> 2, deposit |-> 3]]}

\* Khalti's total is the amount asked for, or differs by ten paisa.
MC_Deviations == {0, 10}

MC_Symmetry == Permutations(Pidxs) \cup Permutations(Calls)

=============================================================================
