---------------------------- MODULE MC_Accounts ----------------------------
(* An instance of Accounts for TLC. *)
EXTENDS AccountProperties, TLC

CONSTANTS c1, c2, s1, s2, p1, p2, p3, k1

MC_Calls     == {c1, c2}
MC_Sids      == {s1, s2}
MC_Passwords == {p1, p2, p3}
MC_Codes     == {k1}

Symmetry == Permutations(MC_Calls) \cup Permutations(MC_Sids) \cup Permutations(MC_Passwords)

=============================================================================
