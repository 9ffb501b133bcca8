----------------------------- MODULE MC_Browser -----------------------------
(* An instance of Browser for TLC. *)
EXTENDS BrowserProperties, TLC

CONSTANTS l1, l2, n1, n2, n3, s1, s2, s3, d1, d2

MC_Listings == {l1, l2}
MC_Notes    == {n1, n2, n3}
MC_Secrets  == {s1, s2, s3}
MC_Callers  == {d1, d2}

Symmetry == Permutations(MC_Listings) \cup Permutations(MC_Notes)
            \cup Permutations(MC_Secrets) \cup Permutations(MC_Callers)

\* Bound: hearts are toggled by a user without notifications, questions asked on
\* the page home, and notifications read by a user without favourites and with
\* no question open (no action that touches one of the three reads another).
MC_OneAtATime ==
    LET noQuestion  == \A c \in Callers : caller[c] = "idle"
        noFavourite == saved \cup blurred = {} /\ \A l \in Listings : toggle[l] = <<>>
    IN  \/ stored = Nothing /\ (page = "home" \/ noQuestion)
        \/ noFavourite /\ noQuestion

=============================================================================
