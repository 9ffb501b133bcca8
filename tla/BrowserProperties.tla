------------------------- MODULE BrowserProperties -------------------------
(***************************************************************************)
(* What the tab of Browser shows of the server, and whom its dialog answers. *)
(***************************************************************************)
EXTENDS Browser

\* Hearts agree with the favourites stored: once the list was loaded, a listing
\* with no request under way is in both or in neither, however quickly it was
\* toggled and whatever requests of other hearts did (the synchronous idsRef and
\* the revert of FavoritesContext.toggleFavorite; addFavorite, removeFavorite);
\* but for a heart whose request was served and its answer lost, was overtaken by
\* a later one of it, or failed while another one of it was under way.  A guest
\* has none.
HeartsAgree ==
    /\ hearts = "loaded" =>
          \A l \in Listings \ blurred : toggle[l] = <<>> => (l \in ids <=> l \in saved)
    /\ ~signedIn => ids = {}

\* A confirm() is waiting exactly when its own question is on the screen: no
\* caller is left waiting for a dialog that is gone, and none gets the answer to
\* another's question (ConfirmContext).
DialogOfItsCaller ==
    \A c \in Callers : caller[c] = "waiting" <=> c = dialog /\ c = resolver

\* The unread count of the notification centre is the number of unread items it
\* lists, however openings of several and a "Mark all as read" overlap; unless a
\* notification came between the two queries of the load, the list was cut at its
\* limit, or one item was opened twice.  What it lists as unread, with no request
\* for it under way, is unread at the server (Notifications.open, readAll).
UnreadCounted ==
    /\ ~skewed => unread = Cardinality({n \in Notes : items[n] = "unread"})
    /\ \A n \in Notes :
          items[n] = "unread" /\ inbox.opens[n] = 0 /\ ~inbox.readAll =>
              stored[n] = "unread"

\* What the tab shows of the second factor is what the server has.  The QR code
\* on the screen is the one of the secret stored, so a code of it is accepted
\* ("a second call would generate a new secret and leave the shown QR out of sync
\* with the stored one", MfaSetup.jsx:55-58), whatever answers are lost.  While
\* the tab was told of every change of the factor, the secret of one that is on
\* is never replaced (MfaSetup.jsx:4-5), and the console is shown to an
\* administrator only when the server would serve it (AdminRoute,
\* requireAdminMfa).
SecondFactorInSync ==
    [][/\ mfa.enabled /\ mfa'.enabled /\ ~unheard => mfa'.secret = mfa.secret
       /\ (Enrolling /\ Settled => mfa.secret = enrolment.secret)'
       /\ (page = "admin" /\ Settled /\ ~unheard => ConsoleServed)']_browserVars

=============================================================================
