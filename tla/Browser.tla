------------------------------ MODULE Browser ------------------------------
(***************************************************************************)
(* One tab of an administrator's web client: who it believes is signed in  *)
(* (AuthContext, the 401 interceptor of api/client.js, the routes of App), *)
(* the second factor's page (MfaSetup), the hearts (FavoritesContext,      *)
(* favorite.controller.js), the confirmation dialog (ConfirmContext and    *)
(* the pages that ask) and the notification centre (Notifications,         *)
(* notification.controller.js).  Each call of the API is a request that is *)
(* answered later, or never: a request may fail before the server did what *)
(* it asks for, and after.  An administrator passes every guard a member   *)
(* passes.                                                                 *)
(***************************************************************************)
EXTENDS Naturals, SequencesExt

CONSTANTS
    Listings,
    Notes,        \* notifications
    Secrets,      \* TOTP secrets
    Callers,      \* page handlers that ask for a confirmation
    PageLimit,    \* how many notifications the centre lists: 50
    MaxRequests,  \* bound: requests of the hearts, or for notifications, at once
    None

ASSUME BrowserAssumption ==
    /\ None \notin Callers \cup Secrets
    /\ {"asked", "failed"} \cap Secrets = {}
    /\ IsFiniteSet(Notes)
    /\ {PageLimit, MaxRequests} \subseteq Nat \ {0}

VARIABLES
    session,      \* the server: the kind of session the cookie names
    mfa,          \* the server: [enabled, secret] of the account
    signedIn,     \* AuthContext.user is set
    enabled,      \* its mfaEnabled
    probing,      \* AuthContext.refresh is waiting for /auth/me, maybe for a login
    page,         \* the route rendered
    enrolment,    \* the page MfaSetup: didSetup, secret, backupCodes and what it
                  \* waits for
    setups,       \* its requests for a secret, with their answers
    unheard,      \* history: the factor was turned on or off, and the tab not told
    saved,        \* the server: the listings of the user's favourites
    ids,          \* FavoritesContext.idsRef
    hearts,       \* the favourites: "empty", "loading", "loaded"
    toggle,       \* the requests of each heart, oldest first
    blurred,      \* history: the hearts whose requests went astray since the load
    dialog,       \* the caller whose question is shown
    resolver,     \* the caller whose promise resolverRef settles
    caller,       \* what each caller is doing
    stored,       \* the server: the user's notifications
    items,        \* Notifications.items
    unread,       \* Notifications.unread
    inbox,        \* the requests of the notification centre
    skewed        \* history: its count and its list were not of one moment, or
                  \* one notification was opened twice

auth   == <<session, signedIn, enabled, probing>>
factor == <<mfa, enrolment, setups, unheard>>
fav    == <<saved, ids, hearts, toggle, blurred>>
ask    == <<dialog, resolver, caller>>
notes  == <<stored, items, unread, inbox, skewed>>

browserVars == <<auth, page, factor, fav, ask, notes>>

\* "home" stands for the public routes but those of the login.
Public == {"home", "login", "login mfa"}

\* The others are behind ProtectedRoute, "admin" behind AdminRoute.
Pages == Public \cup {"notifications", "mfa setup", "admin"}

Nothing == [n \in Notes |-> "absent"]

\* load: how far GET /notifications has come, list and count what it has read;
\* opens: the requests to mark each notification as read.
NoInbox == [load |-> "no", list |-> Nothing, count |-> 0,
            opens |-> [n \in Notes |-> 0], readAll |-> FALSE]

Inboxes == [load: {"no", "asked", "found", "counted", "both"},
            list: [Notes -> {"absent", "unread", "read"}],
            count: 0..Cardinality(Notes),
            opens: [Notes -> Nat], readAll: BOOLEAN]

Unmounted == [didSetup |-> FALSE, secret |-> None, codes |-> FALSE, awaits |-> "nothing"]

BrowserTypeOK ==
    /\ session \in {"none", "pending", "full"}
    /\ {signedIn, enabled} \subseteq BOOLEAN
    /\ probing \in {"no", "probe", "login"}
    /\ page \in Pages
    /\ mfa \in [enabled: BOOLEAN, secret: Secrets \cup {None}]
    /\ enrolment \in [didSetup: BOOLEAN, secret: Secrets \cup {None}, codes: BOOLEAN,
                      awaits: {"nothing", "enabled", "disabled", "failure"}]
    /\ setups \in Seq(Secrets \cup {"asked", "failed"})
    /\ {unheard, skewed} \subseteq BOOLEAN
    /\ saved \cup ids \cup blurred \subseteq Listings
    /\ hearts \in {"empty", "loading", "loaded"}
    /\ toggle \in [Listings -> Seq({"add", "remove", "add failed", "remove failed"})]
    /\ {dialog, resolver} \subseteq Callers \cup {None}
    /\ caller \in [Callers -> {"idle", "waiting", "acting"}]
    /\ {stored, items} \subseteq [Notes -> {"absent", "unread", "read"}]
    /\ unread \in 0..Cardinality(Notes)
    /\ inbox \in Inboxes

BrowserInit ==
    /\ session \in {"none", "full"}
    /\ mfa \in [enabled: {FALSE}, secret: {None}] \cup [enabled: {TRUE}, secret: Secrets]
    /\ signedIn = FALSE /\ enabled = FALSE /\ probing = "probe"
    /\ enrolment = Unmounted /\ setups = <<>> /\ unheard = FALSE
    /\ page = "home"
    /\ saved \in SUBSET Listings
    /\ ids = {} /\ hearts = "empty"
    /\ toggle = [l \in Listings |-> <<>>] /\ blurred = {}
    /\ dialog = None /\ resolver = None
    /\ caller = [c \in Callers |-> "idle"]
    /\ stored \in [Notes -> {"absent", "unread"}]
    /\ items = Nothing /\ unread = 0 /\ inbox = NoInbox /\ skewed = FALSE

\* No request for favourites is under way: what the tab knows of its user does
\* not change during one (its answer would then go into the set of the next).
SameUser == hearts # "loading" /\ \A l \in Listings : toggle[l] = <<>>

-----------------------------------------------------------------------------
(* Routes                                                                  *)

\* Where the routes of App lead: ProtectedRoute to /login, AdminRoute to the
\* set-up of the second factor an administrator must have.
Routed(to, user, on) ==
    IF to \notin Public /\ ~user THEN "login"
    ELSE IF to = "admin" /\ ~on THEN "mfa setup"
    ELSE to

\* Fault: no ref, the effect asks whenever it runs.
ProvisionAlways(user, on, did) == IF user /\ ~on THEN <<"asked">> ELSE <<>>

\* What the effect of MfaSetup asks the server.
Provision(user, on, did) == IF user /\ ~on /\ ~did THEN <<"asked">> ELSE <<>>

\* A page is left and another mounted.  StrictMode runs the effect of a mount
\* twice; the ref lives through both.
Show(to, user, on) ==
    /\ page' = to
    /\ items' = Nothing /\ unread' = 0 /\ skewed' = FALSE
    /\ inbox' = IF to = "notifications" THEN [NoInbox EXCEPT !.load = "asked"]
                ELSE NoInbox
    /\ LET asks == to = "mfa setup" /\ user /\ ~on
       IN  /\ enrolment' = [Unmounted EXCEPT !.didSetup = asks]
           /\ setups' = IF to # "mfa setup" THEN <<>>
                        ELSE Provision(user, on, FALSE) \o Provision(user, on, asks)

\* No page waits for an answer of its own.
Settled == inbox = NoInbox /\ setups = <<>> /\ enrolment.awaits = "nothing" /\ probing = "no"

\* Pages are left when they are settled: an answer that comes later would be
\* dropped, but its request could still be served after those of the next page.
Navigate(to) ==
    /\ Settled
    /\ Routed(to, signedIn, enabled) # page
    /\ Show(Routed(to, signedIn, enabled), signedIn, enabled)
    /\ UNCHANGED <<auth, mfa, unheard, fav, ask, stored>>

-----------------------------------------------------------------------------
(* Who is signed in                                                        *)

\* The password was right.  With the second factor on, the session is parked
\* and the page for the code follows; else AuthContext.login asks who it is.
Login ==
    /\ page = "login" /\ Settled /\ SameUser
    /\ \/ /\ mfa.enabled
          /\ session' = "pending"
          /\ Show("login mfa", signedIn, enabled)
          /\ UNCHANGED probing
       \/ /\ ~mfa.enabled
          /\ session' = "full" /\ probing' = "login"
          /\ UNCHANGED <<page, enrolment, setups, items, unread, inbox, skewed>>
    /\ UNCHANGED <<signedIn, enabled, mfa, unheard, fav, ask, stored>>

\* The code was right.  A wrong one, or one for a session that is no longer
\* parked, is answered 401, and the interceptor reloads the tab.
CompleteMfa ==
    /\ page = "login mfa" /\ Settled /\ SameUser
    /\ session = "pending" /\ mfa.secret # None
    /\ session' = "full" /\ probing' = "login"
    /\ UNCHANGED <<signedIn, enabled, page, factor, fav, ask, notes>>

\* Whether there is a user decides what the effect of FavoritesProvider does.
Favourites(user) ==
    /\ ids' = IF user THEN ids ELSE {}
    /\ hearts' = IF user THEN "loading" ELSE "empty"
    /\ UNCHANGED <<saved, toggle, blurred>>

\* /auth/me answers, or fails: then nobody is signed in.  The effect of
\* MfaSetup runs again for the user received; a login goes on to the console.
Refreshed ==
    /\ probing # "no"
    /\ \E user \in {session = "full", FALSE} :
          LET on == user /\ mfa.enabled
              to == Routed(IF probing = "login" THEN "admin" ELSE page, user, on)
          IN  /\ signedIn' = user /\ enabled' = on
              /\ Favourites(user)
              /\ IF to # page THEN Show(to, user, on)
                 ELSE /\ LET more == IF page = "mfa setup"
                                     THEN Provision(user, on, enrolment.didSetup) ELSE <<>>
                         IN  /\ setups' = setups \o more
                             /\ enrolment' = [enrolment EXCEPT !.didSetup = @ \/ more # <<>>]
                      /\ UNCHANGED <<page, items, unread, inbox, skewed>>
    /\ probing' = "no" /\ unheard' = FALSE
    /\ UNCHANGED <<session, mfa, ask, stored>>

Logout ==
    /\ signedIn /\ Settled /\ SameUser
    /\ session' = "none" /\ signedIn' = FALSE /\ enabled' = FALSE
    /\ Favourites(FALSE)
    /\ Show("home", FALSE, FALSE)
    /\ unheard' = FALSE
    /\ UNCHANGED <<probing, mfa, ask, stored>>

\* The server ends the session on its own; the tab does not know.
SessionEnds ==
    /\ session # "none"
    /\ session' = "none"
    /\ UNCHANGED <<signedIn, enabled, probing, page, factor, fav, ask, notes>>

\* The tab starts over: the interceptor's location.assign('/login') on a 401,
\* or the user opening the site anew.  A request for a secret has been served.
Reload(to) ==
    /\ \A l \in Listings : toggle[l] = <<>>
    /\ \A i \in DOMAIN setups : setups[i] # "asked"
    /\ signedIn' = FALSE /\ enabled' = FALSE /\ probing' = "probe"
    /\ ids' = {} /\ hearts' = "empty"
    /\ dialog' = None /\ resolver' = None
    /\ caller' = [c \in Callers |-> "idle"]
    /\ Show(to, FALSE, FALSE)
    /\ unheard' = FALSE
    /\ UNCHANGED <<session, mfa, saved, toggle, blurred, stored>>

-----------------------------------------------------------------------------
(* The second factor (MfaSetup)                                            *)

\* requireAdminMfa: else 403.
ConsoleServed == mfa.enabled

\* setup: a fresh secret over the one stored, whether the factor is on or not,
\* and its QR code for an answer, unless that is lost.
SetupServed(i) ==
    /\ setups[i] = "asked"
    /\ \/ /\ session = "full"
          /\ \E fresh \in Secrets \ ({mfa.secret, enrolment.secret} \cup Range(setups)) :
                /\ mfa' = [mfa EXCEPT !.secret = fresh]
                /\ \E answer \in {fresh, "failed"} :
                      setups' = [setups EXCEPT ![i] = answer]
       \/ setups' = [setups EXCEPT ![i] = "failed"] /\ UNCHANGED mfa
    /\ UNCHANGED <<auth, page, enrolment, unheard, fav, ask, notes>>

\* Fault: a failure is not told from a secret.
SetupAnsweredUnchecked(i) ==
    /\ setups[i] # "asked"
    /\ enrolment' = [enrolment EXCEPT !.secret = setups[i]]
    /\ setups' = RemoveAt(setups, i)
    /\ UNCHANGED <<auth, page, mfa, unheard, fav, ask, notes>>

\* The QR code and the key are put up; after a failure the next run of the
\* effect may ask again.
SetupAnswered(i) ==
    /\ setups[i] # "asked"
    /\ enrolment' = IF setups[i] = "failed" THEN [enrolment EXCEPT !.didSetup = FALSE]
                    ELSE [enrolment EXCEPT !.secret = setups[i]]
    /\ setups' = RemoveAt(setups, i)
    /\ UNCHANGED <<auth, page, mfa, unheard, fav, ask, notes>>

\* The view with the QR code.
Enrolling ==
    /\ page = "mfa setup" /\ signedIn /\ ~enabled
    /\ ~enrolment.codes /\ enrolment.secret # None

\* A request that would make the factor now was served and answered, or served
\* and its answer lost; or it was refused or not served.
Asked(now, ok, answer) ==
    \/ /\ ok
       /\ mfa' = now
       /\ \/ enrolment' = [enrolment EXCEPT !.awaits = answer] /\ UNCHANGED unheard
          \/ enrolment' = [enrolment EXCEPT !.awaits = "failure"] /\ unheard' = TRUE
    \/ /\ enrolment' = [enrolment EXCEPT !.awaits = "failure"]
       /\ UNCHANGED <<mfa, unheard>>

\* enable, with a code of the secret shown: 400 if another one is stored.
Enable ==
    /\ Enrolling /\ Settled /\ SameUser
    /\ Asked([mfa EXCEPT !.enabled = TRUE],
             session = "full" /\ mfa.secret = enrolment.secret, "enabled")
    /\ UNCHANGED <<auth, page, setups, fav, ask, notes>>

Disable ==
    /\ page = "mfa setup" /\ signedIn /\ enabled /\ ~enrolment.codes
    /\ Settled /\ SameUser
    /\ Asked([enabled |-> FALSE, secret |-> None],
             session = "full" /\ mfa.enabled, "disabled")
    /\ UNCHANGED <<auth, page, setups, fav, ask, notes>>

\* The backup codes are shown, and refresh() tells the rest of the application.
FactorAnswered ==
    /\ enrolment.awaits # "nothing"
    /\ enrolment' = [enrolment EXCEPT !.awaits = "nothing",
                                      !.codes = @ \/ enrolment.awaits = "enabled"]
    /\ probing' = IF enrolment.awaits = "failure" THEN "no" ELSE "probe"
    /\ UNCHANGED <<session, signedIn, enabled, page, mfa, setups, unheard, fav, ask, notes>>

-----------------------------------------------------------------------------
(* Favourites                                                              *)

HeartsAnswered ==
    /\ hearts = "loading"
    /\ \/ session = "full" /\ ids' = saved /\ hearts' = "loaded"
       \/ ids' = {} /\ hearts' = "empty"
    /\ blurred' = {}
    /\ UNCHANGED <<auth, page, factor, saved, toggle, ask, notes>>

Failed == {"add failed", "remove failed"}

UnderWay == UNION {{l} \X DOMAIN toggle[l] : l \in Listings}

\* The heart changes at once, by what idsRef says now; the request follows.  The
\* button is never disabled: requests of one heart may be under way together.  A
\* guest is sent to /login (Navigate).  None while the list is loading.
ToggleFavorite(l) ==
    /\ page = "home" /\ signedIn /\ probing = "no" /\ hearts # "loading"
    /\ Cardinality(UnderWay) < MaxRequests
    /\ ids' = IF l \in ids THEN ids \ {l} ELSE ids \cup {l}
    /\ toggle' = [toggle EXCEPT ![l] = Append(@, IF l \in ids THEN "remove" ELSE "add")]
    /\ blurred' = IF Range(toggle[l]) \cap Failed # {} THEN blurred \cup {l} ELSE blurred
    /\ UNCHANGED <<auth, page, factor, saved, hearts, ask, notes>>

\* At the server, both idempotent.
AddFavorite(l) == saved' = saved \cup {l}

RemoveFavorite(l) == saved' = saved \ {l}

Serve(l, i) ==
    /\ session = "full"
    /\ \/ toggle[l][i] = "add" /\ AddFavorite(l)
       \/ toggle[l][i] = "remove" /\ RemoveFavorite(l)

\* The i-th request of a heart is served; its answer, when it comes, changes
\* nothing.  Requests of one heart may overtake each other.
ToggleServed(l, i) ==
    /\ Serve(l, i)
    /\ toggle' = [toggle EXCEPT ![l] = RemoveAt(@, i)]
    /\ blurred' = IF i = 1 THEN blurred ELSE blurred \cup {l}
    /\ UNCHANGED <<auth, page, factor, ids, hearts, ask, notes>>

Failure(request) == IF request = "add" THEN "add failed" ELSE "remove failed"

\* 401, 404 for a removed listing, or the request does not get there; or it is
\* served and its answer lost.
ToggleFails(l, i) ==
    /\ toggle[l][i] \notin Failed
    /\ toggle' = [toggle EXCEPT ![l][i] = Failure(@)]
    /\ \/ /\ UNCHANGED saved
          /\ blurred' = IF Len(toggle[l]) = 1 THEN blurred ELSE blurred \cup {l}
       \/ /\ Serve(l, i)
          /\ blurred' = blurred \cup {l}
    /\ UNCHANGED <<auth, page, factor, ids, hearts, ask, notes>>

\* Fault: only a failed save is taken back.
RevertAdded(l, request) == IF request = "add failed" THEN ids \ {l} ELSE ids

\* Just this id, whatever else changed meanwhile.
Revert(l, request) == IF request = "add failed" THEN ids \ {l} ELSE ids \cup {l}

ToggleAnswered(l, i) ==
    /\ toggle[l][i] \in Failed
    /\ ids' = Revert(l, toggle[l][i])
    /\ toggle' = [toggle EXCEPT ![l] = RemoveAt(@, i)]
    /\ UNCHANGED <<auth, page, factor, saved, hearts, blurred, ask, notes>>

-----------------------------------------------------------------------------
(* The confirmation dialog                                                 *)

\* Fault: the promise of a dialog still open is forgotten.
ConfirmForgetting(c) ==
    /\ caller[c] = "idle"
    /\ caller' = [caller EXCEPT ![c] = "waiting"]
    /\ dialog' = c /\ resolver' = c
    /\ UNCHANGED <<auth, page, factor, fav, notes>>

\* A dialog still open is settled as cancelled first.
Confirm(c) ==
    /\ caller[c] = "idle"
    /\ caller' = [d \in Callers |-> IF d = c THEN "waiting"
                                    ELSE IF d = resolver THEN "idle" ELSE caller[d]]
    /\ dialog' = c /\ resolver' = c
    /\ UNCHANGED <<auth, page, factor, fav, notes>>

\* The buttons, Escape and the backdrop.
Settle(result) ==
    /\ dialog # None
    /\ dialog' = None /\ resolver' = None
    /\ caller' = [d \in Callers |-> IF d # resolver THEN caller[d]
                                    ELSE IF result THEN "acting" ELSE "idle"]
    /\ UNCHANGED <<auth, page, factor, fav, notes>>

\* The call that was confirmed is answered.
Acted(c) ==
    /\ caller[c] = "acting"
    /\ caller' = [caller EXCEPT ![c] = "idle"]
    /\ UNCHANGED <<auth, page, factor, fav, dialog, resolver, notes>>

-----------------------------------------------------------------------------
(* The notification centre                                                 *)

\* While a GET has run one of its two queries, it makes them disagree.
Arrives(n) ==
    /\ stored[n] = "absent"
    /\ stored' = [stored EXCEPT ![n] = "unread"]
    /\ skewed' = (skewed \/ inbox.load \in {"found", "counted"})
    /\ UNCHANGED <<auth, page, factor, fav, ask, items, unread, inbox>>

Present == {n \in Notes : stored[n] # "absent"}

\* .sort({createdAt: -1}).limit(50): all of them, or the latest; the order they
\* came in is not modelled, so any may be.
Listed ==
    IF Cardinality(Present) <= PageLimit THEN {stored}
    ELSE {[n \in Notes |-> IF n \in latest THEN stored[n] ELSE "absent"] :
             latest \in {s \in SUBSET Present : Cardinality(s) = PageLimit}}

\* listNotifications runs its two queries at once, for a session that was there
\* when the request came: they read at different moments, in either order.
FindNotes ==
    /\ \/ inbox.load = "asked" /\ session = "full"
       \/ inbox.load = "counted"
    /\ \E list \in Listed :
          /\ inbox' = [inbox EXCEPT !.list = list,
                                    !.load = IF @ = "asked" THEN "found" ELSE "both"]
          /\ skewed' = (skewed \/ list # stored)
    /\ UNCHANGED <<auth, page, factor, fav, ask, stored, items, unread>>

CountUnread ==
    /\ \/ inbox.load = "asked" /\ session = "full"
       \/ inbox.load = "found"
    /\ inbox' = [inbox EXCEPT !.count = Cardinality({n \in Notes : stored[n] = "unread"}),
                              !.load = IF @ = "asked" THEN "counted" ELSE "both"]
    /\ UNCHANGED <<auth, page, factor, fav, ask, stored, items, unread, skewed>>

\* The answer, or none.
InboxLoaded ==
    /\ inbox.load # "no"
    /\ \/ /\ inbox.load = "both"
          /\ items' = inbox.list /\ unread' = inbox.count
          /\ UNCHANGED skewed
       \/ /\ skewed' = FALSE
          /\ UNCHANGED <<items, unread>>
    /\ inbox' = NoInbox
    /\ UNCHANGED <<auth, page, factor, fav, ask, stored>>

\* At the server: updateOne and updateMany; or 401, or the request is lost.
MarkRead(n) ==
    \/ session = "full" /\ stored' = [stored EXCEPT ![n] = "read"]
    \/ UNCHANGED stored

AllRead(list) == [n \in Notes |-> IF list[n] = "unread" THEN "read" ELSE list[n]]

MarkAllRead ==
    \/ session = "full" /\ stored' = AllRead(stored)
    \/ UNCHANGED stored

Opening == UNION {{n} \X (1..inbox.opens[n]) : n \in Notes}

\* Fault: an item that was read is marked again.
OpenAnyNote(n) ==
    /\ page = "notifications" /\ inbox.load = "no"
    /\ items[n] # "absent" /\ Cardinality(Opening) < MaxRequests
    /\ inbox' = [inbox EXCEPT !.opens[n] = @ + 1]
    /\ skewed' = (skewed \/ inbox.opens[n] > 0)
    /\ MarkRead(n)
    /\ UNCHANGED <<auth, page, factor, fav, ask, items, unread>>

\* open() waits for markRead, whatever it answers; until then the item can be
\* opened again, and others can.
OpenNote(n) ==
    /\ page = "notifications" /\ inbox.load = "no"
    /\ items[n] = "unread" /\ Cardinality(Opening) < MaxRequests
    /\ inbox' = [inbox EXCEPT !.opens[n] = @ + 1]
    /\ skewed' = (skewed \/ inbox.opens[n] > 0)
    /\ MarkRead(n)
    /\ UNCHANGED <<auth, page, factor, fav, ask, items, unread>>

NoteOpened(n) ==
    /\ inbox.opens[n] > 0
    /\ items' = [items EXCEPT ![n] = "read"]
    /\ unread' = IF unread = 0 THEN 0 ELSE unread - 1
    /\ inbox' = [inbox EXCEPT !.opens[n] = @ - 1]
    /\ UNCHANGED <<auth, page, factor, fav, ask, stored, skewed>>

\* (Pressing the button again before the answer asks for the same once more.)
ReadAll ==
    /\ page = "notifications" /\ inbox.load = "no" /\ ~inbox.readAll /\ unread > 0
    /\ inbox' = [inbox EXCEPT !.readAll = TRUE]
    /\ MarkAllRead
    /\ UNCHANGED <<auth, page, factor, fav, ask, items, unread, skewed>>

EverythingRead ==
    /\ inbox.readAll
    /\ items' = AllRead(items)
    /\ unread' = 0
    /\ inbox' = [inbox EXCEPT !.readAll = FALSE]
    /\ skewed' = FALSE
    /\ UNCHANGED <<auth, page, factor, fav, ask, stored>>

-----------------------------------------------------------------------------

BrowserNext ==
    \/ Login \/ CompleteMfa \/ Refreshed \/ Logout \/ SessionEnds
    \/ \E to \in {"home", "login"} : Reload(to)
    \/ \E i \in DOMAIN setups : SetupServed(i) \/ SetupAnswered(i)
    \/ Enable \/ Disable \/ FactorAnswered
    \/ HeartsAnswered
    \/ \E l \in Listings :
          \/ ToggleFavorite(l)
          \/ \E i \in DOMAIN toggle[l] :
                ToggleServed(l, i) \/ ToggleFails(l, i) \/ ToggleAnswered(l, i)
    \/ \E c \in Callers : Confirm(c) \/ Acted(c)
    \/ \E result \in BOOLEAN : Settle(result)
    \/ \E to \in Pages : Navigate(to)
    \/ FindNotes \/ CountUnread \/ InboxLoaded \/ ReadAll \/ EverythingRead
    \/ \E n \in Notes : Arrives(n) \/ OpenNote(n) \/ NoteOpened(n)

BrowserSpec == BrowserInit /\ [][BrowserNext]_browserVars

=============================================================================
