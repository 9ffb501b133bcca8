# EcoLend in TLA+

EcoLend is a peer-to-peer lending application: an Express/mongoose backend (`src/backend`), a React
frontend (`src/frontend`), Khalti as payment provider. This directory models the life of a booking and
of the payment for it, the listings and accounts around it, login and sessions, and one tab of the web
client; it checks them with TLC and proves the main safety properties with TLAPS.

Paths below are relative to `src/backend/src/` unless they start with `src/`.

## 1. Inventory

| Component | State | Operations | Interacts with |
|---|---|---|---|
| Booking state machine (`utils/bookingStateMachine.js`) | none: a table | `evaluate`, `isTerminal` | called by the booking controller; its two missing edges are taken by payment and admin controllers |
| Booking handlers (`controllers/booking.controller.js`, `resolveDispute` in `controllers/admin.controller.js`, `models/booking.model.js`, `utils/bookingIntegrity.js`) | booking documents: parties, dates, amounts, status, status history, integrity hash, comments | create, read (with integrity check), change status, comment, resolve a dispute, lists, availability, earnings | listings (read), notifications, security alerts |
| Payments (`controllers/payment.controller.js`, `services/khalti.service.js`) | payment fields of the booking (pidx, amount, verification time); payments at Khalti | initiate, callback; inside them: look up, settle, void, resume, release, mint | booking documents, Khalti, notifications, alerts |
| Notifications (`services/notification.service.js`, `controllers/notification.controller.js`) | in-app notifications, e-mail preference | `notifyUser`, list, mark one or all read | called by bookings, payments, admin; shown by the client |
| Listings (`controllers/listing.controller.js`, `services/listingVisibility.service.js`) | listing documents: status, owner, price, hidden-by-suspension flag | create, update, delete, remove by administrator, hide and restore with the owner's account, lists | bookings (live count), accounts |
| Accounts and moderation (`controllers/user.controller.js`, `admin.controller.js`) | user status, deletion request, profile | suspend, reinstate, request deletion, profile changes | listings, sessions, bookings |
| Sessions and authentication (`controllers/auth.controller.js`, `mfa.controller.js`, `session.controller.js`, `config/session.js`, `middleware/auth.js`) | session store, failure counter and lock, MFA secret, backup codes, links in mails | register, verify, login, second factor, logout, forgot/reset, revoke, timeouts | accounts, brute-force protection |
| Brute-force protection (`utils/ipTracker.js`, `middleware/rateLimiter.js`, `middleware/captcha.js`) | per-address failures and block, counters, one-shot CAPTCHA tokens | record a failure, is blocked, reset | login |
| Reviews (`controllers/review.controller.js`) | one review per booking and author | create, list, remove by administrator | bookings (completed) |
| Favourites (`controllers/favorite.controller.js`, `src/frontend/src/context/FavoritesContext.jsx`) | favourites in the database, an optimistic copy in the tab | add, remove, list, toggle | listings |
| Client (`src/frontend/src/`: `App.jsx`, `api/client.js`, `context/`, `pages/`) | the user it believes is signed in, the page, the second factor's page, the dialog, the notification list | navigate, sign in and out, confirm, read notifications | every endpoint, late |
| CSRF, tokens, passwords, field encryption, plumbing, scripts | none that outlives a request | | |

What is hard in this code is that **a handler is a chain of awaits without a lock or a transaction**.
A document is read, decided on, and saved later; mongoose sends only the modified fields (`$set`) and
pushed elements (`$push`), with a filter on `_id` alone, unless an array is *replaced*: then the filter
also names the version that was read. Bookings are never saved that way, user documents sometimes are
(`passwordHistory`, `mfaBackupCodes`), and section 5 shows how much hangs on it. Between any two awaits
other requests run, a call to Khalti may time out, and the process may die. In the browser the same
holds of every request: its answer arrives at a page that may have moved on.

What makes each part correct:

* *state machine, bookings*: only the entitled person moves a booking, along the table, in its order;
  status, history and hash agree; an intact record never looks tampered with; dates are not given twice;
  the other party hears of every step; pages offer, quote and total what the server would accept;
* *payments*: `paid` only for a payment of that booking that Khalti completed with the exact amount, once;
  a payment made is never lost, and one booking never has two payments open at the payer;
* *listings, accounts*: removed and hidden listings stay so until the one who may restores them; no live
  booking is left without its listing or its party; reinstatement undoes exactly the hiding;
* *sessions*: a suspension or a password reset ends every earlier session; lockout and blocking come when
  stated; links and codes work once; two-factor login always has its secret;
* *reviews*: one per party, by a party, after completion;
* *client*: hearts, unread count, dialog and the second factor's page agree with the server once requests
  have settled.

The hazards, each at its line and with the properties about it, are in `PROJECT.json`.

## 2. Modules

| Module | Models | Builds on |
|---|---|---|
| `BookingStateMachine` | the transition table, `evaluate`, the two edges taken elsewhere (`LegalStep`), status sets | |
| `BookingLifecycle` | the abstract specification: a booking is created `requested` and then takes legal steps, atomically | `BookingStateMachine` |
| `Bookings` | booking documents and their handlers, one action per await | `BookingStateMachine` |
| `BookingProperties` | properties of `Bookings`; the refinement to `BookingLifecycle` | `Bookings` |
| `BookingViews` | what lists, booking page, listing page and earnings make of the documents, and four properties of that | `Bookings` |
| `Payments` | payment fields, payment handlers, Khalti and the payer, composed with the booking handlers | `Bookings` |
| `PaymentProperties` | properties of `Payments`; the refinement to `Bookings` | `Payments` |
| `Marketplace` | listings, account status, reviews and comments, composed with the booking handlers | `Bookings` |
| `MarketViews`, `MarketplaceProperties` | what Browse, profiles and review forms show; the properties | `Marketplace` |
| `IpTracker` | the failures and the block of one network address | |
| `Accounts` | one e-mail address and its account: registration, login, second factor, reset, suspension, sessions | `IpTracker` |
| `AccountProperties` | properties of `Accounts` | `Accounts` |
| `Browser`, `BrowserProperties` | one tab of the client against the endpoints it calls; the properties | |
| `BookingProofs`, `PaymentProofs`, `AccountProofs`, `BrowserProofs` | theorems and proofs, without a restriction on overlapping | the properties modules |
| `LockedProofs` | theorems about booking handlers that overlap as if the code took locks | `BookingProofs` |
| `MoneyProofs` | theorems about payments while handlers for one booking do not overlap where it matters | `PaymentProofs` |
| `ViewProofs` | theorems about what pages show while booking handlers keep to the locks | `BookingViews`, `LockedProofs` |
| `MarketProofs` | theorems about `MarketSpec` | `MarketplaceProperties`, `ViewProofs` |
| `MC_Bookings`, `MC_Payments`, `MC_Marketplace`, `MC_Accounts`, `MC_Browser` | instances for TLC | the properties modules |

**`Bookings`.** `bookings[b]` is the document, `req[r]` the handler in slot `r`: the point it waits at,
the acting user, the booking and the document *as it read it*, the status it is about to write. An action
starts where an await has settled and runs to the next one:

| Action | Code |
|---|---|
| `CreateBooking` | `createBooking` up to and with the checks on the listing read (36-46); the document is built from what was read then |
| `CreateClash` | the clash query (48-55) and the 409 |
| `CreateInsert`, `CreateSeal`, `CreateNotify` | the first save, the second save with the hash, `notifyUser(lender)` (74-84) |
| `ChangeStatus`, `ChangeSave`, `ChangeNotify` | `changeStatus`: read and `evaluate` (178-184), assign, push, hash, save (186-189), `notifyUser(counterparty)` |
| `ResolveDispute`, `ResolveSave` | `resolveDispute` of the admin controller |
| `GetBooking` | the integrity check of `getBooking` and its alert |
| `PaymentVerified` | what a verified payment does to a booking (the module `Payments` says when) |
| `Fail` | an await rejects or the process dies: the handler is gone, what it wrote stays |

`SaveStatus` is the heart of it: status and hash are *set* from the handler's snapshot, the history entry
is *appended to the stored array*, which is how two overlapping saves really merge.

**`BookingViews`** adds no state: each list, page and total is an operator on the documents
(`MyBookings`, `ActionsFor`, `Availability`, `Quote`, `Earnings`, ...), and its properties compare what a
page shows with what the handler behind its button would answer (`Accepted` for `changeStatus`, `Settles`
for `resolveDispute`). `Earnings` is a set of answers: the query is cut at `EarningsLimit` (100 in the code),
and any of the lender's bookings may be the latest. "Pay now" is not among the buttons compared: it is a
link to a page whose request, with its refusals, is `InitiatePayment` of `Payments`.

**`Payments`.** `pay[b]` are the payment fields of the document, `khalti[p]` what Khalti knows of a pidx,
`call[c]` the payment handler in slot `c` with the fields it read. `InitiateLookup` and `CallbackLookup`
are the lookups with the four ways on from them; `InitiateClear`/`CallbackClear` `clearPendingPayment`;
`InitiateMint`, `InitiateSave`, `InitiateHand` the call to Khalti, the save of pidx and amount, and the
answer with the URL; `Apply` and `AlreadyApplied` the guarded update and its failure; `Receipt` the
notification of the lender. `PayerPays` and `KhaltiMoves` are the environment: a payment can be made only
through a URL that was handed out, with any total in `Deviations` of the amount asked for; it may be held,
lapse or be refunded at any moment. `Cleared` and `Recorded` model mongoose's rule that assigning a field
the value it was read with sends nothing: that is why pidx and amount of two attempts can end up mixed.

**`Marketplace`.** `job[j]` is a handler of the listing, admin, user or review controller:
`UpdateListing`/`UpdateSave`, `DeleteListing`/`DeleteCount`/`DeleteRemove`,
`SuspendUser`/`SuspendSave`/`SuspendDestroy`/`SuspendHide`/`SuspendRestore`,
`RequestDeletion`/`DeletionCount`/`DeletionSave`/`DeletionHide`/`DeletionDestroy`,
`CreateReview`/`ReviewInsert`, `AddComment`/`CommentPush`, each of which may end where it stands
(`FailJob`); `RemoveListing`, `RemoveReview` and the two operations of the visibility service are single updates. The order of the steps is the order of the
awaits: a suspension saves the status, destroys the sessions, then hides the listings; a deletion request
hides before it destroys. Requests come with what a page may show: the status an edit asks for follows
from a status that may be out of date (`ToggleListing`, `ToggleUser`). `Login` asks for nothing: a login
parked for its second factor becomes a session whatever the account has become (`Accounts` has the steps, and
`Suspended_Login` shows it), so a session may begin on any account at any moment. `asked`, `overruled` and
`reopened` are history: the status a person last asked for, the listings whose status was last set while they
carried the flag of the visibility service, those a request made active after their owner had become inactive.

**`IpTracker`, `Accounts`.** `user` is the user document, `sessions` the session collection by session id
(a session parked for its second factor is `pending` and, as in the code, carries no `userId`), `mailed`
the links in the mailbox, `call[c]` a handler with the document as it read it. A handler is read, then
check, then save: `Login`, `LoginCheck`, then `LoginCount` (wrong password) or `LoginClear` and
`LoginOpen`; `Verify`, `VerifyCheck`, `VerifySpend` (backup code), `VerifyOpen`; `Setup`, `Enable`,
`Disable` and their saves; `ResetPassword`, `ResetSave`, `ResetDestroy`; `SuspendUser`, `SuspendSave`,
`SuspendDestroy`; `Register`, `RegisterInsert`. `Saved` is mongoose's rule on unchanged fields, `Current`
and `Outdated` its version filter. `DestroyUserSessions` finds sessions by `userId`. The sessions carry
two history fields, the status and stamp of the account as the handler that opened them read it.

**`Browser`.** The state is that of the React contexts and pages, next to the server state they show:
`signedIn`/`enabled`/`probing` (`AuthContext`), `page` (the route after the guards of `App.jsx`),
`enrolment`/`setups` (`MfaSetup`), `ids`/`hearts`/`toggle` (`FavoritesContext`), `dialog`/`resolver`/
`caller` (`ConfirmContext`), `items`/`unread`/`inbox` (`Notifications`). A request and its answer are two
or three steps: it is served, or fails before or after the server did what it asks for (`ToggleServed`,
`ToggleFails` and then `ToggleAnswered`; `Asked` for `enable` and `disable`; `SetupServed`). `toggle[l]` is
the sequence of requests of one heart, which may overtake each other; `FindNotes` and `CountUnread` are the
two queries of `listNotifications`, in either order, the first cut at `PageLimit` (50 in the code);
`inbox.opens` counts the requests to mark each notification. `blurred`, `skewed` and `unheard` are history:
hearts whose requests went astray, a count not of the moment of its list, a change of the factor the tab was
not told of. The properties except what they name, because there the code itself is wrong (section 5). The
session may end at the server at
any moment (`SessionEnds`), after which a 401 may throw the tab to the login page (`Reload`). The effect
of `MfaSetup` runs twice at a mount (StrictMode) and again when the user changes: `Provision`.

Abstractions, all of data: a hash stands for the fields it is computed from; a pidx also stands for its
URL; `Expired` stands for Expired, User canceled and Failed; amounts are whole rupees, for which
`Math.round(x * 100)` is exact; dates are half-day ticks; a password is its hash; a link is its purpose
and its stamp (the count of password changes it was mailed after); a TOTP code is right whenever the
secret is there; the texts of comments and reviews, titles, photos and e-mail are left out (nothing
modelled reads them). A recipient who opted out, and the errors `notifyUser` swallows, look like a handler
that ends at that point.

The operators headed *Fault* are variants of the one below them, each a plausible mistake in that code.
They occur in no specification: putting one in the place of the real operator shows that the property
that watches it can fail.

## 3. Runs

`P` marks runs that pass, `V` runs that show a disagreement between the code and what the repository says.

| Run (cfg) | Asks | Instance |
|---|---|---|
| P `Bookings_Concurrent` | do status, history, hash and notices stay consistent, does the booking page offer what the server accepts, and does every handler catch up, when handlers overlap | 1 booking, 2 handlers, a lender, a borrower and an administrator, no failures, fair; 338 thousand states |
| P `Bookings_Locked` | do handlers that overlap but keep to the locks of `LockedSpec`, dying anywhere, implement the lifecycle, keep dates apart, raise no false alert; do pages link, grey out, quote and total what the server would | 2 bookings, 2 handlers, 3 periods, earnings cut at 1; symmetry, view; 236 thousand states |
| P `Payments_Concurrent` | is `paid` always earned, `success` always true of Khalti, the booking module refined; once and with justified alerts while only one booking handler is in flight | 1 booking, 2 pidx, 2 payment handlers and 1 booking handler; 440 thousand states |
| P `Payments_Serial` | with one payment handler at a time, dying anywhere: at most one open payment, none lost | 3 pidx; 1.6 million states |
| P `Marketplace` | is anything live orphaned, anything of an inactive account left open, is exactly the hiding undone, are reviews sound | 1 listing, 1 booking, a lender, a borrower who is administrator, 1 booking handler and 2 others, all of which may die; symmetry, view; 1.3 million states |
| P `Accounts` | do links, codes, locks, blocks and revocations hold when second factors, resets and MFA changes overlap, over time and restarts | 2 handlers, 2 session ids, 3 passwords, 1 backup code, 3 ticks; 1.1 million states |
| P `Browser` | does the tab show what the server has, with requests overlapping, late, failing, lost or cut off by the end of the session | 2 listings, 3 notifications of which 2 are listed, 2 hearts' or inbox requests at once, 3 secrets, 2 callers; symmetry, constraint; 224 thousand states, deadlock checked |
| V `Overlap_Status` | `StatusMovesLegally` | 1 booking, 2 handlers |
| V `Overlap_Dates` | `NoDoubleBooking` | 2 bookings, 2 handlers |
| V `Cancel_Money` | `CancelledNeverTookMoney` | 1 pidx, 1 payment handler, 1 booking handler |
| V `Removed_Listing` | `RemovedStaysRemoved` | the instance of `Marketplace` |
| V `Suspended_Login` | `OnlyActiveAccountsEnter` | the instance of `Accounts` |

**Bounds.** Two handlers are enough for one to save from a snapshot the other has made stale, which is
what every concurrent hazard here needs; what is proved (section 4) holds for any number of
handlers, bookings and periods, with the handlers that must not overlap named in the hypothesis. The statuses form no cycle along the table, so histories, and with them the state spaces,
are finite without a bound on their length: a stale save can repeat a status, but only once per slot that
held it. In `Bookings_Concurrent` the administrator is a third person, who is a party of no booking; in the
other runs of bookings the lender is one, and in `Marketplace` the borrower, so that a lender can be
suspended by someone else. `EarningsLimit` is 1, so that a lender of two paid bookings exceeds it. The periods touch (`[0,2]`, `[2,5]`) and overlap (`[1,4]`) and are a whole and a broken
number of days. `Failures` is `FALSE` in `Bookings_Concurrent` and `Payments_Concurrent`: for a safety property a handler that never
takes its next step looks the same as one that died, and the liveness property is only claimed of handlers
that run to their end. `Deviations` holds 0 and 10 paisa: the right amount and a wrong one. Three pidx
give an attempt, a retry after it and one more.

In `Accounts`, two array saves (`MaxVersion`) are a reset and one more, or a batch of codes and its use;
a wrong password or such a save is allowed while saves so far (at 3 each) and wrong passwords in a row (at 2
each) stay below `MaxTrouble` (5): three wrong passwords with no save before them, one more after one save, or a
second save; three ticks (`MaxTime`) with windows of
one let every window open and close; a threshold of two and three failures make the account lock before
the address is blocked and the other way round; three passwords and a history of two let the oldest one
come back. In `Browser` three secrets are the stored one and two answers under way; three notifications with
`PageLimit` 2 make a list that is cut and one that is not; `MaxRequests` 2 lets two requests of one heart, or
of two, and two openings of one notification, or of two, overlap. Its constraint (`MC_OneAtATime`) keeps
hearts, notifications and questions from filling one behaviour at once: the hearts are toggled by a user
without notifications, and so on. No action of one of the three reads the variables of another; the proofs
know no such bound.

Symmetry is used only in runs without liveness, on values the specifications treat alike. The two views
(`MC_View`) leave out what no step still to come and no property of their run reads: of a notification its
status, or all of it, and in `Marketplace` also the comments, what a booking's history says beyond "was
completed", and a history variable of a listing that is set anew before it is read. Two states that differ
in that only have the same successors up to it. Deadlock is
checked in `Browser` (a tab can always be reloaded). In the others `CHECK_DEADLOCK FALSE` stands for a
system that may stop: once every booking is in a final status and no id or pidx is left, or time and
versions are used up, there is nothing to do, which is no error.

**What may overlap.** `Bookings` and `Payments` restrict nothing. The code takes no lock; `LockedSpec`
says what would suffice if it did, or if its requests happened to fall that way: `Locked`, that no two
handlers are between reading and saving the same booking (`Saving`), nor between looking at the dates of
the same listing and inserting (`Choosing`), and that a payment is not applied to a booking while it is
held (`Held`). Handlers for different bookings and listings overlap, each may die anywhere, and requests
that come one after the other are the special case. In `Marketplace` booking handlers overlap in that way, and every other handler
overlaps them and its like, short of two cases (`MarketLocked`): two handlers that change the status of one
account, and a booking being made while a handler that counts the bookings of its listing, or of one of its
parties, has not yet acted on the count. The second is needed: nothing in the code holds a booking back
while a listing is being deleted, and `NoOrphanedBooking` fails at once without it. The first keeps a
reinstatement from overtaking the suspension it undoes. A handler may die anywhere except between making an
account inactive and hiding its listings (`FailJob`): nothing in the code makes up for one that dies there.
Sessions begin and end at any moment, on any account. In `Accounts`, logins and suspensions run alone
(overlapping failures lose counts, and a login overlapping a suspension outlives it, as the code stands);
second factors overlap each other, resets each other, and MFA changes both, short of two disables at once;
registrations come at any time; time passes and the server restarts between requests. In `Browser` pages are
left when no answer of their own is outstanding, and the user does not change while requests for favourites
are under way.

**Fairness.** `FairSpec` assumes weak fairness of `Continue(r)` for each slot: node resumes a handler once
its await has settled, and the database answers. Requests, reads, payments and failures are never assumed
to happen. `EventuallyCaughtUp` needs no more.

## 4. Theorems

`BookingProofs` proves, for every value of the constants (any number of users, listings, bookings,
handlers in flight, with and without failures), that `BookingsSpec` implies `[]TypeOK`,
`[]StatusIsLastHistory`, `[]HistoryJustified`, `[]OnlySealCanLag`, `[]NoticesJustified` and
`HistoryNeverRewritten`. `PaymentProofs` proves that `PaymentsSpec` implies `BookingsSpec`
(`ImplementsBookings`), `[]PaymentsTypeOK`, `[]PaidOnlyIfVerified` and `[]SuccessOnlyIfSettled`.
`AccountProofs` proves that `AccountsSpec` implies all seven properties of its run,
`[]LockedAfterConsecutiveFailures`, `[]BackupCodeUsedOnce`, `[]SecondFactorHasSecret`,
`[]RevokedSessionsGone`, `PasswordChangesOnlyByItsLink`, `[]BlockedWhileHot` and `[]AccountsTypeOK`;
`BrowserProofs` that `BrowserSpec` implies all five properties of its run. Since payments refine bookings,
`PaymentProofs` carries over what holds of bookings: `RecordsSurvivePayments`, `HistoriesSurvivePayments`.
`ButtonsAreRight` and `CalendarIsRight` (`ViewProofs`) prove `[]PageOffersWhatServerAccepts` and
`[]AvailabilityPredictsClash` of `BookingsSpec`.

What does not hold when handlers overlap freely (section 5) is proved under the weakest condition found
for it, any handler still dying anywhere unless the table says otherwise:

| Theorem (module) | Hypothesis | Conclusion |
|---|---|---|
| `DatesAreGivenOnce`, `NobodyIsAccused` (`LockedProofs`) | `[]Locked`; payments at any moment | `[]NoDoubleBooking`, `[]NoFalseTamperAlert` |
| `LocksSufficeForPayments` (`PaymentProofs`) | `PaymentsSpec` and `[]Locked`; payment handlers and Khalti unrestricted | the same two |
| `StatusesMoveLegally`, `HandlersImplementLifecycle` (`LockedProofs`) | `LockedSpec`: the locks, and payments wait for a booking that is held | `StatusMovesLegally`; `LockedSpec` implies `BookingLifecycle` |
| `LocksAreKept` (`LockedProofs`) | `LockedSpec` | it is `BookingsSpec` with `[]Locked`: the hypothesis above has an executable form |
| `LinksLeadSomewhere` (`ViewProofs`) | `[]Locked` | `[]LinksOpen` |
| `EarningsAreComplete` (`ViewProofs`) | `LockedSpec`; any `EarningsLimit` | `[]EarningsComplete` |
| `PaymentsApplyOnce`, `AlertsAreJustified` (`MoneyProofs`) | `[]ChangesApart`: no two handlers are between reading and saving the status of one booking | `[]PaidOnce`, `[]MismatchJustified` |
| `PaymentsAreFound`, `OnePaymentIsOpen` (`MoneyProofs`) | that and `[]PaymentsApart`: no two payment handlers are between reading the pidx of one booking and the last step that relies on it | `[]NoPaymentLost`, `[]OneLivePidx` |
| `NobodyIsStranded`, `NothingOfTheInactiveIsOpen`, `ReinstatementIsExact`, `ReviewsAreSound`, `MarketIsTyped` (`MarketProofs`) | `MarketSpec`: booking handlers under the locks of `LockedSpec`, the others overlapping them and each other under `MarketLocked`, dying as `FailJob` has it, sessions on any account | all five properties of the run `Marketplace` |
| `RecordsSurviveTheMarket`, `HistoriesSurviveTheMarket`, `PagesSurviveTheMarket`, `EarningsSurviveTheMarket`, `MarketImplementsLifecycle` (`MarketProofs`) | the same | what holds of bookings and their pages under `LockedSpec` holds beside suspensions, deletions, removals, reviews and sessions; `MarketSpec` implies `BookingLifecycle` |

`OneHandlerIsApart` shows that the one-slot instances of `Payments_Concurrent` (bookings) and
`Payments_Serial` (both kinds) meet the two `Apart` conditions, and that handlers that keep the locks
change statuses apart: the locks a fix would take serve both.

Assumptions, all named in the modules: administrators are users; periods are nonempty and a day has at
least one tick; the catalogue is well-typed; `None` is no user, listing, booking, pidx, password,
session id, secret or caller; a secret is none of the marks of a request for one; notifications are
finitely many; limits and bounds of requests are positive; deviations are integers; thresholds and windows are positive.

*The invariant of `Bookings`.* None of the properties is inductive: they speak of documents, while the
danger sits in the slots. `BookingsInv` adds what a slot may still rely on after any number of other
steps (`SlotsInv`): the parties and amounts it read are still the stored ones (no handler changes them),
the status it read is *somewhere in the history* (histories only grow), the step it is about to save is
legal from that status, and an id about to be inserted is held by no other slot. From this a stale save
still writes a correct hash, since the hash depends on status and amounts only, and a justified history
entry, although not necessarily one that follows the last. `StepKeepsDocuments` shows this once for
`changeStatus`, `resolveDispute` and `applyVerifiedPayment`; `HandlerMoves` and `SlotKept` carry over
what the other slots hold; then there is one lemma per action.

*The invariant of `Payments`.* `PaymentsInv` says that stored fields, and fields held by a handler, may
belong to different attempts, but that every pidx in them was minted for that booking and every amount is
its exact amount (`FieldsOK`). A completed payment that matches such fields therefore settles the booking
(`MatchSettles`), however the fields were mixed; `OnlyPaymentsPay` shows that nothing else writes `paid`.
The refinement needs only that the guarded update acts on a stored booking.

*The invariant of `Accounts`.* `Fresh` states for each point of each handler what of its snapshot is still
true: for logins and second factors because nothing that changes it runs beside them (`Apart`), for the
rest *as long as the version is the one read*, which is what mongoose's filter checks before the save.
`Unborn` says that nothing refers to an account before it is registered, so that a registration disturbs
no handler; `CodesFit` that a code still stored was never used; `SessionsFit` that a session of an account
whose status or password has moved on has a handler about to destroy it. The lemmas named `...Effect`
state what each save changes; `CallsFitResumption` has one step per save and carries the others' snapshots
over with `FreshOutdated` (the version has moved on), `FreshStill` (nothing they rely on changed) or
`AloneFits` (nobody relies on anything).

*The invariant of the tracker* (`TrackerInv`, same module): the log of failed logins is in the order of the
clock; an address that reached `MAX_FAILURES` at its last failure is blocked for `BLOCK` from then, or that
block is over; a login past the guard has found no block, or dropped one that was over. The last conjunct is
what makes `!blockedUntil.has(ip)` in `recordFailure` harmless: an expired entry never keeps a new block from
being set, because only the guard leads to a new failure and it deletes the entry. `BlockedWhileHot` follows
since `WINDOW <= BLOCK`, and by `RecentIsTheFilter`: `Recent`, written as the end of the list, keeps exactly the
entries the filter keeps
when the log is in order. (`SelectSeq` would say the same, but is a recursive definition of which nothing can
be proved here without induction.)

*The invariants behind the locks.* `LockedInv` adds to `BookingsInv` what a lock buys a handler (`Timely`):
the status it is about to leave is the stored one, or the booking was paid since; the document it is about
to insert clashes with nothing, since nothing was inserted on that listing after its clash query; every
stored hash is missing or right (`HashesRight`), because even a payment between the two saves of
`createBooking` meets a booking that is not `approved`. Dates and alerts need no more. A status saved over
`paid` from a snapshot `approved` is a legal step from an earlier status, not from the stored one: for the
lifecycle, and for the totals, payments must wait too, and `CurrentInv` drops that exception (`UpToDate`).
The lemmas named `...Timely` treat the actions for the first, those
named `...Moves` for the second. A step of the
handlers is then a step of the lifecycle or changes no status (`OutwardIsLife`). `ViewProofs` needs one
more invariant, `PaidIsKnown`: `paid` is in the history of a booking exactly when its status counts as
earned.

*The invariants of `MoneyProofs`.* `OnceInv`: a handler that is about to save `approved` finds its booking
still `requested`, because a payment is applied only to an approved one and no other handler writes its
status in between (`ChangesApart`); so nothing leads from `paid` back to where it could be paid again.
`PairsInv`: pidx and amount are recorded and cleared together, in the document as in what a handler read,
so an alert is about the payment the amount belongs to; payment handlers keep that up however they
overlap. `MoneyInv`: every pidx whose URL was handed out is named by its
booking or dead at Khalti, and a payment handler holds the stored fields from reading them to the last step
that relies on them; a booking therefore has at most one live pidx, and a completed one is never
overwritten. `StepsAside` says what a step of one payment handler leaves to the others: the pidx of every
other booking, and, past its own last such step, of every booking.

*The invariant of `MarketSpec`.* `MarketInv` builds on `CurrentInv`. `MarketLocked` is an invariant because
it is asked for where handlers start and no later step adds to what a handler holds. `JobsInv` says what a
handler read or counted that still holds: no live booking has the listing about to be deleted or the account
about to be given up, the booking about to be reviewed is completed. `OpenInv` is the property *during* a
handler: an open listing has an active owner, or somebody is about to hide it (`Hiding`), or a request
reopened it. `ListingsInv` (`ListingFits`) adds to the property what hiding relies on: a listing that is open
was last asked to be, so that what is paused with the flag is again what was asked to be active. `DealsInv`
says that a live booking, and one about to be inserted, has its listing among its lender's (`Kept`): the
step that begins a booking is where the lock on counts is needed. `OrdersKeep` treats the booking
handlers, `HandlersBegin` the starts, and there is one lemma per step of the other handlers.

*The invariants of `Browser`*, one per concern. `FactorInv`: at most one request for a secret is under way
(StrictMode runs the effect twice, `didSetup` lets one ask), only while nothing is shown, and between two
requests the tab knows whether the factor is on, or was not told (`KnownInv`). `HeartsInv`: the oldest request
under way of a heart is the opposite of what is stored, the latest what is shown, each the opposite of the one
before (`HeartFits`), so that a heart whose requests are served in order agrees when they are over; and no
request is under way while the list loads or the user changes. `InboxInv`: what a query has read is not yet
out of date, or the tab counts as `skewed`; a notification being opened counts once. `DialogInv` says what an
outstanding answer may still change.

`TerminalIsFinal` is about the table alone: nobody can move a finished booking by a legal step.

*Only model-checked*: liveness (`EventuallyCaughtUp`), which the prover does not reach.

## 5. What the runs show

Under arbitrary overlap the *record* of a booking is right: no history entry is lost, each was a legal
step from an earlier status, status and history agree, hashes written by status changes are right, `paid`
is always earned. What overlap breaks is the *order*, because nothing guards a save on what was read:

* a stale status change overwrites a newer status (`Overlap_Status`): `paid` can become `cancelled`,
  `cancelled` `approved`. With two booking handlers in flight a stale approval can also follow `paid`,
  after which a repeated callback pays the same booking a second time, and an attempt started then may
  compare fields left by an earlier one and raise an alert for a correct payment: `PaidOnce` and
  `MismatchJustified` hold while no two handlers change one status at once, and the run has one booking handler;
* the sealing save of `createBooking` can restore the hash of `requested` after an approval: the booking is
  refused as tampered with from then on until its next status change (`NoFalseTamperAlert` in
  `Bookings_Concurrent` shows it);
* two requests for the same dates both pass the clash check (`Overlap_Dates`);
* two initiations both mint a pidx, and a payment through the one that is overwritten is never looked up
  (`OneLivePidx` in `Payments_Serial` with `Calls = {c1, c2}`);
* without any overlap of handlers, a booking can be cancelled while its payment is open at Khalti: the
  money is taken, against a comment (`Cancel_Money`), and the callback still answers `success`.

User documents fare better, because the saves that matter replace an array and so carry the version that
was read: a backup code or a reset link sent twice at once works once, and enabling the second factor from
two tabs leaves one batch of codes. Nothing in the source says that this is what makes it work: a change of
`passwordHistory` to a `$push`, or of the codes to single-element updates, would break it silently, and
the faults beside `ResetSave`, `VerifySpend` and `EnableSave` show that it would. `disable` with no code
left writes no array and is not versioned; a `setup` between two such disables loses its secret to the later one,
which is why two disables are kept apart in the model.

Two disagreements do not need overlapping writes: an administrator's removal of a listing is undone by
its owner's next `PATCH` with a status (`Removed_Listing`), and a login parked for its second factor is
neither found by a suspension nor asked for its status again (`Suspended_Login`).

Where the *code* is at fault and where a comment claims too much is in `PROJECT.json` (findings), with
the lines quoted. More was met while modelling, which no run of its own shows; the models contain the
behaviour, and the properties say where they except it:

* *hearts* (`blurred`): "Read + write the ref synchronously so concurrent toggles stay correct"
  (`src/frontend/src/context/FavoritesContext.jsx:46`, see also 21-22). Two toggles of one heart that both fail
  end with the heart the wrong way round: the first revert is right, the second undoes it. Two requests of
  one heart that overtake each other on the way leave the favourite stored the other way round, and a request
  that was served and its answer lost is reverted on the page only;
* *second factor* (`unheard`): "an enabled authenticator is never silently re-provisioned"
  (`src/frontend/src/pages/MfaSetup.jsx:4-5`). If the answer to `enable` is lost the page takes the factor for
  off, and when it is mounted again before the user is reloaded, its set-up replaces the secret of a factor
  that is on (`controllers/mfa.controller.js:24` does not ask). `disable` with its answer lost leaves the
  console on offer to an administrator whom the server refuses;
* *visibility* (`overruled`): reinstatement restores "exactly what we hid and nothing the owner paused
  themselves" (`services/listingVisibility.service.js:5-7`, 20-21). An edit of the status
  (`controllers/listing.controller.js:119-121`) leaves `pausedByOwnerInactive` as it is: a hidden listing made
  active again, by an administrator or by a session that was parked before the suspension, and later paused
  by its owner, is un-paused by the next reinstatement;
* *inactive accounts* (`reopened`): no handler but `login` looks at the status of the account that asks. A
  session that began after the suspension (`Suspended_Login`) lists, re-activates and books as any other; a
  borrower who requested deletion can so be party to a new booking;
* *earnings* (`EarningsLimit`): "so paid-but-contested money stays visible (...) rather than silently
  disappearing from the lender's totals" (`controllers/booking.controller.js:141-143`) holds of a lender's
  latest 100 such bookings (148): beyond them the totals shrink with every new booking;
* *inbox* (`skewed`): list and count are two queries and the list is cut at 50
  (`controllers/notification.controller.js:9-13`), so "Mark all as read" may be offered with nothing unread in
  sight; a notification opened twice in quick succession is counted down twice;
* a crash between `resetPassword`'s save and its `destroyUserSessions` leaves the old sessions, one between
  `suspendUser`'s save and the hiding leaves the listings open;
* a wrong second-factor code is answered 401, so the interceptor (`src/frontend/src/api/client.js:34`)
  throws the tab to `/login` before the page's own message is read;
* the row of a removed listing in "My listings" leads to 404; "Pay now" is offered, and answered 409, while a
  payment recorded for the booking is completed or under review (`controllers/payment.controller.js:104`,
  115); `PaymentCallback`'s text for `failed` says nothing was charged also after a mismatch.

## 6. Not modelled

CSRF (a stateless comparison), cryptographic wrappers (library calls), the activity log (write-only), the
rate limiter (a library's counter) and the CAPTCHA (one more thing a request must bring, and can), routing,
validation and logging (stateless; what validation admits shapes the inputs), profile edits, the data export and the e-mail
verification gate (single reads or writes nothing modelled depends on), rendering, the bell's counter and the filters of
Browse (each page load overwrites them), the maintenance scripts (run by hand).

## 7. Plan

Done: bookings, payments, marketplace, accounts, the client's tab, and proofs of all of them. To do, most
important first:

1. Payments, liveness: an initiation that runs to its end leaves the borrower with a payment that can be
   made, or the booking paid.
2. The bell's counter and Browse with late answers.
