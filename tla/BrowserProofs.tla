---------------------------- MODULE BrowserProofs ----------------------------
(***************************************************************************)
(* What is proved of the tab: for any listings, notifications, secrets and *)
(* pages that ask, its hearts, its unread count, its dialog and the page   *)
(* of the second factor agree with the server, however late requests are   *)
(* answered and wherever the session ends.                                 *)
(***************************************************************************)
EXTENDS BrowserProperties, FiniteSetTheorems, TLAPS

-----------------------------------------------------------------------------
(* The confirmation dialog                                                 *)

DialogInv ==
    /\ dialog = resolver /\ dialog \in Callers \cup {None}
    /\ caller \in [Callers -> {"idle", "waiting", "acting"}]
    /\ \A c \in Callers : caller[c] = "waiting" <=> c = dialog

LEMMA DialogStep ==
    ASSUME DialogInv, [BrowserNext]_browserVars
    PROVE  DialogInv'
<1>1. CASE UNCHANGED ask
  BY <1>1 DEF DialogInv, ask
<1>2. ASSUME NEW to \in {"home", "login"}, Reload(to)
      PROVE  DialogInv'
  BY <1>2, BrowserAssumption DEF DialogInv, Reload
<1>3. ASSUME NEW c \in Callers, Confirm(c)
      PROVE  DialogInv'
  BY <1>3 DEF DialogInv, Confirm
<1>4. ASSUME NEW c \in Callers, Acted(c)
      PROVE  DialogInv'
  BY <1>4 DEF DialogInv, Acted
<1>5. ASSUME NEW result \in BOOLEAN, Settle(result)
      PROVE  DialogInv'
  BY <1>5, BrowserAssumption DEF DialogInv, Settle
<1> QED
  BY <1>1, <1>2, <1>3, <1>4, <1>5
     DEF BrowserNext, browserVars, ask, Login, CompleteMfa, Refreshed, Logout,
         SessionEnds, SetupServed, SetupAnswered, Enable, Disable, FactorAnswered,
         HeartsAnswered, ToggleFavorite, ToggleServed, ToggleFails, ToggleAnswered,
         Navigate, FindNotes, CountUnread, InboxLoaded, NoteOpened, ReadAll,
         EverythingRead, Arrives, OpenNote

LEMMA DialogInit ==
    ASSUME BrowserInit
    PROVE  DialogInv
  BY BrowserAssumption DEF BrowserInit, DialogInv

\* A caller waits exactly while its own question is shown, so every answer goes
\* to the one who asked, however dialogs replace each other (ConfirmContext).
THEOREM AnswersReachTheirCaller == BrowserSpec => []DialogOfItsCaller
<1>1. BrowserInit => DialogInv
  BY DialogInit
<1>2. DialogInv => DialogOfItsCaller
  BY DEF DialogInv, DialogOfItsCaller
<1> QED
  BY <1>1, <1>2, DialogStep, PTL DEF BrowserSpec

-----------------------------------------------------------------------------
(* The notification centre                                                 *)

Unread(list) == {n \in Notes : list[n] = "unread"}

\* While the list is loaded, the page is empty; what the first query found stays
\* true until the second, or the load is skewed.
LoadInv ==
    /\ inbox.load # "no" =>
          /\ items = Nothing /\ unread = 0 /\ ~inbox.readAll
          /\ \A n \in Notes : inbox.opens[n] = 0
    /\ inbox.load \in {"found", "both"} => Unread(inbox.list) \subseteq Unread(stored)
    /\ ~skewed =>
          /\ inbox.load = "found"   => inbox.list = stored
          /\ inbox.load = "counted" => inbox.count = Cardinality(Unread(stored))
          /\ inbox.load = "both"    => inbox.count = Cardinality(Unread(inbox.list))

\* A notification being opened still counts, once, until 'read all' is answered.
CountInv ==
    ~skewed =>
       /\ unread = Cardinality(Unread(items))
       /\ \A n \in Notes : inbox.opens[n] > 0 =>
             unread = 0 \/ (items[n] = "unread" /\ inbox.opens[n] = 1)

ListInv ==
    \A n \in Notes :
       items[n] = "unread" /\ inbox.opens[n] = 0 /\ ~inbox.readAll => stored[n] = "unread"

InboxTyped ==
    /\ items \in [Notes -> {"absent", "unread", "read"}]
    /\ stored \in [Notes -> {"absent", "unread", "read"}]
    /\ inbox \in Inboxes
    /\ unread \in 0..Cardinality(Notes)
    /\ skewed \in BOOLEAN

InboxInv == InboxTyped /\ LoadInv /\ CountInv /\ ListInv

LEMMA NotesCounted == Cardinality(Notes) \in Nat
  BY BrowserAssumption, FS_CardinalityType

LEMMA UnreadFits ==
    ASSUME NEW list
    PROVE  /\ IsFiniteSet(Unread(list))
           /\ Cardinality(Unread(list)) \in 0..Cardinality(Notes)
<1>1. Unread(list) \subseteq Notes
  BY DEF Unread
<1> QED
  BY <1>1, BrowserAssumption, FS_Subset, FS_CardinalityType

LEMMA NothingUnread ==
    /\ Unread(Nothing) = {} /\ Cardinality(Unread(Nothing)) = 0
    /\ Nothing \in [Notes -> {"absent", "unread", "read"}]
    /\ NoInbox \in Inboxes /\ NoInbox.load = "no" /\ ~NoInbox.readAll
    /\ \A n \in Notes : NoInbox.opens[n] = 0
<1>1. Unread(Nothing) = {}
  BY DEF Unread, Nothing
<1>2. 0 \in 0..Cardinality(Notes)
  BY NotesCounted
<1>3. Nothing \in [Notes -> {"absent", "unread", "read"}]
  BY DEF Nothing
<1> QED
  BY <1>1, <1>2, <1>3, FS_EmptySet DEF NoInbox, Inboxes

\* The page is shown anew, or its load came to nothing.
LEMMA EmptyPage ==
    ASSUME InboxInv, stored' = stored, items' = Nothing, unread' = 0, skewed' = FALSE,
           inbox' \in Inboxes, inbox'.load \in {"no", "asked"}, ~inbox'.readAll,
           \A n \in Notes : inbox'.opens[n] = 0
    PROVE  InboxInv'
<1>1. InboxTyped'
  BY NothingUnread, UnreadFits DEF InboxInv, InboxTyped
<1>2. Cardinality(Unread(items)') = 0
  BY NothingUnread DEF Unread
<1>3. CountInv' /\ LoadInv'
  BY <1>2 DEF CountInv, LoadInv
<1>4. ListInv'
  BY NothingUnread DEF ListInv, Unread
<1> QED
  BY <1>1, <1>3, <1>4 DEF InboxInv

LEMMA ShowEmpties ==
    ASSUME InboxInv, NEW to, NEW user, NEW on, Show(to, user, on), UNCHANGED stored
    PROVE  InboxInv'
<1> DEFINE no == NoInbox
<1>1. no \in Inboxes /\ no.load = "no" /\ ~no.readAll /\ \A n \in Notes : no.opens[n] = 0
  BY NothingUnread
<1>2. /\ items' = Nothing /\ unread' = 0 /\ skewed' = FALSE
      /\ inbox' = no \/ inbox' = [no EXCEPT !.load = "asked"]
  BY DEF Show
<1> HIDE DEF no
<1>3. /\ inbox' \in Inboxes /\ inbox'.load \in {"no", "asked"} /\ ~inbox'.readAll
      /\ \A n \in Notes : inbox'.opens[n] = 0
  BY <1>1, <1>2 DEF Inboxes
<1> QED
  BY <1>2, <1>3, EmptyPage

LEMMA ListedFits ==
    ASSUME InboxTyped, NEW list \in Listed
    PROVE  /\ list \in [Notes -> {"absent", "unread", "read"}]
           /\ Unread(list) \subseteq Unread(stored)
<1>1. list = stored \/ \E latest : list = [n \in Notes |-> IF n \in latest THEN stored[n] ELSE "absent"]
  BY DEF Listed
<1> QED
  BY <1>1 DEF InboxTyped, Unread

LEMMA LoadStep ==
    ASSUME InboxInv, FindNotes \/ CountUnread
    PROVE  InboxInv'
<1>1. /\ items = Nothing /\ unread = 0 /\ ~inbox.readAll
      /\ \A n \in Notes : inbox.opens[n] = 0
      /\ inbox \in Inboxes /\ skewed \in BOOLEAN
      /\ UNCHANGED <<stored, items, unread>>
  BY DEF FindNotes, CountUnread, InboxInv, InboxTyped, LoadInv
<1>2. CASE FindNotes
  <2>1. PICK list \in Listed :
           /\ inbox' = [inbox EXCEPT !.list = list,
                                     !.load = IF @ = "asked" THEN "found" ELSE "both"]
           /\ skewed' = (skewed \/ list # stored)
    BY <1>2 DEF FindNotes
  <2>2. /\ list \in [Notes -> {"absent", "unread", "read"}]
        /\ Unread(list) \subseteq Unread(stored)
    BY ListedFits DEF InboxInv
  <2>3. /\ inbox' \in Inboxes /\ inbox'.list = list /\ inbox'.count = inbox.count
        /\ inbox'.readAll = inbox.readAll /\ inbox'.opens = inbox.opens
        /\ inbox'.load = IF inbox.load = "asked" THEN "found" ELSE "both"
    BY <1>1, <2>1, <2>2 DEF Inboxes
  <2>4. inbox.load \in {"asked", "counted"}
    BY <1>2 DEF FindNotes
  <2>5. skewed' \in BOOLEAN /\ (~skewed' => ~skewed /\ list = stored)
    BY <1>1, <2>1
  <2>6. LoadInv'
    BY <1>1, <2>2, <2>3, <2>4, <2>5 DEF InboxInv, LoadInv, Unread
  <2>7. InboxTyped' /\ ListInv'
    BY <1>1, <2>3, <2>5 DEF InboxInv, InboxTyped, ListInv
  <2>8. CountInv'
    BY <1>1, <2>3, <2>5 DEF InboxInv, CountInv, Unread
  <2> QED
    BY <2>6, <2>7, <2>8 DEF InboxInv
<1>3. CASE CountUnread
  <2> DEFINE k == Cardinality(Unread(stored))
  <2>1. /\ inbox' = [inbox EXCEPT !.count = k,
                                  !.load = IF @ = "asked" THEN "counted" ELSE "both"]
        /\ inbox.load \in {"asked", "found"} /\ UNCHANGED skewed
    BY <1>3 DEF CountUnread, Unread
  <2>2. k \in 0..Cardinality(Notes)
    BY UnreadFits
  <2> HIDE DEF k
  <2>3. /\ inbox' \in Inboxes /\ inbox'.list = inbox.list /\ inbox'.count = k
        /\ inbox'.readAll = inbox.readAll /\ inbox'.opens = inbox.opens
        /\ inbox'.load = IF inbox.load = "asked" THEN "counted" ELSE "both"
    BY <1>1, <2>1, <2>2 DEF Inboxes
  <2>4. LoadInv'
    BY <1>1, <2>1, <2>3 DEF InboxInv, LoadInv, Unread, k
  <2>5. InboxTyped' /\ ListInv'
    BY <1>1, <2>1, <2>3 DEF InboxInv, InboxTyped, ListInv
  <2>6. CountInv'
    BY <1>1, <2>1, <2>3 DEF InboxInv, CountInv, Unread
  <2> QED
    BY <2>4, <2>5, <2>6 DEF InboxInv
<1> QED
  BY <1>2, <1>3

LEMMA LoadedStep ==
    ASSUME InboxInv, InboxLoaded
    PROVE  InboxInv'
<1>1. /\ inbox.load # "no" /\ inbox' = NoInbox /\ UNCHANGED stored
      /\ items = Nothing /\ unread = 0
  BY DEF InboxLoaded, InboxInv, LoadInv
<1>2. CASE UNCHANGED <<items, unread>> /\ skewed' = FALSE
  BY <1>1, <1>2, NothingUnread, EmptyPage
<1>3. CASE inbox.load = "both" /\ items' = inbox.list /\ unread' = inbox.count
           /\ UNCHANGED skewed
  <2>1. InboxTyped'
    BY <1>1, <1>3, NothingUnread DEF InboxInv, InboxTyped, Inboxes
  <2>2. LoadInv'
    BY <1>1, NothingUnread DEF LoadInv
  <2>3. CountInv'
    BY <1>1, <1>3, NothingUnread DEF InboxInv, LoadInv, CountInv, Unread
  <2>4. ListInv'
    BY <1>1, <1>3, NothingUnread DEF InboxInv, LoadInv, ListInv, Unread
  <2> QED
    BY <2>1, <2>2, <2>3, <2>4 DEF InboxInv
<1> QED
  BY <1>2, <1>3 DEF InboxLoaded

LEMMA OpenStep ==
    ASSUME InboxInv, NEW n \in Notes, OpenNote(n)
    PROVE  InboxInv'
<1>1. /\ inbox.load = "no" /\ items[n] = "unread"
      /\ inbox' = [inbox EXCEPT !.opens[n] = @ + 1]
      /\ skewed' = (skewed \/ inbox.opens[n] > 0)
      /\ UNCHANGED <<items, unread>>
  BY DEF OpenNote
<1>2. stored' = stored \/ stored' = [stored EXCEPT ![n] = "read"]
  BY DEF OpenNote, MarkRead
<1>3. /\ inbox' \in Inboxes /\ inbox'.load = "no" /\ inbox'.readAll = inbox.readAll
      /\ inbox'.opens = [inbox.opens EXCEPT ![n] = @ + 1]
      /\ inbox.opens \in [Notes -> Nat]
  BY <1>1 DEF InboxInv, InboxTyped, Inboxes
<1>4. InboxTyped' /\ LoadInv'
  BY <1>1, <1>2, <1>3 DEF InboxInv, InboxTyped, LoadInv
<1>5. CountInv'
  <2> SUFFICES ASSUME ~skewed'
               PROVE  /\ unread' = Cardinality(Unread(items)')
                      /\ \A m \in Notes : inbox'.opens[m] > 0 =>
                            unread' = 0 \/ (items'[m] = "unread" /\ inbox'.opens[m] = 1)
    BY DEF CountInv, Unread
  <2>1. ~skewed /\ inbox.opens[n] = 0
    <3>1. ~skewed /\ ~(inbox.opens[n] > 0)
      BY <1>1
    <3>2. inbox.opens[n] \in Nat
      BY <1>3
    <3> QED
      BY <3>1, <3>2
  <2>2. unread' = Cardinality(Unread(items)')
    BY <1>1, <2>1 DEF InboxInv, CountInv, Unread
  <2>3. ASSUME NEW m \in Notes, inbox'.opens[m] > 0
        PROVE  unread' = 0 \/ (items'[m] = "unread" /\ inbox'.opens[m] = 1)
    <3>1. CASE m = n
      BY <1>1, <1>3, <2>1, <3>1
    <3>2. CASE m # n
      <4>1. inbox'.opens[m] = inbox.opens[m]
        BY <1>3, <3>2
      <4> QED
        BY <1>1, <2>1, <2>3, <4>1 DEF InboxInv, CountInv
    <3> QED
      BY <3>1, <3>2
  <2> QED
    BY <2>2, <2>3
<1>6. ListInv'
  BY <1>1, <1>2, <1>3 DEF InboxInv, ListInv, InboxTyped
<1> QED
  BY <1>4, <1>5, <1>6 DEF InboxInv

LEMMA OpenedStep ==
    ASSUME InboxInv, NEW n \in Notes, NoteOpened(n)
    PROVE  InboxInv'
<1>1. /\ inbox.opens[n] > 0
      /\ items' = [items EXCEPT ![n] = "read"]
      /\ unread' = IF unread = 0 THEN 0 ELSE unread - 1
      /\ inbox' = [inbox EXCEPT !.opens[n] = @ - 1]
      /\ UNCHANGED <<stored, skewed>>
  BY DEF NoteOpened
<1>2. inbox.opens \in [Notes -> Nat] /\ inbox.load = "no"
  BY <1>1 DEF InboxInv, InboxTyped, LoadInv, Inboxes
<1>3. inbox.opens[n] \in Nat \ {0} /\ inbox.opens[n] - 1 \in Nat
  BY <1>1, <1>2
<1>4. /\ inbox' \in Inboxes /\ inbox'.load = "no" /\ inbox'.readAll = inbox.readAll
      /\ inbox'.opens = [inbox.opens EXCEPT ![n] = @ - 1]
  BY <1>1, <1>2, <1>3 DEF InboxInv, InboxTyped, Inboxes
<1>5. unread' \in 0..Cardinality(Notes)
  BY <1>1, NotesCounted DEF InboxInv, InboxTyped
<1>6. InboxTyped' /\ LoadInv'
  BY <1>1, <1>4, <1>5 DEF InboxInv, InboxTyped, LoadInv
<1>7. Unread(items)' = Unread(items) \ {n}
  BY <1>1 DEF InboxInv, InboxTyped, Unread
<1>8. CountInv'
  <2> SUFFICES ASSUME ~skewed
               PROVE  /\ unread' = Cardinality(Unread(items)')
                      /\ \A m \in Notes : inbox'.opens[m] > 0 =>
                            unread' = 0 \/ (items'[m] = "unread" /\ inbox'.opens[m] = 1)
    BY <1>1 DEF CountInv, Unread
  <2>1. /\ unread = Cardinality(Unread(items))
        /\ \A m \in Notes : inbox.opens[m] > 0 =>
              unread = 0 \/ (items[m] = "unread" /\ inbox.opens[m] = 1)
    BY DEF InboxInv, CountInv
  <2>2. CASE unread = 0
    <3>1. Unread(items) = {}
      BY <2>1, <2>2, UnreadFits, FS_EmptySet
    <3>2. Cardinality(Unread(items)') = 0
      BY <1>7, <3>1, FS_EmptySet
    <3> QED
      BY <1>1, <2>2, <3>2
  <2>3. CASE unread # 0
    <3>1. n \in Unread(items) /\ inbox.opens[n] = 1
      BY <1>1, <2>1, <2>3 DEF Unread
    <3>2. Cardinality(Unread(items) \ {n}) = Cardinality(Unread(items)) - 1
      BY <3>1, UnreadFits, FS_RemoveElement
    <3>3. unread' = Cardinality(Unread(items)')
      BY <1>1, <1>7, <2>1, <2>3, <3>2
    <3>4. ASSUME NEW m \in Notes, inbox'.opens[m] > 0
          PROVE  items'[m] = "unread" /\ inbox'.opens[m] = 1
      <4>1. m # n
        BY <1>2, <1>4, <3>1, <3>4
      <4>2. inbox'.opens[m] = inbox.opens[m] /\ items'[m] = items[m]
        BY <1>1, <1>2, <1>4, <4>1 DEF InboxInv, InboxTyped
      <4> QED
        BY <2>1, <2>3, <3>4, <4>2
    <3> QED
      BY <3>3, <3>4
  <2> QED
    BY <2>2, <2>3
<1>9. ListInv'
  BY <1>1, <1>2, <1>4 DEF InboxInv, ListInv, InboxTyped
<1> QED
  BY <1>6, <1>8, <1>9 DEF InboxInv

LEMMA ReadAllStep ==
    ASSUME InboxInv, ReadAll \/ EverythingRead
    PROVE  InboxInv'
<1>1. CASE ReadAll
  <2>1. /\ inbox' = [inbox EXCEPT !.readAll = TRUE] /\ inbox.load = "no"
        /\ UNCHANGED <<items, unread, skewed>>
    BY <1>1 DEF ReadAll
  <2>2. stored' \in [Notes -> {"absent", "unread", "read"}]
    BY <1>1 DEF ReadAll, MarkAllRead, AllRead, InboxInv, InboxTyped
  <2>3. /\ inbox' \in Inboxes /\ inbox'.load = "no" /\ inbox'.readAll
        /\ inbox'.opens = inbox.opens
    BY <2>1 DEF InboxInv, InboxTyped, Inboxes
  <2> QED
    BY <2>1, <2>2, <2>3 DEF InboxInv, InboxTyped, LoadInv, CountInv, ListInv, Unread
<1>2. CASE EverythingRead
  <2>1. /\ inbox.readAll /\ items' = AllRead(items) /\ unread' = 0 /\ skewed' = FALSE
        /\ inbox' = [inbox EXCEPT !.readAll = FALSE] /\ UNCHANGED stored
    BY <1>2 DEF EverythingRead
  <2>2. inbox.load = "no"
    BY <2>1 DEF InboxInv, LoadInv
  <2>3. /\ inbox' \in Inboxes /\ inbox'.load = "no"
    BY <2>1, <2>2 DEF InboxInv, InboxTyped, Inboxes
  <2>4. /\ items' \in [Notes -> {"absent", "unread", "read"}]
        /\ Unread(items)' = {}
    BY <2>1 DEF InboxInv, InboxTyped, AllRead, Unread
  <2>5. 0 \in 0..Cardinality(Notes) /\ Cardinality(Unread(items)') = 0
    BY <2>4, FS_EmptySet, UnreadFits
  <2>6. InboxTyped' /\ LoadInv'
    BY <2>1, <2>3, <2>4, <2>5 DEF InboxInv, InboxTyped, LoadInv
  <2>7. CountInv' /\ ListInv'
    BY <2>1, <2>4, <2>5 DEF CountInv, ListInv, Unread
  <2> QED
    BY <2>6, <2>7 DEF InboxInv
<1> QED
  BY <1>1, <1>2

LEMMA InboxStep ==
    ASSUME InboxInv, [BrowserNext]_browserVars
    PROVE  InboxInv'
<1>1. CASE UNCHANGED notes
  BY <1>1 DEF InboxInv, InboxTyped, LoadInv, CountInv, ListInv, notes, Unread
<1>2. ASSUME NEW to, NEW user, NEW on, Show(to, user, on), UNCHANGED stored
      PROVE  InboxInv'
  BY <1>2, ShowEmpties
<1>3. CASE Refreshed
  <2>1. \/ \E to, user, on : Show(to, user, on)
        \/ UNCHANGED <<items, unread, inbox, skewed>>
    BY <1>3 DEF Refreshed
  <2>2. UNCHANGED stored
    BY <1>3 DEF Refreshed
  <2> QED
    BY <1>1, <1>2, <2>1, <2>2 DEF notes
<1>4. CASE Login
  BY <1>1, <1>2, <1>4 DEF Login, notes
<1>5. CASE Logout
  BY <1>2, <1>5 DEF Logout
<1>6. ASSUME NEW to, Reload(to)
      PROVE  InboxInv'
  BY <1>2, <1>6 DEF Reload
<1>7. ASSUME NEW to, Navigate(to)
      PROVE  InboxInv'
  BY <1>2, <1>7 DEF Navigate
<1>8. ASSUME NEW n \in Notes, Arrives(n)
      PROVE  InboxInv'
  <2>1. /\ stored[n] = "absent" /\ stored' = [stored EXCEPT ![n] = "unread"]
        /\ skewed' = (skewed \/ inbox.load \in {"found", "counted"})
        /\ UNCHANGED <<items, unread, inbox>>
    BY <1>8 DEF Arrives
  <2>2. Unread(stored) \subseteq Unread(stored)'
    BY <2>1 DEF InboxInv, InboxTyped, Unread
  <2>3. InboxTyped' /\ ListInv'
    BY <2>1 DEF InboxInv, InboxTyped, ListInv
  <2>4. LoadInv' /\ CountInv'
    BY <2>1, <2>2 DEF InboxInv, InboxTyped, LoadInv, CountInv, Unread
  <2> QED
    BY <2>3, <2>4 DEF InboxInv
<1> QED
  BY <1>1, <1>3, <1>4, <1>5, <1>6, <1>7, <1>8,
     LoadStep, LoadedStep, OpenStep, OpenedStep, ReadAllStep
     DEF BrowserNext, browserVars, notes, CompleteMfa, SessionEnds, SetupServed,
         SetupAnswered, Enable, Disable, FactorAnswered, HeartsAnswered,
         ToggleFavorite, ToggleServed, ToggleFails, ToggleAnswered, Confirm, Acted, Settle

LEMMA InboxInit ==
    ASSUME BrowserInit
    PROVE  InboxInv
<1>1. /\ items = Nothing /\ unread = 0 /\ inbox = NoInbox /\ skewed = FALSE
      /\ stored \in [Notes -> {"absent", "unread"}]
  BY DEF BrowserInit
<1>2. stored \in [Notes -> {"absent", "unread", "read"}] /\ 0 \in 0..Cardinality(Notes)
  BY <1>1, NotesCounted
<1> QED
  BY <1>1, <1>2, NothingUnread DEF InboxInv, InboxTyped, LoadInv, CountInv, ListInv, Unread

\* The count over the list is that of the unread items in it, whatever the page
\* limit, but after a load that notifications or the limit skewed or a notification
\* opened twice; and none listed as unread, with nothing asked about it, was read
\* at the server, whichever answers fail (Notifications.open, readAll).
THEOREM UnreadIsCounted == BrowserSpec => []UnreadCounted
<1>1. BrowserInit => InboxInv
  BY InboxInit
<1>2. InboxInv => UnreadCounted
  BY DEF InboxInv, CountInv, ListInv, UnreadCounted, Unread
<1> QED
  BY <1>1, <1>2, InboxStep, PTL DEF BrowserSpec

-----------------------------------------------------------------------------
(* The page of the second factor                                           *)

\* At most one secret is asked for, StrictMode or not, and only while nothing is
\* shown and the tab believes the factor is off; the one shown is the one stored
\* until the codes are.
EnrolmentInv ==
    /\ enrolment \in [didSetup: BOOLEAN, secret: Secrets \cup {None}, codes: BOOLEAN,
                      awaits: {"nothing", "enabled", "disabled", "failure"}]
    /\ mfa \in [enabled: BOOLEAN, secret: Secrets \cup {None}]
    /\ setups # <<>> \/ enrolment.secret # None \/ enrolment.codes => enrolment.didSetup
    /\ enrolment.secret # None => page = "mfa setup"
    /\ enrolment.secret # None /\ ~enrolment.codes =>
          /\ mfa.secret = enrolment.secret
          /\ mfa.enabled => enrolment.awaits = "enabled" \/ unheard
          /\ ~enabled /\ probing = "no"
    /\ enrolment.awaits # "nothing" => page = "mfa setup" /\ probing = "no"
    /\ enrolment.awaits = "enabled" => mfa.enabled /\ enrolment.secret # None
    /\ enrolment.awaits = "disabled" => enrolment.secret = None

AskedInv ==
    \/ setups = <<>>
    \/ /\ \/ setups = <<"failed">>
          \/ setups = <<"asked">> /\ (mfa.enabled => unheard)
          \/ /\ mfa.secret \in Secrets /\ (mfa.enabled => unheard)
             /\ setups = <<mfa.secret>>
       /\ page = "mfa setup" /\ ~enabled /\ probing = "no"
       /\ enrolment.secret = None /\ ~enrolment.codes /\ enrolment.awaits = "nothing"

\* Between two requests the tab knows whether the factor is on, unless it was not
\* told.
KnownInv ==
    /\ {signedIn, enabled, unheard} \subseteq BOOLEAN
    /\ /\ probing = "no" /\ enrolment.awaits \in {"nothing", "failure"}
       /\ signedIn /\ ~unheard
       => enabled = mfa.enabled
    /\ page = "admin" /\ probing = "no" => signedIn /\ enabled

FactorInv == EnrolmentInv /\ AskedInv /\ KnownInv

\* The ref lets only one of the two runs of the effect ask.
LEMMA OneAsk ==
    ASSUME NEW user \in BOOLEAN, NEW on \in BOOLEAN
    PROVE  /\ Provision(user, on, FALSE) \o Provision(user, on, user /\ ~on) =
                  IF user /\ ~on THEN <<"asked">> ELSE <<>>
           /\ Provision(user, on, TRUE) = <<>>
  BY DEF Provision

LEMMA ShowsFactor ==
    ASSUME NEW to \in Pages, NEW user \in BOOLEAN, NEW on \in BOOLEAN, Show(to, user, on)
    PROVE  LET asks == to = "mfa setup" /\ user /\ ~on
           IN  /\ page' = to
               /\ enrolment' = [didSetup |-> asks, secret |-> None, codes |-> FALSE,
                                awaits |-> "nothing"]
               /\ setups' = IF asks THEN <<"asked">> ELSE <<>>
<1> DEFINE asks == to = "mfa setup" /\ user /\ ~on
<1>1. enrolment' = [Unmounted EXCEPT !.didSetup = asks]
  BY DEF Show
<1>2. enrolment' = [didSetup |-> asks, secret |-> None, codes |-> FALSE, awaits |-> "nothing"]
  BY <1>1 DEF Unmounted
<1>3. page' = to
  BY DEF Show
<1>4. setups' = IF asks THEN <<"asked">> ELSE <<>>
  <2>1. CASE to = "mfa setup"
    BY <2>1, OneAsk DEF Show
  <2>2. CASE to # "mfa setup"
    BY <2>2 DEF Show
  <2> QED
    BY <2>1, <2>2
<1> QED
  BY <1>2, <1>3, <1>4

\* A page is mounted by someone who knows whether the factor is on, or was not
\* told; the set-up is not shown while the tab asks who is signed in.
LEMMA ShowKeepsFactor ==
    ASSUME FactorInv, NEW to \in Pages, NEW user \in BOOLEAN, NEW on \in BOOLEAN,
           Show(to, user, on), UNCHANGED mfa, enabled' = on,
           user /\ ~unheard' => on = mfa.enabled,
           to = "mfa setup" => probing' = "no"
    PROVE  /\ EnrolmentInv' /\ AskedInv'
           /\ page' = to /\ enrolment'.awaits = "nothing"
<1> DEFINE asks == to = "mfa setup" /\ user /\ ~on
<1>1. /\ page' = to
      /\ enrolment' = [didSetup |-> asks, secret |-> None, codes |-> FALSE,
                       awaits |-> "nothing"]
      /\ setups' = IF asks THEN <<"asked">> ELSE <<>>
  BY ShowsFactor
<1>2. asks => /\ page' = "mfa setup" /\ (mfa'.enabled => unheard')
              /\ ~enabled' /\ probing' = "no"
  BY <1>1 DEF FactorInv, EnrolmentInv
<1>3. /\ enrolment'.didSetup = asks /\ enrolment'.secret = None
      /\ enrolment'.codes = FALSE /\ enrolment'.awaits = "nothing"
  BY <1>1
<1>4. enrolment' \in [didSetup: BOOLEAN, secret: Secrets \cup {None}, codes: BOOLEAN,
                      awaits: {"nothing", "enabled", "disabled", "failure"}]
  BY <1>1
<1>5. asks \in BOOLEAN
  OBVIOUS
<1> HIDE DEF asks
<1>6. EnrolmentInv'
  <2>1. setups' # <<>> => enrolment'.didSetup
    BY <1>1, <1>3
  <2> QED
    BY <1>3, <1>4, <2>1 DEF FactorInv, EnrolmentInv
<1>7. AskedInv'
  <2>1. CASE asks
    BY <1>1, <1>2, <1>3, <2>1 DEF AskedInv
  <2>2. CASE ~asks
    BY <1>1, <2>2 DEF AskedInv
  <2> QED
    BY <2>1, <2>2
<1> QED
  BY <1>1, <1>3, <1>6, <1>7

LEMMA ShortSequences ==
    ASSUME NEW x, NEW y
    PROVE  /\ <<>> \o <<>> = <<>>
           /\ <<x>> \o <<>> = <<x>>
           /\ <<>> \o <<x>> = <<x>>
           /\ DOMAIN <<x>> = {1}
           /\ [<<x>> EXCEPT ![1] = y] = <<y>>
  OBVIOUS

\* A request for a secret is the only one.
LEMMA SoleRequest ==
    ASSUME AskedInv, NEW i \in DOMAIN setups
    PROVE  i = 1 /\ setups = <<setups[1]>>
<1>1. CASE setups = <<>>
  BY <1>1
<1>2. CASE \E x : setups = <<x>>
  BY <1>2, ShortSequences
<1> QED
  BY <1>1, <1>2 DEF AskedInv

LEMMA FactorUntouched ==
    ASSUME FactorInv,
           UNCHANGED <<enrolment, setups, mfa, page, signedIn, enabled, probing, unheard>>
    PROVE  FactorInv'
  BY DEF FactorInv, EnrolmentInv, AskedInv, KnownInv

LEMMA RefreshedKeepsFactor ==
    ASSUME FactorInv, page \in Pages, Refreshed
    PROVE  FactorInv'
<1>1. PICK user \in {session = "full", FALSE} :
          LET on == user /\ mfa.enabled
              to == Routed(IF probing = "login" THEN "admin" ELSE page, user, on)
          IN  /\ signedIn' = user /\ enabled' = on
              /\ IF to # page THEN Show(to, user, on)
                 ELSE /\ LET more == IF page = "mfa setup"
                                     THEN Provision(user, on, enrolment.didSetup) ELSE <<>>
                         IN  /\ setups' = setups \o more
                             /\ enrolment' = [enrolment EXCEPT !.didSetup = @ \/ more # <<>>]
                      /\ UNCHANGED page
  BY DEF Refreshed
<1> DEFINE on == user /\ mfa.enabled
           to == Routed(IF probing = "login" THEN "admin" ELSE page, user, on)
           more == IF page = "mfa setup"
                   THEN Provision(user, on, enrolment.didSetup) ELSE <<>>
<1>2. user \in BOOLEAN /\ on \in BOOLEAN
  BY DEF FactorInv, EnrolmentInv
<1>3. /\ probing # "no" /\ probing' = "no" /\ UNCHANGED mfa /\ unheard' = FALSE
      /\ signedIn' = user /\ enabled' = on
  BY <1>1 DEF Refreshed
<1>4. user => on = mfa.enabled
  BY DEF FactorInv, EnrolmentInv
<1>5. to \in Pages /\ (to = "admin" => user /\ on)
  BY <1>2 DEF Routed, Pages, Public
<1>6. /\ enrolment.awaits = "nothing" /\ setups = <<>>
      /\ enrolment.secret = None \/ enrolment.codes
  BY <1>3 DEF FactorInv, EnrolmentInv, AskedInv
<1>7. EnrolmentInv' /\ AskedInv' /\ page' = to /\ enrolment'.awaits = "nothing"
  <2>1. CASE to # page
    <3>1. Show(to, user, on)
      BY <1>1, <2>1
    <3> QED
      BY <1>2, <1>3, <1>4, <1>5, <3>1, ShowKeepsFactor
  <2>2. CASE to = page
    <3>1. /\ setups' = setups \o more
          /\ enrolment' = [enrolment EXCEPT !.didSetup = @ \/ more # <<>>]
          /\ UNCHANGED page
      BY <1>1, <2>2
    <3>2. CASE more = <<>>
      <4>1. setups' = <<>>
        BY <1>6, <3>1, <3>2, ShortSequences
      <4>2. enrolment' = enrolment
        BY <3>1, <3>2 DEF FactorInv, EnrolmentInv
      <4> QED
        BY <1>3, <1>6, <2>2, <3>1, <4>1, <4>2 DEF FactorInv, EnrolmentInv, AskedInv
    <3>3. CASE more # <<>>
      <4>1. /\ page = "mfa setup" /\ more = <<"asked">>
            /\ user /\ ~on /\ ~enrolment.didSetup
        BY <3>3 DEF Provision
      <4>2. enrolment.secret = None /\ ~enrolment.codes
        BY <4>1 DEF FactorInv, EnrolmentInv
      <4>3. setups' = <<"asked">>
        BY <1>6, <3>1, <4>1, ShortSequences
      <4>4. /\ enrolment' \in [didSetup: BOOLEAN, secret: Secrets \cup {None}, codes: BOOLEAN,
                               awaits: {"nothing", "enabled", "disabled", "failure"}]
            /\ enrolment'.didSetup /\ enrolment'.secret = None /\ ~enrolment'.codes
            /\ enrolment'.awaits = "nothing"
        BY <1>6, <3>1, <3>3, <4>2 DEF FactorInv, EnrolmentInv
      <4>5. ~mfa.enabled
        BY <4>1
      <4> QED
        BY <1>3, <2>2, <3>1, <4>1, <4>3, <4>4, <4>5 DEF FactorInv, EnrolmentInv, AskedInv
    <3> QED
      BY <3>2, <3>3
  <2> QED
    BY <2>1, <2>2
<1>8. KnownInv'
  BY <1>2, <1>3, <1>4, <1>5, <1>7 DEF KnownInv
<1> QED
  BY <1>7, <1>8 DEF FactorInv

LEMMA SetupKeepsFactor ==
    ASSUME FactorInv, NEW i \in DOMAIN setups, SetupServed(i) \/ SetupAnswered(i)
    PROVE  FactorInv'
<1> DEFINE x == setups[1]
<1>1. setups = <<x>> /\ i = 1
  BY SoleRequest DEF FactorInv
<1> HIDE DEF x
<1>2. CASE SetupServed(i)
  <2>1. /\ x = "asked" /\ (mfa.enabled => unheard) /\ page = "mfa setup"
        /\ ~enabled /\ probing = "no"
        /\ enrolment.secret = None /\ ~enrolment.codes /\ enrolment.awaits = "nothing"
        /\ UNCHANGED <<enrolment, page, signedIn, enabled, probing, unheard>>
    BY <1>1, <1>2, BrowserAssumption DEF SetupServed, FactorInv, AskedInv, auth
  <2>2. CASE setups' = [setups EXCEPT ![i] = "failed"] /\ UNCHANGED mfa
    <3>1. setups' = <<"failed">>
      BY <1>1, <2>2
    <3> QED
      BY <1>1, <2>1, <2>2, <3>1 DEF FactorInv, EnrolmentInv, AskedInv, KnownInv
  <2>3. ASSUME NEW fresh \in Secrets, NEW answer \in {fresh, "failed"},
               mfa' = [mfa EXCEPT !.secret = fresh],
               setups' = [setups EXCEPT ![i] = answer]
        PROVE  FactorInv'
    <3>2. /\ setups' = <<answer>>
          /\ mfa' \in [enabled: BOOLEAN, secret: Secrets \cup {None}]
          /\ mfa'.secret = fresh /\ mfa'.enabled = mfa.enabled
      <4>1. setups' = <<answer>>
        BY <1>1, <2>3, ShortSequences
      <4>2. mfa \in [enabled: BOOLEAN, secret: Secrets \cup {None}]
        BY DEF FactorInv, EnrolmentInv
      <4> QED
        BY <2>3, <4>1, <4>2
    <3>3. EnrolmentInv'
      BY <1>1, <2>1, <3>2 DEF FactorInv, EnrolmentInv
    <3>4. AskedInv'
      BY <2>1, <2>3, <3>2 DEF AskedInv
    <3>5. KnownInv'
      BY <2>1, <3>2 DEF FactorInv, KnownInv
    <3> QED
      BY <3>3, <3>4, <3>5 DEF FactorInv
  <2> QED
    BY <1>2, <2>2, <2>3 DEF SetupServed
<1>3. CASE SetupAnswered(i)
  <2>1. /\ x # "asked"
        /\ enrolment' = IF x = "failed" THEN [enrolment EXCEPT !.didSetup = FALSE]
                        ELSE [enrolment EXCEPT !.secret = x]
        /\ UNCHANGED <<mfa, page, signedIn, enabled, probing, unheard>>
    BY <1>1, <1>3 DEF SetupAnswered, auth
  <2>2. setups' = <<>>
    BY <1>1, <1>3 DEF SetupAnswered, RemoveAt
  <2>3. /\ enrolment.secret = None /\ ~enrolment.codes /\ enrolment.awaits = "nothing"
        /\ page = "mfa setup" /\ ~enabled /\ probing = "no"
    BY <1>1 DEF FactorInv, AskedInv
  <2>4. CASE x = "failed"
    <3>1. /\ enrolment' \in [didSetup: BOOLEAN, secret: Secrets \cup {None}, codes: BOOLEAN,
                             awaits: {"nothing", "enabled", "disabled", "failure"}]
          /\ enrolment'.secret = None /\ ~enrolment'.codes /\ enrolment'.awaits = "nothing"
      BY <2>1, <2>3, <2>4 DEF FactorInv, EnrolmentInv
    <3> QED
      BY <2>1, <2>2, <2>3, <3>1 DEF FactorInv, EnrolmentInv, AskedInv, KnownInv
  <2>5. CASE x # "failed"
    <3>1. x = mfa.secret /\ x \in Secrets /\ (mfa.enabled => unheard)
      BY <1>1, <2>1, <2>5 DEF FactorInv, AskedInv
    <3>2. enrolment.didSetup
      BY <1>1 DEF FactorInv, EnrolmentInv
    <3>3. /\ enrolment' \in [didSetup: BOOLEAN, secret: Secrets \cup {None}, codes: BOOLEAN,
                             awaits: {"nothing", "enabled", "disabled", "failure"}]
          /\ enrolment'.didSetup /\ enrolment'.secret = mfa.secret /\ ~enrolment'.codes
          /\ enrolment'.awaits = "nothing"
      BY <2>1, <2>3, <2>5, <3>1, <3>2 DEF FactorInv, EnrolmentInv
    <3> QED
      BY <2>1, <2>2, <2>3, <3>1, <3>3 DEF FactorInv, EnrolmentInv, AskedInv, KnownInv
  <2> QED
    BY <2>4, <2>5
<1> QED
  BY <1>2, <1>3

LEMMA FactorStep ==
    ASSUME FactorInv, page \in Pages, [BrowserNext]_browserVars
    PROVE  FactorInv' /\ page' \in Pages
<1>1. CASE UNCHANGED <<enrolment, setups, mfa, page, signedIn, enabled, probing, unheard>>
  BY <1>1, FactorUntouched
<1>2. CASE Refreshed
  BY <1>2, RefreshedKeepsFactor DEF Refreshed, Show, Routed, Pages, Public
<1>3. ASSUME NEW i \in DOMAIN setups, SetupServed(i) \/ SetupAnswered(i)
      PROVE  FactorInv' /\ page' \in Pages
  BY <1>3, SetupKeepsFactor DEF SetupServed, SetupAnswered
<1>4. CASE Login
  <2>1. CASE probing' = "login" /\ UNCHANGED <<page, enrolment, setups>>
    <3>1. /\ enrolment.awaits = "nothing" /\ setups = <<>> /\ page = "login"
          /\ UNCHANGED <<mfa, signedIn, enabled, unheard>>
      BY <1>4 DEF Login, Settled
    <3> QED
      BY <2>1, <3>1 DEF FactorInv, EnrolmentInv, AskedInv, KnownInv
  <2>2. CASE Show("login mfa", signedIn, enabled) /\ UNCHANGED probing
    <3>1. /\ UNCHANGED <<mfa, signedIn, enabled, unheard>> /\ probing = "no"
          /\ enrolment.awaits = "nothing"
      BY <1>4 DEF Login, Settled
    <3>2. /\ signedIn \in BOOLEAN /\ enabled \in BOOLEAN
          /\ signedIn /\ ~unheard => enabled = mfa.enabled
      BY <3>1 DEF FactorInv, KnownInv
    <3>3. "login mfa" \in Pages
      BY DEF Pages, Public
    <3>4. /\ EnrolmentInv' /\ AskedInv' /\ page' = "login mfa"
          /\ enrolment'.awaits = "nothing"
      BY <2>2, <3>1, <3>2, <3>3, ShowKeepsFactor
    <3> QED
      BY <2>2, <3>1, <3>2, <3>3, <3>4 DEF FactorInv, KnownInv
  <2> QED
    BY <1>4, <2>1, <2>2 DEF Login
<1>5. CASE CompleteMfa
  <2>1. /\ UNCHANGED <<mfa, signedIn, enabled, page, enrolment, setups, unheard>>
        /\ probing' = "login" /\ enrolment.awaits = "nothing"
        /\ setups = <<>> /\ page = "login mfa"
    BY <1>5 DEF CompleteMfa, Settled, factor
  <2> QED
    BY <2>1 DEF FactorInv, EnrolmentInv, AskedInv, KnownInv
<1>6. ASSUME NEW to \in {"home", "login"}, Show(to, FALSE, FALSE), UNCHANGED mfa,
             signedIn' = FALSE, enabled' = FALSE, unheard' = FALSE
      PROVE  FactorInv' /\ page' \in Pages
  <2>1. to \in Pages /\ to # "admin" /\ to # "mfa setup"
    BY DEF Pages, Public
  <2>2. EnrolmentInv' /\ AskedInv' /\ page' = to /\ enrolment'.awaits = "nothing"
    BY <1>6, <2>1, ShowKeepsFactor
  <2> QED
    BY <1>6, <2>1, <2>2 DEF FactorInv, KnownInv
<1>7. CASE Logout
  BY <1>6, <1>7 DEF Logout
<1>8. ASSUME NEW to \in {"home", "login"}, Reload(to)
      PROVE  FactorInv' /\ page' \in Pages
  BY <1>6, <1>8 DEF Reload
<1>9. ASSUME NEW to \in Pages, Navigate(to)
      PROVE  FactorInv' /\ page' \in Pages
  <2> DEFINE there == Routed(to, signedIn, enabled)
  <2>1. /\ UNCHANGED <<mfa, signedIn, enabled, probing, unheard>> /\ probing = "no"
        /\ enrolment.awaits = "nothing" /\ Show(there, signedIn, enabled)
    BY <1>9 DEF Navigate, Settled, auth
  <2>2. /\ signedIn \in BOOLEAN /\ enabled \in BOOLEAN
        /\ signedIn /\ ~unheard => enabled = mfa.enabled
    BY <2>1 DEF FactorInv, KnownInv
  <2>3. there \in Pages /\ (there = "admin" => signedIn /\ enabled)
    BY <2>2 DEF Routed, Pages, Public
  <2> HIDE DEF there
  <2>4. EnrolmentInv' /\ AskedInv' /\ page' = there /\ enrolment'.awaits = "nothing"
    BY <2>1, <2>2, <2>3, ShowKeepsFactor
  <2> QED
    BY <2>1, <2>2, <2>3, <2>4 DEF FactorInv, KnownInv
<1>10. CASE Enable
  <2>1. /\ page = "mfa setup" /\ ~enrolment.codes /\ enrolment.secret # None /\ ~enabled
        /\ setups = <<>> /\ probing = "no" /\ enrolment.awaits = "nothing"
        /\ UNCHANGED <<page, setups, signedIn, enabled, probing>>
    BY <1>10 DEF Enable, Enrolling, Settled, auth
  <2>2. PICK a \in {"enabled", "failure"} : enrolment' = [enrolment EXCEPT !.awaits = a]
    BY <1>10 DEF Enable, Asked
  <2>3. /\ enrolment' \in [didSetup: BOOLEAN, secret: Secrets \cup {None}, codes: BOOLEAN,
                           awaits: {"nothing", "enabled", "disabled", "failure"}]
        /\ enrolment'.didSetup = enrolment.didSetup
        /\ enrolment'.secret = enrolment.secret /\ ~enrolment'.codes
        /\ enrolment'.awaits = a
    BY <2>1, <2>2 DEF FactorInv, EnrolmentInv
  <2>4. \/ /\ mfa' = [mfa EXCEPT !.enabled = TRUE]
           /\ (a = "enabled" /\ UNCHANGED unheard) \/ unheard' = TRUE
        \/ a = "failure" /\ UNCHANGED <<mfa, unheard>>
    <3>1. enrolment'.awaits = "enabled" \/ enrolment'.awaits = "failure"
      BY <2>3
    <3>2. /\ enrolment' = [enrolment EXCEPT !.awaits = "enabled"] => enrolment'.awaits = "enabled"
          /\ enrolment' = [enrolment EXCEPT !.awaits = "failure"] => enrolment'.awaits = "failure"
      BY DEF FactorInv, EnrolmentInv
    <3> QED
      BY <1>10, <2>3, <3>2 DEF Enable, Asked
  <2>5. CASE /\ mfa' = [mfa EXCEPT !.enabled = TRUE]
             /\ (a = "enabled" /\ UNCHANGED unheard) \/ unheard' = TRUE
    <3>1. /\ mfa' \in [enabled: BOOLEAN, secret: Secrets \cup {None}]
          /\ mfa'.secret = mfa.secret /\ mfa'.enabled
      BY <2>5 DEF FactorInv, EnrolmentInv
    <3>2. EnrolmentInv' /\ AskedInv'
      BY <2>1, <2>3, <2>5, <3>1 DEF FactorInv, EnrolmentInv, AskedInv
    <3>3. KnownInv'
      BY <2>1, <2>3, <2>5 DEF FactorInv, KnownInv
    <3> QED
      BY <2>1, <3>2, <3>3 DEF FactorInv
  <2>6. CASE a = "failure" /\ UNCHANGED <<mfa, unheard>>
    BY <2>1, <2>3, <2>6 DEF FactorInv, EnrolmentInv, AskedInv, KnownInv
  <2> QED
    BY <2>4, <2>5, <2>6
<1>11. CASE Disable
  <2>1. /\ page = "mfa setup" /\ signedIn /\ enabled /\ ~enrolment.codes
        /\ setups = <<>> /\ probing = "no" /\ enrolment.awaits = "nothing"
        /\ UNCHANGED <<page, setups, signedIn, enabled, probing>>
    BY <1>11 DEF Disable, Settled, auth
  <2>2. enrolment.secret = None
    BY <2>1 DEF FactorInv, EnrolmentInv
  <2>3. \/ /\ enrolment' = [enrolment EXCEPT !.awaits = "disabled"]
           /\ mfa' = [enabled |-> FALSE, secret |-> None] /\ UNCHANGED unheard
        \/ /\ enrolment' = [enrolment EXCEPT !.awaits = "failure"]
           /\ mfa' = [enabled |-> FALSE, secret |-> None] /\ unheard' = TRUE
        \/ /\ enrolment' = [enrolment EXCEPT !.awaits = "failure"]
           /\ UNCHANGED <<mfa, unheard>>
    BY <1>11 DEF Disable, Asked
  <2>4. \A a \in {"disabled", "failure"} : enrolment' = [enrolment EXCEPT !.awaits = a] =>
           /\ enrolment' \in [didSetup: BOOLEAN, secret: Secrets \cup {None}, codes: BOOLEAN,
                              awaits: {"nothing", "enabled", "disabled", "failure"}]
           /\ enrolment'.secret = None /\ ~enrolment'.codes /\ enrolment'.awaits = a
    BY <2>1, <2>2 DEF FactorInv, EnrolmentInv
  <2>5. mfa' \in [enabled: BOOLEAN, secret: Secrets \cup {None}]
    <3>1. [enabled |-> FALSE, secret |-> None] \in [enabled: BOOLEAN, secret: Secrets \cup {None}]
      OBVIOUS
    <3> QED
      BY <2>3, <3>1 DEF FactorInv, EnrolmentInv
  <2>6. EnrolmentInv' /\ AskedInv'
    BY <2>1, <2>3, <2>4, <2>5 DEF FactorInv, EnrolmentInv, AskedInv
  <2>7. KnownInv' /\ page' \in Pages
    BY <2>1, <2>3, <2>4 DEF FactorInv, KnownInv
  <2> QED
    BY <2>6, <2>7 DEF FactorInv
<1>12. CASE FactorAnswered
  <2>1. /\ enrolment.awaits # "nothing"
        /\ enrolment' = [enrolment EXCEPT !.awaits = "nothing",
                                          !.codes = @ \/ enrolment.awaits = "enabled"]
        /\ probing' = IF enrolment.awaits = "failure" THEN "no" ELSE "probe"
        /\ UNCHANGED <<mfa, signedIn, enabled, page, setups, unheard>>
    BY <1>12 DEF FactorAnswered
  <2>2. /\ setups = <<>> /\ probing = "no" /\ page = "mfa setup"
    BY <2>1 DEF FactorInv, EnrolmentInv, AskedInv
  <2>3. /\ enrolment' \in [didSetup: BOOLEAN, secret: Secrets \cup {None}, codes: BOOLEAN,
                           awaits: {"nothing", "enabled", "disabled", "failure"}]
        /\ enrolment'.didSetup = enrolment.didSetup
        /\ enrolment'.secret = enrolment.secret
        /\ enrolment'.awaits = "nothing"
        /\ enrolment'.codes = (enrolment.codes \/ enrolment.awaits = "enabled")
    BY <2>1 DEF FactorInv, EnrolmentInv
  <2>4. enrolment.awaits = "enabled" => enrolment.didSetup
    BY DEF FactorInv, EnrolmentInv
  <2>5. enrolment'.codes => enrolment'.didSetup
    BY <2>3, <2>4 DEF FactorInv, EnrolmentInv
  <2>6. enrolment'.secret # None /\ ~enrolment'.codes =>
           /\ mfa.secret = enrolment.secret /\ (mfa.enabled => unheard)
           /\ ~enabled /\ probing' = "no"
    BY <2>1, <2>3 DEF FactorInv, EnrolmentInv
  <2>7. EnrolmentInv' /\ AskedInv'
    BY <2>1, <2>2, <2>3, <2>5, <2>6 DEF FactorInv, EnrolmentInv, AskedInv
  <2>8. KnownInv' /\ page' \in Pages
    BY <2>1, <2>2, <2>3 DEF FactorInv, KnownInv
  <2> QED
    BY <2>7, <2>8 DEF FactorInv
<1> QED
  BY <1>1, <1>2, <1>3, <1>4, <1>5, <1>7, <1>8, <1>9, <1>10, <1>11, <1>12
     DEF BrowserNext, browserVars, auth, factor, SessionEnds, HeartsAnswered,
         ToggleFavorite, ToggleServed, ToggleFails, ToggleAnswered, Confirm, Acted,
         Settle, FindNotes, CountUnread, InboxLoaded, NoteOpened, ReadAll,
         EverythingRead, Arrives, OpenNote

LEMMA FactorInit ==
    ASSUME BrowserInit
    PROVE  FactorInv /\ page \in Pages
<1>1. /\ mfa \in [enabled: BOOLEAN, secret: Secrets \cup {None}]
      /\ signedIn = FALSE /\ enabled = FALSE /\ probing = "probe" /\ page = "home"
      /\ setups = <<>> /\ enrolment = Unmounted /\ unheard = FALSE
  BY DEF BrowserInit
<1>2. /\ enrolment \in [didSetup: BOOLEAN, secret: Secrets \cup {None}, codes: BOOLEAN,
                        awaits: {"nothing", "enabled", "disabled", "failure"}]
      /\ enrolment.secret = None /\ enrolment.codes = FALSE
      /\ enrolment.awaits = "nothing"
  BY <1>1 DEF Unmounted
<1> QED
  BY <1>1, <1>2 DEF FactorInv, EnrolmentInv, AskedInv, KnownInv, Pages, Public

\* The QR code shown is that of the stored secret, whatever answers are lost; and
\* while the tab was told of every change, the secret of a factor that is on is
\* never replaced and the console is shown to those it is served to: didSetup
\* outlives StrictMode's second run of the effect, and what the tab knows of the
\* factor is refreshed after every change (MfaSetup, AdminRoute).
THEOREM SecondFactorIsInSync == BrowserSpec => SecondFactorInSync
<1> DEFINE Inv == FactorInv /\ page \in Pages
           Kept == mfa.enabled /\ mfa'.enabled /\ ~unheard => mfa'.secret = mfa.secret
<1>1. BrowserInit => Inv
  BY FactorInit
<1>2. Inv /\ [BrowserNext]_browserVars => Inv'
  BY FactorStep
<1>3. ASSUME Inv'
      PROVE  /\ (Enrolling /\ Settled => mfa.secret = enrolment.secret)'
             /\ (page = "admin" /\ Settled /\ ~unheard => ConsoleServed)'
  BY <1>3 DEF FactorInv, EnrolmentInv, KnownInv, Enrolling, Settled, ConsoleServed
<1>4. ASSUME Inv, BrowserNext
      PROVE  Kept
  <2>1. CASE UNCHANGED mfa
    BY <2>1
  <2>2. ASSUME NEW i \in DOMAIN setups, SetupServed(i)
        PROVE  UNCHANGED mfa \/ ~mfa.enabled \/ unheard
    <3>1. setups[i] = "asked"
      BY <2>2 DEF SetupServed
    <3>2. setups = <<"asked">>
      BY <1>4, <2>2, <3>1, SoleRequest DEF FactorInv
    <3> QED
      BY <1>4, <3>1, <3>2, BrowserAssumption DEF FactorInv, AskedInv
  <2>3. CASE Enable
    <3>1. mfa' = [mfa EXCEPT !.enabled = TRUE] \/ mfa' = mfa
      BY <2>3 DEF Enable, Asked
    <3>2. mfa \in [enabled: BOOLEAN, secret: Secrets \cup {None}]
      BY <1>4 DEF FactorInv, EnrolmentInv
    <3> QED
      BY <3>1, <3>2
  <2>4. CASE Disable
    <3>1. mfa' = [enabled |-> FALSE, secret |-> None] \/ mfa' = mfa
      BY <2>4 DEF Disable, Asked
    <3> QED
      BY <3>1
  <2> QED
    BY <1>4, <2>1, <2>2, <2>3, <2>4
       DEF BrowserNext, auth, factor, SessionEnds, HeartsAnswered, Login, CompleteMfa,
           Refreshed, Logout, Reload, Navigate, SetupAnswered, FactorAnswered,
           ToggleFavorite, ToggleServed, ToggleFails, ToggleAnswered, Confirm, Acted,
           Settle, FindNotes, CountUnread, InboxLoaded, NoteOpened, ReadAll,
           EverythingRead, Arrives, OpenNote
<1>5. ASSUME Inv, [BrowserNext]_browserVars
      PROVE  [/\ Kept
              /\ (Enrolling /\ Settled => mfa.secret = enrolment.secret)'
              /\ (page = "admin" /\ Settled /\ ~unheard => ConsoleServed)']_browserVars
  <2>1. CASE UNCHANGED browserVars
    BY <2>1
  <2>2. CASE BrowserNext
    BY <1>2, <1>3, <1>4, <1>5, <2>2
  <2> QED
    BY <1>5, <2>1, <2>2
<1> QED
  BY <1>1, <1>2, <1>5, PTL DEF BrowserSpec, SecondFactorInSync

-----------------------------------------------------------------------------
(* The hearts                                                              *)

Requests == {"add", "remove", "add failed", "remove failed"}

Adds == {"add", "add failed"}

\* Two requests of one heart in a row: none of them failed.
Opposite(former, latter) ==
    \/ former = "add" /\ latter = "remove"
    \/ former = "remove" /\ latter = "add"

\* The oldest request of a heart is the opposite of what is stored, the latest is
\* what is shown, and each is the opposite of the one before.
HeartFits(l) ==
    /\ toggle[l] = <<>> => (l \in ids <=> l \in saved)
    /\ toggle[l] # <<>> =>
          /\ toggle[l][1] \in Adds <=> l \notin saved
          /\ toggle[l][Len(toggle[l])] \in Adds <=> l \in ids
          /\ \A i \in 1..(Len(toggle[l]) - 1) : Opposite(toggle[l][i], toggle[l][i + 1])

Quiescent == \A l \in Listings : toggle[l] = <<>>

\* The list is loaded, and the user changes, only while no heart waits.
HeartsInv ==
    /\ toggle \in [Listings -> Seq(Requests)]
    /\ ids \subseteq Listings /\ saved \subseteq Listings /\ blurred \subseteq Listings
    /\ hearts \in {"empty", "loading", "loaded"}
    /\ hearts = "loaded" => \A l \in Listings \ blurred : HeartFits(l)
    /\ probing # "no" \/ hearts = "loading" \/ ~signedIn => Quiescent
    /\ hearts = "loading" => signedIn
    /\ ~signedIn => ids = {}
    /\ enrolment.awaits # "nothing" => Quiescent

LEMMA RemovedRequest ==
    ASSUME NEW s \in Seq(Requests), NEW i \in DOMAIN s
    PROVE  /\ RemoveAt(s, i) \in Seq(Requests)
           /\ Len(RemoveAt(s, i)) = Len(s) - 1
           /\ i = 1 => \A j \in 1..(Len(s) - 1) : RemoveAt(s, i)[j] = s[j + 1]
  BY DEF RemoveAt

LEMMA ReplacedRequest ==
    ASSUME NEW s \in Seq(Requests), NEW i \in DOMAIN s, NEW x \in Requests
    PROVE  /\ [s EXCEPT ![i] = x] \in Seq(Requests)
           /\ Len([s EXCEPT ![i] = x]) = Len(s)
           /\ [s EXCEPT ![i] = x][i] = x
  OBVIOUS

LEMMA Failing ==
    ASSUME NEW request \in Requests, request \notin Failed
    PROVE  /\ Failure(request) \in Requests
           /\ Failure(request) \in Adds <=> request \in Adds
  BY DEF Requests, Failed, Failure, Adds

\* One request fewer or more makes one heart fit or not fit; the rest is as it was.
LEMMA OneHeart ==
    ASSUME HeartsInv, NEW l \in Listings, NEW s \in Seq(Requests),
           toggle' = [toggle EXCEPT ![l] = s],
           ids' \in {ids, ids \cup {l}, ids \ {l}},
           saved' \in {saved, saved \cup {l}, saved \ {l}},
           blurred' \in {blurred, blurred \cup {l}},
           hearts' = hearts, signedIn' = signedIn, probing' = probing,
           enrolment' = enrolment,
           probing = "no", hearts # "loading", signedIn, enrolment.awaits = "nothing",
           hearts = "loaded" /\ l \notin blurred' => HeartFits(l)'
    PROVE  HeartsInv'
<1>1. /\ toggle' \in [Listings -> Seq(Requests)]
      /\ ids' \subseteq Listings /\ saved' \subseteq Listings /\ blurred' \subseteq Listings
  BY DEF HeartsInv
<1>2. ASSUME hearts = "loaded", NEW k \in Listings \ blurred'
      PROVE  HeartFits(k)'
  <2>1. CASE k = l
    BY <1>2, <2>1
  <2>2. CASE k # l
    <3>1. /\ toggle'[k] = toggle[k] /\ (k \in ids' <=> k \in ids)
          /\ k \in saved' <=> k \in saved
      BY <2>2 DEF HeartsInv
    <3>2. HeartFits(k)
      BY <1>2 DEF HeartsInv
    <3> QED
      BY <3>1, <3>2 DEF HeartFits
  <2> QED
    BY <2>1, <2>2
<1> QED
  BY <1>1, <1>2 DEF HeartsInv

LEMMA ToggleFits ==
    ASSUME HeartsInv, NEW l \in Listings, ToggleFavorite(l),
           hearts = "loaded", l \notin blurred'
    PROVE  HeartFits(l)'
<1> DEFINE s == toggle[l]
           next == IF l \in ids THEN "remove" ELSE "add"
<1>1. /\ s \in Seq(Requests) /\ next \in Requests /\ toggle'[l] = Append(s, next)
      /\ ids' = IF l \in ids THEN ids \ {l} ELSE ids \cup {l}
      /\ saved' = saved
      /\ l \notin blurred /\ Range(s) \cap Failed = {}
  BY DEF ToggleFavorite, HeartsInv, Requests
<1>2. /\ next \in Adds <=> l \in ids'
      /\ next \in Adds <=> l \notin ids
      /\ next \in {"add", "remove"}
  BY <1>1 DEF Adds
<1>3. HeartFits(l)
  BY <1>1 DEF HeartsInv
<1>4. CASE s = <<>>
  <2>1. toggle'[l] = <<next>>
    BY <1>1, <1>4
  <2>2. /\ Len(<<next>>) = 1 /\ <<next>>[1] = next /\ <<next>> # <<>>
    OBVIOUS
  <2>3. next \in Adds <=> l \notin saved
    BY <1>2, <1>3, <1>4 DEF HeartFits
  <2> HIDE DEF next
  <2> QED
    BY <1>1, <1>2, <2>1, <2>2, <2>3 DEF HeartFits
<1>5. CASE s # <<>>
  <2>1. /\ s[1] \in Adds <=> l \notin saved
        /\ s[Len(s)] \in Adds <=> l \in ids
        /\ \A i \in 1..(Len(s) - 1) : Opposite(s[i], s[i + 1])
    BY <1>3, <1>5 DEF HeartFits
  <2>2. Len(s) \in Nat \ {0} /\ s[Len(s)] \in Requests
    BY <1>1, <1>5
  <2>3. s[Len(s)] \notin Failed
    <3>1. s[Len(s)] \in Range(s)
      BY <2>2 DEF Range
    <3> QED
      BY <1>1, <3>1
  <2>4. Opposite(s[Len(s)], next)
    BY <1>2, <2>1, <2>2, <2>3 DEF Opposite, Adds, Requests, Failed
  <2> HIDE DEF next, s
  <2>5. /\ Append(s, next) # <<>> /\ Len(Append(s, next)) = Len(s) + 1
        /\ Append(s, next)[1] = s[1]
        /\ Append(s, next)[Len(s) + 1] = next
        /\ \A i \in 1..Len(s) : Append(s, next)[i] = s[i]
    BY <1>1, <2>2
  <2>6. ASSUME NEW i \in 1..Len(s)
        PROVE  Opposite(Append(s, next)[i], Append(s, next)[i + 1])
    <3>1. CASE i = Len(s)
      BY <2>4, <2>5, <3>1
    <3>2. CASE i # Len(s)
      <4>1. i \in 1..(Len(s) - 1) /\ i + 1 \in 1..Len(s)
        BY <2>2, <3>2
      <4> QED
        BY <2>1, <2>5, <4>1
    <3> QED
      BY <3>1, <3>2
  <2>7. (Len(s) + 1) - 1 = Len(s)
    BY <2>2
  <2> QED
    BY <1>1, <1>2, <2>1, <2>5, <2>6, <2>7 DEF HeartFits
<1> QED
  BY <1>4, <1>5

LEMMA ServedFits ==
    ASSUME HeartsInv, NEW l \in Listings, NEW i \in DOMAIN toggle[l], ToggleServed(l, i),
           hearts = "loaded", l \notin blurred'
    PROVE  HeartFits(l)'
<1> DEFINE s == toggle[l]
           r == RemoveAt(s, 1)
<1>1. i = 1 /\ l \notin blurred /\ ids' = ids
  BY DEF ToggleServed
<1>2. /\ s \in Seq(Requests) /\ s # <<>> /\ Len(s) \in Nat \ {0} /\ 1 \in DOMAIN s
  BY <1>1 DEF HeartsInv
<1>3. /\ toggle'[l] = r /\ r \in Seq(Requests) /\ Len(r) = Len(s) - 1
      /\ \A j \in 1..(Len(s) - 1) : r[j] = s[j + 1]
  BY <1>1, <1>2, RemovedRequest DEF ToggleServed, HeartsInv
<1>4. /\ s[1] \in {"add", "remove"}
      /\ s[1] \in Adds <=> l \in saved'
  BY <1>1 DEF ToggleServed, Serve, AddFavorite, RemoveFavorite, Adds
<1>5. /\ s[Len(s)] \in Adds <=> l \in ids
      /\ \A j \in 1..(Len(s) - 1) : Opposite(s[j], s[j + 1])
  BY <1>1, <1>2 DEF HeartsInv, HeartFits
<1> HIDE DEF s, r
<1>6. CASE Len(s) = 1
  <2>1. r = <<>>
    BY <1>3, <1>6
  <2> QED
    BY <1>1, <1>3, <1>4, <1>5, <1>6, <2>1 DEF HeartFits
<1>7. CASE Len(s) # 1
  <2>1. /\ r # <<>> /\ Len(s) - 1 \in 1..(Len(s) - 1) /\ 1 \in 1..(Len(s) - 1)
        /\ (Len(s) - 1) + 1 = Len(s) /\ 1 + 1 = 2
    BY <1>2, <1>3, <1>7
  <2>2. r[1] = s[2] /\ r[Len(r)] = s[Len(s)]
    BY <1>3, <2>1
  <2>3. Opposite(s[1], s[2])
    BY <1>5, <2>1
  <2>4. r[1] \in Adds <=> l \notin saved'
    BY <1>4, <2>2, <2>3 DEF Opposite, Adds
  <2>5. ASSUME NEW j \in 1..(Len(r) - 1)
        PROVE  Opposite(r[j], r[j + 1])
    <3>1. j \in 1..(Len(s) - 1) /\ j + 1 \in 1..(Len(s) - 1)
      BY <1>2, <1>3
    <3>2. r[j] = s[j + 1] /\ r[j + 1] = s[(j + 1) + 1]
      BY <1>3, <3>1
    <3> QED
      BY <1>5, <3>1, <3>2
  <2> QED
    BY <1>1, <1>3, <1>5, <2>1, <2>2, <2>4, <2>5 DEF HeartFits
<1> QED
  BY <1>6, <1>7

\* A heart with one request is one that fits it.
LEMMA SoleToggle ==
    ASSUME HeartsInv, NEW l \in Listings, hearts = "loaded", l \notin blurred,
           NEW i \in DOMAIN toggle[l], toggle[l][i] \in Failed \/ Len(toggle[l]) = 1
    PROVE  /\ i = 1 /\ Len(toggle[l]) = 1
           /\ toggle[l][1] \in Adds <=> l \notin saved
           /\ toggle[l][1] \in Adds <=> l \in ids
<1> DEFINE s == toggle[l]
<1>1. s \in Seq(Requests) /\ i \in 1..Len(s) /\ Len(s) \in Nat /\ s # <<>>
  BY DEF HeartsInv
<1>2. /\ s[1] \in Adds <=> l \notin saved
      /\ s[Len(s)] \in Adds <=> l \in ids
      /\ \A j \in 1..(Len(s) - 1) : Opposite(s[j], s[j + 1])
  BY <1>1 DEF HeartsInv, HeartFits
<1> HIDE DEF s
<1>3. Len(s) = 1
  <2> SUFFICES ASSUME s[i] \in Failed, Len(s) # 1 PROVE FALSE
    BY DEF s
  <2>1. CASE i = Len(s)
    <3>1. i - 1 \in 1..(Len(s) - 1) /\ (i - 1) + 1 = i
      BY <1>1, <2>1
    <3>2. Opposite(s[i - 1], s[i])
      BY <1>2, <3>1
    <3> QED
      BY <3>2 DEF Opposite, Failed
  <2>2. CASE i # Len(s)
    <3>1. i \in 1..(Len(s) - 1)
      BY <1>1, <2>2
    <3>2. Opposite(s[i], s[i + 1])
      BY <1>2, <3>1
    <3> QED
      BY <3>2 DEF Opposite, Failed
  <2> QED
    BY <2>1, <2>2
<1> QED
  BY <1>1, <1>2, <1>3 DEF s

LEMMA HeartsUntouched ==
    ASSUME HeartsInv, UNCHANGED <<saved, ids, hearts, toggle, blurred, signedIn, probing>>,
           enrolment'.awaits # "nothing" => enrolment.awaits # "nothing" \/ Quiescent
    PROVE  HeartsInv'
  BY DEF HeartsInv, HeartFits, Quiescent

\* The user changes: the list is loaded for who signed in, empty for a guest.
LEMMA NewUserKeepsHearts ==
    ASSUME HeartsInv, Quiescent, NEW user \in BOOLEAN, signedIn' = user, Favourites(user)
    PROVE  HeartsInv'
  BY DEF HeartsInv, HeartFits, Quiescent, Favourites

\* A page that is shown waits for no answer of the second factor.
LEMMA ShowAwaitsNothing ==
    ASSUME NEW to, NEW user, NEW on, Show(to, user, on)
    PROVE  enrolment'.awaits = "nothing"
<1>1. PICK asks : enrolment' = [Unmounted EXCEPT !.didSetup = asks]
  BY DEF Show
<1> QED
  BY <1>1 DEF Unmounted

\* A heart is toggled, and its requests are served and answered, for a user who
\* does not change meanwhile.
LEMMA RequestsStep ==
    ASSUME HeartsInv, NEW l \in Listings, NEW i \in DOMAIN toggle[l],
           ToggleServed(l, i) \/ ToggleFails(l, i) \/ ToggleAnswered(l, i)
    PROVE  HeartsInv'
<1> DEFINE s == toggle[l]
<1>1. /\ s \in Seq(Requests) /\ s # <<>> /\ i \in 1..Len(s)
      /\ UNCHANGED <<signedIn, probing, enrolment, hearts>>
  BY DEF ToggleServed, ToggleFails, ToggleAnswered, auth, factor, HeartsInv
<1>2. /\ probing = "no" /\ hearts # "loading" /\ signedIn
      /\ enrolment.awaits = "nothing"
  BY <1>1 DEF HeartsInv, Quiescent
<1>3. RemoveAt(s, i) \in Seq(Requests)
  BY <1>1, RemovedRequest
<1>4. CASE ToggleServed(l, i)
  <2>1. /\ toggle' = [toggle EXCEPT ![l] = RemoveAt(s, i)] /\ ids' = ids
        /\ saved' \in {saved, saved \cup {l}, saved \ {l}}
        /\ blurred' \in {blurred, blurred \cup {l}}
    BY <1>4 DEF ToggleServed, Serve, AddFavorite, RemoveFavorite, HeartsInv
  <2>2. hearts = "loaded" /\ l \notin blurred' => HeartFits(l)'
    BY <1>4, ServedFits
  <2> HIDE DEF s
  <2> QED
    BY <1>1, <1>2, <1>3, <2>1, <2>2, OneHeart
<1>5. CASE ToggleFails(l, i)
  <2> DEFINE x == Failure(s[i])
             t == [s EXCEPT ![i] = x]
  <2>1. /\ toggle' = [toggle EXCEPT ![l] = t] /\ ids' = ids /\ s[i] \notin Failed
        /\ saved' \in {saved, saved \cup {l}, saved \ {l}}
        /\ blurred' \in {blurred, blurred \cup {l}}
    BY <1>5 DEF ToggleFails, Serve, AddFavorite, RemoveFavorite, HeartsInv
  <2>2. /\ s[i] \in Requests /\ x \in Requests
        /\ x \in Adds <=> s[i] \in Adds
    <3>1. s[i] \in Requests
      BY <1>1
    <3> QED
      BY <2>1, <3>1, Failing
  <2>3. t \in Seq(Requests) /\ Len(t) = Len(s) /\ t[i] = x
    <3> HIDE DEF s, x
    <3> QED
      BY <1>1, <2>2, ReplacedRequest
  <2>4. ASSUME hearts = "loaded", l \notin blurred'
        PROVE  HeartFits(l)'
    <3>1. l \notin blurred /\ Len(s) = 1 /\ saved' = saved
      BY <1>5, <2>4 DEF ToggleFails
    <3>2. /\ i = 1
          /\ s[1] \in Adds <=> l \notin saved
          /\ s[1] \in Adds <=> l \in ids
      BY <2>4, <3>1, SoleToggle
    <3>3. toggle'[l] = t /\ ids' = ids
      BY <2>1 DEF HeartsInv
    <3> HIDE DEF s, t, x
    <3>4. t[1] = x /\ Len(t) = 1 /\ t # <<>>
      BY <2>3, <3>1, <3>2
    <3>5. t[1] \in Adds <=> s[1] \in Adds
      BY <2>2, <3>2, <3>4
    <3>6. \A j \in 1..(Len(t) - 1) : FALSE
      BY <3>4
    <3> QED
      BY <3>1, <3>2, <3>3, <3>4, <3>5, <3>6 DEF HeartFits
  <2> HIDE DEF s, t
  <2> QED
    BY <1>1, <1>2, <2>1, <2>3, <2>4, OneHeart
<1>6. CASE ToggleAnswered(l, i)
  <2>1. /\ toggle' = [toggle EXCEPT ![l] = RemoveAt(s, i)] /\ s[i] \in Failed
        /\ ids' = IF s[i] = "add failed" THEN ids \ {l} ELSE ids \cup {l}
        /\ UNCHANGED <<saved, blurred>>
    BY <1>6 DEF ToggleAnswered, Revert
  <2>2. ASSUME hearts = "loaded", l \notin blurred'
        PROVE  HeartFits(l)'
    <3>1. /\ i = 1 /\ Len(s) = 1
          /\ s[1] \in Adds <=> l \notin saved
      BY <2>1, <2>2, SoleToggle
    <3>2. RemoveAt(s, i) = <<>>
      <4>1. Len(RemoveAt(s, i)) = 0
        BY <1>1, <3>1, RemovedRequest
      <4> QED
        BY <1>3, <4>1
    <3>3. toggle'[l] = <<>>
      BY <2>1, <3>2 DEF HeartsInv
    <3>4. l \in ids' <=> l \in saved'
      BY <2>1, <3>1 DEF Adds, Failed
    <3> QED
      BY <3>3, <3>4 DEF HeartFits
  <2>3. ids' \in {ids, ids \cup {l}, ids \ {l}}
    BY <2>1
  <2> HIDE DEF s
  <2> QED
    BY <1>1, <1>2, <1>3, <2>1, <2>2, <2>3, OneHeart
<1> QED
  BY <1>4, <1>5, <1>6

LEMMA HeartsStep ==
    ASSUME HeartsInv, FactorInv, [BrowserNext]_browserVars
    PROVE  HeartsInv'
<1>1. CASE UNCHANGED browserVars
  BY <1>1, HeartsUntouched DEF browserVars, fav, auth, factor
<1>2. CASE Login \/ CompleteMfa
  <2>1. /\ UNCHANGED <<saved, ids, hearts, toggle, blurred, signedIn>> /\ Quiescent
        /\ UNCHANGED enrolment \/ enrolment'.awaits = "nothing"
    BY <1>2, ShowAwaitsNothing
       DEF Login, CompleteMfa, SameUser, Quiescent, fav, factor
  <2> QED
    BY <2>1 DEF HeartsInv, HeartFits, Quiescent
<1>3. CASE Refreshed
  <2>1. PICK user \in {session = "full", FALSE} : signedIn' = user /\ Favourites(user)
    BY <1>3 DEF Refreshed
  <2>2. Quiescent
    BY <1>3 DEF Refreshed, HeartsInv
  <2> QED
    BY <2>1, <2>2, NewUserKeepsHearts
<1>4. CASE Logout
  BY <1>4, NewUserKeepsHearts DEF Logout, SameUser, Quiescent
<1>5. ASSUME NEW to, Reload(to)
      PROVE  HeartsInv'
  BY <1>5 DEF Reload, HeartsInv, HeartFits, Quiescent
<1>6. ASSUME NEW to \in Pages, Navigate(to)
      PROVE  HeartsInv'
  BY <1>6, ShowAwaitsNothing, HeartsUntouched DEF Navigate, auth, fav
<1>7. CASE Enable \/ Disable
  BY <1>7, HeartsUntouched DEF Enable, Disable, SameUser, Quiescent, auth, fav
<1>8. CASE FactorAnswered
  <2>1. Quiescent /\ UNCHANGED <<saved, ids, hearts, toggle, blurred, signedIn>>
    BY <1>8 DEF FactorAnswered, HeartsInv, fav
  <2> QED
    BY <2>1 DEF HeartsInv, HeartFits, Quiescent
<1>9. CASE HeartsAnswered
  <2>1. /\ Quiescent /\ signedIn /\ blurred' = {}
        /\ \/ ids' = saved /\ hearts' = "loaded"
           \/ ids' = {} /\ hearts' = "empty"
        /\ UNCHANGED <<signedIn, probing, enrolment, saved, toggle>>
    BY <1>9 DEF HeartsAnswered, HeartsInv, auth, factor
  <2> QED
    BY <2>1 DEF HeartsInv, HeartFits, Quiescent
<1>10. ASSUME NEW l \in Listings, ToggleFavorite(l)
       PROVE  HeartsInv'
  <2> DEFINE s == Append(toggle[l], IF l \in ids THEN "remove" ELSE "add")
  <2>1. /\ page = "home" /\ signedIn /\ probing = "no" /\ hearts # "loading"
        /\ ids' \in {ids, ids \cup {l}, ids \ {l}}
        /\ toggle' = [toggle EXCEPT ![l] = s]
        /\ blurred' \in {blurred, blurred \cup {l}}
        /\ UNCHANGED <<signedIn, probing, enrolment, saved, hearts>>
    BY <1>10 DEF ToggleFavorite, auth, factor
  <2>2. enrolment.awaits = "nothing"
    BY <2>1 DEF FactorInv, EnrolmentInv
  <2>3. s \in Seq(Requests)
    <3> DEFINE next == IF l \in ids THEN "remove" ELSE "add"
    <3>1. next \in Requests
      BY DEF Requests
    <3> HIDE DEF next
    <3>2. Append(toggle[l], next) \in Seq(Requests)
      BY <3>1 DEF HeartsInv
    <3> QED
      BY <3>2 DEF next
  <2>4. hearts = "loaded" /\ l \notin blurred' => HeartFits(l)'
    BY <1>10, ToggleFits
  <2> HIDE DEF s
  <2> QED
    BY <2>1, <2>2, <2>3, <2>4, OneHeart
<1>11. ASSUME NEW l \in Listings, NEW i \in DOMAIN toggle[l],
              ToggleServed(l, i) \/ ToggleFails(l, i) \/ ToggleAnswered(l, i)
       PROVE  HeartsInv'
  BY <1>11, RequestsStep
<1>12. ASSUME UNCHANGED <<auth, fav, enrolment>>
       PROVE  HeartsInv'
  BY <1>12, HeartsUntouched DEF auth, fav
<1>13. ASSUME NEW i \in DOMAIN setups, SetupServed(i) \/ SetupAnswered(i)
       PROVE  HeartsInv'
  <2>1. /\ enrolment.awaits = "nothing" /\ enrolment'.awaits = "nothing"
    <3>1. setups # <<>>
      BY <1>13, SoleRequest DEF FactorInv
    <3>2. enrolment.awaits = "nothing"
      BY <3>1 DEF FactorInv, AskedInv
    <3>3. \/ enrolment' = enrolment
          \/ enrolment' = [enrolment EXCEPT !.didSetup = FALSE]
          \/ enrolment' = [enrolment EXCEPT !.secret = setups[i]]
      BY <1>13 DEF SetupServed, SetupAnswered
    <3> QED
      BY <3>2, <3>3 DEF FactorInv, EnrolmentInv
  <2>2. UNCHANGED <<saved, ids, hearts, toggle, blurred, signedIn, probing>>
    BY <1>13 DEF SetupServed, SetupAnswered, auth, fav
  <2> QED
    BY <2>1, <2>2, HeartsUntouched
<1>14. CASE SessionEnds
  BY <1>14, HeartsUntouched DEF SessionEnds, fav, factor
<1> QED
  BY <1>1, <1>2, <1>3, <1>4, <1>5, <1>6, <1>7, <1>8, <1>9, <1>10, <1>11,
     <1>12, <1>13, <1>14
     DEF BrowserNext, factor, Confirm, Acted, Settle, FindNotes, CountUnread,
         InboxLoaded, NoteOpened, ReadAll, EverythingRead, Arrives, OpenNote

LEMMA HeartsInit ==
    ASSUME BrowserInit
    PROVE  HeartsInv
<1>1. /\ ids = {} /\ hearts = "empty" /\ saved \subseteq Listings /\ blurred = {}
      /\ toggle = [l \in Listings |-> <<>>] /\ signedIn = FALSE
  BY DEF BrowserInit
<1> QED
  BY <1>1 DEF HeartsInv, Quiescent

\* Hearts and favourites agree wherever no request is under way, with requests for
\* every other heart under way, served, or failed and taken back, and several of one
\* heart too unless they failed or overtook each other; a heart one of whose answers
\* was lost is left out (FavoritesContext.toggleFavorite).
THEOREM HeartsAgreeWithServer == BrowserSpec => []HeartsAgree
<1> DEFINE Inv == HeartsInv /\ FactorInv /\ page \in Pages
<1>1. BrowserInit => Inv
  BY FactorInit, HeartsInit
<1>2. Inv /\ [BrowserNext]_browserVars => Inv'
  BY HeartsStep, FactorStep
<1>3. Inv => HeartsAgree
  BY DEF HeartsInv, HeartFits, HeartsAgree
<1> QED
  BY <1>1, <1>2, <1>3, PTL DEF BrowserSpec

-----------------------------------------------------------------------------
(* Types                                                                   *)

\* Every variable of the tab keeps its type; the kind of session is the only one
\* no invariant above mentions.
THEOREM BrowserTyped == BrowserSpec => []BrowserTypeOK
<1> DEFINE Sessions == session \in {"none", "pending", "full"}
                       /\ probing \in {"no", "probe", "login"}
           Inv == DialogInv /\ InboxInv /\ FactorInv /\ HeartsInv /\ page \in Pages /\ Sessions
<1>1. BrowserInit => Inv
  BY FactorInit, DialogInit, InboxInit, HeartsInit DEF BrowserInit
<1>2. Inv /\ [BrowserNext]_browserVars => Inv'
  <2> SUFFICES ASSUME Inv, [BrowserNext]_browserVars PROVE Inv'
    OBVIOUS
  <2>1. Sessions'
    BY DEF BrowserNext, browserVars, auth, Login, CompleteMfa, Refreshed, Logout,
           SessionEnds, Reload, SetupServed, SetupAnswered, Enable, Disable,
           FactorAnswered, HeartsAnswered, ToggleFavorite, ToggleServed, ToggleFails,
           ToggleAnswered, Confirm, Acted, Settle, Navigate, FindNotes, CountUnread,
           InboxLoaded, NoteOpened, ReadAll, EverythingRead, Arrives, OpenNote
  <2> QED
    BY <2>1, DialogStep, InboxStep, FactorStep, HeartsStep
<1>3. Inv => BrowserTypeOK
  <2> SUFFICES ASSUME Inv PROVE BrowserTypeOK
    OBVIOUS
  <2>1. setups \in Seq(Secrets \cup {"asked", "failed"})
    <3> DEFINE Answers == Secrets \cup {"asked", "failed"}
    <3>1. <<>> \in Seq(Answers) /\ \A x \in Answers : <<x>> \in Seq(Answers)
      OBVIOUS
    <3>2. setups = <<>> \/ \E x \in Answers : setups = <<x>>
      BY DEF FactorInv, AskedInv
    <3> QED
      BY <3>1, <3>2
  <2>2. {dialog, resolver} \subseteq Callers \cup {None}
    BY DEF DialogInv
  <2> QED
    BY <2>1, <2>2
       DEF BrowserTypeOK, DialogInv, InboxInv, InboxTyped, FactorInv, EnrolmentInv,
           KnownInv, HeartsInv, Requests
<1> QED
  BY <1>1, <1>2, <1>3, PTL DEF BrowserSpec

=============================================================================
