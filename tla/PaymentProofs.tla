---------------------------- MODULE PaymentProofs ----------------------------
(***************************************************************************)
(* What is proved of the payment handlers, for any number of bookings,     *)
(* payments and overlapping handlers of both kinds: they refine the        *)
(* booking handlers, and no booking is paid without a payment of its own   *)
(* that Khalti completed with the exact amount.                            *)
(***************************************************************************)
EXTENDS PaymentProperties, LockedProofs

-----------------------------------------------------------------------------
(* The inductive invariant                                                 *)

\* Khalti gave out p for booking b.
Minted(p, b) ==
    /\ p \in Pidxs
    /\ khalti[p].status # "unknown"
    /\ khalti[p].booking = b

PaidFor(b) == \E p \in Pidxs : Settled(p, b)

\* Payment fields of b, stored or held: they may belong to different attempts,
\* but every pidx is one of b's own and every amount is the exact one.
FieldsOK(fields, b) ==
    /\ fields.pidx # None => Minted(fields.pidx, b)
    /\ fields.amount \in {NoAmount, AmountPaisa(b)}

KhaltiOK ==
    \A p \in Pidxs : khalti[p].status # "unknown" =>
        khalti[p].booking \in BookingIds /\ Present(khalti[p].booking)

PayOK(b) ==
    /\ FieldsOK(pay[b], b)
    /\ pay[b] # NoPayment => Present(b)

\* What a payment handler at a given point may rely on.
Fits(slot) ==
    slot.at # "idle" =>
        /\ slot.id \in BookingIds
        /\ Present(slot.id)
        /\ FieldsOK(slot.pay, slot.id)
        /\ slot.at \in {"pay.lookup", "cb.lookup"} => slot.pay.pidx # None
        /\ slot.at \in {"pay.save", "pay.hand"} => Minted(slot.pidx, slot.id)
        /\ \/ slot.at \in {"pay.apply", "cb.apply", "pay.receipt", "cb.receipt"}
           \/ slot.reply = "success"
           => PaidFor(slot.id)

PaymentsInv ==
    /\ BookingsInv
    /\ PaymentsTypeOK
    /\ KhaltiOK
    /\ \A b \in BookingIds : PayOK(b)
    /\ \A c \in Calls : Fits(call[c])
    /\ PaidOnlyIfVerified
    /\ SuccessOnlyIfSettled

-----------------------------------------------------------------------------
(* What survives a step                                                    *)

\* What Khalti never takes back: who a payment is for, and, once completed,
\* its total.
KhaltiGrows ==
    \A p \in Pidxs : khalti[p].status # "unknown" =>
        /\ khalti'[p].status # "unknown"
        /\ khalti'[p].booking = khalti[p].booking
        /\ khalti[p].status \in {"Completed", "Refunded"} =>
              /\ khalti'[p].status \in {"Completed", "Refunded"}
              /\ khalti'[p].total = khalti[p].total

\* The amount of a stored booking never changes.
LEMMA AmountKept ==
    ASSUME Grows, NEW b \in BookingIds, Present(b)
    PROVE  AmountPaisa(b)' = AmountPaisa(b)
BY DEF Grows, SameAmounts, AmountPaisa

LEMMA MintedKept ==
    ASSUME KhaltiGrows, NEW p, NEW b, Minted(p, b)
    PROVE  Minted(p, b)'
BY DEF KhaltiGrows, Minted

LEMMA PaidForKept ==
    ASSUME Grows, KhaltiGrows, NEW b \in BookingIds, Present(b), PaidFor(b)
    PROVE  PaidFor(b)'
<1>1. PICK p \in Pidxs : Settled(p, b)
  BY DEF PaidFor
<1>2. Settled(p, b)'
  BY <1>1, AmountKept DEF Settled, KhaltiGrows
<1> QED
  BY <1>2 DEF PaidFor

LEMMA FieldsKept ==
    ASSUME Grows, KhaltiGrows, NEW b \in BookingIds, Present(b),
           NEW fields, FieldsOK(fields, b)
    PROVE  FieldsOK(fields, b)'
<1>1. fields.pidx # None => Minted(fields.pidx, b)'
  BY MintedKept DEF FieldsOK
<1>2. AmountPaisa(b)' = AmountPaisa(b)
  BY AmountKept
<1> QED
  BY <1>1, <1>2 DEF FieldsOK

\* What a payment handler holds stays good while others move.
LEMMA FitsKept ==
    ASSUME Grows, KhaltiGrows, NEW slot, Fits(slot)
    PROVE  Fits(slot)'
<1> SUFFICES ASSUME slot.at # "idle" PROVE Fits(slot)'
  BY DEF Fits
<1>1. slot.id \in BookingIds /\ Present(slot.id) /\ Present(slot.id)'
  BY DEF Fits, Grows, Present
<1>2. FieldsOK(slot.pay, slot.id)'
  BY <1>1, FieldsKept DEF Fits
<1>3. PaidFor(slot.id) => PaidFor(slot.id)'
  BY <1>1, PaidForKept
<1>4. Minted(slot.pidx, slot.id) => Minted(slot.pidx, slot.id)'
  BY MintedKept
<1> QED
  BY <1>1, <1>2, <1>3, <1>4 DEF Fits

LEMMA FitsThere ==
    ASSUME NEW c, NEW slot, call'[c] = slot, Fits(slot)'
    PROVE  Fits(call[c])'
BY DEF Fits, FieldsOK, Minted, PaidFor, Settled, AmountPaisa, Present

\* So do payment fields that nobody wrote.
LEMMA PayKept ==
    ASSUME PaymentsInv, Grows, KhaltiGrows, NEW b \in BookingIds,
           pay'[b] = pay[b]
    PROVE  PayOK(b)'
<1>1. PayOK(b)
  BY DEF PaymentsInv
<1>2. CASE Present(b)
  <2>1. Present(b)'
    BY <1>2 DEF Grows, Present
  <2>2. FieldsOK(pay[b], b)
    BY <1>1 DEF PayOK
  <2>3. PICK fields : fields = pay[b]
    OBVIOUS
  <2>4. FieldsOK(fields, b)'
    BY <1>2, <2>2, <2>3, FieldsKept
  <2> QED
    BY <2>1, <2>3, <2>4 DEF PayOK, FieldsOK
<1>3. CASE ~Present(b)
  <2>1. pay'[b] = NoPayment
    BY <1>1, <1>3 DEF PayOK
  <2> QED
    BY <2>1 DEF PayOK, FieldsOK, NoPayment
<1> QED
  BY <1>2, <1>3

LEMMA KhaltiKept ==
    ASSUME PaymentsInv, Grows, UNCHANGED khalti
    PROVE  KhaltiOK' /\ KhaltiGrows
<1>1. KhaltiGrows
  BY DEF KhaltiGrows
<1>2. KhaltiOK'
  BY DEF PaymentsInv, KhaltiOK, Grows, Present
<1> QED
  BY <1>1, <1>2

\* A step keeps the invariant when what it writes is good and what it adds to
\* the histories and to the answers is paid for.
LEMMA PaymentsMove ==
    ASSUME PaymentsInv, BookingsInv', Grows, KhaltiGrows, KhaltiOK',
           PaymentsTypeOK',
           \A b \in BookingIds :
              HasBeen(b, "paid")' => HasBeen(b, "paid") \/ PaidFor(b)',
           \A b \in BookingIds :
              told'[b] = "success" => told[b] = "success" \/ PaidFor(b)',
           \A b \in BookingIds : pay'[b] = pay[b] \/ PayOK(b)',
           \A c \in Calls : call'[c] = call[c] \/ Fits(call[c])'
    PROVE  PaymentsInv'
<1>1. \A b \in BookingIds : PayOK(b)'
  BY PayKept
<1>2. ASSUME NEW c \in Calls PROVE Fits(call[c])'
  <2>1. CASE call'[c] = call[c]
    <3>1. PICK slot : slot = call[c]
      OBVIOUS
    <3>2. Fits(slot)
      BY <3>1 DEF PaymentsInv
    <3>3. Fits(slot)'
      BY <3>2, FitsKept
    <3> QED
      BY <2>1, <3>1, <3>3, FitsThere
  <2> QED
    BY <2>1
<1>3. ASSUME NEW b \in BookingIds, PaidFor(b) PROVE PaidFor(b)'
  <2>1. Present(b)
    BY <1>3 DEF PaidFor, Settled, PaymentsInv, KhaltiOK
  <2> QED
    BY <1>3, <2>1, PaidForKept
<1>4. PaidOnlyIfVerified'
  BY <1>3 DEF PaymentsInv, PaidOnlyIfVerified, PaidFor
<1>5. SuccessOnlyIfSettled'
  BY <1>3 DEF PaymentsInv, SuccessOnlyIfSettled, PaidFor
<1> QED
  BY <1>1, <1>2, <1>4, <1>5 DEF PaymentsInv

\* A payment handler moves and leaves the rest of the documents alone.
LEMMA CallMoves ==
    ASSUME PaymentsInv, UNCHANGED vars, KhaltiGrows, KhaltiOK',
           NEW c \in Calls, NEW slot \in CallSlots,
           call' = [call EXCEPT ![c] = slot],
           Fits(slot)',
           khalti' \in [Pidxs -> KhaltiPayments],
           pay' \in [BookingIds -> PaymentFields],
           told' \in [BookingIds -> Results],
           receipts' \subseteq BookingIds,
           mismatches' \subseteq BookingIds,
           \A b \in BookingIds : pay'[b] = pay[b] \/ PayOK(b)',
           \A b \in BookingIds :
              told'[b] = "success" => told[b] = "success" \/ PaidFor(b)'
    PROVE  PaymentsInv'
<1>1. BookingsInv' /\ Grows
  BY StutterKeeps, BookingsUntouched DEF PaymentsInv, vars
<1>2. /\ call' \in [Calls -> CallSlots]
      /\ call'[c] = slot
      /\ \A d \in Calls \ {c} : call'[d] = call[d]
  BY DEF PaymentsInv, PaymentsTypeOK
<1>3. PaymentsTypeOK'
  BY <1>1, <1>2 DEF PaymentsTypeOK, BookingsInv
<1>4. Fits(call[c])'
  BY <1>2, FitsThere
<1>5. \A b \in BookingIds : HasBeen(b, "paid")' => HasBeen(b, "paid")
  BY DEF HasBeen, vars
<1> QED
  BY <1>1, <1>2, <1>3, <1>4, <1>5, PaymentsMove

\* A payment handler moves and writes nothing but alerts and notifications.
LEMMA CallMovesQuietly ==
    ASSUME PaymentsInv, UNCHANGED <<vars, pay, khalti, told>>,
           NEW c \in Calls, NEW slot \in CallSlots,
           call' = [call EXCEPT ![c] = slot],
           Fits(slot),
           receipts' \subseteq BookingIds,
           mismatches' \subseteq BookingIds
    PROVE  PaymentsInv'
<1>1. Grows
  BY BookingsUntouched DEF PaymentsInv, vars
<1>2. KhaltiGrows /\ KhaltiOK'
  BY <1>1, KhaltiKept
<1>3. Fits(slot)'
  BY <1>1, <1>2, FitsKept
<1> QED
  BY <1>2, <1>3, CallMoves DEF PaymentsInv, PaymentsTypeOK

-----------------------------------------------------------------------------
(* The slots payment handlers move to                                      *)

LEMMA NoPaymentFits ==
    /\ NoCall \in CallSlots
    /\ Fits(NoCall)
    /\ NoPayment \in PaymentFields
    /\ \A b : FieldsOK(NoPayment, b)
BY DEF NoCall, CallSlots, CallPoints, Results, NoPayment, PaymentFields, NoAmount,
       Fits, FieldsOK

\* Moving to a point whose demands are met.
LEMMA PointFits ==
    ASSUME PaymentsInv, NEW c \in Calls, call[c].at # "idle",
           NEW point \in CallPoints \ {"pay.lookup", "cb.lookup"},
           point \in {"pay.save", "pay.hand"} => Minted(call[c].pidx, call[c].id),
           point \in {"pay.apply", "cb.apply", "pay.receipt", "cb.receipt"} =>
              PaidFor(call[c].id)
    PROVE  /\ [call[c] EXCEPT !.at = point] \in CallSlots
           /\ Fits([call[c] EXCEPT !.at = point])
<1> DEFINE slot == [call[c] EXCEPT !.at = point]
<1>1. call[c] \in CallSlots /\ Fits(call[c])
  BY DEF PaymentsInv, PaymentsTypeOK
<1>2. /\ slot \in CallSlots
      /\ slot.at = point
      /\ slot.id = call[c].id
      /\ slot.pay = call[c].pay
      /\ slot.pidx = call[c].pidx
      /\ slot.reply = call[c].reply
  BY <1>1 DEF CallSlots
<1> HIDE DEF slot
<1>3. Fits(slot)
  BY <1>1, <1>2 DEF Fits
<1> QED
  BY <1>2, <1>3 DEF slot

\* The callback is about to redirect.
LEMMA AnswerFits ==
    ASSUME PaymentsInv, NEW c \in Calls, call[c].at # "idle",
           NEW result \in Results, result = "success" => PaidFor(call[c].id)
    PROVE  /\ [call[c] EXCEPT !.at = "cb.reply", !.reply = result] \in CallSlots
           /\ Fits([call[c] EXCEPT !.at = "cb.reply", !.reply = result])
<1> DEFINE slot == [call[c] EXCEPT !.at = "cb.reply", !.reply = result]
<1>1. call[c] \in CallSlots /\ Fits(call[c])
  BY DEF PaymentsInv, PaymentsTypeOK
<1>2. /\ slot \in CallSlots
      /\ slot.at = "cb.reply"
      /\ slot.id = call[c].id
      /\ slot.pay = call[c].pay
      /\ slot.reply = result
  BY <1>1 DEF CallSlots, CallPoints
<1> HIDE DEF slot
<1>3. Fits(slot)
  BY <1>1, <1>2 DEF Fits
<1> QED
  BY <1>2, <1>3 DEF slot

LEMMA GotoCallSlot ==
    ASSUME PaymentsInv, NEW c \in Calls, NEW point, GotoCall(c, point)
    PROVE  call' = [call EXCEPT ![c] = [call[c] EXCEPT !.at = point]]
BY DEF PaymentsInv, PaymentsTypeOK, GotoCall

LEMMA AnswerWithSlot ==
    ASSUME PaymentsInv, NEW c \in Calls, NEW result, AnswerWith(c, result)
    PROVE  call' = [call EXCEPT ![c] =
                      [call[c] EXCEPT !.at = "cb.reply", !.reply = result]]
BY DEF PaymentsInv, PaymentsTypeOK, AnswerWith, CallSlots

\* A completed payment that matches the amount of a snapshot pays the booking
\* it is a snapshot of, though pidx and amount may be of different attempts.
LEMMA MatchSettles ==
    ASSUME PaymentsInv, NEW c \in Calls,
           call[c].at \in {"pay.lookup", "cb.lookup"},
           khalti[call[c].pay.pidx].status = "Completed",
           AmountMatches(call[c].pay.pidx, call[c].pay)
    PROVE  PaidFor(call[c].id)
<1> DEFINE p == call[c].pay.pidx
           b == call[c].id
<1>1. Fits(call[c])
  BY DEF PaymentsInv
<1>2. /\ p # None
      /\ FieldsOK(call[c].pay, b)
  BY <1>1 DEF Fits
<1>3. Minted(p, b) /\ khalti[p].total = AmountPaisa(b)
  BY <1>2 DEF FieldsOK, AmountMatches
<1> QED
  BY <1>3 DEF PaidFor, Settled, Minted

-----------------------------------------------------------------------------
(* POST /bookings/:id/pay                                                  *)

\* A payment handler that ends takes nothing away.
LEMMA EndCallStep ==
    ASSUME PaymentsInv, NEW c \in Calls, EndCall(c),
           UNCHANGED <<vars, pay, khalti, told>>,
           receipts' \subseteq BookingIds,
           mismatches' \subseteq BookingIds
    PROVE  PaymentsInv'
BY NoPaymentFits, CallMovesQuietly DEF EndCall

LEMMA InitiatePaymentStep ==
    ASSUME PaymentsInv, NEW c \in Calls, NEW b \in BookingIds,
           InitiatePayment(c, b)
    PROVE  PaymentsInv'
<1> DEFINE slot == [NoCall EXCEPT
                      !.at  = IF pay[b].pidx # None /\ ~pay[b].verified
                              THEN "pay.lookup" ELSE "pay.mint",
                      !.id  = b,
                      !.pay = pay[b]]
<1>1. Present(b)
  BY DEF InitiatePayment, Present
<1>2. FieldsOK(pay[b], b) /\ pay[b] \in PaymentFields
  BY DEF PaymentsInv, PayOK, PaymentsTypeOK
<1>3. slot \in CallSlots
  BY <1>2, NoPaymentFits DEF CallSlots, CallPoints
<1>4. /\ slot.at \in {"pay.lookup", "pay.mint"}
      /\ slot.at = "pay.lookup" => pay[b].pidx # None
      /\ slot.id = b
      /\ slot.pay = pay[b]
      /\ slot.reply = "none"
  BY DEF NoCall
<1> HIDE DEF slot
<1>5. Fits(slot)
  BY <1>1, <1>2, <1>4 DEF Fits
<1>6. call' = [call EXCEPT ![c] = slot]
  BY DEF InitiatePayment, slot
<1> QED
  BY <1>3, <1>5, <1>6, CallMovesQuietly
  DEF InitiatePayment, PaymentsInv, PaymentsTypeOK

LEMMA HandedKept ==
    ASSUME PaymentsInv, UNCHANGED vars, NEW p,
           khalti' = [khalti EXCEPT ![p].handed = TRUE]
    PROVE  /\ KhaltiGrows
           /\ KhaltiOK'
           /\ khalti' \in [Pidxs -> KhaltiPayments]
<1>1. khalti \in [Pidxs -> KhaltiPayments]
  BY DEF PaymentsInv, PaymentsTypeOK
<1>2. khalti' \in [Pidxs -> KhaltiPayments]
  BY <1>1 DEF KhaltiPayments
<1>3. \A q \in Pidxs :
         /\ khalti'[q].status = khalti[q].status
         /\ khalti'[q].booking = khalti[q].booking
         /\ khalti'[q].total = khalti[q].total
  BY <1>1 DEF KhaltiPayments
<1> QED
  BY <1>2, <1>3 DEF KhaltiGrows, KhaltiOK, PaymentsInv, Present, vars

LEMMA InitiateLookupStep ==
    ASSUME PaymentsInv, NEW c \in Calls, InitiateLookup(c)
    PROVE  PaymentsInv'
<1> DEFINE p == call[c].pay.pidx
           b == call[c].id
<1>1. /\ call[c].at = "pay.lookup" /\ b \in BookingIds
      /\ mismatches \subseteq BookingIds /\ receipts \subseteq BookingIds
  BY DEF InitiateLookup, PaymentsInv, PaymentsTypeOK, Fits
<1>2. CASE /\ khalti[p].status = "Completed"
           /\ AmountMatches(p, call[c].pay)
           /\ GotoCall(c, "pay.apply")
           /\ UNCHANGED <<khalti, mismatches>>
  <2>1. PaidFor(b)
    BY <1>1, <1>2, MatchSettles
  <2>2. /\ [call[c] EXCEPT !.at = "pay.apply"] \in CallSlots
        /\ Fits([call[c] EXCEPT !.at = "pay.apply"])
    BY <1>1, <2>1, PointFits DEF CallPoints
  <2> QED
    BY <1>1, <1>2, <2>2, GotoCallSlot, CallMovesQuietly DEF InitiateLookup
<1>3. CASE /\ GotoCall(c, "pay.void")
           /\ mismatches' = mismatches \cup {b}
           /\ UNCHANGED khalti
  <2>1. /\ [call[c] EXCEPT !.at = "pay.void"] \in CallSlots
        /\ Fits([call[c] EXCEPT !.at = "pay.void"])
    BY <1>1, PointFits DEF CallPoints
  <2> QED
    BY <1>1, <1>3, <2>1, GotoCallSlot, CallMovesQuietly DEF InitiateLookup
<1>4. CASE /\ EndCall(c)
           /\ khalti' = [khalti EXCEPT ![p].handed = TRUE]
           /\ UNCHANGED mismatches
  <2>1. KhaltiGrows /\ KhaltiOK' /\ khalti' \in [Pidxs -> KhaltiPayments]
    BY <1>4, HandedKept DEF InitiateLookup
  <2>2. Grows
    BY BookingsUntouched DEF PaymentsInv, InitiateLookup, vars
  <2>3. Fits(NoCall)'
    BY <2>1, <2>2, NoPaymentFits, FitsKept
  <2> QED
    BY <1>1, <1>4, <2>1, <2>3, NoPaymentFits, CallMoves
    DEF InitiateLookup, EndCall, PaymentsInv, PaymentsTypeOK
<1>5. CASE /\ GotoCall(c, "pay.clear")
           /\ UNCHANGED <<khalti, mismatches>>
  <2>1. /\ [call[c] EXCEPT !.at = "pay.clear"] \in CallSlots
        /\ Fits([call[c] EXCEPT !.at = "pay.clear"])
    BY <1>1, PointFits DEF CallPoints
  <2> QED
    BY <1>1, <1>5, <2>1, GotoCallSlot, CallMovesQuietly DEF InitiateLookup
<1> QED
  BY <1>2, <1>3, <1>4, <1>5 DEF InitiateLookup

\* Clearing leaves nothing that could be of another booking.
LEMMA ClearedFields ==
    ASSUME NEW stored \in PaymentFields, NEW read \in PaymentFields, NEW b,
           FieldsOK(stored, b)
    PROVE  /\ Cleared(stored, read) \in PaymentFields
           /\ FieldsOK(Cleared(stored, read), b)
<1> DEFINE fields == Cleared(stored, read)
<1>1. fields \in PaymentFields
  <2>1. NoAmount \in Int
    BY DEF NoAmount
  <2> QED
    BY <2>1 DEF Cleared, PaymentFields
<1>2. fields.pidx = None /\ fields.amount \in {stored.amount, NoAmount}
  BY DEF Cleared, PaymentFields
<1> HIDE DEF fields
<1>3. FieldsOK(fields, b)
  BY <1>2 DEF FieldsOK
<1> QED
  BY <1>1, <1>3 DEF fields

\* A save of payment fields of a stored booking.
LEMMA PaySaved ==
    ASSUME PaymentsInv, UNCHANGED <<vars, khalti>>,
           NEW b \in BookingIds, Present(b),
           NEW fields \in PaymentFields, FieldsOK(fields, b),
           pay' = [pay EXCEPT ![b] = fields]
    PROVE  /\ pay' \in [BookingIds -> PaymentFields]
           /\ \A a \in BookingIds : pay'[a] = pay[a] \/ PayOK(a)'
<1>1. /\ pay' \in [BookingIds -> PaymentFields]
      /\ pay'[b] = fields
      /\ \A a \in BookingIds \ {b} : pay'[a] = pay[a]
  BY DEF PaymentsInv, PaymentsTypeOK
<1>2. PayOK(b)'
  BY <1>1 DEF PayOK, FieldsOK, Minted, AmountPaisa, Present, vars
<1> QED
  BY <1>1, <1>2

LEMMA InitiateClearStep ==
    ASSUME PaymentsInv, NEW c \in Calls, InitiateClear(c)
    PROVE  PaymentsInv'
<1>1. PICK b : b = call[c].id
  OBVIOUS
<1>2. /\ b \in BookingIds /\ Present(b) /\ FieldsOK(pay[b], b)
      /\ FieldsOK(call[c].pay, b) /\ Fits(call[c]) /\ call[c].at # "idle"
      /\ call[c] \in CallSlots /\ call[c].pay \in PaymentFields
      /\ pay[b] \in PaymentFields
  BY <1>1 DEF InitiateClear, PaymentsInv, PaymentsTypeOK, Fits, PayOK, CallSlots
<1>3. /\ Cleared(pay[b], call[c].pay) \in PaymentFields
      /\ FieldsOK(Cleared(pay[b], call[c].pay), b)
      /\ pay' = [pay EXCEPT ![b] = Cleared(pay[b], call[c].pay)]
  BY <1>1, <1>2, ClearedFields DEF InitiateClear, PaymentsInv, PaymentsTypeOK
<1>4. /\ pay' \in [BookingIds -> PaymentFields]
      /\ \A a \in BookingIds : pay'[a] = pay[a] \/ PayOK(a)'
  BY <1>2, <1>3, PaySaved DEF InitiateClear
<1>5. Grows /\ KhaltiGrows /\ KhaltiOK'
  BY BookingsUntouched, KhaltiKept DEF InitiateClear, PaymentsInv, vars
<1>6. PICK slot \in CallSlots : call' = [call EXCEPT ![c] = slot] /\ Fits(slot)
  <2>1. CASE call[c].at = "pay.void"
    BY <2>1, NoPaymentFits DEF InitiateClear, EndCall
  <2>2. CASE call[c].at # "pay.void"
    <3> DEFINE fresh == Cleared(call[c].pay, call[c].pay)
               slot == [call[c] EXCEPT !.at = "pay.mint", !.pay = fresh]
    <3>1. fresh \in PaymentFields /\ FieldsOK(fresh, b)
      BY <1>2, ClearedFields
    <3>2. /\ slot \in CallSlots
          /\ slot.at = "pay.mint"
          /\ slot.id = b
          /\ slot.pay = fresh
          /\ slot.reply = call[c].reply
      BY <1>1, <1>2, <3>1 DEF CallSlots, CallPoints
    <3>3. call' = [call EXCEPT ![c] = slot]
      BY <1>2, <2>2 DEF InitiateClear, PaymentsInv, PaymentsTypeOK, CallSlots
    <3> HIDE DEF fresh, slot
    <3>4. Fits(slot)
      BY <1>1, <1>2, <3>1, <3>2 DEF Fits
    <3> QED
      BY <3>2, <3>3, <3>4
  <2> QED
    BY <2>1, <2>2
<1>7. Fits(slot)'
  BY <1>5, <1>6, FitsKept
<1> QED
  BY <1>4, <1>5, <1>6, <1>7, CallMoves
  DEF InitiateClear, PaymentsInv, PaymentsTypeOK

LEMMA InitiateMintStep ==
    ASSUME PaymentsInv, NEW c \in Calls, InitiateMint(c)
    PROVE  PaymentsInv'
<1>1. PICK b : b = call[c].id
  OBVIOUS
<1>2. PICK p \in Pidxs :
         /\ khalti[p].status = "unknown"
         /\ khalti' = [khalti EXCEPT ![p] =
               [booking |-> b, status |-> "Initiated",
                amount |-> AmountPaisa(b), total |-> AmountPaisa(b),
                handed |-> FALSE]]
         /\ call' = [call EXCEPT ![c].at = "pay.save", ![c].pidx = p]
  BY <1>1 DEF InitiateMint
<1>3. /\ b \in BookingIds /\ Present(b) /\ Fits(call[c])
      /\ call[c] \in CallSlots /\ call[c].at = "pay.mint"
      /\ khalti \in [Pidxs -> KhaltiPayments]
  BY <1>1 DEF InitiateMint, PaymentsInv, PaymentsTypeOK, Fits
<1>4. AmountPaisa(b) \in Int
  <2>1. bookings[b].fee \in Nat /\ bookings[b].deposit \in Nat
    BY <1>3 DEF PaymentsInv, PaymentsTypeOK, TypeOK, Documents
  <2> QED
    BY <2>1 DEF AmountPaisa
<1>5. /\ khalti' \in [Pidxs -> KhaltiPayments]
      /\ khalti'[p].status = "Initiated"
      /\ khalti'[p].booking = b
      /\ \A q \in Pidxs \ {p} : khalti'[q] = khalti[q]
  BY <1>2, <1>3, <1>4 DEF KhaltiPayments, KhaltiStatuses
<1>6. KhaltiGrows /\ KhaltiOK'
  BY <1>2, <1>3, <1>5
  DEF KhaltiGrows, KhaltiOK, PaymentsInv, Present, InitiateMint, vars
<1>7. Grows
  BY BookingsUntouched DEF InitiateMint, PaymentsInv, vars
<1> DEFINE slot == [call[c] EXCEPT !.at = "pay.save", !.pidx = p]
<1>8. /\ slot \in CallSlots
      /\ slot.at = "pay.save"
      /\ slot.id = b
      /\ slot.pay = call[c].pay
      /\ slot.pidx = p
      /\ slot.reply = call[c].reply
  BY <1>1, <1>3 DEF CallSlots, CallPoints
<1>9. call' = [call EXCEPT ![c] = slot]
  BY <1>2, <1>3 DEF PaymentsInv, PaymentsTypeOK, CallSlots
<1>10. PICK new : new = slot
  OBVIOUS
<1> HIDE DEF slot
<1>11. Fits(new)'
  <2>1. PICK old : old = call[c]
    OBVIOUS
  <2>2. Fits(old)'
    BY <1>3, <1>6, <1>7, <2>1, FitsKept
  <2>3. Minted(p, b)'
    BY <1>2, <1>5 DEF Minted
  <2> QED
    BY <1>1, <1>3, <1>8, <1>10, <2>1, <2>2, <2>3 DEF Fits
<1> QED
  BY <1>5, <1>6, <1>8, <1>9, <1>10, <1>11, CallMoves
  DEF InitiateMint, PaymentsInv, PaymentsTypeOK

LEMMA InitiateSaveStep ==
    ASSUME PaymentsInv, NEW c \in Calls, InitiateSave(c)
    PROVE  PaymentsInv'
<1>1. PICK b : b = call[c].id
  OBVIOUS
<1>2. /\ b \in BookingIds /\ Present(b) /\ FieldsOK(pay[b], b)
      /\ Minted(call[c].pidx, b) /\ call[c].at = "pay.save"
      /\ pay[b] \in PaymentFields
      /\ bookings[b].fee \in Nat /\ bookings[b].deposit \in Nat
  BY <1>1 DEF InitiateSave, PaymentsInv, PaymentsTypeOK, Fits, PayOK, TypeOK, Documents
<1> DEFINE fields == Recorded(pay[b], call[c].pay, call[c].pidx, AmountPaisa(b))
<1>3. fields \in PaymentFields /\ FieldsOK(fields, b)
  <2>1. call[c].pidx \in Pidxs /\ AmountPaisa(b) \in Int
    BY <1>2 DEF Minted, AmountPaisa
  <2> QED
    BY <1>2, <2>1 DEF Recorded, PaymentFields, FieldsOK
<1>4. pay' = [pay EXCEPT ![b] = fields]
  BY <1>1 DEF InitiateSave
<1> HIDE DEF fields
<1>5. /\ pay' \in [BookingIds -> PaymentFields]
      /\ \A a \in BookingIds : pay'[a] = pay[a] \/ PayOK(a)'
  BY <1>2, <1>3, <1>4, PaySaved DEF InitiateSave
<1>6. Grows /\ KhaltiGrows /\ KhaltiOK'
  BY BookingsUntouched, KhaltiKept DEF InitiateSave, PaymentsInv, vars
<1>7. PICK slot \in CallSlots : call' = [call EXCEPT ![c] = slot] /\ Fits(slot)
  <2>1. /\ [call[c] EXCEPT !.at = "pay.hand"] \in CallSlots
        /\ Fits([call[c] EXCEPT !.at = "pay.hand"])
    BY <1>1, <1>2, PointFits DEF CallPoints
  <2> QED
    BY <2>1, GotoCallSlot DEF InitiateSave
<1>8. Fits(slot)'
  BY <1>6, <1>7, FitsKept
<1> QED
  BY <1>5, <1>6, <1>7, <1>8, CallMoves
  DEF InitiateSave, PaymentsInv, PaymentsTypeOK

LEMMA InitiateHandStep ==
    ASSUME PaymentsInv, NEW c \in Calls, InitiateHand(c)
    PROVE  PaymentsInv'
<1>1. KhaltiGrows /\ KhaltiOK' /\ khalti' \in [Pidxs -> KhaltiPayments]
  BY HandedKept DEF InitiateHand
<1>2. Grows
  BY BookingsUntouched DEF PaymentsInv, InitiateHand, vars
<1>3. Fits(NoCall)'
  BY <1>1, <1>2, NoPaymentFits, FitsKept
<1> QED
  BY <1>1, <1>3, NoPaymentFits, CallMoves
  DEF InitiateHand, EndCall, PaymentsInv, PaymentsTypeOK

-----------------------------------------------------------------------------
(* GET /bookings/:id/payment/callback                                      *)

\* A payment handler answers the payer.
LEMMA ToldMove ==
    ASSUME PaymentsInv, NEW c \in Calls, NEW slot \in CallSlots,
           UNCHANGED <<vars, pay, khalti, receipts, mismatches>>,
           call' = [call EXCEPT ![c] = slot], Fits(slot),
           NEW b, NEW result \in Results, told' = [told EXCEPT ![b] = result],
           result = "success" => PaidFor(b)
    PROVE  PaymentsInv'
<1>1. Grows
  BY BookingsUntouched DEF PaymentsInv, vars
<1>2. KhaltiGrows /\ KhaltiOK'
  BY <1>1, KhaltiKept
<1>3. Fits(slot)'
  BY <1>1, <1>2, FitsKept
<1>4. /\ told' \in [BookingIds -> Results]
      /\ \A a \in BookingIds : told'[a] = told[a] \/ (a = b /\ told'[a] = result)
  BY DEF PaymentsInv, PaymentsTypeOK
<1>5. PaidFor(b) => PaidFor(b)'
  BY DEF PaidFor, Settled, AmountPaisa, vars
<1> QED
  BY <1>2, <1>3, <1>4, <1>5, CallMoves DEF PaymentsInv, PaymentsTypeOK

LEMMA PaymentCallbackStep ==
    ASSUME PaymentsInv, NEW c \in Calls, NEW b \in BookingIds,
           PaymentCallback(c, b)
    PROVE  PaymentsInv'
<1>1. call[c] \in CallSlots /\ Fits(call[c]) /\ call = [call EXCEPT ![c] = call[c]]
  BY DEF PaymentsInv, PaymentsTypeOK
<1>2. CASE pay[b].pidx = None
  BY <1>1, <1>2, ToldMove DEF PaymentCallback, Results
<1>3. CASE pay[b].pidx # None
  <2> DEFINE slot == [NoCall EXCEPT !.at = "cb.lookup", !.id = b, !.pay = pay[b]]
  <2>1. FieldsOK(pay[b], b) /\ pay[b] \in PaymentFields
    BY DEF PaymentsInv, PayOK, PaymentsTypeOK
  <2>2. slot \in CallSlots
    BY <2>1, NoPaymentFits DEF CallSlots, CallPoints
  <2>3. /\ slot.at = "cb.lookup"
        /\ slot.id = b
        /\ slot.pay = pay[b]
        /\ slot.reply = "none"
    BY DEF NoCall
  <2>4. call' = [call EXCEPT ![c] = slot]
    BY <1>3 DEF PaymentCallback
  <2> HIDE DEF slot
  <2>5. Fits(slot)
    BY <1>3, <2>1, <2>3 DEF Fits, PaymentCallback
  <2> QED
    BY <1>3, <2>2, <2>4, <2>5, CallMovesQuietly
    DEF PaymentCallback, PaymentsInv, PaymentsTypeOK
<1> QED
  BY <1>2, <1>3

LEMMA CallbackLookupStep ==
    ASSUME PaymentsInv, NEW c \in Calls, CallbackLookup(c)
    PROVE  PaymentsInv'
<1> DEFINE p == call[c].pay.pidx
           b == call[c].id
<1>1. /\ call[c].at = "cb.lookup" /\ b \in BookingIds
      /\ mismatches \subseteq BookingIds /\ receipts \subseteq BookingIds
  BY DEF CallbackLookup, PaymentsInv, PaymentsTypeOK, Fits
<1>2. CASE /\ GotoCall(c, "cb.clear")
           /\ mismatches' \in {mismatches \cup {b}, mismatches}
           /\ UNCHANGED told
  <2>1. /\ [call[c] EXCEPT !.at = "cb.clear"] \in CallSlots
        /\ Fits([call[c] EXCEPT !.at = "cb.clear"])
    BY <1>1, PointFits DEF CallPoints
  <2> QED
    BY <1>1, <1>2, <2>1, GotoCallSlot, CallMovesQuietly DEF CallbackLookup
<1>3. CASE /\ khalti[p].status = "Completed"
           /\ AmountMatches(p, call[c].pay)
           /\ GotoCall(c, "cb.apply")
           /\ UNCHANGED <<told, mismatches>>
  <2>1. PaidFor(b)
    BY <1>1, <1>3, MatchSettles
  <2>2. /\ [call[c] EXCEPT !.at = "cb.apply"] \in CallSlots
        /\ Fits([call[c] EXCEPT !.at = "cb.apply"])
    BY <1>1, <2>1, PointFits DEF CallPoints
  <2> QED
    BY <1>1, <1>3, <2>2, GotoCallSlot, CallMovesQuietly DEF CallbackLookup
<1>4. CASE /\ EndCall(c)
           /\ told' = [told EXCEPT ![b] = "pending"]
           /\ UNCHANGED mismatches
  <2>1. PICK a : a = b
    OBVIOUS
  <2> QED
    BY <1>4, <2>1, NoPaymentFits, ToldMove DEF CallbackLookup, EndCall, Results
<1> QED
  BY <1>2, <1>3, <1>4 DEF CallbackLookup

LEMMA CallbackClearStep ==
    ASSUME PaymentsInv, NEW c \in Calls, CallbackClear(c)
    PROVE  PaymentsInv'
<1>1. PICK b : b = call[c].id
  OBVIOUS
<1>2. /\ b \in BookingIds /\ Present(b) /\ FieldsOK(pay[b], b)
      /\ call[c].at # "idle"
      /\ call[c].pay \in PaymentFields
      /\ pay[b] \in PaymentFields
  BY <1>1 DEF CallbackClear, PaymentsInv, PaymentsTypeOK, Fits, PayOK, CallSlots
<1>3. /\ Cleared(pay[b], call[c].pay) \in PaymentFields
      /\ FieldsOK(Cleared(pay[b], call[c].pay), b)
      /\ pay' = [pay EXCEPT ![b] = Cleared(pay[b], call[c].pay)]
  BY <1>1, <1>2, ClearedFields DEF CallbackClear, PaymentsInv, PaymentsTypeOK
<1>4. /\ pay' \in [BookingIds -> PaymentFields]
      /\ \A a \in BookingIds : pay'[a] = pay[a] \/ PayOK(a)'
  BY <1>2, <1>3, PaySaved DEF CallbackClear
<1>5. Grows /\ KhaltiGrows /\ KhaltiOK'
  BY BookingsUntouched, KhaltiKept DEF CallbackClear, PaymentsInv, vars
<1>6. PICK slot \in CallSlots : call' = [call EXCEPT ![c] = slot] /\ Fits(slot)
  BY <1>2, AnswerFits, AnswerWithSlot DEF CallbackClear, Results
<1>7. Fits(slot)'
  BY <1>5, <1>6, FitsKept
<1> QED
  BY <1>4, <1>5, <1>6, <1>7, CallMoves
  DEF CallbackClear, PaymentsInv, PaymentsTypeOK

LEMMA CallbackReplyStep ==
    ASSUME PaymentsInv, NEW c \in Calls, CallbackReply(c)
    PROVE  PaymentsInv'
<1>1. PICK b : b = call[c].id
  OBVIOUS
<1>2. PICK result \in Results : result = call[c].reply
  BY DEF PaymentsInv, PaymentsTypeOK, CallSlots
<1>3. result = "success" => PaidFor(b)
  BY <1>1, <1>2 DEF CallbackReply, PaymentsInv, Fits
<1> QED
  BY <1>1, <1>2, <1>3, NoPaymentFits, ToldMove DEF CallbackReply, EndCall

-----------------------------------------------------------------------------
(* applyVerifiedPayment                                                    *)

\* The guarded update is the payment step of the booking module.
LEMMA ApplyIsPayment ==
    ASSUME PaymentsInv, NEW c \in Calls, Apply(c)
    PROVE  PaymentStep
<1>1. call[c].id \in BookingIds
  BY DEF Apply, PaymentsInv, Fits
<1> QED
  BY <1>1 DEF Apply, PaymentStep, PaymentVerified

LEMMA ApplyStep ==
    ASSUME PaymentsInv, NEW c \in Calls, Apply(c)
    PROVE  PaymentsInv'
<1>1. PICK b : b = call[c].id
  OBVIOUS
<1>2. /\ b \in BookingIds /\ Present(b) /\ PaidFor(b) /\ FieldsOK(pay[b], b)
      /\ call[c].at \in {"pay.apply", "cb.apply"}
      /\ pay[b] \in PaymentFields
  BY <1>1 DEF Apply, PaymentsInv, PaymentsTypeOK, Fits, PayOK
<1>3. BookingsInv' /\ Grows
  BY ApplyIsPayment, NextKeeps DEF PaymentsInv, BookingsNext
<1>4. KhaltiGrows /\ KhaltiOK'
  BY <1>3, KhaltiKept DEF Apply
<1>5. PICK slot \in CallSlots : call' = [call EXCEPT ![c] = slot] /\ Fits(slot)
  <2> DEFINE point == IF call[c].at = "pay.apply" THEN "pay.receipt" ELSE "cb.receipt"
  <2>1. /\ [call[c] EXCEPT !.at = point] \in CallSlots
        /\ Fits([call[c] EXCEPT !.at = point])
    BY <1>1, <1>2, PointFits DEF CallPoints
  <2> QED
    BY <1>1, <2>1, GotoCallSlot DEF Apply
<1>6. /\ call' \in [Calls -> CallSlots]
      /\ call'[c] = slot
      /\ \A d \in Calls \ {c} : call'[d] = call[d]
  BY <1>5 DEF PaymentsInv, PaymentsTypeOK
<1>7. Fits(call[c])'
  BY <1>3, <1>4, <1>5, <1>6, FitsKept, FitsThere
<1> DEFINE fields == [pay[b] EXCEPT !.verified = TRUE]
<1>8. /\ fields \in PaymentFields
      /\ fields.pidx = pay[b].pidx
      /\ fields.amount = pay[b].amount
      /\ pay' = [pay EXCEPT ![b] = fields]
  <2>1. /\ fields \in PaymentFields
        /\ fields.pidx = pay[b].pidx
        /\ fields.amount = pay[b].amount
    BY <1>2 DEF PaymentFields
  <2>2. pay' = [pay EXCEPT ![b].verified = TRUE]
    BY <1>1 DEF Apply
  <2>3. pay' = [pay EXCEPT ![b] = fields]
    BY <2>2
  <2> HIDE DEF fields
  <2> QED
    BY <2>1, <2>3
<1> HIDE DEF fields
<1>9. /\ pay' \in [BookingIds -> PaymentFields]
      /\ pay'[b] = fields
      /\ \A a \in BookingIds \ {b} : pay'[a] = pay[a]
  <2>1. pay \in [BookingIds -> PaymentFields]
    BY DEF PaymentsInv, PaymentsTypeOK
  <2> QED
    BY <1>2, <1>8, <2>1
<1>10. PayOK(b)'
  <2>1. FieldsOK(fields, b)
    BY <1>2, <1>8 DEF FieldsOK
  <2>2. PICK f : f = fields
    OBVIOUS
  <2>3. FieldsOK(f, b)'
    BY <1>2, <1>3, <1>4, <2>1, <2>2, FieldsKept
  <2>4. Present(b)'
    BY <1>2, <1>3 DEF Grows, Present
  <2> QED
    BY <1>9, <2>2, <2>3, <2>4 DEF PayOK, FieldsOK
<1>11. PaidFor(b)'
  BY <1>2, <1>3, <1>4, PaidForKept
<1>12. \A a \in BookingIds : HasBeen(a, "paid")' => HasBeen(a, "paid") \/ PaidFor(a)'
  <2>1. \A a \in BookingIds \ {b} : bookings'[a] = bookings[a]
    BY <1>1 DEF Apply, ApplyVerifiedPayment, Pay, PaymentsInv, PaymentsTypeOK, TypeOK
  <2> QED
    BY <1>11, <2>1 DEF HasBeen
<1>13. PaymentsTypeOK'
  BY <1>3, <1>6, <1>9 DEF PaymentsTypeOK, BookingsInv, PaymentsInv, Apply
<1>14. \A a \in BookingIds : pay'[a] = pay[a] \/ PayOK(a)'
  BY <1>9, <1>10
<1>15. \A d \in Calls : call'[d] = call[d] \/ Fits(call[d])'
  BY <1>6, <1>7
<1>16. UNCHANGED told
  BY DEF Apply
<1> QED
  BY <1>3, <1>4, <1>12, <1>13, <1>14, <1>15, <1>16, PaymentsMove

LEMMA AlreadyAppliedStep ==
    ASSUME PaymentsInv, NEW c \in Calls, AlreadyApplied(c)
    PROVE  PaymentsInv'
<1>1. /\ receipts \subseteq BookingIds /\ mismatches \subseteq BookingIds
      /\ PaidFor(call[c].id) /\ call[c].at # "idle"
  BY DEF AlreadyApplied, PaymentsInv, PaymentsTypeOK, Fits
<1>2. CASE EndCall(c)
  BY <1>1, <1>2, EndCallStep DEF AlreadyApplied
<1>3. CASE AnswerWith(c, "success")
  <2> DEFINE slot == [call[c] EXCEPT !.at = "cb.reply", !.reply = "success"]
  <2>1. slot \in CallSlots /\ Fits(slot)
    BY <1>1, AnswerFits DEF Results
  <2>2. call' = [call EXCEPT ![c] = slot]
    BY <1>3, AnswerWithSlot
  <2> HIDE DEF slot
  <2> QED
    BY <1>1, <2>1, <2>2, CallMovesQuietly DEF AlreadyApplied
<1> QED
  BY <1>2, <1>3 DEF AlreadyApplied

LEMMA ReceiptStep ==
    ASSUME PaymentsInv, NEW c \in Calls, Receipt(c)
    PROVE  PaymentsInv'
<1>1. /\ receipts' \subseteq BookingIds /\ mismatches' \subseteq BookingIds
      /\ PaidFor(call[c].id) /\ call[c].at # "idle"
  BY DEF Receipt, PaymentsInv, PaymentsTypeOK, Fits
<1>2. CASE EndCall(c)
  BY <1>1, <1>2, EndCallStep DEF Receipt
<1>3. CASE AnswerWith(c, "success")
  <2> DEFINE slot == [call[c] EXCEPT !.at = "cb.reply", !.reply = "success"]
  <2>1. slot \in CallSlots /\ Fits(slot)
    BY <1>1, AnswerFits DEF Results
  <2>2. call' = [call EXCEPT ![c] = slot]
    BY <1>3, AnswerWithSlot
  <2> HIDE DEF slot
  <2> QED
    BY <1>1, <2>1, <2>2, CallMovesQuietly DEF Receipt
<1> QED
  BY <1>2, <1>3 DEF Receipt

-----------------------------------------------------------------------------
(* Khalti, the payer, and the booking handlers                             *)

\* Khalti moves a payment it gave out, and keeps the total of one completed.
LEMMA KhaltiStep ==
    ASSUME PaymentsInv, NEW p \in Pidxs, PayerPays(p) \/ KhaltiMoves(p)
    PROVE  PaymentsInv'
<1>1. khalti \in [Pidxs -> KhaltiPayments]
  BY DEF PaymentsInv, PaymentsTypeOK
<1>2. PICK status \in KhaltiStatuses \ {"unknown"}, total \in Int :
         /\ khalti' = [khalti EXCEPT ![p].status = status, ![p].total = total]
         /\ khalti[p].status # "unknown"
         /\ khalti[p].status \in {"Completed", "Refunded"} =>
               /\ status \in {"Completed", "Refunded"}
               /\ total = khalti[p].total
  <2>1. CASE PayerPays(p)
    <3>1. PICK d \in Deviations :
             khalti' = [khalti EXCEPT ![p].status = "Completed", ![p].total = @ + d]
      BY <2>1 DEF PayerPays
    <3>2. khalti[p].total + d \in Int
      BY <1>1, DeviationsAssumption DEF KhaltiPayments
    <3> QED
      BY <2>1, <3>1, <3>2 DEF PayerPays, KhaltiStatuses
  <2>2. CASE KhaltiMoves(p)
    <3>1. PICK step \in {<<"Initiated", "Pending">>, <<"Initiated", "Expired">>,
                         <<"Pending", "Expired">>, <<"Completed", "Refunded">>} :
             /\ khalti[p].status = step[1]
             /\ khalti' = [khalti EXCEPT ![p].status = step[2]]
      BY <2>2 DEF KhaltiMoves
    <3>2. khalti' = [khalti EXCEPT ![p].status = step[2], ![p].total = khalti[p].total]
      BY <1>1, <3>1 DEF KhaltiPayments
    <3>3. khalti[p].total \in Int
      BY <1>1 DEF KhaltiPayments
    <3>4. /\ step[2] \in KhaltiStatuses \ {"unknown"}
          /\ step[1] \notin {"unknown", "Refunded"}
          /\ step[1] = "Completed" => step[2] = "Refunded"
      BY <3>1 DEF KhaltiStatuses
    <3>5. PICK status : status = step[2]
      OBVIOUS
    <3> QED
      BY <3>1, <3>2, <3>3, <3>4, <3>5
  <2> QED
    BY <2>1, <2>2
<1>3. /\ khalti' \in [Pidxs -> KhaltiPayments]
      /\ khalti'[p].status = status
      /\ khalti'[p].booking = khalti[p].booking
      /\ khalti'[p].total = total
      /\ \A q \in Pidxs \ {p} : khalti'[q] = khalti[q]
  BY <1>1, <1>2 DEF KhaltiPayments
<1>4. UNCHANGED <<vars, pay, call, told, receipts, mismatches>>
  BY DEF PayerPays, KhaltiMoves
<1>5. KhaltiGrows
  BY <1>2, <1>3 DEF KhaltiGrows
<1>6. KhaltiOK'
  BY <1>2, <1>3, <1>4 DEF KhaltiOK, PaymentsInv, Present, vars
<1>7. BookingsInv' /\ Grows
  BY <1>4, StutterKeeps, BookingsUntouched DEF PaymentsInv, vars
<1>8. PaymentsTypeOK'
  BY <1>3, <1>4, <1>7 DEF PaymentsTypeOK, PaymentsInv, BookingsInv
<1>9. \A b \in BookingIds : HasBeen(b, "paid")' => HasBeen(b, "paid")
  BY <1>4 DEF HasBeen, vars
<1> QED
  BY <1>4, <1>5, <1>6, <1>7, <1>8, <1>9, PaymentsMove

\* The handlers of the booking module, other than its payment step.
HandlersStep ==
    (\E r \in Requests : Receive(r) \/ Continue(r) \/ Fail(r)) \/ Read

\* Only a payment writes 'paid' into a history.
LEMMA OnlyPaymentsPay ==
    ASSUME BookingsInv, HandlersStep, NEW b \in BookingIds, HasBeen(b, "paid")'
    PROVE  HasBeen(b, "paid")
<1>1. CASE UNCHANGED bookings
  BY <1>1 DEF HasBeen
<1>2. ASSUME NEW r \in Requests, CreateInsert(r) PROVE HasBeen(b, "paid")
  <2>1. CreatingOK(r)
    BY <1>2 DEF BookingsInv, SlotsInv, SlotOK, CreateInsert, Creating
  <2>2. CASE b = req[r].id
    <3>1. bookings'[b].history = <<[status |-> "requested", by |-> req[r].doc.borrower]>>
      BY <1>2, <2>1, <2>2 DEF CreateInsert, CreatingOK, BookingsInv, TypeOK
    <3>2. ~HasBeen(b, "paid")'
      BY <3>1 DEF HasBeen
    <3> QED
      BY <3>2
  <2>3. CASE b # req[r].id
    BY <1>2, <2>3 DEF CreateInsert, HasBeen, BookingsInv, TypeOK
  <2> QED
    BY <2>2, <2>3
<1>3. ASSUME NEW r \in Requests, CreateSeal(r) PROVE HasBeen(b, "paid")
  <2>1. bookings'[b].history = bookings[b].history
    BY <1>3 DEF CreateSeal, BookingsInv, TypeOK, Documents
  <2> QED
    BY <2>1 DEF HasBeen
<1>4. ASSUME NEW r \in Requests, req[r].at \in {"change.save", "resolve.save"},
             SaveStatus(r)
      PROVE  HasBeen(b, "paid")
  <2> DEFINE h == bookings[b].history
             e == [status |-> req[r].to, by |-> req[r].user]
  <2>1. SavingOK(r)
    BY <1>4 DEF BookingsInv, SlotsInv, SlotOK
  <2>2. h \in Seq(HistoryEntries) /\ e \in HistoryEntries /\ e.status # "paid"
    BY <2>1 DEF BookingsInv, TypeOK, Documents, SavingOK, HistoryEntries
  <2>3. bookings'[b].history = h \/ bookings'[b].history = Append(h, e)
    <3>1. bookings \in [BookingIds -> Documents]
      BY DEF BookingsInv, TypeOK
    <3>2. CASE b # req[r].id
      BY <1>4, <3>1, <3>2 DEF SaveStatus
    <3>3. CASE b = req[r].id
      <4> DEFINE hash == ComputeIntegrityHash([req[r].doc EXCEPT !.status = req[r].to])
      <4>1. bookings'[b] = [bookings[b] EXCEPT !.status  = req[r].to,
                                               !.history = Append(@, e),
                                               !.hash    = hash]
        BY <1>4, <3>1, <3>3 DEF SaveStatus
      <4>2. bookings[b] \in Documents
        BY <3>1
      <4> HIDE DEF hash, e
      <4> QED
        BY <4>1, <4>2 DEF Documents
    <3> QED
      BY <3>2, <3>3
  <2>4. PICK i \in DOMAIN bookings'[b].history : bookings'[b].history[i].status = "paid"
    BY DEF HasBeen
  <2> HIDE DEF e
  <2>5. i \in DOMAIN h /\ bookings'[b].history[i] = h[i]
    <3>1. CASE bookings'[b].history = Append(h, e)
      <4>1. /\ DOMAIN Append(h, e) = 1..(Len(h) + 1)
            /\ \A k \in 1..Len(h) : Append(h, e)[k] = h[k]
            /\ Append(h, e)[Len(h) + 1] = e
            /\ Len(h) \in Nat /\ DOMAIN h = 1..Len(h)
        BY <2>2, AppendEntry
      <4>2. i # Len(h) + 1
        BY <2>2, <2>4, <3>1, <4>1
      <4> QED
        BY <2>4, <3>1, <4>1, <4>2
    <3> QED
      BY <2>3, <2>4, <3>1
  <2> QED
    BY <2>4, <2>5 DEF HasBeen
<1>5. CASE Read
  BY <1>1, <1>5 DEF Read, GetBooking
<1>6. ASSUME NEW r \in Requests, Receive(r) \/ Continue(r) \/ Fail(r)
      PROVE  HasBeen(b, "paid")
  BY <1>1, <1>2, <1>3, <1>4, <1>6
  DEF Receive, CreateBooking, ChangeStatus, ResolveDispute, Fail, Continue,
      CreateClash, CreateNotify, ChangeSave, ChangeNotify, ResolveSave
<1> QED
  BY <1>5, <1>6 DEF HandlersStep

LEMMA BookingStepKeeps ==
    ASSUME PaymentsInv, BookingStep
    PROVE  PaymentsInv'
<1>1. HandlersStep /\ UNCHANGED payVars
  BY DEF BookingStep, HandlersStep
<1>2. BookingsInv' /\ Grows
  BY <1>1, NextKeeps DEF HandlersStep, PaymentsInv, BookingsNext
<1>3. KhaltiGrows /\ KhaltiOK'
  BY <1>1, <1>2, KhaltiKept DEF payVars
<1>4. PaymentsTypeOK'
  BY <1>1, <1>2 DEF PaymentsTypeOK, PaymentsInv, BookingsInv, payVars
<1>5. \A b \in BookingIds : HasBeen(b, "paid")' => HasBeen(b, "paid")
  BY <1>1, OnlyPaymentsPay DEF PaymentsInv
<1> QED
  BY <1>1, <1>2, <1>3, <1>4, <1>5, PaymentsMove DEF payVars

-----------------------------------------------------------------------------
(* The theorems                                                            *)

LEMMA PaymentsInitKeeps == PaymentsInit => PaymentsInv
<1> SUFFICES ASSUME PaymentsInit PROVE PaymentsInv
  OBVIOUS
<1>1. BookingsInv
  BY InitKeeps DEF PaymentsInit
<1>2. \A b \in BookingIds : ~HasBeen(b, "paid") /\ ~Present(b)
  BY DEF PaymentsInit, Init, HasBeen, Absent, Present
<1>3. Unknown \in KhaltiPayments
  BY DEF Unknown, KhaltiPayments, KhaltiStatuses
<1>4. PaymentsTypeOK
  BY <1>1, <1>3, NoPaymentFits DEF PaymentsInit, PaymentsTypeOK, BookingsInv, Results
<1>5. KhaltiOK
  BY DEF PaymentsInit, KhaltiOK, Unknown
<1>6. \A b \in BookingIds : PayOK(b)
  BY NoPaymentFits DEF PaymentsInit, PayOK
<1>7. \A c \in Calls : Fits(call[c])
  BY NoPaymentFits DEF PaymentsInit
<1>8. PaidOnlyIfVerified /\ SuccessOnlyIfSettled
  BY <1>2 DEF PaidOnlyIfVerified, SuccessOnlyIfSettled, PaymentsInit
<1> QED
  BY <1>1, <1>4, <1>5, <1>6, <1>7, <1>8 DEF PaymentsInv

\* Every step of the composed system keeps the invariant.
LEMMA PaymentsNextKeeps == PaymentsInv /\ PaymentsNext => PaymentsInv'
<1> SUFFICES ASSUME PaymentsInv, PaymentsNext PROVE PaymentsInv'
  OBVIOUS
<1>1. ASSUME NEW c \in Calls, ReceiveCall(c) PROVE PaymentsInv'
  BY <1>1, InitiatePaymentStep, PaymentCallbackStep DEF ReceiveCall
<1>2. ASSUME NEW c \in Calls, ContinueCall(c) PROVE PaymentsInv'
  BY <1>2, InitiateLookupStep, InitiateClearStep, InitiateMintStep, InitiateSaveStep,
     InitiateHandStep, CallbackLookupStep, CallbackClearStep, CallbackReplyStep,
     ApplyStep, AlreadyAppliedStep, ReceiptStep DEF ContinueCall
<1>3. ASSUME NEW c \in Calls, FailCall(c) PROVE PaymentsInv'
  BY <1>3, EndCallStep DEF FailCall, PaymentsInv, PaymentsTypeOK
<1>4. ASSUME NEW p \in Pidxs, PayerPays(p) \/ KhaltiMoves(p) PROVE PaymentsInv'
  BY <1>4, KhaltiStep
<1> QED
  BY <1>1, <1>2, <1>3, <1>4, BookingStepKeeps DEF PaymentsNext

LEMMA PaymentsStutterKeeps == PaymentsInv /\ UNCHANGED allVars => PaymentsInv'
<1> SUFFICES ASSUME PaymentsInv, UNCHANGED allVars PROVE PaymentsInv'
  OBVIOUS
<1>1. BookingsInv' /\ Grows
  BY StutterKeeps, BookingsUntouched DEF PaymentsInv, allVars, vars
<1>2. KhaltiGrows /\ KhaltiOK'
  BY <1>1, KhaltiKept DEF allVars, payVars
<1>3. PaymentsTypeOK'
  BY <1>1 DEF PaymentsTypeOK, PaymentsInv, BookingsInv, allVars, payVars
<1>4. \A b \in BookingIds : HasBeen(b, "paid")' => HasBeen(b, "paid")
  BY DEF HasBeen, allVars, vars
<1> QED
  BY <1>1, <1>2, <1>3, <1>4, PaymentsMove DEF allVars, payVars

\* The inductive invariant holds in every behaviour of the payment handlers,
\* the booking handlers and Khalti together.
THEOREM PaymentsAreSafe == PaymentsSpec => []PaymentsInv
<1>1. PaymentsInv /\ [PaymentsNext]_allVars => PaymentsInv'
  BY PaymentsNextKeeps, PaymentsStutterKeeps
<1> QED
  BY <1>1, PaymentsInitKeeps, PTL DEF PaymentsSpec

\* The composed system keeps its types, those of Khalti's payments included.
THEOREM PaymentsTyped == PaymentsSpec => []PaymentsTypeOK
<1>1. PaymentsInv => PaymentsTypeOK
  BY DEF PaymentsInv
<1> QED
  BY <1>1, PaymentsAreSafe, PTL

\* No booking is ever 'paid' without a payment of its own that Khalti completed
\* with the exact amount, whatever snapshots overlapping initiations, callbacks
\* and status changes act on (rules 1, 2 and 5 of payment.controller.js).
THEOREM PaidIsVerified == PaymentsSpec => []PaidOnlyIfVerified
<1>1. PaymentsInv => PaidOnlyIfVerified
  BY DEF PaymentsInv
<1> QED
  BY <1>1, PaymentsAreSafe, PTL

\* Nobody is redirected to 'success' before such a payment (paymentCallback).
THEOREM SuccessIsSettled == PaymentsSpec => []SuccessOnlyIfSettled
<1>1. PaymentsInv => SuccessOnlyIfSettled
  BY DEF PaymentsInv
<1> QED
  BY <1>1, PaymentsAreSafe, PTL

\* Every step of the composed system is a step of the booking module, or none.
LEMMA PaymentsStepIsBookings ==
    PaymentsInv /\ [PaymentsNext]_allVars => [BookingsNext]_vars
<1> SUFFICES ASSUME PaymentsInv, [PaymentsNext]_allVars PROVE [BookingsNext]_vars
  OBVIOUS
<1>1. CASE UNCHANGED allVars
  BY <1>1 DEF allVars
<1>2. CASE BookingStep
  BY <1>2 DEF BookingStep, BookingsNext
<1>3. ASSUME NEW c \in Calls, ReceiveCall(c) PROVE UNCHANGED vars
  BY <1>3 DEF ReceiveCall, InitiatePayment, PaymentCallback
<1>4. ASSUME NEW c \in Calls, Apply(c) PROVE BookingsNext
  BY <1>4, ApplyIsPayment DEF BookingsNext
<1>5. ASSUME NEW c \in Calls, ContinueCall(c), ~Apply(c) PROVE UNCHANGED vars
  BY <1>5 DEF ContinueCall, InitiateLookup, InitiateClear, InitiateMint,
              InitiateSave, InitiateHand, CallbackLookup, CallbackClear,
              CallbackReply, AlreadyApplied, Receipt
<1>6. ASSUME NEW c \in Calls, FailCall(c) PROVE UNCHANGED vars
  BY <1>6 DEF FailCall
<1>7. ASSUME NEW p \in Pidxs, PayerPays(p) \/ KhaltiMoves(p) PROVE UNCHANGED vars
  BY <1>7 DEF PayerPays, KhaltiMoves
<1> QED
  BY <1>1, <1>2, <1>3, <1>4, <1>5, <1>6, <1>7 DEF PaymentsNext

\* The payment handlers implement the booking module: what they do to a booking
\* is its payment step, or nothing (applyVerifiedPayment is the only writer).
THEOREM PaymentsRefineBookings == PaymentsSpec => ImplementsBookings
<1>1. PaymentsInit => Init
  BY DEF PaymentsInit
<1>2. PaymentsInv /\ [PaymentsNext]_allVars => [BookingsNext]_vars
  BY PaymentsStepIsBookings
<1> QED
  BY <1>1, <1>2, PaymentsAreSafe, PTL
  DEF PaymentsSpec, BookingsSpec, ImplementsBookings

\* So what holds of every booking handler holds with payments beside it,
\* whatever overlaps: a booking's history is its status, grows by steps that
\* somebody was entitled to, and its hash lags by the seal only, also after a
\* verified payment (applyVerifiedPayment's $set, $push and hash).
THEOREM RecordsSurvivePayments ==
    PaymentsSpec => /\ []StatusIsLastHistory
                    /\ []HistoryJustified
                    /\ []OnlySealCanLag
                    /\ []NoticesJustified
BY PaymentsRefineBookings, StatusFollowsHistory, HistoriesAreJustified,
   HashesLagBySealOnly, NoticesAreJustified, PTL DEF ImplementsBookings

\* No payment rewrites what a booking's history already says.
THEOREM HistoriesSurvivePayments == PaymentsSpec => HistoryNeverRewritten
BY PaymentsRefineBookings, HistoriesOnlyGrow, PTL DEF ImplementsBookings

\* While the booking handlers keep to their locks, payments arriving at any
\* moment neither give a date away twice nor raise an alert for a booking
\* nobody tampered with.
THEOREM LocksSufficeForPayments ==
    PaymentsSpec /\ []Locked => []NoDoubleBooking /\ []NoFalseTamperAlert
BY PaymentsRefineBookings, DatesAreGivenOnce, NobodyIsAccused, PTL
DEF ImplementsBookings

=============================================================================
