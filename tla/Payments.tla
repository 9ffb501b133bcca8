------------------------------ MODULE Payments ------------------------------
(***************************************************************************)
(* Paying for a booking through Khalti (controllers/payment.controller.js, *)
(* services/khalti.service.js).  The module adds to Bookings the payment   *)
(* fields of the booking document, the payments Khalti keeps, and the      *)
(* handlers of POST /bookings/:id/pay and GET /bookings/:id/payment/       *)
(* callback; it writes the rest of the document only through               *)
(* ApplyVerifiedPayment.  Those handlers too are chains of one step per    *)
(* await, on the database or on Khalti.                                    *)
(***************************************************************************)
EXTENDS Bookings

CONSTANTS
    Pidxs,        \* the payment ids Khalti can give out
    Calls,        \* slots for payment handlers in flight at the same time
    Deviations    \* by how much a completed payment may differ from its amount

ASSUME PidxsAssumption == None \notin Pidxs
ASSUME DeviationsAssumption == Deviations \subseteq Int

VARIABLES
    pay,          \* khaltiPidx, khaltiAmountPaisa, paymentVerifiedAt of a booking
    khalti,       \* what Khalti knows of each pidx
    call,         \* the payment handler in each slot
    told,         \* the result the last callback of a booking redirected to
    receipts,     \* bookings whose lender was notified of the payment
    mismatches    \* bookings that raised an alert for a wrong amount

payVars == <<pay, khalti, call, told, receipts, mismatches>>
allVars == <<vars, payVars>>

-----------------------------------------------------------------------------

NoAmount == -1    \* undefined

\* khaltiPaymentUrl is written and cleared together with the pidx, and every
\* pidx has its own: the pidx stands for both.
NoPayment == [pidx |-> None, amount |-> NoAmount, verified |-> FALSE]

PaymentFields == [pidx: Pidxs \cup {None}, amount: Int, verified: BOOLEAN]

\* "Expired" stands for every unsuccessful end: Expired, User canceled, Failed.
KhaltiStatuses == {"unknown", "Initiated", "Pending", "Completed", "Refunded",
                   "Expired"}

KhaltiPayments == [booking: BookingIds \cup {None}, status: KhaltiStatuses,
                   amount: Int, total: Int, handed: BOOLEAN]

Unknown == [booking |-> None, status |-> "unknown", amount |-> 0, total |-> 0,
            handed |-> FALSE]

CallPoints == {"idle",
               "pay.lookup", "pay.apply", "pay.receipt", "pay.void", "pay.clear",
               "pay.mint", "pay.save", "pay.hand",
               "cb.lookup", "cb.apply", "cb.receipt", "cb.clear", "cb.reply"}

Results == {"none", "success", "failed", "pending"}

\* The document as read (its payment fields), the pidx just minted, and the
\* result the callback is about to redirect to.
CallSlots == [at: CallPoints, id: BookingIds \cup {None}, pay: PaymentFields,
              pidx: Pidxs \cup {None}, reply: Results]

NoCall == [at |-> "idle", id |-> None, pay |-> NoPayment, pidx |-> None,
           reply |-> "none"]

PaymentsTypeOK ==
    /\ TypeOK
    /\ pay \in [BookingIds -> PaymentFields]
    /\ khalti \in [Pidxs -> KhaltiPayments]
    /\ call \in [Calls -> CallSlots]
    /\ told \in [BookingIds -> Results]
    /\ receipts \subseteq BookingIds
    /\ mismatches \subseteq BookingIds

PaymentsInit ==
    /\ Init
    /\ pay = [b \in BookingIds |-> NoPayment]
    /\ khalti = [p \in Pidxs |-> Unknown]
    /\ call = [c \in Calls |-> NoCall]
    /\ told = [b \in BookingIds |-> "none"]
    /\ receipts = {}
    /\ mismatches = {}

\* Math.round((feeTotal + depositAmount) * 100)
AmountPaisa(b) == (bookings[b].fee + bookings[b].deposit) * 100

EndCall(c) == call' = [call EXCEPT ![c] = NoCall]

GotoCall(c, point) == call' = [call EXCEPT ![c].at = point]

AnswerWith(c, result) ==
    call' = [call EXCEPT ![c].at = "cb.reply", ![c].reply = result]

-----------------------------------------------------------------------------
(* Writing the payment fields of a booking                                 *)

\* Fault: the amount is cleared, the pidx is kept.
ClearedAmountOnly(stored, read) == [stored EXCEPT !.amount = NoAmount]

\* Fault: the fields are emptied, not unset.
ClearedToEmpty(stored, read) == [stored EXCEPT !.pidx = "", !.amount = NoAmount]

\* clearPendingPayment: assigning undefined unsets the fields that the
\* document had when it was read.
Cleared(stored, read) ==
    [stored EXCEPT
        !.pidx   = None,
        !.amount = IF read.amount = NoAmount THEN @ ELSE NoAmount]

\* initiatePayment's save: a field assigned the value it was read with is not
\* modified, so not sent.
Recorded(stored, read, pidx, amount) ==
    [stored EXCEPT
        !.pidx   = pidx,
        !.amount = IF read.amount = amount THEN @ ELSE amount]

\* Fault: a completed payment is taken whatever its amount.
MatchesAny(p, read) == TRUE

\* amountMatches of lookup against the khaltiAmountPaisa read: Number(undefined)
\* equals no total.
AmountMatches(p, read) ==
    read.amount # NoAmount /\ khalti[p].total = read.amount

-----------------------------------------------------------------------------
(* POST /bookings/:id/pay                                                  *)

\* await Booking.findById: only the borrower, only while 'approved'.  A pidx
\* not verified yet must be looked up before a new one is minted.
InitiatePayment(c, b) ==
    /\ call[c].at = "idle"
    /\ bookings[b].status = "approved"
    /\ call' = [call EXCEPT ![c] =
          [NoCall EXCEPT
              !.at  = IF pay[b].pidx # None /\ ~pay[b].verified
                      THEN "pay.lookup" ELSE "pay.mint",
              !.id  = b,
              !.pay = pay[b]]]
    /\ UNCHANGED <<vars, pay, khalti, told, receipts, mismatches>>

\* Fault: a payment that may still complete is dropped for a new one.
DropPending(c) ==
    LET p == call[c].pay.pidx
    IN  /\ call[c].at = "pay.lookup"
        /\ GotoCall(c, IF khalti[p].status = "Completed"
                       THEN "pay.apply" ELSE "pay.clear")
        /\ UNCHANGED <<vars, pay, khalti, told, receipts, mismatches>>

\* await khalti.lookup(prior), up to the next await: settle, raise an alert
\* and void, resume the payment that is still live, or release it.
InitiateLookup(c) ==
    LET p == call[c].pay.pidx
        b == call[c].id
    IN  /\ call[c].at = "pay.lookup"
        /\ \/ /\ khalti[p].status = "Completed"
              /\ AmountMatches(p, call[c].pay)
              /\ GotoCall(c, "pay.apply")
              /\ UNCHANGED <<khalti, mismatches>>
           \/ /\ khalti[p].status = "Completed"
              /\ ~AmountMatches(p, call[c].pay)
              /\ GotoCall(c, "pay.void")
              /\ mismatches' = mismatches \cup {b}
              /\ UNCHANGED khalti
           \/ /\ khalti[p].status \in {"Initiated", "Pending"}
              /\ EndCall(c)
              /\ khalti' = [khalti EXCEPT ![p].handed = TRUE]
              /\ UNCHANGED mismatches
           \/ /\ khalti[p].status \in {"Refunded", "Expired"}
              /\ GotoCall(c, "pay.clear")
              /\ UNCHANGED <<khalti, mismatches>>
        /\ UNCHANGED <<vars, pay, told, receipts>>

\* clearPendingPayment: the end of a void attempt, or the way to a fresh one.
InitiateClear(c) ==
    LET b == call[c].id
    IN  /\ call[c].at \in {"pay.void", "pay.clear"}
        /\ pay' = [pay EXCEPT ![b] = Cleared(@, call[c].pay)]
        /\ IF call[c].at = "pay.void" THEN EndCall(c)
           ELSE call' = [call EXCEPT ![c].at  = "pay.mint",
                                     ![c].pay = Cleared(@, call[c].pay)]
        /\ UNCHANGED <<vars, khalti, told, receipts, mismatches>>

\* Fault: the payment URL is handed out before the pidx is persisted.
MintAndHand(c) ==
    LET b == call[c].id
    IN  /\ call[c].at = "pay.mint"
        /\ \E p \in Pidxs :
              /\ khalti[p].status = "unknown"
              /\ khalti' = [khalti EXCEPT ![p] =
                    [booking |-> b, status |-> "Initiated",
                     amount |-> AmountPaisa(b), total |-> AmountPaisa(b),
                     handed |-> TRUE]]
              /\ call' = [call EXCEPT ![c].at = "pay.save", ![c].pidx = p]
        /\ UNCHANGED <<vars, pay, told, receipts, mismatches>>

\* await khalti.initiate.  When the answer is lost (Fail) the pidx exists
\* only at Khalti.
InitiateMint(c) ==
    LET b == call[c].id
    IN  /\ call[c].at = "pay.mint"
        /\ \E p \in Pidxs :
              /\ khalti[p].status = "unknown"
              /\ khalti' = [khalti EXCEPT ![p] =
                    [booking |-> b, status |-> "Initiated",
                     amount |-> AmountPaisa(b), total |-> AmountPaisa(b),
                     handed |-> FALSE]]
              /\ call' = [call EXCEPT ![c].at = "pay.save", ![c].pidx = p]
        /\ UNCHANGED <<vars, pay, told, receipts, mismatches>>

\* booking.save() with the pidx and the amount, before the URL is handed out.
InitiateSave(c) ==
    LET b == call[c].id
    IN  /\ call[c].at = "pay.save"
        /\ pay' = [pay EXCEPT ![b] =
                     Recorded(@, call[c].pay, call[c].pidx, AmountPaisa(b))]
        /\ GotoCall(c, "pay.hand")
        /\ UNCHANGED <<vars, khalti, told, receipts, mismatches>>

\* res.json({ payment_url })
InitiateHand(c) ==
    /\ call[c].at = "pay.hand"
    /\ khalti' = [khalti EXCEPT ![call[c].pidx].handed = TRUE]
    /\ EndCall(c)
    /\ UNCHANGED <<vars, pay, told, receipts, mismatches>>

-----------------------------------------------------------------------------
(* GET /bookings/:id/payment/callback: anyone, any number of times         *)

\* await Booking.findById: without a pidx the answer is 'failed' at once.
PaymentCallback(c, b) ==
    /\ call[c].at = "idle"
    /\ Present(b)
    /\ IF pay[b].pidx = None
       THEN told' = [told EXCEPT ![b] = "failed"] /\ UNCHANGED call
       ELSE /\ call' = [call EXCEPT ![c] =
                  [NoCall EXCEPT !.at = "cb.lookup", !.id = b, !.pay = pay[b]]]
            /\ UNCHANGED told
    /\ UNCHANGED <<vars, pay, khalti, receipts, mismatches>>

\* Fault: the redirect itself is taken for the payment (against rule 1).
CallbackTrusting(c) ==
    /\ call[c].at = "cb.lookup"
    /\ GotoCall(c, "cb.apply")
    /\ UNCHANGED <<vars, pay, khalti, told, receipts, mismatches>>

\* await khalti.lookup, up to the next await.
CallbackLookup(c) ==
    LET p == call[c].pay.pidx
        b == call[c].id
    IN  /\ call[c].at = "cb.lookup"
        /\ \/ /\ khalti[p].status = "Completed"
              /\ ~AmountMatches(p, call[c].pay)
              /\ GotoCall(c, "cb.clear")
              /\ mismatches' = mismatches \cup {b}
              /\ UNCHANGED told
           \/ /\ khalti[p].status = "Completed"
              /\ AmountMatches(p, call[c].pay)
              /\ GotoCall(c, "cb.apply")
              /\ UNCHANGED <<told, mismatches>>
           \/ /\ khalti[p].status \in {"Initiated", "Pending"}
              /\ EndCall(c)
              /\ told' = [told EXCEPT ![b] = "pending"]
              /\ UNCHANGED mismatches
           \/ /\ khalti[p].status \in {"Refunded", "Expired"}
              /\ GotoCall(c, "cb.clear")
              /\ UNCHANGED <<told, mismatches>>
        /\ UNCHANGED <<vars, pay, khalti, receipts>>

CallbackClear(c) ==
    LET b == call[c].id
    IN  /\ call[c].at = "cb.clear"
        /\ pay' = [pay EXCEPT ![b] = Cleared(@, call[c].pay)]
        /\ AnswerWith(c, "failed")
        /\ UNCHANGED <<vars, khalti, told, receipts, mismatches>>

CallbackReply(c) ==
    /\ call[c].at = "cb.reply"
    /\ told' = [told EXCEPT ![call[c].id] = call[c].reply]
    /\ EndCall(c)
    /\ UNCHANGED <<vars, pay, khalti, receipts, mismatches>>

-----------------------------------------------------------------------------
(* applyVerifiedPayment, called by both handlers                           *)

\* Fault: the hash is not part of the update.
ApplyUnsealed(c) ==
    LET b == call[c].id
    IN  /\ call[c].at \in {"pay.apply", "cb.apply"}
        /\ bookings[b].status = "approved"
        /\ bookings' = PayUnsealed(b)
        /\ pay' = [pay EXCEPT ![b].verified = TRUE]
        /\ GotoCall(c, IF call[c].at = "pay.apply" THEN "pay.receipt" ELSE "cb.receipt")
        /\ UNCHANGED <<listings, req, notices, alerts, khalti, told, receipts,
                       mismatches>>

\* Fault: the update is not guarded on the status still being 'approved'.
ApplyUnguarded(c) ==
    LET b == call[c].id
    IN  /\ call[c].at \in {"pay.apply", "cb.apply"}
        /\ bookings' = Pay(b)
        /\ pay' = [pay EXCEPT ![b].verified = TRUE]
        /\ GotoCall(c, IF call[c].at = "pay.apply" THEN "pay.receipt" ELSE "cb.receipt")
        /\ UNCHANGED <<listings, req, notices, alerts, khalti, told, receipts,
                       mismatches>>

\* The atomic guarded update succeeds ...
Apply(c) ==
    LET b == call[c].id
    IN  /\ call[c].at \in {"pay.apply", "cb.apply"}
        /\ ApplyVerifiedPayment(b)
        /\ pay' = [pay EXCEPT ![b].verified = TRUE]
        /\ GotoCall(c, IF call[c].at = "pay.apply" THEN "pay.receipt" ELSE "cb.receipt")
        /\ UNCHANGED <<listings, req, notices, alerts, khalti, told, receipts,
                       mismatches>>

\* ... or finds the booking no longer 'approved': the handlers answer as if it
\* had succeeded, only the lender is not notified.
AlreadyApplied(c) ==
    /\ call[c].at \in {"pay.apply", "cb.apply"}
    /\ bookings[call[c].id].status # "approved"
    /\ IF call[c].at = "pay.apply" THEN EndCall(c) ELSE AnswerWith(c, "success")
    /\ UNCHANGED <<vars, pay, khalti, told, receipts, mismatches>>

\* notifyUser(lender, 'Payment received')
Receipt(c) ==
    /\ call[c].at \in {"pay.receipt", "cb.receipt"}
    /\ receipts' = receipts \cup {call[c].id}
    /\ IF call[c].at = "pay.receipt" THEN EndCall(c) ELSE AnswerWith(c, "success")
    /\ UNCHANGED <<vars, pay, khalti, told, mismatches>>

-----------------------------------------------------------------------------
(* Khalti and the borrower's browser: external                             *)

\* The borrower can only pay through a URL that was handed out.
PayerPays(p) ==
    /\ khalti[p].handed
    /\ khalti[p].status \in {"Initiated", "Pending"}
    /\ \E d \in Deviations :
          khalti' = [khalti EXCEPT ![p].status = "Completed", ![p].total = @ + d]
    /\ UNCHANGED <<vars, pay, call, told, receipts, mismatches>>

\* A payment is held, or lapses (expired, canceled, failed), or is refunded.
KhaltiMoves(p) ==
    /\ \E step \in {<<"Initiated", "Pending">>, <<"Initiated", "Expired">>,
                    <<"Pending", "Expired">>, <<"Completed", "Refunded">>} :
          /\ khalti[p].status = step[1]
          /\ khalti' = [khalti EXCEPT ![p].status = step[2]]
    /\ UNCHANGED <<vars, pay, call, told, receipts, mismatches>>

-----------------------------------------------------------------------------

\* A call to Khalti times out (15 s) or fails, a save rejects, or the process
\* dies: the handler ends where it stands.
FailCall(c) ==
    /\ Failures
    /\ call[c].at # "idle"
    /\ EndCall(c)
    /\ UNCHANGED <<vars, pay, khalti, told, receipts, mismatches>>

ReceiveCall(c) ==
    \E b \in BookingIds : InitiatePayment(c, b) \/ PaymentCallback(c, b)

ContinueCall(c) ==
    \/ InitiateLookup(c) \/ InitiateClear(c) \/ InitiateMint(c)
    \/ InitiateSave(c) \/ InitiateHand(c)
    \/ CallbackLookup(c) \/ CallbackClear(c) \/ CallbackReply(c)
    \/ Apply(c) \/ AlreadyApplied(c) \/ Receipt(c)

\* The steps of Bookings other than the payment step, which is Apply here.
BookingStep ==
    /\ (\E r \in Requests : Receive(r) \/ Continue(r) \/ Fail(r)) \/ Read
    /\ UNCHANGED payVars

PaymentsNext ==
    \/ BookingStep
    \/ \E c \in Calls : ReceiveCall(c) \/ ContinueCall(c) \/ FailCall(c)
    \/ \E p \in Pidxs : PayerPays(p) \/ KhaltiMoves(p)

PaymentsSpec == PaymentsInit /\ [][PaymentsNext]_allVars

=============================================================================
