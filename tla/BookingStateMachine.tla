------------------------ MODULE BookingStateMachine ------------------------
(***************************************************************************)
(* The table of booking transitions (utils/bookingStateMachine.js) and the *)
(* status sets other parts of the backend derive from it.  Pure: no state. *)
(***************************************************************************)

Statuses == {"requested", "approved", "paid", "active", "returned",
             "completed", "disputed", "resolved", "cancelled"}

\* One record per entry of the TRANSITIONS table.
TRANSITIONS ==
    { [action |-> "approve",  from |-> {"requested"},
       to |-> "approved",  by |-> "lender"],
      [action |-> "reject",   from |-> {"requested"},
       to |-> "cancelled", by |-> "lender"],
      [action |-> "cancel",   from |-> {"requested", "approved"},
       to |-> "cancelled", by |-> "either"],
      [action |-> "handover", from |-> {"paid"},
       to |-> "active",    by |-> "lender"],
      [action |-> "return",   from |-> {"active"},
       to |-> "returned",  by |-> "borrower"],
      [action |-> "complete", from |-> {"returned"},
       to |-> "completed", by |-> "lender"],
      [action |-> "dispute",  from |-> {"returned"},
       to |-> "disputed",  by |-> "lender"] }

TERMINAL == {"completed", "resolved", "cancelled"}

\* The statuses createBooking counts as occupying the dates.
BlockingStatuses == {"requested", "approved", "paid", "active"}

\* evaluate() answers ok: right current status, then right role.
Evaluate(rule, booking, user) ==
    /\ booking.status \in rule.from
    /\ \/ rule.by \in {"lender", "either"} /\ user = booking.lender
       \/ rule.by \in {"borrower", "either"} /\ user = booking.borrower

-----------------------------------------------------------------------------
(***************************************************************************)
(* The whole machine, with the two edges the table leaves out on purpose   *)
(* (lines 4-6): Khalti verification pays, on behalf of the borrower, and   *)
(* an administrator resolves.                                              *)
(***************************************************************************)
LegalStep(booking, to, user, admins) ==
    \/ \E rule \in TRANSITIONS :
          rule.to = to /\ Evaluate(rule, booking, user)
    \/ to = "paid" /\ booking.status = "approved" /\ user = booking.borrower
    \/ to = "resolved" /\ booking.status = "disputed" /\ user \in admins

=============================================================================
