-------------------------- MODULE BookingLifecycle --------------------------
(***************************************************************************)
(* What the booking API promises about one booking, seen from outside: it  *)
(* is created as 'requested' between two different people, and afterwards  *)
(* its status moves one legal transition at a time, made by someone that   *)
(* transition belongs to.                                                  *)
(***************************************************************************)
EXTENDS BookingStateMachine

CONSTANTS Users, Admins, BookingIds, None

VARIABLE life     \* [BookingIds -> [status, borrower, lender]]

Unborn == [status |-> "absent", borrower |-> None, lender |-> None]

LifeInit == life = [b \in BookingIds |-> Unborn]

Create(b) ==
    /\ life[b] = Unborn
    /\ \E borrower, lender \in Users :
          /\ borrower # lender
          /\ life' = [life EXCEPT ![b] = [status   |-> "requested",
                                          borrower |-> borrower,
                                          lender   |-> lender]]

Advance(b) ==
    \E to \in Statuses, user \in Users :
       /\ LegalStep(life[b], to, user, Admins)
       /\ life' = [life EXCEPT ![b].status = to]

LifeNext == \E b \in BookingIds : Create(b) \/ Advance(b)

LifeSpec == LifeInit /\ [][LifeNext]_life

=============================================================================
