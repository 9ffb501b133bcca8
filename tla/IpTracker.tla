----------------------------- MODULE IpTracker -----------------------------
(***************************************************************************)
(* The failed logins of one network address and its temporary block:       *)
(* utils/ipTracker.js and the guard in front of the login route            *)
(* (ipBlockGuard).  An address on ADMIN_IP_ALLOWLIST never gets an entry,   *)
(* so the address here is one that is not on it.  Both maps live in memory: *)
(* a restart empties them.                                                  *)
(***************************************************************************)
EXTENDS Naturals, Sequences, FiniteSets

CONSTANTS WINDOW, MAX_FAILURES, BLOCK,
          MaxTime       \* bound: the clock stops here

ASSUME IpTrackerAssumption ==
    /\ {WINDOW, MAX_FAILURES, BLOCK, MaxTime} \subseteq Nat \ {0}
    /\ WINDOW <= BLOCK

VARIABLES
    now,            \* Date.now()
    failures,       \* failures.get(ip), oldest first; empty when there is none
    blockedUntil    \* blockedUntil.get(ip); 0 when there is none

tracker == <<failures, blockedUntil>>

Times == 0..MaxTime

TrackerTypeOK ==
    /\ now \in Times
    /\ failures \in Seq(Times)
    /\ blockedUntil \in 0..(MaxTime + BLOCK)

TrackerInit ==
    /\ now = 1
    /\ failures = <<>>
    /\ blockedUntil = 0

IsBlocked == blockedUntil # 0 /\ now <= blockedUntil

\* The guard lets a request through, and drops a block that is over.
Unblocked ==
    /\ ~IsBlocked
    /\ blockedUntil' = 0

RecentIn(times) == {i \in DOMAIN times : now - times[i] < WINDOW}

\* The filter: times is in order, so what it keeps is the end of the list.
Recent(times) ==
    SubSeq(times, Len(times) - Cardinality(RecentIn(times)) + 1, Len(times))

\* Fault: only a failure outside the window before it starts a new count, the
\* block waits for one more.
RecordFailureLate ==
    LET recent == Append(Recent(failures), now)
    IN  /\ failures' = recent
        /\ blockedUntil' = IF Len(recent) > MAX_FAILURES /\ blockedUntil = 0
                           THEN now + BLOCK ELSE blockedUntil

RecordFailure ==
    LET recent == Append(Recent(failures), now)
    IN  /\ failures' = recent
        /\ blockedUntil' = IF Len(recent) >= MAX_FAILURES /\ blockedUntil = 0
                           THEN now + BLOCK ELSE blockedUntil

Reset ==
    /\ failures' = <<>>
    /\ blockedUntil' = 0

Tick ==
    /\ now < MaxTime
    /\ now' = now + 1
    /\ UNCHANGED tracker

Restart ==
    /\ failures' = <<>>
    /\ blockedUntil' = 0
    /\ UNCHANGED now

=============================================================================
