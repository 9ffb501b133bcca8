------------------------- MODULE AccountProperties -------------------------
(***************************************************************************)
(* What login protection, password reset, the second factor and revocation *)
(* promise of the account in Accounts.                                      *)
(***************************************************************************)
EXTENDS Accounts

\* An address that failed MAX_FAILURES times within WINDOW is blocked, whatever
\* requests had passed the guard before (ipTracker.recordFailure).
BlockedWhileHot ==
    Len(Recent(failures)) >= MAX_FAILURES => IsBlocked

\* After LOCK_THRESHOLD wrong passwords in a row the account is locked for LOCK
\* from the last one, and every further one renews the lock, also when the
\* first lock is over (login).
LockedAfterConsecutiveFailures ==
    Len(wrongAt) >= LOCK_THRESHOLD => user.lockoutUntil = wrongAt[Len(wrongAt)] + LOCK

\* The password of an account only ever changes by a link mailed since the last
\* change, to one that is not among the last HISTORY: no link works twice, also
\* when it is used twice at once, and a second registration of the address
\* changes nothing (resetPassword, register).
PasswordChangesOnlyByItsLink ==
    [][Exists /\ user'.password # user.password =>
          /\ \E c \in Calls : call[c].at = "reset.save" /\ call[c].pwc = user.changedAt
          /\ \A i \in DOMAIN user.history : user.history[i] # user'.password]_accountVars

\* A backup code lets its owner in once, also when sent twice at once (verify).
BackupCodeUsedOnce == \A k \in Codes : spent[k] <= 1

\* Two-factor login never lacks the secret its codes are checked against, in
\* whatever order setup, enable and disable save (mfa.controller).
SecondFactorHasSecret == user.mfa => user.secret

\* Outside a reset or suspension in progress, a session opened for an active
\* account is one of an account that still is, under the password it still has
\* (destroyUserSessions).
RevokedSessionsGone ==
    Nobody(Resetting \cup Suspending) =>
        \A s \in Sids : sessions[s].kind = "full" /\ sessions[s].good =>
            user.status = "active" /\ sessions[s].stamp = user.changedAt

\* The promise of a comment: the account of a login is active at that moment.
\* A login parked for its second factor before a suspension completes after it.
OnlyActiveAccountsEnter ==
    [][\A s \in Sids : sessions[s].kind # "full" /\ sessions'[s].kind = "full" =>
          user.status = "active"]_accountVars

=============================================================================
