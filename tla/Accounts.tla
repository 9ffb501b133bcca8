------------------------------ MODULE Accounts ------------------------------
(***************************************************************************)
(* One e-mail address and the account that may be registered under it:     *)
(* registration, login with lockout and second factor, sessions, password  *)
(* reset, suspension (auth.controller.js, mfa.controller.js,               *)
(* session.controller.js, config/session.js, middleware/auth.js,           *)
(* suspendUser of admin.controller.js).                                    *)
(*                                                                         *)
(* A handler is one step per await.  save() of a user document sends the   *)
(* fields that differ from the ones read; if one of them is an array       *)
(* (passwordHistory, mfaBackupCodes), the filter also names the version    *)
(* read, and the save of an outdated document fails.                       *)
(***************************************************************************)
EXTENDS IpTracker

CONSTANTS
    Calls,            \* slots for the handlers in progress
    Sids,             \* session ids
    Passwords,
    Codes,            \* the backup codes of a batch
    None,
    LOCK_THRESHOLD, LOCK, HISTORY,
    MaxVersion,       \* bound: saves of an array of the document
    MaxTrouble        \* bound: such saves, at 3 each, and wrong passwords in a row, at 2

ASSUME AccountsAssumption ==
    /\ {LOCK_THRESHOLD, LOCK, HISTORY} \subseteq Nat \ {0}
    /\ {MaxVersion, MaxTrouble} \subseteq Nat
    /\ None \notin Passwords \cup Sids

VARIABLES
    user,       \* the user document
    sessions,   \* the sessions collection
    mailed,     \* the links in the owner's mailbox
    call,       \* the handler in each slot
    wrongAt,    \* history: wrong passwords since the last right one
    spent       \* history: how often each code of the batch let someone in

account == <<user, sessions, mailed, call, wrongAt, spent>>

accountVars == <<now, tracker, account>>

Statuses == {"absent", "active", "suspended"}

UserDocuments ==
    [status: Statuses, password: Passwords \cup {None}, history: Seq(Passwords),
     changedAt: 0..MaxVersion, verified: BOOLEAN,
     fails: Nat, lockoutUntil: 0..(MaxTime + LOCK),
     mfa: BOOLEAN, secret: BOOLEAN, codes: SUBSET Codes, version: 0..MaxVersion]

NoUser ==
    [status |-> "absent", password |-> None, history |-> <<>>, changedAt |-> 0,
     verified |-> FALSE, fails |-> 0, lockoutUntil |-> 0,
     mfa |-> FALSE, secret |-> FALSE, codes |-> {}, version |-> 0]

\* kind "pending" holds pendingMfaUserId, "full" holds userId.  good and stamp
\* are history: the account as the handler that opened the session read it.
SessionDocuments ==
    [kind: {"none", "pending", "full"}, good: BOOLEAN, stamp: 0..MaxVersion]

NoSession == [kind |-> "none", good |-> FALSE, stamp |-> 0]

Links == [purpose: {"verify_email", "reset_password"}, pwc: 0..MaxVersion]

CallPoints == {"idle", "register.insert", "login.check", "login.count", "login.clear",
               "login.open", "mfa.check", "mfa.spend", "mfa.open", "reset.save",
               "reset.destroy", "suspend.save", "suspend.destroy", "setup.save",
               "enable.save", "disable.save"}

\* sid is the session the request came with; given the password or code sent,
\* or the status asked for; pwc the stamp in the link.
CallRecords ==
    [at: CallPoints, sid: Sids \cup {None}, read: UserDocuments,
     given: Passwords \cup Codes \cup Statuses \cup {None, "totp"},
     pwc: 0..MaxVersion]

IdleCall == [at |-> "idle", sid |-> None, read |-> NoUser, given |-> None, pwc |-> 0]

AccountsTypeOK ==
    /\ TrackerTypeOK
    /\ user \in UserDocuments
    /\ sessions \in [Sids -> SessionDocuments]
    /\ mailed \subseteq Links
    /\ call \in [Calls -> CallRecords]
    /\ wrongAt \in Seq(Times)
    /\ spent \in [Codes -> Nat]

\* Fault: the history is the hash, not a list of hashes.
RegisteredBareHistory(p) ==
    [NoUser EXCEPT !.status = "active", !.password = p, !.history = p]

Registered(p) ==
    [NoUser EXCEPT !.status = "active", !.password = p, !.history = <<p>>]

AccountsInit ==
    /\ TrackerInit
    /\ user \in {NoUser} \cup
         {[Registered(p) EXCEPT !.verified = TRUE, !.mfa = TRUE, !.secret = TRUE,
                                !.codes = Codes] : p \in Passwords}
    /\ sessions = [s \in Sids |-> NoSession]
    /\ mailed = {}
    /\ call = [c \in Calls |-> IdleCall]
    /\ wrongAt = <<>>
    /\ spent = [k \in Codes |-> 0]

Exists == user.status # "absent"

Room == 2 * Len(wrongAt) + 3 * user.version < MaxTrouble

Start(c, point, sid, given, pwc) ==
    /\ call[c].at = "idle"
    /\ call' = [call EXCEPT ![c] = [at |-> point, sid |-> sid, read |-> user,
                                    given |-> given, pwc |-> pwc]]

Proceed(c, point) == call' = [call EXCEPT ![c].at = point]

Done(c) == call' = [call EXCEPT ![c] = IdleCall]

\* A field of the document after a save: the new value if it is not the one
\* that was read.
Saved(read, value, stored) == IF value = read THEN stored ELSE value

\* The filter of a save that writes an array.
Current(c) == user.version = call[c].read.version /\ user.version < MaxVersion

Outdated(c) == user.version # call[c].read.version

-----------------------------------------------------------------------------
(* Registration and the mailbox                                            *)

Register(c, p) ==
    /\ ~Exists
    /\ Start(c, "register.insert", None, p, 0)
    /\ UNCHANGED <<now, tracker, user, sessions, mailed, wrongAt, spent>>

\* The unique index answers the second of two inserts with error 11000.
RegisterInsert(c) ==
    /\ call[c].at = "register.insert"
    /\ IF Exists THEN UNCHANGED <<user, mailed>>
       ELSE /\ user' = Registered(call[c].given)
            /\ mailed' = mailed \cup {[purpose |-> "verify_email", pwc |-> 0]}
    /\ Done(c)
    /\ UNCHANGED <<now, tracker, sessions, wrongAt, spent>>

ResendVerification ==
    /\ Exists /\ ~user.verified
    /\ mailed' = mailed \cup {[purpose |-> "verify_email", pwc |-> 0]}
    /\ UNCHANGED <<now, tracker, user, sessions, call, wrongAt, spent>>

VerifyEmail(link) ==
    /\ link \in mailed /\ link.purpose = "verify_email"
    /\ user' = [user EXCEPT !.verified = TRUE]
    /\ UNCHANGED <<now, tracker, sessions, mailed, call, wrongAt, spent>>

\* Of several reset links the mailbox keeps the last: the others bear the same
\* stamp, or one that is refused.
ForgotPassword ==
    /\ Exists
    /\ mailed' = {link \in mailed : link.purpose # "reset_password"}
                  \cup {[purpose |-> "reset_password", pwc |-> user.changedAt]}
    /\ UNCHANGED <<now, tracker, user, sessions, call, wrongAt, spent>>

-----------------------------------------------------------------------------
(* Login                                                                   *)

\* sid is the session the browser still holds, if any.
Login(c, sid, p) ==
    /\ Unblocked
    /\ sid # None => sessions[sid].kind # "none"
    /\ p = user.password \/ Room
    /\ Start(c, "login.check", sid, p, 0)
    /\ UNCHANGED <<now, failures, user, sessions, mailed, wrongAt, spent>>

\* verifyPassword against the hash read, or against a dummy nothing matches:
\* 401, 423 or on.
LoginCheck(c) ==
    LET q == call[c]
    IN  /\ q.at = "login.check"
        /\ IF q.given # q.read.password
           THEN /\ RecordFailure
                /\ IF q.read.status = "absent" THEN Done(c) ELSE Proceed(c, "login.count")
           ELSE /\ IF q.read.lockoutUntil > now THEN Done(c) ELSE Proceed(c, "login.clear")
                /\ UNCHANGED tracker
        /\ UNCHANGED <<now, user, sessions, mailed, wrongAt, spent>>

\* Fault: the counter starts again when the lock is set.
LoginCountAfresh(c) ==
    LET q == call[c]
        fails == q.read.fails + 1
    IN  /\ q.at = "login.count"
        /\ user' = IF fails < LOCK_THRESHOLD THEN [user EXCEPT !.fails = fails]
                   ELSE [user EXCEPT !.fails = 0, !.lockoutUntil = now + LOCK]
        /\ wrongAt' = Append(wrongAt, now)
        /\ Done(c)
        /\ UNCHANGED <<now, tracker, sessions, mailed, spent>>

LoginCount(c) ==
    LET q == call[c]
        fails == q.read.fails + 1
    IN  /\ q.at = "login.count"
        /\ user' = [user EXCEPT !.fails = fails,
                                !.lockoutUntil = IF fails >= LOCK_THRESHOLD
                                                 THEN now + LOCK ELSE @]
        /\ wrongAt' = Append(wrongAt, now)
        /\ Done(c)
        /\ UNCHANGED <<now, tracker, sessions, mailed, spent>>

\* The counters are cleared, then the account as it was read decides; its
\* password may also be more than 90 days old.
LoginClear(c) ==
    LET q == call[c]
    IN  /\ q.at = "login.clear"
        /\ user' = [user EXCEPT !.fails = Saved(q.read.fails, 0, @),
                                !.lockoutUntil = Saved(q.read.lockoutUntil, 0, @)]
        /\ Reset
        /\ wrongAt' = <<>>
        /\ \/ q.read.status = "active" /\ Proceed(c, "login.open")
           \/ Done(c)
        /\ UNCHANGED <<now, sessions, mailed, spent>>

\* The session regenerated and, when the response ends, stored.
Opened(c, session, sid) ==
    LET kept == IF call[c].sid = None THEN sessions
                ELSE [sessions EXCEPT ![call[c].sid] = NoSession]
    IN  /\ kept[sid].kind = "none"
        /\ sessions' = [kept EXCEPT ![sid] = session]

Pending == [NoSession EXCEPT !.kind = "pending"]

Full(read) ==
    [kind |-> "full", good |-> read.status = "active", stamp |-> read.changedAt]

LoginOpen(c, sid) ==
    /\ call[c].at = "login.open"
    /\ Opened(c, IF call[c].read.mfa THEN Pending ELSE Full(call[c].read), sid)
    /\ Done(c)
    /\ UNCHANGED <<now, tracker, user, mailed, wrongAt, spent>>

-----------------------------------------------------------------------------
(* The second factor                                                       *)

Verify(c, sid, code) ==
    /\ sessions[sid].kind = "pending"
    /\ code = "totp" \/ Room
    /\ Start(c, "mfa.check", sid, code, 0)
    /\ UNCHANGED <<now, tracker, user, sessions, mailed, wrongAt, spent>>

\* A backup code is looked up among the hashes, however it was typed.
FindBackupCode(code, codes) == code \in codes

\* A right TOTP code, or a backup code among those read.  After a disable there
\* is no secret to decrypt: error 500.
VerifyCheck(c) ==
    LET q == call[c]
    IN  /\ q.at = "mfa.check"
        /\ \/ q.given = "totp" /\ q.read.secret /\ Proceed(c, "mfa.open")
           \/ FindBackupCode(q.given, q.read.codes) /\ Proceed(c, "mfa.spend")
           \/ /\ ~(q.given = "totp" /\ q.read.secret)
              /\ ~FindBackupCode(q.given, q.read.codes)
              /\ Done(c)
        /\ UNCHANGED <<now, tracker, user, sessions, mailed, wrongAt, spent>>

\* Fault: the codes left are written without a version.
VerifySpendUnversioned(c) ==
    LET q == call[c]
    IN  /\ q.at = "mfa.spend"
        /\ user.version < MaxVersion
        /\ user' = [user EXCEPT !.codes = q.read.codes \ {q.given}]
        /\ spent' = [spent EXCEPT ![q.given] = @ + 1]
        /\ Proceed(c, "mfa.open")
        /\ UNCHANGED <<now, tracker, sessions, mailed, wrongAt>>

VerifySpend(c) ==
    LET q == call[c]
    IN  /\ q.at = "mfa.spend"
        /\ \/ /\ Current(c)
              /\ user' = [user EXCEPT !.codes = q.read.codes \ {q.given}, !.version = @ + 1]
              /\ spent' = [spent EXCEPT ![q.given] = @ + 1]
              /\ Proceed(c, "mfa.open")
           \/ /\ Outdated(c)
              /\ Done(c)
              /\ UNCHANGED <<user, spent>>
        /\ UNCHANGED <<now, tracker, sessions, mailed, wrongAt>>

VerifyOpen(c, sid) ==
    /\ call[c].at = "mfa.open"
    /\ Opened(c, Full(call[c].read), sid)
    /\ Done(c)
    /\ UNCHANGED <<now, tracker, user, mailed, wrongAt, spent>>

\* setup, enable and disable come with a full session.  A request with a wrong
\* code changes nothing.
Setup(c, sid) ==
    /\ sessions[sid].kind = "full"
    /\ Start(c, "setup.save", sid, None, 0)
    /\ UNCHANGED <<now, tracker, user, sessions, mailed, wrongAt, spent>>

SetupSave(c) ==
    /\ call[c].at = "setup.save"
    /\ user' = [user EXCEPT !.secret = TRUE]
    /\ Done(c)
    /\ UNCHANGED <<now, tracker, sessions, mailed, wrongAt, spent>>

Enable(c, sid) ==
    /\ sessions[sid].kind = "full"
    /\ user.secret
    /\ Room
    /\ Start(c, "enable.save", sid, None, 0)
    /\ UNCHANGED <<now, tracker, user, sessions, mailed, wrongAt, spent>>

\* Fault: the codes are written element by element, without a version.
EnableSaveUnversioned(c) ==
    /\ call[c].at = "enable.save"
    /\ user' = [user EXCEPT !.mfa = Saved(call[c].read.mfa, TRUE, @), !.codes = Codes]
    /\ spent' = [k \in Codes |-> 0]
    /\ Done(c)
    /\ UNCHANGED <<now, tracker, sessions, mailed, wrongAt>>

\* A new batch of codes; mfaEnabled is sent only if it was off.
EnableSave(c) ==
    /\ call[c].at = "enable.save"
    /\ \/ /\ Current(c)
          /\ user' = [user EXCEPT !.mfa = Saved(call[c].read.mfa, TRUE, @),
                                  !.codes = Codes, !.version = @ + 1]
          /\ spent' = [k \in Codes |-> 0]
       \/ Outdated(c) /\ UNCHANGED <<user, spent>>
    /\ Done(c)
    /\ UNCHANGED <<now, tracker, sessions, mailed, wrongAt>>

Disable(c, sid) ==
    /\ sessions[sid].kind = "full"
    /\ user.mfa /\ user.secret
    /\ Room
    /\ Start(c, "disable.save", sid, None, 0)
    /\ UNCHANGED <<now, tracker, user, sessions, mailed, wrongAt, spent>>

\* With no code left, the array is not written and no version asked for.
DisableSave(c) ==
    LET off == [user EXCEPT !.mfa = FALSE, !.secret = FALSE]
    IN  /\ call[c].at = "disable.save"
        /\ \/ call[c].read.codes = {} /\ user' = off
           \/ /\ call[c].read.codes # {} /\ Current(c)
              /\ user' = [off EXCEPT !.codes = {}, !.version = @ + 1]
           \/ call[c].read.codes # {} /\ Outdated(c) /\ UNCHANGED user
        /\ Done(c)
        /\ UNCHANGED <<now, tracker, sessions, mailed, wrongAt, spent>>

-----------------------------------------------------------------------------
(* Password reset                                                          *)

Reused(history, p) == \E i \in DOMAIN history : history[i] = p

\* The link must carry the stamp of the document read, the password none of
\* the last ones.
ResetPassword(c, link, p) ==
    /\ link \in mailed /\ link.purpose = "reset_password"
    /\ Exists
    /\ link.pwc = user.changedAt
    /\ Room
    /\ ~Reused(user.history, p)
    /\ Start(c, "reset.save", None, p, link.pwc)
    /\ UNCHANGED <<now, tracker, user, sessions, mailed, wrongAt, spent>>

PushHistory(history, p) ==
    SubSeq(<<p>> \o history, 1, IF Len(history) < HISTORY THEN Len(history) + 1 ELSE HISTORY)

\* Fault: the history is written element by element, without a version.
ResetSaveUnversioned(c) ==
    LET q == call[c]
    IN  /\ q.at = "reset.save"
        /\ user.version < MaxVersion
        /\ user' = [user EXCEPT !.password = q.given,
                                !.history = PushHistory(q.read.history, q.given),
                                !.changedAt = @ + 1, !.version = @ + 1]
        /\ Proceed(c, "reset.destroy")
        /\ UNCHANGED <<now, tracker, sessions, mailed, wrongAt, spent>>

ResetSave(c) ==
    LET q == call[c]
    IN  /\ q.at = "reset.save"
        /\ \/ /\ Current(c)
              /\ user' = [user EXCEPT !.password = q.given,
                                      !.history = PushHistory(q.read.history, q.given),
                                      !.changedAt = @ + 1, !.version = @ + 1]
              /\ Proceed(c, "reset.destroy")
           \/ Outdated(c) /\ Done(c) /\ UNCHANGED user
        /\ UNCHANGED <<now, tracker, sessions, mailed, wrongAt, spent>>

\* listUserSessions: found by userId, which a pending session does not have.
OwnSessions == {s \in Sids : sessions[s].kind = "full"}

Destroy(ids) == sessions' = [s \in Sids |-> IF s \in ids THEN NoSession ELSE sessions[s]]

\* Fault: deleteOne for deleteMany.
DestroyOneSession ==
    IF OwnSessions = {} THEN Destroy({}) ELSE Destroy({CHOOSE s \in OwnSessions : TRUE})

DestroyUserSessions == Destroy(OwnSessions)

ResetDestroy(c) ==
    /\ call[c].at = "reset.destroy"
    /\ DestroyUserSessions
    /\ Done(c)
    /\ UNCHANGED <<now, tracker, user, mailed, wrongAt, spent>>

-----------------------------------------------------------------------------
(* Suspension                                                              *)

SuspendUser(c, to) ==
    /\ Exists
    /\ Start(c, "suspend.save", None, to, 0)
    /\ UNCHANGED <<now, tracker, user, sessions, mailed, wrongAt, spent>>

SuspendSave(c) ==
    LET q == call[c]
    IN  /\ q.at = "suspend.save"
        /\ user' = [user EXCEPT !.status = Saved(q.read.status, q.given, @)]
        /\ IF q.given = "suspended" THEN Proceed(c, "suspend.destroy") ELSE Done(c)
        /\ UNCHANGED <<now, tracker, sessions, mailed, wrongAt, spent>>

SuspendDestroy(c) ==
    /\ call[c].at = "suspend.destroy"
    /\ DestroyUserSessions
    /\ Done(c)
    /\ UNCHANGED <<now, tracker, user, mailed, wrongAt, spent>>

-----------------------------------------------------------------------------
(* Sessions                                                                *)

Logout(sid) ==
    /\ sid \in OwnSessions
    /\ Destroy({sid})
    /\ UNCHANGED <<now, tracker, user, mailed, call, wrongAt, spent>>

\* requireAuth: older than 24 hours, or used from another device.
Refuse(sid) ==
    /\ sid \in OwnSessions
    /\ Destroy({sid})
    /\ UNCHANGED <<now, tracker, user, mailed, call, wrongAt, spent>>

\* The store drops a session that was idle for 30 minutes, whatever its kind.
IdleTimeout(sid) ==
    /\ sessions[sid].kind # "none"
    /\ Destroy({sid})
    /\ UNCHANGED <<now, tracker, user, mailed, call, wrongAt, spent>>

\* destroyOtherUserSessions, destroyUserSessionById.
OtherDevices(sid) == OwnSessions \ {sid}

OneDevice(other) == OwnSessions \cap {other}

RevokeOthers(sid) ==
    /\ sid \in OwnSessions
    /\ Destroy(OtherDevices(sid))
    /\ UNCHANGED <<now, tracker, user, mailed, call, wrongAt, spent>>

RevokeOne(sid, other) ==
    /\ sid \in OwnSessions
    /\ Destroy(OneDevice(other))
    /\ UNCHANGED <<now, tracker, user, mailed, call, wrongAt, spent>>

-----------------------------------------------------------------------------

Idle == \A c \in Calls : call[c].at = "idle"

Nobody(points) == \A c \in Calls : call[c].at \notin points

Entering   == {"login.check", "login.count", "login.clear", "login.open"}
Factoring  == {"mfa.check", "mfa.spend", "mfa.open"}
Resetting  == {"reset.save", "reset.destroy"}
Suspending == {"suspend.save", "suspend.destroy"}

\* Logins and suspensions run alone; second factors overlap each other, resets
\* each other, and MFA changes all of these, but no two disables (with no backup
\* code left neither is versioned, and the later one can unset the secret of a
\* set-up in between).  Registrations come at any time.
Arrives(c) ==
    \/ /\ \A d \in Calls : call[d].at \in {"idle", "register.insert"}
       /\ \/ \E sid \in Sids \cup {None}, p \in Passwords : Login(c, sid, p)
          \/ \E to \in {"active", "suspended"} : SuspendUser(c, to)
    \/ /\ Nobody(Entering \cup Suspending)
       /\ \/ /\ Nobody(Resetting)
             /\ \E sid \in Sids, code \in Codes \cup {"totp"} : Verify(c, sid, code)
          \/ /\ Nobody(Factoring)
             /\ \E link \in mailed, p \in Passwords : ResetPassword(c, link, p)
          \/ \E sid \in Sids :
                Setup(c, sid) \/ Enable(c, sid) \/ (Nobody({"disable.save"}) /\ Disable(c, sid))
    \/ \E p \in Passwords : Register(c, p)

Resumes(c) ==
    \/ RegisterInsert(c)
    \/ LoginCheck(c) \/ LoginCount(c) \/ LoginClear(c)
    \/ VerifyCheck(c) \/ VerifySpend(c)
    \/ \E sid \in Sids : LoginOpen(c, sid) \/ VerifyOpen(c, sid)
    \/ SetupSave(c) \/ EnableSave(c) \/ DisableSave(c)
    \/ ResetSave(c) \/ ResetDestroy(c)
    \/ SuspendSave(c) \/ SuspendDestroy(c)

\* Time passes between requests (a request takes no time against windows of
\* minutes), and where anything depends on it.
AccountsNext ==
    \/ \E c \in Calls : Arrives(c) \/ Resumes(c)
    \/ ResendVerification \/ ForgotPassword \/ \E link \in mailed : VerifyEmail(link)
    \/ \E sid \in Sids : Logout(sid) \/ Refuse(sid) \/ IdleTimeout(sid) \/ RevokeOthers(sid)
    \/ \E sid, other \in Sids : RevokeOne(sid, other)
    \/ /\ Idle
       /\ (Tick /\ (failures # <<>> \/ wrongAt # <<>>)) \/ Restart
       /\ UNCHANGED account

AccountsSpec == AccountsInit /\ [][AccountsNext]_accountVars

=============================================================================
