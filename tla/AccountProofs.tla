---------------------------- MODULE AccountProofs ----------------------------
(***************************************************************************)
(* What is proved of the account in Accounts, for any number of handlers,  *)
(* sessions, passwords and backup codes, and any thresholds: a backup code *)
(* works once, a password changes only by its link, two-factor login keeps *)
(* its secret, revocation leaves no session behind, the lock holds.        *)
(***************************************************************************)
EXTENDS AccountProperties, SequenceTheorems, FiniteSetTheorems, TLAPS

-----------------------------------------------------------------------------
(* The inductive invariant                                                 *)

\* The types of all but the tracker, which has an invariant of its own below.
AccountTyped ==
    /\ now \in Times
    /\ user \in UserDocuments
    /\ user.changedAt <= user.version
    /\ sessions \in [Sids -> SessionDocuments]
    /\ mailed \subseteq Links
    /\ call \in [Calls -> CallRecords]
    /\ wrongAt \in Seq(Times)
    /\ spent \in [Codes -> Nat]

NoAccountYet == {"idle", "register.insert", "login.check"}

\* Before the account is registered nothing refers to one.
Unborn ==
    ~Exists =>
        /\ user = NoUser
        /\ mailed = {}
        /\ wrongAt = <<>>
        /\ \A s \in Sids : sessions[s].kind = "none"
        /\ \A c \in Calls : call[c].at \in NoAccountYet /\ call[c].read = NoUser

\* Which handlers can be in progress together.
Apart ==
    \A c, d \in Calls : c # d =>
        /\ call[c].at \in Entering \cup Suspending =>
              call[d].at \in {"idle", "register.insert"}
        /\ ~(call[c].at \in Factoring /\ call[d].at \in Resetting)
        /\ ~(call[c].at = "disable.save" /\ call[d].at = "disable.save")

\* What a handler was given, and read of an account that may be none.
Given(q) ==
    /\ q.at \in {"register.insert", "login.check", "reset.save"} => q.given \in Passwords
    /\ q.at = "suspend.save" => q.given \in {"active", "suspended"}
    /\ q.at = "mfa.spend" => q.given \in q.read.codes
    /\ q.at = "reset.save" => ~Reused(q.read.history, q.given)
    /\ q.read.status = "absent" => q.read = NoUser /\ q.at \in NoAccountYet

\* What still is as a handler read it: for a login or a second factor because
\* nothing that changes it runs beside, for the rest as long as the version is
\* the same.
Fresh(q, u) ==
    /\ q.read.version <= u.version
    /\ q.at \in {"login.check", "login.count", "login.clear"} /\ q.read.status # "absent" =>
          q.read.fails = u.fails /\ q.read.lockoutUntil = u.lockoutUntil
    /\ q.at \in Entering \cup Factoring /\ q.read.status # "absent" =>
          q.read.status = u.status /\ q.read.changedAt = u.changedAt
    /\ q.read.version = u.version =>
          /\ q.at = "reset.save" =>
                q.pwc = u.changedAt /\ q.read.history = u.history
          /\ q.at \in {"mfa.check", "mfa.spend"} => q.read.codes = u.codes
          /\ q.at = "enable.save" /\ ~q.read.mfa => ~u.mfa /\ u.secret
    /\ q.at = "disable.save" => u.mfa

CallsFit == \A c \in Calls : Given(call[c]) /\ Fresh(call[c], user)

\* A session outlives its account's state only until the handler that changed
\* it destroys it.
SessionsFit ==
    \A s \in Sids : sessions[s].kind = "full" /\ sessions[s].good =>
        /\ user.status = "active" \/ \E c \in Calls : call[c].at = "suspend.destroy"
        /\ sessions[s].stamp = user.changedAt \/ \E c \in Calls : call[c].at = "reset.destroy"

CodesFit == \A k \in Codes : spent[k] <= 1 /\ (k \in user.codes => spent[k] = 0)

CountersFit == user.fails = Len(wrongAt) /\ LockedAfterConsecutiveFailures

AccountsInv ==
    /\ AccountTyped
    /\ Unborn
    /\ Apart
    /\ CallsFit
    /\ SessionsFit
    /\ CodesFit
    /\ CountersFit
    /\ SecondFactorHasSecret

-----------------------------------------------------------------------------
(* The steps                                                               *)

LEMMA NextCases ==
    ASSUME AccountsNext
    PROVE  \/ \E c \in Calls : Arrives(c)
           \/ \E c \in Calls : Resumes(c)
           \/ ResendVerification
           \/ ForgotPassword
           \/ \E link \in mailed : VerifyEmail(link)
           \/ \E sid \in Sids : Logout(sid) \/ Refuse(sid) \/ IdleTimeout(sid) \/ RevokeOthers(sid)
           \/ \E sid, other \in Sids : RevokeOne(sid, other)
           \/ (Tick \/ Restart) /\ UNCHANGED account
BY DEF AccountsNext

\* What a handler about to start at a point may hold.
Starting(point, sid, given, pwc) ==
    /\ point \in CallPoints
    /\ sid \in Sids \cup {None}
    /\ given \in Passwords \cup Codes \cup Statuses \cup {None, "totp"}
    /\ pwc \in 0..MaxVersion

Others(c) == \A d \in Calls : d # c => call'[d] = call[d]

\* c has just started there, beside handlers that stay where they are.
Arrived(c, point, sid, given, pwc) ==
    /\ call[c].at = "idle"
    /\ call'[c] = [at |-> point, sid |-> sid, read |-> user, given |-> given, pwc |-> pwc]
    /\ Others(c)
    /\ call' \in [Calls -> CallRecords]

LEMMA StartedCall ==
    ASSUME AccountTyped, NEW c \in Calls, NEW point, NEW sid, NEW given, NEW pwc,
           Starting(point, sid, given, pwc), Start(c, point, sid, given, pwc)
    PROVE  Arrived(c, point, sid, given, pwc)
BY DEF AccountTyped, Start, Starting, Others, Arrived, CallRecords

LEMMA ProceededCall ==
    ASSUME AccountTyped, NEW c \in Calls, NEW point \in CallPoints, Proceed(c, point)
    PROVE  /\ call'[c] = [call[c] EXCEPT !.at = point]
           /\ Others(c)
           /\ call' \in [Calls -> CallRecords]
BY DEF AccountTyped, Proceed, Others, CallRecords

LEMMA ProceededFields ==
    ASSUME AccountTyped, NEW c \in Calls, NEW point \in CallPoints, Proceed(c, point)
    PROVE  /\ call'[c].at = point
           /\ call'[c].read = call[c].read
           /\ call'[c].given = call[c].given
<1>1. call[c] \in CallRecords /\ call'[c] = [call[c] EXCEPT !.at = point]
  BY ProceededCall DEF AccountTyped
<1> QED
  BY <1>1 DEF CallRecords

LEMMA NoUserTyped == NoUser \in UserDocuments
<1>1. 0 \in 0..MaxVersion /\ 0 \in 0..(MaxTime + LOCK)
  BY AccountsAssumption, IpTrackerAssumption
<1>2. <<>> \in Seq(Passwords)
  OBVIOUS
<1> QED
  BY <1>1, <1>2 DEF NoUser, UserDocuments, Statuses

LEMMA IdleCallTyped == IdleCall \in CallRecords
BY NoUserTyped, AccountsAssumption DEF IdleCall, CallRecords, CallPoints

LEMMA DoneCall ==
    ASSUME AccountTyped, NEW c \in Calls, Done(c)
    PROVE  /\ call'[c] = IdleCall
           /\ Others(c)
           /\ call' \in [Calls -> CallRecords]
BY IdleCallTyped DEF AccountTyped, Done, Others

Still == UNCHANGED <<now, user, sessions, mailed, wrongAt, spent>>

\* The eight arrivals, with what their guards let through.
Alone == \A d \in Calls : call[d].at \in {"idle", "register.insert"}

Beside(points) == Nobody(Entering \cup Suspending) /\ Nobody(points)

LoginArrived(c) ==
    /\ Alone
    /\ \E sid \in Sids \cup {None}, p \in Passwords : Arrived(c, "login.check", sid, p, 0)

SuspensionArrived(c) ==
    /\ Alone /\ Exists
    /\ \E to \in {"active", "suspended"} : Arrived(c, "suspend.save", None, to, 0)

VerifyArrived(c) ==
    /\ Beside(Resetting)
    /\ \E sid \in Sids, code \in Codes \cup {"totp"} :
          sessions[sid].kind = "pending" /\ Arrived(c, "mfa.check", sid, code, 0)

ResetArrived(c) ==
    /\ Beside(Factoring) /\ Exists
    /\ \E p \in Passwords : /\ ~Reused(user.history, p)
                            /\ Arrived(c, "reset.save", None, p, user.changedAt)

SetupArrived(c) ==
    /\ Beside({})
    /\ \E sid \in Sids : sessions[sid].kind = "full" /\ Arrived(c, "setup.save", sid, None, 0)

EnableArrived(c) ==
    /\ Beside({}) /\ user.secret
    /\ \E sid \in Sids : sessions[sid].kind = "full" /\ Arrived(c, "enable.save", sid, None, 0)

DisableArrived(c) ==
    /\ Beside({"disable.save"}) /\ user.mfa
    /\ \E sid \in Sids : sessions[sid].kind = "full" /\ Arrived(c, "disable.save", sid, None, 0)

RegisterArrived(c) ==
    /\ ~Exists
    /\ \E p \in Passwords : Arrived(c, "register.insert", None, p, 0)

LEMMA Arrivals ==
    ASSUME AccountTyped, NEW c \in Calls, Arrives(c)
    PROVE  /\ Still
           /\ \/ LoginArrived(c) \/ SuspensionArrived(c)
              \/ VerifyArrived(c) \/ ResetArrived(c)
              \/ SetupArrived(c) \/ EnableArrived(c) \/ DisableArrived(c)
              \/ RegisterArrived(c)
<1>0. 0 \in 0..MaxVersion /\ {"active", "suspended"} \subseteq Statuses
  BY AccountsAssumption DEF Statuses
<1>1. ASSUME Alone, NEW sid \in Sids \cup {None}, NEW p \in Passwords, Login(c, sid, p)
      PROVE  Still /\ LoginArrived(c)
  <2>1. Starting("login.check", sid, p, 0)
    BY <1>0 DEF Starting, CallPoints
  <2>2. Arrived(c, "login.check", sid, p, 0)
    BY <1>1, <2>1, StartedCall DEF Login
  <2> QED
    BY <1>1, <2>2 DEF Login, LoginArrived, Still, Unblocked
<1>2. ASSUME Alone, NEW to \in {"active", "suspended"}, SuspendUser(c, to)
      PROVE  Still /\ SuspensionArrived(c)
  <2>1. Starting("suspend.save", None, to, 0)
    BY <1>0 DEF Starting, CallPoints
  <2>2. Arrived(c, "suspend.save", None, to, 0)
    BY <1>2, <2>1, StartedCall DEF SuspendUser
  <2> QED
    BY <1>2, <2>2 DEF SuspendUser, SuspensionArrived, Still
<1>3. ASSUME Beside(Resetting), NEW sid \in Sids, NEW code \in Codes \cup {"totp"},
             Verify(c, sid, code)
      PROVE  Still /\ VerifyArrived(c)
  <2>1. Starting("mfa.check", sid, code, 0)
    BY <1>0 DEF Starting, CallPoints
  <2>2. Arrived(c, "mfa.check", sid, code, 0)
    BY <1>3, <2>1, StartedCall DEF Verify
  <2> QED
    BY <1>3, <2>2 DEF Verify, VerifyArrived, Still
<1>4. ASSUME Beside(Factoring), NEW link \in mailed, NEW p \in Passwords,
             ResetPassword(c, link, p)
      PROVE  Still /\ ResetArrived(c)
  <2>1. Starting("reset.save", None, p, link.pwc)
    BY <1>0 DEF AccountTyped, Links, Starting, CallPoints
  <2>2. Arrived(c, "reset.save", None, p, link.pwc)
    BY <1>4, <2>1, StartedCall DEF ResetPassword
  <2> QED
    BY <1>4, <2>2 DEF ResetPassword, ResetArrived, Still
<1>5. ASSUME Beside({}), NEW sid \in Sids, Setup(c, sid)
      PROVE  Still /\ SetupArrived(c)
  <2>1. Starting("setup.save", sid, None, 0)
    BY <1>0 DEF Starting, CallPoints
  <2>2. Arrived(c, "setup.save", sid, None, 0)
    BY <1>5, <2>1, StartedCall DEF Setup
  <2> QED
    BY <1>5, <2>2 DEF Setup, SetupArrived, Still
<1>6. ASSUME Beside({}), NEW sid \in Sids, Enable(c, sid)
      PROVE  Still /\ EnableArrived(c)
  <2>1. Starting("enable.save", sid, None, 0)
    BY <1>0 DEF Starting, CallPoints
  <2>2. Arrived(c, "enable.save", sid, None, 0)
    BY <1>6, <2>1, StartedCall DEF Enable
  <2> QED
    BY <1>6, <2>2 DEF Enable, EnableArrived, Still
<1>7. ASSUME Beside({"disable.save"}), NEW sid \in Sids, Disable(c, sid)
      PROVE  Still /\ DisableArrived(c)
  <2>1. Starting("disable.save", sid, None, 0)
    BY <1>0 DEF Starting, CallPoints
  <2>2. Arrived(c, "disable.save", sid, None, 0)
    BY <1>7, <2>1, StartedCall DEF Disable
  <2> QED
    BY <1>7, <2>2 DEF Disable, DisableArrived, Still
<1>8. ASSUME NEW p \in Passwords, Register(c, p)
      PROVE  Still /\ RegisterArrived(c)
  <2>1. Starting("register.insert", None, p, 0)
    BY <1>0 DEF Starting, CallPoints
  <2>2. Arrived(c, "register.insert", None, p, 0)
    BY <1>8, <2>1, StartedCall DEF Register
  <2> QED
    BY <1>8, <2>2 DEF Register, RegisterArrived, Still
<1>9. Nobody({})
  BY DEF Nobody
<1> QED
  BY <1>1, <1>2, <1>3, <1>4, <1>5, <1>6, <1>7, <1>8, <1>9 DEF Arrives, Alone, Beside

LEMMA ArrivedSomewhere ==
    ASSUME AccountTyped, NEW c \in Calls, Arrives(c)
    PROVE  /\ Still
           /\ call[c].at = "idle"
           /\ Others(c)
           /\ call' \in [Calls -> CallRecords]
BY Arrivals
   DEF LoginArrived, SuspensionArrived, VerifyArrived, ResetArrived, SetupArrived,
       EnableArrived, DisableArrived, RegisterArrived, Arrived

-----------------------------------------------------------------------------
(* The types are kept                                                      *)

LEMMA TimesAreNat == Times \subseteq Nat /\ \A t \in Times : t + LOCK \in 0..(MaxTime + LOCK)
BY AccountsAssumption, IpTrackerAssumption DEF Times

LEMMA DestroyTyped ==
    ASSUME AccountTyped, NEW ids, Destroy(ids)
    PROVE  sessions' \in [Sids -> SessionDocuments]
<1>1. NoSession \in SessionDocuments
  BY AccountsAssumption DEF NoSession, SessionDocuments
<1> QED
  BY <1>1 DEF AccountTyped, Destroy

LEMMA OpenedTyped ==
    ASSUME AccountTyped, NEW c \in Calls, NEW sid \in Sids,
           NEW session \in SessionDocuments, Opened(c, session, sid)
    PROVE  sessions' \in [Sids -> SessionDocuments]
<1>1. NoSession \in SessionDocuments
  BY AccountsAssumption DEF NoSession, SessionDocuments
<1> QED
  BY <1>1 DEF AccountTyped, Opened

LEMMA RegisteredTyped ==
    ASSUME NEW p \in Passwords
    PROVE  Registered(p) \in UserDocuments
<1>1. <<p>> \in Seq(Passwords) /\ "active" \in Statuses
  BY DEF Statuses
<1> QED
  BY <1>1, NoUserTyped DEF Registered, UserDocuments

\* A registration leaves all but status and password as they were.
LEMMA RegisteredFields ==
    ASSUME NEW p
    PROVE  LET u == Registered(p)
           IN  /\ u.status = "active" /\ u.fails = 0 /\ u.lockoutUntil = 0
               /\ ~u.mfa /\ ~u.secret /\ u.codes = {}
               /\ u.version = 0 /\ u.changedAt = 0
BY DEF Registered, NoUser

LEMMA PushHistoryTyped ==
    ASSUME NEW history \in Seq(Passwords), NEW p \in Passwords
    PROVE  PushHistory(history, p) \in Seq(Passwords)
<1> DEFINE all == <<p>> \o history
           n == IF Len(history) < HISTORY THEN Len(history) + 1 ELSE HISTORY
<1>1. all \in Seq(Passwords) /\ Len(all) = Len(history) + 1
  OBVIOUS
<1>2. n \in 1..Len(all)
  BY <1>1, AccountsAssumption
<1>3. SubSeq(all, 1, n) \in Seq(Passwords)
  BY <1>1, <1>2, SubSeqProperties
<1> QED
  BY <1>3 DEF PushHistory

LEMMA ResumptionTyped ==
    ASSUME AccountTyped, NEW c \in Calls, Resumes(c), Given(call[c])
    PROVE  AccountTyped'
<1> USE DEF AccountTyped
<1> DEFINE q == call[c]
<1>0. /\ now \in Nat /\ now + LOCK \in 0..(MaxTime + LOCK) /\ user.fails \in Nat
      /\ 0 \in Nat /\ 0 \in 0..(MaxTime + LOCK) /\ 0 \in 0..MaxVersion
      /\ user.version \in 0..MaxVersion /\ user.changedAt \in 0..MaxVersion
      /\ MaxVersion \in Nat
      /\ q \in CallRecords /\ q.read \in UserDocuments
  <2>1. now \in Nat /\ now + LOCK \in 0..(MaxTime + LOCK)
    BY TimesAreNat
  <2>2. user.fails \in Nat /\ user.version \in 0..MaxVersion /\ user.changedAt \in 0..MaxVersion
    BY DEF UserDocuments
  <2>3. MaxVersion \in Nat /\ 0 \in 0..MaxVersion /\ 0 \in 0..(MaxTime + LOCK)
    BY AccountsAssumption, IpTrackerAssumption
  <2>4. q \in CallRecords /\ q.read \in UserDocuments
    BY DEF CallRecords
  <2> QED
    BY <2>1, <2>2, <2>3, <2>4
<1>1. CASE RegisterInsert(c)
  <2>1. q.given \in Passwords /\ q.given # None
    BY <1>1, AccountsAssumption DEF RegisterInsert, Given
  <2>2. [purpose |-> "verify_email", pwc |-> 0] \in Links
    BY <1>0 DEF Links
  <2>3. user' \in UserDocuments /\ user'.changedAt <= user'.version /\ mailed' \subseteq Links
    BY <1>0, <1>1, <2>1, <2>2, RegisteredTyped, RegisteredFields DEF RegisterInsert
  <2> QED
    BY <1>1, <2>3, DoneCall DEF RegisterInsert
<1>2. CASE LoginCheck(c)
  <2>1. call' \in [Calls -> CallRecords]
    BY <1>2, DoneCall, ProceededCall DEF LoginCheck, CallPoints
  <2> QED
    BY <1>2, <2>1 DEF LoginCheck
<1>3. CASE LoginCount(c)
  <2>1. call' \in [Calls -> CallRecords] /\ wrongAt' \in Seq(Times)
    BY <1>3, DoneCall DEF LoginCount
  <2>2. user' \in UserDocuments /\ user'.changedAt <= user'.version
    <3> DEFINE f == q.read.fails + 1
               t == IF f >= LOCK_THRESHOLD THEN now + LOCK ELSE user.lockoutUntil
    <3>1. f \in Nat /\ t \in 0..(MaxTime + LOCK)
      BY <1>0 DEF UserDocuments
    <3>2. user' = [user EXCEPT !.fails = f, !.lockoutUntil = t]
      BY <1>3 DEF LoginCount
    <3> HIDE DEF f, t
    <3> QED
      BY <1>0, <3>1, <3>2 DEF UserDocuments
  <2> QED
    BY <1>3, <2>1, <2>2 DEF LoginCount
<1>4. CASE LoginClear(c)
  <2>1. call' \in [Calls -> CallRecords]
    BY <1>4, DoneCall, ProceededCall DEF LoginClear, CallPoints
  <2>2. user' \in UserDocuments /\ user'.changedAt <= user'.version
    <3> DEFINE f == Saved(q.read.fails, 0, user.fails)
               t == Saved(q.read.lockoutUntil, 0, user.lockoutUntil)
    <3>1. f \in Nat /\ t \in 0..(MaxTime + LOCK)
      BY <1>0 DEF Saved, UserDocuments
    <3>2. user' = [user EXCEPT !.fails = f, !.lockoutUntil = t]
      BY <1>4 DEF LoginClear
    <3> HIDE DEF f, t
    <3> QED
      BY <1>0, <3>1, <3>2 DEF UserDocuments
  <2>3. wrongAt' \in Seq(Times)
    BY <1>4 DEF LoginClear
  <2> QED
    BY <1>4, <2>1, <2>2, <2>3 DEF LoginClear
<1>5. ASSUME NEW sid \in Sids, LoginOpen(c, sid) \/ VerifyOpen(c, sid)
      PROVE  AccountTyped'
  <2>1. Full(q.read) \in SessionDocuments /\ Pending \in SessionDocuments
    BY <1>0 DEF Full, Pending, NoSession, SessionDocuments, UserDocuments
  <2>2. sessions' \in [Sids -> SessionDocuments]
    BY <1>5, <2>1, OpenedTyped DEF LoginOpen, VerifyOpen
  <2> QED
    BY <1>5, <2>2, DoneCall DEF LoginOpen, VerifyOpen
<1>6. CASE VerifyCheck(c)
  BY <1>6, DoneCall, ProceededCall DEF VerifyCheck, CallPoints
<1>7. CASE VerifySpend(c)
  <2>1. call' \in [Calls -> CallRecords]
    BY <1>7, DoneCall, ProceededCall DEF VerifySpend, CallPoints
  <2>2. user' \in UserDocuments /\ user'.changedAt <= user'.version
    <3>1. CASE UNCHANGED user
      BY <3>1
    <3>2. CASE Current(c)
      <4> DEFINE left == q.read.codes \ {q.given}
                 v == user.version + 1
      <4>1. v \in 0..MaxVersion /\ user.changedAt <= v /\ left \subseteq Codes
        BY <1>0, <3>2 DEF Current, UserDocuments
      <4>2. user' = [user EXCEPT !.codes = left, !.version = v]
        BY <1>7, <3>2 DEF VerifySpend, Current, Outdated
      <4> HIDE DEF left, v
      <4> QED
        BY <4>1, <4>2 DEF UserDocuments
    <3> QED
      BY <1>7, <3>1, <3>2 DEF VerifySpend
  <2>3. spent' \in [Codes -> Nat]
    BY <1>7 DEF VerifySpend
  <2> QED
    BY <1>7, <2>1, <2>2, <2>3 DEF VerifySpend
<1>8. CASE SetupSave(c)
  BY <1>8, DoneCall DEF SetupSave, UserDocuments
<1>9. CASE EnableSave(c)
  <2>1. user' \in UserDocuments /\ user'.changedAt <= user'.version
    <3>1. CASE UNCHANGED user
      BY <3>1
    <3>2. CASE Current(c)
      <4> DEFINE b == Saved(q.read.mfa, TRUE, user.mfa)
                 v == user.version + 1
      <4>1. b \in BOOLEAN
        BY DEF Saved, UserDocuments
      <4>2. v \in 0..MaxVersion /\ user.changedAt <= v
        BY <1>0, <3>2 DEF Current
      <4>3. user' = [user EXCEPT !.mfa = b, !.codes = Codes, !.version = v]
        BY <1>9, <3>2 DEF EnableSave, Current, Outdated
      <4> HIDE DEF b, v
      <4> QED
        BY <4>1, <4>2, <4>3 DEF UserDocuments
    <3> QED
      BY <1>9, <3>1, <3>2 DEF EnableSave
  <2>2. spent' \in [Codes -> Nat]
    BY <1>9 DEF EnableSave
  <2> QED
    BY <1>9, <2>1, <2>2, DoneCall DEF EnableSave
<1>10. CASE DisableSave(c)
  <2>1. user' \in UserDocuments /\ user'.changedAt <= user'.version
    <3> DEFINE off == [user EXCEPT !.mfa = FALSE, !.secret = FALSE]
               v == user.version + 1
    <3>1. off \in UserDocuments /\ off.changedAt <= off.version
             /\ off.changedAt = user.changedAt /\ off.version = user.version
      BY <1>0 DEF UserDocuments
    <3>2. CASE Current(c)
      <4>1. v \in 0..MaxVersion /\ user.changedAt <= v
        BY <1>0, <3>2 DEF Current
      <4>2. user' = off \/ user' = [off EXCEPT !.codes = {}, !.version = v]
        BY <1>10, <3>1, <3>2 DEF DisableSave, Outdated, Current
      <4> HIDE DEF off, v
      <4> QED
        BY <3>1, <4>1, <4>2 DEF UserDocuments
    <3>3. CASE ~Current(c)
      BY <1>10, <3>1, <3>3 DEF DisableSave
    <3> QED
      BY <3>2, <3>3
  <2> QED
    BY <1>10, <2>1, DoneCall DEF DisableSave
<1>11. CASE ResetSave(c)
  <2>1. call' \in [Calls -> CallRecords]
    BY <1>11, DoneCall, ProceededCall DEF ResetSave, CallPoints
  <2>2. q.given \in Passwords /\ q.read.history \in Seq(Passwords)
    BY <1>11, <1>0 DEF ResetSave, Given, UserDocuments
  <2>3. PushHistory(q.read.history, q.given) \in Seq(Passwords)
    BY <2>2, PushHistoryTyped
  <2>4. user' \in UserDocuments /\ user'.changedAt <= user'.version
    <3>1. CASE UNCHANGED user
      BY <3>1
    <3>2. CASE Current(c)
      <4> DEFINE h == PushHistory(q.read.history, q.given)
                 t == user.changedAt + 1
                 v == user.version + 1
      <4>1. v \in 0..MaxVersion /\ t \in 0..MaxVersion /\ t <= v
        BY <1>0, <3>2 DEF Current
      <4>2. user' = [user EXCEPT !.password = q.given, !.history = h,
                                 !.changedAt = t, !.version = v]
        BY <1>11, <3>2 DEF ResetSave, Current, Outdated
      <4> HIDE DEF h, t, v
      <4> QED
        BY <2>2, <2>3, <4>1, <4>2 DEF h, UserDocuments
    <3> QED
      BY <1>11, <3>1, <3>2 DEF ResetSave
  <2> QED
    BY <1>11, <2>1, <2>4 DEF ResetSave
<1>12. CASE SuspendSave(c)
  <2>1. call' \in [Calls -> CallRecords]
    BY <1>12, DoneCall, ProceededCall DEF SuspendSave, CallPoints
  <2>2. user' \in UserDocuments /\ user'.changedAt <= user'.version
    <3> DEFINE status == Saved(q.read.status, q.given, user.status)
    <3>1. status \in Statuses
      BY <1>12 DEF SuspendSave, Given, Saved, UserDocuments, Statuses
    <3>2. user' = [user EXCEPT !.status = status]
      BY <1>12 DEF SuspendSave
    <3> HIDE DEF status
    <3> QED
      BY <1>0, <3>1, <3>2 DEF UserDocuments
  <2> QED
    BY <1>12, <2>1, <2>2 DEF SuspendSave
<1>13. CASE ResetDestroy(c) \/ SuspendDestroy(c)
  BY <1>13, DoneCall, DestroyTyped DEF ResetDestroy, SuspendDestroy, DestroyUserSessions
<1> QED
  BY <1>1, <1>2, <1>3, <1>4, <1>5, <1>6, <1>7, <1>8, <1>9, <1>10, <1>11, <1>12, <1>13 DEF Resumes

LEMMA TypesKept ==
    ASSUME AccountTyped, CallsFit, AccountsNext
    PROVE  AccountTyped'
<1>0. 0 \in 0..MaxVersion
  BY AccountsAssumption
<1>1. ASSUME NEW c \in Calls, Arrives(c) PROVE AccountTyped'
  BY <1>1, ArrivedSomewhere DEF AccountTyped, Still
<1>2. ASSUME NEW c \in Calls, Resumes(c) PROVE AccountTyped'
  BY <1>2, ResumptionTyped DEF CallsFit
<1>3. CASE ResendVerification
  BY <1>0, <1>3 DEF ResendVerification, AccountTyped, Links
<1>4. CASE ForgotPassword
  BY <1>4 DEF ForgotPassword, AccountTyped, Links, UserDocuments
<1>5. ASSUME NEW link \in mailed, VerifyEmail(link) PROVE AccountTyped'
  BY <1>5 DEF VerifyEmail, AccountTyped, UserDocuments
<1>6. ASSUME NEW sid \in Sids, Logout(sid) \/ Refuse(sid) \/ IdleTimeout(sid) \/ RevokeOthers(sid)
      PROVE  AccountTyped'
  <2>1. sessions' \in [Sids -> SessionDocuments]
    BY <1>6, DestroyTyped DEF Logout, Refuse, IdleTimeout, RevokeOthers
  <2> QED
    BY <1>6, <2>1 DEF Logout, Refuse, IdleTimeout, RevokeOthers, AccountTyped
<1>7. ASSUME NEW sid \in Sids, NEW other \in Sids, RevokeOne(sid, other) PROVE AccountTyped'
  <2>1. sessions' \in [Sids -> SessionDocuments]
    BY <1>7, DestroyTyped DEF RevokeOne
  <2> QED
    BY <1>7, <2>1 DEF RevokeOne, AccountTyped
<1>8. CASE (Tick \/ Restart) /\ UNCHANGED account
  BY <1>8, IpTrackerAssumption DEF Tick, Restart, account, AccountTyped, Times
<1> QED
  BY <1>1, <1>2, <1>3, <1>4, <1>5, <1>6, <1>7, <1>8, NextCases

-----------------------------------------------------------------------------
(* Which handlers run beside each other                                    *)

\* A handler goes on within its own kind, or ends.
Forward(a, b) ==
    \/ b = "idle"
    \/ a \in Entering /\ b \in Entering
    \/ a \in Factoring /\ b \in Factoring
    \/ a \in Resetting /\ b \in Resetting
    \/ a \in Suspending /\ b \in Suspending

LEMMA Resumption ==
    ASSUME AccountTyped, NEW c \in Calls, Resumes(c)
    PROVE  /\ \/ call'[c] = IdleCall
              \/ \E point \in CallPoints : /\ call'[c] = [call[c] EXCEPT !.at = point]
                                           /\ call'[c].at = point
                                           /\ Forward(call[c].at, point)
           /\ Others(c)
<1> DEFINE Goes(point) == point \in CallPoints /\ Forward(call[c].at, point) /\ Proceed(c, point)
<1> USE DEF Forward, Entering, Factoring, Resetting, Suspending, CallPoints
<1>1. CASE RegisterInsert(c)
  BY <1>1, DoneCall DEF RegisterInsert
<1>2. ASSUME LoginCheck(c) PROVE Done(c) \/ Goes("login.count") \/ Goes("login.clear")
  BY <1>2 DEF LoginCheck
<1>3. CASE LoginCount(c)
  BY <1>3, DoneCall DEF LoginCount
<1>4. ASSUME LoginClear(c) PROVE Done(c) \/ Goes("login.open")
  BY <1>4 DEF LoginClear
<1>5. ASSUME NEW sid \in Sids, LoginOpen(c, sid) \/ VerifyOpen(c, sid) PROVE Done(c)
  BY <1>5 DEF LoginOpen, VerifyOpen
<1>6. ASSUME VerifyCheck(c) PROVE Done(c) \/ Goes("mfa.open") \/ Goes("mfa.spend")
  BY <1>6 DEF VerifyCheck
<1>7. ASSUME VerifySpend(c) PROVE Done(c) \/ Goes("mfa.open")
  BY <1>7 DEF VerifySpend
<1>8. ASSUME SetupSave(c) \/ EnableSave(c) \/ DisableSave(c) PROVE Done(c)
  BY <1>8 DEF SetupSave, EnableSave, DisableSave
<1>9. ASSUME ResetSave(c) PROVE Done(c) \/ Goes("reset.destroy")
  BY <1>9 DEF ResetSave
<1>10. ASSUME SuspendSave(c) PROVE Done(c) \/ Goes("suspend.destroy")
  BY <1>10 DEF SuspendSave
<1>11. ASSUME ResetDestroy(c) \/ SuspendDestroy(c) PROVE Done(c)
  BY <1>11 DEF ResetDestroy, SuspendDestroy
<1>12. Done(c) \/ \E point : Goes(point)
  BY <1>1, <1>2, <1>3, <1>4, <1>5, <1>6, <1>7, <1>8, <1>9, <1>10, <1>11
     DEF Resumes, RegisterInsert, LoginCount
<1>13. CASE Done(c)
  BY <1>13, DoneCall
<1>14. ASSUME NEW point, Goes(point)
       PROVE  call'[c] = [call[c] EXCEPT !.at = point] /\ call'[c].at = point /\ Others(c)
  <2>1. call'[c] = [call[c] EXCEPT !.at = point] /\ Others(c)
    BY <1>14, ProceededCall
  <2>2. call[c] \in CallRecords
    BY DEF AccountTyped
  <2> QED
    BY <2>1, <2>2 DEF CallRecords
<1> QED
  BY <1>12, <1>13, <1>14

\* Who may be in progress when a handler arrives.
LEMMA ArrivalApart ==
    ASSUME AccountTyped, NEW c \in Calls, Arrives(c), NEW d \in Calls, d # c
    PROVE  /\ call'[c].at \in Entering \cup Suspending => call[d].at \in {"idle", "register.insert"}
           /\ call[d].at \in Entering \cup Suspending => call'[c].at = "register.insert"
           /\ call'[c].at \in Factoring => call[d].at \notin Resetting
           /\ call'[c].at \in Resetting => call[d].at \notin Factoring
           /\ call'[c].at = "disable.save" => call[d].at # "disable.save"
<1>1. CASE LoginArrived(c) \/ SuspensionArrived(c)
  <2>1. call'[c].at \in {"login.check", "suspend.save"} /\ call[d].at \in {"idle", "register.insert"}
    <3>1. CASE LoginArrived(c)
      BY <3>1 DEF LoginArrived, Arrived, Alone
    <3>2. CASE SuspensionArrived(c)
      BY <3>2 DEF SuspensionArrived, Arrived, Alone
    <3> QED
      BY <1>1, <3>1, <3>2
  <2> QED
    BY <2>1 DEF Entering, Factoring, Resetting, Suspending
<1>2. CASE VerifyArrived(c)
  <2>1. call'[c].at = "mfa.check" /\ call[d].at \notin Entering \cup Suspending \cup Resetting
    BY <1>2 DEF VerifyArrived, Arrived, Beside, Nobody
  <2> QED
    BY <2>1 DEF Entering, Factoring, Resetting, Suspending
<1>3. CASE ResetArrived(c)
  <2>1. call'[c].at = "reset.save" /\ call[d].at \notin Entering \cup Suspending \cup Factoring
    BY <1>3 DEF ResetArrived, Arrived, Beside, Nobody
  <2> QED
    BY <2>1 DEF Entering, Factoring, Resetting, Suspending
<1>4. CASE SetupArrived(c) \/ EnableArrived(c)
  <2>1. call'[c].at \in {"setup.save", "enable.save"} /\ call[d].at \notin Entering \cup Suspending
    <3>1. CASE SetupArrived(c)
      BY <3>1 DEF SetupArrived, Arrived, Beside, Nobody
    <3>2. CASE EnableArrived(c)
      BY <3>2 DEF EnableArrived, Arrived, Beside, Nobody
    <3> QED
      BY <1>4, <3>1, <3>2
  <2> QED
    BY <2>1 DEF Entering, Factoring, Resetting, Suspending
<1>5. CASE DisableArrived(c)
  <2>1. /\ call'[c].at = "disable.save"
        /\ call[d].at \notin Entering \cup Suspending /\ call[d].at # "disable.save"
    BY <1>5 DEF DisableArrived, Arrived, Beside, Nobody
  <2> QED
    BY <2>1 DEF Entering, Factoring, Resetting, Suspending
<1>6. CASE RegisterArrived(c)
  <2>1. call'[c].at = "register.insert"
    BY <1>6 DEF RegisterArrived, Arrived
  <2> QED
    BY <2>1 DEF Entering, Factoring, Resetting, Suspending
<1> QED
  BY <1>1, <1>2, <1>3, <1>4, <1>5, <1>6, Arrivals

LEMMA ApartKept ==
    ASSUME AccountTyped, Apart, AccountsNext
    PROVE  Apart'
<1>1. ASSUME NEW c \in Calls, Arrives(c) PROVE Apart'
  <2>1. Others(c)
    BY <1>1, ArrivedSomewhere
  <2>2. SUFFICES ASSUME NEW e \in Calls, NEW d \in Calls, e # d
        PROVE  /\ call'[e].at \in Entering \cup Suspending =>
                     call'[d].at \in {"idle", "register.insert"}
               /\ ~(call'[e].at \in Factoring /\ call'[d].at \in Resetting)
               /\ ~(call'[e].at = "disable.save" /\ call'[d].at = "disable.save")
    BY DEF Apart
  <2>3. CASE e = c
    BY <1>1, <2>1, <2>2, <2>3, ArrivalApart DEF Others
  <2>4. CASE d = c
    BY <1>1, <2>1, <2>2, <2>4, ArrivalApart DEF Others
  <2>5. CASE e # c /\ d # c
    BY <2>1, <2>2, <2>5 DEF Others, Apart
  <2> QED
    BY <2>3, <2>4, <2>5
<1>2. ASSUME NEW c \in Calls, Resumes(c) PROVE Apart'
  <2>1. Others(c)
    BY <1>2, Resumption
  <2>2. CASE call'[c] = IdleCall
    BY <2>1, <2>2 DEF Apart, Others, IdleCall, Entering, Factoring, Resetting, Suspending
  <2>3. ASSUME NEW point, call'[c].at = point, Forward(call[c].at, point) PROVE Apart'
    BY <2>1, <2>3 DEF Apart, Others, Forward, Entering, Factoring, Resetting, Suspending
  <2> QED
    BY <1>2, <2>2, <2>3, Resumption
<1>3. CASE UNCHANGED call
  BY <1>3 DEF Apart
<1> QED
  BY <1>1, <1>2, <1>3, NextCases
     DEF ResendVerification, ForgotPassword, VerifyEmail, Logout, Refuse, IdleTimeout,
         RevokeOthers, RevokeOne, account

-----------------------------------------------------------------------------
(* What a save changes                                                     *)

SameCounters == user'.fails = user.fails /\ user'.lockoutUntil = user.lockoutUntil
SameStanding == user'.status = user.status /\ user'.changedAt = user.changedAt
SamePassword == user'.password = user.password /\ user'.history = user.history
SameVersion  == user'.version = user.version
NextVersion  == user'.version = user.version + 1

LEMMA NothingChanges ==
    ASSUME UNCHANGED user
    PROVE  SameCounters /\ SameStanding /\ SamePassword /\ SameVersion
BY DEF SameCounters, SameStanding, SamePassword, SameVersion

LEMMA RegisterInsertEffect ==
    ASSUME AccountTyped, NEW c \in Calls, RegisterInsert(c)
    PROVE  \/ UNCHANGED user
           \/ ~Exists /\ user'.status = "active" /\ user'.fails = 0 /\ user'.lockoutUntil = 0
              /\ ~user'.mfa /\ user'.codes = {} /\ user'.version = 0 /\ user'.changedAt = 0
BY RegisteredFields DEF RegisterInsert

LEMMA VerifyEmailEffect ==
    ASSUME AccountTyped, NEW link, VerifyEmail(link)
    PROVE  /\ SameCounters /\ SameStanding /\ SamePassword /\ SameVersion
           /\ user'.mfa = user.mfa /\ user'.secret = user.secret /\ user'.codes = user.codes
BY DEF AccountTyped, UserDocuments, VerifyEmail,
       SameCounters, SameStanding, SamePassword, SameVersion

LEMMA LoginCountEffect ==
    ASSUME AccountTyped, NEW c \in Calls, LoginCount(c)
    PROVE  /\ SameStanding /\ SamePassword /\ SameVersion
           /\ user'.mfa = user.mfa /\ user'.secret = user.secret /\ user'.codes = user.codes
           /\ user'.fails = call[c].read.fails + 1
           /\ user'.fails >= LOCK_THRESHOLD => user'.lockoutUntil = now + LOCK
BY DEF AccountTyped, UserDocuments, LoginCount, SameStanding, SamePassword, SameVersion

LEMMA LoginClearEffect ==
    ASSUME AccountTyped, NEW c \in Calls, LoginClear(c)
    PROVE  /\ SameStanding /\ SamePassword /\ SameVersion
           /\ user'.mfa = user.mfa /\ user'.secret = user.secret /\ user'.codes = user.codes
           /\ call[c].read.fails = user.fails => user'.fails = 0
BY DEF AccountTyped, UserDocuments, LoginClear, Saved, SameStanding, SamePassword, SameVersion

LEMMA VerifySpendEffect ==
    ASSUME AccountTyped, NEW c \in Calls, VerifySpend(c)
    PROVE  /\ SameCounters /\ SameStanding /\ SamePassword
           /\ user'.mfa = user.mfa /\ user'.secret = user.secret
           /\ \/ UNCHANGED <<user, spent>>
              \/ /\ call[c].read.version = user.version /\ NextVersion
                 /\ user'.codes = call[c].read.codes \ {call[c].given}
                 /\ spent' = [spent EXCEPT ![call[c].given] = @ + 1]
<1>1. CASE UNCHANGED <<user, spent>>
  BY <1>1, NothingChanges
<1>2. CASE Current(c)
  BY <1>2 DEF AccountTyped, UserDocuments, VerifySpend, Current, Outdated,
              SameCounters, SameStanding, SamePassword, NextVersion
<1> QED
  BY <1>1, <1>2 DEF VerifySpend

LEMMA SetupSaveEffect ==
    ASSUME AccountTyped, NEW c \in Calls, SetupSave(c)
    PROVE  /\ SameCounters /\ SameStanding /\ SamePassword /\ SameVersion
           /\ user'.mfa = user.mfa /\ user'.secret /\ user'.codes = user.codes
BY DEF AccountTyped, UserDocuments, SetupSave,
       SameCounters, SameStanding, SamePassword, SameVersion

LEMMA EnableSaveEffect ==
    ASSUME AccountTyped, NEW c \in Calls, EnableSave(c)
    PROVE  /\ SameCounters /\ SameStanding /\ SamePassword
           /\ user'.secret = user.secret
           /\ \/ UNCHANGED <<user, spent>>
              \/ /\ call[c].read.version = user.version /\ NextVersion
                 /\ user'.mfa = Saved(call[c].read.mfa, TRUE, user.mfa)
                 /\ spent' = [k \in Codes |-> 0]
<1>1. CASE UNCHANGED <<user, spent>>
  BY <1>1, NothingChanges
<1>2. CASE Current(c)
  BY <1>2 DEF AccountTyped, UserDocuments, EnableSave, Current, Outdated,
              SameCounters, SameStanding, SamePassword, NextVersion
<1> QED
  BY <1>1, <1>2 DEF EnableSave

LEMMA DisableSaveEffect ==
    ASSUME AccountTyped, NEW c \in Calls, DisableSave(c)
    PROVE  /\ SameCounters /\ SameStanding /\ SamePassword
           /\ \/ UNCHANGED user
              \/ ~user'.mfa /\ user'.codes = user.codes /\ SameVersion
              \/ ~user'.mfa /\ user'.codes = {} /\ NextVersion
<1> DEFINE off == [user EXCEPT !.mfa = FALSE, !.secret = FALSE]
<1>1. CASE UNCHANGED user
  BY <1>1, NothingChanges
<1>2. CASE user' = off
  BY <1>2 DEF AccountTyped, UserDocuments,
              SameCounters, SameStanding, SamePassword, SameVersion
<1>3. CASE user' = [off EXCEPT !.codes = {}, !.version = @ + 1]
  BY <1>3 DEF AccountTyped, UserDocuments,
              SameCounters, SameStanding, SamePassword, NextVersion
<1> QED
  BY <1>1, <1>2, <1>3 DEF DisableSave

LEMMA ResetSaveEffect ==
    ASSUME AccountTyped, NEW c \in Calls, ResetSave(c)
    PROVE  /\ SameCounters
           /\ user'.status = user.status
           /\ user'.mfa = user.mfa /\ user'.secret = user.secret /\ user'.codes = user.codes
           /\ \/ UNCHANGED user
              \/ /\ call[c].read.version = user.version /\ NextVersion
                 /\ user'.password = call[c].given
                 /\ Proceed(c, "reset.destroy")
<1>1. CASE UNCHANGED user
  BY <1>1, NothingChanges DEF SameStanding
<1>2. CASE Current(c)
  BY <1>2 DEF AccountTyped, UserDocuments, ResetSave, Current, Outdated, SameCounters, NextVersion
<1> QED
  BY <1>1, <1>2 DEF ResetSave

LEMMA SuspendSaveEffect ==
    ASSUME AccountTyped, NEW c \in Calls, SuspendSave(c)
    PROVE  /\ SameCounters /\ SamePassword /\ SameVersion
           /\ user'.changedAt = user.changedAt
           /\ user'.mfa = user.mfa /\ user'.secret = user.secret /\ user'.codes = user.codes
           /\ user'.status = Saved(call[c].read.status, call[c].given, user.status)
BY DEF AccountTyped, UserDocuments, SuspendSave, SameCounters, SamePassword, SameVersion

-----------------------------------------------------------------------------
(* What handlers rely on is kept                                           *)

LEMMA CallTyped ==
    ASSUME AccountTyped, NEW c \in Calls
    PROVE  /\ call[c] \in CallRecords
           /\ call[c].read.version \in Nat /\ call[c].read.fails \in Nat
           /\ user.version \in Nat /\ user.fails \in Nat
<1>1. call[c] \in CallRecords
  BY DEF AccountTyped
<1>2. call[c].read \in UserDocuments
  BY <1>1 DEF CallRecords
<1> QED
  BY <1>1, <1>2, AccountsAssumption DEF AccountTyped, UserDocuments

LEMMA IdleFits ==
    ASSUME NEW u, u.version \in Nat
    PROVE  Given(IdleCall) /\ Fresh(IdleCall, u)
<1>1. IdleCall.at = "idle" /\ IdleCall.read = NoUser /\ NoUser.version = 0
  BY DEF IdleCall, NoUser
<1> QED
  BY <1>1 DEF Given, Fresh, NoAccountYet, Entering, Factoring

\* One handler moves: it must fit, and the others still.
LEMMA CallsFitAfter ==
    ASSUME CallsFit, NEW c \in Calls, Others(c),
           Given(call'[c]), Fresh(call'[c], user'),
           \A d \in Calls : d # c => Fresh(call[d], user')
    PROVE  CallsFit'
BY DEF CallsFit, Others

\* A handler that finds nothing about to change.
LEMMA FreshStill ==
    ASSUME AccountTyped, NEW q, Fresh(q, user), SameCounters, SameStanding, SamePassword,
           user'.codes = user.codes, user'.mfa = user.mfa, user.secret => user'.secret,
           SameVersion
    PROVE  Fresh(q, user')
BY DEF Fresh, SameCounters, SameStanding, SamePassword, SameVersion

\* A handler that no login or second factor has, and whose version is gone.
LEMMA FreshOutdated ==
    ASSUME AccountTyped, NEW q, q.read.version \in Nat, Fresh(q, user), NextVersion,
           q.at \notin Entering,
           q.at \in Factoring => SameStanding,
           q.at = "disable.save" => user'.mfa
    PROVE  Fresh(q, user')
<1>1. user.version \in Nat
  BY AccountsAssumption DEF AccountTyped, UserDocuments
<1>2. q.read.version <= user'.version /\ q.read.version # user'.version
  BY <1>1 DEF Fresh, NextVersion
<1>3. q.at \notin {"login.check", "login.count", "login.clear"}
  BY DEF Entering
<1> QED
  BY <1>2, <1>3 DEF Fresh, SameStanding

\* A handler that is idle or about to insert relies on nothing.
LEMMA FreshUnread ==
    ASSUME AccountTyped, NEW q, Fresh(q, user), q.at \in {"idle", "register.insert"},
           user.version <= user'.version, user'.version \in Nat, q.read.version \in Nat
    PROVE  Fresh(q, user')
<1>1. user.version \in Nat
  BY AccountsAssumption DEF AccountTyped, UserDocuments
<1> QED
  BY <1>1 DEF Fresh, Entering, Factoring

LEMMA UnbornKept ==
    ASSUME AccountsInv, AccountTyped', AccountsNext
    PROVE  Unborn'
<1> USE DEF AccountsInv
<1>1. ASSUME NEW c \in Calls, Arrives(c) PROVE Unborn'
  <2>1. SUFFICES ASSUME ~Exists
                 PROVE  call'[c].at \in NoAccountYet /\ call'[c].read = NoUser
    BY <1>1, ArrivedSomewhere DEF Unborn, Exists, Still, Others
  <2>2. user = NoUser /\ \A s \in Sids : sessions[s].kind = "none"
    BY <2>1 DEF Unborn
  <2>3. LoginArrived(c) \/ RegisterArrived(c)
    BY <1>1, <2>1, <2>2, Arrivals
       DEF SuspensionArrived, VerifyArrived, ResetArrived, SetupArrived, EnableArrived, DisableArrived
  <2>4. CASE LoginArrived(c)
    BY <2>2, <2>4 DEF LoginArrived, Arrived, NoAccountYet
  <2>5. CASE RegisterArrived(c)
    BY <2>2, <2>5 DEF RegisterArrived, Arrived, NoAccountYet
  <2> QED
    BY <2>3, <2>4, <2>5
<1>2. ASSUME NEW c \in Calls, Resumes(c), Exists PROVE Exists'
  <2>1. CASE RegisterInsert(c)
    BY <1>2, <2>1 DEF RegisterInsert, Exists
  <2>2. CASE LoginCount(c)
    BY <1>2, <2>2, LoginCountEffect DEF Exists, SameStanding
  <2>3. CASE LoginClear(c)
    BY <1>2, <2>3, LoginClearEffect DEF Exists, SameStanding
  <2>4. CASE VerifySpend(c)
    BY <1>2, <2>4, VerifySpendEffect DEF Exists, SameStanding
  <2>5. CASE SetupSave(c)
    BY <1>2, <2>5, SetupSaveEffect DEF Exists, SameStanding
  <2>6. CASE EnableSave(c)
    BY <1>2, <2>6, EnableSaveEffect DEF Exists, SameStanding
  <2>7. CASE DisableSave(c)
    BY <1>2, <2>7, DisableSaveEffect DEF Exists, SameStanding
  <2>8. CASE ResetSave(c)
    BY <1>2, <2>8, ResetSaveEffect DEF Exists
  <2>9. CASE SuspendSave(c)
    <3>1. call[c].given \in {"active", "suspended"}
      BY <2>9 DEF CallsFit, Given, SuspendSave
    <3>2. user'.status = Saved(call[c].read.status, call[c].given, user.status)
      BY <2>9, SuspendSaveEffect
    <3> QED
      BY <1>2, <3>1, <3>2 DEF Exists, Saved
  <2> QED
    BY <1>2, <2>1, <2>2, <2>3, <2>4, <2>5, <2>6, <2>7, <2>8, <2>9
       DEF Resumes, LoginCheck, LoginOpen, VerifyOpen, VerifyCheck, ResetDestroy, SuspendDestroy, Exists
<1>3. ASSUME NEW c \in Calls, Resumes(c), ~Exists PROVE Unborn'
  <2>1. call[c].at \in NoAccountYet /\ call[c].read = NoUser
    BY <1>3 DEF Unborn
  <2>2. RegisterInsert(c) \/ LoginCheck(c)
    BY <1>3, <2>1
       DEF Resumes, NoAccountYet, LoginCount, LoginClear, LoginOpen, VerifyCheck, VerifySpend, VerifyOpen,
           SetupSave, EnableSave, DisableSave, ResetSave, ResetDestroy, SuspendSave, SuspendDestroy
  <2>3. CASE RegisterInsert(c)
    BY <1>3, <2>3, RegisteredFields DEF RegisterInsert, Unborn, Exists
  <2>4. CASE LoginCheck(c)
    <3>1. call[c].given # call[c].read.password /\ call[c].read.status = "absent"
      BY <2>1, <2>4, AccountsAssumption DEF LoginCheck, CallsFit, Given, NoUser
    <3>2. Done(c) /\ UNCHANGED <<user, mailed, wrongAt, sessions>>
      BY <2>4, <3>1 DEF LoginCheck
    <3>3. call'[c].at = "idle" /\ call'[c].read = NoUser /\ Others(c)
      BY <3>2, DoneCall DEF IdleCall
    <3> QED
      BY <1>3, <3>2, <3>3 DEF Unborn, Exists, Others, NoAccountYet
  <2> QED
    BY <2>2, <2>3, <2>4
<1>4. ASSUME NEW c \in Calls, Resumes(c) PROVE Unborn'
  BY <1>2, <1>3, <1>4 DEF Unborn
<1>5. CASE ResendVerification \/ ForgotPassword
  BY <1>5 DEF ResendVerification, ForgotPassword, Unborn, Exists
<1>6. ASSUME NEW link \in mailed, VerifyEmail(link) PROVE Unborn'
  BY <1>6, VerifyEmailEffect DEF Unborn, Exists, SameStanding
<1>7. ASSUME NEW ids, Destroy(ids), UNCHANGED <<user, mailed, call, wrongAt>> PROVE Unborn'
  BY <1>7 DEF Unborn, Exists, Destroy, NoSession
<1>8. CASE UNCHANGED account
  BY <1>8 DEF Unborn, Exists, account
<1> QED
  BY <1>1, <1>4, <1>5, <1>6, <1>7, <1>8, NextCases
     DEF Logout, Refuse, IdleTimeout, RevokeOthers, RevokeOne

LEMMA CallsFitArrival ==
    ASSUME AccountsInv, NEW c \in Calls, Arrives(c)
    PROVE  CallsFit'
<1> USE DEF AccountsInv
<1> DEFINE q == call'[c]
<1>0. UNCHANGED user /\ Others(c) /\ user.version \in Nat
  BY ArrivedSomewhere, CallTyped DEF Still
<1>1. Exists \/ LoginArrived(c) \/ RegisterArrived(c)
  BY Arrivals
     DEF Unborn, SuspensionArrived, VerifyArrived, ResetArrived, SetupArrived, EnableArrived,
         DisableArrived
<1>2. ~Exists => user = NoUser
  BY DEF Unborn
<1>3. Given(q) /\ Fresh(q, user)
  <2> USE DEF Given, Fresh, NoAccountYet, Entering, Factoring, Exists, Arrived
  <2>1. CASE LoginArrived(c)
    BY <1>0, <1>2, <2>1 DEF LoginArrived
  <2>2. CASE SuspensionArrived(c)
    BY <1>0, <2>2 DEF SuspensionArrived
  <2>3. CASE VerifyArrived(c)
    BY <1>0, <1>1, <2>3 DEF VerifyArrived, Unborn
  <2>4. CASE ResetArrived(c)
    BY <1>0, <2>4 DEF ResetArrived
  <2>5. CASE SetupArrived(c)
    BY <1>0, <2>5 DEF SetupArrived, Unborn
  <2>6. CASE EnableArrived(c)
    BY <1>0, <2>6 DEF EnableArrived, Unborn
  <2>7. CASE DisableArrived(c)
    BY <1>0, <2>7 DEF DisableArrived, Unborn
  <2>8. CASE RegisterArrived(c)
    BY <1>0, <1>2, <2>8 DEF RegisterArrived
  <2> QED
    BY <2>1, <2>2, <2>3, <2>4, <2>5, <2>6, <2>7, <2>8, Arrivals
<1> QED
  BY <1>0, <1>3, CallsFitAfter DEF CallsFit

\* While a login or a suspension is in progress, the others are idle or about
\* to insert an account.
LEMMA AloneFits ==
    ASSUME AccountsInv, AccountTyped', NEW c \in Calls, call[c].at \in Entering \cup Suspending,
           user'.version = user.version,
           NEW d \in Calls, d # c
    PROVE  Fresh(call[d], user')
<1>1. call[d].at \in {"idle", "register.insert"} /\ Fresh(call[d], user)
  BY DEF AccountsInv, Apart, CallsFit
<1>2. user.version \in Nat /\ call[d].read.version \in Nat
  BY CallTyped DEF AccountsInv
<1> QED
  BY <1>1, <1>2, FreshUnread DEF AccountsInv

LEMMA DoneFits ==
    ASSUME AccountTyped, AccountTyped', NEW c \in Calls, Done(c)
    PROVE  Given(call'[c]) /\ Fresh(call'[c], user') /\ Others(c)
<1>1. user'.version \in Nat
  BY AccountsAssumption DEF AccountTyped, UserDocuments
<1> QED
  BY <1>1, DoneCall, IdleFits

LEMMA CallsFitResumption ==
    ASSUME AccountsInv, AccountTyped', NEW c \in Calls, Resumes(c)
    PROVE  CallsFit'
<1> USE DEF AccountsInv
<1> DEFINE q == call[c]
           Rest == \A d \in Calls : d # c => Fresh(call[d], user')
           Mine == Given(call'[c]) /\ Fresh(call'[c], user')
<1>0. /\ Given(q) /\ Fresh(q, user) /\ q \in CallRecords
      /\ q.read.version \in Nat /\ user.version \in Nat /\ Others(c)
  BY CallTyped, Resumption DEF CallsFit
<1>1. SUFFICES Rest /\ Mine
  BY <1>0, CallsFitAfter
<1>2. Done(c) => Mine
  BY DoneFits
<1>3. ASSUME UNCHANGED user PROVE Rest
  BY <1>3 DEF CallsFit
<1>4. ASSUME NextVersion, q.at \in Factoring \cup Resetting \cup {"enable.save", "disable.save"},
             q.at \in Resetting \/ SameStanding,
             q.at = "disable.save" \/ user'.mfa \/ user'.mfa = user.mfa
      PROVE  Rest
  <2>1. SUFFICES ASSUME NEW d \in Calls, d # c PROVE Fresh(call[d], user')
    OBVIOUS
  <2>2. /\ Fresh(call[d], user) /\ call[d].read.version \in Nat
        /\ call[d].at \notin Entering
        /\ ~(q.at \in Resetting /\ call[d].at \in Factoring)
        /\ ~(q.at = "disable.save" /\ call[d].at = "disable.save")
    BY <1>4, <2>1, CallTyped DEF CallsFit, Apart, Entering, Factoring, Resetting
  <2> QED
    BY <1>4, <2>2, FreshOutdated DEF Fresh
<1>5. CASE RegisterInsert(c)
  <2>1. CASE UNCHANGED user
    BY <1>2, <1>3, <1>5, <2>1 DEF RegisterInsert
  <2>2. CASE ~Exists /\ user'.version = 0
    <3>1. \A d \in Calls : call[d].at \in NoAccountYet /\ call[d].read = NoUser
      BY <2>2 DEF Unborn
    <3>2. Rest
      BY <2>2, <3>1 DEF Fresh, NoAccountYet, NoUser, Entering, Factoring
    <3> QED
      BY <1>2, <1>5, <3>2 DEF RegisterInsert
  <2> QED
    BY <1>5, <2>1, <2>2, RegisterInsertEffect
<1>6. CASE LoginCheck(c)
  <2>1. Rest
    BY <1>3, <1>6 DEF LoginCheck
  <2>2. CASE Done(c)
    BY <1>2, <2>1, <2>2
  <2>3. CASE Proceed(c, "login.count") \/ Proceed(c, "login.clear")
    <3>1. q.at = "login.check" /\ user' = user
      BY <1>6 DEF LoginCheck
    <3>2. /\ call'[c].read = q.read /\ call'[c].at \in {"login.count", "login.clear"}
      BY <1>0, <2>3, ProceededFields DEF CallPoints
    <3>3. ASSUME q.read.status = "absent" PROVE FALSE
      <4>1. q.given # q.read.password
        BY <1>0, <3>1, <3>3, AccountsAssumption DEF Given, NoUser
      <4>2. Done(c)
        BY <1>6, <3>3, <4>1 DEF LoginCheck
      <4> QED
        BY <3>2, <4>2, DoneCall DEF IdleCall
    <3> QED
      BY <1>0, <2>1, <3>1, <3>2, <3>3 DEF Given, Fresh, Entering, Factoring
  <2> QED
    BY <1>6, <2>2, <2>3 DEF LoginCheck
<1>7. CASE LoginCount(c)
  <2>1. q.at \in Entering /\ user'.version = user.version
    BY <1>7, LoginCountEffect DEF LoginCount, Entering, SameVersion
  <2> QED
    BY <1>2, <1>7, <2>1, AloneFits DEF LoginCount
<1>8. CASE LoginClear(c)
  <2>1. q.at = "login.clear" /\ SameStanding /\ user'.version = user.version
    BY <1>8, LoginClearEffect DEF LoginClear, SameVersion
  <2>2. Rest
    BY <2>1, AloneFits DEF Entering
  <2>3. CASE Proceed(c, "login.open")
    <3>1. call'[c].read = q.read /\ call'[c].at = "login.open"
      BY <1>0, <2>3, ProceededFields DEF CallPoints
    <3> QED
      BY <1>0, <2>1, <2>2, <3>1 DEF Given, Fresh, SameStanding, Entering, Factoring, NoAccountYet
  <2> QED
    BY <1>2, <1>8, <2>2, <2>3 DEF LoginClear
<1>9. ASSUME NEW sid \in Sids, LoginOpen(c, sid) \/ VerifyOpen(c, sid)
      PROVE  Rest /\ Mine
  BY <1>2, <1>3, <1>9 DEF LoginOpen, VerifyOpen
<1>10. CASE VerifyCheck(c)
  <2>1. Rest /\ user' = user /\ q.at = "mfa.check"
    BY <1>3, <1>10 DEF VerifyCheck
  <2>2. CASE Proceed(c, "mfa.open")
    <3>1. call'[c].read = q.read /\ call'[c].at = "mfa.open"
      BY <1>0, <2>2, ProceededFields DEF CallPoints
    <3> QED
      BY <1>0, <2>1, <3>1 DEF Given, Fresh, Entering, Factoring, NoAccountYet
  <2>3. CASE FindBackupCode(q.given, q.read.codes) /\ Proceed(c, "mfa.spend")
    <3>1. call'[c].read = q.read /\ call'[c].given = q.given /\ call'[c].at = "mfa.spend"
      BY <1>0, <2>3, ProceededFields DEF CallPoints
    <3> QED
      BY <1>0, <2>1, <2>3, <3>1 DEF Given, Fresh, Entering, Factoring, NoAccountYet, FindBackupCode
  <2> QED
    BY <1>2, <1>10, <2>1, <2>2, <2>3 DEF VerifyCheck
<1>11. CASE VerifySpend(c)
  <2>1. q.at = "mfa.spend" /\ SameStanding /\ user'.mfa = user.mfa
    BY <1>11, VerifySpendEffect DEF VerifySpend
  <2>2. Rest
    BY <1>3, <1>4, <1>11, <2>1, VerifySpendEffect DEF Factoring
  <2>3. CASE Proceed(c, "mfa.open")
    <3>1. call'[c].read = q.read /\ call'[c].at = "mfa.open"
      BY <1>0, <2>3, ProceededFields DEF CallPoints
    <3>2. q.read.version <= user'.version
      BY <1>0, <1>11, VerifySpendEffect DEF Fresh, NextVersion
    <3> QED
      BY <1>0, <2>1, <2>2, <3>1, <3>2 DEF Given, Fresh, SameStanding, Entering, Factoring, NoAccountYet
  <2> QED
    BY <1>2, <1>11, <2>2, <2>3 DEF VerifySpend
<1>12. CASE SetupSave(c)
  <2>1. Rest
    BY <1>12, SetupSaveEffect, FreshStill DEF CallsFit
  <2> QED
    BY <1>2, <1>12, <2>1 DEF SetupSave
<1>13. CASE EnableSave(c)
  <2>1. q.at = "enable.save" /\ SameStanding
    BY <1>13, EnableSaveEffect DEF EnableSave
  <2>2. UNCHANGED user \/ (NextVersion /\ (user'.mfa \/ user'.mfa = user.mfa))
    BY <1>13, EnableSaveEffect DEF Saved
  <2>3. Rest
    BY <1>3, <1>4, <2>1, <2>2
  <2> QED
    BY <1>2, <1>13, <2>3 DEF EnableSave
<1>14. CASE DisableSave(c)
  <2>1. q.at = "disable.save" /\ SameCounters /\ SameStanding /\ SamePassword
    BY <1>14, DisableSaveEffect DEF DisableSave
  <2>2. ASSUME ~user'.mfa, user'.codes = user.codes, SameVersion PROVE Rest
    <3>1. SUFFICES ASSUME NEW d \in Calls, d # c PROVE Fresh(call[d], user')
      OBVIOUS
    <3>2. user.mfa /\ Fresh(call[d], user) /\ call[d].at # "disable.save"
      BY <1>0, <2>1, <3>1 DEF CallsFit, Fresh, Apart
    <3> QED
      BY <2>1, <2>2, <3>2 DEF Fresh, SameCounters, SameStanding, SamePassword, SameVersion
  <2>3. Rest
    BY <1>3, <1>4, <1>14, <2>1, <2>2, DisableSaveEffect
  <2> QED
    BY <1>2, <1>14, <2>3 DEF DisableSave
<1>15. CASE ResetSave(c)
  <2>1. q.at = "reset.save" /\ user'.mfa = user.mfa
    BY <1>15, ResetSaveEffect DEF ResetSave
  <2>2. Rest
    BY <1>3, <1>4, <1>15, <2>1, ResetSaveEffect DEF Resetting
  <2>3. CASE Proceed(c, "reset.destroy")
    <3>1. call'[c].read = q.read /\ call'[c].at = "reset.destroy"
      BY <1>0, <2>3, ProceededFields DEF CallPoints
    <3>2. q.read.version <= user'.version
      BY <1>0, <1>15, ResetSaveEffect DEF Fresh, NextVersion
    <3> QED
      BY <1>0, <2>1, <2>2, <3>1, <3>2 DEF Given, Fresh, Entering, Factoring, NoAccountYet
  <2> QED
    BY <1>2, <1>15, <2>2, <2>3 DEF ResetSave
<1>16. CASE SuspendSave(c)
  <2>1. q.at = "suspend.save" /\ user'.version = user.version
    BY <1>16, SuspendSaveEffect DEF SuspendSave, SameVersion
  <2>2. Rest
    BY <2>1, AloneFits DEF Suspending
  <2>3. CASE Proceed(c, "suspend.destroy")
    <3>1. call'[c].read = q.read /\ call'[c].at = "suspend.destroy"
      BY <1>0, <2>3, ProceededFields DEF CallPoints
    <3> QED
      BY <1>0, <2>1, <2>2, <3>1 DEF Given, Fresh, Entering, Factoring, NoAccountYet
  <2> QED
    BY <1>2, <1>16, <2>2, <2>3 DEF SuspendSave
<1>17. CASE ResetDestroy(c) \/ SuspendDestroy(c)
  BY <1>2, <1>3, <1>17 DEF ResetDestroy, SuspendDestroy
<1> QED
  BY <1>5, <1>6, <1>7, <1>8, <1>9, <1>10, <1>11, <1>12, <1>13, <1>14, <1>15, <1>16, <1>17 DEF Resumes

LEMMA CallsFitKept ==
    ASSUME AccountsInv, AccountTyped', AccountsNext
    PROVE  CallsFit'
<1>1. ASSUME NEW link \in mailed, VerifyEmail(link) PROVE CallsFit'
  BY <1>1, VerifyEmailEffect, FreshStill DEF AccountsInv, CallsFit, VerifyEmail
<1>2. CASE UNCHANGED <<user, call>>
  BY <1>2 DEF AccountsInv, CallsFit
<1> QED
  BY <1>1, <1>2, CallsFitArrival, CallsFitResumption, NextCases
     DEF ResendVerification, ForgotPassword, Logout, Refuse, IdleTimeout, RevokeOthers, RevokeOne, account

-----------------------------------------------------------------------------
(* Sessions, codes, counters and the secret                                *)

\* No session is opened, and the handlers about to destroy sessions still are.
LEMMA SessionsStill ==
    ASSUME SessionsFit, SameStanding,
           \A s \in Sids : sessions'[s] = sessions[s] \/ sessions'[s] = NoSession,
           \A c \in Calls : call[c].at \in {"suspend.destroy", "reset.destroy"} =>
                               call'[c].at = call[c].at
    PROVE  SessionsFit'
BY DEF SessionsFit, SameStanding, NoSession

LEMMA SessionsFitResumption ==
    ASSUME AccountsInv, NEW c \in Calls, Resumes(c)
    PROVE  SessionsFit'
<1> USE DEF AccountsInv
<1> DEFINE q == call[c]
           Destroying == {"suspend.destroy", "reset.destroy"}
<1>0. Others(c) /\ Given(q) /\ Fresh(q, user)
  BY Resumption DEF CallsFit
<1>1. ASSUME SameStanding, UNCHANGED sessions, q.at \notin Destroying PROVE SessionsFit'
  BY <1>0, <1>1, SessionsStill DEF Others
<1>2. CASE RegisterInsert(c)
  <2>1. CASE UNCHANGED user
    BY <1>1, <1>2, <2>1 DEF RegisterInsert, SameStanding
  <2>2. CASE ~Exists
    BY <1>2, <2>2 DEF RegisterInsert, Unborn, SessionsFit
  <2> QED
    BY <1>2, <2>1, <2>2 DEF RegisterInsert
<1>3. CASE LoginCheck(c) \/ VerifyCheck(c)
  BY <1>1, <1>3 DEF LoginCheck, VerifyCheck, SameStanding
<1>4. CASE LoginCount(c)
  BY <1>1, <1>4, LoginCountEffect DEF LoginCount
<1>5. CASE LoginClear(c)
  BY <1>1, <1>5, LoginClearEffect DEF LoginClear
<1>6. CASE VerifySpend(c)
  BY <1>1, <1>6, VerifySpendEffect DEF VerifySpend
<1>7. ASSUME NEW sid \in Sids, LoginOpen(c, sid) \/ VerifyOpen(c, sid) PROVE SessionsFit'
  <2>1. /\ UNCHANGED user
        /\ q.at \in {"login.open", "mfa.open"}
        /\ Opened(c, Pending, sid) \/ Opened(c, Full(q.read), sid)
    BY <1>7 DEF LoginOpen, VerifyOpen
  <2>2. q.read.status = user.status /\ q.read.changedAt = user.changedAt
    BY <1>0, <2>1 DEF Given, Fresh, NoAccountYet, Entering, Factoring
  <2>3. ASSUME NEW s \in Sids
        PROVE  \/ sessions'[s] \in {sessions[s], NoSession, Pending}
               \/ sessions'[s] = Full(q.read)
    BY <2>1 DEF AccountTyped, Opened
  <2>4. Pending.kind # "full" /\ NoSession.kind # "full"
    BY DEF Pending, NoSession
  <2>5. Full(q.read).good => user.status = "active" /\ Full(q.read).stamp = user.changedAt
    BY <2>2 DEF Full
  <2>6. \A d \in Calls : call[d].at \in Destroying => call'[d].at = call[d].at
    BY <1>0, <2>1 DEF Others
  <2> QED
    BY <2>1, <2>3, <2>4, <2>5, <2>6 DEF SessionsFit
<1>8. CASE SetupSave(c)
  BY <1>1, <1>8, SetupSaveEffect DEF SetupSave
<1>9. CASE EnableSave(c)
  BY <1>1, <1>9, EnableSaveEffect DEF EnableSave
<1>10. CASE DisableSave(c)
  BY <1>1, <1>10, DisableSaveEffect DEF DisableSave
<1>11. CASE ResetSave(c)
  <2>1. UNCHANGED sessions /\ q.at = "reset.save" /\ user'.status = user.status
    BY <1>11, ResetSaveEffect DEF ResetSave
  <2>2. CASE UNCHANGED user
    BY <1>1, <2>1, <2>2 DEF SameStanding
  <2>3. CASE Proceed(c, "reset.destroy")
    <3>1. call'[c].at = "reset.destroy"
      BY <2>3, ProceededFields DEF CallPoints
    <3>2. \A d \in Calls : call[d].at = "suspend.destroy" => call'[d].at = "suspend.destroy"
      BY <1>0, <2>1 DEF Others
    <3> QED
      BY <2>1, <3>1, <3>2 DEF SessionsFit
  <2> QED
    BY <1>11, <2>2, <2>3, ResetSaveEffect
<1>12. CASE SuspendSave(c)
  <2>1. /\ UNCHANGED sessions /\ q.at = "suspend.save" /\ user'.changedAt = user.changedAt
        /\ user'.status = Saved(q.read.status, q.given, user.status)
    BY <1>12, SuspendSaveEffect DEF SuspendSave
  <2>2. \A d \in Calls : call[d].at \in Destroying => call'[d].at = call[d].at
    BY <1>0, <2>1 DEF Others
  <2>3. CASE q.given = "suspended"
    <3>1. call'[c].at = "suspend.destroy"
      BY <1>12, <2>3, ProceededFields DEF SuspendSave, CallPoints
    <3> QED
      BY <2>1, <2>2, <3>1 DEF SessionsFit
  <2>4. CASE q.given = "active"
    BY <2>1, <2>2, <2>4 DEF SessionsFit, Saved
  <2> QED
    BY <1>0, <2>1, <2>3, <2>4 DEF Given
<1>13. CASE ResetDestroy(c) \/ SuspendDestroy(c)
  <2>1. \A s \in Sids : sessions'[s].kind # "full"
    BY <1>13
       DEF ResetDestroy, SuspendDestroy, DestroyUserSessions, Destroy, OwnSessions, NoSession
  <2> QED
    BY <2>1 DEF SessionsFit
<1> QED
  BY <1>2, <1>3, <1>4, <1>5, <1>6, <1>7, <1>8, <1>9, <1>10, <1>11, <1>12, <1>13 DEF Resumes

LEMMA SessionsFitKept ==
    ASSUME AccountsInv, AccountsNext
    PROVE  SessionsFit'
<1> USE DEF AccountsInv
<1>1. ASSUME NEW c \in Calls, Arrives(c) PROVE SessionsFit'
  <2>1. Still /\ call[c].at = "idle" /\ Others(c)
    BY <1>1, ArrivedSomewhere
  <2>2. SameStanding /\ UNCHANGED sessions
    BY <2>1 DEF Still, SameStanding
  <2> QED
    BY <2>1, <2>2, SessionsStill DEF Others
<1>2. ASSUME NEW link \in mailed, VerifyEmail(link) PROVE SessionsFit'
  BY <1>2, VerifyEmailEffect, SessionsStill DEF VerifyEmail
<1>3. ASSUME NEW ids, Destroy(ids), UNCHANGED <<user, call>> PROVE SessionsFit'
  BY <1>3, SessionsStill DEF Destroy, SameStanding
<1>4. CASE UNCHANGED <<user, sessions, call>>
  BY <1>4 DEF SessionsFit
<1> QED
  BY <1>1, <1>2, <1>3, <1>4, SessionsFitResumption, NextCases
     DEF ResendVerification, ForgotPassword, Logout, Refuse, IdleTimeout, RevokeOthers, RevokeOne, account

LEMMA CodesFitResumption ==
    ASSUME AccountsInv, NEW c \in Calls, Resumes(c)
    PROVE  CodesFit'
<1> USE DEF AccountsInv
<1>1. ASSUME UNCHANGED spent, user'.codes = user.codes \/ user'.codes = {} PROVE CodesFit'
  BY <1>1 DEF CodesFit
<1>2. CASE RegisterInsert(c)
  BY <1>1, <1>2, RegisterInsertEffect DEF RegisterInsert
<1>3. CASE LoginCheck(c) \/ VerifyCheck(c) \/ ResetDestroy(c) \/ SuspendDestroy(c)
  BY <1>1, <1>3 DEF LoginCheck, VerifyCheck, ResetDestroy, SuspendDestroy
<1>4. CASE LoginCount(c)
  BY <1>1, <1>4, LoginCountEffect DEF LoginCount
<1>5. CASE LoginClear(c)
  BY <1>1, <1>5, LoginClearEffect DEF LoginClear
<1>6. CASE VerifySpend(c)
  <2>1. CASE UNCHANGED <<user, spent>>
    BY <1>1, <2>1
  <2> DEFINE k == call[c].given
  <2>2. CASE /\ call[c].read.version = user.version
             /\ user'.codes = call[c].read.codes \ {k}
             /\ spent' = [spent EXCEPT ![k] = @ + 1]
    <3>1. call[c].at = "mfa.spend"
      BY <1>6 DEF VerifySpend
    <3>2. user'.codes = user.codes \ {k} /\ k \in user.codes
      BY <2>2, <3>1 DEF CallsFit, Given, Fresh
    <3>3. k \in Codes /\ spent \in [Codes -> Nat]
      BY <3>2 DEF AccountTyped, UserDocuments
    <3> QED
      BY <2>2, <3>2, <3>3 DEF CodesFit
  <2> QED
    BY <1>6, <2>1, <2>2, VerifySpendEffect
<1>7. ASSUME NEW sid \in Sids, LoginOpen(c, sid) \/ VerifyOpen(c, sid) PROVE CodesFit'
  <2>1. UNCHANGED <<user, spent>>
    BY <1>7 DEF LoginOpen, VerifyOpen
  <2> QED
    BY <1>1, <2>1
<1>8. CASE SetupSave(c)
  BY <1>1, <1>8, SetupSaveEffect DEF SetupSave
<1>9. CASE EnableSave(c)
  <2>1. CASE UNCHANGED <<user, spent>>
    BY <1>1, <2>1
  <2>2. CASE spent' = [k \in Codes |-> 0]
    BY <2>2 DEF CodesFit
  <2> QED
    BY <1>9, <2>1, <2>2, EnableSaveEffect
<1>10. CASE DisableSave(c)
  BY <1>1, <1>10, DisableSaveEffect DEF DisableSave
<1>11. CASE ResetSave(c)
  BY <1>1, <1>11, ResetSaveEffect DEF ResetSave
<1>12. CASE SuspendSave(c)
  BY <1>1, <1>12, SuspendSaveEffect DEF SuspendSave
<1> QED
  BY <1>2, <1>3, <1>4, <1>5, <1>6, <1>7, <1>8, <1>9, <1>10, <1>11, <1>12 DEF Resumes

LEMMA CountersStill ==
    ASSUME CountersFit, SameCounters, UNCHANGED wrongAt
    PROVE  CountersFit'
BY DEF CountersFit, SameCounters, LockedAfterConsecutiveFailures

LEMMA CountersAtZero ==
    ASSUME user'.fails = 0, wrongAt' = <<>>
    PROVE  CountersFit'
BY AccountsAssumption DEF CountersFit, LockedAfterConsecutiveFailures

LEMMA CountersFitResumption ==
    ASSUME AccountsInv, NEW c \in Calls, Resumes(c)
    PROVE  CountersFit'
<1> USE DEF AccountsInv
<1> DEFINE q == call[c]
<1>0. Given(q) /\ Fresh(q, user)
  BY DEF CallsFit
<1>1. ASSUME UNCHANGED <<user, wrongAt>> PROVE CountersFit'
  BY <1>1, CountersStill DEF SameCounters
<1>2. CASE RegisterInsert(c)
  <2>1. CASE UNCHANGED user
    BY <1>1, <1>2, <2>1 DEF RegisterInsert
  <2>2. CASE ~Exists /\ user'.fails = 0
    BY <1>2, <2>2, CountersAtZero DEF RegisterInsert, Unborn
  <2> QED
    BY <1>2, <2>1, <2>2, RegisterInsertEffect
<1>3. CASE LoginCheck(c) \/ VerifyCheck(c) \/ ResetDestroy(c) \/ SuspendDestroy(c)
  BY <1>1, <1>3 DEF LoginCheck, VerifyCheck, ResetDestroy, SuspendDestroy
<1>4. CASE LoginCount(c)
  <2>1. q.at = "login.count" /\ wrongAt' = Append(wrongAt, now)
    BY <1>4 DEF LoginCount
  <2>2. q.read.fails = user.fails
    BY <1>0, <2>1 DEF Given, Fresh, NoAccountYet
  <2>3. /\ Len(wrongAt') = Len(wrongAt) + 1
        /\ wrongAt'[Len(wrongAt')] = now
    BY <2>1 DEF AccountTyped
  <2>4. user'.fails = Len(wrongAt')
    BY <1>4, <2>2, <2>3, LoginCountEffect DEF CountersFit
  <2>5. user'.fails >= LOCK_THRESHOLD => user'.lockoutUntil = now + LOCK
    BY <1>4, LoginCountEffect
  <2> QED
    BY <2>3, <2>4, <2>5 DEF CountersFit, LockedAfterConsecutiveFailures
<1>5. CASE LoginClear(c)
  <2>1. q.read.fails = user.fails
    BY <1>0, <1>5 DEF LoginClear, Given, Fresh, NoAccountYet
  <2> QED
    BY <1>5, <2>1, LoginClearEffect, CountersAtZero DEF LoginClear
<1>6. CASE VerifySpend(c)
  BY <1>6, VerifySpendEffect, CountersStill DEF VerifySpend
<1>7. ASSUME NEW sid \in Sids, LoginOpen(c, sid) \/ VerifyOpen(c, sid) PROVE CountersFit'
  BY <1>1, <1>7 DEF LoginOpen, VerifyOpen
<1>8. CASE SetupSave(c)
  BY <1>8, SetupSaveEffect, CountersStill DEF SetupSave
<1>9. CASE EnableSave(c)
  BY <1>9, EnableSaveEffect, CountersStill DEF EnableSave
<1>10. CASE DisableSave(c)
  BY <1>10, DisableSaveEffect, CountersStill DEF DisableSave
<1>11. CASE ResetSave(c)
  BY <1>11, ResetSaveEffect, CountersStill DEF ResetSave
<1>12. CASE SuspendSave(c)
  BY <1>12, SuspendSaveEffect, CountersStill DEF SuspendSave
<1> QED
  BY <1>2, <1>3, <1>4, <1>5, <1>6, <1>7, <1>8, <1>9, <1>10, <1>11, <1>12 DEF Resumes

LEMMA SecretKeptResumption ==
    ASSUME AccountsInv, NEW c \in Calls, Resumes(c)
    PROVE  SecondFactorHasSecret'
<1> USE DEF AccountsInv, SecondFactorHasSecret
<1>1. CASE RegisterInsert(c)
  BY <1>1, RegisterInsertEffect
<1>2. CASE UNCHANGED user
  BY <1>2
<1>3. CASE LoginCount(c)
  BY <1>3, LoginCountEffect
<1>4. CASE LoginClear(c)
  BY <1>4, LoginClearEffect
<1>5. CASE VerifySpend(c)
  BY <1>5, VerifySpendEffect
<1>6. CASE SetupSave(c)
  BY <1>6, SetupSaveEffect
<1>7. CASE EnableSave(c)
  <2>1. CASE UNCHANGED user
    BY <2>1
  <2>2. CASE /\ call[c].read.version = user.version
             /\ user'.mfa = Saved(call[c].read.mfa, TRUE, user.mfa)
    <3>1. call[c].at = "enable.save"
      BY <1>7 DEF EnableSave
    <3>2. call[c].read.mfa \in BOOLEAN
      BY DEF AccountTyped, CallRecords, UserDocuments
    <3>3. CASE call[c].read.mfa
      BY <1>7, <2>2, <3>2, <3>3, EnableSaveEffect DEF Saved
    <3>4. CASE ~call[c].read.mfa
      BY <1>7, <2>2, <3>1, <3>4, EnableSaveEffect DEF CallsFit, Fresh
    <3> QED
      BY <3>3, <3>4
  <2> QED
    BY <1>7, <2>1, <2>2, EnableSaveEffect
<1>8. CASE DisableSave(c)
  BY <1>8, DisableSaveEffect
<1>9. CASE ResetSave(c)
  BY <1>9, ResetSaveEffect
<1>10. CASE SuspendSave(c)
  BY <1>10, SuspendSaveEffect
<1> QED
  BY <1>1, <1>2, <1>3, <1>4, <1>5, <1>6, <1>7, <1>8, <1>9, <1>10
     DEF Resumes, LoginCheck, VerifyCheck, LoginOpen, VerifyOpen, ResetDestroy, SuspendDestroy

LEMMA AccountFitKept ==
    ASSUME AccountsInv, AccountsNext
    PROVE  CodesFit' /\ CountersFit' /\ SecondFactorHasSecret'
<1> USE DEF AccountsInv
<1>1. CASE UNCHANGED <<user, wrongAt, spent>>
  BY <1>1, CountersStill DEF CodesFit, SameCounters, SecondFactorHasSecret
<1>2. ASSUME NEW c \in Calls, Arrives(c) PROVE UNCHANGED <<user, wrongAt, spent>>
  BY <1>2, ArrivedSomewhere DEF Still
<1>3. ASSUME NEW link \in mailed, VerifyEmail(link)
      PROVE  CodesFit' /\ CountersFit' /\ SecondFactorHasSecret'
  BY <1>3, VerifyEmailEffect, CountersStill DEF VerifyEmail, CodesFit, SecondFactorHasSecret
<1> QED
  BY <1>1, <1>2, <1>3, CodesFitResumption, CountersFitResumption, SecretKeptResumption, NextCases
     DEF ResendVerification, ForgotPassword, Logout, Refuse, IdleTimeout, RevokeOthers, RevokeOne, account

-----------------------------------------------------------------------------
(* The tracker of failed logins                                            *)

InOrder(times) == \A i, j \in DOMAIN times : i <= j => times[i] <= times[j]

\* An address that reached MAX_FAILURES at its last failure is blocked for BLOCK
\* from then, or that block is over.
BlockFits ==
    Len(failures) >= MAX_FAILURES =>
        \/ blockedUntil >= failures[Len(failures)] + BLOCK
        \/ now > failures[Len(failures)] + BLOCK

\* A login past the guard has found no block, or dropped one that was over.
PastGuard == \A c \in Calls : call[c].at = "login.check" => blockedUntil = 0

TrackerInv ==
    /\ TrackerTypeOK
    /\ InOrder(failures) /\ \A i \in DOMAIN failures : failures[i] <= now
    /\ BlockFits
    /\ PastGuard

LEMMA Interval ==
    ASSUME NEW a \in Nat \ {0}, NEW b \in Nat, a <= b + 1
    PROVE  IsFiniteSet(a..b) /\ Cardinality(a..b) = b - a + 1
<1>1. a \in Int /\ b \in Int /\ (a > b => b - a + 1 = 0)
  OBVIOUS
<1>2. IsFiniteSet(a..b) /\ Cardinality(a..b) = IF a > b THEN 0 ELSE b - a + 1
  BY <1>1, FS_Interval
<1> QED
  BY <1>1, <1>2

LEMMA RecentInFinite ==
    ASSUME NEW times \in Seq(Times)
    PROVE  /\ IsFiniteSet(RecentIn(times))
           /\ Cardinality(RecentIn(times)) \in 0..Len(times)
<1>1. PICK m : m = Len(times)
  OBVIOUS
<1>2. RecentIn(times) \in SUBSET (1..m) /\ m \in Nat
  BY <1>1 DEF RecentIn
<1>3. IsFiniteSet(1..m) /\ Cardinality(1..m) = m
  BY <1>2, Interval
<1>4. IsFiniteSet(RecentIn(times)) /\ Cardinality(RecentIn(times)) <= m
  BY <1>2, <1>3, FS_Subset
<1> QED
  BY <1>1, <1>2, <1>4, FS_CardinalityType

LEMMA RecentTyped ==
    ASSUME NEW times \in Seq(Times)
    PROVE  /\ Recent(times) \in Seq(Times)
           /\ Len(Recent(times)) = Cardinality(RecentIn(times))
           /\ Len(Recent(times)) \in 0..Len(times)
           /\ \A i \in 1..Len(Recent(times)) :
                 Recent(times)[i] = times[Len(times) - Len(Recent(times)) + i]
<1>1. PICK n : n = Cardinality(RecentIn(times))
  OBVIOUS
<1>2. PICK m : m = Len(times)
  OBVIOUS
<1>3. n \in 0..m /\ m \in Nat /\ n \in Nat
  BY <1>1, <1>2, RecentInFinite
<1>4. m - n + 1 \in Int /\ m \in Int /\ \A i \in (m - n + 1)..m : i \in 1..m
  BY <1>3
<1>5. \A i \in (m - n + 1)..m : times[i] \in Times
  BY <1>2, <1>4
<1>6. PICK rest : rest = SubSeq(times, m - n + 1, m)
  OBVIOUS
<1>7. /\ rest \in Seq(Times)
      /\ Len(rest) = IF m - n + 1 <= m THEN m - (m - n + 1) + 1 ELSE 0
      /\ \A i \in 1..(m - (m - n + 1) + 1) : rest[i] = times[(m - n + 1) + i - 1]
  BY <1>4, <1>5, <1>6, SubSeqProperties
<1>8. /\ (IF m - n + 1 <= m THEN m - (m - n + 1) + 1 ELSE 0) = n
      /\ m - (m - n + 1) + 1 = n
      /\ \A i \in 1..n : (m - n + 1) + i - 1 = m - n + i
  BY <1>3
<1>9. rest \in Seq(Times) /\ Len(rest) = n /\ \A i \in 1..n : rest[i] = times[m - n + i]
  BY <1>7, <1>8
<1>10. Recent(times) = rest
  BY <1>1, <1>2, <1>6 DEF Recent
<1> QED
  BY <1>1, <1>2, <1>3, <1>9, <1>10

\* Of failures in the order of the clock, Recent keeps those within WINDOW of
\* now and no other: the end of the list (the filter of recordFailure).
THEOREM RecentIsTheFilter ==
    ASSUME NEW times \in Seq(Times), now \in Times, InOrder(times)
    PROVE  \A i \in DOMAIN times :
               now - times[i] < WINDOW <=> i > Len(times) - Len(Recent(times))
<1>1. PICK n : n = Cardinality(RecentIn(times))
  OBVIOUS
<1>2. n \in 0..Len(times) /\ Len(times) \in Nat /\ Len(Recent(times)) = n
        /\ IsFiniteSet(RecentIn(times))
  BY <1>1, RecentInFinite, RecentTyped
<1>3. TAKE i \in DOMAIN times
<1>4. i \in 1..Len(times)
  BY <1>3
<1>5. \A j \in DOMAIN times : times[j] \in Int
  <2>1. \A j \in DOMAIN times : times[j] \in Times
    OBVIOUS
  <2>2. \A t \in Times : t \in Int
    BY TimesAreNat
  <2> QED
    BY <2>1, <2>2
<1>6. now \in Int /\ WINDOW \in Int
  BY IpTrackerAssumption DEF Times
<1>7. ASSUME now - times[i] < WINDOW PROVE i > Len(times) - n
  <2>1. i..Len(times) \in SUBSET RecentIn(times)
    <3>1. SUFFICES ASSUME NEW j \in i..Len(times) PROVE j \in RecentIn(times)
      OBVIOUS
    <3>2. j \in DOMAIN times /\ times[i] <= times[j]
      BY <1>2, <1>4 DEF InOrder
    <3> QED
      BY <1>3, <1>5, <1>6, <1>7, <3>2 DEF RecentIn
  <2>2. Cardinality(i..Len(times)) = Len(times) - i + 1
    BY <1>2, <1>4, FS_Interval
  <2>3. Cardinality(i..Len(times)) <= n
    BY <1>1, <1>2, <2>1, FS_Subset
  <2> QED
    BY <1>2, <1>4, <2>2, <2>3
<1>8. ASSUME i > Len(times) - n PROVE now - times[i] < WINDOW
  <2>1. SUFFICES ASSUME ~(now - times[i] < WINDOW) PROVE FALSE
    OBVIOUS
  <2>2. RecentIn(times) \in SUBSET ((i + 1)..Len(times))
    <3>1. SUFFICES ASSUME NEW j \in RecentIn(times) PROVE j > i /\ j <= Len(times) /\ j \in Nat
      BY <1>2, <1>4
    <3>2. j \in DOMAIN times /\ now - times[j] < WINDOW
      BY DEF RecentIn
    <3>3. ASSUME j <= i PROVE FALSE
      <4>1. times[j] <= times[i]
        BY <1>3, <3>2, <3>3 DEF InOrder
      <4> QED
        BY <1>3, <1>5, <1>6, <2>1, <3>2, <4>1
    <3> QED
      BY <1>2, <1>4, <3>2, <3>3
  <2>3. Cardinality((i + 1)..Len(times)) = Len(times) - i /\ IsFiniteSet((i + 1)..Len(times))
    <3>1. i + 1 \in Nat \ {0} /\ i + 1 <= Len(times) + 1 /\ Len(times) - (i + 1) + 1 = Len(times) - i
      BY <1>2, <1>4
    <3> QED
      BY <1>2, <3>1, Interval
  <2>4. n <= Cardinality((i + 1)..Len(times))
    BY <1>1, <2>2, <2>3, FS_Subset
  <2> QED
    BY <1>2, <1>4, <1>8, <2>3, <2>4
<1> QED
  BY <1>2, <1>7, <1>8

LEMMA RecordFailureKeeps ==
    ASSUME TrackerTypeOK, InOrder(failures), \A i \in DOMAIN failures : failures[i] <= now,
           blockedUntil = 0, RecordFailure, UNCHANGED now
    PROVE  /\ TrackerTypeOK'
           /\ InOrder(failures') /\ \A i \in DOMAIN failures' : failures'[i] <= now'
           /\ BlockFits'
<1>1. PICK kept : kept = Recent(failures)
  OBVIOUS
<1>2. PICK n : n = Len(kept)
  OBVIOUS
<1>3. PICK m : m = Len(failures)
  OBVIOUS
<1>4. /\ kept \in Seq(Times) /\ n \in 0..m /\ m \in Nat
      /\ \A i \in 1..n : kept[i] = failures[m - n + i]
  <2>1. failures \in Seq(Times) /\ m \in Nat
    BY <1>3 DEF TrackerTypeOK
  <2>2. /\ Recent(failures) \in Seq(Times) /\ Len(Recent(failures)) \in 0..Len(failures)
        /\ \A i \in 1..Len(Recent(failures)) :
              Recent(failures)[i] = failures[Len(failures) - Len(Recent(failures)) + i]
    BY <2>1, RecentTyped
  <2> QED
    BY <1>1, <1>2, <1>3, <2>1, <2>2
<1>5. failures' = Append(kept, now) /\ now \in Times
  BY <1>1 DEF RecordFailure, TrackerTypeOK
<1>6. /\ failures' \in Seq(Times) /\ Len(failures') = n + 1
      /\ failures'[n + 1] = now
      /\ \A i \in 1..n : failures'[i] = failures[m - n + i]
  BY <1>2, <1>4, <1>5, AppendProperties
<1>7. DOMAIN failures' = 1..(n + 1) /\ DOMAIN failures = 1..m
  BY <1>3, <1>6 DEF TrackerTypeOK
<1>8. \A i \in 1..n : m - n + i \in 1..m
  BY <1>4
<1>9. now \in Nat /\ \A i \in 1..m : failures[i] \in Nat
  <2>1. failures \in Seq(Times)
    BY DEF TrackerTypeOK
  <2>2. \A i \in 1..m : failures[i] \in Times
    BY <1>3, <2>1
  <2> QED
    BY <1>5, <2>2, TimesAreNat
<1>10. \A i \in DOMAIN failures' : failures'[i] <= now /\ failures'[i] \in Nat
  <2>1. TAKE i \in DOMAIN failures'
  <2>2. i \in 1..n \/ i = n + 1
    BY <1>4, <1>7, <2>1
  <2> QED
    BY <1>6, <1>7, <1>8, <1>9, <2>2
<1>11. InOrder(failures')
  <2>1. SUFFICES ASSUME NEW i \in 1..(n + 1), NEW j \in 1..(n + 1), i <= j
                 PROVE  failures'[i] <= failures'[j]
    BY <1>7 DEF InOrder
  <2>2. CASE j = n + 1
    BY <1>6, <1>7, <1>10, <2>2
  <2>3. CASE j # n + 1
    <3>1. i \in 1..n /\ j \in 1..n /\ m - n + i <= m - n + j
      BY <1>4, <2>1, <2>3
    <3> QED
      BY <1>6, <1>7, <1>8, <3>1 DEF InOrder
  <2> QED
    BY <2>2, <2>3
<1>12. blockedUntil' = IF n + 1 >= MAX_FAILURES THEN now + BLOCK ELSE 0
  BY <1>1, <1>5, <1>6 DEF RecordFailure
<1>13. BlockFits'
  BY <1>6, <1>9, <1>12, IpTrackerAssumption DEF BlockFits
<1>14. blockedUntil' \in 0..(MaxTime + BLOCK)
  BY <1>5, <1>12, IpTrackerAssumption DEF Times
<1> QED
  BY <1>5, <1>6, <1>10, <1>11, <1>13, <1>14 DEF TrackerTypeOK

\* What a step does to the tracker, and to the calls past its guard.
NobodyEnters == \A c \in Calls : call'[c].at = "login.check" => call[c].at = "login.check"

GuardPassed == Unblocked /\ UNCHANGED <<now, failures>>

FailureRecorded ==
    /\ \E c \in Calls : call[c].at = "login.check"
    /\ RecordFailure /\ UNCHANGED now
    /\ \A c \in Calls : call'[c].at # "login.check"

LEMMA TrackerArrival ==
    ASSUME AccountTyped, NEW c \in Calls, Arrives(c)
    PROVE  GuardPassed \/ (NobodyEnters /\ UNCHANGED <<now, tracker>>)
<1>1. ASSUME NEW sid, NEW p, Login(c, sid, p) PROVE GuardPassed
  BY <1>1 DEF Login, GuardPassed
<1>2. ASSUME NEW point, NEW sid, NEW given, NEW pwc,
             Start(c, point, sid, given, pwc), point # "login.check"
      PROVE  NobodyEnters
  <2>1. call'[c].at = point /\ \A d \in Calls : d # c => call'[d] = call[d]
    BY <1>2 DEF AccountTyped, Start
  <2> QED
    BY <1>2, <2>1 DEF NobodyEnters
<1>3. ASSUME NEW to, SuspendUser(c, to) PROVE NobodyEnters /\ UNCHANGED <<now, tracker>>
  BY <1>2, <1>3 DEF SuspendUser
<1>4. ASSUME NEW sid, NEW code, Verify(c, sid, code)
      PROVE  NobodyEnters /\ UNCHANGED <<now, tracker>>
  BY <1>2, <1>4 DEF Verify
<1>5. ASSUME NEW link, NEW p, ResetPassword(c, link, p)
      PROVE  NobodyEnters /\ UNCHANGED <<now, tracker>>
  BY <1>2, <1>5 DEF ResetPassword
<1>6. ASSUME NEW sid, Setup(c, sid) \/ Enable(c, sid) \/ Disable(c, sid)
      PROVE  NobodyEnters /\ UNCHANGED <<now, tracker>>
  BY <1>2, <1>6 DEF Setup, Enable, Disable
<1>7. ASSUME NEW p, Register(c, p) PROVE NobodyEnters /\ UNCHANGED <<now, tracker>>
  BY <1>2, <1>7 DEF Register
<1> QED
  BY <1>1, <1>3, <1>4, <1>5, <1>6, <1>7 DEF Arrives

LEMMA TrackerResumption ==
    ASSUME AccountTyped, Apart, NEW c \in Calls, Resumes(c)
    PROVE  \/ FailureRecorded
           \/ Reset /\ NobodyEnters /\ UNCHANGED now
           \/ NobodyEnters /\ UNCHANGED <<now, tracker>>
<1>1. ASSUME Done(c) \/ \E point \in CallPoints \ {"login.check"} : Proceed(c, point)
      PROVE  call'[c].at # "login.check" /\ Others(c) /\ NobodyEnters
  <2>1. CASE Done(c)
    BY <2>1, DoneCall DEF IdleCall, NobodyEnters, Others
  <2>2. ASSUME NEW point \in CallPoints \ {"login.check"}, Proceed(c, point)
        PROVE  call'[c].at # "login.check" /\ Others(c)
    BY <2>2, ProceededCall, ProceededFields
  <2> QED
    BY <1>1, <2>1, <2>2 DEF NobodyEnters, Others
<1>2. CASE LoginCheck(c)
  <2>1. Done(c) \/ Proceed(c, "login.count") \/ Proceed(c, "login.clear")
    BY <1>2 DEF LoginCheck
  <2>2. call'[c].at # "login.check" /\ Others(c) /\ NobodyEnters
    BY <1>1, <2>1 DEF CallPoints
  <2>3. \A d \in Calls : d # c => call[d].at \in {"idle", "register.insert"}
    BY <1>2 DEF LoginCheck, Apart, Entering
  <2>4. \A d \in Calls : call'[d].at # "login.check"
    BY <2>2, <2>3 DEF Others
  <2> QED
    BY <1>2, <2>2, <2>4 DEF LoginCheck, FailureRecorded
<1>3. CASE LoginClear(c)
  <2>1. Done(c) \/ Proceed(c, "login.open")
    BY <1>3 DEF LoginClear
  <2> QED
    BY <1>1, <1>3, <2>1 DEF LoginClear, CallPoints
<1>4. CASE RegisterInsert(c) \/ LoginCount(c) \/ SetupSave(c) \/ EnableSave(c) \/ DisableSave(c)
             \/ ResetDestroy(c) \/ SuspendDestroy(c)
             \/ \E sid \in Sids : LoginOpen(c, sid) \/ VerifyOpen(c, sid)
  <2>1. Done(c) /\ UNCHANGED <<now, tracker>>
    BY <1>4
       DEF RegisterInsert, LoginCount, SetupSave, EnableSave, DisableSave, ResetDestroy,
           SuspendDestroy, LoginOpen, VerifyOpen
  <2> QED
    BY <1>1, <2>1
<1>5. CASE VerifyCheck(c) \/ VerifySpend(c) \/ ResetSave(c) \/ SuspendSave(c)
  <2>1. \/ Done(c) \/ Proceed(c, "mfa.open") \/ Proceed(c, "mfa.spend")
        \/ Proceed(c, "reset.destroy") \/ Proceed(c, "suspend.destroy")
    BY <1>5 DEF VerifyCheck, VerifySpend, ResetSave, SuspendSave
  <2>2. UNCHANGED <<now, tracker>>
    BY <1>5 DEF VerifyCheck, VerifySpend, ResetSave, SuspendSave
  <2> QED
    BY <1>1, <2>1, <2>2 DEF CallPoints
<1> QED
  BY <1>2, <1>3, <1>4, <1>5 DEF Resumes

LEMMA TrackerSteps ==
    ASSUME AccountTyped, Apart, [AccountsNext]_accountVars
    PROVE  \/ GuardPassed
           \/ FailureRecorded
           \/ (Reset \/ Restart) /\ NobodyEnters /\ UNCHANGED now
           \/ Tick /\ NobodyEnters
           \/ NobodyEnters /\ UNCHANGED <<now, tracker>>
<1>1. ASSUME UNCHANGED call PROVE NobodyEnters
  BY <1>1 DEF NobodyEnters
<1>2. ASSUME UNCHANGED accountVars PROVE NobodyEnters /\ UNCHANGED <<now, tracker>>
  BY <1>1, <1>2 DEF accountVars, account
<1> QED
  BY <1>1, <1>2, NextCases, TrackerArrival, TrackerResumption
     DEF ResendVerification, ForgotPassword, VerifyEmail, Logout, Refuse, IdleTimeout,
         RevokeOthers, RevokeOne, account, Restart

LEMMA TrackerInvKept ==
    ASSUME AccountTyped, Apart, TrackerInv, [AccountsNext]_accountVars
    PROVE  TrackerInv'
<1>1. /\ now \in Nat /\ blockedUntil \in Nat /\ Len(failures) \in Nat
      /\ \A i \in DOMAIN failures : failures[i] \in Nat
      /\ DOMAIN failures = 1..Len(failures)
  BY IpTrackerAssumption DEF TrackerInv, TrackerTypeOK, Times
<1>2. BLOCK \in Nat \ {0} /\ MAX_FAILURES \in Nat \ {0}
  BY IpTrackerAssumption
<1>3. Len(failures) >= MAX_FAILURES => failures[Len(failures)] \in Nat
  BY <1>1, <1>2
<1>4. CASE GuardPassed
  <2>1. blockedUntil' = 0 /\ failures' = failures /\ now' = now
    BY <1>4 DEF GuardPassed, Unblocked
  <2>2. TrackerTypeOK'
    BY <2>1, IpTrackerAssumption DEF TrackerInv, TrackerTypeOK
  <2>3. BlockFits'
    BY <1>1, <1>2, <1>3, <1>4, <2>1 DEF GuardPassed, Unblocked, IsBlocked, TrackerInv, BlockFits
  <2> QED
    BY <2>1, <2>2, <2>3 DEF TrackerInv, InOrder, PastGuard
<1>5. CASE FailureRecorded
  <2>1. blockedUntil = 0
    BY <1>5 DEF FailureRecorded, TrackerInv, PastGuard
  <2>2. PastGuard'
    BY <1>5 DEF FailureRecorded, PastGuard
  <2> QED
    BY <1>5, <2>1, <2>2, RecordFailureKeeps DEF FailureRecorded, TrackerInv
<1>6. CASE (Reset \/ Restart) /\ UNCHANGED now
  <2>1. failures' = <<>> /\ blockedUntil' = 0 /\ now' = now
    BY <1>6 DEF Reset, Restart
  <2>2. TrackerTypeOK'
    BY <2>1, IpTrackerAssumption DEF TrackerInv, TrackerTypeOK
  <2>3. Len(<<>>) = 0 /\ DOMAIN <<>> = {}
    OBVIOUS
  <2>4. BlockFits'
    BY <1>2, <2>1, <2>3 DEF BlockFits
  <2> QED
    BY <2>1, <2>2, <2>3, <2>4 DEF TrackerInv, InOrder, PastGuard
<1>7. CASE Tick /\ NobodyEnters
  <2>1. failures' = failures /\ blockedUntil' = blockedUntil /\ now' = now + 1 /\ now' \in Times
    BY <1>1, <1>7, IpTrackerAssumption DEF Tick, tracker, Times
  <2>2. TrackerTypeOK' /\ InOrder(failures') /\ PastGuard'
    BY <1>7, <2>1 DEF TrackerInv, TrackerTypeOK, NobodyEnters, PastGuard
  <2>3. \A i \in DOMAIN failures' : failures'[i] <= now'
    BY <1>1, <2>1 DEF TrackerInv
  <2>4. BlockFits'
    BY <1>1, <1>2, <1>3, <2>1 DEF TrackerInv, BlockFits
  <2> QED
    BY <2>2, <2>3, <2>4 DEF TrackerInv
<1>8. CASE NobodyEnters /\ UNCHANGED <<now, tracker>>
  BY <1>8 DEF tracker, TrackerInv, TrackerTypeOK, InOrder, BlockFits, NobodyEnters, PastGuard
<1> QED
  BY <1>4, <1>5, <1>6, <1>7, <1>8, TrackerSteps

-----------------------------------------------------------------------------
(* The theorems                                                            *)

\* An account starts unregistered, or registered with its second factor on.
LEMMA AccountsInvInit ==
    ASSUME AccountsInit
    PROVE  AccountsInv
<1> DEFINE Enrolled(p) == [Registered(p) EXCEPT !.verified = TRUE, !.mfa = TRUE,
                                                !.secret = TRUE, !.codes = Codes]
<1>1. /\ now = 1 /\ mailed = {} /\ wrongAt = <<>>
      /\ sessions = [s \in Sids |-> NoSession] /\ call = [c \in Calls |-> IdleCall]
      /\ spent = [k \in Codes |-> 0]
  BY DEF AccountsInit, TrackerInit
<1>2. user = NoUser \/ \E p \in Passwords : user = Enrolled(p)
  BY DEF AccountsInit
<1>3. NoUser.changedAt = 0 /\ NoUser.version = 0 /\ NoUser.fails = 0 /\ ~NoUser.mfa
        /\ NoUser.codes = {} /\ NoUser.status = "absent"
  BY DEF NoUser
<1>4. ASSUME NEW p \in Passwords
      PROVE  /\ Enrolled(p) \in UserDocuments
             /\ Enrolled(p).changedAt = 0 /\ Enrolled(p).version = 0 /\ Enrolled(p).fails = 0
             /\ Enrolled(p).secret /\ Enrolled(p).status = "active"
  BY RegisteredTyped, RegisteredFields DEF UserDocuments
<1>5. /\ user \in UserDocuments /\ user.changedAt = 0 /\ user.version = 0 /\ user.fails = 0
      /\ user.mfa => user.secret
      /\ user.status = "absent" => user = NoUser
  BY <1>2, <1>3, <1>4, NoUserTyped
<1>6. NoSession \in SessionDocuments /\ NoSession.kind = "none"
  BY AccountsAssumption DEF NoSession, SessionDocuments
<1>7. IdleCall.at = "idle" /\ IdleCall.read = NoUser /\ IdleCall \in CallRecords
  BY IdleCallTyped DEF IdleCall
<1>8. now \in Times
  BY <1>1, IpTrackerAssumption DEF Times
<1>9. AccountTyped
  BY <1>1, <1>5, <1>6, <1>7, <1>8 DEF AccountTyped
<1>10. Unborn
  BY <1>1, <1>5, <1>6, <1>7 DEF Unborn, Exists, NoAccountYet
<1>11. Apart
  BY <1>1, <1>7 DEF Apart, Entering, Factoring, Suspending
<1>12. CallsFit
  BY <1>1, <1>5, IdleFits DEF CallsFit
<1>13. SessionsFit /\ CodesFit
  BY <1>1, <1>6 DEF SessionsFit, CodesFit
<1>14. CountersFit /\ SecondFactorHasSecret
  BY <1>1, <1>5, AccountsAssumption
     DEF CountersFit, LockedAfterConsecutiveFailures, SecondFactorHasSecret
<1> QED
  BY <1>9, <1>10, <1>11, <1>12, <1>13, <1>14 DEF AccountsInv

LEMMA AccountsInvKept ==
    ASSUME AccountsInv, [AccountsNext]_accountVars
    PROVE  AccountsInv'
<1>1. CASE AccountsNext
  <2>1. AccountTyped'
    BY <1>1, TypesKept DEF AccountsInv
  <2> QED
    BY <1>1, <2>1, UnbornKept, ApartKept, CallsFitKept, SessionsFitKept, AccountFitKept
       DEF AccountsInv
<1>2. CASE UNCHANGED accountVars
  BY <1>2
     DEF accountVars, account, AccountsInv, AccountTyped, Unborn, Exists, Apart, CallsFit,
         SessionsFit, CodesFit, CountersFit, LockedAfterConsecutiveFailures, SecondFactorHasSecret
<1> QED
  BY <1>1, <1>2

\* What a handler read stays true as far as it relies on it, and no two handlers
\* meet that the specification keeps apart.
THEOREM AccountsInvariant == AccountsSpec => []AccountsInv
<1> QED
  BY AccountsInvInit, AccountsInvKept, PTL DEF AccountsSpec

\* The lock of an account is set by every wrong password from the
\* LOCK_THRESHOLD-th in a row on (login).
THEOREM LockHolds == AccountsSpec => []LockedAfterConsecutiveFailures
<1>1. AccountsInv => LockedAfterConsecutiveFailures
  BY DEF AccountsInv, CountersFit
<1> QED
  BY <1>1, AccountsInvariant, PTL

\* No backup code works twice, however many requests bring it at once (verify).
THEOREM BackupCodesWorkOnce == AccountsSpec => []BackupCodeUsedOnce
<1>1. AccountsInv => BackupCodeUsedOnce
  BY DEF AccountsInv, CodesFit, BackupCodeUsedOnce
<1> QED
  BY <1>1, AccountsInvariant, PTL

\* An account with two-factor login has a secret, however setup, enable and
\* disable overlap, short of two disables at once (mfa.controller).
THEOREM SecretIsThere == AccountsSpec => []SecondFactorHasSecret
<1>1. AccountsInv => SecondFactorHasSecret
  BY DEF AccountsInv
<1> QED
  BY <1>1, AccountsInvariant, PTL

\* Once a reset or a suspension is over, no session is left that was opened
\* before it for an active account, for any number of sessions
\* (destroyUserSessions).
THEOREM NoSessionSurvives == AccountsSpec => []RevokedSessionsGone
<1>1. AccountsInv => RevokedSessionsGone
  BY DEF AccountsInv, SessionsFit, RevokedSessionsGone, Nobody, Resetting, Suspending
<1> QED
  BY <1>1, AccountsInvariant, PTL

\* A password changes by a link mailed since its last change and never to one
\* of the last HISTORY, for any number of overlapping resets (resetPassword).
THEOREM PasswordNeedsItsLink == AccountsSpec => PasswordChangesOnlyByItsLink
<1> DEFINE Change ==
      Exists /\ user'.password # user.password =>
          /\ \E c \in Calls : call[c].at = "reset.save" /\ call[c].pwc = user.changedAt
          /\ \A i \in DOMAIN user.history : user.history[i] # user'.password
<1>1. ASSUME AccountsInv, AccountsNext PROVE Change
  <2> USE DEF AccountsInv
  <2>1. SUFFICES ASSUME Exists, user'.password # user.password PROVE Change
    OBVIOUS
  <2>2. PICK c \in Calls : Resumes(c)
    <3>1. ASSUME NEW link \in mailed, VerifyEmail(link) PROVE FALSE
      BY <1>1, <2>1, <3>1, VerifyEmailEffect DEF SamePassword
    <3> QED
      BY <1>1, <2>1, <3>1, NextCases, ArrivedSomewhere
         DEF Still, ResendVerification, ForgotPassword, Logout, Refuse, IdleTimeout, RevokeOthers,
             RevokeOne, account
  <2>3. ResetSave(c)
    <3>1. ~RegisterInsert(c)
      BY <2>1 DEF RegisterInsert
    <3>2. ~LoginCount(c) /\ ~LoginClear(c) /\ ~VerifySpend(c) /\ ~SetupSave(c)
      BY <1>1, <2>1, LoginCountEffect, LoginClearEffect, VerifySpendEffect, SetupSaveEffect
         DEF SamePassword
    <3>3. ~EnableSave(c) /\ ~DisableSave(c) /\ ~SuspendSave(c)
      BY <1>1, <2>1, EnableSaveEffect, DisableSaveEffect, SuspendSaveEffect DEF SamePassword
    <3> QED
      BY <2>1, <2>2, <3>1, <3>2, <3>3
         DEF Resumes, LoginCheck, LoginOpen, VerifyCheck, VerifyOpen, ResetDestroy, SuspendDestroy
  <2>4. call[c].at = "reset.save" /\ call[c].read.version = user.version
          /\ user'.password = call[c].given
    BY <1>1, <2>1, <2>3, ResetSaveEffect DEF ResetSave
  <2>5. /\ call[c].pwc = user.changedAt /\ call[c].read.history = user.history
        /\ ~Reused(call[c].read.history, call[c].given)
    BY <1>1, <2>4 DEF CallsFit, Given, Fresh
  <2> QED
    BY <2>4, <2>5 DEF Reused
<1>2. ASSUME AccountsInv, [AccountsNext]_accountVars PROVE [Change]_accountVars
  BY <1>1, <1>2
<1> QED
  BY <1>2, AccountsInvariant, PTL DEF AccountsSpec, PasswordChangesOnlyByItsLink

\* The tracker's log is in the order of the clock, an address at its limit is
\* blocked for BLOCK from its last failure, and only a login past the guard adds
\* to it (ipTracker, ipBlockGuard).
THEOREM TrackerIsSafe == AccountsSpec => []TrackerInv
<1>1. ASSUME AccountsInit PROVE TrackerInv
  <2>1. TrackerInit /\ call = [c \in Calls |-> IdleCall]
    BY <1>1 DEF AccountsInit
  <2>2. <<>> \in Seq(Times) /\ Len(<<>>) = 0 /\ DOMAIN <<>> = {} /\ IdleCall.at = "idle"
    BY DEF IdleCall
  <2> QED
    BY <2>1, <2>2, IpTrackerAssumption
       DEF TrackerInit, TrackerInv, TrackerTypeOK, Times, InOrder, BlockFits, PastGuard
<1>2. ASSUME AccountsInv, TrackerInv, [AccountsNext]_accountVars PROVE TrackerInv'
  BY <1>2, TrackerInvKept DEF AccountsInv
<1> QED
  BY <1>1, <1>2, AccountsInvariant, PTL DEF AccountsSpec

\* The types, the list of failures among them.
THEOREM AccountsTyped == AccountsSpec => []AccountsTypeOK
<1>1. AccountsInv /\ TrackerInv => AccountsTypeOK
  BY DEF AccountsInv, AccountTyped, TrackerInv, AccountsTypeOK
<1> QED
  BY <1>1, AccountsInvariant, TrackerIsSafe, PTL

\* MAX_FAILURES failures within WINDOW mean that the address is blocked: a
\* block lasts at least as long as the window in which its failures count
\* (recordFailure).
THEOREM HotAddressIsBlocked == AccountsSpec => []BlockedWhileHot
<1>1. ASSUME TrackerInv PROVE BlockedWhileHot
  <2>1. SUFFICES ASSUME Len(Recent(failures)) >= MAX_FAILURES PROVE IsBlocked
    BY DEF BlockedWhileHot
  <2>2. PICK m : m = Len(failures)
    OBVIOUS
  <2>3. PICK n : n = Len(Recent(failures))
    OBVIOUS
  <2>4. failures \in Seq(Times) /\ now \in Times
    BY <1>1 DEF TrackerInv, TrackerTypeOK
  <2>5. m \in Nat /\ n \in 0..m /\ n >= MAX_FAILURES /\ MAX_FAILURES \in Nat \ {0}
    BY <2>1, <2>2, <2>3, <2>4, RecentTyped, IpTrackerAssumption
  <2>6. m \in DOMAIN failures /\ m > m - n
    BY <2>2, <2>4, <2>5
  <2>7. now - failures[m] < WINDOW
    BY <1>1, <2>2, <2>3, <2>4, <2>6, RecentIsTheFilter DEF TrackerInv
  <2>8. failures[m] \in Nat /\ now \in Nat /\ blockedUntil \in Nat
    BY <1>1, <2>4, <2>6, IpTrackerAssumption DEF TrackerInv, TrackerTypeOK, Times
  <2>9. blockedUntil >= failures[m] + BLOCK \/ now > failures[m] + BLOCK
    BY <1>1, <2>2, <2>5 DEF TrackerInv, BlockFits
  <2> QED
    BY <2>7, <2>8, <2>9, IpTrackerAssumption DEF IsBlocked
<1> QED
  BY <1>1, TrackerIsSafe, PTL

=============================================================================
