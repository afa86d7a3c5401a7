--------------------------- MODULE IdentityLogin ---------------------------
(***************************************************************************)
(* Login (internal/identity): one user, several login calls from one IP,   *)
(* the lockout counters in Redis and the token version in the users table. *)
(* A login reads the user's row once and works with what it read, while    *)
(* the password is changed, sessions are revoked or the user is disabled.  *)
(* Passwords are numbered in the order they were set; 0 is a wrong one.    *)
(***************************************************************************)
EXTENDS Naturals, FiniteSets

CONSTANTS
  Login,              \* calls of Login; each one yields at most one JWT
  Changer,            \* calls of ChangePassword
  LockThreshold,      \* LockThreshold[k]: Config.AccountThreshold, IPThreshold
  MaxPwd,             \* bound: passwords the user ever has
  MaxRevocations,     \* bound: ForceLogout, LogoutAll, ResetPassword, DisableUser
  MaxIdentityFaults

ASSUME IdentityAssumption ==
  /\ LockThreshold \in [{"account", "ip"} -> Nat \ {0}]
  /\ MaxPwd \in Nat \ {0} /\ MaxRevocations \in Nat /\ MaxIdentityFaults \in Nat
  /\ IsFiniteSet(Login)

VARIABLES
  user,        \* the row of users: [pwd, tv, status]
  login,       \* login[c]: [pc, tv]; pc = "token" once its JWT is out
  changer,     \* changer[k]: the row ChangePassword read and verified against
  disabling,   \* DisableUser between its two statements
  fails,       \* fails[k]: failures in the window of key k (ZCARD)
  lock,        \* lock[k]: "none", "set", or "expired" since the last failure
  void,        \* logins whose token must be refused from now on (a ghost)
  revocations, identityFaults

idVars == <<user, login, changer, disabling, fails, lock, void, revocations, identityFaults>>

Key == {"account", "ip"}
LoginPC == {"start", "verify", "failAccount", "countAccount", "lockAccount", "failIP",
            "countIP", "lockIP", "ok", "reset", "issue", "token", "refused"}
Row(u) == [pc |-> "held", pwd |-> u.pwd]

IdInit ==
  /\ user = [pwd |-> 1, tv |-> 0, status |-> "active"]
  /\ login = [c \in Login |-> [pc |-> "start", tv |-> 0]]
  /\ changer = [k \in Changer |-> [pc |-> "idle", pwd |-> 0]]
  /\ disabling = FALSE
  /\ fails = [k \in Key |-> 0] /\ lock = [k \in Key |-> "none"]
  /\ void = {} /\ revocations = 0 /\ identityFaults = 0

IdFault == identityFaults < MaxIdentityFaults /\ identityFaults' = identityFaults + 1
Step(c, from, to) ==
  /\ login[c].pc = from
  /\ login' = [login EXCEPT ![c].pc = to]
SameUser == UNCHANGED <<user, changer, disabling, revocations>>
SameLocks == UNCHANGED <<fails, lock>>
Calm == UNCHANGED <<void, identityFaults>>

(* ---- Login ---- *)
\* isLocked, fail-open: an error of Redis counts as not locked.
IfNotLocked(c, k, from, next) ==
  /\ \/ Step(c, from, IF lock[k] = "set" THEN "refused" ELSE next) /\ UNCHANGED identityFaults
     \/ Step(c, from, next) /\ IdFault
  /\ SameUser /\ SameLocks /\ UNCHANGED void
CheckIP(c) == IfNotLocked(c, "ip", "start", "verify")

\* GetByUsername, VerifyPassword and the status, all of one row
Verify(c, pwd) ==
  /\ login[c].pc = "verify"
  /\ login' = [login EXCEPT ![c] =
       [pc |-> IF pwd = user.pwd /\ user.status = "active" THEN "ok" ELSE "failAccount",
        tv |-> user.tv]]
  /\ SameUser /\ SameLocks /\ Calm

\* recordOne: ZADD and ZCARD of its pipeline, which is no transaction, then
\* the SET.
AddFailure(c, k, from, next) ==
  /\ Step(c, from, next)
  /\ fails' = [fails EXCEPT ![k] = @ + 1]
  /\ lock' = [lock EXCEPT ![k] = IF @ = "expired" THEN "none" ELSE @]
  /\ SameUser /\ Calm
Exceeded(k) == fails[k] > LockThreshold[k]
Reached(k) == fails[k] >= LockThreshold[k]
CountFailures(c, k, from, locking, next) ==
  /\ Step(c, from, IF Reached(k) THEN locking ELSE next)
  /\ SameUser /\ SameLocks /\ Calm
SetLock(c, k, from, next) ==
  /\ Step(c, from, next)
  /\ lock' = [lock EXCEPT ![k] = "set"]
  /\ SameUser /\ Calm /\ UNCHANGED fails

RecordFailure(c) ==
  \/ AddFailure(c, "account", "failAccount", "countAccount")
  \/ CountFailures(c, "account", "countAccount", "lockAccount", "failIP")
  \/ SetLock(c, "account", "lockAccount", "failIP")
  \/ AddFailure(c, "ip", "failIP", "countIP")
  \/ CountFailures(c, "ip", "countIP", "lockIP", "refused")
  \/ SetLock(c, "ip", "lockIP", "refused")

\* fail-open: an error of Redis ends the recording of this key.
RecordLost(c) ==
  /\ \/ login[c].pc \in {"failAccount", "countAccount", "lockAccount"}
        /\ Step(c, login[c].pc, "failIP")
     \/ login[c].pc \in {"failIP", "countIP", "lockIP"} /\ Step(c, login[c].pc, "refused")
  /\ IdFault /\ SameUser /\ SameLocks /\ UNCHANGED void

\* IsAccountLocked, after the password was found right
CheckAccount(c) == IfNotLocked(c, "account", "ok", "reset")

\* ResetFailures deletes the counters, not the locks; its error is ignored.
ResetFailures(c) ==
  /\ Step(c, "reset", "issue")
  /\ \/ fails' = [k \in Key |-> 0] /\ UNCHANGED identityFaults
     \/ IdFault /\ UNCHANGED fails
  /\ SameUser /\ UNCHANGED <<lock, void>>

\* The session row and the JWT, both with the token version of the row read in
\* Verify.
TokenVersionNow(c) == user.tv
TokenVersionRead(c) == login[c].tv
Issue(c) ==
  /\ login[c].pc = "issue"
  /\ login' = [login EXCEPT ![c] = [pc |-> "token", tv |-> TokenVersionRead(c)]]
  /\ SameUser /\ SameLocks /\ Calm

\* The users table or the sessions table cannot be reached: an error, which is
\* not counted as a failure.
LoginFails(c) ==
  /\ Step(c, "verify", "refused") \/ Step(c, "issue", "refused")
  /\ IdFault /\ SameUser /\ SameLocks /\ UNCHANGED void

\* lockoutFor passes; the failures leave their window.
LockExpires(k) ==
  /\ lock[k] = "set" /\ lock' = [lock EXCEPT ![k] = "expired"]
  /\ SameUser /\ Calm /\ UNCHANGED <<login, fails>>
WindowPasses(k) ==
  /\ fails[k] > 0 /\ fails' = [fails EXCEPT ![k] = 0]
  /\ SameUser /\ Calm /\ UNCHANGED <<login, lock>>

(* ---- the user row ---- *)
\* Logins that have read the row: their token must not outlive a revocation.
HaveRead == {c \in Login : login[c].pc \in {"ok", "reset", "issue", "token"}}
Revoke == void' = void \cup HaveRead
SameLogins == UNCHANGED <<login, fails, lock, identityFaults>>

ReadForChange(k) ==
  /\ changer[k].pc = "idle"
  /\ changer' = [changer EXCEPT ![k] = Row(user)]
  /\ SameLogins /\ UNCHANGED <<user, disabling, void, revocations>>

\* UpdatePassword: hash and token version in one UPDATE, whatever the hash is
\* by now: the old password was verified against the row read before.
ChangePassword(k) ==
  /\ changer[k].pc = "held" /\ user.pwd < MaxPwd
  /\ user' = [user EXCEPT !.pwd = @ + 1, !.tv = @ + 1]
  /\ changer' = [changer EXCEPT ![k] = [pc |-> "done", pwd |-> 0]]
  /\ Revoke /\ SameLogins /\ UNCHANGED <<disabling, revocations>>

Revocation == revocations < MaxRevocations /\ revocations' = revocations + 1
\* ForceLogout, LogoutAllSessions
ForceLogout ==
  /\ Revocation
  /\ user' = [user EXCEPT !.tv = @ + 1]
  /\ Revoke /\ SameLogins /\ UNCHANGED <<changer, disabling>>

\* ResetPassword by an administrator: another password, no old one is asked for.
ResetPassword ==
  /\ Revocation /\ user.pwd < MaxPwd
  /\ user' = [user EXCEPT !.pwd = @ + 1, !.tv = @ + 1]
  /\ Revoke /\ SameLogins /\ UNCHANGED <<changer, disabling>>

\* DisableUser: UpdateStatus, then IncrementTokenVersion
DisableUser ==
  /\ Revocation /\ ~disabling
  /\ user' = [user EXCEPT !.status = "disabled"]
  /\ disabling' = TRUE
  /\ SameLogins /\ UNCHANGED <<changer, void>>
DisableRevokes ==
  /\ disabling /\ disabling' = FALSE
  /\ user' = [user EXCEPT !.tv = @ + 1]
  /\ Revoke /\ SameLogins /\ UNCHANGED <<changer, revocations>>
\* The second statement fails or the server dies: the caller sees an error.
DisableHalfDone ==
  /\ disabling /\ disabling' = FALSE
  /\ IdFault /\ UNCHANGED <<user, login, changer, fails, lock, void, revocations>>
EnableUser ==
  /\ user.status = "disabled" /\ user' = [user EXCEPT !.status = "active"]
  /\ SameLogins /\ UNCHANGED <<changer, disabling, void, revocations>>

IdNext ==
  \/ \E c \in Login : \/ CheckIP(c) \/ \E pwd \in 0..MaxPwd : Verify(c, pwd)
                      \/ RecordFailure(c) \/ RecordLost(c) \/ CheckAccount(c)
                      \/ ResetFailures(c) \/ Issue(c) \/ LoginFails(c)
  \/ \E k \in Key : LockExpires(k) \/ WindowPasses(k)
  \/ \E k \in Changer : ReadForChange(k) \/ ChangePassword(k)
  \/ ForceLogout \/ ResetPassword \/ DisableUser \/ DisableRevokes \/ DisableHalfDone \/ EnableUser

IdSpec == IdInit /\ [][IdNext]_idVars

\* authenticateJWT: the version in the token against the row
Authenticates(c) ==
  login[c].pc = "token" /\ login[c].tv = user.tv /\ user.status = "active"

(* ---- properties ---- *)

IdTypeOK ==
  /\ user.pwd \in 1..MaxPwd /\ user.tv \in Nat /\ user.status \in {"active", "disabled"}
  /\ \A c \in Login : login[c].pc \in LoginPC /\ login[c].tv <= user.tv
  /\ fails \in [Key -> 0..Cardinality(Login)]
  /\ lock \in [Key -> {"none", "set", "expired"}] /\ void \subseteq Login

\* Once a password change, a forced logout or a completed disable is done, no
\* login that had read the row before gets in with its token: not even one
\* whose token is issued afterwards, nor when the user is enabled again.
RevokedStaysOut == \A c \in void : ~Authenticates(c)

\* Who has added a failure of key k and not yet decided on it.
LockingPC(k) ==
  IF k = "account" THEN {"countAccount", "lockAccount"} ELSE {"countIP", "lockIP"}

\* Failures that reach the threshold lock, however the counting of concurrent
\* logins interleaves; a lock is gone only because it expired.
ThresholdLocks ==
  \A k \in Key :
    fails[k] >= LockThreshold[k] /\ identityFaults = 0
      => \/ lock[k] # "none"
         \/ \E c \in Login : login[c].pc \in LockingPC(k)
=============================================================================
