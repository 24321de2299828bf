------------------------------- MODULE Identity -------------------------------
(***************************************************************************)
(* Users, tenants, passwords, activation codes and sessions of the         *)
(* console.  A request is authenticated, reads what it needs, and runs one *)
(* transaction; other requests run in between.  Passwords are compared     *)
(* through their hashes, that is, for equality; codes and session tokens   *)
(* are fresh.  Clocks only matter by what has expired: a lock, a session   *)
(* or a code expires at any time.                                          *)
(***************************************************************************)
EXTENDS Naturals, Sequences, FiniteSets

CONSTANTS
  Names,        \* user names; "admin" exists from the start
  Tenants,      \* tenants
  Secrets,      \* passwords long enough for both length checks
  NoPassword,   \* the empty hash
  MaxFailed,    \* MaxFailedLoginAttempts
  HistoryCount, \* PasswordHistoryCount
  Calls,        \* concurrent requests
  MaxCalls,     \* bound on requests
  MaxSessions_  \* bound on sessions that are open at once

ASSUME IdentityAssumption ==
  /\ "admin" \in Names /\ NoPassword \notin Secrets
  /\ MaxFailed \in Nat \ {0} /\ HistoryCount \in Nat /\ MaxCalls \in Nat /\ MaxSessions_ \in Nat

VARIABLES
  users,      \* the rows, by name
  tenantOn,   \* tenants that are active
  logged,     \* open sessions: neither revoked nor expired
  codes,      \* unused activation codes, by user and number
  single,     \* AllowConcurrentSessions is off
  call,       \* call[c]: a request under way
  calls,      \* requests so far
  streak      \* streak[u]: failed logins of u that were recorded since the last reset

identityVars == <<users, tenantOn, logged, codes, single, call, calls, streak>>

Roles == {"system_admin", "tenant_admin", "viewer"}

NoTenant == "none"

\* The latest passwords of a user, at most HistoryCount of them.
Histories == {past \in Seq(Secrets) : Len(past) <= HistoryCount}

UserRow == [role: Roles, tenant: Tenants \cup {NoTenant}, active: BOOLEAN,
        hash: Secrets \cup {NoPassword}, past: Histories,
        must: BOOLEAN, failed: Nat, locked: {"no", "until", "over"}]

Sessions == [user: Names, n: 1..MaxSessions_]

ActivationCodes == [user: Names, n: {1, 2}]

UserOps == {"enable", "disable", "reset", "unlock", "logout", "force", "regenerate", "delete"}

NoCall == [op |-> "idle"]

\* A request under way, by what it has read: a code, a user's row to log in, a target, a session.
ActivateCalls == [op: {"activate"}, code: ActivationCodes, new: Secrets]

LoginCalls == [op: {"login", "wrong"}, user: Names, failed: Nat, alone: BOOLEAN]

UserCalls == [op: UserOps, user: Names, new: Secrets \cup {NoPassword}]

ChangeCalls == [op: {"change"}, user: Names, new: Secrets, kept: Sessions]

IdentityTypeOK ==
  /\ DOMAIN users \subseteq Names /\ users \in [DOMAIN users -> UserRow]
  /\ tenantOn \subseteq Tenants
  /\ logged \subseteq Sessions /\ \A s \in logged : s.user \in DOMAIN users
  /\ codes \subseteq ActivationCodes
  /\ single \in BOOLEAN /\ calls \in 0..MaxCalls
  /\ call \in [Calls -> {NoCall} \cup ActivateCalls \cup LoginCalls \cup UserCalls \cup ChangeCalls]
  /\ streak \in [Names -> Nat]

FirstAdmin == [role |-> "system_admin", tenant |-> NoTenant, active |-> TRUE, hash |-> NoPassword,
               past |-> <<>>, must |-> FALSE, failed |-> 0, locked |-> "no"]

IdentityInit ==
  /\ users = [u \in {"admin"} |-> FirstAdmin]
  /\ tenantOn = Tenants
  /\ logged = {}
  /\ codes = {}
  /\ single = TRUE
  /\ call = [c \in Calls |-> NoCall]
  /\ calls = 0
  /\ streak = [u \in Names |-> 0]

-----------------------------------------------------------------------------
(***************************************************************************)
(* Helpers of the repository                                               *)
(***************************************************************************)
UserExists(u) == u \in DOMAIN users

TenantOK(u) == users[u].tenant = NoTenant \/ users[u].tenant \in tenantOn

\* GetActiveSession
ActiveSession(s) == s \in logged /\ users[s.user].active /\ TenantOK(s.user)

\* Mutant: the limit of the query is dropped.
RememberAll(past, p) == Append(past, p)

\* ListPasswordHashes reads the latest HistoryCount.
Remember(past, p) ==
  LET all == Append(past, p)
  IN SubSeq(all, IF Len(all) > HistoryCount THEN Len(all) - HistoryCount + 1 ELSE 1, Len(all))

PasswordWasUsed(u, p) == p = users[u].hash \/ \E i \in DOMAIN users[u].past : users[u].past[i] = p

Unlocked(row) == [row EXCEPT !.failed = 0, !.locked = "no"]

WithPassword(row, p) == [row EXCEPT !.hash = p, !.past = Remember(@, p)]

NewPassword(row, p) == [WithPassword(Unlocked(row), p) EXCEPT !.must = FALSE]

Without(f, u) == [v \in DOMAIN f \ {u} |-> f[v]]

RevokeUserSessions(u) == {s \in logged : s.user # u}

BeginCall(c, rec) == call[c] = NoCall /\ calls < MaxCalls /\ calls' = calls + 1 /\ call' = [call EXCEPT ![c] = rec]

FinishCall(c) == call' = [call EXCEPT ![c] = NoCall]

ResetStreak(u) == streak' = [streak EXCEPT ![u] = 0]

-----------------------------------------------------------------------------
(***************************************************************************)
(* Setting up, activating, logging in                                      *)
(***************************************************************************)
InitializeAdmin(p) ==
  /\ users["admin"].hash = NoPassword
  /\ users' = [users EXCEPT !["admin"] = WithPassword(@, p)]
  /\ UNCHANGED <<tenantOn, logged, codes, single, call, calls, streak>>

\* Activate: the code is looked up, then used in a transaction.
ActivateRead(c, k, p) ==
  /\ k \in codes
  /\ BeginCall(c, [op |-> "activate", code |-> k, new |-> p])
  /\ UNCHANGED <<users, tenantOn, logged, codes, single, streak>>

\* Mutant: the code is enough.
ActivatesAny(u) == UserExists(u) /\ users[u].active

Activates(u) == UserExists(u) /\ users[u].active /\ users[u].hash = NoPassword

ActivateUser(c) ==
  LET k == call[c].code
  IN /\ call[c].op = "activate"
     /\ IF k \in codes /\ Activates(k.user)
          THEN /\ users' = [users EXCEPT ![k.user] = NewPassword(@, call[c].new)]
               /\ codes' = codes \ {k}
               /\ ResetStreak(k.user)
          ELSE UNCHANGED <<users, codes, streak>>
     /\ FinishCall(c)
     /\ UNCHANGED <<tenantOn, logged, single, calls>>

\* Login: the row, the settings and the tenant are read, the password compared.
LoginRead(c, u, p) ==
  /\ UserExists(u) /\ users[u].active /\ users[u].hash # NoPassword /\ users[u].locked # "until"
  /\ users[u].hash = p => TenantOK(u)
  /\ BeginCall(c, [op |-> IF users[u].hash = p THEN "login" ELSE "wrong", user |-> u,
               failed |-> users[u].failed, alone |-> single])
  /\ UNCHANGED <<users, tenantOn, logged, codes, single, streak>>

\* Mutant: the count of the row that Login has read is written back.
CountAfterStale(c) == call[c].failed + 1

CountAfter(c) == users[call[c].user].failed + 1

AfterFailure(row, n) == [row EXCEPT !.failed = n, !.locked = IF n >= MaxFailed THEN "until" ELSE @]

RecordLoginFailure(c) ==
  LET u == call[c].user
  IN /\ call[c].op = "wrong"
     /\ IF UserExists(u)
          THEN /\ users' = [users EXCEPT ![u] = AfterFailure(@, CountAfter(c))]
               /\ streak' = [streak EXCEPT ![u] = @ + 1]
          ELSE UNCHANGED <<users, streak>>
     /\ FinishCall(c)
     /\ UNCHANGED <<tenantOn, logged, codes, single, calls>>

LoginSucceeded(c) ==
  LET u == call[c].user
      kept == IF call[c].alone THEN RevokeUserSessions(u) ELSE logged
  IN /\ call[c].op = "login"
     /\ IF UserExists(u)
          THEN /\ \E n \in 1..MaxSessions_ :
                    /\ [user |-> u, n |-> n] \notin kept
                    /\ \A m \in 1..(n - 1) : [user |-> u, n |-> m] \in kept
                    /\ logged' = kept \cup {[user |-> u, n |-> n]}
               /\ users' = [users EXCEPT ![u] = Unlocked(@)]
               /\ ResetStreak(u)
          ELSE UNCHANGED <<logged, users, streak>>
     /\ FinishCall(c)
     /\ UNCHANGED <<tenantOn, codes, single, calls>>

\* A lockout period, a session or a code expires; Logout; an idle session
\* is revoked by the request that finds it idle (Authenticate).
LockoutOver(u) ==
  /\ UserExists(u) /\ users[u].locked = "until"
  /\ users' = [users EXCEPT ![u].locked = "over"]
  /\ UNCHANGED <<tenantOn, logged, codes, single, call, calls, streak>>

SessionEnds(s) ==
  /\ s \in logged
  /\ logged' = logged \ {s}
  /\ UNCHANGED <<users, tenantOn, codes, single, call, calls, streak>>

CodeExpires(k) ==
  /\ k \in codes
  /\ codes' = codes \ {k}
  /\ UNCHANGED <<users, tenantOn, logged, single, call, calls, streak>>

-----------------------------------------------------------------------------
(***************************************************************************)
(* Requests of a session.  The middleware authenticates and lets a user    *)
(* who must change the password do nothing else; the service reads the     *)
(* target and decides; the repository runs the transaction.                *)
(***************************************************************************)
Middleware(s, op) == ActiveSession(s) /\ (users[s.user].must => op = "change")

\* authorizedUser, and the rule every operation repeats
AuthorizedUser(a, u) ==
  /\ users[a].role # "viewer"
  /\ users[a].role = "tenant_admin" => users[u].tenant = users[a].tenant /\ users[u].role = "viewer"

UserRequest(c, s, op, u, p) ==
  /\ Middleware(s, op)
  /\ UserExists(u) /\ AuthorizedUser(s.user, u)
  /\ BeginCall(c, [op |-> op, user |-> u, new |-> p])
  /\ UNCHANGED <<users, tenantOn, logged, codes, single, streak>>

SetUserStatus(c, s, u, on) == UserRequest(c, s, IF on THEN "enable" ELSE "disable", u, NoPassword)

ResetPassword(c, s, u, p) == UserRequest(c, s, "reset", u, p)

UnlockUser(c, s, u) == UserRequest(c, s, "unlock", u, NoPassword)

ForceLogout(c, s, u) == UserRequest(c, s, "logout", u, NoPassword)

ForcePasswordChange(c, s, u) ==
  UserExists(u) /\ users[u].hash # NoPassword /\ UserRequest(c, s, "force", u, NoPassword)

RegenerateActivation(c, s, u) ==
  UserExists(u) /\ users[u].hash = NoPassword /\ UserRequest(c, s, "regenerate", u, NoPassword)

DeleteUser(c, s, u) == u # "admin" /\ UserRequest(c, s, "delete", u, NoPassword)

-----------------------------------------------------------------------------
(***************************************************************************)
(* Transactions of the repository on a row that is still there             *)
(***************************************************************************)
\* Mutant: an administrator who has not set a password counts as enabled.
EnabledAnyAdmins == {a \in DOMAIN users : users[a].role = "system_admin" /\ users[a].active}

EnabledAdmins == {a \in DOMAIN users : users[a].role = "system_admin" /\ users[a].active /\ users[a].hash # NoPassword}

\* These two run one at a time, by their advisory lock.
SetUserStatusAndRevoke(u, on) ==
  IF users[u].role = "system_admin" /\ ~on /\ Cardinality(EnabledAdmins) <= 1
    THEN UNCHANGED <<users, logged, streak, codes>>
    ELSE /\ users' = [users EXCEPT ![u].active = on]
         /\ logged' = RevokeUserSessions(u)
         /\ UNCHANGED <<streak, codes>>

DeleteUserAndRevoke(u) ==
  IF users[u].role = "system_admin" /\ users[u].active /\ Cardinality(EnabledAdmins) <= 1
    THEN UNCHANGED <<users, logged, streak, codes>>
    ELSE /\ users' = Without(users, u)
         /\ logged' = RevokeUserSessions(u)
         /\ codes' = {k \in codes : k.user # u}
         /\ ResetStreak(u)

SetUserPasswordAndRevoke(u, p) ==
  /\ users' = [users EXCEPT ![u].hash = p]
  /\ logged' = RevokeUserSessions(u)
  /\ UNCHANGED <<streak, codes>>

UnlockRow(u) ==
  /\ users' = [users EXCEPT ![u] = Unlocked(@)]
  /\ ResetStreak(u)
  /\ UNCHANGED <<logged, codes>>

RequirePasswordChange(u) ==
  /\ users' = [users EXCEPT ![u].must = TRUE]
  /\ UNCHANGED <<logged, streak, codes>>

RevokeSessionsOnly(u) ==
  /\ logged' = RevokeUserSessions(u)
  /\ UNCHANGED <<users, streak, codes>>

NewCode(u) == [user |-> u, n |-> IF [user |-> u, n |-> 1] \in codes THEN 2 ELSE 1]

ReplaceActivationToken(u) ==
  /\ codes' = {k \in codes : k.user # u} \cup {NewCode(u)}
  /\ UNCHANGED <<users, logged, streak>>

UserTransaction(c) ==
  LET u == call[c].user
      op == call[c].op
  IN /\ \/ op \in UserOps /\ ~UserExists(u) /\ UNCHANGED <<users, logged, streak, codes>>
        \/ op \in {"disable", "enable"} /\ UserExists(u) /\ SetUserStatusAndRevoke(u, op = "enable")
        \/ op = "delete" /\ UserExists(u) /\ DeleteUserAndRevoke(u)
        \/ op = "reset" /\ UserExists(u) /\ SetUserPasswordAndRevoke(u, call[c].new)
        \/ op = "unlock" /\ UserExists(u) /\ UnlockRow(u)
        \/ op = "force" /\ UserExists(u) /\ RequirePasswordChange(u)
        \/ op = "logout" /\ UserExists(u) /\ RevokeSessionsOnly(u)
        \/ op = "regenerate" /\ UserExists(u) /\ ReplaceActivationToken(u)
     /\ FinishCall(c)
     /\ UNCHANGED <<tenantOn, single, calls>>

CreateUserWithActivation(u, role, t) ==
  /\ users' = [v \in DOMAIN users \cup {u} |->
                 IF v = u THEN [FirstAdmin EXCEPT !.role = role, !.tenant = t] ELSE users[v]]
  /\ codes' = codes \cup {NewCode(u)}

CreateUser(s, u, role, t) ==
  /\ Middleware(s, "create") /\ ~UserExists(u) /\ calls < MaxCalls
  /\ users[s.user].role = "system_admin" \/
       (users[s.user].role = "tenant_admin" /\ role = "viewer" /\ t = users[s.user].tenant)
  /\ (role = "system_admin") = (t = NoTenant)
  /\ t # NoTenant => t \in tenantOn
  /\ CreateUserWithActivation(u, role, t)
  /\ calls' = calls + 1
  /\ UNCHANGED <<tenantOn, logged, single, call, streak>>

\* ChangePassword: read and compared, then written; the session is kept.
ChangeRead(c, s, p) ==
  /\ Middleware(s, "change")
  /\ HistoryCount > 0 => ~PasswordWasUsed(s.user, p)
  /\ BeginCall(c, [op |-> "change", user |-> s.user, new |-> p, kept |-> s])
  /\ UNCHANGED <<users, tenantOn, logged, codes, single, streak>>

ChangePassword(c) ==
  LET u == call[c].user
  IN /\ call[c].op = "change"
     /\ IF UserExists(u)
          THEN /\ users' = [users EXCEPT ![u] = NewPassword(@, call[c].new)]
               /\ logged' = RevokeUserSessions(u) \cup (logged \cap {call[c].kept})
               /\ ResetStreak(u)
          ELSE UNCHANGED <<users, logged, streak>>
     /\ FinishCall(c)
     /\ UNCHANGED <<tenantOn, codes, single, calls>>

SetTenantStatus(s, t, on) ==
  /\ Middleware(s, "tenant") /\ users[s.user].role = "system_admin" /\ calls < MaxCalls
  /\ tenantOn' = IF on THEN tenantOn \cup {t} ELSE tenantOn \ {t}
  /\ logged' = {q \in logged : users[q.user].tenant # t}
  /\ calls' = calls + 1
  /\ UNCHANGED <<users, codes, single, call, streak>>

UpdateSecuritySettings(s) ==
  /\ Middleware(s, "settings") /\ users[s.user].role = "system_admin" /\ calls < MaxCalls
  /\ single' = ~single
  /\ calls' = calls + 1
  /\ UNCHANGED <<users, tenantOn, logged, codes, call, streak>>

-----------------------------------------------------------------------------
UserRequests(c, s, u) ==
  \/ \E on \in BOOLEAN : SetUserStatus(c, s, u, on)
  \/ \E p \in Secrets : ResetPassword(c, s, u, p)
  \/ UnlockUser(c, s, u) \/ ForceLogout(c, s, u) \/ ForcePasswordChange(c, s, u)
  \/ RegenerateActivation(c, s, u) \/ DeleteUser(c, s, u)

IdentityNext ==
  \/ \E p \in Secrets : InitializeAdmin(p)
  \/ \E c \in Calls : \/ \E k \in codes, p \in Secrets : ActivateRead(c, k, p)
                      \/ \E u \in Names, p \in Secrets : LoginRead(c, u, p)
                      \/ ActivateUser(c) \/ RecordLoginFailure(c) \/ LoginSucceeded(c)
                      \/ UserTransaction(c) \/ ChangePassword(c)
                      \/ \E s \in logged, p \in Secrets : ChangeRead(c, s, p)
                      \/ \E s \in logged, u \in Names : UserRequests(c, s, u)
  \/ \E u \in Names : LockoutOver(u)
  \/ \E s \in logged : \/ SessionEnds(s) \/ UpdateSecuritySettings(s)
                       \/ \E t \in Tenants, on \in BOOLEAN : SetTenantStatus(s, t, on)
                       \/ \E u \in Names, r \in Roles, t \in Tenants \cup {NoTenant} : CreateUser(s, u, r, t)
  \/ \E k \in codes : CodeExpires(k)

IdentitySpec == IdentityInit /\ [][IdentityNext]_identityVars

-----------------------------------------------------------------------------
(***************************************************************************)
(* Once the administrator is set up, somebody can always administer: an    *)
(* active system administrator with a password is left, whatever status    *)
(* changes and deletions run against each other (ErrLastSystemAdmin).      *)
(***************************************************************************)
AdminRemains ==
  users["admin"].hash # NoPassword =>
    \E a \in DOMAIN users : users[a].role = "system_admin" /\ users[a].active /\ users[a].hash # NoPassword

(***************************************************************************)
(* An activation code never replaces a password: one set by a reset or     *)
(* through an older code stands, also while a code issued in between is    *)
(* unused (ActivateUser).                                                  *)
(***************************************************************************)
CodeSetsFirstPassword ==
  [][\A c \in Calls : call[c].op = "activate" /\ call'[c] = NoCall =>
       \A u \in DOMAIN users : users[u].hash # NoPassword => users'[u].hash = users[u].hash]_identityVars

(***************************************************************************)
(* Failed logins are counted, also when they run side by side: after       *)
(* MaxFailed of them the account has been locked (RecordLoginFailure).     *)
(***************************************************************************)
FailuresLock ==
  \A u \in DOMAIN users : streak[u] >= MaxFailed => users[u].locked # "no"
=============================================================================
