---------------------------- MODULE ConsoleProofs ----------------------------
(***************************************************************************)
(* Proofs about the console: identities, and what the services together    *)
(* keep.                                                                   *)
(***************************************************************************)
EXTENDS MCConsole, HubServicesProofs, FiniteSetTheorems, SequenceTheorems

(***************************************************************************)
(* Identities                                                              *)
(*                                                                         *)
(* That somebody can always administer rests on what requests under way    *)
(* may still do: none of them deletes `admin' or sets an empty password,   *)
(* and as long as `admin' has no password there is nobody who could have   *)
(* sent one (Untouched).                                                   *)
(***************************************************************************)
CallStates == {NoCall} \cup ActivateCalls \cup LoginCalls \cup UserCalls \cup ChangeCalls

CallsRight ==
  \A c \in Calls :
    /\ call[c].op = "reset" => call[c].new \in Secrets
    /\ call[c].op = "delete" => call[c].user # "admin"

\* The failures counted for the property are the ones of the row, and enough of them have locked it.
Counted ==
  /\ \A u \in Names : streak[u] = IF u \in DOMAIN users THEN users[u].failed ELSE 0
  /\ \A u \in DOMAIN users : users[u].failed >= MaxFailed => users[u].locked # "no"

Untouched ==
  /\ users = [u \in {"admin"} |-> FirstAdmin]
  /\ logged = {} /\ codes = {}
  /\ \A c \in Calls : call[c] = NoCall

AdminKept ==
  /\ "admin" \in DOMAIN users
  /\ IF users["admin"].hash = NoPassword THEN Untouched ELSE EnabledAdmins # {}

IdentityIInv == IdentityTypeOK /\ CallsRight /\ Counted /\ AdminKept

-----------------------------------------------------------------------------
\* The latest passwords are at most HistoryCount.
LEMMA RememberType ==
  ASSUME NEW past \in Histories, NEW p \in Secrets
  PROVE  Remember(past, p) \in Histories
  <1>1. past \in Seq(Secrets) /\ Len(past) \in Nat
    BY DEF Histories
  <1>2. PICK all : all = Append(past, p)
    OBVIOUS
  <1>3. all \in Seq(Secrets) /\ Len(all) \in Nat /\ \A i \in 1..Len(all) : all[i] \in Secrets
    BY <1>1, <1>2
  <1>4. PICK m : m = IF Len(all) > HistoryCount THEN Len(all) - HistoryCount + 1 ELSE 1
    OBVIOUS
  <1>5. m \in Int /\ m >= 1 /\ Len(all) - m + 1 <= HistoryCount /\ HistoryCount \in Nat
    BY <1>3, <1>4, IdentityAssumption
  <1>6. \A i \in m..Len(all) : all[i] \in Secrets
    BY <1>3, <1>5
  <1>7. /\ SubSeq(all, m, Len(all)) \in Seq(Secrets)
        /\ Len(SubSeq(all, m, Len(all))) = IF m <= Len(all) THEN Len(all) - m + 1 ELSE 0
    BY <1>3, <1>5, <1>6, SubSeqProperties
  <1>8. Remember(past, p) = SubSeq(all, m, Len(all))
    BY <1>2, <1>4 DEF Remember
  <1>. QED
    BY <1>3, <1>5, <1>7, <1>8 DEF Histories

LEMMA UnlockedRow ==
  ASSUME NEW row \in UserRow
  PROVE  /\ Unlocked(row) \in UserRow
         /\ Unlocked(row).failed = 0 /\ Unlocked(row).locked = "no"
         /\ Unlocked(row).role = row.role /\ Unlocked(row).active = row.active
         /\ Unlocked(row).hash = row.hash /\ Unlocked(row).past = row.past
  BY DEF Unlocked, UserRow

LEMMA WithPasswordRow ==
  ASSUME NEW row \in UserRow, NEW p \in Secrets
  PROVE  /\ WithPassword(row, p) \in UserRow
         /\ WithPassword(row, p).hash = p
         /\ WithPassword(row, p).role = row.role /\ WithPassword(row, p).active = row.active
         /\ WithPassword(row, p).failed = row.failed /\ WithPassword(row, p).locked = row.locked
  <1>1. PICK past : past = Remember(row.past, p)
    OBVIOUS
  <1>2. past \in Histories
    BY <1>1, RememberType DEF UserRow
  <1>3. WithPassword(row, p) = [row EXCEPT !.hash = p, !.past = past]
    BY <1>1 DEF WithPassword
  <1>. QED
    BY <1>2, <1>3 DEF UserRow

LEMMA NewPasswordRow ==
  ASSUME NEW row \in UserRow, NEW p \in Secrets
  PROVE  /\ NewPassword(row, p) \in UserRow
         /\ NewPassword(row, p).failed = 0
         /\ NewPassword(row, p).role = row.role /\ NewPassword(row, p).active = row.active
         /\ NewPassword(row, p).hash = p
  <1>1. PICK open : open = Unlocked(row)
    OBVIOUS
  <1>2. open \in UserRow /\ open.failed = 0 /\ open.role = row.role /\ open.active = row.active
    BY <1>1, UnlockedRow
  <1>3. PICK new : new = WithPassword(open, p)
    OBVIOUS
  <1>4. /\ new \in UserRow /\ new.hash = p /\ new.failed = 0
        /\ new.role = row.role /\ new.active = row.active
    BY <1>2, <1>3, WithPasswordRow
  <1>5. NewPassword(row, p) = [new EXCEPT !.must = FALSE]
    BY <1>1, <1>3 DEF NewPassword
  <1>. QED
    BY <1>4, <1>5 DEF UserRow

\* The only enabled administrator is counted.
LEMMA AnotherAdmin ==
  ASSUME NEW u, ~(Cardinality(EnabledAdmins) <= 1)
  PROVE  \E a \in EnabledAdmins : a # u
  <1>1. SUFFICES ASSUME EnabledAdmins \subseteq {u}
                 PROVE  FALSE
    OBVIOUS
  <1>2. IsFiniteSet({u}) /\ Cardinality({u}) = 1
    BY FS_Singleton
  <1>3. Cardinality(EnabledAdmins) <= Cardinality({u})
    BY <1>1, <1>2, FS_Subset
  <1>. QED
    BY <1>2, <1>3

LEMMA CallTypes ==
  ASSUME IdentityTypeOK, NEW c \in Calls
  PROVE  /\ call[c].op = "activate" => call[c] \in ActivateCalls
         /\ call[c].op \in {"login", "wrong"} => call[c] \in LoginCalls
         /\ call[c].op \in UserOps => call[c] \in UserCalls
         /\ call[c].op = "change" => call[c] \in ChangeCalls
         /\ call[c].op # "idle" => call[c] # NoCall
  <1>1. call[c] \in {NoCall} \cup ActivateCalls \cup LoginCalls \cup UserCalls \cup ChangeCalls
    BY DEF IdentityTypeOK
  <1>2. NoCall.op = "idle"
    BY DEF NoCall
  <1>3. \A r \in ActivateCalls : r.op = "activate"
    BY DEF ActivateCalls
  <1>4. \A r \in LoginCalls : r.op \in {"login", "wrong"}
    BY DEF LoginCalls
  <1>5. \A r \in UserCalls : r.op \in UserOps
    BY DEF UserCalls
  <1>6. \A r \in ChangeCalls : r.op = "change"
    BY DEF ChangeCalls
  <1>. QED
    BY <1>1, <1>2, <1>3, <1>4, <1>5, <1>6 DEF UserOps

\* Whoever acts acts after `admin' has been given a password.
LEMMA Acting ==
  ASSUME IdentityIInv,
         logged # {} \/ codes # {} \/ (\E c \in Calls : call[c] # NoCall)
           \/ (\E u \in DOMAIN users : users[u] # FirstAdmin)
  PROVE  "admin" \in DOMAIN users /\ users["admin"].hash # NoPassword /\ EnabledAdmins # {}
  BY DEF IdentityIInv, AdminKept, Untouched

LEMMA CallBegins ==
  ASSUME IdentityIInv, NEW c \in Calls, NEW rec \in CallStates, BeginCall(c, rec),
         rec.op = "reset" => rec.new \in Secrets, rec.op = "delete" => rec.user # "admin"
  PROVE  call' \in [Calls -> CallStates] /\ CallsRight' /\ calls' \in 0..MaxCalls
  <1>1. call \in [Calls -> CallStates] /\ calls \in 0..MaxCalls /\ CallsRight
    BY DEF IdentityIInv, IdentityTypeOK, CallStates
  <1>2. /\ call' \in [Calls -> CallStates] /\ call'[c] = rec
        /\ \A d \in Calls : d # c => call'[d] = call[d]
    BY <1>1 DEF BeginCall
  <1>3. calls' \in 0..MaxCalls
    BY <1>1, IdentityAssumption DEF BeginCall
  <1>. QED
    BY <1>1, <1>2, <1>3 DEF CallsRight

LEMMA CallEnds ==
  ASSUME IdentityIInv, NEW c \in Calls, FinishCall(c)
  PROVE  call' \in [Calls -> CallStates] /\ CallsRight'
  <1>1. call \in [Calls -> CallStates] /\ CallsRight
    BY DEF IdentityIInv, IdentityTypeOK, CallStates
  <1>2. NoCall.op = "idle" /\ NoCall \in CallStates
    BY DEF NoCall, CallStates
  <1>3. /\ call' \in [Calls -> CallStates] /\ call'[c] = NoCall
        /\ \A d \in Calls : d # c => call'[d] = call[d]
    BY <1>1, <1>2 DEF FinishCall
  <1>. QED
    BY <1>1, <1>2, <1>3 DEF CallsRight

\* A step that leaves every account as it is.
LEMMA SameAccounts ==
  ASSUME IdentityIInv, users["admin"].hash # NoPassword, UNCHANGED <<users, streak>>,
         call' \in [Calls -> CallStates], CallsRight', calls' \in 0..MaxCalls,
         tenantOn' \subseteq Tenants, single' \in BOOLEAN, codes' \subseteq ActivationCodes,
         logged' \subseteq Sessions, \A s \in logged' : s.user \in DOMAIN users
  PROVE  IdentityIInv'
  <1>1. IdentityTypeOK'
    BY DEF IdentityIInv, IdentityTypeOK, CallStates
  <1>2. Counted'
    BY DEF IdentityIInv, Counted
  <1>3. AdminKept'
    BY DEF IdentityIInv, AdminKept, EnabledAdmins
  <1>. QED
    BY <1>1, <1>2, <1>3 DEF IdentityIInv

(***************************************************************************)
(* A step that writes one account: its failures are counted, it has a      *)
(* password if it had one, and if it was an enabled administrator it stays *)
(* one or there is another.                                                *)
(***************************************************************************)
LEMMA AccountWritten ==
  ASSUME IdentityIInv, users["admin"].hash # NoPassword,
         NEW u \in DOMAIN users, NEW row \in UserRow, users' = [users EXCEPT ![u] = row],
         row.role = users[u].role,
         row.hash # NoPassword \/ row.hash = users[u].hash,
         row.active = users[u].active \/ u \notin EnabledAdmins \/ row.active = TRUE
           \/ (\E a \in EnabledAdmins : a # u),
         row.failed >= MaxFailed => row.locked # "no",
         streak' \in [Names -> Nat], streak'[u] = row.failed,
         \A v \in Names : v # u => streak'[v] = streak[v],
         call' \in [Calls -> CallStates], CallsRight', calls' \in 0..MaxCalls,
         tenantOn' \subseteq Tenants, single' \in BOOLEAN, codes' \subseteq ActivationCodes,
         logged' \subseteq Sessions, \A s \in logged' : s.user \in DOMAIN users
  PROVE  IdentityIInv'
  <1>0. IdentityTypeOK /\ Counted /\ AdminKept
    BY DEF IdentityIInv
  <1>1. /\ DOMAIN users' = DOMAIN users /\ users' \in [DOMAIN users' -> UserRow]
        /\ users'[u] = row /\ \A v \in DOMAIN users : v # u => users'[v] = users[v]
        /\ DOMAIN users \subseteq Names
    BY <1>0 DEF IdentityTypeOK
  <1>2. IdentityTypeOK'
    BY <1>1 DEF IdentityTypeOK, CallStates
  <1>3. Counted'
    BY <1>0, <1>1 DEF Counted
  <1>4. "admin" \in DOMAIN users' /\ users'["admin"].hash # NoPassword
    BY <1>0, <1>1 DEF AdminKept
  <1>5. PICK a \in EnabledAdmins :
          a # u \/ row.active = users[u].active \/ row.active = TRUE
    <2>1. PICK b \in EnabledAdmins : TRUE
      BY <1>0 DEF AdminKept
    <2>. QED
      BY <2>1
  <1>6. a \in EnabledAdmins'
    <2>1. a \in DOMAIN users /\ users[a].role = "system_admin" /\ users[a].active /\ users[a].hash # NoPassword
      BY <1>5 DEF EnabledAdmins
    <2>2. CASE a # u
      BY <1>1, <2>1, <2>2 DEF EnabledAdmins
    <2>3. CASE a = u
      <3>1. row.active /\ row.role = "system_admin" /\ row.hash # NoPassword
        BY <1>5, <2>1, <2>3
      <3>. QED
        BY <1>1, <2>1, <2>3, <3>1 DEF EnabledAdmins
    <2>. QED
      BY <2>2, <2>3
  <1>. QED
    BY <1>2, <1>3, <1>4, <1>6 DEF IdentityIInv, AdminKept

\* Before anybody can act: InitializeAdmin.
LEMMA InitializeAdminKeeps ==
  ASSUME IdentityIInv, NEW p \in Secrets, InitializeAdmin(p)
  PROVE  IdentityIInv'
  <1>0. IdentityTypeOK /\ CallsRight /\ Counted /\ Untouched
    BY DEF IdentityIInv, AdminKept, InitializeAdmin
  <1>1. PICK row : row = WithPassword(users["admin"], p)
    OBVIOUS
  <1>2. "admin" \in DOMAIN users /\ users["admin"] \in UserRow
    BY <1>0 DEF IdentityTypeOK, Untouched
  <1>3. /\ row \in UserRow /\ row.hash = p /\ row.role = users["admin"].role
        /\ row.active = users["admin"].active /\ row.failed = users["admin"].failed
        /\ row.locked = users["admin"].locked
    BY <1>1, <1>2, WithPasswordRow
  <1>4. /\ users' = [users EXCEPT !["admin"] = row]
        /\ UNCHANGED <<tenantOn, logged, codes, single, call, calls, streak>>
    BY <1>1 DEF InitializeAdmin
  <1>5. /\ DOMAIN users' = DOMAIN users /\ users' \in [DOMAIN users' -> UserRow]
        /\ users'["admin"] = row /\ \A v \in DOMAIN users : v # "admin" => users'[v] = users[v]
    BY <1>0, <1>2, <1>3, <1>4 DEF IdentityTypeOK
  <1>6. IdentityTypeOK'
    BY <1>0, <1>4, <1>5 DEF IdentityTypeOK
  <1>7. Counted' /\ CallsRight'
    BY <1>0, <1>3, <1>4, <1>5 DEF Counted, CallsRight
  <1>8. p # NoPassword
    BY IdentityAssumption
  <1>9. row.role = "system_admin" /\ row.active = TRUE
    BY <1>0, <1>3 DEF Untouched, FirstAdmin
  <1>10. "admin" \in EnabledAdmins'
    BY <1>2, <1>3, <1>5, <1>8, <1>9 DEF EnabledAdmins
  <1>11. AdminKept'
    BY <1>2, <1>3, <1>5, <1>8, <1>10 DEF AdminKept
  <1>. QED
    BY <1>6, <1>7, <1>11 DEF IdentityIInv

\* Requests that have read and not yet written.
LEMMA ReadsKeep ==
  ASSUME IdentityIInv, NEW c \in Calls,
         \/ \E k \in codes, p \in Secrets : ActivateRead(c, k, p)
         \/ \E u \in Names, p \in Secrets : LoginRead(c, u, p)
         \/ \E s \in logged, p \in Secrets : ChangeRead(c, s, p)
         \/ \E s \in logged, u \in Names : UserRequests(c, s, u)
  PROVE  IdentityIInv'
  <1>0. IdentityTypeOK
    BY DEF IdentityIInv
  <1>1. ASSUME NEW rec \in CallStates, BeginCall(c, rec), users["admin"].hash # NoPassword,
               rec.op = "reset" => rec.new \in Secrets, rec.op = "delete" => rec.user # "admin",
               UNCHANGED <<users, tenantOn, logged, codes, single, streak>>
        PROVE  IdentityIInv'
    <2>1. call' \in [Calls -> CallStates] /\ CallsRight' /\ calls' \in 0..MaxCalls
      BY <1>1, CallBegins
    <2>2. /\ tenantOn' \subseteq Tenants /\ single' \in BOOLEAN /\ codes' \subseteq ActivationCodes
          /\ logged' \subseteq Sessions /\ \A s \in logged' : s.user \in DOMAIN users
      BY <1>0, <1>1 DEF IdentityTypeOK
    <2>. QED
      BY <1>1, <2>1, <2>2, SameAccounts
  <1>2. ASSUME NEW k \in codes, NEW p \in Secrets, ActivateRead(c, k, p)
        PROVE  IdentityIInv'
    <2>1. PICK rec : rec = [op |-> "activate", code |-> k, new |-> p]
      OBVIOUS
    <2>2. rec \in CallStates /\ rec.op = "activate"
      BY <1>0, <2>1 DEF IdentityTypeOK, CallStates, ActivateCalls
    <2>3. users["admin"].hash # NoPassword
      BY <1>2, Acting
    <2>. QED
      BY <1>1, <1>2, <2>1, <2>2, <2>3 DEF ActivateRead
  <1>3. ASSUME NEW u \in Names, NEW p \in Secrets, LoginRead(c, u, p)
        PROVE  IdentityIInv'
    <2>1. PICK op : op = IF users[u].hash = p THEN "login" ELSE "wrong"
      OBVIOUS
    <2>2. PICK rec : rec = [op |-> op, user |-> u, failed |-> users[u].failed, alone |-> single]
      OBVIOUS
    <2>3. u \in DOMAIN users /\ users[u] \in UserRow
      BY <1>0, <1>3 DEF IdentityTypeOK, LoginRead, UserExists
    <2>4. users[u].failed \in Nat /\ single \in BOOLEAN /\ op \in {"login", "wrong"}
      BY <1>0, <2>1, <2>3 DEF IdentityTypeOK, UserRow
    <2>5. rec \in CallStates /\ rec.op = op
      BY <2>2, <2>4 DEF CallStates, LoginCalls
    <2>6. users["admin"].hash # NoPassword
      <3>1. users[u] # FirstAdmin
        BY <1>3 DEF LoginRead, FirstAdmin
      <3>. QED
        BY <2>3, <3>1, Acting
    <2>7. BeginCall(c, rec) /\ UNCHANGED <<users, tenantOn, logged, codes, single, streak>>
      BY <1>3, <2>1, <2>2 DEF LoginRead
    <2>. QED
      BY <1>1, <2>4, <2>5, <2>6, <2>7
  <1>4. ASSUME NEW s \in logged, NEW p \in Secrets, ChangeRead(c, s, p)
        PROVE  IdentityIInv'
    <2>1. PICK rec : rec = [op |-> "change", user |-> s.user, new |-> p, kept |-> s]
      OBVIOUS
    <2>2. s \in Sessions /\ s.user \in Names
      BY <1>0 DEF IdentityTypeOK, Sessions
    <2>3. rec \in CallStates /\ rec.op = "change"
      BY <2>1, <2>2 DEF CallStates, ChangeCalls
    <2>4. users["admin"].hash # NoPassword
      BY <1>4, Acting
    <2>. QED
      BY <1>1, <1>4, <2>1, <2>3, <2>4 DEF ChangeRead
  <1>5. ASSUME NEW s \in logged, NEW u \in Names, UserRequests(c, s, u)
        PROVE  IdentityIInv'
    <2>1. PICK op \in UserOps, p \in Secrets \cup {NoPassword} :
            /\ UserRequest(c, s, op, u, p)
            /\ op = "reset" => p \in Secrets
            /\ op = "delete" => u # "admin"
      <3>1. ASSUME NEW on \in BOOLEAN, SetUserStatus(c, s, u, on)
            PROVE  \E op \in UserOps : UserRequest(c, s, op, u, NoPassword) /\ op \notin {"reset", "delete"}
        BY <3>1 DEF SetUserStatus, UserOps
      <3>2. ASSUME NEW p \in Secrets, ResetPassword(c, s, u, p)
            PROVE  UserRequest(c, s, "reset", u, p) /\ "reset" \in UserOps
        BY <3>2 DEF ResetPassword, UserOps
      <3>3. ASSUME UnlockUser(c, s, u) \/ ForceLogout(c, s, u) \/ ForcePasswordChange(c, s, u)
                     \/ RegenerateActivation(c, s, u)
            PROVE  \E op \in UserOps : UserRequest(c, s, op, u, NoPassword) /\ op \notin {"reset", "delete"}
        BY <3>3 DEF UnlockUser, ForceLogout, ForcePasswordChange, RegenerateActivation, UserOps
      <3>4. ASSUME DeleteUser(c, s, u)
            PROVE  UserRequest(c, s, "delete", u, NoPassword) /\ "delete" \in UserOps /\ u # "admin"
        BY <3>4 DEF DeleteUser, UserOps
      <3>. QED
        BY <1>5, <3>1, <3>2, <3>3, <3>4 DEF UserRequests
    <2>2. PICK rec : rec = [op |-> op, user |-> u, new |-> p]
      OBVIOUS
    <2>3. rec \in CallStates /\ rec.op = op /\ rec.new = p /\ rec.user = u
      BY <2>2 DEF CallStates, UserCalls
    <2>4. users["admin"].hash # NoPassword
      BY <1>5, Acting
    <2>5. BeginCall(c, rec) /\ UNCHANGED <<users, tenantOn, logged, codes, single, streak>>
      BY <2>1, <2>2 DEF UserRequest
    <2>. QED
      BY <1>1, <2>1, <2>3, <2>4, <2>5
  <1>. QED
    BY <1>2, <1>3, <1>4, <1>5

\* A request that has found nothing to write.
LEMMA NothingWritten ==
  ASSUME IdentityIInv, NEW c \in Calls, call[c].op # "idle", FinishCall(c),
         UNCHANGED <<users, streak, tenantOn, single, calls>>,
         logged' \subseteq logged, codes' \subseteq ActivationCodes
  PROVE  IdentityIInv'
  <1>1. IdentityTypeOK
    BY DEF IdentityIInv
  <1>2. users["admin"].hash # NoPassword
    BY <1>1, CallTypes, Acting
  <1>3. call' \in [Calls -> CallStates] /\ CallsRight'
    BY CallEnds
  <1>4. /\ tenantOn' \subseteq Tenants /\ single' \in BOOLEAN /\ calls' \in 0..MaxCalls
        /\ logged' \subseteq Sessions /\ \A s \in logged' : s.user \in DOMAIN users
    BY <1>1 DEF IdentityTypeOK
  <1>. QED
    BY <1>2, <1>3, <1>4, SameAccounts

\* A request that writes one account and leaves it an administrator if it was one.
LEMMA RequestWrites ==
  ASSUME IdentityIInv, NEW c \in Calls, call[c].op # "idle", FinishCall(c),
         UNCHANGED <<tenantOn, single, calls>>,
         NEW u \in DOMAIN users, NEW row \in UserRow, users' = [users EXCEPT ![u] = row],
         row.role = users[u].role,
         row.hash # NoPassword \/ row.hash = users[u].hash,
         row.active = users[u].active \/ u \notin EnabledAdmins \/ row.active = TRUE
           \/ (\E a \in EnabledAdmins : a # u),
         row.failed >= MaxFailed => row.locked # "no",
         streak' = [streak EXCEPT ![u] = row.failed],
         codes' \subseteq codes,
         logged' \subseteq Sessions, \A s \in logged' : s.user \in DOMAIN users
  PROVE  IdentityIInv'
  <1>1. IdentityTypeOK
    BY DEF IdentityIInv
  <1>2. users["admin"].hash # NoPassword
    BY <1>1, CallTypes, Acting
  <1>3. call' \in [Calls -> CallStates] /\ CallsRight'
    BY CallEnds
  <1>4. /\ tenantOn' \subseteq Tenants /\ single' \in BOOLEAN /\ calls' \in 0..MaxCalls
        /\ codes' \subseteq ActivationCodes /\ u \in Names
    BY <1>1 DEF IdentityTypeOK
  <1>5. /\ streak' \in [Names -> Nat] /\ streak'[u] = row.failed
        /\ \A v \in Names : v # u => streak'[v] = streak[v]
    <2>1. row.failed \in Nat
      BY DEF UserRow
    <2>. QED
      BY <1>1, <1>4, <2>1 DEF IdentityTypeOK
  <1>. QED
    BY <1>2, <1>3, <1>4, <1>5, AccountWritten

LEMMA ActivateUserKeeps ==
  ASSUME IdentityIInv, NEW c \in Calls, ActivateUser(c)
  PROVE  IdentityIInv'
  <1>1. IdentityTypeOK /\ call[c].op = "activate" /\ FinishCall(c)
        /\ UNCHANGED <<tenantOn, logged, single, calls>>
    BY DEF IdentityIInv, ActivateUser
  <1>2. call[c].new \in Secrets
    BY <1>1, CallTypes DEF ActivateCalls
  <1>3. PICK k : k = call[c].code
    OBVIOUS
  <1>4. CASE k \in codes /\ Activates(k.user)
    <2>1. PICK u : u = k.user
      OBVIOUS
    <2>2. u \in DOMAIN users /\ users[u] \in UserRow
      BY <1>1, <1>4, <2>1 DEF IdentityTypeOK, Activates, UserExists
    <2>3. PICK row : row = NewPassword(users[u], call[c].new)
      OBVIOUS
    <2>4. /\ row \in UserRow /\ row.failed = 0 /\ row.role = users[u].role
          /\ row.active = users[u].active /\ row.hash \in Secrets
      BY <1>2, <2>2, <2>3, NewPasswordRow
    <2>5. /\ users' = [users EXCEPT ![u] = row] /\ codes' = codes \ {k}
          /\ streak' = [streak EXCEPT ![u] = row.failed]
      BY <1>3, <1>4, <2>1, <2>3, <2>4 DEF ActivateUser, ResetStreak
    <2>6. row.hash # NoPassword /\ ~(row.failed >= MaxFailed)
      BY <2>4, IdentityAssumption
    <2>7. logged' \subseteq Sessions /\ \A s \in logged' : s.user \in DOMAIN users
      BY <1>1 DEF IdentityTypeOK
    <2>8. codes' \subseteq codes
      BY <2>5
    <2>. QED
      BY <1>1, <2>2, <2>4, <2>5, <2>6, <2>7, <2>8, RequestWrites
  <1>5. CASE ~(k \in codes /\ Activates(k.user))
    <2>1. UNCHANGED <<users, codes, streak>>
      BY <1>3, <1>5 DEF ActivateUser
    <2>2. codes' \subseteq ActivationCodes /\ logged' \subseteq logged
      BY <1>1, <2>1 DEF IdentityTypeOK
    <2>. QED
      BY <1>1, <2>1, <2>2, NothingWritten
  <1>. QED
    BY <1>4, <1>5

LEMMA LoginsKeep ==
  ASSUME IdentityIInv, NEW c \in Calls, RecordLoginFailure(c) \/ LoginSucceeded(c)
  PROVE  IdentityIInv'
  <1>1. IdentityTypeOK /\ call[c].op \in {"wrong", "login"} /\ FinishCall(c) /\ Counted
        /\ UNCHANGED <<tenantOn, codes, single, calls>>
    BY DEF IdentityIInv, RecordLoginFailure, LoginSucceeded
  <1>2. PICK u : u = call[c].user
    OBVIOUS
  <1>3. u \in Names
    BY <1>1, <1>2, CallTypes DEF LoginCalls
  <1>4. CASE ~UserExists(u)
    <2>1. UNCHANGED <<users, streak, logged>>
      BY <1>2, <1>4 DEF RecordLoginFailure, LoginSucceeded
    <2>2. codes' \subseteq ActivationCodes /\ logged' \subseteq logged
      BY <1>1, <2>1 DEF IdentityTypeOK
    <2>. QED
      BY <1>1, <2>1, <2>2, NothingWritten
  <1>5. CASE UserExists(u) /\ RecordLoginFailure(c)
    <2>1. u \in DOMAIN users /\ users[u] \in UserRow /\ users[u].failed \in Nat
      BY <1>1, <1>5 DEF IdentityTypeOK, UserExists, UserRow
    <2>2. PICK n : n = users[u].failed + 1
      OBVIOUS
    <2>3. PICK row : row = AfterFailure(users[u], n)
      OBVIOUS
    <2>4. /\ row \in UserRow /\ row.failed = n /\ (n >= MaxFailed => row.locked = "until")
          /\ row.role = users[u].role /\ row.active = users[u].active /\ row.hash = users[u].hash
      <3>1. PICK now : now = IF n >= MaxFailed THEN "until" ELSE users[u].locked
        OBVIOUS
      <3>2. row = [users[u] EXCEPT !.failed = n, !.locked = now]
        BY <2>3, <3>1 DEF AfterFailure
      <3>3. users[u].locked \in {"no", "until", "over"} /\ n \in Nat
        BY <2>1, <2>2 DEF UserRow
      <3>4. now \in {"no", "until", "over"} /\ (n >= MaxFailed => now = "until")
        BY <3>1, <3>3
      <3>. QED
        BY <2>1, <3>2, <3>3, <3>4 DEF UserRow
    <2>5. users' = [users EXCEPT ![u] = row] /\ UNCHANGED logged
      BY <1>2, <1>5, <2>2, <2>3 DEF RecordLoginFailure, CountAfter
    <2>6. streak' = [streak EXCEPT ![u] = row.failed]
      <3>1. streak' = [streak EXCEPT ![u] = streak[u] + 1]
        BY <1>2, <1>5 DEF RecordLoginFailure
      <3>2. streak[u] = users[u].failed
        BY <1>1, <1>3, <2>1 DEF Counted
      <3>. QED
        BY <2>2, <2>4, <3>1, <3>2
    <2>7. logged' \subseteq Sessions /\ \A s \in logged' : s.user \in DOMAIN users
      BY <1>1, <2>5 DEF IdentityTypeOK
    <2>. QED
      BY <1>1, <2>1, <2>4, <2>5, <2>6, <2>7, RequestWrites
  <1>6. CASE UserExists(u) /\ LoginSucceeded(c)
    <2>1. u \in DOMAIN users /\ users[u] \in UserRow
      BY <1>1, <1>6 DEF IdentityTypeOK, UserExists
    <2>2. PICK row : row = Unlocked(users[u])
      OBVIOUS
    <2>3. /\ row \in UserRow /\ row.failed = 0
          /\ row.role = users[u].role /\ row.active = users[u].active /\ row.hash = users[u].hash
      BY <2>1, <2>2, UnlockedRow
    <2>4. users' = [users EXCEPT ![u] = row] /\ streak' = [streak EXCEPT ![u] = row.failed]
      BY <1>2, <1>6, <2>2, <2>3 DEF LoginSucceeded, ResetStreak
    <2>5. PICK n \in 1..MaxSessions_ : logged' \subseteq logged \cup {[user |-> u, n |-> n]}
      BY <1>2, <1>6 DEF LoginSucceeded, RevokeUserSessions
    <2>6. [user |-> u, n |-> n] \in Sessions /\ [user |-> u, n |-> n].user = u
      BY <1>3 DEF Sessions
    <2>7. logged' \subseteq Sessions /\ \A s \in logged' : s.user \in DOMAIN users
      BY <1>1, <2>1, <2>5, <2>6 DEF IdentityTypeOK
    <2>8. ~(row.failed >= MaxFailed)
      BY <2>3, IdentityAssumption
    <2>. QED
      BY <1>1, <2>1, <2>3, <2>4, <2>7, <2>8, RequestWrites
  <1>. QED
    BY <1>4, <1>5, <1>6

LEMMA ChangePasswordKeeps ==
  ASSUME IdentityIInv, NEW c \in Calls, ChangePassword(c)
  PROVE  IdentityIInv'
  <1>1. IdentityTypeOK /\ call[c].op = "change" /\ FinishCall(c)
        /\ UNCHANGED <<tenantOn, codes, single, calls>>
    BY DEF IdentityIInv, ChangePassword
  <1>2. PICK u : u = call[c].user
    OBVIOUS
  <1>3. u \in Names /\ call[c].new \in Secrets
    BY <1>1, <1>2, CallTypes DEF ChangeCalls
  <1>4. CASE ~UserExists(u)
    <2>1. UNCHANGED <<users, streak, logged>>
      BY <1>2, <1>4 DEF ChangePassword
    <2>2. codes' \subseteq ActivationCodes /\ logged' \subseteq logged
      BY <1>1, <2>1 DEF IdentityTypeOK
    <2>. QED
      BY <1>1, <2>1, <2>2, NothingWritten
  <1>5. CASE UserExists(u)
    <2>1. u \in DOMAIN users /\ users[u] \in UserRow
      BY <1>1, <1>5 DEF IdentityTypeOK, UserExists
    <2>2. PICK row : row = NewPassword(users[u], call[c].new)
      OBVIOUS
    <2>3. /\ row \in UserRow /\ row.failed = 0 /\ row.role = users[u].role
          /\ row.active = users[u].active /\ row.hash \in Secrets
      BY <1>3, <2>1, <2>2, NewPasswordRow
    <2>4. users' = [users EXCEPT ![u] = row] /\ streak' = [streak EXCEPT ![u] = row.failed]
      BY <1>2, <1>5, <2>2, <2>3 DEF ChangePassword, ResetStreak
    <2>5. logged' \subseteq logged
      BY <1>2, <1>5 DEF ChangePassword, RevokeUserSessions
    <2>6. logged' \subseteq Sessions /\ \A s \in logged' : s.user \in DOMAIN users
      BY <1>1, <2>5 DEF IdentityTypeOK
    <2>7. row.hash # NoPassword /\ ~(row.failed >= MaxFailed)
      BY <2>3, IdentityAssumption
    <2>. QED
      BY <1>1, <2>1, <2>3, <2>4, <2>6, <2>7, RequestWrites
  <1>. QED
    BY <1>4, <1>5

LEMMA DeleteUserKeeps ==
  ASSUME IdentityIInv, NEW c \in Calls, call[c].op = "delete", FinishCall(c),
         NEW u \in DOMAIN users, u = call[c].user, DeleteUserAndRevoke(u),
         UNCHANGED <<tenantOn, single, calls>>
  PROVE  IdentityIInv'
  <1>1. IdentityTypeOK /\ CallsRight /\ Counted /\ AdminKept
    BY DEF IdentityIInv
  <1>2. u # "admin" /\ u \in Names
    BY <1>1 DEF CallsRight, IdentityTypeOK
  <1>3. "admin" \in DOMAIN users /\ users["admin"].hash # NoPassword /\ EnabledAdmins # {}
    BY <1>1, CallTypes, Acting
  <1>4. CASE users[u].role = "system_admin" /\ users[u].active /\ Cardinality(EnabledAdmins) <= 1
    <2>1. UNCHANGED <<users, logged, streak, codes>>
      BY <1>4 DEF DeleteUserAndRevoke
    <2>2. codes' \subseteq ActivationCodes /\ logged' \subseteq logged
      BY <1>1, <2>1 DEF IdentityTypeOK
    <2>. QED
      BY <2>1, <2>2, NothingWritten
  <1>5. CASE ~(users[u].role = "system_admin" /\ users[u].active /\ Cardinality(EnabledAdmins) <= 1)
    <2>1. /\ users' = [v \in DOMAIN users \ {u} |-> users[v]]
          /\ logged' = {s \in logged : s.user # u}
          /\ codes' = {k \in codes : k.user # u}
          /\ streak' = [streak EXCEPT ![u] = 0]
      BY <1>5 DEF DeleteUserAndRevoke, Without, RevokeUserSessions, ResetStreak
    <2>2. /\ DOMAIN users' = DOMAIN users \ {u}
          /\ \A v \in DOMAIN users' : users'[v] = users[v] /\ users'[v] \in UserRow
          /\ users' = [v \in DOMAIN users' |-> users'[v]]
      BY <1>1, <2>1 DEF IdentityTypeOK
    <2>3. users' \in [DOMAIN users' -> UserRow]
      BY <2>2
    <2>4. call' \in [Calls -> CallStates] /\ CallsRight'
      BY CallEnds
    <2>5. IdentityTypeOK'
      <3>1. DOMAIN users' \subseteq Names /\ streak' \in [Names -> Nat]
        BY <1>1, <2>1, <2>2 DEF IdentityTypeOK
      <3>2. logged' \subseteq Sessions /\ (\A s \in logged' : s.user \in DOMAIN users') /\ codes' \subseteq ActivationCodes
        BY <1>1, <2>1, <2>2 DEF IdentityTypeOK
      <3>. QED
        BY <1>1, <2>3, <2>4, <3>1, <3>2 DEF IdentityTypeOK, CallStates
    <2>6. Counted'
      <3>1. \A v \in Names : streak'[v] = IF v = u THEN 0 ELSE streak[v]
        BY <1>1, <2>1 DEF IdentityTypeOK
      <3>. QED
        BY <1>1, <2>2, <3>1 DEF Counted
    <2>7. PICK a \in EnabledAdmins : a # u
      <3>1. CASE users[u].role = "system_admin" /\ users[u].active
        BY <1>5, <3>1, AnotherAdmin
      <3>2. CASE ~(users[u].role = "system_admin" /\ users[u].active)
        BY <1>3, <3>2 DEF EnabledAdmins
      <3>. QED
        BY <3>1, <3>2
    <2>8. a \in EnabledAdmins'
      BY <2>2, <2>7 DEF EnabledAdmins
    <2>9. AdminKept'
      BY <1>2, <1>3, <2>2, <2>8 DEF AdminKept
    <2>. QED
      BY <2>4, <2>5, <2>6, <2>9 DEF IdentityIInv
  <1>. QED
    BY <1>4, <1>5

LEMMA UserTransactionKeeps ==
  ASSUME IdentityIInv, NEW c \in Calls, UserTransaction(c)
  PROVE  IdentityIInv'
  <1>1. IdentityTypeOK /\ CallsRight /\ Counted /\ call[c].op \in UserOps /\ FinishCall(c)
        /\ UNCHANGED <<tenantOn, single, calls>>
    BY DEF IdentityIInv, UserTransaction, UserOps
  <1>2. call[c].op # "idle"
    BY <1>1 DEF UserOps
  <1>3. PICK u : u = call[c].user
    OBVIOUS
  <1>4. u \in Names
    BY <1>1, <1>3, CallTypes DEF UserCalls
  <1>5. CASE UNCHANGED <<users, streak>> /\ logged' \subseteq logged /\ codes' \subseteq ActivationCodes
    BY <1>1, <1>2, <1>5, NothingWritten
  <1>6. CASE ~UserExists(u)
    <2>1. UNCHANGED <<users, logged, streak, codes>>
      BY <1>3, <1>6 DEF UserTransaction
    <2>. QED
      BY <1>1, <1>5, <2>1 DEF IdentityTypeOK
  <1>7. CASE UserExists(u)
    <2>1. u \in DOMAIN users /\ users[u] \in UserRow /\ streak = [streak EXCEPT ![u] = users[u].failed]
      BY <1>1, <1>4, <1>7 DEF IdentityTypeOK, UserExists, Counted
    <2>2. RevokeUserSessions(u) \subseteq logged
      BY DEF RevokeUserSessions
    <2>3. logged \subseteq Sessions /\ (\A s \in logged : s.user \in DOMAIN users) /\ codes \subseteq ActivationCodes
      BY <1>1 DEF IdentityTypeOK
    <2>4. users[u].failed >= MaxFailed => users[u].locked # "no"
      BY <1>1, <2>1 DEF Counted
    <2>5. CASE call[c].op \in {"disable", "enable"}
      <3>1. PICK on : on = (call[c].op = "enable")
        OBVIOUS
      <3>2. SetUserStatusAndRevoke(u, on) /\ on \in BOOLEAN
        BY <1>3, <1>7, <2>5, <3>1 DEF UserTransaction, UserOps
      <3>3. CASE users[u].role = "system_admin" /\ ~on /\ Cardinality(EnabledAdmins) <= 1
        BY <1>5, <2>3, <3>2, <3>3 DEF SetUserStatusAndRevoke
      <3>4. CASE ~(users[u].role = "system_admin" /\ ~on /\ Cardinality(EnabledAdmins) <= 1)
        <4>1. PICK row : row = [users[u] EXCEPT !.active = on]
          OBVIOUS
        <4>2. /\ row \in UserRow /\ row.role = users[u].role /\ row.hash = users[u].hash
              /\ row.failed = users[u].failed /\ row.locked = users[u].locked /\ row.active = on
          BY <2>1, <3>2, <4>1 DEF UserRow
        <4>3. /\ users' = [users EXCEPT ![u] = row] /\ logged' = RevokeUserSessions(u)
              /\ UNCHANGED <<streak, codes>>
          BY <3>2, <3>4, <4>1 DEF SetUserStatusAndRevoke
        <4>4. u \notin EnabledAdmins \/ row.active = TRUE \/ (\E a \in EnabledAdmins : a # u)
          <5>1. CASE on
            BY <4>2, <5>1
          <5>2. CASE ~on /\ u \in EnabledAdmins
            <6>1. users[u].role = "system_admin"
              BY <5>2 DEF EnabledAdmins
            <6>2. ~(Cardinality(EnabledAdmins) <= 1)
              BY <3>4, <5>2, <6>1
            <6>. QED
              BY <6>2, AnotherAdmin
          <5>. QED
            BY <5>1, <5>2
        <4>5. /\ streak' = [streak EXCEPT ![u] = row.failed] /\ codes' \subseteq codes
              /\ logged' \subseteq Sessions /\ \A s \in logged' : s.user \in DOMAIN users
          BY <2>1, <2>2, <2>3, <4>2, <4>3
        <4>6. row.failed >= MaxFailed => row.locked # "no"
          BY <2>4, <4>2
        <4>. QED
          BY <1>1, <1>2, <2>1, <4>2, <4>3, <4>4, <4>5, <4>6, RequestWrites
      <3>. QED
        BY <3>3, <3>4
    <2>6. CASE call[c].op = "delete"
      <3>1. DeleteUserAndRevoke(u)
        BY <1>3, <1>7, <2>6 DEF UserTransaction, UserOps
      <3>. QED
        BY <1>1, <1>3, <2>1, <2>6, <3>1, DeleteUserKeeps
    <2>7. CASE call[c].op = "reset"
      <3>1. PICK p \in Secrets : p = call[c].new
        BY <1>1, <2>7 DEF CallsRight
      <3>2. PICK row : row = [users[u] EXCEPT !.hash = p]
        OBVIOUS
      <3>3. /\ row \in UserRow /\ row.role = users[u].role /\ row.hash = p
            /\ row.failed = users[u].failed /\ row.locked = users[u].locked
            /\ row.active = users[u].active
        BY <2>1, <3>2 DEF UserRow
      <3>4. /\ users' = [users EXCEPT ![u] = row] /\ logged' = RevokeUserSessions(u)
            /\ UNCHANGED <<streak, codes>>
        BY <1>3, <1>7, <2>7, <3>1, <3>2 DEF UserTransaction, SetUserPasswordAndRevoke, UserOps
      <3>5. /\ streak' = [streak EXCEPT ![u] = row.failed] /\ codes' \subseteq codes
            /\ logged' \subseteq Sessions /\ \A s \in logged' : s.user \in DOMAIN users
        BY <2>1, <2>2, <2>3, <3>3, <3>4
      <3>6. (row.failed >= MaxFailed => row.locked # "no") /\ row.hash # NoPassword
        BY <2>4, <3>3, IdentityAssumption
      <3>. QED
        BY <1>1, <1>2, <2>1, <3>3, <3>4, <3>5, <3>6, RequestWrites
    <2>8. CASE call[c].op = "unlock"
      <3>1. PICK row : row = Unlocked(users[u])
        OBVIOUS
      <3>2. /\ row \in UserRow /\ row.failed = 0
            /\ row.role = users[u].role /\ row.active = users[u].active /\ row.hash = users[u].hash
        BY <2>1, <3>1, UnlockedRow
      <3>3. /\ users' = [users EXCEPT ![u] = row] /\ streak' = [streak EXCEPT ![u] = row.failed]
            /\ UNCHANGED <<logged, codes>>
        BY <1>3, <1>7, <2>8, <3>1, <3>2 DEF UserTransaction, UnlockRow, ResetStreak, UserOps
      <3>4. codes' \subseteq codes /\ logged' \subseteq Sessions /\ \A s \in logged' : s.user \in DOMAIN users
        BY <2>3, <3>3
      <3>5. ~(row.failed >= MaxFailed)
        BY <3>2, IdentityAssumption
      <3>. QED
        BY <1>1, <1>2, <2>1, <3>2, <3>3, <3>4, <3>5, RequestWrites
    <2>9. CASE call[c].op = "force"
      <3>1. PICK row : row = [users[u] EXCEPT !.must = TRUE]
        OBVIOUS
      <3>2. /\ row \in UserRow /\ row.role = users[u].role /\ row.hash = users[u].hash
            /\ row.failed = users[u].failed /\ row.locked = users[u].locked
            /\ row.active = users[u].active
        BY <2>1, <3>1 DEF UserRow
      <3>3. users' = [users EXCEPT ![u] = row] /\ UNCHANGED <<logged, streak, codes>>
        BY <1>3, <1>7, <2>9, <3>1 DEF UserTransaction, RequirePasswordChange, UserOps
      <3>4. /\ streak' = [streak EXCEPT ![u] = row.failed] /\ codes' \subseteq codes
            /\ logged' \subseteq Sessions /\ \A s \in logged' : s.user \in DOMAIN users
        BY <2>1, <2>3, <3>2, <3>3
      <3>5. row.failed >= MaxFailed => row.locked # "no"
        BY <2>4, <3>2
      <3>. QED
        BY <1>1, <1>2, <2>1, <3>2, <3>3, <3>4, <3>5, RequestWrites
    <2>10. CASE call[c].op = "logout"
      <3>1. UNCHANGED <<users, streak, codes>> /\ logged' = RevokeUserSessions(u)
        BY <1>3, <1>7, <2>10 DEF UserTransaction, RevokeSessionsOnly, UserOps
      <3>. QED
        BY <1>5, <2>2, <2>3, <3>1
    <2>11. CASE call[c].op = "regenerate"
      <3>1. /\ UNCHANGED <<users, streak, logged>>
            /\ codes' = {k \in codes : k.user # u} \cup {NewCode(u)}
        BY <1>3, <1>7, <2>11 DEF UserTransaction, ReplaceActivationToken, UserOps
      <3>2. NewCode(u) \in ActivationCodes
        BY <1>4 DEF NewCode, ActivationCodes
      <3>3. codes' \subseteq ActivationCodes
        BY <2>3, <3>1, <3>2
      <3>. QED
        BY <1>5, <3>1, <3>3
    <2>. QED
      BY <1>1, <2>5, <2>6, <2>7, <2>8, <2>9, <2>10, <2>11 DEF UserOps
  <1>. QED
    BY <1>6, <1>7

LEMMA CreateUserKeeps ==
  ASSUME IdentityIInv, NEW s \in logged, NEW u \in Names, NEW r \in Roles,
         NEW t \in Tenants \cup {NoTenant}, CreateUser(s, u, r, t)
  PROVE  IdentityIInv'
  <1>1. IdentityTypeOK /\ CallsRight /\ Counted
    BY DEF IdentityIInv
  <1>2. "admin" \in DOMAIN users /\ users["admin"].hash # NoPassword /\ EnabledAdmins # {}
    BY Acting
  <1>3. PICK row : row = [FirstAdmin EXCEPT !.role = r, !.tenant = t]
    OBVIOUS
  <1>4. row \in UserRow /\ row.failed = 0
    <2>1. <<>> \in Histories
      BY IdentityAssumption DEF Histories
    <2>. QED
      BY <1>3, <2>1 DEF FirstAdmin, UserRow, Roles
  <1>5. /\ users' = [v \in DOMAIN users \cup {u} |-> IF v = u THEN row ELSE users[v]]
        /\ codes' = codes \cup {NewCode(u)} /\ u \notin DOMAIN users
        /\ calls < MaxCalls /\ calls' = calls + 1
        /\ UNCHANGED <<tenantOn, logged, single, call, streak>>
    BY <1>3 DEF CreateUser, CreateUserWithActivation, UserExists
  <1>6. /\ DOMAIN users' = DOMAIN users \cup {u} /\ users'[u] = row
        /\ \A v \in DOMAIN users : users'[v] = users[v]
    BY <1>5
  <1>7. IdentityTypeOK'
    <2>1. users' \in [DOMAIN users' -> UserRow] /\ DOMAIN users' \subseteq Names
      BY <1>1, <1>4, <1>5, <1>6 DEF IdentityTypeOK
    <2>2. NewCode(u) \in ActivationCodes
      BY DEF NewCode, ActivationCodes
    <2>3. codes' \subseteq ActivationCodes /\ (\A q \in logged' : q.user \in DOMAIN users')
      BY <1>1, <1>5, <1>6, <2>2 DEF IdentityTypeOK
    <2>4. calls' \in 0..MaxCalls
      BY <1>1, <1>5, IdentityAssumption DEF IdentityTypeOK
    <2>. QED
      BY <1>1, <1>5, <2>1, <2>3, <2>4 DEF IdentityTypeOK
  <1>8. Counted'
    <2>1. \A v \in Names : streak'[v] = IF v \in DOMAIN users' THEN users'[v].failed ELSE 0
      BY <1>1, <1>4, <1>5, <1>6 DEF Counted
    <2>2. ~(row.failed >= MaxFailed)
      BY <1>4, IdentityAssumption
    <2>3. \A v \in DOMAIN users' : users'[v].failed >= MaxFailed => users'[v].locked # "no"
      BY <1>1, <1>6, <2>2 DEF Counted
    <2>. QED
      BY <2>1, <2>3 DEF Counted
  <1>9. CallsRight'
    BY <1>1, <1>5 DEF CallsRight
  <1>10. AdminKept'
    <2>1. PICK a \in EnabledAdmins : TRUE
      BY <1>2
    <2>2. a \in EnabledAdmins'
      BY <1>6, <2>1 DEF EnabledAdmins
    <2>. QED
      BY <1>2, <1>6, <2>2 DEF AdminKept
  <1>. QED
    BY <1>7, <1>8, <1>9, <1>10 DEF IdentityIInv

LEMMA LockoutOverKeeps ==
  ASSUME IdentityIInv, NEW u \in Names, LockoutOver(u)
  PROVE  IdentityIInv'
  <1>1. IdentityTypeOK /\ CallsRight /\ Counted
    BY DEF IdentityIInv
  <1>2. u \in DOMAIN users /\ users[u] \in UserRow /\ users[u].locked = "until"
    BY <1>1 DEF IdentityTypeOK, LockoutOver, UserExists
  <1>3. users["admin"].hash # NoPassword
    <2>1. users[u] # FirstAdmin
      BY <1>2 DEF FirstAdmin
    <2>. QED
      BY <1>2, <2>1, Acting
  <1>4. PICK row : row = [users[u] EXCEPT !.locked = "over"]
    OBVIOUS
  <1>5. /\ row \in UserRow /\ row.role = users[u].role /\ row.hash = users[u].hash
        /\ row.failed = users[u].failed /\ row.locked = "over" /\ row.active = users[u].active
    BY <1>2, <1>4 DEF UserRow
  <1>6. users' = [users EXCEPT ![u] = row] /\ UNCHANGED <<tenantOn, logged, codes, single, call, calls, streak>>
    BY <1>4 DEF LockoutOver
  <1>7. /\ call' \in [Calls -> CallStates] /\ CallsRight' /\ calls' \in 0..MaxCalls
        /\ tenantOn' \subseteq Tenants /\ single' \in BOOLEAN /\ codes' \subseteq ActivationCodes
        /\ logged' \subseteq Sessions /\ \A s \in logged' : s.user \in DOMAIN users
    BY <1>1, <1>6 DEF IdentityTypeOK, CallStates, CallsRight
  <1>8. /\ streak' \in [Names -> Nat] /\ streak'[u] = row.failed
        /\ \A v \in Names : v # u => streak'[v] = streak[v]
    BY <1>1, <1>2, <1>5, <1>6 DEF IdentityTypeOK, Counted
  <1>. QED
    BY <1>2, <1>3, <1>5, <1>6, <1>7, <1>8, AccountWritten

\* Sessions end, codes expire, tenants and settings are switched.
LEMMA SwitchesKeep ==
  ASSUME IdentityIInv,
         \/ \E s \in logged : \/ SessionEnds(s) \/ UpdateSecuritySettings(s)
                              \/ \E t \in Tenants, on \in BOOLEAN : SetTenantStatus(s, t, on)
         \/ \E k \in codes : CodeExpires(k)
  PROVE  IdentityIInv'
  <1>1. IdentityTypeOK /\ CallsRight
    BY DEF IdentityIInv
  <1>2. users["admin"].hash # NoPassword
    BY Acting
  <1>3. /\ UNCHANGED <<users, streak, call>> /\ logged' \subseteq logged /\ codes' \subseteq codes
        /\ calls' = calls \/ (calls < MaxCalls /\ calls' = calls + 1)
        /\ single' = single \/ single' = ~single
    BY DEF SessionEnds, UpdateSecuritySettings, SetTenantStatus, CodeExpires
  <1>4. tenantOn' \subseteq Tenants
    BY <1>1 DEF IdentityTypeOK, SessionEnds, UpdateSecuritySettings, SetTenantStatus, CodeExpires
  <1>5. calls' \in 0..MaxCalls
    BY <1>1, <1>3, IdentityAssumption DEF IdentityTypeOK
  <1>6. /\ call' \in [Calls -> CallStates] /\ CallsRight' /\ single' \in BOOLEAN
        /\ codes' \subseteq ActivationCodes
        /\ logged' \subseteq Sessions /\ \A s \in logged' : s.user \in DOMAIN users
    BY <1>1, <1>3 DEF IdentityTypeOK, CallStates, CallsRight
  <1>. QED
    BY <1>2, <1>3, <1>4, <1>5, <1>6, SameAccounts

LEMMA IdentityInitIInv == IdentityInit => IdentityIInv
  <1>1. SUFFICES ASSUME IdentityInit PROVE IdentityIInv
    OBVIOUS
  <1>2. FirstAdmin \in UserRow /\ FirstAdmin.failed = 0 /\ FirstAdmin.hash = NoPassword
    <2>1. <<>> \in Histories
      BY IdentityAssumption DEF Histories
    <2>. QED
      BY <2>1 DEF FirstAdmin, UserRow, Roles
  <1>3. NoCall.op = "idle"
    BY DEF NoCall
  <1>4. DOMAIN users = {"admin"} /\ users["admin"] = FirstAdmin
    BY <1>1 DEF IdentityInit
  <1>5. IdentityTypeOK
    BY <1>1, <1>2, <1>4, IdentityAssumption DEF IdentityInit, IdentityTypeOK
  <1>6. CallsRight /\ Untouched
    BY <1>1, <1>3 DEF IdentityInit, CallsRight, Untouched
  <1>7. Counted
    <2>1. ~(0 >= MaxFailed)
      BY IdentityAssumption
    <2>2. \A u \in Names : streak[u] = 0
      BY <1>1 DEF IdentityInit
    <2>. QED
      BY <1>2, <1>4, <2>1, <2>2 DEF Counted
  <1>. QED
    BY <1>2, <1>4, <1>5, <1>6, <1>7 DEF IdentityIInv, AdminKept

LEMMA IdentityNextIInv == IdentityIInv /\ [IdentityNext]_identityVars => IdentityIInv'
  <1>1. SUFFICES ASSUME IdentityIInv, [IdentityNext]_identityVars PROVE IdentityIInv'
    OBVIOUS
  <1>2. CASE UNCHANGED identityVars
    BY <1>1, <1>2 DEF identityVars, IdentityIInv, IdentityTypeOK, CallsRight, Counted, AdminKept,
          Untouched, EnabledAdmins
  <1>3. ASSUME NEW p \in Secrets, InitializeAdmin(p)
        PROVE  IdentityIInv'
    BY <1>1, <1>3, InitializeAdminKeeps
  <1>4. ASSUME NEW c \in Calls,
               \/ \E k \in codes, p \in Secrets : ActivateRead(c, k, p)
               \/ \E u \in Names, p \in Secrets : LoginRead(c, u, p)
               \/ \E s \in logged, p \in Secrets : ChangeRead(c, s, p)
               \/ \E s \in logged, u \in Names : UserRequests(c, s, u)
        PROVE  IdentityIInv'
    BY <1>1, <1>4, ReadsKeep
  <1>5. ASSUME NEW c \in Calls,
               \/ ActivateUser(c) \/ RecordLoginFailure(c) \/ LoginSucceeded(c)
               \/ UserTransaction(c) \/ ChangePassword(c)
        PROVE  IdentityIInv'
    BY <1>1, <1>5, ActivateUserKeeps, LoginsKeep, UserTransactionKeeps, ChangePasswordKeeps
  <1>6. ASSUME NEW u \in Names, LockoutOver(u)
        PROVE  IdentityIInv'
    BY <1>1, <1>6, LockoutOverKeeps
  <1>7. ASSUME NEW s \in logged, NEW u \in Names, NEW r \in Roles, NEW t \in Tenants \cup {NoTenant},
               CreateUser(s, u, r, t)
        PROVE  IdentityIInv'
    BY <1>1, <1>7, CreateUserKeeps
  <1>8. CASE \/ \E s \in logged : \/ SessionEnds(s) \/ UpdateSecuritySettings(s)
                                  \/ \E t \in Tenants, on \in BOOLEAN : SetTenantStatus(s, t, on)
             \/ \E k \in codes : CodeExpires(k)
    BY <1>1, <1>8, SwitchesKeep
  <1>. QED
    BY <1>1, <1>2, <1>3, <1>4, <1>5, <1>6, <1>7, <1>8 DEF IdentityNext

(***************************************************************************)
(* Accounts, sessions, codes and requests under way keep their types: no   *)
(* session outlives its account and no password history grows beyond what  *)
(* is kept of it.                                                          *)
(***************************************************************************)
THEOREM IdentityTypeCorrect == IdentitySpec => []IdentityTypeOK
  <1>1. IdentityIInv => IdentityTypeOK
    BY DEF IdentityIInv
  <1>. QED
    BY IdentityInitIInv, IdentityNextIInv, <1>1, PTL DEF IdentitySpec

(***************************************************************************)
(* Whatever status changes, resets and deletions run against each other,   *)
(* an active system administrator with a password is left once there was   *)
(* one (SetUserStatusAndRevoke, DeleteUserAndRevoke).                      *)
(***************************************************************************)
THEOREM SomebodyAdministers == IdentitySpec => []AdminRemains
  <1>1. IdentityIInv => AdminRemains
    BY DEF IdentityIInv, AdminKept, EnabledAdmins, AdminRemains
  <1>. QED
    BY IdentityInitIInv, IdentityNextIInv, <1>1, PTL DEF IdentitySpec

(***************************************************************************)
(* MaxFailed recorded failures have locked the account, in whatever order  *)
(* the logins that run side by side read and write it (RecordLoginFailure).*)
(***************************************************************************)
THEOREM FailedLoginsLock == IdentitySpec => []FailuresLock
  <1>1. IdentityIInv => FailuresLock
    BY DEF IdentityIInv, IdentityTypeOK, Counted, FailuresLock
  <1>. QED
    BY IdentityInitIInv, IdentityNextIInv, <1>1, PTL DEF IdentitySpec

\* Only ActivateUser(c) ends an activation.
LEMMA ActivationEnds ==
  ASSUME IdentityIInv, IdentityNext, NEW c \in Calls, call[c].op = "activate", call'[c] = NoCall
  PROVE  ActivateUser(c)
  <1>1. call \in [Calls -> CallStates]
    BY DEF IdentityIInv, IdentityTypeOK, CallStates
  <1>2. call[c] # NoCall
    BY DEF NoCall
  <1>3. ASSUME NEW d \in Calls, FinishCall(d), d # c
        PROVE  FALSE
    BY <1>1, <1>2, <1>3 DEF FinishCall
  <1>4. ASSUME NEW d \in Calls, NEW rec, BeginCall(d, rec)
        PROVE  FALSE
    BY <1>1, <1>2, <1>4 DEF BeginCall
  <1>5. ~UNCHANGED call
    BY <1>2
  <1>6. ASSUME NEW d \in Calls,
               \/ \E k \in codes, p \in Secrets : ActivateRead(d, k, p)
               \/ \E u \in Names, p \in Secrets : LoginRead(d, u, p)
               \/ \E s \in logged, p \in Secrets : ChangeRead(d, s, p)
        PROVE  FALSE
    BY <1>4, <1>6 DEF ActivateRead, LoginRead, ChangeRead
  <1>7. ASSUME NEW d \in Calls, NEW s \in logged, NEW u \in Names, UserRequests(d, s, u)
        PROVE  FALSE
    BY <1>4, <1>7 DEF UserRequests, SetUserStatus, ResetPassword, UnlockUser, ForceLogout,
          ForcePasswordChange, RegenerateActivation, DeleteUser, UserRequest
  <1>8. ASSUME NEW d \in Calls,
               \/ ActivateUser(d) \/ RecordLoginFailure(d) \/ LoginSucceeded(d)
               \/ UserTransaction(d) \/ ChangePassword(d)
        PROVE  ActivateUser(c)
    <2>1. FinishCall(d)
      BY <1>8 DEF ActivateUser, RecordLoginFailure, LoginSucceeded, UserTransaction, ChangePassword
    <2>2. d = c
      BY <1>3, <2>1
    <2>3. ~(RecordLoginFailure(c) \/ LoginSucceeded(c) \/ UserTransaction(c) \/ ChangePassword(c))
      BY DEF RecordLoginFailure, LoginSucceeded, UserTransaction, ChangePassword, UserOps
    <2>. QED
      BY <1>8, <2>2, <2>3
  <1>9. CASE \/ \E p \in Secrets : InitializeAdmin(p)
             \/ \E u \in Names : LockoutOver(u)
             \/ \E s \in logged : \/ SessionEnds(s) \/ UpdateSecuritySettings(s)
                                  \/ \E t \in Tenants, on \in BOOLEAN : SetTenantStatus(s, t, on)
                                  \/ \E u \in Names, r \in Roles, t \in Tenants \cup {NoTenant} : CreateUser(s, u, r, t)
             \/ \E k \in codes : CodeExpires(k)
    BY <1>5, <1>9 DEF InitializeAdmin, LockoutOver, SessionEnds, UpdateSecuritySettings,
          SetTenantStatus, CreateUser, CodeExpires
  <1>. QED
    BY <1>6, <1>7, <1>8, <1>9 DEF IdentityNext

(***************************************************************************)
(* An activation code sets a first password and never replaces one, also   *)
(* when the account has got its password while the code was in use         *)
(* (ActivateUser).                                                         *)
(***************************************************************************)
THEOREM CodesKeepPasswords == IdentitySpec => CodeSetsFirstPassword
  <1>1. IdentityIInv /\ [IdentityNext]_identityVars =>
          [\A c \in Calls : call[c].op = "activate" /\ call'[c] = NoCall =>
             \A u \in DOMAIN users : users[u].hash # NoPassword => users'[u].hash = users[u].hash]_identityVars
    <2>1. SUFFICES ASSUME IdentityIInv, IdentityNext, NEW c \in Calls, call[c].op = "activate",
                          call'[c] = NoCall, NEW u \in DOMAIN users, users[u].hash # NoPassword
                   PROVE  users'[u].hash = users[u].hash
      OBVIOUS
    <2>2. ActivateUser(c)
      BY <2>1, ActivationEnds
    <2>3. PICK k : k = call[c].code
      OBVIOUS
    <2>4. CASE k \in codes /\ Activates(k.user)
      <3>1. PICK row : row = NewPassword(users[k.user], call[c].new)
        OBVIOUS
      <3>2. users' = [users EXCEPT ![k.user] = row]
        BY <2>2, <2>3, <2>4, <3>1 DEF ActivateUser
      <3>3. u # k.user
        BY <2>1, <2>4 DEF Activates
      <3>. QED
        BY <3>2, <3>3
    <2>5. CASE ~(k \in codes /\ Activates(k.user))
      BY <2>2, <2>3, <2>5 DEF ActivateUser
    <2>. QED
      BY <2>4, <2>5
  <1>. QED
    BY <1>1, IdentityInitIInv, IdentityNextIInv, PTL DEF IdentitySpec, CodeSetsFirstPassword

-----------------------------------------------------------------------------
(***************************************************************************)
(* The HTTP layer                                                          *)
(*                                                                         *)
(* An answer is true because of what the request has found out on its way: *)
(* the invariant says of a request that is served, and of one that is      *)
(* about to write, what has been checked for it.                           *)
(***************************************************************************)
WriteOf(r) == NewServer[kind][r.op].write

\* The body was taken, and a version is compared where there is a comparison.
ServingRight(r) ==
  /\ r.op \in DOMAIN NewServer[kind]
  /\ r.version > 0 => WriteOf(r) = "cas"
  /\ kind # "user" => r.whole = TRUE

WritingRight(r) ==
  /\ r.whole = TRUE
  /\ r.version > 0 => r.row.rev = r.version
  /\ WriteOf(r) = "insert" => r.who.role # "viewer"
  /\ WriteOf(r) \in {"cas", "byId", "erase"} => r.owner \in ApiOwners /\ AuthorizeOwner(r.who, r.owner)

AnswerRight(r) ==
  /\ r.status = 200 => r.effect # "none"
  /\ r.status # 200 /\ r.effect = "written" => kind = "group" /\ r.op \in {"create", "update"}
  /\ r.effect = "written" /\ r.version > 0 => r.over = r.version
  /\ r.effect = "written" => AuthorizeOwner(r.who, r.owner)

RequestRight(r) ==
  /\ r.pc \in {"serving", "writing"} => ServingRight(r)
  /\ r.pc = "writing" => WritingRight(r)
  /\ r.pc = "done" => AnswerRight(r)

ApiIInv ==
  /\ ApiTypeOK
  /\ \A o \in ApiOwners : apiRows[o].whole = TRUE
  /\ \A c \in Clients : RequestRight(apiCalls[c])

-----------------------------------------------------------------------------
\* What every handler of the server has: a way to write, no refusal that is a success, statuses of errors.
GoodHandler(h) ==
  /\ h.write \in {"insert", "cas", "byId", "erase", "nothing"}
  /\ "none" \notin h.refusals
  /\ \A e \in DOMAIN h.errors : h.errors[e] \in ErrorStatuses

LEMMA PolicyTable == \A o \in DOMAIN PolicyRoutes : GoodHandler(PolicyRoutes[o]) /\ o \in ApiOps
  BY SMTT(90) DEF PolicyRoutes, HandleCreatePolicy, HandleUpdatePolicy, HandleDeletePolicy, HandleRollbackPolicy,
        HandleValidatePolicyRego, MapCreatePolicyError, MapUpdatePolicyError, MapDeletePolicyError,
        MapRollbackPolicyError, Handler, GoodHandler, Typed, PolicyHTTPErrors, ErrorStatuses, ApiOps

LEMMA PolicyGroupTable ==
  \A o \in DOMAIN PolicyGroupRoutes :
    GoodHandler(PolicyGroupRoutes[o]) /\ o \in ApiOps /\ (PolicyGroupRoutes[o].write = "insert" => o = "create")
  BY SMTT(90) DEF PolicyGroupRoutes, HandleCreatePolicyGroup, HandleUpdatePolicyGroup, HandleSetPolicyGroupEnabled,
        HandleDeletePolicyGroup, Handler, GoodHandler, Typed, PolicyGroupHTTPErrors, ErrorStatuses, ApiOps

LEMMA ExceptionTable == \A o \in DOMAIN ExceptionRoutes : GoodHandler(ExceptionRoutes[o]) /\ o \in ApiOps
  BY SMTT(90) DEF ExceptionRoutes, HandleCreateException, HandleUpdateException, HandleDeleteException, Handler,
        GoodHandler, Typed, ExceptionHTTPErrors, ErrorStatuses, ApiOps

LEMMA DistributionTable == \A o \in DOMAIN DistributionRoutes : GoodHandler(DistributionRoutes[o]) /\ o \in ApiOps
  BY SMTT(90) DEF DistributionRoutes, HandleCreateDistribution, HandleUpdateDistribution, HandleDeleteDistribution,
        DistributionCreateError, DistributionUpdateError, DistributionDeleteError, Handler,
        GoodHandler, Typed, DistributionHTTPErrors, ErrorStatuses, ApiOps

LEMMA ClusterTable == \A o \in DOMAIN ClusterRoutes : GoodHandler(ClusterRoutes[o]) /\ o \in ApiOps
  BY SMTT(90) DEF ClusterRoutes, HandleCreateCluster, HandleUpdateCluster, HandleDeleteCluster,
        HandleReissueClusterToken, HandleCreateUninstallTask, HandleRetryUninstallTask,
        CreateClusterServiceError, UpdateClusterServiceError, DeleteClusterServiceError,
        ReissueClusterServiceError, CreateUninstallServiceError, RetryUninstallServiceError, Handler,
        GoodHandler, Typed, ClusterHTTPErrors, ClusterTaskHTTPErrors, ErrorStatuses, ApiOps

LEMMA SettingsTable ==
  /\ \A o \in DOMAIN AdmissionRoutes : GoodHandler(AdmissionRoutes[o]) /\ o \in ApiOps
  /\ \A o \in DOMAIN PlatformRoutes : GoodHandler(PlatformRoutes[o]) /\ o \in ApiOps
  BY DEF AdmissionRoutes, PlatformRoutes, HandleUpdateAdmissionEventSettings, HandleUpdatePlatformSettings,
        Handler, GoodHandler, Typed, AdmissionEventHTTPErrors, PlatformHTTPErrors, ErrorStatuses, ApiOps

LEMMA UserTable == \A o \in DOMAIN UserRoutes : GoodHandler(UserRoutes[o]) /\ o \in ApiOps
  BY DEF UserRoutes, HandleCreateUser, HandleSetUserStatus, HandleResetPassword, HandleRegenerateActivation,
        HandleUserAction, HandleDeleteUser, WriteIdentityError, Handler, GoodHandler, ErrorStatuses, ApiOps

LEMMA ServerTable ==
  ASSUME NEW k \in Kinds, NEW o \in DOMAIN NewServer[k]
  PROVE  /\ GoodHandler(NewServer[k][o]) /\ o \in ApiOps
         /\ k = "group" /\ NewServer[k][o].write = "insert" => o = "create"
  BY PolicyTable, PolicyGroupTable, ExceptionTable, DistributionTable, ClusterTable, SettingsTable, UserTable
     DEF Kinds, NewServer

-----------------------------------------------------------------------------
\* The values of a document are those the decoders tell apart.
LEMMA DocumentValues ==
  ASSUME NEW fields, NEW d \in Documents(fields), NEW f \in fields
  PROVE  d[f.path] \in FieldValues
  <1>1. \A e \in {Complete(fields), Minimal(fields)} : e \in [{g.path : g \in fields} -> FieldValues]
    BY DEF Complete, Minimal, FieldValues
  <1>2. \/ d \in {Complete(fields), Minimal(fields)}
        \/ \E e \in {Complete(fields), Minimal(fields)}, g \in fields, v \in FieldValues :
             d = [e EXCEPT ![g.path] = v]
    BY DEF Documents
  <1>3. d \in [{g.path : g \in fields} -> FieldValues]
    BY <1>1, <1>2
  <1>. QED
    BY <1>3

\* A body that DecodeJSON takes has every value it should have: this is where null is refused.
LEMMA TakenIsWhole ==
  ASSUME NEW fields, NEW d \in Documents(fields), DecodeJSON(fields, d)
  PROVE  Whole(fields, d)
  <1>1. SUFFICES ASSUME NEW f \in fields, Reached(fields, d, f)
                 PROVE  \/ d[f.path] = "ok"
                        \/ d[f.path] = "absent" /\ ~f.required
                        \/ d[f.path] = "beyond" /\ ~f.restricted
    BY DEF Whole
  <1>2. d[f.path] \in FieldValues
    BY DocumentValues
  <1>3. /\ d[f.path] # "absent" => DecodeNonNullJSON(d[f.path])
        /\ d[f.path] = "absent" => ~f.required
        /\ d[f.path] = "beyond" => ~f.restricted
    BY <1>1 DEF DecodeJSON
  <1>. QED
    BY <1>2, <1>3 DEF FieldValues, DecodeNonNullJSON

LEMMA BodiesRight ==
  ASSUME NEW k \in Kinds, NEW o \in DOMAIN NewServer[k], NEW b \in Bodies[k][o]
  PROVE  b.whole \in BOOLEAN /\ (k # "user" /\ b.taken => b.whole = TRUE)
  <1>1. b \in Decoded(k, o)
    BY DEF Bodies
  <1>2. PICK fields : fields = NewServer[k][o].body
    OBVIOUS
  <1>3. CASE fields = {}
    <2>1. b = [taken |-> TRUE, whole |-> TRUE]
      BY <1>1, <1>2, <1>3 DEF Decoded
    <2>. QED
      BY <2>1
  <1>4. CASE fields # {}
    <2>1. PICK d \in Documents(fields) :
            b = [taken |-> IF k = "user" THEN DecodeAuthJSON(fields, d) ELSE DecodeJSON(fields, d),
                 whole |-> Whole(fields, d)]
      BY <1>1, <1>2, <1>4 DEF Decoded
    <2>2. Whole(fields, d) \in BOOLEAN
      BY DEF Whole
    <2>3. k # "user" /\ b.taken => Whole(fields, d)
      BY <2>1, TakenIsWhole
    <2>. QED
      BY <2>1, <2>2, <2>3
  <1>. QED
    BY <1>3, <1>4

-----------------------------------------------------------------------------
LEMMA NoRequestType == NoRequest \in ApiRequests
  <1>1. (CHOOSE p \in Principals : p.role = "viewer") \in Principals
    <2>1. \E p \in Principals : p.role = "viewer"
      BY DEF Principals
    <2>. QED
      BY <2>1
  <1>2. NoApiRow \in ApiRowValues
    BY ApiAssumption DEF NoApiRow, ApiRowValues
  <1>. QED
    BY <1>1, <1>2, ApiAssumption DEF NoRequest, ApiRequests, ApiOps, ErrorStatuses

\* An answer keeps who asked for what and forgets the rest.
LEMMA AnswerFacts ==
  ASSUME ApiTypeOK, NEW c \in Clients, NEW s \in {200} \cup ErrorStatuses
  PROVE  /\ Answer(c, s) \in ApiRequests
         /\ Answer(c, s).pc = "done" /\ Answer(c, s).status = s
         /\ Answer(c, s).who = apiCalls[c].who /\ Answer(c, s).op = apiCalls[c].op
         /\ Answer(c, s).effect = "none"
  <1>1. apiCalls[c] \in ApiRequests
    BY DEF ApiTypeOK
  <1>2. NoRequest \in ApiRequests /\ NoRequest.effect = "none"
    BY NoRequestType DEF NoRequest
  <1>. QED
    BY <1>1, <1>2, ZenonT(60) DEF Answer, ApiRequests

LEMMA RespondFacts ==
  ASSUME ApiTypeOK, NEW c \in Clients, apiCalls[c].op \in DOMAIN NewServer[kind], NEW e
  PROVE  \E s \in {200} \cup ErrorStatuses : Respond(c, e) = Answer(c, s) /\ (s = 200 <=> e = "none")
  <1>1. GoodHandler(Route(c))
    BY ServerTable DEF ApiTypeOK, Route
  <1>2. Status(Route(c).errors, e) \in {200} \cup ErrorStatuses
    BY <1>1 DEF Status, GoodHandler, ErrorStatuses
  <1>3. Status(Route(c).errors, e) = 200 <=> e = "none"
    BY <1>1 DEF Status, GoodHandler, ErrorStatuses
  <1>. QED
    BY <1>2, <1>3 DEF Respond

\* A step of one request that writes nothing keeps the invariant when the request stays right.
LEMMA CallStep ==
  ASSUME ApiIInv, NEW c \in Clients, NEW r \in ApiRequests, RequestRight(r),
         apiCalls' = [apiCalls EXCEPT ![c] = r], UNCHANGED <<kind, apiRows, apiClock>>
  PROVE  ApiIInv'
  <1>1. ApiTypeOK'
    BY DEF ApiIInv, ApiTypeOK
  <1>2. ASSUME NEW q \in ApiRequests
        PROVE  RequestRight(q) <=> RequestRight(q)'
    BY DEF RequestRight, ServingRight, WritingRight, AnswerRight, WriteOf, AuthorizeOwner
  <1>3. ASSUME NEW d \in Clients
        PROVE  RequestRight(apiCalls[d])'
    <2>1. PICK q : q = apiCalls'[d]
      OBVIOUS
    <2>2. q \in ApiRequests /\ RequestRight(q)
      BY <2>1 DEF ApiIInv, ApiTypeOK
    <2>3. RequestRight(q)'
      BY <2>2, <1>2
    <2>. QED
      BY <2>1, <2>3
  <1>. QED
    BY <1>1, <1>3 DEF ApiIInv

\* A step that writes one row and answers the request.
LEMMA WrittenStep ==
  ASSUME ApiIInv, NEW c \in Clients, NEW owner \in ApiOwners, NEW row \in ApiRowValues, NEW e,
         row.whole = TRUE, Written(c, owner, row, e), apiClock < MaxRevisions, UNCHANGED kind,
         apiCalls[c].op \in DOMAIN NewServer[kind],
         AuthorizeOwner(apiCalls[c].who, owner),
         e # "none" => kind = "group" /\ apiCalls[c].op \in {"create", "update"},
         apiCalls[c].version > 0 => apiRows[owner].rev = apiCalls[c].version
  PROVE  ApiIInv'
  <1>1. ApiTypeOK
    BY DEF ApiIInv
  <1>2. PICK s \in {200} \cup ErrorStatuses : Respond(c, e) = Answer(c, s) /\ (s = 200 <=> e = "none")
    BY <1>1, RespondFacts
  <1>3. PICK a : a = Answer(c, s)
    OBVIOUS
  <1>4. /\ a \in ApiRequests /\ a.pc = "done" /\ a.status = s
        /\ a.who = apiCalls[c].who /\ a.op = apiCalls[c].op
    BY <1>1, <1>3, AnswerFacts
  <1>5. PICK version, over : version = apiCalls[c].version /\ over = apiRows[owner].rev
    OBVIOUS
  <1>6. version \in 0..MaxRevisions /\ over \in 0..MaxRevisions
    BY <1>1, <1>5 DEF ApiTypeOK, ApiRequests, ApiRowValues
  <1>7. PICK r : r = [a EXCEPT !.effect = "written", !.owner = owner, !.version = version, !.over = over]
    OBVIOUS
  <1>8. /\ r \in ApiRequests /\ r.pc = "done" /\ r.status = s /\ r.who = apiCalls[c].who
        /\ r.op = apiCalls[c].op /\ r.effect = "written" /\ r.owner = owner /\ r.version = version /\ r.over = over
    BY <1>4, <1>6, <1>7, ZenonT(60) DEF ApiRequests
  <1>9. RequestRight(r)
    BY <1>2, <1>5, <1>8 DEF RequestRight, AnswerRight
  <1>10. /\ apiCalls' = [apiCalls EXCEPT ![c] = r]
         /\ apiRows' = [apiRows EXCEPT ![owner] = row] /\ apiClock' = apiClock + 1
    BY <1>2, <1>3, <1>5, <1>7 DEF Written
  <1>11. ApiTypeOK'
    BY <1>1, <1>8, <1>10, ApiAssumption DEF ApiTypeOK
  <1>12. \A o \in ApiOwners : (apiRows[o].whole = TRUE)'
    BY <1>1, <1>10 DEF ApiIInv, ApiTypeOK
  <1>13. ASSUME NEW q \in ApiRequests
         PROVE  RequestRight(q) <=> RequestRight(q)'
    BY DEF RequestRight, ServingRight, WritingRight, AnswerRight, WriteOf, AuthorizeOwner
  <1>14. ASSUME NEW d \in Clients
         PROVE  RequestRight(apiCalls[d])'
    <2>1. PICK q : q = apiCalls'[d]
      OBVIOUS
    <2>2. q \in ApiRequests /\ RequestRight(q)
      BY <2>1, <1>1, <1>8, <1>9, <1>10 DEF ApiIInv, ApiTypeOK
    <2>3. RequestRight(q)'
      BY <2>2, <1>13
    <2>. QED
      BY <2>1, <2>3
  <1>. QED
    BY <1>11, <1>12, <1>14 DEF ApiIInv

\* An answer that nothing was written for.
LEMMA UnwrittenRight ==
  ASSUME ApiTypeOK, NEW c \in Clients, apiCalls[c].op \in DOMAIN NewServer[kind], NEW e,
         NEW effect \in {"none", "same", "gone"}, e = "none" => effect # "none"
  PROVE  LET r == [Respond(c, e) EXCEPT !.effect = effect] IN r \in ApiRequests /\ RequestRight(r)
  <1>1. PICK s \in {200} \cup ErrorStatuses : Respond(c, e) = Answer(c, s) /\ (s = 200 <=> e = "none")
    BY RespondFacts
  <1>2. Answer(c, s) \in ApiRequests /\ Answer(c, s).pc = "done" /\ Answer(c, s).status = s
    BY AnswerFacts
  <1>3. PICK r : r = [Answer(c, s) EXCEPT !.effect = effect]
    OBVIOUS
  <1>4. r \in ApiRequests /\ r.pc = "done" /\ r.status = s /\ r.effect = effect
    BY <1>2, <1>3 DEF ApiRequests
  <1>5. RequestRight(r)
    BY <1>1, <1>4 DEF RequestRight, AnswerRight
  <1>. QED
    BY <1>1, <1>3, <1>4, <1>5

LEMMA RespondRight ==
  ASSUME ApiTypeOK, NEW c \in Clients, apiCalls[c].op \in DOMAIN NewServer[kind], NEW e, e # "none"
  PROVE  Respond(c, e) \in ApiRequests /\ RequestRight(Respond(c, e))
  <1>1. PICK s \in {200} \cup ErrorStatuses : Respond(c, e) = Answer(c, s) /\ s # 200
    BY RespondFacts
  <1>2. PICK r : r = Answer(c, s)
    OBVIOUS
  <1>3. r \in ApiRequests /\ r.pc = "done" /\ r.status = s /\ r.effect = "none"
    BY <1>2, AnswerFacts
  <1>4. RequestRight(r)
    BY <1>1, <1>3 DEF RequestRight, AnswerRight
  <1>. QED
    BY <1>1, <1>2, <1>3, <1>4

LEMMA LookupOwners == ASSUME NEW p PROVE ApiLookup(p) \subseteq ApiOwners
  BY DEF ApiLookup

-----------------------------------------------------------------------------
LEMMA GetResourceIInv ==
  ASSUME ApiIInv, NEW c \in Clients, NEW p \in Principals, GetResource(c, p)
  PROVE  ApiIInv'
  <1>1. PICK o \in ApiOwners :
          apiCalls' = [apiCalls EXCEPT ![c] = [@ EXCEPT !.pc = "got", !.who = p, !.seen = apiRows[o].rev]]
    BY LookupOwners DEF GetResource
  <1>2. PICK rev : rev = apiRows[o].rev
    OBVIOUS
  <1>3. rev \in 0..MaxRevisions /\ apiCalls[c] \in ApiRequests
    BY <1>2 DEF ApiIInv, ApiTypeOK, ApiRowValues
  <1>4. PICK r : r = [apiCalls[c] EXCEPT !.pc = "got", !.who = p, !.seen = rev]
    OBVIOUS
  <1>5. r \in ApiRequests /\ r.pc = "got"
    BY <1>3, <1>4 DEF ApiRequests
  <1>6. RequestRight(r)
    BY <1>5 DEF RequestRight
  <1>7. apiCalls' = [apiCalls EXCEPT ![c] = r]
    BY <1>1, <1>2, <1>4
  <1>. QED
    BY <1>5, <1>6, <1>7, CallStep DEF GetResource

LEMMA ReceiveIInv ==
  ASSUME ApiIInv, NEW c \in Clients, NEW p \in Principals, NEW op \in DOMAIN NewServer[kind], NEW credential,
         NEW body \in Bodies[kind][op], Receive(c, p, op, credential, body)
  PROVE  ApiIInv'
  <1>1. apiCalls[c] \in ApiRequests /\ kind \in Kinds /\ ApiTypeOK
    BY DEF ApiIInv, ApiTypeOK
  <1>2. ASSUME NEW s \in {400, 401, 403}, apiCalls' = [apiCalls EXCEPT ![c] = Answer(c, s)]
        PROVE  ApiIInv'
    <2>1. PICK r : r = Answer(c, s)
      OBVIOUS
    <2>2. r \in ApiRequests /\ r.pc = "done" /\ r.status = s /\ r.effect = "none"
      BY <1>1, <2>1, AnswerFacts DEF ErrorStatuses
    <2>3. RequestRight(r)
      BY <2>2 DEF RequestRight, AnswerRight
    <2>. QED
      BY <1>2, <2>1, <2>2, <2>3, CallStep DEF Receive
  <1>3. ASSUME body.taken, NEW v \in {0, apiCalls[c].seen}, v > 0 => NewServer[kind][op].write = "cas",
               apiCalls' = [apiCalls EXCEPT ![c] = [[apiCalls[c] EXCEPT !.who = p, !.op = op, !.whole = body.whole]
                                                      EXCEPT !.pc = "serving", !.version = v]]
        PROVE  ApiIInv'
    <2>1. PICK r : r = [[apiCalls[c] EXCEPT !.who = p, !.op = op, !.whole = body.whole]
                          EXCEPT !.pc = "serving", !.version = v]
      OBVIOUS
    <2>2. op \in ApiOps
      BY <1>1, ServerTable
    <2>3. body.whole \in BOOLEAN /\ (kind # "user" => body.whole = TRUE)
      BY <1>1, <1>3, BodiesRight
    <2>4. v \in 0..MaxRevisions
      BY <1>1, ApiAssumption DEF ApiRequests
    <2>5. r \in ApiRequests /\ r.pc = "serving" /\ r.op = op /\ r.version = v /\ r.whole = body.whole
      BY <1>1, <2>1, <2>2, <2>3, <2>4, ZenonT(60) DEF ApiRequests
    <2>6. RequestRight(r)
      BY <1>3, <2>3, <2>5 DEF RequestRight, ServingRight, WriteOf
    <2>. QED
      BY <1>3, <2>1, <2>5, <2>6, CallStep DEF Receive
  <1>. QED
    BY <1>2, <1>3 DEF Receive

LEMMA ServiceReadIInv ==
  ASSUME ApiIInv, NEW c \in Clients, ServiceRead(c)
  PROVE  ApiIInv'
  <1>. DEFINE found == ApiLookup(apiCalls[c].who)
              row == IF found = {} THEN NoApiRow ELSE apiRows[CHOOSE o \in found : TRUE]
              owner == IF found = {} THEN "none" ELSE CHOOSE o \in found : TRUE
              errors == ServiceErrors(c, found)
                          \cup (IF found # {} /\ ~SameResourceVersion(apiCalls[c].version, row)
                                THEN {"conflict"} ELSE {})
  <1>1. /\ ApiTypeOK /\ apiCalls[c] \in ApiRequests /\ apiCalls[c].pc = "serving"
        /\ ServingRight(apiCalls[c]) /\ kind \in Kinds /\ UNCHANGED <<kind, apiRows, apiClock>>
    BY DEF ApiIInv, ApiTypeOK, RequestRight, ServiceRead
  <1>2. apiCalls[c].op \in DOMAIN NewServer[kind] /\ GoodHandler(Route(c))
    BY <1>1, ServerTable DEF ServingRight, Route
  <1>3. ASSUME NEW e \in errors \cup Route(c).refusals,
               apiCalls' = [apiCalls EXCEPT ![c] =
                              IF e = "same" THEN [Respond(c, "none") EXCEPT !.effect = "same"] ELSE Respond(c, e)]
        PROVE  ApiIInv'
    <2>1. e # "none"
      BY <1>2 DEF GoodHandler, ServiceErrors
    <2>2. PICK r : r = IF e = "same" THEN [Respond(c, "none") EXCEPT !.effect = "same"] ELSE Respond(c, e)
      OBVIOUS
    <2>3. CASE e = "same"
      <3>1. r = [Respond(c, "none") EXCEPT !.effect = "same"]
        BY <2>2, <2>3
      <3>2. r \in ApiRequests /\ RequestRight(r)
        BY <1>1, <1>2, <3>1, UnwrittenRight
      <3>. QED
        BY <1>1, <1>3, <2>2, <3>2, CallStep
    <2>4. CASE e # "same"
      <3>1. r = Respond(c, e)
        BY <2>2, <2>4
      <3>2. r \in ApiRequests /\ RequestRight(r)
        BY <1>1, <1>2, <2>1, <3>1, RespondRight
      <3>. QED
        BY <1>1, <1>3, <2>2, <3>2, CallStep
    <2>. QED
      BY <2>3, <2>4
  <1>4. ASSUME apiCalls' = [apiCalls EXCEPT ![c] = [Respond(c, "none") EXCEPT !.effect = "same"]]
        PROVE  ApiIInv'
    <2>1. PICK r : r = [Respond(c, "none") EXCEPT !.effect = "same"]
      OBVIOUS
    <2>2. r \in ApiRequests /\ RequestRight(r)
      BY <1>1, <1>2, <2>1, UnwrittenRight
    <2>. QED
      BY <1>1, <1>4, <2>1, <2>2, CallStep
  <1>5. ASSUME errors = {}, Route(c).write # "nothing",
               apiCalls' = [apiCalls EXCEPT ![c] = [apiCalls[c] EXCEPT !.pc = "writing", !.owner = owner, !.row = row]]
        PROVE  ApiIInv'
    <2>1. PICK o, w, q, f : o = owner /\ w = row /\ q = apiCalls[c] /\ f = found
      OBVIOUS
    <2>2. f \subseteq ApiOwners
      BY <2>1, LookupOwners
    <2>3. /\ f = {} => o = "none" /\ w = NoApiRow
          /\ f # {} => o \in f /\ w = apiRows[o]
      BY <2>1
    <2>4. o \in ApiOwners \cup {"none"} /\ w \in ApiRowValues
      BY <1>1, <2>2, <2>3, NoRequestType DEF ApiTypeOK, NoRequest, ApiRequests
    <2>5. q \in ApiRequests /\ ServingRight(q) /\ WriteOf(q) = Route(c).write
      BY <1>1, <2>1 DEF WriteOf, Route
    <2>6. PICK r : r = [q EXCEPT !.pc = "writing", !.owner = o, !.row = w]
      OBVIOUS
    <2>7. /\ r \in ApiRequests /\ r.pc = "writing" /\ r.owner = o /\ r.row = w
          /\ r.op = q.op /\ r.version = q.version /\ r.whole = q.whole /\ r.who = q.who
      BY <2>4, <2>5, <2>6 DEF ApiRequests
    <2>8. WriteOf(r) = WriteOf(q) /\ ServingRight(r)
      BY <2>5, <2>7 DEF WriteOf, ServingRight
    <2>9. ServiceErrors(c, f) = {} /\ (f # {} => SameResourceVersion(q.version, w))
      BY <1>5, <2>1
    <2>10. kind = "user" => q.whole = TRUE
      <3>1. kind = "user" => q.whole
        BY <2>1, <2>9 DEF ServiceErrors
      <3>2. q.whole \in BOOLEAN
        BY <2>5 DEF ApiRequests
      <3>. QED
        BY <3>1, <3>2
    <2>11. WriteOf(q) = "insert" => q.who.role # "viewer"
      BY <2>1, <2>5, <2>9 DEF ServiceErrors
    <2>12. WriteOf(q) \in {"cas", "byId", "erase"} => f # {} /\ \A x \in f : AuthorizeOwner(q.who, x)
      BY <2>1, <2>5, <2>9 DEF ServiceErrors
    <2>13. r.version > 0 => r.row.rev = r.version
      BY <2>5, <2>7, <2>9, <2>12 DEF ServingRight, SameResourceVersion, ApiRequests
    <2>14. r.whole = TRUE
      BY <2>5, <2>7, <2>10 DEF ServingRight
    <2>15. WritingRight(r)
      BY <2>2, <2>3, <2>7, <2>8, <2>11, <2>12, <2>13, <2>14 DEF WritingRight
    <2>16. RequestRight(r)
      BY <2>7, <2>8, <2>15 DEF RequestRight
    <2>17. apiCalls' = [apiCalls EXCEPT ![c] = r]
      BY <1>5, <2>1, <2>6
    <2>. QED
      BY <1>1, <2>7, <2>16, <2>17, CallStep
  <1>. QED
    BY <1>3, <1>4, <1>5 DEF ServiceRead

\* What a request that is about to write has behind it.
LEMMA WritingFacts ==
  ASSUME ApiIInv, NEW c \in Clients, apiCalls[c].pc = "writing"
  PROVE  /\ ApiTypeOK /\ kind \in Kinds /\ apiCalls[c] \in ApiRequests
         /\ apiCalls[c].op \in DOMAIN NewServer[kind] /\ WriteOf(apiCalls[c]) = Route(c).write
         /\ ServingRight(apiCalls[c]) /\ WritingRight(apiCalls[c])
  BY DEF ApiIInv, ApiTypeOK, RequestRight, ServingRight, WriteOf, Route

\* A step that writes nothing.
LEMMA UnwrittenStep ==
  ASSUME ApiIInv, NEW c \in Clients, apiCalls[c].op \in DOMAIN NewServer[kind], NEW e,
         NEW effect \in {"none", "same", "gone"}, e = "none" => effect # "none",
         Unwritten(c, e, effect), UNCHANGED kind
  PROVE  ApiIInv'
  <1>1. PICK r : r = [Respond(c, e) EXCEPT !.effect = effect]
    OBVIOUS
  <1>2. r \in ApiRequests /\ RequestRight(r)
    BY <1>1, UnwrittenRight DEF ApiIInv
  <1>. QED
    BY <1>1, <1>2, CallStep DEF Unwritten

LEMMA ServiceInsertIInv ==
  ASSUME ApiIInv, NEW c \in Clients, ServiceInsert(c)
  PROVE  ApiIInv'
  <1>1. apiCalls[c].pc = "writing" /\ Route(c).write = "insert" /\ UNCHANGED kind
    BY DEF ServiceInsert
  <1>2. PICK q : q = apiCalls[c]
    OBVIOUS
  <1>3. /\ ApiTypeOK /\ kind \in Kinds /\ q \in ApiRequests /\ q.op \in DOMAIN NewServer[kind]
        /\ WriteOf(q) = "insert" /\ ServingRight(q) /\ WritingRight(q)
    BY <1>1, <1>2, WritingFacts
  <1>4. q.version = 0 /\ q.whole = TRUE /\ q.who.role # "viewer"
    BY <1>3 DEF ServingRight, WritingRight, ApiRequests
  <1>5. PICK owner : owner = ApiOwnerFor(q.who)
    OBVIOUS
  <1>6. owner \in ApiOwners /\ AuthorizeOwner(q.who, owner)
    BY <1>3, <1>4, <1>5 DEF ApiRequests, Principals, ApiOwnerFor, ApiOwners, AuthorizeOwner
  <1>7. ASSUME apiClock < MaxRevisions, NEW e \in {"none"} \cup ScopeErrors,
               Written(c, owner, [id |-> apiClock + 1, rev |-> apiClock + 1, whole |-> q.whole], e)
        PROVE  ApiIInv'
    <2>1. PICK row : row = [id |-> apiClock + 1, rev |-> apiClock + 1, whole |-> q.whole]
      OBVIOUS
    <2>2. row \in ApiRowValues /\ row.whole = TRUE
      <3>1. PICK n : n = apiClock + 1
        OBVIOUS
      <3>2. n \in 0..MaxRevisions
        BY <1>3, <1>7, <3>1, ApiAssumption DEF ApiTypeOK
      <3>. QED
        BY <1>4, <2>1, <3>1, <3>2 DEF ApiRowValues
    <2>3. e # "none" => kind = "group" /\ q.op \in {"create", "update"}
      BY <1>3, <1>7, ServerTable DEF ScopeErrors, WriteOf
    <2>4. Written(c, owner, row, e)
      BY <1>7, <2>1
    <2>5. apiCalls[c].op \in DOMAIN NewServer[kind] /\ AuthorizeOwner(apiCalls[c].who, owner)
      BY <1>2, <1>3, <1>6
    <2>6. apiCalls[c].version > 0 => apiRows[owner].rev = apiCalls[c].version
      BY <1>2, <1>4
    <2>7. e # "none" => kind = "group" /\ apiCalls[c].op \in {"create", "update"}
      BY <1>2, <2>3
    <2>. QED
      BY <1>1, <1>6, <1>7, <2>2, <2>4, <2>5, <2>6, <2>7, WrittenStep
  <1>8. ASSUME Unwritten(c, IF kind = "user" THEN "unique" ELSE "conflict", "none")
        PROVE  ApiIInv'
    <2>1. PICK e : e = IF kind = "user" THEN "unique" ELSE "conflict"
      OBVIOUS
    <2>2. Unwritten(c, e, "none") /\ e # "none"
      BY <1>8, <2>1
    <2>. QED
      BY <1>1, <1>2, <1>3, <2>2, UnwrittenStep
  <1>. QED
    BY <1>2, <1>5, <1>7, <1>8 DEF ServiceInsert

LEMMA ServiceUpdateCASIInv ==
  ASSUME ApiIInv, NEW c \in Clients, ServiceUpdateCAS(c)
  PROVE  ApiIInv'
  <1>1. apiCalls[c].pc = "writing" /\ Route(c).write = "cas" /\ UNCHANGED kind
    BY DEF ServiceUpdateCAS
  <1>2. PICK q : q = apiCalls[c]
    OBVIOUS
  <1>3. /\ ApiTypeOK /\ kind \in Kinds /\ q \in ApiRequests /\ q.op \in DOMAIN NewServer[kind]
        /\ WriteOf(q) = "cas" /\ ServingRight(q) /\ WritingRight(q)
    BY <1>1, <1>2, WritingFacts
  <1>4. /\ q.owner \in ApiOwners /\ AuthorizeOwner(q.who, q.owner) /\ q.whole = TRUE
        /\ q.version > 0 => q.row.rev = q.version
    BY <1>3 DEF WritingRight
  <1>5. PICK current : current = apiRows[q.owner]
    OBVIOUS
  <1>6. current \in ApiRowValues
    BY <1>3, <1>4, <1>5 DEF ApiTypeOK
  <1>7. ASSUME apiClock < MaxRevisions, current.rev = q.row.rev,
               NEW e \in {"none"} \cup (IF q.op = "update" THEN ScopeErrors ELSE {}),
               Written(c, q.owner, [current EXCEPT !.rev = apiClock + 1, !.whole = q.whole], e)
        PROVE  ApiIInv'
    <2>1. PICK n : n = apiClock + 1
      OBVIOUS
    <2>2. n \in 0..MaxRevisions
      BY <1>3, <1>7, <2>1, ApiAssumption DEF ApiTypeOK
    <2>3. PICK row : row = [current EXCEPT !.rev = n, !.whole = q.whole]
      OBVIOUS
    <2>4. row \in ApiRowValues /\ row.whole = TRUE
      BY <1>4, <1>6, <2>2, <2>3 DEF ApiRowValues
    <2>5. Written(c, q.owner, row, e)
      BY <1>7, <2>1, <2>3
    <2>6. apiCalls[c].op \in DOMAIN NewServer[kind] /\ AuthorizeOwner(apiCalls[c].who, q.owner)
      BY <1>2, <1>3, <1>4
    <2>7. apiCalls[c].version > 0 => apiRows[q.owner].rev = apiCalls[c].version
      BY <1>2, <1>4, <1>5, <1>7
    <2>8. e # "none" => kind = "group" /\ apiCalls[c].op \in {"create", "update"}
      BY <1>2, <1>7 DEF ScopeErrors
    <2>. QED
      BY <1>1, <1>4, <1>7, <2>4, <2>5, <2>6, <2>7, <2>8, WrittenStep
  <1>8. ASSUME Unwritten(c, "conflict", "none")
        PROVE  ApiIInv'
    BY <1>1, <1>2, <1>3, <1>8, UnwrittenStep
  <1>. QED
    BY <1>2, <1>5, <1>7, <1>8 DEF ServiceUpdateCAS

LEMMA ServiceWriteByIdIInv ==
  ASSUME ApiIInv, NEW c \in Clients, ServiceWriteById(c)
  PROVE  ApiIInv'
  <1>1. apiCalls[c].pc = "writing" /\ Route(c).write \in {"byId", "erase"} /\ UNCHANGED kind
    BY DEF ServiceWriteById
  <1>2. PICK q : q = apiCalls[c]
    OBVIOUS
  <1>3. /\ ApiTypeOK /\ kind \in Kinds /\ q \in ApiRequests /\ q.op \in DOMAIN NewServer[kind]
        /\ WriteOf(q) \in {"byId", "erase"} /\ ServingRight(q) /\ WritingRight(q)
    BY <1>1, <1>2, WritingFacts
  <1>4. q.owner \in ApiOwners /\ AuthorizeOwner(q.who, q.owner) /\ q.whole = TRUE /\ q.version = 0
    BY <1>3 DEF WritingRight, ServingRight, ApiRequests
  <1>5. PICK current : current = apiRows[q.owner]
    OBVIOUS
  <1>6. current \in ApiRowValues
    BY <1>3, <1>4, <1>5 DEF ApiTypeOK
  <1>7. ASSUME apiClock < MaxRevisions,
               Written(c, q.owner, IF Route(c).write = "erase" THEN NoApiRow
                                   ELSE [current EXCEPT !.rev = apiClock + 1, !.whole = q.whole], "none")
        PROVE  ApiIInv'
    <2>1. PICK n : n = apiClock + 1
      OBVIOUS
    <2>2. n \in 0..MaxRevisions
      BY <1>3, <1>7, <2>1, ApiAssumption DEF ApiTypeOK
    <2>3. PICK row : row = IF Route(c).write = "erase" THEN NoApiRow ELSE [current EXCEPT !.rev = n, !.whole = q.whole]
      OBVIOUS
    <2>4. row \in ApiRowValues /\ row.whole = TRUE
      <3>1. CASE Route(c).write = "erase"
        BY <2>3, <3>1, ApiAssumption DEF NoApiRow, ApiRowValues
      <3>2. CASE Route(c).write # "erase"
        BY <1>4, <1>6, <2>2, <2>3, <3>2 DEF ApiRowValues
      <3>. QED
        BY <3>1, <3>2
    <2>5. Written(c, q.owner, row, "none")
      BY <1>7, <2>1, <2>3
    <2>6. apiCalls[c].op \in DOMAIN NewServer[kind] /\ AuthorizeOwner(apiCalls[c].who, q.owner)
      BY <1>2, <1>3, <1>4
    <2>7. apiCalls[c].version > 0 => apiRows[q.owner].rev = apiCalls[c].version
      BY <1>2, <1>4
    <2>. QED
      BY <1>1, <1>4, <1>7, <2>4, <2>5, <2>6, <2>7, WrittenStep
  <1>8. ASSUME Unwritten(c, WhenGone(q.op), "gone")
        PROVE  ApiIInv'
    <2>1. PICK e : e = WhenGone(q.op)
      OBVIOUS
    <2>2. Unwritten(c, e, "gone")
      BY <1>8, <2>1
    <2>. QED
      BY <1>1, <1>2, <1>3, <2>2, UnwrittenStep
  <1>. QED
    BY <1>2, <1>5, <1>7, <1>8 DEF ServiceWriteById

-----------------------------------------------------------------------------
LEMMA ApiInitIInv == ApiInit => ApiIInv
  <1>. SUFFICES ASSUME ApiInit
                PROVE  ApiIInv
    OBVIOUS
  <1>1. NoApiRow \in ApiRowValues /\ NoApiRow.whole = TRUE
    BY ApiAssumption DEF NoApiRow, ApiRowValues
  <1>2. PICK first : first = [id |-> 1, rev |-> 1, whole |-> TRUE]
    OBVIOUS
  <1>3. first \in ApiRowValues /\ first.whole = TRUE
    BY <1>2, ApiAssumption DEF ApiRowValues
  <1>4. PICK there : apiRows = [o \in ApiOwners |-> IF o \in there THEN first ELSE NoApiRow]
    BY <1>2 DEF ApiInit
  <1>5. apiRows \in [ApiOwners -> ApiRowValues] /\ \A o \in ApiOwners : apiRows[o].whole = TRUE
    BY <1>1, <1>3, <1>4
  <1>6. apiCalls \in [Clients -> ApiRequests] /\ \A c \in Clients : apiCalls[c] = NoRequest
    BY NoRequestType DEF ApiInit
  <1>7. \A c \in Clients : RequestRight(apiCalls[c])
    BY <1>6 DEF RequestRight, NoRequest
  <1>. QED
    BY <1>5, <1>6, <1>7, ApiAssumption DEF ApiInit, ApiIInv, ApiTypeOK

LEMMA ApiNextIInv == ApiIInv /\ [ApiNext]_apiVars => ApiIInv'
  <1>1. CASE UNCHANGED apiVars /\ ApiIInv
    <2>1. UNCHANGED <<kind, apiRows, apiCalls, apiClock>>
      BY <1>1 DEF apiVars
    <2>. QED
      BY <1>1, <2>1 DEF ApiIInv, ApiTypeOK, RequestRight, ServingRight, WritingRight, AnswerRight, WriteOf,
                        AuthorizeOwner
  <1>2. ASSUME ApiIInv, ApiNext
        PROVE  ApiIInv'
    BY <1>2, GetResourceIInv, ReceiveIInv, ServiceReadIInv, ServiceInsertIInv, ServiceUpdateCASIInv,
       ServiceWriteByIdIInv DEF ApiNext
  <1>. QED
    BY <1>1, <1>2

(***************************************************************************)
(* Requests, rows and answers of the HTTP layer have their types, whatever *)
(* number of clients there is and however many writes are made.            *)
(***************************************************************************)
THEOREM ApiTypeCorrect == ApiSpec => []ApiTypeOK
  <1>1. ApiIInv => ApiTypeOK
    BY DEF ApiIInv
  <1>. QED
    BY <1>1, ApiInitIInv, ApiNextIInv, PTL DEF ApiSpec

(***************************************************************************)
(* What a client is told is what happened, for any number of clients whose *)
(* reads, checks and writes interleave, on every route of NewServer.       *)
(***************************************************************************)
THEOREM AnswersTellTheTruth == ApiSpec => []AnswersAreTrue
  <1>1. ApiIInv => AnswersAreTrue
    BY DEF ApiIInv, AnswersAreTrue, RequestRight, AnswerRight
  <1>. QED
    BY <1>1, ApiInitIInv, ApiNextIInv, PTL DEF ApiSpec

-----------------------------------------------------------------------------
(***************************************************************************)
(* The console as a whole                                                  *)
(*                                                                         *)
(* A step of the console is a step of one service and leaves the variables *)
(* of the others alone, so that a behaviour of it is one of each service.  *)
(***************************************************************************)
THEOREM ConsoleRunsItsServices ==
  MCSpec => HubSpec /\ ExceptionSpec /\ ScopeSpec /\ ApiSpec /\ IdentitySpec
  <1>1. MCInit => HubInit /\ ExceptionInit /\ ScopeInit /\ ApiInit /\ IdentityInit
    BY DEF MCInit
  <1>2. [MCNext]_consoleVars => [HubNext]_hubVars
    BY DEF MCNext, consoleVars
  <1>3. [MCNext]_consoleVars => [ExceptionNext]_exceptionVars
    BY DEF MCNext, consoleVars
  <1>4. [MCNext]_consoleVars => [ScopeNext]_scopeVars
    BY DEF MCNext, consoleVars
  <1>5. [MCNext]_consoleVars => [ApiNext]_apiVars
    BY DEF MCNext, consoleVars
  <1>6. [MCNext]_consoleVars => [IdentityNext]_identityVars
    BY DEF MCNext, consoleVars
  <1>. QED
    BY <1>1, <1>2, <1>3, <1>4, <1>5, <1>6, PTL
       DEF MCSpec, HubSpec, ExceptionSpec, ScopeSpec, ApiSpec, IdentitySpec

(***************************************************************************)
(* Rows, requests under way, accounts, sessions and answers of the console *)
(* stay within what the code's types allow, in the service a behaviour is  *)
(* of and in every other.                                                  *)
(***************************************************************************)
THEOREM ConsoleTypeCorrect == MCSpec => []ConsoleTypesOK
  <1>1. MCInit => part \in {"catalogue", "exceptions", "scopes", "api", "identity"}
    BY DEF MCInit
  <1>2. part \in {"catalogue", "exceptions", "scopes", "api", "identity"} /\ [MCNext]_consoleVars
          => (part \in {"catalogue", "exceptions", "scopes", "api", "identity"})'
    BY DEF MCNext, consoleVars
  <1>3. /\ part \in {"catalogue", "exceptions", "scopes", "api", "identity"}
        /\ HubTypeOK /\ ExceptionTypeOK /\ ScopeTypeOK /\ ApiTypeOK /\ IdentityTypeOK
        => ConsoleTypesOK
    BY DEF ConsoleTypesOK
  <1>. QED
    BY <1>1, <1>2, <1>3, ConsoleRunsItsServices, HubTypeCorrect, ExceptionTypeCorrect, ScopeTypeCorrect,
       ApiTypeCorrect, IdentityTypeCorrect, PTL DEF MCSpec

=============================================================================
