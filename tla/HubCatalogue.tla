---------------------------- MODULE HubCatalogue ----------------------------
(***************************************************************************)
(* The console's policy and policy group services over the database:       *)
(* PolicyService, PolicyGroupService, their repositories, the advisory     *)
(* lock on policy references and the managed scope of a group.             *)
(*                                                                         *)
(* Handlers run concurrently.  One step is what a handler does between two *)
(* points where another one can write: its reads and checks are one step,  *)
(* each write is another.  Update, Delete and Rollback of a policy and     *)
(* Create and Update of a group hold the lock from their first read to     *)
(* their last write; Create of a policy, SetEnabled and Delete of a group  *)
(* do not take it.  The group row and its scope are two writes.            *)
(*                                                                         *)
(* updated_at is only compared for equality with what the handler has      *)
(* read, so a handler keeps what became of the row since: fresh, changed,  *)
(* or gone (deleted; a row created later has another id).                  *)
(***************************************************************************)
EXTENDS Catalogue

CONSTANTS
  Requests,     \* handlers under way at the same time
  Free,         \* nobody holds the lock
  GroupInputs,  \* what requests may ask of a group: spec, enabled
  MaxVersions   \* bound on the versions of one policy

ASSUME CatalogueAssumption ==
  /\ MaxVersions \in Nat \ {0}
  /\ Policies \cap Groups = {}
  /\ System \in Owners
  /\ Free \notin Requests
  /\ GroupInputs \subseteq [spec: GroupSpecs, enabled: BOOLEAN]
  /\ NoObject \notin PolicyRows \cup GroupRows

VARIABLES
  scopes,       \* groups with a managed scope distribution, by owner name
  lock,         \* holder of the policy reference lock
  req           \* req[r]: the handler r

hubVars == <<policies, groups, scopes, lock, req>>

Idle == [op |-> "idle"]

PolicyOps == {"policyUpdate", "policyRollback", "policyDelete"}

GroupOps == {"groupCreate", "groupUpdate", "setEnabled", "groupDelete", "syncScope", "deleteScope"}

\* What became of the row a handler has read.
RowMarks == {"fresh", "changed", "gone"}

PolicyHandlers == [op: PolicyOps, target: Policies, row: PolicyRows \cup {NoObject}, seen: RowMarks]

GroupHandlers == [op: GroupOps, target: Groups, row: GroupRows \cup {NoObject}, seen: RowMarks]

HubTypeOK ==
  /\ policies \in [Policies -> PolicyRows \cup {NoObject}]
  /\ \A p \in Policies : Exists(p) => Len(policies[p].versions) \in 1..MaxVersions
  /\ groups \in [Groups -> GroupRows \cup {NoObject}]
  /\ scopes \subseteq Groups
  /\ lock \in Requests \cup {Free}
  /\ req \in [Requests -> {Idle} \cup PolicyHandlers \cup GroupHandlers]

HubInit ==
  /\ CatalogueInit
  /\ \A g \in Groups : groups[g] # NoObject =>
       [spec |-> groups[g].spec, enabled |-> groups[g].enabled] \in GroupInputs
  /\ scopes = {g \in Groups : groups[g] # NoObject}
  /\ lock = Free
  /\ req = [r \in Requests |-> Idle]

-----------------------------------------------------------------------------
(***************************************************************************)
(* Handlers.  row is what the handler is going to write.                   *)
(***************************************************************************)
Begin(r, op, t, row) ==
  /\ req[r] = Idle
  /\ req' = [req EXCEPT ![r] = [op |-> op, target |-> t, row |-> row, seen |-> "fresh"]]

WithPolicyReferenceLock(r) == lock = Free /\ lock' = r

Unlock(r) == lock' = IF lock = r THEN Free ELSE lock

Pending(r, op) == req[r] # Idle /\ req[r].op = op

\* What the others that have read row t see of it from now on.
Marked(r, t, mark) ==
  [q \in Requests |->
     IF q # r /\ req[q] # Idle /\ req[q].target = t /\ req[q].seen # "gone"
       THEN [req[q] EXCEPT !.seen = mark] ELSE req[q]]

Ends(r, t, mark) == req' = [Marked(r, t, mark) EXCEPT ![r] = Idle]

Continues(r, op, mark) ==
  req' = [Marked(r, req[r].target, mark) EXCEPT ![r].op = op]

\* Mutant: the write takes effect whatever was written since the read.
UpdateAlways(r) == req[r].seen # "gone"

\* UpdateCAS: the row is still the one that was read.
UpdateCAS(r) == req[r].seen = "fresh"

-----------------------------------------------------------------------------
(***************************************************************************)
(* PolicyService                                                           *)
(***************************************************************************)
CreatePolicy(p, o, l, c) ==
  /\ AddPolicy(p, o, l, c)
  /\ UNCHANGED <<scopes, lock, req>>

PolicyUpdate(r, p, c, l) ==
  /\ WithPolicyReferenceLock(r)
  /\ Exists(p) /\ ~ReferencedByOtherTenant(p)
  /\ Len(policies[p].versions) < MaxVersions
  /\ Begin(r, "policyUpdate", p, Revised(p, c, l))
  /\ UNCHANGED <<policies, groups, scopes>>

\* The version before the latest becomes the latest; labels stay.
PolicyRollback(r, p) ==
  /\ WithPolicyReferenceLock(r)
  /\ Exists(p) /\ ~ReferencedByOtherTenant(p)
  /\ Len(policies[p].versions) \in 2..(MaxVersions - 1)
  /\ LET versions == policies[p].versions
     IN Begin(r, "policyRollback", p,
              Revised(p, versions[Len(versions) - 1], policies[p].labelled))
  /\ UNCHANGED <<policies, groups, scopes>>

\* UpdateWithVersion: row and version in one transaction.
PolicyWrite(r) ==
  /\ Pending(r, "policyUpdate") \/ Pending(r, "policyRollback")
  /\ policies' = IF UpdateCAS(r) THEN [policies EXCEPT ![req[r].target] = req[r].row] ELSE policies
  /\ Ends(r, req[r].target, "changed")
  /\ Unlock(r)
  /\ UNCHANGED <<groups, scopes>>

PolicyDelete(r, p) ==
  /\ WithPolicyReferenceLock(r)
  /\ Exists(p) /\ ReferencingGroups(p) = {}
  /\ Begin(r, "policyDelete", p, NoObject)
  /\ UNCHANGED <<policies, groups, scopes>>

PolicyErase(r) ==
  /\ Pending(r, "policyDelete")
  /\ policies' = [policies EXCEPT ![req[r].target] = NoObject]
  /\ Ends(r, req[r].target, "gone")
  /\ Unlock(r)
  /\ UNCHANGED <<groups, scopes>>

-----------------------------------------------------------------------------
(***************************************************************************)
(* PolicyGroupService                                                      *)
(***************************************************************************)
GroupCreate(r, g, o, in) ==
  /\ WithPolicyReferenceLock(r)
  /\ MembersComplete(in.spec)
  /\ Begin(r, "groupCreate", g, [owner |-> o, enabled |-> in.enabled, spec |-> in.spec])
  /\ UNCHANGED <<policies, groups, scopes>>

\* The unique index refuses a second row of the same name.
GroupInsert(r) ==
  /\ Pending(r, "groupCreate")
  /\ LET g == req[r].target
     IN IF groups[g] = NoObject
          THEN /\ groups' = [groups EXCEPT ![g] = req[r].row]
               /\ Continues(r, "syncScope", "gone")
               /\ UNCHANGED lock
          ELSE /\ req' = [req EXCEPT ![r] = Idle]
               /\ Unlock(r)
               /\ UNCHANGED groups
  /\ UNCHANGED <<policies, scopes>>

GroupUpdate(r, g, in) ==
  /\ WithPolicyReferenceLock(r)
  /\ groups[g] # NoObject /\ MembersComplete(in.spec)
  /\ Begin(r, "groupUpdate", g,
           [owner |-> groups[g].owner, enabled |-> in.enabled, spec |-> in.spec])
  /\ UNCHANGED <<policies, groups, scopes>>

GroupWrite(r) ==
  /\ Pending(r, "groupUpdate")
  /\ IF UpdateCAS(r)
       THEN /\ groups' = [groups EXCEPT ![req[r].target] = req[r].row]
            /\ Continues(r, "syncScope", "changed")
            /\ UNCHANGED lock
       ELSE /\ req' = [req EXCEPT ![r] = Idle]
            /\ Unlock(r)
            /\ UNCHANGED groups
  /\ UNCHANGED <<policies, scopes>>

\* syncScope updates the managed distribution of this owner or creates it.
SyncScope(r) ==
  /\ Pending(r, "syncScope")
  /\ scopes' = scopes \cup {req[r].target}
  /\ req' = [req EXCEPT ![r] = Idle]
  /\ Unlock(r)
  /\ UNCHANGED <<policies, groups>>

SetEnabled(r, g) ==
  /\ groups[g] # NoObject
  /\ Begin(r, "setEnabled", g, [groups[g] EXCEPT !.enabled = ~@])
  /\ UNCHANGED <<policies, groups, scopes, lock>>

EnabledWrite(r) ==
  /\ Pending(r, "setEnabled")
  /\ groups' = IF UpdateCAS(r) THEN [groups EXCEPT ![req[r].target] = req[r].row] ELSE groups
  /\ IF UpdateCAS(r) THEN Ends(r, req[r].target, "changed")
                     ELSE req' = [req EXCEPT ![r] = Idle]
  /\ UNCHANGED <<policies, scopes, lock>>

GroupDelete(r, g) ==
  /\ groups[g] # NoObject
  /\ Begin(r, "groupDelete", g, NoObject)
  /\ UNCHANGED <<policies, groups, scopes, lock>>

\* Deletes by id; a row that has gone already is no error.
GroupErase(r) ==
  /\ Pending(r, "groupDelete")
  /\ IF req[r].seen # "gone"
       THEN /\ groups' = [groups EXCEPT ![req[r].target] = NoObject]
            /\ Continues(r, "deleteScope", "gone")
       ELSE /\ req' = [req EXCEPT ![r].op = "deleteScope"]
            /\ UNCHANGED groups
  /\ UNCHANGED <<policies, scopes, lock>>

\* deleteScope finds the scope by the owner's name.
DeleteScope(r) ==
  /\ Pending(r, "deleteScope")
  /\ scopes' = scopes \ {req[r].target}
  /\ req' = [req EXCEPT ![r] = Idle]
  /\ UNCHANGED <<policies, groups, lock>>

(***************************************************************************)
(* A query fails, the request is cancelled, or syncScope finds no cluster  *)
(* to target: the handler returns, and what it has written stays.          *)
(***************************************************************************)
Abort(r) ==
  /\ req[r] # Idle
  /\ req' = [req EXCEPT ![r] = Idle]
  /\ Unlock(r)
  /\ UNCHANGED <<policies, groups, scopes>>

-----------------------------------------------------------------------------
PolicyRequests(r) ==
  \E p \in Policies :
    \/ \E c \in PolicyContents, l \in BOOLEAN : PolicyUpdate(r, p, c, l)
    \/ PolicyRollback(r, p)
    \/ PolicyDelete(r, p)

GroupRequests(r) ==
  \E g \in Groups :
    \/ \E o \in Owners, in \in GroupInputs : GroupCreate(r, g, o, in)
    \/ \E in \in GroupInputs : GroupUpdate(r, g, in)
    \/ SetEnabled(r, g)
    \/ GroupDelete(r, g)

HubNext ==
  \/ \E p \in Policies, o \in Owners, l \in BOOLEAN, c \in PolicyContents : CreatePolicy(p, o, l, c)
  \/ \E r \in Requests :
       \/ PolicyRequests(r) \/ PolicyWrite(r) \/ PolicyErase(r)
       \/ GroupRequests(r) \/ GroupInsert(r) \/ GroupWrite(r) \/ SyncScope(r)
       \/ EnabledWrite(r) \/ GroupErase(r) \/ DeleteScope(r)
       \/ Abort(r)

HubSpec == HubInit /\ [][HubNext]_hubVars

-----------------------------------------------------------------------------
Atomic == INSTANCE Catalogue WITH policies <- policies, groups <- groups

(***************************************************************************)
(* The handlers implement the atomic catalogue: every write that takes     *)
(* effect is a change of the catalogue as it is at that moment, with its   *)
(* references still right, or changes nothing.                             *)
(***************************************************************************)
CatalogueIsAtomic == Atomic!CatalogueSpec
=============================================================================
