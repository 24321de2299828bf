-------------------------- MODULE HubServicesProofs --------------------------
(***************************************************************************)
(* Proofs about the console's services over the hub's tables: the policy   *)
(* and group handlers implement the atomic catalogue.                      *)
(***************************************************************************)
EXTENDS HubCatalogue, HubExceptions, TenantScopes, TLAPS

(***************************************************************************)
(* The handlers of policies and groups                                     *)
(*                                                                         *)
(* A handler writes later what it has checked before.  The write is right  *)
(* for one of two reasons: nobody else could change what the check was     *)
(* about (the holder of the reference lock: LockHeld, and what the others  *)
(* can do without it never takes a check back), or the row is still the    *)
(* one that was read (the compare-and-set, that is, `fresh').              *)
(***************************************************************************)
LockedOps == {"policyUpdate", "policyRollback", "policyDelete", "groupCreate", "groupUpdate", "syncScope"}

HoldsLock(r) == req[r] # Idle /\ req[r].op \in LockedOps

LockHeld == \A r \in Requests : HoldsLock(r) => lock = r

\* What handler r has checked, and still holds.
Checked(r) ==
  LET t == req[r].target
      row == req[r].row
      fresh == req[r].seen = "fresh"
  IN /\ Pending(r, "policyUpdate") \/ Pending(r, "policyRollback") =>
          /\ Exists(t) /\ ~ReferencedByOtherTenant(t)
          /\ Len(policies[t].versions) < MaxVersions
          /\ \E c \in PolicyContents, l \in BOOLEAN : row = Revised(t, c, l)
     /\ Pending(r, "policyDelete") => Exists(t) /\ ReferencingGroups(t) = {}
     /\ Pending(r, "groupCreate") => row \in GroupRows /\ MembersComplete(row.spec)
     /\ Pending(r, "groupUpdate") =>
          /\ row \in GroupRows /\ MembersComplete(row.spec)
          /\ fresh => groups[t] # NoObject /\ row.owner = groups[t].owner
     /\ Pending(r, "setEnabled") /\ fresh =>
          groups[t] # NoObject /\ row = [groups[t] EXCEPT !.enabled = ~@]
     /\ Pending(r, "groupDelete") /\ req[r].seen # "gone" => groups[t] # NoObject

HubIInv == HubTypeOK /\ LockHeld /\ (\A r \in Requests : Checked(r))

-----------------------------------------------------------------------------
\* A handler's target and row, by what it is about.
LEMMA HandlerTypes ==
  ASSUME HubTypeOK, NEW r \in Requests, req[r] # Idle
  PROVE  /\ req[r] \in PolicyHandlers \/ req[r] \in GroupHandlers
         /\ req[r].op \in PolicyOps => req[r] \in PolicyHandlers
         /\ req[r].op \in GroupOps => req[r] \in GroupHandlers
  BY DEF HubTypeOK, PolicyHandlers, GroupHandlers, PolicyOps, GroupOps

\* The row of a policy with one more version.
LEMMA RevisedRow ==
  ASSUME HubTypeOK, NEW p \in Policies, Exists(p), NEW c \in PolicyContents, NEW l \in BOOLEAN
  PROVE  /\ Revised(p, c, l) \in PolicyRows
         /\ Len(Revised(p, c, l).versions) = Len(policies[p].versions) + 1
         /\ Revised(p, c, l).owner = policies[p].owner
         /\ Revised(p, c, l) # policies[p]
  <1>1. policies[p] \in PolicyRows
    BY DEF HubTypeOK, Exists
  <1>2. policies[p].versions \in Seq(PolicyContents)
    BY <1>1 DEF PolicyRows
  <1>3. /\ Append(policies[p].versions, c) \in Seq(PolicyContents)
        /\ Len(Append(policies[p].versions, c)) = Len(policies[p].versions) + 1
        /\ Len(policies[p].versions) \in Nat
    BY <1>2
  <1>4. Revised(p, c, l) \in PolicyRows
    BY <1>1, <1>3 DEF Revised, PolicyRows
  <1>5. Len(Revised(p, c, l).versions) = Len(policies[p].versions) + 1
    BY <1>3 DEF Revised
  <1>6. Revised(p, c, l).owner = policies[p].owner
    BY DEF Revised
  <1>7. Revised(p, c, l) # policies[p]
    BY <1>3, <1>5
  <1>. QED
    BY <1>4, <1>5, <1>6, <1>7

\* While one handler has the lock, or it is free, no other works under it.
LEMMA OthersUnlocked ==
  ASSUME HubIInv, NEW r \in Requests, NEW q \in Requests, q # r, lock \in {Free, r}
  PROVE  ~HoldsLock(q)
  BY CatalogueAssumption DEF HubIInv, LockHeld

(***************************************************************************)
(* What may happen without the lock: policies are added, groups are        *)
(* switched or removed.  No check made under the lock is taken back.       *)
(***************************************************************************)
OnlyAdds == \A p \in Policies : Exists(p) => policies'[p] = policies[p]

OnlyRemoves ==
  \A g \in Groups : groups'[g] # NoObject =>
    groups[g] # NoObject /\ groups'[g].spec = groups[g].spec /\ groups'[g].owner = groups[g].owner

LEMMA ChecksStand ==
  ASSUME OnlyAdds, OnlyRemoves
  PROVE  /\ \A p \in Policies : Exists(p) =>
              /\ Exists(p)'
              /\ ReferencingGroups(p) = {} => ReferencingGroups(p)' = {}
              /\ ~ReferencedByOtherTenant(p) => ~ReferencedByOtherTenant(p)'
              /\ \A c, l : Revised(p, c, l)' = Revised(p, c, l)
         /\ \A spec \in GroupSpecs : MembersComplete(spec) => MembersComplete(spec)'
  <1>1. ASSUME NEW p \in Policies, Exists(p)
        PROVE  Exists(p)' /\ policies'[p] = policies[p]
    BY <1>1 DEF OnlyAdds, Exists
  <1>2. ASSUME NEW p \in Policies, Exists(p), NEW g \in Groups, g \in ReferencingGroups(p)'
        PROVE  g \in ReferencingGroups(p) /\ groups'[g].owner = groups[g].owner
    BY <1>1, <1>2 DEF OnlyRemoves, ReferencingGroups, Members
  <1>3. \A p \in Policies : ReferencingGroups(p)' \subseteq Groups
    BY DEF ReferencingGroups
  <1>4. \A spec \in GroupSpecs : MembersComplete(spec) => MembersComplete(spec)'
    BY <1>1 DEF MembersComplete, GroupSpecs
  <1>. QED
    BY <1>1, <1>2, <1>3, <1>4 DEF ReferencedByOtherTenant, Revised

HandlerStates == {Idle} \cup PolicyHandlers \cup GroupHandlers

\* An idle handler is none of the others.
LEMMA IdleOp == Idle \notin PolicyHandlers \cup GroupHandlers
  BY DEF Idle, PolicyHandlers, GroupHandlers, PolicyOps, GroupOps

(***************************************************************************)
(* Marking changes what a handler has seen of its row, never from gone and *)
(* never to fresh.                                                         *)
(***************************************************************************)
LEMMA MarkedHandler ==
  ASSUME HubTypeOK, NEW r \in Requests, NEW t, NEW mark \in {"changed", "gone"}, NEW q \in Requests
  PROVE  /\ Marked(r, t, mark)[q] \in HandlerStates
         /\ q = r \/ req[q] = Idle => Marked(r, t, mark)[q] = req[q]
         /\ req[q] # Idle =>
              /\ Marked(r, t, mark)[q] # Idle
              /\ Marked(r, t, mark)[q].op = req[q].op
              /\ Marked(r, t, mark)[q].target = req[q].target
              /\ Marked(r, t, mark)[q].row = req[q].row
              /\ Marked(r, t, mark)[q].seen = "fresh" => req[q].seen = "fresh"
              /\ Marked(r, t, mark)[q].seen # "gone" => req[q].seen # "gone"
              /\ q # r /\ req[q].target = t =>
                   /\ Marked(r, t, mark)[q].seen # "fresh"
                   /\ mark = "gone" => Marked(r, t, mark)[q].seen = "gone"
  <1>1. req[q] \in HandlerStates
    BY DEF HubTypeOK, HandlerStates
  <1>2. CASE req[q] = Idle
    BY <1>1, <1>2 DEF Marked
  <1>3. CASE req[q] # Idle
    <2>1. req[q] \in PolicyHandlers \/ req[q] \in GroupHandlers
      BY <1>1, <1>3 DEF HandlerStates
    <2> DEFINE n == [req[q] EXCEPT !.seen = mark]
    <2>2. /\ n \in HandlerStates /\ n # Idle
          /\ n.op = req[q].op /\ n.target = req[q].target /\ n.row = req[q].row /\ n.seen = mark
      <3>1. CASE req[q] \in PolicyHandlers
        <4>1. n \in PolicyHandlers /\ n.op = req[q].op /\ n.target = req[q].target
              /\ n.row = req[q].row /\ n.seen = mark
          BY <3>1 DEF PolicyHandlers, RowMarks
        <4>. QED
          BY <4>1, IdleOp DEF HandlerStates
      <3>2. CASE req[q] \in GroupHandlers
        <4>1. n \in GroupHandlers /\ n.op = req[q].op /\ n.target = req[q].target
              /\ n.row = req[q].row /\ n.seen = mark
          BY <3>2 DEF GroupHandlers, RowMarks
        <4>. QED
          BY <4>1, IdleOp DEF HandlerStates
      <3>. QED
        BY <2>1, <3>1, <3>2
    <2>3. Marked(r, t, mark)[q] =
            IF q # r /\ req[q].target = t /\ req[q].seen # "gone" THEN n ELSE req[q]
      BY <1>3 DEF Marked
    <2>. HIDE DEF n
    <2>4. CASE q # r /\ req[q].target = t /\ req[q].seen # "gone"
      BY <2>2, <2>3, <2>4, <1>3
    <2>5. CASE ~(q # r /\ req[q].target = t /\ req[q].seen # "gone")
      BY <1>1, <1>3, <2>3, <2>5
    <2>. QED
      BY <2>4, <2>5
  <1>. QED
    BY <1>2, <1>3

(***************************************************************************)
(* A handler that stays where it is keeps what it has checked, if those    *)
(* under the lock see only additions and removals, and a row of a group    *)
(* that is still fresh, or not yet gone, is still that row.                *)
(***************************************************************************)
LEMMA CheckKept ==
  ASSUME HubIInv, NEW q \in Requests, req[q] # Idle, req'[q] # Idle,
         req'[q].op = req[q].op, req'[q].target = req[q].target, req'[q].row = req[q].row,
         req'[q].seen = "fresh" => req[q].seen = "fresh",
         req'[q].seen # "gone" => req[q].seen # "gone",
         HoldsLock(q) => OnlyAdds /\ OnlyRemoves,
         req[q].op \in GroupOps =>
           /\ req'[q].seen = "fresh" => groups'[req[q].target] = groups[req[q].target]
           /\ req'[q].seen # "gone" /\ groups[req[q].target] # NoObject =>
                groups'[req[q].target] # NoObject
  PROVE  Checked(q)'
  <1>b. PICK t : t = req[q].target
    OBVIOUS
  <1>c. PICK row : row = req[q].row
    OBVIOUS
  <1>0. /\ HubTypeOK /\ Checked(q)
        /\ req[q].op \in PolicyOps => t \in Policies
        /\ req[q].op \in GroupOps => t \in Groups
    BY <1>b, HandlerTypes DEF HubIInv, PolicyHandlers, GroupHandlers
  <1>a. \A op : Pending(q, op)' <=> Pending(q, op)
    BY DEF Pending
  <1>1. ASSUME Pending(q, "policyUpdate") \/ Pending(q, "policyRollback")
        PROVE  /\ Exists(t)' /\ ~ReferencedByOtherTenant(t)'
               /\ Len(policies'[t].versions) < MaxVersions
               /\ \E c \in PolicyContents, l \in BOOLEAN : row = Revised(t, c, l)'
    <2>1. t \in Policies /\ OnlyAdds /\ OnlyRemoves
      BY <1>b, <1>c, <1>0, <1>1 DEF Pending, PolicyOps, HoldsLock, LockedOps
    <2>2. /\ Exists(t) /\ ~ReferencedByOtherTenant(t)
          /\ Len(policies[t].versions) < MaxVersions
          /\ \E c \in PolicyContents, l \in BOOLEAN : row = Revised(t, c, l)
      BY <1>b, <1>c, <1>0, <1>1 DEF Checked
    <2>. QED
      BY <2>1, <2>2, ChecksStand DEF OnlyAdds
  <1>2. ASSUME Pending(q, "policyDelete")
        PROVE  Exists(t)' /\ ReferencingGroups(t)' = {}
    <2>1. t \in Policies /\ OnlyAdds /\ OnlyRemoves
      BY <1>b, <1>c, <1>0, <1>2 DEF Pending, PolicyOps, HoldsLock, LockedOps
    <2>2. Exists(t) /\ ReferencingGroups(t) = {}
      BY <1>b, <1>c, <1>0, <1>2 DEF Checked
    <2>. QED
      BY <2>1, <2>2, ChecksStand
  <1>3. ASSUME Pending(q, "groupCreate") \/ Pending(q, "groupUpdate")
        PROVE  row \in GroupRows /\ MembersComplete(row.spec)'
    <2>1. OnlyAdds /\ OnlyRemoves
      BY <1>3 DEF Pending, HoldsLock, LockedOps
    <2>2. row \in GroupRows /\ MembersComplete(row.spec)
      BY <1>b, <1>c, <1>0, <1>3 DEF Checked
    <2>3. row.spec \in GroupSpecs
      BY <2>2 DEF GroupRows
    <2>. QED
      BY <2>1, <2>2, <2>3, ChecksStand
  <1>4. ASSUME Pending(q, "groupUpdate"), req'[q].seen = "fresh"
        PROVE  groups'[t] # NoObject /\ row.owner = groups'[t].owner
    <2>1. groups'[t] = groups[t]
      BY <1>b, <1>4 DEF Pending, GroupOps
    <2>. QED
      BY <1>b, <1>c, <1>0, <1>4, <2>1 DEF Checked
  <1>5. ASSUME Pending(q, "setEnabled"), req'[q].seen = "fresh"
        PROVE  groups'[t] # NoObject /\ row = [groups'[t] EXCEPT !.enabled = ~@]
    <2>1. groups'[t] = groups[t]
      BY <1>b, <1>5 DEF Pending, GroupOps
    <2>. QED
      BY <1>b, <1>c, <1>0, <1>5, <2>1 DEF Checked
  <1>6. ASSUME Pending(q, "groupDelete"), req'[q].seen # "gone"
        PROVE  groups'[t] # NoObject
    BY <1>b, <1>c, <1>0, <1>6 DEF Checked, Pending, GroupOps
  <1>. QED
    BY <1>b, <1>c, <1>a, <1>1, <1>2, <1>3, <1>4, <1>5, <1>6 DEF Checked

\* The same, said of a step that marks the readers of row t.
LEMMA MarkedKeepsChecks ==
  ASSUME HubIInv, NEW r \in Requests, NEW q \in Requests, q # r,
         NEW t, NEW mark \in {"changed", "gone"},
         req'[q] = Marked(r, t, mark)[q],
         HoldsLock(q) => OnlyAdds /\ OnlyRemoves,
         \A g \in Groups : g # t => groups'[g] = groups[g],
         mark = "changed" /\ t \in Groups /\ groups[t] # NoObject => groups'[t] # NoObject
  PROVE  Checked(q)' /\ (HoldsLock(q)' <=> HoldsLock(q))
  <1>1. HubTypeOK
    BY DEF HubIInv
  <1>2. CASE req[q] = Idle
    <2>1. req'[q] = Idle
      BY <1>1, <1>2, MarkedHandler
    <2>. QED
      BY <1>2, <2>1 DEF Checked, Pending, HoldsLock
  <1>3. CASE req[q] # Idle
    <2>1. /\ req'[q] # Idle
          /\ req'[q].op = req[q].op
          /\ req'[q].target = req[q].target
          /\ req'[q].row = req[q].row
          /\ req'[q].seen = "fresh" => req[q].seen = "fresh"
          /\ req'[q].seen # "gone" => req[q].seen # "gone"
          /\ req[q].target = t =>
               /\ req'[q].seen # "fresh"
               /\ mark = "gone" => req'[q].seen = "gone"
      BY <1>1, <1>3, MarkedHandler
    <2>2. ASSUME req[q].op \in GroupOps
          PROVE  /\ req'[q].seen = "fresh" => groups'[req[q].target] = groups[req[q].target]
                 /\ req'[q].seen # "gone" /\ groups[req[q].target] # NoObject =>
                      groups'[req[q].target] # NoObject
      <3>1. req[q].target \in Groups
        BY <1>1, <1>3, <2>2, HandlerTypes DEF GroupHandlers
      <3>. QED
        BY <2>1, <3>1
    <2>3. Checked(q)'
      BY <1>3, <2>1, <2>2, CheckKept
    <2>. QED
      BY <1>3, <2>1, <2>3 DEF HoldsLock
  <1>. QED
    BY <1>2, <1>3

\* A handler that is not touched, in a step that changes no group.
LEMMA UntouchedKeepsChecks ==
  ASSUME HubIInv, NEW q \in Requests, req'[q] = req[q], groups' = groups,
         HoldsLock(q) => OnlyAdds
  PROVE  Checked(q)' /\ (HoldsLock(q)' <=> HoldsLock(q))
  <1>1. CASE req[q] = Idle
    BY <1>1 DEF Checked, Pending, HoldsLock
  <1>2. CASE req[q] # Idle
    <2>1. OnlyRemoves
      BY DEF OnlyRemoves
    <2>2. Checked(q)'
      BY <1>2, <2>1, CheckKept
    <2>. QED
      BY <2>2 DEF HoldsLock
  <1>. QED
    BY <1>1, <1>2

(***************************************************************************)
(* A step of handler r keeps the invariant, if the tables keep their types,*)
(* r knows what it has to, and everybody else keeps what they know.        *)
(***************************************************************************)
LEMMA HandlerStep ==
  ASSUME HubIInv, NEW r \in Requests,
         policies' \in [Policies -> PolicyRows \cup {NoObject}],
         \A p \in Policies : Exists(p)' => Len(policies'[p].versions) \in 1..MaxVersions,
         groups' \in [Groups -> GroupRows \cup {NoObject}],
         scopes' \subseteq Groups,
         lock' \in Requests \cup {Free}, lock' # lock => lock \in {Free, r},
         req' \in [Requests -> HandlerStates],
         Checked(r)', HoldsLock(r)' => lock' = r,
         \A q \in Requests : q # r => Checked(q)' /\ (HoldsLock(q)' <=> HoldsLock(q))
  PROVE  HubIInv'
  <1>1. HubTypeOK'
    BY DEF HubTypeOK, HandlerStates
  <1>2. LockHeld'
    <2>1. SUFFICES ASSUME NEW q \in Requests, HoldsLock(q)', q # r
                   PROVE  lock' = q
      BY DEF LockHeld
    <2>2. HoldsLock(q)
      BY <2>1
    <2>3. lock = q
      BY <2>2 DEF HubIInv, LockHeld
    <2>. QED
      BY <2>1, <2>2, <2>3, OthersUnlocked
  <1>. QED
    BY <1>1, <1>2 DEF HubIInv

\* A request begins: it has checked what it is going to rely on.
LEMMA RequestBegins ==
  ASSUME HubIInv, NEW r \in Requests, NEW op, NEW t, NEW row,
         Begin(r, op, t, row), UNCHANGED <<policies, groups, scopes>>,
         [op |-> op, target |-> t, row |-> row, seen |-> "fresh"] \in HandlerStates,
         WithPolicyReferenceLock(r) \/ (op \notin LockedOps /\ UNCHANGED lock),
         Checked(r)'
  PROVE  HubIInv'
  <1>1. HubTypeOK
    BY DEF HubIInv
  <1>2. /\ req' \in [Requests -> HandlerStates]
        /\ req'[r] = [op |-> op, target |-> t, row |-> row, seen |-> "fresh"]
        /\ \A q \in Requests : q # r => req'[q] = req[q]
    BY <1>1 DEF Begin, HubTypeOK, HandlerStates
  <1>3. \A q \in Requests : q # r => Checked(q)' /\ (HoldsLock(q)' <=> HoldsLock(q))
    <2>1. OnlyAdds
      BY DEF OnlyAdds
    <2>. QED
      BY <1>2, <2>1, UntouchedKeepsChecks
  <1>4. /\ lock' \in Requests \cup {Free}
        /\ lock' # lock => lock \in {Free, r}
        /\ HoldsLock(r)' => lock' = r
    <2>1. req'[r].op = op
      BY <1>2
    <2>. QED
      BY <1>1, <2>1 DEF WithPolicyReferenceLock, HubTypeOK, HoldsLock
  <1>5. /\ policies' \in [Policies -> PolicyRows \cup {NoObject}]
        /\ \A p \in Policies : Exists(p)' => Len(policies'[p].versions) \in 1..MaxVersions
        /\ groups' \in [Groups -> GroupRows \cup {NoObject}]
        /\ scopes' \subseteq Groups
    BY <1>1 DEF HubTypeOK, Exists
  <1>. QED
    BY <1>2, <1>3, <1>4, <1>5, HandlerStep

\* A handler returns and the tables stay; its lock is released if it had it.
LEMMA HandlerReturns ==
  ASSUME HubIInv, NEW r \in Requests, req' = [req EXCEPT ![r] = Idle],
         policies' = policies, groups' = groups, scopes' \subseteq Groups,
         Unlock(r) \/ UNCHANGED lock
  PROVE  HubIInv'
  <1>1. HubTypeOK
    BY DEF HubIInv
  <1>2. /\ req' \in [Requests -> HandlerStates] /\ req'[r] = Idle
        /\ \A q \in Requests : q # r => req'[q] = req[q]
    BY <1>1 DEF HubTypeOK, HandlerStates
  <1>3. \A q \in Requests : q # r => Checked(q)' /\ (HoldsLock(q)' <=> HoldsLock(q))
    <2>1. OnlyAdds
      BY DEF OnlyAdds
    <2>. QED
      BY <1>2, <2>1, UntouchedKeepsChecks
  <1>4. Checked(r)' /\ ~HoldsLock(r)'
    BY <1>2 DEF Checked, Pending, HoldsLock
  <1>5. lock' \in Requests \cup {Free} /\ (lock' # lock => lock \in {Free, r})
    BY <1>1 DEF Unlock, HubTypeOK
  <1>6. /\ policies' \in [Policies -> PolicyRows \cup {NoObject}]
        /\ \A p \in Policies : Exists(p)' => Len(policies'[p].versions) \in 1..MaxVersions
        /\ groups' \in [Groups -> GroupRows \cup {NoObject}]
    BY <1>1 DEF HubTypeOK, Exists
  <1>. QED
    BY <1>2, <1>3, <1>4, <1>5, <1>6, HandlerStep

-----------------------------------------------------------------------------
(***************************************************************************)
(* The actions keep the invariant.                                         *)
(***************************************************************************)
LEMMA CreatePolicyKeeps ==
  ASSUME HubIInv, NEW p \in Policies, NEW o \in Owners, NEW l \in BOOLEAN, NEW c \in PolicyContents,
         CreatePolicy(p, o, l, c)
  PROVE  HubIInv'
  <1>1. HubTypeOK
    BY DEF HubIInv
  <1>2. UNCHANGED <<groups, scopes, lock, req>> /\ ~Exists(p)
        /\ policies' = [policies EXCEPT ![p] = FirstVersion(o, l, c)]
    BY DEF CreatePolicy, AddPolicy
  <1>3. OnlyAdds
    BY <1>1, <1>2 DEF OnlyAdds, HubTypeOK
  <1>4. FirstVersion(o, l, c) \in PolicyRows /\ Len(FirstVersion(o, l, c).versions) = 1
    BY DEF FirstVersion, PolicyRows
  <1>5. HubTypeOK'
    <2>1. policies' \in [Policies -> PolicyRows \cup {NoObject}]
      BY <1>1, <1>2, <1>4 DEF HubTypeOK
    <2>2. \A x \in Policies : Exists(x)' => Len(policies'[x].versions) \in 1..MaxVersions
      <3>1. 1 \in 1..MaxVersions
        BY CatalogueAssumption
      <3>2. /\ policies'[p] = FirstVersion(o, l, c)
            /\ \A x \in Policies : x # p => policies'[x] = policies[x]
        BY <1>1, <1>2 DEF HubTypeOK
      <3>3. SUFFICES ASSUME NEW x \in Policies, Exists(x)'
                     PROVE  Len(policies'[x].versions) \in 1..MaxVersions
        OBVIOUS
      <3>4. CASE x = p
        BY <1>4, <3>1, <3>2, <3>4
      <3>5. CASE x # p
        <4>1. policies'[x] = policies[x] /\ Exists(x)
          BY <3>2, <3>3, <3>5 DEF Exists
        <4>2. Len(policies[x].versions) \in 1..MaxVersions
          BY <1>1, <4>1 DEF HubTypeOK
        <4>. QED
          BY <4>1, <4>2
      <3>. QED
        BY <3>4, <3>5
    <2>. QED
      BY <1>1, <1>2, <2>1, <2>2 DEF HubTypeOK
  <1>6. \A q \in Requests : Checked(q)' /\ (HoldsLock(q)' <=> HoldsLock(q))
    BY <1>2, <1>3, UntouchedKeepsChecks
  <1>. QED
    BY <1>2, <1>5, <1>6 DEF HubIInv, LockHeld

LEMMA PolicyRevisionBegins ==
  ASSUME HubIInv, NEW r \in Requests, NEW p \in Policies, NEW c \in PolicyContents, NEW l \in BOOLEAN,
         NEW op \in {"policyUpdate", "policyRollback"},
         WithPolicyReferenceLock(r), Exists(p), ~ReferencedByOtherTenant(p),
         Len(policies[p].versions) < MaxVersions,
         Begin(r, op, p, Revised(p, c, l)), UNCHANGED <<policies, groups, scopes>>
  PROVE  HubIInv'
  <1>1. HubTypeOK
    BY DEF HubIInv
  <1>2. PICK row : row = Revised(p, c, l)
    OBVIOUS
  <1>3. row \in PolicyRows
    BY <1>1, <1>2, RevisedRow
  <1>4. [op |-> op, target |-> p, row |-> row, seen |-> "fresh"] \in HandlerStates
    BY <1>3 DEF HandlerStates, PolicyHandlers, PolicyOps, RowMarks
  <1>5. Begin(r, op, p, row)
    BY <1>2
  <1>6. req'[r] = [op |-> op, target |-> p, row |-> row, seen |-> "fresh"]
    BY <1>1, <1>5 DEF Begin, HubTypeOK
  <1>7. Checked(r)'
    <2>1. Exists(p)' /\ ~ReferencedByOtherTenant(p)' /\ row = Revised(p, c, l)'
          /\ Len(policies'[p].versions) < MaxVersions
      BY <1>2 DEF Exists, ReferencedByOtherTenant, ReferencingGroups, Members, Revised
    <2>2. req'[r].op = op /\ req'[r].target = p /\ req'[r].row = row
      BY <1>6
    <2>. QED
      BY <2>1, <2>2 DEF Checked, Pending
  <1>. QED
    BY <1>4, <1>5, <1>7, RequestBegins

LEMMA PolicyRequestsKeep ==
  ASSUME HubIInv, NEW r \in Requests, PolicyRequests(r)
  PROVE  HubIInv'
  <1>1. HubTypeOK
    BY DEF HubIInv
  <1>2. PICK p \in Policies :
          \/ \E c \in PolicyContents, l \in BOOLEAN : PolicyUpdate(r, p, c, l)
          \/ PolicyRollback(r, p)
          \/ PolicyDelete(r, p)
    BY DEF PolicyRequests
  <1>3. ASSUME NEW c \in PolicyContents, NEW l \in BOOLEAN, PolicyUpdate(r, p, c, l)
        PROVE  HubIInv'
    BY <1>3, PolicyRevisionBegins DEF PolicyUpdate
  <1>4. CASE PolicyRollback(r, p)
    <2>1. policies[p] \in PolicyRows /\ Len(policies[p].versions) \in 2..(MaxVersions - 1)
      BY <1>1, <1>4 DEF HubTypeOK, PolicyRollback, Exists
    <2>2. PICK c : c = policies[p].versions[Len(policies[p].versions) - 1]
      OBVIOUS
    <2>3. c \in PolicyContents
      <3>1. policies[p].versions \in Seq(PolicyContents)
        BY <2>1 DEF PolicyRows
      <3>2. Len(policies[p].versions) - 1 \in 1..Len(policies[p].versions)
        BY <2>1, CatalogueAssumption
      <3>. QED
        BY <2>2, <3>1, <3>2
    <2>4. PICK l : l = policies[p].labelled
      OBVIOUS
    <2>5. l \in BOOLEAN
      BY <2>1, <2>4 DEF PolicyRows
    <2>6. Begin(r, "policyRollback", p, Revised(p, c, l))
      BY <1>4, <2>2, <2>4 DEF PolicyRollback
    <2>7. Len(policies[p].versions) < MaxVersions
      BY <2>1, CatalogueAssumption
    <2>. QED
      BY <1>4, <2>3, <2>5, <2>6, <2>7, PolicyRevisionBegins DEF PolicyRollback
  <1>5. CASE PolicyDelete(r, p)
    <2>1. [op |-> "policyDelete", target |-> p, row |-> NoObject, seen |-> "fresh"] \in HandlerStates
      BY DEF HandlerStates, PolicyHandlers, PolicyOps, RowMarks
    <2>2. req'[r] = [op |-> "policyDelete", target |-> p, row |-> NoObject, seen |-> "fresh"]
      BY <1>1, <1>5 DEF PolicyDelete, Begin, HubTypeOK
    <2>3. Exists(p)' /\ ReferencingGroups(p)' = {}
      BY <1>5 DEF PolicyDelete, Exists, ReferencingGroups, Members
    <2>4. Checked(r)'
      BY <2>2, <2>3 DEF Checked, Pending
    <2>. QED
      BY <1>5, <2>1, <2>4, RequestBegins DEF PolicyDelete
  <1>. QED
    BY <1>2, <1>3, <1>4, <1>5

LEMMA GroupRequestsKeep ==
  ASSUME HubIInv, NEW r \in Requests, GroupRequests(r)
  PROVE  HubIInv'
  <1>1. HubTypeOK
    BY DEF HubIInv
  <1>2. PICK g \in Groups :
          \/ \E o \in Owners, in \in GroupInputs : GroupCreate(r, g, o, in)
          \/ \E in \in GroupInputs : GroupUpdate(r, g, in)
          \/ SetEnabled(r, g)
          \/ GroupDelete(r, g)
    BY DEF GroupRequests
  <1>3. ASSUME NEW o \in Owners, NEW in \in GroupInputs, GroupCreate(r, g, o, in)
        PROVE  HubIInv'
    <2>1. PICK row : row = [owner |-> o, enabled |-> in.enabled, spec |-> in.spec]
      OBVIOUS
    <2>2. row \in GroupRows /\ row.spec = in.spec
      BY <2>1, CatalogueAssumption DEF GroupRows
    <2>3. [op |-> "groupCreate", target |-> g, row |-> row, seen |-> "fresh"] \in HandlerStates
      BY <2>2 DEF HandlerStates, GroupHandlers, GroupOps, RowMarks
    <2>4. Begin(r, "groupCreate", g, row) /\ WithPolicyReferenceLock(r)
          /\ UNCHANGED <<policies, groups, scopes>> /\ MembersComplete(row.spec)
      BY <1>3, <2>1, <2>2 DEF GroupCreate
    <2>5. req'[r] = [op |-> "groupCreate", target |-> g, row |-> row, seen |-> "fresh"]
      BY <1>1, <2>4 DEF Begin, HubTypeOK
    <2>6. MembersComplete(row.spec)'
      BY <2>4 DEF MembersComplete, Exists
    <2>7. Checked(r)'
      BY <2>2, <2>5, <2>6 DEF Checked, Pending
    <2>. QED
      BY <2>3, <2>4, <2>7, RequestBegins
  <1>4. ASSUME NEW in \in GroupInputs, GroupUpdate(r, g, in)
        PROVE  HubIInv'
    <2>1. PICK row : row = [owner |-> groups[g].owner, enabled |-> in.enabled, spec |-> in.spec]
      OBVIOUS
    <2>a. groups[g] \in GroupRows
      BY <1>1, <1>4 DEF HubTypeOK, GroupUpdate
    <2>2. row \in GroupRows /\ row.spec = in.spec /\ row.owner = groups[g].owner
      BY <2>a, <2>1, CatalogueAssumption DEF GroupRows
    <2>3. [op |-> "groupUpdate", target |-> g, row |-> row, seen |-> "fresh"] \in HandlerStates
      BY <2>2 DEF HandlerStates, GroupHandlers, GroupOps, RowMarks
    <2>4. Begin(r, "groupUpdate", g, row) /\ WithPolicyReferenceLock(r) /\ groups[g] # NoObject
          /\ UNCHANGED <<policies, groups, scopes>> /\ MembersComplete(row.spec)
      BY <1>4, <2>1, <2>2 DEF GroupUpdate
    <2>5. req'[r] = [op |-> "groupUpdate", target |-> g, row |-> row, seen |-> "fresh"]
      BY <1>1, <2>4 DEF Begin, HubTypeOK
    <2>6. MembersComplete(row.spec)' /\ groups'[g] # NoObject /\ row.owner = groups'[g].owner
      BY <2>2, <2>4 DEF MembersComplete, Exists
    <2>7. Checked(r)'
      BY <2>2, <2>5, <2>6 DEF Checked, Pending
    <2>. QED
      BY <2>3, <2>4, <2>7, RequestBegins
  <1>5. CASE SetEnabled(r, g)
    <2>1. PICK row : row = [groups[g] EXCEPT !.enabled = ~@]
      OBVIOUS
    <2>2. row \in GroupRows
      <3>1. groups[g] \in GroupRows
        BY <1>1, <1>5 DEF HubTypeOK, SetEnabled
      <3>. QED
        BY <2>1, <3>1 DEF GroupRows
    <2>3. [op |-> "setEnabled", target |-> g, row |-> row, seen |-> "fresh"] \in HandlerStates
      BY <2>2 DEF HandlerStates, GroupHandlers, GroupOps, RowMarks
    <2>4. Begin(r, "setEnabled", g, row) /\ UNCHANGED <<policies, groups, scopes, lock>>
          /\ groups[g] # NoObject
      BY <1>5, <2>1 DEF SetEnabled
    <2>5. req'[r] = [op |-> "setEnabled", target |-> g, row |-> row, seen |-> "fresh"]
      BY <1>1, <2>4 DEF Begin, HubTypeOK
    <2>6. groups'[g] # NoObject /\ row = [groups'[g] EXCEPT !.enabled = ~@]
      BY <2>1, <2>4
    <2>7. Checked(r)'
      BY <2>5, <2>6 DEF Checked, Pending
    <2>8. "setEnabled" \notin LockedOps
      BY DEF LockedOps
    <2>. QED
      BY <2>3, <2>4, <2>7, <2>8, RequestBegins
  <1>6. CASE GroupDelete(r, g)
    <2>1. [op |-> "groupDelete", target |-> g, row |-> NoObject, seen |-> "fresh"] \in HandlerStates
      BY DEF HandlerStates, GroupHandlers, GroupOps, RowMarks
    <2>2. req'[r] = [op |-> "groupDelete", target |-> g, row |-> NoObject, seen |-> "fresh"]
      BY <1>1, <1>6 DEF GroupDelete, Begin, HubTypeOK
    <2>3. Checked(r)'
      BY <1>6, <2>2 DEF Checked, Pending, GroupDelete
    <2>4. "groupDelete" \notin LockedOps
      BY DEF LockedOps
    <2>. QED
      BY <1>6, <2>1, <2>3, <2>4, RequestBegins DEF GroupDelete
  <1>. QED
    BY <1>2, <1>3, <1>4, <1>5, <1>6

\* Marking keeps the handlers handlers.
LEMMA MarkedType ==
  ASSUME HubTypeOK, NEW r \in Requests, NEW t, NEW mark \in {"changed", "gone"}
  PROVE  Marked(r, t, mark) \in [Requests -> HandlerStates]
  <1>1. \A q \in Requests : Marked(r, t, mark)[q] \in HandlerStates
    BY MarkedHandler
  <1>2. Marked(r, t, mark) = [q \in Requests |-> Marked(r, t, mark)[q]]
    BY DEF Marked
  <1>. QED
    BY <1>1, <1>2

LEMMA HandlerEnds ==
  ASSUME HubTypeOK, NEW r \in Requests, NEW t, NEW mark \in {"changed", "gone"}, Ends(r, t, mark)
  PROVE  /\ req' \in [Requests -> HandlerStates] /\ req'[r] = Idle
         /\ \A q \in Requests : q # r => req'[q] = Marked(r, t, mark)[q]
  BY MarkedType DEF Ends, HandlerStates

LEMMA HandlerContinues ==
  ASSUME HubTypeOK, NEW r \in Requests, req[r] \in GroupHandlers,
         NEW op \in GroupOps, NEW mark \in {"changed", "gone"}, Continues(r, op, mark)
  PROVE  /\ req' \in [Requests -> HandlerStates] /\ req'[r] # Idle /\ req'[r].op = op
         /\ \A q \in Requests : q # r => req'[q] = Marked(r, req[r].target, mark)[q]
  <1>1. PICK t : t = req[r].target
    OBVIOUS
  <1>2. Marked(r, t, mark) \in [Requests -> HandlerStates] /\ Marked(r, t, mark)[r] = req[r]
    BY MarkedType, MarkedHandler
  <1>3. PICK n : n = [req[r] EXCEPT !.op = op]
    OBVIOUS
  <1>4. n \in GroupHandlers /\ n.op = op
    BY <1>3 DEF GroupHandlers
  <1>5. req' = [Marked(r, t, mark) EXCEPT ![r] = n]
    BY <1>1, <1>2, <1>3 DEF Continues
  <1>. QED
    BY <1>1, <1>2, <1>4, <1>5, IdleOp DEF HandlerStates

LEMMA PolicyWriteKeeps ==
  ASSUME HubIInv, NEW r \in Requests, PolicyWrite(r)
  PROVE  HubIInv'
  <1>1. HubTypeOK /\ Checked(r) /\ (\A q \in Requests : HoldsLock(q) => lock = q)
    BY DEF HubIInv, LockHeld
  <1>2. req[r] # Idle /\ req[r].op \in {"policyUpdate", "policyRollback"}
    BY DEF PolicyWrite, Pending
  <1>3. lock = r
    BY <1>1, <1>2 DEF HoldsLock, LockedOps
  <1>4. PICK p : p = req[r].target
    OBVIOUS
  <1>5. p \in Policies
    BY <1>1, <1>2, <1>4, HandlerTypes DEF PolicyHandlers, PolicyOps
  <1>6. PICK row : row = req[r].row
    OBVIOUS
  <1>7. /\ Exists(p) /\ Len(policies[p].versions) < MaxVersions
        /\ \E c \in PolicyContents, l \in BOOLEAN : row = Revised(p, c, l)
    BY <1>1, <1>4, <1>6 DEF Checked, PolicyWrite
  <1>8. /\ policies' = policies \/ policies' = [policies EXCEPT ![p] = row]
        /\ Ends(r, p, "changed") /\ Unlock(r) /\ UNCHANGED <<groups, scopes>>
    BY <1>4, <1>6 DEF PolicyWrite
  <1>9. row \in PolicyRows /\ Len(row.versions) = Len(policies[p].versions) + 1
    BY <1>1, <1>5, <1>7, RevisedRow
  <1>10. Len(policies[p].versions) + 1 \in 1..MaxVersions
    <2>1. Len(policies[p].versions) \in 1..MaxVersions
      BY <1>1, <1>5, <1>7 DEF HubTypeOK
    <2>. QED
      BY <1>7, <2>1, CatalogueAssumption
  <1>11. /\ policies' \in [Policies -> PolicyRows \cup {NoObject}]
         /\ \A x \in Policies : Exists(x)' => Len(policies'[x].versions) \in 1..MaxVersions
    <2>1. CASE policies' = policies
      BY <1>1, <2>1 DEF HubTypeOK, Exists
    <2>2. CASE policies' = [policies EXCEPT ![p] = row]
      <3>1. /\ policies' \in [Policies -> PolicyRows \cup {NoObject}]
            /\ policies'[p] = row
            /\ \A x \in Policies : x # p => policies'[x] = policies[x]
        BY <1>1, <1>5, <1>9, <2>2 DEF HubTypeOK
      <3>2. \A x \in Policies : Exists(x) => Len(policies[x].versions) \in 1..MaxVersions
        BY <1>1 DEF HubTypeOK
      <3>. QED
        BY <1>9, <1>10, <3>1, <3>2 DEF Exists
    <2>. QED
      BY <1>8, <2>1, <2>2
  <1>12. PICK mark \in {"changed", "gone"} : mark = "changed"
    OBVIOUS
  <1>13. /\ req' \in [Requests -> HandlerStates] /\ req'[r] = Idle
         /\ \A q \in Requests : q # r => req'[q] = Marked(r, p, mark)[q]
    BY <1>1, <1>8, <1>12, HandlerEnds
  <1>14. \A q \in Requests : q # r => Checked(q)' /\ (HoldsLock(q)' <=> HoldsLock(q))
    <2>1. \A q \in Requests : q # r => ~HoldsLock(q)
      BY <1>3, OthersUnlocked
    <2>. QED
      BY <1>8, <1>13, <2>1, MarkedKeepsChecks
  <1>15. Checked(r)' /\ ~HoldsLock(r)'
    BY <1>13 DEF Checked, Pending, HoldsLock
  <1>16. lock' \in Requests \cup {Free} /\ (lock' # lock => lock \in {Free, r})
    BY <1>1, <1>8 DEF Unlock, HubTypeOK
  <1>17. groups' \in [Groups -> GroupRows \cup {NoObject}] /\ scopes' \subseteq Groups
    BY <1>1, <1>8 DEF HubTypeOK
  <1>. QED
    BY <1>11, <1>13, <1>14, <1>15, <1>16, <1>17, HandlerStep

LEMMA PolicyEraseKeeps ==
  ASSUME HubIInv, NEW r \in Requests, PolicyErase(r)
  PROVE  HubIInv'
  <1>1. HubTypeOK /\ (\A q \in Requests : HoldsLock(q) => lock = q)
    BY DEF HubIInv, LockHeld
  <1>2. req[r] # Idle /\ req[r].op = "policyDelete"
    BY DEF PolicyErase, Pending
  <1>3. lock = r
    BY <1>1, <1>2 DEF HoldsLock, LockedOps
  <1>4. PICK p : p = req[r].target
    OBVIOUS
  <1>5. p \in Policies
    BY <1>1, <1>2, <1>4, HandlerTypes DEF PolicyHandlers, PolicyOps
  <1>6. /\ policies' = [policies EXCEPT ![p] = NoObject]
        /\ Ends(r, p, "gone") /\ Unlock(r) /\ UNCHANGED <<groups, scopes>>
    BY <1>4 DEF PolicyErase
  <1>7. /\ policies' \in [Policies -> PolicyRows \cup {NoObject}]
        /\ \A x \in Policies : Exists(x)' => Len(policies'[x].versions) \in 1..MaxVersions
    <2>1. /\ policies' \in [Policies -> PolicyRows \cup {NoObject}]
          /\ policies'[p] = NoObject
          /\ \A x \in Policies : x # p => policies'[x] = policies[x]
      BY <1>1, <1>5, <1>6 DEF HubTypeOK
    <2>2. \A x \in Policies : Exists(x) => Len(policies[x].versions) \in 1..MaxVersions
      BY <1>1 DEF HubTypeOK
    <2>. QED
      BY <2>1, <2>2 DEF Exists
  <1>8. PICK mark \in {"changed", "gone"} : mark = "gone"
    OBVIOUS
  <1>9. /\ req' \in [Requests -> HandlerStates] /\ req'[r] = Idle
        /\ \A q \in Requests : q # r => req'[q] = Marked(r, p, mark)[q]
    BY <1>1, <1>6, <1>8, HandlerEnds
  <1>10. \A q \in Requests : q # r => Checked(q)' /\ (HoldsLock(q)' <=> HoldsLock(q))
    <2>1. \A q \in Requests : q # r => ~HoldsLock(q)
      BY <1>3, OthersUnlocked
    <2>. QED
      BY <1>6, <1>8, <1>9, <2>1, MarkedKeepsChecks
  <1>11. Checked(r)' /\ ~HoldsLock(r)'
    BY <1>9 DEF Checked, Pending, HoldsLock
  <1>12. lock' \in Requests \cup {Free} /\ (lock' # lock => lock \in {Free, r})
    BY <1>1, <1>6 DEF Unlock, HubTypeOK
  <1>13. groups' \in [Groups -> GroupRows \cup {NoObject}] /\ scopes' \subseteq Groups
    BY <1>1, <1>6 DEF HubTypeOK
  <1>. QED
    BY <1>7, <1>9, <1>10, <1>11, <1>12, <1>13, HandlerStep

(***************************************************************************)
(* A group row is written by a handler that goes on or ends: the others    *)
(* keep what they know if they work without the lock, or the write is one  *)
(* that takes no check back.                                               *)
(***************************************************************************)
LEMMA GroupRowWritten ==
  ASSUME HubIInv, NEW r \in Requests, NEW g \in Groups, NEW row \in GroupRows \cup {NoObject},
         NEW mark \in {"changed", "gone"},
         mark = "changed" => row # NoObject,
         groups' = [groups EXCEPT ![g] = row], UNCHANGED <<policies, scopes, lock>>,
         lock = r \/ OnlyRemoves,
         req' \in [Requests -> HandlerStates],
         \A q \in Requests : q # r => req'[q] = Marked(r, g, mark)[q],
         Checked(r)', HoldsLock(r)' => lock = r
  PROVE  HubIInv'
  <1>1. HubTypeOK
    BY DEF HubIInv
  <1>2. /\ groups' \in [Groups -> GroupRows \cup {NoObject}]
        /\ groups'[g] = row /\ \A x \in Groups : x # g => groups'[x] = groups[x]
    BY <1>1 DEF HubTypeOK
  <1>3. OnlyAdds
    BY DEF OnlyAdds
  <1>4. ASSUME NEW q \in Requests, q # r
        PROVE  Checked(q)' /\ (HoldsLock(q)' <=> HoldsLock(q))
    <2>1. HoldsLock(q) => OnlyRemoves
      BY <1>4, OthersUnlocked
    <2>. QED
      BY <1>2, <1>3, <1>4, <2>1, MarkedKeepsChecks
  <1>5. /\ policies' \in [Policies -> PolicyRows \cup {NoObject}]
        /\ \A x \in Policies : Exists(x)' => Len(policies'[x].versions) \in 1..MaxVersions
        /\ scopes' \subseteq Groups /\ lock' \in Requests \cup {Free} /\ lock' = lock
    BY <1>1 DEF HubTypeOK, Exists
  <1>. QED
    BY <1>2, <1>4, <1>5, HandlerStep

LEMMA GroupInsertKeeps ==
  ASSUME HubIInv, NEW r \in Requests, GroupInsert(r)
  PROVE  HubIInv'
  <1>1. HubTypeOK /\ Checked(r) /\ (\A q \in Requests : HoldsLock(q) => lock = q)
    BY DEF HubIInv, LockHeld
  <1>2. req[r] # Idle /\ req[r].op = "groupCreate"
    BY DEF GroupInsert, Pending
  <1>3. lock = r /\ req[r] \in GroupHandlers
    BY <1>1, <1>2, HandlerTypes DEF HoldsLock, LockedOps, GroupOps
  <1>4. PICK g : g = req[r].target
    OBVIOUS
  <1>5. PICK row : row = req[r].row
    OBVIOUS
  <1>6. g \in Groups /\ row \in GroupRows
    BY <1>1, <1>3, <1>4, <1>5 DEF GroupHandlers, Checked, GroupInsert
  <1>7. CASE groups[g] = NoObject
    <2>1. /\ groups' = [groups EXCEPT ![g] = row]
          /\ Continues(r, "syncScope", "gone") /\ UNCHANGED <<policies, scopes, lock>>
      BY <1>4, <1>5, <1>7 DEF GroupInsert
    <2>2. PICK mark \in {"changed", "gone"} : mark = "gone"
      OBVIOUS
    <2>3. PICK op \in GroupOps : op = "syncScope"
      BY DEF GroupOps
    <2>4. /\ req' \in [Requests -> HandlerStates] /\ req'[r] # Idle /\ req'[r].op = op
          /\ \A q \in Requests : q # r => req'[q] = Marked(r, req[r].target, mark)[q]
      BY <1>1, <1>3, <2>1, <2>2, <2>3, HandlerContinues
    <2>5. Checked(r)'
      BY <2>3, <2>4 DEF Checked, Pending
    <2>. QED
      BY <1>3, <1>4, <1>6, <2>1, <2>2, <2>4, <2>5, GroupRowWritten
  <1>8. CASE groups[g] # NoObject
    <2>1. req' = [req EXCEPT ![r] = Idle] /\ Unlock(r) /\ UNCHANGED <<policies, groups, scopes>>
      BY <1>4, <1>8 DEF GroupInsert
    <2>2. scopes' \subseteq Groups
      BY <1>1, <2>1 DEF HubTypeOK
    <2>. QED
      BY <2>1, <2>2, HandlerReturns
  <1>. QED
    BY <1>7, <1>8

LEMMA GroupWriteKeeps ==
  ASSUME HubIInv, NEW r \in Requests, GroupWrite(r)
  PROVE  HubIInv'
  <1>1. HubTypeOK /\ Checked(r) /\ (\A q \in Requests : HoldsLock(q) => lock = q)
    BY DEF HubIInv, LockHeld
  <1>2. req[r] # Idle /\ req[r].op = "groupUpdate"
    BY DEF GroupWrite, Pending
  <1>3. lock = r /\ req[r] \in GroupHandlers
    BY <1>1, <1>2, HandlerTypes DEF HoldsLock, LockedOps, GroupOps
  <1>4. PICK g : g = req[r].target
    OBVIOUS
  <1>5. PICK row : row = req[r].row
    OBVIOUS
  <1>6. g \in Groups /\ row \in GroupRows /\ row # NoObject
    BY <1>1, <1>3, <1>4, <1>5, CatalogueAssumption DEF GroupHandlers, Checked, GroupWrite
  <1>7. CASE UpdateCAS(r)
    <2>1. /\ groups' = [groups EXCEPT ![g] = row]
          /\ Continues(r, "syncScope", "changed") /\ UNCHANGED <<policies, scopes, lock>>
      BY <1>4, <1>5, <1>7 DEF GroupWrite
    <2>2. PICK mark \in {"changed", "gone"} : mark = "changed"
      OBVIOUS
    <2>3. PICK op \in GroupOps : op = "syncScope"
      BY DEF GroupOps
    <2>4. /\ req' \in [Requests -> HandlerStates] /\ req'[r] # Idle /\ req'[r].op = op
          /\ \A q \in Requests : q # r => req'[q] = Marked(r, req[r].target, mark)[q]
      BY <1>1, <1>3, <2>1, <2>2, <2>3, HandlerContinues
    <2>5. Checked(r)'
      BY <2>3, <2>4 DEF Checked, Pending
    <2>. QED
      BY <1>3, <1>4, <1>6, <2>1, <2>2, <2>4, <2>5, GroupRowWritten
  <1>8. CASE ~UpdateCAS(r)
    <2>1. req' = [req EXCEPT ![r] = Idle] /\ Unlock(r) /\ UNCHANGED <<policies, groups, scopes>>
      BY <1>8 DEF GroupWrite
    <2>2. scopes' \subseteq Groups
      BY <1>1, <2>1 DEF HubTypeOK
    <2>. QED
      BY <2>1, <2>2, HandlerReturns
  <1>. QED
    BY <1>7, <1>8

LEMMA EnabledWriteKeeps ==
  ASSUME HubIInv, NEW r \in Requests, EnabledWrite(r)
  PROVE  HubIInv'
  <1>1. HubTypeOK /\ Checked(r)
    BY DEF HubIInv
  <1>2. req[r] # Idle /\ req[r].op = "setEnabled"
    BY DEF EnabledWrite, Pending
  <1>3. req[r] \in GroupHandlers
    BY <1>1, <1>2, HandlerTypes DEF GroupOps
  <1>4. PICK g : g = req[r].target
    OBVIOUS
  <1>5. PICK row : row = req[r].row
    OBVIOUS
  <1>6. g \in Groups
    BY <1>3, <1>4 DEF GroupHandlers
  <1>7. CASE UpdateCAS(r)
    <2>1. /\ groups' = [groups EXCEPT ![g] = row]
          /\ Ends(r, g, "changed") /\ UNCHANGED <<policies, scopes, lock>>
      BY <1>4, <1>5, <1>7 DEF EnabledWrite
    <2>2. PICK mark \in {"changed", "gone"} : mark = "changed"
      OBVIOUS
    <2>3. groups[g] # NoObject /\ row = [groups[g] EXCEPT !.enabled = ~@]
      BY <1>1, <1>4, <1>5, <1>7 DEF Checked, EnabledWrite, UpdateCAS
    <2>4. groups[g] \in GroupRows
      BY <1>1, <1>6, <2>3 DEF HubTypeOK
    <2>5. row \in GroupRows /\ row.spec = groups[g].spec /\ row.owner = groups[g].owner
      BY <2>3, <2>4 DEF GroupRows
    <2>6. row # NoObject
      BY <2>5, CatalogueAssumption
    <2>7. OnlyRemoves
      <3>1. groups'[g] = row /\ \A x \in Groups : x # g => groups'[x] = groups[x]
        BY <1>1, <1>6, <2>1 DEF HubTypeOK
      <3>. QED
        BY <2>3, <2>5, <3>1 DEF OnlyRemoves
    <2>8. /\ req' \in [Requests -> HandlerStates] /\ req'[r] = Idle
          /\ \A q \in Requests : q # r => req'[q] = Marked(r, g, mark)[q]
      BY <1>1, <2>1, <2>2, HandlerEnds
    <2>9. Checked(r)' /\ ~HoldsLock(r)'
      BY <2>8 DEF Checked, Pending, HoldsLock
    <2>. QED
      BY <1>6, <2>1, <2>2, <2>5, <2>6, <2>7, <2>8, <2>9, GroupRowWritten
  <1>8. CASE ~UpdateCAS(r)
    <2>1. req' = [req EXCEPT ![r] = Idle] /\ UNCHANGED <<policies, groups, scopes, lock>>
      BY <1>8 DEF EnabledWrite
    <2>2. scopes' \subseteq Groups
      BY <1>1, <2>1 DEF HubTypeOK
    <2>. QED
      BY <2>1, <2>2, HandlerReturns
  <1>. QED
    BY <1>7, <1>8

LEMMA GroupEraseKeeps ==
  ASSUME HubIInv, NEW r \in Requests, GroupErase(r)
  PROVE  HubIInv'
  <1>1. HubTypeOK /\ Checked(r)
    BY DEF HubIInv
  <1>2. req[r] # Idle /\ req[r].op = "groupDelete"
    BY DEF GroupErase, Pending
  <1>3. req[r] \in GroupHandlers
    BY <1>1, <1>2, HandlerTypes DEF GroupOps
  <1>4. PICK g : g = req[r].target
    OBVIOUS
  <1>5. g \in Groups
    BY <1>3, <1>4 DEF GroupHandlers
  <1>6. PICK op \in GroupOps : op = "deleteScope"
    BY DEF GroupOps
  <1>7. CASE req[r].seen # "gone"
    <2>1. /\ groups' = [groups EXCEPT ![g] = NoObject]
          /\ Continues(r, "deleteScope", "gone") /\ UNCHANGED <<policies, scopes, lock>>
      BY <1>4, <1>7 DEF GroupErase
    <2>2. PICK mark \in {"changed", "gone"} : mark = "gone"
      OBVIOUS
    <2>3. OnlyRemoves
      <3>1. groups'[g] = NoObject /\ \A x \in Groups : x # g => groups'[x] = groups[x]
        BY <1>1, <1>5, <2>1 DEF HubTypeOK
      <3>. QED
        BY <3>1 DEF OnlyRemoves
    <2>4. /\ req' \in [Requests -> HandlerStates] /\ req'[r] # Idle /\ req'[r].op = op
          /\ \A q \in Requests : q # r => req'[q] = Marked(r, req[r].target, mark)[q]
      BY <1>1, <1>3, <1>6, <2>1, <2>2, HandlerContinues
    <2>5. Checked(r)' /\ ~HoldsLock(r)'
      BY <1>6, <2>4 DEF Checked, Pending, HoldsLock, LockedOps
    <2>. QED
      BY <1>4, <1>5, <2>1, <2>2, <2>3, <2>4, <2>5, GroupRowWritten
  <1>8. CASE req[r].seen = "gone"
    <2>1. req' = [req EXCEPT ![r].op = op] /\ UNCHANGED <<policies, groups, scopes, lock>>
      BY <1>6, <1>8 DEF GroupErase
    <2>2. PICK n : n = [req[r] EXCEPT !.op = op]
      OBVIOUS
    <2>3. n \in GroupHandlers /\ n.op = op
      BY <1>3, <2>2 DEF GroupHandlers
    <2>4. req' = [req EXCEPT ![r] = n]
      BY <2>1, <2>2
    <2>5. /\ req' \in [Requests -> HandlerStates] /\ req'[r] # Idle /\ req'[r].op = op
          /\ \A q \in Requests : q # r => req'[q] = req[q]
      BY <1>1, <2>3, <2>4, IdleOp DEF HubTypeOK, HandlerStates
    <2>6. \A q \in Requests : q # r => Checked(q)' /\ (HoldsLock(q)' <=> HoldsLock(q))
      <3>1. OnlyAdds
        BY <2>1 DEF OnlyAdds
      <3>. QED
        BY <2>1, <2>5, <3>1, UntouchedKeepsChecks
    <2>7. Checked(r)' /\ ~HoldsLock(r)'
      BY <1>6, <2>5 DEF Checked, Pending, HoldsLock, LockedOps
    <2>8. /\ policies' \in [Policies -> PolicyRows \cup {NoObject}]
          /\ \A x \in Policies : Exists(x)' => Len(policies'[x].versions) \in 1..MaxVersions
          /\ groups' \in [Groups -> GroupRows \cup {NoObject}]
          /\ scopes' \subseteq Groups /\ lock' \in Requests \cup {Free} /\ lock' = lock
      BY <1>1, <2>1 DEF HubTypeOK, Exists
    <2>. QED
      BY <2>5, <2>6, <2>7, <2>8, HandlerStep
  <1>. QED
    BY <1>7, <1>8

LEMMA ScopeStepsKeep ==
  ASSUME HubIInv, NEW r \in Requests, SyncScope(r) \/ DeleteScope(r) \/ Abort(r)
  PROVE  HubIInv'
  <1>1. HubTypeOK
    BY DEF HubIInv
  <1>2. /\ req' = [req EXCEPT ![r] = Idle] /\ policies' = policies /\ groups' = groups
        /\ Unlock(r) \/ UNCHANGED lock
    BY DEF SyncScope, DeleteScope, Abort
  <1>3. scopes' \subseteq Groups
    <2>1. CASE SyncScope(r)
      <3>1. req[r].target \in Groups
        BY <1>1, <2>1, HandlerTypes DEF SyncScope, Pending, GroupOps, GroupHandlers
      <3>. QED
        BY <1>1, <2>1, <3>1 DEF HubTypeOK, SyncScope
    <2>2. CASE DeleteScope(r) \/ Abort(r)
      BY <1>1, <2>2 DEF HubTypeOK, DeleteScope, Abort
    <2>. QED
      BY <2>1, <2>2
  <1>. QED
    BY <1>2, <1>3, HandlerReturns

\* The hub starts with nobody at work.
LEMMA HubInitIInv == HubInit => HubIInv
  <1>1. SUFFICES ASSUME HubInit PROVE HubIInv
    OBVIOUS
  <1>2. \A r \in Requests : req[r] = Idle
    BY <1>1 DEF HubInit
  <1>3. \A row \in FirstVersions : row \in PolicyRows /\ Len(row.versions) = 1
    <2>1. ASSUME NEW o \in Owners, NEW l \in BOOLEAN, NEW c \in PolicyContents
          PROVE  FirstVersion(o, l, c) \in PolicyRows /\ Len(FirstVersion(o, l, c).versions) = 1
      BY DEF FirstVersion, PolicyRows
    <2>. QED
      BY <2>1 DEF FirstVersions
  <1>4. HubTypeOK
    <2>1. policies \in [Policies -> PolicyRows \cup {NoObject}]
      BY <1>1, <1>3 DEF HubInit, CatalogueInit
    <2>2. \A p \in Policies : Exists(p) => Len(policies[p].versions) \in 1..MaxVersions
      <3>1. 1 \in 1..MaxVersions
        BY CatalogueAssumption
      <3>2. \A p \in Policies : Exists(p) => policies[p] \in FirstVersions
        BY <1>1 DEF HubInit, CatalogueInit, Exists
      <3>. QED
        BY <1>3, <3>1, <3>2
    <2>. QED
      BY <1>1, <2>1, <2>2 DEF HubInit, CatalogueInit, HubTypeOK
  <1>. QED
    BY <1>2, <1>4 DEF HubIInv, LockHeld, HoldsLock, Checked, Pending

LEMMA HubNextIInv == HubIInv /\ [HubNext]_hubVars => HubIInv'
  <1>1. SUFFICES ASSUME HubIInv, [HubNext]_hubVars PROVE HubIInv'
    OBVIOUS
  <1>2. CASE UNCHANGED hubVars
    BY <1>1, <1>2 DEF hubVars, HubIInv, HubTypeOK, LockHeld, HoldsLock, Checked, Pending, Exists,
          ReferencedByOtherTenant, ReferencingGroups, Members, MembersComplete, Revised
  <1>3. ASSUME NEW p \in Policies, NEW o \in Owners, NEW l \in BOOLEAN, NEW c \in PolicyContents,
               CreatePolicy(p, o, l, c)
        PROVE  HubIInv'
    BY <1>1, <1>3, CreatePolicyKeeps
  <1>4. ASSUME NEW r \in Requests,
               \/ PolicyRequests(r) \/ PolicyWrite(r) \/ PolicyErase(r)
               \/ GroupRequests(r) \/ GroupInsert(r) \/ GroupWrite(r) \/ SyncScope(r)
               \/ EnabledWrite(r) \/ GroupErase(r) \/ DeleteScope(r)
               \/ Abort(r)
        PROVE  HubIInv'
    BY <1>1, <1>4, PolicyRequestsKeep, PolicyWriteKeeps, PolicyEraseKeeps, GroupRequestsKeep,
       GroupInsertKeeps, GroupWriteKeeps, EnabledWriteKeeps, GroupEraseKeeps, ScopeStepsKeep
  <1>. QED
    BY <1>1, <1>2, <1>3, <1>4 DEF HubNext

(***************************************************************************)
(* The hub's tables keep their types: a handler that runs between another's*)
(* check and write never leaves a malformed row, nor more versions of a    *)
(* policy than a check has allowed.                                        *)
(***************************************************************************)
THEOREM HubTypeCorrect == HubSpec => []HubTypeOK
  <1>1. HubIInv => HubTypeOK
    BY DEF HubIInv
  <1>. QED
    BY HubInitIInv, HubNextIInv, <1>1, PTL DEF HubSpec

-----------------------------------------------------------------------------
(***************************************************************************)
(* Steps of the handlers are steps of the catalogue.                       *)
(***************************************************************************)
LEMMA PolicyStepsRefine ==
  ASSUME HubIInv, NEW r \in Requests, PolicyWrite(r) \/ PolicyErase(r)
  PROVE  CatalogueNext \/ UNCHANGED catalogueVars
  <1>1. HubTypeOK /\ Checked(r)
    BY DEF HubIInv
  <1>2. req[r] # Idle /\ req[r].op \in PolicyOps
    BY DEF PolicyWrite, PolicyErase, Pending, PolicyOps
  <1>3. PICK p : p = req[r].target
    OBVIOUS
  <1>4. p \in Policies
    BY <1>1, <1>2, <1>3, HandlerTypes DEF PolicyHandlers
  <1>5. CASE PolicyWrite(r) /\ UpdateCAS(r)
    <2>1. PICK row : row = req[r].row
      OBVIOUS
    <2>2. /\ Exists(p) /\ ~ReferencedByOtherTenant(p)
          /\ \E c \in PolicyContents, l \in BOOLEAN : row = Revised(p, c, l)
      BY <1>1, <1>3, <1>5, <2>1 DEF Checked, PolicyWrite
    <2>3. PICK c \in PolicyContents, l \in BOOLEAN : row = Revised(p, c, l)
      BY <2>2
    <2>4. policies' = [policies EXCEPT ![p] = Revised(p, c, l)] /\ UNCHANGED groups
      BY <1>3, <1>5, <2>1, <2>3 DEF PolicyWrite
    <2>5. ChangePolicy(p, c, l)
      BY <2>2, <2>4 DEF ChangePolicy
    <2>6. policies'[p] # policies[p]
      <3>1. Revised(p, c, l) # policies[p]
        BY <1>1, <1>4, <2>2, RevisedRow
      <3>2. policies'[p] = Revised(p, c, l)
        BY <1>1, <1>4, <2>4 DEF HubTypeOK
      <3>. QED
        BY <3>1, <3>2
    <2>. QED
      BY <1>4, <2>5, <2>6 DEF CatalogueNext, PolicyChanges
  <1>6. CASE PolicyWrite(r) /\ ~UpdateCAS(r)
    BY <1>6 DEF PolicyWrite, catalogueVars
  <1>7. CASE PolicyErase(r)
    <2>1. Exists(p) /\ ReferencingGroups(p) = {}
      BY <1>1, <1>3, <1>7 DEF Checked, PolicyErase
    <2>2. policies' = [policies EXCEPT ![p] = NoObject] /\ UNCHANGED groups
      BY <1>3, <1>7 DEF PolicyErase
    <2>3. RemovePolicy(p)
      BY <2>1, <2>2 DEF RemovePolicy
    <2>4. policies'[p] # policies[p]
      BY <1>1, <1>4, <2>1, <2>2 DEF HubTypeOK, Exists
    <2>. QED
      BY <1>4, <2>3, <2>4 DEF CatalogueNext, PolicyChanges
  <1>. QED
    BY <1>5, <1>6, <1>7

LEMMA GroupStepsRefine ==
  ASSUME HubIInv, NEW r \in Requests,
         GroupInsert(r) \/ GroupWrite(r) \/ EnabledWrite(r) \/ GroupErase(r)
  PROVE  CatalogueNext \/ UNCHANGED catalogueVars
  <1>1. HubTypeOK /\ Checked(r)
    BY DEF HubIInv
  <1>2. req[r] # Idle /\ req[r].op \in GroupOps
    BY DEF GroupInsert, GroupWrite, EnabledWrite, GroupErase, Pending, GroupOps
  <1>3. PICK g : g = req[r].target
    OBVIOUS
  <1>4. PICK row : row = req[r].row
    OBVIOUS
  <1>5. g \in Groups
    BY <1>1, <1>2, <1>3, HandlerTypes DEF GroupHandlers
  <1>6. CASE groups' = groups
    <2>1. policies' = policies
      BY DEF GroupInsert, GroupWrite, EnabledWrite, GroupErase
    <2>. QED
      BY <1>6, <2>1 DEF catalogueVars
  <1>7. CASE groups' # groups
    <2>a. SUFFICES \E new : groups' = [groups EXCEPT ![g] = new] /\ GroupChanges(g)
      <3>1. PICK new : groups' = [groups EXCEPT ![g] = new]
        BY <2>a
      <3>2. groups'[g] # groups[g]
        BY <1>1, <1>5, <1>7, <3>1 DEF HubTypeOK
      <3>. QED
        BY <1>5, <2>a, <3>2 DEF CatalogueNext
    <2>b. policies' = policies
      BY DEF GroupInsert, GroupWrite, EnabledWrite, GroupErase
    <2>1. CASE GroupInsert(r)
      <3>1. /\ groups[g] = NoObject /\ groups' = [groups EXCEPT ![g] = row]
            /\ row \in GroupRows /\ MembersComplete(row.spec)
        BY <1>1, <1>3, <1>4, <1>7, <2>1 DEF GroupInsert, Checked
      <3>2. AddGroup(g, row)
        BY <2>b, <3>1 DEF AddGroup
      <3>. QED
        BY <3>1, <3>2 DEF GroupChanges
    <2>2. CASE GroupWrite(r)
      <3>1. UpdateCAS(r) /\ groups' = [groups EXCEPT ![g] = row]
        BY <1>3, <1>4, <1>7, <2>2 DEF GroupWrite
      <3>2. /\ row \in GroupRows /\ MembersComplete(row.spec)
            /\ groups[g] # NoObject /\ row.owner = groups[g].owner
        BY <1>1, <1>3, <1>4, <2>2, <3>1 DEF GroupWrite, Checked, UpdateCAS
      <3>3. /\ row = [owner |-> groups[g].owner, enabled |-> row.enabled, spec |-> row.spec]
            /\ row.enabled \in BOOLEAN /\ row.spec \in GroupSpecs
        BY <3>2 DEF GroupRows
      <3>4. ChangeGroup(g, row.spec, row.enabled)
        BY <2>b, <3>1, <3>2, <3>3 DEF ChangeGroup
      <3>. QED
        BY <3>1, <3>3, <3>4 DEF GroupChanges
    <2>3. CASE EnabledWrite(r)
      <3>1. UpdateCAS(r) /\ groups' = [groups EXCEPT ![g] = row]
        BY <1>3, <1>4, <1>7, <2>3 DEF EnabledWrite
      <3>2. groups[g] # NoObject /\ row = [groups[g] EXCEPT !.enabled = ~@]
        BY <1>1, <1>3, <1>4, <2>3, <3>1 DEF EnabledWrite, Checked, UpdateCAS
      <3>3. groups' = [groups EXCEPT ![g].enabled = ~@]
        BY <3>1, <3>2
      <3>4. SwitchGroup(g)
        BY <2>b, <3>2, <3>3 DEF SwitchGroup
      <3>. QED
        BY <3>1, <3>4 DEF GroupChanges
    <2>4. CASE GroupErase(r)
      <3>1. req[r].seen # "gone" /\ groups' = [groups EXCEPT ![g] = NoObject]
        BY <1>3, <1>7, <2>4 DEF GroupErase
      <3>2. groups[g] # NoObject
        BY <1>1, <1>3, <2>4, <3>1 DEF GroupErase, Checked
      <3>3. RemoveGroup(g)
        BY <2>b, <3>1, <3>2 DEF RemoveGroup
      <3>. QED
        BY <3>1, <3>3 DEF GroupChanges
    <2>. QED
      BY <2>1, <2>2, <2>3, <2>4
  <1>. QED
    BY <1>6, <1>7

LEMMA HubStepRefines ==
  HubIInv /\ [HubNext]_hubVars => CatalogueNext \/ UNCHANGED catalogueVars
  <1>1. SUFFICES ASSUME HubIInv, [HubNext]_hubVars
                 PROVE  CatalogueNext \/ UNCHANGED catalogueVars
    OBVIOUS
  <1>2. CASE UNCHANGED hubVars
    BY <1>2 DEF hubVars, catalogueVars
  <1>3. ASSUME NEW p \in Policies, NEW o \in Owners, NEW l \in BOOLEAN, NEW c \in PolicyContents,
               CreatePolicy(p, o, l, c)
        PROVE  CatalogueNext
    <2>1. AddPolicy(p, o, l, c)
      BY <1>3 DEF CreatePolicy
    <2>2. FirstVersion(o, l, c) # NoObject
      <3>1. FirstVersion(o, l, c) \in PolicyRows
        BY DEF FirstVersion, PolicyRows
      <3>. QED
        BY <3>1, CatalogueAssumption
    <2>3. policies'[p] # policies[p]
      BY <1>1, <2>1, <2>2 DEF AddPolicy, Exists, HubIInv, HubTypeOK
    <2>. QED
      BY <2>1, <2>3 DEF CatalogueNext, PolicyChanges
  <1>4. ASSUME NEW r \in Requests, PolicyRequests(r) \/ GroupRequests(r)
        PROVE  UNCHANGED catalogueVars
    BY <1>4 DEF PolicyRequests, GroupRequests, PolicyUpdate, PolicyRollback, PolicyDelete,
          GroupCreate, GroupUpdate, SetEnabled, GroupDelete, catalogueVars
  <1>5. ASSUME NEW r \in Requests, SyncScope(r) \/ DeleteScope(r) \/ Abort(r)
        PROVE  UNCHANGED catalogueVars
    BY <1>5 DEF SyncScope, DeleteScope, Abort, catalogueVars
  <1>. QED
    BY <1>1, <1>2, <1>3, <1>4, <1>5, PolicyStepsRefine, GroupStepsRefine DEF HubNext

\* The instance says of the hub's tables what the catalogue says of its own.
LEMMA AtomicIsCatalogue ==
  /\ Atomic!CatalogueInit <=> CatalogueInit
  /\ Atomic!CatalogueNext <=> CatalogueNext
  /\ Atomic!catalogueVars = catalogueVars
  <1>1. /\ Atomic!GroupSpecs = GroupSpecs /\ Atomic!GroupRows = GroupRows
        /\ Atomic!catalogueVars = catalogueVars
    BY DEF Atomic!GroupSpecs, GroupSpecs, Atomic!GroupRows, GroupRows, Atomic!catalogueVars, catalogueVars
  <1>2. Atomic!FirstVersions = FirstVersions
    BY DEF Atomic!FirstVersions, FirstVersions, Atomic!FirstVersion, FirstVersion
  <1>3. \A s : Atomic!MembersComplete(s) <=> MembersComplete(s)
    BY DEF Atomic!MembersComplete, MembersComplete, Atomic!Exists, Exists
  <1>4. Atomic!CatalogueInit <=> CatalogueInit
    BY <1>1, <1>2, <1>3 DEF Atomic!CatalogueInit, CatalogueInit
  <1>5. \A p : Atomic!PolicyChanges(p) <=> PolicyChanges(p)
    <2>1. \A p : Atomic!ReferencingGroups(p) = ReferencingGroups(p)
      BY DEF Atomic!ReferencingGroups, ReferencingGroups, Atomic!Members, Members, Atomic!Exists, Exists
    <2>2. \A p, c, l : Atomic!ChangePolicy(p, c, l) <=> ChangePolicy(p, c, l)
      BY <2>1 DEF Atomic!ChangePolicy, ChangePolicy, Atomic!Exists, Exists, Atomic!Revised, Revised,
            Atomic!ReferencedByOtherTenant, ReferencedByOtherTenant
    <2>3. \A p : Atomic!RemovePolicy(p) <=> RemovePolicy(p)
      BY <2>1 DEF Atomic!RemovePolicy, RemovePolicy, Atomic!Exists, Exists
    <2>4. \A p, o, l, c : Atomic!AddPolicy(p, o, l, c) <=> AddPolicy(p, o, l, c)
      BY DEF Atomic!AddPolicy, AddPolicy, Atomic!Exists, Exists, Atomic!FirstVersion, FirstVersion
    <2>. QED
      BY <2>2, <2>3, <2>4 DEF Atomic!PolicyChanges, PolicyChanges
  <1>6. \A g : Atomic!GroupChanges(g) <=> GroupChanges(g)
    BY <1>1, <1>3 DEF Atomic!GroupChanges, GroupChanges, Atomic!AddGroup, AddGroup,
          Atomic!ChangeGroup, ChangeGroup, Atomic!SwitchGroup, SwitchGroup,
          Atomic!RemoveGroup, RemoveGroup
  <1>. QED
    BY <1>1, <1>4, <1>5, <1>6 DEF Atomic!CatalogueNext, CatalogueNext

(***************************************************************************)
(* The handlers of PolicyService and PolicyGroupService, which check and   *)
(* write in different steps, implement the atomic catalogue: every write   *)
(* that takes effect is one change of the tables as they are then, with    *)
(* the references between policies and groups still right.                 *)
(***************************************************************************)
THEOREM HubImplementsCatalogue == HubSpec => CatalogueIsAtomic
  <1>1. HubInit => Atomic!CatalogueInit
    BY AtomicIsCatalogue DEF HubInit
  <1>2. HubIInv /\ [HubNext]_hubVars => [Atomic!CatalogueNext]_(Atomic!catalogueVars)
    BY AtomicIsCatalogue, HubStepRefines DEF catalogueVars, Atomic!catalogueVars
  <1>. QED
    BY <1>1, <1>2, HubInitIInv, HubNextIInv, PTL
       DEF HubSpec, CatalogueIsAtomic, Atomic!CatalogueSpec

-----------------------------------------------------------------------------
(***************************************************************************)
(* Exceptions and their scopes                                             *)
(*                                                                         *)
(* A commit may trust its row only because a handler that does not believe *)
(* its row gone has a row that exists (ReadIsThere): whatever removes a    *)
(* row, or creates one of the same name, marks those who had read it.      *)
(***************************************************************************)
\* What a handler has read and does not know to be gone is there, and an update has a target to write.
ReadIsThere ==
  \A h \in Handlers :
    /\ OnException(h) /\ tx[h].seen # "gone" => exceptions[tx[h].row] # Absent
    /\ OnDistribution(h) /\ tx[h].seen # "gone" => distributions[tx[h].row] # Absent
    /\ (InTx(h, "update") \/ InTx(h, "updateDistribution")) => tx[h].target # Absent

ExceptionIInv == ExceptionTypeOK /\ ReadIsThere /\ NoOrphanExceptionScope

-----------------------------------------------------------------------------
OnExceptionTx == [op : {"update", "delete"}, row : Exceptions,
                  target : Targets \cup {Absent}, seen : RowMarks]

OnDistributionTx == [op : {"updateDistribution", "deleteDistribution"}, row : Distributions,
                     target : Targets \cup {Absent}, seen : RowMarks]

\* The types of the tables and of the handlers, with the two kinds of transaction named.
LEMMA ExceptionTypeForm ==
  ExceptionTypeOK <=>
    /\ exceptions \in [Exceptions -> Targets \cup {Absent}]
    /\ distributions \in [Distributions -> Targets \cup {Absent}]
    /\ tx \in [Handlers -> {Done} \cup OnExceptionTx \cup OnDistributionTx]
  BY DEF ExceptionTypeOK, OnExceptionTx, OnDistributionTx, RowMarks

\* What a handler works on, by the type of its transaction.
LEMMA TxKind ==
  ASSUME ExceptionTypeOK, NEW h \in Handlers
  PROVE  /\ OnException(h) <=> tx[h] \in OnExceptionTx
         /\ OnDistribution(h) <=> tx[h] \in OnDistributionTx
         /\ tx[h] # Done <=> (OnException(h) \/ OnDistribution(h))
  <1>1. tx[h] \in {Done} \cup OnExceptionTx \cup OnDistributionTx
    BY ExceptionTypeForm
  <1>2. ASSUME NEW r \in OnExceptionTx
        PROVE  r.op \in {"update", "delete"}
    BY DEF OnExceptionTx
  <1>3. ASSUME NEW r \in OnDistributionTx
        PROVE  r.op \in {"updateDistribution", "deleteDistribution"}
    BY DEF OnDistributionTx
  <1>4. Done.op = "done"
    BY DEF Done
  <1>. QED
    BY <1>1, <1>2, <1>3, <1>4 DEF OnException, OnDistribution

\* Marking a transaction changes what it has seen and nothing else.
LEMMA AgedTx ==
  ASSUME ExceptionTypeOK, NEW q \in Handlers, NEW mark \in RowMarks, tx[q] # Done
  PROVE  /\ Aged(q, mark).op = tx[q].op
         /\ Aged(q, mark).row = tx[q].row
         /\ Aged(q, mark).target = tx[q].target
         /\ Aged(q, mark).seen = IF tx[q].seen = "gone" THEN "gone" ELSE mark
         /\ tx[q] \in OnExceptionTx => Aged(q, mark) \in OnExceptionTx
         /\ tx[q] \in OnDistributionTx => Aged(q, mark) \in OnDistributionTx
         /\ Aged(q, mark) # Done
  <1>1. tx[q] \in OnExceptionTx \/ tx[q] \in OnDistributionTx
    BY ExceptionTypeForm
  <1>2. CASE tx[q] \in OnExceptionTx
    BY <1>2 DEF Aged, OnExceptionTx, OnDistributionTx, RowMarks, Done
  <1>3. CASE tx[q] \in OnDistributionTx
    BY <1>3 DEF Aged, OnExceptionTx, OnDistributionTx, RowMarks, Done
  <1>. QED
    BY <1>1, <1>2, <1>3

(***************************************************************************)
(* A transaction that ends leaves every other handler as it was, or knows  *)
(* its row changed or gone.                                                *)
(***************************************************************************)
LEMMA EndTxEffect ==
  ASSUME ExceptionTypeOK, NEW h, NEW name, NEW exMark \in RowMarks, NEW distMark \in RowMarks,
         EndTx(h, name, exMark, distMark)
  PROVE  /\ tx' \in [Handlers -> {Done} \cup OnExceptionTx \cup OnDistributionTx]
         /\ \A q \in Handlers : tx'[q] # Done =>
              /\ tx[q] # Done
              /\ tx'[q].op = tx[q].op /\ tx'[q].row = tx[q].row /\ tx'[q].target = tx[q].target
              /\ tx'[q].seen # "gone" => tx[q].seen # "gone"
              /\ OnException(q) /\ tx[q].row = name /\ exMark = "gone" => tx'[q].seen = "gone"
              /\ OnDistribution(q) /\ tx[q].row = name /\ distMark = "gone" => tx'[q].seen = "gone"
  <1>0. ASSUME NEW q \in Handlers
        PROVE  /\ tx'[q] \in {Done} \cup OnExceptionTx \cup OnDistributionTx
               /\ tx'[q] # Done =>
                    /\ tx[q] # Done
                    /\ tx'[q].op = tx[q].op /\ tx'[q].row = tx[q].row /\ tx'[q].target = tx[q].target
                    /\ tx'[q].seen # "gone" => tx[q].seen # "gone"
                    /\ OnException(q) /\ tx[q].row = name /\ exMark = "gone" => tx'[q].seen = "gone"
                    /\ OnDistribution(q) /\ tx[q].row = name /\ distMark = "gone" => tx'[q].seen = "gone"
    <2>0. ~(OnException(q) /\ OnDistribution(q))
      BY DEF OnException, OnDistribution
    <2>1. tx[q] \in {Done} \cup OnExceptionTx \cup OnDistributionTx
      BY ExceptionTypeForm
    <2>2. CASE q = h
      BY <2>2 DEF EndTx
    <2>3. CASE q # h /\ OnException(q) /\ tx[q].row = name /\ exMark # "fresh"
      <3>1. tx'[q] = Aged(q, exMark)
        BY <2>3, <2>0 DEF EndTx
      <3>2. tx[q] # Done
        BY <2>3 DEF OnException
      <3>. QED
        BY <3>1, <3>2, <2>0, <2>1, <2>3, AgedTx
    <2>4. CASE q # h /\ OnDistribution(q) /\ tx[q].row = name /\ distMark # "fresh"
      <3>1. tx'[q] = Aged(q, distMark)
        BY <2>4, <2>0 DEF EndTx
      <3>2. tx[q] # Done
        BY <2>4 DEF OnDistribution
      <3>. QED
        BY <3>1, <3>2, <2>0, <2>1, <2>4, AgedTx
    <2>5. CASE /\ q # h
               /\ ~(OnException(q) /\ tx[q].row = name /\ exMark # "fresh")
               /\ ~(OnDistribution(q) /\ tx[q].row = name /\ distMark # "fresh")
      <3>1. tx'[q] = tx[q]
        BY <2>5 DEF EndTx
      <3>. QED
        BY <3>1, <2>1, <2>5
    <2>. QED
      BY <2>2, <2>3, <2>4, <2>5
  <1>1. tx' = [q \in Handlers |-> tx'[q]]
    BY DEF EndTx
  <1>. QED
    BY <1>0, <1>1

-----------------------------------------------------------------------------
\* The tables and the handlers at the start satisfy the invariant.
LEMMA ExceptionInitIInv == ExceptionInit => ExceptionIInv
  <1>. SUFFICES ASSUME ExceptionInit PROVE ExceptionIInv
    OBVIOUS
  <1>1. ExceptionTypeOK
    BY ExceptionAssumption DEF ExceptionInit, ExceptionTypeOK
  <1>2. ReadIsThere
    BY DEF ExceptionInit, ReadIsThere, OnException, OnDistribution, InTx
  <1>3. NoOrphanExceptionScope
    BY ExceptionAssumption DEF ExceptionInit, NoOrphanExceptionScope, Distributions
  <1>. QED
    BY <1>1, <1>2, <1>3 DEF ExceptionIInv

(***************************************************************************)
(* A step that ends a transaction and changes rows: the rows it touches    *)
(* are those of one name, and it marks their readers when it removes them. *)
(***************************************************************************)
LEMMA EndTxReads ==
  ASSUME ExceptionIInv, NEW h, NEW name \in Distributions, NEW exMark \in RowMarks, NEW distMark \in RowMarks,
         EndTx(h, name, exMark, distMark),
         exceptions' \in [Exceptions -> Targets \cup {Absent}],
         distributions' \in [Distributions -> Targets \cup {Absent}],
         \A x \in Exceptions : exceptions'[x] = Absent =>
           exceptions[x] = Absent \/ (x = name /\ exMark = "gone"),
         \A d \in Distributions : distributions'[d] = Absent =>
           distributions[d] = Absent \/ (d = name /\ distMark = "gone")
  PROVE  ExceptionTypeOK' /\ ReadIsThere'
  <1>0. ExceptionTypeOK /\ ReadIsThere
    BY DEF ExceptionIInv
  <1>a. \A q \in Handlers : tx'[q] # Done =>
          /\ OnException(q) /\ tx[q].row = name /\ exMark = "gone" => tx'[q].seen = "gone"
          /\ OnDistribution(q) /\ tx[q].row = name /\ distMark = "gone" => tx'[q].seen = "gone"
    BY <1>0, EndTxEffect
  <1>1. ExceptionTypeOK'
    BY <1>0, EndTxEffect DEF ExceptionTypeOK, OnExceptionTx, OnDistributionTx, RowMarks
  <1>2. ASSUME NEW q \in Handlers, tx'[q] # Done
        PROVE  /\ OnException(q)' => OnException(q)
               /\ OnDistribution(q)' => OnDistribution(q)
               /\ (InTx(q, "update") \/ InTx(q, "updateDistribution"))' =>
                    InTx(q, "update") \/ InTx(q, "updateDistribution")
    BY <1>0, <1>2, EndTxEffect DEF OnException, OnDistribution, InTx
  <1>3. ASSUME NEW q \in Handlers, OnException(q)', tx'[q].seen # "gone"
        PROVE  exceptions'[tx'[q].row] # Absent
    <2>1. tx'[q] # Done
      BY <1>3 DEF OnException
    <2>2. OnException(q) /\ tx[q].seen # "gone" /\ tx'[q].row = tx[q].row
      BY <1>0, <1>2, <1>3, <2>1, EndTxEffect
    <2>3. exceptions[tx[q].row] # Absent
      BY <1>0, <2>2 DEF ReadIsThere
    <2>4. ~(tx[q].row = name /\ exMark = "gone")
      <3>1. OnException(q) /\ tx[q].row = name /\ exMark = "gone" => tx'[q].seen = "gone"
        BY <1>a, <2>1
      <3>. QED
        BY <3>1, <1>3, <2>2
    <2>5. tx[q].row \in Exceptions
      BY <1>0, <2>2, TxKind DEF OnExceptionTx
    <2>. QED
      BY <2>2, <2>3, <2>4, <2>5
  <1>4. ASSUME NEW q \in Handlers, OnDistribution(q)', tx'[q].seen # "gone"
        PROVE  distributions'[tx'[q].row] # Absent
    <2>1. tx'[q] # Done
      BY <1>4 DEF OnDistribution
    <2>2. OnDistribution(q) /\ tx[q].seen # "gone" /\ tx'[q].row = tx[q].row
      BY <1>0, <1>2, <1>4, <2>1, EndTxEffect
    <2>3. distributions[tx[q].row] # Absent
      BY <1>0, <2>2 DEF ReadIsThere
    <2>4. ~(tx[q].row = name /\ distMark = "gone")
      <3>1. OnDistribution(q) /\ tx[q].row = name /\ distMark = "gone" => tx'[q].seen = "gone"
        BY <1>a, <2>1
      <3>. QED
        BY <3>1, <1>4, <2>2
    <2>5. tx[q].row \in Distributions
      BY <1>0, <2>2, TxKind DEF OnDistributionTx
    <2>. QED
      BY <2>2, <2>3, <2>4, <2>5
  <1>5. ASSUME NEW q \in Handlers, (InTx(q, "update") \/ InTx(q, "updateDistribution"))'
        PROVE  tx'[q].target # Absent
    <2>1. tx'[q] # Done
      BY <1>5 DEF InTx
    <2>2. InTx(q, "update") \/ InTx(q, "updateDistribution")
      BY <1>2, <1>5, <2>1
    <2>. QED
      BY <1>0, <2>1, <2>2, EndTxEffect DEF ReadIsThere
  <1>. QED
    BY <1>1, <1>3, <1>4, <1>5 DEF ReadIsThere

(***************************************************************************)
(* Beginning and rolling back a transaction leave the tables alone.        *)
(***************************************************************************)
LEMMA StartKeepsExceptions ==
  ASSUME ExceptionIInv, NEW h \in Handlers, NEW op, NEW row, NEW t \in Targets \cup {Absent},
         UNCHANGED <<exceptions, distributions>>, Start(h, op, row, t),
         \/ op \in {"update", "delete"} /\ row \in Exceptions /\ exceptions[row] # Absent
         \/ /\ op \in {"updateDistribution", "deleteDistribution"}
            /\ row \in Distributions /\ distributions[row] # Absent,
         op \in {"update", "updateDistribution"} => t # Absent
  PROVE  ExceptionIInv'
  <1> DEFINE new == [op |-> op, row |-> row, target |-> t, seen |-> "fresh"]
  <1>1. new \in OnExceptionTx \cup OnDistributionTx
    BY DEF OnExceptionTx, OnDistributionTx, RowMarks
  <1>2. tx \in [Handlers -> {Done} \cup OnExceptionTx \cup OnDistributionTx]
    BY ExceptionTypeForm DEF ExceptionIInv
  <1>3. tx' = [tx EXCEPT ![h] = new]
    BY DEF Start
  <1>4. tx' \in [Handlers -> {Done} \cup OnExceptionTx \cup OnDistributionTx]
    BY <1>1, <1>2, <1>3
  <1>5. ExceptionTypeOK'
    BY <1>4 DEF ExceptionIInv, ExceptionTypeOK, OnExceptionTx, OnDistributionTx, RowMarks
  <1>6. ReadIsThere'
    BY <1>2, <1>3 DEF ExceptionIInv, ReadIsThere, OnException, OnDistribution, InTx
  <1>7. NoOrphanExceptionScope'
    BY DEF ExceptionIInv, NoOrphanExceptionScope
  <1>. QED
    BY <1>5, <1>6, <1>7 DEF ExceptionIInv

LEMMA RollbackKeepsExceptions ==
  ASSUME ExceptionIInv, NEW h \in Handlers, Rollback(h)
  PROVE  ExceptionIInv'
  <1>1. ExceptionTypeOK'
    BY DEF ExceptionIInv, ExceptionTypeOK, Rollback
  <1>2. ReadIsThere'
    BY DEF ExceptionIInv, ExceptionTypeOK, ReadIsThere, Rollback, OnException, OnDistribution, InTx
  <1>3. NoOrphanExceptionScope'
    BY DEF ExceptionIInv, NoOrphanExceptionScope, Rollback
  <1>. QED
    BY <1>1, <1>2, <1>3 DEF ExceptionIInv

-----------------------------------------------------------------------------
\* Every step keeps the invariant.
LEMMA ExceptionNextIInv == ExceptionIInv /\ [ExceptionNext]_exceptionVars => ExceptionIInv'
  <1>. SUFFICES ASSUME ExceptionIInv, [ExceptionNext]_exceptionVars PROVE ExceptionIInv'
    OBVIOUS
  <1>0. /\ ExceptionTypeOK /\ ReadIsThere /\ NoOrphanExceptionScope
        /\ exceptions \in [Exceptions -> Targets \cup {Absent}]
        /\ distributions \in [Distributions -> Targets \cup {Absent}]
        /\ Exceptions \subseteq Distributions
    BY DEF ExceptionIInv, ExceptionTypeOK, Distributions
  <1>1. ASSUME NEW x \in Exceptions, NEW t \in Targets, ExceptionCreate(x, t)
        PROVE  ExceptionIInv'
    <2>1. /\ exceptions' = [exceptions EXCEPT ![x] = t]
          /\ distributions' = [distributions EXCEPT ![x] = t]
          /\ EndTx(Absent, x, "gone", "changed")
      BY <1>1 DEF ExceptionCreate
    <2>2. ExceptionTypeOK' /\ ReadIsThere'
      BY <1>0, <2>1, ExceptionAssumption, EndTxReads DEF RowMarks
    <2>3. NoOrphanExceptionScope'
      BY <1>0, <2>1, ExceptionAssumption DEF NoOrphanExceptionScope
    <2>. QED
      BY <2>2, <2>3 DEF ExceptionIInv
  <1>2. ASSUME NEW d \in PlainDistributions, NEW t \in Targets, DistributionCreate(d, t)
        PROVE  ExceptionIInv'
    <2>1. /\ distributions' = [distributions EXCEPT ![d] = t]
          /\ exceptions' = exceptions
          /\ EndTx(Absent, d, "fresh", "gone")
          /\ d \in Distributions /\ d \notin Exceptions
      BY <1>2, ExceptionAssumption DEF DistributionCreate, Distributions
    <2>2. ExceptionTypeOK' /\ ReadIsThere'
      BY <1>0, <2>1, ExceptionAssumption, EndTxReads DEF RowMarks
    <2>3. NoOrphanExceptionScope'
      BY <1>0, <2>1 DEF NoOrphanExceptionScope
    <2>. QED
      BY <2>2, <2>3 DEF ExceptionIInv
  <1>3. ASSUME NEW h \in Handlers,
               \/ \E x \in Exceptions, t \in Targets : ExceptionUpdate(h, x, t)
               \/ \E x \in Exceptions : ExceptionDelete(h, x)
               \/ \E d \in Distributions, t \in Targets : DistributionUpdate(h, d, t)
               \/ \E d \in Distributions : DistributionDelete(h, d)
        PROVE  ExceptionIInv'
    <2>1. ASSUME NEW x \in Exceptions, NEW t \in Targets, ExceptionUpdate(h, x, t)
          PROVE  ExceptionIInv'
      BY <2>1, ExceptionAssumption, StartKeepsExceptions DEF ExceptionUpdate
    <2>2. ASSUME NEW x \in Exceptions, ExceptionDelete(h, x)
          PROVE  ExceptionIInv'
      BY <2>2, StartKeepsExceptions DEF ExceptionDelete
    <2>3. ASSUME NEW d \in Distributions, NEW t \in Targets, DistributionUpdate(h, d, t)
          PROVE  ExceptionIInv'
      BY <2>3, ExceptionAssumption, StartKeepsExceptions DEF DistributionUpdate
    <2>4. ASSUME NEW d \in Distributions, DistributionDelete(h, d)
          PROVE  ExceptionIInv'
      BY <2>4, StartKeepsExceptions DEF DistributionDelete
    <2>. QED
      BY <1>3, <2>1, <2>2, <2>3, <2>4
  <1>4. ASSUME NEW h \in Handlers, ExceptionUpdateCommit(h)
        PROVE  ExceptionIInv'
    <2> DEFINE x == tx[h].row
               t == tx[h].target
    <2>1. /\ exceptions' = [exceptions EXCEPT ![x] = t]
          /\ distributions' = [distributions EXCEPT ![x] = t]
          /\ EndTx(h, x, "changed", "changed")
      BY <1>4 DEF ExceptionUpdateCommit
    <2>2. InTx(h, "update") /\ OnException(h)
      BY <1>4 DEF ExceptionUpdateCommit, InTx, OnException
    <2>3. x \in Exceptions /\ t \in Targets \cup {Absent} /\ t # Absent
      BY <1>0, <2>2, TxKind DEF OnExceptionTx, ReadIsThere
    <2>. HIDE DEF x, t
    <2>4. ExceptionTypeOK' /\ ReadIsThere'
      BY <1>0, <2>1, <2>3, EndTxReads DEF RowMarks
    <2>5. NoOrphanExceptionScope'
      BY <1>0, <2>1, <2>3 DEF NoOrphanExceptionScope
    <2>. QED
      BY <2>4, <2>5 DEF ExceptionIInv
  <1>5. ASSUME NEW h \in Handlers, ExceptionDeleteCommit(h)
        PROVE  ExceptionIInv'
    <2> DEFINE x == tx[h].row
               mark == IF tx[h].seen = "gone" THEN "fresh" ELSE "gone"
    <2>1. /\ exceptions' = IF mark = "fresh" THEN exceptions ELSE [exceptions EXCEPT ![x] = Absent]
          /\ distributions' = [distributions EXCEPT ![x] = Absent]
          /\ EndTx(h, x, mark, "gone")
      BY <1>5 DEF ExceptionDeleteCommit
    <2>2. OnException(h)
      BY <1>5 DEF ExceptionDeleteCommit, InTx, OnException
    <2>3. x \in Exceptions /\ mark \in {"fresh", "gone"}
      BY <1>0, <2>2, TxKind DEF OnExceptionTx
    <2>. HIDE DEF x, mark
    <2>4. ExceptionTypeOK' /\ ReadIsThere'
      BY <1>0, <2>1, <2>3, EndTxReads DEF RowMarks
    <2>5. NoOrphanExceptionScope'
      BY <1>0, <2>1, <2>3 DEF NoOrphanExceptionScope
    <2>. QED
      BY <2>4, <2>5 DEF ExceptionIInv
  <1>6. ASSUME NEW h \in Handlers, DistributionUpdateCAS(h)
        PROVE  ExceptionIInv'
    <2> DEFINE d == tx[h].row
               t == tx[h].target
    <2>1. /\ distributions' = [distributions EXCEPT ![d] = t]
          /\ exceptions' = exceptions
          /\ EndTx(h, d, "fresh", "changed")
      BY <1>6 DEF DistributionUpdateCAS
    <2>2. InTx(h, "updateDistribution") /\ OnDistribution(h) /\ tx[h].seen # "gone"
      BY <1>6 DEF DistributionUpdateCAS, InTx, OnDistribution
    <2>3. /\ d \in Distributions /\ t \in Targets \cup {Absent} /\ t # Absent
          /\ distributions[d] # Absent
      BY <1>0, <2>2, TxKind DEF OnDistributionTx, ReadIsThere
    <2>. HIDE DEF d, t
    <2>4. ExceptionTypeOK' /\ ReadIsThere'
      BY <1>0, <2>1, <2>3, EndTxReads DEF RowMarks
    <2>5. NoOrphanExceptionScope'
      BY <1>0, <2>1, <2>3 DEF NoOrphanExceptionScope
    <2>. QED
      BY <2>4, <2>5 DEF ExceptionIInv
  <1>7. ASSUME NEW h \in Handlers, DistributionErase(h)
        PROVE  ExceptionIInv'
    <2>1. CASE tx[h].seen = "gone"
      BY <1>7, <2>1, RollbackKeepsExceptions DEF DistributionErase
    <2>2. CASE tx[h].seen # "gone"
      <3> DEFINE d == tx[h].row
      <3>1. /\ distributions' = [distributions EXCEPT ![d] = Absent]
            /\ exceptions' = exceptions
            /\ EndTx(h, d, "fresh", "gone")
        BY <1>7, <2>2 DEF DistributionErase
      <3>2. OnDistribution(h)
        BY <1>7 DEF DistributionErase, InTx, OnDistribution
      <3>3. d \in Distributions
        BY <1>0, <3>2, TxKind DEF OnDistributionTx
      <3>. HIDE DEF d
      <3>4. ExceptionTypeOK' /\ ReadIsThere'
        BY <1>0, <3>1, <3>3, EndTxReads DEF RowMarks
      <3>5. NoOrphanExceptionScope'
        BY <1>0, <3>1, <3>3 DEF NoOrphanExceptionScope
      <3>. QED
        BY <3>4, <3>5 DEF ExceptionIInv
    <2>. QED
      BY <2>1, <2>2
  <1>8. ASSUME NEW h \in Handlers,
               ExceptionUpdateConflict(h) \/ DistributionUpdateConflict(h) \/ Rollback(h)
        PROVE  ExceptionIInv'
    BY <1>8, RollbackKeepsExceptions DEF ExceptionUpdateConflict, DistributionUpdateConflict
  <1>9. CASE UNCHANGED exceptionVars
    <2>1. exceptions' = exceptions /\ distributions' = distributions /\ tx' = tx
      BY <1>9 DEF exceptionVars
    <2>. QED
      BY <1>0, <2>1 DEF ExceptionIInv, ExceptionTypeOK, ReadIsThere, NoOrphanExceptionScope,
                        OnException, OnDistribution, InTx
  <1>. QED
    BY <1>1, <1>2, <1>3, <1>4, <1>5, <1>6, <1>7, <1>8, <1>9 DEF ExceptionNext

-----------------------------------------------------------------------------
(***************************************************************************)
(* The tables and the half-done transactions of the exception and          *)
(* distribution services stay within their types.                          *)
(***************************************************************************)
THEOREM ExceptionTypeCorrect == ExceptionSpec => []ExceptionTypeOK
  <1>1. ExceptionIInv => ExceptionTypeOK
    BY DEF ExceptionIInv
  <1>. QED
    BY <1>1, ExceptionInitIInv, ExceptionNextIInv, PTL DEF ExceptionSpec

(***************************************************************************)
(* No interleaving of creates, updates and deletes of exceptions with      *)
(* edits and deletions of their scopes through the distribution API leaves *)
(* a scope whose exception is gone (ExceptionUOW, UpdateCAS).              *)
(***************************************************************************)
THEOREM NoScopeOrphaned == ExceptionSpec => []NoOrphanExceptionScope
  <1>1. ExceptionIInv => NoOrphanExceptionScope
    BY DEF ExceptionIInv
  <1>. QED
    BY <1>1, ExceptionInitIInv, ExceptionNextIInv, PTL DEF ExceptionSpec

-----------------------------------------------------------------------------
(***************************************************************************)
(* Clusters between tenants                                                *)
(*                                                                         *)
(* A render reads the cluster's tenant first and the rows later, so the    *)
(* invariant speaks about a render under way too: unless somebody has      *)
(* still to notify, the cluster is marked or behind a lost notification,   *)
(* what the render has read is the tenant the cluster has now.             *)
(***************************************************************************)
Told(c) == (\A h \in ScopeHandlers : handlers[h].pc # "written") /\ c \notin dirty \cup missed

\* The snapshot of c holds the rows that the tables of the moment ask for.
SnapshotRight(c) ==
  \A o \in ScopeOwners, k \in ScopeKinds :
    <<o, k>> \in snapshotRows[c] <=>
      /\ scopeRows[<<o, k>>].stored
      /\ scopeRows[<<o, k>>].all \/ c \in scopeRows[<<o, k>>].names
      /\ o \in {"system", tenantOf[c]}

RenderRight ==
  \A c \in ScopeClusters : Told(c) =>
    IF rendering[c] = "idle" THEN SnapshotRight(c) ELSE rendering[c] = tenantOf[c]

ScopeIInv == ScopeTypeOK /\ RenderRight

LEMMA ScopeInitIInv == ScopeInit => ScopeIInv
  <1>1. SUFFICES ASSUME ScopeInit PROVE ScopeIInv
    OBVIOUS
  <1>2. NoScope \in [all : BOOLEAN, names : SUBSET ScopeClusters, stored : BOOLEAN]
    BY DEF NoScope
  <1>3. HandlerIdle \in ScopeRequests /\ HandlerIdle.pc = "idle"
    BY DEF HandlerIdle, ScopeRequests, ScopeOwners
  <1>4. ScopeTypeOK
    BY <1>1, <1>2, <1>3, ScopeAssumption DEF ScopeInit, ScopeTypeOK
  <1>5. RenderRight
    <2>1. \A c \in ScopeClusters : rendering[c] = "idle" /\ snapshotRows[c] = {}
      BY <1>1 DEF ScopeInit
    <2>2. \A o \in ScopeOwners, k \in ScopeKinds : ~scopeRows[<<o, k>>].stored
      BY <1>1 DEF ScopeInit, NoScope
    <2>. QED
      BY <2>1, <2>2 DEF RenderRight, SnapshotRight
  <1>. QED
    BY <1>4, <1>5 DEF ScopeIInv

\* A request has been checked: nothing that a render reads has changed.
LEMMA StartedKeeps ==
  ASSUME ScopeIInv, NEW h \in ScopeHandlers, NEW owner \in ScopeOwners, NEW kind_ \in ScopeKinds,
         NEW asked, asked.all \in BOOLEAN, asked.names \in SUBSET ScopeClusters,
         Started(h, owner, kind_, asked)
  PROVE  ScopeIInv'
  <1>1. ScopeTypeOK /\ RenderRight
    BY DEF ScopeIInv
  <1>2. PICK n : n = [pc |-> "checked", owner |-> owner, kind |-> kind_, all |-> asked.all, names |-> asked.names]
    OBVIOUS
  <1>3. n \in ScopeRequests /\ n.pc = "checked" /\ n.kind # "none"
    BY <1>2 DEF ScopeRequests, ScopeKinds
  <1>4. /\ handlers[h].pc = "idle" /\ handlers' = [handlers EXCEPT ![h] = n]
        /\ scopeWrites < MaxScopeWrites /\ scopeWrites' = scopeWrites + 1
        /\ UNCHANGED <<tenantOf, scopeRows, dirty, missed, rendering, snapshotRows, lostNotices>>
    BY <1>2 DEF Started
  <1>5. /\ handlers' \in [ScopeHandlers -> ScopeRequests] /\ handlers'[h] = n
        /\ \A g \in ScopeHandlers : g # h => handlers'[g] = handlers[g]
    BY <1>1, <1>3, <1>4 DEF ScopeTypeOK
  <1>6. scopeWrites' \in 0..MaxScopeWrites
    BY <1>1, <1>4, ScopeAssumption DEF ScopeTypeOK
  <1>7. ScopeTypeOK'
    BY <1>1, <1>3, <1>4, <1>5, <1>6 DEF ScopeTypeOK
  <1>8. \A c \in ScopeClusters : Told(c)' => Told(c)
    BY <1>4, <1>5 DEF Told
  <1>9. RenderRight'
    BY <1>1, <1>4, <1>8 DEF RenderRight, SnapshotRight
  <1>. QED
    BY <1>7, <1>9 DEF ScopeIInv

\* A handler that has written has still to notify: nothing is said of any cluster.
LEMMA WrittenKeeps ==
  ASSUME ScopeIInv, NEW h \in ScopeHandlers,
         handlers' = [handlers EXCEPT ![h] = [HandlerIdle EXCEPT !.pc = "written"]],
         tenantOf' \in [ScopeClusters -> ScopeTenants \cup {"unassigned"}],
         scopeRows' \in [ScopeOwners \X ScopeKinds ->
                           [all : BOOLEAN, names : SUBSET ScopeClusters, stored : BOOLEAN]],
         scopeWrites' \in 0..MaxScopeWrites,
         UNCHANGED <<dirty, missed, rendering, snapshotRows, lostNotices>>
  PROVE  ScopeIInv'
  <1>1. ScopeTypeOK
    BY DEF ScopeIInv
  <1>2. PICK n : n = [HandlerIdle EXCEPT !.pc = "written"]
    OBVIOUS
  <1>3. n \in ScopeRequests /\ n.pc = "written"
    BY <1>2 DEF HandlerIdle, ScopeRequests, ScopeOwners
  <1>4. /\ handlers' \in [ScopeHandlers -> ScopeRequests] /\ handlers'[h] = n
        /\ \A g \in ScopeHandlers : g # h => handlers'[g] = handlers[g]
    BY <1>1, <1>2, <1>3 DEF ScopeTypeOK
  <1>5. ScopeTypeOK'
    BY <1>1, <1>3, <1>4 DEF ScopeTypeOK
  <1>6. RenderRight'
    BY <1>3, <1>4 DEF RenderRight, Told
  <1>. QED
    BY <1>5, <1>6 DEF ScopeIInv

\* The clusters an owner may name are clusters.
LEMMA ClustersForType == \A o : ClustersFor(o) \subseteq ScopeClusters
  BY DEF ClustersFor

LEMMA ScopeChecksKeep ==
  ASSUME ScopeIInv, NEW h \in ScopeHandlers, NEW o \in ScopeOwners, NEW all \in BOOLEAN,
         NEW names \in SUBSET ScopeClusters,
         \/ CheckDistribution(h, o, all, names)
         \/ CheckGroup(h, o, all, names)
         \/ CheckException(h, o, all, names)
  PROVE  ScopeIInv'
  <1>1. ASSUME NEW kind_ \in ScopeKinds, NEW asked,
               asked = [all |-> all, names |-> names] \/ asked = ExceptionTargetClusters(o, all, names),
               Started(h, o, kind_, asked)
        PROVE  ScopeIInv'
    <2>1. PICK mine : mine = ClustersFor(o)
      OBVIOUS
    <2>2. mine \subseteq ScopeClusters
      BY <2>1, ClustersForType
    <2>3. asked = [all |-> all, names |-> names] \/ asked = [all |-> FALSE, names |-> mine]
      BY <1>1, <2>1 DEF ExceptionTargetClusters
    <2>4. asked.all \in BOOLEAN /\ asked.names \in SUBSET ScopeClusters
      <3>1. CASE asked = [all |-> all, names |-> names]
        BY <3>1
      <3>2. CASE asked = [all |-> FALSE, names |-> mine]
        BY <2>2, <3>2
      <3>. QED
        BY <2>3, <3>1, <3>2
    <2>. QED
      BY <1>1, <2>4, StartedKeeps
  <1>2. "distribution" \in ScopeKinds /\ "group" \in ScopeKinds /\ "exception" \in ScopeKinds
    BY DEF ScopeKinds
  <1>3. CASE CheckDistribution(h, o, all, names)
    BY <1>1, <1>2, <1>3 DEF CheckDistribution
  <1>4. CASE CheckGroup(h, o, all, names)
    BY <1>1, <1>2, <1>4 DEF CheckGroup
  <1>5. CASE CheckException(h, o, all, names)
    BY <1>1, <1>2, <1>5 DEF CheckException
  <1>. QED
    BY <1>3, <1>4, <1>5

\* The row that a handler stores.
LEMMA StoreKeeps ==
  ASSUME ScopeIInv, NEW h \in ScopeHandlers, NEW asked,
         asked.all \in BOOLEAN, asked.names \in SUBSET ScopeClusters,
         handlers[h].pc = "checked", StoreScope(h, asked),
         UNCHANGED <<tenantOf, dirty, missed, rendering, snapshotRows, scopeWrites, lostNotices>>
  PROVE  ScopeIInv'
  <1>1. ScopeTypeOK
    BY DEF ScopeIInv
  <1>2. handlers[h] \in ScopeRequests /\ handlers[h].kind # "none"
    BY <1>1 DEF ScopeTypeOK
  <1>3. <<handlers[h].owner, handlers[h].kind>> \in ScopeOwners \X ScopeKinds
    BY <1>2 DEF ScopeRequests
  <1>4. [all |-> asked.all, names |-> asked.names, stored |-> TRUE]
          \in [all : BOOLEAN, names : SUBSET ScopeClusters, stored : BOOLEAN]
    OBVIOUS
  <1>5. scopeRows' \in [ScopeOwners \X ScopeKinds ->
                          [all : BOOLEAN, names : SUBSET ScopeClusters, stored : BOOLEAN]]
    BY <1>1, <1>3, <1>4 DEF ScopeTypeOK, StoreScope
  <1>6. /\ tenantOf' \in [ScopeClusters -> ScopeTenants \cup {"unassigned"}]
        /\ scopeWrites' \in 0..MaxScopeWrites
        /\ handlers' = [handlers EXCEPT ![h] = [HandlerIdle EXCEPT !.pc = "written"]]
    BY <1>1 DEF ScopeTypeOK, StoreScope
  <1>. QED
    BY <1>5, <1>6, WrittenKeeps

LEMMA ScopeWritesKeep ==
  ASSUME ScopeIInv, NEW h \in ScopeHandlers, WriteScope(h) \/ SyncGroupScope(h)
  PROVE  ScopeIInv'
  <1>1. ScopeTypeOK /\ RenderRight
    BY DEF ScopeIInv
  <1>2. handlers[h] \in ScopeRequests
    BY <1>1 DEF ScopeTypeOK
  <1>3. handlers[h].all \in BOOLEAN /\ handlers[h].names \in SUBSET ScopeClusters
    BY <1>2 DEF ScopeRequests
  <1>4. /\ handlers[h].pc = "checked"
        /\ UNCHANGED <<tenantOf, dirty, missed, rendering, snapshotRows, scopeWrites, lostNotices>>
    BY DEF WriteScope, SyncGroupScope
  <1>5. CASE WriteScope(h)
    BY <1>3, <1>4, <1>5, StoreKeeps DEF WriteScope
  <1>6. ASSUME NEW all \in BOOLEAN, NEW names \in SUBSET ScopeClusters,
               StoreScope(h, [all |-> all, names |-> names])
        PROVE  ScopeIInv'
    BY <1>4, <1>6, StoreKeeps
  <1>7. CASE SyncGroupScope(h) /\ UNCHANGED scopeRows /\ handlers' = [handlers EXCEPT ![h] = HandlerIdle]
    <2>1. HandlerIdle \in ScopeRequests /\ HandlerIdle.pc = "idle"
      BY DEF HandlerIdle, ScopeRequests, ScopeOwners
    <2>2. /\ handlers' \in [ScopeHandlers -> ScopeRequests] /\ handlers'[h] = HandlerIdle
          /\ \A g \in ScopeHandlers : g # h => handlers'[g] = handlers[g]
      BY <1>1, <1>7, <2>1 DEF ScopeTypeOK
    <2>3. ScopeTypeOK'
      BY <1>1, <1>4, <1>7, <2>1, <2>2 DEF ScopeTypeOK
    <2>4. \A c \in ScopeClusters : Told(c)' => Told(c)
      BY <1>4, <2>2 DEF Told
    <2>5. RenderRight'
      BY <1>1, <1>4, <1>7, <2>4 DEF RenderRight, SnapshotRight
    <2>. QED
      BY <2>3, <2>5 DEF ScopeIInv
  <1>8. CASE SyncGroupScope(h) /\ ~(UNCHANGED scopeRows /\ handlers' = [handlers EXCEPT ![h] = HandlerIdle])
    <2>1. PICK all : all = (handlers[h].all /\ handlers[h].owner = "system")
      OBVIOUS
    <2>2. PICK names : names = IF all THEN {} ELSE
                         IF handlers[h].all THEN ClustersFor(handlers[h].owner) ELSE handlers[h].names
      OBVIOUS
    <2>3. StoreScope(h, [all |-> all, names |-> names])
      BY <1>8, <2>1, <2>2 DEF SyncGroupScope
    <2>4. all \in BOOLEAN /\ names \in SUBSET ScopeClusters
      BY <1>3, <2>1, <2>2, ClustersForType
    <2>. QED
      BY <1>6, <2>3, <2>4
  <1>. QED
    BY <1>5, <1>7, <1>8

LEMMA ReassignmentsKeep ==
  ASSUME ScopeIInv, NEW h \in ScopeHandlers,
         \/ \E o \in ScopeOwners, k \in ScopeKinds : RemoveScope(h, o, k)
         \/ \E t \in ScopeTenants, names \in SUBSET ScopeClusters, allow \in BOOLEAN :
              SyncTenantClusters(h, t, names, allow)
         \/ \E c \in ScopeClusters, t \in ScopeTenants \cup {"unassigned"} : AssignTenant(h, c, t)
  PROVE  ScopeIInv'
  <1>1. ScopeTypeOK
    BY DEF ScopeIInv
  <1>2. /\ handlers' = [handlers EXCEPT ![h] = [HandlerIdle EXCEPT !.pc = "written"]]
        /\ scopeWrites < MaxScopeWrites /\ scopeWrites' = scopeWrites + 1
        /\ UNCHANGED <<dirty, missed, rendering, snapshotRows, lostNotices>>
    BY DEF RemoveScope, SyncTenantClusters, AssignTenant, Reassigned
  <1>3. scopeWrites' \in 0..MaxScopeWrites
    BY <1>1, <1>2, ScopeAssumption DEF ScopeTypeOK
  <1>4. tenantOf' \in [ScopeClusters -> ScopeTenants \cup {"unassigned"}]
    BY <1>1 DEF ScopeTypeOK, RemoveScope, SyncTenantClusters, AssignTenant, Reassigned
  <1>5. scopeRows' \in [ScopeOwners \X ScopeKinds ->
                          [all : BOOLEAN, names : SUBSET ScopeClusters, stored : BOOLEAN]]
    <2>1. NoScope \in [all : BOOLEAN, names : SUBSET ScopeClusters, stored : BOOLEAN]
      BY DEF NoScope
    <2>. QED
      BY <1>1, <2>1 DEF ScopeTypeOK, RemoveScope, SyncTenantClusters, AssignTenant, Reassigned
  <1>. QED
    BY <1>2, <1>3, <1>4, <1>5, WrittenKeeps

LEMMA NotifyKeeps ==
  ASSUME ScopeIInv, NEW h \in ScopeHandlers, NotifyClusters(h)
  PROVE  ScopeIInv'
  <1>1. ScopeTypeOK
    BY DEF ScopeIInv
  <1>2. HandlerIdle \in ScopeRequests /\ HandlerIdle.pc = "idle"
    BY DEF HandlerIdle, ScopeRequests, ScopeOwners
  <1>3. /\ handlers' \in [ScopeHandlers -> ScopeRequests] /\ handlers'[h] = HandlerIdle
        /\ \A g \in ScopeHandlers : g # h => handlers'[g] = handlers[g]
    BY <1>1, <1>2 DEF ScopeTypeOK, NotifyClusters
  <1>4. lostNotices' \in 0..MaxLostNotices
    BY <1>1, ScopeAssumption DEF ScopeTypeOK, NotifyClusters
  <1>5. ScopeTypeOK'
    BY <1>1, <1>2, <1>3, <1>4 DEF ScopeTypeOK, NotifyClusters
  <1>6. RenderRight'
    BY DEF RenderRight, Told, NotifyClusters
  <1>. QED
    BY <1>5, <1>6 DEF ScopeIInv

\* The first read of a render, and its second.
LEMMA RenderKeeps ==
  ASSUME ScopeIInv, NEW c \in ScopeClusters, RenderReadCluster(c) \/ RenderReadRows(c)
  PROVE  ScopeIInv'
  <1>1. ScopeTypeOK /\ RenderRight
    BY DEF ScopeIInv
  <1>2. CASE RenderReadCluster(c)
    <2>1. /\ rendering' \in [ScopeClusters -> ScopeTenants \cup {"unassigned", "idle"}]
          /\ rendering'[c] = tenantOf[c]
          /\ \A d \in ScopeClusters : d # c => rendering'[d] = rendering[d]
      BY <1>1, <1>2 DEF ScopeTypeOK, RenderReadCluster
    <2>2. tenantOf[c] # "idle"
      BY <1>1, ScopeAssumption DEF ScopeTypeOK
    <2>3. UNCHANGED <<tenantOf, scopeRows, handlers, snapshotRows, scopeWrites, lostNotices>>
      BY <1>2 DEF RenderReadCluster
    <2>4. dirty' = dirty \ {c} /\ missed' = missed \ {c}
      BY <1>2 DEF RenderReadCluster
    <2>5. \A d \in ScopeClusters : d # c /\ Told(d)' => Told(d)
      BY <2>3, <2>4 DEF Told
    <2>6. ScopeTypeOK'
      BY <1>1, <2>1, <2>3, <2>4 DEF ScopeTypeOK
    <2>7. RenderRight'
      BY <1>1, <2>1, <2>2, <2>3, <2>5 DEF RenderRight, SnapshotRight
    <2>. QED
      BY <2>6, <2>7 DEF ScopeIInv
  <1>3. CASE RenderReadRows(c)
    <2>1. PICK new : new = {s \in DistributionsForCluster(rendering[c]) : DistributionTargetsCluster(scopeRows[s], c)}
      OBVIOUS
    <2>2. /\ snapshotRows' = [snapshotRows EXCEPT ![c] = new]
          /\ rendering' = [rendering EXCEPT ![c] = "idle"] /\ rendering[c] # "idle"
          /\ UNCHANGED <<tenantOf, scopeRows, handlers, dirty, missed, scopeWrites, lostNotices>>
      BY <1>3, <2>1 DEF RenderReadRows
    <2>3. new \in SUBSET (ScopeOwners \X ScopeKinds)
      BY <2>1 DEF DistributionsForCluster
    <2>4. /\ rendering' \in [ScopeClusters -> ScopeTenants \cup {"unassigned", "idle"}]
          /\ rendering'[c] = "idle"
          /\ \A d \in ScopeClusters : d # c => rendering'[d] = rendering[d]
      BY <1>1, <2>2 DEF ScopeTypeOK
    <2>5. /\ snapshotRows' \in [ScopeClusters -> SUBSET (ScopeOwners \X ScopeKinds)]
          /\ snapshotRows'[c] = new
          /\ \A d \in ScopeClusters : d # c => snapshotRows'[d] = snapshotRows[d]
      BY <1>1, <2>2, <2>3 DEF ScopeTypeOK
    <2>6. ScopeTypeOK'
      BY <1>1, <2>2, <2>4, <2>5 DEF ScopeTypeOK
    <2>7. \A d \in ScopeClusters : Told(d)' <=> Told(d)
      BY <2>2 DEF Told
    <2>8. Told(c) => SnapshotRight(c)'
      <3>1. SUFFICES ASSUME Told(c), NEW o \in ScopeOwners, NEW k \in ScopeKinds
                     PROVE  <<o, k>> \in new <=>
                              /\ scopeRows[<<o, k>>].stored
                              /\ scopeRows[<<o, k>>].all \/ c \in scopeRows[<<o, k>>].names
                              /\ o \in {"system", tenantOf[c]}
        BY <2>2, <2>5 DEF SnapshotRight
      <3>2. rendering[c] = tenantOf[c]
        BY <1>1, <2>2, <3>1 DEF RenderRight
      <3>. QED
        BY <2>1, <3>2 DEF DistributionsForCluster, DistributionTargetsCluster
    <2>9. RenderRight'
      <3>1. SUFFICES ASSUME NEW d \in ScopeClusters, Told(d)
                     PROVE  (IF rendering[d] = "idle" THEN SnapshotRight(d) ELSE rendering[d] = tenantOf[d])'
        BY <2>7 DEF RenderRight
      <3>2. CASE d = c
        BY <2>4, <2>8, <3>1, <3>2
      <3>3. CASE d # c
        BY <1>1, <2>2, <2>4, <2>5, <3>1, <3>3 DEF RenderRight, SnapshotRight
      <3>. QED
        BY <3>2, <3>3
    <2>. QED
      BY <2>6, <2>9 DEF ScopeIInv
  <1>. QED
    BY <1>2, <1>3

LEMMA ScopeNextIInv == ScopeIInv /\ [ScopeNext]_scopeVars => ScopeIInv'
  <1>1. SUFFICES ASSUME ScopeIInv, [ScopeNext]_scopeVars PROVE ScopeIInv'
    OBVIOUS
  <1>2. CASE UNCHANGED scopeVars
    BY <1>1, <1>2 DEF scopeVars, ScopeIInv, ScopeTypeOK, RenderRight, Told, SnapshotRight
  <1>3. CASE ScopeNext
    BY <1>1, <1>3, ScopeChecksKeep, ScopeWritesKeep, ReassignmentsKeep, NotifyKeeps, RenderKeeps
       DEF ScopeNext
  <1>. QED
    BY <1>1, <1>2, <1>3

(***************************************************************************)
(* Clusters, scopes and the requests under way keep their types: a row is  *)
(* stored only for an owner and a kind that a check has passed.            *)
(***************************************************************************)
THEOREM ScopeTypeCorrect == ScopeSpec => []ScopeTypeOK
  <1>1. ScopeIInv => ScopeTypeOK
    BY DEF ScopeIInv
  <1>. QED
    BY ScopeInitIInv, ScopeNextIInv, <1>1, PTL DEF ScopeSpec

(***************************************************************************)
(* A cluster that has been told of everything has a snapshot of the rows   *)
(* of the system and of the tenant it has now, and of nothing else, for    *)
(* any number of clusters, tenants and requests (renderFor reads the row   *)
(* of the cluster before the distributions).                               *)
(***************************************************************************)
THEOREM QuietClusterIsOwn == ScopeSpec => []QuietMeansOwn
  <1>1. ScopeIInv => QuietMeansOwn
    BY DEF ScopeIInv, RenderRight, Told, SnapshotRight, QuietMeansOwn
  <1>. QED
    BY ScopeInitIInv, ScopeNextIInv, <1>1, PTL DEF ScopeSpec
=============================================================================
