----------------------------- MODULE Catalogue -----------------------------
(***************************************************************************)
(* What the policy and policy group services promise together: a           *)
(* catalogue of policies and groups in which every change is one atomic    *)
(* step that keeps the references between the two tables right.  The       *)
(* handlers of HubCatalogue, which check first and write later, implement  *)
(* this specification.                                                     *)
(***************************************************************************)
EXTENDS Naturals, Sequences

CONSTANTS
  Policies,     \* names of policies
  Groups,       \* names of policy groups
  Owners,       \* the system and the tenants
  System,       \* the owner of what belongs to no tenant
  PolicyContents, \* what a policy's specification may say
  NoObject      \* the row does not exist

VARIABLES
  policies,     \* policies[p]: owner, labelled, content, versions
  groups        \* groups[g]: owner, enabled, spec

catalogueVars == <<policies, groups>>

(***************************************************************************)
(* A group's specification: references by name, whether its selector       *)
(* matches the policies that carry the label, and exclusions.              *)
(***************************************************************************)
GroupSpecs ==
  [byName: SUBSET Policies, selects: BOOLEAN, exclude: SUBSET Policies]

PolicyRows == [owner: Owners, labelled: BOOLEAN, content: PolicyContents, versions: Seq(PolicyContents)]

FirstVersion(o, l, c) ==
  [owner |-> o, labelled |-> l, content |-> c, versions |-> <<c>>]

FirstVersions == {FirstVersion(o, l, c) : o \in Owners, l \in BOOLEAN, c \in PolicyContents}

GroupRows == [owner: Owners, enabled: BOOLEAN, spec: GroupSpecs]

Exists(p) == policies[p] # NoObject

\* The effective members of a group: (byName \cup bySelector) \ exclude.
Members(spec) ==
  {p \in Policies :
     /\ Exists(p)
     /\ p \in spec.byName \/ (spec.selects /\ policies[p].labelled)
     /\ p \notin spec.exclude}

\* Resolve reports a missing member for every name without a policy.
MembersComplete(spec) == \A p \in spec.byName : Exists(p)

ReferencingGroups(p) == {g \in Groups : groups[g] # NoObject /\ p \in Members(groups[g].spec)}

\* A tenant's policy may not change under a group of anybody else.
ReferencedByOtherTenant(p) ==
  /\ policies[p].owner # System
  /\ \E g \in ReferencingGroups(p) : groups[g].owner # policies[p].owner

Revised(p, c, l) ==
  [owner |-> policies[p].owner, labelled |-> l, content |-> c,
   versions |-> Append(policies[p].versions, c)]

-----------------------------------------------------------------------------
CatalogueInit ==
  /\ policies \in [Policies -> FirstVersions \cup {NoObject}]
  /\ groups \in [Groups -> GroupRows \cup {NoObject}]
  /\ \A g \in Groups : groups[g] # NoObject => MembersComplete(groups[g].spec)

AddPolicy(p, o, l, c) ==
  /\ ~Exists(p)
  /\ policies' = [policies EXCEPT ![p] = FirstVersion(o, l, c)]
  /\ UNCHANGED groups

ChangePolicy(p, c, l) ==
  /\ Exists(p) /\ ~ReferencedByOtherTenant(p)
  /\ policies' = [policies EXCEPT ![p] = Revised(p, c, l)]
  /\ UNCHANGED groups

RemovePolicy(p) ==
  /\ Exists(p) /\ ReferencingGroups(p) = {}
  /\ policies' = [policies EXCEPT ![p] = NoObject]
  /\ UNCHANGED groups

AddGroup(g, row) ==
  /\ groups[g] = NoObject /\ MembersComplete(row.spec)
  /\ groups' = [groups EXCEPT ![g] = row]
  /\ UNCHANGED policies

ChangeGroup(g, spec, enabled) ==
  /\ groups[g] # NoObject /\ MembersComplete(spec)
  /\ groups' = [groups EXCEPT ![g] = [owner |-> groups[g].owner, enabled |-> enabled, spec |-> spec]]
  /\ UNCHANGED policies

SwitchGroup(g) ==
  /\ groups[g] # NoObject
  /\ groups' = [groups EXCEPT ![g].enabled = ~@]
  /\ UNCHANGED policies

RemoveGroup(g) ==
  /\ groups[g] # NoObject
  /\ groups' = [groups EXCEPT ![g] = NoObject]
  /\ UNCHANGED policies

PolicyChanges(p) ==
  \/ \E o \in Owners, l \in BOOLEAN, c \in PolicyContents : AddPolicy(p, o, l, c)
  \/ \E l \in BOOLEAN, c \in PolicyContents : ChangePolicy(p, c, l)
  \/ RemovePolicy(p)

GroupChanges(g) ==
  \/ \E row \in GroupRows : AddGroup(g, row)
  \/ \E spec \in GroupSpecs, e \in BOOLEAN : ChangeGroup(g, spec, e)
  \/ SwitchGroup(g) \/ RemoveGroup(g)

\* The first conjuncts only say which row the change is of.
CatalogueNext ==
  \/ \E p \in Policies : policies'[p] # policies[p] /\ PolicyChanges(p)
  \/ \E g \in Groups : groups'[g] # groups[g] /\ GroupChanges(g)

CatalogueSpec == CatalogueInit /\ [][CatalogueNext]_catalogueVars
=============================================================================
