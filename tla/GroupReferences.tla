--------------------------- MODULE GroupReferences ---------------------------
(***************************************************************************)
(* The operator's PolicyGroup reconciler: it writes the members it has     *)
(* resolved into the group's status and then recomputes                    *)
(* Policy.status.referencedBy, which decides whether an exception for a    *)
(* group exempts a policy.                                                 *)
(*                                                                         *)
(* The reconciler runs one key at a time and reads groups from an informer *)
(* that lags behind the API server, its own writes included.  Writes read  *)
(* their object afresh and retry on conflict.  Which policies a group      *)
(* resolves to is an input here (PolicyRender has Resolve).                *)
(***************************************************************************)
EXTENDS Naturals, FiniteSets

CONSTANTS
  RefGroups,     \* groups
  RefPolicies,   \* policies
  MaxEdits,      \* bound on changes of the groups
  MaxErrors      \* bound on failing calls and restarts

ASSUME ReferenceAssumption == MaxEdits \in Nat /\ MaxErrors \in Nat

VARIABLES
  grp,         \* grp[g]: the group in the API server
  seenGrp,     \* seenGrp[g]: the informer's copy
  refBy,       \* refBy[p]: groups in p's status.referencedBy
  grpQueue,    \* keys in the work queue
  run,         \* the reconcile under way
  edits,       \* changes so far
  errors       \* failures so far

referenceVars == <<grp, seenGrp, refBy, grpQueue, run, edits, errors>>

\* spec: what the group resolves to, none while it is disabled.
GroupObjects ==
  [state: {"live", "deleting", "gone"}, spec: SUBSET RefPolicies,
   resolved: SUBSET RefPolicies, finalizer: BOOLEAN]

NewGroup(s) == [state |-> "live", spec |-> s, resolved |-> {}, finalizer |-> FALSE]

GoneGroup == [state |-> "gone", spec |-> {}, resolved |-> {}, finalizer |-> FALSE]

RunIdle == [at |-> "idle"]

\* A reconcile under way: what it has read, resolved and listed, and the policies still to touch.
GroupRuns ==
  [at: {"finalizer", "status", "list", "touch"}, group: RefGroups, read: GroupObjects,
   prev: SUBSET RefPolicies, members: SUBSET RefPolicies, todo: SUBSET RefPolicies,
   listed: [RefGroups -> GroupObjects]]

ReferenceTypeOK ==
  /\ grp \in [RefGroups -> GroupObjects]
  /\ seenGrp \in [RefGroups -> GroupObjects]
  /\ refBy \in [RefPolicies -> SUBSET RefGroups]
  /\ grpQueue \subseteq RefGroups
  /\ run \in {RunIdle} \cup GroupRuns
  /\ edits \in 0..MaxEdits /\ errors \in 0..MaxErrors

\* New groups, each resolving to every policy.
ReferenceInit ==
  /\ grp = [g \in RefGroups |-> NewGroup(RefPolicies)]
  /\ seenGrp = grp
  /\ refBy = [p \in RefPolicies |-> {}]
  /\ grpQueue = RefGroups
  /\ run = RunIdle
  /\ edits = 0
  /\ errors = 0

-----------------------------------------------------------------------------
(***************************************************************************)
(* The hub link, or a user, changes and deletes groups.                    *)
(***************************************************************************)
EditGroup(g, s) ==
  /\ edits < MaxEdits /\ grp[g].state = "live" /\ s # grp[g].spec
  /\ edits' = edits + 1
  /\ grp' = [grp EXCEPT ![g].spec = s]
  /\ UNCHANGED <<seenGrp, refBy, grpQueue, run, errors>>

\* A finalizer holds the object until it is removed.
DeleteGroup(g) ==
  /\ edits < MaxEdits /\ grp[g].state = "live"
  /\ edits' = edits + 1
  /\ grp' = [grp EXCEPT ![g] = IF grp[g].finalizer THEN [grp[g] EXCEPT !.state = "deleting"] ELSE GoneGroup]
  /\ UNCHANGED <<seenGrp, refBy, grpQueue, run, errors>>

WatchGroup(g) ==
  /\ seenGrp[g] # grp[g]
  /\ seenGrp' = [seenGrp EXCEPT ![g] = grp[g]]
  /\ grpQueue' = grpQueue \cup {g}
  /\ UNCHANGED <<grp, refBy, run, edits, errors>>

-----------------------------------------------------------------------------
(***************************************************************************)
(* Reconcile                                                               *)
(***************************************************************************)
Start(g, at, members) ==
  run' = [at |-> at, group |-> g, read |-> seenGrp[g], prev |-> seenGrp[g].resolved, members |-> members,
          todo |-> {}, listed |-> seenGrp]

\* The start of Reconcile, up to its first write.
BeginGroup(g) ==
  /\ run = RunIdle /\ g \in grpQueue
  /\ grpQueue' = grpQueue \ {g}
  /\ \/ /\ seenGrp[g].state = "gone" \/ (seenGrp[g].state = "deleting" /\ ~seenGrp[g].finalizer)
        /\ UNCHANGED run
     \/ /\ seenGrp[g].state = "deleting" /\ seenGrp[g].finalizer
        /\ Start(g, "list", {})
     \/ /\ seenGrp[g].state = "live"
        /\ Start(g, IF seenGrp[g].finalizer THEN "status" ELSE "finalizer", seenGrp[g].spec)
  /\ UNCHANGED <<grp, seenGrp, refBy, edits, errors>>

RunAt(step) == run # RunIdle /\ run.at = step

\* Mutant: the error is dropped.
FailsForgotten == run' = RunIdle /\ UNCHANGED grpQueue

\* An error brings the key back.
Fails ==
  /\ run' = RunIdle
  /\ grpQueue' = grpQueue \cup {run.group}

\* Update with the version that was read: a conflict is an error.
Unchanged == grp[run.group] = run.read

Conflict == ~Unchanged /\ Fails /\ UNCHANGED grp

AddFinalizer ==
  /\ RunAt("finalizer")
  /\ \/ Conflict
     \/ /\ Unchanged
        /\ grp' = [grp EXCEPT ![run.group].finalizer = TRUE]
        /\ run' = [run EXCEPT !.at = "status"]
        /\ UNCHANGED grpQueue
  /\ UNCHANGED <<seenGrp, refBy, edits, errors>>

\* updateGroupStatus
WriteGroupStatus ==
  /\ RunAt("status")
  /\ \/ /\ grp[run.group].state # "gone"
        /\ grp' = [grp EXCEPT ![run.group].resolved = run.members]
        /\ run' = [run EXCEPT !.at = "list"]
        /\ UNCHANGED grpQueue
     \/ /\ grp[run.group].state = "gone"
        /\ Fails
        /\ UNCHANGED grp
  /\ UNCHANGED <<seenGrp, refBy, edits, errors>>

\* Previously and currently resolved policies.
ToTouch == run.prev \cup run.members

\* refreshReferencedBy lists the groups, from the informer.
ListGroups ==
  /\ RunAt("list")
  /\ run' = [run EXCEPT !.at = "touch", !.listed = seenGrp, !.todo = ToTouch]
  /\ UNCHANGED <<grp, seenGrp, refBy, grpQueue, edits, errors>>

\* Mutant: the group under way replaces the others.
RefsOwn(p) == {run.group}

\* Groups, none of them on its way out, whose status includes p.
Refs(p) == {g \in RefGroups : run.listed[g].state = "live" /\ p \in run.listed[g].resolved}

\* findGroupsReferencing: the groups a change of policy p brings back.
GroupsReferencing(p) == {g \in RefGroups : p \in seenGrp[g].spec \cup seenGrp[g].resolved}

TouchPolicy(p) ==
  /\ RunAt("touch") /\ p \in run.todo
  /\ refBy' = [refBy EXCEPT ![p] = Refs(p)]
  /\ grpQueue' = IF refBy[p] = Refs(p) THEN grpQueue ELSE grpQueue \cup GroupsReferencing(p)
  /\ run' = [run EXCEPT !.todo = @ \ {p}]
  /\ UNCHANGED <<grp, seenGrp, edits, errors>>

\* The delete path ends with the removal of the finalizer.
EndGroup ==
  /\ RunAt("touch") /\ run.todo = {}
  /\ \/ /\ run.read.state = "live"
        /\ run' = RunIdle
        /\ UNCHANGED <<grp, grpQueue>>
     \/ run.read.state = "deleting" /\ Conflict
     \/ /\ run.read.state = "deleting" /\ Unchanged
        /\ grp' = [grp EXCEPT ![run.group] = GoneGroup]
        /\ run' = RunIdle
        /\ UNCHANGED grpQueue
  /\ UNCHANGED <<seenGrp, refBy, edits, errors>>

GroupReconcileFails ==
  /\ run # RunIdle /\ errors < MaxErrors
  /\ errors' = errors + 1
  /\ Fails
  /\ UNCHANGED <<grp, seenGrp, refBy, edits>>

-----------------------------------------------------------------------------
ReconcileGroup ==
  \/ \E g \in RefGroups : BeginGroup(g)
  \/ AddFinalizer \/ WriteGroupStatus \/ ListGroups
  \/ \E p \in RefPolicies : TouchPolicy(p)
  \/ EndGroup

ReferenceNext ==
  \/ \E g \in RefGroups :
       \/ \E s \in SUBSET RefPolicies : EditGroup(g, s)
       \/ DeleteGroup(g)
       \/ WatchGroup(g)
  \/ ReconcileGroup
  \/ GroupReconcileFails

\* Informers deliver every change and the work queue runs every key.
ReferenceFairness ==
  /\ \A g \in RefGroups : WF_referenceVars(WatchGroup(g)) /\ WF_referenceVars(BeginGroup(g))
  /\ WF_referenceVars(ReconcileGroup)

ReferenceSpec == ReferenceInit /\ [][ReferenceNext]_referenceVars /\ ReferenceFairness

-----------------------------------------------------------------------------
\* Every policy that a live group names has the group in its referencedBy.
AllReferenced ==
  \A g \in RefGroups, p \in RefPolicies :
    grp[g].state = "live" /\ p \in grp[g].spec => g \in refBy[p]

(***************************************************************************)
(* A group that is deleted goes: its finalizer does not hold it for ever.  *)
(***************************************************************************)
DeletedGroupsGo ==
  \A g \in RefGroups : grp[g].state = "deleting" ~> grp[g].state = "gone"
=============================================================================
