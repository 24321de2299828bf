--------------------------- MODULE PolicyVersions ---------------------------
(***************************************************************************)
(* The operator's Policy reconciler: it validates a policy, records its    *)
(* specification in an immutable PolicyVersion and then writes the status. *)
(* And the reconciler of the webhook configuration, which turns the match  *)
(* rules of Ready policies into the rules the API server calls the webhook *)
(* for.                                                                    *)
(*                                                                         *)
(* The API server's copy of the policy changes under the reconciler, which *)
(* reads the copy of an informer that lags behind.  Each write is a step;  *)
(* between two of them the operator may end or a call may fail.  Status    *)
(* writes read the object afresh (RetryOnConflict), so they overwrite the  *)
(* fields the reconciler owns and nothing else.                            *)
(***************************************************************************)
EXTENDS Naturals, Sequences, FiniteSets

CONSTANTS
  PContents,       \* specifications of the policy
  BadContents,     \* the ones whose Rego does not compile
  HistoryLimit,    \* versions kept (historyLimit)
  MaxCollisions,   \* maxVersionCollisionRetries
  MaxChanges,      \* bound on changes of the specification
  MaxFailures,     \* bound on failures of the reconciler
  MaxResets        \* bound on resets of the webhook configuration

ASSUME VersionAssumption ==
  /\ HistoryLimit \in Nat /\ MaxCollisions \in Nat
  /\ MaxChanges \in Nat /\ MaxFailures \in Nat /\ MaxResets \in Nat
  /\ PContents # {} /\ BadContents \subseteq PContents

VARIABLES
  pol,        \* the policy in the API server
  seenPol,    \* the informer's copy
  pvs,        \* pvs[n]: what version n has recorded
  rec,        \* the reconcile under way
  polQueued,  \* the work queue holds the policy
  changes,    \* changes of the specification so far
  failures,   \* failures of the reconciler so far
  whRules,    \* the specifications whose match rules the webhook configuration has
  whQueued,   \* the work queue holds the webhook configuration
  resets      \* resets of the webhook configuration so far

webhookVars == <<whRules, whQueued, resets>>
versionVars == <<pol, seenPol, pvs, rec, polQueued, changes, failures, whRules, whQueued, resets>>

PolicyPhases == {"", "Ready", "Invalid"}

\* versionHistory of the status
VersionHistories == {h \in Seq(Nat) : Len(h) <= HistoryLimit}

\* rollback = 0: the specification asks for none.
PolicyObjects ==
  [content: PContents, gen: Nat, rollback: Nat,
   phase: PolicyPhases, observed: Nat, current: Nat, history: VersionHistories]

RecIdle == [at |-> "idle"]

\* A reconcile under way: the object it has read and the version number it has come to.
Reconciles ==
  [at: {"create", "prune", "status"}, obj: PolicyObjects, next: Nat \ {0}, tries: 0..MaxCollisions]

VersionTypeOK ==
  /\ pol \in PolicyObjects /\ seenPol \in PolicyObjects
  /\ DOMAIN pvs \subseteq Nat \ {0} /\ pvs \in [DOMAIN pvs -> PContents \ BadContents]
  /\ Cardinality(DOMAIN pvs) <= HistoryLimit + MaxFailures + 1
  /\ rec \in {RecIdle} \cup Reconciles
  /\ polQueued \in BOOLEAN /\ changes \in 0..MaxChanges /\ failures \in 0..MaxFailures
  /\ whRules \subseteq PContents /\ whQueued \in BOOLEAN /\ resets \in 0..MaxResets

VersionStart(c) ==
  /\ pol = [content |-> c, gen |-> 1, rollback |-> 0,
            phase |-> "", observed |-> 0, current |-> 0, history |-> <<>>]
  /\ seenPol = pol
  /\ pvs = [n \in {} |-> c]
  /\ rec = RecIdle
  /\ polQueued = TRUE
  /\ changes = 0
  /\ failures = 0
  /\ whRules = {} /\ whQueued = TRUE /\ resets = 0

VersionInit == \E c \in PContents : VersionStart(c)

-----------------------------------------------------------------------------
\* The API server counts a generation for a change of the specification only.
Patched(c, rollback) ==
  IF c = pol.content /\ rollback = pol.rollback THEN pol
  ELSE [pol EXCEPT !.content = c, !.rollback = rollback, !.gen = @ + 1]

(***************************************************************************)
(* The hub link, or a user, changes the specification.                     *)
(***************************************************************************)
ChangeSpec(c, rollback) ==
  /\ changes < MaxChanges
  /\ c # pol.content \/ rollback # pol.rollback
  /\ changes' = changes + 1
  /\ pol' = Patched(c, rollback)
  /\ UNCHANGED <<seenPol, pvs, rec, polQueued, failures, webhookVars>>

\* Mutant: changes of policies do not bring the webhook configuration back.
WatchOwn ==
  /\ seenPol # pol
  /\ seenPol' = pol
  /\ polQueued' = TRUE
  /\ UNCHANGED <<pol, pvs, rec, changes, failures, webhookVars>>

\* An event of the policy is one for both reconcilers (SetupWithManager).
Watch ==
  /\ seenPol # pol
  /\ seenPol' = pol
  /\ polQueued' = TRUE /\ whQueued' = TRUE
  /\ UNCHANGED <<pol, pvs, rec, changes, failures, whRules, resets>>

-----------------------------------------------------------------------------
(***************************************************************************)
(* Reconcile.  TakeKey is its start; the first four actions are its early  *)
(* returns.                                                                *)
(***************************************************************************)
TakeKey == rec = RecIdle /\ polQueued

\* updatePolicyStatus, with the status of the object that was read.
WithStatus(obj) ==
  [pol EXCEPT !.phase = obj.phase, !.observed = obj.observed,
              !.current = obj.current, !.history = obj.history]

\* setInvalid leaves observedGeneration alone.
SetInvalid ==
  /\ pol' = WithStatus([seenPol EXCEPT !.phase = "Invalid"])
  /\ polQueued' = FALSE
  /\ UNCHANGED <<seenPol, pvs, rec, changes, failures, webhookVars>>

\* handleRollback: a merge patch with the fields that differ, then requeue.
HandleRollback ==
  /\ TakeKey
  /\ seenPol.rollback \in DOMAIN pvs
  /\ LET old == pvs[seenPol.rollback]
     IN pol' = Patched(IF old = seenPol.content THEN pol.content ELSE old, 0)
  /\ UNCHANGED <<seenPol, pvs, rec, polQueued, changes, failures, webhookVars>>

RollbackTargetMissing ==
  /\ TakeKey
  /\ seenPol.rollback # 0 /\ seenPol.rollback \notin DOMAIN pvs
  /\ SetInvalid

AlreadyReconciled(obj) == obj.observed = obj.gen /\ obj.phase = "Ready"

NothingToDo ==
  /\ TakeKey
  /\ seenPol.rollback = 0
  /\ AlreadyReconciled(seenPol)
  /\ polQueued' = FALSE
  /\ UNCHANGED <<pol, seenPol, pvs, rec, changes, failures, webhookVars>>

RegoInvalid ==
  /\ TakeKey
  /\ seenPol.rollback = 0 /\ ~AlreadyReconciled(seenPol)
  /\ seenPol.content \in BadContents
  /\ SetInvalid

BeginVersion ==
  /\ TakeKey
  /\ seenPol.rollback = 0 /\ ~AlreadyReconciled(seenPol)
  /\ seenPol.content \notin BadContents
  /\ rec' = [at |-> "create", obj |-> seenPol, next |-> seenPol.current + 1, tries |-> 0]
  /\ polQueued' = FALSE
  /\ UNCHANGED <<pol, seenPol, pvs, changes, failures, webhookVars>>

\* Mutant: AlreadyExists is taken for success.
MatchesAny(n) == TRUE

\* policyVersionMatchesSpec
MatchesSpec(n) == pvs[n] = rec.obj.content

\* One round of the loop: create, reuse what matches, or try the next number.
CreateVersion ==
  /\ rec # RecIdle /\ rec.at = "create"
  /\ rec.tries < MaxCollisions
  /\ \/ /\ rec.next \notin DOMAIN pvs
        /\ pvs' = [n \in DOMAIN pvs \cup {rec.next} |->
                     IF n = rec.next THEN rec.obj.content ELSE pvs[n]]
        /\ rec' = [rec EXCEPT !.at = "prune"]
     \/ /\ rec.next \in DOMAIN pvs /\ MatchesSpec(rec.next)
        /\ rec' = [rec EXCEPT !.at = "prune"]
        /\ UNCHANGED pvs
     \/ /\ rec.next \in DOMAIN pvs /\ ~MatchesSpec(rec.next)
        /\ rec' = [rec EXCEPT !.next = @ + 1, !.tries = @ + 1]
        /\ UNCHANGED pvs
  /\ UNCHANGED <<pol, seenPol, polQueued, changes, failures, webhookVars>>

\* "could not converge": the error brings the policy back.
GiveUp ==
  /\ rec # RecIdle /\ rec.at = "create" /\ rec.tries = MaxCollisions
  /\ rec' = RecIdle
  /\ polQueued' = TRUE
  /\ UNCHANGED <<pol, seenPol, pvs, changes, failures, webhookVars>>

Newest(n) == {i \in DOMAIN pvs : Cardinality({j \in DOMAIN pvs : j > i}) < n}

\* pruneVersions; its error is only logged.
PruneVersions ==
  /\ rec # RecIdle /\ rec.at = "prune"
  /\ rec' = [rec EXCEPT !.at = "status"]
  /\ \/ /\ pvs' = [n \in Newest(HistoryLimit) |-> pvs[n]]
        /\ UNCHANGED failures
     \/ /\ failures < MaxFailures
        /\ failures' = failures + 1
        /\ UNCHANGED pvs
  /\ UNCHANGED <<pol, seenPol, polQueued, changes, webhookVars>>

BuildHistory(history, n) ==
  LET longer == <<n>> \o history
  IN IF Len(longer) > HistoryLimit THEN SubSeq(longer, 1, HistoryLimit) ELSE longer

WriteStatus ==
  /\ rec # RecIdle /\ rec.at = "status"
  /\ pol' = WithStatus([rec.obj EXCEPT !.phase = "Ready", !.observed = rec.obj.gen,
                          !.current = rec.next, !.history = BuildHistory(@, rec.next)])
  /\ rec' = RecIdle
  /\ UNCHANGED <<seenPol, pvs, polQueued, changes, failures, webhookVars>>

\* A call fails, or the operator ends and starts again.
ReconcileFails ==
  /\ rec # RecIdle
  /\ failures < MaxFailures
  /\ failures' = failures + 1
  /\ rec' = RecIdle
  /\ polQueued' = TRUE
  /\ UNCHANGED <<pol, seenPol, pvs, changes, webhookVars>>

-----------------------------------------------------------------------------
(***************************************************************************)
(* The webhook configuration.  Its TLS secret is there: without it a       *)
(* reconcile does nothing, and nothing watches for it.                     *)
(***************************************************************************)

\* Only Ready policies count; the one policy's rules are all different, so none is dropped.
AggregateRules(obj) == IF obj.phase = "Ready" THEN {obj.content} ELSE {}

ReconcileWebhookConfig ==
  /\ whQueued
  /\ whQueued' = FALSE
  /\ whRules' = AggregateRules(seenPol)
  /\ UNCHANGED <<pol, seenPol, pvs, rec, polQueued, changes, failures, resets>>

\* An upgrade of the chart writes the configuration anew; the change is an event of its own.
ResetWebhookConfig ==
  /\ resets < MaxResets
  /\ resets' = resets + 1
  /\ whRules' = {}
  /\ whQueued' = TRUE
  /\ UNCHANGED <<pol, seenPol, pvs, rec, polQueued, changes, failures>>

-----------------------------------------------------------------------------
ReconcilePolicy ==
  \/ HandleRollback \/ RollbackTargetMissing \/ NothingToDo \/ RegoInvalid
  \/ BeginVersion \/ CreateVersion \/ GiveUp \/ PruneVersions \/ WriteStatus

VersionNext ==
  \/ \E c \in PContents : ChangeSpec(c, 0)
  \/ \E n \in 1..(pol.current + 1) : ChangeSpec(pol.content, n)
  \/ Watch \/ ReconcilePolicy \/ ReconcileFails
  \/ ReconcileWebhookConfig \/ ResetWebhookConfig

(***************************************************************************)
(* Informers deliver every change and the work queue runs every key.       *)
(***************************************************************************)
VersionFairness ==
  /\ WF_versionVars(Watch)
  /\ WF_versionVars(ReconcilePolicy)
  /\ WF_versionVars(ReconcileWebhookConfig)

VersionSpec == VersionInit /\ [][VersionNext]_versionVars /\ VersionFairness

-----------------------------------------------------------------------------
(***************************************************************************)
(* A policy that is Ready at its generation has a version, the current     *)
(* one, that records exactly its specification, whatever crashed between   *)
(* the creation of a version and the status write, however stale the copy  *)
(* the reconciler read, and although old versions are pruned, as long as   *)
(* fewer than historyLimit versions are newer than the current one         *)
(* (Reconcile, policyVersionMatchesSpec, pruneVersions).                   *)
(***************************************************************************)
ReadyIsCaptured ==
  AlreadyReconciled(pol) => /\ pol.current \in DOMAIN pvs
                            /\ pvs[pol.current] = pol.content

(***************************************************************************)
(* At rest: Ready at its generation or Invalid, nothing queued, and the    *)
(* webhook configuration with the match rules of a Ready policy.           *)
(***************************************************************************)
PolicyRests ==
  /\ rec = RecIdle /\ ~polQueued /\ seenPol = pol
  /\ AlreadyReconciled(pol) \/ pol.phase = "Invalid"
  /\ whRules = {c \in {pol.content} : pol.phase = "Ready"}
=============================================================================
