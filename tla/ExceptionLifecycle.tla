------------------------- MODULE ExceptionLifecycle -------------------------
(***************************************************************************)
(* A PolicyException on a member cluster: the hub link applies it from the *)
(* hub's snapshot, the exception reconciler takes it through its phases,   *)
(* and the webhook's cache exempts while it has seen it Active.            *)
(*                                                                         *)
(* Time is a clock in units of the durations.  The reconciler's status     *)
(* writes carry the version it has read, so a stale copy is a conflict and *)
(* a retry: a reconcile is one step on the object as it is.                *)
(***************************************************************************)
EXTENDS Naturals, FiniteSets

CONSTANTS
  ExSpecs,       \* specifications: duration, retain, valid, target
  MaxTime,       \* bound on the clock
  MaxHubEdits    \* bound on changes at the hub

ASSUME LifecycleAssumption ==
  /\ MaxTime \in Nat /\ MaxHubEdits \in Nat
  /\ \A s \in ExSpecs :
       /\ s.duration \in Nat /\ s.retain \in Nat
       /\ s.valid \in BOOLEAN

VARIABLES
  clock,
  hubEx,       \* the exception in the hub's snapshot, or {}
  ex,          \* the object on the member, or {}
  refsFound,   \* the policies and groups it names exist on the member
  exCached,    \* the webhook's cache holds it
  exRun,       \* the reconciler has been woken, by an event or its timer
  hubEdits     \* changes at the hub so far

lifecycleVars == <<clock, hubEx, ex, refsFound, exCached, exRun, hubEdits>>

ExPhases == {"", "Active", "Expired", "Invalid"}

ExObjects == [spec: ExSpecs, phase: ExPhases, created: 0..clock, expires: Nat]

LifecycleTypeOK ==
  /\ clock \in 0..MaxTime
  /\ hubEx \subseteq ExSpecs /\ \A s, q \in hubEx : s = q
  /\ ex \subseteq ExObjects /\ \A o, q \in ex : o = q
  /\ refsFound \in BOOLEAN /\ exCached \in BOOLEAN /\ exRun \in BOOLEAN
  /\ hubEdits \in 0..MaxHubEdits

LifecycleInit ==
  /\ clock = 0
  /\ hubEx = {}
  /\ ex = {}
  /\ refsFound = TRUE
  /\ exCached = FALSE
  /\ exRun = FALSE
  /\ hubEdits = 0

-----------------------------------------------------------------------------
HubCreates(s) ==
  /\ hubEdits < MaxHubEdits /\ hubEx = {}
  /\ hubEdits' = hubEdits + 1
  /\ hubEx' = {s}
  /\ UNCHANGED <<clock, ex, refsFound, exCached, exRun>>

HubUpdates(s) ==
  /\ hubEdits < MaxHubEdits /\ hubEx # {} /\ hubEx # {s}
  /\ hubEdits' = hubEdits + 1
  /\ hubEx' = {s}
  /\ UNCHANGED <<clock, ex, refsFound, exCached, exRun>>

HubDeletes ==
  /\ hubEdits < MaxHubEdits /\ hubEx # {}
  /\ hubEdits' = hubEdits + 1
  /\ hubEx' = {}
  /\ UNCHANGED <<clock, ex, refsFound, exCached, exRun>>

-----------------------------------------------------------------------------
(***************************************************************************)
(* The hub link applies a snapshot; the API server refuses what the        *)
(* admission policy on exceptions forbids.                                 *)
(***************************************************************************)
\* CheckExceptionSpecMutation: target and match are immutable.
SpecMutationAllowed(old, new) == old.target = new.target

\* CheckExceptionExpiredFreeze
NotExpiredFrozen(o, new) == o.phase = "Expired" => o.spec = new

ApplyException ==
  /\ \E s \in hubEx :
       \/ /\ ex = {}
          /\ ex' = {[spec |-> s, phase |-> "", created |-> clock, expires |-> 0]}
       \/ \E o \in ex :
            /\ o.spec # s
            /\ SpecMutationAllowed(o.spec, s) /\ NotExpiredFrozen(o, s)
            /\ ex' = {[o EXCEPT !.spec = s]}
  /\ exRun' = TRUE
  /\ UNCHANGED <<clock, hubEx, refsFound, exCached, hubEdits>>

\* pruneManaged
PruneException ==
  /\ hubEx = {} /\ ex # {}
  /\ ex' = {}
  /\ UNCHANGED <<clock, hubEx, refsFound, exCached, exRun, hubEdits>>

-----------------------------------------------------------------------------
(***************************************************************************)
(* ExceptionReconciler                                                     *)
(***************************************************************************)
\* Policies and groups come and go, and wake every exception.
ReferencesChange ==
  /\ hubEdits < MaxHubEdits
  /\ hubEdits' = hubEdits + 1
  /\ refsFound' = ~refsFound
  /\ exRun' = TRUE
  /\ UNCHANGED <<clock, hubEx, ex, exCached>>

\* The object's status and when the reconciler looks again.
StatusWritten(o, phase, expires, again) ==
  /\ ex' = {[o EXCEPT !.phase = phase, !.expires = expires]}
  /\ exRun' = (again \/ ex' # ex)
  /\ UNCHANGED <<clock, hubEx, refsFound, exCached, hubEdits>>

\* validateOneOf, reason, duration, retainAfterExpiry, validateRefs.
Valid(o) == o.spec.valid /\ o.spec.duration > 0 /\ refsFound

ExpiresAt(o) == o.created + o.spec.duration

SetExInvalid ==
  /\ exRun
  /\ \E o \in ex :
       /\ o.phase # "Expired" /\ ~Valid(o)
       /\ StatusWritten(o, "Invalid", o.expires, FALSE)

SetActive ==
  /\ exRun
  /\ \E o \in ex :
       /\ o.phase # "Expired" /\ Valid(o) /\ clock < ExpiresAt(o)
       /\ StatusWritten(o, "Active", ExpiresAt(o), FALSE)

SetExpired ==
  /\ exRun
  /\ \E o \in ex :
       /\ o.phase # "Expired" /\ Valid(o) /\ clock >= ExpiresAt(o)
       /\ StatusWritten(o, "Expired", ExpiresAt(o), TRUE)

\* handleExpired: delete once the retention is over, else wait for it.
HandleExpired ==
  /\ exRun
  /\ \E o \in ex :
       /\ o.phase = "Expired"
       /\ ex' = IF clock >= o.expires + o.spec.retain THEN {} ELSE ex
  /\ exRun' = FALSE
  /\ UNCHANGED <<clock, hubEx, refsFound, exCached, hubEdits>>

ReconcileGone ==
  /\ exRun /\ ex = {}
  /\ exRun' = FALSE
  /\ UNCHANGED <<clock, hubEx, ex, refsFound, exCached, hubEdits>>

\* Mutant: the timer of an Active exception is not set.
DueRetained(o) == o.phase = "Expired" /\ clock + 1 = o.expires + o.spec.retain

\* RequeueAfter: the expiry of an Active one, the deletion of an Expired one.
Due(o) ==
  \/ o.phase = "Active" /\ clock + 1 = o.expires
  \/ o.phase = "Expired" /\ clock + 1 = o.expires + o.spec.retain

Tick ==
  /\ clock < MaxTime
  /\ clock' = clock + 1
  /\ exRun' = (exRun \/ \E o \in ex : Due(o))
  /\ UNCHANGED <<hubEx, ex, refsFound, exCached, hubEdits>>

\* ExceptionCache: Upsert keeps Active ones only.
CacheException ==
  /\ exCached # (\E o \in ex : o.phase = "Active")
  /\ exCached' = ~exCached
  /\ UNCHANGED <<clock, hubEx, ex, refsFound, exRun, hubEdits>>

-----------------------------------------------------------------------------
ReconcileException ==
  SetExInvalid \/ SetActive \/ SetExpired \/ HandleExpired \/ ReconcileGone

LifecycleNext ==
  \/ \E s \in ExSpecs : HubCreates(s) \/ HubUpdates(s)
  \/ HubDeletes \/ ApplyException \/ PruneException \/ ReferencesChange
  \/ ReconcileException \/ Tick \/ CacheException

(***************************************************************************)
(* Time passes, work queues run and informers deliver.                     *)
(***************************************************************************)
LifecycleFairness ==
  /\ WF_lifecycleVars(Tick)
  /\ WF_lifecycleVars(ReconcileException)
  /\ WF_lifecycleVars(CacheException)

LifecycleSpec == LifecycleInit /\ [][LifecycleNext]_lifecycleVars /\ LifecycleFairness

-----------------------------------------------------------------------------
Overdue == \E o \in ex : o.phase = "Active" /\ o.expires <= clock

(***************************************************************************)
(* An exception object does not stay Active past its time: once its        *)
(* duration is over it becomes Expired, Invalid or gone, although nothing  *)
(* but the reconciler's own timer may wake it then (setActive).            *)
(***************************************************************************)
ActiveEnds == Overdue ~> ~Overdue
=============================================================================
