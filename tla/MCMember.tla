------------------------------ MODULE MCMember ------------------------------
(***************************************************************************)
(* The member cluster in small: the controllers of the operator, and the   *)
(* way of the webhook's events to the hub.  A behaviour is one of one      *)
(* component: `part' says which, and the others stay as they are at the    *)
(* start.                                                                  *)
(***************************************************************************)
EXTENDS EventDelivery, PolicyVersions, GroupReferences, ExceptionLifecycle

VARIABLE part

\* Exceptions of one or two ticks, one that is not valid, and one of something else without an end.
ExSpec(duration, retain, valid, target) ==
  [duration |-> duration, retain |-> retain, valid |-> valid, target |-> target]

MCExSpecs ==
  {ExSpec(1, 1, TRUE, "t"), ExSpec(2, 0, TRUE, "t"), ExSpec(1, 0, FALSE, "t"), ExSpec(0, 0, TRUE, "u")}

-----------------------------------------------------------------------------
MCInit ==
  /\ part \in {"events", "policies", "groups", "exceptions"}
  /\ Init /\ ReferenceInit /\ LifecycleInit
  /\ IF part = "policies" THEN VersionInit ELSE VersionStart(CHOOSE c \in PContents : TRUE)

MCNext ==
  /\ \/ /\ part = "events" /\ Next
        /\ UNCHANGED <<versionVars, referenceVars, lifecycleVars>>
     \/ /\ part = "policies" /\ VersionNext
        /\ UNCHANGED <<vars, referenceVars, lifecycleVars>>
     \/ /\ part = "groups" /\ ReferenceNext
        /\ UNCHANGED <<vars, versionVars, lifecycleVars>>
     \/ /\ part = "exceptions" /\ LifecycleNext
        /\ UNCHANGED <<vars, versionVars, referenceVars>>
  /\ UNCHANGED part

memberPartVars == <<vars, versionVars, referenceVars, lifecycleVars, part>>

(***************************************************************************)
(* The fairness of the components, for the one the behaviour is of.        *)
(***************************************************************************)
MCFairness ==
  /\ WF_vars(part = "events" /\ Webhook) /\ WF_vars(part = "events" /\ Close)
  /\ WF_vars(part = "events" /\ Open)
  /\ \A s \in Sessions :
       /\ WF_vars(part = "events" /\ Iterate(s, InFlight))
       /\ WF_vars(part = "events" /\ (Send(s) \/ SendFails(s) \/ Exit(s)))
  /\ WF_vars(part = "events" /\ Ack) /\ WF_vars(part = "events" /\ Handle)
  /\ WF_versionVars(part = "policies" /\ Watch)
  /\ WF_versionVars(part = "policies" /\ ReconcilePolicy)
  /\ WF_versionVars(part = "policies" /\ ReconcileWebhookConfig)
  /\ \A g \in RefGroups :
       /\ WF_referenceVars(part = "groups" /\ WatchGroup(g))
       /\ WF_referenceVars(part = "groups" /\ BeginGroup(g))
  /\ WF_referenceVars(part = "groups" /\ ReconcileGroup)
  /\ WF_lifecycleVars(part = "exceptions" /\ Tick)
  /\ WF_lifecycleVars(part = "exceptions" /\ ReconcileException)
  /\ WF_lifecycleVars(part = "exceptions" /\ CacheException)

MCSpec == MCInit /\ [][MCNext]_memberPartVars /\ MCFairness

-----------------------------------------------------------------------------
(* Type invariant of every component of the member cluster: queues, keys,  *)
(* phases, versions and caches stay within what the code's types allow.    *)
MemberTypesOK ==
  CASE part = "events" -> TypeOK
    [] part = "policies" -> VersionTypeOK
    [] part = "groups" -> ReferenceTypeOK
    [] part = "exceptions" -> LifecycleTypeOK

(***************************************************************************)
(* Once the specification no longer changes, the policy comes to rest,     *)
(* Ready at its generation or Invalid, with nothing queued, and the API    *)
(* server calls the webhook for exactly the match rules of a Ready policy  *)
(* as they are then, whichever reconciler ran first and whoever had reset  *)
(* the webhook configuration (Reconcile of both, aggregateRules).          *)
(***************************************************************************)
PolicySettles == part = "policies" => <>[]PolicyRests

(***************************************************************************)
(* Once the groups no longer change, every policy a group resolves to      *)
(* names that group in referencedBy, for good: an exception for the group  *)
(* reaches all of its policies, although concurrent groups recompute the   *)
(* same field from copies that lag behind (refreshReferencedBy).           *)
(***************************************************************************)
MembersAreReferenced == part = "groups" => <>[]AllReferenced
=============================================================================
