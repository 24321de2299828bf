----------------------------- MODULE TenantScopes -----------------------------
(***************************************************************************)
(* Which rows reach which member cluster when clusters move between        *)
(* tenants: the scopes that distributions, groups and exceptions are       *)
(* written with (internal/console/service), the assignment of clusters to  *)
(* tenants, and the gateway's render, which reads the cluster's row first  *)
(* and the distributions later (internal/gateway/server.go).               *)
(*                                                                         *)
(* A scope is the row of table policy_distributions that carries a group,  *)
(* an exception or a distribution of the console to clusters; there is one *)
(* per owner and kind here.  Handlers check their request in one step and  *)
(* write in another, and notify the gateway in a third.  All clusters are  *)
(* connected; the sessions' side of a push is DesiredStateSync's.          *)
(***************************************************************************)
EXTENDS Naturals, FiniteSets

CONSTANTS ScopeClusters,   \* the registered clusters
          Uninstalled,     \* those in phase Uninstalled
          ScopeTenants,    \* the tenants
          ActiveTenants,   \* those whose status is active
          InitialTenant,   \* cluster -> the tenant it belongs to at the start
          ScopeHandlers,   \* requests that run side by side
          MaxScopeWrites,  \* bound on the requests
          MaxLostNotices   \* bound on the notifications the gateway does not get

ASSUME ScopeAssumption ==
  /\ Uninstalled \subseteq ScopeClusters /\ ActiveTenants \subseteq ScopeTenants
  /\ InitialTenant \in [ScopeClusters -> ScopeTenants \cup {"unassigned"}]
  /\ MaxScopeWrites \in Nat /\ MaxLostNotices \in Nat
  /\ ScopeTenants \cap {"system", "unassigned", "idle"} = {}

VARIABLES tenantOf,    \* cluster -> its tenant_id
          scopeRows,   \* <<owner, kind>> -> the scope row
          handlers,    \* handler -> its request
          dirty,       \* clusters whose push loop has been woken
          missed,      \* clusters not told of a change since their last push
          rendering,   \* cluster -> the tenant the render under way has read
          snapshotRows, \* cluster -> the scope rows of its last snapshot
          scopeWrites, \* requests so far
          lostNotices  \* notifications lost so far

scopeVars == <<tenantOf, scopeRows, handlers, dirty, missed, rendering, snapshotRows, scopeWrites, lostNotices>>

ScopeOwners == ScopeTenants \cup {"system"}
ScopeKinds == {"distribution", "group", "exception"}
NoScope == [all |-> FALSE, names |-> {}, stored |-> FALSE]
ScopeRequests == [pc : {"idle", "checked", "written"}, owner : ScopeOwners, kind : ScopeKinds \cup {"none"},
                  all : BOOLEAN, names : SUBSET ScopeClusters]
HandlerIdle == [pc |-> "idle", owner |-> "system", kind |-> "none", all |-> FALSE, names |-> {}]

\* The clusters a principal of `owner' may name: the tenant's own, or all (GetByNameForTenant, GetByName).
ClustersFor(owner) == IF owner = "system" THEN ScopeClusters ELSE {c \in ScopeClusters : tenantOf[c] = owner}

\* What a scope matches: an empty label selector matches every cluster.
DistributionTargetsCluster(scope, c) == scope.stored /\ (scope.all \/ c \in scope.names)

\* A system row is rendered for every cluster, a tenant's only for the tenant's.
DistributionsForCluster(tenant) == {s \in ScopeOwners \X ScopeKinds : s[1] = "system" \/ s[1] = tenant}

ScopeInit ==
  /\ tenantOf = InitialTenant
  /\ scopeRows = [s \in ScopeOwners \X ScopeKinds |-> NoScope]
  /\ handlers = [h \in ScopeHandlers |-> HandlerIdle]
  /\ dirty = {} /\ missed = {}
  /\ rendering = [c \in ScopeClusters |-> "idle"]
  /\ snapshotRows = [c \in ScopeClusters |-> {}]
  /\ scopeWrites = 0 /\ lostNotices = 0

-----------------------------------------------------------------------------
(* The checks of a request, against the clusters of the moment.            *)

ValidateTenantTargets(owner, all, names) == owner = "system" \/ (~all /\ names \subseteq ClustersFor(owner))

ValidateGroupClusterTargets(owner, names) == names \subseteq ClustersFor(owner) \ Uninstalled

\* One of allClusters and clusterNames, for groups and for exceptions.
ValidatePolicyGroupScope(all, names) == all <=> names = {}

\* A tenant's exception for all clusters names those the tenant has now.
ExceptionTargetClusters(owner, all, names) ==
  IF owner # "system" /\ all THEN [all |-> FALSE, names |-> ClustersFor(owner)] ELSE [all |-> all, names |-> names]

ValidateExceptionScopeTargets(owner, asked) ==
  asked.all \/ asked.names \subseteq ClustersFor(owner) \ Uninstalled

Started(h, owner, kind_, asked) ==
  /\ handlers[h].pc = "idle" /\ scopeWrites < MaxScopeWrites
  /\ handlers' = [handlers EXCEPT ![h] = [pc |-> "checked", owner |-> owner, kind |-> kind_,
                                          all |-> asked.all, names |-> asked.names]]
  /\ scopeWrites' = scopeWrites + 1
  /\ UNCHANGED <<tenantOf, scopeRows, dirty, missed, rendering, snapshotRows, lostNotices>>

CheckDistribution(h, owner, all, names) ==
  /\ ValidateTenantTargets(owner, all, names)
  /\ Started(h, owner, "distribution", [all |-> all, names |-> names])

CheckGroup(h, owner, all, names) ==
  /\ ValidatePolicyGroupScope(all, names)
  /\ ValidateGroupClusterTargets(owner, names)
  /\ Started(h, owner, "group", [all |-> all, names |-> names])

CheckException(h, owner, all, names) ==
  LET asked == ExceptionTargetClusters(owner, all, names)
  IN /\ ValidatePolicyGroupScope(all, names)
     /\ ValidateExceptionScopeTargets(owner, asked)
     /\ Started(h, owner, "exception", asked)

-----------------------------------------------------------------------------
(* The writes.  A request that wrote has still to notify; one that failed  *)
(* ends without.                                                           *)

StoreScope(h, asked) ==
  /\ scopeRows' = [scopeRows EXCEPT ![<<handlers[h].owner, handlers[h].kind>>] =
                  [all |-> asked.all, names |-> asked.names, stored |-> TRUE]]
  /\ handlers' = [handlers EXCEPT ![h] = [HandlerIdle EXCEPT !.pc = "written"]]

WriteScope(h) ==
  /\ handlers[h].pc = "checked" /\ handlers[h].kind # "group"
  /\ StoreScope(h, handlers[h])
  /\ UNCHANGED <<tenantOf, dirty, missed, rendering, snapshotRows, scopeWrites, lostNotices>>

\* syncScope looks at the clusters again, after the group's own row has been written.
SyncGroupScope(h) ==
  LET owner == handlers[h].owner
      all == handlers[h].all /\ owner = "system"
      names == IF handlers[h].all THEN ClustersFor(owner) ELSE handlers[h].names
  IN /\ handlers[h].pc = "checked" /\ handlers[h].kind = "group"
     /\ IF all \/ (names # {} /\ names \subseteq ClustersFor(owner) \ Uninstalled)
        THEN StoreScope(h, [all |-> all, names |-> IF all THEN {} ELSE names])
        ELSE handlers' = [handlers EXCEPT ![h] = HandlerIdle] /\ UNCHANGED scopeRows
     /\ UNCHANGED <<tenantOf, dirty, missed, rendering, snapshotRows, scopeWrites, lostNotices>>

RemoveScope(h, owner, kind_) ==
  /\ handlers[h].pc = "idle" /\ scopeWrites < MaxScopeWrites
  /\ scopeRows[<<owner, kind_>>].stored
  /\ scopeRows' = [scopeRows EXCEPT ![<<owner, kind_>>] = NoScope]
  /\ handlers' = [handlers EXCEPT ![h] = [HandlerIdle EXCEPT !.pc = "written"]]
  /\ scopeWrites' = scopeWrites + 1
  /\ UNCHANGED <<tenantOf, dirty, missed, rendering, snapshotRows, lostNotices>>

Reassigned(h, assignment) ==
  /\ handlers[h].pc = "idle" /\ scopeWrites < MaxScopeWrites
  /\ tenantOf' = assignment
  /\ handlers' = [handlers EXCEPT ![h] = [HandlerIdle EXCEPT !.pc = "written"]]
  /\ scopeWrites' = scopeWrites + 1
  /\ UNCHANGED <<scopeRows, dirty, missed, rendering, snapshotRows, lostNotices>>

\* One transaction: the tenant gets exactly the named clusters; a transfer must be allowed.
SyncTenantClusters(h, t, names, allowTransfer) ==
  /\ t \in ActiveTenants /\ names \subseteq ScopeClusters
  /\ allowTransfer \/ \A c \in names : tenantOf[c] \in {t, "unassigned"}
  /\ Reassigned(h, [c \in ScopeClusters |->
                      IF c \in names THEN t ELSE IF tenantOf[c] = t THEN "unassigned" ELSE tenantOf[c]])

AssignTenant(h, c, t) == Reassigned(h, [tenantOf EXCEPT ![c] = t])

\* Mutant: the notification is sent only when no push loop is rendering.
NotifyIdleClusters(h) ==
  /\ handlers[h].pc = "written"
  /\ handlers' = [handlers EXCEPT ![h] = HandlerIdle]
  /\ dirty' = {c \in ScopeClusters : rendering[c] = "idle"}
  /\ UNCHANGED <<missed, lostNotices, tenantOf, scopeRows, rendering, snapshotRows, scopeWrites>>

\* NotifyChange, which wakes every push loop; the console only logs an error.
NotifyClusters(h) ==
  /\ handlers[h].pc = "written"
  /\ handlers' = [handlers EXCEPT ![h] = HandlerIdle]
  /\ \/ dirty' = ScopeClusters /\ UNCHANGED <<missed, lostNotices>>
     \/ /\ lostNotices < MaxLostNotices
        /\ missed' = ScopeClusters /\ lostNotices' = lostNotices + 1 /\ UNCHANGED dirty
  /\ UNCHANGED <<tenantOf, scopeRows, rendering, snapshotRows, scopeWrites>>

-----------------------------------------------------------------------------
(* The gateway.                                                            *)

\* pushLoop takes the wake-up, or its resync timer, and renderFor reads the cluster's row.
RenderReadCluster(c) ==
  /\ rendering[c] = "idle" /\ c \in dirty \cup missed
  /\ dirty' = dirty \ {c} /\ missed' = missed \ {c}
  /\ rendering' = [rendering EXCEPT ![c] = tenantOf[c]]
  /\ UNCHANGED <<tenantOf, scopeRows, handlers, snapshotRows, scopeWrites, lostNotices>>

\* renderFor lists the distributions and renders those of the tenant it has read.
RenderReadRows(c) ==
  /\ rendering[c] # "idle"
  /\ snapshotRows' = [snapshotRows EXCEPT ![c] =
                    {s \in DistributionsForCluster(rendering[c]) : DistributionTargetsCluster(scopeRows[s], c)}]
  /\ rendering' = [rendering EXCEPT ![c] = "idle"]
  /\ UNCHANGED <<tenantOf, scopeRows, handlers, dirty, missed, scopeWrites, lostNotices>>

ScopeNext ==
  \/ \E h \in ScopeHandlers :
       \/ \E o \in ScopeOwners, all \in BOOLEAN, names \in SUBSET ScopeClusters :
            \/ CheckDistribution(h, o, all, names)
            \/ CheckGroup(h, o, all, names)
            \/ CheckException(h, o, all, names)
       \/ WriteScope(h)
       \/ SyncGroupScope(h)
       \/ \E o \in ScopeOwners, k \in ScopeKinds : RemoveScope(h, o, k)
       \/ \E t \in ScopeTenants, names \in SUBSET ScopeClusters, allow \in BOOLEAN :
            SyncTenantClusters(h, t, names, allow)
       \/ \E c \in ScopeClusters, t \in ScopeTenants \cup {"unassigned"} : AssignTenant(h, c, t)
       \/ NotifyClusters(h)
  \/ \E c \in ScopeClusters : RenderReadCluster(c) \/ RenderReadRows(c)

ScopeSpec == ScopeInit /\ [][ScopeNext]_scopeVars

-----------------------------------------------------------------------------
ScopeTypeOK ==
  /\ tenantOf \in [ScopeClusters -> ScopeTenants \cup {"unassigned"}]
  /\ scopeRows \in [ScopeOwners \X ScopeKinds -> [all : BOOLEAN, names : SUBSET ScopeClusters, stored : BOOLEAN]]
  /\ handlers \in [ScopeHandlers -> ScopeRequests]
  /\ \A h \in ScopeHandlers : handlers[h].pc = "checked" => handlers[h].kind # "none"
  /\ dirty \subseteq ScopeClusters /\ missed \subseteq ScopeClusters
  /\ rendering \in [ScopeClusters -> ScopeTenants \cup {"unassigned", "idle"}]
  /\ snapshotRows \in [ScopeClusters -> SUBSET (ScopeOwners \X ScopeKinds)]
  /\ scopeWrites \in 0..MaxScopeWrites /\ lostNotices \in 0..MaxLostNotices

\* A cluster that has been handed from one tenant to another, while requests of both were being
\* checked and written and its snapshot was being rendered, ends with the rows of the system and of
\* the tenant it has now that name it, and with nothing of the old tenant's: once no handler has
\* still to notify, and the cluster's push loop is neither woken nor rendering nor behind a lost
\* notification, its last snapshot is the one the rows of the moment ask for.
QuietMeansOwn ==
  \A c \in ScopeClusters :
    (/\ \A h \in ScopeHandlers : handlers[h].pc # "written"
     /\ c \notin dirty \cup missed
     /\ rendering[c] = "idle")
      => \A o \in ScopeOwners, k \in ScopeKinds :
           <<o, k>> \in snapshotRows[c] <=>
             /\ scopeRows[<<o, k>>].stored
             /\ scopeRows[<<o, k>>].all \/ c \in scopeRows[<<o, k>>].names
             /\ o \in {"system", tenantOf[c]}
=============================================================================
