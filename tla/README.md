# KubeSentry: specifications and proofs

KubeSentry distributes admission policies from a hub (console API, gateway,
PostgreSQL) to member clusters (operator, admission webhook), and brings the
outcome and the admission events back. This directory specifies these parts and
the protocols between them in TLA+, checks them on small instances with TLC and
proves the safety properties with TLAPS for every instance.

Paths below are relative to `src/internal/` unless they begin with `src/`.

## 1. The system

```
 console API ──commit──▶ PostgreSQL ◀──rows── gateway ◀═Sync stream═▶ operator ◀─posts─ webhook
      └────────NotifyChange (gRPC)────────────▶│           (per replica)  │                ▲
                                                                          └─CRs, status───▶│
```

| Component | State it keeps | Operations | Interacts through | Hard because | Correct when |
|---|---|---|---|---|---|
| Sync sessions (`gateway/registry.go`, `server.go`) | entry per operator instance; per session `cancel`, `pushSeq` | `put`, `remove`, `leader`, `updateRole`, `startPush`, `stopPush` | streams of all replicas, two locks | handlers, push goroutines and other handlers interleave between locks; late disconnects | one leader entry; no loop leaks; the lease holder, and only it, is pushed to in the end |
| Desired-state push (`gateway/server.go`, `diststatus.go`, `notifier.go`) | wake channel, trace id, last result, status rows | push loop, `markPushed`, `markReported`, `clearStale`, `Notify` | DB tables, stream, console notifications | capture/render/send/mark are separate steps; two goroutines read and write the same row | no wakeup lost; a row never claims what was not applied; rows converge |
| Render (`gateway/render.go`, `groupresolve/`) | none | `Render`, `Resolve` | reads the DB | modes, overrides and references of several distributions combine | equals its reference definition, independent of order |
| Cluster life (`gateway/heartbeats.go`, `server.go`, `console/service/cluster.go`, `operator/uninstall/`) | cluster row, uninstall tasks, heartbeat table, credential Secrets | create, register, reissue, delete, uninstall, retry, reports, flush, `Run`, `Finalize` | DB rows without locks, stream | every writer reads first and writes later; reports are lost and repeated; the member removes itself | one active task; Uninstalled is true; tasks end |
| Admission events (`webhook/admission_events.go`, `operator/hublink/client.go`, `gateway/admission_events.go`) | webhook queue, operator queue with attempts, events table | report, post, submit, send, acknowledge, store | HTTP, stream | two bounded queues, lost replies and acknowledgements, senders that outlive their session | no silent loss, bounded sends, every event settles |
| Link incidents (`admission/observability/`, `hublink/observability.go`, `gateway/observability_reports.go`) | tracker (active, pending), operator queue, incidents table | `Record`, `Snapshot`, `Acknowledge`, `Upsert` | as events | revisions overtake acknowledgements | the last revision is stored; closing is not lost |
| Apply and prune (`operator/hublink/apply.go`) | custom resources | upsert, prune | member API server | unmanaged twins; one object's failure must not block others | managed objects = snapshot; unmanaged ones untouched |
| Reconcilers (`operator/*_reconciler.go`) | versions, status, webhook configuration | four `Reconcile` | API server with conflicts, informers that lag | crash between create and status write; every group recomputes the same field | a Ready policy is recorded; `referencedBy` converges; exceptions end |
| Admission handler and caches (`webhook/`) | policy, exception, namespace caches | informer events, `ServeHTTP` | informers, API fallback | a request reads the caches one after the other | verdict = strictest matching, non-exempt policy |
| Console services (`console/service/`, `database/repository/`) | catalogue tables | create, update (compare-and-set), delete, rollback | reference lock, transactions | check-then-act across tables | no dangling reference; every write is a change of the catalogue as it then is |
| Tenants and scopes (`console/service/tenant_cluster.go`, `gateway/render.go`) | `tenant_id`, scope rows | assign, hand over, sync scopes | rows, notifications | a hand-over against checks, writes and renders under way | a quiet cluster has its own tenant's rows |
| Identity (`console/service/auth.go`, `identity.go`) | users, sessions, codes | sign-in, activate, reset, revoke, lock out | DB | two requests about one account | an administrator remains; failures lock; codes set first passwords only |
| HTTP layer (`console/`, `console/dto/`) | none | sessions, CSRF, decoding, status mapping | services | two clients and one row; null and missing fields | a client is told what happened |
| Stored events, rules and cleaners (`console/service/admission.go`, `gateway/admission_cleanup.go`) | events, rules, trigger channel | save, store, full and incremental pass | notifications, tickers | a batch decided before a change and written after it | changed rules reach the stored rows |
| Platform samples (`platform/`, `gateway/`, `console/service/platform.go`) | minute rows, leadership events | sample, upsert, overview, cleanup | stream, tickers | late samples, restarts, roles that move | the overview recovers |
| Connect/Dispatch (`gateway/server.go`) | map of waiters | relay | stream | late replies | replies reach their waiter |

`PROJECT.json` lists every component with its status, and under `hazards` each
place in the code where something can go wrong that a test would hardly reach.

## 2. Plan

Done: the hub's protocols with the members (`SyncSessions`, `DesiredStateSync`,
`ClusterLifecycle`, `EventDelivery`); the hub's own services (`HubCatalogue` over the
abstract `Catalogue`, `HubExceptions`, `TenantScopes`, `ConsoleApi`, `Identity`); what the
gateway derives and stores (`PolicyRender`, `LinkIncidents`, `PlatformSamples`,
`AdmissionStore`); the member's controllers (`PolicyVersions`, `GroupReferences`,
`ExceptionLifecycle`) and the webhook (`WebhookDecision`). Each has its proofs; section 6
says which, and which result is short of what the run checks.

Left:

1. **Proofs.** The safety half of the liveness properties of the hub (what is true
   when a sender or a recv loop is idle), as there is for the member's controllers and
   the push loop; `WithinRetention` from a bound on failures.
2. **Register** over several clusters (the UID check and the save), and `Connect`
   and `Dispatch`.
3. **The member as a whole.** `applyDesiredState` over a snapshot of several objects,
   composed with the controllers and the webhook.

## 3. Modules

Every module says at its head which goroutines interleave and what one step is:
what a goroutine does between two points where another one can interfere (a
lock, a database call, a send). Definitions keep the names of the Go functions.
Operators whose comment begins with *Mutant* are plausible errors in a
definition next to them; no specification uses them.

### SyncSessions

One member cluster, several operator replicas (`Instances`). `registry[i]` is the
entry of instance *i*; `pc[s]` is where the Sync handler of session *s* is inside
`updateRole` or its deferred function; `loops`, `cancelled`, `exited`, `cancel`
and `pushSeq` are the push goroutines of a session. The code's sequence numbers
are only compared for equality, so a number is represented by the goroutine that
holds it (`Goroutines` bounds those alive at once, not those ever started).
`put` and `remove` are atomic (registry lock); `Confirm` (is this session still
the leader?) and `Start` are separate, as in the code. `Elect`, `Exit` and
`StepDown` are the lease: two replicas may claim leadership between the expiry of
a lease and the end of the old leader.

### DesiredStateSync (and MCDesiredStateSync)

`Commit`, `StashTrace`, `Notify` and `LoseNotify` are the console's write and its
notification. `loop` holds the push loop's place and locals: `Capture` the wait
channel, `Peek` the trace id, `ReadTargets` and `ReadContent` (the two queries of
`Render`), `Send` or `SkipSend`, `SetLast`, the marks (`MarkPushedRead`,
`MarkPushedWrite`, `MarkPushedDelete`), then `WakeByNotify` or `WakeByTicker`.
`markReported` runs in the recv loop as `TakeReport`, `MarkReportedRead`,
`MarkReportedWrite`. `Apply`, `PeriodicReport` and `FlipConflict` (an object was
changed, or taken over, on the member) are the member; `Break` and `Reconnect`
the stream. Rendering is the constant function `HashOf`; `MCDesiredStateSync`
gives it for a distribution whose group is there, missing or disabled.

Left out: a second Sync session at the same time (see `SyncSessions` for when it
exists), and the notification without a trace that an uninstall report sends; it
has the same effect on the channel as `Notify`.

### ClusterLifecycle

`phase`, `regToken` and `tasks` are the cluster's row and its uninstall tasks. Each
console request is a read (`ConsoleRead`) and a later write (`Delete`,
`ReissueToken`, `CreateUninstall`); `requests` counts those in between. Register is
`RegisterRead` and `RegisterSave`, which writes the whole row back. The flusher is
`FlushRead` and `FlushWrite`; `BeatAges` is the passing of `offlineAfter`. The
gateway delivers active tasks (`PushTasks`) on every wakeup; the member answers
RECEIVED (`Take`), runs the uninstall (`Run`), sends the outcome (`SendOutcome`) and
removes itself (`Finalize`), which may leave the Deployment behind. A report is
`HandleReport` (the transition of the task under its expected status) and
`ReportPhase` (the phase, a second write). `Restart` is the gateway's crash: the
heartbeat table and half-done work are gone.

Left out: UIDs, which relate several clusters; installing the operator anew after
it removed itself; `flushOnce`'s list and snapshot are read in one step.

### EventDelivery

`hook[e]` is the event in the webhook (queued, being posted, waiting for a retry),
`queue[e]` its entry on the operator with `retries`, `attempt` and `inFlight`,
`sender[s]` the sender goroutine of Sync session *s*. The sender chooses a batch
under the lock (`Iterate`, which also fails overdue events) and sends without it
(`Send`, `SendFails`), so the sender of a closed session may fail events that the
next one has put in flight again. `Handle` is the gateway: verdict by the storage
rules (`Retained`), one transaction, and the two failure acknowledgements; a
failed write may have been committed. `Configure` switches retries on and off.

Left out: crashes of webhook and operator (their queues are memory only), the
prefix of event ids, changes of the queue's capacity, and posts that the operator
handles after the webhook has stopped waiting and posted again.

### Catalogue and HubCatalogue

`Catalogue` is what the policy and group services promise together: policies and
groups, each change one atomic step that keeps the references between the two
tables right. `HubCatalogue` is the code: `req[r]` is a handler with what it has read,
`lock` the advisory lock on policy references, `scopes` the managed scopes of groups.
Checks are a step (`PolicyRequests`, `GroupRequests`) and each write another
(`PolicyWrite`, `PolicyErase`, `GroupInsert`, `GroupWrite`, `SyncScope`, `EnabledWrite`,
`GroupErase`, `DeleteScope`); `CreatePolicy` is one insert. `updated_at` is compared
for equality only, so a handler keeps whether its row is fresh, changed or gone.
`CatalogueIsAtomic` is the refinement: `INSTANCE Catalogue` with the two tables as they
are, and every other variable hidden.

### HubExceptions

An exception and its scope are one transaction; the distribution API may edit the
scope's row directly. `tx[h]` is a handler between its read and its commit; a READ
COMMITTED transaction finds its rows fresh, changed or gone (`ExceptionUpdateCommit`,
`ExceptionUpdateConflict`, `ExceptionDeleteCommit`, `DistributionUpdateCAS`,
`DistributionErase`).

### TenantScopes

`tenantOf` is the clusters' `tenant_id`, `scopeRows` one scope per owner and kind. A
request is checked (`CheckDistribution`, `CheckGroup`, `CheckException`), written
(`WriteScope`, `SyncGroupScope`) and announced (`NotifyClusters`) in separate steps;
`SyncTenantClusters` and `AssignTenant` move clusters; the gateway's render reads the
cluster's row (`RenderReadCluster`) before the distributions (`RenderReadRows`).

### ConsoleApi

The table `NewServer` gives for each route its guards, decoder and service; `Bodies` is
what the decoders tell apart in each field (missing, null, empty, undefined value,
good). `Receive` is everything before the service (session, CSRF, forced password
change, role, decoding), `ServiceRead` its read and checks, `ServiceInsert`,
`ServiceUpdateCAS` and `ServiceWriteById` its write with the mapping of errors to a
status. What a service refuses because of state that other modules own is a choice
from the handler's `refusals`.

### Identity

`users`, `logged` (sessions), `codes`, `tenantOn` and `single` (no concurrent sessions) are
the tables; `call[c]` is a request between its read and its transaction. A lock, a
session or a code expires at any time. `streak` counts failed sign-ins and is only
read by `FailuresLock`.

### PolicyRender

`Resolve` (members of a group and their modes, by name, by selector, with exclusions)
and `Render`: `RenderDist` visits the distributions in any order, as the query returns
them. The loop over the references by name is a recursive function (`ByName`) over
`AddRef`. The inputs are chosen in the initial state. The reference definition is
`RenderedIsStrictest`, which says what the snapshot is without a loop, and what the
member's own `Resolve` makes of the group it has received.

### LinkIncidents

`tracker[c]` are the trackers of webhook, operator and gateway, `queue` the operator's
queue, `rows` the hub's table. `RecordIncident` opens an incident or raises its
revision, `TakeSnapshot` closes the silent ones and begins a flush (a key may have an
incident per reason; the code's map closes them in any order), `PostIncident`,
`SendIncident`, `HandleIncident` and `AckIncident` are its way; replies, streams and the
operator's memory may be lost, and the observation switched off.

### PlatformSamples

A clock in minutes, `proc[i]` the processes with their role and pressure counter,
`platRows` and `roleEvents` the tables. `GatewayCollects`, `OperatorCollects`,
`OperatorSends`, `OperatorHeartbeat` and `PlatformCleanup` are the background loops;
`BuildPlatformComponent` is the overview's verdict. The gauges and trends are left out.

### AdmissionStore

A clock in days. `UpdateSettings` normalises and saves rules and retention and then
notifies; a batch is received, decided and written in steps; the cleaner's pass reads
its configuration once (`BeginPass`, `ReadRules`) and scans in batches (`CleanupBatch`).
`full` is the trigger channel of capacity one. Notifications, passes and the gateway
may fail.

### WebhookDecision

`polCache`, `grpCache`, `exAll` with `exIndex`, and `nsStore` are the caches, changed by the
informers at any time. `ServeRequest` is one request, a cache at a time: labels of
the namespace (with the fallback to the API server), policies, exceptions, and the
parallel evaluation. Rego is an outcome per policy.

### PolicyVersions, GroupReferences, ExceptionLifecycle

The operator's controllers over an API server whose informers lag (`Watch`,
`WatchGroup`, `CacheException`). `PolicyVersions`: a reconcile creates a PolicyVersion,
writes the status and prunes, each a step, with crashes in between, taken
version numbers and rollbacks (`ChangeSpec`); `ReconcileWebhookConfig` derives the rules of
the webhook configuration, which anyone may reset. `GroupReferences`: the group's
status, then `referencedBy` of each policy; finalizers. `ExceptionLifecycle`: a clock,
the hub's snapshot, apply and prune, the phases and their timers, and the webhook's
cache.

### MCConsole, MCGateway, MCMember

Small modules share a run: a behaviour is one of one component, which the variable
`part` names, and the others stay as they are at the start. The states of such a run
are the sum of the components', not a composition of them.

## 4. Runs

| Run | Question | Bounds | Result |
|---|---|---|---|
| `sync_sessions` | Do racing claims, demotions, reconnects and send errors leak a loop, a second leader entry or an entry of a closed session? | 2 replicas, 2 streams, 2 goroutines per session, 2 elections | holds, all states |
| `sync_sessions_liveness` | Does every race settle on the lease holder? | as above, 1 goroutine | holds, all states |
| `sync_sessions_demotion` | Is a demoted session's loop stopped? (no) | as above | violation |
| `desired_state_sync` | Is a notification or a trace attributed wrongly when commits land inside an iteration? | 2 commits, 1 break | holds, all states |
| `desired_state_converges` | Do rows converge although updates overwrite each other and notifications are lost? | 1 commit, 1 conflict that comes or goes | holds, all states |
| `desired_state_reports` | Does a report carry the last apply's outcome? (no) | 1 conflict | violation |
| `cluster_lifecycle` | Do the writers of the row and the reports keep tasks and phases right, and do tasks end? | 2 requests at a time, 2 tasks, 1 retry, 1 break, 1 failure | holds, all states |
| `cluster_lifecycle_flush` | Can a flush undo an uninstall? (yes) | 1 request, 1 task | violation |
| `cluster_lifecycle_finalize` | Does the member wait for the hub before it removes itself? (no) | 1 request, 1 task, 1 break | violation |
| `console` | Do concurrent requests to the console's services break a reference, orphan a scope, lock everyone out, leave a cluster with another tenant's rows, or tell a client something else than what happened? Do the catalogue's handlers implement the atomic catalogue? | catalogue: 1 policy, 1 group, 2 owners, 2 requests at a time, 3 versions; exceptions: 2 and 2 other distributions, 2 handlers; scopes: 2 clusters, 2 tenants, 2 handlers, 2 writes, 1 lost notification; HTTP: 2 clients, 4 revisions, every kind of resource and body; identity: 2 names, 1 tenant, 2 passwords, a lock after 2 failures, 2 calls at a time of 5, 2 sessions | holds, all states |
| `gateway_webhook` | Is the rendered snapshot the strictest reading, on both sides? Are closed incidents kept, does the overview recover, do changed rules reach the stored rows, and is the webhook's answer strict while its caches change? | render: 2 policies, 2 groups, 2 distributions; incidents: limits of 1, 2 keys, 3 revisions, 1 failure; samples: 1 gateway, 2 operators, 4 minutes, 1 fault; events: 2 events, 4 rule sets, 3 days, 2 rows, 2 saves, 1 loss; webhook: 1 policy, 2 groups, 1 exception, 1 namespace | holds, all states |
| `member` | Are events lost silently, sent too often, or stuck? Do the controllers come to rest on the right state? | events: 2 (1 retained), queues of 1, 2 posts, 2 retries, 2 sessions, 1 change of settings, 1 fault; policies: 3 contents (1 invalid), history of 3, 2 collisions, 2 changes, 1 failure, 1 reset; groups: 2 and 1 policy, 2 edits, 1 error; exceptions: clock of 5, 4 specifications, 3 changes at the hub | holds, all states |

Why the bounds are enough for the cases of interest: the races are between two actors
and one late step, so two sessions (an old and a new one), two replicas, two commits
(one before and one inside an iteration), two console requests and two tasks (a failed
and a new one) reach each of them; queues of one message make "full" happen at once; one
fault at a chosen moment is each single failure. In the newer modules likewise: two
handlers, one of which has checked and not yet written, and one row they disagree about;
two groups that share a policy and disagree about its mode; a group with a member that
another group selects; two incidents where the tracker keeps one; a batch of one row in
a table of two, so that a pass is between two batches when the rules change; two
failures where two lock. A clock goes one unit past the longest duration or window. The
safety results do not rest on the bounds: they are proved (section 6),
`ReadyIsCaptured` under a condition.
A bound does hide a case: two keys and three revisions never fill the tracker so far
that recording a drop evicts a third incident (`recordDropLocked`); the proof covers it.
Deadlock is not checked where the bounds on streams, sessions, requests, clocks or
changes make a behaviour end (`console`, `gateway_webhook` and `member` among them), or
where the member has removed itself; the push loop of `DesiredStateSync` never ends, and
there it is checked.

Every property has a mutant in `PROJECT.json`: a changed definition (a dropped
guard, a missing reset, a comparison left out) under which TLC finds the property
violated.

### Fairness

* `SyncSessions`: goroutines run; heartbeats are sent by a ticker; a broken stream
  is noticed by Recv (strong fairness, since a buffered frame may come first); a
  replica that lost the lease exits, as controller-runtime's manager makes it.
* `DesiredStateSync`: the push and recv loops run, the 60 s ticker fires, the
  operator reconnects; apply is strongly fair, since the stream may break under it
  (finitely often). Notifications have no fairness: they may all be lost.
* `ClusterLifecycle`: the operator, the resync that delivers tasks, and the recv
  loop. The console and the flusher have none.
* `EventDelivery`: the webhook's worker, reconnection, each sender (an event that is
  in flight is overdue in the end), acknowledgements and the gateway's handler.
* `PolicyVersions`, `GroupReferences`, `ExceptionLifecycle`: informers deliver, work queues
  are worked off (a failed reconcile is queued again), timers fire. Failures, edits,
  resets and the hub have none.
* The runs `console` and `gateway_webhook` check safety only and assume no fairness.

## 5. What the runs found

Four statements of the repository that the code does not keep, each shown by a
run of its own (quotations in `PROJECT.json`):

* a session demoted between its leadership check and `startPush` starts pushing
  all the same (`registry.go:28`); `sync_sessions_liveness` shows that the next
  heartbeat repairs it;
* the periodic report vouches for the last successful apply, not for the last one
  (`gateway.proto:68`), so an Error row turns Synced again;
* `flushOnce` writes a phase it decided on an earlier read, and can put a cluster
  back to Online after its uninstall has begun (`heartbeats.go:141`);
* the operator removes itself when its report is buffered, not when it has been
  acknowledged (`runner.go:99`).

Limits of the code that the models show and no text of the repository denies; the
properties are stated so that they say what does hold:

* a reconciler deletes an exception that expired and is not retained; the next apply
  of the same snapshot creates it anew, for another full duration
  (`operator/exception_reconciler.go:112`);
* a malformed selector of an exception is dropped from its entry, which widens what it
  covers (`webhook/exception_cache.go:175`); an older answer of the API server may
  overwrite a newer entry of the namespace cache;
* the operator's queue of incidents is memory: what it accepted from the webhook is
  lost with it;
* a sign-in verified before a password change opens its session after the change has
  revoked the others (`console/service/auth.go:122`);
* a full pass of the cleaner that fails is not repeated, and a batch decided before a
  change of the rules is written under the old ones: hence `cut` and `late` in
  `RulesReachStoredRows`;
* the rules of the webhook configuration are deduplicated without their API versions,
  and a change of the TLS secret does not wake the reconciler
  (`operator/webhookconfig_reconciler.go:44`, `:66`);
* `pruneVersions` keeps the newest versions by number, and a stale reconcile may make an
  older one current again. With a history of 2, TLC finds a Ready policy whose current
  version has just been pruned: version 1 is left by a crash before the status write,
  version 2 becomes current, a stale reconcile finds that version 1 matches its copy and
  sets the status back to it, and the next, from the copy with version 2, creates
  version 3 and prunes version 1. The status write that follows repairs it; if the
  reconcile fails before that write, the policy reads as reconciled and stays without
  its version until its specification changes. It takes as many newer versions as the
  history holds (20 by default, `operator/policy_reconciler.go`); with the 3 of the run
  it does not happen;
* `referencedBy` of a policy may keep a group that no longer has it as a member: the
  reconcile of the group that removed it wrote the group's status and failed before it
  touched the policy, and its retry reads the new status as the previous one
  (`operator/policygroup_reconciler.go`). Hence `MembersAreReferenced` and
  `QuietGroupsAreReferenced` say one direction only;
* `Update` of a distribution validates the names it is given without the reference
  lock (`console/service/distribution.go:107`).

## 6. Proofs

The assumptions are those named in the modules: the bounds are natural numbers,
buffers have room for a message, `NoLoop` is no goroutine, rendering has its type; inputs
(rules, distributions, exceptions, groups) have their types; a batch, a sample
cap and a revision count are at least one; gateways and operators are disjoint and there
are some of each; values that stand for "none", "unknown" or "every cluster" are not
names; some policy content exists. None bounds the number of replicas, streams,
commits, tasks, events, retries, requests, users, rows or versions.

* **SyncSessionsProofs** — `IInv` = types, `PushInv`, `RegistryInv`. A live loop is the one
  `cancel` stops only because `cancel` always belongs to the goroutine whose number
  is current and a goroutine that returned is not one that runs (`PushInv`); an entry
  disappears by its owner only because an entry's session is a session of that
  instance that has not reached the end of its handler (`RegistryInv`). Theorems:
  `TypeCorrect`, `NoLeakedLoop`, `LeaderIsUnique`, `ClosedLeavesNothing`, `RemovedByOwner`.
* **DesiredStateSyncProofs** — `NoLostWakeup` needs `WakeupInv`: a delivered notification
  either finds the captured channel closed or precedes the reads. `TraceIsRendered`
  needs `TraceInv`: the peeked trace's commit precedes the reads. `SyncedWasApplied`
  needs `ReportInv`: reports on their way and rows read but not yet written are true
  too. `WaitingIsCurrent` is the safety half of `RowsConverge`: a loop that waits and has
  missed no notification has rendered the present rows and sent their hash last, and
  on an idle stream the member has applied it. It needs that
  a read no later commit follows has what is there (`ReadsInv`), that the hash sent last
  is the one rendered (`SentInv`), and that the last snapshot sent is the last one in the
  stream or the last one applied (`DeliveredInv`). Theorems: `TypeCorrect`, `NoWakeupLost`, `TraceRendered`,
  `SyncedApplied`, `WaitingIsCurrent`.
* **ClusterLifecycleProofs** — every step changes at most one task's status, along the
  diagram, and makes a task Pending only if none is active (`StatusStep`); hence
  `OneActiveTask` (through `OnlyActive`, which says it without cardinality) and
  `TaskOrder`. `UninstalledIsTrue` needs `SuccessIsTrue`: a SUCCEEDED report in a buffer
  or half recorded, and a phase that Register has read, are true as well. Theorems:
  `TypeCorrect`, `SingleActiveTask`, `StatusesOrdered`, `UninstalledTrue`.
* **EventDeliveryProofs** — `IInv` = types, `QueuePaidFor`, `PostsLeft`, `AnswersTrue` and
  `NoSilentLoss`. An event leaves the operator's queue on an ACCEPTED or DISCARDED
  answer, so the invariant says of the answers on their way that an accepted event
  is stored and a discarded one is not retained. Theorems: `TypeCorrect`,
  `DeliveriesBounded`, `NoEventLostSilently`.
* **HubServicesProofs** — *Catalogue*: `HubIInv` = types, `LockHeld` (at most one handler is
  in the section of the reference lock, and `lock` names it) and `Checked` (a handler about
  to write holds that lock, and the references it has checked still hold, or it
  compares with the row it has read). Hence each write is a step of `Catalogue`, and every
  other step a stutter: `HubTypeCorrect`, `HubImplementsCatalogue`. *Exceptions*:
  `NoOrphanExceptionScope` needs `ReadIsThere`: what a handler has read and does not know
  to be gone is there, so that a compare-and-set that succeeds on a scope's row finds the
  exception as well: `ExceptionTypeCorrect`, `NoScopeOrphaned`. *Scopes*: `RenderRight`, a
  cluster that has been told of everything has the right snapshot, or a render under
  way will give it one for its present tenant: `ScopeTypeCorrect`, `QuietClusterIsOwn`.
* **ConsoleProofs** — *Identity*: `IdentityIInv` = types, `CallsRight` (no call under
  way deletes the built-in `admin` or sets an empty password), `Counted` (a row counts
  the failures made, and enough of them have locked it) and `AdminKept` (before `admin`
  has a password nobody could have sent a request; afterwards an administrator is
  enabled): `IdentityTypeCorrect`, `SomebodyAdministers`, `FailedLoginsLock`,
  `CodesKeepPasswords`. *HTTP*: `ApiIInv` = types, rows are whole, and `RequestRight`,
  which says for each stage of a request what the decoder and the service have
  established by then: `ApiTypeCorrect`, `AnswersTellTheTruth`.
* **GatewayProofs** — *Webhook*: the exception index agrees with the exceptions
  (`IndexRight`), and at each stage of a request what it must enforce is what resolved
  to enforce, and what it skips is what was covered (`ReviewRight`):
  `WebhookTypeCorrect`, `DecisionsAreStrict`. *Incidents*: as for events, reports
  (`ReportsTrue`) and acknowledgements (`AcksTrue`) on their way are true, so that an
  incident leaves a tracker only when the hub has its end: `IncidentTypeCorrect`,
  `EndsAreKept`. *Stored events*: `PassRight` and `BatchRight` say that a pass between
  two batches, and a batch between decision and write, that remember the version in
  force remember what its rules say: `StoreTypeCorrect`, `ChangedRulesReachRows`.
  *Samples*: in a minute without a fault roles, switch and samples under way agree
  (`MinuteSteady`), the rows stored since the latest fault are what their processes are
  (`RowsTrue`, `RestartsAgree`), and no minute since then lacks a row but for retention
  (`MinutesKept`, `ThisMinuteKept`): `PlatformTypeCorrect`, `OverviewRecovers`.
  *Render*: `RenderIInv` = types and `RenderedSoFar`, which says of the distributions
  visited so far what `RenderedIsStrictest` says of all of them: a group is in the snapshot
  when a matching one names it, and a policy has mode enforce there when one of them asks
  for it. What the loop over the references computes (the last reference to a policy that
  exists decides its mode) is by induction on their number, as the least number for which
  it fails. `MemberResolves` says the same of the list the member receives, whose
  references are distinct: `RenderTypeCorrect`, `RendersStrictest`.
* **MemberProofs** — *Policies*: `VersionIInv` = types, `VersionsPaidFor` (versions beyond the
  history have been left by failures), `RecordsCompile`; `CapturedIInv` adds that copies of
  one generation agree, and that the version a reconcile is about to write into the
  status is recorded. `VersionTypeCorrect`; `ReadyPoliciesCaptured` under `[]WithinRetention`:
  whenever a reconcile is about to prune, fewer versions than the history holds are newer
  than the one it will make current and than the one of a Ready policy. TLC finds
  `WithinRetention` to be an invariant of the run's instance; without it the statement
  is false (section 5). `QuietPolicyRests`: when informer, queue and reconciler are idle, the
  policy's status is that of its present specification, and when the webhook's
  configuration is not queued either, it has the rules of that status; the invariant
  (`JudgedIInv`) says of both copies of a policy that Ready means it compiles, that copies
  of one generation agree, and that a copy not yet judged is queued or under way. *Groups*:
  `ReferenceTypeCorrect`; `QuietGroupsAreReferenced`: at rest every member of a group that
  the informer shows lists it in `referencedBy`, and no group is still being deleted; the
  invariant (`ReferencedIInv`) adds what a reconcile has touched so far and that a group
  being deleted is held by its finalizer. *Exceptions*: `LifecycleTypeCorrect`;
  `ReconcilerWakesInTime`: while the reconciler has no event and no timer that rang, the
  phase of every exception is still right (`AsleepIsRight`), so that one past its end is
  never left without work queued for it.

`ConsoleRunsItsServices`, `GatewayRunsItsParts` and `MemberRunsItsControllers` say that a
behaviour of the run's specification is one of each component's, so that what is proved
of the components holds in the runs; `ConsoleTypeCorrect`, `GatewayTypeCorrect` and
`MemberTypeCorrect` are the runs' type invariants.

Only model-checked, because they are liveness under fairness: `OnlyLeaseHolderPushes`,
`LeaderStreamIsServed`, `RowsConverge`, `ActiveTaskEnds`, `EventsSettle`, `PolicySettles`,
`MembersAreReferenced`, `DeletedGroupsGo`, `ActiveEnds`. Of `RowsConverge`, `PolicySettles`,
`MembersAreReferenced`, `DeletedGroupsGo` and `ActiveEnds` the safety half is proved (what holds
once everything queued has been worked off); that the work is done is left to TLC. No
module uses a RECURSIVE operator.

## 7. Not modelled

Components without a module, with reasons, are in `PROJECT.json`. In short:

* planned (section 2): `Connect` and `Dispatch`, cluster UIDs in Register, the apply of a
  whole snapshot;
* no state of their own: lists, filters, pages, summaries and views of the console,
  trends and gauges, conversions between rows and answers where no property
  depends on them;
* not protocol code: generated gRPC and deep-copy code, migrations, TLS set-up, logging,
  entry points, web console, charts and tooling.

Time is abstract: a timeout is an action that may happen whenever the timer could be
armed, and where durations matter (exceptions, samples, retention) a clock counts the
unit the code compares. Message contents are abstract: a snapshot is its hash or its
rows, an event its id and what the rules look at, a password what it equals.

## 8. Running

`tlc -config SyncSessions.cfg SyncSessions` checks a run (module and configuration of
each run are in `PROJECT.json`); `tlapm SyncSessionsProofs.tla` checks a proof module.
Each run takes about two minutes or less on two cores, a proof module about a minute,
`GatewayProofs` about six.
