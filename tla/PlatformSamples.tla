--------------------------- MODULE PlatformSamples ---------------------------
(***************************************************************************)
(* Platform observability: the processes of the gateway and of the         *)
(* operator sample themselves once a minute, the leading gateway samples   *)
(* PostgreSQL, the hub stores one row per minute and instance, and the     *)
(* console derives the health of each component from the rows.             *)
(*                                                                         *)
(* Time is counted in minutes.  Of a sample the model keeps what health    *)
(* depends on: the role, the start of the process, the pressure counter of *)
(* its cgroup and its own verdict; the gauges (memory, CPU, goroutines,    *)
(* garbage collection) and the trend queries over them are left out.       *)
(***************************************************************************)
EXTENDS Integers, Sequences, FiniteSets

CONSTANTS
  Gateways, Operators,   \* instances
  Hidden,                \* instances that cannot read their cgroup
  NoDataAfter,           \* platformNoDataAfter
  HealthRange,           \* platformHealthRange
  SampleRetention,       \* the configured retention
  BucketSkew,            \* clock difference a bucket tolerates
  SampleCap,             \* capacity of Link.platformSamples
  MaxMinutes, MaxFaulty  \* bounds on time and on faults

ASSUME PlatformAssumption ==
  /\ NoDataAfter \in Nat /\ HealthRange \in Nat /\ SampleRetention \in Nat /\ BucketSkew \in Nat
  /\ SampleCap \in Nat \ {0} /\ MaxMinutes \in Nat /\ MaxFaulty \in Nat
  /\ Gateways # {} /\ Operators # {} /\ Gateways \cap Operators = {}
  /\ "postgres" \notin Gateways \cup Operators /\ Hidden \subseteq Gateways \cup Operators

VARIABLES
  now,         \* the current minute
  proc,        \* proc[i]: a process; its n-th start is its start time
  sampled,     \* instances that have sampled this minute
  pgStart,     \* how often PostgreSQL was restarted
  samples,     \* samples[o]: the queue of operator o's link
  sessRole,    \* sessRole[o]: the role the gateway has for o's session
  platRows,    \* platform_component_samples
  roleEvents,  \* platform_leadership_events, without their times
  platOn,      \* the switch: the stored setting, the gateway's and the operators' copies
  faulty,      \* faults so far
  lastFault    \* when the latest one ended

platformVars == <<now, proc, sampled, pgStart, samples, sessRole, platRows, roleEvents, platOn, faulty, lastFault>>

PInstances == Gateways \cup Operators

Component(i) == IF i \in Gateways THEN "gateway" ELSE IF i \in Operators THEN "operator" ELSE "postgres"

\* A sample as a process reports it, and as the hub stores it.
SampleRecords ==
  [inst: PInstances \cup {"postgres"}, at: 0..now, role: {"leader", "standby", "none"},
   started: [at: Nat, nanos: {0, 1}], pressure: Nat \cup {-1}, healthy: BOOLEAN]

SampleRows ==
  [bucket: 0..now, inst: PInstances \cup {"postgres"}, role: {"leader", "standby", "none"},
   started: [at: Nat, nanos: {0}], restarts: Nat, pressure: Nat \cup {-1}, healthy: BOOLEAN, seen: 0..now]

PlatformTypeOK ==
  /\ now \in 0..MaxMinutes /\ faulty \in 0..MaxFaulty /\ lastFault \in 0..now /\ pgStart \in 0..faulty
  /\ proc \in [PInstances -> [up: BOOLEAN, starts: 0..faulty, role: {"leader", "standby"}, pressure: 0..faulty]]
  /\ sampled \subseteq PInstances
  /\ samples \in [Operators -> Seq(SampleRecords)] /\ \A o \in Operators : Len(samples[o]) <= SampleCap
  /\ sessRole \in [Operators -> {"leader", "standby"}]
  /\ platRows \subseteq SampleRows
  /\ \A r, q \in platRows : r.bucket = q.bucket /\ r.inst = q.inst => r = q
  /\ \A r \in platRows : r.bucket <= r.seen
  /\ roleEvents \subseteq [inst: PInstances, to: {"leader", "standby", "none"}, by: {"sample", "session_lost"}]
  /\ platOn \in [stored: BOOLEAN, gateway: BOOLEAN, operators: BOOLEAN]
  /\ \A i, p \in PInstances :
       /\ Component(i) = Component(p)
       /\ proc[i].up /\ proc[i].role = "leader"
       /\ proc[p].up /\ proc[p].role = "leader"
       => i = p

PlatformInit ==
  /\ now = 0
  /\ proc = [i \in PInstances |-> [up |-> TRUE, starts |-> 0, role |-> "standby", pressure |-> 0]]
  /\ sampled = {}
  /\ pgStart = 0
  /\ samples = [o \in Operators |-> <<>>]
  /\ sessRole = [o \in Operators |-> "standby"]
  /\ platRows = {}
  /\ roleEvents = {}
  /\ platOn = [stored |-> TRUE, gateway |-> TRUE, operators |-> TRUE]
  /\ faulty = 0
  /\ lastFault = 0

Faulty == faulty < MaxFaulty /\ faulty' = faulty + 1 /\ lastFault' = now

NoFault == UNCHANGED <<faulty, lastFault>>

-----------------------------------------------------------------------------
(***************************************************************************)
(* A sample                                                                *)
(***************************************************************************)
\* time.Now() has nanoseconds, the database keeps microseconds.
ProcessStart(n) == [at |-> n, nanos |-> 1]

Stored(t) == [t EXCEPT !.nanos = 0]

\* Mutant: the start time keeps its nanoseconds.
KeepNanos(t) == t

NormalizeProcessStart(t) == [t EXCEPT !.nanos = 0]

\* readMemoryPressureEvents: -1 when the cgroup cannot be read
Pressure(i) == IF i \in Hidden THEN -1 ELSE proc[i].pressure

UnavailableSample(i) ==
  [inst |-> i, at |-> now, role |-> "none", started |-> NormalizeProcessStart(ProcessStart(0)),
   pressure |-> -1, healthy |-> TRUE]

Collect(i) == [UnavailableSample(i) EXCEPT !.role = proc[i].role,
                 !.started = NormalizeProcessStart(ProcessStart(proc[i].starts)), !.pressure = Pressure(i)]

\* postgresSample: on a failed query the start time is the gateway's own.
PostgresSample(g, ok) ==
  [UnavailableSample("postgres") EXCEPT !.healthy = ok,
     !.started = NormalizeProcessStart(IF ok THEN [at |-> pgStart, nanos |-> 1]
                                       ELSE [at |-> MaxFaulty + 1 + proc[g].starts, nanos |-> 1])]

-----------------------------------------------------------------------------
(***************************************************************************)
(* The rows                                                                *)
(***************************************************************************)
RowsOf(i) == {r \in platRows : r.inst = i}

\* The latest of some rows; of one minute, the later bucket was received later.
Latest(rs) ==
  CHOOSE r \in rs : \A q \in rs : q.seen < r.seen \/ (q.seen = r.seen /\ q.bucket <= r.bucket)

BucketTime(at) == IF now - at > BucketSkew THEN now ELSE at

LeadershipComponent(i) == Component(i) \in {"gateway", "operator"}

SameProcess(r, s) == NormalizeProcessStart(r.started) = NormalizeProcessStart(s.started)

RestartCount(s) ==
  IF RowsOf(s.inst) = {} THEN 0
  ELSE LET prev == Latest(RowsOf(s.inst))
       IN prev.restarts + (IF SameProcess(prev, s) THEN 0 ELSE 1)

RoleChange(s) ==
  IF RowsOf(s.inst) # {} /\ LeadershipComponent(s.inst) /\ Latest(RowsOf(s.inst)).role # s.role
    THEN {[inst |-> s.inst, to |-> s.role, by |-> "sample"]} ELSE {}

SampleRow(s) ==
  [bucket |-> BucketTime(s.at), inst |-> s.inst, role |-> s.role, started |-> Stored(s.started),
   restarts |-> RestartCount(s), pressure |-> s.pressure, healthy |-> s.healthy, seen |-> now]

\* UpsertSample, of samples of different instances
UpsertSamples(ss) ==
  LET new == {SampleRow(s) : s \in ss}
  IN /\ platRows' = {r \in platRows : \A q \in new : r.inst # q.inst \/ r.bucket # q.bucket} \cup new
     /\ roleEvents' = roleEvents \cup UNION {RoleChange(s) : s \in ss}

-----------------------------------------------------------------------------
(***************************************************************************)
(* Sampling                                                                *)
(***************************************************************************)
\* PlatformReporter.collect of a gateway: it stores its own sample, and the
\* leader PostgreSQL's.  The first one waits for the election.
GatewayCollects(g, ok) ==
  LET leads == proc[g].role = "leader"
  IN /\ proc[g].up /\ g \notin sampled
     /\ \E i \in Gateways : proc[i].up /\ proc[i].role = "leader"
     /\ sampled' = sampled \cup {g}
     /\ IF platOn.stored
          THEN UpsertSamples({Collect(g)} \cup (IF leads THEN {PostgresSample(g, ok)} ELSE {}))
          ELSE UNCHANGED <<platRows, roleEvents>>
     /\ IF ok THEN NoFault ELSE leads /\ Faulty
     /\ UNCHANGED <<now, proc, pgStart, samples, sessRole, platOn>>

\* Mutant: nothing goes at the limit.
EnqueueAnyway(q, s) == Append(q, s)

\* enqueuePlatformSample: at the limit the oldest goes.
EnqueuePlatformSample(q, s) == Append(IF Len(q) >= SampleCap THEN Tail(q) ELSE q, s)

\* generatePlatformSamples
OperatorCollects(o) ==
  /\ proc[o].up /\ o \notin sampled
  /\ sampled' = sampled \cup {o}
  /\ samples' = IF platOn.operators
       THEN [samples EXCEPT ![o] = EnqueuePlatformSample(@, Collect(o))] ELSE samples
  /\ NoFault
  /\ UNCHANGED <<now, proc, pgStart, sessRole, platRows, roleEvents, platOn>>

\* sendPlatformSamples and handleMemberComponentSamples: name and role are
\* the session's, not the sample's.
OperatorSends(o) ==
  /\ samples[o] # <<>>
  /\ samples' = [samples EXCEPT ![o] = Tail(@)]
  /\ IF platOn.gateway
       THEN UpsertSamples({[Head(samples[o]) EXCEPT !.inst = o, !.role = sessRole[o]]})
       ELSE UNCHANGED <<platRows, roleEvents>>
  /\ NoFault
  /\ UNCHANGED <<now, proc, sampled, pgStart, sessRole, platOn>>

\* A heartbeat carries the role, its acknowledgement the switch.
OperatorHeartbeat(o) ==
  /\ proc[o].up
  /\ sessRole' = [sessRole EXCEPT ![o] = proc[o].role]
  /\ platOn' = [platOn EXCEPT !.operators = platOn.gateway]
  /\ NoFault
  /\ UNCHANGED <<now, proc, sampled, pgStart, samples, platRows, roleEvents>>

-----------------------------------------------------------------------------
(***************************************************************************)
(* Faults and changes                                                      *)
(***************************************************************************)
\* Somebody of a component without a leader is elected.
Elected(i) ==
  /\ proc[i].up
  /\ \A p \in PInstances : Component(p) = Component(i) => ~proc[p].up \/ proc[p].role # "leader"
  /\ proc' = [proc EXCEPT ![i].role = "leader"]
  /\ lastFault' = now
  /\ UNCHANGED <<now, sampled, pgStart, samples, sessRole, platRows, roleEvents, platOn, faulty>>

\* A process restarts, or is gone for good; what it had queued is lost.  The
\* session of a leading operator ends (RecordSessionLost).
ProcessEnds(i, back) ==
  /\ Faulty
  /\ proc[i].up
  /\ back \/ \E p \in PInstances \ {i} : Component(p) = Component(i) /\ proc[p].up
  /\ proc' = [proc EXCEPT ![i] = [up |-> back, starts |-> @.starts + 1, role |-> "standby", pressure |-> 0]]
  /\ IF i \in Operators
       THEN /\ samples' = [samples EXCEPT ![i] = <<>>]
            /\ sessRole' = [sessRole EXCEPT ![i] = "standby"]
            /\ roleEvents' = roleEvents \cup
                 (IF sessRole[i] = "leader" THEN {[inst |-> i, to |-> "standby", by |-> "session_lost"]} ELSE {})
       ELSE UNCHANGED <<samples, sessRole, roleEvents>>
  /\ UNCHANGED <<now, sampled, pgStart, platRows, platOn>>

\* The cgroup throttles or kills.
MemoryPressure(i) ==
  /\ Faulty
  /\ proc[i].up
  /\ proc' = [proc EXCEPT ![i].pressure = @ + 1]
  /\ UNCHANGED <<now, sampled, pgStart, samples, sessRole, platRows, roleEvents, platOn>>

PostgresRestarts ==
  /\ Faulty
  /\ pgStart' = pgStart + 1
  /\ UNCHANGED <<now, proc, sampled, samples, sessRole, platRows, roleEvents, platOn>>

\* PlatformService.UpdateSettings, and NotifyChange, which may be lost.
UpdatePlatformSettings(told) ==
  /\ Faulty
  /\ platOn' = [platOn EXCEPT !.stored = ~@, !.gateway = IF told THEN ~platOn.stored ELSE @]
  /\ UNCHANGED <<now, proc, sampled, pgStart, samples, sessRole, platRows, roleEvents>>

\* The next render reads the setting (renderWithPlatform).
ReloadPlatformSettings ==
  /\ platOn.gateway # platOn.stored
  /\ platOn' = [platOn EXCEPT !.gateway = platOn.stored]
  /\ lastFault' = now
  /\ UNCHANGED <<now, proc, sampled, pgStart, samples, sessRole, platRows, roleEvents, faulty>>

\* PlatformReporter.cleanup: rows before the retention period
PlatformCleanup ==
  /\ \E g \in Gateways : proc[g].up /\ proc[g].role = "leader"
  /\ platRows' = {r \in platRows : r.bucket >= now - SampleRetention}
  /\ NoFault
  /\ UNCHANGED <<now, proc, sampled, pgStart, samples, sessRole, roleEvents, platOn>>

\* Elections, heartbeats, renders and deliveries take less than a minute,
\* unless something is wrong.
MinuteDone ==
  /\ \A i \in PInstances : proc[i].up => i \in sampled
  /\ \A o \in Operators : samples[o] = <<>> /\ (proc[o].up => sessRole[o] = proc[o].role)
  /\ platOn.stored = platOn.gateway /\ platOn.operators = platOn.gateway
  /\ \A i \in PInstances : \E p \in PInstances : Component(p) = Component(i) /\ proc[p].up /\ proc[p].role = "leader"

Minute ==
  /\ now < MaxMinutes
  /\ now' = now + 1
  /\ sampled' = {}
  /\ IF MinuteDone THEN NoFault ELSE faulty < MaxFaulty /\ faulty' = faulty + 1 /\ lastFault' = now + 1
  /\ UNCHANGED <<proc, pgStart, samples, sessRole, platRows, roleEvents, platOn>>

-----------------------------------------------------------------------------
(***************************************************************************)
(* The overview                                                            *)
(***************************************************************************)
\* A counter of instance i rose since the given minute: its maximum in the
\* window against the last value before it, or the minimum in the window.
Rose(values, since) ==
  LET window == {v \in values : v.seen >= since}
      before == {v \in values : v.seen < since}
      base == IF before # {} THEN {Latest(before).val} ELSE {v.val : v \in window}
  IN \E v \in window : \E b \in base : (\A c \in base : b <= c) /\ v.val > b

RestartedInstances(i, since) ==
  Rose({[val |-> r.restarts, seen |-> r.seen, bucket |-> r.bucket] : r \in RowsOf(i)}, since)

MemoryPressuredInstances(i, since) ==
  Rose({[val |-> r.pressure, seen |-> r.seen, bucket |-> r.bucket] : r \in {q \in RowsOf(i) : q.pressure >= 0}}, since)

LatestSamples(c) ==
  {Latest(RowsOf(i)) : i \in {r.inst : r \in {q \in platRows : Component(q.inst) = c /\ q.seen >= now - SampleRetention}}}

\* Stale rows only count when there is nothing else.
Fresh(r) == now - r.seen <= NoDataAfter

InstanceDegraded(r) ==
  \/ MemoryPressuredInstances(r.inst, now - HealthRange)
  \/ RestartedInstances(r.inst, now - HealthRange)
  \/ ~r.healthy

BuildPlatformComponent(c) ==
  LET all == LatestSamples(c)
      active == {r \in all : Fresh(r)}
      leaders == {r \in active : r.role = "leader"}
  IN IF all = {} THEN "pending"
     ELSE IF active = {} THEN "unavailable"
     ELSE IF c # "postgres" /\ Cardinality(leaders) # 1 THEN "no_leader"
     ELSE IF \E r \in active : InstanceDegraded(r) THEN "degraded"
     ELSE "ok"

-----------------------------------------------------------------------------
PlatformNext ==
  \/ \E g \in Gateways : \E ok \in BOOLEAN : GatewayCollects(g, ok)
  \/ \E o \in Operators : OperatorCollects(o) \/ OperatorSends(o) \/ OperatorHeartbeat(o)
  \/ \E i \in PInstances : Elected(i) \/ MemoryPressure(i) \/ \E back \in BOOLEAN : ProcessEnds(i, back)
  \/ \E told \in BOOLEAN : UpdatePlatformSettings(told)
  \/ PostgresRestarts \/ ReloadPlatformSettings \/ PlatformCleanup \/ Minute

PlatformSpec == PlatformInit /\ [][PlatformNext]_platformVars

-----------------------------------------------------------------------------
Quiet == now > lastFault + 1 + (IF NoDataAfter > HealthRange THEN NoDataAfter ELSE HealthRange)

(***************************************************************************)
(* The overview recovers by itself: once nothing has failed for longer     *)
(* than both windows, every component with a live instance is shown ok,    *)
(* whatever went wrong before: processes restarted or gone, roles moved,   *)
(* samples late or lost, counters reset, the switch off for a while.       *)
(***************************************************************************)
QuietMeansOk ==
  Quiet /\ MinuteDone /\ platOn.stored =>
    /\ BuildPlatformComponent("gateway") = "ok"
    /\ BuildPlatformComponent("operator") = "ok"
=============================================================================
