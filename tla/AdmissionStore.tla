--------------------------- MODULE AdmissionStore ---------------------------
(***************************************************************************)
(* The stored admission events of the hub: what the gateway stores         *)
(* (internal/gateway/admission_events.go), the storage rules and the       *)
(* retention the console edits (internal/console/service/admission.go),    *)
(* the matcher both planes share (internal/admission/policy/policy.go) and *)
(* the cleaner that applies a changed configuration to the rows already    *)
(* stored (internal/gateway/admission_cleanup.go, AdmissionRepo.cleanup).  *)
(*                                                                         *)
(* Time is counted in days.  An event of a batch is decided between two    *)
(* reads and the write, a pass of the cleaner reads its configuration once *)
(* and then scans the table in batches, and the console commits before it  *)
(* notifies: every one of these is a step of its own.                      *)
(***************************************************************************)
EXTENDS Integers, Sequences, FiniteSets, FiniteSetsExt

CONSTANTS
    EventInputs,     \* the events a member may deliver, with their event id
    RuleInputs,      \* the rule sets an administrator may save
    RetentionInputs, \* the retention days an administrator may ask for
    DefaultRetention,\* the retention the migration seeds
    TrimSpace,       \* a condition's candidate as written -> the candidate trimmed
    CleanupBatchSize,\* admissionCleanupBatchSize
    MaxRetention,    \* 365, the longest retention the settings allow
    MaxDays, MaxRows, MaxSaves, MaxLosses   \* bounds of the exploration

\* A storage rule: conditions left empty match everything; "other" is a mode nobody knows.
Rules == [mode: {"", "include", "exclude", "other"}, verdicts: SUBSET STRING, clusters: SUBSET STRING,
          gvks: SUBSET Seq(STRING), namespaces: SUBSET STRING]

ASSUME StoreAssumption ==
    /\ CleanupBatchSize \in Nat \ {0} /\ MaxRetention \in Nat /\ DefaultRetention \in 1..MaxRetention
    /\ MaxSaves \in Nat /\ MaxLosses \in Nat
    /\ RuleInputs \subseteq Seq(Rules)

VARIABLES
    day,       \* the clock
    config,    \* admission_event_settings and admission_storage_policies
    stored,    \* admission_events: row id -> row
    lastRow,   \* the sequence of the row ids
    batch,     \* the batch the gateway is handling
    full,      \* AdmissionCleaner.full, a channel of capacity one
    pass,      \* the pass the cleaner is running
    notice,    \* a save has committed and its NotifyChange has not been sent
    cut,       \* history: a trigger was lost since the last save
    losses     \* how many steps have failed

storeVars == <<day, config, stored, lastRow, batch, full, pass, notice, cut, losses>>

(***************************************************************************)
(* The rule matcher.                                                       *)
(***************************************************************************)

\* NormalizedGVR: a resource of the core group is named alone.
NormalizedGVR(group, resource) ==
    IF group = "" THEN <<resource>> ELSE <<group, resource>>

\* matchesAny: no condition is a wildcard; candidates are compared trimmed.
matchesAny(values, value) == values = {} \/ \E c \in values : TrimSpace[c] = value

\* The conditions of one rule, joined by AND.
ConditionsMatch(rule, event) ==
    /\ matchesAny(rule.verdicts, event.verdict)
    /\ matchesAny(rule.clusters, event.cluster)
    /\ rule.gvks = {} \/ NormalizedGVR(event.group, event.resource) \in rule.gvks
    /\ matchesAny(rule.namespaces, event.namespace)

\* MatchIndex: the first rule that matches, an exclude rule inverted; 0 when none does.
MatchIndex(rules, event) ==
    LET hits == {i \in DOMAIN rules :
                    ConditionsMatch(rules[i], event) # (rules[i].mode = "exclude")}
    IN  IF hits = {} THEN 0 ELSE Min(hits)

\* ShouldStore: an empty rule set stores everything.
ShouldStore(rules, event) == rules = <<>> \/ MatchIndex(rules, event) > 0

(***************************************************************************)
(* The console: UpdateSettings.                                            *)
(***************************************************************************)

\* normalizeAdmissionStoragePolicy: a rule saved without a mode includes.
normalizeAdmissionStoragePolicy(rule) ==
    IF rule.mode = "" THEN [rule EXCEPT !.mode = "include"] ELSE rule

\* admissionSettingsModels: the settings and rules a request is refused for.
ValidSettings(days, rules) ==
    /\ days \in 1..MaxRetention
    /\ \A i \in DOMAIN rules :
         /\ rules[i].mode \in {"", "include", "exclude"}
         /\ rules[i].verdicts \subseteq {"audit", "deny"}

\* UpdateSettingsAndPolicies: one transaction replaces the settings and every rule and
\* raises the version.  The notification follows the commit.
UpdateSettings(days, rules) ==
    /\ config.version < MaxSaves
    /\ ~notice
    /\ ValidSettings(days, rules)
    /\ config' = [retention |-> days, version |-> config.version + 1,
                  rules |-> [i \in DOMAIN rules |-> normalizeAdmissionStoragePolicy(rules[i])]]
    /\ notice' = TRUE
    /\ cut' = FALSE
    /\ UNCHANGED <<day, stored, lastRow, batch, full, pass, losses>>

\* Variant, a channel without a buffer: a trigger is received only by an idle cleaner.
TriggerUnbuffered == full' = (full \/ pass.at = "idle")

\* TriggerFullCleanup: a send that never blocks; a trigger already waiting takes it in.
TriggerFullCleanup == full' = TRUE

\* gatewayNotifier.NotifyChange reaches the gateway, whose NotifyChange triggers the cleaner.
NotifyChange ==
    /\ notice
    /\ TriggerFullCleanup
    /\ notice' = FALSE
    /\ UNCHANGED <<day, config, stored, lastRow, batch, pass, cut, losses>>

\* The call fails; the console logs it and nothing repeats it.
NotifyLost ==
    /\ notice /\ losses < MaxLosses
    /\ notice' = FALSE
    /\ cut' = TRUE
    /\ losses' = losses + 1
    /\ UNCHANGED <<day, config, stored, lastRow, batch, full, pass>>

(***************************************************************************)
(* The gateway: handleAdmissionEventBatch.                                 *)
(***************************************************************************)
NoBatch == [at |-> "idle"]

\* The batch arrives and the settings are read.
ReceiveBatch(event) ==
    /\ batch.at = "idle"
    /\ lastRow < MaxRows
    /\ batch' = [at |-> "rules", event |-> event, retention |-> config.retention]
    /\ UNCHANGED <<day, config, stored, lastRow, full, pass, notice, cut, losses>>

\* The rules are read, in a statement of their own, and the event is decided.
Decides(event, rules, retention, today) ==
    /\ event.verdict \in {"audit", "deny"}
    /\ ShouldStore(rules, event)
    /\ event.occurred + retention > today

DecideBatch ==
    /\ batch.at = "rules"
    /\ batch' = IF Decides(batch.event, config.rules, batch.retention, day)
                THEN [at |-> "write", event |-> batch.event, version |-> config.version]
                ELSE NoBatch
    /\ UNCHANGED <<day, config, stored, lastRow, full, pass, notice, cut, losses>>

\* CreateEventsIdempotentCount: a row per new event id, none for one already stored.  `late`
\* is a history field: the rules changed between the decision and the write.
CreateEventsIdempotentCount(event, version) ==
    IF \E r \in DOMAIN stored : stored[r].event.id = event.id
    THEN UNCHANGED <<stored, lastRow>>
    ELSE /\ lastRow' = lastRow + 1
         /\ stored' = [r \in DOMAIN stored \cup {lastRow + 1} |->
                          IF r \in DOMAIN stored THEN stored[r]
                          ELSE [event |-> event, created |-> day,
                                late |-> version # config.version]]

WriteBatch ==
    /\ batch.at = "write"
    /\ CreateEventsIdempotentCount(batch.event, batch.version)
    /\ batch' = NoBatch
    /\ UNCHANGED <<day, config, full, pass, notice, cut, losses>>

\* A read or the write fails, or the gateway stops: the member sends the batch again.
AbandonBatch ==
    /\ batch.at # "idle" /\ losses < MaxLosses
    /\ batch' = NoBatch
    /\ losses' = losses + 1
    /\ UNCHANGED <<day, config, stored, lastRow, full, pass, notice, cut>>

(***************************************************************************)
(* The gateway: the cleaner.                                               *)
(***************************************************************************)
NoPass == [at |-> "idle"]

\* Start: a tick begins a routine pass, a trigger a full one.  run takes the time and the
\* repository reads the settings.  A row created later is out of the pass's reach.
BeginPass(isFull) ==
    /\ pass.at = "idle"
    /\ IF isFull THEN full /\ full' = FALSE ELSE UNCHANGED full
    /\ pass' = [at |-> "rules", full |-> isFull, today |-> day,
                retention |-> config.retention, newest |-> lastRow]
    /\ UNCHANGED <<day, config, stored, lastRow, batch, notice, cut, losses>>

\* cleanup: the rules are read next, once for the whole pass.
ReadRules ==
    /\ pass.at = "rules"
    /\ pass' = [at |-> "scan", full |-> pass.full, today |-> pass.today, cursor |-> 0,
                retention |-> pass.retention, newest |-> pass.newest,
                rules |-> config.rules, version |-> config.version]
    /\ UNCHANGED <<day, config, stored, lastRow, batch, full, notice, cut, losses>>

\* Cleanup leaves rows younger than the shortest retention alone; CleanupAll takes them all.
InRange(r) == IF pass.full THEN r <= pass.newest ELSE stored[r].created <= pass.today - 1

\* The candidates behind the cursor, the first CleanupBatchSize of them in row order.
Candidates ==
    LET after == {r \in DOMAIN stored : r > pass.cursor /\ InRange(r)}
    IN  {r \in after : Cardinality({q \in after : q < r}) < CleanupBatchSize}

\* What the configuration the pass has read does not keep.
ExpiredRow(r) ==
    \/ ~ShouldStore(pass.rules, stored[r].event)
    \/ stored[r].created + pass.retention <= pass.today

\* One iteration of cleanup: scan a batch, delete, go on while batches are full.
CleanupBatch ==
    /\ pass.at = "scan"
    /\ LET batchRows == Candidates
           gone == {r \in batchRows : ExpiredRow(r)}
       IN  /\ stored' = [r \in DOMAIN stored \ gone |-> stored[r]]
           /\ pass' = IF Cardinality(batchRows) < CleanupBatchSize THEN NoPass
                      ELSE [pass EXCEPT !.cursor = Max(batchRows)]
    /\ UNCHANGED <<day, config, lastRow, batch, full, notice, cut, losses>>

\* A statement of the pass fails: run logs it and the trigger is not sent again.
PassFails ==
    /\ pass.at # "idle" /\ losses < MaxLosses
    /\ pass' = NoPass
    /\ cut' = (cut \/ pass.full)
    /\ losses' = losses + 1
    /\ UNCHANGED <<day, config, stored, lastRow, batch, full, notice>>

\* The gateway restarts: the channel is empty and the new process starts with a routine pass.
GatewayRestarts ==
    /\ losses < MaxLosses
    /\ pass' = NoPass /\ full' = FALSE /\ batch' = NoBatch
    /\ cut' = (cut \/ full \/ (pass.at # "idle" /\ pass.full))
    /\ losses' = losses + 1
    /\ UNCHANGED <<day, config, stored, lastRow, notice>>

NextDay ==
    /\ day < MaxDays
    /\ day' = day + 1
    /\ UNCHANGED <<config, stored, lastRow, batch, full, pass, notice, cut, losses>>

\* The migration seeds one settings row and no rules.
StoreInit ==
    /\ day = 1
    /\ config = [retention |-> DefaultRetention, version |-> 0, rules |-> <<>>]
    /\ stored = [r \in {} |-> NoBatch] /\ lastRow = 0
    /\ batch = NoBatch /\ full = FALSE /\ pass = NoPass
    /\ notice = FALSE /\ cut = FALSE /\ losses = 0

StoreNext ==
    \/ \E days \in RetentionInputs, rules \in RuleInputs : UpdateSettings(days, rules)
    \/ NotifyChange \/ NotifyLost
    \/ \E event \in EventInputs : ReceiveBatch(event)
    \/ DecideBatch \/ WriteBatch \/ AbandonBatch
    \/ \E isFull \in BOOLEAN : BeginPass(isFull)
    \/ ReadRules \/ CleanupBatch \/ PassFails
    \/ GatewayRestarts \/ NextDay

StoreSpec == StoreInit /\ [][StoreNext]_storeVars

(***************************************************************************)
(* Properties.                                                             *)
(***************************************************************************)

\* What the gateway and the cleaner remember between two statements.
Batches ==
    {NoBatch} \cup [at: {"rules"}, event: EventInputs, retention: 1..MaxRetention]
              \cup [at: {"write"}, event: EventInputs, version: 0..MaxSaves]

Passes ==
    {NoPass} \cup [at: {"rules"}, full: BOOLEAN, today: 1..day, retention: 1..MaxRetention, newest: 0..lastRow]
             \cup [at: {"scan"}, full: BOOLEAN, today: 1..day, retention: 1..MaxRetention, newest: 0..lastRow,
                   cursor: 0..lastRow, rules: Seq(Rules), version: 0..MaxSaves]

\* The rows have an event and a day that has come, and a pass that scans has a cursor it has
\* reached; saved rules have a mode and known verdicts.
StoreTypeOK ==
    /\ day \in Nat \ {0} /\ lastRow \in Nat /\ losses \in 0..MaxLosses
    /\ config \in [retention: 1..MaxRetention, version: 0..MaxSaves, rules: Seq(Rules)]
    /\ \A i \in DOMAIN config.rules : /\ config.rules[i].mode \in {"include", "exclude"}
                                      /\ config.rules[i].verdicts \subseteq {"audit", "deny"}
    /\ DOMAIN stored \subseteq 1..lastRow
    /\ stored \in [DOMAIN stored -> [event: EventInputs, created: 1..day, late: BOOLEAN]]
    /\ batch \in Batches /\ pass \in Passes
    /\ full \in BOOLEAN /\ notice \in BOOLEAN /\ cut \in BOOLEAN

\* A full pass that is still to judge row r under the rules in force.
StillToJudge(r) ==
    /\ pass.at # "idle" /\ pass.full /\ r <= pass.newest
    /\ pass.at = "scan" => pass.version = config.version /\ r > pass.cursor

\* A changed rule set reaches the rows already stored: a row the rules in force do not
\* store is one the cleaner is still to judge (the notification is on its way, the trigger
\* waits in the channel, or a full pass with these rules has not come to it), unless a
\* trigger was lost with a failure or the row was decided under the older rules and written
\* after the change.
RulesReachStoredRows ==
    \A r \in DOMAIN stored :
        \/ ShouldStore(config.rules, stored[r].event)
        \/ notice \/ full \/ StillToJudge(r)
        \/ cut \/ stored[r].late
=============================================================================
