---------------------------- MODULE LinkIncidents ----------------------------
(***************************************************************************)
(* Incidents of the admission event pipeline: the trackers of the webhook, *)
(* the operator and the gateway aggregate failures into incidents, the     *)
(* webhook posts its own to the operator, the operator queues both and     *)
(* sends them to the hub, which merges reports into rows.                  *)
(*                                                                         *)
(* An incident is a key with a revision that grows with every change; its  *)
(* count, times, detail and samples follow the revision and are left out.  *)
(* When the silence period is over is a choice: time has no other part.    *)
(* Messages and acknowledgements carry one incident each.                  *)
(***************************************************************************)
EXTENDS Naturals, SequencesExt, FiniteSets

CONSTANTS
  PendingLimit,   \* closed incidents a tracker keeps (DefaultPendingLimit)
  IncidentCap,    \* incidents the operator queues (operatorIncidentCapacity)
  MaxKeys,        \* bound on incidents
  MaxRevision,    \* bound on revisions
  MaxTroubles     \* bound on broken streams, failed writes, lost replies, restarts

ASSUME IncidentAssumption ==
  /\ PendingLimit \in Nat \ {0} /\ IncidentCap \in Nat \ {0}
  /\ MaxKeys \in Nat /\ MaxRevision \in Nat /\ MaxTroubles \in Nat

VARIABLES
  inc,        \* inc[k]: the incident with key k, for k < nextKey
  nextKey,    \* the next key
  tracker,    \* tracker[c]: active incidents by reason, closed ones in order
  snap,       \* snap[c]: the reports of a flush under way
  queue,      \* queue[k]: the operator's queue
  toHub,      \* reports on the stream
  toMember,   \* acknowledgements on the stream
  rows,       \* rows[k]: the hub's rows
  settled,    \* incidents dropped at a limit, switched off, discarded or cleaned up
  obsOn,      \* observation is switched on, at the hub and at the members
  troubles    \* failures so far

incidentVars == <<inc, nextKey, tracker, snap, queue, toHub, toMember, rows, settled, obsOn, troubles>>

Trackers == {"webhook", "operator", "gateway"}

Reasons == {"link_failure", "report_dropped"}

Keys == 1..MaxKeys

NoKey == 0

Reports == [key: Keys, rev: 1..MaxRevision, closed: BOOLEAN]

Incidents == [of: Trackers, reason: Reasons, rev: 1..MaxRevision, closed: BOOLEAN]

Pending == [active: [Reasons -> Keys \cup {NoKey}], pending: Seq(Keys)]

QueueEntries == [rev: 1..MaxRevision, closed: BOOLEAN, inFlight: BOOLEAN, sentRev: 0..MaxRevision]

Statuses == {"accepted", "discarded", "retryable"}

EmptyTracker == [active |-> [r \in Reasons |-> NoKey], pending |-> <<>>]

Elems(s) == {s[i] : i \in DOMAIN s}

IncidentTypeOK ==
  /\ nextKey \in 1..(MaxKeys + 1)
  /\ inc \in [1..(nextKey - 1) -> Incidents]
  /\ tracker \in [Trackers -> Pending]
  /\ \A c \in Trackers : /\ Len(tracker[c].pending) <= PendingLimit
                         /\ \A k \in Elems(tracker[c].pending) : k \in DOMAIN inc /\ inc[k].closed /\ inc[k].of = c
                         /\ \A r \in Reasons : LET k == tracker[c].active[r]
                                               IN k # NoKey => /\ k \in DOMAIN inc /\ ~inc[k].closed
                                                               /\ inc[k].of = c /\ inc[k].reason = r
  /\ snap \in [Trackers -> SUBSET Reports]
  /\ DOMAIN queue \subseteq Keys /\ queue \in [DOMAIN queue -> QueueEntries]
  /\ Cardinality(DOMAIN queue) <= IncidentCap
  /\ toHub \subseteq Reports /\ toMember \subseteq [key: Keys, rev: 1..MaxRevision, status: Statuses]
  /\ DOMAIN rows \subseteq Keys /\ rows \in [DOMAIN rows -> [rev: 1..MaxRevision, closed: BOOLEAN]]
  /\ settled \subseteq Keys /\ obsOn \in BOOLEAN /\ troubles \in 0..MaxTroubles

IncidentInit ==
  /\ inc = [k \in {} |-> [rev |-> 0]]
  /\ nextKey = 1
  /\ tracker = [c \in Trackers |-> EmptyTracker]
  /\ snap = [c \in Trackers |-> {}]
  /\ queue = [k \in {} |-> [rev |-> 0]]
  /\ toHub = {}
  /\ toMember = {}
  /\ rows = [k \in {} |-> [rev |-> 0]]
  /\ settled = {}
  /\ obsOn = TRUE
  /\ troubles = 0

-----------------------------------------------------------------------------
(***************************************************************************)
(* Tracker.  b bundles one tracker with the incidents there are, so that   *)
(* one operation can follow another.                                       *)
(***************************************************************************)
Bundle(c) == [of |-> c, active |-> tracker[c].active, pending |-> tracker[c].pending,
              inc |-> inc, next |-> nextKey, settled |-> settled]

\* No operation goes past the bounds: the last revision is for the end.
WithinBounds(b) ==
  /\ b.next <= MaxKeys + 1
  /\ \A k \in DOMAIN b.inc : b.inc[k].rev + (IF b.inc[k].closed THEN 0 ELSE 1) <= MaxRevision

Unbundle(b) ==
  /\ WithinBounds(b)
  /\ tracker' = [tracker EXCEPT ![b.of] = [active |-> b.active, pending |-> b.pending]]
  /\ inc' = b.inc
  /\ nextKey' = b.next
  /\ settled' = b.settled

Opened(b, r) ==
  [of |-> b.of, active |-> [b.active EXCEPT ![r] = b.next], pending |-> b.pending, next |-> b.next + 1,
   inc |-> [k \in DOMAIN b.inc \cup {b.next} |->
              IF k = b.next THEN [of |-> b.of, reason |-> r, rev |-> 1, closed |-> FALSE] ELSE b.inc[k]],
   settled |-> b.settled]

\* The next revision of incident k, its last one when it closes.
Revised(i, k, closed) ==
  [i EXCEPT ![k] = [of |-> i[k].of, reason |-> i[k].reason, rev |-> i[k].rev + 1, closed |-> closed]]

Seen(b, r) ==
  IF b.active[r] = NoKey THEN Opened(b, r)
  ELSE [b EXCEPT !.inc = Revised(b.inc, b.active[r], FALSE)]

AtLimit(b) == Len(b.pending) >= PendingLimit

\* The active incident of reason r becomes the newest pending one, at the limit in place of the oldest.
MovedToPending(b, r) ==
  [of |-> b.of, active |-> [b.active EXCEPT ![r] = NoKey], next |-> b.next,
   pending |-> Append(IF AtLimit(b) THEN Tail(b.pending) ELSE b.pending, b.active[r]),
   inc |-> Revised(b.inc, b.active[r], TRUE),
   settled |-> b.settled \cup (IF AtLimit(b) THEN {Head(b.pending)} ELSE {})]

\* closeLocked, with recordDropLocked where the limit drops the oldest.
CloseLocked(b, r) ==
  IF AtLimit(b) /\ r # "report_dropped" /\ b.inc[Head(b.pending)].reason # "report_dropped"
    THEN Seen(MovedToPending(b, r), "report_dropped") ELSE MovedToPending(b, r)

\* Record: a silent incident is closed first.
Record(c, r, silent) ==
  LET b == Bundle(c)
  IN Unbundle(IF silent /\ b.active[r] # NoKey THEN Opened(CloseLocked(b, r), r) ELSE Seen(b, r))

Report(i, k) == [key |-> k, rev |-> i[k].rev, closed |-> i[k].closed]

CloseSilent(b, r) == IF r \in Reasons THEN CloseLocked(b, r) ELSE b

\* Snapshot closes what is silent, in any order, and reports everything that is left.
Snapshot(c, first, second) ==
  LET b == Bundle(c)
      after == CloseSilent(CloseSilent(b, first), second)
      keys == {after.active[q] : q \in Reasons} \cup Elems(after.pending)
  IN /\ \A r \in {first, second} \cap Reasons : b.active[r] # NoKey
     /\ Unbundle(after)
     /\ snap' = [snap EXCEPT ![c] = {Report(after.inc, k) : k \in keys \ {NoKey}}]

\* Mutant: an answer to an older revision settles the incident.
AcknowledgedAny(p, k, rev) == SelectSeq(p, LAMBDA j : j # k)

\* Acknowledge, with a terminal result
Acknowledged(p, k, rev) ==
  IF k \in Elems(p) /\ inc[k].rev <= rev THEN RemoveAt(p, CHOOSE i \in DOMAIN p : p[i] = k) ELSE p

Acknowledge(c, k, rev) ==
  [tracker EXCEPT ![c] = [active |-> @.active, pending |-> Acknowledged(@.pending, k, rev)]]

-----------------------------------------------------------------------------
Trouble == troubles < MaxTroubles /\ troubles' = troubles + 1

RecordIncident(c, silent) ==
  /\ obsOn
  /\ Record(c, "link_failure", silent)
  /\ UNCHANGED <<snap, queue, toHub, toMember, rows, obsOn, troubles>>

TakeSnapshot(c, first, second) ==
  /\ obsOn /\ snap[c] = {}
  /\ first # second \/ first = "none"
  /\ Snapshot(c, first, second)
  /\ UNCHANGED <<queue, toHub, toMember, rows, obsOn, troubles>>

-----------------------------------------------------------------------------
(***************************************************************************)
(* The operator's queue                                                    *)
(***************************************************************************)
Queued(m) == [rev |-> m.rev, closed |-> m.closed, inFlight |-> FALSE, sentRev |-> 0]

NotInFlight(e) == [e EXCEPT !.inFlight = FALSE]

\* A report replaces an older one of its key; new keys while there is room.
Accepts(m) == m.key \in DOMAIN queue \/ Cardinality(DOMAIN queue) < IncidentCap

Enqueued(m) ==
  IF m.key \in DOMAIN queue
    THEN IF m.rev > queue[m.key].rev
           THEN [queue EXCEPT ![m.key] = [@ EXCEPT !.rev = m.rev, !.closed = m.closed]] ELSE queue
    ELSE [k \in DOMAIN queue \cup {m.key} |-> IF k = m.key THEN Queued(m) ELSE queue[k]]

\* SubmitLinkIncidents; the webhook acknowledges what the operator accepted.
PostIncident(m, replied) ==
  /\ m \in snap["webhook"]
  /\ snap' = [snap EXCEPT !["webhook"] = IF replied THEN @ \ {m} ELSE {}]
  /\ IF replied THEN UNCHANGED troubles ELSE Trouble
  /\ queue' = IF obsOn /\ Accepts(m) THEN Enqueued(m) ELSE queue
  /\ tracker' = IF replied /\ (~obsOn \/ Accepts(m))
                  THEN Acknowledge("webhook", m.key, m.rev)
                  ELSE tracker
  /\ settled' = IF obsOn THEN settled ELSE settled \cup {m.key}
  /\ UNCHANGED <<inc, nextKey, toHub, toMember, rows, obsOn>>

\* enqueueLocalIncidents; at the limit the rest waits for the next snapshot.
EnqueueLocal(m) ==
  /\ m \in snap["operator"]
  /\ IF Accepts(m)
       THEN /\ queue' = Enqueued(m)
            /\ snap' = [snap EXCEPT !["operator"] = @ \ {m}]
            /\ UNCHANGED <<inc, nextKey, tracker, settled>>
       ELSE /\ Record("operator", "report_dropped", FALSE)
            /\ snap' = [snap EXCEPT !["operator"] = {}]
            /\ UNCHANGED queue
  /\ UNCHANGED <<toHub, toMember, rows, obsOn, troubles>>

\* sendLinkIncidents
SendIncident(k) ==
  /\ k \in DOMAIN queue /\ ~queue[k].inFlight
  /\ queue' = [queue EXCEPT ![k] = [@ EXCEPT !.inFlight = TRUE, !.sentRev = queue[k].rev]]
  /\ toHub' = toHub \cup {[key |-> k, rev |-> queue[k].rev, closed |-> queue[k].closed]}
  /\ UNCHANGED <<inc, nextKey, tracker, snap, toMember, rows, settled, obsOn, troubles>>

\* The deadline passes: the incident is due again.
AckTimeout(k) ==
  /\ Trouble
  /\ k \in DOMAIN queue /\ queue[k].inFlight
  /\ queue' = [queue EXCEPT ![k] = NotInFlight(@)]
  /\ Record("operator", "link_failure", FALSE)
  /\ UNCHANGED <<snap, toHub, toMember, rows, obsOn>>

\* ackLinkIncidents
AckIncident(a) ==
  /\ a \in toMember
  /\ toMember' = toMember \ {a}
  /\ LET k == a.key
         terminal == a.status # "retryable"
     IN IF k \notin DOMAIN queue \/ a.rev < queue[k].sentRev
          THEN UNCHANGED <<queue, tracker>>
          ELSE /\ queue' = IF terminal /\ queue[k].rev <= a.rev
                             THEN [j \in DOMAIN queue \ {k} |-> queue[j]]
                             ELSE [queue EXCEPT ![k] = NotInFlight(@)]
               /\ tracker' = IF terminal
                    THEN Acknowledge("operator", k, a.rev) ELSE tracker
  /\ UNCHANGED <<inc, nextKey, snap, toHub, rows, settled, obsOn, troubles>>

\* The stream ends; failInFlightLinkIncidents
StreamBreaks ==
  /\ Trouble
  /\ toHub' = {} /\ toMember' = {}
  /\ queue' = [k \in DOMAIN queue |-> NotInFlight(queue[k])]
  /\ UNCHANGED <<inc, nextKey, tracker, snap, rows, settled, obsOn>>

-----------------------------------------------------------------------------
(***************************************************************************)
(* The gateway                                                             *)
(***************************************************************************)
\* IncidentRepo.Upsert: reports merge, whatever their order.
Upserted(m) ==
  LET old == IF m.key \in DOMAIN rows THEN rows[m.key] ELSE [rev |-> m.rev, closed |-> m.closed]
  IN [k \in DOMAIN rows \cup {m.key} |->
        IF k # m.key THEN rows[k]
        ELSE [rev |-> IF m.rev > old.rev THEN m.rev ELSE old.rev, closed |-> old.closed \/ m.closed]]

AnswerReport(m, status) == toMember' = toMember \cup {[key |-> m.key, rev |-> m.rev, status |-> status]}

\* handleLinkIncidentBatch: stored, refused for now, or switched off.
HandleIncident(m) ==
  /\ m \in toHub
  /\ toHub' = toHub \ {m}
  /\ \/ /\ obsOn
        /\ rows' = Upserted(m)
        /\ AnswerReport(m, "accepted")
        /\ UNCHANGED <<settled, troubles>>
     \/ /\ ~obsOn
        /\ AnswerReport(m, "discarded")
        /\ settled' = settled \cup {m.key}
        /\ UNCHANGED <<rows, troubles>>
     \/ /\ obsOn /\ Trouble
        /\ AnswerReport(m, "retryable")
        /\ UNCHANGED <<rows, settled>>
  /\ UNCHANGED <<inc, nextKey, tracker, snap, queue, obsOn>>

\* flushGatewayIncidents: stored at once; a failed write ends the flush.
FlushGateway(m, ok) ==
  /\ m \in snap["gateway"]
  /\ \/ /\ ok
        /\ rows' = Upserted(m)
        /\ snap' = [snap EXCEPT !["gateway"] = @ \ {m}]
        /\ tracker' = IF m.closed
             THEN Acknowledge("gateway", m.key, m.rev) ELSE tracker
        /\ UNCHANGED troubles
     \/ /\ ~ok /\ Trouble
        /\ snap' = [snap EXCEPT !["gateway"] = {}]
        /\ UNCHANGED <<rows, tracker>>
  /\ UNCHANGED <<inc, nextKey, queue, toHub, toMember, settled, obsOn>>

\* IncidentRepo.Cleanup: rows without a report for the retention period.
CleanupIncident(k) ==
  /\ Trouble
  /\ k \in DOMAIN rows
  /\ rows' = [j \in DOMAIN rows \ {k} |-> rows[j]]
  /\ settled' = settled \cup {k}
  /\ UNCHANGED <<inc, nextKey, tracker, snap, queue, toHub, toMember, obsOn>>

-----------------------------------------------------------------------------
(***************************************************************************)
(* Observation is switched off: setEventConfig and the trackers' Reset     *)
(* throw away what is not stored.  The same goes for a restart of the      *)
(* operator, which keeps nothing, with observation left on.                *)
(***************************************************************************)
Memory(cs) ==
  (UNION {Elems(tracker[c].pending) \cup {tracker[c].active[r] : r \in Reasons} : c \in cs}) \ {NoKey}

SwitchOff ==
  /\ Trouble /\ obsOn
  /\ obsOn' = FALSE
  /\ tracker' = [c \in Trackers |-> EmptyTracker]
  /\ snap' = [c \in Trackers |-> {}]
  /\ queue' = [k \in {} |-> [rev |-> 0]]
  /\ settled' = settled \cup Memory(Trackers) \cup DOMAIN queue
  /\ UNCHANGED <<inc, nextKey, toHub, toMember, rows>>

SwitchOn ==
  /\ ~obsOn
  /\ obsOn' = TRUE
  /\ UNCHANGED <<inc, nextKey, tracker, snap, queue, toHub, toMember, rows, settled, troubles>>

OperatorRestarts ==
  /\ Trouble
  /\ tracker' = [tracker EXCEPT !["operator"] = EmptyTracker]
  /\ snap' = [snap EXCEPT !["operator"] = {}]
  /\ queue' = [k \in {} |-> [rev |-> 0]]
  /\ toHub' = {} /\ toMember' = {}
  /\ settled' = settled \cup Memory({"operator"}) \cup DOMAIN queue
  /\ UNCHANGED <<inc, nextKey, rows, obsOn>>

-----------------------------------------------------------------------------
IncidentNext ==
  \/ \E c \in Trackers : \/ \E s \in BOOLEAN : RecordIncident(c, s)
                         \/ \E first, second \in Reasons \cup {"none"} : TakeSnapshot(c, first, second)
  \/ \E m \in Reports : \/ \E replied \in BOOLEAN : PostIncident(m, replied)
                        \/ EnqueueLocal(m)
                        \/ HandleIncident(m)
                        \/ \E ok \in BOOLEAN : FlushGateway(m, ok)
  \/ \E k \in Keys : SendIncident(k) \/ AckTimeout(k) \/ CleanupIncident(k)
  \/ \E a \in toMember : AckIncident(a)
  \/ StreamBreaks \/ SwitchOff \/ SwitchOn \/ OperatorRestarts

IncidentSpec == IncidentInit /\ [][IncidentNext]_incidentVars

-----------------------------------------------------------------------------
(***************************************************************************)
(* The end of an incident is not lost on its way: a closed incident is in  *)
(* its tracker, in the operator's queue with its last revision, or in a    *)
(* closed row at the hub, unless it was dropped at a limit, switched off   *)
(* or cleaned up.  An answer to an older revision, a lost reply or a       *)
(* repeated report settles nothing (Acknowledge, ackLinkIncidents).        *)
(***************************************************************************)
ClosedIncidentIsKept ==
  \A k \in DOMAIN inc : inc[k].closed =>
    \/ k \in settled
    \/ k \in Elems(tracker[inc[k].of].pending)
    \/ k \in DOMAIN queue /\ queue[k].closed
    \/ k \in DOMAIN rows /\ rows[k].closed
=============================================================================
