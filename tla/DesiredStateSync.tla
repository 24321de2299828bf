-------------------------- MODULE DesiredStateSync --------------------------
(***************************************************************************)
(* How a change made in the console reaches a member cluster and how its   *)
(* outcome comes back: the notifier (internal/gateway/notifier.go), the    *)
(* push loop, the status rows (diststatus.go) and the member's apply and   *)
(* report loop (internal/operator/hublink/client.go), over one Sync stream *)
(* at a time that may break and be opened again.                           *)
(*                                                                         *)
(* Four goroutines interleave: the console's writer, the gateway's push    *)
(* loop, the gateway's recv loop, and the member.  The push loop and the   *)
(* recv loop write the same status rows, each by a read followed by a      *)
(* write, with no lock around the pair.                                    *)
(***************************************************************************)
EXTENDS Integers, Sequences, FiniteSets

CONSTANTS Dists,       \* policy distributions
          Contents,    \* what the policies and groups tables may hold
          Hashes,      \* version hashes of rendered snapshots
          HashOf,      \* HashOf[c][T]: the hash when distributions T match
          BadRefs,     \* BadRefs[c]: the distributions that fail to render
          MaxChanges,  \* bound: commits of the console
          MaxBreaks,   \* bound: times the stream breaks
          MaxFlips,    \* bound: times an apply conflict comes or goes
          QueueCap     \* messages a direction of the stream buffers

NoHash == "nohash"

ASSUME RenderTypes == /\ NoHash \notin Hashes
                      /\ HashOf \in [Contents -> [SUBSET Dists -> Hashes]]
                      /\ BadRefs \in [Contents -> SUBSET Dists]
ASSUME BoundsAreNat == /\ MaxChanges \in Nat /\ MaxBreaks \in Nat
                       /\ MaxFlips \in Nat /\ QueueCap \in Nat \ {0}

VARIABLES
  targets,    \* distributions that target the cluster (distributions table)
  content,    \* the objects they name (groups, policies, exceptions tables)
  wrote,      \* wrote[r]: the table that commit r changed
  pending,    \* commits whose NotifyChange has not been completed
  stashed,    \* those of them that have stashed their trace
  lost,       \* commits whose NotifyChange failed
  traceID,    \* Notifier.traceID: the commit of the last NotifyWithTrace
  fired,      \* whether the channel the push loop waits on is closed
  loop,       \* the push loop: its place and its local variables
  last,       \* syncSession.lastRes, or NoResult
  down,       \* DesiredState messages on their way to the member
  up,         \* StatusReport messages on their way to the gateway
  marking,    \* the report the recv loop applies, and its distributions to do
  rows,       \* rows[d]: the cluster's status row of d, or NoRow
  readRow,    \* readRow[w]: what writer w has read of the row it is changing
  applied,    \* the member's lastApplied
  outcome,    \* how the member's last apply ended
  everApplied,\* history: the snapshots the member has ever applied
  conflict,   \* whether an apply would fail
  breaks, flips

dbVars     == <<targets, content, wrote>>
noticeVars == <<pending, stashed, lost, traceID, fired>>
streamVars == <<down, up, breaks>>
rowVars    == <<rows, readRow>>
memberVars == <<applied, outcome, everApplied>>
envVars    == <<conflict, flips>>
vars == <<dbVars, noticeVars, loop, last, streamVars, marking, rowVars,
          memberVars, envVars>>

Tables   == {"targets", "content"}
Commits  == 1..MaxChanges
changes  == Len(wrote)
Results  == [hash : Hashes \cup {NoHash}, matched : SUBSET Dists,
             errors : SUBSET Dists]
NoResult == [hash |-> NoHash, matched |-> {}, errors |-> {}]
Reports  == [hash : Hashes \cup {NoHash}, failed : BOOLEAN]
NoReport == [hash |-> NoHash, failed |-> FALSE]
Rows     == [status : {"", "Pending", "Synced", "Error"},
             applied : Hashes \cup {NoHash}, error : {"", "render", "apply"}]
NoRow    == [status |-> "", applied |-> NoHash, error |-> ""]
Unread   == [NoRow EXCEPT !.status = "unread"]
Writers  == {"markPushed", "markReported"}
PushPCs  == {"off", "capture", "peek", "readTargets", "readContent", "send",
             "setLast", "mark", "select"}

(* The push loop before its first iteration: forceSend and wokeByNotify    *)
(* are false, nothing is rendered.                                         *)
LoopAt(pc) == [pc |-> pc, traceID |-> 0, force |-> FALSE, woke |-> FALSE,
               res |-> NoResult, readAt |-> [t \in Tables |-> 0], todo |-> {}]

(* Type invariant: the tables, the messages, the rows and the locals of    *)
(* the four goroutines stay within their types, and the stream's buffers   *)
(* within their capacity.                                                  *)
TypeOK ==
  /\ targets \subseteq Dists /\ content \in Contents
  /\ wrote \in Seq(Tables) /\ changes <= MaxChanges
  /\ pending \subseteq 1..changes /\ stashed \subseteq pending
  /\ lost \subseteq 1..changes /\ traceID \in 0..changes /\ fired \in BOOLEAN
  /\ loop \in [pc : PushPCs, traceID : 0..changes, force : BOOLEAN,
               woke : BOOLEAN, res : Results, readAt : [Tables -> 0..changes],
               todo : SUBSET Dists]
  /\ last \in Results
  /\ down \in Seq([hash : Hashes, trace : 0..MaxChanges])
  /\ up \in Seq(Reports)
  /\ Len(down) <= QueueCap /\ Len(up) <= QueueCap
  /\ marking \in [report : Reports, todo : SUBSET Dists]
  /\ rows \in [Dists -> Rows]
  /\ readRow \in [Writers -> Rows \cup {Unread}]
  /\ applied \in Hashes \cup {NoHash} /\ everApplied \subseteq Hashes
  /\ outcome \in {"none", "ok", "failed"}
  /\ conflict \in BOOLEAN
  /\ breaks \in 0..MaxBreaks /\ flips \in 0..MaxFlips

Init ==
  /\ targets \in SUBSET Dists /\ content \in Contents /\ wrote = <<>>
  /\ pending = {} /\ stashed = {} /\ lost = {} /\ traceID = 0 /\ fired = FALSE
  /\ loop = LoopAt("capture") /\ last = NoResult
  /\ down = <<>> /\ up = <<>> /\ breaks = 0
  /\ marking = [report |-> NoReport, todo |-> {}]
  /\ rows = [d \in Dists |-> NoRow]
  /\ readRow = [w \in Writers |-> Unread]
  /\ applied = NoHash /\ everApplied = {} /\ outcome = "none"
  /\ conflict = FALSE /\ flips = 0

(***************************************************************************)
(* Render, as far as the push protocol can tell.  The hash covers the      *)
(* rendered objects only: which distributions matched, or failed, does not *)
(* change it when the objects stay the same.                               *)
(***************************************************************************)
Render(T, c) == [hash |-> HashOf[c][T], matched |-> T,
                 errors |-> T \cap BadRefs[c]]

(***************************************************************************)
(* The console: a commit, then the NotifyChange call, which may fail.      *)
(***************************************************************************)
Commit(t) ==
  /\ changes < MaxChanges
  /\ wrote' = Append(wrote, t)
  /\ pending' = pending \cup {changes + 1}
  /\ \/ /\ t = "targets"
        /\ \E T \in SUBSET Dists : T # targets /\ targets' = T
        /\ UNCHANGED content
     \/ /\ t = "content"
        /\ \E c \in Contents : c # content /\ content' = c
        /\ UNCHANGED targets
  /\ UNCHANGED <<stashed, lost, traceID, fired, loop, last, streamVars,
                 marking, rowVars, memberVars, envVars>>

(* Notifier.NotifyWithTrace: stash the trace; then, in a second critical   *)
(* section, close the channel everybody waits on and install a fresh one.  *)
StashTrace(r) ==
  /\ r \in pending \ stashed
  /\ stashed' = stashed \cup {r}
  /\ traceID' = r
  /\ UNCHANGED <<pending, lost, fired, dbVars, loop, last, streamVars,
                 marking, rowVars, memberVars, envVars>>

Notify(r) ==
  /\ r \in stashed
  /\ stashed' = stashed \ {r}
  /\ pending' = pending \ {r}
  /\ fired' = TRUE
  /\ UNCHANGED <<lost, traceID, dbVars, loop, last, streamVars, marking,
                 rowVars, memberVars, envVars>>

LoseNotify(r) ==
  /\ r \in pending \ stashed
  /\ pending' = pending \ {r}
  /\ lost' = lost \cup {r}
  /\ UNCHANGED <<stashed, traceID, fired, dbVars, loop, last, streamVars,
                 marking, rowVars, memberVars, envVars>>

(***************************************************************************)
(* Status rows: setClusterStatus reads the row, then writes it unless the  *)
(* mutation left it as it was.                                             *)
(***************************************************************************)
ReadRow(w, d) ==
  /\ readRow[w] = Unread
  /\ readRow' = [readRow EXCEPT ![w] = rows[d]]
  /\ UNCHANGED rows

WriteRow(w, d, row) ==
  /\ readRow[w] # Unread
  /\ rows' = IF row = readRow[w] THEN rows ELSE [rows EXCEPT ![d] = row]
  /\ readRow' = [readRow EXCEPT ![w] = Unread]

(* markPushed's two mutators.                                              *)
PushedRow(row, d) ==
  IF d \in loop.res.errors
    THEN [row EXCEPT !.status = "Error", !.error = "render"]
  ELSE IF row.applied = loop.res.hash /\ row.status \in {"Synced", "Error"}
    THEN row
  ELSE [row EXCEPT !.status = "Pending", !.error = ""]

(* markReported's two mutators.                                            *)
ReportedRow ==
  IF marking.report.failed
    THEN [status |-> "Error", applied |-> marking.report.hash,
          error |-> "apply"]
    ELSE [status |-> "Synced", applied |-> marking.report.hash, error |-> ""]

(***************************************************************************)
(* pushLoop.                                                               *)
(***************************************************************************)
Capture ==
  /\ loop.pc = "capture"
  /\ fired' = FALSE
  /\ loop' = [loop EXCEPT !.pc = "peek"]
  /\ UNCHANGED <<pending, stashed, lost, traceID, dbVars, last, streamVars,
                 marking, rowVars, memberVars, envVars>>

Peek ==
  /\ loop.pc = "peek"
  /\ loop' = [loop EXCEPT !.traceID = traceID, !.pc = "readTargets"]
  /\ UNCHANGED <<noticeVars, dbVars, last, streamVars, marking, rowVars,
                 memberVars, envVars>>

(* renderFor lists the tables one after the other, in no transaction.  The *)
(* targets read are kept in res.matched until the contents are read too.   *)
ReadTargets ==
  /\ loop.pc = "readTargets"
  /\ loop' = [loop EXCEPT !.res = [NoResult EXCEPT !.matched = targets],
                          !.readAt["targets"] = changes,
                          !.pc = "readContent"]
  /\ UNCHANGED <<noticeVars, dbVars, last, streamVars, marking, rowVars,
                 memberVars, envVars>>

ReadContent ==
  /\ loop.pc = "readContent"
  /\ loop' = [loop EXCEPT !.res = Render(loop.res.matched, content),
                          !.readAt["content"] = changes,
                          !.pc = "send"]
  /\ UNCHANGED <<noticeVars, dbVars, last, streamVars, marking, rowVars,
                 memberVars, envVars>>

(* A failed query: the iteration does nothing more.                        *)
RenderError ==
  /\ loop.pc \in {"readTargets", "readContent"}
  /\ flips < MaxFlips /\ flips' = flips + 1
  /\ loop' = LoopAt("select")
  /\ UNCHANGED <<noticeVars, dbVars, last, streamVars, marking, rowVars,
                 memberVars, conflict>>

Changed == last = NoResult \/ last.hash # loop.res.hash

DesiredState(trace) ==
  [hash |-> loop.res.hash, trace |-> IF loop.woke /\ Changed THEN trace ELSE 0]

(* Mutant: the send does not wait for room in the stream.                  *)
SendUnbounded ==
  /\ loop.pc = "send"
  /\ Changed \/ loop.force
  /\ down' = Append(down, DesiredState(loop.traceID))
  /\ loop' = [loop EXCEPT !.pc = "setLast"]
  /\ UNCHANGED <<noticeVars, dbVars, last, up, breaks, marking, rowVars,
                 memberVars, envVars>>

(* Mutant: the trace is read when the message is built.                    *)
SendLatestTrace ==
  /\ loop.pc = "send"
  /\ Changed \/ loop.force
  /\ Len(down) < QueueCap
  /\ down' = Append(down, DesiredState(traceID))
  /\ loop' = [loop EXCEPT !.pc = "setLast"]
  /\ UNCHANGED <<noticeVars, dbVars, last, up, breaks, marking, rowVars,
                 memberVars, envVars>>

Send ==
  /\ loop.pc = "send"
  /\ Changed \/ loop.force
  /\ Len(down) < QueueCap
  /\ down' = Append(down, DesiredState(loop.traceID))
  /\ loop' = [loop EXCEPT !.pc = "setLast"]
  /\ UNCHANGED <<noticeVars, dbVars, last, up, breaks, marking, rowVars,
                 memberVars, envVars>>

SetLast ==
  /\ loop.pc = "setLast"
  /\ last' = loop.res
  /\ loop' = [loop EXCEPT !.pc = "mark", !.todo = Dists]
  /\ UNCHANGED <<noticeVars, dbVars, streamVars, marking, rowVars, memberVars,
                 envVars>>

SkipSend ==
  /\ loop.pc = "send"
  /\ ~Changed /\ ~loop.force
  /\ loop' = [loop EXCEPT !.pc = "mark", !.todo = Dists]
  /\ UNCHANGED <<noticeVars, dbVars, last, streamVars, marking, rowVars,
                 memberVars, envVars>>

(* markPushed, one distribution after the other.                           *)
NextDist == CHOOSE d \in loop.todo : TRUE

MarkPushedRead ==
  /\ loop.pc = "mark"
  /\ loop.todo # {} /\ NextDist \in loop.res.matched
  /\ ReadRow("markPushed", NextDist)
  /\ UNCHANGED <<noticeVars, dbVars, loop, last, streamVars, marking,
                 memberVars, envVars>>

MarkPushedWrite ==
  /\ loop.pc = "mark"
  /\ loop.todo # {}
  /\ WriteRow("markPushed", NextDist,
              PushedRow(readRow["markPushed"], NextDist))
  /\ loop' = [loop EXCEPT !.todo = @ \ {NextDist}]
  /\ UNCHANGED <<noticeVars, dbVars, last, streamVars, marking, memberVars,
                 envVars>>

MarkPushedDelete ==
  /\ loop.pc = "mark"
  /\ loop.todo # {} /\ NextDist \notin loop.res.matched
  /\ rows' = [rows EXCEPT ![NextDist] = NoRow]
  /\ loop' = [loop EXCEPT !.todo = @ \ {NextDist}]
  /\ UNCHANGED <<noticeVars, dbVars, last, streamVars, marking, readRow,
                 memberVars, envVars>>

(* Mutant: the wait channel is captured after the work of the iteration.   *)
MarkPushedDoneRecaptures ==
  /\ loop.pc = "mark"
  /\ loop.todo = {}
  /\ fired' = FALSE
  /\ loop' = [loop EXCEPT !.force = FALSE, !.woke = FALSE, !.pc = "select"]
  /\ UNCHANGED <<pending, stashed, lost, traceID, dbVars, last, streamVars,
                 marking, rowVars, memberVars, envVars>>

MarkPushedDone ==
  /\ loop.pc = "mark"
  /\ loop.todo = {}
  /\ loop' = [loop EXCEPT !.force = FALSE, !.woke = FALSE, !.pc = "select"]
  /\ UNCHANGED <<noticeVars, dbVars, last, streamVars, marking, rowVars,
                 memberVars, envVars>>

WakeByNotify ==
  /\ loop.pc = "select"
  /\ fired
  /\ loop' = [loop EXCEPT !.woke = TRUE, !.pc = "capture"]
  /\ UNCHANGED <<noticeVars, dbVars, last, streamVars, marking, rowVars,
                 memberVars, envVars>>

(* Mutant: the ticker wakes the loop without forcing a send.               *)
WakeByTickerUnforced ==
  /\ loop.pc = "select"
  /\ loop' = [loop EXCEPT !.pc = "capture"]
  /\ UNCHANGED <<noticeVars, dbVars, last, streamVars, marking, rowVars,
                 memberVars, envVars>>

(* The ticker of pushResync: the next iteration sends in any case.         *)
WakeByTicker ==
  /\ loop.pc = "select"
  /\ loop' = [loop EXCEPT !.force = TRUE, !.pc = "capture"]
  /\ UNCHANGED <<noticeVars, dbVars, last, streamVars, marking, rowVars,
                 memberVars, envVars>>

(***************************************************************************)
(* The gateway's recv loop: StatusReport, of which the stale ones (hash    *)
(* other than the last one pushed) are ignored.                            *)
(***************************************************************************)
TakeReport ==
  /\ loop.pc # "off"
  /\ marking.todo = {}
  /\ up # <<>>
  /\ up' = Tail(up)
  /\ LET todo == IF Head(up).hash = last.hash
                   THEN last.matched \ last.errors ELSE {}
     IN  marking' = [report |-> IF todo = {} THEN NoReport ELSE Head(up),
                     todo |-> todo]
  /\ UNCHANGED <<noticeVars, dbVars, loop, last, down, breaks, rowVars,
                 memberVars, envVars>>

NextReported == CHOOSE d \in marking.todo : TRUE

MarkReportedRead ==
  /\ marking.todo # {}
  /\ ReadRow("markReported", NextReported)
  /\ UNCHANGED <<noticeVars, dbVars, loop, last, streamVars, marking,
                 memberVars, envVars>>

MarkReportedWrite ==
  /\ marking.todo # {}
  /\ WriteRow("markReported", NextReported, ReportedRow)
  /\ LET todo == marking.todo \ {NextReported}
     IN  marking' = [report |-> IF todo = {} THEN NoReport ELSE marking.report,
                     todo |-> todo]
  /\ UNCHANGED <<noticeVars, dbVars, loop, last, streamVars, memberVars,
                 envVars>>

(***************************************************************************)
(* The member (runOnce).  Policies and groups that exist without the       *)
(* managed label make an apply fail; that comes and goes.                  *)
(***************************************************************************)
Outcome == [hash |-> Head(down).hash, failed |-> conflict]

(* Mutant: lastApplied is set even if the apply failed.                    *)
ApplySetsAlways ==
  /\ down # <<>>
  /\ Len(up) < QueueCap
  /\ down' = Tail(down) /\ up' = Append(up, Outcome)
  /\ applied' = Head(down).hash
  /\ outcome' = IF conflict THEN "failed" ELSE "ok"
  /\ everApplied' = everApplied \cup IF conflict THEN {} ELSE {Head(down).hash}
  /\ UNCHANGED <<noticeVars, dbVars, loop, last, breaks, marking, rowVars,
                 envVars>>

Apply ==
  /\ down # <<>>
  /\ Len(up) < QueueCap
  /\ down' = Tail(down) /\ up' = Append(up, Outcome)
  /\ applied' = IF conflict THEN applied ELSE Head(down).hash
  /\ outcome' = IF conflict THEN "failed" ELSE "ok"
  /\ everApplied' = everApplied \cup IF conflict THEN {} ELSE {Head(down).hash}
  /\ UNCHANGED <<noticeVars, dbVars, loop, last, breaks, marking, rowVars,
                 envVars>>

(* Every fourth heartbeat: statusReport(getApplied(), "").  Before the     *)
(* first apply it carries no version, and markReported ignores it.         *)
PeriodicReport ==
  /\ applied # NoHash
  /\ Len(up) < QueueCap
  /\ up' = Append(up, [hash |-> applied, failed |-> FALSE])
  /\ UNCHANGED <<noticeVars, dbVars, loop, last, down, breaks, marking,
                 rowVars, memberVars, envVars>>

FlipConflict ==
  /\ flips < MaxFlips
  /\ flips' = flips + 1
  /\ conflict' = ~conflict
  /\ UNCHANGED <<noticeVars, dbVars, loop, last, streamVars, marking, rowVars,
                 memberVars>>

(***************************************************************************)
(* The stream breaks: both buffers are lost, the contexts of the gateway's *)
(* goroutines are done, and the member's runOnce returns.  A new stream    *)
(* starts with a fresh syncSession and a fresh lastApplied.                *)
(***************************************************************************)
Break ==
  /\ loop.pc # "off"
  /\ breaks < MaxBreaks
  /\ breaks' = breaks + 1
  /\ loop' = LoopAt("off") /\ last' = NoResult
  /\ down' = <<>> /\ up' = <<>>
  /\ marking' = [report |-> NoReport, todo |-> {}]
  /\ readRow' = [w \in Writers |-> Unread]
  /\ applied' = NoHash /\ outcome' = "none"
  /\ UNCHANGED <<noticeVars, dbVars, rows, everApplied, envVars>>

Reconnect ==
  /\ loop.pc = "off"
  /\ loop' = [loop EXCEPT !.pc = "capture"]
  /\ UNCHANGED <<noticeVars, dbVars, last, streamVars, marking, rowVars,
                 memberVars, envVars>>

-----------------------------------------------------------------------------
PushLoop ==
  \/ Capture \/ Peek \/ ReadTargets \/ ReadContent \/ Send \/ SetLast
  \/ SkipSend \/ MarkPushedRead \/ MarkPushedWrite \/ MarkPushedDelete
  \/ MarkPushedDone

RecvLoop == TakeReport \/ MarkReportedRead \/ MarkReportedWrite

Next ==
  \/ PushLoop \/ WakeByNotify \/ WakeByTicker \/ RenderError \/ RecvLoop
  \/ Apply \/ PeriodicReport
  \/ \E t \in Tables : Commit(t)
  \/ \E r \in Commits : StashTrace(r) \/ Notify(r) \/ LoseNotify(r)
  \/ FlipConflict \/ Break \/ Reconnect

Spec == Init /\ [][Next]_vars

(* The goroutines are scheduled, the resync ticker ticks, the client       *)
(* reconnects, and a report that waits for room in the stream gets its     *)
(* turn among the periodic ones.  Nothing is assumed of the console, of    *)
(* its notifications or of the periodic reports.                           *)
Fairness ==
  /\ WF_vars(PushLoop) /\ WF_vars(WakeByTicker) /\ WF_vars(RecvLoop)
  /\ SF_vars(Apply) /\ WF_vars(Reconnect)

FairSpec == Spec /\ Fairness

-----------------------------------------------------------------------------
(* The wait channel is captured before anything is read: a push loop that  *)
(* waits on an open channel has read every commit whose notification was   *)
(* delivered (comment in pushLoop, server.go).                             *)
NoLostWakeup ==
  (loop.pc = "select" /\ ~fired /\ loop.res # NoResult) =>
    \A r \in 1..changes :
      loop.readAt[wrote[r]] >= r \/ r \in pending \cup lost

(* A DesiredState that carries a trace id was rendered from tables that    *)
(* include the commit of that trace: the peek precedes the reads.          *)
TraceIsRendered ==
  [][\A r \in 1..changes :
       (Len(down') > Len(down) /\ down'[Len(down')].trace = r) =>
         loop.readAt[wrote[r]] >= r]_vars

(* A row says Synced at a hash only if the member has applied that hash,   *)
(* however markPushed and markReported interleave.                         *)
SyncedWasApplied ==
  \A d \in Dists : rows[d].status = "Synced" => rows[d].applied \in everApplied

(* The status rows converge: once nobody changes the tables, no apply      *)
(* fails and the stream is up, every row ends up, and stays, at what the   *)
(* last render and the member's last apply say, whatever updates were lost *)
(* on the way (comment of setClusterStatus, diststatus.go).                *)
Settled ==
  \A d \in Dists :
    rows[d] = IF d \notin targets THEN NoRow
              ELSE IF d \in BadRefs[content]
                THEN [rows[d] EXCEPT !.status = "Error", !.error = "render"]
              ELSE [status |-> "Synced", applied |-> HashOf[content][targets],
                    error |-> ""]

RowsConverge == <>[](~conflict) => <>[]Settled

(* gateway.proto: a StatusReport carries "the last apply outcome", and     *)
(* apply_error "non-empty = last apply failed".                            *)
ReportIsLastOutcome ==
  [][Len(up') > Len(up) =>
       (up'[Len(up')].failed <=> outcome' = "failed")]_vars
=============================================================================
