-------------------------- MODULE ClusterLifecycle --------------------------
(***************************************************************************)
(* The life of one cluster row: created Registering, registered by the     *)
(* member's operator, made Online and Offline by the status flusher, and   *)
(* uninstalled by a task that the gateway delivers and the member reports  *)
(* on.  Writers of the row: the console (service/cluster.go), Register and *)
(* the uninstall reports (gateway/server.go), the flusher                  *)
(* (gateway/heartbeats.go).  Each reads the row, or a list of rows, and    *)
(* writes it later; nothing locks the pair.                                *)
(*                                                                         *)
(* The stream carries tasks down and reports up, in order, and loses what  *)
(* is buffered when it breaks.                                             *)
(***************************************************************************)
EXTENDS Integers, Sequences, FiniteSets

CONSTANTS MaxRequests, \* bound: console requests in progress at a time
          Tasks,       \* ids of uninstall tasks
          MaxRetries,  \* bound: retries of failed tasks
          MaxBreaks,   \* bound: stream breaks and gateway restarts
          MaxFailures, \* bound: failed runs, failed calls, lost responses
          QueueCap     \* messages a direction of the stream buffers

ASSUME BoundsAreNat ==
  /\ MaxRequests \in Nat /\ MaxRetries \in Nat
  /\ MaxBreaks \in Nat /\ MaxFailures \in Nat
  /\ QueueCap \in Nat \ {0}

VARIABLES
  phase,    \* Cluster.Phase, or "deleted"
  regToken, \* whether a registration token is outstanding (RegTokenHash # "")
  tasks,    \* tasks[t]: status of the uninstall task, or "none"
  requests, \* requests[op]: console requests between their read and write
  register, \* the Register call between its read and its Save
  beat,     \* whether the cluster's HeartbeatInfo is recent (offlineAfter)
  flush,    \* the phase flushOnce has decided on, before UpdateHeartbeat
  report,   \* the recv loop between Transition and UpdatePhase
  open,     \* whether the Sync stream is up
  down,     \* tasks on their way to the member
  up,       \* reports on their way to the gateway
  member,   \* the operator: its place in the uninstall
  cred,     \* whether the member holds the credential of the row
  regSecret,\* whether the member's Secret holds the registration token
  ranOK,    \* history: an uninstall run has succeeded on the member
  retries, breaks, failures

rowVars    == <<phase, regToken, tasks>>
consoleVars== <<requests, retries>>
gateVars   == <<register, beat, flush, report>>
streamVars == <<open, down, up>>
memberVars == <<member, cred, regSecret, ranOK>>
boundVars  == <<breaks, failures>>
vars == <<rowVars, consoleVars, gateVars, streamVars, memberVars, boundVars>>

Phases   == {"Registering", "Online", "Offline", "Uninstalling", "Uninstalled",
             "deleted"}
Removing == {"Uninstalling", "Uninstalled"}
Statuses == {"none", "Pending", "Received", "Succeeded", "Failed"}
Active   == {t \in Tasks : tasks[t] \in {"Pending", "Received"}}
Outcomes == {"RECEIVED", "SUCCEEDED", "FAILED"}
Reports  == [task : Tasks, state : Outcomes]
Ops      == {"delete", "reissue", "uninstall"}
Idle     == "idle"
NoTask   == "none"
Running  == [at |-> "running", task |-> NoTask]
Gone     == [at |-> "gone", task |-> NoTask]

(* Type invariant: the row, the tasks, the half-done calls and the         *)
(* messages stay within their types and the buffers within their capacity. *)
TypeOK ==
  /\ phase \in Phases /\ regToken \in BOOLEAN
  /\ tasks \in [Tasks -> Statuses]
  /\ requests \in [Ops -> 0..MaxRequests]
  /\ register \in Phases \cup {Idle}
  /\ beat \in BOOLEAN /\ flush \in {Idle, "Online", "Offline"}
  /\ report \in {Idle, "Uninstalled", "Online"}
  /\ open \in BOOLEAN
  /\ down \in Seq(Tasks) /\ up \in Seq(Reports)
  /\ Len(down) <= QueueCap /\ Len(up) <= QueueCap
  /\ \/ member \in {Running, Gone}
     \/ member \in [at : {"received", "failed", "succeeded", "finalize"},
                    task : Tasks]
  /\ cred \in BOOLEAN /\ regSecret \in BOOLEAN /\ ranOK \in BOOLEAN
  /\ retries \in 0..MaxRetries /\ breaks \in 0..MaxBreaks
  /\ failures \in 0..MaxFailures

(* ClusterService.Create has made the row and its registration token.      *)
Init ==
  /\ phase = "Registering" /\ regToken = TRUE
  /\ tasks = [t \in Tasks |-> "none"]
  /\ requests = [op \in Ops |-> 0] /\ register = Idle
  /\ beat = FALSE /\ flush = Idle /\ report = Idle
  /\ open = FALSE /\ down = <<>> /\ up = <<>>
  /\ member = Running /\ cred = FALSE /\ regSecret = TRUE /\ ranOK = FALSE
  /\ retries = 0 /\ breaks = 0 /\ failures = 0

(***************************************************************************)
(* The console.                                                            *)
(***************************************************************************)
(* The read of a request, and the phase it insists on.                     *)
Admits(op, p) ==
  CASE op = "delete"    -> p \notin {"Online", "Uninstalling", "deleted"}
    [] op = "reissue"   -> p = "Registering"
    [] op = "uninstall" -> p = "Online"

ConsoleRead(op) ==
  /\ requests["delete"] + requests["reissue"] + requests["uninstall"]
       < MaxRequests
  /\ Admits(op, phase)
  /\ requests' = [requests EXCEPT ![op] = @ + 1]
  /\ UNCHANGED <<rowVars, retries, gateVars, streamVars, memberVars,
                 boundVars>>

Write(op) ==
  /\ requests[op] > 0
  /\ requests' = [requests EXCEPT ![op] = @ - 1]

Delete ==
  /\ Write("delete")
  /\ phase' = "deleted"
  /\ UNCHANGED <<regToken, tasks, retries, gateVars, streamVars, memberVars,
                 boundVars>>

(* UpdateRegToken writes its one column, if the row is still there.        *)
ReissueToken ==
  /\ Write("reissue")
  /\ regToken' = (regToken \/ phase # "deleted")
  /\ UNCHANGED <<phase, tasks, retries, gateVars, streamVars, memberVars,
                 boundVars>>

(* UpdatePhase names the row by its id: no effect on a deleted one.        *)
WithPhase(p) == IF phase = "deleted" THEN phase ELSE p

(* Mutant: nothing but the earlier check keeps a second task out.          *)
CreateUninstallUnindexed ==
  /\ Write("uninstall")
  /\ \E t \in Tasks :
       /\ tasks[t] = "none"
       /\ tasks' = [tasks EXCEPT ![t] = "Pending"]
       /\ phase' = WithPhase("Uninstalling")
  /\ UNCHANGED <<regToken, retries, gateVars, streamVars, memberVars,
                 boundVars>>

(* The transaction of CreateUninstall.  HasActive, checked before it, is   *)
(* subsumed by the unique index on active tasks, which makes the insert    *)
(* fail.                                                                   *)
CreateUninstall ==
  /\ Write("uninstall")
  /\ \/ /\ Active = {}
        /\ \E t \in Tasks :
             /\ tasks[t] = "none"
             /\ tasks' = [tasks EXCEPT ![t] = "Pending"]
             /\ phase' = WithPhase("Uninstalling")
     \/ /\ Active # {} \/ \A t \in Tasks : tasks[t] # "none"
        /\ UNCHANGED <<tasks, phase>>
  /\ UNCHANGED <<regToken, retries, gateVars, streamVars, memberVars,
                 boundVars>>

(* RetryUninstall: one transaction, again under the index; the phase of    *)
(* the cluster is not looked at.                                           *)
RetryUninstall(t) ==
  /\ retries < MaxRetries
  /\ phase # "deleted"
  /\ tasks[t] = "Failed" /\ Active = {}
  /\ tasks' = [tasks EXCEPT ![t] = "Pending"]
  /\ phase' = "Uninstalling"
  /\ retries' = retries + 1
  /\ UNCHANGED <<regToken, requests, gateVars, streamVars, memberVars,
                 boundVars>>

(***************************************************************************)
(* Registration: Register reads the row and saves all of it.               *)
(***************************************************************************)
RegisterRead ==
  /\ register = Idle
  /\ member = Running /\ ~open /\ ~cred /\ regSecret
  /\ regToken
  /\ phase \notin Removing \cup {"deleted"}
  /\ register' = phase
  /\ UNCHANGED <<rowVars, consoleVars, beat, flush, report, streamVars,
                 memberVars, boundVars>>

(* Save writes every column as it was read, also into a row deleted in the *)
(* meantime.  The answer may not reach the member, or it may crash before  *)
(* the Secret is written.                                                  *)
RegisterSave ==
  /\ register # Idle
  /\ phase' = register
  /\ regToken' = FALSE
  /\ register' = Idle
  /\ \/ cred' = TRUE /\ UNCHANGED failures
     \/ /\ failures < MaxFailures /\ failures' = failures + 1
        /\ UNCHANGED cred
  /\ UNCHANGED <<tasks, consoleVars, beat, flush, report, streamVars, member,
                 regSecret, ranOK, breaks>>

(***************************************************************************)
(* Heartbeats: MarkAlive, the passing of offlineAfter, and flushOnce.      *)
(***************************************************************************)
MarkAlive ==
  /\ open
  /\ beat' = TRUE
  /\ UNCHANGED <<rowVars, consoleVars, register, flush, report, streamVars,
                 memberVars, boundVars>>

BeatAges ==
  /\ beat /\ beat' = FALSE
  /\ UNCHANGED <<rowVars, consoleVars, register, flush, report, streamVars,
                 memberVars, boundVars>>

(* List and Snapshot, and the decision taken on what they returned.        *)
FlushRead ==
  /\ flush = Idle
  /\ phase \notin Removing \cup {"deleted"}
  /\ \/ beat /\ flush' = "Online"
     \/ ~beat /\ phase = "Online" /\ flush' = "Offline"
  /\ UNCHANGED <<rowVars, consoleVars, register, beat, report, streamVars,
                 memberVars, boundVars>>

(* UpdateHeartbeat, by id, whatever the phase has become.                  *)
FlushWrite ==
  /\ flush # Idle
  /\ flush' = Idle
  /\ \/ phase' = WithPhase(flush) /\ UNCHANGED failures
     \/ /\ failures < MaxFailures /\ failures' = failures + 1
        /\ UNCHANGED phase
  /\ UNCHANGED <<regToken, tasks, consoleVars, register, beat, report,
                 streamVars, memberVars, breaks>>

(***************************************************************************)
(* The stream.  validateSyncAuth looks at the credential only, not at the  *)
(* phase; a rejection makes the member drop its credential.                *)
(***************************************************************************)
Connect ==
  /\ ~open /\ member = Running /\ cred
  /\ IF phase # "deleted"
       THEN open' = TRUE /\ UNCHANGED cred
       ELSE cred' = FALSE /\ UNCHANGED open
  /\ UNCHANGED <<rowVars, consoleVars, gateVars, down, up, member, regSecret,
                 ranOK, boundVars>>

(* Mutant: only tasks the member has not acknowledged are pushed.          *)
PushPendingOnly ==
  /\ open /\ phase # "deleted"
  /\ Len(down) < QueueCap
  /\ \E t \in Active : tasks[t] = "Pending" /\ down' = Append(down, t)
  /\ UNCHANGED <<rowVars, consoleVars, gateVars, open, up, memberVars,
                 boundVars>>

(* The push loop: on a change and on every resync tick, DesiredState       *)
(* carries the active task.                                                *)
PushTasks ==
  /\ open /\ phase # "deleted"
  /\ Len(down) < QueueCap
  /\ \E t \in Active : down' = Append(down, t)
  /\ UNCHANGED <<rowVars, consoleVars, gateVars, open, up, memberVars,
                 boundVars>>

Disconnect ==
  open' = FALSE /\ down' = <<>> /\ up' = <<>> /\ report' = Idle

(* The connection fails: what is buffered is lost, and the recv loop's     *)
(* context is done.  An uninstall the member is running goes on.           *)
Break ==
  /\ open /\ breaks < MaxBreaks
  /\ breaks' = breaks + 1
  /\ Disconnect
  /\ UNCHANGED <<rowVars, consoleVars, register, beat, flush, memberVars,
                 failures>>

(* The gateway restarts: everything it holds in memory is gone.            *)
Restart ==
  /\ breaks < MaxBreaks
  /\ breaks' = breaks + 1
  /\ register' = Idle /\ beat' = FALSE /\ flush' = Idle
  /\ Disconnect
  /\ UNCHANGED <<rowVars, consoleVars, memberVars, failures>>

(***************************************************************************)
(* The member's uninstall: report RECEIVED, Run, report the outcome and,   *)
(* on success, Finalize.                                                   *)
(***************************************************************************)
Take ==
  /\ open /\ member = Running
  /\ down # <<>> /\ Len(up) < QueueCap
  /\ down' = Tail(down)
  /\ up' = Append(up, [task |-> Head(down), state |-> "RECEIVED"])
  /\ member' = [at |-> "received", task |-> Head(down)]
  /\ UNCHANGED <<rowVars, consoleVars, gateVars, open, cred, regSecret, ranOK,
                 boundVars>>

(* Run goes through all its deletions, the registration token's Secret     *)
(* among them, and fails if one of them did.                               *)
Run ==
  /\ member.at = "received"
  /\ \/ /\ member' = [member EXCEPT !.at = "succeeded"]
        /\ ranOK' = TRUE /\ regSecret' = FALSE
        /\ UNCHANGED failures
     \/ /\ failures < MaxFailures /\ failures' = failures + 1
        /\ member' = [member EXCEPT !.at = "failed"]
        /\ regSecret' \in {regSecret, FALSE}
        /\ UNCHANGED ranOK
  /\ UNCHANGED <<rowVars, consoleVars, gateVars, streamVars, cred, breaks>>

(* A send that fails ends runOnce; otherwise the report is on its way,     *)
(* which is all the member knows when it goes on to Finalize.              *)
SendOutcome ==
  /\ member.at \in {"succeeded", "failed"}
  /\ \/ /\ ~open
        /\ member' = Running
        /\ UNCHANGED up
     \/ /\ open /\ Len(up) < QueueCap
        /\ IF member.at = "succeeded"
             THEN /\ up' = Append(up, [task |-> member.task,
                                       state |-> "SUCCEEDED"])
                  /\ member' = [member EXCEPT !.at = "finalize"]
             ELSE /\ up' = Append(up, [task |-> member.task,
                                       state |-> "FAILED"])
                  /\ member' = Running
  /\ UNCHANGED <<rowVars, consoleVars, gateVars, open, down, cred, regSecret,
                 ranOK, boundVars>>

(* Finalize deletes the credential, then the operator.  Either deletion    *)
(* may fail: an operator that is still there ends its session and tries to *)
(* connect again, with what is left of the credential.  The process that   *)
(* is removed drops its connection a little later.                         *)
Finalize ==
  /\ member.at = "finalize"
  /\ \/ /\ member' = Gone /\ cred' = FALSE
        /\ UNCHANGED <<failures, streamVars, report>>
     \/ /\ failures < MaxFailures /\ failures' = failures + 1
        /\ \/ /\ member' = Running /\ cred' \in {cred, FALSE}
              /\ Disconnect
           \/ /\ member' = Gone /\ UNCHANGED <<cred, streamVars, report>>
  /\ UNCHANGED <<rowVars, consoleVars, register, beat, flush, regSecret,
                 ranOK, breaks>>

CloseGone ==
  /\ member = Gone /\ open
  /\ Disconnect
  /\ UNCHANGED <<rowVars, consoleVars, register, beat, flush, memberVars,
                 boundVars>>

(***************************************************************************)
(* handleUninstallTaskReport: a compare-and-set of the task, then, as a    *)
(* second write, the phase.                                                *)
(***************************************************************************)
Expected(state) == IF state = "RECEIVED" THEN "Pending" ELSE "Received"
NextStatus(state) == CASE state = "RECEIVED"  -> "Received"
                       [] state = "SUCCEEDED" -> "Succeeded"
                       [] state = "FAILED"    -> "Failed"

(* Mutant: the phases of the two outcomes are swapped.                     *)
PhaseAfterSwapped(state) == CASE state = "RECEIVED"  -> Idle
                              [] state = "SUCCEEDED" -> "Online"
                              [] state = "FAILED"    -> "Uninstalled"

(* Mutant: the task's status is written as the phase of the cluster.       *)
PhaseAfterStatus(state) == NextStatus(state)

PhaseAfter(state) == CASE state = "RECEIVED"  -> Idle
                       [] state = "SUCCEEDED" -> "Uninstalled"
                       [] state = "FAILED"    -> "Online"

(* Mutant: the transition does not look at the task's status.              *)
TransitionUnchecked(r) ==
  /\ tasks' = [tasks EXCEPT ![r.task] = NextStatus(r.state)]
  /\ report' = PhaseAfter(r.state)

Transition(r) ==
  \/ /\ tasks[r.task] = Expected(r.state)
     /\ tasks' = [tasks EXCEPT ![r.task] = NextStatus(r.state)]
     /\ report' = PhaseAfter(r.state)
  \/ /\ tasks[r.task] # Expected(r.state)
     /\ UNCHANGED <<tasks, report>>

HandleReport ==
  /\ open /\ report = Idle
  /\ up # <<>>
  /\ up' = Tail(up)
  /\ \/ /\ phase # "deleted"
        /\ Transition(Head(up))
        /\ UNCHANGED failures
     \/ /\ phase = "deleted"
        /\ UNCHANGED <<tasks, report, failures>>
     \/ /\ failures < MaxFailures /\ failures' = failures + 1
        /\ UNCHANGED <<tasks, report>>
  /\ UNCHANGED <<phase, regToken, consoleVars, register, beat, flush, open,
                 down, memberVars, breaks>>

ReportPhase ==
  /\ report # Idle
  /\ report' = Idle
  /\ \/ phase' = WithPhase(report) /\ UNCHANGED failures
     \/ /\ failures < MaxFailures /\ failures' = failures + 1
        /\ UNCHANGED phase
  /\ UNCHANGED <<regToken, tasks, consoleVars, register, beat, flush,
                 streamVars, memberVars, breaks>>

-----------------------------------------------------------------------------
Console ==
  \/ \E op \in Ops : ConsoleRead(op)
  \/ Delete \/ ReissueToken \/ CreateUninstall
  \/ \E t \in Tasks : RetryUninstall(t)

RecvLoop == HandleReport \/ ReportPhase

Operator ==
  Connect \/ Take \/ Run \/ SendOutcome \/ Finalize

Flusher == FlushRead \/ FlushWrite

Next ==
  \/ Console \/ RegisterRead \/ RegisterSave \/ MarkAlive \/ BeatAges
  \/ Flusher \/ PushTasks \/ Break \/ Restart \/ Operator \/ CloseGone
  \/ RecvLoop

Spec == Init /\ [][Next]_vars

(* The operator and the gateway's goroutines are scheduled, and the push   *)
(* loop resends on its ticker.  Nothing is assumed of the console, of the  *)
(* flusher or of the heartbeats.                                           *)
Fairness == WF_vars(Operator) /\ WF_vars(PushTasks) /\ WF_vars(RecvLoop)

FairSpec == Spec /\ Fairness

-----------------------------------------------------------------------------
(* However many console requests race, at most one uninstall task of the   *)
(* cluster is active: CreateUninstall's check and RetryUninstall's write   *)
(* are not atomic with each other, only the unique index is.               *)
OneActiveTask == Cardinality(Active) <= 1

StatusMoves == {<<"none", "Pending">>, <<"Pending", "Received">>,
                <<"Received", "Succeeded">>, <<"Received", "Failed">>,
                <<"Failed", "Pending">>}

TaskMoves ==
  \A t \in Tasks :
    tasks'[t] # tasks[t] => <<tasks[t], tasks'[t]>> \in StatusMoves

(* A task's status only moves along Pending, Received, Succeeded or        *)
(* Failed, and back to Pending by a retry, although reports are repeated   *)
(* after resends and reconnects (Transition's expected status).            *)
TaskOrder == [][TaskMoves]_vars

(* A cluster shown as Uninstalled has really been uninstalled: a run       *)
(* succeeded on the member, whatever reports were lost, repeated or        *)
(* overtaken by a retry.                                                   *)
UninstalledIsTrue == phase = "Uninstalled" => ranOK

(* An active task does not stay active for ever: it is delivered again     *)
(* after every lost message until an outcome is recorded, unless the       *)
(* cluster was deleted or the member has removed itself, be it only the    *)
(* credential.                                                             *)
ActiveTaskEnds ==
  Active # {} ~>
    Active = {} \/ phase = "deleted" \/ member = Gone \/ ~cred

(* flushOnce: "A delayed heartbeat must never resurrect a cluster after it *)
(* has started or completed its self-removal."                             *)
NeverResurrected ==
  [][(flush # Idle /\ flush' = Idle /\ phase \in Removing)
       => phase' = phase]_vars

(* Runner.Finalize "removes the last operator-side resources after         *)
(* completion has been acknowledged by the hub".                           *)
FinalizedAfterAck ==
  [][(member # Gone /\ member' = Gone)
       => \E t \in Tasks : tasks[t] = "Succeeded"]_vars
=============================================================================
