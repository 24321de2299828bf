----------------------- MODULE ClusterLifecycleProofs -----------------------
(***************************************************************************)
(* Type correctness, the uniqueness of the active uninstall task, the      *)
(* order of task statuses and the truth of Uninstalled, for any number of  *)
(* tasks and any bounds.                                                   *)
(***************************************************************************)
EXTENDS ClusterLifecycle, FiniteSetTheorems, TLAPS

USE DEF rowVars, consoleVars, gateVars, streamVars, memberVars, boundVars

(* The console's actions, which touch only the row and their own requests. *)
LEMMA ConsoleTypes ==
  ASSUME TypeOK, Console
  PROVE  TypeOK'
<1> USE BoundsAreNat
<1>1. CASE \E op \in Ops : ConsoleRead(op)
  <2>1. PICK op \in Ops : ConsoleRead(op) BY <1>1
  <2>2. requests[op] + 1 \in 0..MaxRequests
    BY <2>1 DEF TypeOK, ConsoleRead, Ops
  <2>3. requests' \in [Ops -> 0..MaxRequests]
    BY <2>1, <2>2 DEF TypeOK, ConsoleRead
  <2> QED BY <2>1, <2>3 DEF TypeOK, ConsoleRead
<1>2. ASSUME NEW op \in Ops, Write(op)
      PROVE  requests' \in [Ops -> 0..MaxRequests]
  <2>1. requests[op] - 1 \in 0..MaxRequests BY <1>2 DEF TypeOK, Write
  <2> QED BY <1>2, <2>1 DEF TypeOK, Write
<1>3. CASE Delete
  BY <1>2, <1>3 DEF TypeOK, Delete, Phases, Ops
<1>4. CASE ReissueToken
  BY <1>2, <1>4 DEF TypeOK, ReissueToken, Ops
<1>5. CASE CreateUninstall
  <2>1. phase' \in Phases /\ tasks' \in [Tasks -> Statuses]
    BY <1>5 DEF TypeOK, CreateUninstall, WithPhase, Phases, Statuses
  <2> QED BY <1>2, <1>5, <2>1 DEF TypeOK, CreateUninstall, Ops
<1>6. CASE \E t \in Tasks : RetryUninstall(t)
  <2>1. PICK t \in Tasks : RetryUninstall(t) BY <1>6
  <2>2. phase' \in Phases /\ tasks' \in [Tasks -> Statuses]
    BY <2>1 DEF TypeOK, RetryUninstall, Phases, Statuses
  <2>3. retries' \in 0..MaxRetries BY <2>1 DEF TypeOK, RetryUninstall
  <2> QED BY <2>1, <2>2, <2>3 DEF TypeOK, RetryUninstall
<1> QED BY <1>1, <1>3, <1>4, <1>5, <1>6 DEF Console

(* Registration, heartbeats and the flusher.                               *)
LEMMA RowWriterTypes ==
  ASSUME TypeOK,
         RegisterRead \/ RegisterSave \/ MarkAlive \/ BeatAges \/ Flusher
  PROVE  TypeOK'
<1> USE BoundsAreNat
<1>1. CASE RegisterRead BY <1>1 DEF TypeOK, RegisterRead
<1>2. CASE RegisterSave
  <2>1. phase' \in Phases /\ failures' \in 0..MaxFailures
    BY <1>2 DEF TypeOK, RegisterSave
  <2> QED BY <1>2, <2>1, ZenonT(60) DEF TypeOK, RegisterSave
<1>3. CASE MarkAlive BY <1>3 DEF TypeOK, MarkAlive
<1>4. CASE BeatAges BY <1>4, ZenonT(60) DEF TypeOK, BeatAges
<1>5. CASE FlushRead BY <1>5 DEF TypeOK, FlushRead
<1>6. CASE FlushWrite
  <2>1. phase' \in Phases /\ failures' \in 0..MaxFailures
    BY <1>6 DEF TypeOK, FlushWrite, WithPhase, Phases
  <2> QED BY <1>6, <2>1 DEF TypeOK, FlushWrite
<1> QED BY <1>1, <1>2, <1>3, <1>4, <1>5, <1>6 DEF Flusher

(* Losing the stream leaves empty buffers and no half-done report.         *)
LEMMA DisconnectTypes ==
  ASSUME Disconnect
  PROVE  /\ open' \in BOOLEAN
         /\ down' \in Seq(Tasks) /\ up' \in Seq(Reports)
         /\ Len(down') <= QueueCap /\ Len(up') <= QueueCap
         /\ report' = Idle
<1>1. open' = FALSE /\ down' = <<>> /\ up' = <<>> /\ report' = Idle
  BY DEF Disconnect
<1>2. <<>> \in Seq(Tasks) /\ <<>> \in Seq(Reports) /\ Len(<<>>) <= QueueCap
  BY BoundsAreNat
<1> QED BY <1>1, <1>2

(* What a buffer with room may be appended with.                           *)
LEMMA AppendFits ==
  ASSUME NEW S, NEW q \in Seq(S), NEW e \in S, Len(q) < QueueCap
  PROVE  Append(q, e) \in Seq(S) /\ Len(Append(q, e)) <= QueueCap
BY BoundsAreNat

LEMMA TailFits ==
  ASSUME NEW S, NEW q \in Seq(S), q # <<>>, Len(q) <= QueueCap
  PROVE  Tail(q) \in Seq(S) /\ Len(Tail(q)) <= QueueCap /\ Head(q) \in S
BY BoundsAreNat

(* The stream, the gateway's restart and the member.                       *)
LEMMA StreamTypes ==
  ASSUME TypeOK,
         PushTasks \/ Break \/ Restart \/ Operator \/ CloseGone
  PROVE  TypeOK'
<1> USE BoundsAreNat
<1>1. CASE PushTasks
  <2>1. down' \in Seq(Tasks) /\ Len(down') <= QueueCap
    BY <1>1, AppendFits DEF TypeOK, PushTasks, Active
  <2> QED BY <1>1, <2>1 DEF TypeOK, PushTasks
<1>2. CASE Break
  BY <1>2, DisconnectTypes DEF TypeOK, Break
<1>3. CASE Restart
  <2>1. /\ open' \in BOOLEAN
        /\ down' \in Seq(Tasks) /\ up' \in Seq(Reports)
        /\ Len(down') <= QueueCap /\ Len(up') <= QueueCap
        /\ report' = Idle
    BY <1>3, DisconnectTypes DEF Restart
  <2>2. breaks' \in 0..MaxBreaks BY <1>3 DEF TypeOK, Restart
  <2> QED BY <1>3, <2>1, <2>2 DEF TypeOK, Restart
<1>4. CASE Connect BY <1>4 DEF TypeOK, Connect
<1>5. CASE Take
  <2>1. Head(down) \in Tasks /\ down' \in Seq(Tasks) /\ Len(down') <= QueueCap
    BY <1>5, TailFits DEF TypeOK, Take
  <2>2. [task |-> Head(down), state |-> "RECEIVED"] \in Reports
    BY <2>1 DEF Reports, Outcomes
  <2>3. up' \in Seq(Reports) /\ Len(up') <= QueueCap
    BY <1>5, <2>2, AppendFits DEF TypeOK, Take
  <2>4. member' \in [at : {"received", "failed", "succeeded", "finalize"},
                     task : Tasks]
    BY <1>5, <2>1 DEF Take
  <2> QED BY <1>5, <2>1, <2>3, <2>4 DEF TypeOK, Take
<1>6. CASE Run
  <2>1. member \in [at : {"received", "failed", "succeeded", "finalize"},
                    task : Tasks]
    BY <1>6 DEF TypeOK, Run, Running, Gone
  <2>2. member' \in [at : {"received", "failed", "succeeded", "finalize"},
                     task : Tasks]
    BY <1>6, <2>1 DEF Run
  <2>3. failures' \in 0..MaxFailures
    <3>1. failures' = failures
          \/ (failures < MaxFailures /\ failures' = failures + 1)
      BY <1>6 DEF Run
    <3> QED BY <3>1 DEF TypeOK
  <2>4. regSecret' \in BOOLEAN BY <1>6, Zenon DEF TypeOK, Run
  <2>5. ranOK' \in BOOLEAN BY <1>6, Zenon DEF TypeOK, Run
  <2> QED BY <1>6, <2>2, <2>3, <2>4, <2>5 DEF TypeOK, Run
<1>7. CASE SendOutcome
  <2>1. member \in [at : {"received", "failed", "succeeded", "finalize"},
                    task : Tasks]
    BY <1>7 DEF TypeOK, SendOutcome, Running, Gone
  <2>2. [task |-> member.task, state |-> "SUCCEEDED"] \in Reports
        /\ [task |-> member.task, state |-> "FAILED"] \in Reports
    BY <2>1 DEF Reports, Outcomes
  <2>3. up' \in Seq(Reports) /\ Len(up') <= QueueCap
    <3>1. \/ up' = up
          \/ \E e \in Reports : Len(up) < QueueCap /\ up' = Append(up, e)
      BY <1>7, <2>2 DEF SendOutcome
    <3>2. CASE up' = up BY <3>2 DEF TypeOK
    <3>3. ASSUME NEW e \in Reports, Len(up) < QueueCap, up' = Append(up, e)
          PROVE  up' \in Seq(Reports) /\ Len(up') <= QueueCap
      BY <3>3, AppendFits DEF TypeOK
    <3> QED BY <3>1, <3>2, <3>3
  <2>4. member' = Running
        \/ member' \in [at : {"received", "failed", "succeeded", "finalize"},
                        task : Tasks]
    BY <1>7, <2>1 DEF SendOutcome
  <2> QED BY <1>7, <2>3, <2>4 DEF TypeOK, SendOutcome
<1>8. CASE Finalize
  <2>1. /\ member' \in {Running, Gone}
        /\ cred' \in {cred, FALSE}
        /\ failures' \in {failures, failures + 1}
        /\ failures' = failures \/ failures < MaxFailures
    BY <1>8 DEF Finalize
  <2>4. cred' \in BOOLEAN BY <2>1, Zenon DEF TypeOK
  <2>5. failures' \in 0..MaxFailures BY <2>1 DEF TypeOK
  <2>2. \/ Disconnect
        \/ UNCHANGED <<streamVars, report>>
    BY <1>8 DEF Finalize
  <2>3. /\ open' \in BOOLEAN
        /\ down' \in Seq(Tasks) /\ up' \in Seq(Reports)
        /\ Len(down') <= QueueCap /\ Len(up') <= QueueCap
        /\ report' \in {Idle, "Uninstalled", "Online"}
    BY <2>2, DisconnectTypes DEF TypeOK
  <2> QED BY <1>8, <2>1, <2>3, <2>4, <2>5 DEF TypeOK, Finalize
<1>9. CASE CloseGone
  BY <1>9, DisconnectTypes DEF TypeOK, CloseGone
<1> QED BY <1>1, <1>2, <1>3, <1>4, <1>5, <1>6, <1>7, <1>8, <1>9 DEF Operator

(* The recv loop: the first report of the buffer, and its two writes.      *)
LEMMA RecvTypes ==
  ASSUME TypeOK, RecvLoop
  PROVE  TypeOK'
<1> USE BoundsAreNat
<1>1. CASE HandleReport
  <2>1. Head(up) \in Reports /\ up' \in Seq(Reports) /\ Len(up') <= QueueCap
    BY <1>1, TailFits DEF TypeOK, HandleReport
  <2>2. NextStatus(Head(up).state) \in Statuses
        /\ PhaseAfter(Head(up).state) \in {Idle, "Uninstalled", "Online"}
    BY <2>1 DEF Reports, Outcomes, NextStatus, PhaseAfter, Statuses
  <2>3. tasks' \in [Tasks -> Statuses]
        /\ report' \in {Idle, "Uninstalled", "Online"}
    BY <1>1, <2>1, <2>2 DEF TypeOK, HandleReport, Transition
  <2>4. failures' \in 0..MaxFailures BY <1>1 DEF TypeOK, HandleReport
  <2> QED BY <1>1, <2>1, <2>3, <2>4 DEF TypeOK, HandleReport
<1>2. CASE ReportPhase
  <2>1. phase' \in Phases /\ failures' \in 0..MaxFailures
    BY <1>2 DEF TypeOK, ReportPhase, WithPhase, Phases
  <2> QED BY <1>2, <2>1 DEF TypeOK, ReportPhase
<1> QED BY <1>1, <1>2 DEF RecvLoop

(* TypeOK holds in every reachable state: no interleaving of the console,  *)
(* Register, the flusher, the stream and the member overruns a buffer or   *)
(* writes a phase or a status that does not exist.                         *)
THEOREM TypeCorrect == Spec => []TypeOK
<1>1. Init => TypeOK
  <2> SUFFICES ASSUME Init PROVE TypeOK OBVIOUS
  <2>1. /\ phase \in Phases /\ tasks \in [Tasks -> Statuses]
        /\ requests \in [Ops -> 0..MaxRequests]
    BY BoundsAreNat DEF Init, Phases, Statuses
  <2>2. /\ down \in Seq(Tasks) /\ up \in Seq(Reports)
        /\ Len(down) <= QueueCap /\ Len(up) <= QueueCap
    <3>1. down = <<>> /\ up = <<>> BY DEF Init
    <3> QED BY <3>1, BoundsAreNat
  <2>3. retries \in 0..MaxRetries /\ breaks \in 0..MaxBreaks
        /\ failures \in 0..MaxFailures
    BY BoundsAreNat DEF Init
  <2> QED BY <2>1, <2>2, <2>3 DEF Init, TypeOK
<1>2. TypeOK /\ [Next]_vars => TypeOK'
  <2> SUFFICES ASSUME TypeOK, [Next]_vars PROVE TypeOK' OBVIOUS
  <2>1. CASE Next
    BY <2>1, ConsoleTypes, RowWriterTypes, StreamTypes, RecvTypes DEF Next
  <2>2. CASE UNCHANGED vars BY <2>2 DEF vars, TypeOK
  <2> QED BY <2>1, <2>2
<1> QED BY <1>1, <1>2, PTL DEF Spec

-----------------------------------------------------------------------------
(* At most one active task, without counting.                              *)
OnlyActive == \A t, u \in Active : t = u

(* The statuses of tasks change in four actions only; in each of them the  *)
(* step is one of the status diagram, and a task that becomes active does  *)
(* so when no other is.                                                    *)
StatusStep ==
  \/ tasks' = tasks
  \/ \E t \in Tasks, s \in Statuses :
       /\ tasks' = [tasks EXCEPT ![t] = s]
       /\ <<tasks[t], s>> \in StatusMoves
       /\ s = "Pending" => Active = {}

LEMMA EveryStatusStep ==
  ASSUME TypeOK, [Next]_vars
  PROVE  StatusStep
<1>1. CASE CreateUninstall
  BY <1>1 DEF CreateUninstall, StatusStep, Statuses, StatusMoves
<1>2. CASE \E t \in Tasks : RetryUninstall(t)
  BY <1>2 DEF RetryUninstall, StatusStep, Statuses, StatusMoves
<1>3. CASE HandleReport
  <2>1. Head(up) \in Reports BY <1>3, TailFits DEF TypeOK, HandleReport
  <2>2. tasks' = tasks \/ Transition(Head(up)) BY <1>3 DEF HandleReport
  <2>3. ASSUME NEW r \in Reports, Transition(r) PROVE StatusStep
    <3>1. r.task \in Tasks /\ r.state \in Outcomes BY DEF Reports
    <3>2. CASE tasks' = tasks BY <3>2 DEF StatusStep
    <3>3. CASE /\ tasks[r.task] = Expected(r.state)
               /\ tasks' = [tasks EXCEPT ![r.task] = NextStatus(r.state)]
      <4>1. /\ NextStatus(r.state) \in Statuses
            /\ NextStatus(r.state) # "Pending"
            /\ <<Expected(r.state), NextStatus(r.state)>> \in
                 {<<"Pending", "Received">>, <<"Received", "Succeeded">>,
                  <<"Received", "Failed">>}
        BY <3>1 DEF Outcomes, NextStatus, Expected, Statuses
      <4> QED BY <3>1, <3>3, <4>1 DEF StatusStep, StatusMoves
    <3> QED BY <2>3, <3>2, <3>3 DEF Transition
  <2> QED BY <2>1, <2>2, <2>3 DEF StatusStep
<1>4. ASSUME ~ CreateUninstall, ~ HandleReport,
             ~ \E t \in Tasks : RetryUninstall(t)
      PROVE  tasks' = tasks
  BY <1>4, Zenon DEF Next, Console, ConsoleRead, Delete, ReissueToken,
     RegisterRead, RegisterSave, MarkAlive, BeatAges, Flusher, FlushRead,
     FlushWrite, PushTasks, Break, Restart, Operator, Connect, Take, Run,
     SendOutcome, Finalize, CloseGone, RecvLoop, ReportPhase, vars
<1> QED BY <1>1, <1>2, <1>3, <1>4 DEF StatusStep

LEMMA OnlyActiveStep ==
  ASSUME TypeOK, OnlyActive, StatusStep
  PROVE  OnlyActive'
<1>1. CASE tasks' = tasks BY <1>1 DEF OnlyActive, Active
<1>2. ASSUME NEW t \in Tasks, NEW s \in Statuses,
             tasks' = [tasks EXCEPT ![t] = s],
             s = "Pending" => Active = {},
             s = "Received" => tasks[t] = "Pending"
      PROVE  OnlyActive'
  <2>1. \A u \in Tasks : tasks'[u] = IF u = t THEN s ELSE tasks[u]
    BY <1>2 DEF TypeOK
  <2> QED BY <1>2, <2>1 DEF OnlyActive, Active
<1> QED BY <1>1, <1>2 DEF StatusStep, StatusMoves

(* However console requests race, at most one uninstall task of a cluster  *)
(* is active (CreateUninstall and RetryUninstall under the unique index).  *)
THEOREM SingleActiveTask == Spec => []OneActiveTask
<1>1. Init => OnlyActive BY DEF Init, OnlyActive, Active
<1>2. TypeOK /\ OnlyActive /\ [Next]_vars => OnlyActive'
  BY EveryStatusStep, OnlyActiveStep
<1>3. OnlyActive => OneActiveTask
  <2> SUFFICES ASSUME OnlyActive PROVE OneActiveTask OBVIOUS
  <2>1. CASE Active = {} BY <2>1, FS_EmptySet DEF OneActiveTask
  <2>2. CASE Active # {}
    <3>1. PICK t : t \in Active BY <2>2
    <3>2. Active = {t} BY <3>1 DEF OnlyActive
    <3>3. Cardinality({t}) = 1 BY FS_Singleton
    <3> QED BY <3>2, <3>3 DEF OneActiveTask
  <2> QED BY <2>1, <2>2
<1> QED BY <1>1, <1>2, <1>3, TypeCorrect, PTL DEF Spec

(* The status of a task only moves along its diagram, although reports are *)
(* lost and repeated (the expected status of Transition and of Retry).     *)
THEOREM StatusesOrdered == Spec => TaskOrder
<1>1. TypeOK /\ [Next]_vars => TaskMoves
  <2> SUFFICES ASSUME TypeOK, [Next]_vars,
                      NEW u \in Tasks, tasks'[u] # tasks[u]
               PROVE  <<tasks[u], tasks'[u]>> \in StatusMoves
    BY DEF TaskMoves
  <2>1. StatusStep BY EveryStatusStep
  <2>2. PICK t \in Tasks, s \in Statuses :
          /\ tasks' = [tasks EXCEPT ![t] = s]
          /\ <<tasks[t], s>> \in StatusMoves
    BY <2>1 DEF StatusStep
  <2>3. u = t /\ tasks'[u] = s BY <2>2 DEF TypeOK
  <2> QED BY <2>2, <2>3
<1> QED BY <1>1, TypeCorrect, PTL DEF Spec, TaskOrder

-----------------------------------------------------------------------------
(* Whatever stands for a success, in the row, half-way in the recv loop,   *)
(* in the buffer or on the member, stems from a run that succeeded; and a  *)
(* Register in progress will not save a phase Uninstalled.                 *)
SuccessIsTrue ==
  /\ phase = "Uninstalled" => ranOK
  /\ report = "Uninstalled" => ranOK
  /\ \A i \in 1..Len(up) : up[i].state = "SUCCEEDED" => ranOK
  /\ member.at \in {"succeeded", "finalize"} => ranOK
  /\ register # "Uninstalled"

LEMMA SuccessStep ==
  ASSUME TypeOK, SuccessIsTrue, Next
  PROVE  SuccessIsTrue'
<1> USE DEF SuccessIsTrue
<1>1. CASE Console
  BY <1>1, Zenon DEF Console, ConsoleRead, Delete, ReissueToken,
     CreateUninstall, RetryUninstall, WithPhase
<1>2. CASE RegisterRead BY <1>2 DEF RegisterRead, Removing
<1>3. CASE RegisterSave BY <1>3 DEF RegisterSave, Idle
<1>4. CASE MarkAlive \/ BeatAges \/ FlushRead \/ PushTasks
  BY <1>4 DEF MarkAlive, BeatAges, FlushRead, PushTasks
<1>5. CASE FlushWrite BY <1>5 DEF FlushWrite, WithPhase, TypeOK, Idle
<1>6. CASE Break \/ CloseGone \/ Restart
  BY <1>6 DEF Break, CloseGone, Restart, Disconnect, Idle
<1>7. CASE Connect BY <1>7 DEF Connect
<1>8. CASE Take
  <2>1. /\ up \in Seq(Reports) /\ Head(down) \in Tasks
        /\ up' = Append(up, [task |-> Head(down), state |-> "RECEIVED"])
    BY <1>8, TailFits DEF TypeOK, Take
  <2>2. \A i \in 1..Len(up') : up'[i].state = "SUCCEEDED" => ranOK
    BY <2>1
  <2>3. member'.at = "received" BY <1>8 DEF Take
  <2> QED BY <1>8, <2>2, <2>3 DEF Take
<1>9. CASE Run
  <2>1. member \in [at : {"received", "failed", "succeeded", "finalize"},
                    task : Tasks]
    BY <1>9 DEF TypeOK, Run, Running, Gone
  <2>2. ranOK' \/ (ranOK' = ranOK /\ member'.at = "failed")
    BY <1>9, <2>1 DEF Run
  <2>3. ranOK => ranOK' BY <1>9 DEF Run
  <2> QED BY <1>9, <2>2, <2>3 DEF Run
<1>10. CASE SendOutcome
  <2>1. up \in Seq(Reports) BY DEF TypeOK
  <2>2. CASE up' = up /\ member' = Running
    BY <1>10, <2>2 DEF SendOutcome, Running
  <2>3. CASE /\ member.at = "succeeded"
             /\ up' = Append(up, [task |-> member.task,
                                  state |-> "SUCCEEDED"])
    BY <1>10, <2>3 DEF SendOutcome
  <2>4. CASE /\ up' = Append(up, [task |-> member.task, state |-> "FAILED"])
             /\ member' = Running
    <3>1. \A i \in 1..Len(up') : up'[i].state = "SUCCEEDED" => ranOK
      BY <2>1, <2>4
    <3> QED BY <1>10, <2>4, <3>1 DEF SendOutcome, Running
  <2> QED BY <1>10, <2>2, <2>3, <2>4 DEF SendOutcome
<1>11. CASE Finalize
  BY <1>11 DEF Finalize, Disconnect, Running, Gone, Idle
<1>12. CASE HandleReport
  <2>1. /\ up \in Seq(Reports) /\ up # <<>> /\ up' = Tail(up)
        /\ Head(up) \in Reports
    BY <1>12, TailFits DEF TypeOK, HandleReport
  <2>2. \A i \in 1..Len(up') : up'[i].state = "SUCCEEDED" => ranOK
    BY <2>1
  <2>3. report' = "Uninstalled" => ranOK
    <3>1. Head(up).state = "SUCCEEDED" => ranOK BY <2>1
    <3>2. Head(up).state # "SUCCEEDED"
            => PhaseAfter(Head(up).state) # "Uninstalled"
      BY <2>1 DEF Reports, Outcomes, PhaseAfter, Idle
    <3>3. report' = report \/ report' = PhaseAfter(Head(up).state)
      BY <1>12 DEF HandleReport, Transition
    <3> QED BY <3>1, <3>2, <3>3
  <2> QED BY <1>12, <2>2, <2>3 DEF HandleReport
<1>13. CASE ReportPhase
  BY <1>13 DEF ReportPhase, WithPhase, Idle
<1> QED BY <1>1, <1>2, <1>3, <1>4, <1>5, <1>6, <1>7, <1>8, <1>9, <1>10, <1>11,
       <1>12, <1>13 DEF Next, Flusher, Operator, RecvLoop

(* A cluster is shown as Uninstalled only after an uninstall has succeeded *)
(* on the member, whatever reports were lost, repeated or late.            *)
THEOREM UninstalledTrue == Spec => []UninstalledIsTrue
<1>1. Init => SuccessIsTrue BY DEF Init, SuccessIsTrue, Running, Idle
<1>2. TypeOK /\ SuccessIsTrue /\ [Next]_vars => SuccessIsTrue'
  <2>1. TypeOK /\ SuccessIsTrue /\ Next => SuccessIsTrue' BY SuccessStep
  <2>2. SuccessIsTrue /\ UNCHANGED vars => SuccessIsTrue'
    BY DEF SuccessIsTrue, vars
  <2> QED BY <2>1, <2>2
<1>3. SuccessIsTrue => UninstalledIsTrue
  BY DEF SuccessIsTrue, UninstalledIsTrue
<1> QED BY <1>1, <1>2, <1>3, TypeCorrect, PTL DEF Spec
=============================================================================
