---------------------------- MODULE SyncSessions ----------------------------
(***************************************************************************)
(* The gateway's side of the Sync streams of ONE member cluster: the       *)
(* session registry (internal/gateway/registry.go), the role updates of    *)
(* the Sync handler and the start and stop of each session's push loop     *)
(* (internal/gateway/server.go).                                           *)
(*                                                                         *)
(* Every operator replica (an instance) keeps one Sync stream to the       *)
(* gateway and says on each heartbeat whether it leads.  Three kinds of    *)
(* goroutine interleave: the Sync handlers, the push loops, and the        *)
(* handler of ANOTHER session, which stops the loops of those it demotes.  *)
(* A step below is what one of them does between two lock acquisitions.    *)
(* What a push loop sends is the subject of module DesiredStateSync.       *)
(***************************************************************************)
EXTENDS Integers

CONSTANTS Instances,     \* operator replicas (MemberIdentity.Instance)
          MaxSessions,   \* bound: Sync streams opened in a behaviour
          Goroutines,    \* push goroutines a session can have alive at once
          NoLoop,        \* the nil of cancel, and a number nobody holds
          MaxElections   \* bound: times a replica acquires the operator lease

ASSUME BoundsAreNat == MaxSessions \in Nat /\ MaxElections \in Nat

ASSUME NoLoopIsNoGoroutine == NoLoop \notin Goroutines

VARIABLES
  pc,         \* pc[s]: where the Sync handler of session s is
  inst,       \* inst[s]: the instance that opened s
  link,       \* link[s]: whether the client still holds its end of the stream
  inbox,      \* inbox[s]: the role claimed by the frame in flight, or NoFrame
  todo,       \* todo[s]: demoted sessions whose stopPush is still to be called
  registry,   \* registry[i]: the entry of instance i, or NoEntry
  pushSeq,    \* pushSeq[s]: the goroutine whose sequence is the current one
  cancel,     \* cancel[s]: the goroutine that syncSession.cancel cancels
  loops,      \* loops[s]: push goroutines whose run(ctx) has not returned
  cancelled,  \* cancelled[s]: those of loops[s] that stopPush cancelled
  exited,     \* exited[s]: goroutines past run(ctx), before the final lock
  leading,    \* replicas whose own leader flag is set
  lease,      \* the replica that acquired the operator lease last
  elections   \* how often the lease was acquired

sessionVars  == <<pc, inst, link, inbox, todo>>
pushVars     == <<pushSeq, cancel, loops, cancelled, exited>>
electionVars == <<leading, lease, elections>>
vars == <<sessionVars, registry, pushVars, electionVars>>

Sessions == 1..MaxSessions
Roles    == {"leader", "standby"}
NoFrame  == "none"
NoEntry  == [session |-> 0, role |-> "none"]
Entries  == [session : Sessions, role : Roles]
NoHolder == "nobody"

Steps == {"idle", "recv", "stopDemoted", "confirm", "start", "standDown",
          "remove", "closed"}

(* Type invariant: every variable of the registry, of the sessions and of  *)
(* their push goroutines stays within what the Go types allow.             *)
TypeOK ==
  /\ pc \in [Sessions -> Steps]
  /\ inst \in [Sessions -> Instances \cup {NoHolder}]
  /\ link \in [Sessions -> {"none", "up", "down"}]
  /\ inbox \in [Sessions -> Roles \cup {NoFrame}]
  /\ todo \in [Sessions -> SUBSET Sessions]
  /\ registry \in [Instances -> Entries \cup {NoEntry}]
  /\ pushSeq \in [Sessions -> Goroutines \cup {NoLoop}]
  /\ cancel \in [Sessions -> Goroutines \cup {NoLoop}]
  /\ loops \in [Sessions -> SUBSET Goroutines]
  /\ cancelled \in [Sessions -> SUBSET Goroutines]
  /\ exited \in [Sessions -> SUBSET Goroutines]
  /\ leading \subseteq Instances
  /\ lease \in Instances \cup {NoHolder}
  /\ elections \in 0..MaxElections

Init ==
  /\ pc = [s \in Sessions |-> "idle"]
  /\ inst = [s \in Sessions |-> NoHolder]
  /\ link = [s \in Sessions |-> "none"]
  /\ inbox = [s \in Sessions |-> NoFrame]
  /\ todo = [s \in Sessions |-> {}]
  /\ registry = [i \in Instances |-> NoEntry]
  /\ pushSeq = [s \in Sessions |-> NoLoop]
  /\ cancel = [s \in Sessions |-> NoLoop]
  /\ loops = [s \in Sessions |-> {}]
  /\ cancelled = [s \in Sessions |-> {}]
  /\ exited = [s \in Sessions |-> {}]
  /\ leading = {}
  /\ lease = NoHolder
  /\ elections = 0

(***************************************************************************)
(* The operator replicas.  currentRole is read when a frame is sent.       *)
(***************************************************************************)
currentRole(i) == IF i \in leading THEN "leader" ELSE "standby"

(* runOnce opens a stream and sends the identity frame.  A replica runs    *)
(* one runOnce at a time, so its earlier stream, which the gateway may     *)
(* still believe alive, is already down on the client's side.  Session     *)
(* numbers are handed out in order: each stands for a fresh *syncSession.  *)
Open(s, i) ==
  /\ pc[s] = "idle"
  /\ \A t \in Sessions : t < s => pc[t] # "idle"
  /\ \A t \in Sessions : inst[t] = i => link[t] # "up"
  /\ inst' = [inst EXCEPT ![s] = i]
  /\ link' = [link EXCEPT ![s] = "up"]
  /\ inbox' = [inbox EXCEPT ![s] = currentRole(i)]
  /\ pc' = [pc EXCEPT ![s] = "recv"]
  /\ UNCHANGED <<todo, registry, pushVars, electionVars>>

(* The heartbeat goroutine of runOnce.  One frame in flight per stream.    *)
Heartbeat(s) ==
  /\ link[s] = "up"
  /\ inbox[s] = NoFrame
  /\ inbox' = [inbox EXCEPT ![s] = currentRole(inst[s])]
  /\ UNCHANGED <<pc, inst, link, todo, registry, pushVars, electionVars>>

(* The client's end of the stream goes away: network failure, or runOnce   *)
(* returned.  A frame in flight may still be delivered, or be lost.        *)
Break(s) ==
  /\ link[s] = "up"
  /\ link' = [link EXCEPT ![s] = "down"]
  /\ UNCHANGED <<pc, inst, inbox, todo, registry, pushVars, electionVars>>

(* LeaderElected closes: the replica sets its leader flag, which it keeps  *)
(* until its process ends.  The lease is external; between its expiry and  *)
(* the exit of the old leader two replicas claim leadership.               *)
Elect(i) ==
  /\ i \notin leading
  /\ elections < MaxElections
  /\ leading' = leading \cup {i}
  /\ lease' = i
  /\ elections' = elections + 1
  /\ UNCHANGED <<sessionVars, registry, pushVars>>

(* The process of a replica ends (it crashed, or lost the lease): the      *)
(* deferred leader.Store(false), and its stream goes away.                 *)
Exit(i) ==
  /\ i \in leading
  /\ leading' = leading \ {i}
  /\ link' = [s \in Sessions |-> IF inst[s] = i /\ link[s] = "up"
                                   THEN "down" ELSE link[s]]
  /\ UNCHANGED <<pc, inst, inbox, todo, registry, pushVars, lease,
                 elections>>

(* A replica stops leading on a live stream.  Today's client ends its      *)
(* process instead; the protocol lets a heartbeat's role change, and       *)
(* updateRole has a branch for it.                                         *)
StepDown(i) ==
  /\ i \in leading
  /\ leading' = leading \ {i}
  /\ UNCHANGED <<sessionVars, registry, pushVars, lease, elections>>

(***************************************************************************)
(* syncSession.startPush and stopPush, each under pushMu.  The code        *)
(* numbers the goroutines with pushSeq and only ever compares numbers for  *)
(* equality, so a number is represented by the goroutine that holds it:    *)
(* after the increment of stopPush nobody holds the current one.           *)
(***************************************************************************)
FreeGoroutines(s) == Goroutines \ (loops[s] \cup exited[s])

startPush(s) ==
  IF cancel[s] # NoLoop
    THEN UNCHANGED pushVars
    ELSE LET l == CHOOSE g \in FreeGoroutines(s) : TRUE
         IN /\ FreeGoroutines(s) # {}
            /\ pushSeq' = [pushSeq EXCEPT ![s] = l]
            /\ cancel' = [cancel EXCEPT ![s] = l]
            /\ loops' = [loops EXCEPT ![s] = @ \cup {l}]
            /\ UNCHANGED <<cancelled, exited>>

(* Mutant: stopPush cancels the loop and does not reset the field.         *)
stopPushKeepsCancel(s) ==
  /\ cancelled' = [cancelled EXCEPT ![s] = @ \cup ({cancel[s]} \cap loops[s])]
  /\ pushSeq' = [pushSeq EXCEPT ![s] = NoLoop]
  /\ UNCHANGED <<cancel, loops, exited>>

stopPush(s) ==
  IF cancel[s] = NoLoop
    THEN UNCHANGED pushVars
    ELSE /\ cancelled' = [cancelled EXCEPT ![s] =
                            @ \cup ({cancel[s]} \cap loops[s])]
         /\ cancel' = [cancel EXCEPT ![s] = NoLoop]
         /\ pushSeq' = [pushSeq EXCEPT ![s] = NoLoop]
         /\ UNCHANGED <<loops, exited>>

(* The push loop returns: its context is done (stopped, or the Sync call   *)
(* returned), or a send failed because the client is gone.  A goroutine    *)
(* whose number is no longer current will find it so: its last lock does   *)
(* nothing, and it is done.                                                *)
LoopReturn(s, l) ==
  /\ l \in loops[s]
  /\ l \in cancelled[s] \/ link[s] = "down" \/ pc[s] = "closed"
  /\ loops' = [loops EXCEPT ![s] = @ \ {l}]
  /\ cancelled' = [cancelled EXCEPT ![s] = @ \ {l}]
  /\ exited' = [exited EXCEPT ![s] = @ \cup ({l} \cap {pushSeq[s]})]
  /\ UNCHANGED <<sessionVars, registry, pushSeq, cancel, electionVars>>

(* Mutant: the goroutine clears cancel without comparing its sequence.     *)
LoopCleanupAlways(s, l) ==
  /\ l \in exited[s]
  /\ exited' = [exited EXCEPT ![s] = @ \ {l}]
  /\ cancel' = [cancel EXCEPT ![s] = NoLoop]
  /\ UNCHANGED <<sessionVars, registry, pushSeq, loops, cancelled,
                 electionVars>>

(* The goroutine's last lock: clear cancel, unless a stop or a later start *)
(* has moved the sequence on.                                              *)
LoopCleanup(s, l) ==
  /\ l \in exited[s]
  /\ exited' = [exited EXCEPT ![s] = @ \ {l}]
  /\ cancel' = [cancel EXCEPT ![s] = IF pushSeq[s] = l THEN NoLoop ELSE @]
  /\ UNCHANGED <<sessionVars, registry, pushSeq, loops, cancelled,
                 electionVars>>

(***************************************************************************)
(* sessionRegistry.  put and remove each run under the registry's lock.    *)
(***************************************************************************)
LeaderEntries == {i \in Instances : registry[i].role = "leader"}

(* updateRole after put: a leader first stops the sessions put returned,   *)
(* a standby stops its own loop.                                           *)
AfterPut(r, demoted) ==
  IF r = "standby" THEN "standDown"
  ELSE IF demoted = {} THEN "confirm" ELSE "stopDemoted"

(* Mutant: a newer claim leaves the earlier leader entries as they are.    *)
putNoDemote(s, r) ==
  /\ registry' = [registry EXCEPT ![inst[s]] = [session |-> s, role |-> r]]
  /\ pc' = [pc EXCEPT ![s] = AfterPut(r, {})]
  /\ UNCHANGED todo

(* Mutant: every other instance is demoted, registered or not.             *)
putDemoteAll(s, r) ==
  LET demoted == IF r = "leader" THEN Instances \ {inst[s]} ELSE {}
  IN /\ registry' = [i \in Instances |->
          IF i = inst[s] THEN [session |-> s, role |-> r]
          ELSE IF i \in demoted THEN [registry[i] EXCEPT !.role = "standby"]
          ELSE registry[i]]
     /\ todo' = [todo EXCEPT ![s] = {registry[i].session : i \in demoted}]
     /\ pc' = [pc EXCEPT ![s] = AfterPut(r, demoted)]

(* sessionRegistry.put: replace this instance's entry; a leader claim      *)
(* turns every other leader entry into a standby one and returns the       *)
(* sessions of those entries, the caller's todo.                           *)
put(s, r) ==
  LET demoted == IF r = "leader" THEN LeaderEntries \ {inst[s]} ELSE {}
  IN /\ registry' = [i \in Instances |->
          IF i = inst[s] THEN [session |-> s, role |-> r]
          ELSE IF i \in demoted THEN [registry[i] EXCEPT !.role = "standby"]
          ELSE registry[i]]
     /\ todo' = [todo EXCEPT ![s] = {registry[i].session : i \in demoted}]
     /\ pc' = [pc EXCEPT ![s] = AfterPut(r, demoted)]

(* sessionRegistry.leader: with at most one leader entry (OneLeaderEntry)  *)
(* the comparison of updatedAt never has two entries to choose from.       *)
IsRegisteredLeader(s) ==
  \E i \in LeaderEntries : registry[i].session = s

(***************************************************************************)
(* The Sync handler: recv loop, updateRole, deferred clean-up.             *)
(***************************************************************************)

(* The identity frame or a heartbeat: both call updateRole, whose first    *)
(* act is put.                                                             *)
Receive(s) ==
  /\ pc[s] = "recv"
  /\ inbox[s] # NoFrame
  /\ put(s, inbox[s])
  /\ inbox' = [inbox EXCEPT ![s] = NoFrame]
  /\ UNCHANGED <<inst, link, pushVars, electionVars>>

(* demoted.stopPush() for each session put returned.                       *)
StopDemoted(s, d) ==
  /\ pc[s] = "stopDemoted"
  /\ d \in todo[s]
  /\ stopPush(d)
  /\ todo' = [todo EXCEPT ![s] = @ \ {d}]
  /\ pc' = [pc EXCEPT ![s] = IF todo[s] = {d} THEN "confirm" ELSE @]
  /\ UNCHANGED <<inst, link, inbox, registry, electionVars>>

(* A leader asks the registry whether it is the leader still.  The         *)
(* registry's lock is released before startPush takes pushMu.              *)
Confirm(s) ==
  /\ pc[s] = "confirm"
  /\ pc' = [pc EXCEPT ![s] = IF IsRegisteredLeader(s) THEN "start" ELSE "recv"]
  /\ UNCHANGED <<inst, link, inbox, todo, registry, pushVars, electionVars>>

Start(s) ==
  /\ pc[s] = "start"
  /\ startPush(s)
  /\ pc' = [pc EXCEPT ![s] = "recv"]
  /\ UNCHANGED <<inst, link, inbox, todo, registry, electionVars>>

(* Mutant: a standby claim leaves the session's own push loop running.     *)
StandDownNoStop(s) ==
  /\ pc[s] = "standDown"
  /\ pc' = [pc EXCEPT ![s] = "recv"]
  /\ UNCHANGED <<inst, link, inbox, todo, registry, pushVars, electionVars>>

StandDown(s) ==
  /\ pc[s] = "standDown"
  /\ stopPush(s)
  /\ pc' = [pc EXCEPT ![s] = "recv"]
  /\ UNCHANGED <<inst, link, inbox, todo, registry, electionVars>>

(* Recv, or the Ack's send, reports the broken stream, and the deferred    *)
(* function calls sess.stopPush() ...                                      *)
RecvError(s) ==
  /\ pc[s] = "recv"
  /\ link[s] = "down"
  /\ stopPush(s)
  /\ pc' = [pc EXCEPT ![s] = "remove"]
  /\ UNCHANGED <<inst, link, inbox, todo, registry, electionVars>>

(* Mutant: remove deletes whatever entry the instance has.                 *)
RemoveAny(s) ==
  /\ pc[s] = "remove"
  /\ registry' = IF inst[s] \in Instances
                   THEN [registry EXCEPT ![inst[s]] = NoEntry] ELSE registry
  /\ pc' = [pc EXCEPT ![s] = "closed"]
  /\ UNCHANGED <<inst, link, inbox, todo, pushVars, electionVars>>

(* Mutant: remove only deletes the entry while it is the leader's.         *)
RemoveLeaderOnly(s) ==
  /\ pc[s] = "remove"
  /\ registry' = [i \in Instances |->
       IF registry[i] = [session |-> s, role |-> "leader"]
         THEN NoEntry ELSE registry[i]]
  /\ pc' = [pc EXCEPT ![s] = "closed"]
  /\ UNCHANGED <<inst, link, inbox, todo, pushVars, electionVars>>

(* ... then sessions.remove, compare-and-delete under the registry's lock. *)
Remove(s) ==
  /\ pc[s] = "remove"
  /\ registry' = [i \in Instances |->
       IF i = inst[s] /\ registry[i].session = s THEN NoEntry
                                                 ELSE registry[i]]
  /\ pc' = [pc EXCEPT ![s] = "closed"]
  /\ inbox' = [inbox EXCEPT ![s] = NoFrame]
  /\ UNCHANGED <<inst, link, todo, pushVars, electionVars>>

-----------------------------------------------------------------------------
Handler(s) ==
  \/ Receive(s) \/ Confirm(s) \/ Start(s) \/ StandDown(s)
  \/ RecvError(s) \/ Remove(s)
  \/ \E d \in Sessions : StopDemoted(s, d)

PushGoroutine(s) ==
  \E l \in loops[s] \cup exited[s] : LoopReturn(s, l) \/ LoopCleanup(s, l)

Next ==
  \/ \E s \in Sessions :
       Handler(s) \/ PushGoroutine(s) \/ Heartbeat(s) \/ Break(s)
  \/ \E s \in Sessions, i \in Instances : Open(s, i)
  \/ \E i \in Instances : Elect(i) \/ Exit(i) \/ StepDown(i)

Spec == Init /\ [][Next]_vars

(* Goroutines are scheduled, heartbeats are sent by a ticker and arrive,   *)
(* a broken stream is noticed (keepalive), and a replica whose lease was   *)
(* taken stops leading: controller-runtime's manager ends the process.     *)
Fairness ==
  /\ \A s \in Sessions :
       /\ WF_vars(Receive(s)) /\ WF_vars(Confirm(s)) /\ WF_vars(Start(s))
       /\ WF_vars(StandDown(s)) /\ SF_vars(RecvError(s)) /\ WF_vars(Remove(s))
       /\ WF_vars(\E d \in Sessions : StopDemoted(s, d))
       /\ WF_vars(PushGoroutine(s)) /\ WF_vars(Heartbeat(s))
  /\ \A i \in Instances : WF_vars(i # lease /\ (Exit(i) \/ StepDown(i)))

FairSpec == Spec /\ Fairness

-----------------------------------------------------------------------------
Pushing(s) == loops[s] \ cancelled[s] # {}

(* A push loop whose context is not done is the one its session's cancel   *)
(* function stops: startPush, stopPush and the goroutine's own clean-up    *)
(* never leak a loop, and a session never runs two (server.go, startPush). *)
LiveLoopIsStoppable ==
  \A s \in Sessions : \A l \in loops[s] \ cancelled[s] : cancel[s] = l

(* Whatever claims race, the registry names one leader of the cluster, so  *)
(* Dispatch and updateRole cannot route to two sessions (registry.go).     *)
OneLeaderEntry ==
  \A i, j \in LeaderEntries : i = j

(* A session whose Sync call has returned is in no registry entry and has  *)
(* no loop that could still push: the deferred stopPush and remove leave   *)
(* nothing behind, even if heartbeats and demotions raced with them.       *)
ClosedSessionLeavesNothing ==
  \A s \in Sessions : pc[s] = "closed" =>
    /\ cancel[s] = NoLoop
    /\ \A i \in Instances : registry[i].session # s

(* remove is compare-and-delete: an entry only disappears in the deferred  *)
(* call of the session it holds, so a late disconnect of an old stream     *)
(* never evicts the stream that replaced it (comment in registry.go).      *)
EntryRemovedByItsOwner ==
  [][\A i \in Instances :
       (registry[i] # NoEntry /\ registry'[i] = NoEntry) =>
         \E s \in Sessions : registry[i].session = s /\ pc[s] = "remove"]_vars

(* Once elections are over, only a stream of the replica that holds the    *)
(* lease is pushed to: every race between claims is repaired by the next   *)
(* heartbeats or by the end of the deposed replica.                        *)
OnlyLeaseHolderPushes ==
  <>[](\A s \in Sessions : Pushing(s) => inst[s] = lease)

(* A leader whose stream stays up ends up registered as the leader and     *)
(* being pushed to, whatever its earlier streams and the other replicas    *)
(* did to the registry in the meantime.                                    *)
LeaderStreamIsServed ==
  \A s \in Sessions :
    <>[](link[s] = "up" /\ inst[s] \in leading /\ inst[s] = lease) =>
      <>[](Pushing(s) /\ IsRegisteredLeader(s))

(* registry.go: "the newest claim wins and the previous leader sessions    *)
(* are returned so their DesiredState push loops can be stopped."  When no *)
(* role update is under way, a session registered as a standby has no      *)
(* running push loop.                                                      *)
DemotedSessionIsStopped ==
  (\A s \in Sessions : pc[s] \in {"idle", "recv", "closed"}) =>
    \A i \in Instances :
      registry[i].role = "standby" => ~Pushing(registry[i].session)
=============================================================================
