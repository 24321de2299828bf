------------------------- MODULE SyncSessionsProofs -------------------------
(***************************************************************************)
(* Proofs about SyncSessions, for any set of operator replicas, any number *)
(* of streams and of push goroutines, and any number of elections.         *)
(***************************************************************************)
EXTENDS SyncSessions, TLAPS

(* The push side of the inductive invariant: a cancel function belongs to  *)
(* the goroutine whose number is current, and a goroutine whose run has    *)
(* returned is not one that still runs.                                    *)
PushInv ==
  /\ LiveLoopIsStoppable
  /\ \A s \in Sessions :
       /\ cancel[s] # NoLoop => cancel[s] = pushSeq[s]
       /\ loops[s] \cap exited[s] = {}

(* The registry side: an entry holds a stream of its own instance whose    *)
(* handler has not reached the end of its deferred function, and a handler *)
(* in that function has no push loop left to stop.                         *)
RegistryInv ==
  /\ OneLeaderEntry
  /\ \A i \in Instances, s \in Sessions :
       registry[i].session = s => inst[s] = i /\ pc[s] \notin {"idle", "closed"}
  /\ \A s \in Sessions : pc[s] \in {"remove", "closed"} => cancel[s] = NoLoop

IInv == TypeOK /\ PushInv /\ RegistryInv

-----------------------------------------------------------------------------
(* What stopPush does to the session it is called on.                      *)
LEMMA StopPushLemma ==
  ASSUME TypeOK, PushInv, NEW s \in Sessions, stopPush(s)
  PROVE  /\ pushSeq' \in [Sessions -> Goroutines \cup {NoLoop}]
         /\ cancel' \in [Sessions -> Goroutines \cup {NoLoop}]
         /\ loops' \in [Sessions -> SUBSET Goroutines]
         /\ cancelled' \in [Sessions -> SUBSET Goroutines]
         /\ exited' \in [Sessions -> SUBSET Goroutines]
         /\ PushInv'
         /\ cancel'[s] = NoLoop
         /\ \A t \in Sessions : t # s => cancel'[t] = cancel[t]
<1>1. CASE cancel[s] = NoLoop
  BY <1>1 DEF TypeOK, PushInv, LiveLoopIsStoppable, stopPush, pushVars
<1>2. CASE cancel[s] # NoLoop
  <2>1. /\ cancelled' = [cancelled EXCEPT ![s] =
                            @ \cup ({cancel[s]} \cap loops[s])]
        /\ cancel' = [cancel EXCEPT ![s] = NoLoop]
        /\ pushSeq' = [pushSeq EXCEPT ![s] = NoLoop]
        /\ loops' = loops
        /\ exited' = exited
    BY <1>2 DEF stopPush
  <2>2. \A l \in loops[s] \ cancelled[s] : l = cancel[s]
    BY DEF PushInv, LiveLoopIsStoppable
  <2>3. loops'[s] \ cancelled'[s] = {}
    BY <2>1, <2>2 DEF TypeOK
  <2>4. QED
    BY <2>1, <2>3 DEF TypeOK, PushInv, LiveLoopIsStoppable
<1>3. QED BY <1>1, <1>2

(* What startPush does: it is the only way a session gets a cancel.        *)
LEMMA StartPushLemma ==
  ASSUME TypeOK, PushInv, NEW s \in Sessions, startPush(s)
  PROVE  /\ pushSeq' \in [Sessions -> Goroutines \cup {NoLoop}]
         /\ cancel' \in [Sessions -> Goroutines \cup {NoLoop}]
         /\ loops' \in [Sessions -> SUBSET Goroutines]
         /\ cancelled' \in [Sessions -> SUBSET Goroutines]
         /\ exited' \in [Sessions -> SUBSET Goroutines]
         /\ PushInv'
         /\ \A t \in Sessions : t # s => cancel'[t] = cancel[t]
<1>1. CASE cancel[s] # NoLoop
  BY <1>1 DEF TypeOK, PushInv, LiveLoopIsStoppable, startPush, pushVars
<1>2. CASE cancel[s] = NoLoop
  <2> DEFINE l == CHOOSE g \in FreeGoroutines(s) : TRUE
  <2>1. /\ FreeGoroutines(s) # {}
        /\ pushSeq' = [pushSeq EXCEPT ![s] = l]
        /\ cancel' = [cancel EXCEPT ![s] = l]
        /\ loops' = [loops EXCEPT ![s] = @ \cup {l}]
        /\ cancelled' = cancelled
        /\ exited' = exited
    BY <1>2 DEF startPush
  <2>2. l \in FreeGoroutines(s)
    BY <2>1
  <2>3. l \in Goroutines /\ l \notin loops[s] /\ l \notin exited[s]
    BY <2>2 DEF FreeGoroutines
  <2>4. loops[s] \ cancelled[s] = {}
    BY <1>2, NoLoopIsNoGoroutine DEF TypeOK, PushInv, LiveLoopIsStoppable
  <2> HIDE DEF l
  <2>5. QED
    BY <2>1, <2>3, <2>4 DEF TypeOK, PushInv, LiveLoopIsStoppable
<1>3. QED BY <1>1, <1>2

-----------------------------------------------------------------------------
(* The steps of a replica on its stream do not touch the gateway's state.  *)
LEMMA StreamStep ==
  ASSUME IInv, NEW s \in Sessions,
         Heartbeat(s) \/ Break(s) \/ \E i \in Instances : Open(s, i)
  PROVE  IInv'
<1> USE DEF IInv, TypeOK, PushInv, LiveLoopIsStoppable, RegistryInv,
            OneLeaderEntry, LeaderEntries, pushVars, electionVars
<1>1. CASE \E i \in Instances : Open(s, i)
  BY <1>1 DEF Open, currentRole, Steps, Roles
<1>2. CASE Heartbeat(s)
  BY <1>2 DEF Heartbeat, currentRole, Roles
<1>3. CASE Break(s)
  BY <1>3 DEF Break
<1>4. QED BY <1>1, <1>2, <1>3

(* Neither do the election and the end of a replica.                       *)
LEMMA ElectionStep ==
  ASSUME IInv, NEW i \in Instances, Elect(i) \/ Exit(i) \/ StepDown(i)
  PROVE  IInv'
<1> USE DEF IInv, TypeOK, PushInv, LiveLoopIsStoppable, RegistryInv,
            OneLeaderEntry, LeaderEntries, pushVars
<1>1. CASE Elect(i)
  BY <1>1, BoundsAreNat DEF Elect, sessionVars
<1>2. CASE Exit(i)
  BY <1>2 DEF Exit
<1>3. CASE StepDown(i)
  BY <1>3 DEF StepDown, sessionVars
<1>4. QED BY <1>1, <1>2, <1>3

(* The push goroutine's own steps.                                         *)
LEMMA PushStep ==
  ASSUME IInv, NEW s \in Sessions, PushGoroutine(s)
  PROVE  IInv'
<1> USE DEF IInv
<1>1. PICK l \in loops[s] \cup exited[s] : LoopReturn(s, l) \/ LoopCleanup(s, l)
  BY DEF PushGoroutine
<1>2. CASE LoopReturn(s, l)
  <2>1. TypeOK'
    BY <1>2 DEF TypeOK, LoopReturn, sessionVars, electionVars
  <2>2. PushInv'
    BY <1>2 DEF TypeOK, LoopReturn, PushInv, LiveLoopIsStoppable
  <2>3. RegistryInv'
    BY <1>2 DEF LoopReturn, RegistryInv, OneLeaderEntry, LeaderEntries,
       sessionVars
  <2>4. QED BY <2>1, <2>2, <2>3
<1>3. CASE LoopCleanup(s, l)
  <2>1. TypeOK'
    BY <1>3 DEF TypeOK, LoopCleanup, sessionVars, electionVars
  <2>2. PushInv'
    <3>1. l \notin loops[s]
      BY <1>3 DEF LoopCleanup, PushInv
    <3>2. ASSUME pushSeq[s] = l PROVE loops[s] \ cancelled[s] = {}
      BY <3>1, <3>2, NoLoopIsNoGoroutine
         DEF TypeOK, PushInv, LiveLoopIsStoppable
    <3>3. QED
      BY <1>3, <3>2 DEF TypeOK, LoopCleanup, PushInv, LiveLoopIsStoppable
  <2>3. RegistryInv'
    BY <1>3 DEF TypeOK, LoopCleanup, RegistryInv, OneLeaderEntry,
       LeaderEntries, sessionVars
  <2>4. QED BY <2>1, <2>2, <2>3
<1>4. QED BY <1>1, <1>2, <1>3

(* sessionRegistry.put under a racing claim.                               *)
LEMMA ReceiveStep ==
  ASSUME IInv, NEW s \in Sessions, Receive(s)
  PROVE  IInv'
<1> USE DEF IInv
<1> DEFINE r == inbox[s]
           demoted == IF r = "leader" THEN LeaderEntries \ {inst[s]} ELSE {}
<1>1. r \in Roles /\ pc[s] = "recv" /\ put(s, r)
  BY DEF Receive, TypeOK
<1>2. \A i \in demoted : registry[i] \in Entries
  BY DEF TypeOK, LeaderEntries, NoEntry
<1>3. /\ registry' = [i \in Instances |->
            IF i = inst[s] THEN [session |-> s, role |-> r]
            ELSE IF i \in demoted THEN [registry[i] EXCEPT !.role = "standby"]
            ELSE registry[i]]
      /\ todo' = [todo EXCEPT ![s] = {registry[i].session : i \in demoted}]
      /\ pc' = [pc EXCEPT ![s] = AfterPut(r, demoted)]
  BY <1>1 DEF put
<1>4. AfterPut(r, demoted) \in Steps \ {"idle", "remove", "closed"}
  BY DEF AfterPut, Steps
<1>5. \A i \in Instances :
        /\ registry'[i] \in Entries \cup {NoEntry}
        /\ registry'[i].role = "leader" =>
             (i = inst[s] /\ r = "leader") \/ (r # "leader" /\ registry[i].role = "leader")
        /\ i # inst[s] => registry'[i].session = registry[i].session
        /\ i = inst[s] => registry'[i].session = s
  <2> TAKE i \in Instances
  <2>1. CASE i = inst[s]
    BY <2>1, <1>1, <1>3 DEF Entries
  <2>2. CASE i # inst[s] /\ i \in demoted
    BY <2>2, <1>2, <1>3 DEF Entries, Roles
  <2>3. CASE i # inst[s] /\ i \notin demoted
    BY <2>3, <1>3 DEF TypeOK, LeaderEntries
  <2>4. QED BY <2>1, <2>2, <2>3
<1>6. TypeOK'
  <2>1. registry' \in [Instances -> Entries \cup {NoEntry}]
    BY <1>3, <1>5
  <2>2. {registry[i].session : i \in demoted} \subseteq Sessions
    BY <1>2 DEF Entries
  <2>3. QED
    BY <2>1, <2>2, <1>3, <1>4 DEF TypeOK, Receive, pushVars, electionVars
<1>7. PushInv'
  BY DEF Receive, PushInv, LiveLoopIsStoppable, pushVars
<1>8. RegistryInv'
  <2>1. OneLeaderEntry'
    BY <1>5 DEF RegistryInv, OneLeaderEntry, LeaderEntries
  <2>2. \A i \in Instances, t \in Sessions :
          registry'[i].session = t =>
            inst'[t] = i /\ pc'[t] \notin {"idle", "closed"}
    BY <1>1, <1>3, <1>4, <1>5 DEF TypeOK, RegistryInv, Receive
  <2>3. \A t \in Sessions : pc'[t] \in {"remove", "closed"} => cancel'[t] = NoLoop
    BY <1>3, <1>4 DEF TypeOK, RegistryInv, Receive, pushVars
  <2>4. QED BY <2>1, <2>2, <2>3 DEF RegistryInv
<1>9. QED BY <1>6, <1>7, <1>8

(* The rest of updateRole: stopping the demoted, confirming, starting.     *)
LEMMA UpdateRoleStep ==
  ASSUME IInv, NEW s \in Sessions, NEW d \in Sessions,
         StopDemoted(s, d) \/ Confirm(s) \/ Start(s) \/ StandDown(s)
  PROVE  IInv'
<1> USE DEF IInv
<1>1. CASE StopDemoted(s, d)
  <2>1. stopPush(d)
    BY <1>1 DEF StopDemoted
  <2>2. QED
    BY <1>1, <2>1, StopPushLemma DEF TypeOK, StopDemoted, RegistryInv,
       OneLeaderEntry, LeaderEntries, Steps, electionVars
<1>2. CASE Confirm(s)
  BY <1>2 DEF TypeOK, Confirm, PushInv, LiveLoopIsStoppable, RegistryInv,
     OneLeaderEntry, LeaderEntries, Steps, pushVars, electionVars
<1>3. CASE Start(s)
  <2>1. startPush(s)
    BY <1>3 DEF Start
  <2>2. QED
    BY <1>3, <2>1, StartPushLemma DEF TypeOK, Start, RegistryInv,
       OneLeaderEntry, LeaderEntries, Steps, electionVars
<1>4. CASE StandDown(s)
  <2>1. stopPush(s)
    BY <1>4 DEF StandDown
  <2>2. QED
    BY <1>4, <2>1, StopPushLemma DEF TypeOK, StandDown, RegistryInv,
       OneLeaderEntry, LeaderEntries, Steps, electionVars
<1>5. QED BY <1>1, <1>2, <1>3, <1>4

(* The deferred function of Sync.                                          *)
LEMMA DeferredStep ==
  ASSUME IInv, NEW s \in Sessions, RecvError(s) \/ Remove(s)
  PROVE  IInv'
<1> USE DEF IInv
<1>1. CASE RecvError(s)
  <2>1. stopPush(s)
    BY <1>1 DEF RecvError
  <2>2. QED
    BY <1>1, <2>1, StopPushLemma DEF TypeOK, RecvError, RegistryInv,
       OneLeaderEntry, LeaderEntries, Steps, electionVars
<1>2. CASE Remove(s)
  <2>1. \A i \in Instances :
          registry'[i] = IF i = inst[s] /\ registry[i].session = s
                           THEN NoEntry ELSE registry[i]
    BY <1>2 DEF Remove
  <2>2. TypeOK'
    BY <1>2 DEF TypeOK, Remove, Steps, pushVars, electionVars
  <2>3. PushInv'
    BY <1>2 DEF Remove, PushInv, LiveLoopIsStoppable, pushVars
  <2>4. OneLeaderEntry'
    BY <2>1 DEF RegistryInv, OneLeaderEntry, LeaderEntries, NoEntry
  <2>5. \A i \in Instances, t \in Sessions :
          registry'[i].session = t =>
            inst'[t] = i /\ pc'[t] \notin {"idle", "closed"}
    <3>1. NoEntry.session \notin Sessions
      BY DEF NoEntry, Sessions
    <3>2. QED
      BY <1>2, <2>1, <3>1 DEF TypeOK, RegistryInv, Remove
  <2>6. \A t \in Sessions : pc'[t] \in {"remove", "closed"} => cancel'[t] = NoLoop
    BY <1>2 DEF TypeOK, RegistryInv, Remove, pushVars
  <2>7. QED BY <2>2, <2>3, <2>4, <2>5, <2>6 DEF RegistryInv
<1>3. QED BY <1>1, <1>2

-----------------------------------------------------------------------------
(* Every step of the specification keeps the invariant.                    *)
LEMMA NextStep == IInv /\ [Next]_vars => IInv'
<1> SUFFICES ASSUME IInv, [Next]_vars PROVE IInv'
  OBVIOUS
<1>1. CASE UNCHANGED vars
  BY <1>1 DEF IInv, vars, sessionVars, pushVars, electionVars, TypeOK, PushInv,
     LiveLoopIsStoppable, RegistryInv, OneLeaderEntry, LeaderEntries
<1>2. CASE \E s \in Sessions : Handler(s)
  BY <1>2, ReceiveStep, UpdateRoleStep, DeferredStep DEF Handler
<1>3. CASE \E s \in Sessions : PushGoroutine(s)
  BY <1>3, PushStep
<1>4. CASE \E s \in Sessions : Heartbeat(s) \/ Break(s)
  BY <1>4, StreamStep
<1>5. CASE \E s \in Sessions, i \in Instances : Open(s, i)
  BY <1>5, StreamStep
<1>6. CASE \E i \in Instances : Elect(i) \/ Exit(i) \/ StepDown(i)
  BY <1>6, ElectionStep
<1>7. QED BY <1>1, <1>2, <1>3, <1>4, <1>5, <1>6 DEF Next

(* The initial state satisfies the invariant: no stream, an empty registry. *)
LEMMA InitStep == Init => IInv
<1> SUFFICES ASSUME Init PROVE IInv
  OBVIOUS
<1>1. NoEntry.session \notin Sessions /\ NoEntry.role # "leader"
  BY DEF NoEntry, Sessions
<1>2. TypeOK
  BY BoundsAreNat DEF Init, TypeOK, Steps, Roles
<1>3. PushInv
  BY DEF Init, PushInv, LiveLoopIsStoppable
<1>4. RegistryInv
  BY <1>1 DEF Init, RegistryInv, OneLeaderEntry, LeaderEntries
<1>5. QED BY <1>2, <1>3, <1>4 DEF IInv

(* The invariant holds throughout every behaviour of the specification.    *)
LEMMA Inductive == Spec => []IInv
BY InitStep, NextStep, PTL DEF Spec

-----------------------------------------------------------------------------
(* Type correctness of the registry and of the sessions' push state.       *)
THEOREM TypeCorrect == Spec => []TypeOK
<1>1. IInv => TypeOK
  BY DEF IInv
<1>2. QED BY <1>1, Inductive, PTL

(* No push loop is ever leaked: whatever stops, starts, send errors and    *)
(* demotions race, a loop that still runs is the one its session can stop. *)
THEOREM NoLeakedLoop == Spec => []LiveLoopIsStoppable
<1>1. IInv => LiveLoopIsStoppable
  BY DEF IInv, PushInv
<1>2. QED BY <1>1, Inductive, PTL

(* The registry never names two leaders of a cluster.                      *)
THEOREM LeaderIsUnique == Spec => []OneLeaderEntry
<1>1. IInv => OneLeaderEntry
  BY DEF IInv, RegistryInv
<1>2. QED BY <1>1, Inductive, PTL

(* A finished Sync call leaves neither a registry entry nor a cancel.      *)
THEOREM ClosedLeavesNothing == Spec => []ClosedSessionLeavesNothing
<1>1. IInv => ClosedSessionLeavesNothing
  BY DEF IInv, RegistryInv, ClosedSessionLeavesNothing
<1>2. QED BY <1>1, Inductive, PTL

(* An entry disappears only in the deferred call of the stream it holds.   *)
THEOREM RemovedByOwner == Spec => EntryRemovedByItsOwner
<1> DEFINE Owner == \A i \in Instances :
       (registry[i] # NoEntry /\ registry'[i] = NoEntry) =>
         \E s \in Sessions : registry[i].session = s /\ pc[s] = "remove"
<1>1. IInv /\ [Next]_vars => [Owner]_vars
  <2> SUFFICES ASSUME IInv, Next, NEW i \in Instances,
                      registry[i] # NoEntry, registry'[i] = NoEntry
               PROVE  \E s \in Sessions : registry[i].session = s
                                          /\ pc[s] = "remove"
    OBVIOUS
  <2>1. PICK s \in Sessions : Receive(s) \/ Remove(s)
    BY DEF Next, Handler, PushGoroutine, Confirm, Start, StandDown, RecvError,
       StopDemoted, LoopReturn, LoopCleanup, Heartbeat, Break, Open, Elect, Exit,
       StepDown
  <2>2. CASE Remove(s)
    BY <2>2 DEF Remove
  <2>3. CASE Receive(s)
    <3>1. registry'[i].role # "none"
      BY <2>3 DEF Receive, put, IInv, TypeOK, Entries, Roles, NoFrame, NoEntry
    <3>2. QED BY <3>1 DEF NoEntry
  <2>4. QED BY <2>1, <2>2, <2>3
<1>2. QED BY <1>1, Inductive, PTL DEF Spec, EntryRemovedByItsOwner
=============================================================================
