------------------------- MODULE EventDeliveryProofs -------------------------
(***************************************************************************)
(* Type correctness (with the capacity of the operator's queue), the bound *)
(* on deliveries and the absence of silent losses, for any set of events,  *)
(* any storage rules, any capacities and any number of sessions.           *)
(***************************************************************************)
EXTENDS EventDelivery, FiniteSetTheorems, TLAPS

USE DEF hookVars, queueVars, streamVars

(***************************************************************************)
(* Entries of the operator's queue.  What keeps the attempts within their  *)
(* bound is that each is paid for by a retry, except the one in flight.    *)
(***************************************************************************)
PaidFor(entry) ==
  /\ entry \in Entries
  /\ entry.inFlight => entry.queued
  /\ entry.attempt <= entry.retries + (IF entry.inFlight THEN 1 ELSE 0)

QueuePaidFor == \A e \in Events : PaidFor(queue[e])

LEMMA NewEntries == PaidFor(NoEntry) /\ PaidFor(Fresh)
<1>1. NoEntry \in Entries BY ConstantsOK DEF NoEntry, Entries, Attempts
<1>3. Fresh \in Entries BY ConstantsOK DEF Fresh, Entries, Attempts
<1>4. PaidFor(NoEntry) BY <1>1 DEF PaidFor, NoEntry
<1>5. PaidFor(Fresh) BY <1>3 DEF PaidFor, Fresh
<1> QED BY <1>4, <1>5

(* An entry that fails is gone, or waits with one retry more.              *)
LEMMA FailedEntry ==
  ASSUME NEW entry, PaidFor(entry)
  PROVE  /\ PaidFor(FailEntry(entry))
         /\ ~ FailEntry(entry).inFlight
         /\ FailEntry(entry).queued => entry.queued
         /\ entry.queued /\ ~ FailEntry(entry).queued => GivesUp(entry)
<1>1. CASE GivesUp(entry)
  BY <1>1, NewEntries DEF FailEntry, NoEntry
<1>2. CASE ~ GivesUp(entry)
  <2>1. entry.retries + 1 \in 0..MaxRetries
    BY <1>2, ConstantsOK DEF PaidFor, GivesUp, Entries
  <2>2. FailEntry(entry) = [entry EXCEPT !.retries = @ + 1, !.inFlight = FALSE]
    BY <1>2 DEF FailEntry
  <2>3. FailEntry(entry) \in Entries BY <2>1, <2>2 DEF PaidFor, Entries
  <2>4. /\ FailEntry(entry).retries = entry.retries + 1
        /\ FailEntry(entry).attempt = entry.attempt
        /\ FailEntry(entry).queued = entry.queued
        /\ FailEntry(entry).inFlight = FALSE
    BY <2>2 DEF PaidFor, Entries
  <2>5. entry.attempt <= entry.retries + 1
    BY ConstantsOK DEF PaidFor, Entries, Attempts
  <2>6. PaidFor(FailEntry(entry))
    <3>1. FailEntry(entry).attempt <= FailEntry(entry).retries
      BY <2>4, <2>5
    <3>2. FailEntry(entry).attempt \in Nat /\ FailEntry(entry).retries \in Nat
      BY <2>3, ConstantsOK DEF Entries, Attempts
    <3>3. FailEntry(entry).attempt <=
            FailEntry(entry).retries + (IF FailEntry(entry).inFlight THEN 1
                                        ELSE 0)
      BY <2>4, <3>1, <3>2
    <3> QED BY <2>3, <2>4, <3>3, Zenon DEF PaidFor
  <2> QED BY <1>2, <2>4, <2>6
<1> QED BY <1>1, <1>2

(* An entry that waits may be put in flight.                               *)
Marked(entry) == [entry EXCEPT !.inFlight = TRUE, !.attempt = @ + 1]

LEMMA MarkedEntry ==
  ASSUME NEW entry, PaidFor(entry), entry.queued, ~ entry.inFlight
  PROVE  /\ PaidFor(Marked(entry)) /\ Marked(entry).queued
         /\ entry.attempt + 1 \in Attempts
<1>1. entry.attempt + 1 <= entry.retries + 1 /\ entry.attempt + 1 \in Attempts
  BY ConstantsOK DEF PaidFor, Entries, Attempts
<1>2. Marked(entry) \in Entries BY <1>1 DEF Marked, PaidFor, Entries
<1>3. /\ Marked(entry).attempt = entry.attempt + 1
      /\ Marked(entry).retries = entry.retries
      /\ Marked(entry).queued = entry.queued
      /\ Marked(entry).inFlight = TRUE
  BY DEF Marked, PaidFor, Entries
<1> QED BY <1>1, <1>2, <1>3 DEF PaidFor

(* Failing a set of events.                                                *)
LEMMA FailedQueue ==
  ASSUME QueuePaidFor, NEW F \in SUBSET Events
  PROVE  \A e \in Events :
           /\ PaidFor(FailAll(F)[e])
           /\ FailAll(F)[e].queued => queue[e].queued
           /\ queue[e].queued /\ ~ FailAll(F)[e].queued => e \in GivenUp(F)
<1> SUFFICES ASSUME NEW e \in Events
             PROVE  /\ PaidFor(FailAll(F)[e])
                    /\ FailAll(F)[e].queued => queue[e].queued
                    /\ queue[e].queued /\ ~ FailAll(F)[e].queued
                         => e \in GivenUp(F)
  OBVIOUS
<1>1. PaidFor(queue[e]) BY DEF QueuePaidFor
<1>2. CASE e \in F
  <2>1. FailAll(F)[e] = FailEntry(queue[e]) BY <1>2 DEF FailAll
  <2>2. queue[e].queued /\ ~ FailEntry(queue[e]).queued => GivesUp(queue[e])
    BY <1>1, FailedEntry
  <2>3. PaidFor(FailEntry(queue[e]))
        /\ (FailEntry(queue[e]).queued => queue[e].queued)
    BY <1>1, FailedEntry
  <2> QED BY <1>2, <2>1, <2>2, <2>3 DEF GivenUp
<1>3. CASE e \notin F
  <2>1. FailAll(F)[e] = queue[e] BY <1>3 DEF FailAll
  <2> QED BY <1>1, <2>1
<1> QED BY <1>2, <1>3

(***************************************************************************)
(* What an action may do to the queue: take one event in when there is     *)
(* room, or change entries without adding any, losing only events that     *)
(* were given up on or settled.                                            *)
(***************************************************************************)
TakesIn ==
  \E e \in Events : /\ Cardinality(InQueue) < QueueCap
                    /\ queue' = [queue EXCEPT ![e] = Fresh]

Settles(e) ==
  /\ conn = "open" /\ down # <<>>
  /\ \E r \in Head(down) : r.id = e /\ r.status \in {"ACCEPTED", "DISCARDED"}

Changes ==
  /\ queue' \in [Events -> Entries]
  /\ \A e \in Events :
       /\ PaidFor(queue'[e])
       /\ queue'[e].queued => queue[e].queued
       /\ queue[e].queued /\ ~ queue'[e].queued => e \in dropped' \/ Settles(e)

LEMMA SubmitTakesIn ==
  ASSUME NEW e \in Events, Submit(e)
  PROVE  /\ TakesIn \/ queue' = queue
         /\ SubmitStatus(e) = "ACCEPTED" /\ queue \in [Events -> Entries]
              => queue'[e].queued
<1>1. CASE SubmitStatus(e) = "ACCEPTED" /\ ~ queue[e].queued
  <2>1. queue' = [queue EXCEPT ![e] = Fresh] BY <1>1 DEF Submit
  <2>2. ~ (Cardinality(InQueue) >= QueueCap)
    BY <1>1 DEF SubmitStatus
  <2>3. Fresh.queued BY DEF Fresh, NoEntry
  <2>4. Cardinality(InQueue) < QueueCap
    <3>1. InQueue \subseteq Events BY DEF InQueue
    <3>2. IsFiniteSet(InQueue) BY <3>1, ConstantsOK, FS_Subset
    <3>3. Cardinality(InQueue) \in Nat BY <3>2, FS_CardinalityType
    <3> QED BY <2>2, <3>3, ConstantsOK
  <2>5. TakesIn BY <2>1, <2>4 DEF TakesIn
  <2> QED BY <2>1, <2>3, <2>5
<1>2. CASE ~ (SubmitStatus(e) = "ACCEPTED" /\ ~ queue[e].queued)
  BY <1>2 DEF Submit
<1> QED BY <1>1, <1>2

LEMMA FailChanges ==
  ASSUME QueuePaidFor, NEW F \in SUBSET Events,
         queue' = FailAll(F), dropped' = dropped \cup GivenUp(F)
  PROVE  Changes
<1>1. queue' \in [Events -> Entries]
  BY FailedQueue DEF FailAll, PaidFor
<1> QED BY <1>1, FailedQueue DEF Changes

LEMMA IterateChanges ==
  ASSUME QueuePaidFor, NEW s \in Sessions,
         NEW overdue \in SUBSET InFlight, Iterate(s, overdue), TypeOK
  PROVE  /\ Changes
         /\ sender' \in [Sessions -> [pc : {"none", "loop", "sending", "exit"},
                                      batch : SUBSET Sent]]
<1> DEFINE failed == FailAll(overdue)
           batch == {e \in Events : failed[e].queued /\ ~ failed[e].inFlight}
<1>1. /\ queue' = [e \in Events |-> IF e \in batch THEN Marked(failed[e])
                                    ELSE failed[e]]
      /\ dropped' = dropped \cup GivenUp(overdue)
      /\ sender' = IF batch = {} THEN sender ELSE [sender EXCEPT ![s] =
           [pc |-> "sending",
            batch |-> {[id |-> e, attempt |-> failed[e].attempt + 1] :
                         e \in batch}]]
  BY DEF Iterate, Marked
<1>2. overdue \in SUBSET Events BY DEF InFlight
<1>3. \A e \in Events :
        /\ PaidFor(failed[e])
        /\ failed[e].queued => queue[e].queued
        /\ queue[e].queued /\ ~ failed[e].queued => e \in GivenUp(overdue)
  BY <1>2, FailedQueue
<1>4. batch \subseteq Events
      /\ \A e \in batch : failed[e].queued /\ ~ failed[e].inFlight
  OBVIOUS
<1> HIDE DEF failed, batch
<1>5. \A e \in batch : /\ PaidFor(Marked(failed[e]))
                       /\ Marked(failed[e]).queued
                       /\ failed[e].attempt + 1 \in Attempts
  BY <1>3, <1>4, MarkedEntry
<1>6. Changes
  <2>1. \A e \in Events : queue'[e] = IF e \in batch THEN Marked(failed[e])
                                      ELSE failed[e]
    BY <1>1
  <2>2. \A e \in Events : PaidFor(queue'[e]) BY <1>3, <1>5, <2>1
  <2>3. queue' \in [Events -> Entries] BY <1>1, <2>1, <2>2 DEF PaidFor
  <2>4. \A e \in Events :
          /\ queue'[e].queued => queue[e].queued
          /\ queue[e].queued /\ ~ queue'[e].queued => e \in dropped'
    BY <1>1, <1>3, <1>4, <1>5, <2>1
  <2> QED BY <2>2, <2>3, <2>4 DEF Changes
<1>7. {[id |-> e, attempt |-> failed[e].attempt + 1] : e \in batch}
        \in SUBSET Sent
  BY <1>4, <1>5 DEF Sent
<1>8. sender' \in [Sessions -> [pc : {"none", "loop", "sending", "exit"},
                                batch : SUBSET Sent]]
  BY <1>1, <1>7 DEF TypeOK
<1> QED BY <1>6, <1>8

LEMMA AckChanges ==
  ASSUME QueuePaidFor, Ack
  PROVE  Changes
<1> DEFINE heard(status) ==
             {e \in InQueue : \E r \in Head(down) :
                r.id = e /\ r.attempt = queue[e].attempt /\ r.status = status}
           settled == heard("ACCEPTED") \cup heard("DISCARDED")
           failing == heard("RETRYABLE")
<1>1. /\ queue' = [e \in Events |-> IF e \in settled THEN NoEntry
                                    ELSE FailAll(failing)[e]]
      /\ dropped' = dropped \cup GivenUp(failing)
      /\ conn = "open" /\ down # <<>>
  BY DEF Ack
<1>2. failing \in SUBSET Events BY DEF InQueue
<1>3. \A e \in settled : Settles(e) BY <1>1 DEF Settles
<1> HIDE DEF settled, failing
<1>4. \A e \in Events :
        /\ PaidFor(FailAll(failing)[e])
        /\ FailAll(failing)[e].queued => queue[e].queued
        /\ queue[e].queued /\ ~ FailAll(failing)[e].queued
             => e \in GivenUp(failing)
  BY <1>2, FailedQueue
<1>5. \A e \in Events : queue'[e] = IF e \in settled THEN NoEntry
                                    ELSE FailAll(failing)[e]
  BY <1>1
<1>6. \A e \in Events : PaidFor(queue'[e]) BY <1>4, <1>5, NewEntries
<1>7. queue' \in [Events -> Entries] BY <1>1, <1>5, <1>6 DEF PaidFor
<1>8. ~ NoEntry.queued BY DEF NoEntry
<1> QED BY <1>1, <1>3, <1>4, <1>5, <1>6, <1>7, <1>8 DEF Changes

(* Every step is one of these, or leaves the queue alone.                  *)
LEMMA QueueStep ==
  ASSUME TypeOK, QueuePaidFor, [Next]_vars
  PROVE  TakesIn \/ Changes \/ queue' = queue
<1>1. InFlight \in SUBSET Events BY DEF InFlight
<1>2. CASE \E e \in Events : Deliver(e)
  BY <1>2, SubmitTakesIn DEF Deliver
<1>3. CASE Close BY <1>1, <1>3, FailChanges DEF Close
<1>4. CASE \E s \in Sessions : SendFails(s)
  <2>1. PICK s \in Sessions : SendFails(s) BY <1>4
  <2>2. {m.id : m \in sender[s].batch} \cap InFlight \in SUBSET Events
    BY <1>1
  <2> QED BY <2>1, <2>2, FailChanges DEF SendFails
<1>5. CASE \E s \in Sessions : \E overdue \in SUBSET InFlight :
              Iterate(s, overdue)
  BY <1>5, IterateChanges
<1>6. CASE Ack BY <1>6, AckChanges
<1>7. ASSUME ~ \E e \in Events : Deliver(e), ~ Close, ~ Ack,
             ~ \E s \in Sessions : SendFails(s),
             ~ \E s \in Sessions : \E overdue \in SUBSET InFlight :
                  Iterate(s, overdue)
      PROVE  queue' = queue
  BY <1>7, Zenon DEF Next, Report, Webhook, Requeue, Take, Open, Break,
     Configure, Sender, Send, Exit, Handle, vars
<1> QED BY <1>2, <1>3, <1>4, <1>5, <1>6, <1>7

LEMMA QueueSafe ==
  ASSUME TypeOK, QueuePaidFor, TakesIn \/ Changes \/ queue' = queue
  PROVE  /\ QueuePaidFor'
         /\ queue' \in [Events -> Entries]
         /\ Cardinality(InQueue') <= QueueCap
<1>1. InQueue \subseteq Events /\ IsFiniteSet(InQueue)
  BY ConstantsOK, FS_Subset DEF InQueue
<1>2. queue \in [Events -> Entries] /\ Cardinality(InQueue) <= QueueCap
  BY DEF TypeOK
<1>3. CASE TakesIn
  <2>1. PICK e \in Events : /\ Cardinality(InQueue) < QueueCap
                            /\ queue' = [queue EXCEPT ![e] = Fresh]
    BY <1>3 DEF TakesIn
  <2>2. Fresh \in Entries /\ Fresh.queued BY NewEntries DEF PaidFor, Fresh
  <2>3. queue' \in [Events -> Entries] BY <1>2, <2>1, <2>2
  <2>4. \A f \in Events : queue'[f] = IF f = e THEN Fresh ELSE queue[f]
    BY <1>2, <2>1
  <2>5. QueuePaidFor' BY <2>4, NewEntries DEF QueuePaidFor
  <2>6. InQueue' = InQueue \cup {e} BY <2>2, <2>4 DEF InQueue
  <2>7. Cardinality(InQueue) \in Nat
        /\ (Cardinality(InQueue \cup {e}) = Cardinality(InQueue)
            \/ Cardinality(InQueue \cup {e}) = Cardinality(InQueue) + 1)
    BY <1>1, FS_AddElement, FS_CardinalityType
  <2>8. Cardinality(InQueue') <= QueueCap
    BY <2>1, <2>6, <2>7, ConstantsOK
  <2> QED BY <2>3, <2>5, <2>8
<1>4. CASE Changes
  <2>1. InQueue' \subseteq InQueue BY <1>4 DEF Changes, InQueue
  <2>2. Cardinality(InQueue') <= Cardinality(InQueue)
        /\ Cardinality(InQueue') \in Nat /\ Cardinality(InQueue) \in Nat
    BY <1>1, <2>1, FS_Subset, FS_CardinalityType
  <2>3. Cardinality(InQueue') <= QueueCap BY <1>2, <2>2, ConstantsOK
  <2> QED BY <1>4, <2>3 DEF Changes, QueuePaidFor
<1>5. CASE queue' = queue
  <2>1. InQueue' = InQueue BY <1>5 DEF InQueue
  <2> QED BY <1>2, <1>5, <2>1 DEF QueuePaidFor
<1> QED BY <1>3, <1>4, <1>5

(***************************************************************************)
(* The other variables.                                                    *)
(***************************************************************************)
SenderType == [pc : {"none", "loop", "sending", "exit"}, batch : SUBSET Sent]

(* An event that the webhook will post again has posts left.               *)
PostsLeft ==
  \A e \in Events :
    hook[e].at \in {"none", "queued", "waiting"} => hook[e].posts < MaxPosts

HookOK == hook \in [Events -> [at : Places, posts : 0..MaxPosts]] /\ PostsLeft

LEMMA MoveHook ==
  ASSUME HookOK, NEW e \in Events, NEW p \in Places,
         p \in {"queued", "waiting"} => hook[e].posts < MaxPosts, p # "none",
         hook' = [hook EXCEPT ![e].at = p]
  PROVE  HookOK'
<1>1. hook' \in [Events -> [at : Places, posts : 0..MaxPosts]] BY DEF HookOK
<1>2. hook'[e].at = p /\ hook'[e].posts = hook[e].posts BY DEF HookOK
<1>3. \A f \in Events \ {e} : hook'[f] = hook[f] BY DEF HookOK
<1> QED BY <1>1, <1>2, <1>3 DEF HookOK, PostsLeft

LEMMA WebhookStep ==
  ASSUME HookOK, dropped \subseteq Events, [Next]_vars
  PROVE  HookOK'
<1>1. ASSUME NEW e \in Events, Report(e) \/ Requeue(e) PROVE HookOK'
  <2>1. hook[e].posts < MaxPosts BY <1>1 DEF Report, Requeue, HookOK, PostsLeft
  <2>2. hook' = [hook EXCEPT ![e].at = "queued"]
        \/ hook' = [hook EXCEPT ![e].at = "lost"]
    BY <1>1 DEF Report, Requeue, Enqueue
  <2>3. {"queued", "lost"} \subseteq Places BY DEF Places
  <2> QED BY <2>1, <2>2, <2>3, MoveHook
<1>2. ASSUME NEW e \in Events, Take(e) PROVE HookOK'
  <2>1. hook[e].posts + 1 \in 0..MaxPosts
    BY <1>2, ConstantsOK DEF Take, HookOK, PostsLeft
  <2>2. hook' = [hook EXCEPT ![e] = [at |-> "posting",
                                     posts |-> hook[e].posts + 1]]
    BY <1>2 DEF Take
  <2>3. hook' \in [Events -> [at : Places, posts : 0..MaxPosts]]
    BY <2>1, <2>2 DEF HookOK, Places
  <2>4. hook'[e].at = "posting" BY <2>2 DEF HookOK
  <2>5. \A f \in Events \ {e} : hook'[f] = hook[f] BY <2>2 DEF HookOK
  <2> QED BY <2>3, <2>4, <2>5 DEF HookOK, PostsLeft
<1>3. ASSUME NEW e \in Events, Deliver(e) PROVE HookOK'
  <2>1. hook[e].posts \in 0..MaxPosts BY DEF HookOK
  <2>2. \/ hook' = [hook EXCEPT ![e].at = "done"]
        \/ hook' = [hook EXCEPT ![e].at = "lost"]
        \/ /\ ~ (hook[e].posts >= MaxPosts)
           /\ hook' = [hook EXCEPT ![e].at = "waiting"]
    BY <1>3 DEF Deliver, NotDelivered
  <2>3. ~ (hook[e].posts >= MaxPosts) => hook[e].posts < MaxPosts
    BY <2>1, ConstantsOK
  <2>4. {"done", "lost", "waiting"} \subseteq Places BY DEF Places
  <2> QED BY <2>2, <2>3, <2>4, MoveHook
<1>4. ASSUME ~ \E e \in Events : Report(e) \/ Requeue(e) \/ Take(e) \/ Deliver(e)
      PROVE  hook' = hook
  BY <1>4, Zenon DEF Next, Webhook, Close, Open, Break, Configure, Sender,
     Iterate, Send, SendFails, Exit, Ack, Handle, vars
<1>5. CASE hook' = hook BY <1>5 DEF HookOK, PostsLeft
<1> QED BY <1>1, <1>2, <1>3, <1>4, <1>5

(* The sessions, their senders and the counters.                           *)
LEMMA SessionStep ==
  ASSUME TypeOK, QueuePaidFor, [Next]_vars
  PROVE  /\ config' \in {"none", "retry", "noretry"}
         /\ conn' \in {"closed", "open", "broken"}
         /\ session' \in 0..MaxSessions
         /\ sender' \in [Sessions -> SenderType]
         /\ configs' \in 0..MaxConfigs /\ faults' \in 0..MaxFaults
<1>0. /\ config \in {"none", "retry", "noretry"}
      /\ conn \in {"closed", "open", "broken"} /\ session \in 0..MaxSessions
      /\ sender \in [Sessions -> SenderType]
      /\ configs \in 0..MaxConfigs /\ faults \in 0..MaxFaults
  BY DEF TypeOK, SenderType
<1>1. CASE \E e \in Events : Report(e) \/ Requeue(e) \/ Take(e) \/ Deliver(e)
  BY <1>0, <1>1, ConstantsOK DEF Report, Requeue, Take, Deliver, Fault
<1>2. CASE Close \/ Break \/ Ack
  BY <1>0, <1>2 DEF Close, Break, Ack
<1>3. CASE Open
  <2>1. session' \in 0..MaxSessions BY <1>0, <1>3, ConstantsOK DEF Open
  <2>2. sender' \in [Sessions -> SenderType]
    BY <1>0, <1>3 DEF Open, SenderType
  <2> QED BY <1>0, <1>3, <2>1, <2>2 DEF Open
<1>4. CASE Configure
  BY <1>0, <1>4, ConstantsOK DEF Configure
<1>5. CASE \E s \in Sessions : \E overdue \in SUBSET InFlight :
              Iterate(s, overdue)
  <2>1. PICK s \in Sessions : \E overdue \in SUBSET InFlight :
               Iterate(s, overdue)
    BY <1>5
  <2>2. PICK overdue \in SUBSET InFlight : Iterate(s, overdue) BY <2>1
  <2>3. sender' \in [Sessions -> SenderType]
    BY <2>2, IterateChanges DEF SenderType
  <2> QED BY <1>0, <2>2, <2>3 DEF Iterate
<1>6. CASE \E s \in Sessions : Send(s) \/ SendFails(s) \/ Exit(s)
  <2>1. PICK s \in Sessions : Send(s) \/ SendFails(s) \/ Exit(s) BY <1>6
  <2>2. \/ sender' = [sender EXCEPT ![s] = [pc |-> "loop", batch |-> {}]]
        \/ sender' = [sender EXCEPT ![s] = [pc |-> "exit", batch |-> {}]]
        \/ sender' = [sender EXCEPT ![s].pc = "exit"]
    BY <2>1 DEF Send, SendFails, Exit
  <2>3. sender' \in [Sessions -> SenderType]
    BY <1>0, <2>2 DEF SenderType
  <2> QED BY <1>0, <2>1, <2>3 DEF Send, SendFails, Exit
<1>7. CASE Handle
  BY <1>0, <1>7, ConstantsOK DEF Handle, Fault
<1>8. CASE UNCHANGED vars BY <1>0, <1>8 DEF vars
<1> QED BY <1>1, <1>2, <1>3, <1>4, <1>5, <1>6, <1>7, <1>8
       DEF Next, Webhook, Sender

-----------------------------------------------------------------------------
(***************************************************************************)
(* Messages and the database.  An acknowledgement on its way tells the     *)
(* truth: ACCEPTED of a stored event, DISCARDED of one the rules leave out.*)
(***************************************************************************)
TrueResult(r) == /\ r.status = "ACCEPTED" => r.id \in stored
                 /\ r.status = "DISCARDED" => r.id \notin Retained

AnswersTrue == \A i \in 1..Len(down) : \A r \in down[i] : TrueResult(r)

MessagesOK ==
  /\ up \in Seq(SUBSET Sent) /\ Len(up) <= StreamCap
  /\ down \in Seq(SUBSET Results) /\ Len(down) <= StreamCap
  /\ stored \subseteq Events
  /\ AnswersTrue

LEMMA TailFacts ==
  ASSUME NEW S, NEW q \in Seq(S), Len(q) <= StreamCap, q # <<>>
  PROVE  /\ Tail(q) \in Seq(S) /\ Len(Tail(q)) <= StreamCap
         /\ Head(q) \in S /\ Head(q) = q[1] /\ 1 \in 1..Len(q)
         /\ \A i \in 1..Len(Tail(q)) :
              Tail(q)[i] = q[i + 1] /\ i + 1 \in 1..Len(q)
BY ConstantsOK

LEMMA AppendFacts ==
  ASSUME NEW S, NEW q \in Seq(S), Len(q) < StreamCap, NEW m \in S
  PROVE  /\ Append(q, m) \in Seq(S) /\ Len(Append(q, m)) <= StreamCap
         /\ \A i \in 1..Len(Append(q, m)) :
              \/ i \in 1..Len(q) /\ Append(q, m)[i] = q[i]
              \/ Append(q, m)[i] = m
BY ConstantsOK

(* What the gateway answers, and what it has stored by then.               *)
LEMMA HandleAnswers ==
  ASSUME MessagesOK, Handle
  PROVE  /\ up' = Tail(up) /\ up # <<>> /\ Len(down) < StreamCap
         /\ stored \subseteq stored' /\ stored' \subseteq Events
         /\ \E a \in SUBSET Results : /\ down' = Append(down, a)
                                      /\ \A r \in a : TrueResult(r)'
<1> DEFINE batch == Head(up)
           written == {m.id : m \in batch} \cap Retained
<1>1. up' = Tail(up) /\ up # <<>> /\ Len(down) < StreamCap BY DEF Handle
<1>2. batch \in SUBSET Sent BY <1>1, TailFacts DEF MessagesOK
<1>3. written \subseteq Events BY ConstantsOK
<1>4. \/ /\ stored' = stored \cup written
         /\ down' = Append(down, {Answer(m, Verdict(m.id)) : m \in batch})
      \/ /\ stored' = stored
         /\ down' = Append(down, {Answer(m, AllRetryable(m.id)) : m \in batch})
      \/ /\ stored' = stored \/ stored' = stored \cup written
         /\ down' = Append(down, {Answer(m, AcceptedRetryable(m.id)) : m \in batch})
  BY DEF Handle
<1>5. stored \subseteq stored' /\ stored' \subseteq Events
  BY <1>3, <1>4 DEF MessagesOK
<1> HIDE DEF batch
<1>6. CASE stored' = stored \cup written
           /\ down' = Append(down, {Answer(m, Verdict(m.id)) : m \in batch})
  <2>1. {Answer(m, Verdict(m.id)) : m \in batch} \in SUBSET Results
    BY <1>2 DEF Answer, Verdict, Results, Sent
  <2>2. ASSUME NEW r \in {Answer(m, Verdict(m.id)) : m \in batch} PROVE TrueResult(r)'
    <3>1. PICK m \in batch : r = [id |-> m.id, attempt |-> m.attempt,
                                  status |-> Verdict(m.id)]
      BY DEF Answer
    <3>2. r.id = m.id /\ r.status = Verdict(m.id) BY <3>1
    <3>3. m.id \in Retained => m.id \in stored' BY <1>6
    <3> QED BY <3>2, <3>3 DEF TrueResult, Verdict
  <2> QED BY <1>1, <1>5, <1>6, <2>1, <2>2
<1>7. CASE down' = Append(down, {Answer(m, AllRetryable(m.id)) : m \in batch})
  <2>1. {Answer(m, AllRetryable(m.id)) : m \in batch} \in SUBSET Results
    BY <1>2 DEF Answer, AllRetryable, Results, Sent
  <2>2. \A r \in {Answer(m, AllRetryable(m.id)) : m \in batch} : TrueResult(r)'
    BY DEF Answer, AllRetryable, TrueResult
  <2> QED BY <1>1, <1>5, <1>7, <2>1, <2>2
<1>8. CASE down' = Append(down, {Answer(m, AcceptedRetryable(m.id)) : m \in batch})
  <2>1. {Answer(m, AcceptedRetryable(m.id)) : m \in batch} \in SUBSET Results
    BY <1>2 DEF Answer, AcceptedRetryable, Verdict, Results, Sent
  <2>2. \A r \in {Answer(m, AcceptedRetryable(m.id)) : m \in batch} : TrueResult(r)'
    BY DEF Answer, AcceptedRetryable, Verdict, TrueResult
  <2> QED BY <1>1, <1>5, <1>8, <2>1, <2>2
<1> QED BY <1>4, <1>6, <1>7, <1>8

LEMMA MessageStep ==
  ASSUME TypeOK, MessagesOK, [Next]_vars
  PROVE  MessagesOK' /\ stored \subseteq stored'
<1>1. CASE Break
  <2>1. up' = <<>> /\ down' = <<>> /\ stored' = stored BY <1>1 DEF Break
  <2>2. Len(<<>>) = 0 /\ <<>> \in Seq(SUBSET Sent) /\ <<>> \in Seq(SUBSET Results)
    OBVIOUS
  <2>3. AnswersTrue' BY <2>1, <2>2 DEF AnswersTrue
  <2> QED BY <2>1, <2>2, <2>3, ConstantsOK DEF MessagesOK
<1>2. CASE \E s \in Sessions : Send(s)
  <2>1. PICK s \in Sessions : Send(s) BY <1>2
  <2>2. sender[s].batch \in SUBSET Sent BY DEF TypeOK
  <2>3. /\ up' = Append(up, sender[s].batch) /\ Len(up) < StreamCap
        /\ down' = down /\ stored' = stored
    BY <2>1 DEF Send
  <2>4. up' \in Seq(SUBSET Sent) /\ Len(up') <= StreamCap
    BY <2>2, <2>3, AppendFacts DEF MessagesOK
  <2> QED BY <2>3, <2>4 DEF MessagesOK, AnswersTrue, TrueResult
<1>3. CASE Ack
  <2>1. down' = Tail(down) /\ down # <<>> /\ up' = up /\ stored' = stored
    BY <1>3 DEF Ack
  <2>2. /\ down' \in Seq(SUBSET Results) /\ Len(down') <= StreamCap
        /\ \A i \in 1..Len(down') : down'[i] = down[i + 1]
                                   /\ i + 1 \in 1..Len(down)
    BY <2>1, TailFacts DEF MessagesOK
  <2>3. AnswersTrue' BY <2>1, <2>2 DEF MessagesOK, AnswersTrue, TrueResult
  <2> QED BY <2>1, <2>2, <2>3 DEF MessagesOK
<1>4. CASE Handle
  <2>1. PICK a \in SUBSET Results : /\ down' = Append(down, a)
                                   /\ \A r \in a : TrueResult(r)'
    BY <1>4, HandleAnswers
  <2>2. /\ up' = Tail(up) /\ up # <<>> /\ Len(down) < StreamCap
        /\ stored \subseteq stored' /\ stored' \subseteq Events
    BY <1>4, HandleAnswers
  <2>3. up' \in Seq(SUBSET Sent) /\ Len(up') <= StreamCap
    BY <2>2, TailFacts DEF MessagesOK
  <2>4. /\ down' \in Seq(SUBSET Results) /\ Len(down') <= StreamCap
        /\ \A i \in 1..Len(down') :
             (i \in 1..Len(down) /\ down'[i] = down[i]) \/ down'[i] = a
    <3>1. down \in Seq(SUBSET Results) BY DEF MessagesOK
    <3> QED BY <2>1, <2>2, <3>1, AppendFacts
  <2>5. AnswersTrue'
    <3> SUFFICES ASSUME NEW i \in 1..Len(down'), NEW r \in down'[i]
                 PROVE  TrueResult(r)'
      BY DEF AnswersTrue
    <3>1. CASE down'[i] = a BY <2>1, <3>1
    <3>2. CASE i \in 1..Len(down) /\ down'[i] = down[i]
      <4>1. TrueResult(r) BY <3>2 DEF MessagesOK, AnswersTrue
      <4> QED BY <2>2, <4>1 DEF TrueResult
    <3> QED BY <2>4, <3>1, <3>2
  <2> QED BY <2>2, <2>3, <2>4, <2>5 DEF MessagesOK
<1>5. ASSUME ~ Break, ~ Ack, ~ Handle, ~ \E s \in Sessions : Send(s)
      PROVE  UNCHANGED <<up, down, stored>>
  BY <1>5, Zenon DEF Next, Report, Webhook, Requeue, Take, Deliver, Close,
     Open, Configure, Sender, Iterate, SendFails, Exit, vars
<1>6. CASE UNCHANGED <<up, down, stored>>
  BY <1>6 DEF MessagesOK, AnswersTrue, TrueResult
<1> QED BY <1>1, <1>2, <1>3, <1>4, <1>5, <1>6

(* Given up for good: what has been recorded as dropped stays so.          *)
LEMMA DroppedStep ==
  ASSUME dropped \subseteq Events, [Next]_vars
  PROVE  dropped \subseteq dropped' /\ dropped' \subseteq Events
<1>1. ASSUME NEW F \in SUBSET Events, dropped' = dropped \cup GivenUp(F)
      PROVE  dropped \subseteq dropped' /\ dropped' \subseteq Events
  BY <1>1 DEF GivenUp
<1>2. InFlight \in SUBSET Events /\ InQueue \in SUBSET Events
  BY DEF InFlight, InQueue
<1>3. CASE \E e \in Events : Report(e) \/ Requeue(e) \/ Take(e) \/ Deliver(e)
  BY <1>3 DEF Report, Requeue, Enqueue, Take, Deliver, NotDelivered
<1>4. CASE Close BY <1>1, <1>2, <1>4 DEF Close
<1>5. CASE \E s \in Sessions : \E overdue \in SUBSET InFlight :
              Iterate(s, overdue)
  BY <1>1, <1>2, <1>5 DEF Iterate
<1>6. CASE \E s \in Sessions : SendFails(s)
  <2>1. PICK s \in Sessions : SendFails(s) BY <1>6
  <2>2. {m.id : m \in sender[s].batch} \cap InFlight \in SUBSET Events
    BY <1>2
  <2> QED BY <1>1, <2>1, <2>2 DEF SendFails
<1>7. CASE Ack BY <1>1, <1>2, <1>7 DEF Ack
<1>8. CASE Open \/ Break \/ Configure \/ Handle
           \/ (\E s \in Sessions : Send(s) \/ Exit(s))
  BY <1>8 DEF Open, Break, Configure, Handle, Send, Exit
<1>9. CASE UNCHANGED vars BY <1>9 DEF vars
<1> QED BY <1>3, <1>4, <1>5, <1>6, <1>7, <1>8, <1>9 DEF Next, Webhook, Sender

-----------------------------------------------------------------------------
(* The inductive invariant.                                                *)
IInv == TypeOK /\ QueuePaidFor /\ PostsLeft /\ AnswersTrue /\ NoSilentLoss

(* An event that leaves the operator's queue was given up on, is stored,   *)
(* or is none that the rules keep; an event that the webhook is done with  *)
(* has just been taken in, or was done before.                             *)
LEMMA NoSilentLossStep ==
  ASSUME IInv, [Next]_vars,
         stored \subseteq stored', dropped \subseteq dropped'
  PROVE  NoSilentLoss'
<1> SUFFICES ASSUME NEW e \in Retained, hook'[e].at = "done"
             PROVE  queue'[e].queued \/ e \in stored' \/ e \in dropped'
  BY DEF NoSilentLoss
<1>1. e \in Events BY ConstantsOK
<1>2. /\ TypeOK /\ QueuePaidFor /\ AnswersTrue
      /\ queue \in [Events -> Entries]
      /\ hook \in [Events -> [at : Places, posts : 0..MaxPosts]]
  BY DEF IInv, TypeOK
<1>3. CASE hook[e].at = "done"
  <2>1. queue[e].queued \/ e \in stored \/ e \in dropped
    BY <1>3 DEF IInv, NoSilentLoss
  <2>2. CASE queue[e].queued
    <3>1. CASE TakesIn
      BY <1>1, <1>2, <2>2, <3>1 DEF TakesIn, Fresh
    <3>2. CASE Changes
      <4>1. queue'[e].queued \/ e \in dropped' \/ Settles(e)
        BY <1>1, <2>2, <3>2 DEF Changes
      <4>2. ASSUME Settles(e) PROVE e \in stored
        <5>1. PICK r \in Head(down) :
                r.id = e /\ r.status \in {"ACCEPTED", "DISCARDED"}
          BY <4>2 DEF Settles
        <5>2. Head(down) = down[1] /\ 1 \in 1..Len(down)
          BY <1>2, <4>2, TailFacts DEF Settles, TypeOK
        <5>3. TrueResult(r) BY <1>2, <5>1, <5>2 DEF AnswersTrue
        <5> QED BY <5>1, <5>3 DEF TrueResult
      <4> QED BY <4>1, <4>2
    <3>3. CASE queue' = queue BY <2>2, <3>3
    <3> QED BY <1>2, <3>1, <3>2, <3>3, QueueStep
  <2> QED BY <2>1, <2>2
<1>4. CASE hook[e].at # "done"
  <2>1. PICK f \in Events : Deliver(f)
    <3>1. \E f \in Events :
            Report(f) \/ Requeue(f) \/ Take(f) \/ Deliver(f)
      <4> SUFFICES ASSUME ~ \E f \in Events : Report(f) \/ Requeue(f)
                                            \/ Take(f) \/ Deliver(f)
                   PROVE  hook' = hook
        BY <1>4
      <4> QED BY Zenon DEF Next, Webhook, Close, Open, Break, Configure, Sender,
             Iterate, Send, SendFails, Exit, Ack, Handle, vars
    <3>2. ASSUME NEW f \in Events, Report(f) \/ Requeue(f) \/ Take(f)
          PROVE  FALSE
      <4>1. \E p \in {"queued", "lost", "posting"} :
              \A g \in Events : hook'[g].at = IF g = f THEN p ELSE hook[g].at
        BY <1>2, <3>2 DEF Report, Requeue, Enqueue, Take
      <4> QED BY <1>1, <1>4, <4>1
    <3> QED BY <3>1, <3>2
  <2>2. f = e /\ hook' = [hook EXCEPT ![f].at = "done"]
    <3>1. \E p \in {"done", "lost", "waiting"} :
            hook' = [hook EXCEPT ![f].at = p]
      BY <2>1 DEF Deliver, NotDelivered
    <3>2. PICK p \in {"done", "lost", "waiting"} :
            hook' = [hook EXCEPT ![f].at = p]
      BY <3>1
    <3>3. \A g \in Events : hook'[g].at = IF g = f THEN p ELSE hook[g].at
      BY <1>2, <3>2
    <3> QED BY <1>1, <1>4, <3>2, <3>3
  <2>3. hook'[e].at = "done" OBVIOUS
  <2>4. Submit(e) /\ SubmitStatus(e) # "RETRYABLE"
    <3>1. ASSUME NotDelivered(e) PROVE FALSE
      <4>1. hook'[e].at \in {"lost", "waiting"}
        BY <1>1, <1>2, <3>1 DEF NotDelivered
      <4> QED BY <2>3, <4>1
    <3> QED BY <2>1, <2>2, <3>1 DEF Deliver
  <2>5. SubmitStatus(e) = "ACCEPTED"
    BY <2>4 DEF SubmitStatus
  <2> QED BY <1>1, <1>2, <2>4, <2>5, SubmitTakesIn
<1> QED BY <1>3, <1>4

LEMMA EventStarts == Init => IInv
<1> SUFFICES ASSUME Init PROVE IInv OBVIOUS
<1>1. queue \in [Events -> Entries] /\ QueuePaidFor
  BY NewEntries DEF Init, QueuePaidFor, PaidFor
<1>2. InQueue = {} BY DEF Init, InQueue, NoEntry
<1>3. Cardinality(InQueue) <= QueueCap BY <1>2, FS_EmptySet, ConstantsOK
<1>4. hook \in [Events -> [at : Places, posts : 0..MaxPosts]]
      /\ PostsLeft /\ NoSilentLoss
  BY ConstantsOK DEF Init, Places, PostsLeft, NoSilentLoss
<1>5. /\ up \in Seq(SUBSET Sent) /\ down \in Seq(SUBSET Results)
      /\ Len(up) <= StreamCap /\ Len(down) <= StreamCap /\ AnswersTrue
  <2>1. up = <<>> /\ down = <<>> BY DEF Init
  <2> QED BY <2>1, ConstantsOK DEF AnswersTrue
<1>6. sender \in [Sessions -> [pc : {"none", "loop", "sending", "exit"},
                               batch : SUBSET Sent]]
  BY DEF Init, NoSender
<1>7. TypeOK
  BY <1>1, <1>3, <1>4, <1>5, <1>6, ConstantsOK DEF Init, TypeOK
<1> QED BY <1>1, <1>4, <1>5, <1>7 DEF IInv

LEMMA EventStep ==
  ASSUME IInv, [Next]_vars
  PROVE  IInv'
<1>1. /\ TypeOK /\ QueuePaidFor /\ HookOK /\ MessagesOK
      /\ dropped \subseteq Events
  BY DEF IInv, TypeOK, HookOK, MessagesOK
<1>2. /\ QueuePaidFor' /\ queue' \in [Events -> Entries]
      /\ Cardinality(InQueue') <= QueueCap
  BY <1>1, QueueStep, QueueSafe
<1>3. HookOK' BY <1>1, WebhookStep
<1>4. MessagesOK' /\ stored \subseteq stored' BY <1>1, MessageStep
<1>5. dropped \subseteq dropped' /\ dropped' \subseteq Events
  BY <1>1, DroppedStep
<1>6. NoSilentLoss' BY <1>4, <1>5, NoSilentLossStep
<1>7. /\ config' \in {"none", "retry", "noretry"}
      /\ conn' \in {"closed", "open", "broken"}
      /\ session' \in 0..MaxSessions
      /\ sender' \in [Sessions -> SenderType]
      /\ configs' \in 0..MaxConfigs /\ faults' \in 0..MaxFaults
  BY <1>1, SessionStep
<1>8. TypeOK'
  BY <1>2, <1>3, <1>4, <1>5, <1>7
     DEF TypeOK, HookOK, MessagesOK, SenderType
<1> QED BY <1>2, <1>3, <1>4, <1>6, <1>8 DEF IInv, HookOK, MessagesOK

LEMMA Inductive == Spec => []IInv
BY EventStarts, EventStep, PTL DEF Spec

(* Types and capacities: the operator's queue never holds more than        *)
(* queueCapacity events, and no attempt exceeds maxRetryAttempts + 1.      *)
THEOREM TypeCorrect == Spec => []TypeOK
<1>1. IInv => TypeOK BY DEF IInv
<1> QED BY <1>1, Inductive, PTL

(* Every delivery of a queued event but the one in flight is paid for by a *)
(* retry, also when the sender of an old session fails it late.            *)
THEOREM DeliveriesBounded == Spec => []SendsArePaidFor
<1>1. IInv => SendsArePaidFor
  BY DEF IInv, QueuePaidFor, PaidFor, SendsArePaidFor, InQueue
<1> QED BY <1>1, Inductive, PTL

(* No event that the webhook is done with disappears without being stored, *)
(* recorded as dropped, or still queued.                                   *)
THEOREM NoEventLostSilently == Spec => []NoSilentLoss
<1>1. IInv => NoSilentLoss BY DEF IInv
<1> QED BY <1>1, Inductive, PTL
=============================================================================
