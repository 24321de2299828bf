---------------------------- MODULE EventDelivery ----------------------------
(***************************************************************************)
(* The way of an admission event from the webhook to the gateway's         *)
(* database: the webhook's lossy queue and its posts to the operator       *)
(* (webhook/admission_events.go), the operator's queue of events awaiting  *)
(* an acknowledgement and the sender goroutine of each Sync session        *)
(* (operator/hublink/client.go), the gateway's store and its answers       *)
(* (gateway/admission_events.go).                                          *)
(*                                                                         *)
(* A session's sender marks a batch as in flight, lets go of the lock and  *)
(* sends.  Session and sender do not end together: the sender of a session *)
(* that is over may still hold a batch when the next session has begun.    *)
(* Queues live in memory and end with their process, whose crash is left   *)
(* out.                                                                    *)
(***************************************************************************)
EXTENDS Integers, Sequences, FiniteSets

CONSTANTS Events,      \* event ids
          Retained,    \* the events that the storage rules keep
          HookCap,     \* capacity of the webhook's queue
          MaxPosts,    \* maxWebhookDeliveryAttempts
          QueueCap,    \* queueCapacity of the operator
          MaxRetries,  \* maxRetryAttempts of the operator
          StreamCap,   \* messages that a direction of the stream buffers
          MaxSessions, \* bound: Sync sessions
          MaxConfigs,  \* bound: changes of the delivery settings
          MaxFaults    \* bound: lost posts, lost replies, storage failures

ASSUME ConstantsOK ==
  /\ Retained \subseteq Events /\ IsFiniteSet(Events)
  /\ HookCap \in Nat /\ MaxPosts \in Nat \ {0} /\ QueueCap \in Nat
  /\ MaxRetries \in Nat /\ StreamCap \in Nat \ {0} /\ MaxSessions \in Nat
  /\ MaxConfigs \in Nat /\ MaxFaults \in Nat

VARIABLES
  hook,    \* hook[e]: where the webhook has the event, and its posts so far
  queue,   \* queue[e]: the operator's queuedAdmissionEvent
  config,  \* eventConfig of the operator
  conn,    \* the current session: "closed", "open" or "broken"
  session, \* number of sessions begun
  sender,  \* sender[s]: the goroutine sendAdmissionEvents of session s
  up,      \* batches on their way to the gateway
  down,    \* acknowledgements on their way to the operator
  stored,  \* events in the database
  dropped, \* events given up on, with an incident recorded
  configs, faults

hookVars   == <<hook>>
queueVars  == <<queue, dropped>>
streamVars == <<conn, session, up, down>>
vars == <<hookVars, queueVars, config, streamVars, sender, stored, configs,
          faults>>

Places    == {"none", "queued", "posting", "waiting", "done", "lost"}
Attempts  == 0..(MaxRetries + 1)
Entries   == [queued : BOOLEAN, retries : 0..MaxRetries, attempt : Attempts,
              inFlight : BOOLEAN]
NoEntry   == [queued |-> FALSE, retries |-> 0, attempt |-> 0,
              inFlight |-> FALSE]
Fresh     == [queued |-> TRUE, retries |-> 0, attempt |-> 0,
              inFlight |-> FALSE]
Sent      == [id : Events, attempt : Attempts]
Results   == [id : Events, attempt : Attempts,
              status : {"ACCEPTED", "DISCARDED", "RETRYABLE"}]
Sessions  == 1..MaxSessions
NoSender  == [pc |-> "none", batch |-> {}]

InQueue   == {e \in Events : queue[e].queued}
InFlight  == {e \in Events : queue[e].inFlight}

(* Type invariant: entries, messages and goroutines stay within their      *)
(* types and every queue within its capacity.                              *)
TypeOK ==
  /\ hook \in [Events -> [at : Places, posts : 0..MaxPosts]]
  /\ queue \in [Events -> Entries]
  /\ Cardinality(InQueue) <= QueueCap
  /\ config \in {"none", "retry", "noretry"}
  /\ conn \in {"closed", "open", "broken"} /\ session \in 0..MaxSessions
  /\ sender \in [Sessions -> [pc : {"none", "loop", "sending", "exit"},
                              batch : SUBSET Sent]]
  /\ up \in Seq(SUBSET Sent) /\ Len(up) <= StreamCap
  /\ down \in Seq(SUBSET Results) /\ Len(down) <= StreamCap
  /\ stored \subseteq Events /\ dropped \subseteq Events
  /\ configs \in 0..MaxConfigs /\ faults \in 0..MaxFaults

Init ==
  /\ hook = [e \in Events |-> [at |-> "none", posts |-> 0]]
  /\ queue = [e \in Events |-> NoEntry]
  /\ config = "none"
  /\ conn = "closed" /\ session = 0
  /\ sender = [s \in Sessions |-> NoSender]
  /\ up = <<>> /\ down = <<>>
  /\ stored = {} /\ dropped = {}
  /\ configs = 0 /\ faults = 0

Fault == faults < MaxFaults /\ faults' = faults + 1

(***************************************************************************)
(* The webhook.                                                            *)
(***************************************************************************)
At(place) == {e \in Events : hook[e].at = place}

(* A send on the queue's channel that does not block.                      *)
Enqueue(e) ==
  \/ /\ Cardinality(At("queued")) < HookCap
     /\ hook' = [hook EXCEPT ![e].at = "queued"]
     /\ UNCHANGED dropped
  \/ /\ Cardinality(At("queued")) >= HookCap
     /\ hook' = [hook EXCEPT ![e].at = "lost"]
     /\ dropped' = dropped \cup {e}

Report(e) ==
  /\ hook[e].at = "none"
  /\ Enqueue(e)
  /\ UNCHANGED <<queue, config, streamVars, sender, stored, configs, faults>>

(* The timer of a retry.                                                   *)
Requeue(e) ==
  /\ hook[e].at = "waiting"
  /\ Enqueue(e)
  /\ UNCHANGED <<queue, config, streamVars, sender, stored, configs, faults>>

Take(e) ==
  /\ At("posting") = {}
  /\ hook[e].at = "queued"
  /\ hook' = [hook EXCEPT ![e] = [at |-> "posting", posts |-> @.posts + 1]]
  /\ UNCHANGED <<queueVars, config, streamVars, sender, stored, configs,
                 faults>>

(* SubmitAdmissionEvents on one event: the answer, and the queue after it. *)
SubmitStatus(e) ==
  IF config # "none" /\ e \notin Retained THEN "DISCARDED"
  ELSE IF queue[e].queued THEN "ACCEPTED"
  ELSE IF Cardinality(InQueue) >= QueueCap THEN "RETRYABLE"
  ELSE "ACCEPTED"

(* Mutant: the room in the queue is not checked.                           *)
SubmitUnbounded(e) ==
  queue' = IF SubmitStatus(e) # "DISCARDED" /\ ~queue[e].queued
             THEN [queue EXCEPT ![e] = Fresh]
             ELSE queue

Submit(e) ==
  queue' = IF SubmitStatus(e) = "ACCEPTED" /\ ~queue[e].queued
             THEN [queue EXCEPT ![e] = Fresh]
             ELSE queue

(* What run does with an event that deliver did not get through.           *)
NotDelivered(e) ==
  IF hook[e].posts >= MaxPosts
    THEN hook' = [hook EXCEPT ![e].at = "lost"] /\ dropped' = dropped \cup {e}
    ELSE hook' = [hook EXCEPT ![e].at = "waiting"] /\ UNCHANGED dropped

(* The post of run: answered; or not answered, whether or not the operator *)
(* got it (a refusal by a replica that does not lead is of that kind).     *)
Deliver(e) ==
  /\ hook[e].at = "posting"
  /\ \/ /\ Submit(e)
        /\ IF SubmitStatus(e) = "RETRYABLE"
             THEN NotDelivered(e)
             ELSE /\ hook' = [hook EXCEPT ![e].at = "done"]
                  /\ UNCHANGED dropped
        /\ UNCHANGED faults
     \/ /\ Fault
        /\ Submit(e) \/ UNCHANGED queue
        /\ NotDelivered(e)
  /\ UNCHANGED <<config, streamVars, sender, stored, configs>>

(***************************************************************************)
(* The operator's queue.                                                   *)
(***************************************************************************)
(* failAdmissionEventLocked, on an event that is queued.                   *)
GivesUp(entry) == config # "retry" \/ entry.retries >= MaxRetries

FailEntry(entry) ==
  IF GivesUp(entry)
    THEN NoEntry
    ELSE [entry EXCEPT !.retries = @ + 1, !.inFlight = FALSE]

FailAll(F) ==
  [e \in Events |-> IF e \in F THEN FailEntry(queue[e]) ELSE queue[e]]

GivenUp(F) == {e \in F : GivesUp(queue[e])}

(* Mutant: events of a closed stream go back without counting a retry.     *)
CloseUncounted ==
  /\ conn = "broken"
  /\ conn' = "closed"
  /\ queue' = [e \in Events |-> [queue[e] EXCEPT !.inFlight = FALSE]]
  /\ UNCHANGED <<hookVars, dropped, config, session, up, down, sender, stored,
                 configs, faults>>

(* runOnce returns: the session is cancelled, what is in flight fails.     *)
Close ==
  /\ conn = "broken"
  /\ conn' = "closed"
  /\ queue' = FailAll(InFlight)
  /\ dropped' = dropped \cup GivenUp(InFlight)
  /\ UNCHANGED <<hookVars, config, session, up, down, sender, stored, configs,
                 faults>>

Open ==
  /\ conn = "closed" /\ session < MaxSessions
  /\ conn' = "open" /\ session' = session + 1
  /\ sender' = [sender EXCEPT ![session + 1].pc = "loop"]
  /\ UNCHANGED <<hookVars, queueVars, config, up, down, stored, configs,
                 faults>>

Break ==
  /\ conn = "open" /\ session < MaxSessions
  /\ conn' = "broken" /\ up' = <<>> /\ down' = <<>>
  /\ UNCHANGED <<hookVars, queueVars, config, session, sender, stored,
                 configs, faults>>

(* setEventConfig, from a DesiredState.                                    *)
Configure ==
  /\ conn = "open" /\ configs < MaxConfigs
  /\ configs' = configs + 1
  /\ config' \in {"retry", "noretry"}
  /\ UNCHANGED <<hookVars, queueVars, streamVars, sender, stored, faults>>

(* Mutant: the goroutine returns when there is nothing to send.            *)
IterateReturns(s, overdue) ==
  /\ sender[s].pc = "loop"
  /\ LET failed == FailAll(overdue)
         batch  == {e \in Events : failed[e].queued /\ ~failed[e].inFlight}
     IN /\ queue' = [e \in Events |->
                       IF e \in batch
                         THEN [failed[e] EXCEPT !.inFlight = TRUE,
                                                !.attempt = @ + 1]
                         ELSE failed[e]]
        /\ dropped' = dropped \cup GivenUp(overdue)
        /\ sender' = IF batch = {} THEN [sender EXCEPT ![s].pc = "exit"]
                     ELSE [sender EXCEPT ![s] =
             [pc |-> "sending",
              batch |-> {[id |-> e, attempt |-> failed[e].attempt + 1] :
                           e \in batch}]]
  /\ UNCHANGED <<hookVars, config, streamVars, stored, configs, faults>>

(* An iteration of sendAdmissionEvents, under the lock: the overdue fail,  *)
(* then all that is not in flight is marked and collected.  A sender whose *)
(* session has been cancelled may still choose its ticker.                 *)
Iterate(s, overdue) ==
  /\ sender[s].pc = "loop"
  /\ LET failed == FailAll(overdue)
         batch  == {e \in Events : failed[e].queued /\ ~failed[e].inFlight}
     IN /\ queue' = [e \in Events |->
                       IF e \in batch
                         THEN [failed[e] EXCEPT !.inFlight = TRUE,
                                                !.attempt = @ + 1]
                         ELSE failed[e]]
        /\ dropped' = dropped \cup GivenUp(overdue)
        /\ sender' = IF batch = {} THEN sender ELSE [sender EXCEPT ![s] =
             [pc |-> "sending",
              batch |-> {[id |-> e, attempt |-> failed[e].attempt + 1] :
                           e \in batch}]]
  /\ UNCHANGED <<hookVars, config, streamVars, stored, configs, faults>>

Alive(s) == s = session /\ conn = "open"

(* The send of a batch, without the lock.                                  *)
Send(s) ==
  /\ sender[s].pc = "sending" /\ Alive(s) /\ Len(up) < StreamCap
  /\ up' = Append(up, sender[s].batch)
  /\ sender' = [sender EXCEPT ![s] = [pc |-> "loop", batch |-> {}]]
  /\ UNCHANGED <<hookVars, queueVars, config, conn, session, down, stored,
                 configs, faults>>

(* The send fails, and with it whatever of the batch is in flight by then, *)
(* be it under an attempt of the next session.                             *)
SendFails(s) ==
  /\ sender[s].pc = "sending" /\ ~ Alive(s)
  /\ LET failing == {m.id : m \in sender[s].batch} \cap InFlight
     IN /\ queue' = FailAll(failing)
        /\ dropped' = dropped \cup GivenUp(failing)
  /\ sender' = [sender EXCEPT ![s] = [pc |-> "exit", batch |-> {}]]
  /\ UNCHANGED <<hookVars, config, streamVars, stored, configs, faults>>

(* The context is done, or another message of the iteration cannot be sent.*)
Exit(s) ==
  /\ sender[s].pc = "loop" /\ ~ Alive(s)
  /\ sender' = [sender EXCEPT ![s].pc = "exit"]
  /\ UNCHANGED <<hookVars, queueVars, config, streamVars, stored, configs,
                 faults>>

(* ackAdmissionEvents: results of another attempt are ignored.             *)
Ack ==
  /\ conn = "open" /\ down # <<>>
  /\ down' = Tail(down)
  /\ LET heard(status) ==
           {e \in InQueue : \E r \in Head(down) :
              r.id = e /\ r.attempt = queue[e].attempt /\ r.status = status}
         settled == heard("ACCEPTED") \cup heard("DISCARDED")
         failing == heard("RETRYABLE")
     IN /\ queue' = [e \in Events |-> IF e \in settled THEN NoEntry
                                      ELSE FailAll(failing)[e]]
        /\ dropped' = dropped \cup GivenUp(failing)
  /\ UNCHANGED <<hookVars, config, conn, session, up, sender, stored, configs,
                 faults>>

(***************************************************************************)
(* The gateway: handleAdmissionEventBatch and the acknowledgement.         *)
(***************************************************************************)
Answer(m, status) == [id |-> m.id, attempt |-> m.attempt, status |-> status]

Verdict(e) == IF e \in Retained THEN "ACCEPTED" ELSE "DISCARDED"

(* admissionEventFailureAck: before the rules were read, or after.         *)
AllRetryable(e) == "RETRYABLE"

(* Mutant: the results computed before the failed write are left as they   *)
(* are.                                                                    *)
AcceptedRetryableKept(e) == Verdict(e)

AcceptedRetryable(e) == IF Verdict(e) = "ACCEPTED" THEN "RETRYABLE"
                        ELSE Verdict(e)

(* The batch is one transaction.  A failure may hide a commit.             *)
Handle ==
  /\ conn = "open" /\ up # <<>> /\ Len(down) < StreamCap
  /\ up' = Tail(up)
  /\ LET batch   == Head(up)
         written == {m.id : m \in batch} \cap Retained
     IN \/ /\ stored' = stored \cup written
           /\ down' = Append(down, {Answer(m, Verdict(m.id)) : m \in batch})
           /\ UNCHANGED faults
        \/ /\ Fault
           /\ down' = Append(down,
                          {Answer(m, AllRetryable(m.id)) : m \in batch})
           /\ UNCHANGED stored
        \/ /\ Fault
           /\ down' = Append(down,
                          {Answer(m, AcceptedRetryable(m.id)) : m \in batch})
           /\ stored' \in {stored, stored \cup written}
  /\ UNCHANGED <<hookVars, queueVars, config, conn, session, sender,
                 configs>>

-----------------------------------------------------------------------------
Webhook == \E e \in Events : Requeue(e) \/ Take(e) \/ Deliver(e)

Sender(s) == (\E overdue \in SUBSET InFlight : Iterate(s, overdue))
             \/ Send(s) \/ SendFails(s) \/ Exit(s)

Next ==
  \/ \E e \in Events : Report(e)
  \/ Webhook
  \/ Close \/ Open \/ Break \/ Configure
  \/ \E s \in Sessions : Sender(s)
  \/ Ack \/ Handle

Spec == Init /\ [][Next]_vars

(* Goroutines and timers are served, the link reconnects, and an           *)
(* acknowledgement that does not come is overdue after eventAckTimeout.    *)
Fairness ==
  /\ WF_vars(Webhook) /\ WF_vars(Close) /\ WF_vars(Open)
  /\ \A s \in Sessions :
       /\ WF_vars(Iterate(s, InFlight))
       /\ WF_vars(Send(s) \/ SendFails(s) \/ Exit(s))
  /\ WF_vars(Ack) /\ WF_vars(Handle)

FairSpec == Spec /\ Fairness

-----------------------------------------------------------------------------
(* No event is lost without a trace: one that the webhook is done with and *)
(* that the storage rules keep is still queued on the operator, or stored, *)
(* or its loss was recorded as an incident.                                *)
NoSilentLoss ==
  \A e \in Retained :
    hook[e].at = "done" => queue[e].queued \/ e \in stored \/ e \in dropped

(* A queued event is sent at most once more than it has been counted as    *)
(* failed, whichever sender, timeout or acknowledgement failed it: it is   *)
(* never sent more than maxRetryAttempts + 1 times.                        *)
SendsArePaidFor ==
  \A e \in InQueue :
    queue[e].attempt <= queue[e].retries + (IF queue[e].inFlight THEN 1 ELSE 0)

(* No event stays for ever in the webhook or in the operator's queue.      *)
EventsSettle ==
  \A e \in Events :
    /\ hook[e].at = "queued" ~> hook[e].at \in {"done", "lost"}
    /\ queue[e].queued ~> ~ queue[e].queued
=============================================================================
