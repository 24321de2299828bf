---------------------------- MODULE HubExceptions ----------------------------
(***************************************************************************)
(* The console's exception and distribution services.  An exception and    *)
(* its managed scope, a distribution found by its owner's name, are        *)
(* written in one transaction (ExceptionUOW); the distribution API writes  *)
(* any distribution row, managed or not.                                   *)
(*                                                                         *)
(* A handler reads its row in one step and commits in another.  READ       *)
(* COMMITTED transactions see what others have committed in between, so    *)
(* a handler keeps what became of its row: fresh, changed, or gone.        *)
(***************************************************************************)
EXTENDS Naturals, FiniteSets

CONSTANTS
  Exceptions,           \* names of exceptions; each is also its scope's owner name
  DefaultException,     \* the one for the system's namespaces
  PlainDistributions,   \* distributions that are no managed scope
  DefaultDistribution,  \* the one that may not be deleted
  Handlers,             \* handlers under way at the same time
  Targets,              \* what a row may target: all clusters, or some of them
  AllClusters,          \* the element of Targets that stands for every cluster
  Absent                \* the row does not exist

ASSUME ExceptionAssumption ==
  /\ Exceptions \cap PlainDistributions = {}
  /\ DefaultDistribution \notin Exceptions
  /\ AllClusters \in Targets
  /\ Absent \notin Targets

VARIABLES
  exceptions,     \* exceptions[x]: the target its last write asked for
  distributions,  \* distributions[d]: the target of d; exceptions' scopes included
  tx              \* tx[h]: the handler h

exceptionVars == <<exceptions, distributions, tx>>

Distributions == Exceptions \cup PlainDistributions

Done == [op |-> "done"]

ExceptionTypeOK ==
  /\ exceptions \in [Exceptions -> Targets \cup {Absent}]
  /\ distributions \in [Distributions -> Targets \cup {Absent}]
  /\ tx \in [Handlers ->
       {Done} \cup [op : {"update", "delete"}, row : Exceptions,
                   target : Targets \cup {Absent}, seen : {"fresh", "changed", "gone"}]
             \cup [op : {"updateDistribution", "deleteDistribution"}, row : Distributions,
                   target : Targets \cup {Absent}, seen : {"fresh", "changed", "gone"}]]

\* The seeded default exception, and no other.
ExceptionInit ==
  /\ exceptions = [x \in Exceptions |-> IF x = DefaultException THEN AllClusters ELSE Absent]
  /\ distributions = [d \in Distributions |->
       IF d \in {DefaultException, DefaultDistribution} THEN AllClusters ELSE Absent]
  /\ tx = [h \in Handlers |-> Done]

-----------------------------------------------------------------------------
Start(h, op, row, t) ==
  /\ tx[h] = Done
  /\ tx' = [tx EXCEPT ![h] = [op |-> op, row |-> row, target |-> t, seen |-> "fresh"]]

InTx(h, op) == tx[h] # Done /\ tx[h].op = op

OnException(q) == tx[q] # Done /\ tx[q].op \in {"update", "delete"}

OnDistribution(q) == tx[q] # Done /\ tx[q].op \in {"updateDistribution", "deleteDistribution"}

Aged(q, mark) == IF tx[q].seen = "gone" THEN tx[q] ELSE [tx[q] EXCEPT !.seen = mark]

(***************************************************************************)
(* Handler h is done; those that have read the exception row x find it     *)
(* exMark, those that have read the distribution row d find it distMark.   *)
(***************************************************************************)
EndTx(h, name, exMark, distMark) ==
  tx' = [q \in Handlers |->
    IF q = h THEN Done
    ELSE IF OnException(q) /\ tx[q].row = name /\ exMark # "fresh" THEN Aged(q, exMark)
    ELSE IF OnDistribution(q) /\ tx[q].row = name /\ distMark # "fresh" THEN Aged(q, distMark)
    ELSE tx[q]]

Rollback(h) ==
  /\ tx' = [tx EXCEPT ![h] = Done]
  /\ UNCHANGED <<exceptions, distributions>>

-----------------------------------------------------------------------------
(***************************************************************************)
(* ExceptionService                                                        *)
(***************************************************************************)
\* The unique index refuses a name that is taken, which rolls back the scope.
ExceptionCreate(x, t) ==
  /\ exceptions[x] = Absent
  /\ exceptions' = [exceptions EXCEPT ![x] = t]
  /\ distributions' = [distributions EXCEPT ![x] = t]
  /\ EndTx(Absent, x, "gone", "changed")

\* Update, or updateDefault, which keeps the scope at all clusters.
ExceptionUpdate(h, x, t) ==
  /\ exceptions[x] # Absent
  /\ x = DefaultException => t = AllClusters
  /\ Start(h, "update", x, t)
  /\ UNCHANGED <<exceptions, distributions>>

\* Mutant: the row is saved without looking at what became of it.
ExceptionUpdateSave(h) ==
  /\ InTx(h, "update")
  /\ LET x == tx[h].row
     IN /\ exceptions' = IF tx[h].seen = "gone" THEN exceptions
                                                ELSE [exceptions EXCEPT ![x] = tx[h].target]
        /\ distributions' = [distributions EXCEPT ![x] = tx[h].target]
        /\ EndTx(h, x, "changed", "changed")

ExceptionUpdateCommit(h) ==
  /\ InTx(h, "update")
  /\ tx[h].seen = "fresh"
  /\ LET x == tx[h].row
     IN /\ exceptions' = [exceptions EXCEPT ![x] = tx[h].target]
        /\ distributions' = [distributions EXCEPT ![x] = tx[h].target]
        /\ EndTx(h, x, "changed", "changed")

ExceptionUpdateConflict(h) ==
  /\ InTx(h, "update")
  /\ tx[h].seen # "fresh"
  /\ Rollback(h)

ExceptionDelete(h, x) ==
  /\ exceptions[x] # Absent
  /\ x # DefaultException
  /\ Start(h, "delete", x, Absent)
  /\ UNCHANGED <<exceptions, distributions>>

\* Deletes the exception by id, its scope by the owner's name.
ExceptionDeleteCommit(h) ==
  /\ InTx(h, "delete")
  /\ LET x == tx[h].row
     IN /\ exceptions' = IF tx[h].seen = "gone" THEN exceptions
                                                ELSE [exceptions EXCEPT ![x] = Absent]
        /\ distributions' = [distributions EXCEPT ![x] = Absent]
        /\ EndTx(h, x, IF tx[h].seen = "gone" THEN "fresh" ELSE "gone", "gone")

-----------------------------------------------------------------------------
(***************************************************************************)
(* DistributionService.  Neither Update nor Delete asks whether a row is   *)
(* managed.                                                                *)
(***************************************************************************)
DistributionCreate(d, t) ==
  /\ d \in PlainDistributions
  /\ distributions[d] = Absent
  /\ distributions' = [distributions EXCEPT ![d] = t]
  /\ EndTx(Absent, d, "fresh", "gone")
  /\ UNCHANGED exceptions

DistributionUpdate(h, d, t) ==
  /\ distributions[d] # Absent
  /\ Start(h, "updateDistribution", d, t)
  /\ UNCHANGED <<exceptions, distributions>>

DistributionUpdateCAS(h) ==
  /\ InTx(h, "updateDistribution")
  /\ tx[h].seen = "fresh"
  /\ distributions' = [distributions EXCEPT ![tx[h].row] = tx[h].target]
  /\ EndTx(h, tx[h].row, "fresh", "changed")
  /\ UNCHANGED exceptions

DistributionUpdateConflict(h) ==
  /\ InTx(h, "updateDistribution")
  /\ tx[h].seen # "fresh"
  /\ Rollback(h)

DistributionDelete(h, d) ==
  /\ distributions[d] # Absent
  /\ d # DefaultDistribution
  /\ Start(h, "deleteDistribution", d, Absent)
  /\ UNCHANGED <<exceptions, distributions>>

DistributionErase(h) ==
  /\ InTx(h, "deleteDistribution")
  /\ IF tx[h].seen = "gone"
       THEN Rollback(h)
       ELSE /\ distributions' = [distributions EXCEPT ![tx[h].row] = Absent]
            /\ EndTx(h, tx[h].row, "fresh", "gone")
            /\ UNCHANGED exceptions

ExceptionNext ==
  \/ \E x \in Exceptions, t \in Targets : ExceptionCreate(x, t)
  \/ \E d \in PlainDistributions, t \in Targets : DistributionCreate(d, t)
  \/ \E h \in Handlers :
       \/ \E x \in Exceptions, t \in Targets : ExceptionUpdate(h, x, t)
       \/ \E x \in Exceptions : ExceptionDelete(h, x)
       \/ \E d \in Distributions, t \in Targets : DistributionUpdate(h, d, t)
       \/ \E d \in Distributions : DistributionDelete(h, d)
       \/ ExceptionUpdateCommit(h) \/ ExceptionUpdateConflict(h) \/ ExceptionDeleteCommit(h)
       \/ DistributionUpdateCAS(h) \/ DistributionUpdateConflict(h) \/ DistributionErase(h)
       \/ tx[h] # Done /\ Rollback(h)

ExceptionSpec == ExceptionInit /\ [][ExceptionNext]_exceptionVars

-----------------------------------------------------------------------------
(***************************************************************************)
(* A managed scope belongs to an exception that exists: no racing update,  *)
(* delete or edit of the scope leaves a distribution whose exception is    *)
(* gone, which would make Render report an error on every cluster for good *)
(* (ExceptionUOW, UpdateCAS).                                              *)
(***************************************************************************)
NoOrphanExceptionScope ==
  \A x \in Exceptions : distributions[x] # Absent => exceptions[x] # Absent
=============================================================================
