---------------------------- MODULE MemberProofs ----------------------------
(***************************************************************************)
(* Proofs about the controllers of a member cluster: the versions of a     *)
(* policy, the references of groups, the life of an exception, and the     *)
(* composition of these with the delivery of admission events.             *)
(***************************************************************************)
EXTENDS MCMember, EventDeliveryProofs, FunctionTheorems, SequenceTheorems

(***************************************************************************)
(* Versions of a policy.                                                   *)
(***************************************************************************)

(* pruneVersions keeps no more versions than it is told to.                *)
LEMMA NewestAreFew ==
  ASSUME NEW D \in SUBSET Nat, IsFiniteSet(D), NEW n \in Nat,
         NEW kept, kept = {i \in D : Cardinality({j \in D : j > i}) < n}
  PROVE  IsFiniteSet(kept) /\ Cardinality(kept) <= n
<1> DEFINE above(i) == {j \in D : j > i}
           rank == [i \in kept |-> Cardinality(above(i))]
<1>1. ASSUME NEW i \in D PROVE IsFiniteSet(above(i)) /\ Cardinality(above(i)) \in Nat
  <2>1. above(i) \in SUBSET D OBVIOUS
  <2>2. IsFiniteSet(above(i)) BY <2>1, FS_Subset
  <2> QED BY <2>2, FS_CardinalityType
<1>2. kept \subseteq D OBVIOUS
<1>3. ASSUME NEW i \in kept, NEW k \in kept, i < k PROVE rank[i] # rank[k]
  <2>0. i \in Nat /\ k \in Nat BY <1>2
  <2>1. above(k) \in SUBSET above(i)
    <3> SUFFICES ASSUME NEW j \in D, j > k PROVE j > i OBVIOUS
    <3> QED BY <1>3, <2>0
  <2>2. k \in above(i) /\ k \notin above(k) BY <1>2, <1>3, <2>0
  <2>3. above(k) # above(i) BY <2>2
  <2>4. IsFiniteSet(above(i)) BY <1>1, <1>2
  <2>5. Cardinality(above(i)) # Cardinality(above(k)) BY <2>1, <2>3, <2>4, FS_Subset
  <2> QED BY <2>5
<1>4. ASSUME NEW i \in kept PROVE rank[i] \in 0..(n - 1)
  <2>1. rank[i] = Cardinality(above(i)) /\ Cardinality(above(i)) < n OBVIOUS
  <2>2. Cardinality(above(i)) \in Nat BY <1>1, <1>2
  <2> HIDE DEF rank, above
  <2> QED BY <2>1, <2>2
<1>5. rank \in [kept -> 0..(n - 1)] BY <1>4
<1>6. ASSUME NEW i \in kept, NEW k \in kept, rank[i] = rank[k] PROVE i = k
  <2>1. i \in Nat /\ k \in Nat BY <1>2
  <2>2. ~ (i < k) /\ ~ (k < i) BY <1>3, <1>6
  <2> QED BY <2>1, <2>2
<1>7. rank \in Injection(kept, 0..(n - 1))
  <2> HIDE DEF rank
  <2> QED BY <1>5, <1>6 DEF Injection, IsInjective
<1>8. IsFiniteSet(0..(n - 1)) /\ Cardinality(0..(n - 1)) = n BY FS_Interval
<1> QED BY <1>7, <1>8, FS_Injection

(* buildHistory keeps the status's history within its limit.               *)
LEMMA HistoriesStayShort ==
  ASSUME NEW h \in VersionHistories, NEW n \in Nat
  PROVE  BuildHistory(h, n) \in VersionHistories
<1>1. PICK longer : longer = <<n>> \o h OBVIOUS
<1>2. longer \in Seq(Nat) /\ Len(longer) = 1 + Len(h) BY <1>1 DEF VersionHistories
<1>3. CASE Len(longer) > HistoryLimit
  <2>1. /\ SubSeq(longer, 1, HistoryLimit) \in Seq(Nat)
        /\ Len(SubSeq(longer, 1, HistoryLimit)) = HistoryLimit
    <3>1. \A i \in 1..HistoryLimit : longer[i] \in Nat BY <1>2, <1>3, VersionAssumption
    <3> QED BY <1>2, <1>3, <3>1, VersionAssumption, SubSeqProperties
  <2> QED BY <1>1, <1>3, <2>1, VersionAssumption DEF BuildHistory, VersionHistories
<1>4. CASE ~ (Len(longer) > HistoryLimit)
  BY <1>1, <1>2, <1>4, VersionAssumption DEF BuildHistory, VersionHistories
<1> QED BY <1>3, <1>4

(* updatePolicyStatus overwrites the status and nothing else.              *)
LEMMA StatusOnly ==
  ASSUME pol \in PolicyObjects, NEW obj \in PolicyObjects
  PROVE  /\ WithStatus(obj) \in PolicyObjects
         /\ WithStatus(obj).content = pol.content /\ WithStatus(obj).gen = pol.gen
         /\ WithStatus(obj).phase = obj.phase /\ WithStatus(obj).observed = obj.observed
         /\ WithStatus(obj).current = obj.current
BY DEF WithStatus, PolicyObjects

(* A patch changes the specification and counts a generation, or nothing.  *)
LEMMA PatchCounts ==
  ASSUME pol \in PolicyObjects, NEW c \in PContents, NEW r \in Nat
  PROVE  /\ Patched(c, r) \in PolicyObjects
         /\ \/ Patched(c, r) = pol
            \/ Patched(c, r).gen = pol.gen + 1 /\ Patched(c, r).observed = pol.observed
<1>1. CASE c = pol.content /\ r = pol.rollback BY <1>1 DEF Patched
<1>2. CASE ~ (c = pol.content /\ r = pol.rollback)
  <2>1. Patched(c, r) = [pol EXCEPT !.content = c, !.rollback = r, !.gen = @ + 1]
    BY <1>2 DEF Patched
  <2>2. pol.gen + 1 \in Nat BY DEF PolicyObjects
  <2> QED BY <2>1, <2>2 DEF PolicyObjects
<1> QED BY <1>1, <1>2

(***************************************************************************)
(* The inductive invariant.  What keeps the number of versions bounded is  *)
(* that a version above the limit is paid for by a failure, except the one *)
(* that the reconcile under way is about to prune for.                     *)
(***************************************************************************)
AwaitsPrune == rec # RecIdle /\ rec.at = "prune"

VersionsPaidFor ==
  /\ IsFiniteSet(DOMAIN pvs)
  /\ AwaitsPrune => Cardinality(DOMAIN pvs) <= HistoryLimit + failures + 1
  /\ ~ AwaitsPrune => Cardinality(DOMAIN pvs) <= HistoryLimit + failures

RecordsCompile == rec # RecIdle => rec.obj.content \notin BadContents

VersionIInv == VersionTypeOK /\ VersionsPaidFor /\ RecordsCompile

LEMMA VersionStarts ==
  ASSUME NEW c \in PContents, VersionStart(c)
  PROVE  VersionIInv
<1>1. /\ pol \in PolicyObjects /\ seenPol \in PolicyObjects
      /\ rec \in {RecIdle} \cup Reconciles
  <2>1. <<>> \in VersionHistories BY VersionAssumption DEF VersionHistories
  <2> QED BY <2>1 DEF VersionStart, PolicyObjects, PolicyPhases
<1>2. DOMAIN pvs = {} BY DEF VersionStart
<1>3. /\ DOMAIN pvs \subseteq Nat \ {0} /\ pvs \in [DOMAIN pvs -> PContents \ BadContents]
  <2>1. pvs = [n \in {} |-> c] BY DEF VersionStart
  <2>2. pvs = [n \in DOMAIN pvs |-> pvs[n]] BY <2>1
  <2> QED BY <1>2, <2>2
<1>4. IsFiniteSet(DOMAIN pvs) /\ Cardinality(DOMAIN pvs) = 0 BY <1>2, FS_EmptySet
<1>5. /\ polQueued \in BOOLEAN /\ changes \in 0..MaxChanges /\ failures \in 0..MaxFailures
      /\ whRules \subseteq PContents /\ whQueued \in BOOLEAN /\ resets \in 0..MaxResets
  <2>1. polQueued \in BOOLEAN /\ whQueued \in BOOLEAN BY DEF VersionStart
  <2>2. changes = 0 /\ failures = 0 /\ resets = 0 /\ whRules = {} BY DEF VersionStart
  <2> QED BY <2>1, <2>2, VersionAssumption
<1>6. rec = RecIdle /\ failures = 0 BY DEF VersionStart
<1>7. VersionTypeOK BY <1>1, <1>3, <1>4, <1>5, VersionAssumption DEF VersionTypeOK
<1> QED BY <1>4, <1>6, <1>7, VersionAssumption
        DEF VersionIInv, VersionsPaidFor, AwaitsPrune, RecordsCompile

(* What every step but those of one place leaves as it is.                 *)
CountersOK ==
  /\ polQueued \in BOOLEAN /\ changes \in 0..MaxChanges /\ failures \in 0..MaxFailures
  /\ whRules \subseteq PContents /\ whQueued \in BOOLEAN /\ resets \in 0..MaxResets

ObjectsOK == pol \in PolicyObjects /\ seenPol \in PolicyObjects

VersionsOK ==
  /\ DOMAIN pvs \subseteq Nat \ {0} /\ pvs \in [DOMAIN pvs -> PContents \ BadContents]
  /\ VersionsPaidFor

RecordOK == rec \in {RecIdle} \cup Reconciles /\ RecordsCompile

LEMMA VersionParts ==
  VersionIInv => CountersOK /\ ObjectsOK /\ VersionsOK /\ RecordOK
BY DEF VersionIInv, VersionTypeOK, CountersOK, ObjectsOK, VersionsOK, RecordOK

LEMMA VersionWhole ==
  ASSUME CountersOK', ObjectsOK', VersionsOK', RecordOK'
  PROVE  VersionIInv'
<1>1. Cardinality(DOMAIN pvs)' <= HistoryLimit + MaxFailures + 1
  <2>1. failures' \in 0..MaxFailures BY DEF CountersOK
  <2>2. IsFiniteSet(DOMAIN pvs') BY DEF VersionsOK, VersionsPaidFor
  <2>3. Cardinality(DOMAIN pvs') \in Nat BY <2>2, FS_CardinalityType
  <2>4. Cardinality(DOMAIN pvs') <= HistoryLimit + failures' + 1
    <3>1. CASE AwaitsPrune' BY <3>1 DEF VersionsOK, VersionsPaidFor
    <3>2. CASE ~ AwaitsPrune'
      <4>1. Cardinality(DOMAIN pvs') <= HistoryLimit + failures'
        BY <3>2 DEF VersionsOK, VersionsPaidFor
      <4> QED BY <4>1, <2>1, <2>3, VersionAssumption
    <3> QED BY <3>1, <3>2
  <2> QED BY <2>1, <2>3, <2>4, VersionAssumption
<1> QED BY <1>1 DEF VersionIInv, VersionTypeOK, CountersOK, ObjectsOK, VersionsOK, RecordOK

(* The versions stay within what has been paid for while none is added.    *)
LEMMA VersionsKept ==
  ASSUME CountersOK, VersionsOK, pvs' = pvs,
         \/ failures' = failures /\ (AwaitsPrune => AwaitsPrune')
         \/ failures' = failures + 1
  PROVE  VersionsOK'
<1>1. failures \in Nat BY DEF CountersOK
<1>2. IsFiniteSet(DOMAIN pvs) BY DEF VersionsOK, VersionsPaidFor
<1>3. Cardinality(DOMAIN pvs) \in Nat BY <1>2, FS_CardinalityType
<1>4. AwaitsPrune => Cardinality(DOMAIN pvs) <= HistoryLimit + failures + 1
  BY DEF VersionsOK, VersionsPaidFor
<1>5. ~ AwaitsPrune => Cardinality(DOMAIN pvs) <= HistoryLimit + failures
  BY DEF VersionsOK, VersionsPaidFor
<1>6. AwaitsPrune' => Cardinality(DOMAIN pvs) <= HistoryLimit + failures' + 1
  BY <1>1, <1>3, <1>4, <1>5, VersionAssumption
<1>7. ~ AwaitsPrune' => Cardinality(DOMAIN pvs) <= HistoryLimit + failures'
  BY <1>1, <1>3, <1>4, <1>5, VersionAssumption
<1>8. VersionsPaidFor' BY <1>2, <1>6, <1>7 DEF VersionsPaidFor
<1> QED BY <1>8 DEF VersionsOK

LEMMA CreateKeepsTypes ==
  ASSUME VersionIInv, CreateVersion
  PROVE  VersionsOK' /\ RecordOK'
<1>1. rec \in Reconciles /\ rec # RecIdle /\ rec.at = "create" /\ rec.tries < MaxCollisions
  BY DEF VersionIInv, VersionTypeOK, CreateVersion
<1>2. rec.next \in Nat \ {0} /\ rec.tries \in 0..MaxCollisions /\ rec.obj \in PolicyObjects
  BY <1>1 DEF Reconciles
<1>3. rec.obj.content \in PContents \ BadContents
  BY <1>1, <1>2 DEF VersionIInv, RecordsCompile, PolicyObjects
<1>4. /\ CountersOK /\ VersionsOK /\ ~ AwaitsPrune /\ failures' = failures
  BY <1>1, VersionParts DEF AwaitsPrune, CreateVersion
<1>5. RecordOK'
  <2>1. CASE rec' = [rec EXCEPT !.at = "prune"]
    <3>1. rec' \in Reconciles /\ rec'.obj = rec.obj BY <1>1, <2>1 DEF Reconciles
    <3> QED BY <1>3, <3>1 DEF RecordOK, RecordsCompile
  <2>2. CASE rec' = [rec EXCEPT !.next = @ + 1, !.tries = @ + 1]
    <3>1. rec.next + 1 \in Nat \ {0} /\ rec.tries + 1 \in 0..MaxCollisions
      BY <1>1, <1>2, VersionAssumption
    <3>2. rec' \in Reconciles /\ rec'.obj = rec.obj BY <1>1, <2>2, <3>1 DEF Reconciles
    <3> QED BY <1>3, <3>2 DEF RecordOK, RecordsCompile
  <2> QED BY <2>1, <2>2 DEF CreateVersion
<1>6. VersionsOK'
  <2>1. CASE pvs' = pvs BY <1>4, <2>1, VersionsKept
  <2>2. CASE pvs' # pvs
    <3>1. /\ rec.next \notin DOMAIN pvs /\ rec' = [rec EXCEPT !.at = "prune"]
          /\ pvs' = [n \in DOMAIN pvs \cup {rec.next} |->
                       IF n = rec.next THEN rec.obj.content ELSE pvs[n]]
      BY <2>2 DEF CreateVersion
    <3>2. rec'.at = "prune" /\ rec' \in Reconciles BY <1>1, <3>1 DEF Reconciles
    <3>3. AwaitsPrune' BY <3>2 DEF AwaitsPrune, RecIdle, Reconciles
    <3>4. IsFiniteSet(DOMAIN pvs) /\ Cardinality(DOMAIN pvs) <= HistoryLimit + failures
      BY <1>4 DEF VersionsOK, VersionsPaidFor
    <3>5. Cardinality(DOMAIN pvs) \in Nat BY <3>4, FS_CardinalityType
    <3>6. DOMAIN pvs' = DOMAIN pvs \cup {rec.next} BY <3>1
    <3>7. /\ IsFiniteSet(DOMAIN pvs')
          /\ Cardinality(DOMAIN pvs') = Cardinality(DOMAIN pvs) + 1
      BY <3>1, <3>4, <3>6, FS_AddElement
    <3>8. Cardinality(DOMAIN pvs') <= HistoryLimit + failures' + 1
      <4>1. failures \in Nat BY <1>4 DEF CountersOK
      <4> QED BY <1>4, <3>4, <3>5, <3>7, <4>1, VersionAssumption
    <3>9. /\ DOMAIN pvs' \subseteq Nat \ {0}
          /\ pvs' \in [DOMAIN pvs' -> PContents \ BadContents]
      <4>1. pvs \in [DOMAIN pvs -> PContents \ BadContents] /\ DOMAIN pvs \subseteq Nat \ {0}
        BY <1>4 DEF VersionsOK
      <4> QED BY <1>2, <1>3, <3>1, <3>6, <4>1
    <3> QED BY <3>3, <3>7, <3>8, <3>9 DEF VersionsOK, VersionsPaidFor
  <2> QED BY <2>1, <2>2
<1> QED BY <1>5, <1>6

LEMMA PruneKeepsTypes ==
  ASSUME VersionIInv, PruneVersions
  PROVE  VersionsOK' /\ RecordOK' /\ failures' \in 0..MaxFailures
<1>1. /\ rec \in Reconciles /\ rec # RecIdle /\ rec.at = "prune"
      /\ rec' = [rec EXCEPT !.at = "status"]
  BY DEF VersionIInv, VersionTypeOK, PruneVersions
<1>2. rec' \in Reconciles /\ rec'.obj = rec.obj /\ rec'.at = "status"
  BY <1>1 DEF Reconciles
<1>3. RecordOK' BY <1>1, <1>2 DEF RecordOK, VersionIInv, RecordsCompile
<1>4. CountersOK /\ VersionsOK BY VersionParts
<1>5. failures \in 0..MaxFailures BY <1>4 DEF CountersOK
<1>6. ~ AwaitsPrune' BY <1>2 DEF AwaitsPrune
<1>7. CASE failures < MaxFailures /\ failures' = failures + 1 /\ pvs' = pvs
  <2>1. VersionsOK' BY <1>4, <1>7, VersionsKept
  <2> QED BY <1>3, <1>5, <1>7, <2>1, VersionAssumption
<1>8. CASE pvs' = [n \in Newest(HistoryLimit) |-> pvs[n]] /\ failures' = failures
  <2>1. /\ DOMAIN pvs \subseteq Nat \ {0} /\ pvs \in [DOMAIN pvs -> PContents \ BadContents]
        /\ IsFiniteSet(DOMAIN pvs)
    BY <1>4 DEF VersionsOK, VersionsPaidFor
  <2>2. DOMAIN pvs \in SUBSET Nat BY <2>1
  <2>3. Newest(HistoryLimit) = {i \in DOMAIN pvs :
                                  Cardinality({j \in DOMAIN pvs : j > i}) < HistoryLimit}
    BY DEF Newest
  <2>4. IsFiniteSet(Newest(HistoryLimit)) /\ Cardinality(Newest(HistoryLimit)) <= HistoryLimit
    BY <2>1, <2>2, <2>3, NewestAreFew, VersionAssumption
  <2>5. DOMAIN pvs' = Newest(HistoryLimit) BY <1>8
  <2>6. Newest(HistoryLimit) \subseteq DOMAIN pvs BY <2>3
  <2>7. /\ DOMAIN pvs' \subseteq Nat \ {0}
        /\ pvs' \in [DOMAIN pvs' -> PContents \ BadContents]
    BY <1>8, <2>1, <2>5, <2>6
  <2>8. Cardinality(Newest(HistoryLimit)) \in Nat BY <2>4, FS_CardinalityType
  <2>9. Cardinality(DOMAIN pvs') <= HistoryLimit + failures'
    BY <1>5, <1>8, <2>4, <2>5, <2>8, VersionAssumption
  <2>10. VersionsPaidFor' BY <1>6, <2>4, <2>5, <2>9 DEF VersionsPaidFor
  <2> QED BY <1>3, <1>5, <1>8, <2>7, <2>10 DEF VersionsOK
<1> QED BY <1>7, <1>8 DEF PruneVersions


(* The specification is changed by the API server's clients.               *)
LEMMA SpecStep ==
  ASSUME VersionIInv, NEW c \in PContents, NEW r \in Nat, ChangeSpec(c, r)
  PROVE  VersionIInv'
<1>1. CountersOK /\ ObjectsOK /\ VersionsOK /\ RecordOK BY VersionParts
<1>2. ObjectsOK' BY <1>1, PatchCounts DEF ChangeSpec, ObjectsOK
<1>3. changes' \in 0..MaxChanges
  <2>1. changes \in 0..MaxChanges /\ changes < MaxChanges /\ changes' = changes + 1
    BY <1>1 DEF CountersOK, ChangeSpec
  <2> QED BY <2>1, VersionAssumption
<1>4. CountersOK' BY <1>1, <1>3 DEF CountersOK, ChangeSpec, webhookVars
<1>5. RecordOK' BY <1>1 DEF RecordOK, RecordsCompile, ChangeSpec
<1>6. VersionsOK' BY <1>1, VersionsKept DEF ChangeSpec, AwaitsPrune
<1> QED BY <1>2, <1>4, <1>5, <1>6, VersionWhole

(* The steps that only write the status, and end the reconcile if any.     *)
LEMMA StatusStep ==
  ASSUME VersionIInv, RollbackTargetMissing \/ RegoInvalid \/ WriteStatus
  PROVE  VersionIInv'
<1>1. CountersOK /\ ObjectsOK /\ VersionsOK /\ RecordOK BY VersionParts
<1>2. pol \in PolicyObjects /\ seenPol \in PolicyObjects BY <1>1 DEF ObjectsOK
<1>3. UNCHANGED <<seenPol, pvs, changes, failures, webhookVars>>
  BY DEF RollbackTargetMissing, RegoInvalid, WriteStatus, SetInvalid
<1>4. CASE RollbackTargetMissing \/ RegoInvalid
  <2>1. [seenPol EXCEPT !.phase = "Invalid"] \in PolicyObjects
    BY <1>2 DEF PolicyObjects, PolicyPhases
  <2>2. /\ pol' = WithStatus([seenPol EXCEPT !.phase = "Invalid"])
        /\ polQueued' = FALSE /\ rec' = rec
    BY <1>4 DEF RollbackTargetMissing, RegoInvalid, SetInvalid
  <2>3. ObjectsOK' BY <1>2, <1>3, <2>1, <2>2, StatusOnly DEF ObjectsOK
  <2>4. CountersOK' BY <1>1, <1>3, <2>2 DEF CountersOK, webhookVars
  <2>5. RecordOK' BY <1>1, <2>2 DEF RecordOK, RecordsCompile
  <2>6. VersionsOK' BY <1>1, <1>3, <2>2, VersionsKept DEF AwaitsPrune
  <2> QED BY <2>3, <2>4, <2>5, <2>6, VersionWhole
<1>5. CASE WriteStatus
  <2>1. rec \in Reconciles /\ rec # RecIdle /\ rec.at = "status"
    BY <1>1, <1>5 DEF RecordOK, WriteStatus
  <2>2. /\ rec.obj \in PolicyObjects /\ rec.next \in Nat
        /\ rec.obj.history \in VersionHistories /\ rec.obj.gen \in Nat
    BY <2>1 DEF Reconciles, PolicyObjects
  <2>3. PICK h : h = BuildHistory(rec.obj.history, rec.next) OBVIOUS
  <2>4. h \in VersionHistories BY <2>2, <2>3, HistoriesStayShort
  <2>5. PICK done : done = [rec.obj EXCEPT !.phase = "Ready", !.observed = rec.obj.gen,
                              !.current = rec.next, !.history = h]
    OBVIOUS
  <2>6. done \in PolicyObjects BY <2>2, <2>4, <2>5 DEF PolicyObjects, PolicyPhases
  <2>7. pol' = WithStatus(done) /\ rec' = RecIdle /\ polQueued' = polQueued
    BY <1>5, <2>3, <2>5 DEF WriteStatus
  <2>8. ObjectsOK' BY <1>2, <1>3, <2>6, <2>7, StatusOnly DEF ObjectsOK
  <2>9. CountersOK' BY <1>1, <1>3, <2>7 DEF CountersOK, webhookVars
  <2>10. RecordOK' BY <2>7 DEF RecordOK, RecordsCompile
  <2>11. ~ AwaitsPrune BY <2>1 DEF AwaitsPrune
  <2>12. VersionsOK' BY <1>1, <1>3, <2>11, VersionsKept
  <2> QED BY <2>8, <2>9, <2>10, <2>12, VersionWhole
<1> QED BY <1>4, <1>5

(* handleRollback writes what a version has recorded.                      *)
LEMMA RollbackStep ==
  ASSUME VersionIInv, HandleRollback
  PROVE  VersionIInv'
<1>1. CountersOK /\ ObjectsOK /\ VersionsOK /\ RecordOK BY VersionParts
<1>2. pvs[seenPol.rollback] \in PContents BY <1>1 DEF VersionsOK, HandleRollback
<1>3. pol.content \in PContents /\ pol \in PolicyObjects /\ seenPol \in PolicyObjects
  BY <1>1 DEF ObjectsOK, PolicyObjects
<1>4. PICK c \in PContents : pol' = Patched(c, 0)
  BY <1>2, <1>3 DEF HandleRollback
<1>5. ObjectsOK' BY <1>3, <1>4, PatchCounts DEF ObjectsOK, HandleRollback
<1>6. CountersOK' BY <1>1 DEF CountersOK, HandleRollback, webhookVars
<1>7. RecordOK' BY <1>1 DEF RecordOK, RecordsCompile, HandleRollback
<1>8. VersionsOK' BY <1>1, VersionsKept DEF HandleRollback, AwaitsPrune
<1> QED BY <1>5, <1>6, <1>7, <1>8, VersionWhole

LEMMA BeginStep ==
  ASSUME VersionIInv, BeginVersion
  PROVE  VersionIInv'
<1>1. CountersOK /\ ObjectsOK /\ VersionsOK /\ RecordOK BY VersionParts
<1>2. seenPol \in PolicyObjects /\ seenPol.current + 1 \in Nat \ {0} /\ 0 \in 0..MaxCollisions
  BY <1>1, VersionAssumption DEF ObjectsOK, PolicyObjects
<1>3. rec' = [at |-> "create", obj |-> seenPol, next |-> seenPol.current + 1, tries |-> 0]
  BY DEF BeginVersion
<1>4. rec' \in Reconciles BY <1>2, <1>3 DEF Reconciles
<1>5. RecordOK' BY <1>3, <1>4 DEF RecordOK, RecordsCompile, BeginVersion
<1>6. VersionsOK' BY <1>1, VersionsKept DEF BeginVersion, TakeKey, AwaitsPrune
<1>7. CountersOK' /\ ObjectsOK'
  BY <1>1 DEF CountersOK, ObjectsOK, BeginVersion, webhookVars
<1> QED BY <1>5, <1>6, <1>7, VersionWhole

(* The steps of the work queue, the informer and the webhook configuration *)
(* that change neither objects nor versions.                               *)
LEMMA OtherVersionStep ==
  ASSUME VersionIInv,
         \/ Watch \/ NothingToDo \/ GiveUp \/ ReconcileFails
         \/ ReconcileWebhookConfig \/ ResetWebhookConfig
  PROVE  VersionIInv'
<1>1. CountersOK /\ ObjectsOK /\ VersionsOK /\ RecordOK BY VersionParts
<1>2. ObjectsOK' /\ pvs' = pvs
  BY <1>1 DEF ObjectsOK, Watch, NothingToDo, GiveUp, ReconcileFails,
              ReconcileWebhookConfig, ResetWebhookConfig
<1>3. RecordOK'
  <2>1. rec' = rec \/ rec' = RecIdle
    BY DEF Watch, NothingToDo, GiveUp, ReconcileFails, ReconcileWebhookConfig, ResetWebhookConfig
  <2> QED BY <1>1, <2>1 DEF RecordOK, RecordsCompile
<1>4. VersionsOK'
  <2>1. \/ failures' = failures /\ (AwaitsPrune => AwaitsPrune')
        \/ failures' = failures + 1
    BY DEF AwaitsPrune, Watch, NothingToDo, GiveUp, ReconcileFails,
           ReconcileWebhookConfig, ResetWebhookConfig
  <2> QED BY <1>1, <1>2, <2>1, VersionsKept
<1>5. CountersOK'
  <2>1. CASE Watch \/ NothingToDo \/ GiveUp
    BY <1>1, <2>1 DEF CountersOK, Watch, NothingToDo, GiveUp, webhookVars
  <2>2. CASE ReconcileFails
    <3>1. failures \in 0..MaxFailures /\ failures < MaxFailures /\ failures' = failures + 1
      BY <1>1, <2>2 DEF CountersOK, ReconcileFails
    <3>2. failures' \in 0..MaxFailures BY <3>1, VersionAssumption
    <3> QED BY <1>1, <2>2, <3>2 DEF CountersOK, ReconcileFails, webhookVars
  <2>3. CASE ReconcileWebhookConfig
    <3>1. AggregateRules(seenPol) \subseteq PContents
      BY <1>1 DEF AggregateRules, ObjectsOK, PolicyObjects
    <3> QED BY <1>1, <2>3, <3>1 DEF CountersOK, ReconcileWebhookConfig
  <2>4. CASE ResetWebhookConfig
    <3>1. resets \in 0..MaxResets /\ resets < MaxResets /\ resets' = resets + 1
      BY <1>1, <2>4 DEF CountersOK, ResetWebhookConfig
    <3>2. resets' \in 0..MaxResets BY <3>1, VersionAssumption
    <3> QED BY <1>1, <2>4, <3>2 DEF CountersOK, ResetWebhookConfig
  <2> QED BY <2>1, <2>2, <2>3, <2>4
<1> QED BY <1>2, <1>3, <1>4, <1>5, VersionWhole

LEMMA VersionStep ==
  ASSUME VersionIInv, [VersionNext]_versionVars
  PROVE  VersionIInv'
<1>1. CountersOK /\ ObjectsOK /\ VersionsOK /\ RecordOK BY VersionParts
<1>2. ASSUME NEW c \in PContents, ChangeSpec(c, 0) PROVE VersionIInv'
  BY <1>2, SpecStep
<1>3. ASSUME NEW n \in 1..(pol.current + 1), ChangeSpec(pol.content, n) PROVE VersionIInv'
  <2>1. pol.content \in PContents /\ n \in Nat BY <1>1 DEF ObjectsOK, PolicyObjects
  <2> QED BY <1>3, <2>1, SpecStep
<1>4. CASE CreateVersion
  BY <1>1, <1>4, CreateKeepsTypes, VersionWhole
     DEF CreateVersion, CountersOK, ObjectsOK, webhookVars
<1>5. CASE PruneVersions
  <2>1. VersionsOK' /\ RecordOK' /\ failures' \in 0..MaxFailures BY <1>5, PruneKeepsTypes
  <2>2. CountersOK' /\ ObjectsOK'
    BY <1>1, <1>5, <2>1 DEF PruneVersions, CountersOK, ObjectsOK, webhookVars
  <2> QED BY <2>1, <2>2, VersionWhole
<1>6. CASE UNCHANGED versionVars
  BY <1>1, <1>6, VersionWhole
     DEF versionVars, CountersOK, ObjectsOK, VersionsOK, VersionsPaidFor, AwaitsPrune, RecordOK,
         RecordsCompile
<1> QED BY <1>2, <1>3, <1>4, <1>5, <1>6, StatusStep, RollbackStep, BeginStep, OtherVersionStep
        DEF VersionNext, ReconcilePolicy

LEMMA VersionInductive == VersionSpec => []VersionIInv
<1>1. VersionInit => VersionIInv BY VersionStarts DEF VersionInit
<1> QED BY <1>1, VersionStep, PTL DEF VersionSpec

(* Types and limits of the policy reconciler: version numbers are positive *)
(* and record specifications that compile, the history in the status is    *)
(* within historyLimit, and the versions exceed it by no more than the     *)
(* failures and the one about to be pruned for (pruneVersions,             *)
(* buildHistory).                                                          *)
THEOREM VersionTypeCorrect == VersionSpec => []VersionTypeOK
<1>1. VersionIInv => VersionTypeOK BY DEF VersionIInv
<1> QED BY <1>1, VersionInductive, PTL

(***************************************************************************)
(* A policy that is Ready is captured by its current version.              *)
(*                                                                         *)
(* pruneVersions keeps the newest versions by number, and a stale reconcile*)
(* can take the status back to a lower number: with enough versions above  *)
(* it, the current one is pruned as well.  WithinRetention says that this  *)
(* has not come up: when a reconcile prunes, fewer than historyLimit       *)
(* versions are newer than the one it is about to make current and than    *)
(* the one that a Ready policy has.                                        *)
(***************************************************************************)
Newer(n) == {j \in DOMAIN pvs : j > n}

WithinRetention ==
  AwaitsPrune =>
    /\ Cardinality(Newer(rec.next)) < HistoryLimit
    /\ AlreadyReconciled(pol) => Cardinality(Newer(pol.current)) < HistoryLimit

(* Two copies of the policy of the same generation have one specification. *)
SameSpec(old) ==
  /\ old.gen <= pol.gen
  /\ old.gen = pol.gen => old.content = pol.content

CapturedIInv ==
  /\ pol.observed <= pol.gen
  /\ seenPol.observed <= seenPol.gen
  /\ SameSpec(seenPol)
  /\ rec # RecIdle => SameSpec(rec.obj)
  /\ rec # RecIdle /\ rec.at \in {"prune", "status"} =>
       rec.next \in DOMAIN pvs /\ pvs[rec.next] = rec.obj.content
  /\ ReadyIsCaptured

(* A change of the specification leaves older copies behind.               *)
LEMMA PatchCaptures ==
  ASSUME VersionIInv, CapturedIInv, NEW c \in PContents, NEW r \in Nat,
         pol' = Patched(c, r), UNCHANGED <<seenPol, pvs, rec>>
  PROVE  CapturedIInv'
<1>1. pol \in PolicyObjects BY DEF VersionIInv, VersionTypeOK
<1>2. CASE pol' = pol
  BY <1>2 DEF CapturedIInv, SameSpec, ReadyIsCaptured, AlreadyReconciled
<1>3. CASE pol'.gen = pol.gen + 1 /\ pol'.observed = pol.observed
  <2>1. pol.gen \in Nat /\ pol.observed \in Nat /\ pol.observed <= pol.gen
    BY <1>1 DEF PolicyObjects, CapturedIInv
  <2>3. seenPol.gen \in Nat /\ (rec # RecIdle => rec.obj.gen \in Nat)
    BY DEF VersionIInv, VersionTypeOK, PolicyObjects, Reconciles
  <2>4. SameSpec(seenPol)'
    <3>1. seenPol.gen <= pol.gen BY DEF CapturedIInv, SameSpec
    <3> QED BY <1>3, <2>1, <2>3, <3>1 DEF SameSpec
  <2>5. (rec # RecIdle => SameSpec(rec.obj))'
    <3>1. rec # RecIdle => rec.obj.gen <= pol.gen BY DEF CapturedIInv, SameSpec
    <3> QED BY <1>3, <2>1, <2>3, <3>1 DEF SameSpec
  <2>6. pol'.observed <= pol'.gen /\ pol'.observed # pol'.gen BY <1>3, <2>1
  <2>7. ReadyIsCaptured' BY <2>6 DEF ReadyIsCaptured, AlreadyReconciled
  <2> QED BY <2>4, <2>5, <2>6, <2>7 DEF CapturedIInv
<1> QED BY <1>1, <1>2, <1>3, PatchCounts

(* A status write that does not make the policy Ready.                     *)
LEMMA InvalidCaptures ==
  ASSUME VersionIInv, CapturedIInv, SetInvalid
  PROVE  CapturedIInv'
<1>1. pol \in PolicyObjects /\ seenPol \in PolicyObjects BY DEF VersionIInv, VersionTypeOK
<1>2. PICK o : o = [seenPol EXCEPT !.phase = "Invalid"] OBVIOUS
<1>3. o \in PolicyObjects /\ o.phase = "Invalid" /\ o.observed = seenPol.observed
  BY <1>1, <1>2 DEF PolicyObjects, PolicyPhases
<1>4. pol' = WithStatus(o) /\ UNCHANGED <<seenPol, pvs, rec>> BY <1>2 DEF SetInvalid
<1>5. /\ pol'.content = pol.content /\ pol'.gen = pol.gen
      /\ pol'.phase = "Invalid" /\ pol'.observed = seenPol.observed
  BY <1>1, <1>3, <1>4, StatusOnly
<1>6. pol'.observed <= pol'.gen
  <2>1. seenPol.observed <= seenPol.gen /\ seenPol.gen <= pol.gen
    BY DEF CapturedIInv, SameSpec
  <2> QED BY <1>1, <1>5, <2>1 DEF PolicyObjects
<1>7. ReadyIsCaptured' BY <1>5 DEF ReadyIsCaptured, AlreadyReconciled
<1> QED BY <1>4, <1>5, <1>6, <1>7 DEF CapturedIInv, SameSpec

(* The status write: Ready at the generation that the version records.     *)
LEMMA WriteCaptures ==
  ASSUME VersionIInv, CapturedIInv, WriteStatus
  PROVE  CapturedIInv'
<1>1. pol \in PolicyObjects /\ rec \in Reconciles /\ rec # RecIdle /\ rec.at = "status"
  BY DEF VersionIInv, VersionTypeOK, WriteStatus
<1>2. /\ rec.obj \in PolicyObjects /\ rec.next \in Nat
      /\ rec.obj.history \in VersionHistories /\ rec.obj.gen \in Nat
  BY <1>1 DEF Reconciles, PolicyObjects
<1>3. PICK h : h = BuildHistory(rec.obj.history, rec.next) OBVIOUS
<1>4. h \in VersionHistories BY <1>2, <1>3, HistoriesStayShort
<1>5. PICK done : done = [rec.obj EXCEPT !.phase = "Ready", !.observed = rec.obj.gen,
                            !.current = rec.next, !.history = h]
  OBVIOUS
<1>6. done \in PolicyObjects /\ done.observed = rec.obj.gen /\ done.current = rec.next
  BY <1>2, <1>4, <1>5 DEF PolicyObjects, PolicyPhases
<1>7. pol' = WithStatus(done) /\ rec' = RecIdle /\ pvs' = pvs /\ seenPol' = seenPol
  BY <1>3, <1>5 DEF WriteStatus
<1>8. /\ pol'.content = pol.content /\ pol'.gen = pol.gen
      /\ pol'.observed = rec.obj.gen /\ pol'.current = rec.next
  BY <1>1, <1>6, <1>7, StatusOnly
<1>9. SameSpec(rec.obj) /\ rec.next \in DOMAIN pvs /\ pvs[rec.next] = rec.obj.content
  BY <1>1 DEF CapturedIInv
<1>10. ReadyIsCaptured'
  <2> SUFFICES ASSUME pol'.observed = pol'.gen
               PROVE  pol'.current \in DOMAIN pvs' /\ pvs'[pol'.current] = pol'.content
    BY DEF ReadyIsCaptured, AlreadyReconciled
  <2> QED BY <1>7, <1>8, <1>9 DEF SameSpec
<1>11. pol'.observed <= pol'.gen BY <1>8, <1>9 DEF SameSpec
<1> QED BY <1>7, <1>8, <1>10, <1>11 DEF CapturedIInv, SameSpec

LEMMA CreateCaptures ==
  ASSUME VersionIInv, CapturedIInv, CreateVersion
  PROVE  CapturedIInv'
<1>1. /\ rec \in Reconciles /\ rec # RecIdle /\ rec.at = "create"
      /\ pvs \in [DOMAIN pvs -> PContents \ BadContents]
  BY DEF VersionIInv, VersionTypeOK, CreateVersion
<1>2. pol' = pol /\ seenPol' = seenPol BY DEF CreateVersion
<1>3. \A n \in DOMAIN pvs : n \in DOMAIN pvs' /\ pvs'[n] = pvs[n]
  BY DEF CreateVersion
<1>4. ReadyIsCaptured'
  BY <1>2, <1>3 DEF ReadyIsCaptured, AlreadyReconciled, CapturedIInv
<1>5. rec'.obj = rec.obj BY <1>1 DEF CreateVersion, Reconciles
<1>6. (rec # RecIdle => SameSpec(rec.obj))'
  BY <1>1, <1>2, <1>5 DEF CapturedIInv, SameSpec
<1>7. ASSUME rec' # RecIdle, rec'.at \in {"prune", "status"}
      PROVE  rec'.next \in DOMAIN pvs' /\ pvs'[rec'.next] = rec'.obj.content
  <2>1. CASE rec' = [rec EXCEPT !.next = @ + 1, !.tries = @ + 1]
    <3>1. rec'.at = "create" BY <1>1, <2>1 DEF Reconciles
    <3> QED BY <1>7, <3>1
  <2>2. CASE rec' = [rec EXCEPT !.at = "prune"] /\ rec.next \notin DOMAIN pvs
             /\ pvs' = [n \in DOMAIN pvs \cup {rec.next} |->
                          IF n = rec.next THEN rec.obj.content ELSE pvs[n]]
    <3>1. rec'.next = rec.next BY <1>1, <2>2 DEF Reconciles
    <3>2. rec.next \in DOMAIN pvs' /\ pvs'[rec.next] = rec.obj.content BY <2>2
    <3> QED BY <1>5, <3>1, <3>2
  <2>3. CASE rec' = [rec EXCEPT !.at = "prune"] /\ rec.next \in DOMAIN pvs
             /\ MatchesSpec(rec.next) /\ pvs' = pvs
    <3>1. rec'.next = rec.next BY <1>1, <2>3 DEF Reconciles
    <3> QED BY <1>5, <2>3, <3>1 DEF MatchesSpec
  <2> QED BY <2>1, <2>2, <2>3 DEF CreateVersion
<1> QED BY <1>2, <1>4, <1>6, <1>7 DEF CapturedIInv, SameSpec

LEMMA PruneCaptures ==
  ASSUME VersionIInv, CapturedIInv, WithinRetention, PruneVersions
  PROVE  CapturedIInv'
<1>1. /\ rec \in Reconciles /\ rec # RecIdle /\ rec.at = "prune"
      /\ rec' = [rec EXCEPT !.at = "status"]
  BY DEF VersionIInv, VersionTypeOK, PruneVersions
<1>2. pol' = pol /\ seenPol' = seenPol BY DEF PruneVersions
<1>3. rec'.obj = rec.obj /\ rec'.next = rec.next BY <1>1 DEF Reconciles
<1>4. ASSUME NEW n \in DOMAIN pvs, Cardinality(Newer(n)) < HistoryLimit
      PROVE  n \in DOMAIN pvs' /\ pvs'[n] = pvs[n]
  <2>1. n \in Newest(HistoryLimit) BY <1>4 DEF Newest, Newer
  <2> QED BY <2>1 DEF PruneVersions
<1>5. AwaitsPrune BY <1>1 DEF AwaitsPrune
<1>6. ReadyIsCaptured'
  BY <1>2, <1>4, <1>5 DEF ReadyIsCaptured, AlreadyReconciled, CapturedIInv, WithinRetention
<1>7. rec.next \in DOMAIN pvs /\ pvs[rec.next] = rec.obj.content BY <1>1 DEF CapturedIInv
<1>8. rec.next \in DOMAIN pvs' /\ pvs'[rec.next] = rec.obj.content
  BY <1>4, <1>5, <1>7 DEF WithinRetention
<1> QED BY <1>1, <1>2, <1>3, <1>6, <1>8 DEF CapturedIInv, SameSpec

LEMMA CapturedStep ==
  ASSUME VersionIInv, CapturedIInv, WithinRetention, [VersionNext]_versionVars
  PROVE  CapturedIInv'
<1>1. pol \in PolicyObjects /\ seenPol \in PolicyObjects BY DEF VersionIInv, VersionTypeOK
<1>2. ASSUME NEW c \in PContents, ChangeSpec(c, 0) PROVE CapturedIInv'
  BY <1>2, PatchCaptures DEF ChangeSpec
<1>3. ASSUME NEW n \in 1..(pol.current + 1), ChangeSpec(pol.content, n) PROVE CapturedIInv'
  <2>1. pol.content \in PContents /\ n \in Nat BY <1>1 DEF PolicyObjects
  <2> QED BY <1>3, <2>1, PatchCaptures DEF ChangeSpec
<1>4. CASE HandleRollback
  <2>1. pvs[seenPol.rollback] \in PContents
    BY <1>4 DEF VersionIInv, VersionTypeOK, HandleRollback
  <2>2. pol.content \in PContents BY <1>1 DEF PolicyObjects
  <2>3. PICK c \in PContents : pol' = Patched(c, 0) BY <1>4, <2>1, <2>2 DEF HandleRollback
  <2> QED BY <1>4, <2>3, PatchCaptures DEF HandleRollback
<1>5. CASE RollbackTargetMissing \/ RegoInvalid
  BY <1>5, InvalidCaptures DEF RollbackTargetMissing, RegoInvalid
<1>6. CASE Watch
  <2>1. pol.gen <= pol.gen BY <1>1 DEF PolicyObjects
  <2> QED BY <1>6, <2>1 DEF Watch, CapturedIInv, SameSpec, ReadyIsCaptured, AlreadyReconciled
<1>7. CASE BeginVersion
  <2>1. rec'.at = "create" /\ rec'.obj = seenPol BY <1>7 DEF BeginVersion
  <2> QED BY <1>7, <2>1
          DEF BeginVersion, CapturedIInv, SameSpec, ReadyIsCaptured, AlreadyReconciled
<1>8. CASE \/ NothingToDo \/ GiveUp \/ ReconcileFails \/ ReconcileWebhookConfig
           \/ ResetWebhookConfig \/ UNCHANGED versionVars
  <2>1. UNCHANGED <<pol, seenPol, pvs>> /\ (rec' = rec \/ rec' = RecIdle)
    BY <1>8 DEF NothingToDo, GiveUp, ReconcileFails, ReconcileWebhookConfig,
                ResetWebhookConfig, versionVars
  <2> QED BY <2>1 DEF CapturedIInv, SameSpec, ReadyIsCaptured, AlreadyReconciled
<1> QED BY <1>2, <1>3, <1>4, <1>5, <1>6, <1>7, <1>8, WriteCaptures, CreateCaptures, PruneCaptures
        DEF VersionNext, ReconcilePolicy

(* A policy that is Ready at its generation has a version, the current     *)
(* one, that records exactly its specification, whatever crashed between   *)
(* two writes and however stale the copy was that a reconcile read, as     *)
(* long as no prune comes with historyLimit versions newer than the        *)
(* current one (Reconcile, policyVersionMatchesSpec, pruneVersions).       *)
THEOREM ReadyPoliciesCaptured == VersionSpec /\ []WithinRetention => []ReadyIsCaptured
<1>1. VersionInit => CapturedIInv
  <2> SUFFICES ASSUME NEW c \in PContents, VersionStart(c) PROVE CapturedIInv
    BY DEF VersionInit
  <2>0. pol.gen = 1 /\ pol.observed = 0 BY DEF VersionStart
  <2>1. seenPol = pol /\ rec = RecIdle BY DEF VersionStart
  <2>2. pol.observed <= pol.gen /\ pol.gen <= pol.gen /\ pol.observed # pol.gen BY <2>0
  <2>3. SameSpec(seenPol) BY <2>1, <2>2 DEF SameSpec
  <2>4. ReadyIsCaptured BY <2>2 DEF ReadyIsCaptured, AlreadyReconciled
  <2> QED BY <2>1, <2>2, <2>3, <2>4 DEF CapturedIInv
<1>2. CapturedIInv => ReadyIsCaptured BY DEF CapturedIInv
<1> QED BY <1>1, <1>2, CapturedStep, VersionInductive, PTL DEF VersionSpec

(***************************************************************************)
(* A policy that nobody works on is judged: Ready at its generation with a *)
(* specification that compiles, or Invalid with a reason.  It is the       *)
(* safety half of PolicySettles: what the reconcilers have left to do is   *)
(* always in a work queue or still to be delivered by the informer.        *)
(***************************************************************************)
PolicyQuiet == rec = RecIdle /\ ~ polQueued /\ seenPol = pol

Judged(obj) ==
  \/ AlreadyReconciled(obj) /\ obj.rollback = 0 /\ obj.content \notin BadContents
  \/ obj.phase = "Invalid" /\ (obj.content \in BadContents \/ obj.rollback # 0)

(* A Ready copy has a specification that compiles.                         *)
ReadyCompiles(obj) ==
  /\ obj.observed <= obj.gen
  /\ AlreadyReconciled(obj) => obj.content \notin BadContents

(* A reconcile under way took up what was not yet Ready, and from the copy *)
(* the informer has unless an event has brought the policy back.           *)
Pending ==
  rec # RecIdle => /\ SameSpec(rec.obj)
                   /\ ~ AlreadyReconciled(rec.obj)
                   /\ polQueued \/ rec.obj = seenPol

JudgedIInv ==
  /\ ReadyCompiles(pol) /\ ReadyCompiles(seenPol)
  /\ SameSpec(seenPol)
  /\ Pending
  /\ PolicyQuiet => Judged(pol)
  /\ whQueued \/ whRules = AggregateRules(seenPol)

(* A change of the specification is still to be delivered.                 *)
LEMMA PatchJudges ==
  ASSUME VersionIInv, JudgedIInv, NEW c \in PContents, NEW r \in Nat, pol' = Patched(c, r),
         UNCHANGED <<seenPol, rec, polQueued, whRules, whQueued>>
  PROVE  JudgedIInv'
<1>1. pol \in PolicyObjects /\ pol.gen \in Nat /\ pol.observed \in Nat
  BY DEF VersionIInv, VersionTypeOK, PolicyObjects
<1>2. CASE pol' = pol
  BY <1>2 DEF JudgedIInv, Pending, PolicyQuiet, Judged, ReadyCompiles, SameSpec,
              AlreadyReconciled, AggregateRules
<1>3. CASE pol'.gen = pol.gen + 1 /\ pol'.observed = pol.observed
  <2>1. seenPol.gen \in Nat /\ (rec # RecIdle => rec.obj.gen \in Nat)
    BY DEF VersionIInv, VersionTypeOK, PolicyObjects, Reconciles
  <2>2. pol.observed <= pol.gen /\ seenPol.gen <= pol.gen BY DEF JudgedIInv, ReadyCompiles, SameSpec
  <2>3. rec # RecIdle => rec.obj.gen <= pol.gen BY DEF JudgedIInv, Pending, SameSpec
  <2>4. ReadyCompiles(pol)'
    <3>1. pol'.observed <= pol'.gen /\ pol'.observed # pol'.gen BY <1>1, <1>3, <2>2
    <3> QED BY <3>1 DEF ReadyCompiles, AlreadyReconciled
  <2>5. SameSpec(seenPol)' BY <1>1, <1>3, <2>1, <2>2 DEF SameSpec
  <2>6. (rec # RecIdle => SameSpec(rec.obj))' BY <1>1, <1>3, <2>1, <2>3 DEF SameSpec
  <2>7. seenPol' # pol' BY <1>1, <1>3, <2>1, <2>2
  <2> QED BY <2>4, <2>5, <2>6, <2>7
          DEF JudgedIInv, Pending, PolicyQuiet, ReadyCompiles, AlreadyReconciled, AggregateRules
<1> QED BY <1>1, <1>2, <1>3, PatchCounts

LEMMA InvalidJudges ==
  ASSUME VersionIInv, JudgedIInv, rec = RecIdle, SetInvalid,
         seenPol.content \in BadContents \/ seenPol.rollback # 0
  PROVE  JudgedIInv'
<1>1. pol \in PolicyObjects /\ seenPol \in PolicyObjects BY DEF VersionIInv, VersionTypeOK
<1>2. PICK o : o = [seenPol EXCEPT !.phase = "Invalid"] OBVIOUS
<1>3. o \in PolicyObjects /\ o.phase = "Invalid" /\ o.observed = seenPol.observed
  BY <1>1, <1>2 DEF PolicyObjects, PolicyPhases
<1>4. /\ pol' = WithStatus(o) /\ UNCHANGED <<seenPol, rec, whRules, whQueued>>
  BY <1>2 DEF SetInvalid, webhookVars
<1>5. /\ pol'.content = pol.content /\ pol'.gen = pol.gen
      /\ pol'.phase = "Invalid" /\ pol'.observed = seenPol.observed
  BY <1>1, <1>3, <1>4, StatusOnly
<1>6. pol'.observed <= pol'.gen
  <2>1. seenPol.observed <= seenPol.gen /\ seenPol.gen <= pol.gen
    BY DEF JudgedIInv, ReadyCompiles, SameSpec
  <2> QED BY <1>1, <1>5, <2>1 DEF PolicyObjects
<1>7. (PolicyQuiet => Judged(pol))' BY <1>4, <1>5 DEF PolicyQuiet, Judged
<1> QED BY <1>4, <1>5, <1>6, <1>7
        DEF JudgedIInv, Pending, ReadyCompiles, SameSpec, AlreadyReconciled, AggregateRules

(* The status write makes the policy differ from the copy that was read.   *)
LEMMA WriteJudges ==
  ASSUME VersionIInv, JudgedIInv, WriteStatus
  PROVE  JudgedIInv'
<1>1. pol \in PolicyObjects /\ rec \in Reconciles /\ rec # RecIdle /\ rec.at = "status"
  BY DEF VersionIInv, VersionTypeOK, WriteStatus
<1>2. /\ rec.obj \in PolicyObjects /\ rec.next \in Nat
      /\ rec.obj.history \in VersionHistories /\ rec.obj.gen \in Nat
  BY <1>1 DEF Reconciles, PolicyObjects
<1>3. PICK h : h = BuildHistory(rec.obj.history, rec.next) OBVIOUS
<1>4. h \in VersionHistories BY <1>2, <1>3, HistoriesStayShort
<1>5. PICK done : done = [rec.obj EXCEPT !.phase = "Ready", !.observed = rec.obj.gen,
                            !.current = rec.next, !.history = h]
  OBVIOUS
<1>6. done \in PolicyObjects /\ done.observed = rec.obj.gen /\ done.phase = "Ready"
  BY <1>2, <1>4, <1>5 DEF PolicyObjects, PolicyPhases
<1>7. /\ pol' = WithStatus(done) /\ rec' = RecIdle
      /\ UNCHANGED <<seenPol, polQueued, whRules, whQueued>>
  BY <1>3, <1>5 DEF WriteStatus, webhookVars
<1>8. /\ pol'.content = pol.content /\ pol'.gen = pol.gen
      /\ pol'.observed = rec.obj.gen /\ pol'.phase = "Ready"
  BY <1>1, <1>6, <1>7, StatusOnly
<1>9. SameSpec(rec.obj) /\ ~ AlreadyReconciled(rec.obj) /\ (polQueued \/ rec.obj = seenPol)
  BY <1>1 DEF JudgedIInv, Pending
<1>10. rec.obj.content \notin BadContents BY <1>1 DEF VersionIInv, RecordsCompile
<1>11. ReadyCompiles(pol)' BY <1>8, <1>9, <1>10 DEF ReadyCompiles, AlreadyReconciled, SameSpec
<1>12. ~ PolicyQuiet'
  <2> SUFFICES ASSUME ~ polQueued, seenPol = pol' PROVE FALSE BY <1>7 DEF PolicyQuiet
  <2>1. rec.obj = pol' BY <1>9
  <2>2. AlreadyReconciled(rec.obj) BY <1>8, <2>1 DEF AlreadyReconciled
  <2> QED BY <1>9, <2>2
<1> QED BY <1>7, <1>8, <1>11, <1>12
        DEF JudgedIInv, Pending, ReadyCompiles, SameSpec, AlreadyReconciled, AggregateRules

LEMMA JudgedStep ==
  ASSUME VersionIInv, JudgedIInv, [VersionNext]_versionVars
  PROVE  JudgedIInv'
<1>1. pol \in PolicyObjects /\ seenPol \in PolicyObjects BY DEF VersionIInv, VersionTypeOK
<1>2. ASSUME NEW c \in PContents, ChangeSpec(c, 0) PROVE JudgedIInv'
  BY <1>2, PatchJudges DEF ChangeSpec, webhookVars
<1>3. ASSUME NEW n \in 1..(pol.current + 1), ChangeSpec(pol.content, n) PROVE JudgedIInv'
  <2>1. pol.content \in PContents /\ n \in Nat BY <1>1 DEF PolicyObjects
  <2> QED BY <1>3, <2>1, PatchJudges DEF ChangeSpec, webhookVars
<1>4. CASE HandleRollback
  <2>1. pvs[seenPol.rollback] \in PContents
    BY <1>4 DEF VersionIInv, VersionTypeOK, HandleRollback
  <2>2. pol.content \in PContents BY <1>1 DEF PolicyObjects
  <2>3. PICK c \in PContents : pol' = Patched(c, 0) BY <1>4, <2>1, <2>2 DEF HandleRollback
  <2> QED BY <1>4, <2>3, PatchJudges DEF HandleRollback, webhookVars
<1>5. CASE RollbackTargetMissing \/ RegoInvalid
  BY <1>5, InvalidJudges DEF RollbackTargetMissing, RegoInvalid, TakeKey
<1>6. CASE Watch
  <2>1. pol.gen <= pol.gen BY <1>1 DEF PolicyObjects
  <2>2. /\ pol' = pol /\ seenPol' = pol /\ rec' = rec /\ polQueued' = TRUE /\ whQueued' = TRUE
    BY <1>6 DEF Watch
  <2> QED BY <2>1, <2>2
          DEF JudgedIInv, Pending, PolicyQuiet, ReadyCompiles, SameSpec, AlreadyReconciled
<1>7. CASE NothingToDo
  <2>1. /\ rec = RecIdle /\ seenPol.rollback = 0 /\ AlreadyReconciled(seenPol)
        /\ UNCHANGED <<pol, seenPol, rec, whRules, whQueued>>
    BY <1>7 DEF NothingToDo, TakeKey, webhookVars
  <2>2. seenPol.content \notin BadContents BY <2>1 DEF JudgedIInv, ReadyCompiles
  <2>3. (PolicyQuiet => Judged(pol))' BY <2>1, <2>2 DEF PolicyQuiet, Judged, AlreadyReconciled
  <2> QED BY <2>1, <2>3
          DEF JudgedIInv, Pending, ReadyCompiles, SameSpec, AlreadyReconciled, AggregateRules
<1>8. CASE BeginVersion
  <2>1. /\ rec' # RecIdle /\ rec'.obj = seenPol /\ ~ AlreadyReconciled(seenPol)
        /\ UNCHANGED <<pol, seenPol, whRules, whQueued>>
    <3>1. rec' = [at |-> "create", obj |-> seenPol, next |-> seenPol.current + 1, tries |-> 0]
      BY <1>8 DEF BeginVersion
    <3>2. rec'.at = "create" /\ rec'.obj = seenPol BY <3>1
    <3>3. RecIdle.at = "idle" BY DEF RecIdle
    <3> QED BY <1>8, <3>2, <3>3 DEF BeginVersion, webhookVars
  <2> QED BY <2>1
          DEF JudgedIInv, Pending, PolicyQuiet, ReadyCompiles, SameSpec, AlreadyReconciled, AggregateRules
<1>9. CASE CreateVersion \/ PruneVersions
  <2>1. rec \in Reconciles /\ rec # RecIdle
    BY <1>9 DEF VersionIInv, VersionTypeOK, CreateVersion, PruneVersions
  <2>2. UNCHANGED <<pol, seenPol, polQueued, whRules, whQueued>>
    BY <1>9 DEF CreateVersion, PruneVersions, webhookVars
  <2>3. rec'.obj = rec.obj BY <1>9, <2>1 DEF CreateVersion, PruneVersions, Reconciles
  <2>4. rec' # RecIdle
    <3>1. rec'.at \in {"create", "prune", "status"}
      BY <1>9, <2>1 DEF CreateVersion, PruneVersions, Reconciles
    <3> QED BY <3>1 DEF RecIdle
  <2> QED BY <2>1, <2>2, <2>3, <2>4
          DEF JudgedIInv, Pending, PolicyQuiet, ReadyCompiles, SameSpec, AlreadyReconciled, AggregateRules
<1>10. CASE GiveUp \/ ReconcileFails
  <2>1. /\ rec' = RecIdle /\ polQueued' = TRUE
        /\ UNCHANGED <<pol, seenPol, whRules, whQueued>>
    BY <1>10 DEF GiveUp, ReconcileFails, webhookVars
  <2> QED BY <2>1
          DEF JudgedIInv, Pending, PolicyQuiet, ReadyCompiles, SameSpec, AlreadyReconciled, AggregateRules
<1>11. CASE ReconcileWebhookConfig \/ ResetWebhookConfig \/ UNCHANGED versionVars
  <2>1. UNCHANGED <<pol, seenPol, rec, polQueued>>
    BY <1>11 DEF ReconcileWebhookConfig, ResetWebhookConfig, versionVars
  <2>2. whQueued' \/ whRules' = AggregateRules(seenPol)'
    BY <1>11, <2>1 DEF ReconcileWebhookConfig, ResetWebhookConfig, versionVars, AggregateRules, JudgedIInv
  <2> QED BY <2>1, <2>2
          DEF JudgedIInv, Pending, PolicyQuiet, Judged, ReadyCompiles, SameSpec, AlreadyReconciled
<1> QED BY <1>2, <1>3, <1>4, <1>5, <1>6, <1>7, <1>8, <1>9, <1>10, <1>11, WriteJudges
        DEF VersionNext, ReconcilePolicy

(* When no key is queued, no reconcile is under way and the informer has   *)
(* delivered everything, the policy is at rest: Ready at its generation    *)
(* with Rego that compiles, or Invalid because it does not or because a    *)
(* rollback has no target; and once the webhook configuration has no key   *)
(* either, its rules are those of the policy if it is Ready, whichever     *)
(* reconciler ran first, whatever was reset, changed, stale or lost with a *)
(* crash on the way (Reconcile of both, SetupWithManager).                 *)
THEOREM QuietPolicyRests ==
  VersionSpec => [](/\ PolicyQuiet => Judged(pol)
                    /\ PolicyQuiet /\ ~ whQueued => PolicyRests)
<1>1. VersionInit => JudgedIInv
  <2> SUFFICES ASSUME NEW c \in PContents, VersionStart(c) PROVE JudgedIInv
    BY DEF VersionInit
  <2>1. /\ pol.gen = 1 /\ pol.observed = 0 /\ seenPol = pol /\ rec = RecIdle
        /\ polQueued = TRUE /\ whQueued = TRUE
    BY DEF VersionStart
  <2>2. pol.observed <= pol.gen /\ pol.gen <= pol.gen /\ pol.observed # pol.gen BY <2>1
  <2> QED BY <2>1, <2>2
          DEF JudgedIInv, Pending, PolicyQuiet, ReadyCompiles, SameSpec, AlreadyReconciled
<1>2. JudgedIInv => /\ PolicyQuiet => Judged(pol)
                    /\ PolicyQuiet /\ ~ whQueued => PolicyRests
  <2> SUFFICES ASSUME JudgedIInv, PolicyQuiet, ~ whQueued PROVE PolicyRests BY DEF JudgedIInv
  <2>1. Judged(pol) /\ seenPol = pol BY DEF JudgedIInv, PolicyQuiet
  <2>2. whRules = {c \in {pol.content} : pol.phase = "Ready"}
    BY <2>1 DEF JudgedIInv, AggregateRules
  <2> QED BY <2>1, <2>2 DEF PolicyQuiet, PolicyRests, Judged
<1> QED BY <1>1, <1>2, JudgedStep, VersionInductive, PTL DEF VersionSpec

-----------------------------------------------------------------------------
(***************************************************************************)
(* References of groups.                                                   *)
(***************************************************************************)
LEMMA ReferenceStarts == ReferenceInit => ReferenceTypeOK
<1> SUFFICES ASSUME ReferenceInit PROVE ReferenceTypeOK OBVIOUS
<1>1. NewGroup(RefPolicies) \in GroupObjects BY DEF NewGroup, GroupObjects
<1>2. edits = 0 /\ errors = 0 /\ run = RunIdle /\ grpQueue = RefGroups BY DEF ReferenceInit
<1>3. edits \in 0..MaxEdits /\ errors \in 0..MaxErrors BY <1>2, ReferenceAssumption
<1>4. grp \in [RefGroups -> GroupObjects] /\ seenGrp \in [RefGroups -> GroupObjects]
  BY <1>1 DEF ReferenceInit
<1>5. refBy \in [RefPolicies -> SUBSET RefGroups] BY DEF ReferenceInit
<1> QED BY <1>2, <1>3, <1>4, <1>5 DEF ReferenceTypeOK

LEMMA GoneIsGroup == GoneGroup \in GroupObjects
BY DEF GoneGroup, GroupObjects

(* The parts of a run that the steps of a reconcile read.                  *)
LEMMA RunFields ==
  ASSUME ReferenceTypeOK, run # RunIdle
  PROVE  /\ run \in GroupRuns /\ run.group \in RefGroups
         /\ run.members \in SUBSET RefPolicies /\ run.prev \in SUBSET RefPolicies
         /\ run.todo \in SUBSET RefPolicies /\ run.listed \in [RefGroups -> GroupObjects]
BY DEF ReferenceTypeOK, GroupRuns

(* A step brings keys back and moves the run on; the rest is as it was.    *)
LEMMA ReferenceWhole ==
  ASSUME ReferenceTypeOK, UNCHANGED <<seenGrp, refBy, edits, errors>>,
         grp' \in [RefGroups -> GroupObjects],
         grpQueue' \subseteq RefGroups, run' \in {RunIdle} \cup GroupRuns
  PROVE  ReferenceTypeOK'
BY DEF ReferenceTypeOK

LEMMA FailsKeepsTypes ==
  ASSUME ReferenceTypeOK, run # RunIdle, Fails
  PROVE  grpQueue' \subseteq RefGroups /\ run' \in {RunIdle} \cup GroupRuns
<1>1. run.group \in RefGroups BY RunFields
<1> QED BY <1>1 DEF Fails, ReferenceTypeOK

LEMMA GroupEditStep ==
  ASSUME ReferenceTypeOK, NEW g \in RefGroups, NEW s \in SUBSET RefPolicies,
         EditGroup(g, s) \/ DeleteGroup(g) \/ WatchGroup(g)
  PROVE  ReferenceTypeOK'
<1>1. /\ grp \in [RefGroups -> GroupObjects] /\ seenGrp \in [RefGroups -> GroupObjects]
      /\ grp[g] \in GroupObjects /\ edits \in 0..MaxEdits
  BY DEF ReferenceTypeOK
<1>2. CASE EditGroup(g, s) \/ DeleteGroup(g)
  <2>1. grp' \in [RefGroups -> GroupObjects]
    <3>1. CASE EditGroup(g, s)
      <4>1. [grp[g] EXCEPT !.spec = s] \in GroupObjects BY <1>1 DEF GroupObjects
      <4>2. grp' = [grp EXCEPT ![g] = [grp[g] EXCEPT !.spec = s]] BY <1>1, <3>1 DEF EditGroup
      <4> QED BY <1>1, <4>1, <4>2
    <3>2. CASE DeleteGroup(g)
      <4>1. [grp[g] EXCEPT !.state = "deleting"] \in GroupObjects BY <1>1 DEF GroupObjects
      <4>2. (IF grp[g].finalizer THEN [grp[g] EXCEPT !.state = "deleting"] ELSE GoneGroup)
              \in GroupObjects
        BY <4>1, GoneIsGroup
      <4> QED BY <1>1, <3>2, <4>2 DEF DeleteGroup
    <3> QED BY <1>2, <3>1, <3>2
  <2>2. edits' \in 0..MaxEdits
    BY <1>1, <1>2, ReferenceAssumption DEF EditGroup, DeleteGroup
  <2> QED BY <1>2, <2>1, <2>2 DEF ReferenceTypeOK, EditGroup, DeleteGroup
<1>3. CASE WatchGroup(g) BY <1>1, <1>3 DEF WatchGroup, ReferenceTypeOK
<1> QED BY <1>2, <1>3

LEMMA GroupRunStep ==
  ASSUME ReferenceTypeOK,
         \/ \E g \in RefGroups : BeginGroup(g)
         \/ AddFinalizer \/ WriteGroupStatus \/ ListGroups \/ EndGroup
  PROVE  ReferenceTypeOK'
<1>1. /\ grp \in [RefGroups -> GroupObjects] /\ seenGrp \in [RefGroups -> GroupObjects]
      /\ grpQueue \subseteq RefGroups /\ run \in {RunIdle} \cup GroupRuns
  BY DEF ReferenceTypeOK
<1>2. ASSUME NEW g \in RefGroups, BeginGroup(g) PROVE ReferenceTypeOK'
  <2>1. seenGrp[g] \in GroupObjects BY <1>1
  <2>2. seenGrp[g].resolved \in SUBSET RefPolicies /\ seenGrp[g].spec \in SUBSET RefPolicies
    BY <2>1 DEF GroupObjects
  <2>3. ASSUME NEW at \in {"finalizer", "status", "list", "touch"},
               NEW m \in SUBSET RefPolicies, Start(g, at, m)
        PROVE  run' \in GroupRuns
    BY <1>1, <2>1, <2>2, <2>3 DEF Start, GroupRuns
  <2>4. run' \in {RunIdle} \cup GroupRuns
    <3>1. {} \in SUBSET RefPolicies OBVIOUS
    <3>2. CASE UNCHANGED run BY <1>1, <3>2
    <3>3. CASE Start(g, "list", {}) BY <2>3, <3>1, <3>3
    <3>4. CASE Start(g, IF seenGrp[g].finalizer THEN "status" ELSE "finalizer", seenGrp[g].spec)
      <4>1. (IF seenGrp[g].finalizer THEN "status" ELSE "finalizer")
              \in {"finalizer", "status", "list", "touch"}
        OBVIOUS
      <4> QED BY <2>2, <2>3, <3>4, <4>1
    <3> QED BY <1>2, <3>2, <3>3, <3>4 DEF BeginGroup
  <2> QED BY <1>1, <1>2, <2>4, ReferenceWhole DEF BeginGroup
<1>3. ASSUME run # RunIdle, NEW o, o \in GroupObjects,
             grp' = [grp EXCEPT ![run.group] = o]
      PROVE  grp' \in [RefGroups -> GroupObjects]
  BY <1>1, <1>3, RunFields
<1>4. ASSUME run # RunIdle, NEW at \in {"finalizer", "status", "list", "touch"},
             run' = [run EXCEPT !.at = at]
      PROVE  run' \in GroupRuns
  <2>1. run \in GroupRuns BY <1>4, RunFields
  <2> QED BY <1>4, <2>1 DEF GroupRuns
<1>5. CASE AddFinalizer
  <2>1. run # RunIdle /\ run.group \in RefGroups BY <1>5, RunFields DEF AddFinalizer, RunAt
  <2>2. grp[run.group] \in GroupObjects BY <1>1, <2>1
  <2>3. CASE Conflict
    BY <1>1, <1>5, <2>1, <2>3, FailsKeepsTypes, ReferenceWhole DEF AddFinalizer, Conflict
  <2>4. CASE ~ Conflict
    <3>1. /\ grp' = [grp EXCEPT ![run.group].finalizer = TRUE]
          /\ run' = [run EXCEPT !.at = "status"] /\ grpQueue' = grpQueue
      BY <1>5, <2>4 DEF AddFinalizer
    <3>2. [grp[run.group] EXCEPT !.finalizer = TRUE] \in GroupObjects BY <2>2 DEF GroupObjects
    <3>3. grp' = [grp EXCEPT ![run.group] = [grp[run.group] EXCEPT !.finalizer = TRUE]]
      BY <1>1, <3>1
    <3>4. grp' \in [RefGroups -> GroupObjects] BY <1>3, <2>1, <3>2, <3>3
    <3>5. run' \in GroupRuns BY <1>4, <2>1, <3>1
    <3> QED BY <1>1, <1>5, <3>1, <3>4, <3>5, ReferenceWhole DEF AddFinalizer
  <2> QED BY <2>3, <2>4
<1>6. CASE WriteGroupStatus
  <2>1. /\ run # RunIdle /\ run.group \in RefGroups /\ run.members \in SUBSET RefPolicies
    BY <1>6, RunFields DEF WriteGroupStatus, RunAt
  <2>2. grp[run.group] \in GroupObjects BY <1>1, <2>1
  <2>3. CASE grp[run.group].state = "gone"
    <3>1. Fails /\ grp' = grp BY <1>6, <2>3 DEF WriteGroupStatus
    <3> QED BY <1>1, <1>6, <2>1, <3>1, FailsKeepsTypes, ReferenceWhole DEF WriteGroupStatus
  <2>4. CASE grp[run.group].state # "gone"
    <3>1. /\ grp' = [grp EXCEPT ![run.group].resolved = run.members]
          /\ run' = [run EXCEPT !.at = "list"] /\ grpQueue' = grpQueue
      BY <1>6, <2>4 DEF WriteGroupStatus
    <3>2. [grp[run.group] EXCEPT !.resolved = run.members] \in GroupObjects
      BY <2>1, <2>2 DEF GroupObjects
    <3>3. grp' = [grp EXCEPT ![run.group] = [grp[run.group] EXCEPT !.resolved = run.members]]
      BY <1>1, <3>1
    <3>4. grp' \in [RefGroups -> GroupObjects] BY <1>3, <2>1, <3>2, <3>3
    <3>5. run' \in GroupRuns BY <1>4, <2>1, <3>1
    <3> QED BY <1>1, <1>6, <3>1, <3>4, <3>5, ReferenceWhole DEF WriteGroupStatus
  <2> QED BY <2>3, <2>4
<1>7. CASE ListGroups
  <2>1. run # RunIdle BY <1>7 DEF ListGroups, RunAt
  <2>2. run \in GroupRuns /\ ToTouch \in SUBSET RefPolicies BY <2>1, RunFields DEF ToTouch
  <2>3. run' = [run EXCEPT !.at = "touch", !.listed = seenGrp, !.todo = ToTouch]
    BY <1>7 DEF ListGroups
  <2>4. run' \in GroupRuns BY <1>1, <2>2, <2>3 DEF GroupRuns
  <2> QED BY <1>1, <1>7, <2>4, ReferenceWhole DEF ListGroups
<1>8. CASE EndGroup
  <2>1. run # RunIdle BY <1>8 DEF EndGroup, RunAt
  <2>2. CASE Conflict
    BY <1>1, <1>8, <2>1, <2>2, FailsKeepsTypes, ReferenceWhole DEF EndGroup, Conflict
  <2>3. CASE ~ Conflict
    <3>1. /\ run' = RunIdle /\ grpQueue' = grpQueue
          /\ grp' = grp \/ grp' = [grp EXCEPT ![run.group] = GoneGroup]
      BY <1>8, <2>3 DEF EndGroup
    <3>2. grp' \in [RefGroups -> GroupObjects] BY <1>1, <1>3, <2>1, <3>1, GoneIsGroup
    <3> QED BY <1>1, <1>8, <3>1, <3>2, ReferenceWhole DEF EndGroup
  <2> QED BY <2>2, <2>3
<1> QED BY <1>2, <1>5, <1>6, <1>7, <1>8

LEMMA ReferenceStep ==
  ASSUME ReferenceTypeOK, [ReferenceNext]_referenceVars
  PROVE  ReferenceTypeOK'
<1>1. ASSUME NEW g \in RefGroups, DeleteGroup(g) \/ WatchGroup(g) PROVE ReferenceTypeOK'
  <2>1. {} \in SUBSET RefPolicies OBVIOUS
  <2> QED BY <1>1, <2>1, GroupEditStep
<1>2. ASSUME NEW p \in RefPolicies, TouchPolicy(p) PROVE ReferenceTypeOK'
  <2>1. run # RunIdle BY <1>2 DEF TouchPolicy, RunAt
  <2>2. run \in GroupRuns /\ run.todo \ {p} \in SUBSET RefPolicies BY <2>1, RunFields
  <2>3. run' = [run EXCEPT !.todo = run.todo \ {p}] BY <1>2 DEF TouchPolicy
  <2>4. run' \in GroupRuns BY <2>2, <2>3 DEF GroupRuns
  <2>5. Refs(p) \in SUBSET RefGroups /\ GroupsReferencing(p) \in SUBSET RefGroups
    BY DEF Refs, GroupsReferencing
  <2>6. refBy' \in [RefPolicies -> SUBSET RefGroups] /\ grpQueue' \subseteq RefGroups
    BY <1>2, <2>5 DEF TouchPolicy, ReferenceTypeOK
  <2> QED BY <1>2, <2>4, <2>6 DEF TouchPolicy, ReferenceTypeOK
<1>3. CASE GroupReconcileFails
  <2>1. grpQueue' \subseteq RefGroups /\ run' \in {RunIdle} \cup GroupRuns
    BY <1>3, FailsKeepsTypes DEF GroupReconcileFails
  <2>2. errors' \in 0..MaxErrors
    BY <1>3, ReferenceAssumption DEF GroupReconcileFails, ReferenceTypeOK
  <2> QED BY <1>3, <2>1, <2>2 DEF GroupReconcileFails, ReferenceTypeOK
<1>4. CASE UNCHANGED referenceVars BY <1>4 DEF referenceVars, ReferenceTypeOK
<1> QED BY <1>1, <1>2, <1>3, <1>4, GroupEditStep, GroupRunStep DEF ReferenceNext, ReconcileGroup

(* Types of the group reconciler: a reconcile touches, and a policy names, *)
(* only policies and groups there are, and errors bring back keys of       *)
(* groups (Reconcile, refreshReferencedBy, findGroupsReferencing).         *)
THEOREM ReferenceTypeCorrect == ReferenceSpec => []ReferenceTypeOK
BY ReferenceStarts, ReferenceStep, PTL DEF ReferenceSpec

(***************************************************************************)
(* What the group reconciler has left to do is in its queue, under way or  *)
(* still to be delivered.                                                  *)
(*                                                                         *)
(* The invariant speaks of the informer's copy, not of the group itself:   *)
(* two edits may take a group back to what was seen before without an      *)
(* event.  What a reconcile of the group has written since the copy tells  *)
(* them apart, because only the next reconcile of the same group, which    *)
(* needs its key, writes there again.                                      *)
(***************************************************************************)
RunsOn(g) == run # RunIdle /\ run.group = g

(* A group that waits for nothing is referenced, as it was seen.           *)
SeenIsReferenced(g) ==
  seenGrp[g].state = "live" /\ g \notin grpQueue /\ ~ RunsOn(g) =>
    \/ \A p \in seenGrp[g].spec : g \in refBy[p]
    \/ grp[g].state # "live"
    \/ grp[g].resolved # seenGrp[g].resolved

(* One on its way out that waits for nothing is gone.                      *)
SeenDeletingIsGone(g) ==
  seenGrp[g].state = "deleting" /\ g \notin grpQueue /\ ~ RunsOn(g) => grp[g].state = "gone"

(* Only a finalizer keeps a deleted group.                                 *)
HeldByFinalizer(o) == o.state = "deleting" => o.finalizer

(* The reconcile under way, as far as it has come.                         *)
RunSoFar ==
  LET g == run.group
  IN /\ run.read.state \in {"live", "deleting"}
     /\ run.at \in {"finalizer", "status"} => run.read.state = "live"
     /\ run.read.state = "live" =>
          /\ run.members = run.read.spec
          /\ run.at \in {"list", "touch"} =>
               grp[g].state = "gone" \/ grp[g].resolved = run.members
     /\ g \notin grpQueue =>
          /\ run.read = seenGrp[g]
          /\ run.at = "touch" => run.listed[g] = seenGrp[g]
     /\ run.at = "touch" => \A p \in ToTouch \ run.todo : refBy[p] = Refs(p)

ReferencedIInv ==
  /\ ReferenceTypeOK
  /\ \A g \in RefGroups : /\ SeenIsReferenced(g) /\ SeenDeletingIsGone(g)
                          /\ HeldByFinalizer(grp[g]) /\ HeldByFinalizer(seenGrp[g])
  /\ run # RunIdle => RunSoFar

(* Only the key, the copy and the run of a group, what it is and what was  *)
(* written of it matter to what is known of it.                            *)
LEMMA OthersKept ==
  ASSUME ReferencedIInv, NEW g \in RefGroups, seenGrp'[g] = seenGrp[g],
         g \notin grpQueue' => g \notin grpQueue,
         ~ RunsOn(g)' => ~ RunsOn(g),
         \/ grp'[g] = grp[g]
         \/ /\ grp[g].state = "live" /\ grp'[g].state = "live"
            /\ grp'[g].resolved = grp[g].resolved
         \/ grp'[g].state = "gone"
         \/ grp[g].state = "live" /\ grp'[g].state = "deleting" /\ grp'[g].finalizer,
         \A p \in seenGrp[g].spec : g \in grpQueue' \/ refBy'[p] = refBy[p]
  PROVE  /\ SeenIsReferenced(g)' /\ SeenDeletingIsGone(g)'
         /\ HeldByFinalizer(grp[g])' /\ HeldByFinalizer(seenGrp[g])'
<1>1. /\ SeenIsReferenced(g) /\ SeenDeletingIsGone(g)
      /\ HeldByFinalizer(grp[g]) /\ HeldByFinalizer(seenGrp[g])
  BY DEF ReferencedIInv
<1>2. SeenIsReferenced(g)' BY <1>1 DEF SeenIsReferenced
<1>3. SeenDeletingIsGone(g)' BY <1>1 DEF SeenDeletingIsGone
<1>4. HeldByFinalizer(grp[g])' /\ HeldByFinalizer(seenGrp[g])' BY <1>1 DEF HeldByFinalizer
<1> QED BY <1>2, <1>3, <1>4

(* A group whose key is queued, or whose reconcile is under way.           *)
LEMMA BusyKept ==
  ASSUME NEW g \in RefGroups, g \in grpQueue' \/ RunsOn(g)',
         HeldByFinalizer(grp'[g]), HeldByFinalizer(seenGrp'[g])
  PROVE  /\ SeenIsReferenced(g)' /\ SeenDeletingIsGone(g)'
         /\ HeldByFinalizer(grp[g])' /\ HeldByFinalizer(seenGrp[g])'
BY DEF SeenIsReferenced, SeenDeletingIsGone, HeldByFinalizer

LEMMA ReferencedEdit ==
  ASSUME ReferencedIInv, NEW g \in RefGroups, NEW s \in SUBSET RefPolicies,
         EditGroup(g, s) \/ DeleteGroup(g) \/ WatchGroup(g)
  PROVE  ReferencedIInv'
<1>1. ReferenceTypeOK' BY GroupEditStep DEF ReferencedIInv
<1>2. /\ grp \in [RefGroups -> GroupObjects] /\ seenGrp \in [RefGroups -> GroupObjects]
      /\ grp[g] \in GroupObjects
  BY DEF ReferencedIInv, ReferenceTypeOK
<1>3. run' = run /\ refBy' = refBy BY DEF EditGroup, DeleteGroup, WatchGroup
<1>4. CASE EditGroup(g, s) \/ DeleteGroup(g)
  <2>1. seenGrp' = seenGrp /\ grpQueue' = grpQueue BY <1>4 DEF EditGroup, DeleteGroup
  <2>2. grp[g].state = "live" BY <1>4 DEF EditGroup, DeleteGroup
  <2>3. \/ grp'[g].state = "live" /\ grp'[g].resolved = grp[g].resolved
        \/ grp'[g].state = "gone"
        \/ /\ grp'[g].state = "deleting" /\ grp'[g].finalizer
           /\ grp'[g].resolved = grp[g].resolved
    <3>1. CASE EditGroup(g, s)
      <4>1. grp'[g] = [grp[g] EXCEPT !.spec = s] BY <1>2, <3>1 DEF EditGroup
      <4> QED BY <1>2, <2>2, <4>1 DEF GroupObjects
    <3>2. CASE DeleteGroup(g)
      <4>1. grp'[g] = IF grp[g].finalizer THEN [grp[g] EXCEPT !.state = "deleting"] ELSE GoneGroup
        BY <1>2, <3>2 DEF DeleteGroup
      <4>2. CASE grp[g].finalizer
        <5>1. grp'[g] = [grp[g] EXCEPT !.state = "deleting"] BY <4>1, <4>2
        <5> QED BY <1>2, <4>2, <5>1 DEF GroupObjects
      <4>3. CASE ~ grp[g].finalizer BY <4>1, <4>3 DEF GoneGroup
      <4> QED BY <4>2, <4>3
    <3> QED BY <1>4, <3>1, <3>2
  <2>4. \A h \in RefGroups : h # g => grp'[h] = grp[h] BY <1>2, <1>4 DEF EditGroup, DeleteGroup
  <2>5. ASSUME NEW h \in RefGroups
        PROVE  /\ SeenIsReferenced(h)' /\ SeenDeletingIsGone(h)'
               /\ HeldByFinalizer(grp[h])' /\ HeldByFinalizer(seenGrp[h])'
    BY <1>3, <2>1, <2>2, <2>3, <2>4, OthersKept DEF RunsOn
  <2>6. (run # RunIdle => RunSoFar)'
    <3> SUFFICES ASSUME run # RunIdle PROVE RunSoFar' BY <1>3
    <3>1. RunSoFar /\ run.group \in RefGroups BY RunFields DEF ReferencedIInv
    <3>2. \/ grp'[run.group] = grp[run.group] \/ grp'[run.group].state = "gone"
          \/ /\ grp[run.group].state # "gone"
             /\ grp'[run.group].resolved = grp[run.group].resolved
      BY <2>2, <2>3, <2>4, <3>1
    <3> QED BY <1>3, <2>1, <3>1, <3>2 DEF RunSoFar, ToTouch, Refs
  <2> QED BY <1>1, <2>5, <2>6 DEF ReferencedIInv
<1>5. CASE WatchGroup(g)
  <2>1. /\ grp' = grp /\ grpQueue' = grpQueue \cup {g} /\ seenGrp'[g] = grp[g]
        /\ \A h \in RefGroups : h # g => seenGrp'[h] = seenGrp[h]
    BY <1>2, <1>5 DEF WatchGroup
  <2>2. ASSUME NEW h \in RefGroups
        PROVE  /\ SeenIsReferenced(h)' /\ SeenDeletingIsGone(h)'
               /\ HeldByFinalizer(grp[h])' /\ HeldByFinalizer(seenGrp[h])'
    <3>1. CASE h = g
      <4>1. HeldByFinalizer(grp[g]) BY DEF ReferencedIInv
      <4> QED BY <2>1, <3>1, <4>1, BusyKept
    <3>2. CASE h # g BY <1>3, <2>1, <3>2, OthersKept DEF RunsOn
    <3> QED BY <3>1, <3>2
  <2>3. (run # RunIdle => RunSoFar)'
    <3> SUFFICES ASSUME run # RunIdle PROVE RunSoFar' BY <1>3
    <3>1. RunSoFar /\ run.group \in RefGroups BY RunFields DEF ReferencedIInv
    <3> QED BY <1>3, <2>1, <3>1 DEF RunSoFar, ToTouch, Refs
  <2> QED BY <1>1, <2>2, <2>3 DEF ReferencedIInv
<1> QED BY <1>4, <1>5

(* An error brings the group back.                                         *)
LEMMA ReferencedFails ==
  ASSUME ReferencedIInv, ReferenceTypeOK', run # RunIdle, Fails,
         UNCHANGED <<grp, seenGrp, refBy>>
  PROVE  ReferencedIInv'
<1>1. run' = RunIdle /\ grpQueue' = grpQueue \cup {run.group} /\ run.group \in RefGroups
  BY RunFields DEF Fails, ReferencedIInv
<1>2. ASSUME NEW h \in RefGroups
      PROVE  /\ SeenIsReferenced(h)' /\ SeenDeletingIsGone(h)'
             /\ HeldByFinalizer(grp[h])' /\ HeldByFinalizer(seenGrp[h])'
  <2>1. CASE h = run.group
    <3>1. HeldByFinalizer(grp[h]) /\ HeldByFinalizer(seenGrp[h]) BY DEF ReferencedIInv
    <3> QED BY <1>1, <2>1, <3>1, BusyKept
  <2>2. CASE h # run.group BY <1>1, <2>2, OthersKept DEF RunsOn
  <2> QED BY <2>1, <2>2
<1> QED BY <1>1, <1>2 DEF ReferencedIInv

LEMMA ReferencedBegin ==
  ASSUME ReferencedIInv, NEW g \in RefGroups, BeginGroup(g)
  PROVE  ReferencedIInv'
<1>1. ReferenceTypeOK' BY GroupRunStep DEF ReferencedIInv
<1>2. seenGrp[g] \in GroupObjects BY DEF ReferencedIInv, ReferenceTypeOK
<1>3. /\ run = RunIdle /\ grpQueue' = grpQueue \ {g} /\ UNCHANGED <<grp, seenGrp, refBy>>
  BY DEF BeginGroup
<1>4. HeldByFinalizer(grp[g]) /\ HeldByFinalizer(seenGrp[g]) BY DEF ReferencedIInv
<1>5. ASSUME NEW h \in RefGroups, h # g
      PROVE  /\ SeenIsReferenced(h)' /\ SeenDeletingIsGone(h)'
             /\ HeldByFinalizer(grp[h])' /\ HeldByFinalizer(seenGrp[h])'
  BY <1>3, <1>5, OthersKept DEF RunsOn
<1>6. CASE run' = run
  <2>1. seenGrp[g].state = "gone" \/ (seenGrp[g].state = "deleting" /\ ~ seenGrp[g].finalizer)
    <3>1. ASSUME NEW at, NEW m, Start(g, at, m) PROVE FALSE
      <4>1. run'.group = g /\ run'.at = at /\ run'.members = m BY <3>1 DEF Start
      <4>2. run' = RunIdle BY <1>3, <1>6
      <4> QED BY <3>1, <4>2 DEF Start, RunIdle
    <3> QED BY <3>1 DEF BeginGroup
  <2>2. seenGrp[g].state = "gone" BY <1>4, <2>1 DEF HeldByFinalizer
  <2>3. /\ SeenIsReferenced(g)' /\ SeenDeletingIsGone(g)'
        /\ HeldByFinalizer(grp[g])' /\ HeldByFinalizer(seenGrp[g])'
    BY <1>3, <1>4, <2>2 DEF SeenIsReferenced, SeenDeletingIsGone, HeldByFinalizer
  <2> QED BY <1>1, <1>3, <1>5, <1>6, <2>3 DEF ReferencedIInv
<1>7. ASSUME NEW at \in {"finalizer", "status", "list"}, NEW m, Start(g, at, m),
             \/ at = "list" /\ seenGrp[g].state = "deleting"
             \/ at # "list" /\ seenGrp[g].state = "live" /\ m = seenGrp[g].spec
      PROVE  ReferencedIInv'
  <2>1. /\ run'.at = at /\ run'.group = g /\ run'.read = seenGrp[g] /\ run'.members = m
    BY <1>7 DEF Start
  <2>2. run' # RunIdle BY <1>7, <2>1 DEF RunIdle
  <2>3. /\ SeenIsReferenced(g)' /\ SeenDeletingIsGone(g)'
        /\ HeldByFinalizer(grp[g])' /\ HeldByFinalizer(seenGrp[g])'
    BY <1>3, <1>4, <2>1, <2>2, BusyKept DEF RunsOn
  <2>4. RunSoFar' BY <1>3, <1>7, <2>1 DEF RunSoFar
  <2> QED BY <1>1, <1>5, <2>3, <2>4 DEF ReferencedIInv
<1>8. CASE run' # run
  <2>1. \/ seenGrp[g].state = "deleting" /\ Start(g, "list", {})
        \/ /\ seenGrp[g].state = "live"
           /\ Start(g, IF seenGrp[g].finalizer THEN "status" ELSE "finalizer", seenGrp[g].spec)
    BY <1>8 DEF BeginGroup
  <2>2. CASE seenGrp[g].state = "deleting" /\ Start(g, "list", {}) BY <1>7, <2>2
  <2>3. CASE seenGrp[g].state = "live" /\ Start(g, "status", seenGrp[g].spec) BY <1>7, <2>3
  <2>4. CASE seenGrp[g].state = "live" /\ Start(g, "finalizer", seenGrp[g].spec) BY <1>7, <2>4
  <2> QED BY <2>1, <2>2, <2>3, <2>4
<1> QED BY <1>6, <1>8

(* The writes of a reconcile that goes on concern its own group.           *)
LEMMA ReferencedGoesOn ==
  ASSUME ReferencedIInv, ReferenceTypeOK', run # RunIdle, run' # RunIdle,
         run'.group = run.group, RunSoFar', HeldByFinalizer(grp'[run.group]),
         \A h \in RefGroups : h # run.group => grp'[h] = grp[h],
         UNCHANGED <<seenGrp, refBy, grpQueue>>
  PROVE  ReferencedIInv'
<1>1. run.group \in RefGroups BY RunFields DEF ReferencedIInv
<1>2. ASSUME NEW h \in RefGroups
      PROVE  /\ SeenIsReferenced(h)' /\ SeenDeletingIsGone(h)'
             /\ HeldByFinalizer(grp[h])' /\ HeldByFinalizer(seenGrp[h])'
  <2>1. CASE h = run.group
    <3>1. HeldByFinalizer(seenGrp[h]) BY DEF ReferencedIInv
    <3> QED BY <2>1, <3>1, BusyKept DEF RunsOn
  <2>2. CASE h # run.group BY <2>2, OthersKept DEF RunsOn
  <2> QED BY <2>1, <2>2
<1> QED BY <1>2 DEF ReferencedIInv

LEMMA ReferencedWrites ==
  ASSUME ReferencedIInv, AddFinalizer \/ WriteGroupStatus \/ ListGroups
  PROVE  ReferencedIInv'
<1>1. ReferenceTypeOK' BY GroupRunStep DEF ReferencedIInv
<1>2. run # RunIdle /\ seenGrp' = seenGrp /\ refBy' = refBy
  BY DEF AddFinalizer, WriteGroupStatus, ListGroups, RunAt
<1>3. run \in GroupRuns /\ run.group \in RefGroups /\ RunSoFar BY <1>2, RunFields DEF ReferencedIInv
<1>4. /\ grp \in [RefGroups -> GroupObjects] /\ grp[run.group] \in GroupObjects
      /\ HeldByFinalizer(grp[run.group])
  BY <1>3 DEF ReferencedIInv, ReferenceTypeOK
<1>5. CASE Conflict \/ (WriteGroupStatus /\ grp[run.group].state = "gone")
  BY <1>1, <1>2, <1>5, ReferencedFails DEF Conflict, WriteGroupStatus
<1>6. ASSUME NEW at \in {"status", "list", "touch"}, run' \in GroupRuns, run'.at = at
      PROVE  run' # RunIdle
  BY <1>6 DEF RunIdle
<1>7. CASE AddFinalizer /\ ~ Conflict
  <2>1. /\ run.at = "finalizer" /\ grpQueue' = grpQueue
        /\ grp' = [grp EXCEPT ![run.group].finalizer = TRUE] /\ run' = [run EXCEPT !.at = "status"]
    BY <1>7 DEF AddFinalizer, RunAt
  <2>2. /\ run'.at = "status" /\ run'.group = run.group /\ run'.read = run.read
        /\ run'.members = run.members /\ run' \in GroupRuns
    BY <1>3, <2>1 DEF GroupRuns
  <2>3. /\ grp'[run.group].finalizer /\ \A h \in RefGroups : h # run.group => grp'[h] = grp[h]
    BY <1>3, <1>4, <2>1 DEF GroupObjects
  <2>4. RunSoFar' BY <1>2, <1>3, <2>1, <2>2 DEF RunSoFar
  <2> QED BY <1>1, <1>2, <1>6, <2>1, <2>2, <2>3, <2>4, ReferencedGoesOn DEF HeldByFinalizer
<1>8. CASE WriteGroupStatus /\ grp[run.group].state # "gone"
  <2>1. /\ run.at = "status" /\ grpQueue' = grpQueue
        /\ grp' = [grp EXCEPT ![run.group].resolved = run.members] /\ run' = [run EXCEPT !.at = "list"]
    BY <1>8 DEF WriteGroupStatus, RunAt
  <2>2. /\ run'.at = "list" /\ run'.group = run.group /\ run'.read = run.read
        /\ run'.members = run.members /\ run' \in GroupRuns
    BY <1>3, <2>1 DEF GroupRuns
  <2>3. /\ grp'[run.group].resolved = run.members
        /\ grp'[run.group].state = grp[run.group].state
        /\ grp'[run.group].finalizer = grp[run.group].finalizer
        /\ \A h \in RefGroups : h # run.group => grp'[h] = grp[h]
    BY <1>3, <1>4, <2>1 DEF GroupObjects
  <2>4. RunSoFar' BY <1>2, <1>3, <2>1, <2>2, <2>3 DEF RunSoFar
  <2> QED BY <1>1, <1>2, <1>4, <1>6, <2>1, <2>2, <2>3, <2>4, ReferencedGoesOn DEF HeldByFinalizer
<1>9. CASE ListGroups
  <2>1. /\ run.at = "list" /\ grpQueue' = grpQueue /\ grp' = grp
        /\ run' = [run EXCEPT !.at = "touch", !.listed = seenGrp, !.todo = ToTouch]
    BY <1>9 DEF ListGroups, RunAt
  <2>2. /\ run'.at = "touch" /\ run'.group = run.group /\ run'.read = run.read
        /\ run'.members = run.members /\ run'.prev = run.prev
        /\ run'.listed = seenGrp /\ run'.todo = ToTouch
    BY <1>3, <2>1 DEF GroupRuns
  <2>3. ToTouch' = run'.todo BY <2>2 DEF ToTouch
  <2>4. RunSoFar' BY <1>2, <1>3, <2>1, <2>2, <2>3 DEF RunSoFar
  <2>5. run' # RunIdle BY <2>2 DEF RunIdle
  <2> QED BY <1>1, <1>2, <1>4, <2>1, <2>2, <2>4, <2>5, ReferencedGoesOn
<1> QED BY <1>5, <1>7, <1>8, <1>9

(* A policy that loses a group brings it back if the group still names it. *)
LEMMA ReferencedTouch ==
  ASSUME ReferencedIInv, ReferenceTypeOK', NEW p \in RefPolicies, TouchPolicy(p)
  PROVE  ReferencedIInv'
<1>1. /\ run # RunIdle /\ run.at = "touch" /\ p \in run.todo
      /\ refBy' = [refBy EXCEPT ![p] = Refs(p)]
      /\ grpQueue' = (IF refBy[p] = Refs(p) THEN grpQueue ELSE grpQueue \cup GroupsReferencing(p))
      /\ run' = [run EXCEPT !.todo = run.todo \ {p}] /\ UNCHANGED <<grp, seenGrp>>
  BY DEF TouchPolicy, RunAt
<1>2. run \in GroupRuns /\ run.group \in RefGroups /\ RunSoFar BY <1>1, RunFields DEF ReferencedIInv
<1>3. /\ run'.at = "touch" /\ run'.group = run.group /\ run'.read = run.read
      /\ run'.members = run.members /\ run'.prev = run.prev /\ run'.listed = run.listed
      /\ run'.todo = run.todo \ {p}
  BY <1>1, <1>2 DEF GroupRuns
<1>4. run' # RunIdle BY <1>3 DEF RunIdle
<1>5. refBy \in [RefPolicies -> SUBSET RefGroups] BY DEF ReferencedIInv, ReferenceTypeOK
<1>6. refBy'[p] = Refs(p) /\ \A q \in RefPolicies : q # p => refBy'[q] = refBy[q] BY <1>1, <1>5
<1>7. \A h : h \notin grpQueue' => h \notin grpQueue BY <1>1
<1>8. ASSUME NEW h \in RefGroups
      PROVE  /\ SeenIsReferenced(h)' /\ SeenDeletingIsGone(h)'
             /\ HeldByFinalizer(grp[h])' /\ HeldByFinalizer(seenGrp[h])'
  <2>1. seenGrp[h].spec \subseteq RefPolicies
    BY DEF ReferencedIInv, ReferenceTypeOK, GroupObjects
  <2>2. ASSUME NEW q \in seenGrp[h].spec PROVE h \in grpQueue' \/ refBy'[q] = refBy[q]
    <3>1. CASE q = p /\ refBy[p] # Refs(p) BY <1>1, <3>1 DEF GroupsReferencing
    <3>2. CASE ~ (q = p /\ refBy[p] # Refs(p)) BY <1>6, <2>1, <3>2
    <3> QED BY <3>1, <3>2
  <2>3. RunsOn(h)' <=> RunsOn(h) BY <1>1, <1>3, <1>4 DEF RunsOn
  <2> QED BY <1>1, <1>7, <2>2, <2>3, OthersKept
<1>9. RunSoFar'
  <2>1. ToTouch' = ToTouch /\ \A q : Refs(q)' = Refs(q) BY <1>3 DEF ToTouch, Refs
  <2>2. \A q \in ToTouch' \ run'.todo : refBy'[q] = Refs(q)'
    <3> SUFFICES ASSUME NEW q \in ToTouch, q \notin run.todo \ {p} PROVE refBy'[q] = Refs(q)
      BY <1>3, <2>1
    <3>1. CASE q = p BY <1>6, <3>1
    <3>2. CASE q # p
      <4>1. q \in RefPolicies BY <1>1, RunFields DEF ReferencedIInv, ToTouch
      <4>2. refBy[q] = Refs(q) BY <1>1, <1>2, <3>2 DEF RunSoFar
      <4> QED BY <1>6, <3>2, <4>1, <4>2
    <3> QED BY <3>1, <3>2
  <2> QED BY <1>1, <1>2, <1>3, <1>7, <2>2 DEF RunSoFar
<1> QED BY <1>8, <1>9 DEF ReferencedIInv

(* The end of a reconcile: its group is referenced as it was seen, unless  *)
(* the reconcile has written what the informer has still to deliver.       *)
LEMMA ReferencedEnd ==
  ASSUME ReferencedIInv, EndGroup
  PROVE  ReferencedIInv'
<1>1. ReferenceTypeOK' BY GroupRunStep DEF ReferencedIInv
<1>2. /\ run # RunIdle /\ run.at = "touch" /\ run.todo = {} /\ UNCHANGED <<seenGrp, refBy>>
  BY DEF EndGroup, RunAt
<1>3. run.group \in RefGroups /\ RunSoFar BY <1>2, RunFields DEF ReferencedIInv
<1>4. CASE Conflict BY <1>1, <1>2, <1>4, ReferencedFails DEF Conflict
<1>5. CASE ~ Conflict
  <2>1. /\ run' = RunIdle /\ grpQueue' = grpQueue
        /\ \/ run.read.state = "live" /\ grp' = grp
           \/ run.read.state = "deleting" /\ grp' = [grp EXCEPT ![run.group] = GoneGroup]
    BY <1>5 DEF EndGroup
  <2>2. grp \in [RefGroups -> GroupObjects] BY DEF ReferencedIInv, ReferenceTypeOK
  <2>3. ASSUME NEW h \in RefGroups, h # run.group
        PROVE  /\ SeenIsReferenced(h)' /\ SeenDeletingIsGone(h)'
               /\ HeldByFinalizer(grp[h])' /\ HeldByFinalizer(seenGrp[h])'
    <3>1. grp'[h] = grp[h] BY <2>1, <2>2, <2>3
    <3> QED BY <1>2, <2>1, <2>3, <3>1, OthersKept DEF RunsOn
  <2>4. PICK g \in RefGroups : g = run.group BY <1>3
  <2>5. HeldByFinalizer(grp[g])' /\ HeldByFinalizer(seenGrp[g])'
    <3>1. HeldByFinalizer(grp[g]) /\ HeldByFinalizer(seenGrp[g]) BY DEF ReferencedIInv
    <3>2. grp'[g] = grp[g] \/ grp'[g] = GoneGroup BY <2>1, <2>2, <2>4
    <3> QED BY <1>2, <3>1, <3>2 DEF HeldByFinalizer, GoneGroup
  <2>6. SeenDeletingIsGone(g)'
    <3> SUFFICES ASSUME seenGrp[g].state = "deleting", g \notin grpQueue
                 PROVE  grp'[g].state = "gone"
      BY <1>2, <2>1 DEF SeenDeletingIsGone
    <3>1. run.read = seenGrp[g] BY <1>3, <2>4 DEF RunSoFar
    <3>2. grp'[g] = GoneGroup BY <2>1, <2>2, <2>4, <3>1
    <3> QED BY <3>2 DEF GoneGroup
  <2>7. SeenIsReferenced(g)'
    <3> SUFFICES ASSUME seenGrp[g].state = "live", g \notin grpQueue, grp'[g].state = "live",
                        grp'[g].resolved = seenGrp[g].resolved, NEW p \in seenGrp[g].spec
                 PROVE  g \in refBy[p]
      BY <1>2, <2>1 DEF SeenIsReferenced
    <3>1. run.read = seenGrp[g] /\ run.listed[g] = seenGrp[g] BY <1>2, <1>3, <2>4 DEF RunSoFar
    <3>2. grp' = grp BY <2>1, <3>1
    <3>3. run.members = seenGrp[g].spec /\ grp[g].resolved = run.members
      BY <1>2, <1>3, <2>4, <3>1, <3>2 DEF RunSoFar
    <3>4. g \in Refs(p) BY <3>1, <3>2, <3>3 DEF Refs
    <3>5. refBy[p] = Refs(p) BY <1>2, <1>3, <3>3 DEF RunSoFar, ToTouch
    <3> QED BY <3>4, <3>5
  <2> QED BY <1>1, <2>1, <2>3, <2>4, <2>5, <2>6, <2>7 DEF ReferencedIInv
<1> QED BY <1>4, <1>5

LEMMA ReferencedStep ==
  ASSUME ReferencedIInv, [ReferenceNext]_referenceVars
  PROVE  ReferencedIInv'
<1>1. ReferenceTypeOK' BY ReferenceStep DEF ReferencedIInv
<1>2. ASSUME NEW g \in RefGroups, DeleteGroup(g) \/ WatchGroup(g) PROVE ReferencedIInv'
  <2>1. {} \in SUBSET RefPolicies OBVIOUS
  <2> QED BY <1>2, <2>1, ReferencedEdit
<1>3. CASE GroupReconcileFails BY <1>1, <1>3, ReferencedFails DEF GroupReconcileFails
<1>4. CASE UNCHANGED referenceVars
  <2>1. UNCHANGED <<grp, seenGrp, refBy, grpQueue, run>> BY <1>4 DEF referenceVars
  <2> QED BY <1>1, <2>1
          DEF ReferencedIInv, SeenIsReferenced, SeenDeletingIsGone, HeldByFinalizer,
              RunsOn, RunSoFar, ToTouch, Refs
<1> QED BY <1>1, <1>2, <1>3, <1>4, ReferencedEdit, ReferencedBegin, ReferencedWrites,
           ReferencedTouch, ReferencedEnd
        DEF ReferenceNext, ReconcileGroup

GroupsQuiet == run = RunIdle /\ grpQueue = {} /\ seenGrp = grp

(* When no key is queued, no reconcile is under way and the informer has   *)
(* delivered everything, every policy that a live group names has that     *)
(* group in its referencedBy, and no deleted group is still held by its    *)
(* finalizer, although every group recomputes the same field from copies   *)
(* that lag behind even its own writes, and although errors end reconciles *)
(* halfway: the safety half of MembersAreReferenced and DeletedGroupsGo    *)
(* (refreshReferencedBy, findGroupsReferencing, the finalizer's path).     *)
THEOREM QuietGroupsAreReferenced ==
  ReferenceSpec => [](GroupsQuiet => /\ AllReferenced
                                     /\ \A g \in RefGroups : grp[g].state # "deleting")
<1>1. ReferenceInit => ReferencedIInv
  <2> SUFFICES ASSUME ReferenceInit PROVE ReferencedIInv OBVIOUS
  <2>1. ReferenceTypeOK BY ReferenceStarts
  <2>2. run = RunIdle /\ grpQueue = RefGroups BY DEF ReferenceInit
  <2>3. \A g \in RefGroups : grp[g].state = "live" /\ seenGrp[g].state = "live"
    BY DEF ReferenceInit, NewGroup
  <2> QED BY <2>1, <2>2, <2>3
          DEF ReferencedIInv, SeenIsReferenced, SeenDeletingIsGone, HeldByFinalizer
<1>2. ReferencedIInv => (GroupsQuiet => /\ AllReferenced
                                        /\ \A g \in RefGroups : grp[g].state # "deleting")
  <2> SUFFICES ASSUME ReferencedIInv, GroupsQuiet, NEW g \in RefGroups
               PROVE  /\ \A p \in RefPolicies :
                           grp[g].state = "live" /\ p \in grp[g].spec => g \in refBy[p]
                      /\ grp[g].state # "deleting"
    BY DEF AllReferenced
  <2>1. SeenIsReferenced(g) /\ SeenDeletingIsGone(g) BY DEF ReferencedIInv
  <2>2. seenGrp[g] = grp[g] /\ g \notin grpQueue /\ ~ RunsOn(g) BY DEF GroupsQuiet, RunsOn
  <2> QED BY <2>1, <2>2 DEF SeenIsReferenced, SeenDeletingIsGone
<1> QED BY <1>1, <1>2, ReferencedStep, PTL DEF ReferenceSpec

-----------------------------------------------------------------------------
(***************************************************************************)
(* The life of an exception.                                               *)
(***************************************************************************)
LEMMA LifecycleStarts == LifecycleInit => LifecycleTypeOK
<1> SUFFICES ASSUME LifecycleInit PROVE LifecycleTypeOK OBVIOUS
<1>1. clock = 0 /\ hubEdits = 0 /\ hubEx = {} /\ ex = {} BY DEF LifecycleInit
<1>2. clock \in 0..MaxTime /\ hubEdits \in 0..MaxHubEdits BY <1>1, LifecycleAssumption
<1>3. refsFound \in BOOLEAN /\ exCached \in BOOLEAN /\ exRun \in BOOLEAN BY DEF LifecycleInit
<1> QED BY <1>1, <1>2, <1>3 DEF LifecycleTypeOK

(* There is at most one object; what replaces it is one of the same types. *)
LEMMA OneException ==
  ASSUME LifecycleTypeOK, clock' = clock,
         ex' = {} \/ ex' = ex \/ \E o \in ExObjects : ex' = {o}
  PROVE  ex' \subseteq ExObjects' /\ \A o, q \in ex' : o = q
<1>1. ExObjects' = ExObjects BY DEF ExObjects
<1>2. ex \subseteq ExObjects /\ \A o, q \in ex : o = q BY DEF LifecycleTypeOK
<1> QED BY <1>1, <1>2

LEMMA LifecycleWhole ==
  ASSUME LifecycleTypeOK, UNCHANGED <<clock, hubEx, refsFound, exCached, hubEdits>>,
         exRun' \in BOOLEAN, ex' = {} \/ ex' = ex \/ \E o \in ExObjects : ex' = {o}
  PROVE  LifecycleTypeOK'
<1>1. ex' \subseteq ExObjects' /\ \A o, q \in ex' : o = q BY OneException
<1> QED BY <1>1 DEF LifecycleTypeOK

LEMMA HubEditStep ==
  ASSUME LifecycleTypeOK,
         \/ \E s \in ExSpecs : HubCreates(s) \/ HubUpdates(s)
         \/ HubDeletes \/ ReferencesChange
  PROVE  LifecycleTypeOK'
<1>1. hubEdits' \in 0..MaxHubEdits
  BY LifecycleAssumption
     DEF LifecycleTypeOK, HubCreates, HubUpdates, HubDeletes, ReferencesChange
<1>2. UNCHANGED <<clock, ex, exCached>>
  BY DEF HubCreates, HubUpdates, HubDeletes, ReferencesChange
<1>3. hubEx' \subseteq ExSpecs /\ \A s, q \in hubEx' : s = q
  BY DEF LifecycleTypeOK, HubCreates, HubUpdates, HubDeletes, ReferencesChange
<1>4. refsFound' \in BOOLEAN /\ exRun' \in BOOLEAN
  BY DEF LifecycleTypeOK, HubCreates, HubUpdates, HubDeletes, ReferencesChange
<1>5. ex' \subseteq ExObjects' /\ \A o, q \in ex' : o = q BY <1>2, OneException
<1> QED BY <1>1, <1>2, <1>3, <1>4, <1>5 DEF LifecycleTypeOK

(* A status write keeps when the object was created.                       *)
LEMMA StatusWrittenStep ==
  ASSUME LifecycleTypeOK, NEW o \in ex, NEW p \in ExPhases, NEW n \in Nat,
         NEW again, StatusWritten(o, p, n, again)
  PROVE  LifecycleTypeOK'
<1>1. o \in ExObjects BY DEF LifecycleTypeOK
<1>2. [o EXCEPT !.phase = p, !.expires = n] \in ExObjects BY <1>1 DEF ExObjects
<1>3. exRun' \in BOOLEAN BY DEF StatusWritten
<1> QED BY <1>2, <1>3, LifecycleWhole DEF StatusWritten

LEMMA LifecycleStep ==
  ASSUME LifecycleTypeOK, [LifecycleNext]_lifecycleVars
  PROVE  LifecycleTypeOK'
<1>1. clock \in Nat /\ ex \subseteq ExObjects BY DEF LifecycleTypeOK
<1>2. ASSUME NEW o \in ex PROVE o.expires \in Nat /\ ExpiresAt(o) \in Nat
  <2>1. o.created \in Nat /\ o.spec \in ExSpecs /\ o.expires \in Nat BY <1>1 DEF ExObjects
  <2> QED BY <2>1, LifecycleAssumption DEF ExpiresAt
<1>3. CASE ApplyException
  <2>1. \E o \in ExObjects : ex' = {o}
    <3>1. PICK s \in hubEx :
            \/ ex' = {[spec |-> s, phase |-> "", created |-> clock, expires |-> 0]}
            \/ \E o \in ex : ex' = {[o EXCEPT !.spec = s]}
      BY <1>3 DEF ApplyException
    <3>2. s \in ExSpecs BY DEF LifecycleTypeOK
    <3>3. [spec |-> s, phase |-> "", created |-> clock, expires |-> 0] \in ExObjects
      <4>1. clock \in 0..clock /\ 0 \in Nat BY <1>1
      <4> QED BY <3>2, <4>1 DEF ExObjects, ExPhases
    <3>4. \A o \in ex : [o EXCEPT !.spec = s] \in ExObjects BY <1>1, <3>2 DEF ExObjects
    <3> QED BY <3>1, <3>3, <3>4
  <2> QED BY <1>3, <2>1, LifecycleWhole DEF ApplyException
<1>4. CASE PruneException \/ ReconcileGone \/ HandleExpired
  <2>1. ex' = {} \/ ex' = ex BY <1>4 DEF PruneException, ReconcileGone, HandleExpired
  <2>2. exRun' \in BOOLEAN
    BY <1>4 DEF PruneException, ReconcileGone, HandleExpired, LifecycleTypeOK
  <2> QED BY <1>4, <2>1, <2>2, LifecycleWhole DEF PruneException, ReconcileGone, HandleExpired
<1>5. CASE SetExInvalid \/ SetActive \/ SetExpired
  <2>1. PICK o \in ex : \/ StatusWritten(o, "Invalid", o.expires, FALSE)
                        \/ StatusWritten(o, "Active", ExpiresAt(o), FALSE)
                        \/ StatusWritten(o, "Expired", ExpiresAt(o), TRUE)
    BY <1>5 DEF SetExInvalid, SetActive, SetExpired
  <2>2. {"Invalid", "Active", "Expired"} \subseteq ExPhases BY DEF ExPhases
  <2> QED BY <1>2, <2>1, <2>2, StatusWrittenStep
<1>6. CASE Tick
  <2>1. clock' \in 0..MaxTime /\ clock' = clock + 1
    BY <1>1, <1>6, LifecycleAssumption DEF Tick, LifecycleTypeOK
  <2>2. ExObjects \subseteq ExObjects'
    <3>1. 0..clock \subseteq 0..clock' BY <1>1, <2>1
    <3> QED BY <3>1 DEF ExObjects
  <2>3. exRun' \in BOOLEAN BY <1>6 DEF Tick
  <2> QED BY <1>1, <1>6, <2>1, <2>2, <2>3 DEF Tick, LifecycleTypeOK
<1>7. CASE CacheException
  <2>1. exCached' \in BOOLEAN /\ clock' = clock /\ ex' = ex BY <1>7 DEF CacheException
  <2>2. ex' \subseteq ExObjects' /\ \A o, q \in ex' : o = q BY <2>1, OneException
  <2> QED BY <1>7, <2>1, <2>2 DEF CacheException, LifecycleTypeOK
<1>8. CASE UNCHANGED lifecycleVars
  <2>1. UNCHANGED <<clock, hubEx, ex, refsFound, exCached, exRun, hubEdits>>
    BY <1>8 DEF lifecycleVars
  <2>2. exRun' \in BOOLEAN BY <2>1 DEF LifecycleTypeOK
  <2> QED BY <2>1, <2>2, LifecycleWhole
<1> QED BY <1>3, <1>4, <1>5, <1>6, <1>7, <1>8, HubEditStep
        DEF LifecycleNext, ReconcileException

(* Types of the exception's life: at most one object of a name, never      *)
(* created in the future, in one of its phases (upsertObject,              *)
(* ExceptionReconciler).                                                   *)
THEOREM LifecycleTypeCorrect == LifecycleSpec => []LifecycleTypeOK
BY LifecycleStarts, LifecycleStep, PTL DEF LifecycleSpec

(***************************************************************************)
(* The reconciler does not miss a moment.  An exception that it does not   *)
(* look at was judged right and still is: it is Active and neither over    *)
(* nor without what it names, Invalid for a reason that still holds, or    *)
(* Expired and still retained.  What can make it wrong wakes the           *)
(* reconciler: an event, or the timer that its last pass has set.          *)
(***************************************************************************)
StillRight(o) ==
  \/ o.phase = "Active" /\ Valid(o) /\ o.expires = ExpiresAt(o) /\ clock < o.expires
  \/ o.phase = "Invalid" /\ ~ Valid(o)
  \/ o.phase = "Expired" /\ clock < o.expires + o.spec.retain

AsleepIsRight == exRun \/ \A o \in ex : StillRight(o)

(* A status write that wakes nobody has changed nothing.                   *)
LEMMA QuietWrite ==
  ASSUME NEW o \in ex, NEW p, NEW n, NEW again, StatusWritten(o, p, n, again), ~ exRun',
         o \in ExObjects, \A x, q \in ex : x = q
  PROVE  ex = {o} /\ ex' = ex /\ o.phase = p /\ o.expires = n /\ ~ again
<1>1. ~ again /\ ex' = ex BY DEF StatusWritten
<1>2. [o EXCEPT !.phase = p, !.expires = n] \in ex BY <1>1 DEF StatusWritten
<1>3. [o EXCEPT !.phase = p, !.expires = n] = o BY <1>2
<1>4. o.phase = p /\ o.expires = n
  <2>1. [o EXCEPT !.phase = p, !.expires = n].phase = p BY DEF ExObjects
  <2>2. [o EXCEPT !.phase = p, !.expires = n].expires = n BY DEF ExObjects
  <2> QED BY <1>3, <2>1, <2>2
<1> QED BY <1>1, <1>4

LEMMA AsleepStep ==
  ASSUME LifecycleTypeOK, AsleepIsRight, [LifecycleNext]_lifecycleVars
  PROVE  AsleepIsRight'
<1> SUFFICES ASSUME ~ exRun', NEW o \in ex' PROVE StillRight(o)' BY DEF AsleepIsRight
<1>1. clock \in Nat /\ ex \subseteq ExObjects /\ \A x, q \in ex : x = q BY DEF LifecycleTypeOK
<1>2. ASSUME o \in ex, ~ exRun, UNCHANGED <<clock, refsFound>> PROVE StillRight(o)'
  BY <1>2 DEF AsleepIsRight, StillRight, Valid, ExpiresAt
<1>3. CASE ApplyException \/ ReferencesChange
  BY <1>3 DEF ApplyException, ReferencesChange
<1>4. CASE PruneException \/ ReconcileGone
  BY <1>4 DEF PruneException, ReconcileGone
<1>5. CASE SetExInvalid \/ SetActive \/ SetExpired
  <2>1. UNCHANGED <<clock, refsFound>>
    BY <1>5 DEF SetExInvalid, SetActive, SetExpired, StatusWritten
  <2>2. CASE SetExInvalid
    <3>1. PICK q \in ex : ~ Valid(q) /\ StatusWritten(q, "Invalid", q.expires, FALSE)
      BY <2>2 DEF SetExInvalid
    <3>2. o = q /\ q.phase = "Invalid" BY <1>1, <3>1, QuietWrite
    <3> QED BY <2>1, <3>1, <3>2 DEF StillRight, Valid
  <2>3. CASE SetActive
    <3>1. PICK q \in ex : /\ Valid(q) /\ clock < ExpiresAt(q)
                          /\ StatusWritten(q, "Active", ExpiresAt(q), FALSE)
      BY <2>3 DEF SetActive
    <3>2. o = q /\ q.phase = "Active" /\ q.expires = ExpiresAt(q) BY <1>1, <3>1, QuietWrite
    <3> QED BY <2>1, <3>1, <3>2 DEF StillRight, Valid, ExpiresAt
  <2>4. CASE SetExpired
    <3>1. PICK q \in ex : StatusWritten(q, "Expired", ExpiresAt(q), TRUE)
      BY <2>4 DEF SetExpired
    <3> QED BY <1>1, <3>1, QuietWrite
  <2> QED BY <1>5, <2>2, <2>3, <2>4
<1>6. CASE HandleExpired
  <2>1. PICK q \in ex : /\ q.phase = "Expired"
                        /\ ex' = IF clock >= q.expires + q.spec.retain THEN {} ELSE ex
    BY <1>6 DEF HandleExpired
  <2>2. ~ (clock >= q.expires + q.spec.retain) /\ ex' = ex BY <2>1
  <2>3. o = q /\ clock' = clock BY <1>1, <1>6, <2>2 DEF HandleExpired
  <2>4. q.expires \in Nat /\ q.spec.retain \in Nat
    BY <1>1, LifecycleAssumption DEF ExObjects
  <2>5. clock < q.expires + q.spec.retain BY <1>1, <2>2, <2>4
  <2> QED BY <2>1, <2>3, <2>5 DEF StillRight
<1>7. CASE Tick
  <2>1. o \in ex /\ ~ exRun /\ ~ Due(o) /\ clock' = clock + 1 /\ refsFound' = refsFound
    BY <1>7 DEF Tick
  <2>2. StillRight(o) BY <2>1 DEF AsleepIsRight
  <2>3. o.expires \in Nat /\ o.spec.retain \in Nat
    BY <1>1, <2>1, LifecycleAssumption DEF ExObjects
  <2>4. clock < o.expires /\ clock + 1 # o.expires => clock' < o.expires BY <1>1, <2>1, <2>3
  <2>5. clock < o.expires + o.spec.retain /\ clock + 1 # o.expires + o.spec.retain
          => clock' < o.expires + o.spec.retain
    BY <1>1, <2>1, <2>3
  <2> QED BY <2>1, <2>2, <2>4, <2>5 DEF StillRight, Due, Valid, ExpiresAt
<1>8. CASE \/ \E s \in ExSpecs : HubCreates(s) \/ HubUpdates(s)
           \/ HubDeletes \/ CacheException \/ UNCHANGED lifecycleVars
  <2>1. UNCHANGED <<clock, ex, refsFound, exRun>>
    BY <1>8 DEF HubCreates, HubUpdates, HubDeletes, CacheException, lifecycleVars
  <2> QED BY <1>2, <2>1
<1> QED BY <1>3, <1>4, <1>5, <1>6, <1>7, <1>8 DEF LifecycleNext, ReconcileException

(* The exception reconciler is always awake when it has to be: an Active   *)
(* exception past its time, one whose references have gone, an Invalid one *)
(* that has become valid and an Expired one whose retention is over are    *)
(* never without an event or a timer that has rung (setActive,             *)
(* handleExpired, RequeueAfter and the watches of SetupWithManager).  What *)
(* ActiveEnds adds is that a reconciler that is awake runs.                *)
THEOREM ReconcilerWakesInTime == LifecycleSpec => [](AsleepIsRight /\ (Overdue => exRun))
<1>1. LifecycleInit => AsleepIsRight BY DEF LifecycleInit, AsleepIsRight
<1>2. LifecycleTypeOK /\ AsleepIsRight => (Overdue => exRun)
  <2> SUFFICES ASSUME LifecycleTypeOK, AsleepIsRight, Overdue, ~ exRun PROVE FALSE OBVIOUS
  <2>1. PICK o \in ex : o.phase = "Active" /\ o.expires <= clock BY DEF Overdue
  <2>2. clock \in Nat /\ o.expires \in Nat BY DEF LifecycleTypeOK, ExObjects
  <2>3. clock < o.expires BY <2>1 DEF AsleepIsRight, StillRight
  <2> QED BY <2>1, <2>2, <2>3
<1> QED BY <1>1, <1>2, AsleepStep, LifecycleStarts, LifecycleStep, PTL DEF LifecycleSpec

-----------------------------------------------------------------------------
(***************************************************************************)
(* A behaviour of MCMember starts and steps as every component does: a     *)
(* step of one leaves the variables of the others alone.  (Its fairness is *)
(* only that of the component the behaviour is of.)                        *)
(***************************************************************************)
THEOREM MemberRunsItsControllers ==
  MCSpec => /\ Init /\ [][Next]_vars
            /\ VersionInit /\ [][VersionNext]_versionVars
            /\ ReferenceInit /\ [][ReferenceNext]_referenceVars
            /\ LifecycleInit /\ [][LifecycleNext]_lifecycleVars
<1>1. MCInit => Init /\ ReferenceInit /\ LifecycleInit BY DEF MCInit
<1>2. MCInit => VersionInit
  <2>1. (CHOOSE c \in PContents : TRUE) \in PContents BY VersionAssumption
  <2> QED BY <2>1 DEF MCInit, VersionInit
<1>3. [MCNext]_memberPartVars => [Next]_vars BY DEF MCNext, memberPartVars
<1>4. [MCNext]_memberPartVars => [VersionNext]_versionVars BY DEF MCNext, memberPartVars
<1>5. [MCNext]_memberPartVars => [ReferenceNext]_referenceVars BY DEF MCNext, memberPartVars
<1>6. [MCNext]_memberPartVars => [LifecycleNext]_lifecycleVars BY DEF MCNext, memberPartVars
<1> QED BY <1>1, <1>2, <1>3, <1>4, <1>5, <1>6, PTL DEF MCSpec

(* Queues, keys, phases, versions and caches of the member cluster stay    *)
(* within what the code's types allow, in the component a behaviour is of  *)
(* and in every other.                                                     *)
THEOREM MemberTypeCorrect == MCSpec => []MemberTypesOK
<1> DEFINE Part == part \in {"events", "policies", "groups", "exceptions"}
<1>1. MCInit => Part BY DEF MCInit
<1>2. Part /\ [MCNext]_memberPartVars => Part' BY DEF MCNext, memberPartVars
<1>3. Part /\ IInv /\ VersionIInv /\ ReferenceTypeOK /\ LifecycleTypeOK => MemberTypesOK
  BY DEF MemberTypesOK, IInv, VersionIInv
<1>4. VersionInit => VersionIInv BY VersionStarts DEF VersionInit
<1> HIDE DEF Part
<1> QED BY <1>1, <1>2, <1>3, <1>4, MemberRunsItsControllers, EventStarts, EventStep, VersionStep,
           ReferenceStarts, ReferenceStep, LifecycleStarts, LifecycleStep, PTL DEF MCSpec
=============================================================================
