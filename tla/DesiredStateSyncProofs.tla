---------------------- MODULE DesiredStateSyncProofs ------------------------
(***************************************************************************)
(* Proofs about DesiredStateSync, for any distributions, contents and      *)
(* rendering, and any number of commits, breaks and failures.              *)
(***************************************************************************)
EXTENDS DesiredStateSync, TLAPS

(* The places at which the loop has read table t in this iteration.        *)
HasRead(t) ==
  \/ loop.pc \in {"send", "setLast", "mark"}
  \/ loop.pc = "select" /\ loop.res # NoResult
  \/ loop.pc = "readContent" /\ t = "targets"

(* A commit whose notification was delivered either finds the captured     *)
(* channel closed, or was made before the capture and so before the reads. *)
WakeupInv ==
  ~fired => \A r \in 1..changes :
              HasRead(wrote[r]) =>
                loop.readAt[wrote[r]] >= r \/ r \in pending \cup lost

(* The trace that was peeked belongs to a commit made before the reads.    *)
TraceInv ==
  loop.traceID \in 1..changes =>
    (HasRead(wrote[loop.traceID]) =>
       loop.readAt[wrote[loop.traceID]] >= loop.traceID)

(* What the member vouches for, on its way to the rows, it has applied.    *)
ReportInv ==
  /\ applied # NoHash => applied \in everApplied
  /\ \A k \in 1..Len(up) : ~up[k].failed => up[k].hash \in everApplied
  /\ marking.todo # {} /\ ~marking.report.failed =>
       marking.report.hash \in everApplied
  /\ \A w \in Writers : readRow[w].status = "Synced" =>
                          readRow[w].applied \in everApplied
  /\ SyncedWasApplied

(* From the end of the render to the next wakeup the loop has a result.    *)
RenderedInv ==
  loop.pc \in {"send", "setLast", "mark"} => loop.res.hash \in Hashes

-----------------------------------------------------------------------------
LEMMA ResultTypes ==
  /\ NoResult \in Results /\ NoReport \in Reports /\ NoRow \in Rows
  /\ \A c \in Contents, T \in SUBSET Dists :
       Render(T, c) \in Results /\ Render(T, c).hash \in Hashes
  /\ \A T \in SUBSET Dists : [NoResult EXCEPT !.matched = T] \in Results
  BY RenderTypes
  DEF Results, NoResult, Reports, NoReport, Rows, NoRow, Render

LEMMA InitType == Init => TypeOK
<1> SUFFICES ASSUME Init PROVE TypeOK
  OBVIOUS
<1>1. wrote \in Seq(Tables) /\ changes = 0
  BY DEF Init, changes
<1>2. loop \in [pc : PushPCs, traceID : 0..changes, force : BOOLEAN,
               woke : BOOLEAN, res : Results,
               readAt : [Tables -> 0..changes], todo : SUBSET Dists]
  <2>1. loop = LoopAt("capture")
    BY DEF Init
  <2>2. [t \in Tables |-> 0] \in [Tables -> 0..changes]
    BY <1>1
  <2>3. QED
    BY <1>1, <2>1, <2>2, ResultTypes DEF LoopAt, PushPCs
<1>3. /\ down \in Seq([hash : Hashes, trace : 0..MaxChanges])
      /\ up \in Seq(Reports)
      /\ Len(down) <= QueueCap /\ Len(up) <= QueueCap
  BY BoundsAreNat DEF Init
<1>4. /\ rows \in [Dists -> Rows] /\ readRow \in [Writers -> Rows \cup {Unread}]
      /\ marking \in [report : Reports, todo : SUBSET Dists]
      /\ last \in Results
  BY ResultTypes DEF Init
<1>5. /\ pending = {} /\ stashed = {} /\ lost = {} /\ traceID = 0
      /\ fired \in BOOLEAN /\ conflict \in BOOLEAN /\ everApplied = {}
      /\ targets \subseteq Dists /\ content \in Contents
      /\ applied = NoHash /\ outcome = "none" /\ breaks = 0 /\ flips = 0
  BY DEF Init
<1>6. QED
  BY <1>1, <1>2, <1>3, <1>4, <1>5, BoundsAreNat DEF TypeOK

(* The console's steps.                                                    *)
LEMMA ConsoleType ==
  ASSUME TypeOK, \/ \E t \in Tables : Commit(t)
                 \/ \E r \in Commits : StashTrace(r) \/ Notify(r) \/ LoseNotify(r)
  PROVE  TypeOK'
<1> USE DEF streamVars, rowVars, memberVars, envVars, dbVars
<1>1. ASSUME NEW t \in Tables, Commit(t) PROVE TypeOK'
  <2>1. changes' = changes + 1 /\ changes' <= MaxChanges /\ changes \in Nat
    BY <1>1, BoundsAreNat DEF Commit, changes, TypeOK
  <2>2. wrote' \in Seq(Tables)
    BY <1>1 DEF Commit, TypeOK
  <2>3. 0..changes \subseteq 0..changes' /\ 1..changes \subseteq 1..changes'
    BY <2>1
  <2>4. loop' = loop /\ loop \in
          [pc : PushPCs, traceID : 0..changes', force : BOOLEAN, woke : BOOLEAN,
           res : Results, readAt : [Tables -> 0..changes'],
           todo : SUBSET Dists]
    <3>1. [Tables -> 0..changes] \subseteq [Tables -> 0..changes']
      BY <2>3
    <3>2. QED BY <1>1, <2>3, <3>1 DEF Commit, TypeOK
  <2>5. targets' \subseteq Dists /\ content' \in Contents
    BY <1>1 DEF Commit, TypeOK
  <2>6. pending' \subseteq 1..changes' /\ stashed' \subseteq pending'
    BY <1>1, <2>1, <2>3 DEF Commit, TypeOK
  <2>7. lost' \subseteq 1..changes' /\ traceID' \in 0..changes'
    BY <1>1, <2>1, <2>3 DEF Commit, TypeOK
  <2>8. QED
    BY <1>1, <2>1, <2>2, <2>4, <2>5, <2>6, <2>7 DEF Commit, TypeOK
<1>2. ASSUME NEW r \in Commits, StashTrace(r) \/ Notify(r) \/ LoseNotify(r)
      PROVE  TypeOK'
  <2>1. changes' = changes /\ changes \in Nat
    BY <1>2 DEF StashTrace, Notify, LoseNotify, TypeOK, changes
  <2>2. /\ pending' \subseteq 1..changes /\ stashed' \subseteq pending'
        /\ lost' \subseteq 1..changes /\ traceID' \in 0..changes
        /\ fired' \in BOOLEAN
    <3>1. CASE StashTrace(r) BY <3>1, <2>1 DEF StashTrace, TypeOK
    <3>2. CASE Notify(r) BY <3>2 DEF Notify, TypeOK
    <3>3. CASE LoseNotify(r) BY <3>3 DEF LoseNotify, TypeOK
    <3>4. QED BY <1>2, <3>1, <3>2, <3>3
  <2>3. QED
    BY <1>2, <2>1, <2>2 DEF StashTrace, Notify, LoseNotify, TypeOK
<1>3. QED BY <1>1, <1>2

(* The push loop's steps that leave the rows alone.                        *)
LEMMA LoopType ==
  ASSUME TypeOK, RenderedInv,
         \/ Capture \/ Peek \/ ReadTargets \/ ReadContent \/ RenderError
         \/ Send \/ SetLast \/ SkipSend \/ MarkPushedDone \/ WakeByNotify
         \/ WakeByTicker
  PROVE  TypeOK'
<1> USE DEF TypeOK, changes, PushPCs, noticeVars, dbVars, streamVars, rowVars,
            memberVars, envVars
<1>1. CASE Capture BY <1>1 DEF Capture
<1>2. CASE Peek BY <1>2 DEF Peek
<1>3. CASE ReadTargets
  <2>1. [NoResult EXCEPT !.matched = targets] \in Results
    BY ResultTypes
  <2>2. changes \in Nat /\ "targets" \in Tables
    BY DEF Tables
  <2> DEFINE ra == [loop.readAt EXCEPT !["targets"] = changes]
  <2>3. ra \in [Tables -> 0..changes]
    BY <2>2
  <2>4. loop' = [loop EXCEPT !.res = [NoResult EXCEPT !.matched = targets],
                             !.readAt = ra, !.pc = "readContent"]
    BY <1>3 DEF ReadTargets
  <2> HIDE DEF ra
  <2>5. loop' \in [pc : PushPCs, traceID : 0..changes, force : BOOLEAN,
                  woke : BOOLEAN, res : Results,
                  readAt : [Tables -> 0..changes], todo : SUBSET Dists]
    BY <2>1, <2>3, <2>4
  <2>6. QED BY <1>3, <2>5 DEF ReadTargets
<1>4. CASE ReadContent
  <2>1. Render(loop.res.matched, content) \in Results
    BY ResultTypes DEF Results
  <2>2. changes \in Nat /\ "content" \in Tables
    BY DEF Tables
  <2> DEFINE ra == [loop.readAt EXCEPT !["content"] = changes]
  <2>3. ra \in [Tables -> 0..changes]
    BY <2>2
  <2>4. loop' = [loop EXCEPT !.res = Render(loop.res.matched, content),
                             !.readAt = ra, !.pc = "send"]
    BY <1>4 DEF ReadContent
  <2> HIDE DEF ra
  <2>5. loop' \in [pc : PushPCs, traceID : 0..changes, force : BOOLEAN,
                  woke : BOOLEAN, res : Results,
                  readAt : [Tables -> 0..changes], todo : SUBSET Dists]
    BY <2>1, <2>3, <2>4
  <2>6. QED BY <1>4, <2>5 DEF ReadContent
<1>5. CASE RenderError
  BY <1>5, BoundsAreNat, SMTT(30) DEF RenderError, LoopAt, Results, NoResult
<1>6. CASE Send
  <2>1. DesiredState(loop.traceID) \in [hash : Hashes, trace : 0..MaxChanges]
    BY <1>6, BoundsAreNat DEF Send, DesiredState, RenderedInv
  <2> DEFINE Messages == [hash : Hashes, trace : 0..MaxChanges]
             msg == DesiredState(loop.traceID)
  <2>2. down \in Seq(Messages) /\ msg \in Messages /\ down' = Append(down, msg)
        /\ Len(down) < QueueCap
    BY <1>6, <2>1 DEF Send
  <2> HIDE DEF Messages, msg
  <2>3. down' \in Seq(Messages) /\ Len(down') <= QueueCap
    BY <2>2, BoundsAreNat
  <2>4. loop' \in [pc : PushPCs, traceID : 0..changes, force : BOOLEAN,
                  woke : BOOLEAN, res : Results,
                  readAt : [Tables -> 0..changes], todo : SUBSET Dists]
    BY <1>6 DEF Send
  <2>5. QED BY <1>6, <2>3, <2>4, ZenonT(60) DEF Send, Messages
<1>7. CASE SetLast BY <1>7 DEF SetLast
<1>8. CASE SkipSend BY <1>8 DEF SkipSend
<1>9. CASE MarkPushedDone BY <1>9 DEF MarkPushedDone
<1>10. CASE WakeByNotify BY <1>10 DEF WakeByNotify
<1>11. CASE WakeByTicker BY <1>11 DEF WakeByTicker
<1>12. QED
  BY <1>1, <1>2, <1>3, <1>4, <1>5, <1>6, <1>7, <1>8, <1>9, <1>10, <1>11


(* The steps that write the rows.                                          *)
LEMMA RowType ==
  ASSUME TypeOK,
         \/ MarkPushedRead \/ MarkPushedWrite \/ MarkPushedDelete
         \/ MarkReportedRead \/ MarkReportedWrite
  PROVE  TypeOK'
<1> USE DEF TypeOK, changes, noticeVars, dbVars, streamVars, memberVars, envVars
<1>1. CASE MarkPushedRead
  <2>1. NextDist \in Dists
    BY <1>1 DEF MarkPushedRead, NextDist
  <2>2. QED BY <1>1, <2>1 DEF MarkPushedRead, ReadRow, Writers
<1>2. CASE MarkPushedWrite
  <2>1. NextDist \in Dists
    BY <1>2 DEF MarkPushedWrite, NextDist
  <2> DEFINE row == PushedRow(readRow["markPushed"], NextDist)
  <2>2. readRow["markPushed"] \in Rows
    BY <1>2 DEF MarkPushedWrite, WriteRow, Writers
  <2>3. row \in Rows
    BY <2>2 DEF PushedRow, Rows
  <2>4. /\ rows' = IF row = readRow["markPushed"]
                     THEN rows ELSE [rows EXCEPT ![NextDist] = row]
        /\ readRow' = [readRow EXCEPT !["markPushed"] = Unread]
    BY <1>2 DEF MarkPushedWrite, WriteRow
  <2> HIDE DEF row
  <2>5. rows' \in [Dists -> Rows] /\ readRow' \in [Writers -> Rows \cup {Unread}]
    BY <2>1, <2>3, <2>4
  <2>6. QED BY <1>2, <2>5 DEF MarkPushedWrite
<1>3. CASE MarkPushedDelete
  BY <1>3, ResultTypes DEF MarkPushedDelete
<1>4. CASE MarkReportedRead
  <2>1. NextReported \in Dists
    BY <1>4 DEF MarkReportedRead, NextReported
  <2>2. QED BY <1>4, <2>1 DEF MarkReportedRead, ReadRow, Writers
<1>5. CASE MarkReportedWrite
  <2>1. NextReported \in Dists
    BY <1>5 DEF MarkReportedWrite, NextReported
  <2>2. ReportedRow \in Rows
    BY DEF ReportedRow, Rows, Reports
  <2>3. rows' \in [Dists -> Rows] /\ readRow' \in [Writers -> Rows \cup {Unread}]
    BY <1>5, <2>1, <2>2 DEF MarkReportedWrite, WriteRow
  <2>4. marking' \in [report : Reports, todo : SUBSET Dists]
    BY <1>5, ResultTypes DEF MarkReportedWrite
  <2>5. QED BY <1>5, <2>3, <2>4 DEF MarkReportedWrite
<1>6. QED BY <1>1, <1>2, <1>3, <1>4, <1>5

(* The steps of the stream and of the member.                              *)
LEMMA StreamType ==
  ASSUME TypeOK,
         \/ TakeReport \/ Apply \/ PeriodicReport \/ FlipConflict \/ Break
         \/ Reconnect
  PROVE  TypeOK'
<1> USE DEF TypeOK, changes, noticeVars, dbVars, streamVars, rowVars,
            memberVars, envVars
<1>1. CASE TakeReport
  <2>1. up' \in Seq(Reports) /\ Len(up') <= QueueCap /\ Head(up) \in Reports
    BY <1>1, BoundsAreNat DEF TakeReport
  <2>2. marking' \in [report : Reports, todo : SUBSET Dists]
    BY <1>1, <2>1, ResultTypes DEF TakeReport, Results
  <2>3. QED BY <1>1, <2>1, <2>2 DEF TakeReport
<1>2. CASE Apply
  <2> DEFINE Messages == [hash : Hashes, trace : 0..MaxChanges]
  <2>1. down \in Seq(Messages) /\ down # <<>> /\ Len(down) <= QueueCap
    BY <1>2 DEF Apply
  <2> HIDE DEF Messages
  <2>2. Head(down) \in Messages
    BY <2>1
  <2>3. Head(down).hash \in Hashes
    BY <2>2 DEF Messages
  <2>4. Tail(down) \in Seq(Messages) /\ Len(Tail(down)) <= QueueCap
    BY <2>1, BoundsAreNat
  <2>5. Outcome \in Reports
    BY <2>3 DEF Outcome, Reports
  <2>6. Append(up, Outcome) \in Seq(Reports) /\ Len(Append(up, Outcome)) <= QueueCap
    BY <1>2, <2>5, BoundsAreNat DEF Apply
  <2> DEFINE h == Head(down).hash
  <2> HIDE DEF h
  <2>7. /\ applied' \in Hashes \cup {NoHash} /\ everApplied' \subseteq Hashes
        /\ outcome' \in {"none", "ok", "failed"}
    <3>1. /\ h \in Hashes /\ applied' = IF conflict THEN applied ELSE h
          /\ outcome' = IF conflict THEN "failed" ELSE "ok"
          /\ everApplied' = everApplied \cup IF conflict THEN {} ELSE {h}
      BY <1>2, <2>3, Zenon DEF Apply, h
    <3>2. QED BY <3>1
  <2>8. /\ down' \in Seq(Messages) /\ Len(down') <= QueueCap
        /\ up' \in Seq(Reports) /\ Len(up') <= QueueCap
    BY <1>2, <2>4, <2>6 DEF Apply
  <2>9. QED
    BY <1>2, <2>7, <2>8 DEF Apply, Messages
<1>3. CASE PeriodicReport
  <2>1. [hash |-> applied, failed |-> FALSE] \in Reports
    BY DEF Reports
  <2>2. up' \in Seq(Reports) /\ Len(up') <= QueueCap
    BY <1>3, <2>1, BoundsAreNat DEF PeriodicReport
  <2>3. QED BY <1>3, <2>2 DEF PeriodicReport
<1>4. CASE FlipConflict
  BY <1>4, BoundsAreNat DEF FlipConflict
<1>5. CASE Break
  <2>1. loop' \in [pc : PushPCs, traceID : 0..changes, force : BOOLEAN,
                  woke : BOOLEAN, res : Results,
                  readAt : [Tables -> 0..changes], todo : SUBSET Dists]
    <3>1. [t \in Tables |-> 0] \in [Tables -> 0..changes]
      OBVIOUS
    <3>2. QED BY <1>5, <3>1, ResultTypes DEF Break, LoopAt, PushPCs
  <2>2. /\ down' \in Seq([hash : Hashes, trace : 0..MaxChanges])
        /\ up' \in Seq(Reports)
        /\ Len(down') <= QueueCap /\ Len(up') <= QueueCap
    BY <1>5, BoundsAreNat DEF Break
  <2>3. /\ marking' \in [report : Reports, todo : SUBSET Dists]
        /\ readRow' \in [Writers -> Rows \cup {Unread}] /\ last' \in Results
        /\ breaks' \in 0..MaxBreaks
    BY <1>5, ResultTypes, BoundsAreNat DEF Break
  <2>4. QED BY <1>5, <2>1, <2>2, <2>3 DEF Break
<1>6. CASE Reconnect
  BY <1>6 DEF Reconnect, PushPCs
<1>7. QED BY <1>1, <1>2, <1>3, <1>4, <1>5, <1>6


-----------------------------------------------------------------------------
(* The actions, sorted by what they can disturb.                           *)
LEMMA NextCases ==
  ASSUME Next
  PROVE  \/ \/ \E t \in Tables : Commit(t)
            \/ \E r \in Commits : StashTrace(r) \/ Notify(r) \/ LoseNotify(r)
         \/ \/ Capture \/ Peek \/ ReadTargets \/ ReadContent \/ RenderError
            \/ Send \/ SetLast \/ SkipSend \/ MarkPushedDone \/ WakeByNotify
            \/ WakeByTicker
         \/ \/ MarkPushedRead \/ MarkPushedWrite \/ MarkPushedDelete
            \/ MarkReportedRead \/ MarkReportedWrite
         \/ \/ TakeReport \/ Apply \/ PeriodicReport \/ FlipConflict \/ Break
            \/ Reconnect
  BY DEF Next, PushLoop, RecvLoop

TypeInv == TypeOK /\ RenderedInv

LEMMA RenderedStep ==
  ASSUME TypeOK, RenderedInv, Next
  PROVE  RenderedInv'
<1> USE DEF RenderedInv, TypeOK, Next, PushLoop, RecvLoop
<1>1. CASE \/ \E t \in Tables : Commit(t)
           \/ \E r \in Commits : StashTrace(r) \/ Notify(r) \/ LoseNotify(r)
           \/ RecvLoop \/ Apply \/ PeriodicReport \/ FlipConflict
           \/ MarkPushedRead
  BY <1>1 DEF Commit, StashTrace, Notify, LoseNotify, TakeReport,
     MarkReportedRead, MarkReportedWrite, Apply, PeriodicReport, FlipConflict,
     MarkPushedRead
<1>2. CASE ReadContent
  <2>1. Render(loop.res.matched, content).hash \in Hashes
    BY ResultTypes DEF Results
  <2>2. loop'.res = Render(loop.res.matched, content)
    BY <1>2 DEF ReadContent
  <2>3. QED BY <2>1, <2>2
<1>3. CASE \/ Capture \/ Peek \/ ReadTargets \/ RenderError \/ Break \/ Reconnect
           \/ WakeByNotify \/ WakeByTicker \/ MarkPushedDone
  <2> USE DEF MarkPushedDone
  <2>1. loop'.pc \notin {"send", "setLast", "mark"}
    <3>1. CASE \/ Capture \/ Peek \/ Reconnect \/ WakeByNotify \/ WakeByTicker
               \/ MarkPushedDone
      BY <3>1 DEF Capture, Peek, Reconnect, WakeByNotify, WakeByTicker
    <3>2. CASE RenderError \/ Break
      <4>1. loop' = LoopAt("select") \/ loop' = LoopAt("off")
        BY <3>2 DEF RenderError, Break
      <4>2. QED BY <4>1 DEF LoopAt
    <3>3. CASE ReadTargets
      BY <3>3 DEF ReadTargets
    <3>4. QED BY <1>3, <3>1, <3>2, <3>3
  <2>2. QED BY <2>1
<1>4. CASE Send \/ SetLast \/ SkipSend \/ MarkPushedWrite \/ MarkPushedDelete
  <2>1. loop'.res = loop.res /\ loop.pc \in {"send", "setLast", "mark"}
    BY <1>4 DEF Send, SetLast, SkipSend, MarkPushedWrite, MarkPushedDelete
  <2>2. QED BY <2>1
<1>5. QED BY <1>1, <1>2, <1>3, <1>4

LEMMA TypeStep ==
  ASSUME TypeInv, [Next]_vars
  PROVE  TypeInv'
<1>1. CASE Next
  BY <1>1, NextCases, ConsoleType, LoopType, RowType, StreamType, RenderedStep
  DEF TypeInv
<1>2. CASE UNCHANGED vars
  BY <1>2 DEF TypeInv, TypeOK, RenderedInv, changes, vars, noticeVars, dbVars,
     streamVars, rowVars, memberVars, envVars
<1>3. QED BY <1>1, <1>2

(* Type correctness, for every way to render and any number of commits:    *)
(* the rows, the messages and the locals keep their types, and a snapshot  *)
(* that is sent always has a hash.                                         *)
THEOREM TypeCorrect == Spec => []TypeOK
<1>1. Init => TypeInv
  BY InitType DEF Init, TypeInv, RenderedInv, LoopAt
<1>2. TypeInv /\ [Next]_vars => TypeInv'
  BY TypeStep
<1>3. TypeInv => TypeOK
  BY DEF TypeInv
<1>4. QED BY <1>1, <1>2, <1>3, PTL DEF Spec

-----------------------------------------------------------------------------
(* Every step but the two reads either leaves the iteration's reads behind *)
(* or keeps them.                                                          *)
NoReads == \A t \in Tables : ~HasRead(t)'
SameReads == /\ loop'.readAt = loop.readAt /\ loop'.traceID = loop.traceID
             /\ \A t \in Tables : HasRead(t)' => HasRead(t)

LEMMA ReadsCases ==
  ASSUME TypeInv, Next
  PROVE  NoReads \/ SameReads \/ ReadTargets \/ ReadContent
<1> USE DEF TypeInv, TypeOK
<1>1. CASE \/ \E t \in Tables : Commit(t)
           \/ \E r \in Commits : StashTrace(r) \/ Notify(r) \/ LoseNotify(r)
           \/ RecvLoop \/ Apply \/ PeriodicReport \/ FlipConflict
           \/ MarkPushedRead
  <2>1. loop' = loop
    BY <1>1 DEF Commit, StashTrace, Notify, LoseNotify, RecvLoop, TakeReport,
       MarkReportedRead, MarkReportedWrite, Apply, PeriodicReport,
       FlipConflict, MarkPushedRead
  <2>2. QED BY <2>1 DEF SameReads, HasRead
<1>2. CASE Capture \/ Peek \/ Reconnect \/ WakeByNotify \/ WakeByTicker
  <2>1. loop'.pc \in {"capture", "peek", "readTargets"}
    BY <1>2 DEF Capture, Peek, Reconnect, WakeByNotify, WakeByTicker
  <2>2. QED BY <2>1 DEF NoReads, HasRead
<1>3. CASE RenderError \/ Break
  <2>1. loop' = LoopAt("select") \/ loop' = LoopAt("off")
    BY <1>3 DEF RenderError, Break
  <2>2. loop'.pc \in {"select", "off"} /\ loop'.res = NoResult
    BY <2>1 DEF LoopAt
  <2>3. QED BY <2>2 DEF NoReads, HasRead
<1>4. CASE \/ Send \/ SetLast \/ SkipSend \/ MarkPushedWrite
           \/ MarkPushedDelete \/ MarkPushedDone
  <2>1. /\ loop.pc \in {"send", "setLast", "mark"}
        /\ loop'.readAt = loop.readAt /\ loop'.traceID = loop.traceID
    BY <1>4 DEF Send, SetLast, SkipSend, MarkPushedWrite, MarkPushedDelete,
       MarkPushedDone
  <2>2. QED BY <2>1 DEF SameReads, HasRead
<1>5. QED BY <1>1, <1>2, <1>3, <1>4 DEF Next, PushLoop, RecvLoop

(* What a read step leaves: the table read is up to date, the other as it  *)
(* was.                                                                    *)
LEMMA ReadStep ==
  ASSUME TypeInv, ReadTargets \/ ReadContent
  PROVE  /\ loop'.traceID = loop.traceID
         /\ \A t \in Tables :
              HasRead(t)' => \/ loop'.readAt[t] = changes
                             \/ HasRead(t) /\ loop'.readAt[t] = loop.readAt[t]
<1> USE DEF TypeInv, TypeOK
<1>1. CASE ReadTargets
  <2>1. /\ loop'.pc = "readContent" /\ loop'.traceID = loop.traceID
        /\ loop'.readAt = [loop.readAt EXCEPT !["targets"] = changes]
    BY <1>1 DEF ReadTargets
  <2>2. QED BY <2>1 DEF HasRead, Tables
<1>2. CASE ReadContent
  <2>1. /\ loop.pc = "readContent" /\ loop'.traceID = loop.traceID
        /\ loop'.readAt = [loop.readAt EXCEPT !["content"] = changes]
    BY <1>2 DEF ReadContent
  <2>2. QED BY <2>1 DEF HasRead, Tables
<1>3. QED BY <1>1, <1>2

(* What a step may do to the commits and their notifications: none is      *)
(* changed, and one that is pending or lost stays so unless it is          *)
(* delivered, which closes the channel.                                    *)
NoticeKept ==
  /\ changes <= changes'
  /\ \A r \in 1..changes : wrote'[r] = wrote[r]
  /\ (~fired' /\ ~Capture) => ~fired
  /\ ~fired' => \A r \in 1..changes' :
                  r \in pending \cup lost \/ r > changes =>
                    r \in pending' \cup lost'

LEMMA NoticeStep ==
  ASSUME TypeInv, Next
  PROVE  NoticeKept
<1> USE DEF TypeInv, TypeOK, changes, NoticeKept
<1>1. ASSUME NEW t \in Tables, Commit(t) PROVE NoticeKept
  <2>1. wrote' = Append(wrote, t) /\ wrote \in Seq(Tables)
    BY <1>1 DEF Commit
  <2>2. Len(wrote') = Len(wrote) + 1 /\ Len(wrote) \in Nat
    BY <2>1
  <2>3. \A r \in 1..Len(wrote) : wrote'[r] = wrote[r]
    BY <2>1
  <2>4. /\ pending' = pending \cup {Len(wrote) + 1} /\ lost' = lost
        /\ fired' = fired
    BY <1>1 DEF Commit
  <2>5. QED BY <2>2, <2>3, <2>4
<1>2. ASSUME NEW r \in Commits, StashTrace(r) \/ Notify(r) \/ LoseNotify(r)
      PROVE  NoticeKept
  BY <1>2 DEF StashTrace, Notify, LoseNotify, dbVars
<1>3. CASE Capture
  BY <1>3 DEF Capture, dbVars
<1>4. CASE \/ Peek \/ ReadTargets \/ ReadContent \/ RenderError \/ Send
           \/ SetLast \/ SkipSend \/ MarkPushedDone \/ WakeByNotify
           \/ WakeByTicker \/ MarkPushedRead \/ MarkPushedWrite
           \/ MarkPushedDelete \/ MarkReportedRead \/ MarkReportedWrite
           \/ TakeReport \/ Apply \/ PeriodicReport \/ FlipConflict \/ Break
           \/ Reconnect
  <2>1. UNCHANGED <<noticeVars, dbVars>>
    BY <1>4 DEF Peek, ReadTargets, ReadContent, RenderError, Send, SetLast,
       SkipSend, MarkPushedDone, WakeByNotify, WakeByTicker, MarkPushedRead,
       MarkPushedWrite, MarkPushedDelete, MarkReportedRead, MarkReportedWrite,
       TakeReport, Apply, PeriodicReport, FlipConflict, Break, Reconnect
  <2>2. QED BY <2>1 DEF noticeVars, dbVars
<1>5. QED BY <1>1, <1>2, <1>3, <1>4, NextCases

LEMMA WroteTypes ==
  ASSUME TypeOK, TypeOK'
  PROVE  /\ changes \in Nat /\ changes' \in Nat
         /\ \A r \in 1..changes : wrote[r] \in Tables
         /\ \A r \in 1..changes' : wrote'[r] \in Tables
  BY DEF TypeOK, changes

LEMMA WakeupStep ==
  ASSUME TypeInv, TypeInv', WakeupInv, [Next]_vars
  PROVE  WakeupInv'
<1>1. CASE Next
  <2> SUFFICES ASSUME ~fired', NEW r \in 1..changes', HasRead(wrote[r])'
               PROVE  \/ loop'.readAt[wrote'[r]] >= r
                      \/ r \in pending' \cup lost'
    BY DEF WakeupInv
  <2>1. /\ changes \in Nat /\ changes' \in Nat
        /\ \A q \in 1..changes : wrote[q] \in Tables
        /\ \A q \in 1..changes' : wrote'[q] \in Tables
    BY WroteTypes DEF TypeInv
  <2>2. NoticeKept
    BY <1>1, NoticeStep
  <2>3. CASE r > changes \/ r \in pending \cup lost
    BY <2>2, <2>3 DEF NoticeKept
  <2>4. CASE r <= changes /\ r \notin pending \cup lost
    <3>1. r \in 1..changes /\ wrote'[r] = wrote[r] /\ wrote[r] \in Tables
      BY <2>1, <2>2, <2>4 DEF NoticeKept
    <3>2. ~NoReads
      BY <3>1 DEF NoReads, HasRead
    <3>3. CASE SameReads
      <4>1. ~Capture
        BY <3>1 DEF Capture, HasRead, TypeInv, TypeOK
      <4>2. ~fired
        BY <2>2, <4>1 DEF NoticeKept
      <4>3. HasRead(wrote[r])
        BY <3>1, <3>3 DEF SameReads, HasRead
      <4>4. QED BY <2>4, <3>1, <3>3, <4>2, <4>3 DEF WakeupInv, SameReads
    <3>4. CASE ReadTargets \/ ReadContent
      <4>1. ~fired
        BY <3>4 DEF ReadTargets, ReadContent, noticeVars
      <4>2. \/ loop'.readAt[wrote[r]] = changes
            \/ /\ HasRead(wrote[r])
               /\ loop'.readAt[wrote[r]] = loop.readAt[wrote[r]]
        BY <3>1, <3>4, ReadStep DEF HasRead
      <4>3. QED BY <2>1, <2>4, <3>1, <4>1, <4>2 DEF WakeupInv
    <3>5. QED BY <1>1, <3>2, <3>3, <3>4, ReadsCases
  <2>5. QED BY <2>1, <2>3, <2>4
<1>2. CASE UNCHANGED vars
  BY <1>2 DEF WakeupInv, HasRead, changes, vars, noticeVars, dbVars
<1>3. QED BY <1>1, <1>2

(* No wakeup is lost, for any number of commits and any way to render: the *)
(* push loop never sleeps on an open channel having missed a commit whose  *)
(* notification was delivered.                                             *)
THEOREM NoWakeupLost == Spec => []NoLostWakeup
<1> DEFINE I == TypeInv /\ WakeupInv
<1>1. Init => I
  <2>1. Init => TypeInv
    BY InitType DEF Init, TypeInv, RenderedInv, LoopAt
  <2>2. Init => WakeupInv
    BY DEF Init, WakeupInv, HasRead, LoopAt
  <2>3. QED BY <2>1, <2>2
<1>2. I /\ [Next]_vars => I'
  BY TypeStep, WakeupStep
<1>3. I => NoLostWakeup
  BY DEF WakeupInv, NoLostWakeup, HasRead
<1>4. QED BY <1>1, <1>2, <1>3, PTL DEF Spec

-----------------------------------------------------------------------------
LEMMA TraceStep ==
  ASSUME TypeInv, TypeInv', TraceInv, [Next]_vars
  PROVE  TraceInv'
<1>1. CASE Next
  <2> DEFINE r == loop'.traceID
  <2> SUFFICES ASSUME r \in 1..changes', HasRead(wrote[loop.traceID])'
               PROVE  loop'.readAt[wrote'[r]] >= r
    BY DEF TraceInv
  <2>1. /\ changes \in Nat /\ changes' \in Nat
        /\ \A q \in 1..changes : wrote[q] \in Tables
        /\ \A q \in 1..changes' : wrote'[q] \in Tables
    BY WroteTypes DEF TypeInv
  <2>2. NoticeKept
    BY <1>1, NoticeStep
  <2>3. ~NoReads
    BY <2>1 DEF NoReads, HasRead
  <2>4. r = loop.traceID
    BY <1>1, <2>3, ReadsCases, ReadStep DEF SameReads
  <2>5. r \in 1..changes /\ wrote'[r] = wrote[r] /\ wrote[r] \in Tables
    <3>1. loop.traceID \in 0..changes
      BY DEF TypeInv, TypeOK
    <3>2. QED BY <2>1, <2>2, <2>4, <3>1 DEF NoticeKept
  <2>6. CASE SameReads
    BY <2>4, <2>5, <2>6 DEF SameReads, HasRead, TraceInv
  <2>7. CASE ReadTargets \/ ReadContent
    <3>1. \/ loop'.readAt[wrote[r]] = changes
          \/ /\ HasRead(wrote[r])
             /\ loop'.readAt[wrote[r]] = loop.readAt[wrote[r]]
      BY <2>5, <2>7, ReadStep DEF HasRead
    <3>2. QED BY <2>1, <2>4, <2>5, <3>1 DEF TraceInv
  <2>8. QED BY <1>1, <2>3, <2>6, <2>7, ReadsCases
<1>2. CASE UNCHANGED vars
  BY <1>2 DEF TraceInv, HasRead, changes, vars, dbVars
<1>3. QED BY <1>1, <1>2

(* Only Send makes the stream to the member longer.                        *)
LEMMA OnlySendAppends ==
  ASSUME TypeInv, Next, Len(down') > Len(down)
  PROVE  Send
<1> USE DEF TypeInv, TypeOK
<1>1. CASE \/ \E t \in Tables : Commit(t)
           \/ \E r \in Commits : StashTrace(r) \/ Notify(r) \/ LoseNotify(r)
           \/ Capture \/ Peek \/ ReadTargets \/ ReadContent \/ RenderError
           \/ SetLast \/ SkipSend \/ MarkPushedDone \/ WakeByNotify
           \/ WakeByTicker \/ MarkPushedRead \/ MarkPushedWrite
           \/ MarkPushedDelete \/ MarkReportedRead \/ MarkReportedWrite
           \/ TakeReport \/ PeriodicReport \/ FlipConflict \/ Reconnect
  <2>1. down' = down
    BY <1>1 DEF Commit, StashTrace, Notify, LoseNotify, Capture, Peek,
       ReadTargets, ReadContent, RenderError, SetLast, SkipSend,
       MarkPushedDone, WakeByNotify, WakeByTicker, MarkPushedRead,
       MarkPushedWrite, MarkPushedDelete, MarkReportedRead, MarkReportedWrite,
       TakeReport, PeriodicReport, FlipConflict, Reconnect, streamVars
  <2>2. QED BY <2>1
<1>2. CASE Apply
  <2>1. down' = Tail(down) /\ down # <<>>
    BY <1>2 DEF Apply
  <2>2. QED BY <2>1
<1>3. CASE Break
  BY <1>3 DEF Break
<1>4. QED BY <1>1, <1>2, <1>3, NextCases

LEMMA SendStep ==
  ASSUME TypeInv, TraceInv, Send, NEW r \in 1..changes,
         down'[Len(down')].trace = r
  PROVE  loop.readAt[wrote[r]] >= r
<1> DEFINE msg == DesiredState(loop.traceID)
<1>1. down' = Append(down, msg) /\ loop.pc = "send"
  BY DEF Send
<1> HIDE DEF msg
<1>2. down'[Len(down')] = msg
  BY <1>1 DEF TypeInv, TypeOK
<1>3. msg.trace \in {loop.traceID, 0}
  BY DEF msg, DesiredState
<1>4. loop.traceID = r
  BY <1>2, <1>3 DEF TypeInv, TypeOK, changes
<1>5. QED BY <1>1, <1>4 DEF TraceInv, HasRead

(* A trace id is only attached to a snapshot that contains its commit, for *)
(* any number of commits and however their notifications interleave with   *)
(* the push loop.                                                          *)
THEOREM TraceRendered == Spec => TraceIsRendered
<1> DEFINE I == TypeInv /\ TraceInv
<1>1. Init => I
  <2>1. Init => TypeInv
    BY InitType DEF Init, TypeInv, RenderedInv, LoopAt
  <2>2. Init => TraceInv
    BY DEF Init, TraceInv, HasRead, LoopAt
  <2>3. QED BY <2>1, <2>2
<1>2. I /\ [Next]_vars => I'
  BY TypeStep, TraceStep
<1>3. I /\ [Next]_vars =>
        [\A r \in 1..changes :
           (Len(down') > Len(down) /\ down'[Len(down')].trace = r) =>
             loop.readAt[wrote[r]] >= r]_vars
  <2>1. ASSUME TypeInv, TraceInv, Next, NEW r \in 1..changes,
               Len(down') > Len(down), down'[Len(down')].trace = r
        PROVE  loop.readAt[wrote[r]] >= r
    BY <2>1, OnlySendAppends, SendStep
  <2>2. QED BY <2>1
<1>4. QED BY <1>1, <1>2, <1>3, PTL DEF Spec, TraceIsRendered

-----------------------------------------------------------------------------
LEMMA ReportStep ==
  ASSUME TypeInv, TypeInv', ReportInv, [Next]_vars
  PROVE  ReportInv'
<1> USE DEF ReportInv, SyncedWasApplied
<1>1. CASE \/ \E t \in Tables : Commit(t)
           \/ \E r \in Commits : StashTrace(r) \/ Notify(r) \/ LoseNotify(r)
           \/ Capture \/ Peek \/ ReadTargets \/ ReadContent \/ RenderError
           \/ Send \/ SetLast \/ SkipSend \/ MarkPushedDone \/ WakeByNotify
           \/ WakeByTicker \/ FlipConflict \/ Reconnect \/ UNCHANGED vars
  <2>1. UNCHANGED <<up, marking, rowVars, memberVars>>
    BY <1>1 DEF Commit, StashTrace, Notify, LoseNotify, Capture, Peek,
       ReadTargets, ReadContent, RenderError, Send, SetLast, SkipSend,
       MarkPushedDone, WakeByNotify, WakeByTicker, FlipConflict, Reconnect,
       streamVars, vars
  <2>2. QED BY <2>1 DEF rowVars, memberVars
<1>2. CASE MarkPushedRead \/ MarkReportedRead
  <2>1. \E w \in Writers, d \in Dists : ReadRow(w, d)
    BY <1>2 DEF MarkPushedRead, MarkReportedRead, NextDist, NextReported,
       Writers, TypeInv, TypeOK
  <2>2. UNCHANGED <<up, marking, memberVars>>
    BY <1>2 DEF MarkPushedRead, MarkReportedRead, streamVars
  <2>3. QED BY <2>1, <2>2 DEF ReadRow, memberVars, TypeInv, TypeOK
<1>3. CASE MarkPushedWrite
  <2> DEFINE row == PushedRow(readRow["markPushed"], NextDist)
  <2>1. row.status = "Synced" => row.applied \in everApplied
    <3>1. readRow["markPushed"] \in Rows
      BY <1>3 DEF MarkPushedWrite, WriteRow, Writers, TypeInv, TypeOK
    <3>2. row.status = "Synced" => row = readRow["markPushed"]
      BY <3>1 DEF PushedRow, Rows
    <3>3. QED BY <3>2 DEF Writers
  <2>2. /\ rows' = IF row = readRow["markPushed"]
                     THEN rows ELSE [rows EXCEPT ![NextDist] = row]
        /\ readRow' = [readRow EXCEPT !["markPushed"] = Unread]
        /\ UNCHANGED <<up, marking, applied, everApplied>>
    BY <1>3 DEF MarkPushedWrite, WriteRow, streamVars, memberVars
  <2>3. Unread.status # "Synced"
    BY DEF Unread, NoRow
  <2> HIDE DEF row
  <2>4. QED BY <2>1, <2>2, <2>3 DEF TypeInv, TypeOK
<1>4. CASE MarkPushedDelete
  BY <1>4 DEF MarkPushedDelete, NoRow, streamVars, memberVars, TypeInv, TypeOK
<1>5. CASE MarkReportedWrite
  <2>1. ReportedRow.status = "Synced" => ReportedRow.applied \in everApplied
    BY <1>5 DEF MarkReportedWrite, ReportedRow
  <2>2. /\ rows' = IF ReportedRow = readRow["markReported"]
                     THEN rows ELSE [rows EXCEPT ![NextReported] = ReportedRow]
        /\ readRow' = [readRow EXCEPT !["markReported"] = Unread]
        /\ marking'.todo # {} => marking'.report = marking.report
        /\ marking.todo # {}
        /\ UNCHANGED <<up, applied, everApplied>>
    BY <1>5 DEF MarkReportedWrite, WriteRow, streamVars, memberVars
  <2>3. Unread.status # "Synced"
    BY DEF Unread, NoRow
  <2>4. QED BY <2>1, <2>2, <2>3 DEF TypeInv, TypeOK
<1>6. CASE TakeReport
  <2>1. /\ up' = Tail(up) /\ up # <<>>
        /\ marking'.todo # {} => marking'.report = up[1]
        /\ UNCHANGED <<rowVars, memberVars>>
    BY <1>6 DEF TakeReport, TypeInv, TypeOK
  <2>2. \A k \in 1..Len(up') : k + 1 \in 1..Len(up) /\ up'[k] = up[k + 1]
    BY <2>1 DEF TypeInv, TypeOK
  <2>3. 1 \in 1..Len(up)
    BY <2>1 DEF TypeInv, TypeOK
  <2>4. QED BY <2>1, <2>2, <2>3 DEF rowVars, memberVars
<1>7. CASE Apply \/ PeriodicReport
  <2>1. PICK rep : /\ up' = Append(up, rep)
                   /\ ~rep.failed => rep.hash \in everApplied'
                   /\ everApplied \subseteq everApplied'
                   /\ applied' # NoHash => applied' \in everApplied'
                   /\ UNCHANGED <<marking, rowVars>>
    <3>1. CASE Apply
      BY <3>1 DEF Apply, Outcome, TypeInv, TypeOK
    <3>2. CASE PeriodicReport
      BY <3>2 DEF PeriodicReport, memberVars
    <3>3. QED BY <1>7, <3>1, <3>2
  <2>2. \A k \in 1..Len(up') : \/ k \in 1..Len(up) /\ up'[k] = up[k]
                               \/ up'[k] = rep
    <3>1. up \in Seq(Reports) /\ up' = Append(up, rep) /\ Len(up) \in Nat
      BY <2>1 DEF TypeInv, TypeOK
    <3>2. /\ Len(up') = Len(up) + 1 /\ up'[Len(up) + 1] = rep
          /\ \A k \in 1..Len(up) : up'[k] = up[k]
      BY ONLY <3>1
    <3>3. QED BY <3>1, <3>2
  <2>3. QED BY <2>1, <2>2 DEF rowVars
<1>8. CASE Break
  <2>1. Unread.status # "Synced"
    BY DEF Unread, NoRow
  <2>2. /\ applied' = NoHash /\ up' = <<>> /\ rows' = rows
        /\ everApplied' = everApplied /\ marking'.todo = {}
        /\ readRow' = [w \in Writers |-> Unread]
    BY <1>8 DEF Break
  <2>3. QED BY <2>1, <2>2
<1>9. QED
  BY <1>1, <1>2, <1>3, <1>4, <1>5, <1>6, <1>7, <1>8, NextCases

(* A Synced row names a snapshot the member really applied, whatever       *)
(* updates markPushed and markReported lose to each other and whatever     *)
(* reports a break loses.                                                  *)
THEOREM SyncedApplied == Spec => []SyncedWasApplied
<1> DEFINE I == TypeInv /\ ReportInv
<1>1. Init => I
  <2>1. Init => TypeInv
    BY InitType DEF Init, TypeInv, RenderedInv, LoopAt
  <2>2. Init => ReportInv
    <3>1. Unread.status # "Synced" /\ NoRow.status # "Synced"
      BY DEF Unread, NoRow
    <3>2. QED BY <3>1 DEF Init, ReportInv, SyncedWasApplied
  <2>3. QED BY <2>1, <2>2
<1>2. I /\ [Next]_vars => I'
  BY TypeStep, ReportStep
<1>3. I => SyncedWasApplied
  BY DEF ReportInv
<1>4. QED BY <1>1, <1>2, <1>3, PTL DEF Spec

-----------------------------------------------------------------------------
(***************************************************************************)
(* From the tables to the member.  A loop that waits, with nothing still   *)
(* to wake it, has rendered the tables as they are, and what it has sent   *)
(* last is that snapshot.                                                  *)
(***************************************************************************)

(* No commit has changed table t since the loop read it.                   *)
NoneLater(t) == \A r \in 1..changes : wrote[r] = t => r <= loop.readAt[t]

(* What the loop has of a table that nobody has changed since is the table *)
(* as it is.                                                               *)
ReadsInv ==
  /\ HasRead("targets") /\ NoneLater("targets") => loop.res.matched = targets
  /\ HasRead("content") /\ NoneLater("content") =>
       loop.res = Render(loop.res.matched, content)

(* The iteration has sent its result, or has found it sent already.        *)
SentInv ==
  loop.pc = "mark" \/ (loop.pc = "select" /\ loop.res # NoResult) =>
    last.hash = loop.res.hash

(* The hash of the last snapshot sent on this stream.                      *)
SentHash == IF loop.pc = "setLast" THEN loop.res.hash ELSE last.hash

(* The stream loses nothing while it lasts and keeps its order: the last   *)
(* snapshot sent is the last one in the stream or the last one applied.    *)
DeliveredInv ==
  /\ down = <<>> /\ outcome = "ok" => applied = SentHash
  /\ down = <<>> /\ outcome = "none" => SentHash = NoHash
  /\ down # <<>> => down[Len(down)].hash = SentHash

LEMMA ReadsKept ==
  ASSUME TypeInv, TypeInv', ReadsInv, NoticeKept, SameReads,
         loop'.res = loop.res, UNCHANGED <<targets, content>>
  PROVE  ReadsInv'
<1>1. ASSUME NEW t \in Tables, NoneLater(t)' PROVE NoneLater(t)
  <2> SUFFICES ASSUME NEW r \in 1..changes, wrote[r] = t PROVE r <= loop.readAt[t]
    BY DEF NoneLater
  <2>1. r \in 1..changes' /\ wrote'[r] = wrote[r]
    BY WroteTypes DEF NoticeKept, TypeInv
  <2>2. r <= loop'.readAt[t] BY <1>1, <2>1 DEF NoneLater
  <2>3. QED BY <2>2 DEF SameReads
<1>2. "targets" \in Tables /\ "content" \in Tables BY DEF Tables
<1>3. (HasRead("targets") /\ NoneLater("targets") => loop.res.matched = targets)'
  BY <1>1, <1>2 DEF ReadsInv, SameReads
<1>4. (HasRead("content") /\ NoneLater("content") =>
         loop.res = Render(loop.res.matched, content))'
  BY <1>1, <1>2 DEF ReadsInv, SameReads, Render
<1>5. QED BY <1>3, <1>4 DEF ReadsInv

(* A commit is later than every read of its table.                         *)
LEMMA CommitReads ==
  ASSUME TypeInv, TypeInv', ReadsInv, NEW t \in Tables, Commit(t)
  PROVE  ReadsInv'
<1>1. /\ wrote' = Append(wrote, t) /\ wrote \in Seq(Tables) /\ loop' = loop
      /\ t # "targets" => targets' = targets
      /\ t # "content" => content' = content
  BY DEF Commit, TypeInv, TypeOK
<1>2. /\ changes \in Nat /\ changes' = changes + 1 /\ wrote'[changes + 1] = t
      /\ \A r \in 1..changes : wrote'[r] = wrote[r]
  BY <1>1 DEF changes
<1>3. loop.readAt \in [Tables -> 0..changes] BY DEF TypeInv, TypeOK
<1>4. ~NoneLater(t)'
  <2>1. changes + 1 \in 1..changes' /\ ~(changes + 1 <= loop.readAt[t]) BY <1>2, <1>3
  <2>2. QED BY <1>1, <1>2, <2>1 DEF NoneLater
<1>5. ASSUME NEW u \in Tables, NoneLater(u)' PROVE NoneLater(u)
  <2> SUFFICES ASSUME NEW r \in 1..changes, wrote[r] = u PROVE r <= loop.readAt[u]
    BY DEF NoneLater
  <2>1. r \in 1..changes' /\ wrote'[r] = u BY <1>2
  <2>2. QED BY <1>1, <1>5, <2>1 DEF NoneLater
<1>6. "targets" \in Tables /\ "content" \in Tables BY DEF Tables
<1>7. (HasRead("targets") /\ NoneLater("targets") => loop.res.matched = targets)'
  <2>1. HasRead("targets")' <=> HasRead("targets") BY <1>1 DEF HasRead
  <2>2. QED BY <1>1, <1>4, <1>5, <1>6, <2>1 DEF ReadsInv
<1>8. (HasRead("content") /\ NoneLater("content") =>
         loop.res = Render(loop.res.matched, content))'
  <2>1. HasRead("content")' <=> HasRead("content") BY <1>1 DEF HasRead
  <2>2. QED BY <1>1, <1>4, <1>5, <1>6, <2>1 DEF ReadsInv, Render
<1>9. QED BY <1>7, <1>8 DEF ReadsInv

LEMMA ReadsStep ==
  ASSUME TypeInv, TypeInv', ReadsInv, [Next]_vars
  PROVE  ReadsInv'
<1>1. ASSUME NEW t \in Tables, Commit(t) PROVE ReadsInv'
  BY <1>1, CommitReads
<1>2. CASE NoReads
  BY <1>2 DEF NoReads, ReadsInv, Tables
<1>3. CASE ReadTargets
  <2>1. loop'.pc = "readContent" /\ loop'.res.matched = targets /\ targets' = targets
    BY <1>3 DEF ReadTargets, dbVars, NoResult, TypeInv, TypeOK
  <2>2. QED BY <2>1 DEF ReadsInv, HasRead
<1>4. CASE ReadContent
  <2>1. /\ loop.pc = "readContent" /\ loop'.pc = "send"
        /\ loop'.res = Render(loop.res.matched, content)
        /\ loop'.readAt = [loop.readAt EXCEPT !["content"] = changes]
        /\ UNCHANGED <<targets, content, wrote>>
    BY <1>4 DEF ReadContent, dbVars, TypeInv, TypeOK
  <2>2. loop'.res.matched = loop.res.matched BY <2>1 DEF Render
  <2>3. loop'.readAt["targets"] = loop.readAt["targets"] BY <2>1 DEF TypeInv, TypeOK, Tables
  <2>4. NoneLater("targets")' => NoneLater("targets")
    BY <2>1, <2>3 DEF NoneLater, changes
  <2>5. HasRead("targets") BY <2>1 DEF HasRead
  <2>6. loop'.res = Render(loop'.res.matched, content') BY <2>1, <2>2
  <2>7. QED BY <2>1, <2>2, <2>4, <2>5, <2>6 DEF ReadsInv
<1>5. CASE Next /\ SameReads /\ (\A t \in Tables : ~Commit(t)) /\ ~NoReads
  <2>1. UNCHANGED <<targets, content>>
    BY <1>5, NextCases
    DEF StashTrace, Notify, LoseNotify, Capture, Peek, ReadTargets, ReadContent,
        RenderError, Send, SetLast, SkipSend, MarkPushedDone, WakeByNotify,
        WakeByTicker, MarkPushedRead, MarkPushedWrite, MarkPushedDelete,
        MarkReportedRead, MarkReportedWrite, TakeReport, Apply, PeriodicReport,
        FlipConflict, Break, Reconnect, dbVars
  <2>2. CASE loop'.res = loop.res
    BY <1>5, <2>1, <2>2, NoticeStep, ReadsKept
  <2>3. CASE loop'.res # loop.res
    <3>1. ReadTargets \/ ReadContent \/ RenderError \/ Break
      BY <1>5, <2>3, NextCases
      DEF StashTrace, Notify, LoseNotify, Capture, Peek, Send, SetLast, SkipSend,
          MarkPushedDone, WakeByNotify, WakeByTicker, MarkPushedRead, MarkPushedWrite,
          MarkPushedDelete, MarkReportedRead, MarkReportedWrite, TakeReport, Apply,
          PeriodicReport, FlipConflict, Reconnect, TypeInv, TypeOK
    <3>2. CASE RenderError \/ Break
      <4>1. loop' = LoopAt("select") \/ loop' = LoopAt("off")
        BY <3>2 DEF RenderError, Break
      <4>2. loop'.pc \in {"select", "off"} /\ loop'.res = NoResult
        BY <4>1 DEF LoopAt
      <4>3. QED BY <1>5, <4>2 DEF NoReads, HasRead
    <3>3. QED BY <1>3, <1>4, <3>1, <3>2
  <2>4. QED BY <2>2, <2>3
<1>6. CASE UNCHANGED vars
  BY <1>6 DEF ReadsInv, NoneLater, HasRead, Render, changes, vars, dbVars
<1>7. QED BY <1>1, <1>2, <1>3, <1>4, <1>5, <1>6, ReadsCases

(* What a step does to what has been sent, and to what of it has arrived.  *)
LEMMA SentCases ==
  ASSUME TypeInv, Next
  PROVE  \/ /\ UNCHANGED <<last, down, outcome, applied>>
            /\ \/ loop' = loop
               \/ /\ loop.pc \in {"capture", "peek", "readTargets", "readContent", "select", "off"}
                  /\ \/ loop'.pc \in {"capture", "peek", "readTargets", "readContent", "send"}
                     \/ loop'.pc = "select" /\ loop'.res = NoResult
               \/ /\ loop.pc = "mark" /\ loop'.pc \in {"mark", "select"} /\ loop'.res = loop.res
         \/ Send \/ SetLast \/ SkipSend \/ Apply \/ Break
<1> USE DEF TypeInv, TypeOK
<1>1. CASE \/ \E t \in Tables : Commit(t)
           \/ \E r \in Commits : StashTrace(r) \/ Notify(r) \/ LoseNotify(r)
           \/ RecvLoop \/ PeriodicReport \/ FlipConflict \/ MarkPushedRead
  BY <1>1 DEF Commit, StashTrace, Notify, LoseNotify, RecvLoop, TakeReport,
     MarkReportedRead, MarkReportedWrite, PeriodicReport, FlipConflict,
     MarkPushedRead, streamVars, memberVars
<1>2. CASE \/ Capture \/ Peek \/ ReadTargets \/ ReadContent \/ Reconnect
           \/ WakeByNotify \/ WakeByTicker
  BY <1>2 DEF Capture, Peek, ReadTargets, ReadContent, Reconnect, WakeByNotify,
     WakeByTicker, streamVars, memberVars
<1>3. CASE RenderError
  <2>1. loop' = LoopAt("select") BY <1>3 DEF RenderError
  <2>2. loop'.pc = "select" /\ loop'.res = NoResult BY <2>1 DEF LoopAt
  <2>3. QED BY <1>3, <2>2 DEF RenderError, streamVars, memberVars
<1>4. CASE MarkPushedWrite \/ MarkPushedDelete \/ MarkPushedDone
  BY <1>4 DEF MarkPushedWrite, MarkPushedDelete, MarkPushedDone, streamVars, memberVars
<1>5. QED BY <1>1, <1>2, <1>3, <1>4 DEF Next, PushLoop, RecvLoop

LEMMA SentStep ==
  ASSUME TypeInv, TypeInv', SentInv, DeliveredInv, [Next]_vars
  PROVE  SentInv' /\ DeliveredInv'
<1>1. CASE Send
  <2>1. /\ loop.pc = "send" /\ loop'.pc = "setLast" /\ loop'.res = loop.res
        /\ down' = Append(down, DesiredState(loop.traceID))
    BY <1>1 DEF Send, TypeInv, TypeOK
  <2>2. DesiredState(loop.traceID).hash = loop.res.hash BY DEF DesiredState
  <2>3. down' # <<>> /\ down'[Len(down')] = DesiredState(loop.traceID)
    <3>1. PICK m : m = DesiredState(loop.traceID) OBVIOUS
    <3>2. down' = Append(down, m) /\ \E S : down \in Seq(S)
      BY <2>1, <3>1 DEF TypeInv, TypeOK
    <3>3. down' # <<>> /\ down'[Len(down')] = m BY ONLY <3>2
    <3>4. QED BY <3>1, <3>3
  <2>4. SentHash' = loop.res.hash BY <2>1 DEF SentHash
  <2>5. QED BY <2>1, <2>2, <2>3, <2>4 DEF SentInv, DeliveredInv
<1>2. CASE SetLast
  <2>1. /\ loop.pc = "setLast" /\ loop'.pc = "mark" /\ loop'.res = loop.res
        /\ last' = loop.res /\ UNCHANGED <<down, outcome, applied>>
    BY <1>2 DEF SetLast, TypeInv, TypeOK, streamVars, memberVars
  <2>2. SentHash' = SentHash BY <2>1 DEF SentHash
  <2>3. QED BY <2>1, <2>2 DEF SentInv, DeliveredInv
<1>3. CASE SkipSend
  <2>1. /\ loop.pc = "send" /\ loop'.pc = "mark" /\ loop'.res = loop.res
        /\ last.hash = loop.res.hash /\ UNCHANGED <<last, down, outcome, applied>>
    BY <1>3 DEF SkipSend, Changed, TypeInv, TypeOK, streamVars, memberVars
  <2>2. SentHash' = SentHash BY <2>1 DEF SentHash
  <2>3. QED BY <2>1, <2>2 DEF SentInv, DeliveredInv
<1>4. CASE Apply
  <2>1. /\ down # <<>> /\ down' = Tail(down) /\ UNCHANGED <<loop, last>>
        /\ applied' = (IF conflict THEN applied ELSE Head(down).hash)
        /\ outcome' = (IF conflict THEN "failed" ELSE "ok")
    BY <1>4 DEF Apply
  <2>2. SentHash' = SentHash BY <2>1 DEF SentHash
  <2>3. \E S : down \in Seq(S) BY DEF TypeInv, TypeOK
  <2>4. down' = <<>> => Head(down) = down[Len(down)]
    <3>1. Len(down') = Len(down) - 1 /\ Len(down) \in Nat /\ Head(down) = down[1]
      BY ONLY <2>1, <2>3
    <3>2. down' = <<>> => Len(down') = 0 OBVIOUS
    <3>3. down' = <<>> => Len(down) = 1 BY ONLY <3>1, <3>2
    <3>4. QED BY ONLY <3>1, <3>3
  <2>5. down' # <<>> => down'[Len(down')] = down[Len(down)] BY ONLY <2>1, <2>3
  <2>6. outcome' # "none" BY <2>1
  <2>7. QED BY <2>1, <2>2, <2>4, <2>5, <2>6 DEF SentInv, DeliveredInv
<1>5. CASE Break
  <2>1. /\ loop' = LoopAt("off") /\ last' = NoResult /\ down' = <<>>
        /\ applied' = NoHash /\ outcome' = "none"
    BY <1>5 DEF Break
  <2>2. loop'.pc = "off" /\ last'.hash = NoHash BY <2>1 DEF LoopAt, NoResult
  <2>3. SentHash' = NoHash BY <2>2 DEF SentHash
  <2>4. QED BY <2>1, <2>2, <2>3 DEF SentInv, DeliveredInv
<1>6. ASSUME UNCHANGED <<last, down, outcome, applied>>,
             \/ loop' = loop
             \/ /\ loop.pc \in {"capture", "peek", "readTargets", "readContent", "select", "off"}
                /\ \/ loop'.pc \in {"capture", "peek", "readTargets", "readContent", "send"}
                   \/ loop'.pc = "select" /\ loop'.res = NoResult
             \/ /\ loop.pc = "mark" /\ loop'.pc \in {"mark", "select"} /\ loop'.res = loop.res
      PROVE  SentInv' /\ DeliveredInv'
  <2>1. SentHash' = SentHash BY <1>6 DEF SentHash
  <2>2. DeliveredInv' BY <1>6, <2>1 DEF DeliveredInv
  <2>3. SentInv' BY <1>6 DEF SentInv
  <2>4. QED BY <2>2, <2>3
<1>7. CASE UNCHANGED vars
  BY <1>6, <1>7 DEF vars, streamVars, memberVars
<1>8. QED BY <1>1, <1>2, <1>3, <1>4, <1>5, <1>6, <1>7, SentCases

(* The loop waits and nothing is left to wake it: every commit's           *)
(* notification is delivered, or lost and made up for by a later iteration.*)
NothingMissed ==
  /\ loop.pc = "select" /\ loop.res # NoResult /\ ~fired
  /\ pending = {}
  /\ \A r \in lost : loop.readAt[wrote[r]] >= r

(* A push loop that waits, with no notification pending and none lost      *)
(* without a later iteration, has rendered the tables as they are now, has *)
(* sent that snapshot last, and the member has applied it once the stream  *)
(* is empty and its last apply did not fail: however commits and their     *)
(* notifications interleave with the loop's reads, which are in no         *)
(* transaction, and whatever a break has lost (pushLoop, NotifyWithTrace,  *)
(* runOnce).  A failed render waits for the ticker instead.                *)
THEOREM WaitingIsCurrent ==
  Spec => [](NothingMissed =>
               /\ loop.res = Render(targets, content)
               /\ last.hash = HashOf[content][targets]
               /\ down = <<>> /\ outcome = "ok" => applied = HashOf[content][targets])
<1> DEFINE I == TypeInv /\ WakeupInv /\ ReadsInv /\ SentInv /\ DeliveredInv
           Current == NothingMissed =>
                        /\ loop.res = Render(targets, content)
                        /\ last.hash = HashOf[content][targets]
                        /\ down = <<>> /\ outcome = "ok" => applied = HashOf[content][targets]
<1>1. Init => I
  <2>1. Init => TypeInv BY InitType DEF Init, TypeInv, RenderedInv, LoopAt
  <2>2. Init => WakeupInv /\ ReadsInv BY DEF Init, WakeupInv, ReadsInv, HasRead, LoopAt
  <2>3. Init => SentInv /\ DeliveredInv
    BY DEF Init, SentInv, DeliveredInv, SentHash, LoopAt, NoResult
  <2>4. QED BY <2>1, <2>2, <2>3
<1>2. I /\ [Next]_vars => I'
  BY TypeStep, WakeupStep, ReadsStep, SentStep
<1>3. I => Current
  <2> SUFFICES ASSUME I, NothingMissed
               PROVE  /\ loop.res = Render(targets, content)
                      /\ last.hash = HashOf[content][targets]
                      /\ down = <<>> /\ outcome = "ok" => applied = HashOf[content][targets]
    OBVIOUS
  <2>1. \A t \in Tables : HasRead(t) BY DEF NothingMissed, HasRead
  <2>2. ASSUME NEW t \in Tables PROVE NoneLater(t)
    <3> SUFFICES ASSUME NEW r \in 1..changes, wrote[r] = t PROVE r <= loop.readAt[t]
      BY DEF NoneLater
    <3>1. loop.readAt[t] >= r \/ r \in pending \cup lost
      BY <2>1 DEF WakeupInv, NothingMissed
    <3>2. loop.readAt[t] >= r BY <3>1 DEF NothingMissed
    <3>3. loop.readAt[t] \in Nat BY DEF TypeInv, TypeOK
    <3>4. QED BY <3>2, <3>3
  <2>3. loop.res.matched = targets /\ loop.res = Render(loop.res.matched, content)
    BY <2>1, <2>2 DEF ReadsInv, Tables
  <2>4. loop.res = Render(targets, content) BY <2>3
  <2>5. last.hash = loop.res.hash BY DEF SentInv, NothingMissed
  <2>6. loop.res.hash = HashOf[content][targets] BY <2>4 DEF Render
  <2>7. SentHash = last.hash BY DEF SentHash, NothingMissed
  <2>8. QED BY <2>4, <2>5, <2>6, <2>7 DEF DeliveredInv
<1> HIDE DEF I, Current
<1>4. Spec => []Current BY <1>1, <1>2, <1>3, PTL DEF Spec
<1>5. QED BY <1>4 DEF Current
=============================================================================
