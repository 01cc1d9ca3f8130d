-------------------------- MODULE PredictionProofs --------------------------
(***************************************************************************)
(* Proofs about PredictionSync, FeedbackLoop and ModelRollout, for any     *)
(* rows, limits, entities, trainers, versions, requests and bounds: types, *)
(* that what the sync's mark has passed is at the hub, that only a failed  *)
(* run sends a row again, that the model never goes back to a label older  *)
(* than one that was marked as used, and that a version that was rolled    *)
(* back is not served again.                                               *)
(***************************************************************************)
EXTENDS PredictionSync, FeedbackLoop, ModelRollout, FiniteSetTheorems, TLAPS

USE PushLimitAssumption, SyncBoundsAssumption

-----------------------------------------------------------------------------
(* Types.                                                                  *)

LEMMA SyncTypeInit == SyncInit => SyncTypeOK
BY DEF SyncInit, SyncTypeOK, Prediction, NoRow, Idle

LEMMA SyncTypeStep == SyncTypeOK /\ [SyncNext]_syncVars => SyncTypeOK'
<1> SUFFICES ASSUME SyncTypeOK, [SyncNext]_syncVars PROVE SyncTypeOK'
  OBVIOUS
<1> USE DEF SyncTypeOK
<1>1. ASSUME Tick PROVE SyncTypeOK'
  BY <1>1 DEF Tick
<1>2. ASSUME NEW R \in SUBSET Rows, NEW H \in SUBSET R, WriteRows(R, H)
      PROVE  SyncTypeOK'
  <2>1. open' \in [Rows -> Prediction]
    BY <1>2 DEF WriteRows, Prediction
  <2>2. QED
    BY <1>2, <2>1 DEF WriteRows
<1>3. ASSUME InferWrite PROVE SyncTypeOK'
  BY <1>3, <1>2 DEF InferWrite, Rows
<1>4. ASSUME TrainWrite PROVE SyncTypeOK'
  BY <1>4, <1>2 DEF TrainWrite, Rows
<1>5. ASSUME NEW R \in {InferRows, TrainRows}, CommitRows(R) PROVE SyncTypeOK'
  <2>1. R \subseteq Rows
    BY DEF Rows
  <2>2. /\ row' \in [Rows -> Prediction]
        /\ open' \in [Rows -> Prediction]
        /\ copies' \in [Rows -> Nat]
    BY <1>5 DEF CommitRows, Prediction, NoRow
  <2>3. QED
    BY <1>5, <2>1, <2>2 DEF CommitRows, Written
<1>6. ASSUME NEW R \in {InferRows, TrainRows}, RollbackRows(R) PROVE SyncTypeOK'
  <2>1. open' \in [Rows -> Prediction]
    BY <1>6 DEF RollbackRows, Prediction, NoRow
  <2>2. QED
    BY <1>6, <2>1 DEF RollbackRows
<1>7. ASSUME Fetch PROVE SyncTypeOK'
  <2>1. PICK B \in SUBSET Rows :
           /\ run' = [phase |-> IF B = {} THEN "empty" ELSE "fetched",
                      batch |-> {<<r, row[r].at>> : r \in B}]
           /\ exempt' = exempt \cup CutByLimit(B) \cup OutOfWindow
    BY <1>7 DEF Fetch
  <2>2. {<<r, row[r].at>> : r \in B} \in SUBSET (Rows \X Nat)
    BY DEF Prediction
  <2>3. CutByLimit(B) \subseteq Rows /\ OutOfWindow \subseteq Rows
    BY DEF CutByLimit, OutOfWindow, Unsynced, Visible
  <2>4. QED
    BY <1>7, <2>1, <2>2, <2>3 DEF Fetch, Written
<1>8. ASSUME SaveNow PROVE SyncTypeOK'
  BY <1>8 DEF SaveNow, Idle
<1>9. ASSUME Store PROVE SyncTypeOK'
  BY <1>9 DEF Store
<1>10. ASSUME SaveMark PROVE SyncTypeOK'
  BY <1>10 DEF SaveMark, MarkAfter, Idle
<1>11. ASSUME FailRun PROVE SyncTypeOK'
  BY <1>11 DEF FailRun, Idle
<1>12. CASE UNCHANGED syncVars
  BY <1>12 DEF syncVars
<1>13. QED
  BY <1>1, <1>3, <1>4, <1>5, <1>6, <1>7, <1>8, <1>9, <1>10, <1>11, <1>12
  DEF SyncNext, SyncRun

\* The state of the workers, the agent and the hub keeps its types.
THEOREM SyncTypeCorrect == SyncSpec => []SyncTypeOK
<1>1. QED
  BY SyncTypeInit, SyncTypeStep, PTL DEF SyncSpec

-----------------------------------------------------------------------------
(* Nothing is passed over. The invariant says what a run that is under way *)
(* knows, and that a row written beside a run is remembered as such.       *)

StampsArePast == /\ mark <= now
                 /\ \A r \in Rows : row[r].at < now /\ open[r].at < now
                 /\ \A y \in run.batch : y[2] < now

\* Rows not yet committed are after the mark, or are excused.
OpenIsAhead == \A r \in Rows : open[r].at # 0 /\ r \notin lapsed =>
                                  run.phase = "idle" /\ open[r].at >= mark

InBatch(r) == <<r, row[r].at>> \in run.batch

\* Up to the last row of the batch, all is in it or at the hub.
BatchCovers == \A r \in Visible \ exempt : \A y \in run.batch :
    row[r].at <= y[2] => \/ copies[r] > 0
                         \/ run.phase = "fetched" /\ InBatch(r)

EmptyCovers == run.phase = "empty" => \A r \in Visible \ exempt : copies[r] > 0

BatchInPhase == run.phase \in {"idle", "empty"} => run.batch = {}

PassInv == /\ SyncTypeOK /\ StampsArePast /\ OpenIsAhead
           /\ BatchInPhase /\ BatchCovers /\ EmptyCovers /\ PassedIsSent

LEMMA PassInvInit == SyncInit => PassInv
<1> SUFFICES ASSUME SyncInit PROVE PassInv
  OBVIOUS
<1>1. QED
  BY SyncTypeInit
  DEF SyncInit, PassInv, SyncTypeOK, StampsArePast, OpenIsAhead, BatchInPhase,
      BatchCovers, EmptyCovers, PassedIsSent, Visible, Idle, NoRow, Prediction

\* Rows written with the stamp now are ahead of the mark, or beside a run.
LEMMA WriteRowsKeepsPassInv ==
    ASSUME PassInv, NEW R \in SUBSET Rows, NEW H \in SUBSET R, WriteRows(R, H), SyncTypeOK'
    PROVE  PassInv'
<1> USE DEF PassInv, SyncTypeOK, Prediction
<1>1. UNCHANGED <<row, mark, run, copies, exempt>> /\ now' = now + 1
  BY DEF WriteRows
<1>2. StampsArePast'
  BY <1>1 DEF WriteRows, StampsArePast
<1>3. OpenIsAhead'
  BY <1>1 DEF WriteRows, OpenIsAhead, StampsArePast
<1>4. QED
  BY <1>1, <1>2, <1>3 DEF BatchInPhase, BatchCovers, InBatch, EmptyCovers, PassedIsSent, Visible

\* A committed row was ahead of the mark, or is excused from now on.
LEMMA CommitRowsKeepsPassInv ==
    ASSUME PassInv, NEW R \in {InferRows, TrainRows}, CommitRows(R), SyncTypeOK'
    PROVE  PassInv'
<1> USE DEF PassInv, SyncTypeOK, Prediction
<1> DEFINE W == Written(R)
<1>1. UNCHANGED <<now, mark, run, failures>>
  BY DEF CommitRows
<1>2. ASSUME NEW r \in Rows
      PROVE  /\ r \in W => /\ row'[r] = open[r] /\ copies'[r] = 0 /\ open[r].at # 0
                           /\ r \in lapsed => r \in exempt'
             /\ r \notin W => /\ row'[r] = row[r] /\ copies'[r] = copies[r]
                              /\ r \in exempt => r \in exempt'
             /\ r \in R => open'[r].at = 0
             /\ r \notin R => open'[r] = open[r] /\ (r \notin lapsed' => r \notin lapsed)
  BY DEF CommitRows, Written, NoRow
<1>3. StampsArePast'
  BY <1>1, <1>2, SMTT(30) DEF StampsArePast
<1>4. OpenIsAhead'
  BY <1>1, <1>2 DEF OpenIsAhead
<1>5. ASSUME NEW r \in (Visible \ exempt)', r \in W
      PROVE  run.phase = "idle" /\ row'[r].at >= mark
  BY <1>2, <1>5 DEF OpenIsAhead, Visible
<1>6. ASSUME NEW r \in (Visible \ exempt)', r \notin W
      PROVE  r \in Visible \ exempt /\ row'[r] = row[r] /\ copies'[r] = copies[r]
  BY <1>2, <1>6 DEF Visible
<1>7. BatchInPhase'
  BY <1>1 DEF BatchInPhase
<1>8. BatchCovers'
  <2> SUFFICES ASSUME NEW r \in (Visible \ exempt)', NEW y \in run.batch, row'[r].at <= y[2]
               PROVE  copies'[r] > 0 \/ (run.phase = "fetched" /\ <<r, row'[r].at>> \in run.batch)
    BY <1>1 DEF BatchCovers, InBatch
  <2>1. r \notin W
    BY <1>5 DEF BatchInPhase
  <2>2. QED
    BY <1>6, <2>1 DEF BatchCovers, InBatch
<1>9. EmptyCovers'
  BY <1>1, <1>5, <1>6 DEF EmptyCovers
<1>10. PassedIsSent'
  <2> SUFFICES ASSUME NEW r \in (Visible \ exempt)', row'[r].at < mark
               PROVE  copies'[r] > 0
    BY <1>1 DEF PassedIsSent
  <2>1. r \in Rows
    BY DEF Visible
  <2>2. r \notin W
    BY <1>5, <2>1
  <2>3. QED
    BY <1>6, <2>2 DEF PassedIsSent
<1>11. QED
  BY <1>3, <1>4, <1>7, <1>8, <1>9, <1>10

\* Up to a row of the batch, the query's rows are in it or share that row's stamp.
LEMMA FirstBatchCovers ==
    ASSUME SyncTypeOK, NEW B \in SUBSET Rows, FirstBatch(B),
           NEW b \in B, NEW r \in Unsynced, row[r].at <= row[b].at
    PROVE  r \in B \cup CutByLimit(B)
<1>1. row[r].at \in Nat /\ row[b].at \in Nat
  BY DEF SyncTypeOK, Prediction, Unsynced, Visible
<1>2. r \notin B => row[b].at <= row[r].at
  BY DEF FirstBatch
<1>3. r \notin B => row[b].at = row[r].at
  BY <1>1, <1>2
<1>4. QED
  BY <1>3 DEF CutByLimit

\* What the query leaves out was sent before, or is excused.
LEMMA FetchKeepsPassInv ==
    ASSUME PassInv, Fetch, SyncTypeOK'
    PROVE  PassInv'
<1> USE DEF PassInv, SyncTypeOK, Prediction
<1>1. PICK B \in SUBSET Rows :
         /\ FirstBatch(B)
         /\ run' = [phase |-> IF B = {} THEN "empty" ELSE "fetched",
                    batch |-> {<<r, row[r].at>> : r \in B}]
         /\ exempt' = exempt \cup CutByLimit(B) \cup OutOfWindow
  BY DEF Fetch
<1>2. UNCHANGED <<now, row, open, mark, copies>> /\ lapsed' = lapsed \cup Written(Rows)
  BY DEF Fetch
<1>3. B \subseteq Rows /\ B \subseteq Unsynced
  BY <1>1 DEF FirstBatch
<1>4. ASSUME NEW r \in Visible \ exempt' PROVE copies[r] > 0 \/ r \in Unsynced
  BY <1>1, <1>4 DEF OutOfWindow, Unsynced, Since, PassedIsSent, Visible
<1>5. StampsArePast'
  BY <1>1, <1>2 DEF StampsArePast
<1>6. OpenIsAhead'
  BY <1>2 DEF OpenIsAhead, Written
<1>7. BatchInPhase'
  BY <1>1 DEF BatchInPhase
<1>8. BatchCovers'
  <2> SUFFICES ASSUME NEW r \in Visible \ exempt', NEW b \in B, row[r].at <= row[b].at,
                      ~(copies[r] > 0)
               PROVE  run'.phase = "fetched" /\ r \in B
    <3>1. Visible' = Visible
      BY <1>2 DEF Visible
    <3>2. ASSUME NEW y \in run'.batch PROVE \E b \in B : y = <<b, row[b].at>>
      BY <1>1, <3>2
    <3>3. ASSUME NEW r \in B PROVE <<r, row[r].at>> \in run'.batch
      BY <1>1, <3>3
    <3>4. SUFFICES ASSUME NEW r \in Visible \ exempt', NEW y \in run'.batch, row[r].at <= y[2],
                          ~(copies[r] > 0)
                   PROVE  run'.phase = "fetched" /\ <<r, row[r].at>> \in run'.batch
      BY <1>2, <3>1 DEF BatchCovers, InBatch
    <3>5. PICK b \in B : y = <<b, row[b].at>>
      BY <3>2
    <3>6. row[r].at <= row[b].at
      BY <3>4, <3>5
    <3>7. run'.phase = "fetched" /\ r \in B
      BY <3>4, <3>6
    <3>8. QED
      BY <3>3, <3>7
  <2>1. r \in Unsynced
    BY <1>4
  <2>2. r \notin CutByLimit(B)
    BY <1>1
  <2>3. r \in B
    BY <1>1, <2>1, <2>2, FirstBatchCovers
  <2>4. QED
    BY <1>1, <2>3
<1>9. EmptyCovers'
  <2> SUFFICES ASSUME run'.phase = "empty", NEW r \in Visible \ exempt'
               PROVE  copies[r] > 0
    BY <1>2 DEF EmptyCovers, Visible
  <2>1. B = {}
    BY <1>1
  <2>2. Unsynced = {}
    BY <1>1, <2>1, FS_EmptySet DEF FirstBatch
  <2>3. QED
    BY <1>4, <2>2
<1>10. PassedIsSent'
  BY <1>1, <1>2 DEF PassedIsSent, Visible
<1>11. QED
  BY <1>5, <1>6, <1>7, <1>8, <1>9, <1>10

LEMMA PassInvStep == PassInv /\ [SyncNext]_syncVars => PassInv'
<1> SUFFICES ASSUME PassInv, [SyncNext]_syncVars PROVE PassInv'
  OBVIOUS
<1>0. SyncTypeOK /\ SyncTypeOK'
  BY SyncTypeStep DEF PassInv
<1>1. ASSUME Tick PROVE PassInv'
  BY <1>0, <1>1
  DEF Tick, PassInv, StampsArePast, OpenIsAhead, BatchInPhase, BatchCovers, InBatch,
      EmptyCovers, PassedIsSent, Visible, SyncTypeOK, Prediction
<1>2. ASSUME InferWrite \/ TrainWrite PROVE PassInv'
  <2>1. \E R \in SUBSET Rows : \E H \in SUBSET R : WriteRows(R, H)
    BY <1>2 DEF InferWrite, TrainWrite, Rows
  <2>2. QED
    BY <1>0, <2>1, WriteRowsKeepsPassInv
<1>3. ASSUME NEW R \in {InferRows, TrainRows}, CommitRows(R) PROVE PassInv'
  BY <1>0, <1>3, CommitRowsKeepsPassInv
<1>4. ASSUME NEW R \in {InferRows, TrainRows}, RollbackRows(R) PROVE PassInv'
  <2>1. UNCHANGED <<now, row, mark, run, copies, exempt>>
    BY <1>4 DEF RollbackRows
  <2>2. ASSUME NEW r \in Rows
        PROVE  /\ r \in R => open'[r].at = 0
               /\ r \notin R => open'[r] = open[r] /\ (r \notin lapsed' => r \notin lapsed)
    BY <1>0, <1>4 DEF RollbackRows, SyncTypeOK, NoRow
  <2>3. StampsArePast' /\ OpenIsAhead'
    BY <1>0, <2>1, <2>2 DEF PassInv, StampsArePast, OpenIsAhead, SyncTypeOK, Prediction
  <2>4. QED
    BY <1>0, <2>1, <2>3
    DEF PassInv, BatchInPhase, BatchCovers, InBatch, EmptyCovers, PassedIsSent, Visible
<1>5. ASSUME Fetch PROVE PassInv'
  BY <1>0, <1>5, FetchKeepsPassInv
<1>6. ASSUME SaveNow PROVE PassInv'
  BY <1>0, <1>6
  DEF SaveNow, Idle, PassInv, StampsArePast, OpenIsAhead, BatchInPhase, BatchCovers,
      InBatch, EmptyCovers, PassedIsSent, Visible, SyncTypeOK, Prediction
<1>7. ASSUME Store PROVE PassInv'
  <2>1. /\ UNCHANGED <<now, row, open, mark, exempt, lapsed>>
        /\ run.phase = "fetched" /\ run'.phase = "stored" /\ run'.batch = run.batch
    BY <1>0, <1>7 DEF Store, SyncTypeOK
  <2>2. ASSUME NEW r \in Rows
        PROVE  copies'[r] = IF InBatch(r) THEN copies[r] + 1 ELSE copies[r]
    BY <1>7 DEF Store, InBatch
  <2>3. BatchCovers' /\ PassedIsSent'
    <3>1. Visible' = Visible /\ Visible \subseteq Rows
      BY <2>1 DEF Visible
    <3>2. ASSUME NEW r \in Rows
          PROVE  copies[r] > 0 \/ InBatch(r) => copies'[r] > 0
      BY <1>0, <2>2 DEF SyncTypeOK
    <3>3. QED
      BY <2>1, <3>1, <3>2 DEF PassInv, BatchCovers, InBatch, PassedIsSent
  <2>4. QED
    BY <1>0, <2>1, <2>3 DEF PassInv, StampsArePast, OpenIsAhead, BatchInPhase, EmptyCovers
<1>8. ASSUME SaveMark PROVE PassInv'
  <2>1. PICK x \in run.batch : mark' = x[2] + 1
    BY <1>8 DEF SaveMark, MarkAfter
  <2>2. x[2] \in Nat /\ mark' \in Nat
    BY <1>0, <2>1 DEF SyncTypeOK
  <2>3. /\ UNCHANGED <<now, row, open, copies, exempt, lapsed>>
        /\ run.phase = "stored" /\ run' = Idle
    BY <1>8 DEF SaveMark
  <2>4. PassedIsSent'
    BY <1>0, <2>1, <2>2, <2>3 DEF PassInv, BatchCovers, PassedIsSent, Visible, SyncTypeOK, Prediction
  <2>5. StampsArePast'
    BY <1>0, <2>1, <2>2, <2>3 DEF PassInv, StampsArePast, Idle, SyncTypeOK
  <2>6. OpenIsAhead'
    BY <2>3 DEF PassInv, OpenIsAhead
  <2>7. QED
    BY <1>0, <2>3, <2>4, <2>5, <2>6 DEF PassInv, BatchInPhase, BatchCovers, EmptyCovers, Idle
<1>9. ASSUME FailRun PROVE PassInv'
  BY <1>0, <1>9
  DEF FailRun, Idle, PassInv, StampsArePast, OpenIsAhead, BatchInPhase, BatchCovers,
      InBatch, EmptyCovers, PassedIsSent, Visible, SyncTypeOK, Prediction
<1>10. CASE UNCHANGED syncVars
  BY <1>0, <1>10
  DEF syncVars, PassInv, StampsArePast, OpenIsAhead, BatchInPhase, BatchCovers,
      InBatch, EmptyCovers, PassedIsSent, Visible
<1>11. QED
  BY <1>1, <1>2, <1>3, <1>4, <1>5, <1>6, <1>7, <1>8, <1>9, <1>10 DEF SyncNext, SyncRun

\* sync/edge_agent.py:13: what the saved mark has passed is at the hub, whatever
\* the workers and the failures of the agent do, but for the rows the
\* specification excuses.
THEOREM PassedIsSentAlways == SyncSpec => []PassedIsSent
<1>1. PassInv => PassedIsSent
  BY DEF PassInv
<1>2. QED
  BY <1>1, PassInvInit, PassInvStep, PTL DEF SyncSpec

-----------------------------------------------------------------------------
(* A row is sent again only after a failure: a row the mark has not passed *)
(* has a copy for each failure at most, but for the batch just stored.     *)

BatchIsAhead == \A y \in run.batch : y[2] >= mark

CopiesAhead == \A r \in Rows :
    /\ row[r].at >= mark /\ ~(run.phase = "stored" /\ InBatch(r)) => copies[r] <= failures

SendInv == PassInv /\ BatchIsAhead /\ CopiesAhead /\ ResentOnlyAfterFailure

LEMMA SendInvInit == SyncInit => SendInv
<1> SUFFICES ASSUME SyncInit PROVE SendInv
  OBVIOUS
<1>1. QED
  BY PassInvInit
  DEF SyncInit, SendInv, PassInv, SyncTypeOK, BatchIsAhead, CopiesAhead,
      ResentOnlyAfterFailure, Idle

LEMMA SendInvStep == SendInv /\ [SyncNext]_syncVars => SendInv'
<1> SUFFICES ASSUME SendInv, [SyncNext]_syncVars PROVE SendInv'
  OBVIOUS
<1> DEFINE Safe == BatchIsAhead /\ CopiesAhead /\ ResentOnlyAfterFailure
<1>0. PassInv /\ PassInv' /\ SyncTypeOK /\ SyncTypeOK' /\ StampsArePast /\ BatchInPhase
  BY PassInvStep DEF SendInv, PassInv
<1> USE <1>0 DEF SyncTypeOK, Prediction
<1>1. ASSUME UNCHANGED <<row, mark, run, copies, failures>> PROVE Safe'
  BY <1>1 DEF SendInv, BatchIsAhead, CopiesAhead, InBatch, ResentOnlyAfterFailure
<1>2. ASSUME Tick \/ InferWrite \/ TrainWrite PROVE Safe'
  BY <1>1, <1>2 DEF Tick, InferWrite, TrainWrite, WriteRows
<1>3. ASSUME NEW R \in {InferRows, TrainRows}, CommitRows(R) PROVE Safe'
  <2>1. UNCHANGED <<mark, run, failures>>
    BY <1>3 DEF CommitRows
  <2>2. ASSUME NEW r \in Rows
        PROVE  copies'[r] = 0 \/ (row'[r] = row[r] /\ copies'[r] = copies[r])
    BY <1>3 DEF CommitRows
  <2>3. CopiesAhead' /\ ResentOnlyAfterFailure'
    <3>1. ASSUME NEW r \in Rows
          PROVE  /\ copies'[r] <= 1 + failures
                 /\ row'[r].at >= mark /\ ~(run.phase = "stored" /\ <<r, row'[r].at>> \in run.batch)
                       => copies'[r] <= failures
      BY <2>2 DEF SendInv, CopiesAhead, InBatch, ResentOnlyAfterFailure
    <3>2. QED
      BY <2>1, <3>1 DEF CopiesAhead, InBatch, ResentOnlyAfterFailure
  <2>4. QED
    BY <2>1, <2>3 DEF SendInv, BatchIsAhead
<1>4. ASSUME NEW R \in {InferRows, TrainRows}, RollbackRows(R) PROVE Safe'
  BY <1>1, <1>4 DEF RollbackRows
<1>5. ASSUME Fetch PROVE Safe'
  <2>1. PICK B \in SUBSET Rows :
           /\ FirstBatch(B)
           /\ run' = [phase |-> IF B = {} THEN "empty" ELSE "fetched",
                      batch |-> {<<r, row[r].at>> : r \in B}]
    BY <1>5 DEF Fetch
  <2>2. UNCHANGED <<row, mark, copies, failures>> /\ run.phase = "idle"
    BY <1>5 DEF Fetch
  <2>3. ASSUME NEW r \in B PROVE row[r].at >= mark
    <3>1. r \in Visible /\ row[r].at \in Nat /\ row[r].at >= Since
      BY <2>1 DEF FirstBatch, Unsynced, Visible
    <3>2. mark # 0 => Since = mark
      BY DEF Since
    <3>3. QED
      BY <3>1, <3>2
  <2>4. BatchIsAhead'
    BY <2>1, <2>2, <2>3 DEF BatchIsAhead
  <2>5. QED
    BY <2>1, <2>2, <2>4 DEF SendInv, CopiesAhead, ResentOnlyAfterFailure
<1>6. ASSUME SaveNow PROVE Safe'
  <2>1. UNCHANGED <<row, copies, failures>> /\ mark' = now /\ run' = Idle
    BY <1>6 DEF SaveNow
  <2>2. ASSUME NEW r \in Rows PROVE ~(row'[r].at >= mark')
    BY <2>1 DEF StampsArePast
  <2>3. QED
    BY <2>1, <2>2 DEF SendInv, BatchIsAhead, CopiesAhead, ResentOnlyAfterFailure, Idle
<1>7. ASSUME Store PROVE Safe'
  <2>1. /\ UNCHANGED <<row, mark, failures>>
        /\ run.phase = "fetched" /\ run'.phase = "stored" /\ run'.batch = run.batch
    BY <1>7 DEF Store
  <2>2. ASSUME NEW r \in Rows
        PROVE  copies'[r] = IF InBatch(r) THEN copies[r] + 1 ELSE copies[r]
    BY <1>7 DEF Store, InBatch
  <2>3. ASSUME NEW r \in Rows, InBatch(r) PROVE copies[r] <= failures
    BY <2>1, <2>3 DEF SendInv, BatchIsAhead, CopiesAhead, InBatch
  <2>4. ResentOnlyAfterFailure'
    BY <2>1, <2>2, <2>3 DEF SendInv, ResentOnlyAfterFailure
  <2>5. QED
    BY <2>1, <2>2, <2>4 DEF SendInv, BatchIsAhead, CopiesAhead, InBatch
<1>8. ASSUME SaveMark PROVE Safe'
  <2>1. PICK x \in run.batch : mark' = x[2] + 1 /\ \A y \in run.batch : y[2] <= x[2]
    BY <1>8 DEF SaveMark, MarkAfter
  <2>2. UNCHANGED <<row, copies, failures>> /\ run' = Idle
    BY <1>8 DEF SaveMark
  <2>3. x[2] \in Nat /\ x[2] >= mark
    BY <2>1 DEF SendInv, BatchIsAhead
  <2>4. ASSUME NEW r \in Rows, row[r].at >= mark' PROVE row[r].at >= mark /\ ~InBatch(r)
    BY <2>1, <2>3, <2>4 DEF InBatch
  <2>5. QED
    BY <2>2, <2>4 DEF SendInv, BatchIsAhead, CopiesAhead, ResentOnlyAfterFailure, Idle
<1>9. ASSUME FailRun PROVE Safe'
  <2>1. /\ UNCHANGED <<row, copies>> /\ run' = Idle
        /\ failures \in Nat /\ failures' = failures + 1
    BY <1>9 DEF FailRun
  <2>2. ASSUME NEW r \in Rows PROVE copies'[r] <= failures'
    BY <2>1 DEF SendInv, ResentOnlyAfterFailure
  <2>3. QED
    BY <2>1, <2>2 DEF BatchIsAhead, CopiesAhead, ResentOnlyAfterFailure, Idle
<1>10. ASSUME UNCHANGED syncVars PROVE Safe'
  BY <1>1, <1>10 DEF syncVars
<1>11. Safe'
  <2> HIDE DEF Safe
  <2>1. QED
    BY <1>2, <1>3, <1>4, <1>5, <1>6, <1>7, <1>8, <1>9, <1>10, Zenon DEF SyncNext, SyncRun
<1>12. QED
  BY <1>11 DEF SendInv

\* A prediction has one copy at the hub and one more for each failed run at most:
\* the mark never stays at, or returns to, a row that was sent and answered.
THEOREM ResentOnlyAfterFailureAlways == SyncSpec => []ResentOnlyAfterFailure
<1>1. SendInv => ResentOnlyAfterFailure
  BY DEF SendInv
<1>2. QED
  BY <1>1, SendInvInit, SendInvStep, PTL DEF SyncSpec

-----------------------------------------------------------------------------
(* FeedbackLoop and ModelRollout.                                          *)

USE WindowAssumption, TrainerAssumption, FeedbackBoundsAssumption

TrainingRow == [busy : BOOLEAN, newest : [Entities -> Labels \cup {0}]]

-----------------------------------------------------------------------------
(* Types.                                                                  *)

LEMMA FeedbackRecords ==
    /\ NoLabels \in [Entities -> Labels \cup {0}]
    /\ NoTraining \in TrainingRow /\ NoTraining.busy = FALSE
    /\ \A f \in [Entities -> Labels \cup {0}] : [busy |-> TRUE, newest |-> f] \in TrainingRow
BY DEF NoLabels, NoTraining, TrainingRow

\* The labels given are numbered from one.
LEMMA GivenIsInterval ==
    ASSUME FeedbackTypeOK
    PROVE  /\ Cardinality(Given) \in 0 .. MaxLabels
           /\ Given = 1 .. Cardinality(Given) /\ Given \subseteq Labels
           /\ entity \in [Given -> Entities]
<1>1. PICK n \in 0 .. MaxLabels : entity \in [1 .. n -> Entities]
  BY DEF FeedbackTypeOK
<1>2. Given = 1 .. n
  BY <1>1 DEF Given
<1>3. Cardinality(1 .. n) = n
  BY FS_Interval
<1>4. 1 .. n \subseteq 1 .. MaxLabels
  OBVIOUS
<1>5. QED
  BY <1>1, <1>2, <1>3, <1>4 DEF Labels

\* A label more.
LEMMA LabelAdded ==
    ASSUME FeedbackTypeOK, NEW e \in Entities, NEW s \in BOOLEAN, GiveLabel(e, s)
    PROVE  LET l == Cardinality(Given) + 1
           IN  /\ l \in Labels /\ l \notin Given
               /\ entity' \in [1 .. l -> Entities] /\ l \in 0 .. MaxLabels
               /\ Given' = Given \cup {l}
               /\ \A k \in Given : entity'[k] = entity[k]
               /\ sure \subseteq sure' /\ sure' \subseteq sure \cup {l}
               /\ queued' = queued \cup {l}
<1> DEFINE l == Cardinality(Given) + 1
<1>1. l \in Labels /\ entity' = [k \in 1 .. l |-> IF k = l THEN e ELSE entity[k]]
  BY DEF GiveLabel
<1>2. Given = 1 .. (l - 1) /\ l \in 1 .. MaxLabels /\ entity \in [Given -> Entities]
  BY <1>1, GivenIsInterval DEF Labels
<1> HIDE DEF l
<1>3. 1 .. l = Given \cup {l} /\ l \notin Given
  BY <1>2
<1>4. Given' = 1 .. l
  BY <1>1 DEF Given
<1>5. /\ entity' \in [1 .. l -> Entities]
      /\ \A k \in Given : entity'[k] = entity[k]
  BY <1>1, <1>2, <1>3
<1>6. sure \subseteq sure' /\ sure' \subseteq sure \cup {l} /\ queued' = queued \cup {l}
  BY DEF GiveLabel, l
<1>7. QED
  BY <1>1, <1>2, <1>3, <1>4, <1>5, <1>6 DEF l

LEMMA FeedbackTypeInit == FeedbackInit => FeedbackTypeOK
<1> SUFFICES ASSUME FeedbackInit PROVE FeedbackTypeOK
  OBVIOUS
<1>1. entity \in [1 .. 0 -> Entities] /\ 0 \in 0 .. MaxLabels
  BY DEF FeedbackInit
<1>2. \E n \in 0 .. MaxLabels : entity \in [1 .. n -> Entities]
  BY <1>1
<1>3. training \in [Trainers -> TrainingRow] /\ model \in [Entities -> Labels \cup {0}]
  BY FeedbackRecords DEF FeedbackInit
<1>4. due \in BOOLEAN /\ atOnce \in BOOLEAN
  BY Zenon DEF FeedbackInit
<1>5. QED
  BY <1>2, <1>3, <1>4, SMTT(30) DEF FeedbackInit, FeedbackTypeOK, TrainingRow

\* A training that is under way holds 0 and 1 labels of the entities.
ReadAreSure == \A t \in Trainers : training[t].busy => \A e \in Entities :
    training[t].newest[e] # 0 => /\ training[t].newest[e] \in sure
                                 /\ entity[training[t].newest[e]] = e

LEMMA ReadAreSureStep == FeedbackTypeOK /\ ReadAreSure /\ [FeedbackNext]_feedbackVars => ReadAreSure'
<1> SUFFICES ASSUME FeedbackTypeOK, ReadAreSure, [FeedbackNext]_feedbackVars PROVE ReadAreSure'
  OBVIOUS
<1>0. sure \subseteq Given /\ training \in [Trainers -> TrainingRow]
  BY DEF FeedbackTypeOK, TrainingRow
<1>1. ASSUME UNCHANGED <<entity, sure>>,
             \A t \in Trainers : training'[t] = training[t] \/ training'[t].busy = FALSE
      PROVE  ReadAreSure'
  BY <1>1 DEF ReadAreSure
<1>2. ASSUME NEW e \in Entities, NEW s \in BOOLEAN, GiveLabel(e, s) PROVE ReadAreSure'
  <2>1. UNCHANGED training /\ sure \subseteq sure' /\ \A k \in Given : entity'[k] = entity[k]
    BY <1>2, LabelAdded DEF GiveLabel
  <2>2. QED
    BY <1>0, <2>1 DEF ReadAreSure
<1>3. ASSUME NEW t \in Trainers, NEW D \in SUBSET Entities, ReadLabels(t, D) PROVE ReadAreSure'
  <2>1. PICK newest \in [Entities -> Given \cup {0}] :
           /\ \A e \in Entities : IF e \in D THEN IsNewest(newest[e], e) ELSE newest[e] = 0
           /\ training' = [training EXCEPT ![t] = [busy |-> TRUE, newest |-> newest]]
    BY <1>3 DEF ReadLabels
  <2>2. UNCHANGED <<entity, sure>>
    BY <1>3 DEF ReadLabels
  <2>3. ASSUME NEW e \in Entities, newest[e] # 0
        PROVE  newest[e] \in sure /\ entity[newest[e]] = e
    BY <2>1, <2>3 DEF IsNewest, About
  <2>4. ASSUME NEW u \in Trainers
        PROVE  training'[u] = IF u = t THEN [busy |-> TRUE, newest |-> newest] ELSE training[u]
    BY <1>0, <2>1
  <2>5. QED
    BY <2>2, <2>3, <2>4 DEF ReadAreSure
<1>4. ASSUME NEW t \in Trainers, CommitTraining(t) \/ FailTraining(t) PROVE ReadAreSure'
  <2>1. UNCHANGED <<entity, sure>> /\ training' = [training EXCEPT ![t] = NoTraining]
    BY <1>4 DEF CommitTraining, FailTraining
  <2>2. QED
    BY <1>0, <1>1, <2>1, FeedbackRecords
<1>5. ASSUME Pick \/ Validate \/ Decide PROVE ReadAreSure'
  BY <1>1, <1>5 DEF Pick, Validate, Decide
<1>6. CASE UNCHANGED feedbackVars
  BY <1>1, <1>6 DEF feedbackVars
<1>7. QED
  BY <1>2, <1>3, <1>4, <1>5, <1>6 DEF FeedbackNext, TrainAgain

LEMMA FeedbackTypeStep ==
    FeedbackTypeOK /\ ReadAreSure /\ [FeedbackNext]_feedbackVars => FeedbackTypeOK'
<1> SUFFICES ASSUME FeedbackTypeOK, ReadAreSure, [FeedbackNext]_feedbackVars
             PROVE  FeedbackTypeOK'
  OBVIOUS
<1>0. /\ sure \subseteq Given /\ queued \subseteq Given /\ validated \subseteq Given
      /\ consumed \subseteq Given /\ picked \subseteq Given /\ due \in BOOLEAN
      /\ training \in [Trainers -> TrainingRow] /\ model \in [Entities -> Labels \cup {0}]
      /\ atOnce \in BOOLEAN /\ failed \in 0 .. MaxFailed
  BY DEF FeedbackTypeOK, TrainingRow
<1>1. ASSUME UNCHANGED <<entity, sure>>, queued' \subseteq Given, validated' \subseteq Given,
             consumed' \subseteq Given, picked' \subseteq Given, due' \in BOOLEAN,
             training' \in [Trainers -> TrainingRow], model' \in [Entities -> Labels \cup {0}],
             atOnce' \in BOOLEAN, failed' \in 0 .. MaxFailed
      PROVE  FeedbackTypeOK'
  BY <1>1 DEF FeedbackTypeOK, TrainingRow, Given
<1>2. ASSUME NEW e \in Entities, NEW s \in BOOLEAN, GiveLabel(e, s) PROVE FeedbackTypeOK'
  <2> DEFINE l == Cardinality(Given) + 1
  <2>1. /\ entity' \in [1 .. l -> Entities] /\ l \in 0 .. MaxLabels
        /\ Given' = Given \cup {l} /\ sure' \subseteq sure \cup {l} /\ queued' = queued \cup {l}
    BY <1>2, LabelAdded
  <2>2. UNCHANGED <<validated, consumed, picked, due, training, model, atOnce, failed>>
    BY <1>2 DEF GiveLabel
  <2> HIDE DEF l
  <2>3. QED
    BY <1>0, <2>1, <2>2 DEF FeedbackTypeOK, TrainingRow
<1>3. ASSUME Pick PROVE FeedbackTypeOK'
  BY <1>0, <1>1, <1>3 DEF Pick
<1>4. ASSUME Validate PROVE FeedbackTypeOK'
  BY <1>0, <1>1, <1>4 DEF Validate
<1>5. ASSUME Decide PROVE FeedbackTypeOK'
  <2>1. due' \in BOOLEAN
    BY <1>5, Zenon DEF Decide
  <2>2. QED
    BY <1>0, <1>1, <1>5, <2>1 DEF Decide
<1>6. ASSUME NEW t \in Trainers, NEW D \in SUBSET Entities, ReadLabels(t, D) PROVE FeedbackTypeOK'
  <2>1. PICK newest \in [Entities -> Given \cup {0}] :
           training' = [training EXCEPT ![t] = [busy |-> TRUE, newest |-> newest]]
    BY <1>6 DEF ReadLabels
  <2>2. newest \in [Entities -> Labels \cup {0}]
    BY GivenIsInterval
  <2>3. training' \in [Trainers -> TrainingRow]
    BY <1>0, <2>1, <2>2, FeedbackRecords
  <2>4. due' \in BOOLEAN /\ atOnce' \in BOOLEAN
    BY <1>6, Zenon DEF ReadLabels
  <2>5. QED
    BY <1>0, <1>1, <1>6, <2>3, <2>4 DEF ReadLabels
<1>7. ASSUME NEW t \in Trainers, CommitTraining(t) PROVE FeedbackTypeOK'
  <2>1. Used(t) \subseteq Given
    BY <1>0, <1>7 DEF CommitTraining, Used, ReadAreSure
  <2>2. training' \in [Trainers -> TrainingRow] /\ model' \in [Entities -> Labels \cup {0}]
    BY <1>0, <1>7, FeedbackRecords DEF CommitTraining, TrainingRow
  <2>3. QED
    BY <1>0, <1>1, <1>7, <2>1, <2>2 DEF CommitTraining
<1>8. ASSUME NEW t \in Trainers, FailTraining(t) PROVE FeedbackTypeOK'
  <2>1. training' \in [Trainers -> TrainingRow] /\ failed' \in 0 .. MaxFailed
    BY <1>0, <1>8, FeedbackRecords DEF FailTraining
  <2>2. QED
    BY <1>0, <1>1, <1>8, <2>1 DEF FailTraining
<1>9. CASE UNCHANGED feedbackVars
  BY <1>0, <1>1, <1>9 DEF feedbackVars
<1>10. QED
  BY <1>2, <1>3, <1>4, <1>5, <1>6, <1>7, <1>8, <1>9 DEF FeedbackNext, TrainAgain

\* Labels, the workers' memory and the model keep their types.
THEOREM FeedbackTypeCorrect == FeedbackSpec => []FeedbackTypeOK
<1>1. FeedbackInit => ReadAreSure
  BY FeedbackRecords DEF FeedbackInit, ReadAreSure
<1>2. QED
  BY <1>1, FeedbackTypeInit, FeedbackTypeStep, ReadAreSureStep, PTL DEF FeedbackSpec

-----------------------------------------------------------------------------
(* The newest label wins.                                                  *)

\* No label marked as used is newer than the one newest has for its entity.
NoneNewer(newest) == \A e \in Entities : \A l \in consumed :
    entity[l] = e /\ newest[e] # 0 => l <= newest[e]

\* Without overlap the training under way read after the last one had committed.
TrainsAlone == ~atOnce =>
    /\ \A t, u \in Trainers : training[t].busy /\ training[u].busy => t = u
    /\ \A t \in Trainers : training[t].busy => NoneNewer(training[t].newest)
    /\ NoneNewer(model)

NewestInv == FeedbackTypeOK /\ ReadAreSure /\ consumed \subseteq sure /\ TrainsAlone

LEMMA NewestInvStep == NewestInv /\ [FeedbackNext]_feedbackVars => NewestInv'
<1> SUFFICES ASSUME NewestInv, [FeedbackNext]_feedbackVars PROVE NewestInv'
  OBVIOUS
<1>0. /\ FeedbackTypeOK /\ ReadAreSure /\ consumed \subseteq sure /\ TrainsAlone
      /\ FeedbackTypeOK' /\ ReadAreSure'
      /\ sure \subseteq Given /\ Given \subseteq Nat
      /\ training \in [Trainers -> TrainingRow]
  <2>1. FeedbackTypeOK /\ ReadAreSure /\ consumed \subseteq sure /\ TrainsAlone
    BY DEF NewestInv
  <2>2. FeedbackTypeOK' /\ ReadAreSure'
    BY <2>1, FeedbackTypeStep, ReadAreSureStep
  <2>3. sure \subseteq Given /\ training \in [Trainers -> TrainingRow]
    BY <2>1 DEF FeedbackTypeOK, TrainingRow
  <2>4. Given \subseteq Nat
    BY <2>1, GivenIsInterval DEF Labels
  <2>5. QED
    BY <2>1, <2>2, <2>3, <2>4
<1>1. ASSUME UNCHANGED <<entity, sure, training, model, atOnce>>, consumed' \subseteq consumed
      PROVE  NewestInv'
  BY <1>0, <1>1 DEF NewestInv, TrainsAlone, NoneNewer
<1>2. ASSUME NEW e \in Entities, NEW s \in BOOLEAN, GiveLabel(e, s) PROVE NewestInv'
  <2>1. /\ UNCHANGED <<consumed, training, model, atOnce>>
        /\ sure \subseteq sure' /\ \A k \in Given : entity'[k] = entity[k]
    BY <1>0, <1>2, LabelAdded DEF GiveLabel
  <2>2. QED
    BY <1>0, <2>1 DEF NewestInv, TrainsAlone, NoneNewer
<1>3. ASSUME NEW t \in Trainers, NEW D \in SUBSET Entities, ReadLabels(t, D) PROVE NewestInv'
  <2>1. PICK newest \in [Entities -> Given \cup {0}] :
           /\ \A e \in Entities : IF e \in D THEN IsNewest(newest[e], e) ELSE newest[e] = 0
           /\ training' = [training EXCEPT ![t] = [busy |-> TRUE, newest |-> newest]]
    BY <1>3 DEF ReadLabels
  <2>2. /\ UNCHANGED <<entity, sure, consumed, model>>
        /\ ~atOnce' => ~atOnce /\ \A u \in Trainers : ~training[u].busy
    BY <1>3 DEF ReadLabels
  <2>3. ASSUME NEW u \in Trainers
        PROVE  training'[u] = IF u = t THEN [busy |-> TRUE, newest |-> newest] ELSE training[u]
    BY <1>0, <2>1
  <2>4. NoneNewer(newest)
    BY <1>0, <2>1 DEF NoneNewer, IsNewest, About
  <2>5. TrainsAlone'
    BY <1>0, <2>2, <2>3, <2>4 DEF TrainsAlone, NoneNewer
  <2>6. QED
    BY <1>0, <2>2, <2>5 DEF NewestInv
<1>4. ASSUME NEW t \in Trainers, CommitTraining(t) PROVE NewestInv'
  <2>1. /\ UNCHANGED <<entity, sure, atOnce>> /\ model' = training[t].newest /\ training[t].busy
        /\ consumed' = consumed \cup Used(t)
        /\ training' = [training EXCEPT ![t] = NoTraining]
    BY <1>4 DEF CommitTraining
  <2>2. ASSUME NEW l \in Used(t)
        PROVE  l \in sure /\ entity[l] \in Entities /\ l = training[t].newest[entity[l]]
    BY <1>0, <2>1 DEF Used, ReadAreSure
  <2>3. ASSUME NEW u \in Trainers
        PROVE  IF u = t THEN training'[u].busy = FALSE ELSE training'[u] = training[u]
    BY <1>0, <2>1, FeedbackRecords
  <2>4. ~atOnce => \A u \in Trainers : ~training'[u].busy
    BY <1>0, <2>1, <2>3 DEF TrainsAlone
  <2>5. ~atOnce => NoneNewer(model)'
    <3> SUFFICES ASSUME ~atOnce, NEW e \in Entities, NEW l \in consumed',
                        entity[l] = e, training[t].newest[e] # 0
                 PROVE  l <= training[t].newest[e]
      BY <2>1 DEF NoneNewer
    <3>1. CASE l \in consumed
      BY <1>0, <2>1, <3>1 DEF TrainsAlone, NoneNewer
    <3>2. CASE l \in Used(t)
      <4>1. l \in sure /\ l = training[t].newest[e]
        BY <2>2, <3>2
      <4>2. l \in Nat
        BY <1>0, <4>1
      <4>3. l <= l
        BY <4>2
      <4>4. QED
        BY <4>1, <4>3
    <3>3. QED
      BY <2>1, <3>1, <3>2
  <2>6. QED
    BY <1>0, <2>1, <2>2, <2>4, <2>5 DEF NewestInv, TrainsAlone
<1>5. ASSUME NEW t \in Trainers, FailTraining(t) PROVE NewestInv'
  <2>1. /\ UNCHANGED <<entity, sure, consumed, model, atOnce>>
        /\ training' = [training EXCEPT ![t] = NoTraining]
    BY <1>5 DEF FailTraining
  <2>2. ASSUME NEW u \in Trainers
        PROVE  training'[u].busy => training'[u] = training[u]
    BY <1>0, <2>1, FeedbackRecords
  <2>3. QED
    BY <1>0, <2>1, <2>2 DEF NewestInv, TrainsAlone, NoneNewer
<1>6. ASSUME Pick \/ Validate \/ Decide PROVE NewestInv'
  BY <1>1, <1>6 DEF Pick, Validate, Decide
<1>7. CASE UNCHANGED feedbackVars
  BY <1>1, <1>7 DEF feedbackVars
<1>8. QED
  BY <1>2, <1>3, <1>4, <1>5, <1>6, <1>7 DEF FeedbackNext, TrainAgain

\* The model never goes back to a label older than one marked as used, whatever
\* the feedback worker writes meanwhile, unless two trainings overlapped.
THEOREM NewestLabelWinsAlways == FeedbackSpec => []NewestLabelWins
<1>1. FeedbackInit => NewestInv
  BY FeedbackTypeInit, FeedbackRecords
  DEF FeedbackInit, NewestInv, ReadAreSure, TrainsAlone, NoneNewer
<1>2. NewestInv => NewestLabelWins
  BY DEF NewestInv, TrainsAlone, NoneNewer, NewestLabelWins
<1>3. QED
  BY <1>1, <1>2, NewestInvStep, PTL DEF FeedbackSpec
-----------------------------------------------------------------------------
(* ModelRollout: types.                                                    *)

LEMMA RolloutRecords ==
    /\ NoRollout \in RolloutRow /\ HoldsNothing \in Holding
    /\ [HoldsNothing EXCEPT !.step = "none"] \in Holding
    /\ HoldsNothing.step = "idle"
    /\ [HoldsNothing EXCEPT !.step = "none"].step = "none"
BY VersionAssumption, RolloutBoundsAssumption DEF NoRollout, RolloutRow, HoldsNothing, Holding

LEMMA FoundRecord ==
    ASSUME RolloutTypeOK, NEW r \in Rollouts
    PROVE  Found(r) \in Holding /\ Found(r).step = "found"
BY DEF Found, Holding, RolloutTypeOK

\* What an upsert and a rollback write: the status of a row found does not change,
\* and its versions are those it had or those that were asked for.
LEMMA UpdatedRow ==
    ASSUME RolloutTypeOK, NEW u \in Upserts, NEW v \in Versions,
           NEW s \in Versions \cup {NoVersion}, NEW a \in BOOLEAN
    PROVE  LET n == rollout[upsert[u].row]
           IN  /\ upsert[u].row \in Rollouts
               /\ Updated(u, v, s, a) \in RolloutRow
               /\ Updated(u, v, s, a).status = n.status
               /\ Updated(u, v, s, a).active \in {v, n.active}
               /\ Updated(u, v, s, a).shadow \in {s, n.shadow}
<1> DEFINE c == upsert[u].copy
           n == rollout[upsert[u].row]
<1>1. upsert[u].row \in Rollouts /\ n \in RolloutRow
  BY DEF RolloutTypeOK, Holding
<1>2. changes + 1 \in Nat
  BY RolloutBoundsAssumption DEF RolloutTypeOK
<1>3. /\ Changed(v, c.active, n.active) \in {v, n.active}
      /\ Changed(s, c.shadow, n.shadow) \in {s, n.shadow}
      /\ Changed(a, c.auto, n.auto) = a \/ Changed(a, c.auto, n.auto) = n.auto
  BY DEF Changed
<1> DEFINE w == Changed(v, c.active, n.active)
           x == Changed(s, c.shadow, n.shadow)
           y == Changed(a, c.auto, n.auto)
<1>4. w \in {v, n.active} /\ x \in {s, n.shadow} /\ y \in BOOLEAN
  BY <1>1, <1>3, Zenon DEF RolloutRow
<1>5. Updated(u, v, s, a) =
        [n EXCEPT !.active = w, !.shadow = x, !.auto = y, !.at = changes + 1]
  BY DEF Updated
<1>6. w \in Versions /\ x \in Versions \cup {NoVersion}
  BY <1>1, <1>4 DEF RolloutRow
<1> HIDE DEF w, x, y, n
<1> DEFINE k == changes + 1
<1>7. k \in Nat
  BY <1>2
<1> HIDE DEF k
<1>8. /\ [n EXCEPT !.active = w, !.shadow = x, !.auto = y, !.at = k] \in RolloutRow
      /\ [n EXCEPT !.active = w, !.shadow = x, !.auto = y, !.at = k].status = n.status
      /\ [n EXCEPT !.active = w, !.shadow = x, !.auto = y, !.at = k].active = w
      /\ [n EXCEPT !.active = w, !.shadow = x, !.auto = y, !.at = k].shadow = x
  BY <1>1, <1>4, <1>6, <1>7 DEF RolloutRow
<1>9. Updated(u, v, s, a) = [n EXCEPT !.active = w, !.shadow = x, !.auto = y, !.at = k]
  BY <1>5 DEF k
<1>10. QED
  BY <1>1, <1>4, <1>8, <1>9 DEF n

LEMMA RolledBackIs ==
    ASSUME RolloutTypeOK, NEW d \in Drifts, drift[d].step = "found", drift[d].copy.shadow # NoVersion
    PROVE  /\ drift[d].row \in Rollouts /\ RolledBackRow(d) \in RolloutRow
           /\ RolledBackRow(d).status = "rolled_back"
<1> DEFINE n == rollout[drift[d].row]
           w == Changed(drift[d].copy.shadow, drift[d].copy.active, n.active)
<1>1. drift[d].row \in Rollouts /\ n \in RolloutRow /\ drift[d].copy \in RolloutRow
  BY DEF RolloutTypeOK, Holding
<1>2. w \in Versions
  BY <1>1 DEF RolloutRow, Changed
<1>3. RolledBackRow(d) = [n EXCEPT !.active = w, !.status = "rolled_back"]
  BY DEF RolledBackRow
<1> HIDE DEF n, w
<1>4. QED
  BY <1>1, <1>2, <1>3 DEF RolloutRow

\* A drift worker holds the copy of a row with a shadow version.
DriftHasShadow == \A d \in Drifts : drift[d].step = "found" => drift[d].copy.shadow # NoVersion

\* The active row, of upserts none at once of which found none, is one, and serves
\* nothing that was withdrawn.
OneActive == \A r, o \in Active : r = o
NoneIsLone == \A u \in Upserts : upsert[u].step = "none" =>
    Active = {} /\ \A v \in Upserts : upsert[v].step = "none" => v = u
ActiveIsWanted == \A r \in Active :
    rollout[r].active \notin withdrawn /\ rollout[r].shadow \notin withdrawn

RolloutInv == /\ RolloutTypeOK /\ DriftHasShadow
              /\ ~twins => OneActive /\ NoneIsLone /\ ActiveIsWanted

LEMMA RolloutInvInit == RolloutInit => RolloutInv
<1> SUFFICES ASSUME RolloutInit PROVE RolloutInv
  OBVIOUS
<1>1. RolloutTypeOK
  <2>1. twins \in BOOLEAN
    BY Zenon DEF RolloutInit
  <2>2. rollout \in [Rollouts -> RolloutRow]
    BY RolloutRecords DEF RolloutInit
  <2>3. upsert \in [Upserts -> Holding] /\ drift \in [Drifts -> Holding]
    BY RolloutRecords DEF RolloutInit
  <2>4. changes \in 0 .. MaxChanges /\ withdrawn \subseteq Versions
    BY RolloutBoundsAssumption DEF RolloutInit
  <2>5. QED
    BY <2>1, <2>2, <2>3, <2>4 DEF RolloutTypeOK
<1>2. Active = {} /\ (\A u \in Upserts : upsert[u].step = "idle")
      /\ \A d \in Drifts : drift[d].step = "idle"
  BY RolloutRecords DEF RolloutInit, Active, NoRollout
<1>3. QED
  BY <1>1, <1>2 DEF RolloutInv, DriftHasShadow, OneActive, NoneIsLone, ActiveIsWanted

LEMMA RolloutInvStep == RolloutInv /\ [RolloutNext]_rolloutVars => RolloutInv'
<1> SUFFICES ASSUME RolloutInv, [RolloutNext]_rolloutVars PROVE RolloutInv'
  OBVIOUS
<1>0. /\ RolloutTypeOK /\ DriftHasShadow
      /\ ~twins => OneActive /\ NoneIsLone /\ ActiveIsWanted
      /\ rollout \in [Rollouts -> RolloutRow] /\ upsert \in [Upserts -> Holding]
      /\ drift \in [Drifts -> Holding] /\ withdrawn \subseteq Versions
      /\ twins \in BOOLEAN /\ changes \in 0 .. MaxChanges
  BY DEF RolloutInv, RolloutTypeOK
<1>1. ASSUME NEW u \in Upserts, FindRollout(u) PROVE RolloutInv'
  <2>1. UNCHANGED <<rollout, drift, withdrawn, changes>> /\ Active' = Active
    BY <1>1 DEF FindRollout, Active
  <2>2. CASE \E r \in Active : upsert' = [upsert EXCEPT ![u] = Found(r)] /\ UNCHANGED twins
    <3>1. PICK r \in Active : upsert' = [upsert EXCEPT ![u] = Found(r)] /\ UNCHANGED twins
      BY <2>2
    <3>2. r \in Rollouts /\ Found(r) \in Holding /\ Found(r).step = "found"
      BY <1>0, FoundRecord DEF Active
    <3>3. \A v \in Upserts : upsert'[v].step = "none" => upsert[v].step = "none"
      BY <1>0, <3>1, <3>2
    <3>4. upsert' \in [Upserts -> Holding]
      BY <1>0, <3>1, <3>2
    <3>5. RolloutTypeOK'
      BY <1>0, <2>1, <3>1, <3>4 DEF RolloutTypeOK
    <3>6. QED
      BY <1>0, <2>1, <3>1, <3>3, <3>5
      DEF RolloutInv, DriftHasShadow, OneActive, NoneIsLone, ActiveIsWanted
  <2>3. CASE /\ Active = {}
             /\ upsert' = [upsert EXCEPT ![u] = [HoldsNothing EXCEPT !.step = "none"]]
             /\ twins' = (twins \/ \E v \in Upserts : upsert[v].step = "none")
    <3>1. upsert' \in [Upserts -> Holding]
      BY <1>0, <2>3, RolloutRecords
    <3>2. twins' \in BOOLEAN
      BY <2>3, Zenon
    <3>3. RolloutTypeOK'
      BY <1>0, <2>1, <3>1, <3>2 DEF RolloutTypeOK
    <3>4. ~twins' => ~twins /\ \A v \in Upserts : upsert'[v].step = "none" => v = u
      BY <1>0, <2>3
    <3>5. QED
      BY <1>0, <2>1, <2>3, <3>3, <3>4
      DEF RolloutInv, DriftHasShadow, OneActive, NoneIsLone, ActiveIsWanted
  <2>4. QED
    BY <1>1, <2>2, <2>3 DEF FindRollout
<1>2. ASSUME NEW u \in Upserts, NEW v \in Versions, NEW s \in Versions \cup {NoVersion},
             NEW a \in BOOLEAN, WriteRollout(u, v, s, a)
      PROVE  RolloutInv'
  <2>1. /\ changes < MaxChanges /\ changes' = changes + 1
        /\ withdrawn' = withdrawn \ {v, s} /\ upsert' = [upsert EXCEPT ![u] = HoldsNothing]
        /\ UNCHANGED <<drift, twins>>
    BY <1>2 DEF WriteRollout
  <2>2. changes' \in 0 .. MaxChanges /\ changes + 1 \in Nat
    BY <1>0, <2>1, RolloutBoundsAssumption
  <2>3. /\ upsert' \in [Upserts -> Holding]
        /\ \A w \in Upserts : upsert'[w].step = "none" => w # u /\ upsert[w].step = "none"
    BY <1>0, <2>1, RolloutRecords
  <2>4. CASE /\ upsert[u].step = "found"
             /\ rollout' = [rollout EXCEPT ![upsert[u].row] = Updated(u, v, s, a)]
    <3>1. /\ rollout' \in [Rollouts -> RolloutRow] /\ Active' = Active
          /\ \A r \in Rollouts : /\ rollout'[r].active \in {v, rollout[r].active}
                                 /\ rollout'[r].shadow \in {s, rollout[r].shadow}
      <4> DEFINE q == upsert[u].row
                 n == Updated(u, v, s, a)
      <4>1. /\ q \in Rollouts /\ n \in RolloutRow /\ n.status = rollout[q].status
            /\ n.active \in {v, rollout[q].active} /\ n.shadow \in {s, rollout[q].shadow}
        BY <1>0, UpdatedRow, ZenonT(40)
      <4>2. rollout' = [rollout EXCEPT ![q] = n]
        BY <2>4
      <4> HIDE DEF q, n
      <4>3. QED
        BY <1>0, <4>1, <4>2 DEF Active
    <3>2. RolloutTypeOK'
      BY <1>0, <2>1, <2>2, <2>3, <3>1 DEF RolloutTypeOK
    <3>3. ~twins' => OneActive' /\ NoneIsLone'
      BY <1>0, <2>1, <2>3, <3>1 DEF OneActive, NoneIsLone
    <3>4. ~twins' => ActiveIsWanted'
      BY <1>0, <2>1, <3>1 DEF ActiveIsWanted, Active
    <3>5. QED
      BY <1>0, <2>1, <3>2, <3>3, <3>4 DEF RolloutInv, DriftHasShadow
  <2>5. CASE /\ upsert[u].step = "none"
             /\ \E r \in Rollouts :
                  /\ rollout[r].status = "none"
                  /\ rollout' = [rollout EXCEPT ![r] =
                         [status |-> "active", active |-> v, shadow |-> s, auto |-> a,
                          at |-> changes + 1]]
    <3>1. PICK r \in Rollouts :
            /\ rollout[r].status = "none"
            /\ rollout' = [rollout EXCEPT ![r] =
                   [status |-> "active", active |-> v, shadow |-> s, auto |-> a,
                    at |-> changes + 1]]
      BY <2>5
    <3>2. rollout' \in [Rollouts -> RolloutRow] /\ Active' = Active \cup {r}
      BY <1>0, <2>2, <3>1 DEF RolloutRow, Active
    <3>3. rollout'[r].active = v /\ rollout'[r].shadow = s
      BY <1>0, <3>1
    <3>4. RolloutTypeOK'
      BY <1>0, <2>1, <2>2, <2>3, <3>2 DEF RolloutTypeOK
    <3>5. ~twins => Active' = {r} /\ \A w \in Upserts : upsert'[w].step # "none"
      BY <1>0, <2>3, <2>5, <3>2 DEF NoneIsLone
    <3>6. QED
      BY <1>0, <2>1, <3>3, <3>4, <3>5
      DEF RolloutInv, DriftHasShadow, OneActive, NoneIsLone, ActiveIsWanted
  <2>6. QED
    BY <1>2, <2>4, <2>5 DEF WriteRollout
<1>3. ASSUME NEW u \in Upserts, DropUpsert(u) PROVE RolloutInv'
  <2>1. /\ UNCHANGED <<rollout, drift, withdrawn, twins, changes>> /\ Active' = Active
        /\ upsert' = [upsert EXCEPT ![u] = HoldsNothing]
    BY <1>3 DEF DropUpsert, Active
  <2>2. /\ upsert' \in [Upserts -> Holding]
        /\ \A w \in Upserts : upsert'[w].step = "none" => upsert[w].step = "none"
    BY <1>0, <2>1, RolloutRecords
  <2>3. QED
    BY <1>0, <2>1, <2>2
    DEF RolloutInv, RolloutTypeOK, DriftHasShadow, OneActive, NoneIsLone, ActiveIsWanted
<1>4. ASSUME NEW d \in Drifts, FindDrifted(d) \/ DropDrift(d) PROVE RolloutInv'
  <2>1. UNCHANGED <<rollout, upsert, withdrawn, twins, changes>> /\ Active' = Active
    BY <1>4 DEF FindDrifted, DropDrift, Active
  <2>2. drift' \in [Drifts -> Holding] /\ DriftHasShadow'
    <3>1. CASE FindDrifted(d)
      <4>1. PICK r \in Rollouts : rollout[r].shadow # NoVersion
                                  /\ drift' = [drift EXCEPT ![d] = Found(r)]
        BY <3>1 DEF FindDrifted
      <4>2. Found(r) \in Holding /\ Found(r).copy = rollout[r]
        BY <1>0, FoundRecord DEF Found
      <4>3. QED
        BY <1>0, <4>1, <4>2 DEF DriftHasShadow
    <3>2. CASE DropDrift(d)
      BY <1>0, <3>2, RolloutRecords DEF DropDrift, DriftHasShadow
    <3>3. QED
      BY <1>4, <3>1, <3>2
  <2>3. QED
    BY <1>0, <2>1, <2>2 DEF RolloutInv, RolloutTypeOK, OneActive, NoneIsLone, ActiveIsWanted
<1>5. ASSUME NEW d \in Drifts, RollBack(d) PROVE RolloutInv'
  <2> DEFINE r == drift[d].row
  <2>1. /\ drift[d].step = "found"
        /\ rollout' = [rollout EXCEPT ![r] = RolledBackRow(d)]
        /\ withdrawn' = IF r \in Active THEN withdrawn \cup {drift[d].copy.active} ELSE withdrawn
        /\ drift' = [drift EXCEPT ![d] = HoldsNothing]
        /\ UNCHANGED <<upsert, twins, changes>>
    BY <1>5 DEF RollBack
  <2>2. r \in Rollouts /\ RolledBackRow(d) \in RolloutRow /\ RolledBackRow(d).status = "rolled_back"
    BY <1>0, <2>1, RolledBackIs DEF DriftHasShadow
  <2>3. drift[d].copy.active \in Versions
    BY <1>0 DEF Holding, RolloutRow
  <2> HIDE DEF r
  <2>4. rollout' \in [Rollouts -> RolloutRow] /\ Active' = Active \ {r}
    BY <1>0, <2>1, <2>2 DEF Active
  <2>5. drift' \in [Drifts -> Holding] /\ DriftHasShadow'
    BY <1>0, <2>1, RolloutRecords DEF DriftHasShadow
  <2>6. RolloutTypeOK'
    BY <1>0, <2>1, <2>3, <2>4, <2>5 DEF RolloutTypeOK
  <2>7. ~twins => OneActive' /\ NoneIsLone'
    BY <1>0, <2>1, <2>4 DEF OneActive, NoneIsLone
  <2>8. ASSUME ~twins, NEW o \in Active'
        PROVE  rollout'[o].active \notin withdrawn' /\ rollout'[o].shadow \notin withdrawn'
    <3>1. o \in Active /\ o # r /\ o \in Rollouts
      BY <2>4, <2>8 DEF Active
    <3>2. rollout'[o] = rollout[o]
      BY <1>0, <2>1, <3>1
    <3>3. withdrawn' = withdrawn
      BY <1>0, <2>1, <2>8, <3>1 DEF OneActive
    <3>4. QED
      BY <1>0, <2>8, <3>1, <3>2, <3>3 DEF ActiveIsWanted
  <2>9. QED
    BY <2>1, <2>5, <2>6, <2>7, <2>8 DEF RolloutInv, ActiveIsWanted
<1>6. CASE UNCHANGED rolloutVars
  BY <1>0, <1>6 DEF rolloutVars, RolloutInv, RolloutTypeOK, DriftHasShadow, OneActive,
                    NoneIsLone, ActiveIsWanted, Active
<1>7. QED
  BY <1>1, <1>2, <1>3, <1>4, <1>5, <1>6 DEF RolloutNext

\* The rollouts, and the copies of requests and workers, keep their types.
THEOREM RolloutTypeCorrect == RolloutSpec => []RolloutTypeOK
<1>1. RolloutInv => RolloutTypeOK
  BY DEF RolloutInv
<1>2. QED
  BY <1>1, RolloutInvInit, RolloutInvStep, PTL DEF RolloutSpec

\* A version rolled back for its drift serves no entity until it is asked for
\* again, whatever upserts and drift workers are under way, as long as no two
\* upserts found at once that there was no active row.
THEOREM RolledBackNotServedAlways == RolloutSpec => []RolledBackNotServed
<1>1. RolloutInv => RolledBackNotServed
  BY DEF RolloutInv, RolledBackNotServed, Serves, IsNewestActive, ActiveIsWanted
<1>2. QED
  BY <1>1, RolloutInvInit, RolloutInvStep, PTL DEF RolloutSpec
=============================================================================
