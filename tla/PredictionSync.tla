--------------------------- MODULE PredictionSync ---------------------------
(***************************************************************************)
(* sync/edge_agent.py: an agency's predictions pushed to the national hub. *)
(*                                                                         *)
(* Two workers write prediction rows. Inference stamps created_at row by   *)
(* row, training takes one stamp for all rows of a run; each commits its   *)
(* run at the end. Both stamp a row again when they score it again. The    *)
(* edge agent runs again and again: it reads the rows at or after its      *)
(* high-water mark, posts them, and saves the mark in a file.              *)
(***************************************************************************)
EXTENDS Naturals, FiniteSets

CONSTANTS InferRows, TrainRows,  \* rows of each worker (types or windows apart)
          PushLimit,             \* EDGE_SYNC_BATCH_SIZE
          Lookback,              \* EDGE_SYNC_LOOKBACK_HOURS, in ticks
          MaxTime,               \* bound on the clock, that is on stamps and ticks
          MaxFailures            \* bound on pushes that fail and crashes

Rows == InferRows \cup TrainRows

ASSUME PushLimitAssumption == PushLimit \in Nat \ {0}
ASSUME SyncBoundsAssumption ==
    Lookback \in Nat /\ MaxTime \in Nat \ {0} /\ MaxFailures \in Nat

VARIABLES now,                   \* wall clock; two ticks are over 1 us apart
          row,                   \* ai_prediction: stamp (0: no row), over min_risk
          open,                  \* rows written and not committed, same fields
          mark,                  \* last_synced_at, 0 when missing or unreadable
          run,                   \* the agent: phase and the rows it fetched
          copies,                \* hub copies of each row as it is scored now
          exempt,                \* history: rows the agent may leave behind
          lapsed,                \* history: open rows written beside a run
          failures

syncVars == <<now, row, open, mark, run, copies, exempt, lapsed, failures>>

Prediction == [at : Nat, high : BOOLEAN]
NoRow == [at |-> 0, high |-> FALSE]
Idle == [phase |-> "idle", batch |-> {}]

SyncTypeOK == /\ now \in Nat \ {0}
              /\ row \in [Rows -> Prediction] /\ open \in [Rows -> Prediction]
              /\ mark \in Nat
              /\ run \in [phase : {"idle", "fetched", "stored", "empty"},
                          batch : SUBSET (Rows \X Nat)]
              /\ copies \in [Rows -> Nat]
              /\ exempt \subseteq Rows /\ lapsed \subseteq Rows
              /\ failures \in 0 .. MaxFailures

SyncInit == /\ now = 1
            /\ row = [r \in Rows |-> NoRow] /\ open = [r \in Rows |-> NoRow]
            /\ mark = 0
            /\ run = Idle
            /\ copies = [r \in Rows |-> 0]
            /\ exempt = {} /\ lapsed = {}
            /\ failures = 0

-----------------------------------------------------------------------------
(* The workers.                                                            *)

Tick == /\ now < MaxTime
        /\ now' = now + 1
        /\ UNCHANGED <<row, open, mark, run, copies, exempt, lapsed, failures>>

\* Rows R are written with the stamp now; those of H have a score over the
\* minimum and are not abstained.
WriteRows(R, H) ==
    /\ now < MaxTime
    /\ \A r \in R : open[r].at = 0
    /\ open' = [r \in Rows |-> IF r \in R THEN [at |-> now, high |-> r \in H] ELSE open[r]]
    /\ lapsed' = IF run.phase = "idle" THEN lapsed ELSE lapsed \cup R
    /\ now' = now + 1
    /\ UNCHANGED <<row, mark, run, copies, exempt, failures>>

\* _write_prediction: a stamp for each row.
InferWrite == \E r \in InferRows : \E H \in SUBSET {r} : WriteRows({r}, H)

\* gnn_train_worker.run_once: one stamp for the rows of a run.
TrainWrite == \E R, H \in SUBSET TrainRows :
                 /\ R # {} /\ H \subseteq R
                 /\ \A r \in TrainRows : open[r].at = 0
                 /\ WriteRows(R, H)

Written(R) == {r \in R : open[r].at # 0}

\* The commit at the end of the run: the new scores replace the old ones.
CommitRows(R) ==
    /\ Written(R) # {}
    /\ row' = [r \in Rows |-> IF r \in Written(R) THEN open[r] ELSE row[r]]
    /\ copies' = [r \in Rows |-> IF r \in Written(R) THEN 0 ELSE copies[r]]
    /\ exempt' = (exempt \ Written(R)) \cup (lapsed \cap Written(R))
    /\ open' = [r \in Rows |-> IF r \in R THEN NoRow ELSE open[r]]
    /\ lapsed' = lapsed \ R
    /\ UNCHANGED <<now, mark, run, failures>>

\* An exception rolls the run back.
RollbackRows(R) ==
    /\ Written(R) # {}
    /\ open' = [r \in Rows |-> IF r \in R THEN NoRow ELSE open[r]]
    /\ lapsed' = lapsed \ R
    /\ UNCHANGED <<now, row, mark, run, copies, exempt, failures>>

-----------------------------------------------------------------------------
(* The agent: run_once.                                                    *)

\* Where the query starts: the mark, or the lookback on a cold start.
Since == IF mark # 0 THEN mark
         ELSE IF now > Lookback THEN now - Lookback ELSE 0

Visible == {r \in Rows : row[r].at # 0 /\ row[r].high}

Unsynced == {r \in Visible : row[r].at >= Since}

\* Mutant: LIMIT without ORDER BY.
AnyBatch(B) == B \subseteq Unsynced /\ (Cardinality(B) = PushLimit \/ B = Unsynced)

\* The first PushLimit rows in stamp order.
FirstBatch(B) == /\ B \subseteq Unsynced
                 /\ Cardinality(B) <= PushLimit
                 /\ Cardinality(B) = PushLimit \/ B = Unsynced
                 /\ \A r \in B, s \in Unsynced \ B : row[r].at <= row[s].at

\* Rows the limit cut although a row of the same stamp is in the batch: rows of
\* one training run. Rows older than the lookback of a cold start.
CutByLimit(B) == {s \in Unsynced \ B : \E r \in B : row[r].at = row[s].at}
OutOfWindow == {r \in Visible : mark = 0 /\ row[r].at < Since}

\* _fetch_unsynced. Rows that are open now are being written beside the run.
Fetch == /\ run.phase = "idle"
         /\ \E B \in SUBSET Rows :
              /\ FirstBatch(B)
              /\ run' = [phase |-> IF B = {} THEN "empty" ELSE "fetched",
                         batch |-> {<<r, row[r].at>> : r \in B}]
              /\ exempt' = exempt \cup CutByLimit(B) \cup OutOfWindow
         /\ lapsed' = lapsed \cup Written(Rows)
         /\ UNCHANGED <<now, row, open, mark, copies, failures>>

\* Nothing to send: the mark becomes the time, read after the query.
SaveNow == /\ run.phase = "empty"
           /\ mark' = now
           /\ run' = Idle
           /\ UNCHANGED <<now, row, open, copies, exempt, lapsed, failures>>

\* The hub commits the batch; copies of a row scored again since do not count.
Store == /\ run.phase = "fetched"
         /\ copies' = [r \in Rows |->
                IF <<r, row[r].at>> \in run.batch THEN copies[r] + 1 ELSE copies[r]]
         /\ run' = [run EXCEPT !.phase = "stored"]
         /\ UNCHANGED <<now, row, open, mark, exempt, lapsed, failures>>

\* Mutants: a tick too far; at the last row instead of just after it.
MarkWellAfter(m) == \E x \in run.batch : m = x[2] + 2 /\ \A y \in run.batch : y[2] <= x[2]
MarkAtLast(m) == \E x \in run.batch : m = x[2] /\ \A y \in run.batch : y[2] <= x[2]

\* Just after the last row that was sent.
MarkAfter(m) == \E x \in run.batch : m = x[2] + 1 /\ \A y \in run.batch : y[2] <= x[2]

\* The answer arrives: the mark is saved.
SaveMark == /\ run.phase = "stored"
            /\ MarkAfter(mark')
            /\ run' = Idle
            /\ UNCHANGED <<now, row, open, copies, exempt, lapsed, failures>>

\* An error answer, a timeout before or after the hub's commit, or a crash:
\* the mark stays. A crash while the file is written leaves it unreadable.
FailRun == /\ run.phase # "idle"
           /\ failures < MaxFailures
           /\ failures' = failures + 1
           /\ run' = Idle
           /\ \/ UNCHANGED mark
              \/ mark' = 0
           /\ UNCHANGED <<now, row, open, copies, exempt, lapsed>>

-----------------------------------------------------------------------------
SyncRun == Fetch \/ SaveNow \/ Store \/ SaveMark

SyncNext == \/ Tick
            \/ InferWrite \/ TrainWrite
            \/ \E R \in {InferRows, TrainRows} : CommitRows(R) \/ RollbackRows(R)
            \/ SyncRun \/ FailRun

SyncSpec == SyncInit /\ [][SyncNext]_syncVars

(* The container runs the agent every two minutes.                         *)
SyncFairSpec == SyncSpec /\ WF_syncVars(SyncRun)

-----------------------------------------------------------------------------
(* Correctness.                                                            *)

\* sync/edge_agent.py:13, "Saves the high-water mark so the next run only
\* sends new data": what the mark has passed is at the hub. Left out are rows
\* written while the agent ran, rows of a training run cut by the limit, and
\* rows older than the lookback of a cold start: those are never sent.
PassedIsSent == \A r \in Visible \ exempt : row[r].at < mark => copies[r] > 0

\* A row is sent again only after a run that failed.
ResentOnlyAfterFailure == \A r \in Rows : copies[r] <= 1 + failures

Pending(r) == r \in Visible \ exempt /\ copies[r] = 0

\* Every high-risk prediction reaches the hub, is left behind for one of the
\* reasons above, or is scored again under the minimum: when some wait, a time
\* comes when none does.
EventuallyAtHub == (\E r \in Rows : Pending(r)) ~> (\A r \in Rows : ~Pending(r))
=============================================================================
