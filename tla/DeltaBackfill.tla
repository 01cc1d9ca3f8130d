---------------------------- MODULE DeltaBackfill ----------------------------
(***************************************************************************)
(* scripts/backfill_graph_deltas.py: an operator's run over the ledger     *)
(* rows that have no graph delta, beside the ingestion workers.            *)
(*                                                                         *)
(* A run reads its candidates once, the oldest first and at most Limit of  *)
(* them, and handles them one by one. A row that cannot be rebuilt as a    *)
(* CanonicalEvent, or not be projected, is counted as failed and left; it  *)
(* has no delta, so the next run reads it again. Other services write such *)
(* rows straight into event_log (CONTAINMENT_APPLIED, defense/service.py;  *)
(* CAMPAIGN_EVENT, mule_campaign_worker.py): their event types are none    *)
(* that CanonicalEvent admits.                                             *)
(***************************************************************************)
EXTENDS IngestPipeline

CONSTANTS Foreign,              \* event_log rows of other services, no delta
          Unfit,                \* rows no run can rebuild and project
          OccurredAt,           \* occurred_at of every row
          Limit                 \* --limit of a run, at least 1

LedgerRows == Events \cup Foreign

ASSUME ForeignAssumption == Foreign \cap Events = {} /\ Foreign \subseteq Unfit
ASSUME UnfitAssumption == Unfit \subseteq LedgerRows
ASSUME OccurredAtAssumption == \A r \in LedgerRows : OccurredAt[r] \in Nat
ASSUME LimitAssumption == Limit \in Nat \ {0}

VARIABLE batch                  \* candidates the running script has left

backfillVars == <<vars, batch>>

BackfillTypeOK == TypeOK /\ batch \subseteq LedgerRows

BackfillInit == Init /\ batch = {}

-----------------------------------------------------------------------------
Candidates == {e \in Events : Missing(e)} \cup Foreign

IsOldest(r, rows) == r \in rows /\ \A s \in rows : OccurredAt[r] <= OccurredAt[s]

\* ORDER BY occurred_at ASC LIMIT n; rows of one instant come in any order.
OldestFirst(chosen, rows) ==
    /\ chosen \subseteq rows
    /\ Cardinality(chosen) <= Limit
    /\ Cardinality(chosen) < Limit => chosen = rows
    /\ \A r \in chosen : IsOldest(r, (rows \ chosen) \cup {r})

\* A run starts; the one before has ended.
StartRun ==
    /\ batch = {}
    /\ \E chosen \in SUBSET Candidates : OldestFirst(chosen, Candidates) /\ batch' = chosen
    /\ UNCHANGED vars

\* The delta is inserted. The IntegrityError of one that a worker has inserted
\* since the candidates were read is rolled back, and the row counts as created.
FillRow(r) ==
    /\ IsOldest(r, batch) /\ r \notin Unfit
    /\ Backfill(r) \/ (r \in deltas /\ UNCHANGED vars)
    /\ batch' = batch \ {r}

\* Mutant: no try around the row, so that its exception ends the run.
RunEnds(r) == {}

\* What a run goes on with after a row that failed.
RestAfter(r) == batch \ {r}

\* The rebuilding or the projection raises: counted as failed, next row.
RowRefused(r) ==
    /\ IsOldest(r, batch) /\ r \in Unfit
    /\ batch' = RestAfter(r)
    /\ UNCHANGED vars

\* The insert fails, perhaps after it took effect. The handler rolls back and
\* goes on, unless it fails itself (it reads the row again) or the run is killed.
RowFault(r) ==
    /\ IsOldest(r, batch) /\ r \notin Unfit
    /\ UNCHANGED vars \/ Backfill(r)
    /\ batch' \in {RestAfter(r), {}}

ScriptStep == StartRun \/ \E r \in LedgerRows : FillRow(r) \/ RowRefused(r) \/ RowFault(r)

Pipeline == /\ \E w \in Workers : Submission(w) \/ Step(w) \/ Crash(w) \/ Renew(w)
            /\ UNCHANGED batch

BackfillNext == ScriptStep \/ Pipeline

BackfillSpec == BackfillInit /\ [][BackfillNext]_backfillVars

(* A handler that was entered goes on until it returns. The operator runs  *)
(* the script again and again, and the insert of a row that run after run  *)
(* comes to does not fail every time.                                      *)
BackfillFairSpec == /\ BackfillSpec
                    /\ \A w \in Workers : WF_backfillVars(Step(w) /\ UNCHANGED batch)
                    /\ WF_backfillVars(ScriptStep)
                    /\ \A e \in Events : SF_backfillVars(FillRow(e))

-----------------------------------------------------------------------------
\* Rows that run after run take a place in front of e, or may take it.
InFrontForGood(e) == {r \in Unfit : OccurredAt[r] <= OccurredAt[e]}

\* README.md:15 and :17, "Graph projections are generated via GraphDelta logs",
\* "Everything is replayable from the ledger": whatever step of the pipeline was
\* lost, a fit ledger row ends up with a delta, past rows that fail in every
\* run, as long as these are too few to fill the limit in front of it. (From
\* Limit of them on the runs read nothing else, and e never gets its delta.)
LedgerEventGetsDelta ==
    \A e \in Events \ Unfit :
        Cardinality(InFrontForGood(e)) < Limit => (e \in ledger ~> e \in deltas)
=============================================================================
