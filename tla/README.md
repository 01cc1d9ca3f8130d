# A TLA+ verification project for Sentinel-KE

Sentinel-KE ingests cyber events from banks, telecoms and agencies into an
append-only ledger, derives campaigns and a graph from them, contains threats at
the partners, and guards intrusive actions with legal orders; agencies run an
agent of their own that sends the national hub hashed patterns and predictions.
The modules in this directory model the parts where the order of steps matters:
several processes, one Postgres database, files at the agencies, and outside
systems (Kafka, OpenSearch, Neo4j, partners' webhooks, evidence stores) that no
transaction spans. TLC checks them on small instances; TLAPS proves the most important
invariants for all values of the constants.

Contents: 1 inventory; 2 plan; 3 the modules and the code; 4 the runs; 5 bounds;
6 fairness; 7 proofs; 8 findings; 9 what is left out, and what was noticed on
the way. `PROJECT.json` has the same information by name: components, runs,
mutants, the source lines of each definition, hazards, findings and theorems.

To check a module, `tlc -config MCLegal.cfg MCLegal.tla`; to check a
proof, `tlapm LegalGrantsProofs.tla`.

## 1. Inventory

Paths are relative to `backend/app` unless they begin with another directory of
the repository.

| Component | State | Operations | Modelled by |
|---|---|---|---|
| Ingestion pipeline (`ingestion/`, `ledger/`) | `event_log`, `audit_log`, `graph_delta_log`; OpenSearch documents; messages on two topics | `ingest_event` over POST /event, POST /batch and Kafka; `backend/scripts/backfill_graph_deltas.py` | `EventLedger`, `IngestPipeline`, `DeltaBackfill` |
| Kafka ingest consumer (`streaming/ingest_consumer.py`) | group offset, position, one session per run | poll, process, commit, restart, idle timeout | `IngestConsumer` |
| Graph projection (`graph/neo4j_worker.py`, `graph/delta_store.py`) | `projection_cursor`, the Neo4j graph | read a batch after the cursor, merge a row, set the cursor | `GraphProjector` |
| Campaign engine (`campaign/`) | `campaign`, `campaign_event`, `campaign_entity` | apply an event's signals, from the pipeline and again from Kafka | `CampaignEngine` |
| Containment (`defense/`, `analytics/layer3/auto_containment_worker.py`) | `containment_action`, `incident_playbook_run`, CONTAINMENT_APPLIED events | batches of actions, rollback, automatic runs | `Containment` (block and rollback) |
| Legal orders and grants (`legal/service.py`) | `legal_order`, `legal_authorization_grant` | create, revoke, authorise, verify | `LegalGrants` |
| Legal evidence (`legal/service.py`, `legal/anchoring.py`) | bundles, anchors, certificates | export, anchor, refresh, certify | `EvidenceChain` |
| Federation hub (`api/federation.py`) | partners, patterns, warnings, acknowledgements; a rate window in each process | register, authenticate, submit, heartbeat, warn (by hand, from a correlation), inbox, acknowledge | `FederationHub`, `WarningExchange` |
| Edge sync (`sync/edge_agent.py`) | high-water mark in a file | read what is new, push it, move the mark | `PredictionSync` |
| Edge agent (`edge-agent/app/`) | one state dictionary, state file, hash index, warning cache, model file | scheduled and on-demand runs, retraining, publish, heartbeat, inbox, acknowledge | `EdgeAgent`, `WarningExchange` |
| Sessions (`auth/service.py`) | users, sessions, login log | login and lockout, refresh, logout, password change and reset, revocation, MFA | `AuthSessions` (sessions and password) |
| Prediction and training (`analytics/layer3/ai_inference_worker.py`, `gnn_train_worker.py`) | `ai_prediction`, artifacts, lineage | score, train | `PredictionSync` and `FeedbackLoop` (what they write and when) |
| Feedback loop (`layer3/feedback_worker.py`, `create_feedback` of `api/ai.py`) | `ai_feedback_label` | give, validate, retrain, consume | `FeedbackLoop` |
| Model rollouts and drift (`layer3/drift_worker.py`, `upsert_rollout` of `api/ai.py`) | `ai_model_rollout`, drift reports | upsert, roll back, select a version | `ModelRollout` |
| Inference and training consumers (`streaming/`) | message count, time of the last run, offset | count, trigger a run, commit, start again | `InferenceTrigger` |
| Claim and campaign projection (`analytics/layer3/`) | cursors, rows of `graph_delta_log` | project claims | no: the schema refuses most of what they write (section 9) |
| Event stream (`api/stream.py`) | one cursor per client | connect, poll, send, disconnect | `EventStream` |
| Economy integrity (`economy/`) | snapshots, alerts | compare, upsert an alert | no (section 9) |
| Scoring; analytics; connectors; search; read API, reports, STIX; runtime; demonstration data; frontend | | | no (section 9) |

**How they interact.** A client posts an event, or the ingest consumer takes one
from `sentinel.ingest`. `IngestionService.ingest_event` commits the ledger row,
calls `CampaignEngine.apply_signals` in the same session, commits an audit
entry, and then, with every failure swallowed, indexes the event, inserts a
delta and publishes two messages. The campaign worker reads the events topic and
applies the same event again. The projector polls `graph_delta_log` and merges
each delta into Neo4j; the mule campaign worker writes deltas too, and the claims
and campaign detection workers try to, with keys that the schema refuses (section
9). Predictions drawn from the
ledger and the graph go to the automatic containment worker, which posts blocks
to partners; analysts post blocks and rollbacks through the API; what was carried
out returns to the ledger as CONTAINMENT_APPLIED events.
Legal grants and evidence bundles are separate from that flow: requests against
rows of their own, beside two outside stores.

Inference, triggered by its consumer or a schedule, writes predictions with the
version the rollout table names; training, started by four different triggers,
writes predictions too and uses analysts' labels. The edge sync of an agency
reads those predictions and pushes them to the hub. The edge agent, a service of
its own, scores the agency's records, keeps an index from hash to entity in a
file, and publishes hashes; the hub correlates the hashes of several partners
into warnings, which agents fetch, keep in a file and acknowledge. The console
reads the ledger through the event stream.

**What is hard about it.**

* *Commits per step.* Nearly every handler commits several times. What lies
  between two commits can be lost for good: the retry of an event is answered
  "duplicate", an export that stopped is not resumed.
* *Check, then act.* Ledger rows, campaigns, rollbacks, runs of a window, grants
  and bundles are all looked for first and written later, without locks. A
  unique key decides the race in some tables (`event_log`, `graph_delta_log`,
  `legal_evidence_anchor`) and nothing does in the others.
* *Copies.* An SQLAlchemy session keeps the rows it has read until its commit
  and then writes back only the columns that differ from the copy: an update can
  undo a later one, in one column and not in the next.
* *Broken sessions.* A failed flush that is swallowed leaves the session
  unusable, so the failure comes up again somewhere else, up to several
  messages later on the Kafka path.
* *Two stores.* Neo4j and the cursor, a webhook and its row, an anchor and its
  row, the hub's batch and the agent's mark are each committed in two places.
* *Files written in place.* The agents read, change and rewrite whole files from
  several threads; a crash in the middle leaves one that is read as empty.
* *Memory that restarts.* Counts and rate windows are kept in processes that
  start again, some of them every time their topic is silent.
* *Time.* Cursors, marks and windows compare stamps that were taken before the
  commit, or by the source.

**What makes each part correct.** The ledger accepts an event once and nothing
is derived from an event it does not hold. The consumer answers each message
before its offset passes it, and the topic drains up to the first message that is
not JSON. The projector skips no
committed row and repeats few. A campaign counts what it is linked to, its
statistics are those of its rows, and one campaign per key is active. A block is
rolled back once; the automation keeps its cooldown and acts once per window. A
revoked order authorises nothing, a grant expires only when its time is over,
and is used once. Evidence bundles form one chain and a certified one is
anchored. What the edge sync's mark has passed is at the hub, once if nothing
failed; an agency can resolve every hash it published; the hub's totals count its
rows; the agency's warnings and acknowledgements are the hub's. An analyst's
correction reaches the model and is not undone, a version rolled back is not
served, the backlog of unscored events stays under the threshold, but for failed runs and
restarts on a host that has just booted. Sessions of an
old password end, and a revoked session stays so. The stream leaves out no event
it could send. How far each of these holds, and where it does not, is sections 4, 7
and 8.

## 2. Plan

Written in this order: `EventLedger` (abstract), `IngestPipeline` which
implements it, `DeltaBackfill` which composes it with the repair script,
`IngestConsumer` which composes it with a topic,
`GraphProjector`, `CampaignEngine`, `Containment`, `LegalGrants`,
`EvidenceChain`; then the services around the core: `PredictionSync`,
`EdgeAgent`, `FederationHub`, `WarningExchange` (hub and agency over their
channel), `FeedbackLoop`, `InferenceTrigger`, `AuthSessions`, `ModelRollout`,
`EventStream`. Proofs for every one of them: each safety property that a run
checks is a theorem.

What is left, in order of importance:

1. **Containment**, the rest: internal actions, deliveries and playbooks.
2. **Sessions**, the rest: the lockout counter and MFA enrolment.
3. **Claims and campaign projection**: their cursors, in the manner of
   `GraphProjector`.
4. **Economy integrity**: a snapshot against its predecessor.

What is left to prove is in section 7: the liveness properties, which the prover
does not reach, and what the code keeps when things do overlap, where the runs
show that the properties fail. Runs are kept few and long: where a new
component needed room, the less telling of two overlapping properties went.

## 3. The modules and the code

In every module a *step is what no other process can come into*: from one
commit, outside call or read on which a decision depends to the next. A failed
database call can have taken effect or not. Comments marked *Mutant* define the
altered operators that the properties are tested against; no specification uses
them.

### EventLedger, IngestPipeline, DeltaBackfill, MCIngestPipeline

`EventLedger` says what a client may rely on: rows are appended once and never
removed, "accepted" is recorded and answered at most once and after the row,
"duplicate" is said only of what is stored.

`IngestPipeline` is `IngestionService.ingest_event` with
`LedgerRepository.insert_event_append_only` and `audit`, `GraphDeltaRepository`
and the publisher. Per worker: `pc` (the next commit or call), `job` (the event),
`body` (whether nodes and edges are in hand) and `session`.

| Action | Code |
|---|---|
| `Receive`, `Reject`, `RefuseLookup` | source lookup, rate limit, normalisation, signature |
| `Check`, `Insert`, `InsertConflict`, `InsertFault` | `insert_event_append_only`: the look-up, the insert, the IntegrityError of the loser, any other error |
| `Campaign`, `CampaignFault` | `apply_signals`, not guarded by a `try` |
| `Audit`, `AuditFault` | `audit` and its commit, for both verdicts |
| `Index`, `Delta`, `ProjectionError`, `DeltaFault` | the best-effort fan-out; a failed delta insert is swallowed and breaks the session |
| `PublishEvent`, `PublishGraph`, `ReloadFault` | sends that can be lost; the reload of the expired source row that raises on a broken session |
| `AnswerAccepted`, `AnswerDuplicate` | the return |
| `Crash`, `Renew` | a worker dies; a long session ends |
| `Backfill` | the insert of the script, for an event without a delta |

`LongSession` are the workers whose session outlives an event (POST /batch, the
consumer). An event is its hash: two submissions with the same canonical content
are the same event.

`DeltaBackfill` is the whole script beside the pipeline. `StartRun` reads the
ledger rows without a delta, the oldest first and no more than `--limit`;
`FillRow` inserts a delta, `RowRefused` is a row that cannot be rebuilt or
projected, which is counted as failed and comes first again in the next run,
`RowFault` a failed insert or a run that is killed. `Unfit` are the rows that no
run can project. `Foreign` are those other services write into `event_log`
(CONTAINMENT_APPLIED, CAMPAIGN_EVENT), whose types `CanonicalEvent` does not
admit: they are always unfit and never get a delta.

### IngestConsumer, MCIngestConsumer

Extends the pipeline with a topic, the consumer's position and the group's
committed offset. `Poll` starts `ingest_event` on the next message, `Handle` is
any step of the pipeline by the consumer, `CommitOffset` comes after a success
*or* a failure as in the code, `Restart` goes back to the committed offset.
`Others` are API workers with events of their own or the same ones. A message
that is not JSON (`Malformed`) raises in the client's iterator, outside of
`process_message`: `PollRaises` ends the run, also before readable messages that
were fetched with it, and `RunAgain` is `main`, which starts the next run at the
committed offset.

### GraphProjector, MCGraphProjector

`Stamp`, `Commit`, `Abort` are a writer's insert: `created_at` is taken when the
row is flushed, the row appears when it commits. `Fetch` reads a batch after the
cursor in stamp order; `Apply` is the Neo4j transaction of one row, `SetCursor`
the commit of the cursor with that row's stamp, `Refuse` the ValueError for a row
with a label or an edge type the worker does not know (`Unmergeable`), which ends
this run and every later one at the same row, `AbortRun` an exception or crash
between or inside the others. A delta is the set of edges it merges; an edge is a
count and the set of its evidence. Nodes, labels and properties are left out.
The MC module adds a history variable, whether two projectors have overlapped
(the service loop and `backfill_graph_deltas.py --project-neo4j`).

### CampaignEngine, MCCampaignEngine

The three detectors as operators on an event's shape, and `apply_signals` in
steps: `Read` (find the active campaign of a signal's key or create one, insert
the link), `Update` (entities, counters, statistics), `CommitApply` (the columns
that changed are written back, whatever the row holds by now: `Flushed`),
`Rollback`. Each applier has a `view`, the campaigns in its session's memory, and
`since`, the time `apply_signals` reads once (`engine.py:34`) and searches by for
all the signals of an event, however long they take.
`HoldsLock` is the row lock every update takes on the campaign's own entity row.

### Containment, MCContainment, MCContainmentPosts

Handlers are requests to `execute_run_actions`: `Open`, `Block` or `Rollback`
(with the checks `Refused` that come before the post), `PostUnblock`, `Record`
(the audit commits the row and the previous action's event), `WriteEvent`,
`CloseBatch`, `Fail`. Workers are automatic runs: `StartRun`, `SelectTarget`
(cooldown, get-or-create run, dedupe within the run), `PostBlock`, `FinishRun`
(one commit for all rows), `FailRun`. A partner's answer is any of `Outcomes`;
`StatusOf` and `AutoStatusOf` are the two different mappings the code has. The
property of the cooldown is about recorded blocks; `MCContainmentPosts` adds a
history of those the partner carried out, recorded or not.

### LegalGrants, MCLegalGrants, MCLegal

One order, its grants, and calls that keep copies of what they read.
`Authorize`, `ExpireOrder`, `Evaluate`, `InsertGrant` are `authorize` with
`_evaluate`; `Verify`, `Check`, `CommitExpired`, `CommitUse`, `Answer` are
`verify_grant_token`; `Revoke` and `CommitRevoke` are `revoke_order`, which
writes the status only if its copy has another. Scope, approvals and signatures
are one Boolean, since they depend on the request alone. `late` is a history
field of a verification: the revocation was committed before it began.

### EvidenceChain, MCEvidenceChain

`Export`, `Chain`, `CommitBundle`, `Anchor`, `SaveAnchor`, `Certify` are
`export_evidence_bundle` commit by commit, `Refresh` is the forced anchoring of a
bundle, `Merged` is `merge_anchor_status`, `Conflict` the unique key on
`bundle_id`, `GiveUp` a stop after any commit. `MCLegal` runs grants or bundles in
each behaviour (`part`), since they have no row in common.

### PredictionSync

`InferWrite` stamps one row at a time, `TrainWrite` all rows of a run with one
stamp; `CommitRows` and `RollbackRows` end a run. `Fetch`, `Store`, `SaveMark` are
the agent's query, the hub's commit of the batch, and the mark after the answer;
`SaveNow` is the case without rows, where the mark becomes the present;
`FailRun` is an error, a timeout on either side of the hub's commit, or a crash.
`copies` counts the hub's rows for a prediction as it is scored now. `exempt`
are the rows the code cannot keep: written while the agent ran, cut by the limit
beside a row of the same stamp, or older than a cold start's lookback.

### EdgeAgent

`Ask` is the test of `is_running` in `POST /run`; `Begin`, `Score`, `ReadIndex`,
`WriteIndex`, `Publish`, `Fail`, `Finish` are `_run_pipeline` in the thread of the
scheduler or of a request. `Train` is `_should_retrain` and the model that cannot
be loaded, `Indexed` is `update_hash_index` with its pruning, `Crash` a restart
from the three files, one of which may be torn.

### FederationHub

One request per worker process. `Authenticate` reads the partner's row, `Submit`
writes rows, correlation inputs and the total from that copy, `Heartbeat` writes
columns that are not state here, `Refuse` is the rate limit and the other early
returns, `Evict` the sliding of a process's own window, `Correlate` a warning
from enough partners that reported one hash.

### WarningExchange

The hub's `Create`, `Inbox` and `PostAck`, and the agency's file: `FetchInbox` and
`SaveInbox` are a sync, `ReadCache` and `WriteCache` the note of an
acknowledgement, `Stop` a crash that may tear the file.

### FeedbackLoop

`GiveLabel` is `create_feedback`; `Pick`, `Validate` and `Decide` are the feedback
worker, which commits over what it read; `ReadLabels`, `CommitTraining` and
`FailTraining` are a training by whatever started it. Labels are numbered in the
order of `created_at`; `sure` are the 0s and 1s on predictions of the type that
is trained, the only labels `_latest_feedback_overrides` selects.

### InferenceTrigger

`Take`, `Trigger`, `CommitOffset` are the loop body of `inference_consumer.py`,
which `training_consumer.py` repeats around a training; `Restart` is the end of
the iterator after two silent seconds, and any crash, of the process or of the
host. `uptime` is `time.monotonic()`, which a boot of the host starts again; the
loop begins with `lastRunAt` 0.0 (`StartsAt`), so its first event starts a run only
if the host has been up for an interval.

### AuthSessions

One user. `Verify`, `Open` are `login`; `ReadRefresh`, `Refresh` are `refresh`,
whose commit writes the pair and not `revoked_at`; `ChangePassword`, `List`,
`Revoke` are a change or reset of the password with
`revoke_all_user_sessions`; `Logout`; `Drop` is a request that fails.

### ModelRollout

`FindRollout`, `WriteRollout` are `upsert_rollout`: an active row, or none, is
found first and written later. `FindDrifted`, `RollBack` are
`_auto_rollback_if_needed` in `drift_worker.run_once`. Each session writes the
columns that differ from its copy (`Changed`). `Serves` is what inference selects.

### EventStream

`Arrive` is a row of the ledger that is committed, with the source's time.
`Connect`, `PollLog`, `SendRow`, `Disconnect` are the generator of one client.

### MCOuterServices

The nine modules above share no state, so the run has one of them move in each
behaviour (`part`) and checks all their properties together. `KeepsGoing` is the
fairness of each module's own `FairSpec`, for the part that moves.

## 4. What the runs show

**ingest** (passes). Two workers, one with a long session. `AcceptedOnce`: audited and answered as accepted at most once, over retries,
crashes and ambiguous commits. `LedgerFirst`: nothing derived precedes the row.
`KnownAfterAudit`: search, Kafka and the caller hear of an event only after its
campaign update and audit. `GraphTopicMatchesDeltaLog`: a graph message with
content was logged first. `ImplementsLedger`: refinement of `EventLedger`.
`LedgerEventGetsDelta` (liveness): the backfill repairs every lost delta of a row
that can be projected, past rows that fail in every run, as long as fewer than the
limit of these stand in front of it. From the limit on the script reads nothing
else; the run has two such rows and a limit of two, one on either side of an event.

**ingest_audit_always** (violated, section 8): a stored event can stay without
its audit entry.

**ingest_consumer** (passes). `DroppedOnlyOnError`: of the messages the offset
passes, those not stored were seen to fail. `RedeliveryIsIdempotent`: a restart in the middle of an event, beside an
API worker with the same event, accepts it once. `TopicDrained` (liveness): a
broken session makes messages fail and does not hold up the topic; only a
malformed message does, those in front of it being read and committed unless the
client fetches them together with it in run after run.

**projector** (passes, one writer, two projectors, an aborted run).
`NothingSkipped`: the cursor never passes a committed row that is not in the
graph. `OneReplayPerCrash`: while projectors do not overlap, an abort repeats at
most one row. `EventuallyProjected` (liveness): every row gets into the graph
that has no row in front of it which cannot be merged.

**projector_skip** (violated, section 8): the same `NothingSkipped` with two
writers.

**campaign** (passes). For overlapping applications: `StatsAreExact`,
`EverySignalLinked`, `ApplyEnds` (lock waits end). While applications do not
overlap: `OneActivePerKey`.

**campaign_stays** (violated, section 8): `last_seen` goes back.

**containment** (passes, one request at a time and one worker). `RolledBackOnce`
over failures and repeats; `EventHasAction`: containment events are of actions
that were carried out; `RecordedCooldownKept`: two recorded automatic blocks of a
target are a cooldown apart, across windows and failed runs; `OncePerWindow`, of
rows likewise.

**containment_reblock** (violated, section 8): what `RecordedCooldownKept` says of
records does not hold of the blocks themselves.

**containment_twice** (violated, section 8): two requests roll back one block.

**legal** (passes). `NoUseAfterRevoke`: no verification begun after a
revocation succeeds, although the status can be overwritten. `ExpiryTrue`: marked
expired only after the grant's last minute. `SingleUseAlone`: while verifications
do not overlap, a single-use grant is verified once. `ChainLinearAlone`: one chain
while exports do not overlap. `CertifiedHasAnchor`: whatever stops or collides.

**outer_services** (passes). Edge sync: `PassedIsSent` (what the mark has passed
is at the hub, but for the exempt rows), `ResentOnlyAfterFailure` (a copy more
only for a run that failed), `EventuallyAtHub` (liveness). Edge agent:
`PublishedIsIndexed` (what was published within the retention can be resolved)
and `RetrainedInTime` (the model's age in runs), while runs do not overlap. Hub:
`TotalIsExact` for partners whose requests did not overlap. Warnings:
`AckRemembered` for acknowledgements without a sync beside them, and
`CacheCatchesUp` (liveness), whatever was beside them. Feedback:
`NewestLabelWins` while trainings do not overlap, `FeedbackReachesModel`
(liveness). Triggers: `BacklogBounded`, over restarts that lose the count: on a
host that has been up for an interval the loop's first event triggers, because
`last_run_at` begins at 0.0; a restart before that costs up to a threshold less
one, and a failed run a threshold. Sessions:
`OldSessionsEnd`, but for a login that verified the old password in time and was
committed late; `RevokedStays`, an action property over every overlap. Rollouts:
`RolledBackNotServed`, while no two requests made two active rows. Event stream:
`StreamIsExact`, which names what it leaves out: events that occurred before one
already sent, however recently they were stored, and those of an instant that a
full poll cut.

Properties named *Alone*, and those with `~overlapped`, `~atOnce`, `~twins`,
`shared`, `mixed`, `exempt`, `late` or `missed`, say what the code keeps outside of
the case named, over all failures, repeats and orders. In that case each of them
can fail (`StaysActive` in `campaign_stays`, for one). Where a document
promises more the stronger property is a violated run; elsewhere it is a
hazard and not a claim. The hazards in `PROJECT.json` say in their notes which
part of them the specification has and a property exempts.

Every property of a passing run has a mutant in `PROJECT.json`: an operator of
the model changed as a slip in the code would change it, under which TLC finds
that property violated.

## 5. Bounds

Each bound is a constant and guards what it bounds, so no run cuts states off
with a constraint.

| Run | Instance | Why it is enough |
|---|---|---|
| ingest | 2 events, 2 workers, 2 submissions; 2 foreign rows, limit 2 | A race needs two workers on one event, a broken session two events on one worker. Events share no state but the session. One unfit row is older than both events and one lies between them: with limit 2 a run reads the first and one event, or both unfit ones behind an event that has its delta. |
| ingest_audit_always | 1 event, 2 workers, 2 submissions | A fault and a retry. |
| ingest_consumer | topic of 2 and a malformed message, 4 submissions, 1 restart, 1 event also from the API | First delivery, redelivery, and a competitor for the same event; room is kept for the topic, so the bound does not stop the consumer. |
| projector | 3 deltas that share an edge and 1 that cannot be merged, batches of 2, 1 abort, 2 projectors | A batch that is full and one that is not, an abort on either side of the Neo4j commit. `MaxClock` 5 admits four rows, or three and a rolled-back stamp; the one that cannot be merged comes first, between or last. |
| projector_skip | 2 deltas, 2 writers | Two stamps, committed in the other order. |
| campaign | 3 events, 2 appliers, 3 applications, window 1, 3 instants | Events of one and of two signals, two types on one key, an event applied twice or late, an event leaving the window, a tick between two signals of one event. |
| campaign_stays | the same, window 2, 4 instants | An overlap and then enough time for the wrong `last_seen` to matter. |
| containment | 2 targets, 1 request, 1 worker, 2 windows, cooldown 1, 3 instants, 4 things begun | Block, rollback and repeat; a run, a failed run and the next window; at most 2 actions per run. |
| containment_reblock | 2 targets, 1 worker, 2 windows, cooldown 1, 3 instants, 2 things begun | A run that fails after a post, and the next. |
| containment_twice | 1 target, 2 requests, 5 things begun | A block and two overlapping rollbacks. |
| legal, grants | 2 callers, 4 calls, 3 instants, grants of 0 or 1 | Authorise, verify, revoke and one more, with windows that end first on either side. |
| — bundles | 2 callers, 4 calls, receipts anchored or failed | Two exports, refreshes and failures. `simulated` and `skipped` receipts come of settings and only change the merged status. |
| outer_services, sync | 1 inference row, 2 training rows, pushes of 1, lookback 1, 3 instants, 1 failure | A shared stamp cut by the limit, a commit beside a run, a cold start, a lost answer. |
| — edge | 2 threads, 1 entity, retraining every 2 runs, retention 1, 3 runs, 1 crash | A due and an undue training, an entry kept and one pruned, overlapping runs, a torn file. |
| — hub | 2 partners, 1 hash, 2 processes, 1 batch an hour, 2 rows | Overlapping requests, the limit met in one process and not in the other, a correlation. |
| — inbox | 2 syncs, 2 warnings, inbox of 1, 2 acknowledgements, 1 fault | A sync and an acknowledgement on either side of each other, a warning that falls out of the inbox. |
| — feedback | 2 entities, 1 in the window, 2 trainers, threshold 1, 2 labels, 1 failure | A label superseded, a label given during a training, two trainings. |
| — trigger | threshold 2, interval 2, clock to 3, 6 events, 2 restarts, 2 failed runs | Restarts on both sides of a threshold and of the first interval, a boot of the host, and failed runs in a row. |
| — auth | 2 sessions, 2 requests, 2 passwords, 2 pairs | A change of the password against a login, a refresh or another revocation. |
| — rollout | 2 versions, 2 rows, 2 upserts, 2 drift workers, 2 changes | A row rolled back while a request holds it, a second row after a rollback, two rows at once. |
| — stream | 3 events, polls of 1, 3 instants, 2 connections | A late event, two of one instant, a poll cut by the limit, a reconnect. |

The proofs lift the bounds for what they cover (section 7).

Symmetry: targets in `containment`, callers in `legal`; these runs have no
liveness property. Deadlock is not checked in the runs whose cfg says so, because each of them can use up its bounds and
the system behind it then rests.

## 6. Fairness

* `DeltaBackfill!BackfillFairSpec`: weak fairness of each worker's `Step`: a
  handler that was entered goes on until it returns, as the server runs it to its
  end. Faults are steps like successes; crashes, submissions and session renewals
  are not required. Weak fairness of `ScriptStep` stands for an operator who runs
  the script again and again, and strong fairness of `FillRow` for an insert that
  does not fail each time a run comes to it; refusals are not helped by it.
  `LedgerEventGetsDelta` is the promise *of the script*, the pipeline alone does
  not keep it.
* `ConsumerFairSpec`: weak fairness of the consumer's own steps together, the
  iterator's exception among them. The process is restarted by its own loop
  (`main` catches and runs again). Nothing is assumed of what the client fetches:
  `TopicDrained` says itself what a malformed message may hold up.
* `GraphProjector!FairSpec`: weak fairness of each projector. `neo4j_worker.py`
  calls `run_once` in a loop. Aborts are bounded, which is to say that such a
  failure passes; the refusal of a row that cannot be merged is not, and the rows
  behind it wait for ever.
* `CampaignEngine!FairSpec`: weak fairness of each applier: Postgres serves a
  lock queue when the lock is free. No fairness is needed of rollbacks.
* `PredictionSync!SyncFairSpec`: weak fairness of the agent's run; the container
  starts it every two minutes (`docker-compose.edge.yml:159`). Failures are
  bounded: the hub answers some day. Nothing is asked of the workers.
* `WarningExchange!InboxFairSpec`: weak fairness of the scheduled sync, which
  follows each of the scheduler's runs that succeeds (`edge-agent/app/main.py:274`,
  inside the `try`): not all of them fail. `CacheCatchesUp` is `[]<>`: the file may
  be behind at any time and is right again and again.
* `FeedbackLoop!FeedbackFairSpec`: weak fairness of the trainings other than the
  feedback worker's; the training containers loop (`docker-compose.yml:282`).
  Blocked and failed trainings are bounded. The feedback worker is not needed.
* `MCOuterServices` states these as one `WF_allVars(KeepsGoing)`, which is each
  one's fairness in the behaviours where its part moves (in `FeedbackLoop` the
  instance has one trainer beside the feedback worker).
* `Containment`, `LegalGrants`, `EvidenceChain`, and the other services state no
  liveness: nothing in the code resumes a request that stopped.

## 7. Proofs

All proofs are of the specification without fairness, `Init /\ [][Next]_vars`,
for any sets of events, workers, deltas, callers, rows, and any bounds. The
assumptions are those of the modules: bounds are natural numbers and `None` is
none of the values it stands beside.

**IngestPipelineProofs.** `TypeCorrect`; `OneOwnerAlways`, `AcceptedOnceAlways`,
`LedgerFirstAlways`, `KnownAfterAuditAlways`, `GraphTopicAlways`; `Refinement`.
None of the properties is inductive: that a second worker cannot be accepted
depends on where the first one is. `IInv` adds *OwnerProgress* (what an owner at
each stage has done, and has not done yet, such as the audit entry and the
answer), *UnstoredIsUnknown* (nothing exists of an event outside the ledger),
*DuplicateIsStored* and *BodyIsLogged*. `InvStep` goes through the actions; the
insert is the interesting one: `HashFree` and `UnstoredIsUnknown` make the new
owner the only one. For the refinement, every step of the pipeline is shown to be
a step of `EventLedger` or a stutter, from `IInv`. The second half is about
`IngestConsumer`. `ConsumerRunsPipeline`: every step of the composition is one of
the pipeline or leaves it as it is, so that what is proved of the pipeline holds
under redelivery (`RedeliveryAlwaysIdempotent`). `BackfillRunsPipeline` says the
same of the script and `BackfillTypeCorrect` that its batch is of ledger rows.
`DroppedOnlyOnErrorAlways` from
`ConsumerInv`: the event of the message in hand is the one the consumer's worker
is about, or it is over and *Settled* (stored, or seen to fail), which no crash
or later error takes back; with no message in hand the consumer stands at the
committed offset (`HandOK`).

**GraphProjectorProofs.** `ProjectorTypeCorrect`; `EvidenceIsLoggedAlways` and
`CountCoversEvidenceAlways` for any writers and projectors (`GraphInv`, with the
finiteness of each evidence set); `NothingSkippedAlways` under `SingleWriter`.
Its invariant `SkipInv`: stamps are distinct and behind the clock, the open row
of the one writer is later than every committed one (this is where the single
writer is needed), a batch holds every unprojected row between the cursor and its
last row, and what is in hand is projected and first. Projectors may overlap and
abort without limit. `OneReplayPerCrashWhileAlone`, of `MCSpec`, for any number of
writers: the count alone says nothing of what will be repeated, so `ReplayInv`
counts the *Pending* rows, those in the graph and after the cursor that no
projector has in hand. Count and pending rows together exceed the evidence by at
most the aborted runs: an abort makes one row pending, and applying a pending row
makes it one less. That the cursor only moves forward, past what is applied, rests
on batches that are ahead of it (`BatchAhead`) and on stamps that are each a row's
own (`RowsInv`).

**CampaignEngineProofs.** `CampaignTypeCorrect`, and on top of `CampInv` (a
session's copies are of campaigns that exist or that it created, and no two
sessions created the same one) three arguments. `StatsAlwaysExact`, for any
overlap: the row lock makes one session at a time the holder of a campaign, only
the holder has entities of it that are not committed, and its statistics count
the entities it sees (`StatsInv`: *OneHolder*, *HeldOK*). `SignalsAlwaysLinked`,
for any overlap: every signal a session is done with is linked to a campaign of
its key, in the tables or in what it will commit (`SignalInv`).
`OneActiveWhileAlone`, of `MCSpec`: at the time a session searches by, the
campaigns it found are within the window, and those it created had none of their
key beside them (`ActiveInv`: *SoleOK*). The property is about the present, which
may be later: what has left the window does not come back but by an application.

**ContainmentProofs.** `ContainmentTypeCorrect` (`ContainInv`: what handlers
and workers hold at each step). `EventAlwaysHasAction`, for any handlers and
workers at once: rows are only added, and an event in hand or flushed already has
its row (`EventInv`). The other three have the hypothesis under which the code
keeps them, and `containment_twice` shows that the first needs it:
`RolledBackOnceAlone` under `OneHandler` (`RollbackInv`: the block a request is
about to unblock is of its target and not yet rolled back; any number of
workers beside it); `OncePerWindowAlone` under `OneWorker` (`WindowInv`: a target
is left to do, in hand or in one row of the run, and the rows of a window are of
one run); `RecordedCooldownKeptAlone` under `OneWorker` and a cooldown that is set, since
`auto_containment_worker.py:92` switches it off at 0 (`CooldownInv`: a target that
passed the check stays cool until its row has its time, which is later). The last
two are about rows; `containment_reblock` shows what they do not say of posts.

**LegalGrantsProofs.** `LegalTypeCorrect`; `NoUseAfterRevokeAlways` from
`RevokeInv`: a revoked order is never "active" again, whatever is written over
its status (`RevokedInactive`), and a call that began late has not got past the
check (`CallsKnow`); `ExpiryTrueAlways` from `ExpiryInv`: a grant that was not
denied lies in the order's window (`Within`), so being outside of the order's
window after it began is being past the grant's end too, and copies agree with
the rows in the columns that never change (`CallsAgree`). `SingleUseWhileAlone`,
of `MCSpec`, from `SingleUseInv`: while verifications have not overlapped, the one
under way knows whether its grant is used (`KnowsUse`), every verified grant is
(`VerifiedAreUsed`), and a grant about to be answered was not verified before.

**EvidenceChainProofs.** `EvidenceTypeCorrect`; `CertifiedHasAnchorAlways` from
`AnchorComesFirst`: a call at the certificate has seen or saved an anchor row,
and no step removes one. `ChainLinearWhileAlone`, of `MCSpec`, from `ChainInv`:
while exports have not overlapped, bundles are committed in the order of their
stamps, so that the newest, which an export chains to, is the last, and the export
under way is later than all of them.

**PredictionProofs.** Of `PredictionSync`: `SyncTypeCorrect`; `PassedIsSentAlways`. The property
looks only at the mark, which moves on what the run fetched some steps earlier.
`PassInv` adds that stamps are past and open rows ahead of the mark or excused, and
*BatchCovers*: every visible row up to the batch's last one is in the batch, at
the hub or exempt (and all are, when nothing was found). `ResentOnlyAfterFailureAlways` from
`SendInv`: rows in the batch are ahead of the mark, and a row ahead of the mark
has at most a copy for each failed run, but for a batch just stored.
Of `FeedbackLoop`: `FeedbackTypeCorrect`, `NewestLabelWinsAlways` from
`NewestInv`: for each entity, neither the model nor what the training under way
has read is older than a consumed label, as long as it trains alone. Of `ModelRollout`: `RolloutTypeCorrect`,
`RolledBackNotServedAlways` from `RolloutInv`: at most one row is active, a
request that found none is the only one, and an active row's versions are not
withdrawn. What a request writes late lands in a row that is either still the
active one or no longer served.

**OuterServicesProofs.** Types of each module, and: `BacklogBoundedAlways`
(`TriggerInv`: what waits beyond a threshold for each failed run, and one less for
each early restart, is counted, or less than a threshold waits for a loop whose
first event is *Due* to start a run); `TotalIsExactAlways` (`HubInv`: a
request in hand holds the current total of a partner it has to itself);
`AckRememberedAlways` (`AckInv`: no inbox or file in some thread's hands has an
acknowledged warning as open); `PublishedIsIndexedAlways` (`IndexInv`: a run
alone has the last index in hand, and each entry is as recent as the last
publication); `StreamIsExactAlways` (`StreamInv`: rows in hand are ahead of the
mark, sent ones behind it, and up to each row in hand nothing is left out that
was not `missed`); `RetrainedInTimeAlways` (`AgeInv`: while runs do not overlap,
the model's age and the runs until the next scheduled training together stay
within the bound; an argument about remainders of the run count by the interval,
which a crash before the state is saved sets back by one). Of `AuthSessions`:
`AuthTypeCorrect`; `RevokedStaysAlways`, step by step; `OldSessionsEndAlways` from
`EndInv`: no session or request is of a password to come, and a list read after a
change holds every live session of an older password, or the session opened late.

**The inductive invariants** were model-checked on the instance of the module's
run before they were proved; `ReplayInv` also with two writers and two aborts.
The theorems of `MCSpec` speak of the history variable `overlapped`, which the MC
modules add to the specification and which no action reads.

**Only model-checked.** Liveness (`LedgerEventGetsDelta`, `TopicDrained`,
`EventuallyProjected`, `ApplyEnds`, `EventuallyAtHub`, `CacheCatchesUp`,
`FeedbackReachesModel`), which rests on fairness and ENABLED and is beyond the
prover. Every invariant and every action property of a passing run is a theorem,
with the hypotheses above: `SingleWriter`, `OneHandler`, `OneWorker` and a
cooldown, each of which the instance of its run satisfies.

## 8. Findings

Places where the code does not do what the repository says of it, each a
counterexample found by TLC.

1. **Audit entry missing for good** (`ingestion/service.py:202-216`;
   `ingest_audit_always`). Ledger row, campaign update and audit entry are three
   commits. When `apply_signals` raises, the audit commit fails or the process
   dies, the event is stored without an `ingest.accepted` entry, and a retry
   writes only `ingest.duplicate`. `docs/BACKEND_DOCUMENTATION.md:141`: "Always
   write audit entry."
2. **Deltas skipped by the projector** (`graph/delta_store.py:32`;
   `projector_skip`). A row stamped earlier and committed later than the cursor's
   row is behind the cursor and never read. `README.md:17`: "Everything is
   replayable from the ledger."
3. **A campaign drops out of its window** (`campaign/repository.py:323`;
   `campaign_stays`). Of two overlapping applications the later commit writes
   back a `last_seen` computed from its own copy. `campaign/engine.py:13`:
   "campaign stays active if seen within this window".
4. **A block rolled back twice** (`defense/service.py:800`;
   `containment_twice`). The search for an earlier rollback and the row it would
   find are separated by a webhook call. `docs/MISSION_LOOP_DEMO.md:87`:
   "duplicate rollback for same original action is rejected".
5. **A block posted again within its cooldown**
   (`analytics/layer3/auto_containment_worker.py:308`; `containment_reblock`). The
   automatic run posts target after target and commits all rows at its end, and
   the cooldown is looked up in rows: the blocks of a run that failed after a post
   are carried out again by the next. `docs/QUALITY_HARDENING_PHASE2.md:108-111`:
   "Auto-containment guardrails now enforce: [...] per-target cooldown".

## 9. Left out, and noticed on the way

Not modelled, and why:

* *Delta, anchor and pseudonym derivation, canonicalisation*: pure functions;
  what the state machines need is that equal content has an equal hash.
* *The arithmetic of prediction, training and scoring*: floating-point
  computation over a window. What it writes, and when, is in `PredictionSync`,
  `FeedbackLoop` and `ModelRollout`; `Containment` takes its outcome as any set of
  targets.
* *Economy integrity and leakage*: one writer; the comparison is arithmetic.
* *Claim and campaign projection*: the foreign key of `graph_delta_log` refuses the
  deltas of claims and of detected campaigns (see below), so none of them is ever
  committed and the claims' cursor never takes effect; the mule campaign worker
  writes a delta for an event of its own, as the writers of `GraphProjector` do.
* *Sessions*: lockout counters and intrusion blocks, MFA enrolment, scopes and
  signatures of tokens.
* *Edge agent and hub*: the heartbeat's metadata, `total_pushed` and other fields
  that are only displayed, connectors, lists and statistics. A model library
  (torch) is installed; one acknowledgement is handled at a time.
* *Consumers*: with `auto_offset_reset` "latest" a consumer that has never
  committed skips what the topic held; only handled events count in
  `BacklogBounded`. The Kafka client is external: one partition, of which it may
  fetch any number of messages ahead.
* *The backfill's filters* (`--entity-key`, `--event-type`): a run without them is
  modelled. A row's unfitness is for good, as its columns do not change.
* *Analytics and claims workers*: each rebuilds rows of a window from the ledger,
  with one writer and no protocol.
* *Connectors, demonstration data, simulator*: clients that submit events.
* *Search, read API, cases, reports, STIX, frontend*: read what is stored.
* *Runtime*: settings, metrics, migrations; request limits are kept per process.
* *Containment*: internal actions (revoking a user, resetting a password,
  disabling a source key), dry runs, deliveries and playbooks. Two automatic
  workers at once break `RecordedCooldownKept` and `OncePerWindow` too, and the run
  has one: the cooldown a document promises already fails with one
  (`containment_reblock`).
* *Evidence*: the payload and the clients of the two stores. A forced refresh can
  turn "anchored" into "failed" (it is in the model; nothing promises otherwise).

Abstractions to bear in mind: instants are numbers and `generated_at` and
`created_at` stamps are distinct, where the code has microseconds; a Neo4j
transaction is atomic and MERGE does not race with itself; a worker's heartbeat,
logging and metrics are left out.

Noticed while reading, outside of any run: `_merge_edge` takes `count` and
`first_seen` out of the properties it was given (`graph/neo4j_worker.py:78`), so
a transaction the driver retries merges the edge with the defaults; an active
campaign is looked for by key only (`campaign/repository.py:212`), so a signal of
another type joins it; an event applied again after the window has passed makes a
second campaign of the same key; a webhook that timed out is recorded as failed
although the partner may have acted; the automatic run records a target without a
webhook as "executed" (`auto_containment_worker.py:290`) where requests record
"no_integration"; an export that stopped after its commit is never certified; after a rollback for
drift the row's status is "rolled_back", so inference serves "heuristic-v1" and
not the shadow version that the rollback wrote into `active_model_version`
(`drift_worker.py:191`, `ai_inference_worker.py:206`); an event that a source
reports late is never sent on the stream, which takes `occurred_at` for the order
of arrival (`api/stream.py:149`); a dry run records its actions as "queued" and the
cooldown counts them (`auto_containment_worker.py:97`), so the first runs after dry
runs are turned off pass over the targets the last one named; the delta of a
claim has the key "claim:<id>" (`graph/claim_projection.py:88`), which the foreign
key of `graph_delta_log.event_hash` to the ledger (`graph/models.py:12`) refuses,
so `claims_worker` loses its new claims with it, and for "campaign_detect:<id>"
(`campaign_detect_worker.py:86`) `insert_delta` swallows the error and rolls the
session back, the new campaign included;
`project_claims_once` filters a query it has already limited
(`claim_projection_worker.py:35`), which SQLAlchemy refuses as soon as there is a
cursor, and nothing calls it.
