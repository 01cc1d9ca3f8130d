--------------------------- MODULE IngestPipeline ---------------------------
(***************************************************************************)
(* IngestionService.ingest_event, run by several workers (API processes,   *)
(* the Kafka ingest consumer) against one Postgres database.               *)
(*                                                                         *)
(* Every commit and every external effect of the handler is a step of its  *)
(* own, because another worker, or a crash, can come between any two:      *)
(*                                                                         *)
(*   check  -> insert -> campaign -> audit -> index -> delta -> publish    *)
(*     |                                                        -> answer  *)
(*     +-> (known hash) audit -> answer                                    *)
(*                                                                         *)
(* A database error other than the IntegrityErrors the code rolls back     *)
(* leaves the SQLAlchemy session unusable ("broken"): every later use of   *)
(* it raises. A session lives as long as one request on POST /event, as    *)
(* one batch on POST /batch and as one consumer run on the Kafka path; the *)
(* workers of LongSession keep theirs from one event to the next.          *)
(***************************************************************************)
EXTENDS Naturals, FiniteSets

CONSTANTS Events,               \* event hashes that clients submit
          Workers,              \* threads of control that run ingest_event
          LongSession,          \* workers whose session outlives an event
          MaxSubmits,           \* bound on the number of submissions
          None                  \* no event in hand

ASSUME LongSessionAssumption == LongSession \subseteq Workers
ASSUME NoneAssumption == None \notin Events
ASSUME MaxSubmitsAssumption == MaxSubmits \in Nat

VARIABLES ledger,               \* event_log (with its event_entity_index rows)
          campaigned,           \* events whose campaign update is committed
          audits,               \* audit_log rows per event and verdict
          indexed,              \* OpenSearch documents
          deltas,               \* graph_delta_log
          bus,                  \* messages on the Kafka topics
          pc, job, body,        \* per worker: next step, event, delta payload
          session,              \* per worker: "clean" or "broken"
          replies,              \* answers given per event and verdict
          submits               \* number of submissions so far

db == <<ledger, campaigned, audits, deltas>>
vars == <<ledger, campaigned, audits, indexed, deltas, bus,
          pc, job, body, session, replies, submits>>

Verdicts == {"accepted", "duplicate", "error"}
AcceptedStages == {"campaign", "auditAccepted", "index", "delta",
                   "publishEvent", "publishGraph", "answerAccepted"}
DuplicateStages == {"auditDuplicate", "answerDuplicate"}
Stages == {"idle", "check", "insert"} \cup AcceptedStages \cup DuplicateStages
Bodies == {"full", "empty"}
Messages == [topic : {"events", "graph"}, event : Events, body : Bodies]

TypeOK == /\ ledger \subseteq Events
          /\ campaigned \subseteq Events
          /\ audits \in [Events -> [Verdicts -> Nat]]
          /\ indexed \subseteq Events
          /\ deltas \subseteq Events
          /\ bus \subseteq Messages
          /\ pc \in [Workers -> Stages]
          /\ job \in [Workers -> Events \cup {None}]
          /\ body \in [Workers -> Bodies]
          /\ session \in [Workers -> {"clean", "broken"}]
          /\ replies \in [Events -> [Verdicts -> Nat]]
          /\ submits \in Nat
          /\ \A w \in Workers : pc[w] # "idle" => job[w] \in Events

Init == /\ ledger = {} /\ campaigned = {} /\ indexed = {} /\ deltas = {}
        /\ bus = {}
        /\ audits = [e \in Events |-> [v \in Verdicts |-> 0]]
        /\ replies = [e \in Events |-> [v \in Verdicts |-> 0]]
        /\ pc = [w \in Workers |-> "idle"]
        /\ job = [w \in Workers |-> None]
        /\ body = [w \in Workers |-> "full"]
        /\ session = [w \in Workers |-> "clean"]
        /\ submits = 0

-----------------------------------------------------------------------------
(* Ways out of the handler.                                                *)

Goto(w, stage) == pc' = [pc EXCEPT ![w] = stage]

\* The session a worker uses for its next event.
SessionAfter(w, left) ==
    session' = [session EXCEPT ![w] = IF w \in LongSession THEN left ELSE "clean"]

\* The call ends and the caller is given an answer about event e.
Finish(w, e, verdict, left) ==
    /\ replies' = [replies EXCEPT ![e][verdict] = @ + 1]
    /\ Goto(w, "idle")
    /\ job' = [job EXCEPT ![w] = None]
    /\ body' = [body EXCEPT ![w] = "full"]
    /\ SessionAfter(w, left)

\* An exception leaves ingest_event with the session unusable.
Raise(w) == Finish(w, job[w], "error", "broken")

Stay(w) == UNCHANGED <<job, body, session, replies, submits>>

-----------------------------------------------------------------------------
(* Steps 1-6: source lookup, limits, normalisation, signature. Nothing is  *)
(* written, so they are one step that passes or raises.                    *)

CanSubmit(w) == pc[w] = "idle" /\ submits < MaxSubmits

Receive(w, e) ==
    /\ CanSubmit(w)
    /\ session[w] = "clean"
    /\ submits' = submits + 1
    /\ Goto(w, "check")
    /\ job' = [job EXCEPT ![w] = e]
    /\ UNCHANGED <<db, indexed, bus, body, session, replies>>

\* Unknown key, disabled source, rate limit, invalid event or signature: the
\* error is raised before anything is written and leaves the session usable.
Reject(w, e) ==
    /\ CanSubmit(w)
    /\ session[w] = "clean"
    /\ submits' = submits + 1
    /\ Finish(w, e, "error", "clean")
    /\ UNCHANGED <<db, indexed, bus>>

\* The source lookup itself raises: the database is unreachable, or an earlier
\* event of the same batch or consumer run has broken the session.
RefuseLookup(w, e) ==
    /\ CanSubmit(w)
    /\ submits' = submits + 1
    /\ Finish(w, e, "error", "broken")
    /\ UNCHANGED <<db, indexed, bus>>

-----------------------------------------------------------------------------
(* Step 7: insert_event_append_only.                                       *)

Known(e) == e \in ledger

Check(w) ==
    /\ pc[w] = "check"
    /\ Goto(w, IF Known(job[w]) THEN "auditDuplicate" ELSE "insert")
    /\ Stay(w)
    /\ UNCHANGED <<db, indexed, bus>>

\* Mutant: event_log without its primary key.
NoPrimaryKey(e) == TRUE

\* event_hash is the primary key: a second insert of it raises IntegrityError.
HashFree(e) == e \notin ledger

Insert(w) ==
    /\ pc[w] = "insert"
    /\ HashFree(job[w])
    /\ ledger' = ledger \cup {job[w]}
    /\ Goto(w, "campaign")
    /\ Stay(w)
    /\ UNCHANGED <<campaigned, audits, indexed, deltas, bus>>

\* The loser of a race between two checks: rolled back, raised as RuntimeError.
InsertConflict(w) ==
    /\ pc[w] = "insert"
    /\ ~HashFree(job[w])
    /\ Finish(w, job[w], "error", "clean")
    /\ UNCHANGED <<db, indexed, bus, submits>>

\* The lookup or the insert fails otherwise; a commit whose acknowledgement is
\* lost may have stored the row all the same.
InsertFault(w) ==
    /\ pc[w] \in {"check", "insert"}
    /\ \/ UNCHANGED ledger
       \/ /\ pc[w] = "insert" /\ HashFree(job[w])
          /\ ledger' = ledger \cup {job[w]}
    /\ Raise(w)
    /\ UNCHANGED <<campaigned, audits, indexed, deltas, bus, submits>>

-----------------------------------------------------------------------------
(* Synchronous campaign update: no try block around it.                    *)

Campaign(w) ==
    /\ pc[w] = "campaign"
    /\ campaigned' = campaigned \cup {job[w]}
    /\ Goto(w, "auditAccepted")
    /\ Stay(w)
    /\ UNCHANGED <<ledger, audits, indexed, deltas, bus>>

\* Mutant: the campaign update is best-effort, like the fan-out.
CampaignFaultSwallowed(w) ==
    /\ pc[w] = "campaign"
    /\ Goto(w, "auditAccepted")
    /\ Stay(w)
    /\ UNCHANGED <<db, indexed, bus>>

CampaignFault(w) ==
    /\ pc[w] = "campaign"
    /\ campaigned' \in {campaigned, campaigned \cup {job[w]}}
    /\ Raise(w)
    /\ UNCHANGED <<ledger, audits, indexed, deltas, bus, submits>>

-----------------------------------------------------------------------------
(* Step 8: the audit entry, ingest.accepted or ingest.duplicate.           *)

AuditStage == [accepted |-> "auditAccepted", duplicate |-> "auditDuplicate"]
AfterAudit == [accepted |-> "index", duplicate |-> "answerDuplicate"]

AddAudit(e, v) == audits' = [audits EXCEPT ![e][v] = @ + 1]

Audit(w) == \E v \in {"accepted", "duplicate"} :
    /\ pc[w] = AuditStage[v]
    /\ AddAudit(job[w], v)
    /\ Goto(w, AfterAudit[v])
    /\ Stay(w)
    /\ UNCHANGED <<ledger, campaigned, indexed, deltas, bus>>

AuditFault(w) == \E v \in {"accepted", "duplicate"} :
    /\ pc[w] = AuditStage[v]
    /\ UNCHANGED audits \/ AddAudit(job[w], v)
    /\ Raise(w)
    /\ UNCHANGED <<ledger, campaigned, indexed, deltas, bus, submits>>

-----------------------------------------------------------------------------
(* Steps 9-11: best-effort fan-out of an accepted event.                   *)

\* The document may not be stored: OpenSearch is disabled, down, or refuses.
Index(w) ==
    /\ pc[w] = "index"
    /\ indexed' \in {indexed, indexed \cup {job[w]}}
    /\ Goto(w, "delta")
    /\ Stay(w)
    /\ UNCHANGED <<db, bus>>

\* event_hash is the primary key of graph_delta_log too; the IntegrityError of
\* a row that exists already is rolled back and forgotten.
Delta(w) ==
    /\ pc[w] = "delta"
    /\ deltas' = deltas \cup {job[w]}
    /\ Goto(w, "publishEvent")
    /\ Stay(w)
    /\ UNCHANGED <<ledger, campaigned, audits, indexed, bus>>

\* Mutant: nodes and edges are not reset after a failure.
ProjectionErrorKeepsBody(w) ==
    /\ pc[w] = "delta"
    /\ Goto(w, "publishEvent")
    /\ Stay(w)
    /\ UNCHANGED <<db, indexed, bus>>

\* The projection of the event raises: logged, and the message goes out bare.
ProjectionError(w) ==
    /\ pc[w] = "delta"
    /\ Goto(w, "publishEvent")
    /\ body' = [body EXCEPT ![w] = "empty"]
    /\ UNCHANGED <<db, indexed, bus, job, session, replies, submits>>

\* The insert of the delta fails, perhaps after it took effect, and is swallowed.
\* The session is broken from here on: the handler can only go on as far as the
\* source row it loaded before lasts (see ReloadFault).
DeltaFault(w) ==
    /\ pc[w] = "delta"
    /\ deltas' \in {deltas, deltas \cup {job[w]}}
    /\ Goto(w, "publishEvent")
    /\ body' = [body EXCEPT ![w] = "empty"]
    /\ session' = [session EXCEPT ![w] = "broken"]
    /\ UNCHANGED <<ledger, campaigned, audits, indexed, bus, job, replies, submits>>

\* send() is asynchronous and its errors are logged: a message may be lost.
Publish(w, topic, payload, next) ==
    /\ bus' \in {bus, bus \cup {[topic |-> topic, event |-> job[w], body |-> payload]}}
    /\ Goto(w, next)
    /\ Stay(w)
    /\ UNCHANGED <<db, indexed>>

PublishEvent(w) == /\ pc[w] = "publishEvent"
                   /\ Publish(w, "events", "full", "publishGraph")

PublishGraph(w) == /\ pc[w] = "publishGraph"
                   /\ Publish(w, "graph", body[w], "answerAccepted")

AnswerAccepted(w) == /\ pc[w] = "answerAccepted"
                     /\ Finish(w, job[w], "accepted", session[w])
                     /\ UNCHANGED <<db, indexed, bus, submits>>

AnswerDuplicate(w) == /\ pc[w] = "answerDuplicate"
                      /\ Finish(w, job[w], "duplicate", session[w])
                      /\ UNCHANGED <<db, indexed, bus, submits>>

\* Each commit expires the source row, and both the Kafka block and the answer
\* read it again. A failed reload is swallowed by the former (nothing is
\* published) and raised by the latter.
ReloadFault(w) ==
    /\ pc[w] \in {"publishEvent", "answerDuplicate"}
    /\ Raise(w)
    /\ UNCHANGED <<db, indexed, bus, submits>>

-----------------------------------------------------------------------------
(* The worker process dies; a new one starts with a new session.           *)
Crash(w) ==
    /\ pc[w] # "idle"
    /\ Goto(w, "idle")
    /\ job' = [job EXCEPT ![w] = None]
    /\ body' = [body EXCEPT ![w] = "full"]
    /\ session' = [session EXCEPT ![w] = "clean"]
    /\ UNCHANGED <<db, indexed, bus, replies, submits>>

(* A batch or a consumer run ends: its session is closed.                  *)
Renew(w) ==
    /\ pc[w] = "idle" /\ session[w] = "broken"
    /\ session' = [session EXCEPT ![w] = "clean"]
    /\ UNCHANGED <<db, indexed, bus, pc, job, body, replies, submits>>

\* Mutant: deltas for events the ledger lacks.
MissingAnyDelta(e) == e \notin deltas

(* scripts/backfill_graph_deltas.py commits the delta of an event that has *)
(* none, from its ledger row. Which rows a run comes to, and what becomes  *)
(* of those that fail, is the matter of DeltaBackfill.                     *)
Missing(e) == e \in ledger /\ e \notin deltas

Backfill(e) ==
    /\ Missing(e)
    /\ deltas' = deltas \cup {e}
    /\ UNCHANGED <<ledger, campaigned, audits, indexed, bus,
                   pc, job, body, session, replies, submits>>

-----------------------------------------------------------------------------
Submission(w) == \E e \in Events : Receive(w, e) \/ Reject(w, e) \/ RefuseLookup(w, e)

Progress(w) == \/ Check(w) \/ Insert(w) \/ InsertConflict(w)
               \/ Campaign(w) \/ Audit(w)
               \/ Index(w) \/ Delta(w) \/ ProjectionError(w)
               \/ PublishEvent(w) \/ PublishGraph(w)
               \/ AnswerAccepted(w) \/ AnswerDuplicate(w)

Fault(w) == \/ InsertFault(w) \/ CampaignFault(w) \/ AuditFault(w)
            \/ DeltaFault(w) \/ ReloadFault(w)

Step(w) == Progress(w) \/ Fault(w)

Next == \/ \E w \in Workers : Submission(w) \/ Step(w) \/ Crash(w) \/ Renew(w)
        \/ \E e \in Events : Backfill(e)

Spec == Init /\ [][Next]_vars

-----------------------------------------------------------------------------
(* Correctness.                                                            *)

\* Worker w is the one that got "accepted" for event e and still handles it.
Owner(w, e) == job[w] = e /\ pc[w] \in AcceptedStages

\* At most one worker ever carries an event past its ledger insert, however
\* many submit it at the same time: the check of insert_event_append_only is
\* not atomic with its insert, only the primary key decides.
OneOwner == \A e \in Events : \A v, w \in Workers :
                Owner(v, e) /\ Owner(w, e) => v = w

\* An event is audited as accepted at most once and answered "accepted" at
\* most once, over all retries, crashes and ambiguous commits.
AcceptedOnce == \A e \in Events : audits[e]["accepted"] <= 1
                                  /\ replies[e]["accepted"] <= 1

\* The ledger is the source of truth: a campaign update, a search document, a
\* delta, a message or a "duplicate" verdict never precedes the ledger row.
LedgerFirst == /\ campaigned \cup indexed \cup deltas \subseteq ledger
               /\ \A m \in bus : m.event \in ledger
               /\ \A e \in Events : audits[e]["duplicate"] > 0 => e \in ledger

\* Nobody outside the service learns of an event as accepted (by search, by
\* Kafka, by the answer) before its campaign update and its audit entry.
KnownAfterAudit ==
    \A e \in Events :
        (\/ e \in indexed
         \/ \E m \in bus : m.event = e
         \/ replies[e]["accepted"] > 0)
        => e \in campaigned /\ audits[e]["accepted"] = 1

\* A graph message that carries nodes and edges was logged first: a consumer
\* of the graph topic never sees a projection the delta log does not hold.
GraphTopicMatchesDeltaLog ==
    \A m \in bus : m.topic = "graph" /\ m.body = "full" => m.event \in deltas

\* service.py:209, "Audit (always)", and BACKEND_DOCUMENTATION.md:141, "Always
\* write audit entry": a stored event that no worker is handling any more has
\* its ingest.accepted entry. The code does not keep this.
AuditAlways == \A e \in ledger :
                   (\A w \in Workers : ~Owner(w, e)) => audits[e]["accepted"] = 1

\* The pipeline implements the abstract ledger.
Abstract == INSTANCE EventLedger WITH rows <- ledger, trail <- audits,
                                      answers <- replies
ImplementsLedger == Abstract!Spec
=============================================================================
