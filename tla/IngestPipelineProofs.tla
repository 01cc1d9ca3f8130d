------------------------ MODULE IngestPipelineProofs ------------------------
(***************************************************************************)
(* Proofs about IngestPipeline, for any events, workers and bounds: its    *)
(* type invariant, its safety invariants, and that it implements the       *)
(* abstract EventLedger; about IngestConsumer, for any topic, and about    *)
(* DeltaBackfill, for any rows of other services.                          *)
(***************************************************************************)
EXTENDS IngestConsumer, DeltaBackfill, TLAPS

USE LongSessionAssumption, NoneAssumption, MaxSubmitsAssumption

-----------------------------------------------------------------------------
(* Types.                                                                  *)

LEMMA TypeInit == Init => TypeOK
BY DEF Init, TypeOK, Stages, Bodies, Verdicts

LEMMA TypeStep == TypeOK /\ [Next]_vars => TypeOK'
<1> SUFFICES ASSUME TypeOK, [Next]_vars PROVE TypeOK'
  OBVIOUS
<1> USE DEF TypeOK, Stages, Bodies, Verdicts, AcceptedStages, DuplicateStages,
            db, Stay, Goto, Finish, Raise, SessionAfter
<1>1. ASSUME NEW w \in Workers, NEW e \in Events, Receive(w, e) PROVE TypeOK'
  BY <1>1 DEF Receive, CanSubmit
<1>2. ASSUME NEW w \in Workers, NEW e \in Events, Reject(w, e) PROVE TypeOK'
  BY <1>2 DEF Reject, CanSubmit
<1>3. ASSUME NEW w \in Workers, NEW e \in Events, RefuseLookup(w, e) PROVE TypeOK'
  BY <1>3 DEF RefuseLookup, CanSubmit
<1>4. ASSUME NEW w \in Workers, Check(w) PROVE TypeOK'
  BY <1>4 DEF Check
<1>5. ASSUME NEW w \in Workers, Insert(w) PROVE TypeOK'
  BY <1>5 DEF Insert
<1>6. ASSUME NEW w \in Workers, InsertConflict(w) PROVE TypeOK'
  BY <1>6 DEF InsertConflict
<1>7. ASSUME NEW w \in Workers, InsertFault(w) PROVE TypeOK'
  BY <1>7 DEF InsertFault
<1>8. ASSUME NEW w \in Workers, Campaign(w) PROVE TypeOK'
  BY <1>8 DEF Campaign
<1>9. ASSUME NEW w \in Workers, CampaignFault(w) PROVE TypeOK'
  BY <1>9 DEF CampaignFault
<1>10. ASSUME NEW w \in Workers, Audit(w) PROVE TypeOK'
  BY <1>10 DEF Audit, AuditStage, AfterAudit, AddAudit
<1>11. ASSUME NEW w \in Workers, AuditFault(w) PROVE TypeOK'
  <2>1. PICK v \in {"accepted", "duplicate"} :
           /\ pc[w] = AuditStage[v]
           /\ UNCHANGED audits \/ AddAudit(job[w], v)
           /\ Raise(w)
           /\ UNCHANGED <<ledger, campaigned, indexed, deltas, bus, submits>>
    BY <1>11 DEF AuditFault
  <2>2. job[w] \in Events
    BY <2>1 DEF AuditStage
  <2>3. audits' \in [Events -> [Verdicts -> Nat]]
    BY <2>1, <2>2 DEF AddAudit
  <2>4. Raise(w) /\ UNCHANGED <<ledger, campaigned, indexed, deltas, bus, submits>>
    BY <2>1
  <2>5. QED
    BY <2>2, <2>3, <2>4
<1>12. ASSUME NEW w \in Workers, Index(w) PROVE TypeOK'
  BY <1>12 DEF Index
<1>13. ASSUME NEW w \in Workers, Delta(w) PROVE TypeOK'
  BY <1>13 DEF Delta
<1>14. ASSUME NEW w \in Workers, ProjectionError(w) PROVE TypeOK'
  BY <1>14 DEF ProjectionError
<1>15. ASSUME NEW w \in Workers, DeltaFault(w) PROVE TypeOK'
  BY <1>15 DEF DeltaFault
<1>16. ASSUME NEW w \in Workers, PublishEvent(w) PROVE TypeOK'
  BY <1>16 DEF PublishEvent, Publish, Messages
<1>17. ASSUME NEW w \in Workers, PublishGraph(w) PROVE TypeOK'
  BY <1>17 DEF PublishGraph, Publish, Messages
<1>18. ASSUME NEW w \in Workers, AnswerAccepted(w) PROVE TypeOK'
  BY <1>18 DEF AnswerAccepted
<1>19. ASSUME NEW w \in Workers, AnswerDuplicate(w) PROVE TypeOK'
  BY <1>19 DEF AnswerDuplicate
<1>20. ASSUME NEW w \in Workers, ReloadFault(w) PROVE TypeOK'
  BY <1>20 DEF ReloadFault
<1>21. ASSUME NEW w \in Workers, Crash(w) PROVE TypeOK'
  BY <1>21 DEF Crash
<1>22. ASSUME NEW w \in Workers, Renew(w) PROVE TypeOK'
  BY <1>22 DEF Renew
<1>23. ASSUME NEW e \in Events, Backfill(e) PROVE TypeOK'
  BY <1>23 DEF Backfill
<1>24. ASSUME UNCHANGED vars PROVE TypeOK'
  BY <1>24 DEF vars
<1>25. QED
  BY <1>1, <1>2, <1>3, <1>4, <1>5, <1>6, <1>7, <1>8, <1>9, <1>10, <1>11, <1>12,
     <1>13, <1>14, <1>15, <1>16, <1>17, <1>18, <1>19, <1>20, <1>21, <1>22, <1>23,
     <1>24
  DEF Next, Submission, Step, Progress, Fault

\* Every variable of the pipeline keeps its type; a busy worker has an event.
THEOREM TypeCorrect == Spec => []TypeOK
<1>1. QED
  BY TypeInit, TypeStep, PTL DEF Spec

-----------------------------------------------------------------------------
(* The inductive invariant. OneOwner alone is not inductive: that a second *)
(* owner cannot appear rests on an owner's event being in the ledger, and  *)
(* that it audits and answers once on what it has not done yet.            *)

\* What an owner has done so far, and what it has yet to do.
OwnerProgress ==
    \A w \in Workers, e \in Events : Owner(w, e) =>
        /\ e \in ledger
        /\ replies[e]["accepted"] = 0
        /\ pc[w] \in {"campaign", "auditAccepted"} => audits[e]["accepted"] = 0
        /\ pc[w] # "campaign" => e \in campaigned
        /\ pc[w] \notin {"campaign", "auditAccepted"} => audits[e]["accepted"] = 1

\* Nothing is known of an event that is not in the ledger.
UnstoredIsUnknown ==
    \A e \in Events : e \notin ledger =>
        /\ e \notin campaigned /\ e \notin indexed /\ e \notin deltas
        /\ \A m \in bus : m.event # e
        /\ audits[e]["accepted"] = 0 /\ audits[e]["duplicate"] = 0
        /\ replies[e]["accepted"] = 0

\* A worker that goes on with a duplicate found its event in the ledger, and
\* says so after the audit entry.
DuplicateIsStored ==
    \A w \in Workers :
        /\ pc[w] \in DuplicateStages => job[w] \in ledger
        /\ pc[w] = "answerDuplicate" => audits[job[w]]["duplicate"] > 0

\* A delta that is about to be published with its content is in the log.
BodyIsLogged ==
    \A w \in Workers : pc[w] \in {"publishEvent", "publishGraph"} /\ body[w] = "full"
                       => job[w] \in deltas

IInv == /\ TypeOK
        /\ OneOwner /\ OwnerProgress /\ UnstoredIsUnknown /\ DuplicateIsStored
        /\ BodyIsLogged
        /\ AcceptedOnce /\ LedgerFirst /\ KnownAfterAudit /\ GraphTopicMatchesDeltaLog

LEMMA InvInit == Init => IInv
BY TypeInit DEF Init, IInv, OneOwner, OwnerProgress, UnstoredIsUnknown,
   DuplicateIsStored, BodyIsLogged, AcceptedOnce, LedgerFirst, KnownAfterAudit,
   GraphTopicMatchesDeltaLog, Owner, AcceptedStages, DuplicateStages, Verdicts


\* The invariant's definitions, to be opened at every leaf below.
LEMMA InvStep == IInv /\ [Next]_vars => IInv'
<1> SUFFICES ASSUME IInv, [Next]_vars PROVE IInv'
  OBVIOUS
<1>0. TypeOK /\ TypeOK'
  BY TypeStep DEF IInv
<1> USE <1>0 DEF TypeOK, OneOwner, OwnerProgress, UnstoredIsUnknown, DuplicateIsStored,
            BodyIsLogged, AcceptedOnce, LedgerFirst, KnownAfterAudit,
            GraphTopicMatchesDeltaLog, Owner, AcceptedStages, DuplicateStages, Verdicts,
            db, Stay, Goto, Finish, Raise, SessionAfter
<1>1. ASSUME NEW w \in Workers, NEW e \in Events, Receive(w, e) PROVE IInv'
  BY <1>1 DEF Receive, CanSubmit, IInv
<1>2. ASSUME NEW w \in Workers, NEW e \in Events, Reject(w, e) PROVE IInv'
  BY <1>2 DEF Reject, CanSubmit, IInv
<1>3. ASSUME NEW w \in Workers, NEW e \in Events, RefuseLookup(w, e) PROVE IInv'
  BY <1>3 DEF RefuseLookup, CanSubmit, IInv
<1>4. ASSUME NEW w \in Workers, Check(w) PROVE IInv'
  BY <1>4 DEF Check, Known, IInv
<1>5. ASSUME NEW w \in Workers, Insert(w) PROVE IInv'
  BY <1>5 DEF Insert, HashFree, IInv
<1>6. ASSUME NEW w \in Workers, InsertConflict(w) PROVE IInv'
  BY <1>6 DEF InsertConflict, IInv
<1>7. ASSUME NEW w \in Workers, InsertFault(w) PROVE IInv'
  BY <1>7 DEF InsertFault, HashFree, IInv
<1>8. ASSUME NEW w \in Workers, Campaign(w) PROVE IInv'
  BY <1>8 DEF Campaign, IInv
<1>9. ASSUME NEW w \in Workers, CampaignFault(w) PROVE IInv'
  BY <1>9 DEF CampaignFault, IInv
<1>10. ASSUME NEW w \in Workers, Audit(w) PROVE IInv'
  BY <1>10 DEF Audit, AuditStage, AfterAudit, AddAudit, IInv
<1>11. ASSUME NEW w \in Workers, AuditFault(w) PROVE IInv'
  <2>1. PICK v \in {"accepted", "duplicate"} :
           /\ pc[w] = AuditStage[v]
           /\ UNCHANGED audits \/ AddAudit(job[w], v)
           /\ Raise(w)
           /\ UNCHANGED <<ledger, campaigned, indexed, deltas, bus, submits>>
    BY <1>11 DEF AuditFault
  <2>2. CASE UNCHANGED audits
    BY <2>1, <2>2 DEF IInv
  <2>3. CASE AddAudit(job[w], v)
    BY <2>1, <2>3 DEF AuditStage, AddAudit, IInv
  <2>4. QED
    BY <2>1, <2>2, <2>3
<1>12. ASSUME NEW w \in Workers, Index(w) PROVE IInv'
  BY <1>12 DEF Index, IInv
<1>13. ASSUME NEW w \in Workers, Delta(w) PROVE IInv'
  BY <1>13 DEF Delta, IInv
<1>14. ASSUME NEW w \in Workers, ProjectionError(w) PROVE IInv'
  BY <1>14 DEF ProjectionError, IInv
<1>15. ASSUME NEW w \in Workers, DeltaFault(w) PROVE IInv'
  BY <1>15 DEF DeltaFault, IInv
<1>16. ASSUME NEW w \in Workers, PublishEvent(w) PROVE IInv'
  BY <1>16 DEF PublishEvent, Publish, IInv
<1>17. ASSUME NEW w \in Workers, PublishGraph(w) PROVE IInv'
  BY <1>17 DEF PublishGraph, Publish, IInv
<1>18. ASSUME NEW w \in Workers, AnswerAccepted(w) PROVE IInv'
  BY <1>18, SMTT(30) DEF AnswerAccepted, IInv
<1>19. ASSUME NEW w \in Workers, AnswerDuplicate(w) PROVE IInv'
  BY <1>19 DEF AnswerDuplicate, IInv
<1>20. ASSUME NEW w \in Workers, ReloadFault(w) PROVE IInv'
  BY <1>20 DEF ReloadFault, IInv
<1>21. ASSUME NEW w \in Workers, Crash(w) PROVE IInv'
  BY <1>21 DEF Crash, IInv
<1>22. ASSUME NEW w \in Workers, Renew(w) PROVE IInv'
  BY <1>22 DEF Renew, IInv
<1>23. ASSUME NEW e \in Events, Backfill(e) PROVE IInv'
  BY <1>23 DEF Backfill, Missing, IInv
<1>24. ASSUME UNCHANGED vars PROVE IInv'
  BY <1>24 DEF vars, IInv
<1>25. QED
  BY <1>1, <1>2, <1>3, <1>4, <1>5, <1>6, <1>7, <1>8, <1>9, <1>10, <1>11, <1>12,
     <1>13, <1>14, <1>15, <1>16, <1>17, <1>18, <1>19, <1>20, <1>21, <1>22, <1>23,
     <1>24
  DEF Next, Submission, Step, Progress, Fault

THEOREM Invariance == Spec => []IInv
<1>1. QED
  BY InvInit, InvStep, PTL DEF Spec

\* Only one worker handles an event past its insert, whatever the number of
\* workers and submissions.
THEOREM OneOwnerAlways == Spec => []OneOwner
<1>1. IInv => OneOwner
  BY DEF IInv
<1>2. QED
  BY <1>1, Invariance, PTL

\* An event is audited and answered as accepted at most once.
THEOREM AcceptedOnceAlways == Spec => []AcceptedOnce
<1>1. IInv => AcceptedOnce
  BY DEF IInv
<1>2. QED
  BY <1>1, Invariance, PTL

\* Nothing is derived from an event that is not in the ledger.
THEOREM LedgerFirstAlways == Spec => []LedgerFirst
<1>1. IInv => LedgerFirst
  BY DEF IInv
<1>2. QED
  BY <1>1, Invariance, PTL

\* Search, Kafka and the caller know an accepted event only after its audit.
THEOREM KnownAfterAuditAlways == Spec => []KnownAfterAudit
<1>1. IInv => KnownAfterAudit
  BY DEF IInv
<1>2. QED
  BY <1>1, Invariance, PTL

\* Graph messages with content agree with the delta log.
THEOREM GraphTopicAlways == Spec => []GraphTopicMatchesDeltaLog
<1>1. IInv => GraphTopicMatchesDeltaLog
  BY DEF IInv
<1>2. QED
  BY <1>1, Invariance, PTL

-----------------------------------------------------------------------------
(* Refinement: each step of the pipeline is a step of the abstract ledger  *)
(* or leaves its variables alone.                                          *)

LEMMA RefineInit == Init => Abstract!Init
BY DEF Init, Abstract!Init, Verdicts, Abstract!Verdicts

LEMMA RefineStep == IInv /\ [Next]_vars => [Abstract!Next]_(Abstract!vars)
<1> SUFFICES ASSUME IInv, [Next]_vars PROVE [Abstract!Next]_(Abstract!vars)
  OBVIOUS
<1> USE DEF IInv, TypeOK, Owner, AcceptedStages, DuplicateStages, Stages,
            db, Stay, Goto, Finish, Raise, Verdicts
<1> DEFINE Goal == [Abstract!Next]_(Abstract!vars)
<1>a. ASSUME NEW e \in Events, Abstract!Append(e) \/ Abstract!AppendAndFail(e)
      PROVE Goal
  BY <1>a DEF Abstract!Next
<1>b. ASSUME NEW e \in Events, NEW v \in Verdicts,
             Abstract!Record(e, v) \/ Abstract!RecordAndFail(e, v) \/ Abstract!Answer(e, v)
      PROVE Goal
  BY <1>b DEF Abstract!Next, Abstract!Verdicts
<1>c. ASSUME UNCHANGED <<ledger, audits, replies>> PROVE Goal
  BY <1>c DEF Abstract!vars
<1>d. ASSUME NEW e \in Events, UNCHANGED <<ledger, audits>>,
             replies' = [replies EXCEPT ![e]["error"] = @ + 1] PROVE Goal
  <2>1. Abstract!Answer(e, "error")
    BY <1>d DEF Abstract!Answer, Abstract!AnswerAllowed
  <2>2. QED
    BY <2>1, <1>b
<1> HIDE DEF Goal
<1>1. ASSUME NEW w \in Workers, NEW e \in Events, Submission(w) PROVE Goal
  BY <1>1, <1>c, <1>d DEF Submission, Receive, Reject, RefuseLookup
<1>4. ASSUME NEW w \in Workers, Check(w) \/ Campaign(w) \/ Index(w) \/ Delta(w)
                                \/ ProjectionError(w) \/ DeltaFault(w) PROVE Goal
  BY <1>4, <1>c DEF Check, Campaign, Index, Delta, ProjectionError, DeltaFault
<1>5. ASSUME NEW w \in Workers, Insert(w) PROVE Goal
  BY <1>5, <1>a DEF Insert, HashFree, Abstract!Append
<1>6. ASSUME NEW w \in Workers, InsertConflict(w) \/ CampaignFault(w) \/ ReloadFault(w)
      PROVE Goal
  BY <1>6, <1>d DEF InsertConflict, CampaignFault, ReloadFault
<1>7. ASSUME NEW w \in Workers, InsertFault(w) PROVE Goal
  <2>1. CASE UNCHANGED ledger
    BY <1>7, <2>1, <1>d DEF InsertFault
  <2>2. CASE ~UNCHANGED ledger
    BY <1>7, <2>2, <1>a DEF InsertFault, HashFree, Abstract!AppendAndFail
  <2>3. QED
    BY <2>1, <2>2
<1>10. ASSUME NEW w \in Workers, Audit(w) PROVE Goal
  <2>1. PICK v \in {"accepted", "duplicate"} :
           /\ pc[w] = AuditStage[v]
           /\ AddAudit(job[w], v)
           /\ UNCHANGED <<ledger, replies>>
    BY <1>10 DEF Audit
  <2>2. Abstract!Record(job[w], v)
    BY <2>1 DEF AuditStage, AddAudit, Abstract!Record, OwnerProgress, DuplicateIsStored
  <2>3. QED
    BY <2>1, <2>2, <1>b DEF AuditStage
<1>11. ASSUME NEW w \in Workers, AuditFault(w) PROVE Goal
  <2>1. PICK v \in {"accepted", "duplicate"} :
           /\ pc[w] = AuditStage[v]
           /\ UNCHANGED audits \/ AddAudit(job[w], v)
           /\ replies' = [replies EXCEPT ![job[w]]["error"] = @ + 1]
           /\ UNCHANGED ledger
    BY <1>11 DEF AuditFault
  <2>2. job[w] \in Events
    BY <2>1 DEF AuditStage
  <2>3. CASE UNCHANGED audits
    BY <2>1, <2>2, <2>3, <1>d
  <2>4. CASE AddAudit(job[w], v)
    <3>1. Abstract!RecordAndFail(job[w], v)
      BY <2>1, <2>4 DEF AuditStage, AddAudit, Abstract!RecordAndFail, OwnerProgress,
                        DuplicateIsStored
    <3>2. QED
      BY <2>2, <3>1, <1>b
  <2>5. QED
    BY <2>1, <2>3, <2>4
<1>16. ASSUME NEW w \in Workers, PublishEvent(w) \/ PublishGraph(w) PROVE Goal
  BY <1>16, <1>c DEF PublishEvent, PublishGraph, Publish
<1>18. ASSUME NEW w \in Workers, AnswerAccepted(w) PROVE Goal
  <2>1. Abstract!Answer(job[w], "accepted")
    BY <1>18 DEF AnswerAccepted, OwnerProgress, Abstract!Answer, Abstract!AnswerAllowed
  <2>2. job[w] \in Events
    BY <1>18 DEF AnswerAccepted
  <2>3. QED
    BY <2>1, <2>2, <1>b
<1>19. ASSUME NEW w \in Workers, AnswerDuplicate(w) PROVE Goal
  <2>1. Abstract!Answer(job[w], "duplicate")
    BY <1>19 DEF AnswerDuplicate, DuplicateIsStored, Abstract!Answer,
                 Abstract!AnswerAllowed
  <2>2. job[w] \in Events
    BY <1>19 DEF AnswerDuplicate
  <2>3. QED
    BY <2>1, <2>2, <1>b
<1>21. ASSUME NEW w \in Workers, Crash(w) \/ Renew(w) PROVE Goal
  BY <1>21, <1>c DEF Crash, Renew
<1>23. ASSUME NEW e \in Events, Backfill(e) PROVE Goal
  BY <1>23, <1>c DEF Backfill
<1>24. ASSUME UNCHANGED vars PROVE Goal
  BY <1>24, <1>c DEF vars
<1>25. Goal
  BY <1>1, <1>4, <1>5, <1>6, <1>7, <1>10, <1>11, <1>16, <1>18, <1>19, <1>21, <1>23,
     <1>24
  DEF Next, Submission, Step, Progress, Fault
<1>26. QED
  BY <1>25 DEF Goal

\* The pipeline, with its races, crashes and ambiguous commits, implements the
\* append-only ledger that appends, audits and accepts each event once.
THEOREM Refinement == Spec => ImplementsLedger
<1>1. IInv /\ [Next]_vars => [Abstract!Next]_(Abstract!vars)
  BY RefineStep
<1>2. QED
  BY <1>1, RefineInit, Invariance, PTL DEF Spec, Abstract!Spec, ImplementsLedger

-----------------------------------------------------------------------------
(* The consumer of the topic.                                              *)

USE MalformedAssumption, ConsumerAssumption, ClientEventsAssumption, MaxCrashesAssumption

\* An event is over: stored, or the service was seen to fail on it.
Settled(e) == e \in ledger \/ replies[e]["error"] > 0

\* The message in hand is being handled, or it is over; without one, the
\* consumer stands at the committed offset.
HandOK == IF inHand THEN /\ pc[Consumer] # "idle" => job[Consumer] = Topic[position]
                         /\ pc[Consumer] = "idle" => Settled(Topic[position])
          ELSE position = committed

\* Nothing from the first malformed message on was ever taken.
TakenDecode == \A i \in 1 .. position : Topic[i] \in Events

ConsumerInv == /\ IInv /\ ConsumerTypeOK /\ HandOK /\ TakenDecode
               /\ \A i \in 1 .. committed : Settled(Topic[i])

LEMMA TopicEvents ==
    /\ Consumer \in Workers /\ Len(Topic) \in Nat
    /\ \A i \in 1 .. Len(Topic) : Decodes(i) => Topic[i] \in Events
  BY DEF Decodes

LEMMA ConsumerInitOK == ConsumerInit => ConsumerInv
<1> SUFFICES ASSUME ConsumerInit PROVE ConsumerInv
  OBVIOUS
<1>1. IInv /\ TypeOK
  BY InvInit DEF ConsumerInit, IInv
<1>2. ConsumerTypeOK
  <2>1. Len(Topic) \in Nat /\ MaxCrashes \in Nat
    BY TopicEvents
  <2>2. position = 0 /\ committed = 0 /\ inHand = FALSE /\ ended = FALSE /\ crashes = 0
    BY DEF ConsumerInit
  <2>3. committed \in 0 .. Len(Topic) /\ position \in committed .. Len(Topic)
        /\ crashes \in 0 .. MaxCrashes /\ ~(position = committed + 1)
    BY <2>1, <2>2
  <2>4. inHand \in BOOLEAN /\ (inHand <=> position = committed + 1)
    BY <2>2, <2>3, Zenon
  <2>5. ended \in BOOLEAN /\ (ended => ~inHand)
    BY <2>2, Zenon
  <2>6. QED
    BY <1>1, <2>3, <2>4, <2>5, Zenon DEF ConsumerTypeOK
<1>3. QED
  BY <1>1, <1>2 DEF ConsumerInit, ConsumerInv, HandOK, TakenDecode

\* What is over stays so.
LEMMA SettledStays ==
    ASSUME TypeOK, [Next]_vars, NEW e \in Events, Settled(e)
    PROVE  Settled(e)'
<1> USE DEF TypeOK, Settled, db, Stay, Goto, Finish, Raise, SessionAfter, Verdicts
<1>1. CASE \E w \in Workers : Submission(w)
  BY <1>1, SMTT(30) DEF Submission, Receive, Reject, RefuseLookup, CanSubmit
<1>2. CASE \E w \in Workers : \/ Check(w) \/ Campaign(w) \/ Audit(w) \/ Index(w)
                             \/ Delta(w) \/ ProjectionError(w) \/ PublishEvent(w)
                             \/ PublishGraph(w) \/ DeltaFault(w) \/ Crash(w) \/ Renew(w)
  BY <1>2 DEF Check, Campaign, Audit, Index, Delta, ProjectionError, PublishEvent,
              PublishGraph, Publish, DeltaFault, Crash, Renew
<1>3. CASE \E w \in Workers : Insert(w)
  BY <1>3 DEF Insert
<1>4. ASSUME NEW w \in Workers, pc[w] # "idle", ledger \subseteq ledger',
             NEW v \in Verdicts, replies' = [replies EXCEPT ![job[w]][v] = @ + 1]
      PROVE  Settled(e)'
  BY <1>4
<1>5. CASE \E w \in Workers : \/ InsertConflict(w) \/ InsertFault(w) \/ CampaignFault(w)
                             \/ AuditFault(w) \/ ReloadFault(w)
                             \/ AnswerAccepted(w) \/ AnswerDuplicate(w)
  <2>1. PICK w \in Workers : \/ InsertConflict(w) \/ InsertFault(w) \/ CampaignFault(w)
                           \/ AuditFault(w) \/ ReloadFault(w)
                           \/ AnswerAccepted(w) \/ AnswerDuplicate(w)
    BY <1>5
  <2>2. CASE AnswerAccepted(w)
    BY <1>4, <2>2 DEF AnswerAccepted
  <2>3. CASE AnswerDuplicate(w)
    BY <1>4, <2>3 DEF AnswerDuplicate
  <2>4. CASE InsertConflict(w) \/ InsertFault(w)
    BY <1>4, <2>4 DEF InsertConflict, InsertFault
  <2>5. CASE CampaignFault(w) \/ ReloadFault(w)
    BY <1>4, <2>5 DEF CampaignFault, ReloadFault
  <2>6. CASE AuditFault(w)
    BY <1>4, <2>6 DEF AuditFault, AuditStage
  <2>7. QED
    BY <2>1, <2>2, <2>3, <2>4, <2>5, <2>6
<1>6. CASE \E d \in Events : Backfill(d)
  BY <1>6 DEF Backfill
<1>7. CASE UNCHANGED vars
  BY <1>7 DEF vars
<1>8. QED
  BY <1>1, <1>2, <1>3, <1>5, <1>6, <1>7 DEF Next, Step, Progress, Fault

\* A step of the handler goes on with its event, or is the end of it.
LEMMA HandlerStep ==
    ASSUME IInv, NEW w \in Workers, Step(w)
    PROVE  /\ job[w] \in Events /\ pc[w] # "idle"
           /\ \/ pc'[w] # "idle" /\ job'[w] = job[w]
              \/ pc'[w] = "idle" /\ (job[w] \in ledger' \/ replies'[job[w]]["error"] > 0)
<1>0. TypeOK /\ OwnerProgress /\ DuplicateIsStored
  BY DEF IInv
<1> USE <1>0 DEF TypeOK, db, Stay, Goto, Finish, Raise, SessionAfter, Verdicts
<1>1. CASE Check(w) \/ Campaign(w) \/ Audit(w) \/ Index(w) \/ Delta(w)
           \/ ProjectionError(w) \/ PublishEvent(w) \/ PublishGraph(w) \/ DeltaFault(w)
  BY <1>1 DEF Check, Campaign, Audit, AuditStage, AfterAudit, Index, Delta, ProjectionError,
              PublishEvent, PublishGraph, Publish, DeltaFault
<1>2. CASE Insert(w) \/ InsertConflict(w) \/ InsertFault(w)
  BY <1>2 DEF Insert, InsertConflict, InsertFault
<1>3. CASE AnswerAccepted(w)
  BY <1>3 DEF AnswerAccepted, OwnerProgress, Owner, AcceptedStages
<1>4. CASE AnswerDuplicate(w)
  BY <1>4 DEF AnswerDuplicate, DuplicateIsStored, DuplicateStages
<1>5. CASE CampaignFault(w) \/ AuditFault(w) \/ ReloadFault(w)
  BY <1>5 DEF CampaignFault, AuditFault, AuditStage, ReloadFault
<1>6. QED
  BY <1>1, <1>2, <1>3, <1>4, <1>5 DEF Step, Progress, Fault

\* A worker's steps leave the others where they are.
LEMMA OtherWorker ==
    ASSUME TypeOK, NEW w \in Workers, NEW v \in Workers, v # w,
           Submission(w) \/ Step(w) \/ Crash(w) \/ Renew(w)
    PROVE  pc'[v] = pc[v] /\ job'[v] = job[v]
<1> USE DEF TypeOK, Stay, Goto, Finish, Raise
<1>1. CASE Submission(w)
  BY <1>1 DEF Submission, Receive, Reject, RefuseLookup
<1>2. CASE Check(w) \/ Campaign(w) \/ Audit(w) \/ Index(w) \/ Delta(w)
           \/ ProjectionError(w) \/ PublishEvent(w) \/ PublishGraph(w) \/ DeltaFault(w)
  BY <1>2 DEF Check, Campaign, Audit, Index, Delta, ProjectionError, PublishEvent,
              PublishGraph, Publish, DeltaFault
<1>3. CASE Insert(w) \/ InsertConflict(w) \/ InsertFault(w) \/ AnswerAccepted(w)
           \/ AnswerDuplicate(w) \/ CampaignFault(w) \/ AuditFault(w) \/ ReloadFault(w)
  BY <1>3 DEF Insert, InsertConflict, InsertFault, AnswerAccepted, AnswerDuplicate,
              CampaignFault, AuditFault, ReloadFault
<1>4. CASE Crash(w) \/ Renew(w)
  BY <1>4 DEF Crash, Renew
<1>5. QED
  BY <1>1, <1>2, <1>3, <1>4 DEF Step, Progress, Fault

\* A new session is the pipeline's Renew, or none was needed.
LEMMA SessionRenewed == ConsumerTypeOK /\ NewSession => [Next]_vars
<1> SUFFICES ASSUME ConsumerTypeOK, NewSession PROVE [Next]_vars
  OBVIOUS
<1>1. CASE session[Consumer] = "broken"
  BY <1>1, TopicEvents DEF NewSession, Renew, Next
<1>2. CASE session[Consumer] = "clean"
  <2>1. session' = session
    BY <1>2, TopicEvents DEF NewSession, ConsumerTypeOK, TypeOK
  <2>2. QED
    BY <2>1 DEF NewSession, vars, db
<1>3. QED
  BY <1>1, <1>2, TopicEvents DEF ConsumerTypeOK, TypeOK

\* The consumer adds nothing to the pipeline's steps: it only chooses among
\* them, and keeps its offsets.
LEMMA ConsumerIsPipeline == ConsumerTypeOK /\ [ConsumerNext]_consumerVars => [Next]_vars
<1> SUFFICES ASSUME ConsumerTypeOK, [ConsumerNext]_consumerVars PROVE [Next]_vars
  OBVIOUS
<1>1. CASE Poll
  <2>1. position + 1 \in 1 .. Len(Topic)
    BY <1>1, TopicEvents DEF Poll, ConsumerTypeOK
  <2>2. Submission(Consumer)
    BY <1>1, <2>1, TopicEvents DEF Poll, Submission
  <2>3. QED
    BY <2>2, TopicEvents DEF Next
<1>2. CASE Handle
  BY <1>2, TopicEvents DEF Handle, Next
<1>3. CASE CommitOffset
  BY <1>3 DEF CommitOffset
<1>4. CASE Restart
  <2>1. CASE Crash(Consumer)
    BY <2>1, TopicEvents DEF Next
  <2>2. QED
    BY <1>4, <2>1, SessionRenewed DEF Restart
<1>5. CASE IdleTimeout
  BY <1>5, TopicEvents DEF IdleTimeout, Next
<1>6. CASE Others
  BY <1>6 DEF Others, Next, Submission
<1>7. CASE PollRaises
  BY <1>7, SessionRenewed DEF PollRaises
<1>8. CASE RunAgain \/ UNCHANGED consumerVars
  BY <1>8 DEF RunAgain, consumerVars
<1>9. QED
  BY <1>1, <1>2, <1>3, <1>4, <1>5, <1>6, <1>7, <1>8 DEF ConsumerNext

LEMMA ConsumerStep == ConsumerInv /\ [ConsumerNext]_consumerVars => ConsumerInv'
<1> SUFFICES ASSUME ConsumerInv, [ConsumerNext]_consumerVars PROVE ConsumerInv'
  OBVIOUS
<1>1. IInv /\ ConsumerTypeOK /\ TypeOK /\ [Next]_vars
  BY ConsumerIsPipeline DEF ConsumerInv, IInv
<1>2. IInv' /\ TypeOK'
  BY <1>1, InvStep DEF IInv
<1>3. /\ Len(Topic) \in Nat /\ committed \in Nat /\ position \in Nat
      /\ committed <= position /\ position <= Len(Topic)
      /\ inHand \in BOOLEAN /\ (inHand <=> position = committed + 1) /\ crashes \in 0 .. MaxCrashes
      /\ ended \in BOOLEAN /\ (ended => ~inHand)
  BY <1>1, TopicEvents DEF ConsumerTypeOK
<1>4. \A i \in 1 .. committed : Topic[i] \in Events /\ Settled(Topic[i])
  BY <1>3 DEF ConsumerInv, TakenDecode
<1>0. \A i \in 1 .. position : Topic[i] \in Events
  BY DEF ConsumerInv, TakenDecode
<1>5. \A i \in 1 .. committed : Settled(Topic[i])'
  BY <1>1, <1>4, SettledStays
<1>6. CASE Poll
  <2>1. /\ ~inHand /\ position < Len(Topic) /\ position' = position + 1 /\ inHand' = TRUE
        /\ committed' = committed /\ crashes' = crashes /\ ~ended /\ ended' = ended
    BY <1>6 DEF Poll
  <2> DEFINE e == Topic[position + 1]
  <2>2. /\ e \in Events /\ Topic[position'] = e
        /\ Receive(Consumer, e) \/ Reject(Consumer, e) \/ RefuseLookup(Consumer, e)
    <3>1. e \in Events /\ Topic[position'] = e
      BY <1>3, <1>6, <2>1, TopicEvents DEF Poll
    <3>2. Receive(Consumer, e) \/ Reject(Consumer, e) \/ RefuseLookup(Consumer, e)
      BY <1>6 DEF Poll
    <3>3. QED
      BY <3>1, <3>2
  <2> HIDE DEF e
  <2>3. position = committed
    BY <2>1 DEF ConsumerInv, HandOK
  <2>4. ConsumerTypeOK'
    BY <1>2, <1>3, <2>1, <2>3 DEF ConsumerTypeOK
  <2>5. HandOK'
    <3>1. CASE Receive(Consumer, e)
      BY <1>1, <2>1, <2>2, <3>1, TopicEvents DEF HandOK, Receive, Goto, TypeOK
    <3>2. CASE Reject(Consumer, e) \/ RefuseLookup(Consumer, e)
      <4>1. pc'[Consumer] = "idle" /\ replies' = [replies EXCEPT ![e]["error"] = @ + 1]
        BY <1>1, <3>2, TopicEvents DEF Reject, RefuseLookup, Finish, Goto, TypeOK
      <4>2. replies'[e]["error"] > 0
        BY <1>1, <2>2, <4>1 DEF TypeOK, Verdicts
      <4>3. QED
        BY <2>1, <2>2, <4>1, <4>2 DEF HandOK, Settled
    <3>3. QED
      BY <2>2, <3>1, <3>2
  <2>6. TakenDecode'
    BY <1>0, <1>3, <2>1, <2>2 DEF TakenDecode
  <2>7. QED
    BY <1>2, <1>5, <2>1, <2>4, <2>5, <2>6 DEF ConsumerInv
<1>7. CASE Handle
  <2>1. Step(Consumer) /\ UNCHANGED offsets
    BY <1>7 DEF Handle
  <2>2. ConsumerTypeOK'
    BY <1>1, <1>2, <2>1 DEF ConsumerTypeOK, offsets
  <2>3. HandOK'
    BY <1>1, <2>1, HandlerStep, TopicEvents DEF ConsumerInv, HandOK, offsets, Settled
  <2>4. QED
    BY <1>0, <1>2, <1>5, <2>1, <2>2, <2>3 DEF ConsumerInv, TakenDecode, offsets
<1>8. CASE CommitOffset
  <2>1. /\ inHand /\ pc[Consumer] = "idle" /\ committed' = position /\ inHand' = FALSE
        /\ position' = position /\ crashes' = crashes /\ ended' = ended
    BY <1>8 DEF CommitOffset, MayCommit
  <2>2. ConsumerTypeOK'
    <3>1. committed' \in 0 .. Len(Topic) /\ position' \in committed' .. Len(Topic)
          /\ crashes' \in 0 .. MaxCrashes /\ ~(position' = committed' + 1)
      BY <1>3, <2>1
    <3>2. inHand' \in BOOLEAN /\ (inHand' <=> position' = committed' + 1)
      BY <2>1, <3>1, Zenon
    <3>3. ended' \in BOOLEAN /\ (ended' => ~inHand')
      BY <1>3, <2>1, Zenon
    <3>4. QED
      BY <1>2, <3>1, <3>2, <3>3, Zenon DEF ConsumerTypeOK
  <2>3. ledger' = ledger /\ replies' = replies
    BY <1>8 DEF CommitOffset, vars
  <2>4. Settled(Topic[position])
    BY <2>1 DEF ConsumerInv, HandOK
  <2>5. \A i \in 1 .. committed' : Settled(Topic[i])'
    BY <1>3, <1>4, <2>1, <2>3, <2>4 DEF Settled
  <2>6. QED
    BY <1>0, <1>2, <2>1, <2>2, <2>5 DEF ConsumerInv, HandOK, TakenDecode
<1>9. CASE Restart
  <2>1. /\ inHand' = FALSE /\ position' = committed /\ committed' = committed
        /\ crashes' = crashes + 1 /\ crashes < MaxCrashes /\ ended' = ended
    BY <1>9 DEF Restart, RestartAt
  <2>2. ConsumerTypeOK'
    <3>1. committed' \in 0 .. Len(Topic) /\ position' \in committed' .. Len(Topic)
          /\ crashes' \in 0 .. MaxCrashes /\ ~(position' = committed' + 1)
      BY <1>3, <2>1
    <3>2. inHand' \in BOOLEAN /\ (inHand' <=> position' = committed' + 1)
      BY <2>1, <3>1, Zenon
    <3>3. ended' \in BOOLEAN /\ (ended' => ~inHand')
      BY <1>3, <2>1, Zenon
    <3>4. QED
      BY <1>2, <3>1, <3>2, <3>3, Zenon DEF ConsumerTypeOK
  <2>3. TakenDecode'
    BY <1>4, <2>1 DEF TakenDecode
  <2>4. QED
    BY <1>2, <1>5, <2>1, <2>2, <2>3 DEF ConsumerInv, HandOK
<1>10. CASE IdleTimeout
  <2>1. ~inHand /\ UNCHANGED offsets
    BY <1>10 DEF IdleTimeout
  <2>2. ConsumerTypeOK'
    BY <1>1, <1>2, <2>1 DEF ConsumerTypeOK, offsets
  <2>3. QED
    BY <1>0, <1>2, <1>5, <2>1, <2>2 DEF ConsumerInv, HandOK, TakenDecode, offsets
<1>11. CASE Others \/ UNCHANGED consumerVars
  <2>1. UNCHANGED offsets /\ pc'[Consumer] = pc[Consumer] /\ job'[Consumer] = job[Consumer]
    <3>1. CASE \E w \in Workers \ {Consumer} :
                  Submission(w) \/ Step(w) \/ Crash(w) \/ Renew(w)
      BY <1>1, <1>11, <3>1, OtherWorker, TopicEvents DEF Others, consumerVars
    <3>2. CASE \E e \in Events : Backfill(e)
      BY <1>11, <3>2 DEF Others, Backfill, consumerVars
    <3>3. CASE UNCHANGED consumerVars
      BY <3>3 DEF consumerVars, vars
    <3>4. QED
      BY <1>11, <3>1, <3>2, <3>3 DEF Others, Submission
  <2>2. ConsumerTypeOK'
    BY <1>1, <1>2, <2>1 DEF ConsumerTypeOK, offsets
  <2>3. HandOK'
    <3>1. CASE inHand
      <4>1. Topic[position] \in Events
        BY <1>0, <1>3, <3>1
      <4>2. Settled(Topic[position]) => Settled(Topic[position])'
        BY <1>1, <2>1, <4>1, SettledStays DEF offsets
      <4>3. QED
        BY <2>1, <3>1, <4>2 DEF ConsumerInv, HandOK, offsets
    <3>2. CASE ~inHand
      BY <2>1, <3>2 DEF ConsumerInv, HandOK, offsets
    <3>3. QED
      BY <3>1, <3>2
  <2>4. QED
    BY <1>0, <1>2, <1>5, <2>1, <2>2, <2>3 DEF ConsumerInv, TakenDecode, offsets
<1>12. CASE PollRaises
  <2>1. ~inHand /\ ended' = TRUE /\ UNCHANGED <<position, committed, inHand, crashes>>
    BY <1>12 DEF PollRaises
  <2>2. ConsumerTypeOK'
    BY <1>1, <1>2, <2>1 DEF ConsumerTypeOK
  <2>3. QED
    BY <1>0, <1>2, <1>5, <2>1, <2>2 DEF ConsumerInv, HandOK, TakenDecode
<1>13. CASE RunAgain
  <2>1. /\ ended /\ ended' = FALSE /\ ~inHand
        /\ UNCHANGED <<position, committed, inHand, crashes>>
    BY <1>3, <1>13 DEF RunAgain
  <2>2. ConsumerTypeOK'
    BY <1>1, <1>2, <2>1 DEF ConsumerTypeOK
  <2>3. QED
    BY <1>0, <1>2, <1>5, <2>1, <2>2 DEF ConsumerInv, HandOK, TakenDecode
<1>14. QED
  BY <1>6, <1>7, <1>8, <1>9, <1>10, <1>11, <1>12, <1>13 DEF ConsumerNext

THEOREM ConsumerInvariance == ConsumerSpec => []ConsumerInv
<1>1. QED
  BY ConsumerInitOK, ConsumerStep, PTL DEF ConsumerSpec

\* The offsets keep their types: the consumer has at most one message that is
\* not committed, and never commits one it has not taken.
THEOREM ConsumerTypeCorrect == ConsumerSpec => []ConsumerTypeOK
<1>1. ConsumerInv => ConsumerTypeOK
  BY DEF ConsumerInv
<1>2. QED
  BY <1>1, ConsumerInvariance, PTL

\* However the consumer crashes and its messages come again, beside any other
\* workers, its runs are runs of the pipeline: an event is accepted once.
THEOREM ConsumerRunsPipeline == ConsumerSpec => Spec
<1>1. ConsumerInit => Init
  BY DEF ConsumerInit
<1>2. ConsumerInv => ConsumerTypeOK
  BY DEF ConsumerInv
<1>3. QED
  BY <1>1, <1>2, ConsumerIsPipeline, ConsumerInvariance, PTL DEF ConsumerSpec, Spec

\* A message that is delivered again is not accepted again.
THEOREM RedeliveryAlwaysIdempotent == ConsumerSpec => []RedeliveryIsIdempotent
<1>1. ConsumerInv => RedeliveryIsIdempotent
  BY DEF ConsumerInv, IInv, RedeliveryIsIdempotent
<1>2. QED
  BY <1>1, ConsumerInvariance, PTL

\* An offset is committed only for a message whose event is in the ledger or on
\* which the service was seen to fail, whatever crashes came between.
THEOREM DroppedOnlyOnErrorAlways == ConsumerSpec => []DroppedOnlyOnError
<1>1. ConsumerInv => DroppedOnlyOnError
  BY DEF ConsumerInv, Settled, DroppedOnlyOnError
<1>2. QED
  BY <1>1, ConsumerInvariance, PTL

-----------------------------------------------------------------------------
(* The backfill script.                                                    *)

\* A step of the script is the insert of one missing delta, or none at all.
LEMMA BackfillIsPipeline == [BackfillNext]_backfillVars => [Next]_vars
<1> SUFFICES ASSUME [BackfillNext]_backfillVars PROVE [Next]_vars
  OBVIOUS
<1>1. CASE StartRun
  BY <1>1 DEF StartRun
<1>2. ASSUME NEW r \in LedgerRows, FillRow(r) \/ RowRefused(r) \/ RowFault(r)
      PROVE  UNCHANGED vars \/ (r \in Events /\ Backfill(r))
  BY <1>2, ForeignAssumption DEF FillRow, RowRefused, RowFault, LedgerRows
<1>3. CASE ScriptStep
  BY <1>1, <1>2, <1>3 DEF ScriptStep, Next
<1>4. CASE Pipeline
  BY <1>4 DEF Pipeline, Next
<1>5. CASE UNCHANGED backfillVars
  BY <1>5 DEF backfillVars
<1>6. QED
  BY <1>3, <1>4, <1>5 DEF BackfillNext

\* The pipeline beside the backfill script, whatever rows it meets and however
\* it is cut off, implements the pipeline alone: every theorem about the
\* pipeline holds of it.
THEOREM BackfillRunsPipeline == BackfillSpec => Spec
<1>1. BackfillInit => Init
  BY DEF BackfillInit
<1>2. QED
  BY <1>1, BackfillIsPipeline, PTL DEF BackfillSpec, Spec

\* Beside the pipeline's types: a run only has rows of the ledger in hand.
THEOREM BackfillTypeCorrect == BackfillSpec => []BackfillTypeOK
<1>1. BackfillInit => batch \subseteq LedgerRows
  BY DEF BackfillInit
<1>2. batch \subseteq LedgerRows /\ [BackfillNext]_backfillVars => (batch \subseteq LedgerRows)'
  BY DEF BackfillNext, ScriptStep, StartRun, OldestFirst, Candidates, LedgerRows, FillRow,
         RowRefused, RowFault, RestAfter, Pipeline, backfillVars
<1>3. BackfillSpec => [](batch \subseteq LedgerRows)
  BY <1>1, <1>2, PTL DEF BackfillSpec
<1>4. QED
  BY <1>3, BackfillRunsPipeline, TypeCorrect, PTL DEF BackfillTypeOK
=============================================================================
