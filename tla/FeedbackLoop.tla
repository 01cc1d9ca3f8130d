---------------------------- MODULE FeedbackLoop ----------------------------
(***************************************************************************)
(* An analyst's correction on its way into the model: api/ai.py queues a   *)
(* label, layer3/feedback_worker.py validates it and trains when enough    *)
(* wait, layer3/gnn_train_worker.py trains with the newest label of each   *)
(* entity and marks the labels it used.                                    *)
(*                                                                         *)
(* Trainings are also started by a schedule, by the training consumer and  *)
(* by the API. Nothing keeps two of them, or a training and the feedback   *)
(* worker, apart: each reads, works for minutes, and commits at the end.   *)
(***************************************************************************)
EXTENDS Naturals, FiniteSets

CONSTANTS Entities, InWindow,    \* entities; those every dataset has
          Trainers, ByFeedback,  \* training processes; the feedback worker's
          RetrainThreshold,      \* --retrain-threshold
          MaxLabels,             \* bound on labels
          MaxFailed              \* bound on trainings that fail or are blocked

ASSUME WindowAssumption == InWindow \subseteq Entities
ASSUME TrainerAssumption == ByFeedback \in Trainers
ASSUME FeedbackBoundsAssumption ==
    RetrainThreshold \in Nat /\ MaxLabels \in Nat /\ MaxFailed \in Nat

Labels == 1 .. MaxLabels         \* in the order of created_at

VARIABLES entity,                \* the entity of each label so far: a sequence
          sure,                  \* labels 0 and 1 on a prediction of the trained
                                 \* type: the only ones a training reads
          queued, validated, consumed,  \* labels by status
          picked,                \* read by the feedback worker, not committed
          due,                   \* the feedback worker found enough labels
          training,              \* per trainer: labels it read, by entity
          model,                 \* labels of the last training, by entity
          atOnce,                \* history: two trainings overlapped
          failed

feedbackVars == <<entity, sure, queued, validated, consumed, picked, due,
                  training, model, atOnce, failed>>

Given == DOMAIN entity           \* labels so far
NoLabels == [e \in Entities |-> 0]
NoTraining == [busy |-> FALSE, newest |-> NoLabels]

FeedbackTypeOK ==
    /\ \E n \in 0 .. MaxLabels : entity \in [1 .. n -> Entities]
    /\ sure \subseteq Given
    /\ queued \subseteq Given /\ validated \subseteq Given /\ consumed \subseteq Given
    /\ picked \subseteq Given
    /\ due \in BOOLEAN
    /\ training \in [Trainers -> [busy : BOOLEAN, newest : [Entities -> Labels \cup {0}]]]
    /\ model \in [Entities -> Labels \cup {0}]
    /\ atOnce \in BOOLEAN
    /\ failed \in 0 .. MaxFailed

FeedbackInit ==
    /\ entity = << >> /\ sure = {}
    /\ queued = {} /\ validated = {} /\ consumed = {}
    /\ picked = {} /\ due = FALSE
    /\ training = [t \in Trainers |-> NoTraining]
    /\ model = NoLabels
    /\ atOnce = FALSE
    /\ failed = 0

-----------------------------------------------------------------------------
\* create_feedback.
GiveLabel(e, s) ==
    LET l == Cardinality(Given) + 1 IN
    /\ l \in Labels
    /\ entity' = [k \in 1 .. l |-> IF k = l THEN e ELSE entity[k]]
    /\ sure' = IF s THEN sure \cup {l} ELSE sure
    /\ queued' = queued \cup {l}
    /\ UNCHANGED <<validated, consumed, picked, due, training, model, atOnce, failed>>

-----------------------------------------------------------------------------
(* The feedback worker: run_once. It trains in its own process.            *)

\* The queued labels (a batch of 500: more than the model has).
Pick == /\ picked = {} /\ queued # {}
        /\ ~due /\ ~training[ByFeedback].busy
        /\ picked' = queued
        /\ UNCHANGED <<entity, sure, queued, validated, consumed, due,
                       training, model, atOnce, failed>>

\* Each becomes validated, whatever it has become since, and counts as used.
Validate == /\ picked # {}
            /\ queued' = queued \ picked
            /\ consumed' = consumed \ picked
            /\ validated' = validated \cup picked
            /\ picked' = {}
            /\ UNCHANGED <<entity, sure, due, training, model, atOnce, failed>>

\* _count_pending_feedback: labels another one superseded count for ever.
Decide == /\ picked = {} /\ ~due /\ ~training[ByFeedback].busy
          /\ Cardinality(validated) >= RetrainThreshold
          /\ due' = TRUE
          /\ UNCHANGED <<entity, sure, queued, validated, consumed, picked,
                         training, model, atOnce, failed>>

-----------------------------------------------------------------------------
(* A training: gnn_train_worker.run_once.                                  *)

About(e) == {l \in sure : entity[l] = e}

\* Mutant: the oldest label of an entity.
IsOldest(l, e) == IF About(e) = {} THEN l = 0
                  ELSE l \in About(e) /\ \A k \in About(e) : l <= k

\* _latest_feedback_overrides: newest first, whatever its status.
IsNewest(l, e) == IF About(e) = {} THEN l = 0
                  ELSE l \in About(e) /\ \A k \in About(e) : k <= l

\* The dataset has the entities of D.
ReadLabels(t, D) ==
    /\ ~training[t].busy
    /\ t = ByFeedback => due
    /\ InWindow \subseteq D
    /\ \E newest \in [Entities -> Given \cup {0}] :
         /\ \A e \in Entities : IF e \in D THEN IsNewest(newest[e], e) ELSE newest[e] = 0
         /\ training' = [training EXCEPT ![t] = [busy |-> TRUE, newest |-> newest]]
    /\ atOnce' = (atOnce \/ \E u \in Trainers : training[u].busy)
    /\ due' = (due /\ t # ByFeedback)
    /\ UNCHANGED <<entity, sure, queued, validated, consumed, picked, model, failed>>

\* Mutant: every label there is is marked.
UsedAll(t) == Given

\* The labels it read, by entity.
Used(t) == {training[t].newest[e] : e \in Entities} \ {0}

\* _mark_feedback_consumed, with the predictions and the lineage: one commit.
CommitTraining(t) ==
    /\ training[t].busy
    /\ model' = training[t].newest
    /\ consumed' = consumed \cup Used(t)
    /\ queued' = queued \ Used(t)
    /\ validated' = validated \ Used(t)
    /\ training' = [training EXCEPT ![t] = NoTraining]
    /\ UNCHANGED <<entity, sure, picked, due, atOnce, failed>>

\* An error, or a gate on real data or fairness that blocks: rolled back.
FailTraining(t) ==
    /\ training[t].busy
    /\ failed < MaxFailed
    /\ failed' = failed + 1
    /\ training' = [training EXCEPT ![t] = NoTraining]
    /\ UNCHANGED <<entity, sure, queued, validated, consumed, picked, due, model, atOnce>>

-----------------------------------------------------------------------------
TrainAgain(t) == (\E D \in SUBSET Entities : ReadLabels(t, D)) \/ CommitTraining(t)

FeedbackNext == \/ \E e \in Entities, s \in BOOLEAN : GiveLabel(e, s)
                \/ Pick \/ Validate \/ Decide
                \/ \E t \in Trainers : TrainAgain(t) \/ FailTraining(t)

FeedbackSpec == FeedbackInit /\ [][FeedbackNext]_feedbackVars

(* The training containers loop; blocked trainings are not for ever.       *)
FeedbackFairSpec ==
    FeedbackSpec /\ \A t \in Trainers \ {ByFeedback} : WF_feedbackVars(TrainAgain(t))

-----------------------------------------------------------------------------
(* Correctness.                                                            *)

\* feedback_worker.py:6, "the GNN learns from analyst corrections": the model
\* never goes back to a label older than one that was marked as used, while no
\* two trainings overlap; of two that do, the one that read first may commit last.
NewestLabelWins ==
    ~atOnce => \A e \in Entities : \A l \in consumed :
                  entity[l] = e /\ model[e] # 0 => l <= model[e]

UpToDate == \A e \in InWindow : \A l \in About(e) : l <= model[e]

\* Every 0 or 1 given for an entity of the window, on a prediction of the type
\* that is trained, gets into the model, or a newer
\* one does: none is lost by a failed training or between the workers.
FeedbackReachesModel == ~UpToDate ~> UpToDate
=============================================================================
