--------------------------- MODULE MCOuterServices ---------------------------
(* The services around the core for TLC, one at a time: they share no state *)
(* in the model, so each behaviour is one of theirs.                        *)
EXTENDS PredictionSync, EdgeAgent, FederationHub, WarningExchange,
        FeedbackLoop, InferenceTrigger, AuthSessions,
        ModelRollout, EventStream

VARIABLE part                    \* the service that runs

allVars == <<part, syncVars, edgeVars, hubVars, inboxVars, feedbackVars,
             triggerVars, authVars, rolloutVars, streamVars>>

Parts == {"sync", "edge", "hub", "inbox", "feedback", "trigger", "auth",
          "rollout", "stream"}

Only(p, vs) == part = p /\ UNCHANGED <<part, vs>>

SyncPart == <<edgeVars, hubVars, inboxVars, feedbackVars, triggerVars,
              authVars, rolloutVars, streamVars>>
EdgePart == <<syncVars, hubVars, inboxVars, feedbackVars, triggerVars,
              authVars, rolloutVars, streamVars>>
HubPart == <<syncVars, edgeVars, inboxVars, feedbackVars, triggerVars,
             authVars, rolloutVars, streamVars>>
InboxPart == <<syncVars, edgeVars, hubVars, feedbackVars, triggerVars,
               authVars, rolloutVars, streamVars>>
FeedbackPart == <<syncVars, edgeVars, hubVars, inboxVars, triggerVars,
                  authVars, rolloutVars, streamVars>>
TriggerPart == <<syncVars, edgeVars, hubVars, inboxVars, feedbackVars,
                 authVars, rolloutVars, streamVars>>
AuthPart == <<syncVars, edgeVars, hubVars, inboxVars, feedbackVars,
              triggerVars, rolloutVars, streamVars>>
RolloutPart == <<syncVars, edgeVars, hubVars, inboxVars, feedbackVars,
                 triggerVars, authVars, streamVars>>
StreamPart == <<syncVars, edgeVars, hubVars, inboxVars, feedbackVars,
                triggerVars, authVars, rolloutVars>>

OuterInit == /\ part \in Parts
             /\ SyncInit /\ EdgeInit /\ HubInit /\ InboxInit
             /\ FeedbackInit /\ TriggerInit /\ AuthInit
             /\ RolloutInit /\ StreamInit

OuterNext == \/ Only("sync", SyncPart) /\ SyncNext
             \/ Only("edge", EdgePart) /\ EdgeNext
             \/ Only("hub", HubPart) /\ HubNext
             \/ Only("inbox", InboxPart) /\ InboxNext
             \/ Only("feedback", FeedbackPart) /\ FeedbackNext
             \/ Only("trigger", TriggerPart) /\ TriggerNext
             \/ Only("auth", AuthPart) /\ AuthNext
             \/ Only("rollout", RolloutPart) /\ RolloutNext
             \/ Only("stream", StreamPart) /\ StreamNext

\* The fairness of each module's FairSpec, for the service that runs: the edge
\* agent's syncs go on, and so do the scheduled trainings.
KeepsGoing == \/ Only("sync", SyncPart) /\ SyncRun
              \/ Only("inbox", InboxPart) /\ SyncOnce(Scheduled)
              \/ Only("feedback", FeedbackPart)
                    /\ \E t \in Trainers \ {ByFeedback} : TrainAgain(t)

OuterSpec == OuterInit /\ [][OuterNext]_allVars /\ WF_allVars(KeepsGoing)
=============================================================================
