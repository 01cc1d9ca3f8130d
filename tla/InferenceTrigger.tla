-------------------------- MODULE InferenceTrigger --------------------------
(***************************************************************************)
(* streaming/inference_consumer.py, and training_consumer.py, which is the *)
(* same loop around a training: events are counted, and a run is triggered *)
(* at a threshold or when the interval has passed. A run scores all that   *)
(* is in the ledger, the event in hand included.                           *)
(*                                                                         *)
(* The iterator ends when the topic is silent for two seconds, and main    *)
(* starts the loop anew: the count is lost, and the time of the last run   *)
(* is 0.0 again. time.monotonic() counts from the boot of the host, so     *)
(* that is longer ago than the interval only once the host has been up for *)
(* one.                                                                    *)
(***************************************************************************)
EXTENDS Naturals

CONSTANTS Threshold,             \* INFERENCE_BATCH_THRESHOLD
          MinInterval,           \* INFERENCE_MIN_INTERVAL_SEC
          MaxUptime,             \* bound on the clock
          MaxEvents,             \* bound on the events of the topic
          MaxRestarts,           \* bound on silences and crashes
          MaxFailedRuns          \* bound on runs that fail

ASSUME ThresholdAssumption == Threshold \in Nat \ {0}
ASSUME TriggerBoundsAssumption ==
    /\ MinInterval \in Nat /\ MaxUptime \in Nat
    /\ MaxEvents \in Nat /\ MaxRestarts \in Nat /\ MaxFailedRuns \in Nat

VARIABLES offset,                \* committed offset: events handled
          count,                 \* events_since_last_run
          uptime,                \* time.monotonic(): since the host's boot
          lastRunAt,             \* last_run_at
          takenAt,               \* now, read when the event in hand came (0 without one)
          handling,              \* phase of the event in hand
          unscored,              \* handled events no successful run has scored
          failedRuns,            \* failed runs since the last successful one
          early,                 \* restarts since then with the host not up for
                                 \* an interval
          restarts, brokenRuns

clocks == <<uptime, lastRunAt, takenAt>>
waiting == <<unscored, failedRuns, early>>
triggerVars == <<offset, count, clocks, handling, waiting, restarts, brokenRuns>>

TriggerTypeOK == /\ offset \in 0 .. MaxEvents
                 /\ count \in 0 .. Threshold
                 /\ {uptime, lastRunAt, takenAt} \subseteq 0 .. MaxUptime
                 /\ handling \in {"none", "run", "scored", "unscored"}
                 /\ unscored \in Nat /\ failedRuns \in Nat /\ early \in Nat
                 /\ restarts \in 0 .. MaxRestarts
                 /\ brokenRuns \in 0 .. MaxFailedRuns

\* The consumer starts on a host that has been up for a while or not at all.
TriggerInit == /\ offset = 0 /\ count = 0
               /\ uptime \in 0 .. MaxUptime /\ lastRunAt = 0 /\ takenAt = 0
               /\ handling = "none"
               /\ unscored = 0 /\ failedRuns = 0 /\ early = 0
               /\ restarts = 0 /\ brokenRuns = 0

-----------------------------------------------------------------------------
Reached(n) == n >= Threshold

\* Mutant: the loop counts the interval from its own start.
StartsNow(u) == u

\* last_run_at when the loop starts, at uptime u.
StartsAt(u) == 0

Passed == uptime - lastRunAt >= MinInterval

\* The next message.
Take == /\ handling = "none" /\ offset < MaxEvents
        /\ count' = count + 1
        /\ takenAt' = uptime
        /\ handling' = IF Reached(count + 1) \/ Passed THEN "run" ELSE "unscored"
        /\ UNCHANGED <<offset, uptime, lastRunAt, waiting, restarts, brokenRuns>>

\* _trigger_inference swallows its errors: the count starts again all the same.
Trigger == /\ handling = "run"
           /\ \/ /\ unscored' = 0 /\ failedRuns' = 0 /\ early' = 0
                 /\ handling' = "scored"
                 /\ UNCHANGED brokenRuns
              \/ /\ brokenRuns < MaxFailedRuns /\ brokenRuns' = brokenRuns + 1
                 /\ failedRuns' = failedRuns + 1
                 /\ handling' = "unscored"
                 /\ UNCHANGED <<unscored, early>>
           /\ lastRunAt' = takenAt /\ count' = 0
           /\ UNCHANGED <<offset, uptime, takenAt, restarts>>

CommitOffset == /\ handling \in {"scored", "unscored"}
                /\ offset' = offset + 1
                /\ unscored' = IF handling = "scored" THEN unscored ELSE unscored + 1
                /\ handling' = "none" /\ takenAt' = 0
                /\ UNCHANGED <<count, uptime, lastRunAt, failedRuns, early,
                               restarts, brokenRuns>>

\* Silence between messages, an exception or a crash anywhere, of the process
\* or of the host, whose boot starts the clock again: a message whose offset
\* was not committed comes again. (Before the first commit the loop starts at
\* the end of the topic; what it skips there is not handled.)
Restart == /\ restarts < MaxRestarts
           /\ restarts' = restarts + 1
           /\ uptime' \in {uptime, 0}
           /\ count' = 0 /\ lastRunAt' = StartsAt(uptime')
           /\ early' = IF uptime' < MinInterval THEN early + 1 ELSE early
           /\ handling' = "none" /\ takenAt' = 0
           /\ UNCHANGED <<offset, unscored, failedRuns, brokenRuns>>

HostTick == /\ uptime < MaxUptime /\ uptime' = uptime + 1
        /\ UNCHANGED <<offset, count, lastRunAt, takenAt, handling, waiting, restarts, brokenRuns>>

-----------------------------------------------------------------------------
TriggerNext == Take \/ Trigger \/ CommitOffset \/ Restart \/ HostTick

TriggerSpec == TriggerInit /\ [][TriggerNext]_triggerVars

-----------------------------------------------------------------------------
(* Correctness.                                                            *)

\* inference_consumer.py:11, the loop triggers when "a configurable number of
\* events has arrived", although every restart loses the count: fewer than that
\* wait for a score, and more only by a whole threshold for each run that
\* failed, and by what a restart forgets while the host has not been up for an
\* interval. A restart after that costs nothing: its first event starts a run.
BacklogBounded ==
    unscored < Threshold * (1 + failedRuns) + (Threshold - 1) * early
=============================================================================
