------------------------------ MODULE EdgeAgent ------------------------------
(***************************************************************************)
(* edge-agent/app: the service at an agency that fetches records, trains   *)
(* or loads a model, scores, keeps a local index from hashes to entities,  *)
(* and publishes the high-risk hashes to the hub.                          *)
(*                                                                         *)
(* A run is started by the scheduler or by POST /run, each in a thread of  *)
(* its own. POST /run is refused while the flag is_running is set, but the *)
(* scheduler does not look at the flag, and it is set in the thread.       *)
(***************************************************************************)
EXTENDS Naturals, FiniteSets

CONSTANTS LocalEntities,
          Threads, Scheduler,    \* the scheduler's thread and those of POST /run
          RetrainEvery,          \* settings.retrain_every
          Retention,             \* hash_index_retention_days, in runs
          MaxRuns,               \* bound on the runs that start
          MaxCrashes             \* bound on crashes of the service

ASSUME SchedulerAssumption == Scheduler \in Threads
ASSUME EdgeBoundsAssumption ==
    /\ RetrainEvery \in Nat \ {0} /\ Retention \in Nat
    /\ MaxRuns \in Nat /\ MaxCrashes \in Nat

VARIABLES runs,                  \* runs started: the time
          isRunning,             \* _state["is_running"]
          runCount,              \* _state["run_count"]
          savedCount,            \* run_count in the state file, 0 if unreadable
          job,                   \* per thread: phase, observed_at, results, index read
          index,                 \* hash index file: last_seen, 0 for no entry
          artifact,              \* the model file can be loaded
          published,             \* last run that published the entity, 0 for none
          age,                   \* history: completed runs since the last training
          skipped,               \* history: scheduled trainings since that had no records
          overlapped,            \* history: two runs were under way at once
          torn,                  \* history: a crash left the index unreadable
          crashes

edgeVars == <<runs, isRunning, runCount, savedCount, job, index, artifact,
              published, age, skipped, overlapped, torn, crashes>>

EmptyIndex == [e \in LocalEntities |-> 0]
Off == [phase |-> "off", at |-> 0, results |-> {}, read |-> EmptyIndex]
Done == [Off EXCEPT !.phase = "done"]
Phases == {"off", "asked", "begun", "scored", "read", "indexed", "done"}

EdgeTypeOK == /\ runs \in 0 .. MaxRuns
              /\ isRunning \in BOOLEAN
              /\ runCount \in Nat /\ savedCount \in Nat
              /\ job \in [Threads -> [phase : Phases, at : Nat,
                                      results : SUBSET LocalEntities, read : [LocalEntities -> Nat]]]
              /\ index \in [LocalEntities -> Nat]
              /\ artifact \in BOOLEAN
              /\ published \in [LocalEntities -> Nat]
              /\ age \in Nat /\ skipped \in Nat
              /\ overlapped \in BOOLEAN /\ torn \in BOOLEAN
              /\ crashes \in 0 .. MaxCrashes

EdgeInit == /\ runs = 0 /\ isRunning = FALSE
            /\ runCount = 0 /\ savedCount = 0
            /\ job = [t \in Threads |-> Off]
            /\ index = EmptyIndex /\ artifact = FALSE
            /\ published = [e \in LocalEntities |-> 0]
            /\ age = 0 /\ skipped = 0
            /\ overlapped = FALSE /\ torn = FALSE
            /\ crashes = 0

UnderWay == {t \in Threads : job[t].phase \notin {"off", "asked"}}

-----------------------------------------------------------------------------
\* trigger_run: the flag is tested in the request, the run starts later.
Ask(t) == /\ t # Scheduler
          /\ job[t].phase = "off"
          /\ ~isRunning
          /\ job' = [job EXCEPT ![t].phase = "asked"]
          /\ UNCHANGED <<runs, isRunning, runCount, savedCount, index, artifact,
                         published, age, skipped, overlapped, torn, crashes>>

\* The first lines of _run_pipeline.
Begin(t) == /\ job[t].phase = IF t = Scheduler THEN "off" ELSE "asked"
            /\ runs < MaxRuns
            /\ runs' = runs + 1
            /\ isRunning' = TRUE
            /\ job' = [job EXCEPT ![t].phase = "begun", ![t].at = runs + 1]
            /\ overlapped' = (overlapped \/ UnderWay # {})
            /\ UNCHANGED <<runCount, savedCount, index, artifact, published,
                           age, skipped, torn, crashes>>

\* Mutant: the number of the run is compared with the interval plus one.
OnScheduleLate == runCount % (RetrainEvery + 1) = 0

\* _should_retrain, for the run of number runCount + 1.
OnSchedule == runCount % RetrainEvery = 0

\* run_gnn: no records, no training; a model that cannot be loaded is trained
\* again; POST /run may ask for it.
Train(t) == \/ OnSchedule
            \/ ~artifact
            \/ t # Scheduler

Score(t) ==
    /\ job[t].phase = "begun"
    /\ \E R \in SUBSET LocalEntities, retrain \in BOOLEAN :
         /\ job' = [job EXCEPT ![t].phase = "scored", ![t].results = R]
         /\ retrain => R # {} /\ Train(t)
         /\ (R # {} /\ (OnSchedule \/ ~artifact)) => retrain
         /\ artifact' = (artifact \/ retrain)
         /\ age' = IF retrain THEN 0 ELSE age
         /\ skipped' = CASE retrain -> 0
                         [] R = {} /\ OnSchedule -> skipped + 1
                         [] OTHER -> skipped
    /\ UNCHANGED <<runs, isRunning, runCount, savedCount, index,
                   published, overlapped, torn, crashes>>

\* update_hash_index reads the file, ...
ReadIndex(t) == /\ job[t].phase = "scored"
                /\ job' = [job EXCEPT ![t].phase = "read", ![t].read = index]
                /\ UNCHANGED <<runs, isRunning, runCount, savedCount, index, artifact,
                               published, age, skipped, overlapped, torn, crashes>>

\* Mutant: entries are kept for one run less.
StaleEarly(t, e) == job[t].read[e] + Retention <= job[t].at

\* _prune_hash_entries: not seen since the retention.
Stale(t, e) == job[t].read[e] + Retention < job[t].at

\* ... prunes it, adds the results, and writes it back.
Indexed(t) == [e \in LocalEntities |-> IF e \in job[t].results THEN job[t].at
                                  ELSE IF Stale(t, e) THEN 0 ELSE job[t].read[e]]

WriteIndex(t) == /\ job[t].phase = "read"
                 /\ index' = Indexed(t)
                 /\ job' = [job EXCEPT ![t].phase = "indexed", ![t].read = EmptyIndex]
                 /\ UNCHANGED <<runs, isRunning, runCount, savedCount, artifact,
                                published, age, skipped, overlapped, torn, crashes>>

\* Only a run that published, or had nothing to publish, is counted.
Count(ok) == runCount' = IF ok THEN runCount + 1 ELSE runCount

\* publish: the hub gets the high-risk results. The hub's refusal or a lost
\* answer fails the run.
Publish(t) ==
    /\ job[t].phase = "indexed"
    /\ \E H \in SUBSET job[t].results :
         published' = [e \in LocalEntities |-> IF e \in H THEN job[t].at ELSE published[e]]
    /\ \E ok \in BOOLEAN :
         /\ Count(ok)
         /\ age' = IF ok THEN age + 1 ELSE age
    /\ job' = [job EXCEPT ![t] = Done]
    /\ UNCHANGED <<runs, isRunning, savedCount, index, artifact, skipped,
                   overlapped, torn, crashes>>

\* An exception before: the connector, the model, the index.
Fail(t) == /\ job[t].phase \in {"begun", "scored", "read"}
           /\ job' = [job EXCEPT ![t] = Done]
           /\ UNCHANGED <<runs, isRunning, runCount, savedCount, index, artifact,
                          published, age, skipped, overlapped, torn, crashes>>

\* The finally block, whichever run is still under way.
Finish(t) == /\ job[t].phase = "done"
             /\ isRunning' = FALSE
             /\ savedCount' = runCount
             /\ job' = [job EXCEPT ![t] = Off]
             /\ UNCHANGED <<runs, runCount, index, artifact, published, age, skipped,
                            overlapped, torn, crashes>>

InPhase(p) == \E t \in Threads : job[t].phase = p

\* The service stops and starts again from its files. One that was being
\* written is unreadable: the state (count 0), the index, or the model.
Crash ==
    /\ crashes < MaxCrashes
    /\ crashes' = crashes + 1
    /\ job' = [t \in Threads |-> Off]
    /\ isRunning' = FALSE
    /\ \E c \in {savedCount} \cup (IF InPhase("done") THEN {0} ELSE {}) :
         savedCount' = c /\ runCount' = c
    /\ \/ UNCHANGED <<index, torn>>
       \/ InPhase("read") /\ index' = EmptyIndex /\ torn' = TRUE
    /\ artifact' \in {artifact, artifact /\ ~InPhase("begun")}
    /\ UNCHANGED <<runs, published, age, skipped, overlapped>>

-----------------------------------------------------------------------------
EdgeNext == \/ \E t \in Threads :
                 Ask(t) \/ Begin(t) \/ Score(t) \/ ReadIndex(t) \/ WriteIndex(t)
                 \/ Publish(t) \/ Fail(t) \/ Finish(t)
            \/ Crash

EdgeSpec == EdgeInit /\ [][EdgeNext]_edgeVars

-----------------------------------------------------------------------------
(* Correctness.                                                            *)

\* warning_resolver.py:5, the index lets warnings "be resolved back to the
\* agency's raw identifiers": what was published within the retention can be,
\* unless two runs wrote the index at once or a crash tore it.
PublishedIsIndexed ==
    ~overlapped /\ ~torn =>
        \A e \in LocalEntities :
            published[e] # 0 /\ published[e] + Retention >= runs => index[e] # 0

\* The model is never older than the interval (RETRAIN_EVERY), counting once
\* more each scheduled training that found no records and each crash. Runs at
\* once may step over the number on which training is due.
RetrainedInTime ==
    ~overlapped => age <= RetrainEvery * (1 + skipped) + crashes
=============================================================================
