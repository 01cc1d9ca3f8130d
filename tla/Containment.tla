---------------------------- MODULE Containment ----------------------------
(***************************************************************************)
(* defense/service.py, defense/executor.py and                             *)
(* analytics/layer3/auto_containment_worker.py: blocking an IP at a        *)
(* partner, and rolling a block back, by webhook.                          *)
(*                                                                         *)
(* Analysts' requests (Handlers) work through a batch of actions and       *)
(* commit a containment_action row after each. Automatic runs (Workers)    *)
(* work through the predictions of a window and commit all rows at the     *)
(* end. Both post first and record later, and decide what to post from     *)
(* the rows committed so far.                                              *)
(*                                                                         *)
(* One section, the action types block_ip and rollback_block_ip. The rows  *)
(* of the other webhook actions are handled as those of block_ip.          *)
(***************************************************************************)
EXTENDS Naturals, Sequences, FiniteSets

CONSTANTS Targets, Handlers, Workers,
          Windows,              \* windows of predictions, a set of numbers
          RollbackWindow,       \* DEFENSE_ROLLBACK_WINDOW_MINUTES
          Cooldown,             \* AI_AUTO_CONTAINMENT_COOLDOWN_MINUTES
          MaxActions,           \* AI_AUTO_CONTAINMENT_MAX_ACTIONS_PER_RUN, 0 for none
          MaxNow, MaxItems,     \* bounds on the clock and on what is begun
          None

ASSUME NumbersAssumption ==
    /\ Windows \subseteq Nat \ {0}
    /\ {RollbackWindow, Cooldown, MaxActions, MaxItems} \subseteq Nat
    /\ MaxNow \in Nat \ {0}
ASSUME NoneAssumption == None \notin Targets

VARIABLES now,
          rows,                 \* containment_action, in commit order
          runs,                 \* incident_playbook_run of the automation
          made,                 \* runs created so far
          applied,              \* CONTAINMENT_APPLIED events in the ledger
          hpc, job,             \* per handler: step, action in hand
          pending,              \* per handler: events written, not committed
          wpc, todo,            \* per worker: step, predictions left
          run, mine, target,    \* per worker: its run, its rows, its target
          begun                 \* batches, their actions and automatic runs begun

db == <<rows, runs, made, applied>>
handlerVars == <<hpc, job, pending>>
workerVars == <<wpc, todo, run, mine, target>>
vars == <<now, db, handlerVars, workerVars, begun>>

Types == {"block_ip", "rollback_block_ip"}
Statuses == {"executed", "no_integration", "failed"}

\* The run of the analysts' incident, and none yet.
Incident == [id |-> 0, window |-> 0]
Runs == [id : Nat, window : Windows] \cup {Incident}

\* A row; at is executed_at (0 until it is flushed), of the row a rollback
\* undoes (0 for none).
Actions == [type : Types, target : Targets, status : Statuses, at : Nat,
            of : Nat, run : Runs]
Jobs == [type : Types, target : Targets, status : Statuses, of : Nat]
NoJob == [type |-> None]

TypeOK == /\ now \in 1 .. MaxNow
          /\ rows \in Seq(Actions)
          /\ \A i \in 1 .. Len(rows) : rows[i].at \in 1 .. now /\ rows[i].of < i
          /\ runs \subseteq Runs
          /\ made \in Nat
          /\ \A r \in runs : r.id \in 1 .. made
          /\ applied \subseteq Types \X Targets
          /\ hpc \in [Handlers -> {"idle", "item", "post", "record", "event"}]
          /\ job \in [Handlers -> Jobs \cup {NoJob}]
          /\ \A h \in Handlers : job[h] = NoJob <=> hpc[h] \in {"idle", "item"}
          /\ pending \in [Handlers -> SUBSET (Types \X Targets)]
          /\ wpc \in [Workers -> {"idle", "select", "post"}]
          /\ todo \in [Workers -> SUBSET Targets]
          /\ run \in [Workers -> Runs]
          /\ mine \in [Workers -> Seq(Actions)]
          /\ target \in [Workers -> Targets \cup {None}]
          /\ begun \in 0 .. MaxItems

Init == /\ now = 1
        /\ rows = <<>> /\ runs = {} /\ made = 0 /\ applied = {}
        /\ hpc = [h \in Handlers |-> "idle"]
        /\ job = [h \in Handlers |-> NoJob]
        /\ pending = [h \in Handlers |-> {}]
        /\ wpc = [w \in Workers |-> "idle"]
        /\ todo = [w \in Workers |-> {}]
        /\ run = [w \in Workers |-> Incident]
        /\ mine = [w \in Workers |-> <<>>]
        /\ target = [w \in Workers |-> None]
        /\ begun = 0

Tick == /\ now < MaxNow
        /\ now' = now + 1
        /\ UNCHANGED <<db, handlerVars, workerVars, begun>>

Begin == begun < MaxItems /\ begun' = begun + 1

-----------------------------------------------------------------------------
(* dispatch_containment_action: whether a webhook is registered, whether   *)
(* the partner answers and what it does are not the service's to decide.   *)
(* A request that failed for the service, by timeout, may have been        *)
(* carried out.                                                            *)
Outcomes == {"delivered", "no_webhook", "failed"}

\* _containment_status_from_webhook_status.
StatusOf(outcome) == CASE outcome = "delivered" -> "executed"
                       [] outcome = "no_webhook" -> "no_integration"
                       [] OTHER -> "failed"

\* The automatic run has a mapping of its own.
AutoStatusOf(outcome) == IF outcome = "failed" THEN "failed" ELSE "executed"

-----------------------------------------------------------------------------
(* Handlers: execute_run_actions.                                          *)

Goto(h, step) == hpc' = [hpc EXCEPT ![h] = step]

Open(h) == /\ hpc[h] = "idle"
           /\ Begin
           /\ Goto(h, "item")
           /\ UNCHANGED <<now, db, job, pending, workerVars>>

Take(h, j, step) == /\ hpc[h] = "item"
                    /\ job' = [job EXCEPT ![h] = j]
                    /\ Goto(h, step)
                    /\ UNCHANGED <<now, db, pending, workerVars>>

Job(type, t, status, of) ==
    [type |-> type, target |-> t, status |-> status, of |-> of]

Block(h, t) == /\ Begin
               /\ \E o \in Outcomes : Take(h, Job("block_ip", t, StatusOf(o), 0), "record")

Executed(type, t) == {i \in 1 .. Len(rows) : /\ rows[i].type = type
                                             /\ rows[i].target = t
                                             /\ rows[i].status = "executed"}

\* _latest_executed_block_ip_action.
LatestBlock(t) == {i \in Executed("block_ip", t) :
                      \A k \in Executed("block_ip", t) : rows[k].at <= rows[i].at}

\* Mutant: an earlier rollback is not looked for.
NotRolledBack(i) == FALSE

\* _rollback_already_executed. Its limit of 50 rows leaves out none that counts:
\* only the latest block is rolled back.
RolledBack(i) == \E k \in Executed("rollback_block_ip", rows[i].target) : rows[k].of = i

InTime(i) == now - rows[i].at <= RollbackWindow

\* The checks of rollback_block_ip, made before anything is posted.
Refused(t) == \/ LatestBlock(t) = {}
              \/ \E i \in LatestBlock(t) : ~InTime(i) \/ RolledBack(i)

Rollback(h, t) ==
    /\ Begin
    /\ \/ /\ Refused(t)
          /\ Take(h, Job("rollback_block_ip", t, "failed", 0), "record")
       \/ \E i \in LatestBlock(t) :
             /\ InTime(i) /\ ~RolledBack(i)
             /\ Take(h, Job("rollback_block_ip", t, "failed", i), "post")

PostUnblock(h) == /\ hpc[h] = "post"
                  /\ \E o \in Outcomes : job' = [job EXCEPT ![h].status = StatusOf(o)]
                  /\ Goto(h, "record")
                  /\ UNCHANGED <<now, db, pending, workerVars, begun>>

RowOf(j) == [type |-> j.type, target |-> j.target, status |-> j.status, at |-> now,
             of |-> j.of, run |-> Incident]

\* Mutant: the event is written whatever the status.
RecordAny(h) == /\ hpc[h] = "record"
                /\ rows' = Append(rows, RowOf(job[h]))
                /\ applied' = applied \cup pending[h]
                /\ pending' = [pending EXCEPT ![h] = {}]
                /\ Goto(h, "event")
                /\ UNCHANGED <<now, runs, made, job, workerVars, begun>>

\* The audit commits the row, and the event of the action before it.
Record(h) == /\ hpc[h] = "record"
             /\ rows' = Append(rows, RowOf(job[h]))
             /\ applied' = applied \cup pending[h]
             /\ pending' = [pending EXCEPT ![h] = {}]
             /\ IF job[h].status = "executed"
                THEN Goto(h, "event") /\ UNCHANGED job
                ELSE Goto(h, "item") /\ job' = [job EXCEPT ![h] = NoJob]
             /\ UNCHANGED <<now, runs, made, workerVars, begun>>

\* The event that is still to be committed; its hash is made of run, type and
\* target, so there is one of each for the incident.
EventOf(j) == <<j.type, j.target>>

WriteEvent(h) ==
    /\ hpc[h] = "event"
    /\ \A g \in Handlers \ {h} : EventOf(job[h]) \notin pending[g]
    /\ pending' = [pending EXCEPT ![h] = @ \cup ({EventOf(job[h])} \ applied)]
    /\ job' = [job EXCEPT ![h] = NoJob]
    /\ Goto(h, "item")
    /\ UNCHANGED <<now, db, workerVars, begun>>

CloseBatch(h) == /\ hpc[h] = "item"
                 /\ applied' = applied \cup pending[h]
                 /\ pending' = [pending EXCEPT ![h] = {}]
                 /\ Goto(h, "idle")
                 /\ UNCHANGED <<now, rows, runs, made, job, workerVars, begun>>

\* A database error (a failed write of the event among them: it is swallowed,
\* and the next use of the session raises) or a crash.
Fail(h) == /\ hpc[h] # "idle"
           /\ Goto(h, "idle")
           /\ job' = [job EXCEPT ![h] = NoJob]
           /\ pending' = [pending EXCEPT ![h] = {}]
           /\ UNCHANGED <<now, db, workerVars, begun>>

-----------------------------------------------------------------------------
(* Workers: run_once of the automation.                                    *)

Leave(w) == /\ wpc' = [wpc EXCEPT ![w] = "idle"]
            /\ todo' = [todo EXCEPT ![w] = {}]
            /\ run' = [run EXCEPT ![w] = Incident]
            /\ mine' = [mine EXCEPT ![w] = <<>>]
            /\ target' = [target EXCEPT ![w] = None]

\* The predictions of the window that pass the gates on score, uncertainty,
\* stage, target and section.
StartRun(w) == /\ wpc[w] = "idle"
               /\ Begin
               /\ \E S \in SUBSET Targets \ {{}} : todo' = [todo EXCEPT ![w] = S]
               /\ \E win \in Windows : run' = [run EXCEPT ![w] = [id |-> 0, window |-> win]]
               /\ wpc' = [wpc EXCEPT ![w] = "select"]
               /\ UNCHANGED <<now, db, handlerVars, mine, target>>

\* Mutant: the search for a recent action is by the run.
RecentInRun(w, t) == \E i \in Executed("block_ip", t) :
                        rows[i].at + Cooldown >= now /\ rows[i].run = run[w]

\* _recent_duplicate_action_exists, which asks for Cooldown > 0.
Recent(w, t) == /\ Cooldown > 0
                /\ \E i \in Executed("block_ip", t) : rows[i].at + Cooldown >= now

\* _get_or_create_run: the latest run of the window that is committed, unless
\* this worker has made one.
RunsOf(win) == {r \in runs : r.window = win}
LatestRun(win) == {r \in RunsOf(win) : \A q \in RunsOf(win) : q.id <= r.id}

GetOrCreateRun(w) ==
    LET win == run[w].window
    IN  IF run[w].id # 0 THEN UNCHANGED <<run, made>>
        ELSE IF RunsOf(win) # {}
        THEN /\ \E r \in LatestRun(win) : run' = [run EXCEPT ![w] = r]
             /\ UNCHANGED made
        ELSE /\ made' = made + 1
             /\ run' = [run EXCEPT ![w].id = made + 1]

\* Mutant: a failed action does not count.
ExecutedInRun(r, t) == \E i \in 1 .. Len(rows) :
                          rows[i].run = r /\ rows[i].target = t /\ rows[i].status = "executed"

InRun(r, t) == \E i \in 1 .. Len(rows) : rows[i].run = r /\ rows[i].target = t

Room(w) == MaxActions = 0 \/ Len(mine[w]) < MaxActions

SelectTarget(w, t) ==
    /\ wpc[w] = "select" /\ t \in todo[w] /\ Room(w)
    /\ todo' = [todo EXCEPT ![w] = @ \ {t}]
    /\ IF Recent(w, t)
       THEN UNCHANGED <<wpc, target, run, made>>
       ELSE /\ GetOrCreateRun(w)
            /\ IF InRun(run'[w], t)
               THEN UNCHANGED <<wpc, target>>
               ELSE /\ target' = [target EXCEPT ![w] = t]
                    /\ wpc' = [wpc EXCEPT ![w] = "post"]
    /\ UNCHANGED <<now, rows, runs, applied, handlerVars, mine, begun>>

\* A row gets its executed_at when the session flushes it.
Flushed(s) == [i \in 1 .. Len(s) |-> IF s[i].at = 0 THEN [s[i] EXCEPT !.at = now] ELSE s[i]]

AutoRow(w, outcome) ==
    [type |-> "block_ip", target |-> target[w], status |-> AutoStatusOf(outcome), at |-> 0,
     of |-> 0, run |-> run[w]]

PostBlock(w) == /\ wpc[w] = "post"
                /\ \E o \in Outcomes :
                     mine' = [mine EXCEPT ![w] = Append(Flushed(@), AutoRow(w, o))]
                /\ target' = [target EXCEPT ![w] = None]
                /\ wpc' = [wpc EXCEPT ![w] = "select"]
                /\ UNCHANGED <<now, db, handlerVars, todo, run, begun>>

Commit(w) == /\ rows' = rows \o Flushed(mine[w])
             /\ runs' = IF run[w].id = 0 THEN runs ELSE runs \cup {run[w]}

FinishRun(w) == /\ wpc[w] = "select" /\ (todo[w] = {} \/ ~Room(w))
                /\ Commit(w)
                /\ Leave(w)
                /\ UNCHANGED <<now, made, applied, handlerVars, begun>>

\* A crash or an error. run_post_prediction_pipeline swallows the error, and its
\* next stage may commit what the session holds.
FailRun(w) == /\ wpc[w] # "idle"
              /\ Commit(w) \/ UNCHANGED <<rows, runs>>
              /\ Leave(w)
              /\ UNCHANGED <<now, made, applied, handlerVars, begun>>

-----------------------------------------------------------------------------
Handle(h) == \/ Open(h) \/ PostUnblock(h) \/ Record(h) \/ WriteEvent(h)
             \/ CloseBatch(h) \/ Fail(h)
             \/ \E t \in Targets : Block(h, t) \/ Rollback(h, t)

Automate(w) == \/ StartRun(w) \/ PostBlock(w) \/ FinishRun(w) \/ FailRun(w)
               \/ \E t \in Targets : SelectTarget(w, t)

Next == Tick \/ (\E h \in Handlers : Handle(h)) \/ (\E w \in Workers : Automate(w))

Spec == Init /\ [][Next]_vars

-----------------------------------------------------------------------------
(* Correctness.                                                            *)

AutoRows == {i \in 1 .. Len(rows) : rows[i].run # Incident}

\* MISSION_LOOP_DEMO.md:87, "duplicate rollback for same original action is
\* rejected": also over failed attempts, lost records and repeated batches. With
\* one request at a time the code keeps this, with two it does not.
RolledBackOnce ==
    \A i, k \in 1 .. Len(rows) :
        (/\ rows[i].type = "rollback_block_ip" /\ rows[i].status = "executed"
         /\ rows[k].type = "rollback_block_ip" /\ rows[k].status = "executed"
         /\ rows[i].of = rows[k].of) => i = k

\* A CONTAINMENT_APPLIED event is of an action the incident carried out: the
\* feature worker never lowers the risk of an entity nobody contained.
EventHasAction == \A e \in applied : \E i \in Executed(e[1], e[2]) : rows[i].run = Incident

\* Two automatic blocks on record that were carried out are a cooldown apart.
RecordsApart ==
    \A i, k \in AutoRows :
        (/\ i < k /\ rows[i].target = rows[k].target
         /\ rows[i].status = "executed") => rows[k].at > rows[i].at + Cooldown

\* A worker about to post a block is past the cooldown of those on record.
PostsApart ==
    \A w \in Workers : \A i \in AutoRows :
        (/\ wpc[w] = "post" /\ rows[i].target = target[w]
         /\ rows[i].status = "executed") => now > rows[i].at + Cooldown

\* The automation neither records nor posts a block within the cooldown of one it
\* has on record as carried out, whatever windows it works on, although a row gets
\* its time at a flush, possibly several posts after its block was decided on. For
\* one worker. It is silent on a block whose run failed before its commit: that
\* one is on no record (see PostedCooldownKept in MCContainmentPosts).
RecordedCooldownKept == RecordsApart /\ PostsApart

\* A window's run acts once on a target: a failed block is left to the next
\* window. For one worker.
OncePerWindow ==
    \A i, k \in AutoRows :
        (rows[i].target = rows[k].target /\ rows[i].run.window = rows[k].run.window)
            => i = k
=============================================================================
