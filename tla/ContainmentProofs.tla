------------------------- MODULE ContainmentProofs -------------------------
(***************************************************************************)
(* Proofs about Containment, for any targets, windows and cooldown: types, *)
(* that an event in the ledger has its action whatever runs at the same    *)
(* time, and, for one handler or one automatic run at a time, that a block *)
(* is rolled back once, a window acts once on a target and the cooldown    *)
(* holds.                                                                  *)
(***************************************************************************)
EXTENDS Containment, SequenceTheorems, TLAPS

USE NumbersAssumption, NoneAssumption

-----------------------------------------------------------------------------
(* Types.                                                                  *)

\* What a worker holds is of its own run, which has an id before anything is
\* posted.
WorkerOK(w) ==
    /\ wpc[w] = "idle" => run[w] = Incident /\ mine[w] = <<>>
    /\ wpc[w] # "idle" => run[w] \in [id : 0 .. made, window : Windows]
    /\ wpc[w] = "post" => target[w] \in Targets /\ run[w].id # 0
    /\ \A j \in 1 .. Len(mine[w]) :
          /\ mine[w][j].type = "block_ip" /\ mine[w][j].of = 0
          /\ mine[w][j].at \in 0 .. now /\ mine[w][j].run = run[w]
          /\ run[w].id # 0

WorkersOK == \A w \in Workers : WorkerOK(w)

JobsOK == \A h \in Handlers :
             hpc[h] \in {"post", "record", "event"} =>
                job[h] \in Jobs /\ job[h].of \in 0 .. Len(rows)

ContainInv == TypeOK /\ WorkersOK /\ JobsOK

LEMMA AppendRow ==
    ASSUME NEW s \in Seq(Actions), NEW r \in Actions, NEW t, t = Append(s, r)
    PROVE  /\ t \in Seq(Actions)
           /\ Len(t) = Len(s) + 1
           /\ \A i \in 1 .. Len(s) : t[i] = s[i]
           /\ t[Len(s) + 1] = r
OBVIOUS

\* Flushing gives the rows that have none their time, and changes nothing else.
LEMMA FlushedRows ==
    ASSUME NEW s \in Seq(Actions), now \in Nat
    PROVE  /\ Flushed(s) \in Seq(Actions)
           /\ Len(Flushed(s)) = Len(s)
           /\ \A i \in 1 .. Len(s) :
                 /\ Flushed(s)[i].type = s[i].type
                 /\ Flushed(s)[i].target = s[i].target
                 /\ Flushed(s)[i].status = s[i].status
                 /\ Flushed(s)[i].of = s[i].of
                 /\ Flushed(s)[i].run = s[i].run
                 /\ Flushed(s)[i].at = IF s[i].at = 0 THEN now ELSE s[i].at
<1> DEFINE F(i) == IF s[i].at = 0 THEN [s[i] EXCEPT !.at = now] ELSE s[i]
<1>1. Len(s) \in Nat /\ \A i \in 1 .. Len(s) : s[i] \in Actions
  BY LenProperties, ElementOfSeq
<1>2. ASSUME NEW i \in 1 .. Len(s)
      PROVE  /\ F(i) \in Actions
             /\ F(i).type = s[i].type /\ F(i).target = s[i].target
             /\ F(i).status = s[i].status /\ F(i).of = s[i].of
             /\ F(i).run = s[i].run
             /\ F(i).at = IF s[i].at = 0 THEN now ELSE s[i].at
  BY <1>1 DEF Actions
<1>3. Flushed(s) = [i \in 1 .. Len(s) |-> F(i)]
  BY DEF Flushed
<1> HIDE DEF F
<1>4. Flushed(s) \in [1 .. Len(s) -> Actions]
  BY <1>2, <1>3
<1>5. Flushed(s) \in Seq(Actions)
  BY <1>1, <1>4, SeqDef
<1>6. Len(Flushed(s)) = Len(s)
  BY <1>1, <1>3, <1>5, LenProperties
<1>7. QED
  BY <1>2, <1>3, <1>5, <1>6

\* What one step does to the rows: nothing, a handler's row, or a worker's rows.
LEMMA CommittedRows ==
    ASSUME ContainInv, NEW w \in Workers, rows' = rows \o Flushed(mine[w])
    PROVE  /\ rows' \in Seq(Actions)
           /\ Len(rows) \in Nat /\ Len(mine[w]) \in Nat
           /\ Len(rows') = Len(rows) + Len(mine[w])
           /\ \A i \in 1 .. Len(rows) : rows'[i] = rows[i]
           /\ \A i \in 1 .. Len(rows') : i \in 1 .. Len(rows) \/
                 \E j \in 1 .. Len(mine[w]) :
                    /\ i = Len(rows) + j
                    /\ rows'[i].type = "block_ip" /\ rows'[i].of = 0
                    /\ rows'[i].target = mine[w][j].target
                    /\ rows'[i].status = mine[w][j].status
                    /\ rows'[i].run = run[w]
                    /\ rows'[i].at = IF mine[w][j].at = 0 THEN now ELSE mine[w][j].at
<1> DEFINE f == Flushed(mine[w])
<1>1. /\ rows \in Seq(Actions) /\ mine[w] \in Seq(Actions) /\ now \in Nat
      /\ \A j \in 1 .. Len(mine[w]) :
            mine[w][j].type = "block_ip" /\ mine[w][j].of = 0 /\ mine[w][j].run = run[w]
  BY DEF ContainInv, TypeOK, WorkersOK, WorkerOK
<1>2. /\ f \in Seq(Actions) /\ Len(f) = Len(mine[w])
      /\ \A j \in 1 .. Len(mine[w]) :
            /\ f[j].type = mine[w][j].type /\ f[j].target = mine[w][j].target
            /\ f[j].status = mine[w][j].status /\ f[j].of = mine[w][j].of
            /\ f[j].run = mine[w][j].run
            /\ f[j].at = IF mine[w][j].at = 0 THEN now ELSE mine[w][j].at
  BY <1>1, FlushedRows, SMTT(30)
<1> HIDE DEF f
<1>3. Len(rows) \in Nat /\ Len(mine[w]) \in Nat /\ rows' = rows \o f
  BY <1>1, LenProperties DEF f
<1>4. /\ rows' \in Seq(Actions) /\ Len(rows') = Len(rows) + Len(f)
      /\ \A i \in 1 .. Len(rows) + Len(f) :
            rows'[i] = IF i <= Len(rows) THEN rows[i] ELSE f[i - Len(rows)]
  <2>1. /\ rows \o f \in Seq(Actions) /\ Len(rows \o f) = Len(rows) + Len(f)
        /\ \A i \in 1 .. Len(rows) + Len(f) :
              (rows \o f)[i] = IF i <= Len(rows) THEN rows[i] ELSE f[i - Len(rows)]
    <3>1. rows \in Seq(Actions) /\ f \in Seq(Actions)
      BY <1>1, <1>2
    <3>2. QED
      BY <3>1, ConcatProperties, ZenonT(30)
  <2>2. QED
    BY <1>3, <2>1, Zenon
<1>5. ASSUME NEW i \in 1 .. Len(rows'), i \notin 1 .. Len(rows)
      PROVE  \E j \in 1 .. Len(mine[w]) : i = Len(rows) + j /\ rows'[i] = f[j]
  <2>1. i - Len(rows) \in 1 .. Len(mine[w]) /\ i = Len(rows) + (i - Len(rows))
    BY <1>2, <1>3, <1>4, <1>5
  <2>2. rows'[i] = f[i - Len(rows)]
    BY <1>2, <1>3, <1>4, <1>5
  <2>3. QED
    BY <2>1, <2>2
<1>6. QED
  <2>1. \A i \in 1 .. Len(rows) : rows'[i] = rows[i]
    BY <1>2, <1>3, <1>4
  <2>2. ASSUME NEW i \in 1 .. Len(rows'), i \notin 1 .. Len(rows)
        PROVE  \E j \in 1 .. Len(mine[w]) :
                    /\ i = Len(rows) + j
                    /\ rows'[i].type = "block_ip" /\ rows'[i].of = 0
                    /\ rows'[i].target = mine[w][j].target
                    /\ rows'[i].status = mine[w][j].status
                    /\ rows'[i].run = run[w]
                    /\ rows'[i].at = IF mine[w][j].at = 0 THEN now ELSE mine[w][j].at
    <3>1. PICK j \in 1 .. Len(mine[w]) : i = Len(rows) + j /\ rows'[i] = f[j]
      BY <1>5, <2>2
    <3>2. /\ f[j].type = "block_ip" /\ f[j].of = 0 /\ f[j].run = run[w]
          /\ f[j].target = mine[w][j].target /\ f[j].status = mine[w][j].status
          /\ f[j].at = IF mine[w][j].at = 0 THEN now ELSE mine[w][j].at
      BY <1>1, <1>2
    <3>3. WITNESS j \in 1 .. Len(mine[w])
    <3>4. QED
      BY <3>1, <3>2, Zenon
  <2>3. QED
    BY <1>2, <1>3, <1>4, <2>1, <2>2

LEMMA NoJobIsNoJob == NoJob \notin Jobs
<1>1. \A j \in Jobs : DOMAIN j = {"type", "target", "status", "of"}
  BY DEF Jobs
<1>2. DOMAIN NoJob = {"type"}
  BY DEF NoJob
<1>3. "of" \notin {"type"}
  OBVIOUS
<1>4. QED
  BY <1>1, <1>2, <1>3

LEMMA JobType ==
    ASSUME NEW type \in Types, NEW t \in Targets, NEW st \in Statuses, NEW of \in Nat
    PROVE  /\ Job(type, t, st, of) \in Jobs
           /\ Job(type, t, st, of).type = type /\ Job(type, t, st, of).target = t
           /\ Job(type, t, st, of).status = st /\ Job(type, t, st, of).of = of
BY DEF Job, Jobs

LEMMA StatusType == \A o \in Outcomes : StatusOf(o) \in Statuses /\ AutoStatusOf(o) \in Statuses
BY DEF Outcomes, StatusOf, AutoStatusOf, Statuses

\* The row of a handler's job.
LEMMA JobRow ==
    ASSUME ContainInv, NEW h \in Handlers, hpc[h] = "record"
    PROVE  /\ RowOf(job[h]) \in Actions
           /\ RowOf(job[h]).type = job[h].type /\ RowOf(job[h]).target = job[h].target
           /\ RowOf(job[h]).status = job[h].status /\ RowOf(job[h]).of = job[h].of
           /\ RowOf(job[h]).at = now /\ RowOf(job[h]).run = Incident
           /\ job[h] \in Jobs /\ job[h].of \in 0 .. Len(rows)
<1>1. job[h] \in Jobs /\ job[h].of \in 0 .. Len(rows) /\ now \in Nat
  BY DEF ContainInv, TypeOK, JobsOK
<1>2. QED
  BY <1>1 DEF RowOf, Actions, Jobs, Runs, Incident

LEMMA ContainInit == Init => ContainInv
<1> SUFFICES ASSUME Init PROVE ContainInv
  OBVIOUS
<1>1. TypeOK
  BY EmptySeq DEF Init, TypeOK, Runs, Incident
<1>2. WorkersOK /\ JobsOK
  BY DEF Init, WorkersOK, WorkerOK, JobsOK
<1>3. QED
  BY <1>1, <1>2 DEF ContainInv

\* A handler's step that leaves the database alone keeps the invariant if its
\* own step and job fit.
LEMMA HandlerStep ==
    ASSUME ContainInv, NEW h \in Handlers,
           NEW step \in {"idle", "item", "post", "record", "event"},
           NEW j \in Jobs \cup {NoJob},
           hpc' = [hpc EXCEPT ![h] = step], job' = [job EXCEPT ![h] = j],
           j = NoJob <=> step \in {"idle", "item"},
           j \in Jobs => j.of \in 0 .. Len(rows'),
           pending' \in [Handlers -> SUBSET (Types \X Targets)],
           applied' \subseteq Types \X Targets,
           rows' \in Seq(Actions), Len(rows') \in Nat, Len(rows) <= Len(rows'),
           \A i \in 1 .. Len(rows') : rows'[i].at \in 1 .. now /\ rows'[i].of < i,
           UNCHANGED <<now, runs, made, workerVars>>, begun' \in 0 .. MaxItems
    PROVE  ContainInv'
<1>1. TypeOK'
  BY DEF ContainInv, TypeOK, workerVars
<1>2. WorkersOK'
  BY DEF ContainInv, WorkersOK, WorkerOK, workerVars
<1>3. JobsOK'
  <2>1. ASSUME NEW g \in Handlers, g # h, hpc[g] \in {"post", "record", "event"}
        PROVE  job[g] \in Jobs /\ job[g].of \in 0 .. Len(rows')
    <3>1. job[g] \in Jobs /\ job[g].of \in 0 .. Len(rows) /\ Len(rows) \in Nat
      BY <2>1, LenProperties DEF ContainInv, JobsOK, TypeOK
    <3>2. QED
      BY <3>1
  <2>2. /\ hpc' \in [Handlers -> {"idle", "item", "post", "record", "event"}]
        /\ \A g \in Handlers : /\ hpc'[g] = IF g = h THEN step ELSE hpc[g]
                               /\ job'[g] = IF g = h THEN j ELSE job[g]
    BY DEF ContainInv, TypeOK
  <2>3. QED
    BY <2>1, <2>2 DEF JobsOK
<1>4. QED
  BY <1>1, <1>2, <1>3 DEF ContainInv

LEMMA HandlerMove ==
    ASSUME ContainInv, NEW h \in Handlers,
           NEW step \in {"idle", "item", "post", "record", "event"},
           NEW j \in Jobs \cup {NoJob},
           hpc' = [hpc EXCEPT ![h] = step], job' = [job EXCEPT ![h] = j],
           j = NoJob <=> step \in {"idle", "item"},
           j \in Jobs => j.of \in 0 .. Len(rows),
           pending' \in [Handlers -> SUBSET (Types \X Targets)],
           applied' \subseteq Types \X Targets,
           UNCHANGED <<now, rows, runs, made, workerVars>>, begun' \in 0 .. MaxItems
    PROVE  ContainInv'
<1>1. /\ rows' \in Seq(Actions) /\ Len(rows') \in Nat /\ Len(rows) <= Len(rows')
      /\ \A i \in 1 .. Len(rows') : rows'[i].at \in 1 .. now /\ rows'[i].of < i
      /\ j \in Jobs => j.of \in 0 .. Len(rows')
      /\ UNCHANGED <<now, runs, made, workerVars>>
  BY LenProperties DEF ContainInv, TypeOK
<1>2. QED
  BY <1>1, HandlerStep

\* A worker's step keeps the invariant if the rows it may add and what it then
\* holds fit.
LEMMA WorkerStep ==
    ASSUME ContainInv, NEW w \in Workers,
           rows' \in Seq(Actions), Len(rows') \in Nat, Len(rows) <= Len(rows'),
           \A i \in 1 .. Len(rows') : rows'[i].at \in 1 .. now /\ rows'[i].of < i,
           UNCHANGED <<now, applied, handlerVars>>, begun' \in 0 .. MaxItems,
           made' \in Nat, made <= made',
           runs' \subseteq Runs, \A r \in runs' : r.id \in 1 .. made',
           wpc' \in [Workers -> {"idle", "select", "post"}],
           todo' \in [Workers -> SUBSET Targets], run' \in [Workers -> Runs],
           mine' \in [Workers -> Seq(Actions)], target' \in [Workers -> Targets \cup {None}],
           \A v \in Workers \ {w} : /\ wpc'[v] = wpc[v] /\ run'[v] = run[v]
                                    /\ mine'[v] = mine[v] /\ target'[v] = target[v],
           WorkerOK(w)'
    PROVE  ContainInv'
<1>1. TypeOK'
  BY DEF ContainInv, TypeOK, handlerVars
<1>2. WorkersOK'
  <2>1. ASSUME NEW v \in Workers, v # w PROVE WorkerOK(v)'
    <3>1. WorkerOK(v) /\ made \in Nat
      BY DEF ContainInv, WorkersOK, TypeOK
    <3>2. wpc[v] # "idle" => run[v] \in [id : 0 .. made', window : Windows]
      BY <3>1 DEF WorkerOK
    <3>3. /\ wpc'[v] = wpc[v] /\ run'[v] = run[v] /\ mine'[v] = mine[v]
          /\ target'[v] = target[v] /\ now' = now
      BY <2>1
    <3>4. QED
      BY <3>1, <3>2, <3>3 DEF WorkerOK
  <2>2. QED
    BY <2>1 DEF WorkersOK
<1>3. JobsOK'
  <2>1. Len(rows) \in Nat
    BY LenProperties DEF ContainInv, TypeOK
  <2>2. QED
    BY <2>1 DEF ContainInv, JobsOK, handlerVars
<1>4. QED
  BY <1>1, <1>2, <1>3 DEF ContainInv

LEMMA WorkerMove ==
    ASSUME ContainInv, NEW w \in Workers,
           UNCHANGED <<now, rows, runs, applied, handlerVars>>, begun' \in 0 .. MaxItems,
           made' \in Nat, made <= made',
           wpc' \in [Workers -> {"idle", "select", "post"}],
           todo' \in [Workers -> SUBSET Targets], run' \in [Workers -> Runs],
           mine' \in [Workers -> Seq(Actions)], target' \in [Workers -> Targets \cup {None}],
           \A v \in Workers \ {w} : /\ wpc'[v] = wpc[v] /\ run'[v] = run[v]
                                    /\ mine'[v] = mine[v] /\ target'[v] = target[v],
           WorkerOK(w)'
    PROVE  ContainInv'
<1>1. /\ rows' \in Seq(Actions) /\ Len(rows') \in Nat /\ Len(rows) <= Len(rows')
      /\ \A i \in 1 .. Len(rows') : rows'[i].at \in 1 .. now /\ rows'[i].of < i
      /\ runs' \subseteq Runs /\ UNCHANGED <<now, applied, handlerVars>>
  BY LenProperties DEF ContainInv, TypeOK
<1>2. \A q \in runs' : q.id \in 1 .. made'
  <2>1. made \in Nat /\ \A q \in runs : q.id \in 1 .. made
    BY DEF ContainInv, TypeOK
  <2>2. QED
    BY <2>1
<1>3. QED
  BY <1>1, <1>2, WorkerStep

LEMMA WorkerLeaves ==
    ASSUME ContainInv, NEW w \in Workers, Leave(w),
           rows' \in Seq(Actions), Len(rows') \in Nat, Len(rows) <= Len(rows'),
           \A i \in 1 .. Len(rows') : rows'[i].at \in 1 .. now /\ rows'[i].of < i,
           runs' \subseteq Runs, \A q \in runs' : q.id \in 1 .. made,
           UNCHANGED <<now, made, applied, handlerVars, begun>>
    PROVE  ContainInv'
<1>1. /\ begun' \in 0 .. MaxItems /\ made' \in Nat /\ made <= made'
      /\ \A q \in runs' : q.id \in 1 .. made'
      /\ UNCHANGED <<now, applied, handlerVars>>
  BY DEF ContainInv, TypeOK
<1>2. /\ wpc' \in [Workers -> {"idle", "select", "post"}]
      /\ todo' \in [Workers -> SUBSET Targets] /\ run' \in [Workers -> Runs]
      /\ mine' \in [Workers -> Seq(Actions)]
      /\ target' \in [Workers -> Targets \cup {None}]
      /\ \A v \in Workers \ {w} : /\ wpc'[v] = wpc[v] /\ run'[v] = run[v]
                                  /\ mine'[v] = mine[v] /\ target'[v] = target[v]
      /\ wpc'[w] = "idle" /\ run'[w] = Incident /\ mine'[w] = <<>>
  BY EmptySeq DEF ContainInv, TypeOK, Leave, Runs
<1>3. Len(mine'[w]) = 0
  BY <1>2, EmptySeq
<1>4. WorkerOK(w)'
  BY <1>2, <1>3 DEF WorkerOK
<1>5. QED
  BY <1>1, <1>2, <1>4, WorkerStep

\* The run a worker gets is its own, a committed one of its window, or new.
LEMMA GotRun ==
    ASSUME ContainInv, NEW w \in Workers, GetOrCreateRun(w),
           run[w] \in [id : 0 .. made, window : Windows]
    PROVE  \E r \in [id : 0 .. made', window : Windows] :
              /\ run' = [run EXCEPT ![w] = r] /\ r.id # 0
              /\ made' \in Nat /\ made <= made'
              /\ run[w].id # 0 => r = run[w]
              /\ r.window = run[w].window
              /\ run[w].id = 0 => r \in runs \/ RunsOf(run[w].window) = {}
<1>1. made \in Nat /\ run \in [Workers -> Runs]
      /\ runs \subseteq Runs /\ \A q \in runs : q.id \in 1 .. made
  BY DEF ContainInv, TypeOK
<1>2. CASE run[w].id # 0
  <2>1. run' = [run EXCEPT ![w] = run[w]] /\ made' = made
    BY <1>1, <1>2 DEF GetOrCreateRun
  <2>2. run[w] \in [id : 0 .. made', window : Windows]
    BY <2>1
  <2>3. WITNESS run[w] \in [id : 0 .. made', window : Windows]
  <2>4. QED
    BY <1>1, <1>2, <2>1
<1>3. CASE run[w].id = 0 /\ RunsOf(run[w].window) # {}
  <2>1. PICK r \in LatestRun(run[w].window) : run' = [run EXCEPT ![w] = r]
    BY <1>3 DEF GetOrCreateRun
  <2>2. made' = made
    BY <1>3 DEF GetOrCreateRun
  <2>3. r \in runs /\ r.window = run[w].window /\ r.id \in 1 .. made
    BY <1>1, <2>1 DEF LatestRun, RunsOf
  <2>4. r \in [id : 0 .. made, window : Windows]
    BY <1>1, <2>3 DEF Runs, Incident
  <2>5. r \in [id : 0 .. made', window : Windows]
    BY <2>2, <2>4
  <2>6. WITNESS r \in [id : 0 .. made', window : Windows]
  <2>7. QED
    BY <1>1, <1>3, <2>1, <2>2, <2>3
<1>4. CASE run[w].id = 0 /\ RunsOf(run[w].window) = {}
  <2>1. made' = made + 1 /\ run' = [run EXCEPT ![w].id = made + 1]
    BY <1>4 DEF GetOrCreateRun
  <2> DEFINE r == [run[w] EXCEPT !.id = made + 1]
  <2>2. run' = [run EXCEPT ![w] = r]
    BY <1>1, <2>1
  <2>3. r \in [id : 0 .. made + 1, window : Windows] /\ r.id = made + 1
        /\ r.window = run[w].window
    BY <1>1
  <2> HIDE DEF r
  <2>4. r \in [id : 0 .. made', window : Windows]
    BY <2>1, <2>3
  <2>5. made' \in Nat /\ made <= made' /\ r.id # 0
    BY <1>1, <2>1, <2>3
  <2>6. WITNESS r \in [id : 0 .. made', window : Windows]
  <2>7. QED
    BY <1>4, <2>2, <2>3, <2>5
<1>5. QED
  BY <1>2, <1>3, <1>4

\* The rows a worker holds after a post.
Posted(w, o) == Append(Flushed(mine[w]), AutoRow(w, o))

LEMMA PostedRows ==
    ASSUME ContainInv, NEW w \in Workers, wpc[w] = "post", NEW o \in Outcomes,
           NEW m, m = Posted(w, o)
    PROVE  /\ m \in Seq(Actions) /\ Len(mine[w]) \in Nat
           /\ Len(m) = Len(mine[w]) + 1
           /\ \A j \in 1 .. Len(m) :
                 /\ m[j].type = "block_ip" /\ m[j].of = 0 /\ m[j].at \in 0 .. now
                 /\ m[j].run = run[w]
           /\ \A j \in 1 .. Len(mine[w]) :
                 /\ m[j].target = mine[w][j].target
                 /\ m[j].at = IF mine[w][j].at = 0 THEN now ELSE mine[w][j].at
           /\ m[Len(m)].target = target[w] /\ m[Len(m)].at = 0
<1>1. /\ mine[w] \in Seq(Actions) /\ now \in Nat /\ now > 0 /\ run[w] \in Runs
      /\ target[w] \in Targets
      /\ \A j \in 1 .. Len(mine[w]) :
            /\ mine[w][j].type = "block_ip" /\ mine[w][j].of = 0
            /\ mine[w][j].at \in 0 .. now /\ mine[w][j].run = run[w]
  BY DEF ContainInv, TypeOK, WorkersOK, WorkerOK
<1> DEFINE f == Flushed(mine[w])
           a == AutoRow(w, o)
<1>2. /\ f \in Seq(Actions) /\ Len(f) = Len(mine[w]) /\ Len(mine[w]) \in Nat
      /\ \A j \in 1 .. Len(mine[w]) :
            /\ f[j].type = mine[w][j].type /\ f[j].target = mine[w][j].target
            /\ f[j].of = mine[w][j].of /\ f[j].run = mine[w][j].run
            /\ f[j].at = IF mine[w][j].at = 0 THEN now ELSE mine[w][j].at
  BY <1>1, FlushedRows, LenProperties, SMTT(30)
<1>3. /\ a \in Actions /\ a.type = "block_ip" /\ a.of = 0 /\ a.at = 0 /\ a.run = run[w]
      /\ a.target = target[w]
  BY <1>1, StatusType DEF AutoRow, Actions, Types
<1> HIDE DEF f, a
<1>4. /\ m \in Seq(Actions) /\ Len(m) = Len(f) + 1
      /\ \A j \in 1 .. Len(f) : m[j] = f[j]
      /\ m[Len(f) + 1] = a
  BY <1>2, <1>3, AppendRow DEF f, a, Posted
<1>5. ASSUME NEW j \in 1 .. Len(m), j \notin 1 .. Len(f) PROVE m[j] = a
  <2>1. j = Len(f) + 1
    BY <1>2, <1>4, <1>5
  <2>2. QED
    BY <1>4, <2>1
<1>6. \A j \in 1 .. Len(m) : j \in 1 .. Len(f) \/ m[j] = a
  BY <1>5
<1>7. ASSUME NEW j \in 1 .. Len(m)
      PROVE  /\ m[j].type = "block_ip" /\ m[j].of = 0 /\ m[j].at \in 0 .. now
             /\ m[j].run = run[w]
  <2>1. CASE j \in 1 .. Len(mine[w])
    <3>1. m[j] = f[j]
      BY <1>2, <1>4, <2>1
    <3>2. QED
      BY <1>1, <1>2, <2>1, <3>1
  <2>2. CASE m[j] = a
    BY <1>1, <1>3, <2>2
  <2>3. QED
    BY <1>2, <1>6, <2>1, <2>2
<1>8. Len(m) = Len(f) + 1 /\ m[Len(m)] = a
  BY <1>4
<1>9. QED
  BY <1>2, <1>3, <1>4, <1>7, <1>8, SMTT(60)

LEMMA ContainStep == ContainInv /\ [Next]_vars => ContainInv'
<1> SUFFICES ASSUME ContainInv, [Next]_vars PROVE ContainInv'
  OBVIOUS
<1>0. /\ rows \in Seq(Actions) /\ Len(rows) \in Nat /\ now \in 1 .. MaxNow
      /\ \A i \in 1 .. Len(rows) : rows[i].at \in 1 .. now /\ rows[i].of < i
      /\ begun \in 0 .. MaxItems /\ made \in Nat /\ applied \subseteq Types \X Targets
      /\ runs \subseteq Runs /\ \A r \in runs : r.id \in 1 .. made
      /\ pending \in [Handlers -> SUBSET (Types \X Targets)]
      /\ NoJob \notin Jobs
  BY LenProperties, NoJobIsNoJob DEF ContainInv, TypeOK
<1>1. CASE Tick
  <2>1. now' = now + 1 /\ now' \in 1 .. MaxNow
    BY <1>0, <1>1 DEF Tick
  <2>2. UNCHANGED <<rows, runs, made, applied, hpc, job, pending, wpc, todo, run, mine,
                    target, begun>>
    BY <1>1 DEF Tick, db, handlerVars, workerVars
  <2>3. TypeOK'
    BY <1>0, <2>1, <2>2 DEF ContainInv, TypeOK
  <2>4. WorkersOK' /\ JobsOK'
    BY <1>0, <2>1, <2>2 DEF ContainInv, WorkersOK, WorkerOK, JobsOK
  <2>5. QED
    BY <2>3, <2>4 DEF ContainInv
<1>2. ASSUME NEW h \in Handlers, Handle(h) PROVE ContainInv'
  <2>1. CASE Open(h)
    <3>1. job' = [job EXCEPT ![h] = NoJob] /\ hpc' = [hpc EXCEPT ![h] = "item"]
      BY <2>1 DEF Open, Goto, ContainInv, TypeOK
    <3>2. /\ UNCHANGED <<now, rows, runs, made, workerVars>> /\ begun' \in 0 .. MaxItems
          /\ pending' = pending /\ applied' = applied
      BY <1>0, <2>1 DEF Open, Begin, db
    <3>3. QED
      BY <1>0, <3>1, <3>2, HandlerMove
  <2>2. ASSUME NEW t \in Targets, Block(h, t) PROVE ContainInv'
    <3>1. PICK o \in Outcomes : Take(h, Job("block_ip", t, StatusOf(o), 0), "record")
      BY <2>2 DEF Block
    <3>2. /\ Job("block_ip", t, StatusOf(o), 0) \in Jobs
          /\ Job("block_ip", t, StatusOf(o), 0).of = 0
          /\ 0 \in 0 .. Len(rows)
      BY <1>0, StatusType, JobType DEF Types
    <3>3. begun' \in 0 .. MaxItems
      BY <1>0, <2>2 DEF Block, Begin
    <3>4. /\ UNCHANGED <<now, rows, runs, made, workerVars, pending, applied>>
          /\ hpc' = [hpc EXCEPT ![h] = "record"]
          /\ job' = [job EXCEPT ![h] = Job("block_ip", t, StatusOf(o), 0)]
      BY <3>1 DEF Take, Goto, db
    <3>5. QED
      BY <1>0, <3>2, <3>3, <3>4, HandlerMove
  <2>3. ASSUME NEW t \in Targets, Rollback(h, t) PROVE ContainInv'
    <3>1. begun' \in 0 .. MaxItems
      BY <1>0, <2>3 DEF Rollback, Begin
    <3>2. PICK i \in 0 .. Len(rows), step \in {"post", "record"} :
             Take(h, Job("rollback_block_ip", t, "failed", i), step)
      BY <1>0, <2>3 DEF Rollback, LatestBlock, Executed
    <3>3. /\ Job("rollback_block_ip", t, "failed", i) \in Jobs
          /\ Job("rollback_block_ip", t, "failed", i).of = i
      BY JobType DEF Types, Statuses
    <3>4. /\ UNCHANGED <<now, rows, runs, made, workerVars, pending, applied>>
          /\ hpc' = [hpc EXCEPT ![h] = step]
          /\ job' = [job EXCEPT ![h] = Job("rollback_block_ip", t, "failed", i)]
      BY <3>2 DEF Take, Goto, db
    <3>5. QED
      BY <1>0, <3>1, <3>3, <3>4, HandlerMove
  <2>4. CASE PostUnblock(h)
    <3>1. PICK o \in Outcomes : job' = [job EXCEPT ![h].status = StatusOf(o)]
      BY <2>4 DEF PostUnblock
    <3>2. job[h] \in Jobs /\ job[h].of \in 0 .. Len(rows)
      BY <2>4 DEF PostUnblock, ContainInv, JobsOK
    <3>3. /\ job' = [job EXCEPT ![h] = [job[h] EXCEPT !.status = StatusOf(o)]]
          /\ [job[h] EXCEPT !.status = StatusOf(o)] \in Jobs
          /\ [job[h] EXCEPT !.status = StatusOf(o)].of = job[h].of
      BY <3>1, <3>2, StatusType DEF ContainInv, TypeOK, Jobs
    <3>4. /\ UNCHANGED <<now, rows, runs, made, workerVars, pending, applied, begun>>
          /\ hpc' = [hpc EXCEPT ![h] = "record"]
      BY <2>4 DEF PostUnblock, Goto, db
    <3>5. QED
      BY <1>0, <3>2, <3>3, <3>4, HandlerMove
  <2>5. CASE Record(h)
    <3>1. /\ RowOf(job[h]) \in Actions /\ RowOf(job[h]).at = now
          /\ RowOf(job[h]).of \in 0 .. Len(rows)
          /\ job[h] \in Jobs /\ job[h].of \in 0 .. Len(rows)
          /\ rows' = Append(rows, RowOf(job[h]))
      BY <2>5, JobRow DEF Record
    <3>2. /\ rows' \in Seq(Actions) /\ Len(rows') = Len(rows) + 1
          /\ \A i \in 1 .. Len(rows) : rows'[i] = rows[i]
          /\ rows'[Len(rows) + 1] = RowOf(job[h])
      BY <1>0, <3>1, AppendRow
    <3>3. ASSUME NEW i \in 1 .. Len(rows') PROVE rows'[i].at \in 1 .. now /\ rows'[i].of < i
      BY <1>0, <3>1, <3>2, SMTT(30)
    <3>4. /\ applied' \subseteq Types \X Targets
          /\ pending' \in [Handlers -> SUBSET (Types \X Targets)]
          /\ UNCHANGED <<now, runs, made, workerVars>> /\ begun' \in 0 .. MaxItems
      BY <1>0, <2>5 DEF Record
    <3>5. /\ Len(rows') \in Nat /\ Len(rows) <= Len(rows')
          /\ job[h].of \in 0 .. Len(rows')
      BY <1>0, <3>1, <3>2
    <3>6. \/ /\ hpc' = [hpc EXCEPT ![h] = "event"]
             /\ job' = [job EXCEPT ![h] = job[h]]
          \/ /\ hpc' = [hpc EXCEPT ![h] = "item"]
             /\ job' = [job EXCEPT ![h] = NoJob]
      BY <2>5 DEF Record, Goto, ContainInv, TypeOK
    <3> HIDE <2>5
    <3>7. CASE /\ hpc' = [hpc EXCEPT ![h] = "event"]
               /\ job' = [job EXCEPT ![h] = job[h]]
      BY <1>0, <3>1, <3>2, <3>3, <3>4, <3>5, <3>7, HandlerStep
    <3>8. CASE /\ hpc' = [hpc EXCEPT ![h] = "item"]
               /\ job' = [job EXCEPT ![h] = NoJob]
      BY <1>0, <3>1, <3>2, <3>3, <3>4, <3>5, <3>8, HandlerStep
    <3>9. QED
      BY <3>6, <3>7, <3>8
  <2>6. CASE WriteEvent(h)
    <3>1. job[h] \in Jobs
      BY <2>6 DEF WriteEvent, ContainInv, JobsOK
    <3>2. EventOf(job[h]) \in Types \X Targets
      BY <3>1 DEF EventOf, Jobs
    <3>3. pending' \in [Handlers -> SUBSET (Types \X Targets)]
      BY <1>0, <2>6, <3>2 DEF WriteEvent
    <3>4. /\ UNCHANGED <<now, rows, runs, made, workerVars, applied, begun>>
          /\ hpc' = [hpc EXCEPT ![h] = "item"] /\ job' = [job EXCEPT ![h] = NoJob]
      BY <2>6 DEF WriteEvent, Goto, db
    <3>5. QED
      BY <1>0, <3>3, <3>4, HandlerMove
  <2>7. CASE CloseBatch(h)
    <3>1. job' = [job EXCEPT ![h] = NoJob]
      BY <2>7 DEF CloseBatch, ContainInv, TypeOK
    <3>2. /\ applied' \subseteq Types \X Targets
          /\ pending' \in [Handlers -> SUBSET (Types \X Targets)]
      BY <1>0, <2>7 DEF CloseBatch
    <3>3. /\ UNCHANGED <<now, rows, runs, made, workerVars, begun>>
          /\ hpc' = [hpc EXCEPT ![h] = "idle"]
      BY <2>7 DEF CloseBatch, Goto
    <3>4. QED
      BY <1>0, <3>1, <3>2, <3>3, HandlerMove
  <2>8. CASE Fail(h)
    <3>1. pending' \in [Handlers -> SUBSET (Types \X Targets)]
      BY <1>0, <2>8 DEF Fail
    <3>2. /\ UNCHANGED <<now, rows, runs, made, workerVars, applied, begun>>
          /\ hpc' = [hpc EXCEPT ![h] = "idle"] /\ job' = [job EXCEPT ![h] = NoJob]
      BY <2>8 DEF Fail, Goto, db
    <3>3. QED
      BY <1>0, <3>1, <3>2, HandlerMove
  <2>9. QED
    BY <1>2, <2>1, <2>2, <2>3, <2>4, <2>5, <2>6, <2>7, <2>8 DEF Handle
<1>3. ASSUME NEW w \in Workers, Automate(w) PROVE ContainInv'
  <2>0. /\ run[w] \in Runs /\ mine[w] \in Seq(Actions) /\ target[w] \in Targets \cup {None}
        /\ todo[w] \in SUBSET Targets /\ wpc[w] \in {"idle", "select", "post"}
        /\ wpc[w] # "idle" => run[w] \in [id : 0 .. made, window : Windows]
        /\ \A j \in 1 .. Len(mine[w]) :
              /\ mine[w][j].type = "block_ip" /\ mine[w][j].of = 0
              /\ mine[w][j].at \in 0 .. now /\ mine[w][j].run = run[w]
              /\ run[w].id # 0
    BY <1>3 DEF ContainInv, TypeOK, WorkersOK, WorkerOK
  <2> DEFINE Held == /\ wpc' \in [Workers -> {"idle", "select", "post"}]
                     /\ todo' \in [Workers -> SUBSET Targets]
                     /\ run' \in [Workers -> Runs] /\ mine' \in [Workers -> Seq(Actions)]
                     /\ target' \in [Workers -> Targets \cup {None}]
                     /\ \A v \in Workers \ {w} :
                           /\ wpc'[v] = wpc[v] /\ run'[v] = run[v]
                           /\ mine'[v] = mine[v] /\ target'[v] = target[v]
  <2>1. CASE StartRun(w)
    <3>1. PICK S \in SUBSET Targets, win \in Windows :
             /\ todo' = [todo EXCEPT ![w] = S]
             /\ run' = [run EXCEPT ![w] = [id |-> 0, window |-> win]]
      BY <2>1 DEF StartRun
    <3>2. /\ [id |-> 0, window |-> win] \in Runs
          /\ [id |-> 0, window |-> win] \in [id : 0 .. made, window : Windows]
      BY <1>0 DEF Runs
    <3>3. Held /\ wpc'[w] = "select" /\ run'[w] = [id |-> 0, window |-> win]
          /\ mine'[w] = mine[w]
      BY <2>1, <3>1, <3>2 DEF StartRun, ContainInv, TypeOK
    <3>4. mine[w] = <<>> /\ Len(mine[w]) = 0
      BY <2>1 DEF StartRun, ContainInv, WorkersOK, WorkerOK
    <3>5. /\ UNCHANGED <<now, rows, runs, made, applied, handlerVars>>
          /\ begun' \in 0 .. MaxItems
      BY <1>0, <2>1 DEF StartRun, Begin, db
    <3>6. WorkerOK(w)'
      BY <3>2, <3>3, <3>4, <3>5 DEF WorkerOK
    <3>7. made' \in Nat /\ made <= made'
      BY <1>0, <3>5
    <3>8. QED
      BY <3>3, <3>5, <3>6, <3>7, WorkerMove
  <2>2. ASSUME NEW t \in Targets, SelectTarget(w, t) PROVE ContainInv'
    <3>1. /\ wpc[w] = "select" /\ todo' = [todo EXCEPT ![w] = todo[w] \ {t}]
          /\ UNCHANGED <<now, rows, runs, applied, handlerVars, begun, mine>>
      BY <2>2 DEF SelectTarget
    <3>2. CASE Recent(w, t)
      <4>1. UNCHANGED <<wpc, target, run, made>>
        BY <2>2, <3>2 DEF SelectTarget
      <4>2. Held
        BY <3>1, <4>1 DEF ContainInv, TypeOK
      <4>3. WorkerOK(w)'
        BY <3>1, <4>1 DEF WorkerOK, ContainInv, WorkersOK
      <4>4. made' \in Nat /\ made <= made' /\ begun' \in 0 .. MaxItems
        BY <1>0, <3>1, <4>1
      <4>5. QED
        BY <3>1, <4>2, <4>3, <4>4, WorkerMove
    <3>3. CASE ~Recent(w, t)
      <4>1. GetOrCreateRun(w)
        BY <2>2, <3>3 DEF SelectTarget
      <4>2. PICK r \in [id : 0 .. made', window : Windows] :
               /\ run' = [run EXCEPT ![w] = r] /\ r.id # 0
               /\ made' \in Nat /\ made <= made'
               /\ run[w].id # 0 => r = run[w]
        BY <2>0, <3>1, <4>1, GotRun
      <4>3. \/ UNCHANGED <<wpc, target>>
            \/ target' = [target EXCEPT ![w] = t] /\ wpc' = [wpc EXCEPT ![w] = "post"]
        BY <2>2, <3>3 DEF SelectTarget
      <4>4. r \in Runs
        BY <4>2 DEF Runs
      <4>5. Held
        <5>1. /\ wpc \in [Workers -> {"idle", "select", "post"}]
              /\ todo \in [Workers -> SUBSET Targets] /\ run \in [Workers -> Runs]
              /\ mine \in [Workers -> Seq(Actions)]
              /\ target \in [Workers -> Targets \cup {None}]
          BY DEF ContainInv, TypeOK
        <5>2. /\ wpc' \in [Workers -> {"idle", "select", "post"}]
              /\ target' \in [Workers -> Targets \cup {None}]
              /\ \A v \in Workers \ {w} : wpc'[v] = wpc[v] /\ target'[v] = target[v]
          <6>1. CASE UNCHANGED <<wpc, target>>
            BY <5>1, <6>1
          <6>2. CASE target' = [target EXCEPT ![w] = t] /\ wpc' = [wpc EXCEPT ![w] = "post"]
            BY <5>1, <6>2
          <6>3. QED
            BY <4>3, <6>1, <6>2
        <5>3. /\ todo' \in [Workers -> SUBSET Targets] /\ run' \in [Workers -> Runs]
              /\ mine' \in [Workers -> Seq(Actions)]
              /\ \A v \in Workers \ {w} : run'[v] = run[v] /\ mine'[v] = mine[v]
          BY <3>1, <4>2, <4>4, <5>1
        <5>4. QED
          BY <5>2, <5>3
      <4>6. /\ wpc'[w] = "select" \/ (wpc'[w] = "post" /\ target'[w] = t)
            /\ run'[w] = r /\ mine'[w] = mine[w]
        BY <3>1, <4>2, <4>3 DEF ContainInv, TypeOK
      <4>7. WorkerOK(w)'
        BY <2>0, <3>1, <4>2, <4>6 DEF WorkerOK
      <4>8. QED
        BY <1>0, <3>1, <4>2, <4>5, <4>7, WorkerMove
    <3>4. QED
      BY <3>2, <3>3
  <2>3. CASE PostBlock(w)
    <3>1. /\ wpc[w] = "post" /\ run[w].id # 0
          /\ run[w] \in [id : 0 .. made, window : Windows]
      BY <2>0, <2>3 DEF PostBlock, ContainInv, WorkersOK, WorkerOK
    <3>2. PICK o \in Outcomes :
             mine' = [mine EXCEPT ![w] = Append(Flushed(mine[w]), AutoRow(w, o))]
      BY <2>3 DEF PostBlock
    <3> DEFINE m == Posted(w, o)
    <3>3. mine' = [mine EXCEPT ![w] = m] /\ m = Posted(w, o)
      BY <3>2 DEF Posted
    <3> HIDE DEF m
    <3>4. /\ m \in Seq(Actions)
          /\ \A j \in 1 .. Len(m) :
                /\ m[j].type = "block_ip" /\ m[j].of = 0 /\ m[j].at \in 0 .. now
                /\ m[j].run = run[w]
      <4>1. wpc[w] = "post"
        BY <3>1
      <4>2. QED
        BY <4>1, <3>3, PostedRows, SMTT(30)
    <3>5. /\ UNCHANGED <<now, rows, runs, made, applied, handlerVars, begun, todo, run>>
          /\ wpc' = [wpc EXCEPT ![w] = "select"] /\ target' = [target EXCEPT ![w] = None]
      BY <2>3 DEF PostBlock, db
    <3>6. Held /\ wpc'[w] = "select" /\ mine'[w] = m
      BY <3>3, <3>4, <3>5 DEF ContainInv, TypeOK
    <3>7. WorkerOK(w)'
      BY <3>1, <3>4, <3>5, <3>6 DEF WorkerOK
    <3>8. made' \in Nat /\ made <= made' /\ begun' \in 0 .. MaxItems
      BY <1>0, <3>5
    <3>9. QED
      BY <3>5, <3>6, <3>7, <3>8, WorkerMove
  <2>4. CASE FinishRun(w) \/ FailRun(w)
    <3>1. /\ wpc[w] # "idle" /\ Leave(w)
          /\ UNCHANGED <<now, made, applied, handlerVars, begun>>
          /\ Commit(w) \/ UNCHANGED <<rows, runs>>
      BY <2>4 DEF FinishRun, FailRun
    <3>2. CASE UNCHANGED <<rows, runs>>
      <4>1. /\ rows' \in Seq(Actions) /\ Len(rows') \in Nat /\ Len(rows) <= Len(rows')
            /\ \A i \in 1 .. Len(rows') : rows'[i].at \in 1 .. now /\ rows'[i].of < i
            /\ runs' \subseteq Runs /\ \A q \in runs' : q.id \in 1 .. made
        BY <1>0, <3>2
      <4>2. QED
        BY <3>1, <4>1, WorkerLeaves
    <3>3. CASE Commit(w)
      <4>1. runs' \subseteq Runs /\ \A r \in runs' : r.id \in 1 .. made
        BY <1>0, <2>0, <3>1, <3>3 DEF Commit
      <4>2. /\ rows' \in Seq(Actions) /\ Len(rows') = Len(rows) + Len(mine[w])
            /\ Len(mine[w]) \in Nat
            /\ \A i \in 1 .. Len(rows) : rows'[i] = rows[i]
            /\ \A i \in 1 .. Len(rows') : i \in 1 .. Len(rows) \/
                 \E j \in 1 .. Len(mine[w]) :
                    /\ i = Len(rows) + j
                    /\ rows'[i].type = "block_ip" /\ rows'[i].of = 0
                    /\ rows'[i].target = mine[w][j].target
                    /\ rows'[i].status = mine[w][j].status
                    /\ rows'[i].run = run[w]
                    /\ rows'[i].at = IF mine[w][j].at = 0 THEN now ELSE mine[w][j].at
        <5>1. rows' = rows \o Flushed(mine[w])
          BY <3>3 DEF Commit
        <5>2. QED
          BY <5>1, CommittedRows
      <4>3. ASSUME NEW i \in 1 .. Len(rows') PROVE rows'[i].at \in 1 .. now /\ rows'[i].of < i
        <5>1. CASE i \in 1 .. Len(rows)
          BY <1>0, <4>2, <5>1
        <5>2. CASE i \notin 1 .. Len(rows)
          <6>1. PICK j \in 1 .. Len(mine[w]) :
                   /\ rows'[i].of = 0
                   /\ rows'[i].at = IF mine[w][j].at = 0 THEN now ELSE mine[w][j].at
            BY <4>2, <5>2
          <6>2. mine[w][j].at \in 0 .. now
            BY <2>0
          <6>3. QED
            BY <1>0, <6>1, <6>2, SMTT(30)
        <5>3. QED
          BY <5>1, <5>2
      <4>4. Len(rows') \in Nat /\ Len(rows) <= Len(rows')
        BY <1>0, <4>2
      <4>5. QED
        BY <3>1, <4>1, <4>2, <4>3, <4>4, WorkerLeaves
    <3>4. QED
      BY <3>1, <3>2, <3>3
  <2>5. QED
    BY <1>3, <2>1, <2>2, <2>3, <2>4 DEF Automate
<1>4. CASE UNCHANGED vars
  BY <1>4 DEF vars, db, handlerVars, workerVars, ContainInv, TypeOK, WorkersOK, WorkerOK, JobsOK
<1>5. QED
  BY <1>1, <1>2, <1>3, <1>4 DEF Next

\* Containment's variables keep their types.
THEOREM ContainmentTypeCorrect == Spec => []TypeOK
<1>1. ContainInv => TypeOK
  BY DEF ContainInv
<1>2. QED
  BY <1>1, ContainInit, ContainStep, PTL DEF Spec

-----------------------------------------------------------------------------
(* Rows are added, never changed.                                          *)

RowsGrow == /\ Len(rows) \in Nat /\ Len(rows') \in Nat /\ Len(rows) <= Len(rows')
            /\ \A i \in 1 .. Len(rows) : rows'[i] = rows[i]

\* Handler h adds the row of its job.
AddsJob(h) == /\ Len(rows') = Len(rows) + 1
              /\ rows'[Len(rows')].type = job[h].type
              /\ rows'[Len(rows')].target = job[h].target
              /\ rows'[Len(rows')].status = job[h].status
              /\ rows'[Len(rows')].of = job[h].of
              /\ rows'[Len(rows')].run = Incident

\* Worker w adds its rows.
AddsMine(w) == /\ Len(rows') = Len(rows) + Len(mine[w])
               /\ \A i \in 1 .. Len(rows') : i \in 1 .. Len(rows) \/
                    \E j \in 1 .. Len(mine[w]) :
                       /\ i = Len(rows) + j
                       /\ rows'[i].type = "block_ip" /\ rows'[i].of = 0
                       /\ rows'[i].target = mine[w][j].target
                       /\ rows'[i].status = mine[w][j].status
                       /\ rows'[i].run = run[w]
                       /\ rows'[i].at = IF mine[w][j].at = 0 THEN now ELSE mine[w][j].at

LEMMA RecordAdds ==
    ASSUME ContainInv, NEW h \in Handlers, Record(h)
    PROVE  RowsGrow /\ AddsJob(h)
<1>1. /\ rows \in Seq(Actions) /\ Len(rows) \in Nat
      /\ rows' = Append(rows, RowOf(job[h]))
  BY LenProperties DEF ContainInv, TypeOK, Record
<1>2. /\ RowOf(job[h]) \in Actions
      /\ RowOf(job[h]).type = job[h].type /\ RowOf(job[h]).target = job[h].target
      /\ RowOf(job[h]).status = job[h].status /\ RowOf(job[h]).of = job[h].of
      /\ RowOf(job[h]).run = Incident
  BY JobRow DEF Record
<1>3. /\ Len(rows') = Len(rows) + 1
      /\ \A i \in 1 .. Len(rows) : rows'[i] = rows[i]
      /\ rows'[Len(rows) + 1] = RowOf(job[h])
  BY <1>1, <1>2, AppendRow
<1>4. QED
  BY <1>1, <1>2, <1>3 DEF RowsGrow, AddsJob

LEMMA CommitAdds ==
    ASSUME ContainInv, NEW w \in Workers, Commit(w)
    PROVE  RowsGrow /\ AddsMine(w) /\ Len(mine[w]) \in Nat
<1>1. rows' = rows \o Flushed(mine[w])
  BY DEF Commit
<1>2. /\ Len(rows) \in Nat /\ Len(mine[w]) \in Nat
      /\ Len(rows') = Len(rows) + Len(mine[w])
      /\ \A i \in 1 .. Len(rows) : rows'[i] = rows[i]
  BY <1>1, CommittedRows
<1>3. AddsMine(w)
  BY <1>1, CommittedRows, Zenon DEF AddsMine
<1>4. QED
  BY <1>2, <1>3 DEF RowsGrow

LEMMA SameRows ==
    ASSUME ContainInv, UNCHANGED rows
    PROVE  RowsGrow
BY LenProperties DEF ContainInv, TypeOK, RowsGrow

\* What each step does to the rows.
LEMMA RowsStep ==
    ASSUME ContainInv, [Next]_vars
    PROVE  /\ RowsGrow
           /\ \/ UNCHANGED rows
              \/ \E h \in Handlers : Record(h)
              \/ \E w \in Workers : Commit(w) /\ AddsMine(w)
<1>1. CASE Tick \/ UNCHANGED vars
  BY <1>1, SameRows DEF Tick, vars, db
<1>2. ASSUME NEW h \in Handlers, Handle(h)
      PROVE  RowsGrow /\ (UNCHANGED rows \/ Record(h))
  <2>1. CASE Record(h)
    BY <2>1, RecordAdds
  <2>2. CASE ~Record(h)
    <3>1. UNCHANGED rows
      BY <1>2, <2>2 DEF Handle, Open, PostUnblock, WriteEvent, CloseBatch, Fail, Block,
                        Rollback, Take, db
    <3>2. QED
      BY <3>1, SameRows
  <2>3. QED
    BY <2>1, <2>2
<1>3. ASSUME NEW w \in Workers, Automate(w)
      PROVE  RowsGrow /\ (UNCHANGED rows \/ (Commit(w) /\ AddsMine(w)))
  <2>1. CASE Commit(w)
    BY <2>1, CommitAdds
  <2>2. CASE ~Commit(w)
    <3>1. UNCHANGED rows
      BY <1>3, <2>2 DEF Automate, StartRun, PostBlock, FinishRun, FailRun, SelectTarget, db
    <3>2. QED
      BY <3>1, SameRows
  <2>3. QED
    BY <2>1, <2>2
<1>4. QED
  BY <1>1, <1>2, <1>3 DEF Next

-----------------------------------------------------------------------------
(* Events.                                                                 *)

HasAction(e) == \E i \in Executed(e[1], e[2]) : rows[i].run = Incident

\* Events of actions: written, about to be written, committed.
EventInv == /\ \A e \in applied : HasAction(e)
            /\ \A h \in Handlers : \A e \in pending[h] : HasAction(e)
            /\ \A h \in Handlers : hpc[h] = "event" => HasAction(EventOf(job[h]))

LEMMA ActionStays ==
    ASSUME RowsGrow, NEW e, HasAction(e)
    PROVE  \E i \in 1 .. Len(rows') : /\ rows'[i].type = e[1] /\ rows'[i].target = e[2]
                                     /\ rows'[i].status = "executed"
                                     /\ rows'[i].run = Incident
<1>1. PICK i \in 1 .. Len(rows) : /\ rows[i].type = e[1] /\ rows[i].target = e[2]
                                  /\ rows[i].status = "executed" /\ rows[i].run = Incident
  BY DEF HasAction, Executed
<1>2. i \in 1 .. Len(rows') /\ rows'[i] = rows[i]
  BY DEF RowsGrow
<1>3. QED
  BY <1>1, <1>2

LEMMA EventStep == ContainInv /\ EventInv /\ [Next]_vars => EventInv'
<1> SUFFICES ASSUME ContainInv, EventInv, [Next]_vars PROVE EventInv'
  OBVIOUS
<1> DEFINE Backed(e) == \E i \in 1 .. Len(rows') :
                           /\ rows'[i].type = e[1] /\ rows'[i].target = e[2]
                           /\ rows'[i].status = "executed" /\ rows'[i].run = Incident
<1>1. /\ \A e \in applied : Backed(e)
      /\ \A h \in Handlers : \A e \in pending[h] : Backed(e)
      /\ \A h \in Handlers : hpc[h] = "event" => Backed(EventOf(job[h]))
  BY RowsStep, ActionStays DEF EventInv
<1>2. /\ hpc \in [Handlers -> {"idle", "item", "post", "record", "event"}]
      /\ job \in [Handlers -> Jobs \cup {NoJob}]
      /\ pending \in [Handlers -> SUBSET (Types \X Targets)]
  BY DEF ContainInv, TypeOK
<1>3. SUFFICES /\ \A e \in applied' : Backed(e)
               /\ \A h \in Handlers : \A e \in pending'[h] : Backed(e)
               /\ \A h \in Handlers : hpc'[h] = "event" => Backed(EventOf(job'[h]))
  BY DEF EventInv, HasAction, Executed, EventOf
<1>4. ASSUME NEW h \in Handlers, Record(h), job[h].status = "executed"
      PROVE  Backed(EventOf(job[h]))
  <2>1. RowsGrow /\ AddsJob(h)
    BY <1>4, RecordAdds
  <2>2. EventOf(job[h])[1] = job[h].type /\ EventOf(job[h])[2] = job[h].target
    BY DEF EventOf
  <2>3. Len(rows') \in 1 .. Len(rows')
    BY <2>1 DEF RowsGrow, AddsJob
  <2>4. QED
    BY <1>4, <2>1, <2>2, <2>3 DEF AddsJob
<1> HIDE DEF Backed
<1>5. CASE UNCHANGED <<applied, hpc, job, pending>>
  BY <1>1, <1>5
<1>6. ASSUME NEW h \in Handlers, Handle(h)
      PROVE  /\ \A e \in applied' : Backed(e)
             /\ \A g \in Handlers : \A e \in pending'[g] : Backed(e)
             /\ \A g \in Handlers : hpc'[g] = "event" => Backed(EventOf(job'[g]))
  <2>1. CASE Record(h)
    <3>1. /\ applied' = applied \cup pending[h]
          /\ pending' = [pending EXCEPT ![h] = {}]
          /\ \A g \in Handlers \ {h} : hpc'[g] = hpc[g] /\ job'[g] = job[g]
          /\ hpc'[h] = "event" => job[h].status = "executed" /\ job'[h] = job[h]
      BY <1>2, <2>1 DEF Record, Goto
    <3>2. hpc'[h] = "event" => Backed(EventOf(job'[h]))
      BY <1>4, <2>1, <3>1
    <3>3. QED
      BY <1>1, <1>2, <3>1, <3>2
  <2>2. CASE WriteEvent(h)
    <3>1. /\ hpc[h] = "event" /\ applied' = applied
          /\ pending' = [pending EXCEPT ![h] = @ \cup ({EventOf(job[h])} \ applied)]
          /\ \A g \in Handlers \ {h} : hpc'[g] = hpc[g] /\ job'[g] = job[g]
          /\ hpc'[h] = "item"
      BY <1>2, <2>2 DEF WriteEvent, Goto, db
    <3>2. QED
      BY <1>1, <1>2, <3>1
  <2>3. CASE Open(h) \/ CloseBatch(h) \/ Fail(h) \/ PostUnblock(h)
    <3>1. /\ applied' \subseteq applied \cup pending[h]
          /\ \A g \in Handlers : pending'[g] \subseteq pending[g]
          /\ \A g \in Handlers \ {h} : hpc'[g] = hpc[g] /\ job'[g] = job[g]
          /\ hpc'[h] # "event"
      BY <1>2, <2>3 DEF Open, CloseBatch, Fail, PostUnblock, Goto, db
    <3>2. QED
      BY <1>1, <3>1
  <2>4. ASSUME NEW t \in Targets, Block(h, t) \/ Rollback(h, t)
        PROVE  /\ applied' = applied /\ pending' = pending
               /\ \A g \in Handlers \ {h} : hpc'[g] = hpc[g] /\ job'[g] = job[g]
               /\ hpc'[h] # "event"
    BY <1>2, <2>4 DEF Block, Rollback, Take, Goto, db
  <2>5. QED
    BY <1>1, <1>6, <2>1, <2>2, <2>3, <2>4 DEF Handle
<1>7. ASSUME NEW w \in Workers, Automate(w) PROVE UNCHANGED <<applied, hpc, job, pending>>
  BY <1>7 DEF Automate, StartRun, PostBlock, FinishRun, FailRun, SelectTarget, db, handlerVars
<1>8. CASE Tick \/ UNCHANGED vars
  BY <1>5, <1>8 DEF Tick, vars, db, handlerVars
<1>9. QED
  BY <1>5, <1>6, <1>7, <1>8 DEF Next

\* An event in the ledger has its executed action, with any number of handlers
\* and workers, failed commits and repeated batches.
THEOREM EventAlwaysHasAction == Spec => []EventHasAction
<1>1. Init => EventInv
  BY DEF Init, EventInv
<1>2. EventInv => EventHasAction
  BY DEF EventInv, EventHasAction, HasAction
<1>3. QED
  BY <1>1, <1>2, ContainInit, ContainStep, EventStep, PTL DEF Spec

-----------------------------------------------------------------------------
(* Rollbacks, one request at a time.                                       *)

OneHandler == \A g, h \in Handlers : g = h

IsRollback(r) == r.type = "rollback_block_ip" /\ r.status = "executed"

\* A rollback is of a block of its target; one that was refused is of none.
RollbacksNameBlocks ==
    \A i \in 1 .. Len(rows) :
        /\ rows[i].of # 0 => rows[rows[i].of].target = rows[i].target
        /\ IsRollback(rows[i]) => rows[i].of # 0

\* So is a rollback in hand, and that block has not been rolled back.
RollbackInHand(h) ==
    hpc[h] \in {"post", "record"} =>
       /\ job[h].of # 0 => /\ rows[job[h].of].target = job[h].target
                           /\ ~RolledBack(job[h].of)
       /\ (hpc[h] = "post" \/ IsRollback(job[h])) => job[h].of # 0

RollbackInv == /\ RollbacksNameBlocks /\ RolledBackOnce
               /\ \A h \in Handlers : RollbackInHand(h)

LEMMA RollbackStep ==
    ASSUME OneHandler, ContainInv, ContainInv', RollbackInv, [Next]_vars
    PROVE  RollbackInv'
<1>1. /\ RowsGrow
      /\ hpc \in [Handlers -> {"idle", "item", "post", "record", "event"}]
      /\ job \in [Handlers -> Jobs \cup {NoJob}]
      /\ \A i \in 1 .. Len(rows) : rows[i].of \in Nat /\ rows[i].of < i
      /\ \A h \in Handlers : hpc[h] \in {"post", "record"} => job[h].of \in 0 .. Len(rows)
  <2>1. \A i \in 1 .. Len(rows) : rows[i] \in Actions
    BY ElementOfSeq DEF ContainInv, TypeOK
  <2>2. QED
    BY <2>1, RowsStep DEF ContainInv, TypeOK, JobsOK, Actions
\* Rows of other types change nothing.
<1>2. ASSUME \A i \in 1 .. Len(rows') : i \in 1 .. Len(rows) \/
                (rows'[i].type = "block_ip" /\ rows'[i].of = 0)
      PROVE  /\ RollbacksNameBlocks' /\ RolledBackOnce'
             /\ \A i \in 1 .. Len(rows) : ~RolledBack(i) => ~RolledBack(i)'
  <2>1. \A i \in 1 .. Len(rows') : IsRollback(rows'[i]) => i \in 1 .. Len(rows)
    BY <1>2 DEF IsRollback
  <2>2. RollbacksNameBlocks'
    <3>1. ASSUME NEW i \in 1 .. Len(rows') PROVE IsRollback(rows'[i]) => rows'[i].of # 0
      BY <1>1, <2>1 DEF RollbackInv, RollbacksNameBlocks, RowsGrow
    <3>2. ASSUME NEW i \in 1 .. Len(rows'), rows'[i].of # 0
          PROVE  rows'[rows'[i].of].target = rows'[i].target
      <4>1. i \in 1 .. Len(rows) /\ rows'[i] = rows[i]
        BY <1>1, <1>2, <3>2 DEF RowsGrow
      <4>2. rows[i].of \in 1 .. Len(rows)
        BY <1>1, <3>2, <4>1 DEF RowsGrow
      <4>3. QED
        BY <1>1, <3>2, <4>1, <4>2 DEF RollbackInv, RollbacksNameBlocks, RowsGrow
    <3>3. QED
      BY <3>1, <3>2 DEF RollbacksNameBlocks, IsRollback
  <2>3. RolledBackOnce'
    BY <1>1, <2>1 DEF RollbackInv, RolledBackOnce, RowsGrow, IsRollback
  <2>4. ASSUME NEW i \in 1 .. Len(rows), RolledBack(i)' PROVE RolledBack(i)
    BY <1>1, <2>1, <2>4 DEF RolledBack, Executed, RowsGrow, IsRollback
  <2>5. QED
    BY <2>2, <2>3, <2>4
\* A job that is kept fits as before.
<1>3. ASSUME NEW h \in Handlers,
             hpc'[h] \in {"post", "record"} =>
                 /\ hpc[h] \in {"post", "record"} /\ hpc'[h] = hpc[h] /\ job'[h] = job[h],
             \A i \in 1 .. Len(rows) : ~RolledBack(i) => ~RolledBack(i)'
      PROVE  RollbackInHand(h)'
  <2>1. SUFFICES ASSUME hpc'[h] \in {"post", "record"} PROVE RollbackInHand(h)'
    BY DEF RollbackInHand
  <2>2. /\ hpc[h] \in {"post", "record"} /\ hpc'[h] = hpc[h] /\ job'[h] = job[h]
        /\ job[h].of \in 0 .. Len(rows)
    BY <1>1, <1>3, <2>1
  <2>3. ASSUME job[h].of # 0
        PROVE  rows'[job[h].of].target = job[h].target /\ ~RolledBack(job[h].of)'
    <3>1. job[h].of \in 1 .. Len(rows) /\ ~RolledBack(job[h].of)
          /\ rows[job[h].of].target = job[h].target
      BY <1>1, <2>2, <2>3 DEF RollbackInv, RollbackInHand, RowsGrow
    <3>2. job'[h].of = job[h].of /\ rows'[job[h].of] = rows[job[h].of]
      BY <1>1, <2>2, <3>1 DEF RowsGrow
    <3>3. QED
      BY <1>3, <3>1, <3>2, ZenonT(40) DEF RolledBack, Executed
  <2>4. QED
    BY <2>2, <2>3 DEF RollbackInHand, RollbackInv, IsRollback, RolledBack, Executed
<1>4. ASSUME UNCHANGED rows \/ \E w \in Workers : AddsMine(w)
      PROVE  /\ RollbacksNameBlocks' /\ RolledBackOnce'
             /\ \A i \in 1 .. Len(rows) : ~RolledBack(i) => ~RolledBack(i)'
  <2>1. \A i \in 1 .. Len(rows') : i \in 1 .. Len(rows) \/
                (rows'[i].type = "block_ip" /\ rows'[i].of = 0)
    BY <1>4 DEF AddsMine
  <2>2. QED
    BY <1>2, <2>1
<1>5. ASSUME NEW h \in Handlers, Record(h) PROVE RollbackInv'
  <2>1. /\ AddsJob(h) /\ hpc[h] = "record" /\ job[h].of \in 0 .. Len(rows)
        /\ \A g \in Handlers : hpc'[g] \notin {"post", "record"}
    BY <1>1, <1>5, RecordAdds DEF OneHandler, Record, Goto
  <2> DEFINE n == Len(rows')
  <2>2. /\ n = Len(rows) + 1 /\ n \in 1 .. n
        /\ rows'[n].type = job[h].type /\ rows'[n].target = job[h].target
        /\ rows'[n].status = job[h].status /\ rows'[n].of = job[h].of
        /\ \A i \in 1 .. n : i # n => i \in 1 .. Len(rows) /\ rows'[i] = rows[i]
    BY <1>1, <2>1 DEF AddsJob, RowsGrow
  <2> HIDE DEF n
  <2>3. /\ job[h].of # 0 => rows[job[h].of].target = job[h].target /\ ~RolledBack(job[h].of)
        /\ IsRollback(job[h]) => job[h].of # 0
    BY <2>1 DEF RollbackInv, RollbackInHand
  <2>4. RollbacksNameBlocks'
    <3>1. ASSUME NEW i \in 1 .. n
          PROVE  /\ rows'[i].of # 0 => rows'[rows'[i].of].target = rows'[i].target
                 /\ IsRollback(rows'[i]) => rows'[i].of # 0
      <4>1. CASE i = n
        <5>1. IsRollback(rows'[i]) => rows'[i].of # 0
          BY <2>2, <2>3, <4>1 DEF IsRollback
        <5>2. job[h].of # 0 => /\ rows'[job[h].of] = rows[job[h].of]
                               /\ rows[job[h].of].target = job[h].target
          BY <1>1, <2>1, <2>3 DEF RowsGrow
        <5>3. QED
          BY <2>2, <4>1, <5>1, <5>2
      <4>2. CASE i # n
        <5>1. i \in 1 .. Len(rows) /\ rows'[i] = rows[i] /\ rows[i].of \in 0 .. Len(rows)
          BY <1>1, <2>2, <4>2 DEF RowsGrow
        <5>2. /\ rows[i].of # 0 => rows[rows[i].of].target = rows[i].target
              /\ IsRollback(rows[i]) => rows[i].of # 0
          BY <5>1 DEF RollbackInv, RollbacksNameBlocks
        <5>3. rows[i].of # 0 => rows'[rows[i].of] = rows[rows[i].of]
          BY <1>1, <5>1 DEF RowsGrow
        <5>4. QED
          BY <5>1, <5>2, <5>3
      <4>3. QED
        BY <4>1, <4>2
    <3>2. QED
      BY <3>1 DEF RollbacksNameBlocks, IsRollback, n
  <2>5. RolledBackOnce'
    <3>1. ASSUME NEW i \in 1 .. Len(rows), IsRollback(rows[i]), rows[i].of = job[h].of,
                 IsRollback(job[h])
          PROVE  FALSE
      <4>1. job[h].of # 0 /\ rows[job[h].of].target = rows[i].target
        BY <2>3, <3>1 DEF RollbackInv, RollbacksNameBlocks
      <4>2. RolledBack(job[h].of)
        BY <3>1, <4>1 DEF RolledBack, Executed, IsRollback
      <4>3. QED
        BY <2>3, <4>1, <4>2
    <3>2. ASSUME NEW i \in 1 .. n, NEW k \in 1 .. n, IsRollback(rows'[i]),
                 IsRollback(rows'[k]), rows'[i].of = rows'[k].of
          PROVE  i = k
      <4>1. CASE i # n /\ k # n
        BY <2>2, <3>2, <4>1 DEF RollbackInv, RolledBackOnce, IsRollback
      <4>2. CASE i = n /\ k # n
        BY <2>2, <3>1, <3>2, <4>2 DEF IsRollback
      <4>3. CASE i # n /\ k = n
        BY <2>2, <3>1, <3>2, <4>3 DEF IsRollback
      <4>4. QED
        BY <4>1, <4>2, <4>3
    <3>3. QED
      BY <3>2 DEF RolledBackOnce, IsRollback, n
  <2>6. \A g \in Handlers : RollbackInHand(g)'
    BY <2>1 DEF RollbackInHand
  <2>7. QED
    BY <2>4, <2>5, <2>6 DEF RollbackInv
<1>6. ASSUME NEW h \in Handlers, Handle(h), ~Record(h) PROVE RollbackInv'
  <2>1. UNCHANGED rows
    BY <1>6 DEF Handle, Open, PostUnblock, WriteEvent, CloseBatch, Fail, Block,
                Rollback, Take, db
  <2>2. /\ RollbacksNameBlocks' /\ RolledBackOnce'
        /\ \A i \in 1 .. Len(rows) : ~RolledBack(i) => ~RolledBack(i)'
    BY <1>4, <2>1
  <2>3. SUFFICES RollbackInHand(h)'
    BY <2>2 DEF RollbackInv, OneHandler
  <2>4. CASE Open(h) \/ WriteEvent(h) \/ CloseBatch(h) \/ Fail(h)
    <3>1. hpc'[h] \notin {"post", "record"}
      BY <1>1, <2>4 DEF Open, WriteEvent, CloseBatch, Fail, Goto
    <3>2. QED
      BY <3>1 DEF RollbackInHand
  <2>5. ASSUME NEW t \in Targets, Block(h, t) PROVE RollbackInHand(h)'
    <3>1. PICK o \in Outcomes : job' = [job EXCEPT ![h] = Job("block_ip", t, StatusOf(o), 0)]
      BY <2>5 DEF Block, Take
    <3>2. /\ job'[h].of = 0 /\ job'[h].type = "block_ip" /\ hpc'[h] = "record"
      BY <1>1, <2>5, <3>1 DEF Block, Take, Goto, Job
    <3>3. QED
      BY <3>2 DEF RollbackInHand, IsRollback
  <2>6. ASSUME NEW t \in Targets, Rollback(h, t) PROVE RollbackInHand(h)'
    <3>1. CASE Take(h, Job("rollback_block_ip", t, "failed", 0), "record")
      <4>1. job'[h].of = 0 /\ job'[h].status = "failed" /\ hpc'[h] = "record"
        BY <1>1, <3>1 DEF Take, Goto, Job
      <4>2. QED
        BY <4>1 DEF RollbackInHand, IsRollback
    <3>2. ASSUME NEW i \in LatestBlock(t), ~RolledBack(i),
                 Take(h, Job("rollback_block_ip", t, "failed", i), "post")
          PROVE  RollbackInHand(h)'
      <4>1. i \in 1 .. Len(rows) /\ rows[i].target = t
        BY <3>2 DEF LatestBlock, Executed
      <4>2. job'[h].of = i /\ job'[h].target = t /\ hpc'[h] = "post"
        BY <1>1, <3>2 DEF Take, Goto, Job
      <4>3. i # 0
        BY <1>1, <4>1 DEF RowsGrow
      <4>4. QED
        BY <2>1, <3>2, <4>1, <4>2, <4>3 DEF RollbackInHand, RolledBack, Executed
    <3>3. QED
      BY <2>6, <3>1, <3>2 DEF Rollback
  <2>7. CASE PostUnblock(h)
    <3>1. /\ hpc[h] = "post" /\ hpc'[h] = "record" /\ job[h] \in Jobs
      BY <1>1, <2>7 DEF PostUnblock, Goto, ContainInv, JobsOK
    <3>2. PICK o \in Outcomes : job' = [job EXCEPT ![h].status = StatusOf(o)]
      BY <2>7 DEF PostUnblock
    <3>3. job'[h].of = job[h].of /\ job'[h].target = job[h].target
      BY <1>1, <3>1, <3>2 DEF Jobs
    <3>4. /\ job[h].of # 0
          /\ rows[job[h].of].target = job[h].target /\ ~RolledBack(job[h].of)
      BY <3>1 DEF RollbackInv, RollbackInHand
    <3>5. QED
      BY <2>1, <3>3, <3>4 DEF RollbackInHand, RolledBack, Executed
  <2>8. QED
    BY <1>6, <2>4, <2>5, <2>6, <2>7 DEF Handle
<1>7. ASSUME UNCHANGED <<hpc, job>>, UNCHANGED rows \/ \E w \in Workers : AddsMine(w)
      PROVE  RollbackInv'
  <2>1. /\ RollbacksNameBlocks' /\ RolledBackOnce'
        /\ \A i \in 1 .. Len(rows) : ~RolledBack(i) => ~RolledBack(i)'
    BY <1>4, <1>7
  <2>2. \A h \in Handlers : RollbackInHand(h)'
    BY <1>3, <1>7, <2>1
  <2>3. QED
    BY <2>1, <2>2 DEF RollbackInv
<1>8. ASSUME NEW w \in Workers, Automate(w) PROVE RollbackInv'
  <2>1. UNCHANGED <<hpc, job>>
    BY <1>8 DEF Automate, StartRun, PostBlock, FinishRun, FailRun, SelectTarget, handlerVars
  <2>2. UNCHANGED rows \/ Commit(w)
    BY <1>8 DEF Automate, StartRun, PostBlock, FinishRun, FailRun, SelectTarget, db
  <2>3. QED
    BY <1>7, <2>1, <2>2, CommitAdds
<1>9. CASE Tick \/ UNCHANGED vars
  BY <1>7, <1>9 DEF Tick, vars, db, handlerVars
<1>10. QED
  BY <1>5, <1>6, <1>8, <1>9 DEF Next

\* With one request at a time a block is rolled back once, also over failed
\* attempts, lost records and repeated batches, and however many automatic runs
\* record blocks meanwhile.
THEOREM RolledBackOnceAlone == ASSUME OneHandler PROVE Spec => []RolledBackOnce
<1>1. Init => RollbackInv
  <2> SUFFICES ASSUME Init PROVE RollbackInv
    OBVIOUS
  <2>1. Len(rows) = 0 /\ \A h \in Handlers : hpc[h] = "idle"
    BY EmptySeq DEF Init
  <2>2. QED
    BY <2>1 DEF RollbackInv, RollbacksNameBlocks, RolledBackOnce, RollbackInHand
<1>2. ContainInv /\ ContainInv' /\ RollbackInv /\ [Next]_vars => RollbackInv'
  BY RollbackStep
<1>3. RollbackInv => RolledBackOnce
  BY DEF RollbackInv
<1>4. QED
  BY <1>1, <1>2, <1>3, ContainInit, ContainStep, PTL DEF Spec

-----------------------------------------------------------------------------
(* Automatic runs, one at a time.                                          *)

OneWorker == \A v, w \in Workers : v = w

\* A target is left to do, in hand, or in one of the rows.
TargetsOnce(w) ==
    /\ \A j, k \in 1 .. Len(mine[w]) : mine[w][j].target = mine[w][k].target => j = k
    /\ \A j \in 1 .. Len(mine[w]) : mine[w][j].target \notin todo[w]
    /\ wpc[w] = "post" =>
          /\ target[w] \notin todo[w]
          /\ \A j \in 1 .. Len(mine[w]) : mine[w][j].target # target[w]

\* What the steps of a worker that commit nothing do to what it holds: it
\* begins, passes over a target, picks one, posts, or leaves.
LEMMA TargetsOnceStep ==
    ASSUME ContainInv, NEW w \in Workers, TargetsOnce(w), Automate(w)
    PROVE  TargetsOnce(w)'
<1>1. /\ wpc \in [Workers -> {"idle", "select", "post"}]
      /\ todo \in [Workers -> SUBSET Targets] /\ run \in [Workers -> Runs]
      /\ mine \in [Workers -> Seq(Actions)]
      /\ target \in [Workers -> Targets \cup {None}]
      /\ Len(<<>>) = 0
  BY EmptySeq DEF ContainInv, TypeOK
<1>2. CASE StartRun(w)
  <2>1. /\ mine'[w] = mine[w] /\ mine[w] = <<>> /\ wpc'[w] = "select"
    BY <1>1, <1>2 DEF StartRun, ContainInv, WorkersOK, WorkerOK
  <2>2. QED
    BY <1>1, <2>1 DEF TargetsOnce
<1>3. ASSUME NEW t \in Targets, SelectTarget(w, t) PROVE TargetsOnce(w)'
  <2>1. /\ wpc[w] = "select" /\ t \in todo[w] /\ todo'[w] = todo[w] \ {t}
        /\ mine'[w] = mine[w]
        /\ wpc'[w] = "select" \/ (wpc'[w] = "post" /\ target'[w] = t)
    BY <1>1, <1>3 DEF SelectTarget
  <2>2. QED
    BY <2>1 DEF TargetsOnce
<1>4. CASE PostBlock(w)
  <2>1. PICK o \in Outcomes : mine'[w] = Posted(w, o)
    BY <1>1, <1>4 DEF PostBlock, Posted
  <2>2. /\ wpc[w] = "post" /\ wpc'[w] = "select" /\ todo'[w] = todo[w]
    BY <1>1, <1>4 DEF PostBlock
  <2> DEFINE m == mine'[w]
  <2>3. /\ Len(mine[w]) \in Nat /\ Len(m) = Len(mine[w]) + 1
        /\ \A j \in 1 .. Len(mine[w]) : m[j].target = mine[w][j].target
        /\ m[Len(m)].target = target[w]
    BY <2>1, <2>2, PostedRows
  <2> HIDE DEF m
  <2>4. \A j \in 1 .. Len(m) : j \in 1 .. Len(mine[w]) \/ j = Len(m)
    BY <2>3
  <2>5. /\ \A j, k \in 1 .. Len(m) : m[j].target = m[k].target => j = k
        /\ \A j \in 1 .. Len(m) : m[j].target \notin todo[w]
    BY <2>2, <2>3, <2>4 DEF TargetsOnce
  <2>6. QED
    BY <2>2, <2>5 DEF TargetsOnce, m
<1>5. CASE FinishRun(w) \/ FailRun(w)
  <2>1. mine'[w] = <<>> /\ wpc'[w] = "idle"
    BY <1>1, <1>5 DEF FinishRun, FailRun, Leave
  <2>2. QED
    BY <1>1, <2>1 DEF TargetsOnce
<1>6. QED
  BY <1>2, <1>3, <1>4, <1>5 DEF Automate

\* No row of the window acts on t.
Untouched(win, t) == \A i \in 1 .. Len(rows) :
                        (rows[i].run # Incident /\ rows[i].target = t)
                            => rows[i].run.window # win

\* What a worker has posted, or has decided to post, is new to its window, and
\* its run is the one of the window.
NewToWindow(w) ==
    /\ wpc[w] = "post" => Untouched(run[w].window, target[w])
    /\ \A j \in 1 .. Len(mine[w]) : Untouched(run[w].window, mine[w][j].target)
    /\ run[w].id # 0 => run[w] \in runs \/ RunsOf(run[w].window) = {}

OneRunPerWindow ==
    /\ \A q, r \in runs : q.window = r.window => q = r
    /\ \A i \in AutoRows : rows[i].run \in runs

WindowInv == /\ OneRunPerWindow /\ OncePerWindow
             /\ \A w \in Workers : TargetsOnce(w) /\ NewToWindow(w)

NoAutoRowAdded == \A i \in 1 .. Len(rows') : i \in 1 .. Len(rows) \/ rows'[i].run = Incident

LEMMA HandlerAddsNoAutoRow ==
    ASSUME ContainInv, NEW h \in Handlers, Handle(h)
    PROVE  NoAutoRowAdded
<1>1. CASE Record(h)
  BY <1>1, RecordAdds DEF AddsJob, NoAutoRowAdded, RowsGrow
<1>2. CASE ~Record(h)
  BY <1>2 DEF Handle, Open, PostUnblock, WriteEvent, CloseBatch, Fail, Block, Rollback, Take,
              db, NoAutoRowAdded
<1>3. QED
  BY <1>1, <1>2

LEMMA WindowsKept ==
    ASSUME RowsGrow, NoAutoRowAdded, UNCHANGED runs, OneRunPerWindow, OncePerWindow
    PROVE  OneRunPerWindow' /\ OncePerWindow'
<1>1. \A i \in 1 .. Len(rows') : rows'[i].run # Incident =>
         i \in 1 .. Len(rows) /\ rows'[i] = rows[i]
  BY DEF RowsGrow, NoAutoRowAdded
<1>2. OneRunPerWindow'
  BY <1>1 DEF OneRunPerWindow, AutoRows
<1>3. OncePerWindow'
  BY <1>1, SMTT(30) DEF OncePerWindow, AutoRows
<1>4. QED
  BY <1>2, <1>3

\* The rows a worker adds are new to its window, and of one run.
LEMMA CommittedWindow ==
    ASSUME ContainInv, OneRunPerWindow, OncePerWindow, NEW w \in Workers,
           TargetsOnce(w), NewToWindow(w), Commit(w)
    PROVE  OneRunPerWindow' /\ OncePerWindow'
<1>1. RowsGrow /\ AddsMine(w) /\ WorkerOK(w) /\ Len(mine[w]) \in Nat
  BY CommitAdds DEF ContainInv, WorkersOK
<1>2. runs' = IF run[w].id = 0 THEN runs ELSE runs \cup {run[w]}
  BY DEF Commit
<1>3. ASSUME NEW i \in 1 .. Len(rows'), i \notin 1 .. Len(rows)
      PROVE  \E j \in 1 .. Len(mine[w]) :
                /\ i = Len(rows) + j
                /\ rows'[i].target = mine[w][j].target /\ rows'[i].run = run[w]
                /\ run[w].id # 0
  <2>1. PICK j \in 1 .. Len(mine[w]) :
           /\ i = Len(rows) + j
           /\ rows'[i].target = mine[w][j].target /\ rows'[i].run = run[w]
    BY <1>1, <1>3 DEF AddsMine
  <2>2. run[w].id # 0
    BY <1>1 DEF WorkerOK
  <2>3. QED
    BY <2>1, <2>2
<1>4. \A i \in 1 .. Len(rows) : rows'[i] = rows[i] /\ i \in 1 .. Len(rows')
  BY <1>1 DEF RowsGrow
<1>5. OneRunPerWindow'
  <2>1. \A q, r \in runs' : q.window = r.window => q = r
    BY <1>2 DEF OneRunPerWindow, NewToWindow, RunsOf
  <2>2. \A i \in 1 .. Len(rows') : rows'[i].run # Incident => rows'[i].run \in runs'
    BY <1>2, <1>3, <1>4 DEF OneRunPerWindow, AutoRows
  <2>3. QED
    BY <2>1, <2>2 DEF OneRunPerWindow, AutoRows
<1>6. ASSUME NEW i \in 1 .. Len(rows), rows[i].run # Incident, NEW j \in 1 .. Len(mine[w]),
             rows[i].target = mine[w][j].target, rows[i].run.window = run[w].window
      PROVE  FALSE
  BY <1>6 DEF NewToWindow, Untouched
<1>7. ASSUME NEW i \in 1 .. Len(rows'), NEW k \in 1 .. Len(rows'),
             rows'[i].run # Incident, rows'[k].run # Incident,
             rows'[i].target = rows'[k].target, rows'[i].run.window = rows'[k].run.window
      PROVE  i = k
  <2>1. CASE i \in 1 .. Len(rows) /\ k \in 1 .. Len(rows)
    BY <1>4, <1>7, <2>1 DEF OncePerWindow, AutoRows
  <2>2. CASE i \in 1 .. Len(rows) /\ k \notin 1 .. Len(rows)
    BY <1>3, <1>4, <1>6, <1>7, <2>2, ZenonT(40)
  <2>3. CASE i \notin 1 .. Len(rows) /\ k \in 1 .. Len(rows)
    BY <1>3, <1>4, <1>6, <1>7, <2>3
  <2>4. CASE i \notin 1 .. Len(rows) /\ k \notin 1 .. Len(rows)
    BY <1>3, <1>7, <2>4, ZenonT(40) DEF TargetsOnce
  <2>5. QED
    BY <2>1, <2>2, <2>3, <2>4
<1>8. OncePerWindow'
  BY <1>7 DEF OncePerWindow, AutoRows
<1>9. QED
  BY <1>5, <1>8

LEMMA WindowStep ==
    ASSUME OneWorker, ContainInv, WindowInv, [Next]_vars
    PROVE  WindowInv'
<1>1. /\ RowsGrow
      /\ wpc \in [Workers -> {"idle", "select", "post"}]
      /\ todo \in [Workers -> SUBSET Targets] /\ run \in [Workers -> Runs]
      /\ mine \in [Workers -> Seq(Actions)]
      /\ target \in [Workers -> Targets \cup {None}]
      /\ Len(<<>>) = 0 /\ Incident.id = 0
  BY RowsStep, EmptySeq DEF ContainInv, TypeOK, Incident
<1>2. ASSUME UNCHANGED <<runs, workerVars>>, NoAutoRowAdded PROVE WindowInv'
  <2>1. OneRunPerWindow' /\ OncePerWindow'
    BY <1>1, <1>2, WindowsKept DEF WindowInv
  <2>2. ASSUME NEW w \in Workers PROVE TargetsOnce(w)' /\ NewToWindow(w)'
    <3>1. TargetsOnce(w)'
      BY <1>2 DEF WindowInv, TargetsOnce, workerVars
    <3>2. UNCHANGED <<runs, run, mine, wpc, target>>
      BY <1>2 DEF workerVars
    <3>3. NewToWindow(w)'
      <4>1. \A i \in 1 .. Len(rows') : rows'[i].run # Incident =>
               i \in 1 .. Len(rows) /\ rows'[i] = rows[i]
        BY <1>1, <1>2 DEF RowsGrow, NoAutoRowAdded
      <4>2. NewToWindow(w)
        BY DEF WindowInv
      <4>3. ASSUME NEW win, NEW t, Untouched(win, t)
            PROVE  \A i \in 1 .. Len(rows') : (rows'[i].run # Incident /\ rows'[i].target = t)
                                                  => rows'[i].run.window # win
        BY <4>1, <4>3 DEF Untouched
      <4>4. ASSUME NEW t, Untouched(run[w].window, t) PROVE Untouched(run[w].window, t)'
        BY <3>2, <4>3, <4>4 DEF Untouched
      <4>5. /\ wpc'[w] = "post" => Untouched(run[w].window, target[w])'
            /\ \A j \in 1 .. Len(mine'[w]) : Untouched(run[w].window, mine[w][j].target)'
        <5>1. ASSUME wpc'[w] = "post" PROVE Untouched(run[w].window, target[w])'
          <6>1. Untouched(run[w].window, target[w])
            BY <3>2, <4>2, <5>1 DEF NewToWindow
          <6>2. QED
            BY <3>2, <4>4, <6>1 DEF Untouched
        <5>2. ASSUME NEW j \in 1 .. Len(mine'[w])
              PROVE  Untouched(run[w].window, mine[w][j].target)'
          <6>1. Untouched(run[w].window, mine[w][j].target)
            BY <3>2, <4>2, <5>2 DEF NewToWindow
          <6>2. QED
            BY <3>2, <4>4, <6>1 DEF Untouched
        <5>3. QED
          BY <5>1, <5>2
      <4>6. run'[w].id # 0 => run'[w] \in runs' \/ RunsOf(run[w].window)' = {}
        BY <3>2, <4>2 DEF NewToWindow, RunsOf
      <4>7. QED
        BY <3>2, <4>5, <4>6 DEF NewToWindow
    <3>4. QED
      BY <3>1, <3>3
  <2>3. QED
    BY <2>1, <2>2 DEF WindowInv
<1>3. CASE Tick \/ UNCHANGED vars
  BY <1>1, <1>2, <1>3 DEF Tick, vars, db, NoAutoRowAdded
<1>4. ASSUME NEW h \in Handlers, Handle(h) PROVE WindowInv'
  <2>1. UNCHANGED <<runs, workerVars>>
    BY <1>4 DEF Handle, Open, PostUnblock, Record, WriteEvent, CloseBatch, Fail, Block,
                Rollback, Take, db
  <2>2. NoAutoRowAdded
    BY <1>4, HandlerAddsNoAutoRow
  <2>3. QED
    BY <1>2, <2>1, <2>2
<1>5. ASSUME NEW w \in Workers, Automate(w) PROVE WindowInv'
  <2>1. TargetsOnce(w)' /\ NewToWindow(w) /\ WorkerOK(w)
    BY <1>5, TargetsOnceStep DEF WindowInv, ContainInv, WorkersOK
  <2>2. SUFFICES NewToWindow(w)' /\ OneRunPerWindow' /\ OncePerWindow'
    BY <2>1 DEF WindowInv, OneWorker
  <2>3. ASSUME UNCHANGED <<rows, runs>>
        PROVE  /\ OneRunPerWindow' /\ OncePerWindow'
               /\ \A win, t : Untouched(win, t) <=> Untouched(win, t)'
    <3>1. NoAutoRowAdded
      BY <2>3 DEF NoAutoRowAdded
    <3>2. QED
      BY <1>1, <2>3, <3>1, WindowsKept DEF WindowInv, Untouched
  <2>4. CASE StartRun(w)
    <3>1. /\ mine'[w] = <<>> /\ wpc'[w] = "select" /\ run'[w].id = 0
          /\ UNCHANGED <<rows, runs>>
      BY <1>1, <2>1, <2>4 DEF StartRun, WorkerOK, db
    <3>2. QED
      BY <1>1, <2>3, <3>1 DEF NewToWindow
  <2>5. ASSUME NEW t \in Targets, SelectTarget(w, t)
        PROVE  NewToWindow(w)' /\ OneRunPerWindow' /\ OncePerWindow'
    <3>1. /\ wpc[w] = "select" /\ UNCHANGED <<rows, runs, mine>>
      BY <2>5 DEF SelectTarget
    <3>2. CASE Recent(w, t)
      <4>1. UNCHANGED <<wpc, target, run>>
        BY <2>5, <3>2 DEF SelectTarget
      <4>2. QED
        BY <2>1, <2>3, <3>1, <4>1, SMTT(30) DEF NewToWindow, Untouched, RunsOf
    <3>3. CASE ~Recent(w, t)
      <4>1. GetOrCreateRun(w) /\ run[w] \in [id : 0 .. made, window : Windows]
        BY <2>1, <2>5, <3>1, <3>3 DEF SelectTarget, WorkerOK
      <4>2. PICK r \in [id : 0 .. made', window : Windows] :
               /\ run' = [run EXCEPT ![w] = r] /\ r.id # 0
               /\ run[w].id # 0 => r = run[w]
               /\ r.window = run[w].window
               /\ run[w].id = 0 => r \in runs \/ RunsOf(run[w].window) = {}
        BY <4>1, GotRun
      <4>3. run'[w] = r /\ (r \in runs \/ RunsOf(r.window) = {})
        BY <1>1, <2>1, <4>2 DEF NewToWindow
      <4>4. wpc'[w] = "post" => target'[w] = t /\ ~InRun(r, t)
        BY <1>1, <2>5, <3>1, <3>3, <4>3 DEF SelectTarget, InRun
      <4>5. ASSUME ~InRun(r, t) PROVE Untouched(r.window, t)
        <5>1. SUFFICES ASSUME NEW i \in 1 .. Len(rows), rows[i].run # Incident,
                              rows[i].target = t, rows[i].run.window = r.window
                       PROVE  FALSE
          BY DEF Untouched
        <5>2. rows[i].run \in runs
          BY <5>1 DEF WindowInv, OneRunPerWindow, AutoRows
        <5>3. rows[i].run = r
          BY <4>3, <5>1, <5>2 DEF WindowInv, OneRunPerWindow, RunsOf
        <5>4. QED
          BY <4>5, <5>1, <5>3 DEF InRun
      <4>6. \A j \in 1 .. Len(mine[w]) : Untouched(r.window, mine[w][j].target)
        BY <2>1, <4>2 DEF NewToWindow
      <4>7. NewToWindow(w)'
        BY <3>1, <4>3, <4>4, <4>5, <4>6 DEF NewToWindow, Untouched, RunsOf
      <4>8. QED
        BY <2>3, <3>1, <4>7
    <3>4. QED
      BY <3>2, <3>3
  <2>6. CASE PostBlock(w)
    <3>1. /\ wpc[w] = "post" /\ wpc'[w] = "select" /\ run'[w] = run[w]
          /\ UNCHANGED <<rows, runs>>
      BY <1>1, <2>6 DEF PostBlock, db
    <3>2. PICK o \in Outcomes : mine'[w] = Posted(w, o)
      BY <1>1, <2>6 DEF PostBlock, Posted
    <3> DEFINE m == mine'[w]
    <3>3. /\ Len(mine[w]) \in Nat /\ Len(m) = Len(mine[w]) + 1
          /\ \A j \in 1 .. Len(mine[w]) : m[j].target = mine[w][j].target
          /\ m[Len(m)].target = target[w]
      BY <3>1, <3>2, PostedRows
    <3> HIDE DEF m
    <3>4. \A j \in 1 .. Len(m) : j \in 1 .. Len(mine[w]) \/ j = Len(m)
      BY <3>3
    <3>5. \A j \in 1 .. Len(m) : Untouched(run[w].window, m[j].target)
      BY <2>1, <3>1, <3>3, <3>4 DEF NewToWindow
    <3>6. NewToWindow(w)'
      BY <2>1, <3>1, <3>5 DEF NewToWindow, Untouched, RunsOf, m
    <3>7. QED
      BY <2>3, <3>1, <3>6
  <2>7. CASE FinishRun(w) \/ FailRun(w)
    <3>1. /\ mine'[w] = <<>> /\ wpc'[w] = "idle" /\ run'[w].id = 0
          /\ Commit(w) \/ UNCHANGED <<rows, runs>>
      BY <1>1, <2>7 DEF FinishRun, FailRun, Leave
    <3>2. NewToWindow(w)'
      BY <1>1, <3>1 DEF NewToWindow
    <3>3. CASE Commit(w)
      BY <2>1, <3>2, <3>3, CommittedWindow DEF WindowInv
    <3>4. QED
      BY <2>3, <3>1, <3>2, <3>3
  <2>8. QED
    BY <1>5, <2>4, <2>5, <2>6, <2>7 DEF Automate
<1>6. QED
  BY <1>3, <1>4, <1>5 DEF Next

\* A window's run acts once on a target, with one automatic run at a time: over
\* crashes, repeated windows and any requests of the analysts.
THEOREM OncePerWindowAlone == ASSUME OneWorker PROVE Spec => []OncePerWindow
<1>1. Init => WindowInv
  <2> SUFFICES ASSUME Init PROVE WindowInv
    OBVIOUS
  <2>1. Len(rows) = 0 /\ runs = {} /\ Incident.id = 0
        /\ \A w \in Workers : wpc[w] = "idle" /\ Len(mine[w]) = 0 /\ run[w] = Incident
    BY EmptySeq DEF Init, Incident
  <2>2. QED
    BY <2>1 DEF WindowInv, OneRunPerWindow, OncePerWindow, AutoRows, TargetsOnce, NewToWindow
<1>2. ContainInv /\ WindowInv /\ [Next]_vars => WindowInv'
  BY WindowStep
<1>3. WindowInv => OncePerWindow
  BY DEF WindowInv
<1>4. QED
  BY <1>1, <1>2, <1>3, ContainInit, ContainStep, PTL DEF Spec

-----------------------------------------------------------------------------
(* The cooldown, one automatic run at a time.                              *)

\* The committed automatic blocks of t that were carried out are longer ago
\* than the cooldown at the given time.
CooledDown(t, time) ==
    \A i \in 1 .. Len(rows) :
        (rows[i].run # Incident /\ rows[i].target = t /\ rows[i].status = "executed")
            => rows[i].at + Cooldown < time

TimeOf(row) == IF row.at = 0 THEN now ELSE row.at

\* It holds of what a worker has decided to post, and at the time each of its
\* rows has or would get now.
StillCool(w) ==
    /\ wpc[w] = "post" => CooledDown(target[w], now)
    /\ \A j \in 1 .. Len(mine[w]) : CooledDown(mine[w][j].target, TimeOf(mine[w][j]))

\* Automatic runs do not roll back.
AutoBlocks == \A i \in 1 .. Len(rows) : rows[i].run # Incident => rows[i].type = "block_ip"

CooldownInv == /\ RecordsApart /\ AutoBlocks
               /\ \A w \in Workers : TargetsOnce(w) /\ StillCool(w)

\* The rows a worker adds are after the cooldown of those before them.
LEMMA CommittedCool ==
    ASSUME ContainInv, RecordsApart, NEW w \in Workers,
           TargetsOnce(w), StillCool(w), Commit(w), AutoBlocks
    PROVE  RecordsApart' /\ AutoBlocks'
<1>1. RowsGrow /\ AddsMine(w) /\ Len(mine[w]) \in Nat
  BY CommitAdds
<1>2. ASSUME NEW i \in 1 .. Len(rows'), i \notin 1 .. Len(rows)
      PROVE  \E j \in 1 .. Len(mine[w]) :
                /\ i = Len(rows) + j
                /\ rows'[i].target = mine[w][j].target
                /\ rows'[i].at = TimeOf(mine[w][j])
  BY <1>1, <1>2 DEF AddsMine, TimeOf
<1>3. \A i \in 1 .. Len(rows) : rows'[i] = rows[i] /\ i \in 1 .. Len(rows')
  BY <1>1 DEF RowsGrow
<1>4. ASSUME NEW i \in 1 .. Len(rows'), NEW k \in 1 .. Len(rows'), i < k,
             rows'[i].run # Incident, rows'[k].run # Incident,
             rows'[i].target = rows'[k].target, rows'[i].status = "executed"
      PROVE  rows'[k].at > rows'[i].at + Cooldown
  <2>1. CASE k \in 1 .. Len(rows)
    <3>1. i \in 1 .. Len(rows)
      BY <1>1, <1>4, <2>1 DEF RowsGrow
    <3>2. QED
      BY <1>3, <1>4, <2>1, <3>1 DEF RecordsApart, AutoRows
  <2>2. CASE i \in 1 .. Len(rows) /\ k \notin 1 .. Len(rows)
    <3>1. PICK j \in 1 .. Len(mine[w]) : /\ rows'[k].target = mine[w][j].target
                                         /\ rows'[k].at = TimeOf(mine[w][j])
      BY <1>2, <2>2
    <3>2. rows[i].at + Cooldown < TimeOf(mine[w][j])
      BY <1>3, <1>4, <2>2, <3>1 DEF StillCool, CooledDown
    <3>3. rows'[i].at + Cooldown < rows'[k].at
      BY <1>3, <2>2, <3>1, <3>2
    <3>4. rows'[i].at \in Nat /\ rows'[k].at \in Nat /\ Cooldown \in Nat
      <4>1. rows' \in Seq(Actions)
        BY CommittedRows DEF Commit
      <4>2. rows'[i] \in Actions /\ rows'[k] \in Actions
        BY <4>1, ElementOfSeq
      <4>3. QED
        BY <4>2 DEF Actions
    <3>5. QED
      BY <3>3, <3>4
  <2>3. CASE i \notin 1 .. Len(rows) /\ k \notin 1 .. Len(rows)
    <3>1. PICK j \in 1 .. Len(mine[w]) : i = Len(rows) + j /\ rows'[i].target = mine[w][j].target
      BY <1>2, <2>3
    <3>2. PICK l \in 1 .. Len(mine[w]) : k = Len(rows) + l /\ rows'[k].target = mine[w][l].target
      BY <1>2, <2>3
    <3>3. j = l
      BY <1>4, <3>1, <3>2 DEF TargetsOnce
    <3>4. QED
      BY <1>1, <1>4, <3>1, <3>2, <3>3 DEF RowsGrow
  <2>4. QED
    BY <2>1, <2>2, <2>3
<1>5. AutoBlocks'
  BY <1>1, <1>3 DEF AddsMine, AutoBlocks
<1>6. QED
  BY <1>4, <1>5 DEF RecordsApart, AutoRows

LEMMA CooldownStep ==
    ASSUME OneWorker, Cooldown # 0, ContainInv, CooldownInv, [Next]_vars
    PROVE  CooldownInv'
<1>1. /\ RowsGrow /\ now \in Nat /\ Cooldown \in Nat
      /\ wpc \in [Workers -> {"idle", "select", "post"}]
      /\ todo \in [Workers -> SUBSET Targets] /\ run \in [Workers -> Runs]
      /\ mine \in [Workers -> Seq(Actions)]
      /\ target \in [Workers -> Targets \cup {None}]
      /\ Len(<<>>) = 0
      /\ \A i \in 1 .. Len(rows) : rows[i].at \in Nat
      /\ \A w \in Workers : \A j \in 1 .. Len(mine[w]) : mine[w][j].at \in 0 .. now
  <2>1. RowsGrow
    BY RowsStep
  <2>2. /\ \A i \in 1 .. Len(rows) : rows[i].at \in Nat
        /\ now \in Nat /\ Cooldown \in Nat
    BY DEF ContainInv, TypeOK
  <2>3. \A w \in Workers : \A j \in 1 .. Len(mine[w]) : mine[w][j].at \in 0 .. now
    BY DEF ContainInv, WorkersOK, WorkerOK
  <2>4. QED
    BY <2>1, <2>2, <2>3, EmptySeq DEF ContainInv, TypeOK
<1>2. ASSUME NoAutoRowAdded
      PROVE  /\ \A i \in 1 .. Len(rows') : rows'[i].run # Incident =>
                   i \in 1 .. Len(rows) /\ rows'[i] = rows[i]
             /\ RecordsApart' /\ AutoBlocks'
  <2>1. \A i \in 1 .. Len(rows') : rows'[i].run # Incident =>
           i \in 1 .. Len(rows) /\ rows'[i] = rows[i]
    BY <1>1, <1>2 DEF RowsGrow, NoAutoRowAdded
  <2>2. QED
    BY <2>1 DEF CooldownInv, RecordsApart, AutoRows, AutoBlocks
<1>3. ASSUME UNCHANGED workerVars, now' = now \/ now' = now + 1, NoAutoRowAdded
      PROVE  CooldownInv'
  <2>1. /\ \A i \in 1 .. Len(rows') : rows'[i].run # Incident =>
              i \in 1 .. Len(rows) /\ rows'[i] = rows[i]
        /\ RecordsApart' /\ AutoBlocks' /\ UNCHANGED <<wpc, todo, run, mine, target>>
    BY <1>2, <1>3 DEF workerVars
  <2>2. ASSUME NEW w \in Workers PROVE TargetsOnce(w)' /\ StillCool(w)'
    <3>1. TargetsOnce(w)'
      BY <2>1 DEF CooldownInv, TargetsOnce
    <3>2. wpc'[w] = "post" => CooledDown(target[w], now)'
      <4>1. SUFFICES ASSUME wpc[w] = "post", NEW i \in 1 .. Len(rows'),
                            rows'[i].run # Incident, rows'[i].target = target[w],
                            rows'[i].status = "executed"
                     PROVE  rows'[i].at + Cooldown < now'
        BY <2>1 DEF CooledDown
      <4>2. /\ i \in 1 .. Len(rows) /\ rows'[i] = rows[i] /\ rows[i].at \in Nat
        BY <1>1, <2>1, <4>1
      <4>3. rows[i].at + Cooldown < now
        BY <4>1, <4>2 DEF CooldownInv, StillCool, CooledDown
      <4>4. QED
        BY <1>1, <1>3, <4>2, <4>3
    <3>3. ASSUME NEW j \in 1 .. Len(mine[w])
          PROVE  CooledDown(mine[w][j].target, TimeOf(mine[w][j]))'
      <4>1. CooledDown(mine[w][j].target, TimeOf(mine[w][j]))
        BY DEF CooldownInv, StillCool
      <4>2. /\ TimeOf(mine[w][j]) \in Nat /\ TimeOf(mine[w][j])' \in Nat
            /\ TimeOf(mine[w][j]) <= TimeOf(mine[w][j])'
        BY <1>1, <1>3, <2>1 DEF TimeOf
      <4> HIDE DEF TimeOf
      <4>3. ASSUME NEW i \in 1 .. Len(rows'), rows'[i].run # Incident,
                   rows'[i].target = mine[w][j].target, rows'[i].status = "executed"
            PROVE  rows'[i].at + Cooldown < TimeOf(mine[w][j])'
        <5>1. rows[i].at + Cooldown < TimeOf(mine[w][j]) /\ rows[i].at \in Nat
              /\ rows'[i] = rows[i]
          BY <1>1, <2>1, <4>1, <4>3 DEF CooledDown
        <5>2. QED
          BY <1>1, <4>2, <5>1, SMTT(30)
      <4>4. QED
        BY <2>1, <4>3 DEF CooledDown
    <3>4. QED
      BY <2>1, <3>1, <3>2, <3>3 DEF StillCool
  <2>3. QED
    BY <2>1, <2>2 DEF CooldownInv
<1>4. CASE Tick \/ UNCHANGED vars
  BY <1>1, <1>3, <1>4 DEF Tick, vars, db, NoAutoRowAdded
<1>5. ASSUME NEW h \in Handlers, Handle(h) PROVE CooldownInv'
  <2>1. UNCHANGED <<now, workerVars>>
    BY <1>5 DEF Handle, Open, PostUnblock, Record, WriteEvent, CloseBatch, Fail, Block,
                Rollback, Take
  <2>2. NoAutoRowAdded
    BY <1>5, HandlerAddsNoAutoRow
  <2>3. QED
    BY <1>3, <2>1, <2>2
<1>6. ASSUME NEW w \in Workers, Automate(w) PROVE CooldownInv'
  <2>1. TargetsOnce(w) /\ TargetsOnce(w)' /\ StillCool(w) /\ RecordsApart /\ AutoBlocks
    BY <1>6, TargetsOnceStep DEF CooldownInv
  <2>2. SUFFICES StillCool(w)' /\ RecordsApart' /\ AutoBlocks'
    BY <2>1 DEF CooldownInv, OneWorker
  <2>3. ASSUME UNCHANGED rows PROVE RecordsApart' /\ AutoBlocks'
    BY <2>1, <2>3 DEF RecordsApart, AutoRows, AutoBlocks
  <2>4. CASE StartRun(w) \/ FinishRun(w) \/ FailRun(w)
    <3>1. mine'[w] = <<>> /\ wpc'[w] # "post"
      BY <1>1, <2>4 DEF StartRun, FinishRun, FailRun, Leave, ContainInv, WorkersOK, WorkerOK
    <3>2. StillCool(w)'
      BY <1>1, <3>1 DEF StillCool
    <3>3. UNCHANGED rows \/ Commit(w)
      BY <2>4 DEF StartRun, FinishRun, FailRun, db
    <3>4. QED
      BY <2>1, <2>3, <3>2, <3>3, CommittedCool
  <2>5. ASSUME NEW t \in Targets, SelectTarget(w, t)
        PROVE  StillCool(w)' /\ RecordsApart' /\ AutoBlocks'
    <3>1. wpc[w] = "select" /\ UNCHANGED <<rows, mine, now>>
      BY <2>5 DEF SelectTarget
    <3>2. wpc'[w] = "post" => target'[w] = t /\ ~Recent(w, t)
      BY <1>1, <2>5, <3>1 DEF SelectTarget
    <3>3. ASSUME ~Recent(w, t) PROVE CooledDown(t, now)
      <4>1. SUFFICES ASSUME NEW i \in 1 .. Len(rows), rows[i].run # Incident,
                            rows[i].target = t, rows[i].status = "executed"
                     PROVE  rows[i].at + Cooldown < now
        BY DEF CooledDown
      <4>2. rows[i].type = "block_ip"
        BY <4>1 DEF CooldownInv, AutoBlocks
      <4>3. QED
        BY <1>1, <3>3, <4>1, <4>2 DEF Recent, Executed
    <3>4. StillCool(w)'
      BY <2>1, <3>1, <3>2, <3>3 DEF StillCool, CooledDown, TimeOf
    <3>5. QED
      BY <2>3, <3>1, <3>4
  <2>6. CASE PostBlock(w)
    <3>1. /\ wpc[w] = "post" /\ wpc'[w] = "select" /\ UNCHANGED <<rows, now>>
      BY <1>1, <2>6 DEF PostBlock, db
    <3>2. PICK o \in Outcomes : mine'[w] = Posted(w, o)
      BY <1>1, <2>6 DEF PostBlock, Posted
    <3> DEFINE m == mine'[w]
    <3>3. /\ Len(mine[w]) \in Nat /\ Len(m) = Len(mine[w]) + 1
          /\ \A j \in 1 .. Len(mine[w]) :
                /\ m[j].target = mine[w][j].target
                /\ m[j].at = TimeOf(mine[w][j])
          /\ m[Len(m)].target = target[w] /\ m[Len(m)].at = 0
      BY <3>1, <3>2, PostedRows DEF TimeOf
    <3> HIDE DEF m
    <3>4. ASSUME NEW j \in 1 .. Len(m)
          PROVE  \A i \in 1 .. Len(rows) :
                    (rows[i].run # Incident /\ rows[i].target = m[j].target
                       /\ rows[i].status = "executed")
                          => rows[i].at + Cooldown < (IF m[j].at = 0 THEN now ELSE m[j].at)
      <4>1. CASE j \in 1 .. Len(mine[w])
        <5>1. /\ CooledDown(mine[w][j].target, TimeOf(mine[w][j]))
              /\ TimeOf(mine[w][j]) = IF m[j].at = 0 THEN now ELSE m[j].at
          BY <1>1, <2>1, <3>3, <4>1 DEF StillCool, TimeOf
        <5>2. QED
          BY <3>3, <4>1, <5>1 DEF CooledDown
      <4>2. CASE j \notin 1 .. Len(mine[w])
        <5>1. j = Len(m)
          BY <3>3, <4>2
        <5>2. QED
          BY <2>1, <3>1, <3>3, <5>1 DEF StillCool, CooledDown
      <4>3. QED
        BY <4>1, <4>2
    <3>5. StillCool(w)'
      BY <3>1, <3>4 DEF StillCool, CooledDown, TimeOf, m
    <3>6. QED
      BY <2>3, <3>1, <3>5
  <2>7. QED
    BY <1>6, <2>4, <2>5, <2>6 DEF Automate
<1>7. QED
  BY <1>4, <1>5, <1>6 DEF Next

\* With one automatic run at a time and a cooldown that is set, the automation
\* neither records nor posts a block within the cooldown of one on record, whatever
\* windows it works on, and with rows that get their time long after the decision.
\* Blocks that a failed run posted and did not record are not among those.
THEOREM RecordedCooldownKeptAlone ==
    ASSUME OneWorker, Cooldown # 0
    PROVE  Spec => []RecordedCooldownKept
<1>1. Init => CooldownInv
  <2> SUFFICES ASSUME Init PROVE CooldownInv
    OBVIOUS
  <2>1. Len(rows) = 0
        /\ \A w \in Workers : wpc[w] = "idle" /\ Len(mine[w]) = 0
    BY EmptySeq DEF Init
  <2>2. QED
    BY <2>1 DEF CooldownInv, RecordsApart, AutoBlocks, AutoRows, TargetsOnce, StillCool
<1>2. ContainInv /\ CooldownInv /\ [Next]_vars => CooldownInv'
  BY CooldownStep
<1>3. ContainInv /\ CooldownInv => RecordedCooldownKept
  <2> SUFFICES ASSUME ContainInv, CooldownInv PROVE RecordedCooldownKept
    OBVIOUS
  <2>1. RecordsApart
    BY DEF CooldownInv
  <2>2. ASSUME NEW w \in Workers, NEW i \in AutoRows, wpc[w] = "post",
               rows[i].target = target[w], rows[i].status = "executed"
        PROVE  now > rows[i].at + Cooldown
    <3>1. rows[i].at + Cooldown < now
      BY <2>2 DEF CooldownInv, StillCool, CooledDown, AutoRows
    <3>2. now \in Nat /\ rows[i].at \in Nat /\ Cooldown \in Nat
      BY <2>2 DEF ContainInv, TypeOK, AutoRows
    <3>3. QED
      BY <3>1, <3>2
  <2>3. QED
    BY <2>1, <2>2 DEF RecordedCooldownKept, PostsApart
<1>4. QED
  BY <1>1, <1>2, <1>3, ContainInit, ContainStep, PTL DEF Spec
=============================================================================
