--------------------------- MODULE GraphProjector ---------------------------
(***************************************************************************)
(* graph/neo4j_worker.py: the delta log of Postgres projected into Neo4j.  *)
(*                                                                         *)
(* A writer (an ingest worker, the mule campaign worker, the backfill)     *)
(* stamps its row with created_at when it builds the INSERT, and commits   *)
(* it later. A projector reads a batch of rows stamped after its cursor,   *)
(* in stamp order, and for each row merges nodes and edges into Neo4j in   *)
(* one transaction and then, in another database, commits the cursor.      *)
(*                                                                         *)
(* The service loop is one projector; backfill_graph_deltas.py             *)
(* --project-neo4j runs a second one beside it.                            *)
(***************************************************************************)
EXTENDS Naturals, FiniteSets

CONSTANTS Deltas,               \* rows that are written to graph_delta_log
          Edges,                \* relationships of the graph
          EdgesOf,              \* the edges each delta merges
          Unmergeable,          \* rows with a label or an edge Neo4j is not given
          Writers, Projectors,
          BatchSize,            \* --batch-size
          MaxCrashes,           \* bound on aborted projector runs
          MaxClock,             \* bound on the clock, that is on rows and rollbacks
          None

ASSUME EdgesOfAssumption == EdgesOf \in [Deltas -> SUBSET Edges]
ASSUME UnmergeableAssumption == Unmergeable \subseteq Deltas
ASSUME BatchSizeAssumption == BatchSize \in Nat \ {0}
ASSUME BoundsAssumption == MaxCrashes \in Nat /\ MaxClock \in Nat
ASSUME NoneAssumption == None \notin Deltas

VARIABLES clock,                \* wall clock, in steps that matter
          stamp,                \* created_at per delta, 0 when there is no row
          writing,              \* per writer: the row of its open transaction
          log,                  \* committed rows of graph_delta_log
          cursor,               \* projection_cursor.last_created_at, 0 for none
          batch,                \* per projector: rows fetched and not done
          inHand,               \* per projector: row applied, cursor not set
          graph,                \* Neo4j: count and evidence per edge
          crashes

writerVars == <<clock, stamp, writing, log>>
projectorVars == <<batch, inHand>>
vars == <<writerVars, cursor, projectorVars, graph, crashes>>

EdgeData == [count : Nat, evidence : SUBSET Deltas]

TypeOK == /\ clock \in Nat \ {0}
          /\ stamp \in [Deltas -> Nat]
          /\ writing \in [Writers -> Deltas \cup {None}]
          /\ log \subseteq Deltas
          /\ cursor \in Nat
          /\ batch \in [Projectors -> SUBSET Deltas]
          /\ inHand \in [Projectors -> Deltas \cup {None}]
          /\ graph \in [Edges -> EdgeData]
          /\ crashes \in 0 .. MaxCrashes
          /\ \A p \in Projectors : batch[p] \subseteq log
          /\ \A p \in Projectors : inHand[p] # None => inHand[p] \in batch[p]

Init == /\ clock = 1
        /\ stamp = [d \in Deltas |-> 0]
        /\ writing = [w \in Writers |-> None]
        /\ log = {}
        /\ cursor = 0
        /\ batch = [p \in Projectors |-> {}]
        /\ inHand = [p \in Projectors |-> None]
        /\ graph = [e \in Edges |-> [count |-> 0, evidence |-> {}]]
        /\ crashes = 0

-----------------------------------------------------------------------------
(* Writers: GraphDeltaRepository.insert_delta.                             *)

\* created_at is the client's clock at the flush. It has microseconds: two
\* stamps are taken to be different.
Stamp(w, d) == /\ writing[w] = None
               /\ stamp[d] = 0
               /\ clock < MaxClock
               /\ stamp' = [stamp EXCEPT ![d] = clock]
               /\ clock' = clock + 1
               /\ writing' = [writing EXCEPT ![w] = d]
               /\ UNCHANGED <<log, cursor, projectorVars, graph, crashes>>

Commit(w) == /\ writing[w] # None
             /\ log' = log \cup {writing[w]}
             /\ writing' = [writing EXCEPT ![w] = None]
             /\ UNCHANGED <<clock, stamp, cursor, projectorVars, graph, crashes>>

Abort(w) == /\ writing[w] # None
            /\ stamp' = [stamp EXCEPT ![writing[w]] = 0]
            /\ writing' = [writing EXCEPT ![w] = None]
            /\ UNCHANGED <<clock, log, cursor, projectorVars, graph, crashes>>

-----------------------------------------------------------------------------
(* Projectors: run_once.                                                   *)

\* Mutants: the cursor's row is read again; the row after it is missed.
FromCursor(d) == stamp[d] >= cursor
WellAfterCursor(d) == stamp[d] > cursor + 1

AfterCursor(d) == stamp[d] > cursor

\* Mutant: LIMIT without ORDER BY.
AnyRows(S, B) == B \subseteq S /\ (Cardinality(B) = BatchSize \/ B = S)

\* The first BatchSize rows after the cursor in stamp order.
FirstRows(S, B) == /\ B \subseteq S
                   /\ Cardinality(B) <= BatchSize
                   /\ Cardinality(B) = BatchSize \/ B = S
                   /\ \A d \in B, x \in S \ B : stamp[d] <= stamp[x]

Fetch(p) == /\ batch[p] = {}
            /\ \E B \in SUBSET log :
                 /\ B # {}
                 /\ FirstRows({d \in log : AfterCursor(d)}, B)
                 /\ batch' = [batch EXCEPT ![p] = B]
            /\ UNCHANGED <<writerVars, cursor, inHand, graph, crashes>>

\* The row a projector takes next.
NextRow(p, d) == /\ d \in batch[p] /\ inHand[p] = None
                 /\ \A x \in batch[p] : stamp[d] <= stamp[x]

\* _merge_edge: the count is added to, the evidence is a set.
Merge(old, d) == [count |-> old.count + 1, evidence |-> old.evidence \cup {d}]

Merged(d) == [e \in Edges |-> IF e \in EdgesOf[d] THEN Merge(graph[e], d) ELSE graph[e]]

\* One transaction for the row; the driver's retries of a failed one leave
\* nothing behind in the graph.
Apply(p, d) == /\ NextRow(p, d) /\ d \notin Unmergeable
               /\ graph' = Merged(d)
               /\ inHand' = [inHand EXCEPT ![p] = d]
               /\ UNCHANGED <<writerVars, cursor, batch, crashes>>

\* apply_delta raises for a label or an edge type it does not know: run_once
\* ends with its transaction rolled back, and the next run meets the row again.
Refuse(p) == /\ \E d \in Unmergeable : NextRow(p, d)
             /\ batch' = [batch EXCEPT ![p] = {}]
             /\ UNCHANGED <<writerVars, cursor, inHand, graph, crashes>>

\* set_cursor writes the stamp of this row, whatever the cursor is by then.
SetCursor(p) == /\ inHand[p] # None
                /\ cursor' = stamp[inHand[p]]
                /\ batch' = [batch EXCEPT ![p] = @ \ {inHand[p]}]
                /\ inHand' = [inHand EXCEPT ![p] = None]
                /\ UNCHANGED <<writerVars, graph, crashes>>

\* An exception (Neo4j, Postgres) or a crash ends the run; the transaction of
\* the row in hand may have committed although its answer was lost.
AbortRun(p) == /\ batch[p] # {}
               /\ crashes < MaxCrashes
               /\ crashes' = crashes + 1
               /\ \/ UNCHANGED graph
                  \/ \E d \in batch[p] \ Unmergeable :
                        NextRow(p, d) /\ graph' = Merged(d)
               /\ batch' = [batch EXCEPT ![p] = {}]
               /\ inHand' = [inHand EXCEPT ![p] = None]
               /\ UNCHANGED <<writerVars, cursor>>

-----------------------------------------------------------------------------
Write(w) == (\E d \in Deltas : Stamp(w, d)) \/ Commit(w) \/ Abort(w)

Project(p) == \/ Fetch(p)
              \/ \E d \in Deltas : Apply(p, d)
              \/ Refuse(p)
              \/ SetCursor(p)

Next == \/ \E w \in Writers : Write(w)
        \/ \E p \in Projectors :
              Project(p) \/ AbortRun(p)

Spec == Init /\ [][Next]_vars

(* The service loop runs the projector again and again.                    *)
FairSpec == Spec /\ \A p \in Projectors : WF_vars(Project(p))

-----------------------------------------------------------------------------
(* Correctness.                                                            *)

\* Delta d is in the graph, on each of its edges.
Projected(d) == \A e \in EdgesOf[d] : d \in graph[e].evidence

\* Postgres is canonical and Neo4j projection-only (README.md:13): an edge has
\* evidence only of committed rows that carry it.
EvidenceIsLogged ==
    \A e \in Edges : \A d \in graph[e].evidence : d \in log /\ e \in EdgesOf[d]

\* The cursor never passes a committed row that is not projected: no crash,
\* batch limit or concurrent projector makes the projection skip a row. True of
\* a single writer; two writers commit their rows in another order than that of
\* the stamps (README.md:15, "Graph projections are generated via GraphDelta
\* logs").
NothingSkipped == \A d \in log : stamp[d] <= cursor => Projected(d)

\* Applying is at least once: an edge counts each piece of its evidence.
CountCoversEvidence ==
    \A e \in Edges : graph[e].count >= Cardinality(graph[e].evidence)

\* No row that cannot be merged stands before d in the log.
Unobstructed(d) == \A x \in Unmergeable \cap log : stamp[x] > stamp[d]

\* A committed delta reaches the graph, however often runs are aborted, unless
\* a row that can never be merged stands before it: neo4j_worker.py does not
\* pass over that row, and all behind it waits.
EventuallyProjected ==
    \A d \in Deltas : (d \in log /\ Unobstructed(d)) ~> Projected(d)
=============================================================================
