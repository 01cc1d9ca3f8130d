------------------------ MODULE GraphProjectorProofs ------------------------
(***************************************************************************)
(* Proofs about GraphProjector, for any deltas, edges, batch size and      *)
(* number of projectors: types, that the graph only holds logged evidence  *)
(* and counts all of it, that a single writer's rows are never skipped, and*)
(* that projectors which do not overlap replay one row per aborted run.    *)
(***************************************************************************)
EXTENDS MCGraphProjector, FiniteSetTheorems, TLAPS

USE EdgesOfAssumption, BatchSizeAssumption, BoundsAssumption, NoneAssumption

-----------------------------------------------------------------------------
(* Types.                                                                  *)

LEMMA TypeInit == Init => TypeOK
BY DEF Init, TypeOK, EdgeData

\* Merging keeps the edge data well-typed.
LEMMA MergedType ==
    ASSUME TypeOK, NEW d \in Deltas
    PROVE  Merged(d) \in [Edges -> EdgeData]
<1>1. ASSUME NEW e \in Edges PROVE Merge(graph[e], d) \in EdgeData
  BY DEF TypeOK, Merge, EdgeData
<1>2. QED
  BY <1>1 DEF TypeOK, Merged

LEMMA TypeStep == TypeOK /\ [Next]_vars => TypeOK'
<1> SUFFICES ASSUME TypeOK, [Next]_vars PROVE TypeOK'
  OBVIOUS
<1> USE DEF TypeOK, writerVars, projectorVars, NextRow
<1>1. ASSUME NEW w \in Writers, NEW d \in Deltas, Stamp(w, d) PROVE TypeOK'
  BY <1>1 DEF Stamp
<1>2. ASSUME NEW w \in Writers, Commit(w) PROVE TypeOK'
  BY <1>2 DEF Commit
<1>3. ASSUME NEW w \in Writers, Abort(w) PROVE TypeOK'
  BY <1>3 DEF Abort
<1>4. ASSUME NEW p \in Projectors, Fetch(p) PROVE TypeOK'
  BY <1>4 DEF Fetch, FirstRows
<1>5. ASSUME NEW p \in Projectors, NEW d \in Deltas, Apply(p, d) PROVE TypeOK'
  BY <1>5, MergedType DEF Apply
<1>6. ASSUME NEW p \in Projectors, SetCursor(p) PROVE TypeOK'
  BY <1>6 DEF SetCursor
<1>7. ASSUME NEW p \in Projectors, AbortRun(p) PROVE TypeOK'
  <2>1. graph' \in [Edges -> EdgeData]
    BY <1>7, MergedType DEF AbortRun
  <2>2. QED
    BY <1>7, <2>1 DEF AbortRun
<1>8. ASSUME NEW p \in Projectors, Refuse(p) PROVE TypeOK'
  BY <1>8 DEF Refuse
<1>9. ASSUME UNCHANGED vars PROVE TypeOK'
  BY <1>9 DEF vars
<1>10. QED
  BY <1>1, <1>2, <1>3, <1>4, <1>5, <1>6, <1>7, <1>8, <1>9 DEF Next, Write, Project

\* The projection's variables keep their types.
THEOREM ProjectorTypeCorrect == Spec => []TypeOK
<1>1. QED
  BY TypeInit, TypeStep, PTL DEF Spec

-----------------------------------------------------------------------------
(* What the graph holds.                                                   *)

FiniteEvidence == \A e \in Edges : IsFiniteSet(graph[e].evidence)

GraphInv == TypeOK /\ EvidenceIsLogged /\ FiniteEvidence /\ CountCoversEvidence

\* Merging one row keeps the graph within the log, and its counts large enough.
LEMMA MergedGraph ==
    ASSUME GraphInv, NEW d \in log, graph' = Merged(d), log' = log
    PROVE  EvidenceIsLogged' /\ FiniteEvidence' /\ CountCoversEvidence'
<1>1. EvidenceIsLogged'
  BY DEF GraphInv, TypeOK, EvidenceIsLogged, Merged, Merge, EdgeData
<1>2. ASSUME NEW e \in Edges
      PROVE /\ IsFiniteSet(graph'[e].evidence)
            /\ graph'[e].count >= Cardinality(graph'[e].evidence)
  <2>1. /\ IsFiniteSet(graph[e].evidence)
        /\ graph[e].count >= Cardinality(graph[e].evidence)
        /\ graph[e].count \in Nat
        /\ Cardinality(graph[e].evidence) \in Nat
    BY FS_CardinalityType DEF GraphInv, TypeOK, FiniteEvidence, CountCoversEvidence, EdgeData
  <2>2. /\ IsFiniteSet(graph[e].evidence \cup {d})
        /\ \/ Cardinality(graph[e].evidence \cup {d}) = Cardinality(graph[e].evidence)
           \/ Cardinality(graph[e].evidence \cup {d}) = Cardinality(graph[e].evidence) + 1
    BY <2>1, FS_AddElement
  <2>3. CASE e \in EdgesOf[d]
    <3>1. /\ graph'[e].evidence = graph[e].evidence \cup {d}
          /\ graph'[e].count = graph[e].count + 1
      BY <2>3 DEF Merged, Merge
    <3>2. QED
      BY <2>1, <2>2, <3>1
  <2>4. CASE e \notin EdgesOf[d]
    BY <2>1, <2>4 DEF Merged
  <2>5. QED
    BY <2>3, <2>4
<1>3. QED
  BY <1>1, <1>2 DEF FiniteEvidence, CountCoversEvidence

LEMMA GraphInvStep == GraphInv /\ [Next]_vars => GraphInv'
<1> SUFFICES ASSUME GraphInv, [Next]_vars PROVE GraphInv'
  OBVIOUS
<1>0. TypeOK /\ TypeOK'
  BY TypeStep DEF GraphInv
<1>1. ASSUME UNCHANGED graph, log \subseteq log' PROVE GraphInv'
  BY <1>0, <1>1 DEF GraphInv, EvidenceIsLogged, FiniteEvidence, CountCoversEvidence
<1>2. ASSUME NEW d \in log, graph' = Merged(d), log' = log
      PROVE GraphInv'
  BY <1>0, <1>2, MergedGraph DEF GraphInv
<1>3. ASSUME NEW w \in Writers, Write(w) PROVE GraphInv'
  BY <1>3, <1>1 DEF Write, Stamp, Commit, Abort
<1>4. ASSUME NEW p \in Projectors, Fetch(p) \/ Refuse(p) \/ SetCursor(p) PROVE GraphInv'
  BY <1>4, <1>1 DEF Fetch, Refuse, SetCursor, writerVars
<1>5. ASSUME NEW p \in Projectors, NEW d \in Deltas, Apply(p, d) PROVE GraphInv'
  BY <1>0, <1>5, <1>2 DEF Apply, NextRow, writerVars, TypeOK
<1>6. ASSUME NEW p \in Projectors, AbortRun(p) PROVE GraphInv'
  BY <1>0, <1>6, <1>1, <1>2 DEF AbortRun, NextRow, writerVars, TypeOK
<1>7. CASE UNCHANGED vars
  BY <1>7, <1>1 DEF vars, writerVars
<1>8. QED
  BY <1>3, <1>4, <1>5, <1>6, <1>7 DEF Next, Project

LEMMA GraphInit == Init => GraphInv
<1> SUFFICES ASSUME Init PROVE GraphInv
  OBVIOUS
<1>1. \A e \in Edges : graph[e].evidence = {} /\ graph[e].count = 0
  BY DEF Init
<1>2. IsFiniteSet({}) /\ Cardinality({}) = 0
  BY FS_EmptySet
<1>3. FiniteEvidence
  BY <1>1, <1>2 DEF FiniteEvidence
<1>4. CountCoversEvidence
  <2>1. ASSUME NEW e \in Edges
        PROVE graph[e].count = 0 /\ Cardinality(graph[e].evidence) = 0
    BY <1>1, <1>2, Zenon
  <2>2. QED
    BY <2>1 DEF CountCoversEvidence
<1>5. EvidenceIsLogged
  BY <1>1 DEF EvidenceIsLogged
<1>6. QED
  BY TypeInit, <1>3, <1>4, <1>5 DEF GraphInv

LEMMA GraphInvariance == Spec => []GraphInv
<1>1. QED
  BY GraphInit, GraphInvStep, PTL DEF Spec

\* Neo4j holds evidence of committed rows only, with any number of writers and
\* projectors and after any aborted run.
THEOREM EvidenceIsLoggedAlways == Spec => []EvidenceIsLogged
<1>1. GraphInv => EvidenceIsLogged
  BY DEF GraphInv
<1>2. QED
  BY <1>1, GraphInvariance, PTL

\* An edge counts at least each piece of its evidence once.
THEOREM CountCoversEvidenceAlways == Spec => []CountCoversEvidence
<1>1. GraphInv => CountCoversEvidence
  BY DEF GraphInv
<1>2. QED
  BY <1>1, GraphInvariance, PTL

-----------------------------------------------------------------------------
(* No row of a single writer is skipped. The cursor alone does not say so: *)
(* what a batch leaves out must be projected already, and the row being    *)
(* written must be later than all that was read.                           *)

SingleWriter == \A v, w \in Writers : v = w

StampsOrdered ==
    /\ \A d \in Deltas : stamp[d] < clock
    /\ \A d, x \in Deltas : stamp[d] = stamp[x] /\ stamp[d] # 0 => d = x
    /\ \A d \in log : stamp[d] # 0
    /\ cursor < clock

OpenRowIsLast ==
    \A w \in Writers : writing[w] # None =>
        /\ writing[w] \notin log
        /\ stamp[writing[w]] > cursor
        /\ \A d \in log : stamp[d] < stamp[writing[w]]

BatchIsComplete ==
    \A p \in Projectors : \A x \in batch[p], d \in log :
        stamp[d] <= stamp[x] /\ d \notin batch[p] => Projected(d)

HandIsFirst ==
    \A p \in Projectors : inHand[p] # None =>
        /\ Projected(inHand[p])
        /\ \A x \in batch[p] : stamp[inHand[p]] <= stamp[x]

SkipInv == /\ TypeOK /\ StampsOrdered /\ OpenRowIsLast /\ BatchIsComplete /\ HandIsFirst
           /\ NothingSkipped

\* What is projected stays projected.
LEMMA ProjectedStays ==
    ASSUME TypeOK, [Next]_vars, NEW d \in Deltas, Projected(d)
    PROVE  Projected(d)'
<1>1. ASSUME NEW x \in Deltas, graph' = Merged(x)
      PROVE Projected(d)'
  BY <1>1 DEF Projected, Merged, Merge, TypeOK, EdgeData
<1>2. CASE UNCHANGED graph
  BY <1>2 DEF Projected
<1>3. QED
  BY <1>1, <1>2 DEF Next, Write, Stamp, Commit, Abort, Project, Fetch, Apply,
     Refuse, SetCursor, AbortRun, vars, TypeOK

LEMMA SkipInvStep == ASSUME SingleWriter PROVE SkipInv /\ [Next]_vars => SkipInv'
<1> SUFFICES ASSUME SkipInv, [Next]_vars PROVE SkipInv'
  OBVIOUS
<1>0. TypeOK /\ TypeOK'
  BY TypeStep DEF SkipInv
<1>a. ASSUME NEW d \in Deltas, Projected(d) PROVE Projected(d)'
  BY <1>0, <1>a, ProjectedStays
<1> USE DEF TypeOK, SkipInv, StampsOrdered, OpenRowIsLast, BatchIsComplete, HandIsFirst,
            NothingSkipped, writerVars, projectorVars
<1>1. ASSUME NEW w \in Writers, NEW d \in Deltas, Stamp(w, d) PROVE SkipInv'
  BY <1>0, <1>1, <1>a DEF Stamp, SingleWriter
<1>2. ASSUME NEW w \in Writers, Commit(w) PROVE SkipInv'
  BY <1>0, <1>2, <1>a DEF Commit, SingleWriter
<1>3. ASSUME NEW w \in Writers, Abort(w) PROVE SkipInv'
  BY <1>0, <1>3, <1>a DEF Abort, SingleWriter
<1>4. ASSUME NEW p \in Projectors, Fetch(p) PROVE SkipInv'
  BY <1>0, <1>4, <1>a DEF Fetch, FirstRows, AfterCursor
<1>5. ASSUME NEW p \in Projectors, NEW d \in Deltas, Apply(p, d) PROVE SkipInv'
  <2>1. Projected(d)'
    BY <1>0, <1>5 DEF Apply, Projected, Merged, Merge, EdgeData
  <2>2. QED
    BY <1>0, <1>5, <1>a, <2>1 DEF Apply, NextRow
<1>6. ASSUME NEW p \in Projectors, SetCursor(p) PROVE SkipInv'
  BY <1>0, <1>6, <1>a DEF SetCursor
<1>7. ASSUME NEW p \in Projectors, AbortRun(p) PROVE SkipInv'
  BY <1>0, <1>7, <1>a DEF AbortRun
<1>8. ASSUME NEW p \in Projectors, Refuse(p) PROVE SkipInv'
  BY <1>0, <1>8, <1>a DEF Refuse, NextRow
<1>9. CASE UNCHANGED vars
  BY <1>0, <1>9, <1>a DEF vars
<1>10. QED
  BY <1>1, <1>2, <1>3, <1>4, <1>5, <1>6, <1>7, <1>8, <1>9 DEF Next, Write, Project

\* With one writer, the cursor never passes a committed row that is not in the
\* graph, for any number of projectors and aborted runs.
THEOREM NothingSkippedAlways == ASSUME SingleWriter PROVE Spec => []NothingSkipped
<1>1. Init => SkipInv
  BY TypeInit DEF Init, SkipInv, StampsOrdered, OpenRowIsLast, BatchIsComplete,
     HandIsFirst, NothingSkipped
<1>2. SkipInv => NothingSkipped
  BY DEF SkipInv
<1>3. SkipInv /\ [Next]_vars => SkipInv'
  BY SkipInvStep
<1>4. QED
  BY <1>1, <1>2, <1>3, PTL DEF Spec

-----------------------------------------------------------------------------
(* Replays. A row is applied again only if an aborted run left it in the   *)
(* graph with the cursor before it: those rows are pending, and each run   *)
(* that is aborted adds at most one, which its next application takes away.*)

\* The rows of the edge's evidence that will be applied again.
Pending(e) == {d \in graph[e].evidence : stamp[d] > cursor /\ \A p \in Projectors : inHand[p] # d}

ReplaysBounded ==
    \A e \in Edges : graph[e].count + Cardinality(Pending(e))
                        <= Cardinality(graph[e].evidence) + crashes

BatchAhead == \A p \in Projectors : \A d \in batch[p] : stamp[d] > cursor

\* The open rows of the writers are stamped, not committed, and each one's own.
OpenRowsApart ==
    /\ \A w \in Writers : writing[w] # None => writing[w] \notin log /\ stamp[writing[w]] # 0
    /\ \A v, w \in Writers : writing[v] = writing[w] /\ writing[v] # None => v = w

HandLeads == \A p \in Projectors : inHand[p] # None =>
                \A x \in batch[p] : stamp[inHand[p]] <= stamp[x]

RowsInv == StampsOrdered /\ OpenRowsApart /\ HandLeads

ReplayInv == /\ GraphInv
             /\ RowsInv
             /\ ~overlapped => ~Overlap /\ BatchAhead /\ ReplaysBounded

\* Rows, stamps and batches, with any number of writers and projectors.
LEMMA RowsStep == TypeOK /\ RowsInv /\ [Next]_vars => RowsInv'
<1> SUFFICES ASSUME TypeOK, RowsInv, [Next]_vars PROVE RowsInv'
  OBVIOUS
<1> USE DEF RowsInv, TypeOK, StampsOrdered, OpenRowsApart, HandLeads, writerVars, projectorVars
<1>1. ASSUME NEW w \in Writers, NEW d \in Deltas, Stamp(w, d) PROVE RowsInv'
  <2>1. StampsOrdered'
    BY <1>1 DEF Stamp
  <2>2. OpenRowsApart'
    BY <1>1 DEF Stamp
  <2>3. HandLeads'
    BY <1>1 DEF Stamp
  <2>4. QED
    BY <2>1, <2>2, <2>3
<1>2. ASSUME NEW w \in Writers, Commit(w) PROVE RowsInv'
  BY <1>2 DEF Commit
<1>3. ASSUME NEW w \in Writers, Abort(w) PROVE RowsInv'
  <2>1. StampsOrdered'
    BY <1>3 DEF Abort
  <2>2. OpenRowsApart'
    BY <1>3 DEF Abort
  <2>3. HandLeads'
    BY <1>3 DEF Abort
  <2>4. QED
    BY <2>1, <2>2, <2>3
<1>4. ASSUME NEW p \in Projectors, Fetch(p) PROVE RowsInv'
  BY <1>4 DEF Fetch
<1>5. ASSUME NEW p \in Projectors, NEW d \in Deltas, Apply(p, d) PROVE RowsInv'
  BY <1>5 DEF Apply, NextRow
<1>6. ASSUME NEW p \in Projectors, SetCursor(p) PROVE RowsInv'
  BY <1>6 DEF SetCursor
<1>7. ASSUME NEW p \in Projectors, AbortRun(p) PROVE RowsInv'
  BY <1>7 DEF AbortRun
<1>8. ASSUME NEW p \in Projectors, Refuse(p) PROVE RowsInv'
  BY <1>8 DEF Refuse, NextRow
<1>9. CASE UNCHANGED vars
  BY <1>9 DEF vars
<1>10. QED
  BY <1>1, <1>2, <1>3, <1>4, <1>5, <1>6, <1>7, <1>8, <1>9 DEF Next, Write, Project

\* While only one projector has a batch, no other has a row in hand.
LEMMA AloneInHand ==
    ASSUME TypeOK, ~Overlap, NEW p \in Projectors, batch[p] # {}, NEW q \in Projectors, q # p
    PROVE  batch[q] = {} /\ inHand[q] = None
BY DEF TypeOK, Overlap

\* While projectors do not overlap the rows of a batch are after the cursor.
LEMMA BatchAheadStep ==
    ASSUME TypeOK, RowsInv, ~Overlap, BatchAhead, [Next]_vars
    PROVE  BatchAhead'
<1> USE DEF BatchAhead, writerVars, projectorVars
<1>1. ASSUME NEW w \in Writers, Write(w) PROVE BatchAhead'
  BY <1>1 DEF Write, Stamp, Commit, Abort, TypeOK, RowsInv, StampsOrdered, OpenRowsApart
<1>2. ASSUME NEW p \in Projectors, Fetch(p) PROVE BatchAhead'
  BY <1>2 DEF Fetch, FirstRows, AfterCursor, TypeOK
<1>3. ASSUME NEW p \in Projectors, NEW d \in Deltas, Apply(p, d) PROVE BatchAhead'
  BY <1>3 DEF Apply
<1>4. ASSUME NEW p \in Projectors, SetCursor(p) PROVE BatchAhead'
  <2>1. /\ inHand[p] \in batch[p] /\ cursor' = stamp[inHand[p]] /\ UNCHANGED stamp
        /\ batch' = [batch EXCEPT ![p] = @ \ {inHand[p]}]
    BY <1>4 DEF SetCursor, TypeOK
  <2>2. ASSUME NEW x \in batch[p], x # inHand[p] PROVE stamp[x] > stamp[inHand[p]]
    <3>1. /\ x \in Deltas /\ inHand[p] \in Deltas /\ stamp[x] \in Nat /\ stamp[inHand[p]] \in Nat
          /\ stamp[inHand[p]] # 0
      BY <2>1 DEF TypeOK, RowsInv, StampsOrdered
    <3>2. stamp[inHand[p]] <= stamp[x]
      BY <1>4 DEF SetCursor, RowsInv, HandLeads
    <3>3. stamp[inHand[p]] # stamp[x]
      BY <2>2, <3>1 DEF RowsInv, StampsOrdered
    <3>4. QED
      BY <3>1, <3>2, <3>3
  <2>3. \A q \in Projectors : q # p => batch[q] = {}
    BY <2>1, AloneInHand
  <2>4. QED
    BY <2>1, <2>2, <2>3 DEF TypeOK
<1>5. ASSUME NEW p \in Projectors, AbortRun(p) PROVE BatchAhead'
  BY <1>5 DEF AbortRun, TypeOK
<1>6. ASSUME NEW p \in Projectors, Refuse(p) PROVE BatchAhead'
  BY <1>6 DEF Refuse, TypeOK
<1>7. CASE UNCHANGED vars
  BY <1>7 DEF vars
<1>8. QED
  BY <1>1, <1>2, <1>3, <1>4, <1>5, <1>6, <1>7 DEF Next, Project

\* The edge's numbers.
LEMMA EdgeNumbers ==
    ASSUME GraphInv, NEW e \in Edges
    PROVE  /\ graph[e].count \in Nat /\ crashes \in Nat
           /\ IsFiniteSet(graph[e].evidence) /\ Cardinality(graph[e].evidence) \in Nat
           /\ Pending(e) \subseteq graph[e].evidence
           /\ IsFiniteSet(Pending(e)) /\ Cardinality(Pending(e)) \in Nat
<1>1. graph[e].count \in Nat /\ crashes \in Nat
  BY DEF GraphInv, TypeOK, EdgeData
<1>2. IsFiniteSet(graph[e].evidence)
  BY DEF GraphInv, FiniteEvidence
<1>3. Pending(e) \subseteq graph[e].evidence
  BY DEF Pending
<1>4. IsFiniteSet(Pending(e))
  BY <1>2, <1>3, FS_Subset
<1>5. QED
  BY <1>1, <1>2, <1>3, <1>4, FS_CardinalityType

LEMMA EdgeNumbersNext ==
    ASSUME GraphInv', NEW e \in Edges
    PROVE  /\ IsFiniteSet(graph'[e].evidence) /\ Cardinality(graph'[e].evidence) \in Nat
           /\ IsFiniteSet(Pending(e)') /\ Cardinality(Pending(e)') \in Nat
<1>1. IsFiniteSet(graph'[e].evidence)
  BY DEF GraphInv, FiniteEvidence
<1>2. Pending(e)' \subseteq graph'[e].evidence
  BY DEF Pending
<1>3. IsFiniteSet(Pending(e)')
  BY <1>1, <1>2, FS_Subset
<1>4. QED
  BY <1>1, <1>3, FS_CardinalityType

\* One element more, or one less.
LEMMA AtMostOneMore ==
    ASSUME NEW S, IsFiniteSet(S), NEW x, NEW T, T \subseteq S \cup {x}
    PROVE  Cardinality(T) <= Cardinality(S) + 1
<1>1. /\ IsFiniteSet(S \cup {x}) /\ Cardinality(S) \in Nat /\ Cardinality(S \cup {x}) \in Nat
      /\ Cardinality(S \cup {x}) = Cardinality(S) \/ Cardinality(S \cup {x}) = Cardinality(S) + 1
  BY FS_AddElement, FS_CardinalityType
<1>2. IsFiniteSet(T) /\ Cardinality(T) <= Cardinality(S \cup {x}) /\ Cardinality(T) \in Nat
  BY <1>1, FS_Subset, FS_CardinalityType
<1>3. QED
  BY <1>1, <1>2

LEMMA OneLess ==
    ASSUME NEW S, IsFiniteSet(S), NEW x \in S, NEW T, T \subseteq S \ {x}
    PROVE  Cardinality(T) + 1 <= Cardinality(S)
<1>1. /\ IsFiniteSet(S \ {x}) /\ Cardinality(S) \in Nat
      /\ Cardinality(S \ {x}) = Cardinality(S) - 1
  BY FS_RemoveElement, FS_CardinalityType
<1>2. IsFiniteSet(T) /\ Cardinality(T) <= Cardinality(S \ {x}) /\ Cardinality(T) \in Nat
  BY <1>1, FS_Subset, FS_CardinalityType
<1>3. QED
  BY <1>1, <1>2

\* The pending row a step adds or takes away, on each edge of its delta.
LEMMA MergedEdge ==
    ASSUME NEW d \in Deltas, NEW e \in Edges, graph' = Merged(d)
    PROVE  /\ e \in EdgesOf[d] => /\ graph'[e].count = graph[e].count + 1
                                  /\ graph'[e].evidence = graph[e].evidence \cup {d}
           /\ e \notin EdgesOf[d] => graph'[e] = graph[e]
BY DEF Merged, Merge

\* A row about to be applied that the edge has as evidence is pending on it.
LEMMA NextIsPending ==
    ASSUME TypeOK, ~Overlap, BatchAhead, NEW p \in Projectors, NEW d \in Deltas,
           NextRow(p, d), NEW e \in Edges, d \in graph[e].evidence
    PROVE  d \in Pending(e)
<1>1. d \in batch[p] /\ inHand[p] = None /\ stamp[d] > cursor
  BY DEF NextRow, BatchAhead
<1>2. \A q \in Projectors : inHand[q] = None
  BY <1>1, AloneInHand
<1>3. QED
  BY <1>1, <1>2 DEF Pending

Bounded(e) == graph[e].count + Cardinality(Pending(e)) <= Cardinality(graph[e].evidence) + crashes

\* An edge that keeps its data stays within the bound if no row becomes pending,
\* or if one does and a run has been aborted.
LEMMA SameEdge ==
    ASSUME GraphInv, GraphInv', NEW e \in Edges, Bounded(e), graph'[e] = graph[e],
           \/ Pending(e)' \subseteq Pending(e) /\ crashes' = crashes
           \/ /\ crashes' = crashes + 1
              /\ \E x : Pending(e)' \subseteq Pending(e) \cup {x}
    PROVE  Bounded(e)'
<1>1. /\ graph[e].count \in Nat /\ crashes \in Nat
      /\ Cardinality(graph[e].evidence) \in Nat
      /\ IsFiniteSet(Pending(e)) /\ Cardinality(Pending(e)) \in Nat
      /\ IsFiniteSet(Pending(e)') /\ Cardinality(Pending(e)') \in Nat
  BY EdgeNumbers, EdgeNumbersNext
<1>2. CASE Pending(e)' \subseteq Pending(e) /\ crashes' = crashes
  <2>1. Cardinality(Pending(e)') <= Cardinality(Pending(e))
    BY <1>1, <1>2, FS_Subset
  <2>2. QED
    BY <1>1, <1>2, <2>1 DEF Bounded
<1>3. CASE crashes' = crashes + 1 /\ \E x : Pending(e)' \subseteq Pending(e) \cup {x}
  <2>1. Cardinality(Pending(e)') <= Cardinality(Pending(e)) + 1
    BY <1>1, <1>3, AtMostOneMore
  <2>2. QED
    BY <1>1, <1>3, <2>1 DEF Bounded
<1>4. QED
  BY <1>2, <1>3

LEMMA ReplaysStep ==
    ASSUME GraphInv, RowsInv, ~Overlap, BatchAhead, ReplaysBounded, GraphInv', [Next]_vars
    PROVE  ReplaysBounded'
<1>0. TypeOK /\ TypeOK'
  BY DEF GraphInv
<1> SUFFICES ASSUME NEW e \in Edges PROVE Bounded(e)'
  BY DEF ReplaysBounded, Bounded
<1>1. Bounded(e)
  BY DEF ReplaysBounded, Bounded
<1>2. ASSUME UNCHANGED <<graph, crashes>>, Pending(e)' \subseteq Pending(e) PROVE Bounded(e)'
  BY <1>1, <1>2, SameEdge
<1>3. ASSUME NEW w \in Writers, Write(w) PROVE Bounded(e)'
  <2>1. UNCHANGED <<graph, crashes, cursor, inHand>>
    BY <1>3 DEF Write, Stamp, Commit, Abort, projectorVars
  <2>2. \A d \in log : d \in Deltas /\ stamp'[d] = stamp[d]
    BY <1>0, <1>3 DEF Write, Stamp, Commit, Abort, TypeOK, RowsInv, StampsOrdered, OpenRowsApart
  <2>3. Pending(e)' \subseteq Pending(e)
    BY <2>1, <2>2 DEF Pending, GraphInv, EvidenceIsLogged
  <2>4. QED
    BY <1>2, <2>1, <2>3
<1>4. ASSUME NEW p \in Projectors, Fetch(p) PROVE Bounded(e)'
  BY <1>2, <1>4 DEF Fetch, Pending, writerVars
<1>5. ASSUME NEW p \in Projectors, NEW d \in Deltas, Apply(p, d) PROVE Bounded(e)'
  <2>1. /\ graph' = Merged(d) /\ NextRow(p, d) /\ inHand' = [inHand EXCEPT ![p] = d]
        /\ UNCHANGED <<stamp, cursor, crashes>>
    BY <1>5 DEF Apply, writerVars
  <2>2. inHand'[p] = d /\ inHand[p] = None /\ None \notin Deltas
    BY <1>0, <2>1 DEF NextRow, TypeOK
  <2>3. \A q \in Projectors : q # p => inHand'[q] = inHand[q]
    BY <1>0, <2>1 DEF TypeOK
  <2>4. ASSUME NEW x \in Pending(e)' PROVE x # d /\ x \in graph'[e].evidence /\
               stamp[x] > cursor /\ \A q \in Projectors : inHand[q] # x
    <3>1. /\ x \in graph'[e].evidence /\ stamp[x] > cursor
          /\ \A q \in Projectors : inHand'[q] # x
      BY <2>1, <2>4 DEF Pending
    <3>2. x \in Deltas
      BY <1>0, <3>1 DEF TypeOK, EdgeData
    <3>3. QED
      BY <2>2, <2>3, <3>1, <3>2
  <2>5. CASE e \notin EdgesOf[d]
    <3>1. graph'[e] = graph[e]
      BY <2>1, <2>5, MergedEdge
    <3>2. Pending(e)' \subseteq Pending(e)
      BY <2>4, <3>1 DEF Pending
    <3>3. QED
      BY <1>1, <2>1, <3>1, <3>2, SameEdge
  <2>6. CASE e \in EdgesOf[d]
    <3>1. /\ graph'[e].count = graph[e].count + 1
          /\ graph'[e].evidence = graph[e].evidence \cup {d}
      BY <2>1, <2>6, MergedEdge
    <3>2. Pending(e)' \subseteq Pending(e) \ {d}
      BY <2>4, <3>1 DEF Pending
    <3>3. /\ graph[e].count \in Nat /\ crashes \in Nat /\ crashes' = crashes
          /\ IsFiniteSet(graph[e].evidence) /\ Cardinality(graph[e].evidence) \in Nat
          /\ IsFiniteSet(Pending(e)) /\ Cardinality(Pending(e)) \in Nat
          /\ Cardinality(Pending(e)') \in Nat
      BY <2>1, EdgeNumbers, EdgeNumbersNext
    <3>4. CASE d \in graph[e].evidence
      <4>1. Cardinality(Pending(e)') + 1 <= Cardinality(Pending(e))
        BY <1>0, <2>1, <3>2, <3>3, <3>4, NextIsPending, OneLess
      <4>2. graph'[e].evidence = graph[e].evidence
        BY <3>1, <3>4
      <4>3. Cardinality(graph'[e].evidence) = Cardinality(graph[e].evidence)
        BY <4>2, Zenon
      <4>4. QED
        BY <1>1, <2>1, <3>1, <3>3, <4>1, <4>3 DEF Bounded
    <3>5. CASE d \notin graph[e].evidence
      <4>1. Cardinality(Pending(e)') <= Cardinality(Pending(e))
        BY <3>2, <3>3, FS_Subset
      <4>2. Cardinality(graph'[e].evidence) = Cardinality(graph[e].evidence) + 1
        BY <3>1, <3>3, <3>5, FS_AddElement, ZenonT(40)
      <4>3. QED
        BY <1>1, <3>1, <3>3, <4>1, <4>2 DEF Bounded
    <3>6. QED
      BY <3>4, <3>5
  <2>7. QED
    BY <2>5, <2>6
<1>6. ASSUME NEW p \in Projectors, SetCursor(p) PROVE Bounded(e)'
  <2>1. /\ UNCHANGED <<graph, crashes, stamp>>
        /\ inHand[p] \in Deltas /\ cursor' = stamp[inHand[p]]
        /\ inHand' = [inHand EXCEPT ![p] = None]
        /\ stamp[inHand[p]] > cursor /\ stamp[inHand[p]] \in Nat /\ cursor \in Nat
    BY <1>0, <1>6 DEF SetCursor, writerVars, TypeOK, BatchAhead
  <2>2. ASSUME NEW x \in Pending(e)' PROVE x \in Pending(e)
    <3>1. /\ x \in graph[e].evidence /\ stamp[x] > stamp[inHand[p]]
          /\ \A q \in Projectors : inHand'[q] # x
      BY <2>1, <2>2 DEF Pending
    <3>2. x \in Deltas /\ stamp[x] \in Nat
      BY <1>0, <3>1 DEF TypeOK, EdgeData
    <3>3. stamp[x] > cursor /\ x # inHand[p]
      BY <2>1, <3>1, <3>2
    <3>4. \A q \in Projectors : inHand[q] # x
      BY <1>0, <2>1, <3>1, <3>3 DEF TypeOK
    <3>5. QED
      BY <3>1, <3>3, <3>4 DEF Pending
  <2>3. QED
    BY <1>2, <2>1, <2>2
<1>7. ASSUME NEW p \in Projectors, AbortRun(p) PROVE Bounded(e)'
  <2>1. /\ crashes' = crashes + 1 /\ UNCHANGED <<stamp, cursor>>
        /\ inHand' = [inHand EXCEPT ![p] = None]
    BY <1>7 DEF AbortRun, writerVars
  <2>2. \A q \in Projectors : q # p => inHand'[q] = inHand[q]
    BY <1>0, <2>1 DEF TypeOK
  <2>3. ASSUME NEW x \in Pending(e)', x # inHand[p], x \in graph[e].evidence
        PROVE x \in Pending(e)
    BY <2>1, <2>2, <2>3 DEF Pending
  <2>4. CASE graph'[e] = graph[e]
    <3>1. Pending(e)' \subseteq Pending(e) \cup {inHand[p]}
      BY <2>3, <2>4 DEF Pending
    <3>2. QED
      BY <1>1, <2>1, <2>4, <3>1, SameEdge
  <2>5. ASSUME NEW d \in Deltas, NextRow(p, d), graph' = Merged(d), e \in EdgesOf[d]
        PROVE Bounded(e)'
    <3>1. /\ graph'[e].count = graph[e].count + 1
          /\ graph'[e].evidence = graph[e].evidence \cup {d}
      BY <2>5, MergedEdge
    <3>2. inHand[p] = None /\ None \notin Deltas
      BY <2>5 DEF NextRow
    <3>3. /\ graph[e].count \in Nat /\ crashes \in Nat
          /\ IsFiniteSet(graph[e].evidence) /\ Cardinality(graph[e].evidence) \in Nat
          /\ IsFiniteSet(Pending(e)) /\ Cardinality(Pending(e)) \in Nat
          /\ Cardinality(Pending(e)') \in Nat
      BY EdgeNumbers, EdgeNumbersNext
    <3>4. Pending(e)' \subseteq Pending(e) \cup {d}
      <4>1. ASSUME NEW x \in Pending(e)', x # d PROVE x \in Pending(e)
        <5>1. x \in graph[e].evidence
          BY <3>1, <4>1 DEF Pending
        <5>2. x \in Deltas
          BY <1>0, <5>1 DEF TypeOK, EdgeData
        <5>3. QED
          BY <2>3, <3>2, <4>1, <5>1, <5>2
      <4>2. QED
        BY <4>1
    <3>5. CASE d \in graph[e].evidence
      <4>1. d \in Pending(e)
        BY <1>0, <2>5, <3>5, NextIsPending
      <4>2. Cardinality(Pending(e)') <= Cardinality(Pending(e))
        BY <3>3, <3>4, <4>1, FS_Subset
      <4>3. graph'[e].evidence = graph[e].evidence
        BY <3>1, <3>5
      <4>4. Cardinality(graph'[e].evidence) = Cardinality(graph[e].evidence)
        BY <4>3, Zenon
      <4>5. QED
        BY <1>1, <2>1, <3>1, <3>3, <4>2, <4>4 DEF Bounded
    <3>6. CASE d \notin graph[e].evidence
      <4>1. Cardinality(Pending(e)') <= Cardinality(Pending(e)) + 1
        BY <3>3, <3>4, AtMostOneMore
      <4>2. Cardinality(graph'[e].evidence) = Cardinality(graph[e].evidence) + 1
        BY <3>1, <3>3, <3>6, FS_AddElement, ZenonT(40)
      <4>3. QED
        BY <1>1, <2>1, <3>1, <3>3, <4>1, <4>2 DEF Bounded
    <3>7. QED
      BY <3>5, <3>6
  <2>6. ASSUME NEW d \in Deltas, graph' = Merged(d), e \notin EdgesOf[d]
        PROVE graph'[e] = graph[e]
    BY <2>6, MergedEdge
  <2>7. QED
    BY <1>0, <1>7, <2>4, <2>5, <2>6 DEF AbortRun, NextRow, TypeOK
<1>8. ASSUME NEW p \in Projectors, Refuse(p) PROVE Bounded(e)'
  BY <1>2, <1>8 DEF Refuse, Pending, writerVars
<1>9. CASE UNCHANGED vars
  BY <1>2, <1>9 DEF vars, writerVars, projectorVars, Pending
<1>10. QED
  BY <1>3, <1>4, <1>5, <1>6, <1>7, <1>8, <1>9 DEF Next, Project

LEMMA ReplayInit == MCInit => ReplayInv
<1> SUFFICES ASSUME MCInit PROVE ReplayInv
  OBVIOUS
<1>1. GraphInv
  BY GraphInit DEF MCInit
<1>2. RowsInv
  BY TypeInit DEF MCInit, Init, RowsInv, StampsOrdered, OpenRowsApart, HandLeads
<1>3. ~Overlap /\ BatchAhead
  BY DEF MCInit, Init, Overlap, BatchAhead
<1>4. ReplaysBounded
  <2>1. ASSUME NEW e \in Edges
        PROVE graph[e].count = 0 /\ graph[e].evidence = {} /\ Pending(e) = {} /\ crashes = 0
    BY DEF MCInit, Init, Pending
  <2>2. Cardinality({}) = 0
    BY FS_EmptySet
  <2>3. ASSUME NEW e \in Edges
        PROVE /\ graph[e].count = 0 /\ Cardinality(graph[e].evidence) = 0
              /\ Cardinality(Pending(e)) = 0 /\ crashes = 0
    BY <2>1, <2>2, Zenon
  <2>4. QED
    BY <2>3 DEF ReplaysBounded
<1>5. QED
  BY <1>1, <1>2, <1>3, <1>4 DEF ReplayInv

LEMMA ReplayStep == ReplayInv /\ [MCNext]_mcVars => ReplayInv'
<1> SUFFICES ASSUME ReplayInv, [MCNext]_mcVars PROVE ReplayInv'
  OBVIOUS
<1>1. [Next]_vars /\ TypeOK
  BY DEF ReplayInv, GraphInv, MCNext, mcVars
<1>2. GraphInv' /\ RowsInv'
  BY <1>1, GraphInvStep, RowsStep DEF ReplayInv
<1>3. ASSUME ~overlapped' PROVE ~overlapped /\ ~Overlap'
  <2>1. CASE MCNext
    BY <1>3, <2>1 DEF MCNext
  <2>2. CASE UNCHANGED mcVars
    <3>1. ~overlapped /\ batch' = batch
      BY <1>3, <2>2 DEF mcVars, vars, projectorVars
    <3>2. ~Overlap
      BY <3>1 DEF ReplayInv
    <3>3. QED
      BY <3>1, <3>2 DEF Overlap
  <2>3. QED
    BY <2>1, <2>2
<1>4. ASSUME ~overlapped' PROVE BatchAhead' /\ ReplaysBounded'
  BY <1>1, <1>2, <1>3, <1>4, BatchAheadStep, ReplaysStep DEF ReplayInv
<1>5. QED
  BY <1>2, <1>3, <1>4 DEF ReplayInv

\* While projectors have not overlapped, an edge's count is larger than its
\* evidence by no more than the number of aborted runs: for any number of
\* writers and rows, in any order of their commits, and any batch size.
THEOREM OneReplayPerCrashWhileAlone == MCSpec => []OneReplayPerCrash
<1>1. ReplayInv => OneReplayPerCrash
  <2>1. SUFFICES ASSUME ReplayInv, ~overlapped, NEW e \in Edges
                 PROVE graph[e].count <= Cardinality(graph[e].evidence) + crashes
    BY DEF OneReplayPerCrash
  <2>2. graph[e].count + Cardinality(Pending(e)) <= Cardinality(graph[e].evidence) + crashes
    BY <2>1 DEF ReplayInv, ReplaysBounded
  <2>3. /\ graph[e].count \in Nat /\ crashes \in Nat
        /\ Cardinality(graph[e].evidence) \in Nat /\ Cardinality(Pending(e)) \in Nat
    BY <2>1, EdgeNumbers DEF ReplayInv
  <2>4. QED
    BY <2>2, <2>3
<1>2. QED
  BY <1>1, ReplayInit, ReplayStep, PTL DEF MCSpec
=============================================================================
