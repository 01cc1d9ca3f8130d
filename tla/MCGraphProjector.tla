-------------------------- MODULE MCGraphProjector --------------------------
(* GraphProjector for TLC: deltas that share an edge and have one of their *)
(* own, and one that cannot be merged. A history variable tells whether    *)
(* two projectors have had a batch at the same time, that is whether a     *)
(* backfill ran beside the service.                                        *)
EXTENDS GraphProjector, TLC

CONSTANTS d1, d2, d3, odd, shared, own

FourDeltas == {d1, d2, d3, odd}
SharedEdges == (d1 :> {shared}) @@ (d2 :> {shared, own}) @@ (d3 :> {shared})
                 @@ (odd :> {own})
TwoDeltas == {d1, d2}
TwoDeltaEdges == (d1 :> {shared}) @@ (d2 :> {shared, own})

VARIABLE overlapped

mcVars == <<vars, overlapped>>

Overlap == \E p, q \in Projectors : p # q /\ batch[p] # {} /\ batch[q] # {}

MCInit == Init /\ overlapped = FALSE
MCNext == Next /\ overlapped' = (overlapped \/ Overlap')
MCSpec == MCInit /\ [][MCNext]_mcVars
MCFairSpec == MCSpec /\ \A p \in Projectors : WF_vars(Project(p))

\* While projectors have not overlapped, an aborted run repeats at most the one
\* row whose cursor it had not set: counts are off by no more than the number
\* of aborted runs (README.md:9, "deterministic, explainable, and replayable",
\* is kept up to that).
OneReplayPerCrash ==
    ~overlapped => \A e \in Edges :
                      graph[e].count <= Cardinality(graph[e].evidence) + crashes
=============================================================================
