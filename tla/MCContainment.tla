--------------------------- MODULE MCContainment ---------------------------
(* Containment for TLC.                                                    *)
EXTENDS Containment, TLC

\* No target or actor is told apart by the specification.
Symmetry == Permutations(Targets) \cup Permutations(Handlers) \cup Permutations(Workers)
=============================================================================
