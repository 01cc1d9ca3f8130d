-------------------------- MODULE MCEvidenceChain --------------------------
(* EvidenceChain for TLC. A history variable tells whether two exports     *)
(* have been under way at the same time.                                   *)
EXTENDS EvidenceChain, TLC

VARIABLE exportsOverlapped

Chaining(c) == request[c].step \in {"chain", "commit"}

ExportsOverlap == \E b, c \in Exporters : b # c /\ Chaining(b) /\ Chaining(c)

MCChainInit == ChainInit /\ exportsOverlapped = FALSE
MCChainNext == ChainNext /\ exportsOverlapped' = (exportsOverlapped \/ ExportsOverlap')
MCChainSpec == MCChainInit /\ [][MCChainNext]_<<chainVars, exportsOverlapped>>

ExporterSymmetry == Permutations(Exporters)

\* As long as no export has begun while another had not committed its bundle, the
\* bundles are one chain, also over exports that failed and with refreshes and
\* the anchoring of earlier exports under way.
ChainLinearAlone == ~exportsOverlapped => ChainLinear
=============================================================================
