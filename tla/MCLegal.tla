------------------------------- MODULE MCLegal -------------------------------
(* The legal service for TLC: its grants and its evidence chain. They have *)
(* no row in common, so that a behaviour is of the one or of the other:    *)
(* interleaving them would show nothing more.                              *)
EXTENDS MCLegalGrants, MCEvidenceChain

VARIABLE part                   \* the part of the service that is at work

grantVars == <<vars, overlapped>>
bundleVars == <<chainVars, exportsOverlapped>>

LegalInit == MCInit /\ MCChainInit /\ part \in {"grants", "bundles"}

LegalNext == \/ part = "grants" /\ MCNext /\ UNCHANGED <<bundleVars, part>>
             \/ part = "bundles" /\ MCChainNext /\ UNCHANGED <<grantVars, part>>

LegalSpec == LegalInit /\ [][LegalNext]_<<grantVars, bundleVars, part>>

\* Callers are not told apart by either part.
LegalSymmetry == Symmetry \cup ExporterSymmetry
=============================================================================
