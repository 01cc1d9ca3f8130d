--------------------------- MODULE MCLegalGrants ---------------------------
(* LegalGrants for TLC. A history variable tells whether two verifications *)
(* have been under way at the same time.                                   *)
EXTENDS LegalGrants, TLC

VARIABLE overlapped

Verifying(c) == call[c].step \in {"check", "expire", "use", "audit"}

Overlap == \E b, c \in Callers : b # c /\ Verifying(b) /\ Verifying(c)

MCInit == Init /\ overlapped = FALSE
MCNext == Next /\ overlapped' = (overlapped \/ Overlap')
MCSpec == MCInit /\ [][MCNext]_<<vars, overlapped>>

Symmetry == Permutations(Callers)

\* A grant of an order with single_use_token is verified at most once, as long as
\* verifications have not overlapped: also over calls that failed after the
\* commit, expiries and revocations under way.
SingleUseAlone == ~overlapped => SingleUse
=============================================================================
