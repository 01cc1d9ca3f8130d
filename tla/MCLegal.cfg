SPECIFICATION LegalSpec
CONSTANTS
    Callers = {c1, c2}
    TTLs = {0, 1}
    MaxNow = 3
    MaxCalls = 4
    None = None
    Exporters = {x1, x2}
    Receipts = {"anchored", "failed"}
    MaxRequests = 4
    NoAnchor = NoAnchor
SYMMETRY LegalSymmetry
INVARIANTS
    NoUseAfterRevoke
    ExpiryTrue
    SingleUseAlone
    ChainLinearAlone
    CertifiedHasAnchor
CHECK_DEADLOCK FALSE
