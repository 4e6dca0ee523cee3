\* Liveness of calls under fairness of their steps, for an id whose reports
\* invalidate and that may be removed and created again; no symmetry.
SPECIFICATION FairSpec
CONSTANTS
    Daemons = {d1}
    Requests = {r1, r2}
    NoOne = NoOne
    None = None
    IdRefreshable = FALSE
    ReportPaths = {"scoped", "handle"}
    CheckOutcomes = {"valid", "invalid", "transient", "none"}
    Damageable = TRUE
    MaxVersion = 2
    MaxToken = 2
    MaxIncarnation = 2
    MaxEpoch = 1
INVARIANT VerdictLandsOnItsToken
INVARIANT QuarantineOnlyDamaged
PROPERTY EveryCallReturns
CHECK_DEADLOCK FALSE
