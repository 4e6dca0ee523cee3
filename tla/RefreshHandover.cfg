\* Two processes, one lease: crashes, restarts and handovers around two calls;
\* a boot check may answer anything.
SPECIFICATION Spec
CONSTANTS
    Daemons = {d1, d2}
    Requests = {r1, r2}
    NoOne = NoOne
    None = None
    IdRefreshable = TRUE
    ReportPaths = {"handle"}
    CheckOutcomes = {"none", "valid", "invalid", "transient"}
    Damageable = FALSE
    MaxVersion = 2
    MaxToken = 3
    MaxIncarnation = 1
    MaxEpoch = 2
SYMMETRY Symmetry
INVARIANT UnresolvedIsFlagged
INVARIANT IntentMatchesStored
INVARIANT ReportHitsServedToken
PROPERTY NoBlindReuse
CHECK_DEADLOCK FALSE
