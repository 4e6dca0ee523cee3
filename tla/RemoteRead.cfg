\* One reader that may leave and come back while its fetches go on (readers meet
\* only in the shared state), two reports, two materials, pairings and lifetimes.
SPECIFICATION Spec
CONSTANTS
    Readers = {r1}
    Reporters = {p1}
    None = None
    MaxFetch = 2
    MaxReport = 2
    MaxInc = 2
    MaxMaterial = 2
    MaxPair = 2
INVARIANT ServedUnderCurrentGrant
INVARIANT ReadsAfterReports
INVARIANT IssuedIsAudited
PROPERTY OvertakenApplyNothing
CHECK_DEADLOCK FALSE
