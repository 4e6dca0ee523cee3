\* A read in flight while its enrollment is revoked.
SPECIFICATION Spec
CONSTANTS
    Consumers = {c1, c2}
    Names = {n1}
    None = None
    Readers = {c1}
    Lossy = FALSE
    LiveLimit = 1
    MaxRows = 2
    MaxRequests = 2
    MaxEnrollments = 2
    MaxTokens = 2
PROPERTY GrantReachesLiveOnly
CHECK_DEADLOCK FALSE
