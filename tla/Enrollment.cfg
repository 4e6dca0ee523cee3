\* Two consumers and one name: lost replies, restarts, reads in flight,
\* revocation and re-use of the name, and a table of two rows that fills up.
SPECIFICATION Spec
CONSTANTS
    Consumers = {c1, c2}
    Names = {n1}
    None = None
    Readers = {c1}
    Lossy = TRUE
    LiveLimit = 1
    MaxRows = 2
    MaxRequests = 3
    MaxEnrollments = 2
    MaxTokens = 2
INVARIANT NoInheritedReach
INVARIANT RowsBounded
INVARIANT TokensReachTheApproved
CHECK_DEADLOCK FALSE
