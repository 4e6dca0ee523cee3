\* Two deliveries of two transfers through a queue of one, one new key at a vault.
SPECIFICATION Spec
CONSTANTS
    Calls = {c1, c2}
    Accepts = {a1}
    None = None
    Cap = 1
    MaxId = 2
    MaxKeys = 3
SYMMETRY Symmetry
INVARIANT QueueBounded
PROPERTY WritesOnlyWhatOpens
PROPERTY TransfersEndOnce
CHECK_DEADLOCK FALSE
