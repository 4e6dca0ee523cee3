\* Two channels contend for one challenge slot; rebinds, two bodies, replayed tags.
SPECIFICATION Spec
CONSTANTS
    Channels = {ch1, ch2}
    Requests = {r1, r2, r3}
    Bodies = {b1, b2}
    None = None
    MaxOutstanding = 1
    MaxEpoch = 2
    MaxNonce = 3
SYMMETRY Symmetry
INVARIANT OncePerNonce
INVARIANT ClaimedOnItsBind
INVARIANT CountsNonces
PROPERTY FullIsFull
CHECK_DEADLOCK FALSE
