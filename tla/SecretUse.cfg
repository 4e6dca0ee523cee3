CONSTANTS
    head = head
    me = me
    peer = peer
    u1 = u1
    u2 = u2
    Local = Local
    None = None
    Scopes = {head}
    Heads = {}
    Parent <- MCParent
    Flows = {}
    Installs = {}
    Methods = {}
    Members = {me, peer}
    Selves = {me}
    Homes = {}
    Answers = {"once","permanent"}
    Faulty = FALSE
    Calls = {u1, u2}
    Nonces = {n1}
    Deposits = {}
    Life <- MCOnce
    PendingLife = 2
    FlowPendingLife = 3
    Skew = 1
    ReceiptLife = 3
    ForwardDeadline = 2
    MaxPerHolder = 1
    MaxPending = 2
    Drifts <- MCDrifts
    MaxInc = 1
    MaxReq = 2
    MaxTime = 2
    MaxSigned = 2
SPECIFICATION Spec
INVARIANTS
    OnceIsOnce
    OneGrantPerRequest
    NonceReleasedOnce
PROPERTIES
    RequestsMoveForward
CHECK_DEADLOCK FALSE
SYMMETRY CallSymmetry
