CONSTANTS
    head = head
    me = me
    peer = peer
    u1 = u1
    u2 = u2
    Local = Local
    None = None
    Scopes = {}
    Heads = {}
    Parent <- MCParent
    Flows = {flow}
    Installs <- MCInstalls
    Methods = {login}
    Members = {me, peer}
    Selves = {me}
    Homes = {"unset", me, peer}
    Answers = {"version", "none"}
    Faulty = TRUE
    Calls = {u1}
    Nonces = {}
    Deposits = {d1}
    Life <- MCNone
    PendingLife = 1
    FlowPendingLife = 2
    Skew = 1
    ReceiptLife = 2
    ForwardDeadline = 1
    MaxPerHolder = 1
    MaxPending = 2
    Drifts <- MCDrifts
    MaxInc = 2
    MaxReq = 2
    MaxTime = 2
    MaxSigned = 1
SPECIFICATION Spec
INVARIANTS
    GrantsFollowSecret
    HomeNotStranded
    RevokedFlowStaysRevoked
    DepositOnce
    QuarantineOnlyUnsound
CHECK_DEADLOCK FALSE
