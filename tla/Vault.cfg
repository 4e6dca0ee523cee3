\* Two commands, a signature and rotations that may stop anywhere, over two boots.
CONSTANTS
    Credentials = {k1}
    AgentSecrets = {x1}
    Commands = {c1, c2}
    Signers = {s1}
    MaxKey = 3
    MaxBoot = 2
    MaxVersion = 2
    MaxIncarnation = 2
SPECIFICATION Spec
SYMMETRY Symmetry
INVARIANTS
    NeverStranded
    SealedOrQuarantined
    ReportedAsApplied
    SignedInItsGeneration
CHECK_DEADLOCK FALSE
