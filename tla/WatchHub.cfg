\* Replacements, refusals at the cap, closes and a drain, with shedding and failing reads.
SPECIFICATION Spec
CONSTANTS
    Watches = {w1, w2}
    Channels = {ch1, ch2}
    Views <- TwoDigests
    Changes <- ForwardTwo
    None = None
    MaxWatches = 1
    Shedding = TRUE
    Faults = TRUE
    MaxCommits = 1
SYMMETRY Symmetry
INVARIANT RunningIsRegistered
INVARIANT DrainTells
INVARIANT TerminalIsLast
CHECK_DEADLOCK FALSE
