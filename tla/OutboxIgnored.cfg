SPECIFICATION Spec
CONSTANTS
    Actions = {a1, a2}
    NoAction = NoAction
    Slots = {s1}
    Drainer = Drainer
    MaxAttempts = 2
    DrainBatch = 2
    Faults = {}
    MaxFaults = 0
INVARIANTS
    IgnoredMeansUndecided
