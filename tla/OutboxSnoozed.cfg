SPECIFICATION Spec
CONSTANTS
    Actions = {a1}
    NoAction = NoAction
    Slots = {s1, s2}
    Drainer = Drainer
    MaxAttempts = 2
    DrainBatch = 1
    Faults = {}
    MaxFaults = 0
INVARIANTS
    DecidedLeavesQueue
