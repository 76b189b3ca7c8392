SPECIFICATION Spec
CONSTANTS
    Actions = {a1}
    NoAction = NoAction
    Slots = {s1}
    Drainer = Drainer
    MaxAttempts = 2
    DrainBatch = 1
    Faults = {"crash"}
    MaxFaults = 2
INVARIANTS
    AttemptsWithinMax
