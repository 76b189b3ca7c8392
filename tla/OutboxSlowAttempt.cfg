SPECIFICATION Spec
CONSTANTS
    Actions = {a1}
    NoAction = NoAction
    Slots = {s1}
    Drainer = Drainer
    MaxAttempts = 2
    DrainBatch = 1
    Faults = {"slow"}
    MaxFaults = 1
INVARIANTS
    OneAttemptAtATime
