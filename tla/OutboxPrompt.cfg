SPECIFICATION FairSpec
CONSTANTS
    Actions = {a1, a2}
    NoAction = NoAction
    Slots = {s1}
    Drainer = Drainer
    MaxAttempts = 2
    DrainBatch = 1
    Faults = {"crash", "ambiguous"}
    MaxFaults = 1
INVARIANTS
    OneAttemptAtATime
    OneVerdict
PROPERTIES
    KeepsPromise
