SPECIFICATION Spec
CONSTANTS
    Actions = {a1}
    NoAction = NoAction
    Slots = {s1, s2}
    Drainer = Drainer
    MaxAttempts = 2
    DrainBatch = 1
    Faults = {"crash", "write", "lostack", "slow", "ambiguous"}
    MaxFaults = 3
SYMMETRY MCSymmetry
INVARIANTS
    TypeOK
    RunsOnlyIfApproved
    ApprovalHasIntent
    EffectsPaidByFaults
    AttemptsPaidByFaults
    OutcomeIsTrue
PROPERTIES
    DecisionIsFinal
