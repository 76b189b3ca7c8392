SPECIFICATION Spec
CONSTANTS
    Mails = {1, 2, 3}
    RuleMails = {1, 2, 3}
    ModeMails = {}
    Guarded = {}
    NoMail = 0
    Cycles = {c1, c2}
    Cap = 1
    Unsendable = {}
    Take = 1
    ScanMax = 3
    MaxDrafts = 1
    Faults = {}
    MaxFaults = 0
SYMMETRY MCSymmetry
INVARIANTS
    CapOvershoot
