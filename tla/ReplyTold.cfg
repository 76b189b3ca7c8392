SPECIFICATION Spec
CONSTANTS
    Mails = {1}
    RuleMails = {}
    ModeMails = {1}
    Guarded = {}
    NoMail = 0
    Cycles = {c1}
    Cap = 1
    Unsendable = {}
    Take = 1
    ScanMax = 3
    MaxDrafts = 1
    Faults = {"crash"}
    MaxFaults = 1
INVARIANTS
    ToldOnlyIfGone
