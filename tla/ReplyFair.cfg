SPECIFICATION FairSpec
CONSTANTS
    Mails = {1, 2, 3}
    RuleMails = {2}
    ModeMails = {1, 2, 3}
    Guarded = {}
    NoMail = 0
    Cycles = {c1}
    Cap = 3
    Unsendable = {3}
    Take = 1
    ScanMax = 2
    MaxDrafts = 1
    Faults = {}
    MaxFaults = 0
PROPERTIES
    AnswerableIsClaimed
