SPECIFICATION Spec
CONSTANTS
    Mails = {1, 2}
    RuleMails = {1, 2}
    ModeMails = {2}
    Guarded = {}
    NoMail = 0
    Cycles = {c1, c2}
    Cap = 1
    Unsendable = {}
    Take = 1
    ScanMax = 3
    MaxDrafts = 1
    Faults = {"crash", "write", "lostack"}
    MaxFaults = 2
SYMMETRY MCSymmetry
INVARIANTS
    TypeOK
    AtMostOneReply
    LedgerIsTrue
    ResolvedMeansAnswered
    PendingIsHidden
PROPERTIES
    KeepsReplyPromise
