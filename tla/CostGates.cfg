\* Two calls of a user on the free cap, or of the system; two faults.
SPECIFICATION Spec
CONSTANTS
    c1 = c1
    c2 = c2
    alice = alice
    NoUser = NoUser
    Calls <- MCCalls
    Users <- MCUsers
    FreeUsers <- MCFreeUsers
    Prices <- MCPrices
    Costs <- MCCosts
    Faults <- MCFaults
    FullCap = 3
    FreeCap = 2
    Reserve = 1
    Ceiling = 4
    Per = 2
    LastDay = 2
    MaxFaults = 2
SYMMETRY CallSymmetry
INVARIANTS
    TypeOK
    AdmittedWithinCap
    CeilingFailsClosed
    DayWithinBudget
    SpentBudgetStops
    CarryDrift
CHECK_DEADLOCK FALSE
