------------------------------ MODULE CostGuard ------------------------------
(***************************************************************************)
(* The two spending gates in front of every language-model call: the daily *)
(* cap of a user and the daily ceiling of the whole service               *)
(* (llm/openai.ts enforceCostGates, billing/cost-guard.ts), with the       *)
(* settlement after the call (billing/llm-usage.ts trueUpCostLedgers).     *)
(*                                                                         *)
(* A call reads both ledgers, is charged an estimate on both, runs, and is *)
(* charged the difference to what it really cost.  Every read and write is *)
(* an await, so any number of calls stand between any two of these steps.  *)
(* Money is counted in units, Per of them to a cent: the user's ledger     *)
(* holds whole cents and the process remembers the rest of a cent, the     *)
(* service's ledger holds units.                                           *)
(***************************************************************************)
EXTENDS Integers, FiniteSets, Functions

CONSTANTS
    Calls,      \* the calls, each made once
    Users,
    FreeUsers,  \* those the paywall puts on the free cap
    NoUser,     \* system calls: only the ceiling sees them
    FullCap,    \* DAILY_COST_CAP_CENTS
    FreeCap,    \* FREE_DAILY_COST_CAP_CENTS
    Reserve,    \* JUDGE_BUDGET_RESERVE_CENTS
    Ceiling,    \* GLOBAL_DAILY_COST_CAP_CENTS, in units
    Per,        \* units to the cent
    Prices,     \* what a call may be estimated at, in units
    Costs,      \* what it may really cost, in units
    LastDay,    \* bound: UTC days
    Faults,     \* the kinds of fault a behaviour may contain
    MaxFaults   \* bound: faults in one behaviour

ASSUME CostAssumption ==
    /\ IsFiniteSet(Calls)
    /\ FreeUsers \subseteq Users /\ NoUser \notin Users
    /\ FullCap \in Nat \ {0} /\ FreeCap \in Nat \ {0} /\ Reserve \in Nat
    /\ Ceiling \in Nat \ {0} /\ Per \in Nat \ {0}
    /\ Prices \subseteq Nat /\ Costs \subseteq Nat
    /\ LastDay \in Nat \ {0}
    /\ Faults \subseteq {"plan", "read", "ledger", "ceiling", "restart"}
    /\ MaxFaults \in Nat

VARIABLES
    day,      \* the UTC day
    ledger,   \* LlmCostLedger.cents of a user and a day
    total,    \* GlobalCostLedger.microCents of a day
    carry,    \* fractionalCarry: the rest of a cent of a user, and its day
    call,     \* each call: where it stands and what it was charged
    charged,  \* units the user's ledger was asked to take on a day (ghost)
    slips,    \* how often a carry was lost or counted twice (ghost)
    faults    \* faults so far (ghost)

vars == <<day, ledger, total, carry, call, charged, slips, faults>>
ghosts == <<charged, slips>>

Days == 1 .. LastDay

(* A charge occupies a slice of a ledger: what it held before and after.   *)
NoSlice == [day |-> 0, from |-> 0, to |-> 0]

NewCall ==
    [pc |-> "new", user |-> NoUser, reserved |-> FALSE, own |-> FALSE, est |-> 0,
     phase |-> "pre", amount |-> 0, day |-> 0, prior |-> 0, granted |-> "no",
     slice |-> NoSlice, gslice |-> NoSlice, spent |-> 0, gate |-> 0]

Init ==
    /\ day = 1
    /\ ledger = [u \in Users |-> [d \in Days |-> 0]]
    /\ total = [d \in Days |-> 0]
    /\ carry = [u \in Users |-> [day |-> 0, frac |-> 0]]
    /\ call = [c \in Calls |-> NewCall]
    /\ charged = [u \in Users |-> [d \in Days |-> 0]]
    /\ slips = [u \in Users |-> [d \in Days |-> 0]]
    /\ faults = 0

Fault(kind) ==
    /\ kind \in Faults
    /\ faults < MaxFaults
    /\ faults' = faults + 1

-----------------------------------------------------------------------------
(* The line a call may spend up to.                                        *)

CapOf(u) == IF u \in FreeUsers THEN FreeCap ELSE FullCap

(* The caps a lookup of the plan may answer: a failed one answers the      *)
(* full cap.                                                               *)
CapsOf(u) == {CapOf(u)} \cup (IF "plan" \in Faults THEN {FullCap} ELSE {})

reserveCents(cap) == IF Reserve <= cap \div 2 THEN Reserve ELSE cap \div 2

effectiveCap(cap, reserved) == IF reserved THEN cap ELSE cap - reserveCents(cap)

(* A plan lookup, with the fault it costs.                                 *)
resolveCapCents(u, cap) ==
    \/ /\ cap = CapOf(u)
       /\ UNCHANGED faults
    \/ /\ cap = FullCap
       /\ Fault("plan")

CarryOf(u, d) == IF carry[u].day = d THEN carry[u].frac ELSE 0

Step(c, changes) == call' = [call EXCEPT ![c] = changes]
(* A call that is over: one that was granted nothing leaves nothing, any   *)
(* other only what it was granted.                                         *)
Over(k, pc) ==
    IF k.granted = "no"
    THEN [NewCall EXCEPT !.pc = pc]
    ELSE [k EXCEPT !.pc = pc, !.phase = "pre", !.amount = 0, !.day = 0, !.prior = 0]

Moved(k, pc) == IF pc \in {"done", "refused"} THEN Over(k, pc) ELSE [k EXCEPT !.pc = pc]

Goto(c, pc) == Step(c, Moved(call[c], pc))

-----------------------------------------------------------------------------
(* enforceCostGates                                                        *)

(* The user's budget of today is gone, whichever cap a lookup answers.     *)
Spent(u, reserved) ==
    \A cap \in CapsOf(u) : ledger[u][day] >= effectiveCap(cap, reserved)

(* A call enters the gates.  A user with a provider key of their own skips *)
(* the ceiling.  "spent" is the day the user's budget was already gone.    *)
Begin(c, u, reserved, own, est) ==
    /\ call[c].pc = "new"
    /\ own \/ reserved => u # NoUser
    /\ Step(c, [NewCall EXCEPT
            !.pc = IF own THEN "usergate" ELSE "gate",
            !.user = u, !.reserved = reserved, !.own = own, !.est = est,
            !.amount = est,
            !.spent = IF u # NoUser /\ Spent(u, reserved) THEN day ELSE 0])
    /\ UNCHANGED <<day, ledger, total, carry, ghosts, faults>>

checkGlobalCostGate(c) ==
    /\ call[c].pc = "gate"
    /\ Goto(c, IF total[day] >= Ceiling THEN "refused"
               ELSE IF call[c].user = NoUser THEN "gcharge" ELSE "usergate")
    /\ UNCHANGED <<day, ledger, total, carry, ghosts, faults>>

(* A variant: the gate closes past the cap, not at it.                     *)
GateOffByOne(c, cap) ==
    /\ call[c].pc = "usergate"
    /\ resolveCapCents(call[c].user, cap)
    /\ LET over == ledger[call[c].user][day] > effectiveCap(cap, call[c].reserved)
       IN  Step(c, Moved(
               [call[c] EXCEPT
                   !.granted = IF ~call[c].own THEN "no" ELSE IF over THEN "ownonly" ELSE "own",
                   !.gate = day],
               IF call[c].own THEN "running" ELSE IF over THEN "refused" ELSE "charge"))
    /\ UNCHANGED <<day, ledger, total, carry, ghosts>>

(* Past the cap a call with a key of the user's own runs on that key       *)
(* alone, any other is refused; below it a call with such a key runs       *)
(* unbilled.                                                               *)
checkCostGate(c, cap) ==
    /\ call[c].pc = "usergate"
    /\ resolveCapCents(call[c].user, cap)
    /\ LET over == ledger[call[c].user][day] >= effectiveCap(cap, call[c].reserved)
       IN  Step(c, Moved(
               [call[c] EXCEPT
                   !.granted = IF ~call[c].own THEN "no" ELSE IF over THEN "ownonly" ELSE "own",
                   !.gate = day],
               IF call[c].own THEN "running" ELSE IF over THEN "refused" ELSE "charge"))
    /\ UNCHANGED <<day, ledger, total, carry, ghosts>>

(* A ledger read that throws ends the call before anything was charged.    *)
GateReadFails(c) ==
    /\ call[c].pc \in {"gate", "usergate"}
    /\ Fault("read")
    /\ Goto(c, "refused")
    /\ UNCHANGED <<day, ledger, total, carry, ghosts>>

-----------------------------------------------------------------------------
(* recordCostUsage: the carry is read, the whole cents are added to the    *)
(* ledger, and the rest becomes the new carry.                             *)

Whole(c) == (call[c].prior + call[c].amount) \div Per
\* A variant no run uses by itself: what is over a cent is kept whole.
RestUnreduced(c) == call[c].prior + call[c].amount
Rest(c) == (call[c].prior + call[c].amount) % Per

ReadCarry(c) ==
    /\ call[c].pc = "charge"
    /\ Step(c, [call[c] EXCEPT !.pc = "charging", !.day = day,
                               !.prior = CarryOf(call[c].user, day)])
    /\ UNCHANGED <<day, ledger, total, carry, ghosts, faults>>

(* The upsert lands; its answer is the ledger after it.                    *)
Post(c) ==
    LET u == call[c].user
        d == call[c].day
    IN  /\ ledger' = [ledger EXCEPT ![u] = [ledger[u] EXCEPT ![d] = ledger[u][d] + Whole(c)]]
        /\ charged' = [charged EXCEPT ![u] = [charged[u] EXCEPT ![d] = charged[u][d] + call[c].amount]]

Slice(c) ==
    LET before == ledger[call[c].user][call[c].day]
    IN  [day |-> call[c].day, from |-> before, to |-> before + Whole(c)]

Slipped(u, d, n) == [slips EXCEPT ![u] = [slips[u] EXCEPT ![d] = slips[u][d] + n]]

Charge(c) ==
    /\ call[c].pc = "charging"
    /\ Post(c)
    /\ Step(c, [call[c] EXCEPT
            !.pc = "charged",
            !.slice = IF call[c].phase = "pre" THEN Slice(c) ELSE call[c].slice])
    /\ UNCHANGED <<day, total, carry, slips, faults>>

(* A charge that fails is dropped and the call goes on; the increment may  *)
(* have been applied before the connection broke.                          *)
ChargeFails(c) ==
    /\ call[c].pc = "charging"
    /\ Fault("ledger")
    /\ Goto(c, "gcharge")
    /\ \/ UNCHANGED <<ledger, charged, slips>>
       \/ /\ Post(c)
          /\ slips' = Slipped(call[c].user, call[c].day, 1)
    /\ UNCHANGED <<day, total, carry>>

(* Committing a carry overwrites what another charge committed since it    *)
(* was read, or what another day left.                                     *)
Overwritten(c) ==
    LET u == call[c].user
        read(d) == IF d = call[c].day THEN call[c].prior ELSE 0
    IN  [slips EXCEPT ![u] =
            [d \in Days |-> slips[u][d] + IF CarryOf(u, d) # read(d) THEN 1 ELSE 0]]

(* A variant: the total after the increment is not looked at again.        *)
SettleUnchecked(c, cap) ==
    LET u == call[c].user
    IN  /\ call[c].pc = "charged"
        /\ resolveCapCents(u, cap)
        /\ carry' = [carry EXCEPT ![u] = [day |-> call[c].day, frac |-> Rest(c)]]
        /\ slips' = Overwritten(c)
        /\ Goto(c, "gcharge")
        /\ UNCHANGED <<day, ledger, total, charged>>

(* A variant: a charge of less than a cent commits no carry.               *)
SettleForgets(c, cap) ==
    LET u == call[c].user
    IN  /\ call[c].pc = "charged"
        /\ resolveCapCents(u, cap)
        /\ IF Whole(c) = 0
           THEN UNCHANGED carry
           ELSE carry' = [carry EXCEPT ![u] = [day |-> call[c].day, frac |-> Rest(c)]]
        /\ slips' = Overwritten(c)
        /\ Goto(c, "gcharge")
        /\ UNCHANGED <<day, ledger, total, charged>>

(* The answer arrives: the carry is committed, and a pre-bill that crossed *)
(* the line refuses its call.  A settlement is only logged.                *)
Settle(c, cap) ==
    LET u == call[c].user
    IN  /\ call[c].pc = "charged"
        /\ resolveCapCents(u, cap)
        /\ carry' = [carry EXCEPT ![u] = [day |-> call[c].day, frac |-> Rest(c)]]
        /\ slips' = Overwritten(c)
        /\ Goto(c, IF /\ call[c].phase = "pre"
                      /\ call[c].slice.to > effectiveCap(cap, call[c].reserved)
                   THEN "refused" ELSE "gcharge")
        /\ UNCHANGED <<day, ledger, total, charged>>

-----------------------------------------------------------------------------
(* recordGlobalCostUsage                                                   *)

\* A variant: the total after the increment is not looked at again.
AfterCeilingUnchecked(c, over) == IF call[c].phase = "true" THEN "done" ELSE "running"
AfterCeiling(c, over) ==
    IF call[c].phase = "true" THEN "done" ELSE IF over THEN "refused" ELSE "running"

GlobalSlice(c) ==
    [day |-> day, from |-> total[day], to |-> total[day] + call[c].amount]

ChargeCeiling(c) ==
    /\ call[c].pc = "gcharge"
    /\ total' = [total EXCEPT ![day] = total[day] + call[c].amount]
    /\ LET next == AfterCeiling(c, call[c].amount > 0 /\ total[day] + call[c].amount >= Ceiling)
       IN  Step(c, Moved(
               [call[c] EXCEPT
                   !.granted = IF next = "running" THEN "billed" ELSE call[c].granted,
                   !.gslice = IF call[c].phase = "pre" THEN GlobalSlice(c) ELSE call[c].gslice],
               next))
    /\ UNCHANGED <<day, ledger, carry, ghosts, faults>>

(* A variant: the call runs although its spend could not be recorded.      *)
CeilingFailsOpen(c) ==
    /\ call[c].pc = "gcharge"
    /\ call[c].amount > 0
    /\ Fault("ceiling")
    /\ UNCHANGED total
    /\ IF call[c].phase = "true"
       THEN Goto(c, "done")
       ELSE Step(c, [call[c] EXCEPT !.pc = "running", !.granted = "billed"])
    /\ UNCHANGED <<day, ledger, carry, ghosts>>

(* A failed write throws: the call does not run, a settlement is dropped.  *)
ChargeCeilingFails(c) ==
    /\ call[c].pc = "gcharge"
    /\ call[c].amount > 0
    /\ Fault("ceiling")
    /\ \/ UNCHANGED total
       \/ total' = [total EXCEPT ![day] = total[day] + call[c].amount]
    /\ Goto(c, AfterCeiling(c, TRUE))
    /\ UNCHANGED <<day, ledger, carry, ghosts>>

-----------------------------------------------------------------------------
(* The call itself, and trueUpCostLedgers after it.                        *)

(* Nobody served it, or the user's own key did: nothing is settled.        *)
RunUnsettled(c) ==
    /\ call[c].pc = "running"
    /\ Goto(c, "done")
    /\ UNCHANGED <<day, ledger, total, carry, ghosts, faults>>

(* The service's key served it: what it cost beyond the pre-bill is        *)
(* charged.  Only a call that may not leave the user's key cannot get here.*)
RunOnServerKey(c, cost) ==
    LET delta == cost - (IF call[c].own THEN 0 ELSE call[c].est)
    IN  /\ call[c].pc = "running"
        /\ call[c].granted # "ownonly"
        /\ IF delta <= 0
           THEN Goto(c, "done")
           ELSE Step(c, [call[c] EXCEPT
                    !.pc = IF call[c].user = NoUser THEN "gcharge" ELSE "charge",
                    !.phase = "true", !.amount = delta])
        /\ UNCHANGED <<day, ledger, total, carry, ghosts, faults>>

-----------------------------------------------------------------------------
NextDay ==
    /\ day < LastDay
    /\ day' = day + 1
    /\ UNCHANGED <<ledger, total, carry, call, ghosts, faults>>

(* The charges that landed and whose carry is not committed yet.           *)
Unsettled(u, d) ==
    {c \in Calls : call[c].pc = "charged" /\ call[c].user = u /\ call[c].day = d}

(* The process restarts: the calls in it are gone, and so are the carries. *)
Restart ==
    /\ Fault("restart")
    /\ call' = [c \in Calls |->
                  IF call[c].pc \in {"new", "done", "refused"} THEN call[c]
                  ELSE Over(call[c], "done")]
    /\ carry' = [u \in Users |-> [day |-> 0, frac |-> 0]]
    /\ slips' = [u \in Users |-> [d \in Days |->
                   slips[u][d] + (IF CarryOf(u, d) # 0 THEN 1 ELSE 0)
                               + Cardinality(Unsettled(u, d))]]
    /\ UNCHANGED <<day, ledger, total, charged>>

Next ==
    \/ \E c \in Calls :
        \/ \E u \in Users \cup {NoUser}, reserved, own \in BOOLEAN, est \in Prices :
              Begin(c, u, reserved, own, est)
        \/ checkGlobalCostGate(c)
        \/ \E cap \in {FullCap, FreeCap} : checkCostGate(c, cap)
        \/ GateReadFails(c)
        \/ ReadCarry(c)
        \/ Charge(c)
        \/ ChargeFails(c)
        \/ \E cap \in {FullCap, FreeCap} : Settle(c, cap)
        \/ ChargeCeiling(c)
        \/ ChargeCeilingFails(c)
        \/ RunUnsettled(c)
        \/ \E cost \in Costs : RunOnServerKey(c, cost)
    \/ NextDay
    \/ Restart

Spec == Init /\ [][Next]_vars

-----------------------------------------------------------------------------
Slices == [day : Nat, from : Nat, to : Nat]

CallStates ==
    [pc : {"new", "gate", "usergate", "charge", "charging", "charged", "gcharge", "running",
           "done", "refused"},
     user : Users \cup {NoUser}, reserved : BOOLEAN, own : BOOLEAN, est : Prices \cup {0},
     phase : {"pre", "true"}, amount : Nat, day : Days \cup {0}, prior : Nat,
     granted : {"no", "billed", "own", "ownonly"}, slice : Slices, gslice : Slices,
     spent : Days \cup {0}, gate : Days \cup {0}]

(* The variables stay in their types; a call is charged to a user's ledger *)
(* only if it has a user.                                                  *)
TypeOK ==
    /\ day \in Days
    /\ ledger \in [Users -> [Days -> Nat]]
    /\ total \in [Days -> Nat]
    /\ carry \in [Users -> [day : Days \cup {0}, frac : 0 .. Per - 1]]
    /\ call \in [Calls -> CallStates]
    /\ charged \in [Users -> [Days -> Nat]]
    /\ slips \in [Users -> [Days -> Nat]]
    /\ faults \in Nat
    /\ \A c \in Calls : call[c].pc \in {"usergate", "charge", "charging", "charged"} =>
          /\ call[c].user # NoUser
          /\ call[c].pc \in {"charging", "charged"} => call[c].day # 0

Billed(c) == call[c].granted = "billed"

Apart(s, t) == s.day # t.day \/ s.to <= t.from \/ t.to <= s.from

(* "Two concurrent calls can both pass the read-side checkCostGate, but    *)
(* only the increments that actually cross the cap report overCap": the    *)
(* pre-bills of the calls let through take separate slices of a user's     *)
(* day, all of them under the line of their kind (openai.ts:247-256,       *)
(* cost-guard.ts:209-213).  So their sum is under the cap, and ordinary    *)
(* calls never fill the slice kept for the judge.  A call goes on when its *)
(* charge failed or was not acknowledged (ChargeFails): it has no slice    *)
(* and nothing is said of it here.                                         *)
AdmittedWithinCap ==
    \A c \in Calls : Billed(c) /\ call[c].user # NoUser =>
        /\ "ledger" \notin Faults => call[c].slice.day # 0
        /\ call[c].slice.day # 0 =>
              /\ \E cap \in CapsOf(call[c].user) :
                    call[c].slice.to <= effectiveCap(cap, call[c].reserved)
              /\ \A b \in Calls \ {c} :
                    /\ Billed(b) /\ call[b].user = call[c].user
                    /\ call[b].slice.day # 0
                    => Apart(call[b].slice, call[c].slice)

(* "Spend that cannot be recorded must not happen" (cost-guard.ts:316-319):*)
(* every call let through on the service's key has a slice of the          *)
(* service's day of its own, below the ceiling, whichever writes failed.   *)
CeilingFailsClosed ==
    \A c \in Calls : Billed(c) /\ call[c].est > 0 =>
        /\ call[c].gslice.day # 0
        /\ call[c].gslice.to = call[c].gslice.from + call[c].est
        /\ call[c].gslice.to < Ceiling
        /\ \A b \in Calls \ {c} :
              Billed(b) /\ call[b].est > 0 => Apart(call[b].gslice, call[c].gslice)

(* "Two concurrent calls could otherwise both pass it and both spend"      *)
(* (openai.ts:258-260), and the reserve is what "only the judge may spend" *)
(* of a cap (cost-guard.ts:81-110): what the calls let through on a user's *)
(* day were pre-billed adds up to the cap at most, what the ordinary ones  *)
(* among them were to the cap less the reserve, and the estimates of all   *)
(* calls let through on a day of the service stay below its ceiling,       *)
(* however many were in flight at once.  A call whose own charge failed    *)
(* has no slice of the user's day and is left out of the first sum.        *)
Cents == [c \in Calls |-> call[c].slice.to - call[c].slice.from]
Units == [c \in Calls |-> call[c].est]

LetThrough(u, d) == {c \in Calls : Billed(c) /\ call[c].user = u /\ call[c].slice.day = d}
ServedOn(d) == {c \in Calls : Billed(c) /\ call[c].gslice.day = d}

DayWithinBudget ==
    /\ \A u \in Users, d \in Days : \E cap \in CapsOf(u) : \A reserved \in BOOLEAN :
          SumFunctionOnSet(Cents, {c \in LetThrough(u, d) : call[c].reserved => reserved})
            <= effectiveCap(cap, reserved)
    /\ \A d \in Days : SumFunctionOnSet(Units, ServedOn(d)) < Ceiling

(* "Then every subsequent call short-circuits" (cost-guard.ts:9-11), and   *)
(* "a broken key can never fall through to env money" past the cap         *)
(* (openai.ts:224-225): a call that starts when the user's budget of the   *)
(* day is gone, and is gated on that day, never gets the service's key,    *)
(* whatever is in flight beside it.                                        *)
SpentBudgetStops ==
    \A c \in Calls : call[c].spent # 0 /\ call[c].gate = call[c].spent =>
        call[c].granted \in {"no", "ownonly"}

(* The ledger and the carry of a user hold what was charged, to the unit,  *)
(* except that each time a carry was lost or counted twice (two charges in *)
(* flight together, a restart, a broken write, midnight) less than a cent  *)
(* is off (cost-guard.ts:185-190, :205-208, :230-232).                     *)
CarryDrift ==
    \A u \in Users, d \in Days : Unsettled(u, d) = {} =>
        LET off == ledger[u][d] * Per + CarryOf(u, d) - charged[u][d]
            most == (Per - 1) * slips[u][d]
        IN  -most <= off /\ off <= most
=============================================================================
