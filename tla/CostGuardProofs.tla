--------------------------- MODULE CostGuardProofs ---------------------------
(***************************************************************************)
(* Proofs about CostGuard, for any number of calls, users and days, any    *)
(* prices and any caps.                                                    *)
(*                                                                         *)
(* A charge is an atomic increment that answers the ledger after it, so    *)
(* the slices [from, to] of the charges of a day never overlap and end at  *)
(* or below the ledger (Stacked, GlobalStacked).  A call goes on only if   *)
(* its own slice ends under the line (Admission).  Together these are the  *)
(* two admission theorems.  A ledger only grows, so a budget that was gone *)
(* when a call began is gone at its gate (SpentStays).                     *)
(*                                                                         *)
(* That separate slices under a line add up to no more than the line       *)
(* (SlicesFit) is arithmetic of finite sums, shown in a section of its     *)
(* own; it turns the admission theorems into one about the day's budget.   *)
(***************************************************************************)
EXTENDS CostGuard, FiniteSetTheorems, WellFoundedInduction, TLAPS

(* A call in the gates, before anything but its estimate was charged.      *)
PreBill(k) ==
    k.phase = "pre" /\ k.pc \in {"gate", "usergate", "charge", "charging", "charged", "gcharge"}

(* A call past its user charge and before its ceiling charge, or let       *)
(* through.                                                                *)
Past(k) == k.granted = "billed" \/ (k.phase = "pre" /\ k.pc = "gcharge")

(* What the record of a call says of the lines it passed.                  *)
UnderTheLine(k) ==
    /\ Past(k) /\ k.slice.day # 0 =>
          \E cap \in CapsOf(k.user) : k.slice.to <= effectiveCap(cap, k.reserved)
    /\ "ledger" \notin Faults /\ Past(k) /\ k.user # NoUser => k.slice.day # 0

UnderTheCeiling(k) ==
    k.granted = "billed" /\ k.est > 0 =>
        /\ k.gslice.day # 0
        /\ k.gslice.to = k.gslice.from + k.est
        /\ k.gslice.to < Ceiling

InOrder(k) ==
    /\ k.pc \in {"new", "gate", "usergate"} => k.phase = "pre"
    /\ PreBill(k) => k.granted = "no" /\ k.amount = k.est
    /\ PreBill(k) /\ k.pc \notin {"charged", "gcharge"} => k.slice.day = 0
    /\ PreBill(k) /\ k.pc = "charged" => k.slice.day # 0

Admission(k) == InOrder(k) /\ UnderTheLine(k) /\ UnderTheCeiling(k)

Admissions == \A c \in Calls : Admission(call[c])

(* The slices of a user's day are stacked under the ledger of that day.    *)
Stacked ==
    \A c \in Calls : call[c].slice.day # 0 =>
        /\ call[c].user # NoUser
        /\ call[c].slice.day \in Days
        /\ call[c].slice.to <= ledger[call[c].user][call[c].slice.day]
        /\ \A b \in Calls \ {c} :
              call[b].slice.day # 0 /\ call[b].user = call[c].user =>
                  Apart(call[b].slice, call[c].slice)

(* The slices of the service's day are stacked under its ledger.           *)
GlobalStacked ==
    \A c \in Calls : call[c].gslice.day # 0 =>
        /\ call[c].gslice.day \in Days
        /\ call[c].gslice.to <= total[call[c].gslice.day]
        /\ \A b \in Calls \ {c} :
              call[b].gslice.day # 0 => Apart(call[b].gslice, call[c].gslice)

(* A budget that was gone stays gone for the rest of its day.              *)
SpentStays ==
    \A c \in Calls : call[c].spent # 0 =>
        /\ call[c].user # NoUser
        /\ \A cap \in CapsOf(call[c].user) :
              ledger[call[c].user][call[c].spent] >= effectiveCap(cap, call[c].reserved)
        /\ call[c].gate = call[c].spent => call[c].granted = "ownonly"

-----------------------------------------------------------------------------
(* Type correctness.                                                       *)

(* The one constraint that TypeOK adds to the types of the variables.      *)
Charging(k) ==
    k.pc \in {"usergate", "charge", "charging", "charged"} =>
        /\ k.user # NoUser
        /\ k.pc \in {"charging", "charged"} => k.day # 0

LEMMA OverType ==
    ASSUME NEW k \in CallStates, NEW pc \in {"done", "refused"}
    PROVE  Over(k, pc) \in CallStates /\ Charging(Over(k, pc))
  <1>1. CASE k.granted = "no"
    BY <1>1 DEF Over, NewCall, NoSlice, CallStates, Slices, Charging
  <1>2. CASE k.granted # "no"
    BY <1>2 DEF Over, CallStates, Charging
  <1>3. QED BY <1>1, <1>2

LEMMA MovedType ==
    ASSUME NEW k \in CallStates,
           NEW pc \in {"new", "gate", "usergate", "charge", "charging", "charged", "gcharge",
                       "running", "done", "refused"},
           pc \in {"usergate", "charge"} => k.user # NoUser,
           pc \notin {"charging", "charged"}
    PROVE  Moved(k, pc) \in CallStates /\ Charging(Moved(k, pc))
  <1>1. CASE pc \in {"done", "refused"}
    BY <1>1, OverType DEF Moved
  <1>2. CASE pc \notin {"done", "refused"}
    BY <1>2 DEF Moved, CallStates, Charging
  <1>3. QED BY <1>1, <1>2

(* A step that replaces the record of one call by a well-formed one.       *)
LEMMA StepType ==
    ASSUME TypeOK, NEW c \in Calls, NEW k \in CallStates, Charging(k), Step(c, k)
    PROVE  /\ call' \in [Calls -> CallStates]
           /\ \A b \in Calls : Charging(call'[b])
  <1>1. call \in [Calls -> CallStates] /\ \A b \in Calls : Charging(call[b])
    BY DEF TypeOK, Charging
  <1>2. call' = [call EXCEPT ![c] = k]
    BY DEF Step
  <1>3. QED BY <1>1, <1>2

LEMMA RestType ==
    ASSUME TypeOK, NEW c \in Calls
    PROVE  Whole(c) \in Nat /\ Rest(c) \in 0 .. Per - 1
  <1>1. call[c].prior \in Nat /\ call[c].amount \in Nat
    BY DEF TypeOK, CallStates
  <1> DEFINE n == call[c].prior + call[c].amount
  <1>2. n \in Nat
    BY <1>1
  <1>3. n \div Per \in Nat /\ n % Per \in 0 .. Per - 1
    BY <1>2, CostAssumption
  <1>4. QED BY <1>3 DEF Whole, Rest

(* The other variables' types, which most steps leave alone.               *)
LEMMA PostType ==
    ASSUME TypeOK, NEW c \in Calls, call[c].user # NoUser, call[c].day # 0, Post(c)
    PROVE  ledger' \in [Users -> [Days -> Nat]] /\ charged' \in [Users -> [Days -> Nat]]
  <1>1. call[c].user \in Users /\ call[c].day \in Days /\ call[c].amount \in Nat
    BY DEF TypeOK, CallStates
  <1>2. Whole(c) \in Nat
    BY RestType
  <1>3. ledger \in [Users -> [Days -> Nat]] /\ charged \in [Users -> [Days -> Nat]]
    BY DEF TypeOK
  <1>4. QED BY <1>1, <1>2, <1>3 DEF Post

LEMMA SlippedType ==
    ASSUME TypeOK, NEW u \in Users, NEW d \in Days, NEW n \in Nat
    PROVE  Slipped(u, d, n) \in [Users -> [Days -> Nat]]
  <1>1. slips \in [Users -> [Days -> Nat]]
    BY DEF TypeOK
  <1>2. QED BY <1>1 DEF Slipped

LEMMA GlobalSliceType ==
    ASSUME TypeOK, NEW c \in Calls
    PROVE  GlobalSlice(c) \in Slices
  <1>1. day \in Days /\ total \in [Days -> Nat] /\ call[c].amount \in Nat
    BY DEF TypeOK, CallStates
  <1>2. day \in Nat /\ total[day] \in Nat /\ total[day] + call[c].amount \in Nat
    BY <1>1 DEF Days
  <1>3. QED BY <1>2 DEF GlobalSlice, Slices

LEMMA FaultType ==
    ASSUME TypeOK, NEW kind, Fault(kind)
    PROVE  faults' \in Nat /\ kind \in Faults
  BY DEF TypeOK, Fault

LEMMA TypeStep == TypeOK /\ [Next]_vars => TypeOK'
  <1> SUFFICES ASSUME TypeOK, [Next]_vars PROVE TypeOK'
    OBVIOUS
  <1> DEFINE CallOK == call' \in [Calls -> CallStates] /\ \A b \in Calls : Charging(call'[b])
  <1>0. CallOK /\ day' \in Days /\ ledger' \in [Users -> [Days -> Nat]]
          /\ total' \in [Days -> Nat]
          /\ carry' \in [Users -> [day : Days \cup {0}, frac : 0 .. Per - 1]]
          /\ charged' \in [Users -> [Days -> Nat]] /\ slips' \in [Users -> [Days -> Nat]]
          /\ faults' \in Nat
        => TypeOK'
    BY DEF TypeOK, Charging
  <1>1. ASSUME NEW c \in Calls, NEW u \in Users \cup {NoUser},
               NEW reserved \in BOOLEAN, NEW own \in BOOLEAN, NEW est \in Prices,
               Begin(c, u, reserved, own, est)
        PROVE  TypeOK'
    <2> DEFINE s == IF u # NoUser /\ Spent(u, reserved) THEN day ELSE 0
               pc == IF own THEN "usergate" ELSE "gate"
               k == [NewCall EXCEPT !.pc = pc, !.user = u, !.reserved = reserved, !.own = own,
                                    !.est = est, !.amount = est, !.spent = s]
    <2>1. s \in Days \cup {0} /\ est \in Nat /\ pc \in {"usergate", "gate"}
      BY CostAssumption DEF TypeOK
    <2>2. own => u # NoUser
      BY <1>1 DEF Begin
    <2>3. Step(c, k)
      BY <1>1 DEF Begin
    <2>4. k \in CallStates /\ Charging(k)
      <3>1. pc = "usergate" => u # NoUser
        BY <2>2
      <3> HIDE DEF s, pc
      <3>2. QED BY <3>1, <2>1 DEF NewCall, NoSlice, CallStates, Slices, Charging
    <2> HIDE DEF k
    <2>5. CallOK
      BY <2>3, <2>4, StepType
    <2>6. QED BY <2>5, <1>0, <1>1 DEF Begin, ghosts, TypeOK
  <1>2. ASSUME NEW c \in Calls, checkGlobalCostGate(c) PROVE TypeOK'
    <2> DEFINE pc == IF total[day] >= Ceiling THEN "refused"
                     ELSE IF call[c].user = NoUser THEN "gcharge" ELSE "usergate"
    <2>1. call[c] \in CallStates
      BY DEF TypeOK
    <2>2. /\ Moved(call[c], pc) \in CallStates
          /\ Charging(Moved(call[c], pc))
      BY <2>1, MovedType
    <2>3. CallOK
      BY <1>2, <2>2, StepType DEF checkGlobalCostGate, Goto
    <2>4. QED BY <2>3, <1>0, <1>2 DEF checkGlobalCostGate, ghosts, TypeOK
  <1>3. ASSUME NEW c \in Calls, NEW cap \in {FullCap, FreeCap}, checkCostGate(c, cap)
        PROVE  TypeOK'
    <2> DEFINE over == ledger[call[c].user][day] >= effectiveCap(cap, call[c].reserved)
               g == IF ~call[c].own THEN "no" ELSE IF over THEN "ownonly" ELSE "own"
               k == [call[c] EXCEPT !.granted = g, !.gate = day]
               pc == IF call[c].own THEN "running" ELSE IF over THEN "refused" ELSE "charge"
    <2>1. call[c] \in CallStates /\ day \in Days /\ call[c].user # NoUser
      BY <1>3 DEF TypeOK, checkCostGate
    <2>2. g \in {"no", "ownonly", "own"} /\ pc \in {"running", "refused", "charge"}
      OBVIOUS
    <2>3. Step(c, Moved(k, pc))
      BY <1>3 DEF checkCostGate
    <2> HIDE DEF g
    <2>4. k \in CallStates /\ k.user # NoUser
      BY <2>1, <2>2 DEF CallStates
    <2> HIDE DEF k, pc
    <2>5. Moved(k, pc) \in CallStates /\ Charging(Moved(k, pc))
      BY <2>2, <2>4, MovedType
    <2>6. CallOK
      BY <2>3, <2>5, StepType
    <2>7. faults' \in Nat
      BY <1>3, FaultType DEF checkCostGate, resolveCapCents, TypeOK
    <2>8. QED BY <2>6, <2>7, <1>0, <1>3 DEF checkCostGate, ghosts, TypeOK
  <1>4. ASSUME NEW c \in Calls, GateReadFails(c) PROVE TypeOK'
    <2>1. call[c] \in CallStates
      BY DEF TypeOK
    <2>2. Moved(call[c], "refused") \in CallStates /\ Charging(Moved(call[c], "refused"))
      BY <2>1, MovedType
    <2>3. CallOK
      BY <1>4, <2>2, StepType DEF GateReadFails, Goto
    <2>4. QED BY <2>3, <1>0, <1>4, FaultType DEF GateReadFails, ghosts, TypeOK
  <1>5. ASSUME NEW c \in Calls, ReadCarry(c) PROVE TypeOK'
    <2> DEFINE p == CarryOf(call[c].user, day)
               k == [call[c] EXCEPT !.pc = "charging", !.day = day, !.prior = p]
    <2>1. call[c] \in CallStates /\ day \in Days /\ call[c].user # NoUser
      BY <1>5 DEF TypeOK, ReadCarry
    <2>2. call[c].user \in Users /\ carry \in [Users -> [day : Days \cup {0}, frac : 0 .. Per - 1]]
      BY <2>1 DEF TypeOK, CallStates
    <2>3. p \in Nat
      BY <2>2, CostAssumption DEF CarryOf
    <2> HIDE DEF p
    <2>4. k \in CallStates /\ Charging(k)
      <3>1. day # 0
        BY <2>1 DEF Days
      <3>2. QED BY <2>1, <2>3, <3>1 DEF CallStates, Charging
    <2>5. Step(c, k)
      BY <1>5 DEF ReadCarry, p
    <2> HIDE DEF k
    <2>6. CallOK
      BY <2>4, <2>5, StepType
    <2>7. QED BY <2>6, <1>0, <1>5 DEF ReadCarry, ghosts, TypeOK
  <1>6. ASSUME NEW c \in Calls, Charge(c) PROVE TypeOK'
    <2> DEFINE s == IF call[c].phase = "pre" THEN Slice(c) ELSE call[c].slice
               k == [call[c] EXCEPT !.pc = "charged", !.slice = s]
    <2>1. /\ call[c] \in CallStates /\ call[c].user # NoUser /\ call[c].day # 0
          /\ call[c].user \in Users /\ call[c].day \in Days
      BY <1>6 DEF TypeOK, Charge, CallStates
    <2>2. Whole(c) \in Nat /\ ledger[call[c].user][call[c].day] \in Nat
      BY <2>1, RestType DEF TypeOK
    <2>3. s \in Slices
      BY <2>1, <2>2 DEF Slice, Slices, CallStates, Days
    <2>4. Step(c, k)
      BY <1>6 DEF Charge
    <2> HIDE DEF s
    <2>5. k \in CallStates /\ Charging(k)
      BY <2>1, <2>3 DEF CallStates, Charging
    <2> HIDE DEF k
    <2>6. CallOK
      BY <2>4, <2>5, StepType
    <2>7. ledger' \in [Users -> [Days -> Nat]] /\ charged' \in [Users -> [Days -> Nat]]
      BY <1>6, <2>1, PostType DEF Charge
    <2>8. QED BY <2>6, <2>7, <1>0, <1>6 DEF Charge, TypeOK
  <1>7. ASSUME NEW c \in Calls, ChargeFails(c) PROVE TypeOK'
    <2>1. /\ call[c] \in CallStates /\ call[c].user # NoUser /\ call[c].day # 0
          /\ call[c].user \in Users /\ call[c].day \in Days
      BY <1>7 DEF TypeOK, ChargeFails, CallStates
    <2>2. Moved(call[c], "gcharge") \in CallStates /\ Charging(Moved(call[c], "gcharge"))
      BY <2>1, MovedType
    <2>3. CallOK
      BY <1>7, <2>2, StepType DEF ChargeFails, Goto
    <2>4. /\ ledger' \in [Users -> [Days -> Nat]] /\ charged' \in [Users -> [Days -> Nat]]
          /\ slips' \in [Users -> [Days -> Nat]]
      <3>1. CASE UNCHANGED <<ledger, charged, slips>>
        BY <3>1 DEF TypeOK
      <3>2. CASE Post(c) /\ slips' = Slipped(call[c].user, call[c].day, 1)
        BY <3>2, <2>1, PostType, SlippedType
      <3>3. QED BY <1>7, <3>1, <3>2 DEF ChargeFails
    <2>5. QED BY <2>3, <2>4, <1>0, <1>7, FaultType DEF ChargeFails, TypeOK
  <1>8. ASSUME NEW c \in Calls, NEW cap \in {FullCap, FreeCap}, Settle(c, cap) PROVE TypeOK'
    <2> DEFINE pc == IF /\ call[c].phase = "pre"
                        /\ call[c].slice.to > effectiveCap(cap, call[c].reserved)
                     THEN "refused" ELSE "gcharge"
    <2>1. /\ call[c] \in CallStates /\ call[c].user \in Users /\ call[c].day \in Days
      BY <1>8 DEF TypeOK, Settle, CallStates
    <2>2. Goto(c, pc)
      BY <1>8 DEF Settle
    <2>3. pc \in {"refused", "gcharge"}
      OBVIOUS
    <2> HIDE DEF pc
    <2>4. Moved(call[c], pc) \in CallStates /\ Charging(Moved(call[c], pc))
      BY <2>1, <2>3, MovedType
    <2>5. CallOK
      BY <2>2, <2>4, StepType DEF Goto
    <2>6. carry' \in [Users -> [day : Days \cup {0}, frac : 0 .. Per - 1]]
      BY <1>8, <2>1, RestType DEF Settle, TypeOK
    <2>7. slips' \in [Users -> [Days -> Nat]]
      <3>1. slips \in [Users -> [Days -> Nat]]
        BY DEF TypeOK
      <3> DEFINE f == [d \in Days |->
              slips[call[c].user][d] +
                IF CarryOf(call[c].user, d) # (IF d = call[c].day THEN call[c].prior ELSE 0)
                THEN 1 ELSE 0]
      <3>2. f \in [Days -> Nat]
        BY <3>1, <2>1
      <3>3. slips' = [slips EXCEPT ![call[c].user] = f]
        BY <1>8 DEF Settle, Overwritten
      <3> HIDE DEF f
      <3>4. QED BY <3>1, <3>2, <3>3
    <2>8. faults' \in Nat
      BY <1>8, FaultType DEF Settle, resolveCapCents, TypeOK
    <2>9. QED BY <2>5, <2>6, <2>7, <2>8, <1>0, <1>8 DEF Settle, TypeOK
  <1>9. ASSUME NEW c \in Calls, ChargeCeiling(c) PROVE TypeOK'
    <2> DEFINE pc == AfterCeiling(c, call[c].amount > 0 /\ total[day] + call[c].amount >= Ceiling)
               g == IF pc = "running" THEN "billed" ELSE call[c].granted
               s == IF call[c].phase = "pre" THEN GlobalSlice(c) ELSE call[c].gslice
               k == [call[c] EXCEPT !.granted = g, !.gslice = s]
    <2>1. /\ call[c] \in CallStates /\ call[c].amount \in Nat /\ day \in Days
          /\ total \in [Days -> Nat]
      BY DEF TypeOK, CallStates
    <2>2. pc \in {"done", "refused", "running"}
      BY DEF AfterCeiling
    <2>3. s \in Slices
      <3>1. GlobalSlice(c) \in Slices
        BY GlobalSliceType
      <3>2. call[c].gslice \in Slices
        BY <2>1 DEF CallStates
      <3>3. QED BY <3>1, <3>2
    <2>4. Step(c, Moved(k, pc))
      BY <1>9 DEF ChargeCeiling
    <2>5. g \in {"no", "billed", "own", "ownonly"}
      BY <2>1 DEF CallStates
    <2> HIDE DEF pc, g, s
    <2>6. k \in CallStates
      BY <2>1, <2>3, <2>5 DEF CallStates
    <2> HIDE DEF k
    <2>7. Moved(k, pc) \in CallStates /\ Charging(Moved(k, pc))
      BY <2>2, <2>6, MovedType
    <2>8. CallOK
      BY <2>4, <2>7, StepType
    <2>9. total' \in [Days -> Nat]
      BY <1>9, <2>1 DEF ChargeCeiling
    <2>10. QED BY <2>8, <2>9, <1>0, <1>9 DEF ChargeCeiling, ghosts, TypeOK
  <1>10. ASSUME NEW c \in Calls, ChargeCeilingFails(c) PROVE TypeOK'
    <2>1. /\ call[c] \in CallStates /\ call[c].amount \in Nat /\ day \in Days
          /\ total \in [Days -> Nat]
      BY DEF TypeOK, CallStates
    <2>2. AfterCeiling(c, TRUE) \in {"done", "refused"}
      BY DEF AfterCeiling
    <2>3. /\ Moved(call[c], AfterCeiling(c, TRUE)) \in CallStates
          /\ Charging(Moved(call[c], AfterCeiling(c, TRUE)))
      BY <2>1, <2>2, MovedType
    <2>4. CallOK
      BY <1>10, <2>3, StepType DEF ChargeCeilingFails, Goto
    <2>5. total' \in [Days -> Nat]
      BY <1>10, <2>1 DEF ChargeCeilingFails
    <2>6. QED BY <2>4, <2>5, <1>0, <1>10, FaultType DEF ChargeCeilingFails, ghosts, TypeOK
  <1>11. ASSUME NEW c \in Calls, RunUnsettled(c) PROVE TypeOK'
    <2>1. Moved(call[c], "done") \in CallStates /\ Charging(Moved(call[c], "done"))
      BY MovedType DEF TypeOK
    <2>2. CallOK
      BY <1>11, <2>1, StepType DEF RunUnsettled, Goto
    <2>3. QED BY <2>2, <1>0, <1>11 DEF RunUnsettled, ghosts, TypeOK
  <1>12. ASSUME NEW c \in Calls, NEW cost \in Costs, RunOnServerKey(c, cost) PROVE TypeOK'
    <2> DEFINE delta == cost - (IF call[c].own THEN 0 ELSE call[c].est)
               pc == IF call[c].user = NoUser THEN "gcharge" ELSE "charge"
               k == [call[c] EXCEPT !.pc = pc, !.phase = "true", !.amount = delta]
    <2>1. call[c] \in CallStates
      BY DEF TypeOK
    <2>2. delta \in Int
      <3>1. call[c].est \in Prices \cup {0}
        BY <2>1 DEF CallStates
      <3>2. call[c].est \in Nat /\ cost \in Nat
        <4>1. \A x \in Prices : x \in Nat
          BY CostAssumption
        <4>2. \A x \in Costs : x \in Nat
          BY CostAssumption
        <4>3. call[c].est \in Nat
          BY <3>1, <4>1
        <4>4. QED BY <4>2, <4>3
      <3>3. QED BY <3>2
    <2>3. CASE delta <= 0
      <3>1. Goto(c, "done")
        BY <1>12, <2>3 DEF RunOnServerKey
      <3>2. Moved(call[c], "done") \in CallStates /\ Charging(Moved(call[c], "done"))
        BY <2>1, MovedType
      <3>3. CallOK
        BY <3>1, <3>2, StepType DEF Goto
      <3>4. QED BY <3>3, <1>0, <1>12 DEF RunOnServerKey, ghosts, TypeOK
    <2>4. CASE ~(delta <= 0)
      <3>1. Step(c, k)
        BY <1>12, <2>4 DEF RunOnServerKey
      <3>2. /\ delta \in Nat /\ pc \in {"gcharge", "charge"}
            /\ pc = "charge" => call[c].user # NoUser
        BY <2>2, <2>4
      <3> HIDE DEF delta, pc
      <3>3. k \in CallStates /\ Charging(k)
        BY <2>1, <3>2 DEF CallStates, Charging
      <3> HIDE DEF k
      <3>4. CallOK
        BY <3>1, <3>3, StepType
      <3>5. QED BY <3>4, <1>0, <1>12 DEF RunOnServerKey, ghosts, TypeOK
    <2>5. QED BY <2>3, <2>4
  <1>13. ASSUME NextDay PROVE TypeOK'
    <2>1. day' \in Days
      BY <1>13, CostAssumption DEF NextDay, TypeOK, Days
    <2>2. CallOK
      BY <1>13 DEF NextDay, TypeOK, Charging
    <2>3. QED BY <2>1, <2>2, <1>0, <1>13 DEF NextDay, ghosts, TypeOK
  <1>14. ASSUME Restart PROVE TypeOK'
    <2>1. \A c \in Calls : call[c] \in CallStates /\ Charging(call[c])
      BY DEF TypeOK, Charging
    <2>2. \A c \in Calls : Over(call[c], "done") \in CallStates /\ Charging(Over(call[c], "done"))
      BY <2>1, OverType
    <2>3. CallOK
      BY <1>14, <2>1, <2>2 DEF Restart
    <2>4. carry' \in [Users -> [day : Days \cup {0}, frac : 0 .. Per - 1]]
      BY <1>14, CostAssumption DEF Restart
    <2>5. \A u \in Users, d \in Days : Cardinality(Unsettled(u, d)) \in Nat
      BY FS_Subset, FS_CardinalityType, CostAssumption DEF Unsettled
    <2>6. slips' \in [Users -> [Days -> Nat]]
      BY <1>14, <2>5 DEF Restart, TypeOK
    <2>7. QED BY <2>3, <2>4, <2>6, <1>0, <1>14, FaultType DEF Restart, TypeOK
  <1>15. CASE UNCHANGED vars
    BY <1>15 DEF vars, ghosts, TypeOK
  <1>16. QED
    BY <1>1, <1>2, <1>3, <1>4, <1>5, <1>6, <1>7, <1>8, <1>9, <1>10, <1>11, <1>12, <1>13,
       <1>14, <1>15 DEF Next

LEMMA InitType == Init => TypeOK
  BY CostAssumption DEF Init, TypeOK, NewCall, NoSlice, CallStates, Slices, Days

(* The type invariant of the gates holds.                                  *)
THEOREM TypeCorrect == Spec => []TypeOK
  BY InitType, TypeStep, PTL DEF Spec

-----------------------------------------------------------------------------
(* What a step does to the records.                                        *)

LEMMA OnlyOne ==
    ASSUME TypeOK, NEW c \in Calls, NEW k, Step(c, k)
    PROVE  call'[c] = k /\ \A b \in Calls \ {c} : call'[b] = call[b]
  BY DEF TypeOK, Step

(* A record that moves on keeps its fields; one that is over keeps them if *)
(* the call was granted something.                                         *)
LEMMA MovedFields ==
    ASSUME NEW k \in CallStates, NEW pc
    PROVE  /\ Moved(k, pc).pc = pc
           /\ Moved(k, pc).granted = k.granted
           /\ pc \notin {"done", "refused"} \/ k.granted # "no" =>
                 /\ Moved(k, pc).user = k.user /\ Moved(k, pc).reserved = k.reserved
                 /\ Moved(k, pc).slice = k.slice /\ Moved(k, pc).gslice = k.gslice
                 /\ Moved(k, pc).est = k.est
                 /\ Moved(k, pc).spent = k.spent /\ Moved(k, pc).gate = k.gate
           /\ pc \notin {"done", "refused"} =>
                 Moved(k, pc).phase = k.phase /\ Moved(k, pc).amount = k.amount
           /\ pc \in {"done", "refused"} /\ k.granted = "no" =>
                 /\ Moved(k, pc).slice.day = 0 /\ Moved(k, pc).gslice.day = 0
                 /\ Moved(k, pc).spent = 0
  <1>1. CASE pc \in {"done", "refused"} /\ k.granted = "no"
    BY <1>1 DEF Moved, Over, NewCall, NoSlice
  <1>2. CASE pc \in {"done", "refused"} /\ k.granted # "no"
    BY <1>2 DEF Moved, Over, CallStates
  <1>3. CASE pc \notin {"done", "refused"}
    BY <1>3 DEF Moved, CallStates
  <1>4. QED BY <1>1, <1>2, <1>3

(* No call gets a new slice of a user's ledger, or of the service's.       *)
QuietUser ==
    \A b \in Calls : call'[b].slice.day # 0 =>
        call'[b].slice = call[b].slice /\ call'[b].user = call[b].user

QuietService ==
    \A b \in Calls : call'[b].gslice.day # 0 => call'[b].gslice = call[b].gslice

Quiet(k, m) ==
    /\ m.slice.day # 0 => m.slice = k.slice /\ m.user = k.user
    /\ m.gslice.day # 0 => m.gslice = k.gslice

LEMMA QuietStep ==
    ASSUME TypeOK, NEW c \in Calls, NEW m, Step(c, m), Quiet(call[c], m)
    PROVE  QuietUser /\ QuietService
  BY OnlyOne DEF Quiet, QuietUser, QuietService

LEMMA MovedQuiet ==
    ASSUME TypeOK, NEW c \in Calls, NEW pc, Goto(c, pc)
    PROVE  QuietUser /\ QuietService
  <1>1. call[c] \in CallStates
    BY DEF TypeOK
  <1>2. Quiet(call[c], Moved(call[c], pc))
    BY <1>1, MovedFields DEF Quiet
  <1>3. QED BY <1>2, QuietStep DEF Goto

LedgersGrow ==
    /\ \A u \in Users, d \in Days : ledger[u][d] <= ledger'[u][d]
    /\ \A d \in Days : total[d] <= total'[d]

LEMMA PostGrows ==
    ASSUME TypeOK, NEW c \in Calls, call[c].user # NoUser, call[c].day # 0, Post(c)
    PROVE  \A u \in Users, d \in Days : ledger[u][d] <= ledger'[u][d]
  <1>1. call[c].user \in Users /\ call[c].day \in Days /\ Whole(c) \in Nat
    BY RestType DEF TypeOK, CallStates
  <1>2. ledger \in [Users -> [Days -> Nat]]
    BY DEF TypeOK
  <1>3. QED BY <1>1, <1>2 DEF Post

(* A slice added to a day lies above every older one.                      *)
LEMMA Ledgers ==
    ASSUME TypeOK, [Next]_vars
    PROVE  LedgersGrow
  <1> DEFINE Same == UNCHANGED <<ledger, total>>
  <1>1. Same => LedgersGrow
    BY DEF LedgersGrow, TypeOK
  <1>2. ASSUME NEW c \in Calls, Charge(c) \/ ChargeFails(c) PROVE LedgersGrow
    <2>1. call[c].user # NoUser /\ call[c].day # 0
      BY <1>2 DEF TypeOK, Charge, ChargeFails
    <2>2. UNCHANGED total
      BY <1>2 DEF Charge, ChargeFails
    <2>3. CASE Post(c)
      BY <2>1, <2>2, <2>3, PostGrows DEF LedgersGrow, TypeOK
    <2>4. CASE UNCHANGED ledger
      BY <2>2, <2>4, <1>1
    <2>5. QED BY <1>2, <2>3, <2>4 DEF Charge, ChargeFails
  <1>3. ASSUME NEW c \in Calls, ChargeCeiling(c) \/ ChargeCeilingFails(c) PROVE LedgersGrow
    <2>1. call[c].amount \in Nat /\ total \in [Days -> Nat] /\ day \in Days
      BY DEF TypeOK, CallStates
    <2>2. UNCHANGED ledger
      BY <1>3 DEF ChargeCeiling, ChargeCeilingFails
    <2>3. UNCHANGED total \/ total' = [total EXCEPT ![day] = total[day] + call[c].amount]
      BY <1>3 DEF ChargeCeiling, ChargeCeilingFails
    <2>4. QED BY <2>1, <2>2, <2>3 DEF LedgersGrow, TypeOK
  <1>4. ASSUME NEW c \in Calls,
               \/ \E u \in Users \cup {NoUser}, reserved, own \in BOOLEAN, est \in Prices :
                    Begin(c, u, reserved, own, est)
               \/ checkGlobalCostGate(c)
               \/ \E cap \in {FullCap, FreeCap} : checkCostGate(c, cap)
               \/ GateReadFails(c)
               \/ ReadCarry(c)
               \/ \E cap \in {FullCap, FreeCap} : Settle(c, cap)
               \/ RunUnsettled(c)
               \/ \E cost \in Costs : RunOnServerKey(c, cost)
        PROVE  Same
    BY <1>4 DEF Begin, checkGlobalCostGate, checkCostGate, GateReadFails, ReadCarry, Settle,
                RunUnsettled, RunOnServerKey
  <1>5. NextDay \/ Restart \/ UNCHANGED vars => Same
    BY DEF NextDay, Restart, vars
  <1>6. QED BY <1>1, <1>2, <1>3, <1>4, <1>5 DEF Next

(* Only Charge adds a slice of a user's day, only ChargeCeiling one of the *)
(* service's.                                                              *)
LEMMA Quietly ==
    ASSUME TypeOK, [Next]_vars
    PROVE  /\ QuietUser \/ \E c \in Calls : Charge(c)
           /\ QuietService \/ \E c \in Calls : ChargeCeiling(c)
  <1>0. \A c \in Calls : call[c] \in CallStates
    BY DEF TypeOK
  <1>1. ASSUME NEW c \in Calls, NEW u \in Users \cup {NoUser},
               NEW reserved \in BOOLEAN, NEW own \in BOOLEAN, NEW est \in Prices,
               Begin(c, u, reserved, own, est)
        PROVE  QuietUser /\ QuietService
    <2> DEFINE s == IF u # NoUser /\ Spent(u, reserved) THEN day ELSE 0
               k == [NewCall EXCEPT !.pc = IF own THEN "usergate" ELSE "gate", !.user = u,
                                    !.reserved = reserved, !.own = own, !.est = est,
                                    !.amount = est, !.spent = s]
    <2>1. Step(c, k)
      BY <1>1 DEF Begin
    <2>2. k.slice.day = 0 /\ k.gslice.day = 0
      BY DEF NewCall, NoSlice
    <2> HIDE DEF k
    <2>3. Quiet(call[c], k)
      BY <2>2 DEF Quiet
    <2>4. QED BY <2>1, <2>3, QuietStep
  <1>2. ASSUME NEW c \in Calls, NEW pc, Goto(c, pc) PROVE QuietUser /\ QuietService
    BY <1>2, MovedQuiet
  <1>3. ASSUME NEW c \in Calls, NEW cap \in {FullCap, FreeCap}, checkCostGate(c, cap)
        PROVE  QuietUser /\ QuietService
    <2> DEFINE over == ledger[call[c].user][day] >= effectiveCap(cap, call[c].reserved)
               g == IF ~call[c].own THEN "no" ELSE IF over THEN "ownonly" ELSE "own"
               k == [call[c] EXCEPT !.granted = g, !.gate = day]
               pc == IF call[c].own THEN "running" ELSE IF over THEN "refused" ELSE "charge"
    <2>1. Step(c, Moved(k, pc))
      BY <1>3 DEF checkCostGate
    <2>2. g \in {"no", "ownonly", "own"} /\ day \in Days
      BY DEF TypeOK
    <2> HIDE DEF g, pc
    <2>3. /\ k \in CallStates
          /\ k.slice = call[c].slice /\ k.gslice = call[c].gslice /\ k.user = call[c].user
      BY <1>0, <2>2 DEF CallStates
    <2> HIDE DEF k
    <2>4. Quiet(call[c], Moved(k, pc))
      BY <2>3, MovedFields DEF Quiet
    <2>5. QED BY <2>1, <2>4, QuietStep
  <1>4. ASSUME NEW c \in Calls, ReadCarry(c) PROVE QuietUser /\ QuietService
    <2> DEFINE k == [call[c] EXCEPT !.pc = "charging", !.day = day,
                                    !.prior = CarryOf(call[c].user, day)]
    <2>1. Step(c, k)
      BY <1>4 DEF ReadCarry
    <2>2. Quiet(call[c], k)
      BY <1>0 DEF Quiet, CallStates
    <2> HIDE DEF k
    <2>3. QED BY <2>1, <2>2, QuietStep
  <1>5. ASSUME NEW c \in Calls, Charge(c) PROVE QuietService
    <2> DEFINE k == [call[c] EXCEPT
                        !.pc = "charged",
                        !.slice = IF call[c].phase = "pre" THEN Slice(c) ELSE call[c].slice]
    <2>1. Step(c, k)
      BY <1>5 DEF Charge
    <2>2. k.gslice = call[c].gslice
      BY <1>0 DEF CallStates
    <2> HIDE DEF k
    <2>3. QED BY <2>1, <2>2, OnlyOne DEF QuietService
  <1>6. ASSUME NEW c \in Calls, ChargeCeiling(c) PROVE QuietUser
    <2> DEFINE pc == AfterCeiling(c, call[c].amount > 0 /\ total[day] + call[c].amount >= Ceiling)
               g == IF pc = "running" THEN "billed" ELSE call[c].granted
               s == IF call[c].phase = "pre" THEN GlobalSlice(c) ELSE call[c].gslice
               k == [call[c] EXCEPT !.granted = g, !.gslice = s]
    <2>1. Step(c, Moved(k, pc))
      BY <1>6 DEF ChargeCeiling
    <2>2. s \in Slices /\ g \in {"no", "billed", "own", "ownonly"}
      BY <1>0, GlobalSliceType DEF CallStates
    <2> HIDE DEF g, s, pc
    <2>3. /\ k \in CallStates
          /\ k.slice = call[c].slice /\ k.user = call[c].user
      BY <1>0, <2>2 DEF CallStates
    <2> HIDE DEF k
    <2>4. Moved(k, pc).slice.day # 0 =>
            Moved(k, pc).slice = call[c].slice /\ Moved(k, pc).user = call[c].user
      BY <2>3, MovedFields
    <2>5. QED BY <2>1, <2>4, OnlyOne DEF QuietUser
  <1>7. ASSUME NEW c \in Calls, NEW cost \in Costs, RunOnServerKey(c, cost)
        PROVE  QuietUser /\ QuietService
    <2> DEFINE delta == cost - (IF call[c].own THEN 0 ELSE call[c].est)
               k == [call[c] EXCEPT
                        !.pc = IF call[c].user = NoUser THEN "gcharge" ELSE "charge",
                        !.phase = "true", !.amount = delta]
    <2>1. CASE delta <= 0
      <3>1. Goto(c, "done")
        BY <1>7, <2>1 DEF RunOnServerKey
      <3>2. QED BY <3>1, <1>2
    <2>2. CASE ~(delta <= 0)
      <3>1. Step(c, k)
        BY <1>7, <2>2 DEF RunOnServerKey
      <3>2. Quiet(call[c], k)
        BY <1>0 DEF Quiet, CallStates
      <3> HIDE DEF k
      <3>3. QED BY <3>1, <3>2, QuietStep
    <2>3. QED BY <2>1, <2>2
  <1>8. ASSUME Restart PROVE QuietUser /\ QuietService
    <2>1. \A b \in Calls : call'[b] \in {call[b], Over(call[b], "done")}
      BY <1>8 DEF Restart
    <2>2. \A b \in Calls : Moved(call[b], "done") = Over(call[b], "done")
      BY DEF Moved
    <2>3. \A b \in Calls : Quiet(call[b], Over(call[b], "done"))
      BY <1>0, <2>2, MovedFields DEF Quiet
    <2>4. QED BY <2>1, <2>3 DEF Quiet, QuietUser, QuietService
  <1>9. ASSUME UNCHANGED call PROVE QuietUser /\ QuietService
    BY <1>9 DEF QuietUser, QuietService
  <1>10. \A c \in Calls :
           /\ checkGlobalCostGate(c) \/ GateReadFails(c) \/ ChargeFails(c)
                \/ ChargeCeilingFails(c) \/ RunUnsettled(c) => \E pc : Goto(c, pc)
           /\ \A cap \in {FullCap, FreeCap} : Settle(c, cap) => \E pc : Goto(c, pc)
    BY DEF checkGlobalCostGate, GateReadFails, ChargeFails, ChargeCeilingFails, RunUnsettled,
           Settle
  <1>11. NextDay \/ UNCHANGED vars => UNCHANGED call
    BY DEF NextDay, vars
  <1>12. QED
    BY <1>1, <1>2, <1>3, <1>4, <1>5, <1>6, <1>7, <1>8, <1>9, <1>10, <1>11 DEF Next

-----------------------------------------------------------------------------
(* The slices.                                                             *)

(* A new slice starts at the ledger, so above all older slices of its day. *)
LEMMA StackedStep ==
    ASSUME TypeOK, [Next]_vars, Stacked
    PROVE  Stacked'
  <1>0. /\ \A c \in Calls : call[c] \in CallStates
        /\ ledger \in [Users -> [Days -> Nat]]
    BY DEF TypeOK
  <1>1. \A u \in Users, d \in Days :
            /\ ledger[u][d] \in Nat /\ ledger'[u][d] \in Nat
            /\ ledger[u][d] <= ledger'[u][d]
    BY <1>0, Ledgers, TypeStep DEF LedgersGrow, TypeOK
  <1>2. \A c \in Calls : /\ call[c].slice.to \in Nat
                         /\ call[c].user # NoUser => call[c].user \in Users
    BY <1>0 DEF CallStates, Slices
  <1>3. ASSUME NEW c \in Calls, call[c].slice.day # 0
        PROVE  call[c].slice.to <= ledger'[call[c].user][call[c].slice.day]
    <2>1. /\ call[c].user \in Users /\ call[c].slice.day \in Days
          /\ call[c].slice.to <= ledger[call[c].user][call[c].slice.day]
      BY <1>2, <1>3 DEF Stacked
    <2>2. QED BY <2>1, <1>1, <1>2
  <1>4. CASE QuietUser
    <2> SUFFICES ASSUME NEW c \in Calls, call'[c].slice.day # 0
                 PROVE  /\ call'[c].user # NoUser
                        /\ call'[c].slice.day \in Days
                        /\ call'[c].slice.to <= ledger'[call'[c].user][call'[c].slice.day]
                        /\ \A b \in Calls \ {c} :
                              call'[b].slice.day # 0 /\ call'[b].user = call'[c].user =>
                                  Apart(call'[b].slice, call'[c].slice)
      BY DEF Stacked
    <2>1. call'[c].slice = call[c].slice /\ call'[c].user = call[c].user
      BY <1>4 DEF QuietUser
    <2>2. QED BY <2>1, <1>3, <1>4 DEF QuietUser, Stacked
  <1>5. ASSUME NEW c \in Calls, Charge(c) PROVE Stacked'
    <2> DEFINE u == call[c].user
               d == call[c].day
               s == IF call[c].phase = "pre" THEN Slice(c) ELSE call[c].slice
               k == [call[c] EXCEPT !.pc = "charged", !.slice = s]
    <2>1. Step(c, k) /\ Post(c) /\ call[c].pc = "charging"
      BY <1>5 DEF Charge
    <2>2. k.slice = s /\ k.user = u
      BY <1>0 DEF CallStates
    <2> HIDE DEF k
    <2>3. call'[c].slice = s /\ call'[c].user = u /\ \A b \in Calls \ {c} : call'[b] = call[b]
      BY <2>1, <2>2, OnlyOne
    <2>4. CASE call[c].phase # "pre"
      BY <1>4, <2>3, <2>4 DEF QuietUser
    <2>5. CASE call[c].phase = "pre"
      <3>1. u # NoUser /\ u \in Users /\ d \in Days /\ Whole(c) \in Nat
        BY <1>0, <2>1, RestType DEF TypeOK, CallStates
      <3>2. ledger'[u][d] = ledger[u][d] + Whole(c)
        BY <1>0, <2>1, <3>1 DEF Post
      <3>3. s.day = d /\ s.from = ledger[u][d] /\ s.to = ledger[u][d] + Whole(c)
        BY <2>5 DEF Slice
      <3> HIDE DEF s
      <3>4. ASSUME NEW b \in Calls \ {c}, call[b].slice.day # 0, call[b].user = u
            PROVE  Apart(call[b].slice, s) /\ Apart(s, call[b].slice)
        <4>1. call[b].slice.to <= ledger[u][call[b].slice.day]
          BY <3>4 DEF Stacked
        <4>2. QED BY <4>1, <3>3 DEF Apart
      <3>5. s.to <= ledger'[u][d]
        BY <3>1, <3>2, <3>3, <1>1
      <3>6. QED BY <2>3, <3>1, <3>3, <3>4, <3>5, <1>3 DEF Stacked
    <2>6. QED BY <2>4, <2>5
  <1>6. QED BY <1>4, <1>5, Quietly

LEMMA GlobalStackedStep ==
    ASSUME TypeOK, [Next]_vars, GlobalStacked
    PROVE  GlobalStacked'
  <1>0. /\ \A c \in Calls : call[c] \in CallStates
        /\ total \in [Days -> Nat] /\ day \in Days
    BY DEF TypeOK
  <1>1. \A d \in Days : total[d] \in Nat /\ total'[d] \in Nat /\ total[d] <= total'[d]
    BY <1>0, Ledgers, TypeStep DEF LedgersGrow, TypeOK
  <1>2. \A c \in Calls : call[c].gslice.to \in Nat
    BY <1>0 DEF CallStates, Slices
  <1>3. ASSUME NEW c \in Calls, call[c].gslice.day # 0
        PROVE  call[c].gslice.to <= total'[call[c].gslice.day]
    BY <1>1, <1>2, <1>3 DEF GlobalStacked
  <1>4. CASE QuietService
    <2> SUFFICES ASSUME NEW c \in Calls, call'[c].gslice.day # 0
                 PROVE  /\ call'[c].gslice.day \in Days
                        /\ call'[c].gslice.to <= total'[call'[c].gslice.day]
                        /\ \A b \in Calls \ {c} : call'[b].gslice.day # 0 =>
                              Apart(call'[b].gslice, call'[c].gslice)
      BY DEF GlobalStacked
    <2>1. call'[c].gslice = call[c].gslice
      BY <1>4 DEF QuietService
    <2>2. QED BY <2>1, <1>3, <1>4 DEF QuietService, GlobalStacked
  <1>5. ASSUME NEW c \in Calls, ChargeCeiling(c) PROVE GlobalStacked'
    <2> DEFINE pc == AfterCeiling(c, call[c].amount > 0 /\ total[day] + call[c].amount >= Ceiling)
               g == IF pc = "running" THEN "billed" ELSE call[c].granted
               s == IF call[c].phase = "pre" THEN GlobalSlice(c) ELSE call[c].gslice
               k == [call[c] EXCEPT !.granted = g, !.gslice = s]
    <2>1. Step(c, Moved(k, pc)) /\ total' = [total EXCEPT ![day] = total[day] + call[c].amount]
      BY <1>5 DEF ChargeCeiling
    <2>2. s \in Slices /\ g \in {"no", "billed", "own", "ownonly"}
      BY <1>0, GlobalSliceType DEF CallStates
    <2> HIDE DEF g, pc, s
    <2>3. k \in CallStates /\ k.gslice = s
      BY <1>0, <2>2 DEF CallStates
    <2> HIDE DEF k
    <2>4. Moved(k, pc).gslice.day # 0 => Moved(k, pc).gslice = s
      BY <2>3, MovedFields
    <2>5. /\ call'[c].gslice.day # 0 => call'[c].gslice = s
          /\ \A b \in Calls \ {c} : call'[b] = call[b]
      BY <2>1, <2>4, OnlyOne
    <2>6. CASE call[c].phase # "pre"
      BY <1>4, <2>5, <2>6 DEF QuietService, s
    <2>7. CASE call[c].phase = "pre"
      <3>1. call[c].amount \in Nat
        BY <1>0 DEF CallStates
      <3>2. total'[day] = total[day] + call[c].amount
        BY <1>0, <2>1, <3>1
      <3>3. s.day = day /\ s.from = total[day] /\ s.to = total[day] + call[c].amount
        BY <2>7 DEF s, GlobalSlice
      <3>4. ASSUME NEW b \in Calls \ {c}, call[b].gslice.day # 0
            PROVE  Apart(call[b].gslice, s) /\ Apart(s, call[b].gslice)
        <4>1. call[b].gslice.to <= total[call[b].gslice.day]
          BY <3>4 DEF GlobalStacked
        <4>2. QED BY <4>1, <3>3 DEF Apart
      <3>5. s.to <= total'[day]
        BY <1>0, <3>2, <3>3, <1>1
      <3>6. QED BY <1>0, <2>5, <3>3, <3>4, <3>5, <1>3 DEF GlobalStacked
    <2>8. QED BY <2>6, <2>7
  <1>6. QED BY <1>4, <1>5, Quietly

-----------------------------------------------------------------------------
(* What each step keeps of the record of its call.                         *)

(* A call that ends, granted something or nothing, keeps its lines.        *)
LEMMA EndKeeps ==
    ASSUME NEW k \in CallStates, Admission(k), NEW pc \in {"done", "refused"}
    PROVE  Admission(Moved(k, pc))
  <1>1. CASE k.granted = "no"
    <2> DEFINE m == Moved(k, pc)
    <2>1. m.granted = "no" /\ m.pc = pc
      BY <1>1, MovedFields
    <2> HIDE DEF m
    <2>2. Admission(m)
      BY <2>1 DEF Admission, InOrder, PreBill, Past, UnderTheLine, UnderTheCeiling
    <2>3. QED BY <2>2 DEF m
  <1>2. CASE k.granted # "no"
    <2> DEFINE m == Moved(k, pc)
    <2>1. /\ m.granted = k.granted /\ m.pc = pc /\ m.slice = k.slice /\ m.gslice = k.gslice
          /\ m.user = k.user /\ m.reserved = k.reserved /\ m.est = k.est
      BY <1>2, MovedFields
    <2> HIDE DEF m
    <2>2. Admission(m)
      BY <2>1 DEF Admission, InOrder, PreBill, Past, UnderTheLine, UnderTheCeiling
    <2>3. QED BY <2>2 DEF m
  <1>3. QED BY <1>1, <1>2

(* A call that is let through the whole way keeps them too.                *)
LEMMA GoOnKeeps ==
    ASSUME NEW k \in CallStates, NEW pc, pc \notin {"done", "refused"},
           Admission([k EXCEPT !.pc = pc])
    PROVE  Admission(Moved(k, pc))
  BY DEF Moved

LEMMA RestartKeeps ==
    ASSUME NEW k \in CallStates, Admission(k)
    PROVE  Admission(Over(k, "done"))
  <1>1. Moved(k, "done") = Over(k, "done")
    BY DEF Moved
  <1>2. QED BY <1>1, EndKeeps

LEMMA CapFound ==
    ASSUME NEW u, NEW cap, resolveCapCents(u, cap)
    PROVE  cap \in CapsOf(u)
  BY DEF resolveCapCents, CapsOf, Fault

LEMMA AdmissionsStep ==
    ASSUME TypeOK, Admissions, [Next]_vars
    PROVE  Admissions'
  <1>0. \A c \in Calls : call[c] \in CallStates /\ Admission(call[c])
    BY DEF TypeOK, Admissions
  <1> USE DEF Past, PreBill, InOrder
  <1>s. ASSUME NEW c \in Calls, NEW k, Step(c, k), Admission(k) PROVE Admissions'
    BY <1>s, <1>0, OnlyOne DEF Admissions
  <1>e. ASSUME NEW c \in Calls, NEW pc \in {"done", "refused"}, Goto(c, pc) PROVE Admissions'
    BY <1>e, <1>0, <1>s, EndKeeps DEF Goto
  <1>g. ASSUME NEW c \in Calls, NEW pc, pc \notin {"done", "refused"}, Goto(c, pc),
               Admission([call[c] EXCEPT !.pc = pc])
        PROVE  Admissions'
    BY <1>g, <1>0, <1>s, GoOnKeeps DEF Goto
  <1>1. ASSUME NEW c \in Calls, NEW u \in Users \cup {NoUser},
               NEW reserved \in BOOLEAN, NEW own \in BOOLEAN, NEW est \in Prices,
               Begin(c, u, reserved, own, est)
        PROVE  Admissions'
    <2> DEFINE s == IF u # NoUser /\ Spent(u, reserved) THEN day ELSE 0
               pc == IF own THEN "usergate" ELSE "gate"
               k == [NewCall EXCEPT !.pc = pc, !.user = u, !.reserved = reserved, !.own = own,
                                    !.est = est, !.amount = est, !.spent = s]
    <2>1. Step(c, k)
      BY <1>1 DEF Begin
    <2>2. k.phase = "pre" /\ k.granted = "no" /\ k.amount = k.est /\ k.slice.day = 0
            /\ k.pc \in {"gate", "usergate"}
      BY DEF NewCall, NoSlice
    <2> HIDE DEF k
    <2>3. Admission(k)
      BY <2>2 DEF Admission, UnderTheLine, UnderTheCeiling
    <2>4. QED BY <2>1, <2>3, <1>s
  <1>2. ASSUME NEW c \in Calls, checkGlobalCostGate(c) PROVE Admissions'
    <2>1. call[c].pc = "gate"
      BY <1>2 DEF checkGlobalCostGate
    <2>2. PICK pc \in {"refused", "gcharge", "usergate"} :
             Goto(c, pc) /\ (pc = "gcharge" => call[c].user = NoUser)
      BY <1>2 DEF checkGlobalCostGate
    <2>3. CASE pc = "refused"
      BY <2>2, <2>3, <1>e
    <2>4. CASE pc # "refused"
      <3> DEFINE k == [call[c] EXCEPT !.pc = pc]
      <3>1. /\ k.pc = pc /\ k.phase = call[c].phase /\ k.granted = call[c].granted
            /\ k.amount = call[c].amount /\ k.est = call[c].est /\ k.slice = call[c].slice
            /\ k.user = call[c].user
        BY <1>0 DEF CallStates
      <3> HIDE DEF k
      <3>2. Admission(k)
        BY <3>1, <2>1, <2>2, <2>4, <1>0 DEF Admission, UnderTheLine, UnderTheCeiling
      <3>3. QED BY <3>2, <2>2, <2>4, <1>g DEF k
    <2>5. QED BY <2>3, <2>4
  <1>3. ASSUME NEW c \in Calls, NEW cap \in {FullCap, FreeCap}, checkCostGate(c, cap)
        PROVE  Admissions'
    <2> DEFINE over == ledger[call[c].user][day] >= effectiveCap(cap, call[c].reserved)
               g == IF ~call[c].own THEN "no" ELSE IF over THEN "ownonly" ELSE "own"
               k == [call[c] EXCEPT !.granted = g, !.gate = day]
               pc == IF call[c].own THEN "running" ELSE IF over THEN "refused" ELSE "charge"
    <2>1. call[c].pc = "usergate" /\ Step(c, Moved(k, pc))
      BY <1>3 DEF checkCostGate
    <2>2. /\ g \in {"no", "ownonly", "own"} /\ pc \in {"running", "refused", "charge"}
          /\ day \in Days /\ (pc # "running" => g = "no")
      BY DEF TypeOK
    <2> HIDE DEF g, pc
    <2>3. /\ k \in CallStates /\ k.granted = g /\ k.phase = call[c].phase
          /\ k.pc = call[c].pc /\ k.amount = call[c].amount /\ k.est = call[c].est
          /\ k.slice = call[c].slice
      BY <1>0, <2>2 DEF CallStates
    <2> HIDE DEF k
    <2> DEFINE m == Moved(k, pc)
    <2>4. /\ m.pc = pc /\ m.granted = g
          /\ pc # "refused" => /\ m.slice = call[c].slice /\ m.phase = call[c].phase
                               /\ m.amount = call[c].amount /\ m.est = call[c].est
      BY <2>2, <2>3, MovedFields
    <2> HIDE DEF m
    <2>5. Admission(m)
      BY <2>1, <2>2, <2>4, <1>0 DEF Admission, UnderTheLine, UnderTheCeiling
    <2>6. QED BY <2>1, <2>5, <1>s DEF m
  <1>4. ASSUME NEW c \in Calls, ReadCarry(c) PROVE Admissions'
    <2> DEFINE k == [call[c] EXCEPT !.pc = "charging", !.day = day,
                                    !.prior = CarryOf(call[c].user, day)]
    <2>1. Step(c, k) /\ call[c].pc = "charge"
      BY <1>4 DEF ReadCarry
    <2>2. /\ k.pc = "charging" /\ k.phase = call[c].phase /\ k.granted = call[c].granted
          /\ k.amount = call[c].amount /\ k.est = call[c].est /\ k.slice = call[c].slice
          /\ k.user = call[c].user /\ k.reserved = call[c].reserved
          /\ k.gslice = call[c].gslice
      BY <1>0 DEF CallStates
    <2> HIDE DEF k
    <2>3. Admission(k)
      BY <2>1, <2>2, <1>0 DEF Admission, UnderTheLine, UnderTheCeiling
    <2>4. QED BY <2>1, <2>3, <1>s
  <1>5. ASSUME NEW c \in Calls, Charge(c) PROVE Admissions'
    <2> DEFINE s == IF call[c].phase = "pre" THEN Slice(c) ELSE call[c].slice
               k == [call[c] EXCEPT !.pc = "charged", !.slice = s]
    <2>1. Step(c, k) /\ call[c].pc = "charging"
      BY <1>5 DEF Charge
    <2>2. /\ k.pc = "charged" /\ k.phase = call[c].phase /\ k.granted = call[c].granted
          /\ k.amount = call[c].amount /\ k.est = call[c].est /\ k.slice = s
          /\ k.user = call[c].user /\ k.reserved = call[c].reserved
          /\ k.gslice = call[c].gslice
      BY <1>0 DEF CallStates
    <2>3. call[c].phase = "pre" => s.day # 0
      BY <2>1 DEF Slice, TypeOK
    <2>4. call[c].phase # "pre" => s = call[c].slice
      OBVIOUS
    <2> HIDE DEF s, k
    <2>5. Admission(k)
      BY <2>1, <2>2, <2>3, <2>4, <1>0 DEF Admission, UnderTheLine, UnderTheCeiling
    <2>6. QED BY <2>1, <2>5, <1>s
  <1>6. ASSUME NEW c \in Calls, ChargeFails(c) PROVE Admissions'
    <2>1. call[c].pc = "charging" /\ Goto(c, "gcharge") /\ "ledger" \in Faults
      BY <1>6 DEF ChargeFails, Fault
    <2> DEFINE k == [call[c] EXCEPT !.pc = "gcharge"]
    <2>2. /\ k.pc = "gcharge" /\ k.phase = call[c].phase /\ k.granted = call[c].granted
          /\ k.amount = call[c].amount /\ k.est = call[c].est /\ k.slice = call[c].slice
          /\ k.user = call[c].user /\ k.reserved = call[c].reserved
          /\ k.gslice = call[c].gslice
      BY <1>0 DEF CallStates
    <2> HIDE DEF k
    <2>3. Admission(k)
      BY <2>1, <2>2, <1>0 DEF Admission, UnderTheLine, UnderTheCeiling
    <2>4. QED BY <2>1, <2>3, <1>g DEF k
  <1>7. ASSUME NEW c \in Calls, NEW cap \in {FullCap, FreeCap}, Settle(c, cap)
        PROVE  Admissions'
    <2>1. call[c].pc = "charged" /\ cap \in CapsOf(call[c].user)
      BY <1>7, CapFound DEF Settle
    <2>2. PICK pc \in {"refused", "gcharge"} :
             /\ Goto(c, pc)
             /\ pc = "gcharge" /\ call[c].phase = "pre" =>
                   ~(call[c].slice.to > effectiveCap(cap, call[c].reserved))
      BY <1>7 DEF Settle
    <2>3. CASE pc = "refused"
      BY <2>2, <2>3, <1>e
    <2>4. CASE pc = "gcharge"
      <3> DEFINE k == [call[c] EXCEPT !.pc = "gcharge"]
      <3>1. /\ k.pc = "gcharge" /\ k.phase = call[c].phase /\ k.granted = call[c].granted
            /\ k.amount = call[c].amount /\ k.est = call[c].est /\ k.slice = call[c].slice
            /\ k.user = call[c].user /\ k.reserved = call[c].reserved
            /\ k.gslice = call[c].gslice
        BY <1>0 DEF CallStates
      <3>2. call[c].slice.to \in Nat /\ effectiveCap(cap, call[c].reserved) \in Int
        <4>1. call[c].slice.to \in Nat
          BY <1>0 DEF CallStates, Slices
        <4>2. cap \in Nat /\ cap \div 2 \in Nat
          BY CostAssumption
        <4>3. QED BY <4>1, <4>2, CostAssumption DEF effectiveCap, reserveCents
      <3> HIDE DEF k
      <3>3. Admission(k)
        BY <2>1, <2>2, <2>4, <3>1, <3>2, <1>0 DEF Admission, UnderTheLine, UnderTheCeiling
      <3>4. QED BY <3>3, <2>2, <2>4, <1>g DEF k
    <2>5. QED BY <2>2, <2>3, <2>4
  <1>8. ASSUME NEW c \in Calls, ChargeCeiling(c) PROVE Admissions'
    <2> DEFINE pc == AfterCeiling(c, call[c].amount > 0 /\ total[day] + call[c].amount >= Ceiling)
               g == IF pc = "running" THEN "billed" ELSE call[c].granted
               s == IF call[c].phase = "pre" THEN GlobalSlice(c) ELSE call[c].gslice
               k == [call[c] EXCEPT !.granted = g, !.gslice = s]
    <2>1. Step(c, Moved(k, pc)) /\ call[c].pc = "gcharge"
      BY <1>8 DEF ChargeCeiling
    <2>2. pc \in {"done", "refused", "running"}
      BY DEF AfterCeiling
    <2>3. /\ s \in Slices /\ g \in {"no", "billed", "own", "ownonly"}
          /\ (pc # "running" => g = call[c].granted) /\ (pc = "running" => g = "billed")
      BY <1>0, GlobalSliceType DEF CallStates
    <2>4. pc = "running" =>
            /\ call[c].phase = "pre"
            /\ ~(call[c].amount > 0 /\ total[day] + call[c].amount >= Ceiling)
      BY <1>0 DEF AfterCeiling, CallStates
    <2>5. /\ call[c].phase = "pre" => s = GlobalSlice(c)
          /\ call[c].phase # "pre" => s = call[c].gslice
      OBVIOUS
    <2> HIDE DEF g, pc, s
    <2>6. /\ k \in CallStates /\ k.granted = g /\ k.gslice = s /\ k.phase = call[c].phase
          /\ k.pc = call[c].pc /\ k.amount = call[c].amount /\ k.est = call[c].est
          /\ k.slice = call[c].slice /\ k.user = call[c].user
          /\ k.reserved = call[c].reserved
      BY <1>0, <2>3 DEF CallStates
    <2> HIDE DEF k
    <2>7. CASE pc # "running"
      <3>1. Admission(k)
        BY <1>0, <2>1, <2>3, <2>5, <2>6, <2>7 DEF Admission, UnderTheLine, UnderTheCeiling
      <3>2. QED BY <2>1, <2>2, <2>6, <2>7, <3>1, <1>s, EndKeeps
    <2>8. CASE pc = "running"
      <3> DEFINE m == Moved(k, pc)
      <3>1. /\ m.pc = pc /\ m.granted = g /\ m.slice = call[c].slice /\ m.gslice = s
            /\ m.user = call[c].user /\ m.reserved = call[c].reserved /\ m.est = call[c].est
            /\ m.phase = call[c].phase
        BY <2>6, <2>8, MovedFields
      <3>2. /\ s.day = day /\ day # 0 /\ s.from = total[day]
            /\ s.to = total[day] + call[c].amount /\ call[c].amount = call[c].est
            /\ total[day] \in Nat /\ call[c].amount \in Nat
        <4>1. s = GlobalSlice(c) /\ call[c].amount = call[c].est
          BY <2>1, <2>4, <2>5, <2>8, <1>0 DEF Admission
        <4>2. day \in Days /\ total \in [Days -> Nat] /\ call[c].amount \in Nat
          BY <1>0 DEF TypeOK, CallStates
        <4>3. day # 0 /\ total[day] \in Nat
          BY <4>2 DEF Days
        <4>4. QED BY <4>1, <4>2, <4>3 DEF GlobalSlice
      <3> HIDE DEF m
      <3>3. UnderTheCeiling(m)
        BY <2>4, <2>8, <3>1, <3>2, CostAssumption DEF UnderTheCeiling
      <3>4. Admission(m)
        BY <1>0, <2>1, <2>4, <2>8, <3>1, <3>3 DEF Admission, UnderTheLine
      <3>5. QED BY <2>1, <3>4, <1>s DEF m
    <2>9. QED BY <2>7, <2>8
  <1>9. ASSUME NEW c \in Calls, NEW cost \in Costs, RunOnServerKey(c, cost) PROVE Admissions'
    <2> DEFINE delta == cost - (IF call[c].own THEN 0 ELSE call[c].est)
               pc == IF call[c].user = NoUser THEN "gcharge" ELSE "charge"
               k == [call[c] EXCEPT !.pc = pc, !.phase = "true", !.amount = delta]
    <2>1. CASE delta <= 0
      BY <1>9, <2>1, <1>e DEF RunOnServerKey
    <2>2. CASE ~(delta <= 0)
      <3>1. Step(c, k)
        BY <1>9, <2>2 DEF RunOnServerKey
      <3> HIDE DEF pc, delta
      <3>2. /\ k.phase = "true" /\ k.granted = call[c].granted /\ k.est = call[c].est
            /\ k.slice = call[c].slice /\ k.user = call[c].user
            /\ k.reserved = call[c].reserved /\ k.gslice = call[c].gslice /\ k.pc = pc
        BY <1>0 DEF CallStates
      <3>3. pc \notin {"new", "gate", "usergate"}
        BY DEF pc
      <3> HIDE DEF k
      <3>4. Admission(k)
        BY <3>2, <3>3, <1>0 DEF Admission, UnderTheLine, UnderTheCeiling
      <3>5. QED BY <3>1, <3>4, <1>s
    <2>3. QED BY <2>1, <2>2
  <1>10. ASSUME NEW c \in Calls, GateReadFails(c) \/ ChargeCeilingFails(c) \/ RunUnsettled(c)
         PROVE  Admissions'
    <2>1. \E pc \in {"done", "refused"} : Goto(c, pc)
      BY <1>10 DEF GateReadFails, ChargeCeilingFails, RunUnsettled, AfterCeiling
    <2>2. QED BY <2>1, <1>e
  <1>11. ASSUME Restart PROVE Admissions'
    <2>1. \A c \in Calls : call'[c] \in {call[c], Over(call[c], "done")}
      BY <1>11 DEF Restart
    <2>2. QED BY <2>1, <1>0, RestartKeeps DEF Admissions
  <1>12. NextDay \/ UNCHANGED vars => Admissions'
    BY DEF NextDay, vars, Admissions
  <1>13. QED
    BY <1>1, <1>2, <1>3, <1>4, <1>5, <1>6, <1>7, <1>8, <1>9, <1>10, <1>11, <1>12 DEF Next

-----------------------------------------------------------------------------
(* Budgets that are gone.                                                  *)

(* What a step does to the three fields that tell a call spent.            *)
SpentKept(k, m) ==
    m.spent # 0 =>
        /\ m.spent = k.spent /\ m.user = k.user /\ m.reserved = k.reserved
        /\ m.gate = k.gate /\ (k.granted = "ownonly" => m.granted = "ownonly")

LEMMA CapsType ==
    ASSUME TypeOK, NEW u, NEW cap \in CapsOf(u), NEW reserved \in BOOLEAN
    PROVE  effectiveCap(cap, reserved) \in Int
  <1>1. cap \in Nat
    BY CostAssumption DEF CapsOf, CapOf
  <1>2. cap \div 2 \in Nat
    BY <1>1
  <1>3. QED BY <1>1, <1>2, CostAssumption DEF effectiveCap, reserveCents

LEMMA SpentStaysStep ==
    ASSUME TypeOK, Admissions, SpentStays, [Next]_vars
    PROVE  SpentStays'
  <1>0. \A c \in Calls : call[c] \in CallStates /\ InOrder(call[c])
    BY DEF TypeOK, Admissions, Admission
  <1> DEFINE Gone(c) ==
        /\ call[c].user # NoUser
        /\ \A cap \in CapsOf(call[c].user) :
              ledger[call[c].user][call[c].spent] >= effectiveCap(cap, call[c].reserved)
  <1> DEFINE Good(m) ==
        m.spent # 0 =>
          /\ m.user # NoUser
          /\ \A cap \in CapsOf(m.user) :
                ledger'[m.user][m.spent] >= effectiveCap(cap, m.reserved)
          /\ m.gate = m.spent => m.granted = "ownonly"
  <1>1. ASSUME NEW c \in Calls, NEW m, m.spent # 0,
               m.spent = call[c].spent, m.user = call[c].user, m.reserved = call[c].reserved
        PROVE  /\ m.user # NoUser
               /\ \A cap \in CapsOf(m.user) :
                     ledger'[m.user][m.spent] >= effectiveCap(cap, m.reserved)
    <2>1. Gone(c)
      BY <1>1 DEF SpentStays
    <2>2. call[c].user \in Users /\ call[c].spent \in Days /\ call[c].reserved \in BOOLEAN
      BY <1>0, <1>1, <2>1 DEF CallStates
    <2>3. /\ ledger[call[c].user][call[c].spent] \in Nat
          /\ ledger'[call[c].user][call[c].spent] \in Nat
          /\ ledger[call[c].user][call[c].spent] <= ledger'[call[c].user][call[c].spent]
      BY <2>2, Ledgers, TypeStep DEF LedgersGrow, TypeOK
    <2>4. \A cap \in CapsOf(call[c].user) : effectiveCap(cap, call[c].reserved) \in Int
      BY <2>2, CapsType
    <2>5. QED BY <1>1, <2>1, <2>3, <2>4
  <1>2. ASSUME NEW c \in Calls, NEW m, SpentKept(call[c], m) PROVE Good(m)
    <2> SUFFICES ASSUME m.spent # 0 PROVE Good(m)
      OBVIOUS
    <2>1. /\ m.spent = call[c].spent /\ m.user = call[c].user
          /\ m.reserved = call[c].reserved /\ m.gate = call[c].gate
          /\ call[c].granted = "ownonly" => m.granted = "ownonly"
      BY <1>2 DEF SpentKept
    <2>2. QED BY <1>1, <2>1 DEF SpentStays
  <1>3. ASSUME \A c \in Calls : Good(call'[c]) PROVE SpentStays'
    BY <1>3 DEF SpentStays
  <1>u. \A b \in Calls : SpentKept(call[b], call[b])
    BY DEF SpentKept
  <1>s. ASSUME NEW c \in Calls, NEW k, Step(c, k), Good(k) PROVE SpentStays'
    <2>1. call'[c] = k /\ \A b \in Calls \ {c} : call'[b] = call[b]
      BY <1>s, OnlyOne
    <2>2. \A b \in Calls \ {c} : Good(call[b])
      BY <1>2, <1>u
    <2> HIDE DEF Good
    <2>3. \A b \in Calls : Good(call'[b])
      BY <2>1, <2>2, <1>s
    <2>4. QED BY <2>3, <1>3
  <1>k. ASSUME NEW c \in Calls, NEW k, Step(c, k), SpentKept(call[c], k) PROVE SpentStays'
    BY <1>k, <1>s, <1>2
  <1>m. \A c \in Calls : \A pc : SpentKept(call[c], Moved(call[c], pc))
    BY <1>0, MovedFields DEF SpentKept
  <1>g. ASSUME NEW c \in Calls, NEW pc, Goto(c, pc) PROVE SpentStays'
    BY <1>g, <1>m, <1>k DEF Goto
  <1>4. ASSUME NEW c \in Calls, NEW u \in Users \cup {NoUser},
               NEW reserved \in BOOLEAN, NEW own \in BOOLEAN, NEW est \in Prices,
               Begin(c, u, reserved, own, est)
        PROVE  SpentStays'
    <2> DEFINE s == IF u # NoUser /\ Spent(u, reserved) THEN day ELSE 0
               k == [NewCall EXCEPT !.pc = IF own THEN "usergate" ELSE "gate", !.user = u,
                                    !.reserved = reserved, !.own = own, !.est = est,
                                    !.amount = est, !.spent = s]
    <2>1. Step(c, k) /\ UNCHANGED ledger
      BY <1>4 DEF Begin
    <2>2. s # 0 => u # NoUser /\ Spent(u, reserved) /\ s = day
      OBVIOUS
    <2> HIDE DEF s
    <2>3. k.user = u /\ k.reserved = reserved /\ k.spent = s /\ k.gate = 0
      BY DEF NewCall
    <2> HIDE DEF k
    <2>4. Good(k)
      BY <2>1, <2>2, <2>3 DEF Spent
    <2>5. QED BY <2>1, <2>4, <1>s
  <1>5. ASSUME NEW c \in Calls, NEW cap \in {FullCap, FreeCap}, checkCostGate(c, cap)
        PROVE  SpentStays'
    <2> DEFINE over == ledger[call[c].user][day] >= effectiveCap(cap, call[c].reserved)
               g == IF ~call[c].own THEN "no" ELSE IF over THEN "ownonly" ELSE "own"
               k == [call[c] EXCEPT !.granted = g, !.gate = day]
               pc == IF call[c].own THEN "running" ELSE IF over THEN "refused" ELSE "charge"
               m == Moved(k, pc)
    <2>1. Step(c, m) /\ cap \in CapsOf(call[c].user) /\ call[c].pc = "usergate"
      BY <1>5, CapFound DEF checkCostGate
    <2>2. ASSUME over PROVE g = "ownonly" \/ (g = "no" /\ pc = "refused")
      <3>1. CASE call[c].own
        BY <2>2, <3>1
      <3>2. CASE ~call[c].own
        BY <2>2, <3>2
      <3>3. QED BY <3>1, <3>2
    <2>3. g \in {"no", "ownonly", "own"} /\ pc \in {"running", "refused", "charge"}
          /\ day \in Days
      BY DEF TypeOK
    <2> HIDE DEF over, g, pc
    <2>4. /\ k \in CallStates /\ k.granted = g /\ k.gate = day /\ k.spent = call[c].spent
          /\ k.user = call[c].user /\ k.reserved = call[c].reserved
      BY <1>0, <2>3 DEF CallStates
    <2> HIDE DEF k
    <2>5. m.spent # 0 =>
            /\ m.spent = call[c].spent /\ m.user = call[c].user
            /\ m.reserved = call[c].reserved /\ m.gate = day /\ m.granted = g
            /\ ~(g = "no" /\ pc = "refused")
      BY <2>4, MovedFields
    <2> HIDE DEF m
    <2>6. Good(m)
      <3> SUFFICES ASSUME m.spent # 0 PROVE Good(m)
        OBVIOUS
      <3>1. /\ m.user # NoUser
            /\ \A x \in CapsOf(m.user) : ledger'[m.user][m.spent] >= effectiveCap(x, m.reserved)
        BY <2>5, <1>1
      <3>2. ASSUME m.gate = m.spent PROVE m.granted = "ownonly"
        <4>1. over
          BY <2>1, <2>5, <3>2 DEF over, SpentStays
        <4>2. QED BY <4>1, <2>2, <2>5
      <3>3. QED BY <3>1, <3>2
    <2>7. QED BY <2>1, <2>6, <1>s
  <1>6. ASSUME NEW c \in Calls, ReadCarry(c) PROVE SpentStays'
    <2> DEFINE k == [call[c] EXCEPT !.pc = "charging", !.day = day,
                                    !.prior = CarryOf(call[c].user, day)]
    <2>1. Step(c, k)
      BY <1>6 DEF ReadCarry
    <2>2. SpentKept(call[c], k)
      BY <1>0 DEF SpentKept, CallStates
    <2> HIDE DEF k
    <2>3. QED BY <2>1, <2>2, <1>k
  <1>7. ASSUME NEW c \in Calls, Charge(c) PROVE SpentStays'
    <2> DEFINE s == IF call[c].phase = "pre" THEN Slice(c) ELSE call[c].slice
               k == [call[c] EXCEPT !.pc = "charged", !.slice = s]
    <2>1. Step(c, k)
      BY <1>7 DEF Charge
    <2> HIDE DEF s
    <2>2. SpentKept(call[c], k)
      BY <1>0 DEF SpentKept, CallStates
    <2> HIDE DEF k
    <2>3. QED BY <2>1, <2>2, <1>k
  <1>8. ASSUME NEW c \in Calls, ChargeCeiling(c) PROVE SpentStays'
    <2> DEFINE pc == AfterCeiling(c, call[c].amount > 0 /\ total[day] + call[c].amount >= Ceiling)
               g == IF pc = "running" THEN "billed" ELSE call[c].granted
               s == IF call[c].phase = "pre" THEN GlobalSlice(c) ELSE call[c].gslice
               k == [call[c] EXCEPT !.granted = g, !.gslice = s]
               m == Moved(k, pc)
    <2>1. Step(c, m) /\ call[c].pc = "gcharge"
      BY <1>8 DEF ChargeCeiling
    <2>2. /\ s \in Slices /\ g \in {"no", "billed", "own", "ownonly"}
          /\ g # call[c].granted => call[c].granted = "no"
      <3>1. s \in Slices /\ g \in {"no", "billed", "own", "ownonly"}
        BY <1>0, GlobalSliceType DEF CallStates
      <3>2. pc = "running" => call[c].phase = "pre"
        BY <1>0 DEF AfterCeiling, CallStates
      <3>3. pc = "running" => call[c].granted = "no"
        BY <3>2, <2>1, <1>0 DEF InOrder, PreBill
      <3>4. QED BY <3>1, <3>3
    <2> HIDE DEF pc, g, s
    <2>3. /\ k \in CallStates /\ k.granted = g /\ k.spent = call[c].spent
          /\ k.user = call[c].user /\ k.reserved = call[c].reserved /\ k.gate = call[c].gate
      BY <1>0, <2>2 DEF CallStates
    <2> HIDE DEF k
    <2>4. SpentKept(call[c], m)
      BY <2>2, <2>3, MovedFields DEF SpentKept
    <2> HIDE DEF m
    <2>5. QED BY <2>1, <2>4, <1>k
  <1>9. ASSUME NEW c \in Calls, NEW cost \in Costs, RunOnServerKey(c, cost) PROVE SpentStays'
    <2> DEFINE delta == cost - (IF call[c].own THEN 0 ELSE call[c].est)
               pc == IF call[c].user = NoUser THEN "gcharge" ELSE "charge"
               k == [call[c] EXCEPT !.pc = pc, !.phase = "true", !.amount = delta]
    <2>1. CASE delta <= 0
      BY <1>9, <2>1, <1>g DEF RunOnServerKey
    <2>2. CASE ~(delta <= 0)
      <3>1. Step(c, k)
        BY <1>9, <2>2 DEF RunOnServerKey
      <3> HIDE DEF pc, delta
      <3>2. SpentKept(call[c], k)
        BY <1>0 DEF SpentKept, CallStates
      <3> HIDE DEF k
      <3>3. QED BY <3>1, <3>2, <1>k
    <2>3. QED BY <2>1, <2>2
  <1>10. ASSUME NEW c \in Calls,
                \/ checkGlobalCostGate(c) \/ GateReadFails(c) \/ ChargeFails(c)
                \/ ChargeCeilingFails(c) \/ RunUnsettled(c)
                \/ \E cap \in {FullCap, FreeCap} : Settle(c, cap)
         PROVE  SpentStays'
    <2>1. \E pc : Goto(c, pc)
      BY <1>10 DEF checkGlobalCostGate, GateReadFails, ChargeFails, ChargeCeilingFails,
                   RunUnsettled, Settle
    <2>2. QED BY <2>1, <1>g
  <1>11. ASSUME Restart PROVE SpentStays'
    <2>1. \A c \in Calls : call'[c] \in {call[c], Over(call[c], "done")}
      BY <1>11 DEF Restart
    <2>2. \A c \in Calls : Moved(call[c], "done") = Over(call[c], "done")
      BY DEF Moved
    <2>3. \A c \in Calls : SpentKept(call[c], call'[c])
      BY <2>1, <2>2, <1>m, <1>u
    <2>4. \A c \in Calls : Good(call'[c])
      BY <2>3, <1>2
    <2>5. QED BY <2>4, <1>3
  <1>12. ASSUME NextDay \/ UNCHANGED vars PROVE SpentStays'
    <2>1. UNCHANGED call
      BY <1>12 DEF NextDay, vars
    <2>2. \A c \in Calls : Good(call'[c])
      BY <2>1, <1>2, <1>u
    <2>3. QED BY <2>2, <1>3
  <1>13. QED
    BY <1>4, <1>5, <1>6, <1>7, <1>8, <1>9, <1>10, <1>11, <1>12 DEF Next

-----------------------------------------------------------------------------
(* The theorems.                                                           *)

Gates == TypeOK /\ Admissions /\ Stacked /\ GlobalStacked /\ SpentStays

LEMMA GatesInit == Init => Gates
  <1>1. NewCall.slice.day = 0 /\ NewCall.gslice.day = 0 /\ NewCall.spent = 0
        /\ NewCall.pc = "new" /\ NewCall.granted = "no" /\ NewCall.phase = "pre"
    BY DEF NewCall, NoSlice
  <1>2. Admission(NewCall)
    BY <1>1 DEF Admission, InOrder, PreBill, Past, UnderTheLine, UnderTheCeiling
  <1>3. Init => \A c \in Calls : call[c] = NewCall
    BY DEF Init
  <1>4. QED
    BY <1>1, <1>2, <1>3, InitType DEF Gates, Admissions, Stacked, GlobalStacked, SpentStays

LEMMA GatesStep == Gates /\ [Next]_vars => Gates'
  BY TypeStep, AdmissionsStep, StackedStep, GlobalStackedStep, SpentStaysStep DEF Gates

LEMMA GatesHold == Spec => []Gates
  BY GatesInit, GatesStep, PTL DEF Spec

(* The pre-bills of the calls a user's gate let through are separate       *)
(* slices of the user's day, each under the line of its kind, however many *)
(* calls passed the gate at once (cost-guard.ts:209-213); a call let       *)
(* through although its charge failed has none.                            *)
THEOREM AdmissionWithinCap == Spec => []AdmittedWithinCap
  <1>1. Gates => AdmittedWithinCap
    BY DEF Gates, Admissions, Admission, UnderTheLine, Past, Stacked, AdmittedWithinCap, Billed
  <1>2. QED BY <1>1, GatesHold, PTL

(* Every call let through on the service's key has a slice of its own      *)
(* below the ceiling, whichever writes failed (cost-guard.ts:316-319).     *)
THEOREM CeilingHolds == Spec => []CeilingFailsClosed
  <1>1. Gates => CeilingFailsClosed
    BY DEF Gates, Admissions, Admission, UnderTheCeiling, GlobalStacked, CeilingFailsClosed,
           Billed
  <1>2. QED BY <1>1, GatesHold, PTL

(* A call that starts when the user's budget of the day is gone never gets *)
(* the service's key on that day (cost-guard.ts:9-11, openai.ts:224-225).  *)
THEOREM SpentStopsCalls == Spec => []SpentBudgetStops
  <1>1. Gates => SpentBudgetStops
    BY DEF Gates, SpentStays, SpentBudgetStops
  <1>2. QED BY <1>1, GatesHold, PTL

-----------------------------------------------------------------------------
(* Sums over a finite set.  SumFunctionOnSet folds the set an element at a *)
(* time, so three facts have to be shown of it: the recursion has a        *)
(* solution, its values are numbers, and the order of the elements does    *)
(* not matter.  Each is an induction over the subsets, by way of a         *)
(* smallest counterexample (Least, Smallest).                              *)

Pick(s) == CHOOSE x \in s : TRUE

(* f sums w over each set of D, an element at a time.                      *)
Sums(f, w, D) ==
    f = [s \in D |-> IF s = {} THEN 0 ELSE w[Pick(s)] + f[s \ {Pick(s)}]]

Small(T, n) == {s \in SUBSET T : Cardinality(s) <= n}

LEMMA Least ==
    ASSUME NEW B \in SUBSET Nat, B # {}
    PROVE  \E n \in B : \A m \in B : m >= n
  <1>1. PICK n \in B : \A m \in B : ~(<<m, n>> \in OpToRel(<, Nat))
    BY NatLessThanWellFounded, WFMin
  <1>2. \A m \in B : ~(m < n)
    BY <1>1 DEF OpToRel
  <1>3. QED BY <1>2

LEMMA SmallLess ==
    ASSUME NEW T, IsFiniteSet(T), NEW n \in Nat, NEW s \in Small(T, n + 1), s # {}
    PROVE  Pick(s) \in s /\ Pick(s) \in T /\ s \ {Pick(s)} \in Small(T, n)
  <1>1. Pick(s) \in s
    BY DEF Pick
  <1>2. IsFiniteSet(s) /\ s \subseteq T /\ Cardinality(s) <= n + 1
    BY FS_Subset DEF Small
  <1>3. Cardinality(s \ {Pick(s)}) = Cardinality(s) - 1 /\ Cardinality(s) \in Nat
    BY <1>1, <1>2, FS_RemoveElement, FS_CardinalityType
  <1>4. Cardinality(s \ {Pick(s)}) <= n
    BY <1>2, <1>3
  <1>5. QED BY <1>1, <1>2, <1>4 DEF Small

LEMMA SumsGrow ==
    ASSUME NEW T, IsFiniteSet(T), NEW w, \A x \in T : w[x] \in Nat, NEW n \in Nat,
           NEW f, f \in [Small(T, n) -> Nat], Sums(f, w, Small(T, n))
    PROVE  \E g \in [Small(T, n + 1) -> Nat] : Sums(g, w, Small(T, n + 1))
  <1> DEFINE at(s) == IF s = {} THEN 0 ELSE w[Pick(s)] + f[s \ {Pick(s)}]
             g == [s \in Small(T, n + 1) |-> at(s)]
  <1>1. \A s \in Small(T, n + 1) : at(s) \in Nat
    BY SmallLess
  <1>2. \A s \in Small(T, n) : f[s] = at(s) /\ s \in Small(T, n + 1)
    <2>1. \A s \in Small(T, n) : f[s] = at(s)
      BY DEF Sums
    <2>2. \A s \in Small(T, n) : Cardinality(s) \in Nat
      BY FS_Subset, FS_CardinalityType DEF Small
    <2>3. QED BY <2>1, <2>2 DEF Small
  <1>3. \A s \in Small(T, n) : g[s] = f[s]
    BY <1>2
  <1>4. ASSUME NEW s \in Small(T, n + 1)
        PROVE  g[s] = IF s = {} THEN 0 ELSE w[Pick(s)] + g[s \ {Pick(s)}]
    <2>1. CASE s = {}
      BY <2>1
    <2>2. CASE s # {}
      <3>1. s \ {Pick(s)} \in Small(T, n)
        BY <2>2, SmallLess
      <3>2. g[s] = w[Pick(s)] + f[s \ {Pick(s)}]
        BY <2>2
      <3> HIDE DEF g
      <3>3. QED BY <3>1, <3>2, <2>2, <1>3
    <2>3. QED BY <2>1, <2>2
  <1>5. g \in [Small(T, n + 1) -> Nat]
    BY <1>1
  <1>6. g = [s \in Small(T, n + 1) |-> g[s]]
    OBVIOUS
  <1> HIDE DEF g
  <1>7. Sums(g, w, Small(T, n + 1))
    BY <1>4, <1>6 DEF Sums
  <1>8. QED BY <1>5, <1>7

LEMMA SumsExist ==
    ASSUME NEW T, IsFiniteSet(T), NEW w, \A x \in T : w[x] \in Nat
    PROVE  \E f \in [SUBSET T -> Nat] : Sums(f, w, SUBSET T)
  <1> DEFINE Has(n) == \E f \in [Small(T, n) -> Nat] : Sums(f, w, Small(T, n))
             None == {n \in Nat : ~Has(n)}
  <1>1. Has(0)
    <2>1. \A s \in Small(T, 0) : s = {}
      <3>1. ASSUME NEW s \in Small(T, 0) PROVE s = {}
        <4>1. IsFiniteSet(s) /\ Cardinality(s) <= 0
          BY FS_Subset DEF Small
        <4>2. Cardinality(s) \in Nat
          BY <4>1, FS_CardinalityType
        <4>3. Cardinality(s) = 0
          BY <4>1, <4>2
        <4>4. QED BY <4>1, <4>3, FS_EmptySet
      <3>2. QED BY <3>1
    <2> DEFINE f == [s \in Small(T, 0) |-> 0]
    <2>2. f = [s \in Small(T, 0) |-> IF s = {} THEN 0 ELSE w[Pick(s)] + f[s \ {Pick(s)}]]
      BY <2>1
    <2>3. f \in [Small(T, 0) -> Nat]
      OBVIOUS
    <2> HIDE DEF f
    <2>4. QED BY <2>2, <2>3 DEF Sums
  <1>2. \A n \in Nat : Has(n) => Has(n + 1)
    BY SumsGrow
  <1>3. None = {}
    <2>1. SUFFICES ASSUME None # {} PROVE FALSE
      OBVIOUS
    <2>2. PICK n \in None : \A m \in None : m >= n
      BY <2>1, Least
    <2> HIDE DEF Has
    <2>3. n \in Nat /\ n # 0 /\ ~Has(n)
      BY <2>2, <1>1
    <2>4. n - 1 \in Nat /\ n - 1 \notin None /\ n = (n - 1) + 1
      BY <2>2, <2>3
    <2>5. Has(n - 1)
      BY <2>4
    <2>6. QED BY <2>3, <2>4, <2>5, <1>2
  <1>4. Cardinality(T) \in Nat
    BY FS_CardinalityType
  <1>5. Small(T, Cardinality(T)) = SUBSET T
    BY FS_Subset, FS_CardinalityType DEF Small
  <1>6. Has(Cardinality(T))
    BY <1>3, <1>4
  <1>7. QED BY <1>5, <1>6


(* A nonempty set of subsets of T holds one that no longer is in it with   *)
(* any of its elements taken out.                                          *)
LEMMA Smallest ==
    ASSUME NEW T, IsFiniteSet(T), NEW B \in SUBSET SUBSET T, B # {}
    PROVE  \E s \in B : \A x \in s : s \ {x} \notin B
  <1> DEFINE sizes == {Cardinality(s) : s \in B}
  <1>1. \A s \in B : IsFiniteSet(s) /\ Cardinality(s) \in Nat
    BY FS_Subset, FS_CardinalityType
  <1>2. sizes \in SUBSET Nat /\ sizes # {}
    BY <1>1
  <1>3. PICK n \in sizes : \A m \in sizes : m >= n
    BY <1>2, Least
  <1>4. PICK s \in B : Cardinality(s) = n
    OBVIOUS
  <1>5. ASSUME NEW x \in s, s \ {x} \in B PROVE FALSE
    <2>1. Cardinality(s \ {x}) = n - 1 /\ n \in Nat
      BY <1>1, <1>4, FS_RemoveElement
    <2>2. Cardinality(s \ {x}) \in sizes
      BY <1>5
    <2>3. Cardinality(s \ {x}) >= n
      BY <2>2, <1>3
    <2> HIDE DEF sizes
    <2>4. QED BY <2>1, <2>3
  <1>6. QED BY <1>5

LEMMA SumsAt ==
    ASSUME NEW T, NEW w, NEW f, Sums(f, w, SUBSET T)
    PROVE  /\ f[{}] = 0
           /\ \A s \in SUBSET T : s # {} =>
                Pick(s) \in s /\ f[s] = w[Pick(s)] + f[s \ {Pick(s)}]
  <1>1. \A s \in SUBSET T : f[s] = IF s = {} THEN 0 ELSE w[Pick(s)] + f[s \ {Pick(s)}]
    BY DEF Sums
  <1>2. \A s \in SUBSET T : s # {} => Pick(s) \in s
    BY DEF Pick
  <1>3. QED BY <1>1, <1>2

LEMMA SumsNat ==
    ASSUME NEW T, IsFiniteSet(T), NEW w, \A x \in T : w[x] \in Nat,
           NEW f, Sums(f, w, SUBSET T)
    PROVE  \A s \in SUBSET T : f[s] \in Nat
  <1> DEFINE B == {s \in SUBSET T : f[s] \notin Nat}
  <1> SUFFICES ASSUME B # {} PROVE FALSE
    OBVIOUS
  <1>1. PICK s \in B : \A x \in s : s \ {x} \notin B
    BY Smallest
  <1>2. s # {}
    <2>1. f[{}] = 0
      BY SumsAt
    <2>2. QED BY <2>1, <1>1
  <1>3. Pick(s) \in s /\ f[s] = w[Pick(s)] + f[s \ {Pick(s)}]
    BY <1>2, SumsAt
  <1>4. f[s \ {Pick(s)}] \in Nat /\ w[Pick(s)] \in Nat
    BY <1>1, <1>3
  <1>5. QED BY <1>1, <1>3, <1>4

(* The element that is taken out first does not matter.                    *)
AnyFirst(f, w, T) == \A s \in SUBSET T : \A x \in s : f[s] = w[x] + f[s \ {x}]

LEMMA SumsAny ==
    ASSUME NEW T, IsFiniteSet(T), NEW w, \A x \in T : w[x] \in Nat,
           NEW f, Sums(f, w, SUBSET T)
    PROVE  AnyFirst(f, w, T)
  <1> DEFINE B == {s \in SUBSET T : \E x \in s : f[s] # w[x] + f[s \ {x}]}
  <1> SUFFICES ASSUME B # {} PROVE FALSE
    BY DEF AnyFirst
  <1>1. PICK s \in B : \A x \in s : s \ {x} \notin B
    BY Smallest
  <1>2. PICK x \in s : f[s] # w[x] + f[s \ {x}]
    OBVIOUS
  <1> DEFINE y == Pick(s)
             r == (s \ {x}) \ {y}
  <1>3. y \in s /\ f[s] = w[y] + f[s \ {y}]
    BY <1>2, SumsAt
  <1> HIDE DEF y
  <1>4. y # x
    BY <1>2, <1>3
  <1>5. f[s \ {x}] = w[y] + f[r]
    BY <1>1, <1>2, <1>3, <1>4
  <1>6. f[s \ {y}] = w[x] + f[r]
    <2>1. r = (s \ {y}) \ {x}
      OBVIOUS
    <2> HIDE DEF r
    <2>2. QED BY <2>1, <1>1, <1>2, <1>3, <1>4
  <1>7. w[x] \in Nat /\ w[y] \in Nat /\ f[r] \in Nat
    BY <1>2, <1>3, SumsNat
  <1> HIDE DEF r
  <1>8. QED BY <1>2, <1>3, <1>5, <1>6, <1>7

LEMMA SumIs ==
    ASSUME NEW T, IsFiniteSet(T), NEW w, \A x \in T : w[x] \in Nat
    PROVE  \E f : /\ f[{}] = 0
                  /\ \A s \in SUBSET T : f[s] \in Nat
                  /\ AnyFirst(f, w, T)
                  /\ SumFunctionOnSet(w, T) = f[T]
  <1>1. PICK h \in [SUBSET T -> Nat] : Sums(h, w, SUBSET T)
    BY SumsExist
  <1> DEFINE f == CHOOSE f : Sums(f, w, SUBSET T)
  <1>2. SumFunctionOnSet(w, T) = f[T]
    BY DEF SumFunctionOnSet, FoldFunctionOnSet, MapThenFoldSet, Sums, Pick
  <1>3. Sums(f, w, SUBSET T)
    BY <1>1
  <1> HIDE DEF f
  <1>4. f[{}] = 0 /\ \A s \in SUBSET T : f[s] \in Nat
    BY <1>3, SumsAt, SumsNat
  <1>5. AnyFirst(f, w, T)
    BY <1>3, SumsAny
  <1>6. QED BY <1>2, <1>4, <1>5

(* Separate slices of one day that end at or below n add up to n at most.  *)
LEMMA SlicesFit ==
    ASSUME NEW T, IsFiniteSet(T), NEW w, NEW slice, NEW d, NEW n \in Nat,
           \A c \in T : w[c] \in Nat,
           \A c \in T : w[c] > 0 =>
              /\ slice[c] \in Slices /\ slice[c].day = d
              /\ slice[c].to = slice[c].from + w[c] /\ slice[c].to <= n,
           \A b, c \in T : b # c /\ w[b] > 0 /\ w[c] > 0 => Apart(slice[b], slice[c])
    PROVE  SumFunctionOnSet(w, T) \in Nat /\ SumFunctionOnSet(w, T) <= n
  <1>1. PICK f : /\ f[{}] = 0
                 /\ \A s \in SUBSET T : f[s] \in Nat
                 /\ AnyFirst(f, w, T)
                 /\ SumFunctionOnSet(w, T) = f[T]
    BY SumIs
  <1>2. f[{}] = 0 /\ \A s \in SUBSET T : f[s] \in Nat
    BY <1>1
  <1>3. \A s \in SUBSET T : \A x \in s : f[s] = w[x] + f[s \ {x}]
    BY <1>1 DEF AnyFirst
  <1> DEFINE Under(s, m) == \A c \in s : w[c] > 0 => slice[c].to <= m
             B == {s \in SUBSET T : \E m \in Nat : Under(s, m) /\ f[s] > m}
  <1>4. B = {}
    <2> SUFFICES ASSUME B # {} PROVE FALSE
      OBVIOUS
    <2>1. PICK s \in B : \A x \in s : s \ {x} \notin B
      BY Smallest
    <2>2. PICK m \in Nat : Under(s, m) /\ f[s] > m
      OBVIOUS
    <2>3. s \in SUBSET T
      OBVIOUS
    <2> HIDE DEF B
    <2>4. ASSUME NEW x \in s, NEW k \in Nat, Under(s \ {x}, k) PROVE f[s \ {x}] <= k
      <3>1. f[s \ {x}] \in Nat
        BY <1>2, <2>3
      <3>2. QED BY <3>1, <2>1, <2>3, <2>4 DEF B
    <2>5. \A x \in s : w[x] > 0
      <3> SUFFICES ASSUME NEW x \in s, ~(w[x] > 0) PROVE FALSE
        OBVIOUS
      <3>1. w[x] = 0 /\ f[s \ {x}] \in Nat
        BY <2>3, <1>2
      <3>2. f[s] = w[x] + f[s \ {x}]
        BY <2>3, <1>3
      <3>3. f[s \ {x}] <= m
        BY <2>2, <2>4
      <3>4. QED BY <3>1, <3>2, <3>3, <2>2
    <2>6. s # {}
      <3> SUFFICES ASSUME s = {} PROVE FALSE
        OBVIOUS
      <3>1. f[s] = 0
        BY <1>2
      <3>2. QED BY <3>1, <2>2
    <2> DEFINE below == {m - slice[c].to : c \in s}
    <2>7. \A c \in s : /\ slice[c] \in Slices /\ slice[c].from \in Nat /\ slice[c].to \in Nat
                       /\ slice[c].to = slice[c].from + w[c] /\ slice[c].to <= m
                       /\ slice[c].day = d /\ w[c] \in Nat /\ w[c] > 0
      BY <2>2, <2>3, <2>5 DEF Slices
    <2>8. below \in SUBSET Nat /\ below # {}
      BY <2>6, <2>7
    <2>9. PICK k \in below : \A j \in below : j >= k
      BY <2>8, Least
    <2>10. PICK x \in s : k = m - slice[x].to
      OBVIOUS
    <2>11. \A c \in s : slice[c].to <= slice[x].to
      <3> SUFFICES ASSUME NEW c \in s PROVE slice[c].to <= slice[x].to
        OBVIOUS
      <3>1. m - slice[c].to >= m - slice[x].to
        BY <2>9, <2>10
      <3> HIDE DEF below
      <3>2. QED BY <3>1, <2>7
    <2> HIDE DEF below
    <2>12. Under(s \ {x}, slice[x].from)
      <3> SUFFICES ASSUME NEW c \in s \ {x} PROVE slice[c].to <= slice[x].from
        OBVIOUS
      <3>1. Apart(slice[c], slice[x])
        BY <2>3, <2>5
      <3>2. QED BY <3>1, <2>7, <2>11 DEF Apart
    <2>13. f[s \ {x}] <= slice[x].from
      BY <2>4, <2>7, <2>12
    <2>14. f[s] = w[x] + f[s \ {x}] /\ f[s \ {x}] \in Nat
      BY <1>2, <1>3, <2>3
    <2>15. QED BY <2>2, <2>7, <2>13, <2>14
  <1>5. QED BY <1>1, <1>2, <1>4
-----------------------------------------------------------------------------
(* What is spent on a day.                                                 *)

Upright == \A c \in Calls : call[c].slice.day # 0 => call[c].slice.from <= call[c].slice.to

LEMMA UprightStep ==
    ASSUME TypeOK, [Next]_vars, Upright
    PROVE  Upright'
  <1>0. \A c \in Calls : call[c] \in CallStates
    BY DEF TypeOK
  <1>1. CASE QuietUser
    BY <1>1 DEF QuietUser, Upright
  <1>2. ASSUME NEW c \in Calls, Charge(c) PROVE Upright'
    <2> DEFINE s == IF call[c].phase = "pre" THEN Slice(c) ELSE call[c].slice
               k == [call[c] EXCEPT !.pc = "charged", !.slice = s]
    <2>1. Step(c, k) /\ call[c].pc = "charging"
      BY <1>2 DEF Charge
    <2>2. k.slice = s
      BY <1>0 DEF CallStates
    <2> HIDE DEF k
    <2>3. call'[c].slice = s /\ \A b \in Calls \ {c} : call'[b] = call[b]
      BY <2>1, <2>2, OnlyOne
    <2>4. s.day # 0 => s.from <= s.to
      <3>1. CASE call[c].phase = "pre"
        <4>1. call[c].user \in Users /\ call[c].day \in Days
          BY <1>0, <2>1 DEF TypeOK, CallStates
        <4>2. ledger[call[c].user][call[c].day] \in Nat /\ Whole(c) \in Nat
          BY <4>1, RestType DEF TypeOK
        <4>3. s.from = ledger[call[c].user][call[c].day] /\ s.to = s.from + Whole(c)
          BY <3>1 DEF Slice
        <4> HIDE DEF s
        <4>4. QED BY <4>2, <4>3
      <3>2. CASE call[c].phase # "pre"
        BY <3>2 DEF Upright
      <3>3. QED BY <3>1, <3>2
    <2> HIDE DEF s
    <2>5. QED BY <2>3, <2>4 DEF Upright
  <1>3. QED BY <1>1, <1>2, Quietly

(* A higher cap has a higher line, for each kind of call, and the judge's  *)
(* line is not below the ordinary one.                                     *)
LEMMA LinesOf ==
    ASSUME NEW x \in Nat, NEW y \in Nat, x <= y
    PROVE  /\ \A reserved \in BOOLEAN :
                 /\ effectiveCap(x, reserved) \in Nat
                 /\ effectiveCap(x, reserved) <= effectiveCap(y, reserved)
           /\ \A given, reserved \in BOOLEAN :
                 (given => reserved) => effectiveCap(x, given) <= effectiveCap(x, reserved)
  <1>1. /\ x \div 2 \in Nat /\ y \div 2 \in Nat /\ x \div 2 <= x /\ y \div 2 <= y
        /\ x \div 2 <= y \div 2 /\ x - x \div 2 <= y - y \div 2
    OBVIOUS
  <1>2. /\ reserveCents(x) \in Nat /\ reserveCents(x) <= x
        /\ x - reserveCents(x) <= y - reserveCents(y)
    BY <1>1, CostAssumption DEF reserveCents
  <1>3. reserveCents(y) \in Nat
    BY <1>1, CostAssumption DEF reserveCents
  <1>4. QED BY <1>2, <1>3 DEF effectiveCap

(* One of the caps that a lookup may answer is the highest.                *)
LEMMA HighestCap ==
    ASSUME NEW u
    PROVE  \E cap \in CapsOf(u) : cap \in Nat /\ \A x \in CapsOf(u) : x \in Nat /\ x <= cap
  <1>1. CapOf(u) \in Nat /\ FullCap \in Nat
    BY CostAssumption DEF CapOf
  <1>2. CASE "plan" \in Faults /\ CapOf(u) <= FullCap
    BY <1>1, <1>2 DEF CapsOf
  <1>3. CASE "plan" \notin Faults \/ FullCap <= CapOf(u)
    BY <1>1, <1>3 DEF CapsOf
  <1>4. QED BY <1>1, <1>2, <1>3

LEMMA UserWithinBudget ==
    ASSUME Gates, Upright, NEW u \in Users, NEW d \in Days
    PROVE  \E cap \in CapsOf(u) : \A reserved \in BOOLEAN :
             SumFunctionOnSet(Cents, {c \in LetThrough(u, d) : call[c].reserved => reserved})
               <= effectiveCap(cap, reserved)
  <1>0. \A c \in Calls : /\ call[c] \in CallStates /\ UnderTheLine(call[c])
                         /\ call[c].reserved \in BOOLEAN
                         /\ call[c].slice.from \in Nat /\ call[c].slice.to \in Nat
    BY DEF Gates, TypeOK, CallStates, Slices, Admissions, Admission
  <1>1. PICK cap \in CapsOf(u) : cap \in Nat /\ \A x \in CapsOf(u) : x \in Nat /\ x <= cap
    BY HighestCap
  <1>2. ASSUME NEW reserved \in BOOLEAN
        PROVE  SumFunctionOnSet(Cents, {c \in LetThrough(u, d) : call[c].reserved => reserved})
                 <= effectiveCap(cap, reserved)
    <2> DEFINE T == {c \in LetThrough(u, d) : call[c].reserved => reserved}
               slice == [c \in Calls |-> call[c].slice]
               n == effectiveCap(cap, reserved)
    <2>1. T \subseteq Calls /\ IsFiniteSet(T)
      BY CostAssumption, FS_Subset DEF LetThrough
    <2>2. n \in Nat
      BY <1>1, LinesOf
    <2>3. ASSUME NEW c \in T
          PROVE  /\ Cents[c] = slice[c].to - slice[c].from /\ Cents[c] \in Nat
                 /\ slice[c] \in Slices /\ slice[c].day = d
                 /\ slice[c].to = slice[c].from + Cents[c] /\ slice[c].to <= n
      <3>1. /\ c \in Calls /\ Billed(c) /\ call[c].user = u /\ call[c].slice.day = d /\ d # 0
            /\ call[c].reserved => reserved
        BY DEF LetThrough, Days
      <3>2. call[c].slice \in Slices /\ call[c].slice.from <= call[c].slice.to
        BY <1>0, <3>1 DEF Upright, CallStates
      <3>3. PICK x \in CapsOf(u) : call[c].slice.to <= effectiveCap(x, call[c].reserved)
        BY <1>0, <3>1 DEF UnderTheLine, Past, Billed
      <3>4. x \in Nat /\ x <= cap
        BY <1>1
      <3>5. /\ effectiveCap(x, call[c].reserved) \in Nat /\ effectiveCap(x, reserved) \in Nat
            /\ effectiveCap(x, call[c].reserved) <= effectiveCap(x, reserved)
            /\ effectiveCap(x, reserved) <= n
        BY <1>0, <1>1, <3>1, <3>4, LinesOf
      <3>6. call[c].slice.to <= n
        BY <1>0, <2>2, <3>1, <3>3, <3>5
      <3> HIDE DEF n, T
      <3>7. QED BY <1>0, <3>1, <3>2, <3>6 DEF Cents
    <2>4. \A b, c \in T : b # c => Apart(slice[b], slice[c])
      BY <2>1 DEF LetThrough, Gates, Stacked, Days
    <2> HIDE DEF T, slice, n
    <2>5. SumFunctionOnSet(Cents, T) <= n
      BY <2>1, <2>2, <2>3, <2>4, SlicesFit
    <2>6. QED BY <2>5 DEF T, n
  <1>3. QED BY <1>1, <1>2

LEMMA EstimateType ==
    ASSUME NEW est \in Prices \cup {0}
    PROVE  est \in Nat
  <1>1. CASE est \in Prices
    BY <1>1, CostAssumption
  <1>2. CASE est = 0
    BY <1>2
  <1>3. QED BY <1>1, <1>2

LEMMA ServiceWithinBudget ==
    ASSUME Gates, NEW d \in Days
    PROVE  SumFunctionOnSet(Units, ServedOn(d)) < Ceiling
  <1> DEFINE T == ServedOn(d)
             slice == [c \in Calls |-> call[c].gslice]
  <1>1. T \subseteq Calls /\ IsFiniteSet(T)
    BY CostAssumption, FS_Subset DEF ServedOn
  <1>2. ASSUME NEW c \in T
        PROVE  /\ Units[c] \in Nat
               /\ Units[c] > 0 => /\ slice[c] \in Slices /\ slice[c].day = d
                                  /\ slice[c].to = slice[c].from + Units[c]
                                  /\ slice[c].to <= Ceiling - 1
    <2>1. c \in Calls /\ Billed(c) /\ call[c].gslice.day = d
      BY DEF ServedOn
    <2>2. /\ call[c].est \in Nat /\ call[c].gslice \in Slices /\ call[c].gslice.to \in Nat
          /\ UnderTheCeiling(call[c])
      <3>1. call[c] \in CallStates /\ UnderTheCeiling(call[c])
        BY <2>1 DEF Gates, TypeOK, Admissions, Admission
      <3>2. call[c].est \in Prices \cup {0} /\ call[c].gslice \in Slices
        BY <3>1 DEF CallStates
      <3>3. call[c].gslice.to \in Nat
        BY <3>2 DEF Slices
      <3>4. call[c].est \in Nat
        BY <3>2, EstimateType
      <3>5. QED BY <3>1, <3>2, <3>3, <3>4
    <2>3. call[c].est > 0 => /\ call[c].gslice.to = call[c].gslice.from + call[c].est
                             /\ call[c].gslice.to <= Ceiling - 1
      BY <2>1, <2>2, CostAssumption DEF UnderTheCeiling, Billed
    <2> HIDE DEF T
    <2>4. QED BY <2>1, <2>2, <2>3 DEF Units
  <1>3. \A b, c \in T : b # c => Apart(slice[b], slice[c])
    BY <1>1 DEF ServedOn, Gates, GlobalStacked, Days
  <1>4. Ceiling - 1 \in Nat
    BY CostAssumption
  <1> HIDE DEF T, slice
  <1>5. SumFunctionOnSet(Units, T) \in Nat /\ SumFunctionOnSet(Units, T) <= Ceiling - 1
    BY <1>1, <1>2, <1>3, <1>4, SlicesFit
  <1>6. QED BY <1>5, CostAssumption DEF T

(* What is let through on a user's day and on the service's is pre-billed  *)
(* within the cap, the cap less the reserve, and the ceiling, however many *)
(* calls pass the gates at once (openai.ts:258-260, cost-guard.ts:81-110), *)
(* the calls apart whose charge to the user failed.                        *)
THEOREM BudgetHolds == Spec => []DayWithinBudget
  <1>1. Init => Upright
    BY DEF Init, Upright, NewCall, NoSlice
  <1>2. TypeOK /\ Upright /\ [Next]_vars => Upright'
    BY UprightStep
  <1>3. Spec => []Upright
    BY <1>1, <1>2, TypeCorrect, PTL DEF Spec
  <1>4. Gates /\ Upright => DayWithinBudget
    BY UserWithinBudget, ServiceWithinBudget DEF DayWithinBudget
  <1>5. QED BY <1>3, <1>4, GatesHold, PTL

=============================================================================
