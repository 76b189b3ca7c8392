-------------------------- MODULE AutoReplyProofs --------------------------
(***************************************************************************)
(* Theorems about AutoReply, for any finite set of mails, any number of    *)
(* overlapping user cycles, any cap and any faults.                        *)
(***************************************************************************)
EXTENDS AutoReply, TLAPS, FiniteSetTheorems

USE DEF ledgerVars, ghostVars

-----------------------------------------------------------------------------
(* Type correctness.                                                       *)

\* The part of the type invariant that is about cycles.
CycleTypeOK ==
    /\ cycle \in [Cycles -> CycleType]
    /\ \A c \in Cycles : cycle[c].pc \in WorkPcs => cycle[c].mail \in Mails

LEMMA IdleType == IdleCycle \in CycleType /\ IdleCycle.pc \notin WorkPcs
  BY DEF IdleCycle, CycleType, WorkPcs, Outcomes

LEMMA InitType == Init => TypeOK
  BY IdleType DEF Init, TypeOK, Records

LEMMA NewestSubset == \A S, n : Newest(S, n) \subseteq S
  BY DEF Newest

\* A cycle that works on a mail has one.
LEMMA WorkingMail ==
  ASSUME TypeOK, NEW c \in Cycles, cycle[c].pc \in WorkPcs
  PROVE  cycle[c].mail \in Mails
  BY DEF TypeOK

LEMMA RecordType ==
  ASSUME NEW out \in Outcomes
  PROVE  Record(out) \in {"sent", "failed", "unconfirmed"}
  BY DEF Record, Outcomes

LEMMA WriteType ==
  ASSUME CycleTypeOK, NEW c \in Cycles, NEW R \in CycleType,
         R.pc \in WorkPcs => R.mail \in Mails, cycle' = [cycle EXCEPT ![c] = R]
  PROVE  CycleTypeOK'
  BY DEF CycleTypeOK

LEMMA LeaveType ==
  ASSUME CycleTypeOK, NEW c \in Cycles, Leave(c)
  PROVE  CycleTypeOK'
<1>1. [IdleCycle EXCEPT !.pc = "next", !.path = cycle[c].path, !.todo = cycle[c].todo] \in CycleType
  BY IdleType DEF CycleTypeOK, CycleType
<1>2. [IdleCycle EXCEPT !.pc = "next", !.path = cycle[c].path, !.todo = cycle[c].todo].pc = "next"
  BY DEF IdleCycle
<1> QED BY <1>1, <1>2 DEF CycleTypeOK, Leave, WorkPcs

LEMMA GotoType ==
  ASSUME CycleTypeOK, NEW c \in Cycles, NEW p \in WorkPcs, cycle[c].pc \in WorkPcs, Goto(c, p)
  PROVE  CycleTypeOK'
  BY DEF CycleTypeOK, CycleType, Goto

LEMMA ClaimedType ==
  ASSUME TypeOK, NEW m \in Mails, NEW path, Claimed(path, m)
  PROVE  /\ ledger' \in [Mails -> Records]
         /\ shown' \in [Mails -> BOOLEAN]
         /\ today' \subseteq Mails
  BY DEF TypeOK, Claimed, Records, ShowsClaim

\* The steps of a cycle that look for work.
LEMMA SearchType ==
  ASSUME TypeOK, NEW c \in Cycles,
         StartCycle(c) \/ FindNew(c) \/ NextMail(c) \/ FindCandidates(c) \/ EndCycle(c)
  PROVE  TypeOK'
<1> USE DEF TypeOK, At
<1>t. CycleTypeOK
  BY DEF CycleTypeOK
<1>1. ASSUME StartCycle(c) PROVE TypeOK'
  <2>1. PICK n \in {0} \cup Mails :
          LET N == {m \in Mails : mail[m] = "coming" /\ m <= n} IN
          /\ mail' = [m \in Mails |-> IF m \in N THEN "stored" ELSE mail[m]]
          /\ cycle' = [cycle EXCEPT ![c] = [@ EXCEPT !.pc = "synced", !.todo = N]]
    BY <1>1 DEF StartCycle
  <2> DEFINE N == {m \in Mails : mail[m] = "coming" /\ m <= n}
             R == [cycle[c] EXCEPT !.pc = "synced", !.todo = N]
  <2>2. R \in CycleType /\ R.pc \notin WorkPcs
    BY DEF CycleType, WorkPcs
  <2>3. cycle' = [cycle EXCEPT ![c] = R]
    BY <2>1
  <2>4. CycleTypeOK'
    BY <1>t, <2>2, <2>3, WriteType
  <2> QED BY <1>1, <2>1, <2>4 DEF StartCycle, CycleTypeOK
<1>2. ASSUME FindNew(c) PROVE TypeOK'
  <2> DEFINE new == Newest({m \in Mails : mail[m] = "stored"}, Cardinality(cycle[c].todo))
             R == [cycle[c] EXCEPT !.pc = "next", !.todo = new]
  <2>1. R \in CycleType /\ R.pc \notin WorkPcs
    BY NewestSubset DEF CycleType, WorkPcs
  <2>3. cycle' = [cycle EXCEPT ![c] = R]
    BY <1>2 DEF FindNew
  <2>2. CycleTypeOK'
    BY <1>t, <2>1, <2>3, WriteType
  <2> QED BY <1>2, <2>2 DEF FindNew, CycleTypeOK
<1>3. ASSUME NextMail(c) PROVE TypeOK'
  <2>1. PICK m \in Newest(cycle[c].todo, 1) :
          \/ cycle' = [cycle EXCEPT ![c] =
                          [@ EXCEPT !.pc = "guarding", !.mail = m, !.todo = cycle[c].todo \ {m}]]
          \/ cycle' = [cycle EXCEPT ![c].todo = @ \ {m}]
    BY <1>3 DEF NextMail
  <2>2. m \in Mails
    BY NewestSubset DEF CycleType
  <2>3. CycleTypeOK'
    <3> DEFINE R == [cycle[c] EXCEPT !.pc = "guarding", !.mail = m, !.todo = cycle[c].todo \ {m}]
               Q == [cycle[c] EXCEPT !.todo = @ \ {m}]
    <3>1. R \in CycleType /\ R.mail \in Mails
      BY <2>2 DEF CycleType, WorkPcs
    <3>2. Q \in CycleType /\ Q.pc \notin WorkPcs
      BY <1>3 DEF NextMail, CycleType, WorkPcs
    <3>4. [cycle EXCEPT ![c].todo = @ \ {m}] = [cycle EXCEPT ![c] = Q]
      OBVIOUS
    <3>3. cycle' = [cycle EXCEPT ![c] = R] \/ cycle' = [cycle EXCEPT ![c] = Q]
      BY <2>1, <3>4
    <3> QED BY <1>t, <3>1, <3>2, <3>3, WriteType
  <2> QED BY <1>3, <2>3 DEF NextMail, CycleTypeOK
<1>4. ASSUME FindCandidates(c) PROVE TypeOK'
  <2>1. Candidates \subseteq Mails
    BY NewestSubset DEF Candidates, Open
  <2> DEFINE R == [cycle[c] EXCEPT !.path = "mode", !.todo = Candidates]
  <2>3. R \in CycleType /\ R.pc \notin WorkPcs
    BY <1>4, <2>1 DEF FindCandidates, CycleType, WorkPcs
  <2>4. cycle' = [cycle EXCEPT ![c] = R]
    BY <1>4 DEF FindCandidates
  <2>2. CycleTypeOK'
    BY <1>t, <2>3, <2>4, WriteType
  <2> QED BY <1>4, <2>2 DEF FindCandidates, CycleTypeOK
<1>5. ASSUME EndCycle(c) PROVE TypeOK'
  BY <1>5, IdleType DEF EndCycle
<1> QED BY <1>1, <1>2, <1>3, <1>4, <1>5

\* The steps of a cycle that prepare a reply to one mail.
LEMMA PrepareType ==
  ASSUME TypeOK, NEW c \in Cycles, Guard(c) \/ Draft(c) \/ DraftFails(c) \/ Recheck(c)
  PROVE  TypeOK'
<1> USE DEF TypeOK, At
<1>t. CycleTypeOK
  BY DEF CycleTypeOK
<1>m. cycle[c].pc \in WorkPcs /\ cycle[c].mail \in Mails
  BY WorkingMail DEF Guard, Draft, DraftFails, Recheck, WorkPcs
<1>1. ASSUME Guard(c) PROVE TypeOK'
  <2> DEFINE R == [cycle[c] EXCEPT !.pc = "drafting", !.tries = drafts[cycle[c].mail]]
  <2>0. cycle[c] \in CycleType /\ drafts[cycle[c].mail] \in Nat
    BY <1>m
  <2>1. R \in CycleType /\ R.mail \in Mails
    <3> HIDE DEF TypeOK
    <3> QED BY <1>m, <2>0 DEF CycleType, WorkPcs
  <2>3. cycle' = [cycle EXCEPT ![c] = R] \/ Leave(c)
    BY <1>1 DEF Guard
  <2>2. CycleTypeOK'
    BY <1>t, <2>1, <2>3, WriteType, LeaveType
  <2> QED BY <1>1, <2>2 DEF Guard, CycleTypeOK
<1>2. ASSUME Draft(c) PROVE TypeOK'
  <2> DEFINE R == [cycle[c] EXCEPT !.pc = "drafted", !.tries = 0]
  <2>0. cycle[c] \in CycleType
    OBVIOUS
  <2>3. R \in CycleType /\ R.mail \in Mails
    <3> HIDE DEF TypeOK
    <3> QED BY <1>m, <2>0 DEF CycleType, WorkPcs
  <2>4. cycle' = [cycle EXCEPT ![c] = R]
    BY <1>2 DEF Draft
  <2>1. CycleTypeOK'
    BY <1>t, <2>3, <2>4, WriteType
  <2>2. drafts' \in [Mails -> Nat]
    BY <1>2 DEF Draft
  <2> QED BY <1>2, <2>1, <2>2 DEF Draft, CycleTypeOK
<1>3. ASSUME DraftFails(c) PROVE TypeOK'
  <2>1. CycleTypeOK'
    BY <1>3, <1>t, LeaveType DEF DraftFails
  <2>2. cycle[c].tries + 1 \in Nat
    BY DEF CycleType
  <2>3. drafts' \in [Mails -> Nat]
    BY <1>3, <2>2 DEF DraftFails
  <2> QED BY <1>3, <2>1, <2>3 DEF DraftFails, CycleTypeOK
<1>4. ASSUME Recheck(c) PROVE TypeOK'
  <2>1. "claiming" \in WorkPcs
    BY DEF WorkPcs
  <2>2. CycleTypeOK'
    BY <1>4, <1>t, <1>m, <2>1, LeaveType, GotoType DEF Recheck
  <2> QED BY <1>4, <2>2 DEF Recheck, CycleTypeOK
<1> QED BY <1>1, <1>2, <1>3, <1>4

\* The steps of a cycle that claim, send and record, with their failures.
LEMMA ReplyType ==
  ASSUME TypeOK, NEW c \in Cycles,
         \/ Claim(c) \/ Send(c) \/ SettleRule(c) \/ SettleMode(c)
         \/ ClaimFails(c) \/ SettleFails(c)
  PROVE  TypeOK'
<1> USE DEF TypeOK, At
<1>t. CycleTypeOK
  BY DEF CycleTypeOK
<1>m. cycle[c].pc \in WorkPcs /\ cycle[c].mail \in Mails /\ cycle[c].out \in Outcomes
  BY WorkingMail DEF Claim, Send, SettleRule, SettleMode, ClaimFails, SettleFails, WorkPcs, CycleType
<1>r. Record(cycle[c].out) \in Records
  BY <1>m, RecordType DEF Records
<1>1. ASSUME Claim(c) PROVE TypeOK'
  <2>1. "sending" \in WorkPcs
    BY DEF WorkPcs
  <2>2. CycleTypeOK'
    BY <1>1, <1>t, <1>m, <2>1, LeaveType, GotoType DEF Claim
  <2>3. /\ ledger' \in [Mails -> Records]
        /\ shown' \in [Mails -> BOOLEAN]
        /\ today' \subseteq Mails
    BY <1>1, <1>m, ClaimedType DEF Claim
  <2> QED BY <1>1, <2>2, <2>3 DEF Claim, CycleTypeOK
<1>2. ASSUME Send(c) PROVE TypeOK'
  <2>1. PICK out \in Outcomes, gone \in {0, 1} :
          /\ left' = [left EXCEPT ![cycle[c].mail] = @ + gone]
          /\ cycle' = [cycle EXCEPT ![c] = [@ EXCEPT !.pc = "settling", !.out = out]]
    BY <1>2 DEF Send
  <2> DEFINE R == [cycle[c] EXCEPT !.pc = "settling", !.out = out]
  <2>5. R \in CycleType /\ R.mail \in Mails
    BY <1>m DEF CycleType, WorkPcs
  <2>6. cycle' = [cycle EXCEPT ![c] = R]
    BY <2>1
  <2>2. CycleTypeOK'
    BY <1>t, <2>5, <2>6, WriteType
  <2>3. left' \in [Mails -> Nat]
    BY <1>m, <2>1
  <2>7. sends' = [sends EXCEPT ![cycle[c].mail] = @ + 1]
    BY <1>2 DEF Send
  <2>4. sends' \in [Mails -> Nat]
    BY <1>m, <2>7
  <2> QED BY <1>2, <2>2, <2>3, <2>4 DEF Send, CycleTypeOK
<1>3. ASSUME SettleRule(c) PROVE TypeOK'
  <2>1. CycleTypeOK'
    BY <1>3, <1>t, LeaveType DEF SettleRule
  <2>2. ledger' \in [Mails -> Records] /\ shown' \in [Mails -> BOOLEAN]
    BY <1>3, <1>r DEF SettleRule
  <2> QED BY <1>3, <2>1, <2>2 DEF SettleRule, CycleTypeOK
<1>4. ASSUME SettleMode(c) PROVE TypeOK'
  <2>1. CycleTypeOK'
    BY <1>4, <1>t, LeaveType DEF SettleMode
  <2>2. ledger' \in [Mails -> Records]
    BY <1>4, <1>r DEF SettleMode
  <2>3. item' \in [Mails -> {"NONE", "OPEN", "RESOLVED", "CLOSED"}]
    BY <1>4 DEF SettleMode
  <2> QED BY <1>4, <2>1, <2>2, <2>3 DEF SettleMode, CycleTypeOK
<1>5. ASSUME ClaimFails(c) PROVE TypeOK'
  <2>1. CycleTypeOK'
    BY <1>5, <1>t, LeaveType DEF ClaimFails
  <2>2. /\ ledger' \in [Mails -> Records]
        /\ shown' \in [Mails -> BOOLEAN]
        /\ today' \subseteq Mails
        /\ faults' \in Nat
    BY <1>5, <1>m, ClaimedType DEF ClaimFails, Fault
  <2> QED BY <1>5, <2>1, <2>2 DEF ClaimFails, CycleTypeOK
<1>6. ASSUME SettleFails(c) PROVE TypeOK'
  <2>1. CycleTypeOK' /\ faults' \in Nat
    BY <1>6, <1>t, LeaveType DEF SettleFails, Fault
  <2> QED BY <1>6, <2>1 DEF SettleFails, CycleTypeOK
<1> QED BY <1>1, <1>2, <1>3, <1>4, <1>5, <1>6

LEMMA NextType == TypeOK /\ [Next]_vars => TypeOK'
<1> SUFFICES ASSUME TypeOK, [Next]_vars PROVE TypeOK'
  OBVIOUS
<1>1. ASSUME NEW c \in Cycles, CycleStep(c) PROVE TypeOK'
  BY <1>1, SearchType, PrepareType, ReplyType DEF CycleStep
<1>2. ASSUME NEW m \in Mails, SyncElsewhere(m) \/ JudgeItem(m) \/ DeleteMail(m) \/ CloseItem(m)
      PROVE  TypeOK'
  BY <1>2 DEF SyncElsewhere, JudgeItem, DeleteMail, CloseItem, TypeOK
<1>3. ASSUME ClearNotifications \/ Midnight PROVE TypeOK'
  BY <1>3 DEF ClearNotifications, Midnight, TypeOK
<1>4. CASE Crash
  BY <1>4, IdleType DEF Crash, Fault, TypeOK
<1>5. ASSUME NEW c \in Cycles, ClaimFails(c) \/ SettleFails(c) PROVE TypeOK'
  BY <1>5, ReplyType
<1>6. CASE UNCHANGED vars
  BY <1>6 DEF vars, TypeOK
<1> QED BY <1>1, <1>2, <1>3, <1>4, <1>5, <1>6 DEF Next, FaultStep

\* Every variable keeps its type: every cycle that works on a mail has one, and
\* every record is one the code writes.
THEOREM ReplyTypeCorrect == Spec => []TypeOK
<1>1. Init => TypeOK
  BY InitType
<1>2. TypeOK /\ [Next]_vars => TypeOK'
  BY NextType
<1> QED BY <1>1, <1>2, PTL DEF Spec

-----------------------------------------------------------------------------
(* The claim protocol.                                                     *)

\* Cycle c owns the claim of mail m: it has claimed and not yet recorded.
Holds(c, m) == cycle[c].mail = m /\ cycle[c].pc \in {"sending", "settling"}

\* The claim of a mail has one owner at most.
OneHolder == \A m \in Mails : \A c, d \in Cycles : Holds(c, m) /\ Holds(d, m) => c = d

\* The owner finds its own claim, nothing sent before its own send, and after it
\* an answer that says nothing false.
HolderInv ==
    \A m \in Mails : \A c \in Cycles :
      Holds(c, m) =>
        /\ ledger[m] = IF cycle[c].path = "rule" THEN "pending" ELSE "replied"
        /\ cycle[c].pc = "sending" => sends[m] = 0
        /\ cycle[c].pc = "settling" => /\ cycle[c].out = "accepted" => left[m] = 1
                                       /\ cycle[c].out = "unsupported" => left[m] = 0

Sent(m) ==
    /\ sends[m] <= 1
    /\ left[m] <= sends[m]
    /\ sends[m] > 0 => ledger[m] # "none"

Recorded(m) ==
    /\ ledger[m] = "sent" => left[m] = 1
    /\ ledger[m] = "failed" => left[m] = 0
    /\ item[m] = "RESOLVED" => left[m] = 1

\* Without faults a claim that is not settled has an owner.
Owned(m) ==
    faults = 0 =>
      /\ ledger[m] = "pending" => \E c \in Cycles : Holds(c, m)
      /\ ledger[m] = "replied" => left[m] = 1 \/ \E c \in Cycles : Holds(c, m)

\* The inductive invariant behind AtMostOneReply, LedgerIsTrue and
\* ResolvedMeansAnswered.
ClaimInv == OneHolder /\ HolderInv /\ \A m \in Mails : Sent(m) /\ Recorded(m) /\ Owned(m)

LEMMA ClaimInit == Init => ClaimInv
  BY DEF Init, IdleCycle, ClaimInv, OneHolder, HolderInv, Holds, Sent, Recorded, Owned

\* A step of a cycle without a claim, or of somebody else: no record, send or
\* claim changes.
LEMMA Aside ==
  ASSUME ClaimInv,
         ledger' = ledger, sends' = sends, left' = left, faults' = faults,
         \A m \in Mails : item'[m] = "RESOLVED" => item[m] = "RESOLVED",
         \A c \in Cycles : \/ cycle'[c] = cycle[c]
                           \/ /\ cycle[c].pc \notin {"sending", "settling"}
                              /\ cycle'[c].pc \notin {"sending", "settling"}
  PROVE  ClaimInv'
<1>1. ASSUME NEW c \in Cycles, NEW m \in Mails
      PROVE  /\ Holds(c, m)' <=> Holds(c, m)
             /\ Holds(c, m) => cycle'[c] = cycle[c]
  BY DEF Holds
<1>2. OneHolder'
  BY <1>1 DEF ClaimInv, OneHolder
<1>3. HolderInv'
  BY <1>1 DEF ClaimInv, HolderInv
<1>4. ASSUME NEW m \in Mails PROVE Sent(m)' /\ Recorded(m)' /\ Owned(m)'
  BY <1>1, <1>4 DEF ClaimInv, Sent, Recorded, Owned
<1> QED BY <1>2, <1>3, <1>4 DEF ClaimInv

\* A fault that makes cycles drop their claims and writes nothing.
LEMMA Dropped ==
  ASSUME ClaimInv,
         ledger' = ledger, sends' = sends, left' = left, item' = item, faults' > 0,
         \A c \in Cycles : \/ cycle'[c] = cycle[c]
                           \/ cycle'[c].pc \notin {"sending", "settling"}
  PROVE  ClaimInv'
<1>1. ASSUME NEW c \in Cycles, NEW m \in Mails, Holds(c, m)'
      PROVE  Holds(c, m) /\ cycle'[c] = cycle[c]
  BY <1>1 DEF Holds
<1>2. OneHolder'
  BY <1>1 DEF ClaimInv, OneHolder
<1>3. HolderInv'
  BY <1>1 DEF ClaimInv, HolderInv
<1>4. ASSUME NEW m \in Mails PROVE Sent(m)' /\ Recorded(m)' /\ Owned(m)'
  BY <1>4 DEF ClaimInv, Sent, Recorded, Owned
<1> QED BY <1>2, <1>3, <1>4 DEF ClaimInv

\* What Leave does to the cycles.
LEMMA LeaveCycle ==
  ASSUME TypeOK, NEW c \in Cycles, Leave(c)
  PROVE  /\ cycle'[c].pc = "next"
         /\ \A d \in Cycles : d # c => cycle'[d] = cycle[d]
<1>1. [IdleCycle EXCEPT !.pc = "next", !.path = cycle[c].path, !.todo = cycle[c].todo].pc = "next"
  BY DEF IdleCycle
<1> QED BY <1>1 DEF TypeOK, Leave

\* A cycle that looks for work or prepares a reply does not get a claim by it.
LEMMA SearchLeaves ==
  ASSUME TypeOK, NEW c \in Cycles,
         StartCycle(c) \/ FindNew(c) \/ NextMail(c) \/ FindCandidates(c) \/ EndCycle(c)
  PROVE  /\ cycle[c].pc \notin {"sending", "settling"}
         /\ cycle'[c].pc \notin {"sending", "settling"}
         /\ \A d \in Cycles : d # c => cycle'[d] = cycle[d]
<1>2. cycle[c].pc \notin {"sending", "settling"}
  BY DEF StartCycle, FindNew, NextMail, FindCandidates, EndCycle, At
<1>3. cycle'[c].pc \notin {"sending", "settling"}
  <2>1. cycle \in [Cycles -> CycleType]
    BY DEF TypeOK
  <2>2. ASSUME StartCycle(c) PROVE cycle'[c].pc \notin {"sending", "settling"}
    <3>1. PICK N \in SUBSET Mails :
            cycle' = [cycle EXCEPT ![c] = [@ EXCEPT !.pc = "synced", !.todo = N]]
      BY <2>2 DEF StartCycle
    <3>2. cycle'[c].pc = "synced"
      BY <2>1, <3>1 DEF CycleType
    <3> QED BY <3>2
  <2>3. ASSUME FindNew(c) PROVE cycle'[c].pc \notin {"sending", "settling"}
    BY <2>1, <2>3 DEF FindNew, CycleType
  <2>4. ASSUME NextMail(c) PROVE cycle'[c].pc \notin {"sending", "settling"}
    <3>1. PICK m \in Mails :
            \/ cycle' = [cycle EXCEPT ![c] =
                            [@ EXCEPT !.pc = "guarding", !.mail = m, !.todo = cycle[c].todo \ {m}]]
            \/ cycle' = [cycle EXCEPT ![c].todo = @ \ {m}]
      <4>1. Newest(cycle[c].todo, 1) \subseteq Mails
        BY <2>1 DEF Newest, CycleType
      <4> QED BY <2>4, <4>1 DEF NextMail
    <3>2. cycle'[c].pc = "guarding" \/ cycle'[c].pc = cycle[c].pc
      BY <2>1, <3>1 DEF CycleType
    <3> QED BY <3>2, <1>2
  <2>5. ASSUME FindCandidates(c) PROVE cycle'[c].pc \notin {"sending", "settling"}
    <3>1. cycle' = [cycle EXCEPT ![c] =
                      [@ EXCEPT !.path = "mode", !.todo = Candidates]]
      BY <2>5 DEF FindCandidates
    <3>2. cycle'[c].pc = cycle[c].pc
      BY <2>1, <3>1 DEF CycleType
    <3> QED BY <3>2, <1>2
  <2>6. ASSUME EndCycle(c) PROVE cycle'[c].pc \notin {"sending", "settling"}
    BY <2>1, <2>6 DEF EndCycle, IdleCycle
  <2> QED BY <2>2, <2>3, <2>4, <2>5, <2>6
<1>4. \A d \in Cycles : d # c => cycle'[d] = cycle[d]
  BY DEF StartCycle, FindNew, NextMail, FindCandidates, EndCycle, TypeOK
<1> QED BY <1>2, <1>3, <1>4

LEMMA PrepareLeaves ==
  ASSUME TypeOK, NEW c \in Cycles, Guard(c) \/ Draft(c) \/ DraftFails(c) \/ Recheck(c)
  PROVE  /\ cycle[c].pc \notin {"sending", "settling"}
         /\ cycle'[c].pc \notin {"sending", "settling"}
         /\ \A d \in Cycles : d # c => cycle'[d] = cycle[d]
<1>2. cycle[c].pc \notin {"sending", "settling"}
  BY DEF Guard, Draft, DraftFails, Recheck, At
<1>t. cycle \in [Cycles -> CycleType]
  BY DEF TypeOK
<1>3. \/ Leave(c)
      \/ /\ cycle'[c].pc \notin {"sending", "settling"}
         /\ \A d \in Cycles : d # c => cycle'[d] = cycle[d]
  BY <1>t DEF Guard, Draft, DraftFails, Recheck, Goto, CycleType
<1>4. /\ cycle'[c].pc \notin {"sending", "settling"}
      /\ \A d \in Cycles : d # c => cycle'[d] = cycle[d]
  BY <1>3, LeaveCycle
<1> QED BY <1>2, <1>4

LEMMA SearchClaim ==
  ASSUME TypeOK, ClaimInv, NEW c \in Cycles,
         StartCycle(c) \/ FindNew(c) \/ NextMail(c) \/ FindCandidates(c) \/ EndCycle(c)
  PROVE  ClaimInv'
<1>1. /\ ledger' = ledger /\ sends' = sends /\ left' = left /\ faults' = faults /\ item' = item
  BY DEF StartCycle, FindNew, NextMail, FindCandidates, EndCycle
<1> QED BY <1>1, SearchLeaves, Aside

LEMMA PrepareClaim ==
  ASSUME TypeOK, ClaimInv, NEW c \in Cycles,
         Guard(c) \/ Draft(c) \/ DraftFails(c) \/ Recheck(c)
  PROVE  ClaimInv'
<1>1. /\ ledger' = ledger /\ sends' = sends /\ left' = left /\ faults' = faults /\ item' = item
  BY DEF Guard, Draft, DraftFails, Recheck
<1> QED BY <1>1, PrepareLeaves, Aside

LEMMA ClaimClaim == ASSUME TypeOK, ClaimInv, NEW c \in Cycles, Claim(c) PROVE ClaimInv'
<1> DEFINE m == cycle[c].mail
<1>t. m \in Mails /\ cycle \in [Cycles -> CycleType] /\ ledger \in [Mails -> Records]
  BY WorkingMail DEF Claim, At, WorkPcs, TypeOK
<1>1. CASE ~Unclaimed(m) /\ Leave(c) /\ UNCHANGED ledgerVars
  BY <1>1, LeaveCycle, Aside DEF Claim, At
<1>2. ASSUME Unclaimed(m), Claimed(cycle[c].path, m), Goto(c, "sending") PROVE ClaimInv'
  <2>1. PICK e \in Mails : e = m
    BY <1>t
  <2>2. /\ ledger' = [ledger EXCEPT ![e] = IF cycle[c].path = "rule" THEN "pending" ELSE "replied"]
        /\ sends' = sends /\ left' = left /\ item' = item /\ faults' = faults
    BY <1>2, <2>1 DEF Claim, Claimed
  <2>3. /\ cycle'[c].mail = e /\ cycle'[c].pc = "sending" /\ cycle'[c].path = cycle[c].path
        /\ \A d \in Cycles : d # c => cycle'[d] = cycle[d]
    BY <1>2, <1>t, <2>1 DEF Goto, CycleType
  <2>4. ledger[e] = "none" /\ sends[e] = 0 /\ left[e] = 0
    BY <1>2, <2>1 DEF Unclaimed, ClaimInv, Sent, TypeOK
  <2>5. \A d \in Cycles : ~Holds(d, e)
    BY <2>4 DEF ClaimInv, HolderInv
  <2>6. \A d \in Cycles : d # c => (\A x \in Mails : Holds(d, x)' <=> Holds(d, x))
    BY <2>3 DEF Holds
  <2>7. Holds(c, e)' /\ \A x \in Mails : x # e => ~Holds(c, x)'
    BY <2>3 DEF Holds
  <2>8. ~\E x \in Mails : Holds(c, x)
    BY DEF Holds, Claim, At
  <2>9. OneHolder'
    BY <2>5, <2>6, <2>7 DEF ClaimInv, OneHolder
  <2>10. HolderInv'
    <3> SUFFICES ASSUME NEW x \in Mails, NEW d \in Cycles, Holds(d, x)'
                 PROVE  /\ ledger'[x] = IF cycle'[d].path = "rule" THEN "pending" ELSE "replied"
                        /\ cycle'[d].pc = "sending" => sends'[x] = 0
                        /\ cycle'[d].pc = "settling" =>
                             /\ cycle'[d].out = "accepted" => left'[x] = 1
                             /\ cycle'[d].out = "unsupported" => left'[x] = 0
      BY DEF HolderInv
    <3>1. CASE d = c
      BY <3>1, <1>t, <2>2, <2>3, <2>4, <2>7
    <3>2. CASE d # c
      <4>1. Holds(d, x) /\ cycle'[d] = cycle[d] /\ x # e
        BY <3>2, <2>3, <2>5, <2>6
      <4> QED BY <1>t, <2>2, <4>1 DEF ClaimInv, HolderInv
    <3> QED BY <3>1, <3>2
  <2>11. ASSUME NEW x \in Mails PROVE Sent(x)' /\ Recorded(x)' /\ Owned(x)'
    <3>1. CASE x = e
      BY <3>1, <1>t, <2>2, <2>4, <2>7 DEF ClaimInv, Sent, Recorded, Owned, TypeOK
    <3>2. CASE x # e
      BY <3>2, <1>t, <2>2, <2>6, <2>8 DEF ClaimInv, Sent, Recorded, Owned
    <3> QED BY <3>1, <3>2
  <2> QED BY <2>9, <2>10, <2>11 DEF ClaimInv
<1> QED BY <1>1, <1>2 DEF Claim

LEMMA SendClaim == ASSUME TypeOK, ClaimInv, NEW c \in Cycles, Send(c) PROVE ClaimInv'
<1>t. /\ cycle[c].mail \in Mails /\ cycle \in [Cycles -> CycleType]
      /\ sends \in [Mails -> Nat] /\ left \in [Mails -> Nat]
  BY WorkingMail DEF Send, At, WorkPcs, TypeOK
<1>1. PICK e \in Mails : e = cycle[c].mail
  BY <1>t
<1>2. PICK out \in Outcomes, gone \in {0, 1} :
        /\ out = "accepted" => gone = 1
        /\ out = "unsupported" => gone = 0
        /\ left' = [left EXCEPT ![e] = @ + gone]
        /\ cycle' = [cycle EXCEPT ![c] = [@ EXCEPT !.pc = "settling", !.out = out]]
  BY <1>1 DEF Send
<1>3. /\ sends' = [sends EXCEPT ![e] = @ + 1]
      /\ ledger' = ledger /\ item' = item /\ faults' = faults
  BY <1>1 DEF Send
<1>4. /\ cycle'[c].mail = e /\ cycle'[c].pc = "settling" /\ cycle'[c].out = out
      /\ cycle'[c].path = cycle[c].path
      /\ \A d \in Cycles : d # c => cycle'[d] = cycle[d]
  BY <1>t, <1>1, <1>2 DEF CycleType
<1>5. Holds(c, e)
  BY <1>1 DEF Holds, Send, At
<1>6. /\ ledger[e] = IF cycle[c].path = "rule" THEN "pending" ELSE "replied"
      /\ sends[e] = 0 /\ left[e] = 0
  BY <1>t, <1>5 DEF ClaimInv, HolderInv, Sent, Send, At
<1>7. /\ sends'[e] = 1 /\ left'[e] = gone
      /\ \A x \in Mails : x # e => sends'[x] = sends[x] /\ left'[x] = left[x]
  BY <1>t, <1>2, <1>3, <1>6
<1>8. \A d \in Cycles, x \in Mails : Holds(d, x)' <=> Holds(d, x)
  BY <1>1, <1>4, <1>5 DEF Holds
<1>9. OneHolder'
  BY <1>8 DEF ClaimInv, OneHolder
<1>10. HolderInv'
  <2> SUFFICES ASSUME NEW x \in Mails, NEW d \in Cycles, Holds(d, x)'
               PROVE  /\ ledger'[x] = IF cycle'[d].path = "rule" THEN "pending" ELSE "replied"
                      /\ cycle'[d].pc = "sending" => sends'[x] = 0
                      /\ cycle'[d].pc = "settling" =>
                           /\ cycle'[d].out = "accepted" => left'[x] = 1
                           /\ cycle'[d].out = "unsupported" => left'[x] = 0
    BY DEF HolderInv
  <2>1. Holds(d, x)
    BY <1>8
  <2>2. CASE d = c
    <3>1. x = e
      BY <2>1, <2>2, <1>1 DEF Holds
    <3> QED BY <2>2, <3>1, <1>2, <1>3, <1>4, <1>6, <1>7
  <2>3. CASE d # c
    <3>1. x # e
      BY <2>1, <2>3, <1>5 DEF ClaimInv, OneHolder
    <3> QED BY <2>1, <2>3, <3>1, <1>3, <1>4, <1>7 DEF ClaimInv, HolderInv
  <2> QED BY <2>2, <2>3
<1>11. ASSUME NEW x \in Mails PROVE Sent(x)' /\ Recorded(x)' /\ Owned(x)'
  <2>1. Owned(x)'
    <3>1. CASE x = e
      BY <3>1, <1>5, <1>8 DEF Owned
    <3>2. CASE x # e
      BY <3>2, <1>3, <1>7, <1>8 DEF ClaimInv, Owned
    <3> QED BY <3>1, <3>2
  <2>2. CASE x = e
    <3>1. ledger[e] \in {"pending", "replied"} /\ item[e] # "RESOLVED"
      BY <1>6 DEF ClaimInv, Recorded
    <3> QED BY <2>1, <2>2, <3>1, <1>2, <1>3, <1>7 DEF Sent, Recorded
  <2>3. CASE x # e
    BY <2>1, <2>3, <1>3, <1>7 DEF ClaimInv, Sent, Recorded
  <2> QED BY <2>2, <2>3
<1> QED BY <1>9, <1>10, <1>11 DEF ClaimInv

\* A cycle that settles the claim of mail e: it writes the record and lets go.
LEMMA Settled ==
  ASSUME TypeOK, ClaimInv, NEW c \in Cycles, NEW e \in Mails, NEW record,
         Holds(c, e), Leave(c),
         ledger' = [ledger EXCEPT ![e] = record], sends' = sends, left' = left, faults' = faults,
         \A x \in Mails : x # e => item'[x] = item[x],
         item'[e] = "RESOLVED" => left[e] = 1,
         record \in {"sent", "failed", "unconfirmed", "replied"},
         record \in {"sent", "replied"} => left[e] = 1,
         record = "failed" => left[e] = 0
  PROVE  ClaimInv'
<1>t. ledger \in [Mails -> Records]
  BY DEF TypeOK
<1>1. /\ cycle'[c].pc = "next"
      /\ \A d \in Cycles : d # c => cycle'[d] = cycle[d]
  BY LeaveCycle
<1>2. /\ ledger'[e] = record
      /\ \A x \in Mails : x # e => ledger'[x] = ledger[x]
  BY <1>t
<1>3. \A d \in Cycles, x \in Mails : Holds(d, x)' <=> d # c /\ Holds(d, x)
  BY <1>1 DEF Holds
<1>4. \A d \in Cycles : ~Holds(d, e)'
  BY <1>3 DEF ClaimInv, OneHolder
<1>5. \A x \in Mails : x # e => ~Holds(c, x)
  BY DEF Holds
<1>6. OneHolder'
  BY <1>3 DEF ClaimInv, OneHolder
<1>7. HolderInv'
  <2> SUFFICES ASSUME NEW x \in Mails, NEW d \in Cycles, Holds(d, x)'
               PROVE  /\ ledger'[x] = IF cycle'[d].path = "rule" THEN "pending" ELSE "replied"
                      /\ cycle'[d].pc = "sending" => sends'[x] = 0
                      /\ cycle'[d].pc = "settling" =>
                           /\ cycle'[d].out = "accepted" => left'[x] = 1
                           /\ cycle'[d].out = "unsupported" => left'[x] = 0
    BY DEF HolderInv
  <2>1. Holds(d, x) /\ d # c /\ x # e
    BY <1>3, <1>4
  <2> QED BY <2>1, <1>1, <1>2 DEF ClaimInv, HolderInv
<1>8. ASSUME NEW x \in Mails PROVE Sent(x)' /\ Recorded(x)' /\ Owned(x)'
  <2>1. CASE x = e
    BY <2>1, <1>2 DEF ClaimInv, Sent, Recorded, Owned
  <2>2. CASE x # e
    BY <2>2, <1>2, <1>3, <1>5 DEF ClaimInv, Sent, Recorded, Owned
  <2> QED BY <2>1, <2>2
<1> QED BY <1>6, <1>7, <1>8 DEF ClaimInv

LEMMA SettleClaim ==
  ASSUME TypeOK, ClaimInv, NEW c \in Cycles, SettleRule(c) \/ SettleMode(c)
  PROVE  ClaimInv'
<1>t. /\ cycle[c].mail \in Mails /\ cycle[c].pc = "settling" /\ cycle[c].out \in Outcomes
      /\ ledger \in [Mails -> Records]
      /\ item \in [Mails -> {"NONE", "OPEN", "RESOLVED", "CLOSED"}]
  BY WorkingMail DEF SettleRule, SettleMode, At, WorkPcs, TypeOK, CycleType
<1>1. PICK e \in Mails : e = cycle[c].mail
  BY <1>t
<1>2. PICK out \in Outcomes : out = cycle[c].out
  BY <1>t
<1>3. Holds(c, e)
  BY <1>t, <1>1 DEF Holds
<1>4. /\ ledger[e] = IF cycle[c].path = "rule" THEN "pending" ELSE "replied"
      /\ out = "accepted" => left[e] = 1
      /\ out = "unsupported" => left[e] = 0
  BY <1>t, <1>2, <1>3 DEF ClaimInv, HolderInv
<1>5. /\ Record(out) \in {"sent", "failed", "unconfirmed"}
      /\ Record(out) = "sent" => left[e] = 1
      /\ Record(out) = "failed" => left[e] = 0
  BY <1>4 DEF Record, Outcomes
<1>6. item[e] = "RESOLVED" => left[e] = 1
  BY DEF ClaimInv, Recorded
<1>7. ASSUME SettleRule(c) PROVE ClaimInv'
  <2>1. /\ ledger' = [ledger EXCEPT ![e] = Record(out)] /\ Leave(c)
        /\ sends' = sends /\ left' = left /\ faults' = faults /\ item' = item
    BY <1>1, <1>2, <1>7 DEF SettleRule
  <2> QED BY <1>3, <1>5, <1>6, <2>1, Settled
<1>8. ASSUME SettleMode(c) PROVE ClaimInv'
  <2>1. /\ ledger' = IF out = "accepted" THEN ledger ELSE [ledger EXCEPT ![e] = Record(out)]
        /\ item' = IF Resolves(out) THEN [item EXCEPT ![e] = "RESOLVED"] ELSE item
        /\ Leave(c) /\ cycle[c].path = "mode"
        /\ sends' = sends /\ left' = left /\ faults' = faults
    BY <1>1, <1>2, <1>8 DEF SettleMode
  <2>2. /\ \A x \in Mails : x # e => item'[x] = item[x]
        /\ item'[e] = "RESOLVED" => left[e] = 1
    BY <1>t, <1>4, <1>6, <2>1 DEF Resolves
  <2>3. CASE out = "accepted"
    <3>1. ledger[e] = "replied"
      BY <1>4, <2>1
    <3>2. ledger' = [ledger EXCEPT ![e] = "replied"]
      BY <1>t, <2>1, <2>3, <3>1
    <3> QED BY <1>3, <1>4, <2>1, <2>2, <2>3, <3>2, Settled
  <2>4. CASE out # "accepted"
    <3>1. ledger' = [ledger EXCEPT ![e] = Record(out)]
      BY <2>1, <2>4
    <3> QED BY <1>3, <1>5, <2>1, <2>2, <3>1, Settled
  <2> QED BY <2>3, <2>4
<1> QED BY <1>7, <1>8

LEMMA FaultClaim == ASSUME TypeOK, ClaimInv, FaultStep PROVE ClaimInv'
<1>1. ASSUME Crash PROVE ClaimInv'
  <2>1. \A c \in Cycles : cycle'[c].pc \notin {"sending", "settling"}
    BY <1>1 DEF Crash, IdleCycle
  <2> QED BY <1>1, <2>1, Dropped DEF Crash, Fault, TypeOK
<1>2. ASSUME NEW c \in Cycles, SettleFails(c) PROVE ClaimInv'
  BY <1>2, LeaveCycle, Dropped DEF SettleFails, Fault, TypeOK
<1>3. ASSUME NEW c \in Cycles, ClaimFails(c) PROVE ClaimInv'
  <2>t. /\ cycle[c].mail \in Mails /\ ledger \in [Mails -> Records]
        /\ cycle[c].pc = "claiming" /\ faults' > 0
    BY <1>3, WorkingMail DEF ClaimFails, At, WorkPcs, Fault, TypeOK
  <2>1. CASE UNCHANGED ledgerVars
    BY <1>3, <2>1, <2>t, LeaveCycle, Dropped DEF ClaimFails
  <2>2. ASSUME Unclaimed(cycle[c].mail), Claimed(cycle[c].path, cycle[c].mail) PROVE ClaimInv'
    <3>1. PICK e \in Mails : e = cycle[c].mail
      BY <2>t
    <3>2. /\ ledger[e] = "none" /\ ledger'[e] \in {"pending", "replied"}
          /\ \A x \in Mails : x # e => ledger'[x] = ledger[x]
          /\ sends' = sends /\ left' = left /\ item' = item
      BY <1>3, <2>2, <2>t, <3>1 DEF Unclaimed, Claimed, ClaimFails
    <3>3. \A d \in Cycles : ~Holds(d, e)
      BY <3>2 DEF ClaimInv, HolderInv
    <3>4. ASSUME NEW d \in Cycles, NEW x \in Mails, Holds(d, x)'
          PROVE  Holds(d, x) /\ cycle'[d] = cycle[d] /\ x # e
      BY <1>3, <3>3, <3>4, LeaveCycle DEF ClaimFails, Holds
    <3>5. OneHolder'
      BY <3>4 DEF ClaimInv, OneHolder
    <3>6. HolderInv'
      <4> SUFFICES ASSUME NEW x \in Mails, NEW d \in Cycles, Holds(d, x)'
                   PROVE  /\ ledger'[x] = IF cycle'[d].path = "rule" THEN "pending" ELSE "replied"
                          /\ cycle'[d].pc = "sending" => sends'[x] = 0
                          /\ cycle'[d].pc = "settling" =>
                               /\ cycle'[d].out = "accepted" => left'[x] = 1
                               /\ cycle'[d].out = "unsupported" => left'[x] = 0
        BY DEF HolderInv
      <4> QED BY <3>2, <3>4 DEF ClaimInv, HolderInv
    <3>7. ASSUME NEW x \in Mails PROVE Sent(x)' /\ Recorded(x)' /\ Owned(x)'
      BY <2>t, <3>2 DEF ClaimInv, Sent, Recorded, Owned
    <3> QED BY <3>5, <3>6, <3>7 DEF ClaimInv
  <2> QED BY <1>3, <2>1, <2>2 DEF ClaimFails
<1> QED BY <1>1, <1>2, <1>3 DEF FaultStep

LEMMA ClaimNext == TypeOK /\ ClaimInv /\ [Next]_vars => ClaimInv'
<1> SUFFICES ASSUME TypeOK, ClaimInv, [Next]_vars PROVE ClaimInv'
  OBVIOUS
<1>1. ASSUME NEW c \in Cycles, CycleStep(c) PROVE ClaimInv'
  BY <1>1, SearchClaim, PrepareClaim, ClaimClaim, SendClaim, SettleClaim DEF CycleStep
<1>2. ASSUME NEW m \in Mails, SyncElsewhere(m) \/ JudgeItem(m) \/ DeleteMail(m) \/ CloseItem(m)
      PROVE  ClaimInv'
  <2>1. \A x \in Mails : item'[x] = "RESOLVED" => item[x] = "RESOLVED"
    BY <1>2 DEF SyncElsewhere, JudgeItem, DeleteMail, CloseItem, TypeOK
  <2> QED BY <1>2, <2>1, Aside DEF SyncElsewhere, JudgeItem, DeleteMail, CloseItem
<1>3. ASSUME ClearNotifications \/ Midnight PROVE ClaimInv'
  BY <1>3, Aside DEF ClearNotifications, Midnight
<1>4. CASE FaultStep
  BY <1>4, FaultClaim
<1>5. CASE UNCHANGED vars
  BY <1>5, Aside DEF vars
<1> QED BY <1>1, <1>2, <1>3, <1>4, <1>5 DEF Next

LEMMA ClaimAlways == Spec => []ClaimInv
<1>1. Init => ClaimInv
  BY ClaimInit
<1>2. TypeOK /\ ClaimInv /\ [Next]_vars => ClaimInv'
  BY ClaimNext
<1> QED BY <1>1, <1>2, ReplyTypeCorrect, PTL DEF Spec

\* No mail is answered twice: rule path, auto mode, overlapping cycles, crashes,
\* lost acknowledgements and a cleared bell hand a reply to the provider once.
THEOREM NoDoubleReply == Spec => []AtMostOneReply
<1>1. ClaimInv => AtMostOneReply
  BY DEF ClaimInv, Sent, AtMostOneReply
<1> QED BY <1>1, ClaimAlways, PTL

\* The claim record says of a reply only what the provider's answer proves.
THEOREM RecordsAreTrue == Spec => []LedgerIsTrue
<1>1. ClaimInv => LedgerIsTrue
  BY DEF ClaimInv, Recorded, Owned, Holds, LedgerIsTrue, Working, WorkPcs
<1> QED BY <1>1, ClaimAlways, PTL

\* Auto mode takes a mail out of the queue only when its reply went out.
THEOREM ResolvedWereAnswered == Spec => []ResolvedMeansAnswered
<1>1. ClaimInv => ResolvedMeansAnswered
  BY DEF ClaimInv, Recorded, ResolvedMeansAnswered
<1> QED BY <1>1, ClaimAlways, PTL

-----------------------------------------------------------------------------
(* Every step is a step of ReplyPromise for one mail, or changes none.     *)

\* The owner of a claim has not taken the mail out of the queue yet, and has
\* sent once it settles.
HeldInv ==
    \A m \in Mails : \A c \in Cycles :
      Holds(c, m) =>
        /\ item[m] # "RESOLVED"
        /\ cycle[c].pc = "settling" => sends[m] = 1

\* The abstract state that the mapping reads off.
AbstractSame ==
    /\ ledger' = ledger /\ sends' = sends /\ left' = left
    /\ \A m \in Mails : item'[m] = "RESOLVED" <=> item[m] = "RESOLVED"

LEMMA Stutters ==
  ASSUME AbstractSame
  PROVE  UNCHANGED Promise!vars
<1>1. [m \in Mails |-> item'[m] = "RESOLVED"] = [m \in Mails |-> item[m] = "RESOLVED"]
  BY DEF AbstractSame
<1> QED BY <1>1 DEF AbstractSame, Promise!vars

\* A step that keeps every claim, or drops some, and sends or settles nothing.
LEMMA HeldAside ==
  ASSUME HeldInv, sends' = sends,
         \A m \in Mails : item'[m] = "RESOLVED" => item[m] = "RESOLVED",
         \A c \in Cycles : \/ cycle'[c] = cycle[c]
                           \/ cycle'[c].pc \notin {"sending", "settling"}
  PROVE  HeldInv'
<1>1. ASSUME NEW c \in Cycles, NEW m \in Mails, Holds(c, m)'
      PROVE  Holds(c, m) /\ cycle'[c] = cycle[c]
  BY <1>1 DEF Holds
<1> QED BY <1>1 DEF HeldInv

\* The steps before a claim and those of others.
LEMMA SearchKeeps ==
  ASSUME TypeOK, HeldInv, NEW c \in Cycles,
         \/ StartCycle(c) \/ FindNew(c) \/ NextMail(c) \/ FindCandidates(c) \/ EndCycle(c)
         \/ Guard(c) \/ Draft(c) \/ DraftFails(c) \/ Recheck(c)
  PROVE  HeldInv' /\ AbstractSame
<1>1. ledger' = ledger /\ sends' = sends /\ left' = left /\ item' = item
  BY DEF StartCycle, FindNew, NextMail, FindCandidates, EndCycle, Guard, Draft, DraftFails, Recheck
<1>2. cycle'[c].pc \notin {"sending", "settling"} /\ \A d \in Cycles : d # c => cycle'[d] = cycle[d]
  BY SearchLeaves, PrepareLeaves
<1>3. HeldInv'
  BY <1>1, <1>2, HeldAside
<1> QED BY <1>1, <1>3 DEF AbstractSame

\* A claim, whether its acknowledgement arrives or not.
LEMMA ClaimKeeps ==
  ASSUME TypeOK, ClaimInv, HeldInv, NEW c \in Cycles, Claim(c) \/ ClaimFails(c)
  PROVE  /\ HeldInv'
         /\ \/ AbstractSame
            \/ \E m \in Mails : Promise!Claim(m)
<1>t. /\ cycle[c].mail \in Mails /\ cycle \in [Cycles -> CycleType]
      /\ ledger \in [Mails -> Records] /\ cycle[c].pc = "claiming"
      /\ sends' = sends /\ left' = left /\ item' = item
  BY WorkingMail DEF Claim, ClaimFails, At, WorkPcs, TypeOK
<1>1. PICK e \in Mails : e = cycle[c].mail
  BY <1>t
<1>2. ASSUME Unclaimed(e), Claimed(cycle[c].path, e) PROVE \E m \in Mails : Promise!Claim(m)
  <2>1. PICK r \in {"pending", "replied"} : ledger' = [ledger EXCEPT ![e] = r]
    BY <1>2 DEF Claimed
  <2>2. ledger[e] = "none"
    BY <1>2 DEF Unclaimed
  <2>3. Promise!Claim(e)
    BY <2>1, <2>2, <1>t DEF Promise!Claim
  <2> QED BY <2>3
<1>3. CASE Leave(c)
  <2>1. HeldInv'
    BY <1>3, <1>t, LeaveCycle, HeldAside
  <2>2. ledger' = ledger \/ (Unclaimed(e) /\ Claimed(cycle[c].path, e))
    <3>1. CASE Claim(c)
      <4>1. ledger' = ledger \/ Goto(c, "sending")
        BY <3>1 DEF Claim
      <4>2. Goto(c, "sending") => cycle'[c].pc = "sending"
        BY <1>t DEF Goto, CycleType
      <4> QED BY <4>1, <4>2, <1>3, LeaveCycle
    <3>2. CASE ClaimFails(c)
      BY <3>2, <1>1 DEF ClaimFails
    <3> QED BY <3>1, <3>2
  <2>3. ledger' = ledger => AbstractSame
    BY <1>t DEF AbstractSame
  <2> QED BY <2>1, <2>2, <2>3, <1>2
<1>4. CASE Claim(c) /\ Unclaimed(e) /\ Claimed(cycle[c].path, e) /\ Goto(c, "sending")
  <2>1. /\ cycle'[c].pc = "sending" /\ cycle'[c].mail = e
        /\ \A d \in Cycles : d # c => cycle'[d] = cycle[d]
    BY <1>4, <1>t, <1>1 DEF Goto, CycleType
  <2>2. item[e] # "RESOLVED"
    <3>1. sends[e] = 0
      BY <1>4 DEF ClaimInv, Sent, Unclaimed, TypeOK
    <3>2. left[e] # 1
      BY <3>1 DEF ClaimInv, Sent, TypeOK
    <3> QED BY <3>2 DEF ClaimInv, Recorded
  <2>3. HeldInv'
    <3> SUFFICES ASSUME NEW m \in Mails, NEW d \in Cycles, Holds(d, m)'
                 PROVE  item'[m] # "RESOLVED" /\ (cycle'[d].pc = "settling" => sends'[m] = 1)
      BY DEF HeldInv
    <3>1. CASE d = c
      BY <3>1, <2>1, <2>2, <1>t DEF Holds
    <3>2. CASE d # c
      BY <3>2, <2>1, <1>t DEF Holds, HeldInv
    <3> QED BY <3>1, <3>2
  <2> QED BY <2>3, <1>4, <1>2
<1> QED BY <1>1, <1>3, <1>4 DEF Claim, ClaimFails

\* A send by the owner of the claim.
LEMMA SendKeeps ==
  ASSUME TypeOK, ClaimInv, HeldInv, NEW c \in Cycles, Send(c)
  PROVE  HeldInv' /\ \E m \in Mails : Promise!Hand(m)
<1>t. /\ cycle[c].mail \in Mails /\ cycle \in [Cycles -> CycleType] /\ cycle[c].pc = "sending"
      /\ sends \in [Mails -> Nat] /\ left \in [Mails -> Nat]
      /\ ledger' = ledger /\ item' = item
  BY WorkingMail DEF Send, At, WorkPcs, TypeOK
<1>1. PICK e \in Mails : e = cycle[c].mail
  BY <1>t
<1>2. PICK out \in Outcomes, gone \in {0, 1} :
        /\ left' = [left EXCEPT ![e] = @ + gone]
        /\ cycle' = [cycle EXCEPT ![c] = [@ EXCEPT !.pc = "settling", !.out = out]]
  BY <1>1 DEF Send
<1>3. sends' = [sends EXCEPT ![e] = @ + 1]
  BY <1>1 DEF Send
<1>4. Holds(c, e)
  BY <1>t, <1>1 DEF Holds
<1>5. /\ ledger[e] \in {"pending", "replied"} /\ sends[e] = 0 /\ left[e] = 0
      /\ item[e] # "RESOLVED"
  BY <1>t, <1>4 DEF ClaimInv, HolderInv, Sent, HeldInv
<1>6. sends' = [sends EXCEPT ![e] = 1] /\ left' = [left EXCEPT ![e] = gone]
  <2>1. sends[e] + 1 = 1 /\ left[e] + gone = gone
    BY <1>5
  <2>2. sends' = [sends EXCEPT ![e] = sends[e] + 1] /\ left' = [left EXCEPT ![e] = left[e] + gone]
    BY <1>2, <1>3
  <2> QED BY <2>1, <2>2
<1>7. Promise!Hand(e)
  <2>1. Promise!Unsettled(e)
    BY <1>5 DEF Promise!Unsettled
  <2>2. [m \in Mails |-> item'[m] = "RESOLVED"] = [m \in Mails |-> item[m] = "RESOLVED"]
    BY <1>t
  <2> QED BY <2>1, <2>2, <1>t, <1>5, <1>6 DEF Promise!Hand
<1>8. /\ cycle'[c].mail = e
      /\ \A d \in Cycles : d # c => cycle'[d] = cycle[d]
  BY <1>t, <1>1, <1>2 DEF CycleType
<1>9. HeldInv'
  <2> SUFFICES ASSUME NEW m \in Mails, NEW d \in Cycles, Holds(d, m)'
               PROVE  item'[m] # "RESOLVED" /\ (cycle'[d].pc = "settling" => sends'[m] = 1)
    BY DEF HeldInv
  <2>1. CASE d = c
    <3>1. m = e
      BY <2>1, <1>8 DEF Holds
    <3> QED BY <3>1, <1>5, <1>6, <1>t
  <2>2. CASE d # c
    <3>1. Holds(d, m) /\ m # e
      BY <2>2, <1>8, <1>4 DEF Holds, ClaimInv, OneHolder
    <3> QED BY <2>2, <3>1, <1>6, <1>8, <1>t DEF HeldInv
  <2> QED BY <2>1, <2>2
<1> QED BY <1>7, <1>9

\* A settlement by the owner of the claim, after which nobody owns it.
LEMMA SettleKeeps ==
  ASSUME TypeOK, ClaimInv, HeldInv, NEW c \in Cycles, SettleRule(c) \/ SettleMode(c)
  PROVE  HeldInv' /\ \E m \in Mails : Promise!Settle(m) \/ Promise!Answer(m)
<1>t. /\ cycle[c].mail \in Mails /\ cycle[c].pc = "settling" /\ cycle[c].out \in Outcomes
      /\ ledger \in [Mails -> Records] /\ sends' = sends /\ left' = left
      /\ item \in [Mails -> {"NONE", "OPEN", "RESOLVED", "CLOSED"}]
      /\ Leave(c)
  BY WorkingMail DEF SettleRule, SettleMode, At, WorkPcs, TypeOK, CycleType
<1>1. PICK e \in Mails : e = cycle[c].mail
  BY <1>t
<1>2. PICK out \in Outcomes : out = cycle[c].out
  BY <1>t
<1>3. Holds(c, e)
  BY <1>t, <1>1 DEF Holds
<1>4. /\ ledger[e] = IF cycle[c].path = "rule" THEN "pending" ELSE "replied"
      /\ out = "accepted" => left[e] = 1
      /\ out = "unsupported" => left[e] = 0
      /\ sends[e] = 1 /\ item[e] # "RESOLVED"
  BY <1>t, <1>2, <1>3 DEF ClaimInv, HolderInv, HeldInv
<1>5. Promise!Unsettled(e)
  BY <1>4 DEF Promise!Unsettled
<1>6. /\ Record(out) \in {"sent", "failed", "unconfirmed"}
      /\ Record(out) = "sent" => left[e] = 1
      /\ Record(out) = "failed" => left[e] = 0
  BY <1>4 DEF Record, Outcomes
<1>7. \A m \in Mails : m # e => item'[m] = item[m]
  BY <1>1, <1>t DEF SettleRule, SettleMode
<1>8. HeldInv'
  <2> SUFFICES ASSUME NEW m \in Mails, NEW d \in Cycles, Holds(d, m)'
               PROVE  item'[m] # "RESOLVED" /\ (cycle'[d].pc = "settling" => sends'[m] = 1)
    BY DEF HeldInv
  <2>1. d # c /\ cycle'[d] = cycle[d]
    BY <1>t, LeaveCycle DEF Holds
  <2>2. Holds(d, m) /\ m # e
    BY <2>1, <1>3 DEF Holds, ClaimInv, OneHolder
  <2> QED BY <2>1, <2>2, <1>7, <1>t DEF HeldInv
<1>9. ASSUME ledger' = [ledger EXCEPT ![e] = Record(out)], item' = item PROVE Promise!Settle(e)
  <2>1. [m \in Mails |-> item'[m] = "RESOLVED"] = [m \in Mails |-> item[m] = "RESOLVED"]
    BY <1>9
  <2> QED BY <2>1, <1>9, <1>t, <1>4, <1>5, <1>6 DEF Promise!Settle
<1>10. CASE SettleRule(c)
  BY <1>10, <1>1, <1>2, <1>8, <1>9 DEF SettleRule
<1>11. CASE SettleMode(c) /\ out # "accepted"
  BY <1>11, <1>1, <1>2, <1>8, <1>9 DEF SettleMode, Resolves
<1>12. CASE SettleMode(c) /\ out = "accepted"
  <2>1. /\ ledger' = ledger /\ item' = [item EXCEPT ![e] = "RESOLVED"]
        /\ cycle[c].path = "mode"
    BY <1>12, <1>1, <1>2 DEF SettleMode, Resolves
  <2>2. [m \in Mails |-> item'[m] = "RESOLVED"]
          = [[m \in Mails |-> item[m] = "RESOLVED"] EXCEPT ![e] = TRUE]
    BY <2>1, <1>t
  <2>3. Promise!Answer(e)
    BY <2>1, <2>2, <1>12, <1>t, <1>4, <1>5 DEF Promise!Answer
  <2> QED BY <2>3, <1>8
<1> QED BY <1>2, <1>10, <1>11, <1>12

\* A crash and a failed settlement let go of claims and write nothing.
LEMMA FaultKeeps ==
  ASSUME TypeOK, HeldInv, Crash \/ \E c \in Cycles : SettleFails(c)
  PROVE  HeldInv' /\ AbstractSame
<1>1. ledger' = ledger /\ sends' = sends /\ left' = left /\ item' = item
  BY DEF Crash, SettleFails
<1>2. \A c \in Cycles : cycle'[c] = cycle[c] \/ cycle'[c].pc \notin {"sending", "settling"}
  <2>1. CASE Crash
    BY <2>1 DEF Crash, IdleCycle
  <2>2. ASSUME NEW c \in Cycles, SettleFails(c)
        PROVE  \A d \in Cycles : cycle'[d] = cycle[d] \/ cycle'[d].pc \notin {"sending", "settling"}
    BY <2>2, LeaveCycle DEF SettleFails
  <2> QED BY <2>1, <2>2
<1>3. HeldInv'
  BY <1>1, <1>2, HeldAside
<1> QED BY <1>1, <1>3 DEF AbstractSame

LEMMA PromiseNext ==
  TypeOK /\ ClaimInv /\ HeldInv /\ [Next]_vars => HeldInv' /\ [Promise!Next]_(Promise!vars)
<1> SUFFICES ASSUME TypeOK, ClaimInv, HeldInv, [Next]_vars
             PROVE  HeldInv' /\ [Promise!Next]_(Promise!vars)
  OBVIOUS
<1> DEFINE Good == HeldInv' /\ (AbstractSame \/ Promise!Next)
<1>0. Good => HeldInv' /\ [Promise!Next]_(Promise!vars)
  BY Stutters
<1>1. ASSUME NEW c \in Cycles, CycleStep(c) PROVE Good
  BY <1>1, SearchKeeps, ClaimKeeps, SendKeeps, SettleKeeps DEF CycleStep, Promise!Next
<1>2. ASSUME NEW m \in Mails, SyncElsewhere(m) \/ JudgeItem(m) \/ DeleteMail(m) \/ CloseItem(m)
      PROVE  Good
  <2>1. \A x \in Mails : item'[x] = "RESOLVED" <=> item[x] = "RESOLVED"
    BY <1>2 DEF SyncElsewhere, JudgeItem, DeleteMail, CloseItem, TypeOK
  <2>2. ledger' = ledger /\ sends' = sends /\ left' = left /\ cycle' = cycle
    BY <1>2 DEF SyncElsewhere, JudgeItem, DeleteMail, CloseItem
  <2> QED BY <2>1, <2>2, HeldAside DEF AbstractSame
<1>3. ASSUME ClearNotifications \/ Midnight \/ UNCHANGED vars PROVE Good
  BY <1>3, HeldAside DEF ClearNotifications, Midnight, vars, AbstractSame
<1>4. ASSUME FaultStep PROVE Good
  BY <1>4, FaultKeeps, ClaimKeeps DEF FaultStep, Promise!Next
<1> QED BY <1>0, <1>1, <1>2, <1>3, <1>4 DEF Next

\* The two paths, overlapping cycles and every fault together keep the promise
\* of ReplyPromise: one claim, one send under it, one settlement that says
\* nothing false, and a settled claim is final.
THEOREM ImplementsReplyPromise == Spec => KeepsReplyPromise
<1>1. Init => Promise!Init /\ HeldInv
  <2> SUFFICES ASSUME Init PROVE Promise!Init /\ HeldInv
    OBVIOUS
  <2>1. [m \in Mails |-> item[m] = "RESOLVED"] = [m \in Mails |-> FALSE]
    BY DEF Init
  <2> QED BY <2>1 DEF Init, Promise!Init, HeldInv, Holds, IdleCycle
<1>2. TypeOK /\ ClaimInv /\ HeldInv /\ [Next]_vars => HeldInv' /\ [Promise!Next]_(Promise!vars)
  BY PromiseNext
<1> QED BY <1>1, <1>2, ReplyTypeCorrect, ClaimAlways, PTL DEF Spec, KeepsReplyPromise, Promise!Spec

-----------------------------------------------------------------------------
(* Unsettled claims stay out of the bell.                                  *)

\* The outcome of a send is never recorded as pending.
LEMMA RecordSettles == ASSUME NEW out \in Outcomes PROVE Record(out) # "pending"
  BY DEF Outcomes, Record

\* A new claim is pending exactly when it is hidden.
LEMMA ClaimedHidden ==
  ASSUME TypeOK, PendingIsHidden, NEW path \in {"rule", "mode"}, NEW m \in Mails, Claimed(path, m)
  PROVE  PendingIsHidden'
  BY DEF TypeOK, Claimed, ShowsClaim, PendingIsHidden

LEMMA HiddenNext == TypeOK /\ PendingIsHidden /\ [Next]_vars => PendingIsHidden'
<1> SUFFICES ASSUME TypeOK, PendingIsHidden, [Next]_vars PROVE PendingIsHidden'
  OBVIOUS
<1>1. ASSUME UNCHANGED <<ledger, shown>> PROVE PendingIsHidden'
  BY <1>1 DEF PendingIsHidden
<1>2. ASSUME NEW c \in Cycles, Claim(c) PROVE PendingIsHidden'
  <2>1. cycle[c].path \in {"rule", "mode"} /\ cycle[c].mail \in Mails
    BY <1>2 DEF TypeOK, CycleType, Claim, At, WorkPcs
  <2>2. Claimed(cycle[c].path, cycle[c].mail) \/ UNCHANGED <<ledger, shown>>
    BY <1>2 DEF Claim, ledgerVars
  <2> QED BY <1>1, <2>1, <2>2, ClaimedHidden
<1>3. ASSUME NEW c \in Cycles, ClaimFails(c) PROVE PendingIsHidden'
  <2>1. cycle[c].path \in {"rule", "mode"} /\ cycle[c].mail \in Mails
    BY <1>3 DEF TypeOK, CycleType, ClaimFails, At, WorkPcs
  <2>2. Claimed(cycle[c].path, cycle[c].mail) \/ UNCHANGED <<ledger, shown>>
    BY <1>3 DEF ClaimFails, ledgerVars
  <2> QED BY <1>1, <2>1, <2>2, ClaimedHidden
<1>4. ASSUME NEW c \in Cycles, SettleRule(c) PROVE PendingIsHidden'
  <2>1. cycle[c].out \in Outcomes
    BY DEF TypeOK, CycleType
  <2>2. Record(cycle[c].out) # "pending"
    BY <2>1, RecordSettles
  <2> QED BY <1>4, <2>2 DEF TypeOK, SettleRule, PendingIsHidden
<1>5. ASSUME NEW c \in Cycles, SettleMode(c) PROVE PendingIsHidden'
  <2>1. cycle[c].out \in Outcomes
    BY DEF TypeOK, CycleType
  <2>2. Record(cycle[c].out) # "pending"
    BY <2>1, RecordSettles
  <2> QED BY <1>5, <2>2 DEF TypeOK, SettleMode, PendingIsHidden
<1>6. ASSUME ClearNotifications PROVE PendingIsHidden'
  BY <1>6 DEF ClearNotifications, PendingIsHidden
<1>7. \/ UNCHANGED <<ledger, shown>>
      \/ \E c \in Cycles : Claim(c) \/ ClaimFails(c) \/ SettleRule(c) \/ SettleMode(c)
      \/ ClearNotifications
  <2>1. ASSUME NEW c \in Cycles, CycleStep(c)
        PROVE  \/ UNCHANGED <<ledger, shown>>
               \/ Claim(c) \/ SettleRule(c) \/ SettleMode(c)
    BY <2>1 DEF CycleStep, StartCycle, FindNew, NextMail, FindCandidates, EndCycle, Guard,
         Draft, DraftFails, Recheck, Send, ledgerVars
  <2>2. ASSUME NEW m \in Mails, SyncElsewhere(m) \/ JudgeItem(m) \/ DeleteMail(m) \/ CloseItem(m)
        PROVE  UNCHANGED <<ledger, shown>>
    BY <2>2 DEF SyncElsewhere, JudgeItem, DeleteMail, CloseItem, ledgerVars
  <2>3. Midnight \/ Crash \/ UNCHANGED vars => UNCHANGED <<ledger, shown>>
    BY DEF Midnight, Crash, vars, ledgerVars
  <2>4. ASSUME NEW c \in Cycles, SettleFails(c) PROVE UNCHANGED <<ledger, shown>>
    BY <2>4 DEF SettleFails, ledgerVars
  <2> QED BY <2>1, <2>2, <2>3, <2>4 DEF Next, FaultStep
<1> QED BY <1>1, <1>2, <1>3, <1>4, <1>5, <1>6, <1>7

\* The bell lists no rule claim whose send has not settled, also when claims
\* fail half-way and while cycles overlap.
THEOREM UnsettledStaysHidden == Spec => []PendingIsHidden
<1>1. Init => PendingIsHidden
  BY DEF Init, PendingIsHidden
<1> QED BY <1>1, HiddenNext, ReplyTypeCorrect, PTL DEF Spec

-----------------------------------------------------------------------------
(* The daily cap.                                                          *)

\* The cycles that passed the cap's check and have not claimed yet.
Admitted == {c \in Cycles : cycle[c].pc \in {"drafting", "drafted", "claiming"}}

\* The inductive invariant: every admitted cycle may still add one claim.
CapInv == Cardinality(today) + Cardinality(Admitted) + 1 <= Cap + Cardinality(Cycles)

LEMMA FiniteSets ==
  ASSUME TypeOK
  PROVE  /\ IsFiniteSet(today) /\ Cardinality(today) \in Nat
         /\ IsFiniteSet(Admitted) /\ Cardinality(Admitted) \in Nat
         /\ Cardinality(Cycles) \in Nat
         /\ Cardinality(Admitted) <= Cardinality(Cycles)
<1>1. today \subseteq Mails /\ Admitted \subseteq Cycles
  BY DEF TypeOK, Admitted
<1> QED BY <1>1, ReplyAssumption, FS_Subset, FS_CardinalityType

LEMMA CapInit == Init => CapInv
<1> SUFFICES ASSUME Init PROVE CapInv
  OBVIOUS
<1>1. today = {} /\ Admitted = {}
  BY DEF Init, IdleCycle, Admitted
<1>2. Cardinality(Cycles) \in Nat
  BY ReplyAssumption, FS_CardinalityType
<1> QED BY <1>1, <1>2, FS_EmptySet, ReplyAssumption DEF CapInv

\* A step that claims nothing and admits nobody.
LEMMA CapAside ==
  ASSUME TypeOK, TypeOK', CapInv, today' = today, Admitted' \subseteq Admitted
  PROVE  CapInv'
<1>1. Cardinality(Admitted') <= Cardinality(Admitted)
  BY FiniteSets, FS_Subset
<1>2. /\ Cardinality(today) \in Nat /\ Cardinality(Admitted) \in Nat
      /\ Cardinality(Admitted') \in Nat /\ Cardinality(Cycles) \in Nat
  <2>1. IsFiniteSet(Admitted')
    BY FiniteSets, FS_Subset
  <2> QED BY <2>1, FiniteSets, FS_CardinalityType
<1> QED BY <1>1, <1>2, ReplyAssumption DEF CapInv

\* A step of cycle c alone that leaves it outside the admitted ones.
LEMMA CapOthers ==
  ASSUME NEW c \in Cycles, \A d \in Cycles : d # c => cycle'[d] = cycle[d],
         cycle'[c].pc \in {"drafting", "drafted", "claiming"} => c \in Admitted
  PROVE  Admitted' \subseteq Admitted
  BY DEF Admitted

LEMMA CapGuard ==
  ASSUME TypeOK, TypeOK', CapInv, NEW c \in Cycles, Guard(c)
  PROVE  CapInv'
<1>1. CASE Leave(c)
  BY <1>1, LeaveCycle, CapOthers, CapAside DEF Guard
<1>2. ASSUME MayReply(c) PROVE CapInv'
  <2>1. Cardinality(today) < Cap /\ today' = today
    BY <1>2 DEF MayReply, RepliesToday, Guard
  <2>2. Cardinality(Admitted') <= Cardinality(Cycles) /\ Cardinality(Admitted') \in Nat
    <3>1. Admitted' \subseteq Cycles
      BY DEF Admitted
    <3> QED BY <3>1, FS_Subset, FS_CardinalityType, ReplyAssumption
  <2>3. Cardinality(today) \in Nat /\ Cardinality(Cycles) \in Nat
    BY FiniteSets
  <2> QED BY <2>1, <2>2, <2>3, ReplyAssumption DEF CapInv
<1> QED BY <1>1, <1>2 DEF Guard

\* A claim turns one admitted cycle into one reply of the day.
LEMMA CapClaim ==
  ASSUME TypeOK, TypeOK', CapInv, NEW c \in Cycles, cycle[c].pc = "claiming",
         NEW m \in Mails, today' = today \cup {m},
         \A d \in Cycles : d # c => cycle'[d] = cycle[d],
         cycle'[c].pc \notin {"drafting", "drafted", "claiming"}
  PROVE  CapInv'
<1>1. Cardinality(today') <= Cardinality(today) + 1 /\ Cardinality(today') \in Nat
  <2>1. IsFiniteSet(today) /\ Cardinality(today) \in Nat
    BY FiniteSets
  <2>2. /\ IsFiniteSet(today \cup {m})
        /\ Cardinality(today \cup {m}) = IF m \in today THEN Cardinality(today)
                                                         ELSE Cardinality(today) + 1
    BY <2>1, FS_AddElement
  <2> QED BY <2>1, <2>2
<1>2. Admitted' = Admitted \ {c} /\ c \in Admitted
  BY DEF Admitted
<1>3. Cardinality(Admitted') = Cardinality(Admitted) - 1
  <2>1. IsFiniteSet(Admitted)
    BY FiniteSets
  <2> QED BY <1>2, <2>1, FS_RemoveElement
<1>4. /\ Cardinality(today) \in Nat /\ Cardinality(Admitted) \in Nat
      /\ Cardinality(Cycles) \in Nat
  BY FiniteSets
<1> QED BY <1>1, <1>3, <1>4, ReplyAssumption DEF CapInv

LEMMA CapNext == TypeOK /\ CapInv /\ [Next]_vars => CapInv'
<1> SUFFICES ASSUME TypeOK, CapInv, [Next]_vars PROVE CapInv'
  OBVIOUS
<1>t. TypeOK' /\ cycle \in [Cycles -> CycleType]
  BY NextType DEF TypeOK
<1>1. ASSUME NEW c \in Cycles,
             \/ StartCycle(c) \/ FindNew(c) \/ NextMail(c) \/ FindCandidates(c) \/ EndCycle(c)
      PROVE  CapInv'
  <2>1. today' = today /\ \A d \in Cycles : d # c => cycle'[d] = cycle[d]
    BY <1>1, <1>t DEF StartCycle, FindNew, NextMail, FindCandidates, EndCycle
  <2>2. cycle'[c].pc \notin {"drafting", "drafted", "claiming"}
    <3>1. ASSUME StartCycle(c) PROVE cycle'[c].pc = "synced"
      BY <1>t, <3>1 DEF StartCycle, CycleType
    <3>2. ASSUME FindNew(c) PROVE cycle'[c].pc = "next"
      BY <1>t, <3>2 DEF FindNew, CycleType
    <3>3. ASSUME NextMail(c) PROVE cycle'[c].pc \in {"next", "guarding"}
      BY <1>t, <3>3 DEF NextMail, CycleType, At
    <3>4. ASSUME FindCandidates(c) PROVE cycle'[c].pc = "next"
      BY <1>t, <3>4 DEF FindCandidates, CycleType, At
    <3>5. ASSUME EndCycle(c) PROVE cycle'[c].pc = "idle"
      BY <1>t, <3>5 DEF EndCycle, IdleCycle
    <3> QED BY <1>1, <3>1, <3>2, <3>3, <3>4, <3>5
  <2> QED BY <1>t, <2>1, <2>2, CapOthers, CapAside
<1>2. ASSUME NEW c \in Cycles, Guard(c) PROVE CapInv'
  BY <1>2, <1>t, CapGuard
<1>3. ASSUME NEW c \in Cycles, Draft(c) \/ DraftFails(c) \/ Recheck(c) PROVE CapInv'
  <2>1. today' = today /\ c \in Admitted
    BY <1>3 DEF Draft, DraftFails, Recheck, Admitted, At
  <2>2. Leave(c) \/ \A d \in Cycles : d # c => cycle'[d] = cycle[d]
    BY <1>3, <1>t DEF Draft, DraftFails, Recheck, Goto
  <2>3. \A d \in Cycles : d # c => cycle'[d] = cycle[d]
    BY <2>2, LeaveCycle
  <2> QED BY <1>t, <2>1, <2>3, CapOthers, CapAside
<1>4. ASSUME NEW c \in Cycles, Claim(c) \/ ClaimFails(c) PROVE CapInv'
  <2>1. cycle[c].pc = "claiming" /\ cycle[c].mail \in Mails
    BY <1>4, WorkingMail DEF Claim, ClaimFails, At, WorkPcs
  <2>2. Leave(c) \/ Goto(c, "sending")
    BY <1>4 DEF Claim, ClaimFails
  <2>3. /\ cycle'[c].pc \notin {"drafting", "drafted", "claiming"}
        /\ \A d \in Cycles : d # c => cycle'[d] = cycle[d]
    BY <1>t, <2>2, LeaveCycle DEF Goto, CycleType
  <2>4. today' = today \/ today' = today \cup {cycle[c].mail}
    BY <1>4 DEF Claim, ClaimFails, Claimed
  <2>5. CASE today' = today
    BY <1>t, <2>3, <2>5, CapOthers, CapAside
  <2>6. CASE today' = today \cup {cycle[c].mail}
    BY <1>t, <2>1, <2>3, <2>6, CapClaim
  <2> QED BY <2>4, <2>5, <2>6
<1>5. ASSUME NEW c \in Cycles,
             Send(c) \/ SettleRule(c) \/ SettleMode(c) \/ SettleFails(c)
      PROVE  CapInv'
  <2>1. today' = today
    BY <1>5 DEF Send, SettleRule, SettleMode, SettleFails
  <2>2. \/ Leave(c)
        \/ /\ cycle'[c].pc = "settling"
           /\ \A d \in Cycles : d # c => cycle'[d] = cycle[d]
    <3>1. ASSUME Send(c)
          PROVE  /\ cycle'[c].pc = "settling"
                 /\ \A d \in Cycles : d # c => cycle'[d] = cycle[d]
      <4>1. PICK out \in Outcomes :
              cycle' = [cycle EXCEPT ![c] = [@ EXCEPT !.pc = "settling", !.out = out]]
        BY <3>1 DEF Send
      <4> QED BY <1>t, <4>1 DEF CycleType
    <3> QED BY <1>5, <3>1 DEF SettleRule, SettleMode, SettleFails
  <2>3. /\ cycle'[c].pc \notin {"drafting", "drafted", "claiming"}
        /\ \A d \in Cycles : d # c => cycle'[d] = cycle[d]
    BY <2>2, LeaveCycle
  <2> QED BY <1>t, <2>1, <2>3, CapOthers, CapAside
<1>6. ASSUME NEW m \in Mails, SyncElsewhere(m) \/ JudgeItem(m) \/ DeleteMail(m) \/ CloseItem(m)
      PROVE  CapInv'
  BY <1>6, <1>t, CapAside DEF SyncElsewhere, JudgeItem, DeleteMail, CloseItem, Admitted
<1>7. CASE ClearNotifications
  BY <1>7, <1>t, CapAside DEF ClearNotifications, Admitted
<1>8. ASSUME Midnight PROVE CapInv'
  <2>1. today' = {} /\ Admitted' = Admitted
    BY <1>8 DEF Midnight, Admitted
  <2> QED BY <2>1, FiniteSets, FS_EmptySet, ReplyAssumption DEF CapInv
<1>9. CASE Crash
  <2>1. today' = today /\ Admitted' = {}
    BY <1>9 DEF Crash, Admitted, IdleCycle
  <2> QED BY <1>t, <2>1, CapAside
<1>10. CASE UNCHANGED vars
  BY <1>10, <1>t, CapAside DEF vars, Admitted
<1> QED BY <1>1, <1>2, <1>3, <1>4, <1>5, <1>6, <1>7, <1>8, <1>9, <1>10 DEF Next, CycleStep, FaultStep

\* The day's replies pass the cap by no more than the cycles that were in flight
\* besides the one that filled it, whatever the cap and however many overlap.
THEOREM CapIsKept == Spec => []CapOvershoot
<1>1. Init => CapInv
  BY CapInit
<1>2. TypeOK /\ CapInv /\ [Next]_vars => CapInv'
  BY CapNext
<1>3. TypeOK /\ CapInv => CapOvershoot
  BY FiniteSets, ReplyAssumption DEF CapInv, CapOvershoot
<1> QED BY <1>1, <1>2, <1>3, ReplyTypeCorrect, PTL DEF Spec
=============================================================================
