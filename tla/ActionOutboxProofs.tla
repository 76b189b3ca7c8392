------------------------- MODULE ActionOutboxProofs -------------------------
(***************************************************************************)
(* Theorems about ActionOutbox, for any set of actions and handlers, any   *)
(* maxAttempts and batch size, and any faults.                             *)
(***************************************************************************)
EXTENDS ActionOutbox, TLAPS, FiniteSetTheorems

USE DEF queueVars

Busies == RequestPcs \cup AttemptPcs

-----------------------------------------------------------------------------
(* Type correctness.                                                       *)

LEMMA InitType == Init => TypeOK
  BY OutboxAssumption DEF Init, TypeOK, QueueTypeOK, RowTypeOK, RunTypeOK, LoopTypeOK,
     GhostTypeOK, PaStatus, AttnStatus, Signals, RowType, RowStatus, RunType, IdleRun,
     IdleSweep, Runners

\* A runner that moves on stays well typed.
LEMMA GotoType ==
  ASSUME RunTypeOK, NEW r \in Runners, NEW p \in Busies, run[r].pc # "idle", Goto(r, p)
  PROVE  RunTypeOK'
  BY DEF RunTypeOK, RunType, Goto, Busies

LEMMA RestType == ASSUME RunTypeOK, NEW r \in Runners, Rest(r) PROVE RunTypeOK'
  BY DEF RunTypeOK, RunType, Rest, IdleRun

LEMMA StartType ==
  ASSUME RunTypeOK, NEW r \in Runners, NEW p \in Busies, NEW a \in Actions, NEW n \in Nat,
         Start(r, p, a, n)
  PROVE  RunTypeOK'
  BY DEF RunTypeOK, RunType, Busies, Start

\* A runner that is not idle has an action and an attempt number.
LEMMA RunnerType ==
  ASSUME RunTypeOK, NEW r \in Runners, run[r].pc # "idle"
  PROVE  run[r].act \in Actions /\ run[r].no \in Nat
  BY DEF RunTypeOK, RunType

LEMMA RowWriteType ==
  ASSUME RowTypeOK, NEW a \in Actions, NEW R \in RowType, row' = [row EXCEPT ![a] = R]
  PROVE  RowTypeOK'
  BY DEF RowTypeOK

LEMMA RowsWritten ==
  ASSUME NEW no \in Nat
  PROVE  /\ ClaimedRow(no) \in RowType
         /\ CompletedRow(no) \in RowType
         /\ \A class : FailedRow(class, no) \in RowType
  BY DEF ClaimedRow, CompletedRow, FailedRow, RowType, RowStatus

LEMMA RequestType == ASSUME TypeOK, NEW s \in Slots, RequestStep(s) PROVE TypeOK'
<1> USE DEF TypeOK, QueueTypeOK, LoopTypeOK, GhostTypeOK, PaStatus, AttnStatus, Signals, At
<1>r. s \in Runners
  BY DEF Runners
<1>p. {"approved", "mirrored", "rejected", "ready"} \subseteq Busies
  BY DEF Busies, RequestPcs, AttemptPcs
<1>a. run[s].act \in Actions
  BY <1>r, RunnerType DEF RequestStep, CommitApproval, MirrorApproval, ReadRow, CommitReject,
     MirrorReject, WriteSnooze
<1>1. CASE CommitApproval(s)
  <2>1. [status |-> "QUEUED", attempts |-> 0, ripe |-> TRUE] \in RowType
    BY DEF RowType, RowStatus
  <2>2. RowTypeOK'
    BY <1>1, <1>a, <2>1, RowWriteType DEF CommitApproval, RowTypeOK
  <2>3. RunTypeOK'
    BY <1>r, <1>p, <1>1, GotoType, RestType DEF CommitApproval
  <2> QED BY <1>1, <1>a, <2>2, <2>3 DEF CommitApproval
<1>2. CASE MirrorApproval(s)
  <2>1. RunTypeOK'
    BY <1>r, <1>p, <1>2, GotoType DEF MirrorApproval
  <2> QED BY <1>2, <1>a, <2>1 DEF MirrorApproval, RowTypeOK
<1>3. CASE ReadRow(s)
  <2>1. row[run[s].act].attempts + 1 \in Nat
    BY <1>a DEF RowTypeOK, RowType
  <2>2. RunTypeOK'
    BY <1>r, <1>p, <1>3, <1>a, <2>1, StartType DEF ReadRow
  <2> QED BY <1>3, <2>2 DEF ReadRow, RowTypeOK
<1>4. CASE CommitReject(s)
  <2>1. RunTypeOK'
    BY <1>r, <1>p, <1>4, GotoType, RestType DEF CommitReject
  <2> QED BY <1>4, <1>a, <2>1 DEF CommitReject, RowTypeOK
<1>5. CASE MirrorReject(s)
  <2>1. RunTypeOK'
    BY <1>r, <1>5, RestType DEF MirrorReject
  <2> QED BY <1>5, <1>a, <2>1 DEF MirrorReject, RowTypeOK
<1>6. CASE WriteSnooze(s)
  <2>1. RunTypeOK'
    BY <1>r, <1>6, RestType DEF WriteSnooze
  <2> QED BY <1>6, <1>a, <2>1 DEF WriteSnooze, RowTypeOK
<1> QED
  BY <1>1, <1>2, <1>3, <1>4, <1>5, <1>6 DEF RequestStep

LEMMA AttemptType == ASSUME TypeOK, NEW r \in Runners, AttemptStep(r) PROVE TypeOK'
<1> USE DEF TypeOK, QueueTypeOK, LoopTypeOK, GhostTypeOK, PaStatus, AttnStatus, Signals, At
<1>p. {"running", "ok", "transient", "permanent", "completed", "dead", "failed"} \subseteq Busies
  BY DEF Busies, AttemptPcs, InFlightPcs
<1>a. run[r].act \in Actions /\ run[r].no \in Nat
  BY RunnerType DEF AttemptStep, Claim, ToolSucceeds, ToolFails, WriteCompleted, WriteFailure,
     OnCompleted, OnDead, MirrorFailure
<1>1. CASE Claim(r)
  <2>1. RowTypeOK'
    BY <1>1, <1>a, RowsWritten, RowWriteType DEF Claim, RowTypeOK
  <2>2. RunTypeOK'
    BY <1>p, <1>1, GotoType, RestType DEF Claim
  <2> QED BY <1>1, <2>1, <2>2 DEF Claim
<1>2. CASE ToolSucceeds(r)
  <2>1. RunTypeOK'
    BY <1>p, <1>2, GotoType DEF ToolSucceeds
  <2> QED BY <1>2, <1>a, <2>1 DEF ToolSucceeds, RowTypeOK
<1>3. CASE ToolFails(r)
  <2>1. RunTypeOK'
    BY <1>p, <1>3, GotoType DEF ToolFails
  <2> QED BY <1>3, <2>1 DEF ToolFails, RowTypeOK
<1>4. CASE WriteCompleted(r)
  <2>1. RowTypeOK'
    BY <1>4, <1>a, RowsWritten, RowWriteType DEF WriteCompleted
  <2>2. RunTypeOK'
    BY <1>p, <1>4, GotoType DEF WriteCompleted
  <2> QED BY <1>4, <2>1, <2>2 DEF WriteCompleted
<1>5. CASE WriteFailure(r)
  <2>1. RowTypeOK'
    BY <1>5, <1>a, RowsWritten, RowWriteType DEF WriteFailure
  <2>2. RunTypeOK'
    BY <1>p, <1>5, GotoType, RestType DEF WriteFailure
  <2> QED BY <1>5, <2>1, <2>2 DEF WriteFailure
<1>6. CASE OnCompleted(r)
  <2>1. RunTypeOK'
    BY <1>6, RestType DEF OnCompleted
  <2> QED BY <1>6, <1>a, <2>1 DEF OnCompleted, RowTypeOK
<1>7. CASE OnDead(r)
  <2>1. RunTypeOK'
    BY <1>p, <1>7, GotoType DEF OnDead
  <2> QED BY <1>7, <1>a, <2>1 DEF OnDead, RowTypeOK
<1>8. CASE MirrorFailure(r)
  <2>1. RunTypeOK'
    BY <1>8, RestType DEF MirrorFailure
  <2> QED BY <1>8, <1>a, <2>1 DEF MirrorFailure, RowTypeOK
<1> QED
  BY <1>1, <1>2, <1>3, <1>4, <1>5, <1>6, <1>7, <1>8 DEF AttemptStep

LEMMA LoopType == ASSUME TypeOK, TickStep \/ SweepStep PROVE TypeOK'
<1> USE DEF TypeOK, QueueTypeOK, LoopTypeOK, GhostTypeOK, PaStatus, AttnStatus, Signals, At
<1>d. Drainer \in Runners
  BY DEF Runners
<1>1. CASE Reclaim
  <2>1. RowTypeOK'
    BY <1>1 DEF Reclaim, RowTypeOK, RowType, RowStatus
  <2> QED BY <1>1, <2>1 DEF Reclaim, RunTypeOK
<1>2. CASE FindDue
  <2>1. batch' \in SUBSET [act : Actions, no : Nat]
    BY <1>2 DEF FindDue, Due, RowTypeOK, RowType
  <2> QED BY <1>2, <2>1 DEF FindDue, RowTypeOK, RunTypeOK
<1>3. CASE NextRow
  <2>1. RunTypeOK'
    <3>1. PICK b \in batch : Start(Drainer, "ready", b.act, b.no)
      BY <1>3 DEF NextRow
    <3>2. b.act \in Actions /\ b.no \in Nat /\ "ready" \in Busies
      BY DEF Busies, AttemptPcs
    <3> QED BY <1>d, <3>1, <3>2, StartType
  <2> QED BY <1>3, <2>1 DEF NextRow, RowTypeOK
<1>4. CASE WakeSnoozed
  BY <1>4 DEF WakeSnoozed, RowTypeOK, RunTypeOK
<1>5. CASE ResetRow
  <2>1. run[Drainer].act \in Actions
    BY <1>d, <1>5, RunnerType DEF ResetRow
  <2>2. RowTypeOK'
    BY <1>5, <2>1 DEF ResetRow, RowTypeOK, RowType, RowStatus
  <2>3. RunTypeOK'
    BY <1>d, <1>5, RestType DEF ResetRow
  <2> QED BY <1>5, <2>2, <2>3 DEF ResetRow
<1>6. CASE ExpiryReads
  BY <1>6 DEF ExpiryReads, RowTypeOK, RunTypeOK
<1>7. CASE ExpiryClaims
  BY <1>7 DEF ExpiryClaims, IdleSweep, RowTypeOK, RunTypeOK
<1>8. CASE ExpiryMirrors
  BY <1>8 DEF ExpiryMirrors, IdleSweep, RowTypeOK, RunTypeOK
<1> QED
  BY <1>1, <1>2, <1>3, <1>4, <1>5, <1>6, <1>7, <1>8 DEF TickStep, SweepStep

LEMMA FailingWriteType ==
  ASSUME RowTypeOK, GhostTypeOK, NEW a \in Actions, NEW R \in RowType, FailingWrite(a, R)
  PROVE  RowTypeOK' /\ faults' \in Nat
  BY DEF FailingWrite, Fault, RowTypeOK, GhostTypeOK

LEMMA EscapeType ==
  ASSUME RunTypeOK, NEW r \in Runners, run[r].pc # "idle", Escape(r) PROVE RunTypeOK'
<1>1. "infra" \in Busies
  BY DEF Busies, AttemptPcs
<1> QED BY <1>1, GotoType, RestType DEF Escape

LEMMA FaultType == ASSUME TypeOK, FaultStep PROVE TypeOK'
<1> USE DEF TypeOK, QueueTypeOK, LoopTypeOK, GhostTypeOK, At
<1>p. {"transient", "permanent", "mirrored"} \subseteq Busies
  BY DEF Busies, RequestPcs, AttemptPcs, InFlightPcs
<1>d. Drainer \in Runners /\ Slots \subseteq Runners
  BY DEF Runners
<1>1. ASSUME NEW s \in Slots, CrashSlot(s) PROVE TypeOK'
  <2>1. RunTypeOK'
    BY <1>d, <1>1, RestType DEF CrashSlot
  <2> QED BY <1>1, <2>1 DEF CrashSlot, Fault, RowTypeOK
<1>2. ASSUME NEW s \in Slots, MirrorApprovalFails(s) PROVE TypeOK'
  <2>1. RunTypeOK'
    BY <1>p, <1>d, <1>2, GotoType DEF MirrorApprovalFails
  <2> QED BY <1>2, <2>1 DEF MirrorApprovalFails, Fault, RowTypeOK
<1>3. CASE CrashTick
  <2>1. RunTypeOK'
    BY <1>d, <1>3, RestType DEF CrashTick
  <2> QED BY <1>3, <2>1 DEF CrashTick, Fault, RowTypeOK
<1>4. CASE CrashSweep
  BY <1>4 DEF CrashSweep, IdleSweep, Fault, RowTypeOK, RunTypeOK
<1>5. CASE ResetFails
  <2>1. RunTypeOK'
    BY <1>d, <1>5, RestType DEF ResetFails
  <2> QED BY <1>5, <2>1 DEF ResetFails, Fault, RowTypeOK
<1>6. ASSUME NEW r \in Runners, ToolMisreports(r) PROVE TypeOK'
  <2>1. RunTypeOK'
    BY <1>p, <1>6, GotoType DEF ToolMisreports
  <2>2. run[r].act \in Actions
    BY <1>6, RunnerType DEF ToolMisreports
  <2> QED BY <1>6, <2>1, <2>2 DEF ToolMisreports, Fault, RowTypeOK
<1>7. ASSUME NEW r \in Runners, ClaimFails(r) PROVE TypeOK'
  <2>1. run[r].act \in Actions /\ run[r].no \in Nat
    BY <1>7, RunnerType DEF ClaimFails
  <2>2. RunTypeOK'
    BY <1>7, EscapeType DEF ClaimFails
  <2>3. (IF Claimable(run[r].act) THEN ClaimedRow(run[r].no) ELSE row[run[r].act]) \in RowType
    BY <2>1, RowsWritten DEF RowTypeOK
  <2>4. RowTypeOK' /\ faults' \in Nat
    BY <1>7, <2>1, <2>3, FailingWriteType DEF ClaimFails
  <2> QED BY <1>7, <2>2, <2>4 DEF ClaimFails
<1>8. ASSUME NEW r \in Runners, CompletedWriteFails(r) PROVE TypeOK'
  <2>1. run[r].act \in Actions /\ run[r].no \in Nat
    BY <1>8, RunnerType DEF CompletedWriteFails
  <2>2. RunTypeOK'
    BY <1>p, <1>8, GotoType DEF CompletedWriteFails
  <2>4. RowTypeOK' /\ faults' \in Nat
    BY <1>8, <2>1, RowsWritten, FailingWriteType DEF CompletedWriteFails
  <2> QED BY <1>8, <2>2, <2>4 DEF CompletedWriteFails
<1>9. ASSUME NEW r \in Runners, FailureWriteFails(r) PROVE TypeOK'
  <2>1. run[r].act \in Actions /\ run[r].no \in Nat
    BY <1>9, RunnerType DEF FailureWriteFails
  <2>2. RunTypeOK'
    BY <1>9, EscapeType DEF FailureWriteFails
  <2>4. RowTypeOK' /\ faults' \in Nat
    BY <1>9, <2>1, RowsWritten, FailingWriteType DEF FailureWriteFails
  <2> QED BY <1>9, <2>2, <2>4 DEF FailureWriteFails
<1>10. ASSUME NEW r \in Runners, SideEffectsFail(r) PROVE TypeOK'
  <2>1. RunTypeOK'
    BY <1>10, RestType DEF SideEffectsFail
  <2> QED BY <1>10, <2>1 DEF SideEffectsFail, Fault, RowTypeOK
<1>11. ASSUME NEW a \in Actions, SlowAttempt(a) PROVE TypeOK'
  <2>1. RowTypeOK'
    BY <1>11 DEF SlowAttempt, RowTypeOK, RowType
  <2> QED BY <1>11, <2>1 DEF SlowAttempt, Fault, RunTypeOK
<1> QED
  BY <1>1, <1>2, <1>3, <1>4, <1>5, <1>6, <1>7, <1>8, <1>9, <1>10, <1>11 DEF FaultStep

LEMMA NextType == TypeOK /\ [Next]_vars => TypeOK'
<1> SUFFICES ASSUME TypeOK, [Next]_vars PROVE TypeOK'
  OBVIOUS
<1>1. ASSUME NEW s \in Slots, NEW a \in Actions, NEW p \in {"approving", "rejecting", "snoozing"},
             ReadPending(s, a, p)
      PROVE  TypeOK'
  <2>1. s \in Runners /\ p \in Busies
    BY DEF Runners, Busies, RequestPcs
  <2>2. RunTypeOK'
    BY <1>1, <2>1, StartType DEF ReadPending, TypeOK
  <2> QED BY <1>1, <2>2 DEF ReadPending, TypeOK, QueueTypeOK, RowTypeOK, LoopTypeOK, GhostTypeOK
<1>2. ASSUME NEW a \in Actions, ClockPasses(a) PROVE TypeOK'
  BY <1>2 DEF ClockPasses, TypeOK, QueueTypeOK, RowTypeOK, RowType, RunTypeOK, LoopTypeOK,
     GhostTypeOK
<1>3. CASE UNCHANGED vars
  BY <1>3 DEF vars, TypeOK, QueueTypeOK, RowTypeOK, RunTypeOK, LoopTypeOK, GhostTypeOK
<1> QED
  BY <1>1, <1>2, <1>3, RequestType, AttemptType, LoopType, FaultType DEF Next

\* Every reachable state is well typed.
THEOREM TypeCorrect == Spec => []TypeOK
  BY InitType, NextType, PTL DEF Spec

-----------------------------------------------------------------------------
(* Nothing runs unapproved: a row exists exactly for the approved actions,  *)
(* and whatever a handler or the drain still holds has a row.               *)

ExecutingPcs == {"approved", "mirrored"} \cup AttemptPcs

RunnerHasRow(r) == run[r].pc \in ExecutingPcs => row[run[r].act].status # "NONE"

IntentInv ==
    /\ ApprovalHasIntent
    /\ \A a \in Actions : executed[a] > 0 => row[a].status # "NONE"
    /\ \A r \in Runners : RunnerHasRow(r)
    /\ \A b \in batch : row[b.act].status # "NONE"

\* The rows after an attempt's writes exist.
LEMMA WrittenRowsExist ==
  ASSUME NEW no
  PROVE  /\ ClaimedRow(no).status # "NONE"
         /\ CompletedRow(no).status # "NONE"
         /\ \A class : FailedRow(class, no).status # "NONE"
  BY DEF ClaimedRow, CompletedRow, FailedRow

\* A step of runner r that writes only rows that exist, and that keeps r on
\* its action if r goes on executing.
LEMMA IntentFrame ==
  ASSUME TypeOK, TypeOK', IntentInv, NEW r \in Runners, UNCHANGED <<pa, batch, executed>>,
         \A a \in Actions : row'[a].status = "NONE" <=> row[a].status = "NONE",
         \A q \in Runners \ {r} : run'[q] = run[q],
         run'[r].pc \in ExecutingPcs => run[r].pc \in ExecutingPcs /\ run'[r].act = run[r].act
  PROVE  IntentInv'
<1> USE DEF TypeOK, RunTypeOK, LoopTypeOK, IntentInv, ApprovalHasIntent, Approved, RunnerHasRow
<1>1. ASSUME NEW q \in Runners PROVE RunnerHasRow(q)'
  <2> SUFFICES ASSUME run'[q].pc \in ExecutingPcs PROVE row'[run'[q].act].status # "NONE"
    OBVIOUS
  <2>1. run[q].pc \in ExecutingPcs /\ run'[q].act = run[q].act /\ run[q].pc # "idle"
    BY DEF ExecutingPcs, AttemptPcs, InFlightPcs
  <2> QED BY <2>1
<1>2. \A b \in batch : b.act \in Actions
  OBVIOUS
<1> QED BY <1>1, <1>2

LEMMA RequestIntent == ASSUME TypeOK, IntentInv, NEW s \in Slots, RequestStep(s) PROVE IntentInv'
<1> USE DEF TypeOK, QueueTypeOK, RowTypeOK, RowType, RunTypeOK, RunType, IntentInv,
      ApprovalHasIntent, Approved, RunnerHasRow, ExecutingPcs, AttemptPcs, InFlightPcs,
      At, Goto, Rest, Start, IdleRun
<1>r. s \in Runners
  BY DEF Runners
<1>a. run[s].act \in Actions
  BY <1>r, RunnerType DEF RequestStep, CommitApproval, MirrorApproval, ReadRow, CommitReject,
     MirrorReject, WriteSnooze
<1>1. CASE CommitApproval(s)
  <2>1. CASE StillPending(run[s].act)
    <3>1. /\ pa' = [pa EXCEPT ![run[s].act] = "EXECUTED"]
          /\ row' = [row EXCEPT ![run[s].act] =
                       [status |-> "QUEUED", attempts |-> 0, ripe |-> TRUE]]
          /\ run' = [run EXCEPT ![s].pc = "approved"]
          /\ UNCHANGED <<batch, executed>>
      BY <1>1, <2>1 DEF CommitApproval
    <3>2. ApprovalHasIntent'
      BY <1>a, <3>1
    <3>3. \A q \in Runners : RunnerHasRow(q)'
      BY <1>r, <1>a, <3>1
    <3>4. \A a \in Actions : row[a].status # "NONE" => row'[a].status # "NONE"
      BY <1>a, <3>1
    <3> QED BY <3>1, <3>2, <3>3, <3>4 DEF LoopTypeOK
  <2>2. CASE ~StillPending(run[s].act)
    BY <1>r, <1>1, <2>2 DEF CommitApproval
  <2> QED BY <2>1, <2>2
<1>2. CASE MirrorApproval(s)
  BY <1>r, <1>a, <1>2 DEF MirrorApproval
<1>3. CASE ReadRow(s)
  BY <1>r, <1>a, <1>3 DEF ReadRow
<1>4. CASE CommitReject(s)
  <2>1. \A a \in Actions : Approved(a)' <=> Approved(a)
    BY <1>a, <1>4 DEF CommitReject, StillPending
  <2>2. \A q \in Runners : RunnerHasRow(q)'
    BY <1>r, <1>4 DEF CommitReject
  <2> QED BY <1>4, <2>1, <2>2 DEF CommitReject
<1>5. CASE MirrorReject(s)
  BY <1>r, <1>a, <1>5 DEF MirrorReject
<1>6. CASE WriteSnooze(s)
  BY <1>r, <1>a, <1>6 DEF WriteSnooze
<1> QED
  BY <1>1, <1>2, <1>3, <1>4, <1>5, <1>6 DEF RequestStep

LEMMA AttemptIntent == ASSUME TypeOK, IntentInv, NEW r \in Runners, AttemptStep(r) PROVE IntentInv'
<1> USE DEF TypeOK, QueueTypeOK, RowTypeOK, RunTypeOK, RunType, IntentInv,
      ApprovalHasIntent, Approved, RunnerHasRow, ExecutingPcs, AttemptPcs, InFlightPcs,
      At, Goto, Rest, IdleRun
<1>t. TypeOK'
  BY AttemptType
<1>a. run[r].act \in Actions /\ row[run[r].act].status # "NONE"
  BY RunnerType DEF AttemptStep, Claim, ToolSucceeds, ToolFails, WriteCompleted, WriteFailure,
     OnCompleted, OnDead, MirrorFailure
<1>1. CASE Claim(r)
  <2>1. \A a \in Actions : row'[a].status = "NONE" <=> row[a].status = "NONE"
    BY <1>a, <1>1, WrittenRowsExist DEF Claim
  <2> QED BY <1>a, <1>1, <1>t, <2>1, IntentFrame DEF Claim
<1>2. CASE ToolSucceeds(r)
  BY <1>a, <1>2 DEF ToolSucceeds
<1>3. CASE ToolFails(r)
  BY <1>a, <1>3 DEF ToolFails
<1>4. CASE WriteCompleted(r)
  BY <1>a, <1>4, WrittenRowsExist DEF WriteCompleted
<1>5. CASE WriteFailure(r)
  BY <1>a, <1>5, WrittenRowsExist DEF WriteFailure
<1>6. CASE OnCompleted(r)
  BY <1>a, <1>6 DEF OnCompleted
<1>7. CASE OnDead(r)
  BY <1>a, <1>7 DEF OnDead
<1>8. CASE MirrorFailure(r)
  BY <1>a, <1>8 DEF MirrorFailure
<1> QED
  BY <1>1, <1>2, <1>3, <1>4, <1>5, <1>6, <1>7, <1>8 DEF AttemptStep

LEMMA LoopIntent == ASSUME TypeOK, IntentInv, TickStep \/ SweepStep PROVE IntentInv'
<1> USE DEF TypeOK, QueueTypeOK, RowTypeOK, RowType, RunTypeOK, RunType, LoopTypeOK, IntentInv,
      ApprovalHasIntent, Approved, RunnerHasRow, ExecutingPcs, AttemptPcs, InFlightPcs,
      At, Goto, Rest, Start, IdleRun
<1>d. Drainer \in Runners
  BY DEF Runners
<1>1. CASE Reclaim
  BY <1>1 DEF Reclaim, Stale
<1>2. CASE FindDue
  BY <1>2 DEF FindDue, Due
<1>3. CASE NextRow
  BY <1>d, <1>3 DEF NextRow
<1>4. CASE WakeSnoozed
  BY <1>4 DEF WakeSnoozed
<1>5. CASE ResetRow
  <2>1. run[Drainer].act \in Actions
    BY <1>d, <1>5, RunnerType DEF ResetRow
  <2> QED BY <1>d, <1>5, <2>1 DEF ResetRow
<1>6. CASE ExpiryReads
  BY <1>6 DEF ExpiryReads
<1>7. CASE ExpiryClaims
  BY <1>7 DEF ExpiryClaims
<1>8. CASE ExpiryMirrors
  BY <1>8 DEF ExpiryMirrors
<1> QED
  BY <1>1, <1>2, <1>3, <1>4, <1>5, <1>6, <1>7, <1>8 DEF TickStep, SweepStep

LEMMA FaultIntent == ASSUME TypeOK, IntentInv, FaultStep PROVE IntentInv'
<1> USE DEF TypeOK, QueueTypeOK, RowTypeOK, RunTypeOK, RunType, GhostTypeOK, IntentInv,
      ApprovalHasIntent, Approved, RunnerHasRow, ExecutingPcs, AttemptPcs, InFlightPcs,
      At, Goto, Rest, IdleRun
<1>d. Drainer \in Runners /\ Slots \subseteq Runners
  BY DEF Runners
<1>t. TypeOK'
  BY FaultType
<1>1. ASSUME NEW s \in Slots, CrashSlot(s) PROVE IntentInv'
  BY <1>d, <1>1 DEF CrashSlot
<1>2. ASSUME NEW s \in Slots, MirrorApprovalFails(s) PROVE IntentInv'
  BY <1>d, <1>2 DEF MirrorApprovalFails
<1>3. CASE CrashTick
  BY <1>d, <1>3 DEF CrashTick
<1>4. CASE CrashSweep
  BY <1>4 DEF CrashSweep
<1>5. CASE ResetFails
  BY <1>d, <1>5 DEF ResetFails
<1>6. ASSUME NEW r \in Runners, ToolMisreports(r) PROVE IntentInv'
  BY <1>6, RunnerType DEF ToolMisreports
<1>7. ASSUME NEW r \in Runners, ClaimFails(r) PROVE IntentInv'
  <2>1. /\ run[r].act \in Actions
        /\ row[run[r].act].status # "NONE"
    BY <1>7, RunnerType DEF ClaimFails
  <2>2. \A a \in Actions : row'[a].status = "NONE" <=> row[a].status = "NONE"
    BY <1>7, <2>1, WrittenRowsExist DEF ClaimFails, FailingWrite
  <2>3. run[r].pc \in ExecutingPcs /\ run' \in {[run EXCEPT ![r].pc = "infra"], [run EXCEPT ![r] = IdleRun]}
    BY <1>7 DEF ClaimFails, Escape
  <2>4. /\ \A q \in Runners \ {r} : run'[q] = run[q]
        /\ run'[r].pc \in ExecutingPcs => run'[r].act = run[r].act
    BY <2>3
  <2> QED BY <1>7, <1>t, <2>2, <2>3, <2>4, IntentFrame DEF ClaimFails
<1>8. ASSUME NEW r \in Runners, CompletedWriteFails(r) PROVE IntentInv'
  <2>1. /\ run[r].act \in Actions
        /\ row[run[r].act].status # "NONE"
    BY <1>8, RunnerType DEF CompletedWriteFails
  <2>2. \A a \in Actions : row'[a].status = "NONE" <=> row[a].status = "NONE"
    BY <1>8, <2>1, WrittenRowsExist DEF CompletedWriteFails, FailingWrite
  <2> QED BY <1>8, <1>t, <2>1, <2>2, IntentFrame DEF CompletedWriteFails
<1>9. ASSUME NEW r \in Runners, FailureWriteFails(r) PROVE IntentInv'
  <2>1. /\ run[r].act \in Actions
        /\ row[run[r].act].status # "NONE"
    BY <1>9, RunnerType DEF FailureWriteFails
  <2>2. \A a \in Actions : row'[a].status = "NONE" <=> row[a].status = "NONE"
    <3>1. FailedRow(run[r].pc, run[r].no).status # "NONE"
      BY WrittenRowsExist
    <3> QED BY <1>9, <2>1, <3>1 DEF FailureWriteFails, FailingWrite
  <2> QED BY <1>9, <1>t, <2>1, <2>2, IntentFrame DEF FailureWriteFails, Escape
<1>10. ASSUME NEW r \in Runners, SideEffectsFail(r) PROVE IntentInv'
  BY <1>10 DEF SideEffectsFail
<1>11. ASSUME NEW a \in Actions, SlowAttempt(a) PROVE IntentInv'
  BY <1>11 DEF SlowAttempt, RowType
<1> QED
  BY <1>1, <1>2, <1>3, <1>4, <1>5, <1>6, <1>7, <1>8, <1>9, <1>10, <1>11 DEF FaultStep

LEMMA NextIntent == TypeOK /\ IntentInv /\ [Next]_vars => IntentInv'
<1> SUFFICES ASSUME TypeOK, IntentInv, [Next]_vars PROVE IntentInv'
  OBVIOUS
<1> USE DEF TypeOK, QueueTypeOK, RowTypeOK, RowType, RunTypeOK, RunType, IntentInv,
      ApprovalHasIntent, Approved, RunnerHasRow, ExecutingPcs, AttemptPcs, InFlightPcs
<1>1. ASSUME NEW s \in Slots, NEW a \in Actions, NEW p \in {"approving", "rejecting", "snoozing"},
             ReadPending(s, a, p)
      PROVE  IntentInv'
  BY <1>1 DEF ReadPending, Start, Runners
<1>2. ASSUME NEW a \in Actions, ClockPasses(a) PROVE IntentInv'
  BY <1>2 DEF ClockPasses
<1>3. CASE UNCHANGED vars
  BY <1>3 DEF vars
<1> QED
  BY <1>1, <1>2, <1>3, RequestIntent, AttemptIntent, LoopIntent, FaultIntent DEF Next

LEMMA IntentCorrect == Spec => []IntentInv
<1>1. Init => IntentInv
  BY OutboxAssumption DEF Init, IntentInv, ApprovalHasIntent, Approved, RunnerHasRow,
     ExecutingPcs, AttemptPcs, InFlightPcs, IdleRun, Runners
<1> QED
  BY <1>1, TypeCorrect, NextIntent, PTL DEF Spec

\* An approved action has its execution intent, and only an approved one has.
THEOREM ApprovalIsIntent == Spec => []ApprovalHasIntent
  BY IntentCorrect, PTL DEF IntentInv

\* Whatever fails and however the handlers interleave, nothing takes effect
\* that does not stand approved.
THEOREM NothingRunsUnapproved == Spec => []RunsOnlyIfApproved
<1>1. IntentInv => RunsOnlyIfApproved
  BY DEF IntentInv, ApprovalHasIntent, RunsOnlyIfApproved
<1> QED
  BY <1>1, IntentCorrect, PTL

-----------------------------------------------------------------------------
(* Decisions are final.                                                    *)

FinalStep ==
    \A a \in Actions :
      /\ Approved(a) => Approved(a)'
      /\ pa[a] = "REJECTED" => pa'[a] = "REJECTED"

LEMMA PaUnchangedFinal == UNCHANGED pa => FinalStep
  BY DEF FinalStep, Approved

LEMMA NextFinal == TypeOK /\ IntentInv /\ [Next]_vars => FinalStep
<1> SUFFICES ASSUME TypeOK, IntentInv, [Next]_vars PROVE FinalStep
  OBVIOUS
<1> USE DEF FinalStep, Approved, TypeOK, QueueTypeOK
<1>1. ASSUME NEW s \in Slots, CommitApproval(s) PROVE FinalStep
  BY <1>1 DEF CommitApproval, StillPending
<1>2. ASSUME NEW s \in Slots, CommitReject(s) PROVE FinalStep
  BY <1>2 DEF CommitReject, StillPending
<1>3. ASSUME NEW r \in Runners, OnDead(r) PROVE FinalStep
  <2>1. run[r].act \in Actions
    BY <1>3, RunnerType DEF OnDead, At
  <2>2. pa[run[r].act] # "REJECTED"
    BY <1>3, <2>1 DEF OnDead, At, IntentInv, ApprovalHasIntent, RunnerHasRow, ExecutingPcs,
       AttemptPcs
  <2> QED BY <1>3, <2>2 DEF OnDead
<1>4. CASE ExpiryClaims
  BY <1>4 DEF ExpiryClaims
<1> USE PaUnchangedFinal
<1>5. ASSUME NEW s \in Slots, RequestStep(s) PROVE FinalStep
  BY <1>5, <1>1, <1>2 DEF RequestStep, MirrorApproval, ReadRow, MirrorReject, WriteSnooze
<1>6. ASSUME NEW r \in Runners, AttemptStep(r) PROVE FinalStep
  BY <1>6, <1>3 DEF AttemptStep, Claim, ToolSucceeds, ToolFails, WriteCompleted, WriteFailure,
     OnCompleted, MirrorFailure
<1>7. CASE TickStep
  BY <1>7 DEF TickStep, Reclaim, FindDue, NextRow, WakeSnoozed, ResetRow
<1>8. CASE SweepStep
  BY <1>8, <1>4 DEF SweepStep, ExpiryReads, ExpiryMirrors
<1>9. CASE FaultStep
  BY <1>9 DEF FaultStep, CrashSlot, MirrorApprovalFails, CrashTick, CrashSweep, ResetFails,
     ToolMisreports, ClaimFails, CompletedWriteFails, FailureWriteFails, SideEffectsFail,
     SlowAttempt
<1>10. CASE UNCHANGED vars
  BY <1>10 DEF vars
<1> QED
  BY <1>5, <1>6, <1>7, <1>8, <1>9, <1>10 DEF Next, ReadPending, ClockPasses

\* No decision is taken back, by a racing handler, the expiry or a late attempt.
THEOREM DecisionsStand == Spec => DecisionIsFinal
<1>1. TypeOK /\ IntentInv /\ [Next]_vars => [FinalStep]_vars
  BY NextFinal
<1> QED
  BY <1>1, TypeCorrect, IntentCorrect, PTL DEF Spec, DecisionIsFinal, FinalStep

-----------------------------------------------------------------------------
(* The price of a repeated effect.  A token on action a is an attempt that  *)
(* may still take effect or hand the row back; the row is open when a later *)
(* attempt may claim it.  Tokens, an open row and the effects that took     *)
(* place add up to at most one more than the faults.                        *)

TokenPcs == {"running", "transient", "permanent", "infra"}
Tokens(a) == {r \in Runners : run[r].act = a /\ run[r].pc \in TokenPcs}

Open(a) ==
    \/ row[a].status = "QUEUED"
    \/ row[a].status = "IN_PROGRESS" /\ (row[a].ripe \/ InFlight(a) = {})

Debt(a) == executed[a] + Cardinality(Tokens(a)) + (IF Open(a) THEN 1 ELSE 0)

DebtInv == \A a \in Actions : Debt(a) <= 1 + faults

T(a, r) == IF r \in Tokens(a) THEN 1 ELSE 0
O(a) == IF Open(a) THEN 1 ELSE 0

\* A finite set counted apart from one element.
LEMMA CountWithout ==
  ASSUME NEW S, IsFiniteSet(S), NEW x
  PROVE  /\ Cardinality(S \ {x}) \in Nat
         /\ Cardinality(S) = Cardinality(S \ {x}) + (IF x \in S THEN 1 ELSE 0)
<1>1. IsFiniteSet(S \ {x})
  BY FS_Subset
<1>2. Cardinality(S) \in Nat /\ Cardinality(S \ {x}) \in Nat
  BY <1>1, FS_CardinalityType
<1>3. CASE x \in S
  BY <1>2, <1>3, FS_RemoveElement
<1>4. CASE x \notin S
  <2>1. S \ {x} = S
    BY <1>4
  <2> QED BY <1>2, <1>4, <2>1
<1> QED BY <1>3, <1>4

LEMMA RunnersFinite == ASSUME NEW S, S \subseteq Runners PROVE IsFiniteSet(S)
  BY OutboxAssumption, FS_AddElement, FS_Subset DEF Runners

\* A step that changes at most runner r, and that pays for what it adds.
LEMMA DebtFrame ==
  ASSUME TypeOK, TypeOK', DebtInv, NEW r \in Runners,
         \A q \in Runners \ {r} : run'[q] = run[q],
         \A a \in Actions :
           executed'[a] + T(a, r)' + O(a)' + faults <= executed[a] + T(a, r) + O(a) + faults'
  PROVE  DebtInv'
<1> SUFFICES ASSUME NEW a \in Actions PROVE Debt(a)' <= 1 + faults'
  BY DEF DebtInv
<1>1. (Tokens(a) \ {r})' = Tokens(a) \ {r}
  BY DEF Tokens
<1>2. /\ Cardinality(Tokens(a) \ {r}) \in Nat
      /\ Cardinality(Tokens(a)) = Cardinality(Tokens(a) \ {r}) + T(a, r)
  BY CountWithout, RunnersFinite DEF Tokens, T
<1>3. Cardinality(Tokens(a))' = Cardinality(Tokens(a) \ {r})' + T(a, r)'
  BY CountWithout, RunnersFinite DEF Tokens, T
<1>4. /\ executed[a] \in Nat /\ executed'[a] \in Nat /\ faults \in Nat /\ faults' \in Nat
      /\ T(a, r) \in {0, 1} /\ T(a, r)' \in {0, 1} /\ O(a) \in {0, 1} /\ O(a)' \in {0, 1}
  BY DEF TypeOK, GhostTypeOK, T, O
<1>5. Debt(a) <= 1 + faults
  BY DEF DebtInv
<1>6. Cardinality(Tokens(a) \ {r})' = Cardinality(Tokens(a) \ {r})
  BY <1>1
<1> DEFINE c == Cardinality(Tokens(a) \ {r})
<1>7. Debt(a) = executed[a] + c + T(a, r) + O(a)
  BY <1>2, <1>4 DEF Debt, O
<1>8. Debt(a)' = executed'[a] + c + T(a, r)' + O(a)'
  BY <1>2, <1>3, <1>4, <1>6 DEF Debt, O
<1>9. executed'[a] + T(a, r)' + O(a)' + faults <= executed[a] + T(a, r) + O(a) + faults'
  OBVIOUS
<1> HIDE DEF c
<1>10. c \in Nat
  BY <1>2 DEF c
<1> QED BY <1>4, <1>5, <1>7, <1>8, <1>9, <1>10

Bits(a, r) == T(a, r) \in {0, 1} /\ O(a) \in {0, 1}

LEMMA BitsType == ASSUME NEW a, NEW r PROVE Bits(a, r) /\ Bits(a, r)'
  BY DEF Bits, T, O

WorkingPcs == InFlightPcs \cup {"infra"}

\* Runner r works on a neither before nor after the step.
LEMMA Elsewhere ==
  ASSUME NEW r \in Runners, NEW a \in Actions, \A q \in Runners \ {r} : run'[q] = run[q],
         row'[a] = row[a],
         run[r].pc \in WorkingPcs => run[r].act # a,
         run'[r].pc \in WorkingPcs => run'[r].act # a
  PROVE  T(a, r)' = T(a, r) /\ O(a)' = O(a)
<1> USE DEF WorkingPcs, InFlightPcs
<1>1. r \notin Tokens(a) /\ (r \notin Tokens(a))'
  BY DEF Tokens, TokenPcs
<1>2. InFlight(a)' = InFlight(a)
  BY DEF InFlight
<1>3. Open(a)' <=> Open(a)
  BY <1>2 DEF Open
<1> QED BY <1>1, <1>3 DEF T, O

\* A step in which r does no work on any row and writes none.
LEMMA QuietDebt ==
  ASSUME TypeOK, TypeOK', DebtInv, NEW r \in Runners, \A q \in Runners \ {r} : run'[q] = run[q],
         UNCHANGED <<row, executed>>, faults' >= faults,
         run[r].pc \notin WorkingPcs, run'[r].pc \notin WorkingPcs
  PROVE  DebtInv'
<1>1. ASSUME NEW a \in Actions
      PROVE  executed'[a] + T(a, r)' + O(a)' + faults <= executed[a] + T(a, r) + O(a) + faults'
  <2>1. T(a, r)' = T(a, r) /\ O(a)' = O(a) /\ Bits(a, r)
    BY Elsewhere, BitsType
  <2>2. executed[a] \in Nat /\ faults \in Nat /\ faults' \in Nat
    BY DEF TypeOK, GhostTypeOK
  <2> QED BY <2>1, <2>2 DEF Bits
<1> QED BY <1>1, DebtFrame

\* A step of r on its own action e, that pays for what it adds to e.
LEMMA ActionDebt ==
  ASSUME TypeOK, TypeOK', DebtInv, NEW r \in Runners, \A q \in Runners \ {r} : run'[q] = run[q],
         NEW e \in Actions, e = run[r].act, run'[r].act \in {e, NoAction},
         \A a \in Actions \ {e} : row'[a] = row[a] /\ executed'[a] = executed[a],
         faults' >= faults,
         executed'[e] + T(e, r)' + O(e)' + faults <= executed[e] + T(e, r) + O(e) + faults'
  PROVE  DebtInv'
<1>1. ASSUME NEW a \in Actions \ {e}
      PROVE  executed'[a] + T(a, r)' + O(a)' + faults <= executed[a] + T(a, r) + O(a) + faults'
  <2>1. T(a, r)' = T(a, r) /\ O(a)' = O(a) /\ Bits(a, r)
    BY Elsewhere, BitsType, OutboxAssumption
  <2>2. executed[a] \in Nat /\ executed'[a] = executed[a] /\ faults \in Nat /\ faults' \in Nat
    BY DEF TypeOK, GhostTypeOK
  <2> QED BY <2>1, <2>2 DEF Bits
<1> QED BY <1>1, DebtFrame

LEMMA RequestDebt ==
  ASSUME TypeOK, TypeOK', IntentInv, DebtInv, NEW s \in Slots, RequestStep(s)
  PROVE  DebtInv'
<1> USE DEF At, Goto, Rest, Start, IdleRun, WorkingPcs, InFlightPcs
<1>r. s \in Runners /\ run \in [Runners -> RunType] /\ faults \in Nat
  BY DEF Runners, TypeOK, RunTypeOK, GhostTypeOK
<1>t. run[s] \in RunType /\ run[s].pc # "idle"
  BY <1>r DEF RequestStep, CommitApproval, MirrorApproval, ReadRow, CommitReject, MirrorReject,
     WriteSnooze
<1>1. CASE CommitApproval(s) /\ StillPending(run[s].act)
  <2>1. PICK e \in Actions : e = run[s].act
    BY <1>r, <1>1, RunnerType DEF CommitApproval, TypeOK
  <2>2. row[e].status = "NONE" /\ executed[e] = 0
    BY <1>1, <2>1 DEF CommitApproval, StillPending, IntentInv, ApprovalHasIntent, Approved,
       TypeOK, GhostTypeOK
  <2>3. /\ \A a \in Actions \ {e} : row'[a] = row[a]
        /\ run' = [run EXCEPT ![s].pc = "approved"]
        /\ UNCHANGED <<executed, faults>>
    BY <1>1, <2>1 DEF CommitApproval, TypeOK, RowTypeOK
  <2>4. Tokens(e)' = {}
    BY <1>r, <2>2, <2>3 DEF Tokens, TokenPcs, IntentInv, RunnerHasRow, ExecutingPcs, AttemptPcs
  <2>5. Debt(e)' <= 1 + faults'
    <3>1. Cardinality(Tokens(e)') = 0
      BY <2>4, FS_EmptySet
    <3>2. executed'[e] = 0 /\ faults' \in Nat
      BY <1>r, <2>2, <2>3
    <3>3. O(e)' \in {0, 1}
      BY DEF O
    <3>4. Debt(e)' = executed'[e] + Cardinality(Tokens(e)') + O(e)'
      BY DEF Debt, O
    <3> QED BY <3>1, <3>2, <3>3, <3>4
  <2>6. ASSUME NEW a \in Actions \ {e} PROVE Debt(a)' <= 1 + faults'
    <3>1. /\ run[s].pc \notin WorkingPcs /\ run'[s].pc \notin WorkingPcs
          /\ \A q \in Runners \ {s} : run'[q] = run[q]
      BY <1>r, <1>1, <2>3 DEF CommitApproval
    <3>2. Tokens(a)' = Tokens(a)
      BY <3>1 DEF Tokens, TokenPcs
    <3>3. O(a)' = O(a)
      BY <1>r, <2>3, <3>1, Elsewhere
    <3> QED BY <2>3, <3>2, <3>3 DEF Debt, DebtInv, O
  <2>7. ASSUME NEW a \in Actions PROVE Debt(a)' <= 1 + faults'
    BY <2>5, <2>6
  <2> QED BY <2>7 DEF DebtInv
<1>2. CASE ~(CommitApproval(s) /\ StillPending(run[s].act))
  <2>1. /\ \A q \in Runners \ {s} : run'[q] = run[q]
        /\ UNCHANGED <<row, executed, faults>>
        /\ run[s].pc \notin WorkingPcs /\ run'[s].pc \notin WorkingPcs
    <3>1. CASE CommitApproval(s)
      <4>1. Rest(s) /\ UNCHANGED row
        BY <1>2, <3>1 DEF CommitApproval
      <4> QED BY <1>r, <3>1, <4>1 DEF CommitApproval
    <3>2. CASE CommitReject(s)
      <4>1. Goto(s, "rejected") \/ Rest(s)
        BY <3>2 DEF CommitReject
      <4>2. run'[s].pc \in {"rejected", "idle"} /\ \A q \in Runners \ {s} : run'[q] = run[q]
        BY <1>r, <1>t, <4>1 DEF RunType
      <4> QED BY <1>r, <3>2, <4>2 DEF CommitReject
    <3>3. CASE MirrorApproval(s) \/ ReadRow(s) \/ MirrorReject(s) \/ WriteSnooze(s)
      BY <1>r, <1>t, <3>3 DEF MirrorApproval, ReadRow, MirrorReject, WriteSnooze, RunType
    <3> QED BY <3>1, <3>2, <3>3 DEF RequestStep
  <2> QED BY <1>r, <2>1, QuietDebt
<1> HIDE DEF At, Goto, Rest, Start, IdleRun, WorkingPcs, InFlightPcs
<1> QED BY <1>1, <1>2

\* What a runner's move does to the runners.
LEMMA Moves ==
  ASSUME RunTypeOK, NEW r \in Runners
  PROVE  /\ \A p : Goto(r, p) => /\ run'[r].pc = p /\ run'[r].act = run[r].act
                                /\ \A q \in Runners \ {r} : run'[q] = run[q]
         /\ Rest(r) => /\ run'[r].pc = "idle" /\ run'[r].act = NoAction
                       /\ \A q \in Runners \ {r} : run'[q] = run[q]
<1>1. run \in [Runners -> RunType] /\ run[r] \in RunType
  BY DEF RunTypeOK
<1>2. ASSUME NEW p, Goto(r, p)
      PROVE  /\ run'[r].pc = p /\ run'[r].act = run[r].act
             /\ \A q \in Runners \ {r} : run'[q] = run[q]
  BY <1>1, <1>2 DEF Goto, RunType
<1>3. ASSUME Rest(r)
      PROVE  /\ run'[r].pc = "idle" /\ run'[r].act = NoAction
             /\ \A q \in Runners \ {r} : run'[q] = run[q]
  BY <1>1, <1>3 DEF Rest, IdleRun
<1> QED BY <1>2, <1>3

LEMMA AttemptDebt ==
  ASSUME TypeOK, TypeOK', DebtInv, NEW r \in Runners, AttemptStep(r)
  PROVE  DebtInv'
<1> USE DEF At
<1>t. /\ RunTypeOK /\ row \in [Actions -> RowType] /\ executed \in [Actions -> Nat]
      /\ faults \in Nat
  BY DEF TypeOK, RowTypeOK, GhostTypeOK
<1>e. PICK e \in Actions : e = run[r].act
  BY RunnerType DEF TypeOK, AttemptStep, Claim, ToolSucceeds, ToolFails, WriteCompleted,
     WriteFailure, OnCompleted, OnDead, MirrorFailure
<1>m. /\ \A p : Goto(r, p) => /\ run'[r].pc = p /\ run'[r].act = e
                              /\ \A q \in Runners \ {r} : run'[q] = run[q]
      /\ Rest(r) => /\ run'[r].pc = "idle" /\ run'[r].act = NoAction
                    /\ \A q \in Runners \ {r} : run'[q] = run[q]
  BY <1>t, <1>e, Moves
<1>b. Bits(e, r) /\ Bits(e, r)'
  BY BitsType
<1>1. CASE Claim(r) /\ Claimable(e)
  <2>1. /\ Goto(r, "running") /\ run[r].pc = "ready"
        /\ row' = [row EXCEPT ![e] = ClaimedRow(run[r].no)] /\ UNCHANGED <<executed, faults>>
    BY <1>1, <1>e DEF Claim
  <2>2. T(e, r)' <= 1 /\ T(e, r) = 0 /\ O(e) = 1
    BY <1>1, <1>b, <2>1 DEF T, O, Tokens, TokenPcs, Open, Claimable, Bits
  <2>3. r \in InFlight(e)'
    BY <1>m, <2>1 DEF InFlight, InFlightPcs
  <2>4. O(e)' = 0
    BY <1>t, <2>1, <2>3 DEF O, Open, ClaimedRow
  <2> QED BY <1>t, <1>e, <1>m, <2>1, <2>2, <2>4, <1>b, ActionDebt DEF Bits
<1>2. CASE Claim(r) /\ ~Claimable(e)
  <2>1. Rest(r) /\ UNCHANGED <<row, executed, faults>> /\ run[r].pc = "ready"
    BY <1>2, <1>e DEF Claim
  <2> QED BY <1>t, <1>m, <2>1, QuietDebt DEF WorkingPcs, InFlightPcs
<1>3. CASE ToolSucceeds(r)
  <2>1. /\ Goto(r, "ok") /\ run[r].pc = "running" /\ UNCHANGED <<row, faults>>
        /\ executed' = [executed EXCEPT ![e] = @ + 1]
    BY <1>3, <1>e DEF ToolSucceeds
  <2>2. T(e, r) = 1 /\ T(e, r)' = 0
    BY <1>e, <1>m, <2>1 DEF T, Tokens, TokenPcs
  <2>3. InFlight(e)' = InFlight(e)
    BY <1>e, <1>m, <2>1 DEF InFlight, InFlightPcs
  <2>4. O(e)' = O(e)
    BY <2>1, <2>3 DEF O, Open
  <2> QED BY <1>t, <1>e, <1>m, <2>1, <2>2, <2>4, <1>b, ActionDebt DEF Bits
<1>4. CASE ToolFails(r)
  <2>1. PICK class \in {"transient", "permanent"} : Goto(r, class)
    BY <1>4 DEF ToolFails
  <2>2. run[r].pc = "running" /\ UNCHANGED <<row, executed, faults>>
    BY <1>4 DEF ToolFails
  <2>3. T(e, r) = 1
    BY <1>e, <2>2 DEF T, Tokens, TokenPcs
  <2>4. InFlight(e)' = InFlight(e)
    BY <1>e, <1>m, <2>1, <2>2 DEF InFlight, InFlightPcs
  <2>5. O(e)' = O(e)
    BY <2>2, <2>4 DEF O, Open
  <2> QED BY <1>t, <1>e, <1>m, <2>1, <2>2, <2>3, <2>5, <1>b, ActionDebt DEF Bits
<1>5. CASE WriteCompleted(r)
  <2>1. /\ Goto(r, "completed") /\ run[r].pc = "ok" /\ UNCHANGED <<executed, faults>>
        /\ row' = [row EXCEPT ![e] = CompletedRow(run[r].no)]
    BY <1>5, <1>e DEF WriteCompleted
  <2>2. T(e, r)' = 0
    BY <1>m, <2>1 DEF T, Tokens, TokenPcs
  <2>3. O(e)' = 0
    BY <1>t, <2>1 DEF O, Open, CompletedRow
  <2> QED BY <1>t, <1>e, <1>m, <2>1, <2>2, <2>3, <1>b, ActionDebt DEF Bits
<1>6. CASE WriteFailure(r)
  <2>1. /\ run[r].pc \in {"transient", "permanent"} /\ UNCHANGED <<executed, faults>>
        /\ \A a \in Actions \ {e} : row'[a] = row[a]
        /\ Rest(r) \/ Goto(r, "dead")
    BY <1>6, <1>e, <1>t DEF WriteFailure
  <2>2. T(e, r) = 1 /\ T(e, r)' = 0
    BY <1>e, <1>m, <2>1 DEF T, Tokens, TokenPcs
  <2> QED BY <1>t, <1>e, <1>m, <2>1, <2>2, <1>b, ActionDebt DEF Bits
<1>7. CASE OnCompleted(r) \/ OnDead(r) \/ MirrorFailure(r)
  <2>1. /\ Rest(r) \/ Goto(r, "failed")
        /\ run[r].pc \in {"completed", "dead", "failed"} /\ UNCHANGED <<row, executed, faults>>
    BY <1>7 DEF OnCompleted, OnDead, MirrorFailure
  <2> QED BY <1>t, <1>m, <2>1, QuietDebt DEF WorkingPcs, InFlightPcs
<1> QED BY <1>1, <1>2, <1>3, <1>4, <1>5, <1>6, <1>7 DEF AttemptStep

LEMMA StillDebt ==
  ASSUME TypeOK, DebtInv, UNCHANGED <<row, run, executed>>, faults' \in Nat, faults' >= faults
  PROVE  DebtInv'
<1> SUFFICES ASSUME NEW a \in Actions PROVE Debt(a)' <= 1 + faults'
  BY DEF DebtInv
<1>1. Debt(a)' = Debt(a)
  BY DEF Debt, Tokens, Open, InFlight
<1>2. Debt(a) <= 1 + faults /\ executed[a] \in Nat /\ faults \in Nat
  BY DEF DebtInv, TypeOK, GhostTypeOK
<1>3. Cardinality(Tokens(a)) \in Nat
  BY RunnersFinite, FS_CardinalityType DEF Tokens
<1>4. Debt(a) \in Nat
  BY <1>2, <1>3 DEF Debt
<1> QED BY <1>1, <1>2, <1>4

LEMMA LoopDebt ==
  ASSUME TypeOK, TypeOK', DebtInv, TickStep \/ SweepStep
  PROVE  DebtInv'
<1> USE DEF At
<1>t. /\ RunTypeOK /\ row \in [Actions -> RowType] /\ executed \in [Actions -> Nat]
      /\ faults \in Nat /\ Drainer \in Runners
  BY DEF TypeOK, RowTypeOK, GhostTypeOK, Runners
<1>1. CASE Reclaim
  <2>1. ASSUME NEW a \in Actions
        PROVE  executed'[a] + T(a, Drainer)' + O(a)' + faults
                 <= executed[a] + T(a, Drainer) + O(a) + faults'
    <3>1. T(a, Drainer)' = T(a, Drainer)
      BY <1>1 DEF Reclaim, T, Tokens
    <3>2. InFlight(a)' = InFlight(a)
      BY <1>1 DEF Reclaim, InFlight
    <3>3. O(a)' = O(a)
      BY <1>1, <1>t, <3>2 DEF Reclaim, Stale, O, Open, RowType
    <3>4. Bits(a, Drainer) /\ UNCHANGED <<executed, faults>>
      BY <1>1, BitsType DEF Reclaim
    <3> QED BY <1>t, <3>1, <3>3, <3>4 DEF Bits
  <2>2. \A q \in Runners \ {Drainer} : run'[q] = run[q]
    BY <1>1 DEF Reclaim
  <2> QED BY <1>t, <2>1, <2>2, DebtFrame
<1>2. CASE NextRow
  <2>1. PICK b \in batch : Start(Drainer, "ready", b.act, b.no)
    BY <1>2 DEF NextRow
  <2>2. /\ run[Drainer].pc = "idle" /\ run'[Drainer].pc = "ready"
        /\ \A q \in Runners \ {Drainer} : run'[q] = run[q]
        /\ UNCHANGED <<row, executed, faults>>
    BY <1>2, <1>t, <2>1 DEF NextRow, Start, RunTypeOK
  <2> QED BY <1>t, <2>2, QuietDebt DEF WorkingPcs, InFlightPcs
<1>3. CASE ResetRow
  <2>1. PICK e \in Actions : e = run[Drainer].act
    BY <1>3, <1>t, RunnerType DEF ResetRow, TypeOK
  <2>2. /\ run[Drainer].pc = "infra" /\ Rest(Drainer) /\ UNCHANGED <<executed, faults>>
        /\ \A a \in Actions \ {e} : row'[a] = row[a]
    BY <1>3, <1>t, <2>1 DEF ResetRow
  <2>3. /\ run'[Drainer].pc = "idle" /\ run'[Drainer].act = NoAction
        /\ \A q \in Runners \ {Drainer} : run'[q] = run[q]
    BY <1>t, <2>2, Moves
  <2>4. T(e, Drainer) = 1 /\ T(e, Drainer)' = 0
    BY <1>t, <2>1, <2>2, <2>3 DEF T, Tokens, TokenPcs
  <2>5. Bits(e, Drainer) /\ Bits(e, Drainer)'
    BY BitsType
  <2> QED BY <1>t, <2>1, <2>2, <2>3, <2>4, <2>5, ActionDebt DEF Bits
<1>4. CASE FindDue \/ WakeSnoozed \/ SweepStep
  <2>1. UNCHANGED <<row, run, executed, faults>>
    BY <1>4 DEF FindDue, WakeSnoozed, SweepStep, ExpiryReads, ExpiryClaims, ExpiryMirrors
  <2> QED BY <1>t, <2>1, StillDebt
<1> QED BY <1>1, <1>2, <1>3, <1>4 DEF TickStep

\* A fault adds one to the debt at most, and is counted.
LEMMA FaultDebt ==
  ASSUME TypeOK, TypeOK', DebtInv, FaultStep
  PROVE  DebtInv'
<1> USE DEF At
<1>t. /\ RunTypeOK /\ row \in [Actions -> RowType] /\ executed \in [Actions -> Nat]
      /\ faults \in Nat /\ Slots \subseteq Runners /\ Drainer \in Runners
  BY DEF TypeOK, RowTypeOK, GhostTypeOK, Runners
<1>f. \A k : Fault(k) => faults' = faults + 1
  BY DEF Fault
\* A runner that dies: its row may open, its token goes.
<1>d. ASSUME NEW r \in Runners, Rest(r), UNCHANGED <<row, executed>>, faults' = faults + 1
      PROVE  DebtInv'
  <2>1. /\ run'[r].pc = "idle" /\ run'[r].act = NoAction
        /\ \A q \in Runners \ {r} : run'[q] = run[q]
    BY <1>d, <1>t, Moves
  <2>2. CASE run[r].pc = "idle"
    BY <1>d, <1>t, <2>1, <2>2, QuietDebt DEF WorkingPcs, InFlightPcs
  <2>3. CASE run[r].pc # "idle"
    <3>1. PICK e \in Actions : e = run[r].act
      BY <2>3, <1>t DEF RunTypeOK
    <3>2. T(e, r)' = 0
      BY <2>1 DEF T, Tokens, TokenPcs
    <3>3. Bits(e, r) /\ Bits(e, r)'
      BY BitsType
    <3> QED BY <1>d, <1>t, <2>1, <3>1, <3>2, <3>3, ActionDebt DEF Bits
  <2> QED BY <2>2, <2>3
<1>1. ASSUME NEW s \in Slots, CrashSlot(s) PROVE DebtInv'
  BY <1>1, <1>d, <1>f, <1>t DEF CrashSlot
<1>2. CASE CrashTick
  BY <1>2, <1>d, <1>f, <1>t DEF CrashTick
<1>3. CASE ResetFails
  BY <1>3, <1>d, <1>f, <1>t DEF ResetFails
<1>4. ASSUME NEW r \in Runners, SideEffectsFail(r) PROVE DebtInv'
  BY <1>4, <1>d, <1>f, <1>t DEF SideEffectsFail
<1>5. CASE CrashSweep
  <2>1. UNCHANGED <<row, run, executed>> /\ faults' = faults + 1
    BY <1>5, <1>f DEF CrashSweep
  <2> QED BY <1>t, <2>1, StillDebt
<1>6. ASSUME NEW s \in Slots, MirrorApprovalFails(s) PROVE DebtInv'
  <2>1. /\ run[s].pc = "approved" /\ Goto(s, "mirrored") /\ UNCHANGED <<row, executed>>
        /\ faults' = faults + 1
    BY <1>6, <1>f DEF MirrorApprovalFails
  <2>2. /\ s \in Runners /\ run'[s].pc = "mirrored"
        /\ \A q \in Runners \ {s} : run'[q] = run[q]
    BY <1>t, <2>1, Moves
  <2> QED BY <1>t, <2>1, <2>2, QuietDebt DEF WorkingPcs, InFlightPcs
<1>7. ASSUME NEW r \in Runners,
             ToolMisreports(r) \/ ClaimFails(r) \/ CompletedWriteFails(r) \/ FailureWriteFails(r)
      PROVE  DebtInv'
  <2>e. PICK e \in Actions : e = run[r].act
    BY <1>7, RunnerType DEF TypeOK, ToolMisreports, ClaimFails, CompletedWriteFails,
       FailureWriteFails
  <2>m. /\ \A p : Goto(r, p) => /\ run'[r].pc = p /\ run'[r].act = e
                                /\ \A q \in Runners \ {r} : run'[q] = run[q]
        /\ Rest(r) => /\ run'[r].pc = "idle" /\ run'[r].act = NoAction
                      /\ \A q \in Runners \ {r} : run'[q] = run[q]
    BY <1>t, <2>e, Moves
  <2>b. Bits(e, r) /\ Bits(e, r)'
    BY BitsType
  <2>1. CASE ToolMisreports(r)
    <3>1. PICK class \in {"transient", "permanent"} : Goto(r, class)
      BY <2>1 DEF ToolMisreports
    <3>2. /\ run[r].pc = "running" /\ UNCHANGED row /\ faults' = faults + 1
          /\ executed' = [executed EXCEPT ![e] = @ + 1]
      BY <2>1, <2>e, <1>f DEF ToolMisreports
    <3>3. T(e, r) = 1
      BY <2>e, <3>2 DEF T, Tokens, TokenPcs
    <3>4. InFlight(e)' = InFlight(e)
      BY <2>e, <2>m, <3>1, <3>2 DEF InFlight, InFlightPcs
    <3>5. O(e)' = O(e)
      BY <3>2, <3>4 DEF O, Open
    <3> QED BY <1>t, <2>e, <2>m, <2>b, <3>1, <3>2, <3>3, <3>5, ActionDebt DEF Bits
  <2>2. CASE ClaimFails(r)
    <3>1. /\ run[r].pc = "ready" /\ Escape(r) /\ UNCHANGED executed /\ faults' = faults + 1
          /\ \A a \in Actions \ {e} : row'[a] = row[a]
          /\ ~Claimable(e) => row' = row
      BY <2>2, <2>e, <1>f, <1>t DEF ClaimFails, FailingWrite
    <3>2. Goto(r, "infra") \/ Rest(r)
      BY <3>1 DEF Escape
    <3>3. T(e, r) = 0
      BY <3>1 DEF T, Tokens, TokenPcs
    <3>4. InFlight(e)' = InFlight(e)
      BY <2>e, <2>m, <3>1, <3>2 DEF InFlight, InFlightPcs
    <3>5. O(e)' <= O(e)
      <4>1. CASE Claimable(e)
        BY <4>1, <2>b DEF Claimable, O, Open, Bits
      <4>2. CASE ~Claimable(e)
        <5>1. O(e)' = O(e)
          BY <4>2, <3>1, <3>4 DEF O, Open
        <5> QED BY <5>1, <2>b DEF Bits
      <4> QED BY <4>1, <4>2
    <3> QED BY <1>t, <2>e, <2>m, <2>b, <3>1, <3>2, <3>3, <3>5, ActionDebt DEF Bits
  <2>3. CASE CompletedWriteFails(r)
    <3>1. PICK class \in {"transient", "permanent"} : Goto(r, class)
      BY <2>3 DEF CompletedWriteFails
    <3>2. /\ run[r].pc = "ok" /\ UNCHANGED executed /\ faults' = faults + 1
          /\ row' = row \/ row' = [row EXCEPT ![e] = CompletedRow(run[r].no)]
      BY <2>3, <2>e, <1>f DEF CompletedWriteFails, FailingWrite
    <3>3. InFlight(e)' = InFlight(e)
      BY <2>e, <2>m, <3>1, <3>2 DEF InFlight, InFlightPcs
    <3>4. O(e)' <= O(e)
      <4>1. CASE row' = row
        <5>1. O(e)' = O(e)
          BY <4>1, <3>3 DEF O, Open
        <5> QED BY <5>1, <2>b DEF Bits
      <4>2. CASE row' = [row EXCEPT ![e] = CompletedRow(run[r].no)]
        <5>1. O(e)' = 0
          BY <4>2, <1>t DEF O, Open, CompletedRow
        <5> QED BY <5>1, <2>b DEF Bits
      <4> QED BY <3>2, <4>1, <4>2
    <3>5. \A a \in Actions \ {e} : row'[a] = row[a]
      BY <1>t, <3>2
    <3> QED BY <1>t, <2>e, <2>m, <2>b, <3>1, <3>2, <3>4, <3>5, ActionDebt DEF Bits
  <2>4. CASE FailureWriteFails(r)
    <3>1. /\ run[r].pc \in {"transient", "permanent"} /\ Escape(r) /\ UNCHANGED executed
          /\ faults' = faults + 1 /\ \A a \in Actions \ {e} : row'[a] = row[a]
      BY <2>4, <2>e, <1>f, <1>t DEF FailureWriteFails, FailingWrite
    <3>2. Goto(r, "infra") \/ Rest(r)
      BY <3>1 DEF Escape
    <3>3. T(e, r) = 1
      BY <2>e, <3>1 DEF T, Tokens, TokenPcs
    <3> QED BY <1>t, <2>e, <2>m, <2>b, <3>1, <3>2, <3>3, ActionDebt DEF Bits
  <2> QED BY <1>7, <2>1, <2>2, <2>3, <2>4
<1>8. ASSUME NEW x \in Actions, SlowAttempt(x) PROVE DebtInv'
  <2>1. /\ UNCHANGED <<run, executed>> /\ faults' = faults + 1
        /\ row' = [row EXCEPT ![x].ripe = TRUE]
    BY <1>8, <1>f DEF SlowAttempt
  <2>2. ASSUME NEW a \in Actions
        PROVE  executed'[a] + T(a, Drainer)' + O(a)' + faults
                 <= executed[a] + T(a, Drainer) + O(a) + faults'
    <3>1. T(a, Drainer)' = T(a, Drainer)
      BY <2>1 DEF T, Tokens
    <3>2. Bits(a, Drainer) /\ Bits(a, Drainer)'
      BY BitsType
    <3> QED BY <1>t, <2>1, <3>1, <3>2 DEF Bits
  <2> QED BY <1>t, <2>1, <2>2, DebtFrame
<1> QED BY <1>1, <1>2, <1>3, <1>4, <1>5, <1>6, <1>7, <1>8 DEF FaultStep

LEMMA NextDebt == TypeOK /\ TypeOK' /\ IntentInv /\ DebtInv /\ [Next]_vars => DebtInv'
<1> SUFFICES ASSUME TypeOK, TypeOK', IntentInv, DebtInv, [Next]_vars PROVE DebtInv'
  OBVIOUS
<1>t. /\ RunTypeOK /\ row \in [Actions -> RowType] /\ executed \in [Actions -> Nat]
      /\ faults \in Nat /\ Slots \subseteq Runners /\ Drainer \in Runners
  BY DEF TypeOK, RowTypeOK, GhostTypeOK, Runners
<1>1. ASSUME NEW s \in Slots, NEW a \in Actions, NEW p \in {"approving", "rejecting", "snoozing"},
             ReadPending(s, a, p)
      PROVE  DebtInv'
  <2>1. /\ run[s].pc = "idle" /\ run'[s].pc = p
        /\ \A q \in Runners \ {s} : run'[q] = run[q]
        /\ UNCHANGED <<row, executed, faults>>
    BY <1>1, <1>t DEF ReadPending, At, Start, RunTypeOK
  <2> QED BY <1>t, <2>1, QuietDebt DEF WorkingPcs, InFlightPcs
<1>2. ASSUME NEW x \in Actions, ClockPasses(x) PROVE DebtInv'
  <2>1. /\ UNCHANGED <<run, executed, faults>> /\ row' = [row EXCEPT ![x].ripe = TRUE]
        /\ row[x].status = "QUEUED" \/ (row[x].status = "IN_PROGRESS" /\ InFlight(x) = {})
    BY <1>2 DEF ClockPasses
  <2>2. ASSUME NEW a \in Actions
        PROVE  executed'[a] + T(a, Drainer)' + O(a)' + faults
                 <= executed[a] + T(a, Drainer) + O(a) + faults'
    <3>1. T(a, Drainer)' = T(a, Drainer)
      BY <2>1 DEF T, Tokens
    <3>2. InFlight(a)' = InFlight(a)
      BY <2>1 DEF InFlight
    <3>3. O(a)' = O(a)
      BY <1>t, <2>1, <3>2 DEF O, Open, RowType
    <3>4. Bits(a, Drainer)
      BY BitsType
    <3> QED BY <1>t, <2>1, <3>1, <3>3, <3>4 DEF Bits
  <2> QED BY <1>t, <2>1, <2>2, DebtFrame
<1>3. CASE UNCHANGED vars
  BY <1>3, <1>t, StillDebt DEF vars
<1> QED
  BY <1>1, <1>2, <1>3, RequestDebt, AttemptDebt, LoopDebt, FaultDebt DEF Next

\* Every effect of an action after the first is accounted for by a fault: the
\* inline attempt and the worker alone never repeat a tool call.
THEOREM EffectsArePaid == Spec => []EffectsPaidByFaults
<1>1. Init => DebtInv
  <2> SUFFICES ASSUME Init, NEW a \in Actions PROVE Debt(a) <= 1 + faults
    BY DEF DebtInv
  <2>1. Tokens(a) = {}
    BY DEF Init, Tokens, TokenPcs, IdleRun
  <2>2. executed[a] = 0 /\ faults = 0 /\ ~Open(a)
    BY DEF Init, Open
  <2> QED BY <2>1, <2>2, FS_EmptySet DEF Debt
<1>2. TypeOK /\ DebtInv => EffectsPaidByFaults
  <2> SUFFICES ASSUME TypeOK, DebtInv, NEW a \in Actions PROVE executed[a] <= 1 + faults
    BY DEF EffectsPaidByFaults
  <2>1. Cardinality(Tokens(a)) \in Nat
    BY RunnersFinite, FS_CardinalityType DEF Tokens
  <2>2. executed[a] \in Nat /\ faults \in Nat /\ O(a) \in {0, 1}
    BY DEF TypeOK, GhostTypeOK, O
  <2>3. executed[a] + Cardinality(Tokens(a)) + O(a) <= 1 + faults
    BY DEF DebtInv, Debt, O
  <2> QED BY <2>1, <2>2, <2>3
<1> QED
  BY <1>1, <1>2, NextDebt, TypeCorrect, IntentCorrect, PTL DEF Spec
=============================================================================
